-------------------------- MODULE TraceIndexProofs --------------------------
(* What the operators of TraceIndex compute, for any events and any frames. *)
EXTENDS TraceIndex, FiniteSetTheorems, WellFoundedInduction, TLAPS

-----------------------------------------------------------------------------
(* Induction over numbers, and folds. *)
LEMMA LeastNumber ==
  ASSUME NEW T \in SUBSET Nat, T # {}
  PROVE  \E x \in T : \A y \in T : x <= y
<1> DEFINE R == OpToRel(<, Nat)
<1>1. IsWellFoundedOn(R, Nat)
  BY NatLessThanWellFounded
<1> HIDE DEF R
<1>2. \E x \in T : \A y \in T : ~(<<y, x>> \in R)
  BY <1>1, WFMin
<1>3. R = {ss \in Nat \X Nat : ss[1] < ss[2]}
  BY DEF R, OpToRel
<1>4. \A x, y \in Nat : y < x => <<y, x>> \in R
  BY <1>3
<1>5. PICK x \in T : \A y \in T : ~(<<y, x>> \in R)
  BY <1>2
<1> HIDE DEF R
<1>6. \A y \in T : x <= y
  <2> TAKE y \in T
  <2>1. x \in Nat /\ y \in Nat
    OBVIOUS
  <2>2. ~(y < x)
    BY <1>4, <1>5, <2>1
  <2> QED
    BY <2>1, <2>2
<1> QED
  BY <1>6

LEMMA UpTo ==
  ASSUME NEW n \in Nat, NEW S, 0 \in S, \A k \in 0..n : k \in S /\ k < n => k + 1 \in S
  PROVE  \A k \in 0..n : k \in S
<1> SUFFICES ASSUME (0..n) \ S # {} PROVE FALSE
  OBVIOUS
<1>1. (0..n) \ S \in SUBSET Nat
  OBVIOUS
<1>2. PICK x \in (0..n) \ S : \A y \in (0..n) \ S : x <= y
  BY <1>1, LeastNumber
<1>3. x # 0 /\ x - 1 \in 0..n /\ x - 1 < n /\ x - 1 \in S
  BY <1>2
<1> QED
  BY <1>2, <1>3

\* A recursive function exists when its steps stay within a set.
IsFold(f, base, step, n) == f = [k \in 0..n |-> IF k = 0 THEN base ELSE step[k][f[k - 1]]]

LEMMA FoldExists ==
  ASSUME NEW Q, NEW n \in Nat, NEW base \in Q, NEW step \in [1..n -> [Q -> Q]]
  PROVE  \E f \in [0..n -> Q] : IsFold(f, base, step, n)
<1> DEFINE S == {m \in 0..n : \E f \in [0..m -> Q] : IsFold(f, base, step, m)}
<1>1. 0 \in S
  <2>1. PICK f : f = [k \in 0..0 |-> base]
    OBVIOUS
  <2>2. f = [k \in 0..0 |-> IF k = 0 THEN base ELSE step[k][f[k - 1]]]
    BY <2>1
  <2>3. f \in [0..0 -> Q]
    BY <2>1
  <2> QED
    BY <2>2, <2>3 DEF IsFold
<1>2. ASSUME NEW m \in 0..n, m \in S, m < n PROVE m + 1 \in S
  <2>1. PICK f \in [0..m -> Q] : IsFold(f, base, step, m)
    BY <1>2
  <2>2. m \in 0..m /\ f[m] \in Q /\ m + 1 \in 1..n /\ step[m + 1] \in [Q -> Q]
    BY <1>2
  <2>3. step[m + 1][f[m]] \in Q
    BY <2>2
  <2>4. PICK g : g = [k \in 0..m + 1 |-> IF k = m + 1 THEN step[m + 1][f[m]] ELSE f[k]]
    OBVIOUS
  <2>5. \A k \in 0..m + 1 : g[k] \in Q
    BY <2>3, <2>4
  <2>6. ASSUME NEW k \in 0..m + 1 PROVE g[k] = IF k = 0 THEN base ELSE step[k][g[k - 1]]
    <3>1. CASE k = m + 1
      <4>1. m \in 0..m + 1 /\ m # m + 1 /\ k # 0 /\ k - 1 = m
        BY <3>1
      <4>2. g[m] = f[m] /\ g[k] = step[k][f[m]]
        BY <2>4, <3>1, <4>1
      <4> QED
        BY <4>1, <4>2
    <3>2. CASE k # m + 1
      <4>1. k \in 0..m /\ (k # 0 => k - 1 \in 0..m + 1 /\ k - 1 # m + 1)
        BY <3>2
      <4>2. g[k] = f[k] /\ (k # 0 => g[k - 1] = f[k - 1])
        BY <2>4, <3>2, <4>1
      <4>3. f[k] = IF k = 0 THEN base ELSE step[k][f[k - 1]]
        BY <2>1, <4>1 DEF IsFold
      <4> QED
        BY <4>2, <4>3
    <3> QED
      BY <3>1, <3>2
  <2>7. g = [k \in 0..m + 1 |-> IF k = 0 THEN base ELSE step[k][g[k - 1]]]
    <3>1. g = [k \in 0..m + 1 |-> g[k]]
      BY <2>4
    <3> QED
      BY <2>6, <3>1
  <2>8. g \in [0..m + 1 -> Q] /\ IsFold(g, base, step, m + 1)
    BY <2>4, <2>5, <2>7 DEF IsFold
  <2> QED
    BY <1>2, <2>8
<1> HIDE DEF S
<1>3. \A k \in 0..n : k \in S /\ k < n => k + 1 \in S
  BY <1>2
<1>4. \A k \in 0..n : k \in S
  BY <1>1, <1>3, UpTo
<1>5. n \in S
  BY <1>4
<1> QED
  BY <1>5 DEF S

(* The least member of a finite set, in any order. *)
Orders(R, S) ==
  /\ \A x, y, z \in S : <<x, y>> \in R /\ <<y, z>> \in R => <<x, z>> \in R
  /\ \A x, y \in S : x # y => <<x, y>> \in R \/ <<y, x>> \in R
  /\ \A x \in S : <<x, x>> \notin R

LEMMA FiniteLeast ==
  ASSUME NEW S, IsFiniteSet(S), S # {}, NEW R, Orders(R, S)
  PROVE  \E x \in S : \A y \in S \ {x} : <<x, y>> \in R
<1>1. PICK n \in Nat : ExistsBijection(1..n, S)
  BY FS_NatBijection
<1>2. PICK f \in Bijection(1..n, S) : TRUE
  BY <1>1 DEF ExistsBijection
<1>3. f \in [1..n -> S] /\ \A y \in S : \E k \in 1..n : f[k] = y
  BY <1>2 DEF Bijection, Injection, Surjection
<1> DEFINE T == {k \in 0..n : k = 0 \/ \E a \in 1..k : \A b \in 1..k : f[b] = f[a] \/ <<f[a], f[b]>> \in R}
<1>4. 0 \in T
  OBVIOUS
<1>5. ASSUME NEW k \in 0..n, k \in T, k < n PROVE k + 1 \in T
  <2>1. CASE k = 0
    <3>1. \A b \in 1..k + 1 : f[b] = f[1]
      BY <2>1
    <3> QED
      BY <1>5, <2>1, <3>1
  <2>2. CASE k # 0
    <3>1. PICK a \in 1..k : \A b \in 1..k : f[b] = f[a] \/ <<f[a], f[b]>> \in R
      BY <1>5, <2>2
    <3>2. a \in 1..k + 1 /\ a \in 1..n /\ k + 1 \in 1..n /\ k + 1 \in 1..k + 1
      BY <1>5
    <3>3. f[a] \in S /\ f[k + 1] \in S
      BY <1>3, <3>2
    <3>4. CASE f[k + 1] = f[a] \/ <<f[a], f[k + 1]>> \in R
      <4>1. \A b \in 1..k + 1 : b \in 1..k \/ b = k + 1
        BY <1>5
      <4>2. \A b \in 1..k + 1 : f[b] = f[a] \/ <<f[a], f[b]>> \in R
        BY <3>1, <3>4, <4>1
      <4> QED
        BY <1>5, <3>2, <4>2
    <3>5. CASE ~(f[k + 1] = f[a] \/ <<f[a], f[k + 1]>> \in R)
      <4>1. <<f[k + 1], f[a]>> \in R
        BY <3>3, <3>5 DEF Orders
      <4>2. ASSUME NEW b \in 1..k + 1 PROVE f[b] = f[k + 1] \/ <<f[k + 1], f[b]>> \in R
        <5>1. b \in 1..n /\ f[b] \in S /\ (b \in 1..k \/ b = k + 1)
          BY <1>3, <1>5
        <5>2. CASE b \in 1..k
          BY <3>1, <3>3, <4>1, <5>1, <5>2 DEF Orders
        <5> QED
          BY <5>1, <5>2
      <4> QED
        BY <1>5, <3>2, <4>2
    <3> QED
      BY <3>4, <3>5
  <2> QED
    BY <2>1, <2>2
<1>6. n \in T
  <2> HIDE DEF T
  <2>1. \A k \in 0..n : k \in T /\ k < n => k + 1 \in T
    BY <1>5
  <2>2. \A k \in 0..n : k \in T
    BY <1>4, <2>1, UpTo
  <2> QED
    BY <2>2
<1>7. n # 0
  BY <1>3
<1>8. PICK a \in 1..n : \A b \in 1..n : f[b] = f[a] \/ <<f[a], f[b]>> \in R
  BY <1>6, <1>7
<1> QED
  BY <1>3, <1>8

LEMMA FiniteMin ==
  ASSUME NEW S \in SUBSET Int, IsFiniteSet(S), S # {}
  PROVE  Min(S) \in S /\ \A y \in S : Min(S) <= y
<1> DEFINE R == {p \in S \X S : p[1] < p[2]}
<1>1. \A x, y \in S : <<x, y>> \in R <=> x < y
  OBVIOUS
<1> HIDE DEF R
<1>2. Orders(R, S)
  BY <1>1 DEF Orders
<1>3. \E x \in S : \A y \in S \ {x} : <<x, y>> \in R
  BY <1>2, FiniteLeast
<1>4. \E x \in S : \A y \in S : x <= y
  <2>1. PICK x \in S : \A y \in S \ {x} : <<x, y>> \in R
    BY <1>3
  <2>2. ASSUME NEW y \in S PROVE x <= y
    <3>1. x \in Int /\ y \in Int
      OBVIOUS
    <3>2. CASE x = y
      BY <3>1, <3>2
    <3>3. CASE x # y
      <4>1. <<x, y>> \in R
        BY <2>1, <3>3
      <4>2. x < y
        BY <1>1, <4>1
      <4> QED
        BY <3>1, <4>2
    <3> QED
      BY <3>2, <3>3
  <2> QED
    BY <2>2
<1> QED
  BY <1>4 DEF Min

LEMMA FiniteMax ==
  ASSUME NEW S \in SUBSET Int, IsFiniteSet(S), S # {}
  PROVE  Max(S) \in S /\ \A y \in S : Max(S) >= y
<1> DEFINE R == {p \in S \X S : p[1] > p[2]}
<1>1. \A x, y \in S : <<x, y>> \in R <=> x > y
  OBVIOUS
<1> HIDE DEF R
<1>2. Orders(R, S)
  BY <1>1 DEF Orders
<1>3. \E x \in S : \A y \in S \ {x} : <<x, y>> \in R
  BY <1>2, FiniteLeast
<1>4. \E x \in S : \A y \in S : x >= y
  <2>1. PICK x \in S : \A y \in S \ {x} : <<x, y>> \in R
    BY <1>3
  <2>2. ASSUME NEW y \in S PROVE x >= y
    <3>1. x \in Int /\ y \in Int
      OBVIOUS
    <3>2. CASE x = y
      BY <3>1, <3>2
    <3>3. CASE x # y
      <4>1. <<x, y>> \in R
        BY <2>1, <3>3
      <4>2. x > y
        BY <1>1, <4>1
      <4> QED
        BY <3>1, <4>2
    <3> QED
      BY <3>2, <3>3
  <2> QED
    BY <2>2
<1> QED
  BY <1>4 DEF Max

-----------------------------------------------------------------------------
(* Sorting. *)
LeastOf(rest, R) == CHOOSE x \in rest : \A y \in rest \ {x} : <<x, y>> \in R

\* The step of Sorted, as far as it is used.
Selects(g, S, R, n) ==
  /\ g[0] = <<>>
  /\ \A k \in 1..n : S \ ToSet(g[k - 1]) # {} => g[k] = Append(g[k - 1], LeastOf(S \ ToSet(g[k - 1]), R))

\* The first k of S.
FirstOf(q, k, S, R) ==
  /\ q \in Seq(S) /\ Len(q) = k
  /\ IsFiniteSet(ToSet(q)) /\ Cardinality(ToSet(q)) = k
  /\ \A i, j \in 1..k : i < j => <<q[i], q[j]>> \in R
  /\ \A i \in 1..k : \A x \in S \ ToSet(q) : <<q[i], x>> \in R

LEMMA LeastOfRest ==
  ASSUME NEW S, IsFiniteSet(S), NEW R, Orders(R, S), NEW rest \in SUBSET S, rest # {}
  PROVE  LeastOf(rest, R) \in rest /\ \A y \in rest \ {LeastOf(rest, R)} : <<LeastOf(rest, R), y>> \in R
<1>1. IsFiniteSet(rest)
  BY FS_Subset
<1>2. Orders(R, rest)
  BY DEF Orders
<1>3. \E x \in rest : \A y \in rest \ {x} : <<x, y>> \in R
  BY <1>1, <1>2, FiniteLeast
<1> QED
  BY <1>3 DEF LeastOf

LEMMA SelectsOne ==
  ASSUME NEW S, IsFiniteSet(S), NEW R, Orders(R, S), NEW q, NEW k \in Nat, k < Cardinality(S), FirstOf(q, k, S, R)
  PROVE  S \ ToSet(q) # {} /\ FirstOf(Append(q, LeastOf(S \ ToSet(q), R)), k + 1, S, R)
<1>1. q \in Seq(S) /\ Len(q) = k /\ IsFiniteSet(ToSet(q)) /\ Cardinality(ToSet(q)) = k
  BY DEF FirstOf
<1>2. S \ ToSet(q) # {}
  <2> SUFFICES ASSUME S \subseteq ToSet(q) PROVE FALSE
    OBVIOUS
  <2>1. S \in SUBSET ToSet(q)
    OBVIOUS
  <2>2. Cardinality(S) <= Cardinality(ToSet(q))
    BY <1>1, <2>1, FS_Subset
  <2>3. Cardinality(S) \in Nat
    BY FS_CardinalityType
  <2> QED
    BY <1>1, <2>2, <2>3
<1>3. PICK x : x = LeastOf(S \ ToSet(q), R)
  OBVIOUS
<1>4. x \in S \ ToSet(q) /\ \A y \in (S \ ToSet(q)) \ {x} : <<x, y>> \in R
  <2>1. (S \ ToSet(q)) \in SUBSET S
    OBVIOUS
  <2> QED
    BY <1>2, <1>3, <2>1, LeastOfRest
<1>5. PICK p : p = Append(q, x)
  OBVIOUS
<1>6. p \in Seq(S) /\ Len(p) = k + 1 /\ p[k + 1] = x /\ \A i \in 1..k : p[i] = q[i]
  BY <1>1, <1>4, <1>5
<1>7. ToSet(p) = ToSet(q) \cup {x}
  <2>1. DOMAIN p = 1..k + 1 /\ DOMAIN q = 1..k
    BY <1>1, <1>6
  <2>2. \A i \in 1..k + 1 : i \in 1..k \/ i = k + 1
    OBVIOUS
  <2>3. 1..k \subseteq 1..k + 1 /\ k + 1 \in 1..k + 1
    OBVIOUS
  <2> QED
    BY <1>6, <2>1, <2>2, <2>3 DEF ToSet
<1>8. IsFiniteSet(ToSet(p)) /\ Cardinality(ToSet(p)) = k + 1
  BY <1>1, <1>4, <1>7, FS_AddElement
<1>9. \A i \in 1..k : q[i] \in ToSet(q)
  BY <1>1 DEF ToSet
<1>10. ASSUME NEW i \in 1..k + 1, NEW j \in 1..k + 1, i < j PROVE <<p[i], p[j]>> \in R
  <2>1. i \in 1..k /\ (j \in 1..k \/ j = k + 1)
    BY <1>10
  <2>2. CASE j \in 1..k
    <3>1. <<q[i], q[j]>> \in R
      BY <1>10, <2>1, <2>2 DEF FirstOf
    <3> QED
      BY <1>6, <2>1, <2>2, <3>1
  <2>3. CASE j = k + 1
    <3>1. <<q[i], x>> \in R
      BY <1>4, <2>1 DEF FirstOf
    <3> QED
      BY <1>6, <2>1, <2>3, <3>1
  <2> QED
    BY <2>1, <2>2, <2>3
<1>11. ASSUME NEW i \in 1..k + 1, NEW y \in S \ ToSet(p) PROVE <<p[i], y>> \in R
  <2>1. y \in (S \ ToSet(q)) \ {x}
    BY <1>7
  <2>2. CASE i \in 1..k
    <3>1. <<q[i], y>> \in R
      BY <2>1, <2>2 DEF FirstOf
    <3> QED
      BY <1>6, <2>2, <3>1
  <2>3. CASE i = k + 1
    BY <1>4, <1>6, <2>1, <2>3
  <2> QED
    BY <2>2, <2>3
<1>12. FirstOf(p, k + 1, S, R)
  BY <1>6, <1>8, <1>10, <1>11 DEF FirstOf
<1> QED
  BY <1>2, <1>3, <1>5, <1>12

LEMMA SelectsAll ==
  ASSUME NEW S, IsFiniteSet(S), NEW R, Orders(R, S), NEW g, Selects(g, S, R, Cardinality(S))
  PROVE  \A k \in 0..Cardinality(S) : FirstOf(g[k], k, S, R)
<1>1. PICK n \in Nat : n = Cardinality(S)
  BY FS_CardinalityType
<1> DEFINE T == {k \in 0..n : FirstOf(g[k], k, S, R)}
<1>2. 0 \in T
  <2>1. g[0] = <<>> /\ ToSet(<<>>) = {}
    BY DEF Selects, ToSet
  <2>2. IsFiniteSet(ToSet(g[0])) /\ Cardinality(ToSet(g[0])) = 0
    BY <2>1, FS_EmptySet
  <2>3. g[0] \in Seq(S) /\ Len(g[0]) = 0
    BY <2>1
  <2> QED
    BY <2>2, <2>3 DEF FirstOf
<1>3. ASSUME NEW k \in 0..n, k \in T, k < n PROVE k + 1 \in T
  <2>1. k \in Nat /\ k < Cardinality(S) /\ FirstOf(g[k], k, S, R) /\ k + 1 \in 1..n /\ (k + 1) - 1 = k /\ k + 1 \in 0..n
    BY <1>1, <1>3
  <2>2. S \ ToSet(g[k]) # {} /\ FirstOf(Append(g[k], LeastOf(S \ ToSet(g[k]), R)), k + 1, S, R)
    BY <2>1, SelectsOne
  <2>3. g[k + 1] = Append(g[k], LeastOf(S \ ToSet(g[k]), R))
    BY <1>1, <2>1, <2>2 DEF Selects
  <2> QED
    BY <2>1, <2>2, <2>3
<1> HIDE DEF T
<1>4. \A k \in 0..n : k \in T
  BY <1>2, <1>3, UpTo
<1> QED
  BY <1>1, <1>4 DEF T

IsSelection(g, S, R, n) ==
  g = [k \in 0..n |-> IF k = 0 THEN <<>> ELSE Append(g[k - 1], LeastOf(S \ ToSet(g[k - 1]), R))]

LEMMA SelectionExists ==
  ASSUME NEW S, IsFiniteSet(S), NEW R, Orders(R, S), NEW n, n = Cardinality(S)
  PROVE  \E g : IsSelection(g, S, R, n)
<1>1. n \in Nat
  BY FS_CardinalityType
<1>2. PICK step : step = [k \in 1..n |-> [q \in Seq(S) |-> IF S \ ToSet(q) # {} THEN Append(q, LeastOf(S \ ToSet(q), R)) ELSE q]]
  OBVIOUS
<1>3. ASSUME NEW q \in Seq(S), S \ ToSet(q) # {} PROVE Append(q, LeastOf(S \ ToSet(q), R)) \in Seq(S)
  <2>1. (S \ ToSet(q)) \in SUBSET S
    OBVIOUS
  <2>2. LeastOf(S \ ToSet(q), R) \in S
    BY <1>3, <2>1, LeastOfRest
  <2> QED
    BY <2>2
<1>4. step \in [1..n -> [Seq(S) -> Seq(S)]]
  BY <1>2, <1>3
<1>5. <<>> \in Seq(S)
  OBVIOUS
<1>6. PICK g \in [0..n -> Seq(S)] : IsFold(g, <<>>, step, n)
  BY <1>1, <1>4, <1>5, FoldExists
<1>7. \A k \in 0..n : g[k] = IF k = 0 THEN <<>> ELSE step[k][g[k - 1]]
  BY <1>6 DEF IsFold
<1>8. Selects(g, S, R, n)
  <2>1. g[0] = <<>>
    BY <1>1, <1>7
  <2>2. ASSUME NEW k \in 1..n, S \ ToSet(g[k - 1]) # {}
        PROVE  g[k] = Append(g[k - 1], LeastOf(S \ ToSet(g[k - 1]), R))
    <3>1. k \in 0..n /\ k # 0 /\ k - 1 \in 0..n /\ g[k - 1] \in Seq(S)
      BY <1>1
    <3>2. g[k] = step[k][g[k - 1]]
      BY <1>7, <3>1
    <3> QED
      BY <1>2, <2>2, <3>1, <3>2
  <2> QED
    BY <2>1, <2>2 DEF Selects
<1>9. \A k \in 0..n : FirstOf(g[k], k, S, R)
  BY <1>8, SelectsAll
<1>10. ASSUME NEW k \in 0..n
       PROVE  g[k] = IF k = 0 THEN <<>> ELSE Append(g[k - 1], LeastOf(S \ ToSet(g[k - 1]), R))
  <2>1. CASE k = 0
    BY <1>7, <2>1
  <2>2. CASE k # 0
    <3>1. k \in 1..n /\ k - 1 \in 0..n /\ k - 1 \in Nat /\ k - 1 < Cardinality(S)
      BY <1>1, <2>2
    <3>2. FirstOf(g[k - 1], k - 1, S, R)
      BY <1>9, <3>1
    <3>3. S \ ToSet(g[k - 1]) # {}
      BY <3>1, <3>2, SelectsOne
    <3> QED
      BY <1>8, <2>2, <3>1, <3>3 DEF Selects
  <2> QED
    BY <2>1, <2>2
<1>11. g = [k \in 0..n |-> g[k]]
  BY <1>6
<1>12. g = [k \in 0..n |-> IF k = 0 THEN <<>> ELSE Append(g[k - 1], LeastOf(S \ ToSet(g[k - 1]), R))]
  BY <1>10, <1>11
<1> QED
  BY <1>12 DEF IsSelection

\* What a sorted sequence is.
Sorts(s, S, R) ==
  /\ s \in Seq(S) /\ Len(s) = Cardinality(S)
  /\ \A x \in S : \E k \in 1..Len(s) : s[k] = x
  /\ \A j, k \in 1..Len(s) : j < k => <<s[j], s[k]>> \in R

LEMMA SortedSorts ==
  ASSUME NEW S, IsFiniteSet(S), NEW R, Orders(R, S)
  PROVE  Sorts(Sorted(S, R), S, R)
<1>1. PICK n \in Nat : n = Cardinality(S)
  BY FS_CardinalityType
<1>2. PICK g : g = CHOOSE f : f = [k \in 0..n |-> IF k = 0 THEN <<>> ELSE Append(f[k - 1], LeastOf(S \ ToSet(f[k - 1]), R))]
  OBVIOUS
<1>3. Sorted(S, R) = g[n]
  BY <1>1, <1>2 DEF Sorted, LeastOf
<1>4. g = [k \in 0..n |-> IF k = 0 THEN <<>> ELSE Append(g[k - 1], LeastOf(S \ ToSet(g[k - 1]), R))]
  <2>1. \E f : IsSelection(f, S, R, n)
    BY <1>1, SelectionExists
  <2> QED
    BY <1>2, <2>1 DEF IsSelection
<1>5. Selects(g, S, R, n)
  <2>1. g[0] = <<>>
    BY <1>4
  <2>2. \A k \in 1..n : k \in 0..n /\ k # 0
    OBVIOUS
  <2>3. \A k \in 1..n : g[k] = Append(g[k - 1], LeastOf(S \ ToSet(g[k - 1]), R))
    BY <1>4, <2>2
  <2> QED
    BY <2>1, <2>3 DEF Selects
<1>6. FirstOf(g[n], n, S, R)
  <2>1. n \in 0..n
    OBVIOUS
  <2> QED
    BY <1>1, <1>5, <2>1, SelectsAll
<1>7. PICK q : q = g[n]
  OBVIOUS
<1>8. q \in Seq(S) /\ Len(q) = n /\ IsFiniteSet(ToSet(q)) /\ Cardinality(ToSet(q)) = n
      /\ \A i, j \in 1..n : i < j => <<q[i], q[j]>> \in R
  BY <1>6, <1>7 DEF FirstOf
<1>9. ToSet(q) \in SUBSET S
  BY <1>8 DEF ToSet
<1>10. ToSet(q) = S
  BY <1>1, <1>8, <1>9, FS_Subset
<1>11. \A x \in S : \E k \in 1..Len(q) : q[k] = x
  BY <1>8, <1>10 DEF ToSet
<1> QED
  BY <1>1, <1>3, <1>7, <1>8, <1>11 DEF Sorts

-----------------------------------------------------------------------------
(* What indexing changes of an event. *)
Changing == {"dur", "ended", "parent", "depth", "self"}

AreTimed(ev) == \A i \in DOMAIN ev : IsTimed(ev[i])

\* What a field may become.
RangeOf(ev, k) ==
  CASE k = "ended" -> BOOLEAN
    [] k = "parent" -> DOMAIN ev \cup {None}
    [] k = "depth" -> Nat
    [] OTHER -> Int
AreFresh(ev) == AreTimed(ev) /\ \A i \in DOMAIN ev : \A k \in Changing : ev[i][k] \in RangeOf(ev, k)

Values(ev) == Int \cup BOOLEAN \cup DOMAIN ev \cup {None} \cup UNION {{ev[i][x] : x \in EventFields} : i \in DOMAIN ev}
KinOf(ev, i) ==
  {e \in [EventFields -> Values(ev)] : /\ \A k \in Changing : e[k] \in RangeOf(ev, k)
                                       /\ \A x \in EventFields \ Changing : e[x] = ev[i][x]}
Kin(ev) == {q \in [DOMAIN ev -> [EventFields -> Values(ev)]] : \A i \in DOMAIN ev : q[i] \in KinOf(ev, i)}

LEMMA KinSelf ==
  ASSUME NEW D, NEW ev, ev = [i \in D |-> ev[i]], AreFresh(ev)
  PROVE  ev \in Kin(ev)
<1>1. DOMAIN ev = D
  BY Zenon
<1>2. ASSUME NEW i \in DOMAIN ev PROVE ev[i] \in KinOf(ev, i)
  <2>1. PICK e : e = ev[i]
    OBVIOUS
  <2>2. e = [x \in EventFields |-> e[x]] /\ \A k \in Changing : e[k] \in RangeOf(ev, k)
    BY <2>1 DEF AreFresh, AreTimed, IsTimed
  <2>3. ASSUME NEW x \in EventFields PROVE e[x] \in Values(ev)
    <3>1. e[x] \in {ev[i][y] : y \in EventFields}
      BY <2>1, Zenon
    <3>2. e[x] \in UNION {{ev[j][y] : y \in EventFields} : j \in DOMAIN ev}
      BY <3>1, Zenon
    <3> QED
      BY <3>2, Zenon DEF Values
  <2>4. e \in [EventFields -> Values(ev)]
    BY <2>2, <2>3
  <2> QED
    BY <2>1, <2>2, <2>4, Zenon DEF KinOf
<1>3. \A i \in D : ev[i] \in [EventFields -> Values(ev)]
  BY <1>1, <1>2 DEF KinOf
<1>4. ev \in [DOMAIN ev -> [EventFields -> Values(ev)]]
  BY <1>1, <1>3, Zenon
<1> QED
  BY <1>2, <1>4 DEF Kin

LEMMA KinSet ==
  ASSUME NEW ev, NEW i, NEW e \in KinOf(ev, i), NEW k \in Changing, NEW v \in RangeOf(ev, k)
  PROVE  [e EXCEPT ![k] = v] \in KinOf(ev, i)
<1>1. v \in Values(ev) /\ k \in EventFields
  BY DEF Values, Changing, EventFields, RangeOf
<1>2. /\ e \in [EventFields -> Values(ev)] /\ \A x \in Changing : e[x] \in RangeOf(ev, x)
      /\ \A x \in EventFields \ Changing : e[x] = ev[i][x]
  BY DEF KinOf
<1>3. PICK d : d = [e EXCEPT ![k] = v]
  OBVIOUS
<1>4. d \in [EventFields -> Values(ev)] /\ \A x \in EventFields : d[x] = IF x = k THEN v ELSE e[x]
  BY <1>1, <1>2, <1>3, Zenon
<1>5. \A x \in Changing : x \in EventFields /\ d[x] = IF x = k THEN v ELSE e[x]
  BY <1>4 DEF Changing, EventFields
<1>6. \A x \in Changing : d[x] \in RangeOf(ev, x)
  BY <1>2, <1>5
<1>7. \A x \in EventFields \ Changing : d[x] = ev[i][x]
  BY <1>2, <1>4
<1> QED
  BY <1>3, <1>4, <1>6, <1>7 DEF KinOf

LEMMA KinPut ==
  ASSUME NEW ev, NEW q \in Kin(ev), NEW i \in DOMAIN ev, NEW e \in KinOf(ev, i)
  PROVE  [q EXCEPT ![i] = e] \in Kin(ev)
<1>1. q \in [DOMAIN ev -> [EventFields -> Values(ev)]] /\ \A j \in DOMAIN ev : q[j] \in KinOf(ev, j)
  BY DEF Kin
<1>2. e \in [EventFields -> Values(ev)]
  BY DEF KinOf
<1> HIDE DEF KinOf
<1> QED
  BY <1>1, <1>2 DEF Kin

LEMMA KinHas ==
  ASSUME NEW ev, AreTimed(ev), NEW q \in Kin(ev), NEW i \in DOMAIN ev
  PROVE  /\ DOMAIN q = DOMAIN ev /\ q[i] \in KinOf(ev, i)
         /\ HasTimes(q[i]) /\ IsTimed(q[i])
         /\ q[i].depth \in Nat /\ q[i].self \in Int /\ q[i].parent \in DOMAIN ev \cup {None} /\ q[i].ended \in BOOLEAN
         /\ q[i].ts = ev[i].ts /\ q[i].ph = ev[i].ph /\ q[i].kind = ev[i].kind
         /\ q[i].pid = ev[i].pid /\ q[i].tid = ev[i].tid /\ q[i].name = ev[i].name /\ q[i].frame = ev[i].frame
<1>1. q \in [DOMAIN ev -> [EventFields -> Values(ev)]] /\ q[i] \in KinOf(ev, i)
  BY DEF Kin
<1>2. PICK e : e = q[i]
  OBVIOUS
<1>3. /\ e \in [EventFields -> Values(ev)] /\ \A x \in EventFields \ Changing : e[x] = ev[i][x]
      /\ e["dur"] \in RangeOf(ev, "dur") /\ e["depth"] \in RangeOf(ev, "depth") /\ e["self"] \in RangeOf(ev, "self")
      /\ e["parent"] \in RangeOf(ev, "parent") /\ e["ended"] \in RangeOf(ev, "ended")
  BY <1>1, <1>2 DEF KinOf, Changing
<1>10. e.dur \in Int /\ e.depth \in Nat /\ e.self \in Int /\ e.parent \in DOMAIN ev \cup {None} /\ e.ended \in BOOLEAN
  BY <1>3 DEF RangeOf
<1>4. {"ts", "ph", "kind", "pid", "tid", "name", "frame"} \subseteq EventFields \ Changing
  BY DEF EventFields, Changing
<1>5. /\ e["ts"] = ev[i]["ts"] /\ e["ph"] = ev[i]["ph"] /\ e["kind"] = ev[i]["kind"] /\ e["pid"] = ev[i]["pid"]
      /\ e["tid"] = ev[i]["tid"] /\ e["name"] = ev[i]["name"] /\ e["frame"] = ev[i]["frame"]
  BY <1>3, <1>4
<1>6. /\ e.ts = ev[i].ts /\ e.ph = ev[i].ph /\ e.kind = ev[i].kind /\ e.pid = ev[i].pid
      /\ e.tid = ev[i].tid /\ e.name = ev[i].name /\ e.frame = ev[i].frame
  BY <1>5, Zenon
<1>7. ev[i].ts \in Int
  BY DEF AreTimed, IsTimed, HasTimes
<1>8. HasTimes(e)
  BY <1>6, <1>7, <1>10 DEF HasTimes
<1>9. e = [x \in EventFields |-> e[x]]
  BY <1>3
<1>11. DOMAIN q = DOMAIN ev
  BY <1>1
<1>12. IsTimed(e)
  BY <1>8, <1>9 DEF IsTimed
<1> QED
  BY <1>1, <1>2, <1>6, <1>8, <1>10, <1>11, <1>12

-----------------------------------------------------------------------------
(* Pairing. *)
Tracks == {"sampled", "measured"}
Pairing(ev) ==
  [events : Kin(ev), open : [Tracks -> Seq(DOMAIN ev)], within : [DOMAIN ev -> DOMAIN ev \cup {None}]]

LEMMA FrontLast ==
  ASSUME NEW D, NEW s \in Seq(D), s # <<>>
  PROVE  Front(s) \in Seq(D) /\ Last(s) \in D /\ Len(Front(s)) = Len(s) - 1
<1>1. Len(s) \in Nat /\ Len(s) > 0
  OBVIOUS
<1>2. Front(s) = [k \in 1..Len(s) - 1 |-> s[k]]
  BY <1>1 DEF Front
<1> QED
  BY <1>1, <1>2 DEF Last

LEMMA MaxOfTwo ==
  ASSUME NEW a \in Int, NEW b \in Int
  PROVE  Max({a, b}) \in Int /\ Max({a, b}) >= a /\ Max({a, b}) >= b /\ Max({a, b}) \in {a, b}
<1>1. {a, b} \in SUBSET Int /\ {a, b} # {}
  OBVIOUS
<1>2. IsFiniteSet({a, b})
  <2>1. IsFiniteSet({a})
    BY FS_Singleton
  <2>2. IsFiniteSet({a} \cup {b})
    BY <2>1, FS_AddElement
  <2>3. {a} \cup {b} = {a, b}
    OBVIOUS
  <2> QED
    BY <2>2, <2>3
<1>3. Max({a, b}) \in {a, b} /\ \A y \in {a, b} : Max({a, b}) >= y
  BY <1>1, <1>2, FiniteMax
<1> QED
  BY <1>3

LEMMA PairKeeps ==
  ASSUME NEW ev, AreTimed(ev), NEW acc \in Pairing(ev), NEW i \in DOMAIN ev
  PROVE  PairOne(acc, i) \in Pairing(ev)
<1>1. acc.events \in Kin(ev) /\ acc.open \in [Tracks -> Seq(DOMAIN ev)] /\ acc.within \in [DOMAIN ev -> DOMAIN ev \cup {None}]
  BY DEF Pairing
<1>2. acc = [events |-> acc.events, open |-> acc.open, within |-> acc.within]
  BY DEF Pairing
<1>3. PICK e, t, open : e = acc.events[i] /\ t = Track(e) /\ open = acc.open[t]
  OBVIOUS
<1>4. t \in Tracks /\ open \in Seq(DOMAIN ev)
  BY <1>1, <1>3 DEF Track, Tracks
<1>5. PICK r : r = PairOne(acc, i)
  OBVIOUS
<1>6. CASE e.ph = "B"
  <2>1. PICK w : w = IF open = <<>> THEN None ELSE Last(open)
    OBVIOUS
  <2>2. r = [acc EXCEPT !.open[t] = Append(@, i), !.within[i] = w]
    BY <1>3, <1>5, <1>6, <2>1 DEF PairOne
  <2>3. r = [events |-> acc.events, open |-> [acc.open EXCEPT ![t] = Append(@, i)], within |-> [acc.within EXCEPT ![i] = w]]
    BY <1>2, <2>2
  <2>4. w \in DOMAIN ev \cup {None}
    BY <1>4, <2>1, FrontLast
  <2>5. [acc.open EXCEPT ![t] = Append(@, i)] \in [Tracks -> Seq(DOMAIN ev)]
    BY <1>1, <1>4
  <2>6. [acc.within EXCEPT ![i] = w] \in [DOMAIN ev -> DOMAIN ev \cup {None}]
    BY <1>1, <2>4
  <2> QED
    BY <1>1, <1>5, <2>3, <2>5, <2>6 DEF Pairing
<1>7. CASE e.ph # "B" /\ e.ph = "E" /\ open # <<>>
  <2>1. PICK b, d : b = Last(open) /\ d = Max({0, e.ts - acc.events[b].ts})
    OBVIOUS
  <2>2. b \in DOMAIN ev /\ Front(open) \in Seq(DOMAIN ev)
    BY <1>4, <1>7, <2>1, FrontLast
  <2>3. HasTimes(acc.events[b]) /\ HasTimes(e) /\ DOMAIN acc.events = DOMAIN ev
    BY <1>1, <1>3, <2>2, KinHas
  <2>4. d \in Int
    <3>1. 0 \in Int /\ e.ts - acc.events[b].ts \in Int
      BY <2>3 DEF HasTimes
    <3> QED
      BY <2>1, <3>1, MaxOfTwo
  <2>5. PICK one : one = [acc.events EXCEPT ![b] = [acc.events[b] EXCEPT !.dur = d]]
    OBVIOUS
  <2>6. PICK two : two = [one EXCEPT ![i] = [one[i] EXCEPT !.ended = TRUE]]
    OBVIOUS
  <2>7. one \in Kin(ev)
    <3>1. acc.events[b] \in KinOf(ev, b)
      BY <1>1, <2>2, KinHas
    <3>2. "dur" \in Changing /\ d \in RangeOf(ev, "dur")
      BY <2>4 DEF Changing, RangeOf
    <3>3. [acc.events[b] EXCEPT !["dur"] = d] \in KinOf(ev, b)
      BY <2>4, <3>1, <3>2, KinSet
    <3> QED
      BY <1>1, <2>2, <2>5, <3>3, KinPut
  <2>8. two \in Kin(ev)
    <3>1. one[i] \in KinOf(ev, i)
      BY <2>7, KinHas
    <3>2. "ended" \in Changing /\ TRUE \in RangeOf(ev, "ended")
      BY DEF Changing, RangeOf
    <3>3. [one[i] EXCEPT !["ended"] = TRUE] \in KinOf(ev, i)
      BY <3>1, <3>2, KinSet
    <3> QED
      BY <2>6, <2>7, <3>3, KinPut
  <2>9. r = [acc EXCEPT !.open[t] = Front(@), !.events[b].dur = d, !.events[i].ended = TRUE]
    BY <1>3, <1>5, <1>7, <2>1 DEF PairOne
  <2>10. r = [events |-> [[acc.events EXCEPT ![b].dur = d] EXCEPT ![i].ended = TRUE],
              open |-> [acc.open EXCEPT ![t] = Front(@)], within |-> acc.within]
    BY <1>2, <2>9
  <2>11. r = [events |-> two, open |-> [acc.open EXCEPT ![t] = Front(@)], within |-> acc.within]
    BY <2>5, <2>6, <2>10
  <2>12. [acc.open EXCEPT ![t] = Front(@)] \in [Tracks -> Seq(DOMAIN ev)]
    BY <1>1, <1>3, <1>4, <2>2
  <2> QED
    BY <1>1, <1>5, <2>8, <2>11, <2>12 DEF Pairing
<1>8. CASE e.ph # "B" /\ ~(e.ph = "E" /\ open # <<>>)
  <2>1. r = acc
    BY <1>3, <1>5, <1>8 DEF PairOne
  <2> QED
    BY <1>5, <2>1
<1> QED
  BY <1>6, <1>7, <1>8

\* A fold whose steps stay in a set is in it all along.
LEMMA FoldStays ==
  ASSUME NEW Q, NEW n \in Nat, NEW g, g[0] \in Q, \A k \in 1..n : g[k - 1] \in Q => g[k] \in Q
  PROVE  g[n] \in Q /\ \A k \in 0..n : g[k] \in Q
<1> DEFINE T == {k \in 0..n : g[k] \in Q}
<1>1. 0 \in T
  OBVIOUS
<1>2. ASSUME NEW k \in 0..n, k \in T, k < n PROVE k + 1 \in T
  <2>1. k + 1 \in 1..n /\ (k + 1) - 1 = k /\ k + 1 \in 0..n
    BY <1>2
  <2>2. g[k] \in Q
    BY <1>2
  <2>3. g[k + 1] \in Q
    BY <2>1, <2>2
  <2> QED
    BY <2>1, <2>3
<1> HIDE DEF T
<1>3. \A k \in 0..n : k \in T
  BY <1>1, <1>2, UpTo
<1>4. n \in 0..n
  OBVIOUS
<1> QED
  BY <1>3, <1>4 DEF T

LEMMA SeqOfMore ==
  ASSUME NEW S, NEW D, S \subseteq D, NEW s \in Seq(S)
  PROVE  s \in Seq(D)
OBVIOUS

LEMMA FiniteThread ==
  ASSUME NEW n \in Nat, NEW ev, DOMAIN ev = 1..n, NEW th
  PROVE  \A S \in SUBSET OfThread(ev, th) : IsFiniteSet(S) /\ S \subseteq 1..n
<1>1. OfThread(ev, th) \subseteq 1..n
  BY DEF OfThread
<1>2. IsFiniteSet(1..n)
  BY FS_Interval
<1>3. ASSUME NEW S \in SUBSET OfThread(ev, th) PROVE IsFiniteSet(S)
  <2>1. S \in SUBSET (1..n)
    BY <1>1
  <2> QED
    BY <1>2, <2>1, FS_Subset
<1> QED
  BY <1>1, <1>3

PairBefore(ev, a, b) == ev[a].ts < ev[b].ts \/ (ev[a].ts = ev[b].ts /\ a < b)
PairSorts(ev, th) ==
  Sorts(PairOrder(ev, th), OfThread(ev, th), {p \in OfThread(ev, th) \X OfThread(ev, th) : PairBefore(ev, p[1], p[2])})

LEMMA PairOrderSorts ==
  ASSUME NEW n \in Nat, NEW ev, DOMAIN ev = 1..n, AreTimed(ev), NEW th
  PROVE  PairSorts(ev, th) /\ PairOrder(ev, th) \in Seq(DOMAIN ev)
<1>1. PICK S : S = OfThread(ev, th)
  OBVIOUS
<1>2. IsFiniteSet(S) /\ S \subseteq 1..n
  BY <1>1, FiniteThread
<1>3. PICK R : R = {p \in S \X S : \/ ev[p[1]].ts < ev[p[2]].ts
                                   \/ ev[p[1]].ts = ev[p[2]].ts /\ p[1] < p[2]}
  OBVIOUS
<1>4. Orders(R, S)
  <2>1. \A x, y \in S : <<x, y>> \in R <=> \/ ev[x].ts < ev[y].ts
                                           \/ ev[x].ts = ev[y].ts /\ x < y
    BY <1>3
  <2>2. \A x \in S : x \in Int /\ ev[x].ts \in Int
    BY <1>2 DEF AreTimed, IsTimed, HasTimes
  <2>3. ASSUME NEW x \in S, NEW y \in S, NEW z \in S, <<x, y>> \in R, <<y, z>> \in R PROVE <<x, z>> \in R
    BY <2>1, <2>2, <2>3
  <2>4. ASSUME NEW x \in S, NEW y \in S, x # y PROVE <<x, y>> \in R \/ <<y, x>> \in R
    BY <2>1, <2>2, <2>4
  <2>5. ASSUME NEW x \in S PROVE <<x, x>> \notin R
    BY <2>1, <2>2
  <2> QED
    BY <2>3, <2>4, <2>5 DEF Orders
<1>5. PairOrder(ev, th) = Sorted(S, R)
  BY <1>1, <1>3 DEF PairOrder, InOrder
<1>8. Sorts(Sorted(S, R), S, R)
  BY <1>2, <1>4, SortedSorts
<1>9. PairSorts(ev, th)
  BY <1>1, <1>3, <1>5, <1>8 DEF PairSorts, PairBefore
<1>6. Sorted(S, R) \in Seq(S)
  BY <1>8 DEF Sorts
<1>7. S \subseteq DOMAIN ev
  BY <1>2
<1> QED
  BY <1>5, <1>6, <1>7, <1>9, SeqOfMore

PairBase(ev) == [events |-> ev, open |-> NoOpen, within |-> [i \in DOMAIN ev |-> None]]
PairSteps(g, ev, order, n) == g = [k \in 0..n |-> IF k = 0 THEN PairBase(ev) ELSE PairOne(g[k - 1], order[k])]

LEMMA PairedFolds ==
  ASSUME NEW n \in Nat, NEW ev, DOMAIN ev = 1..n, AreTimed(ev), NEW q \in Kin(ev), NEW th,
         NEW m \in Nat, m = Len(PairOrder(q, th))
  PROVE  \E g : /\ PairSteps(g, q, PairOrder(q, th), m) /\ Paired(q, th) = g[m]
                /\ \A k \in 0..m : g[k] \in Pairing(ev)
<1>1. DOMAIN q = 1..n /\ AreTimed(q)
  <2>1. DOMAIN q = 1..n
    BY DEF Kin
  <2>2. \A i \in DOMAIN ev : IsTimed(q[i])
    BY KinHas
  <2> QED
    BY <2>1, <2>2 DEF AreTimed
<1>2. PICK order : order = PairOrder(q, th)
  OBVIOUS
<1>3. order \in Seq(DOMAIN ev)
  BY <1>1, <1>2, PairOrderSorts
<1>4. m = Len(order)
  BY <1>2
<1>5. PairBase(q) \in Pairing(ev)
  <2>1. NoOpen \in [Tracks -> Seq(DOMAIN ev)]
    BY DEF NoOpen, Tracks
  <2>2. [i \in DOMAIN q |-> None] \in [DOMAIN ev -> DOMAIN ev \cup {None}]
    BY <1>1
  <2> QED
    BY <2>1, <2>2 DEF PairBase, Pairing
<1>6. PICK step : step = [k \in 1..m |-> [a \in Pairing(ev) |-> PairOne(a, order[k])]]
  OBVIOUS
<1>7. \A k \in 1..m : order[k] \in DOMAIN ev
  BY <1>3, <1>4
<1>8. step \in [1..m -> [Pairing(ev) -> Pairing(ev)]]
  <2>1. \A k \in 1..m : \A a \in Pairing(ev) : PairOne(a, order[k]) \in Pairing(ev)
    BY <1>7, PairKeeps
  <2> QED
    BY <1>6, <2>1
<1>9. PICK f \in [0..m -> Pairing(ev)] : IsFold(f, PairBase(q), step, m)
  BY <1>5, <1>8, FoldExists
<1>10. \E g : PairSteps(g, q, order, m)
  <2>1. ASSUME NEW k \in 0..m PROVE f[k] = IF k = 0 THEN PairBase(q) ELSE PairOne(f[k - 1], order[k])
    <3>1. f[k] = IF k = 0 THEN PairBase(q) ELSE step[k][f[k - 1]]
      BY <1>9 DEF IsFold
    <3>2. k # 0 => k \in 1..m /\ k - 1 \in 0..m /\ f[k - 1] \in Pairing(ev)
      BY <1>9
    <3> QED
      BY <1>6, <3>1, <3>2
  <2>2. f = [k \in 0..m |-> f[k]]
    BY <1>9
  <2> QED
    BY <2>1, <2>2 DEF PairSteps
<1>11. PICK g : g = CHOOSE x : PairSteps(x, q, order, m)
  OBVIOUS
<1>12. PairSteps(g, q, order, m)
  BY <1>10, <1>11
<1>13. Paired(q, th) = g[m]
  BY <1>2, <1>4, <1>11 DEF Paired, Through, PairSteps, PairBase
<1>14. g[0] \in Pairing(ev)
  BY <1>5, <1>12 DEF PairSteps
<1>15. ASSUME NEW k \in 1..m, g[k - 1] \in Pairing(ev) PROVE g[k] \in Pairing(ev)
  <2>1. k \in 0..m /\ k # 0
    OBVIOUS
  <2>2. g[k] = PairOne(g[k - 1], order[k])
    BY <1>12, <2>1 DEF PairSteps
  <2> QED
    BY <1>7, <1>15, <2>2, PairKeeps
<1>16. \A k \in 0..m : g[k] \in Pairing(ev)
  BY <1>14, <1>15, FoldStays
<1> QED
  BY <1>2, <1>12, <1>13, <1>16

LEMMA PairedKeeps ==
  ASSUME NEW n \in Nat, NEW ev, DOMAIN ev = 1..n, AreTimed(ev), NEW q \in Kin(ev), NEW th
  PROVE  Paired(q, th) \in Pairing(ev)
<1>1. DOMAIN q = 1..n /\ AreTimed(q)
  <2>1. \A i \in DOMAIN ev : IsTimed(q[i])
    BY KinHas
  <2> QED
    BY <2>1 DEF AreTimed, Kin
<1>2. PairOrder(q, th) \in Seq(DOMAIN ev)
  BY <1>1, PairOrderSorts
<1>3. PICK m \in Nat : m = Len(PairOrder(q, th))
  BY <1>2
<1>4. PICK g : Paired(q, th) = g[m] /\ \A k \in 0..m : g[k] \in Pairing(ev)
  BY <1>3, PairedFolds
<1>5. m \in 0..m
  OBVIOUS
<1> QED
  BY <1>4, <1>5

-----------------------------------------------------------------------------
(* Nesting. *)
NestBefore(ev, a, b) ==
  \/ ev[a].ts < ev[b].ts
  \/ ev[a].ts = ev[b].ts /\ ev[a].dur > ev[b].dur
  \/ ev[a].ts = ev[b].ts /\ ev[a].dur = ev[b].dur /\ a < b
NestMembers(ev, th) == {i \in OfThread(ev, th) : ~ev[i].ended}
NestSorts(ev, th) == Sorts(NestOrder(ev, th), NestMembers(ev, th), {p \in NestMembers(ev, th) \X NestMembers(ev, th) : NestBefore(ev, p[1], p[2])})

LEMMA NestOrderSorts ==
  ASSUME NEW n \in Nat, NEW ev, DOMAIN ev = 1..n, AreTimed(ev), NEW th
  PROVE  NestSorts(ev, th) /\ NestOrder(ev, th) \in Seq(DOMAIN ev)
<1>1. PICK S : S = NestMembers(ev, th)
  OBVIOUS
<1>2. IsFiniteSet(S) /\ S \subseteq 1..n
  <2>1. S \in SUBSET OfThread(ev, th)
    BY <1>1 DEF NestMembers
  <2> QED
    BY <2>1, FiniteThread
<1>3. PICK R : R = {p \in S \X S : NestBefore(ev, p[1], p[2])}
  OBVIOUS
<1>4. Orders(R, S)
  <2>1. \A x, y \in S : <<x, y>> \in R <=> NestBefore(ev, x, y)
    BY <1>3
  <2>2. \A x \in S : x \in Int /\ ev[x].ts \in Int /\ ev[x].dur \in Int
    BY <1>2 DEF AreTimed, IsTimed, HasTimes
  <2>3. ASSUME NEW x \in S, NEW y \in S, NEW z \in S, <<x, y>> \in R, <<y, z>> \in R PROVE <<x, z>> \in R
    <3>1. NestBefore(ev, x, y) /\ NestBefore(ev, y, z)
      BY <2>1, <2>3
    <3>2. NestBefore(ev, x, z)
      BY <2>2, <3>1 DEF NestBefore
    <3> QED
      BY <2>1, <3>2
  <2>4. ASSUME NEW x \in S, NEW y \in S, x # y PROVE <<x, y>> \in R \/ <<y, x>> \in R
    <3>1. NestBefore(ev, x, y) \/ NestBefore(ev, y, x)
      BY <2>2, <2>4 DEF NestBefore
    <3> QED
      BY <2>1, <3>1
  <2>5. ASSUME NEW x \in S PROVE <<x, x>> \notin R
    <3>1. ~NestBefore(ev, x, x)
      BY <2>2 DEF NestBefore
    <3> QED
      BY <2>1, <3>1
  <2> QED
    BY <2>3, <2>4, <2>5 DEF Orders
<1>5. NestOrder(ev, th) = Sorted(S, R)
  BY <1>1, <1>3 DEF NestOrder, NestMembers, InOrder, NestBefore
<1>6. Sorts(Sorted(S, R), S, R)
  BY <1>2, <1>4, SortedSorts
<1>7. Sorted(S, R) \in Seq(S)
  BY <1>6 DEF Sorts
<1>8. S \subseteq DOMAIN ev
  BY <1>2
<1>9. NestOrder(ev, th) \in Seq(DOMAIN ev)
  BY <1>5, <1>7, <1>8, SeqOfMore
<1> QED
  BY <1>1, <1>3, <1>5, <1>6, <1>9 DEF NestSorts

LEMMA KinTimed ==
  ASSUME NEW n \in Nat, NEW ev, DOMAIN ev = 1..n, AreTimed(ev), NEW q \in Kin(ev)
  PROVE  DOMAIN q = 1..n /\ AreTimed(q)
<1>1. DOMAIN q = 1..n
  BY DEF Kin
<1>2. \A i \in DOMAIN ev : IsTimed(q[i])
  BY KinHas
<1> QED
  BY <1>1, <1>2 DEF AreTimed

NestingOf(ev) ==
  [events : Kin(ev), within : [DOMAIN ev -> DOMAIN ev \cup {None}], stack : [Tracks -> Seq(DOMAIN ev)]]

LEMMA UpToMax ==
  ASSUME NEW n \in Nat, NEW P \in SUBSET (1..n)
  PROVE  Max({0} \cup P) \in 0..n /\ Max({0} \cup P) \in {0} \cup P /\ \A k \in P : k <= Max({0} \cup P)
<1>1. PICK S : S = {0} \cup P
  OBVIOUS
<1>2. S \in SUBSET (0..n) /\ S \in SUBSET Int /\ S # {}
  BY <1>1
<1>3. IsFiniteSet(0..n)
  BY FS_Interval
<1>4. IsFiniteSet(S)
  BY <1>2, <1>3, FS_Subset
<1>5. Max(S) \in S /\ \A y \in S : Max(S) >= y
  BY <1>2, <1>4, FiniteMax
<1>6. \A k \in P : k <= Max(S)
  <2>1. Max(S) \in Int
    BY <1>2, <1>5
  <2>2. \A k \in P : k \in S /\ k \in Int
    BY <1>1
  <2> QED
    BY <1>5, <2>1, <2>2
<1> QED
  BY <1>1, <1>2, <1>5, <1>6

LEMMA RemainingStays ==
  ASSUME NEW D, NEW s \in Seq(D), NEW e, NEW q
  PROVE  Remaining(s, e, q) \in Seq(D)
<1>1. PICK m : m = Max({0} \cup {k \in DOMAIN s : Encloses(q[s[k]], e)})
  OBVIOUS
<1>2. m \in 0..Len(s)
  <2>1. PICK n \in Nat : n = Len(s)
    OBVIOUS
  <2>2. PICK P : P = {k \in DOMAIN s : Encloses(q[s[k]], e)}
    OBVIOUS
  <2>3. P \in SUBSET (1..n)
    BY <2>1, <2>2
  <2>4. Max({0} \cup P) \in 0..n
    BY <2>3, UpToMax
  <2> QED
    BY <1>1, <2>1, <2>2, <2>4
<1>3. Remaining(s, e, q) = SubSeq(s, 1, m)
  BY <1>1 DEF Remaining
<1> QED
  BY <1>2, <1>3

LEMMA MinOfTwo ==
  ASSUME NEW a \in Int, NEW b \in Int
  PROVE  Min({a, b}) \in {a, b} /\ Min({a, b}) <= a /\ Min({a, b}) <= b
<1>1. {a, b} \in SUBSET Int /\ {a, b} # {}
  OBVIOUS
<1>2. IsFiniteSet({a, b})
  <2>1. IsFiniteSet({a})
    BY FS_Singleton
  <2>2. IsFiniteSet({a} \cup {b})
    BY <2>1, FS_AddElement
  <2>3. {a} \cup {b} = {a, b}
    OBVIOUS
  <2> QED
    BY <2>2, <2>3
<1>3. Min({a, b}) \in {a, b} /\ \A y \in {a, b} : Min({a, b}) <= y
  BY <1>1, <1>2, FiniteMin
<1> QED
  BY <1>3

LEMMA NestKeeps ==
  ASSUME NEW n \in Nat, NEW ev, DOMAIN ev = 1..n, AreTimed(ev), NEW acc \in NestingOf(ev), NEW i \in DOMAIN ev
  PROVE  NestOne(acc, i) \in NestingOf(ev)
<1>1. acc.events \in Kin(ev) /\ acc.stack \in [Tracks -> Seq(DOMAIN ev)] /\ acc.within \in [DOMAIN ev -> DOMAIN ev \cup {None}]
  BY DEF NestingOf
<1>2. acc = [events |-> acc.events, within |-> acc.within, stack |-> acc.stack]
  BY DEF NestingOf
<1>3. PICK e, t, stack, parent : /\ e = acc.events[i] /\ t = Track(e) /\ stack = Remaining(acc.stack[t], e, acc.events)
                                 /\ parent = ParentOf(e, acc.within[i], stack, acc.events)
  OBVIOUS
<1>4. t \in Tracks
  BY <1>3 DEF Track, Tracks
<1>5. stack \in Seq(DOMAIN ev)
  BY <1>1, <1>3, <1>4, RemainingStays
<1>6. parent \in DOMAIN ev \cup {None}
  <2>1. acc.within[i] \in DOMAIN ev \cup {None}
    BY <1>1
  <2>2. parent = acc.within[i] \/ (stack # <<>> /\ parent = Last(stack))
    BY <1>3 DEF ParentOf
  <2> QED
    BY <1>5, <2>1, <2>2, FrontLast
<1>7. CASE e.kind = "Sample"
  BY <1>3, <1>7 DEF NestOne
<1>8. CASE e.kind # "Sample"
  <2>1. PICK depth, self, open : /\ depth = IF parent = None THEN 0 ELSE Min({MaxDepth, acc.events[parent].depth + 1})
                                 /\ self = Max({0, e.dur})
                                 /\ open = IF e.dur > 0 THEN Append(stack, i) ELSE stack
    OBVIOUS
  <2>2. NestOne(acc, i) = [acc EXCEPT !.stack[t] = open,
                             !.events[i] = [e EXCEPT !.parent = parent, !.depth = depth, !.self = self]]
    BY <1>3, <1>8, <2>1 DEF NestOne
  <2>3. PICK d : d = [e EXCEPT !.parent = parent, !.depth = depth, !.self = self]
    OBVIOUS
  <2>4. NestOne(acc, i) = [events |-> [acc.events EXCEPT ![i] = d], within |-> acc.within,
                           stack |-> [acc.stack EXCEPT ![t] = open]]
    BY <1>2, <2>2, <2>3
  <2>5. depth \in Nat
    <3>1. CASE parent = None
      BY <2>1, <3>1
    <3>2. CASE parent # None
      <4>1. acc.events[parent].depth \in Nat
        BY <1>1, <1>6, <3>2, KinHas
      <4>2. MaxDepth \in Nat /\ acc.events[parent].depth + 1 \in Nat
        BY <4>1, IndexAssumption
      <4>3. MaxDepth \in Int /\ acc.events[parent].depth + 1 \in Int
        BY <4>2
      <4>4. depth \in {MaxDepth, acc.events[parent].depth + 1}
        BY <2>1, <3>2, <4>3, MinOfTwo
      <4> QED
        BY <4>2, <4>4
    <3> QED
      BY <3>1, <3>2
  <2>6. self \in Int
    <3>1. e.dur \in Int /\ 0 \in Int
      BY <1>1, <1>3, KinHas DEF HasTimes
    <3> QED
      BY <2>1, <3>1, MaxOfTwo
  <2>7. d \in KinOf(ev, i)
    <3>1. PICK d1, d2, d3 : d1 = [e EXCEPT !["parent"] = parent] /\ d2 = [d1 EXCEPT !["depth"] = depth] /\ d3 = [d2 EXCEPT !["self"] = self]
      OBVIOUS
    <3>2. e \in KinOf(ev, i)
      BY <1>1, <1>3, KinHas
    <3>3. "parent" \in Changing /\ "depth" \in Changing /\ "self" \in Changing
      BY DEF Changing
    <3>4. parent \in RangeOf(ev, "parent") /\ depth \in RangeOf(ev, "depth") /\ self \in RangeOf(ev, "self")
      BY <1>6, <2>5, <2>6 DEF RangeOf
    <3>5. d1 \in KinOf(ev, i)
      BY <3>1, <3>2, <3>3, <3>4, KinSet
    <3>6. d2 \in KinOf(ev, i)
      BY <3>1, <3>5, <3>3, <3>4, KinSet
    <3>7. d3 \in KinOf(ev, i)
      BY <3>1, <3>6, <3>3, <3>4, KinSet
    <3>8. d = d3
      BY <2>3, <3>1, Zenon
    <3> QED
      BY <3>7, <3>8
  <2>8. [acc.events EXCEPT ![i] = d] \in Kin(ev)
    BY <1>1, <2>7, KinPut
  <2>9. open \in Seq(DOMAIN ev)
    <3>1. Append(stack, i) \in Seq(DOMAIN ev)
      BY <1>5
    <3> QED
      BY <1>5, <2>1, <3>1
  <2>10. [acc.stack EXCEPT ![t] = open] \in [Tracks -> Seq(DOMAIN ev)]
    BY <1>1, <2>9
  <2> QED
    BY <1>1, <2>4, <2>8, <2>10 DEF NestingOf
<1> QED
  BY <1>7, <1>8

LEMMA SubtractKeeps ==
  ASSUME NEW ev, AreTimed(ev), NEW q \in Kin(ev), NEW i \in DOMAIN ev
  PROVE  Subtract(q, i) \in Kin(ev)
<1>1. PICK e : e = q[i]
  OBVIOUS
<1>2. e.parent \in DOMAIN ev \cup {None} /\ e.dur \in Int
  BY <1>1, KinHas DEF HasTimes
<1>3. CASE e.parent = None \/ e.dur <= 0
  BY <1>1, <1>3 DEF Subtract
<1>4. CASE ~(e.parent = None \/ e.dur <= 0)
  <2>1. PICK p, v : p = e.parent /\ v = Max({0, q[p].self - e.dur})
    OBVIOUS
  <2>2. p \in DOMAIN ev
    BY <1>2, <1>4, <2>1
  <2>3. q[p].self \in Int /\ q[p] \in KinOf(ev, p) /\ DOMAIN q = DOMAIN ev
    BY <2>2, KinHas
  <2>4. 0 \in Int /\ q[p].self - e.dur \in Int
    BY <1>2, <2>3
  <2>5. v \in Int
    BY <2>1, <2>4, MaxOfTwo
  <2>6. "self" \in Changing /\ v \in RangeOf(ev, "self")
    BY <2>5 DEF Changing, RangeOf
  <2>7. [q[p] EXCEPT !["self"] = v] \in KinOf(ev, p)
    BY <2>3, <2>6, KinSet
  <2>8. [q EXCEPT ![p] = [q[p] EXCEPT !["self"] = v]] \in Kin(ev)
    BY <2>2, <2>7, KinPut
  <2>9. Subtract(q, i) = [q EXCEPT ![p].self = v]
    BY <1>1, <1>4, <2>1 DEF Subtract
  <2> QED
    BY <2>8, <2>9, Zenon
<1> QED
  BY <1>3, <1>4

\* One fold after another: nesting, self times, threads.
NestBase(paired) == [events |-> paired.events, within |-> paired.within, stack |-> NoOpen]
NestSteps(g, paired, order, n) == g = [k \in 0..n |-> IF k = 0 THEN NestBase(paired) ELSE NestOne(g[k - 1], order[k])]

LEMMA NestedFolds ==
  ASSUME NEW n \in Nat, NEW ev, DOMAIN ev = 1..n, AreTimed(ev), NEW paired \in Pairing(ev), NEW order \in Seq(DOMAIN ev),
         NEW m \in Nat, m = Len(order)
  PROVE  \E g : /\ NestSteps(g, paired, order, m) /\ Nested(paired, order) = g[m].events
                /\ \A k \in 0..m : g[k] \in NestingOf(ev)
<1>1. m = Len(order)
  OBVIOUS
<1>2. \A k \in 1..m : order[k] \in DOMAIN ev
  BY <1>1
<1>3. NestBase(paired) \in NestingOf(ev)
  <2>1. NoOpen \in [Tracks -> Seq(DOMAIN ev)]
    BY DEF NoOpen, Tracks
  <2> QED
    BY <2>1 DEF NestBase, NestingOf, Pairing
<1>4. PICK step : step = [k \in 1..m |-> [a \in NestingOf(ev) |-> NestOne(a, order[k])]]
  OBVIOUS
<1>5. step \in [1..m -> [NestingOf(ev) -> NestingOf(ev)]]
  <2>1. \A k \in 1..m : \A a \in NestingOf(ev) : NestOne(a, order[k]) \in NestingOf(ev)
    BY <1>2, NestKeeps
  <2> QED
    BY <1>4, <2>1
<1>6. PICK f \in [0..m -> NestingOf(ev)] : IsFold(f, NestBase(paired), step, m)
  BY <1>3, <1>5, FoldExists
<1>7. \E g : NestSteps(g, paired, order, m)
  <2>1. ASSUME NEW k \in 0..m PROVE f[k] = IF k = 0 THEN NestBase(paired) ELSE NestOne(f[k - 1], order[k])
    <3>1. f[k] = IF k = 0 THEN NestBase(paired) ELSE step[k][f[k - 1]]
      BY <1>6 DEF IsFold
    <3>2. k # 0 => k \in 1..m /\ k - 1 \in 0..m /\ f[k - 1] \in NestingOf(ev)
      BY <1>6
    <3> QED
      BY <1>4, <3>1, <3>2
  <2>2. f = [k \in 0..m |-> f[k]]
    BY <1>6
  <2> QED
    BY <2>1, <2>2 DEF NestSteps
<1>8. PICK g : g = CHOOSE x : NestSteps(x, paired, order, m)
  OBVIOUS
<1>9. NestSteps(g, paired, order, m)
  BY <1>7, <1>8
<1>10. Nested(paired, order) = g[m].events
  BY <1>1, <1>8 DEF Nested, Through, NestSteps, NestBase
<1>11. g[0] \in NestingOf(ev)
  BY <1>3, <1>9 DEF NestSteps
<1>12. ASSUME NEW k \in 1..m, g[k - 1] \in NestingOf(ev) PROVE g[k] \in NestingOf(ev)
  <2>1. k \in 0..m /\ k # 0
    OBVIOUS
  <2>2. g[k] = NestOne(g[k - 1], order[k])
    BY <1>9, <2>1 DEF NestSteps
  <2> QED
    BY <1>2, <1>12, <2>2, NestKeeps
<1>13. \A k \in 0..m : g[k] \in NestingOf(ev)
  BY <1>11, <1>12, FoldStays
<1> QED
  BY <1>9, <1>10, <1>13

LEMMA NestedKeeps ==
  ASSUME NEW n \in Nat, NEW ev, DOMAIN ev = 1..n, AreTimed(ev), NEW paired \in Pairing(ev), NEW order \in Seq(DOMAIN ev)
  PROVE  Nested(paired, order) \in Kin(ev)
<1>1. PICK m \in Nat : m = Len(order)
  OBVIOUS
<1>2. PICK g : Nested(paired, order) = g[m].events /\ \A k \in 0..m : g[k] \in NestingOf(ev)
  BY <1>1, NestedFolds
<1>3. m \in 0..m
  OBVIOUS
<1> QED
  BY <1>2, <1>3 DEF NestingOf

SubtractSteps(g, q, order, n) == g = [k \in 0..n |-> IF k = 0 THEN q ELSE Subtract(g[k - 1], order[k])]

LEMMA SubtractedFolds ==
  ASSUME NEW n \in Nat, NEW ev, DOMAIN ev = 1..n, AreTimed(ev), NEW q \in Kin(ev), NEW order \in Seq(DOMAIN ev),
         NEW m \in Nat, m = Len(order)
  PROVE  \E g : /\ SubtractSteps(g, q, order, m) /\ Through(Subtract, q, order) = g[m]
                /\ \A k \in 0..m : g[k] \in Kin(ev)
<1>1. m = Len(order)
  OBVIOUS
<1>2. \A k \in 1..m : order[k] \in DOMAIN ev
  BY <1>1
<1>4. PICK step : step = [k \in 1..m |-> [a \in Kin(ev) |-> Subtract(a, order[k])]]
  OBVIOUS
<1>5. step \in [1..m -> [Kin(ev) -> Kin(ev)]]
  <2>1. \A k \in 1..m : \A a \in Kin(ev) : Subtract(a, order[k]) \in Kin(ev)
    BY <1>2, SubtractKeeps
  <2> QED
    BY <1>4, <2>1
<1>6. PICK f \in [0..m -> Kin(ev)] : IsFold(f, q, step, m)
  BY <1>5, FoldExists
<1>7. \E g : SubtractSteps(g, q, order, m)
  <2>1. ASSUME NEW k \in 0..m PROVE f[k] = IF k = 0 THEN q ELSE Subtract(f[k - 1], order[k])
    <3>1. f[k] = IF k = 0 THEN q ELSE step[k][f[k - 1]]
      BY <1>6 DEF IsFold
    <3>2. k # 0 => k \in 1..m /\ k - 1 \in 0..m /\ f[k - 1] \in Kin(ev)
      BY <1>6
    <3> QED
      BY <1>4, <3>1, <3>2
  <2>2. f = [k \in 0..m |-> f[k]]
    BY <1>6
  <2> QED
    BY <2>1, <2>2 DEF SubtractSteps
<1>8. PICK g : g = CHOOSE x : SubtractSteps(x, q, order, m)
  OBVIOUS
<1>9. SubtractSteps(g, q, order, m)
  BY <1>7, <1>8
<1>10. Through(Subtract, q, order) = g[m]
  BY <1>1, <1>8 DEF Through, SubtractSteps
<1>11. g[0] \in Kin(ev)
  BY <1>9 DEF SubtractSteps
<1>12. ASSUME NEW k \in 1..m, g[k - 1] \in Kin(ev) PROVE g[k] \in Kin(ev)
  <2>1. k \in 0..m /\ k # 0
    OBVIOUS
  <2>2. g[k] = Subtract(g[k - 1], order[k])
    BY <1>9, <2>1 DEF SubtractSteps
  <2> QED
    BY <1>2, <1>12, <2>2, SubtractKeeps
<1>13. \A k \in 0..m : g[k] \in Kin(ev)
  BY <1>11, <1>12, FoldStays
<1> QED
  BY <1>9, <1>10, <1>13

LEMMA SubtractedKeeps ==
  ASSUME NEW n \in Nat, NEW ev, DOMAIN ev = 1..n, AreTimed(ev), NEW q \in Kin(ev), NEW order \in Seq(DOMAIN ev)
  PROVE  Through(Subtract, q, order) \in Kin(ev)
<1>1. PICK m \in Nat : m = Len(order)
  OBVIOUS
<1>2. PICK g : Through(Subtract, q, order) = g[m] /\ \A k \in 0..m : g[k] \in Kin(ev)
  BY <1>1, SubtractedFolds
<1>3. m \in 0..m
  OBVIOUS
<1> QED
  BY <1>2, <1>3

LEMMA ThreadKeeps ==
  ASSUME NEW n \in Nat, NEW ev, DOMAIN ev = 1..n, AreTimed(ev), NEW q \in Kin(ev), NEW th
  PROVE  IndexThread(q, th) \in Kin(ev)
<1>1. PICK paired : paired = Paired(q, th)
  OBVIOUS
<1>2. paired \in Pairing(ev)
  BY <1>1, PairedKeeps
<1>3. paired.events \in Kin(ev)
  BY <1>2 DEF Pairing
<1>4. PICK order : order = NestOrder(paired.events, th)
  OBVIOUS
<1>5. DOMAIN paired.events = 1..n /\ AreTimed(paired.events)
  BY <1>3, KinTimed
<1>6. order \in Seq(DOMAIN ev)
  BY <1>4, <1>5, NestOrderSorts
<1>7. Nested(paired, order) \in Kin(ev)
  BY <1>2, <1>6, NestedKeeps
<1>8. Through(Subtract, Nested(paired, order), order) \in Kin(ev)
  BY <1>6, <1>7, SubtractedKeeps
<1>9. IndexThread(q, th) = Through(Subtract, Nested(paired, order), order)
  BY <1>1, <1>4 DEF IndexThread
<1> QED
  BY <1>8, <1>9

ThreadSteps(g, q, ths, n) == g = [k \in 0..n |-> IF k = 0 THEN q ELSE IndexThread(g[k - 1], ths[k])]

LEMMA IndexFolds ==
  ASSUME NEW n \in Nat, NEW ev, DOMAIN ev = 1..n, AreTimed(ev), NEW q \in Kin(ev), NEW T, NEW ths \in Seq(T),
         NEW m \in Nat, m = Len(ths)
  PROVE  \E g : /\ ThreadSteps(g, q, ths, m) /\ Through(IndexThread, q, ths) = g[m]
                /\ \A k \in 0..m : g[k] \in Kin(ev)
<1>1. m = Len(ths)
  OBVIOUS
<1>4. PICK step : step = [k \in 1..m |-> [a \in Kin(ev) |-> IndexThread(a, ths[k])]]
  OBVIOUS
<1>5. step \in [1..m -> [Kin(ev) -> Kin(ev)]]
  <2>1. \A k \in 1..m : \A a \in Kin(ev) : IndexThread(a, ths[k]) \in Kin(ev)
    BY ThreadKeeps
  <2> QED
    BY <1>4, <2>1
<1>6. PICK f \in [0..m -> Kin(ev)] : IsFold(f, q, step, m)
  BY <1>5, FoldExists
<1>7. \E g : ThreadSteps(g, q, ths, m)
  <2>1. ASSUME NEW k \in 0..m PROVE f[k] = IF k = 0 THEN q ELSE IndexThread(f[k - 1], ths[k])
    <3>1. f[k] = IF k = 0 THEN q ELSE step[k][f[k - 1]]
      BY <1>6 DEF IsFold
    <3>2. k # 0 => k \in 1..m /\ k - 1 \in 0..m /\ f[k - 1] \in Kin(ev)
      BY <1>6
    <3> QED
      BY <1>4, <3>1, <3>2
  <2>2. f = [k \in 0..m |-> f[k]]
    BY <1>6
  <2> QED
    BY <2>1, <2>2 DEF ThreadSteps
<1>8. PICK g : g = CHOOSE x : ThreadSteps(x, q, ths, m)
  OBVIOUS
<1>9. ThreadSteps(g, q, ths, m)
  BY <1>7, <1>8
<1>10. Through(IndexThread, q, ths) = g[m]
  BY <1>1, <1>8 DEF Through, ThreadSteps
<1>11. g[0] \in Kin(ev)
  BY <1>9 DEF ThreadSteps
<1>12. ASSUME NEW k \in 1..m, g[k - 1] \in Kin(ev) PROVE g[k] \in Kin(ev)
  <2>1. k \in 0..m /\ k # 0
    OBVIOUS
  <2>2. g[k] = IndexThread(g[k - 1], ths[k])
    BY <1>9, <2>1 DEF ThreadSteps
  <2> QED
    BY <1>12, <2>2, ThreadKeeps
<1>13. \A k \in 0..m : g[k] \in Kin(ev)
  BY <1>11, <1>12, FoldStays
<1> QED
  BY <1>9, <1>10, <1>13

LEMMA IndexKeeps ==
  ASSUME NEW n \in Nat, NEW ev, DOMAIN ev = 1..n, AreTimed(ev), NEW q \in Kin(ev), NEW T, NEW ths \in Seq(T)
  PROVE  Through(IndexThread, q, ths) \in Kin(ev)
<1>1. PICK m \in Nat : m = Len(ths)
  OBVIOUS
<1>2. PICK g : Through(IndexThread, q, ths) = g[m] /\ \A k \in 0..m : g[k] \in Kin(ev)
  BY <1>1, IndexFolds
<1>3. m \in 0..m
  OBVIOUS
<1> QED
  BY <1>2, <1>3

LEMMA SetInSeq ==
  ASSUME NEW S, IsFiniteSet(S)
  PROVE  SetToSeq(S) \in Seq(S)
<1>1. PICK n \in Nat : n = Cardinality(S) /\ ExistsBijection(1..n, S)
  BY FS_CardinalityType
<1>2. PICK b \in Bijection(1..n, S) : TRUE
  BY <1>1 DEF ExistsBijection
<1>3. b \in [1..n -> S] /\ IsInjective(b)
  BY <1>2 DEF Bijection, Injection, IsInjective
<1>4. PICK f : f = CHOOSE x \in [1..n -> S] : IsInjective(x)
  OBVIOUS
<1>5. f \in [1..n -> S]
  BY <1>3, <1>4
<1>6. SetToSeq(S) = f
  BY <1>1, <1>4 DEF SetToSeq
<1> QED
  BY <1>5, <1>6

ListsOnce(ths, S, m) ==
  /\ ths \in Seq(S) /\ m = Len(ths)
  /\ \A j, k \in 1..m : ths[j] = ths[k] => j = k
  /\ \A x \in S : \E k \in 1..m : ths[k] = x

LEMMA SeqHasSet ==
  ASSUME NEW S, IsFiniteSet(S)
  PROVE  \E m \in Nat : ListsOnce(SetToSeq(S), S, m)
<1>0. PICK ths : ths = SetToSeq(S)
  OBVIOUS
<1>15. PICK m \in Nat : m = Len(ths)
  <2>1. ths \in Seq(S)
    BY <1>0, SetInSeq
  <2> QED
    BY <2>1
<1>1. PICK l \in Nat : l = Cardinality(S) /\ ExistsBijection(1..l, S)
  BY FS_CardinalityType
<1>2. PICK b \in Bijection(1..l, S) : TRUE
  BY <1>1 DEF ExistsBijection
<1>3. b \in [1..l -> S] /\ IsInjective(b)
  BY <1>2 DEF Bijection, Injection, IsInjective
<1>4. PICK f : f = CHOOSE x \in [1..l -> S] : IsInjective(x)
  OBVIOUS
<1>5. f \in [1..l -> S] /\ IsInjective(f)
  BY <1>3, <1>4
<1>6. ths = f
  BY <1>0, <1>1, <1>4 DEF SetToSeq
<1>7. m = l
  BY <1>5, <1>6, <1>15
<1>8. \A j, k \in 1..m : ths[j] = ths[k] => j = k
  BY <1>5, <1>6, <1>7 DEF IsInjective
<1>9. PICK R : R = {ths[k] : k \in 1..m}
  OBVIOUS
<1>10. f \in Injection(1..m, S)
  BY <1>5, <1>7 DEF Injection, IsInjective
<1>11. R \in SUBSET S
  BY <1>5, <1>6, <1>7, <1>9
<1>12. f \in Bijection(1..m, R)
  <2>1. f \in [1..m -> R]
    BY <1>5, <1>6, <1>7, <1>9
  <2>2. \A x \in R : \E k \in 1..m : f[k] = x
    BY <1>6, <1>9
  <2> QED
    BY <1>10, <2>1, <2>2 DEF Bijection, Injection, Surjection
<1>13. IsFiniteSet(R) /\ Cardinality(R) = m
  <2>1. ExistsBijection(1..m, R)
    BY <1>12 DEF ExistsBijection
  <2>2. Cardinality(R) = m
    BY <2>1, FS_CountingElements
  <2> QED
    BY <1>11, <2>2, FS_Subset
<1>14. R = S
  BY <1>1, <1>7, <1>11, <1>13, FS_Subset
<1>16. ths \in Seq(S)
  BY <1>5, <1>6
<1>17. \A x \in S : \E k \in 1..m : ths[k] = x
  BY <1>9, <1>14
<1> QED
  BY <1>0, <1>8, <1>15, <1>16, <1>17 DEF ListsOnce

LEMMA ThreadsFinite ==
  ASSUME NEW n \in Nat, NEW ev, DOMAIN ev = 1..n
  PROVE  IsFiniteSet(Threads(ev))
<1>1. PICK P : P = {j \in DOMAIN ev : Timed(ev, j)}
  OBVIOUS
<1>2. IsFiniteSet(P)
  <2>1. P \in SUBSET (1..n)
    BY <1>1
  <2>2. IsFiniteSet(1..n)
    BY FS_Interval
  <2> QED
    BY <2>1, <2>2, FS_Subset
<1>3. PICK f : f = [i \in P |-> ThreadOf(ev[i])]
  OBVIOUS
<1>4. f \in Surjection(P, Threads(ev))
  BY <1>1, <1>3 DEF Surjection, Threads
<1> QED
  BY <1>2, <1>4, FS_Surjection

LEMMA EventsIndexed ==
  ASSUME NEW n \in Nat, NEW ev, ev = [i \in 1..n |-> ev[i]], AreFresh(ev)
  PROVE  IndexEvents(ev) \in Kin(ev)
<1>1. DOMAIN ev = 1..n
  BY Zenon
<1>2. AreTimed(ev)
  BY DEF AreFresh
<1>3. ev \in Kin(ev)
  BY KinSelf
<1>4. PICK ths : ths = SetToSeq(Threads(ev))
  OBVIOUS
<1>5. ths \in Seq(Threads(ev))
  BY <1>1, <1>4, ThreadsFinite, SetInSeq
<1> QED
  BY <1>1, <1>2, <1>3, <1>4, <1>5, IndexKeeps DEF IndexEvents

-----------------------------------------------------------------------------
(* The block index. *)
LEMMA Division ==
  ASSUME NEW a \in Nat, NEW b \in Nat \ {0}
  PROVE  a \div b \in Nat /\ (a \div b) * b <= a /\ a < (a \div b) * b + b
OBVIOUS

LEMMA Larger ==
  ASSUME NEW x \in Int, NEW y \in Int, x <= y, NEW b \in Nat \ {0}
  PROVE  x * b \in Int /\ y * b \in Int /\ x * b <= y * b /\ (x + 1) * b = x * b + b
<1>1. PICK d \in Nat : y = x + d
  <2>1. y - x \in Nat /\ y = x + (y - x)
    OBVIOUS
  <2> QED
    BY <2>1
<1>2. d * b >= 0 /\ d * b \in Int
  OBVIOUS
<1>3. (x + d) * b = x * b + d * b
  OBVIOUS
<1> QED
  BY <1>1, <1>2, <1>3

BlockCount(n) == (n - 1) \div BlockSize + 1
StartOf(b) == (b - 1) * BlockSize + 1

LEMMA BlocksCover ==
  ASSUME NEW n \in Nat
  PROVE  /\ BlockCount(n) \in Nat
         /\ \A b \in 1..BlockCount(n) : StartOf(b) \in 1..n
         /\ \A k \in 1..n : \E b \in 1..BlockCount(n) :
              StartOf(b) <= k /\ k < StartOf(b) + BlockSize /\ \A c \in 1..b : StartOf(c) <= k
<1>1. BlockSize \in Nat \ {0}
  BY IndexAssumption
<1>2. CASE n = 0
  <2>1. (0 - 1) \div BlockSize = -1
    BY <1>1
  <2>2. BlockCount(n) = 0
    BY <1>2, <2>1 DEF BlockCount
  <2> QED
    BY <1>2, <2>2
<1>3. CASE n # 0
  <2>1. PICK m : m = (n - 1) \div BlockSize
    OBVIOUS
  <2>2. n - 1 \in Nat
    BY <1>3
  <2>3. m \in Nat /\ m * BlockSize <= n - 1 /\ n - 1 < m * BlockSize + BlockSize
    BY <1>1, <2>1, <2>2, Division
  <2>4. BlockCount(n) = m + 1
    BY <2>1 DEF BlockCount
  <2>5. ASSUME NEW b \in 1..m + 1 PROVE StartOf(b) \in 1..n
    <3>1. b - 1 \in Int /\ b - 1 <= m /\ b - 1 >= 0
      BY <2>3
    <3>2. (b - 1) * BlockSize <= m * BlockSize /\ (b - 1) * BlockSize \in Int /\ m * BlockSize \in Int
      BY <1>1, <2>3, <3>1, Larger
    <3>3. (b - 1) * BlockSize >= 0
      <4>1. 0 * BlockSize <= (b - 1) * BlockSize /\ 0 * BlockSize = 0
        BY <1>1, <3>1, Larger
      <4> QED
        BY <4>1
    <3> QED
      BY <2>3, <3>2, <3>3 DEF StartOf
  <2>6. ASSUME NEW k \in 1..n
        PROVE  \E b \in 1..m + 1 : StartOf(b) <= k /\ k < StartOf(b) + BlockSize /\ \A c \in 1..b : StartOf(c) <= k
    <3>1. PICK j : j = (k - 1) \div BlockSize
      OBVIOUS
    <3>2. j \in Nat /\ j * BlockSize <= k - 1 /\ k - 1 < j * BlockSize + BlockSize
      BY <1>1, <3>1, Division
    <3>3. j <= m
      <4> SUFFICES ASSUME m + 1 <= j PROVE FALSE
        BY <2>3, <3>2
      <4>1. (m + 1) * BlockSize <= j * BlockSize /\ (m + 1) * BlockSize \in Int /\ j * BlockSize \in Int
        BY <1>1, <2>3, <3>2, Larger
      <4>2. (m + 1) * BlockSize = m * BlockSize + BlockSize
        BY <1>1, <2>3, Larger
      <4>3. m * BlockSize \in Int
        BY <1>1, <2>3
      <4> QED
        BY <1>1, <2>3, <3>2, <4>1, <4>2, <4>3
    <3>4. StartOf(j + 1) = j * BlockSize + 1 /\ j * BlockSize \in Int
      BY <1>1, <3>2 DEF StartOf
    <3>5. ASSUME NEW c \in 1..j + 1 PROVE StartOf(c) <= k
      <4>1. c - 1 \in Int /\ c - 1 <= j
        BY <3>2
      <4>2. (c - 1) * BlockSize <= j * BlockSize /\ (c - 1) * BlockSize \in Int
        BY <1>1, <3>2, <4>1, Larger
      <4> QED
        BY <3>2, <3>4, <4>2 DEF StartOf
    <3>6. j + 1 \in 1..m + 1
      BY <2>3, <3>2, <3>3
    <3>7. StartOf(j + 1) <= k /\ k < StartOf(j + 1) + BlockSize
      BY <1>1, <3>2, <3>4
    <3> QED
      BY <3>5, <3>6, <3>7
  <2> QED
    BY <2>3, <2>4, <2>5, <2>6
<1> QED
  BY <1>2, <1>3

Block == [start : Int, count : Int, minTs : Int, maxEnd : Int, localEnd : Int, depths : SUBSET Int]

LEMMA TimesOfPart ==
  ASSUME NEW n \in Nat, NEW items, \A k \in 1..n : HasTimes(items[k]), NEW lo \in 1..n, NEW hi \in lo..n,
         NEW part, part = {items[k] : k \in lo..hi}
  PROVE  /\ Max({End(e) : e \in part}) \in Int /\ Min({e.ts : e \in part}) \in Int
         /\ \A k \in lo..hi : End(items[k]) <= Max({End(e) : e \in part}) /\ Min({e.ts : e \in part}) <= items[k].ts
<1>1. IsFiniteSet(lo..hi)
  <2>1. lo \in Int /\ hi \in Int
    OBVIOUS
  <2> QED
    BY <2>1, FS_Interval
<1>2. PICK E, T : E = {End(e) : e \in part} /\ T = {e.ts : e \in part}
  OBVIOUS
<1>3. \A k \in lo..hi : k \in 1..n /\ items[k] \in part
  OBVIOUS
<1>4. \A e \in part : \E k \in lo..hi : e = items[k]
  OBVIOUS
<1>5. \A k \in lo..hi : items[k].ts \in Int /\ End(items[k]) \in Int
  BY <1>3 DEF HasTimes, End
<1>6. E \in SUBSET Int /\ T \in SUBSET Int
  BY <1>2, <1>4, <1>5
<1>7. lo \in lo..hi
  OBVIOUS
<1>8. E # {} /\ T # {}
  BY <1>2, <1>3, <1>7
<1>9. IsFiniteSet(E)
  <2>1. PICK f : f = [k \in lo..hi |-> End(items[k])]
    OBVIOUS
  <2>2. f \in Surjection(lo..hi, E)
    BY <1>2, <1>3, <1>4, <2>1 DEF Surjection
  <2> QED
    BY <1>1, <2>2, FS_Surjection
<1>10. IsFiniteSet(T)
  <2>1. PICK f : f = [k \in lo..hi |-> items[k].ts]
    OBVIOUS
  <2>2. f \in Surjection(lo..hi, T)
    BY <1>2, <1>3, <1>4, <2>1 DEF Surjection
  <2> QED
    BY <1>1, <2>2, FS_Surjection
<1>11. Max(E) \in E /\ \A y \in E : Max(E) >= y
  BY <1>6, <1>8, <1>9, FiniteMax
<1>12. Min(T) \in T /\ \A y \in T : Min(T) <= y
  BY <1>6, <1>8, <1>10, FiniteMin
<1>13. \A k \in lo..hi : End(items[k]) \in E /\ items[k].ts \in T
  BY <1>2, <1>3
<1>14. Max(E) \in Int /\ Min(T) \in Int
  BY <1>6, <1>11, <1>12
<1>15. \A k \in lo..hi : End(items[k]) <= Max(E) /\ Min(T) <= items[k].ts
  BY <1>5, <1>11, <1>12, <1>13, <1>14
<1> QED
  BY <1>2, <1>14, <1>15

\* What is known of the block that starts at a position.
BlockFits(bk, items, n, start) ==
  /\ bk.start = start /\ bk.count = Min({BlockSize, n + 1 - start})
  /\ \A k \in 1..n : start <= k /\ k < start + BlockSize => bk.minTs <= items[k].ts /\ End(items[k]) <= bk.maxEnd

LEMMA BlockAdded ==
  ASSUME NEW n \in Nat, NEW items, Len(items) = n, \A k \in 1..n : HasTimes(items[k]),
         NEW bs \in Seq(Block), NEW start \in 1..n
  PROVE  \E bk \in Block : /\ AddBlock(bs, items, start) = Append(bs, bk)
                           /\ BlockFits(bk, items, n, start)
                           /\ bs # <<>> => bs[Len(bs)].maxEnd <= bk.maxEnd
<1>0. BlockSize \in Nat \ {0} /\ BlockSize \in Int
  BY IndexAssumption
<1>1. PICK hi : hi = Min({n, start + BlockSize - 1})
  OBVIOUS
<1>2. hi \in start..n /\ hi <= start + BlockSize - 1 /\ (hi = n \/ hi = start + BlockSize - 1)
  <2>1. n \in Int /\ start + BlockSize - 1 \in Int /\ start <= n /\ start <= start + BlockSize - 1
    BY <1>0
  <2>2. hi \in {n, start + BlockSize - 1} /\ hi <= n /\ hi <= start + BlockSize - 1
    BY <1>1, <2>1, MinOfTwo
  <2> QED
    BY <2>1, <2>2
<1>3. PICK part : part = {items[k] : k \in start..hi}
  OBVIOUS
<1>4. PICK local, low : local = Max({End(e) : e \in part}) /\ low = Min({e.ts : e \in part})
  OBVIOUS
<1>5. local \in Int /\ low \in Int /\ \A k \in start..hi : End(items[k]) <= local /\ low <= items[k].ts
  BY <1>2, <1>3, <1>4, TimesOfPart
<1>6. PICK reach : reach = IF bs = <<>> THEN local ELSE Max({local, Last(bs).maxEnd})
  OBVIOUS
<1>7. reach \in Int /\ reach >= local /\ (bs # <<>> => bs[Len(bs)].maxEnd <= reach)
  <2>1. CASE bs = <<>>
    BY <1>5, <1>6, <2>1
  <2>2. CASE bs # <<>>
    <3>1. Last(bs) = bs[Len(bs)] /\ bs[Len(bs)] \in Block
      BY <2>2 DEF Last
    <3>2. Last(bs).maxEnd \in Int
      BY <3>1 DEF Block
    <3>3. reach = Max({local, Last(bs).maxEnd})
      BY <1>6, <2>2
    <3> QED
      BY <1>5, <2>2, <3>1, <3>2, <3>3, MaxOfTwo
  <2> QED
    BY <2>1, <2>2
<1>8. PICK count, depths : count = Min({BlockSize, n + 1 - start}) /\ depths = {e.depth : e \in part} \cap 0..MaskDepths - 1
  OBVIOUS
<1>9. count \in Int
  <2>1. n + 1 - start \in Int
    OBVIOUS
  <2> QED
    BY <1>0, <1>8, <2>1, MinOfTwo
<1>10. depths \in SUBSET Int
  <2>1. \A d \in depths : d \in 0..MaskDepths - 1
    BY <1>8
  <2>2. \A d \in 0..MaskDepths - 1 : d \in Int
    OBVIOUS
  <2> QED
    BY <2>1, <2>2
<1>11. PICK bk : bk = [start |-> start, count |-> count, minTs |-> low, maxEnd |-> reach, localEnd |-> local, depths |-> depths]
  OBVIOUS
<1>12. bk \in Block
  BY <1>5, <1>7, <1>9, <1>10, <1>11 DEF Block
<1>13. AddBlock(bs, items, start) = Append(bs, bk)
  BY <1>1, <1>3, <1>4, <1>6, <1>8, <1>11 DEF AddBlock
<1>14. BlockFits(bk, items, n, start)
  <2>1. ASSUME NEW k \in 1..n, start <= k, k < start + BlockSize
        PROVE  bk.minTs <= items[k].ts /\ End(items[k]) <= bk.maxEnd
    <3>1. k \in start..hi
      BY <1>0, <1>2, <2>1
    <3>2. End(items[k]) <= local /\ low <= items[k].ts
      BY <1>5, <3>1
    <3>3. End(items[k]) \in Int
      BY DEF HasTimes, End
    <3> QED
      BY <1>5, <1>7, <1>11, <3>2, <3>3
  <2> QED
    BY <1>8, <1>11, <2>1 DEF BlockFits
<1> QED
  BY <1>7, <1>11, <1>12, <1>13, <1>14

\* The first m blocks.
BlocksFit(bs, items, n, m) ==
  /\ bs \in Seq(Block) /\ Len(bs) = m
  /\ \A b \in 1..m : BlockFits(bs[b], items, n, StartOf(b))
  /\ \A b, c \in 1..m : b <= c => bs[b].maxEnd <= bs[c].maxEnd

LEMMA BlocksGrow ==
  ASSUME NEW n \in Nat, NEW items, Len(items) = n, \A k \in 1..n : HasTimes(items[k]),
         NEW m \in Nat, m < BlockCount(n), NEW bs, BlocksFit(bs, items, n, m)
  PROVE  BlocksFit(AddBlock(bs, items, StartOf(m + 1)), items, n, m + 1)
<1>1. StartOf(m + 1) \in 1..n
  <2>1. m + 1 \in 1..BlockCount(n)
    BY BlocksCover
  <2> QED
    BY <2>1, BlocksCover
<1>2. bs \in Seq(Block) /\ Len(bs) = m
  BY DEF BlocksFit
<1>3. PICK bk \in Block : /\ AddBlock(bs, items, StartOf(m + 1)) = Append(bs, bk)
                          /\ BlockFits(bk, items, n, StartOf(m + 1))
                          /\ bs # <<>> => bs[Len(bs)].maxEnd <= bk.maxEnd
  BY <1>1, <1>2, BlockAdded
<1>4. PICK cs : cs = Append(bs, bk)
  OBVIOUS
<1>5. cs \in Seq(Block) /\ Len(cs) = m + 1 /\ cs[m + 1] = bk /\ \A b \in 1..m : cs[b] = bs[b]
  BY <1>2, <1>4
<1>6. \A b \in 1..m + 1 : b \in 1..m \/ b = m + 1
  OBVIOUS
<1>7. \A b \in 1..m + 1 : BlockFits(cs[b], items, n, StartOf(b))
  BY <1>3, <1>5, <1>6 DEF BlocksFit
<1>8. ASSUME NEW b \in 1..m + 1, NEW c \in 1..m + 1, b <= c PROVE cs[b].maxEnd <= cs[c].maxEnd
  <2>1. cs[b].maxEnd \in Int /\ cs[c].maxEnd \in Int
    <3>1. cs[b] \in Block /\ cs[c] \in Block
      BY <1>5
    <3> QED
      BY <3>1 DEF Block
  <2>2. CASE c = m + 1 /\ b = m + 1
    BY <2>1, <2>2
  <2>3. CASE c = m + 1 /\ b # m + 1
    <3>1. b \in 1..m /\ m \in 1..m /\ b <= m /\ bs # <<>>
      BY <1>2, <2>3
    <3>2. bs[b].maxEnd <= bs[m].maxEnd /\ bs[m].maxEnd <= bk.maxEnd
      BY <1>2, <1>3, <3>1 DEF BlocksFit
    <3>3. bs[b].maxEnd \in Int /\ bs[m].maxEnd \in Int /\ bk.maxEnd \in Int
      <4>1. bs[b] \in Block /\ bs[m] \in Block
        BY <1>2, <3>1
      <4> QED
        BY <4>1 DEF Block
    <3> QED
      BY <1>5, <2>3, <3>1, <3>2, <3>3
  <2>4. CASE c # m + 1
    <3>1. b \in 1..m /\ c \in 1..m
      BY <1>8, <2>4
    <3>2. bs[b].maxEnd <= bs[c].maxEnd
      BY <1>8, <3>1 DEF BlocksFit
    <3> QED
      BY <1>5, <3>1, <3>2
  <2> QED
    BY <2>2, <2>3, <2>4
<1> QED
  BY <1>3, <1>4, <1>5, <1>7, <1>8 DEF BlocksFit

BlockSteps(g, items, starts, n) == g = [b \in 0..n |-> IF b = 0 THEN <<>> ELSE AddBlock(g[b - 1], items, starts[b])]

LEMMA BlocksAreFit ==
  ASSUME NEW n \in Nat, NEW q, NEW order, order = [k \in 1..n |-> order[k]], Len(order) = n,
         \A k \in 1..n : HasTimes(q[order[k]])
  PROVE  BlocksFit(Blocks(q, order), [k \in 1..n |-> q[order[k]]], n, BlockCount(n))
<1>1. PICK m \in Nat : m = BlockCount(n)
  BY BlocksCover
<1>2. PICK items : items = [k \in 1..n |-> q[order[k]]]
  OBVIOUS
<1>3. Len(items) = n /\ \A k \in 1..n : HasTimes(items[k])
  BY <1>2
<1>4. PICK starts : starts = [b \in 1..m |-> StartOf(b)]
  OBVIOUS
<1>5. Len(starts) = m /\ \A b \in 1..m : starts[b] = StartOf(b)
  BY <1>4
<1>6. PICK step : step = [b \in 1..m |-> [a \in Seq(Block) |-> AddBlock(a, items, StartOf(b))]]
  OBVIOUS
<1>7. step \in [1..m -> [Seq(Block) -> Seq(Block)]]
  <2>1. ASSUME NEW b \in 1..m, NEW a \in Seq(Block) PROVE AddBlock(a, items, StartOf(b)) \in Seq(Block)
    <3>1. StartOf(b) \in 1..n
      BY <1>1, BlocksCover
    <3>2. \E bk \in Block : AddBlock(a, items, StartOf(b)) = Append(a, bk)
      BY <1>3, <3>1, BlockAdded
    <3> QED
      BY <3>2
  <2> QED
    BY <1>6, <2>1
<1>8. <<>> \in Seq(Block)
  OBVIOUS
<1>9. PICK f \in [0..m -> Seq(Block)] : IsFold(f, <<>>, step, m)
  BY <1>7, <1>8, FoldExists
<1>10. \E g : BlockSteps(g, items, starts, m)
  <2>1. ASSUME NEW b \in 0..m PROVE f[b] = IF b = 0 THEN <<>> ELSE AddBlock(f[b - 1], items, starts[b])
    <3>1. f[b] = IF b = 0 THEN <<>> ELSE step[b][f[b - 1]]
      BY <1>9 DEF IsFold
    <3>2. b # 0 => b \in 1..m /\ b - 1 \in 0..m /\ f[b - 1] \in Seq(Block)
      BY <1>9
    <3> QED
      BY <1>5, <1>6, <3>1, <3>2
  <2>2. f = [b \in 0..m |-> f[b]]
    BY <1>9
  <2> QED
    BY <2>1, <2>2 DEF BlockSteps
<1>11. PICK g : g = CHOOSE x : BlockSteps(x, items, starts, m)
  OBVIOUS
<1>12. BlockSteps(g, items, starts, m)
  BY <1>10, <1>11
<1>13. Blocks(q, order) = g[m]
  <2>1. DOMAIN order = 1..n
    BY Zenon
  <2>2. starts = [b \in 1..(Len(order) - 1) \div BlockSize + 1 |-> (b - 1) * BlockSize + 1]
    BY <1>1, <1>4 DEF BlockCount, StartOf
  <2>3. items = [k \in DOMAIN order |-> q[order[k]]]
    BY <1>2, <2>1
  <2>4. Blocks(q, order) = Through(LAMBDA blocks, start : AddBlock(blocks, items, start), <<>>, starts)
    BY <2>2, <2>3 DEF Blocks
  <2>5. Through(LAMBDA blocks, start : AddBlock(blocks, items, start), <<>>, starts) = g[m]
    BY <1>5, <1>11 DEF Through, BlockSteps
  <2> QED
    BY <2>4, <2>5
<1> DEFINE T == {k \in 0..m : BlocksFit(g[k], items, n, k)}
<1>14. 0 \in T
  <2>1. g[0] = <<>>
    BY <1>12 DEF BlockSteps
  <2>2. g[0] \in Seq(Block) /\ Len(g[0]) = 0 /\ 1..0 = {}
    BY <2>1
  <2> QED
    BY <2>2 DEF BlocksFit
<1>15. ASSUME NEW k \in 0..m, k \in T, k < m PROVE k + 1 \in T
  <2>1. k \in Nat /\ k < BlockCount(n) /\ BlocksFit(g[k], items, n, k) /\ k + 1 \in 1..m /\ (k + 1) - 1 = k /\ k + 1 \in 0..m /\ k + 1 # 0
    BY <1>1, <1>15
  <2>2. BlocksFit(AddBlock(g[k], items, StartOf(k + 1)), items, n, k + 1)
    BY <1>3, <2>1, BlocksGrow
  <2>3. g[k + 1] = AddBlock(g[k], items, starts[k + 1])
    BY <1>12, <2>1 DEF BlockSteps
  <2>4. starts[k + 1] = StartOf(k + 1)
    BY <1>5, <2>1
  <2> QED
    BY <2>1, <2>2, <2>3, <2>4
<1> HIDE DEF T
<1>16. \A k \in 0..m : k \in T
  BY <1>14, <1>15, UpTo
<1>17. m \in T
  BY <1>16
<1>18. BlocksFit(g[m], items, n, m)
  BY <1>17 DEF T
<1> QED
  BY <1>1, <1>2, <1>13, <1>18

(* The search. *)
Search(n) == [lo : 1..n + 1, hi : 1..n + 1]
LeftBehind(r, bs, start, n) ==
  r \in Search(n) /\ r.lo <= r.hi /\ \A b \in 1..n : b < r.lo => bs[b].maxEnd < start

LEMMA HalvedStays ==
  ASSUME NEW bs \in Seq(Block), NEW n \in Nat, n = Len(bs), \A b, c \in 1..n : b <= c => bs[b].maxEnd <= bs[c].maxEnd,
         NEW start \in Int, NEW r, LeftBehind(r, bs, start, n)
  PROVE  LeftBehind(Halved(r, bs, start), bs, start, n)
<1>1. r \in Search(n) /\ r.lo \in 1..n + 1 /\ r.hi \in 1..n + 1 /\ r.lo <= r.hi
  BY DEF LeftBehind, Search
<1>2. r = [lo |-> r.lo, hi |-> r.hi]
  BY <1>1 DEF Search
<1>3. PICK mid : mid = r.lo + (r.hi - r.lo) \div 2
  OBVIOUS
<1>4. CASE r.lo >= r.hi
  <2>1. Halved(r, bs, start) = r
    BY <1>4 DEF Halved
  <2> QED
    BY <2>1
<1>5. CASE ~(r.lo >= r.hi)
  <2>1. mid \in 1..n /\ r.lo <= mid /\ mid < r.hi
    BY <1>1, <1>3, <1>5
  <2>2. \A b \in 1..n : bs[b] \in Block
    OBVIOUS
  <2>3. \A b \in 1..n : bs[b].maxEnd \in Int
    BY <2>2 DEF Block
  <2>4. CASE bs[mid].maxEnd < start
    <3>1. PICK s : s = [lo |-> mid + 1, hi |-> r.hi]
      OBVIOUS
    <3>2. Halved(r, bs, start) = s
      BY <1>2, <1>3, <1>5, <2>4, <3>1 DEF Halved
    <3>3. s \in Search(n) /\ s.lo <= s.hi
      BY <1>1, <2>1, <3>1 DEF Search
    <3>4. ASSUME NEW b \in 1..n, b < s.lo PROVE bs[b].maxEnd < start
      <4>1. b <= mid
        BY <2>1, <3>1, <3>4
      <4>2. bs[b].maxEnd <= bs[mid].maxEnd
        BY <2>1, <4>1
      <4> QED
        BY <2>1, <2>3, <2>4, <4>2
    <3> QED
      BY <3>2, <3>3, <3>4 DEF LeftBehind
  <2>5. CASE ~(bs[mid].maxEnd < start)
    <3>1. PICK s : s = [lo |-> r.lo, hi |-> mid]
      OBVIOUS
    <3>2. Halved(r, bs, start) = s
      BY <1>2, <1>3, <1>5, <2>5, <3>1 DEF Halved
    <3>3. s \in Search(n) /\ s.lo <= s.hi
      BY <1>1, <2>1, <3>1 DEF Search
    <3> QED
      BY <3>1, <3>2, <3>3 DEF LeftBehind
  <2> QED
    BY <2>4, <2>5
<1> QED
  BY <1>4, <1>5

SearchSteps(g, bs, start, n) ==
  g = [k \in 0..n |-> IF k = 0 THEN [lo |-> 1, hi |-> n + 1] ELSE Halved(g[k - 1], bs, start)]

LEMMA FirstBlockIsEarly ==
  ASSUME NEW bs \in Seq(Block), NEW n \in Nat, n = Len(bs), \A b, c \in 1..n : b <= c => bs[b].maxEnd <= bs[c].maxEnd,
         NEW start \in Int
  PROVE  FirstBlock(bs, start) \in 1..n + 1 /\ \A b \in 1..n : b < FirstBlock(bs, start) => bs[b].maxEnd < start
<1> DEFINE Q == {r \in Search(n) : LeftBehind(r, bs, start, n)}
           base == [lo |-> 1, hi |-> n + 1]
<1>1. base \in Q
  <2>1. base \in Search(n) /\ base.lo <= base.hi
    BY DEF Search
  <2>2. \A b \in 1..n : ~(b < base.lo)
    OBVIOUS
  <2> QED
    BY <2>1, <2>2 DEF LeftBehind
<1>2. \A r \in Q : Halved(r, bs, start) \in Q
  <2> TAKE r \in Q
  <2>1. LeftBehind(Halved(r, bs, start), bs, start, n)
    BY HalvedStays
  <2> QED
    BY <2>1 DEF LeftBehind
<1>3. PICK step : step = [k \in 1..n |-> [r \in Q |-> Halved(r, bs, start)]]
  OBVIOUS
<1>4. step \in [1..n -> [Q -> Q]]
  BY <1>2, <1>3
<1> HIDE DEF Q
<1>5. PICK f \in [0..n -> Q] : IsFold(f, base, step, n)
  BY <1>1, <1>4, FoldExists
<1>6. \E g : SearchSteps(g, bs, start, n)
  <2>1. ASSUME NEW k \in 0..n PROVE f[k] = IF k = 0 THEN base ELSE Halved(f[k - 1], bs, start)
    <3>1. f[k] = IF k = 0 THEN base ELSE step[k][f[k - 1]]
      BY <1>5 DEF IsFold
    <3>2. k # 0 => k \in 1..n /\ k - 1 \in 0..n /\ f[k - 1] \in Q
      BY <1>5
    <3> QED
      BY <1>3, <3>1, <3>2
  <2>2. f = [k \in 0..n |-> f[k]]
    BY <1>5
  <2> QED
    BY <2>1, <2>2 DEF SearchSteps
<1>7. PICK g : g = CHOOSE x : SearchSteps(x, bs, start, n)
  OBVIOUS
<1>8. SearchSteps(g, bs, start, n)
  BY <1>6, <1>7
<1>9. FirstBlock(bs, start) = g[n].lo
  BY <1>7 DEF FirstBlock, Through, SearchSteps
<1>10. g[0] \in Q
  BY <1>1, <1>8 DEF SearchSteps
<1>11. ASSUME NEW k \in 1..n, g[k - 1] \in Q PROVE g[k] \in Q
  <2>1. k \in 0..n /\ k # 0
    OBVIOUS
  <2>2. g[k] = Halved(g[k - 1], bs, start)
    BY <1>8, <2>1 DEF SearchSteps
  <2> QED
    BY <1>2, <1>11, <2>2
<1>12. g[n] \in Q
  BY <1>10, <1>11, FoldStays
<1>13. LeftBehind(g[n], bs, start, n)
  BY <1>12 DEF Q
<1> QED
  BY <1>9, <1>13 DEF LeftBehind, Search

\* What the index of a thread is built from.
InTimeOrder(q, order, n) == \A j, k \in 1..n : j <= k => q[order[j]].ts <= q[order[k]].ts

\* Halving and then scanning the blocks of a thread finds every event that touches
\* a window and no other (BlockIndex::build, query), for blocks of any size.
THEOREM FoundIsAll ==
  ASSUME NEW n \in Nat, NEW q, NEW order, order = [k \in 1..n |-> order[k]], Len(order) = n,
         \A k \in 1..n : HasTimes(q[order[k]]), InTimeOrder(q, order, n),
         NEW start \in Int, NEW end \in Int
  PROVE  Found(Blocks(q, order), order, q, start, end) = {k \in 1..n : q[order[k]].ts <= end /\ End(q[order[k]]) >= start}
<1>1. PICK items : items = [k \in 1..n |-> q[order[k]]]
  OBVIOUS
<1>2. PICK bs, N : bs = Blocks(q, order) /\ N = BlockCount(n)
  OBVIOUS
<1>3. BlocksFit(bs, items, n, N)
  BY <1>1, <1>2, BlocksAreFit
<1>4. N \in Nat /\ bs \in Seq(Block) /\ Len(bs) = N
  BY <1>2, <1>3, BlocksCover DEF BlocksFit
<1>5. PICK first : first = FirstBlock(bs, start)
  OBVIOUS
<1>6. first \in 1..N + 1 /\ \A b \in 1..N : b < first => bs[b].maxEnd < start
  <2>1. \A b, c \in 1..N : b <= c => bs[b].maxEnd <= bs[c].maxEnd
    BY <1>3 DEF BlocksFit
  <2> QED
    BY <1>4, <1>5, <2>1, FirstBlockIsEarly
<1>7. PICK late : late = {b \in first..N : bs[b].minTs > end}
  OBVIOUS
<1>8. PICK upto : upto = IF late = {} THEN N ELSE Min(late) - 1
  OBVIOUS
<1>9. upto \in Int /\ upto <= N /\ (late # {} => upto + 1 \in late)
  <2>1. CASE late = {}
    BY <1>4, <1>8, <2>1
  <2>2. CASE late # {}
    <3>1. late \in SUBSET (first..N) /\ late \in SUBSET Int
      BY <1>6, <1>7
    <3>2. IsFiniteSet(first..N)
      <4>1. first \in Int /\ N \in Int
        BY <1>4, <1>6
      <4> QED
        BY <4>1, FS_Interval
    <3>3. IsFiniteSet(late)
      BY <3>1, <3>2, FS_Subset
    <3>4. Min(late) \in late
      BY <2>2, <3>1, <3>3, FiniteMin
    <3>5. Min(late) \in first..N
      BY <3>1, <3>4
    <3> QED
      BY <1>4, <1>6, <1>8, <2>2, <3>4, <3>5
  <2> QED
    BY <2>1, <2>2
<1>10. PICK scanned : scanned = UNION {bs[b].start..bs[b].start + bs[b].count - 1 : b \in first..upto}
  OBVIOUS
<1>11. Found(bs, order, q, start, end) = {k \in scanned : q[order[k]].ts <= end /\ End(q[order[k]]) >= start}
  <2>1. late = {b \in first..Len(bs) : bs[b].minTs > end} /\ upto = IF late = {} THEN Len(bs) ELSE Min(late) - 1
    BY <1>4, <1>7, <1>8
  <2> QED
    BY <1>5, <1>10, <2>1 DEF Found
<1>12. BlockSize \in Nat \ {0}
  BY IndexAssumption
<1>13. ASSUME NEW b \in 1..N PROVE /\ bs[b].start = StartOf(b) /\ StartOf(b) \in 1..n /\ bs[b].count \in Int
                                  /\ bs[b].count <= BlockSize /\ bs[b].count <= n + 1 - StartOf(b)
                                  /\ (bs[b].count = BlockSize \/ bs[b].count = n + 1 - StartOf(b))
  <2>1. BlockFits(bs[b], items, n, StartOf(b))
    BY <1>3 DEF BlocksFit
  <2>2. StartOf(b) \in 1..n
    BY <1>2, BlocksCover
  <2>3. BlockSize \in Int /\ n + 1 - StartOf(b) \in Int
    BY <1>12, <2>2
  <2>4. PICK v : v = n + 1 - StartOf(b)
    OBVIOUS
  <2>5. bs[b].start = StartOf(b) /\ bs[b].count = Min({BlockSize, v})
    BY <2>1, <2>4 DEF BlockFits
  <2>6. Min({BlockSize, v}) \in {BlockSize, v} /\ Min({BlockSize, v}) <= BlockSize /\ Min({BlockSize, v}) <= v
    BY <2>3, <2>4, MinOfTwo
  <2> QED
    BY <2>2, <2>3, <2>4, <2>5, <2>6
<1>14. scanned \subseteq 1..n
  <2> SUFFICES ASSUME NEW b \in first..upto, NEW k \in bs[b].start..bs[b].start + bs[b].count - 1 PROVE k \in 1..n
    BY <1>10
  <2>1. b \in 1..N
    BY <1>4, <1>6, <1>9
  <2> QED
    BY <1>13, <2>1
<1>15. ASSUME NEW k \in 1..n, q[order[k]].ts <= end, End(q[order[k]]) >= start PROVE k \in scanned
  <2>1. PICK b \in 1..N : StartOf(b) <= k /\ k < StartOf(b) + BlockSize /\ \A c \in 1..b : StartOf(c) <= k
    BY <1>2, BlocksCover
  <2>2. \A j \in 1..n : items[j] = q[order[j]] /\ items[j].ts \in Int /\ End(items[j]) \in Int
    BY <1>1 DEF HasTimes, End
  <2>3. \A c \in 1..N : bs[c].maxEnd \in Int /\ bs[c].minTs \in Int
    <3>1. \A c \in 1..N : bs[c] \in Block
      BY <1>4
    <3> QED
      BY <3>1 DEF Block
  <2>4. End(items[k]) <= bs[b].maxEnd
    <3>1. BlockFits(bs[b], items, n, StartOf(b))
      BY <1>3 DEF BlocksFit
    <3> QED
      BY <2>1, <3>1 DEF BlockFits
  <2>5. first <= b
    <3>1. ~(bs[b].maxEnd < start)
      BY <1>15, <2>2, <2>3, <2>4
    <3> QED
      BY <1>6, <3>1
  <2>6. ASSUME NEW c \in late PROVE b < c
    <3> SUFFICES ASSUME c <= b PROVE FALSE
      BY <1>6, <1>7
    <3>1. c \in 1..N /\ c \in 1..b /\ bs[c].minTs > end
      BY <1>6, <1>7
    <3>2. StartOf(c) <= k /\ StartOf(c) \in 1..n
      BY <1>13, <2>1, <3>1
    <3>3. bs[c].minTs <= items[StartOf(c)].ts
      <4>1. BlockFits(bs[c], items, n, StartOf(c))
        BY <1>3, <3>1 DEF BlocksFit
      <4>2. StartOf(c) <= StartOf(c) /\ StartOf(c) < StartOf(c) + BlockSize
        BY <1>12, <3>2
      <4> QED
        BY <3>2, <4>1, <4>2 DEF BlockFits
    <3>4. q[order[StartOf(c)]].ts <= q[order[k]].ts
      BY <3>2 DEF InTimeOrder
    <3>5. items[StartOf(c)].ts <= items[k].ts /\ items[k].ts <= end
      BY <1>15, <2>2, <3>2, <3>4
    <3> QED
      BY <2>2, <2>3, <3>1, <3>2, <3>3, <3>5
  <2>7. b <= upto
    <3>1. CASE late = {}
      BY <1>8, <3>1
    <3>2. CASE late # {}
      <4>1. b < upto + 1
        BY <1>9, <2>6, <3>2
      <4> QED
        BY <1>9, <4>1
    <3> QED
      BY <3>1, <3>2
  <2>8. b \in first..upto
    BY <1>6, <1>9, <2>5, <2>7
  <2>9. k \in bs[b].start..bs[b].start + bs[b].count - 1
    <3>1. PICK s, v : s = bs[b].start /\ v = bs[b].count
      OBVIOUS
    <3>2. s \in 1..n /\ v \in Int /\ (v = BlockSize \/ v = n + 1 - s) /\ s <= k /\ k < s + BlockSize
      BY <1>13, <2>1, <3>1
    <3>3. k \in s..s + v - 1
      BY <1>12, <3>2
    <3> QED
      BY <3>1, <3>3
  <2> QED
    BY <1>10, <2>8, <2>9
<1> QED
  BY <1>2, <1>11, <1>14, <1>15

-----------------------------------------------------------------------------
(* The whole index. *)
LEMMA InInterval ==
  ASSUME NEW a, NEW b, NEW x \in a..b
  PROVE  x \in Int
OBVIOUS

SetsField(d, e, k, v) == IsTimed(d) /\ \A x \in EventFields : d[x] = IF x = k THEN v ELSE e[x]

LEMMA FieldSet ==
  ASSUME NEW e, IsTimed(e), NEW k \in EventFields, NEW v, k \in {"ts", "dur"} => v \in Int
  PROVE  SetsField([e EXCEPT ![k] = v], e, k, v)
<1>1. e = [x \in EventFields |-> e[x]] /\ e.ts \in Int /\ e.dur \in Int
  BY DEF IsTimed, HasTimes
<1>2. PICK d : d = [e EXCEPT ![k] = v]
  OBVIOUS
<1>3. d = [x \in EventFields |-> IF x = k THEN v ELSE e[x]]
  BY <1>1, <1>2, Zenon
<1>4. \A x \in EventFields : d[x] = IF x = k THEN v ELSE e[x]
  BY <1>3
<1>5. d = [x \in EventFields |-> d[x]]
  BY <1>3
<1>6. "ts" \in EventFields /\ "dur" \in EventFields
  BY DEF EventFields
<1>7. d["ts"] = (IF "ts" = k THEN v ELSE e["ts"]) /\ d["dur"] = IF "dur" = k THEN v ELSE e["dur"]
  BY <1>4, <1>6
<1>8. e["ts"] \in Int /\ e["dur"] \in Int
  BY <1>1, Zenon
<1>9. d["ts"] \in Int /\ d["dur"] \in Int
  BY <1>7, <1>8
<1>10. d.ts \in Int /\ d.dur \in Int
  BY <1>9, Zenon
<1>11. IsTimed(d)
  BY <1>5, <1>10 DEF IsTimed, HasTimes
<1> QED
  BY <1>2, <1>4, <1>11 DEF SetsField

LEMMA ResolvedTimed ==
  ASSUME NEW e, IsTimed(e), NEW frames
  PROVE  IsTimed(ResolveEvent(e, frames)) /\ ResolveEvent(e, frames).ph = e.ph /\ ResolveEvent(e, frames).kind = e.kind
<1>1. PICK f, good : f = FrameOf(frames, e.sf) /\ good = (f # None /\ frames[f].valid)
  OBVIOUS
<1>2. PICK a, b, c : /\ a = IF good THEN f ELSE None
                     /\ b = IF good /\ e.ph = "P" THEN frames[f].name ELSE e.name
                     /\ c = IF good /\ e.ph = "P" /\ frames[f].cat # EmptyText THEN frames[f].cat ELSE e.cat
  OBVIOUS
<1>3. PICK d1, d2, d3 : d1 = [e EXCEPT !["frame"] = a] /\ d2 = [d1 EXCEPT !["name"] = b] /\ d3 = [d2 EXCEPT !["cat"] = c]
  OBVIOUS
<1>4. "frame" \in EventFields /\ "name" \in EventFields /\ "cat" \in EventFields /\ "ph" \in EventFields /\ "kind" \in EventFields
  BY DEF EventFields
<1>12. SetsField(d1, e, "frame", a)
  BY <1>3, <1>4, FieldSet
<1>5. IsTimed(d1) /\ SetsField(d1, e, "frame", a)
  BY <1>12 DEF SetsField
<1>13. SetsField(d2, d1, "name", b)
  BY <1>3, <1>4, <1>5, FieldSet
<1>6. IsTimed(d2) /\ SetsField(d2, d1, "name", b)
  BY <1>13 DEF SetsField
<1>14. SetsField(d3, d2, "cat", c)
  BY <1>3, <1>4, <1>6, FieldSet
<1>7. IsTimed(d3) /\ SetsField(d3, d2, "cat", c)
  BY <1>14 DEF SetsField
<1>10. d3["ph"] = e["ph"] /\ d3["kind"] = e["kind"]
  BY <1>4, <1>5, <1>6, <1>7 DEF SetsField
<1>11. d3.ph = e.ph /\ d3.kind = e.kind
  BY <1>10, Zenon
<1>8. ResolveEvent(e, frames) = [e EXCEPT !.frame = a, !.name = b, !.cat = c]
  BY <1>1, <1>2 DEF ResolveEvent
<1>9. ResolveEvent(e, frames) = d3
  BY <1>3, <1>8, Zenon
<1> QED
  BY <1>7, <1>9, <1>11

FreshFields(d) == d.parent = None /\ d.depth = 0 /\ d.self = 0 /\ d.ended = FALSE /\ d.dur \in Int

LEMMA ResetFresh ==
  ASSUME NEW e, IsTimed(e)
  PROVE  IsTimed(Reset(e)) /\ FreshFields(Reset(e)) /\ Reset(e).ph = e.ph /\ Reset(e).kind = IF e.ph = "P" THEN "Sample" ELSE e.kind
<1>1. PICK a, b : a = (IF e.ph = "P" THEN "Sample" ELSE e.kind) /\ b = IF e.ph = "P" THEN 0 ELSE e.dur
  OBVIOUS
<1>2. b \in Int
  BY <1>1 DEF IsTimed, HasTimes
<1>3. PICK d1, d2, d3 : d1 = [e EXCEPT !["parent"] = None] /\ d2 = [d1 EXCEPT !["depth"] = 0] /\ d3 = [d2 EXCEPT !["self"] = 0]
  OBVIOUS
<1>4. PICK d4, d5, d6 : d4 = [d3 EXCEPT !["ended"] = FALSE] /\ d5 = [d4 EXCEPT !["kind"] = a] /\ d6 = [d5 EXCEPT !["dur"] = b]
  OBVIOUS
<1>5. "parent" \in EventFields /\ "depth" \in EventFields /\ "self" \in EventFields /\ "ended" \in EventFields
      /\ "kind" \in EventFields /\ "dur" \in EventFields /\ "ph" \in EventFields
  BY DEF EventFields
<1>6. SetsField(d1, e, "parent", None) /\ IsTimed(d1)
  <2>1. SetsField(d1, e, "parent", None)
    BY <1>3, <1>5, FieldSet
  <2> QED
    BY <2>1 DEF SetsField
<1>7. SetsField(d2, d1, "depth", 0) /\ IsTimed(d2)
  <2>1. SetsField(d2, d1, "depth", 0)
    BY <1>3, <1>5, <1>6, FieldSet
  <2> QED
    BY <2>1 DEF SetsField
<1>8. SetsField(d3, d2, "self", 0) /\ IsTimed(d3)
  <2>1. SetsField(d3, d2, "self", 0)
    BY <1>3, <1>5, <1>7, FieldSet
  <2> QED
    BY <2>1 DEF SetsField
<1>9. SetsField(d4, d3, "ended", FALSE) /\ IsTimed(d4)
  <2>1. SetsField(d4, d3, "ended", FALSE)
    BY <1>4, <1>5, <1>8, FieldSet
  <2> QED
    BY <2>1 DEF SetsField
<1>10. SetsField(d5, d4, "kind", a) /\ IsTimed(d5)
  <2>1. SetsField(d5, d4, "kind", a)
    BY <1>4, <1>5, <1>9, FieldSet
  <2> QED
    BY <2>1 DEF SetsField
<1>11. SetsField(d6, d5, "dur", b) /\ IsTimed(d6)
  <2>1. SetsField(d6, d5, "dur", b)
    BY <1>2, <1>4, <1>5, <1>10, FieldSet
  <2> QED
    BY <2>1 DEF SetsField
<1>12. d6["parent"] = None /\ d6["depth"] = 0 /\ d6["self"] = 0 /\ d6["ended"] = FALSE /\ d6["dur"] = b
  BY <1>5, <1>6, <1>7, <1>8, <1>9, <1>10, <1>11, ZenonT(40) DEF SetsField
<1>13. Reset(e) = [e EXCEPT !.parent = None, !.depth = 0, !.self = 0, !.ended = FALSE, !.kind = a, !.dur = b]
  BY <1>1 DEF Reset
<1>14. Reset(e) = d6
  BY <1>3, <1>4, <1>13, Zenon
<1>15. d6.parent = None /\ d6.depth = 0 /\ d6.self = 0 /\ d6.ended = FALSE /\ d6.dur = b
  BY <1>12, Zenon
<1>16. d3["ph"] = e["ph"]
  BY <1>5, <1>6, <1>7, <1>8 DEF SetsField
<1>17. d6["ph"] = d3["ph"] /\ d6["kind"] = a
  BY <1>5, <1>9, <1>10, <1>11 DEF SetsField
<1>18. d6.ph = e.ph /\ d6.kind = a
  BY <1>16, <1>17, Zenon
<1> QED
  BY <1>1, <1>2, <1>11, <1>14, <1>15, <1>18 DEF FreshFields, SetsField

Started(events0, frames) == [i \in DOMAIN events0 |-> Reset(ResolveEvent(events0[i], frames))]

LEMMA FreshIsFresh ==
  ASSUME NEW n \in Nat, NEW events0, DOMAIN events0 = 1..n, AreTimed(events0), NEW frames
  PROVE  /\ AreFresh(Started(events0, frames))
         /\ Started(events0, frames) = [i \in 1..n |-> Started(events0, frames)[i]]
<1>1. PICK ev : ev = Started(events0, frames)
  OBVIOUS
<1>2. ev = [i \in 1..n |-> Reset(ResolveEvent(events0[i], frames))]
  BY <1>1 DEF Started
<1>3. DOMAIN ev = 1..n /\ \A i \in 1..n : ev[i] = Reset(ResolveEvent(events0[i], frames))
  BY <1>2
<1>4. ASSUME NEW i \in DOMAIN ev PROVE IsTimed(ev[i]) /\ \A k \in Changing : ev[i][k] \in RangeOf(ev, k)
  <2>1. IsTimed(events0[i])
    BY <1>3 DEF AreTimed
  <2>2. IsTimed(ResolveEvent(events0[i], frames))
    BY <2>1, ResolvedTimed
  <2>3. IsTimed(ev[i]) /\ FreshFields(ev[i])
    BY <1>3, <2>2, ResetFresh
  <2>4. ev[i]["parent"] = None /\ ev[i]["depth"] = 0 /\ ev[i]["self"] = 0 /\ ev[i]["ended"] = FALSE /\ ev[i]["dur"] \in Int
    BY <2>3, Zenon DEF FreshFields
  <2>5. PICK e : e = ev[i]
    OBVIOUS
  <2>6. /\ e["parent"] \in RangeOf(ev, "parent") /\ e["depth"] \in RangeOf(ev, "depth") /\ e["self"] \in RangeOf(ev, "self")
        /\ e["ended"] \in RangeOf(ev, "ended") /\ e["dur"] \in RangeOf(ev, "dur")
    <3>1. /\ RangeOf(ev, "parent") = DOMAIN ev \cup {None} /\ RangeOf(ev, "depth") = Nat /\ RangeOf(ev, "self") = Int
          /\ RangeOf(ev, "ended") = BOOLEAN /\ RangeOf(ev, "dur") = Int
      BY DEF RangeOf
    <3>2. e["parent"] = None /\ e["depth"] = 0 /\ e["self"] = 0 /\ e["ended"] = FALSE /\ e["dur"] \in Int
      BY <2>4, <2>5, Zenon
    <3>3. None \in DOMAIN ev \cup {None} /\ 0 \in Nat /\ 0 \in Int /\ FALSE \in BOOLEAN
      OBVIOUS
    <3> QED
      BY <3>1, <3>2, <3>3, Zenon
  <2>7. \A k \in Changing : e[k] \in RangeOf(ev, k)
    BY <2>6, Zenon DEF Changing
  <2> QED
    BY <2>3, <2>5, <2>7
<1>5. AreFresh(ev)
  BY <1>4 DEF AreFresh, AreTimed
<1>6. ev = [i \in 1..n |-> ev[i]]
  BY <1>2
<1> QED
  BY <1>1, <1>5, <1>6

\* The block index of a thread finds what touches a window.
FindsAll(m) ==
  \A th \in DOMAIN m.order : \A start, end \in Int :
    Touching(m, th, start, end) = {k \in DOMAIN m.order[th] : m.events[m.order[th][k]].ts <= end /\ End(m.events[m.order[th][k]]) >= start}

\* What an index is: its events are those it was given, but for what indexing sets.
IndexOf(m, events0, frames, n) ==
  /\ m.events \in Kin(Started(events0, frames))
  /\ m.events = [i \in 1..n |-> m.events[i]] /\ AreTimed(m.events)
  /\ m.frames = frames
  /\ FindsAll(m)

LEMMA IndexIs ==
  ASSUME NEW n \in Nat, NEW events0, DOMAIN events0 = 1..n, AreTimed(events0), NEW frames
  PROVE  IndexOf(BuildIndex(events0, frames), events0, ResolveFrames(frames), n)
<1>1. PICK ev, q : ev = Started(events0, ResolveFrames(frames)) /\ q = IndexEvents(ev)
  OBVIOUS
<1>2. AreFresh(ev) /\ ev = [i \in 1..n |-> ev[i]]
  BY <1>1, FreshIsFresh
<1>3. q \in Kin(ev)
  BY <1>1, <1>2, EventsIndexed
<1>4. DOMAIN ev = 1..n /\ AreTimed(ev)
  BY <1>1, <1>2 DEF Started, AreFresh
<1>5. DOMAIN q = 1..n /\ AreTimed(q)
  BY <1>3, <1>4, KinTimed
<1>6. q = [i \in 1..n |-> q[i]]
  BY <1>3, <1>4 DEF Kin
<1>7. PICK order : order = [th \in Threads(q) |-> NestOrder(q, th)]
  OBVIOUS
<1>8. PICK m : m = BuildIndex(events0, frames)
  OBVIOUS
<1>9. m = Model(q, ResolveFrames(frames), order)
  BY <1>1, <1>7, <1>8 DEF BuildIndex, IndexWith, IndexedAs, Started
<1>10. m.events = q /\ m.frames = ResolveFrames(frames) /\ m.order = order /\ m.blocks = [th \in DOMAIN order |-> Blocks(q, order[th])]
  BY <1>9 DEF Model
<1>11. ASSUME NEW th \in DOMAIN m.order, NEW start \in Int, NEW end \in Int
       PROVE  Touching(m, th, start, end) = {k \in DOMAIN m.order[th] : m.events[m.order[th][k]].ts <= end /\ End(m.events[m.order[th][k]]) >= start}
  <2>1. PICK s : s = NestOrder(q, th)
    OBVIOUS
  <2>2. m.order[th] = s /\ m.blocks[th] = Blocks(q, s)
    BY <1>7, <1>10, <2>1
  <2>3. NestSorts(q, th) /\ s \in Seq(1..n)
    BY <1>5, <2>1, NestOrderSorts
  <2>4. PICK l \in Nat : l = Len(s)
    BY <2>3
  <2>5. DOMAIN s = 1..l /\ \A k \in 1..l : s[k] \in 1..n
    BY <2>3, <2>4
  <2>10. s = [k \in 1..l |-> s[k]] /\ Len(s) = l
    BY <2>3, <2>4
  <2>6. \A k \in 1..l : HasTimes(q[s[k]])
    BY <1>5, <2>5 DEF AreTimed, IsTimed
  <2>7. InTimeOrder(q, s, l)
    <3>1. ASSUME NEW j \in 1..l, NEW k \in 1..l, j < k PROVE q[s[j]].ts <= q[s[k]].ts
      <4>1. NestBefore(q, s[j], s[k])
        BY <2>1, <2>3, <2>4, <3>1 DEF NestSorts, Sorts
      <4>2. q[s[j]].ts \in Int /\ q[s[k]].ts \in Int
        BY <2>6 DEF HasTimes
      <4> QED
        BY <4>1, <4>2 DEF NestBefore
    <3>2. \A k \in 1..l : q[s[k]].ts <= q[s[k]].ts
      BY <2>6 DEF HasTimes
    <3> QED
      BY <3>1, <3>2 DEF InTimeOrder
  <2>8. Found(Blocks(q, s), s, q, start, end) = {k \in 1..l : q[s[k]].ts <= end /\ End(q[s[k]]) >= start}
    BY <2>6, <2>7, <2>10, FoundIsAll, SMTT(30)
  <2>9. Touching(m, th, start, end) = Found(Blocks(q, s), s, q, start, end)
    BY <1>10, <2>2 DEF Touching
  <2> QED
    BY <1>10, <2>2, <2>5, <2>8, <2>9
<1>12. FindsAll(m)
  BY <1>11 DEF FindsAll
<1> QED
  BY <1>1, <1>3, <1>5, <1>6, <1>8, <1>10, <1>12 DEF IndexOf

-----------------------------------------------------------------------------
(* Depths.  What is not nested stays at depth 0. *)
LEMMA SetsOther ==
  ASSUME NEW e, IsTimed(e), NEW k \in EventFields, k # "depth", NEW v, k \in {"ts", "dur"} => v \in Int
  PROVE  [e EXCEPT ![k] = v].depth = e.depth /\ (k # "ended" => [e EXCEPT ![k] = v].ended = e.ended)
<1>1. PICK d : d = [e EXCEPT ![k] = v]
  OBVIOUS
<1>2. SetsField(d, e, k, v)
  BY <1>1, FieldSet
<1>3. "depth" \in EventFields /\ "ended" \in EventFields
  BY DEF EventFields
<1>4. d["depth"] = e["depth"] /\ (k # "ended" => d["ended"] = e["ended"])
  BY <1>2, <1>3 DEF SetsField
<1>5. d.depth = e.depth /\ (k # "ended" => d.ended = e.ended)
  BY <1>4, Zenon
<1> QED
  BY <1>1, <1>5

LEMMA PairLeaves ==
  ASSUME NEW ev, AreTimed(ev), NEW acc \in Pairing(ev), NEW i \in DOMAIN ev, NEW r, r = PairOne(acc, i).events, NEW j \in DOMAIN ev
  PROVE  r[j].depth = acc.events[j].depth /\ (j # i => r[j].ended = acc.events[j].ended)
<1>1. acc.events \in Kin(ev) /\ acc.open \in [Tracks -> Seq(DOMAIN ev)]
      /\ acc = [events |-> acc.events, open |-> acc.open, within |-> acc.within]
  BY DEF Pairing
<1>2. PICK q : q = acc.events
  OBVIOUS
<1>3. PICK e, t, open : e = q[i] /\ t = Track(e) /\ open = acc.open[t]
  OBVIOUS
<1>4. t \in Tracks /\ open \in Seq(DOMAIN ev)
  BY <1>1, <1>3 DEF Track, Tracks
<1>5. CASE e.ph = "E" /\ open # <<>>
  <2>1. PICK b, d : b = Last(open) /\ d = Max({0, e.ts - q[b].ts})
    OBVIOUS
  <2>2. b \in DOMAIN ev
    BY <1>4, <1>5, <2>1, FrontLast
  <2>3. HasTimes(q[b]) /\ IsTimed(q[b]) /\ HasTimes(e) /\ DOMAIN q = DOMAIN ev
    BY <1>1, <1>2, <1>3, <2>2, KinHas
  <2>4. d \in Int
    <3>1. 0 \in Int /\ e.ts - q[b].ts \in Int
      BY <2>3 DEF HasTimes
    <3> QED
      BY <2>1, <3>1, MaxOfTwo
  <2>5. PICK eb : eb = [q[b] EXCEPT !["dur"] = d]
    OBVIOUS
  <2>6. "dur" \in EventFields /\ "ended" \in EventFields
    BY DEF EventFields
  <2>7. eb.depth = q[b].depth /\ eb.ended = q[b].ended /\ IsTimed(eb)
    <3>1. SetsField(eb, q[b], "dur", d)
      BY <2>3, <2>4, <2>5, <2>6, FieldSet
    <3> QED
      BY <2>3, <2>4, <2>5, <2>6, <3>1, SetsOther DEF SetsField
  <2>8. PICK one : one = [q EXCEPT ![b] = eb]
    OBVIOUS
  <2>9. PICK ei : ei = [one[i] EXCEPT !["ended"] = TRUE]
    OBVIOUS
  <2>10. \A x \in DOMAIN ev : one[x] = IF x = b THEN eb ELSE q[x]
    BY <2>3, <2>8
  <2>11. DOMAIN one = DOMAIN ev /\ IsTimed(one[i]) /\ one[i].depth = q[i].depth
    <3>1. IsTimed(q[i])
      BY <1>1, <1>2, KinHas
    <3> QED
      BY <2>3, <2>7, <2>8, <2>10, <3>1
  <2>12. ei.depth = q[i].depth
    BY <2>6, <2>9, <2>11, SetsOther, SMTT(30)
  <2>13. PairOne(acc, i) = [acc EXCEPT !.open[t] = Front(@), !.events[b].dur = d, !.events[i].ended = TRUE]
    BY <1>2, <1>3, <1>5, <2>1 DEF PairOne
  <2>14. r = [[q EXCEPT ![b].dur = d] EXCEPT ![i].ended = TRUE]
    BY <1>1, <1>2, <2>13
  <2>15. r = [one EXCEPT ![i] = ei]
    BY <2>5, <2>8, <2>9, <2>14
  <2>16. r[j] = IF j = i THEN ei ELSE IF j = b THEN eb ELSE q[j]
    BY <2>10, <2>11, <2>15
  <2> QED
    BY <1>2, <2>7, <2>12, <2>16
<1>6. CASE ~(e.ph = "E" /\ open # <<>>)
  <2>1. CASE e.ph = "B"
    <3>1. PICK w : PairOne(acc, i) = [acc EXCEPT !.open[t] = Append(@, i), !.within[i] = w]
      BY <1>2, <1>3, <2>1 DEF PairOne
    <3>2. r = q
      BY <1>1, <1>2, <3>1
    <3> QED
      BY <1>2, <3>2
  <2>2. CASE e.ph # "B"
    <3>1. PairOne(acc, i) = acc
      BY <1>2, <1>3, <1>6, <2>2 DEF PairOne
    <3> QED
      BY <3>1, SMTT(30)
  <2> QED
    BY <2>1, <2>2
<1> QED
  BY <1>5, <1>6

LEMMA NestLeaves ==
  ASSUME NEW ev, AreTimed(ev), NEW acc \in NestingOf(ev), NEW i \in DOMAIN ev, NEW r, r = NestOne(acc, i).events, NEW j \in DOMAIN ev
  PROVE  (j # i => r[j] = acc.events[j]) /\ r[j].ended = acc.events[j].ended
<1>1. acc.events \in Kin(ev) /\ acc = [events |-> acc.events, within |-> acc.within, stack |-> acc.stack]
  BY DEF NestingOf
<1>2. PICK q, e : q = acc.events /\ e = q[i]
  OBVIOUS
<1>3. CASE e.kind = "Sample"
  BY <1>2, <1>3 DEF NestOne
<1>4. CASE e.kind # "Sample"
  <2>1. PICK t, s, parent, depth, self : NestOne(acc, i) = [acc EXCEPT !.stack[t] = s,
                             !.events[i] = [e EXCEPT !.parent = parent, !.depth = depth, !.self = self]]
    BY <1>2, <1>4 DEF NestOne
  <2>2. PICK d : d = [e EXCEPT !.parent = parent, !.depth = depth, !.self = self]
    OBVIOUS
  <2>3. r = [q EXCEPT ![i] = d]
    BY <1>1, <1>2, <2>1, <2>2
  <2>4. DOMAIN q = DOMAIN ev /\ e = [x \in EventFields |-> e[x]]
    BY <1>1, <1>2, KinHas DEF IsTimed
  <2>5. d = [[[e EXCEPT !["parent"] = parent] EXCEPT !["depth"] = depth] EXCEPT !["self"] = self]
    BY <2>2, Zenon
  <2>6. "ended" \in EventFields /\ "ended" \notin {"parent", "depth", "self"}
    BY DEF EventFields
  <2>7. d["ended"] = e["ended"]
    BY <2>4, <2>5, <2>6
  <2>8. d.ended = e.ended
    BY <2>7, Zenon
  <2>9. r[j] = IF j = i THEN d ELSE q[j]
    BY <2>3, <2>4
  <2> QED
    BY <1>2, <2>8, <2>9
<1> QED
  BY <1>3, <1>4

LEMMA SubtractLeaves ==
  ASSUME NEW ev, AreTimed(ev), NEW q \in Kin(ev), NEW i \in DOMAIN ev, NEW r, r = Subtract(q, i), NEW j \in DOMAIN ev
  PROVE  r[j].depth = q[j].depth /\ r[j].ended = q[j].ended
<1>1. PICK e : e = q[i]
  OBVIOUS
<1>2. CASE e.parent = None \/ e.dur <= 0
  BY <1>1, <1>2 DEF Subtract
<1>3. CASE ~(e.parent = None \/ e.dur <= 0)
  <2>1. PICK p, v : p = e.parent /\ v = Max({0, q[p].self - e.dur})
    OBVIOUS
  <2>2. p \in DOMAIN ev /\ DOMAIN q = DOMAIN ev
    BY <1>1, <1>3, <2>1, KinHas
  <2>3. PICK d : d = [q[p] EXCEPT !["self"] = v]
    OBVIOUS
  <2>4. IsTimed(q[p]) /\ "self" \in EventFields
    BY <2>2, KinHas DEF EventFields
  <2>5. d.depth = q[p].depth /\ d.ended = q[p].ended
    BY <2>3, <2>4, SetsOther
  <2>6. r = [q EXCEPT ![p].self = v]
    BY <1>1, <1>3, <2>1 DEF Subtract
  <2>7. r = [q EXCEPT ![p] = d]
    BY <2>3, <2>6, Zenon
  <2>8. r[j] = IF j = p THEN d ELSE q[j]
    BY <2>2, <2>7
  <2> QED
    BY <2>5, <2>8
<1> QED
  BY <1>2, <1>3

LEMMA PairedLeaves ==
  ASSUME NEW n \in Nat, NEW ev, DOMAIN ev = 1..n, AreTimed(ev), NEW q \in Kin(ev), NEW th, NEW r, r = Paired(q, th).events
  PROVE  \A j \in 1..n : r[j].depth = q[j].depth /\ (j \notin OfThread(q, th) => r[j].ended = q[j].ended)
<1>1. PICK order, O : order = PairOrder(q, th) /\ O = OfThread(q, th)
  OBVIOUS
<1>2. DOMAIN q = 1..n /\ AreTimed(q)
  BY KinTimed
<1>3. order \in Seq(DOMAIN ev) /\ PairSorts(q, th)
  BY <1>1, <1>2, PairOrderSorts
<1>4. PICK m \in Nat : m = Len(order)
  BY <1>3
<1>5. \A k \in 1..m : order[k] \in O /\ order[k] \in DOMAIN ev
  <2>1. order \in Seq(O)
    BY <1>1, <1>3 DEF PairSorts, Sorts
  <2> QED
    BY <1>3, <1>4, <2>1
<1>6. PICK g : PairSteps(g, q, order, m) /\ Paired(q, th) = g[m] /\ \A k \in 0..m : g[k] \in Pairing(ev)
  BY <1>1, <1>4, PairedFolds
<1> DEFINE Fine == {k \in 0..m : \A j \in 1..n : g[k].events[j].depth = q[j].depth /\ (j \notin O => g[k].events[j].ended = q[j].ended)}
<1>7. 0 \in Fine
  <2>1. g[0] = PairBase(q) /\ 0 \in 0..m
    BY <1>6 DEF PairSteps
  <2>2. g[0].events = q
    BY <2>1 DEF PairBase
  <2> QED
    BY <2>1, <2>2
<1>8. ASSUME NEW k \in 0..m, k \in Fine, k < m PROVE k + 1 \in Fine
  <2>1. k + 1 \in 1..m /\ k + 1 \in 0..m /\ (k + 1) - 1 = k /\ k + 1 # 0
    BY <1>8
  <2>2. PICK i, acc : i = order[k + 1] /\ acc = g[k]
    OBVIOUS
  <2>3. g[k + 1] = PairOne(acc, i) /\ acc \in Pairing(ev) /\ i \in O /\ i \in DOMAIN ev
    BY <1>5, <1>6, <2>1, <2>2 DEF PairSteps
  <2>4. ASSUME NEW j \in 1..n
        PROVE  g[k + 1].events[j].depth = acc.events[j].depth /\ (j # i => g[k + 1].events[j].ended = acc.events[j].ended)
    BY <2>3, PairLeaves
  <2>5. \A j \in 1..n : acc.events[j].depth = q[j].depth /\ (j \notin O => acc.events[j].ended = q[j].ended)
    BY <1>8, <2>2
  <2> QED
    BY <2>1, <2>3, <2>4, <2>5
<1> HIDE DEF Fine
<1>9. m \in Fine
  <2>1. \A k \in 0..m : k \in Fine
    BY <1>7, <1>8, UpTo
  <2> QED
    BY <2>1
<1> QED
  BY <1>1, <1>6, <1>9 DEF Fine

LEMMA NestedLeaves ==
  ASSUME NEW n \in Nat, NEW ev, DOMAIN ev = 1..n, AreTimed(ev), NEW paired \in Pairing(ev), NEW M,
         NEW order \in Seq(M), order \in Seq(DOMAIN ev)
  PROVE  \A j \in 1..n : /\ Nested(paired, order)[j].ended = paired.events[j].ended
                         /\ j \notin M => Nested(paired, order)[j].depth = paired.events[j].depth
<1>1. PICK q, r : q = paired.events /\ r = Nested(paired, order)
  OBVIOUS
<1>6. PICK m \in Nat : m = Len(order)
  OBVIOUS
<1>7. \A k \in 1..m : order[k] \in M /\ order[k] \in DOMAIN ev
  BY <1>6
<1>2. PICK g : NestSteps(g, paired, order, m) /\ r = g[m].events /\ \A k \in 0..m : g[k] \in NestingOf(ev)
  BY <1>1, <1>6, NestedFolds
<1> DEFINE Fine == {k \in 0..m : \A j \in 1..n : g[k].events[j].ended = q[j].ended /\ (j \notin M => g[k].events[j].depth = q[j].depth)}
<1>3. 0 \in Fine
  <2>1. g[0] = NestBase(paired) /\ 0 \in 0..m
    BY <1>2 DEF NestSteps
  <2>2. g[0].events = q
    BY <1>1, <2>1 DEF NestBase
  <2> QED
    BY <2>1, <2>2
<1>4. ASSUME NEW k \in 0..m, k \in Fine, k < m PROVE k + 1 \in Fine
  <2>1. k + 1 \in 1..m /\ k + 1 \in 0..m /\ (k + 1) - 1 = k /\ k + 1 # 0
    BY <1>4
  <2>2. PICK i, acc : i = order[k + 1] /\ acc = g[k]
    OBVIOUS
  <2>3. g[k + 1] = NestOne(acc, i) /\ acc \in NestingOf(ev) /\ i \in M /\ i \in DOMAIN ev
    BY <1>2, <1>7, <2>1, <2>2 DEF NestSteps
  <2>6. PICK d : d = NestOne(acc, i).events
    OBVIOUS
  <2>4. ASSUME NEW j \in 1..n
        PROVE  (j # i => d[j] = acc.events[j]) /\ d[j].ended = acc.events[j].ended
    BY <2>3, <2>6, NestLeaves
  <2>5. \A j \in 1..n : acc.events[j].ended = q[j].ended /\ (j \notin M => acc.events[j].depth = q[j].depth)
    BY <1>4, <2>2
  <2> QED
    BY <2>1, <2>3, <2>4, <2>5, <2>6
<1> HIDE DEF Fine
<1>5. m \in Fine
  <2>1. \A k \in 0..m : k \in Fine
    BY <1>3, <1>4, UpTo
  <2> QED
    BY <2>1
<1> QED
  BY <1>1, <1>2, <1>5 DEF Fine

LEMMA SubtractedLeaves ==
  ASSUME NEW n \in Nat, NEW ev, DOMAIN ev = 1..n, AreTimed(ev), NEW q \in Kin(ev), NEW order \in Seq(DOMAIN ev),
         NEW r, r = Through(Subtract, q, order)
  PROVE  \A j \in 1..n : r[j].depth = q[j].depth /\ r[j].ended = q[j].ended
<1>1. PICK m \in Nat : m = Len(order)
  OBVIOUS
<1>2. PICK g : SubtractSteps(g, q, order, m) /\ r = g[m] /\ \A k \in 0..m : g[k] \in Kin(ev)
  BY <1>1, SubtractedFolds
<1> DEFINE Fine == {k \in 0..m : \A j \in 1..n : g[k][j].depth = q[j].depth /\ g[k][j].ended = q[j].ended}
<1>3. 0 \in Fine
  BY <1>2 DEF SubtractSteps
<1>4. ASSUME NEW k \in 0..m, k \in Fine, k < m PROVE k + 1 \in Fine
  <2>1. k + 1 \in 1..m /\ k + 1 \in 0..m /\ (k + 1) - 1 = k /\ k + 1 # 0
    BY <1>4
  <2>2. PICK i, p : i = order[k + 1] /\ p = g[k]
    OBVIOUS
  <2>3. g[k + 1] = Subtract(p, i) /\ p \in Kin(ev) /\ i \in DOMAIN ev
    BY <1>1, <1>2, <2>1, <2>2 DEF SubtractSteps
  <2>5. PICK d : d = Subtract(p, i)
    OBVIOUS
  <2>4. ASSUME NEW j \in 1..n PROVE d[j].depth = p[j].depth /\ d[j].ended = p[j].ended
    BY <2>3, <2>5, SubtractLeaves, SMTT(30)
  <2> QED
    BY <1>4, <2>1, <2>2, <2>3, <2>4, <2>5
<1> HIDE DEF Fine
<1>5. m \in Fine
  <2>1. \A k \in 0..m : k \in Fine
    BY <1>3, <1>4, UpTo
  <2> QED
    BY <2>1
<1> QED
  BY <1>2, <1>5 DEF Fine

\* Indexing a thread changes neither the events of others nor the depth of those
\* that are not nested.
LEMMA ThreadLeaves ==
  ASSUME NEW n \in Nat, NEW ev, DOMAIN ev = 1..n, AreTimed(ev), NEW q \in Kin(ev), NEW th, NEW r, r = IndexThread(q, th)
  PROVE  /\ r \in Kin(ev)
         /\ \A j \in 1..n : j \notin OfThread(q, th) => r[j].depth = q[j].depth /\ r[j].ended = q[j].ended
         /\ \A j \in 1..n : r[j].depth = q[j].depth \/ j \in NestMembers(r, th)
<1>1. PICK paired : paired = Paired(q, th)
  OBVIOUS
<1>2. paired \in Pairing(ev)
  BY <1>1, PairedKeeps
<1>3. PICK p : p = paired.events
  OBVIOUS
<1>4. p \in Kin(ev)
  BY <1>2, <1>3 DEF Pairing
<1>5. PICK order, M : order = NestOrder(p, th) /\ M = NestMembers(p, th)
  OBVIOUS
<1>6. DOMAIN p = 1..n /\ AreTimed(p)
  BY <1>4, KinTimed
<1>7. order \in Seq(DOMAIN ev) /\ NestSorts(p, th)
  BY <1>5, <1>6, NestOrderSorts
<1>9. order \in Seq(M)
  BY <1>5, <1>7 DEF NestSorts, Sorts
<1>10. PICK s : s = Nested(paired, order)
  OBVIOUS
<1>11. s \in Kin(ev)
  BY <1>2, <1>7, <1>10, NestedKeeps
<1>12. r = Through(Subtract, s, order)
  BY <1>1, <1>3, <1>5, <1>10 DEF IndexThread
<1>13. r \in Kin(ev)
  BY <1>7, <1>11, <1>12, SubtractedKeeps
<1>14. \A j \in 1..n : p[j].depth = q[j].depth /\ (j \notin OfThread(q, th) => p[j].ended = q[j].ended)
  BY <1>1, <1>3, PairedLeaves
<1>15. \A j \in 1..n : s[j].ended = p[j].ended /\ (j \notin M => s[j].depth = p[j].depth)
  <2>1. \A j \in 1..n : s[j].ended = paired.events[j].ended /\ (j \notin M => s[j].depth = paired.events[j].depth)
    BY <1>2, <1>7, <1>9, <1>10, NestedLeaves
  <2> QED
    BY <1>3, <2>1
<1>16. \A j \in 1..n : r[j].depth = s[j].depth /\ r[j].ended = s[j].ended
  BY <1>7, <1>11, <1>12, SubtractedLeaves
<1>17. DOMAIN q = 1..n /\ DOMAIN r = 1..n
  BY <1>13, KinTimed
<1>18. \A j \in 1..n : /\ p[j].ph = q[j].ph /\ p[j].pid = q[j].pid /\ p[j].tid = q[j].tid
                       /\ r[j].ph = q[j].ph /\ r[j].pid = q[j].pid /\ r[j].tid = q[j].tid
  <2> TAKE j \in 1..n
  <2>1. p[j].ph = ev[j].ph /\ p[j].pid = ev[j].pid /\ p[j].tid = ev[j].tid
    BY <1>4, KinHas
  <2>2. r[j].ph = ev[j].ph /\ r[j].pid = ev[j].pid /\ r[j].tid = ev[j].tid
    BY <1>13, KinHas
  <2>3. q[j].ph = ev[j].ph /\ q[j].pid = ev[j].pid /\ q[j].tid = ev[j].tid
    BY KinHas
  <2> QED
    BY <2>1, <2>2, <2>3
<1>19. OfThread(p, th) = OfThread(q, th) /\ OfThread(r, th) = OfThread(q, th)
  BY <1>6, <1>17, <1>18 DEF OfThread, Timed, ThreadOf
<1>20. \A j \in M : j \in NestMembers(r, th)
  <2>1. \A j \in M : j \in OfThread(r, th) /\ j \in 1..n /\ ~p[j].ended
    BY <1>5, <1>6, <1>19 DEF NestMembers, OfThread
  <2> QED
    BY <1>15, <1>16, <2>1 DEF NestMembers
<1>21. M \subseteq OfThread(q, th)
  BY <1>5, <1>19 DEF NestMembers
<1> QED
  BY <1>13, <1>14, <1>15, <1>16, <1>20, <1>21

FlatIn(q, th, n) == \A j \in 1..n : ThreadOf(q[j]) = th => q[j].depth = 0 \/ j \in NestMembers(q, th)
LevelIn(q, th, n) == \A j \in 1..n : ThreadOf(q[j]) = th => q[j].depth = 0

LEMMA ThreadFlat ==
  ASSUME NEW n \in Nat, NEW ev, DOMAIN ev = 1..n, AreTimed(ev), NEW q \in Kin(ev), NEW th, NEW r, r = IndexThread(q, th),
         NEW other
  PROVE  /\ other # th /\ LevelIn(q, other, n) => LevelIn(r, other, n)
         /\ other # th /\ FlatIn(q, other, n) => FlatIn(r, other, n)
         /\ LevelIn(q, th, n) => FlatIn(r, th, n)
<1>1. /\ r \in Kin(ev)
      /\ \A j \in 1..n : j \notin OfThread(q, th) => r[j].depth = q[j].depth /\ r[j].ended = q[j].ended
      /\ \A j \in 1..n : r[j].depth = q[j].depth \/ j \in NestMembers(r, th)
  BY ThreadLeaves
<1>2. DOMAIN q = 1..n /\ DOMAIN r = 1..n
  BY <1>1, KinTimed
<1>3. \A j \in 1..n : r[j].ph = q[j].ph /\ ThreadOf(r[j]) = ThreadOf(q[j])
  <2> TAKE j \in 1..n
  <2>1. r[j].ph = ev[j].ph /\ r[j].pid = ev[j].pid /\ r[j].tid = ev[j].tid
    BY <1>1, KinHas
  <2>2. q[j].ph = ev[j].ph /\ q[j].pid = ev[j].pid /\ q[j].tid = ev[j].tid
    BY KinHas
  <2> QED
    BY <2>1, <2>2 DEF ThreadOf
<1>4. ASSUME other # th PROVE \A j \in 1..n : ThreadOf(q[j]) = other => r[j].depth = q[j].depth /\ r[j].ended = q[j].ended
  BY <1>1, <1>4 DEF OfThread
<1>5. ASSUME other # th, FlatIn(q, other, n) PROVE FlatIn(r, other, n)
  <2>1. ASSUME NEW j \in 1..n, ThreadOf(r[j]) = other PROVE r[j].depth = 0 \/ j \in NestMembers(r, other)
    <3>1. ThreadOf(q[j]) = other
      BY <1>3, <2>1
    <3>2. q[j].depth = 0 \/ j \in NestMembers(q, other)
      BY <1>5, <3>1 DEF FlatIn
    <3>3. j \in NestMembers(q, other) => j \in NestMembers(r, other)
      BY <1>2, <1>3, <1>4, <1>5, <2>1, <3>1 DEF NestMembers, OfThread, Timed
    <3> QED
      BY <1>4, <1>5, <3>1, <3>2, <3>3
  <2> QED
    BY <2>1 DEF FlatIn
<1>6. ASSUME other # th, LevelIn(q, other, n) PROVE LevelIn(r, other, n)
  BY <1>3, <1>4, <1>6 DEF LevelIn
<1>7. ASSUME LevelIn(q, th, n) PROVE FlatIn(r, th, n)
  BY <1>1, <1>3, <1>7 DEF LevelIn, FlatIn
<1> QED
  BY <1>5, <1>6, <1>7

LEMMA EventsFlat ==
  ASSUME NEW n \in Nat, NEW ev, DOMAIN ev = 1..n, AreTimed(ev), ev \in Kin(ev), \A i \in 1..n : ev[i].depth = 0
  PROVE  \A th : FlatIn(IndexEvents(ev), th, n)
<1>1. PICK P, ths : P = Threads(ev) /\ ths = SetToSeq(P)
  OBVIOUS
<1>2. IsFiniteSet(P)
  BY <1>1, ThreadsFinite
<1>3. PICK m \in Nat : ListsOnce(ths, P, m)
  BY <1>1, <1>2, SeqHasSet
<1>4. ths \in Seq(P) /\ m = Len(ths) /\ \A j, k \in 1..m : ths[j] = ths[k] => j = k
  BY <1>3 DEF ListsOnce
<1>5. PICK g : ThreadSteps(g, ev, ths, m) /\ Through(IndexThread, ev, ths) = g[m] /\ \A k \in 0..m : g[k] \in Kin(ev)
  BY <1>4, IndexFolds
<1> DEFINE Fine == {k \in 0..m : (\A th : FlatIn(g[k], th, n)) /\ \A j \in k + 1..m : LevelIn(g[k], ths[j], n)}
<1>6. 0 \in Fine
  <2>1. g[0] = ev
    BY <1>5 DEF ThreadSteps
  <2> QED
    BY <2>1 DEF FlatIn, LevelIn
<1>7. ASSUME NEW k \in 0..m, k \in Fine, k < m PROVE k + 1 \in Fine
  <2>1. k + 1 \in 1..m /\ k + 1 \in 0..m /\ (k + 1) - 1 = k /\ k + 1 # 0 /\ k + 1 \in k + 1..m
    BY <1>7
  <2>2. PICK q, r, th : q = g[k] /\ r = g[k + 1] /\ th = ths[k + 1]
    OBVIOUS
  <2>3. r = IndexThread(q, th) /\ q \in Kin(ev)
    BY <1>5, <2>1, <2>2 DEF ThreadSteps
  <2>4. LevelIn(q, th, n) /\ \A other : FlatIn(q, other, n)
    BY <1>7, <2>1, <2>2
  <2>5. ASSUME NEW other PROVE FlatIn(r, other, n)
    BY <2>3, <2>4, ThreadFlat
  <2>6. ASSUME NEW j \in (k + 1) + 1..m PROVE LevelIn(r, ths[j], n)
    <3>1. j \in k + 1..m /\ j \in 1..m /\ j # k + 1
      BY <2>1
    <3>2. LevelIn(q, ths[j], n)
      BY <1>7, <2>2, <3>1
    <3>3. ths[j] # th
      BY <1>4, <2>1, <2>2, <3>1
    <3> QED
      BY <2>3, <3>2, <3>3, ThreadFlat
  <2> QED
    BY <2>1, <2>2, <2>5, <2>6
<1> HIDE DEF Fine
<1>8. m \in Fine
  <2>1. \A k \in 0..m : k \in Fine
    BY <1>6, <1>7, UpTo
  <2> QED
    BY <2>1
<1>9. IndexEvents(ev) = g[m]
  BY <1>1, <1>5 DEF IndexEvents
<1> QED
  BY <1>8, <1>9 DEF Fine

-----------------------------------------------------------------------------
(* Walks from parent to parent, in as many steps as there are frames. *)
IsWalk(up, P, n, f) ==
  up \in [0..n -> 0..n] /\ up[0] = f /\ \A k \in 1..n : up[k] = IF up[k - 1] = 0 THEN 0 ELSE P[up[k - 1]]
Climb(P, n, f) == CHOOSE up : IsWalk(up, P, n, f)

LEMMA WalkIs ==
  ASSUME NEW n \in Nat, NEW P \in [1..n -> 0..n], NEW f \in 0..n
  PROVE  IsWalk(Climb(P, n, f), P, n, f)
<1>1. PICK step : step = [k \in 1..n |-> [x \in 0..n |-> IF x = 0 THEN 0 ELSE P[x]]]
  OBVIOUS
<1>2. step \in [1..n -> [0..n -> 0..n]]
  <2>1. ASSUME NEW x \in 0..n PROVE (IF x = 0 THEN 0 ELSE P[x]) \in 0..n
    <3>1. x # 0 => x \in 1..n
      OBVIOUS
    <3> QED
      BY <3>1
  <2> QED
    BY <1>1, <2>1
<1>3. PICK up \in [0..n -> 0..n] : IsFold(up, f, step, n)
  BY <1>2, FoldExists
<1>4. \A k \in 0..n : up[k] = IF k = 0 THEN f ELSE step[k][up[k - 1]]
  BY <1>3 DEF IsFold
<1>5. ASSUME NEW k \in 1..n PROVE up[k] = IF up[k - 1] = 0 THEN 0 ELSE P[up[k - 1]]
  <2>1. k \in 0..n /\ k # 0 /\ k - 1 \in 0..n /\ up[k - 1] \in 0..n
    OBVIOUS
  <2> QED
    BY <1>1, <1>4, <2>1
<1>6. up[0] = f
  BY <1>4
<1>7. IsWalk(up, P, n, f)
  BY <1>5, <1>6 DEF IsWalk
<1> QED
  BY <1>7 DEF Climb

LEMMA WalkUnique ==
  ASSUME NEW n \in Nat, NEW P, NEW f, NEW a, IsWalk(a, P, n, f), NEW b, IsWalk(b, P, n, f)
  PROVE  a = b
<1> DEFINE T == {k \in 0..n : a[k] = b[k]}
<1>1. 0 \in T
  BY DEF IsWalk
<1>2. ASSUME NEW k \in 0..n, k \in T, k < n PROVE k + 1 \in T
  <2>1. k + 1 \in 1..n /\ (k + 1) - 1 = k /\ a[k] = b[k]
    BY <1>2
  <2>2. a[k + 1] = (IF a[k] = 0 THEN 0 ELSE P[a[k]]) /\ b[k + 1] = IF b[k] = 0 THEN 0 ELSE P[b[k]]
    BY <2>1 DEF IsWalk
  <2> QED
    BY <2>1, <2>2
<1> HIDE DEF T
<1>3. \A k \in 0..n : k \in T
  BY <1>1, <1>2, UpTo
<1>4. \A k \in 0..n : a[k] = b[k]
  BY <1>3 DEF T
<1> QED
  BY <1>4 DEF IsWalk

\* From a frame on the way the walk goes on as from the start.
LEMMA WalkOn ==
  ASSUME NEW n \in Nat, NEW P \in [1..n -> 0..n], NEW f \in 0..n, NEW j \in 0..n
  PROVE  \A k \in 0..n - j : Climb(P, n, Climb(P, n, f)[j])[k] = Climb(P, n, f)[j + k]
<1>1. PICK a : a = Climb(P, n, f)
  OBVIOUS
<1>2. IsWalk(a, P, n, f)
  BY <1>1, WalkIs
<1>3. a[j] \in 0..n
  BY <1>2 DEF IsWalk
<1>4. PICK b : b = Climb(P, n, a[j])
  OBVIOUS
<1>5. IsWalk(b, P, n, a[j])
  BY <1>3, <1>4, WalkIs
<1> DEFINE T == {k \in 0..n - j : b[k] = a[j + k]}
<1>6. n - j \in Nat
  OBVIOUS
<1>7. 0 \in T
  BY <1>5 DEF IsWalk
<1>8. ASSUME NEW k \in 0..n - j, k \in T, k < n - j PROVE k + 1 \in T
  <2>1. k + 1 \in 1..n /\ (k + 1) - 1 = k /\ j + k + 1 \in 1..n /\ (j + k + 1) - 1 = j + k /\ b[k] = a[j + k] /\ k + 1 \in 0..n - j
    BY <1>8
  <2>2. b[k + 1] = IF b[k] = 0 THEN 0 ELSE P[b[k]]
    BY <1>5, <2>1 DEF IsWalk
  <2>3. a[j + k + 1] = IF a[j + k] = 0 THEN 0 ELSE P[a[j + k]]
    BY <1>2, <2>1 DEF IsWalk
  <2> QED
    BY <2>1, <2>2, <2>3
<1> HIDE DEF T
<1>9. \A k \in 0..n - j : k \in T
  BY <1>6, <1>7, <1>8, UpTo
<1>10. \A k \in 0..n - j : b[k] = a[j + k]
  BY <1>9 DEF T
<1> QED
  BY <1>1, <1>4, <1>10

LEMMA WalkOver ==
  ASSUME NEW n \in Nat, NEW P, NEW f, NEW up, IsWalk(up, P, n, f), NEW j \in 0..n, up[j] = 0
  PROVE  \A k \in j..n : up[k] = 0
<1> DEFINE T == {k \in 0..n - j : up[j + k] = 0}
<1>1. n - j \in Nat /\ 0 \in T
  OBVIOUS
<1>2. ASSUME NEW k \in 0..n - j, k \in T, k < n - j PROVE k + 1 \in T
  <2>1. j + k + 1 \in 1..n /\ (j + k + 1) - 1 = j + k /\ up[j + k] = 0 /\ k + 1 \in 0..n - j
    BY <1>2
  <2>2. up[j + k + 1] = 0
    BY <2>1 DEF IsWalk
  <2> QED
    BY <2>1, <2>2
<1> HIDE DEF T
<1>3. \A k \in 0..n - j : k \in T
  BY <1>1, <1>2, UpTo
<1>4. ASSUME NEW k \in j..n PROVE up[k] = 0
  <2>1. k - j \in 0..n - j /\ j + (k - j) = k
    OBVIOUS
  <2>2. k - j \in T
    BY <1>3, <2>1
  <2> QED
    BY <2>1, <2>2 DEF T
<1> QED
  BY <1>4

\* A walk that comes back never ends.
LEMMA WalkRound ==
  ASSUME NEW n \in Nat, NEW P \in [1..n -> 0..n], NEW f \in 1..n, NEW y \in 1..n, Climb(P, n, f)[y] = f
  PROVE  Climb(P, n, f)[n] # 0
<1>1. PICK a : a = Climb(P, n, f)
  OBVIOUS
<1>2. IsWalk(a, P, n, f)
  BY <1>1, WalkIs
<1> SUFFICES ASSUME a[n] = 0 PROVE FALSE
  BY <1>1
<1> DEFINE T == {t \in 0..n : a[t] = 0}
<1>3. T \in SUBSET Nat /\ T # {}
  <2>1. n \in T
    OBVIOUS
  <2> QED
    BY <2>1
<1>4. PICK t \in T : \A x \in T : t <= x
  BY <1>3, LeastNumber
<1>5. t \in 0..n /\ a[t] = 0 /\ \A x \in 0..n : a[x] = 0 => t <= x
  BY <1>4
<1>6. t > y
  <2> SUFFICES ASSUME t <= y PROVE FALSE
    BY <1>5
  <2>1. y \in t..n
    BY <1>5
  <2>2. a[y] = 0
    BY <1>2, <1>5, <2>1, WalkOver
  <2> QED
    BY <1>1, <2>2
<1>7. t - y \in 0..n - y /\ y + (t - y) = t /\ y \in 0..n /\ f \in 0..n /\ t - y \in 0..n /\ t - y < t
  BY <1>5, <1>6
<1>8. \A k \in 0..n - y : Climb(P, n, Climb(P, n, f)[y])[k] = Climb(P, n, f)[y + k]
  BY <1>7, WalkOn, SMTT(30)
<1>9. a[t - y] = a[t]
  BY <1>1, <1>7, <1>8
<1> QED
  BY <1>5, <1>7, <1>9

\* A step onto a walk that ends.
LEMMA WalkFromParent ==
  ASSUME NEW n \in Nat, NEW P \in [1..n -> 0..n], NEW g \in 1..n, P[g] = 0 \/ Climb(P, n, P[g])[n] = 0
  PROVE  Climb(P, n, g)[n] = 0
<1>1. PICK a : a = Climb(P, n, g)
  OBVIOUS
<1>2. IsWalk(a, P, n, g)
  BY <1>1, WalkIs
<1>3. a[0] = g /\ a[1] = P[g] /\ a \in [0..n -> 0..n]
  <2>1. 1 \in 1..n /\ 1 - 1 = 0 /\ g # 0
    OBVIOUS
  <2> QED
    BY <1>2, <2>1 DEF IsWalk
<1>4. CASE P[g] = 0
  <2>1. 1 \in 0..n /\ n \in 1..n /\ a[1] = 0
    BY <1>3, <1>4
  <2>2. \A k \in 1..n : a[k] = 0
    BY <1>2, <2>1, WalkOver
  <2> QED
    BY <1>1, <2>1, <2>2
<1>5. CASE P[g] # 0
  <2> SUFFICES ASSUME a[n] # 0 PROVE FALSE
    BY <1>1
  <2>1. ASSUME NEW k \in 0..n PROVE a[k] # 0
    <3>1. a[k] = 0 => a[n] = 0
      <4>1. n \in k..n
        OBVIOUS
      <4> QED
        BY <1>2, <4>1, WalkOver
    <3> QED
      BY <3>1
  <2>2. a \in [0..n -> 1..n]
    <3>1. ASSUME NEW k \in 0..n PROVE a[k] \in 1..n
      <4>1. a[k] \in 0..n
        BY <1>3
      <4>2. a[k] # 0
        BY <2>1
      <4> QED
        BY <4>1, <4>2
    <3> QED
      BY <1>3, <3>1
  <2>3. IsFiniteSet(0..n) /\ Cardinality(0..n) = n + 1 /\ IsFiniteSet(1..n) /\ Cardinality(1..n) = n
    BY FS_Interval
  <2>4. PICK x, y \in 0..n : x # y /\ a[x] = a[y]
    <3>1. Cardinality(1..n) < Cardinality(0..n)
      BY <2>3
    <3> QED
      BY <2>2, <2>3, <3>1, FS_PigeonHole, ZenonT(40)
  <2>5. PICK i, j \in 0..n : i < j /\ a[i] = a[j]
    <3>1. CASE x < y
      BY <2>4, <3>1
    <3>2. CASE y < x
      BY <2>4, <3>2
    <3> QED
      BY <2>4, <3>1, <3>2
  <2>6. PICK u, d : u = a[i] /\ d = j - i
    OBVIOUS
  <2>7. u \in 1..n /\ d \in 1..n /\ d \in 0..n - i /\ i + d = j
    BY <2>2, <2>5, <2>6
  <2>8. Climb(P, n, u)[d] = u
    <3>1. \A k \in 0..n - i : Climb(P, n, Climb(P, n, g)[i])[k] = Climb(P, n, g)[i + k]
      <4>1. g \in 0..n
        OBVIOUS
      <4> QED
        BY <4>1, WalkOn
    <3> QED
      BY <1>1, <2>5, <2>6, <2>7, <3>1
  <2>9. Climb(P, n, u)[n] # 0
    BY <2>7, <2>8, WalkRound
  <2>10. PICK p, b : p = P[g] /\ b = Climb(P, n, p)
    OBVIOUS
  <2>11. p \in 1..n /\ b[n] = 0
    BY <1>5, <2>10
  <2>12. \E z \in 0..n : b[z] = u
    <3>1. \A k \in 0..n - 1 : Climb(P, n, Climb(P, n, g)[1])[k] = Climb(P, n, g)[1 + k]
      <4>1. g \in 0..n /\ 1 \in 0..n
        OBVIOUS
      <4> QED
        BY <4>1, WalkOn
    <3>2. \A k \in 0..n - 1 : b[k] = a[1 + k]
      BY <1>1, <1>3, <2>10, <3>1
    <3>3. j - 1 \in 0..n - 1 /\ 1 + (j - 1) = j /\ j - 1 \in 0..n
      BY <2>5
    <3> QED
      BY <2>5, <2>6, <3>2, <3>3
  <2>13. PICK z \in 0..n : b[z] = u
    BY <2>12
  <2>14. Climb(P, n, u)[n] = 0
    <3>1. \A k \in 0..n - z : Climb(P, n, Climb(P, n, p)[z])[k] = Climb(P, n, p)[z + k]
      <4>1. p \in 0..n
        BY <2>11
      <4> QED
        BY <4>1, WalkOn
    <3>2. n - z \in 0..n - z /\ z + (n - z) = n /\ n - z \in 0..n /\ n \in n - z..n
      OBVIOUS
    <3>3. Climb(P, n, u)[n - z] = 0
      BY <2>10, <2>11, <2>13, <3>1, <3>2
    <3>4. IsWalk(Climb(P, n, u), P, n, u)
      <4>1. u \in 0..n
        BY <2>7
      <4> QED
        BY <4>1, WalkIs
    <3> QED
      BY <3>2, <3>3, <3>4, WalkOver
  <2> QED
    BY <2>9, <2>14
<1> QED
  BY <1>4, <1>5

(* The walk of the index is this walk. *)
UpSteps(up, frames, f) ==
  up = [k \in 0..Len(frames) |-> IF k = 0 THEN f ELSE IF up[k - 1] = None THEN None ELSE frames[up[k - 1]].parent]

LEMMA UpsAreWalk ==
  ASSUME NEW n \in Nat, NEW F, Len(F) = n, NEW P \in [1..n -> 0..n], \A g \in 1..n : F[g].parent = P[g], NEW f \in 0..n
  PROVE  Ups(F, f) = Climb(P, n, f)
<1>1. PICK a : a = Climb(P, n, f)
  OBVIOUS
<1>2. a \in [0..n -> 0..n] /\ a[0] = f /\ \A k \in 1..n : a[k] = IF a[k - 1] = 0 THEN 0 ELSE P[a[k - 1]]
  <2>1. IsWalk(a, P, n, f)
    BY <1>1, WalkIs
  <2> QED
    BY <2>1 DEF IsWalk
<1>3. ASSUME NEW k \in 0..n PROVE a[k] = IF k = 0 THEN f ELSE IF a[k - 1] = None THEN None ELSE F[a[k - 1]].parent
  <2>1. CASE k = 0
    BY <1>2, <2>1
  <2>2. CASE k # 0
    <3>3. k \in 1..n /\ k - 1 \in 0..n
      BY <2>2
    <3>1. k \in 1..n /\ k - 1 \in 0..n /\ a[k - 1] \in 0..n
      BY <1>2, <3>3
    <3>2. a[k - 1] # 0 => a[k - 1] \in 1..n
      BY <3>1
    <3> QED
      BY <1>2, <2>2, <3>1, <3>2 DEF None
  <2> QED
    BY <2>1, <2>2
<1>4. UpSteps(a, F, f)
  <2>1. a = [k \in 0..n |-> a[k]]
    BY <1>2
  <2> QED
    BY <1>3, <2>1 DEF UpSteps
<1>5. PICK g : g = CHOOSE x : UpSteps(x, F, f)
  OBVIOUS
<1>6. g = [k \in 0..n |-> IF k = 0 THEN f ELSE IF g[k - 1] = None THEN None ELSE F[g[k - 1]].parent]
  BY <1>4, <1>5 DEF UpSteps
<1> DEFINE S == {k \in 0..n : g[k] = a[k]}
<1>7. 0 \in S
  BY <1>2, <1>6
<1>8. ASSUME NEW k \in 0..n, k \in S, k < n PROVE k + 1 \in S
  <2>1. k + 1 \in 0..n /\ k + 1 # 0 /\ (k + 1) - 1 = k /\ g[k] = a[k]
    BY <1>8
  <2>2. g[k + 1] = IF a[k] = None THEN None ELSE F[a[k]].parent
    <3> DEFINE up(i) == IF i = 0 THEN f ELSE IF g[i - 1] = None THEN None ELSE F[g[i - 1]].parent
    <3>1. g = [i \in 0..n |-> up(i)]
      BY <1>6, Zenon
    <3>2. up(k + 1) = IF a[k] = None THEN None ELSE F[a[k]].parent
      BY <2>1, Zenon
    <3> HIDE DEF up
    <3>3. g[k + 1] = up(k + 1)
      BY <2>1, <3>1, Zenon
    <3> QED
      BY <3>2, <3>3, Zenon
  <2>3. a[k + 1] = IF a[k] = None THEN None ELSE F[a[k]].parent
    BY <1>3, <2>1
  <2> QED
    BY <2>1, <2>2, <2>3
<1> HIDE DEF S
<1>9. \A k \in 0..n : k \in S
  BY <1>7, <1>8, UpTo
<1>10. \A k \in 0..n : g[k] = a[k]
  BY <1>9 DEF S
<1>11. g = a
  <2>1. a = [k \in 0..n |-> a[k]]
    BY <1>2
  <2>2. g = [k \in 0..n |-> g[k]]
    BY <1>6
  <2> QED
    BY <1>10, <2>1, <2>2
<1>12. Ups(F, f) = g
  BY <1>5 DEF Ups, UpSteps
<1> QED
  BY <1>1, <1>11, <1>12

(* A frame is good when its walk ends and all it passes is valid. *)
Good(P, V, n, f) == Climb(P, n, f)[n] = 0 /\ \A k \in 0..n : Climb(P, n, f)[k] # 0 => V[Climb(P, n, f)[k]]

LEMMA GoodStep ==
  ASSUME NEW n \in Nat, NEW P \in [1..n -> 0..n], NEW V \in [1..n -> BOOLEAN], NEW f \in 1..n
  PROVE  Good(P, V, n, f) <=> V[f] /\ (P[f] = 0 \/ Good(P, V, n, P[f]))
<1>1. PICK a, p, b : a = Climb(P, n, f) /\ p = P[f] /\ b = Climb(P, n, p)
  OBVIOUS
<1>2. IsWalk(a, P, n, f) /\ IsWalk(b, P, n, p) /\ p \in 0..n
  <2>1. f \in 0..n /\ P[f] \in 0..n
    OBVIOUS
  <2> QED
    BY <1>1, <2>1, WalkIs
<1>3. 0 \in 0..n /\ 1 \in 0..n /\ n \in 1..n /\ n - 1 \in 0..n - 1 /\ n - 1 \in 0..n /\ n \in n - 1..n
  OBVIOUS
<1>4. a[0] = f /\ a[1] = p
  <2>1. 1 \in 1..n /\ 1 - 1 = 0 /\ f # 0
    OBVIOUS
  <2>2. a[0] = f /\ \A k \in 1..n : a[k] = IF a[k - 1] = 0 THEN 0 ELSE P[a[k - 1]]
    BY <1>2 DEF IsWalk
  <2>3. a[1] = IF a[1 - 1] = 0 THEN 0 ELSE P[a[1 - 1]]
    BY <2>1, <2>2
  <2> QED
    BY <1>1, <2>1, <2>2, <2>3
<1>5. \A k \in 0..n - 1 : b[k] = a[1 + k]
  <2>1. f \in 0..n
    OBVIOUS
  <2>2. \A k \in 0..n - 1 : Climb(P, n, Climb(P, n, f)[1])[k] = Climb(P, n, f)[1 + k]
    BY <1>3, <2>1, WalkOn
  <2> QED
    BY <1>1, <1>4, <2>2
<1>6. ASSUME Good(P, V, n, f) PROVE V[f] /\ (p = 0 \/ Good(P, V, n, p))
  <2>1. a[n] = 0 /\ \A k \in 0..n : a[k] # 0 => V[a[k]]
    BY <1>1, <1>6 DEF Good
  <2>2. V[f]
    BY <1>3, <1>4, <2>1
  <2>3. b[n - 1] = 0
    BY <1>3, <1>5, <2>1
  <2>4. b[n] = 0
    BY <1>2, <1>3, <2>3, WalkOver
  <2>5. ASSUME NEW k \in 0..n, b[k] # 0 PROVE V[b[k]]
    <3>1. k \in 0..n - 1 /\ 1 + k \in 0..n
      BY <2>4, <2>5
    <3> QED
      BY <1>5, <2>1, <2>5, <3>1
  <2> QED
    BY <1>1, <2>2, <2>4, <2>5 DEF Good
<1>7. ASSUME V[f], p = 0 \/ Good(P, V, n, p) PROVE Good(P, V, n, f)
  <2>1. a[n] = 0
    <3>1. P[f] = 0 \/ Climb(P, n, P[f])[n] = 0
      BY <1>1, <1>7 DEF Good
    <3> QED
      BY <1>1, <3>1, WalkFromParent
  <2>2. ASSUME NEW k \in 0..n, a[k] # 0 PROVE V[a[k]]
    <3>1. CASE k = 0
      BY <1>4, <1>7, <3>1
    <3>2. CASE k # 0
      <4>1. k - 1 \in 0..n - 1 /\ 1 + (k - 1) = k /\ k - 1 \in 0..n /\ k \in 1..n
        BY <3>2
      <4>2. b[k - 1] = a[k]
        BY <1>5, <4>1
      <4>3. p # 0
        <5> SUFFICES ASSUME a[1] = 0 PROVE FALSE
          BY <1>4
        <5>1. \A j \in 1..n : a[j] = 0
          BY <1>2, <1>3, WalkOver
        <5> QED
          BY <2>2, <4>1, <5>1
      <4>4. \A j \in 0..n : b[j] # 0 => V[b[j]]
        BY <1>1, <1>7, <4>3 DEF Good
      <4> QED
        BY <2>2, <4>1, <4>2, <4>4
    <3> QED
      BY <3>1, <3>2
  <2> QED
    BY <1>1, <2>1, <2>2 DEF Good
<1> QED
  BY <1>1, <1>6, <1>7

\* A frame that is passed again is not good.
LEMMA RoundIsBad ==
  ASSUME NEW n \in Nat, NEW P \in [1..n -> 0..n], NEW V, NEW f \in 0..n, NEW up, up = Climb(P, n, f),
         NEW k \in 0..n, NEW j \in 0..k - 1, up[j] = up[k], up[k] # 0
  PROVE  ~Good(P, V, n, up[k])
<1>1. IsWalk(up, P, n, f)
  BY WalkIs
<1>2. PICK u, d : u = up[k] /\ d = k - j
  OBVIOUS
<1>3. u \in 1..n /\ d \in 1..n /\ d \in 0..n - j /\ j + d = k /\ j \in 0..n
  BY <1>1, <1>2 DEF IsWalk
<1>4. \A x \in 0..n - j : Climb(P, n, Climb(P, n, f)[j])[x] = Climb(P, n, f)[j + x]
  BY <1>3, WalkOn
<1>5. Climb(P, n, u)[d] = u
  BY <1>2, <1>3, <1>4
<1>6. Climb(P, n, u)[n] # 0
  BY <1>3, <1>5, WalkRound
<1> QED
  BY <1>2, <1>6 DEF Good

\* All that a good frame passes is good.
LEMMA GoodOnward ==
  ASSUME NEW n \in Nat, NEW P \in [1..n -> 0..n], NEW V \in [1..n -> BOOLEAN], NEW f \in 1..n, Good(P, V, n, f)
  PROVE  \A k \in 0..n : Climb(P, n, f)[k] # 0 => Good(P, V, n, Climb(P, n, f)[k])
<1>1. PICK a : a = Climb(P, n, f)
  OBVIOUS
<1>2. a \in [0..n -> 0..n] /\ a[0] = f /\ \A k \in 1..n : a[k] = IF a[k - 1] = 0 THEN 0 ELSE P[a[k - 1]]
  <2>1. f \in 0..n
    OBVIOUS
  <2>2. IsWalk(a, P, n, f)
    BY <1>1, <2>1, WalkIs
  <2> QED
    BY <2>2 DEF IsWalk
<1> DEFINE S == {k \in 0..n : a[k] # 0 => Good(P, V, n, a[k])}
<1>3. 0 \in S
  BY <1>2
<1>4. ASSUME NEW k \in 0..n, k \in S, k < n PROVE k + 1 \in S
  <2>1. k + 1 \in 1..n /\ (k + 1) - 1 = k /\ k + 1 \in 0..n
    BY <1>4
  <2>2. a[k + 1] = IF a[k] = 0 THEN 0 ELSE P[a[k]]
    BY <1>2, <2>1
  <2>3. ASSUME a[k + 1] # 0 PROVE Good(P, V, n, a[k + 1])
    <3>1. a[k] # 0 /\ a[k + 1] = P[a[k]]
      BY <2>2, <2>3
    <3>2. a[k] \in 1..n /\ Good(P, V, n, a[k])
      BY <1>2, <1>4, <3>1
    <3>3. P[a[k]] = 0 \/ Good(P, V, n, P[a[k]])
      BY <3>2, GoodStep
    <3> QED
      BY <2>3, <3>1, <3>3
  <2> QED
    BY <2>1, <2>3
<1> HIDE DEF S
<1>5. \A k \in 0..n : k \in S
  BY <1>3, <1>4, UpTo
<1> QED
  BY <1>1, <1>5 DEF S

-----------------------------------------------------------------------------
(* Stack frames: what resolving them marks. *)
FrameKeys == {"id", "parentId", "parent", "name", "cat", "valid"}
IsStackFrame(f) == f = [x \in FrameKeys |-> f[x]] /\ f.valid \in BOOLEAN
IsFrameList(fs, n) == fs = [f \in 1..n |-> fs[f]] /\ Len(fs) = n /\ \A f \in 1..n : IsStackFrame(fs[f])
SameButMark(d, l) == d.id = l.id /\ d.parentId = l.parentId /\ d.parent = l.parent /\ d.name = l.name /\ d.cat = l.cat

FrameWith(d, l, k, v) == IsStackFrame(d) /\ \A x \in FrameKeys : d[x] = IF x = k THEN v ELSE l[x]

LEMMA FrameSet ==
  ASSUME NEW l, IsStackFrame(l), NEW k \in FrameKeys, NEW v, k = "valid" => v \in BOOLEAN
  PROVE  FrameWith([l EXCEPT ![k] = v], l, k, v)
<1>1. PICK d : d = [l EXCEPT ![k] = v]
  OBVIOUS
<1>2. DOMAIN l = FrameKeys /\ l["valid"] \in BOOLEAN
  BY Zenon DEF IsStackFrame
<1>3. d = [x \in FrameKeys |-> IF x = k THEN v ELSE l[x]]
  BY <1>1, <1>2
<1>4. d = [x \in FrameKeys |-> d[x]]
  BY <1>3
<1>5. d["valid"] \in BOOLEAN
  <2>1. "valid" \in FrameKeys
    BY DEF FrameKeys
  <2>2. d["valid"] = IF "valid" = k THEN v ELSE l["valid"]
    BY <1>3, <2>1
  <2> QED
    BY <1>2, <2>2
<1>6. d.valid \in BOOLEAN
  BY <1>5, Zenon
<1>7. IsStackFrame(d)
  BY <1>4, <1>6 DEF IsStackFrame
<1> QED
  BY <1>1, <1>3, <1>7 DEF FrameWith

LEMMA FrameSame ==
  ASSUME NEW d, NEW l, NEW k \in {"parent", "valid", "name"}, NEW v, FrameWith(d, l, k, v)
  PROVE  /\ d.id = l.id /\ d.parentId = l.parentId /\ d.cat = l.cat
         /\ d.parent = (IF k = "parent" THEN v ELSE l.parent)
         /\ d.valid = (IF k = "valid" THEN v ELSE l.valid)
         /\ d.name = (IF k = "name" THEN v ELSE l.name)
<1>1. \A x \in FrameKeys : d[x] = IF x = k THEN v ELSE l[x]
  BY DEF FrameWith
<1>2. /\ "id" \in FrameKeys /\ "parentId" \in FrameKeys /\ "cat" \in FrameKeys
      /\ "parent" \in FrameKeys /\ "valid" \in FrameKeys /\ "name" \in FrameKeys
  BY DEF FrameKeys
<1>3. /\ d["id"] = l["id"] /\ d["parentId"] = l["parentId"] /\ d["cat"] = l["cat"]
      /\ d["parent"] = (IF "parent" = k THEN v ELSE l["parent"])
      /\ d["valid"] = (IF "valid" = k THEN v ELSE l["valid"])
      /\ d["name"] = (IF "name" = k THEN v ELSE l["name"])
  BY <1>1, <1>2
<1> QED
  BY <1>3, Zenon

\* A frame marked as it was is the same frame.
LEMMA FrameAgain ==
  ASSUME NEW l, IsStackFrame(l), NEW v, v = l.valid
  PROVE  [l EXCEPT !.valid = v] = l
<1>1. PICK d : d = [l EXCEPT !["valid"] = v]
  OBVIOUS
<1>2. DOMAIN l = FrameKeys /\ l["valid"] = v
  BY Zenon DEF IsStackFrame
<1>3. d = [x \in FrameKeys |-> IF x = "valid" THEN v ELSE l[x]]
  BY <1>1, <1>2
<1>4. l = [x \in FrameKeys |-> l[x]]
  BY DEF IsStackFrame
<1>5. d = l
  BY <1>2, <1>3, <1>4
<1> QED
  BY <1>1, <1>5, Zenon

LEMMA FrameOfIs ==
  ASSUME NEW n \in Nat, NEW fs, DOMAIN fs = 1..n, NEW id
  PROVE  FrameOf(fs, id) \in 0..n
<1>1. PICK named : named = {f \in DOMAIN fs : fs[f].id = id}
  OBVIOUS
<1>2. IsFiniteSet(1..n)
  BY FS_Interval
<1>3. IsFiniteSet(named) /\ named \in SUBSET Int
  BY <1>1, <1>2, FS_Subset
<1>4. named # {} => Max(named) \in named
  BY <1>3, FiniteMax
<1> QED
  BY <1>1, <1>4 DEF FrameOf, None

LEMMA FrameOfById ==
  ASSUME NEW fs, NEW gs, DOMAIN fs = DOMAIN gs, \A f \in DOMAIN fs : fs[f].id = gs[f].id, NEW id
  PROVE  FrameOf(fs, id) = FrameOf(gs, id)
<1>1. {f \in DOMAIN fs : fs[f].id = id} = {f \in DOMAIN gs : gs[f].id = id}
  OBVIOUS
<1> QED
  BY <1>1 DEF FrameOf

\* Within n steps a walk ends or comes back.
LEMMA WalkStops ==
  ASSUME NEW n \in Nat, NEW up \in [0..n -> 0..n]
  PROVE  \E k \in 0..n : up[k] = 0 \/ \E j \in 0..k - 1 : up[j] = up[k]
<1> SUFFICES ASSUME \A k \in 0..n : up[k] # 0 /\ \A j \in 0..k - 1 : up[j] # up[k] PROVE FALSE
  OBVIOUS
<1>1. up \in [0..n -> 1..n]
  OBVIOUS
<1>2. IsFiniteSet(0..n) /\ Cardinality(0..n) = n + 1 /\ IsFiniteSet(1..n) /\ Cardinality(1..n) = n
  BY FS_Interval
<1>3. \E x, y \in 0..n : x # y /\ up[x] = up[y]
  BY <1>1, <1>2, FS_PigeonHole, SMTT(30)
<1>4. PICK x \in 0..n, y \in 0..n : x # y /\ up[x] = up[y]
  BY <1>3
<1>5. x \in 0..y - 1 \/ y \in 0..x - 1
  BY <1>4
<1> QED
  BY <1>4, <1>5

\* The frames L, those of S marked by G.
MarkedSo(L, G, n, S) == [g \in 1..n |-> IF g \in S THEN [L[g] EXCEPT !.valid = G[g]] ELSE L[g]]
Marks(L, G, n, S) == [seen |-> S, frames |-> MarkedSo(L, G, n, S)]

\* P holds the parents of the frames L, V which are valid, G which are good.
Chained(L, P, V, G, n) ==
  /\ IsFrameList(L, n) /\ P \in [1..n -> 0..n] /\ V \in [1..n -> BOOLEAN] /\ G \in [1..n -> BOOLEAN]
  /\ \A g \in 1..n : L[g].parent = P[g] /\ L[g].valid = V[g] /\ (G[g] <=> Good(P, V, n, g))

LEMMA MarkedAre ==
  ASSUME NEW n \in Nat, NEW L, NEW P, NEW V, NEW G, Chained(L, P, V, G, n), NEW S \in SUBSET (1..n)
  PROVE  /\ IsFrameList(MarkedSo(L, G, n, S), n)
         /\ \A g \in 1..n : /\ MarkedSo(L, G, n, S)[g].parent = P[g]
                            /\ MarkedSo(L, G, n, S)[g].valid = IF g \in S THEN G[g] ELSE V[g]
                            /\ SameButMark(MarkedSo(L, G, n, S)[g], L[g])
<1>1. PICK F : F = MarkedSo(L, G, n, S)
  OBVIOUS
<1>2. F = [g \in 1..n |-> IF g \in S THEN [L[g] EXCEPT !.valid = G[g]] ELSE L[g]]
  BY <1>1 DEF MarkedSo
<1>3. ASSUME NEW g \in 1..n
      PROVE  IsStackFrame(F[g]) /\ F[g].parent = P[g] /\ F[g].valid = (IF g \in S THEN G[g] ELSE V[g]) /\ SameButMark(F[g], L[g])
  <2>1. PICK l, v : l = L[g] /\ v = G[g]
    OBVIOUS
  <2>2. IsStackFrame(l) /\ l.parent = P[g] /\ l.valid = V[g] /\ v \in BOOLEAN
    BY <2>1 DEF Chained, IsFrameList
  <2>3. CASE g \notin S
    <3>1. F[g] = l
      BY <1>2, <2>1, <2>3
    <3> QED
      BY <2>1, <2>2, <2>3, <3>1 DEF SameButMark
  <2>4. CASE g \in S
    <3>1. F[g] = [l EXCEPT !.valid = v]
      BY <1>2, <2>1, <2>4
    <3>2. PICK d : d = [l EXCEPT !["valid"] = v]
      OBVIOUS
    <3>3. F[g] = d
      BY <3>1, <3>2, Zenon
    <3>4. "valid" \in FrameKeys
      BY DEF FrameKeys
    <3>5. FrameWith(d, l, "valid", v)
      BY <2>2, <3>2, <3>4, FrameSet
    <3>6. IsStackFrame(d)
      BY <3>5 DEF FrameWith
    <3>7. /\ d.id = l.id /\ d.parentId = l.parentId /\ d.cat = l.cat
          /\ d.parent = l.parent /\ d.valid = v /\ d.name = l.name
      BY <3>5, FrameSame
    <3> QED
      BY <2>1, <2>2, <2>4, <3>3, <3>6, <3>7 DEF SameButMark
  <2> QED
    BY <2>3, <2>4
<1>4. F = [g \in 1..n |-> F[g]] /\ Len(F) = n
  BY <1>2
<1>5. IsFrameList(F, n)
  BY <1>3, <1>4 DEF IsFrameList
<1> QED
  BY <1>1, <1>3, <1>5

WalkStop(acc, up) ==
  {k \in 0..Len(acc.frames) : \/ up[k] = None \/ up[k] \in acc.seen \/ ~acc.frames[up[k]].valid
                              \/ \E j \in 0..k - 1 : up[j] = up[k]}
WalkedTo(acc, f, path, good) ==
  [seen |-> acc.seen \cup path \cup {f},
   frames |-> [g \in DOMAIN acc.frames |-> IF g \in path THEN [acc.frames[g] EXCEPT !.valid = good] ELSE acc.frames[g]]]
WalkedAlong(acc, f, up, m) ==
  WalkedTo(acc, f, {up[k] : k \in 0..m - 1}, up[m] = None \/ (up[m] \in acc.seen /\ acc.frames[up[m]].valid))

LEMMA WalkFromIs ==
  ASSUME NEW acc, NEW f, f \notin acc.seen
  PROVE  WalkFrom(acc, f) = WalkedAlong(acc, f, Ups(acc.frames, f), Min(WalkStop(acc, Ups(acc.frames, f))))
BY DEF WalkFrom, WalkedAlong, WalkedTo, WalkStop

\* A walk adds what it has seen to S, and marks it.
LEMMA WalkMarks ==
  ASSUME NEW n \in Nat, NEW L, NEW P, NEW V, NEW G, Chained(L, P, V, G, n), NEW S \in SUBSET (1..n), NEW f \in 1..n
  PROVE  \E T \in SUBSET (1..n) : S \cup {f} \subseteq T /\ WalkFrom(Marks(L, G, n, S), f) = Marks(L, G, n, T)
<1>1. PICK acc, F : acc = Marks(L, G, n, S) /\ F = MarkedSo(L, G, n, S)
  OBVIOUS
<1>2. acc.seen = S /\ acc.frames = F
  BY <1>1 DEF Marks
<1>3. F = [g \in 1..n |-> IF g \in S THEN [L[g] EXCEPT !.valid = G[g]] ELSE L[g]]
  BY <1>1 DEF MarkedSo
<1>8. IsFrameList(F, n) /\ \A g \in 1..n : F[g].parent = P[g] /\ F[g].valid = IF g \in S THEN G[g] ELSE V[g]
  BY <1>1, MarkedAre
<1>4. Len(F) = n /\ DOMAIN F = 1..n /\ \A g \in 1..n : F[g].parent = P[g] /\ F[g].valid = IF g \in S THEN G[g] ELSE V[g]
  BY <1>3, <1>8 DEF IsFrameList
<1>5. /\ P \in [1..n -> 0..n] /\ V \in [1..n -> BOOLEAN] /\ G \in [1..n -> BOOLEAN]
      /\ \A g \in 1..n : (G[g] <=> Good(P, V, n, g)) /\ L[g].valid = V[g]
  BY DEF Chained
<1>6. CASE f \in S
  <2>1. WalkFrom(acc, f) = acc
    BY <1>2, <1>6 DEF WalkFrom
  <2> QED
    BY <1>1, <1>6, <2>1
<1>7. CASE f \notin S
  <2>1. PICK up : up = Climb(P, n, f)
    OBVIOUS
  <2>2. Ups(F, f) = up
    <3>1. f \in 0..n
      OBVIOUS
    <3> QED
      <4>1. Len(F) = n /\ \A g \in 1..n : F[g].parent = P[g]
        BY <1>4
      <4> QED
        BY <1>5, <2>1, <3>1, <4>1, UpsAreWalk
  <2>3. up \in [0..n -> 0..n] /\ up[0] = f /\ \A k \in 1..n : up[k] = IF up[k - 1] = 0 THEN 0 ELSE P[up[k - 1]]
    <3>1. f \in 0..n
      OBVIOUS
    <3>2. IsWalk(up, P, n, f)
      BY <1>5, <2>1, <3>1, WalkIs
    <3> QED
      BY <3>2 DEF IsWalk
  <2> DEFINE stops == {k \in 0..n : \/ up[k] = None \/ up[k] \in S \/ ~F[up[k]].valid
                                    \/ \E j \in 0..k - 1 : up[j] = up[k]}
  <2>4. PICK m : m = Min(stops)
    OBVIOUS
  <2>5. m \in stops /\ \A k \in stops : m <= k
    <3>1. stops # {}
      <4>1. \E k \in 0..n : up[k] = 0 \/ \E j \in 0..k - 1 : up[j] = up[k]
        BY <2>3, WalkStops
      <4> QED
        BY <4>1 DEF None
    <3>2. IsFiniteSet(0..n)
      BY FS_Interval
    <3>3. IsFiniteSet(stops) /\ stops \in SUBSET Int
      BY <3>2, FS_Subset
    <3> QED
      BY <2>4, <3>1, <3>3, FiniteMin
  <2>6. m \in 0..n /\ \A k \in 0..m - 1 : k \in 0..n /\ k \notin stops
    BY <2>5
  <2>7. PICK path, good : path = {up[k] : k \in 0..m - 1} /\ good = (up[m] = None \/ (up[m] \in S /\ F[up[m]].valid))
    OBVIOUS
  <2>8. PICK T : T = S \cup path \cup {f}
    OBVIOUS
  <2>9. WalkFrom(acc, f) = [seen |-> T, frames |-> [g \in 1..n |-> IF g \in path THEN [F[g] EXCEPT !.valid = good] ELSE F[g]]]
    <3>1. Len(acc.frames) = n /\ DOMAIN acc.frames = 1..n /\ Ups(acc.frames, f) = up /\ f \notin acc.seen
      BY <1>2, <1>4, <1>7, <2>2
    <3>2. Min(WalkStop(acc, up)) = m
      BY <1>2, <2>4, <3>1 DEF WalkStop
    <3> HIDE DEF stops
    <3>3. WalkFrom(acc, f) = WalkedAlong(acc, f, up, m)
      BY <3>1, <3>2, WalkFromIs
    <3>4. WalkedAlong(acc, f, up, m) = WalkedTo(acc, f, path, good)
      BY <1>2, <2>7 DEF WalkedAlong
    <3> QED
      BY <1>2, <2>8, <3>1, <3>3, <3>4 DEF WalkedTo
  <2>10. \A k \in 0..m - 1 : up[k] \in 1..n /\ up[k] \notin S /\ V[up[k]]
    <3> TAKE k \in 0..m - 1
    <3>1. k \in 0..n /\ up[k] # 0 /\ up[k] \notin S /\ F[up[k]].valid
      BY <2>6 DEF None
    <3>2. up[k] \in 1..n
      BY <2>3, <3>1
    <3> QED
      BY <1>4, <3>1, <3>2
  <2>11. good \in BOOLEAN /\ T \in SUBSET (1..n) /\ S \cup {f} \subseteq T /\ path \subseteq T
    <3>1. path \subseteq 1..n
      BY <2>7, <2>10
    <3> QED
      BY <2>7, <2>8, <3>1
  <2> DEFINE H(x) == x = 0 \/ Good(P, V, n, x)
  <2>12. H(up[m]) <=> good
    <3>1. CASE up[m] = 0
      BY <2>7, <3>1 DEF None
    <3>2. CASE up[m] # 0
      <4>1. up[m] \in 1..n
        BY <2>3, <2>6, <3>2
      <4>2. CASE up[m] \in S
        <5>1. F[up[m]].valid = G[up[m]]
          BY <1>4, <4>1, <4>2
        <5>2. good <=> G[up[m]]
          BY <2>7, <3>2, <4>2, <5>1 DEF None
        <5>3. G[up[m]] <=> Good(P, V, n, up[m])
          BY <1>5, <4>1
        <5> QED
          BY <3>2, <5>2, <5>3
      <4>3. CASE up[m] \notin S
        <5>1. ~good
          BY <2>7, <3>2, <4>3 DEF None
        <5>2. F[up[m]].valid = V[up[m]]
          BY <1>4, <4>1, <4>3
        <5>3. ~V[up[m]] \/ \E j \in 0..m - 1 : up[j] = up[m]
          BY <2>5, <3>2, <4>3, <5>2 DEF None
        <5>4. CASE ~V[up[m]]
          <6>1. ~Good(P, V, n, up[m])
            BY <1>5, <4>1, <5>4, GoodStep
          <6> QED
            BY <3>2, <5>1, <6>1
        <5>5. CASE \E j \in 0..m - 1 : up[j] = up[m]
          <6>1. PICK j \in 0..m - 1 : up[j] = up[m]
            BY <5>5
          <6>2. f \in 0..n /\ m \in 0..n
            BY <2>6
          <6>3. ~Good(P, V, n, up[m])
            BY <1>5, <2>1, <3>2, <6>1, <6>2, RoundIsBad
          <6> QED
            BY <3>2, <5>1, <6>3
        <5> QED
          BY <5>3, <5>4, <5>5
      <4> QED
        BY <4>2, <4>3
    <3> QED
      BY <3>1, <3>2
  <2>13. \A k \in 0..m - 1 : H(up[k]) <=> H(up[k + 1])
    <3> TAKE k \in 0..m - 1
    <3>1. up[k] \in 1..n /\ V[up[k]]
      BY <2>10
    <3>2. k + 1 \in 1..n /\ (k + 1) - 1 = k
      BY <2>6
    <3>3. up[k + 1] = P[up[k]]
      <4>1. up[k + 1] = IF up[(k + 1) - 1] = 0 THEN 0 ELSE P[up[(k + 1) - 1]]
        BY <2>3, <3>2
      <4> QED
        BY <3>1, <3>2, <4>1
    <3>4. Good(P, V, n, up[k]) <=> V[up[k]] /\ (P[up[k]] = 0 \/ Good(P, V, n, P[up[k]]))
      BY <1>5, <3>1, GoodStep
    <3> QED
      BY <3>1, <3>3, <3>4
  <2> DEFINE U == {j \in 0..m : H(up[m - j]) <=> good}
  <2>14. 0 \in U
    <3>1. 0 \in 0..m /\ m - 0 = m
      BY <2>6
    <3> QED
      BY <2>12, <3>1
  <2>15. ASSUME NEW j \in 0..m, j \in U, j < m PROVE j + 1 \in U
    <3>1. m - (j + 1) \in 0..m - 1 /\ (m - (j + 1)) + 1 = m - j /\ j + 1 \in 0..m
      BY <2>6, <2>15
    <3>2. H(up[m - (j + 1)]) <=> H(up[m - j])
      BY <2>13, <3>1
    <3> QED
      BY <2>15, <3>1, <3>2
  <2> HIDE DEF U
  <2>16. \A j \in 0..m : j \in U
    <3>1. m \in Nat
      BY <2>6
    <3> QED
      BY <2>14, <2>15, <3>1, UpTo
  <2>17. \A k \in 0..m - 1 : G[up[k]] = good
    <3> TAKE k \in 0..m - 1
    <3>1. m - k \in 0..m /\ m - (m - k) = k
      BY <2>6
    <3>2. H(up[k]) <=> good
      <4>1. H(up[m - (m - k)]) <=> good
        BY <2>16, <3>1 DEF U
      <4> QED
        BY <3>1, <4>1
    <3>3. up[k] \in 1..n
      BY <2>10
    <3>4. G[up[k]] <=> good
      BY <1>5, <3>2, <3>3
    <3>5. G[up[k]] \in BOOLEAN
      BY <1>5, <3>3
    <3> QED
      BY <2>11, <3>4, <3>5
  <2>18. ASSUME NEW g \in 1..n
         PROVE  (IF g \in path THEN [F[g] EXCEPT !.valid = good] ELSE F[g]) = IF g \in T THEN [L[g] EXCEPT !.valid = G[g]] ELSE L[g]
    <3>1. F[g] = IF g \in S THEN [L[g] EXCEPT !.valid = G[g]] ELSE L[g]
      BY <1>3
    <3>2. CASE g \in path
      <4>1. g \notin S /\ G[g] = good /\ g \in T
        BY <2>7, <2>10, <2>11, <2>17, <3>2
      <4> QED
        BY <3>1, <3>2, <4>1
    <3>3. CASE g \notin path /\ g \in S
      BY <2>11, <3>1, <3>3
    <3>4. CASE g \notin path /\ g \notin S /\ g # f
      BY <2>8, <3>1, <3>4
    <3>5. CASE g \notin path /\ g \notin S /\ g = f
      <4>1. m = 0
        <5> SUFFICES ASSUME m # 0 PROVE FALSE
          OBVIOUS
        <5>1. 0 \in 0..m - 1
          BY <2>6
        <5> QED
          BY <2>3, <2>7, <3>5, <5>1
      <4>2. up[0] = f /\ f # 0 /\ ~F[f].valid
        BY <2>3, <2>5, <3>5, <4>1, SMTT(30) DEF None
      <4>3. ~V[f]
        BY <1>4, <3>5, <4>2
      <4>4. ~Good(P, V, n, f)
        BY <1>5, <4>3, GoodStep
      <4>5. G[f] = L[f].valid
        BY <1>5, <4>3, <4>4
      <4>6. IsStackFrame(L[f])
        BY DEF Chained, IsFrameList
      <4>7. [L[f] EXCEPT !.valid = G[f]] = L[f]
        BY <4>5, <4>6, FrameAgain
      <4> QED
        BY <2>11, <3>1, <3>5, <4>7
    <3> QED
      BY <3>2, <3>3, <3>4, <3>5
  <2>19. WalkFrom(acc, f) = Marks(L, G, n, T)
    <3>1. [g \in 1..n |-> IF g \in path THEN [F[g] EXCEPT !.valid = good] ELSE F[g]] = MarkedSo(L, G, n, T)
      BY <2>18 DEF MarkedSo
    <3> QED
      BY <2>9, <3>1 DEF Marks
  <2> QED
    BY <1>1, <2>11, <2>19
<1> QED
  BY <1>6, <1>7

WalkSteps(g, base, ids, m) == g = [k \in 0..m |-> IF k = 0 THEN base ELSE WalkFrom(g[k - 1], ids[k])]

LEMMA AllWalked ==
  ASSUME NEW n \in Nat, NEW L, NEW P, NEW V, NEW G, Chained(L, P, V, G, n)
  PROVE  Through(WalkFrom, [seen |-> {}, frames |-> L], [f \in 1..n |-> f]) = Marks(L, G, n, 1..n)
<1> DEFINE Q == {Marks(L, G, n, S) : S \in SUBSET (1..n)}
<1>1. PICK ids, base : ids = [f \in 1..n |-> f] /\ base = [seen |-> {}, frames |-> L]
  OBVIOUS
<1>2. Len(ids) = n /\ \A k \in 1..n : ids[k] = k
  BY <1>1
<1>3. base = Marks(L, G, n, {})
  <2>1. MarkedSo(L, G, n, {}) = L
    <3>1. L = [g \in 1..n |-> L[g]]
      BY DEF Chained, IsFrameList
    <3>2. MarkedSo(L, G, n, {}) = [g \in 1..n |-> L[g]]
      BY DEF MarkedSo
    <3> QED
      BY <3>1, <3>2
  <2> QED
    BY <1>1, <2>1 DEF Marks
<1>4. \A S \in SUBSET (1..n), k \in 1..n :
        \E T \in SUBSET (1..n) : S \cup {k} \subseteq T /\ WalkFrom(Marks(L, G, n, S), k) = Marks(L, G, n, T)
  BY WalkMarks
<1>5. PICK step : step = [k \in 1..n |-> [a \in Q |-> WalkFrom(a, ids[k])]]
  OBVIOUS
<1>6. step \in [1..n -> [Q -> Q]]
  <2>1. ASSUME NEW k \in 1..n, NEW a \in Q PROVE WalkFrom(a, ids[k]) \in Q
    <3>1. PICK S \in SUBSET (1..n) : a = Marks(L, G, n, S)
      OBVIOUS
    <3>2. PICK T \in SUBSET (1..n) : WalkFrom(Marks(L, G, n, S), k) = Marks(L, G, n, T)
      BY <1>4
    <3> QED
      BY <1>2, <3>1, <3>2
  <2> HIDE DEF Q
  <2> QED
    BY <1>5, <2>1
<1>7. base \in Q
  <2>1. {} \in SUBSET (1..n)
    OBVIOUS
  <2> QED
    BY <1>3, <2>1
<1> HIDE DEF Q
<1>8. PICK f \in [0..n -> Q] : IsFold(f, base, step, n)
  BY <1>6, <1>7, FoldExists
<1>9. WalkSteps(f, base, ids, n)
  <2>1. ASSUME NEW k \in 0..n PROVE f[k] = IF k = 0 THEN base ELSE WalkFrom(f[k - 1], ids[k])
    <3>1. f[k] = IF k = 0 THEN base ELSE step[k][f[k - 1]]
      BY <1>8 DEF IsFold
    <3>2. k # 0 => k \in 1..n /\ k - 1 \in 0..n /\ f[k - 1] \in Q
      BY <1>8
    <3> QED
      BY <1>5, <3>1, <3>2
  <2>2. f = [k \in 0..n |-> f[k]]
    BY <1>8
  <2> QED
    BY <2>1, <2>2 DEF WalkSteps
<1>10. PICK g : g = CHOOSE x : WalkSteps(x, base, ids, n)
  OBVIOUS
<1>11. WalkSteps(g, base, ids, n)
  BY <1>9, <1>10
<1>12. Through(WalkFrom, base, ids) = g[n]
  BY <1>2, <1>10 DEF Through, WalkSteps
<1> DEFINE U == {k \in 0..n : \E S \in SUBSET (1..n) : 1..k \subseteq S /\ g[k] = Marks(L, G, n, S)}
<1>13. 0 \in U
  <2>1. g[0] = base
    BY <1>11 DEF WalkSteps
  <2>2. {} \in SUBSET (1..n) /\ 1..0 \subseteq {} /\ 0 \in 0..n
    OBVIOUS
  <2> QED
    BY <1>3, <2>1, <2>2
<1>14. ASSUME NEW k \in 0..n, k \in U, k < n PROVE k + 1 \in U
  <2>1. PICK S \in SUBSET (1..n) : 1..k \subseteq S /\ g[k] = Marks(L, G, n, S)
    BY <1>14
  <2>2. k + 1 \in 0..n /\ k + 1 # 0 /\ (k + 1) - 1 = k /\ k + 1 \in 1..n /\ 1..k + 1 = 1..k \cup {k + 1}
    BY <1>14
  <2>3. PICK T \in SUBSET (1..n) : S \cup {k + 1} \subseteq T /\ WalkFrom(Marks(L, G, n, S), k + 1) = Marks(L, G, n, T)
    BY <1>4, <2>2
  <2>4. g[k + 1] = WalkFrom(g[k], ids[k + 1])
    BY <1>11, <2>2 DEF WalkSteps
  <2>5. g[k + 1] = Marks(L, G, n, T)
    BY <1>2, <2>1, <2>2, <2>3, <2>4
  <2>6. 1..k + 1 \subseteq T
    BY <2>1, <2>2, <2>3
  <2> QED
    BY <2>2, <2>5, <2>6
<1> HIDE DEF U
<1>15. \A k \in 0..n : k \in U
  BY <1>13, <1>14, UpTo
<1>16. n \in U
  BY <1>15
<1>17. PICK S \in SUBSET (1..n) : 1..n \subseteq S /\ g[n] = Marks(L, G, n, S)
  BY <1>16 DEF U
<1>18. S = 1..n
  BY <1>17
<1> QED
  BY <1>1, <1>12, <1>17, <1>18

\* The parent a frame names, whether it can be valid, and whether all its stack is.
ParentsOf(F, n) == [g \in 1..n |-> IF F[g].parentId = NoId THEN None ELSE FrameOf(F, F[g].parentId)]
SoundOf(F, n) == [g \in 1..n |-> F[g].valid /\ (F[g].parentId = NoId \/ FrameOf(F, F[g].parentId) # None)]
GoodOf(F, n) == [g \in 1..n |-> Good(ParentsOf(F, n), SoundOf(F, n), n, g)]

LEMMA SoundTypes ==
  ASSUME NEW n \in Nat, NEW F, IsFrameList(F, n)
  PROVE  /\ ParentsOf(F, n) \in [1..n -> 0..n] /\ SoundOf(F, n) \in [1..n -> BOOLEAN]
         /\ GoodOf(F, n) \in [1..n -> BOOLEAN]
<1>1. DOMAIN F = 1..n /\ \A g \in 1..n : F[g].valid \in BOOLEAN
  BY DEF IsFrameList, IsStackFrame
<1>2. \A g \in 1..n : FrameOf(F, F[g].parentId) \in 0..n
  BY <1>1, FrameOfIs
<1>3. None \in 0..n
  BY DEF None
<1>4. ParentsOf(F, n) \in [1..n -> 0..n]
  BY <1>2, <1>3 DEF ParentsOf
<1>5. SoundOf(F, n) \in [1..n -> BOOLEAN]
  BY <1>1 DEF SoundOf
<1>6. GoodOf(F, n) \in [1..n -> BOOLEAN]
  BY DEF GoodOf, Good
<1> QED
  BY <1>4, <1>5, <1>6

LEMMA LinkedIs ==
  ASSUME NEW n \in Nat, NEW F, IsFrameList(F, n)
  PROVE  /\ Chained(Linked(F), ParentsOf(F, n), SoundOf(F, n), GoodOf(F, n), n)
         /\ \A g \in 1..n : /\ Linked(F)[g].id = F[g].id /\ Linked(F)[g].parentId = F[g].parentId
                            /\ Linked(F)[g].name = F[g].name /\ Linked(F)[g].cat = F[g].cat
<1>1. PICK L, P, V : L = Linked(F) /\ P = ParentsOf(F, n) /\ V = SoundOf(F, n)
  OBVIOUS
<1>2. DOMAIN F = 1..n /\ P \in [1..n -> 0..n] /\ V \in [1..n -> BOOLEAN]
  BY <1>1, SoundTypes DEF IsFrameList
<1>3. L = [g \in 1..n |-> [F[g] EXCEPT !.parent = IF F[g].parentId = NoId THEN None ELSE FrameOf(F, F[g].parentId),
                                       !.valid = F[g].valid /\ (F[g].parentId = NoId \/ FrameOf(F, F[g].parentId) # None)]]
  BY <1>1, <1>2 DEF Linked
<1>4. ASSUME NEW g \in 1..n
      PROVE  /\ IsStackFrame(L[g]) /\ L[g].parent = P[g] /\ L[g].valid = V[g]
             /\ L[g].id = F[g].id /\ L[g].parentId = F[g].parentId /\ L[g].name = F[g].name /\ L[g].cat = F[g].cat
  <2>1. PICK l, p, v : l = F[g] /\ p = P[g] /\ v = V[g]
    OBVIOUS
  <2>2. IsStackFrame(l) /\ v \in BOOLEAN
    BY <1>2, <2>1 DEF IsFrameList
  <2>3. L[g] = [l EXCEPT !.parent = p, !.valid = v]
    BY <1>1, <1>3, <2>1 DEF ParentsOf, SoundOf
  <2>4. PICK d1, d2 : d1 = [l EXCEPT !["parent"] = p] /\ d2 = [d1 EXCEPT !["valid"] = v]
    OBVIOUS
  <2>5. L[g] = d2
    BY <2>3, <2>4, Zenon
  <2>6. "parent" \in FrameKeys /\ "valid" \in FrameKeys
    BY DEF FrameKeys
  <2>7. FrameWith(d1, l, "parent", p)
    BY <2>2, <2>4, <2>6, FrameSet
  <2>8. IsStackFrame(d1)
    BY <2>7 DEF FrameWith
  <2>9. FrameWith(d2, d1, "valid", v)
    BY <2>2, <2>4, <2>6, <2>8, FrameSet
  <2>10. IsStackFrame(d2)
    BY <2>9 DEF FrameWith
  <2>11. d1.id = l.id /\ d1.parentId = l.parentId /\ d1.cat = l.cat /\ d1.parent = p /\ d1.name = l.name
    BY <2>7, FrameSame
  <2>12. d2.id = d1.id /\ d2.parentId = d1.parentId /\ d2.cat = d1.cat /\ d2.parent = d1.parent /\ d2.valid = v /\ d2.name = d1.name
    BY <2>9, FrameSame
  <2> QED
    BY <2>1, <2>5, <2>10, <2>11, <2>12
<1>5. IsFrameList(L, n)
  <2>1. L = [g \in 1..n |-> L[g]]
    BY <1>3, Zenon
  <2>2. Len(L) = n
    BY <2>1
  <2> QED
    BY <1>4, <2>1, <2>2 DEF IsFrameList
<1>6. \A g \in 1..n : GoodOf(F, n)[g] <=> Good(P, V, n, g)
  BY <1>1 DEF GoodOf
<1>7. GoodOf(F, n) \in [1..n -> BOOLEAN]
  BY SoundTypes
<1>8. Chained(L, P, V, GoodOf(F, n), n)
  BY <1>2, <1>4, <1>5, <1>6, <1>7 DEF Chained
<1> QED
  BY <1>1, <1>4, <1>8

\* The resolved frames: parents are linked, and the good ones are marked.
Resolved(R, F, n) ==
  /\ IsFrameList(R, n)
  /\ \A g \in 1..n : /\ R[g].id = F[g].id /\ R[g].parentId = F[g].parentId /\ R[g].name = F[g].name /\ R[g].cat = F[g].cat
                     /\ R[g].parent = ParentsOf(F, n)[g] /\ R[g].valid = GoodOf(F, n)[g]

\* The walks mark a frame exactly when its parents are known and valid up to a root,
\* in whatever order the frames come (resolve_stack_frames).
THEOREM FramesResolved ==
  ASSUME NEW n \in Nat, NEW F, IsFrameList(F, n)
  PROVE  Resolved(ResolveFrames(F), F, n)
<1>1. PICK L, P, V, G : L = Linked(F) /\ P = ParentsOf(F, n) /\ V = SoundOf(F, n) /\ G = GoodOf(F, n)
  OBVIOUS
<1>2. Chained(L, P, V, G, n)
  BY <1>1, LinkedIs
<1>3. Through(WalkFrom, [seen |-> {}, frames |-> L], [f \in 1..n |-> f]) = Marks(L, G, n, 1..n)
  BY <1>2, AllWalked
<1>4. ResolveFrames(F) = MarkedSo(L, G, n, 1..n)
  <2>1. Len(F) = n
    BY DEF IsFrameList
  <2>2. ResolveFrames(F) = Through(WalkFrom, [seen |-> {}, frames |-> Linked(F)], [f \in 1..Len(F) |-> f]).frames
    BY DEF ResolveFrames
  <2>3. ResolveFrames(F) = Marks(L, G, n, 1..n).frames
    BY <1>1, <1>3, <2>1, <2>2
  <2> QED
    BY <2>3 DEF Marks
<1>5. PICK R, S : R = MarkedSo(L, G, n, S) /\ S = 1..n
  OBVIOUS
<1>6. S \in SUBSET (1..n)
  BY <1>5
<1>7. /\ IsFrameList(R, n)
      /\ \A g \in 1..n : R[g].parent = P[g] /\ R[g].valid = (IF g \in S THEN G[g] ELSE V[g]) /\ SameButMark(R[g], L[g])
  BY <1>2, <1>5, <1>6, MarkedAre
<1>8. \A g \in 1..n : L[g].id = F[g].id /\ L[g].parentId = F[g].parentId /\ L[g].name = F[g].name /\ L[g].cat = F[g].cat
  BY <1>1, LinkedIs
<1>9. Resolved(R, F, n)
  BY <1>1, <1>5, <1>7, <1>8 DEF Resolved, SameButMark
<1> QED
  BY <1>4, <1>5, <1>9

\* Marking the good frames among frames already marked marks the same ones.
LEMMA GoodAgain ==
  ASSUME NEW n \in Nat, NEW P \in [1..n -> 0..n], NEW V \in [1..n -> BOOLEAN], NEW W \in [1..n -> BOOLEAN],
         \A g \in 1..n : W[g] <=> Good(P, V, n, g), NEW f \in 1..n
  PROVE  Good(P, W, n, f) <=> Good(P, V, n, f)
<1>1. PICK a : a = Climb(P, n, f)
  OBVIOUS
<1>2. a \in [0..n -> 0..n]
  <2>1. f \in 0..n
    OBVIOUS
  <2>2. IsWalk(a, P, n, f)
    BY <1>1, <2>1, WalkIs
  <2> QED
    BY <2>2 DEF IsWalk
<1>3. ASSUME Good(P, V, n, f) PROVE Good(P, W, n, f)
  <2>1. a[n] = 0
    BY <1>1, <1>3 DEF Good
  <2>2. \A k \in 0..n : a[k] # 0 => Good(P, V, n, a[k])
    BY <1>1, <1>3, GoodOnward
  <2>3. \A k \in 0..n : a[k] # 0 => W[a[k]]
    BY <1>2, <2>2, SMTT(30)
  <2> QED
    BY <1>1, <2>1, <2>3 DEF Good
<1>4. ASSUME Good(P, W, n, f) PROVE Good(P, V, n, f)
  <2>1. a[n] = 0 /\ \A k \in 0..n : a[k] # 0 => W[a[k]]
    BY <1>1, <1>4 DEF Good
  <2>2. \A g \in 1..n : W[g] => V[g]
    BY GoodStep
  <2>3. ASSUME NEW k \in 0..n, a[k] # 0 PROVE V[a[k]]
    <3>2. a[k] \in 1..n
      BY <1>2, <2>3
    <3>1. a[k] \in 1..n /\ W[a[k]]
      BY <2>1, <2>3, <3>2
    <3> QED
      BY <2>2, <3>1
  <2> QED
    BY <1>1, <2>1, <2>3 DEF Good
<1> QED
  BY <1>3, <1>4

\* The frames R of an index, first given as F, however often they are renamed
\* and resolved again.
Whole(R, F, n) ==
  /\ IsFrameList(R, n)
  /\ \A g \in 1..n : /\ R[g].id = F[g].id /\ R[g].parentId = F[g].parentId
                     /\ R[g].parent = ParentsOf(F, n)[g] /\ R[g].valid = GoodOf(F, n)[g]

Renamed(R, name) == [f \in DOMAIN R |-> SetSymbol(R[f], name)]

LEMMA RenamedAre ==
  ASSUME NEW n \in Nat, NEW R, IsFrameList(R, n), NEW name
  PROVE  /\ IsFrameList(Renamed(R, name), n)
         /\ \A g \in 1..n : /\ Renamed(R, name)[g].id = R[g].id /\ Renamed(R, name)[g].parentId = R[g].parentId
                            /\ Renamed(R, name)[g].valid = R[g].valid
<1>1. PICK F : F = Renamed(R, name)
  OBVIOUS
<1>2. DOMAIN R = 1..n
  BY DEF IsFrameList
<1>3. F = [f \in 1..n |-> [R[f] EXCEPT !.name = name]]
  BY <1>1, <1>2 DEF Renamed, SetSymbol
<1>4. ASSUME NEW g \in 1..n
      PROVE  IsStackFrame(F[g]) /\ F[g].id = R[g].id /\ F[g].parentId = R[g].parentId /\ F[g].valid = R[g].valid
  <2>1. PICK l, d : l = R[g] /\ d = [l EXCEPT !["name"] = name]
    OBVIOUS
  <2>2. IsStackFrame(l)
    BY <2>1 DEF IsFrameList
  <2>3. F[g] = d
    <3>1. F[g] = [l EXCEPT !.name = name]
      BY <1>3, <2>1
    <3> QED
      BY <2>1, <3>1, Zenon
  <2>4. "name" \in FrameKeys
    BY DEF FrameKeys
  <2>5. FrameWith(d, l, "name", name)
    BY <2>1, <2>2, <2>4, FrameSet
  <2>6. IsStackFrame(d)
    BY <2>5 DEF FrameWith
  <2>7. d.id = l.id /\ d.parentId = l.parentId /\ d.valid = l.valid
    BY <2>5, FrameSame
  <2> QED
    BY <2>1, <2>3, <2>6, <2>7
<1>5. F = [g \in 1..n |-> F[g]] /\ Len(F) = n
  BY <1>3
<1> QED
  BY <1>1, <1>4, <1>5 DEF IsFrameList

LEMMA WholeFirst ==
  ASSUME NEW n \in Nat, NEW F, IsFrameList(F, n)
  PROVE  Whole(ResolveFrames(F), F, n)
BY FramesResolved DEF Whole, Resolved

LEMMA WholeAgain ==
  ASSUME NEW n \in Nat, NEW F, IsFrameList(F, n), NEW R, Whole(R, F, n), NEW name
  PROVE  Whole(ResolveFrames(Renamed(R, name)), F, n)
<1>1. PICK E : E = Renamed(R, name)
  OBVIOUS
<1>2. IsFrameList(R, n) /\ \A g \in 1..n : R[g].id = F[g].id /\ R[g].parentId = F[g].parentId /\ R[g].valid = GoodOf(F, n)[g]
  BY DEF Whole
<1>3. IsFrameList(E, n) /\ \A g \in 1..n : E[g].id = F[g].id /\ E[g].parentId = F[g].parentId /\ E[g].valid = GoodOf(F, n)[g]
  BY <1>1, <1>2, RenamedAre
<1>4. DOMAIN E = 1..n /\ DOMAIN F = 1..n
  BY <1>3 DEF IsFrameList
<1>5. \A id : FrameOf(E, id) = FrameOf(F, id)
  BY <1>3, <1>4, FrameOfById
<1>6. ParentsOf(E, n) = ParentsOf(F, n)
  BY <1>3, <1>5 DEF ParentsOf
<1>7. PICK P, V, W : P = ParentsOf(F, n) /\ V = SoundOf(F, n) /\ W = SoundOf(E, n)
  OBVIOUS
<1>8. P \in [1..n -> 0..n] /\ V \in [1..n -> BOOLEAN] /\ W \in [1..n -> BOOLEAN]
  BY <1>3, <1>7, SoundTypes
<1>9. ASSUME NEW g \in 1..n PROVE W[g] <=> Good(P, V, n, g)
  <2>1. W[g] <=> E[g].valid /\ (E[g].parentId = NoId \/ FrameOf(E, E[g].parentId) # None)
    BY <1>7 DEF SoundOf
  <2>2. E[g].valid <=> Good(P, V, n, g)
    <3>1. GoodOf(F, n)[g] <=> Good(P, V, n, g)
      BY <1>7 DEF GoodOf
    <3> QED
      BY <1>3, <3>1
  <2>3. V[g] => F[g].parentId = NoId \/ FrameOf(F, F[g].parentId) # None
    BY <1>7 DEF SoundOf
  <2>4. Good(P, V, n, g) => V[g]
    BY <1>8, GoodStep
  <2>5. E[g].parentId = F[g].parentId /\ FrameOf(E, E[g].parentId) = FrameOf(F, F[g].parentId)
    BY <1>3, <1>5
  <2> QED
    BY <2>1, <2>2, <2>3, <2>4, <2>5
<1>10. \A g \in 1..n : Good(P, W, n, g) <=> Good(P, V, n, g)
  BY <1>8, <1>9, GoodAgain
<1>11. GoodOf(E, n) = GoodOf(F, n)
  <2>1. \A g \in 1..n : GoodOf(E, n)[g] \in BOOLEAN /\ GoodOf(F, n)[g] \in BOOLEAN
    BY <1>3, SoundTypes
  <2>2. \A g \in 1..n : (GoodOf(E, n)[g] <=> Good(P, W, n, g)) /\ (GoodOf(F, n)[g] <=> Good(P, V, n, g))
    BY <1>6, <1>7 DEF GoodOf
  <2>3. \A g \in 1..n : GoodOf(E, n)[g] = GoodOf(F, n)[g]
    BY <1>10, <2>1, <2>2
  <2> QED
    BY <2>3 DEF GoodOf
<1>12. Resolved(ResolveFrames(E), E, n)
  BY <1>3, FramesResolved
<1>13. PICK D : D = ResolveFrames(E)
  OBVIOUS
<1>14. Whole(D, F, n)
  BY <1>3, <1>6, <1>11, <1>12, <1>13 DEF Whole, Resolved
<1> QED
  BY <1>1, <1>13, <1>14

\* A frame is marked good exactly when the walk over it ends and all it passes was
\* sound and known.
KnownIn(R, g) == R[g].parentId = NoId \/ FrameOf(R, R[g].parentId) # None
StacksOf(R, F) ==
  \A f \in DOMAIN R :
    R[f].valid <=> /\ Ups(R, f)[Len(R)] = None
                   /\ \A g \in {Ups(R, f)[k] : k \in 0..Len(R)} \ {None} : F[g].valid /\ KnownIn(R, g)

LEMMA WholeStacks ==
  ASSUME NEW n \in Nat, NEW F, IsFrameList(F, n), NEW R, Whole(R, F, n)
  PROVE  StacksOf(R, F)
<1>1. PICK P, V : P = ParentsOf(F, n) /\ V = SoundOf(F, n)
  OBVIOUS
<1>2. P \in [1..n -> 0..n] /\ V \in [1..n -> BOOLEAN]
  BY <1>1, SoundTypes
<1>3. /\ Len(R) = n /\ DOMAIN R = 1..n /\ DOMAIN F = 1..n
      /\ \A g \in 1..n : /\ R[g].id = F[g].id /\ R[g].parentId = F[g].parentId /\ R[g].parent = P[g]
                         /\ R[g].valid = GoodOf(F, n)[g]
  BY <1>1 DEF Whole, IsFrameList
<1>4. \A id : FrameOf(R, id) = FrameOf(F, id)
  BY <1>3, FrameOfById
<1>5. \A g \in 1..n : V[g] <=> F[g].valid /\ KnownIn(R, g)
  BY <1>1, <1>3, <1>4, ZenonT(40) DEF SoundOf, KnownIn
<1>6. ASSUME NEW f \in 1..n
      PROVE  R[f].valid <=> /\ Ups(R, f)[n] = None
                            /\ \A g \in {Ups(R, f)[k] : k \in 0..n} \ {None} : F[g].valid /\ KnownIn(R, g)
  <2>1. PICK up : up = Climb(P, n, f)
    OBVIOUS
  <2>2. f \in 0..n
    OBVIOUS
  <2>3. Ups(R, f) = up
    BY <1>2, <1>3, <2>1, <2>2, UpsAreWalk
  <2>4. up \in [0..n -> 0..n]
    <3>1. IsWalk(up, P, n, f)
      BY <1>2, <2>1, <2>2, WalkIs
    <3> QED
      BY <3>1 DEF IsWalk
  <2>5. R[f].valid <=> Good(P, V, n, f)
    <3>1. GoodOf(F, n)[f] <=> Good(P, V, n, f)
      BY <1>1 DEF GoodOf
    <3> QED
      BY <1>3, <3>1
  <2>6. Good(P, V, n, f) <=> up[n] = 0 /\ \A k \in 0..n : up[k] # 0 => V[up[k]]
    BY <2>1 DEF Good
  <2>7. \A k \in 0..n : up[k] # 0 => (V[up[k]] <=> F[up[k]].valid /\ KnownIn(R, up[k]))
    BY <1>5, <2>4
  <2>8. (\A k \in 0..n : up[k] # 0 => V[up[k]]) <=> \A g \in {up[k] : k \in 0..n} \ {None} : F[g].valid /\ KnownIn(R, g)
    BY <2>7 DEF None
  <2> QED
    BY <2>3, <2>5, <2>6, <2>8 DEF None
<1> QED
  BY <1>3, <1>6 DEF StacksOf

\* A sample with a frame: the frame is good, and the sample has its name.
SampleNamed(d, R) == d.ph = "P" /\ d.frame # None => /\ d.frame \in DOMAIN R /\ R[d.frame].valid
                                                     /\ d.name = R[d.frame].name
SamplesNamed(m) == \A i \in DOMAIN m.events : SampleNamed(m.events[i], m.frames)

LEMMA StartedSample ==
  ASSUME NEW e, IsTimed(e), NEW n \in Nat, NEW R, DOMAIN R = 1..n
  PROVE  SampleNamed(Reset(ResolveEvent(e, R)), R)
<1>1. PICK f, good : f = FrameOf(R, e.sf) /\ good = (f # None /\ R[f].valid)
  OBVIOUS
<1>2. f \in 0..n
  BY <1>1, FrameOfIs
<1>3. PICK a, b, c : /\ a = IF good THEN f ELSE None
                     /\ b = IF good /\ e.ph = "P" THEN R[f].name ELSE e.name
                     /\ c = IF good /\ e.ph = "P" /\ R[f].cat # EmptyText THEN R[f].cat ELSE e.cat
  OBVIOUS
<1>4. PICK d1, d2, d3 : d1 = [e EXCEPT !["frame"] = a] /\ d2 = [d1 EXCEPT !["name"] = b] /\ d3 = [d2 EXCEPT !["cat"] = c]
  OBVIOUS
<1>5. /\ "frame" \in EventFields /\ "name" \in EventFields /\ "cat" \in EventFields /\ "ph" \in EventFields
      /\ "parent" \in EventFields /\ "depth" \in EventFields /\ "self" \in EventFields /\ "ended" \in EventFields
      /\ "kind" \in EventFields /\ "dur" \in EventFields
  BY DEF EventFields
<1>6. SetsField(d1, e, "frame", a) /\ IsTimed(d1)
  <2>1. SetsField(d1, e, "frame", a)
    BY <1>4, <1>5, FieldSet
  <2> QED
    BY <2>1 DEF SetsField
<1>7. SetsField(d2, d1, "name", b) /\ IsTimed(d2)
  <2>1. SetsField(d2, d1, "name", b)
    BY <1>4, <1>5, <1>6, FieldSet
  <2> QED
    BY <2>1 DEF SetsField
<1>8. SetsField(d3, d2, "cat", c) /\ IsTimed(d3)
  <2>1. SetsField(d3, d2, "cat", c)
    BY <1>4, <1>5, <1>7, FieldSet
  <2> QED
    BY <2>1 DEF SetsField
<1>9. d3["ph"] = e["ph"] /\ d3["frame"] = a /\ d3["name"] = b
  BY <1>5, <1>6, <1>7, <1>8 DEF SetsField
<1>10. ResolveEvent(e, R) = d3
  <2>1. ResolveEvent(e, R) = [e EXCEPT !.frame = a, !.name = b, !.cat = c]
    BY <1>1, <1>3 DEF ResolveEvent
  <2> QED
    BY <1>4, <2>1, Zenon
<1>11. PICK k, v : k = (IF d3.ph = "P" THEN "Sample" ELSE d3.kind) /\ v = IF d3.ph = "P" THEN 0 ELSE d3.dur
  OBVIOUS
<1>12. v \in Int
  BY <1>8, <1>11 DEF IsTimed, HasTimes
<1>13. PICK r1, r2, r3 : r1 = [d3 EXCEPT !["parent"] = None] /\ r2 = [r1 EXCEPT !["depth"] = 0] /\ r3 = [r2 EXCEPT !["self"] = 0]
  OBVIOUS
<1>14. PICK r4, r5, r6 : r4 = [r3 EXCEPT !["ended"] = FALSE] /\ r5 = [r4 EXCEPT !["kind"] = k] /\ r6 = [r5 EXCEPT !["dur"] = v]
  OBVIOUS
<1>15. SetsField(r1, d3, "parent", None) /\ IsTimed(r1)
  <2>1. SetsField(r1, d3, "parent", None)
    BY <1>5, <1>8, <1>13, FieldSet
  <2> QED
    BY <2>1 DEF SetsField
<1>16. SetsField(r2, r1, "depth", 0) /\ IsTimed(r2)
  <2>1. SetsField(r2, r1, "depth", 0)
    BY <1>5, <1>13, <1>15, FieldSet
  <2> QED
    BY <2>1 DEF SetsField
<1>17. SetsField(r3, r2, "self", 0) /\ IsTimed(r3)
  <2>1. SetsField(r3, r2, "self", 0)
    BY <1>5, <1>13, <1>16, FieldSet
  <2> QED
    BY <2>1 DEF SetsField
<1>18. SetsField(r4, r3, "ended", FALSE) /\ IsTimed(r4)
  <2>1. SetsField(r4, r3, "ended", FALSE)
    BY <1>5, <1>14, <1>17, FieldSet
  <2> QED
    BY <2>1 DEF SetsField
<1>19. SetsField(r5, r4, "kind", k) /\ IsTimed(r5)
  <2>1. SetsField(r5, r4, "kind", k)
    BY <1>5, <1>14, <1>18, FieldSet
  <2> QED
    BY <2>1 DEF SetsField
<1>20. SetsField(r6, r5, "dur", v)
  BY <1>5, <1>12, <1>14, <1>19, FieldSet
<1>25. \A x \in {"ph", "frame", "name"} : r3[x] = d3[x]
  <2>1. \A x \in {"ph", "frame", "name"} : x \in EventFields /\ x # "parent" /\ x # "depth" /\ x # "self"
    BY DEF EventFields
  <2> QED
    BY <1>15, <1>16, <1>17, <2>1 DEF SetsField
<1>26. \A x \in {"ph", "frame", "name"} : r6[x] = r3[x]
  <2>1. \A x \in {"ph", "frame", "name"} : x \in EventFields /\ x # "ended" /\ x # "kind" /\ x # "dur"
    BY DEF EventFields
  <2> QED
    BY <1>18, <1>19, <1>20, <2>1 DEF SetsField
<1>21. r6["ph"] = e["ph"] /\ r6["frame"] = a /\ r6["name"] = b
  BY <1>9, <1>25, <1>26
<1>22. Reset(ResolveEvent(e, R)) = r6
  <2>1. Reset(d3) = [d3 EXCEPT !.parent = None, !.depth = 0, !.self = 0, !.ended = FALSE, !.kind = k, !.dur = v]
    BY <1>11 DEF Reset
  <2>2. Reset(d3) = r6
    BY <1>13, <1>14, <2>1, Zenon
  <2> QED
    BY <1>10, <2>2
<1>23. r6.ph = e.ph /\ r6.frame = a /\ r6.name = b
  BY <1>21, Zenon
<1>24. SampleNamed(r6, R)
  <2>1. ASSUME r6.ph = "P", r6.frame # None PROVE r6.frame \in DOMAIN R /\ R[r6.frame].valid /\ r6.name = R[r6.frame].name
    <3>1. good
      BY <1>3, <1>23, <2>1
    <3>2. a = f /\ b = R[f].name /\ f # None /\ R[f].valid
      BY <1>1, <1>3, <1>23, <2>1, <3>1
    <3>3. f \in 1..n
      BY <1>2, <3>2 DEF None
    <3> QED
      BY <1>23, <3>2, <3>3
  <2> QED
    BY <2>1 DEF SampleNamed
<1> QED
  BY <1>22, <1>24

LEMMA SamplesAreNamed ==
  ASSUME NEW n \in Nat, NEW events0, DOMAIN events0 = 1..n, AreTimed(events0),
         NEW l \in Nat, NEW R, DOMAIN R = 1..l, NEW m, IndexOf(m, events0, R, n)
  PROVE  SamplesNamed(m)
<1>1. PICK ev : ev = Started(events0, R)
  OBVIOUS
<1>2. AreFresh(ev)
  BY <1>1, FreshIsFresh
<1>3. DOMAIN ev = 1..n /\ \A i \in 1..n : ev[i] = Reset(ResolveEvent(events0[i], R))
  BY <1>1 DEF Started
<1>4. m.events \in Kin(ev) /\ m.frames = R
  BY <1>1 DEF IndexOf
<1>5. PICK q : q = m.events
  OBVIOUS
<1>6. q \in Kin(ev) /\ AreTimed(ev)
  BY <1>2, <1>4, <1>5 DEF AreFresh
<1>7. ASSUME NEW i \in DOMAIN ev PROVE DOMAIN q = DOMAIN ev /\ SampleNamed(q[i], R)
  <2>1. IsTimed(events0[i])
    BY <1>3 DEF AreTimed
  <2>2. SampleNamed(ev[i], R)
    BY <1>3, <2>1, StartedSample
  <2>3. DOMAIN q = DOMAIN ev /\ q[i].ph = ev[i].ph /\ q[i].name = ev[i].name /\ q[i].frame = ev[i].frame
    BY <1>6, KinHas
  <2> QED
    BY <2>2, <2>3 DEF SampleNamed
<1>8. DOMAIN q = DOMAIN ev
  BY <1>6 DEF Kin
<1> QED
  BY <1>4, <1>5, <1>7, <1>8 DEF SamplesNamed

\* The stack of a good frame starts at a root.
StackStarts(m, i) == SampleStack(m, i) # <<>> /\ m.frames[SampleStack(m, i)[1]].parent = None

LEMMA SampleLeads ==
  ASSUME NEW n \in Nat, NEW F, IsFrameList(F, n), NEW m, Whole(m.frames, F, n),
         NEW i, m.events[i].frame \in DOMAIN m.frames, m.frames[m.events[i].frame].valid
  PROVE  StackStarts(m, i)
<1>1. PICK R, f, P, V : R = m.frames /\ f = m.events[i].frame /\ P = ParentsOf(F, n) /\ V = SoundOf(F, n)
  OBVIOUS
<1>2. P \in [1..n -> 0..n] /\ V \in [1..n -> BOOLEAN]
  BY <1>1, SoundTypes
<1>3. Len(R) = n /\ DOMAIN R = 1..n /\ \A g \in 1..n : R[g].parent = P[g] /\ R[g].valid = GoodOf(F, n)[g]
  BY <1>1 DEF Whole, IsFrameList
<1>4. f \in 1..n /\ f \in 0..n /\ f # 0
  BY <1>1, <1>3
<1>5. PICK up : up = Climb(P, n, f)
  OBVIOUS
<1>6. Ups(R, f) = up
  <2>1. Len(R) = n /\ \A g \in 1..n : R[g].parent = P[g]
    BY <1>3
  <2>2. f \in 0..n
    BY <1>4
  <2> QED
    BY <1>2, <1>5, <2>1, <2>2, UpsAreWalk
<1>7. IsWalk(up, P, n, f)
  BY <1>2, <1>4, <1>5, WalkIs
<1>8. up \in [0..n -> 0..n] /\ up[0] = f /\ \A k \in 1..n : up[k] = IF up[k - 1] = 0 THEN 0 ELSE P[up[k - 1]]
  BY <1>7 DEF IsWalk
<1>9. up[n] = 0
  <2>1. GoodOf(F, n)[f]
    BY <1>1, <1>3, <1>4
  <2>2. Good(P, V, n, f)
    BY <1>1, <1>4, <2>1 DEF GoodOf
  <2> QED
    BY <1>5, <2>2 DEF Good
<1>10. PICK c \in {k \in 0..n : up[k] = 0} : \A k \in {k \in 0..n : up[k] = 0} : c <= k
  <2>1. {k \in 0..n : up[k] = 0} \in SUBSET Nat /\ {k \in 0..n : up[k] = 0} # {}
    BY <1>9
  <2> QED
    BY <2>1, LeastNumber
<1>11. c \in 1..n /\ c - 1 \in 0..n /\ c - 1 \in 0..c - 1
  BY <1>4, <1>8, <1>10
<1>12. {k \in DOMAIN up : up[k] # None} = 0..c - 1
  <2>1. \A k \in c..n : up[k] = 0
    BY <1>7, <1>10, <1>11, WalkOver
  <2>2. \A k \in 0..n : up[k] # 0 <=> k \in 0..c - 1
    BY <1>10, <1>11, <2>1
  <2>3. DOMAIN up = 0..n
    BY <1>8
  <2>4. 0..c - 1 \subseteq 0..n
    BY <1>11
  <2> QED
    BY <2>2, <2>3, <2>4 DEF None
<1>13. Cardinality(0..c - 1) = c
  BY <1>11, FS_Interval
<1>14. SampleStack(m, i) = [k \in 1..c |-> up[c - k]]
  BY <1>1, <1>6, <1>12, <1>13 DEF SampleStack
<1>15. PICK s : s = SampleStack(m, i)
  OBVIOUS
<1>16. DOMAIN s = 1..c /\ s[1] = up[c - 1]
  BY <1>11, <1>14, <1>15
<1>17. s # <<>>
  BY <1>11, <1>16
<1>18. up[c - 1] \in 1..n
  <2>1. up[c - 1] # 0
    BY <1>8, <1>11, <1>12 DEF None
  <2> QED
    BY <1>8, <1>11, <2>1
<1>19. P[up[c - 1]] = 0
  <2>1. up[c] = IF up[c - 1] = 0 THEN 0 ELSE P[up[c - 1]]
    BY <1>8, <1>11
  <2> QED
    BY <1>10, <1>18, <2>1
<1>20. R[s[1]].parent = None
  BY <1>3, <1>16, <1>18, <1>19 DEF None
<1> QED
  BY <1>1, <1>15, <1>17, <1>20 DEF StackStarts
=============================================================================
