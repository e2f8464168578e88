---------------------------- MODULE NestingProofs ----------------------------
(* What is proved about pairing and nesting: the events of a thread lie in   *)
(* each other as their times say.                                            *)
EXTENDS TraceIndexProofs

-----------------------------------------------------------------------------
(* Pairs.  The B events of a thread, in the order in which they are read: D  *)
(* is how long each lasts, W the one it was opened in, Q those still open; T *)
(* and K are their times and tracks, C those read so far, the last at now.   *)
Earlier(T, a, b) == T[a] < T[b] \/ (T[a] = T[b] /\ a < b)
Apart(D, Q, T, a, b) == a \notin Q /\ T[a] + D[a] <= T[b]
Inside(D, W, Q, T, a, b) ==
  /\ W[b] # None /\ (W[b] = a \/ Earlier(T, a, W[b]))
  /\ b \in Q => a \in Q
  /\ a \notin Q => T[b] + D[b] <= T[a] + D[a]

PairsNest(D, W, Q, T, K, C, now) ==
  /\ Q \subseteq C
  /\ \A i \in C \ Q : D[i] >= 0 /\ T[i] + D[i] <= now
  /\ \A a, b \in C : K[a] = K[b] /\ Earlier(T, a, b) => Apart(D, Q, T, a, b) \/ Inside(D, W, Q, T, a, b)
  /\ \A b \in C : W[b] # None => /\ W[b] \in C /\ K[W[b]] = K[b] /\ Earlier(T, W[b], b)
                                 /\ Inside(D, W, Q, T, W[b], b)

PairTypes(n, D, W, T, C, now) ==
  /\ D \in [1..n -> Int] /\ W \in [1..n -> 0..n] /\ T \in [1..n -> Int] /\ C \in SUBSET (1..n) /\ now \in Int

\* The last of the open ones of a track, or none.
LastOpen(w, Q, T, K, t) ==
  \/ w = None /\ \A a \in Q : K[a] # t
  \/ w \in Q /\ K[w] = t /\ \A a \in Q : K[a] = t => a = w \/ Earlier(T, a, w)

LEMMA PairOpened ==
  ASSUME NEW n \in Nat, NEW D, NEW W, NEW Q, NEW T, NEW K, NEW C, NEW now, PairTypes(n, D, W, T, C, now),
         PairsNest(D, W, Q, T, K, C, now),
         NEW x \in 1..n, x \notin C, \A a \in C : Earlier(T, a, x), T[x] >= now,
         NEW w \in 0..n, LastOpen(w, Q, T, K, K[x])
  PROVE  PairsNest(D, [W EXCEPT ![x] = w], Q \cup {x}, T, K, C \cup {x}, T[x])
<1>1. PICK V, P, E : V = [W EXCEPT ![x] = w] /\ P = Q \cup {x} /\ E = C \cup {x}
  OBVIOUS
<1>2. V[x] = w /\ \A i \in C : V[i] = W[i]
  BY <1>1 DEF PairTypes
<1>10. \A i \in C : i \in 1..n /\ i # x /\ T[i] \in Int /\ D[i] \in Int /\ (i \in P <=> i \in Q)
  BY <1>1 DEF PairTypes
<1>11. T[x] \in Int /\ x \in P /\ ~Earlier(T, x, x)
  BY <1>1 DEF PairTypes, Earlier
<1>12. \A i \in C : ~Earlier(T, x, i)
  BY <1>10, <1>11 DEF Earlier
<1>3. /\ \A i \in C : i \in 1..n /\ i # x /\ T[i] \in Int /\ D[i] \in Int /\ (i \in P <=> i \in Q)
      /\ T[x] \in Int /\ x \in P /\ ~Earlier(T, x, x) /\ \A i \in C : ~Earlier(T, x, i)
  BY <1>10, <1>11, <1>12
<1>4. ASSUME NEW a \in C, NEW b \in C, Inside(D, W, Q, T, a, b) PROVE Inside(D, V, P, T, a, b)
  BY <1>2, <1>3, <1>4 DEF Inside
<1>5. ASSUME NEW a \in C, K[a] = K[x] PROVE Apart(D, P, T, a, x) \/ Inside(D, V, P, T, a, x)
  <2>1. CASE a \in Q
    <3>2. w \in Q /\ (a = w \/ Earlier(T, a, w))
      BY <1>5, <2>1 DEF LastOpen
    <3>3. w \in 1..n
      BY <1>10, <3>2 DEF PairsNest
    <3>1. w \in Q /\ (a = w \/ Earlier(T, a, w)) /\ w # None
      BY <3>2, <3>3 DEF None
    <3> QED
      BY <1>2, <1>3, <2>1, <3>1 DEF Inside
  <2>2. CASE a \notin Q
    <3>1. T[a] + D[a] <= now
      BY <2>2 DEF PairsNest
    <3> QED
      BY <1>3, <2>2, <3>1 DEF Apart, PairTypes
  <2> QED
    BY <2>1, <2>2
<1>6. ASSUME NEW a \in E, NEW b \in E, K[a] = K[b], Earlier(T, a, b)
      PROVE  Apart(D, P, T, a, b) \/ Inside(D, V, P, T, a, b)
  <2>1. CASE a = x
    BY <1>1, <1>3, <1>6, <2>1
  <2>2. CASE a # x /\ b = x
    BY <1>1, <1>5, <1>6, <2>2
  <2>3. CASE a # x /\ b # x
    <3>1. a \in C /\ b \in C
      BY <1>1, <2>3
    <3>2. Apart(D, Q, T, a, b) \/ Inside(D, W, Q, T, a, b)
      BY <1>6, <3>1 DEF PairsNest
    <3> QED
      BY <1>3, <1>4, <3>1, <3>2 DEF Apart
  <2> QED
    BY <2>1, <2>2, <2>3
<1>7. ASSUME NEW b \in E, V[b] # None
      PROVE  V[b] \in E /\ K[V[b]] = K[b] /\ Earlier(T, V[b], b) /\ Inside(D, V, P, T, V[b], b)
  <2>1. CASE b = x
    <3>1. w \in Q /\ K[w] = K[x] /\ w \in C
      BY <1>2, <1>7, <2>1 DEF LastOpen, PairsNest
    <3>2. Inside(D, V, P, T, w, x)
      BY <1>2, <1>3, <1>7, <2>1, <3>1 DEF Inside
    <3> QED
      BY <1>1, <1>2, <2>1, <3>1, <3>2
  <2>2. CASE b # x
    <3>1. b \in C /\ V[b] = W[b]
      BY <1>1, <1>2, <2>2
    <3>2. W[b] \in C /\ K[W[b]] = K[b] /\ Earlier(T, W[b], b) /\ Inside(D, W, Q, T, W[b], b)
      BY <1>7, <3>1 DEF PairsNest
    <3>3. Inside(D, V, P, T, W[b], b)
      BY <1>4, <3>1, <3>2
    <3> QED
      BY <1>1, <3>1, <3>2, <3>3
  <2> QED
    BY <2>1, <2>2
<1>8. \A i \in E \ P : D[i] >= 0 /\ T[i] + D[i] <= T[x]
  <2>1. \A i \in E \ P : i \in C \ Q
    BY <1>1
  <2>2. \A i \in C \ Q : D[i] >= 0 /\ T[i] + D[i] <= now
    BY DEF PairsNest
  <2>3. T[x] \in Int /\ now \in Int /\ \A i \in C : T[i] \in Int /\ D[i] \in Int
    BY <1>10, <1>11 DEF PairTypes
  <2> QED
    BY <2>1, <2>2, <2>3
<1>9. P \subseteq E
  BY <1>1 DEF PairsNest
<1> QED
  BY <1>1, <1>6, <1>7, <1>8, <1>9 DEF PairsNest

LEMMA PairClosed ==
  ASSUME NEW n \in Nat, NEW D, NEW W, NEW Q, NEW T, NEW K, NEW C, NEW now, PairTypes(n, D, W, T, C, now),
         PairsNest(D, W, Q, T, K, C, now),
         NEW y \in Q, LastOpen(y, Q, T, K, K[y]), NEW end \in Int, end >= now, end >= T[y]
  PROVE  PairsNest([D EXCEPT ![y] = end - T[y]], W, Q \ {y}, T, K, C, end)
<1>1. PICK L, P : L = [D EXCEPT ![y] = end - T[y]] /\ P = Q \ {y}
  OBVIOUS
<1>2. y \in C /\ y \in 1..n
  BY DEF PairsNest, PairTypes
<1>3. /\ L[y] = end - T[y] /\ \A i \in C : i # y => L[i] = D[i]
      /\ \A i \in C : i \in 1..n /\ T[i] \in Int /\ D[i] \in Int /\ L[i] \in Int
  BY <1>1, <1>2 DEF PairTypes
<1>4. \A i \in C : i \notin Q => T[i] + D[i] <= now
  BY DEF PairsNest
<1>5. ASSUME NEW a \in C, NEW b \in C, K[a] = K[b], Earlier(T, a, b), Inside(D, W, Q, T, a, b) PROVE Inside(L, W, P, T, a, b)
  <2>1. CASE a = y
    <3>1. b # y /\ b \notin Q
      <4>1. ~Earlier(T, y, y) /\ ~(Earlier(T, y, b) /\ Earlier(T, b, y))
        BY <1>2, <1>3 DEF Earlier
      <4> QED
        BY <1>2, <1>5, <2>1, <4>1 DEF LastOpen, PairTypes
    <3>2. T[b] + L[b] <= end
      BY <1>3, <1>4, <3>1, SMTT(30) DEF PairTypes
    <3> QED
      BY <1>1, <1>2, <1>3, <1>5, <2>1, <3>1, <3>2 DEF Inside
  <2>2. CASE a # y /\ b = y
    <3>1. a \in Q
      BY <1>5, <2>2 DEF Inside
    <3> QED
      BY <1>1, <1>5, <2>2, <3>1 DEF Inside
  <2>3. CASE a # y /\ b # y
    BY <1>1, <1>3, <1>5, <2>3 DEF Inside
  <2> QED
    BY <2>1, <2>2, <2>3
<1>6. ASSUME NEW a \in C, NEW b \in C, K[a] = K[b], Earlier(T, a, b)
      PROVE  Apart(L, P, T, a, b) \/ Inside(L, W, P, T, a, b)
  <2>1. Apart(D, Q, T, a, b) \/ Inside(D, W, Q, T, a, b)
    BY <1>6 DEF PairsNest
  <2> QED
    BY <1>1, <1>3, <1>5, <1>6, <2>1 DEF Apart
<1>7. ASSUME NEW b \in C, W[b] # None
      PROVE  W[b] \in C /\ K[W[b]] = K[b] /\ Earlier(T, W[b], b) /\ Inside(L, W, P, T, W[b], b)
  <2>1. W[b] \in C /\ K[W[b]] = K[b] /\ Earlier(T, W[b], b) /\ Inside(D, W, Q, T, W[b], b)
    BY <1>7 DEF PairsNest
  <2> QED
    BY <1>5, <2>1
<1>8. ASSUME NEW i \in C \ P PROVE L[i] >= 0 /\ T[i] + L[i] <= end
  <2>1. CASE i = y
    BY <1>2, <1>3, <2>1
  <2>2. CASE i # y
    <3>1. D[i] >= 0 /\ T[i] + D[i] <= now
      BY <1>1, <2>2 DEF PairsNest
    <3> QED
      BY <1>3, <2>2, <3>1 DEF PairTypes
  <2> QED
    BY <2>1, <2>2
<1>9. P \subseteq C
  BY <1>1 DEF PairsNest
<1> QED
  BY <1>1, <1>6, <1>7, <1>8, <1>9 DEF PairsNest

\* Time goes on.
LEMMA PairWaits ==
  ASSUME NEW n \in Nat, NEW D, NEW W, NEW Q, NEW T, NEW K, NEW C, NEW now, PairTypes(n, D, W, T, C, now),
         PairsNest(D, W, Q, T, K, C, now), NEW later \in Int, later >= now
  PROVE  PairsNest(D, W, Q, T, K, C, later)
<1>1. \A i \in C : T[i] \in Int /\ D[i] \in Int
  BY DEF PairTypes
<1>2. \A i \in C \ Q : D[i] >= 0 /\ T[i] + D[i] <= later
  BY <1>1 DEF PairsNest, PairTypes
<1> QED
  BY <1>2 DEF PairsNest

(* The stacks of open events: one for each track, later ones on top. *)
OpenNow(n, open, K) == {i \in 1..n : \E a \in 1..Len(open[K[i]]) : open[K[i]][a] = i}
StacksRise(open, T, K, C) ==
  \A t \in Tracks : \A a \in 1..Len(open[t]) :
    /\ open[t][a] \in C /\ K[open[t][a]] = t
    /\ \A b \in 1..Len(open[t]) : a < b => Earlier(T, open[t][a], open[t][b])
OpenTypes(n, open, K, C) == open \in [Tracks -> Seq(1..n)] /\ K \in [1..n -> Tracks] /\ C \in SUBSET (1..n)

LEMMA LastIsLast ==
  ASSUME NEW n \in Nat, NEW open, NEW T, NEW K, NEW C, OpenTypes(n, open, K, C), StacksRise(open, T, K, C), NEW t \in Tracks,
         NEW w, w = IF open[t] = <<>> THEN None ELSE Last(open[t])
  PROVE  LastOpen(w, OpenNow(n, open, K), T, K, t) /\ w \in 0..n
<1>1. PICK s, l : s = open[t] /\ l = Len(s)
  OBVIOUS
<1>2. s \in Seq(1..n) /\ l \in Nat
  BY <1>1 DEF OpenTypes
<1>3. CASE s = <<>>
  <2>1. w = None /\ l = 0
    BY <1>1, <1>3
  <2>2. ASSUME NEW a \in OpenNow(n, open, K), K[a] = t PROVE FALSE
    <3>1. PICK j \in 1..Len(open[t]) : open[t][j] = a
      BY <2>2 DEF OpenNow
    <3> QED
      BY <1>1, <2>1, <3>1
  <2> QED
    BY <2>1, <2>2 DEF LastOpen, None
<1>4. CASE s # <<>>
  <2>1. w = s[l] /\ l \in 1..l /\ w \in 1..n
    BY <1>1, <1>2, <1>4 DEF Last
  <2>2. w \in OpenNow(n, open, K) /\ K[w] = t
    BY <1>1, <2>1 DEF OpenNow, StacksRise
  <2>3. ASSUME NEW a \in OpenNow(n, open, K), K[a] = t PROVE a = w \/ Earlier(T, a, w)
    <3>1. PICK j \in 1..l : s[j] = a
      BY <1>1, <2>3 DEF OpenNow
    <3>2. j < l => Earlier(T, s[j], s[l])
      BY <1>1, <2>1 DEF StacksRise
    <3>3. j = l \/ j < l
      BY <1>2
    <3> QED
      BY <2>1, <3>1, <3>2, <3>3
  <2>4. LastOpen(w, OpenNow(n, open, K), T, K, t)
    BY <2>2, <2>3 DEF LastOpen
  <2>5. w \in 0..n
    BY <2>1
  <2> QED
    BY <2>4, <2>5
<1> QED
  BY <1>3, <1>4

After(T, C, x) == \A a \in C : Earlier(T, a, x)
PushedOn(open, t, x) == [open EXCEPT ![t] = Append(@, x)]
Shrunk(open, t) == [open EXCEPT ![t] = Front(@)]

IsPushed(n, open, T, K, C, x) ==
  /\ OpenNow(n, PushedOn(open, K[x], x), K) = OpenNow(n, open, K) \cup {x}
  /\ StacksRise(PushedOn(open, K[x], x), T, K, C \cup {x})

LEMMA StackPushed ==
  ASSUME NEW n \in Nat, NEW open, NEW T, NEW K, NEW C, OpenTypes(n, open, K, C), StacksRise(open, T, K, C),
         NEW x \in 1..n, After(T, C, x)
  PROVE  IsPushed(n, open, T, K, C, x)
<1>10. PICK more : more = PushedOn(open, K[x], x)
  OBVIOUS
<1>1. PICK t, s, l : t = K[x] /\ s = open[t] /\ l = Len(s)
  OBVIOUS
<1>2. t \in Tracks /\ s \in Seq(1..n) /\ l \in Nat
  BY <1>1 DEF OpenTypes
<1>3. PICK z : z = Append(s, x)
  OBVIOUS
<1>4. more[t] = z /\ \A u \in Tracks : u # t => more[u] = open[u]
  BY <1>1, <1>2, <1>3, <1>10 DEF OpenTypes, PushedOn
<1>5. Len(z) = l + 1 /\ z[l + 1] = x /\ \A a \in 1..l : z[a] = s[a]
  BY <1>1, <1>2, <1>3
<1>6. ASSUME NEW i \in 1..n PROVE i \in OpenNow(n, more, K) <=> i \in OpenNow(n, open, K) \/ i = x
  <2>1. CASE K[i] = t
    <3>1. (\E a \in 1..l + 1 : z[a] = i) <=> (\E a \in 1..l : s[a] = i) \/ i = x
      BY <1>2, <1>5, SMTT(30)
    <3> QED
      BY <1>1, <1>4, <1>5, <2>1, <3>1 DEF OpenNow
  <2>2. CASE K[i] # t
    <3>1. K[i] \in Tracks /\ i # x
      BY <1>1, <2>2 DEF OpenTypes
    <3> QED
      BY <1>4, <2>2, <3>1 DEF OpenNow
  <2> QED
    BY <2>1, <2>2
<1>7. OpenNow(n, more, K) = OpenNow(n, open, K) \cup {x}
  BY <1>6 DEF OpenNow
<1>9. \A a \in C : Earlier(T, a, x)
  BY DEF After
<1>8. ASSUME NEW u \in Tracks, NEW a \in 1..Len(more[u])
      PROVE  /\ more[u][a] \in C \cup {x} /\ K[more[u][a]] = u
             /\ \A b \in 1..Len(more[u]) : a < b => Earlier(T, more[u][a], more[u][b])
  <2>1. CASE u # t
    BY <1>4, <1>8, <2>1 DEF StacksRise
  <2>2. CASE u = t
    <3>1. \A c \in 1..l : s[c] \in C /\ K[s[c]] = t /\ \A b \in 1..l : c < b => Earlier(T, s[c], s[b])
      <4>1. \A c \in 1..Len(open[t]) : /\ open[t][c] \in C /\ K[open[t][c]] = t
                                       /\ \A b \in 1..Len(open[t]) : c < b => Earlier(T, open[t][c], open[t][b])
        BY <1>2, Zenon DEF StacksRise
      <4> QED
        BY <1>1, <4>1, Zenon
    <3>2. \A c \in 1..l + 1 : c \in 1..l \/ c = l + 1
      BY <1>2
    <3>6. \A c \in 1..l : z[c] \in C /\ K[z[c]] = t
      BY <1>5, <3>1
    <3>3. \A c \in 1..l + 1 : z[c] \in C \cup {x} /\ K[z[c]] = t
      BY <1>1, <1>5, <3>2, <3>6
    <3>4. \A c, b \in 1..l + 1 : c < b => c \in 1..l /\ (b \in 1..l \/ b = l + 1)
      BY <1>2
    <3>5. \A c, b \in 1..l + 1 : c < b => Earlier(T, z[c], z[b])
      BY <1>5, <1>9, <3>1, <3>4
    <3> QED
      BY <1>4, <1>5, <2>2, <3>3, <3>5
  <2> QED
    BY <2>1, <2>2
<1> QED
  BY <1>7, <1>8, <1>10 DEF StacksRise, IsPushed

LEMMA StackPopped ==
  ASSUME NEW n \in Nat, NEW open, NEW T, NEW K, NEW C, OpenTypes(n, open, K, C), T \in [1..n -> Int], StacksRise(open, T, K, C),
         NEW t \in Tracks, open[t] # <<>>
  PROVE  /\ OpenNow(n, Shrunk(open, t), K) = OpenNow(n, open, K) \ {Last(open[t])}
         /\ StacksRise(Shrunk(open, t), T, K, C)
<1>10. PICK less : less = Shrunk(open, t)
  OBVIOUS
<1>1. PICK s, l, y, z : s = open[t] /\ l = Len(s) /\ y = Last(s) /\ z = Front(s)
  OBVIOUS
<1>2. s \in Seq(1..n) /\ l \in Nat /\ l >= 1
  BY <1>1 DEF OpenTypes
<1>3. less[t] = z /\ \A u \in Tracks : u # t => less[u] = open[u]
  BY <1>1, <1>10 DEF OpenTypes, Shrunk
<1>4. y = s[l] /\ Len(z) = l - 1 /\ \A a \in 1..l - 1 : z[a] = s[a]
  BY <1>1, <1>2 DEF Last, Front
<1>5. \A a \in 1..l : s[a] \in C /\ s[a] \in 1..n /\ K[s[a]] = t /\ \A b \in 1..l : a < b => Earlier(T, s[a], s[b])
  <2>1. \A a \in 1..Len(open[t]) : /\ open[t][a] \in C /\ K[open[t][a]] = t
                                   /\ \A b \in 1..Len(open[t]) : a < b => Earlier(T, open[t][a], open[t][b])
    BY Zenon DEF StacksRise
  <2>2. \A a \in 1..l : s[a] \in C /\ K[s[a]] = t /\ \A b \in 1..l : a < b => Earlier(T, s[a], s[b])
    BY <1>1, <2>1, Zenon
  <2>3. C \in SUBSET (1..n)
    BY DEF OpenTypes
  <2> QED
    BY <2>2, <2>3
<1>6. \A a \in 1..l - 1 : s[a] # y
  <2>1. \A a \in 1..l - 1 : a \in 1..l /\ l \in 1..l /\ a < l
    BY <1>2
  <2>2. ~Earlier(T, y, y)
    BY <1>2, <1>4, <1>5 DEF Earlier
  <2> QED
    BY <1>4, <1>5, <2>1, <2>2
<1>7. ASSUME NEW i \in 1..n PROVE i \in OpenNow(n, less, K) <=> i \in OpenNow(n, open, K) /\ i # y
  <2>1. CASE K[i] = t
    <3>1. \A a \in 1..l : a \in 1..l - 1 \/ a = l
      BY <1>2
    <3>2. \A a \in 1..l - 1 : a \in 1..l
      BY <1>2
    <3>3. (\E a \in 1..l - 1 : z[a] = i) <=> (\E a \in 1..l : s[a] = i) /\ i # y
      BY <1>4, <1>6, <3>1, <3>2
    <3> QED
      BY <1>1, <1>3, <1>4, <2>1, <3>3, ZenonT(40) DEF OpenNow
  <2>2. CASE K[i] # t
    <3>1. K[i] \in Tracks /\ i # y
      BY <1>2, <1>4, <1>5, <2>2, SMTT(30) DEF OpenTypes
    <3> QED
      BY <1>3, <2>2, <3>1 DEF OpenNow
  <2> QED
    BY <2>1, <2>2
<1>8. OpenNow(n, less, K) = OpenNow(n, open, K) \ {y}
  BY <1>7 DEF OpenNow
<1>9. ASSUME NEW u \in Tracks, NEW a \in 1..Len(less[u])
      PROVE  /\ less[u][a] \in C /\ K[less[u][a]] = u
             /\ \A b \in 1..Len(less[u]) : a < b => Earlier(T, less[u][a], less[u][b])
  <2>1. CASE u # t
    BY <1>3, <1>9, <2>1 DEF StacksRise
  <2>2. CASE u = t
    <3>1. \A c \in 1..l - 1 : c \in 1..l
      BY <1>2
    <3> QED
      BY <1>3, <1>4, <1>5, <2>2, <3>1
  <2> QED
    BY <2>1, <2>2
<1> QED
  BY <1>1, <1>8, <1>9, <1>10 DEF StacksRise

(* What one step of pairing does to these. *)
Times(ev, n) == [i \in 1..n |-> ev[i].ts]
Sides(ev, n) == [i \in 1..n |-> Track(ev[i])]
Durs(q, n) == [i \in 1..n |-> q[i].dur]

LEMMA SidesAre ==
  ASSUME NEW n \in Nat, NEW ev, DOMAIN ev = 1..n, AreTimed(ev), NEW q \in Kin(ev)
  PROVE  /\ Times(ev, n) \in [1..n -> Int] /\ Sides(ev, n) \in [1..n -> Tracks] /\ Durs(q, n) \in [1..n -> Int]
         /\ \A i \in 1..n : /\ q[i].ts = Times(ev, n)[i] /\ Track(q[i]) = Sides(ev, n)[i] /\ q[i].dur = Durs(q, n)[i]
                            /\ q[i].ts \in Int /\ q[i].dur \in Int
<1>1. \A i \in 1..n : /\ q[i].ts = ev[i].ts /\ q[i].kind = ev[i].kind /\ q[i].ts \in Int /\ q[i].dur \in Int
  BY KinHas DEF HasTimes
<1>2. \A i \in 1..n : Track(q[i]) = Track(ev[i]) /\ Track(ev[i]) \in Tracks
  BY <1>1 DEF Track, Tracks
<1> QED
  BY <1>1, <1>2 DEF Times, Sides, Durs

LEMMA FieldSetOf ==
  ASSUME NEW e, IsTimed(e), NEW v \in Int
  PROVE  /\ [e EXCEPT !.dur = v].dur = v /\ [e EXCEPT !.dur = v].ended = e.ended
         /\ [e EXCEPT !.ended = TRUE].dur = e.dur /\ [e EXCEPT !.ended = TRUE].ended = TRUE
         /\ [e EXCEPT !.dur = v].parent = e.parent /\ [e EXCEPT !.ended = TRUE].parent = e.parent
         /\ IsTimed([e EXCEPT !.dur = v])
<1>1. PICK d, c : d = [e EXCEPT !["dur"] = v] /\ c = [e EXCEPT !["ended"] = TRUE]
  OBVIOUS
<1>2. "dur" \in EventFields /\ "ended" \in EventFields /\ "parent" \in EventFields
  BY DEF EventFields
<1>3. SetsField(d, e, "dur", v) /\ SetsField(c, e, "ended", TRUE)
  BY <1>1, <1>2, FieldSet
<1>4. /\ d["dur"] = v /\ d["ended"] = e["ended"] /\ c["dur"] = e["dur"] /\ c["ended"] = TRUE
      /\ d["parent"] = e["parent"] /\ c["parent"] = e["parent"]
  BY <1>2, <1>3 DEF SetsField
<1>5. IsTimed(d)
  BY <1>3 DEF SetsField
<1> QED
  BY <1>1, <1>4, <1>5, Zenon

PairOpens(acc, r, x, t) ==
  /\ r.events = acc.events /\ r.open = [acc.open EXCEPT ![t] = Append(@, x)]
  /\ r.within = [acc.within EXCEPT ![x] = IF acc.open[t] = <<>> THEN None ELSE Last(acc.open[t])]
PairCloses(acc, r, x, t, n) ==
  /\ acc.open[t] # <<>> /\ r.open = [acc.open EXCEPT ![t] = Front(@)] /\ r.within = acc.within
  /\ \A j \in 1..n :
       /\ r.events[j].dur = IF j = Last(acc.open[t]) THEN Max({0, acc.events[x].ts - acc.events[j].ts}) ELSE acc.events[j].dur
       /\ r.events[j].ended = IF j = x THEN TRUE ELSE acc.events[j].ended
       /\ r.events[j].parent = acc.events[j].parent
       /\ j # x /\ j # Last(acc.open[t]) => r.events[j] = acc.events[j]

LEMMA PairOneIs ==
  ASSUME NEW n \in Nat, NEW ev, DOMAIN ev = 1..n, AreTimed(ev), NEW acc \in Pairing(ev), NEW i \in 1..n,
         NEW r, r = PairOne(acc, i), NEW t, t = Track(acc.events[i])
  PROVE  \/ acc.events[i].ph = "B" /\ PairOpens(acc, r, i, t)
         \/ acc.events[i].ph = "E" /\ PairCloses(acc, r, i, t, n)
         \/ acc.events[i].ph # "B" /\ r = acc
<1>1. acc.events \in Kin(ev) /\ acc.open \in [Tracks -> Seq(1..n)] /\ acc.within \in [1..n -> 1..n \cup {None}]
  BY DEF Pairing
<1>2. acc = [events |-> acc.events, open |-> acc.open, within |-> acc.within]
  BY DEF Pairing
<1>3. PICK e, open : e = acc.events[i] /\ open = acc.open[t]
  OBVIOUS
<1>4. t \in Tracks /\ open \in Seq(1..n)
  BY <1>1, <1>3 DEF Track, Tracks
<1>6. CASE e.ph = "B"
  <2>1. PICK w : w = IF open = <<>> THEN None ELSE Last(open)
    OBVIOUS
  <2>2. r = [acc EXCEPT !.open[t] = Append(@, i), !.within[i] = w]
    BY <1>3, <1>6, <2>1 DEF PairOne
  <2>3. r = [events |-> acc.events, open |-> [acc.open EXCEPT ![t] = Append(@, i)], within |-> [acc.within EXCEPT ![i] = w]]
    BY <1>2, <2>2
  <2> QED
    BY <1>3, <1>6, <2>1, <2>3 DEF PairOpens
<1>7. CASE e.ph # "B" /\ e.ph = "E" /\ open # <<>>
  <2>1. PICK b, d : b = Last(open) /\ d = Max({0, e.ts - acc.events[b].ts})
    OBVIOUS
  <2>2. b \in 1..n
    BY <1>4, <1>7, <2>1, FrontLast
  <2>3. \A j \in 1..n : IsTimed(acc.events[j]) /\ acc.events[j].ts \in Int
    BY <1>1, KinHas DEF HasTimes
  <2>4. d \in Int
    <3>1. 0 \in Int /\ e.ts - acc.events[b].ts \in Int
      BY <1>3, <2>2, <2>3
    <3> QED
      BY <2>1, <3>1, MaxOfTwo
  <2>5. PICK one, two : one = [acc.events EXCEPT ![b] = [acc.events[b] EXCEPT !.dur = d]] /\ two = [one EXCEPT ![i] = [one[i] EXCEPT !.ended = TRUE]]
    OBVIOUS
  <2>6. acc.events = [j \in 1..n |-> acc.events[j]]
    BY <1>1 DEF Kin
  <2>7. \A j \in 1..n : one[j] = IF j = b THEN [acc.events[b] EXCEPT !.dur = d] ELSE acc.events[j]
    BY <2>2, <2>5, <2>6
  <2>8. one = [j \in 1..n |-> one[j]]
    BY <2>5, <2>6
  <2>9. \A j \in 1..n : two[j] = IF j = i THEN [one[i] EXCEPT !.ended = TRUE] ELSE one[j]
    BY <2>5, <2>8
  <2>10. ASSUME NEW j \in 1..n
         PROVE  /\ IsTimed(one[j]) /\ one[j].dur = (IF j = b THEN d ELSE acc.events[j].dur) /\ one[j].ended = acc.events[j].ended
                /\ one[j].parent = acc.events[j].parent
    <3>1. PICK c : c = acc.events[b]
      OBVIOUS
    <3>2. IsTimed(c)
      BY <2>2, <2>3, <3>1
    <3>3. /\ [c EXCEPT !.dur = d].dur = d /\ [c EXCEPT !.dur = d].ended = c.ended /\ IsTimed([c EXCEPT !.dur = d])
          /\ [c EXCEPT !.dur = d].parent = c.parent
      BY <2>4, <3>2, FieldSetOf
    <3> QED
      BY <2>3, <2>7, <3>1, <3>3
  <2>11. ASSUME NEW j \in 1..n
         PROVE  two[j].dur = one[j].dur /\ two[j].parent = one[j].parent /\ two[j].ended = IF j = i THEN TRUE ELSE one[j].ended
    <3>1. PICK c : c = one[i]
      OBVIOUS
    <3>2. IsTimed(c)
      BY <2>10, <3>1
    <3>3. [c EXCEPT !.ended = TRUE].dur = c.dur /\ [c EXCEPT !.ended = TRUE].ended = TRUE /\ [c EXCEPT !.ended = TRUE].parent = c.parent
      BY <2>4, <3>2, FieldSetOf
    <3> QED
      BY <2>9, <3>1, <3>3
  <2>12. r = [acc EXCEPT !.open[t] = Front(@), !.events[b].dur = d, !.events[i].ended = TRUE]
    BY <1>3, <1>7, <2>1 DEF PairOne
  <2>13. r = [events |-> [[acc.events EXCEPT ![b].dur = d] EXCEPT ![i].ended = TRUE],
              open |-> [acc.open EXCEPT ![t] = Front(@)], within |-> acc.within]
    BY <1>2, <2>12, ZenonT(40)
  <2>14. r = [events |-> two, open |-> [acc.open EXCEPT ![t] = Front(@)], within |-> acc.within]
    BY <2>5, <2>13
  <2>15. r.events = two /\ r.open = [acc.open EXCEPT ![t] = Front(@)] /\ r.within = acc.within
    BY <2>14
  <2>16. \A j \in 1..n : j = Last(open) => d = Max({0, acc.events[i].ts - acc.events[j].ts})
    BY <1>3, <2>1
  <2>17. ASSUME NEW j \in 1..n
         PROVE  /\ r.events[j].dur = IF j = Last(acc.open[t]) THEN Max({0, acc.events[i].ts - acc.events[j].ts}) ELSE acc.events[j].dur
                /\ r.events[j].ended = IF j = i THEN TRUE ELSE acc.events[j].ended
                /\ r.events[j].parent = acc.events[j].parent
                /\ j # i /\ j # Last(acc.open[t]) => r.events[j] = acc.events[j]
    <3>1. r.events[j] = two[j] /\ (j = Last(acc.open[t]) <=> j = b)
      BY <1>3, <2>1, <2>15
    <3>4. j # i /\ j # b => two[j] = acc.events[j]
      BY <2>7, <2>9
    <3>2. /\ two[j].dur = (IF j = b THEN d ELSE acc.events[j].dur) /\ two[j].ended = IF j = i THEN TRUE ELSE acc.events[j].ended
          /\ two[j].parent = acc.events[j].parent
      BY <2>10, <2>11
    <3>3. j = b => d = Max({0, acc.events[i].ts - acc.events[j].ts})
      BY <1>3, <2>1
    <3> QED
      BY <3>1, <3>2, <3>3, <3>4
  <2>18. acc.open[t] # <<>> /\ e.ph = "E" /\ e = acc.events[i]
    BY <1>3, <1>7, SMTT(30)
  <2> QED
    BY <2>15, <2>17, <2>18 DEF PairCloses
<1>8. CASE e.ph # "B" /\ ~(e.ph = "E" /\ open # <<>>)
  BY <1>3, <1>8 DEF PairOne
<1> QED
  BY <1>3, <1>6, <1>7, <1>8

\* What holds between two steps: C are the B events read, R those of the thread M
\* that are not.
PairHolds(acc, T, K, C, n, now) ==
  /\ PairsNest(Durs(acc.events, n), acc.within, OpenNow(n, acc.open, K), T, K, C, now)
  /\ StacksRise(acc.open, T, K, C)
  /\ \A i \in (1..n) \ C : acc.within[i] = None
EndsAre(acc, K, M, t) == {i \in M : acc.events[i].ended /\ K[i] = t}
PairCount(acc, K, C, M, R) ==
  /\ \A t \in Tracks : Cardinality({i \in C : K[i] = t}) = Cardinality(EndsAre(acc, K, M, t)) + Len(acc.open[t])
  /\ \A i \in M : acc.events[i].ended => acc.events[i].ph = "E" /\ i \notin R

LEMMA PairStep ==
  ASSUME NEW n \in Nat, NEW ev, DOMAIN ev = 1..n, AreTimed(ev), NEW acc \in Pairing(ev), NEW x \in 1..n,
         NEW T, T = Times(ev, n), NEW K, K = Sides(ev, n), NEW C \in SUBSET (1..n), NEW now \in Int,
         PairHolds(acc, T, K, C, n, now), x \notin C, \A a \in C : Earlier(T, a, x), T[x] >= now
  PROVE  PairHolds(PairOne(acc, x), T, K, IF ev[x].ph = "B" THEN C \cup {x} ELSE C, n, T[x])
<1>1. PICK r, t, D, W, Q : /\ r = PairOne(acc, x) /\ t = Track(acc.events[x]) /\ D = Durs(acc.events, n)
                           /\ W = acc.within /\ Q = OpenNow(n, acc.open, K)
  OBVIOUS
<1>2. acc.events \in Kin(ev) /\ acc.open \in [Tracks -> Seq(1..n)] /\ W \in [1..n -> 0..n]
  <2>1. 1..n \cup {None} = 0..n
    BY DEF None
  <2> QED
    BY <1>1, <2>1 DEF Pairing
<1>13. PICK q : q = acc.events
  OBVIOUS
<1>14. /\ Times(ev, n) \in [1..n -> Int] /\ Sides(ev, n) \in [1..n -> Tracks] /\ Durs(q, n) \in [1..n -> Int]
       /\ \A i \in 1..n : /\ q[i].ts = Times(ev, n)[i] /\ Track(q[i]) = Sides(ev, n)[i] /\ q[i].dur = Durs(q, n)[i]
  BY <1>2, <1>13, SidesAre, SMTT(30)
<1>3. /\ T \in [1..n -> Int] /\ K \in [1..n -> Tracks] /\ D \in [1..n -> Int]
      /\ \A i \in 1..n : /\ acc.events[i].ts = T[i] /\ Track(acc.events[i]) = K[i] /\ acc.events[i].dur = D[i]
  BY <1>1, <1>13, <1>14
<1>15. \A i \in 1..n : q[i].ph = ev[i].ph
  BY <1>2, <1>13, KinHas
<1>4. t = K[x] /\ t \in Tracks /\ T[x] \in Int /\ acc.events[x].ph = ev[x].ph
  BY <1>1, <1>3, <1>13, <1>15
<1>5. PairTypes(n, D, W, T, C, now) /\ OpenTypes(n, acc.open, K, C)
  BY <1>2, <1>3 DEF PairTypes, OpenTypes
<1>6. PairsNest(D, W, Q, T, K, C, now) /\ StacksRise(acc.open, T, K, C) /\ \A i \in (1..n) \ C : W[i] = None
  BY <1>1 DEF PairHolds
<1>7. PICK w : w = IF acc.open[t] = <<>> THEN None ELSE Last(acc.open[t])
  OBVIOUS
<1>8. LastOpen(w, Q, T, K, t) /\ w \in 0..n
  BY <1>1, <1>4, <1>5, <1>6, <1>7, LastIsLast
<1>9. CASE ev[x].ph = "B" /\ PairOpens(acc, r, x, t)
  <2>1. r.events = acc.events /\ r.open = [acc.open EXCEPT ![K[x]] = Append(@, x)] /\ r.within = [W EXCEPT ![x] = w]
    BY <1>1, <1>4, <1>7, <1>9 DEF PairOpens
  <2>2. OpenNow(n, r.open, K) = Q \cup {x} /\ StacksRise(r.open, T, K, C \cup {x})
    <3>1. r.open = PushedOn(acc.open, t, x)
      BY <1>4, <2>1 DEF PushedOn
    <3>2. /\ OpenNow(n, PushedOn(acc.open, t, x), K) = OpenNow(n, acc.open, K) \cup {x}
          /\ StacksRise(PushedOn(acc.open, t, x), T, K, C \cup {x})
      <4>1. PICK open : open = acc.open
        OBVIOUS
      <4>2. OpenTypes(n, open, K, C) /\ StacksRise(open, T, K, C)
        BY <1>5, <1>6, <4>1
      <4>3. /\ OpenNow(n, PushedOn(open, t, x), K) = OpenNow(n, open, K) \cup {x}
            /\ StacksRise(PushedOn(open, t, x), T, K, C \cup {x})
        <5>1. After(T, C, x)
          BY DEF After
        <5>2. IsPushed(n, open, T, K, C, x)
          BY <4>2, <5>1, StackPushed
        <5> QED
          BY <1>4, <5>2 DEF IsPushed
      <4> QED
        BY <4>1, <4>3
    <3> QED
      BY <1>1, <3>1, <3>2
  <2>3. PairsNest(D, [W EXCEPT ![x] = w], Q \cup {x}, T, K, C \cup {x}, T[x])
    BY <1>4, <1>5, <1>6, <1>8, PairOpened
  <2>4. \A i \in (1..n) \ (C \cup {x}) : r.within[i] = None
    BY <1>2, <1>6, <2>1
  <2>5. PairHolds(r, T, K, C \cup {x}, n, T[x])
    BY <1>1, <2>1, <2>2, <2>3, <2>4 DEF PairHolds
  <2> QED
    BY <1>1, <1>9, <2>5
<1>10. CASE ev[x].ph # "B" /\ PairCloses(acc, r, x, t, n)
  <2>1. PICK y, L : y = Last(acc.open[t]) /\ L = [D EXCEPT ![y] = T[x] - T[y]]
    OBVIOUS
  <2>2. acc.open[t] # <<>> /\ r.open = [acc.open EXCEPT ![t] = Front(@)] /\ r.within = W
    BY <1>1, <1>10 DEF PairCloses
  <2>3. y \in Q /\ K[y] = t /\ LastOpen(y, Q, T, K, K[y]) /\ y \in C /\ y \in 1..n
    <3>1. w = y /\ acc.open[t] \in Seq(1..n)
      BY <1>2, <1>4, <1>7, <2>1, <2>2
    <3>2. y \in 1..n
      BY <2>1, <2>2, <3>1, FrontLast
    <3>3. y \in Q /\ K[y] = t
      BY <1>8, <3>1, <3>2 DEF LastOpen, None
    <3> QED
      BY <1>6, <1>8, <3>1, <3>2, <3>3 DEF PairsNest
  <2>4. T[y] \in Int /\ T[x] >= T[y]
    BY <1>3, <1>4, <2>3, SMTT(30) DEF Earlier
  <2>5. PairsNest(L, W, Q \ {y}, T, K, C, T[x])
    BY <1>4, <1>5, <1>6, <2>1, <2>3, <2>4, PairClosed
  <2>6. OpenNow(n, r.open, K) = Q \ {y} /\ StacksRise(r.open, T, K, C)
    <3>1. r.open = Shrunk(acc.open, t)
      BY <2>2 DEF Shrunk
    <3>2. /\ OpenNow(n, Shrunk(acc.open, t), K) = OpenNow(n, acc.open, K) \ {Last(acc.open[t])}
          /\ StacksRise(Shrunk(acc.open, t), T, K, C)
      <4>1. PICK open : open = acc.open
        OBVIOUS
      <4>2. OpenTypes(n, open, K, C) /\ StacksRise(open, T, K, C) /\ open[t] # <<>> /\ T \in [1..n -> Int]
        BY <1>3, <1>5, <1>6, <2>2, <4>1
      <4>3. /\ OpenNow(n, Shrunk(open, t), K) = OpenNow(n, open, K) \ {Last(open[t])}
            /\ StacksRise(Shrunk(open, t), T, K, C)
        BY <1>4, <4>2, StackPopped
      <4> QED
        BY <4>1, <4>3
    <3> QED
      BY <1>1, <2>1, <3>1, <3>2
  <2>7. Durs(r.events, n) = L
    <3>1. Max({0, T[x] - T[y]}) = T[x] - T[y]
      <4>1. T[x] - T[y] \in Int /\ T[x] - T[y] >= 0
        BY <1>4, <2>4
      <4>2. PICK c : c = T[x] - T[y]
        OBVIOUS
      <4>4. c \in Int /\ c >= 0 /\ 0 \in Int
        BY <4>1, <4>2
      <4>3. Max({0, c}) >= c /\ Max({0, c}) \in {0, c}
        BY <4>4, MaxOfTwo
      <4> QED
        BY <4>2, <4>3, <4>4
    <3>2. ASSUME NEW j \in 1..n PROVE r.events[j].dur = L[j]
      <4>1. r.events[j].dur = IF j = y THEN Max({0, acc.events[x].ts - acc.events[j].ts}) ELSE acc.events[j].dur
        BY <1>10, <2>1 DEF PairCloses
      <4> QED
        BY <1>3, <2>1, <3>1, <4>1
    <3>3. Durs(r.events, n) = [j \in 1..n |-> L[j]]
      BY <3>2 DEF Durs
    <3> QED
      BY <1>3, <2>1, <3>3
  <2>8. PairHolds(r, T, K, C, n, T[x])
    BY <1>6, <2>2, <2>5, <2>6, <2>7 DEF PairHolds
  <2> QED
    BY <1>1, <1>10, <2>8
<1>11. CASE ev[x].ph # "B" /\ r = acc
  <2>1. PairsNest(D, W, Q, T, K, C, T[x])
    BY <1>4, <1>5, <1>6, PairWaits
  <2>2. PairHolds(acc, T, K, C, n, T[x])
    BY <1>1, <1>6, <2>1 DEF PairHolds
  <2> QED
    BY <1>1, <1>11, <2>2
<1>12. \/ ev[x].ph = "B" /\ PairOpens(acc, r, x, t)
       \/ ev[x].ph = "E" /\ PairCloses(acc, r, x, t, n)
       \/ ev[x].ph # "B" /\ r = acc
  <2>1. \/ acc.events[x].ph = "B" /\ PairOpens(acc, r, x, t)
        \/ acc.events[x].ph = "E" /\ PairCloses(acc, r, x, t, n)
        \/ acc.events[x].ph # "B" /\ r = acc
    BY <1>1, PairOneIs
  <2> QED
    BY <1>4, <2>1
<1> QED
  BY <1>9, <1>10, <1>11, <1>12

LEMMA PairCounted ==
  ASSUME NEW n \in Nat, NEW ev, DOMAIN ev = 1..n, AreTimed(ev), NEW acc \in Pairing(ev), NEW x \in 1..n,
         NEW K, K = Sides(ev, n), NEW C \in SUBSET (1..n), x \notin C,
         NEW M \in SUBSET (1..n), NEW R, x \in M, x \in R, PairCount(acc, K, C, M, R)
  PROVE  PairCount(PairOne(acc, x), K, IF ev[x].ph = "B" THEN C \cup {x} ELSE C, M, R \ {x})
<1>1. PICK r, t : r = PairOne(acc, x) /\ t = Track(acc.events[x])
  OBVIOUS
<1>2. acc.events \in Kin(ev) /\ acc.open \in [Tracks -> Seq(1..n)] /\ r \in Pairing(ev) /\ r.events \in Kin(ev)
  BY <1>1, PairKeeps DEF Pairing
<1>4. \A i \in 1..n : r.events[i].ph = ev[i].ph /\ acc.events[i].ph = ev[i].ph
  BY <1>2, KinHas
<1>3. t = K[x] /\ t \in Tracks /\ acc.events[x].ph = ev[x].ph
  <2>1. PICK q : q = acc.events
    OBVIOUS
  <2>2. K \in [1..n -> Tracks] /\ \A i \in 1..n : Track(q[i]) = K[i]
    <3>1. Sides(ev, n) \in [1..n -> Tracks] /\ \A i \in 1..n : Track(q[i]) = Sides(ev, n)[i]
      BY <1>2, <2>1, SidesAre
    <3> QED
      BY <3>1
  <2> QED
    BY <1>1, <1>4, <2>1, <2>2
<1>5. /\ \A u \in Tracks : Cardinality({i \in C : K[i] = u}) = Cardinality(EndsAre(acc, K, M, u)) + Len(acc.open[u])
      /\ \A i \in M : acc.events[i].ended => acc.events[i].ph = "E" /\ i \notin R
  BY DEF PairCount
<1>6. \A S \in SUBSET (1..n) : IsFiniteSet(S) /\ Cardinality(S) \in Nat
  <2>1. IsFiniteSet(1..n)
    BY FS_Interval
  <2>2. \A S \in SUBSET (1..n) : IsFiniteSet(S)
    BY <2>1, FS_Subset
  <2> QED
    BY <2>2, FS_CardinalityType
<1>7. CASE ev[x].ph = "B" /\ PairOpens(acc, r, x, t)
  <2>1. r.events = acc.events /\ r.open = [acc.open EXCEPT ![t] = Append(@, x)]
    BY <1>7 DEF PairOpens
  <2>2. ASSUME NEW u \in Tracks
        PROVE  Cardinality({i \in C \cup {x} : K[i] = u}) = Cardinality(EndsAre(r, K, M, u)) + Len(r.open[u])
    <3>1. EndsAre(r, K, M, u) = EndsAre(acc, K, M, u)
      BY <2>1 DEF EndsAre
    <3>2. PICK S : S = {i \in C : K[i] = u}
      OBVIOUS
    <3>3. S \in SUBSET (1..n) /\ x \notin S
      BY <3>2
    <3>4. CASE u = t
      <4>1. {i \in C \cup {x} : K[i] = u} = S \cup {x}
        BY <1>3, <3>2, <3>4
      <4>2. Cardinality(S \cup {x}) = Cardinality(S) + 1
        BY <1>6, <3>3, FS_AddElement
      <4>3. Len(r.open[u]) = Len(acc.open[u]) + 1 /\ Len(acc.open[u]) \in Nat
        BY <1>2, <2>1, <3>4
      <4>4. EndsAre(acc, K, M, u) \in SUBSET (1..n)
        BY DEF EndsAre
      <4>5. Cardinality(S) = Cardinality(EndsAre(acc, K, M, u)) + Len(acc.open[u])
        BY <1>5, <3>2
      <4>6. Cardinality(S) \in Nat /\ Cardinality(EndsAre(acc, K, M, u)) \in Nat
        BY <1>6, <3>3, <4>4
      <4>7. Cardinality({i \in C \cup {x} : K[i] = u}) = Cardinality(S) + 1
        BY <4>1, <4>2
      <4>8. Cardinality(EndsAre(r, K, M, u)) = Cardinality(EndsAre(acc, K, M, u))
        BY <3>1
      <4> QED
        BY <4>3, <4>5, <4>6, <4>7, <4>8
    <3>5. CASE u # t
      <4>1. {i \in C \cup {x} : K[i] = u} = S
        BY <1>3, <3>2, <3>5
      <4>2. r.open[u] = acc.open[u]
        BY <1>2, <2>1, <3>5
      <4> QED
        BY <1>5, <3>1, <3>2, <4>1, <4>2
    <3> QED
      BY <3>4, <3>5
  <2> QED
    BY <1>1, <1>4, <1>5, <1>7, <2>1, <2>2 DEF PairCount
<1>8. CASE ev[x].ph = "E" /\ PairCloses(acc, r, x, t, n)
  <2>1. acc.open[t] # <<>> /\ r.open = [acc.open EXCEPT ![t] = Front(@)]
    BY <1>8 DEF PairCloses
  <2>2. \A i \in 1..n : r.events[i].ended = IF i = x THEN TRUE ELSE acc.events[i].ended
    BY <1>8 DEF PairCloses
  <2>3. ASSUME NEW u \in Tracks
        PROVE  Cardinality({i \in C : K[i] = u}) = Cardinality(EndsAre(r, K, M, u)) + Len(r.open[u])
    <3>1. PICK S : S = EndsAre(acc, K, M, u)
      OBVIOUS
    <3>2. S \in SUBSET (1..n) /\ x \notin S
      BY <1>5, <3>1 DEF EndsAre
    <3>3. CASE u = t
      <4>1. EndsAre(r, K, M, u) = S \cup {x}
        BY <1>3, <2>2, <3>1, <3>3 DEF EndsAre
      <4>2. Cardinality(S \cup {x}) = Cardinality(S) + 1
        BY <1>6, <3>2, FS_AddElement
      <4>3. acc.open[u] \in Seq(1..n) /\ acc.open[u] # <<>>
        BY <1>2, <2>1, <3>3
      <4>4. Len(r.open[u]) = Len(acc.open[u]) - 1 /\ Len(acc.open[u]) \in Nat
        <5>1. r.open[u] = Front(acc.open[u])
          BY <1>2, <2>1, <3>3
        <5>2. Len(Front(acc.open[u])) = Len(acc.open[u]) - 1
          BY <4>3, FrontLast
        <5> QED
          BY <4>3, <5>1, <5>2
      <4>5. Cardinality({i \in C : K[i] = u}) = Cardinality(S) + Len(acc.open[u])
        BY <1>5, <3>1
      <4>6. Cardinality(S) \in Nat
        BY <1>6, <3>2
      <4> QED
        BY <4>1, <4>2, <4>4, <4>5, <4>6, SMTT(30)
    <3>4. CASE u # t
      <4>1. EndsAre(r, K, M, u) = S
        BY <1>3, <2>2, <3>1, <3>4 DEF EndsAre
      <4>2. r.open[u] = acc.open[u]
        BY <1>2, <2>1, <3>4
      <4> QED
        BY <1>5, <3>1, <4>1, <4>2
    <3> QED
      BY <3>3, <3>4
  <2>4. \A i \in M : r.events[i].ended => r.events[i].ph = "E" /\ i \notin R \ {x}
    BY <1>4, <1>5, <1>8, <2>2
  <2> QED
    BY <1>1, <1>8, <2>3, <2>4 DEF PairCount
<1>9. CASE ev[x].ph # "B" /\ r = acc
  BY <1>1, <1>5, <1>9 DEF PairCount
<1>10. \/ ev[x].ph = "B" /\ PairOpens(acc, r, x, t)
       \/ ev[x].ph = "E" /\ PairCloses(acc, r, x, t, n)
       \/ ev[x].ph # "B" /\ r = acc
  <2>1. \/ acc.events[x].ph = "B" /\ PairOpens(acc, r, x, t)
        \/ acc.events[x].ph = "E" /\ PairCloses(acc, r, x, t, n)
        \/ acc.events[x].ph # "B" /\ r = acc
    BY <1>1, PairOneIs
  <2> QED
    BY <1>3, <2>1
<1> QED
  BY <1>7, <1>8, <1>9, <1>10

\* Only the events of the thread are changed, and no parents.
Untouched(q, ev, M, n) == \A j \in (1..n) \ M : q[j] = ev[j]
SameParents(q, ev, n) == \A j \in 1..n : q[j].parent = ev[j].parent

LEMMA PairTouches ==
  ASSUME NEW n \in Nat, NEW ev, DOMAIN ev = 1..n, AreTimed(ev), NEW acc \in Pairing(ev), NEW x \in 1..n,
         NEW T, NEW K, K = Sides(ev, n), NEW C, NEW now, PairHolds(acc, T, K, C, n, now),
         NEW M, x \in M, C \subseteq M, NEW q, Untouched(acc.events, q, M, n), SameParents(acc.events, q, n)
  PROVE  Untouched(PairOne(acc, x).events, q, M, n) /\ SameParents(PairOne(acc, x).events, q, n)
<1>1. PICK r, t : r = PairOne(acc, x) /\ t = Track(acc.events[x])
  OBVIOUS
<1>2. t \in Tracks /\ acc.open \in [Tracks -> Seq(1..n)]
  BY <1>1 DEF Track, Tracks, Pairing
<1>3. acc.open[t] # <<>> => Last(acc.open[t]) \in M
  <2> HAVE acc.open[t] # <<>>
  <2>1. PICK s : s = acc.open[t]
    OBVIOUS
  <2>2. s \in Seq(1..n) /\ s # <<>>
    BY <1>2, <2>1
  <2>3. Len(s) \in 1..Len(s) /\ Last(s) = s[Len(s)]
    BY <2>2 DEF Last
  <2>4. StacksRise(acc.open, T, K, C)
    BY DEF PairHolds
  <2>5. s[Len(s)] \in C
    BY <1>2, <2>1, <2>3, <2>4 DEF StacksRise
  <2> QED
    BY <2>1, <2>3, <2>5
<1>4. \/ acc.events[x].ph = "B" /\ PairOpens(acc, r, x, t)
      \/ acc.events[x].ph = "E" /\ PairCloses(acc, r, x, t, n)
      \/ acc.events[x].ph # "B" /\ r = acc
  BY <1>1, PairOneIs
<1>5. CASE PairCloses(acc, r, x, t, n)
  <2>1. acc.open[t] # <<>> /\ \A j \in 1..n : j # x /\ j # Last(acc.open[t]) => r.events[j] = acc.events[j]
    BY <1>5 DEF PairCloses
  <2>2. \A j \in 1..n : r.events[j].parent = acc.events[j].parent
    BY <1>5 DEF PairCloses
  <2> QED
    BY <1>1, <1>3, <2>1, <2>2 DEF Untouched, SameParents
<1>6. CASE r.events = acc.events
  BY <1>1, <1>6
<1> QED
  BY <1>4, <1>5, <1>6 DEF PairOpens

\* The B events among the first k of a sequence, and what comes after them.
BeginsUpTo(ev, order, k) == {order[j] : j \in {a \in 1..k : ev[order[a]].ph = "B"}}
RestOf(order, k, m) == {order[j] : j \in k + 1..m}

LEMMA PairedIs ==
  ASSUME NEW n \in Nat, NEW ev, DOMAIN ev = 1..n, AreTimed(ev), ev \in Kin(ev), NEW th,
         \A i \in OfThread(ev, th) : ~ev[i].ended,
         NEW acc, acc = Paired(ev, th), NEW M, M = OfThread(ev, th), NEW C, C = {i \in M : ev[i].ph = "B"},
         NEW T, T = Times(ev, n), NEW K, K = Sides(ev, n)
  PROVE  /\ acc \in Pairing(ev) /\ \E now \in Int : PairHolds(acc, T, K, C, n, now)
         /\ PairCount(acc, K, C, M, {}) /\ Untouched(acc.events, ev, M, n) /\ SameParents(acc.events, ev, n)
<1>1. PICK order : order = PairOrder(ev, th)
  OBVIOUS
<1>2. order \in Seq(1..n) /\ Sorts(order, M, {p \in M \X M : PairBefore(ev, p[1], p[2])})
  BY <1>1, PairOrderSorts DEF PairSorts
<1>3. PICK m \in Nat : m = Len(order)
  BY <1>2
<1>4. /\ \A k \in 1..m : order[k] \in M /\ order[k] \in 1..n
      /\ \A x \in M : \E k \in 1..m : order[k] = x
      /\ \A j, k \in 1..m : j < k => PairBefore(ev, order[j], order[k])
  <2>1. order \in Seq(M)
    BY <1>2 DEF Sorts
  <2>2. \A k \in 1..m : order[k] \in M
    BY <1>3, <2>1
  <2>3. \A i \in M : i \in 1..n
    BY DEF OfThread
  <2>4. ASSUME NEW j \in 1..m, NEW k \in 1..m, j < k PROVE PairBefore(ev, order[j], order[k])
    <3>1. <<order[j], order[k]>> \in {p \in M \X M : PairBefore(ev, p[1], p[2])}
      BY <1>2, <1>3, <2>4 DEF Sorts
    <3> QED
      BY <3>1
  <2>5. \A x \in M : \E k \in 1..m : order[k] = x
    BY <1>2, <1>3 DEF Sorts
  <2> QED
    BY <2>2, <2>3, <2>4, <2>5
<1>5. T \in [1..n -> Int] /\ K \in [1..n -> Tracks] /\ \A i \in 1..n : ev[i].ts = T[i]
  BY SidesAre
<1>6. \A j, k \in 1..m : j < k => Earlier(T, order[j], order[k]) /\ order[j] # order[k] /\ T[order[j]] <= T[order[k]]
  <2> TAKE j \in 1..m, k \in 1..m
  <2> HAVE j < k
  <2>1. PICK a, b : a = order[j] /\ b = order[k]
    OBVIOUS
  <2>2. a \in 1..n /\ b \in 1..n /\ PairBefore(ev, a, b)
    BY <1>4, <2>1
  <2>3. T[a] \in Int /\ T[b] \in Int /\ ev[a].ts = T[a] /\ ev[b].ts = T[b]
    BY <1>5, <2>2
  <2> QED
    BY <2>1, <2>2, <2>3 DEF PairBefore, Earlier
<1>7. PICK g : PairSteps(g, ev, order, m) /\ acc = g[m] /\ \A k \in 0..m : g[k] \in Pairing(ev)
  BY <1>1, <1>3, PairedFolds
<1> DEFINE Bs(k) == BeginsUpTo(ev, order, k)
           Rest(k) == RestOf(order, k, m)
           HoldsAt(k) == \E now \in Int : PairHolds(g[k], T, K, Bs(k), n, now) /\ \A j \in k + 1..m : T[order[j]] >= now
           Fine == {k \in 0..m : /\ HoldsAt(k) /\ PairCount(g[k], K, Bs(k), M, Rest(k))
                                 /\ Untouched(g[k].events, ev, M, n) /\ SameParents(g[k].events, ev, n)}
<1>8. g[0] = PairBase(ev)
  BY <1>7 DEF PairSteps
<1>9. Bs(0) = {}
  BY DEF BeginsUpTo
<1>10. M \in SUBSET (1..n)
  BY DEF OfThread
<1>11. 0 \in Fine
  <2>1. g[0].open = NoOpen /\ g[0].within = [i \in 1..n |-> None] /\ g[0].events = ev
    BY <1>8 DEF PairBase
  <2>2. \A t \in Tracks : NoOpen[t] = <<>>
    BY DEF NoOpen, Tracks
  <2>3. OpenNow(n, NoOpen, K) = {}
    BY <1>5, <2>2 DEF OpenNow
  <2>4. StacksRise(NoOpen, T, K, {})
    BY <2>2 DEF StacksRise
  <2>5. \A now \in Int : PairsNest(Durs(ev, n), g[0].within, {}, T, K, {}, now)
    BY DEF PairsNest
  <2>6. \A now \in Int : PairHolds(g[0], T, K, {}, n, now)
    BY <2>1, <2>3, <2>4, <2>5 DEF PairHolds
  <2>7. \E now \in Int : \A j \in 1..m : T[order[j]] >= now
    <3>1. CASE m = 0
      BY <3>1
    <3>2. CASE m # 0
      <4>1. 1 \in 1..m /\ T[order[1]] \in Int
        BY <1>4, <1>5, <3>2
      <4>2. \A j \in 1..m : T[order[j]] >= T[order[1]]
        <5> TAKE j \in 1..m
        <5>1. j = 1 \/ 1 < j
          OBVIOUS
        <5>2. T[order[j]] \in Int
          BY <1>4, <1>5
        <5> QED
          BY <1>6, <4>1, <5>1, <5>2
      <4> QED
        BY <4>1, <4>2
    <3> QED
      BY <3>1, <3>2
  <2>8. HoldsAt(0)
    <3>1. 0 + 1 = 1
      OBVIOUS
    <3> QED
      BY <1>9, <2>6, <2>7, <3>1
  <2>9. PairCount(g[0], K, {}, M, Rest(0))
    <3>1. ASSUME NEW t \in Tracks
          PROVE  Cardinality({i \in {} : K[i] = t}) = Cardinality(EndsAre(g[0], K, M, t)) + Len(g[0].open[t])
      <4>1. EndsAre(g[0], K, M, t) = {}
        BY <2>1 DEF EndsAre
      <4>2. {i \in {} : K[i] = t} = {}
        OBVIOUS
      <4>3. Len(g[0].open[t]) = 0
        BY <2>1, <2>2
      <4>4. Cardinality({}) = 0
        BY FS_EmptySet
      <4> QED
        BY <4>1, <4>2, <4>3, <4>4
    <3>2. \A i \in M : ~g[0].events[i].ended
      BY <2>1
    <3> QED
      BY <3>1, <3>2 DEF PairCount
  <2>10. 0 \in 0..m
    OBVIOUS
  <2>11. PairCount(g[0], K, Bs(0), M, Rest(0))
    BY <1>9, <2>9
  <2>12. Untouched(g[0].events, ev, M, n) /\ SameParents(g[0].events, ev, n)
    BY <2>1 DEF Untouched, SameParents
  <2> QED
    BY <2>8, <2>10, <2>11, <2>12
<1>12. ASSUME NEW k \in 0..m, k \in Fine, k < m PROVE k + 1 \in Fine
  <2>1. PICK x : x = order[k + 1]
    OBVIOUS
  <2>2. k + 1 \in 1..m /\ k + 1 \in 0..m /\ (k + 1) - 1 = k /\ k + 1 # 0
    BY <1>12
  <2>3. g[k + 1] = PairOne(g[k], x) /\ g[k] \in Pairing(ev) /\ x \in M /\ x \in 1..n
    BY <1>4, <1>7, <2>1, <2>2 DEF PairSteps
  <2>4. PICK now \in Int : PairHolds(g[k], T, K, Bs(k), n, now) /\ \A j \in k + 1..m : T[order[j]] >= now
    BY <1>12
  <2>5. Bs(k) \in SUBSET (1..n) /\ x \notin Bs(k) /\ \A a \in Bs(k) : Earlier(T, a, x)
    <3>1. ASSUME NEW a \in Bs(k) PROVE a \in 1..n /\ a # x /\ Earlier(T, a, x)
      <4>1. PICK j \in 1..k : a = order[j]
        BY DEF BeginsUpTo
      <4>2. j \in 1..m /\ j < k + 1
        BY <2>2
      <4> QED
        BY <1>4, <1>6, <2>1, <2>2, <4>1, <4>2
    <3> QED
      BY <3>1
  <2>6. Bs(k + 1) = IF ev[x].ph = "B" THEN Bs(k) \cup {x} ELSE Bs(k)
    <3>1. \A j \in 1..k + 1 : j \in 1..k \/ j = k + 1
      BY <1>12
    <3>2. \A j \in 1..k : j \in 1..k + 1
      BY <1>12
    <3>3. k + 1 \in 1..k + 1
      BY <1>12
    <3> QED
      BY <2>1, <3>1, <3>2, <3>3 DEF BeginsUpTo
  <2>7. x \in Rest(k) /\ Rest(k + 1) = Rest(k) \ {x}
    <3>1. k + 1 \in k + 1..m
      BY <2>2
    <3>2. \A j \in k + 1..m : j \in 1..m /\ (j = k + 1 \/ j \in k + 1 + 1..m)
      BY <1>12
    <3>3. \A j \in k + 1 + 1..m : j \in k + 1..m /\ j \in 1..m /\ k + 1 < j
      BY <1>12
    <3>4. \A j \in k + 1 + 1..m : order[j] # x
      BY <1>6, <2>1, <2>2, <3>3
    <3> QED
      BY <2>1, <3>1, <3>2, <3>3, <3>4 DEF RestOf
  <2>8. T[x] >= now /\ T[x] \in Int
    <3>1. k + 1 \in k + 1..m
      BY <2>2
    <3> QED
      BY <1>5, <2>1, <2>3, <2>4, <3>1
  <2>9. PairHolds(g[k + 1], T, K, Bs(k + 1), n, T[x])
    <3>1. PICK B : B = Bs(k)
      OBVIOUS
    <3>2. PairHolds(g[k], T, K, B, n, now) /\ B \in SUBSET (1..n) /\ x \notin B /\ \A a \in B : Earlier(T, a, x)
      BY <2>4, <2>5, <3>1
    <3>3. PairHolds(PairOne(g[k], x), T, K, IF ev[x].ph = "B" THEN B \cup {x} ELSE B, n, T[x])
      BY <2>3, <2>8, <3>2, PairStep
    <3> QED
      BY <2>3, <2>6, <3>1, <3>3
  <2>10. \A j \in k + 1 + 1..m : T[order[j]] >= T[x]
    <3> TAKE j \in k + 1 + 1..m
    <3>1. j \in 1..m /\ k + 1 < j
      BY <1>12
    <3>2. T[order[j]] \in Int
      BY <1>4, <1>5, <3>1
    <3> QED
      BY <1>6, <2>1, <2>2, <2>8, <3>1, <3>2
  <2>11. PairCount(g[k + 1], K, Bs(k + 1), M, Rest(k + 1))
    <3>1. PICK B, R : B = Bs(k) /\ R = Rest(k)
      OBVIOUS
    <3>2. PairCount(g[k], K, B, M, R) /\ B \in SUBSET (1..n) /\ x \notin B /\ x \in R
      BY <1>12, <2>5, <2>7, <3>1
    <3>3. PairCount(PairOne(g[k], x), K, IF ev[x].ph = "B" THEN B \cup {x} ELSE B, M, R \ {x})
      BY <1>10, <2>3, <3>2, PairCounted
    <3> QED
      BY <2>3, <2>6, <2>7, <3>1, <3>3
  <2>12. HoldsAt(k + 1)
    BY <2>8, <2>9, <2>10
  <2>13. Untouched(g[k + 1].events, ev, M, n) /\ SameParents(g[k + 1].events, ev, n)
    <3>1. PICK B, acck : B = Bs(k) /\ acck = g[k]
      OBVIOUS
    <3>2. PairHolds(acck, T, K, B, n, now) /\ acck \in Pairing(ev) /\ Untouched(acck.events, ev, M, n) /\ SameParents(acck.events, ev, n)
      BY <1>12, <2>3, <2>4, <3>1
    <3>3. B \subseteq M
      <4>1. \A j \in 1..k : j \in 1..m
        BY <2>2
      <4> QED
        BY <1>4, <3>1, <4>1 DEF BeginsUpTo
    <3>4. Untouched(PairOne(acck, x).events, ev, M, n) /\ SameParents(PairOne(acck, x).events, ev, n)
      BY <2>3, <3>2, <3>3, PairTouches
    <3> QED
      BY <2>3, <3>1, <3>4
  <2> QED
    BY <2>2, <2>11, <2>12, <2>13
<1> HIDE DEF Fine
<1>13. \A k \in 0..m : k \in Fine
  BY <1>11, <1>12, UpTo
<1>14. m \in Fine
  BY <1>13
<1>15. /\ HoldsAt(m) /\ PairCount(g[m], K, Bs(m), M, Rest(m))
       /\ Untouched(g[m].events, ev, M, n) /\ SameParents(g[m].events, ev, n)
  BY <1>14 DEF Fine
<1>16. Bs(m) = C
  BY <1>4 DEF BeginsUpTo
<1>17. Rest(m) = {}
  BY DEF RestOf
<1>18. m \in 0..m
  OBVIOUS
<1> QED
  BY <1>7, <1>15, <1>16, <1>17, <1>18

-----------------------------------------------------------------------------
(* Nesting.  The spans of a thread in the order in which they are nested; P  *)
(* are the parents found, Z the depths.                                      *)
Ahead(T, D, a, b) ==
  \/ T[a] < T[b]
  \/ T[a] = T[b] /\ D[a] > D[b]
  \/ T[a] = T[b] /\ D[a] = D[b] /\ a < b
Covers(T, D, K, a, b) ==
  K[a] = K[b] /\ D[a] > 0 /\ Ahead(T, D, a, b) /\ T[b] < T[a] + D[a] /\ T[b] + D[b] <= T[a] + D[a]

\* The last of the spans S that cover i.
Innermost(T, D, K, S, p, i) ==
  \/ p = None /\ \A a \in S : ~Covers(T, D, K, a, i)
  \/ p \in S /\ Covers(T, D, K, p, i) /\ \A a \in S : Covers(T, D, K, a, i) => a = p \/ Ahead(T, D, a, p)

SpanTypes(n, T, D, K, S) == T \in [1..n -> Int] /\ D \in [1..n -> Int] /\ K \in [1..n -> Tracks] /\ S \in SUBSET (1..n)

\* Spans that do not partly overlap.
NoneCross(T, D, K, S) ==
  \A i, j \in S : K[i] = K[j] /\ T[i] < T[j] + D[j] /\ T[j] < T[i] + D[i] =>
    (T[i] <= T[j] /\ T[j] + D[j] <= T[i] + D[i]) \/ (T[j] <= T[i] /\ T[i] + D[i] <= T[j] + D[j])

LEMMA AheadOrders ==
  ASSUME NEW n \in Nat, NEW T \in [1..n -> Int], NEW D \in [1..n -> Int], NEW a \in 1..n, NEW b \in 1..n, NEW c \in 1..n
  PROVE  /\ ~Ahead(T, D, a, a) /\ (Ahead(T, D, a, b) => ~Ahead(T, D, b, a)) /\ (a = b \/ Ahead(T, D, a, b) \/ Ahead(T, D, b, a))
         /\ Ahead(T, D, a, b) /\ Ahead(T, D, b, c) => Ahead(T, D, a, c)
         /\ Ahead(T, D, a, b) => T[a] <= T[b]
<1>1. T[a] \in Int /\ T[b] \in Int /\ T[c] \in Int /\ D[a] \in Int /\ D[b] \in Int /\ D[c] \in Int /\ a \in Int /\ b \in Int /\ c \in Int
  OBVIOUS
<1>2. Ahead(T, D, a, b) /\ Ahead(T, D, b, c) => Ahead(T, D, a, c)
  BY <1>1 DEF Ahead
<1>3. ~Ahead(T, D, a, a) /\ (Ahead(T, D, a, b) => ~Ahead(T, D, b, a)) /\ (a = b \/ Ahead(T, D, a, b) \/ Ahead(T, D, b, a))
  BY <1>1 DEF Ahead
<1>4. Ahead(T, D, a, b) => T[a] <= T[b]
  BY <1>1 DEF Ahead
<1> QED
  BY <1>2, <1>3, <1>4

LEMMA AheadOn ==
  ASSUME NEW n \in Nat, NEW T \in [1..n -> Int], NEW D \in [1..n -> Int], NEW a \in 1..n, NEW b \in 1..n, NEW c \in 1..n,
         Ahead(T, D, a, b), Ahead(T, D, b, c)
  PROVE  Ahead(T, D, a, c)
BY AheadOrders, ZenonT(40)

\* Of two spans around a third one lies inside the other.
LEMMA CoversNest ==
  ASSUME NEW n \in Nat, NEW T, NEW D, NEW K, NEW S, SpanTypes(n, T, D, K, S), NoneCross(T, D, K, S),
         NEW a \in S, NEW b \in S, NEW x \in 1..n, Covers(T, D, K, a, x), Covers(T, D, K, b, x), Ahead(T, D, a, b)
  PROVE  Covers(T, D, K, a, b)
<1>1. a \in 1..n /\ b \in 1..n /\ \A i \in 1..n : T[i] \in Int /\ D[i] \in Int
  BY DEF SpanTypes
<1>2. K[a] = K[b] /\ D[a] > 0 /\ D[b] > 0 /\ T[x] < T[a] + D[a] /\ T[x] < T[b] + D[b] /\ T[a] <= T[x] /\ T[b] <= T[x]
  BY <1>1 DEF Covers, Ahead
<1>3. T[a] < T[b] + D[b] /\ T[b] < T[a] + D[a]
  BY <1>1, <1>2
<1>4. (T[a] <= T[b] /\ T[b] + D[b] <= T[a] + D[a]) \/ (T[b] <= T[a] /\ T[a] + D[a] <= T[b] + D[b])
  BY <1>2, <1>3 DEF NoneCross
<1>5. T[b] + D[b] <= T[a] + D[a]
  BY <1>1, <1>4 DEF Ahead
<1> QED
  BY <1>2, <1>3, <1>5 DEF Covers

\* The B that was open around a B is ahead of it, and covers it if it lasts.
LEMMA OpenedIsAhead ==
  ASSUME NEW n \in Nat, NEW D, NEW W, NEW T, NEW K, NEW C, NEW now, PairTypes(n, D, W, T, C, now),
         PairsNest(D, W, {}, T, K, C, now), NEW x \in C, W[x] # None
  PROVE  W[x] \in C /\ Ahead(T, D, W[x], x) /\ (D[x] > 0 => Covers(T, D, K, W[x], x))
<1>1. PICK w : w = W[x]
  OBVIOUS
<1>2. w \in C /\ K[w] = K[x] /\ Earlier(T, w, x) /\ T[x] + D[x] <= T[w] + D[w]
  BY <1>1 DEF PairsNest, Inside
<1>3. T[x] \in Int /\ D[x] \in Int /\ T[w] \in Int /\ D[w] \in Int /\ w \in Int /\ x \in Int
  BY <1>2 DEF PairTypes
<1>4. Ahead(T, D, w, x)
  BY <1>2, <1>3 DEF Earlier, Ahead
<1>5. T[w] <= T[x]
  BY <1>2, <1>3 DEF Earlier
<1>6. D[x] > 0 => Covers(T, D, K, w, x)
  BY <1>2, <1>3, <1>4, <1>5 DEF Covers
<1> QED
  BY <1>1, <1>2, <1>4, <1>6

\* A B that covers another is the one it was opened in, or opened around that.
LEMMA CoveringBegin ==
  ASSUME NEW n \in Nat, NEW D, NEW W, NEW T, NEW K, NEW C, NEW now, PairTypes(n, D, W, T, C, now),
         PairsNest(D, W, {}, T, K, C, now), NEW x \in C, D[x] > 0, NEW b \in C, Covers(T, D, K, b, x)
  PROVE  W[x] # None /\ (b = W[x] \/ Ahead(T, D, b, W[x]))
<1>1. PICK w : w = W[x]
  OBVIOUS
<1>2. T[x] \in Int /\ D[x] \in Int /\ T[b] \in Int /\ D[b] \in Int /\ b \in Int /\ x \in Int
  BY DEF PairTypes
<1>3. K[b] = K[x] /\ D[b] > 0 /\ Ahead(T, D, b, x) /\ T[x] < T[b] + D[b] /\ T[x] + D[x] <= T[b] + D[b]
  BY DEF Covers
<1>4. Earlier(T, b, x)
  <2> SUFFICES ASSUME ~Earlier(T, b, x) PROVE FALSE
    OBVIOUS
  <2>1. T[b] = T[x] /\ D[b] > D[x]
    BY <1>2, <1>3 DEF Earlier, Ahead
  <2>2. Earlier(T, x, b)
    BY <1>2, <1>3, <2>1 DEF Earlier
  <2>3. Apart(D, {}, T, x, b) \/ Inside(D, W, {}, T, x, b)
    BY <1>3, <2>2 DEF PairsNest
  <2>4. ~(T[x] + D[x] <= T[b])
    BY <1>2, <2>1
  <2>5. T[b] + D[b] <= T[x] + D[x]
    BY <2>3, <2>4 DEF Apart, Inside
  <2> QED
    BY <1>2, <2>1, <2>5
<1>5. Apart(D, {}, T, b, x) \/ Inside(D, W, {}, T, b, x)
  BY <1>3, <1>4 DEF PairsNest
<1>6. ~Apart(D, {}, T, b, x)
  BY <1>2, <1>3 DEF Apart
<1>7. w # None /\ (w = b \/ Earlier(T, b, w))
  BY <1>1, <1>5, <1>6 DEF Inside
<1>8. ASSUME Earlier(T, b, w) PROVE Ahead(T, D, b, w)
  <2>1. w \in C /\ K[w] = K[x] /\ Earlier(T, w, x)
    BY <1>1, <1>7 DEF PairsNest
  <2>2. T[w] \in Int /\ D[w] \in Int /\ w \in Int
    BY <2>1 DEF PairTypes
  <2>3. Apart(D, {}, T, b, w) \/ Inside(D, W, {}, T, b, w)
    BY <1>3, <1>8, <2>1 DEF PairsNest
  <2>4. T[w] <= T[x]
    BY <1>2, <2>1, <2>2 DEF Earlier
  <2>5. ~Apart(D, {}, T, b, w)
    BY <1>2, <1>3, <2>2, <2>4 DEF Apart
  <2>6. T[w] + D[w] <= T[b] + D[b]
    BY <2>3, <2>5 DEF Inside
  <2> QED
    BY <1>2, <1>8, <2>2, <2>6 DEF Earlier, Ahead
<1> QED
  BY <1>1, <1>7, <1>8

(* The stacks of spans that may still cover what comes: S are those nested so *)
(* far, the last at now.  A span is forgotten when it is over or a later one  *)
(* ends after it.                                                             *)
Around(T, D, a, x) == T[a] + D[a] > T[x] /\ T[a] + D[a] >= T[x] + D[x]
HeldIn(s, j) == \E a \in 1..Len(s) : s[a] = j
StackClimbs(s, t, T, D, K, S) ==
  \A a \in 1..Len(s) :
    /\ s[a] \in S /\ K[s[a]] = t /\ D[s[a]] > 0
    /\ \A b \in 1..Len(s) : a < b => Ahead(T, D, s[a], s[b])
Outlives(T, D, a, j) == Ahead(T, D, j, a) /\ T[j] + D[j] < T[a] + D[a]
Outlived(s, T, D, j) == \E a \in 1..Len(s) : Outlives(T, D, s[a], j)
StackKeeps(s, t, T, D, K, S, now) ==
  \A j \in S : K[j] = t /\ D[j] > 0 => HeldIn(s, j) \/ T[j] + D[j] <= now \/ Outlived(s, T, D, j)

\* Above the l-th none reaches over x, and that one does.
ReachesOver(s, T, D, x, l) ==
  /\ l \in 0..Len(s) /\ (l # 0 => Around(T, D, s[l], x))
  /\ \A k \in 1..Len(s) : l < k => ~Around(T, D, s[k], x)

AllAhead(T, D, S, x) == \A a \in S : Ahead(T, D, a, x)

LEMMA InnerFound ==
  ASSUME NEW n \in Nat, NEW T, NEW D, NEW K, NEW S, SpanTypes(n, T, D, K, S), NEW x \in 1..n, AllAhead(T, D, S, x),
         NEW s \in Seq(1..n), StackClimbs(s, K[x], T, D, K, S), NEW now \in Int, StackKeeps(s, K[x], T, D, K, S, now), T[x] >= now,
         NEW l, ReachesOver(s, T, D, x, l), NEW p, p = IF l = 0 THEN None ELSE s[l]
  PROVE  Innermost(T, D, K, S, p, x)
<1>1. PICK L \in Nat : L = Len(s)
  OBVIOUS
<1>2. /\ l \in 0..L /\ (l # 0 => Around(T, D, s[l], x)) /\ \A k \in 1..L : l < k => ~Around(T, D, s[k], x)
  BY <1>1 DEF ReachesOver
<1>3. \A i \in S : i \in 1..n
  BY DEF SpanTypes
<1>4. \A i \in 1..n : T[i] \in Int /\ D[i] \in Int
  BY DEF SpanTypes
<1>5. \A a \in 1..L : /\ s[a] \in S /\ s[a] \in 1..n /\ K[s[a]] = K[x] /\ D[s[a]] > 0 /\ Ahead(T, D, s[a], x)
                      /\ \A b \in 1..L : a < b => Ahead(T, D, s[a], s[b])
  BY <1>1, <1>3 DEF StackClimbs, AllAhead
<1>6. ASSUME NEW j \in S, Covers(T, D, K, j, x) PROVE \E k \in 1..L : k <= l /\ (j = s[k] \/ Ahead(T, D, j, s[k]))
  <2>1. K[j] = K[x] /\ D[j] > 0 /\ T[x] < T[j] + D[j] /\ T[x] + D[x] <= T[j] + D[j]
    BY <1>6 DEF Covers
  <2>2. j \in 1..n /\ T[j] \in Int /\ D[j] \in Int /\ T[x] \in Int /\ D[x] \in Int
    BY <1>3, <1>4
  <2>3. Around(T, D, j, x)
    BY <2>1, <2>2 DEF Around
  <2>4. ~(T[j] + D[j] <= now)
    BY <2>1, <2>2
  <2>5. HeldIn(s, j) \/ Outlived(s, T, D, j)
    BY <2>1, <2>4 DEF StackKeeps
  <2>6. CASE HeldIn(s, j)
    <3>1. PICK k \in 1..L : s[k] = j
      BY <1>1, <2>6 DEF HeldIn
    <3>2. k <= l
      BY <1>2, <2>3, <3>1
    <3> QED
      BY <3>1, <3>2
  <2>7. CASE Outlived(s, T, D, j)
    <3>1. PICK k \in 1..L : Ahead(T, D, j, s[k]) /\ T[j] + D[j] < T[s[k]] + D[s[k]]
      BY <1>1, <2>7 DEF Outlived, Outlives
    <3>2. T[s[k]] \in Int /\ D[s[k]] \in Int
      BY <1>4, <1>5
    <3>5. PICK c : c = s[k]
      OBVIOUS
    <3>6. T[c] \in Int /\ D[c] \in Int /\ T[j] + D[j] < T[c] + D[c]
      BY <3>1, <3>2, <3>5
    <3>7. Around(T, D, c, x)
      BY <2>1, <2>2, <3>6, SMTT(30) DEF Around
    <3>3. Around(T, D, s[k], x)
      BY <3>5, <3>7
    <3>4. k <= l
      BY <1>2, <3>3
    <3> QED
      BY <3>1, <3>4
  <2> QED
    BY <2>5, <2>6, <2>7
<1>7. CASE l = 0
  <2>1. \A j \in S : ~Covers(T, D, K, j, x)
    BY <1>6, <1>7
  <2> QED
    BY <1>7, <2>1 DEF Innermost
<1>8. CASE l # 0
  <2>1. l \in 1..L /\ p = s[l]
    BY <1>2, <1>8
  <2>2. p \in S /\ p \in 1..n /\ K[p] = K[x] /\ D[p] > 0 /\ Ahead(T, D, p, x)
    BY <1>5, <2>1
  <2>3. T[x] < T[p] + D[p] /\ T[x] + D[x] <= T[p] + D[p]
    <3>1. Around(T, D, p, x)
      BY <1>2, <1>8, <2>1
    <3>2. T[p] \in Int /\ D[p] \in Int /\ T[x] \in Int /\ D[x] \in Int
      BY <1>4, <2>2
    <3> QED
      BY <3>1, <3>2 DEF Around
  <2>4. Covers(T, D, K, p, x)
    BY <2>2, <2>3 DEF Covers
  <2>5. ASSUME NEW j \in S, Covers(T, D, K, j, x) PROVE j = p \/ Ahead(T, D, j, p)
    <3>1. PICK k \in 1..L : k <= l /\ (j = s[k] \/ Ahead(T, D, j, s[k]))
      BY <1>6, <2>5
    <3>2. k = l \/ k < l
      BY <1>2, <3>1
    <3>3. CASE k = l
      BY <2>1, <3>1, <3>3
    <3>4. CASE k < l
      <4>1. Ahead(T, D, s[k], p)
        BY <1>5, <2>1, <3>4
      <4>2. j \in 1..n /\ s[k] \in 1..n /\ p \in 1..n
        BY <1>3, <1>5, <2>2
      <4>3. T \in [1..n -> Int] /\ D \in [1..n -> Int]
        BY DEF SpanTypes
      <4>5. PICK c : c = s[k]
        OBVIOUS
      <4>7. Ahead(T, D, c, p) /\ c \in 1..n
        BY <4>1, <4>2, <4>5
      <4>6. Ahead(T, D, j, c) => Ahead(T, D, j, p)
        BY <4>2, <4>3, <4>7, AheadOn
      <4>4. Ahead(T, D, j, s[k]) => Ahead(T, D, j, p)
        BY <4>5, <4>6
      <4> QED
        BY <3>1, <4>1, <4>4
    <3> QED
      BY <3>2, <3>3, <3>4
  <2> QED
    BY <2>2, <2>4, <2>5 DEF Innermost
<1> QED
  BY <1>7, <1>8

\* The stack after x: x is put on it if it lasts.
Nexts(s, z, D, x, l) ==
  /\ Len(z) = IF D[x] > 0 THEN l + 1 ELSE l
  /\ \A k \in 1..l : z[k] = s[k]
  /\ D[x] > 0 => z[l + 1] = x

LEMMA StackGoesOn ==
  ASSUME NEW n \in Nat, NEW T, NEW D, NEW K, NEW S, SpanTypes(n, T, D, K, S), NEW x \in 1..n, AllAhead(T, D, S, x),
         NEW s \in Seq(1..n), StackClimbs(s, K[x], T, D, K, S), NEW now \in Int, StackKeeps(s, K[x], T, D, K, S, now), T[x] >= now,
         NEW l, ReachesOver(s, T, D, x, l), NEW z \in Seq(1..n), Nexts(s, z, D, x, l)
  PROVE  StackClimbs(z, K[x], T, D, K, S \cup {x}) /\ StackKeeps(z, K[x], T, D, K, S \cup {x}, T[x])
<1>1. PICK L \in Nat, Z \in Nat : L = Len(s) /\ Z = Len(z)
  OBVIOUS
<1>2. /\ l \in 0..L /\ \A k \in 1..L : l < k => ~Around(T, D, s[k], x)
  BY <1>1 DEF ReachesOver
<1>3. T \in [1..n -> Int] /\ D \in [1..n -> Int] /\ \A i \in S : i \in 1..n
  BY DEF SpanTypes
<1>4. \A i \in 1..n : T[i] \in Int /\ D[i] \in Int
  BY <1>3
<1>5. \A a \in 1..L : /\ s[a] \in S /\ s[a] \in 1..n /\ K[s[a]] = K[x] /\ D[s[a]] > 0 /\ Ahead(T, D, s[a], x)
                      /\ \A b \in 1..L : a < b => Ahead(T, D, s[a], s[b])
  BY <1>1, <1>3 DEF StackClimbs, AllAhead
<1>6. /\ Z = (IF D[x] > 0 THEN l + 1 ELSE l) /\ (D[x] > 0 => l + 1 \in 1..Z /\ z[l + 1] = x)
      /\ \A k \in 1..l : k \in 1..L /\ k \in 1..Z /\ z[k] = s[k]
  BY <1>1, <1>2 DEF Nexts
<1>7. \A a \in 1..Z : a \in 1..l \/ (a = l + 1 /\ D[x] > 0)
  BY <1>2, <1>6
<1>8. StackClimbs(z, K[x], T, D, K, S \cup {x})
  <2>1. \A a \in 1..Z : z[a] \in S \cup {x} /\ K[z[a]] = K[x] /\ D[z[a]] > 0
    BY <1>5, <1>6, <1>7
  <2>2. ASSUME NEW a \in 1..Z, NEW b \in 1..Z, a < b PROVE Ahead(T, D, z[a], z[b])
    <3>1. a \in 1..l
      BY <1>2, <1>6, <2>2
    <3>2. z[a] = s[a] /\ a \in 1..L
      BY <1>6, <3>1
    <3>3. CASE b \in 1..l
      BY <1>5, <1>6, <2>2, <3>2, <3>3
    <3>4. CASE b = l + 1 /\ D[x] > 0
      BY <1>5, <1>6, <3>2, <3>4
    <3> QED
      BY <1>7, <3>3, <3>4
  <2> QED
    BY <1>1, <2>1, <2>2 DEF StackClimbs
\* What was on the stack stays there, is over, or x outlives it.
<1>9. ASSUME NEW k \in 1..L, NEW j \in S, j = s[k] \/ Outlives(T, D, s[k], j)
      PROVE  HeldIn(z, j) \/ T[j] + D[j] <= T[x] \/ Outlived(z, T, D, j)
  <2>1. s[k] \in 1..n /\ T[s[k]] \in Int /\ D[s[k]] \in Int /\ T[j] \in Int /\ D[j] \in Int /\ T[x] \in Int /\ D[x] \in Int /\ j \in 1..n
    BY <1>3, <1>4, <1>5
  <2>2. CASE k <= l
    <3>1. k \in 1..l
      BY <1>2, <2>2
    <3>2. z[k] = s[k] /\ k \in 1..Z
      BY <1>6, <3>1
    <3> QED
      BY <1>1, <1>9, <3>2, Zenon DEF HeldIn, Outlived
  <2>3. CASE l < k
    <3>1. ~Around(T, D, s[k], x)
      BY <1>2, <2>3
    <3>2. T[s[k]] + D[s[k]] <= T[x] \/ T[s[k]] + D[s[k]] < T[x] + D[x]
      <4>1. PICK c : c = s[k]
        OBVIOUS
      <4>2. ~Around(T, D, c, x) /\ T[c] \in Int /\ D[c] \in Int
        BY <2>1, <3>1, <4>1
      <4>3. PICK u, v, w, y \in Int : u = T[c] /\ v = D[c] /\ w = T[x] /\ y = D[x]
        BY <2>1, <4>2
      <4>4. ~(u + v > w /\ u + v >= w + y)
        BY <4>2, <4>3 DEF Around
      <4>5. u + v <= w \/ u + v < w + y
        BY <4>4
      <4> QED
        BY <4>1, <4>3, <4>5
    <3>3. T[j] + D[j] <= T[s[k]] + D[s[k]]
      <4>1. PICK c : c = s[k]
        OBVIOUS
      <4>2. (j = c \/ Outlives(T, D, c, j)) /\ T[c] \in Int /\ D[c] \in Int
        BY <1>9, <2>1, <4>1
      <4>3. T[j] + D[j] <= T[c] + D[c]
        BY <2>1, <4>2 DEF Outlives
      <4> QED
        BY <4>1, <4>3
    <3>8. PICK c, d \in Int : c = s[k] /\ d = T[s[k]] + D[s[k]]
      BY <2>1, SMTT(30)
    <3>9. (d <= T[x] \/ d < T[x] + D[x]) /\ T[j] + D[j] <= d
      BY <3>2, <3>3, <3>8
    <3>10. PICK b \in Int, t \in Int, y \in Int : b = T[j] + D[j] /\ t = T[x] /\ y = D[x]
      BY <2>1, SMTT(30)
    <3>11. (d <= t \/ d < t + y) /\ b <= d
      BY <3>9, <3>10
    <3>12. b <= t \/ (b < t + y /\ y > 0)
      BY <3>11
    <3>4. T[j] + D[j] <= T[x] \/ (T[j] + D[j] < T[x] + D[x] /\ D[x] > 0)
      BY <3>10, <3>12
    <3>5. Ahead(T, D, j, x)
      BY DEF AllAhead
    <3>6. D[x] > 0 => l + 1 \in 1..Z /\ z[l + 1] = x
      BY <1>6
    <3>7. T[j] + D[j] < T[x] + D[x] /\ D[x] > 0 => Outlived(z, T, D, j)
      BY <1>1, <3>5, <3>6 DEF Outlived, Outlives
    <3> QED
      BY <3>4, <3>7
  <2> QED
    BY <1>2, <2>2, <2>3
<1>10. ASSUME NEW j \in S \cup {x}, K[j] = K[x], D[j] > 0
       PROVE  HeldIn(z, j) \/ T[j] + D[j] <= T[x] \/ Outlived(z, T, D, j)
  <2>1. CASE j = x
    <3>1. l + 1 \in 1..Z /\ z[l + 1] = x
      BY <1>6, <1>10, <2>1
    <3> QED
      BY <1>1, <2>1, <3>1 DEF HeldIn
  <2>2. CASE j \in S
    <3>1. HeldIn(s, j) \/ T[j] + D[j] <= now \/ Outlived(s, T, D, j)
      BY <1>10, <2>2 DEF StackKeeps
    <3>2. T[j] + D[j] <= now => T[j] + D[j] <= T[x]
      BY <1>3, <1>4, <2>2
    <3>3. HeldIn(s, j) => \E k \in 1..L : j = s[k]
      BY <1>1 DEF HeldIn
    <3>4. Outlived(s, T, D, j) => \E k \in 1..L : Outlives(T, D, s[k], j)
      BY <1>1 DEF Outlived
    <3>5. CASE HeldIn(s, j)
      <4>1. PICK k \in 1..L : j = s[k]
        BY <3>3, <3>5
      <4> QED
        BY <1>9, <2>2, <4>1
    <3>6. CASE Outlived(s, T, D, j)
      <4>1. PICK k \in 1..L : Outlives(T, D, s[k], j)
        BY <3>4, <3>6
      <4> QED
        BY <1>9, <2>2, <4>1
    <3> QED
      BY <3>1, <3>2, <3>5, <3>6
  <2> QED
    BY <2>1, <2>2
<1> QED
  BY <1>8, <1>10 DEF StackKeeps

\* The other stacks.
LEMMA StackWaits ==
  ASSUME NEW n \in Nat, NEW T, NEW D, NEW K, NEW S, SpanTypes(n, T, D, K, S), NEW x \in 1..n, NEW t, K[x] # t,
         NEW s, StackClimbs(s, t, T, D, K, S), NEW now \in Int, StackKeeps(s, t, T, D, K, S, now), T[x] >= now
  PROVE  StackClimbs(s, t, T, D, K, S \cup {x}) /\ StackKeeps(s, t, T, D, K, S \cup {x}, T[x])
<1>1. \A i \in S : T[i] \in Int /\ D[i] \in Int
  BY DEF SpanTypes
<1>2. T[x] \in Int
  BY DEF SpanTypes
<1>3. StackClimbs(s, t, T, D, K, S \cup {x})
  BY DEF StackClimbs
<1>4. ASSUME NEW j \in S \cup {x}, K[j] = t, D[j] > 0
      PROVE  HeldIn(s, j) \/ T[j] + D[j] <= T[x] \/ Outlived(s, T, D, j)
  <2>1. j \in S
    BY <1>4
  <2>2. HeldIn(s, j) \/ T[j] + D[j] <= now \/ Outlived(s, T, D, j)
    BY <1>4, <2>1 DEF StackKeeps
  <2>3. T[j] \in Int /\ D[j] \in Int
    BY <1>1, <2>1
  <2> QED
    BY <1>2, <2>2, <2>3
<1> QED
  BY <1>3, <1>4 DEF StackKeeps

(* Parents and depths. *)
DepthsGrow(Z, T, D, K, S) == \A a, b \in S : D[b] > 0 /\ Covers(T, D, K, a, b) => Z[a] <= Z[b]
Belongs(T, D, S, p, i) == p = None \/ (p \in S /\ Ahead(T, D, p, i))
NestHolds(P, Z, T, D, K, S, C) ==
  /\ \A i \in S : Z[i] \in 0..MaxDepth /\ Belongs(T, D, S, P[i], i)
  /\ \A i \in S : i \notin C => Innermost(T, D, K, S, P[i], i)
  /\ NoneCross(T, D, K, S) => DepthsGrow(Z, T, D, K, S) /\ \A i \in S : D[i] > 0 => Innermost(T, D, K, S, P[i], i)

\* The parent of x, where m is the last that covers it and w the B open around it.
Chosen(Z, C, x, m, w) == IF m # None /\ (x \notin C \/ m \notin C) /\ (w = None \/ Z[m] >= Z[w]) THEN m ELSE w

LEMMA ParentIsInner ==
  ASSUME NEW n \in Nat, NEW T, NEW D, NEW K, NEW S, SpanTypes(n, T, D, K, S), NEW x \in 1..n, AllAhead(T, D, S, x),
         NEW P, NEW Z, NEW C, NestHolds(P, Z, T, D, K, S, C), NEW m, Innermost(T, D, K, S, m, x),
         NEW W, NEW now, PairTypes(n, D, W, T, C, now), PairsNest(D, W, {}, T, K, C, now),
         NEW w, w = W[x], x \notin C => w = None, \A i \in C : Ahead(T, D, i, x) => i \in S,
         NEW p, p = Chosen(Z, C, x, m, w)
  PROVE  /\ Belongs(T, D, S, p, x)
         /\ x \notin C => Innermost(T, D, K, S, p, x)
         /\ NoneCross(T, D, K, S) /\ D[x] > 0 => Innermost(T, D, K, S, p, x)
<1>1. p = m \/ p = w
  BY DEF Chosen
<1>2. Belongs(T, D, S, m, x)
  BY DEF Belongs, Innermost, Covers
<1>3. w # None => w \in S /\ Ahead(T, D, w, x) /\ (D[x] > 0 => Covers(T, D, K, w, x)) /\ w \in C /\ x \in C
  <2> HAVE w # None
  <2>1. x \in C
    OBVIOUS
  <2>2. w \in C /\ Ahead(T, D, w, x) /\ (D[x] > 0 => Covers(T, D, K, w, x))
    BY <2>1, OpenedIsAhead
  <2> QED
    BY <2>1, <2>2
<1>4. Belongs(T, D, S, p, x)
  BY <1>1, <1>2, <1>3 DEF Belongs
<1>5. x \notin C => p = m
  BY DEF Chosen
<1>6. ASSUME NoneCross(T, D, K, S), D[x] > 0 PROVE p = m
  <2>1. m \in C /\ x \in C => w # None /\ (m = w \/ Ahead(T, D, m, w))
    <3> SUFFICES ASSUME m \in C, x \in C PROVE w # None /\ (m = w \/ Ahead(T, D, m, w))
      OBVIOUS
    <3>1. m # None
      BY DEF PairTypes, None
    <3>2. Covers(T, D, K, m, x)
      BY <3>1 DEF Innermost
    <3> QED
      BY <1>6, <3>2, CoveringBegin
  <2>2. CASE w = None
    BY <2>1, <2>2 DEF Chosen
  <2>3. CASE w # None
    <3>1. w \in S /\ Covers(T, D, K, w, x) /\ w \in C /\ x \in C
      BY <1>3, <1>6, <2>3
    <3>2. m \in S /\ Covers(T, D, K, m, x) /\ (w = m \/ Ahead(T, D, w, m))
      BY <3>1 DEF Innermost
    <3>3. w \in 1..n /\ m \in 1..n /\ T \in [1..n -> Int] /\ D \in [1..n -> Int]
      BY <3>1, <3>2 DEF SpanTypes
    <3>4. m \in C => m = w
      <4>1. ~(Ahead(T, D, m, w) /\ Ahead(T, D, w, m))
        BY <3>3, AheadOrders
      <4> QED
        BY <2>1, <3>1, <3>2, <4>1
    <3>5. m \notin C => Z[m] >= Z[w]
      <4> HAVE m \notin C
      <4>1. Ahead(T, D, w, m)
        BY <3>1, <3>2
      <4>2. Covers(T, D, K, w, m)
        BY <1>6, <3>1, <3>2, <4>1, CoversNest
      <4>3. D[m] > 0
        BY <3>2 DEF Covers
      <4>4. Z[w] <= Z[m] /\ Z[w] \in Int /\ Z[m] \in Int
        BY <1>6, <3>1, <3>2, <4>2, <4>3 DEF NestHolds, DepthsGrow
      <4> QED
        BY <4>4
    <3>6. m # None
      BY <3>3 DEF None
    <3> QED
      BY <3>4, <3>5, <3>6 DEF Chosen
  <2> QED
    BY <2>2, <2>3
<1> QED
  BY <1>4, <1>5, <1>6

LEMMA InnermostGrows ==
  ASSUME NEW n \in Nat, NEW T, NEW D, NEW K, NEW S, SpanTypes(n, T, D, K, S), NEW x \in 1..n, AllAhead(T, D, S, x),
         NEW i \in S \cup {x}, NEW p, Innermost(T, D, K, S, p, i)
  PROVE  Innermost(T, D, K, S \cup {x}, p, i)
<1>1. i \in 1..n /\ T \in [1..n -> Int] /\ D \in [1..n -> Int]
  BY DEF SpanTypes
<1>2. ~Ahead(T, D, x, i)
  BY <1>1, AheadOrders DEF AllAhead
<1>3. ~Covers(T, D, K, x, i)
  BY <1>2 DEF Covers
<1> QED
  BY <1>3 DEF Innermost

\* V and Y are P and Z, and what x gets.
Gets(V, Y, P, Z, S, x, p) ==
  /\ \A i \in S : V[i] = P[i] /\ Y[i] = Z[i]
  /\ V[x] = p /\ Y[x] = IF p = None THEN 0 ELSE Min({MaxDepth, Z[p] + 1})

LEMMA NestGrows ==
  ASSUME NEW n \in Nat, NEW T, NEW D, NEW K, NEW S, SpanTypes(n, T, D, K, S), NEW x \in 1..n, x \notin S, AllAhead(T, D, S, x),
         NEW P, NEW Z, NEW C, NestHolds(P, Z, T, D, K, S, C), NEW p, Belongs(T, D, S, p, x),
         x \notin C => Innermost(T, D, K, S, p, x), NoneCross(T, D, K, S) /\ D[x] > 0 => Innermost(T, D, K, S, p, x),
         NEW V, NEW Y, Gets(V, Y, P, Z, S, x, p)
  PROVE  NestHolds(V, Y, T, D, K, S \cup {x}, C)
<1>1. PICK U : U = S \cup {x}
  OBVIOUS
<1>8. /\ \A i \in S : V[i] = P[i] /\ Y[i] = Z[i]
      /\ V[x] = p /\ Y[x] = IF p = None THEN 0 ELSE Min({MaxDepth, Z[p] + 1})
  BY DEF Gets
<1>2. MaxDepth \in Int /\ MaxDepth >= 1
  BY IndexAssumption
<1>3. p # None => p \in S /\ Z[p] \in 0..MaxDepth
  BY DEF Belongs, NestHolds
<1>4. Y[x] \in 0..MaxDepth /\ (p # None => Y[x] >= Z[p])
  <2>1. CASE p = None
    BY <1>2, <1>8, <2>1
  <2>2. CASE p # None
    <3>1. PICK d \in Int : d = Z[p] + 1
      BY <1>3, <2>2
    <3>2. Min({MaxDepth, d}) \in {MaxDepth, d} /\ Min({MaxDepth, d}) <= MaxDepth
      BY <1>2, MinOfTwo
    <3>3. Y[x] = MaxDepth \/ (Y[x] = d /\ d <= MaxDepth)
      BY <1>8, <2>2, <3>1, <3>2
    <3> QED
      BY <1>2, <1>3, <2>2, <3>1, <3>3
  <2> QED
    BY <2>1, <2>2
<1>5. ASSUME NEW i \in U PROVE Y[i] \in 0..MaxDepth /\ Belongs(T, D, U, V[i], i)
  <2>1. CASE i = x
    BY <1>1, <1>4, <1>8, <2>1 DEF Belongs
  <2>2. CASE i \in S
    BY <1>1, <1>8, <2>2 DEF Belongs, NestHolds
  <2> QED
    BY <1>1, <2>1, <2>2
<1>6. ASSUME NEW i \in U, i \notin C PROVE Innermost(T, D, K, U, V[i], i)
  <2>1. Innermost(T, D, K, S, V[i], i)
    BY <1>1, <1>6, <1>8 DEF NestHolds
  <2> QED
    BY <1>1, <2>1, InnermostGrows
<1>7. ASSUME NoneCross(T, D, K, U)
      PROVE  DepthsGrow(Y, T, D, K, U) /\ \A i \in U : D[i] > 0 => Innermost(T, D, K, U, V[i], i)
  <2>1. NoneCross(T, D, K, S)
    BY <1>1, <1>7 DEF NoneCross
  <2>2. ASSUME NEW i \in U, D[i] > 0 PROVE Innermost(T, D, K, U, V[i], i)
    <3>1. Innermost(T, D, K, S, V[i], i)
      BY <1>1, <1>8, <2>1, <2>2 DEF NestHolds
    <3> QED
      BY <1>1, <3>1, InnermostGrows
  <2>3. ASSUME NEW a \in U, NEW b \in U, D[b] > 0, Covers(T, D, K, a, b) PROVE Y[a] <= Y[b]
    <3>1. a \in 1..n /\ b \in 1..n /\ T \in [1..n -> Int] /\ D \in [1..n -> Int] /\ Ahead(T, D, a, b)
      BY <1>1, <2>3 DEF SpanTypes, Covers
    <3>2. a \in S
      <4>1. a = x => b # x /\ Ahead(T, D, b, x)
        <5>1. ~Ahead(T, D, a, a)
          BY <3>1, AheadOrders
        <5> QED
          BY <1>1, <3>1, <5>1 DEF AllAhead
      <4>2. ~(Ahead(T, D, a, b) /\ Ahead(T, D, b, a))
        BY <3>1, AheadOrders
      <4> QED
        BY <1>1, <3>1, <4>1, <4>2
    <3>3. CASE b \in S
      BY <1>8, <2>1, <2>3, <3>2, <3>3 DEF NestHolds, DepthsGrow
    <3>4. CASE b = x
      <4>1. Innermost(T, D, K, S, p, x) /\ Covers(T, D, K, a, x) /\ D[x] > 0
        BY <1>8, <2>1, <2>3, <3>4
      <4>2. p \in S /\ Covers(T, D, K, p, x) /\ (a = p \/ Ahead(T, D, a, p))
        BY <3>2, <4>1 DEF Innermost
      <4>3. p # None /\ D[p] > 0
        BY <4>2 DEF SpanTypes, None, Covers
      <4>4. Z[a] <= Z[p] /\ Z[a] \in Int /\ Z[p] \in Int
        <5>1. Z[a] \in Int /\ Z[p] \in Int
          BY <3>2, <4>2 DEF NestHolds
        <5>2. CASE a = p
          BY <5>1, <5>2
        <5>3. CASE Ahead(T, D, a, p)
          <6>1. Covers(T, D, K, a, p)
            BY <2>1, <3>2, <4>1, <4>2, <5>3, CoversNest
          <6> QED
            BY <2>1, <3>2, <4>2, <4>3, <5>1, <6>1 DEF NestHolds, DepthsGrow
        <5> QED
          BY <4>2, <5>2, <5>3
      <4>5. Y[a] = Z[a] /\ Y[b] >= Z[p] /\ Y[b] \in Int
        BY <1>4, <1>8, <3>2, <3>4, <4>3
      <4> QED
        BY <4>4, <4>5
    <3> QED
      BY <1>1, <2>3, <3>3, <3>4
  <2> QED
    BY <2>2, <2>3 DEF DepthsGrow
<1> QED
  BY <1>1, <1>5, <1>6, <1>7 DEF NestHolds

(* What one step of nesting does to these. *)
Parents(q, n) == [i \in 1..n |-> q[i].parent]
Depths(q, n) == [i \in 1..n |-> q[i].depth]
SameSpan(d, e) == d.dur = e.dur /\ d.ended = e.ended

Placed(e, p, v, s) == [e EXCEPT !.parent = p, !.depth = v, !.self = s]

LEMMA NestedFields ==
  ASSUME NEW e, IsTimed(e), NEW p, NEW v, NEW s
  PROVE  Placed(e, p, v, s).parent = p /\ Placed(e, p, v, s).depth = v /\ SameSpan(Placed(e, p, v, s), e)
<1>1. PICK a, b, c : a = [e EXCEPT !["parent"] = p] /\ b = [a EXCEPT !["depth"] = v] /\ c = [b EXCEPT !["self"] = s]
  OBVIOUS
<1>2. {"parent", "depth", "self", "dur", "ended"} \subseteq EventFields
  BY DEF EventFields
<1>3. SetsField(a, e, "parent", p)
  BY <1>1, <1>2, FieldSet
<1>8. IsTimed(a)
  BY <1>3 DEF SetsField
<1>4. SetsField(b, a, "depth", v)
  BY <1>1, <1>2, <1>8, FieldSet
<1>9. IsTimed(b)
  BY <1>4 DEF SetsField
<1>5. SetsField(c, b, "self", s)
  BY <1>1, <1>2, <1>9, FieldSet
<1>6. c["parent"] = p /\ c["depth"] = v /\ c["dur"] = e["dur"] /\ c["ended"] = e["ended"]
  BY <1>2, <1>3, <1>4, <1>5 DEF SetsField
<1>7. Placed(e, p, v, s) = c
  BY <1>1, Zenon DEF Placed
<1> QED
  BY <1>6, <1>7, Zenon DEF SameSpan

Measures(q, T, D, n) == \A i \in 1..n : q[i].ts = T[i] /\ q[i].dur = D[i]
IsRest(s, r, T, D, x, l, n) ==
  /\ ReachesOver(s, T, D, x, l) /\ r \in Seq(1..n) /\ Len(r) = l /\ l <= Len(s)
  /\ \A k \in 1..l : r[k] = s[k]

LEMMA RemainingIs ==
  ASSUME NEW n \in Nat, NEW s \in Seq(1..n), NEW q, NEW T, NEW D, NEW x \in 1..n, Measures(q, T, D, n)
  PROVE  \E l \in Nat : IsRest(s, Remaining(s, q[x], q), T, D, x, l, n)
<1>11. PICK r : r = Remaining(s, q[x], q)
  OBVIOUS
<1>1. PICK L \in Nat : L = Len(s)
  OBVIOUS
<1>2. \A k \in 1..L : s[k] \in 1..n /\ (Encloses(q[s[k]], q[x]) <=> Around(T, D, s[k], x))
  <2>1. \A k \in 1..L : s[k] \in 1..n
    BY <1>1
  <2>2. \A a \in 1..n : Encloses(q[a], q[x]) <=> Around(T, D, a, x)
    BY DEF Encloses, Around, End, Measures
  <2> QED
    BY <2>1, <2>2
<1>3. PICK A, l : A = {k \in DOMAIN s : Encloses(q[s[k]], q[x])} /\ l = Max({0} \cup A)
  OBVIOUS
<1>4. DOMAIN s = 1..L /\ A \in SUBSET (1..L)
  BY <1>1, <1>3
<1>5. l \in 0..L /\ l \in {0} \cup A /\ \A k \in A : k <= l
  BY <1>3, <1>4, UpToMax
<1>6. r = SubSeq(s, 1, l)
  BY <1>3, <1>11 DEF Remaining
<1>7. l # 0 => Around(T, D, s[l], x)
  BY <1>2, <1>3, <1>4, <1>5
<1>8. \A k \in 1..L : l < k => ~Around(T, D, s[k], x)
  <2> SUFFICES ASSUME NEW k \in 1..L, l < k, Around(T, D, s[k], x) PROVE FALSE
    OBVIOUS
  <2>1. k \in A
    BY <1>2, <1>3, <1>4
  <2> QED
    BY <1>5, <2>1
<1>9. ReachesOver(s, T, D, x, l)
  BY <1>1, <1>5, <1>7, <1>8 DEF ReachesOver
<1>10. r \in Seq(1..n) /\ Len(r) = l /\ \A k \in 1..l : r[k] = s[k]
  BY <1>1, <1>5, <1>6
<1> QED
  BY <1>1, <1>5, <1>9, <1>10, <1>11 DEF IsRest

\* What one step does to the events, and to the stack.
Begin(ev, n) == {i \in 1..n : ev[i].ph = "B"}
TopOf(s, l) == IF l = 0 THEN None ELSE s[l]
GetsParent(q, u, x, p, n) ==
  /\ \A j \in 1..n : j # x => u[j] = q[j]
  /\ SameSpan(u[x], q[x]) /\ u[x].parent = p
  /\ u[x].depth = IF p = None THEN 0 ELSE Min({MaxDepth, q[p].depth + 1})
SpanStacked(acc, r, s, z, t, n) ==
  z \in Seq(1..n) /\ s = acc.stack[t] /\ r.stack = [acc.stack EXCEPT ![t] = z] /\ r.within = acc.within

LEMMA NestOneIs ==
  ASSUME NEW n \in Nat, NEW ev, DOMAIN ev = 1..n, AreTimed(ev), NEW acc \in NestingOf(ev), NEW x \in 1..n,
         NEW q, q = acc.events, q[x].kind # "Sample", NEW r, r = NestOne(acc, x), NEW t, t = Track(q[x]),
         NEW T, NEW D, Measures(q, T, D, n)
  PROVE  \E l, z, s : /\ SpanStacked(acc, r, s, z, t, n) /\ ReachesOver(s, T, D, x, l) /\ Nexts(s, z, D, x, l)
                      /\ GetsParent(q, r.events, x, Chosen(Depths(q, n), Begin(q, n), x, TopOf(s, l), acc.within[x]), n)
<1>1. q \in Kin(ev) /\ acc.stack \in [Tracks -> Seq(1..n)] /\ acc.within \in [1..n -> 1..n \cup {None}]
  BY DEF NestingOf
<1>2. acc = [events |-> q, within |-> acc.within, stack |-> acc.stack]
  BY DEF NestingOf
<1>3. PICK e, s, rest, w, p : /\ e = q[x] /\ s = acc.stack[t] /\ rest = Remaining(s, e, q) /\ w = acc.within[x]
                              /\ p = ParentOf(e, w, rest, q)
  OBVIOUS
<1>4. t \in Tracks /\ s \in Seq(1..n)
  BY <1>1, <1>3 DEF Track, Tracks
<1>5. PICK l \in Nat : /\ ReachesOver(s, T, D, x, l) /\ rest \in Seq(1..n) /\ Len(rest) = l /\ l <= Len(s)
                       /\ \A k \in 1..l : rest[k] = s[k]
  <2>1. PICK l \in Nat : IsRest(s, Remaining(s, q[x], q), T, D, x, l, n)
    BY <1>4, RemainingIs
  <2>2. IsRest(s, rest, T, D, x, l, n)
    BY <1>3, <2>1
  <2> QED
    BY <2>2 DEF IsRest
<1>6. PICK depth, self, z : /\ depth = (IF p = None THEN 0 ELSE Min({MaxDepth, q[p].depth + 1})) /\ self = Max({0, e.dur})
                            /\ z = IF e.dur > 0 THEN Append(rest, x) ELSE rest
  OBVIOUS
<1>7. r = [acc EXCEPT !.stack[t] = z, !.events[x] = [e EXCEPT !.parent = p, !.depth = depth, !.self = self]]
  BY <1>3, <1>6 DEF NestOne
<1>8. PICK d : d = Placed(e, p, depth, self)
  OBVIOUS
<1>9. r = [events |-> [q EXCEPT ![x] = d], within |-> acc.within, stack |-> [acc.stack EXCEPT ![t] = z]]
  BY <1>2, <1>7, <1>8 DEF Placed
<1>10. IsTimed(e)
  BY <1>1, <1>3, KinHas
<1>11. d.parent = p /\ d.depth = depth /\ SameSpan(d, e)
  <2>1. Placed(e, p, depth, self).parent = p /\ Placed(e, p, depth, self).depth = depth /\ SameSpan(Placed(e, p, depth, self), e)
    BY <1>10, NestedFields
  <2> QED
    BY <1>8, <2>1
<1>12. q = [j \in 1..n |-> q[j]]
  BY <1>1 DEF Kin
<1>13. r.events[x] = d /\ \A j \in 1..n : j # x => r.events[j] = q[j]
  <2>1. r.events = [q EXCEPT ![x] = d]
    BY <1>9
  <2> QED
    BY <1>12, <2>1
<1>14. z \in Seq(1..n) /\ SpanStacked(acc, r, s, z, t, n)
  <2>1. Append(rest, x) \in Seq(1..n)
    BY <1>5
  <2>2. z \in Seq(1..n)
    BY <1>5, <1>6, <2>1
  <2>3. r.stack = [acc.stack EXCEPT ![t] = z] /\ r.within = acc.within
    BY <1>9
  <2> QED
    BY <1>3, <2>2, <2>3 DEF SpanStacked
<1>15. Nexts(s, z, D, x, l)
  <2>1. e.dur = D[x]
    BY <1>3 DEF Measures
  <2>2. CASE D[x] > 0
    <3>1. z = Append(rest, x)
      BY <1>6, <2>1, <2>2
    <3>2. Len(z) = l + 1 /\ z[l + 1] = x /\ \A k \in 1..l : z[k] = rest[k]
      BY <1>5, <3>1
    <3> QED
      BY <1>5, <2>2, <3>2 DEF Nexts
  <2>3. CASE ~(D[x] > 0)
    <3>1. z = rest
      BY <1>6, <2>1, <2>3
    <3> QED
      BY <1>5, <2>3, <3>1 DEF Nexts
  <2> QED
    BY <2>2, <2>3
<1>16. p = Chosen(Depths(q, n), Begin(q, n), x, TopOf(s, l), w)
  <2>1. PICK m : m = TopOf(s, l)
    OBVIOUS
  <2>2. w \in 1..n \cup {None}
    BY <1>1, <1>3
  <2>3. CASE l = 0
    <3>1. rest = <<>> /\ m = None
      BY <1>5, <2>1, <2>3 DEF TopOf
    <3>2. p = w
      BY <1>3, <3>1, SMTT(30) DEF ParentOf
    <3> QED
      BY <2>1, <3>1, <3>2 DEF Chosen
  <2>4. CASE l # 0
    <3>1. rest # <<>> /\ Last(rest) = rest[l] /\ rest[l] = s[l] /\ rest[l] \in 1..n
      BY <1>5, <2>4 DEF Last
    <3>2. m = Last(rest) /\ m \in 1..n /\ m # None
      BY <2>1, <2>4, <3>1 DEF TopOf, None
    <3>3. q[m].ph = "B" <=> m \in Begin(q, n)
      BY <3>2 DEF Begin
    <3>4. e.ph = "B" <=> x \in Begin(q, n)
      BY <1>3 DEF Begin
    <3>5. w # None => (q[m].depth >= q[w].depth <=> Depths(q, n)[m] >= Depths(q, n)[w])
      BY <2>2, <3>2, SMTT(30) DEF Depths
    <3> QED
      BY <1>3, <2>1, <3>1, <3>2, <3>3, <3>4, <3>5 DEF ParentOf, Chosen
  <2> QED
    BY <2>3, <2>4
<1>17. GetsParent(q, r.events, x, p, n)
  BY <1>3, <1>6, <1>11, <1>13 DEF GetsParent
<1> QED
  BY <1>3, <1>5, <1>14, <1>15, <1>16, <1>17

(* A thread M is nested after it is paired: q0 are the paired events, D how   *)
(* long each lasts, W the B each was opened in, C the B events.               *)
NestGiven(n, ev, q0, T, D, K, W, C, M) ==
  /\ DOMAIN ev = 1..n /\ AreTimed(ev) /\ q0 \in Kin(ev) /\ M \in SUBSET (1..n)
  /\ T = Times(ev, n) /\ K = Sides(ev, n) /\ D = Durs(q0, n)
  /\ C = {i \in M : ev[i].ph = "B"} /\ W \in [1..n -> 0..n] /\ \A i \in (1..n) \ C : W[i] = None
  /\ \E now \in Int : PairsNest(D, W, {}, T, K, C, now)
NestState(acc, n, q0, T, D, K, W, C, M, S, now) ==
  /\ acc.within = W
  /\ \A j \in 1..n : SameSpan(acc.events[j], q0[j]) /\ (j \notin M => acc.events[j] = q0[j])
  /\ NestHolds(Parents(acc.events, n), Depths(acc.events, n), T, D, K, S, C)
  /\ \A t \in Tracks : StackClimbs(acc.stack[t], t, T, D, K, S) /\ StackKeeps(acc.stack[t], t, T, D, K, S, now)

LEMMA GivenTypes ==
  ASSUME NEW n \in Nat, NEW ev, NEW q0, NEW T, NEW D, NEW K, NEW W, NEW C, NEW M, NestGiven(n, ev, q0, T, D, K, W, C, M)
  PROVE  /\ T \in [1..n -> Int] /\ D \in [1..n -> Int] /\ K \in [1..n -> Tracks] /\ C \in SUBSET M /\ M \in SUBSET (1..n)
         /\ \A i \in 1..n : /\ q0[i].ts = T[i] /\ q0[i].dur = D[i] /\ ev[i].ts = T[i]
                            /\ Track(q0[i]) = K[i] /\ Track(ev[i]) = K[i]
<1>1. /\ DOMAIN ev = 1..n /\ AreTimed(ev) /\ q0 \in Kin(ev) /\ M \in SUBSET (1..n)
      /\ T = Times(ev, n) /\ K = Sides(ev, n) /\ D = Durs(q0, n) /\ C = {i \in M : ev[i].ph = "B"}
  BY DEF NestGiven
<1>2. /\ Times(ev, n) \in [1..n -> Int] /\ Sides(ev, n) \in [1..n -> Tracks] /\ Durs(q0, n) \in [1..n -> Int]
      /\ \A i \in 1..n : q0[i].ts = Times(ev, n)[i] /\ Track(q0[i]) = Sides(ev, n)[i] /\ q0[i].dur = Durs(q0, n)[i]
  BY <1>1, SidesAre
<1>3. \A i \in 1..n : ev[i].ts = Times(ev, n)[i] /\ Track(ev[i]) = Sides(ev, n)[i]
  BY DEF Times, Sides
<1> QED
  BY <1>1, <1>2, <1>3

LEMMA NestStep ==
  ASSUME NEW n \in Nat, NEW ev, NEW q0, NEW T, NEW D, NEW K, NEW W, NEW C, NEW M, NestGiven(n, ev, q0, T, D, K, W, C, M),
         NEW acc \in NestingOf(ev), NEW S \in SUBSET M, NEW now \in Int, NestState(acc, n, q0, T, D, K, W, C, M, S, now),
         NEW x \in M, x \notin S, AllAhead(T, D, S, x), T[x] >= now, \A i \in C : Ahead(T, D, i, x) => i \in S
  PROVE  NestState(NestOne(acc, x), n, q0, T, D, K, W, C, M, IF ev[x].kind = "Sample" THEN S ELSE S \cup {x}, T[x])
<1>1. PICK q, r, t : q = acc.events /\ r = NestOne(acc, x) /\ t = K[x]
  OBVIOUS
<1>2. /\ T \in [1..n -> Int] /\ D \in [1..n -> Int] /\ K \in [1..n -> Tracks] /\ C \in SUBSET M /\ M \in SUBSET (1..n)
      /\ \A i \in 1..n : /\ q0[i].ts = T[i] /\ q0[i].dur = D[i] /\ ev[i].ts = T[i]
                         /\ Track(q0[i]) = K[i] /\ Track(ev[i]) = K[i]
  BY GivenTypes
<1>3. DOMAIN ev = 1..n /\ AreTimed(ev) /\ W \in [1..n -> 0..n] /\ q \in Kin(ev) /\ x \in 1..n
  BY <1>1, <1>2 DEF NestGiven, NestingOf
<1>4. \A i \in 1..n : q[i].ts = ev[i].ts /\ q[i].ph = ev[i].ph /\ q[i].kind = ev[i].kind
  BY <1>3, KinHas
<1>5. Track(q[x]) = t /\ t \in Tracks
  BY <1>1, <1>2, <1>3, <1>4, SMTT(40) DEF Track
<1>6. /\ acc.within = W
      /\ \A j \in 1..n : SameSpan(q[j], q0[j]) /\ (j \notin M => q[j] = q0[j])
      /\ NestHolds(Parents(q, n), Depths(q, n), T, D, K, S, C)
      /\ \A u \in Tracks : StackClimbs(acc.stack[u], u, T, D, K, S) /\ StackKeeps(acc.stack[u], u, T, D, K, S, now)
  BY <1>1 DEF NestState
<1>7. Measures(q, T, D, n)
  BY <1>2, <1>4, <1>6 DEF Measures, SameSpan
<1>8. SpanTypes(n, T, D, K, S)
  BY <1>2 DEF SpanTypes
<1>9. CASE ev[x].kind = "Sample"
  <2>1. r = acc
    BY <1>1, <1>3, <1>4, <1>9 DEF NestOne
  <2>2. ASSUME NEW u \in Tracks PROVE StackKeeps(acc.stack[u], u, T, D, K, S, T[x])
    <3>1. \A j \in S : T[j] \in Int /\ D[j] \in Int /\ T[x] \in Int
      BY <1>2
    <3>2. \A j \in S : T[j] + D[j] <= now => T[j] + D[j] <= T[x]
      BY <3>1
    <3>3. StackKeeps(acc.stack[u], u, T, D, K, S, now)
      BY <1>6
    <3> QED
      BY <3>2, <3>3 DEF StackKeeps
  <2>3. NestState(acc, n, q0, T, D, K, W, C, M, S, T[x])
    BY <1>1, <1>6, <2>2 DEF NestState
  <2> QED
    BY <1>1, <1>9, <2>1, <2>3
<1>10. CASE ev[x].kind # "Sample"
  <2>1. q[x].kind # "Sample"
    BY <1>3, <1>4, <1>10
  <2>2. PICK l, z, s : /\ SpanStacked(acc, r, s, z, t, n) /\ ReachesOver(s, T, D, x, l) /\ Nexts(s, z, D, x, l)
                       /\ GetsParent(q, r.events, x, Chosen(Depths(q, n), Begin(q, n), x, TopOf(s, l), acc.within[x]), n)
    BY <1>1, <1>3, <1>5, <1>7, <2>1, NestOneIs
  <2>3. /\ z \in Seq(1..n) /\ s = acc.stack[t] /\ r.stack = [acc.stack EXCEPT ![t] = z] /\ r.within = W
        /\ acc.stack \in [Tracks -> Seq(1..n)] /\ s \in Seq(1..n)
    BY <1>3, <1>5, <1>6, <2>2 DEF SpanStacked, NestingOf
  <2>4. StackClimbs(s, K[x], T, D, K, S) /\ StackKeeps(s, K[x], T, D, K, S, now)
    BY <1>1, <1>5, <1>6, <2>3
  <2>5. PICK m, w, p, P, Z : /\ m = TopOf(s, l) /\ w = W[x] /\ P = Parents(q, n) /\ Z = Depths(q, n) /\ p = Chosen(Z, C, x, m, w)
    OBVIOUS
  <2>6. Innermost(T, D, K, S, m, x)
    <3>1. m = IF l = 0 THEN None ELSE s[l]
      BY <2>5 DEF TopOf
    <3> QED
      BY <1>3, <1>8, <2>2, <2>3, <2>4, <3>1, InnerFound
  <2>7. p = Chosen(Z, Begin(q, n), x, m, w)
    <3>1. x \in C <=> x \in Begin(q, n)
      BY <1>3, <1>4 DEF Begin, NestGiven
    <3>2. m # None => (m \in C <=> m \in Begin(q, n))
      <4> HAVE m # None
      <4>1. m \in S /\ m \in M /\ m \in 1..n
        BY <1>2, <2>6 DEF Innermost
      <4> QED
        BY <1>4, <4>1 DEF Begin, NestGiven
    <3> QED
      BY <2>5, <3>1, <3>2 DEF Chosen
  <2>8. /\ Belongs(T, D, S, p, x)
        /\ x \notin C => Innermost(T, D, K, S, p, x)
        /\ NoneCross(T, D, K, S) /\ D[x] > 0 => Innermost(T, D, K, S, p, x)
    <3>1. PICK past \in Int : PairsNest(D, W, {}, T, K, C, past)
      BY DEF NestGiven
    <3>2. PairTypes(n, D, W, T, C, past)
      BY <1>2, <1>3 DEF PairTypes
    <3>3. x \notin C => w = None
      BY <1>3, <2>5 DEF NestGiven
    <3>4. NestHolds(P, Z, T, D, K, S, C)
      BY <1>6, <2>5
    <3> QED
      BY <1>3, <1>8, <2>5, <2>6, <3>1, <3>2, <3>3, <3>4, ParentIsInner
  <2>9. GetsParent(q, r.events, x, p, n)
    BY <1>6, <2>2, <2>5, <2>7
  <2>10. PICK U, V, Y : U = r.events /\ V = Parents(U, n) /\ Y = Depths(U, n)
    OBVIOUS
  <2>11. /\ \A j \in 1..n : j # x => U[j] = q[j]
         /\ SameSpan(U[x], q[x]) /\ U[x].parent = p /\ U[x].depth = IF p = None THEN 0 ELSE Min({MaxDepth, q[p].depth + 1})
    BY <2>9, <2>10 DEF GetsParent
  <2>12. NestHolds(V, Y, T, D, K, S \cup {x}, C)
    <3>1. \A i \in S : i \in 1..n /\ i # x
      BY <1>2
    <3>2. \A i \in S : V[i] = P[i] /\ Y[i] = Z[i]
      BY <2>5, <2>10, <2>11, <3>1 DEF Parents, Depths
    <3>3. V[x] = p /\ Y[x] = IF p = None THEN 0 ELSE Min({MaxDepth, Z[p] + 1})
      <4>1. p # None => p \in 1..n
        BY <2>8, <3>1 DEF Belongs
      <4>2. p # None => Z[p] = q[p].depth
        BY <2>5, <4>1 DEF Depths
      <4>3. V[x] = U[x].parent /\ Y[x] = U[x].depth
        BY <1>3, <2>10 DEF Parents, Depths
      <4> QED
        BY <2>11, <4>2, <4>3
    <3>4. NestHolds(P, Z, T, D, K, S, C)
      BY <1>6, <2>5
    <3>5. Gets(V, Y, P, Z, S, x, p)
      BY <3>2, <3>3 DEF Gets
    <3> QED
      BY <1>3, <1>8, <2>8, <3>4, <3>5, NestGrows
  <2>13. \A j \in 1..n : SameSpan(U[j], q0[j]) /\ (j \notin M => U[j] = q0[j])
    BY <1>6, <2>11 DEF SameSpan
  <2>14. ASSUME NEW u \in Tracks
         PROVE  StackClimbs(r.stack[u], u, T, D, K, S \cup {x}) /\ StackKeeps(r.stack[u], u, T, D, K, S \cup {x}, T[x])
    <3>1. CASE u = t
      <4>1. r.stack[u] = z
        BY <1>5, <2>3, <3>1
      <4>2. StackClimbs(z, K[x], T, D, K, S \cup {x}) /\ StackKeeps(z, K[x], T, D, K, S \cup {x}, T[x])
        BY <1>3, <1>8, <2>2, <2>3, <2>4, StackGoesOn
      <4> QED
        BY <1>1, <3>1, <4>1, <4>2
    <3>2. CASE u # t
      <4>1. PICK o : o = acc.stack[u]
        OBVIOUS
      <4>2. r.stack[u] = o
        BY <2>3, <3>2, <4>1
      <4>3. StackClimbs(o, u, T, D, K, S) /\ StackKeeps(o, u, T, D, K, S, now)
        BY <1>6, <4>1
      <4>4. K[x] # u
        BY <1>1, <3>2
      <4> QED
        BY <1>3, <1>8, <4>2, <4>3, <4>4, StackWaits
    <3> QED
      BY <3>1, <3>2
  <2>15. NestState(r, n, q0, T, D, K, W, C, M, S \cup {x}, T[x])
    BY <2>3, <2>10, <2>12, <2>13, <2>14 DEF NestState
  <2> QED
    BY <1>1, <1>10, <2>15
<1> QED
  BY <1>9, <1>10

\* When each B has its E, none is left open.
LEMMA MatchedCloses ==
  ASSUME NEW n \in Nat, NEW acc, acc.open \in [Tracks -> Seq(1..n)], NEW T, NEW K \in [1..n -> Tracks],
         NEW M \in SUBSET (1..n), NEW C \in SUBSET M, StacksRise(acc.open, T, K, C), PairCount(acc, K, C, M, {}),
         \A i \in C : Cardinality({j \in C : K[j] = K[i]}) = Cardinality(EndsAre(acc, K, M, K[i]))
  PROVE  OpenNow(n, acc.open, K) = {}
<1> SUFFICES ASSUME NEW i \in 1..n, NEW a \in 1..Len(acc.open[K[i]]), acc.open[K[i]][a] = i PROVE FALSE
  BY DEF OpenNow
<1>1. PICK t, s : t = K[i] /\ s = acc.open[t]
  OBVIOUS
<1>2. t \in Tracks /\ s \in Seq(1..n)
  BY <1>1
<1>3. i \in C
  BY <1>1, <1>2 DEF StacksRise
<1>4. PICK l, c, d : l = Len(s) /\ c = Cardinality({j \in C : K[j] = t}) /\ d = Cardinality(EndsAre(acc, K, M, t))
  OBVIOUS
<1>7. l \in Nat
  BY <1>2, <1>4
<1>5. c = d /\ c = d + l
  BY <1>1, <1>2, <1>3, <1>4 DEF PairCount
<1>6. d \in Nat
  <2>1. EndsAre(acc, K, M, t) \in SUBSET (1..n)
    BY DEF EndsAre
  <2>2. IsFiniteSet(1..n)
    BY FS_Interval
  <2>3. IsFiniteSet(EndsAre(acc, K, M, t))
    BY <2>1, <2>2, FS_Subset
  <2> QED
    BY <1>4, <2>3, FS_CardinalityType
<1> QED
  BY <1>1, <1>4, <1>5, <1>6, <1>7

\* The spans among the first k of a sequence.
SpansUpTo(ev, order, k) == {order[j] : j \in {a \in 1..k : ev[order[a]].kind # "Sample"}}
SpansOf(q, th) == {i \in NestMembers(q, th) : q[i].kind # "Sample"}
IsNested(u, n, q0, T, D, K, C, M, S) ==
  /\ \A j \in 1..n : SameSpan(u[j], q0[j]) /\ (j \notin M => u[j] = q0[j])
  /\ NestHolds(Parents(u, n), Depths(u, n), T, D, K, S, C)

LEMMA NestedIs ==
  ASSUME NEW n \in Nat, NEW ev, NEW paired \in Pairing(ev), NEW q0, q0 = paired.events, NEW th, NEW T, NEW D, NEW K, NEW C,
         NEW M, M = OfThread(ev, th), NestGiven(n, ev, q0, T, D, K, paired.within, C, M),
         \A i \in C : ~q0[i].ended /\ ev[i].kind # "Sample", NEW order, order = NestOrder(q0, th)
  PROVE  IsNested(Nested(paired, order), n, q0, T, D, K, C, M, SpansOf(q0, th))
<1>1. PICK W, N : W = paired.within /\ N = NestMembers(q0, th)
  OBVIOUS
<1>2. DOMAIN ev = 1..n /\ AreTimed(ev) /\ q0 \in Kin(ev)
  BY DEF NestGiven
<1>3. DOMAIN q0 = 1..n /\ AreTimed(q0)
  BY <1>2, KinTimed
<1>4. \A i \in 1..n : q0[i].ph = ev[i].ph /\ q0[i].kind = ev[i].kind /\ q0[i].pid = ev[i].pid /\ q0[i].tid = ev[i].tid
  BY <1>2, KinHas
<1>5. OfThread(q0, th) = M
  BY <1>2, <1>3, <1>4 DEF OfThread, Timed, ThreadOf
<1>6. N = {i \in M : ~q0[i].ended} /\ N \subseteq M
  BY <1>1, <1>5 DEF NestMembers
<1>7. /\ T \in [1..n -> Int] /\ D \in [1..n -> Int] /\ K \in [1..n -> Tracks] /\ C \in SUBSET M /\ M \in SUBSET (1..n)
      /\ \A i \in 1..n : /\ q0[i].ts = T[i] /\ q0[i].dur = D[i] /\ ev[i].ts = T[i]
                         /\ Track(q0[i]) = K[i] /\ Track(ev[i]) = K[i]
  BY GivenTypes
<1>8. NestSorts(q0, th) /\ order \in Seq(DOMAIN q0)
  BY <1>3, NestOrderSorts
<1>9. PICK m \in Nat : m = Len(order)
  BY <1>8
<1>10. /\ \A k \in 1..m : order[k] \in N /\ order[k] \in M /\ order[k] \in 1..n
       /\ \A x \in N : \E k \in 1..m : order[k] = x
       /\ \A j, k \in 1..m : j < k => NestBefore(q0, order[j], order[k])
  <2>1. Sorts(order, N, {p \in N \X N : NestBefore(q0, p[1], p[2])})
    BY <1>1, <1>8 DEF NestSorts
  <2>2. order \in Seq(N)
    BY <2>1 DEF Sorts
  <2>3. \A k \in 1..m : order[k] \in N
    BY <1>9, <2>2
  <2>4. ASSUME NEW j \in 1..m, NEW k \in 1..m, j < k PROVE NestBefore(q0, order[j], order[k])
    <3>1. <<order[j], order[k]>> \in {p \in N \X N : NestBefore(q0, p[1], p[2])}
      BY <1>9, <2>1, <2>4 DEF Sorts
    <3> QED
      BY <3>1
  <2>5. \A x \in N : \E k \in 1..m : order[k] = x
    BY <1>9, <2>1 DEF Sorts
  <2> QED
    BY <1>6, <1>7, <2>3, <2>4, <2>5
<1>11. \A j, k \in 1..m : j < k => Ahead(T, D, order[j], order[k]) /\ order[j] # order[k] /\ T[order[j]] <= T[order[k]]
  <2> TAKE j \in 1..m, k \in 1..m
  <2> HAVE j < k
  <2>1. PICK a, b : a = order[j] /\ b = order[k]
    OBVIOUS
  <2>2. a \in 1..n /\ b \in 1..n /\ NestBefore(q0, a, b)
    BY <1>10, <2>1
  <2>3. Ahead(T, D, a, b)
    BY <1>7, <2>2 DEF NestBefore, Ahead
  <2>4. ~Ahead(T, D, a, a) /\ T[a] <= T[b]
    BY <1>7, <2>2, <2>3, AheadOrders
  <2> QED
    BY <2>1, <2>3, <2>4
<1>12. PICK g : /\ NestSteps(g, paired, order, m) /\ Nested(paired, order) = g[m].events
                /\ \A k \in 0..m : g[k] \in NestingOf(ev)
  BY <1>2, <1>3, <1>8, <1>9, NestedFolds
<1> DEFINE Sp(k) == SpansUpTo(ev, order, k)
           Fine == {k \in 0..m : \E now \in Int : /\ NestState(g[k], n, q0, T, D, K, W, C, M, Sp(k), now)
                                                  /\ \A j \in k + 1..m : T[order[j]] >= now}
<1>13. g[0] = NestBase(paired)
  BY <1>12 DEF NestSteps
<1>14. Sp(0) = {}
  BY DEF SpansUpTo
<1>15. 0 \in Fine
  <2>1. g[0].events = q0 /\ g[0].within = W /\ g[0].stack = NoOpen
    BY <1>1, <1>13 DEF NestBase
  <2>2. \A t \in Tracks : NoOpen[t] = <<>>
    BY DEF NoOpen, Tracks
  <2>3. \A now \in Int, t \in Tracks : StackClimbs(g[0].stack[t], t, T, D, K, {}) /\ StackKeeps(g[0].stack[t], t, T, D, K, {}, now)
    BY <2>1, <2>2 DEF StackClimbs, StackKeeps
  <2>4. NestHolds(Parents(q0, n), Depths(q0, n), T, D, K, {}, C)
    BY DEF NestHolds, DepthsGrow
  <2>5. \A now \in Int : NestState(g[0], n, q0, T, D, K, W, C, M, {}, now)
    BY <2>1, <2>3, <2>4 DEF NestState, SameSpan
  <2>7. \E now \in Int : \A j \in 1..m : T[order[j]] >= now
    <3>1. CASE m = 0
      BY <3>1
    <3>2. CASE m # 0
      <4>1. 1 \in 1..m /\ T[order[1]] \in Int
        BY <1>7, <1>10, <3>2
      <4>2. \A j \in 1..m : T[order[j]] >= T[order[1]]
        <5> TAKE j \in 1..m
        <5>1. j = 1 \/ 1 < j
          OBVIOUS
        <5>2. T[order[j]] \in Int
          BY <1>7, <1>10
        <5> QED
          BY <1>11, <4>1, <5>1, <5>2
      <4> QED
        BY <4>1, <4>2
    <3> QED
      BY <3>1, <3>2
  <2>8. 0 + 1 = 1 /\ 0 \in 0..m
    OBVIOUS
  <2> QED
    BY <1>14, <2>5, <2>7, <2>8
<1>16. ASSUME NEW k \in 0..m, k \in Fine, k < m PROVE k + 1 \in Fine
  <2>1. PICK x, S, acc : x = order[k + 1] /\ S = Sp(k) /\ acc = g[k]
    OBVIOUS
  <2>2. k + 1 \in 1..m /\ k + 1 \in 0..m /\ (k + 1) - 1 = k /\ k + 1 # 0
    BY <1>16
  <2>3. g[k + 1] = NestOne(acc, x) /\ acc \in NestingOf(ev) /\ x \in M /\ x \in 1..n
    BY <1>10, <1>12, <2>1, <2>2 DEF NestSteps
  <2>4. PICK now \in Int : NestState(acc, n, q0, T, D, K, W, C, M, S, now) /\ \A j \in k + 1..m : T[order[j]] >= now
    BY <1>16, <2>1
  <2>5. ASSUME NEW a \in S PROVE a \in M /\ a # x /\ Ahead(T, D, a, x)
    <3>1. PICK j \in 1..k : a = order[j]
      BY <2>1 DEF SpansUpTo
    <3>2. j \in 1..m /\ j < k + 1
      BY <2>2
    <3> QED
      BY <1>10, <1>11, <2>1, <2>2, <3>1, <3>2
  <2>6. Sp(k + 1) = IF ev[x].kind = "Sample" THEN S ELSE S \cup {x}
    <3>1. \A j \in 1..k + 1 : j \in 1..k \/ j = k + 1
      BY <1>16
    <3>2. \A j \in 1..k : j \in 1..k + 1
      BY <1>16
    <3>3. k + 1 \in 1..k + 1
      BY <1>16
    <3> QED
      BY <2>1, <3>1, <3>2, <3>3 DEF SpansUpTo
  <2>7. T[x] >= now /\ T[x] \in Int
    <3>1. k + 1 \in k + 1..m
      BY <2>2
    <3> QED
      BY <1>7, <2>1, <2>3, <2>4, <3>1
  <2>8. ASSUME NEW i \in C, Ahead(T, D, i, x) PROVE i \in S
    <3>1. i \in N
      BY <1>6, <1>7
    <3>2. PICK j \in 1..m : order[j] = i
      BY <1>10, <3>1
    <3>3. i \in 1..n /\ ~Ahead(T, D, x, x) /\ ~Ahead(T, D, x, i)
      <4>1. i \in 1..n
        BY <1>7
      <4> QED
        BY <1>7, <2>3, <2>8, <4>1, AheadOrders
    <3>4. j # k + 1 /\ ~(k + 1 < j)
      BY <1>11, <2>1, <2>2, <2>8, <3>2, <3>3
    <3>5. j \in 1..k
      BY <1>16, <3>4
    <3> QED
      BY <2>1, <3>2, <3>5 DEF SpansUpTo
  <2>9. S \in SUBSET M /\ x \notin S /\ AllAhead(T, D, S, x)
    BY <2>5 DEF AllAhead
  <2>10. NestState(NestOne(acc, x), n, q0, T, D, K, W, C, M, IF ev[x].kind = "Sample" THEN S ELSE S \cup {x}, T[x])
    BY <1>1, <2>3, <2>4, <2>7, <2>8, <2>9, NestStep
  <2>11. NestState(g[k + 1], n, q0, T, D, K, W, C, M, Sp(k + 1), T[x])
    BY <2>3, <2>6, <2>10
  <2>12. \A j \in k + 1 + 1..m : T[order[j]] >= T[x]
    <3> TAKE j \in k + 1 + 1..m
    <3>1. j \in 1..m /\ k + 1 < j
      BY <1>16
    <3>2. T[order[j]] \in Int
      BY <1>7, <1>10, <3>1
    <3> QED
      BY <1>11, <2>1, <2>2, <2>7, <3>1, <3>2
  <2> QED
    BY <2>2, <2>7, <2>11, <2>12
<1> HIDE DEF Fine
<1>17. \A k \in 0..m : k \in Fine
  BY <1>15, <1>16, UpTo
<1>18. m \in Fine
  BY <1>17
<1>19. PICK now \in Int : NestState(g[m], n, q0, T, D, K, W, C, M, Sp(m), now)
  BY <1>18 DEF Fine
<1>20. Sp(m) = SpansOf(q0, th)
  <2>1. SpansOf(q0, th) = {i \in N : q0[i].kind # "Sample"}
    BY <1>1 DEF SpansOf
  <2>2. \A i \in N : i \in 1..n /\ q0[i].kind = ev[i].kind
    BY <1>4, <1>6, <1>7
  <2>3. ASSUME NEW i \in Sp(m) PROVE i \in N /\ ev[i].kind # "Sample"
    <3>1. PICK j \in 1..m : i = order[j] /\ ev[order[j]].kind # "Sample"
      BY DEF SpansUpTo
    <3> QED
      BY <1>10, <3>1
  <2>4. ASSUME NEW i \in N, ev[i].kind # "Sample" PROVE i \in Sp(m)
    <3>1. PICK j \in 1..m : order[j] = i
      BY <1>10
    <3> QED
      BY <2>4, <3>1 DEF SpansUpTo
  <2> QED
    BY <2>1, <2>2, <2>3, <2>4
<1>21. IsNested(g[m].events, n, q0, T, D, K, C, M, Sp(m))
  BY <1>19 DEF NestState, IsNested
<1> QED
  BY <1>12, <1>20, <1>21

(* Self times are taken from the parents; nothing else changes. *)
SameNest(d, e) == SameSpan(d, e) /\ d.parent = e.parent /\ d.depth = e.depth
Kindred(q, M) == \A i \in M : q[i].parent \in M \cup {None}

LEMMA SelfSet ==
  ASSUME NEW e, IsTimed(e), NEW s
  PROVE  SameNest([e EXCEPT !.self = s], e)
<1>1. PICK c : c = [e EXCEPT !["self"] = s]
  OBVIOUS
<1>2. {"parent", "depth", "self", "dur", "ended"} \subseteq EventFields
  BY DEF EventFields
<1>3. SetsField(c, e, "self", s)
  BY <1>1, <1>2, FieldSet
<1>4. c["parent"] = e["parent"] /\ c["depth"] = e["depth"] /\ c["dur"] = e["dur"] /\ c["ended"] = e["ended"]
  BY <1>2, <1>3 DEF SetsField
<1> QED
  BY <1>1, <1>4, Zenon DEF SameNest, SameSpan

NestAlike(u, v, M, n) == \A j \in 1..n : SameNest(u[j], v[j]) /\ (j \notin M => u[j] = v[j])

LEMMA SubtractIs ==
  ASSUME NEW n \in Nat, NEW ev, DOMAIN ev = 1..n, AreTimed(ev), NEW q \in Kin(ev), NEW v, NEW M \in SUBSET (1..n),
         Kindred(v, M), NestAlike(q, v, M, n), NEW i \in M
  PROVE  NestAlike(Subtract(q, i), v, M, n)
<1>1. PICK e, p, s : e = q[i] /\ p = e.parent /\ s = Max({0, q[p].self - e.dur})
  OBVIOUS
<1>2. p \in M \cup {None}
  BY <1>1 DEF Kindred, NestAlike, SameNest
<1>3. CASE p = None \/ e.dur <= 0
  BY <1>1, <1>3 DEF Subtract
<1>4. CASE ~(p = None \/ e.dur <= 0)
  <2>1. p \in M /\ p \in 1..n
    BY <1>2, <1>4
  <2>2. PICK d : d = [q[p] EXCEPT !.self = s]
    OBVIOUS
  <2>3. Subtract(q, i) = [q EXCEPT ![p] = d]
    BY <1>1, <1>4, <2>2 DEF Subtract
  <2>4. IsTimed(q[p]) /\ q = [j \in 1..n |-> q[j]]
    BY <2>1, KinHas DEF Kin
  <2>5. SameNest(d, q[p])
    BY <2>2, <2>4, SelfSet
  <2>6. \A j \in 1..n : Subtract(q, i)[j] = IF j = p THEN d ELSE q[j]
    BY <2>3, <2>4
  <2>7. ASSUME NEW j \in 1..n PROVE SameNest(Subtract(q, i)[j], v[j]) /\ (j \notin M => Subtract(q, i)[j] = v[j])
    <3>1. SameNest(q[j], v[j]) /\ (j \notin M => q[j] = v[j])
      BY DEF NestAlike
    <3>2. CASE j = p
      BY <2>1, <2>5, <2>6, <3>1, <3>2 DEF SameNest, SameSpan
    <3>3. CASE j # p
      BY <2>6, <3>1, <3>3
    <3> QED
      BY <3>2, <3>3
  <2> QED
    BY <2>7 DEF NestAlike
<1> QED
  BY <1>3, <1>4

LEMMA SubtractedIs ==
  ASSUME NEW n \in Nat, NEW ev, DOMAIN ev = 1..n, AreTimed(ev), NEW v \in Kin(ev), NEW M \in SUBSET (1..n), Kindred(v, M),
         NEW order \in Seq(DOMAIN ev), NEW m \in Nat, m = Len(order), \A k \in 1..m : order[k] \in M
  PROVE  NestAlike(Through(Subtract, v, order), v, M, n)
<1>1. PICK g : /\ SubtractSteps(g, v, order, m) /\ Through(Subtract, v, order) = g[m]
               /\ \A k \in 0..m : g[k] \in Kin(ev)
  BY SubtractedFolds
<1> DEFINE Fine == {k \in 0..m : NestAlike(g[k], v, M, n)}
<1>2. 0 \in Fine
  <2>1. g[0] = v /\ 0 \in 0..m
    BY <1>1 DEF SubtractSteps
  <2> QED
    BY <2>1 DEF NestAlike, SameNest, SameSpan
<1>3. ASSUME NEW k \in 0..m, k \in Fine, k < m PROVE k + 1 \in Fine
  <2>1. k + 1 \in 1..m /\ k + 1 \in 0..m /\ (k + 1) - 1 = k /\ k + 1 # 0
    BY <1>3
  <2>2. PICK x, q : x = order[k + 1] /\ q = g[k]
    OBVIOUS
  <2>3. g[k + 1] = Subtract(q, x) /\ q \in Kin(ev) /\ x \in M /\ NestAlike(q, v, M, n)
    BY <1>1, <1>3, <2>1, <2>2 DEF SubtractSteps
  <2>4. NestAlike(Subtract(q, x), v, M, n)
    BY <2>3, SubtractIs
  <2> QED
    BY <2>1, <2>3, <2>4
<1> HIDE DEF Fine
<1>4. \A k \in 0..m : k \in Fine
  BY <1>2, <1>3, UpTo
<1>5. m \in Fine
  BY <1>4
<1> QED
  BY <1>1, <1>5 DEF Fine

(* Sums along a sequence. *)
SumSteps(g, f, l) == g = [k \in 0..l |-> IF k = 0 THEN 0 ELSE g[k - 1] + f[k]]

LEMMA AddedFolds ==
  ASSUME NEW l \in Nat, NEW f \in [1..l -> Int]
  PROVE  \E g : /\ g[0] = 0 /\ Added(f) = g[l] /\ \A k \in 0..l : g[k] \in Int
                /\ \A k \in 1..l : g[k] = g[k - 1] + f[k]
<1>1. Len(f) = l
  OBVIOUS
<1>2. PICK step : step = [k \in 1..l |-> [a \in Int |-> a + f[k]]]
  OBVIOUS
<1>3. step \in [1..l -> [Int -> Int]]
  <2>1. \A k \in 1..l : \A a \in Int : a + f[k] \in Int
    OBVIOUS
  <2> QED
    BY <1>2, <2>1
<1>4. PICK h \in [0..l -> Int] : IsFold(h, 0, step, l)
  <2>1. PICK Z, base : Z = Int /\ base = 0
    OBVIOUS
  <2>2. base \in Z /\ step \in [1..l -> [Z -> Z]]
    BY <1>3, <2>1
  <2>3. PICK h \in [0..l -> Z] : IsFold(h, base, step, l)
    BY <2>2, FoldExists
  <2> QED
    BY <2>1, <2>3
<1>5. \E g : SumSteps(g, f, l)
  <2>1. ASSUME NEW k \in 0..l PROVE h[k] = IF k = 0 THEN 0 ELSE h[k - 1] + f[k]
    <3>1. h[k] = IF k = 0 THEN 0 ELSE step[k][h[k - 1]]
      BY <1>4 DEF IsFold
    <3>2. k # 0 => k \in 1..l /\ k - 1 \in 0..l /\ h[k - 1] \in Int
      BY <1>4
    <3> QED
      BY <1>2, <3>1, <3>2
  <2>2. h = [k \in 0..l |-> h[k]]
    BY <1>4
  <2> QED
    BY <2>1, <2>2 DEF SumSteps
<1>6. PICK g : g = CHOOSE x : SumSteps(x, f, l)
  OBVIOUS
<1>7. SumSteps(g, f, l)
  BY <1>5, <1>6
<1>8. Added(f) = g[l]
  BY <1>1, <1>6 DEF Added, Through, SumSteps
<1>9. g[0] = 0 /\ \A k \in 1..l : g[k] = g[k - 1] + f[k]
  BY <1>7 DEF SumSteps
<1>10. \A k \in 0..l : g[k] \in Int
  <2>1. \A k \in 1..l : g[k - 1] \in Int => g[k] \in Int
    BY <1>9
  <2>2. PICK Z : Z = Int
    OBVIOUS
  <2>3. g[0] \in Z /\ \A k \in 1..l : g[k - 1] \in Z => g[k] \in Z
    BY <1>9, <2>1, <2>2
  <2>4. \A k \in 0..l : g[k] \in Z
    BY <2>3, FoldStays
  <2> QED
    BY <2>2, <2>4
<1> QED
  BY <1>8, <1>9, <1>10

\* What one number changes of the sum.
LEMMA AddedChanged ==
  ASSUME NEW l \in Nat, NEW f \in [1..l -> Int], NEW h \in [1..l -> Int], NEW j \in 1..l, \A k \in 1..l : k # j => h[k] = f[k]
  PROVE  Added(f) \in Int /\ Added(h) = Added(f) + (h[j] - f[j])
<1>1. PICK a : a[0] = 0 /\ Added(f) = a[l] /\ (\A k \in 0..l : a[k] \in Int) /\ \A k \in 1..l : a[k] = a[k - 1] + f[k]
  BY AddedFolds
<1>2. PICK b : b[0] = 0 /\ Added(h) = b[l] /\ (\A k \in 0..l : b[k] \in Int) /\ \A k \in 1..l : b[k] = b[k - 1] + h[k]
  BY AddedFolds
<1>3. PICK d \in Int : d = h[j] - f[j]
  OBVIOUS
<1> DEFINE Fine == {k \in 0..l : b[k] = IF k < j THEN a[k] ELSE a[k] + d}
<1>4. 0 \in Fine
  BY <1>1, <1>2
<1>5. ASSUME NEW k \in 0..l, k \in Fine, k < l PROVE k + 1 \in Fine
  <2>1. k + 1 \in 1..l /\ k + 1 \in 0..l /\ (k + 1) - 1 = k
    BY <1>5
  <2>2. PICK m \in 1..l : m = k + 1
    BY <2>1
  <2>3. a[m] = a[k] + f[m] /\ b[m] = b[k] + h[m] /\ a[k] \in Int /\ b[k] \in Int /\ f[m] \in Int /\ h[m] \in Int
    BY <1>1, <1>2, <1>5, <2>1, <2>2
  <2>4. b[k] = IF k < j THEN a[k] ELSE a[k] + d
    BY <1>5
  <2>5. b[m] = IF m < j THEN a[m] ELSE a[m] + d
    <3>1. CASE m = j
      <4>1. h[m] = f[m] + d
        BY <1>3, <2>3, <3>1
      <4>2. b[k] = a[k]
        BY <2>2, <2>4, <3>1
      <4> QED
        BY <2>3, <3>1, <4>1, <4>2
    <3>2. CASE m # j
      <4>1. h[m] = f[m] /\ (k < j <=> m < j)
        BY <2>2, <3>2
      <4> QED
        BY <2>3, <2>4, <4>1
    <3> QED
      BY <3>1, <3>2
  <2> QED
    BY <2>1, <2>2, <2>5
<1> HIDE DEF Fine
<1>6. \A k \in 0..l : k \in Fine
  BY <1>4, <1>5, UpTo
<1>7. l \in Fine
  BY <1>6
<1>8. b[l] = a[l] + d
  BY <1>7 DEF Fine
<1> QED
  BY <1>1, <1>2, <1>3, <1>8

\* A sequence that lists S, and the numbers of its members.
ListsSet(s, l, S) ==
  /\ \A k \in 1..l : s[k] \in S
  /\ \A x \in S : \E k \in 1..l : s[k] = x
  /\ \A j, k \in 1..l : s[j] = s[k] => j = k
Along(F, s, l) == [k \in 1..l |-> F[s[k]]]

LEMMA AlongChanged ==
  ASSUME NEW S, NEW l \in Nat, NEW s, ListsSet(s, l, S), NEW F, NEW G, \A i \in S : F[i] \in Int /\ G[i] \in Int,
         NEW p \in S, \A i \in S : i # p => G[i] = F[i]
  PROVE  Added(Along(F, s, l)) \in Int /\ Added(Along(G, s, l)) = Added(Along(F, s, l)) + (G[p] - F[p])
<1>1. PICK f, h : f = Along(F, s, l) /\ h = Along(G, s, l)
  OBVIOUS
<1>2. f \in [1..l -> Int] /\ h \in [1..l -> Int] /\ \A k \in 1..l : f[k] = F[s[k]] /\ h[k] = G[s[k]]
  BY <1>1 DEF Along, ListsSet
<1>3. PICK j \in 1..l : s[j] = p
  BY DEF ListsSet
<1>4. ASSUME NEW k \in 1..l, k # j PROVE h[k] = f[k]
  <2>1. PICK i : i = s[k]
    OBVIOUS
  <2>2. i \in S /\ i # p
    BY <1>3, <1>4, <2>1 DEF ListsSet
  <2>3. f[k] = F[i] /\ h[k] = G[i]
    BY <1>2, <2>1
  <2> QED
    BY <2>2, <2>3
<1>5. Added(f) \in Int /\ Added(h) = Added(f) + (h[j] - f[j])
  BY <1>2, <1>4, AddedChanged
<1> QED
  BY <1>1, <1>2, <1>3, <1>5

LEMMA AlongSame ==
  ASSUME NEW S, NEW l, NEW s, ListsSet(s, l, S), NEW F, NEW G, \A i \in S : F[i] = G[i]
  PROVE  Along(F, s, l) = Along(G, s, l)
BY DEF Along, ListsSet

(* Self times.  P are the parents; the spans Q have been taken from theirs.   *)
Lasting(d) == IF d > 0 THEN d ELSE 0
FreeFrom(e, T, D, P, Q, p) == e = T[p] \/ \E c \in Q : P[c] = p /\ D[c] > 0 /\ e = T[c] + D[c]
RoomLeft(F, T, D, P, Q, p) == \E e \in Int : FreeFrom(e, T, D, P, Q, p) /\ F[p] >= (T[p] + D[p]) - e
Untaken(D, P, Q, n) == [i \in 1..n |-> IF i \in Q /\ P[i] # None THEN 0 ELSE Lasting(D[i])]
LieIn(T, D, K, S, P) == NoneCross(T, D, K, S) /\ \A i \in S : D[i] > 0 => Innermost(T, D, K, S, P[i], i)

\* Of two spans in the same one, the first is over when the second starts.
LEMMA SiblingsApart ==
  ASSUME NEW n \in Nat, NEW T, NEW D, NEW K, NEW S, SpanTypes(n, T, D, K, S), NEW P, LieIn(T, D, K, S, P),
         NEW c \in S, NEW x \in S, Ahead(T, D, c, x), D[c] > 0, D[x] > 0, P[c] = P[x], P[x] # None
  PROVE  T[c] + D[c] <= T[x]
<1>1. c \in 1..n /\ x \in 1..n /\ \A i \in 1..n : T[i] \in Int /\ D[i] \in Int /\ i \in Int
  BY DEF SpanTypes
<1>2. PICK p : p = P[x]
  OBVIOUS
<1>3. Innermost(T, D, K, S, p, c) /\ Innermost(T, D, K, S, p, x)
  BY <1>2 DEF LieIn
<1>4. p \in S /\ Covers(T, D, K, p, c) /\ Covers(T, D, K, p, x) /\ (Covers(T, D, K, c, x) => c = p \/ Ahead(T, D, c, p))
  BY <1>2, <1>3 DEF Innermost
<1>5. Ahead(T, D, p, c) /\ p \in 1..n
  BY <1>4 DEF Covers, SpanTypes
<1>6. ~Covers(T, D, K, c, x)
  <2>1. ~Ahead(T, D, c, c) /\ ~Ahead(T, D, c, p)
    BY <1>1, <1>5, AheadOrders DEF SpanTypes
  <2> QED
    BY <1>4, <1>5, <2>1
<1>7. K[c] = K[x]
  BY <1>4 DEF Covers
<1>8. ~(T[x] < T[c] + D[c] /\ T[x] + D[x] <= T[c] + D[c])
  BY <1>6, <1>7 DEF Covers
<1>9. SUFFICES ASSUME T[x] < T[c] + D[c] PROVE FALSE
  BY <1>1
<1>10. T[c] <= T[x] /\ (T[c] = T[x] => D[c] >= D[x])
  BY <1>1 DEF Ahead
<1>11. T[c] < T[x] + D[x]
  BY <1>1, <1>10
<1>12. (T[c] <= T[x] /\ T[x] + D[x] <= T[c] + D[c]) \/ (T[x] <= T[c] /\ T[c] + D[c] <= T[x] + D[x])
  BY <1>7, <1>9, <1>11 DEF LieIn, NoneCross
<1> QED
  BY <1>1, <1>8, <1>9, <1>10, <1>12

\* A span fits into what its parent has left.
LEMMA ChildFits ==
  ASSUME NEW n \in Nat, NEW T, NEW D, NEW K, NEW S, SpanTypes(n, T, D, K, S), NEW P, LieIn(T, D, K, S, P),
         NEW Q \in SUBSET S, NEW x \in S, \A c \in Q : Ahead(T, D, c, x), D[x] > 0, NEW p \in S, p = P[x], p # None,
         NEW F, F[p] \in Int, RoomLeft(F, T, D, P, Q, p)
  PROVE  F[p] - D[x] >= 0 /\ F[p] - D[x] >= (T[p] + D[p]) - (T[x] + D[x]) /\ D[p] > 0 /\ p # x
<1>1. p \in 1..n /\ x \in 1..n /\ \A i \in 1..n : T[i] \in Int /\ D[i] \in Int
  BY DEF SpanTypes
<1>2. PICK e \in Int : FreeFrom(e, T, D, P, Q, p) /\ F[p] >= (T[p] + D[p]) - e
  BY DEF RoomLeft
<1>3. Covers(T, D, K, p, x)
  BY DEF LieIn, Innermost
<1>4. T[p] <= T[x] /\ D[p] > 0 /\ T[x] + D[x] <= T[p] + D[p] /\ Ahead(T, D, p, x)
  BY <1>1, <1>3 DEF Covers, Ahead
<1>5. e <= T[x]
  <2>1. CASE e = T[p]
    BY <1>4, <2>1
  <2>2. CASE e # T[p]
    <3>1. PICK c \in Q : P[c] = p /\ D[c] > 0 /\ e = T[c] + D[c]
      BY <1>2, <2>2 DEF FreeFrom
    <3>2. c \in S /\ Ahead(T, D, c, x)
      BY <3>1
    <3>3. T[c] + D[c] <= T[x]
      BY <3>1, <3>2, SiblingsApart
    <3> QED
      BY <3>1, <3>3
  <2> QED
    BY <2>1, <2>2
<1>6. p # x
  <2>1. ~Ahead(T, D, x, x)
    BY <1>1, AheadOrders DEF SpanTypes
  <2> QED
    BY <1>4, <2>1
<1>7. PICK a \in Int, b \in Int, c \in Int, d \in Int, z \in Int : a = T[p] /\ b = D[p] /\ c = T[x] /\ d = D[x] /\ z = F[p]
  BY <1>1
<1>8. z >= (a + b) - e /\ e <= c /\ c + d <= a + b
  BY <1>2, <1>4, <1>5, <1>7
<1>9. z - d >= 0 /\ z - d >= (a + b) - (c + d)
  BY <1>7, <1>8
<1> QED
  BY <1>4, <1>6, <1>7, <1>9

SelfHolds(F, n, T, D, P, S, Q, s, l) ==
  /\ \A i \in S : F[i] \in Int
  /\ \A p \in S : D[p] > 0 => RoomLeft(F, T, D, P, Q, p)
  /\ Added(Along(F, s, l)) = Added(Along(Untaken(D, P, Q, n), s, l))
Takes(G, F, D, P, S, x) ==
  IF P[x] = None \/ D[x] <= 0 THEN \A i \in S : G[i] = F[i]
  ELSE \A i \in S : G[i] = IF i = P[x] THEN Max({0, F[i] - D[x]}) ELSE F[i]

LEMMA SelfTaken ==
  ASSUME NEW n \in Nat, NEW T, NEW D, NEW K, NEW S, SpanTypes(n, T, D, K, S), NEW P, LieIn(T, D, K, S, P),
         \A i \in S : P[i] \in S \cup {None}, NEW l \in Nat, NEW s, ListsSet(s, l, S),
         NEW Q \in SUBSET S, NEW x \in S, x \notin Q, \A c \in Q : Ahead(T, D, c, x),
         NEW F, SelfHolds(F, n, T, D, P, S, Q, s, l), NEW G, Takes(G, F, D, P, S, x)
  PROVE  SelfHolds(G, n, T, D, P, S, Q \cup {x}, s, l)
<1>1. x \in 1..n /\ S \in SUBSET (1..n) /\ \A i \in 1..n : T[i] \in Int /\ D[i] \in Int
  BY DEF SpanTypes
<1>2. PICK R, U, V : R = Q \cup {x} /\ U = Untaken(D, P, Q, n) /\ V = Untaken(D, P, R, n)
  OBVIOUS
<1>3. \A i \in S : F[i] \in Int /\ U[i] \in Int /\ V[i] \in Int
  BY <1>1, <1>2 DEF SelfHolds, Untaken, Lasting
<1>4. /\ U[x] = Lasting(D[x]) /\ V[x] = IF P[x] # None THEN 0 ELSE Lasting(D[x])
      /\ \A i \in S : i # x => V[i] = U[i]
  BY <1>1, <1>2 DEF Untaken
<1>5. Added(Along(U, s, l)) \in Int /\ Added(Along(V, s, l)) = Added(Along(U, s, l)) + (V[x] - U[x])
  BY <1>3, <1>4, AlongChanged
<1>6. Added(Along(F, s, l)) = Added(Along(U, s, l))
  BY <1>2 DEF SelfHolds
<1>7. CASE P[x] = None \/ D[x] <= 0
  <2>1. \A i \in S : G[i] = F[i]
    BY <1>7 DEF Takes
  <2>2. V[x] = U[x]
    BY <1>1, <1>4, <1>7 DEF Lasting
  <2>3. Along(G, s, l) = Along(F, s, l)
    BY <2>1, AlongSame
  <2>4. \A i \in S : V[i] = U[i]
    BY <1>4, <2>2
  <2>5. Along(V, s, l) = Along(U, s, l)
    BY <2>4, AlongSame
  <2>6. ASSUME NEW p \in S, D[p] > 0 PROVE RoomLeft(G, T, D, P, R, p)
    <3>1. RoomLeft(F, T, D, P, Q, p)
      BY <2>6 DEF SelfHolds
    <3> QED
      BY <1>2, <2>1, <3>1 DEF RoomLeft, FreeFrom
  <2> QED
    BY <1>2, <1>3, <1>6, <2>1, <2>3, <2>5, <2>6 DEF SelfHolds
<1>8. CASE ~(P[x] = None \/ D[x] <= 0)
  <2>1. PICK p \in S : p = P[x] /\ p # None
    BY <1>8
  <2>2. D[x] > 0 /\ D[x] \in Int /\ p \in 1..n /\ D[p] \in Int /\ T[p] \in Int /\ T[x] \in Int /\ F[p] \in Int
    BY <1>1, <1>3, <1>8
  <2>3. Innermost(T, D, K, S, p, x)
    BY <2>1, <2>2 DEF LieIn
  <2>4. D[p] > 0
    BY <2>1, <2>3 DEF Innermost, Covers
  <2>5. RoomLeft(F, T, D, P, Q, p)
    BY <2>4 DEF SelfHolds
  <2>6. F[p] - D[x] >= 0 /\ F[p] - D[x] >= (T[p] + D[p]) - (T[x] + D[x]) /\ p # x
    BY <2>1, <2>2, <2>5, ChildFits
  <2>7. PICK z \in Int : z = F[p] - D[x]
    BY <2>2
  <2>8. Max({0, z}) = z
    <3>1. PICK y \in Int : y = 0
      OBVIOUS
    <3>2. Max({y, z}) >= z /\ Max({y, z}) \in {y, z}
      BY <3>1, MaxOfTwo
    <3>3. z >= y
      BY <2>6, <2>7, <3>1
    <3>4. Max({y, z}) = z
      BY <3>2, <3>3
    <3> QED
      BY <3>1, <3>4
  <2>9. \A i \in S : G[i] = IF i = p THEN z ELSE F[i]
    BY <1>8, <2>1, <2>7, <2>8 DEF Takes
  <2>10. \A i \in S : G[i] \in Int
    BY <1>3, <2>9
  <2>11. Added(Along(F, s, l)) \in Int /\ Added(Along(G, s, l)) = Added(Along(F, s, l)) + (G[p] - F[p])
    BY <1>3, <2>9, <2>10, AlongChanged
  <2>12. V[x] - U[x] = G[p] - F[p]
    BY <1>4, <2>1, <2>2, <2>7, <2>9 DEF Lasting
  <2>13. ASSUME NEW i \in S, D[i] > 0 PROVE RoomLeft(G, T, D, P, R, i)
    <3>1. CASE i = p
      <4>1. PICK e \in Int : e = T[x] + D[x]
        BY <2>2
      <4>2. FreeFrom(e, T, D, P, R, p)
        BY <1>2, <2>1, <2>2, <4>1 DEF FreeFrom
      <4>3. G[p] >= (T[p] + D[p]) - e
        BY <2>6, <2>7, <2>9, <4>1
      <4> QED
        BY <3>1, <4>2, <4>3 DEF RoomLeft
    <3>2. CASE i # p
      <4>1. RoomLeft(F, T, D, P, Q, i) /\ G[i] = F[i]
        BY <2>9, <2>13, <3>2 DEF SelfHolds
      <4> QED
        BY <1>2, <4>1 DEF RoomLeft, FreeFrom
    <3> QED
      BY <3>1, <3>2
  <2> QED
    BY <1>2, <1>5, <1>6, <2>10, <2>11, <2>12, <2>13 DEF SelfHolds
<1> QED
  BY <1>7, <1>8

\* What nesting and subtracting do to self times.
LEMMA PlacedSelf ==
  ASSUME NEW e, IsTimed(e), NEW p, NEW v, NEW s
  PROVE  Placed(e, p, v, s).self = s
<1>1. PICK a, b, c : a = [e EXCEPT !["parent"] = p] /\ b = [a EXCEPT !["depth"] = v] /\ c = [b EXCEPT !["self"] = s]
  OBVIOUS
<1>2. {"parent", "depth", "self"} \subseteq EventFields
  BY DEF EventFields
<1>3. SetsField(a, e, "parent", p)
  BY <1>1, <1>2, FieldSet
<1>4. IsTimed(a)
  BY <1>3 DEF SetsField
<1>5. SetsField(b, a, "depth", v)
  BY <1>1, <1>2, <1>4, FieldSet
<1>6. IsTimed(b)
  BY <1>5 DEF SetsField
<1>7. SetsField(c, b, "self", s)
  BY <1>1, <1>2, <1>6, FieldSet
<1>8. c["self"] = s
  BY <1>2, <1>7 DEF SetsField
<1>9. Placed(e, p, v, s) = c
  BY <1>1, Zenon DEF Placed
<1> QED
  BY <1>8, <1>9, Zenon

NestsSelf(r, q, x, n) ==
  IF q[x].kind = "Sample" THEN r = q
  ELSE r[x].self = Max({0, q[x].dur}) /\ r[x].dur = q[x].dur /\ \A j \in 1..n : j # x => r[j] = q[j]

LEMMA NestSelf ==
  ASSUME NEW n \in Nat, NEW ev, DOMAIN ev = 1..n, AreTimed(ev), NEW acc \in NestingOf(ev), NEW x \in 1..n
  PROVE  NestsSelf(NestOne(acc, x).events, acc.events, x, n)
<1>1. PICK q, e, t, r : q = acc.events /\ e = q[x] /\ t = Track(e) /\ r = NestOne(acc, x)
  OBVIOUS
<1>2. acc = [events |-> q, within |-> acc.within, stack |-> acc.stack] /\ q \in Kin(ev)
  BY <1>1 DEF NestingOf
<1>3. IsTimed(e) /\ q = [j \in 1..n |-> q[j]]
  BY <1>1, <1>2, KinHas DEF Kin
<1>4. CASE e.kind = "Sample"
  <2>1. r = acc
    BY <1>1, <1>4 DEF NestOne
  <2> QED
    BY <1>1, <1>4, <2>1 DEF NestsSelf
<1>5. CASE e.kind # "Sample"
  <2>1. PICK rest, p, depth, self, z :
          /\ rest = Remaining(acc.stack[t], e, q) /\ p = ParentOf(e, acc.within[x], rest, q)
          /\ depth = (IF p = None THEN 0 ELSE Min({MaxDepth, q[p].depth + 1})) /\ self = Max({0, e.dur})
          /\ z = IF e.dur > 0 THEN Append(rest, x) ELSE rest
    OBVIOUS
  <2>2. r = [acc EXCEPT !.stack[t] = z, !.events[x] = [e EXCEPT !.parent = p, !.depth = depth, !.self = self]]
    BY <1>1, <1>5, <2>1 DEF NestOne
  <2>3. PICK d : d = Placed(e, p, depth, self)
    OBVIOUS
  <2>4. r = [events |-> [q EXCEPT ![x] = d], within |-> acc.within, stack |-> [acc.stack EXCEPT ![t] = z]]
    <3>1. d = [e EXCEPT !.parent = p, !.depth = depth, !.self = self]
      BY <2>3 DEF Placed
    <3>2. PICK w, stack : w = acc.within /\ stack = acc.stack
      OBVIOUS
    <3>3. acc = [events |-> q, within |-> w, stack |-> stack]
      BY <1>2, <3>2
    <3>4. r = [acc EXCEPT !.stack[t] = z, !.events[x] = d]
      BY <2>2, <3>1
    <3>5. PICK one : one = [acc EXCEPT !.stack[t] = z]
      OBVIOUS
    <3>6. one = [events |-> q, within |-> w, stack |-> [stack EXCEPT ![t] = z]]
      BY <3>3, <3>5
    <3>7. r = [one EXCEPT !.events[x] = d]
      BY <3>4, <3>5
    <3> QED
      BY <3>2, <3>6, <3>7
  <2>5. r.events = [q EXCEPT ![x] = d]
    BY <2>4
  <2>6. r.events[x] = d /\ \A j \in 1..n : j # x => r.events[j] = q[j]
    BY <1>3, <2>5
  <2>7. Placed(e, p, depth, self).self = self /\ SameSpan(Placed(e, p, depth, self), e)
    BY <1>3, PlacedSelf, NestedFields
  <2>8. d.self = self /\ d.dur = e.dur
    BY <2>3, <2>7 DEF SameSpan
  <2> QED
    BY <1>1, <1>5, <2>1, <2>6, <2>8 DEF NestsSelf
<1> QED
  BY <1>4, <1>5

SelfStarts(u, q0, order, n, k) ==
  /\ \A j \in 1..n : u[j].dur = q0[j].dur /\ (q0[j].kind = "Sample" => u[j] = q0[j])
  /\ \A j \in 1..k : q0[order[j]].kind # "Sample" => u[order[j]].self = Max({0, q0[order[j]].dur})

LEMMA NestedSelf ==
  ASSUME NEW n \in Nat, NEW ev, DOMAIN ev = 1..n, AreTimed(ev), NEW paired \in Pairing(ev),
         NEW order \in Seq(DOMAIN ev), NEW m \in Nat, m = Len(order)
  PROVE  SelfStarts(Nested(paired, order), paired.events, order, n, m)
<1>1. PICK g : /\ NestSteps(g, paired, order, m) /\ Nested(paired, order) = g[m].events
               /\ \A k \in 0..m : g[k] \in NestingOf(ev)
  BY NestedFolds
<1>2. PICK q0 : q0 = paired.events
  OBVIOUS
<1>3. q0 \in Kin(ev)
  BY <1>2 DEF Pairing
<1>4. \A j \in 1..m : order[j] \in 1..n
  OBVIOUS
<1> DEFINE Fine == {k \in 0..m : SelfStarts(g[k].events, q0, order, n, k)}
<1>5. 0 \in Fine
  <2>1. g[0] = NestBase(paired) /\ 0 \in 0..m
    BY <1>1 DEF NestSteps
  <2>2. g[0].events = q0
    BY <1>2, <2>1 DEF NestBase
  <2> QED
    BY <2>1, <2>2 DEF SelfStarts
<1>6. ASSUME NEW k \in 0..m, k \in Fine, k < m PROVE k + 1 \in Fine
  <2>1. k + 1 \in 1..m /\ k + 1 \in 0..m /\ (k + 1) - 1 = k /\ k + 1 # 0
    BY <1>6
  <2>2. PICK x, acc, q, r : x = order[k + 1] /\ acc = g[k] /\ q = acc.events /\ r = g[k + 1].events
    OBVIOUS
  <2>3. g[k + 1] = NestOne(acc, x) /\ acc \in NestingOf(ev) /\ x \in 1..n /\ SelfStarts(q, q0, order, n, k)
    BY <1>1, <1>4, <1>6, <2>1, <2>2 DEF NestSteps
  <2>4. NestsSelf(r, q, x, n)
    BY <2>2, <2>3, NestSelf
  <2>5. q[x].kind = q0[x].kind
    <3>1. q \in Kin(ev)
      BY <2>2, <2>3 DEF NestingOf
    <3> QED
      BY <1>3, <2>3, <3>1, KinHas
  <2>6. \A j \in 1..k + 1 : j \in 1..k \/ j = k + 1
    BY <2>1
  <2>7. \A j \in 1..n : q[j].dur = q0[j].dur /\ (q0[j].kind = "Sample" => q[j] = q0[j])
    BY <2>3 DEF SelfStarts
  <2>8. \A j \in 1..k : q0[order[j]].kind # "Sample" => q[order[j]].self = Max({0, q0[order[j]].dur})
    BY <2>3 DEF SelfStarts
  <2>9. CASE q[x].kind = "Sample"
    <3>1. r = q
      BY <2>4, <2>9 DEF NestsSelf
    <3>2. \A j \in 1..k + 1 : q0[order[j]].kind # "Sample" => r[order[j]].self = Max({0, q0[order[j]].dur})
      BY <2>2, <2>5, <2>6, <2>8, <2>9, <3>1
    <3> QED
      BY <2>1, <2>2, <2>7, <3>1, <3>2 DEF SelfStarts
  <2>10. CASE q[x].kind # "Sample"
    <3>1. r[x].self = Max({0, q[x].dur}) /\ r[x].dur = q[x].dur /\ \A j \in 1..n : j # x => r[j] = q[j]
      BY <2>4, <2>10 DEF NestsSelf
    <3>2. \A j \in 1..n : r[j].dur = q0[j].dur /\ (q0[j].kind = "Sample" => r[j] = q0[j])
      BY <2>5, <2>7, <2>10, <3>1
    <3>3. r[x].self = Max({0, q0[x].dur})
      BY <2>3, <2>7, <3>1
    <3>4. ASSUME NEW j \in 1..k + 1, q0[order[j]].kind # "Sample" PROVE r[order[j]].self = Max({0, q0[order[j]].dur})
      <4>1. PICK i : i = order[j]
        OBVIOUS
      <4>2. CASE i = x
        BY <3>3, <4>1, <4>2
      <4>3. CASE i # x
        <5>1. j \in 1..k /\ j \in 1..m
          BY <2>1, <2>2, <2>6, <4>1, <4>3
        <5>2. i \in 1..n /\ r[i] = q[i]
          BY <1>4, <3>1, <4>1, <4>3, <5>1
        <5> QED
          BY <2>8, <3>4, <4>1, <5>1, <5>2
      <4> QED
        BY <4>2, <4>3
    <3> QED
      BY <2>1, <2>2, <3>2, <3>4 DEF SelfStarts
  <2> QED
    BY <2>9, <2>10
<1> HIDE DEF Fine
<1>7. \A k \in 0..m : k \in Fine
  BY <1>5, <1>6, UpTo
<1>8. m \in Fine
  BY <1>7
<1> QED
  BY <1>1, <1>2, <1>8 DEF Fine

Selves(q, n) == [i \in 1..n |-> q[i].self]

LEMMA SubtractSelf ==
  ASSUME NEW n \in Nat, NEW ev, DOMAIN ev = 1..n, AreTimed(ev), NEW q \in Kin(ev), NEW S \in SUBSET (1..n), NEW x \in S,
         NEW P, NEW D, P[x] = q[x].parent, D[x] = q[x].dur, P[x] \in S \cup {None}
  PROVE  Takes(Selves(Subtract(q, x), n), Selves(q, n), D, P, S, x)
<1>1. PICK e, p, c, r : e = q[x] /\ p = e.parent /\ c = Max({0, q[p].self - e.dur}) /\ r = Subtract(q, x)
  OBVIOUS
<1>2. \A i \in S : i \in 1..n
  OBVIOUS
<1>3. CASE p = None \/ e.dur <= 0
  <2>1. r = q
    BY <1>1, <1>3 DEF Subtract
  <2> QED
    BY <1>1, <1>3, <2>1 DEF Takes
<1>4. CASE ~(p = None \/ e.dur <= 0)
  <2>1. p \in S /\ p \in 1..n
    BY <1>1, <1>4
  <2>2. PICK d : d = [q[p] EXCEPT !.self = c]
    OBVIOUS
  <2>3. r = [q EXCEPT ![p] = d]
    BY <1>1, <1>4, <2>2 DEF Subtract
  <2>4. IsTimed(q[p]) /\ q = [j \in 1..n |-> q[j]]
    BY <2>1, KinHas DEF Kin
  <2>5. \A j \in 1..n : r[j] = IF j = p THEN d ELSE q[j]
    BY <2>3, <2>4
  <2>6. d.self = c
    <3>1. PICK b : b = [q[p] EXCEPT !["self"] = c]
      OBVIOUS
    <3>2. "self" \in EventFields
      BY DEF EventFields
    <3>3. SetsField(b, q[p], "self", c)
      BY <2>4, <3>1, <3>2, FieldSet
    <3>4. b["self"] = c
      BY <3>2, <3>3 DEF SetsField
    <3> QED
      BY <2>2, <3>1, <3>4, Zenon
  <2>7. PICK F, G : F = Selves(q, n) /\ G = Selves(r, n)
    OBVIOUS
  <2>8. \A i \in 1..n : F[i] = q[i].self /\ G[i] = IF i = p THEN c ELSE q[i].self
    BY <2>5, <2>6, <2>7 DEF Selves
  <2>9. c = Max({0, F[p] - D[x]})
    BY <1>1, <2>1, <2>8
  <2>10. \A i \in S : G[i] = IF i = P[x] THEN Max({0, F[i] - D[x]}) ELSE F[i]
    BY <1>1, <1>2, <2>1, <2>8, <2>9
  <2> QED
    BY <1>1, <1>4, <2>7, <2>10 DEF Takes
<1> QED
  BY <1>3, <1>4

\* Where no two spans of a thread partly overlap its self times add up to what
\* its roots last.
Roots(D, P, n) == [i \in 1..n |-> IF P[i] = None THEN Lasting(D[i]) ELSE 0]
OrderOf(order, m, T, D, S) ==
  /\ \A j, k \in 1..m : j < k /\ order[j] \in S /\ order[k] \in S => Ahead(T, D, order[j], order[k])
  /\ \A x \in S : \E k \in 1..m : order[k] = x
TakenUpTo(order, k, S) == {i \in S : \E j \in 1..k : order[j] = i}
SpanGiven(v, n, D, P, S) ==
  \A i \in S : D[i] = v[i].dur /\ P[i] = v[i].parent /\ v[i].self = Max({0, v[i].dur}) /\ P[i] \in S \cup {None}

LEMMA SubtractedSelf ==
  ASSUME NEW n \in Nat, NEW ev, DOMAIN ev = 1..n, AreTimed(ev), NEW v \in Kin(ev), NEW M \in SUBSET (1..n), Kindred(v, M),
         NEW order \in Seq(DOMAIN ev), NEW m \in Nat, m = Len(order), \A k \in 1..m : order[k] \in M,
         NEW T, NEW D, NEW K, NEW S, SpanTypes(n, T, D, K, S), NEW P, LieIn(T, D, K, S, P), SpanGiven(v, n, D, P, S),
         OrderOf(order, m, T, D, S), \A k \in 1..m : order[k] \in S \/ v[order[k]].parent = None,
         NEW l \in Nat, NEW s, ListsSet(s, l, S)
  PROVE  Added(Along(Selves(Through(Subtract, v, order), n), s, l)) = Added(Along(Roots(D, P, n), s, l))
<1>1. PICK g : /\ SubtractSteps(g, v, order, m) /\ Through(Subtract, v, order) = g[m]
               /\ \A k \in 0..m : g[k] \in Kin(ev)
  BY SubtractedFolds
<1>2. S \in SUBSET (1..n) /\ \A i \in 1..n : T[i] \in Int /\ D[i] \in Int
  BY DEF SpanTypes
<1>3. \A i \in S : P[i] \in S \cup {None}
  BY DEF SpanGiven
<1> DEFINE Fine == {k \in 0..m : /\ NestAlike(g[k], v, M, n)
                                 /\ SelfHolds(Selves(g[k], n), n, T, D, P, S, TakenUpTo(order, k, S), s, l)}
<1>4. 0 \in Fine
  <2>1. g[0] = v /\ 0 \in 0..m
    BY <1>1 DEF SubtractSteps
  <2>2. PICK F, Q, U : F = Selves(v, n) /\ Q = TakenUpTo(order, 0, S) /\ U = Untaken(D, P, Q, n)
    OBVIOUS
  <2>3. Q = {}
    BY <2>2 DEF TakenUpTo
  <2>4. ASSUME NEW i \in S PROVE F[i] \in Int /\ F[i] = U[i] /\ (D[i] > 0 => F[i] = D[i])
    <3>1. i \in 1..n
      BY <1>2
    <3>2. PICK d \in Int, z \in Int : d = D[i] /\ z = 0
      BY <1>2, <3>1
    <3>3. F[i] = Max({z, d})
      BY <2>2, <3>1, <3>2 DEF Selves, SpanGiven
    <3>4. Max({z, d}) >= z /\ Max({z, d}) >= d /\ Max({z, d}) \in {z, d}
      BY MaxOfTwo
    <3>5. F[i] = Lasting(d)
      BY <3>2, <3>3, <3>4 DEF Lasting
    <3>6. U[i] = Lasting(d)
      BY <2>2, <2>3, <3>1, <3>2 DEF Untaken
    <3> QED
      BY <3>2, <3>5, <3>6 DEF Lasting
  <2>5. Along(F, s, l) = Along(U, s, l)
    BY <2>4, AlongSame
  <2>6. ASSUME NEW p \in S, D[p] > 0 PROVE RoomLeft(F, T, D, P, Q, p)
    <3>1. PICK e \in Int : e = T[p]
      BY <1>2
    <3>2. FreeFrom(e, T, D, P, Q, p)
      BY <3>1 DEF FreeFrom
    <3>3. F[p] = D[p] /\ D[p] \in Int
      BY <1>2, <2>4, <2>6
    <3>4. F[p] >= (T[p] + D[p]) - e
      BY <3>1, <3>3
    <3> QED
      BY <3>2, <3>4 DEF RoomLeft
  <2>7. SelfHolds(F, n, T, D, P, S, Q, s, l)
    BY <2>2, <2>4, <2>5, <2>6 DEF SelfHolds
  <2>8. NestAlike(v, v, M, n)
    BY DEF NestAlike, SameNest, SameSpan
  <2> QED
    BY <2>1, <2>2, <2>7, <2>8
<1>5. ASSUME NEW k \in 0..m, k \in Fine, k < m PROVE k + 1 \in Fine
  <2>1. k + 1 \in 1..m /\ k + 1 \in 0..m /\ (k + 1) - 1 = k /\ k + 1 # 0
    BY <1>5
  <2>2. PICK x, q, r, Q, R : /\ x = order[k + 1] /\ q = g[k] /\ r = g[k + 1]
                             /\ Q = TakenUpTo(order, k, S) /\ R = TakenUpTo(order, k + 1, S)
    OBVIOUS
  <2>3. r = Subtract(q, x) /\ q \in Kin(ev) /\ x \in M /\ NestAlike(q, v, M, n) /\ (x \in S \/ v[x].parent = None)
    BY <1>1, <1>5, <2>1, <2>2 DEF SubtractSteps
  <2>4. NestAlike(r, v, M, n)
    BY <2>3, SubtractIs
  <2>5. SelfHolds(Selves(q, n), n, T, D, P, S, Q, s, l)
    BY <1>5, <2>2
  <2>6. \A j \in 1..k + 1 : j \in 1..k \/ j = k + 1
    BY <2>1
  <2>7. x \in 1..n /\ q[x].parent = v[x].parent /\ q[x].dur = v[x].dur
    BY <2>3 DEF NestAlike, SameNest, SameSpan
  <2>8. CASE x \notin S
    <3>1. r = q
      BY <2>3, <2>7, <2>8 DEF Subtract
    <3>2. R = Q
      <4>1. \A i \in S : (\E j \in 1..k + 1 : order[j] = i) <=> (\E j \in 1..k : order[j] = i)
        BY <2>2, <2>6, <2>8
      <4> QED
        BY <2>2, <4>1 DEF TakenUpTo
    <3> QED
      BY <2>1, <2>2, <2>4, <2>5, <3>1, <3>2
  <2>9. CASE x \in S
    <3>1. R = Q \cup {x}
      <4>1. \A i \in S : (\E j \in 1..k + 1 : order[j] = i) <=> (i = x \/ \E j \in 1..k : order[j] = i)
        BY <2>1, <2>2, <2>6
      <4> QED
        BY <2>2, <2>9, <4>1 DEF TakenUpTo
    <3>2. Q \in SUBSET S
      BY <2>2 DEF TakenUpTo
    <3>3. ASSUME NEW c \in Q PROVE Ahead(T, D, c, x)
      <4>1. PICK j \in 1..k : order[j] = c
        BY <2>2 DEF TakenUpTo
      <4>2. j \in 1..m /\ j < k + 1 /\ c \in S
        BY <2>1, <3>2, <4>1
      <4> QED
        BY <2>1, <2>2, <2>9, <4>1, <4>2 DEF OrderOf
    <3>4. x \notin Q
      <4>1. ~Ahead(T, D, x, x)
        BY <1>2, <2>7, AheadOrders DEF SpanTypes
      <4> QED
        BY <3>3, <4>1
    <3>5. P[x] = q[x].parent /\ D[x] = q[x].dur /\ P[x] \in S \cup {None}
      BY <2>7, <2>9 DEF SpanGiven
    <3>6. PICK F, G : F = Selves(q, n) /\ G = Selves(r, n)
      OBVIOUS
    <3>7. Takes(G, F, D, P, S, x)
      BY <1>2, <2>3, <2>9, <3>5, <3>6, SubtractSelf
    <3>8. SelfHolds(F, n, T, D, P, S, Q, s, l)
      BY <2>5, <3>6
    <3>9. SelfHolds(G, n, T, D, P, S, Q \cup {x}, s, l)
      BY <1>3, <2>9, <3>2, <3>3, <3>4, <3>7, <3>8, SelfTaken
    <3> QED
      BY <2>1, <2>2, <2>4, <3>1, <3>6, <3>9
  <2> QED
    BY <2>8, <2>9
<1> HIDE DEF Fine
<1>6. \A k \in 0..m : k \in Fine
  BY <1>4, <1>5, UpTo
<1>7. m \in Fine
  BY <1>6
<1>8. TakenUpTo(order, m, S) = S
  BY DEF TakenUpTo, OrderOf
<1>9. PICK U, W : U = Untaken(D, P, S, n) /\ W = Roots(D, P, n)
  OBVIOUS
<1>10. \A i \in S : U[i] = W[i]
  BY <1>2, <1>9 DEF Untaken, Roots
<1>11. Along(U, s, l) = Along(W, s, l)
  BY <1>10, AlongSame
<1>12. SelfHolds(Selves(g[m], n), n, T, D, P, S, S, s, l)
  BY <1>7, <1>8 DEF Fine
<1>13. Added(Along(Selves(g[m], n), s, l)) = Added(Along(U, s, l))
  BY <1>9, <1>12 DEF SelfHolds
<1> QED
  BY <1>1, <1>9, <1>11, <1>13

(* Whatever is left open, nesting stays within the thread. *)
Spanned(q, q0, n) == \A j \in 1..n : SameSpan(q[j], q0[j])
WithinThread(acc, q0, M, n) ==
  /\ Untouched(acc.events, q0, M, n) /\ Kindred(acc.events, M) /\ Spanned(acc.events, q0, n)
  /\ \A i \in M : acc.within[i] \in M \cup {None}
  /\ \A t \in Tracks : \A k \in 1..Len(acc.stack[t]) : acc.stack[t][k] \in M

LEMMA NestTouches ==
  ASSUME NEW n \in Nat, NEW ev, DOMAIN ev = 1..n, AreTimed(ev), NEW acc \in NestingOf(ev), NEW M \in SUBSET (1..n), NEW x \in M,
         NEW q0, WithinThread(acc, q0, M, n)
  PROVE  WithinThread(NestOne(acc, x), q0, M, n)
<1>1. PICK q, r, t, T, D : q = acc.events /\ r = NestOne(acc, x) /\ t = Track(q[x]) /\ T = Times(q, n) /\ D = Durs(q, n)
  OBVIOUS
<1>2. x \in 1..n /\ t \in Tracks /\ acc.stack \in [Tracks -> Seq(1..n)]
  BY <1>1 DEF Track, Tracks, NestingOf
<1>3. CASE q[x].kind = "Sample"
  BY <1>1, <1>3 DEF NestOne
<1>4. CASE q[x].kind # "Sample"
  <2>1. Measures(q, T, D, n)
    BY <1>1 DEF Measures, Times, Durs
  <2>2. PICK l, z, s : /\ SpanStacked(acc, r, s, z, t, n) /\ ReachesOver(s, T, D, x, l) /\ Nexts(s, z, D, x, l)
                       /\ GetsParent(q, r.events, x, Chosen(Depths(q, n), Begin(q, n), x, TopOf(s, l), acc.within[x]), n)
    BY <1>1, <1>2, <1>4, <2>1, NestOneIs
  <2>3. z \in Seq(1..n) /\ s = acc.stack[t] /\ r.stack = [acc.stack EXCEPT ![t] = z] /\ r.within = acc.within /\ s \in Seq(1..n)
    BY <1>2, <2>2 DEF SpanStacked
  <2>4. PICK L \in Nat : L = Len(s)
    BY <2>3
  <2>5. l \in 0..L /\ \A k \in 1..L : s[k] \in M
    BY <1>2, <2>2, <2>3, <2>4 DEF ReachesOver, WithinThread
  <2>6. PICK p : p = Chosen(Depths(q, n), Begin(q, n), x, TopOf(s, l), acc.within[x])
    OBVIOUS
  <2>7. p \in M \cup {None}
    <3>1. TopOf(s, l) \in M \cup {None}
      BY <2>5 DEF TopOf
    <3> QED
      BY <2>6, <3>1 DEF Chosen, WithinThread
  <2>8. \A j \in 1..n : r.events[j] = q[j] \/ (j = x /\ r.events[x].parent = p /\ SameSpan(r.events[x], q[x]))
    BY <2>2, <2>6 DEF GetsParent
  <2>9. \A k \in 1..Len(z) : z[k] \in M
    <3>1. Len(z) = (IF D[x] > 0 THEN l + 1 ELSE l) /\ (\A k \in 1..l : z[k] = s[k]) /\ (D[x] > 0 => z[l + 1] = x)
      BY <2>2 DEF Nexts
    <3>2. \A k \in 1..Len(z) : k \in 1..l \/ (D[x] > 0 /\ k = l + 1)
      BY <2>5, <3>1
    <3>3. \A k \in 1..l : k \in 1..L
      BY <2>5
    <3> QED
      BY <2>5, <3>1, <3>2, <3>3
  <2>10. \A u \in Tracks : \A k \in 1..Len(r.stack[u]) : r.stack[u][k] \in M
    BY <1>2, <2>3, <2>9 DEF WithinThread
  <2>11. Untouched(r.events, q0, M, n) /\ Kindred(r.events, M)
    BY <1>1, <2>7, <2>8 DEF WithinThread, Untouched, Kindred
  <2>12. Spanned(r.events, q0, n)
    BY <1>1, <2>8 DEF WithinThread, Spanned, SameSpan
  <2> QED
    BY <1>1, <2>3, <2>10, <2>11, <2>12 DEF WithinThread
<1> QED
  BY <1>3, <1>4

LEMMA NestedTouches ==
  ASSUME NEW n \in Nat, NEW ev, DOMAIN ev = 1..n, AreTimed(ev), NEW paired \in Pairing(ev), NEW M \in SUBSET (1..n),
         Kindred(paired.events, M), \A i \in M : paired.within[i] \in M \cup {None},
         NEW order \in Seq(DOMAIN ev), NEW m \in Nat, m = Len(order), \A k \in 1..m : order[k] \in M
  PROVE  /\ Untouched(Nested(paired, order), paired.events, M, n) /\ Kindred(Nested(paired, order), M)
         /\ Spanned(Nested(paired, order), paired.events, n)
<1>1. PICK g : /\ NestSteps(g, paired, order, m) /\ Nested(paired, order) = g[m].events
               /\ \A k \in 0..m : g[k] \in NestingOf(ev)
  BY NestedFolds
<1>2. PICK q0 : q0 = paired.events
  OBVIOUS
<1> DEFINE Fine == {k \in 0..m : WithinThread(g[k], q0, M, n)}
<1>3. 0 \in Fine
  <2>1. g[0] = NestBase(paired) /\ 0 \in 0..m
    BY <1>1 DEF NestSteps
  <2>2. g[0].events = q0 /\ g[0].within = paired.within /\ g[0].stack = NoOpen
    BY <1>2, <2>1 DEF NestBase
  <2>3. \A t \in Tracks : NoOpen[t] = <<>>
    BY DEF NoOpen, Tracks
  <2> QED
    BY <1>2, <2>1, <2>2, <2>3 DEF WithinThread, Untouched, Spanned, SameSpan
<1>4. ASSUME NEW k \in 0..m, k \in Fine, k < m PROVE k + 1 \in Fine
  <2>1. k + 1 \in 1..m /\ k + 1 \in 0..m /\ (k + 1) - 1 = k /\ k + 1 # 0
    BY <1>4
  <2>2. PICK x, acc : x = order[k + 1] /\ acc = g[k]
    OBVIOUS
  <2>3. g[k + 1] = NestOne(acc, x) /\ acc \in NestingOf(ev) /\ x \in M /\ WithinThread(acc, q0, M, n)
    BY <1>1, <1>4, <2>1, <2>2 DEF NestSteps
  <2>4. WithinThread(NestOne(acc, x), q0, M, n)
    BY <2>3, NestTouches
  <2> QED
    BY <2>1, <2>3, <2>4
<1> HIDE DEF Fine
<1>5. \A k \in 0..m : k \in Fine
  BY <1>3, <1>4, UpTo
<1>6. m \in Fine
  BY <1>5
<1> QED
  BY <1>1, <1>2, <1>6 DEF Fine, WithinThread

(* Events that are neither begins nor ends nor samples are nested as they are. *)
PlainLike(d, e) == d.ph = e.ph /\ d.ts = e.ts /\ d.dur = e.dur /\ d.pid = e.pid /\ d.tid = e.tid /\ d.kind = e.kind

LEMMA PlainStarts ==
  ASSUME NEW e, IsTimed(e), e.ph # "P", NEW frames
  PROVE  PlainLike(Reset(ResolveEvent(e, frames)), e)
<1>1. DOMAIN e = EventFields /\ {"ph", "ts", "dur", "pid", "tid", "kind"} \subseteq EventFields
  <2>1. PICK f : f = [x \in EventFields |-> e[x]]
    OBVIOUS
  <2>2. DOMAIN f = EventFields /\ e = f
    BY <2>1 DEF IsTimed
  <2> QED
    BY <2>2 DEF EventFields
<1>a. PICK f, good : f = FrameOf(frames, e.sf) /\ good = (f # None /\ frames[f].valid)
  OBVIOUS
<1>b. PICK a, b, c : /\ a = IF good THEN f ELSE None
                     /\ b = IF good /\ e.ph = "P" THEN frames[f].name ELSE e.name
                     /\ c = IF good /\ e.ph = "P" /\ frames[f].cat # EmptyText THEN frames[f].cat ELSE e.cat
  OBVIOUS
<1>2. PICK d : d = ResolveEvent(e, frames) /\ d = [e EXCEPT !.frame = a, !.name = b, !.cat = c]
  BY <1>a, <1>b DEF ResolveEvent
<1>3. DOMAIN d = EventFields /\ PlainLike(d, e)
  BY <1>1, <1>2 DEF PlainLike
<1>4. PICK r : r = Reset(d)
  OBVIOUS
<1>5. d.ph # "P"
  BY <1>3 DEF PlainLike
<1>6. r = [d EXCEPT !.parent = None, !.depth = 0, !.self = 0, !.ended = FALSE, !.kind = d.kind, !.dur = d.dur]
  BY <1>4, <1>5 DEF Reset
<1>7. PlainLike(r, d)
  BY <1>1, <1>3, <1>6 DEF PlainLike
<1> QED
  BY <1>2, <1>3, <1>4, <1>7 DEF PlainLike

NeverPaired(q) == \A i \in DOMAIN q : q[i].ph \notin {"B", "E"}

LEMMA PairedPlain ==
  ASSUME NEW n \in Nat, NEW q, DOMAIN q = 1..n, AreTimed(q), q \in Kin(q), NeverPaired(q), NEW th
  PROVE  Paired(q, th).events = q
<1>1. PICK order : order = PairOrder(q, th)
  OBVIOUS
<1>2. order \in Seq(1..n)
  BY <1>1, PairOrderSorts DEF PairSorts
<1>3. PICK m \in Nat : m = Len(order)
  BY <1>2
<1>4. PICK g : PairSteps(g, q, order, m) /\ Paired(q, th) = g[m]
  BY <1>1, <1>3, PairedFolds
<1> DEFINE S == {k \in 0..m : g[k].events = q}
<1>5. 0 \in S
  <2>1. g[0] = PairBase(q)
    BY <1>4 DEF PairSteps
  <2> QED
    BY <2>1 DEF PairBase
<1>6. ASSUME NEW k \in 0..m, k \in S, k < m PROVE k + 1 \in S
  <2>1. k + 1 \in 0..m /\ k + 1 # 0 /\ (k + 1) - 1 = k /\ k + 1 \in 1..m /\ g[k].events = q
    BY <1>6
  <2>2. g[k + 1] = PairOne(g[k], order[k + 1])
    BY <1>4, <2>1 DEF PairSteps
  <2>3. order[k + 1] \in DOMAIN q
    BY <1>2, <1>3, <2>1, SMTT(40)
  <2>4. g[k].events[order[k + 1]].ph \notin {"B", "E"}
    BY <2>1, <2>3, SMTT(30) DEF NeverPaired
  <2>5. PairOne(g[k], order[k + 1]) = g[k]
    BY <2>4 DEF PairOne
  <2> QED
    BY <2>1, <2>2, <2>5
<1> HIDE DEF S
<1>7. \A k \in 0..m : k \in S
  BY <1>5, <1>6, UpTo
<1>8. m \in S
  BY <1>7
<1> QED
  BY <1>4, <1>8 DEF S

(* A thread. *)
MatchedIn(q, th) == \A i \in DOMAIN q :
  ThreadOf(q[i]) = th /\ q[i].ph = "B" =>
    Cardinality({j \in DOMAIN q : q[j].ph = "B" /\ Track(q[j]) = Track(q[i]) /\ ThreadOf(q[j]) = th})
      = Cardinality({j \in DOMAIN q : q[j].ended /\ Track(q[j]) = Track(q[i]) /\ ThreadOf(q[j]) = th})
LiesIn(q, n, S, i) ==
  /\ Belongs(Times(q, n), Durs(q, n), S, q[i].parent, i)
  /\ q[i].ph # "B" \/ (q[i].dur > 0 /\ NoneCross(Times(q, n), Durs(q, n), Sides(q, n), S)) =>
       Innermost(Times(q, n), Durs(q, n), Sides(q, n), S, q[i].parent, i)
SelfAdds(q, n, S) ==
  NoneCross(Times(q, n), Durs(q, n), Sides(q, n), S) =>
    \A l, s : l \in Nat /\ ListsSet(s, l, S) =>
      Added(Along(Selves(q, n), s, l)) = Added(Along(Roots(Durs(q, n), Parents(q, n), n), s, l))
ThreadNested(q, n, th) ==
  MatchedIn(q, th) => SelfAdds(q, n, SpansOf(q, th)) /\ \A i \in SpansOf(q, th) : LiesIn(q, n, SpansOf(q, th), i)
Unindexed(q, th) == \A i \in DOMAIN q : ThreadOf(q[i]) = th => ~q[i].ended /\ q[i].parent = None
BeginsLast(q) == \A i \in DOMAIN q : q[i].kind = "Sample" => q[i].ph # "B"

LEMMA ThreadNests ==
  ASSUME NEW n \in Nat, NEW q, DOMAIN q = 1..n, AreTimed(q), q \in Kin(q), NEW th, Unindexed(q, th), BeginsLast(q)
  PROVE  /\ ThreadNested(IndexThread(q, th), n, th) /\ Untouched(IndexThread(q, th), q, OfThread(q, th), n)
         /\ Spanned(IndexThread(q, th), Paired(q, th).events, n)
<1>1. PICK r, acc, M : r = IndexThread(q, th) /\ acc = Paired(q, th) /\ M = OfThread(q, th)
  OBVIOUS
<1>2. PICK C, T, K, q0, W : C = {i \in M : q[i].ph = "B"} /\ T = Times(q, n) /\ K = Sides(q, n) /\ q0 = acc.events /\ W = acc.within
  OBVIOUS
<1>3. M \in SUBSET (1..n) /\ \A i \in 1..n : i \in M <=> ThreadOf(q[i]) = th /\ q[i].ph \notin {"M", "C"}
  BY <1>1 DEF OfThread, Timed
<1>4. \A i \in M : ~q[i].ended /\ q[i].parent = None
  BY <1>3 DEF Unindexed
<1>5. /\ acc \in Pairing(q) /\ \E now \in Int : PairHolds(acc, T, K, C, n, now)
      /\ PairCount(acc, K, C, M, {}) /\ Untouched(acc.events, q, M, n) /\ SameParents(acc.events, q, n)
  BY <1>1, <1>2, <1>4, PairedIs
<1>6. q0 \in Kin(q) /\ acc.open \in [Tracks -> Seq(1..n)] /\ W \in [1..n -> 0..n]
  <2>1. 1..n \cup {None} = 0..n
    BY DEF None
  <2> QED
    BY <1>2, <1>5, <2>1 DEF Pairing
<1>7. DOMAIN q0 = 1..n /\ AreTimed(q0)
  BY <1>6, KinTimed
<1>8. PICK D : D = Durs(q0, n)
  OBVIOUS
<1>9. PICK now \in Int : PairsNest(D, W, OpenNow(n, acc.open, K), T, K, C, now) /\ StacksRise(acc.open, T, K, C)
                         /\ \A i \in (1..n) \ C : W[i] = None
  BY <1>2, <1>5, <1>8 DEF PairHolds
<1>10. C \in SUBSET M /\ \A i \in M : W[i] \in M \cup {None}
  <2>1. C \in SUBSET M
    BY <1>2
  <2>2. \A i \in C : W[i] # None => W[i] \in C
    BY <1>9 DEF PairsNest
  <2> QED
    BY <1>3, <1>9, <2>1, <2>2
<1>11. Kindred(q0, M)
  BY <1>2, <1>3, <1>4, <1>5 DEF Kindred, SameParents
<1>12. \A i \in 1..n : /\ q0[i].ph = q[i].ph /\ q0[i].kind = q[i].kind /\ q0[i].ts = q[i].ts
                       /\ q0[i].pid = q[i].pid /\ q0[i].tid = q[i].tid
  BY <1>6, KinHas
<1>13. OfThread(q0, th) = M
  BY <1>1, <1>7, <1>12 DEF OfThread, Timed, ThreadOf
<1>14. PICK order : order = NestOrder(q0, th)
  OBVIOUS
<1>15. NestSorts(q0, th) /\ order \in Seq(DOMAIN q)
  BY <1>7, <1>14, NestOrderSorts
<1>16. PICK m \in Nat : m = Len(order)
  BY <1>15
<1>17. \A k \in 1..m : order[k] \in M
  <2>1. order \in Seq(NestMembers(q0, th))
    BY <1>14, <1>15 DEF NestSorts, Sorts
  <2> QED
    BY <1>13, <1>16, <2>1 DEF NestMembers
<1>18. PICK v : v = Nested(acc, order)
  OBVIOUS
<1>19. Untouched(v, q0, M, n) /\ Kindred(v, M) /\ Spanned(v, q0, n)
  BY <1>2, <1>3, <1>5, <1>10, <1>11, <1>15, <1>16, <1>17, <1>18, NestedTouches
<1>20. v \in Kin(q)
  BY <1>5, <1>15, <1>18, NestedKeeps
<1>21. r = Through(Subtract, v, order)
  BY <1>1, <1>2, <1>14, <1>18 DEF IndexThread
<1>22. NestAlike(r, v, M, n)
  BY <1>3, <1>15, <1>16, <1>17, <1>19, <1>20, <1>21, SubtractedIs
<1>23. r \in Kin(q)
  BY <1>1, ThreadKeeps
<1>24. \A i \in 1..n : /\ r[i].ph = q[i].ph /\ r[i].kind = q[i].kind /\ r[i].ts = q[i].ts /\ r[i].pid = q[i].pid /\ r[i].tid = q[i].tid
                       /\ Track(r[i]) = K[i] /\ ThreadOf(r[i]) = ThreadOf(q[i])
  <2>1. \A i \in 1..n : /\ r[i].ph = q[i].ph /\ r[i].kind = q[i].kind /\ r[i].ts = q[i].ts /\ r[i].pid = q[i].pid /\ r[i].tid = q[i].tid
    BY <1>23, KinHas
  <2> QED
    BY <1>2, <2>1 DEF Sides, Track, ThreadOf
<1>25. Untouched(r, q, M, n)
  BY <1>2, <1>5, <1>19, <1>22 DEF Untouched, NestAlike
<1>26. \A i \in 1..n : r[i].dur = q0[i].dur /\ r[i].ended = q0[i].ended /\ r[i].parent = v[i].parent
  BY <1>19, <1>22 DEF Spanned, NestAlike, SameNest, SameSpan
<1>27. DOMAIN r = 1..n
  BY <1>23 DEF Kin
<1>28. ASSUME MatchedIn(r, th) PROVE SelfAdds(r, n, SpansOf(r, th)) /\ \A i \in SpansOf(r, th) : LiesIn(r, n, SpansOf(r, th), i)
  <2>1. ASSUME NEW i \in C PROVE Cardinality({j \in C : K[j] = K[i]}) = Cardinality(EndsAre(acc, K, M, K[i]))
    <3>1. i \in 1..n /\ ThreadOf(r[i]) = th /\ r[i].ph = "B" /\ Track(r[i]) = K[i]
      BY <1>2, <1>3, <1>24
    <3>2. {j \in DOMAIN r : r[j].ph = "B" /\ Track(r[j]) = Track(r[i]) /\ ThreadOf(r[j]) = th} = {j \in C : K[j] = K[i]}
      <4>1. \A j \in 1..n : Track(r[j]) = K[j] /\ r[j].ph = q[j].ph /\ ThreadOf(r[j]) = ThreadOf(q[j])
        BY <1>24
      <4>2. \A j \in 1..n : j \in C <=> q[j].ph = "B" /\ ThreadOf(q[j]) = th
        BY <1>2, <1>3
      <4>3. \A j \in C : j \in 1..n
        BY <1>2, <1>3
      <4> QED
        BY <1>27, <3>1, <4>1, <4>2, <4>3
    <3>3. {j \in DOMAIN r : r[j].ended /\ Track(r[j]) = Track(r[i]) /\ ThreadOf(r[j]) = th} = EndsAre(acc, K, M, K[i])
      <4>1. ASSUME NEW j \in 1..n, ThreadOf(r[j]) = th, r[j].ended PROVE j \in M
        <5>1. r[j] = q[j] => ~r[j].ended
          BY <1>24, <4>1 DEF Unindexed
        <5> QED
          BY <1>25, <4>1, <5>1 DEF Untouched
      <4>2. \A j \in M : j \in 1..n /\ ThreadOf(r[j]) = th
        BY <1>3, <1>24
      <4>3. \A j \in 1..n : Track(r[j]) = K[j] /\ Track(r[i]) = K[i] /\ r[j].ended = acc.events[j].ended
        BY <1>2, <1>24, <1>26, <3>1
      <4> QED
        BY <1>27, <4>1, <4>2, <4>3 DEF EndsAre
    <3> QED
      BY <1>27, <1>28, <3>1, <3>2, <3>3 DEF MatchedIn
  <2>2. K \in [1..n -> Tracks]
    BY <1>2 DEF Sides, Track, Tracks
  <2>3. OpenNow(n, acc.open, K) = {}
    BY <1>3, <1>5, <1>6, <1>9, <1>10, <2>1, <2>2, MatchedCloses
  <2>4. NestGiven(n, q, q0, T, D, K, W, C, M)
    BY <1>2, <1>3, <1>6, <1>8, <1>9, <2>3 DEF NestGiven
  <2>5. \A i \in C : ~q0[i].ended /\ q[i].kind # "Sample"
    <3>1. \A i \in C : i \in M /\ i \in 1..n /\ q[i].ph = "B"
      BY <1>2, <1>3
    <3>2. \A i \in M : q0[i].ended => q0[i].ph = "E"
      BY <1>2, <1>5 DEF PairCount
    <3> QED
      BY <1>12, <3>1, <3>2 DEF BeginsLast
  <2>6. IsNested(v, n, q0, T, D, K, C, M, SpansOf(q0, th))
    BY <1>1, <1>2, <1>5, <1>14, <1>18, <2>4, <2>5, NestedIs
  <2>7. PICK S : S = SpansOf(q0, th)
    OBVIOUS
  <2>8. OfThread(r, th) = M
    BY <1>3, <1>24, <1>27 DEF OfThread, Timed
  <2>9. SpansOf(r, th) = S /\ S \subseteq M
    <3>1. S = {i \in M : ~q0[i].ended /\ q0[i].kind # "Sample"}
      BY <1>13, <2>7 DEF SpansOf, NestMembers
    <3>2. SpansOf(r, th) = {i \in M : ~r[i].ended /\ r[i].kind # "Sample"}
      BY <2>8 DEF SpansOf, NestMembers
    <3>3. \A i \in M : i \in 1..n /\ r[i].ended = q0[i].ended /\ r[i].kind = q0[i].kind
      BY <1>3, <1>12, <1>24, <1>26
    <3> QED
      BY <3>1, <3>2, <3>3
  <2>10. Times(r, n) = T /\ Durs(r, n) = D /\ Sides(r, n) = K
    <3>1. Times(r, n) = T
      BY <1>2, <1>24 DEF Times
    <3>2. Durs(r, n) = D
      BY <1>8, <1>26 DEF Durs
    <3>3. Sides(r, n) = [i \in 1..n |-> K[i]]
      BY <1>24 DEF Sides
    <3> QED
      BY <2>2, <3>1, <3>2, <3>3
  <2>11. ASSUME NEW i \in S PROVE LiesIn(r, n, S, i)
    <3>1. PICK p : p = r[i].parent
      OBVIOUS
    <3>2. i \in M /\ i \in 1..n
      BY <1>3, <2>9
    <3>3. Parents(v, n)[i] = p
      BY <1>26, <3>1, <3>2 DEF Parents
    <3>4. NestHolds(Parents(v, n), Depths(v, n), T, D, K, S, C)
      BY <2>6, <2>7 DEF IsNested
    <3>5. /\ Belongs(T, D, S, p, i)
          /\ i \notin C => Innermost(T, D, K, S, p, i)
          /\ NoneCross(T, D, K, S) /\ D[i] > 0 => Innermost(T, D, K, S, p, i)
      BY <3>3, <3>4 DEF NestHolds
    <3>6. (r[i].ph # "B" => i \notin C) /\ D[i] = r[i].dur
      BY <1>2, <1>8, <1>24, <1>26, <3>2 DEF Durs
    <3>7. LiesIn(r, n, S, i) <=>
            /\ Belongs(T, D, S, p, i)
            /\ r[i].ph # "B" \/ (r[i].dur > 0 /\ NoneCross(T, D, K, S)) => Innermost(T, D, K, S, p, i)
      BY <2>10, <3>1 DEF LiesIn
    <3> QED
      BY <3>5, <3>6, <3>7
  <2>12. ASSUME NoneCross(T, D, K, S), NEW l \in Nat, NEW s, ListsSet(s, l, S)
         PROVE  Added(Along(Selves(r, n), s, l)) = Added(Along(Roots(D, Parents(r, n), n), s, l))
    <3>1. PICK P, N : P = Parents(v, n) /\ N = NestMembers(q0, th)
      OBVIOUS
    <3>2. N \subseteq M /\ S = {i \in N : q0[i].kind # "Sample"} /\ \A i \in M : i \in 1..n
      BY <1>3, <1>13, <2>7, <3>1 DEF SpansOf, NestMembers
    <3>3. NestHolds(P, Depths(v, n), T, D, K, S, C)
      BY <2>6, <2>7, <3>1 DEF IsNested
    <3>4. SpanTypes(n, T, D, K, S) /\ S \in SUBSET (1..n)
      <4>1. \A i \in 1..n : q[i].ts \in Int /\ q0[i].dur \in Int
        BY <1>7 DEF AreTimed, IsTimed, HasTimes
      <4>2. T \in [1..n -> Int] /\ D \in [1..n -> Int]
        BY <1>2, <1>8, <4>1 DEF Times, Durs, AreTimed, IsTimed, HasTimes
      <4> QED
        BY <2>2, <3>2, <4>2 DEF SpanTypes
    <3>5. LieIn(T, D, K, S, P) /\ \A i \in S : P[i] \in S \cup {None}
      BY <2>12, <3>3 DEF NestHolds, LieIn, Belongs
    <3>6. SelfStarts(v, q0, order, n, m)
      BY <1>2, <1>5, <1>15, <1>16, <1>18, NestedSelf
    <3>7. PICK R : R = {p \in N \X N : NestBefore(q0, p[1], p[2])}
      OBVIOUS
    <3>8. Sorts(order, N, R)
      BY <1>14, <1>15, <3>1, <3>7 DEF NestSorts
    <3>9. /\ \A k \in 1..m : order[k] \in N
          /\ \A x \in N : \E k \in 1..m : order[k] = x
          /\ \A j, k \in 1..m : j < k => <<order[j], order[k]>> \in R
      BY <1>16, <3>8 DEF Sorts
    <3>10. \A a, b \in N : <<a, b>> \in R => NestBefore(q0, a, b)
      BY <3>7
    <3>11. ASSUME NEW j \in 1..m, NEW k \in 1..m, j < k PROVE Ahead(T, D, order[j], order[k])
      <4>1. PICK a, b : a = order[j] /\ b = order[k]
        OBVIOUS
      <4>2. a \in N /\ b \in N /\ NestBefore(q0, a, b)
        BY <3>9, <3>10, <3>11, <4>1
      <4>3. a \in 1..n /\ b \in 1..n
        BY <3>2, <4>2
      <4>4. T[a] = q0[a].ts /\ T[b] = q0[b].ts /\ D[a] = q0[a].dur /\ D[b] = q0[b].dur
        BY <1>2, <1>8, <1>12, <4>3 DEF Times, Durs
      <4>5. Ahead(T, D, a, b)
        BY <4>2, <4>4 DEF Ahead, NestBefore
      <4> QED
        BY <4>1, <4>5
    <3>12. OrderOf(order, m, T, D, S)
      BY <3>2, <3>9, <3>11 DEF OrderOf
    <3>13. ASSUME NEW i \in S PROVE D[i] = v[i].dur /\ P[i] = v[i].parent /\ v[i].self = Max({0, v[i].dur})
      <4>1. i \in 1..n /\ i \in N /\ q0[i].kind # "Sample"
        BY <3>2, <3>4
      <4>2. PICK k \in 1..m : order[k] = i
        BY <3>9, <4>1
      <4>3. v[i].self = Max({0, q0[i].dur}) /\ v[i].dur = q0[i].dur
        BY <3>6, <4>1, <4>2 DEF SelfStarts
      <4>4. D[i] = q0[i].dur /\ P[i] = v[i].parent
        BY <1>8, <3>1, <4>1 DEF Durs, Parents
      <4> QED
        BY <4>3, <4>4
    <3>14. SpanGiven(v, n, D, P, S)
      BY <3>5, <3>13 DEF SpanGiven
    <3>15. ASSUME NEW k \in 1..m, order[k] \notin S PROVE v[order[k]].parent = None
      <4>1. PICK i : i = order[k]
        OBVIOUS
      <4>2. i \in M /\ i \in 1..n /\ q0[i].kind = "Sample"
        BY <1>17, <3>2, <3>9, <3>15, <4>1
      <4>3. v[i] = q0[i]
        BY <3>6, <4>2 DEF SelfStarts
      <4>4. q0[i].parent = None
        BY <1>2, <1>4, <1>5, <4>2 DEF SameParents
      <4> QED
        BY <4>1, <4>3, <4>4
    <3>16. \A k \in 1..m : order[k] \in S \/ v[order[k]].parent = None
      BY <3>15
    <3>17. Added(Along(Selves(r, n), s, l)) = Added(Along(Roots(D, P, n), s, l))
      BY <1>3, <1>15, <1>16, <1>17, <1>19, <1>20, <1>21, <2>12, <3>4, <3>5, <3>12, <3>14, <3>16, SubtractedSelf, SMTT(60)
    <3>18. Parents(r, n) = P
      BY <1>26, <3>1 DEF Parents
    <3> QED
      BY <3>17, <3>18
  <2>13. SelfAdds(r, n, S)
    BY <2>10, <2>12 DEF SelfAdds
  <2> QED
    BY <2>9, <2>11, <2>13
<1>29. Spanned(r, acc.events, n)
  BY <1>2, <1>26 DEF Spanned, SameSpan
<1> QED
  BY <1>1, <1>25, <1>28, <1>29 DEF ThreadNested

-----------------------------------------------------------------------------
(* All threads.  What is nested in one stays so while others are indexed. *)
LEMMA InnermostSame ==
  ASSUME NEW n \in Nat, NEW T, NEW K, NEW D \in [1..n -> Int], NEW E \in [1..n -> Int], NEW S \in SUBSET (1..n),
         \A a \in S : D[a] = E[a], NEW i \in S, NEW p
  PROVE  /\ Belongs(T, D, S, p, i) => Belongs(T, E, S, p, i)
         /\ Innermost(T, D, K, S, p, i) => Innermost(T, E, K, S, p, i)
         /\ NoneCross(T, E, K, S) => NoneCross(T, D, K, S)
<1>1. \A a, b \in S : (Ahead(T, D, a, b) <=> Ahead(T, E, a, b)) /\ (Covers(T, D, K, a, b) <=> Covers(T, E, K, a, b))
  BY DEF Ahead, Covers
<1>2. Belongs(T, D, S, p, i) => Belongs(T, E, S, p, i)
  BY <1>1 DEF Belongs
<1>3. Innermost(T, D, K, S, p, i) => Innermost(T, E, K, S, p, i)
  BY <1>1 DEF Innermost
<1>4. NoneCross(T, E, K, S) => NoneCross(T, D, K, S)
  BY DEF NoneCross
<1> QED
  BY <1>2, <1>3, <1>4

AlikeIn(r, q, th, n) == \A j \in 1..n : ThreadOf(q[j]) = th => r[j] = q[j]

LEMMA OthersStay ==
  ASSUME NEW n \in Nat, NEW ev, DOMAIN ev = 1..n, AreTimed(ev), NEW q \in Kin(ev), NEW r \in Kin(ev), NEW th, AlikeIn(r, q, th, n)
  PROVE  /\ Unindexed(q, th) => Unindexed(r, th)
         /\ ThreadNested(q, n, th) => ThreadNested(r, n, th)
<1>1. DOMAIN q = 1..n /\ DOMAIN r = 1..n
  BY DEF Kin
<1>2. \A i \in 1..n : /\ r[i].ts = q[i].ts /\ r[i].ph = q[i].ph /\ r[i].kind = q[i].kind /\ r[i].pid = q[i].pid /\ r[i].tid = q[i].tid
                      /\ q[i].dur \in Int /\ r[i].dur \in Int
  BY KinHas DEF HasTimes
<1>3. \A i \in 1..n : ThreadOf(r[i]) = ThreadOf(q[i]) /\ Track(r[i]) = Track(q[i])
  BY <1>2 DEF ThreadOf, Track
<1>4. \A i \in 1..n : ThreadOf(q[i]) = th => r[i] = q[i]
  BY DEF AlikeIn
<1>5. Unindexed(q, th) => Unindexed(r, th)
  BY <1>1, <1>3, <1>4 DEF Unindexed
<1>6. MatchedIn(r, th) => MatchedIn(q, th)
  <2>1. ASSUME NEW i \in 1..n, ThreadOf(q[i]) = th
        PROVE  /\ {j \in 1..n : r[j].ph = "B" /\ Track(r[j]) = Track(r[i]) /\ ThreadOf(r[j]) = th}
                    = {j \in 1..n : q[j].ph = "B" /\ Track(q[j]) = Track(q[i]) /\ ThreadOf(q[j]) = th}
               /\ {j \in 1..n : r[j].ended /\ Track(r[j]) = Track(r[i]) /\ ThreadOf(r[j]) = th}
                    = {j \in 1..n : q[j].ended /\ Track(q[j]) = Track(q[i]) /\ ThreadOf(q[j]) = th}
    <3>1. {j \in 1..n : r[j].ph = "B" /\ Track(r[j]) = Track(r[i]) /\ ThreadOf(r[j]) = th}
                    = {j \in 1..n : q[j].ph = "B" /\ Track(q[j]) = Track(q[i]) /\ ThreadOf(q[j]) = th}
      BY <1>2, <1>3, <2>1
    <3>2. {j \in 1..n : r[j].ended /\ Track(r[j]) = Track(r[i]) /\ ThreadOf(r[j]) = th}
                    = {j \in 1..n : q[j].ended /\ Track(q[j]) = Track(q[i]) /\ ThreadOf(q[j]) = th}
      BY <1>3, <1>4, <2>1
    <3> QED
      BY <3>1, <3>2
  <2>2. \A i \in 1..n : ThreadOf(r[i]) = ThreadOf(q[i]) /\ r[i].ph = q[i].ph
    BY <1>2, <1>3
  <2>3. ASSUME MatchedIn(r, th), NEW i \in 1..n, ThreadOf(q[i]) = th, q[i].ph = "B"
        PROVE  Cardinality({j \in 1..n : q[j].ph = "B" /\ Track(q[j]) = Track(q[i]) /\ ThreadOf(q[j]) = th})
                 = Cardinality({j \in 1..n : q[j].ended /\ Track(q[j]) = Track(q[i]) /\ ThreadOf(q[j]) = th})
    <3>1. ThreadOf(r[i]) = th /\ r[i].ph = "B"
      BY <2>2, <2>3
    <3>2. Cardinality({j \in 1..n : r[j].ph = "B" /\ Track(r[j]) = Track(r[i]) /\ ThreadOf(r[j]) = th})
                 = Cardinality({j \in 1..n : r[j].ended /\ Track(r[j]) = Track(r[i]) /\ ThreadOf(r[j]) = th})
      BY <1>1, <2>3, <3>1 DEF MatchedIn
    <3> QED
      BY <2>1, <2>3, <3>2
  <2> QED
    BY <1>1, <2>3 DEF MatchedIn
<1>7. ASSUME ThreadNested(q, n, th), MatchedIn(r, th)
      PROVE  SelfAdds(r, n, SpansOf(r, th)) /\ \A i \in SpansOf(r, th) : LiesIn(r, n, SpansOf(r, th), i)
  <2>1. PICK S : S = SpansOf(q, th)
    OBVIOUS
  <2>2. SpansOf(r, th) = S /\ S \in SUBSET (1..n) /\ \A a \in S : r[a] = q[a]
    <3>1. \A a \in 1..n : a \in SpansOf(q, th) <=> q[a].ph \notin {"M", "C"} /\ ThreadOf(q[a]) = th /\ ~q[a].ended /\ q[a].kind # "Sample"
      BY <1>1 DEF SpansOf, NestMembers, OfThread, Timed
    <3>2. \A a \in 1..n : a \in SpansOf(r, th) <=> r[a].ph \notin {"M", "C"} /\ ThreadOf(r[a]) = th /\ ~r[a].ended /\ r[a].kind # "Sample"
      BY <1>1 DEF SpansOf, NestMembers, OfThread, Timed
    <3>3. SpansOf(q, th) \subseteq 1..n /\ SpansOf(r, th) \subseteq 1..n
      BY <1>1 DEF SpansOf, NestMembers, OfThread
    <3>4. \A a \in 1..n : a \in SpansOf(q, th) <=> a \in SpansOf(r, th)
      <4>1. ASSUME NEW a \in 1..n, ThreadOf(q[a]) = th PROVE a \in SpansOf(q, th) <=> a \in SpansOf(r, th)
        <5>1. r[a] = q[a]
          BY <1>4, <4>1
        <5> QED
          BY <3>1, <3>2, <5>1
      <4>2. ASSUME NEW a \in 1..n, ThreadOf(q[a]) # th PROVE a \notin SpansOf(q, th) /\ a \notin SpansOf(r, th)
        <5>1. ThreadOf(r[a]) # th
          BY <1>3, <4>2
        <5> QED
          BY <3>1, <3>2, <4>2, <5>1
      <4> QED
        BY <4>1, <4>2
    <3> QED
      BY <1>4, <2>1, <3>1, <3>3, <3>4
  <2>3. PICK T, K, D, E : T = Times(q, n) /\ K = Sides(q, n) /\ D = Durs(q, n) /\ E = Durs(r, n)
    OBVIOUS
  <2>4. Times(r, n) = T /\ Sides(r, n) = K
    BY <1>2, <1>3, <2>3 DEF Times, Sides
  <2>5. D \in [1..n -> Int] /\ E \in [1..n -> Int] /\ \A a \in S : D[a] = E[a]
    BY <1>2, <2>2, <2>3 DEF Durs
  <2>6. ASSUME NEW i \in S PROVE LiesIn(r, n, S, i)
    <3>1. LiesIn(q, n, S, i)
      BY <1>6, <1>7, <2>1, <2>2 DEF ThreadNested
    <3>2. r[i] = q[i]
      BY <2>2
    <3>3. PICK p : p = q[i].parent
      OBVIOUS
    <3>4. /\ Belongs(T, D, S, p, i)
          /\ q[i].ph # "B" \/ (q[i].dur > 0 /\ NoneCross(T, D, K, S)) => Innermost(T, D, K, S, p, i)
      BY <2>3, <3>1, <3>3 DEF LiesIn
    <3>5. /\ Belongs(T, D, S, p, i) => Belongs(T, E, S, p, i)
          /\ Innermost(T, D, K, S, p, i) => Innermost(T, E, K, S, p, i)
          /\ NoneCross(T, E, K, S) => NoneCross(T, D, K, S)
      BY <2>2, <2>5, InnermostSame
    <3>6. /\ Belongs(T, E, S, p, i)
          /\ r[i].ph # "B" \/ (r[i].dur > 0 /\ NoneCross(T, E, K, S)) => Innermost(T, E, K, S, p, i)
      BY <3>2, <3>4, <3>5
    <3>7. r[i].parent = p
      BY <3>2, <3>3
    <3> QED
      BY <2>2, <2>3, <2>4, <3>6, <3>7 DEF LiesIn
  <2>7. SelfAdds(q, n, S)
    BY <1>6, <1>7, <2>1 DEF ThreadNested
  <2>8. ASSUME NoneCross(T, E, K, S), NEW l \in Nat, NEW s, ListsSet(s, l, S)
        PROVE  Added(Along(Selves(r, n), s, l)) = Added(Along(Roots(E, Parents(r, n), n), s, l))
    <3>1. NoneCross(T, D, K, S)
      BY <2>5, <2>8 DEF NoneCross
    <3>2. PICK F, G, U, V : F = Selves(q, n) /\ G = Selves(r, n) /\ U = Roots(D, Parents(q, n), n) /\ V = Roots(E, Parents(r, n), n)
      OBVIOUS
    <3>3. ASSUME NEW a \in S PROVE F[a] = G[a] /\ U[a] = V[a]
      <4>1. a \in 1..n /\ r[a] = q[a] /\ D[a] = E[a]
        BY <2>2, <2>5
      <4>2. F[a] = G[a] /\ Parents(q, n)[a] = Parents(r, n)[a]
        BY <3>2, <4>1 DEF Selves, Parents
      <4> QED
        BY <3>2, <4>1, <4>2 DEF Roots
    <3>4. Along(F, s, l) = Along(G, s, l) /\ Along(U, s, l) = Along(V, s, l)
      BY <2>8, <3>3, AlongSame
    <3>5. Added(Along(F, s, l)) = Added(Along(U, s, l))
      BY <2>3, <2>7, <2>8, <3>1, <3>2 DEF SelfAdds
    <3> QED
      BY <3>2, <3>4, <3>5
  <2>9. SelfAdds(r, n, S)
    BY <2>3, <2>4, <2>8 DEF SelfAdds
  <2> QED
    BY <2>2, <2>6, <2>9
<1> QED
  BY <1>5, <1>7 DEF ThreadNested

LEMMA KinOwn ==
  ASSUME NEW n \in Nat, NEW ev, DOMAIN ev = 1..n, AreTimed(ev), NEW q \in Kin(ev)
  PROVE  q \in Kin(q)
<1>1. DOMAIN q = 1..n /\ AreTimed(q) /\ q = [i \in 1..n |-> q[i]]
  BY KinTimed DEF Kin
<1>2. ASSUME NEW i \in 1..n, NEW k \in Changing PROVE q[i][k] \in RangeOf(q, k)
  <2>1. q[i] \in KinOf(ev, i)
    BY <1>2, KinHas
  <2>2. PICK e : e = q[i]
    OBVIOUS
  <2>3. e[k] \in RangeOf(ev, k)
    BY <1>2, <2>1, <2>2 DEF KinOf
  <2>4. RangeOf(ev, k) = RangeOf(q, k)
    BY <1>1 DEF RangeOf
  <2> QED
    BY <2>2, <2>3, <2>4
<1>3. AreFresh(q)
  BY <1>1, <1>2 DEF AreFresh
<1> QED
  BY <1>1, <1>3, KinSelf

LEMMA EventsNest ==
  ASSUME NEW n \in Nat, NEW ev, DOMAIN ev = 1..n, AreTimed(ev), ev \in Kin(ev), \A i \in 1..n : FreshFields(ev[i]), BeginsLast(ev)
  PROVE  /\ \A th \in Threads(ev) : ThreadNested(IndexEvents(ev), n, th)
         /\ NeverPaired(ev) => Spanned(IndexEvents(ev), ev, n)
<1>1. DOMAIN ev = 1..n /\ AreTimed(ev) /\ ev \in Kin(ev)
  OBVIOUS
<1>2. PICK P, ths : P = Threads(ev) /\ ths = SetToSeq(P)
  OBVIOUS
<1>3. IsFiniteSet(P)
  BY <1>1, <1>2, ThreadsFinite
<1>4. PICK m \in Nat : ListsOnce(ths, P, m)
  BY <1>2, <1>3, SeqHasSet
<1>5. ths \in Seq(P) /\ m = Len(ths)
  BY <1>4 DEF ListsOnce
<1>6. /\ \A j, k \in 1..m : ths[j] = ths[k] => j = k
      /\ \A th \in P : \E k \in 1..m : ths[k] = th
  BY <1>4 DEF ListsOnce
<1>7. PICK g : /\ ThreadSteps(g, ev, ths, m) /\ Through(IndexThread, ev, ths) = g[m]
               /\ \A k \in 0..m : g[k] \in Kin(ev)
  <2>1. ev \in Kin(ev) /\ DOMAIN ev = 1..n /\ AreTimed(ev) /\ n \in Nat
    BY <1>1
  <2>2. ths \in Seq(P) /\ m = Len(ths) /\ m \in Nat
    BY <1>5
  <2> QED
    BY <2>1, <2>2, IndexFolds
<1> DEFINE Fine == {k \in 0..m : /\ \A j \in 1..k : ThreadNested(g[k], n, ths[j])
                                 /\ \A j \in k + 1..m : Unindexed(g[k], ths[j])
                                 /\ NeverPaired(ev) => Spanned(g[k], ev, n)}
<1>8. 0 \in Fine
  <2>1. g[0] = ev
    BY <1>7 DEF ThreadSteps
  <2>2. \A th : Unindexed(ev, th)
    BY <1>1 DEF Unindexed, FreshFields
  <2>3. Spanned(ev, ev, n)
    BY DEF Spanned, SameSpan
  <2> QED
    BY <2>1, <2>2, <2>3
<1>9. ASSUME NEW k \in 0..m, k \in Fine, k < m PROVE k + 1 \in Fine
  <2>1. k + 1 \in 1..m /\ k + 1 \in 0..m /\ (k + 1) - 1 = k /\ k + 1 # 0
    BY <1>9
  <2>2. PICK q, r, th : q = g[k] /\ r = g[k + 1] /\ th = ths[k + 1]
    OBVIOUS
  <2>3. r = IndexThread(q, th)
    <3>1. \A x \in 0..m : g[x] = IF x = 0 THEN ev ELSE IndexThread(g[x - 1], ths[x])
      BY <1>7 DEF ThreadSteps
    <3> QED
      BY <2>1, <2>2, <3>1
  <2>4. q \in Kin(ev) /\ r \in Kin(ev)
    BY <1>7, <2>1, <2>2
  <2>5. DOMAIN q = 1..n /\ AreTimed(q) /\ q \in Kin(q)
    BY <1>1, <2>4, KinTimed, KinOwn
  <2>6. Unindexed(q, th)
    BY <1>9, <2>1, <2>2
  <2>7. BeginsLast(q)
    <3>1. \A i \in 1..n : q[i].kind = ev[i].kind /\ q[i].ph = ev[i].ph
      BY <1>1, <2>4, KinHas
    <3> QED
      BY <1>1, <2>5, <3>1 DEF BeginsLast
  <2>8. ThreadNested(r, n, th) /\ Untouched(r, q, OfThread(q, th), n) /\ Spanned(r, Paired(q, th).events, n)
    BY <2>3, <2>5, <2>6, <2>7, ThreadNests
  <2>9. ASSUME NEW other, other # th PROVE AlikeIn(r, q, other, n)
    <3>1. ASSUME NEW j \in 1..n, ThreadOf(q[j]) = other PROVE r[j] = q[j]
      <4>1. j \notin OfThread(q, th)
        BY <2>9, <3>1 DEF OfThread
      <4> QED
        BY <2>8, <4>1 DEF Untouched
    <3> QED
      BY <3>1 DEF AlikeIn
  <2>10. ASSUME NEW j \in 1..m, j # k + 1
         PROVE  /\ Unindexed(q, ths[j]) => Unindexed(r, ths[j])
                /\ ThreadNested(q, n, ths[j]) => ThreadNested(r, n, ths[j])
    <3>1. PICK other : other = ths[j]
      OBVIOUS
    <3>2. other # th
      BY <1>6, <2>1, <2>2, <2>10, <3>1
    <3>3. AlikeIn(r, q, other, n)
      BY <2>9, <3>2
    <3>4. /\ Unindexed(q, other) => Unindexed(r, other)
          /\ ThreadNested(q, n, other) => ThreadNested(r, n, other)
      BY <1>1, <2>4, <3>3, OthersStay
    <3> QED
      BY <3>1, <3>4
  <2>11. ASSUME NEW j \in 1..k + 1 PROVE ThreadNested(r, n, ths[j])
    <3>1. CASE j = k + 1
      BY <2>2, <2>8, <3>1
    <3>2. CASE j # k + 1
      <4>1. j \in 1..k /\ j \in 1..m
        BY <2>1, <3>2
      <4>2. ThreadNested(q, n, ths[j])
        BY <1>9, <2>2, <4>1
      <4> QED
        BY <2>10, <3>2, <4>1, <4>2
    <3> QED
      BY <3>1, <3>2
  <2>12. ASSUME NEW j \in (k + 1) + 1..m PROVE Unindexed(r, ths[j])
    <3>1. j \in k + 1..m /\ j \in 1..m /\ j # k + 1
      BY <2>1
    <3>2. Unindexed(q, ths[j])
      BY <1>9, <2>2, <3>1
    <3> QED
      BY <2>10, <3>1, <3>2
  <2>13. ASSUME NeverPaired(ev) PROVE Spanned(r, ev, n)
    <3>1. Spanned(q, ev, n)
      BY <1>9, <2>2, <2>13
    <3>2. \A i \in 1..n : q[i].ph = ev[i].ph
      BY <1>1, <2>4, KinHas
    <3>3. NeverPaired(q)
      BY <1>1, <2>5, <2>13, <3>2 DEF NeverPaired
    <3>4. Paired(q, th).events = q
      BY <2>5, <3>3, PairedPlain
    <3> QED
      BY <2>8, <3>1, <3>4 DEF Spanned, SameSpan
  <2> QED
    BY <2>1, <2>2, <2>11, <2>12, <2>13
<1> HIDE DEF Fine
<1>10. \A k \in 0..m : k \in Fine
  BY <1>8, <1>9, UpTo
<1>11. m \in Fine
  BY <1>10
<1>12. (\A j \in 1..m : ThreadNested(g[m], n, ths[j])) /\ (NeverPaired(ev) => Spanned(g[m], ev, n))
  BY <1>11 DEF Fine
<1>13. IndexEvents(ev) = g[m]
  BY <1>2, <1>7 DEF IndexEvents
<1> QED
  BY <1>2, <1>6, <1>12, <1>13

-----------------------------------------------------------------------------
(* The spans of a thread, in their order. *)
Picks(s, at, f) == s = [k \in DOMAIN at |-> f[at[k]]]
Rises(at, P) == Sorts(at, P, {p \in P \X P : p[1] < p[2]})

LEMMA KeptAre ==
  ASSUME NEW n \in Nat, NEW P \in SUBSET (1..n), NEW f
  PROVE  \E at : Rises(at, P) /\ Picks(Kept(f, P), at, f)
<1>1. IsFiniteSet(P)
  <2>1. IsFiniteSet(1..n)
    BY FS_Interval
  <2> QED
    BY <2>1, FS_Subset
<1>2. PICK R : R = {p \in P \X P : p[1] < p[2]}
  OBVIOUS
<1>3. Orders(R, P)
  <2>1. \A x, y \in P : <<x, y>> \in R <=> x < y
    BY <1>2
  <2>2. \A x \in P : x \in Int
    OBVIOUS
  <2>3. ASSUME NEW x \in P, NEW y \in P, NEW z \in P, <<x, y>> \in R, <<y, z>> \in R PROVE <<x, z>> \in R
    BY <2>1, <2>2, <2>3
  <2>4. ASSUME NEW x \in P, NEW y \in P, x # y PROVE <<x, y>> \in R \/ <<y, x>> \in R
    BY <2>1, <2>2, <2>4
  <2>5. ASSUME NEW x \in P PROVE <<x, x>> \notin R
    BY <2>1, <2>2
  <2> QED
    BY <2>3, <2>4, <2>5 DEF Orders
<1>4. PICK at : at = Sorted(P, R)
  OBVIOUS
<1>5. Sorts(at, P, R)
  BY <1>1, <1>3, <1>4, SortedSorts
<1>6. Kept(f, P) = [k \in DOMAIN at |-> f[at[k]]]
  BY <1>2, <1>4 DEF Kept, InOrder
<1> QED
  BY <1>2, <1>5, <1>6 DEF Rises, Picks

Climbing(s, l, S, T, D) ==
  /\ DOMAIN s = 1..l /\ \A k \in 1..l : s[k] \in S
  /\ \A x \in S : \E k \in 1..l : s[k] = x
  /\ \A j, k \in 1..l : j < k => Ahead(T, D, s[j], s[k])
SpanPlaces(q, order) == {k \in DOMAIN order : q[order[k]].kind # "Sample"}

LEMMA SpansClimb ==
  ASSUME NEW n \in Nat, NEW q, DOMAIN q = 1..n, AreTimed(q), NEW th
  PROVE  \E l \in Nat : Climbing(Kept(NestOrder(q, th), SpanPlaces(q, NestOrder(q, th))), l, SpansOf(q, th), Times(q, n), Durs(q, n))
<1>1. PICK order, T, D, M : order = NestOrder(q, th) /\ T = Times(q, n) /\ D = Durs(q, n) /\ M = NestMembers(q, th)
  OBVIOUS
<1>2. PICK R : R = {p \in M \X M : NestBefore(q, p[1], p[2])}
  OBVIOUS
<1>20. Sorts(order, M, R)
  <2>1. NestSorts(q, th)
    BY NestOrderSorts
  <2> QED
    BY <1>1, <1>2, <2>1 DEF NestSorts
<1>3. PICK m \in Nat : m = Len(order) /\ order \in Seq(M)
  BY <1>20 DEF Sorts
<1>21. \A a, b \in M : <<a, b>> \in R => NestBefore(q, a, b)
  BY <1>2
<1>26. /\ DOMAIN order = 1..m /\ \A k \in 1..m : order[k] \in M
       /\ \A x \in M : \E k \in 1..m : order[k] = x
       /\ \A j, k \in 1..m : j < k => <<order[j], order[k]>> \in R
  BY <1>3, <1>20 DEF Sorts
<1>4. /\ DOMAIN order = 1..m /\ \A k \in 1..m : order[k] \in M
      /\ \A x \in M : \E k \in 1..m : order[k] = x
      /\ \A j, k \in 1..m : j < k => NestBefore(q, order[j], order[k])
  BY <1>21, <1>26
<1>5. PICK P : P = SpanPlaces(q, order)
  OBVIOUS
<1>6. P \in SUBSET (1..m) /\ \A k \in 1..m : k \in P <=> q[order[k]].kind # "Sample"
  BY <1>4, <1>5 DEF SpanPlaces
<1>22. P \in SUBSET (1..m)
  BY <1>6
<1>7. PICK at : Rises(at, P) /\ Picks(Kept(order, P), at, order)
  BY <1>22, KeptAre
<1>23. PICK A : A = {p \in P \X P : p[1] < p[2]}
  OBVIOUS
<1>24. Sorts(at, P, A)
  BY <1>7, <1>23 DEF Rises
<1>25. \A a, b \in P : <<a, b>> \in A => a < b
  BY <1>23
<1>8. PICK l \in Nat : l = Len(at) /\ at \in Seq(P)
  BY <1>24 DEF Sorts
<1>27. /\ DOMAIN at = 1..l /\ \A k \in 1..l : at[k] \in P
       /\ \A x \in P : \E k \in 1..l : at[k] = x
       /\ \A j, k \in 1..l : j < k => <<at[j], at[k]>> \in A
  BY <1>8, <1>24 DEF Sorts
<1>9. /\ DOMAIN at = 1..l /\ \A k \in 1..l : at[k] \in P
      /\ \A x \in P : \E k \in 1..l : at[k] = x
      /\ \A j, k \in 1..l : j < k => at[j] < at[k]
  BY <1>25, <1>27
<1>10. PICK s : s = Kept(order, P)
  OBVIOUS
<1>11. DOMAIN s = 1..l /\ \A k \in 1..l : s[k] = order[at[k]]
  BY <1>7, <1>9, <1>10 DEF Picks
<1>12. \A i \in M : i \in SpansOf(q, th) <=> q[i].kind # "Sample"
  BY <1>1 DEF SpansOf
<1>13. SpansOf(q, th) \subseteq M /\ M \subseteq 1..n
  BY <1>1 DEF SpansOf, NestMembers, OfThread
<1>14. \A k \in 1..l : s[k] \in SpansOf(q, th)
  BY <1>4, <1>6, <1>9, <1>11, <1>12
<1>15. ASSUME NEW x \in SpansOf(q, th) PROVE \E k \in 1..l : s[k] = x
  <2>1. PICK j \in 1..m : order[j] = x
    BY <1>4, <1>13
  <2>2. j \in P
    BY <1>6, <1>12, <1>13, <2>1
  <2>3. PICK k \in 1..l : at[k] = j
    BY <1>9, <2>2
  <2> QED
    BY <1>11, <2>1, <2>3
<1>16. ASSUME NEW j \in 1..l, NEW k \in 1..l, j < k PROVE Ahead(T, D, s[j], s[k])
  <2>1. at[j] \in 1..m /\ at[k] \in 1..m /\ at[j] < at[k]
    BY <1>6, <1>9, <1>16
  <2>2. PICK a, b : a = s[j] /\ b = s[k]
    OBVIOUS
  <2>3. NestBefore(q, a, b)
    BY <1>4, <1>11, <2>1, <2>2
  <2>4. a \in 1..n /\ b \in 1..n
    BY <1>13, <1>14, <2>2
  <2>5. T[a] = q[a].ts /\ T[b] = q[b].ts /\ D[a] = q[a].dur /\ D[b] = q[b].dur
    BY <1>1, <2>4 DEF Times, Durs
  <2>6. Ahead(T, D, a, b)
    BY <2>3, <2>5 DEF Ahead, NestBefore
  <2> QED
    BY <2>2, <2>6
<1>17. PICK S : S = SpansOf(q, th)
  OBVIOUS
<1>18. Climbing(s, l, S, T, D)
  BY <1>11, <1>14, <1>15, <1>16, <1>17 DEF Climbing
<1> QED
  BY <1>1, <1>5, <1>10, <1>17, <1>18

\* Parents that are ahead lead to a root.
LEMMA ParentsEnd ==
  ASSUME NEW n \in Nat, NEW P \in [1..n -> 0..n], NEW S \in SUBSET (1..n), NEW T \in [1..n -> Int], NEW D \in [1..n -> Int],
         NEW l \in Nat, NEW s, Climbing(s, l, S, T, D), \A i \in S : Belongs(T, D, S, P[i], i)
  PROVE  \A i \in S : Climb(P, n, i)[n] = 0
<1>1. /\ \A k \in 1..l : s[k] \in S
      /\ \A x \in S : \E k \in 1..l : s[k] = x
      /\ \A j, k \in 1..l : j < k => Ahead(T, D, s[j], s[k])
  BY DEF Climbing
<1> DEFINE Fine == {k \in 0..l : \A j \in 1..k : Climb(P, n, s[j])[n] = 0}
<1>2. 0 \in Fine
  OBVIOUS
<1>3. ASSUME NEW k \in 0..l, k \in Fine, k < l PROVE k + 1 \in Fine
  <2>1. k + 1 \in 1..l /\ k + 1 \in 0..l
    BY <1>3
  <2>2. PICK x, p : x = s[k + 1] /\ p = P[x]
    OBVIOUS
  <2>3. x \in S /\ x \in 1..n
    BY <1>1, <2>1, <2>2
  <2>4. Belongs(T, D, S, p, x)
    BY <2>2, <2>3
  <2>5. p = 0 \/ Climb(P, n, p)[n] = 0
    <3>1. ASSUME p # 0 PROVE Climb(P, n, p)[n] = 0
      <4>1. p \in S /\ Ahead(T, D, p, x)
        BY <2>4, <3>1 DEF Belongs, None
      <4>2. PICK j \in 1..l : s[j] = p
        BY <1>1, <4>1
      <4>3. p \in 1..n /\ ~Ahead(T, D, x, p) /\ x # p
        <5>1. p \in 1..n /\ x \in 1..n /\ Ahead(T, D, p, x)
          BY <2>3, <4>1
        <5>2. ~Ahead(T, D, x, x) /\ (Ahead(T, D, p, x) => ~Ahead(T, D, x, p))
          BY <5>1, AheadOrders
        <5> QED
          BY <5>1, <5>2
      <4>4. ~(k + 1 < j) /\ j # k + 1
        BY <1>1, <2>1, <2>2, <4>2, <4>3
      <4>5. j \in 1..k
        BY <4>4
      <4> QED
        BY <1>3, <4>2, <4>5
    <3> QED
      BY <3>1
  <2>6. Climb(P, n, x)[n] = 0
    BY <2>2, <2>3, <2>5, WalkFromParent
  <2>7. \A j \in 1..k + 1 : j \in 1..k \/ j = k + 1
    OBVIOUS
  <2> QED
    BY <1>3, <2>1, <2>2, <2>6, <2>7
<1> HIDE DEF Fine
<1>4. \A k \in 0..l : k \in Fine
  BY <1>2, <1>3, UpTo
<1>5. l \in Fine
  BY <1>4
<1>6. \A j \in 1..l : Climb(P, n, s[j])[n] = 0
  BY <1>5 DEF Fine
<1> QED
  BY <1>1, <1>6

\* What is said of an index: the spans that cover one of them, where they do
\* not partly overlap, and the parents.
CoversEvent(p, e) == Track(p) = Track(e) /\ p.dur > 0 /\ p.ts <= e.ts /\ e.ts < End(p) /\ End(e) <= End(p)
CoveringAt(q, s, k) == {j \in 1..k - 1 : CoversEvent(q[s[j]], q[s[k]])}
LastCovering(q, s, k) == IF CoveringAt(q, s, k) = {} THEN None ELSE s[Max(CoveringAt(q, s, k))]
MeetsEvent(a, b) == a.ts < End(b) /\ b.ts < End(a)
NoneOverlap(q, S) ==
  \A i, j \in S : Track(q[i]) = Track(q[j]) /\ MeetsEvent(q[i], q[j]) =>
    (q[i].ts <= q[j].ts /\ End(q[j]) <= End(q[i])) \/ (q[j].ts <= q[i].ts /\ End(q[i]) <= End(q[j]))

LEMMA LastIsInnermost ==
  ASSUME NEW n \in Nat, NEW q, DOMAIN q = 1..n, AreTimed(q), NEW S \in SUBSET (1..n), NEW s, NEW l \in Nat,
         Climbing(s, l, S, Times(q, n), Durs(q, n)), NEW k \in 1..l, NEW p,
         Innermost(Times(q, n), Durs(q, n), Sides(q, n), S, p, s[k])
  PROVE  p = LastCovering(q, s, k)
<1>1. PICK T, D, K, x : T = Times(q, n) /\ D = Durs(q, n) /\ K = Sides(q, n) /\ x = s[k]
  OBVIOUS
<1>2. /\ \A j \in 1..l : s[j] \in S
      /\ \A y \in S : \E j \in 1..l : s[j] = y
      /\ \A i, j \in 1..l : i < j => Ahead(T, D, s[i], s[j])
  BY <1>1 DEF Climbing
<1>3. T \in [1..n -> Int] /\ D \in [1..n -> Int]
  BY <1>1 DEF Times, Durs, AreTimed, IsTimed, HasTimes
<1>4. \A i \in 1..n : T[i] = q[i].ts /\ D[i] = q[i].dur /\ K[i] = Track(q[i]) /\ T[i] \in Int /\ D[i] \in Int
  BY <1>1, <1>3 DEF Times, Durs, Sides
<1>5. x \in S /\ \A j \in 1..l : s[j] \in 1..n
  BY <1>1, <1>2
<1>6. ASSUME NEW i \in 1..l, NEW j \in 1..l PROVE Ahead(T, D, s[i], s[j]) <=> i < j
  <2>1. PICK a, b : a = s[i] /\ b = s[j]
    OBVIOUS
  <2>2. a \in 1..n /\ b \in 1..n
    BY <1>5, <2>1
  <2>3. ~Ahead(T, D, a, a) /\ (Ahead(T, D, a, b) => ~Ahead(T, D, b, a))
    BY <1>3, <2>2, AheadOrders
  <2>4. i < j => Ahead(T, D, a, b)
    BY <1>2, <2>1
  <2>5. j < i => Ahead(T, D, b, a)
    BY <1>2, <2>1
  <2>6. i = j => a = b
    BY <2>1
  <2> QED
    BY <2>1, <2>3, <2>4, <2>5, <2>6
<1>7. PICK C : C = CoveringAt(q, s, k)
  OBVIOUS
<1>8. ASSUME NEW j \in 1..l PROVE Covers(T, D, K, s[j], x) <=> j \in C
  <2>1. PICK a : a = s[j]
    OBVIOUS
  <2>2. a \in 1..n /\ x \in 1..n
    BY <1>5, <2>1
  <2>3. Ahead(T, D, a, x) <=> j < k
    BY <1>1, <1>6, <2>1
  <2>4. Ahead(T, D, a, x) => T[a] <= T[x]
    BY <1>3, <2>2, AheadOrders
  <2>5. j \in C <=> j < k /\ CoversEvent(q[a], q[x])
    BY <1>1, <1>7, <2>1 DEF CoveringAt
  <2>6. /\ T[a] = q[a].ts /\ D[a] = q[a].dur /\ K[a] = Track(q[a])
        /\ T[x] = q[x].ts /\ D[x] = q[x].dur /\ K[x] = Track(q[x])
    BY <1>4, <2>2
  <2>7. CoversEvent(q[a], q[x]) <=> K[a] = K[x] /\ D[a] > 0 /\ T[a] <= T[x] /\ T[x] < T[a] + D[a] /\ T[x] + D[x] <= T[a] + D[a]
    BY <2>6 DEF CoversEvent, End
  <2> QED
    BY <2>1, <2>3, <2>4, <2>5, <2>7 DEF Covers
<1>9. \/ p = None /\ \A a \in S : ~Covers(T, D, K, a, x)
      \/ p \in S /\ Covers(T, D, K, p, x) /\ \A a \in S : Covers(T, D, K, a, x) => a = p \/ Ahead(T, D, a, p)
  <2>1. Innermost(T, D, K, S, p, x)
    BY <1>1
  <2> QED
    BY <2>1 DEF Innermost
<1>10. C \subseteq 1..l
  BY <1>7 DEF CoveringAt
<1>11. LastCovering(q, s, k) = IF C = {} THEN None ELSE s[Max(C)]
  BY <1>7 DEF LastCovering
<1>12. CASE p = None /\ \A a \in S : ~Covers(T, D, K, a, x)
  <2>1. C = {}
    BY <1>2, <1>8, <1>10, <1>12
  <2> QED
    BY <1>11, <1>12, <2>1
<1>13. CASE p \in S /\ Covers(T, D, K, p, x) /\ \A a \in S : Covers(T, D, K, a, x) => a = p \/ Ahead(T, D, a, p)
  <2>1. PICK j \in 1..l : s[j] = p
    BY <1>2, <1>13
  <2>2. j \in C
    BY <1>8, <1>13, <2>1
  <2>3. C \in SUBSET Int /\ C # {} /\ IsFiniteSet(C)
    <3>1. IsFiniteSet(1..l)
      BY FS_Interval
    <3>2. C \in SUBSET (1..l)
      BY <1>10
    <3>3. IsFiniteSet(C)
      BY <3>1, <3>2, FS_Subset
    <3> QED
      BY <2>2, <3>2, <3>3
  <2>4. PICK m : m = Max(C)
    OBVIOUS
  <2>5. m \in C /\ \A y \in C : m >= y
    BY <2>3, <2>4, FiniteMax
  <2>6. m \in 1..l /\ Covers(T, D, K, s[m], x)
    BY <1>8, <1>10, <2>5
  <2>7. s[m] = p \/ Ahead(T, D, s[m], s[j])
    BY <1>2, <1>13, <2>1, <2>6
  <2>8. Ahead(T, D, s[m], s[j]) => m < j
    BY <1>6, <2>6
  <2>9. m >= j /\ m \in Int /\ j \in Int
    BY <2>2, <2>5, <2>6
  <2>10. s[m] = p
    BY <2>7, <2>8, <2>9
  <2> QED
    BY <1>11, <2>2, <2>4, <2>10
<1> QED
  BY <1>9, <1>12, <1>13

\* Of spans s and events q: what lies in what.
SpanLies(q, s, k) == q[s[k]].ph # "B" \/ (q[s[k]].dur > 0 /\ NoneOverlap(q, Range(s))) => q[s[k]].parent = LastCovering(q, s, k)
SelvesAdd(q, s) ==
  NoneOverlap(q, Range(s)) =>
    Added([k \in DOMAIN s |-> q[s[k]].self])
      = Added([k \in DOMAIN s |-> IF q[s[k]].parent = None THEN Max({0, q[s[k]].dur}) ELSE 0])
SpansLie(m, s) ==
  /\ \A k \in DOMAIN s : (m.events[s[k]].ph = "B" => ChainEnds(m, s[k])) /\ SpanLies(m.events, s, k)
  /\ SelvesAdd(m.events, s)
SpansIn(m, th) == Kept(m.order[th], {k \in DOMAIN m.order[th] : m.events[m.order[th][k]].kind # "Sample"})
LiesWithin(m) == \A th \in DOMAIN m.order : MatchedIn(m.events, th) => SpansLie(m, SpansIn(m, th))

LEMMA NestedSpansLie ==
  ASSUME NEW n \in Nat, NEW q, q = [i \in 1..n |-> q[i]], AreTimed(q), \A i \in 1..n : q[i].parent \in 0..n,
         NEW th, ThreadNested(q, n, th), MatchedIn(q, th), NEW m, m.events = q
  PROVE  SpansLie(m, Kept(NestOrder(q, th), SpanPlaces(q, NestOrder(q, th))))
<1>1. DOMAIN q = 1..n /\ Len(q) = n
  <2>1. DOMAIN q = 1..n
    BY Zenon
  <2> QED
    BY <2>1
<1>2. PICK S, T, D, K, s : /\ S = SpansOf(q, th) /\ T = Times(q, n) /\ D = Durs(q, n) /\ K = Sides(q, n)
                           /\ s = Kept(NestOrder(q, th), SpanPlaces(q, NestOrder(q, th)))
  OBVIOUS
<1>3. PICK l \in Nat : Climbing(s, l, S, T, D)
  <2>1. \E l \in Nat : Climbing(Kept(NestOrder(q, th), SpanPlaces(q, NestOrder(q, th))), l, SpansOf(q, th), Times(q, n), Durs(q, n))
    BY <1>1, SpansClimb
  <2> QED
    BY <1>2, <2>1
<1>4. S \in SUBSET (1..n)
  BY <1>1, <1>2 DEF SpansOf, NestMembers, OfThread
<1>5. T \in [1..n -> Int] /\ D \in [1..n -> Int]
  BY <1>1, <1>2 DEF Times, Durs, AreTimed, IsTimed, HasTimes
<1>6. PICK P : P = [i \in 1..n |-> q[i].parent]
  OBVIOUS
<1>7. P \in [1..n -> 0..n] /\ \A i \in 1..n : q[i].parent = P[i]
  BY <1>6
<1>8. \A i \in S : LiesIn(q, n, S, i)
  BY <1>2 DEF ThreadNested
<1>9. \A i \in S : Belongs(T, D, S, P[i], i)
  BY <1>2, <1>4, <1>7, <1>8 DEF LiesIn
<1>10. \A i \in S : Climb(P, n, i)[n] = 0
  BY <1>3, <1>4, <1>5, <1>7, <1>9, ParentsEnd
<1>11. ASSUME NEW i \in S PROVE ChainEnds(m, i)
  <2>1. i \in 0..n
    BY <1>4, <1>11
  <2>2. Ups(q, i) = Climb(P, n, i)
    BY <1>1, <1>7, <2>1, UpsAreWalk, SMTT(30)
  <2>3. Chain(m, i) = Ups(q, i)
    BY DEF Chain, Ups
  <2> QED
    BY <1>1, <1>10, <2>2, <2>3 DEF ChainEnds, None
<1>12. DOMAIN s = 1..l /\ (\A k \in 1..l : s[k] \in S) /\ \A x \in S : \E k \in 1..l : s[k] = x
  BY <1>3 DEF Climbing
<1>13. Range(s) = S
  BY <1>12 DEF Range
<1>14. NoneOverlap(q, S) => NoneCross(T, D, K, S)
  <2>1. \A i \in S : T[i] = q[i].ts /\ D[i] = q[i].dur /\ K[i] = Track(q[i])
    BY <1>2, <1>4 DEF Times, Durs, Sides
  <2>2. ASSUME NoneOverlap(q, S), NEW i \in S, NEW j \in S, K[i] = K[j], T[i] < T[j] + D[j], T[j] < T[i] + D[i]
        PROVE  (T[i] <= T[j] /\ T[j] + D[j] <= T[i] + D[i]) \/ (T[j] <= T[i] /\ T[i] + D[i] <= T[j] + D[j])
    <3>1. T[i] = q[i].ts /\ D[i] = q[i].dur /\ K[i] = Track(q[i]) /\ T[j] = q[j].ts /\ D[j] = q[j].dur /\ K[j] = Track(q[j])
      BY <2>1
    <3>2. Track(q[i]) = Track(q[j]) /\ MeetsEvent(q[i], q[j])
      BY <2>2, <3>1 DEF MeetsEvent, End
    <3>3. (q[i].ts <= q[j].ts /\ End(q[j]) <= End(q[i])) \/ (q[j].ts <= q[i].ts /\ End(q[i]) <= End(q[j]))
      BY <2>2, <3>2 DEF NoneOverlap
    <3> QED
      BY <3>1, <3>3 DEF End
  <2> QED
    BY <2>2 DEF NoneCross
<1>15. ASSUME NEW k \in 1..l PROVE SpanLies(q, s, k)
  <2>1. PICK i, p : i = s[k] /\ p = q[i].parent
    OBVIOUS
  <2>2. i \in S
    BY <1>12, <2>1
  <2>3. LiesIn(q, n, S, i)
    BY <1>8, <2>2
  <2>4. q[i].ph # "B" \/ (q[i].dur > 0 /\ NoneCross(T, D, K, S)) => Innermost(T, D, K, S, p, i)
    BY <1>2, <2>1, <2>3 DEF LiesIn
  <2>5. Innermost(T, D, K, S, p, i) => p = LastCovering(q, s, k)
    <3>1. ASSUME Innermost(T, D, K, S, p, i) PROVE p = LastCovering(q, s, k)
      <4>1. Climbing(s, l, S, Times(q, n), Durs(q, n)) /\ Innermost(Times(q, n), Durs(q, n), Sides(q, n), S, p, s[k])
        BY <1>2, <1>3, <2>1, <3>1
      <4> QED
        BY <1>1, <1>4, <4>1, LastIsInnermost
    <3> QED
      BY <3>1
  <2> QED
    BY <1>13, <1>14, <2>1, <2>4, <2>5 DEF SpanLies
<1>16. ListsSet(s, l, S)
  <2>1. \A j, k \in 1..l : j < k => Ahead(T, D, s[j], s[k])
    BY <1>3 DEF Climbing
  <2>2. ASSUME NEW j \in 1..l, NEW k \in 1..l, s[j] = s[k] PROVE j = k
    <3>1. PICK i : i = s[j]
      OBVIOUS
    <3>2. i \in 1..n
      BY <1>4, <1>12, <3>1
    <3>3. ~Ahead(T, D, i, i)
      BY <1>5, <3>2, AheadOrders
    <3>4. ~(j < k) /\ ~(k < j)
      BY <2>1, <2>2, <3>1, <3>3
    <3> QED
      BY <3>4
  <2> QED
    BY <1>12, <2>2 DEF ListsSet
<1>17. SelvesAdd(q, s)
  <2>1. ASSUME NoneOverlap(q, Range(s))
        PROVE  Added([k \in DOMAIN s |-> q[s[k]].self])
                 = Added([k \in DOMAIN s |-> IF q[s[k]].parent = None THEN Max({0, q[s[k]].dur}) ELSE 0])
    <3>1. SelfAdds(q, n, S) /\ NoneCross(T, D, K, S)
      BY <1>2, <1>13, <1>14, <2>1 DEF ThreadNested
    <3>2. PICK U, V : U = Selves(q, n) /\ V = Roots(D, Parents(q, n), n)
      OBVIOUS
    <3>3. Added(Along(U, s, l)) = Added(Along(V, s, l))
      BY <1>2, <1>16, <3>1, <3>2 DEF SelfAdds
    <3>4. ASSUME NEW k \in 1..l
          PROVE  U[s[k]] = q[s[k]].self /\ V[s[k]] = IF q[s[k]].parent = None THEN Max({0, q[s[k]].dur}) ELSE 0
      <4>1. PICK i : i = s[k]
        OBVIOUS
      <4>2. i \in 1..n
        BY <1>4, <1>12, <4>1
      <4>3. PICK d \in Int, z \in Int : d = D[i] /\ z = 0
        BY <1>5, <4>2
      <4>4. d = q[i].dur
        BY <1>2, <4>2, <4>3 DEF Durs
      <4>5. Max({z, d}) >= z /\ Max({z, d}) >= d /\ Max({z, d}) \in {z, d}
        BY MaxOfTwo
      <4>6. Max({z, d}) = Lasting(d)
        BY <4>3, <4>5 DEF Lasting
      <4>7. Parents(q, n)[i] = q[i].parent /\ U[i] = q[i].self
        BY <3>2, <4>2 DEF Parents, Selves
      <4>8. V[i] = IF q[i].parent = None THEN Lasting(d) ELSE 0
        BY <3>2, <4>2, <4>3, <4>7 DEF Roots
      <4> QED
        BY <4>1, <4>3, <4>4, <4>6, <4>7, <4>8
    <3>5. Along(U, s, l) = [k \in DOMAIN s |-> q[s[k]].self]
      BY <1>12, <3>4 DEF Along
    <3>6. Along(V, s, l) = [k \in DOMAIN s |-> IF q[s[k]].parent = None THEN Max({0, q[s[k]].dur}) ELSE 0]
      BY <1>12, <3>4 DEF Along
    <3> QED
      BY <3>3, <3>5, <3>6
  <2> QED
    BY <2>1 DEF SelvesAdd
<1> QED
  BY <1>2, <1>11, <1>12, <1>15, <1>17 DEF SpansLie

\* An event that is a sample has no duration: it is a P.
SamplesArePoints(ev) == \A i \in DOMAIN ev : ev[i].kind = "Sample" => ev[i].ph = "P"

LEMMA StartedPoints ==
  ASSUME NEW n \in Nat, NEW events0, DOMAIN events0 = 1..n, AreTimed(events0), SamplesArePoints(events0), NEW frames
  PROVE  SamplesArePoints(Started(events0, frames)) /\ \A i \in 1..n : FreshFields(Started(events0, frames)[i])
<1>1. PICK ev : ev = Started(events0, frames)
  OBVIOUS
<1>2. DOMAIN ev = 1..n /\ \A i \in 1..n : ev[i] = Reset(ResolveEvent(events0[i], frames))
  BY <1>1 DEF Started
<1>3. ASSUME NEW i \in 1..n PROVE FreshFields(ev[i]) /\ (ev[i].kind = "Sample" => ev[i].ph = "P")
  <2>1. PICK e, d : e = events0[i] /\ d = ResolveEvent(e, frames)
    OBVIOUS
  <2>2. IsTimed(e) /\ (e.kind = "Sample" => e.ph = "P")
    BY <2>1 DEF AreTimed, SamplesArePoints
  <2>3. IsTimed(d) /\ d.ph = e.ph /\ d.kind = e.kind
    BY <2>1, <2>2, ResolvedTimed
  <2>4. PICK r : r = Reset(d)
    OBVIOUS
  <2>5. FreshFields(r) /\ r.ph = d.ph /\ r.kind = IF d.ph = "P" THEN "Sample" ELSE d.kind
    BY <2>3, <2>4, ResetFresh
  <2>6. r.kind = "Sample" => r.ph = "P"
    BY <2>2, <2>3, <2>5
  <2> QED
    BY <1>2, <2>1, <2>4, <2>5, <2>6
<1> QED
  BY <1>1, <1>2, <1>3 DEF SamplesArePoints

\* In the index every thread's spans lie in each other.
LEMMA IndexLies ==
  ASSUME NEW n \in Nat, NEW events0, DOMAIN events0 = 1..n, AreTimed(events0), SamplesArePoints(events0), NEW frames
  PROVE  LiesWithin(BuildIndex(events0, frames)) /\ SamplesArePoints(BuildIndex(events0, frames).events)
<1>1. PICK ev, q : ev = Started(events0, ResolveFrames(frames)) /\ q = IndexEvents(ev)
  OBVIOUS
<1>2. AreFresh(ev) /\ ev = [i \in 1..n |-> ev[i]]
  BY <1>1, FreshIsFresh
<1>3. q \in Kin(ev)
  BY <1>1, <1>2, EventsIndexed
<1>4. DOMAIN ev = 1..n /\ AreTimed(ev)
  BY <1>1, <1>2 DEF Started, AreFresh
<1>5. DOMAIN q = 1..n /\ AreTimed(q)
  BY <1>3, <1>4, KinTimed
<1>6. q = [i \in 1..n |-> q[i]]
  BY <1>3, <1>4 DEF Kin
<1>7. PICK order : order = [th \in Threads(q) |-> NestOrder(q, th)]
  OBVIOUS
<1>8. PICK m : m = BuildIndex(events0, frames)
  OBVIOUS
<1>9. m.events = q /\ m.order = order
  <2>1. m = Model(q, ResolveFrames(frames), order)
    BY <1>1, <1>7, <1>8 DEF BuildIndex, IndexWith, IndexedAs, Started
  <2> QED
    BY <2>1 DEF Model
<1>10. SamplesArePoints(ev) /\ \A i \in 1..n : FreshFields(ev[i])
  BY <1>1, StartedPoints
<1>11. BeginsLast(ev)
  BY <1>10 DEF BeginsLast, SamplesArePoints
<1>12. ev \in Kin(ev)
  BY <1>2, KinSelf
<1>13. \A th \in Threads(ev) : ThreadNested(q, n, th)
  BY <1>1, <1>4, <1>10, <1>11, <1>12, EventsNest
<1>14. \A i \in 1..n : /\ q[i].kind = ev[i].kind /\ q[i].ph = ev[i].ph /\ ThreadOf(q[i]) = ThreadOf(ev[i])
                       /\ q[i].parent \in 0..n
  <2>1. \A i \in 1..n : /\ q[i].kind = ev[i].kind /\ q[i].ph = ev[i].ph /\ q[i].pid = ev[i].pid /\ q[i].tid = ev[i].tid
                        /\ q[i].parent \in 1..n \cup {None}
    BY <1>3, <1>4, KinHas
  <2> QED
    BY <2>1 DEF ThreadOf, None
<1>15. SamplesArePoints(q)
  BY <1>4, <1>5, <1>10, <1>14 DEF SamplesArePoints
<1>16. Threads(q) = Threads(ev)
  BY <1>4, <1>5, <1>14 DEF Threads, Timed
<1>17. ASSUME NEW th \in DOMAIN m.order, MatchedIn(q, th) PROVE SpansLie(m, SpansIn(m, th))
  <2>1. th \in Threads(q) /\ m.order[th] = NestOrder(q, th)
    BY <1>7, <1>9, <1>17
  <2>2. ThreadNested(q, n, th)
    BY <1>13, <1>16, <2>1
  <2>3. SpansIn(m, th) = Kept(NestOrder(q, th), SpanPlaces(q, NestOrder(q, th)))
    BY <1>9, <2>1 DEF SpansIn, SpanPlaces
  <2> QED
    BY <1>5, <1>6, <1>9, <1>14, <1>17, <2>2, <2>3, NestedSpansLie
<1> QED
  BY <1>8, <1>9, <1>15, <1>17 DEF LiesWithin

PlainOnly(ev) == \A i \in DOMAIN ev : ev[i].ph \in {"X", "C"} /\ ev[i].kind = "Measured"
LastingOf(q, th) == {i \in DOMAIN q : q[i].ph = "X" /\ ThreadOf(q[i]) = th}

\* Where all events are of phase X or C, each X lies in the innermost X around it.
LEMMA PlainNests ==
  ASSUME NEW n \in Nat, NEW events0, DOMAIN events0 = 1..n, AreTimed(events0), PlainOnly(events0), NEW frames,
         NEW q, q = BuildIndex(events0, frames).events
  PROVE  /\ DOMAIN q = 1..n /\ \A i \in 1..n : PlainLike(q[i], events0[i])
         /\ \A i \in 1..n : q[i].ph = "X" =>
              Innermost(Times(q, n), Durs(q, n), Sides(q, n), LastingOf(q, ThreadOf(q[i])), q[i].parent, i)
<1>1. PICK ev : ev = Started(events0, ResolveFrames(frames))
  OBVIOUS
<1>2. AreFresh(ev) /\ ev = [i \in 1..n |-> ev[i]]
  BY <1>1, FreshIsFresh
<1>3. q = IndexEvents(ev)
  <2>1. q = Model(IndexEvents(ev), ResolveFrames(frames), [th \in Threads(IndexEvents(ev)) |-> NestOrder(IndexEvents(ev), th)]).events
    BY <1>1 DEF BuildIndex, IndexWith, IndexedAs, Started
  <2> QED
    BY <2>1 DEF Model
<1>4. DOMAIN ev = 1..n /\ AreTimed(ev)
  BY <1>1, <1>2 DEF Started, AreFresh
<1>5. q \in Kin(ev)
  BY <1>2, <1>3, EventsIndexed
<1>6. DOMAIN q = 1..n /\ AreTimed(q)
  BY <1>4, <1>5, KinTimed
<1>7. \A i \in 1..n : PlainLike(ev[i], events0[i])
  <2>1. ASSUME NEW i \in 1..n PROVE PlainLike(ev[i], events0[i])
    <3>1. IsTimed(events0[i]) /\ events0[i].ph # "P"
      BY DEF AreTimed, PlainOnly
    <3>2. ev[i] = Reset(ResolveEvent(events0[i], ResolveFrames(frames)))
      BY <1>1 DEF Started
    <3> QED
      BY <3>1, <3>2, PlainStarts
  <2> QED
    BY <2>1
<1>8. SamplesArePoints(ev) /\ \A i \in 1..n : FreshFields(ev[i])
  <2>1. SamplesArePoints(events0)
    BY DEF SamplesArePoints, PlainOnly
  <2> QED
    BY <1>1, <2>1, StartedPoints
<1>9. \A i \in 1..n : ev[i].ph \in {"X", "C"} /\ ev[i].kind = "Measured"
  BY <1>7 DEF PlainLike, PlainOnly
<1>10. BeginsLast(ev) /\ NeverPaired(ev)
  BY <1>4, <1>9 DEF BeginsLast, NeverPaired
<1>11. ev \in Kin(ev)
  BY <1>2, KinSelf
<1>12. (\A th \in Threads(ev) : ThreadNested(q, n, th)) /\ Spanned(q, ev, n)
  BY <1>3, <1>4, <1>8, <1>10, <1>11, EventsNest
<1>13. \A i \in 1..n : PlainLike(q[i], ev[i]) /\ ~q[i].ended
  <2>1. \A i \in 1..n : /\ q[i].kind = ev[i].kind /\ q[i].ph = ev[i].ph /\ q[i].pid = ev[i].pid /\ q[i].tid = ev[i].tid /\ q[i].ts = ev[i].ts
    BY <1>4, <1>5, KinHas
  <2>2. \A i \in 1..n : q[i].dur = ev[i].dur /\ ~q[i].ended
    BY <1>8, <1>12 DEF Spanned, SameSpan, FreshFields
  <2> QED
    BY <2>1, <2>2 DEF PlainLike
<1>14. \A i \in 1..n : q[i].ph \in {"X", "C"} /\ q[i].kind = "Measured" /\ q[i].ph = ev[i].ph /\ ThreadOf(q[i]) = ThreadOf(ev[i])
  BY <1>9, <1>13 DEF PlainLike, ThreadOf
<1>15. ASSUME NEW i \in 1..n, q[i].ph = "X"
       PROVE  Innermost(Times(q, n), Durs(q, n), Sides(q, n), LastingOf(q, ThreadOf(q[i])), q[i].parent, i)
  <2>1. PICK th : th = ThreadOf(q[i])
    OBVIOUS
  <2>2. th \in Threads(ev)
    BY <1>4, <1>14, <1>15, <2>1 DEF Threads, Timed
  <2>3. MatchedIn(q, th)
    BY <1>6, <1>14 DEF MatchedIn
  <2>4. SpansOf(q, th) = LastingOf(q, th)
    <3>1. \A j \in 1..n : j \in SpansOf(q, th) <=> q[j].ph = "X" /\ ThreadOf(q[j]) = th
      BY <1>6, <1>13, <1>14 DEF SpansOf, NestMembers, OfThread, Timed
    <3>2. SpansOf(q, th) \subseteq 1..n
      BY <1>6 DEF SpansOf, NestMembers, OfThread
    <3> QED
      BY <1>6, <3>1, <3>2 DEF LastingOf
  <2>5. i \in SpansOf(q, th)
    BY <1>6, <1>15, <2>1, <2>4 DEF LastingOf
  <2>6. LiesIn(q, n, SpansOf(q, th), i)
    BY <1>12, <2>2, <2>3, <2>5 DEF ThreadNested
  <2>7. q[i].ph # "B"
    BY <1>15
  <2> QED
    BY <2>1, <2>4, <2>6, <2>7 DEF LiesIn
<1>16. \A i \in 1..n : PlainLike(q[i], events0[i])
  BY <1>7, <1>13 DEF PlainLike
<1> QED
  BY <1>6, <1>15, <1>16
=============================================================================
