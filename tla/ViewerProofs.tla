---------------------------- MODULE ViewerProofs ----------------------------
(* The viewport's clamping, for every view; the lists of the panels, and the *)
(* event that is jumped to, for every trace and whatever the user does.      *)
EXTENDS Viewer, TraceIndexProofs

Margin(v) == (v.max - v.min) \div 50

\* Whatever range is asked for, clamping moves the view and does not zoom it; a
\* view that fits ends up inside the trace and its margin; a wider one holds the
\* whole of the trace (view_state.h: clamp_view_to_bounds, set_view_range).
THEOREM ClampMovesOnly ==
  ASSUME NEW v, v.bounded, "start" \in DOMAIN v, "end" \in DOMAIN v,
         v.min \in Int, v.max \in Int, v.min <= v.max,
         v.start \in Int, v.end \in Int, v.start <= v.end
  PROVE  LET c == ClampToBounds(v)
             whole == v.max - v.min + 2 * Margin(v)
         IN /\ Width(c) = Width(v)
            /\ Width(v) < whole => v.min - Margin(v) <= c.start /\ c.end <= v.max + Margin(v)
            /\ Width(v) >= whole => c.start <= v.min /\ v.max <= c.end
<1> DEFINE w == v.end - v.start
           pad == Margin(v)
           lo == v.min - pad
           hi == v.max + pad
           At(s) == [v EXCEPT !.start = s, !.end = s + w]
           c == ClampToBounds(v)
           middle == (v.min + v.max) \div 2 - w \div 2
<1>1. w \in Int /\ w >= 0 /\ Width(v) = w
  BY DEF Width
<1>2. pad \in Int /\ pad >= 0 /\ lo \in Int /\ hi \in Int /\ middle \in Int
  BY DEF Margin
<1>3. c = IF w >= hi - lo THEN At(middle) ELSE IF v.end > hi THEN At(hi - w) ELSE IF v.start < lo THEN At(lo) ELSE v
  BY DEF ClampToBounds, Margin, Width
<1>4. ASSUME NEW s \in Int PROVE At(s).start = s /\ At(s).end = s + w
  OBVIOUS
<1> HIDE DEF c, At
<1>5. c.start \in Int /\ c.end = c.start + w
  <2>1. \A s \in Int : At(s).start = s /\ At(s).end = s + w
    BY <1>4
  <2>2. hi - w \in Int
    BY <1>1, <1>2
  <2> HIDE DEF lo, hi, middle
  <2>3. v.start \in Int /\ v.end = v.start + w
    OBVIOUS
  <2> HIDE DEF w
  <2> QED
    BY <1>2, <1>3, <2>1, <2>2, <2>3
<1>6. Width(c) = w
  BY <1>1, <1>5 DEF Width
<1>7. w < hi - lo => lo <= c.start /\ c.end <= hi
  <2> SUFFICES ASSUME w < hi - lo PROVE lo <= c.start /\ c.end <= hi
    OBVIOUS
  <2>1. CASE v.end > hi
    <3>1. c.start = hi - w
      BY <1>1, <1>2, <1>3, <1>4, <2>1
    <3> QED
      BY <1>1, <1>2, <1>5, <3>1
  <2>2. CASE ~(v.end > hi) /\ v.start < lo
    <3>1. c.start = lo
      BY <1>1, <1>2, <1>3, <1>4, <2>2
    <3> QED
      BY <1>1, <1>2, <1>5, <3>1
  <2>3. CASE ~(v.end > hi) /\ ~(v.start < lo)
    BY <1>1, <1>2, <1>3, <2>3
  <2> QED
    BY <2>1, <2>2, <2>3
<1>8. w >= hi - lo => c.start <= v.min /\ v.max <= c.end
  <2> SUFFICES ASSUME w >= hi - lo PROVE c.start <= v.min /\ v.max <= c.end
    OBVIOUS
  <2>1. c.start = middle
    BY <1>1, <1>2, <1>3, <1>4
  <2>2. w >= v.max - v.min
    BY <1>2
  <2>3. middle <= v.min /\ v.max <= middle + w
    BY <1>1, <2>2
  <2> QED
    BY <1>5, <2>1, <2>3
<1>9. hi - lo = v.max - v.min + 2 * pad
  BY <1>2
<1> QED
  BY <1>1, <1>6, <1>7, <1>8, <1>9 DEF c

-----------------------------------------------------------------------------
(* Sequences that hold each member of a set once. *)
Enumerates(s, S) ==
  /\ Len(s) \in Nat /\ DOMAIN s = 1..Len(s)
  /\ ToSet(s) = S
  /\ \A j, k \in 1..Len(s) : j # k => s[j] # s[k]

LEMMA SortedEnumerates ==
  ASSUME NEW S, IsFiniteSet(S), NEW R, Orders(R, S)
  PROVE  Enumerates(Sorted(S, R), S) /\ Len(Sorted(S, R)) = Cardinality(S)
<1>1. PICK s : s = Sorted(S, R)
  OBVIOUS
<1>2. s \in Seq(S) /\ Len(s) = Cardinality(S) /\ (\A x \in S : \E k \in 1..Len(s) : s[k] = x) /\ \A j, k \in 1..Len(s) : j < k => <<s[j], s[k]>> \in R
  BY <1>1, SortedSorts DEF Sorts
<1>3. PICK l \in Nat : l = Len(s)
  BY <1>2
<1>4. DOMAIN s = 1..l /\ \A k \in 1..l : s[k] \in S
  BY <1>2, <1>3
<1>5. ToSet(s) = S
  BY <1>2, <1>3, <1>4 DEF ToSet
<1>6. ASSUME NEW j \in 1..l, NEW k \in 1..l, j # k PROVE s[j] # s[k]
  <2>1. j < k \/ k < j
    BY <1>6
  <2>2. <<s[j], s[k]>> \in R \/ <<s[k], s[j]>> \in R
    BY <1>2, <1>3, <2>1
  <2>3. <<s[j], s[j]>> \notin R
    BY <1>4 DEF Orders
  <2> QED
    BY <2>2, <2>3
<1> QED
  BY <1>1, <1>2, <1>3, <1>4, <1>5, <1>6 DEF Enumerates

\* Numbers, least first.
LEMMA NumbersInOrder ==
  ASSUME NEW n \in Nat, NEW P \in SUBSET (1..n), NEW R, R = {p \in P \X P : p[1] < p[2]}
  PROVE  Enumerates(Sorted(P, R), P)
<1>1. IsFiniteSet(P)
  <2>1. IsFiniteSet(1..n)
    BY FS_Interval
  <2> QED
    BY <2>1, FS_Subset
<1>2. \A x, y \in P : <<x, y>> \in R <=> x < y
  OBVIOUS
<1>3. \A x \in P : x \in Int
  OBVIOUS
<1>4. Orders(R, P)
  <2>3. ASSUME NEW x \in P, NEW y \in P, NEW z \in P, <<x, y>> \in R, <<y, z>> \in R PROVE <<x, z>> \in R
    BY <1>2, <1>3, <2>3
  <2>4. ASSUME NEW x \in P, NEW y \in P, x # y PROVE <<x, y>> \in R \/ <<y, x>> \in R
    BY <1>2, <1>3, <2>4
  <2>5. ASSUME NEW x \in P PROVE <<x, x>> \notin R
    BY <1>2, <1>3
  <2> QED
    BY <2>3, <2>4, <2>5 DEF Orders
<1> QED
  BY <1>1, <1>4, SortedEnumerates

\* What a sequence holds at some of its positions.
LEMMA Rearranged ==
  ASSUME NEW s, Enumerates(s, ToSet(s)), NEW P \in SUBSET DOMAIN s, NEW at, Enumerates(at, P),
         NEW r, r = [k \in DOMAIN at |-> s[at[k]]]
  PROVE  Enumerates(r, {s[k] : k \in P}) /\ Len(r) = Len(at)
<1>1. PICK l \in Nat : l = Len(at) /\ DOMAIN at = 1..l
  BY DEF Enumerates
<1>2. r = [k \in 1..l |-> s[at[k]]]
  BY <1>1
<1>3. DOMAIN r = 1..l /\ Len(r) = l
  BY <1>2
<1>4. \A k \in 1..l : at[k] \in P /\ r[k] = s[at[k]]
  BY <1>1, <1>2 DEF Enumerates, ToSet
<1>5. ToSet(r) = {s[k] : k \in P}
  <2>1. ASSUME NEW k \in P PROVE \E j \in 1..l : r[j] = s[k]
    <3>1. PICK j \in 1..l : at[j] = k
      BY <1>1 DEF Enumerates, ToSet
    <3> QED
      BY <1>4, <3>1
  <2> QED
    BY <1>3, <1>4, <2>1, SMTT(30) DEF ToSet
<1>6. ASSUME NEW j \in 1..l, NEW k \in 1..l, j # k PROVE r[j] # r[k]
  <2>1. at[j] # at[k] /\ at[j] \in DOMAIN s /\ at[k] \in DOMAIN s
    BY <1>1, <1>4, <1>6 DEF Enumerates
  <2>2. s[at[j]] # s[at[k]]
    BY <2>1 DEF Enumerates
  <2> QED
    BY <1>4, <2>2
<1> QED
  BY <1>1, <1>3, <1>5, <1>6, SMTT(30) DEF Enumerates

LEMMA KeptEnumerates ==
  ASSUME NEW s, Enumerates(s, ToSet(s)), NEW P \in SUBSET DOMAIN s
  PROVE  Enumerates(Kept(s, P), {s[k] : k \in P})
<1>1. PICK n \in Nat : DOMAIN s = 1..n
  BY DEF Enumerates
<1>2. PICK R, at : R = {p \in P \X P : p[1] < p[2]} /\ at = Sorted(P, R)
  OBVIOUS
<1>3. Enumerates(at, P)
  BY <1>1, <1>2, NumbersInOrder
<1>4. Kept(s, P) = [k \in DOMAIN at |-> s[at[k]]]
  BY <1>2 DEF Kept, InOrder
<1> QED
  BY <1>3, <1>4, Rearranged

(* The rows of the lists. *)
RowBefore(m, rows, column, a, b) ==
  \/ KeyOf(m.events[rows[a]], column) < KeyOf(m.events[rows[b]], column)
  \/ ~(KeyOf(m.events[rows[b]], column) < KeyOf(m.events[rows[a]], column)) /\ a < b

LEMMA SortedRowsAre ==
  ASSUME NEW m, NEW rows, Enumerates(rows, ToSet(rows)), \A i \in ToSet(rows) : HasTimes(m.events[i]), NEW column
  PROVE  Enumerates(SortedRows(m, rows, column), ToSet(rows)) /\ Len(SortedRows(m, rows, column)) = Len(rows)
<1>1. PICK n \in Nat : n = Len(rows) /\ DOMAIN rows = 1..n
  BY DEF Enumerates
<1>2. PICK K : K = [k \in 1..n |-> KeyOf(m.events[rows[k]], column)]
  OBVIOUS
<1>3. \A k \in 1..n : K[k] \in Int /\ K[k] = KeyOf(m.events[rows[k]], column)
  <2> TAKE k \in 1..n
  <2>1. rows[k] \in ToSet(rows)
    BY <1>1 DEF ToSet
  <2>2. m.events[rows[k]].ts \in Int /\ m.events[rows[k]].dur \in Int
    BY <2>1 DEF HasTimes
  <2>3. KeyOf(m.events[rows[k]], column) \in Int
    BY <2>2 DEF KeyOf
  <2> QED
    BY <1>2, <2>3
<1>4. PICK D : D = DOMAIN rows
  OBVIOUS
<1>5. PICK R : R = {p \in D \X D : RowBefore(m, rows, column, p[1], p[2])}
  OBVIOUS
<1>6. \A x, y \in D : <<x, y>> \in R <=> K[x] < K[y] \/ (~(K[y] < K[x]) /\ x < y)
  <2> TAKE x \in D, y \in D
  <2>1. <<x, y>> \in R <=> RowBefore(m, rows, column, x, y)
    BY <1>5
  <2>2. K[x] = KeyOf(m.events[rows[x]], column) /\ K[y] = KeyOf(m.events[rows[y]], column)
    BY <1>1, <1>3, <1>4
  <2> QED
    BY <2>1, <2>2 DEF RowBefore
<1>7. \A x \in D : K[x] \in Int /\ x \in Int
  BY <1>1, <1>3, <1>4
<1>8. Orders(R, D)
  <2>1. ASSUME NEW x \in D, NEW y \in D, NEW z \in D, <<x, y>> \in R, <<y, z>> \in R PROVE <<x, z>> \in R
    BY <1>6, <1>7, <2>1
  <2>2. ASSUME NEW x \in D, NEW y \in D, x # y PROVE <<x, y>> \in R \/ <<y, x>> \in R
    BY <1>6, <1>7, <2>2
  <2>3. ASSUME NEW x \in D PROVE <<x, x>> \notin R
    BY <1>6, <1>7
  <2> QED
    BY <2>1, <2>2, <2>3 DEF Orders
<1>9. IsFiniteSet(D) /\ Cardinality(D) = n
  <2>1. IsFiniteSet(1..n) /\ Cardinality(1..n) = n
    BY FS_Interval
  <2> QED
    BY <1>1, <1>4, <2>1
<1>10. PICK at : at = Sorted(D, R)
  OBVIOUS
<1>11. Enumerates(at, D) /\ Len(at) = n
  BY <1>8, <1>9, <1>10, SortedEnumerates
<1>12. PICK r : r = [k \in DOMAIN at |-> rows[at[k]]]
  OBVIOUS
<1>13. SortedRows(m, rows, column) = r
  BY <1>4, <1>5, <1>10, <1>12 DEF SortedRows, StableSort, InOrder, RowBefore
<1>14. Enumerates(r, {rows[k] : k \in D}) /\ Len(r) = Len(at)
  BY <1>1, <1>4, <1>11, <1>12, Rearranged
<1> QED
  BY <1>1, <1>4, <1>11, <1>13, <1>14, SMTT(30) DEF ToSet

\* The first of every name.
LEMMA UniqueRowsAre ==
  ASSUME NEW m, NEW rows, Enumerates(rows, ToSet(rows)),
         NEW u, u = UniqueByName(m, rows)
  PROVE  /\ Enumerates(u, ToSet(u)) /\ ToSet(u) \subseteq ToSet(rows)
         /\ \A i \in ToSet(rows) : \E j \in ToSet(u) : m.events[j].name = m.events[i].name
<1>1. PICK n \in Nat : n = Len(rows) /\ DOMAIN rows = 1..n
  BY DEF Enumerates
<1>2. PICK P : P = {k \in DOMAIN rows : \A j \in 1..k - 1 : m.events[rows[j]].name # m.events[rows[k]].name}
  OBVIOUS
<1>3. u = Kept(rows, P) /\ P \in SUBSET DOMAIN rows
  BY <1>2 DEF UniqueByName
<1>4. Enumerates(u, {rows[k] : k \in P})
  BY <1>3, KeptEnumerates
<1>5. ToSet(u) = {rows[k] : k \in P}
  BY <1>4 DEF Enumerates
<1>6. ASSUME NEW i \in ToSet(rows) PROVE \E j \in ToSet(u) : m.events[j].name = m.events[i].name
  <2>1. PICK a \in 1..n : rows[a] = i
    BY <1>1 DEF ToSet
  <2>2. PICK T : T = {k \in 1..n : m.events[rows[k]].name = m.events[i].name}
    OBVIOUS
  <2>3. T \in SUBSET Nat /\ a \in T
    BY <2>1, <2>2
  <2>4. PICK k \in T : \A y \in T : k <= y
    BY <2>3, LeastNumber
  <2>5. k \in 1..n /\ m.events[rows[k]].name = m.events[i].name
    BY <2>2
  <2>6. \A j \in 1..k - 1 : j \in 1..n /\ ~(k <= j)
    BY <2>5
  <2>7. \A j \in 1..k - 1 : m.events[rows[j]].name # m.events[i].name
    BY <2>2, <2>4, <2>6
  <2>8. k \in P
    BY <1>1, <1>2, <2>5, <2>7
  <2> QED
    BY <1>5, <2>5, <2>8
<1>7. ToSet(u) \subseteq ToSet(rows)
  BY <1>2, <1>5 DEF ToSet
<1> QED
  BY <1>4, <1>5, <1>6, <1>7

(* What the panels rely on of an index. *)
InstancesOf(events, name) == {i \in DOMAIN events : events[i].name = name /\ Listed(events, i)}
Indexed(m) ==
  \E n \in Nat :
    /\ m.events = [i \in 1..n |-> m.events[i]] /\ DOMAIN m.events = 1..n /\ AreTimed(m.events)
    /\ m.byName = [name \in {m.events[i].name : i \in DOMAIN m.events} |-> InTime(m.events, InstancesOf(m.events, name))]
    /\ m.events = <<>> => DOMAIN m.order = {}

LEMMA ModelIsIndexed ==
  ASSUME NEW n \in Nat, NEW events0, DOMAIN events0 = 1..n, AreTimed(events0), NEW frames
  PROVE  Indexed(BuildIndex(events0, frames))
<1>1. PICK m : m = BuildIndex(events0, frames)
  OBVIOUS
<1>2. IndexOf(m, events0, ResolveFrames(frames), n)
  BY <1>1, IndexIs
<1>3. m.events = [i \in 1..n |-> m.events[i]] /\ AreTimed(m.events)
  BY <1>2 DEF IndexOf
<1>4. PICK q : q = IndexEvents([i \in DOMAIN events0 |-> Reset(ResolveEvent(events0[i], ResolveFrames(frames)))])
  OBVIOUS
<1>5. PICK order : order = [th \in Threads(q) |-> NestOrder(q, th)]
  OBVIOUS
<1>6. m = Model(q, ResolveFrames(frames), order)
  BY <1>1, <1>4, <1>5 DEF BuildIndex, IndexWith, IndexedAs
<1>7. m.events = q /\ m.order = order
      /\ m.byName = [name \in {q[i].name : i \in DOMAIN q} |-> InTime(q, InstancesOf(q, name))]
  BY <1>6 DEF Model, InstancesOf
<1>8. m.events = <<>> => DOMAIN m.order = {}
  <2> SUFFICES ASSUME q = <<>> PROVE DOMAIN order = {}
    BY <1>7
  <2>1. DOMAIN q = {}
    OBVIOUS
  <2>2. Threads(q) = {}
    BY <2>1 DEF Threads
  <2> QED
    BY <1>5, <2>2
<1>9. DOMAIN m.events = 1..n
  BY <1>3
<1>10. m.byName = [name \in {m.events[i].name : i \in DOMAIN m.events} |-> InTime(m.events, InstancesOf(m.events, name))]
  BY <1>7
<1>11. Indexed(m)
  BY <1>3, <1>8, <1>9, <1>10 DEF Indexed
<1> QED
  BY <1>1, <1>11

LEMMA EventTimes ==
  ASSUME NEW m, Indexed(m), NEW i \in DOMAIN m.events
  PROVE  HasTimes(m.events[i])
BY DEF Indexed, AreTimed, IsTimed

\* By the time they start.
LEMMA InTimeEnumerates ==
  ASSUME NEW m, Indexed(m), NEW S \in SUBSET DOMAIN m.events
  PROVE  Enumerates(InTime(m.events, S), S)
<1>1. PICK n \in Nat : DOMAIN m.events = 1..n
  BY DEF Indexed
<1>2. IsFiniteSet(S)
  <2>1. IsFiniteSet(1..n)
    BY FS_Interval
  <2> QED
    BY <1>1, <2>1, FS_Subset
<1>3. PICK R : R = {p \in S \X S : \/ m.events[p[1]].ts < m.events[p[2]].ts
                                   \/ m.events[p[1]].ts = m.events[p[2]].ts /\ p[1] < p[2]}
  OBVIOUS
<1>4. Orders(R, S)
  <2>1. \A x, y \in S : <<x, y>> \in R <=> \/ m.events[x].ts < m.events[y].ts
                                           \/ m.events[x].ts = m.events[y].ts /\ x < y
    BY <1>3
  <2>2. \A x \in S : x \in Int /\ m.events[x].ts \in Int
    BY <1>1, EventTimes DEF HasTimes
  <2>3. ASSUME NEW x \in S, NEW y \in S, NEW z \in S, <<x, y>> \in R, <<y, z>> \in R PROVE <<x, z>> \in R
    BY <2>1, <2>2, <2>3
  <2>4. ASSUME NEW x \in S, NEW y \in S, x # y PROVE <<x, y>> \in R \/ <<y, x>> \in R
    BY <2>1, <2>2, <2>4
  <2>5. ASSUME NEW x \in S PROVE <<x, x>> \notin R
    BY <2>1, <2>2
  <2> QED
    BY <2>3, <2>4, <2>5 DEF Orders
<1>5. InTime(m.events, S) = Sorted(S, R)
  BY <1>3 DEF InTime, InOrder
<1> QED
  BY <1>2, <1>4, <1>5, SortedEnumerates

-----------------------------------------------------------------------------
(* The search. *)
HasView(v) ==
  {"start", "end", "sel", "pending", "ranged", "selecting", "rangeStart", "rangeEnd", "pids", "tids", "cats",
   "query", "results", "current"} \subseteq DOMAIN v
ResultsAre(m, results) == Enumerates(results, ToSet(results)) /\ ToSet(results) \subseteq DOMAIN m.events
IsSearch(q) == {"text", "unique", "rows", "stats", "column"} \subseteq DOMAIN q
RowsOf(m, results, q) ==
  /\ IsSearch(q)
  /\ Enumerates(q.rows, ToSet(q.rows)) /\ ToSet(q.rows) \subseteq ToSet(results)
  /\ \A i \in ToSet(results) : \E j \in ToSet(q.rows) : m.events[j].name = m.events[i].name /\ (q.unique \/ i = j)

LEMMA HitsAre ==
  ASSUME NEW m, Indexed(m), NEW text
  PROVE  ResultsAre(m, Hits(m, text))
<1>1. PICK n \in Nat : DOMAIN m.events = 1..n
  BY DEF Indexed
<1>2. PICK S : S = {i \in DOMAIN m.events : /\ ~m.events[i].ended /\ m.events[i].ph # "M"
                                            /\ text # ""
                                            /\ Has(m.events[i].name, text) \/ Has(m.events[i].cat, text)}
  OBVIOUS
<1>3. PICK R : R = {p \in S \X S : p[1] < p[2]}
  OBVIOUS
<1>4. Hits(m, text) = Sorted(S, R)
  BY <1>2, <1>3 DEF Hits, InOrder
<1>5. S \in SUBSET (1..n)
  BY <1>1, <1>2
<1>6. Enumerates(Sorted(S, R), S)
  BY <1>3, <1>5, NumbersInOrder
<1>7. ToSet(Sorted(S, R)) = S
  BY <1>6 DEF Enumerates
<1> QED
  BY <1>1, <1>4, <1>5, <1>6, <1>7 DEF ResultsAre

LEMMA RereadIs ==
  ASSUME NEW m, Indexed(m), NEW v, ResultsAre(m, v.results), NEW q, IsSearch(q)
  PROVE  RowsOf(m, v.results, Reread(m, v, q))
<1>1. PICK rows : rows = IF q.unique THEN UniqueByName(m, v.results) ELSE v.results
  OBVIOUS
<1>2. Enumerates(v.results, ToSet(v.results))
  BY DEF ResultsAre
<1>3. Enumerates(rows, ToSet(rows)) /\ ToSet(rows) \subseteq ToSet(v.results)
      /\ \A i \in ToSet(v.results) : \E j \in ToSet(rows) : m.events[j].name = m.events[i].name /\ (q.unique \/ i = j)
  <2>1. CASE q.unique
    <3>1. rows = UniqueByName(m, v.results)
      BY <1>1, <2>1
    <3> QED
      BY <1>2, <2>1, <3>1, UniqueRowsAre
  <2>2. CASE ~q.unique
    BY <1>1, <1>2, <2>2
  <2> QED
    BY <2>1, <2>2
<1>4. \A i \in ToSet(rows) : HasTimes(m.events[i])
  BY <1>3, EventTimes DEF ResultsAre
<1>5. PICK r : r = SortedRows(m, rows, q.column)
  OBVIOUS
<1>6. Enumerates(r, ToSet(rows)) /\ ToSet(r) = ToSet(rows)
  <2>1. Enumerates(r, ToSet(rows))
    BY <1>3, <1>4, <1>5, SortedRowsAre
  <2> QED
    BY <2>1 DEF Enumerates
<1>7. PICK p : p = Reread(m, v, q)
  OBVIOUS
<1>8. p = [q EXCEPT !.rows = r]
  BY <1>1, <1>5, <1>7 DEF Reread
<1>9. p.rows = r /\ p.unique = q.unique /\ IsSearch(p)
  BY <1>8 DEF IsSearch
<1> QED
  BY <1>3, <1>6, <1>7, <1>9 DEF RowsOf

LEMMA SortingRows ==
  ASSUME NEW m, Indexed(m), NEW results, ResultsAre(m, results), NEW q, RowsOf(m, results, q), NEW column
  PROVE  RowsOf(m, results, [q EXCEPT !.column = column, !.rows = SortedRows(m, q.rows, column)])
<1>1. PICK r : r = SortedRows(m, q.rows, column)
  OBVIOUS
<1>2. \A i \in ToSet(q.rows) : HasTimes(m.events[i])
  BY EventTimes DEF ResultsAre, RowsOf
<1>3. Enumerates(r, ToSet(q.rows)) /\ ToSet(r) = ToSet(q.rows)
  <2>1. Enumerates(q.rows, ToSet(q.rows))
    BY DEF RowsOf
  <2>2. Enumerates(r, ToSet(q.rows))
    BY <1>1, <1>2, <2>1, SortedRowsAre
  <2> QED
    BY <2>2 DEF Enumerates
<1>4. PICK p : p = [q EXCEPT !.column = column, !.rows = r]
  OBVIOUS
<1>5. p.rows = r /\ p.unique = q.unique /\ IsSearch(p)
  BY <1>4 DEF IsSearch, RowsOf
<1>6. RowsOf(m, results, p)
  BY <1>3, <1>5 DEF RowsOf
<1> QED
  BY <1>1, <1>4, <1>6

LEMMA IdleIs == Idle.is = "idle"
BY DEF Idle

\* What a step may do to the view: it leaves the results alone.
Keeps(v, w) == HasView(w) /\ w.results = v.results

LEMMA SelectKeeps ==
  ASSUME NEW v, HasView(v), NEW i
  PROVE  Keeps(v, Select(v, i))
BY DEF Select, Keeps, HasView

LEMMA NavigateKeeps ==
  ASSUME NEW v, HasView(v), NEW m, NEW i, NEW halves, NEW least
  PROVE  Keeps(v, NavigateTo(v, m, i, halves, least))
<1>1. PICK u : u = Select(v, i)
  OBVIOUS
<1>2. Keeps(v, u)
  BY <1>1, SelectKeeps
<1>3. PICK pending, start, end : NavigateTo(v, m, i, halves, least) = [u EXCEPT !.pending = pending, !.start = start, !.end = end]
  BY <1>1 DEF NavigateTo
<1> QED
  BY <1>2, <1>3 DEF Keeps, HasView

LEMMA SearchFinds ==
  ASSUME NEW m, Indexed(m), NEW v, HasView(v), NEW q, IsSearch(q),
         NEW r, r = SearchFor(m, v, q)
  PROVE  HasView(r.v) /\ ResultsAre(m, r.v.results) /\ RowsOf(m, r.v.results, r.q)
<1>1. PICK w : w = [v EXCEPT !.query = q.text, !.results = Hits(m, q.text), !.current = -1]
  OBVIOUS
<1>2. HasView(w) /\ w.results = Hits(m, q.text)
  BY <1>1 DEF HasView
<1>3. PICK p : p = [q EXCEPT !.stats = NameStats(m, w.results)]
  OBVIOUS
<1>4. IsSearch(p)
  BY <1>3 DEF IsSearch
<1>5. ResultsAre(m, w.results)
  BY <1>2, HitsAre
<1>6. RowsOf(m, w.results, Reread(m, w, p))
  BY <1>4, <1>5, RereadIs
<1>7. r = [v |-> w, q |-> Reread(m, w, p)]
  BY <1>1, <1>3 DEF SearchFor
<1> QED
  BY <1>2, <1>5, <1>6, <1>7

LEMMA StepKeeps ==
  ASSUME NEW m, NEW v, HasView(v), NEW q, NEW at
  PROVE  Keeps(v, StepTo(m, v, q, at))
<1>1. PICK moved : moved = [v EXCEPT !.current = at]
  OBVIOUS
<1>2. HasView(moved) /\ moved.results = v.results
  BY <1>1 DEF HasView
<1>3. StepTo(m, v, q, at) \in {v, moved, JumpToResult(moved, m, q.rows[at + 1])}
  BY <1>1 DEF StepTo
<1>4. Keeps(moved, JumpToResult(moved, m, q.rows[at + 1]))
  BY <1>2, NavigateKeeps DEF JumpToResult
<1> QED
  BY <1>2, <1>3, <1>4 DEF Keeps

\* Whatever is done in the search panel, its rows stay those of the results; and
\* a frame without input changes nothing.
LEMMA SearchHolds ==
  ASSUME NEW m, Indexed(m), NEW v, HasView(v), ResultsAre(m, v.results), NEW q, RowsOf(m, v.results, q), NEW in,
         NEW r, r = SearchFrame(m, v, q, in)
  PROVE  /\ HasView(r.v) /\ ResultsAre(m, r.v.results) /\ RowsOf(m, r.v.results, r.q)
         /\ in = Idle => r.v = v
<1>1. IsSearch(q)
  BY DEF RowsOf
<1>2. CASE in.is = "find"
  <2>1. PICK p : p = [q EXCEPT !.text = in.text]
    OBVIOUS
  <2>2. IsSearch(p) /\ r = SearchFor(m, v, p)
    BY <1>1, <1>2, <2>1 DEF SearchFrame, IsSearch
  <2> QED
    BY <1>2, <2>2, SearchFinds DEF Idle
<1>3. CASE in.is = "unique"
  <2>1. PICK p : p = [q EXCEPT !.unique = ~@]
    OBVIOUS
  <2>2. IsSearch(p) /\ r = [v |-> v, q |-> Reread(m, v, p)]
    BY <1>1, <1>3, <2>1 DEF SearchFrame, IsSearch
  <2>3. RowsOf(m, v.results, Reread(m, v, p))
    BY <2>2, RereadIs
  <2> QED
    BY <2>2, <2>3
<1>4. CASE in.is = "sort results"
  <2>1. r = [v |-> v, q |-> [q EXCEPT !.column = in.column, !.rows = SortedRows(m, q.rows, in.column)]]
    BY <1>4 DEF SearchFrame
  <2>2. RowsOf(m, v.results, [q EXCEPT !.column = in.column, !.rows = SortedRows(m, q.rows, in.column)])
    BY SortingRows
  <2>3. r.v = v /\ r.q = [q EXCEPT !.column = in.column, !.rows = SortedRows(m, q.rows, in.column)]
    BY <2>1
  <2> QED
    BY <2>2, <2>3
<1>5. CASE in.is \notin {"find", "unique", "sort results"}
  <2>1. /\ r.q = q
        /\ \/ r.v = v
           \/ in # Idle /\ r.v \in {StepTo(m, v, q, v.current - 1), StepTo(m, v, q, Min({v.current, Len(q.rows) - 2}) + 1),
                                    JumpToResult(v, m, in.event)}
    <3>1. CASE in.is = "previous result" /\ v.current > 0
      <4>1. r = [v |-> StepTo(m, v, q, v.current - 1), q |-> q]
        BY <3>1 DEF SearchFrame
      <4>2. r.q = q /\ r.v = StepTo(m, v, q, v.current - 1)
        BY <4>1
      <4>3. in # Idle
        BY <3>1, IdleIs
      <4> QED
        BY <4>2, <4>3
    <3>2. CASE in.is = "next result"
      <4>1. r = [v |-> StepTo(m, v, q, Min({v.current, Len(q.rows) - 2}) + 1), q |-> q]
        BY <3>2 DEF SearchFrame
      <4>2. r.q = q /\ r.v = StepTo(m, v, q, Min({v.current, Len(q.rows) - 2}) + 1)
        BY <4>1
      <4>3. in # Idle
        BY <3>2, IdleIs
      <4> QED
        BY <4>2, <4>3
    <3>3. CASE in.is = "result row"
      <4>1. r = [v |-> JumpToResult(v, m, in.event), q |-> q]
        BY <3>3 DEF SearchFrame
      <4>2. r.q = q /\ r.v = JumpToResult(v, m, in.event)
        BY <4>1
      <4>3. in # Idle
        BY <3>3, IdleIs
      <4> QED
        BY <4>2, <4>3
    <3>4. CASE in.is \notin {"next result", "result row"} /\ ~(in.is = "previous result" /\ v.current > 0)
      <4>1. r = [v |-> v, q |-> q]
        BY <1>5, <3>4 DEF SearchFrame
      <4> QED
        BY <4>1
    <3> QED
      BY <3>1, <3>2, <3>3, <3>4
  <2>2. r.v = v \/ Keeps(v, r.v)
    BY <2>1, StepKeeps, NavigateKeeps DEF JumpToResult
  <2> QED
    BY <2>1, <2>2 DEF Keeps
<1> QED
  BY <1>2, <1>3, <1>4, <1>5

-----------------------------------------------------------------------------
(* The instances. *)
IsInstances(s) == {"name", "rows", "cursor", "last", "dirty", "column"} \subseteq DOMAIN s
CursorFits(s) == s.cursor \in Int /\ s.cursor <= Len(s.rows)

\* The rows are the events of the name, and the name that of the event that was
\* selected last.
RowsOfName(m, s) ==
  /\ IsInstances(s) /\ CursorFits(s)
  /\ Enumerates(s.rows, ToSet(s.rows)) /\ ToSet(s.rows) \subseteq DOMAIN m.events
  /\ s.name # "" => ToSet(s.rows) = InstancesOf(m.events, s.name)
NamedLast(m, s) ==
  s.last \in DOMAIN m.events /\ Browsed(m.events[s.last]) => s.name = m.events[s.last].name
InstancesHold(m, s) == RowsOfName(m, s) /\ NamedLast(m, s)

LEMMA FunctionSelected ==
  ASSUME NEW m, Indexed(m), NEW s, IsInstances(s), NEW name, NEW f, f = SelectFunction(m, s, name)
  PROVE  RowsOfName(m, f) /\ f.name = name
<1>1. PICK rows : rows = IF name \in DOMAIN m.byName THEN m.byName[name] ELSE <<>>
  OBVIOUS
<1>2. f = [s EXCEPT !.name = name, !.cursor = 0, !.rows = rows]
  BY <1>1 DEF SelectFunction
<1>3. f.name = name /\ f.rows = rows /\ f.cursor = 0 /\ IsInstances(f)
  BY <1>2 DEF IsInstances
<1>4. Enumerates(rows, InstancesOf(m.events, name))
  <2>1. PICK names : names = {m.events[i].name : i \in DOMAIN m.events}
    OBVIOUS
  <2>2. m.byName = [x \in names |-> InTime(m.events, InstancesOf(m.events, x))]
    BY <2>1 DEF Indexed
  <2>3. CASE name \in names
    <3>1. rows = InTime(m.events, InstancesOf(m.events, name))
      BY <1>1, <2>2, <2>3
    <3>2. InstancesOf(m.events, name) \in SUBSET DOMAIN m.events
      BY DEF InstancesOf
    <3> QED
      BY <3>1, <3>2, InTimeEnumerates
  <2>4. CASE name \notin names
    <3>1. rows = <<>>
      BY <1>1, <2>2, <2>4
    <3>2. InstancesOf(m.events, name) = {}
      BY <2>1, <2>4 DEF InstancesOf
    <3>3. DOMAIN rows = {} /\ Len(rows) = 0
      BY <3>1
    <3> QED
      BY <3>2, <3>3 DEF Enumerates, ToSet
  <2> QED
    BY <2>3, <2>4
<1>5. ToSet(rows) = InstancesOf(m.events, name) /\ Len(rows) \in Nat
  BY <1>4 DEF Enumerates
<1>6. CursorFits(f)
  BY <1>3, <1>5 DEF CursorFits
<1>7. InstancesOf(m.events, name) \subseteq DOMAIN m.events
  BY DEF InstancesOf
<1> QED
  BY <1>3, <1>4, <1>5, <1>6, <1>7 DEF RowsOfName

\* The panel notices another selection.
LEMMA SelectionFollowed ==
  ASSUME NEW m, Indexed(m), NEW v, NEW s, InstancesHold(m, s), NEW f, f = FollowSelection(m, v, s)
  PROVE  InstancesHold(m, f) /\ f.last = v.sel
<1>1. IsInstances(s)
  BY DEF InstancesHold, RowsOfName
<1>2. CASE v.sel = None
  <2>1. f = [s EXCEPT !.last = None]
    BY <1>2 DEF FollowSelection
  <2>2. f.last = None /\ f.name = s.name /\ f.rows = s.rows /\ f.cursor = s.cursor /\ IsInstances(f)
    BY <1>1, <2>1 DEF IsInstances
  <2>3. None \notin DOMAIN m.events
    BY DEF Indexed, None
  <2> QED
    BY <1>2, <2>2, <2>3 DEF InstancesHold, RowsOfName, NamedLast, CursorFits
<1>3. CASE v.sel # None /\ v.sel = s.last
  BY <1>3 DEF FollowSelection
<1>4. CASE v.sel # None /\ v.sel # s.last
  <2>1. PICK e : e = m.events[v.sel]
    OBVIOUS
  <2>2. CASE e.ended \/ e.ph \in {"M", "C"} \/ s.name = e.name
    <3>1. f = [s EXCEPT !.last = v.sel]
      BY <1>4, <2>1, <2>2 DEF FollowSelection
    <3>2. f.last = v.sel /\ f.name = s.name /\ f.rows = s.rows /\ f.cursor = s.cursor /\ IsInstances(f)
      BY <1>1, <3>1 DEF IsInstances
    <3>3. Browsed(e) => s.name = e.name
      BY <2>2 DEF Browsed
    <3> QED
      BY <2>1, <3>2, <3>3 DEF InstancesHold, RowsOfName, NamedLast, CursorFits
  <2>3. CASE ~(e.ended \/ e.ph \in {"M", "C"} \/ s.name = e.name)
    <3>1. PICK g : g = SelectFunction(m, s, e.name)
      OBVIOUS
    <3>2. RowsOfName(m, g) /\ g.name = e.name
      BY <1>1, <3>1, FunctionSelected
    <3>3. f = [[g EXCEPT !.dirty = TRUE] EXCEPT !.last = v.sel]
      BY <1>4, <2>1, <2>3, <3>1 DEF FollowSelection
    <3>4. f.last = v.sel /\ f.name = g.name /\ f.rows = g.rows /\ f.cursor = g.cursor /\ IsInstances(f)
      BY <3>2, <3>3 DEF IsInstances, RowsOfName
    <3> QED
      BY <2>1, <3>2, <3>4 DEF InstancesHold, RowsOfName, NamedLast, CursorFits
  <2> QED
    BY <2>2, <2>3
<1> QED
  BY <1>2, <1>3, <1>4

LEMMA InstancesSorted ==
  ASSUME NEW m, Indexed(m), NEW v, NEW s, InstancesHold(m, s), NEW f, f = SortInstances(m, v, s)
  PROVE  InstancesHold(m, f) /\ f.last = s.last
<1>1. PICK rows : rows = SortedRows(m, s.rows, s.column)
  OBVIOUS
<1>2. RowsOfName(m, s) /\ IsInstances(s) /\ Enumerates(s.rows, ToSet(s.rows)) /\ ToSet(s.rows) \subseteq DOMAIN m.events
  BY DEF InstancesHold, RowsOfName
<1>3. \A i \in ToSet(s.rows) : HasTimes(m.events[i])
  BY <1>2, EventTimes
<1>4. Enumerates(rows, ToSet(s.rows)) /\ Len(rows) = Len(s.rows)
  BY <1>1, <1>2, <1>3, SortedRowsAre
<1>5. ToSet(rows) = ToSet(s.rows) /\ Len(rows) \in Nat /\ DOMAIN rows = 1..Len(rows)
  BY <1>4 DEF Enumerates
<1>6. PICK at : at = {k \in DOMAIN rows : rows[k] = v.sel}
  OBVIOUS
<1>7. PICK cursor : cursor = IF v.sel = None THEN s.cursor ELSE IF at = {} THEN 0 ELSE Min(at)
  OBVIOUS
<1>8. f = [s EXCEPT !.rows = rows, !.dirty = FALSE, !.cursor = cursor]
  BY <1>1, <1>6, <1>7 DEF SortInstances
<1>9. cursor \in Int /\ cursor <= Len(rows)
  <2>3. PICK l \in Nat : l = Len(rows)
    BY <1>5
  <2>4. s.cursor \in Int /\ s.cursor <= l
    BY <1>2, <1>4, <2>3 DEF RowsOfName, CursorFits
  <2>1. CASE at = {}
    <3>1. cursor = s.cursor \/ cursor = 0
      BY <1>7, <2>1
    <3> QED
      BY <2>3, <2>4, <3>1
  <2>2. CASE at # {}
    <3>1. at \in SUBSET (1..Len(rows))
      BY <1>5, <1>6
    <3>2. IsFiniteSet(1..Len(rows))
      <4>1. IsFiniteSet(1..l)
        BY FS_Interval
      <4> QED
        BY <2>3, <4>1
    <3>3. IsFiniteSet(at)
      BY <3>1, <3>2, FS_Subset
    <3>6. at \in SUBSET Int
      BY <3>1
    <3>4. Min(at) \in at
      BY <2>2, <3>3, <3>6, FiniteMin
    <3>5. Min(at) \in 1..l
      BY <2>3, <3>1, <3>4
    <3>7. cursor = s.cursor \/ cursor = Min(at)
      BY <1>7, <2>2
    <3> QED
      BY <2>3, <2>4, <3>5, <3>7
  <2> QED
    BY <2>1, <2>2, SMTT(30)
<1>10. f.rows = rows /\ f.cursor = cursor /\ f.name = s.name /\ f.last = s.last /\ IsInstances(f)
  BY <1>2, <1>8 DEF IsInstances
<1>11. CursorFits(f)
  BY <1>9, <1>10 DEF CursorFits
<1>12. RowsOfName(m, f)
  BY <1>2, <1>4, <1>5, <1>10, <1>11 DEF RowsOfName
<1> QED
  BY <1>10, <1>12 DEF InstancesHold, NamedLast

LEMMA CursorMoved ==
  ASSUME NEW m, NEW s, InstancesHold(m, s), NEW k \in Int, k <= Len(s.rows)
  PROVE  InstancesHold(m, [s EXCEPT !.cursor = k]) /\ [s EXCEPT !.cursor = k].last = s.last
<1>1. PICK f : f = [s EXCEPT !.cursor = k]
  OBVIOUS
<1>2. f.rows = s.rows /\ f.cursor = k /\ f.name = s.name /\ f.last = s.last /\ IsInstances(f)
  BY <1>1 DEF InstancesHold, RowsOfName, IsInstances
<1>3. InstancesHold(m, f)
  BY <1>2 DEF InstancesHold, RowsOfName, NamedLast, CursorFits
<1> QED
  BY <1>1, <1>2, <1>3

\* A step of the panel: the view keeps its results, the rows stay those of the
\* name, and nothing happens to the view without input.
Browses(m, v, r) == Keeps(v, r.v) /\ InstancesHold(m, r.s)

LEMMA InstanceShown ==
  ASSUME NEW m, NEW v, HasView(v), NEW s, InstancesHold(m, s), NEW k \in Int, k <= Len(s.rows),
         NEW r, r = ToInstance(m, v, s, k)
  PROVE  Browses(m, v, r)
<1>1. r.v = Jump(v, m, s.rows[k]) /\ r.s = [s EXCEPT !.cursor = k]
  BY DEF ToInstance
<1>2. Keeps(v, r.v)
  BY <1>1, NavigateKeeps DEF Jump
<1>3. InstancesHold(m, r.s)
  BY <1>1, CursorMoved
<1> QED
  BY <1>2, <1>3 DEF Browses

Stepped(m, v, s, in) ==
  CASE in.is = "previous instance" /\ s.cursor > 1 -> ToInstance(m, v, s, s.cursor - 1)
    [] in.is = "next instance" /\ s.cursor < Len(s.rows) -> ToInstance(m, v, s, s.cursor + 1)
    [] OTHER -> [v |-> v, s |-> s]
Picked(s, in) == IF in.is = "sort instances" THEN [s EXCEPT !.column = in.column, !.dirty = TRUE] ELSE s
SortedIfDirty(m, v, s) == IF s.dirty THEN SortInstances(m, v, s) ELSE s

LEMMA SteppedHolds ==
  ASSUME NEW m, NEW v, HasView(v), NEW s, InstancesHold(m, s), NEW in, NEW r, r = Stepped(m, v, s, in)
  PROVE  Browses(m, v, r) /\ (in = Idle => r.v = v /\ r.s = s)
<1>1. s.cursor \in Int /\ s.cursor <= Len(s.rows) /\ Len(s.rows) \in Nat
  BY DEF InstancesHold, RowsOfName, CursorFits, Enumerates
<1>2. CASE in.is = "previous instance" /\ s.cursor > 1
  <2>1. r = ToInstance(m, v, s, s.cursor - 1)
    BY <1>2 DEF Stepped
  <2>2. s.cursor - 1 \in Int /\ s.cursor - 1 <= Len(s.rows)
    BY <1>1
  <2>3. Browses(m, v, r)
    BY <2>1, <2>2, InstanceShown
  <2> QED
    BY <1>2, <2>3, IdleIs
<1>3. CASE in.is = "next instance" /\ s.cursor < Len(s.rows)
  <2>1. r = ToInstance(m, v, s, s.cursor + 1)
    BY <1>3 DEF Stepped
  <2>4. PICK c \in Int, l \in Nat : c = s.cursor /\ l = Len(s.rows)
    BY <1>1
  <2>5. c < l
    BY <1>3, <2>4
  <2>6. c + 1 \in Int /\ c + 1 <= l
    BY <2>5
  <2>2. s.cursor + 1 \in Int /\ s.cursor + 1 <= Len(s.rows)
    BY <2>4, <2>6
  <2>3. Browses(m, v, r)
    BY <2>1, <2>2, InstanceShown
  <2> QED
    BY <1>3, <2>3, IdleIs
<1>4. CASE ~(in.is = "previous instance" /\ s.cursor > 1) /\ ~(in.is = "next instance" /\ s.cursor < Len(s.rows))
  <2>1. r = [v |-> v, s |-> s]
    BY <1>4 DEF Stepped
  <2>2. r.v = v /\ r.s = s
    BY <2>1
  <2> QED
    BY <2>2 DEF Browses, Keeps
<1> QED
  BY <1>2, <1>3, <1>4

LEMMA PickedHolds ==
  ASSUME NEW m, NEW s, InstancesHold(m, s), NEW in, NEW f, f = Picked(s, in)
  PROVE  InstancesHold(m, f) /\ f.last = s.last
<1>1. f.rows = s.rows /\ f.cursor = s.cursor /\ f.name = s.name /\ f.last = s.last /\ IsInstances(f)
  BY DEF Picked, InstancesHold, RowsOfName, IsInstances
<1> QED
  BY <1>1 DEF InstancesHold, RowsOfName, NamedLast, CursorFits

LEMMA InstancesStay ==
  ASSUME NEW m, Indexed(m), NEW v, HasView(v), NEW s, InstancesHold(m, s), NEW in,
         NEW r, r = InstancesFrame(m, v, s, in)
  PROVE  Browses(m, v, r) /\ (in = Idle => r.v = v /\ (m.events # <<>> => r.s.last = v.sel))
<1>1. PICK f : f = FollowSelection(m, v, s)
  OBVIOUS
<1>2. InstancesHold(m, f) /\ f.last = v.sel
  BY <1>1, SelectionFollowed
<1>3. PICK a : a = Stepped(m, v, f, in)
  OBVIOUS
<1>4. Browses(m, v, a) /\ (in = Idle => a.v = v /\ a.s = f)
  BY <1>2, <1>3, SteppedHolds
<1>5. PICK b : b = Picked(a.s, in)
  OBVIOUS
<1>6. InstancesHold(m, b) /\ b.last = a.s.last
  BY <1>4, <1>5, PickedHolds DEF Browses
<1>7. PICK c : c = SortedIfDirty(m, a.v, b)
  OBVIOUS
<1>8. InstancesHold(m, c) /\ c.last = a.s.last
  BY <1>6, <1>7, InstancesSorted DEF SortedIfDirty
<1>9. HasView(a.v) /\ a.v.results = v.results
  BY <1>4 DEF Browses, Keeps
<1>10. r = IF m.events = <<>> THEN [v |-> v, s |-> s]
           ELSE IF f.name = "" \/ f.rows = <<>> THEN [v |-> v, s |-> f]
           ELSE IF in.is = "instance row" /\ in.row \in DOMAIN c.rows THEN ToInstance(m, a.v, c, in.row)
           ELSE [v |-> a.v, s |-> c]
  BY <1>1, <1>3, <1>5, <1>7 DEF InstancesFrame, Stepped, Picked, SortedIfDirty
<1>11. CASE m.events = <<>>
  <2>1. r.v = v /\ r.s = s
    BY <1>10, <1>11
  <2> QED
    BY <1>11, <2>1 DEF Browses, Keeps
<1>12. CASE m.events # <<>> /\ (f.name = "" \/ f.rows = <<>>)
  <2>2. r = [v |-> v, s |-> f]
    BY <1>10, <1>12
  <2>1. r.v = v /\ r.s = f
    BY <2>2
  <2> QED
    BY <1>2, <2>1 DEF Browses, Keeps
<1>13. CASE m.events # <<>> /\ ~(f.name = "" \/ f.rows = <<>>) /\ in.is = "instance row" /\ in.row \in DOMAIN c.rows
  <2>1. r = ToInstance(m, a.v, c, in.row)
    BY <1>10, <1>13
  <2>5. Len(c.rows) \in Nat /\ DOMAIN c.rows = 1..Len(c.rows)
    BY <1>8 DEF InstancesHold, RowsOfName, Enumerates
  <2>6. PICK l \in Nat : l = Len(c.rows)
    BY <2>5
  <2>7. in.row \in 1..l
    BY <1>13, <2>5, <2>6
  <2>2. in.row \in Int /\ in.row <= Len(c.rows)
    BY <2>6, <2>7
  <2>3. Browses(m, a.v, r)
    BY <1>8, <1>9, <2>1, <2>2, InstanceShown
  <2>4. in # Idle
    BY <1>13, IdleIs
  <2> QED
    BY <1>9, <2>3, <2>4 DEF Browses, Keeps
<1>14. CASE m.events # <<>> /\ ~(f.name = "" \/ f.rows = <<>>) /\ ~(in.is = "instance row" /\ in.row \in DOMAIN c.rows)
  <2>2. r = [v |-> a.v, s |-> c]
    BY <1>10, <1>14
  <2>1. r.v = a.v /\ r.s = c
    BY <2>2
  <2> QED
    BY <1>2, <1>4, <1>8, <1>9, <2>1 DEF Browses, Keeps
<1> QED
  BY <1>11, <1>12, <1>13, <1>14

-----------------------------------------------------------------------------
(* The flame graph. *)
IsFlame(f) ==
  {"trees", "count", "ranged", "rangeStart", "rangeEnd", "hidden", "zoom", "chosen", "menuTree", "menu"} \subseteq DOMAIN f

\* The scope the trees were built for.
ScopeKept(f) ==
  [pids |-> f.hidden[1][1], tids |-> f.hidden[1][2], cats |-> f.hidden[1][3], ranged |-> f.ranged,
   rangeStart |-> IF f.ranged THEN f.rangeStart ELSE 0, rangeEnd |-> IF f.ranged THEN f.rangeEnd ELSE 0]

FlameHolds(m, f) ==
  /\ IsFlame(f)
  /\ f.hidden # <<>> => f.trees = Trees(m, ScopeKept(f))
  /\ m.events = <<>> => f.trees = <<>>
SameTrees(f, g) ==
  /\ IsFlame(g) /\ g.trees = f.trees /\ g.hidden = f.hidden
  /\ g.ranged = f.ranged /\ g.rangeStart = f.rangeStart /\ g.rangeEnd = f.rangeEnd

LEMMA SameTreesHold ==
  ASSUME NEW m, NEW f, FlameHolds(m, f), NEW g, SameTrees(f, g)
  PROVE  FlameHolds(m, g)
<1>1. ScopeKept(g) = ScopeKept(f)
  BY DEF ScopeKept, SameTrees
<1> QED
  BY <1>1 DEF FlameHolds, SameTrees

\* What is kept is good for the scope of now.
LEMMA KeptIsCurrent ==
  ASSUME NEW v, NEW f, NEW count, ~NeedsRebuild(v, f, count)
  PROVE  f.hidden # <<>> /\ ScopeKept(f) = Scope(v)
<1>1. f.hidden = <<Hidden(v)>> /\ f.ranged = v.ranged /\ (~v.ranged \/ (f.rangeStart = v.rangeStart /\ f.rangeEnd = v.rangeEnd))
  BY DEF NeedsRebuild, KeptForRange
<1>2. f.hidden # <<>> /\ f.hidden[1] = Hidden(v)
  BY <1>1
<1>3. f.hidden[1][1] = v.pids /\ f.hidden[1][2] = v.tids /\ f.hidden[1][3] = v.cats
  BY <1>2 DEF Hidden
<1> QED
  BY <1>1, <1>2, <1>3 DEF ScopeKept, Scope

LEMMA RebuiltIsCurrent ==
  ASSUME NEW m, NEW v, NEW f, IsFlame(f), NEW g, g = Rebuilt(m, v, f)
  PROVE  IsFlame(g) /\ g.hidden # <<>> /\ ScopeKept(g) = Scope(v) /\ g.trees = Trees(m, Scope(v))
<1>1. PICK trees, c : trees = Trees(m, Scope(v)) /\ c = Cached(v, f, Len(m.events))
  OBVIOUS
<1>2. /\ IsFlame(c) /\ c.hidden = <<Hidden(v)>>
      /\ c.ranged = v.ranged /\ c.rangeStart = v.rangeStart /\ c.rangeEnd = v.rangeEnd
  BY <1>1 DEF Cached, IsFlame
<1>3. PICK zoom, chosen : g = [c EXCEPT !.trees = trees, !.zoom = zoom, !.menuTree = None, !.chosen = chosen]
  BY <1>1 DEF Rebuilt, WithTrees
<1>4. /\ IsFlame(g) /\ g.trees = trees /\ g.hidden = <<Hidden(v)>>
      /\ g.ranged = v.ranged /\ g.rangeStart = v.rangeStart /\ g.rangeEnd = v.rangeEnd
  BY <1>2, <1>3 DEF IsFlame
<1>5. g.hidden # <<>> /\ g.hidden[1] = Hidden(v)
  BY <1>4
<1>6. g.hidden[1][1] = v.pids /\ g.hidden[1][2] = v.tids /\ g.hidden[1][3] = v.cats
  BY <1>5 DEF Hidden
<1> QED
  BY <1>1, <1>4, <1>5, <1>6 DEF ScopeKept, Scope

\* Clicks in the chart leave the trees alone.
Charts(v, f, r) == Keeps(v, r.v) /\ SameTrees(f, r.f)

OnMenu(f) == f.menuTree = f.chosen /\ f.menu \in DOMAIN Chosen(f)

LEMMA IcicleKeeps ==
  ASSUME NEW v, HasView(v), NEW f, IsFlame(f), NEW in, NEW r, r = IcicleFrame(v, f, in)
  PROVE  Charts(v, f, r) /\ (in = Idle => r.v = v)
<1>1. SameTrees(f, f) /\ Keeps(v, v)
  BY DEF SameTrees, Keeps
<1>2. ASSUME NEW p PROVE SameTrees(f, [f EXCEPT !.zoom[f.chosen] = p])
  <2>1. PICK g : g = [f EXCEPT !.zoom[f.chosen] = p]
    OBVIOUS
  <2>2. SameTrees(f, g)
    BY <2>1 DEF SameTrees, IsFlame
  <2> QED
    BY <2>1, <2>2
<1>3. ASSUME NEW t, NEW p PROVE SameTrees(f, [f EXCEPT !.menuTree = t, !.menu = p])
  <2>1. PICK g : g = [f EXCEPT !.menuTree = t, !.menu = p]
    OBVIOUS
  <2>2. SameTrees(f, g)
    BY <2>1 DEF SameTrees, IsFlame
  <2> QED
    BY <2>1, <2>2
<1>4. ASSUME NEW i PROVE Keeps(v, Select(v, i))
  BY SelectKeeps
<1>5. ASSUME NEW S PROVE Keeps(v, [v EXCEPT !.cats = S])
  BY DEF Keeps, HasView
<1>6. CASE in.is = "crumb" /\ f.zoom[f.chosen] # NoPath
  <2>1. r.v = v /\ \E p : r.f = [f EXCEPT !.zoom[f.chosen] = p]
    BY <1>6 DEF IcicleFrame
  <2> QED
    BY <1>1, <1>2, <2>1 DEF Charts
<1>7. CASE in.is = "bar" /\ in.path \in Bars(f)
  <2>1. r.f = f /\ \E i : r.v = Select(v, i)
    BY <1>7 DEF IcicleFrame, OnMenu, Selected
  <2> QED
    BY <1>1, <1>4, IdleIs, <1>7, <2>1 DEF Charts
<1>8. CASE in.is = "menu" /\ in.path \in Bars(f)
  <2>1. PICK t, p : r.f = [f EXCEPT !.menuTree = t, !.menu = p]
    BY <1>8 DEF IcicleFrame, OnMenu
  <2>2. r.v = v
    BY <1>8 DEF IcicleFrame, OnMenu
  <2>3. SameTrees(f, [f EXCEPT !.menuTree = t, !.menu = p])
    BY <1>3
  <2>4. SameTrees(f, r.f)
    BY <2>1, <2>3
  <2> QED
    BY <1>1, <2>2, <2>4, IdleIs, <1>8 DEF Charts
<1>9. CASE in.is = "zoom in" /\ OnMenu(f) /\ ChildPaths(Chosen(f), f.menu) # {}
  <2>1. r.v = v /\ \E p : r.f = [f EXCEPT !.zoom[f.chosen] = p]
    BY <1>9 DEF IcicleFrame, OnMenu
  <2> QED
    BY <1>1, <1>2, <1>9, <2>1 DEF Charts
<1>10. CASE in.is = "zoom out" /\ OnMenu(f) /\ f.zoom[f.chosen] # NoPath
  <2>1. r.v = v /\ \E p : r.f = [f EXCEPT !.zoom[f.chosen] = p]
    BY <1>10 DEF IcicleFrame, OnMenu
  <2> QED
    BY <1>1, <1>2, <1>10, <2>1 DEF Charts
<1>11. CASE in.is = "reset zoom" /\ OnMenu(f) /\ f.zoom[f.chosen] # NoPath
  <2>1. r.v = v /\ \E p : r.f = [f EXCEPT !.zoom[f.chosen] = p]
    BY <1>11 DEF IcicleFrame, OnMenu
  <2> QED
    BY <1>1, <1>2, <1>11, <2>1 DEF Charts
<1>12. CASE in.is = "hide category" /\ OnMenu(f)
  <2>1. r.f = f /\ \E S : r.v = [v EXCEPT !.cats = S]
    BY <1>12 DEF IcicleFrame, OnMenu
  <2> QED
    BY <1>1, <1>5, IdleIs, <1>12, <2>1 DEF Charts
<1>13. CASE in.is = "show in instances" /\ OnMenu(f)
  <2>1. r.f = f /\ \E i : r.v = Select(v, i)
    BY <1>13 DEF IcicleFrame, OnMenu, Selected
  <2> QED
    BY <1>1, <1>4, IdleIs, <1>13, <2>1 DEF Charts
<1>14. CASE /\ ~(in.is = "crumb" /\ f.zoom[f.chosen] # NoPath)
           /\ ~(in.is = "bar" /\ in.path \in Bars(f))
           /\ ~(in.is = "menu" /\ in.path \in Bars(f))
           /\ ~(in.is = "zoom in" /\ OnMenu(f) /\ ChildPaths(Chosen(f), f.menu) # {})
           /\ ~(in.is = "zoom out" /\ OnMenu(f) /\ f.zoom[f.chosen] # NoPath)
           /\ ~(in.is = "reset zoom" /\ OnMenu(f) /\ f.zoom[f.chosen] # NoPath)
           /\ ~(in.is = "hide category" /\ OnMenu(f))
           /\ ~(in.is = "show in instances" /\ OnMenu(f))
  <2>1. r.v = v /\ r.f = f
    BY <1>14 DEF IcicleFrame, OnMenu
  <2> QED
    BY <1>1, <2>1 DEF Charts
<1> QED
  BY <1>6, <1>7, <1>8, <1>9, <1>10, <1>11, <1>12, <1>13, <1>14

LEMMA ChartKeeps ==
  ASSUME NEW v, HasView(v), NEW f, IsFlame(f), NEW in, NEW r, r = ChartFrame(v, f, in)
  PROVE  Charts(v, f, r) /\ (in = Idle => r.v = v)
<1>1. CASE f.trees = <<>>
  <2>1. r = [v |-> v, f |-> f]
    BY <1>1 DEF ChartFrame
  <2>2. r.v = v /\ r.f = f
    BY <2>1
  <2> QED
    BY <2>2 DEF Charts, Keeps, SameTrees
<1>2. CASE f.trees # <<>>
  <2>1. PICK g : g = IF in.is = "tree" /\ in.tree \in DOMAIN f.trees THEN [f EXCEPT !.chosen = in.tree] ELSE f
    OBVIOUS
  <2>2. SameTrees(f, g)
    BY <2>1 DEF SameTrees, IsFlame
  <2>3. r = IcicleFrame(v, g, in)
    BY <1>2, <2>1 DEF ChartFrame
  <2>4. Charts(v, g, r) /\ (in = Idle => r.v = v)
    BY <2>2, <2>3, IcicleKeeps DEF SameTrees
  <2> QED
    BY <2>2, <2>4 DEF Charts, SameTrees
<1> QED
  BY <1>1, <1>2

TreeBefore(trees, a, b) == Ahead(trees[a], trees[b]) \/ (~Ahead(trees[b], trees[a]) /\ a < b)

\* Without events there are no trees.
LEMMA NoTrees ==
  ASSUME NEW m, Indexed(m), m.events = <<>>, NEW v
  PROVE  Trees(m, v) = <<>>
<1>1. PICK shown : shown = SetToSeq({th \in DOMAIN m.order : th[1] \notin v.pids /\ th[2] \notin v.tids})
  OBVIOUS
<1>2. {th \in DOMAIN m.order : th[1] \notin v.pids /\ th[2] \notin v.tids} = {}
  BY DEF Indexed
<1>3. shown \in Seq({})
  <2>1. IsFiniteSet({})
    BY FS_EmptySet
  <2> QED
    BY <1>1, <1>2, <2>1, SetInSeq
<1>4. Len(shown) = 0
  <2>1. PICK l \in Nat : l = Len(shown)
    BY <1>3
  <2>2. \A k \in 1..l : shown[k] \in {}
    BY <1>3, <2>1
  <2>3. l = 0
    BY <2>2
  <2> QED
    BY <2>1, <2>3
<1>5. PICK ks : ks = [k \in 1..3 * Len(shown) |-> k]
  OBVIOUS
<1>6. Len(ks) = 0
  BY <1>4, <1>5
<1>7. PICK g : g = CHOOSE f : f = [k \in 0..Len(ks) |-> IF k = 0 THEN <<>> ELSE AddTree(m, v, shown, f[k - 1], ks[k])]
  OBVIOUS
<1>8. PICK trees : trees = TreesFound(m, v)
  OBVIOUS
<1>9. trees = g[Len(ks)]
  BY <1>1, <1>5, <1>7, <1>8 DEF Through, TreesFound
<1>10. g[0] = <<>>
  <2>1. PICK f : f = [k \in 0..0 |-> <<>>]
    OBVIOUS
  <2>2. f = [k \in 0..Len(ks) |-> IF k = 0 THEN <<>> ELSE AddTree(m, v, shown, f[k - 1], ks[k])]
    BY <1>6, <2>1
  <2>3. g = [k \in 0..Len(ks) |-> IF k = 0 THEN <<>> ELSE AddTree(m, v, shown, g[k - 1], ks[k])]
    BY <1>7, <2>2
  <2> QED
    BY <1>6, <2>3
<1>11. trees = <<>> /\ DOMAIN trees = {}
  BY <1>6, <1>9, <1>10
<1>12. PICK D : D = DOMAIN trees
  OBVIOUS
<1>13. PICK R : R = {p \in D \X D : TreeBefore(trees, p[1], p[2])}
  OBVIOUS
<1>14. PICK at : at = Sorted(D, R)
  OBVIOUS
<1>15. Trees(m, v) = [k \in DOMAIN at |-> trees[at[k]]]
  BY <1>8, <1>12, <1>13, <1>14 DEF Trees, StableSort, InOrder, TreeBefore
<1>16. DOMAIN at = {}
  <2>1. D = {} /\ D \X D = {}
    BY <1>11, <1>12
  <2>2. R = {}
    BY <1>13, <2>1
  <2>3. IsFiniteSet({})
    BY FS_EmptySet
  <2>4. Orders({}, {})
    BY DEF Orders
  <2>5. Enumerates(at, {})
    BY <1>14, <2>1, <2>2, <2>3, <2>4, SortedEnumerates
  <2> QED
    BY <2>5 DEF Enumerates, ToSet
<1> QED
  BY <1>15, <1>16

LEMMA FlameStays ==
  ASSUME NEW m, Indexed(m), NEW v, HasView(v), NEW f, FlameHolds(m, f), NEW in,
         NEW r, r = FlameFrame(m, v, f, in)
  PROVE  Keeps(v, r.v) /\ FlameHolds(m, r.f) /\ (in = Idle => r.v = v /\ r.f.trees = Trees(m, Scope(v)))
<1>1. CASE m.events = <<>>
  <2>1. r = [v |-> v, f |-> f]
    BY <1>1 DEF FlameFrame
  <2>2. r.v = v /\ r.f = f
    BY <2>1
  <2>3. f.trees = Trees(m, Scope(v))
    BY <1>1, NoTrees DEF FlameHolds
  <2> QED
    BY <2>2, <2>3 DEF Keeps
<1>2. CASE m.events # <<>>
  <2>1. PICK g : g = IF NeedsRebuild(v, f, Len(m.events)) THEN Rebuilt(m, v, f) ELSE f
    OBVIOUS
  <2>2. r = ChartFrame(v, g, in)
    BY <1>2, <2>1 DEF FlameFrame
  <2>3. IsFlame(g) /\ g.hidden # <<>> /\ ScopeKept(g) = Scope(v) /\ g.trees = Trees(m, Scope(v))
    <3>1. CASE NeedsRebuild(v, f, Len(m.events))
      BY <2>1, <3>1, RebuiltIsCurrent DEF FlameHolds
    <3>2. CASE ~NeedsRebuild(v, f, Len(m.events))
      <4>1. g = f /\ f.hidden # <<>> /\ ScopeKept(f) = Scope(v)
        BY <2>1, <3>2, KeptIsCurrent
      <4> QED
        BY <4>1 DEF FlameHolds
    <3> QED
      BY <3>1, <3>2
  <2>4. FlameHolds(m, g)
    BY <1>2, <2>3 DEF FlameHolds
  <2>5. Charts(v, g, r) /\ (in = Idle => r.v = v)
    BY <2>2, <2>3, ChartKeeps
  <2>6. FlameHolds(m, r.f) /\ r.f.trees = g.trees
    BY <2>4, <2>5, SameTreesHold DEF Charts, SameTrees
  <2> QED
    BY <2>3, <2>5, <2>6 DEF Charts
<1> QED
  BY <1>1, <1>2

-----------------------------------------------------------------------------
(* The panels that are drawn before the lists leave the results alone. *)
LEMMA KeptTwice ==
  ASSUME NEW u, NEW v, NEW w, Keeps(u, v), Keeps(v, w)
  PROVE  Keeps(u, w)
BY DEF Keeps

LEMMA KeptOnce ==
  ASSUME NEW v, HasView(v)
  PROVE  Keeps(v, v)
BY DEF Keeps

LEMMA MovedKeeps ==
  ASSUME NEW v, HasView(v), NEW start, NEW end
  PROVE  Keeps(v, [v EXCEPT !.start = start, !.end = end])
BY DEF Keeps, HasView

LEMMA ClampKeeps ==
  ASSUME NEW v, HasView(v)
  PROVE  Keeps(v, ClampToBounds(v))
<1>1. \/ ClampToBounds(v) = v
      \/ \E start, end : ClampToBounds(v) = [v EXCEPT !.start = start, !.end = end]
  BY DEF ClampToBounds
<1>2. CASE ClampToBounds(v) = v
  BY <1>2, KeptOnce
<1>3. CASE \E start, end : ClampToBounds(v) = [v EXCEPT !.start = start, !.end = end]
  <2>1. PICK start, end : ClampToBounds(v) = [v EXCEPT !.start = start, !.end = end]
    BY <1>3
  <2>2. Keeps(v, [v EXCEPT !.start = start, !.end = end])
    BY MovedKeeps
  <2> QED
    BY <2>1, <2>2
<1> QED
  BY <1>1, <1>2, <1>3

LEMMA RangeKeeps ==
  ASSUME NEW v, HasView(v), NEW start, NEW end
  PROVE  Keeps(v, SetViewRange(v, start, end))
<1>1. PICK w : w = [v EXCEPT !.start = start, !.end = end]
  OBVIOUS
<1>2. Keeps(v, w)
  BY <1>1, MovedKeeps
<1>3. SetViewRange(v, start, end) = ClampToBounds(w)
  BY <1>1 DEF SetViewRange
<1>4. Keeps(w, ClampToBounds(w))
  BY <1>2, ClampKeeps DEF Keeps
<1> QED
  BY <1>2, <1>3, <1>4, KeptTwice

LEMMA ShiftKeeps ==
  ASSUME NEW v, HasView(v), NEW by
  PROVE  Keeps(v, Shift(v, by))
BY RangeKeeps DEF Shift

LEMMA FitKeeps ==
  ASSUME NEW v, HasView(v), NEW min, NEW max
  PROVE  Keeps(v, ZoomToFit(v, min, max))
BY MovedKeeps DEF ZoomToFit

LEMMA JumpKeeps ==
  ASSUME NEW v, HasView(v), NEW m, NEW i
  PROVE  Keeps(v, Jump(v, m, i))
BY NavigateKeeps DEF Jump

LEMMA ClearKeeps ==
  ASSUME NEW v, HasView(v)
  PROVE  Keeps(v, ClearRange(v))
BY DEF ClearRange, Keeps, HasView

LEMMA RangeSelectionKeeps ==
  ASSUME NEW v, HasView(v), NEW a, NEW b
  PROVE  Keeps(v, SetRangeSelection(v, a, b))
BY DEF SetRangeSelection, Keeps, HasView

LEMMA ReleasedKeeps ==
  ASSUME NEW v, HasView(v), NEW t, NEW in
  PROVE  Keeps(v, Released(v, t, in))
<1>1. \A on : HasView([v EXCEPT !.selecting = on]) /\ [v EXCEPT !.selecting = on].results = v.results
  BY DEF HasView
<1>2. \A on : Keeps(v, [v EXCEPT !.selecting = on])
  BY <1>1 DEF Keeps
<1>3. \A on, a, b : Keeps(v, SetRangeSelection([v EXCEPT !.selecting = on], a, b))
  BY <1>1, <1>2, KeptTwice, RangeSelectionKeeps
<1>4. Keeps(v, v)
  BY KeptOnce
<1>5. Keeps(v, Held(v, t))
  BY <1>3, <1>4 DEF Held
<1> QED
  BY <1>2, <1>5 DEF Released

LEMMA WheelKeeps ==
  ASSUME NEW v, HasView(v), NEW time, NEW num, NEW den
  PROVE  Keeps(v, ZoomAround(v, time, num, den)) /\ Keeps(v, ZoomKey(v, num, den))
<1>1. Keeps(v, ZoomAround(v, time, num, den))
  BY RangeKeeps, KeptOnce DEF ZoomAround
<1>2. Keeps(v, ZoomKey(v, num, den))
  BY RangeKeeps DEF ZoomKey
<1> QED
  BY <1>1, <1>2

LEMMA ViewHandledKeeps ==
  ASSUME NEW m, NEW v, HasView(v), NEW t, NEW in
  PROVE  Keeps(v, ViewHandled(m, v, t, in))
<1>1. CASE in.is = "wheel"
  <2>1. \E time, num, den : ViewHandled(m, v, t, in) = ZoomAround(v, time, num, den)
    BY <1>1 DEF ViewHandled
  <2> QED
    BY <2>1, WheelKeeps
<1>2. CASE in.is \in {"sideways wheel", "pan", "pan key"}
  <2>1. \E by : ViewHandled(m, v, t, in) = Shift(v, by)
    BY <1>2 DEF ViewHandled
  <2> QED
    BY <2>1, ShiftKeeps
<1>3. CASE in.is = "click"
  <2>1. PICK w : w = Select(v, HitTest(m, v, t.layouts, in.x, in.y))
    OBVIOUS
  <2>2. Keeps(v, w)
    BY <2>1, SelectKeeps
  <2>3. Keeps(w, ClearRange(w))
    BY <2>2, ClearKeeps DEF Keeps
  <2>4. ViewHandled(m, v, t, in) = ClearRange(w)
    BY <1>3, <2>1 DEF ViewHandled
  <2> QED
    BY <2>2, <2>3, <2>4, KeptTwice
<1>4. CASE in.is = "zoom key"
  <2>1. \E num, den : ViewHandled(m, v, t, in) = ZoomKey(v, num, den)
    BY <1>4 DEF ViewHandled
  <2> QED
    BY <2>1, WheelKeeps
<1>5. CASE in.is = "fit"
  <2>1. ViewHandled(m, v, t, in) = FitSelection(m, v)
    BY <1>5 DEF ViewHandled
  <2>2. Keeps(v, FitSelection(m, v))
    BY FitKeeps, JumpKeeps, KeptOnce DEF FitSelection
  <2> QED
    BY <2>1, <2>2
<1>6. CASE in.is = "clear"
  <2>1. ViewHandled(m, v, t, in) = ClearSelection(v)
    BY <1>6 DEF ViewHandled
  <2>2. Keeps(v, ClearSelection(v))
    BY ClearKeeps, SelectKeeps DEF ClearSelection
  <2> QED
    BY <2>1, <2>2
<1>7. CASE in.is = "walk"
  <2>1. ViewHandled(m, v, t, in) = v \/ \E target : ViewHandled(m, v, t, in) = Walk(m, v, target)
    BY <1>7 DEF ViewHandled
  <2>2. \A target : Keeps(v, Walk(m, v, target))
    BY JumpKeeps, KeptOnce DEF Walk
  <2> QED
    BY <2>1, <2>2, KeptOnce
<1>8. CASE in.is = "go to"
  <2>1. \E start, end : ViewHandled(m, v, t, in) = SetViewRange(v, start, end)
    BY <1>8 DEF ViewHandled
  <2> QED
    BY <2>1, RangeKeeps
<1>9. CASE in.is \notin {"wheel", "sideways wheel", "pan", "pan key", "click", "zoom key", "fit", "clear", "walk", "go to"}
  <2>1. ViewHandled(m, v, t, in) = v
    BY <1>9 DEF ViewHandled
  <2> QED
    BY <2>1, KeptOnce
<1> QED
  BY <1>1, <1>2, <1>3, <1>4, <1>5, <1>6, <1>7, <1>8, <1>9

LEMMA HandledKeeps ==
  ASSUME NEW m, NEW v, HasView(v), NEW t, NEW in, NEW r, r = Handled(m, v, t, in)
  PROVE  Keeps(v, r.v)
<1>1. CASE in.is = "press"
  <2>1. r.v = ClearRange(v)
    BY <1>1 DEF Handled, Press
  <2> QED
    BY <2>1, ClearKeeps
<1>2. CASE in.is # "press"
  <2>1. r.v = ViewHandled(m, v, t, in)
    BY <1>2 DEF Handled
  <2> QED
    BY <2>1, ViewHandledKeeps
<1> QED
  BY <1>1, <1>2

LEMMA ShownKeeps ==
  ASSUME NEW m, NEW v, HasView(v), NEW t, NEW r, r = ShowPending(m, v, t)
  PROVE  Keeps(v, r.v)
<1>1. r.v = v \/ r.v = [v EXCEPT !.pending = None]
  BY DEF ShowPending
<1>2. Keeps(v, [v EXCEPT !.pending = None])
  BY DEF Keeps, HasView
<1> QED
  BY <1>1, <1>2, KeptOnce

LEMMA BarKeeps ==
  ASSUME NEW m, NEW v, HasView(v), NEW t, NEW in, NEW r, r = BarHandled(m, v, t, in)
  PROVE  Keeps(v, r.v)
<1>1. CASE in.is = "scroll bar" /\ t.content > VisibleHeight
  <2>1. r.v = v
    BY <1>1 DEF BarHandled
  <2> QED
    BY <2>1, KeptOnce
<1>2. CASE in.is = "bar jump" /\ Width(v) < TotalTime(m)
  <2>1. r.v = BarJump(m, v, in.x)
    BY <1>2 DEF BarHandled
  <2>2. Keeps(v, BarJump(m, v, in.x))
    BY RangeKeeps DEF BarJump
  <2> QED
    BY <2>1, <2>2
<1>3. CASE in.is = "bar drag" /\ Width(v) < TotalTime(m)
  <2>1. r.v = BarDrag(m, v, in.by)
    BY <1>3 DEF BarHandled
  <2>2. Keeps(v, BarDrag(m, v, in.by))
    BY ShiftKeeps DEF BarDrag
  <2> QED
    BY <2>1, <2>2
<1>4. CASE in.is = "bar wheel"
  <2>1. \E by : r.v = Shift(v, by)
    BY <1>4 DEF BarHandled
  <2> QED
    BY <2>1, ShiftKeeps
<1>5. CASE /\ ~(in.is = "scroll bar" /\ t.content > VisibleHeight)
           /\ ~(in.is = "bar jump" /\ Width(v) < TotalTime(m))
           /\ ~(in.is = "bar drag" /\ Width(v) < TotalTime(m))
           /\ in.is # "bar wheel"
  <2>1. r.v = v
    BY <1>5 DEF BarHandled
  <2> QED
    BY <2>1, KeptOnce
<1> QED
  BY <1>1, <1>2, <1>3, <1>4, <1>5

LEMMA TimelineKeeps ==
  ASSUME NEW m, NEW v, HasView(v), NEW t, NEW in
  PROVE  Keeps(v, TimelineFrame(m, v, t, in).v)
<1>1. PICK t1 : t1 = Mouse(t, in)
  OBVIOUS
<1>2. PICK w : w = Released(v, t1, in)
  OBVIOUS
<1>3. PICK s : s = Handled(m, w, t1, in)
  OBVIOUS
<1>4. PICK t2 : t2 = LayOut(m, s.v, s.t)
  OBVIOUS
<1>5. PICK p : p = ShowPending(m, s.v, t2)
  OBVIOUS
<1>6. PICK r : r = BarHandled(m, p.v, Limited(p.t), in)
  OBVIOUS
<1>7. TimelineFrame(m, v, t, in) = IF in.is = "no room" THEN [v |-> v, t |-> t] ELSE r
  BY <1>1, <1>2, <1>3, <1>4, <1>5, <1>6 DEF TimelineFrame
<1>8. Keeps(v, w)
  BY <1>2, ReleasedKeeps
<1>9. Keeps(w, s.v)
  BY <1>3, <1>8, HandledKeeps DEF Keeps
<1>10. Keeps(s.v, p.v)
  BY <1>5, <1>9, ShownKeeps DEF Keeps
<1>11. Keeps(p.v, r.v)
  BY <1>6, <1>10, BarKeeps DEF Keeps
<1>12. Keeps(v, r.v)
  BY <1>8, <1>9, <1>10, <1>11, KeptTwice
<1>13. CASE in.is = "no room"
  <2>1. TimelineFrame(m, v, t, in) = [v |-> v, t |-> t]
    BY <1>7, <1>13
  <2>2. TimelineFrame(m, v, t, in).v = v
    BY <2>1
  <2> QED
    BY <2>2, KeptOnce
<1>14. CASE in.is # "no room"
  <2>1. TimelineFrame(m, v, t, in) = r
    BY <1>7, <1>14
  <2> QED
    BY <1>12, <2>1
<1> QED
  BY <1>13, <1>14

LEMMA RangeFrameKeeps ==
  ASSUME NEW m, NEW v, HasView(v), NEW d, NEW in, NEW r, r = RangeFrame(m, v, d, in)
  PROVE  Keeps(v, r.v)
<1>1. \/ r.v = v \/ r.v = ZoomToFit(v, v.rangeStart, v.rangeEnd) \/ r.v = ClearRange(v)
      \/ r.v = Jump(v, m, in.event)
  BY DEF RangeFrame
<1> QED
  BY <1>1, KeptOnce, FitKeeps, ClearKeeps, JumpKeeps

LEMMA ChildrenTabKeeps ==
  ASSUME NEW m, NEW v, HasView(v), NEW d, NEW in, NEW r, r = ChildrenTab(m, v, d, in)
  PROVE  Keeps(v, r.v)
<1>1. r.v = v \/ r.v = Jump(v, m, in.event)
  BY DEF ChildrenTab
<1> QED
  BY <1>1, KeptOnce, JumpKeeps

LEMMA StackTabKeeps ==
  ASSUME NEW m, NEW v, HasView(v), NEW d, NEW i, NEW in, NEW r, r = StackTab(m, v, d, i, in)
  PROVE  Keeps(v, r.v)
<1>1. PICK rows : rows = StackRows(m, d)
  OBVIOUS
<1>2. CASE d.tab # "stack" \/ (m.events[i].depth = 0 /\ d.under = <<>>)
  <2>1. r = [v |-> v, d |-> d]
    BY <1>1, <1>2 DEF StackTab
  <2> QED
    BY <2>1, KeptOnce
<1>3. CASE /\ ~(d.tab # "stack" \/ (m.events[i].depth = 0 /\ d.under = <<>>))
           /\ in.is = "fold" /\ [event |-> in.event, arrow |-> TRUE] \in rows
  <2>1. r = [v |-> v, d |-> [d EXCEPT !.collapsed = Toggle(@, in.event)]]
    BY <1>1, <1>3 DEF StackTab
  <2> QED
    BY <2>1, KeptOnce
<1>4. CASE /\ ~(d.tab # "stack" \/ (m.events[i].depth = 0 /\ d.under = <<>>))
           /\ in.is = "stack row" /\ in.event \in ToSet(d.stack) \cup {x.event : x \in rows}
  <2>1. r = [v |-> Jump(v, m, in.event), d |-> d]
    BY <1>1, <1>4 DEF StackTab
  <2> QED
    BY <2>1, JumpKeeps
<1>5. CASE /\ ~(d.tab # "stack" \/ (m.events[i].depth = 0 /\ d.under = <<>>))
           /\ ~(in.is = "fold" /\ [event |-> in.event, arrow |-> TRUE] \in rows)
           /\ ~(in.is = "stack row" /\ in.event \in ToSet(d.stack) \cup {x.event : x \in rows})
  <2>1. r = [v |-> v, d |-> d]
    BY <1>1, <1>5 DEF StackTab
  <2> QED
    BY <2>1, KeptOnce
<1> QED
  BY <1>2, <1>3, <1>4, <1>5

LEMMA EventFrameKeeps ==
  ASSUME NEW m, NEW v0, HasView(v0), NEW d0, NEW in
  PROVE  Keeps(v0, EventFrame(m, v0, d0, in).v)
<1>1. PICK i : i = v0.sel
  OBVIOUS
<1>2. PICK eager : eager = IF m.events[i].dur > 0 THEN RebuildChildren(m, v0, d0) ELSE d0
  OBVIOUS
<1>3. PICK up : up = m.events[i].parent
  OBVIOUS
<1>4. PICK v : v = IF in.is = "parent" /\ m.events[i].depth > 0 /\ up # None THEN Jump(v0, m, up) ELSE v0
  OBVIOUS
<1>5. PICK followed : followed = IF m.events[v.sel].dur > 0 THEN Follow(m, RebuildChildren(m, v, eager)) ELSE eager
  OBVIOUS
<1>6. PICK tab : tab = ChildrenTab(m, v, followed, in)
  OBVIOUS
<1>7. PICK stack : stack = FollowStack(m, tab.v, tab.d, i)
  BY Zenon
<1>8. EventFrame(m, v0, d0, in) =
        IF m.events[i].kind = "Sample" THEN [v |-> v0, d |-> SampleFrame(m, v0, eager)]
        ELSE StackTab(m, tab.v, stack, i, in)
  BY <1>1, <1>2, <1>3, <1>4, <1>5, <1>6, <1>7 DEF EventFrame
<1>9. Keeps(v0, v)
  BY <1>4, KeptOnce, JumpKeeps
<1>10. Keeps(v, tab.v)
  BY <1>6, <1>9, ChildrenTabKeeps DEF Keeps
<1>11. Keeps(tab.v, StackTab(m, tab.v, stack, i, in).v)
  BY <1>10, StackTabKeeps DEF Keeps
<1>12. EventFrame(m, v0, d0, in).v = v0 \/ EventFrame(m, v0, d0, in).v = StackTab(m, tab.v, stack, i, in).v
  BY <1>8
<1> QED
  BY <1>9, <1>10, <1>11, <1>12, KeptOnce, KeptTwice

LEMMA DetailsKeeps ==
  ASSUME NEW m, NEW v, HasView(v), NEW d, NEW in
  PROVE  Keeps(v, DetailsFrame(m, v, d, in).v)
<1>1. PICK opened : opened = CASE in.is = "tab" -> [d EXCEPT !.tab = in.tab]
                               [] in.is = "range header" /\ v.ranged -> [d EXCEPT !.closed = ~@]
                               [] OTHER -> d
  OBVIOUS
<1>2. PICK range : range = RangeFrame(m, v, opened, in)
  OBVIOUS
<1>3. DetailsFrame(m, v, d, in) \in {range, EventFrame(m, range.v, range.d, in)}
  BY <1>1, <1>2 DEF DetailsFrame
<1>4. Keeps(v, range.v)
  BY <1>2, RangeFrameKeeps
<1>5. Keeps(range.v, EventFrame(m, range.v, range.d, in).v)
  BY <1>4, EventFrameKeeps DEF Keeps
<1> QED
  BY <1>3, <1>4, <1>5, KeptTwice

LEMMA FilterKeeps ==
  ASSUME NEW m, NEW v, HasView(v), NEW in
  PROVE  Keeps(v, FilterFrame(m, v, in))
<1>1. \A S : Keeps(v, [v EXCEPT !.pids = S]) /\ Keeps(v, [v EXCEPT !.tids = S]) /\ Keeps(v, [v EXCEPT !.cats = S])
  BY DEF Keeps, HasView
<1>2. \/ FilterFrame(m, v, in) = v
      \/ \E S : FilterFrame(m, v, in) \in {[v EXCEPT !.pids = S], [v EXCEPT !.tids = S], [v EXCEPT !.cats = S]}
  BY DEF FilterFrame
<1> QED
  BY <1>1, <1>2, KeptOnce

-----------------------------------------------------------------------------
(* The lists of a frame. *)
ListsInv ==
  /\ Indexed(model) /\ HasView(view)
  /\ ResultsAre(model, view.results) /\ RowsOf(model, view.results, search)
  /\ InstancesHold(model, instances)
  /\ FlameHolds(model, flame)
  /\ Settled => /\ flame.trees = Trees(model, Scope(view))
                /\ model.events # <<>> => instances.last = view.sel

LEMMA EnumeratesCounts ==
  ASSUME NEW s, NEW S, Enumerates(s, S)
  PROVE  Cardinality(S) = Len(s)
<1>1. PICK l \in Nat : l = Len(s) /\ DOMAIN s = 1..l
  BY DEF Enumerates
<1>2. PICK f : f = [k \in 1..l |-> s[k]]
  OBVIOUS
<1>3. f \in Bijection(1..l, S)
  <2>1. S = {s[k] : k \in 1..l}
    BY <1>1 DEF Enumerates, ToSet
  <2>2. f \in [1..l -> S] /\ (\A y \in S : \E k \in 1..l : f[k] = y)
    BY <1>2, <2>1
  <2>3. \A j, k \in 1..l : f[j] = f[k] => j = k
    BY <1>1, <1>2 DEF Enumerates
  <2> QED
    BY <2>2, <2>3 DEF Bijection, Injection, Surjection, IsInjective
<1>4. IsFiniteSet(1..l) /\ Cardinality(1..l) = l
  BY FS_Interval
<1> QED
  BY <1>1, <1>3, <1>4, FS_Bijection, SMTT(30) DEF ExistsBijection

LEMMA ListsInvMeans == ListsInv => ListsAreCurrent
<1> SUFFICES ASSUME ListsInv, Settled PROVE ListsAreCurrent
  BY DEF ListsAreCurrent
<1>1. flame.trees = Trees(model, Scope(view))
  BY DEF ListsInv
<1>2. ASSUME view.sel \in DOMAIN model.events, Browsed(Ev(view.sel))
      PROVE  /\ ToSet(instances.rows) = {i \in DOMAIN model.events : Ev(i).name = Ev(view.sel).name /\ Listed(model.events, i)}
             /\ instances.cursor <= Len(instances.rows)
  <2>1. model.events # <<>>
    BY <1>2
  <2>2. instances.last = view.sel
    BY <2>1 DEF ListsInv
  <2>3. instances.name = Ev(view.sel).name /\ instances.name # ""
    BY <1>2, <2>2 DEF ListsInv, InstancesHold, NamedLast, Ev, Browsed
  <2>4. ToSet(instances.rows) = InstancesOf(model.events, instances.name)
    BY <2>3 DEF ListsInv, InstancesHold, RowsOfName
  <2>5. instances.cursor <= Len(instances.rows)
    BY DEF ListsInv, InstancesHold, RowsOfName, CursorFits
  <2> QED
    BY <2>3, <2>4, <2>5 DEF InstancesOf, Ev
<1>3. /\ \A i \in ToSet(search.rows) : i \in ToSet(view.results)
      /\ \A i \in ToSet(view.results) : \E j \in ToSet(search.rows) : Ev(j).name = Ev(i).name /\ (search.unique \/ i = j)
  BY DEF ListsInv, RowsOf, Ev
<1>4. Cardinality(ToSet(search.rows)) = Len(search.rows)
  BY EnumeratesCounts DEF ListsInv, RowsOf
<1> QED
  BY <1>1, <1>2, <1>3, <1>4 DEF ListsAreCurrent

\* Nothing is found before something is looked for, and nothing is kept.
LEMMA LoadedIs ==
  ASSUME NEW v, NEW m
  PROVE  HasView(Loaded(v, m)) /\ Loaded(v, m).results = <<>>
<1>1. PICK fresh : fresh = [View0 EXCEPT !.pending = v.pending, !.min = v.min, !.max = v.max, !.bounded = v.bounded]
  OBVIOUS
<1>2. HasView(fresh) /\ fresh.results = <<>>
  BY <1>1 DEF View0, HasView
<1>3. PICK w : w = SetTraceBounds(fresh, m.minTs, m.maxTs)
  OBVIOUS
<1>4. HasView(w) /\ w.results = <<>>
  BY <1>2, <1>3 DEF SetTraceBounds, HasView
<1>5. Keeps(w, ZoomToFit(w, m.minTs, m.maxTs))
  BY <1>4, FitKeeps
<1>6. Loaded(v, m) = fresh \/ Loaded(v, m) = ZoomToFit(w, m.minTs, m.maxTs)
  BY <1>1, <1>3 DEF Loaded
<1> QED
  BY <1>2, <1>4, <1>5, <1>6 DEF Keeps

LEMMA NothingEnumerates == Enumerates(<<>>, ToSet(<<>>)) /\ ToSet(<<>>) = {}
<1>1. Len(<<>>) = 0 /\ DOMAIN <<>> = {} /\ DOMAIN <<>> = 1..0
  OBVIOUS
<1>2. ToSet(<<>>) = {}
  BY <1>1 DEF ToSet
<1> QED
  BY <1>1, <1>2 DEF Enumerates

LEMMA FreshHold ==
  ASSUME NEW m, Indexed(m), NEW column
  PROVE  /\ ResultsAre(m, <<>>) /\ RowsOf(m, <<>>, [Search0 EXCEPT !.column = column])
         /\ InstancesHold(m, [Instances0 EXCEPT !.column = column])
         /\ FlameHolds(m, Flame0)
<1>1. ResultsAre(m, <<>>)
  BY NothingEnumerates DEF ResultsAre
<1>2. PICK q : q = [Search0 EXCEPT !.column = column]
  OBVIOUS
<1>3. q.rows = <<>> /\ IsSearch(q)
  BY <1>2 DEF Search0, IsSearch
<1>4. RowsOf(m, <<>>, q)
  BY <1>3, NothingEnumerates DEF RowsOf
<1>5. PICK s : s = [Instances0 EXCEPT !.column = column]
  OBVIOUS
<1>6. s.rows = <<>> /\ s.name = "" /\ s.cursor = 0 /\ s.last = None /\ IsInstances(s)
  BY <1>5 DEF Instances0, IsInstances
<1>7. CursorFits(s)
  <2>1. s.rows = <<>> /\ Len(<<>>) = 0
    BY <1>6
  <2>2. Len(s.rows) = 0 /\ s.cursor = 0
    BY <1>6, <2>1
  <2>3. s.cursor \in Int /\ s.cursor <= Len(s.rows)
    BY <2>2
  <2> QED
    BY <2>3 DEF CursorFits
<1>8. RowsOfName(m, s)
  BY <1>6, <1>7, NothingEnumerates DEF RowsOfName
<1>9. FlameHolds(m, Flame0)
  BY DEF FlameHolds, Flame0, IsFlame
<1>10. NamedLast(m, s)
  <2>1. None \notin DOMAIN m.events
    BY DEF Indexed, None
  <2> QED
    BY <1>6, <2>1 DEF NamedLast
<1> QED
  BY <1>1, <1>2, <1>4, <1>5, <1>8, <1>9, <1>10 DEF InstancesHold

LEMMA TraceIsIndexed ==
  ASSUME NEW t \in DOMAIN Traces
  PROVE  Indexed(ModelOf(t))
<1>1. PICK events : events = Traces[t].events
  OBVIOUS
<1>2. Len(events) \in Nat /\ DOMAIN events = 1..Len(events) /\ \A i \in DOMAIN events : IsTimed(events[i])
  BY <1>1, TracesAssumption, SMTT(30)
<1>3. PICK n \in Nat : DOMAIN events = 1..n
  BY <1>2
<1>4. AreTimed(events)
  BY <1>2 DEF AreTimed
<1>5. Indexed(BuildIndex(events, Traces[t].frames))
  BY <1>3, <1>4, ModelIsIndexed
<1> QED
  BY <1>1, <1>5 DEF ModelOf

LEMMA FirstLists == Init => ListsInv
<1> SUFFICES ASSUME Init PROVE ListsInv
  OBVIOUS
<1>1. Indexed(model)
  BY TraceIsIndexed DEF Init
<1>2. HasView(view) /\ view.results = <<>>
  BY LoadedIs DEF Init
<1>3. search = [Search0 EXCEPT !.column = Search0.column] /\ instances = [Instances0 EXCEPT !.column = Instances0.column]
  BY DEF Init, Search0, Instances0
<1>4. ResultsAre(model, <<>>) /\ RowsOf(model, <<>>, search) /\ InstancesHold(model, instances) /\ FlameHolds(model, Flame0)
  BY <1>1, <1>3, FreshHold
<1>5. flame = Flame0 /\ ~Settled
  BY DEF Init, Settled
<1> QED
  BY <1>1, <1>2, <1>4, <1>5 DEF ListsInv

LEMMA FrameLists == ListsInv /\ Frame => ListsInv'
<1> SUFFICES ASSUME ListsInv, Frame PROVE ListsInv'
  BY Zenon
<1>1. PICK in : \E a \in {TimelineFrame(model, view, timeline, in)} :
                \E b \in {DetailsFrame(model, a.v, details, in)} :
                \E c \in {SearchFrame(model, b.v, search, in)} :
                \E d \in {InstancesFrame(model, FilterFrame(model, c.v, in), instances, in)} :
                \E e \in {FlameFrame(model, d.v, flame, in)} :
                  /\ view' = e.v /\ search' = c.q /\ instances' = d.s /\ flame' = e.f
                  /\ last' = IF in = Idle THEN "idle" ELSE "input"
                  /\ model' = model
  BY ZenonT(40) DEF Frame
<1>2. PICK a : a = TimelineFrame(model, view, timeline, in)
  OBVIOUS
<1>3. PICK b : b = DetailsFrame(model, a.v, details, in)
  OBVIOUS
<1>4. PICK c : c = SearchFrame(model, b.v, search, in)
  OBVIOUS
<1>5. PICK w : w = FilterFrame(model, c.v, in)
  OBVIOUS
<1>6. PICK d : d = InstancesFrame(model, w, instances, in)
  OBVIOUS
<1>7. PICK e : e = FlameFrame(model, d.v, flame, in)
  OBVIOUS
<1>8. /\ view' = e.v /\ search' = c.q /\ instances' = d.s /\ flame' = e.f
      /\ last' = IF in = Idle THEN "idle" ELSE "input"
      /\ model' = model
  BY <1>1, <1>2, <1>3, <1>4, <1>5, <1>6, <1>7
<1>9. /\ Indexed(model) /\ HasView(view)
      /\ ResultsAre(model, view.results) /\ RowsOf(model, view.results, search)
      /\ InstancesHold(model, instances) /\ FlameHolds(model, flame)
  BY DEF ListsInv
<1>10. Keeps(view, a.v)
  BY <1>2, <1>9, TimelineKeeps
<1>11. Keeps(a.v, b.v)
  BY <1>3, <1>10, DetailsKeeps DEF Keeps
<1>12. HasView(b.v) /\ b.v.results = view.results
  BY <1>10, <1>11 DEF Keeps
<1>13. ResultsAre(model, b.v.results) /\ RowsOf(model, b.v.results, search)
  BY <1>9, <1>12
<1>14. HasView(c.v) /\ ResultsAre(model, c.v.results) /\ RowsOf(model, c.v.results, c.q)
  BY <1>4, <1>9, <1>12, <1>13, SearchHolds
<1>15. HasView(w) /\ w.results = c.v.results
  BY <1>5, <1>14, FilterKeeps DEF Keeps
<1>16. Browses(model, w, d) /\ (in = Idle => d.v = w /\ (model.events # <<>> => d.s.last = w.sel))
  BY <1>6, <1>9, <1>15, InstancesStay
<1>17. HasView(d.v) /\ d.v.results = w.results /\ InstancesHold(model, d.s)
  BY <1>16 DEF Browses, Keeps
<1>18. Keeps(d.v, e.v) /\ FlameHolds(model, e.f) /\ (in = Idle => e.v = d.v /\ e.f.trees = Trees(model, Scope(d.v)))
  BY <1>7, <1>9, <1>17, FlameStays
<1>19. HasView(e.v) /\ e.v.results = c.v.results
  BY <1>15, <1>17, <1>18 DEF Keeps
<1>20. ResultsAre(model, e.v.results) /\ RowsOf(model, e.v.results, c.q)
  BY <1>14, <1>19
<1>21. last' = "idle" => e.f.trees = Trees(model, Scope(e.v)) /\ (model.events # <<>> => d.s.last = e.v.sel)
  BY <1>8, <1>16, <1>18
<1>22. HasView(view') /\ ResultsAre(model', view'.results) /\ RowsOf(model', view'.results, search')
  BY <1>8, <1>19, <1>20
<1>23. Indexed(model') /\ InstancesHold(model', instances') /\ FlameHolds(model', flame')
  BY <1>8, <1>9, <1>17, <1>18
<1>24. Settled' => flame'.trees = Trees(model', Scope(view')) /\ (model'.events # <<>> => instances'.last = view'.sel)
  BY <1>8, <1>21 DEF Settled
<1> QED
  BY <1>22, <1>23, <1>24 DEF ListsInv

LEMMA LoadLists == ListsInv /\ FinishLoad => ListsInv'
<1> SUFFICES ASSUME FinishLoad PROVE ListsInv'
  OBVIOUS
<1>1. trace' \in DOMAIN Traces /\ model' = ModelOf(trace')
  BY DEF FinishLoad
<1>2. Indexed(model')
  BY <1>1, TraceIsIndexed
<1>3. HasView(view') /\ view'.results = <<>>
  <2>1. view' = Loaded(view, model')
    BY DEF FinishLoad
  <2> QED
    BY <2>1, LoadedIs
<1>4. search' = [Search0 EXCEPT !.column = search.column] /\ instances' = [Instances0 EXCEPT !.column = instances.column]
      /\ flame' = Flame0 /\ last' = "load"
  BY DEF FinishLoad
<1>5. /\ ResultsAre(model', <<>>) /\ RowsOf(model', <<>>, search')
      /\ InstancesHold(model', instances') /\ FlameHolds(model', flame')
  BY <1>2, <1>4, FreshHold
<1>6. ~Settled'
  BY <1>4 DEF Settled
<1> QED
  BY <1>2, <1>3, <1>5, <1>6 DEF ListsInv

\* Whatever the trace, and whatever the user selects, searches, hides, sorts
\* and loads: after a frame without input the flame graph is that of the range
\* and the filters, the instances are those of the selected name, and the
\* search shows its results, each once (flame_graph_panel.cpp: needs_rebuild;
\* instance_panel.cpp: select_function; search_panel.cpp: rebuild rows).
THEOREM ListsStayCurrent == Spec => []ListsAreCurrent
<1>1. ListsInv /\ [Next]_vars => ListsInv'
  <2> SUFFICES ASSUME ListsInv, [Next]_vars PROVE ListsInv'
    OBVIOUS
  <2>1. CASE Frame
    BY <2>1, FrameLists
  <2>2. CASE FinishLoad
    BY <2>2, LoadLists
  <2>3. CASE UNCHANGED vars
    BY <2>3 DEF vars, panels, ListsInv, Settled
  <2> QED
    BY <2>1, <2>2, <2>3 DEF Next
<1> QED
  BY <1>1, FirstLists, ListsInvMeans, PTL DEF Spec

-----------------------------------------------------------------------------
(* What the tracks rely on of an index: an event lies no deeper than its     *)
(* track, for what is not drawn on it has depth 0.                           *)
IsThread(th) == \E p, t \in Int : th = <<p, t>>
Tracked(m) ==
  \E n \in Nat :
    /\ DOMAIN m.events = 1..n
    /\ IsFiniteSet(DOMAIN m.order) /\ \A th \in DOMAIN m.order : IsThread(th) /\ m.order[th] \in Seq(1..n)
    /\ \A i \in 1..n : m.events[i].depth \in Nat /\ HasTimes(m.events[i])
    /\ \A th \in DOMAIN m.order : \A i \in 1..n :
         ThreadOf(m.events[i]) = th => m.events[i].depth = 0 \/ i \in ToSet(m.order[th])

LEMMA ModelIsTracked ==
  ASSUME NEW n \in Nat, NEW events0, DOMAIN events0 = 1..n, AreTimed(events0),
         \A i \in 1..n : events0[i].pid \in Int /\ events0[i].tid \in Int, NEW frames
  PROVE  Tracked(BuildIndex(events0, frames))
<1>1. PICK ev, q : ev = Started(events0, ResolveFrames(frames)) /\ q = IndexEvents(ev)
  OBVIOUS
<1>2. AreFresh(ev) /\ ev = [i \in 1..n |-> ev[i]]
  BY <1>1, FreshIsFresh
<1>3. q \in Kin(ev) /\ ev \in Kin(ev)
  BY <1>1, <1>2, EventsIndexed, KinSelf
<1>4. DOMAIN ev = 1..n /\ AreTimed(ev)
  BY <1>1, <1>2 DEF Started, AreFresh
<1>5. DOMAIN q = 1..n /\ AreTimed(q)
  BY <1>3, <1>4, KinTimed
<1>6. PICK order : order = [th \in Threads(q) |-> NestOrder(q, th)]
  OBVIOUS
<1>7. PICK m : m = BuildIndex(events0, frames)
  OBVIOUS
<1>8. m = Model(q, ResolveFrames(frames), order)
  BY <1>1, <1>6, <1>7 DEF BuildIndex, IndexWith, IndexedAs, Started
<1>9. m.events = q /\ m.order = order
  BY <1>8 DEF Model
<1>10. ASSUME NEW i \in 1..n
       PROVE  ev[i].depth = 0 /\ ev[i].pid = events0[i].pid /\ ev[i].tid = events0[i].tid
  <2>1. PICK d : d = ResolveEvent(events0[i], ResolveFrames(frames))
    OBVIOUS
  <2>2. IsTimed(events0[i])
    BY DEF AreTimed
  <2>3. IsTimed(d)
    BY <2>1, <2>2, ResolvedTimed
  <2>7. d.pid = events0[i].pid /\ d.tid = events0[i].tid
    <3>1. "pid" \in DOMAIN events0[i] /\ "tid" \in DOMAIN events0[i]
      <4>1. DOMAIN events0[i] = EventFields
        BY <2>2 DEF IsTimed
      <4> QED
        BY <4>1 DEF EventFields
    <3>2. \A a, b, c : [events0[i] EXCEPT !.frame = a, !.name = b, !.cat = c].pid = events0[i].pid
                       /\ [events0[i] EXCEPT !.frame = a, !.name = b, !.cat = c].tid = events0[i].tid
      BY <3>1
    <3> QED
      BY <2>1, <3>2 DEF ResolveEvent
  <2>4. ev[i] = Reset(d)
    BY <1>1, <2>1 DEF Started
  <2>5. ev[i].depth = 0
    BY <2>3, <2>4, ResetFresh DEF FreshFields
  <2>6. ev[i].pid = d.pid /\ ev[i].tid = d.tid
    BY <2>3, <2>4 DEF Reset
  <2> QED
    BY <2>5, <2>6, <2>7
<1>11. ASSUME NEW i \in 1..n
       PROVE  q[i].depth \in Nat /\ HasTimes(q[i]) /\ q[i].pid \in Int /\ q[i].tid \in Int
  BY <1>3, <1>4, <1>10, KinHas
<1>12. \A th : FlatIn(q, th, n)
  BY <1>1, <1>3, <1>4, <1>10, EventsFlat
<1>13. ASSUME NEW th \in Threads(q) PROVE IsThread(th) /\ order[th] \in Seq(1..n) /\ ToSet(order[th]) = NestMembers(q, th)
  <2>1. PICK s : s = NestOrder(q, th)
    OBVIOUS
  <2>2. NestSorts(q, th) /\ s \in Seq(1..n)
    BY <1>5, <2>1, NestOrderSorts
  <2>3. ToSet(s) = NestMembers(q, th)
    <3>1. s \in Seq(NestMembers(q, th)) /\ \A x \in NestMembers(q, th) : \E k \in 1..Len(s) : s[k] = x
      BY <2>1, <2>2 DEF NestSorts, Sorts
    <3>2. PICK l \in Nat : l = Len(s) /\ DOMAIN s = 1..l
      BY <3>1
    <3>3. \A k \in 1..l : s[k] \in NestMembers(q, th)
      BY <3>1, <3>2
    <3> QED
      BY <3>1, <3>2, <3>3 DEF ToSet
  <2>4. order[th] = s
    BY <1>6, <2>1
  <2>5. PICK i \in 1..n : th = ThreadOf(q[i])
    BY <1>5 DEF Threads
  <2>6. th = <<q[i].pid, q[i].tid>>
    BY <2>5 DEF ThreadOf
  <2>7. IsThread(th)
    BY <1>11, <2>6 DEF IsThread
  <2> QED
    BY <2>2, <2>3, <2>4, <2>7
<1>14. IsFiniteSet(Threads(q)) /\ DOMAIN order = Threads(q)
  BY <1>5, <1>6, ThreadsFinite
<1>15. ASSUME NEW th \in Threads(q), NEW i \in 1..n, ThreadOf(q[i]) = th PROVE q[i].depth = 0 \/ i \in ToSet(order[th])
  BY <1>12, <1>13, <1>15 DEF FlatIn
<1>16. Tracked(m)
  BY <1>5, <1>9, <1>11, <1>13, <1>14, <1>15 DEF Tracked
<1> QED
  BY <1>7, <1>16

LEMMA DepthOfIs ==
  ASSUME NEW m, Tracked(m), NEW th \in DOMAIN m.order
  PROVE  /\ DepthOf(m, th) \in Nat /\ TrackHeight(m, th) \in Nat
         /\ \A i \in DOMAIN m.events : ThreadOf(m.events[i]) = th =>
              /\ m.events[i].depth \in Nat /\ m.events[i].depth * RowHeight \in Nat
              /\ m.events[i].depth * RowHeight + RowHeight <= TrackHeight(m, th)
<1>1. PICK n \in Nat :
        /\ DOMAIN m.events = 1..n
        /\ \A o \in DOMAIN m.order : m.order[o] \in Seq(1..n)
        /\ \A i \in 1..n : m.events[i].depth \in Nat
        /\ \A o \in DOMAIN m.order : \A i \in 1..n :
             ThreadOf(m.events[i]) = o => m.events[i].depth = 0 \/ i \in ToSet(m.order[o])
  BY DEF Tracked
<1>2. PICK s : s = m.order[th]
  OBVIOUS
<1>3. PICK l \in Nat : l = Len(s) /\ DOMAIN s = 1..l
  BY <1>1, <1>2
<1>4. ToSet(s) \in SUBSET (1..n)
  BY <1>1, <1>2, <1>3 DEF ToSet
<1>5. PICK D : D = {0} \cup {m.events[i].depth : i \in ToSet(s)}
  OBVIOUS
<1>6. D \in SUBSET Nat /\ D # {}
  BY <1>1, <1>4, <1>5
<1>7. IsFiniteSet(D)
  <2>1. IsFiniteSet(1..n)
    BY FS_Interval
  <2>4. IsFiniteSet({0})
    BY FS_Singleton
  <2>2. IsFiniteSet(ToSet(s))
    BY <1>4, <2>1, FS_Subset
  <2>3. IsFiniteSet({m.events[i].depth : i \in ToSet(s)})
    <3>1. PICK f : f = [i \in ToSet(s) |-> m.events[i].depth]
      OBVIOUS
    <3>2. f \in Surjection(ToSet(s), {m.events[i].depth : i \in ToSet(s)})
      BY <3>1 DEF Surjection
    <3> QED
      BY <2>2, <3>2, FS_Surjection
  <2> QED
    BY <1>5, <2>3, <2>4, FS_Union
<1>8. Max(D) \in D /\ \A y \in D : Max(D) >= y
  BY <1>6, <1>7, FiniteMax
<1>9. PICK deep \in Nat : deep = DepthOf(m, th) /\ \A y \in D : deep >= y
  BY <1>2, <1>5, <1>6, <1>8 DEF DepthOf
<1>10. RowHeight \in Nat \ {0} /\ TrackPadding \in Nat
  BY PixelAssumption
<1>11. (deep + 1) * RowHeight \in Nat /\ (deep + 1) * RowHeight + TrackPadding = TrackHeight(m, th)
  BY <1>9, <1>10 DEF TrackHeight
<1>12. ASSUME NEW i \in DOMAIN m.events, ThreadOf(m.events[i]) = th
       PROVE  /\ m.events[i].depth \in Nat /\ m.events[i].depth * RowHeight \in Nat
              /\ m.events[i].depth * RowHeight + RowHeight <= TrackHeight(m, th)
  <2>1. PICK d \in Nat : d = m.events[i].depth
    BY <1>1
  <2>2. d \in D
    BY <1>1, <1>2, <1>5, <1>12, <2>1
  <2>3. d + 1 <= deep + 1 /\ d + 1 \in Int /\ deep + 1 \in Int
    BY <1>9, <2>2
  <2>4. (d + 1) * RowHeight <= (deep + 1) * RowHeight /\ (d + 1) * RowHeight \in Int
    BY <1>10, <2>3, Larger
  <2>5. (d + 1) * RowHeight = d * RowHeight + RowHeight /\ d * RowHeight \in Nat
    BY <1>10, <2>1, Larger
  <2> QED
    BY <1>10, <1>11, <2>1, <2>4, <2>5
<1> QED
  BY <1>9, <1>10, <1>11, <1>12

-----------------------------------------------------------------------------
(* The tracks lie below each other, each thread's once.                      *)
Layout(m) == [th : DOMAIN m.order, y : Int, height : Int]
Placing(m) == [y : Int, layouts : Seq(Layout(m))]
Placed(m, acc, lo, T) ==
  /\ acc \in Placing(m) /\ lo <= acc.y
  /\ \A k \in DOMAIN acc.layouts :
       /\ acc.layouts[k].th \in T
       /\ lo <= acc.layouts[k].y /\ acc.layouts[k].y + TrackHeight(m, acc.layouts[k].th) <= acc.y
  /\ \A j, k \in DOMAIN acc.layouts : acc.layouts[j].th = acc.layouts[k].th => j = k

LEMMA PlacedMore ==
  ASSUME NEW m, NEW acc, NEW lo, NEW T, Placed(m, acc, lo, T), NEW U, T \subseteq U
  PROVE  Placed(m, acc, lo, U)
BY DEF Placed

LEMMA PlacedLower ==
  ASSUME NEW m, Tracked(m), NEW acc, NEW lo \in Int, NEW T, Placed(m, acc, lo, T), NEW d \in Nat,
         NEW r, r = [acc EXCEPT !.y = acc.y + d]
  PROVE  Placed(m, r, lo, T)
<1>1. acc.y \in Int /\ acc.layouts \in Seq(Layout(m)) /\ acc = [y |-> acc.y, layouts |-> acc.layouts]
  BY DEF Placed, Placing
<1>2. r = [y |-> acc.y + d, layouts |-> acc.layouts]
  BY <1>1
<1>3. r \in Placing(m) /\ r.y = acc.y + d /\ r.layouts = acc.layouts
  BY <1>1, <1>2 DEF Placing
<1>4. ASSUME NEW k \in DOMAIN acc.layouts PROVE acc.layouts[k].y + TrackHeight(m, acc.layouts[k].th) <= r.y
  <2>1. acc.layouts[k] \in Layout(m)
    BY <1>1
  <2>2. acc.layouts[k].y \in Int /\ acc.layouts[k].th \in DOMAIN m.order
    BY <2>1 DEF Layout
  <2>3. TrackHeight(m, acc.layouts[k].th) \in Nat
    BY <2>2, DepthOfIs
  <2>4. acc.layouts[k].y + TrackHeight(m, acc.layouts[k].th) <= acc.y
    BY DEF Placed
  <2> QED
    BY <1>1, <1>3, <2>2, <2>3, <2>4
<1> QED
  BY <1>1, <1>3, <1>4 DEF Placed

LEMMA ThreadTyped ==
  ASSUME NEW m, Tracked(m), NEW v, NEW acc \in Placing(m), NEW th \in DOMAIN m.order
  PROVE  PlaceThread(m, v, acc, th) \in Placing(m)
<1>1. PICK h \in Nat : h = TrackHeight(m, th)
  BY DepthOfIs
<1>2. acc.y \in Int /\ acc.layouts \in Seq(Layout(m))
  BY DEF Placing
<1>3. PICK new : new = [th |-> th, y |-> acc.y, height |-> h]
  OBVIOUS
<1>4. new \in Layout(m)
  BY <1>1, <1>2, <1>3 DEF Layout
<1>5. Append(acc.layouts, new) \in Seq(Layout(m))
  BY <1>2, <1>4
<1>6. [y |-> acc.y + h, layouts |-> Append(acc.layouts, new)] \in Placing(m)
  BY <1>1, <1>2, <1>5 DEF Placing
<1>7. PlaceThread(m, v, acc, th) \in {acc, [y |-> acc.y + h, layouts |-> Append(acc.layouts, new)]}
  BY <1>1, <1>3 DEF PlaceThread
<1> QED
  BY <1>6, <1>7

LEMMA ThreadPlaced ==
  ASSUME NEW m, Tracked(m), NEW v, NEW acc, NEW lo \in Int, NEW T, Placed(m, acc, lo, T),
         NEW th \in DOMAIN m.order, th \notin T
  PROVE  Placed(m, PlaceThread(m, v, acc, th), lo, T \cup {th})
<1>1. PICK h \in Nat : h = TrackHeight(m, th)
  BY DepthOfIs
<1>2. acc \in Placing(m) /\ acc.y \in Int /\ acc.layouts \in Seq(Layout(m)) /\ lo <= acc.y
  BY DEF Placing, Placed
<1>3. PICK new : new = [th |-> th, y |-> acc.y, height |-> h]
  OBVIOUS
<1>4. PICK s : s = acc.layouts
  OBVIOUS
<1>5. PICK l \in Nat : l = Len(s) /\ DOMAIN s = 1..l
  BY <1>2, <1>4
<1>6. PICK r : r = [y |-> acc.y + h, layouts |-> Append(s, new)]
  OBVIOUS
<1>7. new \in Layout(m)
  BY <1>1, <1>2, <1>3 DEF Layout
<1>8. r.y = acc.y + h /\ r.layouts = Append(s, new)
  BY <1>6
<1>9. /\ DOMAIN r.layouts = 1..l + 1 /\ r.layouts[l + 1] = new
      /\ \A k \in 1..l : r.layouts[k] = s[k]
  BY <1>2, <1>4, <1>5, <1>7, <1>8
<1>10. CASE th[2] \in v.tids
  <2>1. PlaceThread(m, v, acc, th) = acc
    BY <1>10 DEF PlaceThread
  <2> QED
    BY <2>1, PlacedMore
<1>11. CASE th[2] \notin v.tids
  <2>1. PlaceThread(m, v, acc, th) = r
    BY <1>1, <1>3, <1>4, <1>6, <1>11 DEF PlaceThread
  <2>2. r \in Placing(m) /\ lo <= r.y
    <3>1. r \in Placing(m)
      BY <1>2, <2>1, ThreadTyped
    <3> QED
      BY <1>1, <1>2, <1>8, <3>1
  <2>3. ASSUME NEW k \in 1..l
        PROVE  s[k].th \in T /\ lo <= s[k].y /\ s[k].y + TrackHeight(m, s[k].th) <= r.y
    <3>1. s[k].th \in T /\ lo <= s[k].y /\ s[k].y + TrackHeight(m, s[k].th) <= acc.y
      BY <1>4, <1>5 DEF Placed
    <3>2. s[k] \in Layout(m)
      BY <1>2, <1>4, <1>5
    <3>3. s[k].y \in Int /\ TrackHeight(m, s[k].th) \in Nat
      BY <3>2, DepthOfIs DEF Layout
    <3> QED
      BY <1>1, <1>2, <1>8, <3>1, <3>3
  <2>4. new.th = th /\ new.y = acc.y /\ TrackHeight(m, new.th) = h
    BY <1>1, <1>3
  <2>5. ASSUME NEW k \in DOMAIN r.layouts
        PROVE  /\ r.layouts[k].th \in T \cup {th}
               /\ lo <= r.layouts[k].y /\ r.layouts[k].y + TrackHeight(m, r.layouts[k].th) <= r.y
    <3>1. CASE k = l + 1
      BY <1>1, <1>2, <1>8, <1>9, <2>4, <3>1
    <3>2. CASE k # l + 1
      <4>1. k \in 1..l
        BY <1>9, <3>2
      <4> QED
        BY <1>9, <2>3, <4>1
    <3> QED
      BY <3>1, <3>2
  <2>6. ASSUME NEW j \in DOMAIN r.layouts, NEW k \in DOMAIN r.layouts, r.layouts[j].th = r.layouts[k].th PROVE j = k
    <3>1. \A i \in 1..l : r.layouts[i].th \in T /\ r.layouts[i].th # th
      BY <1>9, <2>3
    <3>2. r.layouts[l + 1].th = th
      BY <1>9, <2>4
    <3>3. \A i \in DOMAIN r.layouts : i \in 1..l \/ i = l + 1
      BY <1>9
    <3>5. \A a, b \in 1..l : s[a].th = s[b].th => a = b
      BY <1>4, <1>5 DEF Placed
    <3>4. \A a, b \in 1..l : r.layouts[a].th = r.layouts[b].th => a = b
      BY <1>9, <3>5
    <3> QED
      BY <2>6, <3>1, <3>2, <3>3, <3>4
  <2>7. Placed(m, r, lo, T \cup {th})
    BY <2>2, <2>5, <2>6 DEF Placed
  <2> QED
    BY <2>1, <2>7
<1> QED
  BY <1>10, <1>11

\* Numbers of threads and processes, least first.
LEMMA IntegersInOrder ==
  ASSUME NEW S \in SUBSET Int, IsFiniteSet(S), NEW R, R = {p \in S \X S : p[1] < p[2]}
  PROVE  Enumerates(Sorted(S, R), S)
<1>1. \A x, y \in S : <<x, y>> \in R <=> x < y
  OBVIOUS
<1>2. \A x \in S : x \in Int
  OBVIOUS
<1>3. ASSUME NEW x \in S, NEW y \in S, NEW z \in S, <<x, y>> \in R, <<y, z>> \in R PROVE <<x, z>> \in R
  BY <1>1, <1>2, <1>3
<1>4. ASSUME NEW x \in S, NEW y \in S, x # y PROVE <<x, y>> \in R \/ <<y, x>> \in R
  BY <1>1, <1>2, <1>4
<1>5. ASSUME NEW x \in S PROVE <<x, x>> \notin R
  BY <1>1, <1>2
<1>6. Orders(R, S)
  BY <1>3, <1>4, <1>5 DEF Orders
<1> QED
  BY <1>6, SortedEnumerates

ThreadsOf(m, pid) == {o \in DOMAIN m.order : o[1] = pid}
Processes(m) == {th[1] : th \in DOMAIN m.order}

LEMMA TidsAre ==
  ASSUME NEW m, Tracked(m), NEW pid \in Processes(m)
  PROVE  /\ Enumerates(Tids(m, pid), {th[2] : th \in ThreadsOf(m, pid)})
         /\ \A tid \in {th[2] : th \in ThreadsOf(m, pid)} : <<pid, tid>> \in ThreadsOf(m, pid)
         /\ \A th \in ThreadsOf(m, pid) : th = <<pid, th[2]>>
<1>1. IsFiniteSet(DOMAIN m.order) /\ \A th \in DOMAIN m.order : IsThread(th)
  BY DEF Tracked
<1>2. PICK F, S : F = ThreadsOf(m, pid) /\ S = {th[2] : th \in F}
  OBVIOUS
<1>3. \A th \in F : th \in DOMAIN m.order /\ th[1] = pid /\ th[2] \in Int /\ th = <<pid, th[2]>>
  BY <1>1, <1>2 DEF ThreadsOf, IsThread
<1>4. IsFiniteSet(S) /\ S \in SUBSET Int
  <2>1. F \in SUBSET DOMAIN m.order
    BY <1>3
  <2>2. IsFiniteSet(F)
    BY <1>1, <2>1, FS_Subset
  <2>3. PICK f : f = [th \in F |-> th[2]]
    OBVIOUS
  <2>4. f \in Surjection(F, S)
    BY <1>2, <2>3 DEF Surjection
  <2> QED
    BY <1>2, <1>3, <2>2, <2>4, FS_Surjection
<1>5. PICK R : R = {p \in S \X S : p[1] < p[2]}
  OBVIOUS
<1>6. Enumerates(Sorted(S, R), S)
  BY <1>4, <1>5, IntegersInOrder
<1>7. Tids(m, pid) = Sorted(S, R)
  BY <1>2, <1>5 DEF Tids, InOrder, ThreadsOf
<1>8. \A tid \in S : <<pid, tid>> \in F
  BY <1>2, <1>3
<1> QED
  BY <1>2, <1>3, <1>6, <1>7, <1>8

LEMMA PidsAre ==
  ASSUME NEW m, Tracked(m)
  PROVE  Enumerates(Pids(m), Processes(m))
<1>1. IsFiniteSet(DOMAIN m.order) /\ \A th \in DOMAIN m.order : IsThread(th)
  BY DEF Tracked
<1>2. PICK D, S : D = DOMAIN m.order /\ S = {th[1] : th \in D}
  OBVIOUS
<1>3. \A th \in D : th[1] \in Int
  BY <1>1, <1>2 DEF IsThread
<1>4. IsFiniteSet(S) /\ S \in SUBSET Int
  <2>3. PICK f : f = [th \in D |-> th[1]]
    OBVIOUS
  <2>4. f \in Surjection(D, S)
    BY <1>2, <2>3 DEF Surjection
  <2> QED
    BY <1>1, <1>2, <1>3, <2>4, FS_Surjection
<1>5. PICK R : R = {p \in S \X S : p[1] < p[2]}
  OBVIOUS
<1>6. Enumerates(Sorted(S, R), S)
  BY <1>4, <1>5, IntegersInOrder
<1>7. Pids(m) = Sorted(S, R)
  BY <1>2, <1>5 DEF Pids, InOrder
<1> QED
  BY <1>2, <1>6, <1>7 DEF Processes

\* The threads of a process, in the order of their numbers.
TidSteps(g, m, v, acc, pid, tids, n) ==
  g = [k \in 0..n |-> IF k = 0 THEN acc ELSE PlaceThread(m, v, g[k - 1], <<pid, tids[k]>>)]

TidsPlaced(m, v, acc, pid, tids) == Through(LAMBDA a, tid : PlaceThread(m, v, a, <<pid, tid>>), acc, tids)

LEMMA TidsFold ==
  ASSUME NEW m, Tracked(m), NEW v, NEW acc \in Placing(m), NEW pid, NEW tids, NEW n \in Nat, n = Len(tids),
         \A k \in 1..n : <<pid, tids[k]>> \in DOMAIN m.order
  PROVE  \E g : /\ TidSteps(g, m, v, acc, pid, tids, n) /\ TidsPlaced(m, v, acc, pid, tids) = g[n]
                /\ \A k \in 0..n : g[k] \in Placing(m)
<1>1. PICK Q : Q = Placing(m)
  OBVIOUS
<1>2. PICK step : step = [k \in 1..n |-> [a \in Q |-> PlaceThread(m, v, a, <<pid, tids[k]>>)]]
  OBVIOUS
<1>3. step \in [1..n -> [Q -> Q]]
  <2>1. \A k \in 1..n : \A a \in Q : PlaceThread(m, v, a, <<pid, tids[k]>>) \in Q
    BY <1>1, ThreadTyped
  <2> QED
    BY <1>2, <2>1
<1>4. PICK f \in [0..n -> Q] : IsFold(f, acc, step, n)
  BY <1>1, <1>3, FoldExists
<1>5. \E g : TidSteps(g, m, v, acc, pid, tids, n)
  <2>1. ASSUME NEW k \in 0..n PROVE f[k] = IF k = 0 THEN acc ELSE PlaceThread(m, v, f[k - 1], <<pid, tids[k]>>)
    <3>1. f[k] = IF k = 0 THEN acc ELSE step[k][f[k - 1]]
      BY <1>4 DEF IsFold
    <3>2. k # 0 => k \in 1..n /\ k - 1 \in 0..n /\ f[k - 1] \in Q
      BY <1>4
    <3> QED
      BY <1>2, <3>1, <3>2
  <2>2. f = [k \in 0..n |-> f[k]]
    BY <1>4
  <2> QED
    BY <2>1, <2>2 DEF TidSteps
<1>6. PICK g : g = CHOOSE x : TidSteps(x, m, v, acc, pid, tids, n)
  OBVIOUS
<1>7. TidSteps(g, m, v, acc, pid, tids, n)
  BY <1>5, <1>6
<1>8. TidsPlaced(m, v, acc, pid, tids) = g[n]
  BY <1>6 DEF Through, TidSteps, TidsPlaced
<1>9. g[0] \in Q
  BY <1>1, <1>7 DEF TidSteps
<1>10. ASSUME NEW k \in 1..n, g[k - 1] \in Q PROVE g[k] \in Q
  <2>1. k \in 0..n /\ k # 0
    OBVIOUS
  <2>2. g[k] = PlaceThread(m, v, g[k - 1], <<pid, tids[k]>>)
    BY <1>7, <2>1 DEF TidSteps
  <2> QED
    BY <1>1, <1>10, <2>2, ThreadTyped
<1>11. \A k \in 0..n : g[k] \in Q
  BY <1>9, <1>10, FoldStays
<1> QED
  BY <1>1, <1>7, <1>8, <1>11

LEMMA ProcessPlaced ==
  ASSUME NEW m, Tracked(m), NEW v, NEW acc, NEW lo \in Int, NEW T, Placed(m, acc, lo, T),
         NEW pid \in Processes(m), \A th \in T : th[1] # pid
  PROVE  Placed(m, PlaceProcess(m, v, acc, pid), lo, T \cup ThreadsOf(m, pid))
<1>1. PICK tids : tids = Tids(m, pid)
  OBVIOUS
<1>2. PICK n \in Nat : n = Len(tids) /\ DOMAIN tids = 1..n
  BY <1>1, TidsAre DEF Enumerates
<1>3. \A k \in 1..n : <<pid, tids[k]>> \in ThreadsOf(m, pid) /\ <<pid, tids[k]>> \in DOMAIN m.order
  <2> TAKE k \in 1..n
  <2>1. tids[k] \in {th[2] : th \in ThreadsOf(m, pid)}
    BY <1>1, <1>2, TidsAre, SMTT(30) DEF Enumerates, ToSet
  <2> QED
    BY <2>1, TidsAre DEF ThreadsOf
<1>4. PICK base : base = [acc EXCEPT !.y = @ + HeaderHeight]
  OBVIOUS
<1>5. Placed(m, base, lo, T)
  BY <1>4, PixelAssumption, PlacedLower
<1>6. base \in Placing(m)
  BY <1>5 DEF Placed
<1>7. PICK g : TidSteps(g, m, v, base, pid, tids, n) /\ TidsPlaced(m, v, base, pid, tids) = g[n]
  BY <1>2, <1>3, <1>6, TidsFold, SMTT(30)
<1> DEFINE Done(k) == T \cup {<<pid, tids[j]>> : j \in 1..k}
           Fine == {k \in 0..n : Placed(m, g[k], lo, Done(k))}
<1>8. 0 \in Fine
  <2>1. g[0] = base
    BY <1>7 DEF TidSteps
  <2>2. T \subseteq Done(0)
    OBVIOUS
  <2> QED
    BY <1>5, <2>1, <2>2, PlacedMore
<1>9. ASSUME NEW k \in 0..n, k \in Fine, k < n PROVE k + 1 \in Fine
  <2>1. k + 1 \in 1..n /\ k + 1 \in 0..n /\ (k + 1) - 1 = k /\ k + 1 # 0
    BY <1>9
  <2>2. PICK th : th = <<pid, tids[k + 1]>>
    OBVIOUS
  <2>3. th \in DOMAIN m.order /\ th[1] = pid
    BY <1>3, <2>1, <2>2
  <2>4. th \notin T
    BY <2>3
  <2>5. th \notin {<<pid, tids[j]>> : j \in 1..k}
    <3>1. ASSUME NEW j \in 1..k PROVE tids[j] # tids[k + 1]
      <4>1. j \in 1..n /\ j # k + 1
        BY <2>1
      <4> QED
        BY <1>1, <1>2, <2>1, <4>1, TidsAre DEF Enumerates
    <3> QED
      BY <2>2, <3>1
  <2>6. g[k + 1] = PlaceThread(m, v, g[k], th)
    BY <1>7, <2>1, <2>2 DEF TidSteps
  <2>7. Placed(m, PlaceThread(m, v, g[k], th), lo, Done(k) \cup {th})
    <3>1. PICK a, U : a = g[k] /\ U = Done(k)
      OBVIOUS
    <3>2. Placed(m, a, lo, U) /\ th \notin U
      BY <1>9, <2>4, <2>5, <3>1
    <3>3. Placed(m, PlaceThread(m, v, a, th), lo, U \cup {th})
      BY <2>3, <3>2, ThreadPlaced
    <3> QED
      BY <3>1, <3>3
  <2>8. Done(k) \cup {th} = Done(k + 1)
    BY <2>1, <2>2
  <2> QED
    BY <2>1, <2>6, <2>7, <2>8
<1> HIDE DEF Fine
<1>10. n \in Fine
  <2>1. \A k \in 0..n : k \in Fine
    BY <1>8, <1>9, UpTo
  <2> QED
    BY <2>1
<1>11. Placed(m, g[n], lo, T \cup ThreadsOf(m, pid))
  <2>1. Done(n) \subseteq T \cup ThreadsOf(m, pid)
    BY <1>3
  <2>2. Placed(m, g[n], lo, Done(n))
    BY <1>10 DEF Fine
  <2> HIDE DEF Done
  <2> QED
    BY <2>1, <2>2, PlacedMore
<1>12. CASE pid \in v.pids
  <2>1. PlaceProcess(m, v, acc, pid) = acc
    BY <1>12 DEF PlaceProcess
  <2> QED
    BY <2>1, PlacedMore
<1>13. CASE pid \notin v.pids
  <2>1. PlaceProcess(m, v, acc, pid) = g[n]
    BY <1>1, <1>4, <1>7, <1>13 DEF PlaceProcess, TidsPlaced
  <2> QED
    BY <1>11, <2>1
<1> QED
  BY <1>12, <1>13

LEMMA ProcessTyped ==
  ASSUME NEW m, Tracked(m), NEW v, NEW acc \in Placing(m), NEW pid \in Processes(m)
  PROVE  PlaceProcess(m, v, acc, pid) \in Placing(m)
<1>1. PICK tids : tids = Tids(m, pid)
  OBVIOUS
<1>2. PICK n \in Nat : n = Len(tids) /\ DOMAIN tids = 1..n
  BY <1>1, TidsAre DEF Enumerates
<1>3. \A k \in 1..n : <<pid, tids[k]>> \in DOMAIN m.order
  <2> TAKE k \in 1..n
  <2>1. tids[k] \in {th[2] : th \in ThreadsOf(m, pid)}
    BY <1>1, <1>2, TidsAre, SMTT(40) DEF Enumerates, ToSet
  <2> QED
    BY <2>1, TidsAre DEF ThreadsOf
<1>4. PICK base : base = [acc EXCEPT !.y = @ + HeaderHeight]
  OBVIOUS
<1>5. base \in Placing(m)
  BY <1>4, PixelAssumption DEF Placing
<1>6. TidsPlaced(m, v, base, pid, tids) \in Placing(m)
  <2>1. PICK g : TidsPlaced(m, v, base, pid, tids) = g[n] /\ \A k \in 0..n : g[k] \in Placing(m)
    BY <1>2, <1>3, <1>5, TidsFold
  <2>2. n \in 0..n
    OBVIOUS
  <2> QED
    BY <2>1, <2>2
<1>7. PlaceProcess(m, v, acc, pid) \in {acc, TidsPlaced(m, v, base, pid, tids)}
  BY <1>1, <1>4 DEF PlaceProcess, TidsPlaced
<1> QED
  BY <1>6, <1>7

\* The processes, in the order of their numbers.
PidSteps(g, m, v, acc, pids, n) ==
  g = [k \in 0..n |-> IF k = 0 THEN acc ELSE PlaceProcess(m, v, g[k - 1], pids[k])]
PidsPlaced(m, v, acc, pids) == Through(LAMBDA a, pid : PlaceProcess(m, v, a, pid), acc, pids)

LEMMA PidsFold ==
  ASSUME NEW m, Tracked(m), NEW v, NEW acc \in Placing(m), NEW pids, NEW n \in Nat, n = Len(pids),
         \A k \in 1..n : pids[k] \in Processes(m)
  PROVE  \E g : PidSteps(g, m, v, acc, pids, n) /\ PidsPlaced(m, v, acc, pids) = g[n]
<1>1. PICK Q : Q = Placing(m)
  OBVIOUS
<1>2. PICK step : step = [k \in 1..n |-> [a \in Q |-> PlaceProcess(m, v, a, pids[k])]]
  OBVIOUS
<1>3. step \in [1..n -> [Q -> Q]]
  <2>1. \A k \in 1..n : \A a \in Q : PlaceProcess(m, v, a, pids[k]) \in Q
    BY <1>1, ProcessTyped
  <2> QED
    BY <1>2, <2>1
<1>4. PICK f \in [0..n -> Q] : IsFold(f, acc, step, n)
  BY <1>1, <1>3, FoldExists
<1>5. \E g : PidSteps(g, m, v, acc, pids, n)
  <2>1. ASSUME NEW k \in 0..n PROVE f[k] = IF k = 0 THEN acc ELSE PlaceProcess(m, v, f[k - 1], pids[k])
    <3>1. f[k] = IF k = 0 THEN acc ELSE step[k][f[k - 1]]
      BY <1>4 DEF IsFold
    <3>2. k # 0 => k \in 1..n /\ k - 1 \in 0..n /\ f[k - 1] \in Q
      BY <1>4
    <3> QED
      BY <1>2, <3>1, <3>2
  <2>2. f = [k \in 0..n |-> f[k]]
    BY <1>4
  <2> QED
    BY <2>1, <2>2 DEF PidSteps
<1>6. PICK g : g = CHOOSE x : PidSteps(x, m, v, acc, pids, n)
  OBVIOUS
<1>7. PidSteps(g, m, v, acc, pids, n)
  BY <1>5, <1>6
<1>8. PidsPlaced(m, v, acc, pids) = g[n]
  BY <1>6 DEF Through, PidSteps, PidsPlaced
<1> QED
  BY <1>7, <1>8

LEMMA PlaceIs ==
  ASSUME NEW m, Tracked(m), NEW v, NEW scroll \in Int, NEW r, r = Place(m, v, scroll)
  PROVE  \E acc : /\ Placed(m, acc, -scroll, DOMAIN m.order)
                  /\ r = [layouts |-> acc.layouts, content |-> acc.y + scroll]
<1>1. PICK pids : pids = Pids(m)
  OBVIOUS
<1>2. PICK n \in Nat : n = Len(pids) /\ DOMAIN pids = 1..n
  BY <1>1, PidsAre DEF Enumerates
<1>3. \A k \in 1..n : pids[k] \in Processes(m)
  BY <1>1, <1>2, PidsAre DEF Enumerates, ToSet
<1>4. PICK lo \in Int : lo = -scroll
  OBVIOUS
<1>5. PICK base : base = [y |-> lo, layouts |-> <<>>]
  OBVIOUS
<1>6. Placed(m, base, lo, {})
  <2>1. base.y = lo /\ base.layouts = <<>> /\ <<>> \in Seq(Layout(m)) /\ DOMAIN <<>> = {}
    BY <1>5
  <2>2. base \in Placing(m)
    BY <1>4, <1>5, <2>1 DEF Placing
  <2>3. lo <= base.y /\ DOMAIN base.layouts = {}
    BY <1>4, <2>1
  <2> QED
    BY <2>2, <2>3 DEF Placed
<1>7. base \in Placing(m)
  BY <1>6 DEF Placed
<1>8. PICK g : PidSteps(g, m, v, base, pids, n) /\ PidsPlaced(m, v, base, pids) = g[n]
  BY <1>2, <1>3, <1>7, PidsFold
<1> DEFINE Done(k) == {th \in DOMAIN m.order : th[1] \in {pids[j] : j \in 1..k}}
           Fine == {k \in 0..n : Placed(m, g[k], lo, Done(k))}
<1>9. 0 \in Fine
  <2>1. g[0] = base
    BY <1>8 DEF PidSteps
  <2>2. {} \subseteq Done(0)
    OBVIOUS
  <2> HIDE DEF Done
  <2>3. Placed(m, base, lo, Done(0))
    BY <1>6, <2>2, PlacedMore
  <2> QED
    BY <2>1, <2>3
<1>10. ASSUME NEW k \in 0..n, k \in Fine, k < n PROVE k + 1 \in Fine
  <2>1. k + 1 \in 1..n /\ k + 1 \in 0..n /\ (k + 1) - 1 = k /\ k + 1 # 0
    BY <1>10
  <2>2. PICK pid : pid = pids[k + 1]
    OBVIOUS
  <2>3. pid \in Processes(m)
    BY <1>3, <2>1, <2>2
  <2>4. \A j \in 1..k : pids[j] # pid
    <3> TAKE j \in 1..k
    <3>1. j \in 1..n /\ j # k + 1
      BY <2>1
    <3> QED
      BY <1>1, <1>2, <2>1, <2>2, <3>1, PidsAre DEF Enumerates
  <2>5. \A th \in Done(k) : th[1] # pid
    BY <2>4
  <2>6. g[k + 1] = PlaceProcess(m, v, g[k], pid)
    BY <1>8, <2>1, <2>2 DEF PidSteps
  <2>7. Placed(m, PlaceProcess(m, v, g[k], pid), lo, Done(k) \cup ThreadsOf(m, pid))
    <3>1. PICK a, U : a = g[k] /\ U = Done(k)
      OBVIOUS
    <3>2. Placed(m, a, lo, U) /\ \A th \in U : th[1] # pid
      BY <1>10, <2>5, <3>1
    <3>3. Placed(m, PlaceProcess(m, v, a, pid), lo, U \cup ThreadsOf(m, pid))
      BY <2>3, <3>2, ProcessPlaced
    <3> QED
      BY <3>1, <3>3
  <2>8. Done(k) \cup ThreadsOf(m, pid) = Done(k + 1)
    <3>1. \A j \in 1..k + 1 : j \in 1..k \/ j = k + 1
      BY <2>1
    <3>2. \A j \in 1..k : j \in 1..k + 1
      BY <2>1
    <3>3. k + 1 \in 1..k + 1
      BY <2>1
    <3>4. {pids[j] : j \in 1..k + 1} = {pids[j] : j \in 1..k} \cup {pid}
      BY <2>2, <3>1, <3>2, <3>3
    <3> QED
      BY <3>4 DEF ThreadsOf
  <2> QED
    BY <2>1, <2>6, <2>7, <2>8
<1> HIDE DEF Fine
<1>11. n \in Fine
  <2>1. \A k \in 0..n : k \in Fine
    BY <1>9, <1>10, UpTo
  <2> QED
    BY <2>1
<1>12. Placed(m, g[n], lo, DOMAIN m.order)
  <2>1. Done(n) \subseteq DOMAIN m.order
    OBVIOUS
  <2>2. Placed(m, g[n], lo, Done(n))
    BY <1>11 DEF Fine
  <2> HIDE DEF Done
  <2> QED
    BY <2>1, <2>2, PlacedMore
<1>13. r = [layouts |-> g[n].layouts, content |-> g[n].y + scroll]
  BY <1>1, <1>4, <1>5, <1>8 DEF Place, PidsPlaced
<1> QED
  BY <1>4, <1>12, <1>13

-----------------------------------------------------------------------------
(* Scrolling.  The row of an event that lies within the content is in sight  *)
(* when the tracks are scrolled to it.                                       *)
HasTimeline(t) ==
  {"scroll", "layouts", "content", "dragging", "from", "mouse"} \subseteq DOMAIN t /\ t.scroll \in Int /\ t.content \in Int

LEMMA ScrollToIs ==
  ASSUME NEW t, HasTimeline(t), NEW y \in Int, NEW r, r = ScrollTo(t, y)
  PROVE  /\ HasTimeline(r) /\ r.layouts = t.layouts /\ r.content = t.content
         /\ \E end \in Int : /\ end >= 0 /\ end >= t.content - VisibleHeight
                             /\ r.scroll >= 0 /\ (r.scroll >= y \/ r.scroll >= end) /\ (r.scroll <= y \/ r.scroll <= 0)
<1>1. PICK c \in Int : c = t.content
  BY DEF HasTimeline
<1>2. PICK end \in Int : end = MaxScroll(t) /\ end >= 0 /\ end >= c - VisibleHeight
  <2>1. PICK a, b \in Int : a = 0 /\ b = c - VisibleHeight
    BY PixelAssumption
  <2>2. Max({a, b}) \in Int /\ Max({a, b}) >= a /\ Max({a, b}) >= b
    BY MaxOfTwo
  <2> QED
    BY <1>1, <2>1, <2>2 DEF MaxScroll
<1>3. PICK a \in Int : a = Min({y, end}) /\ a \in {y, end} /\ a <= y /\ a <= end
  BY MinOfTwo
<1>4. PICK s \in Int : s = Max({0, a}) /\ s \in {0, a} /\ s >= 0 /\ s >= a
  <2>1. PICK z \in Int : z = 0
    OBVIOUS
  <2>2. Max({z, a}) \in Int /\ Max({z, a}) \in {z, a} /\ Max({z, a}) >= z /\ Max({z, a}) >= a
    BY MaxOfTwo
  <2> QED
    BY <2>1, <2>2
<1>5. r = [t EXCEPT !.scroll = s]
  BY <1>2, <1>3, <1>4 DEF ScrollTo
<1>6. HasTimeline(r) /\ r.layouts = t.layouts /\ r.content = t.content /\ r.scroll = s
  BY <1>5 DEF HasTimeline
<1> QED
  BY <1>1, <1>2, <1>3, <1>4, <1>6

LEMMA LimitedIs ==
  ASSUME NEW t, HasTimeline(t), NEW r, r = Limited(t)
  PROVE  /\ HasTimeline(r) /\ r.layouts = t.layouts /\ r.content = t.content
         /\ r.scroll <= t.scroll /\ (r.scroll = t.scroll \/ r.scroll >= t.content - VisibleHeight)
<1>1. PICK c, s \in Int : c = t.content /\ s = t.scroll
  BY DEF HasTimeline
<1>2. PICK end \in Int : end = Max({1, c - VisibleHeight}) /\ end >= c - VisibleHeight
  <2>1. PICK a, b \in Int : a = 1 /\ b = c - VisibleHeight
    BY PixelAssumption
  <2>2. Max({a, b}) \in Int /\ Max({a, b}) >= b
    BY MaxOfTwo
  <2> QED
    BY <2>1, <2>2
<1>3. PICK a \in Int : a = Min({s, end}) /\ a \in {s, end} /\ a <= s
  BY MinOfTwo
<1>4. r = [t EXCEPT !.scroll = a]
  BY <1>1, <1>2, <1>3 DEF Limited
<1>5. HasTimeline(r) /\ r.layouts = t.layouts /\ r.content = t.content /\ r.scroll = a
  BY <1>4 DEF HasTimeline
<1> QED
  BY <1>1, <1>2, <1>3, <1>5

InSight(t, top) == t.scroll <= top /\ top + RowHeight <= t.scroll + VisibleHeight

LEMMA RowInSight ==
  ASSUME NEW t, HasTimeline(t), NEW top \in Int, 0 <= top, top + RowHeight <= t.content,
         NEW r, r = Limited(ScrollTo(t, top - (VisibleHeight - RowHeight) \div 2))
  PROVE  HasTimeline(r) /\ r.layouts = t.layouts /\ InSight(r, top)
<1>1. PICK half \in Int : half = (VisibleHeight - RowHeight) \div 2 /\ half >= 0 /\ half <= VisibleHeight - RowHeight
  BY PixelAssumption
<1>2. PICK y \in Int : y = top - half
  BY <1>1
<1>3. PICK s : s = ScrollTo(t, y)
  OBVIOUS
<1>4. HasTimeline(s) /\ s.layouts = t.layouts /\ s.content = t.content
  BY <1>3, ScrollToIs
<1>5. PICK end \in Int : /\ end >= 0 /\ end >= t.content - VisibleHeight
                         /\ s.scroll >= 0 /\ (s.scroll >= y \/ s.scroll >= end) /\ (s.scroll <= y \/ s.scroll <= 0)
  BY <1>3, ScrollToIs
<1>6. r = Limited(s)
  BY <1>1, <1>2, <1>3
<1>7. /\ HasTimeline(r) /\ r.layouts = s.layouts
      /\ r.scroll <= s.scroll /\ (r.scroll = s.scroll \/ r.scroll >= s.content - VisibleHeight)
  BY <1>4, <1>6, LimitedIs
<1>8. /\ t.content \in Int /\ s.scroll \in Int /\ r.scroll \in Int
      /\ RowHeight \in Int /\ VisibleHeight \in Int
  BY <1>4, <1>7, PixelAssumption DEF HasTimeline
<1>9. r.scroll <= top
  BY <1>1, <1>2, <1>5, <1>7, <1>8
<1>10. top + RowHeight <= r.scroll + VisibleHeight
  BY <1>1, <1>2, <1>4, <1>5, <1>7, <1>8
<1> QED
  BY <1>4, <1>7, <1>9, <1>10 DEF InSight

\* The tracks of a frame.
LEMMA LayOutIs ==
  ASSUME NEW m, Tracked(m), NEW v, NEW t, HasTimeline(t), NEW r, r = LayOut(m, v, t)
  PROVE  /\ HasTimeline(r) /\ r.scroll = t.scroll
         /\ \E acc : Placed(m, acc, -t.scroll, DOMAIN m.order) /\ r.layouts = acc.layouts /\ r.content = acc.y + t.scroll
<1>1. PICK scroll \in Int : scroll = t.scroll
  BY DEF HasTimeline
<1>2. PICK p : p = Place(m, v, scroll)
  OBVIOUS
<1>3. PICK acc : Placed(m, acc, -scroll, DOMAIN m.order) /\ p = [layouts |-> acc.layouts, content |-> acc.y + scroll]
  BY <1>2, PlaceIs
<1>4. p.layouts = acc.layouts /\ p.content = acc.y + scroll
  BY <1>3
<1>5. p.content \in Int
  BY <1>3, <1>4 DEF Placed, Placing
<1>6. r = [t EXCEPT !.layouts = p.layouts, !.content = p.content]
  BY <1>1, <1>2 DEF LayOut
<1>7. /\ {"scroll", "layouts", "content", "dragging", "from", "mouse"} \subseteq DOMAIN r
      /\ r.layouts = p.layouts /\ r.content = p.content /\ r.scroll = t.scroll
  BY <1>4, <1>6 DEF HasTimeline
<1>8. HasTimeline(r)
  BY <1>1, <1>5, <1>7 DEF HasTimeline
<1> QED
  BY <1>1, <1>3, <1>4, <1>7, <1>8

LEMMA PendingInSight ==
  ASSUME NEW m, Tracked(m), NEW v, NEW t, HasTimeline(t), NEW p, p = ShowPending(m, v, LayOut(m, v, t)).t,
         NEW r, r = Limited(p)
  PROVE  /\ HasTimeline(p) /\ HasTimeline(r)
         /\ v.pending \in DOMAIN m.events =>
              \A k \in DOMAIN r.layouts : r.layouts[k].th = ThreadOf(m.events[v.pending]) =>
                InSight(r, r.layouts[k].y + t.scroll + m.events[v.pending].depth * RowHeight)
<1>1. PICK i : i = v.pending
  OBVIOUS
<1>2. PICK d : d = LayOut(m, v, t)
  OBVIOUS
<1>3. HasTimeline(d) /\ d.scroll = t.scroll
  BY <1>2, LayOutIs
<1>4. PICK acc : Placed(m, acc, -t.scroll, DOMAIN m.order) /\ d.layouts = acc.layouts /\ d.content = acc.y + t.scroll
  BY <1>2, LayOutIs
<1>5. PICK scroll \in Int : scroll = t.scroll
  BY DEF HasTimeline
<1>6. PICK s : s = d.layouts
  OBVIOUS
<1>7. PICK l \in Nat : l = Len(s) /\ DOMAIN s = 1..l
  BY <1>4, <1>6 DEF Placed, Placing
<1>8. PICK on : on = {k \in 1..l : s[k].th = ThreadOf(m.events[i])}
  OBVIOUS
<1>9. \A j, k \in on : j = k
  BY <1>4, <1>6, <1>7, <1>8 DEF Placed
<1>10. CASE i \notin DOMAIN m.events
  <2>1. p = d
    BY <1>1, <1>2, <1>10 DEF ShowPending
  <2>2. HasTimeline(r)
    BY <1>3, <2>1, LimitedIs
  <2> QED
    BY <1>1, <1>3, <1>10, <2>1, <2>2
<1>11. CASE i \in DOMAIN m.events /\ on = {}
  <2>1. p = d
    BY <1>1, <1>2, <1>6, <1>7, <1>8, <1>11 DEF ShowPending
  <2>2. HasTimeline(r) /\ r.layouts = s
    BY <1>3, <1>6, <2>1, LimitedIs
  <2> QED
    BY <1>1, <1>3, <1>7, <1>8, <1>11, <2>1, <2>2
<1>12. CASE i \in DOMAIN m.events /\ on # {}
  <2>1. PICK k \in on : TRUE
    BY <1>12
  <2>2. k \in 1..l /\ on = {k}
    BY <1>8, <1>9, <2>1
  <2>3. Min(on) = k
    <3>1. on \in SUBSET Int
      BY <1>8
    <3>2. IsFiniteSet({k})
      BY FS_Singleton
    <3>3. Min(on) \in on
      BY <1>12, <2>2, <3>1, <3>2, FiniteMin
    <3> QED
      BY <1>9, <2>1, <3>3
  <2>4. PICK th : th = s[k].th /\ th = ThreadOf(m.events[i])
    BY <1>8, <2>1
  <2>5. /\ s[k] \in Layout(m) /\ -scroll <= s[k].y /\ s[k].y + TrackHeight(m, th) <= acc.y
        /\ acc.y \in Int
    <3>1. -scroll <= s[k].y /\ s[k].y + TrackHeight(m, th) <= acc.y /\ acc \in Placing(m)
      BY <1>4, <1>5, <1>6, <1>7, <2>2, <2>4 DEF Placed
    <3>2. acc.y \in Int /\ s \in Seq(Layout(m))
      BY <1>4, <1>6, <3>1 DEF Placing
    <3> QED
      BY <1>7, <2>2, <3>1, <3>2
  <2>6. s[k].y \in Int /\ th \in DOMAIN m.order
    BY <2>4, <2>5 DEF Layout
  <2>7. PICK down \in Nat : /\ down = m.events[i].depth * RowHeight
                            /\ down + RowHeight <= TrackHeight(m, th) /\ TrackHeight(m, th) \in Nat
    BY <1>12, <2>4, <2>6, DepthOfIs
  <2>8. PICK top \in Int : top = s[k].y + scroll + down
    BY <2>6
  <2>9. RowHeight \in Int /\ VisibleHeight \in Int
    BY PixelAssumption
  <2>10. 0 <= top /\ top + RowHeight <= d.content
    BY <1>4, <1>5, <2>5, <2>6, <2>7, <2>8, <2>9
  <2>11. RowOf(m, d, s[k], i) = top
    BY <1>3, <1>5, <2>7, <2>8 DEF RowOf
  <2>12. PICK y \in Int : y = top - (VisibleHeight - RowHeight) \div 2
    BY <2>8, <2>9
  <2>13. p = ScrollTo(d, y)
    BY <1>1, <1>2, <1>6, <1>7, <1>8, <1>12, <2>3, <2>11, <2>12 DEF ShowPending
  <2>14. HasTimeline(p)
    BY <1>3, <2>13, ScrollToIs
  <2>15. HasTimeline(r) /\ r.layouts = s /\ InSight(r, top)
    BY <1>3, <1>6, <2>10, <2>12, <2>13, RowInSight
  <2>16. ASSUME NEW j \in 1..l, s[j].th = ThreadOf(m.events[i]) PROVE j = k
    BY <1>8, <2>2, <2>16
  <2> QED
    BY <1>1, <1>5, <1>7, <2>7, <2>8, <2>14, <2>15, <2>16
<1> QED
  BY <1>10, <1>11, <1>12


-----------------------------------------------------------------------------
(* The timeline's part of a frame. *)
InputFits(in) ==
  /\ in.is \in {"shift wheel", "scroll key", "scroll bar"} => in.by \in Int
  /\ in.is = "pan" => in.y \in Int

LEMMA OfferedFits ==
  ASSUME NEW in \in {Idle} \cup Offered
  PROVE  InputFits(in)
<1>1. CASE in = Idle
  BY <1>1, IdleIs DEF InputFits
<1>2. CASE in \in TimelineInputs(Xs, Ys, Times)
  <2>1. CASE in \in [is : {"wheel", "shift wheel", "sideways wheel", "pan key", "scroll key", "zoom key"}, by : {-1, 1}]
    <3>1. in.by \in {-1, 1} /\ in.is # "pan"
      BY <2>1
    <3>2. in.by \in Int
      BY <3>1
    <3> QED
      BY <3>1, <3>2 DEF InputFits
  <2>2. CASE in \in [is : {"scroll bar"}, by : {-3, 3}]
    <3>1. in.by \in {-3, 3} /\ in.is # "pan"
      BY <2>2
    <3>2. in.by \in Int
      BY <3>1
    <3> QED
      BY <3>1, <3>2 DEF InputFits
  <2>3. CASE in \in [is : {"pan"}, x : {-5, 5}, y : {-2, 2}]
    <3>1. in.y \in {-2, 2} /\ in.is = "pan"
      BY <2>3
    <3>2. in.y \in Int
      BY <3>1
    <3> QED
      BY <3>1, <3>2 DEF InputFits
  <2>4. CASE in.is \notin {"shift wheel", "scroll key", "scroll bar", "pan"}
    BY <2>4 DEF InputFits
  <2> QED
    BY <1>2, <2>1, <2>2, <2>3, <2>4 DEF TimelineInputs
<1>3. CASE in \in DetailsInputs(model, view, details)
  <2>1. in.is \notin {"shift wheel", "scroll key", "scroll bar", "pan"}
    BY <1>3 DEF DetailsInputs
  <2> QED
    BY <2>1 DEF InputFits
<1>4. CASE in \in SearchInputs(search) \cup FilterInputs(model)
  <2>1. in.is \notin {"shift wheel", "scroll key", "scroll bar", "pan"}
    BY <1>4 DEF SearchInputs, FilterInputs
  <2> QED
    BY <2>1 DEF InputFits
<1>5. CASE in \in InstancesInputs(instances) \cup FlameInputs(flame)
  <2>1. in.is \notin {"shift wheel", "scroll key", "scroll bar", "pan"}
    BY <1>5 DEF InstancesInputs, FlameInputs
  <2> QED
    BY <2>1 DEF InputFits
<1> QED
  BY <1>1, <1>2, <1>3, <1>4, <1>5 DEF Offered

LEMMA MouseIs ==
  ASSUME NEW t, HasTimeline(t), NEW in
  PROVE  HasTimeline(Mouse(t, in)) /\ Mouse(t, in).scroll = t.scroll
BY DEF Mouse, HasTimeline

LEMMA ScrollHandledIs ==
  ASSUME NEW t, HasTimeline(t), NEW in, InputFits(in)
  PROVE  HasTimeline(ScrollHandled(t, in))
<1>1. RowHeight \in Int /\ t.scroll \in Int
  BY PixelAssumption DEF HasTimeline
<1>2. CASE in.is = "shift wheel"
  <2>1. PICK by \in Int : by = in.by
    BY <1>2 DEF InputFits
  <2>2. PICK y \in Int : y = t.scroll - by * RowHeight * 3
    BY <1>1
  <2>3. ScrollHandled(t, in) = ScrollTo(t, y)
    BY <1>2, <2>1, <2>2 DEF ScrollHandled
  <2> QED
    BY <2>3, ScrollToIs
<1>3. CASE in.is = "scroll key" /\ in.by < 0
  <2>1. PICK z, y \in Int : z = 0 /\ y = t.scroll - RowHeight * 3
    BY <1>1
  <2>2. PICK s \in Int : s = Max({z, y})
    BY MaxOfTwo
  <2>3. ScrollHandled(t, in) = [t EXCEPT !.scroll = Max({0, t.scroll - RowHeight * 3})]
    <3>1. in.by \in Int
      BY <1>3 DEF InputFits
    <3>2. PICK by \in Int : by = in.by
      BY <3>1
    <3>3. by < 0
      BY <1>3, <3>2
    <3>4. ~(in.by > 0)
      BY <3>2, <3>3
    <3> QED
      BY <1>3, <3>4 DEF ScrollHandled
  <2>4. ScrollHandled(t, in) = [t EXCEPT !.scroll = s]
    BY <2>1, <2>2, <2>3
  <2> QED
    BY <2>2, <2>4 DEF HasTimeline
<1>4. CASE in.is = "scroll key" /\ in.by > 0 /\ ~(in.by < 0)
  <2>1. PICK y \in Int : y = t.scroll + RowHeight * 3
    BY <1>1
  <2>2. ScrollHandled(t, in) = ScrollTo(t, y)
    BY <1>4, <2>1 DEF ScrollHandled
  <2> QED
    BY <2>2, ScrollToIs
<1>5. CASE in.is = "pan"
  <2>1. PICK y \in Int : y = t.scroll - in.y
    BY <1>1, <1>5 DEF InputFits
  <2>2. ScrollHandled(t, in) = ScrollTo(t, y)
    BY <1>5, <2>1 DEF ScrollHandled
  <2> QED
    BY <2>2, ScrollToIs
<1>6. CASE /\ in.is # "shift wheel" /\ in.is # "pan"
           /\ ~(in.is = "scroll key" /\ in.by < 0) /\ ~(in.is = "scroll key" /\ in.by > 0)
  BY <1>6 DEF ScrollHandled
<1> QED
  BY <1>2, <1>3, <1>4, <1>5, <1>6

LEMMA HandledTimeline ==
  ASSUME NEW m, NEW v, NEW t, HasTimeline(t), NEW in, InputFits(in), NEW r, r = Handled(m, v, t, in)
  PROVE  HasTimeline(r.t)
<1>1. CASE in.is = "press"
  <2>1. r.t = [t EXCEPT !.dragging = TRUE, !.from = TimeAt(v, in.x), !.mouse = in.x]
    BY <1>1 DEF Handled, Press
  <2> QED
    BY <2>1 DEF HasTimeline
<1>2. CASE in.is # "press"
  <2>1. r.t = ScrollHandled(t, in)
    BY <1>2 DEF Handled
  <2> QED
    BY <2>1, ScrollHandledIs
<1> QED
  BY <1>1, <1>2

LEMMA BarTimeline ==
  ASSUME NEW m, NEW v, NEW t, HasTimeline(t), NEW in, InputFits(in), NEW r, r = BarHandled(m, v, t, in)
  PROVE  HasTimeline(r.t)
<1>1. CASE in.is = "scroll bar" /\ t.content > VisibleHeight
  <2>1. PICK by, c, s \in Int : by = in.by /\ c = t.content /\ s = t.scroll
    BY <1>1 DEF InputFits, HasTimeline
  <2>2. \A a, b \in Int : Max({a, b}) \in Int /\ Min({a, b}) \in Int
    <3> TAKE a \in Int, b \in Int
    <3>1. Min({a, b}) \in {a, b}
      BY MinOfTwo
    <3> QED
      BY <3>1, MaxOfTwo
  <2>3. PICK end \in Int : end = Max({1, c - VisibleHeight})
    <3>1. 1 \in Int /\ c - VisibleHeight \in Int
      BY PixelAssumption
    <3> QED
      BY <2>2, <3>1
  <2>4. PICK u \in Int : u = Min({s + by, end})
    <3>1. s + by \in Int
      OBVIOUS
    <3> QED
      BY <2>2, <3>1
  <2>5. PICK w \in Int : w = Max({0, u})
    <3>1. 0 \in Int
      OBVIOUS
    <3> QED
      BY <2>2, <3>1
  <2>6. r.t = [t EXCEPT !.scroll = w]
    BY <1>1, <2>1, <2>3, <2>4, <2>5 DEF BarHandled
  <2> QED
    BY <2>6 DEF HasTimeline
<1>2. CASE ~(in.is = "scroll bar" /\ t.content > VisibleHeight)
  <2>1. r.t = t
    BY <1>2 DEF BarHandled
  <2> QED
    BY <2>1
<1> QED
  BY <1>1, <1>2

\* What a step may do to the view besides: no one asks for an event.
Rests(v, w) == HasView(w) /\ w.pending = v.pending
Quiet(m, v) == v.pending \notin DOMAIN m.events

LEMMA MovedRests ==
  ASSUME NEW v, HasView(v), NEW start, NEW end, NEW r, r = SetViewRange(v, start, end)
  PROVE  Rests(v, r)
<1>1. PICK w : w = [v EXCEPT !.start = start, !.end = end]
  OBVIOUS
<1>2. HasView(w) /\ w.pending = v.pending
  BY <1>1 DEF HasView
<1>3. r = ClampToBounds(w)
  BY <1>1 DEF SetViewRange
<1>4. r = w \/ \E a, b : r = [w EXCEPT !.start = a, !.end = b]
  BY <1>3 DEF ClampToBounds
<1>5. CASE r = w
  BY <1>2, <1>5 DEF Rests
<1>6. CASE r # w
  <2>1. PICK a, b : r = [w EXCEPT !.start = a, !.end = b]
    BY <1>4, <1>6
  <2>2. HasView(r) /\ r.pending = w.pending
    BY <1>2, <2>1 DEF HasView
  <2> QED
    BY <1>2, <2>2 DEF Rests
<1> QED
  BY <1>5, <1>6

LEMMA BarRests ==
  ASSUME NEW m, NEW v, HasView(v), NEW t, NEW in, NEW r, r = BarHandled(m, v, t, in)
  PROVE  Rests(v, r.v)
<1>1. r.v = v \/ r.v = BarJump(m, v, in.x) \/ r.v = BarDrag(m, v, in.by) \/ r.v = Shift(v, -((in.by * Width(v)) \div 10))
  BY DEF BarHandled
<1>2. r.v = v \/ \E start, end : r.v = SetViewRange(v, start, end)
  BY <1>1 DEF BarJump, BarDrag, Shift
<1> QED
  BY <1>2, MovedRests DEF Rests

LEMMA ShownRests ==
  ASSUME NEW m, Tracked(m), NEW v, HasView(v), NEW t, NEW r, r = ShowPending(m, v, t)
  PROVE  HasView(r.v) /\ Quiet(m, r.v) /\ r.v.start = v.start /\ r.v.end = v.end
<1>1. CASE v.pending \notin DOMAIN m.events
  <2>1. r.v = v
    BY <1>1 DEF ShowPending
  <2> QED
    BY <1>1, <2>1 DEF Quiet
<1>2. CASE v.pending \in DOMAIN m.events
  <2>1. r.v = [v EXCEPT !.pending = None]
    BY <1>2 DEF ShowPending
  <2>2. HasView(r.v) /\ r.v.pending = None /\ r.v.start = v.start /\ r.v.end = v.end
    BY <2>1 DEF HasView
  <2>3. None \notin DOMAIN m.events
    BY DEF Tracked, None
  <2> QED
    BY <2>2, <2>3 DEF Quiet
<1> QED
  BY <1>1, <1>2

LEMMA TimelineStays ==
  ASSUME NEW m, Tracked(m), NEW v, HasView(v), NEW t, HasTimeline(t), NEW in, InputFits(in),
         in.is # "no room", NEW a, a = TimelineFrame(m, v, t, in)
  PROVE  HasView(a.v) /\ Quiet(m, a.v) /\ HasTimeline(a.t)
<1>1. PICK t1 : t1 = Mouse(t, in)
  OBVIOUS
<1>2. PICK w : w = Released(v, t1, in)
  OBVIOUS
<1>3. PICK s : s = Handled(m, w, t1, in)
  OBVIOUS
<1>4. PICK d : d = LayOut(m, s.v, s.t)
  OBVIOUS
<1>5. PICK p : p = ShowPending(m, s.v, d)
  OBVIOUS
<1>6. PICK l : l = Limited(p.t)
  OBVIOUS
<1>7. a = BarHandled(m, p.v, l, in)
  BY <1>1, <1>2, <1>3, <1>4, <1>5, <1>6 DEF TimelineFrame
<1>8. HasView(w) /\ HasView(s.v)
  <2>1. HasView(w)
    BY <1>2, ReleasedKeeps DEF Keeps
  <2> QED
    BY <1>3, <2>1, HandledKeeps DEF Keeps
<1>9. HasTimeline(s.t)
  <2>1. HasTimeline(t1)
    BY <1>1, MouseIs
  <2> QED
    BY <1>3, <2>1, HandledTimeline
<1>10. HasTimeline(l)
  BY <1>4, <1>5, <1>6, <1>9, PendingInSight
<1>11. HasView(p.v) /\ Quiet(m, p.v)
  BY <1>5, <1>8, ShownRests
<1>12. Rests(p.v, a.v)
  BY <1>7, <1>11, BarRests
<1> QED
  BY <1>7, <1>10, <1>11, <1>12, BarTimeline DEF Rests, Quiet

\* A frame without input shows what is asked for, and leaves the view.
LEMMA TimelineShows ==
  ASSUME NEW m, Tracked(m), NEW v, HasView(v), NEW t, HasTimeline(t),
         NEW a, a = TimelineFrame(m, v, t, Idle)
  PROVE  /\ a.v.start = v.start /\ a.v.end = v.end
         /\ v.pending \in DOMAIN m.events =>
              \A k \in DOMAIN a.t.layouts : a.t.layouts[k].th = ThreadOf(m.events[v.pending]) =>
                InSight(a.t, a.t.layouts[k].y + t.scroll + m.events[v.pending].depth * RowHeight)
<1>1. PICK t1 : t1 = Mouse(t, Idle)
  OBVIOUS
<1>2. PICK w : w = Released(v, t1, Idle)
  OBVIOUS
<1>3. HasTimeline(t1) /\ t1.scroll = t.scroll
  BY <1>1, MouseIs
<1>4. HasView(w) /\ w.start = v.start /\ w.end = v.end /\ w.pending = v.pending
  <2>1. HasView(w)
    BY <1>2, ReleasedKeeps DEF Keeps
  <2>2. w = Held(v, t1)
    BY <1>2, IdleIs DEF Released
  <2>3. CASE w = v
    BY <2>1, <2>3
  <2>4. CASE w # v
    <3>1. PICK u : u = [v EXCEPT !.selecting = TRUE]
      OBVIOUS
    <3>2. u.start = v.start /\ u.end = v.end /\ u.pending = v.pending /\ HasView(u)
      BY <3>1 DEF HasView
    <3>3. PICK b, c, e : w = [u EXCEPT !.ranged = b, !.rangeStart = c, !.rangeEnd = e]
      BY <2>2, <2>4, <3>1 DEF Held, SetRangeSelection
    <3>4. w.start = u.start /\ w.end = u.end /\ w.pending = u.pending
      BY <3>2, <3>3 DEF HasView
    <3> QED
      BY <2>1, <3>2, <3>4
  <2> QED
    BY <2>3, <2>4
<1>5. Handled(m, w, t1, Idle) = [v |-> w, t |-> t1]
  <2>1. ViewHandled(m, w, t1, Idle) = w
    BY IdleIs DEF ViewHandled
  <2>2. ScrollHandled(t1, Idle) = t1
    BY IdleIs DEF ScrollHandled
  <2> QED
    BY <2>1, <2>2, IdleIs DEF Handled
<1>6. PICK s : s = Handled(m, w, t1, Idle)
  OBVIOUS
<1>7. s.v = w /\ s.t = t1
  BY <1>5, <1>6
<1>8. PICK d : d = LayOut(m, w, t1)
  OBVIOUS
<1>9. PICK p : p = ShowPending(m, w, d)
  OBVIOUS
<1>10. PICK l : l = Limited(p.t)
  OBVIOUS
<1>11. a = BarHandled(m, p.v, l, Idle)
  BY <1>1, <1>2, <1>6, <1>7, <1>8, <1>9, <1>10, IdleIs DEF TimelineFrame
<1>12. a.v = p.v /\ a.t = l
  <2>1. a = [v |-> p.v, t |-> l]
    BY <1>11, IdleIs DEF BarHandled
  <2> QED
    BY <2>1
<1>13. p.v.start = w.start /\ p.v.end = w.end
  BY <1>4, <1>9, ShownRests
<1>14. w.pending \in DOMAIN m.events =>
         \A k \in DOMAIN l.layouts : l.layouts[k].th = ThreadOf(m.events[w.pending]) =>
           InSight(l, l.layouts[k].y + t1.scroll + m.events[w.pending].depth * RowHeight)
  BY <1>3, <1>8, <1>9, <1>10, PendingInSight
<1> QED
  BY <1>3, <1>4, <1>12, <1>13, <1>14

-----------------------------------------------------------------------------
(* The panels after it: who asks for an event makes the view hold it, and    *)
(* nobody selects another one in the same frame.  In a frame without room    *)
(* for the tracks what was asked for waits, and nothing else is done.        *)
Jumps ==
  {"range row", "parent", "child row", "stack row", "previous result", "next result", "result row",
   "previous instance", "next instance", "instance row", "no room"}

HoldsChoice(m, v) == v.pending = v.sel => v.start <= m.events[v.sel].ts /\ End(m.events[v.sel]) <= v.end
Asked(m, v) == HasView(v) /\ (Quiet(m, v) \/ HoldsChoice(m, v))
Led(m, v, in) == HasView(v) /\ (Quiet(m, v) \/ (in.is \in Jumps /\ HoldsChoice(m, v)))

LEMMA NavigateAsks ==
  ASSUME NEW m, Tracked(m), NEW v, HasView(v), NEW i, NEW halves \in Nat, NEW least \in Nat,
         NEW r, r = NavigateTo(v, m, i, halves, least)
  PROVE  Asked(m, r)
<1>1. HasView(r)
  BY NavigateKeeps DEF Keeps
<1>2. PICK e, u : e = m.events[i] /\ u = Select(v, i)
  OBVIOUS
<1>3. PICK pad : pad = Max({(e.dur * halves) \div 2, least})
  OBVIOUS
<1>4. r = [u EXCEPT !.pending = i, !.start = e.ts - pad, !.end = End(e) + pad]
  BY <1>2, <1>3 DEF NavigateTo
<1>5. HasView(u) /\ u.sel = i
  BY <1>2 DEF Select, HasView
<1>6. r.pending = i /\ r.sel = i /\ r.start = e.ts - pad /\ r.end = End(e) + pad
  BY <1>4, <1>5 DEF HasView
<1>7. CASE i \notin DOMAIN m.events
  BY <1>1, <1>6, <1>7 DEF Asked, Quiet
<1>8. CASE i \in DOMAIN m.events
  <2>1. PICK ts, dur \in Int : ts = e.ts /\ dur = e.dur
    BY <1>2, <1>8 DEF Tracked, HasTimes
  <2>2. PICK wide \in Int : wide = (dur * halves) \div 2
    OBVIOUS
  <2>3. pad \in Int /\ pad >= least
    <3>1. PICK low \in Int : low = least
      OBVIOUS
    <3>2. pad = Max({wide, low})
      BY <1>3, <2>1, <2>2, <3>1
    <3> QED
      BY <3>1, <3>2, MaxOfTwo
  <2>4. ts - pad <= ts /\ ts + dur <= (ts + dur) + pad
    BY <2>3
  <2>5. HoldsChoice(m, r)
    BY <1>2, <1>6, <2>1, <2>4 DEF HoldsChoice, End
  <2> QED
    BY <1>1, <2>5 DEF Asked
<1> QED
  BY <1>7, <1>8

LEMMA JumpAsks ==
  ASSUME NEW m, Tracked(m), NEW v, HasView(v), NEW i
  PROVE  Asked(m, Jump(v, m, i)) /\ Asked(m, JumpToResult(v, m, i))
BY PadAssumption, NavigateAsks DEF Jump, JumpToResult

LEMMA JumpLeads ==
  ASSUME NEW m, Tracked(m), NEW v, HasView(v), NEW i, NEW in, in.is \in Jumps
  PROVE  Led(m, Jump(v, m, i), in) /\ Led(m, JumpToResult(v, m, i), in)
BY JumpAsks DEF Asked, Led

\* What neither selects nor moves the view.
LEMMA SameLeads ==
  ASSUME NEW m, NEW v, NEW in, Led(m, v, in), NEW w, HasView(w),
         w.pending = v.pending, w.sel = v.sel, w.start = v.start, w.end = v.end
  PROVE  Led(m, w, in)
BY DEF Led, Quiet, HoldsChoice

LEMMA RangeLeads ==
  ASSUME NEW m, Tracked(m), NEW v, NEW in, Led(m, v, in), NEW d, NEW r, r = RangeFrame(m, v, d, in)
  PROVE  Led(m, r.v, in) /\ (in = Idle => r.v = v)
<1>0. HasView(v)
  BY DEF Led
<1>1. \/ r.v = v \/ (in.is = "zoom to range" /\ r.v = ZoomToFit(v, v.rangeStart, v.rangeEnd))
      \/ (in.is = "clear range" /\ r.v = ClearRange(v))
      \/ (in.is = "range row" /\ r.v = Jump(v, m, in.event))
  BY DEF RangeFrame
<1>2. CASE r.v = v
  BY <1>2 DEF Led
<1>3. CASE in.is = "zoom to range" /\ r.v = ZoomToFit(v, v.rangeStart, v.rangeEnd)
  <2>1. HasView(r.v)
    BY <1>0, <1>3, FitKeeps DEF Keeps
  <2>2. r.v.pending = v.pending
    BY <1>0, <1>3 DEF ZoomToFit, HasView
  <2>3. Quiet(m, v)
    BY <1>3 DEF Led, Jumps
  <2> QED
    BY <1>3, <2>1, <2>2, <2>3, IdleIs DEF Led, Quiet
<1>4. CASE in.is = "clear range" /\ r.v = ClearRange(v)
  <2>1. HasView(r.v) /\ r.v.pending = v.pending
    BY <1>0, <1>4 DEF ClearRange, HasView
  <2>2. Quiet(m, v)
    BY <1>4 DEF Led, Jumps
  <2> QED
    BY <1>4, <2>1, <2>2, IdleIs DEF Led, Quiet
<1>5. CASE in.is = "range row" /\ r.v = Jump(v, m, in.event)
  <2>1. in.is \in Jumps /\ in # Idle
    BY <1>5, IdleIs DEF Jumps
  <2> QED
    BY <1>0, <1>5, <2>1, JumpLeads
<1> QED
  BY <1>1, <1>2, <1>3, <1>4, <1>5

LEMMA ChildrenLeads ==
  ASSUME NEW m, Tracked(m), NEW v, NEW in, Led(m, v, in), NEW d, NEW r, r = ChildrenTab(m, v, d, in)
  PROVE  Led(m, r.v, in) /\ (in = Idle => r.v = v)
<1>1. r.v = v \/ (in.is = "child row" /\ r.v = Jump(v, m, in.event))
  BY DEF ChildrenTab
<1>2. in.is = "child row" => in.is \in Jumps /\ in # Idle
  BY IdleIs DEF Jumps
<1>3. HasView(v)
  BY DEF Led
<1> QED
  BY <1>1, <1>2, <1>3, JumpLeads

LEMMA StackLeads ==
  ASSUME NEW m, Tracked(m), NEW v, NEW in, Led(m, v, in), NEW d, NEW i, NEW r, r = StackTab(m, v, d, i, in)
  PROVE  Led(m, r.v, in) /\ (in = Idle => r.v = v)
<1>1. r.v = v \/ (in.is = "stack row" /\ r.v = Jump(v, m, in.event))
  <2>1. PICK rows : rows = StackRows(m, d)
    OBVIOUS
  <2>2. \/ r = [v |-> v, d |-> d]
        \/ r = [v |-> v, d |-> [d EXCEPT !.collapsed = Toggle(@, in.event)]]
        \/ in.is = "stack row" /\ r = [v |-> Jump(v, m, in.event), d |-> d]
    BY <2>1 DEF StackTab
  <2>3. PICK w, folded : w = Jump(v, m, in.event) /\ folded = [d EXCEPT !.collapsed = Toggle(@, in.event)]
    OBVIOUS
  <2>4. r = [v |-> v, d |-> d] \/ r = [v |-> v, d |-> folded] \/ (in.is = "stack row" /\ r = [v |-> w, d |-> d])
    BY <2>2, <2>3
  <2>5. ASSUME NEW x, NEW y, r = [v |-> x, d |-> y]
        PROVE  r.v = x
    BY <2>5
  <2> QED
    BY <2>3, <2>4, <2>5
<1>2. in.is = "stack row" => in.is \in Jumps /\ in # Idle
  BY IdleIs DEF Jumps
<1>3. HasView(v)
  BY DEF Led
<1> QED
  BY <1>1, <1>2, <1>3, JumpLeads

LEMMA EventLeads ==
  ASSUME NEW m, Tracked(m), NEW v0, NEW in, Led(m, v0, in), NEW d0, NEW r, r = EventFrame(m, v0, d0, in)
  PROVE  Led(m, r.v, in) /\ (in = Idle => r.v = v0)
<1>1. PICK i : i = v0.sel
  OBVIOUS
<1>2. PICK eager : eager = IF m.events[i].dur > 0 THEN RebuildChildren(m, v0, d0) ELSE d0
  OBVIOUS
<1>3. PICK up : up = m.events[i].parent
  OBVIOUS
<1>4. PICK v : v = IF in.is = "parent" /\ m.events[i].depth > 0 /\ up # None THEN Jump(v0, m, up) ELSE v0
  OBVIOUS
<1>5. PICK followed : followed = IF m.events[v.sel].dur > 0 THEN Follow(m, RebuildChildren(m, v, eager)) ELSE eager
  OBVIOUS
<1>6. PICK tab : tab = ChildrenTab(m, v, followed, in)
  OBVIOUS
<1>7. PICK stack : stack = FollowStack(m, tab.v, tab.d, i)
  BY Zenon
<1>8. r = IF m.events[i].kind = "Sample" THEN [v |-> v0, d |-> SampleFrame(m, v0, eager)]
          ELSE StackTab(m, tab.v, stack, i, in)
  BY <1>1, <1>2, <1>3, <1>4, <1>5, <1>6, <1>7 DEF EventFrame
<1>9. HasView(v0)
  BY DEF Led
<1>10. Led(m, v, in) /\ (in = Idle => v = v0)
  <2>1. in.is = "parent" => in.is \in Jumps /\ in # Idle
    BY IdleIs DEF Jumps
  <2>2. v = v0 \/ (in.is = "parent" /\ v = Jump(v0, m, up))
    BY <1>4
  <2> QED
    BY <1>9, <2>1, <2>2, JumpLeads
<1>11. Led(m, tab.v, in) /\ (in = Idle => tab.v = v)
  BY <1>6, <1>10, ChildrenLeads
<1>12. PICK shown : shown = StackTab(m, tab.v, stack, i, in)
  OBVIOUS
<1>13. Led(m, shown.v, in) /\ (in = Idle => shown.v = tab.v)
  BY <1>11, <1>12, StackLeads
<1>14. r.v = v0 \/ r.v = shown.v
  BY <1>8, <1>12
<1> QED
  BY <1>10, <1>11, <1>13, <1>14

LEMMA DetailsLead ==
  ASSUME NEW m, Tracked(m), NEW v, NEW in, Led(m, v, in), NEW d, NEW r, r = DetailsFrame(m, v, d, in)
  PROVE  Led(m, r.v, in) /\ (in = Idle => r.v = v)
<1>1. PICK opened : opened = CASE in.is = "tab" -> [d EXCEPT !.tab = in.tab]
                               [] in.is = "range header" /\ v.ranged -> [d EXCEPT !.closed = ~@]
                               [] OTHER -> d
  OBVIOUS
<1>2. PICK range : range = RangeFrame(m, v, opened, in)
  OBVIOUS
<1>3. r \in {range, EventFrame(m, range.v, range.d, in)}
  BY <1>1, <1>2 DEF DetailsFrame
<1>4. Led(m, range.v, in) /\ (in = Idle => range.v = v)
  BY <1>2, RangeLeads
<1>5. r = range \/ (Led(m, r.v, in) /\ (in = Idle => r.v = range.v))
  BY <1>3, <1>4, EventLeads
<1> QED
  BY <1>4, <1>5

LEMMA SearchLeads ==
  ASSUME NEW m, Tracked(m), NEW v, NEW in, Led(m, v, in), NEW q, NEW r, r = SearchFrame(m, v, q, in)
  PROVE  Led(m, r.v, in) /\ (in = Idle => r.v = v)
<1>1. HasView(v)
  BY DEF Led
<1>2. ASSUME NEW query, NEW results, NEW current
      PROVE  Led(m, [v EXCEPT !.query = query, !.results = results, !.current = current], in)
  <2>1. PICK w : w = [v EXCEPT !.query = query, !.results = results, !.current = current]
    OBVIOUS
  <2>2. HasView(w) /\ w.pending = v.pending /\ w.sel = v.sel /\ w.start = v.start /\ w.end = v.end
    BY <1>1, <2>1 DEF HasView
  <2> QED
    BY <2>1, <2>2, SameLeads
<1>3. ASSUME in.is \in Jumps, NEW at PROVE Led(m, StepTo(m, v, q, at), in)
  <2>1. PICK w : w = [v EXCEPT !.current = at]
    OBVIOUS
  <2>2. HasView(w) /\ w.pending = v.pending /\ w.sel = v.sel /\ w.start = v.start /\ w.end = v.end
    BY <1>1, <2>1 DEF HasView
  <2>3. Led(m, w, in)
    BY <2>2, SameLeads
  <2>4. StepTo(m, v, q, at) \in {v, w, JumpToResult(w, m, q.rows[at + 1])}
    BY <2>1 DEF StepTo
  <2>5. Led(m, JumpToResult(w, m, q.rows[at + 1]), in)
    BY <1>3, <2>2, JumpLeads
  <2> QED
    BY <2>3, <2>4, <2>5
<1>4. CASE in.is = "find"
  <2>1. PICK p : p = [q EXCEPT !.text = in.text]
    OBVIOUS
  <2>2. r = SearchFor(m, v, p)
    BY <1>4, <2>1 DEF SearchFrame
  <2>3. r.v = [v EXCEPT !.query = p.text, !.results = Hits(m, p.text), !.current = -1]
    BY <2>2 DEF SearchFor
  <2>4. PICK query, results : query = p.text /\ results = Hits(m, p.text)
    OBVIOUS
  <2>5. r.v = [v EXCEPT !.query = query, !.results = results, !.current = -1]
    BY <2>3, <2>4
  <2>6. PICK w : w = [v EXCEPT !.query = query, !.results = results, !.current = -1]
    OBVIOUS
  <2>7. Led(m, w, in)
    BY <1>2, <2>6
  <2> QED
    BY <1>4, <2>5, <2>6, <2>7, IdleIs
<1>5. CASE in.is \in {"previous result", "next result", "result row"}
  <2>1. r.v = v \/ r.v = JumpToResult(v, m, in.event) \/ \E at : r.v = StepTo(m, v, q, at)
    BY <1>5 DEF SearchFrame
  <2>2. in.is \in Jumps /\ in # Idle
    BY <1>5, IdleIs DEF Jumps
  <2>3. Led(m, JumpToResult(v, m, in.event), in)
    BY <1>1, <2>2, JumpLeads
  <2> QED
    BY <1>3, <2>1, <2>2, <2>3
<1>6. CASE in.is \notin {"find", "previous result", "next result", "result row"}
  <2>1. r.v = v
    BY <1>6 DEF SearchFrame
  <2> QED
    BY <2>1
<1> QED
  BY <1>4, <1>5, <1>6

LEMMA FilterLeads ==
  ASSUME NEW m, NEW v, NEW in, Led(m, v, in), NEW w, w = FilterFrame(m, v, in)
  PROVE  Led(m, w, in) /\ (in = Idle => w = v)
<1>1. HasView(v)
  BY DEF Led
<1>2. ASSUME NEW S, w \in {[v EXCEPT !.pids = S], [v EXCEPT !.tids = S], [v EXCEPT !.cats = S]}
      PROVE  Led(m, w, in)
  <2>1. HasView(w) /\ w.pending = v.pending /\ w.sel = v.sel /\ w.start = v.start /\ w.end = v.end
    BY <1>1, <1>2 DEF HasView
  <2> QED
    BY <2>1, SameLeads
<1>3. w = v \/ \E S : w \in {[v EXCEPT !.pids = S], [v EXCEPT !.tids = S], [v EXCEPT !.cats = S]}
  BY DEF FilterFrame
<1>4. in = Idle => w = v
  BY IdleIs DEF FilterFrame
<1> QED
  BY <1>2, <1>3, <1>4

\* Only a click asks for an instance.
LEMMA InstancesLead ==
  ASSUME NEW m, Tracked(m), NEW v, NEW in, Led(m, v, in), NEW s, NEW r, r = InstancesFrame(m, v, s, in)
  PROVE  Led(m, r.v, in)
<1>1. PICK f : f = FollowSelection(m, v, s)
  OBVIOUS
<1>2. PICK a : a = Stepped(m, v, f, in)
  OBVIOUS
<1>3. PICK c : c = SortedIfDirty(m, a.v, Picked(a.s, in))
  OBVIOUS
<1>4. r = IF m.events = <<>> THEN [v |-> v, s |-> s]
          ELSE IF f.name = "" \/ f.rows = <<>> THEN [v |-> v, s |-> f]
          ELSE IF in.is = "instance row" /\ in.row \in DOMAIN c.rows THEN ToInstance(m, a.v, c, in.row)
          ELSE [v |-> a.v, s |-> c]
  BY <1>1, <1>2, <1>3 DEF InstancesFrame, Stepped, Picked, SortedIfDirty
<1>5. ASSUME NEW w, HasView(w), NEW p, NEW k, in.is \in Jumps
      PROVE  Led(m, ToInstance(m, w, p, k).v, in)
  BY <1>5, JumpLeads DEF ToInstance
<1>6. Led(m, a.v, in)
  <2>1. CASE in.is \in {"previous instance", "next instance"}
    <3>1. a = [v |-> v, s |-> f] \/ \E k : a = ToInstance(m, v, f, k)
      BY <1>2, <2>1 DEF Stepped
    <3>2. in.is \in Jumps
      BY <2>1 DEF Jumps
    <3> QED
      BY <1>5, <3>1, <3>2 DEF Led
  <2>2. CASE in.is \notin {"previous instance", "next instance"}
    <3>1. a = [v |-> v, s |-> f]
      BY <1>2, <2>2 DEF Stepped
    <3> QED
      BY <3>1
  <2> QED
    BY <2>1, <2>2
<1>7. r.v = v \/ r.v = a.v \/ (in.is = "instance row" /\ r.v = ToInstance(m, a.v, c, in.row).v)
  <2>1. \/ r = [v |-> v, s |-> s] \/ r = [v |-> v, s |-> f] \/ r = [v |-> a.v, s |-> c]
        \/ in.is = "instance row" /\ r = ToInstance(m, a.v, c, in.row)
    BY <1>4
  <2>2. PICK w, e : w = a.v /\ e = ToInstance(m, a.v, c, in.row)
    OBVIOUS
  <2>3. \/ r = [v |-> v, s |-> s] \/ r = [v |-> v, s |-> f] \/ r = [v |-> w, s |-> c]
        \/ in.is = "instance row" /\ r = e
    BY <2>1, <2>2
  <2>4. ASSUME NEW x, NEW y, r = [v |-> x, s |-> y]
        PROVE  r.v = x
    BY <2>4
  <2> QED
    BY <2>2, <2>3, <2>4
<1>8. CASE in.is = "instance row"
  <2>1. in.is \in Jumps
    BY <1>8 DEF Jumps
  <2> QED
    BY <1>5, <1>6, <1>7, <2>1 DEF Led
<1>9. CASE in.is # "instance row"
  BY <1>6, <1>7, <1>9
<1> QED
  BY <1>8, <1>9

\* The flame graph selects, and asks for nothing.
LEMMA IcicleLeads ==
  ASSUME NEW m, NEW v, NEW in, Led(m, v, in), NEW f, NEW r, r = IcicleFrame(v, f, in)
  PROVE  Led(m, r.v, in)
<1>1. HasView(v)
  BY DEF Led
<1>2. CASE in.is \in {"bar", "show in instances"}
  <2>1. r.v = v \/ \E i : r.v = Select(v, i)
    BY <1>2 DEF IcicleFrame, Selected
  <2>2. in.is \notin Jumps
    BY <1>2 DEF Jumps
  <2>3. ASSUME NEW i PROVE Led(m, Select(v, i), in)
    <3>1. PICK w : w = Select(v, i)
      OBVIOUS
    <3>2. HasView(w) /\ w.pending = v.pending
      BY <1>1, <3>1 DEF Select, HasView
    <3> QED
      BY <2>2, <3>1, <3>2 DEF Led, Quiet
  <2> QED
    BY <2>1, <2>3
<1>3. CASE in.is = "hide category"
  <2>1. r.v = v \/ \E S : r.v = [v EXCEPT !.cats = S]
    BY <1>3 DEF IcicleFrame
  <2>2. ASSUME NEW S PROVE Led(m, [v EXCEPT !.cats = S], in)
    <3>1. PICK w : w = [v EXCEPT !.cats = S]
      OBVIOUS
    <3>2. HasView(w) /\ w.pending = v.pending /\ w.sel = v.sel /\ w.start = v.start /\ w.end = v.end
      BY <1>1, <3>1 DEF HasView
    <3> QED
      BY <3>1, <3>2, SameLeads
  <2> QED
    BY <2>1, <2>2
<1>4. CASE in.is \notin {"bar", "show in instances", "hide category"}
  <2>1. r.v = v
    BY <1>4 DEF IcicleFrame
  <2> QED
    BY <2>1
<1> QED
  BY <1>2, <1>3, <1>4

LEMMA FlameLeads ==
  ASSUME NEW m, NEW v, NEW in, Led(m, v, in), NEW f, NEW r, r = FlameFrame(m, v, f, in)
  PROVE  Led(m, r.v, in)
<1>1. r = [v |-> v, f |-> f] \/ \E g : r = ChartFrame(v, g, in)
  BY DEF FlameFrame
<1>2. ASSUME NEW g, r = ChartFrame(v, g, in)
      PROVE  r = [v |-> v, f |-> g] \/ \E h : r = IcicleFrame(v, h, in)
  BY <1>2 DEF ChartFrame
<1>3. CASE \E g : r = [v |-> v, f |-> g]
  BY <1>3
<1>4. CASE \E h : r = IcicleFrame(v, h, in)
  BY <1>4, IcicleLeads
<1> QED
  BY <1>1, <1>2, <1>3, <1>4

-----------------------------------------------------------------------------
(* What is asked for, from frame to frame. *)
AskedInv == Tracked(model) /\ HasTimeline(timeline) /\ Asked(model, view)

LEMMA TraceIsTracked ==
  ASSUME NEW t \in DOMAIN Traces
  PROVE  Tracked(ModelOf(t))
<1>1. PICK events : events = Traces[t].events
  OBVIOUS
<1>2. /\ Len(events) \in Nat /\ DOMAIN events = 1..Len(events)
      /\ \A i \in DOMAIN events : IsTimed(events[i]) /\ events[i].pid \in Int /\ events[i].tid \in Int
  BY <1>1, TracesAssumption, SMTT(30)
<1>3. PICK n \in Nat : DOMAIN events = 1..n
  BY <1>2
<1>4. AreTimed(events)
  BY <1>2 DEF AreTimed
<1>5. \A i \in 1..n : events[i].pid \in Int /\ events[i].tid \in Int
  BY <1>2, <1>3
<1>6. Tracked(BuildIndex(events, Traces[t].frames))
  BY <1>3, <1>4, <1>5, ModelIsTracked
<1> QED
  BY <1>1, <1>6 DEF ModelOf

\* A load selects nothing, so what an earlier trace still asks for is not the
\* selection.
LEMMA LoadedAsks ==
  ASSUME NEW v, NEW m, Tracked(m)
  PROVE  Asked(m, Loaded(v, m))
<1>1. PICK fresh : fresh = [View0 EXCEPT !.pending = v.pending, !.min = v.min, !.max = v.max, !.bounded = v.bounded]
  OBVIOUS
<1>2. HasView(fresh) /\ fresh.sel = None
  BY <1>1 DEF View0, HasView
<1>3. PICK w : w = SetTraceBounds(fresh, m.minTs, m.maxTs)
  OBVIOUS
<1>4. HasView(w) /\ w.sel = None
  BY <1>2, <1>3 DEF SetTraceBounds, HasView
<1>5. PICK a, b : ZoomToFit(w, m.minTs, m.maxTs) = [w EXCEPT !.start = a, !.end = b]
  BY DEF ZoomToFit
<1>6. PICK fit : fit = [w EXCEPT !.start = a, !.end = b]
  OBVIOUS
<1>7. fit.sel = None
  BY <1>4, <1>6 DEF HasView
<1>8. Loaded(v, m) = fresh \/ Loaded(v, m) = fit
  BY <1>1, <1>3, <1>5, <1>6 DEF Loaded
<1>9. Loaded(v, m).sel = None
  BY <1>2, <1>7, <1>8
<1>10. None \notin DOMAIN m.events
  BY DEF Tracked, None
<1> QED
  BY <1>9, <1>10, LoadedIs DEF Asked, Quiet, HoldsChoice

LEMMA FirstAsks == Init => AskedInv
<1> SUFFICES ASSUME Init PROVE AskedInv
  OBVIOUS
<1>1. Tracked(model)
  BY TraceIsTracked DEF Init
<1>2. HasTimeline(timeline)
  BY DEF Init, Timeline0, HasTimeline
<1>3. Asked(model, view)
  BY <1>1, LoadedAsks DEF Init
<1> QED
  BY <1>1, <1>2, <1>3 DEF AskedInv

LEMMA LoadAsks == AskedInv /\ FinishLoad => AskedInv'
<1> SUFFICES ASSUME AskedInv, FinishLoad PROVE AskedInv'
  OBVIOUS
<1>1. trace' \in DOMAIN Traces /\ model' = ModelOf(trace') /\ view' = Loaded(view, model') /\ timeline' = timeline
  BY DEF FinishLoad
<1>2. Tracked(model')
  BY <1>1, TraceIsTracked
<1>3. Asked(model', view')
  BY <1>1, <1>2, LoadedAsks
<1> QED
  BY <1>1, <1>2, <1>3 DEF AskedInv

\* A frame leads from what is asked for to what is asked for; one without input
\* leaves the view as the timeline has left it.
LEMMA FrameAsks ==
  ASSUME ListsInv, AskedInv, Frame
  PROVE  /\ AskedInv'
         /\ last' = "idle" => \E a : /\ a = TimelineFrame(model, view, timeline, Idle)
                                     /\ timeline' = a.t /\ view' = a.v
<1>1. PICK in \in {Idle} \cup Offered :
                \E a \in {TimelineFrame(model, view, timeline, in)} :
                \E b \in {DetailsFrame(model, a.v, details, in)} :
                \E c \in {SearchFrame(model, b.v, search, in)} :
                \E d \in {InstancesFrame(model, FilterFrame(model, c.v, in), instances, in)} :
                \E e \in {FlameFrame(model, d.v, flame, in)} :
                  /\ view' = e.v /\ timeline' = a.t
                  /\ last' = IF in = Idle THEN "idle" ELSE "input"
                  /\ model' = model
  BY DEF Frame
<1>2. PICK a : a = TimelineFrame(model, view, timeline, in)
  OBVIOUS
<1>3. PICK b : b = DetailsFrame(model, a.v, details, in)
  OBVIOUS
<1>4. PICK c : c = SearchFrame(model, b.v, search, in)
  OBVIOUS
<1>5. PICK w : w = FilterFrame(model, c.v, in)
  OBVIOUS
<1>6. PICK d : d = InstancesFrame(model, w, instances, in)
  BY Zenon
<1>7. PICK e : e = FlameFrame(model, d.v, flame, in)
  OBVIOUS
<1>8. view' = e.v /\ timeline' = a.t /\ last' = (IF in = Idle THEN "idle" ELSE "input") /\ model' = model
  BY <1>1, <1>2, <1>3, <1>4, <1>5, <1>6, <1>7
<1>9. Indexed(model) /\ InstancesHold(model, instances) /\ FlameHolds(model, flame)
  BY DEF ListsInv
<1>10. Tracked(model) /\ HasTimeline(timeline) /\ HasView(view)
  BY DEF AskedInv, Asked
<1>11. InputFits(in)
  BY OfferedFits
<1>12. Led(model, a.v, in) /\ HasTimeline(a.t)
  <2>1. CASE in.is = "no room"
    <3>1. a.v = view /\ a.t = timeline
      BY <1>2, <2>1 DEF TimelineFrame
    <3> QED
      BY <1>10, <2>1, <3>1 DEF AskedInv, Asked, Led, Jumps
  <2>2. CASE in.is # "no room"
    BY <1>2, <1>10, <1>11, <2>2, TimelineStays DEF Led
  <2> QED
    BY <2>1, <2>2
<1>13. Led(model, b.v, in) /\ (in = Idle => b.v = a.v)
  BY <1>3, <1>10, <1>12, DetailsLead
<1>14. Led(model, c.v, in) /\ (in = Idle => c.v = b.v)
  BY <1>4, <1>10, <1>13, SearchLeads
<1>15. Led(model, w, in) /\ (in = Idle => w = c.v)
  BY <1>5, <1>14, FilterLeads
<1>16. Led(model, d.v, in)
  BY <1>6, <1>10, <1>15, InstancesLead
<1>17. Browses(model, w, d) /\ (in = Idle => d.v = w)
  BY <1>6, <1>9, <1>15, InstancesStay DEF Led
<1>18. Led(model, e.v, in)
  BY <1>7, <1>16, FlameLeads
<1>19. in = Idle => e.v = d.v
  BY <1>7, <1>9, <1>16, FlameStays DEF Led
<1>20. AskedInv'
  BY <1>8, <1>10, <1>12, <1>18 DEF AskedInv, Asked, Led
<1>21. ASSUME last' = "idle"
       PROVE  a = TimelineFrame(model, view, timeline, Idle) /\ timeline' = a.t /\ view' = a.v
  <2>1. in = Idle
    BY <1>8, <1>21
  <2> QED
    BY <1>2, <1>8, <1>13, <1>14, <1>15, <1>17, <1>19, <2>1
<1> QED
  BY <1>20, <1>21, SMTT(30)

LEMMA FrameShows ==
  ASSUME ListsInv, AskedInv, Frame
  PROVE  AskedForIsShown
<1> SUFFICES ASSUME last' = "idle", view.pending \in DOMAIN model.events, view.pending = view.sel
             PROVE  /\ view'.start <= Ev(view.sel).ts /\ End(Ev(view.sel)) <= view'.end
                    /\ \A k \in DOMAIN timeline'.layouts : timeline'.layouts[k].th = ThreadOf(Ev(view.sel)) =>
                         InSight(timeline', timeline'.layouts[k].y + timeline.scroll + Ev(view.sel).depth * RowHeight)
  BY DEF AskedForIsShown, InSight
<1>1. PICK a : a = TimelineFrame(model, view, timeline, Idle) /\ timeline' = a.t /\ view' = a.v
  BY FrameAsks
<1>2. Tracked(model) /\ HasTimeline(timeline) /\ HasView(view) /\ HoldsChoice(model, view)
  BY DEF AskedInv, Asked, Quiet
<1>3. a.v.start = view.start /\ a.v.end = view.end
  BY <1>1, <1>2, TimelineShows
<1>4. \A k \in DOMAIN a.t.layouts : a.t.layouts[k].th = ThreadOf(model.events[view.pending]) =>
        InSight(a.t, a.t.layouts[k].y + timeline.scroll + model.events[view.pending].depth * RowHeight)
  BY <1>1, <1>2, TimelineShows
<1>5. view.start <= Ev(view.sel).ts /\ End(Ev(view.sel)) <= view.end
  BY <1>2 DEF HoldsChoice, Ev
<1> QED
  BY <1>1, <1>3, <1>4, <1>5 DEF Ev

\* Whatever the trace, and whoever asks for an event (a row of a table, the key
\* to the next result, a click on a parent): the next frame without input shows
\* it.  The view holds the whole event, and the tracks are scrolled to its row
\* when its thread is laid out (view_state.h: navigate_to_event;
\* timeline_view.cpp:698-714, pending_scroll_event_idx).
THEOREM JumpsAreShown == Spec => JumpShowsEvent
<1>1. ListsInv /\ AskedInv /\ [Next]_vars => ListsInv' /\ AskedInv'
  <2> SUFFICES ASSUME ListsInv, AskedInv, [Next]_vars PROVE ListsInv' /\ AskedInv'
    OBVIOUS
  <2>1. CASE Frame
    BY <2>1, FrameLists, FrameAsks
  <2>2. CASE FinishLoad
    BY <2>2, LoadLists, LoadAsks
  <2>3. CASE UNCHANGED vars
    BY <2>3 DEF vars, panels, ListsInv, Settled, AskedInv
  <2> QED
    BY <2>1, <2>2, <2>3 DEF Next
<1>2. ListsInv /\ AskedInv /\ [Next]_vars => [AskedForIsShown]_vars
  <2>1. FinishLoad => AskedForIsShown
    BY DEF FinishLoad, AskedForIsShown
  <2> QED
    BY <2>1, FrameShows DEF Next
<1> QED
  BY <1>1, <1>2, FirstLists, FirstAsks, PTL DEF Spec, JumpShowsEvent
=============================================================================
