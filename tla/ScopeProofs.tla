----------------------------- MODULE ScopeProofs -----------------------------
(* What is proved about the trace the program writes of itself: its records  *)
(* lie in each other as the scopes did, the handler reads exactly these, and *)
(* in the index the event of a scope sits in that of the scope around it.    *)
EXTENDS TraceFileProofs

-----------------------------------------------------------------------------
(* Scopes.  The records of a file lie in each other as the scopes did: of two *)
(* scopes of a thread, the one that began first is over when the other begins *)
(* or holds it.                                                               *)
IsMade(r) ==
  /\ IsRecord(r) /\ r.what = "record" /\ r.id \in Nat \ {0} /\ r.inside \in Nat /\ r.tid \in Writers /\ r.dur >= 0
  /\ r.ph = "X" \/ (r.ph = "C" /\ r.dur = 0)
InFile(f) == {f[k] : k \in {j \in 1..Len(f) : f[j].what = "record"}}
OneOfEach(f) == \A j, k \in 1..Len(f) : f[j].what = "record" /\ f[k].what = "record" /\ f[j].id = f[k].id => j = k

ScopesOf(R, t) == {r \in R : r.ph = "X" /\ r.tid = t}
IsOver(a, b) == a.ts + a.dur <= b.ts
Holds(a, b) == a.ts <= b.ts /\ b.ts + b.dur <= a.ts + a.dur

\* b in a file of records R, seen from those of its thread that began before.
SitsIn(R, b) ==
  /\ \A a \in R : a.id = b.inside => a.tid = b.tid /\ a.ph = "X" /\ a.id < b.id
  /\ \A a \in ScopesOf(R, b.tid) : a.id < b.id =>
       \/ IsOver(a, b) /\ a.id # b.inside
       \/ Holds(a, b) /\ a.id <= b.inside /\ \E o \in R : o.id = b.inside
FileLies(R) == \A b \in R : b.ph = "X" => SitsIn(R, b)

\* The records of the call under way; the scopes written or about to be.
Pending(j) == IF j = Idle THEN {} ELSE {j.record}
Awaited(P) == {r \in P : r.ph = "X"}
MadeOf(R, P, t) == ScopesOf(R, t) \cup Awaited(P)

\* The open scopes of a thread, from the outermost on.
Climbs(s, now, last) ==
  /\ \A k \in 1..Len(s) : /\ s[k].active = TRUE /\ s[k].id \in 1..last /\ s[k].start \in Int /\ s[k].start <= now
                          /\ s[k].inside = IF k = 1 THEN 0 ELSE s[k - 1].id
  /\ \A i, k \in 1..Len(s) : i < k => s[i].id < s[k].id /\ s[i].start <= s[k].start

\* A scope that is over, seen from one that is not.
AgainstOpen(r, c) ==
  \/ r.id < c.id /\ r.ts + r.dur <= c.start
  \/ c.id < r.id /\ c.start <= r.ts /\ c.id <= r.inside
BesideOpen(r, M, s, now) ==
  /\ r.ts + r.dur <= now
  /\ \A k \in 1..Len(s) : AgainstOpen(r, s[k])
  /\ r.inside # 0 => r.inside < r.id /\ ((\E k \in 1..Len(s) : s[k].id = r.inside) \/ \E o \in M : o.id = r.inside)

\* The last scope of a thread to end, against those that ended before.
AgainstLast(a, p, A) ==
  /\ a.id < p.id => IsOver(a, p) /\ a.id # p.inside
  /\ p.id < a.id => Holds(p, a) /\ p.id <= a.inside /\ (a.inside = p.id \/ \E o \in A : o.id = a.inside)

ThreadLies(R, P, t, s, now, last) ==
  /\ Climbs(s, now, last)
  /\ \A r \in MadeOf(R, P, t) : BesideOpen(r, MadeOf(R, P, t), s, now)
  /\ \A p \in Awaited(P) : \A a \in ScopesOf(R, t) : AgainstLast(a, p, ScopesOf(R, t))

\* No two scopes or counters of any threads have the same identity.
Unique(R) == \A a, b \in R : a.id = b.id => a = b
PendingApart(R, P, last) ==
  /\ \A r \in R : r.id <= last
  /\ \A t \in Writers : \A p \in P[t] :
       /\ IsMade(p) /\ p.tid = t /\ p.id <= last
       /\ \A r \in R : r.id # p.id
       /\ \A u \in Writers : \A q \in P[u] : q.id = p.id => t = u
OpenApart(R, P, s) ==
  \A t \in Writers : \A k \in 1..Len(s[t]) :
    /\ \A r \in R : r.id # s[t][k].id
    /\ \A u \in Writers : \A p \in P[u] : p.id # s[t][k].id
    /\ \A u \in Writers : \A l \in 1..Len(s[u]) : s[u][l].id = s[t][k].id => t = u /\ k = l

Lively(R, P, s, now, last) ==
  /\ last \in Nat /\ now \in Int /\ PendingApart(R, P, last) /\ OpenApart(R, P, s)
  /\ \A t \in Writers : ThreadLies(R, P[t], t, s[t], now, last)

Pendings == [t \in Writers |-> Pending(job[t])]

FileKeeps(f) ==
  /\ \A r \in InFile(f) : IsMade(r)
  /\ OneOfEach(f) /\ FileLies(InFile(f))
RecordsLie ==
  /\ FileKeeps(file)
  /\ process = "starting" => begun = 0 /\ file = <<>> /\ \A t \in Writers : scopes[t] = <<>> /\ job[t] = Idle
  /\ process = "running" => enabled /\ Lively(InFile(file), Pendings, scopes, clock, begun)

-----------------------------------------------------------------------------
\* Time passes.
LEMMA LivelyOn ==
  ASSUME NEW R, NEW P, NEW s, NEW now, NEW last, Lively(R, P, s, now, last), \A r \in R : IsMade(r), NEW now1 \in Int, now1 >= now
  PROVE  Lively(R, P, s, now1, last)
<1>1. ASSUME NEW t \in Writers PROVE ThreadLies(R, P[t], t, s[t], now1, last)
  <2>1. ThreadLies(R, P[t], t, s[t], now, last) /\ now \in Int
    BY DEF Lively
  <2>2. Climbs(s[t], now1, last)
    BY <2>1, SMTT(30) DEF ThreadLies, Climbs
  <2>3. ASSUME NEW r \in MadeOf(R, P[t], t) PROVE BesideOpen(r, MadeOf(R, P[t], t), s[t], now1)
    <3>1. r \in R \/ r \in P[t]
      BY DEF MadeOf, ScopesOf, Awaited
    <3>2. IsMade(r)
      BY <3>1 DEF Lively, PendingApart
    <3>3. r.ts \in Int /\ r.dur \in Int
      BY <3>2 DEF IsMade, IsRecord
    <3> QED
      BY <2>1, <3>3 DEF ThreadLies, BesideOpen
  <2> QED
    BY <2>1, <2>2, <2>3 DEF ThreadLies
<1> QED
  BY <1>1 DEF Lively

\* A thread that does nothing, while another begins a scope or a counter.
LEMMA ThreadWaits ==
  ASSUME NEW R, NEW P, NEW t, NEW s, NEW now, NEW last \in Nat, ThreadLies(R, P, t, s, now, last)
  PROVE  ThreadLies(R, P, t, s, now, last + 1)
<1>1. Climbs(s, now, last)
  BY DEF ThreadLies
<1>2. \A i \in 1..last : i \in 1..(last + 1)
  OBVIOUS
<1>3. Climbs(s, now, last + 1)
  BY <1>1, <1>2, Zenon DEF Climbs
<1> QED
  BY <1>1, <1>3 DEF ThreadLies

\* A scope begins in the last open one of its thread.
BeginsIn(s, t, s1, c, q, now, last) ==
  /\ Len(s[t]) \in Nat
  /\ c.id = last + 1 /\ c.start = now /\ c.active = TRUE
  /\ c.inside = IF Len(s[t]) = 0 THEN 0 ELSE s[t][Len(s[t])].id
  /\ Len(q) = Len(s[t]) + 1 /\ (\A k \in 1..Len(s[t]) : q[k] = s[t][k]) /\ q[Len(q)] = c
  /\ \A u \in Writers : s1[u] = IF u = t THEN q ELSE s[u]

LEMMA ScopeBegins ==
  ASSUME NEW R, NEW P, NEW s, NEW now, NEW last, Lively(R, P, s, now, last), \A r \in R : IsMade(r),
         NEW t \in Writers, NEW s1, NEW c, NEW q, BeginsIn(s, t, s1, c, q, now, last)
  PROVE  Lively(R, P, s1, now, last + 1)
<1> USE DEF BeginsIn
<1>0. last \in Nat /\ now \in Int
  BY DEF Lively
<1>1. PendingApart(R, P, last + 1)
  <2>1. \A r \in R : r.id \in Nat
    BY DEF IsMade
  <2>2. \A u \in Writers : \A p \in P[u] : p.id \in Nat
    BY DEF Lively, PendingApart, IsMade
  <2> QED
    BY <1>0, <2>1, <2>2 DEF Lively, PendingApart
<1>2. \A u \in Writers : \A k \in 1..Len(s[u]) : s[u][k].id \in 1..last
  BY DEF Lively, ThreadLies, Climbs
<1>3. OpenApart(R, P, s1)
  <2> SUFFICES ASSUME NEW u \in Writers, NEW k \in 1..Len(s1[u])
               PROVE  /\ \A r \in R : r.id # s1[u][k].id
                      /\ \A v \in Writers : \A p \in P[v] : p.id # s1[u][k].id
                      /\ \A v \in Writers : \A l \in 1..Len(s1[v]) : s1[v][l].id = s1[u][k].id => u = v /\ k = l
    BY DEF OpenApart
  <2>1. \A v \in Writers : \A l \in 1..Len(s1[v]) :
          (l \in 1..Len(s[v]) /\ s1[v][l] = s[v][l]) \/ (v = t /\ l = Len(q) /\ s1[v][l] = c)
    OBVIOUS
  <2>2. (\A r \in R : r.id < last + 1) /\ \A v \in Writers : \A p \in P[v] : p.id < last + 1
    <3>1. (\A r \in R : r.id <= last /\ r.id \in Nat) /\ \A v \in Writers : \A p \in P[v] : p.id <= last /\ p.id \in Nat
      BY DEF Lively, PendingApart, IsMade
    <3> QED
      BY <1>0, <3>1
  <2>3. CASE u = t /\ k = Len(q) /\ s1[u][k] = c
    <3>1. ASSUME NEW v \in Writers, NEW l \in 1..Len(s1[v]), s1[v][l].id = s1[u][k].id PROVE u = v /\ k = l
      BY <1>0, <1>2, <2>1, <2>3, <3>1
    <3> QED
      BY <1>0, <2>2, <2>3, <3>1
  <2>4. CASE k \in 1..Len(s[u]) /\ s1[u][k] = s[u][k]
    <3>0. OpenApart(R, P, s)
      BY DEF Lively
    <3>1. ASSUME NEW v \in Writers, NEW l \in 1..Len(s1[v]), s1[v][l].id = s1[u][k].id PROVE u = v /\ k = l
      <4>1. s1[u][k].id \in 1..last
        BY <1>2, <2>4
      <4>2. l \in 1..Len(s[v]) /\ s1[v][l] = s[v][l]
        BY <1>0, <2>1, <3>1, <4>1, SMTT(30)
      <4> QED
        BY <2>4, <3>0, <3>1, <4>2 DEF OpenApart
    <3> QED
      BY <2>4, <3>0, <3>1 DEF OpenApart
  <2> QED
    BY <2>1, <2>3, <2>4
<1>4. ASSUME NEW u \in Writers PROVE ThreadLies(R, P[u], u, s1[u], now, last + 1)
  <2>1. ThreadLies(R, P[u], u, s[u], now, last)
    BY DEF Lively
  <2>2. CASE u # t
    BY <1>0, <2>1, <2>2, ThreadWaits
  <2>3. CASE u = t
    <3> DEFINE n == Len(s[t])
               M == MadeOf(R, P[t], t)
    <3>0. s1[u] = q /\ Climbs(s[t], now, last) /\ n \in Nat
      BY <2>1, <2>3 DEF ThreadLies
    <3>a. /\ Len(q) = n + 1 /\ q[n + 1] = c /\ \A k \in 1..n : q[k] = s[t][k]
          /\ c.inside = IF n = 0 THEN 0 ELSE s[t][n].id
      OBVIOUS
    <3>b. /\ \A k \in 1..n : /\ s[t][k].active = TRUE /\ s[t][k].id \in 1..last /\ s[t][k].start \in Int /\ s[t][k].start <= now
                             /\ s[t][k].inside = IF k = 1 THEN 0 ELSE s[t][k - 1].id
          /\ \A i, k \in 1..n : i < k => s[t][i].id < s[t][k].id /\ s[t][i].start <= s[t][k].start
      BY <3>0 DEF Climbs
    <3>1. Climbs(q, now, last + 1)
      <4>1. ASSUME NEW k \in 1..Len(q)
            PROVE  /\ q[k].active = TRUE /\ q[k].id \in 1..last + 1 /\ q[k].start \in Int /\ q[k].start <= now
                   /\ q[k].inside = IF k = 1 THEN 0 ELSE q[k - 1].id
        <5> HIDE DEF n
        <5>1. CASE k = n + 1
          <6>1. q[k] = c /\ (n # 0 => n \in 1..n /\ k - 1 = n /\ k # 1 /\ q[n] = s[t][n])
            BY <3>0, <3>a, <5>1
          <6>2. c.inside = IF k = 1 THEN 0 ELSE q[k - 1].id
            BY <3>0, <3>a, <5>1, <6>1
          <6> QED
            BY <1>0, <6>1, <6>2
        <5>2. CASE k \in 1..n
          <6>1. q[k] = s[t][k] /\ (k # 1 => k - 1 \in 1..n /\ q[k - 1] = s[t][k - 1])
            BY <3>0, <3>a, <5>2
          <6> QED
            BY <1>0, <3>b, <5>2, <6>1, SMTT(30)
        <5>3. k = n + 1 \/ k \in 1..n
          BY <3>0, <3>a
        <5> QED
          BY <5>1, <5>2, <5>3
      <4>2. ASSUME NEW i \in 1..Len(q), NEW k \in 1..Len(q), i < k PROVE q[i].id < q[k].id /\ q[i].start <= q[k].start
        <5>1. i \in 1..n
          BY <3>0, <4>2
        <5>2. CASE k = n + 1
          <6>1. q[k] = c /\ q[i] = s[t][i]
            BY <3>a, <5>1, <5>2
          <6> QED
            BY <1>0, <3>b, <5>1, <6>1
        <5>3. CASE k \in 1..n
          BY <3>a, <3>b, <4>2, <5>1, <5>3
        <5> QED
          BY <3>0, <3>a, <5>2, <5>3
      <4> QED
        BY <4>1, <4>2 DEF Climbs
    <3>2. ASSUME NEW r \in M PROVE BesideOpen(r, M, q, now)
      <4>1. BesideOpen(r, M, s[t], now)
        BY <2>1, <2>3 DEF ThreadLies
      <4>2. r \in R \/ r \in P[t]
        BY DEF MadeOf, ScopesOf, Awaited
      <4>3. r.id \in Nat /\ r.id <= last
        BY <4>2 DEF Lively, PendingApart, IsMade
      <4>4. AgainstOpen(r, c)
        BY <1>0, <4>1, <4>3 DEF BesideOpen, AgainstOpen
      <4>5. \A k \in 1..Len(q) : AgainstOpen(r, q[k])
        BY <3>0, <4>1, <4>4 DEF BesideOpen
      <4> QED
        BY <3>0, <4>1, <4>5 DEF BesideOpen
    <3> QED
      BY <2>1, <2>3, <3>0, <3>1, <3>2 DEF ThreadLies
  <2> QED
    BY <2>2, <2>3
<1> QED
  BY <1>0, <1>1, <1>3, <1>4 DEF Lively

\* A counter is about to be written.
LEMMA CounterBegins ==
  ASSUME NEW R, NEW P, NEW s, NEW now, NEW last, Lively(R, P, s, now, last), \A r \in R : IsMade(r),
         NEW t \in Writers, P[t] = {}, NEW P1, NEW p, IsMade(p), p.ph = "C", p.tid = t, p.id = last + 1,
         \A u \in Writers : P1[u] = IF u = t THEN {p} ELSE P[u]
  PROVE  Lively(R, P1, s, now, last + 1)
<1>0. last \in Nat /\ now \in Int
  BY DEF Lively
<1>1. (\A r \in R : r.id <= last /\ r.id \in Nat) /\ \A v \in Writers : \A q \in P[v] : q.id <= last /\ q.id \in Nat
  BY DEF Lively, PendingApart, IsMade
<1>2. PendingApart(R, P1, last + 1)
  <2>1. \A r \in R : r.id <= last + 1
    BY <1>0, <1>1
  <2>2. ASSUME NEW u \in Writers, NEW a \in P1[u]
        PROVE  /\ IsMade(a) /\ a.tid = u /\ a.id <= last + 1
               /\ \A r \in R : r.id # a.id
               /\ \A v \in Writers : \A b \in P1[v] : b.id = a.id => u = v
    <3>0. \A v \in Writers : \A b \in P1[v] : (v = t /\ b = p) \/ b \in P[v]
      OBVIOUS
    <3>1. CASE u = t /\ a = p
      BY <1>0, <1>1, <3>0, <3>1
    <3>2. CASE a \in P[u]
      <4>1. IsMade(a) /\ a.tid = u /\ a.id <= last /\ (\A r \in R : r.id # a.id) /\ \A v \in Writers : \A b \in P[v] : b.id = a.id => u = v
        BY <3>2 DEF Lively, PendingApart
      <4>2. a.id \in Nat
        BY <1>1, <3>2
      <4> QED
        BY <1>0, <3>0, <4>1, <4>2
    <3> QED
      BY <3>0, <3>1, <3>2
  <2> QED
    BY <2>1, <2>2 DEF PendingApart
<1>3. OpenApart(R, P1, s)
  <2>1. \A u \in Writers : \A k \in 1..Len(s[u]) : s[u][k].id \in 1..last
    BY DEF Lively, ThreadLies, Climbs
  <2>2. \A v \in Writers : \A b \in P1[v] : b.id = last + 1 \/ b \in P[v]
    OBVIOUS
  <2>3. OpenApart(R, P, s)
    BY DEF Lively
  <2>4. ASSUME NEW u \in Writers, NEW k \in 1..Len(s[u]), NEW v \in Writers, NEW b \in P1[v] PROVE b.id # s[u][k].id
    <3>1. CASE b \in P[v]
      BY <2>3, <3>1 DEF OpenApart
    <3>2. CASE b.id = last + 1
      BY <1>0, <2>1, <3>2
    <3> QED
      BY <2>2, <3>1, <3>2
  <2> QED
    BY <2>3, <2>4 DEF OpenApart
<1>4. ASSUME NEW u \in Writers PROVE ThreadLies(R, P1[u], u, s[u], now, last + 1)
  <2>1. Awaited(P1[u]) = Awaited(P[u])
    BY DEF Awaited
  <2>2. ThreadLies(R, P[u], u, s[u], now, last)
    BY DEF Lively
  <2>3. ThreadLies(R, P1[u], u, s[u], now, last)
    BY <2>1, <2>2 DEF ThreadLies, MadeOf
  <2> QED
    BY <1>0, <2>3, ThreadWaits
<1> QED
  BY <1>0, <1>2, <1>3, <1>4 DEF Lively

\* The last scope of a thread ends: it is to be written.
EndsIn(P, s, t, n, P1, s1, p, q, now) ==
  /\ P[t] = {} /\ n \in Nat /\ Len(s[t]) = n /\ n # 0
  /\ IsMade(p) /\ p.ph = "X" /\ p.tid = t
  /\ p.id = s[t][n].id /\ p.ts = s[t][n].start /\ p.dur = now - s[t][n].start /\ p.inside = s[t][n].inside
  /\ Len(q) = n - 1 /\ \A k \in 1..n - 1 : q[k] = s[t][k]
  /\ \A u \in Writers : P1[u] = IF u = t THEN {p} ELSE P[u]
  /\ \A u \in Writers : s1[u] = IF u = t THEN q ELSE s[u]

LEMMA ScopeEnds ==
  ASSUME NEW R, NEW P, NEW s, NEW now, NEW last, Lively(R, P, s, now, last), \A r \in R : IsMade(r),
         NEW t \in Writers, NEW n, NEW P1, NEW s1, NEW p, NEW q, EndsIn(P, s, t, n, P1, s1, p, q, now)
  PROVE  Lively(R, P1, s1, now, last)
<1> USE DEF EndsIn
<1>0. last \in Nat /\ now \in Int /\ n \in 1..n
  BY DEF Lively
<1>1. OpenApart(R, P, s) /\ PendingApart(R, P, last)
  BY DEF Lively
<1>2. Climbs(s[t], now, last)
  BY DEF Lively, ThreadLies
<1>a. s[t][n].id \in 1..last /\ s[t][n].start \in Int /\ s[t][n].start <= now
  BY <1>0, <1>2 DEF Climbs
<1>3. PendingApart(R, P1, last)
  <2>1. p.id <= last /\ (\A r \in R : r.id # p.id) /\ \A u \in Writers : \A a \in P[u] : a.id # p.id
    BY <1>0, <1>1, <1>a DEF OpenApart
  <2>2. \A u \in Writers : \A a \in P1[u] : (u = t /\ a = p) \/ a \in P[u]
    OBVIOUS
  <2>3. ASSUME NEW u \in Writers, NEW a \in P1[u]
        PROVE  /\ IsMade(a) /\ a.tid = u /\ a.id <= last
               /\ \A r \in R : r.id # a.id
               /\ \A v \in Writers : \A b \in P1[v] : b.id = a.id => u = v
    <3>1. CASE u = t /\ a = p
      BY <2>1, <2>2, <3>1
    <3>2. CASE a \in P[u]
      <4>1. IsMade(a) /\ a.tid = u /\ a.id <= last /\ (\A r \in R : r.id # a.id) /\ \A v \in Writers : \A b \in P[v] : b.id = a.id => u = v
        BY <1>1, <3>2 DEF PendingApart
      <4> QED
        BY <2>1, <2>2, <3>2, <4>1
    <3> QED
      BY <2>2, <3>1, <3>2
  <2> QED
    BY <1>1, <2>3 DEF PendingApart
<1>4. OpenApart(R, P1, s1)
  <2>1. \A u \in Writers : \A k \in 1..Len(s1[u]) : k \in 1..Len(s[u]) /\ s1[u][k] = s[u][k] /\ (u = t => k # n)
    BY <1>0
  <2> SUFFICES ASSUME NEW u \in Writers, NEW k \in 1..Len(s1[u])
               PROVE  /\ \A r \in R : r.id # s1[u][k].id
                      /\ \A v \in Writers : \A a \in P1[v] : a.id # s1[u][k].id
                      /\ \A v \in Writers : \A l \in 1..Len(s1[v]) : s1[v][l].id = s1[u][k].id => u = v /\ k = l
    BY DEF OpenApart
  <2>2. k \in 1..Len(s[u]) /\ s1[u][k] = s[u][k] /\ (u = t => k # n)
    BY <2>1
  <2>3. ASSUME NEW v \in Writers, NEW a \in P1[v] PROVE a.id # s1[u][k].id
    <3>1. CASE a \in P[v]
      BY <1>1, <2>2, <3>1 DEF OpenApart
    <3>2. CASE v = t /\ a = p
      BY <1>0, <1>1, <2>2, <3>2 DEF OpenApart
    <3> QED
      BY <3>1, <3>2
  <2>4. ASSUME NEW v \in Writers, NEW l \in 1..Len(s1[v]), s1[v][l].id = s1[u][k].id PROVE u = v /\ k = l
    <3>1. l \in 1..Len(s[v]) /\ s1[v][l] = s[v][l]
      BY <2>1
    <3> QED
      BY <1>1, <2>2, <2>4, <3>1 DEF OpenApart
  <2> QED
    BY <1>1, <2>2, <2>3, <2>4 DEF OpenApart
<1>5. ASSUME NEW u \in Writers PROVE ThreadLies(R, P1[u], u, s1[u], now, last)
  <2>1. ThreadLies(R, P[u], u, s[u], now, last)
    BY DEF Lively
  <2>2. CASE u # t
    BY <2>1, <2>2
  <2>3. CASE u = t
    <3> DEFINE A == ScopesOf(R, t)
               M == MadeOf(R, P1[t], t)
    <3>1. MadeOf(R, P[t], t) = A /\ M = A \cup {p} /\ Awaited(P1[t]) = {p} /\ s1[u] = q
      BY <2>3 DEF MadeOf, Awaited
    <3>2. \A k \in 1..n : /\ s[t][k].active = TRUE /\ s[t][k].id \in 1..last /\ s[t][k].start \in Int /\ s[t][k].start <= now
                          /\ s[t][k].inside = IF k = 1 THEN 0 ELSE s[t][k - 1].id
      BY <1>2 DEF Climbs
    <3>3. \A i, k \in 1..n : i < k => s[t][i].id < s[t][k].id /\ s[t][i].start <= s[t][k].start
      BY <1>2 DEF Climbs
    <3>4. \A a \in A : a \in R /\ IsMade(a) /\ a.id \in Nat \ {0} /\ a.ts \in Int /\ a.dur \in Int /\ a.inside \in Nat
      BY DEF ScopesOf, IsMade, IsRecord
    <3>5. \A a \in A : BesideOpen(a, A, s[t], now)
      <4>1. ThreadLies(R, P[t], t, s[t], now, last)
        BY <2>1, <2>3, Zenon
      <4>2. \A a \in MadeOf(R, P[t], t) : BesideOpen(a, MadeOf(R, P[t], t), s[t], now)
        BY <4>1, Zenon DEF ThreadLies
      <4> QED
        BY <3>1, <4>2, Zenon
    <3>6. p.inside = 0 \/ (n - 1 \in 1..n - 1 /\ p.inside = s[t][n - 1].id /\ q[n - 1] = s[t][n - 1])
      BY <1>0, <3>2
    <3>7. \A k \in 1..n - 1 : k \in 1..n /\ q[k] = s[t][k] /\ s[t][k].id < p.id /\ s[t][k].start <= p.ts
      BY <1>0, <3>3
    <3>8. Climbs(q, now, last)
      <4>1. ASSUME NEW k \in 1..n - 1
            PROVE  /\ q[k].active = TRUE /\ q[k].id \in 1..last /\ q[k].start \in Int /\ q[k].start <= now
                   /\ q[k].inside = IF k = 1 THEN 0 ELSE q[k - 1].id
        <5>1. k \in 1..n /\ q[k] = s[t][k] /\ (k # 1 => k - 1 \in 1..n - 1 /\ q[k - 1] = s[t][k - 1])
          BY <1>0, <3>7
        <5>2. /\ s[t][k].active = TRUE /\ s[t][k].id \in 1..last /\ s[t][k].start \in Int /\ s[t][k].start <= now
              /\ s[t][k].inside = IF k = 1 THEN 0 ELSE s[t][k - 1].id
          BY <3>2, <5>1
        <5>3. q[k].inside = IF k = 1 THEN 0 ELSE q[k - 1].id
          BY <5>1, <5>2
        <5> QED
          BY <5>1, <5>2, <5>3
      <4>2. ASSUME NEW i \in 1..n - 1, NEW k \in 1..n - 1, i < k PROVE q[i].id < q[k].id /\ q[i].start <= q[k].start
        BY <3>3, <3>7, <4>2
      <4> QED
        BY <4>1, <4>2 DEF Climbs
    <3>9. BesideOpen(p, M, q, now)
      <4>1. p.ts + p.dur <= now
        BY <1>0, <1>a
      <4>2. ASSUME NEW k \in 1..n - 1 PROVE AgainstOpen(p, q[k])
        <5>1. n - 1 \in 1..n - 1 /\ p.inside = s[t][n - 1].id
          BY <1>0, <3>2
        <5>2. q[k].id <= p.inside
          <6>1. CASE k = n - 1
            BY <3>2, <3>7, <5>1, <6>1
          <6>2. CASE k < n - 1
            <7>1. k \in 1..n /\ n - 1 \in 1..n /\ q[k] = s[t][k]
              BY <1>0, <3>7, <5>1
            <7>2. s[t][k].id < s[t][n - 1].id
              BY <3>3, <6>2, <7>1
            <7>3. s[t][k].id \in 1..last /\ s[t][n - 1].id \in 1..last
              BY <3>2, <7>1
            <7> QED
              BY <1>0, <5>1, <7>1, <7>2, <7>3
          <6>3. k = n - 1 \/ k < n - 1
            BY <1>0
          <6> QED
            BY <6>1, <6>2, <6>3
        <5> QED
          BY <3>7, <5>2 DEF AgainstOpen
      <4>3. p.inside # 0 => p.inside < p.id /\ \E k \in 1..Len(q) : q[k].id = p.inside
        BY <3>6, <3>7
      <4> QED
        BY <4>1, <4>2, <4>3 DEF BesideOpen
    <3>10. ASSUME NEW a \in A PROVE BesideOpen(a, M, q, now)
      <4>1. BesideOpen(a, A, s[t], now)
        BY <3>5
      <4>2. \A k \in 1..Len(q) : AgainstOpen(a, q[k])
        BY <3>7, <4>1 DEF BesideOpen
      <4>3. ASSUME a.inside # 0 PROVE (\E k \in 1..Len(q) : q[k].id = a.inside) \/ \E o \in M : o.id = a.inside
        <5>1. CASE \E o \in A : o.id = a.inside
          BY <3>1, <5>1
        <5>2. CASE \E k \in 1..n : s[t][k].id = a.inside
          <6>1. PICK k \in 1..n : s[t][k].id = a.inside
            BY <5>2
          <6>2. k = n \/ k \in 1..n - 1
            BY <1>0
          <6> QED
            BY <3>1, <3>7, <6>1, <6>2
        <5> QED
          BY <4>1, <4>3, <5>1, <5>2 DEF BesideOpen
      <4> QED
        BY <4>1, <4>2, <4>3 DEF BesideOpen
    <3>11. ASSUME NEW a \in A PROVE AgainstLast(a, p, A)
      <4>1. BesideOpen(a, A, s[t], now) /\ AgainstOpen(a, s[t][n])
        BY <1>0, <3>5 DEF BesideOpen
      <4>2. a.id # p.inside
        <5>1. \A k \in 1..n : a.id # s[t][k].id
          BY <1>1, <3>4 DEF OpenApart
        <5> QED
          BY <3>4, <3>6, <3>7, <5>1
      <4>3. ASSUME a.id < p.id PROVE IsOver(a, p)
        BY <1>a, <3>4, <4>1, <4>3 DEF AgainstOpen, IsOver
      <4>4. ASSUME p.id < a.id PROVE Holds(p, a) /\ p.id <= a.inside /\ (a.inside = p.id \/ \E o \in A : o.id = a.inside)
        <5>1. p.ts <= a.ts /\ p.id <= a.inside
          BY <1>a, <3>4, <4>1, <4>4 DEF AgainstOpen
        <5>2. a.ts + a.dur <= now /\ p.ts + p.dur = now
          BY <1>0, <1>a, <4>1 DEF BesideOpen
        <5>3. a.inside # 0
          BY <1>a, <3>4, <5>1
        <5>4. ASSUME NEW k \in 1..n, s[t][k].id = a.inside PROVE a.inside = p.id
          <6>1. k = n \/ k \in 1..n - 1
            BY <1>0
          <6> QED
            BY <1>a, <3>2, <3>7, <5>1, <5>4, <6>1
        <5> QED
          BY <4>1, <5>1, <5>2, <5>3, <5>4 DEF BesideOpen, Holds
      <4> QED
        BY <4>2, <4>3, <4>4 DEF AgainstLast
    <3>12. \A r \in M : BesideOpen(r, M, q, now)
      BY <3>1, <3>9, <3>10
    <3> HIDE DEF A
    <3>13. \A b \in Awaited(P1[t]) : \A a \in A : AgainstLast(a, b, A)
      BY <3>1, <3>11
    <3> QED
      BY <2>3, <3>1, <3>8, <3>12, <3>13 DEF ThreadLies, A
  <2> QED
    BY <2>2, <2>3
<1> QED
  BY <1>0, <1>3, <1>4, <1>5 DEF Lively

\* The enclosing scope of one that is over, if its record is about to be written.
LEMMA InsideNext ==
  ASSUME NEW R, NEW P, NEW s, NEW now, NEW last, Lively(R, P, s, now, last), \A r \in R : IsMade(r),
         NEW t \in Writers, NEW p, P[t] = {p},
         NEW u \in Writers, NEW b \in ScopesOf(R, u), p.id = b.inside
  PROVE  p.tid = u /\ p.ph = "X" /\ p.id < b.id
<1>1. IsMade(p) /\ p.tid = t /\ (\A r \in R : r.id # p.id) /\ \A v \in Writers : \A q \in P[v] : q.id = p.id => t = v
  BY DEF Lively, PendingApart
<1>2. BesideOpen(b, MadeOf(R, P[u], u), s[u], now)
  BY DEF Lively, ThreadLies, MadeOf
<1>3. b.inside # 0
  BY <1>1 DEF IsMade
<1>4. \A k \in 1..Len(s[u]) : s[u][k].id # p.id
  BY DEF Lively, OpenApart
<1>5. PICK o \in MadeOf(R, P[u], u) : o.id = p.id
  BY <1>2, <1>3, <1>4 DEF BesideOpen
<1>6. o \in P[u] /\ o.ph = "X"
  BY <1>1, <1>5 DEF MadeOf, ScopesOf, Awaited
<1>7. u = t /\ o = p
  BY <1>1, <1>5, <1>6
<1> QED
  BY <1>1, <1>2, <1>3, <1>6, <1>7 DEF BesideOpen

\* A record is written.
LEMMA RecordLies ==
  ASSUME NEW R, NEW P, NEW s, NEW now, NEW last, Lively(R, P, s, now, last), \A r \in R : IsMade(r), Unique(R), FileLies(R),
         NEW t \in Writers, NEW p, P[t] = {p}
  PROVE  FileLies(R \cup {p})
<1> DEFINE G == R \cup {p}
<1>1. /\ IsMade(p) /\ p.tid = t /\ p.id <= last /\ (\A r \in R : r.id # p.id)
      /\ \A u \in Writers : \A q \in P[u] : q.id = p.id => t = u
  BY DEF Lively, PendingApart
<1>2. ThreadLies(R, P[t], t, s[t], now, last) /\ OpenApart(R, P, s)
  BY DEF Lively
<1>3. ASSUME NEW b \in R, b.ph = "X" PROVE SitsIn(G, b)
  <2>0. IsMade(b) /\ b \in ScopesOf(R, b.tid) /\ b.tid \in Writers
    BY <1>3 DEF ScopesOf, IsMade
  <2>1. SitsIn(R, b)
    BY <1>3 DEF FileLies
  <2>2. ASSUME NEW a \in G, a.id = b.inside PROVE a.tid = b.tid /\ a.ph = "X" /\ a.id < b.id
    <3>1. CASE a \in R
      BY <2>1, <2>2, <3>1 DEF SitsIn
    <3>2. CASE a = p
      BY <2>0, <2>2, <3>2, InsideNext
    <3> QED
      BY <3>1, <3>2
  <2>3. ASSUME NEW a \in ScopesOf(G, b.tid), a.id < b.id
        PROVE  \/ IsOver(a, b) /\ a.id # b.inside
               \/ Holds(a, b) /\ a.id <= b.inside /\ \E o \in G : o.id = b.inside
    <3>1. CASE a \in R
      <4>1. a \in ScopesOf(R, b.tid)
        BY <3>1 DEF ScopesOf
      <4> QED
        BY <2>1, <2>3, <4>1 DEF SitsIn
    <3>2. CASE a = p
      <4>1. p.tid = b.tid /\ p.ph = "X"
        BY <3>2 DEF ScopesOf
      <4>2. AgainstLast(b, p, ScopesOf(R, t))
        BY <1>1, <1>2, <2>0, <4>1 DEF ThreadLies, Awaited
      <4>3. Holds(p, b) /\ p.id <= b.inside /\ (b.inside = p.id \/ \E o \in ScopesOf(R, t) : o.id = b.inside)
        BY <2>3, <3>2, <4>2 DEF AgainstLast
      <4> QED
        BY <3>2, <4>3 DEF ScopesOf
    <3> QED
      BY <3>1, <3>2 DEF ScopesOf
  <2> QED
    BY <2>2, <2>3 DEF SitsIn
<1>4. ASSUME p.ph = "X" PROVE SitsIn(G, p)
  <2> DEFINE A == ScopesOf(R, t)
  <2>1. Awaited(P[t]) = {p} /\ MadeOf(R, P[t], t) = A \cup {p}
    BY <1>4 DEF Awaited, MadeOf
  <2>2. BesideOpen(p, A \cup {p}, s[t], now)
    BY <1>2, <2>1 DEF ThreadLies
  <2>3. ASSUME NEW a \in G, a.id = p.inside PROVE a.tid = p.tid /\ a.ph = "X" /\ a.id < p.id
    <3>0. a.id \in Nat \ {0}
      BY <1>1 DEF IsMade
    <3>1. p.inside < p.id /\ ((\E k \in 1..Len(s[t]) : s[t][k].id = p.inside) \/ \E o \in A \cup {p} : o.id = p.inside)
      BY <2>2, <2>3, <3>0 DEF BesideOpen
    <3>2. a # p /\ p.inside # p.id
      BY <1>1, <2>3, <3>1 DEF IsMade
    <3>3. a \in R /\ \A k \in 1..Len(s[t]) : s[t][k].id # a.id
      BY <1>2, <3>2 DEF OpenApart
    <3>4. PICK o \in A : o.id = p.inside
      BY <2>3, <3>1, <3>2, <3>3
    <3>5. o = a
      BY <2>3, <3>3, <3>4 DEF ScopesOf, Unique
    <3> QED
      BY <1>1, <2>3, <3>1, <3>4, <3>5 DEF ScopesOf
  <2>4. ASSUME NEW a \in ScopesOf(G, p.tid), a.id < p.id PROVE IsOver(a, p) /\ a.id # p.inside
    <3>1. a # p
      BY <1>1, <2>4 DEF IsMade
    <3>2. a \in A
      BY <1>1, <3>1 DEF ScopesOf
    <3>3. AgainstLast(a, p, A)
      BY <1>2, <2>1, <3>2 DEF ThreadLies
    <3> QED
      BY <2>4, <3>3 DEF AgainstLast
  <2> QED
    BY <2>3, <2>4 DEF SitsIn
<1> QED
  BY <1>3, <1>4 DEF FileLies

LEMMA RecordWritten ==
  ASSUME NEW R, NEW P, NEW s, NEW now, NEW last, Lively(R, P, s, now, last),
         NEW t \in Writers, NEW p, P[t] = {p}, NEW P1, \A u \in Writers : P1[u] = IF u = t THEN {} ELSE P[u]
  PROVE  Lively(R \cup {p}, P1, s, now, last)
<1> DEFINE G == R \cup {p}
<1>1. PendingApart(R, P, last) /\ OpenApart(R, P, s)
  BY DEF Lively
<1>2. /\ IsMade(p) /\ p.tid = t /\ p.id <= last /\ (\A r \in R : r.id # p.id)
      /\ \A u \in Writers : \A q \in P[u] : q.id = p.id => t = u
  BY <1>1 DEF PendingApart
<1>3. PendingApart(G, P1, last)
  <2>1. \A r \in G : r.id <= last
    BY <1>1, <1>2 DEF PendingApart
  <2>2. ASSUME NEW u \in Writers, NEW a \in P1[u]
        PROVE  /\ IsMade(a) /\ a.tid = u /\ a.id <= last
               /\ \A r \in G : r.id # a.id
               /\ \A v \in Writers : \A b \in P1[v] : b.id = a.id => u = v
    <3>1. u # t /\ a \in P[u] /\ \A v \in Writers : \A b \in P1[v] : b \in P[v]
      OBVIOUS
    <3>2. IsMade(a) /\ a.tid = u /\ a.id <= last /\ (\A r \in R : r.id # a.id) /\ \A v \in Writers : \A b \in P[v] : b.id = a.id => u = v
      BY <1>1, <3>1 DEF PendingApart
    <3>3. p.id # a.id
      BY <1>2, <3>1
    <3> QED
      BY <3>1, <3>2, <3>3
  <2> QED
    BY <2>1, <2>2 DEF PendingApart
<1>4. OpenApart(G, P1, s)
  <2>1. \A v \in Writers : \A b \in P1[v] : b \in P[v]
    OBVIOUS
  <2>2. p \in P[t]
    OBVIOUS
  <2> QED
    BY <1>1, <2>1, <2>2 DEF OpenApart
<1>5. ASSUME NEW u \in Writers PROVE ThreadLies(G, P1[u], u, s[u], now, last)
  <2>1. ThreadLies(R, P[u], u, s[u], now, last)
    BY DEF Lively
  <2>2. MadeOf(G, P1[u], u) = MadeOf(R, P[u], u)
    <3>1. CASE u # t
      BY <1>2, <3>1 DEF MadeOf, ScopesOf
    <3>2. CASE u = t
      BY <1>2, <3>2 DEF MadeOf, ScopesOf, Awaited
    <3> QED
      BY <3>1, <3>2
  <2>3. \A q \in Awaited(P1[u]) : \A a \in ScopesOf(G, u) : AgainstLast(a, q, ScopesOf(G, u))
    <3>1. CASE u # t
      <4>1. ScopesOf(G, u) = ScopesOf(R, u) /\ P1[u] = P[u]
        BY <1>2, <3>1 DEF ScopesOf
      <4> QED
        BY <2>1, <4>1 DEF ThreadLies
    <3>2. CASE u = t
      BY <3>2 DEF Awaited
    <3> QED
      BY <3>1, <3>2
  <2> QED
    BY <2>1, <2>2, <2>3 DEF ThreadLies
<1> QED
  BY <1>3, <1>4, <1>5 DEF Lively

LEMMA UniqueInFile == ASSUME NEW f, OneOfEach(f) PROVE Unique(InFile(f))
BY DEF OneOfEach, Unique, InFile

LEMMA MarkAdded ==
  ASSUME NEW f, f \in Seq(ItemsOf(f)), NEW x, x.what # "record", FileKeeps(f)
  PROVE  FileKeeps(Append(f, x)) /\ InFile(Append(f, x)) = InFile(f)
<1>1. PICK g : g = Append(f, x)
  OBVIOUS
<1>2. Extended(f, g, x)
  BY <1>1, Printed
<1>3. \A k \in 1..Len(g) : g[k].what = "record" => k \in 1..Len(f) /\ g[k] = f[k]
  <2>1. \A k \in 1..Len(g) : k \in 1..Len(f) \/ k = Len(g)
    BY <1>2 DEF Extended
  <2> QED
    BY <1>2, <2>1 DEF Extended
<1>4. \A k \in 1..Len(f) : k \in 1..Len(g) /\ g[k] = f[k]
  BY <1>2 DEF Extended
<1>5. InFile(g) = InFile(f)
  BY <1>3, <1>4 DEF InFile
<1>6. OneOfEach(g)
  BY <1>3 DEF FileKeeps, OneOfEach
<1> QED
  BY <1>1, <1>5, <1>6 DEF FileKeeps

LEMMA RecordAdded ==
  ASSUME NEW f, f \in Seq(ItemsOf(f)), NEW x, IsMade(x), OneOfEach(f), \A r \in InFile(f) : r.id # x.id
  PROVE  OneOfEach(Append(f, x)) /\ InFile(Append(f, x)) = InFile(f) \cup {x}
<1>1. PICK g : g = Append(f, x)
  OBVIOUS
<1>2. Extended(f, g, x) /\ x.what = "record"
  BY <1>1, Printed DEF IsMade
<1>3. \A k \in 1..Len(g) : (k \in 1..Len(f) /\ g[k] = f[k]) \/ (k = Len(g) /\ g[k] = x)
  <2>1. \A k \in 1..Len(g) : k \in 1..Len(f) \/ k = Len(g)
    BY <1>2 DEF Extended
  <2> QED
    BY <1>2, <2>1 DEF Extended
<1>4. (\A k \in 1..Len(f) : k \in 1..Len(g) /\ g[k] = f[k]) /\ Len(g) \in 1..Len(g) /\ g[Len(g)] = x
  BY <1>2 DEF Extended
<1>5. InFile(g) = InFile(f) \cup {x}
  <2>1. ASSUME NEW r \in InFile(g) PROVE r \in InFile(f) \cup {x}
    BY <1>3, <2>1 DEF InFile
  <2>2. ASSUME NEW r \in InFile(f) \cup {x} PROVE r \in InFile(g)
    BY <1>2, <1>4, <2>2 DEF InFile
  <2> QED
    BY <2>1, <2>2
<1>6. ASSUME NEW j \in 1..Len(g), NEW k \in 1..Len(g), g[j].what = "record", g[k].what = "record", g[j].id = g[k].id PROVE j = k
  <2>1. \A i \in 1..Len(f) : f[i].what = "record" => f[i].id # x.id
    BY DEF InFile
  <2> QED
    BY <1>3, <1>6, <2>1 DEF OneOfEach
<1> QED
  BY <1>1, <1>5, <1>6 DEF OneOfEach

LEMMA RecordsStart == TracerInit => RecordsLie
<1> SUFFICES ASSUME TracerInit PROVE RecordsLie
  OBVIOUS
<1>1. FileKeeps(<<>>)
  BY DEF FileKeeps, InFile, OneOfEach, FileLies
<1> QED
  BY <1>1 DEF TracerInit, RecordsLie

\* Nothing is written and the process is not running.
LEMMA QuietFile ==
  ASSUME FileKeeps(file), FileKeeps(file'), process' \notin {"starting", "running"}
  PROVE  RecordsLie'
BY DEF RecordsLie

LEMMA NoRecords == FileKeeps(<<Mark("head")>>) /\ InFile(<<Mark("head")>>) = {}
<1>1. PICK f : f = <<Mark("head")>>
  OBVIOUS
<1>2. Len(f) = 1 /\ f[1].what = "head"
  BY <1>1 DEF Mark
<1>3. \A k \in 1..Len(f) : f[k].what # "record"
  BY <1>2
<1> QED
  BY <1>1, <1>3 DEF FileKeeps, InFile, OneOfEach, FileLies

LEMMA NobodyThere ==
  ASSUME NEW P, NEW s, NEW now \in Int, \A t \in Writers : P[t] = {} /\ Len(s[t]) = 0
  PROVE  Lively({}, P, s, now, 0)
<1>1. PendingApart({}, P, 0) /\ OpenApart({}, P, s)
  BY DEF PendingApart, OpenApart
<1>2. ASSUME NEW t \in Writers PROVE ThreadLies({}, P[t], t, s[t], now, 0)
  BY DEF ThreadLies, Climbs, MadeOf, ScopesOf, Awaited
<1> QED
  BY <1>1, <1>2 DEF Lively

\* The last of the open scopes is the last active one.
LEMMA OuterIs ==
  ASSUME NEW t \in Writers, AreScopes(scopes[t]), \A k \in 1..Len(scopes[t]) : scopes[t][k].active = TRUE
  PROVE  Outer(t) = IF Len(scopes[t]) = 0 THEN 0 ELSE scopes[t][Len(scopes[t])].id
<1> DEFINE n == Len(scopes[t])
<1>1. n \in Nat /\ DOMAIN scopes[t] = 1..n
  BY DEF AreScopes
<1>2. {k \in DOMAIN scopes[t] : scopes[t][k].active} = 1..n
  BY <1>1
<1>3. Outer(t) = IF 1..n = {} THEN 0 ELSE scopes[t][Max(1..n)].id
  BY <1>2 DEF Outer
<1>4. CASE n = 0
  BY <1>3, <1>4
<1>5. CASE n # 0
  <2>1. n \in 1..n /\ \A k \in 1..n : n >= k
    BY <1>1, <1>5
  <2>2. Max(1..n) = n
    <3> HIDE DEF n
    <3>1. \A x \in 1..n : (\A k \in 1..n : x >= k) => x = n
      BY <1>1, <2>1
    <3>2. Max(1..n) \in 1..n /\ \A k \in 1..n : Max(1..n) >= k
      BY <2>1 DEF Max
    <3> QED
      BY <3>1, <3>2
  <2> QED
    BY <1>3, <2>1, <2>2
<1> QED
  BY <1>1, <1>4, <1>5

LEMMA ScopesShrink ==
  ASSUME NEW s, AreScopes(s), s # <<>>
  PROVE  /\ Len(s) \in Nat /\ Len(s) # 0 /\ Len(SubSeq(s, 1, Len(s) - 1)) = Len(s) - 1
         /\ \A k \in 1..Len(s) - 1 : SubSeq(s, 1, Len(s) - 1)[k] = s[k]
<1>1. PICK q : q = Front(s)
  OBVIOUS
<1>2. Len(q) = Len(s) - 1 /\ (\A k \in 1..Len(s) - 1 : q[k] = s[k]) /\ Len(s) \in Nat /\ Len(s) > 0
  BY <1>1, FrontOf DEF AreScopes
<1>3. q = SubSeq(s, 1, Len(s) - 1)
  BY <1>1 DEF Front
<1> QED
  BY <1>2, <1>3

LEMMA RecordsStep == TracerInv /\ WritesInv /\ RecordsLie /\ [TracerNext]_tracerVars => RecordsLie'
<1> SUFFICES ASSUME TracerInv, WritesInv, RecordsLie, [TracerNext]_tracerVars PROVE RecordsLie'
  OBVIOUS
<1>0. /\ file \in Seq(ItemsOf(file)) /\ job = [t \in Writers |-> job[t]] /\ (\A t \in Writers : JobOK(job[t]))
      /\ clock \in Int /\ scopes = [t \in Writers |-> scopes[t]]
      /\ (\A t \in Writers : AreScopes(scopes[t]) /\ HasRecord(job[t]))
  BY DEF TracerInv, OneWrites, FileGrows, WritesInv
<1>a. FileKeeps(file)
  BY DEF RecordsLie
<1> DEFINE R == InFile(file)
<1>b. (\A r \in R : IsMade(r)) /\ Unique(R) /\ FileLies(R) /\ OneOfEach(file)
  BY <1>a, UniqueInFile DEF FileKeeps
<1>c. process = "running" => enabled /\ Lively(R, Pendings, scopes, clock, begun)
  BY DEF RecordsLie
<1>d. \A t \in Writers : Pendings[t] = Pending(job[t]) /\ Pendings'[t] = Pending(job'[t])
  BY DEF Pendings
<1>e. Pending(Idle) = {} /\ \A j : j # Idle => Pending(j) = {j.record}
  BY DEF Pending
<1>f. process = "running" => CouldRead = {enabled} /\ enabled = TRUE
  <2>1. process = "running" => enabled \in BOOLEAN /\ enabled
    BY <1>c
  <2> QED
    BY <2>1 DEF CouldRead
<1>1. CASE UNCHANGED tracerVars
  BY <1>1 DEF tracerVars, RecordsLie, FileKeeps, Pendings
<1>2. CASE Tick
  <2>1. clock' = clock + 1 /\ process \in {"running", "closed"} /\ UNCHANGED <<begun, file, enabled, scopes, job, process>>
    BY <1>2 DEF Tick
  <2>2. process = "running" => Lively(R, Pendings, scopes, clock', begun)
    BY <1>0, <1>b, <1>c, <2>1, LivelyOn
  <2>3. Pendings' = Pendings
    BY <2>1 DEF Pendings
  <2> QED
    BY <1>a, <1>c, <2>1, <2>2, <2>3 DEF RecordsLie
<1>3. CASE SetOutput
  <2>1. /\ process = "starting" /\ process' = "running" /\ file' = <<Mark("head")>> /\ enabled' = TRUE
        /\ UNCHANGED <<clock, begun, scopes, job>>
    BY <1>3 DEF SetOutput
  <2>2. begun = 0 /\ \A t \in Writers : scopes[t] = <<>> /\ job[t] = Idle
    BY <2>1 DEF RecordsLie
  <2>3. Lively({}, Pendings', scopes', clock', 0)
    <3>1. \A t \in Writers : Pendings'[t] = {} /\ Len(scopes'[t]) = 0
      BY <1>d, <1>e, <2>1, <2>2
    <3> HIDE DEF Pendings
    <3> QED
      BY <1>0, <2>1, <3>1, NobodyThere
  <2>4. FileKeeps(file') /\ InFile(file') = {}
    BY <2>1, NoRecords
  <2> QED
    BY <2>1, <2>2, <2>3, <2>4 DEF RecordsLie
<1>4. CASE Close
  <2>1. file' = Append(file, Mark("tail")) /\ process' = "closed"
    BY <1>4 DEF Close
  <2> QED
    BY <1>0, <1>a, <2>1, MarksAreNone, MarkAdded, QuietFile
<1>5. CASE Exit \/ Killed
  <2>1. file' = file /\ process' = "over"
    BY <1>5 DEF Exit, Killed, Leave
  <2> QED
    BY <1>a, <2>1, QuietFile
<1>6. ASSUME NEW t \in Writers, EnterScope(t) PROVE RecordsLie'
  <2>1. PICK active \in CouldRead :
          scopes' = [scopes EXCEPT ![t] = Append(@, [id |-> begun + 1, start |-> clock, active |-> active, inside |-> Outer(t)])]
    BY <1>6 DEF EnterScope
  <2>2. PICK c : c = [id |-> begun + 1, start |-> clock, active |-> active, inside |-> Outer(t)]
    OBVIOUS
  <2>3. PICK q : q = Append(scopes[t], c)
    OBVIOUS
  <2>4. begun' = begun + 1 /\ process \in {"running", "closed"} /\ UNCHANGED <<clock, file, enabled, job, process>>
    BY <1>6 DEF EnterScope
  <2>5. CASE process = "closed"
    BY <1>a, <2>4, <2>5, QuietFile
  <2>6. CASE process = "running"
    <3>1. Len(scopes[t]) \in Nat /\ Len(q) = Len(scopes[t]) + 1 /\ (\A k \in 1..Len(scopes[t]) : q[k] = scopes[t][k]) /\ q[Len(q)] = c
      <4>1. Pushed(scopes[t], q, c)
        BY <1>0, <2>3, PathPushed DEF AreScopes
      <4> QED
        BY <1>0, <4>1 DEF Pushed, AreScopes
    <3>2. \A u \in Writers : scopes'[u] = IF u = t THEN q ELSE scopes[u]
      BY <1>0, <2>1, <2>2, <2>3
    <3>3. \A k \in 1..Len(scopes[t]) : scopes[t][k].active = TRUE
      BY <1>c, <2>6 DEF Lively, ThreadLies, Climbs
    <3>4. Outer(t) = IF Len(scopes[t]) = 0 THEN 0 ELSE scopes[t][Len(scopes[t])].id
      BY <1>0, <3>3, OuterIs
    <3>5. c.id = begun + 1 /\ c.start = clock /\ c.active = TRUE /\ c.inside = Outer(t)
      BY <1>f, <2>1, <2>2, <2>6
    <3>6. Lively(R, Pendings, scopes', clock, begun + 1)
      <4> HIDE DEF R
      <4>1. PICK s1 : s1 = scopes'
        OBVIOUS
      <4>2. BeginsIn(scopes, t, s1, c, q, clock, begun)
        BY <3>1, <3>2, <3>4, <3>5, <4>1 DEF BeginsIn
      <4>3. Lively(R, Pendings, scopes, clock, begun) /\ \A r \in R : IsMade(r)
        BY <1>b, <1>c, <2>6
      <4> QED
        BY <4>1, <4>2, <4>3, ScopeBegins
    <3>7. Pendings' = Pendings
      BY <2>4 DEF Pendings
    <3> QED
      BY <1>a, <1>c, <2>4, <2>6, <3>6, <3>7 DEF RecordsLie
  <2> QED
    BY <2>4, <2>5, <2>6
<1>7. ASSUME NEW t \in Writers, LeaveScope(t) PROVE RecordsLie'
  <2>1. PICK s, p : /\ s = scopes[t][Len(scopes[t])]
                    /\ p = [what |-> "record", ph |-> "X", ts |-> s.start, dur |-> clock - s.start, tid |-> t,
                            id |-> s.id, inside |-> s.inside, args |-> <<"file", "line", "func">>]
    OBVIOUS
  <2>2. PICK goOn \in CouldRead : job' = [job EXCEPT ![t] = IF s.active /\ goOn THEN [step |-> "lock", record |-> p] ELSE Idle]
    BY <1>7, <2>1 DEF LeaveScope
  <2>3. /\ scopes[t] # <<>> /\ job[t] = Idle /\ process \in {"running", "closed"}
        /\ scopes' = [scopes EXCEPT ![t] = SubSeq(@, 1, Len(@) - 1)]
        /\ UNCHANGED <<clock, begun, file, enabled, process>>
    BY <1>7 DEF LeaveScope
  <2>4. CASE process = "closed"
    BY <1>a, <2>3, <2>4, QuietFile
  <2>5. CASE process = "running"
    <3> DEFINE n == Len(scopes[t])
    <3>1. PICK q : q = SubSeq(scopes[t], 1, n - 1)
      OBVIOUS
    <3>2. n \in Nat /\ n # 0 /\ Len(q) = n - 1 /\ \A k \in 1..n - 1 : q[k] = scopes[t][k]
      BY <1>0, <2>3, <3>1, ScopesShrink
    <3>3. \A u \in Writers : scopes'[u] = IF u = t THEN q ELSE scopes[u]
      BY <1>0, <2>3, <3>1
    <3>4. /\ s.active = TRUE /\ s.id \in 1..begun /\ s.start \in Int /\ s.start <= clock
          /\ s.inside = IF n = 1 THEN 0 ELSE scopes[t][n - 1].id
      <4>1. Climbs(scopes[t], clock, begun) /\ n \in 1..n
        BY <1>c, <2>5, <3>2 DEF Lively, ThreadLies
      <4> QED
        BY <2>1, <4>1 DEF Climbs
    <3>5. PICK j : j = [step |-> "lock", record |-> p]
      OBVIOUS
    <3>6. job' = [job EXCEPT ![t] = j] /\ j # Idle /\ j.record = p
      <4>1. goOn = TRUE
        BY <1>f, <2>2, <2>5
      <4>2. j.step = "lock" /\ Idle.step = "none" /\ j.record = p
        BY <3>5 DEF Idle
      <4> QED
        BY <2>2, <3>4, <3>5, <4>1, <4>2
    <3>7. \A u \in Writers : Pendings'[u] = IF u = t THEN {p} ELSE Pendings[u]
      BY <1>0, <1>d, <1>e, <3>6
    <3>8. Pendings[t] = {}
      BY <1>d, <1>e, <2>3
    <3>9. IsMade(p)
      <4>1. s.inside \in Nat
        <5>0. Climbs(scopes[t], clock, begun)
          BY <1>c, <2>5 DEF Lively, ThreadLies
        <5>1. n # 1 => n - 1 \in 1..n
          <6>1. n \in Nat /\ n # 0
            BY <3>2
          <6> HIDE DEF n
          <6> QED
            BY <6>1
        <5>2. n # 1 => scopes[t][n - 1].id \in 1..begun
          BY <5>0, <5>1 DEF Climbs
        <5> QED
          BY <1>c, <2>5, <3>4, <5>2
      <4>2. <<"file", "line", "func">> \in Seq(Words) /\ "X" \in Words
        BY DEF Words
      <4>3. t \in Int
        BY TracerAssumption
      <4>4. s.id \in Nat \ {0} /\ clock - s.start \in Int /\ clock - s.start >= 0
        BY <1>0, <3>4
      <4>5. /\ p.what = "record" /\ p.ph = "X" /\ p.ts = s.start /\ p.dur = clock - s.start /\ p.tid = t
            /\ p.id = s.id /\ p.inside = s.inside /\ p.args = <<"file", "line", "func">>
        BY <2>1
      <4> QED
        BY <3>4, <4>1, <4>2, <4>3, <4>4, <4>5 DEF IsMade, IsRecord
    <3>10. /\ p.ph = "X" /\ p.tid = t /\ p.id = scopes[t][n].id /\ p.ts = scopes[t][n].start
           /\ p.dur = clock - scopes[t][n].start /\ p.inside = scopes[t][n].inside
      BY <2>1
    <3>11. Lively(R, Pendings', scopes', clock, begun)
      <4> HIDE DEF R, n, Pendings
      <4>1. Lively(R, Pendings, scopes, clock, begun)
        BY <1>c, <2>5
      <4>2. Len(scopes[t]) = n
        BY DEF n
      <4>3. PICK s1, P1 : s1 = scopes' /\ P1 = Pendings'
        OBVIOUS
      <4>4. EndsIn(Pendings, scopes, t, n, P1, s1, p, q, clock)
        BY <3>2, <3>3, <3>7, <3>8, <3>9, <3>10, <4>2, <4>3 DEF EndsIn
      <4> QED
        BY <1>b, <4>1, <4>3, <4>4, ScopeEnds
    <3> QED
      BY <1>a, <1>c, <2>3, <2>5, <3>11 DEF RecordsLie
  <2> QED
    BY <2>3, <2>4, <2>5
<1>8. ASSUME NEW t \in Writers, WriteCounter(t) PROVE RecordsLie'
  <2>1. PICK p : p = [what |-> "record", ph |-> "C", ts |-> clock, dur |-> 0, tid |-> t,
                      id |-> begun + 1, inside |-> 0, args |-> <<"value">>]
    OBVIOUS
  <2>2. PICK goOn \in CouldRead : job' = [job EXCEPT ![t] = IF goOn THEN [step |-> "lock", record |-> p] ELSE Idle]
    BY <1>8, <2>1 DEF WriteCounter
  <2>3. /\ job[t] = Idle /\ process \in {"running", "closed"} /\ begun' = begun + 1
        /\ UNCHANGED <<clock, file, enabled, scopes, process>>
    BY <1>8 DEF WriteCounter
  <2>4. CASE process = "closed"
    BY <1>a, <2>3, <2>4, QuietFile
  <2>5. CASE process = "running"
    <3>1. PICK j : j = [step |-> "lock", record |-> p]
      OBVIOUS
    <3>2. job' = [job EXCEPT ![t] = j] /\ j # Idle /\ j.record = p
      <4>1. goOn = TRUE
        BY <1>f, <2>2, <2>5
      <4>2. j.step = "lock" /\ Idle.step = "none" /\ j.record = p
        BY <3>1 DEF Idle
      <4> QED
        BY <2>2, <3>1, <4>1, <4>2
    <3>3. \A u \in Writers : Pendings'[u] = IF u = t THEN {p} ELSE Pendings[u]
      BY <1>0, <1>d, <1>e, <3>2
    <3>4. Pendings[t] = {}
      BY <1>d, <1>e, <2>3
    <3>5. IsMade(p) /\ p.ph = "C" /\ p.tid = t /\ p.id = begun + 1
      <4>1. <<"value">> \in Seq(Words) /\ "C" \in Words
        BY DEF Words
      <4>2. t \in Int
        BY TracerAssumption
      <4>3. begun + 1 \in Nat \ {0}
        BY <1>c, <2>5 DEF Lively
      <4>4. /\ p.what = "record" /\ p.ph = "C" /\ p.ts = clock /\ p.dur = 0 /\ p.tid = t
            /\ p.id = begun + 1 /\ p.inside = 0 /\ p.args = <<"value">>
        BY <2>1
      <4> QED
        BY <1>0, <4>1, <4>2, <4>3, <4>4 DEF IsMade, IsRecord
    <3>6. Lively(R, Pendings', scopes, clock, begun + 1)
      <4> HIDE DEF R, Pendings
      <4> QED
        BY <1>b, <1>c, <2>5, <3>3, <3>4, <3>5, CounterBegins
    <3> QED
      BY <1>a, <1>c, <2>3, <2>5, <3>6 DEF RecordsLie
  <2> QED
    BY <2>3, <2>4, <2>5
<1>9. ASSUME NEW t \in Writers, Locked(t) \/ Separate(t) PROVE RecordsLie'
  <2>1. job[t] # Idle /\ JobOK(job[t])
    BY <1>9 DEF Locked, Separate, Idle, TracerInv, OneWrites
  <2>2. UNCHANGED <<clock, begun, enabled, scopes, process>> /\ file' \in {file, Append(file, Mark("separator"))}
    BY <1>9 DEF Locked, Separate
  <2>3. FileKeeps(file') /\ InFile(file') = R
    <3>1. CASE file' = file
      BY <1>a, <3>1
    <3>2. CASE file' = Append(file, Mark("separator"))
      BY <1>0, <1>a, <3>2, MarksAreNone, MarkAdded
    <3> QED
      BY <2>2, <3>1, <3>2
  <2>4. process # "starting"
    BY <2>1 DEF RecordsLie
  <2>5. CASE process # "running"
    BY <1>a, <2>2, <2>3, <2>4, <2>5, QuietFile
  <2>6. CASE process = "running"
    <3>1. PICK step : job' = [job EXCEPT ![t].step = step]
      BY <1>9, <2>6 DEF Locked, Separate, TracerInv, FileGrows
    <3>2. job[t] = [step |-> job[t].step, record |-> job[t].record] /\ job'[t] = [job[t] EXCEPT !.step = step]
      BY <1>0, <2>1, <3>1 DEF JobOK
    <3>3. PICK j : j = job'[t]
      OBVIOUS
    <3>4. j.record = job[t].record /\ j # Idle
      BY <3>2, <3>3 DEF Idle
    <3>5. \A u \in Writers : u # t => job'[u] = job[u]
      BY <1>0, <3>1
    <3>6. \A u \in Writers : Pending(job'[u]) = Pending(job[u])
      BY <1>e, <2>1, <3>3, <3>4, <3>5
    <3>7. Pendings' = Pendings
      BY <3>6 DEF Pendings
    <3> QED
      BY <1>c, <2>2, <2>3, <2>6, <3>7 DEF RecordsLie
  <2> QED
    BY <2>5, <2>6
<1>10. ASSUME NEW t \in Writers, PrintRecord(t) PROVE RecordsLie'
  <2>1. PICK p : p = job[t].record
    OBVIOUS
  <2>2. /\ UNCHANGED <<clock, begun, enabled, scopes, process>> /\ job[t] # Idle
        /\ file' = Append(file, p) /\ job' = [job EXCEPT ![t] = Idle]
    BY <1>10, <2>1 DEF PrintRecord, Idle
  <2>3. process = "running"
    <3>1. Writing(t) /\ t # Nobody
      BY <1>10, NobodyWrites DEF PrintRecord, Writing
    <3> QED
      BY <3>1 DEF TracerInv, OneWrites
  <2>4. Pendings[t] = {p} /\ Lively(R, Pendings, scopes, clock, begun)
    BY <1>c, <1>d, <1>e, <2>1, <2>2, <2>3
  <2>5. \A u \in Writers : Pendings'[u] = IF u = t THEN {} ELSE Pendings[u]
    BY <1>0, <1>d, <1>e, <2>2
  <2>6. IsMade(p) /\ \A r \in R : r.id # p.id
    BY <2>4 DEF Lively, PendingApart
  <2>7. OneOfEach(file') /\ InFile(file') = R \cup {p}
    BY <1>0, <1>b, <2>2, <2>6, RecordAdded
  <2>8. FileLies(R \cup {p}) /\ Lively(R \cup {p}, Pendings', scopes, clock, begun)
    <3> HIDE DEF R, Pendings
    <3>1. FileLies(R \cup {p})
      BY <1>b, <2>4, RecordLies
    <3>2. Lively(R \cup {p}, Pendings', scopes, clock, begun)
      BY <2>4, <2>5, RecordWritten
    <3> QED
      BY <3>1, <3>2
  <2>9. FileKeeps(file')
    BY <1>b, <2>6, <2>7, <2>8 DEF FileKeeps
  <2> QED
    BY <1>c, <2>2, <2>3, <2>7, <2>8, <2>9 DEF RecordsLie
<1> QED
  BY <1>1, <1>2, <1>3, <1>4, <1>5, <1>6, <1>7, <1>8, <1>9, <1>10 DEF TracerNext

-----------------------------------------------------------------------------
(* What the reader makes of the records.  Tokens lead from one handler to    *)
(* another.                                                                  *)
LeadsOn(r, g, ts, f) == r[0] = g /\ r[Len(ts)] = f /\ \A k \in 1..Len(ts) : r[k] = Handle(r[k - 1], ts[k])
Reads(g, ts, f) == \E r : LeadsOn(r, g, ts, f)

LEMMA ReadsNone == \A g : Reads(g, <<>>, g)
<1>1. ASSUME NEW g PROVE Reads(g, <<>>, g)
  <2>1. PICK r : r = [k \in 0..0 |-> g]
    OBVIOUS
  <2>2. r[0] = g /\ Len(<<>>) = 0
    BY <2>1
  <2> QED
    BY <2>2 DEF Reads, LeadsOn
<1> QED
  BY <1>1

LEMMA ReadsOne ==
  ASSUME NEW g, NEW x
  PROVE  Reads(g, <<x>>, Handle(g, x))
<1>1. PICK f : f = Handle(g, x)
  OBVIOUS
<1>2. PICK r : r = [k \in 0..1 |-> IF k = 0 THEN g ELSE f]
  OBVIOUS
<1>3. PICK ts : ts = <<x>>
  OBVIOUS
<1>4. Len(ts) = 1 /\ ts[1] = x /\ r[0] = g /\ r[1] = f
  BY <1>2, <1>3
<1>5. LeadsOn(r, g, ts, f)
  BY <1>1, <1>4 DEF LeadsOn
<1> QED
  BY <1>1, <1>3, <1>5 DEF Reads

LEMMA ReadsOn ==
  ASSUME NEW a, NEW b, NEW c, NEW s \in Seq(Tokens), NEW t \in Seq(Tokens), Reads(a, s, b), Reads(b, t, c)
  PROVE  Reads(a, s \o t, c)
<1>1. PICK p, q : LeadsOn(p, a, s, b) /\ LeadsOn(q, b, t, c)
  BY DEF Reads
<1>a. PICK m \in Nat : m = Len(s)
  OBVIOUS
<1>b. PICK n \in Nat : n = Len(t)
  OBVIOUS
<1>c. PICK u : u = s \o t
  OBVIOUS
<1>2. m = Len(s) /\ n = Len(t) /\ u = s \o t
  BY <1>a, <1>b, <1>c
<1>3. Len(u) = m + n /\ (\A k \in 1..m : u[k] = s[k]) /\ \A k \in 1..n : u[m + k] = t[k]
  BY <1>2
<1>4. PICK r : r = [k \in 0..m + n |-> IF k <= m THEN p[k] ELSE q[k - m]]
  OBVIOUS
<1>5. /\ p[0] = a /\ p[m] = b /\ \A k \in 1..m : p[k] = Handle(p[k - 1], s[k])
      /\ q[0] = b /\ q[n] = c /\ \A k \in 1..n : q[k] = Handle(q[k - 1], t[k])
  BY <1>1, <1>2 DEF LeadsOn
<1>6. \A k \in 0..n : r[m + k] = q[k]
  <2>1. ASSUME NEW k \in 0..n PROVE r[m + k] = q[k]
    <3>1. m + k \in 0..m + n /\ (m + k <= m => k = 0) /\ (m + k) - m = k
      OBVIOUS
    <3> QED
      BY <1>4, <1>5, <3>1
  <2> QED
    BY <2>1
<1>7. r[0] = a
  BY <1>4, <1>5
<1>8. r[m + n] = c
  BY <1>5, <1>6
<1>9. ASSUME NEW k \in 1..m + n PROVE r[k] = Handle(r[k - 1], u[k])
  <2>1. CASE k <= m
    <3>1. k \in 1..m /\ k \in 0..m + n /\ k - 1 \in 0..m + n /\ k - 1 <= m
      BY <2>1
    <3>2. r[k] = p[k] /\ r[k - 1] = p[k - 1] /\ u[k] = s[k]
      BY <1>3, <1>4, <3>1
    <3> QED
      BY <1>5, <3>1, <3>2
  <2>2. CASE k > m
    <3>1. PICK j \in 1..n : k = m + j
      <4>1. k - m \in 1..n /\ k = m + (k - m)
        BY <2>2
      <4> QED
        BY <4>1
    <3>2. k - 1 = m + (j - 1) /\ j - 1 \in 0..n /\ j \in 0..n
      BY <3>1
    <3>3. r[k] = q[j] /\ r[k - 1] = q[j - 1] /\ u[k] = t[j]
      BY <1>3, <1>6, <3>1, <3>2
    <3> QED
      BY <1>5, <3>3
  <2> QED
    BY <2>1, <2>2
<1>10. LeadsOn(r, a, u, c)
  BY <1>3, <1>7, <1>8, <1>9 DEF LeadsOn
<1> QED
  BY <1>2, <1>10 DEF Reads

LEMMA ReadsTwo ==
  ASSUME NEW g, NEW x, NEW y
  PROVE  Reads(g, <<x, y>>, Handle(Handle(g, x), y))
<1>1. PICK f, e : f = Handle(g, x) /\ e = Handle(f, y)
  OBVIOUS
<1>2. PICK r : r = [k \in 0..2 |-> IF k = 0 THEN g ELSE IF k = 1 THEN f ELSE e]
  OBVIOUS
<1>3. PICK ts : ts = <<x, y>>
  OBVIOUS
<1>4. Len(ts) = 2 /\ ts[1] = x /\ ts[2] = y
  BY <1>3
<1>5. r[0] = g /\ r[1] = f /\ r[2] = e
  BY <1>2
<1>6. ASSUME NEW k \in 1..2 PROVE r[k] = Handle(r[k - 1], ts[k])
  <2>1. (k = 1 /\ k - 1 = 0) \/ (k = 2 /\ k - 1 = 1)
    OBVIOUS
  <2> QED
    BY <1>1, <1>4, <1>5, <2>1
<1>7. LeadsOn(r, g, ts, e)
  BY <1>4, <1>5, <1>6 DEF LeadsOn
<1> QED
  BY <1>1, <1>3, <1>7 DEF Reads

LEMMA AfterAllReads ==
  ASSUME NEW ts \in Seq(Tokens), NEW f, Reads(Handler, ts, f)
  PROVE  AfterAll(ts) = f
<1>1. PICK n \in Nat : n = Len(ts)
  OBVIOUS
<1>2. PICK g : g = CHOOSE x : HandleSteps(x, ts)
  OBVIOUS
<1>3. HandleSteps(g, ts)
  BY <1>2, HandlingExists
<1>4. AfterAll(ts) = g[n]
  BY <1>1, <1>2 DEF AfterAll, HandleSteps
<1>5. \A k \in 0..n : g[k] = IF k = 0 THEN Handler ELSE Handle(g[k - 1], ts[k])
  BY <1>1, <1>3 DEF HandleSteps
<1>6. PICK r : r[0] = Handler /\ r[n] = f /\ \A k \in 1..n : r[k] = Handle(r[k - 1], ts[k])
  BY <1>1 DEF Reads, LeadsOn
<1> DEFINE S == {k \in 0..n : g[k] = r[k]}
<1>7. 0 \in S
  <2>1. g[0] = Handler
    BY <1>5
  <2> QED
    BY <1>6, <2>1
<1>8. ASSUME NEW k \in 0..n, k \in S, k < n PROVE k + 1 \in S
  <2>1. k + 1 \in 1..n /\ k + 1 \in 0..n /\ k + 1 # 0 /\ (k + 1) - 1 = k /\ g[k] = r[k]
    BY <1>8
  <2>2. g[k + 1] = Handle(g[k], ts[k + 1])
    BY <1>5, <2>1
  <2>3. r[k + 1] = Handle(r[k], ts[k + 1])
    BY <1>6, <2>1
  <2> QED
    BY <2>1, <2>2, <2>3
<1> HIDE DEF S
<1>9. \A k \in 0..n : k \in S
  BY <1>7, <1>8, UpTo
<1>10. n \in S
  BY <1>9
<1> QED
  BY <1>4, <1>6, <1>10 DEF S

-----------------------------------------------------------------------------
(* A member of an event is one of its fields. *)
AtEvent(g, md, e) == Fills(g) /\ g.state = "InEvent" /\ g.model = md /\ g.event = e
IsMember(k, t) ==
  \/ k \in {"ts", "dur", "pid", "tid"} /\ t = Number(t.value) /\ t.value \in Int
  \/ k \in {"name", "cat", "ph"} /\ t = String(t.value) /\ t.value # Blank

LEMMA KeyRead ==
  ASSUME NEW g, Fills(g), NEW k, g.state # "Skipping", g.state = "InArgs" => g.argsDepth = 0,
         NEW f, f = Handle(g, [is |-> "key", value |-> k])
  PROVE  /\ Fills(f) /\ f.key = k /\ f.state = g.state /\ f.model = g.model /\ f.event = g.event
         /\ f.argsDepth = g.argsDepth
<1>1. PICK x : x = [is |-> "key", value |-> k]
  OBVIOUS
<1>2. x.is = "key" /\ x.value = k
  BY <1>1
<1>3. IsToken(x)
  BY <1>2 DEF IsToken
<1>4. Fills(f)
  BY <1>1, <1>3, TokenFills
<1>5. IsHandler(g)
  BY DEF Fills
<1>6. f = OnKey(g, k)
  BY <1>1, <1>2 DEF Handle
<1>7. f = [g EXCEPT !.key = k]
  BY <1>5, <1>6 DEF OnKey
<1> QED
  BY <1>4, <1>5, <1>7 DEF IsHandler

LEMMA MemberRead ==
  ASSUME NEW g, NEW md, NEW e, AtEvent(g, md, e), NEW k, NEW t, IsMember(k, t), NEW d, d = [e EXCEPT ![k] = t.value]
  PROVE  \E f : Reads(g, Member(k, t), f) /\ AtEvent(f, md, d)
<1>1. PICK x, a, f : x = [is |-> "key", value |-> k] /\ a = Handle(g, x) /\ f = Handle(a, t)
  OBVIOUS
<1>2. Fills(a) /\ a.key = k /\ a.state = "InEvent" /\ a.model = md /\ a.event = e
  BY <1>1, KeyRead DEF AtEvent
<1>3. t \in {Number(t.value), String(t.value)} /\ IsToken(t)
  BY DEF IsMember, IsToken, Number, String
<1>4. Fills(f) /\ IsHandler(a)
  BY <1>1, <1>2, <1>3, TokenFills DEF Fills
<1>5. f = [a EXCEPT !.event[k] = t.value]
  <2>1. CASE k \in {"ts", "dur", "pid", "tid"} /\ t = Number(t.value) /\ t.value \in Int
    <3>1. t.is = "number"
      BY <2>1 DEF Number
    <3>2. f = OnNumber(a, t.value)
      BY <1>1, <3>1 DEF Handle
    <3> QED
      BY <1>2, <2>1, <3>2 DEF OnNumber, NumberFields
  <2>2. CASE k \in {"name", "cat"} /\ t = String(t.value)
    <3>1. t.is = "string"
      BY <2>2 DEF String
    <3>2. f = OnString(a, t.value)
      BY <1>1, <3>1 DEF Handle
    <3> QED
      BY <1>2, <2>2, <3>2 DEF OnString
  <2>3. CASE k = "ph" /\ t = String(t.value) /\ t.value # Blank
    <3>1. t.is = "string"
      BY <2>3 DEF String
    <3>2. f = OnString(a, t.value)
      BY <1>1, <3>1 DEF Handle
    <3>3. f = [a EXCEPT !.event.ph = t.value]
      BY <1>2, <2>3, <3>2 DEF OnString
    <3> QED
      BY <2>3, <3>3, Zenon
  <2> QED
    BY <2>1, <2>2, <2>3 DEF IsMember
<1>6. f.event = d /\ f.state = "InEvent" /\ f.model = md
  BY <1>2, <1>4, <1>5 DEF IsHandler
<1>7. Reads(g, Member(k, t), f)
  <2>1. Member(k, t) = <<x, t>>
    BY <1>1 DEF Member
  <2> QED
    BY <1>1, <2>1, ReadsTwo
<1> QED
  BY <1>4, <1>6, <1>7 DEF AtEvent

-----------------------------------------------------------------------------
(* An object of the list is an event. *)
LEMMA EventStarts ==
  ASSUME NEW g, Fills(g), g.state = "InTraceEvents"
  PROVE  \E f : Reads(g, <<[is |-> "startObject"]>>, f) /\ AtEvent(f, g.model, NoEvent)
<1>1. PICK x, f : x = [is |-> "startObject"] /\ f = Handle(g, x)
  OBVIOUS
<1>2. x.is = "startObject" /\ IsToken(x)
  BY <1>1 DEF IsToken
<1>3. Fills(f) /\ IsHandler(g)
  BY <1>1, <1>2, TokenFills DEF Fills
<1>4. f = OnStartObject(g)
  BY <1>1, <1>2 DEF Handle
<1>5. f = [g EXCEPT !.state = "InEvent", !.event = NoEvent, !.args = NoArgs, !.counters = <<>>]
  BY <1>4 DEF OnStartObject
<1>6. f.state = "InEvent" /\ f.event = NoEvent /\ f.model = g.model
  BY <1>3, <1>5 DEF IsHandler
<1> QED
  BY <1>1, <1>3, <1>6, ReadsOne DEF AtEvent

AtArgs(g, md, e) == Fills(g) /\ g.state = "InArgs" /\ g.argsDepth = 0 /\ g.model = md /\ g.event = e

LEMMA ArgsStart ==
  ASSUME NEW g, NEW md, NEW e, AtEvent(g, md, e)
  PROVE  \E f : Reads(g, <<[is |-> "key", value |-> "args"], [is |-> "startObject"]>>, f) /\ AtArgs(f, md, e)
<1>1. PICK x, y, a, f : x = [is |-> "key", value |-> "args"] /\ y = [is |-> "startObject"] /\ a = Handle(g, x) /\ f = Handle(a, y)
  OBVIOUS
<1>2. Fills(a) /\ a.key = "args" /\ a.state = "InEvent" /\ a.model = md /\ a.event = e
  BY <1>1, KeyRead DEF AtEvent
<1>3. y.is = "startObject" /\ IsToken(y)
  BY <1>1 DEF IsToken
<1>4. Fills(f) /\ IsHandler(a)
  BY <1>1, <1>2, <1>3, TokenFills DEF Fills
<1>5. f = OnStartObject(a)
  BY <1>1, <1>3 DEF Handle
<1>6. f = [a EXCEPT !.state = "InArgs", !.argsDepth = 0, !.args = [NoArgs EXCEPT !.given = TRUE]]
  BY <1>2, <1>5 DEF OnStartObject
<1>7. f.state = "InArgs" /\ f.argsDepth = 0 /\ f.model = md /\ f.event = e
  BY <1>2, <1>4, <1>6 DEF IsHandler
<1> QED
  BY <1>1, <1>4, <1>7, ReadsTwo DEF AtArgs

LEMMA ArgMemberRead ==
  ASSUME NEW g, NEW md, NEW e, AtArgs(g, md, e), NEW k
  PROVE  \E f : Reads(g, ArgMember(k), f) /\ AtArgs(f, md, e)
<1>1. PICK t : t = IF k \in {"line", "value"} THEN Number(1) ELSE String("x")
  OBVIOUS
<1>2. PICK x, a, f : x = [is |-> "key", value |-> k] /\ a = Handle(g, x) /\ f = Handle(a, t)
  OBVIOUS
<1>3. Fills(a) /\ a.state = "InArgs" /\ a.argsDepth = 0 /\ a.model = md /\ a.event = e
  BY <1>2, KeyRead DEF AtArgs
<1>4. (t.is = "number" /\ t.value = 1) \/ (t.is = "string" /\ t.value = "x")
  BY <1>1 DEF Number, String
<1>5. Fills(f) /\ IsHandler(a)
  <2>1. IsToken(t)
    BY <1>4 DEF IsToken
  <2> QED
    BY <1>2, <1>3, <2>1, TokenFills DEF Fills
<1>6. SamePlace(a, f)
  BY <1>2, <1>4, <1>5, NumberStays, StringStays DEF Handle
<1>7. SameFill(a, f)
  <2>1. PICK b : b \in {Argument(a, Number(1)), Argument(a, String("x"))} /\ (f = b \/ \E v : f = Counted(b, v))
    BY <1>2, <1>3, <1>4, Zenon DEF Handle, OnNumber, OnString
  <2>2. SameFill(a, b)
    BY <1>5, <2>1, ArgumentFills
  <2>3. IsHandler(b)
    BY <2>2 DEF SameFill
  <2> QED
    BY <2>1, <2>2, <2>3, CountedFills, SMTT(30) DEF SameFill
<1>8. f.state = "InArgs" /\ f.argsDepth = 0 /\ f.model = md /\ f.event = e
  BY <1>3, <1>6, <1>7 DEF SamePlace, SameFill
<1>9. ArgMember(k) = <<x, t>>
  BY <1>1, <1>2 DEF ArgMember, Member
<1> QED
  BY <1>2, <1>5, <1>8, <1>9, ReadsTwo DEF AtArgs

\* Whatever the args are, the event is left alone.
LEMMA ArgsRead ==
  ASSUME NEW g, NEW md, NEW e, AtArgs(g, md, e), NEW args \in Seq(Words)
  PROVE  \E f : Reads(g, Through(LAMBDA tokens, k : tokens \o ArgMember(k), <<>>, args), f) /\ AtArgs(f, md, e)
<1>1. PICK n \in Nat : n = Len(args)
  OBVIOUS
<1>2. ASSUME NEW k \in Words PROVE ArgMember(k) \in Seq(Tokens)
  <2>1. Number(1) \in Tokens /\ String("x") \in Tokens /\ k \in Texts
    BY DEF Tokens, NumberTokens, StringTokens, Texts
  <2> QED
    BY <2>1, MemberTokens DEF ArgMember
<1>3. PICK parts : parts = [k \in 1..n |-> ArgMember(args[k])]
  OBVIOUS
<1>4. parts \in [1..n -> Seq(Tokens)]
  BY <1>1, <1>2, <1>3
<1>5. \A q : ArgSteps(q, args) <=> IsJoined(q, parts, n)
  <2>1. \A q : [k \in 0..n |-> IF k = 0 THEN <<>> ELSE q[k - 1] \o ArgMember(args[k])]
               = [k \in 0..n |-> IF k = 0 THEN <<>> ELSE q[k - 1] \o parts[k]]
    BY <1>3
  <2> QED
    BY <1>1, <2>1 DEF ArgSteps, IsJoined
<1>6. PICK q : q = CHOOSE x : ArgSteps(x, args)
  OBVIOUS
<1>7. IsJoined(q, parts, n)
  <2>1. \E x : ArgSteps(x, args)
    BY <1>4, <1>5, JoinedIs
  <2> QED
    BY <1>5, <1>6, <2>1
<1>8. Through(LAMBDA tokens, k : tokens \o ArgMember(k), <<>>, args) = q[n]
  BY <1>1, <1>6 DEF Through, ArgSteps
<1> DEFINE S == {k \in 0..n : q[k] \in Seq(Tokens) /\ \E f : Reads(g, q[k], f) /\ AtArgs(f, md, e)}
<1>9. 0 \in S
  <2>1. q[0] = <<>>
    BY <1>7 DEF IsJoined
  <2>2. <<>> \in Seq(Tokens)
    OBVIOUS
  <2>3. Reads(g, <<>>, g)
    BY ReadsNone
  <2>4. q[0] \in Seq(Tokens) /\ Reads(g, q[0], g)
    BY <2>1, <2>2, <2>3
  <2> QED
    BY <2>4
<1>10. ASSUME NEW k \in 0..n, k \in S, k < n PROVE k + 1 \in S
  <2>1. k + 1 \in 0..n /\ k + 1 # 0 /\ (k + 1) - 1 = k /\ k + 1 \in 1..n
    BY <1>10
  <2>2. q[k + 1] = q[k] \o parts[k + 1] /\ parts[k + 1] = ArgMember(args[k + 1]) /\ parts[k + 1] \in Seq(Tokens)
    BY <1>3, <1>4, <1>7, <2>1 DEF IsJoined
  <2>3. PICK f : Reads(g, q[k], f) /\ AtArgs(f, md, e)
    BY <1>10
  <2>4. PICK d : Reads(f, parts[k + 1], d) /\ AtArgs(d, md, e)
    BY <2>2, <2>3, ArgMemberRead
  <2>5. q[k] \in Seq(Tokens)
    BY <1>10
  <2>6. q[k + 1] \in Seq(Tokens) /\ Reads(g, q[k + 1], d)
    BY <2>2, <2>3, <2>4, <2>5, ReadsOn
  <2> QED
    BY <2>1, <2>4, <2>6
<1> HIDE DEF S
<1>11. \A k \in 0..n : k \in S
  BY <1>9, <1>10, UpTo
<1>12. n \in S
  BY <1>11
<1> QED
  BY <1>8, <1>12 DEF S

LEMMA ArgsEnd ==
  ASSUME NEW g, NEW md, NEW e, AtArgs(g, md, e)
  PROVE  AtEvent(Handle(g, [is |-> "endObject"]), md, e)
<1>1. PICK x, f : x = [is |-> "endObject"] /\ f = Handle(g, x)
  OBVIOUS
<1>2. x.is = "endObject" /\ IsToken(x)
  BY <1>1 DEF IsToken
<1>3. Fills(f) /\ IsHandler(g)
  BY <1>1, <1>2, TokenFills DEF Fills, AtArgs
<1>4. f = [g EXCEPT !.state = "InEvent"]
  BY <1>1, <1>2 DEF Handle, OnEndObject, AtArgs
<1>5. f.state = "InEvent" /\ f.model = md /\ f.event = e
  BY <1>3, <1>4 DEF IsHandler, AtArgs
<1> QED
  BY <1>1, <1>3, <1>5 DEF AtEvent

\* What an event tells of a record.
Tells(e, r) ==
  /\ e.ph = r.ph /\ e.ts = r.ts /\ e.dur = r.dur /\ e.pid = 1 /\ e.tid = r.tid
  /\ e.kind = "Measured"

LEMMA EventEndsPlain ==
  ASSUME NEW g, NEW md, NEW e, AtEvent(g, md, e), e.ph \in {"X", "C"}, e.cat = "app", NEW r, Tells(e, r),
         NEW f, f = Handle(g, [is |-> "endObject"])
  PROVE  Fills(f) /\ f.state = "InTraceEvents" /\ \E d : f.model.events = Append(md.events, d) /\ Tells(d, r)
<1>1. PICK x : x = [is |-> "endObject"]
  OBVIOUS
<1>2. x.is = "endObject" /\ IsToken(x)
  BY <1>1 DEF IsToken
<1>3. Fills(f) /\ Fills(g) /\ IsHandler(g) /\ IsModel(g.model) /\ IsTimed(e) /\ g.model = md /\ g.event = e
  BY <1>1, <1>2, TokenFills DEF Fills, AtEvent
<1>4. PICK q : q = FinishEvent(g)
  OBVIOUS
<1>5. f = [q EXCEPT !.state = "InTraceEvents"]
  BY <1>1, <1>2, <1>4 DEF Handle, OnEndObject, AtEvent
<1>6. IsHandler(q)
  BY <1>3, <1>4, FinishStays
<1>7. f.state = "InTraceEvents" /\ f.model = q.model
  BY <1>5, <1>6 DEF IsHandler
<1>8. Kinded(e) = e
  BY DEF Kinded
<1>9. IsEvent(e)
  <2>1. DOMAIN e = EventFields
    BY <1>3, Zenon DEF IsTimed
  <2> QED
    BY <2>1 DEF IsEvent, EventFields
<1>10. PICK d : d = [e EXCEPT !.args = g.args]
  OBVIOUS
<1>11. q.model.events = Append(md.events, d)
  BY <1>3, <1>4, <1>8, <1>9, <1>10, FinishMeans DEF Finished
<1>12. SetsField(d, e, "args", g.args)
  <2>1. "args" \in EventFields
    BY DEF EventFields
  <2>2. d = [e EXCEPT !["args"] = g.args]
    BY <1>10, Zenon
  <2> QED
    BY <1>3, <2>1, <2>2, FieldSet
<1>13. Tells(d, r)
  BY <1>12 DEF SetsField, EventFields, Tells
<1> QED
  BY <1>3, <1>7, <1>11, <1>13

\* The fields read so far of a record.
Told(e, r, ks) ==
  /\ IsTimed(e) /\ e.kind = "Measured"
  /\ "ph" \in ks => e.ph = r.ph
  /\ "cat" \in ks => e.cat = "app"
  /\ "ts" \in ks => e.ts = r.ts
  /\ e.dur = IF "dur" \in ks THEN r.dur ELSE 0
  /\ "pid" \in ks => e.pid = 1
  /\ "tid" \in ks => e.tid = r.tid

ValueOf(r, k) ==
  CASE k = "ph" -> String(r.ph) [] k = "name" -> String("scope") [] k = "cat" -> String("app")
    [] k = "ts" -> Number(r.ts) [] k = "dur" -> Number(r.dur) [] k = "pid" -> Number(1) [] OTHER -> Number(r.tid)
MemberKeys == {"ph", "name", "cat", "ts", "dur", "pid", "tid"}

LEMMA TellsMore ==
  ASSUME NEW r, IsMade(r), NEW k \in MemberKeys, NEW ks, NEW g, NEW md, NEW e, AtEvent(g, md, e), Told(e, r, ks)
  PROVE  /\ Member(k, ValueOf(r, k)) \in Seq(Tokens)
         /\ \E f, d : Reads(g, Member(k, ValueOf(r, k)), f) /\ AtEvent(f, md, d) /\ Told(d, r, ks \cup {k})
<1>0. r.ph \in {"X", "C"} /\ r.ts \in Int /\ r.dur \in Int /\ r.tid \in Int
  BY DEF IsMade, IsRecord
<1>1. PICK t : t = ValueOf(r, k)
  OBVIOUS
<1>2. \/ k \in {"ts", "dur", "pid", "tid"} /\ (\E v \in Int : t = Number(v))
      \/ k \in {"name", "cat", "ph"} /\ \E v \in {"X", "C", "scope", "app"} : t = String(v)
  BY <1>0, <1>1 DEF ValueOf, MemberKeys
<1>3. IsMember(k, t)
  <2>1. \A v : Number(v).value = v /\ String(v).value = v
    BY DEF Number, String
  <2>2. \A v \in {"X", "C", "scope", "app"} : v # Blank
    BY DEF Blank
  <2> QED
    BY <1>2, <2>1, <2>2 DEF IsMember
<1>4. Member(k, t) \in Seq(Tokens)
  <2>1. t \in Tokens
    BY <1>2 DEF Tokens, NumberTokens, StringTokens, Texts, Words
  <2>2. k \in Texts
    BY DEF MemberKeys, Texts
  <2> QED
    BY <2>1, <2>2, MemberTokens
<1>5. PICK d : d = [e EXCEPT ![k] = t.value]
  OBVIOUS
<1>6. PICK f : Reads(g, Member(k, t), f) /\ AtEvent(f, md, d)
  BY <1>3, <1>5, MemberRead
<1>7. SetsField(d, e, k, t.value)
  <2>1. k \in EventFields /\ (k \in {"ts", "dur"} => t.value \in Int)
    BY <1>3 DEF MemberKeys, EventFields, IsMember
  <2> QED
    BY <1>5, <2>1, FieldSet DEF Told
<1>8. /\ k = "ph" => t.value = r.ph
      /\ k = "cat" => t.value = "app"
      /\ k = "ts" => t.value = r.ts
      /\ k = "dur" => t.value = r.dur
      /\ k = "pid" => t.value = 1
      /\ k = "tid" => t.value = r.tid
  BY <1>1 DEF ValueOf, Number, String
<1>9. Told(d, r, ks \cup {k})
  <2>1. /\ d.ph = (IF k = "ph" THEN t.value ELSE e.ph) /\ d.cat = (IF k = "cat" THEN t.value ELSE e.cat)
        /\ d.ts = (IF k = "ts" THEN t.value ELSE e.ts) /\ d.dur = (IF k = "dur" THEN t.value ELSE e.dur)
        /\ d.pid = (IF k = "pid" THEN t.value ELSE e.pid) /\ d.tid = (IF k = "tid" THEN t.value ELSE e.tid)
        /\ d.kind = (IF k = "kind" THEN t.value ELSE e.kind)
    BY <1>7 DEF SetsField, EventFields
  <2>2. k # "kind" /\ IsTimed(d)
    BY <1>7 DEF MemberKeys, SetsField
  <2> QED
    BY <1>8, <2>1, <2>2 DEF Told
<1> QED
  BY <1>1, <1>4, <1>6, <1>9

\* From g on, the tokens ts lead to an event that tells what is in ks.
Tell(g, md, r, ts, ks) == ts \in Seq(Tokens) /\ \E f, d : Reads(g, ts, f) /\ AtEvent(f, md, d) /\ Told(d, r, ks)

LEMMA TellsOn ==
  ASSUME NEW r, IsMade(r), NEW k \in MemberKeys, NEW ks, NEW g, NEW md, NEW ts, Tell(g, md, r, ts, ks),
         NEW m, m = Member(k, ValueOf(r, k))
  PROVE  Tell(g, md, r, ts \o m, ks \cup {k})
<1>1. PICK f, e : Reads(g, ts, f) /\ AtEvent(f, md, e) /\ Told(e, r, ks)
  BY DEF Tell
<1>2. m \in Seq(Tokens) /\ \E b, d : Reads(f, m, b) /\ AtEvent(b, md, d) /\ Told(d, r, ks \cup {k})
  BY <1>1, TellsMore
<1>3. PICK b, d : Reads(f, m, b) /\ AtEvent(b, md, d) /\ Told(d, r, ks \cup {k})
  BY <1>2
<1>4. ts \in Seq(Tokens)
  BY DEF Tell
<1>5. Reads(g, ts \o m, b)
  BY <1>1, <1>2, <1>3, <1>4, ReadsOn
<1>6. ts \o m \in Seq(Tokens)
  BY <1>2, <1>4
<1> QED
  BY <1>3, <1>5, <1>6 DEF Tell

\* A record becomes one event that tells it.
LEMMA RecordRead ==
  ASSUME NEW r, IsMade(r), NEW g, Fills(g), g.state = "InTraceEvents"
  PROVE  \E f, e : Reads(g, TokensOf(r), f) /\ Fills(f) /\ f.state = "InTraceEvents"
                   /\ f.model.events = Append(g.model.events, e) /\ Tells(e, r)
<1>1. PICK so, eo, ka, args, md : /\ so = [is |-> "startObject"] /\ eo = [is |-> "endObject"] /\ ka = [is |-> "key", value |-> "args"]
                                  /\ args = Through(LAMBDA tokens, k : tokens \o ArgMember(k), <<>>, r.args)
                                  /\ md = g.model
  OBVIOUS
<1>2. so \in Tokens /\ eo \in Tokens /\ ka \in Tokens
  BY <1>1 DEF Tokens, BracketTokens, KeyTokens, Texts
<1>3. PICK a : Reads(g, <<so>>, a) /\ AtEvent(a, md, NoEvent)
  BY <1>1, EventStarts
<1>4. Told(NoEvent, r, {})
  BY NothingYet DEF Told, NoEvent
<1>5. PICK ph, name, cat, ts, dur, pid, tid :
        /\ ph = Member("ph", String(r.ph)) /\ name = Member("name", String("scope")) /\ cat = Member("cat", String("app"))
        /\ ts = Member("ts", Number(r.ts)) /\ dur = Member("dur", Number(r.dur))
        /\ pid = Member("pid", Number(1)) /\ tid = Member("tid", Number(r.tid))
  OBVIOUS
<1>6. /\ ph = Member("ph", ValueOf(r, "ph")) /\ name = Member("name", ValueOf(r, "name")) /\ cat = Member("cat", ValueOf(r, "cat"))
      /\ ts = Member("ts", ValueOf(r, "ts")) /\ dur = Member("dur", ValueOf(r, "dur"))
      /\ pid = Member("pid", ValueOf(r, "pid")) /\ tid = Member("tid", ValueOf(r, "tid"))
  BY <1>5 DEF ValueOf
<1>a. MemberKeys = {"ph", "name", "cat", "ts", "dur", "pid", "tid"}
  BY DEF MemberKeys
<1>7. Tell(g, md, r, <<so>>, {})
  BY <1>2, <1>3, <1>4 DEF Tell
<1>8. Tell(g, md, r, <<so>> \o ph, {} \cup {"ph"})
  BY <1>6, <1>7, <1>a, TellsOn
<1>9. Tell(g, md, r, <<so>> \o ph \o name, {} \cup {"ph"} \cup {"name"})
  BY <1>6, <1>8, <1>a, TellsOn
<1>10. Tell(g, md, r, <<so>> \o ph \o name \o cat, {} \cup {"ph"} \cup {"name"} \cup {"cat"})
  BY <1>6, <1>9, <1>a, TellsOn
<1>11. PICK s4 : s4 = <<so>> \o ph \o name \o cat \o ts
  OBVIOUS
<1>12. Tell(g, md, r, s4, {"ph", "name", "cat", "ts"})
  <2>1. Tell(g, md, r, s4, {} \cup {"ph"} \cup {"name"} \cup {"cat"} \cup {"ts"})
    BY <1>6, <1>10, <1>11, <1>a, TellsOn
  <2>2. {} \cup {"ph"} \cup {"name"} \cup {"cat"} \cup {"ts"} = {"ph", "name", "cat", "ts"}
    OBVIOUS
  <2> QED
    BY <2>1, <2>2
<1>13. PICK s5, k5 : /\ s5 = s4 \o (IF r.ph = "X" THEN dur ELSE <<>>)
                     /\ k5 = IF r.ph = "X" THEN {"ph", "name", "cat", "ts"} \cup {"dur"} ELSE {"ph", "name", "cat", "ts"}
  OBVIOUS
<1>14. Tell(g, md, r, s5, k5)
  <2>1. CASE r.ph = "X"
    BY <1>6, <1>12, <1>13, <1>a, <2>1, TellsOn
  <2>2. CASE r.ph # "X"
    <3>1. s4 \o <<>> = s4
      BY <1>12 DEF Tell
    <3> QED
      BY <1>12, <1>13, <2>2, <3>1
  <2> QED
    BY <2>1, <2>2
<1>15. Tell(g, md, r, s5 \o pid, k5 \cup {"pid"})
  BY <1>6, <1>14, <1>a, TellsOn
<1>16. PICK s7, k7 : s7 = s5 \o pid \o tid /\ k7 = k5 \cup {"pid"} \cup {"tid"}
  OBVIOUS
<1>17. Tell(g, md, r, s7, k7)
  BY <1>6, <1>15, <1>16, <1>a, TellsOn
<1>18. PICK b, e : Reads(g, s7, b) /\ AtEvent(b, md, e) /\ Told(e, r, k7)
  BY <1>17 DEF Tell
<1>19. e.ph \in {"X", "C"} /\ e.cat = "app" /\ Tells(e, r)
  <2>1. {"ph", "cat", "ts", "pid", "tid"} \subseteq k7 /\ ("dur" \in k7 <=> r.ph = "X")
    BY <1>13, <1>16
  <2>2. r.ph = "X" \/ (r.ph = "C" /\ r.dur = 0)
    BY DEF IsMade
  <2> QED
    BY <1>18, <2>1, <2>2 DEF Told, Tells
<1>20. PICK c : Reads(b, <<ka, so>>, c) /\ AtArgs(c, md, e)
  BY <1>1, <1>18, ArgsStart
<1>21. PICK d : Reads(c, args, d) /\ AtArgs(d, md, e)
  <2>1. r.args \in Seq(Words)
    BY DEF IsMade, IsRecord
  <2> QED
    BY <1>1, <1>20, <2>1, ArgsRead
<1>22. PICK u, f : u = Handle(d, eo) /\ f = Handle(u, eo)
  OBVIOUS
<1>23. AtEvent(u, md, e) /\ Reads(d, <<eo, eo>>, f)
  BY <1>1, <1>21, <1>22, ArgsEnd, ReadsTwo
<1>24. Fills(f) /\ f.state = "InTraceEvents" /\ \E x : f.model.events = Append(md.events, x) /\ Tells(x, r)
  <2>1. f = Handle(u, [is |-> "endObject"])
    BY <1>1, <1>22
  <2> QED
    BY <1>19, <1>23, <2>1, EventEndsPlain
<1>25. TokensOf(r) = s7 \o <<ka, so>> \o args \o <<eo, eo>>
  <2>1. (IF r.ph = "X" THEN dur ELSE <<>>) = (IF r.ph = "X" THEN Member("dur", Number(r.dur)) ELSE <<>>)
    BY <1>5
  <2> QED
    BY <1>1, <1>5, <1>11, <1>13, <1>16, <2>1 DEF TokensOf
<1>26. s7 \in Seq(Tokens) /\ <<ka, so>> \in Seq(Tokens) /\ <<eo, eo>> \in Seq(Tokens) /\ args \in Seq(Tokens)
  <2>1. args \in Seq(Tokens)
    BY <1>1, ArgTokens DEF IsMade, IsRecord
  <2> QED
    BY <1>2, <1>17, <2>1 DEF Tell
<1>29. \A x, y \in Seq(Tokens) : x \o y \in Seq(Tokens)
  OBVIOUS
<1>27. s7 \o <<ka, so>> \in Seq(Tokens)
  BY <1>26, <1>29
<1>28. Reads(g, s7 \o <<ka, so>>, c)
  BY <1>18, <1>20, <1>26, ReadsOn
<1>30. Reads(g, s7 \o <<ka, so>> \o args, d)
  BY <1>21, <1>26, <1>27, <1>28, ReadsOn
<1>31. s7 \o <<ka, so>> \o args \in Seq(Tokens)
  BY <1>26, <1>27, <1>29
<1>32. Reads(g, s7 \o <<ka, so>> \o args \o <<eo, eo>>, f)
  BY <1>23, <1>26, <1>30, <1>31, ReadsOn
<1> QED
  BY <1>1, <1>24, <1>25, <1>32

TellEach(ev, rs, n) == Len(ev) = n /\ \A k \in 1..n : Tells(ev[k], rs[k])
ReadSoFar(g, ts, rs, k) ==
  ts \in Seq(Tokens) /\ \E f : Reads(g, ts, f) /\ Fills(f) /\ f.state = "InTraceEvents" /\ TellEach(f.model.events, rs, k)

LEMMA RecordsRead ==
  ASSUME NEW n \in Nat, NEW rs, Len(rs) = n, \A k \in 1..n : IsMade(rs[k]),
         NEW g, Fills(g), g.state = "InTraceEvents", g.model.events = <<>>
  PROVE  ReadSoFar(g, Through(LAMBDA tokens, r : tokens \o TokensOf(r), <<>>, rs), rs, n)
<1>1. \A k \in 1..n : IsRecord(rs[k])
  BY DEF IsMade
<1>2. PICK parts : parts = [k \in 1..n |-> TokensOf(rs[k])]
  OBVIOUS
<1>3. parts \in [1..n -> Seq(Tokens)]
  BY <1>1, <1>2, RecordTokens
<1>4. \A q : RecordSteps(q, rs) <=> IsJoined(q, parts, n)
  <2>1. \A q : [k \in 0..n |-> IF k = 0 THEN <<>> ELSE q[k - 1] \o TokensOf(rs[k])]
               = [k \in 0..n |-> IF k = 0 THEN <<>> ELSE q[k - 1] \o parts[k]]
    BY <1>2
  <2> QED
    BY <2>1 DEF RecordSteps, IsJoined
<1>5. PICK q : q = CHOOSE x : RecordSteps(x, rs)
  OBVIOUS
<1>6. IsJoined(q, parts, n)
  <2>1. \E x : RecordSteps(x, rs)
    BY <1>3, <1>4, JoinedIs
  <2> QED
    BY <1>4, <1>5, <2>1
<1>7. Through(LAMBDA tokens, r : tokens \o TokensOf(r), <<>>, rs) = q[n]
  BY <1>5 DEF Through, RecordSteps
<1> DEFINE S == {k \in 0..n : ReadSoFar(g, q[k], rs, k)}
<1>8. 0 \in S
  <2>1. q[0] = <<>> /\ Len(<<>>) = 0 /\ <<>> \in Seq(Tokens)
    BY <1>6 DEF IsJoined
  <2>2. Reads(g, <<>>, g)
    BY ReadsNone
  <2>3. TellEach(g.model.events, rs, 0)
    BY <2>1 DEF TellEach
  <2>4. ReadSoFar(g, q[0], rs, 0)
    BY <2>1, <2>2, <2>3 DEF ReadSoFar
  <2> QED
    BY <2>4
<1>9. ASSUME NEW k \in 0..n, k \in S, k < n PROVE k + 1 \in S
  <2>1. k + 1 \in 0..n /\ k + 1 # 0 /\ (k + 1) - 1 = k /\ k + 1 \in 1..n
    BY <1>9
  <2>2. q[k + 1] = q[k] \o parts[k + 1] /\ parts[k + 1] = TokensOf(rs[k + 1]) /\ parts[k + 1] \in Seq(Tokens)
    BY <1>2, <1>3, <1>6, <2>1 DEF IsJoined
  <2>3. q[k] \in Seq(Tokens) /\ \E f : Reads(g, q[k], f) /\ Fills(f) /\ f.state = "InTraceEvents" /\ TellEach(f.model.events, rs, k)
    BY <1>9 DEF ReadSoFar
  <2>4. PICK f : Reads(g, q[k], f) /\ Fills(f) /\ f.state = "InTraceEvents" /\ TellEach(f.model.events, rs, k)
    BY <2>3
  <2>5. PICK d, e : Reads(f, TokensOf(rs[k + 1]), d) /\ Fills(d) /\ d.state = "InTraceEvents"
                    /\ d.model.events = Append(f.model.events, e) /\ Tells(e, rs[k + 1])
    BY <2>1, <2>4, RecordRead
  <2>6. PICK ev, new : ev = f.model.events /\ new = d.model.events
    OBVIOUS
  <2>7. Pushed(ev, new, e)
    <3>1. IsSeq(ev)
      BY <2>4, <2>6 DEF Fills, IsEvents
    <3> QED
      BY <2>5, <2>6, <3>1, PathPushed
  <2>8. TellEach(new, rs, k + 1)
    <3>1. Len(ev) = k /\ \A j \in 1..k : Tells(ev[j], rs[j])
      BY <2>4, <2>6 DEF TellEach
    <3>2. Len(new) = k + 1 /\ (\A j \in 1..k : new[j] = ev[j]) /\ new[k + 1] = e
      BY <2>7, <3>1 DEF Pushed
    <3>3. \A j \in 1..k + 1 : j \in 1..k \/ j = k + 1
      OBVIOUS
    <3> QED
      BY <2>5, <3>1, <3>2, <3>3 DEF TellEach
  <2>9. Reads(g, q[k + 1], d)
    BY <2>2, <2>3, <2>4, <2>5, ReadsOn
  <2>10. q[k + 1] \in Seq(Tokens)
    BY <2>2, <2>3
  <2>11. ReadSoFar(g, q[k + 1], rs, k + 1)
    BY <2>5, <2>6, <2>8, <2>9, <2>10 DEF ReadSoFar
  <2> QED
    BY <2>1, <2>11
<1> HIDE DEF S
<1>10. \A k \in 0..n : k \in S
  BY <1>8, <1>9, UpTo
<1>11. n \in S
  BY <1>10
<1> QED
  BY <1>7, <1>11 DEF S

\* The head of the file opens the list of events.
LEMMA HeadRead ==
  \E f : /\ Reads(Handler, <<[is |-> "startObject"], [is |-> "key", value |-> "traceEvents"], [is |-> "startArray"]>>, f)
         /\ Fills(f) /\ f.state = "InTraceEvents" /\ f.model.events = <<>>
<1>1. PICK x, y, z, a, b, c : /\ x = [is |-> "startObject"] /\ y = [is |-> "key", value |-> "traceEvents"] /\ z = [is |-> "startArray"]
                              /\ a = Handle(Handler, x) /\ b = Handle(a, y) /\ c = Handle(b, z)
  OBVIOUS
<1>2. x.is = "startObject" /\ z.is = "startArray" /\ IsToken(x) /\ IsToken(z)
  BY <1>1 DEF IsToken
<1>3. Handler.state = "TopLevel" /\ Handler.model.events = <<>> /\ Fills(Handler) /\ IsHandler(Handler)
  BY HandlerFills DEF Handler, EmptyModel, Fills
<1>4. a = [Handler EXCEPT !.state = "InTopObject"]
  BY <1>1, <1>2, <1>3, Zenon DEF Handle, OnStartObject
<1>5. Fills(a) /\ a.state = "InTopObject" /\ a.model.events = <<>>
  <2>1. Fills(a)
    BY <1>1, <1>2, <1>3, TokenFills
  <2>2. PICK g : g = Handler
    OBVIOUS
  <2>3. a.state = "InTopObject" /\ a.model = g.model
    BY <1>3, <1>4, <2>2 DEF IsHandler
  <2> QED
    BY <1>3, <2>1, <2>2, <2>3
<1>6. Fills(b) /\ b.key = "traceEvents" /\ b.state = "InTopObject" /\ b.model = a.model
  BY <1>1, <1>5, KeyRead, SMTT(30)
<1>7. c = [b EXCEPT !.state = "InTraceEvents"]
  BY <1>1, <1>2, <1>6, Zenon DEF Handle, OnStartArray
<1>8. Fills(c)
  BY <1>1, <1>2, <1>6, TokenFills
<1>9. c.state = "InTraceEvents" /\ c.model = b.model
  BY <1>6, <1>7 DEF IsHandler, Fills
<1>10. Reads(Handler, <<x, y, z>>, c)
  <2>1. PICK r : r = [k \in 0..3 |-> IF k = 0 THEN Handler ELSE IF k = 1 THEN a ELSE IF k = 2 THEN b ELSE c]
    OBVIOUS
  <2>2. PICK ts : ts = <<x, y, z>>
    OBVIOUS
  <2>3. Len(ts) = 3 /\ ts[1] = x /\ ts[2] = y /\ ts[3] = z
    BY <2>2
  <2>4. r[0] = Handler /\ r[1] = a /\ r[2] = b /\ r[3] = c
    BY <2>1
  <2>5. ASSUME NEW k \in 1..3 PROVE r[k] = Handle(r[k - 1], ts[k])
    <3>1. (k = 1 /\ k - 1 = 0) \/ (k = 2 /\ k - 1 = 1) \/ (k = 3 /\ k - 1 = 2)
      OBVIOUS
    <3> QED
      BY <1>1, <2>3, <2>4, <3>1
  <2>6. LeadsOn(r, Handler, ts, c)
    BY <2>3, <2>4, <2>5 DEF LeadsOn
  <2> QED
    BY <2>2, <2>6 DEF Reads
<1> QED
  BY <1>1, <1>5, <1>6, <1>8, <1>9, <1>10

\* What follows the list leaves the events alone.
LEMMA TailRead ==
  ASSUME NEW p, NEW ts \in Seq(Tokens), NEW g, Reads(p, ts, g), Fills(g), g.state = "InTraceEvents"
  PROVE  \E f : Reads(p, ts \o <<[is |-> "endArray"]>> \o Member("displayTimeUnit", String("us")) \o <<[is |-> "endObject"]>>, f)
                /\ f.model = g.model
<1>1. PICK x, y, z, t, a, b, c, d :
        /\ x = [is |-> "endArray"] /\ y = [is |-> "key", value |-> "displayTimeUnit"] /\ z = String("us") /\ t = [is |-> "endObject"]
        /\ a = Handle(g, x) /\ b = Handle(a, y) /\ c = Handle(b, z) /\ d = Handle(c, t)
  BY Zenon
<1>2. x.is = "endArray" /\ z.is = "string" /\ z.value = "us" /\ t.is = "endObject" /\ IsToken(x) /\ IsToken(z) /\ IsToken(t)
  BY <1>1 DEF IsToken, String
<1>3. a = [g EXCEPT !.state = "InTopObject"] /\ Fills(a)
  BY <1>1, <1>2, TokenFills, Zenon DEF Handle, OnEndArray
<1>4. a.state = "InTopObject" /\ a.model = g.model
  BY <1>3 DEF Fills, IsHandler
<1>5. Fills(b) /\ b.state = "InTopObject" /\ b.model = g.model
  BY <1>1, <1>3, <1>4, KeyRead
<1>6. c = b /\ Fills(c)
  <2>1. c = OnString(b, "us")
    BY <1>1, <1>2, Zenon DEF Handle
  <2>2. b.state \notin {"InArgs", "InEvent", "InStackFrame"}
    BY <1>5
  <2>3. OnString(b, "us") = b
    BY <2>2 DEF OnString
  <2> QED
    BY <1>5, <2>1, <2>3, Zenon
<1>7. d = [c EXCEPT !.state = "TopLevel"] /\ Fills(d)
  <2>1. d = OnEndObject(c)
    BY <1>1, <1>2, Zenon DEF Handle
  <2>2. c.state = "InTopObject" /\ Fills(c)
    BY <1>5, <1>6
  <2>3. OnEndObject(c) = [c EXCEPT !.state = "TopLevel"]
    BY <2>2 DEF OnEndObject
  <2>4. Fills(d)
    BY <1>1, <1>2, <2>2, TokenFills
  <2> QED
    BY <2>1, <2>3, <2>4, Zenon
<1>8. d.model = g.model
  BY <1>5, <1>6, <1>7 DEF Fills, IsHandler
<1>9. x \in Tokens /\ y \in Tokens /\ z \in Tokens /\ t \in Tokens
  BY <1>1 DEF Tokens, BracketTokens, KeyTokens, StringTokens, Texts
<1>10. Member("displayTimeUnit", String("us")) = <<y, z>>
  BY <1>1 DEF Member
<1>11. <<x>> \in Seq(Tokens) /\ <<y, z>> \in Seq(Tokens) /\ <<t>> \in Seq(Tokens)
  BY <1>9
<1>12. Reads(g, <<x>>, a) /\ Reads(a, <<y, z>>, c) /\ Reads(c, <<t>>, d)
  BY <1>1, ReadsOne, ReadsTwo
<1>13. \A s, w \in Seq(Tokens) : s \o w \in Seq(Tokens)
  OBVIOUS
<1>14. Reads(p, ts \o <<x>>, a) /\ ts \o <<x>> \in Seq(Tokens)
  BY <1>11, <1>12, <1>13, ReadsOn
<1>15. Reads(p, ts \o <<x>> \o <<y, z>>, c)
  BY <1>11, <1>12, <1>14, ReadsOn
<1>16. ts \o <<x>> \o <<y, z>> \in Seq(Tokens)
  BY <1>11, <1>13, <1>14
<1>17. Reads(p, ts \o <<x>> \o <<y, z>> \o <<t>>, d)
  BY <1>11, <1>12, <1>15, <1>16, ReadsOn
<1> QED
  BY <1>1, <1>8, <1>10, <1>17

\* What was written is read: the events are those of the records, in their order.
LEMMA FileRead ==
  ASSUME file \in Seq(ItemsOf(file)), FileKeeps(file)
  PROVE  \E f : AfterAll(FileTokens) = f /\ TellEach(f.model.events, Records(file), Len(Records(file)))
<1>1. PICK n \in Nat : n = Len(file)
  OBVIOUS
<1>2. PICK P : P = {k \in DOMAIN file : file[k].what = "record"}
  OBVIOUS
<1>3. P \in SUBSET (1..n)
  BY <1>1, <1>2
<1>4. PICK rs : rs = Records(file)
  OBVIOUS
<1>5. rs = Kept(file, P)
  BY <1>2, <1>4 DEF Records
<1>6. Len(rs) \in Nat /\ \A k \in 1..Len(rs) : \E i \in P : rs[k] = file[i]
  <2>1. KeptOf(Kept(file, P), file, P)
    BY <1>3, KeptItems
  <2> QED
    BY <1>5, <2>1 DEF KeptOf
<1>7. PICK m \in Nat : m = Len(rs)
  BY <1>6
<1>8. \A k \in 1..m : IsMade(rs[k])
  BY <1>2, <1>6, <1>7 DEF FileKeeps, InFile
<1>9. PICK ts : ts = FileTokens
  OBVIOUS
<1>10. ts \in Seq(Tokens)
  <2>1. Recorded(file)
    BY DEF Recorded, FileKeeps, InFile, IsMade
  <2> QED
    BY <1>9, <2>1, FileTokensAre
<1>11. PICK body, head : /\ body = Through(LAMBDA tokens, r : tokens \o TokensOf(r), <<>>, rs)
                         /\ head = <<[is |-> "startObject"], [is |-> "key", value |-> "traceEvents"], [is |-> "startArray"]>>
  OBVIOUS
<1>12. ts = head \o body \o <<[is |-> "endArray"]>> \o Member("displayTimeUnit", String("us")) \o <<[is |-> "endObject"]>>
  BY <1>4, <1>9, <1>11 DEF FileTokens
<1>13. PICK a : Reads(Handler, head, a) /\ Fills(a) /\ a.state = "InTraceEvents" /\ a.model.events = <<>>
  BY <1>11, HeadRead
<1>14. ReadSoFar(a, body, rs, m)
  BY <1>7, <1>8, <1>11, <1>13, RecordsRead
<1>15. body \in Seq(Tokens)
  BY <1>14 DEF ReadSoFar
<1>16. PICK b : Reads(a, body, b) /\ Fills(b) /\ b.state = "InTraceEvents" /\ TellEach(b.model.events, rs, m)
  BY <1>14 DEF ReadSoFar
<1>17. head \in Seq(Tokens)
  <2>1. PICK x, y, z : x = [is |-> "startObject"] /\ y = [is |-> "key", value |-> "traceEvents"] /\ z = [is |-> "startArray"]
    OBVIOUS
  <2>2. x \in Tokens /\ y \in Tokens /\ z \in Tokens
    BY <2>1 DEF Tokens, BracketTokens, KeyTokens, Texts
  <2>3. head = <<x, y, z>>
    BY <1>11, <2>1
  <2> QED
    BY <2>2, <2>3
<1>18. Reads(Handler, head \o body, b) /\ head \o body \in Seq(Tokens)
  BY <1>13, <1>15, <1>16, <1>17, ReadsOn
<1>19. PICK c : Reads(Handler, ts, c) /\ c.model = b.model
  <2>1. PICK pre : pre = head \o body
    OBVIOUS
  <2>2. pre \in Seq(Tokens) /\ Reads(Handler, pre, b)
    BY <1>18, <2>1
  <2>3. \E c : Reads(Handler, pre \o <<[is |-> "endArray"]>> \o Member("displayTimeUnit", String("us")) \o <<[is |-> "endObject"]>>, c)
               /\ c.model = b.model
    BY <1>16, <2>2, TailRead
  <2> QED
    BY <1>12, <2>1, <2>3
<1>20. AfterAll(ts) = c
  BY <1>10, <1>19, AfterAllReads
<1> QED
  BY <1>4, <1>7, <1>9, <1>16, <1>19, <1>20

-----------------------------------------------------------------------------
(* The records of a file are listed once, in their order. *)
ListsRecords(rs, n, R) ==
  /\ DOMAIN rs = 1..n /\ Len(rs) = n /\ R = {rs[k] : k \in 1..n}
  /\ \A j, k \in 1..n : rs[j].id = rs[k].id => j = k

LEMMA RecordsListed ==
  ASSUME file \in Seq(ItemsOf(file)), OneOfEach(file)
  PROVE  \E n \in Nat : ListsRecords(Records(file), n, InFile(file))
<1>1. PICK m \in Nat : m = Len(file)
  OBVIOUS
<1>2. PICK P : P = {k \in DOMAIN file : file[k].what = "record"}
  OBVIOUS
<1>3. P \in SUBSET (1..m) /\ \A j \in 1..m : j \in P <=> file[j].what = "record"
  BY <1>1, <1>2
<1>4. PICK at, rs : Rises(at, P) /\ Picks(rs, at, file) /\ rs = Records(file)
  <2>1. PICK at : Rises(at, P) /\ Picks(Kept(file, P), at, file)
    BY <1>3, KeptAre
  <2> QED
    BY <1>2, <2>1 DEF Records
<1>5. /\ at \in Seq(P)
      /\ \A x \in P : \E k \in 1..Len(at) : at[k] = x
      /\ \A j, k \in 1..Len(at) : j < k => at[j] < at[k]
  <2>1. PICK R : R = {p \in P \X P : p[1] < p[2]}
    OBVIOUS
  <2>2. Sorts(at, P, R)
    BY <1>4, <2>1 DEF Rises
  <2>3. \A j, k \in 1..Len(at) : j < k => at[j] < at[k]
    BY <2>1, <2>2 DEF Sorts
  <2> QED
    BY <2>2, <2>3 DEF Sorts
<1>6. PICK n \in Nat : n = Len(at)
  BY <1>5
<1>7. rs = [k \in 1..n |-> file[at[k]]] /\ \A k \in 1..n : at[k] \in P /\ at[k] \in 1..m
  <2>1. DOMAIN at = 1..n
    BY <1>5, <1>6
  <2>2. rs = [k \in 1..n |-> file[at[k]]]
    BY <1>4, <2>1 DEF Picks
  <2>3. \A k \in 1..n : at[k] \in P
    BY <1>5, <1>6
  <2> QED
    BY <1>3, <2>2, <2>3
<1>8. DOMAIN rs = 1..n /\ Len(rs) = n
  BY <1>7
<1>9. InFile(file) = {rs[k] : k \in 1..n}
  <2>1. InFile(file) = {file[k] : k \in P}
    BY <1>1, <1>3 DEF InFile
  <2> QED
    BY <1>5, <1>6, <1>7, <2>1
<1>10. ASSUME NEW j \in 1..n, NEW k \in 1..n, rs[j].id = rs[k].id PROVE j = k
  <2>1. at[j] = at[k]
    BY <1>1, <1>3, <1>7, <1>10 DEF OneOfEach
  <2>2. ~(j < k) /\ ~(k < j)
    BY <1>3, <1>5, <1>6, <1>7, <2>1
  <2> QED
    BY <2>2
<1> QED
  BY <1>4, <1>8, <1>9, <1>10 DEF ListsRecords

-----------------------------------------------------------------------------
(* The innermost scope that covers a scope is the one it was opened in. *)
Tagged(q, rs, n) == DOMAIN q = 1..n /\ \A k \in 1..n : Tells(q[k], rs[k])
InThread(rs, n, t) == {k \in 1..n : rs[k].tid = t /\ rs[k].ph = "X"}
TellApart(rs, n, t) ==
  \A i, j \in InThread(rs, n, t) : rs[i].dur > 0 /\ (i # j => rs[i].ts # rs[j].ts \/ rs[i].dur # rs[j].dur)
Surrounds(a, b) == a.dur > 0 /\ a.ts <= b.ts /\ b.ts < a.ts + a.dur /\ b.ts + b.dur <= a.ts + a.dur
Shows(q, rs, n) ==
  /\ Tagged(q, rs, n)
  /\ \A i \in 1..n : rs[i].ph = "X" =>
       Innermost(Times(q, n), Durs(q, n), Sides(q, n), InThread(rs, n, rs[i].tid), q[i].parent, i)

\* A record around another of its thread is the one it was opened in, or is around that one.
LEMMA SurroundsOpen ==
  ASSUME NEW R, FileLies(R), \A r \in R : IsMade(r), Unique(R), NEW c \in R, NEW b \in R, c.ph = "X", b.ph = "X", c.tid = b.tid,
         b.dur > 0, c # b, c.ts # b.ts \/ c.dur # b.dur, Surrounds(c, b)
  PROVE  \E o \in R : /\ o.id = b.inside /\ o.ph = "X" /\ o.tid = b.tid /\ o # b
                      /\ c = o \/ (c.id < o.id /\ c # o)
<1>1. /\ c.ts \in Int /\ c.dur \in Int /\ b.ts \in Int /\ b.dur \in Int /\ c.id \in Nat /\ b.id \in Nat /\ b.inside \in Nat
  BY DEF IsMade, IsRecord
<1>2. c.id # b.id
  BY DEF Unique
<1>3. c \in ScopesOf(R, b.tid) /\ b \in ScopesOf(R, c.tid)
  BY DEF ScopesOf
<1>4. SitsIn(R, b) /\ SitsIn(R, c)
  BY DEF FileLies
<1>5. CASE c.id < b.id
  <2>1. ~IsOver(c, b)
    BY <1>1 DEF IsOver, Surrounds
  <2>2. c.id <= b.inside /\ \E o \in R : o.id = b.inside
    BY <1>3, <1>4, <1>5, <2>1 DEF SitsIn
  <2>3. PICK o \in R : o.id = b.inside
    BY <2>2
  <2>4. o.tid = b.tid /\ o.ph = "X" /\ o.id < b.id
    BY <1>4, <2>3 DEF SitsIn
  <2>5. o # b /\ o.id \in Nat
    BY <1>1, <2>3, <2>4
  <2>6. c = o \/ (c.id < o.id /\ c # o)
    BY <1>1, <2>2, <2>3, <2>5 DEF Unique
  <2> QED
    BY <2>3, <2>4, <2>5, <2>6
<1>6. CASE b.id < c.id
  <2>1. ~IsOver(b, c)
    BY <1>1 DEF IsOver, Surrounds
  <2>2. Holds(b, c)
    BY <1>3, <1>4, <1>6, <2>1 DEF SitsIn
  <2>3. FALSE
    BY <1>1, <2>2 DEF Holds, Surrounds
  <2> QED
    BY <2>3
<1> QED
  BY <1>1, <1>2, <1>5, <1>6

\* The record a scope was opened in is around it.
LEMMA OpenSurrounds ==
  ASSUME NEW R, FileLies(R), \A r \in R : IsMade(r), NEW b \in R, b.ph = "X", b.dur > 0, NEW o \in R, o.id = b.inside
  PROVE  Holds(o, b) /\ o.ph = "X" /\ o.tid = b.tid /\ o.id < b.id
<1>1. SitsIn(R, b)
  BY DEF FileLies
<1>2. o.tid = b.tid /\ o.ph = "X" /\ o.id < b.id
  BY <1>1 DEF SitsIn
<1>3. o \in ScopesOf(R, b.tid)
  BY <1>2 DEF ScopesOf
<1> QED
  BY <1>1, <1>2, <1>3 DEF SitsIn

\* Of two records around one scope, the one opened first holds the other.
LEMMA FirstHolds ==
  ASSUME NEW R, FileLies(R), \A r \in R : IsMade(r), NEW c \in R, NEW o \in R, c.ph = "X", o.ph = "X", c.tid = o.tid, c.id < o.id,
         NEW b, b.ts \in Int, c.ts + c.dur > b.ts, o.ts <= b.ts
  PROVE  Holds(c, o)
<1>1. SitsIn(R, o) /\ c \in ScopesOf(R, o.tid)
  BY DEF FileLies, ScopesOf
<1>2. c.ts \in Int /\ c.dur \in Int /\ o.ts \in Int
  BY DEF IsMade, IsRecord
<1>3. ~IsOver(c, o)
  BY <1>2 DEF IsOver
<1> QED
  BY <1>1, <1>3 DEF SitsIn

LEMMA ShownAre ==
  ASSUME NEW n \in Nat, NEW q, NEW rs, Shows(q, rs, n), NEW R, ListsRecords(rs, n, R), FileLies(R), \A r \in R : IsMade(r),
         NEW t, TellApart(rs, n, t), NEW i \in InThread(rs, n, t)
  PROVE  q[i].parent = IF rs[i].inside \in {rs[k].id : k \in 1..n} THEN CHOOSE p \in 1..n : rs[p].id = rs[i].inside ELSE None
<1>1. PICK T, D, K, S, b, u : T = Times(q, n) /\ D = Durs(q, n) /\ K = Sides(q, n) /\ S = InThread(rs, n, t) /\ b = rs[i] /\ u = q[i].parent
  OBVIOUS
<1>2. i \in 1..n /\ b.tid = t /\ b.ph = "X" /\ i \in S
  BY <1>1 DEF InThread
<1>3. Innermost(T, D, K, S, u, i)
  BY <1>1, <1>2 DEF Shows
<1>4. \A k \in 1..n : rs[k] \in R /\ IsMade(rs[k]) /\ rs[k].ts \in Int /\ rs[k].dur \in Int
  <2>1. \A k \in 1..n : rs[k] \in R
    BY DEF ListsRecords
  <2> QED
    BY <2>1 DEF IsMade, IsRecord
<1>5. \A j, k \in 1..n : rs[j].id = rs[k].id => j = k
  BY DEF ListsRecords
<1>6. Unique(R)
  BY <1>5 DEF ListsRecords, Unique
<1>7. \A k \in 1..n : T[k] = rs[k].ts /\ D[k] = rs[k].dur /\ K[k] = "measured"
  BY <1>1 DEF Shows, Tagged, Tells, Times, Durs, Sides, Track
<1>8. \A k \in S : k \in 1..n /\ rs[k].ph = "X" /\ rs[k].tid = t
  BY <1>1 DEF InThread
<1>9. \A j, k \in S : rs[j].dur > 0 /\ (j # k => rs[j].ts # rs[k].ts \/ rs[j].dur # rs[k].dur)
  BY <1>1 DEF TellApart
<1>10. \A j, k \in S : Ahead(T, D, j, k) <=>
         rs[j].ts < rs[k].ts \/ (rs[j].ts = rs[k].ts /\ rs[j].dur > rs[k].dur) \/ (rs[j].ts = rs[k].ts /\ rs[j].dur = rs[k].dur /\ j < k)
  BY <1>7, <1>8 DEF Ahead
<1>11. ASSUME NEW p \in S, Covers(T, D, K, p, i) PROVE p # i /\ Surrounds(rs[p], b)
  <2>1. Ahead(T, D, p, i) /\ T[i] < T[p] + D[p] /\ T[i] + D[i] <= T[p] + D[p] /\ D[p] > 0
    BY <1>11 DEF Covers
  <2>2. p # i /\ rs[p].ts <= b.ts
    <3>1. p \in 1..n /\ p \in Int /\ i \in Int
      BY <1>2, <1>8
    <3>2. rs[p].ts \in Int /\ rs[i].ts \in Int /\ rs[p].dur \in Int /\ rs[i].dur \in Int
      BY <1>2, <1>4, <3>1
    <3>3. rs[p].ts < rs[i].ts \/ (rs[p].ts = rs[i].ts /\ rs[p].dur > rs[i].dur) \/ (rs[p].ts = rs[i].ts /\ rs[p].dur = rs[i].dur /\ p < i)
      BY <1>2, <1>10, <2>1
    <3>4. p # i
      BY <3>1, <3>2, <3>3
    <3> QED
      BY <1>1, <3>2, <3>3, <3>4
  <2> QED
    BY <1>1, <1>2, <1>7, <1>8, <2>1, <2>2 DEF Surrounds
<1>12. ASSUME NEW p \in S, Covers(T, D, K, p, i)
       PROVE  \E o \in S : rs[o].id = b.inside /\ (p = o \/ rs[p].id < rs[o].id)
  <2>1. PICK c : c = rs[p]
    OBVIOUS
  <2>2. p # i /\ p \in 1..n /\ Surrounds(c, b) /\ c.ph = "X" /\ c.tid = b.tid /\ b.dur > 0 /\ (c.ts # b.ts \/ c.dur # b.dur)
    BY <1>1, <1>2, <1>8, <1>9, <1>11, <1>12, <2>1
  <2>3. c \in R /\ b \in R /\ c # b
    BY <1>1, <1>2, <1>4, <1>5, <2>1, <2>2
  <2>4. PICK o \in R : o.id = b.inside /\ o.ph = "X" /\ o.tid = b.tid /\ (c = o \/ c.id < o.id)
    BY <1>2, <1>4, <1>6, <2>2, <2>3, SurroundsOpen
  <2>5. PICK k \in 1..n : rs[k] = o
    BY DEF ListsRecords
  <2>6. k \in S
    BY <1>1, <1>2, <2>4, <2>5 DEF InThread
  <2> QED
    BY <1>5, <2>1, <2>2, <2>4, <2>5, <2>6
<1>13. CASE \E o \in 1..n : rs[o].id = b.inside
  <2>1. PICK o \in 1..n : rs[o].id = b.inside
    BY <1>13
  <2>2. PICK a : a = rs[o]
    OBVIOUS
  <2>3. a \in R /\ b \in R /\ b.dur > 0
    BY <1>1, <1>2, <1>4, <1>9, <2>2
  <2>4. Holds(a, b) /\ a.ph = "X" /\ a.tid = t /\ a.id < b.id
    BY <1>2, <1>4, <2>1, <2>2, <2>3, OpenSurrounds
  <2>5. o \in S /\ o # i
    <3>1. b.id \in Nat
      BY <1>4, <2>3 DEF IsMade
    <3> QED
      BY <1>1, <2>2, <2>4, <3>1 DEF InThread
  <2>6. a.dur > 0 /\ (a.ts # b.ts \/ a.dur # b.dur) /\ a.ts \in Int /\ a.dur \in Int /\ b.ts \in Int /\ b.dur \in Int
    BY <1>1, <1>2, <1>4, <1>9, <2>2, <2>5
  <2>7. Covers(T, D, K, o, i)
    <3>1. a.ts < b.ts \/ (a.ts = b.ts /\ a.dur > b.dur)
      BY <2>4, <2>6 DEF Holds
    <3>2. Ahead(T, D, o, i)
      BY <1>1, <1>2, <1>10, <2>2, <2>5, <3>1
    <3>3. b.ts < a.ts + a.dur /\ b.ts + b.dur <= a.ts + a.dur
      BY <2>3, <2>4, <2>6 DEF Holds
    <3> QED
      BY <1>1, <1>2, <1>7, <2>2, <2>6, <3>2, <3>3 DEF Covers
  <2>8. u \in S /\ Covers(T, D, K, u, i) /\ (o = u \/ Ahead(T, D, o, u))
    BY <1>3, <2>5, <2>7 DEF Innermost
  <2>9. ASSUME u # o PROVE FALSE
    <3>1. PICK c : c = rs[u]
      OBVIOUS
    <3>2. c.id < a.id
      <4>1. PICK x \in S : rs[x].id = b.inside /\ (u = x \/ rs[u].id < rs[x].id)
        BY <1>12, <2>8
      <4>2. x = o
        BY <1>5, <1>8, <2>1, <4>1
      <4> QED
        BY <2>2, <2>9, <3>1, <4>1, <4>2
    <3>3. c \in R /\ c.ph = "X" /\ c.tid = a.tid /\ c.ts \in Int /\ c.dur \in Int
      BY <1>4, <1>8, <2>4, <2>8, <3>1
    <3>4. Surrounds(c, b)
      BY <1>11, <2>8, <3>1
    <3>5. Holds(c, a)
      <4>1. c.ts + c.dur > b.ts /\ a.ts <= b.ts
        BY <2>4, <2>6, <3>3, <3>4 DEF Holds, Surrounds
      <4> QED
        BY <1>4, <2>3, <2>4, <2>6, <3>2, <3>3, <4>1, FirstHolds
    <3>6. a.ts < c.ts \/ (a.ts = c.ts /\ a.dur >= c.dur)
      <4>1. Ahead(T, D, o, u)
        BY <2>8, <2>9
      <4> QED
        BY <1>10, <2>2, <2>5, <2>6, <2>8, <3>1, <3>3, <4>1
    <3>7. a.ts # c.ts \/ a.dur # c.dur
      BY <1>9, <2>2, <2>5, <2>8, <2>9, <3>1
    <3> QED
      BY <2>6, <3>3, <3>5, <3>6, <3>7 DEF Holds
  <2>10. u = o
    BY <2>9
  <2>11. o = CHOOSE p \in 1..n : rs[p].id = b.inside
    BY <1>5, <2>1
  <2>12. b.inside \in {rs[k].id : k \in 1..n}
    BY <2>1
  <2> QED
    BY <1>1, <2>10, <2>11, <2>12
<1>14. CASE ~\E o \in 1..n : rs[o].id = b.inside
  <2>1. \A p \in S : ~Covers(T, D, K, p, i)
    BY <1>8, <1>12, <1>14
  <2>2. u = None
    BY <1>3, <2>1 DEF Innermost
  <2>3. b.inside \notin {rs[k].id : k \in 1..n}
    BY <1>14
  <2> QED
    BY <1>1, <2>2, <2>3
<1> QED
  BY <1>13, <1>14

\* The index of the file shows its records, each in the innermost around it.
LEMMA FileShown ==
  ASSUME file \in Seq(ItemsOf(file)), FileKeeps(file), NEW g, g = AfterAll(FileTokens), Fills(g), NEW frames
  PROVE  \E n \in Nat : /\ ListsRecords(Records(file), n, InFile(file))
                        /\ Shows(BuildIndex(g.model.events, frames).events, Records(file), n)
<1>1. PICK n \in Nat : ListsRecords(Records(file), n, InFile(file))
  BY RecordsListed DEF FileKeeps
<1>2. PICK rs, ev, q : rs = Records(file) /\ ev = g.model.events /\ q = BuildIndex(ev, frames).events
  OBVIOUS
<1>3. Len(rs) = n /\ \A k \in 1..n : IsMade(rs[k])
  BY <1>1, <1>2 DEF ListsRecords, FileKeeps
<1>4. Len(ev) = n /\ \A k \in 1..n : Tells(ev[k], rs[k])
  <2>1. PICK f : AfterAll(FileTokens) = f /\ TellEach(f.model.events, rs, Len(rs))
    BY <1>2, FileRead
  <2> QED
    BY <1>2, <1>3, <2>1 DEF TellEach
<1>5. DOMAIN ev = 1..n /\ AreTimed(ev)
  <2>1. IsSeq(ev) /\ AreTimed(ev)
    BY <1>2 DEF Fills, IsEvents
  <2> QED
    BY <1>4, <2>1 DEF IsSeq
<1>6. PlainOnly(ev)
  BY <1>3, <1>4, <1>5 DEF PlainOnly, Tells, IsMade
<1>7. /\ DOMAIN q = 1..n /\ \A i \in 1..n : PlainLike(q[i], ev[i])
      /\ \A i \in 1..n : q[i].ph = "X" =>
           Innermost(Times(q, n), Durs(q, n), Sides(q, n), LastingOf(q, ThreadOf(q[i])), q[i].parent, i)
  BY <1>2, <1>5, <1>6, PlainNests
<1>8. \A k \in 1..n : Tells(q[k], rs[k])
  BY <1>4, <1>7 DEF Tells, PlainLike
<1>9. ASSUME NEW i \in 1..n PROVE LastingOf(q, ThreadOf(q[i])) = InThread(rs, n, rs[i].tid)
  <2>1. \A k \in 1..n : ThreadOf(q[k]) = <<1, rs[k].tid>> /\ q[k].ph = rs[k].ph
    BY <1>8 DEF Tells, ThreadOf
  <2> QED
    BY <1>7, <2>1 DEF LastingOf, InThread
<1>10. ASSUME NEW i \in 1..n, rs[i].ph = "X"
       PROVE  Innermost(Times(q, n), Durs(q, n), Sides(q, n), InThread(rs, n, rs[i].tid), q[i].parent, i)
  <2>1. q[i].ph = "X"
    BY <1>8, <1>10 DEF Tells
  <2> QED
    BY <1>7, <1>9, <2>1
<1>11. Shows(q, rs, n)
  BY <1>7, <1>8, <1>10 DEF Shows, Tagged
<1> QED
  BY <1>1, <1>2, <1>11

ShownInv ==
  source = "self" /\ phase = "indexed" =>
    process = "over" /\ \E n \in Nat : ListsRecords(Records(file), n, InFile(file)) /\ Shows(index.events, Records(file), n)

LEMMA OverStays == process = "over" /\ TracerNext => FALSE
BY DEF TracerNext, Tick, SetOutput, Close, Exit, Killed, EnterScope, LeaveScope, WriteCounter, Locked, Separate, PrintRecord

LEMMA ShownNext ==
  TracerInv /\ WritesInv /\ RecordsLie /\ ShownInv /\ [Next]_vars => ShownInv'
<1> SUFFICES ASSUME TracerInv, WritesInv, RecordsLie, ShownInv, [Next]_vars, source' = "self", phase' = "indexed"
             PROVE  /\ process' = "over"
                    /\ \E n \in Nat : ListsRecords(Records(file'), n, InFile(file')) /\ Shows(index'.events, Records(file'), n)
  BY DEF ShownInv
<1>1. CASE ReadSelf
  <2>1. process = "over" /\ process' = process /\ file' = file
    BY <1>1 DEF ReadSelf, tracerVars
  <2>2. h' = AfterAll(FileTokens) /\ index' = BuildIndex(h'.model.events, h'.model.frames)
    BY <1>1 DEF ReadSelf
  <2>3. file \in Seq(ItemsOf(file)) /\ FileKeeps(file)
    BY DEF TracerInv, FileGrows, RecordsLie
  <2>4. FileTokens \in Seq(Tokens)
    BY <2>3, FileTokensAre DEF WritesInv
  <2>5. Fills(h')
    BY <2>2, <2>4, AfterAllFills
  <2> QED
    BY <2>1, <2>2, <2>3, <2>5, FileShown
<1>2. CASE UNCHANGED vars
  BY <1>2 DEF ShownInv, vars, tracerVars
<1>3. CASE source = "self" /\ TracerNext /\ UNCHANGED <<source, phase, h, docVars, index>>
  <2>1. process = "over"
    BY <1>3 DEF ShownInv
  <2> QED
    BY <1>3, <2>1, OverStays
<1>4. ~(Key \/ Scalar \/ Open("object") \/ Open("array") \/ Shut \/ Finish \/ CutShort \/ AddEvent \/ BuildAll \/ Rebuild)
  BY DEF Key, Scalar, Open, Shut, Finish, CutShort, AddEvent, BuildAll, Rebuild, Reading, Feed
<1> QED
  BY <1>1, <1>2, <1>3, <1>4 DEF Next

LEMMA ShownNests == RecordsLie /\ ShownInv => ScopesNest
<1> SUFFICES ASSUME RecordsLie, ShownInv, source = "self", Indexed, NEW tid \in Writers, Distinct(tid), NEW k \in Intervals(tid)
             PROVE  Ev(k).parent = IF Records(file)[k].inside \in {Records(file)[p].id : p \in DOMAIN Records(file)}
                                   THEN CHOOSE p \in DOMAIN Records(file) : Records(file)[p].id = Records(file)[k].inside ELSE None
  BY Zenon DEF ScopesNest
<1>1. PICK rs, q, R : rs = Records(file) /\ q = index.events /\ R = InFile(file)
  OBVIOUS
<1>2. PICK n \in Nat : ListsRecords(rs, n, R) /\ Shows(q, rs, n)
  BY <1>1 DEF ShownInv, Indexed
<1>3. DOMAIN rs = 1..n
  BY <1>2 DEF ListsRecords
<1>4. FileLies(R) /\ \A r \in R : IsMade(r)
  BY <1>1 DEF RecordsLie, FileKeeps
<1>5. Intervals(tid) = InThread(rs, n, tid)
  BY <1>1, <1>3 DEF Intervals, InThread
<1>6. TellApart(rs, n, tid)
  BY <1>1, <1>5 DEF Distinct, TellApart
<1>7. q[k].parent = IF rs[k].inside \in {rs[p].id : p \in 1..n} THEN CHOOSE p \in 1..n : rs[p].id = rs[k].inside ELSE None
  BY <1>2, <1>4, <1>5, <1>6, ShownAre
<1> QED
  BY <1>1, <1>3, <1>7 DEF Ev

\* In the program's own trace, read back, every scope lies in the scope that was
\* open around it (tracing.h, build_index): for any number of threads and scopes,
\* however they interleave and whatever is lost after close, wherever the scopes
\* of a thread last and differ in their times.
THEOREM ScopesAreNested == Spec => []ScopesNest
<1> DEFINE Inv == TracerInv /\ WritesInv /\ RecordsLie /\ ShownInv
<1>1. Init => Inv
  BY InitInv, WritesStart, RecordsStart DEF Init, ShownInv
<1>2. Inv /\ [Next]_vars => Inv'
  BY NextTraces, Inductive, WritesStep, RecordsStep, ShownNext
<1>3. Inv => ScopesNest
  BY ShownNests
<1> QED
  BY <1>1, <1>2, <1>3, PTL DEF Spec
=============================================================================
