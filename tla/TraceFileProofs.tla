--------------------------- MODULE TraceFileProofs ---------------------------
(* What is proved about reading a trace: the callbacks of the JSON reader    *)
(* carry one state and two counts, and these always name the place in the    *)
(* document, so every event and frame is read as it was written.  What is    *)
(* read has the form the theorems about the index ask for, so in every state *)
(* the block index loses nothing, stacks are whole and spans lie in each     *)
(* other.                                                                    *)
EXTENDS TraceFile, NestingProofs

-----------------------------------------------------------------------------
(* The file the program writes of itself stays well formed, for any number   *)
(* of threads, scopes and ticks of the clock, in the whole of TraceFile.     *)
ItemsOf(f) == {f[k] : k \in DOMAIN f}

\* A call is either not there or holds a record, from the lock on.
JobOK(j) ==
  \/ j = Idle
  \/ /\ j.step \in {"lock", "separate", "print"}
     /\ j.record.what = "record"
     /\ j = [step |-> j.step, record |-> j.record]

Writing(t) == job[t].step \in {"separate", "print"}

\* The mutex is held by the one thread that writes.
OneWrites ==
  /\ job = [t \in Writers |-> job[t]]
  /\ \A t \in Writers : JobOK(job[t])
  /\ lock \in Writers \cup {Nobody}
  /\ lock # Nobody => Writing(lock)
  /\ \A t \in Writers : Writing(t) => lock = t
  /\ lock # Nobody => process = "running"

\* A head, then records at even places and separators at odd ones.
Body(f) ==
  \A k \in 1..Len(f) : f[k].what = IF k = 1 THEN "head" ELSE IF k % 2 = 0 THEN "record" ELSE "separator"

\* What has been printed, by where the thread inside the mutex is.
FileGrows ==
  /\ file \in Seq(ItemsOf(file))
  /\ process \in {"starting", "running", "closed", "over"}
  /\ isOpen <=> process = "running"
  /\ process = "running" =>
       /\ Body(file)
       /\ IF lock # Nobody /\ job[lock].step = "print"
          THEN ~first /\ Len(file) % 2 = 1
          ELSE IF first THEN Len(file) = 1 ELSE Len(file) > 0 /\ Len(file) % 2 = 0
  /\ process = "closed" => Complete(file)

TracerInv == OneWrites /\ FileGrows

\* Printing puts one item at the end and leaves the rest.
Extended(f, g, x) ==
  /\ g \in Seq(ItemsOf(g))
  /\ Len(f) \in Nat /\ Len(g) = Len(f) + 1
  /\ \A k \in 1..Len(f) : g[k] = f[k]
  /\ g[Len(g)] = x

LEMMA SeqIsFunction ==
  ASSUME NEW S, NEW s \in Seq(S)
  PROVE  Len(s) \in Nat /\ DOMAIN s = 1..Len(s) /\ s = [k \in 1..Len(s) |-> s[k]]
OBVIOUS

LEMMA Printed ==
  ASSUME NEW f, f \in Seq(ItemsOf(f)), NEW x
  PROVE  Extended(f, Append(f, x), x)
<1> DEFINE g == Append(f, x)
           S == ItemsOf(f) \cup {x}
<1>1. f \in Seq(S) /\ x \in S
  OBVIOUS
<1>2. g \in Seq(S) /\ Len(g) = Len(f) + 1 /\ Len(f) \in Nat
  BY <1>1
<1>3. (\A k \in 1..Len(f) : g[k] = f[k]) /\ g[Len(g)] = x
  BY <1>1, <1>2
<1> HIDE DEF S, g
<1>4. Len(g) \in Nat /\ DOMAIN g = 1..Len(g) /\ g = [k \in 1..Len(g) |-> g[k]]
  BY <1>2, SeqIsFunction
<1>5. \A k \in 1..Len(g) : g[k] \in ItemsOf(g)
  BY <1>4 DEF ItemsOf
<1>6. g \in Seq(ItemsOf(g))
  BY <1>4, <1>5
<1>7. Extended(f, g, x)
  BY <1>2, <1>3, <1>6 DEF Extended
<1> QED
  BY <1>7 DEF g

LEMMA NobodyWrites == Nobody \notin Writers
  BY TracerAssumption DEF Nobody

LEMMA InitInv == TracerInit => TracerInv
<1> SUFFICES ASSUME TracerInit PROVE TracerInv
  OBVIOUS
<1>1. OneWrites
  BY DEF TracerInit, OneWrites, JobOK, Writing, Idle
<1>2. FileGrows
  BY DEF TracerInit, FileGrows, ItemsOf
<1> QED
  BY <1>1, <1>2 DEF TracerInv

\* A step of a thread outside the mutex leaves the file alone.
LEMMA QuietStep ==
  ASSUME TracerInv, NEW t \in Writers, NEW new, JobOK(new), new.step \notin {"separate", "print"},
         ~Writing(t), job' = [job EXCEPT ![t] = new],
         UNCHANGED <<file, isOpen, first, lock, process>>
  PROVE  TracerInv'
<1>1. OneWrites'
  BY NobodyWrites DEF TracerInv, OneWrites, Writing
<1>2. lock # Nobody => lock # t
  BY DEF TracerInv, OneWrites
<1>3. lock # Nobody => job'[lock] = job[lock]
  BY <1>2 DEF TracerInv, OneWrites
<1>4. FileGrows'
  BY <1>3 DEF TracerInv, FileGrows, ItemsOf, Body, Complete
<1> QED
  BY <1>1, <1>4 DEF TracerInv

LEMMA Inductive == TracerInv /\ [TracerNext]_tracerVars => TracerInv'
<1> SUFFICES ASSUME TracerInv, [TracerNext]_tracerVars PROVE TracerInv'
  OBVIOUS
<1> USE NobodyWrites
<1>1. CASE UNCHANGED tracerVars
  BY <1>1 DEF tracerVars, TracerInv, OneWrites, FileGrows, JobOK, Writing, ItemsOf, Body, Complete
<1>2. CASE Tick
  BY <1>2 DEF Tick, TracerInv, OneWrites, FileGrows, JobOK, Writing, ItemsOf, Body, Complete
<1>3. CASE SetOutput
  <2>1. OneWrites'
    BY <1>3 DEF SetOutput, TracerInv, OneWrites, JobOK, Writing
  <2>2. file' \in Seq(ItemsOf(file')) /\ Len(file') = 1 /\ file'[1].what = "head"
    BY <1>3 DEF SetOutput, Mark, ItemsOf
  <2>3. FileGrows'
    BY <1>3, <2>2 DEF SetOutput, TracerInv, OneWrites, FileGrows, Body
  <2> QED
    BY <2>1, <2>3 DEF TracerInv
<1>4. CASE Close
  <2>1. OneWrites'
    BY <1>4 DEF Close, MayLock, TracerInv, OneWrites, JobOK, Writing
  <2>0. file \in Seq(ItemsOf(file))
    BY DEF TracerInv, FileGrows
  <2>2. PICK item : item.what = "tail" /\ file' = Append(file, item)
    BY <1>4 DEF Close, Mark
  <2>3. /\ file' \in Seq(ItemsOf(file'))
        /\ Len(file) \in Nat /\ Len(file') = Len(file) + 1
        /\ \A k \in 1..Len(file) : file'[k] = file[k]
        /\ file'[Len(file')] = item
    <3>1. Extended(file, file', item)
      BY <2>0, <2>2, Printed
    <3> QED
      BY <3>1 DEF Extended
  <2>4. Body(file) /\ (Len(file) = 1 \/ (Len(file) > 0 /\ Len(file) % 2 = 0))
    BY <1>4 DEF Close, MayLock, TracerInv, FileGrows
  <2>5. DOMAIN file' = 1..Len(file')
    BY <2>3
  <2>6. Len(file') = 2 \/ (Len(file') > 2 /\ Len(file') % 2 = 1)
    BY <2>3, <2>4
  <2>7. \A k \in 1..Len(file') :
          file'[k].what = IF k = 1 THEN "head" ELSE IF k = Len(file') THEN "tail"
                          ELSE IF k % 2 = 0 THEN "record" ELSE "separator"
    BY <2>2, <2>3, <2>4 DEF Body
  <2>8. Complete(file')
    BY <2>5, <2>6, <2>7 DEF Complete
  <2>9. FileGrows'
    BY <1>4, <2>3, <2>8 DEF Close, FileGrows
  <2> QED
    BY <2>1, <2>9 DEF TracerInv
<1>5. CASE Exit \/ Killed
  <2>1. Leave
    BY <1>5 DEF Exit, Killed
  <2>2. OneWrites'
    BY <2>1 DEF Leave, OneWrites, JobOK, Writing, Idle
  <2>3. FileGrows'
    BY <2>1 DEF Leave, TracerInv, FileGrows, ItemsOf
  <2> QED
    BY <2>2, <2>3 DEF TracerInv
<1>6. ASSUME NEW t \in Writers, EnterScope(t) PROVE TracerInv'
  BY <1>6 DEF EnterScope, TracerInv, OneWrites, FileGrows, JobOK, Writing, ItemsOf, Body, Complete
<1>7. ASSUME NEW t \in Writers, LeaveScope(t) \/ WriteCounter(t) PROVE TracerInv'
  <2>1. PICK record : record.what = "record" /\
          \/ job' = [job EXCEPT ![t] = Idle]
          \/ job' = [job EXCEPT ![t] = [step |-> "lock", record |-> record]]
    <3>1. CASE LeaveScope(t)
      <4> DEFINE scope == scopes[t][Len(scopes[t])]
                 record == [what |-> "record", ph |-> "X", ts |-> scope.start, dur |-> clock - scope.start, tid |-> t,
                            id |-> scope.id, inside |-> scope.inside, args |-> <<"file", "line", "func">>]
      <4>1. PICK goOn \in CouldRead :
              job' = [job EXCEPT ![t] = IF scope.active /\ goOn THEN [step |-> "lock", record |-> record] ELSE Idle]
        BY <3>1 DEF LeaveScope
      <4>2. record.what = "record"
        OBVIOUS
      <4> HIDE DEF record, scope
      <4> QED
        BY <4>1, <4>2
    <3>2. CASE WriteCounter(t)
      <4> DEFINE record == [what |-> "record", ph |-> "C", ts |-> clock, dur |-> 0, tid |-> t,
                            id |-> begun + 1, inside |-> 0, args |-> <<"value">>]
      <4>1. PICK goOn \in CouldRead :
              job' = [job EXCEPT ![t] = IF goOn THEN [step |-> "lock", record |-> record] ELSE Idle]
        BY <3>2 DEF WriteCounter
      <4>2. record.what = "record"
        OBVIOUS
      <4> HIDE DEF record
      <4> QED
        BY <4>1, <4>2
    <3> QED
      BY <1>7, <3>1, <3>2
  <2>2. PICK new : JobOK(new) /\ new.step \notin {"separate", "print"} /\ job' = [job EXCEPT ![t] = new]
    BY <2>1 DEF JobOK, Idle
  <2>3. ~Writing(t) /\ UNCHANGED <<file, isOpen, first, lock, process>>
    BY <1>7 DEF LeaveScope, WriteCounter, Writing, Idle
  <2> QED
    BY <2>2, <2>3, QuietStep
<1>8. ASSUME NEW t \in Writers, Locked(t) PROVE TracerInv'
  <2>1. CASE isOpen
    <3>1. lock = Nobody /\ lock' = t /\ process = "running" /\ job' = [job EXCEPT ![t].step = "separate"]
      BY <1>8, <2>1 DEF Locked, MayLock, TracerInv, FileGrows
    <3>2. JobOK(job[t]) /\ job[t].step = "lock"
      BY <1>8 DEF Locked, TracerInv, OneWrites
    <3>3. job'[t] = [step |-> "separate", record |-> job[t].record] /\ job[t].record.what = "record"
      BY <3>1, <3>2 DEF JobOK, Idle, TracerInv, OneWrites
    <3>4. OneWrites'
      BY <1>8, <3>1, <3>3 DEF Locked, TracerInv, OneWrites, JobOK, Writing
    <3>5. FileGrows'
      BY <1>8, <3>1, <3>3 DEF Locked, TracerInv, FileGrows, ItemsOf, Body, Complete
    <3> QED
      BY <3>4, <3>5 DEF TracerInv
  <2>2. CASE ~isOpen
    <3>1. /\ JobOK(Idle) /\ Idle.step \notin {"separate", "print"} /\ ~Writing(t)
          /\ job' = [job EXCEPT ![t] = Idle] /\ UNCHANGED <<file, isOpen, first, lock, process>>
      BY <1>8, <2>2 DEF Locked, JobOK, Idle, Writing
    <3> QED
      BY <3>1, QuietStep
  <2> QED
    BY <2>1, <2>2
<1>9. ASSUME NEW t \in Writers, Separate(t) PROVE TracerInv'
  <2>1. JobOK(job[t]) /\ job[t].step = "separate" /\ lock = t /\ process = "running" /\ lock # Nobody
    BY <1>9 DEF Separate, TracerInv, OneWrites, Writing
  <2>2. job'[t] = [step |-> "print", record |-> job[t].record] /\ job[t].record.what = "record"
    BY <1>9, <2>1 DEF Separate, JobOK, Idle, TracerInv, OneWrites
  <2>3. OneWrites'
    BY <1>9, <2>1, <2>2 DEF Separate, TracerInv, OneWrites, JobOK, Writing
  <2>4. /\ file' \in Seq(ItemsOf(file')) /\ Body(file') /\ Len(file') % 2 = 1
    <3>1. CASE first
      BY <1>9, <2>1, <3>1 DEF Separate, TracerInv, FileGrows, ItemsOf, Body
    <3>2. CASE ~first
      <4>0. file \in Seq(ItemsOf(file))
        BY DEF TracerInv, FileGrows
      <4>1. PICK item : item.what = "separator" /\ file' = Append(file, item)
        BY <1>9, <3>2 DEF Separate, Mark
      <4>2. /\ file' \in Seq(ItemsOf(file'))
            /\ Len(file) \in Nat /\ Len(file') = Len(file) + 1
            /\ \A k \in 1..Len(file) : file'[k] = file[k]
            /\ file'[Len(file')] = item
        <5>1. Extended(file, file', item)
          BY <4>0, <4>1, Printed
        <5> QED
          BY <5>1 DEF Extended
      <4>3. Body(file) /\ Len(file) > 0 /\ Len(file) % 2 = 0
        BY <2>1, <3>2 DEF TracerInv, FileGrows
      <4> QED
        BY <4>1, <4>2, <4>3 DEF Body
    <3> QED
      BY <3>1, <3>2
  <2>5. ~first' /\ lock' = t /\ lock' # Nobody /\ job'[lock'].step = "print" /\ UNCHANGED <<process, isOpen>>
    BY <1>9, <2>1, <2>2 DEF Separate
  <2>6. isOpen /\ process' = "running"
    BY <2>1, <2>5 DEF TracerInv, FileGrows
  <2>7. FileGrows'
    BY <2>4, <2>5, <2>6 DEF FileGrows
  <2> QED
    BY <2>3, <2>7 DEF TracerInv
<1>10. ASSUME NEW t \in Writers, PrintRecord(t) PROVE TracerInv'
  <2>1. JobOK(job[t]) /\ job[t].step = "print" /\ lock = t /\ process = "running" /\ lock # Nobody
    BY <1>10 DEF PrintRecord, TracerInv, OneWrites, Writing
  <2>2. OneWrites'
    BY <1>10, <2>1 DEF PrintRecord, TracerInv, OneWrites, JobOK, Writing, Idle
  <2>0. file \in Seq(ItemsOf(file))
    BY DEF TracerInv, FileGrows
  <2>3. PICK item : item.what = "record" /\ file' = Append(file, item)
    BY <1>10, <2>1 DEF PrintRecord, JobOK, Idle
  <2>4. /\ file' \in Seq(ItemsOf(file'))
        /\ Len(file) \in Nat /\ Len(file') = Len(file) + 1
        /\ \A k \in 1..Len(file) : file'[k] = file[k]
        /\ file'[Len(file')] = item
    <3>1. Extended(file, file', item)
      BY <2>0, <2>3, Printed
    <3> QED
      BY <3>1 DEF Extended
  <2>5. Body(file) /\ ~first /\ Len(file) % 2 = 1
    BY <2>1 DEF TracerInv, FileGrows
  <2>6. Body(file') /\ Len(file') > 0 /\ Len(file') % 2 = 0
    BY <2>3, <2>4, <2>5 DEF Body
  <2>7. FileGrows'
    BY <1>10, <2>1, <2>4, <2>5, <2>6 DEF PrintRecord, TracerInv, FileGrows
  <2> QED
    BY <2>2, <2>7 DEF TracerInv
<1> QED
  BY <1>1, <1>2, <1>3, <1>4, <1>5, <1>6, <1>7, <1>8, <1>9, <1>10 DEF TracerNext

LEMMA InvImpliesWellFormed == TracerInv => FileWellFormed
<1> SUFFICES ASSUME TracerInv, process = "running", lock = Nobody
             PROVE  Complete(Append(file, Mark("tail")))
  BY DEF TracerInv, FileGrows, FileWellFormed
<1> DEFINE item == Mark("tail")
           g == Append(file, item)
<1>1. item.what = "tail"
  BY DEF Mark
<1> HIDE DEF item
<1>2. /\ g \in Seq(ItemsOf(g))
      /\ Len(file) \in Nat /\ Len(g) = Len(file) + 1
      /\ \A k \in 1..Len(file) : g[k] = file[k]
      /\ g[Len(g)] = item
  <2>1. file \in Seq(ItemsOf(file))
    BY DEF TracerInv, FileGrows
  <2>2. Extended(file, g, item)
    BY <2>1, Printed
  <2> QED
    BY <2>2 DEF Extended
<1> HIDE DEF g
<1>3. Body(file) /\ (Len(file) = 1 \/ (Len(file) > 0 /\ Len(file) % 2 = 0))
  BY DEF TracerInv, FileGrows
<1>4. DOMAIN g = 1..Len(g)
  BY <1>2
<1>5. Len(g) = 2 \/ (Len(g) > 2 /\ Len(g) % 2 = 1)
  BY <1>2, <1>3
<1>6. \A k \in 1..Len(g) :
        g[k].what = IF k = 1 THEN "head" ELSE IF k = Len(g) THEN "tail"
                    ELSE IF k % 2 = 0 THEN "record" ELSE "separator"
  BY <1>1, <1>2, <1>3, SMTT(30) DEF Body
<1>7. Complete(g)
  BY <1>4, <1>5, <1>6 DEF Complete
<1> QED
  BY <1>7 DEF g, item

-----------------------------------------------------------------------------
\* What the tracer has printed can be completed at any moment that the mutex is
\* free, and is complete from close on, whatever the threads do around it
\* (tracing.h: write_complete, write_counter, close_file; main.cpp: close before
\* the loader is joined).
THEOREM TraceStaysWellFormed == Spec => []FileWellFormed
<1>1. Init => TracerInv
  BY InitInv DEF Init
<1>2. TracerInv /\ [Next]_vars => TracerInv'
  <2>1. [Next]_vars => [TracerNext]_tracerVars
    <3>1. CASE UNCHANGED vars
      BY <3>1 DEF vars, tracerVars
    <3>2. CASE Key \/ Scalar \/ Open("object") \/ Open("array") \/ Shut
      BY <3>2 DEF Key, Scalar, Open, Shut, Feed
    <3>3. CASE Finish \/ CutShort \/ ReadSelf \/ AddEvent \/ BuildAll \/ Rebuild
      BY <3>3 DEF Finish, CutShort, ReadSelf, AddEvent, BuildAll, Rebuild
    <3> QED
      BY <3>1, <3>2, <3>3 DEF Next
  <2> QED
    BY <2>1, Inductive
<1> QED
  BY <1>1, <1>2, InvImpliesWellFormed, PTL DEF Spec

-----------------------------------------------------------------------------
(* The shape of the records. *)
IsHandler(g) ==
  g = [state |-> g.state, skipReturn |-> g.skipReturn, skipDepth |-> g.skipDepth, key |-> g.key,
       event |-> g.event, args |-> g.args, argsDepth |-> g.argsDepth, counters |-> g.counters,
       frame |-> g.frame, hasName |-> g.hasName, model |-> g.model]

IsContainer(c) ==
  /\ c = [is |-> c.is, role |-> c.role, key |-> c.key, keys |-> c.keys, size |-> c.size]
  /\ c.is \in {"object", "array"}

(* A sequence of anything. *)
IsSeq(s) == s \in Seq(ItemsOf(s))

(* The open containers: what each may lie in. *)
RoleAt(p, k) == IF k = 0 THEN "document" ELSE p[k].role

NestsIn(up, is, role) ==
  CASE role = "top" -> up = "document" /\ is = "object"
    [] role = "list" -> up \in {"document", "top"} /\ is = "array"
    [] role = "frames" -> up = "top" /\ is = "object"
    [] role = "event" -> up = "list" /\ is = "object"
    [] role = "args" -> up = "event" /\ is = "object"
    [] role = "inArgs" -> up \in {"args", "inArgs"}
    [] role = "frame" -> up = "frames" /\ is = "object"
    [] role = "other" -> up \in {"top", "list", "event", "frames", "frame", "other"}
    [] OTHER -> FALSE

Lies(up, c) == NestsIn(up, c.is, c.role)
KeyFits(c) == c.key # Blank => c.is = "object" /\ c.key \in KeysOf[c.role]

Nesting(p) ==
  /\ IsSeq(p)
  /\ \A k \in 1..Len(p) : IsContainer(p[k]) /\ Lies(RoleAt(p, k - 1), p[k]) /\ KeyFits(p[k])

\* What is skipped, and what lies in a member of args, reaches to the top of the stack.
Inward(p) ==
  \A role \in {"other", "inArgs"} : \A i, j \in 1..Len(p) : i <= j /\ p[i].role = role => p[j].role = role

OfRole(p, role) == {k \in 1..Len(p) : p[k].role = role}

(* The state of the handler and the innermost container. *)
StateIn(g, role, skipped, nested) ==
  /\ g.state = StateFor[role]
  /\ role = "other" => g.skipDepth = skipped
  /\ role \in {"args", "inArgs"} => g.argsDepth = nested
KeyIn(g, c) == c.key # Blank /\ c.role \notin {"inArgs", "other"} => g.key = c.key

Skipped(p) == Cardinality(OfRole(p, "other"))
NestedArgs(p) == Cardinality(OfRole(p, "inArgs"))
InStep(g, p) == p # <<>> => StateIn(g, RoleAt(p, Len(p)), Skipped(p), NestedArgs(p)) /\ KeyIn(g, p[Len(p)])

\* Where skipping ends, the state is the one of the container around it.
Edge(p, k) == p[k].role = "other" /\ p[k - 1].role # "other"
Returns(g, role) == g.skipReturn = StateFor[role]
WayBack(g, p) == \A k \in 2..Len(p) : Edge(p, k) => Returns(g, RoleAt(p, k - 1))

\* An array in a list of events would be skipped.
ListsAreFlat(p) == \A k \in 2..Len(p) : p[k].role = "other" => p[k - 1].role # "list"

AtTopLevel(g) == g.state = "TopLevel"

IsMeaning(m) ==
  m = [events |-> m.events, frames |-> m.frames, plain |-> m.plain, event |-> m.event, phLast |-> m.phLast,
       numbers |-> m.numbers, points |-> m.points, frame |-> m.frame, named |-> m.named, opened |-> m.opened,
       done |-> m.done]

InPlace(g, p, m) ==
  /\ Nesting(p) /\ Inward(p) /\ IsMeaning(m)
  /\ m.done => p = <<>>
  /\ m.plain =>
       /\ IsHandler(g) /\ InStep(g, p) /\ WayBack(g, p) /\ ListsAreFlat(p)
       /\ p = <<>> /\ ~m.done => AtTopLevel(g)

PlaceInv == source = "document" => InPlace(h, path, meant)
-----------------------------------------------------------------------------
(* What a callback leaves alone. *)
SamePlace(g, f) ==
  /\ IsHandler(f)
  /\ f.state = g.state /\ f.skipDepth = g.skipDepth /\ f.skipReturn = g.skipReturn /\ f.argsDepth = g.argsDepth

LEMMA BlemishStays ==
  ASSUME NEW g, IsHandler(g)
  PROVE  SamePlace(g, Blemish(g)) /\ Blemish(g).key = g.key
BY DEF IsHandler, SamePlace, Blemish

LEMMA ArgumentStays ==
  ASSUME NEW g, IsHandler(g), NEW t
  PROVE  SamePlace(g, Argument(g, t)) /\ Argument(g, t).key = g.key
BY DEF IsHandler, SamePlace, Argument

LEMMA CountedStays ==
  ASSUME NEW g, IsHandler(g), NEW v
  PROVE  SamePlace(g, Counted(g, v)) /\ Counted(g, v).key = g.key
BY DEF IsHandler, SamePlace, Counted

LEMMA NumberStays ==
  ASSUME NEW g, IsHandler(g), NEW v
  PROVE  SamePlace(g, OnNumber(g, v)) /\ OnNumber(g, v).key = g.key
<1>1. CASE g.state = "InArgs"
  <2> DEFINE a == Argument(g, Number(v))
  <2>1. SamePlace(g, a) /\ a.key = g.key
    BY ArgumentStays
  <2>2. SamePlace(a, Counted(a, v)) /\ Counted(a, v).key = a.key
    <3>1. IsHandler(a)
      BY <2>1 DEF SamePlace
    <3> QED
      BY <3>1, CountedStays
  <2>3. OnNumber(g, v) = Counted(a, v)
    BY <1>1 DEF OnNumber
  <2> QED
    BY <2>1, <2>2, <2>3 DEF SamePlace
<1>2. CASE g.state # "InArgs"
  BY <1>2 DEF IsHandler, SamePlace, OnNumber
<1> QED
  BY <1>1, <1>2

LEMMA StringStays ==
  ASSUME NEW g, IsHandler(g), NEW v
  PROVE  SamePlace(g, OnString(g, v)) /\ OnString(g, v).key = g.key
<1>1. CASE g.state = "InArgs"
  <2> DEFINE a == Argument(g, String(v))
             c == Counted(a, Numeral[v])
  <2>1. SamePlace(g, a) /\ a.key = g.key
    BY ArgumentStays
  <2>2. SamePlace(a, c) /\ c.key = a.key
    <3>1. IsHandler(a)
      BY <2>1 DEF SamePlace
    <3> QED
      BY <3>1, CountedStays
  <2>3. OnString(g, v) = c \/ OnString(g, v) = a
    BY <1>1 DEF OnString
  <2> QED
    BY <2>1, <2>2, <2>3 DEF SamePlace
<1>2. CASE g.state # "InArgs"
  BY <1>2 DEF IsHandler, SamePlace, OnString
<1> QED
  BY <1>1, <1>2

LEMMA ScalarStays ==
  ASSUME NEW g, IsHandler(g), NEW t, IsScalar(t)
  PROVE  SamePlace(g, Handle(g, t)) /\ Handle(g, t).key = g.key
<1>1. CASE t.is = "number"
  BY <1>1, NumberStays DEF Handle
<1>2. CASE t.is = "string"
  BY <1>2, StringStays DEF Handle
<1>3. CASE t.is = "bare"
  <2>1. Handle(g, t) = OnBare(g)
    BY <1>3 DEF Handle
  <2>2. CASE g.state = "InArgs"
    BY <2>1, <2>2 DEF OnBare, IsHandler, SamePlace
  <2>3. CASE g.state # "InArgs"
    BY <2>1, <2>3, BlemishStays DEF OnBare
  <2> QED
    BY <2>2, <2>3
<1> QED
  BY <1>1, <1>2, <1>3 DEF IsScalar, Number, String

LEMMA KeyStays ==
  ASSUME NEW g, IsHandler(g), NEW k
  PROVE  LET f == Handle(g, [is |-> "key", value |-> k]) IN
         /\ SamePlace(g, f)
         /\ g.state # "Skipping" /\ ~(g.state = "InArgs" /\ g.argsDepth > 0) => f.key = k
<1>1. Handle(g, [is |-> "key", value |-> k]) = OnKey(g, k)
  BY DEF Handle
<1> QED
  BY <1>1 DEF OnKey, IsHandler, SamePlace

Roles == ObjectRoles \cup {"document", "list"}

LEMMA RoleNests ==
  ASSUME NEW up \in Roles, NEW is \in {"object", "array"}, NEW under
  PROVE  NestsIn(up, is, RoleOf(up, is, under)) /\ RoleOf(up, is, under) \in Roles
BY DEF Roles, ObjectRoles, NestsIn, RoleOf

LEMMA NestsInRoles ==
  ASSUME NEW up, NEW is, NEW role, NestsIn(up, is, role)
  PROVE  up \in Roles /\ role \in Roles /\ role # "document"
BY SMTT(30) DEF Roles, ObjectRoles, NestsIn

LEMMA FinishStays ==
  ASSUME NEW g, IsHandler(g)
  PROVE  IsHandler(FinishEvent(g))
<1>1. CASE Kinded(g.event).ph = "M" /\ g.event.ph = "M"
  <2> DEFINE k == [g EXCEPT !.event = Kinded(@)]
  <2>1. IsHandler(k)
    BY DEF IsHandler
  <2>2. IsHandler(Metadata(k))
    <3> HIDE DEF k
    <3>1. PICK processes, threads, labels :
            Metadata(k) = [k EXCEPT !.args = NoArgs, !.model.processes = processes,
                                    !.model.threads = threads, !.model.labels = labels]
      BY DEF Metadata
    <3> QED
      BY <2>1, <3>1 DEF IsHandler
  <2> QED
    BY <1>1, <2>2 DEF FinishEvent
<1> QED
  BY DEF FinishEvent, IsHandler, Metadata

OpenToken(is) == [is |-> IF is = "object" THEN "startObject" ELSE "startArray"]
EndToken(is) == [is |-> IF is = "object" THEN "endObject" ELSE "endArray"]

LEMMA SkipEnters ==
  ASSUME NEW g, IsHandler(g)
  PROVE  /\ IsHandler(Skip(g))
         /\ Skip(g).state = "Skipping" /\ Skip(g).skipDepth = 1 /\ Skip(g).skipReturn = g.state
<1>1. PICK f : f = Skip(g)
  OBVIOUS
<1>2. f = [state |-> "Skipping", skipReturn |-> g.state, skipDepth |-> 1, key |-> g.key,
           event |-> g.event, args |-> g.args, argsDepth |-> g.argsDepth, counters |-> g.counters,
           frame |-> g.frame, hasName |-> g.hasName, model |-> g.model]
  BY <1>1 DEF IsHandler, Skip
<1> QED
  BY <1>1, <1>2 DEF IsHandler

LEMMA UnskipLeaves ==
  ASSUME NEW g, IsHandler(g)
  PROVE  /\ IsHandler(Unskip(g))
         /\ Unskip(g).skipDepth = g.skipDepth - 1 /\ Unskip(g).skipReturn = g.skipReturn
         /\ Unskip(g).state = IF g.skipDepth = 1 THEN g.skipReturn ELSE g.state
<1>1. PICK f : f = Unskip(g)
  OBVIOUS
<1>2. f = [state |-> IF g.skipDepth = 1 THEN g.skipReturn ELSE g.state, skipReturn |-> g.skipReturn,
           skipDepth |-> g.skipDepth - 1, key |-> g.key,
           event |-> g.event, args |-> g.args, argsDepth |-> g.argsDepth, counters |-> g.counters,
           frame |-> g.frame, hasName |-> g.hasName, model |-> g.model]
  BY <1>1 DEF IsHandler, Unskip
<1> QED
  BY <1>1, <1>2 DEF IsHandler

\* A container opens inside one of role up: the handler enters its state.  An
\* array in a list of events is the exception.
LEMMA Opens ==
  ASSUME NEW g, IsHandler(g), NEW up \in Roles, NEW is \in {"object", "array"}, NEW under,
         g.state = StateFor[up],
         up \in {"top", "event"} => g.key = under,
         up = "list" => is = "object"
  PROVE  LET f == Handle(g, OpenToken(is))
             new == RoleOf(up, is, under)
         IN /\ IsHandler(f) /\ f.state = StateFor[new]
            /\ new = "other" => IF up = "other" THEN f.skipDepth = g.skipDepth + 1 /\ f.skipReturn = g.skipReturn
                                ELSE f.skipDepth = 1 /\ f.skipReturn = StateFor[up]
            /\ new = "inArgs" => f.argsDepth = g.argsDepth + 1
            /\ new = "args" => f.argsDepth = 0
<1> DEFINE b == Blemish(g)
           s == Skip(b)
<1>1. SamePlace(g, b)
  BY BlemishStays
<1>2. IsHandler(s) /\ s.state = "Skipping" /\ s.skipDepth = 1 /\ s.skipReturn = g.state
  <2>1. IsHandler(b) /\ b.state = g.state
    BY <1>1 DEF SamePlace
  <2> HIDE DEF b
  <2> QED
    BY <2>1, SkipEnters
<1> HIDE DEF s
<1>3. CASE is = "object"
  <2>1. Handle(g, OpenToken(is)) = OnStartObject(g)
    BY <1>3 DEF Handle, OpenToken
  <2>2. CASE up = "document"
    BY <1>2, <1>3, <2>1, <2>2 DEF OnStartObject, StateFor, RoleOf, IsHandler, s
  <2>3. CASE up = "top"
    BY <1>2, <1>3, <2>1, <2>3 DEF OnStartObject, StateFor, RoleOf, IsHandler, s
  <2>4. CASE up = "list"
    BY <1>2, <1>3, <2>1, <2>4 DEF OnStartObject, StateFor, RoleOf, IsHandler, s
  <2>5. CASE up = "event"
    BY <1>2, <1>3, <2>1, <2>5 DEF OnStartObject, StateFor, RoleOf, IsHandler, s
  <2>6. CASE up = "args"
    BY <1>2, <1>3, <2>1, <2>6 DEF OnStartObject, StateFor, RoleOf, IsHandler, s
  <2>7. CASE up = "inArgs"
    BY <1>2, <1>3, <2>1, <2>7 DEF OnStartObject, StateFor, RoleOf, IsHandler, s
  <2>8. CASE up = "frames"
    BY <1>2, <1>3, <2>1, <2>8 DEF OnStartObject, StateFor, RoleOf, IsHandler, s
  <2>9. CASE up = "frame"
    BY <1>2, <1>3, <2>1, <2>9 DEF OnStartObject, StateFor, RoleOf, IsHandler, s
  <2>10. CASE up = "other"
    BY <1>2, <1>3, <2>1, <2>10 DEF OnStartObject, StateFor, RoleOf, IsHandler, s
  <2> QED
    BY <2>2, <2>3, <2>4, <2>5, <2>6, <2>7, <2>8, <2>9, <2>10 DEF Roles, ObjectRoles
<1>4. CASE is = "array"
  <2>1. Handle(g, OpenToken(is)) = OnStartArray(g)
    BY <1>4 DEF Handle, OpenToken
  <2>2. CASE up = "document"
    BY <1>2, <1>4, <2>1, <2>2 DEF OnStartArray, StateFor, RoleOf, IsHandler, s
  <2>3. CASE up = "top"
    <3>1. g.state = "InTopObject" /\ g.key = under
      BY <2>3 DEF StateFor
    <3>2. CASE under = "traceEvents"
      <4>1. RoleOf(up, is, under) = "list"
        BY <1>4, <2>3, <3>2 DEF RoleOf
      <4>2. g.key = "traceEvents"
        BY <3>1, <3>2
      <4>3. OnStartArray(g) = [g EXCEPT !.state = "InTraceEvents"]
        BY <3>1, <4>2 DEF OnStartArray
      <4> QED
        BY <2>1, <2>3, <4>1, <4>3 DEF StateFor, IsHandler
    <3>3. CASE under # "traceEvents"
      <4>1. OnStartArray(g) = s /\ RoleOf(up, is, under) = "other"
        BY <1>4, <2>3, <3>1, <3>3 DEF OnStartArray, RoleOf, s
      <4> QED
        BY <1>2, <2>1, <2>3, <4>1 DEF StateFor
    <3> QED
      BY <3>2, <3>3
  <2>4. CASE up = "list"
    BY <1>2, <1>4, <2>1, <2>4 DEF OnStartArray, StateFor, RoleOf, IsHandler, s
  <2>5. CASE up = "event"
    BY <1>2, <1>4, <2>1, <2>5 DEF OnStartArray, StateFor, RoleOf, IsHandler, s
  <2>6. CASE up = "args"
    BY <1>2, <1>4, <2>1, <2>6 DEF OnStartArray, StateFor, RoleOf, IsHandler, s
  <2>7. CASE up = "inArgs"
    BY <1>2, <1>4, <2>1, <2>7 DEF OnStartArray, StateFor, RoleOf, IsHandler, s
  <2>8. CASE up = "frames"
    BY <1>2, <1>4, <2>1, <2>8 DEF OnStartArray, StateFor, RoleOf, IsHandler, s
  <2>9. CASE up = "frame"
    BY <1>2, <1>4, <2>1, <2>9 DEF OnStartArray, StateFor, RoleOf, IsHandler, s
  <2>10. CASE up = "other"
    BY <1>2, <1>4, <2>1, <2>10 DEF OnStartArray, StateFor, RoleOf, IsHandler, s
  <2> QED
    BY <2>2, <2>3, <2>4, <2>5, <2>6, <2>7, <2>8, <2>9, <2>10 DEF Roles, ObjectRoles
<1> QED
  BY <1>3, <1>4

\* What is left of the handler when a container of that role closes.
Left(g, f, up, role) ==
  /\ role = "other" => /\ f.skipDepth = g.skipDepth - 1 /\ f.skipReturn = g.skipReturn
                       /\ f.state = IF g.skipDepth = 1 THEN g.skipReturn ELSE "Skipping"
  /\ role = "inArgs" /\ g.argsDepth > 0 => f.argsDepth = g.argsDepth - 1 /\ f.state = "InArgs"
  /\ role = "args" /\ ~(g.argsDepth > 0) => f.state = "InEvent"
  /\ role = "top" => f.state = "TopLevel"
  /\ role \in {"event", "frame", "frames"} => f.state = StateFor[up]
  /\ role = "list" /\ up = "top" => f.state = StateFor[up]

\* The innermost container closes: the handler is back in the one around it.
LEMMA Closes ==
  ASSUME NEW g, IsHandler(g), NEW up, NEW is \in {"object", "array"}, NEW role, NestsIn(up, is, role),
         g.state = StateFor[role]
  PROVE  IsHandler(Handle(g, EndToken(is))) /\ Left(g, Handle(g, EndToken(is)), up, role)
<1>u. /\ IsHandler(Unskip(g)) /\ Unskip(g).skipDepth = g.skipDepth - 1 /\ Unskip(g).skipReturn = g.skipReturn
      /\ Unskip(g).state = IF g.skipDepth = 1 THEN g.skipReturn ELSE g.state
  BY UnskipLeaves
<1>1. CASE is = "object"
  <2>0. Handle(g, EndToken(is)) = OnEndObject(g)
    BY <1>1 DEF Handle, EndToken
  <2>1. CASE role = "top"
    BY <2>0, <1>1, <2>1 DEF OnEndObject, StateFor, NestsIn, IsHandler, Left
  <2>2. CASE role = "frames"
    BY <2>0, <1>1, <2>2 DEF OnEndObject, StateFor, NestsIn, IsHandler, Left
  <2>3. CASE role = "args"
    BY <2>0, <1>1, <2>3 DEF OnEndObject, StateFor, NestsIn, IsHandler, Left
  <2>4. CASE role = "inArgs"
    BY <2>0, <1>1, <2>4 DEF OnEndObject, StateFor, NestsIn, IsHandler, Left
  <2>5. CASE role = "frame"
    <3> DEFINE last == [g.frame EXCEPT !.valid = @ /\ g.hasName]
    <3>0. OnEndObject(g) = [g EXCEPT !.state = "InStackFrames", !.model.frames = Append(@, last)]
      BY <2>5 DEF OnEndObject, StateFor
    <3> HIDE DEF last
    <3>1. PICK frames : OnEndObject(g) = [g EXCEPT !.state = "InStackFrames", !.model.frames = frames]
      BY <3>0
    <3>2. IsHandler(OnEndObject(g)) /\ OnEndObject(g).state = "InStackFrames"
      BY <3>1 DEF IsHandler
    <3> QED
      BY <2>0, <2>5, <3>2 DEF NestsIn, StateFor, Left
  <2>6. CASE role = "other"
    BY <1>u, <2>0, <1>1, <2>6 DEF OnEndObject, StateFor, NestsIn, IsHandler, Left
  <2>7. CASE role = "event"
    <3>1. OnEndObject(g) = [FinishEvent(g) EXCEPT !.state = "InTraceEvents"]
      BY <2>7 DEF OnEndObject, StateFor
    <3>2. IsHandler(OnEndObject(g)) /\ OnEndObject(g).state = "InTraceEvents"
      BY <3>1, FinishStays DEF IsHandler
    <3> QED
      BY <2>0, <2>7, <3>2 DEF NestsIn, StateFor, Left
  <2> QED
    BY <1>1, <2>1, <2>2, <2>3, <2>4, <2>5, <2>6, <2>7 DEF NestsIn
<1>2. CASE is = "array"
  <2>0. Handle(g, EndToken(is)) = OnEndArray(g)
    BY <1>2 DEF Handle, EndToken
  <2>1. CASE role = "list"
    BY <2>0, <1>2, <2>1 DEF OnEndArray, StateFor, NestsIn, IsHandler, Left
  <2>2. CASE role = "inArgs"
    BY <2>0, <1>2, <2>2 DEF OnEndArray, StateFor, NestsIn, IsHandler, Left
  <2>3. CASE role = "other"
    BY <1>u, <2>0, <1>2, <2>3 DEF OnEndArray, StateFor, NestsIn, IsHandler, Left
  <2> QED
    BY <1>2, <2>1, <2>2, <2>3 DEF NestsIn
<1> QED
  BY <1>1, <1>2

-----------------------------------------------------------------------------
(* What a token does to the stack of open containers. *)
Pushed(p, q, c) ==
  /\ IsSeq(q) /\ Len(q) = Len(p) + 1
  /\ \A k \in 1..Len(p) : q[k] = p[k]
  /\ q[Len(q)] = c

\* The innermost container is gone; the one around it ends a member or an item.
Popped(p, q) ==
  /\ IsSeq(q) /\ Len(p) = Len(q) + 1
  /\ \A k \in 1..Len(q) : k < Len(q) => q[k] = p[k]
  /\ q # <<>> => q[Len(q)] = Further(p[Len(q)])

\* The same containers, the innermost one with another key.
SameRole(c, d) == d.role = c.role /\ d.is = c.is
Rekeyed(p, q) ==
  /\ IsSeq(q) /\ Len(q) = Len(p) /\ Len(p) > 0
  /\ \A k \in 1..Len(p) : k < Len(p) => q[k] = p[k]
  /\ IsContainer(q[Len(q)]) /\ SameRole(p[Len(p)], q[Len(q)]) /\ KeyFits(q[Len(q)])

LEMMA SeqOfItems ==
  ASSUME NEW n \in Nat, NEW q, DOMAIN q = 1..n, q = [k \in 1..n |-> q[k]]
  PROVE  IsSeq(q) /\ Len(q) = n
<1>1. \A k \in 1..n : q[k] \in ItemsOf(q)
  BY DEF ItemsOf
<1>2. q \in [1..n -> ItemsOf(q)]
  BY <1>1
<1> QED
  BY <1>2 DEF IsSeq

LEMMA EmptyIsSeq == IsSeq(<<>>) /\ Len(<<>>) = 0
BY DEF IsSeq

LEMMA PathPushed ==
  ASSUME NEW p, IsSeq(p), NEW c
  PROVE  Pushed(p, Append(p, c), c)
<1> DEFINE q == Append(p, c)
<1>1. Extended(p, q, c)
  BY Printed DEF IsSeq
<1> HIDE DEF q
<1> QED
  BY <1>1 DEF Extended, Pushed, IsSeq, q

LEMMA FrontOf ==
  ASSUME NEW p, IsSeq(p), p # <<>>
  PROVE  /\ Front(p) \in Seq(ItemsOf(p)) /\ Len(Front(p)) = Len(p) - 1
         /\ \A k \in 1..Len(p) - 1 : Front(p)[k] = p[k]
         /\ Len(p) \in Nat /\ Len(p) > 0
<1>1. Len(p) \in Nat /\ Len(p) > 0
  OBVIOUS
<1>2. Front(p) = SubSeq(p, 1, Len(p) - 1)
  BY DEF Front
<1>3. SubSeq(p, 1, Len(p) - 1) = [k \in 1..(1 + (Len(p) - 1) - 1) |-> p[(1 + k) - 1]]
  OBVIOUS
<1>4. 1 + (Len(p) - 1) - 1 = Len(p) - 1 /\ \A k \in 1..Len(p) - 1 : (1 + k) - 1 = k
  BY <1>1
<1>5. Front(p) = [k \in 1..Len(p) - 1 |-> p[k]]
  BY <1>2, <1>3, <1>4
<1>6. \A k \in 1..Len(p) - 1 : p[k] \in ItemsOf(p)
  BY <1>1 DEF ItemsOf
<1>7. Front(p) \in [1..Len(p) - 1 -> ItemsOf(p)] /\ Len(p) - 1 \in Nat
  BY <1>1, <1>5, <1>6
<1> QED
  BY <1>1, <1>5, <1>7

LEMMA PathPopped ==
  ASSUME NEW p, IsSeq(p), p # <<>>
  PROVE  Popped(p, Counting(Front(p)))
<1> DEFINE f == Front(p)
           n == Len(f)
           q == Counting(f)
<1>1. /\ f \in Seq(ItemsOf(p)) /\ Len(f) = Len(p) - 1
      /\ \A k \in 1..Len(p) - 1 : f[k] = p[k]
      /\ Len(p) \in Nat /\ Len(p) > 0
  BY FrontOf
<1> DEFINE c == Further(f[n])
<1> HIDE DEF f
<1>2. n \in Nat /\ DOMAIN f = 1..n /\ f = [k \in 1..n |-> f[k]]
  BY <1>1, SeqIsFunction
<1>3. CASE f = <<>>
  <2>1. q = <<>> /\ n = 0
    BY <1>3 DEF Counting
  <2>2. IsSeq(q) /\ Len(q) = 0
    BY <2>1, EmptyIsSeq
  <2> QED
    BY <1>1, <2>1, <2>2 DEF Popped, f
<1>4. CASE f # <<>>
  <2>1. n > 0
    BY <1>1, <1>2, <1>4
  <2>2. q = [f EXCEPT ![n] = c]
    BY <1>4 DEF Counting
  <2> HIDE DEF c, q
  <2>3. DOMAIN q = 1..n /\ q = [k \in 1..n |-> q[k]]
    BY <1>2, <2>2
  <2>4. (\A k \in 1..n : k < n => q[k] = f[k]) /\ q[n] = c
    BY <1>2, <2>1, <2>2
  <2>5. IsSeq(q) /\ Len(q) = n
    BY <1>2, <2>3, SeqOfItems
  <2>6. f[n] = p[n]
    BY <1>1, <2>1
  <2>7. c = Further(p[n])
    BY <2>6 DEF c
  <2>8. \A k \in 1..n : k < n => f[k] = p[k]
    BY <1>1, <1>2
  <2>9. Popped(p, q)
    BY <1>1, <1>2, <2>1, <2>4, <2>5, <2>7, <2>8 DEF Popped
  <2> QED
    BY <2>9 DEF q, f
<1> QED
  BY <1>3, <1>4

-----------------------------------------------------------------------------
(* The nesting of the containers is kept by all three. *)
SameRoles(p, q, n) == \A k \in 1..n : SameRole(p[k], q[k])

\* As many containers of a role as before, or one more.
LEMMA CountRole ==
  ASSUME NEW p, NEW q, Len(p) \in Nat, Len(q) = Len(p) + 1, SameRoles(p, q, Len(p)), NEW role
  PROVE  /\ Cardinality(OfRole(p, role)) \in Nat
         /\ Cardinality(OfRole(q, role)) = Cardinality(OfRole(p, role)) + (IF q[Len(q)].role = role THEN 1 ELSE 0)
<1>1. IsFiniteSet(1..Len(p))
  BY FS_Interval
<1>2. IsFiniteSet(OfRole(p, role)) /\ Cardinality(OfRole(p, role)) \in Nat
  BY <1>1, FS_Subset, FS_CardinalityType DEF OfRole
<1>3. Len(q) \notin OfRole(p, role)
  BY DEF OfRole
<1>4. CASE q[Len(q)].role = role
  <2>1. OfRole(q, role) = OfRole(p, role) \cup {Len(q)}
    BY <1>4 DEF OfRole, SameRoles, SameRole
  <2> QED
    BY <1>2, <1>3, <1>4, <2>1, FS_AddElement, SMTT(30)
<1>5. CASE q[Len(q)].role # role
  <2>1. OfRole(q, role) = OfRole(p, role)
    BY <1>5 DEF OfRole, SameRoles, SameRole
  <2> QED
    BY <1>2, <1>5, <2>1
<1> QED
  BY <1>4, <1>5

LEMMA SameCount ==
  ASSUME NEW p, NEW q, Len(q) = Len(p), SameRoles(p, q, Len(p)), NEW role
  PROVE  OfRole(q, role) = OfRole(p, role)
BY DEF OfRole, SameRoles, SameRole

LEMMA PathLength ==
  ASSUME NEW p, IsSeq(p)
  PROVE  Len(p) \in Nat /\ (p = <<>> <=> Len(p) = 0)
BY DEF IsSeq

\* Once inside what is skipped, or inside a member of args, always inside.
LEMMA InwardMeans ==
  ASSUME NEW up, NEW c, Lies(up, c)
  PROVE  (up = "other" => c.role = "other") /\ (up = "inArgs" => c.role = "inArgs")
BY DEF Lies, NestsIn

Fresh(up, c) == IsContainer(c) /\ c.key = Blank /\ Lies(up, c)

LEMMA PushedNests ==
  ASSUME NEW p, NEW q, NEW c, Nesting(p), Inward(p), Pushed(p, q, c), Fresh(RoleAt(p, Len(p)), c)
  PROVE  Nesting(q) /\ Inward(q) /\ SameRoles(p, q, Len(p))
<1>1. Len(p) \in Nat /\ Len(q) = Len(p) + 1 /\ IsSeq(q)
  BY PathLength DEF Pushed, Nesting
<1>2. \A k \in 1..Len(p) : q[k] = p[k] /\ RoleAt(q, k - 1) = RoleAt(p, k - 1)
  BY <1>1 DEF Pushed, RoleAt
<1>3. q[Len(q)] = c /\ RoleAt(q, Len(q) - 1) = RoleAt(p, Len(p))
  BY <1>1, <1>2 DEF Pushed, RoleAt
<1>4. Nesting(q)
  <2> SUFFICES ASSUME NEW k \in 1..Len(q)
               PROVE  IsContainer(q[k]) /\ Lies(RoleAt(q, k - 1), q[k]) /\ KeyFits(q[k])
    BY <1>1 DEF Nesting
  <2>1. CASE k = Len(q)
    BY <1>3, <2>1 DEF Fresh, KeyFits
  <2>2. CASE k # Len(q)
    <3>1. k \in 1..Len(p)
      BY <1>1, <2>2
    <3> QED
      BY <1>2, <3>1 DEF Nesting
  <2> QED
    BY <2>1, <2>2
<1>5. Inward(q)
  <2> SUFFICES ASSUME NEW role \in {"other", "inArgs"}, NEW i \in 1..Len(q), NEW j \in 1..Len(q),
                      i <= j, q[i].role = role
               PROVE  q[j].role = role
    BY DEF Inward
  <2>1. CASE j # Len(q)
    <3>1. i \in 1..Len(p) /\ j \in 1..Len(p)
      BY <1>1, <2>1
    <3> QED
      BY <1>2, <3>1 DEF Inward
  <2>2. CASE i = Len(q)
    BY <1>1, <2>2
  <2>3. CASE j = Len(q) /\ i # Len(q)
    <3>1. i \in 1..Len(p) /\ Len(p) \in 1..Len(p) /\ i <= Len(p)
      BY <1>1, <2>3
    <3>2. p[Len(p)].role = role
      BY <1>1, <1>2, <3>1 DEF Inward
    <3>3. RoleAt(p, Len(p)) = role
      BY <3>1, <3>2 DEF RoleAt
    <3>4. Lies(role, c)
      BY <3>3 DEF Fresh
    <3> QED
      BY <1>3, <2>3, <3>4, InwardMeans
  <2> QED
    BY <2>1, <2>2, <2>3
<1> QED
  BY <1>2, <1>4, <1>5 DEF SameRoles, SameRole

LEMMA FurtherContainer ==
  ASSUME NEW c, IsContainer(c)
  PROVE  IsContainer(Further(c)) /\ SameRole(c, Further(c)) /\ Further(c).key = Blank
<1>1. PICK f : f = [c EXCEPT !.key = Blank]
  OBVIOUS
<1>2. f = [is |-> c.is, role |-> c.role, key |-> Blank, keys |-> c.keys, size |-> c.size]
  BY <1>1 DEF IsContainer
<1>3. PICK g : g = [f EXCEPT !.size = c.size + 1]
  OBVIOUS
<1>4. g = [is |-> c.is, role |-> c.role, key |-> Blank, keys |-> c.keys, size |-> c.size + 1]
  BY <1>2, <1>3
<1>5. Further(c) = g
  BY <1>1, <1>3 DEF Further
<1>6. IsContainer(g) /\ SameRole(c, g) /\ g.key = Blank
  BY <1>4 DEF IsContainer, SameRole
<1> QED
  BY <1>5, <1>6

\* Of Nesting and Inward, what does not depend on keys.
LEMMA ShorterNests ==
  ASSUME NEW p, NEW q, Nesting(p), Inward(p), IsSeq(q), Len(q) <= Len(p), SameRoles(p, q, Len(q)),
         \A k \in 1..Len(q) : IsContainer(q[k]) /\ KeyFits(q[k])
  PROVE  Nesting(q) /\ Inward(q)
<1>1. Len(p) \in Nat /\ Len(q) \in Nat
  BY PathLength DEF Nesting
<1>2. \A k \in 1..Len(q) : k \in 1..Len(p) /\ SameRole(p[k], q[k])
  BY <1>1 DEF SameRoles
<1>3. \A k \in 1..Len(q) : RoleAt(q, k - 1) = RoleAt(p, k - 1)
  BY <1>1, <1>2 DEF RoleAt, SameRole
<1>4. \A k \in 1..Len(q) : Lies(RoleAt(q, k - 1), q[k])
  <2> TAKE k \in 1..Len(q)
  <2>1. Lies(RoleAt(p, k - 1), p[k])
    BY <1>2 DEF Nesting
  <2> QED
    BY <1>2, <1>3, <2>1 DEF Lies, SameRole
<1>5. Nesting(q)
  BY <1>4 DEF Nesting
<1>6. Inward(q)
  BY <1>2 DEF Inward, SameRole
<1> QED
  BY <1>5, <1>6

LEMMA PoppedNests ==
  ASSUME NEW p, NEW q, Nesting(p), Inward(p), Popped(p, q)
  PROVE  Nesting(q) /\ Inward(q) /\ SameRoles(p, q, Len(q)) /\ (q # <<>> => q[Len(q)].key = Blank)
<1>1. Len(q) \in Nat /\ Len(p) = Len(q) + 1 /\ (q # <<>> <=> Len(q) > 0) /\ IsSeq(q)
  BY PathLength DEF Popped
<1>2. \A k \in 1..Len(q) : k < Len(q) => q[k] = p[k]
  BY DEF Popped
<1>3. Len(q) > 0 => q[Len(q)] = Further(p[Len(q)])
  BY <1>1 DEF Popped
<1>4. Len(q) > 0 => IsContainer(p[Len(q)])
  BY <1>1 DEF Nesting
<1>5. Len(q) > 0 => IsContainer(q[Len(q)]) /\ q[Len(q)].key = Blank /\ SameRole(p[Len(q)], q[Len(q)])
  BY <1>3, <1>4, FurtherContainer
<1>6. \A k \in 1..Len(q) : SameRole(p[k], q[k]) /\ IsContainer(q[k]) /\ KeyFits(q[k])
  <2> TAKE k \in 1..Len(q)
  <2>1. CASE k < Len(q)
    <3>1. q[k] = p[k] /\ k \in 1..Len(p)
      BY <1>1, <1>2, <2>1
    <3> QED
      BY <3>1 DEF Nesting, SameRole
  <2>2. CASE ~(k < Len(q))
    <3>1. k = Len(q) /\ Len(q) > 0
      BY <1>1, <2>2
    <3> QED
      BY <1>5, <3>1 DEF KeyFits
  <2> QED
    BY <2>1, <2>2
<1>7. Len(q) <= Len(p)
  BY <1>1
<1>8. SameRoles(p, q, Len(q))
  BY <1>6 DEF SameRoles
<1>9. Nesting(q) /\ Inward(q)
  BY <1>1, <1>6, <1>7, <1>8, ShorterNests
<1> QED
  BY <1>1, <1>5, <1>8, <1>9

LEMMA RekeyedNests ==
  ASSUME NEW p, NEW q, Nesting(p), Inward(p), Rekeyed(p, q)
  PROVE  Nesting(q) /\ Inward(q) /\ SameRoles(p, q, Len(p))
<1>1. Len(q) \in Nat /\ Len(p) = Len(q) /\ Len(q) > 0 /\ IsSeq(q)
  BY PathLength DEF Rekeyed, Nesting
<1>2. \A k \in 1..Len(q) : k < Len(q) => q[k] = p[k]
  BY <1>1 DEF Rekeyed
<1>3. IsContainer(q[Len(q)]) /\ SameRole(p[Len(q)], q[Len(q)]) /\ KeyFits(q[Len(q)])
  BY <1>1 DEF Rekeyed
<1>4. \A k \in 1..Len(q) : SameRole(p[k], q[k]) /\ IsContainer(q[k]) /\ KeyFits(q[k])
  <2> TAKE k \in 1..Len(q)
  <2>1. CASE k < Len(q)
    <3>1. q[k] = p[k] /\ k \in 1..Len(p)
      BY <1>1, <1>2, <2>1
    <3> QED
      BY <3>1 DEF Nesting, SameRole
  <2>2. CASE ~(k < Len(q))
    <3>1. k = Len(q)
      BY <1>1, <2>2
    <3> QED
      BY <1>3, <3>1
  <2> QED
    BY <2>1, <2>2
<1>5. SameRoles(p, q, Len(q)) /\ Len(q) <= Len(p)
  BY <1>1, <1>4 DEF SameRoles
<1>6. Nesting(q) /\ Inward(q)
  BY <1>1, <1>4, <1>5, ShorterNests
<1> QED
  BY <1>1, <1>5, <1>6

-----------------------------------------------------------------------------
(* The handler stays in step with the containers. *)

\* Skipping, or a member of args, is not around a container that is neither.
LEMMA NoneInside ==
  ASSUME NEW p, IsSeq(p), Inward(p), NEW role \in {"other", "inArgs"}, RoleAt(p, Len(p)) # role
  PROVE  Cardinality(OfRole(p, role)) = 0
<1>1. Len(p) \in Nat
  BY PathLength
<1>2. ASSUME NEW k \in OfRole(p, role) PROVE FALSE
  <2>1. k \in 1..Len(p) /\ Len(p) \in 1..Len(p) /\ k <= Len(p) /\ p[k].role = role
    BY <1>1, <1>2 DEF OfRole
  <2>2. p[Len(p)].role = role
    BY <2>1 DEF Inward
  <2> QED
    BY <2>1, <2>2 DEF RoleAt
<1>3. OfRole(p, role) = {}
  BY <1>2
<1> QED
  BY <1>3, FS_EmptySet

LEMMA SomeInside ==
  ASSUME NEW p, IsSeq(p), NEW k \in 1..Len(p), NEW role, p[k].role = role
  PROVE  Cardinality(OfRole(p, role)) > 0
<1>1. Len(p) \in Nat /\ IsFiniteSet(1..Len(p))
  BY PathLength, FS_Interval
<1>2. IsFiniteSet(OfRole(p, role)) /\ k \in OfRole(p, role)
  BY <1>1, FS_Subset DEF OfRole
<1> QED
  BY <1>2, FS_EmptySet, FS_CardinalityType

LEMMA RekeyedInStep ==
  ASSUME NEW p, NEW q, Nesting(p), Inward(p), Rekeyed(p, q),
         NEW g, NEW f, InStep(g, p), WayBack(g, p), SamePlace(g, f), KeyIn(f, q[Len(q)])
  PROVE  InStep(f, q) /\ WayBack(f, q)
<1>1. IsSeq(p)
  BY DEF Nesting
<1>2. Len(p) \in Nat /\ (p = <<>> <=> Len(p) = 0)
  BY <1>1, PathLength
<1>3. Len(q) = Len(p) /\ Len(p) > 0
  BY DEF Rekeyed
<1>4. SameRoles(p, q, Len(p))
  BY RekeyedNests
<1>5. Skipped(q) = Skipped(p) /\ NestedArgs(q) = NestedArgs(p)
  BY <1>3, <1>4, SameCount DEF Skipped, NestedArgs
<1>6. \A k \in 0..Len(p) : RoleAt(q, k) = RoleAt(p, k)
  <2> TAKE k \in 0..Len(p)
  <2>1. CASE k = 0
    BY <2>1 DEF RoleAt
  <2>2. CASE k # 0
    <3>1. k \in 1..Len(p)
      BY <1>2, <2>2
    <3> QED
      BY <1>4, <2>2, <3>1 DEF RoleAt, SameRoles, SameRole
  <2> QED
    BY <2>1, <2>2
<1>7. StateIn(g, RoleAt(p, Len(p)), Skipped(p), NestedArgs(p))
  BY <1>2, <1>3 DEF InStep
<1>8. StateIn(f, RoleAt(p, Len(p)), Skipped(p), NestedArgs(p))
  BY <1>7 DEF StateIn, SamePlace
<1>9. RoleAt(q, Len(q)) = RoleAt(p, Len(p))
  BY <1>2, <1>3, <1>6
<1>10. InStep(f, q)
  BY <1>3, <1>5, <1>8, <1>9 DEF InStep
<1>11. WayBack(f, q)
  <2> SUFFICES ASSUME NEW k \in 2..Len(q), Edge(q, k) PROVE Returns(f, RoleAt(q, k - 1))
    BY DEF WayBack
  <2>1. k \in 2..Len(p) /\ k \in 1..Len(p) /\ k - 1 \in 1..Len(p) /\ k - 1 \in 0..Len(p)
    BY <1>2, <1>3
  <2>2. Edge(p, k)
    BY <1>4, <2>1 DEF Edge, SameRoles, SameRole
  <2>3. Returns(g, RoleAt(p, k - 1))
    BY <2>1, <2>2 DEF WayBack
  <2> QED
    BY <1>6, <2>1, <2>3 DEF Returns, SamePlace
<1> QED
  BY <1>10, <1>11

Under(p) == IF p = <<>> THEN Blank ELSE p[Len(p)].key
NoArrayInList(p, is) == RoleAt(p, Len(p)) = "list" => is = "object"
ShapeOf(p) == p[Len(p)].is
ValueDue(p) == p # <<>> /\ ShapeOf(p) = "object" => Under(p) # Blank
NewContainer(c, is, role) == IsContainer(c) /\ c.is = is /\ c.role = role /\ c.key = Blank
Entered(g, f, up, new) ==
  /\ new = "other" => IF up = "other" THEN f.skipDepth = g.skipDepth + 1 /\ f.skipReturn = g.skipReturn
                      ELSE f.skipDepth = 1 /\ f.skipReturn = StateFor[up]
  /\ new = "inArgs" => f.argsDepth = g.argsDepth + 1
  /\ new = "args" => f.argsDepth = 0

\* The role of the innermost container, where there is one.
LEMMA RoleHere ==
  ASSUME NEW p, Nesting(p), p # <<>>
  PROVE  /\ RoleAt(p, Len(p)) = p[Len(p)].role
         /\ Lies(RoleAt(p, Len(p) - 1), p[Len(p)])
         /\ IsContainer(p[Len(p)]) /\ KeyFits(p[Len(p)])
         /\ RoleAt(p, Len(p)) \in Roles /\ RoleAt(p, Len(p)) # "document"
         /\ RoleAt(p, Len(p) - 1) \in Roles
<1>1. IsSeq(p)
  BY DEF Nesting
<1>2. Len(p) \in Nat /\ Len(p) # 0
  BY <1>1, PathLength
<1>3. Len(p) \in 1..Len(p)
  BY <1>2
<1>4. Lies(RoleAt(p, Len(p) - 1), p[Len(p)]) /\ IsContainer(p[Len(p)]) /\ KeyFits(p[Len(p)])
  BY <1>3 DEF Nesting
<1>5. RoleAt(p, Len(p)) = p[Len(p)].role
  BY <1>2 DEF RoleAt
<1>6. p[Len(p)].role \in Roles /\ p[Len(p)].role # "document" /\ RoleAt(p, Len(p) - 1) \in Roles
  BY <1>4, NestsInRoles DEF Lies
<1> QED
  BY <1>4, <1>5, <1>6

LEMMA OpenInStep ==
  ASSUME NEW p, NEW q, Nesting(p), Inward(p),
         NEW g, NEW f, IsHandler(g), InStep(g, p), WayBack(g, p), p = <<>> => AtTopLevel(g),
         NEW is \in {"object", "array"}, f = Handle(g, OpenToken(is)), NoArrayInList(p, is), ValueDue(p),
         NEW c, NewContainer(c, is, RoleOf(RoleAt(p, Len(p)), is, Under(p))), Pushed(p, q, c)
  PROVE  IsHandler(f) /\ InStep(f, q) /\ WayBack(f, q)
<1> DEFINE up == RoleAt(p, Len(p))
           new == RoleOf(up, is, Under(p))
<1>1. IsSeq(p)
  BY DEF Nesting
<1>2. Len(p) \in Nat /\ (p = <<>> <=> Len(p) = 0)
  BY <1>1, PathLength
<1>3. Len(q) = Len(p) + 1
  BY DEF Pushed
<1>4. q[Len(q)] = c /\ \A k \in 1..Len(p) : q[k] = p[k]
  BY DEF Pushed
<1>5. p = <<>> => up = "document"
  BY <1>2 DEF RoleAt
<1>6. up \in Roles
  <2>1. CASE p = <<>>
    BY <1>5, <2>1 DEF Roles
  <2>2. CASE p # <<>>
    BY <2>2, RoleHere
  <2> QED
    BY <2>1, <2>2
<1>7. g.state = StateFor[up]
  <2>1. CASE p = <<>>
    BY <1>5, <2>1 DEF StateFor, AtTopLevel
  <2>2. CASE p # <<>>
    BY <2>2 DEF InStep, StateIn
  <2> QED
    BY <2>1, <2>2
<1>8. up \in {"top", "event"} => g.key = Under(p)
  <2> SUFFICES ASSUME up \in {"top", "event"} PROVE g.key = Under(p)
    OBVIOUS
  <2>1. p # <<>>
    BY <1>5
  <2>2. up = p[Len(p)].role /\ Lies(RoleAt(p, Len(p) - 1), p[Len(p)])
    BY <2>1, RoleHere
  <2>3. p[Len(p)].is = "object"
    BY <2>2 DEF Lies, NestsIn
  <2>4. Under(p) # Blank
    BY <2>1, <2>3 DEF ValueDue, ShapeOf
  <2>5. KeyIn(g, p[Len(p)])
    BY <2>1 DEF InStep
  <2>6. Under(p) = p[Len(p)].key
    BY <2>1 DEF Under
  <2> QED
    BY <2>2, <2>4, <2>5, <2>6 DEF KeyIn
<1>10. IsHandler(f) /\ f.state = StateFor[new] /\ Entered(g, f, up, new)
  <2>1. up = "list" => is = "object"
    BY DEF NoArrayInList
  <2> HIDE DEF up
  <2>2. LET d == Handle(g, OpenToken(is))
            r == RoleOf(up, is, Under(p))
        IN /\ IsHandler(d) /\ d.state = StateFor[r]
           /\ r = "other" => IF up = "other" THEN d.skipDepth = g.skipDepth + 1 /\ d.skipReturn = g.skipReturn
                             ELSE d.skipDepth = 1 /\ d.skipReturn = StateFor[up]
           /\ r = "inArgs" => d.argsDepth = g.argsDepth + 1
           /\ r = "args" => d.argsDepth = 0
    BY <1>6, <1>7, <1>8, <2>1, Opens
  <2> QED
    BY <2>2 DEF Entered
<1>9. NewContainer(c, is, new)
  OBVIOUS
<1>11. NestsIn(up, is, new) /\ new \in Roles
  BY <1>6, RoleNests
<1> HIDE DEF new, up
<1>15. q[Len(q)].role = new
  BY <1>4, <1>9 DEF NewContainer
<1>12. SameRoles(p, q, Len(p))
  BY <1>4 DEF SameRoles, SameRole
<1>13. RoleAt(q, Len(q)) = new
  <2>1. Len(q) # 0
    BY <1>2, <1>3
  <2> QED
    BY <1>15, <2>1 DEF RoleAt
<1>14. \A role : /\ Cardinality(OfRole(p, role)) \in Nat
                 /\ Cardinality(OfRole(q, role)) = Cardinality(OfRole(p, role)) + (IF q[Len(q)].role = role THEN 1 ELSE 0)
  BY <1>2, <1>3, <1>12, CountRole
<1>16. /\ Skipped(p) \in Nat /\ NestedArgs(p) \in Nat
       /\ new = "other" => Skipped(q) = Skipped(p) + 1
       /\ new = "inArgs" => NestedArgs(q) = NestedArgs(p) + 1
       /\ new = "args" => NestedArgs(q) = NestedArgs(p)
  <2>1. /\ Cardinality(OfRole(q, "other")) = Cardinality(OfRole(p, "other")) + (IF new = "other" THEN 1 ELSE 0)
        /\ Cardinality(OfRole(q, "inArgs")) = Cardinality(OfRole(p, "inArgs")) + (IF new = "inArgs" THEN 1 ELSE 0)
        /\ Cardinality(OfRole(p, "other")) \in Nat /\ Cardinality(OfRole(p, "inArgs")) \in Nat
    BY <1>14, <1>15
  <2> QED
    BY <2>1 DEF Skipped, NestedArgs
<1>17. (up # "other" => Skipped(p) = 0) /\ (up # "inArgs" => NestedArgs(p) = 0)
  BY <1>1, NoneInside DEF up, Skipped, NestedArgs
<1>18. p # <<>> => StateIn(g, up, Skipped(p), NestedArgs(p))
  BY DEF InStep, up
<1>19. /\ new = "inArgs" => up \in {"args", "inArgs"}
       /\ new = "args" => up = "event"
       /\ up = "other" => new = "other"
       /\ up = "document" => new \notin {"inArgs", "args", "other"}
  BY <1>6 DEF new, RoleOf
<1>20. /\ up = "other" => g.skipDepth = Skipped(p)
       /\ up \in {"args", "inArgs"} => g.argsDepth = NestedArgs(p)
  BY <1>5, <1>18 DEF StateIn
<1>21. new = "other" => f.skipDepth = Skipped(q)
  BY <1>10, <1>16, <1>17, <1>20 DEF Entered
<1>22. new \in {"args", "inArgs"} => f.argsDepth = NestedArgs(q)
  BY <1>10, <1>16, <1>17, <1>19, <1>20 DEF Entered
<1>23. InStep(f, q)
  <2>1. KeyIn(f, q[Len(q)])
    BY <1>4, <1>9 DEF KeyIn, NewContainer
  <2>2. StateIn(f, new, Skipped(q), NestedArgs(q))
    BY <1>10, <1>21, <1>22 DEF StateIn
  <2> QED
    BY <1>13, <2>1, <2>2 DEF InStep
<1>24. WayBack(f, q)
  <2> SUFFICES ASSUME NEW k \in 2..Len(q), Edge(q, k) PROVE Returns(f, RoleAt(q, k - 1))
    BY DEF WayBack
  <2>1. \A j \in 0..Len(p) : RoleAt(q, j) = RoleAt(p, j)
    <3> TAKE j \in 0..Len(p)
    <3>1. CASE j = 0
      BY <3>1 DEF RoleAt
    <3>2. CASE j # 0
      <4>1. j \in 1..Len(p)
        BY <1>2, <3>2
      <4> QED
        BY <1>4, <3>2, <4>1 DEF RoleAt
    <3> QED
      BY <3>1, <3>2
  <2>2. k - 1 \in 0..Len(p) /\ k - 1 # 0 /\ k # 0
    BY <1>2, <1>3
  <2>3. RoleAt(q, k) = "other" /\ RoleAt(q, k - 1) # "other" /\ RoleAt(q, k - 1) = RoleAt(p, k - 1)
    BY <2>1, <2>2 DEF Edge, RoleAt
  <2>4. CASE k = Len(q)
    <3>1. k - 1 = Len(p)
      BY <1>2, <1>3, <2>4
    <3>2. new = "other" /\ RoleAt(q, k - 1) = up
      BY <1>13, <2>3, <2>4, <3>1 DEF up
    <3> QED
      BY <1>10, <2>3, <3>2 DEF Entered, Returns
  <2>5. CASE k # Len(q)
    <3>1. k \in 2..Len(p) /\ k \in 1..Len(p) /\ k \in 0..Len(p) /\ Len(p) \in 1..Len(p) /\ k <= Len(p) /\ Len(p) # 0
      BY <1>2, <1>3, <2>5
    <3>2. RoleAt(p, k) = "other" /\ p[k].role = "other" /\ p[k - 1].role # "other"
      BY <2>1, <2>2, <2>3, <3>1 DEF RoleAt
    <3>3. p[Len(p)].role = "other"
      BY <3>1, <3>2 DEF Inward
    <3>4. up = "other" /\ new = "other"
      BY <1>19, <3>1, <3>3 DEF up, RoleAt
    <3>5. f.skipReturn = g.skipReturn
      BY <1>10, <3>4 DEF Entered
    <3>6. Returns(g, RoleAt(p, k - 1))
      BY <3>1, <3>2 DEF WayBack, Edge
    <3> QED
      BY <2>3, <3>5, <3>6 DEF Returns
  <2> QED
    BY <2>4, <2>5
<1> QED
  BY <1>10, <1>23, <1>24

LEMMA CloseInStep ==
  ASSUME NEW p, NEW q, Nesting(p), Inward(p), p # <<>>, Popped(p, q),
         NEW g, NEW f, IsHandler(g), InStep(g, p), WayBack(g, p), f = Handle(g, EndToken(ShapeOf(p)))
  PROVE  IsHandler(f) /\ InStep(f, q) /\ WayBack(f, q)
<1> DEFINE role == p[Len(p)].role
           up == RoleAt(p, Len(p) - 1)
<1>1. IsSeq(q) /\ IsSeq(p)
  BY DEF Popped, Nesting
<1>2. Len(q) \in Nat /\ (q # <<>> <=> Len(q) > 0)
  BY <1>1, PathLength
<1>3. Len(p) = Len(q) + 1
  BY DEF Popped
<1>4. SameRoles(p, q, Len(q)) /\ Inward(q) /\ Nesting(q)
  BY PoppedNests
<1>5. q # <<>> => KeyIn(f, q[Len(q)])
  BY PoppedNests DEF KeyIn
<1>6. \A k \in 0..Len(q) : RoleAt(q, k) = RoleAt(p, k)
  <2> TAKE k \in 0..Len(q)
  <2>1. CASE k = 0
    BY <2>1 DEF RoleAt
  <2>2. CASE k # 0
    <3>1. k \in 1..Len(q)
      BY <1>2, <2>2
    <3> QED
      BY <1>4, <2>2, <3>1 DEF RoleAt, SameRoles, SameRole
  <2> QED
    BY <2>1, <2>2
<1>7. Len(p) - 1 = Len(q) /\ Len(q) \in 0..Len(q) /\ Len(p) # 0
  BY <1>2, <1>3
<1>8. RoleAt(q, Len(q)) = up
  BY <1>6, <1>7
<1>9. Lies(up, p[Len(p)]) /\ IsContainer(p[Len(p)]) /\ role = RoleAt(p, Len(p))
  BY RoleHere
<1>10. StateIn(g, role, Skipped(p), NestedArgs(p))
  BY <1>9 DEF InStep
<1>11. NestsIn(up, ShapeOf(p), role) /\ ShapeOf(p) \in {"object", "array"}
  BY <1>9 DEF Lies, IsContainer, ShapeOf
<1>12. IsHandler(f) /\ Left(g, f, up, role)
  <2>1. g.state = StateFor[role]
    BY <1>10 DEF StateIn
  <2> HIDE DEF role, up
  <2> QED
    BY <1>11, <2>1, Closes
<1>13. q # <<>> => up # "document"
  BY <1>4, <1>8, RoleHere
<1>14. \A r : /\ Cardinality(OfRole(q, r)) \in Nat
              /\ Cardinality(OfRole(p, r)) = Cardinality(OfRole(q, r)) + (IF p[Len(p)].role = r THEN 1 ELSE 0)
  <2>1. SameRoles(q, p, Len(q))
    BY <1>4 DEF SameRoles, SameRole
  <2> QED
    BY <1>2, <1>3, <2>1, CountRole
<1>15. /\ Skipped(q) \in Nat /\ NestedArgs(q) \in Nat
       /\ role = "other" => Skipped(p) = Skipped(q) + 1
       /\ role = "inArgs" => NestedArgs(p) = NestedArgs(q) + 1
       /\ role # "inArgs" => NestedArgs(p) = NestedArgs(q)
  <2>1. /\ Cardinality(OfRole(p, "other")) = Cardinality(OfRole(q, "other")) + (IF role = "other" THEN 1 ELSE 0)
        /\ Cardinality(OfRole(p, "inArgs")) = Cardinality(OfRole(q, "inArgs")) + (IF role = "inArgs" THEN 1 ELSE 0)
        /\ Cardinality(OfRole(q, "other")) \in Nat /\ Cardinality(OfRole(q, "inArgs")) \in Nat
    BY <1>14
  <2> HIDE DEF role
  <2> QED
    BY <2>1 DEF Skipped, NestedArgs
<1>16. (up # "other" => Skipped(q) = 0) /\ (up # "inArgs" => NestedArgs(q) = 0)
  BY <1>1, <1>4, <1>8, NoneInside DEF Skipped, NestedArgs
<1>17. up = "other" => Skipped(q) > 0
  <2> SUFFICES ASSUME up = "other" PROVE Skipped(q) > 0
    OBVIOUS
  <2>1. RoleAt(q, Len(q)) = "other"
    BY <1>8
  <2>2. Len(q) # 0
    BY <2>1 DEF RoleAt
  <2>3. Len(q) \in 1..Len(q)
    BY <1>2, <2>2
  <2>4. q[Len(q)].role = "other"
    BY <2>1, <2>2 DEF RoleAt
  <2> QED
    BY <1>1, <2>3, <2>4, SomeInside DEF Skipped
<1>18. q # <<>> /\ role = "other" /\ up # "other" => Returns(g, up)
  <2> SUFFICES ASSUME q # <<>>, role = "other", up # "other" PROVE Returns(g, up)
    OBVIOUS
  <2>1. Len(p) \in 2..Len(p) /\ Len(p) - 1 # 0
    BY <1>2, <1>3
  <2>2. Edge(p, Len(p))
    BY <2>1 DEF Edge, RoleAt
  <2> QED
    BY <2>1, <2>2 DEF WayBack
<1> HIDE DEF role, up
<1>19. ASSUME q # <<>>
       PROVE  StateIn(f, up, Skipped(q), NestedArgs(q))
  <2>0. up # "document"
    BY <1>13, <1>19
  <2>1. CASE role = "other"
    <3>1. up \notin {"args", "inArgs"}
      BY <1>11, <2>1 DEF NestsIn
    <3>2. g.skipDepth = Skipped(q) + 1
      BY <1>10, <1>15, <2>1 DEF StateIn
    <3>3. f.skipDepth = Skipped(q)
      BY <1>12, <1>15, <2>1, <3>2 DEF Left
    <3>4. f.state = StateFor[up]
      <4>1. CASE up = "other"
        <5>1. g.skipDepth # 1
          BY <1>15, <1>17, <3>2, <4>1
        <5> QED
          BY <1>12, <2>1, <4>1, <5>1 DEF Left, StateFor
      <4>2. CASE up # "other"
        <5>1. g.skipDepth = 1
          BY <1>16, <3>2, <4>2
        <5>2. g.skipReturn = StateFor[up]
          BY <1>18, <1>19, <2>1, <4>2 DEF Returns
        <5> QED
          BY <1>12, <2>1, <5>1, <5>2 DEF Left
      <4> QED
        BY <4>1, <4>2
    <3> QED
      BY <3>1, <3>3, <3>4 DEF StateIn
  <2>2. CASE role = "inArgs"
    <3>1. up \in {"args", "inArgs"}
      BY <1>11, <2>2 DEF NestsIn
    <3>2. g.argsDepth = NestedArgs(q) + 1
      BY <1>10, <1>15, <2>2 DEF StateIn
    <3>3. g.argsDepth > 0 /\ g.argsDepth - 1 = NestedArgs(q)
      BY <1>15, <3>2
    <3> QED
      BY <1>12, <2>2, <3>1, <3>3 DEF Left, StateIn, StateFor
  <2>3. CASE role = "args"
    <3>1. up = "event"
      BY <1>11, <2>3 DEF NestsIn
    <3>2. g.argsDepth = 0
      BY <1>10, <1>15, <1>16, <2>3, <3>1 DEF StateIn
    <3>3. ~(g.argsDepth > 0)
      BY <3>2
    <3> QED
      BY <1>12, <2>3, <3>1, <3>3 DEF Left, StateIn, StateFor
  <2>4. CASE role \in {"top", "list"}
    <3>1. role = "list" /\ up = "top"
      BY <1>11, <2>0, <2>4 DEF NestsIn
    <3> QED
      BY <1>12, <3>1 DEF Left, StateIn
  <2>5. CASE role \in {"event", "frame", "frames"}
    <3>1. up \in {"list", "frames", "top"}
      BY <1>11, <2>5 DEF NestsIn
    <3> QED
      BY <1>12, <2>5, <3>1 DEF Left, StateIn
  <2> QED
    BY <1>11, <2>1, <2>2, <2>3, <2>4, <2>5 DEF NestsIn
<1>20. InStep(f, q)
  BY <1>5, <1>8, <1>19 DEF InStep
<1>21. WayBack(f, q)
  <2> SUFFICES ASSUME NEW k \in 2..Len(q), Edge(q, k) PROVE Returns(f, RoleAt(q, k - 1))
    BY DEF WayBack
  <2>1. /\ k \in 1..Len(q) /\ k - 1 \in 1..Len(q) /\ k \in 2..Len(p) /\ k \in 1..Len(p) /\ Len(p) \in 1..Len(p)
        /\ k <= Len(p) /\ k - 1 \in 0..Len(q)
    BY <1>2, <1>3
  <2>2. Edge(p, k)
    BY <1>4, <2>1 DEF SameRoles, SameRole, Edge
  <2>3. role = "other"
    BY <2>1, <2>2 DEF Inward, role, Edge
  <2>4. f.skipReturn = g.skipReturn
    BY <1>12, <2>3 DEF Left
  <2>5. Returns(g, RoleAt(p, k - 1)) /\ RoleAt(q, k - 1) = RoleAt(p, k - 1)
    BY <1>6, <2>1, <2>2 DEF WayBack
  <2> QED
    BY <2>4, <2>5 DEF Returns
<1> QED
  BY <1>12, <1>20, <1>21

-----------------------------------------------------------------------------
(* The actions on a document. *)
SameSide(m, n) == IsMeaning(n) /\ n.done = m.done /\ n.plain = m.plain

LEMMA SaidStays ==
  ASSUME NEW m, IsMeaning(m), NEW t
  PROVE  SameSide(m, Said(m, t))
BY DEF IsMeaning, SameSide, Said

LEMMA OpenedStays ==
  ASSUME NEW m, IsMeaning(m), NEW new
  PROVE  /\ IsMeaning(Opened(m, new)) /\ Opened(m, new).done = m.done
         /\ Opened(m, new).plain => m.plain /\ ~(new = "other" /\ Here = "list")
BY DEF IsMeaning, Opened

LEMMA EndedStays ==
  ASSUME NEW m, IsMeaning(m)
  PROVE  /\ IsMeaning(Ended(m)) /\ (Ended(m).plain => m.plain)
         /\ Ended(m).done = IF (Here = "event" /\ m.event.ph # "M") \/ Here = "frame" THEN m.done ELSE Len(path) = 1
BY DEF IsMeaning, Ended

LEMMA FlatKept ==
  ASSUME NEW p, NEW q, Len(q) \in Nat, Len(p) \in Nat, Len(q) <= Len(p), SameRoles(p, q, Len(q)), ListsAreFlat(p)
  PROVE  ListsAreFlat(q)
<1> SUFFICES ASSUME NEW k \in 2..Len(q)
             PROVE  q[k].role = "other" => q[k - 1].role # "list"
  BY DEF ListsAreFlat
<1>1. k \in 2..Len(p) /\ k \in 1..Len(q) /\ k - 1 \in 1..Len(q)
  OBVIOUS
<1> QED
  BY <1>1 DEF ListsAreFlat, SameRoles, SameRole

\* Another key in the innermost container.
LEMMA RekeyedPath ==
  ASSUME NEW p, IsSeq(p), p # <<>>, NEW d, IsContainer(d), SameRole(p[Len(p)], d), KeyFits(d)
  PROVE  LET q == [p EXCEPT ![Len(p)] = d] IN Rekeyed(p, q) /\ q[Len(q)] = d
<1> DEFINE n == Len(p)
           q == [p EXCEPT ![n] = d]
<1>1. n \in Nat /\ n # 0 /\ DOMAIN p = 1..n /\ p = [k \in 1..n |-> p[k]]
  <2>1. n \in Nat /\ n # 0
    BY PathLength
  <2> QED
    BY <2>1, SeqIsFunction DEF IsSeq
<1> HIDE DEF n
<1>2. DOMAIN q = 1..n /\ q = [k \in 1..n |-> q[k]]
  BY <1>1
<1>3. n \in 1..n
  BY <1>1
<1>4. (\A k \in 1..n : k < n => q[k] = p[k]) /\ q[n] = d
  BY <1>1, <1>3
<1> HIDE DEF q
<1>5. IsSeq(q) /\ Len(q) = n
  BY <1>1, <1>2, SeqOfItems
<1>6. n > 0
  BY <1>1
<1>7. Rekeyed(p, q) /\ q[Len(q)] = d
  <2>1. Len(q) = Len(p) /\ Len(p) > 0
    BY <1>5, <1>6 DEF n
  <2>2. IsContainer(q[Len(q)]) /\ SameRole(p[Len(p)], q[Len(q)]) /\ KeyFits(q[Len(q)])
    BY <1>4, <1>5
  <2>3. \A k \in 1..Len(p) : k < Len(p) => q[k] = p[k]
    BY <1>4 DEF n
  <2> QED
    BY <1>4, <1>5, <2>1, <2>2, <2>3 DEF Rekeyed
<1> QED
  BY <1>7 DEF q, n

\* Containers of the same roles, the handler being where it was.
LEMMA RekeyedInPlace ==
  ASSUME NEW g, NEW f, NEW p, NEW q, NEW m, NEW n, InPlace(g, p, m), SameSide(m, n), ~m.done,
         Rekeyed(p, q), m.plain => SamePlace(g, f) /\ KeyIn(f, q[Len(q)])
  PROVE  InPlace(f, q, n)
<1>1. IsSeq(p) /\ Nesting(p) /\ Inward(p)
  BY DEF InPlace, Nesting
<1>2. Len(p) \in Nat /\ Len(q) = Len(p) /\ Len(p) > 0
  BY <1>1, PathLength DEF Rekeyed
<1>3. q # <<>>
  BY <1>2
<1>4. Nesting(q) /\ Inward(q) /\ SameRoles(p, q, Len(q))
  BY <1>1, <1>2, RekeyedNests
<1>5. ASSUME m.plain PROVE IsHandler(f) /\ InStep(f, q) /\ WayBack(f, q) /\ ListsAreFlat(q)
  <2>1. InStep(g, p) /\ WayBack(g, p) /\ ListsAreFlat(p) /\ SamePlace(g, f) /\ KeyIn(f, q[Len(q)])
    BY <1>5 DEF InPlace
  <2>2. InStep(f, q) /\ WayBack(f, q)
    BY <1>1, <2>1, RekeyedInStep
  <2>3. Len(q) \in Nat /\ Len(q) <= Len(p)
    BY <1>2
  <2> QED
    BY <1>2, <1>4, <2>1, <2>2, <2>3, FlatKept DEF SamePlace
<1> QED
  BY <1>3, <1>4, <1>5 DEF InPlace, SameSide

LEMMA KeyedContainer ==
  ASSUME NEW c, IsContainer(c), NEW k
  PROVE  IsContainer(Keyed(c, k)) /\ SameRole(c, Keyed(c, k)) /\ Keyed(c, k).key = k
<1>1. PICK f : f = [c EXCEPT !.key = k]
  OBVIOUS
<1>2. f = [is |-> c.is, role |-> c.role, key |-> k, keys |-> c.keys, size |-> c.size]
  BY <1>1 DEF IsContainer
<1>3. PICK d : d = [f EXCEPT !.keys = c.keys \cup {k}]
  OBVIOUS
<1>4. d = [is |-> c.is, role |-> c.role, key |-> k, keys |-> c.keys \cup {k}, size |-> c.size]
  BY <1>2, <1>3
<1>5. Keyed(c, k) = d
  BY <1>1, <1>3 DEF Keyed
<1>6. IsContainer(d) /\ SameRole(c, d) /\ d.key = k
  BY <1>4 DEF IsContainer, SameRole
<1> QED
  BY <1>5, <1>6

LEMMA KeyStep ==
  ASSUME InPlace(h, path, meant), Key
  PROVE  InPlace(h, path, meant)'
<1>1. PICK k \in KeysOf[Here] \ Inner.keys :
        /\ h' = Handle(h, [is |-> "key", value |-> k])
        /\ path' = [path EXCEPT ![Len(path)] = Keyed(Inner, k)]
        /\ meant' = meant
  BY DEF Key, Feed, Inner
<1>2. path # <<>> /\ Inner.is = "object" /\ Here = Inner.role
  BY DEF Key, AtMember, Here
<1>3. Nesting(path) /\ IsSeq(path) /\ IsMeaning(meant) /\ ~meant.done /\ Inward(path)
  BY <1>2 DEF InPlace, Nesting
<1>4. IsContainer(Inner) /\ RoleAt(path, Len(path)) = Inner.role
  BY <1>2, <1>3, RoleHere DEF Inner
<1> DEFINE d == Keyed(Inner, k)
<1>5. IsContainer(d) /\ SameRole(Inner, d) /\ d.key = k
  BY <1>4, KeyedContainer
<1>6. KeyFits(d)
  BY <1>1, <1>2, <1>5 DEF KeyFits, SameRole
<1> HIDE DEF d
<1>7. Rekeyed(path, path') /\ path'[Len(path')] = d
  <2>1. path' = [path EXCEPT ![Len(path)] = d]
    BY <1>1 DEF d
  <2>2. SameRole(path[Len(path)], d)
    BY <1>5 DEF Inner
  <2> QED
    BY <1>2, <1>3, <1>5, <1>6, <2>1, <2>2, RekeyedPath
<1>8. ASSUME meant.plain
      PROVE  /\ SamePlace(h, h')
             /\ h.state # "Skipping" /\ ~(h.state = "InArgs" /\ h.argsDepth > 0) => h'.key = k
  BY <1>1, <1>8, KeyStays DEF InPlace
<1>9. ASSUME meant.plain PROVE KeyIn(h', d)
  <2> SUFFICES ASSUME d.role \notin {"inArgs", "other"} PROVE h'.key = k
    BY <1>5 DEF KeyIn
  <2>1. StateIn(h, Inner.role, Skipped(path), NestedArgs(path)) /\ Inner.role = d.role
    BY <1>2, <1>4, <1>5, <1>9 DEF InPlace, InStep, SameRole
  <2>2. NestedArgs(path) = 0
    BY <1>3, <1>4, <2>1, NoneInside DEF NestedArgs
  <2>3. d.role \in Roles
    BY <1>2, <1>3, <1>4, <2>1, RoleHere
  <2>4. CASE d.role = "args"
    <3>1. h.argsDepth = 0
      BY <2>1, <2>2, <2>4 DEF StateIn
    <3>2. h.state # "Skipping" /\ ~(h.argsDepth > 0)
      BY <2>1, <2>4, <3>1 DEF StateIn, StateFor
    <3> QED
      BY <1>8, <1>9, <3>2
  <2>5. CASE d.role # "args"
    <3>1. h.state # "Skipping" /\ h.state # "InArgs"
      BY <2>1, <2>3, <2>5 DEF StateIn, StateFor, Roles, ObjectRoles
    <3> QED
      BY <1>8, <1>9, <3>1
  <2> QED
    BY <2>4, <2>5
<1>10. SameSide(meant, meant')
  BY <1>1, <1>3 DEF SameSide
<1> QED
  BY <1>3, <1>7, <1>8, <1>9, <1>10, RekeyedInPlace

LEMMA ScalarToken ==
  ASSUME InPlace(h, path, meant), Scalar
  PROVE  \E t : IsScalar(t) /\ h' = Handle(h, t) /\ meant' = Said(meant, t)
<1>1. PICK t \in ScalarsOf[IF Inner.is = "array" THEN "item" ELSE Inner.key] :
        h' = Handle(h, t) /\ meant' = Said(meant, t)
  BY DEF Scalar, Feed
<1>2. path # <<>> /\ AtValue /\ path' = Counting(path)
  BY DEF Scalar
<1>3. Nesting(path) /\ IsSeq(path) /\ IsMeaning(meant) /\ ~meant.done /\ Inward(path)
  BY <1>2 DEF InPlace, Nesting
<1>4. IsContainer(Inner) /\ KeyFits(Inner) /\ Lies(RoleAt(path, Len(path) - 1), Inner)
  BY <1>2, <1>3, RoleHere DEF Inner
<1>5. IsScalar(t)
  <2>1. CASE Inner.is = "array"
    BY <1>1, <2>1, DocumentAssumption
  <2>2. CASE Inner.is # "array"
    <3>1. Inner.is = "object" /\ Inner.key # Blank
      BY <1>2, <1>4, <2>2 DEF AtValue, IsContainer
    <3>2. Inner.key \in KeysOf[Inner.role]
      BY <1>4, <3>1 DEF KeyFits
    <3>3. Inner.role \in ObjectRoles
      BY <1>4, <3>1 DEF Lies, NestsIn, ObjectRoles
    <3> QED
      BY <1>1, <2>2, <3>2, <3>3, DocumentAssumption
  <2> QED
    BY <2>1, <2>2
<1> QED
  BY <1>1, <1>5

LEMMA ScalarStep ==
  ASSUME InPlace(h, path, meant), Scalar
  PROVE  InPlace(h, path, meant)'
<1>1. PICK t : IsScalar(t) /\ h' = Handle(h, t) /\ meant' = Said(meant, t)
  BY ScalarToken
<1>2. path # <<>> /\ AtValue /\ path' = Counting(path)
  BY DEF Scalar
<1>3. Nesting(path) /\ IsSeq(path) /\ IsMeaning(meant) /\ ~meant.done /\ Inward(path)
  BY <1>2 DEF InPlace, Nesting
<1>4. IsContainer(Inner)
  BY <1>2, <1>3, RoleHere DEF Inner
<1> DEFINE d == Further(Inner)
<1>6. IsContainer(d) /\ SameRole(Inner, d) /\ d.key = Blank
  BY <1>4, FurtherContainer
<1> HIDE DEF d
<1>k. KeyIn(h', d)
  BY <1>6 DEF KeyIn
<1>7. KeyFits(d)
  BY <1>6 DEF KeyFits
<1>8. Rekeyed(path, path') /\ path'[Len(path')] = d
  <2>1. path' = [path EXCEPT ![Len(path)] = d]
    BY <1>2 DEF d, Counting, Inner
  <2>2. SameRole(path[Len(path)], d)
    BY <1>6 DEF Inner
  <2>3. IsContainer(d) /\ KeyFits(d) /\ path # <<>> /\ IsSeq(path)
    BY <1>2, <1>3, <1>6, <1>7
  <2> QED
    BY <2>1, <2>2, <2>3, RekeyedPath
<1>9. meant.plain => SamePlace(h, h')
  BY <1>1, ScalarStays DEF InPlace
<1>10. SameSide(meant, meant')
  BY <1>1, <1>3, SaidStays
<1> QED
  BY <1>3, <1>k, <1>8, <1>9, <1>10, RekeyedInPlace

LEMMA OpenStep ==
  ASSUME InPlace(h, path, meant), NEW is \in {"object", "array"}, Open(is)
  PROVE  InPlace(h, path, meant)'
<1> DEFINE new == RoleOf(Here, is, KeyHere)
           c == [is |-> is, role |-> new, key |-> Blank, keys |-> {}, size |-> 0]
           m == [meant EXCEPT !.opened = @ + 1]
<1>1. AtValue /\ h' = Handle(h, OpenToken(is)) /\ path' = Append(path, c) /\ meant' = Opened(m, new)
  BY DEF Open, Feed, OpenToken
<1>2. Nesting(path) /\ IsSeq(path) /\ IsMeaning(meant) /\ Inward(path)
  BY DEF InPlace, Nesting
<1>3. Len(path) \in Nat /\ (path = <<>> <=> Len(path) = 0)
  BY <1>2, PathLength
<1>4. Here = RoleAt(path, Len(path)) /\ KeyHere = Under(path)
  BY <1>3 DEF Here, KeyHere, RoleAt, Under, Inner
<1>5. ~meant.done
  <2>1. CASE path = <<>>
    BY <1>1, <2>1 DEF AtValue
  <2>2. CASE path # <<>>
    BY <2>2 DEF InPlace
  <2> QED
    BY <2>1, <2>2
<1>6. Here \in Roles
  <2>1. CASE path = <<>>
    BY <2>1 DEF Here, Roles
  <2>2. CASE path # <<>>
    BY <1>2, <1>4, <2>2, RoleHere
  <2> QED
    BY <2>1, <2>2
<1>7. NewContainer(c, is, new)
  BY DEF NewContainer, IsContainer
<1>8. Fresh(RoleAt(path, Len(path)), c)
  <2>1. NestsIn(Here, is, new)
    BY <1>6, RoleNests
  <2> HIDE DEF new
  <2> QED
    BY <1>4, <2>1 DEF Fresh, Lies, IsContainer
<1> HIDE DEF c
<1>9. Pushed(path, path', c)
  BY <1>1, <1>2, PathPushed
<1>10. IsMeaning(m) /\ m.done = meant.done /\ m.plain = meant.plain
  BY <1>2 DEF IsMeaning
<1> HIDE DEF m
<1>11. IsMeaning(meant') /\ meant'.done = meant.done /\ (meant'.plain => meant.plain /\ ~(new = "other" /\ Here = "list"))
  BY <1>1, <1>10, OpenedStays
<1>12. Nesting(path') /\ Inward(path') /\ SameRoles(path, path', Len(path))
  BY <1>2, <1>8, <1>9, PushedNests
<1>13. Len(path') = Len(path) + 1
  BY <1>9 DEF Pushed
<1>15. ASSUME meant'.plain PROVE IsHandler(h') /\ InStep(h', path') /\ WayBack(h', path') /\ ListsAreFlat(path')
  <2>1. IsHandler(h) /\ InStep(h, path) /\ WayBack(h, path) /\ ListsAreFlat(path) /\ (path = <<>> => AtTopLevel(h))
    BY <1>5, <1>11, <1>15 DEF InPlace
  <2>2. NoArrayInList(path, is)
    BY <1>4, <1>11, <1>15 DEF NoArrayInList, RoleOf
  <2>3. ValueDue(path)
    BY <1>1 DEF AtValue, ValueDue, ShapeOf, Under, Inner
  <2>4. NewContainer(c, is, RoleOf(RoleAt(path, Len(path)), is, Under(path)))
    BY <1>4, <1>7
  <2>5. IsHandler(h') /\ InStep(h', path') /\ WayBack(h', path')
    BY <1>1, <1>2, <1>9, <2>1, <2>2, <2>3, <2>4, OpenInStep
  <2>6. ListsAreFlat(path')
    <3> SUFFICES ASSUME NEW k \in 2..Len(path'), path'[k].role = "other" PROVE path'[k - 1].role # "list"
      BY DEF ListsAreFlat
    <3>1. CASE k = Len(path')
      <4>1. path'[Len(path')] = c /\ c.role = new
        BY <1>7, <1>9 DEF Pushed, NewContainer
      <4>2. k - 1 = Len(path) /\ Len(path) \in 1..Len(path) /\ Len(path) # 0
        BY <1>3, <1>13, <3>1
      <4>3. path'[k - 1].role = Here
        BY <1>4, <1>12, <4>2 DEF SameRoles, SameRole, RoleAt
      <4> QED
        BY <1>11, <1>15, <3>1, <4>1, <4>3
    <3>2. CASE k # Len(path')
      <4>1. k \in 2..Len(path) /\ k \in 1..Len(path) /\ k - 1 \in 1..Len(path)
        BY <1>3, <1>13, <3>2
      <4> QED
        BY <1>12, <2>1, <4>1 DEF SameRoles, SameRole, ListsAreFlat
    <3> QED
      BY <3>1, <3>2
  <2> QED
    BY <2>5, <2>6
<1>16. path' # <<>>
  BY <1>3, <1>13
<1> QED
  BY <1>5, <1>11, <1>12, <1>15, <1>16 DEF InPlace

LEMMA ShutStep ==
  ASSUME InPlace(h, path, meant), Shut
  PROVE  InPlace(h, path, meant)'
<1>1. path # <<>> /\ h' = Handle(h, EndToken(ShapeOf(path))) /\ path' = Counting(Front(path)) /\ meant' = Ended(meant)
  BY DEF Shut, Feed, EndToken, ShapeOf, Inner
<1>2. Nesting(path) /\ IsSeq(path) /\ IsMeaning(meant) /\ ~meant.done /\ Inward(path)
  BY <1>1 DEF InPlace, Nesting
<1>3. Popped(path, path')
  BY <1>1, <1>2, PathPopped
<1>4. Nesting(path') /\ Inward(path') /\ SameRoles(path, path', Len(path'))
  BY <1>2, <1>3, PoppedNests
<1>5. IsMeaning(meant') /\ (meant'.plain => meant.plain)
  BY <1>1, <1>2, EndedStays
<1>6. IsSeq(path') /\ Len(path) = Len(path') + 1
  BY <1>3 DEF Popped
<1>7. Len(path') \in Nat /\ (path' = <<>> <=> Len(path') = 0)
  BY <1>6, PathLength
<1>8. Here = RoleAt(path, Len(path)) /\ Lies(RoleAt(path, Len(path) - 1), path[Len(path)]) /\ Here = path[Len(path)].role
  BY <1>1, <1>2, RoleHere DEF Here, Inner
<1>9. Here \in {"event", "frame"} => Len(path) # 1
  <2> SUFFICES ASSUME Len(path) = 1 PROVE Here \notin {"event", "frame"}
    OBVIOUS
  <2>1. RoleAt(path, Len(path) - 1) = "document"
    BY DEF RoleAt
  <2> QED
    BY <1>8, <2>1 DEF Lies, NestsIn
<1>10. meant'.done <=> Len(path) = 1
  <2>1. meant'.done = IF (Here = "event" /\ meant.event.ph # "M") \/ Here = "frame" THEN meant.done ELSE Len(path) = 1
    BY <1>1, <1>2, EndedStays
  <2> QED
    BY <1>2, <1>9, <2>1
<1>11. path' = <<>> <=> Len(path) = 1
  BY <1>6, <1>7
<1>12. ASSUME meant'.plain PROVE IsHandler(h') /\ InStep(h', path') /\ WayBack(h', path') /\ ListsAreFlat(path')
  <2>1. IsHandler(h) /\ InStep(h, path) /\ WayBack(h, path) /\ ListsAreFlat(path)
    BY <1>5, <1>12 DEF InPlace
  <2>2. IsHandler(h') /\ InStep(h', path') /\ WayBack(h', path')
    BY <1>1, <1>2, <1>3, <2>1, CloseInStep
  <2>3. Len(path') \in Nat /\ Len(path) \in Nat /\ Len(path') <= Len(path)
    BY <1>6, <1>7
  <2>4. ListsAreFlat(path')
    BY <1>4, <2>1, <2>3, FlatKept
  <2> QED
    BY <2>2, <2>4
<1> QED
  BY <1>4, <1>5, <1>10, <1>11, <1>12 DEF InPlace

LEMMA PlaceInit == Init => PlaceInv
<1> SUFFICES ASSUME Init PROVE InPlace(h, path, meant)
  BY DEF PlaceInv
<1>1. h = Handler /\ path = <<>> /\ meant = Meaning
  BY DEF Init
<1>2. IsHandler(h) /\ AtTopLevel(h)
  BY <1>1 DEF Handler, IsHandler, AtTopLevel
<1>3. IsMeaning(meant) /\ ~meant.done
  BY <1>1 DEF Meaning, IsMeaning
<1>4. IsSeq(path) /\ Len(path) = 0
  BY <1>1, EmptyIsSeq
<1>5. Nesting(path) /\ Inward(path) /\ InStep(h, path) /\ WayBack(h, path) /\ ListsAreFlat(path)
  BY <1>1, <1>4 DEF Nesting, Inward, InStep, WayBack, ListsAreFlat
<1> QED
  BY <1>2, <1>3, <1>5 DEF InPlace

LEMMA PlaceNext == PlaceInv /\ [Next]_vars => PlaceInv'
<1> SUFFICES ASSUME PlaceInv, [Next]_vars, source' = "document"
             PROVE  InPlace(h, path, meant)'
  BY DEF PlaceInv
<1>1. source = "document"
  BY DEF Next, Key, Scalar, Open, Shut, Feed, Finish, CutShort, ReadSelf, AddEvent, BuildAll, Rebuild, vars
<1>2. InPlace(h, path, meant)
  BY <1>1 DEF PlaceInv
<1>3. CASE Key
  BY <1>2, <1>3, KeyStep
<1>4. CASE Scalar
  BY <1>2, <1>4, ScalarStep
<1>5. CASE Open("object") \/ Open("array")
  BY <1>2, <1>5, OpenStep
<1>6. CASE Shut
  BY <1>2, <1>6, ShutStep
<1>7. CASE UNCHANGED <<h, docVars>>
  BY <1>2, <1>7 DEF docVars
<1>8. Finish \/ CutShort \/ UNCHANGED vars => UNCHANGED <<h, docVars>>
  BY DEF Finish, CutShort, vars
<1> QED
  BY <1>1, <1>3, <1>4, <1>5, <1>6, <1>7, <1>8 DEF Next, ReadSelf, AddEvent, BuildAll, Rebuild

\* The callbacks of the JSON reader know the place in the document from a state
\* and two counts alone, for documents of any size and any nesting (SaxHandler).
THEOREM PlaceIsKnown == Spec => []HandlerKnowsPlace
<1>1. PlaceInv => HandlerKnowsPlace
  <2> SUFFICES ASSUME PlaceInv, source = "document", path # <<>>, meant.plain
               PROVE  /\ h.state = StateFor[Here]
                      /\ Here = "other" => h.skipDepth = Depth("other")
                      /\ Here \in {"args", "inArgs"} => h.argsDepth = Depth("inArgs")
    BY DEF HandlerKnowsPlace, Reading
  <2>1. Nesting(path) /\ StateIn(h, RoleAt(path, Len(path)), Skipped(path), NestedArgs(path))
    BY DEF PlaceInv, InPlace, InStep
  <2>2. Here = RoleAt(path, Len(path))
    BY <2>1, RoleHere DEF Here, Inner
  <2>3. Skipped(path) = Depth("other") /\ NestedArgs(path) = Depth("inArgs")
    BY DEF Skipped, NestedArgs, Depth, OfRole
  <2> QED
    BY <2>1, <2>2, <2>3 DEF StateIn
<1> QED
  BY <1>1, PlaceInit, PlaceNext, PTL DEF Spec

-----------------------------------------------------------------------------
(* What the handler has gathered is what the document says. *)
IsEvent(e) == {"ph", "cat", "weight", "unit", "args"} \subseteq DOMAIN e
IsArgs(a) == a = [given |-> a.given, members |-> a.members, bad |-> a.bad]
IsModel(md) ==
  md = [events |-> md.events, frames |-> md.frames, series |-> md.series, flows |-> md.flows, labels |-> md.labels,
        processes |-> md.processes, threads |-> md.threads]

\* Series by name: the values of each are in a sequence.
IsSeries(f) == IsFiniteSet(Points(f)) /\ \A s \in DOMAIN f : IsSeq(f[s])

InOpenEvent(g) == g.state \in {"InEvent", "InArgs"} \/ (g.state = "Skipping" /\ g.skipReturn = "InEvent")
InOpenFrame(g) == g.state = "InStackFrame" \/ (g.state = "Skipping" /\ g.skipReturn = "InStackFrame")

SameEvent(g, m) == IsEvent(g.event) /\ IsArgs(g.args) /\ m.event = [g.event EXCEPT !.args = g.args]

\* The numbers of a counter's args; none before its args.
SameNumbers(g, m) ==
  /\ IsSeq(g.counters) /\ m.numbers \in Nat
  /\ g.event.ph = "C" /\ ~m.phLast => Len(g.counters) = m.numbers
  /\ ~g.args.given => Len(g.counters) = 0 /\ m.numbers = 0

SameFrame(g, m) == m.frame = g.frame /\ m.named = g.hasName /\ g.hasName \in BOOLEAN

SameModel(md, m) ==
  /\ IsModel(md)
  /\ IsSeq(md.events) /\ IsSeq(m.events) /\ Len(md.events) = Len(m.events)
  /\ \A i \in 1..Len(m.events) : md.events[i] = Kinded(m.events[i])
  /\ md.frames = m.frames
  /\ IsSeries(md.series) /\ Cardinality(Points(md.series)) = m.points

InKind(g) ==
  /\ g.state = "InArgs" => g.args.given /\ (g.argsDepth > 0 => g.args.bad)
  /\ g.state = "Skipping" => g.skipReturn \notin {"InArgs", "Skipping"}

Gathered(g, m) ==
  /\ SameModel(g.model, m) /\ InKind(g)
  /\ InOpenEvent(g) => SameEvent(g, m) /\ SameNumbers(g, m)
  /\ InOpenFrame(g) => SameFrame(g, m)

ReadInv == source = "document" /\ meant.plain => Gathered(h, meant)

\* An event and its args are kept apart until the event ends.
LEMMA FieldsKept ==
  ASSUME NEW e, NEW k, NEW v
  PROVE  DOMAIN [e EXCEPT ![k] = v] = DOMAIN e
OBVIOUS

LEMMA EventKept ==
  ASSUME NEW e, IsEvent(e), NEW k, NEW v
  PROVE  IsEvent([e EXCEPT ![k] = v])
BY FieldsKept DEF IsEvent

LEMMA ArgsApart ==
  ASSUME NEW e, IsEvent(e), NEW a
  PROVE  LET d == [e EXCEPT !.args = a] IN
         d.args = a /\ d.ph = e.ph /\ d.cat = e.cat /\ d.weight = e.weight /\ d.unit = e.unit
BY DEF IsEvent

\* A field that is not args.
SetIn(d, e, a) == d = [e EXCEPT !.args = a]
SetField(f, e, k, v) == f = [e EXCEPT ![k] = v]

LEMMA SetTwice ==
  ASSUME NEW d, NEW e, NEW a, SetIn(d, e, a), NEW x, NEW b, SetIn(x, d, b)
  PROVE  SetIn(x, e, b)
<1>1. d = [y \in DOMAIN e |-> IF y = "args" THEN a ELSE e[y]]
  BY DEF SetIn
<1>2. x = [y \in DOMAIN d |-> IF y = "args" THEN b ELSE d[y]]
  BY DEF SetIn
<1>3. x = [y \in DOMAIN e |-> IF y = "args" THEN b ELSE e[y]]
  BY <1>1, <1>2
<1>4. x = [e EXCEPT !["args"] = b]
  BY <1>3
<1> QED
  BY <1>4 DEF SetIn

LEMMA OneField ==
  ASSUME NEW e, NEW a, NEW d, SetIn(d, e, a), NEW k, k # "args", NEW v, NEW f, NEW g,
         SetField(f, e, k, v), SetField(g, d, k, v), IsEvent(e)
  PROVE  IsEvent(f) /\ SetIn(g, f, a)
<1>1. IsEvent(f)
  BY EventKept DEF SetField
<1>2. f = [x \in DOMAIN e |-> IF x = k THEN v ELSE e[x]]
  BY DEF SetField
<1>3. d = [x \in DOMAIN e |-> IF x = "args" THEN a ELSE e[x]]
  BY DEF SetIn
<1>4. g = [x \in DOMAIN d |-> IF x = k THEN v ELSE d[x]]
  BY DEF SetField
<1>5. g = [x \in DOMAIN e |-> IF x = k THEN v ELSE IF x = "args" THEN a ELSE e[x]]
  BY <1>3, <1>4
<1>6. g = [x \in DOMAIN f |-> IF x = "args" THEN a ELSE f[x]]
  BY <1>2, <1>5
<1>7. g = [f EXCEPT !["args"] = a]
  BY <1>6
<1> QED
  BY <1>1, <1>7 DEF SetIn

LEMMA EventSaidOne ==
  ASSUME NEW k, NEW t, IsScalar(t)
  PROVE  \/ \E j, v : j # "args" /\ \A e : SetField(EventSaid(e, k, t), e, j, v)
         \/ \A e : EventSaid(e, k, t) = e
<1>1. CASE t.is = "number"
  <2>1. CASE k \in NumberFields \/ (k = "weight" /\ t.value >= 0)
    <3>1. k # "args" /\ \A e : SetField(EventSaid(e, k, t), e, k, t.value)
      BY <1>1, <2>1 DEF EventSaid, NumberFields, SetField
    <3> QED
      BY <3>1
  <2>2. CASE k = "sf"
    <3>1. \A e : SetField(EventSaid(e, k, t), e, "sf", Raw(t.value))
      BY <1>1, <2>2 DEF EventSaid, NumberFields, SetField
    <3> QED
      BY <3>1
  <2>3. CASE k # "sf" /\ ~(k \in NumberFields \/ (k = "weight" /\ t.value >= 0))
    BY <1>1, <2>3 DEF EventSaid
  <2> QED
    BY <2>1, <2>2, <2>3
<1>2. CASE t.is = "string"
  <2>1. CASE k \in {"name", "cat", "sf"} \/ (k = "ph" /\ t.value # Blank)
    <3>1. k # "args" /\ \A e : SetField(EventSaid(e, k, t), e, k, t.value)
      BY <1>2, <2>1 DEF EventSaid, SetField
    <3> QED
      BY <3>1
  <2>2. CASE k = "weightUnit"
    <3>1. \A e : SetField(EventSaid(e, k, t), e, "unit", t.value)
      BY <1>2, <2>2 DEF EventSaid, SetField
    <3> QED
      BY <3>1
  <2>3. CASE k = "id" /\ t.value \in DOMAIN Numeral
    <3>1. \A e : SetField(EventSaid(e, k, t), e, "id", Numeral[t.value])
      BY <1>2, <2>3 DEF EventSaid, SetField
    <3> QED
      BY <3>1
  <2>4. CASE k # "weightUnit" /\ ~(k = "id" /\ t.value \in DOMAIN Numeral)
             /\ ~(k \in {"name", "cat", "sf"} \/ (k = "ph" /\ t.value # Blank))
    BY <1>2, <2>4 DEF EventSaid
  <2> QED
    BY <2>1, <2>2, <2>3, <2>4
<1>3. CASE t.is \notin {"number", "string"}
  BY <1>3 DEF EventSaid
<1> QED
  BY <1>1, <1>2, <1>3

LEMMA EventSaidApart ==
  ASSUME NEW e, IsEvent(e), NEW a, NEW d, SetIn(d, e, a), NEW k, NEW t, IsScalar(t)
  PROVE  IsEvent(EventSaid(e, k, t)) /\ SetIn(EventSaid(d, k, t), EventSaid(e, k, t), a)
<1>1. CASE \E j, v : j # "args" /\ \A f : SetField(EventSaid(f, k, t), f, j, v)
  BY <1>1, OneField
<1>2. CASE \A f : EventSaid(f, k, t) = f
  BY <1>2
<1> QED
  BY <1>1, <1>2, EventSaidOne

LEMMA PhKept ==
  ASSUME NEW e, IsEvent(e), NEW k, NEW t, IsScalar(t), ~PhSaid(k, t)
  PROVE  EventSaid(e, k, t).ph = e.ph
BY DEF EventSaid, IsEvent, PhSaid, NumberFields

LEMMA KindedApart ==
  ASSUME NEW e, IsEvent(e), NEW a
  PROVE  /\ Kinded([e EXCEPT !.args = a]) = [Kinded(e) EXCEPT !.args = a]
         /\ Kinded(e).ph = e.ph
BY ArgsApart DEF Kinded, IsEvent

-----------------------------------------------------------------------------
(* A key or a scalar: what the handler keeps, and what it changes. *)
SameRest(g, f) == f.state = g.state /\ f.skipReturn = g.skipReturn /\ f.argsDepth = g.argsDepth /\ f.model = g.model
SameGathered(g, f) ==
  /\ f.event = g.event /\ f.args = g.args /\ f.counters = g.counters
  /\ f.frame = g.frame /\ f.hasName = g.hasName

LEMMA GatheredStays ==
  ASSUME NEW g, NEW f, NEW m, Gathered(g, m), SameRest(g, f), SameGathered(g, f)
  PROVE  Gathered(f, m)
BY DEF Gathered, SameRest, SameGathered, InKind, InOpenEvent, InOpenFrame, SameEvent, SameNumbers, SameFrame

LEMMA EventScalar ==
  ASSUME NEW g, IsHandler(g), g.state = "InEvent", NEW t, IsScalar(t)
  PROVE  LET f == Handle(g, t) IN
         /\ SameRest(g, f) /\ f.event = EventSaid(g.event, g.key, t)
         /\ f.args = g.args /\ f.counters = g.counters
<1>1. CASE t = Number(t.value)
  <2>1. t.is = "number" /\ Handle(g, t) = OnNumber(g, t.value)
    BY <1>1 DEF Number, Handle
  <2> QED
    BY <2>1 DEF OnNumber, EventSaid, NumberFields, IsHandler, SameRest
<1>2. CASE t = String(t.value)
  <2>1. t.is = "string" /\ Handle(g, t) = OnString(g, t.value)
    BY <1>2 DEF String, Handle
  <2> QED
    BY <2>1 DEF OnString, EventSaid, IsHandler, SameRest
<1>3. CASE t.is = "bare"
  <2>1. Handle(g, t) = g
    BY <1>3 DEF Handle, OnBare, Blemish
  <2> QED
    BY <1>3, <2>1 DEF EventSaid, SameRest
<1> QED
  BY <1>1, <1>2, <1>3 DEF IsScalar

Grown(old, new, yes) == IF yes THEN \E c : new = Append(old, c) ELSE new = old

LEMMA ArgScalar ==
  ASSUME NEW g, IsHandler(g), g.state = "InArgs", g.argsDepth = 0, NEW t, IsScalar(t)
  PROVE  LET f == Handle(g, t) IN
         /\ SameRest(g, f) /\ f.event = g.event /\ f.args = ArgSaid(g.args, g.key, t)
         /\ Grown(g.counters, f.counters, Numeric(t) /\ g.event.ph = "C")
<1> DEFINE a == [g EXCEPT !.args.members = Append(@, [key |-> g.key, token |-> t])]
<1>1. /\ IsHandler(a) /\ SameRest(g, a) /\ a.event = g.event /\ a.counters = g.counters
      /\ a.args = [g.args EXCEPT !.members = Append(@, [key |-> g.key, token |-> t])]
  BY SMTT(30) DEF IsHandler, SameRest
<1>2. Argument(g, t) = a
  BY DEF Argument
<1> HIDE DEF a
<1>3. \A v : LET f == Counted(a, v) IN
        /\ SameRest(a, f) /\ f.event = a.event /\ f.args = a.args
        /\ Grown(a.counters, f.counters, a.event.ph = "C")
  <2> TAKE v
  <2>1. a.argsDepth = 0
    BY <1>1 DEF SameRest
  <2>2. CASE a.event.ph = "C"
    <3> DEFINE c == [key |-> a.key, value |-> v]
    <3>1. Counted(a, v) = [a EXCEPT !.counters = Append(@, c)]
      BY <2>1, <2>2 DEF Counted
    <3> HIDE DEF c
    <3>2. Counted(a, v).counters = Append(a.counters, c)
      BY <1>1, <3>1 DEF IsHandler
    <3> QED
      BY <1>1, <2>2, <3>1, <3>2 DEF IsHandler, SameRest, Grown
  <2>3. CASE a.event.ph # "C"
    BY <2>3 DEF Counted, SameRest, Grown
  <2> QED
    BY <2>2, <2>3
<1>4. CASE t = Number(t.value)
  <2>1. t.is = "number" /\ Handle(g, t) = Counted(a, t.value)
    BY <1>2, <1>4 DEF Number, Handle, OnNumber
  <2>2. Numeric(t) /\ ArgSaid(g.args, g.key, t) = a.args
    BY <1>1, <2>1 DEF Numeric, ArgSaid
  <2> DEFINE f == Counted(a, t.value)
  <2>3. SameRest(a, f) /\ f.event = a.event /\ f.args = a.args /\ Grown(a.counters, f.counters, a.event.ph = "C")
    BY <1>3
  <2> HIDE DEF f
  <2>4. SameRest(g, f)
    BY <1>1, <2>3 DEF SameRest
  <2>5. f.event = g.event /\ f.args = a.args /\ Grown(g.counters, f.counters, Numeric(t) /\ g.event.ph = "C")
    BY <1>1, <2>2, <2>3 DEF Grown
  <2>6. Handle(g, t) = f
    BY <2>1 DEF f
  <2> QED
    BY <2>2, <2>4, <2>5, <2>6
<1>5. CASE t = String(t.value)
  <2>1. t.is = "string" /\ Handle(g, t) = IF t.value \in DOMAIN Numeral THEN Counted(a, Numeral[t.value]) ELSE a
    BY <1>2, <1>5 DEF String, Handle, OnString
  <2>2. (Numeric(t) <=> t.value \in DOMAIN Numeral) /\ ArgSaid(g.args, g.key, t) = a.args
    BY <1>1, <2>1 DEF Numeric, ArgSaid
  <2>3. CASE t.value \in DOMAIN Numeral
    <3> DEFINE f == Counted(a, Numeral[t.value])
    <3>1. SameRest(a, f) /\ f.event = a.event /\ f.args = a.args /\ Grown(a.counters, f.counters, a.event.ph = "C")
      BY <1>3
    <3> HIDE DEF f
    <3>2. SameRest(g, f)
      BY <1>1, <3>1 DEF SameRest
    <3>3. f.event = g.event /\ f.args = a.args /\ Grown(g.counters, f.counters, Numeric(t) /\ g.event.ph = "C")
      BY <1>1, <2>2, <2>3, <3>1 DEF Grown
    <3>4. Handle(g, t) = f
      BY <2>1, <2>3 DEF f
    <3> QED
      BY <2>2, <3>2, <3>3, <3>4
  <2>4. CASE t.value \notin DOMAIN Numeral
    BY <1>1, <2>1, <2>2, <2>4 DEF Grown
  <2> QED
    BY <2>3, <2>4
<1>6. CASE t.is = "bare"
  <2>1. Handle(g, t) = [g EXCEPT !.args.bad = TRUE] /\ ~Numeric(t)
    BY <1>6 DEF Handle, OnBare, Numeric
  <2> QED
    BY <1>6, <2>1 DEF IsHandler, SameRest, ArgSaid, Grown
<1> QED
  BY <1>4, <1>5, <1>6 DEF IsScalar

LEMMA InArgScalar ==
  ASSUME NEW g, IsHandler(g), g.state = "InArgs", g.argsDepth > 0, g.argsDepth # 0, IsArgs(g.args), g.args.bad = TRUE,
         NEW t, IsScalar(t)
  PROVE  LET f == Handle(g, t) IN
         SameRest(g, f) /\ f.event = g.event /\ f.args = g.args /\ f.counters = g.counters
<1>1. CASE t = Number(t.value)
  BY <1>1 DEF Number, Handle, OnNumber, Argument, Counted, SameRest
<1>2. CASE t = String(t.value)
  BY <1>2 DEF String, Handle, OnString, Argument, Counted, SameRest
<1>3. CASE t.is = "bare"
  <2>1. Handle(g, t) = [g EXCEPT !.args.bad = TRUE]
    BY <1>3 DEF Handle, OnBare
  <2>2. [g.args EXCEPT !.bad = TRUE] = g.args
    BY DEF IsArgs
  <2> QED
    BY <2>1, <2>2 DEF IsHandler, SameRest
<1> QED
  BY <1>1, <1>2, <1>3 DEF IsScalar

LEMMA FrameScalar ==
  ASSUME NEW g, IsHandler(g), g.state = "InStackFrame", g.hasName \in BOOLEAN, NEW t, IsScalar(t)
  PROVE  LET f == Handle(g, t) IN
         /\ SameRest(g, f) /\ f.frame = FrameSaid(g.frame, g.key, t)
         /\ f.hasName = (g.hasName \/ NameSaid(g.key, t))
<1>1. CASE t = Number(t.value)
  <2>1. t.is = "number" /\ Handle(g, t) = OnNumber(g, t.value)
    BY <1>1 DEF Number, Handle
  <2> QED
    BY <2>1 DEF OnNumber, FrameSaid, NameSaid, IsHandler, SameRest
<1>2. CASE t = String(t.value)
  <2>1. t.is = "string" /\ Handle(g, t) = OnString(g, t.value)
    BY <1>2 DEF String, Handle
  <2> QED
    BY <2>1 DEF OnString, FrameSaid, NameSaid, IsHandler, SameRest
<1>3. CASE t.is = "bare"
  <2>1. Handle(g, t) = Blemish(g)
    BY <1>3 DEF Handle, OnBare
  <2> QED
    BY <1>3, <2>1 DEF Blemish, FrameSaid, NameSaid, IsHandler, SameRest
<1> QED
  BY <1>1, <1>2, <1>3 DEF IsScalar

LEMMA OtherScalar ==
  ASSUME NEW g, g.state \notin {"InEvent", "InArgs", "InStackFrame"}, NEW t, IsScalar(t)
  PROVE  Handle(g, t) = g
<1>1. CASE t = Number(t.value)
  BY <1>1 DEF Number, Handle, OnNumber
<1>2. CASE t = String(t.value)
  BY <1>2 DEF String, Handle, OnString
<1>3. CASE t.is = "bare"
  BY <1>3 DEF Handle, OnBare, Blemish
<1> QED
  BY <1>1, <1>2, <1>3 DEF IsScalar

-----------------------------------------------------------------------------
(* Every action keeps what was gathered in step with what was meant. *)
LEMMA HereFacts ==
  ASSUME InPlace(h, path, meant), meant.plain, path # <<>>
  PROVE  /\ IsHandler(h) /\ IsMeaning(meant) /\ KeyIn(h, Inner)
         /\ StateIn(h, Here, Skipped(path), NestedArgs(path))
         /\ Here = Inner.role /\ Here \in Roles /\ Here # "document"
         /\ Here = "args" => h.argsDepth = 0
         /\ Here = "inArgs" => h.argsDepth > 0 /\ h.argsDepth # 0
         /\ Here \in {"top", "event", "args", "frames", "frame"} => Inner.is = "object"
<1>1. Nesting(path) /\ IsSeq(path) /\ Inward(path)
  BY DEF InPlace, Nesting
<1>2. RoleAt(path, Len(path)) = Here /\ Here = Inner.role /\ Here \in Roles /\ Here # "document"
  BY <1>1, RoleHere DEF Here, Inner
<1>3. IsHandler(h) /\ IsMeaning(meant) /\ KeyIn(h, Inner) /\ StateIn(h, Here, Skipped(path), NestedArgs(path))
  BY <1>2 DEF InPlace, InStep, Inner
<1>4. Here = "args" => h.argsDepth = 0
  BY <1>1, <1>2, <1>3, NoneInside DEF StateIn, NestedArgs
<1>5. Here = "inArgs" => h.argsDepth > 0 /\ h.argsDepth # 0
  <2> SUFFICES ASSUME Here = "inArgs" PROVE h.argsDepth > 0 /\ h.argsDepth # 0
    OBVIOUS
  <2>1. Len(path) \in Nat /\ Len(path) # 0
    BY <1>1, PathLength
  <2>2. Len(path) \in 1..Len(path)
    BY <2>1
  <2>3. path[Len(path)].role = "inArgs"
    BY <1>2 DEF Inner
  <2>4. NestedArgs(path) > 0
    BY <1>1, <2>2, <2>3, SomeInside DEF NestedArgs
  <2>5. h.argsDepth = NestedArgs(path)
    BY <1>3 DEF StateIn
  <2> QED
    BY <2>4, <2>5
<1>6. Lies(RoleAt(path, Len(path) - 1), Inner)
  BY <1>1, RoleHere DEF Inner
<1>7. Here \in {"top", "event", "args", "frames", "frame"} => Inner.is = "object"
  BY <1>2, <1>6 DEF Lies, NestsIn
<1> QED
  BY <1>2, <1>3, <1>4, <1>5, <1>7

LEMMA KeyKnown ==
  ASSUME InPlace(h, path, meant), meant.plain, path # <<>>, AtValue, Here \in {"top", "event", "args", "frames", "frame"}
  PROVE  h.key = KeyHere
<1>1. KeyIn(h, Inner) /\ Here = Inner.role /\ Inner.is = "object"
  BY HereFacts
<1>2. Inner.key # Blank /\ KeyHere = Inner.key
  BY <1>1 DEF AtValue, KeyHere
<1> QED
  BY <1>1, <1>2 DEF KeyIn

\* The document's side of a scalar.
SameTotals(m, n) == n.events = m.events /\ n.frames = m.frames /\ n.points = m.points
SameTold(m, n) == n.event = m.event /\ n.phLast = m.phLast /\ n.numbers = m.numbers
SameFrameTold(m, n) == n.frame = m.frame /\ n.named = m.named

LEMMA SaidMeans ==
  ASSUME NEW m, IsMeaning(m), NEW t
  PROVE  LET n == Said(m, t) IN
         /\ SameTotals(m, n)
         /\ Here = "event" => /\ n.event = EventSaid(m.event, KeyHere, t) /\ n.numbers = m.numbers
                              /\ n.phLast = IF PhSaid(KeyHere, t) THEN m.event.args.given ELSE m.phLast
         /\ Here = "args" => /\ n.event = [m.event EXCEPT !.args = ArgSaid(@, KeyHere, t)] /\ n.phLast = m.phLast
                             /\ n.numbers = IF Numeric(t) THEN m.numbers + 1 ELSE m.numbers
         /\ Here = "inArgs" => /\ n.event = [m.event EXCEPT !.args = [@ EXCEPT !.bad = TRUE]]
                               /\ n.phLast = m.phLast /\ n.numbers = m.numbers
         /\ Here = "frame" => /\ n.frame = FrameSaid(m.frame, KeyHere, t)
                              /\ n.named = (m.named \/ NameSaid(KeyHere, t))
         /\ Here \notin {"event", "args", "inArgs"} => SameTold(m, n)
         /\ Here # "frame" => SameFrameTold(m, n)
BY DEF IsMeaning, Said, SameTotals, SameTold, SameFrameTold

LEMMA TotalsKept ==
  ASSUME NEW md, NEW m, NEW n, SameModel(md, m), SameTotals(m, n)
  PROVE  SameModel(md, n)
BY DEF SameModel, SameTotals

\* One more number, or none.
LEMMA NumbersKept ==
  ASSUME NEW g, NEW f, NEW m, NEW n, NEW yes \in BOOLEAN, SameNumbers(g, m),
         f.event.ph = g.event.ph, n.phLast = m.phLast, f.args.given, g.args.given,
         Grown(g.counters, f.counters, yes /\ g.event.ph = "C"), n.numbers = IF yes THEN m.numbers + 1 ELSE m.numbers
  PROVE  SameNumbers(f, n)
<1>1. IsSeq(g.counters) /\ m.numbers \in Nat /\ Len(g.counters) \in Nat
  BY PathLength DEF SameNumbers
<1>2. IsSeq(f.counters) /\ Len(f.counters) = IF yes /\ g.event.ph = "C" THEN Len(g.counters) + 1 ELSE Len(g.counters)
  <2>1. CASE yes /\ g.event.ph = "C"
    <3>1. PICK c : f.counters = Append(g.counters, c)
      BY <2>1 DEF Grown
    <3>2. Pushed(g.counters, f.counters, c)
      BY <1>1, <3>1, PathPushed
    <3> QED
      BY <2>1, <3>2 DEF Pushed
  <2>2. CASE ~(yes /\ g.event.ph = "C")
    BY <1>1, <2>2 DEF Grown
  <2> QED
    BY <2>1, <2>2
<1>3. g.event.ph = "C" /\ ~m.phLast => Len(g.counters) = m.numbers
  BY DEF SameNumbers
<1>4. n.numbers \in Nat
  BY <1>1
<1>5. f.event.ph = "C" /\ ~n.phLast => Len(f.counters) = n.numbers
  BY <1>1, <1>2, <1>3
<1> QED
  BY <1>2, <1>4, <1>5 DEF SameNumbers

LEMMA EventTold ==
  ASSUME NEW g, NEW f, NEW m, NEW n, NEW k, NEW t, IsScalar(t), Gathered(g, m), g.state = "InEvent",
         SameRest(g, f), f.event = EventSaid(g.event, k, t), f.args = g.args, f.counters = g.counters,
         SameTotals(m, n), n.event = EventSaid(m.event, k, t), n.numbers = m.numbers,
         n.phLast = IF PhSaid(k, t) THEN m.event.args.given ELSE m.phLast
  PROVE  Gathered(f, n)
<1>1. f.state = "InEvent" /\ SameModel(f.model, n)
  BY TotalsKept DEF SameRest, Gathered
<1>2. SameEvent(g, m) /\ SameNumbers(g, m)
  BY DEF Gathered, InOpenEvent
<1>3. SetIn(m.event, g.event, g.args) /\ IsEvent(g.event)
  BY <1>2 DEF SameEvent, SetIn
<1>4. IsEvent(f.event) /\ SetIn(n.event, f.event, f.args)
  BY <1>3, EventSaidApart
<1>5. SameEvent(f, n)
  BY <1>2, <1>4 DEF SameEvent, SetIn
<1>6. m.event.args = g.args
  BY <1>3, ArgsApart DEF SetIn
<1>7. SameNumbers(f, n)
  <2>1. CASE PhSaid(k, t)
    BY <1>2, <1>6, <2>1 DEF SameNumbers
  <2>2. CASE ~PhSaid(k, t)
    <3>1. f.event.ph = g.event.ph
      BY <1>3, <2>2, PhKept
    <3> QED
      BY <1>2, <2>2, <3>1 DEF SameNumbers
  <2> QED
    BY <2>1, <2>2
<1> QED
  BY <1>1, <1>5, <1>7 DEF Gathered, InKind, InOpenFrame

\* Only the args change, inside them.
LEMMA ArgsTold ==
  ASSUME NEW g, NEW f, NEW m, NEW n, NEW yes \in BOOLEAN, Gathered(g, m), g.state = "InArgs",
         SameRest(g, f), f.event = g.event, IsArgs(f.args), f.args.given, g.args.bad => f.args.bad,
         Grown(g.counters, f.counters, yes /\ g.event.ph = "C"),
         SameTotals(m, n), SetIn(n.event, m.event, f.args), n.phLast = m.phLast,
         n.numbers = IF yes THEN m.numbers + 1 ELSE m.numbers
  PROVE  Gathered(f, n)
<1>1. f.state = "InArgs" /\ f.argsDepth = g.argsDepth /\ SameModel(f.model, n)
  BY TotalsKept DEF SameRest, Gathered
<1>2. SameEvent(g, m) /\ SameNumbers(g, m)
  BY DEF Gathered, InOpenEvent
<1>3. InKind(f) /\ g.args.given
  BY <1>1 DEF Gathered, InKind
<1>4. SetIn(n.event, f.event, f.args)
  <2>1. SetIn(m.event, f.event, g.args)
    BY <1>2 DEF SameEvent, SetIn
  <2> QED
    BY <2>1, SetTwice
<1>5. SameEvent(f, n)
  BY <1>2, <1>4 DEF SameEvent, SetIn
<1>6. SameNumbers(f, n)
  BY <1>2, <1>3, NumbersKept
<1> QED
  BY <1>1, <1>3, <1>5, <1>6 DEF Gathered, InOpenFrame

LEMMA FrameTold ==
  ASSUME NEW g, NEW f, NEW m, NEW n, Gathered(g, m), g.state = "InStackFrame",
         SameRest(g, f), SameTotals(m, n), n.frame = f.frame, n.named = f.hasName, f.hasName \in BOOLEAN
  PROVE  Gathered(f, n)
<1>1. f.state = "InStackFrame" /\ SameModel(f.model, n)
  BY TotalsKept DEF SameRest, Gathered
<1> QED
  BY <1>1 DEF Gathered, InKind, InOpenEvent, InOpenFrame, SameFrame

\* The same handler, and a document that told nothing of what is open.
LEMMA NothingTold ==
  ASSUME NEW g, NEW m, NEW n, Gathered(g, m), SameTotals(m, n), SameTold(m, n), SameFrameTold(m, n)
  PROVE  Gathered(g, n)
BY TotalsKept DEF Gathered, SameTold, SameFrameTold, SameEvent, SameNumbers, SameFrame

LEMMA ScalarGathers ==
  ASSUME InPlace(h, path, meant), meant.plain, Gathered(h, meant), Scalar
  PROVE  Gathered(h', meant')
<1>1. PICK t : IsScalar(t) /\ h' = Handle(h, t) /\ meant' = Said(meant, t)
  BY ScalarToken
<1>2. path # <<>> /\ AtValue
  BY DEF Scalar
<1>3. /\ IsHandler(h) /\ IsMeaning(meant) /\ h.state = StateFor[Here] /\ Here \in Roles /\ Here # "document"
      /\ Here = "args" => h.argsDepth = 0
      /\ Here = "inArgs" => h.argsDepth > 0 /\ h.argsDepth # 0
  BY <1>2, HereFacts DEF StateIn
<1>4. Here \in {"event", "args", "frame"} => h.key = KeyHere
  BY <1>2, KeyKnown
<1> DEFINE f == Handle(h, t)
           n == Said(meant, t)
<1>5. SameTotals(meant, n)
  BY <1>3, SaidMeans
<1>6. CASE Here = "event"
  <2>1. h.state = "InEvent"
    BY <1>3, <1>6 DEF StateFor
  <2>2. SameRest(h, f) /\ f.event = EventSaid(h.event, KeyHere, t) /\ f.args = h.args /\ f.counters = h.counters
    BY <1>1, <1>3, <1>4, <1>6, <2>1, EventScalar
  <2>3. /\ n.event = EventSaid(meant.event, KeyHere, t) /\ n.numbers = meant.numbers
        /\ n.phLast = IF PhSaid(KeyHere, t) THEN meant.event.args.given ELSE meant.phLast
    BY <1>3, <1>6, SaidMeans
  <2> HIDE DEF f, n
  <2>4. Gathered(f, n)
    BY <1>1, <1>5, <2>1, <2>2, <2>3, EventTold
  <2> QED
    BY <1>1, <2>4 DEF f, n
<1>7. CASE Here = "args"
  <2>1. h.state = "InArgs" /\ h.argsDepth = 0
    BY <1>3, <1>7 DEF StateFor
  <2>2. /\ SameRest(h, f) /\ f.event = h.event /\ f.args = ArgSaid(h.args, KeyHere, t)
        /\ Grown(h.counters, f.counters, Numeric(t) /\ h.event.ph = "C")
    BY <1>1, <1>3, <1>4, <1>7, <2>1, ArgScalar
  <2>3. /\ n.event = [meant.event EXCEPT !.args = ArgSaid(@, KeyHere, t)] /\ n.phLast = meant.phLast
        /\ n.numbers = IF Numeric(t) THEN meant.numbers + 1 ELSE meant.numbers
    BY <1>3, <1>7, SaidMeans
  <2> HIDE DEF f, n
  <2>4. SameEvent(h, meant) /\ h.args.given
    BY <2>1 DEF Gathered, InOpenEvent, InKind
  <2>5. meant.event.args = h.args /\ IsArgs(h.args)
    BY <2>4, ArgsApart DEF SameEvent
  <2>6. IsArgs(f.args) /\ f.args.given /\ (h.args.bad => f.args.bad)
    BY <2>2, <2>4, <2>5 DEF ArgSaid, IsArgs
  <2>7. SetIn(n.event, meant.event, f.args)
    BY <2>2, <2>3, <2>5 DEF SetIn
  <2>8. Numeric(t) \in BOOLEAN
    BY DEF Numeric
  <2>9. Gathered(f, n)
    BY <1>5, <2>1, <2>2, <2>3, <2>6, <2>7, <2>8, ArgsTold
  <2> QED
    BY <1>1, <2>9 DEF f, n
<1>8. CASE Here = "inArgs"
  <2>1. h.state = "InArgs" /\ h.argsDepth > 0 /\ h.argsDepth # 0
    BY <1>3, <1>8 DEF StateFor
  <2>2. SameEvent(h, meant) /\ h.args.given /\ h.args.bad
    BY <2>1 DEF Gathered, InOpenEvent, InKind
  <2>3. meant.event.args = h.args /\ IsArgs(h.args)
    BY <2>2, ArgsApart DEF SameEvent
  <2>4. h.args.bad = TRUE
    BY <2>2
  <2>5. SameRest(h, f) /\ f.event = h.event /\ f.args = h.args /\ f.counters = h.counters
    BY <1>1, <1>3, <2>1, <2>3, <2>4, InArgScalar
  <2>6. n.event = [meant.event EXCEPT !.args = [@ EXCEPT !.bad = TRUE]] /\ n.phLast = meant.phLast /\ n.numbers = meant.numbers
    BY <1>3, <1>8, SaidMeans
  <2> HIDE DEF f, n
  <2>7. SetIn(n.event, meant.event, f.args)
    <3>1. [meant.event.args EXCEPT !.bad = TRUE] = f.args
      BY <2>3, <2>4, <2>5 DEF IsArgs
    <3> QED
      BY <2>6, <3>1 DEF SetIn
  <2>8. Grown(h.counters, f.counters, FALSE /\ h.event.ph = "C")
    BY <2>5 DEF Grown
  <2>9. Gathered(f, n)
    BY <1>5, <2>1, <2>2, <2>3, <2>5, <2>6, <2>7, <2>8, ArgsTold
  <2> QED
    BY <1>1, <2>9 DEF f, n
<1>9. CASE Here = "frame"
  <2>1. h.state = "InStackFrame"
    BY <1>3, <1>9 DEF StateFor
  <2>2. SameFrame(h, meant)
    BY <2>1 DEF Gathered, InOpenFrame
  <2>3. SameRest(h, f) /\ f.frame = FrameSaid(h.frame, KeyHere, t) /\ f.hasName = (h.hasName \/ NameSaid(KeyHere, t))
    BY <1>1, <1>3, <1>4, <1>9, <2>1, <2>2, FrameScalar DEF SameFrame
  <2>4. n.frame = FrameSaid(meant.frame, KeyHere, t) /\ n.named = (meant.named \/ NameSaid(KeyHere, t))
    BY <1>3, <1>9, SaidMeans
  <2> HIDE DEF f, n
  <2>5. n.frame = f.frame /\ n.named = f.hasName /\ f.hasName \in BOOLEAN
    BY <2>2, <2>3, <2>4 DEF SameFrame, NameSaid
  <2>6. Gathered(f, n)
    BY <1>5, <2>1, <2>3, <2>5, FrameTold
  <2> QED
    BY <1>1, <2>6 DEF f, n
<1>10. CASE Here \notin {"event", "args", "inArgs", "frame"}
  <2>1. h.state \notin {"InEvent", "InArgs", "InStackFrame"}
    BY <1>3, <1>10 DEF StateFor, Roles, ObjectRoles
  <2>2. f = h
    BY <1>1, <2>1, OtherScalar
  <2>3. SameTold(meant, n) /\ SameFrameTold(meant, n)
    BY <1>3, <1>10, SaidMeans
  <2> HIDE DEF f, n
  <2>4. Gathered(f, n)
    BY <1>5, <2>2, <2>3, NothingTold
  <2> QED
    BY <1>1, <2>4 DEF f, n
<1> QED
  BY <1>6, <1>7, <1>8, <1>9, <1>10

\* What a container that opens leaves in the handler.
OpensWith(g, f, up, new) ==
  /\ f.model = g.model
  /\ new = "event" => f.event = NoEvent /\ f.args = NoArgs /\ f.counters = <<>>
  /\ new = "args" => f.event = g.event /\ f.counters = g.counters /\ f.args = [NoArgs EXCEPT !.given = TRUE]
  /\ new = "inArgs" => f.event = g.event /\ f.counters = g.counters /\ f.args = [g.args EXCEPT !.bad = TRUE]
  /\ new = "frame" => f.frame = [NoFrame EXCEPT !.id = g.key] /\ f.hasName = FALSE
  /\ new = "other" =>
       /\ f.event = g.event /\ f.args = g.args /\ f.counters = g.counters /\ f.hasName = g.hasName
       /\ f.frame = IF up = "frame" /\ g.key \in {"parent", "name"} THEN [g.frame EXCEPT !.valid = FALSE] ELSE g.frame

LEMMA SkipLeaves ==
  ASSUME NEW g, IsHandler(g)
  PROVE  SameGathered(g, Skip(g)) /\ Skip(g).model = g.model
<1>1. PICK f : f = Skip(g)
  OBVIOUS
<1>2. f = [state |-> "Skipping", skipReturn |-> g.state, skipDepth |-> 1, key |-> g.key,
           event |-> g.event, args |-> g.args, argsDepth |-> g.argsDepth, counters |-> g.counters,
           frame |-> g.frame, hasName |-> g.hasName, model |-> g.model]
  BY <1>1 DEF IsHandler, Skip
<1> QED
  BY <1>1, <1>2 DEF SameGathered

\* A container that is skipped may spoil a frame.
Spoilt(g, f, up) ==
  /\ f.model = g.model /\ f.event = g.event /\ f.args = g.args /\ f.counters = g.counters /\ f.hasName = g.hasName
  /\ f.frame = IF up = "frame" /\ g.key \in {"parent", "name"} THEN [g.frame EXCEPT !.valid = FALSE] ELSE g.frame

LEMMA SkipSpoils ==
  ASSUME NEW g, IsHandler(g), NEW up, up = "frame" <=> g.state = "InStackFrame"
  PROVE  Spoilt(g, Skip(Blemish(g)), up)
<1> DEFINE b == Blemish(g)
<1>1. Spoilt(g, b, up) /\ IsHandler(b)
  BY DEF Blemish, IsHandler, Spoilt
<1> HIDE DEF b
<1>2. SameGathered(b, Skip(b)) /\ Skip(b).model = b.model
  BY <1>1, SkipLeaves
<1>3. Spoilt(g, Skip(b), up)
  BY <1>1, <1>2 DEF Spoilt, SameGathered
<1> QED
  BY <1>3 DEF b

Deeper(g) == [g EXCEPT !.argsDepth = @ + 1, !.args.bad = TRUE]

LEMMA DeeperLeaves ==
  ASSUME NEW g, IsHandler(g), NEW up
  PROVE  OpensWith(g, Deeper(g), up, "inArgs")
<1> DEFINE bad == [g.args EXCEPT !.bad = TRUE]
           n == g.argsDepth + 1
<1>1. Deeper(g) = [g EXCEPT !.argsDepth = n, !.args = bad]
  BY DEF Deeper
<1> HIDE DEF bad, n
<1>2. PICK f : f = [g EXCEPT !.argsDepth = n, !.args = bad]
  OBVIOUS
<1>3. f.model = g.model /\ f.event = g.event /\ f.counters = g.counters /\ f.args = bad
  BY <1>2 DEF IsHandler
<1>4. Deeper(g) = f
  BY <1>1, <1>2
<1> QED
  BY <1>3, <1>4 DEF OpensWith, bad

LEMMA OpenLeaves ==
  ASSUME NEW g, IsHandler(g), NEW up \in Roles, NEW is \in {"object", "array"}, NEW under,
         g.state = StateFor[up], up \in {"top", "event"} => g.key = under, up = "list" => is = "object"
  PROVE  OpensWith(g, Handle(g, OpenToken(is)), up, RoleOf(up, is, under))
<1> DEFINE s == Skip(Blemish(g))
<1>1. Spoilt(g, s, up)
  <2>1. up = "frame" <=> g.state = "InStackFrame"
    BY DEF StateFor, Roles, ObjectRoles
  <2> QED
    BY <2>1, SkipSpoils
<1> HIDE DEF s
<1>2. OpensWith(g, s, up, "other")
  BY <1>1 DEF Spoilt, OpensWith
<1>3. CASE is = "object"
  <2>1. Handle(g, OpenToken(is)) = OnStartObject(g)
    BY <1>3 DEF Handle, OpenToken
  <2>2. CASE up = "document"
    BY <1>3, <2>1, <2>2 DEF OnStartObject, StateFor, RoleOf, IsHandler, OpensWith
  <2>3. CASE up = "top"
    <3>1. CASE under = "stackFrames"
      BY <1>3, <2>1, <2>3, <3>1 DEF OnStartObject, StateFor, RoleOf, IsHandler, OpensWith
    <3>2. CASE under # "stackFrames"
      <4>1. OnStartObject(g) = s /\ RoleOf(up, is, under) = "other"
        BY <1>3, <2>3, <3>2 DEF OnStartObject, StateFor, RoleOf, s
      <4> QED
        BY <1>2, <2>1, <4>1
    <3> QED
      BY <3>1, <3>2
  <2>4. CASE up = "list"
    BY <1>3, <2>1, <2>4 DEF OnStartObject, StateFor, RoleOf, IsHandler, OpensWith
  <2>5. CASE up = "event"
    <3>1. CASE under = "args"
      BY <1>3, <2>1, <2>5, <3>1 DEF OnStartObject, StateFor, RoleOf, IsHandler, OpensWith
    <3>2. CASE under # "args"
      <4>1. OnStartObject(g) = s /\ RoleOf(up, is, under) = "other"
        BY <1>3, <2>5, <3>2 DEF OnStartObject, StateFor, RoleOf, s
      <4> QED
        BY <1>2, <2>1, <4>1
    <3> QED
      BY <3>1, <3>2
  <2>6. CASE up \in {"args", "inArgs"}
    <3>1. OnStartObject(g) = Deeper(g) /\ RoleOf(up, is, under) = "inArgs"
      BY <2>6 DEF OnStartObject, StateFor, RoleOf, Deeper
    <3> QED
      BY <2>1, <3>1, DeeperLeaves
  <2>8. CASE up = "frames"
    BY <1>3, <2>1, <2>8 DEF OnStartObject, StateFor, RoleOf, IsHandler, OpensWith
  <2>9. CASE up = "frame"
    <3>1. OnStartObject(g) = s /\ RoleOf(up, is, under) = "other"
      BY <1>3, <2>9 DEF OnStartObject, StateFor, RoleOf, s
    <3> QED
      BY <1>2, <2>1, <3>1
  <2>10. CASE up = "other"
    BY <1>3, <2>1, <2>10 DEF OnStartObject, StateFor, RoleOf, IsHandler, OpensWith
  <2> QED
    BY <2>2, <2>3, <2>4, <2>5, <2>6, <2>8, <2>9, <2>10 DEF Roles, ObjectRoles
<1>4. CASE is = "array"
  <2>1. Handle(g, OpenToken(is)) = OnStartArray(g)
    BY <1>4 DEF Handle, OpenToken
  <2>2. CASE up = "document"
    BY <1>4, <2>1, <2>2 DEF OnStartArray, StateFor, RoleOf, IsHandler, OpensWith
  <2>3. CASE up = "top"
    <3>1. CASE under = "traceEvents"
      BY <1>4, <2>1, <2>3, <3>1 DEF OnStartArray, StateFor, RoleOf, IsHandler, OpensWith
    <3>2. CASE under # "traceEvents"
      <4>1. OnStartArray(g) = s /\ RoleOf(up, is, under) = "other"
        BY <1>4, <2>3, <3>2 DEF OnStartArray, StateFor, RoleOf, s
      <4> QED
        BY <1>2, <2>1, <4>1
    <3> QED
      BY <3>1, <3>2
  <2>4. CASE up = "list"
    BY <1>4, <2>4
  <2>5. CASE up \in {"event", "frames", "frame"}
    <3>1. OnStartArray(g) = s /\ RoleOf(up, is, under) = "other"
      BY <1>4, <2>5 DEF OnStartArray, StateFor, RoleOf, s
    <3> QED
      BY <1>2, <2>1, <3>1
  <2>6. CASE up \in {"args", "inArgs"}
    <3>1. OnStartArray(g) = Deeper(g) /\ RoleOf(up, is, under) = "inArgs"
      BY <2>6 DEF OnStartArray, StateFor, RoleOf, Deeper
    <3> QED
      BY <2>1, <3>1, DeeperLeaves
  <2>10. CASE up = "other"
    BY <1>4, <2>1, <2>10 DEF OnStartArray, StateFor, RoleOf, IsHandler, OpensWith
  <2> QED
    BY <2>2, <2>3, <2>4, <2>5, <2>6, <2>10 DEF Roles, ObjectRoles
<1> QED
  BY <1>3, <1>4

\* The document's side of a container that opens.
OpensMeaning(m, n, new) ==
  /\ SameTotals(m, n)
  /\ new = "event" => n.event = NoEvent /\ n.phLast = FALSE /\ n.numbers = 0
  /\ new = "args" => /\ SetIn(n.event, m.event, [NoArgs EXCEPT !.given = TRUE])
                     /\ n.phLast = m.phLast /\ n.numbers = m.numbers
  /\ new = "inArgs" => /\ SetIn(n.event, m.event, [m.event.args EXCEPT !.bad = TRUE])
                       /\ n.phLast = m.phLast /\ n.numbers = m.numbers
  /\ new = "frame" => n.frame = [NoFrame EXCEPT !.id = KeyHere] /\ n.named = FALSE
  /\ new = "other" =>
       /\ SameTold(m, n) /\ n.named = m.named
       /\ n.frame = IF Here = "frame" /\ KeyHere \in {"name", "parent"} THEN [m.frame EXCEPT !.valid = FALSE]
                    ELSE m.frame

LEMMA OpenedMeans ==
  ASSUME NEW m, IsMeaning(m), NEW new
  PROVE  OpensMeaning(m, Opened(m, new), new)
BY DEF IsMeaning, Opened, SameTotals, SameTold, SetIn, OpensMeaning

OneMore(m) == [m EXCEPT !.opened = @ + 1]

LEMMA OneMoreOpened ==
  ASSUME NEW m, IsMeaning(m)
  PROVE  LET n == OneMore(m) IN
         /\ IsMeaning(n) /\ SameTotals(m, n) /\ SameTold(m, n) /\ SameFrameTold(m, n)
         /\ n.plain = m.plain /\ n.done = m.done
<1>1. PICK n : n = OneMore(m)
  OBVIOUS
<1>2. n = [events |-> m.events, frames |-> m.frames, plain |-> m.plain, event |-> m.event, phLast |-> m.phLast,
           numbers |-> m.numbers, points |-> m.points, frame |-> m.frame, named |-> m.named, opened |-> m.opened + 1,
           done |-> m.done]
  BY <1>1 DEF IsMeaning, OneMore
<1> QED
  BY <1>1, <1>2 DEF IsMeaning, SameTotals, SameTold, SameFrameTold

LEMMA NoEventYet == IsEvent(NoEvent) /\ IsArgs(NoArgs) /\ NoEvent = [NoEvent EXCEPT !.args = NoArgs]
<1>1. IsArgs(NoArgs)
  BY DEF NoArgs, IsArgs
<1>2. IsEvent(NoEvent)
  BY DEF NoEvent, IsEvent
<1>3. NoEvent.args = NoArgs
  BY DEF NoEvent
<1>4. NoEvent = [x \in DOMAIN NoEvent |-> NoEvent[x]]
  BY DEF NoEvent
<1>5. NoEvent = [x \in DOMAIN NoEvent |-> IF x = "args" THEN NoArgs ELSE NoEvent[x]]
  BY <1>3, <1>4
<1>6. NoEvent = [NoEvent EXCEPT !["args"] = NoArgs]
  BY <1>5
<1> QED
  BY <1>1, <1>2, <1>6

LEMMA EventOpens ==
  ASSUME NEW g, NEW f, NEW m, NEW n, Gathered(g, m), SameTotals(m, n), f.model = g.model, f.state = "InEvent",
         f.event = NoEvent, f.args = NoArgs, f.counters = <<>>, n.event = NoEvent, n.numbers = 0
  PROVE  Gathered(f, n)
<1>1. SameModel(f.model, n)
  BY TotalsKept DEF Gathered
<1>3. SameEvent(f, n)
  BY NoEventYet DEF SameEvent
<1>4. SameNumbers(f, n)
  BY EmptyIsSeq DEF SameNumbers
<1> QED
  BY <1>1, <1>3, <1>4 DEF Gathered, InKind, InOpenFrame

LEMMA ArgsOpen ==
  ASSUME NEW g, NEW f, NEW m, NEW n, Gathered(g, m), SameTotals(m, n), f.model = g.model,
         g.state \in {"InEvent", "InArgs"}, f.state = "InArgs",
         f.event = g.event, f.counters = g.counters, IsArgs(f.args), f.args.given,
         f.argsDepth > 0 => f.args.bad, SetIn(n.event, m.event, f.args), n.phLast = m.phLast, n.numbers = m.numbers
  PROVE  Gathered(f, n)
<1>1. SameModel(f.model, n)
  BY TotalsKept DEF Gathered
<1>2. SameEvent(g, m) /\ SameNumbers(g, m)
  BY DEF Gathered, InOpenEvent
<1>3. SetIn(m.event, f.event, g.args)
  BY <1>2 DEF SameEvent, SetIn
<1>4. SetIn(n.event, f.event, f.args)
  BY <1>3, SetTwice
<1>5. SameEvent(f, n)
  BY <1>2, <1>4 DEF SameEvent, SetIn
<1>6. SameNumbers(f, n)
  BY <1>2 DEF SameNumbers
<1> QED
  BY <1>1, <1>5, <1>6 DEF Gathered, InKind, InOpenFrame

LEMMA FrameOpens ==
  ASSUME NEW g, NEW f, NEW m, NEW n, Gathered(g, m), SameTotals(m, n), f.model = g.model, f.state = "InStackFrame",
         n.frame = f.frame, n.named = f.hasName, f.hasName = FALSE
  PROVE  Gathered(f, n)
BY TotalsKept DEF Gathered, InKind, InOpenEvent, InOpenFrame, SameFrame

LEMMA OtherOpens ==
  ASSUME NEW g, NEW f, NEW m, NEW n, Gathered(g, m), SameTotals(m, n), f.model = g.model,
         f.event = g.event, f.args = g.args, f.counters = g.counters, f.hasName = g.hasName, SameTold(m, n), n.named = m.named,
         f.state = "Skipping", f.skipReturn \notin {"InArgs", "Skipping"},
         InOpenEvent(f) => InOpenEvent(g),
         InOpenFrame(f) => InOpenFrame(g) /\ (m.frame = g.frame => n.frame = f.frame)
  PROVE  Gathered(f, n)
<1>1. SameModel(f.model, n)
  BY TotalsKept DEF Gathered
<1>2. InOpenEvent(f) => SameEvent(f, n) /\ SameNumbers(f, n)
  <2> SUFFICES ASSUME InOpenEvent(f) PROVE SameEvent(f, n) /\ SameNumbers(f, n)
    OBVIOUS
  <2>1. SameEvent(g, m) /\ SameNumbers(g, m)
    BY DEF Gathered
  <2> QED
    BY <2>1 DEF SameEvent, SameNumbers, SameTold
<1>3. InOpenFrame(f) => SameFrame(f, n)
  BY DEF Gathered, SameFrame
<1> QED
  BY <1>1, <1>2, <1>3 DEF Gathered, InKind

LEMMA NothingOpen ==
  ASSUME NEW g, NEW f, NEW m, NEW n, Gathered(g, m), SameTotals(m, n), f.model = g.model,
         f.state \in {"TopLevel", "InTopObject", "InTraceEvents", "InStackFrames"}
  PROVE  Gathered(f, n)
BY TotalsKept DEF Gathered, InKind, InOpenEvent, InOpenFrame

LEMMA OpenGathers ==
  ASSUME InPlace(h, path, meant), meant.plain, Gathered(h, meant), NEW is \in {"object", "array"}, Open(is), meant'.plain
  PROVE  Gathered(h', meant')
<1> DEFINE new == RoleOf(Here, is, KeyHere)
           m == OneMore(meant)
<1>1. AtValue /\ h' = Handle(h, OpenToken(is)) /\ meant' = Opened(m, new)
  BY DEF Open, Feed, OpenToken, OneMore
<1>2. IsMeaning(meant) /\ IsHandler(h) /\ ~meant.done
  <2>1. CASE path = <<>>
    BY <1>1, <2>1 DEF AtValue, InPlace
  <2>2. CASE path # <<>>
    BY <2>2 DEF InPlace
  <2> QED
    BY <2>1, <2>2
<1>3. /\ IsMeaning(m) /\ SameTotals(meant, m) /\ SameTold(meant, m) /\ SameFrameTold(meant, m)
      /\ m.plain = meant.plain /\ m.done = meant.done
  BY <1>2, OneMoreOpened
<1>4. Gathered(h, m)
  BY <1>3, NothingTold
<1> HIDE DEF m
<1>5. ~(new = "other" /\ Here = "list")
  BY <1>1, <1>3, OpenedStays
<1>6. Here \in Roles /\ h.state = StateFor[Here]
  <2>1. CASE path = <<>>
    BY <1>2, <2>1 DEF Here, Roles, InPlace, AtTopLevel, StateFor
  <2>2. CASE path # <<>>
    BY <2>2, HereFacts DEF StateIn
  <2> QED
    BY <2>1, <2>2
<1>7. Here \in {"top", "event", "frames", "frame"} => h.key = KeyHere
  <2>1. Here \in {"top", "event", "frames", "frame"} => path # <<>>
    BY DEF Here
  <2> QED
    BY <1>1, <2>1, KeyKnown
<1>8. Here = "list" => is = "object"
  BY <1>5 DEF RoleOf
<1> DEFINE f == h'
           n == meant'
<1>9. OpensWith(h, f, Here, new)
  <2>1. Here \in {"top", "event"} => h.key = KeyHere
    BY <1>7
  <2> QED
    BY <1>1, <1>2, <1>6, <1>8, <2>1, OpenLeaves
<1>10. /\ IsHandler(f) /\ f.state = StateFor[new]
       /\ new = "other" => IF Here = "other" THEN f.skipDepth = h.skipDepth + 1 /\ f.skipReturn = h.skipReturn
                           ELSE f.skipDepth = 1 /\ f.skipReturn = StateFor[Here]
       /\ new = "inArgs" => f.argsDepth = h.argsDepth + 1
       /\ new = "args" => f.argsDepth = 0
  <2>1. Here \in {"top", "event"} => h.key = KeyHere
    BY <1>7
  <2> QED
    BY <1>1, <1>2, <1>6, <1>8, <2>1, Opens
<1>11. new \in Roles
  BY <1>6, RoleNests
<1>12. /\ new = "args" => Here = "event"
       /\ new = "inArgs" => Here \in {"args", "inArgs"}
       /\ new = "frame" => Here = "frames"
       /\ new = "other" => Here \in {"top", "event", "frames", "frame", "other"}
       /\ new # "document"
  BY <1>5, <1>6 DEF RoleOf, Roles, ObjectRoles
<1> HIDE DEF new
<1>13. SameTotals(m, n) /\ OpensMeaning(m, n, new)
  <2>1. OpensMeaning(m, Opened(m, new), new)
    BY <1>3, OpenedMeans
  <2>2. n = Opened(m, new)
    BY <1>1
  <2> HIDE DEF n
  <2> QED
    BY <2>1, <2>2 DEF OpensMeaning
<1>14. f.model = h.model
  BY <1>9 DEF OpensWith
<1> HIDE DEF f, n
<1>15. CASE new = "event"
  <2>1. n.event = NoEvent /\ n.phLast = FALSE /\ n.numbers = 0
    BY <1>13, <1>15 DEF OpensMeaning
  <2>2. f.state = "InEvent" /\ f.event = NoEvent /\ f.args = NoArgs /\ f.counters = <<>>
    BY <1>9, <1>10, <1>15 DEF OpensWith, StateFor
  <2>3. Gathered(f, n)
    BY <1>4, <1>13, <1>14, <2>1, <2>2, EventOpens
  <2> QED
    BY <2>3 DEF f, n
<1>16. CASE new = "args"
  <2>1. /\ SetIn(n.event, m.event, [NoArgs EXCEPT !.given = TRUE])
        /\ n.phLast = m.phLast /\ n.numbers = m.numbers
    BY <1>13, <1>16 DEF OpensMeaning
  <2>2. /\ f.state = "InArgs" /\ f.event = h.event /\ f.counters = h.counters /\ f.args = [NoArgs EXCEPT !.given = TRUE]
        /\ f.argsDepth = 0
    BY <1>9, <1>10, <1>16 DEF OpensWith, StateFor
  <2>3. h.state = "InEvent"
    BY <1>6, <1>12, <1>16 DEF StateFor
  <2>4. IsArgs(f.args) /\ f.args.given
    BY <2>2 DEF IsArgs, NoArgs
  <2>5. f.argsDepth > 0 => f.args.bad
    BY <2>2
  <2>6. SetIn(n.event, m.event, f.args)
    BY <2>1, <2>2
  <2>7. Gathered(f, n)
    BY <1>4, <1>13, <1>14, <2>1, <2>2, <2>3, <2>4, <2>5, <2>6, ArgsOpen
  <2> QED
    BY <2>7 DEF f, n
<1>17. CASE new = "inArgs"
  <2>1. /\ SetIn(n.event, m.event, [m.event.args EXCEPT !.bad = TRUE])
        /\ n.phLast = m.phLast /\ n.numbers = m.numbers
    BY <1>13, <1>17 DEF OpensMeaning
  <2>2. f.state = "InArgs" /\ f.event = h.event /\ f.counters = h.counters /\ f.args = [h.args EXCEPT !.bad = TRUE]
    BY <1>9, <1>10, <1>17 DEF OpensWith, StateFor
  <2>3. h.state = "InArgs"
    BY <1>6, <1>12, <1>17 DEF StateFor
  <2>4. SameEvent(h, m) /\ h.args.given
    BY <1>4, <2>3 DEF Gathered, InKind, InOpenEvent
  <2>5. m.event.args = h.args /\ IsArgs(h.args)
    BY <2>4, ArgsApart DEF SameEvent
  <2>6. IsArgs(f.args) /\ f.args.given /\ f.args.bad
    BY <2>2, <2>4, <2>5 DEF IsArgs
  <2>7. SetIn(n.event, m.event, f.args)
    BY <2>1, <2>2, <2>5
  <2>8. Gathered(f, n)
    BY <1>4, <1>13, <1>14, <2>1, <2>2, <2>3, <2>6, <2>7, ArgsOpen
  <2> QED
    BY <2>8 DEF f, n
<1>18. CASE new = "frame"
  <2>1. n.frame = [NoFrame EXCEPT !.id = KeyHere] /\ n.named = FALSE
    BY <1>13, <1>18 DEF OpensMeaning
  <2>2. f.state = "InStackFrame" /\ f.frame = [NoFrame EXCEPT !.id = h.key] /\ f.hasName = FALSE
    BY <1>9, <1>10, <1>18 DEF OpensWith, StateFor
  <2>3. h.key = KeyHere
    BY <1>7, <1>12, <1>18
  <2>4. n.frame = f.frame /\ n.named = f.hasName
    BY <2>1, <2>2, <2>3
  <2>5. Gathered(f, n)
    BY <1>4, <1>13, <1>14, <2>2, <2>4, FrameOpens
  <2> QED
    BY <2>5 DEF f, n
<1>19. CASE new = "other"
  <2>1. /\ SameTold(m, n) /\ n.named = m.named
        /\ n.frame = IF Here = "frame" /\ KeyHere \in {"name", "parent"} THEN [m.frame EXCEPT !.valid = FALSE]
                     ELSE m.frame
    BY <1>13, <1>19 DEF OpensMeaning
  <2>2. /\ f.state = "Skipping" /\ f.event = h.event /\ f.args = h.args /\ f.counters = h.counters /\ f.hasName = h.hasName
        /\ f.frame = IF Here = "frame" /\ h.key \in {"parent", "name"} THEN [h.frame EXCEPT !.valid = FALSE] ELSE h.frame
    BY <1>9, <1>10, <1>19 DEF OpensWith, StateFor
  <2>3. f.skipReturn = IF Here = "other" THEN h.skipReturn ELSE StateFor[Here]
    BY <1>10, <1>19
  <2>4. /\ f.skipReturn \notin {"InArgs", "Skipping"}
        /\ InOpenEvent(f) => InOpenEvent(h)
        /\ InOpenFrame(f) => InOpenFrame(h)
    <3>1. CASE Here = "other"
      <4>1. h.state = "Skipping" /\ f.skipReturn = h.skipReturn
        BY <1>6, <2>3, <3>1 DEF StateFor
      <4> QED
        BY <1>4, <2>2, <4>1 DEF Gathered, InKind, InOpenEvent, InOpenFrame
    <3>2. CASE Here # "other"
      <4>1. f.skipReturn = h.state /\ h.state \in {"InTopObject", "InEvent", "InStackFrames", "InStackFrame"}
        BY <1>6, <1>12, <1>19, <2>3, <3>2 DEF StateFor
      <4> QED
        BY <2>2, <4>1 DEF InOpenEvent, InOpenFrame
    <3> QED
      BY <3>1, <3>2
  <2>5. m.frame = h.frame => n.frame = f.frame
    BY <1>7, <2>1, <2>2
  <2>6. Gathered(f, n)
    BY <1>4, <1>13, <1>14, <2>1, <2>2, <2>4, <2>5, OtherOpens
  <2> QED
    BY <2>6 DEF f, n
<1>20. CASE new \in {"top", "list", "frames"}
  <2>1. f.state \in {"InTopObject", "InTraceEvents", "InStackFrames"}
    BY <1>10, <1>20 DEF StateFor
  <2>2. Gathered(f, n)
    BY <1>4, <1>13, <1>14, <2>1, NothingOpen
  <2> QED
    BY <2>2 DEF f, n
<1> QED
  BY <1>11, <1>12, <1>15, <1>16, <1>17, <1>18, <1>19, <1>20 DEF Roles, ObjectRoles

LEMMA KeyLeaves ==
  ASSUME NEW g, IsHandler(g), NEW k
  PROVE  LET f == Handle(g, [is |-> "key", value |-> k]) IN SameRest(g, f) /\ SameGathered(g, f)
<1>1. Handle(g, [is |-> "key", value |-> k]) = OnKey(g, k)
  BY DEF Handle
<1> QED
  BY <1>1 DEF OnKey, IsHandler, SameRest, SameGathered

LEMMA KeyGathers ==
  ASSUME InPlace(h, path, meant), meant.plain, Gathered(h, meant), Key
  PROVE  Gathered(h', meant')
<1>1. PICK k : h' = Handle(h, [is |-> "key", value |-> k])
  BY DEF Key, Feed
<1>2. path # <<>> /\ meant' = meant
  BY DEF Key, AtMember
<1>3. IsHandler(h)
  BY <1>2, HereFacts
<1>4. SameRest(h, h') /\ SameGathered(h, h')
  BY <1>1, <1>3, KeyLeaves
<1> QED
  BY <1>2, <1>4, GatheredStays

-----------------------------------------------------------------------------
(* Points of the counters.  Induction over the numbers of a counter is done  *)
(* on the set of those for which the claim holds.                            *)
LEMMA PointsAre ==
  ASSUME NEW f, \A s \in DOMAIN f : IsSeq(f[s]), NEW x
  PROVE  x \in Points(f) <=> \E s \in DOMAIN f : \E i \in 1..Len(f[s]) : x = <<s, i>>
<1>1. x \in Points(f) <=> \E s \in DOMAIN f : x \in {s} \X DOMAIN f[s]
  BY DEF Points
<1>2. \A s \in DOMAIN f : DOMAIN f[s] = 1..Len(f[s])
  BY DEF IsSeq
<1>3. \A s \in DOMAIN f : x \in {s} \X DOMAIN f[s] <=> \E i \in 1..Len(f[s]) : x = <<s, i>>
  BY <1>2
<1> QED
  BY <1>1, <1>3

LEMMA OneMorePoint ==
  ASSUME NEW f, IsSeries(f), NEW g, \A s \in DOMAIN g : IsSeq(g[s]), NEW k, k \in DOMAIN g, DOMAIN g = DOMAIN f \cup {k},
         NEW n \in Nat, Len(g[k]) = n + 1, k \in DOMAIN f => Len(f[k]) = n, k \notin DOMAIN f => n = 0,
         \A s \in DOMAIN f : s # k => g[s] = f[s]
  PROVE  IsSeries(g) /\ Cardinality(Points(g)) = Cardinality(Points(f)) + 1
<1>1. \A x : x \in Points(f) <=> \E s \in DOMAIN f : \E i \in 1..Len(f[s]) : x = <<s, i>>
  BY PointsAre DEF IsSeries
<1>2. \A x : x \in Points(g) <=> \E s \in DOMAIN g : \E i \in 1..Len(g[s]) : x = <<s, i>>
  BY PointsAre
<1>3. <<k, n + 1>> \notin Points(f)
  <2> SUFFICES ASSUME NEW s \in DOMAIN f, NEW i \in 1..Len(f[s]), <<k, n + 1>> = <<s, i>> PROVE FALSE
    BY <1>1
  <2>1. s = k /\ i = n + 1
    OBVIOUS
  <2> QED
    BY <2>1
<1>4. \A x : x \in Points(g) <=> x \in Points(f) \/ x = <<k, n + 1>>
  <2> TAKE x
  <2>1. ASSUME x \in Points(f) PROVE x \in Points(g)
    <3>1. PICK s \in DOMAIN f : \E i \in 1..Len(f[s]) : x = <<s, i>>
      BY <1>1, <2>1
    <3>2. PICK i \in 1..Len(f[s]) : x = <<s, i>>
      BY <3>1
    <3>3. i \in 1..Len(g[s])
      <4>1. CASE s = k
        BY <3>2, <4>1
      <4>2. CASE s # k
        BY <3>2, <4>2
      <4> QED
        BY <4>1, <4>2
    <3> QED
      BY <1>2, <3>2, <3>3
  <2>2. ASSUME x = <<k, n + 1>> PROVE x \in Points(g)
    BY <1>2, <2>2
  <2>3. ASSUME x \in Points(g) PROVE x \in Points(f) \/ x = <<k, n + 1>>
    <3>1. PICK s \in DOMAIN g : \E i \in 1..Len(g[s]) : x = <<s, i>>
      BY <1>2, <2>3
    <3>2. PICK i \in 1..Len(g[s]) : x = <<s, i>>
      BY <3>1
    <3>3. CASE s # k
      BY <1>1, <3>2, <3>3
    <3>4. CASE s = k /\ i = n + 1
      BY <3>2, <3>4
    <3>5. CASE s = k /\ i # n + 1
      <4>1. i \in 1..n
        BY <3>5
      <4>2. k \in DOMAIN f /\ i \in 1..Len(f[k])
        BY <4>1
      <4> QED
        BY <1>1, <3>2, <3>5, <4>2
    <3> QED
      BY <3>3, <3>4, <3>5
  <2> QED
    BY <2>1, <2>2, <2>3
<1>5. Points(g) = Points(f) \cup {<<k, n + 1>>}
  BY <1>4
<1>6. IsFiniteSet(Points(f))
  BY DEF IsSeries
<1>7. IsFiniteSet(Points(g)) /\ Cardinality(Points(g)) = Cardinality(Points(f)) + 1
  <2> DEFINE P == Points(f)
             x == <<k, n + 1>>
  <2>1. IsFiniteSet(P) /\ x \notin P /\ Points(g) = P \cup {x}
    BY <1>3, <1>5, <1>6
  <2> HIDE DEF P, x
  <2>2. IsFiniteSet(P \cup {x}) /\ Cardinality(P \cup {x}) = Cardinality(P) + 1
    BY <2>1, FS_AddElement
  <2>3. IsFiniteSet(Points(g)) /\ Cardinality(Points(g)) = Cardinality(P) + 1
    BY <2>1, <2>2
  <2> QED
    BY <2>3 DEF P
<1> QED
  BY <1>7 DEF IsSeries

LEMMA AppendAdds ==
  ASSUME NEW s, IsSeq(s), NEW v
  PROVE  IsSeq(Append(s, v)) /\ Len(Append(s, v)) = Len(s) + 1 /\ Len(s) \in Nat
<1>1. PICK t : t = Append(s, v)
  OBVIOUS
<1>2. Pushed(s, t, v)
  BY <1>1, PathPushed
<1> QED
  BY <1>1, <1>2, PathLength DEF Pushed

LEMMA OneSeq == \A v : IsSeq(<<v>>) /\ Len(<<v>>) = 1
BY DEF IsSeq, ItemsOf

LEMMA AddToAdds ==
  ASSUME NEW f, IsSeries(f), NEW k, NEW v
  PROVE  IsSeries(AddTo(f, k, v)) /\ Cardinality(Points(AddTo(f, k, v))) = Cardinality(Points(f)) + 1
<1>1. PICK g : g = AddTo(f, k, v)
  OBVIOUS
<1>2. CASE k \in DOMAIN f
  <2>1. IsSeq(Append(f[k], v)) /\ Len(Append(f[k], v)) = Len(f[k]) + 1 /\ Len(f[k]) \in Nat
    BY <1>2, AppendAdds DEF IsSeries
  <2>2. g = [f EXCEPT ![k] = Append(f[k], v)]
    BY <1>1, <1>2 DEF AddTo
  <2>3. g = [x \in DOMAIN f |-> IF x = k THEN Append(f[k], v) ELSE f[x]]
    BY <2>2
  <2>4. DOMAIN g = DOMAIN f /\ g[k] = Append(f[k], v) /\ \A s \in DOMAIN f : s # k => g[s] = f[s]
    BY <1>2, <2>3
  <2>5. \A s \in DOMAIN g : IsSeq(g[s])
    BY <2>1, <2>4 DEF IsSeries
  <2> QED
    BY <1>1, <1>2, <2>1, <2>4, <2>5, OneMorePoint
<1>3. CASE k \notin DOMAIN f
  <2>1. g = [x \in DOMAIN f \cup {k} |-> IF x = k THEN <<v>> ELSE f[x]]
    BY <1>1, <1>3 DEF AddTo, Put
  <2>2. DOMAIN g = DOMAIN f \cup {k} /\ g[k] = <<v>> /\ \A s \in DOMAIN f : s # k => g[s] = f[s]
    BY <2>1
  <2>3. Len(g[k]) = 0 + 1 /\ IsSeq(g[k])
    BY <2>2, OneSeq
  <2>4. \A s \in DOMAIN g : IsSeq(g[s])
    BY <2>2, <2>3 DEF IsSeries
  <2> QED
    BY <1>1, <1>3, <2>2, <2>3, <2>4, OneMorePoint
<1> QED
  BY <1>2, <1>3

\* The point of the k-th number.
PlotOne(f, e, c, k) ==
  AddTo(f, <<e.pid, e.name, IF Len(c) > 1 THEN c[k].key ELSE Blank>>, <<e.ts, c[k].value>>)
IsPlot(f, s, e, c, n) == f = [k \in 0..n |-> IF k = 0 THEN s ELSE PlotOne(f[k - 1], e, c, k)]

LEMMA PlotExists ==
  ASSUME NEW s, NEW e, NEW c, NEW n \in Nat
  PROVE  \E f : IsPlot(f, s, e, c, n)
<1> DEFINE S == {k \in Nat : \E f : IsPlot(f, s, e, c, k)}
<1>1. 0 \in S
  <2>1. IsPlot([k \in 0..0 |-> s], s, e, c, 0)
    <3>1. PICK f : f = [k \in 0..0 |-> s]
      OBVIOUS
    <3>2. f = [k \in 0..0 |-> IF k = 0 THEN s ELSE PlotOne(f[k - 1], e, c, k)]
      BY <3>1
    <3> QED
      BY <3>1, <3>2 DEF IsPlot
  <2> QED
    BY <2>1
<1>2. ASSUME NEW m \in Nat, m \in S PROVE m + 1 \in S
  <2>1. PICK f : IsPlot(f, s, e, c, m)
    BY <1>2
  <2>2. PICK g : g = [k \in 0..m + 1 |-> IF k = m + 1 THEN PlotOne(f[m], e, c, m + 1) ELSE f[k]]
    OBVIOUS
  <2>3. ASSUME NEW k \in 0..m + 1 PROVE g[k] = IF k = 0 THEN s ELSE PlotOne(g[k - 1], e, c, k)
    <3>1. CASE k = m + 1
      <4>1. m \in 0..m + 1 /\ m # m + 1 /\ k # 0 /\ k - 1 = m
        BY <3>1
      <4>2. g[m] = f[m] /\ g[k] = PlotOne(f[m], e, c, k)
        BY <2>2, <3>1, <4>1
      <4> QED
        BY <4>1, <4>2
    <3>2. CASE k # m + 1
      <4>1. k \in 0..m /\ (k # 0 => k - 1 \in 0..m + 1 /\ k - 1 # m + 1)
        BY <3>2
      <4>2. g[k] = f[k] /\ (k # 0 => g[k - 1] = f[k - 1])
        BY <2>2, <3>2, <4>1
      <4>3. f[k] = IF k = 0 THEN s ELSE PlotOne(f[k - 1], e, c, k)
        BY <2>1, <4>1 DEF IsPlot
      <4> QED
        BY <4>2, <4>3
    <3> QED
      BY <3>1, <3>2
  <2>4. g = [k \in 0..m + 1 |-> g[k]]
    BY <2>2
  <2>5. g = [k \in 0..m + 1 |-> IF k = 0 THEN s ELSE PlotOne(g[k - 1], e, c, k)]
    BY <2>3, <2>4
  <2>6. IsPlot(g, s, e, c, m + 1)
    BY <2>5 DEF IsPlot
  <2> QED
    BY <2>6
<1> HIDE DEF S
<1>3. \A k \in 0..n : k \in S /\ k < n => k + 1 \in S
  BY <1>2
<1>4. n \in S
  BY <1>1, <1>3, UpTo
<1> QED
  BY <1>4 DEF S

LEMMA PlottedIs ==
  ASSUME NEW s, NEW e, NEW c, Len(c) \in Nat
  PROVE  \E f : IsPlot(f, s, e, c, Len(c)) /\ Plotted(s, e, c) = f[Len(c)]
<1> DEFINE f == CHOOSE f : f = [k \in 0..Len(c) |->
                  IF k = 0 THEN s
                  ELSE AddTo(f[k - 1], <<e.pid, e.name, IF Len(c) > 1 THEN c[k].key ELSE Blank>>, <<e.ts, c[k].value>>)]
<1>1. \E g : g = [k \in 0..Len(c) |->
                  IF k = 0 THEN s
                  ELSE AddTo(g[k - 1], <<e.pid, e.name, IF Len(c) > 1 THEN c[k].key ELSE Blank>>, <<e.ts, c[k].value>>)]
  <2>1. PICK g : IsPlot(g, s, e, c, Len(c))
    BY PlotExists
  <2> QED
    BY <2>1 DEF IsPlot, PlotOne
<1>2. IsPlot(f, s, e, c, Len(c))
  BY <1>1 DEF IsPlot, PlotOne
<1>3. Plotted(s, e, c) = f[Len(c)]
  BY DEF Plotted
<1> QED
  BY <1>2, <1>3

\* Every number of a counter becomes one point.
LEMMA PlottedAdds ==
  ASSUME NEW s, IsSeries(s), NEW e, NEW c, Len(c) \in Nat
  PROVE  /\ IsSeries(Plotted(s, e, c))
         /\ Cardinality(Points(Plotted(s, e, c))) = Cardinality(Points(s)) + Len(c)
<1>1. PICK f : IsPlot(f, s, e, c, Len(c)) /\ Plotted(s, e, c) = f[Len(c)]
  BY PlottedIs
<1>2. PICK n \in Nat : n = Cardinality(Points(s))
  BY FS_CardinalityType DEF IsSeries
<1> DEFINE S == {k \in Nat : IsSeries(f[k]) /\ Cardinality(Points(f[k])) = n + k}
<1>3. \A k \in 0..Len(c) : f[k] = IF k = 0 THEN s ELSE PlotOne(f[k - 1], e, c, k)
  BY <1>1 DEF IsPlot
<1>4. 0 \in S
  <2>1. f[0] = s
    BY <1>3
  <2> QED
    BY <1>2, <2>1
<1>5. ASSUME NEW k \in 0..Len(c), k \in S, k < Len(c) PROVE k + 1 \in S
  <2>1. k + 1 \in 0..Len(c) /\ k + 1 # 0 /\ (k + 1) - 1 = k
    BY <1>5
  <2>2. f[k + 1] = PlotOne(f[k], e, c, k + 1)
    BY <1>3, <2>1
  <2>3. PICK g : g = f[k] /\ IsSeries(g) /\ Cardinality(Points(g)) = n + k
    BY <1>5
  <2>4. PICK q, v : PlotOne(f[k], e, c, k + 1) = AddTo(g, q, v)
    BY <2>3 DEF PlotOne
  <2>5. IsSeries(AddTo(g, q, v)) /\ Cardinality(Points(AddTo(g, q, v))) = (n + k) + 1
    BY <2>3, AddToAdds
  <2> QED
    BY <2>1, <2>2, <2>4, <2>5
<1> HIDE DEF S
<1>6. Len(c) \in S
  <2>1. \A k \in 0..Len(c) : k \in S /\ k < Len(c) => k + 1 \in S
    BY <1>5
  <2>2. \A k \in 0..Len(c) : k \in S
    BY <1>4, <2>1, UpTo
  <2> QED
    BY <2>2
<1> QED
  BY <1>1, <1>2, <1>6 DEF S

-----------------------------------------------------------------------------
(* What a container that closes leaves in the handler. *)
Finished(md, old, e, counters) ==
  /\ IsModel(md) /\ md.frames = old.frames
  /\ md.events = Append(old.events, e)
  /\ md.series = IF e.ph = "C" THEN Plotted(old.series, e, counters) ELSE old.series
Labelled(md, old) == IsModel(md) /\ md.frames = old.frames /\ md.events = old.events /\ md.series = old.series

LEMMA FinishMeans ==
  ASSUME NEW g, IsHandler(g), IsModel(g.model), IsEvent(g.event), NEW e, e = [Kinded(g.event) EXCEPT !.args = g.args]
  PROVE  IF g.event.ph = "M" THEN Labelled(FinishEvent(g).model, g.model)
         ELSE Finished(FinishEvent(g).model, g.model, e, g.counters)
<1>1. Kinded(g.event).ph = g.event.ph /\ IsEvent(Kinded(g.event))
  BY KindedApart, Zenon DEF Kinded, IsEvent
<1>2. e.ph = g.event.ph
  BY <1>1, ArgsApart
<1>3. CASE g.event.ph = "M"
  <2> DEFINE k == [g EXCEPT !.event = Kinded(@)]
  <2>1. FinishEvent(g) = Metadata(k)
    BY <1>2, <1>3 DEF FinishEvent
  <2>2. IsHandler(k) /\ k.model = g.model
    BY DEF IsHandler
  <2> HIDE DEF k
  <2>3. PICK processes, threads, labels :
          Metadata(k) = [k EXCEPT !.args = NoArgs, !.model.processes = processes,
                                  !.model.threads = threads, !.model.labels = labels]
    BY DEF Metadata
  <2>4. PICK md : md = Metadata(k).model
    OBVIOUS
  <2>5. md = [g.model EXCEPT !.processes = processes, !.threads = threads, !.labels = labels]
    BY <2>2, <2>3, <2>4 DEF IsHandler
  <2>6. md = [events |-> g.model.events, frames |-> g.model.frames, series |-> g.model.series,
              flows |-> g.model.flows, labels |-> labels, processes |-> processes, threads |-> threads]
    BY <2>5 DEF IsModel
  <2>7. Labelled(md, g.model)
    BY <2>6 DEF Labelled, IsModel
  <2> QED
    BY <1>3, <2>1, <2>4, <2>7
<1>4. CASE g.event.ph # "M"
  <2>1. PICK event, counters, series, flows, processes :
          /\ series = IF e.ph = "C" THEN Plotted(g.model.series, e, g.counters) ELSE g.model.series
          /\ FinishEvent(g) = [g EXCEPT !.event = event, !.args = NoArgs, !.counters = counters, !.model.series = series,
                                        !.model.flows = flows, !.model.events = Append(g.model.events, e),
                                        !.model.processes = processes]
    BY <1>2, <1>4, ZenonT(40) DEF FinishEvent
  <2>2. PICK events : events = Append(g.model.events, e)
    OBVIOUS
  <2>3. FinishEvent(g) = [g EXCEPT !.event = event, !.args = NoArgs, !.counters = counters, !.model.series = series,
                                   !.model.flows = flows, !.model.events = events, !.model.processes = processes]
    BY <2>1, <2>2
  <2>4. PICK md : md = FinishEvent(g).model
    OBVIOUS
  <2>5. md = [g.model EXCEPT !.series = series, !.flows = flows, !.events = events, !.processes = processes]
    BY <2>3, <2>4 DEF IsHandler
  <2>6. md = [events |-> events, frames |-> g.model.frames, series |-> series,
              flows |-> flows, labels |-> g.model.labels, processes |-> processes, threads |-> g.model.threads]
    BY <2>5 DEF IsModel
  <2>7. IsModel(md) /\ md.frames = g.model.frames /\ md.events = events /\ md.series = series
    BY <2>6 DEF IsModel
  <2>8. Finished(md, g.model, e, g.counters)
    BY <2>1, <2>2, <2>7 DEF Finished
  <2> QED
    BY <1>4, <2>4, <2>8
<1> QED
  BY <1>3, <1>4

EndsWith(g, f, role) ==
  /\ role \notin {"event", "frame"} => SameGathered(g, f) /\ f.model = g.model
  /\ role = "frame" => f.model = [g.model EXCEPT !.frames = Append(@, [g.frame EXCEPT !.valid = @ /\ g.hasName])]
  /\ role = "event" => f.model = FinishEvent(g).model
  /\ role = "list" => f.state = "InTopObject"

LEMMA UnskipKeeps ==
  ASSUME NEW g, IsHandler(g)
  PROVE  SameGathered(g, Unskip(g)) /\ Unskip(g).model = g.model
<1>1. PICK f : f = Unskip(g)
  OBVIOUS
<1>2. f = [state |-> IF g.skipDepth = 1 THEN g.skipReturn ELSE g.state, skipReturn |-> g.skipReturn,
           skipDepth |-> g.skipDepth - 1, key |-> g.key,
           event |-> g.event, args |-> g.args, argsDepth |-> g.argsDepth, counters |-> g.counters,
           frame |-> g.frame, hasName |-> g.hasName, model |-> g.model]
  BY <1>1 DEF IsHandler, Unskip
<1> QED
  BY <1>1, <1>2 DEF SameGathered

LEMMA CloseLeaves ==
  ASSUME NEW g, IsHandler(g), NEW up, NEW is \in {"object", "array"}, NEW role, NestsIn(up, is, role),
         g.state = StateFor[role]
  PROVE  EndsWith(g, Handle(g, EndToken(is)), role)
<1>u. SameGathered(g, Unskip(g)) /\ Unskip(g).model = g.model
  BY UnskipKeeps
<1>1. CASE is = "object"
  <2>0. Handle(g, EndToken(is)) = OnEndObject(g)
    BY <1>1 DEF Handle, EndToken
  <2>1. CASE role \in {"top", "frames", "args", "inArgs"}
    BY <2>0, <1>1, <2>1 DEF OnEndObject, StateFor, IsHandler, EndsWith, SameGathered
  <2>5. CASE role = "frame"
    <3> DEFINE last == [g.frame EXCEPT !.valid = @ /\ g.hasName]
    <3>0. OnEndObject(g) = [g EXCEPT !.state = "InStackFrames", !.model.frames = Append(@, last)]
      BY <2>5 DEF OnEndObject, StateFor
    <3> HIDE DEF last
    <3>1. PICK frames : frames = Append(g.model.frames, last)
      OBVIOUS
    <3>2. OnEndObject(g) = [g EXCEPT !.state = "InStackFrames", !.model.frames = frames]
      BY <3>0, <3>1
    <3>3. OnEndObject(g).model = [g.model EXCEPT !.frames = frames]
      BY <3>2 DEF IsHandler
    <3>4. OnEndObject(g).model = [g.model EXCEPT !.frames = Append(@, last)]
      BY <3>1, <3>3
    <3> QED
      BY <2>0, <2>5, <3>4 DEF EndsWith, last
  <2>6. CASE role = "other"
    BY <1>u, <2>0, <1>1, <2>6 DEF OnEndObject, StateFor, EndsWith
  <2>7. CASE role = "event"
    <3>1. OnEndObject(g) = [FinishEvent(g) EXCEPT !.state = "InTraceEvents"]
      BY <2>7 DEF OnEndObject, StateFor
    <3>2. OnEndObject(g).model = FinishEvent(g).model
      BY <3>1, FinishStays DEF IsHandler
    <3> QED
      BY <2>0, <2>7, <3>2 DEF EndsWith
  <2> QED
    BY <1>1, <2>1, <2>5, <2>6, <2>7 DEF NestsIn
<1>2. CASE is = "array"
  <2>0. Handle(g, EndToken(is)) = OnEndArray(g)
    BY <1>2 DEF Handle, EndToken
  <2>1. CASE role = "list"
    BY <2>0, <1>2, <2>1 DEF OnEndArray, StateFor, IsHandler, EndsWith, SameGathered
  <2>2. CASE role = "inArgs"
    BY <2>0, <1>2, <2>2 DEF OnEndArray, StateFor, IsHandler, EndsWith, SameGathered
  <2>3. CASE role = "other"
    BY <1>u, <2>0, <1>2, <2>3 DEF OnEndArray, StateFor, EndsWith
  <2> QED
    BY <1>2, <2>1, <2>2, <2>3 DEF NestsIn
<1> QED
  BY <1>1, <1>2

\* The document's side of a container that closes.
EventEnds(m, n) ==
  /\ n.events = Append(m.events, m.event) /\ n.frames = m.frames
  /\ n.points = IF m.event.ph = "C" THEN m.points + m.numbers ELSE m.points
  /\ n.plain => ~(m.event.ph = "C" /\ m.phLast)
FrameEnds(m, n) ==
  /\ n.events = m.events /\ n.points = m.points
  /\ n.frames = Append(m.frames, [m.frame EXCEPT !.valid = @ /\ m.named])

LEMMA EndedMeans ==
  ASSUME NEW m, IsMeaning(m), NEW n, n = Ended(m)
  PROVE  /\ Here = "event" /\ m.event.ph # "M" => EventEnds(m, n)
         /\ Here = "frame" => FrameEnds(m, n)
         /\ Here # "frame" /\ ~(Here = "event" /\ m.event.ph # "M") =>
              SameTotals(m, n) /\ SameTold(m, n) /\ SameFrameTold(m, n)
<1>1. CASE Here = "event" /\ m.event.ph # "M"
  <2>1. PICK events : events = Append(m.events, m.event)
    OBVIOUS
  <2>2. PICK plain : plain = (m.plain /\ ~(m.event.ph = "C" /\ m.phLast))
    OBVIOUS
  <2>3. PICK points : points = IF m.event.ph = "C" THEN m.points + m.numbers ELSE m.points
    OBVIOUS
  <2>4. n = [m EXCEPT !.events = events, !.plain = plain, !.points = points]
    BY <1>1, <2>1, <2>2, <2>3 DEF Ended
  <2>5. n.events = events /\ n.frames = m.frames /\ n.points = points /\ n.plain = plain
    BY <2>4 DEF IsMeaning
  <2> QED
    BY <1>1, <2>1, <2>2, <2>3, <2>5 DEF EventEnds
<1>2. CASE Here = "frame"
  <2>1. PICK frames : frames = Append(m.frames, [m.frame EXCEPT !.valid = @ /\ m.named])
    OBVIOUS
  <2>2. n = [m EXCEPT !.frames = frames]
    BY <1>2, <2>1 DEF Ended
  <2>3. n.events = m.events /\ n.frames = frames /\ n.points = m.points
    BY <2>2 DEF IsMeaning
  <2> QED
    BY <1>2, <2>1, <2>3 DEF FrameEnds
<1>3. CASE Here # "frame" /\ ~(Here = "event" /\ m.event.ph # "M")
  <2>1. PICK done : n = [m EXCEPT !.done = done]
    BY <1>3 DEF Ended
  <2> QED
    BY <1>3, <2>1 DEF IsMeaning, SameTotals, SameTold, SameFrameTold
<1> QED
  BY <1>1, <1>2, <1>3

LEMMA EventsGrow ==
  ASSUME NEW p, IsSeq(p), NEW q, IsSeq(q), Len(p) = Len(q), \A i \in 1..Len(q) : p[i] = Kinded(q[i]),
         NEW d, NEW e, d = Kinded(e)
  PROVE  /\ IsSeq(Append(p, d)) /\ IsSeq(Append(q, e)) /\ Len(Append(p, d)) = Len(Append(q, e))
         /\ \A i \in 1..Len(Append(q, e)) : Append(p, d)[i] = Kinded(Append(q, e)[i])
<1>1. PICK u, v : u = Append(p, d) /\ v = Append(q, e)
  OBVIOUS
<1>2. Pushed(p, u, d) /\ Pushed(q, v, e) /\ Len(q) \in Nat
  BY <1>1, PathPushed, PathLength
<1>3. \A i \in 1..Len(v) : u[i] = Kinded(v[i])
  <2> TAKE i \in 1..Len(v)
  <2>1. CASE i \in 1..Len(q)
    BY <1>2, <2>1 DEF Pushed
  <2>2. CASE i = Len(v)
    BY <1>2, <2>2 DEF Pushed
  <2> QED
    BY <1>2, <2>1, <2>2 DEF Pushed
<1> QED
  BY <1>1, <1>2, <1>3 DEF Pushed

LEMMA EventCloses ==
  ASSUME NEW g, NEW f, NEW m, NEW n, IsHandler(g), Gathered(g, m), InOpenEvent(g), f.state = "InTraceEvents",
         f.model = FinishEvent(g).model, n.plain,
         IF m.event.ph = "M" THEN SameTotals(m, n) ELSE EventEnds(m, n)
  PROVE  Gathered(f, n)
<1> SUFFICES SameModel(f.model, n)
  BY DEF Gathered, InKind, InOpenEvent, InOpenFrame
<1>1. SameModel(g.model, m) /\ SameEvent(g, m) /\ SameNumbers(g, m)
  BY DEF Gathered
<1>2. IsModel(g.model) /\ IsEvent(g.event) /\ m.event = [g.event EXCEPT !.args = g.args]
  BY <1>1 DEF SameModel, SameEvent
<1>3. PICK e : e = [Kinded(g.event) EXCEPT !.args = g.args]
  OBVIOUS
<1>4. e = Kinded(m.event) /\ m.event.ph = g.event.ph /\ e.ph = g.event.ph
  <2>1. e = Kinded(m.event) /\ Kinded(g.event).ph = g.event.ph /\ m.event.ph = g.event.ph
    BY <1>2, <1>3, KindedApart, ArgsApart
  <2>2. IsEvent(Kinded(g.event))
    BY <1>2 DEF Kinded, IsEvent
  <2> QED
    BY <1>3, <2>1, <2>2, ArgsApart
<1>5. CASE m.event.ph = "M"
  <2>1. Labelled(f.model, g.model)
    BY <1>2, <1>3, <1>4, <1>5, FinishMeans
  <2>2. SameModel(f.model, m)
    BY <1>1, <2>1 DEF SameModel, Labelled
  <2> QED
    BY <1>5, <2>2, TotalsKept
<1>6. CASE m.event.ph # "M"
  <2>1. Finished(f.model, g.model, e, g.counters) /\ EventEnds(m, n)
    BY <1>2, <1>3, <1>4, <1>6, FinishMeans
  <2>2. /\ IsSeq(f.model.events) /\ IsSeq(n.events) /\ Len(f.model.events) = Len(n.events)
        /\ \A i \in 1..Len(n.events) : f.model.events[i] = Kinded(n.events[i])
    <3>1. PICK p, q : p = g.model.events /\ q = m.events
      OBVIOUS
    <3>2. IsSeq(p) /\ IsSeq(q) /\ Len(p) = Len(q) /\ \A i \in 1..Len(q) : p[i] = Kinded(q[i])
      BY <1>1, <3>1 DEF SameModel
    <3>3. f.model.events = Append(p, e) /\ n.events = Append(q, m.event)
      BY <2>1, <3>1 DEF Finished, EventEnds
    <3>4. /\ IsSeq(Append(p, e)) /\ IsSeq(Append(q, m.event)) /\ Len(Append(p, e)) = Len(Append(q, m.event))
          /\ \A i \in 1..Len(Append(q, m.event)) : Append(p, e)[i] = Kinded(Append(q, m.event)[i])
      BY <1>4, <3>2, EventsGrow
    <3> QED
      BY <3>3, <3>4
  <2>3. IsSeries(f.model.series) /\ Cardinality(Points(f.model.series)) = n.points
    <3>1. IsSeries(g.model.series) /\ Cardinality(Points(g.model.series)) = m.points /\ IsSeq(g.counters)
      BY <1>1 DEF SameModel, SameNumbers
    <3>2. CASE e.ph = "C"
      <4>1. Len(g.counters) = m.numbers /\ n.points = m.points + m.numbers
        BY <1>1, <1>4, <2>1, <3>2 DEF SameNumbers, EventEnds
      <4>2. f.model.series = Plotted(g.model.series, e, g.counters)
        BY <2>1, <3>2 DEF Finished
      <4>3. Len(g.counters) \in Nat
        BY <3>1, PathLength
      <4> QED
        BY <3>1, <4>1, <4>2, <4>3, PlottedAdds
    <3>3. CASE e.ph # "C"
      BY <1>4, <2>1, <3>1, <3>3 DEF Finished, EventEnds
    <3> QED
      BY <3>2, <3>3
  <2> QED
    BY <1>1, <2>1, <2>2, <2>3 DEF SameModel, Finished, EventEnds
<1> QED
  BY <1>5, <1>6

LEMMA FrameCloses ==
  ASSUME NEW g, NEW f, NEW m, NEW n, Gathered(g, m), InOpenFrame(g), f.state = "InStackFrames",
         f.model = [g.model EXCEPT !.frames = Append(@, [g.frame EXCEPT !.valid = @ /\ g.hasName])], FrameEnds(m, n)
  PROVE  Gathered(f, n)
<1> SUFFICES SameModel(f.model, n)
  BY DEF Gathered, InKind, InOpenEvent, InOpenFrame
<1>1. SameModel(g.model, m) /\ m.frame = g.frame /\ m.named = g.hasName
  BY DEF Gathered, SameFrame
<1>2. PICK frames : frames = Append(g.model.frames, [g.frame EXCEPT !.valid = @ /\ g.hasName])
  OBVIOUS
<1>3. f.model = [g.model EXCEPT !.frames = frames]
  BY <1>2
<1>4. n.frames = frames
  BY <1>1, <1>2 DEF FrameEnds, SameModel
<1>5. /\ IsModel(f.model) /\ f.model.events = g.model.events /\ f.model.series = g.model.series
      /\ f.model.frames = frames
  BY <1>1, <1>3 DEF SameModel, IsModel
<1> QED
  BY <1>1, <1>4, <1>5 DEF SameModel, FrameEnds

LEMMA StateCloses ==
  ASSUME NEW g, NEW f, NEW m, NEW n, Gathered(g, m), SameGathered(g, f), f.model = g.model,
         SameTotals(m, n), SameTold(m, n), SameFrameTold(m, n), InKind(f),
         InOpenEvent(f) => InOpenEvent(g), InOpenFrame(f) => InOpenFrame(g)
  PROVE  Gathered(f, n)
<1>1. SameModel(f.model, n)
  BY TotalsKept DEF Gathered
<1>2. InOpenEvent(f) => SameEvent(f, n) /\ SameNumbers(f, n)
  BY DEF Gathered, SameEvent, SameNumbers, SameGathered, SameTold
<1>3. InOpenFrame(f) => SameFrame(f, n)
  BY DEF Gathered, SameFrame, SameGathered, SameFrameTold
<1> QED
  BY <1>1, <1>2, <1>3 DEF Gathered

LEMMA ShutGathers ==
  ASSUME InPlace(h, path, meant), meant.plain, Gathered(h, meant), Shut, meant'.plain
  PROVE  Gathered(h', meant')
<1> DEFINE up == RoleAt(path, Len(path) - 1)
           is == ShapeOf(path)
<1>1. path # <<>> /\ h' = Handle(h, EndToken(is)) /\ meant' = Ended(meant)
  BY DEF Shut, Feed, EndToken, ShapeOf, Inner
<1>2. /\ IsHandler(h) /\ IsMeaning(meant) /\ h.state = StateFor[Here] /\ Here \in Roles /\ Here # "document"
      /\ Here = "args" => h.argsDepth = 0
      /\ Here = "inArgs" => h.argsDepth > 0 /\ h.argsDepth # 0
  BY <1>1, HereFacts DEF StateIn
<1>3. NestsIn(up, is, Here) /\ is \in {"object", "array"}
  <2>1. Nesting(path)
    BY DEF InPlace
  <2>2. Here = path[Len(path)].role /\ Lies(up, path[Len(path)]) /\ IsContainer(path[Len(path)])
    BY <1>1, <2>1, RoleHere DEF Here, Inner
  <2> QED
    BY <2>2 DEF Lies, ShapeOf, IsContainer
<1> HIDE DEF up, is
<1>4. Left(h, h', up, Here) /\ EndsWith(h, h', Here)
  BY <1>1, <1>2, <1>3, Closes, CloseLeaves
<1> DEFINE f == h'
           n == meant'
<1>5. /\ Here = "event" /\ meant.event.ph # "M" => EventEnds(meant, n)
      /\ Here = "frame" => FrameEnds(meant, n)
      /\ Here # "frame" /\ ~(Here = "event" /\ meant.event.ph # "M") =>
           SameTotals(meant, n) /\ SameTold(meant, n) /\ SameFrameTold(meant, n)
  BY <1>1, <1>2, EndedMeans
<1>6. n.plain /\ Left(h, f, up, Here) /\ EndsWith(h, f, Here)
  BY <1>4
<1> SUFFICES Gathered(f, n)
  OBVIOUS
<1> HIDE DEF f, n
<1>7. CASE Here = "event"
  <2>1. h.state = "InEvent" /\ f.state = "InTraceEvents" /\ f.model = FinishEvent(h).model
    BY <1>2, <1>3, <1>6, <1>7 DEF Left, EndsWith, NestsIn, StateFor
  <2>2. InOpenEvent(h)
    BY <2>1 DEF InOpenEvent
  <2>3. IF meant.event.ph = "M" THEN SameTotals(meant, n) ELSE EventEnds(meant, n)
    BY <1>5, <1>7
  <2> QED
    BY <1>2, <1>6, <2>1, <2>2, <2>3, EventCloses
<1>8. CASE Here = "frame"
  <2>1. /\ h.state = "InStackFrame" /\ f.state = "InStackFrames"
        /\ f.model = [h.model EXCEPT !.frames = Append(@, [h.frame EXCEPT !.valid = @ /\ h.hasName])]
    BY <1>2, <1>3, <1>6, <1>8 DEF Left, EndsWith, NestsIn, StateFor
  <2>2. InOpenFrame(h) /\ FrameEnds(meant, n)
    BY <1>5, <1>8, <2>1 DEF InOpenFrame
  <2> QED
    BY <2>1, <2>2, FrameCloses
<1>9. CASE Here \notin {"event", "frame"}
  <2>1. SameGathered(h, f) /\ f.model = h.model /\ SameTotals(meant, n) /\ SameTold(meant, n) /\ SameFrameTold(meant, n)
    BY <1>5, <1>6, <1>9 DEF EndsWith
  <2>2. /\ h.state = "InArgs" => h.args.given /\ (h.argsDepth > 0 => h.args.bad)
        /\ h.state = "Skipping" => h.skipReturn \notin {"InArgs", "Skipping"}
    BY DEF Gathered, InKind
  <2>3. InKind(f) /\ (InOpenEvent(f) => InOpenEvent(h)) /\ (InOpenFrame(f) => InOpenFrame(h))
    <3>1. CASE Here \in {"top", "frames", "list"}
      <4>1. f.state \in {"TopLevel", "InTopObject"}
        BY <1>3, <1>6, <3>1 DEF Left, EndsWith, NestsIn, StateFor
      <4> QED
        BY <4>1 DEF InKind, InOpenEvent, InOpenFrame
    <3>2. CASE Here = "args"
      <4>1. h.state = "InArgs" /\ f.state = "InEvent"
        BY <1>2, <1>6, <3>2 DEF Left, StateFor
      <4> QED
        BY <4>1 DEF InKind, InOpenEvent, InOpenFrame
    <3>3. CASE Here = "inArgs"
      <4>1. h.state = "InArgs" /\ f.state = "InArgs" /\ h.args.bad /\ h.args.given
        BY <1>2, <1>6, <2>2, <3>3 DEF Left, StateFor
      <4>2. f.args = h.args
        BY <2>1 DEF SameGathered
      <4> QED
        BY <4>1, <4>2 DEF InKind, InOpenEvent, InOpenFrame
    <3>4. CASE Here = "other"
      <4>1. h.state = "Skipping" /\ f.skipReturn = h.skipReturn /\ f.state \in {h.skipReturn, "Skipping"}
        BY <1>2, <1>6, <3>4 DEF Left, StateFor
      <4> QED
        BY <2>2, <4>1 DEF InKind, InOpenEvent, InOpenFrame
    <3> QED
      BY <1>2, <1>9, <3>1, <3>2, <3>3, <3>4 DEF Roles, ObjectRoles
  <2> QED
    BY <2>1, <2>3, StateCloses
<1> QED
  BY <1>7, <1>8, <1>9

LEMMA ReadInit == Init => ReadInv
<1> SUFFICES ASSUME Init PROVE Gathered(h, meant)
  BY DEF ReadInv
<1>1. h = Handler /\ meant = Meaning
  BY DEF Init
<1>2. h.model = EmptyModel /\ h.state = "TopLevel"
  BY <1>1 DEF Handler
<1>3. InKind(h) /\ ~InOpenEvent(h) /\ ~InOpenFrame(h)
  BY <1>2 DEF InKind, InOpenEvent, InOpenFrame
<1>4. meant.events = <<>> /\ meant.frames = <<>> /\ meant.points = 0
  BY <1>1 DEF Meaning
<1>5. PICK md : md = EmptyModel
  OBVIOUS
<1>6. IsModel(md) /\ md.events = <<>> /\ md.frames = <<>> /\ md.series = <<>>
  BY <1>5 DEF EmptyModel, IsModel
<1>7. IsSeries(<<>>) /\ Cardinality(Points(<<>>)) = 0
  <2>1. DOMAIN <<>> = {}
    BY EmptyIsSeq
  <2>2. Points(<<>>) = {}
    BY <2>1 DEF Points
  <2> QED
    BY <2>1, <2>2, FS_EmptySet DEF IsSeries
<1>8. SameModel(md, meant)
  BY <1>4, <1>6, <1>7, EmptyIsSeq DEF SameModel
<1> QED
  BY <1>2, <1>3, <1>5, <1>8 DEF Gathered

LEMMA ReadNext == PlaceInv /\ ReadInv /\ [Next]_vars => ReadInv'
<1> SUFFICES ASSUME PlaceInv, ReadInv, [Next]_vars, source' = "document", meant'.plain
             PROVE  Gathered(h', meant')
  BY DEF ReadInv
<1>1. source = "document"
  BY DEF Next, Key, Scalar, Open, Shut, Feed, Finish, CutShort, ReadSelf, AddEvent, BuildAll, Rebuild, vars
<1>2. InPlace(h, path, meant) /\ IsMeaning(meant)
  BY <1>1 DEF PlaceInv, InPlace
<1>3. meant.plain => Gathered(h, meant)
  BY <1>1 DEF ReadInv
<1>4. CASE Key
  <2>1. meant.plain
    BY <1>4 DEF Key
  <2> QED
    BY <1>2, <1>3, <1>4, <2>1, KeyGathers
<1>5. CASE Scalar
  <2>1. PICK t : meant' = Said(meant, t)
    BY <1>5 DEF Scalar
  <2>2. meant.plain
    BY <1>2, <2>1, SaidStays DEF SameSide
  <2> QED
    BY <1>2, <1>3, <1>5, <2>2, ScalarGathers
<1>6. ASSUME NEW is \in {"object", "array"}, Open(is) PROVE Gathered(h', meant')
  <2>1. meant' = Opened(OneMore(meant), RoleOf(Here, is, KeyHere))
    BY <1>6 DEF Open, OneMore
  <2>2. meant.plain
    BY <1>2, <2>1, OneMoreOpened, OpenedStays
  <2> QED
    BY <1>2, <1>3, <1>6, <2>2, OpenGathers
<1>7. CASE Shut
  <2>1. meant' = Ended(meant)
    BY <1>7 DEF Shut
  <2>2. meant.plain
    BY <1>2, <2>1, EndedStays
  <2> QED
    BY <1>2, <1>3, <1>7, <2>2, ShutGathers
<1>8. CASE UNCHANGED <<h, docVars>>
  BY <1>3, <1>8 DEF docVars
<1>9. Finish \/ CutShort \/ UNCHANGED vars => UNCHANGED <<h, docVars>>
  BY DEF Finish, CutShort, vars
<1> QED
  BY <1>1, <1>4, <1>5, <1>6, <1>7, <1>8, <1>9 DEF Next, ReadSelf, AddEvent, BuildAll, Rebuild

\* Every event of the document is an event of the model with the values it was
\* given, every frame and every number of a counter arrives, whatever else lies
\* between them (finish_event, end_object): for documents of any size and nesting.
THEOREM ReadIsFaithful == Spec => []ReadAsWritten
<1>1. ReadInv => ReadAsWritten
  <2> SUFFICES ASSUME ReadInv, source = "document", meant.plain
               PROVE  /\ Len(h.model.events) = Len(meant.events)
                      /\ \A i \in DOMAIN meant.events : h.model.events[i] = Kinded(meant.events[i])
                      /\ h.model.frames = meant.frames
                      /\ Cardinality(Points(h.model.series)) = meant.points
    BY DEF ReadAsWritten
  <2>1. SameModel(h.model, meant)
    BY DEF ReadInv, Gathered
  <2>2. DOMAIN meant.events = 1..Len(meant.events)
    BY <2>1 DEF SameModel, IsSeq
  <2> QED
    BY <2>1, <2>2 DEF SameModel
<1>2. Init => PlaceInv /\ ReadInv
  BY PlaceInit, ReadInit
<1>3. (PlaceInv /\ ReadInv) /\ [Next]_vars => (PlaceInv /\ ReadInv)'
  BY PlaceNext, ReadNext
<1> QED
  BY <1>1, <1>2, <1>3, PTL DEF Spec

-----------------------------------------------------------------------------
(* What the reader fills has its types, wherever it is in the document: they *)
(* are what the index is built from.                                         *)
IsEvents(ev) == IsSeq(ev) /\ AreTimed(ev)
IsFrames(fs) == IsSeq(fs) /\ \A f \in 1..Len(fs) : IsFrame(fs[f])
Fills(g) ==
  /\ IsHandler(g) /\ IsModel(g.model)
  /\ IsEvents(g.model.events) /\ IsFrames(g.model.frames)
  /\ IsTimed(g.event) /\ IsFrame(g.frame) /\ g.hasName \in BOOLEAN

LEMMA EventPut ==
  ASSUME NEW e, IsTimed(e), NEW k \in EventFields, NEW v, k \in {"ts", "dur"} => v \in Int
  PROVE  IsTimed([e EXCEPT ![k] = v])
BY FieldSet DEF SetsField

LEMMA FrameFields == DOMAIN NoFrame = {"id", "parentId", "parent", "name", "cat", "valid"}
BY DEF NoFrame

LEMMA FramePut ==
  ASSUME NEW f, IsFrame(f), NEW k \in DOMAIN NoFrame, NEW v, k = "valid" => v \in BOOLEAN
  PROVE  IsFrame([f EXCEPT ![k] = v])
<1>1. PICK d : d = [f EXCEPT ![k] = v]
  OBVIOUS
<1>2. DOMAIN f = DOMAIN NoFrame /\ f["valid"] \in BOOLEAN
  BY Zenon DEF IsFrame
<1>3. d = [x \in DOMAIN NoFrame |-> IF x = k THEN v ELSE f[x]]
  BY <1>1, <1>2
<1>4. d = [x \in DOMAIN NoFrame |-> d[x]]
  BY <1>3
<1>5. d["valid"] \in BOOLEAN
  <2>1. "valid" \in DOMAIN NoFrame
    BY FrameFields
  <2>2. d["valid"] = IF "valid" = k THEN v ELSE f["valid"]
    BY <1>3, <2>1
  <2> QED
    BY <1>2, <2>2
<1>6. d.valid \in BOOLEAN
  BY <1>5, Zenon
<1> QED
  BY <1>1, <1>4, <1>6 DEF IsFrame

LEMMA FillsOn ==
  ASSUME NEW g, Fills(g), NEW f, IsHandler(f), f.model = g.model, IsTimed(f.event), IsFrame(f.frame), f.hasName \in BOOLEAN
  PROVE  Fills(f)
BY DEF Fills

SameFill(g, f) == IsHandler(f) /\ f.model = g.model /\ f.event = g.event /\ f.frame = g.frame /\ f.hasName = g.hasName

LEMMA ArgumentFills ==
  ASSUME NEW g, IsHandler(g), NEW t
  PROVE  SameFill(g, Argument(g, t))
BY DEF IsHandler, SameFill, Argument

LEMMA CountedFills ==
  ASSUME NEW g, IsHandler(g), NEW v
  PROVE  SameFill(g, Counted(g, v))
BY DEF IsHandler, SameFill, Counted

LEMMA BlemishFills ==
  ASSUME NEW g, Fills(g)
  PROVE  Fills(Blemish(g))
<1>1. IsHandler(g) /\ IsFrame(g.frame)
  BY DEF Fills
<1>2. PICK d : d = [g.frame EXCEPT !["valid"] = FALSE]
  OBVIOUS
<1>3. IsFrame(d)
  BY <1>1, <1>2, FrameFields, FramePut
<1>4. PICK f : f = Blemish(g)
  OBVIOUS
<1>5. IsHandler(f) /\ f.model = g.model /\ f.event = g.event /\ f.hasName = g.hasName
  BY <1>1, <1>4 DEF IsHandler, Blemish
<1>6. f.frame = g.frame \/ f.frame = [g.frame EXCEPT !.valid = FALSE]
  BY <1>1, <1>4 DEF IsHandler, Blemish
<1>7. f.frame = g.frame \/ f.frame = d
  BY <1>2, <1>6, Zenon
<1> QED
  BY <1>1, <1>3, <1>4, <1>5, <1>7, FillsOn DEF Fills

EventIsPut(g, f, v) ==
  /\ f.frame = g.frame /\ f.hasName = g.hasName
  /\ f.event = g.event \/ \E k \in EventFields : (k \in {"ts", "dur"} => v \in Int) /\ f.event = [g.event EXCEPT ![k] = v]
FrameIsPut(g, f, v) ==
  /\ f.event = g.event /\ f.hasName \in BOOLEAN
  /\ \E k \in DOMAIN NoFrame : (k = "valid" => v \in BOOLEAN) /\ f.frame = [g.frame EXCEPT ![k] = v]

LEMMA PutFills ==
  ASSUME NEW g, Fills(g), NEW f, IsHandler(f), f.model = g.model, NEW v, EventIsPut(g, f, v) \/ FrameIsPut(g, f, v)
  PROVE  Fills(f)
<1>1. CASE EventIsPut(g, f, v)
  <2>1. IsTimed(g.event)
    BY DEF Fills
  <2>2. ASSUME NEW k \in EventFields, k \in {"ts", "dur"} => v \in Int, f.event = [g.event EXCEPT ![k] = v]
        PROVE  IsTimed(f.event)
    BY <2>1, <2>2, EventPut
  <2>3. IsTimed(f.event)
    BY <1>1, <2>1, <2>2 DEF EventIsPut
  <2> QED
    BY <1>1, <2>3, FillsOn DEF EventIsPut, Fills
<1>2. CASE FrameIsPut(g, f, v)
  <2>1. IsFrame(f.frame)
    BY <1>2, FramePut DEF FrameIsPut, Fills
  <2> QED
    BY <1>2, <2>1, FillsOn DEF FrameIsPut, Fills
<1> QED
  BY <1>1, <1>2

LEMMA NumberFills ==
  ASSUME NEW g, Fills(g), NEW v \in Int
  PROVE  Fills(OnNumber(g, v))
<1>1. IsHandler(g)
  BY DEF Fills
<1>2. PICK f : f = OnNumber(g, v)
  OBVIOUS
<1>3. IsHandler(f)
  BY <1>1, <1>2, NumberStays DEF SamePlace
<1>4. CASE g.state = "InArgs"
  <2>1. PICK a : a = Argument(g, Number(v))
    OBVIOUS
  <2>2. SameFill(g, a)
    BY <1>1, <2>1, ArgumentFills
  <2>3. f = Counted(a, v)
    BY <1>2, <1>4, <2>1 DEF OnNumber
  <2>4. SameFill(a, f)
    BY <2>2, <2>3, CountedFills DEF SameFill
  <2> QED
    BY <1>2, <2>2, <2>4, FillsOn DEF SameFill, Fills
<1>5. CASE g.state = "InStackFrame" /\ g.key = "parent"
  <2>1. f = [g EXCEPT !.frame.parentId = Raw(v)]
    BY <1>2, <1>5 DEF OnNumber
  <2>2. PICK r : r = Raw(v)
    OBVIOUS
  <2>3. f = [g EXCEPT !.frame = [g.frame EXCEPT !.parentId = r]]
    BY <1>1, <2>1, <2>2 DEF IsHandler
  <2>4. f.model = g.model /\ f.event = g.event /\ f.hasName = g.hasName /\ f.frame = [g.frame EXCEPT !["parentId"] = r]
    BY <1>1, <2>3 DEF IsHandler
  <2>5. FrameIsPut(g, f, r)
    BY <2>4, FrameFields DEF FrameIsPut, Fills
  <2> QED
    BY <1>2, <1>3, <2>4, <2>5, PutFills
<1>6. CASE g.state = "InStackFrame" /\ g.key = "name"
  <2>1. f = [g EXCEPT !.frame.valid = FALSE]
    BY <1>2, <1>6 DEF OnNumber
  <2>2. f.model = g.model /\ f.event = g.event /\ f.hasName = g.hasName /\ f.frame = [g.frame EXCEPT !["valid"] = FALSE]
    BY <1>1, <2>1 DEF IsHandler
  <2>3. FrameIsPut(g, f, FALSE)
    BY <2>2, FrameFields DEF FrameIsPut, Fills
  <2> QED
    BY <1>2, <1>3, <2>2, <2>3, PutFills
<1>7. CASE ~(g.state = "InArgs") /\ ~(g.state = "InStackFrame" /\ g.key \in {"parent", "name"})
  <2>1. \/ f = g
        \/ \E k \in NumberFields : f = [g EXCEPT !.event[k] = v]
        \/ f = [g EXCEPT !.event.sf = Raw(v)]
        \/ f = [g EXCEPT !.event.weight = v]
    <3>1. CASE g.state = "InEvent" /\ g.key \in NumberFields
      <4>1. PICK k : k = g.key
        OBVIOUS
      <4>2. k \in NumberFields /\ k # "sf" /\ k # "weight"
        BY <3>1, <4>1 DEF NumberFields
      <4>3. f = [g EXCEPT !.event[k] = v]
        BY <1>2, <3>1, <4>1, <4>2 DEF OnNumber
      <4> QED
        BY <4>2, <4>3
    <3>2. CASE g.state = "InEvent" /\ g.key = "sf"
      BY <1>2, <3>2 DEF OnNumber, NumberFields
    <3>3. CASE g.state = "InEvent" /\ g.key = "weight" /\ v >= 0
      BY <1>2, <3>3 DEF OnNumber, NumberFields
    <3>4. CASE ~(g.state = "InEvent" /\ (g.key \in NumberFields \cup {"sf"} \/ (g.key = "weight" /\ v >= 0)))
      BY <1>2, <1>7, <3>4 DEF OnNumber
    <3> QED
      BY <3>1, <3>2, <3>3, <3>4
  <2>2. CASE f = g
    BY <1>2, <2>2
  <2>3. ASSUME NEW k \in EventFields, NEW w, k \in {"ts", "dur"} => w \in Int, f = [g EXCEPT !.event[k] = w] PROVE Fills(f)
    <3>1. f.model = g.model /\ f.frame = g.frame /\ f.hasName = g.hasName /\ f.event = [g.event EXCEPT ![k] = w]
      BY <1>1, <2>3 DEF IsHandler
    <3>2. EventIsPut(g, f, w)
      BY <2>3, <3>1 DEF EventIsPut
    <3> QED
      BY <1>3, <3>1, <3>2, PutFills
  <2>4. NumberFields \subseteq EventFields /\ "sf" \in EventFields /\ "weight" \in EventFields
    BY DEF NumberFields, EventFields
  <2>5. f = [g EXCEPT !.event.sf = Raw(v)] => f = [g EXCEPT !.event["sf"] = Raw(v)]
    BY Zenon
  <2>6. f = [g EXCEPT !.event.weight = v] => f = [g EXCEPT !.event["weight"] = v]
    BY Zenon
  <2> QED
    BY <1>2, <2>1, <2>2, <2>3, <2>4, <2>5, <2>6
<1> QED
  BY <1>4, <1>5, <1>6, <1>7

LEMMA StringFills ==
  ASSUME NEW g, Fills(g), NEW v
  PROVE  Fills(OnString(g, v))
<1>1. IsHandler(g) /\ g.hasName \in BOOLEAN
  BY DEF Fills
<1>2. PICK f : f = OnString(g, v)
  OBVIOUS
<1>3. IsHandler(f)
  BY <1>1, <1>2, StringStays DEF SamePlace
<1>4. CASE g.state = "InArgs"
  <2>1. PICK a : a = Argument(g, String(v))
    OBVIOUS
  <2>2. SameFill(g, a)
    BY <1>1, <2>1, ArgumentFills
  <2>3. f = a \/ f = Counted(a, Numeral[v])
    BY <1>2, <1>4, <2>1 DEF OnString
  <2>4. SameFill(a, f)
    BY <2>2, <2>3, CountedFills DEF SameFill
  <2> QED
    BY <1>2, <2>2, <2>4, FillsOn DEF SameFill, Fills
<1>5. CASE g.state = "InStackFrame"
  <2>1. ASSUME NEW k \in {"name", "cat", "parentId"}, f.model = g.model, f.event = g.event, f.hasName \in BOOLEAN,
               f.frame = [g.frame EXCEPT ![k] = v]
        PROVE  Fills(f)
    <3>1. FrameIsPut(g, f, v)
      BY <2>1, FrameFields DEF FrameIsPut
    <3> QED
      BY <1>3, <2>1, <3>1, PutFills
  <2>2. CASE g.key = "name"
    <3>1. f = [g EXCEPT !.frame.name = v, !.hasName = TRUE]
      BY <1>2, <1>5, <2>2 DEF OnString
    <3>2. f.model = g.model /\ f.event = g.event /\ f.hasName \in BOOLEAN /\ f.frame = [g.frame EXCEPT !["name"] = v]
      BY <1>1, <3>1 DEF IsHandler
    <3> QED
      BY <1>2, <2>1, <3>2
  <2>3. CASE g.key = "category"
    <3>1. f = [g EXCEPT !.frame.cat = v]
      BY <1>2, <1>5, <2>3 DEF OnString
    <3>2. f.model = g.model /\ f.event = g.event /\ f.hasName \in BOOLEAN /\ f.frame = [g.frame EXCEPT !["cat"] = v]
      BY <1>1, <3>1 DEF IsHandler
    <3> QED
      BY <1>2, <2>1, <3>2
  <2>4. CASE g.key = "parent"
    <3>1. f = [g EXCEPT !.frame.parentId = v]
      BY <1>2, <1>5, <2>4 DEF OnString
    <3>2. f.model = g.model /\ f.event = g.event /\ f.hasName \in BOOLEAN /\ f.frame = [g.frame EXCEPT !["parentId"] = v]
      BY <1>1, <3>1 DEF IsHandler
    <3> QED
      BY <1>2, <2>1, <3>2
  <2>5. CASE g.key \notin {"name", "category", "parent"}
    BY <1>2, <1>5, <2>5 DEF OnString
  <2> QED
    BY <2>2, <2>3, <2>4, <2>5
<1>6. CASE g.state = "InEvent"
  <2>1. ASSUME NEW k \in EventFields \ {"ts", "dur"}, NEW w, f = [g EXCEPT !.event[k] = w] PROVE Fills(f)
    <3>1. f.model = g.model /\ f.frame = g.frame /\ f.hasName = g.hasName /\ f.event = [g.event EXCEPT ![k] = w]
      BY <1>1, <2>1 DEF IsHandler
    <3>2. EventIsPut(g, f, w)
      BY <2>1, <3>1 DEF EventIsPut
    <3> QED
      BY <1>3, <3>1, <3>2, PutFills
  <2>2. {"name", "cat", "sf", "ph", "unit", "id"} \subseteq EventFields \ {"ts", "dur"}
    BY DEF EventFields
  <2>3. CASE g.key \in {"name", "cat", "sf"}
    <3>1. PICK k : k = g.key
      OBVIOUS
    <3>2. f = [g EXCEPT !.event[k] = v]
      BY <1>2, <1>6, <2>3, <3>1 DEF OnString
    <3> QED
      BY <1>2, <2>1, <2>2, <2>3, <3>1, <3>2
  <2>4. CASE g.key = "ph" /\ v # Blank
    <3>1. f = [g EXCEPT !.event.ph = v]
      BY <1>2, <1>6, <2>4 DEF OnString
    <3>2. f = [g EXCEPT !.event["ph"] = v]
      BY <3>1, Zenon
    <3> QED
      BY <1>2, <2>1, <2>2, <3>2
  <2>5. CASE g.key = "weightUnit"
    <3>1. f = [g EXCEPT !.event.unit = v]
      BY <1>2, <1>6, <2>5 DEF OnString
    <3>2. f = [g EXCEPT !.event["unit"] = v]
      BY <3>1, Zenon
    <3> QED
      BY <1>2, <2>1, <2>2, <3>2
  <2>6. CASE g.key = "id" /\ v \in DOMAIN Numeral
    <3>1. f = [g EXCEPT !.event.id = Numeral[v]]
      BY <1>2, <1>6, <2>6 DEF OnString
    <3>2. f = [g EXCEPT !.event["id"] = Numeral[v]]
      BY <3>1, Zenon
    <3> QED
      BY <1>2, <2>1, <2>2, <3>2
  <2>7. CASE /\ g.key \notin {"name", "cat", "sf", "weightUnit"}
             /\ ~(g.key = "ph" /\ v # Blank) /\ ~(g.key = "id" /\ v \in DOMAIN Numeral)
    BY <1>2, <1>6, <2>7 DEF OnString
  <2> QED
    BY <2>3, <2>4, <2>5, <2>6, <2>7
<1>7. CASE g.state \notin {"InArgs", "InStackFrame", "InEvent"}
  BY <1>2, <1>7 DEF OnString
<1> QED
  BY <1>4, <1>5, <1>6, <1>7

LEMMA SkipFills ==
  ASSUME NEW g, Fills(g)
  PROVE  Fills(Skip(g))
<1>1. IsHandler(g)
  BY DEF Fills
<1>2. SameFill(g, Skip(g))
  <2>1. PICK f : f = Skip(g)
    OBVIOUS
  <2>2. IsHandler(f)
    BY <1>1, <2>1 DEF IsHandler, Skip
  <2>3. f.model = g.model /\ f.event = g.event /\ f.frame = g.frame /\ f.hasName = g.hasName
    BY <1>1, <2>1 DEF IsHandler, Skip
  <2> QED
    BY <2>1, <2>2, <2>3 DEF SameFill
<1> QED
  BY <1>2, FillsOn DEF SameFill, Fills

LEMMA UnskipFills ==
  ASSUME NEW g, Fills(g)
  PROVE  Fills(Unskip(g))
<1>1. IsHandler(g)
  BY DEF Fills
<1>2. SameFill(g, Unskip(g))
  <2>1. PICK f : f = Unskip(g)
    OBVIOUS
  <2>2. IsHandler(f)
    BY <1>1, <2>1 DEF IsHandler, Unskip
  <2>3. f.model = g.model /\ f.event = g.event /\ f.frame = g.frame /\ f.hasName = g.hasName
    BY <1>1, <2>1 DEF IsHandler, Unskip
  <2> QED
    BY <2>1, <2>2, <2>3 DEF SameFill
<1> QED
  BY <1>2, FillsOn DEF SameFill, Fills

LEMMA BareFills ==
  ASSUME NEW g, Fills(g)
  PROVE  Fills(OnBare(g))
<1>1. IsHandler(g)
  BY DEF Fills
<1>2. CASE g.state = "InArgs"
  <2>1. SameFill(g, OnBare(g))
    BY <1>1, <1>2 DEF IsHandler, SameFill, OnBare
  <2> QED
    BY <2>1, FillsOn DEF SameFill, Fills
<1>3. CASE g.state # "InArgs"
  BY <1>3, BlemishFills DEF OnBare
<1> QED
  BY <1>2, <1>3

LEMMA KeyFills ==
  ASSUME NEW g, Fills(g), NEW k
  PROVE  Fills(OnKey(g, k))
<1>1. IsHandler(g)
  BY DEF Fills
<1>2. SameFill(g, OnKey(g, k))
  BY <1>1 DEF IsHandler, SameFill, OnKey
<1> QED
  BY <1>2, FillsOn DEF SameFill, Fills

LEMMA NothingYet == IsTimed(NoEvent) /\ IsFrame(NoFrame)
<1>1. PICK e : e = NoEvent
  OBVIOUS
<1>2. DOMAIN e = EventFields /\ e.ts = 0 /\ e.dur = 0 /\ e = [x \in DOMAIN e |-> e[x]]
  BY <1>1 DEF NoEvent, EventFields
<1>3. IsTimed(e)
  BY <1>2 DEF IsTimed, HasTimes
<1>4. PICK f : f = NoFrame
  OBVIOUS
<1>5. f = [x \in DOMAIN f |-> f[x]] /\ f.valid \in BOOLEAN
  BY <1>4 DEF NoFrame
<1>6. IsFrame(f)
  BY <1>4, <1>5 DEF IsFrame
<1> QED
  BY <1>1, <1>3, <1>4, <1>6

LEMMA StartObjectFills ==
  ASSUME NEW g, Fills(g)
  PROVE  Fills(OnStartObject(g))
<1>1. IsHandler(g)
  BY DEF Fills
<1>2. PICK f : f = OnStartObject(g)
  OBVIOUS
<1>3. CASE g.state = "InStackFrames"
  <2>1. PICK r : r = [NoFrame EXCEPT !["id"] = g.key]
    OBVIOUS
  <2>2. IsFrame(r)
    BY <2>1, FrameFields, FramePut, NothingYet
  <2>3. f = [g EXCEPT !.state = "InStackFrame", !.frame = [NoFrame EXCEPT !.id = g.key], !.hasName = FALSE]
    BY <1>2, <1>3 DEF OnStartObject
  <2>4. f = [g EXCEPT !.state = "InStackFrame", !.frame = r, !.hasName = FALSE]
    BY <2>1, <2>3, Zenon
  <2>5. IsHandler(f) /\ f.model = g.model /\ f.event = g.event /\ f.frame = r /\ f.hasName = FALSE
    BY <1>1, <2>4 DEF IsHandler
  <2> QED
    BY <1>2, <2>2, <2>5, FillsOn DEF Fills
<1>4. CASE g.state = "InTraceEvents"
  <2>1. f = [g EXCEPT !.state = "InEvent", !.event = NoEvent, !.args = NoArgs, !.counters = <<>>]
    BY <1>2, <1>4 DEF OnStartObject
  <2>2. PICK e, a, c : e = NoEvent /\ a = NoArgs /\ c = <<>>
    OBVIOUS
  <2>3. f = [g EXCEPT !.state = "InEvent", !.event = e, !.args = a, !.counters = c]
    BY <2>1, <2>2
  <2>4. IsHandler(f) /\ f.model = g.model /\ f.event = e /\ f.frame = g.frame /\ f.hasName = g.hasName
    BY <1>1, <2>3 DEF IsHandler
  <2> QED
    BY <1>2, <2>2, <2>4, FillsOn, NothingYet DEF Fills
<1>5. CASE g.state = "Skipping" \/ g.state = "TopLevel" \/ (g.state = "InTopObject" /\ g.key = "stackFrames")
  <2>1. SameFill(g, f)
    BY <1>1, <1>2, <1>5 DEF IsHandler, SameFill, OnStartObject
  <2> QED
    BY <1>2, <2>1, FillsOn DEF SameFill, Fills
<1>6. CASE g.state = "InEvent" /\ g.key = "args"
  <2>1. f = [g EXCEPT !.state = "InArgs", !.argsDepth = 0, !.args = [NoArgs EXCEPT !.given = TRUE]]
    BY <1>2, <1>6 DEF OnStartObject
  <2>2. PICK a : a = [NoArgs EXCEPT !.given = TRUE]
    OBVIOUS
  <2>3. f = [g EXCEPT !.state = "InArgs", !.argsDepth = 0, !.args = a]
    BY <2>1, <2>2
  <2>4. SameFill(g, f)
    BY <1>1, <2>3 DEF IsHandler, SameFill
  <2> QED
    BY <1>2, <2>4, FillsOn DEF SameFill, Fills
<1>7. CASE g.state = "InArgs"
  <2>1. f = [g EXCEPT !.argsDepth = @ + 1, !.args.bad = TRUE]
    BY <1>2, <1>7 DEF OnStartObject
  <2>2. SameFill(g, f)
    BY <1>1, <2>1 DEF IsHandler, SameFill
  <2> QED
    BY <1>2, <2>2, FillsOn DEF SameFill, Fills
<1>8. CASE /\ g.state \notin {"Skipping", "TopLevel", "InStackFrames", "InTraceEvents", "InArgs"}
           /\ ~(g.state = "InTopObject" /\ g.key = "stackFrames") /\ ~(g.state = "InEvent" /\ g.key = "args")
  <2>1. f = Skip(Blemish(g))
    BY <1>2, <1>8 DEF OnStartObject
  <2> QED
    BY <1>2, <2>1, BlemishFills, SkipFills
<1> QED
  BY <1>3, <1>4, <1>5, <1>6, <1>7, <1>8

LEMMA StartArrayFills ==
  ASSUME NEW g, Fills(g)
  PROVE  Fills(OnStartArray(g))
<1>1. IsHandler(g)
  BY DEF Fills
<1>2. PICK f : f = OnStartArray(g)
  OBVIOUS
<1>3. CASE g.state \in {"Skipping", "TopLevel", "InArgs"} \/ (g.state = "InTopObject" /\ g.key = "traceEvents")
  <2>1. SameFill(g, f)
    BY <1>1, <1>2, <1>3 DEF IsHandler, SameFill, OnStartArray
  <2> QED
    BY <1>2, <2>1, FillsOn DEF SameFill, Fills
<1>4. CASE g.state \in {"InEvent", "InStackFrame", "InStackFrames"} \/ (g.state = "InTopObject" /\ g.key # "traceEvents")
  <2>1. f = Skip(Blemish(g))
    BY <1>2, <1>4 DEF OnStartArray
  <2> QED
    BY <1>2, <2>1, BlemishFills, SkipFills
<1>5. CASE g.state \notin {"Skipping", "TopLevel", "InArgs", "InTopObject", "InEvent", "InStackFrame", "InStackFrames"}
  BY <1>2, <1>5 DEF OnStartArray
<1> QED
  BY <1>3, <1>4, <1>5

LEMMA KindedTimed ==
  ASSUME NEW e, IsTimed(e)
  PROVE  IsTimed(Kinded(e))
<1>1. {"kind", "dur", "cpu"} \subseteq EventFields
  BY DEF EventFields
<1>2. CASE e.ph = "P"
  <2>1. PICK c : c = IF e.weight >= 0 /\ UnitScale(e.unit) > 0 THEN e.weight * UnitScale(e.unit) ELSE e.cpu
    OBVIOUS
  <2>2. Kinded(e) = [e EXCEPT !.kind = "Sample", !.dur = 0, !.cpu = c]
    BY <1>2, <2>1 DEF Kinded
  <2>3. PICK d1, d2, d3 : d1 = [e EXCEPT !["kind"] = "Sample"] /\ d2 = [d1 EXCEPT !["dur"] = 0] /\ d3 = [d2 EXCEPT !["cpu"] = c]
    OBVIOUS
  <2>4. IsTimed(d1)
    BY <1>1, <2>3, EventPut
  <2>5. IsTimed(d2)
    <3>1. "dur" \in EventFields /\ 0 \in Int
      BY <1>1
    <3>2. IsTimed([d1 EXCEPT !["dur"] = 0])
      BY <2>4, <3>1, EventPut
    <3> QED
      BY <2>3, <3>2
  <2>6. IsTimed(d3)
    BY <1>1, <2>3, <2>5, EventPut
  <2>7. Kinded(e) = d3
    BY <2>2, <2>3, Zenon
  <2> QED
    BY <2>6, <2>7
<1>3. CASE e.ph # "P"
  <2>1. Kinded(e) = [e EXCEPT !.kind = "SampledSpan"] \/ Kinded(e) = e
    BY <1>3 DEF Kinded
  <2>2. PICK d : d = [e EXCEPT !["kind"] = "SampledSpan"]
    OBVIOUS
  <2>3. IsTimed(d)
    BY <1>1, <2>2, EventPut
  <2>4. Kinded(e) = d \/ Kinded(e) = e
    BY <2>1, <2>2, Zenon
  <2> QED
    BY <2>3, <2>4
<1> QED
  BY <1>2, <1>3

LEMMA FinishKeeps ==
  ASSUME NEW g, IsHandler(g)
  PROVE  /\ FinishEvent(g).frame = g.frame /\ FinishEvent(g).hasName = g.hasName
         /\ FinishEvent(g).event \in {Kinded(g.event), [Kinded(g.event) EXCEPT !.args = g.args]}
<1>1. PICK k, e, f : k = Kinded(g.event) /\ e = [k EXCEPT !.args = g.args] /\ f = FinishEvent(g)
  OBVIOUS
<1>2. CASE e.ph = "M"
  <2>1. PICK r : r = [g EXCEPT !.event = k]
    OBVIOUS
  <2>2. IsHandler(r) /\ r.frame = g.frame /\ r.hasName = g.hasName /\ r.event = k
    BY <2>1 DEF IsHandler
  <2>3. f = Metadata(r)
    BY <1>1, <1>2, <2>1 DEF FinishEvent
  <2>4. PICK processes, threads, labels :
          Metadata(r) = [r EXCEPT !.args = NoArgs, !.model.processes = processes,
                                  !.model.threads = threads, !.model.labels = labels]
    BY DEF Metadata
  <2>5. f.frame = g.frame /\ f.hasName = g.hasName /\ f.event = k
    BY <2>2, <2>3, <2>4 DEF IsHandler
  <2> QED
    BY <1>1, <2>5
<1>3. CASE e.ph # "M"
  <2>1. PICK counters, series, flows, events, processes :
          f = [g EXCEPT !.event = e, !.args = NoArgs, !.counters = counters, !.model.series = series,
                        !.model.flows = flows, !.model.events = events, !.model.processes = processes]
    BY <1>1, <1>3 DEF FinishEvent
  <2>2. f.frame = g.frame /\ f.hasName = g.hasName /\ f.event = e
    BY <2>1 DEF IsHandler
  <2> QED
    BY <1>1, <2>2
<1> QED
  BY <1>2, <1>3

LEMMA EventsFill ==
  ASSUME NEW ev, IsEvents(ev), NEW e, IsTimed(e)
  PROVE  IsEvents(Append(ev, e))
<1>1. PICK q : q = Append(ev, e)
  OBVIOUS
<1>2. Pushed(ev, q, e) /\ Len(ev) \in Nat
  BY <1>1, PathPushed, AppendAdds DEF IsEvents
<1>3. DOMAIN q = 1..Len(q) /\ DOMAIN ev = 1..Len(ev)
  BY <1>2 DEF Pushed, IsSeq, IsEvents
<1>4. ASSUME NEW i \in DOMAIN q PROVE IsTimed(q[i])
  <2>1. i \in DOMAIN ev \/ i = Len(q)
    BY <1>2, <1>3 DEF Pushed
  <2> QED
    BY <1>2, <1>3, <2>1 DEF Pushed, IsEvents, AreTimed
<1> QED
  BY <1>1, <1>2, <1>4 DEF Pushed, IsEvents, AreTimed

LEMMA FramesFill ==
  ASSUME NEW fs, IsFrames(fs), NEW f, IsFrame(f)
  PROVE  IsFrames(Append(fs, f))
<1>1. PICK q : q = Append(fs, f)
  OBVIOUS
<1>2. Pushed(fs, q, f) /\ Len(fs) \in Nat
  BY <1>1, PathPushed, AppendAdds DEF IsFrames
<1>3. ASSUME NEW i \in 1..Len(q) PROVE IsFrame(q[i])
  <2>1. i \in 1..Len(fs) \/ i = Len(q)
    BY <1>2 DEF Pushed
  <2> QED
    BY <1>2, <2>1 DEF Pushed, IsFrames
<1> QED
  BY <1>1, <1>2, <1>3 DEF Pushed, IsFrames

LEMMA FinishFills ==
  ASSUME NEW g, Fills(g)
  PROVE  Fills(FinishEvent(g))
<1>1. IsHandler(g) /\ IsModel(g.model) /\ IsTimed(g.event) /\ IsEvents(g.model.events) /\ IsFrames(g.model.frames)
  BY DEF Fills
<1>2. PICK f, k, e, a : f = FinishEvent(g) /\ k = Kinded(g.event) /\ a = g.args /\ e = [k EXCEPT !.args = a]
  OBVIOUS
<1>3. IsTimed(k)
  BY <1>1, <1>2, KindedTimed
<1>4. IsTimed(e)
  <2>1. "args" \in EventFields
    BY DEF EventFields
  <2>2. PICK d : d = [k EXCEPT !["args"] = a]
    OBVIOUS
  <2>3. IsTimed(d)
    BY <1>3, <2>1, <2>2, EventPut
  <2>4. d = e
    BY <1>2, <2>2, Zenon
  <2> QED
    BY <2>3, <2>4
<1>5. IsHandler(f)
  BY <1>1, <1>2, FinishStays
<1>6. f.frame = g.frame /\ f.hasName = g.hasName /\ f.event \in {k, e}
  BY <1>1, <1>2, FinishKeeps
<1>7. IsEvent(g.event)
  <2>1. PICK d : d = g.event
    OBVIOUS
  <2>2. DOMAIN d = EventFields
    BY <1>1, <2>1 DEF IsTimed
  <2> QED
    BY <2>1, <2>2 DEF IsEvent, EventFields
<1>8. IsModel(f.model) /\ f.model.frames = g.model.frames /\ f.model.events \in {g.model.events, Append(g.model.events, e)}
  <2>1. e = [Kinded(g.event) EXCEPT !.args = g.args]
    BY <1>2
  <2> QED
    BY <1>1, <1>2, <1>7, <2>1, FinishMeans DEF Labelled, Finished
<1>9. IsEvents(f.model.events)
  BY <1>1, <1>4, <1>8, EventsFill
<1> QED
  BY <1>1, <1>2, <1>3, <1>4, <1>5, <1>6, <1>8, <1>9 DEF Fills

LEMMA EndObjectFills ==
  ASSUME NEW g, Fills(g)
  PROVE  Fills(OnEndObject(g))
<1>1. IsHandler(g) /\ IsModel(g.model)
  BY DEF Fills
<1>2. PICK f : f = OnEndObject(g)
  OBVIOUS
<1>3. CASE g.state = "Skipping"
  BY <1>3, UnskipFills DEF OnEndObject
<1>4. CASE g.state = "InStackFrame"
  <2>1. PICK v : v = (g.frame.valid /\ g.hasName)
    OBVIOUS
  <2>2. PICK r : r = [g.frame EXCEPT !["valid"] = v]
    OBVIOUS
  <2>3. v \in BOOLEAN
    BY <2>1, Zenon
  <2>4. IsFrame(r)
    BY <2>2, <2>3, FrameFields, FramePut DEF Fills
  <2>5. f = [g EXCEPT !.state = "InStackFrames", !.model.frames = Append(@, [g.frame EXCEPT !.valid = @ /\ g.hasName])]
    BY <1>2, <1>4 DEF OnEndObject
  <2>6. [g.frame EXCEPT !.valid = @ /\ g.hasName] = r
    BY <2>1, <2>2, Zenon
  <2>7. PICK fs : fs = Append(g.model.frames, r)
    OBVIOUS
  <2>8. f = [g EXCEPT !.state = "InStackFrames", !.model.frames = fs]
    BY <2>5, <2>6, <2>7
  <2>9. IsHandler(f) /\ f.event = g.event /\ f.frame = g.frame /\ f.hasName = g.hasName /\ f.model = [g.model EXCEPT !.frames = fs]
    BY <1>1, <2>8 DEF IsHandler
  <2>10. PICK md : md = f.model
    OBVIOUS
  <2>11. IsModel(md) /\ md.events = g.model.events /\ md.frames = fs
    BY <1>1, <2>9, <2>10 DEF IsModel
  <2>12. IsFrames(fs)
    BY <2>4, <2>7, FramesFill DEF Fills
  <2> QED
    BY <1>2, <2>9, <2>10, <2>11, <2>12 DEF Fills
<1>5. CASE g.state = "InEvent"
  <2>1. PICK r : r = FinishEvent(g)
    OBVIOUS
  <2>2. Fills(r)
    BY <2>1, FinishFills
  <2>3. f = [r EXCEPT !.state = "InTraceEvents"]
    BY <1>2, <1>5, <2>1 DEF OnEndObject
  <2>4. SameFill(r, f)
    BY <2>2, <2>3 DEF Fills, IsHandler, SameFill
  <2> QED
    BY <1>2, <2>2, <2>4, FillsOn DEF SameFill, Fills
<1>6. CASE g.state \in {"InStackFrames", "InArgs", "InTopObject"}
  <2>1. SameFill(g, f)
    BY <1>1, <1>2, <1>6 DEF IsHandler, SameFill, OnEndObject
  <2> QED
    BY <1>2, <2>1, FillsOn DEF SameFill, Fills
<1>7. CASE g.state \notin {"Skipping", "InStackFrame", "InEvent", "InStackFrames", "InArgs", "InTopObject"}
  BY <1>2, <1>7 DEF OnEndObject
<1> QED
  BY <1>3, <1>4, <1>5, <1>6, <1>7

LEMMA EndArrayFills ==
  ASSUME NEW g, Fills(g)
  PROVE  Fills(OnEndArray(g))
<1>1. IsHandler(g)
  BY DEF Fills
<1>2. CASE g.state = "Skipping"
  BY <1>2, UnskipFills DEF OnEndArray
<1>3. CASE g.state # "Skipping"
  <2>1. SameFill(g, OnEndArray(g))
    BY <1>1, <1>3 DEF IsHandler, SameFill, OnEndArray
  <2> QED
    BY <2>1, FillsOn DEF SameFill, Fills
<1> QED
  BY <1>2, <1>3

\* What a token may be.
IsToken(t) ==
  /\ t.is \in {"key", "number", "string", "bare", "startObject", "endObject", "startArray", "endArray"}
  /\ t.is = "number" => t.value \in Int

LEMMA TokenFills ==
  ASSUME NEW g, Fills(g), NEW t, IsToken(t)
  PROVE  Fills(Handle(g, t))
<1>1. CASE t.is = "key"
  BY <1>1, KeyFills DEF Handle
<1>2. CASE t.is = "number"
  BY <1>2, NumberFills DEF Handle, IsToken
<1>3. CASE t.is = "string"
  BY <1>3, StringFills DEF Handle
<1>4. CASE t.is = "bare"
  BY <1>4, BareFills DEF Handle
<1>5. CASE t.is = "startObject"
  BY <1>5, StartObjectFills DEF Handle
<1>6. CASE t.is = "endObject"
  BY <1>6, EndObjectFills DEF Handle
<1>7. CASE t.is = "startArray"
  BY <1>7, StartArrayFills DEF Handle
<1>8. CASE t.is = "endArray"
  BY <1>8, EndArrayFills DEF Handle
<1> QED
  BY <1>1, <1>2, <1>3, <1>4, <1>5, <1>6, <1>7, <1>8 DEF IsToken

LEMMA HandlerFills == Fills(Handler)
<1>1. PICK e, f, a, md, s : e = NoEvent /\ f = NoFrame /\ a = NoArgs /\ md = EmptyModel /\ s = <<>>
  OBVIOUS
<1>2. Handler = [state |-> "TopLevel", skipReturn |-> "TopLevel", skipDepth |-> 0, key |-> Blank,
                 event |-> e, args |-> a, argsDepth |-> 0, counters |-> s, frame |-> f, hasName |-> FALSE, model |-> md]
  BY <1>1 DEF Handler
<1>3. PICK g : g = Handler
  OBVIOUS
<1>4. IsHandler(g) /\ g.event = e /\ g.frame = f /\ g.hasName = FALSE /\ g.model = md
  BY <1>2, <1>3 DEF IsHandler
<1>5. IsModel(md) /\ md.events = <<>> /\ md.frames = <<>>
  BY <1>1 DEF EmptyModel, IsModel
<1>6. DOMAIN <<>> = {} /\ Len(<<>>) = 0
  BY EmptyIsSeq
<1>7. IsEvents(<<>>) /\ IsFrames(<<>>)
  BY <1>6, EmptyIsSeq DEF IsEvents, IsFrames, AreTimed
<1> QED
  BY <1>1, <1>3, <1>4, <1>5, <1>7, NothingYet DEF Fills

-----------------------------------------------------------------------------
(* The program's own trace: times and threads are numbers in every record.   *)
Words == {"X", "C", "file", "line", "func", "value"}
IsRecord(r) == r.ph \in Words /\ r.ts \in Int /\ r.dur \in Int /\ r.tid \in Int /\ r.args \in Seq(Words)
HasRecord(j) == j = Idle \/ IsRecord(j.record)
AreScopes(s) == IsSeq(s) /\ \A k \in 1..Len(s) : s[k].start \in Int
Recorded(f) == \A k \in 1..Len(f) : f[k].what = "record" => IsRecord(f[k])

WritesInv ==
  /\ clock \in Int
  /\ scopes = [t \in Writers |-> scopes[t]] /\ \A t \in Writers : AreScopes(scopes[t])
  /\ \A t \in Writers : HasRecord(job[t])
  /\ Recorded(file)

LEMMA ScopesPushed ==
  ASSUME NEW s, AreScopes(s), NEW c, c.start \in Int
  PROVE  AreScopes(Append(s, c))
<1>1. PICK q : q = Append(s, c)
  OBVIOUS
<1>2. Pushed(s, q, c) /\ Len(s) \in Nat
  BY <1>1, PathPushed, AppendAdds DEF AreScopes
<1>3. ASSUME NEW k \in 1..Len(q) PROVE q[k].start \in Int
  <2>1. k \in 1..Len(s) \/ k = Len(q)
    BY <1>2 DEF Pushed
  <2> QED
    BY <1>2, <2>1 DEF Pushed, AreScopes
<1> QED
  BY <1>1, <1>2, <1>3 DEF Pushed, AreScopes

LEMMA ScopesPopped ==
  ASSUME NEW s, AreScopes(s), s # <<>>
  PROVE  AreScopes(SubSeq(s, 1, Len(s) - 1)) /\ s[Len(s)].start \in Int
<1>1. PICK q : q = Front(s)
  OBVIOUS
<1>2. q \in Seq(ItemsOf(s)) /\ Len(q) = Len(s) - 1 /\ (\A k \in 1..Len(s) - 1 : q[k] = s[k]) /\ Len(s) \in Nat /\ Len(s) > 0
  BY <1>1, FrontOf DEF AreScopes
<1>3. IsSeq(q)
  <2>1. DOMAIN q = 1..Len(q) /\ q = [k \in 1..Len(q) |-> q[k]] /\ Len(q) \in Nat
    BY <1>2
  <2> QED
    BY <2>1, SeqOfItems
<1>4. \A k \in 1..Len(q) : q[k].start \in Int
  BY <1>2 DEF AreScopes
<1>5. q = SubSeq(s, 1, Len(s) - 1)
  BY <1>1 DEF Front
<1>6. Len(s) \in 1..Len(s)
  BY <1>2
<1> QED
  BY <1>3, <1>4, <1>5, <1>6 DEF AreScopes

LEMMA PrintedRecord ==
  ASSUME NEW f, f \in Seq(ItemsOf(f)), Recorded(f), NEW x, x.what = "record" => IsRecord(x)
  PROVE  Recorded(Append(f, x))
<1>1. PICK q : q = Append(f, x)
  OBVIOUS
<1>2. Extended(f, q, x)
  BY <1>1, Printed
<1>3. ASSUME NEW k \in 1..Len(q), q[k].what = "record" PROVE IsRecord(q[k])
  <2>1. k \in 1..Len(f) \/ k = Len(q)
    BY <1>2 DEF Extended
  <2> QED
    BY <1>2, <1>3, <2>1 DEF Extended, Recorded
<1> QED
  BY <1>1, <1>3 DEF Recorded

LEMMA MarksAreNone == \A what : what # "record" => Mark(what).what # "record"
BY DEF Mark

LEMMA IdleHasNone == HasRecord(Idle)
BY DEF HasRecord

LEMMA WritesStart == TracerInit => WritesInv
<1> SUFFICES ASSUME TracerInit PROVE WritesInv
  OBVIOUS
<1>1. clock \in Int /\ file = <<>> /\ scopes = [t \in Writers |-> <<>>] /\ job = [t \in Writers |-> Idle]
  BY DEF TracerInit
<1>2. AreScopes(<<>>) /\ Recorded(<<>>)
  BY EmptyIsSeq DEF AreScopes, Recorded
<1> QED
  BY <1>1, <1>2, IdleHasNone DEF WritesInv

LEMMA WritesStep == TracerInv /\ WritesInv /\ [TracerNext]_tracerVars => WritesInv'
<1> SUFFICES ASSUME TracerInv, WritesInv, [TracerNext]_tracerVars PROVE WritesInv'
  OBVIOUS
<1>0. /\ file \in Seq(ItemsOf(file)) /\ job = [t \in Writers |-> job[t]]
      /\ clock \in Int /\ scopes = [t \in Writers |-> scopes[t]]
      /\ (\A t \in Writers : AreScopes(scopes[t]) /\ HasRecord(job[t])) /\ Recorded(file)
  BY DEF TracerInv, OneWrites, FileGrows, WritesInv
<1>1. CASE UNCHANGED tracerVars
  BY <1>1 DEF tracerVars, WritesInv
<1>2. CASE Tick
  BY <1>0, <1>2 DEF Tick, WritesInv
<1>3. CASE SetOutput
  <2>1. UNCHANGED <<clock, scopes, job>> /\ file' = <<Mark("head")>>
    BY <1>3 DEF SetOutput
  <2>2. Recorded(file')
    BY <2>1, MarksAreNone DEF Recorded
  <2> QED
    BY <1>0, <2>1, <2>2 DEF WritesInv
<1>4. CASE Close
  <2>1. UNCHANGED <<clock, scopes, job>> /\ file' = Append(file, Mark("tail"))
    BY <1>4 DEF Close
  <2>2. Recorded(file')
    BY <1>0, <2>1, MarksAreNone, PrintedRecord
  <2> QED
    BY <1>0, <2>1, <2>2 DEF WritesInv
<1>5. CASE Exit \/ Killed
  <2>1. clock' = 0 /\ file' = file /\ scopes' = [t \in Writers |-> <<>>] /\ job' = [t \in Writers |-> Idle]
    BY <1>5 DEF Exit, Killed, Leave
  <2>2. AreScopes(<<>>)
    BY EmptyIsSeq DEF AreScopes
  <2> QED
    BY <1>0, <2>1, <2>2, IdleHasNone DEF WritesInv
<1>6. ASSUME NEW t \in Writers, EnterScope(t) PROVE WritesInv'
  <2>1. PICK c : c.start = clock /\ scopes' = [scopes EXCEPT ![t] = Append(@, c)] /\ UNCHANGED <<clock, file, job>>
    <3>1. PICK active \in CouldRead :
            scopes' = [scopes EXCEPT ![t] = Append(@, [id |-> begun + 1, start |-> clock, active |-> active, inside |-> Outer(t)])]
      BY <1>6 DEF EnterScope
    <3>2. PICK c : c = [id |-> begun + 1, start |-> clock, active |-> active, inside |-> Outer(t)]
      OBVIOUS
    <3>3. c.start = clock /\ UNCHANGED <<clock, file, job>>
      BY <1>6, <3>2 DEF EnterScope
    <3> QED
      BY <3>1, <3>2, <3>3
  <2>2. AreScopes(Append(scopes[t], c))
    BY <1>0, <2>1, ScopesPushed
  <2>3. scopes' = [u \in Writers |-> IF u = t THEN Append(scopes[t], c) ELSE scopes[u]]
    BY <1>0, <2>1
  <2> QED
    BY <1>0, <2>1, <2>2, <2>3 DEF WritesInv
<1>7. ASSUME NEW t \in Writers, LeaveScope(t) PROVE WritesInv'
  <2>1. PICK s, record : /\ s = scopes[t][Len(scopes[t])]
                         /\ record = [what |-> "record", ph |-> "X", ts |-> s.start, dur |-> clock - s.start, tid |-> t,
                                      id |-> s.id, inside |-> s.inside, args |-> <<"file", "line", "func">>]
    OBVIOUS
  <2>2. PICK new : job' = [job EXCEPT ![t] = new] /\ new \in {[step |-> "lock", record |-> record], Idle}
    BY <1>7, <2>1 DEF LeaveScope
  <2>3. AreScopes(SubSeq(scopes[t], 1, Len(scopes[t]) - 1)) /\ s.start \in Int
    BY <1>0, <1>7, <2>1, ScopesPopped DEF LeaveScope
  <2>4. IsRecord(record)
    <3>1. <<"file", "line", "func">> \in Seq(Words) /\ "X" \in Words
      BY DEF Words
    <3>2. t \in Int
      BY TracerAssumption
    <3> QED
      BY <1>0, <2>1, <2>3, <3>1, <3>2 DEF IsRecord
  <2>5. HasRecord(new)
    BY <2>2, <2>4 DEF HasRecord
  <2>6. PICK q : q = SubSeq(scopes[t], 1, Len(scopes[t]) - 1)
    OBVIOUS
  <2>7. scopes' = [scopes EXCEPT ![t] = q] /\ UNCHANGED <<clock, file>>
    BY <1>7, <2>6 DEF LeaveScope
  <2>8. scopes' = [u \in Writers |-> IF u = t THEN q ELSE scopes[u]] /\ \A u \in Writers : job'[u] = IF u = t THEN new ELSE job[u]
    BY <1>0, <2>2, <2>7
  <2> QED
    BY <1>0, <2>3, <2>5, <2>6, <2>7, <2>8 DEF WritesInv
<1>8. ASSUME NEW t \in Writers, WriteCounter(t) PROVE WritesInv'
  <2>1. PICK record : record = [what |-> "record", ph |-> "C", ts |-> clock, dur |-> 0, tid |-> t,
                                id |-> begun + 1, inside |-> 0, args |-> <<"value">>]
    OBVIOUS
  <2>2. PICK new : job' = [job EXCEPT ![t] = new] /\ new \in {[step |-> "lock", record |-> record], Idle}
    BY <1>8, <2>1 DEF WriteCounter
  <2>3. IsRecord(record)
    <3>1. <<"value">> \in Seq(Words) /\ "C" \in Words
      BY DEF Words
    <3>2. t \in Int
      BY TracerAssumption
    <3> QED
      BY <1>0, <2>1, <3>1, <3>2 DEF IsRecord
  <2>4. HasRecord(new)
    BY <2>2, <2>3 DEF HasRecord
  <2>5. UNCHANGED <<clock, file, scopes>> /\ \A u \in Writers : job'[u] = IF u = t THEN new ELSE job[u]
    BY <1>0, <1>8, <2>2 DEF WriteCounter
  <2> QED
    BY <1>0, <2>4, <2>5 DEF WritesInv
<1>9. ASSUME NEW t \in Writers, Locked(t) \/ Separate(t) PROVE WritesInv'
  <2>1. job[t] # Idle /\ JobOK(job[t])
    BY <1>9 DEF Locked, Separate, Idle, TracerInv, OneWrites
  <2>2. PICK step : \/ job' = [job EXCEPT ![t].step = step]
                    \/ job' = [job EXCEPT ![t] = Idle]
    BY <1>9 DEF Locked, Separate
  <2>3. HasRecord(job'[t])
    <3>1. IsRecord(job[t].record) /\ job[t] = [step |-> job[t].step, record |-> job[t].record]
      BY <1>0, <2>1 DEF HasRecord, JobOK
    <3>2. job'[t] = Idle \/ job'[t] = [job[t] EXCEPT !.step = step]
      BY <1>0, <2>2
    <3>3. job'[t] = Idle \/ job'[t].record = job[t].record
      BY <3>1, <3>2
    <3> QED
      BY <3>1, <3>3 DEF HasRecord
  <2>4. \A u \in Writers : u # t => job'[u] = job[u]
    BY <1>0, <2>2
  <2>5. Recorded(file')
    <3>1. file' = file \/ file' = Append(file, Mark("separator"))
      BY <1>9 DEF Locked, Separate
    <3> QED
      BY <1>0, <3>1, MarksAreNone, PrintedRecord
  <2>6. UNCHANGED <<clock, scopes>>
    BY <1>9 DEF Locked, Separate
  <2> QED
    BY <1>0, <2>3, <2>4, <2>5, <2>6 DEF WritesInv
<1>10. ASSUME NEW t \in Writers, PrintRecord(t) PROVE WritesInv'
  <2>1. UNCHANGED <<clock, scopes>> /\ file' = Append(file, job[t].record) /\ job' = [job EXCEPT ![t] = Idle] /\ job[t] # Idle
    BY <1>10 DEF PrintRecord, Idle
  <2>2. Recorded(file')
    BY <1>0, <2>1, PrintedRecord DEF HasRecord
  <2>3. \A u \in Writers : job'[u] = IF u = t THEN Idle ELSE job[u]
    BY <1>0, <2>1
  <2> QED
    BY <1>0, <2>1, <2>2, <2>3, IdleHasNone DEF WritesInv
<1> QED
  BY <1>1, <1>2, <1>3, <1>4, <1>5, <1>6, <1>7, <1>8, <1>9, <1>10 DEF TracerNext

(* The tokens of the file. *)
Texts == Words \cup {"ph", "name", "cat", "ts", "dur", "pid", "tid", "args", "scope", "app", "x", "us", "displayTimeUnit",
                     "traceEvents"}
KeyTokens == {[is |-> "key", value |-> w] : w \in Texts}
NumberTokens == {Number(i) : i \in Int}
StringTokens == {String(w) : w \in Texts}
BracketTokens == {[is |-> b] : b \in {"startObject", "endObject", "startArray", "endArray"}}
Tokens == KeyTokens \cup NumberTokens \cup StringTokens \cup BracketTokens

LEMMA TokensAreTokens == \A t \in Tokens : IsToken(t)
<1>1. \A t \in KeyTokens : t.is = "key"
  BY DEF KeyTokens
<1>2. \A t \in NumberTokens : t.is = "number" /\ t.value \in Int
  BY DEF NumberTokens, Number
<1>3. \A t \in StringTokens : t.is = "string"
  BY DEF StringTokens, String
<1>4. \A t \in BracketTokens : t.is \in {"startObject", "endObject", "startArray", "endArray"}
  BY DEF BracketTokens
<1> QED
  BY <1>1, <1>2, <1>3, <1>4 DEF Tokens, IsToken

LEMMA MemberTokens ==
  ASSUME NEW k \in Texts, NEW t \in Tokens
  PROVE  Member(k, t) \in Seq(Tokens)
<1>1. [is |-> "key", value |-> k] \in Tokens
  BY DEF Tokens, KeyTokens
<1>2. PICK u : u = [is |-> "key", value |-> k]
  OBVIOUS
<1>3. Member(k, t) = <<u, t>>
  BY <1>2 DEF Member
<1> QED
  BY <1>1, <1>2, <1>3

IsJoined(g, parts, n) == g = [k \in 0..n |-> IF k = 0 THEN <<>> ELSE g[k - 1] \o parts[k]]

LEMMA JoinedIs ==
  ASSUME NEW S, NEW n \in Nat, NEW parts \in [1..n -> Seq(S)]
  PROVE  (\E g : IsJoined(g, parts, n)) /\ \A g : IsJoined(g, parts, n) => g[n] \in Seq(S)
<1>1. PICK step : step = [k \in 1..n |-> [q \in Seq(S) |-> q \o parts[k]]]
  OBVIOUS
<1>2. step \in [1..n -> [Seq(S) -> Seq(S)]]
  BY <1>1
<1>3. <<>> \in Seq(S)
  OBVIOUS
<1>4. PICK f \in [0..n -> Seq(S)] : IsFold(f, <<>>, step, n)
  BY <1>2, <1>3, FoldExists
<1>5. IsJoined(f, parts, n)
  <2>1. ASSUME NEW k \in 0..n PROVE f[k] = IF k = 0 THEN <<>> ELSE f[k - 1] \o parts[k]
    <3>1. f[k] = IF k = 0 THEN <<>> ELSE step[k][f[k - 1]]
      BY <1>4 DEF IsFold
    <3>2. k # 0 => k \in 1..n /\ k - 1 \in 0..n /\ f[k - 1] \in Seq(S)
      BY <1>4
    <3> QED
      BY <1>1, <3>1, <3>2
  <2>2. f = [k \in 0..n |-> f[k]]
    BY <1>4
  <2> QED
    BY <2>1, <2>2 DEF IsJoined
<1>6. ASSUME NEW g, IsJoined(g, parts, n) PROVE g[n] \in Seq(S)
  <2>1. g[0] \in Seq(S)
    BY <1>6 DEF IsJoined
  <2>2. ASSUME NEW k \in 1..n, g[k - 1] \in Seq(S) PROVE g[k] \in Seq(S)
    <3>1. k \in 0..n /\ k # 0 /\ parts[k] \in Seq(S)
      OBVIOUS
    <3>2. g[k] = g[k - 1] \o parts[k]
      BY <1>6, <3>1 DEF IsJoined
    <3> QED
      BY <2>2, <3>1, <3>2
  <2> QED
    BY <2>1, <2>2, FoldStays
<1> QED
  BY <1>5, <1>6

ArgSteps(g, args) == g = [k \in 0..Len(args) |-> IF k = 0 THEN <<>> ELSE g[k - 1] \o ArgMember(args[k])]

LEMMA ArgTokens ==
  ASSUME NEW args \in Seq(Words)
  PROVE  Through(LAMBDA tokens, k : tokens \o ArgMember(k), <<>>, args) \in Seq(Tokens)
<1>1. PICK n \in Nat : n = Len(args)
  OBVIOUS
<1>2. ASSUME NEW k \in Words PROVE ArgMember(k) \in Seq(Tokens)
  <2>1. Number(1) \in Tokens /\ String("x") \in Tokens /\ k \in Texts
    BY DEF Tokens, NumberTokens, StringTokens, Texts
  <2> QED
    BY <2>1, MemberTokens DEF ArgMember
<1>3. PICK parts : parts = [k \in 1..n |-> ArgMember(args[k])]
  OBVIOUS
<1>4. parts \in [1..n -> Seq(Tokens)]
  BY <1>1, <1>2, <1>3
<1>5. \A g : ArgSteps(g, args) <=> IsJoined(g, parts, n)
  <2>1. \A g : [k \in 0..n |-> IF k = 0 THEN <<>> ELSE g[k - 1] \o ArgMember(args[k])]
               = [k \in 0..n |-> IF k = 0 THEN <<>> ELSE g[k - 1] \o parts[k]]
    BY <1>3
  <2> QED
    BY <1>1, <2>1 DEF ArgSteps, IsJoined
<1>6. PICK g : g = CHOOSE x : ArgSteps(x, args)
  OBVIOUS
<1>7. ArgSteps(g, args)
  <2>1. \E x : ArgSteps(x, args)
    BY <1>4, <1>5, JoinedIs
  <2> QED
    BY <1>6, <2>1
<1>8. g[n] \in Seq(Tokens)
  BY <1>4, <1>5, <1>7, JoinedIs
<1>9. Through(LAMBDA tokens, k : tokens \o ArgMember(k), <<>>, args) = g[Len(args)]
  BY <1>6 DEF Through, ArgSteps
<1> QED
  BY <1>1, <1>8, <1>9

LEMMA RecordTokens ==
  ASSUME NEW r, IsRecord(r)
  PROVE  TokensOf(r) \in Seq(Tokens)
<1>1. PICK args : args = Through(LAMBDA tokens, k : tokens \o ArgMember(k), <<>>, r.args)
  OBVIOUS
<1>2. args \in Seq(Tokens)
  BY <1>1, ArgTokens DEF IsRecord
<1>3. PICK so, eo, ka : so = [is |-> "startObject"] /\ eo = [is |-> "endObject"] /\ ka = [is |-> "key", value |-> "args"]
  OBVIOUS
<1>4. so \in Tokens /\ eo \in Tokens /\ ka \in Tokens
  BY <1>3 DEF Tokens, BracketTokens, KeyTokens, Texts
<1>5. \A i \in Int : Number(i) \in Tokens
  BY DEF Tokens, NumberTokens
<1>6. \A w \in Texts : String(w) \in Tokens
  BY DEF Tokens, StringTokens
<1>7. PICK ph, name, cat, ts, dur, pid, tid :
        /\ ph = Member("ph", String(r.ph)) /\ name = Member("name", String("scope")) /\ cat = Member("cat", String("app"))
        /\ ts = Member("ts", Number(r.ts)) /\ dur = (IF r.ph = "X" THEN Member("dur", Number(r.dur)) ELSE <<>>)
        /\ pid = Member("pid", Number(1)) /\ tid = Member("tid", Number(r.tid))
  OBVIOUS
<1>8. {"ph", "name", "cat", "ts", "dur", "pid", "tid", "scope", "app", r.ph} \subseteq Texts
  BY DEF Texts, IsRecord
<1>9. ph \in Seq(Tokens) /\ name \in Seq(Tokens) /\ cat \in Seq(Tokens)
  BY <1>6, <1>7, <1>8, MemberTokens
<1>10. ts \in Seq(Tokens) /\ pid \in Seq(Tokens) /\ tid \in Seq(Tokens)
  <2>1. Number(r.ts) \in Tokens /\ Number(1) \in Tokens /\ Number(r.tid) \in Tokens
    BY <1>5 DEF IsRecord
  <2> QED
    BY <1>7, <1>8, <2>1, MemberTokens
<1>11. dur \in Seq(Tokens)
  <2>1. Number(r.dur) \in Tokens
    BY <1>5 DEF IsRecord
  <2>2. Member("dur", Number(r.dur)) \in Seq(Tokens)
    BY <1>8, <2>1, MemberTokens
  <2> QED
    BY <1>7, <2>2
<1>12. TokensOf(r) = <<so>> \o ph \o name \o cat \o ts \o dur \o pid \o tid \o <<ka, so>> \o args \o <<eo, eo>>
  BY <1>1, <1>3, <1>7 DEF TokensOf
<1>13. \A a, b \in Seq(Tokens) : a \o b \in Seq(Tokens)
  OBVIOUS
<1>14. <<so>> \in Seq(Tokens) /\ <<ka, so>> \in Seq(Tokens) /\ <<eo, eo>> \in Seq(Tokens)
  BY <1>4
<1>15. <<so>> \o ph \o name \o cat \o ts \in Seq(Tokens)
  BY <1>9, <1>10, <1>13, <1>14
<1>16. <<so>> \o ph \o name \o cat \o ts \o dur \o pid \o tid \in Seq(Tokens)
  BY <1>10, <1>11, <1>13, <1>15
<1> QED
  BY <1>2, <1>12, <1>13, <1>14, <1>16

RecordSteps(g, rs) == g = [k \in 0..Len(rs) |-> IF k = 0 THEN <<>> ELSE g[k - 1] \o TokensOf(rs[k])]

LEMMA AllTokens ==
  ASSUME NEW n \in Nat, NEW rs, Len(rs) = n, \A k \in 1..n : IsRecord(rs[k])
  PROVE  Through(LAMBDA tokens, r : tokens \o TokensOf(r), <<>>, rs) \in Seq(Tokens)
<1>3. PICK parts : parts = [k \in 1..n |-> TokensOf(rs[k])]
  OBVIOUS
<1>4. parts \in [1..n -> Seq(Tokens)]
  BY <1>3, RecordTokens
<1>5. \A g : RecordSteps(g, rs) <=> IsJoined(g, parts, n)
  <2>1. \A g : [k \in 0..n |-> IF k = 0 THEN <<>> ELSE g[k - 1] \o TokensOf(rs[k])]
               = [k \in 0..n |-> IF k = 0 THEN <<>> ELSE g[k - 1] \o parts[k]]
    BY <1>3
  <2> QED
    BY <2>1 DEF RecordSteps, IsJoined
<1>6. PICK g : g = CHOOSE x : RecordSteps(x, rs)
  OBVIOUS
<1>7. RecordSteps(g, rs)
  <2>1. \E x : RecordSteps(x, rs)
    BY <1>4, <1>5, JoinedIs
  <2> QED
    BY <1>6, <2>1
<1>8. g[n] \in Seq(Tokens)
  BY <1>4, <1>5, <1>7, JoinedIs
<1>9. Through(LAMBDA tokens, r : tokens \o TokensOf(r), <<>>, rs) = g[Len(rs)]
  BY <1>6 DEF Through, RecordSteps
<1> QED
  BY <1>8, <1>9

KeptOf(q, f, P) == Len(q) \in Nat /\ \A k \in 1..Len(q) : \E i \in P : q[k] = f[i]

\* The items kept of a sequence are at the positions they are kept for.
LEMMA KeptItems ==
  ASSUME NEW n \in Nat, NEW P \in SUBSET (1..n), NEW f
  PROVE  KeptOf(Kept(f, P), f, P)
<1>1. IsFiniteSet(P)
  <2>1. IsFiniteSet(1..n)
    BY FS_Interval
  <2> QED
    BY <2>1, FS_Subset
<1>2. PICK R : R = {p \in P \X P : p[1] < p[2]}
  OBVIOUS
<1>3. Orders(R, P)
  <2>1. \A x, y \in P : <<x, y>> \in R <=> x < y
    BY <1>2
  <2>2. \A x \in P : x \in Int
    OBVIOUS
  <2>3. ASSUME NEW x \in P, NEW y \in P, NEW z \in P, <<x, y>> \in R, <<y, z>> \in R PROVE <<x, z>> \in R
    BY <2>1, <2>2, <2>3
  <2>4. ASSUME NEW x \in P, NEW y \in P, x # y PROVE <<x, y>> \in R \/ <<y, x>> \in R
    BY <2>1, <2>2, <2>4
  <2>5. ASSUME NEW x \in P PROVE <<x, x>> \notin R
    BY <2>1, <2>2
  <2> QED
    BY <2>3, <2>4, <2>5 DEF Orders
<1>4. PICK at : at = Sorted(P, R)
  OBVIOUS
<1>5. at \in Seq(P)
  BY <1>1, <1>3, <1>4, SortedSorts DEF Sorts
<1>6. PICK m \in Nat : m = Len(at)
  BY <1>5
<1>7. Kept(f, P) = [k \in 1..m |-> f[at[k]]]
  <2>1. Kept(f, P) = [k \in DOMAIN at |-> f[at[k]]]
    BY <1>2, <1>4 DEF Kept, InOrder
  <2>2. DOMAIN at = 1..m
    BY <1>5, <1>6
  <2> QED
    BY <2>1, <2>2
<1>8. PICK q : q = Kept(f, P)
  OBVIOUS
<1>9. q = [k \in 1..m |-> q[k]] /\ DOMAIN q = 1..m /\ \A k \in 1..m : q[k] = f[at[k]] /\ at[k] \in P
  BY <1>5, <1>6, <1>7, <1>8
<1>10. Len(q) = m
  BY <1>9, SeqOfItems
<1> QED
  BY <1>8, <1>9, <1>10 DEF KeptOf

LEMMA FileTokensAre ==
  ASSUME file \in Seq(ItemsOf(file)), Recorded(file)
  PROVE  FileTokens \in Seq(Tokens)
<1>1. PICK n \in Nat : n = Len(file)
  OBVIOUS
<1>2. PICK P : P = {k \in DOMAIN file : file[k].what = "record"}
  OBVIOUS
<1>3. P \in SUBSET (1..n)
  BY <1>1, <1>2
<1>4. PICK rs : rs = Records(file)
  OBVIOUS
<1>5. rs = Kept(file, P)
  BY <1>2, <1>4 DEF Records
<1>6. Len(rs) \in Nat /\ \A k \in 1..Len(rs) : \E i \in P : rs[k] = file[i]
  <2>1. KeptOf(Kept(file, P), file, P)
    BY <1>3, KeptItems
  <2> QED
    BY <1>5, <2>1 DEF KeptOf
<1>7. \A k \in 1..Len(rs) : IsRecord(rs[k])
  BY <1>1, <1>2, <1>3, <1>6 DEF Recorded
<1>8. PICK body : body = Through(LAMBDA tokens, r : tokens \o TokensOf(r), <<>>, rs)
  OBVIOUS
<1>9. body \in Seq(Tokens)
  BY <1>6, <1>7, <1>8, AllTokens
<1>10. PICK so, eo, sa, ea, kt : /\ so = [is |-> "startObject"] /\ eo = [is |-> "endObject"] /\ sa = [is |-> "startArray"]
                                 /\ ea = [is |-> "endArray"] /\ kt = [is |-> "key", value |-> "traceEvents"]
  OBVIOUS
<1>11. so \in Tokens /\ eo \in Tokens /\ sa \in Tokens /\ ea \in Tokens /\ kt \in Tokens
  BY <1>10 DEF Tokens, BracketTokens, KeyTokens, Texts
<1>12. PICK unit : unit = Member("displayTimeUnit", String("us"))
  OBVIOUS
<1>13. unit \in Seq(Tokens)
  <2>1. "displayTimeUnit" \in Texts /\ "us" \in Texts
    BY DEF Texts
  <2>2. String("us") \in Tokens
    BY <2>1 DEF Tokens, StringTokens
  <2> QED
    BY <1>12, <2>1, <2>2, MemberTokens
<1>14. FileTokens = <<so, kt, sa>> \o body \o <<ea>> \o unit \o <<eo>>
  BY <1>4, <1>8, <1>10, <1>12 DEF FileTokens
<1>15. \A a, b \in Seq(Tokens) : a \o b \in Seq(Tokens)
  OBVIOUS
<1>16. <<so, kt, sa>> \in Seq(Tokens) /\ <<ea>> \in Seq(Tokens) /\ <<eo>> \in Seq(Tokens)
  BY <1>11
<1> QED
  BY <1>9, <1>13, <1>14, <1>15, <1>16

(* A text is handled token by token. *)
HandleSteps(g, ts) == g = [k \in 0..Len(ts) |-> IF k = 0 THEN Handler ELSE Handle(g[k - 1], ts[k])]

LEMMA HandlingExists ==
  ASSUME NEW ts \in Seq(Tokens)
  PROVE  \E g : HandleSteps(g, ts)
<1>1. PICK n \in Nat : n = Len(ts)
  OBVIOUS
<1> DEFINE Upto(g, m) == g = [k \in 0..m |-> IF k = 0 THEN Handler ELSE Handle(g[k - 1], ts[k])]
           S == {m \in 0..n : \E g : Upto(g, m)}
<1>2. 0 \in S
  <2>1. PICK g : g = [k \in 0..0 |-> Handler]
    OBVIOUS
  <2>2. g = [k \in 0..0 |-> IF k = 0 THEN Handler ELSE Handle(g[k - 1], ts[k])]
    BY <2>1
  <2> QED
    BY <2>2
<1>3. ASSUME NEW m \in 0..n, m \in S, m < n PROVE m + 1 \in S
  <2>1. PICK g : g = [k \in 0..m |-> IF k = 0 THEN Handler ELSE Handle(g[k - 1], ts[k])]
    BY <1>3
  <2>2. PICK f : f = [k \in 0..m + 1 |-> IF k = m + 1 THEN Handle(g[m], ts[m + 1]) ELSE g[k]]
    OBVIOUS
  <2>3. ASSUME NEW k \in 0..m + 1 PROVE f[k] = IF k = 0 THEN Handler ELSE Handle(f[k - 1], ts[k])
    <3>1. CASE k = m + 1
      <4>1. m + 1 # 0 /\ m \in 0..m + 1 /\ m # m + 1 /\ (m + 1) - 1 = m
        OBVIOUS
      <4>2. f[m] = g[m]
        BY <2>2, <4>1
      <4>3. f[k] = Handle(g[m], ts[m + 1])
        BY <2>2, <3>1
      <4> QED
        BY <3>1, <4>1, <4>2, <4>3
    <3>2. CASE k # m + 1
      <4>1. k \in 0..m /\ f[k] = g[k]
        BY <2>2, <3>2
      <4>2. g[k] = IF k = 0 THEN Handler ELSE Handle(g[k - 1], ts[k])
        BY <2>1, <4>1
      <4>3. k # 0 => k - 1 \in 0..m + 1 /\ k - 1 # m + 1
        BY <4>1
      <4>4. k # 0 => f[k - 1] = g[k - 1]
        BY <2>2, <4>3
      <4> QED
        BY <4>1, <4>2, <4>4
    <3> QED
      BY <3>1, <3>2
  <2>4. f = [k \in 0..m + 1 |-> f[k]]
    BY <2>2
  <2>5. f = [k \in 0..m + 1 |-> IF k = 0 THEN Handler ELSE Handle(f[k - 1], ts[k])]
    BY <2>3, <2>4
  <2>6. m + 1 \in 0..n
    BY <1>3
  <2> QED
    BY <2>5, <2>6
<1> HIDE DEF S
<1>4. \A m \in 0..n : m \in S
  BY <1>2, <1>3, UpTo
<1>5. \E g : Upto(g, n)
  <2>1. n \in S
    BY <1>4
  <2> QED
    BY <2>1 DEF S
<1> QED
  BY <1>1, <1>5 DEF HandleSteps

LEMMA AfterAllFills ==
  ASSUME NEW ts \in Seq(Tokens)
  PROVE  Fills(AfterAll(ts))
<1>1. PICK n \in Nat : n = Len(ts)
  OBVIOUS
<1>2. PICK g : g = CHOOSE x : HandleSteps(x, ts)
  OBVIOUS
<1>3. HandleSteps(g, ts)
  BY <1>2, HandlingExists
<1>4. AfterAll(ts) = g[Len(ts)]
  BY <1>2 DEF AfterAll, HandleSteps
<1> DEFINE S == {k \in 0..n : Fills(g[k])}
<1>5. \A k \in 0..n : g[k] = IF k = 0 THEN Handler ELSE Handle(g[k - 1], ts[k])
  BY <1>1, <1>3 DEF HandleSteps
<1>6. 0 \in S
  <2>1. g[0] = Handler
    BY <1>5
  <2> QED
    BY <2>1, HandlerFills
<1>7. ASSUME NEW k \in 0..n, k \in S, k < n PROVE k + 1 \in S
  <2>1. k + 1 \in 0..n /\ k + 1 # 0 /\ (k + 1) - 1 = k /\ ts[k + 1] \in Tokens
    BY <1>1, <1>7
  <2>2. g[k + 1] = Handle(g[k], ts[k + 1])
    BY <1>5, <2>1
  <2>3. Fills(Handle(g[k], ts[k + 1]))
    BY <1>7, <2>1, TokensAreTokens, TokenFills
  <2> QED
    BY <2>1, <2>2, <2>3
<1> HIDE DEF S
<1>8. \A k \in 0..n : k \in S
  BY <1>6, <1>7, UpTo
<1>9. n \in S
  BY <1>8
<1> QED
  BY <1>1, <1>4, <1>9 DEF S

-----------------------------------------------------------------------------
(* The index is built from what has been filled. *)
IsIndex(m) ==
  \E n \in Nat : DOMAIN m.events = 1..n /\ m.events = [i \in 1..n |-> m.events[i]] /\ AreTimed(m.events) /\ FindsAll(m)
FilledInv == Fills(h) /\ (phase = "indexed" => IsIndex(index))

LEMMA IndexBuilt ==
  ASSUME NEW n \in Nat, NEW ev, DOMAIN ev = 1..n, AreTimed(ev), NEW frames
  PROVE  IsIndex(BuildIndex(ev, frames))
<1>1. PICK m : m = BuildIndex(ev, frames)
  OBVIOUS
<1>2. IndexOf(m, ev, ResolveFrames(frames), n)
  BY <1>1, IndexIs
<1>3. m.events = [i \in 1..n |-> m.events[i]] /\ AreTimed(m.events) /\ FindsAll(m)
  BY <1>2 DEF IndexOf
<1>4. DOMAIN m.events = 1..n
  BY <1>3
<1> QED
  BY <1>1, <1>3, <1>4 DEF IsIndex

LEMMA EventsIndexedAre ==
  ASSUME NEW ev, IsEvents(ev), NEW frames
  PROVE  IsIndex(BuildIndex(ev, frames))
<1>1. PICK n \in Nat : DOMAIN ev = 1..n
  BY DEF IsEvents, IsSeq
<1> QED
  BY <1>1, IndexBuilt DEF IsEvents

LEMMA DraftIsTimed ==
  ASSUME NEW e, IsDraft(e)
  PROVE  IsTimed(e)
<1>1. PICK d : d = NoEvent
  OBVIOUS
<1>2. DOMAIN d = EventFields
  BY <1>1 DEF NoEvent, EventFields
<1> QED
  BY <1>1, <1>2 DEF IsDraft, IsTimed, HasTimes

LEMMA FilledInit == Init => FilledInv
BY HandlerFills DEF Init, FilledInv

LEMMA FilledNext == TracerInv /\ WritesInv /\ PlaceInv /\ FilledInv /\ [Next]_vars => FilledInv'
<1> SUFFICES ASSUME TracerInv, WritesInv, PlaceInv, FilledInv, [Next]_vars PROVE FilledInv'
  OBVIOUS
<1>0. Fills(h) /\ (phase = "indexed" => IsIndex(index))
  BY DEF FilledInv
<1>1. CASE UNCHANGED <<phase, h, index>>
  BY <1>0, <1>1 DEF FilledInv
<1>2. ASSUME NEW t, IsToken(t), Feed(t) PROVE FilledInv'
  <2>1. h' = Handle(h, t) /\ UNCHANGED <<phase, index>>
    BY <1>2 DEF Feed
  <2>2. Fills(h')
    BY <1>0, <1>2, <2>1, TokenFills
  <2> QED
    BY <1>0, <2>1, <2>2 DEF FilledInv
<1>3. CASE Key
  <2>1. PICK k : Feed([is |-> "key", value |-> k])
    BY <1>3 DEF Key
  <2>2. IsToken([is |-> "key", value |-> k])
    BY DEF IsToken
  <2> QED
    BY <1>2, <2>1, <2>2
<1>4. CASE Scalar
  <2>1. source = "document"
    BY <1>4 DEF Scalar, Reading
  <2>2. InPlace(h, path, meant)
    BY <2>1 DEF PlaceInv
  <2>3. PICK t : IsScalar(t) /\ h' = Handle(h, t)
    BY <1>4, <2>2, ScalarToken
  <2>4. IsToken(t)
    <3>1. t = Number(t.value) => t.is = "number"
      BY DEF Number
    <3>2. t = String(t.value) => t.is = "string"
      BY DEF String
    <3> QED
      BY <2>3, <3>1, <3>2 DEF IsScalar, IsToken
  <2>5. UNCHANGED <<phase, index>>
    BY <1>4 DEF Scalar, Feed
  <2>6. Fills(h')
    BY <1>0, <2>3, <2>4, TokenFills
  <2> QED
    BY <1>0, <2>5, <2>6 DEF FilledInv
<1>5. ASSUME NEW is \in {"object", "array"}, Open(is) PROVE FilledInv'
  <2>1. Feed(OpenToken(is))
    BY <1>5 DEF Open, OpenToken
  <2>2. IsToken(OpenToken(is))
    BY DEF OpenToken, IsToken
  <2> QED
    BY <1>2, <2>1, <2>2
<1>6. CASE Shut
  <2>1. PICK is : is = Inner.is
    OBVIOUS
  <2>2. Feed(EndToken(is))
    BY <1>6, <2>1 DEF Shut, EndToken
  <2>3. IsToken(EndToken(is))
    BY DEF EndToken, IsToken
  <2> QED
    BY <1>2, <2>2, <2>3
<1>7. CASE Finish
  <2>1. h' = h /\ index' = BuildIndex(h.model.events, h.model.frames)
    BY <1>7 DEF Finish
  <2>2. IsIndex(index')
    BY <1>0, <2>1, EventsIndexedAre DEF Fills
  <2> QED
    BY <1>0, <2>1, <2>2 DEF FilledInv
<1>8. CASE CutShort
  BY <1>0, <1>8 DEF CutShort, FilledInv
<1>9. CASE ReadSelf
  <2>1. CASE Complete(file)
    <3>1. h' = AfterAll(FileTokens) /\ index' = BuildIndex(h'.model.events, h'.model.frames)
      BY <1>9, <2>1 DEF ReadSelf
    <3>2. Fills(h')
      BY <3>1, FileTokensAre, AfterAllFills DEF TracerInv, FileGrows, WritesInv
    <3>3. IsIndex(index')
      BY <3>1, <3>2, EventsIndexedAre DEF Fills
    <3> QED
      BY <3>2, <3>3 DEF FilledInv
  <2>2. CASE ~Complete(file)
    <3>1. h' = Handler /\ phase' = "refused"
      BY <1>9, <2>2 DEF ReadSelf
    <3> QED
      BY <3>1, HandlerFills DEF FilledInv
  <2> QED
    BY <2>1, <2>2
<1>10. CASE AddEvent
  <2>1. PICK e \in Drafts : h' = [h EXCEPT !.model.events = Append(@, e)]
    BY <1>10 DEF AddEvent
  <2>2. phase' = "filling"
    BY <1>10 DEF AddEvent
  <2>3. IsTimed(e)
    BY ReaderAssumption, DraftIsTimed
  <2>4. PICK g, ev : g = h /\ ev = Append(h.model.events, e)
    OBVIOUS
  <2>5. h' = [g EXCEPT !.model.events = ev] /\ IsEvents(ev) /\ Fills(g)
    BY <1>0, <2>1, <2>3, <2>4, EventsFill DEF Fills
  <2>6. PICK f, md : f = h' /\ md = h'.model
    OBVIOUS
  <2>7. IsHandler(f) /\ f.event = g.event /\ f.frame = g.frame /\ f.hasName = g.hasName /\ f.model = [g.model EXCEPT !.events = ev]
    BY <2>5, <2>6 DEF Fills, IsHandler
  <2>8. IsModel(md) /\ md.events = ev /\ md.frames = g.model.frames
    BY <2>5, <2>6, <2>7 DEF Fills, IsModel
  <2>9. Fills(f)
    BY <2>5, <2>6, <2>7, <2>8 DEF Fills
  <2> QED
    BY <2>2, <2>6, <2>9 DEF FilledInv
<1>11. CASE BuildAll
  <2>1. PICK frames \in FrameSets : h' = [h EXCEPT !.model.frames = frames] /\ index' = BuildIndex(h.model.events, frames)
    BY <1>11 DEF BuildAll
  <2>2. IsFrames(frames)
    <3>1. /\ frames = [f \in 1..Len(frames) |-> frames[f]] /\ Len(frames) \in Nat
          /\ \A f \in 1..Len(frames) : IsFrame(frames[f])
      BY ReaderAssumption
    <3>2. DOMAIN frames = 1..Len(frames)
      BY <3>1
    <3> QED
      BY <3>1, <3>2, SeqOfItems DEF IsFrames
  <2>3. IsIndex(index')
    BY <1>0, <2>1, EventsIndexedAre DEF Fills
  <2>4. PICK g, f, md : g = h /\ f = h' /\ md = h'.model
    OBVIOUS
  <2>5. IsHandler(f) /\ f.event = g.event /\ f.frame = g.frame /\ f.hasName = g.hasName /\ f.model = [g.model EXCEPT !.frames = frames]
    BY <1>0, <2>1, <2>4 DEF Fills, IsHandler
  <2>6. IsModel(md) /\ md.frames = frames /\ md.events = g.model.events
    BY <1>0, <2>4, <2>5 DEF Fills, IsModel
  <2>7. Fills(f)
    BY <1>0, <2>2, <2>4, <2>5, <2>6 DEF Fills
  <2> QED
    BY <2>3, <2>4, <2>7 DEF FilledInv
<1>12. CASE Rebuild
  <2>1. IsIndex(index) /\ h' = h
    BY <1>0, <1>12 DEF Rebuild
  <2>2. PICK frames : index' = BuildIndex(index.events, frames)
    BY <1>12 DEF Rebuild
  <2>3. IsIndex(index')
    <3>1. PICK ev : ev = index.events
      OBVIOUS
    <3>2. PICK n \in Nat : DOMAIN ev = 1..n /\ AreTimed(ev)
      BY <2>1, <3>1 DEF IsIndex
    <3> QED
      BY <2>2, <3>1, <3>2, IndexBuilt
  <2> QED
    BY <1>0, <2>1, <2>3 DEF FilledInv
<1>13. UNCHANGED vars \/ (source = "self" /\ TracerNext /\ UNCHANGED <<source, phase, h, docVars, index>>) => UNCHANGED <<phase, h, index>>
  BY DEF vars
<1> QED
  BY <1>1, <1>3, <1>4, <1>5, <1>6, <1>7, <1>8, <1>9, <1>10, <1>11, <1>12, <1>13 DEF Next

\* The tracer's own steps, seen from the whole.
LEMMA NextTraces == [Next]_vars => [TracerNext]_tracerVars
BY DEF Next, vars, Key, Scalar, Open, Shut, Feed, Finish, CutShort, ReadSelf, AddEvent, BuildAll, Rebuild

\* Whatever is read and however often it is indexed again, the blocks of a thread
\* give back every event that touches a window, and nothing else (BlockIndex::query):
\* for any events, blocks of any size and any window.
THEOREM NothingIsLost == Spec => []IndexLosesNothing
<1> DEFINE Inv == TracerInv /\ WritesInv /\ PlaceInv /\ FilledInv
<1>1. Init => Inv
  BY InitInv, WritesStart, PlaceInit, FilledInit DEF Init
<1>2. Inv /\ [Next]_vars => Inv'
  BY NextTraces, Inductive, WritesStep, PlaceNext, FilledNext
<1>3. Inv => IndexLosesNothing
  <2> SUFFICES ASSUME FilledInv, phase = "indexed", NEW th \in DOMAIN index.order,
                      NEW start \in index.minTs..index.maxTs, NEW end \in index.minTs..index.maxTs, start <= end
               PROVE  Touching(index, th, start, end)
                        = {k \in DOMAIN index.order[th] : LET e == Ev(index.order[th][k]) IN e.ts <= end /\ End(e) >= start}
    BY DEF IndexLosesNothing, Indexed
  <2>1. FindsAll(index)
    BY DEF FilledInv, IsIndex
  <2>2. start \in Int /\ end \in Int
    BY InInterval
  <2> QED
    BY <2>1, <2>2 DEF FindsAll, Ev
<1> QED
  BY <1>1, <1>2, <1>3, PTL DEF Spec

-----------------------------------------------------------------------------
(* Stacks: the frames of an index are the reader's, resolved.                *)
Stacked(m, F) == \E n \in Nat : IsFrameList(F, n) /\ Whole(m.frames, F, n) /\ SamplesNamed(m)
StackedInv == phase = "indexed" => Stacked(index, h.model.frames)

LEMMA FramesAreList ==
  ASSUME NEW fs, IsFrames(fs)
  PROVE  \E n \in Nat : IsFrameList(fs, n)
<1>1. PICK n : n = Len(fs)
  OBVIOUS
<1>2. n \in Nat /\ fs = [f \in 1..n |-> fs[f]]
  BY <1>1 DEF IsFrames, IsSeq
<1>3. ASSUME NEW f \in 1..n PROVE IsStackFrame(fs[f])
  <2>1. IsFrame(fs[f])
    BY <1>1 DEF IsFrames
  <2> QED
    BY <2>1, FrameFields DEF IsFrame, IsStackFrame, FrameKeys
<1> QED
  BY <1>1, <1>2, <1>3 DEF IsFrameList

LEMMA StacksBuilt ==
  ASSUME NEW l \in Nat, NEW ev, DOMAIN ev = 1..l, AreTimed(ev),
         NEW n \in Nat, NEW F, IsFrameList(F, n), NEW E, Whole(ResolveFrames(E), F, n)
  PROVE  Stacked(BuildIndex(ev, E), F)
<1>1. PICK m, R : m = BuildIndex(ev, E) /\ R = ResolveFrames(E)
  OBVIOUS
<1>2. IndexOf(m, ev, R, l)
  BY <1>1, IndexIs
<1>3. DOMAIN R = 1..n
  BY <1>1 DEF Whole, IsFrameList
<1>4. SamplesNamed(m)
  BY <1>2, <1>3, SamplesAreNamed
<1>5. m.frames = R
  BY <1>2 DEF IndexOf
<1>6. Whole(m.frames, F, n)
  BY <1>1, <1>5
<1> QED
  BY <1>1, <1>4, <1>6 DEF Stacked

LEMMA StacksFirst ==
  ASSUME NEW ev, IsEvents(ev), NEW F, IsFrames(F)
  PROVE  Stacked(BuildIndex(ev, F), F)
<1>1. PICK l \in Nat : DOMAIN ev = 1..l
  BY DEF IsEvents, IsSeq
<1>2. PICK n \in Nat : IsFrameList(F, n)
  BY FramesAreList
<1>3. Whole(ResolveFrames(F), F, n)
  BY <1>2, WholeFirst
<1>4. AreTimed(ev)
  BY DEF IsEvents
<1> QED
  BY <1>1, <1>2, <1>3, <1>4, StacksBuilt

LEMMA StacksAgain ==
  ASSUME NEW m, IsIndex(m), NEW F, Stacked(m, F), NEW name
  PROVE  Stacked(BuildIndex(m.events, Renamed(m.frames, name)), F)
<1>1. PICK ev, R : ev = m.events /\ R = m.frames
  OBVIOUS
<1>2. PICK l \in Nat : DOMAIN ev = 1..l /\ AreTimed(ev)
  BY <1>1 DEF IsIndex
<1>3. PICK n \in Nat : IsFrameList(F, n) /\ Whole(R, F, n)
  BY <1>1 DEF Stacked
<1>4. Whole(ResolveFrames(Renamed(R, name)), F, n)
  BY <1>3, WholeAgain
<1>5. PICK E : E = Renamed(R, name)
  OBVIOUS
<1>6. Stacked(BuildIndex(ev, E), F)
  BY <1>2, <1>3, <1>4, <1>5, StacksBuilt
<1> QED
  BY <1>1, <1>5, <1>6

LEMMA StackedNext == FilledInv /\ FilledInv' /\ StackedInv /\ [Next]_vars => StackedInv'
<1> SUFFICES ASSUME FilledInv, FilledInv', StackedInv, [Next]_vars PROVE StackedInv'
  OBVIOUS
<1>1. CASE UNCHANGED <<phase, h, index>>
  BY <1>1 DEF StackedInv
<1>2. CASE Reading /\ phase' = phase
  BY <1>2 DEF Reading, StackedInv
<1>3. CASE Finish
  <2>1. h' = h /\ index' = BuildIndex(h.model.events, h.model.frames)
    BY <1>3 DEF Finish
  <2>2. IsEvents(h.model.events) /\ IsFrames(h.model.frames)
    BY DEF FilledInv, Fills
  <2>3. Stacked(index', h.model.frames)
    BY <2>1, <2>2, StacksFirst
  <2> QED
    BY <2>1, <2>3 DEF StackedInv
<1>4. CASE CutShort
  BY <1>4 DEF CutShort, StackedInv
<1>5. CASE ReadSelf
  <2>1. CASE Complete(file)
    <3>1. index' = BuildIndex(h'.model.events, h'.model.frames)
      BY <1>5, <2>1 DEF ReadSelf
    <3>2. IsEvents(h'.model.events) /\ IsFrames(h'.model.frames)
      BY DEF FilledInv, Fills
    <3>3. Stacked(index', h'.model.frames)
      BY <3>1, <3>2, StacksFirst
    <3> QED
      BY <3>3 DEF StackedInv
  <2>2. CASE ~Complete(file)
    <3>1. phase' = "refused"
      BY <1>5, <2>2 DEF ReadSelf
    <3> QED
      BY <3>1 DEF StackedInv
  <2> QED
    BY <2>1, <2>2
<1>6. CASE AddEvent
  BY <1>6 DEF AddEvent, StackedInv
<1>7. CASE BuildAll
  <2>1. PICK frames \in FrameSets : h' = [h EXCEPT !.model.frames = frames] /\ index' = BuildIndex(h.model.events, frames)
    BY <1>7 DEF BuildAll
  <2>2. h'.model.frames = frames
    <3>1. IsHandler(h) /\ IsModel(h.model)
      BY DEF FilledInv, Fills
    <3>2. PICK g, f, md : g = h /\ f = h' /\ md = h'.model
      OBVIOUS
    <3>3. f.model = [g.model EXCEPT !.frames = frames]
      BY <2>1, <3>1, <3>2 DEF IsHandler
    <3> QED
      BY <3>1, <3>2, <3>3 DEF IsModel
  <2>3. IsFrames(frames) /\ IsEvents(h.model.events)
    <3>1. IsFrames(h'.model.frames) /\ IsEvents(h.model.events)
      BY DEF FilledInv, Fills
    <3> QED
      BY <2>2, <3>1
  <2>4. Stacked(index', frames)
    BY <2>1, <2>3, StacksFirst
  <2> QED
    BY <2>2, <2>4 DEF StackedInv
<1>8. CASE Rebuild
  <2>1. h' = h /\ index' = BuildIndex(index.events, Renamed(index.frames, "symbol"))
    BY <1>8 DEF Rebuild, Renamed
  <2>2. IsIndex(index) /\ Stacked(index, h.model.frames)
    BY <1>8 DEF Rebuild, FilledInv, StackedInv
  <2>3. Stacked(index', h.model.frames)
    BY <2>1, <2>2, StacksAgain
  <2> QED
    BY <2>1, <2>3 DEF StackedInv
<1>9. Key \/ Scalar \/ Open("object") \/ Open("array") \/ Shut => Reading /\ phase' = phase
  BY DEF Key, Scalar, Open, Shut, Feed
<1>10. UNCHANGED vars \/ (source = "self" /\ TracerNext /\ UNCHANGED <<source, phase, h, docVars, index>>) => UNCHANGED <<phase, h, index>>
  BY DEF vars
<1> QED
  BY <1>1, <1>2, <1>3, <1>4, <1>5, <1>6, <1>7, <1>8, <1>9, <1>10 DEF Next

\* A frame counts as good exactly when the walk from it ends and all it passes were
\* sound and known, and a sample that has a frame is named after it and starts at a
\* root (resolve_stack_frames), for frames of any number that share, miss or circle,
\* resolved once or again.
THEOREM StacksHold == Spec => []StacksAreWhole
<1> DEFINE Inv == TracerInv /\ WritesInv /\ PlaceInv /\ FilledInv /\ StackedInv
<1>1. Init => Inv
  <2>1. Init => phase # "indexed"
    BY DEF Init
  <2> QED
    BY <2>1, InitInv, WritesStart, PlaceInit, FilledInit DEF Init, StackedInv
<1>2. Inv /\ [Next]_vars => Inv'
  BY NextTraces, Inductive, WritesStep, PlaceNext, FilledNext, StackedNext
<1>3. Inv => StacksAreWhole
  <2> SUFFICES ASSUME StackedInv, phase = "indexed" PROVE StacksAreWhole
    BY DEF StacksAreWhole, Indexed
  <2>1. PICK m, F : m = index /\ F = h.model.frames
    OBVIOUS
  <2>2. PICK n \in Nat : IsFrameList(F, n) /\ Whole(m.frames, F, n) /\ SamplesNamed(m)
    BY <2>1 DEF StackedInv, Stacked
  <2>3. ASSUME NEW i \in DOMAIN m.events, m.events[i].ph = "P", m.events[i].frame # None
        PROVE  m.events[i].name = m.frames[m.events[i].frame].name /\ StackStarts(m, i)
    <3>1. /\ m.events[i].frame \in DOMAIN m.frames /\ m.frames[m.events[i].frame].valid
          /\ m.events[i].name = m.frames[m.events[i].frame].name
      BY <2>2, <2>3 DEF SamplesNamed, SampleNamed
    <3>2. StackStarts(m, i)
      BY <2>2, <3>1, SampleLeads
    <3> QED
      BY <3>1, <3>2
  <2>4. PICK R : R = m.frames
    OBVIOUS
  <2>5. StacksOf(R, F)
    BY <2>2, <2>4, WholeStacks
  <2>6. \A i \in DOMAIN index.events : Ev(i).ph = "P" /\ Ev(i).frame # None =>
          /\ Ev(i).name = index.frames[Ev(i).frame].name
          /\ SampleStack(index, i) # <<>> /\ index.frames[SampleStack(index, i)[1]].parent = None
    BY <2>1, <2>3 DEF StackStarts, Ev
  <2>7. \A f \in DOMAIN index.frames :
          index.frames[f].valid <=>
            /\ Ups(index.frames, f)[Len(index.frames)] = None
            /\ \A g \in {Ups(index.frames, f)[k] : k \in 0..Len(index.frames)} \ {None} : h.model.frames[g].valid /\ Known(g)
    BY <2>1, <2>4, <2>5 DEF StacksOf, KnownIn, Known
  <2> QED
    BY <2>6, <2>7 DEF StacksAreWhole
<1> QED
  BY <1>1, <1>2, <1>3, PTL DEF Spec

-----------------------------------------------------------------------------
(* What a handler fills a model with: a sample is always a point.  While an   *)
(* event is read it is of the first kind, whatever its "ph" says so far; its  *)
(* kind is chosen when its object ends, and that is when it enters the model. *)
HasEvent(g) == g.state \in {"InEvent", "InArgs"} \/ (g.state = "Skipping" /\ g.skipReturn \in {"InEvent", "InArgs"})
Kinds(g) == SamplesArePoints(g.model.events) /\ (HasEvent(g) => g.event.kind = "Measured")

Still(g, f) == f.model.events = g.model.events /\ f.event.kind = g.event.kind /\ (HasEvent(f) => HasEvent(g))

LEMMA StillKinds ==
  ASSUME NEW g, Kinds(g), NEW f, Still(g, f)
  PROVE  Kinds(f)
BY DEF Kinds, Still

LEMMA KindStays ==
  ASSUME NEW e, IsTimed(e), NEW k \in EventFields \ {"kind", "ts", "dur"}, NEW v
  PROVE  [e EXCEPT ![k] = v].kind = e.kind
<1>1. SetsField([e EXCEPT ![k] = v], e, k, v)
  BY FieldSet
<1>2. "kind" \in EventFields
  BY DEF EventFields
<1> QED
  BY <1>1, <1>2 DEF SetsField

LEMMA TimeKeepsKind ==
  ASSUME NEW e, IsTimed(e), NEW k \in {"ts", "dur"}, NEW v \in Int
  PROVE  [e EXCEPT ![k] = v].kind = e.kind
<1>1. k \in EventFields /\ "kind" \in EventFields /\ k # "kind"
  BY DEF EventFields
<1>2. SetsField([e EXCEPT ![k] = v], e, k, v)
  BY <1>1, FieldSet
<1> QED
  BY <1>1, <1>2 DEF SetsField

\* A value put in a field of the event.
Puts(g, f, k, v) ==
  /\ k \in EventFields \ {"kind"} /\ (k \in {"ts", "dur"} => v \in Int)
  /\ f.model = g.model /\ f.event = [g.event EXCEPT ![k] = v]

LEMMA PutStill ==
  ASSUME NEW g, Fills(g), NEW f, SamePlace(g, f), NEW k, NEW v, Puts(g, f, k, v)
  PROVE  Still(g, f)
<1>1. IsTimed(g.event) /\ k \in EventFields \ {"kind"} /\ (k \in {"ts", "dur"} => v \in Int)
  BY DEF Fills, Puts
<1>2. PICK e : e = g.event
  OBVIOUS
<1>3. [e EXCEPT ![k] = v].kind = e.kind
  BY <1>1, <1>2, KindStays, TimeKeepsKind
<1>4. f.event = [e EXCEPT ![k] = v] /\ f.model = g.model
  BY <1>2 DEF Puts
<1>5. f.event.kind = g.event.kind
  BY <1>2, <1>3, <1>4
<1> QED
  BY <1>4, <1>5 DEF Still, HasEvent, SamePlace

LEMMA SameStill ==
  ASSUME NEW g, NEW f, SamePlace(g, f), f.model = g.model, f.event = g.event
  PROVE  Still(g, f)
BY DEF SamePlace, Still, HasEvent

LEMMA NumberStill ==
  ASSUME NEW g, Fills(g), NEW v \in Int
  PROVE  Still(g, OnNumber(g, v))
<1>1. IsHandler(g)
  BY DEF Fills
<1>2. PICK f : f = OnNumber(g, v)
  OBVIOUS
<1>3. SamePlace(g, f)
  BY <1>1, <1>2, NumberStays
<1>4. ASSUME NEW k \in EventFields \ {"kind"}, NEW w, k \in {"ts", "dur"} => w \in Int, f = [g EXCEPT !.event[k] = w]
      PROVE  Still(g, f)
  <2>1. f.model = g.model /\ f.event = [g.event EXCEPT ![k] = w]
    BY <1>1, <1>4 DEF IsHandler
  <2>2. Puts(g, f, k, w)
    BY <1>4, <2>1 DEF Puts
  <2> QED
    BY <1>3, <2>2, PutStill
<1>5. CASE g.state = "InEvent" /\ g.key \in NumberFields
  <2>1. PICK k : k = g.key
    OBVIOUS
  <2>2. k \in NumberFields /\ k \in EventFields \ {"kind"} /\ k # "sf" /\ k # "weight"
    BY <1>5, <2>1 DEF NumberFields, EventFields
  <2>3. f = [g EXCEPT !.event[k] = v]
    BY <1>2, <1>5, <2>1, <2>2 DEF OnNumber
  <2> QED
    BY <1>2, <1>4, <2>2, <2>3
<1>6. CASE g.state = "InEvent" /\ g.key = "sf"
  <2>1. f = [g EXCEPT !.event.sf = Raw(v)]
    BY <1>2, <1>6 DEF OnNumber, NumberFields
  <2>2. f = [g EXCEPT !.event["sf"] = Raw(v)] /\ "sf" \in EventFields \ {"kind"}
    BY <2>1, Zenon DEF EventFields
  <2> QED
    BY <1>2, <1>4, <2>2
<1>7. CASE g.state = "InEvent" /\ g.key = "weight" /\ v >= 0
  <2>1. f = [g EXCEPT !.event.weight = v]
    BY <1>2, <1>7 DEF OnNumber, NumberFields
  <2>2. f = [g EXCEPT !.event["weight"] = v] /\ "weight" \in EventFields \ {"kind"}
    BY <2>1, Zenon DEF EventFields
  <2> QED
    BY <1>2, <1>4, <2>2
<1>8. CASE g.state = "InArgs"
  <2>1. PICK a : a = Argument(g, Number(v))
    OBVIOUS
  <2>2. SameFill(g, a)
    BY <1>1, <2>1, ArgumentFills
  <2>3. f = Counted(a, v)
    BY <1>2, <1>8, <2>1 DEF OnNumber
  <2>4. SameFill(a, f)
    BY <2>2, <2>3, CountedFills DEF SameFill
  <2> QED
    BY <1>2, <1>3, <2>2, <2>4, SameStill DEF SameFill
<1>9. CASE g.state = "InStackFrame" /\ g.key \in {"parent", "name"}
  <2>1. f = [g EXCEPT !.frame.parentId = Raw(v)] \/ f = [g EXCEPT !.frame.valid = FALSE]
    BY <1>2, <1>9 DEF OnNumber
  <2>2. PICK r : r = Raw(v)
    OBVIOUS
  <2>3. f = [g EXCEPT !.frame.parentId = r] \/ f = [g EXCEPT !.frame.valid = FALSE]
    BY <2>1, <2>2
  <2>4. f.model = g.model /\ f.event = g.event
    BY <1>1, <2>3 DEF IsHandler
  <2> QED
    BY <1>2, <1>3, <2>4, SameStill
<1>10. CASE /\ g.state # "InArgs" /\ ~(g.state = "InStackFrame" /\ g.key \in {"parent", "name"})
            /\ ~(g.state = "InEvent" /\ (g.key \in NumberFields \cup {"sf"} \/ (g.key = "weight" /\ v >= 0)))
  <2>1. f = g
    BY <1>2, <1>10 DEF OnNumber
  <2> QED
    BY <1>2, <1>3, <2>1, SameStill
<1> QED
  BY <1>5, <1>6, <1>7, <1>8, <1>9, <1>10

LEMMA StringStill ==
  ASSUME NEW g, Fills(g), NEW v
  PROVE  Still(g, OnString(g, v))
<1>1. IsHandler(g)
  BY DEF Fills
<1>2. PICK f : f = OnString(g, v)
  OBVIOUS
<1>3. SamePlace(g, f)
  BY <1>1, <1>2, StringStays
<1>4. ASSUME NEW k \in {"name", "cat", "sf", "ph", "unit", "id"}, NEW w, f = [g EXCEPT !.event[k] = w] PROVE Still(g, f)
  <2>1. f.model = g.model /\ f.event = [g.event EXCEPT ![k] = w]
    BY <1>1, <1>4 DEF IsHandler
  <2>2. Puts(g, f, k, w)
    BY <2>1 DEF EventFields, Puts
  <2> QED
    BY <1>3, <2>2, PutStill
<1>5. CASE g.state = "InEvent" /\ g.key \in {"name", "cat", "sf"}
  <2>1. PICK k : k = g.key
    OBVIOUS
  <2>2. f = [g EXCEPT !.event[k] = v]
    BY <1>2, <1>5, <2>1 DEF OnString
  <2> QED
    BY <1>2, <1>4, <1>5, <2>1, <2>2
<1>6. CASE g.state = "InEvent" /\ g.key = "ph" /\ v # Blank
  <2>1. f = [g EXCEPT !.event.ph = v]
    BY <1>2, <1>6 DEF OnString
  <2>2. f = [g EXCEPT !.event["ph"] = v]
    BY <2>1, Zenon
  <2> QED
    BY <1>2, <1>4, <2>2
<1>7. CASE g.state = "InEvent" /\ g.key = "weightUnit"
  <2>1. f = [g EXCEPT !.event.unit = v]
    BY <1>2, <1>7 DEF OnString
  <2>2. f = [g EXCEPT !.event["unit"] = v]
    BY <2>1, Zenon
  <2> QED
    BY <1>2, <1>4, <2>2
<1>8. CASE g.state = "InEvent" /\ g.key = "id" /\ v \in DOMAIN Numeral
  <2>1. f = [g EXCEPT !.event.id = Numeral[v]]
    BY <1>2, <1>8 DEF OnString
  <2>2. f = [g EXCEPT !.event["id"] = Numeral[v]]
    BY <2>1, Zenon
  <2> QED
    BY <1>2, <1>4, <2>2
<1>9. CASE g.state = "InArgs"
  <2>1. PICK a : a = Argument(g, String(v))
    OBVIOUS
  <2>2. SameFill(g, a)
    BY <1>1, <2>1, ArgumentFills
  <2>3. f = a \/ f = Counted(a, Numeral[v])
    BY <1>2, <1>9, <2>1 DEF OnString
  <2>4. SameFill(a, f)
    BY <2>2, <2>3, CountedFills DEF SameFill
  <2> QED
    BY <1>2, <1>3, <2>2, <2>4, SameStill DEF SameFill
<1>10. CASE g.state = "InStackFrame"
  <2>1. \/ f = [g EXCEPT !.frame.name = v, !.hasName = TRUE] \/ f = [g EXCEPT !.frame.cat = v]
        \/ f = [g EXCEPT !.frame.parentId = v] \/ f = g
    BY <1>2, <1>10 DEF OnString
  <2>2. f.model = g.model /\ f.event = g.event
    BY <1>1, <2>1 DEF IsHandler
  <2> QED
    BY <1>2, <1>3, <2>2, SameStill
<1>11. CASE /\ g.state \notin {"InArgs", "InStackFrame"}
            /\ ~(g.state = "InEvent" /\ (\/ g.key \in {"name", "cat", "sf", "weightUnit"}
                                         \/ g.key = "ph" /\ v # Blank
                                         \/ g.key = "id" /\ v \in DOMAIN Numeral))
  <2>1. f = g
    BY <1>2, <1>11 DEF OnString
  <2> QED
    BY <1>2, <1>3, <2>1, SameStill
<1> QED
  BY <1>5, <1>6, <1>7, <1>8, <1>9, <1>10, <1>11

LEMMA BlemishStill ==
  ASSUME NEW g, IsHandler(g)
  PROVE  Still(g, Blemish(g)) /\ IsHandler(Blemish(g)) /\ Blemish(g).state = g.state
<1>1. PICK f : f = Blemish(g)
  OBVIOUS
<1>2. SamePlace(g, f)
  BY <1>1, BlemishStays
<1>3. f.model = g.model /\ f.event = g.event
  BY <1>1 DEF IsHandler, Blemish
<1> QED
  BY <1>1, <1>2, <1>3, SameStill DEF SamePlace

\* What is skipped is an event's, or is not, by the state it began in.
LEMMA SkipStill ==
  ASSUME NEW g, IsHandler(g), g.state # "Skipping"
  PROVE  Still(g, Skip(g))
<1>1. PICK f : f = Skip(g)
  OBVIOUS
<1>2. f.model = g.model /\ f.event = g.event /\ f.state = "Skipping" /\ f.skipReturn = g.state
  BY <1>1 DEF IsHandler, Skip
<1> QED
  BY <1>1, <1>2 DEF Still, HasEvent

LEMMA SkippedStill ==
  ASSUME NEW g, IsHandler(g), g.state # "Skipping"
  PROVE  Still(g, Skip(Blemish(g)))
<1>1. PICK b : b = Blemish(g)
  OBVIOUS
<1>2. Still(g, b) /\ IsHandler(b) /\ b.state # "Skipping"
  BY <1>1, BlemishStill
<1>3. Still(b, Skip(b))
  BY <1>2, SkipStill
<1> QED
  BY <1>1, <1>2, <1>3 DEF Still

LEMMA UnskipStill ==
  ASSUME NEW g, IsHandler(g), g.state = "Skipping"
  PROVE  Still(g, Unskip(g))
<1>1. PICK f : f = Unskip(g)
  OBVIOUS
<1>2. f.model = g.model /\ f.event = g.event /\ f.skipReturn = g.skipReturn /\ f.state \in {g.state, g.skipReturn}
  BY <1>1 DEF IsHandler, Unskip
<1> QED
  BY <1>1, <1>2 DEF Still, HasEvent

LEMMA BareStill ==
  ASSUME NEW g, IsHandler(g)
  PROVE  Still(g, OnBare(g))
<1>1. CASE g.state = "InArgs"
  <2>1. PICK f : f = OnBare(g)
    OBVIOUS
  <2>2. f.model = g.model /\ f.event = g.event /\ f.state = g.state
    BY <1>1, <2>1 DEF IsHandler, OnBare
  <2> QED
    BY <1>1, <2>1, <2>2 DEF Still, HasEvent
<1>2. CASE g.state # "InArgs"
  BY <1>2, BlemishStill DEF OnBare
<1> QED
  BY <1>1, <1>2

LEMMA KeyStill ==
  ASSUME NEW g, IsHandler(g), NEW k
  PROVE  Still(g, OnKey(g, k))
<1>1. PICK f : f = OnKey(g, k)
  OBVIOUS
<1>2. f.model = g.model /\ f.event = g.event /\ f.state = g.state /\ f.skipReturn = g.skipReturn
  BY <1>1 DEF IsHandler, OnKey
<1> QED
  BY <1>1, <1>2 DEF Still, HasEvent

LEMMA StartObjectKinds ==
  ASSUME NEW g, IsHandler(g), Kinds(g)
  PROVE  Kinds(OnStartObject(g))
<1>1. PICK f : f = OnStartObject(g)
  OBVIOUS
<1>2. CASE g.state = "InStackFrames"
  <2>1. PICK r : r = [NoFrame EXCEPT !.id = g.key]
    OBVIOUS
  <2>2. f = [g EXCEPT !.state = "InStackFrame", !.frame = r, !.hasName = FALSE]
    BY <1>1, <1>2, <2>1 DEF OnStartObject
  <2>3. f.model = g.model /\ f.event = g.event /\ f.state = "InStackFrame"
    BY <2>2 DEF IsHandler
  <2> QED
    BY <1>1, <2>3, StillKinds DEF Still, HasEvent
<1>3. CASE g.state = "InTraceEvents"
  <2>1. f = [g EXCEPT !.state = "InEvent", !.event = NoEvent, !.args = NoArgs, !.counters = <<>>]
    BY <1>1, <1>3 DEF OnStartObject
  <2>2. PICK e, a, c : e = NoEvent /\ a = NoArgs /\ c = <<>>
    OBVIOUS
  <2>3. f = [g EXCEPT !.state = "InEvent", !.event = e, !.args = a, !.counters = c]
    BY <2>1, <2>2
  <2>4. f.model = g.model /\ f.event = e
    BY <2>3 DEF IsHandler
  <2>5. e.kind = "Measured"
    BY <2>2 DEF NoEvent
  <2> QED
    BY <1>1, <2>4, <2>5 DEF Kinds
<1>4. CASE g.state \in {"Skipping", "TopLevel", "InArgs"} \/ (g.state = "InTopObject" /\ g.key = "stackFrames")
  <2>1. \/ f = [g EXCEPT !.skipDepth = @ + 1]
        \/ f = [g EXCEPT !.state = "InTopObject"]
        \/ f = [g EXCEPT !.state = "InStackFrames"]
        \/ f = [g EXCEPT !.argsDepth = @ + 1, !.args.bad = TRUE] /\ g.state = "InArgs"
    BY <1>1, <1>4 DEF OnStartObject
  <2>2. /\ f.model = g.model /\ f.event = g.event /\ f.skipReturn = g.skipReturn
        /\ f.state \in {g.state, "InTopObject", "InStackFrames"}
    BY <2>1 DEF IsHandler
  <2> QED
    BY <1>1, <2>2, StillKinds DEF Still, HasEvent
<1>5. CASE g.state = "InEvent" /\ g.key = "args"
  <2>1. PICK a : a = [NoArgs EXCEPT !.given = TRUE]
    OBVIOUS
  <2>2. f = [g EXCEPT !.state = "InArgs", !.argsDepth = 0, !.args = a]
    BY <1>1, <1>5, <2>1 DEF OnStartObject
  <2>3. f.model = g.model /\ f.event = g.event
    BY <2>2 DEF IsHandler
  <2> QED
    BY <1>1, <1>5, <2>3, StillKinds DEF Still, HasEvent
<1>6. CASE /\ g.state \notin {"Skipping", "TopLevel", "InStackFrames", "InTraceEvents", "InArgs"}
           /\ ~(g.state = "InTopObject" /\ g.key = "stackFrames") /\ ~(g.state = "InEvent" /\ g.key = "args")
  <2>1. f = Skip(Blemish(g))
    BY <1>1, <1>6 DEF OnStartObject
  <2> QED
    BY <1>1, <1>6, <2>1, SkippedStill, StillKinds
<1> QED
  BY <1>2, <1>3, <1>4, <1>5, <1>6

LEMMA StartArrayKinds ==
  ASSUME NEW g, IsHandler(g), Kinds(g)
  PROVE  Kinds(OnStartArray(g))
<1>1. PICK f : f = OnStartArray(g)
  OBVIOUS
<1>2. CASE g.state \in {"Skipping", "TopLevel", "InArgs"} \/ (g.state = "InTopObject" /\ g.key = "traceEvents")
  <2>1. \/ f = [g EXCEPT !.skipDepth = @ + 1]
        \/ f = [g EXCEPT !.state = "InTraceEvents"]
        \/ f = [g EXCEPT !.argsDepth = @ + 1, !.args.bad = TRUE]
    BY <1>1, <1>2 DEF OnStartArray
  <2>2. f.model = g.model /\ f.event = g.event /\ f.skipReturn = g.skipReturn /\ f.state \in {g.state, "InTraceEvents"}
    BY <2>1 DEF IsHandler
  <2> QED
    BY <1>1, <2>2, StillKinds DEF Still, HasEvent
<1>3. CASE g.state \in {"InEvent", "InStackFrame", "InStackFrames"} \/ (g.state = "InTopObject" /\ g.key # "traceEvents")
  <2>1. f = Skip(Blemish(g))
    BY <1>1, <1>3 DEF OnStartArray
  <2> QED
    BY <1>1, <1>3, <2>1, SkippedStill, StillKinds
<1>4. CASE g.state \notin {"Skipping", "TopLevel", "InArgs", "InTopObject", "InEvent", "InStackFrame", "InStackFrames"}
  BY <1>1, <1>4 DEF OnStartArray
<1> QED
  BY <1>2, <1>3, <1>4

LEMMA EndArrayKinds ==
  ASSUME NEW g, IsHandler(g), Kinds(g)
  PROVE  Kinds(OnEndArray(g))
<1>1. CASE g.state = "Skipping"
  BY <1>1, UnskipStill, StillKinds DEF OnEndArray
<1>2. CASE g.state # "Skipping"
  <2>1. PICK f : f = OnEndArray(g)
    OBVIOUS
  <2>2. \/ f = [g EXCEPT !.argsDepth = @ - 1]
        \/ f = [g EXCEPT !.state = "InTopObject"]
        \/ f = g
    BY <1>2, <2>1 DEF OnEndArray
  <2>3. f.model = g.model /\ f.event = g.event /\ f.skipReturn = g.skipReturn /\ f.state \in {g.state, "InTopObject"}
    BY <2>2 DEF IsHandler
  <2> QED
    BY <2>1, <2>3, StillKinds DEF Still, HasEvent
<1> QED
  BY <1>1, <1>2

\* A kind that is "Sample" is chosen by phase P.
LEMMA KindedPoint ==
  ASSUME NEW e, IsTimed(e), e.kind = "Measured", NEW a, NEW d, d = [Kinded(e) EXCEPT !.args = a]
  PROVE  d.kind = "Sample" => d.ph = "P"
<1>1. DOMAIN e = EventFields /\ {"kind", "ph", "args", "dur", "cpu"} \subseteq EventFields
  BY DEF IsTimed, EventFields
<1>2. PICK c : c = IF e.weight >= 0 /\ UnitScale(e.unit) > 0 THEN e.weight * UnitScale(e.unit) ELSE e.cpu
  OBVIOUS
<1>3. Kinded(e) = IF e.ph = "P" THEN [e EXCEPT !.kind = "Sample", !.dur = 0, !.cpu = c]
                  ELSE IF e.ph \in {"B", "E", "X"} /\ e.cat = "sampleEvent" THEN [e EXCEPT !.kind = "SampledSpan"] ELSE e
  BY <1>2 DEF Kinded
<1>4. PICK k : k = Kinded(e)
  OBVIOUS
<1>5. DOMAIN k = EventFields /\ k.ph = e.ph /\ (k.kind = "Sample" => e.ph = "P")
  BY <1>1, <1>3, <1>4
<1>6. d.kind = k.kind /\ d.ph = k.ph
  BY <1>1, <1>4, <1>5
<1> QED
  BY <1>5, <1>6

LEMMA PointsGrow ==
  ASSUME NEW ev, IsEvents(ev), SamplesArePoints(ev), NEW e, e.kind = "Sample" => e.ph = "P"
  PROVE  SamplesArePoints(Append(ev, e))
<1>1. PICK q : q = Append(ev, e)
  OBVIOUS
<1>2. Pushed(ev, q, e) /\ Len(ev) \in Nat
  BY <1>1, PathPushed, AppendAdds DEF IsEvents
<1>3. DOMAIN q = 1..Len(q) /\ DOMAIN ev = 1..Len(ev)
  BY <1>2 DEF Pushed, IsSeq, IsEvents
<1>4. ASSUME NEW i \in DOMAIN q PROVE q[i].kind = "Sample" => q[i].ph = "P"
  <2>1. i \in DOMAIN ev \/ i = Len(q)
    BY <1>2, <1>3 DEF Pushed
  <2> QED
    BY <1>2, <1>3, <2>1 DEF Pushed, SamplesArePoints
<1> QED
  BY <1>1, <1>4 DEF SamplesArePoints

LEMMA FinishKinds ==
  ASSUME NEW g, Fills(g), Kinds(g), g.state = "InEvent"
  PROVE  SamplesArePoints(FinishEvent(g).model.events)
<1>1. IsHandler(g) /\ IsModel(g.model) /\ IsTimed(g.event) /\ IsEvents(g.model.events)
  BY DEF Fills
<1>2. g.event.kind = "Measured" /\ SamplesArePoints(g.model.events)
  BY DEF Kinds, HasEvent
<1>3. PICK e : e = [Kinded(g.event) EXCEPT !.args = g.args]
  OBVIOUS
<1>4. e.kind = "Sample" => e.ph = "P"
  BY <1>1, <1>2, <1>3, KindedPoint
<1>5. IsEvent(g.event)
  <2>1. PICK d : d = g.event
    OBVIOUS
  <2>2. DOMAIN d = EventFields
    BY <1>1, <2>1 DEF IsTimed
  <2> QED
    BY <2>1, <2>2 DEF IsEvent, EventFields
<1>6. FinishEvent(g).model.events \in {g.model.events, Append(g.model.events, e)}
  BY <1>1, <1>3, <1>5, FinishMeans DEF Labelled, Finished
<1> QED
  BY <1>1, <1>2, <1>4, <1>6, PointsGrow

LEMMA EndObjectKinds ==
  ASSUME NEW g, Fills(g), Kinds(g)
  PROVE  Kinds(OnEndObject(g))
<1>1. IsHandler(g) /\ IsModel(g.model)
  BY DEF Fills
<1>2. PICK f : f = OnEndObject(g)
  OBVIOUS
<1>3. CASE g.state = "Skipping"
  BY <1>1, <1>3, UnskipStill, StillKinds DEF OnEndObject
<1>4. CASE g.state = "InStackFrame"
  <2>1. PICK fs : f = [g EXCEPT !.state = "InStackFrames", !.model.frames = fs]
    BY <1>2, <1>4 DEF OnEndObject
  <2>2. f.event = g.event /\ f.state = "InStackFrames" /\ f.model = [g.model EXCEPT !.frames = fs]
    BY <1>1, <2>1 DEF IsHandler
  <2>3. f.model.events = g.model.events
    BY <1>1, <2>2 DEF IsModel
  <2> QED
    BY <1>2, <2>2, <2>3, StillKinds DEF Still, HasEvent
<1>5. CASE g.state = "InEvent"
  <2>1. PICK r : r = FinishEvent(g)
    OBVIOUS
  <2>2. IsHandler(r) /\ SamplesArePoints(r.model.events)
    BY <1>1, <1>5, <2>1, FinishStays, FinishKinds
  <2>3. f = [r EXCEPT !.state = "InTraceEvents"]
    BY <1>2, <1>5, <2>1 DEF OnEndObject
  <2>4. f.model = r.model /\ f.state = "InTraceEvents"
    BY <2>2, <2>3 DEF IsHandler
  <2> QED
    BY <1>2, <2>2, <2>4 DEF Kinds, HasEvent
<1>6. CASE g.state \in {"InStackFrames", "InArgs", "InTopObject"}
  <2>1. \/ f = [g EXCEPT !.state = "InTopObject"]
        \/ f = [g EXCEPT !.argsDepth = @ - 1]
        \/ f = [g EXCEPT !.state = "InEvent"] /\ g.state = "InArgs"
        \/ f = [g EXCEPT !.state = "TopLevel"]
    BY <1>2, <1>6 DEF OnEndObject
  <2>2. /\ f.model = g.model /\ f.event = g.event /\ f.skipReturn = g.skipReturn
        /\ f.state \in {g.state, "InTopObject", "TopLevel"} \/ g.state = "InArgs"
    BY <1>1, <2>1 DEF IsHandler
  <2> QED
    BY <1>2, <2>2, StillKinds DEF Still, HasEvent
<1>7. CASE g.state \notin {"Skipping", "InStackFrame", "InEvent", "InStackFrames", "InArgs", "InTopObject"}
  BY <1>2, <1>7 DEF OnEndObject
<1> QED
  BY <1>3, <1>4, <1>5, <1>6, <1>7

LEMMA TokenKinds ==
  ASSUME NEW g, Fills(g), Kinds(g), NEW t, IsToken(t)
  PROVE  Kinds(Handle(g, t))
<1>0. IsHandler(g)
  BY DEF Fills
<1>1. CASE t.is = "key"
  BY <1>0, <1>1, KeyStill, StillKinds DEF Handle
<1>2. CASE t.is = "number"
  BY <1>2, NumberStill, StillKinds DEF Handle, IsToken
<1>3. CASE t.is = "string"
  BY <1>3, StringStill, StillKinds DEF Handle
<1>4. CASE t.is = "bare"
  BY <1>0, <1>4, BareStill, StillKinds DEF Handle
<1>5. CASE t.is = "startObject"
  BY <1>0, <1>5, StartObjectKinds DEF Handle
<1>6. CASE t.is = "endObject"
  BY <1>6, EndObjectKinds DEF Handle
<1>7. CASE t.is = "startArray"
  BY <1>0, <1>7, StartArrayKinds DEF Handle
<1>8. CASE t.is = "endArray"
  BY <1>0, <1>8, EndArrayKinds DEF Handle
<1> QED
  BY <1>1, <1>2, <1>3, <1>4, <1>5, <1>6, <1>7, <1>8 DEF IsToken

LEMMA HandlerKinds == Kinds(Handler)
<1>1. PICK e, f, a, md, s : e = NoEvent /\ f = NoFrame /\ a = NoArgs /\ md = EmptyModel /\ s = <<>>
  OBVIOUS
<1>2. Handler = [state |-> "TopLevel", skipReturn |-> "TopLevel", skipDepth |-> 0, key |-> Blank,
                 event |-> e, args |-> a, argsDepth |-> 0, counters |-> s, frame |-> f, hasName |-> FALSE, model |-> md]
  BY <1>1 DEF Handler
<1>3. md.events = <<>>
  BY <1>1 DEF EmptyModel
<1>4. DOMAIN <<>> = {}
  BY EmptyIsSeq
<1>5. SamplesArePoints(<<>>)
  BY <1>4 DEF SamplesArePoints
<1>6. PICK g : g = Handler
  OBVIOUS
<1>7. g.state = "TopLevel" /\ g.model.events = <<>>
  BY <1>2, <1>3, <1>6
<1> QED
  BY <1>5, <1>6, <1>7 DEF Kinds, HasEvent

\* Fills and Kinds together, along the tokens of a text.
LEMMA AfterAllKinds ==
  ASSUME NEW ts \in Seq(Tokens)
  PROVE  Fills(AfterAll(ts)) /\ Kinds(AfterAll(ts))
<1>1. PICK n \in Nat : n = Len(ts)
  OBVIOUS
<1>2. PICK g : g = CHOOSE x : HandleSteps(x, ts)
  OBVIOUS
<1>3. HandleSteps(g, ts)
  BY <1>2, HandlingExists
<1>4. AfterAll(ts) = g[Len(ts)]
  BY <1>2 DEF AfterAll, HandleSteps
<1> DEFINE S == {k \in 0..n : Fills(g[k]) /\ Kinds(g[k])}
<1>5. \A k \in 0..n : g[k] = IF k = 0 THEN Handler ELSE Handle(g[k - 1], ts[k])
  BY <1>1, <1>3 DEF HandleSteps
<1>6. 0 \in S
  <2>1. g[0] = Handler
    BY <1>5
  <2> QED
    BY <2>1, HandlerFills, HandlerKinds
<1>7. ASSUME NEW k \in 0..n, k \in S, k < n PROVE k + 1 \in S
  <2>1. k + 1 \in 0..n /\ k + 1 # 0 /\ (k + 1) - 1 = k /\ ts[k + 1] \in Tokens
    BY <1>1, <1>7
  <2>2. g[k + 1] = Handle(g[k], ts[k + 1])
    BY <1>5, <2>1
  <2>3. Fills(Handle(g[k], ts[k + 1])) /\ Kinds(Handle(g[k], ts[k + 1]))
    BY <1>7, <2>1, TokensAreTokens, TokenFills, TokenKinds
  <2> QED
    BY <2>1, <2>2, <2>3
<1> HIDE DEF S
<1>8. \A k \in 0..n : k \in S
  BY <1>6, <1>7, UpTo
<1>9. n \in S
  BY <1>8
<1> QED
  BY <1>1, <1>4, <1>9 DEF S

-----------------------------------------------------------------------------
(* The nesting of what has been read, indexed once or again. *)
NestedIndex(m) == LiesWithin(m) /\ SamplesArePoints(m.events)
NestedInv == Kinds(h) /\ (phase = "indexed" => NestedIndex(index))

LEMMA NestsBuilt ==
  ASSUME NEW n \in Nat, NEW ev, DOMAIN ev = 1..n, AreTimed(ev), SamplesArePoints(ev), NEW frames
  PROVE  NestedIndex(BuildIndex(ev, frames))
BY IndexLies DEF NestedIndex

LEMMA FilledNests ==
  ASSUME NEW g, Fills(g), Kinds(g), NEW frames
  PROVE  NestedIndex(BuildIndex(g.model.events, frames))
<1>1. PICK ev : ev = g.model.events
  OBVIOUS
<1>2. PICK n \in Nat : DOMAIN ev = 1..n
  BY <1>1 DEF Fills, IsEvents, IsSeq
<1>3. AreTimed(ev) /\ SamplesArePoints(ev)
  BY <1>1 DEF Fills, IsEvents, Kinds
<1> QED
  BY <1>1, <1>2, <1>3, NestsBuilt

LEMMA NestedInit == Init => NestedInv
BY HandlerKinds DEF Init, NestedInv

LEMMA NestedNext == TracerInv /\ WritesInv /\ PlaceInv /\ FilledInv /\ NestedInv /\ [Next]_vars => NestedInv'
<1> SUFFICES ASSUME TracerInv, WritesInv, PlaceInv, FilledInv, NestedInv, [Next]_vars PROVE NestedInv'
  OBVIOUS
<1>0. Fills(h) /\ (phase = "indexed" => IsIndex(index)) /\ Kinds(h) /\ (phase = "indexed" => NestedIndex(index))
  BY DEF FilledInv, NestedInv
<1>1. CASE UNCHANGED <<phase, h, index>>
  BY <1>0, <1>1 DEF NestedInv
<1>2. ASSUME NEW t, IsToken(t), Feed(t) PROVE NestedInv'
  <2>1. h' = Handle(h, t) /\ UNCHANGED <<phase, index>>
    BY <1>2 DEF Feed
  <2>2. Kinds(h')
    BY <1>0, <1>2, <2>1, TokenKinds
  <2> QED
    BY <1>0, <2>1, <2>2 DEF NestedInv
<1>3. CASE Key
  <2>1. PICK k : Feed([is |-> "key", value |-> k])
    BY <1>3 DEF Key
  <2>2. IsToken([is |-> "key", value |-> k])
    BY DEF IsToken
  <2> QED
    BY <1>2, <2>1, <2>2
<1>4. CASE Scalar
  <2>1. source = "document"
    BY <1>4 DEF Scalar, Reading
  <2>2. InPlace(h, path, meant)
    BY <2>1 DEF PlaceInv
  <2>3. PICK t : IsScalar(t) /\ h' = Handle(h, t)
    BY <1>4, <2>2, ScalarToken
  <2>4. IsToken(t)
    <3>1. t = Number(t.value) => t.is = "number"
      BY DEF Number
    <3>2. t = String(t.value) => t.is = "string"
      BY DEF String
    <3> QED
      BY <2>3, <3>1, <3>2 DEF IsScalar, IsToken
  <2>5. UNCHANGED <<phase, index>>
    BY <1>4 DEF Scalar, Feed
  <2>6. Kinds(h')
    BY <1>0, <2>3, <2>4, TokenKinds
  <2> QED
    BY <1>0, <2>5, <2>6 DEF NestedInv
<1>5. ASSUME NEW is \in {"object", "array"}, Open(is) PROVE NestedInv'
  <2>1. Feed(OpenToken(is))
    BY <1>5 DEF Open, OpenToken
  <2>2. IsToken(OpenToken(is))
    BY DEF OpenToken, IsToken
  <2> QED
    BY <1>2, <2>1, <2>2
<1>6. CASE Shut
  <2>1. PICK is : is = Inner.is
    OBVIOUS
  <2>2. Feed(EndToken(is))
    BY <1>6, <2>1 DEF Shut, EndToken
  <2>3. IsToken(EndToken(is))
    BY DEF EndToken, IsToken
  <2> QED
    BY <1>2, <2>2, <2>3
<1>7. CASE Finish
  <2>1. h' = h /\ index' = BuildIndex(h.model.events, h.model.frames)
    BY <1>7 DEF Finish
  <2>2. NestedIndex(index')
    BY <1>0, <2>1, FilledNests
  <2> QED
    BY <1>0, <2>1, <2>2 DEF NestedInv
<1>8. CASE CutShort
  BY <1>0, <1>8 DEF CutShort, NestedInv
<1>9. CASE ReadSelf
  <2>1. CASE Complete(file)
    <3>1. h' = AfterAll(FileTokens) /\ index' = BuildIndex(h'.model.events, h'.model.frames)
      BY <1>9, <2>1 DEF ReadSelf
    <3>2. Fills(h') /\ Kinds(h')
      BY <3>1, FileTokensAre, AfterAllKinds DEF TracerInv, FileGrows, WritesInv
    <3>3. NestedIndex(index')
      BY <3>1, <3>2, FilledNests
    <3> QED
      BY <3>2, <3>3 DEF NestedInv
  <2>2. CASE ~Complete(file)
    <3>1. h' = Handler /\ phase' = "refused"
      BY <1>9, <2>2 DEF ReadSelf
    <3> QED
      BY <3>1, HandlerKinds DEF NestedInv
  <2> QED
    BY <2>1, <2>2
<1>10. CASE AddEvent
  <2>1. PICK e \in Drafts : h' = [h EXCEPT !.model.events = Append(@, e)]
    BY <1>10 DEF AddEvent
  <2>2. phase' = "filling"
    BY <1>10 DEF AddEvent
  <2>3. e.kind = "Sample" => e.ph = "P"
    BY ReaderAssumption DEF IsDraft
  <2>4. PICK g, ev, f : g = h /\ ev = Append(h.model.events, e) /\ f = h'
    OBVIOUS
  <2>5. f = [g EXCEPT !.model.events = ev] /\ Fills(g) /\ Kinds(g)
    BY <1>0, <2>1, <2>4
  <2>6. SamplesArePoints(ev)
    BY <2>3, <2>4, <2>5, PointsGrow DEF Fills, Kinds
  <2>7. f.event = g.event /\ f.state = g.state /\ f.skipReturn = g.skipReturn /\ f.model = [g.model EXCEPT !.events = ev]
    BY <2>5 DEF Fills, IsHandler
  <2>8. f.model.events = ev
    BY <2>5, <2>7 DEF Fills, IsModel
  <2>9. Kinds(f)
    BY <2>5, <2>6, <2>7, <2>8 DEF Kinds, HasEvent
  <2> QED
    BY <2>2, <2>4, <2>9 DEF NestedInv
<1>11. CASE BuildAll
  <2>1. PICK frames \in FrameSets : h' = [h EXCEPT !.model.frames = frames] /\ index' = BuildIndex(h.model.events, frames)
    BY <1>11 DEF BuildAll
  <2>2. NestedIndex(index')
    BY <1>0, <2>1, FilledNests
  <2>3. PICK g, f : g = h /\ f = h'
    OBVIOUS
  <2>4. f.event = g.event /\ f.state = g.state /\ f.skipReturn = g.skipReturn /\ f.model = [g.model EXCEPT !.frames = frames]
    BY <1>0, <2>1, <2>3 DEF Fills, IsHandler
  <2>5. f.model.events = g.model.events
    BY <1>0, <2>3, <2>4 DEF Fills, IsModel
  <2>6. Kinds(f)
    BY <1>0, <2>3, <2>4, <2>5, StillKinds DEF Still, HasEvent
  <2> QED
    BY <2>2, <2>3, <2>6 DEF NestedInv
<1>12. CASE Rebuild
  <2>1. IsIndex(index) /\ NestedIndex(index) /\ h' = h
    BY <1>0, <1>12 DEF Rebuild
  <2>2. PICK frames : index' = BuildIndex(index.events, frames)
    BY <1>12 DEF Rebuild
  <2>3. PICK ev : ev = index.events
    OBVIOUS
  <2>4. PICK n \in Nat : DOMAIN ev = 1..n /\ AreTimed(ev)
    BY <2>1, <2>3 DEF IsIndex
  <2>5. NestedIndex(index')
    BY <2>1, <2>2, <2>3, <2>4, NestsBuilt DEF NestedIndex
  <2> QED
    BY <1>0, <2>1, <2>5 DEF NestedInv
<1>13. UNCHANGED vars \/ (source = "self" /\ TracerNext /\ UNCHANGED <<source, phase, h, docVars, index>>) => UNCHANGED <<phase, h, index>>
  BY DEF vars
<1> QED
  BY <1>1, <1>3, <1>4, <1>5, <1>6, <1>7, <1>8, <1>9, <1>10, <1>11, <1>12, <1>13 DEF Next

LEMMA NestedContains == NestedInv => NestingIsContainment
<1> SUFFICES ASSUME NestedInv, Indexed, NEW th \in DOMAIN index.order, Matched(th), NEW k \in DOMAIN Spans(th)
             PROVE  LET i == Spans(th)[k]
                        covering == {j \in 1..k - 1 : LET p == Ev(Spans(th)[j]) IN
                                       /\ Track(p) = Track(Ev(i)) /\ p.dur > 0
                                       /\ p.ts <= Ev(i).ts /\ Ev(i).ts < End(p) /\ End(Ev(i)) <= End(p)}
                    IN /\ Begins(i) => ChainEnds(index, i)
                       /\ ~Begins(i) \/ (Ev(i).dur > 0 /\ WellNested(th)) =>
                            Ev(i).parent = IF covering = {} THEN None ELSE Spans(th)[Max(covering)]
  BY Zenon DEF NestingIsContainment
<1>1. PICK m, q, s : m = index /\ q = index.events /\ s = Spans(th)
  OBVIOUS
<1>2. LiesWithin(m)
  BY <1>1, SMTT(30) DEF NestedInv, NestedIndex, Indexed
<1>3. s = SpansIn(m, th)
  BY <1>1 DEF Spans, SpansIn, Ev
<1>4. MatchedIn(q, th)
  BY <1>1 DEF Matched, MatchedIn, Begins, Ev
<1>5. SpansLie(m, s)
  BY <1>1, <1>2, <1>3, <1>4 DEF LiesWithin
<1>6. (m.events[s[k]].ph = "B" => ChainEnds(m, s[k])) /\ SpanLies(m.events, s, k)
  BY <1>1, <1>5 DEF SpansLie
<1>7. PICK i : i = s[k]
  OBVIOUS
<1>8. Begins(i) <=> q[i].ph = "B"
  BY <1>1 DEF Begins, Ev
<1>9. WellNested(th) => NoneOverlap(q, Range(s))
  BY <1>1 DEF WellNested, NoneOverlap, Overlap, MeetsEvent, Ev
<1>10. {j \in 1..k - 1 : LET p == Ev(Spans(th)[j]) IN
          /\ Track(p) = Track(Ev(i)) /\ p.dur > 0
          /\ p.ts <= Ev(i).ts /\ Ev(i).ts < End(p) /\ End(Ev(i)) <= End(p)} = CoveringAt(q, s, k)
  BY <1>1, <1>7 DEF CoveringAt, CoversEvent, Ev
<1>11. ~Begins(i) \/ (q[i].dur > 0 /\ WellNested(th)) => q[i].parent = LastCovering(q, s, k)
  BY <1>1, <1>6, <1>7, <1>8, <1>9 DEF SpanLies
<1>12. Begins(i) => ChainEnds(index, i)
  BY <1>1, <1>6, <1>7, <1>8
<1> QED
  BY <1>1, <1>7, <1>10, <1>11, <1>12 DEF LastCovering, Ev

\* However the events came to be, and however often they are indexed again, an
\* event lies in the last one before it that lasts and covers it, and the walk
\* up from a B ends (build_index, build_call_stack): for any number of threads,
\* events and times, wherever every B has its E, and of a B where no two spans
\* of its thread partly overlap.
THEOREM NestingIsTrue == Spec => []NestingIsContainment
<1> DEFINE Inv == TracerInv /\ WritesInv /\ PlaceInv /\ FilledInv /\ NestedInv
<1>1. Init => Inv
  BY InitInv, WritesStart, PlaceInit, FilledInit, NestedInit DEF Init
<1>2. Inv /\ [Next]_vars => Inv'
  BY NextTraces, Inductive, WritesStep, PlaceNext, FilledNext, NestedNext
<1>3. Inv => NestingIsContainment
  BY NestedContains
<1> QED
  BY <1>1, <1>2, <1>3, PTL DEF Spec

LEMMA NestedAdds == NestedInv => SelfTimesAddUp
<1> SUFFICES ASSUME NestedInv, Indexed, NEW th \in DOMAIN index.order, Matched(th), WellNested(th)
             PROVE  Added([k \in DOMAIN Spans(th) |-> Ev(Spans(th)[k]).self])
                      = Added([k \in DOMAIN Spans(th) |->
                                 IF Ev(Spans(th)[k]).parent = None THEN Max({0, Ev(Spans(th)[k]).dur}) ELSE 0])
  BY Zenon DEF SelfTimesAddUp
<1>1. PICK m, q, s : m = index /\ q = index.events /\ s = Spans(th)
  OBVIOUS
<1>2. LiesWithin(m)
  BY <1>1 DEF NestedInv, NestedIndex, Indexed
<1>3. s = SpansIn(m, th)
  BY <1>1 DEF Spans, SpansIn, Ev
<1>4. MatchedIn(q, th)
  BY <1>1 DEF Matched, MatchedIn, Begins, Ev
<1>5. SelvesAdd(q, s)
  BY <1>1, <1>2, <1>3, <1>4 DEF LiesWithin, SpansLie
<1>6. NoneOverlap(q, Range(s))
  BY <1>1 DEF WellNested, NoneOverlap, Overlap, MeetsEvent, Ev
<1>7. Added([k \in DOMAIN s |-> q[s[k]].self])
        = Added([k \in DOMAIN s |-> IF q[s[k]].parent = None THEN Max({0, q[s[k]].dur}) ELSE 0])
  BY <1>5, <1>6 DEF SelvesAdd
<1>8. /\ [k \in DOMAIN Spans(th) |-> Ev(Spans(th)[k]).self] = [k \in DOMAIN s |-> q[s[k]].self]
      /\ [k \in DOMAIN Spans(th) |-> IF Ev(Spans(th)[k]).parent = None THEN Max({0, Ev(Spans(th)[k]).dur}) ELSE 0]
           = [k \in DOMAIN s |-> IF q[s[k]].parent = None THEN Max({0, q[s[k]].dur}) ELSE 0]
  BY <1>1, Zenon DEF Ev
<1> QED
  BY <1>7, <1>8

\* In every index a thread whose spans do not partly overlap loses no time and
\* counts none twice (build_index): the self times of its spans add up to what
\* its roots last, for any number of events, whatever their times.
THEOREM SelfTimesAreTrue == Spec => []SelfTimesAddUp
<1> DEFINE Inv == TracerInv /\ WritesInv /\ PlaceInv /\ FilledInv /\ NestedInv
<1>1. Init => Inv
  BY InitInv, WritesStart, PlaceInit, FilledInit, NestedInit DEF Init
<1>2. Inv /\ [Next]_vars => Inv'
  BY NextTraces, Inductive, WritesStep, PlaceNext, FilledNext, NestedNext
<1>3. Inv => SelfTimesAddUp
  BY NestedAdds
<1> QED
  BY <1>1, <1>2, <1>3, PTL DEF Spec
=============================================================================
