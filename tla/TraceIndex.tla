----------------------------- MODULE TraceIndex -----------------------------
(* TraceModel::build_index and what is read from its result: pairs of B and  *)
(* E events, nesting, self times, the block index of a thread, stack frames, *)
(* and the walks over the nesting.  An event index is a position, 0 is the   *)
(* code's -1 (or UINT32_MAX).  Times are whole numbers.                      *)
EXTENDS Integers, Sequences, FiniteSets, SequencesExt

CONSTANTS MaxDepth,   \* 255: a depth has 8 bits
          MaskDepths, \* 32: a block has a bit for each of so many depths
          BlockSize   \* 256

ASSUME IndexAssumption == MaxDepth \in Nat \ {0} /\ MaskDepths \in Nat /\ BlockSize \in Nat \ {0}

None == 0
NoId == "absent"
EmptyText == ""

\* FoldLeft, as a recursive function of the position.
Through(Step(_, _), base, seq) ==
  LET after[k \in 0..Len(seq)] == IF k = 0 THEN base ELSE Step(after[k - 1], seq[k])
  IN after[Len(seq)]

\* The sum along a sequence of numbers.
Added(seq) == Through(LAMBDA sum, number : sum + number, 0, seq)

\* The members of S, least first: R is a strict total order of them.
Sorted(S, R) ==
  LET Least(rest) == CHOOSE x \in rest : \A y \in rest \ {x} : <<x, y>> \in R
      sorted[k \in 0..Cardinality(S)] ==
        IF k = 0 THEN <<>> ELSE Append(sorted[k - 1], Least(S \ ToSet(sorted[k - 1])))
  IN sorted[Cardinality(S)]

InOrder(S, Before(_, _)) == Sorted(S, {p \in S \X S : Before(p[1], p[2])})

\* The items at the positions P, in their order.
Kept(seq, P) ==
  LET at == InOrder(P, LAMBDA j, k : j < k) IN [k \in DOMAIN at |-> seq[at[k]]]

\* What an event holds; its times are whole numbers.
EventFields ==
  {"ph", "name", "cat", "ts", "dur", "pid", "tid", "id", "sf", "weight", "unit", "cpu", "kind", "args",
   "frame", "parent", "depth", "self", "ended"}
HasTimes(e) == e.ts \in Int /\ e.dur \in Int
IsTimed(e) == e = [x \in EventFields |-> e[x]] /\ HasTimes(e)

Timed(events, i) == events[i].ph \notin {"M", "C"}
End(e) == e.ts + e.dur
Track(e) == IF e.kind = "SampledSpan" THEN "sampled" ELSE "measured"
NoOpen == [t \in {"sampled", "measured"} |-> <<>>]

ThreadOf(e) == <<e.pid, e.tid>>
Threads(events) == {ThreadOf(events[i]) : i \in {j \in DOMAIN events : Timed(events, j)}}

\* A sample never lasts, whatever the file says; the rest starts afresh.
Reset(e) ==
  [e EXCEPT !.parent = None, !.depth = 0, !.self = 0, !.ended = FALSE,
            !.kind = IF e.ph = "P" THEN "Sample" ELSE @, !.dur = IF e.ph = "P" THEN 0 ELSE @]

OfThread(events, th) == {i \in DOMAIN events : Timed(events, i) /\ ThreadOf(events[i]) = th}

(* B and E: an E ends the innermost open B of its track. *)
PairOrder(events, th) ==
  InOrder(OfThread(events, th),
          LAMBDA a, b : \/ events[a].ts < events[b].ts
                        \/ events[a].ts = events[b].ts /\ a < b)

PairOne(acc, i) ==
  LET e == acc.events[i]
      open == acc.open[Track(e)]
  IN IF e.ph = "B"
     THEN [acc EXCEPT !.open[Track(e)] = Append(@, i),
                      !.within[i] = IF open = <<>> THEN None ELSE Last(open)]
     ELSE IF e.ph = "E" /\ open # <<>>
     THEN [acc EXCEPT !.open[Track(e)] = Front(@),
                      !.events[Last(open)].dur = Max({0, e.ts - acc.events[Last(open)].ts}),
                      !.events[i].ended = TRUE]
     ELSE acc

Paired(events, th) ==
  Through(PairOne,
          [events |-> events, open |-> NoOpen, within |-> [i \in DOMAIN events |-> None]],
          PairOrder(events, th))

(* Nesting: an event lies in the innermost longer one that is not over. *)
NestOrderByStart(events, th) ==
  InOrder({i \in OfThread(events, th) : ~events[i].ended},
          LAMBDA a, b : events[a].ts < events[b].ts \/ (events[a].ts = events[b].ts /\ a < b))
NestOrder(events, th) ==
  InOrder({i \in OfThread(events, th) : ~events[i].ended},
          LAMBDA a, b : \/ events[a].ts < events[b].ts
                        \/ events[a].ts = events[b].ts /\ events[a].dur > events[b].dur
                        \/ events[a].ts = events[b].ts /\ events[a].dur = events[b].dur /\ a < b)

Encloses(p, e) == End(p) > e.ts /\ End(p) >= End(e)

RemainingOfStarted(stack, e, events) ==
  SubSeq(stack, 1, Max({0} \cup {k \in DOMAIN stack : End(events[stack[k]]) > e.ts}))
Remaining(stack, e, events) ==
  SubSeq(stack, 1, Max({0} \cup {k \in DOMAIN stack : Encloses(events[stack[k]], e)}))

\* A B event belongs to the B open around it, unless a longer event of another
\* phase lies between them.
ParentOf(e, opened, stack, events) ==
  IF /\ stack # <<>>
     /\ e.ph # "B" \/ events[Last(stack)].ph # "B"
     /\ opened = None \/ events[Last(stack)].depth >= events[opened].depth
  THEN Last(stack) ELSE opened

NestOne(acc, i) ==
  LET e == acc.events[i]
      t == Track(e)
      stack == Remaining(acc.stack[t], e, acc.events)
      parent == ParentOf(e, acc.within[i], stack, acc.events)
  IN IF e.kind = "Sample" THEN acc
     ELSE [acc EXCEPT
             !.stack[t] = IF e.dur > 0 THEN Append(stack, i) ELSE stack,
             !.events[i] = [e EXCEPT !.parent = parent,
                              !.depth = IF parent = None THEN 0
                                        ELSE Min({MaxDepth, acc.events[parent].depth + 1}),
                              !.self = Max({0, e.dur})]]

Nested(paired, order) ==
  Through(NestOne, [events |-> paired.events, within |-> paired.within, stack |-> NoOpen], order).events

SubtractLast(events, i) ==
  LET e == events[i] IN
  IF e.parent = None \/ e.dur <= 0 THEN events
  ELSE [events EXCEPT ![e.parent].self = Max({0, events[e.parent].dur - e.dur})]
Subtract(events, i) ==
  LET e == events[i] IN
  IF e.parent = None \/ e.dur <= 0 THEN events
  ELSE [events EXCEPT ![e.parent].self = Max({0, @ - e.dur})]

IndexThread(events, th) ==
  LET paired == Paired(events, th)
      order == NestOrder(paired.events, th)
  IN Through(Subtract, Nested(paired, order), order)

(* Blocks of a thread: the ends reach from block to block, so that the first *)
(* block that may overlap is found by halving.                               *)
AddBlockAlone(blocks, items, start) ==
  LET part == {items[k] : k \in start..Min({Len(items), start + BlockSize - 1})}
      local == Max({End(e) : e \in part})
  IN Append(blocks, [start |-> start, count |-> Min({BlockSize, Len(items) + 1 - start}), minTs |-> Min({e.ts : e \in part}),
                     maxEnd |-> local, localEnd |-> local, depths |-> {e.depth : e \in part} \cap 0..MaskDepths - 1])
AddBlock(blocks, items, start) ==
  LET part == {items[k] : k \in start..Min({Len(items), start + BlockSize - 1})}
      local == Max({End(e) : e \in part})
  IN Append(blocks, [start |-> start, count |-> Min({BlockSize, Len(items) + 1 - start}),
                     minTs |-> Min({e.ts : e \in part}),
                     maxEnd |-> IF blocks = <<>> THEN local ELSE Max({local, Last(blocks).maxEnd}),
                     localEnd |-> local,
                     depths |-> {e.depth : e \in part} \cap 0..MaskDepths - 1])

Blocks(events, order) ==
  LET items == [k \in DOMAIN order |-> events[order[k]]]
      starts == [b \in 1..(Len(order) - 1) \div BlockSize + 1 |-> (b - 1) * BlockSize + 1]
  IN Through(LAMBDA blocks, start : AddBlock(blocks, items, start), <<>>, starts)

\* The first block that may reach start, by halving; as often as there are
\* blocks is enough.
Halved(r, blocks, start) ==
  LET mid == r.lo + (r.hi - r.lo) \div 2 IN
  IF r.lo >= r.hi THEN r
  ELSE IF blocks[mid].maxEnd < start THEN [r EXCEPT !.lo = mid + 1] ELSE [r EXCEPT !.hi = mid]

FirstBlock(blocks, start) ==
  Through(LAMBDA r, b : Halved(r, blocks, start), [lo |-> 1, hi |-> Len(blocks) + 1], blocks).lo

\* Where the scan finds events that touch the window: from the first block on,
\* up to the first one that starts too late.
Found(blocks, order, events, start, end) ==
  LET first == FirstBlock(blocks, start)
      late == {b \in first..Len(blocks) : blocks[b].minTs > end}
      upto == IF late = {} THEN Len(blocks) ELSE Min(late) - 1
      scanned == UNION {blocks[b].start..blocks[b].start + blocks[b].count - 1 : b \in first..upto}
  IN {k \in scanned : events[order[k]].ts <= end /\ End(events[order[k]]) >= start}

Touching(m, th, start, end) == Found(m.blocks[th], m.order[th], m.events, start, end)
Visible(m, th, start, end) == Kept(m.order[th], Touching(m, th, start, end))

(* Stack frames.  A frame is good when its parents are known, good and end. *)
FrameOf(frames, id) ==
  LET named == {f \in DOMAIN frames : frames[f].id = id} IN
  IF named = {} THEN None ELSE Max(named)

LinkedAnyhow(frames) ==
  [f \in DOMAIN frames |-> [frames[f] EXCEPT !.parent = FrameOf(frames, frames[f].parentId)]]
Linked(frames) ==
  [f \in DOMAIN frames |->
     LET up == FrameOf(frames, frames[f].parentId) IN
     [frames[f] EXCEPT !.parent = IF frames[f].parentId = NoId THEN None ELSE up,
                       !.valid = @ /\ (frames[f].parentId = NoId \/ up # None)]]

Ups(frames, f) ==
  LET up[k \in 0..Len(frames)] ==
        IF k = 0 THEN f ELSE IF up[k - 1] = None THEN None ELSE frames[up[k - 1]].parent
  IN up

\* The walk from one frame: a path of unseen good frames, and what stopped it.
WalkFrom(acc, f) ==
  LET up == Ups(acc.frames, f)
      stops == {k \in 0..Len(acc.frames) :
                  \/ up[k] = None
                  \/ up[k] \in acc.seen
                  \/ ~acc.frames[up[k]].valid
                  \/ \E j \in 0..k - 1 : up[j] = up[k]}
      n == Min(stops)
      path == {up[k] : k \in 0..n - 1}
      good == up[n] = None \/ (up[n] \in acc.seen /\ acc.frames[up[n]].valid)
  IN IF f \in acc.seen THEN acc
     ELSE [seen |-> acc.seen \cup path \cup {f},
           frames |-> [g \in DOMAIN acc.frames |->
                         IF g \in path THEN [acc.frames[g] EXCEPT !.valid = good] ELSE acc.frames[g]]]

ResolveFrames(frames) ==
  Through(WalkFrom, [seen |-> {}, frames |-> Linked(frames)], [f \in 1..Len(frames) |-> f]).frames

\* A sample is named after its leaf.
ResolveEvent(e, frames) ==
  LET f == FrameOf(frames, e.sf)
      good == f # None /\ frames[f].valid
  IN [e EXCEPT !.frame = IF good THEN f ELSE None,
               !.name = IF good /\ e.ph = "P" THEN frames[f].name ELSE @,
               !.cat = IF good /\ e.ph = "P" /\ frames[f].cat # EmptyText THEN frames[f].cat ELSE @]

SetSymbol(frame, name) == [frame EXCEPT !.name = name]

\* From the root to the leaf.
SampleStack(m, i) ==
  LET up == Ups(m.frames, m.events[i].frame)
      n == Cardinality({k \in DOMAIN up : up[k] # None})
  IN [k \in 1..n |-> up[n - k]]

(* The whole index. *)
Listed(events, i) == events[i].ph # "C" /\ ~events[i].ended /\ (events[i].dur > 0 \/ events[i].kind = "Sample")

InTime(events, S) ==
  InOrder(S,
          LAMBDA a, b : \/ events[a].ts < events[b].ts
                        \/ events[a].ts = events[b].ts /\ a < b)

\* The events' times.  Those of a memory profile, which the code includes too, are
\* left out: no event has them.
Model(events, frames, order) ==
  LET drawn == {i \in DOMAIN events : events[i].ph # "M" /\ ~events[i].ended}
      last == {IF events[i].dur > 0 THEN End(events[i]) ELSE events[i].ts : i \in drawn}
  IN [events |-> events, frames |-> frames, order |-> order,
      blocks |-> [th \in DOMAIN order |-> Blocks(events, order[th])],
      byName |-> [n \in {events[i].name : i \in DOMAIN events} |->
                    InTime(events, {i \in DOMAIN events : events[i].name = n /\ Listed(events, i)})],
      cats |-> {events[i].cat : i \in drawn} \cup {frames[f].cat : f \in {g \in DOMAIN frames : frames[g].valid}},
      minTs |-> IF drawn = {} THEN None ELSE Min({events[i].ts : i \in drawn}),
      maxTs |-> IF drawn = {} THEN None ELSE Max(last),
      empty |-> drawn = {}]

IndexEvents(fresh) == Through(IndexThread, fresh, SetToSeq(Threads(fresh)))

IndexedAs(events, frames) == Model(events, frames, [th \in Threads(events) |-> NestOrder(events, th)])
IndexWith(events0, frames) ==
  IndexedAs(IndexEvents([i \in DOMAIN events0 |-> Reset(ResolveEvent(events0[i], frames))]), frames)
BuildIndex(events0, frames0) == IndexWith(events0, ResolveFrames(frames0))

(* Walks. *)
Chain(m, i) ==
  LET up[k \in 0..Len(m.events)] ==
        IF k = 0 THEN i ELSE IF up[k - 1] = None THEN None ELSE m.events[up[k - 1]].parent
  IN up

ChainEnds(m, i) == Chain(m, i)[Len(m.events)] = None

\* It would never end on a chain that does not.
CallStack(m, i) ==
  LET to[j \in DOMAIN m.events] ==
        IF m.events[j].parent = None THEN <<j>> ELSE Append(to[m.events[j].parent], j)
  IN to[i]

\* The scan stops at the first event that starts after this one has ended; the
\* depth looked for has 8 bits, too.
LongestChild(m, i) ==
  LET e == m.events[i]
      late == {k \in DOMAIN m.order[ThreadOf(e)] : m.events[m.order[ThreadOf(e)][k]].ts >= End(e) /\ m.events[m.order[ThreadOf(e)][k]].ts >= e.ts}
      upto == IF late = {} THEN Len(m.order[ThreadOf(e)]) ELSE Min(late) - 1
      children == {k \in 1..upto :
                     LET c == m.events[m.order[ThreadOf(e)][k]] IN
                     c.ts >= e.ts /\ c.depth = (e.depth + 1) % (MaxDepth + 1) /\ c.parent = i}
      At(k) == m.events[m.order[ThreadOf(e)][k]]
  IN IF {k \in children : At(k).dur > -1} = {} THEN None
     ELSE m.order[ThreadOf(e)][Min({k \in children : \A j \in children : At(j).dur <= At(k).dur})]

Siblings(m, i) ==
  SelectSeq(m.order[ThreadOf(m.events[i])],
            LAMBDA j : m.events[j].depth = m.events[i].depth /\ m.events[j].parent = m.events[i].parent)

PrevSibling(m, i) ==
  LET s == Siblings(m, i)
      at == {k \in DOMAIN s : s[k] = i}
  IN IF at = {} \/ at = {1} THEN None ELSE s[Min(at) - 1]

NextSibling(m, i) ==
  LET s == Siblings(m, i)
      at == {k \in DOMAIN s : s[k] = i}
  IN IF at = {} \/ at = {Len(s)} THEN None ELSE s[Min(at) + 1]
=============================================================================
