------------------------------ MODULE NativeHeap ------------------------------
\* The replay of native heap records (src/parser/native_heap.cpp): one operator
\* per kind of record, each the body of the loop for a record that passed the
\* checks of lines 42-65, and the two ends of the replay. Who produces the
\* records is left to the module that extends this one.
\*
\* An allocation keeps the same name in every module: the element of Blocks that
\* the heap handed out. The code numbers them in order of arrival instead
\* ("native-allocation-" + n); either way every generation has its own identity.
EXTENDS Naturals, Sequences, FiniteSets

CONSTANTS Handles,      \* heap handles, which Windows reuses
          Addresses,    \* block addresses, which a heap reuses
          Sizes,        \* block sizes
          Blocks,       \* identities of allocation generations
          Times         \* timestamps

None == 0

ASSUME TimesAssumption == Times \subseteq Nat \ {None}

OptionalTime == Times \union {None}

VARIABLES complete,      \* complete_event_stream
          heaps,         \* profile.heaps: the end_ts of each
          open,          \* process_heaps: the heap a handle stands for, or None
          active,        \* HeapState::active of the open heaps
          allocations    \* profile.allocations

heapVars == <<complete, heaps, open, active, allocations>>

Lifetime == [handle: Handles, address: Addresses, size: Sizes, heap: Nat,
             allocated_ts: Times, freed_ts: OptionalTime,
             end_state: {"Unknown", "Freed", "LiveAtCaptureEnd"}]

\* In place of a lifetime that is not in profile.allocations.
NoLifetime == [allocated_ts |-> None, freed_ts |-> None]

Recorded == {b \in Blocks : allocations[b].allocated_ts # None}

In(h) == {b \in active : allocations[b].handle = h}

\* heap.active.find(address): at most one block, as the key of the map.
Find(h, a) == {b \in In(h) : allocations[b].address = a}

\* `release` on each of R.
Released(R, t) ==
    [b \in Blocks |-> IF b \in R
                      THEN [allocations[b] EXCEPT !.freed_ts = t, !.end_state = "Freed"]
                      ELSE allocations[b]]

\* A record for a handle that stands for no heap opens one that predates it.
HeapFor(h) == IF open[h] = None THEN Len(heaps) + 1 ELSE open[h]
HeapsWith(h) == IF open[h] = None THEN Append(heaps, None) ELSE heaps
OpenHeap(h) == open' = [open EXCEPT ![h] = HeapFor(h)] /\ heaps' = HeapsWith(h)

NewLifetime(h, a, s, t) ==
    [handle |-> h, address |-> a, size |-> s, heap |-> HeapFor(h),
     allocated_ts |-> t, freed_ts |-> None, end_state |-> "Unknown"]

-------------------------------------------------------------------------------

\* Create of a handle still in use ends the old heap and forgets its blocks,
\* whose own ends stay unknown.
ReplayCreate(h, t) ==
    /\ heaps' = Append(IF open[h] = None THEN heaps ELSE [heaps EXCEPT ![open[h]] = t], None)
    /\ open' = [open EXCEPT ![h] = Len(heaps) + 1]
    /\ active' = active \ In(h)
    /\ complete' = (complete /\ open[h] = None)
    /\ UNCHANGED allocations

(* Seeded variant: a reused address keeps pointing past the last allocation. *)
ReplayAllocateUnpushed(b, h, a, s, t) ==
    /\ OpenHeap(h)
    /\ allocations' = IF Find(h, a) = {} THEN [allocations EXCEPT ![b] = NewLifetime(h, a, s, t)]
                      ELSE allocations
    /\ active' = (active \ Find(h, a)) \union {b}
    /\ complete' = (complete /\ Find(h, a) = {})

\* An address that is still active lost its free.
ReplayAllocate(b, h, a, s, t) ==
    /\ OpenHeap(h)
    /\ allocations' = [allocations EXCEPT ![b] = NewLifetime(h, a, s, t)]
    /\ active' = (active \ Find(h, a)) \union {b}
    /\ complete' = (complete /\ Find(h, a) = {})

(* Seeded variant: a free without a recorded allocation counts as a gap. *)
ReplayFreeUnknownIsGap(h, a, t) ==
    /\ OpenHeap(h)
    /\ allocations' = Released(Find(h, a), t)
    /\ active' = active \ Find(h, a)
    /\ complete' = (complete /\ Find(h, a) # {})

ReplayFree(h, a, t) ==
    /\ OpenHeap(h)
    /\ allocations' = Released(Find(h, a), t)
    /\ active' = active \ Find(h, a)
    /\ UNCHANGED complete

\* Reallocate in place: the old generation ends, one with the new size begins.
ReplayResize(b, h, a, oldSize, s, t) ==
    /\ OpenHeap(h)
    /\ allocations' = [Released(Find(h, a), t) EXCEPT ![b] = NewLifetime(h, a, s, t)]
    /\ active' = (active \ Find(h, a)) \union {b}
    /\ complete' = (complete /\ \A old \in Find(h, a) : allocations[old].size = oldSize)

(* Seeded variant: the summary releases the old address when the new block began. *)
ReplayMovedReleases(h, old, new, s) ==
    /\ OpenHeap(h)
    /\ \E b \in Find(h, new) :
           /\ allocations' = Released(Find(h, old), allocations[b].allocated_ts)
           /\ active' = active \ Find(h, old)
    /\ UNCHANGED complete

\* Reallocate to another address is a summary of Alloc(new) and Free(old), and
\* is only compared with them.
ReplayMoved(h, old, new, s) ==
    /\ OpenHeap(h)
    /\ complete' = (complete /\ Find(h, old) = {}
                             /\ \E b \in Find(h, new) : allocations[b].size = s)
    /\ UNCHANGED <<active, allocations>>

\* Allocate, Free and Reallocate with the null address.
ReplayNull(h) == OpenHeap(h) /\ UNCHANGED <<complete, active, allocations>>

(* Seeded variant: the handle keeps standing for the destroyed heap. *)
ReplayDestroyKeepsHandle(h, t) ==
    /\ heaps' = [HeapsWith(h) EXCEPT ![HeapFor(h)] = t]
    /\ open' = [open EXCEPT ![h] = HeapFor(h)]
    /\ allocations' = Released(In(h), t)
    /\ active' = active \ In(h)
    /\ UNCHANGED complete

ReplayDestroy(h, t) ==
    /\ heaps' = [HeapsWith(h) EXCEPT ![HeapFor(h)] = t]
    /\ open' = [open EXCEPT ![h] = None]
    /\ allocations' = Released(In(h), t)
    /\ active' = active \ In(h)
    /\ UNCHANGED complete

(* Seeded variant: a record is omitted without a trace. *)
ReplayOmitsSilently == UNCHANGED heapVars

\* A record out of order, outside the capture or outside a process's lifetime.
ReplayOmits == complete' = FALSE /\ UNCHANGED <<heaps, open, active, allocations>>

-------------------------------------------------------------------------------

ReplayInit ==
    /\ heaps = <<>>
    /\ open = [h \in Handles |-> None]
    /\ active = {}
    /\ allocations = [b \in Blocks |-> NoLifetime]

\* After the last record of a process that exited at `exit` (None: not seen to).
ReplayEnds(exit) ==
    /\ heaps' = IF exit = None THEN heaps
                ELSE [i \in 1 .. Len(heaps) |->
                         IF \E h \in Handles : open[h] = i THEN exit ELSE heaps[i]]
    /\ allocations' =
          IF exit # None THEN Released(active, exit)
          ELSE [b \in Blocks |-> IF complete /\ b \in active
                                 THEN [allocations[b] EXCEPT !.end_state = "LiveAtCaptureEnd"]
                                 ELSE allocations[b]]
    /\ open' = [h \in Handles |-> None]
    /\ active' = {}
    /\ UNCHANGED complete

HeapTypeOK ==
    /\ complete \in BOOLEAN
    /\ heaps \in Seq(OptionalTime)
    /\ open \in [Handles -> Nat]
    /\ active \subseteq Recorded
    /\ allocations \in [Blocks -> Lifetime \union {NoLifetime}]
===============================================================================
