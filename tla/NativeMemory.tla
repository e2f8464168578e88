----------------------------- MODULE NativeMemory -----------------------------
\* A recorded process, the recorder that may lose its records, and the replay of
\* NativeHeap, followed by the queries of MemoryIndex. The process and the
\* recorder are not in src/: they are what Windows does, as the decoder
\* (src/parser/diagsession_import.cpp:175-217) and the replay expect it. Each of
\* the process's operations has its record replayed in the same step: the replay
\* runs later, over all records in their order, and sees nothing else.
EXTENDS NativeHeap, MemoryIndex

CONSTANT MaxHeaps       \* bound: heaps the process creates

ASSUME BoundAssumption == MaxHeaps \in Nat

VARIABLES phase,         \* "before", "recording" or "done"
          clock,         \* time of the last operation
          lossy,         \* the session lost events or buffers, or the decoder skips some
          excused,       \* something happened that the replay may take for a gap
          block,         \* every generation of every block the process allocated
          up,            \* handles of the process's heaps
          created,       \* heaps created so far
          moving,        \* a realloc of another thread that moves a block
          exit,          \* time of the process's exit
          exitSeen,      \* ProfileProcess::end_ts
          captureStart, captureEnd

sessionVars == <<phase, lossy, exit, exitSeen, captureStart, captureEnd>>
vars == <<heapVars, sessionVars, clock, excused, block, up, created, moving>>

Generation == [handle: Handles, address: Addresses, size: Sizes,
               born: Times, died: OptionalTime]
NotUsed == [born |-> None, died |-> None]

Used == {b \in Blocks : block[b].born # None}
Live == {b \in Used : block[b].died = None}
At(h, a) == {b \in Live : block[b].handle = h /\ block[b].address = a}

NotMoving == [stage |-> "none"]
InMove == IF moving = NotMoving THEN {} ELSE {moving.old, moving.new}

\* Time goes on by one or not at all: records may carry equal times. What happens
\* before the session starts carries no time.
Now(t) == /\ t = clock \/ (phase # "before" /\ t = clock + 1)
          /\ clock' = t
Running == phase # "done" /\ exit = None

Starts(b, h, a, s, t) == [handle |-> h, address |-> a, size |-> s, born |-> t, died |-> None]
Dies(R, t) == [b \in Blocks |-> IF b \in R THEN [block[b] EXCEPT !.died = t] ELSE block[b]]

-------------------------------------------------------------------------------
\* What becomes of the record of an operation: the session is not running yet;
\* it is lost, or in a layout the decoder skips; it carries a time or a process
\* the replay does not accept (which in a session that loses records comes to
\* the same as losing it); it is replayed.

Observed(Replay, excuse) ==
    \/ phase = "before" /\ UNCHANGED <<heapVars, excused>>
    \/ phase = "recording" /\ lossy /\ UNCHANGED <<heapVars, excused>>
    \/ phase = "recording" /\ ~ lossy /\ ReplayOmits /\ excused' = TRUE
    \/ phase = "recording" /\ Replay /\ excused' = (excused \/ (excuse /\ ~ lossy))

-------------------------------------------------------------------------------
\* Operations of the process.

CreateHeap(h, t) ==
    /\ Running /\ Now(t)
    /\ h \notin up /\ created < MaxHeaps
    /\ up' = up \union {h}
    /\ created' = created + 1
    /\ Observed(ReplayCreate(h, t), FALSE)
    /\ UNCHANGED <<block, moving, sessionVars>>

\* The freed address of a block that another thread is moving may be handed out
\* before the summary of the move is written.
AllocateBlock(b, h, a, s, t) ==
    /\ Running /\ Now(t)
    /\ h \in up /\ At(h, a) = {} /\ b \notin Used
    /\ block' = [block EXCEPT ![b] = Starts(b, h, a, s, t)]
    /\ Observed(ReplayAllocate(b, h, a, s, t),
                moving # NotMoving /\ block[moving.old].handle = h /\ block[moving.old].address = a)
    /\ UNCHANGED <<up, created, moving, sessionVars>>

FreeBlock(b, t) ==
    /\ Running /\ Now(t)
    /\ b \in Live \ InMove
    /\ block' = Dies({b}, t)
    /\ Observed(ReplayFree(block[b].handle, block[b].address, t), FALSE)
    /\ UNCHANGED <<up, created, moving, sessionVars>>

ResizeBlock(old, b, s, t) ==
    /\ Running /\ Now(t)
    /\ old \in Live \ InMove /\ b \notin Used
    /\ block' = [Dies({old}, t) EXCEPT
                    ![b] = Starts(b, block[old].handle, block[old].address, s, t)]
    /\ Observed(ReplayResize(b, block[old].handle, block[old].address, block[old].size, s, t), FALSE)
    /\ UNCHANGED <<up, created, moving, sessionVars>>

\* A realloc that moves the block writes Alloc(new), Free(old) and a summary.
MoveAllocates(old, b, a, s, t) ==
    /\ Running /\ Now(t)
    /\ moving = NotMoving
    /\ old \in Live /\ b \notin Used /\ At(block[old].handle, a) = {}
    /\ block' = [block EXCEPT ![b] = Starts(b, block[old].handle, a, s, t)]
    /\ moving' = [stage |-> "allocated", old |-> old, new |-> b]
    /\ Observed(ReplayAllocate(b, block[old].handle, a, s, t), FALSE)
    /\ UNCHANGED <<up, created, sessionVars>>

MoveFrees(t) ==
    /\ Running /\ Now(t)
    /\ moving.stage = "allocated"
    /\ block' = Dies({moving.old}, t)
    /\ moving' = [moving EXCEPT !.stage = "freed"]
    /\ Observed(ReplayFree(block[moving.old].handle, block[moving.old].address, t), FALSE)
    /\ UNCHANGED <<up, created, sessionVars>>

MoveSummarized(t) ==
    /\ Running /\ Now(t)
    /\ moving.stage = "freed"
    /\ moving' = NotMoving
    /\ Observed(ReplayMoved(block[moving.new].handle, block[moving.old].address,
                            block[moving.new].address, block[moving.new].size), FALSE)
    /\ UNCHANGED <<block, up, created, sessionVars>>

\* A failed allocation or realloc, or a free of the null pointer.
NullCall(h, t) ==
    /\ Running /\ Now(t)
    /\ h \in up
    /\ Observed(ReplayNull(h), FALSE)
    /\ UNCHANGED <<block, up, created, moving, sessionVars>>

DestroyHeap(h, t) ==
    /\ Running /\ Now(t)
    /\ h \in up /\ \A b \in InMove : block[b].handle # h
    /\ up' = up \ {h}
    /\ block' = Dies({b \in Live : block[b].handle = h}, t)
    /\ Observed(ReplayDestroy(h, t), FALSE)
    /\ UNCHANGED <<created, moving, sessionVars>>

\* The kernel's process record gives the exit's time, unless it is lost.
ExitProcess(t) ==
    /\ Running /\ Now(t) /\ phase = "recording"
    /\ exit' = t
    /\ block' = Dies(Live, t)
    /\ up' = {}
    /\ moving' = NotMoving
    /\ exitSeen' = t \/ (lossy /\ UNCHANGED exitSeen)
    /\ UNCHANGED <<heapVars, excused, created, phase, lossy, captureStart, captureEnd>>

-------------------------------------------------------------------------------
\* The session.

\* A move under way loses its first records to the start of the session.
StartRecording(t) ==
    /\ phase = "before" /\ Now(t)
    /\ phase' = "recording"
    /\ captureStart' = t
    /\ excused' = (moving # NotMoving /\ ~ lossy)
    /\ UNCHANGED <<heapVars, lossy, exit, exitSeen, captureEnd, block, up, created, moving>>

StopRecording(t) ==
    /\ phase = "recording" /\ Now(t)
    /\ phase' = "done"
    /\ captureEnd' = t
    /\ ReplayEnds(exitSeen)
    /\ UNCHANGED <<lossy, exit, exitSeen, captureStart, excused, block, up, created, moving>>

MemoryInit ==
    /\ ReplayInit
    /\ lossy \in BOOLEAN /\ complete = ~ lossy
    /\ phase = "before" /\ excused = FALSE
    /\ clock \in Times /\ \A t \in Times : clock <= t
    /\ block = [b \in Blocks |-> NotUsed]
    /\ up = {} /\ created = 0 /\ moving = NotMoving
    /\ exit = None /\ exitSeen = None /\ captureStart = None /\ captureEnd = None

MemoryNext ==
    \E t \in Times :
       \/ \E h \in Handles : CreateHeap(h, t) \/ NullCall(h, t) \/ DestroyHeap(h, t)
       \/ \E b \in Blocks, h \in Handles, a \in Addresses, s \in Sizes : AllocateBlock(b, h, a, s, t)
       \/ \E b \in Blocks : FreeBlock(b, t)
       \/ \E old, b \in Blocks, s \in Sizes : ResizeBlock(old, b, s, t)
       \/ \E old, b \in Blocks, a \in Addresses, s \in Sizes : MoveAllocates(old, b, a, s, t)
       \/ MoveFrees(t) \/ MoveSummarized(t)
       \/ ExitProcess(t) \/ StartRecording(t) \/ StopRecording(t)

MemorySpec == MemoryInit /\ [][MemoryNext]_vars

-------------------------------------------------------------------------------
\* The queries, once the capture is imported.

Ends(b) == {allocations[b].freed_ts, heaps[allocations[b].heap], exitSeen}

CountedAt(ts) == {b \in Recorded : Outstanding(allocations[b].allocated_ts, Ends(b), ts)}
KnownAt(ts) == {b \in CountedAt(ts) : KnownNative(~ complete, allocations[b].allocated_ts,
                                                   allocations[b].freed_ts, allocations[b].end_state)}

ReallyLiveAt(ts) == {b \in Used : block[b].born <= ts /\ (block[b].died = None \/ ts < block[b].died)}

CaptureTimes == {ts \in Times : captureStart <= ts /\ ts <= captureEnd}

-------------------------------------------------------------------------------

ProcessTypeOK ==
    /\ phase \in {"before", "recording", "done"}
    /\ clock \in Times /\ {exit, exitSeen, captureStart, captureEnd} \subseteq OptionalTime
    /\ lossy \in BOOLEAN /\ excused \in BOOLEAN
    /\ block \in [Blocks -> Generation \union {NotUsed}]
    /\ up \subseteq Handles /\ created \in 0 .. MaxHeaps
    /\ \/ moving = NotMoving
       \/ moving \in [stage: {"allocated", "freed"}, old: Used, new: Live]

\* Types of the replay's, the process's and the session's state; a move under way
\* has a live block as its target.
MemoryTypeOK == HeapTypeOK /\ ProcessTypeOK

\* Whatever records are lost or omitted, an allocation is called freed only once
\* its block is dead: a free, a resize or the end of a heap that reaches the
\* replay never ends a generation that outlives it, although handles and
\* addresses are reused (native_heap.cpp:21-24, 115-125, 146-165, 168-175).
FreedIsDead ==
    \A b \in Recorded : allocations[b].freed_ts # None =>
        block[b].died # None /\ block[b].died <= allocations[b].freed_ts

\* Whatever is lost, a recorded block that is live at a time of the capture is
\* counted there, as known or as uncertain (memory_index.cpp:135-160): losses
\* make totals too large, never too small.
LiveIsCounted ==
    phase = "done" => \A ts \in CaptureTimes : ReallyLiveAt(ts) \cap Recorded \subseteq CountedAt(ts)

\* Amounts called known are exact: unless the whole capture is marked as having
\* gaps, every block allocated during the session is among the allocations, and
\* the known amounts at a time are the blocks live then, with nothing uncertain
\* beside them (native_heap.cpp:84-104, 167-180, memory_index.cpp:154-157).
KnownIsExact ==
    (phase = "done" /\ complete) =>
        /\ {b \in Used : captureStart < block[b].born} \subseteq Recorded
        /\ \A ts \in CaptureTimes : /\ KnownAt(ts) = ReallyLiveAt(ts) \cap Recorded
                                    /\ CountedAt(ts) = KnownAt(ts)

\* A capture whose records all arrived is marked as having gaps only if a record
\* was omitted, a moving realloc had its old address handed out again before its
\* summary, or the session started inside one (native_heap.cpp:135-145). Heaps and
\* blocks that predate the recording are no gap.
GapsHaveACause == ~ complete => lossy \/ excused

\* A summary of a moving realloc whose allocation and free were both replayed
\* leaves the coverage alone: the gap is for summaries "without their
\* allocation/free pair" (docs/profile-format.md:74, native_heap.cpp:136-143).
MovedPairIsNoGap ==
    [][(/\ moving # NotMoving /\ moving' = NotMoving
        /\ moving.new \in active /\ moving.old \in Recorded /\ allocations[moving.old].freed_ts # None
        /\ ReplayMoved(block[moving.new].handle, block[moving.old].address,
                       block[moving.new].address, block[moving.new].size))
       => complete' = complete]_vars
===============================================================================
