-------------------------- MODULE NativeMemoryProofs ---------------------------
\* Theorems of NativeMemory. The replay is compared with the process it records:
\* MemoryInv relates what the replay has as active to what is live, first
\* whatever is lost and then, while nothing is, exactly.
EXTENDS NativeMemory, TLAPS

-------------------------------------------------------------------------------
\* The process.

OneBlockPerAddress ==
    \A b, c \in Live : block[b].handle = block[c].handle /\ block[b].address = block[c].address => b = c

LiveInUp == \A b \in Live : block[b].handle \in up

TimesInOrder ==
    /\ \A b \in Used : block[b].born <= clock /\ block[b].died <= clock
    /\ \A b \in Used : block[b].died # None => block[b].born <= block[b].died
    /\ exit # None => Live = {} /\ exit <= clock /\ moving = NotMoving /\ phase # "before"
                                /\ \A b \in Used : block[b].died <= exit
    /\ exitSeen \in {None, exit}

MoveInOrder ==
    moving # NotMoving => /\ block[moving.old].handle = block[moving.new].handle
                          /\ moving.old # moving.new
                          /\ moving.stage = "allocated" => moving.old \in Live

ProcessInv == OneBlockPerAddress /\ LiveInUp /\ TimesInOrder /\ MoveInOrder

-------------------------------------------------------------------------------
\* The replay, whatever is lost.

\* An allocation of the replay is the block the process allocated.
SameBlock ==
    \A b \in Recorded : /\ b \in Used
                        /\ allocations[b].handle = block[b].handle
                        /\ allocations[b].address = block[b].address
                        /\ allocations[b].size = block[b].size
                        /\ allocations[b].allocated_ts = block[b].born
                        /\ allocations[b].heap \in 1 .. Len(heaps)

EndStates ==
    /\ \A b \in Recorded : (allocations[b].freed_ts # None) <=> (allocations[b].end_state = "Freed")
    /\ phase # "done" => \A b \in Recorded : allocations[b].end_state # "LiveAtCaptureEnd"

\* An active allocation has no end yet and belongs to the open heap of its handle.
ActiveIsOpen ==
    /\ \A b \in active : /\ allocations[b].freed_ts = None
                         /\ allocations[b].heap = open[allocations[b].handle]
    /\ \A h \in Handles : open[h] # None => /\ open[h] \in 1 .. Len(heaps)
                                            /\ heaps[open[h]] = None
    /\ phase = "done" => active = {} /\ \A h \in Handles : open[h] = None

\* Every open heap has one handle, and every allocation of it that handle.
HeapsApart ==
    /\ \A g, h \in Handles : open[g] # None /\ open[g] = open[h] => g = h
    /\ \A b \in Recorded, h \in Handles : allocations[b].heap = open[h] => allocations[b].handle = h

NothingBefore == phase = "before" => Recorded = {} /\ \A h \in Handles : open[h] = None

\* No loss makes the replay forget a live block.
LiveIsActive == phase # "done" => Live \cap Recorded \subseteq active

DeadByHeapEnd ==
    \A b \in Recorded : heaps[allocations[b].heap] # None =>
        block[b].died # None /\ block[b].died <= heaps[allocations[b].heap]

ReplayInv ==
    /\ SameBlock /\ EndStates /\ ActiveIsOpen /\ HeapsApart /\ NothingBefore
    /\ LiveIsActive /\ DeadByHeapEnd /\ FreedIsDead

-------------------------------------------------------------------------------
\* The replay while nothing is missing.

ExactSoFar ==
    complete =>
        /\ ~ lossy /\ exitSeen = exit
        /\ phase # "before" => {b \in Used : captureStart < block[b].born} \subseteq Recorded
        /\ (phase # "done" /\ exit = None) => active \subseteq Live
        /\ phase # "done" => \A b \in active : block[b].died = exit
        /\ \A b \in Recorded \ active : /\ allocations[b].freed_ts = block[b].died
                                        /\ block[b].died = None =>
                                              phase = "done" /\ allocations[b].end_state = "LiveAtCaptureEnd"

\* The new block of a move is recorded, and its old address not handed out again.
MoveSeen ==
    moving # NotMoving =>
        /\ moving.new \in Recorded
        /\ moving.stage = "freed" => At(block[moving.old].handle, block[moving.old].address) = {}

NoGapYet ==
    ~ lossy /\ ~ excused =>
        /\ complete
        /\ exit = None => \A h \in Handles : open[h] # None => h \in up
        /\ phase # "before" => MoveSeen

GapInv == ExactSoFar /\ NoGapYet /\ (lossy \/ phase = "before" => ~ excused)

MemoryInv == MemoryTypeOK /\ ProcessInv /\ ReplayInv /\ GapInv

-------------------------------------------------------------------------------

\* The process only goes on: blocks stay what they are, and the dead stay dead.
Ages ==
    \A b \in Used : /\ b \in Used'
                    /\ block'[b].handle = block[b].handle /\ block'[b].address = block[b].address
                    /\ block'[b].size = block[b].size /\ block'[b].born = block[b].born
                    /\ block[b].died # None => block'[b].died = block[b].died

LEMMA StampsAreNat == Times \subseteq Nat /\ None \notin Times /\ OptionalTime \subseteq Nat
BY TimesAssumption DEF OptionalTime, None

\* A step whose record is not replayed keeps what holds under any loss.
LEMMA UnreplayedKeepsReplay ==
    ASSUME MemoryInv, MemoryTypeOK', Ages, phase' = phase,
           UNCHANGED <<heaps, open, active, allocations>>
    PROVE  ReplayInv'
<1> USE DEF MemoryInv, ReplayInv, MemoryTypeOK, HeapTypeOK, ProcessTypeOK
<1>1. Recorded' = Recorded /\ Recorded \subseteq Used
  BY DEF Recorded, SameBlock
<1>2. SameBlock'
  BY <1>1 DEF SameBlock, Ages
<1>3. EndStates' /\ ActiveIsOpen' /\ HeapsApart' /\ NothingBefore'
  BY <1>1 DEF EndStates, ActiveIsOpen, HeapsApart, NothingBefore
<1>4. \A b \in Recorded : b \in Live' => b \in Live
  BY <1>1 DEF Ages, Live, Used, Generation, NotUsed
<1>5. LiveIsActive'
  BY <1>1, <1>4 DEF LiveIsActive
<1>6. DeadByHeapEnd' /\ FreedIsDead'
  BY <1>1, StampsAreNat DEF DeadByHeapEnd, FreedIsDead, Ages
<1> QED BY <1>2, <1>3, <1>5, <1>6

-------------------------------------------------------------------------------
\* The process by itself: what each of its operations does to its own blocks.

ProcessKept == ProcessTypeOK' /\ ProcessInv' /\ Ages


\* A new generation of a block.
LEMMA Birth ==
    ASSUME ProcessTypeOK, NEW b \in Blocks \ Used, NEW h \in Handles, NEW a \in Addresses,
           NEW s \in Sizes, NEW t \in Times, block' = [block EXCEPT ![b] = Starts(b, h, a, s, t)]
    PROVE  /\ block' \in [Blocks -> Generation \union {NotUsed}]
           /\ Used' = Used \union {b} /\ Live' = Live \union {b}
           /\ \A c \in Used : block'[c] = block[c]
           /\ block'[b] = [handle |-> h, address |-> a, size |-> s, born |-> t, died |-> None]
<1> USE StampsAreNat DEF ProcessTypeOK
<1>1. \A c \in Used : block'[c] = block[c]
  OBVIOUS
<1>2. Used' = Used \union {b} /\ Live' = Live \union {b}
  BY <1>1 DEF Used, Live, Starts, Generation, NotUsed, None
<1> QED BY <1>1, <1>2 DEF Starts, Generation, OptionalTime

\* The blocks of R die.
LEMMA Death ==
    ASSUME ProcessTypeOK, NEW R \in SUBSET Live, NEW t \in Times, block' = Dies(R, t)
    PROVE  /\ block' \in [Blocks -> Generation \union {NotUsed}]
           /\ Used' = Used /\ Live' = Live \ R
           /\ \A c \in Used \ R : block'[c] = block[c]
           /\ \A c \in R : block'[c] = [block[c] EXCEPT !.died = t]
           /\ \A c \in R : block[c] \in Generation /\ block'[c] \in Generation
           /\ Ages
<1> USE StampsAreNat DEF ProcessTypeOK
<1>1. \A c \in Blocks \ R : block'[c] = block[c]
  BY DEF Dies
<1>2. \A c \in R : block[c] \in Generation
  BY DEF Live, Used, NotUsed
<1>3. \A c \in R : block'[c] = [block[c] EXCEPT !.died = t]
  BY DEF Dies, Live, Used
<1>4. ASSUME NEW c \in R
      PROVE  /\ block'[c] \in Generation /\ block'[c].died = t /\ c \in Used
             /\ block'[c].handle = block[c].handle /\ block'[c].address = block[c].address
             /\ block'[c].size = block[c].size /\ block'[c].born = block[c].born
  <2>1. block[c] \in Generation /\ block'[c] = [block[c] EXCEPT !.died = t] /\ c \in Used
    BY <1>2, <1>3 DEF Live
  <2> QED BY <2>1 DEF Generation, OptionalTime
<1>5. block' \in [Blocks -> Generation \union {NotUsed}]
  BY <1>1, <1>4 DEF Dies
<1>6. Used' = Used /\ Live' = Live \ R
  <2>1. \A c \in R : block'[c].born # None /\ block'[c].died # None
    BY <1>4 DEF Generation
  <2>2. Used' = Used
    BY <1>1, <1>4, <2>1 DEF Used
  <2> QED BY <1>1, <2>1, <2>2 DEF Live, Used
<1>7. Ages
  BY <1>1, <1>4, <1>6 DEF Ages, Live, Used
<1> QED BY <1>1, <1>2, <1>3, <1>4, <1>5, <1>6, <1>7 DEF Live, Used

\* Times stay in order when the clock goes on and what is new carries its time.
LEMMA ClockGoesOn ==
    ASSUME ProcessTypeOK, ProcessTypeOK', TimesInOrder, exit = None, exit' = None,
           exitSeen' = exitSeen, captureStart' = captureStart,
           NEW t \in Times, Now(t),
           \A b \in Used' : \/ b \in Used /\ block'[b] = block[b]
                            \/ b \in Used /\ block'[b].born = block[b].born /\ block'[b].died = t
                            \/ block'[b].born = t /\ block'[b].died = None
    PROVE  TimesInOrder'
<1> USE StampsAreNat
<1>1. clock <= t /\ clock' = t /\ t \in Nat /\ clock \in Nat
  BY DEF ProcessTypeOK, Now
<1>2. \A c \in Used : block[c].born \in Nat /\ block[c].died \in Nat
  <2> SUFFICES ASSUME NEW c \in Used PROVE block[c].born \in Nat /\ block[c].died \in Nat
    OBVIOUS
  <2>1. block[c] \in Generation
    BY DEF ProcessTypeOK, Used, NotUsed
  <2> QED BY <2>1 DEF Generation, OptionalTime
<1> QED BY <1>1, <1>2 DEF TimesInOrder, None

LEMMA ProcessAllocates ==
    ASSUME ProcessTypeOK, ProcessInv, NEW t \in Times, NEW b \in Blocks, NEW h \in Handles,
           NEW a \in Addresses, NEW s \in Sizes, AllocateBlock(b, h, a, s, t), excused' \in BOOLEAN
    PROVE  ProcessKept
<1> USE DEF ProcessInv, AllocateBlock, Running, sessionVars
<1>1. /\ block' \in [Blocks -> Generation \union {NotUsed}]
      /\ Used' = Used \union {b} /\ Live' = Live \union {b}
      /\ \A c \in Used : block'[c] = block[c]
      /\ block'[b] = [handle |-> h, address |-> a, size |-> s, born |-> t, died |-> None]
  <2>1. b \in Blocks \ Used
    OBVIOUS
  <2> QED BY <2>1, Birth
<1>2. ProcessTypeOK'
  BY <1>1 DEF ProcessTypeOK, Now
<1>3. TimesInOrder'
  BY <1>1, <1>2, ClockGoesOn
<1>4. Ages
  BY <1>1 DEF Ages
<1>5. OneBlockPerAddress' /\ LiveInUp' /\ MoveInOrder'
  BY <1>1 DEF OneBlockPerAddress, LiveInUp, MoveInOrder, At, Live, ProcessTypeOK
<1> QED BY <1>2, <1>3, <1>4, <1>5 DEF ProcessKept

LEMMA ProcessMoves ==
    ASSUME ProcessTypeOK, ProcessInv, NEW t \in Times, NEW old \in Blocks, NEW b \in Blocks,
           NEW a \in Addresses, NEW s \in Sizes, MoveAllocates(old, b, a, s, t), excused' \in BOOLEAN
    PROVE  ProcessKept
<1> USE DEF ProcessInv, MoveAllocates, Running, sessionVars
<1>0. block[old].handle \in Handles
  BY DEF ProcessTypeOK, Live, Used, Generation, NotUsed
<1>1. /\ block' \in [Blocks -> Generation \union {NotUsed}]
      /\ Used' = Used \union {b} /\ Live' = Live \union {b}
      /\ \A c \in Used : block'[c] = block[c]
      /\ block'[b] = [handle |-> block[old].handle, address |-> a, size |-> s, born |-> t, died |-> None]
  <2>1. b \in Blocks \ Used
    OBVIOUS
  <2> QED BY <1>0, <2>1, Birth
<1>2. ProcessTypeOK'
  BY <1>1 DEF ProcessTypeOK, Now, Live
<1>3. TimesInOrder'
  BY <1>1, <1>2, ClockGoesOn
<1>4. Ages
  BY <1>1 DEF Ages
<1>5. OneBlockPerAddress' /\ LiveInUp' /\ MoveInOrder'
  BY <1>1 DEF OneBlockPerAddress, LiveInUp, MoveInOrder, At, Live
<1> QED BY <1>2, <1>3, <1>4, <1>5 DEF ProcessKept

LEMMA ProcessResizes ==
    ASSUME ProcessTypeOK, ProcessInv, NEW t \in Times, NEW old \in Blocks, NEW b \in Blocks,
           NEW s \in Sizes, ResizeBlock(old, b, s, t), excused' \in BOOLEAN
    PROVE  /\ ProcessKept
           /\ Used' = Used \union {b} /\ Live' = (Live \ {old}) \union {b}
           /\ block'[old].died = t
           /\ \A c \in Used \ {old} : block'[c] = block[c]
           /\ block'[b] = [handle |-> block[old].handle, address |-> block[old].address,
                           size |-> s, born |-> t, died |-> None]
<1> USE StampsAreNat DEF ProcessInv, ResizeBlock, Running, sessionVars
<1>0. block[old] \in Generation /\ b # old /\ old \in Used
  BY DEF ProcessTypeOK, Live, Used, Generation, NotUsed
<1>1. /\ \A c \in Blocks \ {old, b} : block'[c] = block[c]
      /\ block'[old] = [block[old] EXCEPT !.died = t]
      /\ block'[b] = [handle |-> block[old].handle, address |-> block[old].address,
                      size |-> s, born |-> t, died |-> None]
      /\ block'[b] \in Generation /\ block'[old] \in Generation
  BY <1>0 DEF Starts, Dies, Generation, OptionalTime
<1>2. block' \in [Blocks -> Generation \union {NotUsed}]
  BY <1>0, <1>1 DEF ProcessTypeOK, Dies
<1>3. Used' = Used \union {b} /\ Live' = (Live \ {old}) \union {b}
  BY <1>0, <1>1 DEF Used, Live, Generation, None
<1>4. \A c \in Used \ {old} : block'[c] = block[c]
  BY <1>1 DEF Used
<1>5. block'[old].handle = block[old].handle /\ block'[old].address = block[old].address
      /\ block'[old].size = block[old].size /\ block'[old].born = block[old].born /\ block'[old].died = t
  BY <1>0, <1>1 DEF Generation
<1>6. ProcessTypeOK'
  BY <1>0, <1>2, <1>3 DEF ProcessTypeOK, Now, InMove
<1>7. TimesInOrder'
  <2>1. \A c \in Used' : \/ c \in Used /\ block'[c] = block[c]
                         \/ c \in Used /\ block'[c].born = block[c].born /\ block'[c].died = t
                         \/ block'[c].born = t /\ block'[c].died = None
    <3> SUFFICES ASSUME NEW c \in Used'
                 PROVE  \/ c \in Used /\ block'[c] = block[c]
                        \/ c \in Used /\ block'[c].born = block[c].born /\ block'[c].died = t
                        \/ block'[c].born = t /\ block'[c].died = None
      OBVIOUS
    <3>1. c = b \/ c = old \/ c \in Used \ {old}
      BY <1>3
    <3>2. block'[b].born = t /\ block'[b].died = None
      BY <1>1
    <3> HIDE DEF ResizeBlock
    <3> QED BY <3>1, <3>2, <1>4, <1>5, <1>0
  <2> QED BY <1>6, <2>1, ClockGoesOn
<1>8. Ages
  BY <1>0, <1>3, <1>4, <1>5 DEF Ages, Live
<1>9. OneBlockPerAddress' /\ LiveInUp'
  <2>1. \A c \in Live' : c # b => c \in Live /\ c # old /\ block'[c] = block[c]
    BY <1>3, <1>4 DEF Live
  <2>2. b \in Live' /\ block'[b].handle = block[old].handle /\ block'[b].address = block[old].address
    BY <1>1, <1>3
  <2>3. LiveInUp'
    <3>1. up' = up /\ old \in Live
      OBVIOUS
    <3> HIDE DEF ResizeBlock
    <3> QED BY <2>1, <2>2, <3>1 DEF LiveInUp
  <2>4. \A c \in Live : c # old =>
           ~ (block[c].handle = block[old].handle /\ block[c].address = block[old].address)
    BY DEF OneBlockPerAddress
  <2> HIDE DEF ResizeBlock
  <2>5. OneBlockPerAddress'
    BY <2>1, <2>2, <2>4 DEF OneBlockPerAddress
  <2> QED BY <2>3, <2>5
<1>10. MoveInOrder'
  BY <1>0, <1>3, <1>4 DEF MoveInOrder, InMove, ProcessTypeOK, Live
<1> QED BY <1>1, <1>3, <1>4, <1>5, <1>6, <1>7, <1>8, <1>9, <1>10 DEF ProcessKept

LEMMA ProcessFrees ==
    ASSUME ProcessTypeOK, ProcessInv, NEW t \in Times, excused' \in BOOLEAN,
           (\E b \in Blocks : FreeBlock(b, t)) \/ MoveFrees(t) \/ (\E h \in Handles : DestroyHeap(h, t))
    PROVE  ProcessKept
<1> USE DEF ProcessInv, Running, sessionVars
<1>1. ASSUME NEW b \in Blocks, FreeBlock(b, t) PROVE ProcessKept
  <2> USE <1>1 DEF FreeBlock
  <2>1. b \in Live /\ {b} \in SUBSET Live
    OBVIOUS
  <2>2. /\ block' \in [Blocks -> Generation \union {NotUsed}]
        /\ Used' = Used /\ Live' = Live \ {b} /\ Ages
        /\ \A c \in Used \ {b} : block'[c] = block[c]
        /\ block'[b] = [block[b] EXCEPT !.died = t] /\ block[b] \in Generation
    BY <2>1, Death
  <2>3. block'[b].born = block[b].born /\ block'[b].died = t
    BY <2>2 DEF Generation
  <2>4. ProcessTypeOK'
    BY <2>2 DEF ProcessTypeOK, Now, InMove
  <2>5. TimesInOrder'
    BY <2>2, <2>3, <2>4, ClockGoesOn
  <2>6. OneBlockPerAddress' /\ LiveInUp'
    <3>1. \A c \in Live' : c \in Live /\ block'[c] = block[c]
      BY <2>2 DEF Live
    <3>2. up' = up
      OBVIOUS
    <3> HIDE <1>1 DEF FreeBlock
    <3> QED BY <3>1, <3>2 DEF OneBlockPerAddress, LiveInUp
  <2>7. MoveInOrder'
    <3>1. moving # NotMoving => moving.old \in Used /\ moving.old # b /\ moving.new \in Used /\ moving.new # b
      BY DEF ProcessTypeOK, Live, InMove
    <3> QED BY <2>2, <3>1 DEF MoveInOrder
  <2> QED BY <2>2, <2>4, <2>5, <2>6, <2>7 DEF ProcessKept
<1>2. ASSUME MoveFrees(t) PROVE ProcessKept
  <2> USE <1>2 DEF MoveFrees
  <2>0. moving # NotMoving /\ moving \in [stage: {"allocated", "freed"}, old: Used, new: Live]
    BY DEF ProcessTypeOK, NotMoving
  <2>1. moving.old \in Live /\ {moving.old} \in SUBSET Live
    BY <2>0 DEF MoveInOrder
  <2>2. /\ block' \in [Blocks -> Generation \union {NotUsed}]
        /\ Used' = Used /\ Live' = Live \ {moving.old} /\ Ages
        /\ \A c \in Used \ {moving.old} : block'[c] = block[c]
        /\ block'[moving.old] = [block[moving.old] EXCEPT !.died = t]
        /\ block[moving.old] \in Generation
    BY <2>1, Death
  <2>3. block'[moving.old].born = block[moving.old].born /\ block'[moving.old].died = t
        /\ block'[moving.old].handle = block[moving.old].handle
    BY <2>2 DEF Generation
  <2>4. moving' = [stage |-> "freed", old |-> moving.old, new |-> moving.new]
        /\ moving.new # moving.old
    BY <2>0 DEF MoveInOrder
  <2>5. ProcessTypeOK'
    BY <2>0, <2>2, <2>4 DEF ProcessTypeOK, Now
  <2>6. TimesInOrder'
    BY <2>2, <2>3, <2>5, ClockGoesOn
  <2>7. OneBlockPerAddress' /\ LiveInUp'
    <3>1. \A c \in Live' : c \in Live /\ block'[c] = block[c]
      BY <2>2 DEF Live
    <3> QED BY <3>1 DEF OneBlockPerAddress, LiveInUp
  <2>8. MoveInOrder'
    <3>1. moving.new \in Used \ {moving.old} /\ block'[moving.new] = block[moving.new]
      BY <2>0, <2>2, <2>4 DEF Live
    <3>2. moving'.stage = "freed" /\ moving'.old = moving.old /\ moving'.new = moving.new
      BY <2>4
    <3>3. block[moving.old].handle = block[moving.new].handle
      BY <2>0 DEF MoveInOrder
    <3> QED BY <2>3, <2>4, <3>1, <3>2, <3>3 DEF MoveInOrder
  <2> QED BY <2>2, <2>5, <2>6, <2>7, <2>8 DEF ProcessKept
<1>3. ASSUME NEW h \in Handles, DestroyHeap(h, t) PROVE ProcessKept
  <2> USE <1>3 DEF DestroyHeap
  <2> DEFINE R == {b \in Live : block[b].handle = h}
  <2>1. R \in SUBSET Live
    OBVIOUS
  <2>2. /\ block' \in [Blocks -> Generation \union {NotUsed}]
        /\ Used' = Used /\ Live' = Live \ R /\ Ages
        /\ \A c \in Used \ R : block'[c] = block[c]
        /\ \A c \in R : block'[c] = [block[c] EXCEPT !.died = t]
        /\ \A c \in R : block[c] \in Generation
    BY <2>1, Death
  <2>3. \A c \in R : block'[c].born = block[c].born /\ block'[c].died = t
    BY <2>2 DEF Generation
  <2> HIDE DEF R
  <2>4. moving # NotMoving => moving.old \notin R /\ moving.new \notin R
    BY DEF InMove, R
  <2>5. ProcessTypeOK'
    BY <2>2, <2>4 DEF ProcessTypeOK, Now
  <2>6. TimesInOrder'
    BY <2>2, <2>3, <2>5, ClockGoesOn
  <2>7. OneBlockPerAddress' /\ LiveInUp'
    BY <2>2 DEF OneBlockPerAddress, LiveInUp, R, Live
  <2>8. MoveInOrder'
    BY <2>2, <2>4 DEF MoveInOrder, Live, ProcessTypeOK
  <2> QED BY <2>2, <2>5, <2>6, <2>7, <2>8 DEF ProcessKept
<1> QED BY <1>1, <1>2, <1>3

LEMMA ProcessStays ==
    ASSUME ProcessTypeOK, ProcessInv, NEW t \in Times, excused' \in BOOLEAN,
           MoveSummarized(t) \/ (\E h \in Handles : CreateHeap(h, t) \/ NullCall(h, t))
    PROVE  ProcessKept /\ block' = block
<1> USE BoundAssumption DEF ProcessInv, Running, sessionVars
<1>1. block' = block /\ Used' = Used /\ Live' = Live /\ up \subseteq up'
  BY DEF MoveSummarized, CreateHeap, NullCall, Used, Live
<1>2. ProcessTypeOK'
  <2>1. CASE MoveSummarized(t)
    BY <1>1, <2>1 DEF ProcessTypeOK, Now, MoveSummarized
  <2>2. CASE \E h \in Handles : CreateHeap(h, t)
    BY <1>1, <2>2 DEF ProcessTypeOK, Now, CreateHeap
  <2>3. CASE \E h \in Handles : NullCall(h, t)
    BY <1>1, <2>3 DEF ProcessTypeOK, Now, NullCall
  <2> QED BY <2>1, <2>2, <2>3
<1>3. TimesInOrder'
  BY <1>1, <1>2, ClockGoesOn DEF MoveSummarized, CreateHeap, NullCall
<1>4. OneBlockPerAddress' /\ LiveInUp' /\ MoveInOrder' /\ Ages
  BY <1>1 DEF OneBlockPerAddress, LiveInUp, MoveInOrder, Ages, MoveSummarized, CreateHeap, NullCall
<1> QED BY <1>1, <1>2, <1>3, <1>4 DEF ProcessKept

-------------------------------------------------------------------------------
\* The replay: a step of the process whose record is not replayed, then one lemma
\* for each kind of record.

Skipped ==
    \/ phase = "before" /\ UNCHANGED <<heapVars, excused>>
    \/ lossy /\ UNCHANGED <<heapVars, excused>>
    \/ phase = "recording" /\ ~ lossy /\ ReplayOmits /\ excused' = TRUE

LEMMA Unreplayed ==
    ASSUME MemoryInv, ProcessKept, UNCHANGED sessionVars,
           Skipped
    PROVE  MemoryInv'
<1> USE DEF MemoryInv, MemoryTypeOK, sessionVars, ProcessKept
<1>1. HeapTypeOK' /\ UNCHANGED <<heaps, open, active, allocations>>
  BY DEF HeapTypeOK, Skipped, ReplayOmits, heapVars, Recorded
<1>2. ReplayInv'
  BY <1>1, UnreplayedKeepsReplay
<1>3. CASE phase = "before" /\ UNCHANGED <<heapVars, excused>>
  <2>1. Recorded' = {} /\ active' = {} /\ \A h \in Handles : open'[h] = None
    BY <1>2, <1>3, <1>1 DEF ReplayInv, NothingBefore, HeapTypeOK
  <2>2. ExactSoFar'
    BY <1>3, <2>1 DEF GapInv, ExactSoFar, heapVars
  <2>3. NoGapYet' /\ ~ excused'
    BY <1>3, <2>1 DEF GapInv, NoGapYet, heapVars
  <2> QED BY <1>1, <1>2, <2>2, <2>3 DEF GapInv
<1>4. CASE lossy /\ UNCHANGED <<heapVars, excused>>
  <2>1. ~ complete'
    BY <1>4 DEF GapInv, ExactSoFar, heapVars
  <2> QED BY <1>1, <1>2, <1>4, <2>1 DEF GapInv, ExactSoFar, NoGapYet, heapVars
<1>5. CASE phase = "recording" /\ ~ lossy /\ ReplayOmits /\ excused' = TRUE
  BY <1>1, <1>2, <1>5 DEF GapInv, ExactSoFar, NoGapYet, ReplayOmits
<1> QED BY <1>3, <1>4, <1>5 DEF Skipped

\* The heap of a record's handle is open afterwards, and was not ended.
LEMMA HeapOpened ==
    ASSUME HeapTypeOK, ActiveIsOpen, HeapsApart, phase # "done", NEW h \in Handles, OpenHeap(h)
    PROVE  /\ heaps' \in Seq(OptionalTime) /\ open' \in [Handles -> Nat]
           /\ Len(heaps) <= Len(heaps')
           /\ \A i \in 1 .. Len(heaps) : heaps'[i] = heaps[i]
           /\ open'[h] = HeapFor(h) /\ open'[h] \in 1 .. Len(heaps') /\ heaps'[open'[h]] = None
           /\ \A g \in Handles \ {h} : open'[g] = open[g]
           /\ open[h] # None => open'[h] = open[h]
           /\ \A g \in Handles : open'[g] # None => open'[g] \in 1 .. Len(heaps') /\ heaps'[open'[g]] = None
           /\ \A g \in Handles : open'[g] = open'[h] => g = h
           /\ \A g \in Handles, i \in 1 .. Len(heaps) : open'[g] = i => open[g] = i
<1> USE StampsAreNat DEF HeapTypeOK, OpenHeap
<1>1. CASE open[h] = None
  <2>1. heaps' = Append(heaps, None) /\ open' = [open EXCEPT ![h] = Len(heaps) + 1]
    BY <1>1 DEF HeapFor, HeapsWith
  <2>2. Len(heaps) \in Nat /\ None \in OptionalTime
    BY DEF OptionalTime
  <2>3. Len(heaps') = Len(heaps) + 1 /\ heaps'[Len(heaps) + 1] = None
        /\ \A i \in 1 .. Len(heaps) : heaps'[i] = heaps[i]
    BY <2>1, <2>2
  <2>4. \A g \in Handles : open[g] # Len(heaps) + 1
    BY <2>2 DEF ActiveIsOpen, None
  <2> QED BY <1>1, <2>1, <2>2, <2>3, <2>4 DEF ActiveIsOpen, HeapFor, None
<1>2. CASE open[h] # None
  <2>1. heaps' = heaps /\ open' = open
    BY <1>2 DEF HeapFor, HeapsWith
  <2> QED BY <1>2, <2>1 DEF ActiveIsOpen, HeapsApart, HeapFor, None
<1> QED BY <1>1, <1>2

\* What any record but Create and Destroy does: R is released, D is no longer
\* active, and N is new.
Edits(h, t, R, D, N) ==
    /\ OpenHeap(h) /\ complete' \in BOOLEAN
    /\ R \subseteq D /\ D \subseteq In(h) /\ N \subseteq Blocks \ Used
    /\ active' = (active \ D) \union N
    /\ allocations' = [c \in Blocks |-> allocations'[c]]
    /\ \A c \in Blocks \ (R \union N) : allocations'[c] = allocations[c]
    /\ \A c \in R : allocations'[c] = [allocations[c] EXCEPT !.freed_ts = t, !.end_state = "Freed"]
    /\ \A c \in N : allocations'[c] = NewLifetime(h, block'[c].address, block'[c].size, t)

\* It is sound when what it ends is dead by then, and what is new is.
Sound(h, t, R, D, N) ==
    /\ \A c \in N : c \in Used' /\ block'[c].handle = h /\ block'[c].born = t
    /\ \A c \in D : c \notin Live'
    /\ \A c \in R : block'[c].died <= t

\* It is exact when it ends what dies in its step.
Exact(t, R, D, N) ==
    /\ Used' = Used \union N /\ N \subseteq Live'
    /\ complete' => /\ complete /\ D \subseteq R
                    /\ \A c \in D : block'[c].died = t
                    /\ \A c \in active \ D : c \in Live'

Replaying == UNCHANGED sessionVars /\ phase = "recording" /\ exit = None

LEMMA HeapRecord ==
    ASSUME MemoryInv, ProcessKept, Replaying, NEW h \in Handles, NEW t \in Times,
           NEW R, NEW D, NEW N, Edits(h, t, R, D, N), Sound(h, t, R, D, N)
    PROVE  /\ HeapTypeOK' /\ ReplayInv' /\ Recorded' = Recorded \union N
           /\ \A c \in Recorded \ R : allocations'[c] = allocations[c]
           /\ \A c \in R : allocations'[c].freed_ts = t
<1>a. /\ phase = "recording" /\ phase' = phase /\ captureStart' = captureStart
      /\ OpenHeap(h) /\ complete' \in BOOLEAN
      /\ R \subseteq D /\ D \subseteq In(h) /\ N \subseteq Blocks \ Used
      /\ active' = (active \ D) \union N
  BY DEF Replaying, sessionVars, Edits
<1>b. /\ allocations' = [c \in Blocks |-> allocations'[c]]
      /\ \A c \in Blocks \ (R \union N) : allocations'[c] = allocations[c]
      /\ \A c \in R : allocations'[c] = [allocations[c] EXCEPT !.freed_ts = t, !.end_state = "Freed"]
      /\ \A c \in N : allocations'[c] = NewLifetime(h, block'[c].address, block'[c].size, t)
  BY DEF Edits
<1>c. /\ \A c \in N : c \in Used' /\ block'[c].handle = h /\ block'[c].born = t
      /\ \A c \in D : c \notin Live'
      /\ \A c \in R : block'[c].died <= t
  BY DEF Sound
<1> USE <1>a DEF MemoryInv, MemoryTypeOK, ProcessKept
<1>0. /\ HeapTypeOK /\ ProcessTypeOK' /\ ReplayInv /\ Ages
      /\ phase' = phase
      /\ D \subseteq active /\ active \subseteq Recorded /\ Recorded \subseteq Used
      /\ \A c \in Recorded : allocations[c] \in Lifetime
  BY DEF HeapTypeOK, ReplayInv, SameBlock, sessionVars, In, Recorded, NoLifetime
<1>1. /\ heaps' \in Seq(OptionalTime) /\ open' \in [Handles -> Nat]
      /\ Len(heaps) <= Len(heaps') /\ Len(heaps) \in Nat /\ Len(heaps') \in Nat
      /\ \A i \in 1 .. Len(heaps) : heaps'[i] = heaps[i]
      /\ open'[h] = HeapFor(h) /\ open'[h] \in 1 .. Len(heaps') /\ heaps'[open'[h]] = None
      /\ \A g \in Handles \ {h} : open'[g] = open[g]
      /\ open[h] # None => open'[h] = open[h]
      /\ \A g \in Handles : open'[g] # None => open'[g] \in 1 .. Len(heaps') /\ heaps'[open'[g]] = None
      /\ \A g \in Handles : open'[g] = open'[h] => g = h
      /\ \A g \in Handles, i \in 1 .. Len(heaps) : open'[g] = i => open[g] = i
  BY <1>0, HeapOpened DEF ReplayInv, HeapTypeOK
<1>2. \A c \in N : /\ c \in Blocks /\ c \notin Recorded /\ c \notin R
                   /\ allocations'[c] = NewLifetime(h, block'[c].address, block'[c].size, t)
                   /\ block'[c] \in Generation
  <2> SUFFICES ASSUME NEW c \in N
               PROVE  c \notin Used /\ c \in Blocks /\ block'[c] \in Generation
    BY <1>0, <1>b
  <2>1. c \in Blocks /\ c \in Used'
    BY <1>c
  <2> QED BY <1>0, <2>1 DEF ProcessTypeOK, Used, NotUsed
<1>3. \A c \in Recorded \ R : allocations'[c] = allocations[c]
  BY <1>0, <1>b, <1>2 DEF Recorded
<1>4. ASSUME NEW c \in R
      PROVE  /\ c \in Recorded /\ allocations'[c] \in Lifetime
             /\ allocations'[c].freed_ts = t /\ allocations'[c].end_state = "Freed"
             /\ allocations'[c].handle = allocations[c].handle /\ allocations'[c].heap = allocations[c].heap
             /\ allocations'[c].address = allocations[c].address /\ allocations'[c].size = allocations[c].size
             /\ allocations'[c].allocated_ts = allocations[c].allocated_ts
  <2>1. c \in Recorded /\ c \notin N /\ allocations[c] \in Lifetime
    BY <1>0, <1>2
  <2>2. allocations'[c] = [allocations[c] EXCEPT !.freed_ts = t, !.end_state = "Freed"]
    BY <1>b
  <2> QED BY <2>1, <2>2 DEF Lifetime, OptionalTime
<1>5. ASSUME NEW c \in N
      PROVE  /\ allocations'[c] \in Lifetime /\ allocations'[c].handle = h
             /\ allocations'[c].address = block'[c].address /\ allocations'[c].size = block'[c].size
             /\ allocations'[c].heap = open'[h] /\ allocations'[c].allocated_ts = t
             /\ allocations'[c].freed_ts = None /\ allocations'[c].end_state = "Unknown"
  <2>1. block'[c].address \in Addresses /\ block'[c].size \in Sizes
    BY <1>2 DEF Generation
  <2>2. allocations'[c] = NewLifetime(h, block'[c].address, block'[c].size, t)
    BY <1>2
  <2>3. HeapFor(h) = open'[h] /\ HeapFor(h) \in Nat
    BY <1>1
  <2> QED BY <2>1, <2>2, <2>3 DEF NewLifetime, Lifetime, OptionalTime
<1>6. Recorded' = Recorded \union N
  <2>1. \A c \in Blocks \ (Recorded \union N) : allocations'[c] = allocations[c]
    BY <1>0, <1>b
  <2>2. \A c \in Recorded : allocations'[c].allocated_ts # None
    BY <1>3, <1>4 DEF Recorded
  <2>3. \A c \in N : allocations'[c].allocated_ts # None
    BY <1>5, StampsAreNat
  <2> QED BY <2>1, <2>2, <2>3 DEF Recorded
<1>7. HeapTypeOK'
  <2>1. allocations' \in [Blocks -> Lifetime \union {NoLifetime}]
    <3>1. \A c \in Blocks \ (R \union N) : allocations'[c] = allocations[c]
      BY <1>b
    <3>2. \A c \in Blocks : allocations'[c] \in Lifetime \union {NoLifetime}
      BY <1>0, <1>4, <1>5, <3>1 DEF HeapTypeOK
    <3>3. allocations' = [c \in Blocks |-> allocations'[c]]
      BY <1>b
    <3> HIDE <1>a DEF MemoryInv, MemoryTypeOK, ProcessKept
    <3> QED BY <3>2, <3>3
  <2> QED BY <1>0, <1>1, <1>6, <2>1 DEF HeapTypeOK
<1>8. SameBlock'
  <2> SUFFICES ASSUME NEW c \in Recorded'
               PROVE  /\ c \in Used'
                      /\ allocations'[c].handle = block'[c].handle
                      /\ allocations'[c].address = block'[c].address
                      /\ allocations'[c].size = block'[c].size
                      /\ allocations'[c].allocated_ts = block'[c].born
                      /\ allocations'[c].heap \in 1 .. Len(heaps')
    BY DEF SameBlock
  <2>1. CASE c \in N
    BY <1>1, <1>5, <1>c, <2>1
  <2>2. CASE c \in Recorded
    <3>1. /\ allocations'[c].handle = allocations[c].handle
          /\ allocations'[c].address = allocations[c].address
          /\ allocations'[c].size = allocations[c].size
          /\ allocations'[c].allocated_ts = allocations[c].allocated_ts
          /\ allocations'[c].heap = allocations[c].heap
      BY <1>3, <1>4, <2>2
    <3>2. allocations[c].heap \in 1 .. Len(heaps')
      BY <1>0, <1>1, <2>2 DEF ReplayInv, SameBlock
    <3> QED BY <1>0, <2>2, <3>1, <3>2 DEF ReplayInv, SameBlock, Ages
  <2> QED BY <1>6, <2>1, <2>2
<1>9. EndStates'
  BY <1>0, <1>3, <1>4, <1>5, <1>6, StampsAreNat DEF ReplayInv, EndStates
<1>10. ActiveIsOpen'
  <2>1. \A c \in active \ D : c \in Recorded \ R /\ allocations[c].handle \in Handles
    BY <1>0 DEF Lifetime
  <2>2. ASSUME NEW c \in active'
        PROVE  allocations'[c].freed_ts = None /\ allocations'[c].heap = open'[allocations'[c].handle]
    <3>1. CASE c \in N
      BY <1>5, <3>1
    <3>2. CASE c \in active \ D
      <4>1. allocations'[c] = allocations[c] /\ allocations[c].handle \in Handles /\ c \in active
        BY <1>3, <2>1, <3>2
      <4>2. allocations[c].freed_ts = None /\ allocations[c].heap = open[allocations[c].handle]
            /\ open[allocations[c].handle] # None
        BY <1>0, <4>1 DEF ReplayInv, ActiveIsOpen, SameBlock, None
      <4> QED BY <1>1, <4>1, <4>2
    <3> QED BY <3>1, <3>2
  <2>3. phase' # "done"
    BY <1>0
  <2> QED BY <1>1, <2>2, <2>3 DEF ActiveIsOpen
<1>14. HeapsApart'
  <2>1. \A f, g \in Handles : open'[f] # None /\ open'[f] = open'[g] => f = g
    BY <1>0, <1>1 DEF ReplayInv, HeapsApart
  <2>2. ASSUME NEW c \in Recorded', NEW g \in Handles, allocations'[c].heap = open'[g]
        PROVE  allocations'[c].handle = g
    <3>1. CASE c \in N
      BY <1>1, <1>5, <2>2, <3>1
    <3>2. CASE c \notin N
      <4>1. /\ c \in Recorded /\ allocations'[c].heap = allocations[c].heap
            /\ allocations'[c].handle = allocations[c].handle
        BY <1>3, <1>4, <1>6, <3>2
      <4>2. allocations[c].heap = open[g]
        BY <1>0, <1>1, <2>2, <4>1, ZenonT(40) DEF ReplayInv, SameBlock
      <4> QED BY <1>0, <4>1, <4>2 DEF ReplayInv, HeapsApart
    <3> QED BY <3>1, <3>2
  <2> QED BY <2>1, <2>2 DEF HeapsApart
<1>11. NothingBefore' /\ LiveIsActive'
  <2>1. \A c \in Recorded : c \in Live' => c \in Live
    BY <1>0, <1>c DEF Ages, Live
  <2> QED BY <1>0, <1>c, <1>6, <2>1 DEF ReplayInv, NothingBefore, LiveIsActive
<1>12. DeadByHeapEnd'
  <2> SUFFICES ASSUME NEW c \in Recorded', heaps'[allocations'[c].heap] # None
               PROVE  block'[c].died # None /\ block'[c].died <= heaps'[allocations'[c].heap]
    BY DEF DeadByHeapEnd
  <2>1. c \notin N
    BY <1>1, <1>5
  <2>2. c \in Recorded /\ allocations'[c].heap = allocations[c].heap /\ c \in Used
    BY <1>0, <1>3, <1>4, <1>6, <2>1
  <2>3. heaps'[allocations'[c].heap] = heaps[allocations[c].heap]
    BY <1>0, <1>1, <2>2 DEF ReplayInv, SameBlock
  <2> QED BY <1>0, <2>2, <2>3 DEF ReplayInv, DeadByHeapEnd, Ages
<1>13. FreedIsDead'
  <2>1. \A c \in R : block'[c].died # None /\ block'[c].died <= t
    BY <1>0, <1>c DEF Live, Ages, Used
  <2> QED BY <1>0, <1>3, <1>4, <1>5, <1>6, <2>1 DEF ReplayInv, FreedIsDead, Ages
<1> QED BY <1>3, <1>4, <1>6, <1>7, <1>8, <1>9, <1>10, <1>11, <1>12, <1>13, <1>14 DEF ReplayInv

\* While nothing is missing, such a record ends exactly what dies in its step.
LEMMA HeapRecordExact ==
    ASSUME MemoryInv, ProcessKept, Replaying, NEW h \in Handles, NEW t \in Times,
           NEW R, NEW D, NEW N, Edits(h, t, R, D, N), Sound(h, t, R, D, N), Exact(t, R, D, N)
    PROVE  ExactSoFar'
<1>0. /\ Recorded' = Recorded \union N
      /\ \A c \in Recorded \ R : allocations'[c] = allocations[c]
      /\ \A c \in R : allocations'[c].freed_ts = t
  BY HeapRecord
<1>a. /\ R \subseteq D /\ D \subseteq active /\ N \cap Used = {} /\ N \subseteq Blocks
      /\ active' = (active \ D) \union N
  BY DEF Edits, In
<1>b. /\ Used' = Used \union N /\ N \subseteq Live'
      /\ complete' => /\ complete /\ D \subseteq R
                      /\ \A c \in D : block'[c].died = t
                      /\ \A c \in active \ D : c \in Live'
  BY DEF Exact
<1>1. /\ ExactSoFar /\ active \subseteq Recorded /\ Recorded \subseteq Used
      /\ Ages /\ ProcessTypeOK /\ t \in Nat
  BY StampsAreNat DEF MemoryInv, ProcessKept, GapInv, MemoryTypeOK, HeapTypeOK, ReplayInv, SameBlock
<1>2. /\ phase = "recording" /\ phase' = "recording" /\ exit = None /\ exit' = None
      /\ lossy' = lossy /\ exitSeen' = exitSeen /\ captureStart' = captureStart
  BY DEF sessionVars, Replaying
<1> SUFFICES ASSUME complete' PROVE ExactSoFar'
  BY DEF ExactSoFar
<1>3. /\ complete /\ D \subseteq R /\ \A c \in D : block'[c].died = t
      /\ \A c \in active \ D : c \in Live'
  BY <1>b
<1>4. /\ ~ lossy /\ exitSeen = exit
      /\ {c \in Used : captureStart < block[c].born} \subseteq Recorded
      /\ active \subseteq Live /\ \A c \in active : block[c].died = None
      /\ \A c \in Recorded \ active : allocations[c].freed_ts = block[c].died /\ block[c].died # None
  BY <1>1, <1>2, <1>3 DEF ExactSoFar
<1>5. active' \subseteq Live' /\ \A c \in active' : block'[c].died = exit'
  <2>1. active' \subseteq Live'
    BY <1>a, <1>b, <1>3
  <2> QED BY <1>2, <2>1 DEF Live
<1>6. {c \in Used' : captureStart' < block'[c].born} \subseteq Recorded'
  BY <1>0, <1>1, <1>2, <1>4, <1>b DEF Ages
<1>7. ASSUME NEW c \in Recorded' \ active'
      PROVE  allocations'[c].freed_ts = block'[c].died /\ block'[c].died # None
  <2>1. CASE c \in D
    BY <1>0, <1>3, <2>1, StampsAreNat
  <2>2. CASE c \notin D
    <3>1. c \in Recorded \ active /\ c \notin R
      BY <1>0, <1>a, <2>2
    <3>2. allocations[c].freed_ts = block[c].died /\ block[c].died # None /\ c \in Used
      BY <1>1, <1>4, <3>1
    <3> QED BY <1>0, <1>1, <3>1, <3>2 DEF Ages
  <2> QED BY <2>1, <2>2
<1> QED BY <1>2, <1>4, <1>5, <1>6, <1>7 DEF ExactSoFar

Opens(h) == \A g \in Handles : open'[g] # None => open[g] # None \/ g = h

LEMMA OpensOne ==
    ASSUME HeapTypeOK, NEW h \in Handles, OpenHeap(h)
    PROVE  Opens(h)
BY DEF HeapTypeOK, OpenHeap, Opens

\* An active allocation of an address whose block is live is that block's.
LEMMA ActiveAtAddress ==
    ASSUME MemoryInv, NEW b \in Live, NEW c \in Find(block[b].handle, block[b].address)
    PROVE  c \in Live => c = b
BY DEF MemoryInv, MemoryTypeOK, HeapTypeOK, ReplayInv, ProcessInv, SameBlock, OneBlockPerAddress, Find, In

LEMMA RecordFree ==
    ASSUME MemoryInv, ProcessKept, Replaying,
           NEW b \in Live, NEW t \in Times, clock' = t,
           Live' = Live \ {b}, Used' = Used, block'[b].died = t,
           ReplayFree(block[b].handle, block[b].address, t)
    PROVE  /\ HeapTypeOK' /\ ReplayInv' /\ ExactSoFar' /\ Recorded' = Recorded
           /\ complete' = complete /\ Opens(block[b].handle)
<1> DEFINE h == block[b].handle
           R == Find(h, block[b].address)
<1>1. h \in Handles /\ block[b].address \in Addresses
  BY DEF MemoryInv, MemoryTypeOK, ProcessTypeOK, Live, Used, Generation, NotUsed
<1>2. /\ OpenHeap(h) /\ complete' = complete
      /\ allocations' = Released(R, t) /\ active' = active \ R
  BY DEF ReplayFree
<1>3. R \subseteq In(h) /\ R \subseteq active /\ active \subseteq Recorded /\ Recorded \subseteq Used
  BY DEF Find, In, MemoryInv, MemoryTypeOK, HeapTypeOK, ReplayInv, SameBlock
<1>4. \A c \in R : c \notin Live'
  BY ActiveAtAddress
<1>5. \A c \in R : block'[c].died <= t
  BY <1>3 DEF ProcessKept, ProcessInv, TimesInOrder
<1>6. complete => active \subseteq Live
  BY DEF MemoryInv, GapInv, ExactSoFar, Replaying
<1>7. complete => (\A c \in R : block'[c].died = t) /\ \A c \in active \ R : c \in Live'
  <2>1. \A c \in active : c = b => c \in R
    BY <1>3 DEF Find, In, MemoryInv, ReplayInv, SameBlock
  <2>2. complete => \A c \in R : c = b
    BY <1>3, <1>6, ActiveAtAddress
  <2> QED BY <1>6, <2>1, <2>2
<1>9. complete' \in BOOLEAN /\ R \subseteq Blocks
  BY <1>2, <1>3 DEF MemoryInv, MemoryTypeOK, HeapTypeOK, Recorded
<1> HIDE DEF h, R
<1>8. Edits(h, t, R, R, {}) /\ Sound(h, t, R, R, {}) /\ Exact(t, R, R, {})
  <2>1. Edits(h, t, R, R, {})
    BY <1>2, <1>3, <1>9 DEF Edits, Released
  <2> QED BY <1>2, <1>4, <1>5, <1>7, <2>1 DEF Sound, Exact
<1>10. HeapTypeOK' /\ ReplayInv' /\ Recorded' = Recorded \union {} /\ ExactSoFar'
  BY <1>1, <1>8, HeapRecord, HeapRecordExact
<1> QED BY <1>1, <1>2, <1>10, OpensOne DEF h, MemoryInv, MemoryTypeOK

LEMMA RecordAllocate ==
    ASSUME MemoryInv, ProcessKept, Replaying,
           NEW b \in Blocks \ Used, NEW h \in Handles, NEW a \in Addresses, NEW s \in Sizes,
           NEW t \in Times, clock' = t, At(h, a) = {},
           Live' = Live \union {b}, Used' = Used \union {b},
           block'[b] = [handle |-> h, address |-> a, size |-> s, born |-> t, died |-> None],
           ReplayAllocate(b, h, a, s, t)
    PROVE  /\ HeapTypeOK' /\ ReplayInv' /\ ExactSoFar' /\ Recorded' = Recorded \union {b}
           /\ complete' = complete /\ Opens(h)
<1> DEFINE D == Find(h, a)
<1>2. /\ OpenHeap(h) /\ complete' = (complete /\ D = {})
      /\ allocations' = [allocations EXCEPT ![b] = NewLifetime(h, a, s, t)] /\ active' = (active \ D) \union {b}
  BY DEF ReplayAllocate
<1>3. D \subseteq In(h) /\ D \subseteq active /\ active \subseteq Recorded /\ Recorded \subseteq Used
      /\ allocations \in [Blocks -> Lifetime \union {NoLifetime}] /\ complete \in BOOLEAN
  BY DEF Find, In, MemoryInv, MemoryTypeOK, HeapTypeOK, ReplayInv, SameBlock
<1>4. \A c \in D : c \notin Live /\ c # b
  BY <1>3 DEF Find, In, At, MemoryInv, ReplayInv, SameBlock
<1>6. complete => active \subseteq Live
  BY DEF MemoryInv, GapInv, ExactSoFar, Replaying
<1>7. complete => D = {}
  BY <1>3, <1>4, <1>6
<1> HIDE DEF D
<1>8. Edits(h, t, {}, D, {b})
  <2>1. block'[b].address = a /\ block'[b].size = s
    OBVIOUS
  <2>2. /\ allocations' = [c \in Blocks |-> allocations'[c]]
        /\ \A c \in Blocks \ {b} : allocations'[c] = allocations[c]
        /\ allocations'[b] = NewLifetime(h, a, s, t)
    BY <1>2, <1>3
  <2>3. complete' \in BOOLEAN
    BY <1>2, <1>3
  <2> QED BY <1>2, <1>3, <2>1, <2>2, <2>3 DEF Edits
<1>9. Sound(h, t, {}, D, {b}) /\ Exact(t, {}, D, {b})
  <2>1. Sound(h, t, {}, D, {b})
    BY <1>4 DEF Sound
  <2> QED BY <1>2, <1>6, <1>7, <2>1 DEF Exact
<1>10. HeapTypeOK' /\ ReplayInv' /\ Recorded' = Recorded \union {b} /\ ExactSoFar'
  BY <1>8, <1>9, HeapRecord, HeapRecordExact
<1> QED BY <1>2, <1>3, <1>7, <1>10, OpensOne DEF MemoryInv, MemoryTypeOK

LEMMA RecordResize ==
    ASSUME MemoryInv, ProcessKept, Replaying,
           NEW old \in Live, NEW b \in Blocks \ Used, NEW s \in Sizes, NEW t \in Times, clock' = t,
           Live' = (Live \ {old}) \union {b}, Used' = Used \union {b}, block'[old].died = t,
           block'[b] = [handle |-> block[old].handle, address |-> block[old].address,
                        size |-> s, born |-> t, died |-> None],
           ReplayResize(b, block[old].handle, block[old].address, block[old].size, s, t)
    PROVE  /\ HeapTypeOK' /\ ReplayInv' /\ ExactSoFar' /\ Recorded' = Recorded \union {b}
           /\ complete' = complete /\ Opens(block[old].handle)
<1> DEFINE h == block[old].handle
           a == block[old].address
           R == Find(h, a)
<1>1. h \in Handles /\ a \in Addresses /\ old \in Used
  BY DEF MemoryInv, MemoryTypeOK, ProcessTypeOK, Live, Used, Generation, NotUsed
<1>2. /\ OpenHeap(h) /\ complete' = (complete /\ \A c \in R : allocations[c].size = block[old].size)
      /\ allocations' = [Released(R, t) EXCEPT ![b] = NewLifetime(h, a, s, t)]
      /\ active' = (active \ R) \union {b}
  BY DEF ReplayResize
<1>3. R \subseteq In(h) /\ R \subseteq active /\ active \subseteq Recorded /\ Recorded \subseteq Used
      /\ complete \in BOOLEAN
  BY DEF Find, In, MemoryInv, MemoryTypeOK, HeapTypeOK, ReplayInv, SameBlock
<1>4. \A c \in R : c \notin Live' /\ c # b
  BY <1>3, ActiveAtAddress
<1>5. \A c \in R : block'[c].died <= t
  BY <1>3 DEF ProcessKept, ProcessInv, TimesInOrder
<1>6. complete => active \subseteq Live
  BY DEF MemoryInv, GapInv, ExactSoFar, Replaying
<1>7. complete => /\ \A c \in R : block'[c].died = t /\ allocations[c].size = block[old].size
                  /\ \A c \in active \ R : c \in Live'
  <2>1. \A c \in active : c = old => c \in R /\ allocations[c].size = block[old].size
    BY <1>3 DEF Find, In, MemoryInv, ReplayInv, SameBlock
  <2>2. complete => \A c \in R : c = old
    BY <1>3, <1>6, ActiveAtAddress
  <2> QED BY <1>3, <1>6, <2>1, <2>2
<1> HIDE DEF h, a, R
<1>8. Edits(h, t, R, R, {b})
  <2>1. \A c \in R : c # b /\ c \in Blocks
    BY <1>3, <1>4 DEF Recorded
  <2>2. \A c \in Blocks : allocations'[c] = IF c = b THEN NewLifetime(h, a, s, t) ELSE Released(R, t)[c]
    BY <1>2 DEF Released
  <2>3. allocations' = [c \in Blocks |-> allocations'[c]]
    BY <1>2 DEF Released
  <2>4. \A c \in Blocks : Released(R, t)[c] = IF c \in R
             THEN [allocations[c] EXCEPT !.freed_ts = t, !.end_state = "Freed"] ELSE allocations[c]
    BY DEF Released
  <2>5. block'[b].address = a /\ block'[b].size = s
    BY DEF a
  <2>6. complete' \in BOOLEAN
    BY <1>2, <1>3
  <2> QED BY <1>2, <1>3, <2>1, <2>2, <2>3, <2>4, <2>5, <2>6 DEF Edits
<1>9. Sound(h, t, R, R, {b}) /\ Exact(t, R, R, {b})
  <2>1. Sound(h, t, R, R, {b})
    BY <1>4, <1>5 DEF Sound, h
  <2> QED BY <1>2, <1>7, <2>1 DEF Exact
<1>10. HeapTypeOK' /\ ReplayInv' /\ Recorded' = Recorded \union {b} /\ ExactSoFar'
  BY <1>1, <1>8, <1>9, HeapRecord, HeapRecordExact
<1>12. Opens(h)
  BY <1>1, <1>2, OpensOne DEF MemoryInv, MemoryTypeOK
<1> QED BY <1>2, <1>3, <1>7, <1>10, <1>12 DEF h

LEMMA RecordNothing ==
    ASSUME MemoryInv, ProcessKept, Replaying,
           NEW h \in Handles, NEW t \in Times, clock' = t, block' = block, Live' = Live, Used' = Used,
           OpenHeap(h), UNCHANGED <<active, allocations>>, complete' \in BOOLEAN, complete' => complete
    PROVE  /\ HeapTypeOK' /\ ReplayInv' /\ ExactSoFar' /\ Recorded' = Recorded /\ Opens(h)
<1>1. Edits(h, t, {}, {}, {})
  BY DEF Edits, MemoryInv, MemoryTypeOK, HeapTypeOK
<1>2. Sound(h, t, {}, {}, {}) /\ Exact(t, {}, {}, {})
  BY DEF Sound, Exact, MemoryInv, GapInv, ExactSoFar, Replaying
<1>3. HeapTypeOK' /\ ReplayInv' /\ Recorded' = Recorded \union {} /\ ExactSoFar'
  BY <1>1, <1>2, HeapRecord, HeapRecordExact
<1> QED BY <1>3, OpensOne DEF MemoryInv, MemoryTypeOK

\* The facts of ReplayInv that the ends of a heap need.
LEMMA HeapFacts ==
    ASSUME MemoryInv, Replaying
    PROVE  /\ HeapTypeOK /\ ProcessTypeOK /\ Len(heaps) \in Nat
           /\ active \subseteq Recorded /\ Recorded \subseteq Used /\ Recorded \subseteq Blocks
           /\ \A c \in Recorded : /\ allocations[c] \in Lifetime
                                  /\ allocations[c].heap \in 1 .. Len(heaps)
                                  /\ allocations[c].handle = block[c].handle
           /\ \A c \in active : /\ allocations[c].freed_ts = None
                                /\ allocations[c].heap = open[allocations[c].handle]
                                /\ open[allocations[c].handle] # None
           /\ \A g \in Handles : open[g] # None => open[g] \in 1 .. Len(heaps) /\ heaps[open[g]] = None
           /\ phase = "recording" /\ phase' = "recording" /\ exit = None /\ exit' = None
           /\ lossy' = lossy /\ exitSeen' = exitSeen /\ captureStart' = captureStart
<1>1. HeapTypeOK /\ ProcessTypeOK /\ ReplayInv /\ active \subseteq Recorded
  BY DEF MemoryInv, MemoryTypeOK, HeapTypeOK
<1>2. \A c \in Recorded : /\ allocations[c] \in Lifetime
                          /\ allocations[c].heap \in 1 .. Len(heaps)
                          /\ allocations[c].handle = block[c].handle /\ c \in Used
  BY <1>1 DEF HeapTypeOK, ReplayInv, SameBlock, Recorded, NoLifetime
<1>3. /\ \A c \in active : /\ allocations[c].freed_ts = None
                           /\ allocations[c].heap = open[allocations[c].handle]
      /\ \A g \in Handles : open[g] # None => open[g] \in 1 .. Len(heaps) /\ heaps[open[g]] = None
  BY <1>1 DEF ReplayInv, ActiveIsOpen
<1>4. \A c \in active : open[allocations[c].handle] # None
  BY <1>1, <1>2, <1>3 DEF None
<1>5. /\ phase = "recording" /\ phase' = "recording" /\ exit = None /\ exit' = None
      /\ lossy' = lossy /\ exitSeen' = exitSeen /\ captureStart' = captureStart
  BY DEF Replaying, sessionVars
<1> QED BY <1>1, <1>2, <1>3, <1>4, <1>5 DEF HeapTypeOK, Recorded

LEMMA RecordCreate ==
    ASSUME MemoryInv, ProcessKept, Replaying,
           NEW h \in Handles \ up, NEW t \in Times, clock' = t,
           block' = block, Live' = Live, Used' = Used, ReplayCreate(h, t)
    PROVE  /\ HeapTypeOK' /\ ReplayInv' /\ ExactSoFar' /\ Recorded' = Recorded
           /\ complete' = (complete /\ open[h] = None) /\ Opens(h)
<1>0. /\ HeapTypeOK /\ ProcessTypeOK /\ Len(heaps) \in Nat
      /\ active \subseteq Recorded /\ Recorded \subseteq Used /\ Recorded \subseteq Blocks
      /\ \A c \in Recorded : /\ allocations[c] \in Lifetime
                             /\ allocations[c].heap \in 1 .. Len(heaps)
                             /\ allocations[c].handle = block[c].handle
      /\ \A c \in active : /\ allocations[c].freed_ts = None
                           /\ allocations[c].heap = open[allocations[c].handle]
                           /\ open[allocations[c].handle] # None
      /\ \A g \in Handles : open[g] # None => open[g] \in 1 .. Len(heaps) /\ heaps[open[g]] = None
      /\ phase = "recording" /\ phase' = "recording" /\ exit = None /\ exit' = None
      /\ lossy' = lossy /\ exitSeen' = exitSeen /\ captureStart' = captureStart
  BY HeapFacts
<1>a. /\ heaps' = Append(IF open[h] = None THEN heaps ELSE [heaps EXCEPT ![open[h]] = t], None)
      /\ open' = [open EXCEPT ![h] = Len(heaps) + 1]
      /\ active' = active \ In(h) /\ allocations' = allocations /\ Recorded' = Recorded
      /\ complete' = (complete /\ open[h] = None)
  BY DEF ReplayCreate, Recorded
<1>i. ReplayInv /\ ExactSoFar /\ LiveInUp /\ TimesInOrder' /\ t \in Nat /\ t # None
  BY StampsAreNat DEF MemoryInv, ProcessKept, ProcessInv, GapInv
<1>1. /\ heaps' \in Seq(OptionalTime) /\ Len(heaps') = Len(heaps) + 1
      /\ heaps'[Len(heaps) + 1] = None
      /\ \A i \in 1 .. Len(heaps) : heaps'[i] = IF i = open[h] THEN t ELSE heaps[i]
  <2> DEFINE H == IF open[h] = None THEN heaps ELSE [heaps EXCEPT ![open[h]] = t]
  <2>1. /\ H \in Seq(OptionalTime) /\ Len(H) = Len(heaps)
        /\ \A i \in 1 .. Len(heaps) : H[i] = IF i = open[h] THEN t ELSE heaps[i]
    <3>1. CASE open[h] = None
      BY <1>0, <3>1 DEF HeapTypeOK, None
    <3>2. CASE open[h] # None
      BY <1>0, <3>2 DEF HeapTypeOK, OptionalTime
    <3> QED BY <3>1, <3>2
  <2>2. heaps' = Append(H, None) /\ None \in OptionalTime
    BY <1>a DEF OptionalTime
  <2> HIDE DEF H
  <2> QED BY <1>0, <2>1, <2>2
<1>2. /\ open' \in [Handles -> Nat] /\ open'[h] = Len(heaps) + 1
      /\ \A g \in Handles \ {h} : open'[g] = open[g]
  BY <1>0, <1>a DEF HeapTypeOK
<1>3. In(h) = {c \in active : allocations[c].handle = h}
  BY DEF In
<1>4. HeapTypeOK'
  BY <1>0, <1>1, <1>2, <1>a DEF HeapTypeOK
<1>5. \A g \in Handles \ {h} : open[g] # None =>
         open'[g] = open[g] /\ open[g] \in 1 .. Len(heaps) /\ open[g] # open[h] /\ heaps'[open[g]] = None
  BY <1>0, <1>1, <1>2, <1>i DEF ReplayInv, HeapsApart
<1>6. SameBlock' /\ EndStates'
  BY <1>0, <1>1, <1>a, <1>i DEF ReplayInv, SameBlock, EndStates
<1>7. ActiveIsOpen'
  <2>1. \A c \in active' : c \in active /\ allocations[c].handle \in Handles \ {h}
    BY <1>0, <1>3, <1>a DEF Lifetime
  <2> QED BY <1>0, <1>1, <1>2, <1>5, <1>a, <2>1 DEF ActiveIsOpen
<1>8. HeapsApart'
  <2>1. \A g \in Handles \ {h} : open'[g] # open'[h]
    BY <1>0, <1>2 DEF None
  <2>2. \A f, g \in Handles : open'[f] # None /\ open'[f] = open'[g] => f = g
    BY <1>2, <1>i, <2>1 DEF ReplayInv, HeapsApart
  <2>3. \A c \in Recorded : allocations[c].heap # open'[h]
    BY <1>0, <1>2
  <2> QED BY <1>2, <1>a, <1>i, <2>2, <2>3 DEF ReplayInv, HeapsApart
<1>9. NothingBefore' /\ LiveIsActive'
  <2>1. \A c \in Live : block[c].handle # h
    BY <1>i DEF LiveInUp
  <2> QED BY <1>0, <1>3, <1>a, <1>i, <2>1 DEF ReplayInv, NothingBefore, LiveIsActive
<1>10. DeadByHeapEnd'
  <2> SUFFICES ASSUME NEW c \in Recorded, heaps'[allocations[c].heap] # None
               PROVE  block[c].died # None /\ block[c].died <= heaps'[allocations[c].heap]
    BY <1>a DEF DeadByHeapEnd
  <2>1. CASE allocations[c].heap = open[h]
    <3>1. block[c].handle = h
      BY <1>0, <1>i, <2>1 DEF ReplayInv, HeapsApart
    <3>2. c \notin Live /\ c \in Used
      BY <1>0, <1>i, <3>1 DEF LiveInUp
    <3>3. block[c].died <= t
      BY <3>2, <1>i DEF TimesInOrder
    <3> QED BY <1>0, <1>1, <2>1, <3>2, <3>3 DEF Live
  <2>2. CASE allocations[c].heap # open[h]
    BY <1>0, <1>1, <1>i, <2>2 DEF ReplayInv, DeadByHeapEnd
  <2> QED BY <2>1, <2>2
<1>11. FreedIsDead'
  BY <1>a, <1>i DEF ReplayInv, FreedIsDead
<1>12. ExactSoFar'
  <2> SUFFICES ASSUME complete' PROVE ExactSoFar'
    BY DEF ExactSoFar
  <2>1. complete /\ open[h] = None
    BY <1>a
  <2>2. active' = active
    BY <1>0, <1>3, <1>a, <2>1
  <2> QED BY <1>0, <1>a, <1>i, <2>1, <2>2 DEF ExactSoFar
<1>13. Opens(h)
  BY <1>2 DEF Opens
<1> QED BY <1>4, <1>6, <1>7, <1>8, <1>9, <1>10, <1>11, <1>12, <1>13, <1>a DEF ReplayInv

LEMMA RecordDestroy ==
    ASSUME MemoryInv, ProcessKept, Replaying,
           NEW h \in Handles, NEW t \in Times, clock' = t,
           Used' = Used, Live' = {c \in Live : block[c].handle # h},
           \A c \in Live \ Live' : block'[c].died = t, ReplayDestroy(h, t)
    PROVE  /\ HeapTypeOK' /\ ReplayInv' /\ ExactSoFar' /\ Recorded' = Recorded
           /\ complete' = complete /\ Opens(h) /\ open'[h] = None
<1>0. /\ HeapTypeOK /\ ProcessTypeOK /\ Len(heaps) \in Nat
      /\ active \subseteq Recorded /\ Recorded \subseteq Used /\ Recorded \subseteq Blocks
      /\ \A c \in Recorded : /\ allocations[c] \in Lifetime
                             /\ allocations[c].heap \in 1 .. Len(heaps)
                             /\ allocations[c].handle = block[c].handle
      /\ \A c \in active : /\ allocations[c].freed_ts = None
                           /\ allocations[c].heap = open[allocations[c].handle]
                           /\ open[allocations[c].handle] # None
      /\ \A g \in Handles : open[g] # None => open[g] \in 1 .. Len(heaps) /\ heaps[open[g]] = None
      /\ phase = "recording" /\ phase' = "recording" /\ exit = None /\ exit' = None
      /\ lossy' = lossy /\ exitSeen' = exitSeen /\ captureStart' = captureStart
  BY HeapFacts
<1>a. /\ heaps' = [HeapsWith(h) EXCEPT ![HeapFor(h)] = t]
      /\ open' = [open EXCEPT ![h] = None]
      /\ active' = active \ In(h) /\ allocations' = Released(In(h), t) /\ complete' = complete
  BY DEF ReplayDestroy
<1>i. /\ ReplayInv /\ ExactSoFar /\ LiveInUp /\ TimesInOrder' /\ t \in Nat /\ t # None /\ t \in OptionalTime
      /\ Ages
  BY StampsAreNat DEF MemoryInv, ProcessKept, ProcessInv, GapInv, OptionalTime
<1>1. /\ heaps' \in Seq(OptionalTime) /\ Len(heaps') \in Nat /\ Len(heaps) <= Len(heaps')
      /\ \A i \in 1 .. Len(heaps) : heaps'[i] = IF i = open[h] THEN t ELSE heaps[i]
  <2>1. CASE open[h] = None
    <3>1. HeapsWith(h) = Append(heaps, None) /\ HeapFor(h) = Len(heaps) + 1
      BY <2>1 DEF HeapsWith, HeapFor
    <3>2. /\ Append(heaps, None) \in Seq(OptionalTime) /\ Len(Append(heaps, None)) = Len(heaps) + 1
          /\ \A i \in 1 .. Len(heaps) : Append(heaps, None)[i] = heaps[i]
      BY <1>0 DEF HeapTypeOK, OptionalTime
    <3>3. \A i \in 1 .. Len(heaps) : i # open[h] /\ i # Len(heaps) + 1
      BY <1>0, <2>1 DEF None
    <3> DEFINE H == Append(heaps, None)
    <3>4. heaps' = [H EXCEPT ![Len(heaps) + 1] = t]
      BY <1>a, <3>1
    <3>5. H \in Seq(OptionalTime) /\ Len(H) = Len(heaps) + 1 /\ \A i \in 1 .. Len(heaps) : H[i] = heaps[i]
      BY <3>2
    <3> HIDE DEF H
    <3> QED BY <1>0, <1>i, <3>3, <3>4, <3>5
  <2>2. CASE open[h] # None
    <3>1. heaps' = [heaps EXCEPT ![open[h]] = t]
      BY <1>a, <2>2 DEF HeapsWith, HeapFor
    <3> QED BY <1>0, <1>i, <2>2, <3>1 DEF HeapTypeOK
  <2> QED BY <2>1, <2>2
<1>2. /\ open' \in [Handles -> Nat] /\ open'[h] = None
      /\ \A g \in Handles \ {h} : open'[g] = open[g]
  BY <1>0, <1>a DEF HeapTypeOK, None
<1>3. In(h) = {c \in active : allocations[c].handle = h} /\ In(h) \subseteq Recorded
  BY <1>0 DEF In
<1>4. /\ \A c \in Blocks \ In(h) : allocations'[c] = allocations[c]
      /\ allocations' = [c \in Blocks |-> allocations'[c]]
  BY <1>a DEF Released
<1>5. ASSUME NEW c \in In(h)
      PROVE  /\ allocations'[c] \in Lifetime
             /\ allocations'[c].freed_ts = t /\ allocations'[c].end_state = "Freed"
             /\ allocations'[c].handle = allocations[c].handle /\ allocations'[c].heap = allocations[c].heap
             /\ allocations'[c].address = allocations[c].address /\ allocations'[c].size = allocations[c].size
             /\ allocations'[c].allocated_ts = allocations[c].allocated_ts
  <2>1. allocations[c] \in Lifetime /\ c \in Blocks
    BY <1>0, <1>3
  <2>2. allocations'[c] = [allocations[c] EXCEPT !.freed_ts = t, !.end_state = "Freed"]
    BY <1>a, <2>1 DEF Released
  <2> QED BY <1>i, <2>1, <2>2 DEF Lifetime
<1>6. \A c \in In(h) : c \notin Live' /\ block'[c].died # None /\ block'[c].died <= t
  <2>1. \A c \in In(h) : c \in Used' /\ c \notin Live'
    BY <1>0, <1>3
  <2> QED BY <1>i, <2>1 DEF Live, TimesInOrder
<1>7. Recorded' = Recorded
  <2>1. \A c \in Recorded : allocations'[c].allocated_ts # None
    BY <1>0, <1>4, <1>5 DEF Recorded
  <2>2. \A c \in Blocks \ Recorded : allocations'[c] = allocations[c]
    BY <1>3, <1>4
  <2> QED BY <2>1, <2>2 DEF Recorded
<1>8. HeapTypeOK'
  <2>1. \A c \in Blocks : allocations'[c] \in Lifetime \union {NoLifetime}
    BY <1>0, <1>4, <1>5 DEF HeapTypeOK
  <2> QED BY <1>0, <1>1, <1>2, <1>4, <1>7, <1>a, <2>1 DEF HeapTypeOK
<1>9. \A c \in Recorded : /\ allocations'[c].handle = allocations[c].handle
                          /\ allocations'[c].heap = allocations[c].heap
                          /\ allocations'[c].address = allocations[c].address
                          /\ allocations'[c].size = allocations[c].size
                          /\ allocations'[c].allocated_ts = allocations[c].allocated_ts
  BY <1>0, <1>4, <1>5
<1>10. SameBlock'
  BY <1>0, <1>1, <1>7, <1>9, <1>i DEF ReplayInv, SameBlock, Ages
<1>11. EndStates'
  <2>1. ASSUME NEW c \in Recorded
        PROVE  /\ (allocations'[c].freed_ts # None) <=> (allocations'[c].end_state = "Freed")
               /\ allocations'[c].end_state # "LiveAtCaptureEnd"
    <3>1. CASE c \in In(h)
      BY <1>5, <1>i, <3>1
    <3>2. CASE c \notin In(h)
      BY <1>0, <1>4, <1>i, <3>2 DEF ReplayInv, EndStates
    <3> QED BY <3>1, <3>2
  <2> QED BY <1>7, <2>1 DEF EndStates
<1>12. ActiveIsOpen'
  <2>1. \A c \in active' : c \in active /\ allocations'[c] = allocations[c] /\ allocations[c].handle \in Handles \ {h}
    BY <1>0, <1>3, <1>4, <1>a DEF Lifetime
  <2>2. \A g \in Handles : open'[g] # None =>
           open'[g] = open[g] /\ open[g] # open[h] /\ open[g] \in 1 .. Len(heaps)
    BY <1>0, <1>2, <1>i DEF ReplayInv, HeapsApart
  <2>3. \A g \in Handles : open'[g] # None => open'[g] \in 1 .. Len(heaps') /\ heaps'[open'[g]] = None
    BY <1>0, <1>1, <2>2
  <2> QED BY <1>0, <1>2, <2>1, <2>3 DEF ActiveIsOpen
<1>13. HeapsApart'
  <2>1. \A f, g \in Handles : open'[f] # None /\ open'[f] = open'[g] => f = g
    BY <1>2, <1>i DEF ReplayInv, HeapsApart
  <2>2. \A c \in Recorded : allocations'[c].heap # None
    BY <1>0, <1>9 DEF None
  <2> QED BY <1>2, <1>7, <1>9, <1>i, <2>1, <2>2 DEF ReplayInv, HeapsApart
<1>14. NothingBefore' /\ LiveIsActive'
  <2>1. \A c \in Live' : c \in Live /\ block[c].handle # h
    OBVIOUS
  <2> QED BY <1>0, <1>3, <1>7, <1>a, <1>i, <2>1 DEF ReplayInv, NothingBefore, LiveIsActive
<1>15. DeadByHeapEnd'
  <2> SUFFICES ASSUME NEW c \in Recorded, heaps'[allocations[c].heap] # None
               PROVE  block'[c].died # None /\ block'[c].died <= heaps'[allocations[c].heap]
    BY <1>7, <1>9 DEF DeadByHeapEnd
  <2>1. CASE allocations[c].heap = open[h]
    <3>1. block[c].handle = h
      BY <1>0, <1>i, <2>1 DEF ReplayInv, HeapsApart
    <3>2. c \notin Live' /\ c \in Used'
      BY <1>0, <3>1
    <3>3. block'[c].died <= t
      BY <3>2, <1>i DEF TimesInOrder
    <3> QED BY <1>0, <1>1, <2>1, <3>2, <3>3 DEF Live
  <2>2. CASE allocations[c].heap # open[h]
    BY <1>0, <1>1, <1>i, <2>2 DEF ReplayInv, DeadByHeapEnd, Ages
  <2> QED BY <2>1, <2>2
<1>16. FreedIsDead'
  <2> SUFFICES ASSUME NEW c \in Recorded, allocations'[c].freed_ts # None
               PROVE  block'[c].died # None /\ block'[c].died <= allocations'[c].freed_ts
    BY <1>7 DEF FreedIsDead
  <2>1. CASE c \in In(h)
    BY <1>5, <1>6, <2>1
  <2>2. CASE c \notin In(h)
    BY <1>0, <1>4, <1>i, <2>2 DEF ReplayInv, FreedIsDead, Ages
  <2> QED BY <2>1, <2>2
<1>17. ExactSoFar'
  <2> SUFFICES ASSUME complete' PROVE ExactSoFar'
    BY DEF ExactSoFar
  <2>1. /\ complete /\ ~ lossy /\ exitSeen = exit
        /\ {c \in Used : captureStart < block[c].born} \subseteq Recorded
        /\ active \subseteq Live
        /\ \A c \in Recorded \ active : allocations[c].freed_ts = block[c].died /\ block[c].died # None
    BY <1>0, <1>a, <1>i DEF ExactSoFar
  <2>2. active' \subseteq Live' /\ \A c \in active' : block'[c].died = exit'
    <3>1. active' \subseteq Live'
      BY <1>0, <1>3, <1>a, <2>1
    <3> QED BY <1>0, <3>1 DEF Live
  <2>3. {c \in Used' : captureStart' < block'[c].born} \subseteq Recorded'
    BY <1>0, <1>7, <1>i, <2>1 DEF Ages
  <2>4. ASSUME NEW c \in Recorded' \ active'
        PROVE  allocations'[c].freed_ts = block'[c].died /\ block'[c].died # None
    <3>1. CASE c \in In(h)
      <4>1. c \in Live /\ c \notin Live'
        BY <1>3, <1>6, <2>1, <3>1
      <4> QED BY <1>5, <1>i, <3>1, <4>1
    <3>2. CASE c \notin In(h)
      <4>1. c \in Recorded \ active /\ c \in Used /\ allocations'[c] = allocations[c]
        BY <1>0, <1>4, <1>7, <1>a, <3>2
      <4> QED BY <1>i, <2>1, <4>1 DEF Ages
    <3> QED BY <3>1, <3>2
  <2> QED BY <1>0, <2>1, <2>2, <2>3, <2>4 DEF ExactSoFar
<1>18. Opens(h)
  BY <1>2 DEF Opens
<1> QED BY <1>2, <1>7, <1>8, <1>10, <1>11, <1>12, <1>13, <1>14, <1>15, <1>16, <1>17, <1>18, <1>a DEF ReplayInv

-------------------------------------------------------------------------------
\* Every step keeps MemoryInv.

\* A replayed record leaves no gap that has no cause.
LEMMA Replayed ==
    ASSUME MemoryInv, ProcessKept, Replaying, HeapTypeOK', ReplayInv', ExactSoFar',
           excused => excused', lossy => ~ excused',
           NEW h \in Handles, Opens(h), open'[h] # None => h \in up', up \ {h} \subseteq up',
           ~ lossy /\ ~ excused' => complete',
           ~ lossy /\ ~ excused' => MoveSeen'
    PROVE  MemoryInv'
<1>1. NoGapYet'
  <2> SUFFICES ASSUME ~ lossy', ~ excused' PROVE complete' /\ MoveSeen'
                         /\ \A g \in Handles : open'[g] # None => g \in up'
    BY DEF NoGapYet
  <2>1. ~ lossy /\ ~ excused /\ exit = None
    BY DEF Replaying, sessionVars
  <2>2. \A g \in Handles : open[g] # None => g \in up
    BY <2>1 DEF MemoryInv, GapInv, NoGapYet
  <2> QED BY <2>1, <2>2 DEF Opens
<1>2. lossy' = lossy /\ phase' = "recording"
  BY DEF Replaying, sessionVars
<1> QED BY <1>1, <1>2 DEF MemoryInv, MemoryTypeOK, ProcessKept, GapInv

\* A move under way stays as it is unless its old address is handed out again.
LEMMA MoveStaysSeen ==
    ASSUME MemoryInv, ProcessKept, Replaying, ~ lossy, ~ excused, moving' = moving,
           Recorded \subseteq Recorded',
           \A c \in Live' \ Live : moving # NotMoving /\ moving.stage = "freed" =>
               ~ (block'[c].handle = block[moving.old].handle /\ block'[c].address = block[moving.old].address)
    PROVE  MoveSeen'
<1>1. MoveSeen /\ Ages
  BY DEF MemoryInv, ProcessKept, GapInv, NoGapYet, Replaying
<1> SUFFICES ASSUME moving # NotMoving
             PROVE  /\ moving.new \in Recorded'
                    /\ moving.stage = "freed" => At(block[moving.old].handle, block[moving.old].address)' = {}
  BY DEF MoveSeen
<1>2. moving.new \in Recorded'
  BY <1>1 DEF MoveSeen
<1>3. moving.old \in Used
  BY DEF MemoryInv, MemoryTypeOK, ProcessTypeOK
<1>4. ASSUME moving.stage = "freed" PROVE At(block[moving.old].handle, block[moving.old].address)' = {}
  <2>1. block'[moving.old].handle = block[moving.old].handle /\ block'[moving.old].address = block[moving.old].address
    BY <1>1, <1>3 DEF Ages
  <2>2. At(block[moving.old].handle, block[moving.old].address) = {}
    BY <1>1, <1>4 DEF MoveSeen
  <2>3. \A c \in Live' \cap Live : block'[c].handle = block[c].handle /\ block'[c].address = block[c].address
    BY <1>1 DEF Ages, Live
  <2> QED BY <1>4, <2>1, <2>2, <2>3 DEF At
<1> QED BY <1>2, <1>4

LEMMA FreeBlockKeeps ==
    ASSUME MemoryInv, NEW t \in Times, NEW b \in Blocks, FreeBlock(b, t)
    PROVE  MemoryInv'
<1> DEFINE h == block[b].handle
<1>1. /\ Running /\ Now(t) /\ b \in Live /\ b \notin InMove /\ block' = Dies({b}, t)
      /\ up' = up /\ moving' = moving /\ UNCHANGED sessionVars
      /\ Observed(ReplayFree(h, block[b].address, t), FALSE)
  BY DEF FreeBlock
<1>2. /\ ProcessTypeOK /\ ProcessInv /\ HeapTypeOK /\ LiveInUp /\ excused \in BOOLEAN
      /\ (lossy => ~ excused)
  BY DEF MemoryInv, MemoryTypeOK, ProcessTypeOK, ProcessInv, GapInv
<1>3. \/ Skipped
      \/ phase = "recording" /\ ReplayFree(h, block[b].address, t) /\ excused' = excused
  BY <1>1, <1>2 DEF Observed, Skipped
<1>4. excused' \in BOOLEAN
  BY <1>2, <1>3 DEF Skipped
<1>5. ProcessKept
  BY <1>2, <1>4, ProcessFrees
<1>6. CASE Skipped
  BY <1>1, <1>5, <1>6, Unreplayed
<1>7. CASE phase = "recording" /\ ReplayFree(h, block[b].address, t) /\ excused' = excused
  <2>1. /\ Used' = Used /\ Live' = Live \ {b} /\ block'[b].died = t
        /\ h \in Handles /\ h \in up
    <3>1. {b} \in SUBSET Live
      BY <1>1
    <3>2. /\ Used' = Used /\ Live' = Live \ {b}
          /\ block[b] \in Generation /\ block'[b] = [block[b] EXCEPT !.died = t]
      BY <1>1, <1>2, <3>1, Death
    <3> QED BY <1>1, <1>2, <3>2 DEF Generation, LiveInUp
  <2>2. Replaying /\ clock' = t
    BY <1>1, <1>7 DEF Replaying, Running, Now
  <2>3. HeapTypeOK' /\ ReplayInv' /\ ExactSoFar' /\ Recorded' = Recorded /\ complete' = complete /\ Opens(h)
    BY <1>1, <1>5, <1>7, <2>1, <2>2, RecordFree
  <2>4. ~ lossy /\ ~ excused => MoveSeen'
    BY <1>1, <1>5, <2>1, <2>2, <2>3, MoveStaysSeen
  <2>5. ~ lossy /\ ~ excused => complete
    BY DEF MemoryInv, GapInv, NoGapYet
  <2> HIDE DEF h
  <2> QED BY <1>1, <1>2, <1>5, <1>7, <2>1, <2>2, <2>3, <2>4, <2>5, Replayed
<1> QED BY <1>3, <1>6, <1>7

LEMMA AllocateBlockKeeps ==
    ASSUME MemoryInv, NEW t \in Times, NEW b \in Blocks, NEW h \in Handles, NEW a \in Addresses,
           NEW s \in Sizes, AllocateBlock(b, h, a, s, t)
    PROVE  MemoryInv'
<1> DEFINE e == moving # NotMoving /\ block[moving.old].handle = h /\ block[moving.old].address = a
           replays == /\ phase = "recording" /\ ReplayAllocate(b, h, a, s, t)
                      /\ excused' = (excused \/ (e /\ ~ lossy))
<1>1. /\ Running /\ Now(t) /\ h \in up /\ b \in Blocks \ Used /\ At(h, a) = {}
      /\ block' = [block EXCEPT ![b] = Starts(b, h, a, s, t)]
      /\ up' = up /\ moving' = moving /\ UNCHANGED sessionVars
      /\ Observed(ReplayAllocate(b, h, a, s, t), e)
  BY DEF AllocateBlock
<1> HIDE DEF e
<1>2. /\ ProcessTypeOK /\ ProcessInv /\ HeapTypeOK /\ excused \in BOOLEAN /\ lossy \in BOOLEAN
      /\ (lossy => ~ excused)
  BY DEF MemoryInv, MemoryTypeOK, ProcessTypeOK, GapInv
<1>3. Skipped \/ replays
  BY <1>1, <1>2 DEF Observed, Skipped
<1>4. excused' \in BOOLEAN
  BY <1>2, <1>3 DEF Skipped
<1>5. ProcessKept
  BY <1>2, <1>4, ProcessAllocates
<1>6. CASE Skipped
  BY <1>1, <1>5, <1>6, Unreplayed
<1>7. CASE replays
  <2>1. /\ Used' = Used \union {b} /\ Live' = Live \union {b}
        /\ block'[b] = [handle |-> h, address |-> a, size |-> s, born |-> t, died |-> None]
    BY <1>1, <1>2, Birth
  <2>2. Replaying /\ clock' = t
    BY <1>1, <1>7 DEF Replaying, Running, Now
  <2>3. /\ HeapTypeOK' /\ ReplayInv' /\ ExactSoFar' /\ Recorded' = Recorded \union {b}
        /\ complete' = complete /\ Opens(h)
    BY <1>1, <1>5, <1>7, <2>1, <2>2, RecordAllocate
  <2>4. ASSUME ~ lossy, ~ excused' PROVE complete' /\ MoveSeen'
    <3>1. ~ excused /\ ~ e
      BY <1>7, <2>4
    <3>2. \A c \in Live' \ Live : moving # NotMoving =>
             ~ (block'[c].handle = block[moving.old].handle /\ block'[c].address = block[moving.old].address)
      BY <2>1, <3>1 DEF e
    <3> QED BY <1>1, <1>5, <2>2, <2>3, <2>4, <3>1, <3>2, MoveStaysSeen DEF MemoryInv, GapInv, NoGapYet
  <2>5. (excused => excused') /\ (lossy => ~ excused')
    BY <1>2, <1>7
  <2> QED BY <1>1, <1>5, <2>2, <2>3, <2>4, <2>5, Replayed
<1> QED BY <1>3, <1>6, <1>7

LEMMA ResizeBlockKeeps ==
    ASSUME MemoryInv, NEW t \in Times, NEW old \in Blocks, NEW b \in Blocks, NEW s \in Sizes,
           ResizeBlock(old, b, s, t)
    PROVE  MemoryInv'
<1> DEFINE h == block[old].handle
           a == block[old].address
           replays == /\ phase = "recording" /\ excused' = excused
                      /\ ReplayResize(b, h, a, block[old].size, s, t)
<1>1. /\ Running /\ Now(t) /\ old \in Live /\ b \in Blocks \ Used
      /\ up' = up /\ moving' = moving /\ UNCHANGED sessionVars
      /\ Observed(ReplayResize(b, h, a, block[old].size, s, t), FALSE)
  BY DEF ResizeBlock
<1>2. /\ ProcessTypeOK /\ ProcessInv /\ HeapTypeOK /\ LiveInUp /\ excused \in BOOLEAN
      /\ (lossy => ~ excused)
  BY DEF MemoryInv, MemoryTypeOK, ProcessTypeOK, ProcessInv, GapInv
<1>3. Skipped \/ replays
  BY <1>1, <1>2 DEF Observed, Skipped
<1>4. excused' \in BOOLEAN
  BY <1>2, <1>3 DEF Skipped
<1>5. /\ ProcessKept
      /\ Used' = Used \union {b} /\ Live' = (Live \ {old}) \union {b}
      /\ block'[old].died = t
      /\ block'[b] = [handle |-> h, address |-> a, size |-> s, born |-> t, died |-> None]
  BY <1>2, <1>4, ProcessResizes
<1>6. CASE Skipped
  BY <1>1, <1>5, <1>6, Unreplayed
<1>7. CASE replays
  <2>1. h \in Handles /\ h \in up
    BY <1>1, <1>2 DEF LiveInUp, ProcessTypeOK, Live, Used, Generation, NotUsed
  <2>2. Replaying /\ clock' = t
    BY <1>1, <1>7 DEF Replaying, Running, Now
  <2>3. /\ HeapTypeOK' /\ ReplayInv' /\ ExactSoFar' /\ Recorded' = Recorded \union {b}
        /\ complete' = complete /\ Opens(h)
    BY <1>1, <1>5, <1>7, <2>2, RecordResize
  <2>4. ASSUME ~ lossy, ~ excused PROVE complete' /\ MoveSeen'
    <3>1. complete /\ MoveSeen
      BY <2>2, <2>4 DEF MemoryInv, GapInv, NoGapYet, Replaying
    <3>2. \A c \in Live' \ Live : moving # NotMoving /\ moving.stage = "freed" =>
             ~ (block'[c].handle = block[moving.old].handle /\ block'[c].address = block[moving.old].address)
      BY <1>1, <1>5, <3>1 DEF MoveSeen, At
    <3> HIDE DEF h, a
    <3> QED BY <1>1, <1>5, <2>2, <2>3, <2>4, <3>1, <3>2, MoveStaysSeen
  <2> HIDE DEF h, a
  <2> QED BY <1>1, <1>2, <1>5, <1>7, <2>1, <2>2, <2>3, <2>4, Replayed
<1> QED BY <1>3, <1>6, <1>7

LEMMA MoveAllocatesKeeps ==
    ASSUME MemoryInv, NEW t \in Times, NEW old \in Blocks, NEW b \in Blocks, NEW a \in Addresses,
           NEW s \in Sizes, MoveAllocates(old, b, a, s, t)
    PROVE  MemoryInv'
<1> DEFINE h == block[old].handle
           replays == phase = "recording" /\ excused' = excused /\ ReplayAllocate(b, h, a, s, t)
<1>1. /\ Running /\ Now(t) /\ old \in Live /\ b \in Blocks \ Used /\ At(h, a) = {}
      /\ block' = [block EXCEPT ![b] = Starts(b, h, a, s, t)]
      /\ moving' = [stage |-> "allocated", old |-> old, new |-> b]
      /\ up' = up /\ UNCHANGED sessionVars
      /\ Observed(ReplayAllocate(b, h, a, s, t), FALSE)
  BY DEF MoveAllocates
<1>2. /\ ProcessTypeOK /\ ProcessInv /\ HeapTypeOK /\ LiveInUp /\ excused \in BOOLEAN
      /\ (lossy => ~ excused)
  BY DEF MemoryInv, MemoryTypeOK, ProcessTypeOK, ProcessInv, GapInv
<1>3. Skipped \/ replays
  BY <1>1, <1>2 DEF Observed, Skipped
<1>4. excused' \in BOOLEAN
  BY <1>2, <1>3 DEF Skipped
<1>5. ProcessKept
  BY <1>2, <1>4, ProcessMoves
<1>6. CASE Skipped
  BY <1>1, <1>5, <1>6, Unreplayed
<1>7. CASE replays
  <2>0. h \in Handles /\ h \in up
    BY <1>1, <1>2 DEF LiveInUp, ProcessTypeOK, Live, Used, Generation, NotUsed
  <2> HIDE DEF h
  <2>1. /\ Used' = Used \union {b} /\ Live' = Live \union {b}
        /\ block'[b] = [handle |-> h, address |-> a, size |-> s, born |-> t, died |-> None]
    BY <1>1, <1>2, <2>0, Birth
  <2>2. Replaying /\ clock' = t
    BY <1>1, <1>7 DEF Replaying, Running, Now
  <2>3. /\ HeapTypeOK' /\ ReplayInv' /\ ExactSoFar' /\ Recorded' = Recorded \union {b}
        /\ complete' = complete /\ Opens(h)
    BY <1>1, <1>5, <1>7, <2>0, <2>1, <2>2, RecordAllocate
  <2>4. MoveSeen'
    BY <1>1, <2>3 DEF MoveSeen
  <2>5. ~ lossy /\ ~ excused => complete
    BY DEF MemoryInv, GapInv, NoGapYet
  <2> QED BY <1>1, <1>2, <1>5, <1>7, <2>0, <2>2, <2>3, <2>4, <2>5, Replayed
<1> QED BY <1>3, <1>6, <1>7

LEMMA MoveFreesKeeps ==
    ASSUME MemoryInv, NEW t \in Times, MoveFrees(t)
    PROVE  MemoryInv'
<1> DEFINE old == moving.old
           h == block[old].handle
           a == block[old].address
           replays == phase = "recording" /\ excused' = excused /\ ReplayFree(h, a, t)
<1>1. /\ Running /\ Now(t) /\ moving.stage = "allocated" /\ block' = Dies({old}, t)
      /\ up' = up /\ moving' = [moving EXCEPT !.stage = "freed"] /\ UNCHANGED sessionVars
      /\ Observed(ReplayFree(h, a, t), FALSE)
  BY DEF MoveFrees
<1>2. /\ ProcessTypeOK /\ ProcessInv /\ HeapTypeOK /\ LiveInUp /\ excused \in BOOLEAN
      /\ OneBlockPerAddress /\ MoveInOrder /\ (lossy => ~ excused)
  BY DEF MemoryInv, MemoryTypeOK, ProcessTypeOK, ProcessInv, GapInv
<1>3. Skipped \/ replays
  BY <1>1, <1>2 DEF Observed, Skipped
<1>4. excused' \in BOOLEAN
  BY <1>2, <1>3 DEF Skipped
<1>5. ProcessKept
  BY <1>2, <1>4, ProcessFrees
<1>6. CASE Skipped
  BY <1>1, <1>5, <1>6, Unreplayed
<1>7. CASE replays
  <2>0. /\ moving # NotMoving /\ old \in Live /\ old \in Used
        /\ moving' = [stage |-> "freed", old |-> old, new |-> moving.new]
    <3>1. moving # NotMoving
      BY <1>1 DEF NotMoving
    <3>2. moving \in [stage: {"allocated", "freed"}, old: Used, new: Live]
      BY <1>2, <3>1 DEF ProcessTypeOK
    <3> QED BY <1>1, <1>2, <3>1, <3>2 DEF MoveInOrder
  <2>1. /\ Used' = Used /\ Live' = Live \ {old} /\ block'[old].died = t /\ h \in Handles /\ h \in up
        /\ block'[old].handle = h /\ block'[old].address = a
    <3>1. {old} \in SUBSET Live
      BY <2>0
    <3>2. /\ Used' = Used /\ Live' = Live \ {old}
          /\ block[old] \in Generation /\ block'[old] = [block[old] EXCEPT !.died = t]
      BY <1>1, <1>2, <3>1, Death
    <3> QED BY <1>2, <2>0, <3>2 DEF Generation, LiveInUp
  <2>2. Replaying /\ clock' = t
    BY <1>1, <1>7 DEF Replaying, Running, Now
  <2>3. /\ HeapTypeOK' /\ ReplayInv' /\ ExactSoFar' /\ Recorded' = Recorded
        /\ complete' = complete /\ Opens(h)
    BY <1>5, <1>7, <2>0, <2>1, <2>2, RecordFree
  <2>4. ASSUME ~ lossy, ~ excused PROVE complete /\ MoveSeen'
    <3>1. complete /\ MoveSeen
      BY <2>2, <2>4 DEF MemoryInv, GapInv, NoGapYet, Replaying
    <3>2. \A c \in Live' : ~ (block'[c].handle = h /\ block'[c].address = a)
      <4>1. \A c \in Live' : /\ c \in Live /\ c # old
                             /\ block'[c].handle = block[c].handle /\ block'[c].address = block[c].address
        BY <1>5, <2>1 DEF ProcessKept, Ages, Live
      <4> QED BY <1>2, <2>0, <4>1 DEF OneBlockPerAddress
    <3>3. moving'.new \in Recorded' /\ moving'.old = old
      BY <2>0, <2>3, <3>1 DEF MoveSeen
    <3>4. At(block[moving.old].handle, block[moving.old].address)' = {}
      BY <2>1, <3>2, <3>3 DEF At
    <3> QED BY <3>1, <3>3, <3>4 DEF MoveSeen
  <2> HIDE DEF h
  <2> QED BY <1>1, <1>2, <1>5, <1>7, <2>1, <2>2, <2>3, <2>4, Replayed
<1> QED BY <1>3, <1>6, <1>7

LEMMA MoveSummarizedKeeps ==
    ASSUME MemoryInv, NEW t \in Times, MoveSummarized(t)
    PROVE  MemoryInv'
<1> DEFINE new == moving.new
           h == block[new].handle
           a == block[moving.old].address
           replays == /\ phase = "recording" /\ excused' = excused
                      /\ ReplayMoved(h, a, block[new].address, block[new].size)
<1>1. /\ Running /\ Now(t) /\ moving.stage = "freed" /\ up' = up /\ moving' = NotMoving
      /\ UNCHANGED sessionVars
      /\ Observed(ReplayMoved(h, a, block[new].address, block[new].size), FALSE)
  BY DEF MoveSummarized
<1>2. /\ ProcessTypeOK /\ ProcessInv /\ HeapTypeOK /\ LiveInUp /\ excused \in BOOLEAN
      /\ MoveInOrder /\ ReplayInv /\ ExactSoFar /\ (lossy => ~ excused)
  BY DEF MemoryInv, MemoryTypeOK, ProcessTypeOK, ProcessInv, GapInv
<1>3. Skipped \/ replays
  BY <1>1, <1>2 DEF Observed, Skipped
<1>4. excused' \in BOOLEAN
  BY <1>2, <1>3 DEF Skipped
<1>5. ProcessKept /\ block' = block
  BY <1>2, <1>4, ProcessStays
<1>6. CASE Skipped
  BY <1>1, <1>5, <1>6, Unreplayed
<1>7. CASE replays
  <2>0. moving # NotMoving /\ new \in Live
    <3>1. moving # NotMoving
      BY <1>1 DEF NotMoving
    <3> QED BY <1>2, <3>1 DEF ProcessTypeOK
  <2>1. h \in Handles /\ h \in up /\ Used' = Used /\ Live' = Live
    BY <1>2, <1>5, <2>0 DEF LiveInUp, ProcessTypeOK, Live, Used, Generation, NotUsed
  <2>2. Replaying /\ clock' = t
    BY <1>1, <1>7 DEF Replaying, Running, Now
  <2>3. /\ OpenHeap(h) /\ UNCHANGED <<active, allocations>>
        /\ complete' = (complete /\ Find(h, a) = {}
                           /\ \E b \in Find(h, block[new].address) : allocations[b].size = block[new].size)
    BY <1>7 DEF ReplayMoved
  <2>4. complete' \in BOOLEAN /\ (complete' => complete)
    BY <1>2, <2>3 DEF HeapTypeOK
  <2>5. HeapTypeOK' /\ ReplayInv' /\ ExactSoFar' /\ Recorded' = Recorded /\ Opens(h)
    <3> HIDE DEF h, a
    <3> QED BY <1>5, <2>1, <2>2, <2>3, <2>4, RecordNothing
  <2>6. ASSUME ~ lossy, ~ excused PROVE complete'
    <3>1. complete /\ MoveSeen
      BY <2>2, <2>6 DEF MemoryInv, GapInv, NoGapYet, Replaying
    <3>2. new \in Recorded /\ At(h, a) = {}
      BY <1>1, <1>2, <2>0, <3>1 DEF MoveSeen, MoveInOrder
    <3>3. new \in active /\ active \subseteq Live /\ active \subseteq Recorded
      BY <1>2, <2>0, <2>2, <3>1, <3>2 DEF ReplayInv, LiveIsActive, ExactSoFar, Replaying, HeapTypeOK
    <3>4. \A c \in active : /\ allocations[c].handle = block[c].handle
                            /\ allocations[c].address = block[c].address
                            /\ allocations[c].size = block[c].size
      BY <1>2, <3>3 DEF ReplayInv, SameBlock
    <3>5. Find(h, a) = {}
      BY <3>2, <3>3, <3>4 DEF Find, In, At
    <3>6. new \in Find(h, block[new].address) /\ allocations[new].size = block[new].size
      BY <3>3, <3>4 DEF Find, In
    <3> QED BY <2>3, <3>1, <3>5, <3>6
  <2>7. MoveSeen'
    BY <1>1 DEF MoveSeen
  <2> HIDE DEF h, a
  <2> QED BY <1>1, <1>2, <1>5, <1>7, <2>1, <2>2, <2>5, <2>6, <2>7, Replayed
<1> QED BY <1>3, <1>6, <1>7

LEMMA NullCallKeeps ==
    ASSUME MemoryInv, NEW t \in Times, NEW h \in Handles, NullCall(h, t)
    PROVE  MemoryInv'
<1> DEFINE replays == phase = "recording" /\ excused' = excused /\ ReplayNull(h)
<1>1. /\ Running /\ Now(t) /\ h \in up /\ up' = up /\ moving' = moving
      /\ UNCHANGED sessionVars /\ Observed(ReplayNull(h), FALSE)
  BY DEF NullCall
<1>2. /\ ProcessTypeOK /\ ProcessInv /\ HeapTypeOK /\ excused \in BOOLEAN /\ (lossy => ~ excused)
  BY DEF MemoryInv, MemoryTypeOK, ProcessTypeOK, GapInv
<1>3. Skipped \/ replays
  BY <1>1, <1>2 DEF Observed, Skipped
<1>4. excused' \in BOOLEAN
  BY <1>2, <1>3 DEF Skipped
<1>5. ProcessKept /\ block' = block
  BY <1>2, <1>4, ProcessStays
<1>6. CASE Skipped
  BY <1>1, <1>5, <1>6, Unreplayed
<1>7. CASE replays
  <2>1. Used' = Used /\ Live' = Live
    BY <1>5 DEF Used, Live
  <2>2. Replaying /\ clock' = t
    BY <1>1, <1>7 DEF Replaying, Running, Now
  <2>3. /\ OpenHeap(h) /\ UNCHANGED <<complete, active, allocations>> /\ complete' \in BOOLEAN
    BY <1>2, <1>7 DEF ReplayNull, HeapTypeOK
  <2>4. HeapTypeOK' /\ ReplayInv' /\ ExactSoFar' /\ Recorded' = Recorded /\ Opens(h)
    BY <1>5, <2>1, <2>2, <2>3, RecordNothing
  <2>5. ~ lossy /\ ~ excused => complete /\ MoveSeen'
    BY <1>1, <1>5, <2>1, <2>2, <2>4, MoveStaysSeen DEF MemoryInv, GapInv, NoGapYet
  <2> QED BY <1>1, <1>2, <1>5, <1>7, <2>2, <2>3, <2>4, <2>5, Replayed
<1> QED BY <1>3, <1>6, <1>7

LEMMA CreateHeapKeeps ==
    ASSUME MemoryInv, NEW t \in Times, NEW h \in Handles, CreateHeap(h, t)
    PROVE  MemoryInv'
<1> DEFINE replays == phase = "recording" /\ excused' = excused /\ ReplayCreate(h, t)
<1>1. /\ Running /\ Now(t) /\ h \notin up /\ up' = up \union {h} /\ moving' = moving
      /\ UNCHANGED sessionVars /\ Observed(ReplayCreate(h, t), FALSE)
  BY DEF CreateHeap
<1>2. /\ ProcessTypeOK /\ ProcessInv /\ HeapTypeOK /\ excused \in BOOLEAN /\ (lossy => ~ excused)
  BY DEF MemoryInv, MemoryTypeOK, ProcessTypeOK, GapInv
<1>3. Skipped \/ replays
  BY <1>1, <1>2 DEF Observed, Skipped
<1>4. excused' \in BOOLEAN
  BY <1>2, <1>3 DEF Skipped
<1>5. ProcessKept /\ block' = block
  BY <1>2, <1>4, ProcessStays
<1>6. CASE Skipped
  BY <1>1, <1>5, <1>6, Unreplayed
<1>7. CASE replays
  <2>1. Used' = Used /\ Live' = Live
    BY <1>5 DEF Used, Live
  <2>2. Replaying /\ clock' = t
    BY <1>1, <1>7 DEF Replaying, Running, Now
  <2>3. /\ HeapTypeOK' /\ ReplayInv' /\ ExactSoFar' /\ Recorded' = Recorded
        /\ complete' = (complete /\ open[h] = None) /\ Opens(h)
    BY <1>1, <1>5, <1>7, <2>1, <2>2, RecordCreate
  <2>4. ~ lossy /\ ~ excused => complete /\ open[h] = None
    BY <1>1, <2>2 DEF MemoryInv, GapInv, NoGapYet, Replaying
  <2>5. ~ lossy /\ ~ excused => MoveSeen'
    BY <1>1, <1>5, <2>1, <2>2, <2>3, MoveStaysSeen
  <2> QED BY <1>1, <1>2, <1>5, <1>7, <2>2, <2>3, <2>4, <2>5, Replayed
<1> QED BY <1>3, <1>6, <1>7

LEMMA DestroyHeapKeeps ==
    ASSUME MemoryInv, NEW t \in Times, NEW h \in Handles, DestroyHeap(h, t)
    PROVE  MemoryInv'
<1> DEFINE R == {b \in Live : block[b].handle = h}
           replays == phase = "recording" /\ excused' = excused /\ ReplayDestroy(h, t)
<1>1. /\ Running /\ Now(t) /\ h \in up /\ up' = up \ {h} /\ moving' = moving
      /\ block' = Dies(R, t)
      /\ UNCHANGED sessionVars /\ Observed(ReplayDestroy(h, t), FALSE)
  BY DEF DestroyHeap
<1>2. /\ ProcessTypeOK /\ ProcessInv /\ HeapTypeOK /\ excused \in BOOLEAN /\ (lossy => ~ excused)
  BY DEF MemoryInv, MemoryTypeOK, ProcessTypeOK, GapInv
<1>3. Skipped \/ replays
  BY <1>1, <1>2 DEF Observed, Skipped
<1>4. excused' \in BOOLEAN
  BY <1>2, <1>3 DEF Skipped
<1>5. ProcessKept
  BY <1>2, <1>4, ProcessFrees
<1>6. CASE Skipped
  BY <1>1, <1>5, <1>6, Unreplayed
<1>7. CASE replays
  <2>1. /\ Used' = Used /\ Live' = {c \in Live : block[c].handle # h}
        /\ \A c \in Live \ Live' : block'[c].died = t
    <3>1. R \in SUBSET Live
      OBVIOUS
    <3>2. /\ Used' = Used /\ Live' = Live \ R
          /\ \A c \in R : block[c] \in Generation /\ block'[c] = [block[c] EXCEPT !.died = t]
      BY <1>1, <1>2, <3>1, Death, ZenonT(40)
    <3>3. \A c \in R : block'[c].died = t
      BY <3>2 DEF Generation
    <3> QED BY <3>2, <3>3
  <2>2. Replaying /\ clock' = t
    BY <1>1, <1>7 DEF Replaying, Running, Now
  <2>3. /\ HeapTypeOK' /\ ReplayInv' /\ ExactSoFar' /\ Recorded' = Recorded
        /\ complete' = complete /\ Opens(h) /\ open'[h] = None
    BY <1>5, <1>7, <2>1, <2>2, RecordDestroy
  <2>4. ~ lossy /\ ~ excused => complete /\ MoveSeen'
    BY <1>1, <1>5, <2>1, <2>2, <2>3, MoveStaysSeen DEF MemoryInv, GapInv, NoGapYet
  <2> QED BY <1>1, <1>2, <1>5, <1>7, <2>2, <2>3, <2>4, Replayed
<1> QED BY <1>3, <1>6, <1>7

LEMMA ExitProcessKeeps ==
    ASSUME MemoryInv, NEW t \in Times, ExitProcess(t)
    PROVE  MemoryInv'
<1>1. /\ exit = None /\ Now(t) /\ phase = "recording" /\ exit' = t /\ up' = {} /\ moving' = NotMoving
      /\ block' = Dies(Live, t) /\ (exitSeen' = t \/ (lossy /\ exitSeen' = exitSeen))
      /\ UNCHANGED <<complete, heaps, open, active, allocations>>
      /\ excused' = excused /\ created' = created /\ phase' = phase /\ lossy' = lossy
      /\ captureStart' = captureStart /\ captureEnd' = captureEnd
  BY DEF ExitProcess, Running, heapVars
<1>2. /\ ProcessTypeOK /\ HeapTypeOK /\ TimesInOrder /\ ReplayInv /\ ExactSoFar /\ (lossy => ~ excused)
      /\ t \in Nat /\ t # None /\ t \in OptionalTime /\ clock \in Nat /\ clock <= t /\ clock' = t
  BY <1>1, StampsAreNat DEF MemoryInv, MemoryTypeOK, ProcessInv, GapInv, ProcessTypeOK, Now, OptionalTime
<1>3. /\ block' \in [Blocks -> Generation \union {NotUsed}]
      /\ Used' = Used /\ Live' = {} /\ Ages
      /\ \A c \in Used \ Live : block'[c] = block[c]
      /\ \A c \in Live : block'[c] = [block[c] EXCEPT !.died = t] /\ block[c] \in Generation
  <2>1. Live \in SUBSET Live
    OBVIOUS
  <2> QED BY <1>1, <1>2, <2>1, Death
<1>4. \A c \in Live : block'[c].died = t /\ block'[c].born = block[c].born
  BY <1>3 DEF Generation
<1>5. ProcessTypeOK'
  BY <1>1, <1>2, <1>3 DEF ProcessTypeOK
<1>6. HeapTypeOK'
  BY <1>1, <1>2 DEF HeapTypeOK, Recorded
<1>7. TimesInOrder'
  <2>1. \A c \in Used : block[c].born \in Nat /\ block[c].died \in Nat
    <3> SUFFICES ASSUME NEW c \in Used PROVE block[c].born \in Nat /\ block[c].died \in Nat
      OBVIOUS
    <3>1. block[c] \in Generation
      BY <1>2 DEF ProcessTypeOK, Used, NotUsed
    <3> QED BY <3>1, StampsAreNat DEF Generation
  <2>2. \A c \in Used : block'[c].born <= t /\ block'[c].died <= t /\ block'[c].born <= block'[c].died
    <3> SUFFICES ASSUME NEW c \in Used
                 PROVE  block'[c].born <= t /\ block'[c].died <= t /\ block'[c].born <= block'[c].died
      OBVIOUS
    <3>1. CASE c \in Live
      BY <1>2, <1>4, <2>1, <3>1 DEF TimesInOrder
    <3>2. CASE c \notin Live
      BY <1>2, <1>3, <2>1, <3>2 DEF TimesInOrder, Live
    <3> QED BY <3>1, <3>2
  <2>3. exitSeen' \in {None, exit'}
    BY <1>1, <1>2 DEF TimesInOrder
  <2> QED BY <1>1, <1>2, <1>3, <2>2, <2>3 DEF TimesInOrder
<1>8. ProcessInv'
  BY <1>1, <1>3, <1>7 DEF ProcessInv, OneBlockPerAddress, LiveInUp, MoveInOrder
<1>9. ReplayInv'
  BY <1>1, <1>3, <1>5, <1>6, UnreplayedKeepsReplay DEF MemoryTypeOK
<1>10. ExactSoFar'
  <2> SUFFICES ASSUME complete' PROVE ExactSoFar'
    BY DEF ExactSoFar
  <2>1. /\ ~ lossy /\ exitSeen' = exit' /\ active \subseteq Live
        /\ {c \in Used : captureStart < block[c].born} \subseteq Recorded
        /\ \A c \in Recorded \ active : allocations[c].freed_ts = block[c].died /\ block[c].died # None
    BY <1>1, <1>2 DEF ExactSoFar
  <2>2. Recorded' = Recorded /\ Recorded \subseteq Used
    BY <1>1, <1>2 DEF Recorded, ReplayInv, SameBlock
  <2>3. {c \in Used' : captureStart' < block'[c].born} \subseteq Recorded'
    BY <1>1, <1>3, <2>1, <2>2 DEF Ages
  <2>4. \A c \in active' : block'[c].died = exit'
    BY <1>1, <1>4, <2>1
  <2>5. \A c \in Recorded' \ active' : allocations'[c].freed_ts = block'[c].died /\ block'[c].died # None
    BY <1>1, <1>3, <2>1, <2>2 DEF Ages
  <2> QED BY <1>1, <1>2, <2>1, <2>3, <2>4, <2>5 DEF ExactSoFar
<1>11. NoGapYet'
  BY <1>1, <1>2 DEF MemoryInv, GapInv, NoGapYet, MoveSeen
<1> QED BY <1>1, <1>2, <1>5, <1>6, <1>8, <1>9, <1>10, <1>11 DEF MemoryInv, MemoryTypeOK, GapInv

\* A step of the session changes no block.
LEMMA SessionKeepsProcess ==
    ASSUME ProcessTypeOK, ProcessInv, NEW t \in Times, Now(t), phase' \in {"recording", "done"},
           captureStart' \in OptionalTime, captureEnd' \in OptionalTime, excused' \in BOOLEAN,
           UNCHANGED <<lossy, exit, exitSeen, block, up, created, moving>>
    PROVE  /\ ProcessTypeOK' /\ ProcessInv' /\ Ages
           /\ Used' = Used /\ Live' = Live /\ clock <= t /\ clock' = t /\ t # None /\ t \in Nat
<1>1. Used' = Used /\ Live' = Live /\ Ages
  BY DEF Used, Live, Ages
<1>2. clock <= t /\ clock' = t /\ t \in Nat /\ clock \in Nat /\ t # None
  BY StampsAreNat DEF Now, ProcessTypeOK
<1>3. ProcessTypeOK'
  BY <1>1, <1>2 DEF ProcessTypeOK
<1>4. \A c \in Used : block[c].born \in Nat /\ block[c].died \in Nat
  <2> SUFFICES ASSUME NEW c \in Used PROVE block[c].born \in Nat /\ block[c].died \in Nat
    OBVIOUS
  <2>1. block[c] \in Generation
    BY DEF ProcessTypeOK, Used, NotUsed
  <2> QED BY <2>1, StampsAreNat DEF Generation
<1>5. exit \in Nat
  BY StampsAreNat DEF ProcessTypeOK
<1>6. TimesInOrder'
  BY <1>1, <1>2, <1>4, <1>5 DEF ProcessInv, TimesInOrder
<1>7. OneBlockPerAddress' /\ LiveInUp' /\ MoveInOrder'
  BY <1>1 DEF ProcessInv, OneBlockPerAddress, LiveInUp, MoveInOrder
<1> QED BY <1>1, <1>2, <1>3, <1>6, <1>7 DEF ProcessInv

LEMMA StartRecordingKeeps ==
    ASSUME MemoryInv, NEW t \in Times, StartRecording(t)
    PROVE  MemoryInv'
<1>1. /\ phase = "before" /\ Now(t) /\ phase' = "recording" /\ captureStart' = t
      /\ excused' = (moving # NotMoving /\ ~ lossy)
      /\ UNCHANGED <<complete, heaps, open, active, allocations>>
      /\ UNCHANGED <<lossy, exit, exitSeen, block, up, created, moving>> /\ captureEnd' = captureEnd
  BY DEF StartRecording, heapVars
<1>2. /\ ProcessTypeOK /\ ProcessInv /\ HeapTypeOK /\ ReplayInv /\ ExactSoFar /\ NoGapYet
      /\ ~ excused /\ t \in OptionalTime /\ lossy \in BOOLEAN
  BY <1>1 DEF MemoryInv, MemoryTypeOK, GapInv, OptionalTime, ProcessTypeOK
<1>3. /\ ProcessTypeOK' /\ ProcessInv' /\ Used' = Used /\ clock <= t
  BY <1>1, <1>2, SessionKeepsProcess DEF ProcessTypeOK
<1>4. /\ Recorded = {} /\ Recorded' = {} /\ active = {} /\ exit = None
      /\ \A h \in Handles : open[h] = None
  BY <1>1, <1>2 DEF ReplayInv, NothingBefore, HeapTypeOK, Recorded, ProcessInv, TimesInOrder
<1>5. HeapTypeOK'
  BY <1>1, <1>2, <1>4 DEF HeapTypeOK
<1>7. ReplayInv'
  BY <1>1, <1>4 DEF ReplayInv, SameBlock, EndStates, ActiveIsOpen, HeapsApart, NothingBefore,
                    LiveIsActive, DeadByHeapEnd, FreedIsDead
<1>8. ExactSoFar'
  <2>1. {c \in Used' : captureStart' < block'[c].born} = {}
    <3>1. \A c \in Used : block[c].born <= t /\ block[c].born \in Nat /\ t \in Nat
      <4> SUFFICES ASSUME NEW c \in Used PROVE block[c].born <= t /\ block[c].born \in Nat /\ t \in Nat
        BY StampsAreNat
      <4>1. block[c] \in Generation
        BY <1>2 DEF ProcessTypeOK, Used, NotUsed
      <4>2. block[c].born \in Nat /\ clock \in Nat /\ t \in Nat
        BY <1>2, <4>1, StampsAreNat DEF Generation, ProcessTypeOK
      <4> QED BY <1>2, <1>3, <4>2 DEF ProcessInv, TimesInOrder
    <3> QED BY <1>1, <1>3, <3>1
  <2> QED BY <1>1, <1>2, <1>4, <2>1 DEF ExactSoFar
<1>9. NoGapYet'
  BY <1>1, <1>2, <1>4 DEF NoGapYet, MoveSeen, MemoryInv, GapInv
<1> QED BY <1>1, <1>3, <1>5, <1>7, <1>8, <1>9 DEF MemoryInv, MemoryTypeOK, GapInv

LEMMA StopRecordingKeeps ==
    ASSUME MemoryInv, NEW t \in Times, StopRecording(t)
    PROVE  MemoryInv'
<1>1. /\ phase = "recording" /\ Now(t) /\ phase' = "done" /\ captureEnd' = t
      /\ ReplayEnds(exitSeen) /\ excused' = excused /\ captureStart' = captureStart
      /\ UNCHANGED <<lossy, exit, exitSeen, block, up, created, moving>>
  BY DEF StopRecording
<1>2. /\ ProcessTypeOK /\ ProcessInv /\ HeapTypeOK /\ ReplayInv /\ ExactSoFar /\ NoGapYet
      /\ TimesInOrder /\ (lossy => ~ excused) /\ t \in OptionalTime
      /\ exitSeen \in OptionalTime /\ captureStart \in OptionalTime /\ excused \in BOOLEAN
  BY DEF MemoryInv, MemoryTypeOK, GapInv, OptionalTime, ProcessTypeOK, ProcessInv
<1>3. ProcessTypeOK' /\ ProcessInv' /\ Used' = Used /\ Live' = Live
  BY <1>1, <1>2, SessionKeepsProcess
<1>4. /\ complete' = complete /\ active' = {} /\ open' = [h \in Handles |-> None]
      /\ heaps' = IF exitSeen = None THEN heaps
                  ELSE [i \in 1 .. Len(heaps) |->
                           IF \E h \in Handles : open[h] = i THEN exitSeen ELSE heaps[i]]
      /\ allocations' = IF exitSeen # None THEN Released(active, exitSeen)
                        ELSE [b \in Blocks |-> IF complete /\ b \in active
                                 THEN [allocations[b] EXCEPT !.end_state = "LiveAtCaptureEnd"]
                                 ELSE allocations[b]]
  BY <1>1 DEF ReplayEnds
<1>5. /\ active \subseteq Recorded /\ Recorded \subseteq Used /\ Recorded \subseteq Blocks
      /\ Len(heaps) \in Nat
      /\ \A c \in Recorded : allocations[c] \in Lifetime /\ allocations[c].heap \in 1 .. Len(heaps)
  BY <1>2 DEF HeapTypeOK, ReplayInv, SameBlock, Recorded, NoLifetime
<1>6. exitSeen # None => exitSeen = exit /\ \A c \in Used : block[c].died # None /\ block[c].died <= exitSeen
  BY <1>2 DEF TimesInOrder, Live
<1>7. /\ heaps' \in Seq(OptionalTime) /\ Len(heaps') = Len(heaps)
      /\ \A i \in 1 .. Len(heaps) : heaps'[i] = heaps[i] \/ (exitSeen # None /\ heaps'[i] = exitSeen)
  <2>1. CASE exitSeen = None
    BY <1>2, <1>4, <2>1 DEF HeapTypeOK
  <2>2. CASE exitSeen # None
    <3>1. heaps' = [i \in 1 .. Len(heaps) |->
                       IF \E h \in Handles : open[h] = i THEN exitSeen ELSE heaps[i]]
      BY <1>4, <2>2
    <3>2. \A i \in 1 .. Len(heaps) : heaps[i] \in OptionalTime
      BY <1>2 DEF HeapTypeOK
    <3> QED BY <1>2, <1>5, <2>2, <3>1, <3>2
  <2> QED BY <2>1, <2>2
<1>8. /\ \A c \in Blocks \ active : allocations'[c] = allocations[c]
      /\ allocations' = [c \in Blocks |-> allocations'[c]]
  BY <1>2, <1>4 DEF Released, HeapTypeOK
<1>9. ASSUME NEW c \in active
      PROVE  /\ allocations'[c] \in Lifetime
             /\ allocations'[c].handle = allocations[c].handle /\ allocations'[c].heap = allocations[c].heap
             /\ allocations'[c].address = allocations[c].address /\ allocations'[c].size = allocations[c].size
             /\ allocations'[c].allocated_ts = allocations[c].allocated_ts
             /\ exitSeen # None => allocations'[c].freed_ts = exitSeen /\ allocations'[c].end_state = "Freed"
             /\ exitSeen = None => allocations'[c].freed_ts = None /\ allocations'[c].end_state # "Freed"
             /\ exitSeen = None /\ complete => allocations'[c].end_state = "LiveAtCaptureEnd"
  <2>1. /\ c \in Blocks /\ c \in Recorded /\ allocations[c] \in Lifetime
        /\ allocations[c].freed_ts = None /\ allocations[c].end_state # "Freed"
    BY <1>2, <1>5 DEF ReplayInv, ActiveIsOpen, EndStates
  <2>2. CASE exitSeen # None
    <3>1. allocations'[c] = [allocations[c] EXCEPT !.freed_ts = exitSeen, !.end_state = "Freed"]
      BY <1>4, <2>1, <2>2 DEF Released
    <3> QED BY <1>2, <2>1, <2>2, <3>1 DEF Lifetime
  <2>3. CASE exitSeen = None /\ complete
    <3>1. allocations'[c] = [allocations[c] EXCEPT !.end_state = "LiveAtCaptureEnd"]
      BY <1>4, <2>1, <2>3
    <3> QED BY <2>1, <2>3, <3>1 DEF Lifetime
  <2>4. CASE exitSeen = None /\ ~ complete
    BY <1>4, <2>1, <2>4
  <2> QED BY <2>2, <2>3, <2>4
<1>10. Recorded' = Recorded
  <2>1. \A c \in active : allocations'[c].allocated_ts # None
    BY <1>5, <1>9 DEF Recorded
  <2> QED BY <1>5, <1>8, <2>1 DEF Recorded
<1>11. HeapTypeOK'
  <2>1. \A c \in Blocks : allocations'[c] \in Lifetime \union {NoLifetime}
    BY <1>2, <1>8, <1>9 DEF HeapTypeOK
  <2> QED BY <1>2, <1>4, <1>7, <1>8, <2>1 DEF HeapTypeOK, None
<1>12. \A c \in Recorded : /\ allocations'[c].handle = allocations[c].handle
                           /\ allocations'[c].heap = allocations[c].heap
                           /\ allocations'[c].address = allocations[c].address
                           /\ allocations'[c].size = allocations[c].size
                           /\ allocations'[c].allocated_ts = allocations[c].allocated_ts
  BY <1>5, <1>8, <1>9
<1>13. SameBlock'
  BY <1>1, <1>2, <1>3, <1>5, <1>7, <1>10, <1>12 DEF ReplayInv, SameBlock
<1>14. EndStates'
  <2>1. ASSUME NEW c \in Recorded
        PROVE  (allocations'[c].freed_ts # None) <=> (allocations'[c].end_state = "Freed")
    <3>1. CASE c \in active
      BY <1>9, <3>1
    <3>2. CASE c \notin active
      BY <1>2, <1>5, <1>8, <3>2 DEF ReplayInv, EndStates
    <3> QED BY <3>1, <3>2
  <2> QED BY <1>1, <1>10, <2>1 DEF EndStates
<1>15. ActiveIsOpen' /\ HeapsApart' /\ NothingBefore' /\ LiveIsActive'
  <2>1. \A h \in Handles : open'[h] = None
    BY <1>4
  <2>2. \A c \in Recorded' : allocations'[c].heap # None
    BY <1>5, <1>10, <1>12 DEF None
  <2> QED BY <1>1, <1>4, <2>1, <2>2 DEF ActiveIsOpen, HeapsApart, NothingBefore, LiveIsActive
<1>16. DeadByHeapEnd'
  <2> SUFFICES ASSUME NEW c \in Recorded, heaps'[allocations[c].heap] # None
               PROVE  block[c].died # None /\ block[c].died <= heaps'[allocations[c].heap]
    BY <1>1, <1>10, <1>12 DEF DeadByHeapEnd
  <2>1. CASE heaps'[allocations[c].heap] = heaps[allocations[c].heap]
    BY <1>2, <2>1 DEF ReplayInv, DeadByHeapEnd
  <2>2. CASE exitSeen # None /\ heaps'[allocations[c].heap] = exitSeen
    BY <1>5, <1>6, <2>2
  <2> QED BY <1>5, <1>7, <2>1, <2>2
<1>17. FreedIsDead'
  <2> SUFFICES ASSUME NEW c \in Recorded, allocations'[c].freed_ts # None
               PROVE  block[c].died # None /\ block[c].died <= allocations'[c].freed_ts
    BY <1>1, <1>10 DEF FreedIsDead
  <2>1. CASE c \in active
    BY <1>5, <1>6, <1>9, <2>1
  <2>2. CASE c \notin active
    BY <1>2, <1>5, <1>8, <2>2 DEF ReplayInv, FreedIsDead
  <2> QED BY <2>1, <2>2
<1>18. ExactSoFar'
  <2> SUFFICES ASSUME complete' PROVE ExactSoFar'
    BY DEF ExactSoFar
  <2>1. /\ complete /\ ~ lossy /\ exitSeen = exit
        /\ {c \in Used : captureStart < block[c].born} \subseteq Recorded
        /\ \A c \in active : block[c].died = exit
        /\ \A c \in Recorded \ active : allocations[c].freed_ts = block[c].died /\ block[c].died # None
    BY <1>1, <1>2, <1>4 DEF ExactSoFar
  <2>2. ASSUME NEW c \in Recorded
        PROVE  /\ allocations'[c].freed_ts = block[c].died
               /\ block[c].died = None => allocations'[c].end_state = "LiveAtCaptureEnd"
    <3>1. CASE c \in active
      BY <1>9, <2>1, <3>1
    <3>2. CASE c \notin active
      BY <1>5, <1>8, <2>1, <3>2
    <3> QED BY <3>1, <3>2
  <2> QED BY <1>1, <1>3, <1>4, <1>10, <2>1, <2>2 DEF ExactSoFar
<1>19. NoGapYet'
  <2>1. MoveSeen => MoveSeen'
    BY <1>1, <1>3, <1>10 DEF MoveSeen, At
  <2>2. \A h \in Handles : open'[h] = None
    BY <1>4
  <2> QED BY <1>1, <1>2, <1>4, <2>1, <2>2 DEF NoGapYet
<1> QED BY <1>1, <1>2, <1>3, <1>11, <1>13, <1>14, <1>15, <1>16, <1>17, <1>18, <1>19
    DEF MemoryInv, MemoryTypeOK, ReplayInv, GapInv

LEMMA MemoryInitially == MemoryInit => MemoryInv
<1> SUFFICES ASSUME MemoryInit PROVE MemoryInv
  OBVIOUS
<1> USE StampsAreNat DEF MemoryInit, ReplayInit
<1>1. Used = {} /\ Live = {} /\ Recorded = {} /\ active = {}
  BY DEF Used, Live, Recorded, NotUsed, NoLifetime
<1>2. HeapTypeOK
  BY <1>1 DEF HeapTypeOK, None
<1>3. ProcessTypeOK
  <2>1. lossy \in BOOLEAN /\ excused \in BOOLEAN
    OBVIOUS
  <2>2. created \in 0 .. MaxHeaps
    BY BoundAssumption
  <2>3. /\ phase \in {"before", "recording", "done"} /\ clock \in Times
        /\ {exit, exitSeen, captureStart, captureEnd} \subseteq OptionalTime
        /\ block \in [Blocks -> Generation \union {NotUsed}]
        /\ up \subseteq Handles /\ moving = NotMoving
    BY DEF OptionalTime
  <2> HIDE DEF MemoryInit, ReplayInit
  <2> QED BY <2>1, <2>2, <2>3 DEF ProcessTypeOK
<1>4. ProcessInv
  BY <1>1 DEF ProcessInv, OneBlockPerAddress, LiveInUp, TimesInOrder, MoveInOrder
<1>5. ReplayInv
  BY <1>1 DEF ReplayInv, SameBlock, EndStates, ActiveIsOpen, HeapsApart, NothingBefore,
              LiveIsActive, DeadByHeapEnd, FreedIsDead
<1>6. GapInv
  BY <1>1 DEF GapInv, ExactSoFar, NoGapYet, MoveSeen
<1> QED BY <1>2, <1>3, <1>4, <1>5, <1>6 DEF MemoryInv, MemoryTypeOK

LEMMA MemoryStays ==
    ASSUME MemoryInv, UNCHANGED vars
    PROVE  MemoryInv'
<1>1. /\ UNCHANGED <<complete, heaps, open, active, allocations>>
      /\ UNCHANGED <<phase, lossy, exit, exitSeen, captureStart, captureEnd>>
      /\ UNCHANGED <<clock, excused, block, up, created, moving>>
  BY DEF vars, heapVars, sessionVars
<1>2. Used' = Used /\ Live' = Live /\ Recorded' = Recorded
  BY <1>1 DEF Used, Live, Recorded
<1>3. MemoryTypeOK'
  BY <1>1, <1>2 DEF MemoryInv, MemoryTypeOK, HeapTypeOK, ProcessTypeOK
<1>4. ProcessInv'
  BY <1>1, <1>2 DEF MemoryInv, ProcessInv, OneBlockPerAddress, LiveInUp, TimesInOrder, MoveInOrder
<1>5. ReplayInv'
  BY <1>1, <1>2 DEF MemoryInv, ReplayInv, SameBlock, EndStates, ActiveIsOpen, HeapsApart, NothingBefore,
                    LiveIsActive, DeadByHeapEnd, FreedIsDead
<1>6. GapInv'
  BY <1>1, <1>2 DEF MemoryInv, GapInv, ExactSoFar, NoGapYet, MoveSeen, At
<1> QED BY <1>3, <1>4, <1>5, <1>6 DEF MemoryInv

LEMMA MemoryNextKeeps == MemoryInv /\ [MemoryNext]_vars => MemoryInv'
<1> SUFFICES ASSUME MemoryInv, [MemoryNext]_vars PROVE MemoryInv'
  OBVIOUS
<1>1. CASE UNCHANGED vars
  BY <1>1, MemoryStays
<1>2. CASE MemoryNext
  <2>1. PICK t \in Times :
       \/ \E h \in Handles : CreateHeap(h, t) \/ NullCall(h, t) \/ DestroyHeap(h, t)
       \/ \E b \in Blocks, h \in Handles, a \in Addresses, s \in Sizes : AllocateBlock(b, h, a, s, t)
       \/ \E b \in Blocks : FreeBlock(b, t)
       \/ \E old, b \in Blocks, s \in Sizes : ResizeBlock(old, b, s, t)
       \/ \E old, b \in Blocks, a \in Addresses, s \in Sizes : MoveAllocates(old, b, a, s, t)
       \/ MoveFrees(t) \/ MoveSummarized(t)
       \/ ExitProcess(t) \/ StartRecording(t) \/ StopRecording(t)
    BY <1>2 DEF MemoryNext
  <2>2. ASSUME NEW h \in Handles, CreateHeap(h, t) \/ NullCall(h, t) \/ DestroyHeap(h, t) PROVE MemoryInv'
    BY <2>2, CreateHeapKeeps, NullCallKeeps, DestroyHeapKeeps
  <2>3. ASSUME NEW b \in Blocks, NEW h \in Handles, NEW a \in Addresses, NEW s \in Sizes,
               AllocateBlock(b, h, a, s, t) PROVE MemoryInv'
    BY <2>3, AllocateBlockKeeps
  <2>4. ASSUME NEW b \in Blocks, FreeBlock(b, t) PROVE MemoryInv'
    BY <2>4, FreeBlockKeeps
  <2>5. ASSUME NEW old \in Blocks, NEW b \in Blocks, NEW s \in Sizes, ResizeBlock(old, b, s, t) PROVE MemoryInv'
    BY <2>5, ResizeBlockKeeps
  <2>6. ASSUME NEW old \in Blocks, NEW b \in Blocks, NEW a \in Addresses, NEW s \in Sizes,
               MoveAllocates(old, b, a, s, t) PROVE MemoryInv'
    BY <2>6, MoveAllocatesKeeps
  <2>7. ASSUME MoveFrees(t) \/ MoveSummarized(t) PROVE MemoryInv'
    BY <2>7, MoveFreesKeeps, MoveSummarizedKeeps
  <2>8. ASSUME ExitProcess(t) \/ StartRecording(t) \/ StopRecording(t) PROVE MemoryInv'
    BY <2>8, ExitProcessKeeps, StartRecordingKeeps, StopRecordingKeeps
  <2> QED BY <2>1, <2>2, <2>3, <2>4, <2>5, <2>6, <2>7, <2>8
<1> QED BY <1>1, <1>2

LEMMA MemoryInvariant == MemorySpec => []MemoryInv
BY MemoryInitially, MemoryNextKeeps, PTL DEF MemorySpec

-------------------------------------------------------------------------------
\* The theorems.

\* Types of the replay's, the process's and the session's state, whatever the
\* constants (native_heap.cpp:21-33, 66-83).
THEOREM MemoryTypes == MemorySpec => []MemoryTypeOK
<1>1. MemoryInv => MemoryTypeOK
  BY DEF MemoryInv
<1> QED BY <1>1, MemoryInvariant, PTL

\* Whatever is lost, the replay never ends a generation that outlives the end it
\* gives it (native_heap.cpp:21-24, 115-125, 146-165, 168-175).
THEOREM FreedAreDead == MemorySpec => []FreedIsDead
<1>1. MemoryInv => FreedIsDead
  BY DEF MemoryInv, ReplayInv
<1> QED BY <1>1, MemoryInvariant, PTL

\* A capture whose records all arrived is complete but for the listed causes
\* (native_heap.cpp:135-145).
THEOREM GapsHaveCauses == MemorySpec => []GapsHaveACause
<1>1. MemoryInv => GapsHaveACause
  BY DEF MemoryInv, GapInv, NoGapYet, GapsHaveACause
<1> QED BY <1>1, MemoryInvariant, PTL

\* What the ends of a recorded block say: it is dead by each of them.
LEMMA DeadByItsEnds ==
    ASSUME MemoryInv, NEW b \in Recorded, NEW ts \in Times, NEW end \in Ends(b), Reached(end, ts)
    PROVE  block[b].died # None /\ block[b].died <= ts
<1>1. /\ b \in Used /\ SameBlock /\ DeadByHeapEnd /\ FreedIsDead /\ TimesInOrder
  BY DEF MemoryInv, ReplayInv, ProcessInv, SameBlock
<1>2. block[b].died # None /\ block[b].died <= end
  BY <1>1 DEF Ends, Reached, NoTime, None, FreedIsDead, DeadByHeapEnd, TimesInOrder, Live
<1>3. end \in Nat /\ block[b].died \in Nat /\ ts \in Nat
  <2>1. block[b] \in Generation
    BY <1>1 DEF MemoryInv, MemoryTypeOK, ProcessTypeOK, Used, NotUsed
  <2>2. allocations[b] \in Lifetime /\ allocations[b].heap \in 1 .. Len(heaps) /\ heaps \in Seq(OptionalTime)
    BY <1>1 DEF MemoryInv, MemoryTypeOK, HeapTypeOK, Recorded, NoLifetime, SameBlock
  <2>3. {allocations[b].freed_ts, heaps[allocations[b].heap], exitSeen} \subseteq OptionalTime
    BY <2>2 DEF Lifetime, MemoryInv, MemoryTypeOK, ProcessTypeOK
  <2> QED BY <2>1, <2>3, StampsAreNat DEF Generation, Ends
<1> QED BY <1>2, <1>3 DEF Reached

\* Losses make totals too large, never too small: a recorded block that is live
\* is counted (memory_index.cpp:135-160).
THEOREM LiveAreCounted == MemorySpec => []LiveIsCounted
<1>1. MemoryInv => LiveIsCounted
  <2> SUFFICES ASSUME MemoryInv, NEW ts \in Times, NEW b \in ReallyLiveAt(ts) \cap Recorded
               PROVE  b \in CountedAt(ts)
    BY DEF LiveIsCounted, CaptureTimes
  <2>1. block[b].born <= ts /\ (block[b].died = None \/ ts < block[b].died) /\ b \in Used
    BY DEF ReallyLiveAt
  <2>2. allocations[b].allocated_ts = block[b].born
    BY DEF MemoryInv, ReplayInv, SameBlock
  <2>3. block[b].died \in Nat /\ ts \in Nat
    <3>1. block[b] \in Generation
      BY <2>1 DEF MemoryInv, MemoryTypeOK, ProcessTypeOK, Used, NotUsed
    <3> QED BY <3>1, StampsAreNat DEF Generation
  <2>4. \A end \in Ends(b) : ~ Reached(end, ts)
    BY <2>1, <2>3, DeadByItsEnds
  <2> QED BY <2>1, <2>2, <2>4 DEF CountedAt, Outstanding
<1> QED BY <1>1, MemoryInvariant, PTL

\* Amounts called known are exact (native_heap.cpp:84-104, 167-180,
\* memory_index.cpp:154-157).
THEOREM KnownAreExact == MemorySpec => []KnownIsExact
<1>1. MemoryInv => KnownIsExact
  <2> SUFFICES ASSUME MemoryInv, phase = "done", complete
               PROVE  /\ {b \in Used : captureStart < block[b].born} \subseteq Recorded
                      /\ \A ts \in CaptureTimes : /\ KnownAt(ts) = ReallyLiveAt(ts) \cap Recorded
                                                  /\ CountedAt(ts) = KnownAt(ts)
    BY DEF KnownIsExact
  <2>1. /\ {b \in Used : captureStart < block[b].born} \subseteq Recorded
        /\ active = {}
        /\ \A b \in Recorded : /\ allocations[b].freed_ts = block[b].died
                               /\ block[b].died = None => allocations[b].end_state = "LiveAtCaptureEnd"
                               /\ block[b].died # None => allocations[b].end_state = "Freed"
                               /\ b \in Used /\ allocations[b].allocated_ts = block[b].born
    BY DEF MemoryInv, GapInv, ExactSoFar, ReplayInv, ActiveIsOpen, EndStates, SameBlock
  <2>2. ASSUME NEW ts \in CaptureTimes, NEW b \in Recorded
        PROVE  /\ b \in CountedAt(ts) <=> b \in ReallyLiveAt(ts)
               /\ b \in CountedAt(ts) => b \in KnownAt(ts)
    <3>1. ts \in Times /\ ts \in Nat /\ block[b].died \in Nat /\ block[b].born \in Times
      <4>1. block[b] \in Generation
        BY <2>1 DEF MemoryInv, MemoryTypeOK, ProcessTypeOK, Used, NotUsed
      <4> QED BY <4>1, StampsAreNat DEF Generation, CaptureTimes
    <3>2. b \in ReallyLiveAt(ts) => b \in CountedAt(ts)
      <4> SUFFICES ASSUME b \in ReallyLiveAt(ts) PROVE b \in CountedAt(ts)
        OBVIOUS
      <4>1. \A end \in Ends(b) : ~ Reached(end, ts)
        BY <3>1, DeadByItsEnds DEF ReallyLiveAt
      <4> QED BY <2>1, <4>1 DEF CountedAt, Outstanding, ReallyLiveAt
    <3>3. b \in CountedAt(ts) => b \in ReallyLiveAt(ts)
      <4> SUFFICES ASSUME b \in CountedAt(ts) PROVE b \in ReallyLiveAt(ts)
        OBVIOUS
      <4>1. allocations[b].allocated_ts <= ts /\ ~ Reached(allocations[b].freed_ts, ts)
        BY DEF CountedAt, Outstanding, Ends
      <4> QED BY <2>1, <3>1, <4>1 DEF Reached, NoTime, None, ReallyLiveAt
    <3>4. b \in CountedAt(ts) => b \in KnownAt(ts)
      BY <2>1, <3>1, StampsAreNat DEF KnownAt, KnownNative, NoTime, None
    <3> QED BY <3>2, <3>3, <3>4
  <2>3. \A ts \in CaptureTimes : CountedAt(ts) \subseteq Recorded /\ KnownAt(ts) \subseteq CountedAt(ts)
    BY DEF CountedAt, KnownAt
  <2> QED BY <2>1, <2>2, <2>3
<1> QED BY <1>1, MemoryInvariant, PTL
===============================================================================
