----------------------------- MODULE MemoryIndex ------------------------------
\* What MemoryIndex::query (src/model/memory_index.cpp) counts at a time: which
\* allocations are outstanding, and which of those amounts are called known. The
\* functions of one allocation, to be used by the modules that produce them.
EXTENDS Naturals

NoTime == 0

\* ts has reached the end of an interval whose end may be unknown.
Reached(end, ts) == end # NoTime /\ end <= ts

\* Entry::start <= ts < Entry::end, the least of the ends that are known. A start
\* that was not observed counts as minus infinity.
Outstanding(allocated, ends, ts) ==
    /\ allocated <= ts
    /\ \A end \in ends : ~ Reached(end, ts)

\* `known` of a native allocation; `uncertain` is the coverage of the capture.
KnownNative(uncertain, allocated, freed, endState) ==
    /\ ~ uncertain
    /\ allocated # NoTime
    /\ (endState = "Freed" /\ freed # NoTime) \/ endState = "LiveAtCaptureEnd"
===============================================================================
