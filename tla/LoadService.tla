----------------------------- MODULE LoadService ----------------------------
(***************************************************************************)
(* What FileLoader promises the application: one load at a time, every     *)
(* load ends, and it ends with the requested trace or with none, with none *)
(* for certain when it was cancelled in time.                              *)
(***************************************************************************)
EXTENDS Naturals

CONSTANT Files

VARIABLES phase,    \* "idle", "loading" or "ready"
          asked,    \* the file of the last load
          doomed,   \* the load was cancelled before it was complete
          given     \* the trace on offer, 0 for none

vars == <<phase, asked, doomed, given>>

Init == phase = "idle" /\ asked = 0 /\ doomed = FALSE /\ given = 0

Open(f) == /\ phase = "idle"
           /\ phase' = "loading"
           /\ asked' = f
           /\ UNCHANGED <<doomed, given>>

Cancel == /\ phase # "idle" /\ given = 0
          /\ doomed' = TRUE
          /\ UNCHANGED <<phase, asked, given>>

Complete == /\ phase = "loading"
            /\ phase' = "ready"
            /\ given' \in IF doomed THEN {0} ELSE {0, asked}
            /\ UNCHANGED <<asked, doomed>>

Collect == /\ phase = "ready"
           /\ phase' = "idle"
           /\ given' = 0
           /\ doomed' = FALSE
           /\ UNCHANGED asked

Next == (\E f \in Files : Open(f)) \/ Cancel \/ Complete \/ Collect

Spec == Init /\ [][Next]_vars

FairSpec == Spec /\ WF_vars(Complete)
=============================================================================
