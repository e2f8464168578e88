----------------------------- MODULE AsyncQuery -----------------------------
(***************************************************************************)
(* What QueryDb promises the panel that uses it: one question at a time,   *)
(* and the answer on offer is always the answer to the last question.      *)
(***************************************************************************)
EXTENDS Naturals

CONSTANT MaxRequests    \* how many questions are asked

VARIABLES phase,        \* "idle", "busy" or "ready"
          asked,        \* the number of the last question
          answers       \* the question the answer on offer belongs to, 0 for none

vars == <<phase, asked, answers>>

Init == phase = "idle" /\ asked = 0 /\ answers = 0

(* A question may replace an answer nobody took, never one being worked on. *)
Ask == /\ phase # "busy"
       /\ asked < MaxRequests
       /\ phase' = "busy"
       /\ asked' = asked + 1
       /\ answers' = 0

Answer == /\ phase = "busy"
          /\ phase' = "ready"
          /\ answers' = asked
          /\ UNCHANGED asked

Take == /\ phase = "ready"
        /\ phase' = "idle"
        /\ answers' = 0
        /\ UNCHANGED asked

Next == Ask \/ Answer \/ Take

Spec == Init /\ [][Next]_vars
=============================================================================
