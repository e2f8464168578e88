------------------------------- MODULE Tracer -------------------------------
(* The program's own trace (tracing.h): scopes of every thread are written   *)
(* to one file as they end.  enabled_ is read outside the mutex; file_ is    *)
(* read again inside it.  The file is a sequence of what the calls print:    *)
(* the head, separators, records, the tail.                                  *)
EXTENDS Integers, Sequences, FiniteSetsExt

CONSTANTS
  Writers,   \* the threads that trace, the main thread among them
  MaxClock,   \* bound: microseconds that pass
  MaxScopes   \* bound: scopes and counters that begin

ASSUME TracerAssumption == Writers \subseteq Nat \ {0} /\ MaxClock \in Nat /\ MaxScopes \in Nat

VARIABLES
  clock,     \* now_us()
  begun,     \* scopes and counters begun, the identity of the next one
  file,      \* what has been printed
  isOpen,    \* file_ is not null
  enabled,   \* enabled_
  first,     \* first_event_
  lock,      \* the thread inside the mutex, or Nobody
  scopes,    \* per thread: the open scopes, innermost last
  job,       \* per thread: the call under way
  process    \* "starting", "running", "closed", "over"

tracerVars == <<clock, begun, file, isOpen, enabled, first, lock, scopes, job, process>>

Nobody == 0
Idle == [step |-> "none"]
Mark(what) == [what |-> what]

TracerInit ==
  /\ clock = 0 /\ begun = 0
  /\ file = <<>>
  /\ isOpen = FALSE /\ enabled = FALSE /\ first = TRUE
  /\ lock = Nobody
  /\ scopes = [t \in Writers |-> <<>>]
  /\ job = [t \in Writers |-> Idle]
  /\ process = "starting"

\* enabled_ is read without the mutex: after close a thread may still see TRUE.
CouldRead == {enabled} \cup (IF process = "closed" THEN {TRUE} ELSE {})

Tick ==
  /\ clock < MaxClock /\ process \in {"running", "closed"}
  /\ clock' = clock + 1
  /\ UNCHANGED <<begun, file, isOpen, enabled, first, lock, scopes, job, process>>

\* main: with --trace an output is set, before a file is opened.
SetOutput ==
  /\ process = "starting" /\ lock = Nobody
  /\ file' = <<Mark("head")>>
  /\ isOpen' = TRUE /\ enabled' = TRUE /\ first' = TRUE
  /\ process' = "running"
  /\ UNCHANGED <<clock, begun, lock, scopes, job>>

Outer(t) ==
  LET active == {k \in DOMAIN scopes[t] : scopes[t][k].active} IN
  IF active = {} THEN 0 ELSE scopes[t][Max(active)].id

EnterScope(t) ==
  /\ process \in {"running", "closed"} /\ begun < MaxScopes /\ job[t] = Idle
  /\ begun' = begun + 1
  /\ \E active \in CouldRead :
       scopes' = [scopes EXCEPT ![t] =
                    Append(@, [id |-> begun + 1, start |-> clock, active |-> active, inside |-> Outer(t)])]
  /\ UNCHANGED <<clock, file, isOpen, enabled, first, lock, job, process>>

\* The end of a scope: the interval is taken, then write_complete looks at enabled_.
LeaveScope(t) ==
  /\ scopes[t] # <<>> /\ job[t] = Idle /\ process \in {"running", "closed"}
  /\ LET s == scopes[t][Len(scopes[t])]
         record == [what |-> "record", ph |-> "X", ts |-> s.start, dur |-> clock - s.start, tid |-> t,
                    id |-> s.id, inside |-> s.inside, args |-> <<"file", "line", "func">>]
     IN \E goOn \in CouldRead :
          job' = [job EXCEPT ![t] = IF s.active /\ goOn THEN [step |-> "lock", record |-> record] ELSE Idle]
  /\ scopes' = [scopes EXCEPT ![t] = SubSeq(@, 1, Len(@) - 1)]
  /\ UNCHANGED <<clock, begun, file, isOpen, enabled, first, lock, process>>

WriteCounter(t) ==
  /\ process \in {"running", "closed"} /\ begun < MaxScopes /\ job[t] = Idle
  /\ begun' = begun + 1
  /\ \E goOn \in CouldRead :
       job' = [job EXCEPT ![t] = IF goOn
                THEN [step |-> "lock",
                      record |-> [what |-> "record", ph |-> "C", ts |-> clock, dur |-> 0, tid |-> t,
                                  id |-> begun + 1, inside |-> 0, args |-> <<"value">>]]
                ELSE Idle]
  /\ UNCHANGED <<clock, file, isOpen, enabled, first, lock, scopes, process>>

LockIgnored == TRUE
MayLock == lock = Nobody

\* The mutex is taken; without a file the call returns.
Locked(t) ==
  /\ job[t].step = "lock" /\ MayLock /\ process # "over"
  /\ IF isOpen THEN lock' = t /\ job' = [job EXCEPT ![t].step = "separate"]
               ELSE lock' = lock /\ job' = [job EXCEPT ![t] = Idle]
  /\ UNCHANGED <<clock, begun, file, isOpen, enabled, first, scopes, process>>

Separate(t) ==
  /\ job[t].step = "separate" /\ process # "over"
  /\ file' = IF first THEN file ELSE Append(file, Mark("separator"))
  /\ first' = FALSE
  /\ job' = [job EXCEPT ![t].step = "print"]
  /\ UNCHANGED <<clock, begun, isOpen, enabled, lock, scopes, process>>

PrintRecord(t) ==
  /\ job[t].step = "print" /\ process # "over"
  /\ file' = Append(file, job[t].record)
  /\ lock' = Nobody
  /\ job' = [job EXCEPT ![t] = Idle]
  /\ UNCHANGED <<clock, begun, isOpen, enabled, first, scopes, process>>

\* main, after its loop: the loader and query threads may still be in scopes.
Close ==
  /\ process = "running" /\ MayLock
  /\ file' = Append(file, Mark("tail"))
  /\ isOpen' = FALSE /\ enabled' = FALSE
  /\ process' = "closed"
  /\ UNCHANGED <<clock, begun, first, lock, scopes, job>>

\* The threads are joined and main returns, or the process is killed before:
\* only the file is left of it.
Leave ==
  /\ clock' = 0 /\ begun' = 0
  /\ isOpen' = FALSE /\ enabled' = FALSE /\ first' = TRUE
  /\ lock' = Nobody
  /\ scopes' = [t \in Writers |-> <<>>] /\ job' = [t \in Writers |-> Idle]
  /\ process' = "over"
  /\ UNCHANGED file

Exit == process = "closed" /\ (\A t \in Writers : job[t] = Idle /\ scopes[t] = <<>>) /\ Leave
Killed == process = "running" /\ Leave

TracerNext ==
  \/ Tick \/ SetOutput \/ Close \/ Exit \/ Killed
  \/ \E t \in Writers : \/ EnterScope(t) \/ LeaveScope(t) \/ WriteCounter(t)
                         \/ Locked(t) \/ Separate(t) \/ PrintRecord(t)

\* A complete document: a head, records parted by separators, a tail.
Complete(f) ==
  /\ Len(f) = 2 \/ (Len(f) > 2 /\ Len(f) % 2 = 1)
  /\ \A k \in DOMAIN f :
       f[k].what = IF k = 1 THEN "head" ELSE IF k = Len(f) THEN "tail"
                   ELSE IF k % 2 = 0 THEN "record" ELSE "separator"

-----------------------------------------------------------------------------
(* What is printed up to any moment can still become a complete document, and *)
(* it is one from close on, however the scopes of the threads end around it   *)
(* (write_complete, write_counter, close_file).                               *)
FileWellFormed ==
  /\ process = "closed" => Complete(file)
  /\ process = "running" /\ lock = Nobody => Complete(Append(file, Mark("tail")))
=============================================================================
