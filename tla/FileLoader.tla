----------------------------- MODULE FileLoader -----------------------------
(***************************************************************************)
(* src/src/platform/file_loader_desktop.cpp: a thread per load that        *)
(* parses, resolves symbols, replaces the tables of the query database     *)
(* and publishes the model, while the UI thread may cancel and polls.      *)
(*                                                                         *)
(* A file is a number; its trace has the same number.  What parsing,       *)
(* symbol resolution and the database do inside is abstracted to whether   *)
(* they succeed and to where they look at the cancel flag.                 *)
(***************************************************************************)
EXTENDS Naturals

CONSTANT MaxFiles       \* bound: files the user opens

ASSUME MaxFilesAssumption == MaxFiles \in Nat

Files  == 1..MaxFiles
Traces == 0..MaxFiles   \* 0: no trace

VARIABLES
  loading, finished, cancelled,   \* the atomics of FileLoader::Impl
  success, error,                 \* success_, error_
  filename,                       \* filename_
  model,                          \* model, the loader's own
  tpc, parsed,                    \* the thread: where it is, what parse said
  tables                          \* the trace in the query database

loadFlags  == <<loading, finished, cancelled>>
loaderVars == <<loadFlags, success, error, filename, model, tpc, parsed, tables>>

LoaderInit ==
  /\ loading = FALSE /\ finished = FALSE /\ cancelled = FALSE
  /\ success = FALSE /\ error = "none"
  /\ filename = 0
  /\ model = 0
  /\ tpc = "none" /\ parsed = FALSE
  /\ tables = 0

(* The thread was started and its last statement has not been executed. *)
LoaderActive == tpc \notin {"none", "ended"}

-----------------------------------------------------------------------------
(* The UI thread. *)

(* load_file and load_buffer: join, reset, spawn. *)
LoadFile(f) ==
  /\ ~LoaderActive                        \* join()
  /\ filename' = f
  /\ loading' = TRUE /\ finished' = FALSE /\ cancelled' = FALSE
  /\ success' = FALSE /\ error' = "none"
  /\ tpc' = "parse"
  /\ UNCHANGED <<model, parsed, tables>>

CancelLoad ==
  /\ cancelled' = TRUE
  /\ UNCHANGED <<loading, finished, success, error, filename, model, tpc, parsed, tables>>

(* Seeded variant: a cancelled load is not waited for. *)
PollUnlessCancelled ==
  /\ finished /\ ~cancelled
  /\ ~LoaderActive
  /\ tpc' = "none"
  /\ loading' = FALSE /\ finished' = FALSE
  /\ UNCHANGED <<cancelled, success, error, filename, parsed, tables>>

(* poll_finished, when it returns true: it joins the thread. *)
PollFinished ==
  /\ finished
  /\ ~LoaderActive
  /\ tpc' = "none"
  /\ loading' = FALSE /\ finished' = FALSE
  /\ UNCHANGED <<cancelled, success, error, filename, parsed, tables>>

(* poll_finished with take_model after a success. *)
CollectTrace   == PollFinished /\ success /\ model' = 0
CollectFailure == PollFinished /\ ~success /\ UNCHANGED model

-----------------------------------------------------------------------------
(* The loader thread. *)

(* Seeded variant: the model of the failed import stays. *)
FailKeepsModel(message) ==
  /\ success' = FALSE
  /\ error' = message
  /\ tpc' = "failed"
  /\ UNCHANGED <<loadFlags, filename, model, parsed, tables>>

(* fail(): nothing of the import stays ... *)
Fail(message) ==
  /\ model' = 0
  /\ success' = FALSE
  /\ error' = message
  /\ tpc' = "failed"
  /\ UNCHANGED <<loadFlags, filename, parsed, tables>>

Goto(here, there) == tpc = here /\ tpc' = there

(* ... and then the load is finished: its last store. *)
FinishFailed ==
  /\ Goto("failed", "ending")
  /\ finished' = TRUE
  /\ UNCHANGED <<loading, cancelled, success, error, filename, model, parsed, tables>>

ParseReturns ==
  /\ Goto("parse", "check")
  /\ parsed' \in BOOLEAN
  /\ UNCHANGED <<loadFlags, success, error, filename, model, tables>>

(* report_progress throws once it sees the flag; so may anything else. *)
Throws ==
  /\ tpc \in {"parse", "resolve"}
  /\ \E m \in {"exception"} \union (IF cancelled THEN {"canceled"} ELSE {}) : Fail(m)

(* finish_parse: the first look at the flag, then what parse returned. *)
CheckCanceled == tpc = "check" /\ cancelled /\ Fail("canceled")
CheckFailed   == tpc = "check" /\ ~cancelled /\ ~parsed /\ Fail("parser")

CheckPassed ==
  /\ ~cancelled /\ parsed
  /\ Goto("check", "resolve")
  /\ UNCHANGED <<loadFlags, success, error, filename, model, parsed, tables>>

(* resolve_profile, when there are modules, and the move of the new model. *)
MoveModel ==
  /\ Goto("resolve", "drop")
  /\ model' = filename
  /\ UNCHANGED <<loadFlags, success, error, filename, parsed, tables>>

(* QueryDb::load drops the old tables ... *)
DropTables ==
  /\ Goto("drop", "fill")
  /\ tables' = 0
  /\ UNCHANGED <<loadFlags, success, error, filename, model, parsed>>

(* ... and fills the new ones.  Its callback never throws: no cancel here. *)
FillTables ==
  /\ Goto("fill", "recheck")
  /\ tables' = model
  /\ UNCHANGED <<loadFlags, success, error, filename, model, parsed>>

(* The last look at the flag. *)
RecheckCanceled == tpc = "recheck" /\ cancelled /\ Fail("canceled")

(* Seeded variant: a cancellation during the database load is not looked at. *)
RecheckIgnoresCancel ==
  /\ Goto("recheck", "publish")
  /\ success' = TRUE
  /\ UNCHANGED <<loadFlags, error, filename, model, parsed, tables>>

RecheckPassed ==
  /\ ~cancelled
  /\ Goto("recheck", "publish")
  /\ success' = TRUE
  /\ UNCHANGED <<loadFlags, error, filename, model, parsed, tables>>

Publish ==
  /\ Goto("publish", "ending")
  /\ finished' = TRUE
  /\ UNCHANGED <<loading, cancelled, success, error, filename, model, parsed, tables>>

ThreadEnds ==
  /\ Goto("ending", "ended")
  /\ UNCHANGED <<loadFlags, success, error, filename, model, parsed, tables>>

LoaderThread ==
  \/ ParseReturns \/ Throws
  \/ CheckCanceled \/ CheckFailed \/ CheckPassed
  \/ MoveModel \/ DropTables \/ FillTables
  \/ RecheckCanceled \/ RecheckPassed
  \/ FinishFailed \/ Publish \/ ThreadEnds

(* The destructor's join(), after the last poll. *)
JoinThread ==
  /\ ~LoaderActive
  /\ tpc' = "none"
  /\ UNCHANGED <<loadFlags, success, error, filename, model, parsed, tables>>

(* The loader's user opens a file only when is_loading is false. *)
LoaderNext ==
  \/ ~loading /\ \E f \in Files : LoadFile(f)
  \/ CancelLoad \/ CollectTrace \/ CollectFailure \/ JoinThread
  \/ LoaderThread

(* What the loader relies on and what it does, without its user. *)
LoaderSpec == LoaderInit /\ [][LoaderNext]_loaderVars

-----------------------------------------------------------------------------
LoaderPcs == {"none", "parse", "check", "resolve", "drop", "fill", "recheck",
              "publish", "failed", "ending", "ended"}

(* The type of every variable. *)
LoaderTypeOK ==
  /\ loading \in BOOLEAN /\ finished \in BOOLEAN /\ cancelled \in BOOLEAN
  /\ success \in BOOLEAN
  /\ error \in {"none", "exception", "parser", "canceled"}
  /\ filename \in Traces /\ model \in Traces /\ tables \in Traces
  /\ tpc \in LoaderPcs /\ parsed \in BOOLEAN

(* "An import error never publishes a partial model as a completed capture":
   what a finished load offers is the whole trace, also in the database, or
   nothing together with an error. *)
CompleteOrNothing ==
  finished => IF success THEN model = filename /\ tables = filename /\ error = "none"
                         ELSE model = 0 /\ error # "none"

(* Why it is so, as an inductive invariant: the thread of a load in progress has
   published nothing, ... *)
FlagsFollowLoad ==
  /\ LoaderActive => loading
  /\ loading /\ ~finished => tpc \notin {"none", "ending", "ended"}
  /\ finished => loading /\ tpc \in {"none", "ending", "ended"}

(* ... and what it has put together so far belongs to the file being loaded. *)
ProgressOfLoad ==
  /\ tpc \in {"parse", "check", "resolve", "drop", "fill", "recheck"} => ~success /\ error = "none"
  /\ tpc \in {"drop", "fill", "recheck", "publish"} => model = filename
  /\ tpc \in {"recheck", "publish"} => tables = filename
  /\ tpc = "publish" => success /\ error = "none"
  /\ tpc = "failed" => ~success /\ error # "none" /\ model = 0

LoaderInv == LoaderTypeOK /\ FlagsFollowLoad /\ ProgressOfLoad /\ CompleteOrNothing

(* A cancellation is honoured by every load that has not succeeded yet. *)
LS == INSTANCE LoadService WITH
        phase  <- IF finished THEN "ready" ELSE IF loading THEN "loading" ELSE "idle",
        asked  <- filename,
        doomed <- loading /\ cancelled /\ ~success,
        given  <- IF finished /\ success THEN model ELSE 0

(* The loader keeps the promise of LoadService. *)
KeepsLoadPromise == LS!FairSpec
=============================================================================
