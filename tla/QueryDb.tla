------------------------------ MODULE QueryDb -------------------------------
(***************************************************************************)
(* src/src/model/query_db.cpp: one in-memory SQLite connection shared by   *)
(* four threads.  The UI thread starts, cancels and collects queries, the  *)
(* query thread steps the statement, the index thread builds the indexes   *)
(* after a load, and the loader thread replaces the tables.                *)
(*                                                                         *)
(* The connection is opened with SQLITE_OPEN_FULLMUTEX, so one call of     *)
(* SQLite is one step here.  A row is abstracted to the number of the      *)
(* trace it was read from, a query to the number of its request.           *)
(***************************************************************************)
EXTENDS Naturals, Sequences

CONSTANTS RowLimit,      \* row_limit, 10000 in the code
          NumIndexes,    \* CREATE INDEX statements, 4 in the code
          MaxRequests,   \* bound: calls of execute_async
          MaxLoads       \* bound: traces opened

ASSUME RowLimitAssumption == RowLimit \in Nat \ {0}
ASSUME NumIndexesAssumption == NumIndexes \in Nat \ {0}
ASSUME BoundsAssumption == MaxRequests \in Nat /\ MaxLoads \in Nat

VARIABLES
  running, done, cancel,   \* query_running_, query_done_, query_cancel_
  asyncResult,             \* async_result_
  handler,                 \* the connection's progress handler is installed
  qpc, qres,               \* query_thread_: where it is, the result it builds
  requests,                \* calls of execute_async so far
  ipc, indexing, indexes,  \* index_thread_, indexing_, the indexes that exist
  tables, loaded,          \* the trace in the tables (0: none), loaded_
  lpc,                     \* the load, or the destructor, in progress
  loads,                   \* traces opened so far
  shown,                   \* app.cpp: has_trace_ && !loader_.is_loading()
  ui                       \* the UI thread: "idle", or inside execute()

flagVars  == <<running, done, cancel>>
queryVars == <<asyncResult, handler, qpc, qres, requests>>
indexVars == <<ipc, indexing, indexes>>
loadVars  == <<tables, loaded, lpc, loads, shown>>
dbVars    == <<flagVars, queryVars, ui, indexVars, loadVars>>

(* index_thread_ stands at one of its statements, at the assignment of
   indexing_, or has ended. *)
IndexStatements == 1..NumIndexes
NoThread    == 0
IndexFinish == NumIndexes + 1
IndexEnded  == NumIndexes + 2

(* The query thread is between its creation and its last assignment. *)
QueryActive == qpc \notin {"none", "ended"}

(* sqlite3_step holds the connection's mutex from its call to its return. *)
ConnectionFree == qpc # "stepping"

IndexActive == ipc \notin {NoThread, IndexEnded}

(* QueryResult; "stop" is not in the code: it says how sqlite3_step ended. *)
EmptyResult(r) ==
  [req |-> r, rows |-> <<>>, ok |-> FALSE, error |-> "none", stop |-> "none"]

(* What std::move leaves of async_result_: no rows, no error, ok as it was. *)
MovedFrom(res) ==
  [req |-> 0, rows |-> <<>>, ok |-> res.ok, error |-> "none", stop |-> res.stop]

DbInit ==
  /\ running = FALSE /\ done = FALSE /\ cancel = FALSE
  /\ asyncResult = EmptyResult(0)
  /\ handler = FALSE
  /\ qpc = "none" /\ qres = EmptyResult(0)
  /\ requests = 0
  /\ ipc = NoThread /\ indexing = FALSE /\ indexes = {}
  /\ tables = 0 /\ loaded = FALSE
  /\ lpc = "none" /\ loads = 0
  /\ shown = FALSE
  /\ ui = "idle"

-----------------------------------------------------------------------------
(* The UI thread.  Its calls come from panels, which App renders only while
   a trace is shown. *)

(* Seeded variant: the flags are reset before the previous thread is joined,
   whose last assignment then lands on the new query. *)
ExecuteAsyncResetsFirst ==
  /\ shown /\ ui = "idle"
  /\ ~running
  /\ requests < MaxRequests
  /\ running' = TRUE /\ cancel' = FALSE
  /\ done' = QueryActive
  /\ qpc' = "install"
  /\ qres' = EmptyResult(requests + 1)
  /\ requests' = requests + 1
  /\ UNCHANGED <<asyncResult, handler, ui, indexVars, loadVars>>

(* execute_async: join the previous query thread, reset the flags, spawn.
   Every caller has seen query_running_ false. *)
ExecuteAsync ==
  /\ shown /\ ui = "idle"
  /\ ~running
  /\ ~QueryActive                        \* query_thread_.join()
  /\ requests < MaxRequests
  /\ running' = TRUE /\ done' = FALSE /\ cancel' = FALSE
  /\ qpc' = "install"
  /\ qres' = EmptyResult(requests + 1)
  /\ requests' = requests + 1
  /\ UNCHANGED <<asyncResult, handler, ui, indexVars, loadVars>>

CancelQuery ==
  /\ shown /\ ui = "idle"
  /\ cancel' = TRUE
  /\ UNCHANGED <<running, done, queryVars, ui, indexVars, loadVars>>

(* Seeded variant: the result is copied and stays on offer. *)
TakeResultKeepsDone ==
  /\ shown /\ ui = "idle"
  /\ done
  /\ ~QueryActive
  /\ qpc' = "none"
  /\ UNCHANGED <<flagVars, asyncResult, handler, qres, requests, ui, indexVars, loadVars>>

(* take_result; the panel calls it after is_query_done(). *)
TakeResult ==
  /\ shown /\ ui = "idle"
  /\ done
  /\ ~QueryActive
  /\ qpc' = "none"
  /\ done' = FALSE
  /\ asyncResult' = MovedFrom(asyncResult)
  /\ UNCHANGED <<running, cancel, handler, qres, requests, ui, indexVars, loadVars>>

-----------------------------------------------------------------------------
(* The query thread. *)

(* Seeded variant: the query thread clears the cancel flag itself, too late. *)
InstallHandlerClearsCancel ==
  /\ qpc = "install"
  /\ ConnectionFree
  /\ handler' = TRUE
  /\ cancel' = FALSE
  /\ qpc' = "prepare"
  /\ UNCHANGED <<running, done, asyncResult, qres, requests, ui, indexVars, loadVars>>

InstallHandler ==
  /\ qpc = "install"
  /\ handler' = TRUE
  /\ qpc' = "prepare"
  /\ UNCHANGED <<flagVars, asyncResult, qres, requests, ui, indexVars, loadVars>>

(* Seeded variant: the error path returns before the handler is removed. *)
PrepareFailsEarlyReturn ==
  /\ qpc = "prepare"
  /\ \E e \in IF loaded THEN {"sql"} ELSE {"not loaded"} :
        qres' = [qres EXCEPT !.error = e]
  /\ qpc' = "publish"
  /\ UNCHANGED <<flagVars, asyncResult, handler, requests, ui, indexVars, loadVars>>

(* No trace, or SQL that does not compile. *)
PrepareFails ==
  /\ qpc = "prepare"
  /\ \E e \in IF loaded THEN {"sql"} ELSE {"not loaded"} :
        qres' = [qres EXCEPT !.error = e]
  /\ qpc' = "remove"
  /\ UNCHANGED <<flagVars, asyncResult, handler, requests, ui, indexVars, loadVars>>

Prepare ==
  /\ qpc = "prepare"
  /\ loaded
  /\ qpc' = "row"
  /\ UNCHANGED <<flagVars, asyncResult, handler, qres, requests, ui, indexVars, loadVars>>

(* sqlite3_step is called ... *)
StepBegin ==
  /\ qpc = "row"
  /\ qpc' = "stepping"
  /\ UNCHANGED <<flagVars, asyncResult, handler, qres, requests, ui, indexVars, loadVars>>

(* Seeded variant: one row too many. *)
StepRowOffByOne ==
  /\ qpc = "stepping"
  /\ Len(qres.rows) <= RowLimit
  /\ qres' = [qres EXCEPT !.rows = Append(@, tables)]
  /\ qpc' = "row"
  /\ UNCHANGED <<flagVars, asyncResult, handler, requests, ui, indexVars, loadVars>>

(* ... and returned a row within the limit. *)
StepRow ==
  /\ qpc = "stepping"
  /\ Len(qres.rows) < RowLimit
  /\ qres' = [qres EXCEPT !.rows = Append(@, tables)]
  /\ qpc' = "row"
  /\ UNCHANGED <<flagVars, asyncResult, handler, requests, ui, indexVars, loadVars>>

(* The statement stopped for any reason but an interruption: a row past the
   limit, the end of the rows, or an error code the code does not look at.
   row_limit <= 0 is the test for truncation. *)
StepStop ==
  /\ qpc = "stepping"
  /\ \E why \in {"more", "exhausted", "failed"} :
        /\ why = "more" => Len(qres.rows) = RowLimit
        /\ qres' = [qres EXCEPT !.ok = TRUE, !.stop = why,
                      !.error = IF Len(qres.rows) >= RowLimit THEN "truncated" ELSE "none"]
  /\ qpc' = "remove"
  /\ UNCHANGED <<flagVars, asyncResult, handler, requests, ui, indexVars, loadVars>>

(* progress_callback returned non-zero: SQLITE_INTERRUPT. *)
StepInterrupted ==
  /\ qpc = "stepping"
  /\ handler /\ cancel
  /\ qres' = [qres EXCEPT !.error = "cancelled", !.stop = "interrupted"]
  /\ qpc' = "remove"
  /\ UNCHANGED <<flagVars, asyncResult, handler, requests, ui, indexVars, loadVars>>

RemoveHandler ==
  /\ qpc = "remove"
  /\ handler' = FALSE
  /\ qpc' = "publish"
  /\ UNCHANGED <<flagVars, asyncResult, qres, requests, ui, indexVars, loadVars>>

Publish ==
  /\ qpc = "publish"
  /\ asyncResult' = qres
  /\ qpc' = "clearRunning"
  /\ UNCHANGED <<flagVars, handler, qres, requests, ui, indexVars, loadVars>>

ClearRunning ==
  /\ qpc = "clearRunning"
  /\ running' = FALSE
  /\ qpc' = "setDone"
  /\ UNCHANGED <<done, cancel, asyncResult, handler, qres, requests, ui, indexVars, loadVars>>

(* Seeded variant: a cancelled query has no result to announce. *)
SetDoneUnlessCancelled ==
  /\ qpc = "setDone"
  /\ done' = (qres.error # "cancelled")
  /\ qpc' = "ended"
  /\ UNCHANGED <<running, cancel, asyncResult, handler, qres, requests, ui, indexVars, loadVars>>

SetDone ==
  /\ qpc = "setDone"
  /\ done' = TRUE
  /\ qpc' = "ended"
  /\ UNCHANGED <<running, cancel, asyncResult, handler, qres, requests, ui, indexVars, loadVars>>

-----------------------------------------------------------------------------
(* The index thread. *)

(* CREATE INDEX i ran to its end; the return code is not looked at. *)
CreateIndex(i) ==
  /\ ipc = i
  /\ ConnectionFree
  /\ indexes' = indexes \union {i}
  /\ ipc' = i + 1
  /\ UNCHANGED <<indexing, flagVars, queryVars, ui, loadVars>>

(* The progress handler belongs to the connection: a cancelled query whose
   handler is still installed interrupts CREATE INDEX as well. *)
CreateIndexInterrupted(i) ==
  /\ ipc = i
  /\ ConnectionFree
  /\ handler /\ cancel
  /\ ipc' = i + 1
  /\ UNCHANGED <<indexing, indexes, flagVars, queryVars, ui, loadVars>>

IndexingDone ==
  /\ ipc = IndexFinish
  /\ indexing' = FALSE
  /\ ipc' = IndexEnded
  /\ UNCHANGED <<indexes, flagVars, queryVars, ui, loadVars>>

-----------------------------------------------------------------------------
(* The UI thread inside execute(), the synchronous call of the schema browser:
   it needs the connection's mutex, and every other UI action waits for it. *)
ShowSchema ==
  /\ shown /\ ui = "idle"
  /\ ui' = "execute"
  /\ UNCHANGED <<flagVars, queryVars, indexVars, loadVars>>

\* What it returns, or why not, stays in the popup and is left out.
ExecuteReturns ==
  /\ ui = "execute"
  /\ ConnectionFree
  /\ ui' = "idle"
  /\ UNCHANGED <<flagVars, queryVars, indexVars, loadVars>>

-----------------------------------------------------------------------------
(* The loader thread in load(), with the two ends of a load on the UI thread. *)

(* open_file / open_buffer: from here no panel is rendered. *)
BeginLoad ==
  /\ lpc = "none" /\ ui = "idle"
  /\ loads < MaxLoads
  /\ lpc' = "parse"
  /\ loads' = loads + 1
  /\ shown' = FALSE
  /\ UNCHANGED <<tables, loaded, flagVars, queryVars, ui, indexVars>>

(* Seeded variant: a running query is joined without being cancelled. *)
LoadJoinsOnly ==
  /\ lpc = "parse"
  /\ lpc' = "joinQuery"
  /\ UNCHANGED <<tables, loaded, loads, shown, flagVars, queryVars, ui, indexVars>>

(* The trace is parsed; load() starts by cancelling the running query. *)
LoadCancelsQuery ==
  /\ lpc = "parse"
  /\ cancel' = TRUE
  /\ lpc' = "joinQuery"
  /\ UNCHANGED <<tables, loaded, loads, shown, running, done, queryVars, ui, indexVars>>

(* Seeded variant: load() goes on while the query still runs. *)
LoadSkipsQuery ==
  /\ lpc = "joinQuery"
  /\ lpc' = "joinIndex"
  /\ UNCHANGED <<tables, loaded, loads, shown, flagVars, queryVars, ui, indexVars>>

LoadJoinsQuery ==
  /\ lpc = "joinQuery"
  /\ ~QueryActive
  /\ qpc' = "none"
  /\ lpc' = "joinIndex"
  /\ UNCHANGED <<tables, loaded, loads, shown, asyncResult, handler, qres, requests,
                 flagVars, ui, indexVars>>

(* Seeded variant: load() goes on while the indexes are being built. *)
LoadSkipsIndex ==
  /\ lpc = "joinIndex"
  /\ lpc' = "drop"
  /\ UNCHANGED <<tables, loaded, loads, shown, flagVars, queryVars, ui, indexVars>>

LoadJoinsIndex ==
  /\ lpc = "joinIndex"
  /\ ~IndexActive
  /\ ipc' = NoThread
  /\ lpc' = "drop"
  /\ UNCHANGED <<tables, loaded, loads, shown, indexing, indexes, flagVars, queryVars, ui>>

(* DROP TABLE takes the indexes with it. *)
DropTables ==
  /\ lpc = "drop"
  /\ tables' = 0
  /\ indexes' = {}
  /\ lpc' = "fill"
  /\ UNCHANGED <<loaded, loads, shown, ipc, indexing, flagVars, queryVars, ui>>

(* CREATE TABLE, one transaction of inserts, loaded_ = true. *)
FillTables ==
  /\ lpc = "fill"
  /\ tables' = loads
  /\ loaded' = TRUE
  /\ lpc' = "filled"
  /\ UNCHANGED <<loads, shown, flagVars, queryVars, ui, indexVars>>

(* finish_load after a success: the panels show, create_indexes_async runs. *)
FinishLoad ==
  /\ lpc = "filled"
  /\ ~IndexActive                        \* index_thread_.join()
  /\ shown' = TRUE
  /\ lpc' = "none"
  /\ indexing' = TRUE
  /\ ipc' = 1
  /\ UNCHANGED <<tables, loaded, loads, indexes, flagVars, queryVars, ui>>

(* finish_load after a failed parse, or after a cancellation seen too late to
   keep the tables of the previous trace. *)
FailLoad ==
  /\ lpc \in {"parse", "filled"}
  /\ lpc' = "none"
  /\ UNCHANGED <<tables, loaded, loads, shown, flagVars, queryVars, ui, indexVars>>

-----------------------------------------------------------------------------
(* The destructor, after the main loop. *)
Close ==
  /\ lpc \in {"none", "filled"} /\ ui = "idle"
  /\ cancel' = TRUE
  /\ shown' = FALSE
  /\ lpc' = "closeQuery"
  /\ UNCHANGED <<tables, loaded, loads, running, done, queryVars, ui, indexVars>>

CloseJoinsQuery ==
  /\ lpc = "closeQuery"
  /\ ~QueryActive
  /\ qpc' = "none"
  /\ lpc' = "closeIndex"
  /\ UNCHANGED <<tables, loaded, loads, shown, asyncResult, handler, qres, requests,
                 flagVars, ui, indexVars>>

CloseJoinsIndex ==
  /\ lpc = "closeIndex"
  /\ ~IndexActive
  /\ ipc' = NoThread
  /\ lpc' = "closed"
  /\ UNCHANGED <<tables, loaded, loads, shown, indexing, indexes, flagVars, queryVars, ui>>

Closed == lpc = "closed" /\ UNCHANGED dbVars

-----------------------------------------------------------------------------
QueryStep ==
  \/ InstallHandler \/ PrepareFails \/ Prepare
  \/ StepBegin \/ StepRow \/ StepStop \/ StepInterrupted
  \/ RemoveHandler \/ Publish \/ ClearRunning \/ SetDone

IndexStep ==
  \/ \E i \in IndexStatements : CreateIndex(i) \/ CreateIndexInterrupted(i)
  \/ IndexingDone

LoadStep ==
  \/ LoadCancelsQuery \/ LoadJoinsQuery \/ LoadJoinsIndex \/ DropTables
  \/ FillTables \/ FinishLoad \/ FailLoad

CloseStep == CloseJoinsQuery \/ CloseJoinsIndex

UiCall == ExecuteAsync \/ CancelQuery \/ TakeResult \/ ShowSchema \/ ExecuteReturns

DbNext ==
  \/ UiCall \/ QueryStep \/ IndexStep
  \/ BeginLoad \/ LoadStep
  \/ Close \/ CloseStep \/ Closed

DbSpec == DbInit /\ [][DbNext]_dbVars

(* Every thread runs, but nothing says that a statement ever stops by itself:
   StepRow and StepStop get no fairness. *)
QueryFairness ==
  /\ WF_dbVars(InstallHandler \/ PrepareFails \/ Prepare \/ StepBegin)
  /\ WF_dbVars(StepInterrupted)
  /\ WF_dbVars(RemoveHandler \/ Publish \/ ClearRunning \/ SetDone)

DbFairness ==
  /\ QueryFairness
  /\ WF_dbVars(IndexStep)
  /\ WF_dbVars(LoadStep)
  /\ WF_dbVars(CloseStep)
  /\ WF_dbVars(ExecuteReturns)

FairDbSpec == DbSpec /\ DbFairness

-----------------------------------------------------------------------------
Requests == 0..MaxRequests
Traces   == 0..MaxLoads

QueryPcs == {"none", "install", "prepare", "row", "stepping", "remove", "publish",
             "clearRunning", "setDone", "ended"}
LoadPcs  == {"none", "parse", "joinQuery", "joinIndex", "drop", "fill", "filled",
             "closeQuery", "closeIndex", "closed"}

Results ==
  [req : Requests, rows : Seq(Traces), ok : BOOLEAN,
   error : {"none", "not loaded", "sql", "cancelled", "truncated"},
   stop : {"none", "more", "exhausted", "failed", "interrupted"}]

(* The type of every variable; no result is longer than the limit. *)
TypeOK ==
  /\ running \in BOOLEAN /\ done \in BOOLEAN /\ cancel \in BOOLEAN
  /\ asyncResult \in Results /\ qres \in Results
  /\ Len(asyncResult.rows) <= RowLimit /\ Len(qres.rows) <= RowLimit
  /\ handler \in BOOLEAN
  /\ qpc \in QueryPcs
  /\ requests \in Requests
  /\ ipc \in NoThread..IndexEnded
  /\ indexing \in BOOLEAN /\ indexes \in SUBSET IndexStatements
  /\ tables \in Traces /\ loads \in Traces
  /\ loaded \in BOOLEAN /\ shown \in BOOLEAN
  /\ lpc \in LoadPcs
  /\ ui \in {"idle", "execute"}

(* query_done_ never announces an earlier query: when the panel sees it, the
   thread of the newest query has made its last assignment and async_result_ is
   that query's, so take_result neither waits nor returns something older. *)
DoneIsCurrent ==
  done => /\ ~QueryActive /\ ~running
          /\ asyncResult.req = requests

(* load() replaces the tables under no reader: a result, finished or under
   construction, never mixes rows of two traces. *)
OneTrace(res) == \A i, j \in DOMAIN res.rows : res.rows[i] = res.rows[j]

RowsOfOneTrace == OneTrace(asyncResult) /\ OneTrace(qres)

(* While the tables are dropped and filled no other thread uses the connection. *)
TablesReplacedAlone ==
  lpc \in {"drop", "fill"} => ~QueryActive /\ ~IndexActive /\ ui = "idle"

(* load() leaves query_cancel_ set; that is harmless because the progress handler
   is installed only while a query's thread is between install and remove. *)
HandlerOnlyInQuery ==
  handler => qpc \in {"prepare", "row", "stepping", "remove"}

(* What keeps those four true together, as one inductive invariant: the flags
   follow the thread, ... *)
FlagsFollowThread ==
  /\ running <=> qpc \notin {"none", "setDone", "ended"}
  /\ QueryActive => ~done

(* ... a thread works on the newest request and publishes it before it is done, ... *)
ResultIsCurrent ==
  /\ QueryActive => qres.req = requests
  /\ (done \/ qpc \in {"clearRunning", "setDone"}) => asyncResult.req = requests

(* ... a load or the destructor has joined a thread before it goes on, and has
   shut out the panels, ... *)
LoadIsAlone ==
  /\ lpc # "none" => ~shown /\ ui = "idle"
  /\ lpc \in {"joinIndex", "drop", "fill", "filled"} => ~QueryActive
  /\ lpc \in {"drop", "fill", "filled"} => ~IndexActive

(* ... and the rows read so far are rows of the tables that are there. *)
RowsFollowTables ==
  /\ qpc \in {"install", "prepare"} => qres.rows = <<>>
  /\ QueryActive => \A i \in DOMAIN qres.rows : qres.rows[i] = tables

DbInv ==
  /\ TypeOK /\ FlagsFollowThread /\ ResultIsCurrent /\ HandlerOnlyInQuery
  /\ LoadIsAlone /\ RowsFollowTables /\ RowsOfOneTrace

(* A cancelled query ends, however long its statement would run. *)
CancelEndsQuery == (cancel /\ QueryActive) ~> ~QueryActive

(* load() and the destructor join threads that may be inside an endless
   statement; they cancel first, so both return. *)
JoinsEnd ==
  /\ lpc = "joinQuery" ~> lpc = "filled"
  /\ lpc = "closeQuery" ~> lpc = "closed"

AQ == INSTANCE AsyncQuery WITH
        phase   <- IF done THEN "ready" ELSE IF QueryActive THEN "busy" ELSE "idle",
        asked   <- requests,
        answers <- IF done THEN asyncResult.req ELSE 0

(* The four threads together keep the promise of AsyncQuery. *)
AnswersTheLastQuestion == AQ!Spec

(* The notice "Results truncated to 10000 rows" is shown when rows were left. *)
TruncationNoticeIsTrue ==
  asyncResult.error = "truncated" => asyncResult.stop = "more"

(* When the notice that indexes are being built is gone, they are built. *)
IndexesBuilt == (shown /\ ~indexing) => indexes = IndexStatements

(* The UI thread comes back from the schema browser's execute() whatever the
   background query does. *)
SchemaBrowserReturns == ui = "execute" ~> ui = "idle"
=============================================================================
