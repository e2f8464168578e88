-------------------------------- MODULE App ---------------------------------
(***************************************************************************)
(* src/src/app.cpp with main.cpp and platform_desktop.cpp: the frame loop  *)
(* that collects a finished load, opens the file the user chose last, and  *)
(* renders the panels over the trace on show.                              *)
(*                                                                         *)
(* The view state holds indexes into the events of the trace on show, and  *)
(* panels keep what they computed for an index; the Details panel stands   *)
(* for them.  Here an index carries the trace it was taken from, which     *)
(* the code does not know.                                                 *)
(***************************************************************************)
EXTENDS FileLoader

CONSTANT EventIndexes   \* indexes into the events of a trace

NoIndex == 0             \* -1 in the code

ASSUME EventIndexesAssumption == EventIndexes \subseteq Nat \ {NoIndex}

VARIABLES
  pc,                    \* main_loop_step, App::update, or the cleanup in main
  running, minimized,    \* g_running, the window's flag
  drops, pending,        \* files chosen so far, g_pending (0: none)
  hasTrace, shown,       \* has_trace_, the trace in model_
  selected, scroll,      \* selected_event_idx_, pending_scroll_event_idx_
  cache                  \* DetailPanel: cached_event_idx_, with what it computed

winVars   == <<running, minimized>>
fileVars  == <<drops, pending>>
traceVars == <<hasTrace, shown>>
viewVars  == <<selected, scroll, cache>>
appVars   == <<pc, winVars, fileVars, traceVars, viewVars>>
allVars   == <<loaderVars, appVars>>

Nowhere == [idx |-> NoIndex, of |-> 0]

AppInit ==
  /\ LoaderInit
  /\ pc = "main"
  /\ running = TRUE /\ minimized = FALSE
  /\ drops = 0 /\ pending = 0
  /\ hasTrace = FALSE /\ shown = 0
  /\ selected = Nowhere /\ scroll = Nowhere
  /\ cache = Nowhere

(* update() renders the panels only when this holds. *)
Rendering == hasTrace /\ ~loading

Step(here, there) == pc = here /\ pc' = there

-----------------------------------------------------------------------------
(* The platform. *)

(* handle_file_drop: a drop, or the dialog's callback on its own thread.  The
   slot holds one file; a later one replaces it. *)
ChooseFile ==
  /\ drops < MaxFiles
  /\ drops' = drops + 1
  /\ pending' = drops'
  /\ UNCHANGED <<loaderVars, pc, winVars, traceVars, viewVars>>

WindowEvent ==
  /\ pc = "events"
  /\ \/ minimized' = ~minimized /\ UNCHANGED running
     \/ running' = FALSE /\ UNCHANGED minimized
  /\ UNCHANGED <<loaderVars, pc, fileVars, traceVars, viewVars>>

-----------------------------------------------------------------------------
(* main() and its loop.  The file argument is opened before the first frame. *)
OpenArgument ==
  /\ drops < MaxFiles
  /\ drops' = drops + 1
  /\ LoadFile(drops')
  /\ Step("main", "loop")
  /\ UNCHANGED <<winVars, pending, traceVars, viewVars>>

NoArgument ==
  /\ Step("main", "loop")
  /\ UNCHANGED <<loaderVars, winVars, fileVars, traceVars, viewVars>>

LoopAgain ==
  /\ running
  /\ Step("loop", "events")
  /\ UNCHANGED <<loaderVars, winVars, fileVars, traceVars, viewVars>>

(* A minimized window has no frames. *)
SkipFrame ==
  /\ minimized
  /\ Step("events", "loop")
  /\ UNCHANGED <<loaderVars, winVars, fileVars, traceVars, viewVars>>

BeginFrame ==
  /\ ~minimized
  /\ Step("events", "poll")
  /\ UNCHANGED <<loaderVars, winVars, fileVars, traceVars, viewVars>>

NothingFinished ==
  /\ ~finished
  /\ Step("poll", "pending")
  /\ UNCHANGED <<loaderVars, winVars, fileVars, traceVars, viewVars>>

(* Seeded variant: the panels are not told that the model changed. *)
FinishLoadKeepsCaches ==
  /\ Step("poll", "pending")
  /\ CollectTrace
  /\ shown' = model
  /\ hasTrace' = TRUE
  /\ selected' = Nowhere
  /\ UNCHANGED <<winVars, fileVars, scroll, cache>>

(* finish_load after a success: the new model, an empty selection, the panels'
   on_model_changed.  The pending scroll target is left as it was. *)
FinishLoad ==
  /\ Step("poll", "pending")
  /\ CollectTrace
  /\ shown' = model
  /\ hasTrace' = TRUE
  /\ selected' = Nowhere
  /\ cache' = Nowhere
  /\ UNCHANGED <<winVars, fileVars, scroll>>

(* Seeded variant: the previous trace comes back after a failed load. *)
FailedLoadKeepsTrace ==
  /\ Step("poll", "pending")
  /\ CollectFailure
  /\ UNCHANGED <<winVars, fileVars, traceVars, viewVars>>

(* finish_load after a failure: the model stays, nothing shows it any more. *)
FailedLoad ==
  /\ Step("poll", "pending")
  /\ CollectFailure
  /\ hasTrace' = FALSE
  /\ UNCHANGED <<winVars, fileVars, shown, viewVars>>

(* The pending file: open_file returns if a load is in progress, and the file is
   forgotten. *)
NoPendingFile ==
  /\ pending = 0
  /\ Step("pending", "timeline")
  /\ UNCHANGED <<loaderVars, winVars, fileVars, traceVars, viewVars>>

(* Seeded variant: a pending file is opened in the middle of a load. *)
OpenPendingAnyTime ==
  /\ pending # 0
  /\ Step("pending", "timeline")
  /\ LoadFile(pending)
  /\ pending' = 0
  /\ UNCHANGED <<winVars, drops, traceVars, viewVars>>

OpenPending ==
  /\ pending # 0 /\ ~loading
  /\ Step("pending", "timeline")
  /\ LoadFile(pending)
  /\ pending' = 0
  /\ UNCHANGED <<winVars, drops, traceVars, viewVars>>

ForgetPending ==
  /\ pending # 0 /\ loading
  /\ Step("pending", "timeline")
  /\ pending' = 0
  /\ UNCHANGED <<loaderVars, winVars, drops, traceVars, viewVars>>

(* TimelineView::render comes first and uses up the scroll target, unless its
   window is too small to draw in, or the index, which may be an earlier trace's,
   is past the end of the events. *)
RenderTimeline ==
  /\ Step("timeline", "details")
  /\ \/ Rendering /\ scroll' = Nowhere
     \/ UNCHANGED scroll
  /\ UNCHANGED <<loaderVars, winVars, fileVars, traceVars, selected, cache>>

(* A click selects an event, or nothing ... *)
SelectEvent ==
  /\ pc \in {"details", "panels"} /\ Rendering
  /\ selected' \in {Nowhere} \union [idx : EventIndexes, of : {shown}]
  /\ UNCHANGED <<loaderVars, pc, winVars, fileVars, traceVars, scroll, cache>>

(* Seeded variant: the next result after the last one. *)
NavigatePastTheEnd ==
  /\ pc \in {"details", "panels"} /\ Rendering
  /\ selected' \in [idx : {i + 1 : i \in EventIndexes}, of : {shown}]
  /\ scroll' = selected'
  /\ UNCHANGED <<loaderVars, pc, winVars, fileVars, traceVars, cache>>

(* ... a link in a panel selects it and asks the timeline to scroll there. *)
NavigateToEvent ==
  /\ pc \in {"details", "panels"} /\ Rendering
  /\ selected' \in [idx : EventIndexes, of : {shown}]
  /\ scroll' = selected'
  /\ UNCHANGED <<loaderVars, pc, winVars, fileVars, traceVars, cache>>

(* ... "View source" in the memory panel selects a stack frame in its place. *)
SelectStackFrame ==
  /\ pc = "panels" /\ Rendering
  /\ selected' = Nowhere
  /\ scroll' = Nowhere
  /\ UNCHANGED <<loaderVars, pc, winVars, fileVars, traceVars, cache>>

(* DetailPanel::render recomputes when the selected index is not the one it
   cached; it returns before that with nothing selected, and leaves an event
   without a duration alone. *)
RenderDetails ==
  /\ Step("details", "panels")
  /\ \/ /\ Rendering
        /\ selected.idx \notin {NoIndex, cache.idx}
        /\ cache' = [idx |-> selected.idx, of |-> shown]
     \/ UNCHANGED cache
  /\ UNCHANGED <<loaderVars, winVars, fileVars, traceVars, selected, scroll>>

(* The overlay of a load in progress: its button, or Escape. *)
ClickCancel ==
  /\ pc = "panels" /\ loading
  /\ CancelLoad
  /\ UNCHANGED appVars

EndFrame ==
  /\ Step("panels", "loop")
  /\ UNCHANGED <<loaderVars, winVars, fileVars, traceVars, viewVars>>

-----------------------------------------------------------------------------
(* main() after the loop: App::shutdown cancels and joins the load. *)
LeaveLoop ==
  /\ ~running
  /\ Step("loop", "join")
  /\ CancelLoad
  /\ UNCHANGED <<winVars, fileVars, traceVars, viewVars>>

(* Seeded variant: the loader is left to itself. *)
LeaveWithoutJoin ==
  /\ Step("join", "closed")
  /\ UNCHANGED <<loaderVars, winVars, fileVars, traceVars, viewVars>>

(* Seeded variant: shutdown waits for the load to be collected. *)
JoinWaitsForCollect ==
  /\ Step("join", "closed")
  /\ ~loading
  /\ JoinThread
  /\ UNCHANGED <<winVars, fileVars, traceVars, viewVars>>

JoinLoader ==
  /\ Step("join", "closed")
  /\ JoinThread
  /\ UNCHANGED <<winVars, fileVars, traceVars, viewVars>>

Closed == pc = "closed" /\ UNCHANGED allVars

-----------------------------------------------------------------------------
LoopStep == OpenArgument \/ NoArgument \/ LoopAgain \/ SkipFrame \/ BeginFrame

FrameStep ==
  \/ NothingFinished \/ FinishLoad \/ FailedLoad
  \/ NoPendingFile \/ OpenPending \/ ForgetPending
  \/ RenderTimeline \/ RenderDetails \/ EndFrame

UserAction ==
  \/ ChooseFile \/ WindowEvent
  \/ SelectEvent \/ NavigateToEvent \/ SelectStackFrame \/ ClickCancel

AppNext ==
  \/ LoaderThread /\ UNCHANGED appVars
  \/ LoopStep \/ FrameStep \/ UserAction
  \/ LeaveLoop \/ JoinLoader \/ Closed

AppSpec == AppInit /\ [][AppNext]_allVars

(* The loader thread and the frame loop run; the user need not do anything. *)
AppFairness ==
  /\ WF_allVars(LoaderThread /\ UNCHANGED appVars)
  /\ WF_allVars(LoopStep)
  /\ WF_allVars(FrameStep)
  /\ WF_allVars(LeaveLoop)
  /\ WF_allVars(JoinLoader)

FairAppSpec == AppSpec /\ AppFairness

-----------------------------------------------------------------------------
Places == [idx : EventIndexes \union {NoIndex}, of : Traces]

(* The type of every variable. *)
AppTypeOK ==
  /\ LoaderTypeOK
  /\ pc \in {"main", "loop", "events", "poll", "pending", "timeline", "details",
             "panels", "join", "closed"}
  /\ running \in BOOLEAN /\ minimized \in BOOLEAN
  /\ drops \in Traces /\ pending \in Traces
  /\ hasTrace \in BOOLEAN /\ shown \in Traces
  /\ selected \in Places /\ scroll \in Places /\ cache \in Places

(* The panels, the SQL tabs and the name used by Save Profile speak of one trace:
   the model on show, the tables and the file name belong together. *)
ShownTogether == Rendering => shown = tables /\ shown = filename

(* No panel uses what it computed for an event of an earlier trace: while a trace
   is rendered the selection is in it, and so is whatever the panel takes for the
   selected event's. *)
NoStalePanel ==
  (Rendering /\ selected.idx # NoIndex) =>
    /\ selected.of = shown
    /\ cache.idx = selected.idx => cache.of = shown

(* Why these two hold, as one inductive invariant: panels and selection follow the
   trace on show, and nothing is loading before the file argument is looked at. *)
PanelsFollowTrace ==
  Rendering =>
    /\ selected.idx # NoIndex => selected.of = shown
    /\ cache.idx # NoIndex => cache.of = shown

AppInv ==
  /\ AppTypeOK /\ LoaderInv /\ ShownTogether /\ PanelsFollowTrace
  /\ pc = "main" => ~loading
  /\ pc = "closed" => ~LoaderActive

(* The application calls the loader as the loader needs it. *)
UsesLoader == LoaderSpec

(* After shutdown no loader thread is left that could use the query database,
   which is destroyed next. *)
NoLoaderAfterClose == pc = "closed" => ~LoaderActive

(* Shutdown gets through, whatever a load is doing. *)
ShutdownEnds == pc = "join" ~> pc = "closed"

(* A finished load is shown or reported unless the window stays minimized or is
   closed. *)
LoadIsCollected == finished ~> (~finished \/ minimized \/ ~running)

(* The timeline scrolls to an event of the trace it renders. *)
ScrollsToShownTrace ==
  (pc = "timeline" /\ Rendering) => scroll.of \in {0, shown}
=============================================================================
