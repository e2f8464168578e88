----------------------------- MODULE AppProofs ------------------------------
(***************************************************************************)
(* Proofs about FileLoader: its inductive invariant, that a load offers a  *)
(* complete trace or none, and that it implements LoadService.             *)
(* Proofs about App: it uses the loader as FileLoader requires, what is    *)
(* rendered together belongs to one trace, no panel shows what it computed *)
(* for an earlier one, and shutdown leaves no loader thread behind.        *)
(***************************************************************************)
EXTENDS App, TLAPS

-----------------------------------------------------------------------------
(* The loader. *)
LEMMA LoaderInvInit == LoaderInit => LoaderInv
  <1>1. 0 \in Traces
    BY MaxFilesAssumption DEF Traces
  <1>2. LoaderInit => LoaderTypeOK
    BY <1>1 DEF LoaderInit, LoaderTypeOK, LoaderPcs
  <1>3. LoaderInit => FlagsFollowLoad /\ ProgressOfLoad /\ CompleteOrNothing
    BY DEF LoaderInit, FlagsFollowLoad, ProgressOfLoad, CompleteOrNothing, LoaderActive
  <1> QED
    BY <1>2, <1>3 DEF LoaderInv

(* Every variable keeps its type. *)
LEMMA LoaderTypeStep == LoaderTypeOK /\ [LoaderNext]_loaderVars => LoaderTypeOK'
  <1> SUFFICES ASSUME LoaderTypeOK, [LoaderNext]_loaderVars PROVE LoaderTypeOK'
    OBVIOUS
  <1> USE DEF LoaderTypeOK, LoaderPcs, loadFlags
  <1>range. 0 \in Traces /\ Files \subseteq Traces
    BY MaxFilesAssumption DEF Traces, Files
  <1>1. CASE ~loading /\ \E f \in Files : LoadFile(f)
    BY <1>1, <1>range DEF LoadFile
  <1>2. CASE CancelLoad
    BY <1>2, <1>range DEF CancelLoad
  <1>3. CASE CollectTrace
    BY <1>3, <1>range DEF CollectTrace, PollFinished
  <1>4. CASE CollectFailure
    BY <1>4, <1>range DEF CollectFailure, PollFinished
  <1>5. CASE JoinThread
    BY <1>5, <1>range DEF JoinThread
  <1>6. CASE ParseReturns
    BY <1>6, <1>range DEF ParseReturns, Goto
  <1>7. CASE Throws
    BY <1>7, <1>range DEF Throws, Fail
  <1>8. CASE CheckCanceled
    BY <1>8, <1>range DEF CheckCanceled, Fail
  <1>9. CASE CheckFailed
    BY <1>9, <1>range DEF CheckFailed, Fail
  <1>10. CASE CheckPassed
    BY <1>10, <1>range DEF CheckPassed, Goto
  <1>11. CASE MoveModel
    BY <1>11, <1>range DEF MoveModel, Goto
  <1>12. CASE DropTables
    BY <1>12, <1>range DEF DropTables, Goto
  <1>13. CASE FillTables
    BY <1>13, <1>range DEF FillTables, Goto
  <1>14. CASE RecheckCanceled
    BY <1>14, <1>range DEF RecheckCanceled, Fail
  <1>15. CASE RecheckPassed
    BY <1>15, <1>range DEF RecheckPassed, Goto
  <1>16. CASE Publish
    BY <1>16, <1>range DEF Publish, Goto
  <1>17. CASE ThreadEnds
    BY <1>17, <1>range DEF ThreadEnds, Goto
  <1>18. CASE UNCHANGED loaderVars
    BY <1>18, <1>range DEF loaderVars
  <1>19. CASE FinishFailed
    BY <1>19, <1>range DEF FinishFailed, Goto
  <1> QED
    BY <1>1, <1>2, <1>3, <1>4, <1>5, <1>6, <1>7, <1>8, <1>9, <1>10, <1>11,
       <1>12, <1>13, <1>14, <1>15, <1>16, <1>17, <1>18, <1>19
       DEF LoaderNext, LoaderThread

(* The thread and what it has put together stay in step. *)
LEMMA LoaderInvStep == LoaderInv /\ [LoaderNext]_loaderVars => LoaderInv'
  <1> SUFFICES ASSUME LoaderInv, [LoaderNext]_loaderVars PROVE LoaderInv'
    OBVIOUS
  <1>type. LoaderTypeOK'
    BY LoaderTypeStep DEF LoaderInv
  <1> USE DEF LoaderInv, FlagsFollowLoad, ProgressOfLoad, CompleteOrNothing, LoaderActive,
              loadFlags
  <1>1. CASE ~loading /\ \E f \in Files : LoadFile(f)
    BY <1>1, <1>type DEF LoadFile
  <1>2. CASE CancelLoad
    BY <1>2, <1>type DEF CancelLoad
  <1>3. CASE CollectTrace
    BY <1>3, <1>type DEF CollectTrace, PollFinished
  <1>4. CASE CollectFailure
    BY <1>4, <1>type DEF CollectFailure, PollFinished
  <1>5. CASE JoinThread
    BY <1>5, <1>type DEF JoinThread
  <1>6. CASE ParseReturns
    BY <1>6, <1>type DEF ParseReturns, Goto
  <1>7. CASE Throws
    BY <1>7, <1>type DEF Throws, Fail
  <1>8. CASE CheckCanceled
    BY <1>8, <1>type DEF CheckCanceled, Fail
  <1>9. CASE CheckFailed
    BY <1>9, <1>type DEF CheckFailed, Fail
  <1>10. CASE CheckPassed
    BY <1>10, <1>type DEF CheckPassed, Goto
  <1>11. CASE MoveModel
    BY <1>11, <1>type DEF MoveModel, Goto
  <1>12. CASE DropTables
    BY <1>12, <1>type DEF DropTables, Goto
  <1>13. CASE FillTables
    BY <1>13, <1>type DEF FillTables, Goto
  <1>14. CASE RecheckCanceled
    BY <1>14, <1>type DEF RecheckCanceled, Fail
  <1>15. CASE RecheckPassed
    BY <1>15, <1>type DEF RecheckPassed, Goto
  <1>16. CASE Publish
    BY <1>16, <1>type DEF Publish, Goto
  <1>17. CASE ThreadEnds
    BY <1>17, <1>type DEF ThreadEnds, Goto
  <1>18. CASE UNCHANGED loaderVars
    BY <1>18, <1>type DEF loaderVars
  <1>19. CASE FinishFailed
    BY <1>19, <1>type DEF FinishFailed, Goto
  <1> QED
    BY <1>1, <1>2, <1>3, <1>4, <1>5, <1>6, <1>7, <1>8, <1>9, <1>10, <1>11,
       <1>12, <1>13, <1>14, <1>15, <1>16, <1>17, <1>18, <1>19
       DEF LoaderNext, LoaderThread

THEOREM LoaderInvHolds == LoaderSpec => []LoaderInv
  <1> QED
    BY LoaderInvInit, LoaderInvStep, PTL DEF LoaderSpec

(* An import error never publishes a partial model, and a published model is the
   one whose rows the query database holds. *)
THEOREM LoadIsCompleteOrNothing == LoaderSpec => []CompleteOrNothing
  <1>1. LoaderInv => CompleteOrNothing
    BY DEF LoaderInv
  <1> QED
    BY <1>1, LoaderInvHolds, PTL

-----------------------------------------------------------------------------
(* LoadFile opens, the end of the thread's work completes, a poll collects; a
   cancellation dooms a load that has not succeeded. *)
LEMMA LoadServiceStep == LoaderInv /\ [LoaderNext]_loaderVars => [LS!Next]_(LS!vars)
  <1> SUFFICES ASSUME LoaderInv, [LoaderNext]_loaderVars PROVE [LS!Next]_(LS!vars)
    OBVIOUS
  <1> USE DEF LoaderInv, LoaderTypeOK, FlagsFollowLoad, ProgressOfLoad, CompleteOrNothing,
              LoaderActive, loadFlags, LS!vars
  <1>1. CASE ~loading /\ \E f \in Files : LoadFile(f)
    <2>1. PICK f \in Files : LoadFile(f)
      BY <1>1
    <2>2. LS!Open(f)
      BY <1>1, <2>1 DEF LoadFile, LS!Open
    <2> QED
      BY <2>2 DEF LS!Next
  <1>2. CASE CancelLoad
    <2>1. CASE loading /\ ~success
      <3>1. LS!Cancel
        BY <1>2, <2>1 DEF CancelLoad, LS!Cancel
      <3> QED
        BY <3>1 DEF LS!Next
    <2>2. CASE ~loading \/ success
      BY <1>2, <2>2 DEF CancelLoad
    <2> QED
      BY <2>1, <2>2
  <1>3. CASE CollectTrace
    <2>1. LS!Collect
      BY <1>3 DEF CollectTrace, PollFinished, LS!Collect
    <2> QED
      BY <2>1 DEF LS!Next
  <1>4. CASE CollectFailure
    <2>1. LS!Collect
      BY <1>4 DEF CollectFailure, PollFinished, LS!Collect
    <2> QED
      BY <2>1 DEF LS!Next
  <1>5. CASE JoinThread
    BY <1>5 DEF JoinThread
  <1>6. CASE ParseReturns
    BY <1>6 DEF ParseReturns, Goto
  <1>7. CASE Throws
    BY <1>7 DEF Throws, Fail
  <1>8. CASE CheckCanceled
    BY <1>8 DEF CheckCanceled, Fail
  <1>9. CASE CheckFailed
    BY <1>9 DEF CheckFailed, Fail
  <1>10. CASE CheckPassed
    BY <1>10 DEF CheckPassed, Goto
  <1>11. CASE MoveModel
    BY <1>11 DEF MoveModel, Goto
  <1>12. CASE DropTables
    BY <1>12 DEF DropTables, Goto
  <1>13. CASE FillTables
    BY <1>13 DEF FillTables, Goto
  <1>14. CASE RecheckCanceled
    BY <1>14 DEF RecheckCanceled, Fail
  <1>15. CASE RecheckPassed
    BY <1>15 DEF RecheckPassed, Goto
  <1>16. CASE Publish
    <2>1. LS!Complete
      BY <1>16 DEF Publish, Goto, LS!Complete
    <2> QED
      BY <2>1 DEF LS!Next
  <1>17. CASE ThreadEnds
    BY <1>17 DEF ThreadEnds, Goto
  <1>18. CASE UNCHANGED loaderVars
    BY <1>18 DEF loaderVars
  <1>19. CASE FinishFailed
    <2>1. LS!Complete
      BY <1>19 DEF FinishFailed, Goto, LS!Complete
    <2> QED
      BY <2>1 DEF LS!Next
  <1> QED
    BY <1>1, <1>2, <1>3, <1>4, <1>5, <1>6, <1>7, <1>8, <1>9, <1>10, <1>11,
       <1>12, <1>13, <1>14, <1>15, <1>16, <1>17, <1>18, <1>19
       DEF LoaderNext, LoaderThread

(* One load at a time; it ends with the requested trace or with none, and with
   none if it was cancelled before it succeeded. *)
THEOREM ImplementsLoadService == LoaderSpec => LS!Spec
  <1>1. LoaderInit => LS!Init
    BY DEF LoaderInit, LS!Init
  <1>2. LoaderInv /\ [LoaderNext]_loaderVars => [LS!Next]_(LS!vars)
    BY LoadServiceStep
  <1> QED
    BY <1>1, <1>2, LoaderInvHolds, PTL DEF LoaderSpec, LS!Spec

-----------------------------------------------------------------------------
(* The application. *)
(* A step of App is a step of the loader, or leaves the loader alone. *)
LEMMA LoaderCall == AppInv /\ [AppNext]_allVars => [LoaderNext]_loaderVars
  <1> SUFFICES ASSUME AppInv, [AppNext]_allVars PROVE [LoaderNext]_loaderVars
    OBVIOUS
  <1> USE DEF AppInv, AppTypeOK
  <1>1. CASE LoaderThread /\ UNCHANGED appVars
    BY <1>1 DEF LoaderNext
  <1>2. CASE OpenArgument
    <2>1. drops' \in Files
      BY <1>2, MaxFilesAssumption DEF OpenArgument, Files, Traces
    <2> QED
      BY <1>2, <2>1 DEF OpenArgument, Step, LoaderNext
  <1>3. CASE NoArgument
    BY <1>3 DEF NoArgument
  <1>4. CASE LoopAgain
    BY <1>4 DEF LoopAgain
  <1>5. CASE SkipFrame
    BY <1>5 DEF SkipFrame
  <1>6. CASE BeginFrame
    BY <1>6 DEF BeginFrame
  <1>7. CASE NothingFinished
    BY <1>7 DEF NothingFinished
  <1>8. CASE FinishLoad
    BY <1>8 DEF FinishLoad, LoaderNext
  <1>9. CASE FailedLoad
    BY <1>9 DEF FailedLoad, LoaderNext
  <1>10. CASE NoPendingFile
    BY <1>10 DEF NoPendingFile
  <1>11. CASE OpenPending
    <2>1. pending \in Files
      BY <1>11, MaxFilesAssumption DEF OpenPending, Files, Traces
    <2> QED
      BY <1>11, <2>1 DEF OpenPending, LoaderNext
  <1>12. CASE ForgetPending
    BY <1>12 DEF ForgetPending
  <1>13. CASE RenderTimeline
    BY <1>13 DEF RenderTimeline
  <1>14. CASE RenderDetails
    BY <1>14 DEF RenderDetails
  <1>15. CASE EndFrame
    BY <1>15 DEF EndFrame
  <1>16. CASE ChooseFile
    BY <1>16 DEF ChooseFile
  <1>17. CASE WindowEvent
    BY <1>17 DEF WindowEvent
  <1>18. CASE SelectEvent
    BY <1>18 DEF SelectEvent
  <1>19. CASE NavigateToEvent
    BY <1>19 DEF NavigateToEvent
  <1>20. CASE ClickCancel
    BY <1>20 DEF ClickCancel, LoaderNext
  <1>21. CASE LeaveLoop
    BY <1>21 DEF LeaveLoop, LoaderNext
  <1>22. CASE JoinLoader
    BY <1>22 DEF JoinLoader, LoaderNext
  <1>23. CASE UNCHANGED allVars
    BY <1>23 DEF allVars
  <1>24. CASE SelectStackFrame
    BY <1>24 DEF SelectStackFrame
  <1> QED
    BY <1>1, <1>2, <1>3, <1>4, <1>5, <1>6, <1>7, <1>8, <1>9, <1>10, <1>11,
       <1>12, <1>13, <1>14, <1>15, <1>16, <1>17, <1>18, <1>19, <1>20, <1>21,
       <1>22, <1>23, <1>24
       DEF AppNext, LoopStep, FrameStep, UserAction, Closed

LEMMA AppInvInit == AppInit => AppInv
  <1> SUFFICES ASSUME AppInit PROVE AppInv
    OBVIOUS
  <1>1. LoaderInv
    BY LoaderInvInit DEF AppInit
  <1>2. 0 \in Traces /\ Nowhere \in Places
    BY MaxFilesAssumption DEF Traces, Nowhere, Places
  <1>3. AppTypeOK
    BY <1>1, <1>2 DEF AppInit, AppTypeOK, LoaderInv
  <1> QED
    BY <1>1, <1>3 DEF AppInit, AppInv, LoaderInit, ShownTogether, PanelsFollowTrace,
       Rendering

(* Every variable keeps its type. *)
LEMMA AppTypeStep ==
  AppTypeOK /\ LoaderTypeOK' /\ [AppNext]_allVars => AppTypeOK'
  <1> SUFFICES ASSUME AppTypeOK, LoaderTypeOK', [AppNext]_allVars PROVE AppTypeOK'
    OBVIOUS
  <1> USE DEF AppTypeOK, winVars, fileVars, traceVars, viewVars
  <1>where. Nowhere \in Places
    BY MaxFilesAssumption DEF Nowhere, Places, Traces
  <1>1. CASE LoaderThread /\ UNCHANGED appVars
    BY <1>1 DEF appVars
  <1>2. CASE OpenArgument
    <2>1. drops' \in Traces
      BY <1>2, MaxFilesAssumption DEF OpenArgument, Traces
    <2> QED
      BY <1>2, <2>1 DEF OpenArgument, Step, LoadFile
  <1>3. CASE NoArgument
    BY <1>3 DEF NoArgument, Step
  <1>4. CASE LoopAgain
    BY <1>4 DEF LoopAgain, Step
  <1>5. CASE SkipFrame
    BY <1>5 DEF SkipFrame, Step
  <1>6. CASE BeginFrame
    BY <1>6 DEF BeginFrame, Step
  <1>7. CASE NothingFinished
    BY <1>7 DEF NothingFinished, Step
  <1>8. CASE FinishLoad
    BY <1>8, <1>where DEF FinishLoad, Step, CollectTrace, PollFinished, LoaderTypeOK
  <1>9. CASE FailedLoad
    BY <1>9 DEF FailedLoad, Step, CollectFailure, PollFinished
  <1>10. CASE NoPendingFile
    BY <1>10 DEF NoPendingFile, Step
  <1>11. CASE OpenPending
    <2>1. 0 \in Traces
      BY MaxFilesAssumption DEF Traces
    <2> QED
      BY <1>11, <2>1 DEF OpenPending, Step, LoadFile
  <1>12. CASE ForgetPending
    <2>1. 0 \in Traces
      BY MaxFilesAssumption DEF Traces
    <2> QED
      BY <1>12, <2>1 DEF ForgetPending, Step
  <1>13. CASE RenderTimeline
    BY <1>13, <1>where DEF RenderTimeline, Step
  <1>14. CASE RenderDetails
    BY <1>14 DEF RenderDetails, Step, Places
  <1>15. CASE EndFrame
    BY <1>15 DEF EndFrame, Step
  <1>16. CASE ChooseFile
    <2>1. drops' \in Traces
      BY <1>16, MaxFilesAssumption DEF ChooseFile, Traces
    <2> QED
      BY <1>16, <2>1 DEF ChooseFile
  <1>17. CASE WindowEvent
    BY <1>17 DEF WindowEvent
  <1>18. CASE SelectEvent
    BY <1>18, <1>where DEF SelectEvent, Places
  <1>19. CASE NavigateToEvent
    BY <1>19 DEF NavigateToEvent, Places
  <1>20. CASE ClickCancel
    BY <1>20 DEF ClickCancel, CancelLoad, appVars
  <1>21. CASE LeaveLoop
    BY <1>21 DEF LeaveLoop, Step, CancelLoad
  <1>22. CASE JoinLoader
    BY <1>22 DEF JoinLoader, Step, JoinThread
  <1>23. CASE UNCHANGED allVars
    BY <1>23 DEF allVars, appVars
  <1>24. CASE SelectStackFrame
    BY <1>24, <1>where DEF SelectStackFrame
  <1> QED
    BY <1>1, <1>2, <1>3, <1>4, <1>5, <1>6, <1>7, <1>8, <1>9, <1>10, <1>11,
       <1>12, <1>13, <1>14, <1>15, <1>16, <1>17, <1>18, <1>19, <1>20, <1>21,
       <1>22, <1>23, <1>24
       DEF AppNext, LoopStep, FrameStep, UserAction, Closed

(* What is on show, the tables, the file name, the selection and the cache change
   together. *)
LEMMA AppInvStep == AppInv /\ [AppNext]_allVars => AppInv'
  <1> SUFFICES ASSUME AppInv, [AppNext]_allVars PROVE AppInv'
    OBVIOUS
  <1>loader. LoaderInv'
    BY LoaderCall, LoaderInvStep DEF AppInv
  <1>type. AppTypeOK'
    BY <1>loader, AppTypeStep DEF AppInv, LoaderInv
  <1> SUFFICES /\ (ShownTogether /\ PanelsFollowTrace)'
               /\ (pc = "main" => ~loading)'
               /\ (pc = "closed" => ~LoaderActive)'
    BY <1>loader, <1>type DEF AppInv
  <1> USE DEF AppInv, ShownTogether, PanelsFollowTrace, Rendering, LoaderActive,
              loaderVars, loadFlags, winVars, fileVars, traceVars, viewVars
  <1>1. CASE LoaderThread /\ UNCHANGED appVars
    <2>1. LoaderActive /\ loading /\ loading'
      BY <1>1 DEF LoaderThread, LoaderInv, FlagsFollowLoad, LoaderActive, ParseReturns, Throws,
         CheckCanceled, CheckFailed, CheckPassed, MoveModel, DropTables, FillTables,
         RecheckCanceled, RecheckPassed, FinishFailed, Publish, ThreadEnds, Fail, Goto, loadFlags
    <2> QED
      BY <1>1, <2>1 DEF appVars
  <1>2. CASE OpenArgument
    BY <1>2 DEF OpenArgument, Step, LoadFile
  <1>3. CASE NoArgument
    BY <1>3 DEF NoArgument, Step
  <1>4. CASE LoopAgain
    BY <1>4 DEF LoopAgain, Step
  <1>5. CASE SkipFrame
    BY <1>5 DEF SkipFrame, Step
  <1>6. CASE BeginFrame
    BY <1>6 DEF BeginFrame, Step
  <1>7. CASE NothingFinished
    BY <1>7 DEF NothingFinished, Step
  <1>8. CASE FinishLoad
    BY <1>8 DEF FinishLoad, Step, CollectTrace, PollFinished, LoaderInv, CompleteOrNothing, Nowhere
  <1>9. CASE FailedLoad
    BY <1>9 DEF FailedLoad, Step, CollectFailure, PollFinished
  <1>10. CASE NoPendingFile
    BY <1>10 DEF NoPendingFile, Step
  <1>11. CASE OpenPending
    BY <1>11 DEF OpenPending, Step, LoadFile
  <1>12. CASE ForgetPending
    BY <1>12 DEF ForgetPending, Step
  <1>13. CASE RenderTimeline
    BY <1>13 DEF RenderTimeline, Step
  <1>14. CASE RenderDetails
    BY <1>14 DEF RenderDetails, Step, Nowhere
  <1>15. CASE EndFrame
    BY <1>15 DEF EndFrame, Step
  <1>16. CASE ChooseFile
    BY <1>16 DEF ChooseFile
  <1>17. CASE WindowEvent
    BY <1>17 DEF WindowEvent
  <1>18. CASE SelectEvent
    BY <1>18 DEF SelectEvent, Nowhere
  <1>19. CASE NavigateToEvent
    BY <1>19 DEF NavigateToEvent, Nowhere
  <1>20. CASE ClickCancel
    BY <1>20 DEF ClickCancel, CancelLoad, appVars
  <1>21. CASE LeaveLoop
    BY <1>21 DEF LeaveLoop, Step, CancelLoad
  <1>22. CASE JoinLoader
    BY <1>22 DEF JoinLoader, Step, JoinThread
  <1>23. CASE UNCHANGED allVars
    BY <1>23 DEF allVars, appVars
  <1>24. CASE SelectStackFrame
    BY <1>24 DEF SelectStackFrame, Nowhere
  <1> QED
    BY <1>1, <1>2, <1>3, <1>4, <1>5, <1>6, <1>7, <1>8, <1>9, <1>10, <1>11,
       <1>12, <1>13, <1>14, <1>15, <1>16, <1>17, <1>18, <1>19, <1>20, <1>21,
       <1>22, <1>23, <1>24
       DEF AppNext, LoopStep, FrameStep, UserAction, Closed

THEOREM AppInvHolds == AppSpec => []AppInv
  <1> QED
    BY AppInvInit, AppInvStep, PTL DEF AppSpec

(* The types of the loop, the window, the panels and the loader (App::update). *)
THEOREM AppTypesHold == AppSpec => []AppTypeOK
  <1>1. AppInv => AppTypeOK
    BY DEF AppInv
  <1> QED
    BY <1>1, AppInvHolds, PTL

(* App calls the loader only as FileLoader allows, so all that is proved of
   LoaderSpec holds in the application. *)
THEOREM AppUsesLoader == AppSpec => UsesLoader
  <1>1. AppInit => LoaderInit
    BY DEF AppInit
  <1>2. AppInv /\ [AppNext]_allVars => [LoaderNext]_loaderVars
    BY LoaderCall
  <1> QED
    BY <1>1, <1>2, AppInvHolds, PTL DEF AppSpec, UsesLoader, LoaderSpec

(* The model on show, the tables and the file name are of one trace. *)
THEOREM ShownTraceIsWhole == AppSpec => []ShownTogether
  <1>1. AppInv => ShownTogether
    BY DEF AppInv
  <1> QED
    BY <1>1, AppInvHolds, PTL

(* No panel uses an index, or what it computed for one, across a load. *)
THEOREM PanelsAreFresh == AppSpec => []NoStalePanel
  <1>1. AppInv => NoStalePanel
    BY DEF AppInv, PanelsFollowTrace, NoStalePanel
  <1> QED
    BY <1>1, AppInvHolds, PTL

(* The query database is destroyed after the last step of the loader thread. *)
THEOREM CloseAfterLoader == AppSpec => []NoLoaderAfterClose
  <1>1. AppInv => NoLoaderAfterClose
    BY DEF AppInv, NoLoaderAfterClose
  <1> QED
    BY <1>1, AppInvHolds, PTL
=============================================================================
