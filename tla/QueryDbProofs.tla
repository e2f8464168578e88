--------------------------- MODULE QueryDbProofs ----------------------------
(***************************************************************************)
(* Proofs about QueryDb: its type invariant, the inductive invariant DbInv *)
(* with the safety properties that follow from it, and that QueryDb        *)
(* implements AsyncQuery.  Then about the tabs on top of it (StatsPanel):  *)
(* they use QueryDb as it requires, so its theorems hold for them, and a   *)
(* result goes to one tab.                                                 *)
(***************************************************************************)
EXTENDS StatsPanel, SequenceTheorems, TLAPS

(* Results keep their shape whatever happens to one of their fields. *)
LEMMA ResultShape ==
  ASSUME NEW res \in Results
  PROVE  /\ \A r \in Requests : EmptyResult(r) \in Results /\ EmptyResult(r).rows = <<>>
         /\ MovedFrom(res) \in Results /\ MovedFrom(res).rows = <<>>
         /\ \A t \in Traces : [res EXCEPT !.rows = Append(@, t)] \in Results
  <1>1. 0 \in Requests
    BY BoundsAssumption DEF Requests
  <1>2. <<>> \in Seq(Traces)
    BY EmptySeq
  <1>3. ASSUME NEW r \in Requests
        PROVE  EmptyResult(r) \in Results /\ EmptyResult(r).rows = <<>>
    BY <1>2 DEF EmptyResult, Results
  <1>4. MovedFrom(res) \in Results /\ MovedFrom(res).rows = <<>>
    BY <1>1, <1>2 DEF MovedFrom, Results
  <1>5. ASSUME NEW t \in Traces
        PROVE  [res EXCEPT !.rows = Append(@, t)] \in Results
    <2>1. res.rows \in Seq(Traces)
      BY DEF Results
    <2>2. Append(res.rows, t) \in Seq(Traces)
      BY <2>1, AppendProperties
    <2> QED
      BY <2>2 DEF Results
  <1> QED
    BY <1>3, <1>4, <1>5

-----------------------------------------------------------------------------
(* TypeOK is inductive by itself. *)
LEMMA TypeInit == DbInit => TypeOK
  <1> SUFFICES ASSUME DbInit PROVE TypeOK
    OBVIOUS
  <1>1. 0 \in Requests /\ 0 \in Traces
    BY BoundsAssumption DEF Requests, Traces
  <1>2. EmptyResult(0) \in Results
    BY <1>1, EmptySeq DEF EmptyResult, Results
  <1>3. Len(EmptyResult(0).rows) <= RowLimit
    BY RowLimitAssumption, EmptySeq DEF EmptyResult
  <1>4. ipc \in NoThread..IndexEnded
    BY NumIndexesAssumption DEF DbInit, NoThread, IndexEnded
  <1> QED
    BY <1>1, <1>2, <1>3, <1>4 DEF DbInit, TypeOK, QueryPcs, LoadPcs

LEMMA TypeStep == TypeOK /\ [DbNext]_dbVars => TypeOK'
  <1> SUFFICES ASSUME TypeOK, [DbNext]_dbVars PROVE TypeOK'
    OBVIOUS
  <1> USE DEF TypeOK, flagVars, queryVars, indexVars, loadVars
  <1>1. CASE ExecuteAsync
    <2>1. requests + 1 \in Requests
      BY <1>1, BoundsAssumption DEF ExecuteAsync, Requests
    <2>2. qres' \in Results /\ Len(qres'.rows) <= RowLimit
      BY <1>1, <2>1, ResultShape, RowLimitAssumption, EmptySeq DEF ExecuteAsync
    <2> QED
      BY <1>1, <2>1, <2>2 DEF ExecuteAsync, QueryPcs
  <1>2. CASE CancelQuery
    BY <1>2 DEF CancelQuery
  <1>3. CASE TakeResult
    <2>1. asyncResult' \in Results /\ Len(asyncResult'.rows) <= RowLimit
      BY <1>3, ResultShape, RowLimitAssumption, EmptySeq DEF TakeResult
    <2> QED
      BY <1>3, <2>1 DEF TakeResult, QueryPcs
  <1>4. CASE ShowSchema
    BY <1>4 DEF ShowSchema
  <1>5. CASE ExecuteReturns
    BY <1>5 DEF ExecuteReturns
  <1>6. CASE InstallHandler
    BY <1>6 DEF InstallHandler, QueryPcs
  <1>7. CASE PrepareFails
    <2>1. qres' \in Results /\ qres'.rows = qres.rows
      BY <1>7 DEF PrepareFails, Results
    <2> QED
      BY <1>7, <2>1 DEF PrepareFails, QueryPcs
  <1>8. CASE Prepare
    BY <1>8 DEF Prepare, QueryPcs
  <1>9. CASE StepBegin
    BY <1>9 DEF StepBegin, QueryPcs
  <1>10. CASE StepRow
    <2>1. qres' \in Results
      BY <1>10, ResultShape DEF StepRow
    <2>2. qres'.rows = Append(qres.rows, tables) /\ qres.rows \in Seq(Traces)
      BY <1>10 DEF StepRow, Results
    <2>3. Len(qres'.rows) = Len(qres.rows) + 1 /\ Len(qres.rows) \in Nat
      BY <2>2, AppendProperties, LenProperties
    <2>4. Len(qres'.rows) <= RowLimit
      BY <1>10, <2>3, RowLimitAssumption DEF StepRow
    <2> QED
      BY <1>10, <2>1, <2>4 DEF StepRow, QueryPcs
  <1>11. CASE StepStop
    <2>1. qres' \in Results /\ qres'.rows = qres.rows
      BY <1>11 DEF StepStop, Results
    <2> QED
      BY <1>11, <2>1 DEF StepStop, QueryPcs
  <1>12. CASE StepInterrupted
    <2>1. qres' \in Results /\ qres'.rows = qres.rows
      BY <1>12 DEF StepInterrupted, Results
    <2> QED
      BY <1>12, <2>1 DEF StepInterrupted, QueryPcs
  <1>13. CASE RemoveHandler
    BY <1>13 DEF RemoveHandler, QueryPcs
  <1>14. CASE Publish
    BY <1>14 DEF Publish, QueryPcs
  <1>15. CASE ClearRunning
    BY <1>15 DEF ClearRunning, QueryPcs
  <1>16. CASE SetDone
    BY <1>16 DEF SetDone, QueryPcs
  <1>17. CASE \E i \in IndexStatements : CreateIndex(i)
    <2>1. ipc' \in NoThread..IndexEnded
      BY <1>17, NumIndexesAssumption DEF CreateIndex, IndexStatements, NoThread, IndexEnded
    <2>2. indexes' \in SUBSET IndexStatements
      BY <1>17 DEF CreateIndex
    <2> QED
      BY <1>17, <2>1, <2>2 DEF CreateIndex
  <1>18. CASE \E i \in IndexStatements : CreateIndexInterrupted(i)
    <2>1. ipc' \in NoThread..IndexEnded
      BY <1>18, NumIndexesAssumption DEF CreateIndexInterrupted, IndexStatements, NoThread, IndexEnded
    <2>2. indexes' \in SUBSET IndexStatements
      BY <1>18 DEF CreateIndexInterrupted
    <2> QED
      BY <1>18, <2>1, <2>2 DEF CreateIndexInterrupted
  <1>19. CASE IndexingDone
    <2>1. ipc' \in NoThread..IndexEnded
      BY <1>19, NumIndexesAssumption DEF IndexingDone, NoThread, IndexEnded
    <2> QED
      BY <1>19, <2>1 DEF IndexingDone
  <1>20. CASE BeginLoad
    <2>1. loads' \in Traces
      BY <1>20, BoundsAssumption DEF BeginLoad, Traces
    <2> QED
      BY <1>20, <2>1 DEF BeginLoad, LoadPcs
  <1>21. CASE LoadCancelsQuery
    BY <1>21 DEF LoadCancelsQuery, LoadPcs
  <1>22. CASE LoadJoinsQuery
    BY <1>22 DEF LoadJoinsQuery, LoadPcs, QueryPcs
  <1>23. CASE LoadJoinsIndex
    <2>1. ipc' \in NoThread..IndexEnded
      BY <1>23, NumIndexesAssumption DEF LoadJoinsIndex, NoThread, IndexEnded
    <2> QED
      BY <1>23, <2>1 DEF LoadJoinsIndex, LoadPcs
  <1>24. CASE DropTables
    <2>1. 0 \in Traces
      BY BoundsAssumption DEF Traces
    <2> QED
      BY <1>24, <2>1 DEF DropTables, LoadPcs
  <1>25. CASE FillTables
    BY <1>25 DEF FillTables, LoadPcs
  <1>26. CASE FinishLoad
    <2>1. ipc' \in NoThread..IndexEnded
      BY <1>26, NumIndexesAssumption DEF FinishLoad, NoThread, IndexEnded
    <2> QED
      BY <1>26, <2>1 DEF FinishLoad, LoadPcs
  <1>27. CASE FailLoad
    BY <1>27 DEF FailLoad, LoadPcs
  <1>28. CASE Close
    BY <1>28 DEF Close, LoadPcs
  <1>29. CASE CloseJoinsQuery
    BY <1>29 DEF CloseJoinsQuery, LoadPcs, QueryPcs
  <1>30. CASE CloseJoinsIndex
    <2>1. ipc' \in NoThread..IndexEnded
      BY <1>30, NumIndexesAssumption DEF CloseJoinsIndex, NoThread, IndexEnded
    <2> QED
      BY <1>30, <2>1 DEF CloseJoinsIndex, LoadPcs
  <1>31. CASE UNCHANGED dbVars
    BY <1>31 DEF dbVars
  <1> QED
    BY <1>1, <1>2, <1>3, <1>4, <1>5, <1>6, <1>7, <1>8, <1>9, <1>10, <1>11,
       <1>12, <1>13, <1>14, <1>15, <1>16, <1>17, <1>18, <1>19, <1>20, <1>21,
       <1>22, <1>23, <1>24, <1>25, <1>26, <1>27, <1>28, <1>29, <1>30, <1>31
       DEF DbNext, UiCall, QueryStep, IndexStep, LoadStep, CloseStep, Closed

(* Every variable keeps its type, and no result, finished or under construction,
   grows past row_limit. *)
THEOREM TypeCorrect == DbSpec => []TypeOK
  <1> QED
    BY TypeInit, TypeStep, PTL DEF DbSpec
-----------------------------------------------------------------------------
(* The control of the four threads: flags, the request being answered, the
   progress handler, and who may use the connection during a load. *)
ControlInv ==
  /\ FlagsFollowThread /\ ResultIsCurrent /\ HandlerOnlyInQuery /\ LoadIsAlone

LEMMA ControlStep == TypeOK /\ ControlInv /\ [DbNext]_dbVars => ControlInv'
  <1> SUFFICES ASSUME TypeOK, ControlInv, [DbNext]_dbVars PROVE ControlInv'
    OBVIOUS
  <1> USE DEF ControlInv, FlagsFollowThread, ResultIsCurrent, HandlerOnlyInQuery,
              LoadIsAlone, QueryActive, flagVars, queryVars, indexVars, loadVars
  <1>1. CASE ExecuteAsync
    <2>1. qres'.req = requests'
      BY <1>1 DEF ExecuteAsync, EmptyResult
    <2> QED
      BY <1>1, <2>1 DEF ExecuteAsync, IndexActive
  <1>2. CASE CancelQuery
    BY <1>2 DEF CancelQuery, IndexActive
  <1>3. CASE TakeResult
    BY <1>3 DEF TakeResult, IndexActive
  <1>4. CASE ShowSchema
    BY <1>4 DEF ShowSchema, IndexActive
  <1>5. CASE ExecuteReturns
    BY <1>5 DEF ExecuteReturns, IndexActive
  <1>6. CASE InstallHandler
    BY <1>6 DEF InstallHandler, IndexActive
  <1>7. CASE PrepareFails
    <2>1. qres'.req = qres.req
      BY <1>7 DEF PrepareFails, TypeOK, Results
    <2> QED
      BY <1>7, <2>1 DEF PrepareFails, IndexActive
  <1>8. CASE Prepare
    BY <1>8 DEF Prepare, IndexActive
  <1>9. CASE StepBegin
    BY <1>9 DEF StepBegin, IndexActive
  <1>10. CASE StepRow
    <2>1. qres'.req = qres.req
      BY <1>10 DEF StepRow, TypeOK, Results
    <2> QED
      BY <1>10, <2>1 DEF StepRow, IndexActive
  <1>11. CASE StepStop
    <2>1. qres'.req = qres.req
      BY <1>11 DEF StepStop, TypeOK, Results
    <2> QED
      BY <1>11, <2>1 DEF StepStop, IndexActive
  <1>12. CASE StepInterrupted
    <2>1. qres'.req = qres.req
      BY <1>12 DEF StepInterrupted, TypeOK, Results
    <2> QED
      BY <1>12, <2>1 DEF StepInterrupted, IndexActive
  <1>13. CASE RemoveHandler
    BY <1>13 DEF RemoveHandler, IndexActive
  <1>14. CASE Publish
    BY <1>14 DEF Publish, IndexActive
  <1>15. CASE ClearRunning
    BY <1>15 DEF ClearRunning, IndexActive
  <1>16. CASE SetDone
    BY <1>16 DEF SetDone, IndexActive
  <1>17. CASE \E i \in IndexStatements : CreateIndex(i)
    <2>1. IndexActive
      BY <1>17, NumIndexesAssumption DEF CreateIndex, IndexStatements, IndexActive, NoThread, IndexEnded
    <2> QED
      BY <1>17, <2>1 DEF CreateIndex
  <1>18. CASE \E i \in IndexStatements : CreateIndexInterrupted(i)
    <2>1. IndexActive
      BY <1>18, NumIndexesAssumption DEF CreateIndexInterrupted, IndexStatements, IndexActive, NoThread, IndexEnded
    <2> QED
      BY <1>18, <2>1 DEF CreateIndexInterrupted
  <1>19. CASE IndexingDone
    <2>1. IndexActive
      BY <1>19, NumIndexesAssumption DEF IndexingDone, IndexActive, NoThread, IndexFinish, IndexEnded
    <2> QED
      BY <1>19, <2>1 DEF IndexingDone
  <1>20. CASE BeginLoad
    BY <1>20 DEF BeginLoad, IndexActive
  <1>21. CASE LoadCancelsQuery
    BY <1>21 DEF LoadCancelsQuery, IndexActive
  <1>22. CASE LoadJoinsQuery
    BY <1>22 DEF LoadJoinsQuery, IndexActive
  <1>23. CASE LoadJoinsIndex
    <2>1. ~IndexActive'
      BY <1>23 DEF LoadJoinsIndex, IndexActive
    <2> QED
      BY <1>23, <2>1 DEF LoadJoinsIndex
  <1>24. CASE DropTables
    BY <1>24 DEF DropTables, IndexActive
  <1>25. CASE FillTables
    BY <1>25 DEF FillTables, IndexActive
  <1>26. CASE FinishLoad
    BY <1>26 DEF FinishLoad, IndexActive
  <1>27. CASE FailLoad
    BY <1>27 DEF FailLoad, IndexActive
  <1>28. CASE Close
    BY <1>28 DEF Close, IndexActive
  <1>29. CASE CloseJoinsQuery
    BY <1>29 DEF CloseJoinsQuery, IndexActive
  <1>30. CASE CloseJoinsIndex
    <2>1. ~IndexActive'
      BY <1>30 DEF CloseJoinsIndex, IndexActive
    <2> QED
      BY <1>30, <2>1 DEF CloseJoinsIndex
  <1>31. CASE UNCHANGED dbVars
    BY <1>31 DEF dbVars, IndexActive
  <1> QED
    BY <1>1, <1>2, <1>3, <1>4, <1>5, <1>6, <1>7, <1>8, <1>9, <1>10, <1>11,
       <1>12, <1>13, <1>14, <1>15, <1>16, <1>17, <1>18, <1>19, <1>20, <1>21,
       <1>22, <1>23, <1>24, <1>25, <1>26, <1>27, <1>28, <1>29, <1>30, <1>31
       DEF DbNext, UiCall, QueryStep, IndexStep, LoadStep, CloseStep, Closed


-----------------------------------------------------------------------------
(* The rows: a query reads while the tables stay as they are. *)
RowsInv == RowsFollowTables /\ RowsOfOneTrace

LEMMA RowsStep ==
  TypeOK /\ ControlInv /\ RowsInv /\ [DbNext]_dbVars => RowsInv'
  <1> SUFFICES ASSUME TypeOK, ControlInv, RowsInv, [DbNext]_dbVars PROVE RowsInv'
    OBVIOUS
  <1> USE DEF RowsInv, RowsFollowTables, RowsOfOneTrace, OneTrace, ControlInv, LoadIsAlone,
              QueryActive, flagVars, queryVars, indexVars, loadVars
  <1>1. CASE ExecuteAsync
    <2>1. qres'.rows = <<>> /\ DOMAIN qres'.rows = {}
      BY <1>1 DEF ExecuteAsync, EmptyResult
    <2> QED
      BY <1>1, <2>1 DEF ExecuteAsync
  <1>2. CASE CancelQuery
    BY <1>2 DEF CancelQuery
  <1>3. CASE TakeResult
    <2>1. DOMAIN asyncResult'.rows = {}
      BY <1>3 DEF TakeResult, MovedFrom
    <2> QED
      BY <1>3, <2>1 DEF TakeResult
  <1>4. CASE ShowSchema
    BY <1>4 DEF ShowSchema
  <1>5. CASE ExecuteReturns
    BY <1>5 DEF ExecuteReturns
  <1>6. CASE InstallHandler
    BY <1>6 DEF InstallHandler
  <1>7. CASE PrepareFails
    <2>1. qres'.rows = qres.rows
      BY <1>7 DEF PrepareFails, TypeOK, Results
    <2> QED
      BY <1>7, <2>1 DEF PrepareFails
  <1>8. CASE Prepare
    BY <1>8 DEF Prepare
  <1>9. CASE StepBegin
    BY <1>9 DEF StepBegin
  <1>10. CASE StepRow
    <2>1. qres.rows \in Seq(Traces) /\ tables \in Traces
      BY DEF TypeOK, Results
    <2>2. qres'.rows = Append(qres.rows, tables)
      BY <1>10 DEF StepRow, TypeOK, Results
    <2>3. \A i \in DOMAIN qres'.rows : qres'.rows[i] = tables
      <3>1. DOMAIN qres'.rows = 1..(Len(qres.rows) + 1) /\ Len(qres.rows) \in Nat
        BY <2>1, <2>2, AppendProperties, LenProperties
      <3>2. ASSUME NEW i \in 1..(Len(qres.rows) + 1)
            PROVE  qres'.rows[i] = tables
        <4>1. CASE i = Len(qres.rows) + 1
          BY <2>1, <2>2, <4>1, AppendProperties
        <4>2. CASE i \in 1..Len(qres.rows)
          <5>1. qres'.rows[i] = qres.rows[i] /\ i \in DOMAIN qres.rows
            BY <2>1, <2>2, <4>2, AppendProperties, LenProperties
          <5> QED
            BY <1>10, <5>1 DEF StepRow
        <4> QED
          BY <3>1, <4>1, <4>2
      <3> QED
        BY <3>1, <3>2
    <2> QED
      BY <1>10, <2>3 DEF StepRow
  <1>11. CASE StepStop
    <2>1. qres'.rows = qres.rows
      BY <1>11 DEF StepStop, TypeOK, Results
    <2> QED
      BY <1>11, <2>1 DEF StepStop
  <1>12. CASE StepInterrupted
    <2>1. qres'.rows = qres.rows
      BY <1>12 DEF StepInterrupted, TypeOK, Results
    <2> QED
      BY <1>12, <2>1 DEF StepInterrupted
  <1>13. CASE RemoveHandler
    BY <1>13 DEF RemoveHandler
  <1>14. CASE Publish
    BY <1>14 DEF Publish
  <1>15. CASE ClearRunning
    BY <1>15 DEF ClearRunning
  <1>16. CASE SetDone
    BY <1>16 DEF SetDone
  <1>17. CASE \E i \in IndexStatements : CreateIndex(i)
    BY <1>17 DEF CreateIndex
  <1>18. CASE \E i \in IndexStatements : CreateIndexInterrupted(i)
    BY <1>18 DEF CreateIndexInterrupted
  <1>19. CASE IndexingDone
    BY <1>19 DEF IndexingDone
  <1>20. CASE BeginLoad
    BY <1>20 DEF BeginLoad
  <1>21. CASE LoadCancelsQuery
    BY <1>21 DEF LoadCancelsQuery
  <1>22. CASE LoadJoinsQuery
    BY <1>22 DEF LoadJoinsQuery
  <1>23. CASE LoadJoinsIndex
    BY <1>23 DEF LoadJoinsIndex
  <1>24. CASE DropTables
    BY <1>24 DEF DropTables
  <1>25. CASE FillTables
    BY <1>25 DEF FillTables
  <1>26. CASE FinishLoad
    BY <1>26 DEF FinishLoad
  <1>27. CASE FailLoad
    BY <1>27 DEF FailLoad
  <1>28. CASE Close
    BY <1>28 DEF Close
  <1>29. CASE CloseJoinsQuery
    BY <1>29 DEF CloseJoinsQuery
  <1>30. CASE CloseJoinsIndex
    BY <1>30 DEF CloseJoinsIndex
  <1>31. CASE UNCHANGED dbVars
    BY <1>31 DEF dbVars
  <1> QED
    BY <1>1, <1>2, <1>3, <1>4, <1>5, <1>6, <1>7, <1>8, <1>9, <1>10, <1>11,
       <1>12, <1>13, <1>14, <1>15, <1>16, <1>17, <1>18, <1>19, <1>20, <1>21,
       <1>22, <1>23, <1>24, <1>25, <1>26, <1>27, <1>28, <1>29, <1>30, <1>31
       DEF DbNext, UiCall, QueryStep, IndexStep, LoadStep, CloseStep, Closed

-----------------------------------------------------------------------------
LEMMA DbInvParts == DbInv <=> TypeOK /\ ControlInv /\ RowsInv
  BY DEF DbInv, ControlInv, RowsInv

LEMMA DbInvInit == DbInit => DbInv
  <1> SUFFICES ASSUME DbInit PROVE DbInv
    OBVIOUS
  <1>1. TypeOK
    BY TypeInit
  <1>2. ControlInv
    BY DEF DbInit, ControlInv, FlagsFollowThread, ResultIsCurrent, HandlerOnlyInQuery,
       LoadIsAlone, QueryActive
  <1>3. RowsInv
    BY DEF DbInit, RowsInv, RowsFollowTables, RowsOfOneTrace, OneTrace, QueryActive, EmptyResult
  <1> QED
    BY <1>1, <1>2, <1>3, DbInvParts

LEMMA DbInvStep == DbInv /\ [DbNext]_dbVars => DbInv'
  <1> SUFFICES ASSUME DbInv, [DbNext]_dbVars PROVE DbInv'
    OBVIOUS
  <1>1. TypeOK'
    BY TypeStep, DbInvParts
  <1>2. ControlInv'
    BY ControlStep, DbInvParts
  <1>3. RowsInv'
    BY RowsStep, DbInvParts
  <1> QED
    BY <1>1, <1>2, <1>3 DEF DbInv, ControlInv, RowsInv

(* The inductive invariant of the four threads. *)
THEOREM InvariantHolds == DbSpec => []DbInv
  <1> QED
    BY DbInvInit, DbInvStep, PTL DEF DbSpec

(* query_done_ announces the newest query and nothing else: take_result, called
   on it, neither waits nor returns an older result. *)
THEOREM AnnouncedResultIsCurrent == DbSpec => []DoneIsCurrent
  <1>1. DbInv => DoneIsCurrent
    BY DEF DbInv, FlagsFollowThread, ResultIsCurrent, DoneIsCurrent, QueryActive
  <1> QED
    BY <1>1, InvariantHolds, PTL

(* No result mixes the rows of two traces. *)
THEOREM ResultsAreOfOneTrace == DbSpec => []RowsOfOneTrace
  <1>1. DbInv => RowsOfOneTrace
    BY DEF DbInv
  <1> QED
    BY <1>1, InvariantHolds, PTL

(* load() replaces the tables while no other thread uses the connection. *)
THEOREM LoadWorksAlone == DbSpec => []TablesReplacedAlone
  <1>1. DbInv => TablesReplacedAlone
    BY DEF DbInv, LoadIsAlone, TablesReplacedAlone
  <1> QED
    BY <1>1, InvariantHolds, PTL

(* The progress handler never outlives the query that installed it, so a cancel
   flag that load() leaves set cannot interrupt another statement later. *)
THEOREM HandlerIsRemoved == DbSpec => []HandlerOnlyInQuery
  <1>1. DbInv => HandlerOnlyInQuery
    BY DEF DbInv
  <1> QED
    BY <1>1, InvariantHolds, PTL
-----------------------------------------------------------------------------
(* QueryDb implements AsyncQuery: execute_async asks, the query thread's last
   assignment answers, take_result takes; everything else stutters. *)
LEMMA AsyncQueryStep == DbInv /\ [DbNext]_dbVars => [AQ!Next]_(AQ!vars)
  <1> SUFFICES ASSUME DbInv, [DbNext]_dbVars PROVE [AQ!Next]_(AQ!vars)
    OBVIOUS
  <1> USE DEF DbInv, FlagsFollowThread, ResultIsCurrent, QueryActive, AQ!vars,
              flagVars, queryVars, indexVars, loadVars
  <1>1. CASE ExecuteAsync
    <2>1. AQ!Ask
      BY <1>1 DEF ExecuteAsync, AQ!Ask
    <2> QED
      BY <2>1 DEF AQ!Next
  <1>2. CASE CancelQuery
    BY <1>2 DEF CancelQuery
  <1>3. CASE TakeResult
    <2>1. AQ!Take
      BY <1>3 DEF TakeResult, AQ!Take
    <2> QED
      BY <2>1 DEF AQ!Next
  <1>4. CASE ShowSchema
    BY <1>4 DEF ShowSchema
  <1>5. CASE ExecuteReturns
    BY <1>5 DEF ExecuteReturns
  <1>6. CASE InstallHandler
    BY <1>6 DEF InstallHandler
  <1>7. CASE PrepareFails
    BY <1>7 DEF PrepareFails
  <1>8. CASE Prepare
    BY <1>8 DEF Prepare
  <1>9. CASE StepBegin
    BY <1>9 DEF StepBegin
  <1>10. CASE StepRow
    BY <1>10 DEF StepRow
  <1>11. CASE StepStop
    BY <1>11 DEF StepStop
  <1>12. CASE StepInterrupted
    BY <1>12 DEF StepInterrupted
  <1>13. CASE RemoveHandler
    BY <1>13 DEF RemoveHandler
  <1>14. CASE Publish
    BY <1>14 DEF Publish
  <1>15. CASE ClearRunning
    BY <1>15 DEF ClearRunning
  <1>16. CASE SetDone
    <2>1. AQ!Answer
      BY <1>16 DEF SetDone, AQ!Answer
    <2> QED
      BY <2>1 DEF AQ!Next
  <1>17. CASE \E i \in IndexStatements : CreateIndex(i)
    BY <1>17 DEF CreateIndex
  <1>18. CASE \E i \in IndexStatements : CreateIndexInterrupted(i)
    BY <1>18 DEF CreateIndexInterrupted
  <1>19. CASE IndexingDone
    BY <1>19 DEF IndexingDone
  <1>20. CASE BeginLoad
    BY <1>20 DEF BeginLoad
  <1>21. CASE LoadCancelsQuery
    BY <1>21 DEF LoadCancelsQuery
  <1>22. CASE LoadJoinsQuery
    BY <1>22 DEF LoadJoinsQuery
  <1>23. CASE LoadJoinsIndex
    BY <1>23 DEF LoadJoinsIndex
  <1>24. CASE DropTables
    BY <1>24 DEF DropTables
  <1>25. CASE FillTables
    BY <1>25 DEF FillTables
  <1>26. CASE FinishLoad
    BY <1>26 DEF FinishLoad
  <1>27. CASE FailLoad
    BY <1>27 DEF FailLoad
  <1>28. CASE Close
    BY <1>28 DEF Close
  <1>29. CASE CloseJoinsQuery
    BY <1>29 DEF CloseJoinsQuery
  <1>30. CASE CloseJoinsIndex
    BY <1>30 DEF CloseJoinsIndex
  <1>31. CASE UNCHANGED dbVars
    BY <1>31 DEF dbVars
  <1> QED
    BY <1>1, <1>2, <1>3, <1>4, <1>5, <1>6, <1>7, <1>8, <1>9, <1>10, <1>11,
       <1>12, <1>13, <1>14, <1>15, <1>16, <1>17, <1>18, <1>19, <1>20, <1>21,
       <1>22, <1>23, <1>24, <1>25, <1>26, <1>27, <1>28, <1>29, <1>30, <1>31
       DEF DbNext, UiCall, QueryStep, IndexStep, LoadStep, CloseStep, Closed

(* The answer on offer is always the answer to the last question asked. *)
THEOREM ImplementsAsyncQuery == DbSpec => AnswersTheLastQuestion
  <1>1. DbInit => AQ!Init
    BY DEF DbInit, AQ!Init, QueryActive
  <1>2. DbInv /\ [DbNext]_dbVars => [AQ!Next]_(AQ!vars)
    BY AsyncQueryStep
  <1> QED
    BY <1>1, <1>2, InvariantHolds, PTL DEF DbSpec, AnswersTheLastQuestion, AQ!Spec

-----------------------------------------------------------------------------
(* The SQL tabs. *)
(* A result is being made, or waits to be taken. *)
Pending == done \/ QueryActive

(* No tab shows an answer that is still to come. *)
AnswersAreOld ==
  \A t \in Tabs : /\ tabs[t].answer <= requests
                  /\ Pending => tabs[t].answer = 0 \/ tabs[t].answer < requests

PanelInv == DbInv /\ PanelTypeOK /\ AnswersAreOld /\ OneTaker /\ SoleAskerUpToDate

LEMMA TabIsRecord ==
  ASSUME PanelTypeOK, NEW t \in Tabs
  PROVE  /\ tabs[t].running \in BOOLEAN /\ tabs[t].answer \in Requests
         /\ tabs[t] = [running |-> tabs[t].running, answer |-> tabs[t].answer]
  BY DEF PanelTypeOK

LEMMA PanelInitInv == PanelInit => PanelInv
  <1> SUFFICES ASSUME PanelInit PROVE PanelInv
    OBVIOUS
  <1>1. DbInv
    BY DbInvInit DEF PanelInit
  <1>2. 0 \in Requests /\ requests = 0
    BY BoundsAssumption DEF Requests, PanelInit, DbInit
  <1>3. PanelTypeOK
    BY <1>2, EmptySeq DEF PanelInit, PanelTypeOK, NewTab
  <1>4. AnswersAreOld /\ OneTaker /\ SoleAskerUpToDate
    BY <1>2 DEF PanelInit, AnswersAreOld, OneTaker, SoleAskerUpToDate, NewTab
  <1> QED
    BY <1>1, <1>3, <1>4 DEF PanelInv

(* Every step of the panel is one the database knows. *)
LEMMA PanelStepIsDbStep == [PanelNext]_panelVars => [DbNext]_dbVars
  <1>1. UNCHANGED panelVars => UNCHANGED dbVars
    BY DEF panelVars
  <1>2. Background => [DbNext]_dbVars
    BY DEF Background, DbNext, UiCall
  <1>3. ASSUME NEW t \in Tabs, TabAction(t) PROVE [DbNext]_dbVars
    <2>1. CASE PollTab(t) \/ CancelTab(t) \/ RunTab(t) \/ UseAndRun(t)
      BY <2>1 DEF PollTab, CancelTab, RunTab, UseAndRun, StartedBy, DbNext, UiCall
    <2>2. CASE ClearTab(t) \/ SelectTab(t) \/ AddTab(t) \/ CloseTab(t)
      BY <2>2 DEF ClearTab, SelectTab, AddTab, CloseTab
    <2> QED
      BY <1>3, <2>1, <2>2 DEF TabAction
  <1> QED
    BY <1>1, <1>2, <1>3 DEF PanelNext

(* Without the tabs no question is asked, and nothing becomes pending. *)
LEMMA BackgroundAsksNothing ==
  Background => requests' = requests /\ (Pending' => Pending) /\ UNCHANGED tabVars
  <1> SUFFICES ASSUME Background
               PROVE  requests' = requests /\ (Pending' => Pending) /\ UNCHANGED tabVars
    OBVIOUS
  <1> USE DEF Pending, QueryActive, flagVars, queryVars, indexVars, loadVars
  <1>1. CASE QueryStep
    BY <1>1 DEF Background, QueryStep, InstallHandler, PrepareFails, Prepare, StepBegin, StepRow, StepStop,
                StepInterrupted, RemoveHandler, Publish, ClearRunning, SetDone
  <1>2. CASE IndexStep
    BY <1>2 DEF Background, IndexStep, CreateIndex, CreateIndexInterrupted, IndexingDone
  <1>3. CASE LoadStep
    BY <1>3 DEF Background, LoadStep, LoadCancelsQuery, LoadJoinsQuery, LoadJoinsIndex, DropTables, FillTables,
                FinishLoad, FailLoad
  <1>4. CASE ShowSchema \/ ExecuteReturns \/ BeginLoad \/ Close \/ CloseStep \/ Closed
    BY <1>4 DEF Background, ShowSchema, ExecuteReturns, BeginLoad, Close, CloseStep, CloseJoinsQuery,
                CloseJoinsIndex, Closed, dbVars
  <1> QED
    BY <1>1, <1>2, <1>3, <1>4 DEF Background

(* A step that asks nothing keeps the invariant if every answer stays, or goes. *)
LEMMA NothingNew ==
  ASSUME PanelInv, PanelTypeOK', requests' = requests, askedBy' = askedBy, Pending' => Pending,
         \A t \in Tabs : tabs'[t] = tabs[t] \/ tabs'[t].answer = 0,
         \A t \in open' : t \in open \/ tabs'[t].answer = 0
  PROVE  AnswersAreOld' /\ OneTaker' /\ SoleAskerUpToDate'
  <1>1. requests \in Nat
    BY BoundsAssumption DEF PanelInv, DbInv, TypeOK, Requests
  <1>2. AnswersAreOld'
    BY <1>1 DEF PanelInv, AnswersAreOld
  <1>3. OneTaker'
    BY DEF PanelInv, OneTaker
  <1>4. SoleAskerUpToDate'
    BY DEF PanelInv, PanelTypeOK, SoleAskerUpToDate, OnlyAsker
  <1> QED
    BY <1>2, <1>3, <1>4

LEMMA PollStep ==
  ASSUME PanelInv, DbInv', NEW t \in Tabs, PollTab(t)
  PROVE  PanelInv'
  <1>1. done /\ ~QueryActive /\ asyncResult.req = requests /\ requests \in Nat
    BY BoundsAssumption DEF PollTab, TakeResult, PanelInv, DbInv, ResultIsCurrent, TypeOK, Requests
  <1>2. requests' = requests /\ askedBy' = askedBy /\ ~Pending' /\ UNCHANGED <<open, active>>
    BY DEF PollTab, TakeResult, Pending, QueryActive
  <1>3. tabs' = [tabs EXCEPT ![t] = [running |-> FALSE, answer |-> requests]]
    BY <1>1 DEF PollTab
  <1>4. \A s \in Tabs : tabs[s].answer = 0 \/ tabs[s].answer < requests
    BY <1>1 DEF PanelInv, AnswersAreOld, Pending
  <1>5. tabs \in [Tabs -> [running : BOOLEAN, answer : Requests]] /\ requests \in Requests
    BY DEF PanelInv, PanelTypeOK, DbInv, TypeOK
  <1>6. PanelTypeOK'
    BY <1>2, <1>3, <1>5 DEF PanelInv, PanelTypeOK
  <1>7. \A s \in Tabs : s # t => tabs'[s] = tabs[s]
    BY <1>3, <1>5
  <1>8. tabs'[t].answer = requests
    BY <1>3, <1>5
  <1>9. AnswersAreOld'
    <2>1. \A s \in Tabs : tabs'[s].answer <= requests
      BY <1>1, <1>7, <1>8 DEF PanelInv, AnswersAreOld
    <2> QED
      BY <1>2, <2>1 DEF AnswersAreOld
  <1>10. OneTaker'
    <2> SUFFICES ASSUME NEW r \in Tabs, NEW s \in Tabs, tabs'[r].answer # 0, tabs'[r].answer = tabs'[s].answer, r # s
                 PROVE  FALSE
      BY DEF OneTaker
    <2>1. CASE r # t /\ s # t
      BY <1>7, <2>1 DEF PanelInv, OneTaker
    <2>2. CASE r = t \/ s = t
      BY <1>1, <1>4, <1>7, <1>8, <2>2
    <2> QED
      BY <2>1, <2>2
  <1>11. SoleAskerUpToDate'
    <2>1. open \in SUBSET Tabs
      BY DEF PanelInv, PanelTypeOK
    <2> QED
      BY <1>2, <1>7, <1>8, <2>1 DEF PanelInv, SoleAskerUpToDate, OnlyAsker
  <1> QED
    BY <1>6, <1>9, <1>10, <1>11 DEF PanelInv

LEMMA StartStep ==
  ASSUME PanelInv, DbInv', NEW t \in Tabs, StartedBy(t)
  PROVE  PanelInv'
  <1>1. requests' = requests + 1 /\ requests \in Nat /\ requests' \in Requests
    BY BoundsAssumption DEF StartedBy, ExecuteAsync, PanelInv, DbInv, TypeOK, Requests
  <1>2. askedBy' = Append(askedBy, t) /\ askedBy \in Seq(Tabs) /\ Len(askedBy) = requests /\ UNCHANGED <<open, active>>
    BY DEF StartedBy, PanelInv, PanelTypeOK
  <1>3. /\ askedBy' \in Seq(Tabs) /\ Len(askedBy') = requests + 1
        /\ \A r \in 1..requests : askedBy'[r] = askedBy[r]
        /\ askedBy'[requests + 1] = t
    BY <1>2, AppendProperties
  <1>4. tabs \in [Tabs -> [running : BOOLEAN, answer : Requests]] /\ tabs' = [tabs EXCEPT ![t].running = TRUE]
    BY DEF StartedBy, PanelInv, PanelTypeOK
  <1>5. /\ tabs' \in [Tabs -> [running : BOOLEAN, answer : Requests]]
        /\ \A s \in Tabs : tabs'[s].answer = tabs[s].answer
        /\ tabs'[t].running
        /\ \A s \in Tabs : s # t => tabs'[s] = tabs[s]
    BY <1>4
  <1>6. PanelTypeOK'
    BY <1>1, <1>2, <1>3, <1>5 DEF PanelInv, PanelTypeOK
  <1>7. AnswersAreOld'
    <2>1. \A s \in Tabs : tabs[s].answer \in Nat
      BY <1>4, BoundsAssumption DEF Requests
    <2> QED
      BY <1>1, <1>5, <2>1 DEF PanelInv, AnswersAreOld
  <1>8. OneTaker'
    BY <1>5 DEF PanelInv, OneTaker
  <1>9. SoleAskerUpToDate'
    <2> SUFFICES ASSUME NEW s \in open', OnlyAsker(s)', ~tabs'[s].running
                 PROVE  FALSE
      BY DEF SoleAskerUpToDate
    <2>1. s = t
      BY <1>1, <1>3 DEF OnlyAsker
    <2> QED
      BY <1>5, <2>1
  <1> QED
    BY <1>6, <1>7, <1>8, <1>9 DEF PanelInv

LEMMA PanelStep == PanelInv /\ [PanelNext]_panelVars => PanelInv'
  <1> SUFFICES ASSUME PanelInv, [PanelNext]_panelVars PROVE PanelInv'
    OBVIOUS
  <1>1. DbInv'
    BY PanelStepIsDbStep, DbInvStep DEF PanelInv
  <1>2. CASE UNCHANGED panelVars \/ Background
    <2>1. requests' = requests /\ (Pending' => Pending) /\ UNCHANGED tabVars
      BY <1>2, BackgroundAsksNothing
         DEF panelVars, dbVars, queryVars, flagVars, Pending, QueryActive
    <2>2. PanelTypeOK'
      BY <2>1 DEF PanelInv, PanelTypeOK, tabVars
    <2> QED
      BY <1>1, <2>1, <2>2, NothingNew DEF PanelInv, tabVars
  <1>3. ASSUME NEW t \in Tabs, TabAction(t) PROVE PanelInv'
    <2>1. CASE PollTab(t)
      BY <1>1, <2>1, PollStep
    <2>2. CASE RunTab(t) \/ UseAndRun(t)
      BY <1>1, <2>2, StartStep DEF RunTab, UseAndRun
    <2>3. CASE CancelTab(t)
      <3>1. requests' = requests /\ (Pending' => Pending) /\ UNCHANGED tabVars
        BY <2>3 DEF CancelTab, CancelQuery, Pending, QueryActive, queryVars
      <3>2. PanelTypeOK'
        BY <3>1 DEF PanelInv, PanelTypeOK, tabVars
      <3> QED
        BY <1>1, <3>1, <3>2, NothingNew DEF PanelInv, tabVars
    <2>4. CASE ClearTab(t) \/ SelectTab(t) \/ AddTab(t) \/ CloseTab(t)
      <3>1. requests' = requests /\ askedBy' = askedBy /\ (Pending' => Pending)
        BY <2>4 DEF ClearTab, SelectTab, AddTab, CloseTab, dbVars, queryVars, flagVars, Pending, QueryActive
      <3>2. 0 \in Requests
        BY BoundsAssumption DEF Requests
      <3>3. /\ tabs \in [Tabs -> [running : BOOLEAN, answer : Requests]]
            /\ open \in SUBSET Tabs /\ active \in open
        BY DEF PanelInv, PanelTypeOK
      <3>4. /\ tabs' \in [Tabs -> [running : BOOLEAN, answer : Requests]]
            /\ \A s \in Tabs : tabs'[s] = tabs[s] \/ tabs'[s].answer = 0
        <4>1. CASE tabs' = tabs
          BY <3>3, <4>1
        <4>2. CASE tabs' = [tabs EXCEPT ![t].answer = 0]
          BY <3>2, <3>3, <4>2
        <4>3. CASE tabs' = [tabs EXCEPT ![t] = [running |-> FALSE, answer |-> 0]]
          BY <3>2, <3>3, <4>3
        <4> QED
          BY <2>4, <4>1, <4>2, <4>3 DEF ClearTab, SelectTab, AddTab, CloseTab, NewTab
      <3>5. open' \in SUBSET Tabs /\ active' \in open'
        BY <2>4, <3>3 DEF ClearTab, SelectTab, AddTab, CloseTab
      <3>6. \A s \in open' : s \in open \/ tabs'[s].answer = 0
        BY <2>4, <3>3 DEF ClearTab, SelectTab, AddTab, CloseTab, NewTab
      <3>7. PanelTypeOK'
        BY <3>1, <3>4, <3>5 DEF PanelInv, PanelTypeOK
      <3> QED
        BY <1>1, <3>1, <3>4, <3>6, <3>7, NothingNew DEF PanelInv
    <2> QED
      BY <1>3, <2>1, <2>2, <2>3, <2>4 DEF TabAction
  <1> QED
    BY <1>2, <1>3 DEF PanelNext

-----------------------------------------------------------------------------
(* The tabs call the database only as it may be called: whatever is proved of
   QueryDb holds with the panel on top of it (stats_panel.cpp: render_tab). *)
THEOREM PanelUsesDb == PanelSpec => DbSpec
  <1>1. PanelInit => DbInit
    BY DEF PanelInit
  <1> QED
    BY <1>1, PanelStepIsDbStep, PTL DEF PanelSpec, DbSpec

LEMMA PanelInvariant == PanelSpec => []PanelInv
  <1> QED
    BY PanelInitInv, PanelStep, PTL DEF PanelSpec

(* Every variable of the tabs keeps its type, and the active tab is an open one
   (stats_panel.cpp: add_tab, close). *)
THEOREM TabsTypeCorrect == PanelSpec => []PanelTypeOK
  <1>1. PanelInv => PanelTypeOK
    BY DEF PanelInv
  <1> QED
    BY <1>1, PanelInvariant, PTL

(* A result is handed out to one tab, for any number of tabs, queries and loads
   (stats_panel.cpp: poll in render_tab; query_db.cpp: take_result). *)
THEOREM ResultsAreTakenOnce == PanelSpec => []OneTaker
  <1>1. PanelInv => OneTaker
    BY DEF PanelInv
  <1> QED
    BY <1>1, PanelInvariant, PTL

(* A tab that asks alone and does not wait shows the answer to its last question
   or none (stats_panel.cpp: render_tab, "Use & Run"). *)
THEOREM SoleAskerSeesItsAnswer == PanelSpec => []SoleAskerUpToDate
  <1>1. PanelInv => SoleAskerUpToDate
    BY DEF PanelInv
  <1> QED
    BY <1>1, PanelInvariant, PTL
=============================================================================
