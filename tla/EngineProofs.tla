----------------------------- MODULE EngineProofs -----------------------------
(***************************************************************************)
(* Theorems about module Engine, for every workflow graph, every policy    *)
(* and every number of faults: what has its type, how a run is decided,    *)
(* and its attempts - no two of a node overlap, the counters count them,   *)
(* nothing is left of them at the end, and the graph they advance is       *)
(* resolved edge by edge without a lost wakeup.                            *)
(***************************************************************************)
EXTENDS EngineInvariants, TLAPS, FiniteSetTheorems

-----------------------------------------------------------------------------
(***************************************************************************)
(* The writes the driver queues and the database's answers are well typed. *)
(***************************************************************************)
LEMMA OpsTyped ==
  /\ \A n \in Nodes, a \in Nat, s \in RowStatus : AppendOp(n, a, s) \in Op
  /\ \A r \in Result, s \in RowStatus, p \in RowPorts, fb \in BOOLEAN :
       FinishOp(r, s, p, fb) \in Op
  /\ \A r \in Result, vs \in SUBSET SetVarNodes : VarsOp(r, vs) \in Op
  BY DEF AppendOp, FinishOp, VarsOp, Op, Row, EmptyRow, RowPorts, RowStatus,
         Result

LEMMA PortTyped ==
  ASSUME NEW r \in Result
  PROVE  PortOf(r) \in RowPorts
  BY DEF PortOf, RowPorts, Result, Outcome

LEMMA WrittenTyped ==
  ASSUME NEW op \in Op, NEW k \in 0..3,
         rows[op.node][op.attempt] \in Row
  PROVE  Written(op, k) \in Row
  <1> DEFINE row == rows[op.node][op.attempt]
  <1>1. op.row \in Row
    BY DEF Op
  <1>2. ASSUME NEW r \in Row PROVE WithResolved(op, r) \in Row
    BY <1>1 DEF WithResolved, Row
  <1>3. ASSUME NEW r \in Row PROVE WithOutput(op, r) \in Row
    BY <1>1 DEF WithOutput, Row
  <1>4. ASSUME NEW r \in Row PROVE WithStatus(op, r) \in Row
    BY <1>1 DEF WithStatus, Row
  <1>5. k = 0 \/ k = 1 \/ k = 2 \/ k = 3
    OBVIOUS
  <1>6. WithResolved(op, row) \in Row
    BY <1>2
  <1>7. WithOutput(op, WithResolved(op, row)) \in Row
    BY <1>3, <1>6
  <1>8. WithStatus(op, WithOutput(op, WithResolved(op, row))) \in Row
    BY <1>4, <1>7
  <1> HIDE DEF row
  <1> QED
    <2>1. CASE k = 0  BY <2>1 DEF Written
    <2>2. CASE k = 1  BY <2>2, <1>6 DEF Written, row
    <2>3. CASE k = 2  BY <2>3, <1>7 DEF Written, row
    <2>4. CASE k = 3  BY <2>4, <1>8 DEF Written, row
    <2> QED BY <1>5, <2>1, <2>2, <2>3, <2>4
-----------------------------------------------------------------------------
(***************************************************************************)
(* The shape of a step's parts under the type invariant.                   *)
(***************************************************************************)
LEMMA SendTyped ==
  ASSUME NEW op \in Op, persistQ \in Seq(Op), Send(<<op>>)
  PROVE  persistQ' \in Seq(Op)
  BY DEF Send

LEMMA SendTwoTyped ==
  ASSUME NEW op1 \in Op, NEW op2 \in Op, persistQ \in Seq(Op),
         Send(<<op1, op2>>)
  PROVE  persistQ' \in Seq(Op)
  BY DEF Send

LEMMA DispatchTyped ==
  ASSUME TypeOK, NEW n \in Nodes, Dispatch(n)
  PROVE  /\ attemptCounter' \in [Nodes -> Nat]
         /\ persistQ' \in Seq(Op)
         /\ nodeStat' \in [Nodes -> {"unready", "running", "done"}]
         /\ inflight' \in Int
         /\ work' \in SUBSET Task
  <1> DEFINE a == attemptCounter[n] + 1
  <1>1. a \in Nat
    BY DEF TypeOK
  <1>2. AppendOp(n, a, "running") \in Op
    BY <1>1, OpsTyped DEF RowStatus
  <1>3. persistQ' \in Seq(Op)
    <2>1. Send(<<AppendOp(n, a, "running")>>)
      BY DEF Dispatch
    <2> QED
      BY <1>2, <2>1, SendTyped DEF TypeOK
  <1>4. [node |-> n, attempt |-> a] \in Task
    BY <1>1 DEF Task
  <1> QED
    BY <1>1, <1>3, <1>4 DEF Dispatch, TypeOK

LEMMA EndAttemptTyped ==
  ASSUME TypeOK, NEW r \in Result, NEW s \in RowStatus, NEW p \in RowPorts,
         NEW fb \in BOOLEAN, EndAttempt(r, s, p, fb)
  PROVE  /\ persistQ' \in Seq(Op)
         /\ nodeStat' \in [Nodes -> {"unready", "running", "done"}]
  <1>1. FinishOp(r, s, p, fb) \in Op
    BY OpsTyped
  <1>2. Send(<<FinishOp(r, s, p, fb)>>)
    BY DEF EndAttempt
  <1>3. persistQ' \in Seq(Op)
    BY <1>1, <1>2, SendTyped DEF TypeOK
  <1> QED
    BY <1>3 DEF EndAttempt, TypeOK

LEMMA PropagateTyped ==
  ASSUME TypeOK, cur \in Result, NEW p \in Ports, NEW s \in RowStatus,
         NEW fb \in BOOLEAN, Propagate(p, s, fb)
  PROVE  /\ persistQ' \in Seq(Op)
         /\ nodeStat' \in [Nodes -> {"unready", "running", "done"}]
         /\ symVars' \in SUBSET SetVarNodes
         /\ endHit' \in Nodes \cup {None}
         /\ edgeState' \in [Edges -> EdgeStates]
         /\ todo' \in SUBSET Nodes
  <1>1. cur.node \in Nodes
    BY DEF Result
  <1>2. symVars' \in SUBSET SetVarNodes
    BY DEF Propagate, TypeOK
  <1>3. FinishOp(cur, s, p, fb) \in Op /\ VarsOp(cur, symVars') \in Op
    BY <1>2, OpsTyped DEF RowPorts
  <1>4. persistQ' \in Seq(Op)
    <2>1. CASE cur.node \in SetVarNodes
      <3>1. Send(<<FinishOp(cur, s, p, fb), VarsOp(cur, symVars')>>)
        BY <2>1 DEF Propagate
      <3> QED
        BY <1>3, <3>1, SendTwoTyped DEF TypeOK
    <2>2. CASE cur.node \notin SetVarNodes
      <3>1. Send(<<FinishOp(cur, s, p, fb)>>)
        BY <2>2 DEF Propagate
      <3> QED
        BY <1>3, <3>1, SendTyped DEF TypeOK
    <2> QED
      BY <2>1, <2>2
  <1>5. edgeState' \in [Edges -> EdgeStates]
    BY DEF Propagate, TypeOK, Fired, EdgeStates
  <1>6. todo' \in SUBSET Nodes
    BY GraphAssumption DEF Propagate, TypeOK, Owed, Targets, OutEdges
  <1> QED
    BY <1>1, <1>2, <1>4, <1>5, <1>6 DEF Propagate, TypeOK

LEMMA StoreTyped ==
  ASSUME TypeOK, NEW op \in Op, NEW k \in 0..3, Store(op, k)
  PROVE  rows' \in [Nodes -> [Attempts -> Row]] /\ dbRun' \in Run
  <1>1. dbRun' \in Run
    BY DEF Store, TypeOK, Op, Run
  <1>2. op.node \in Nodes
    BY DEF Op
  <1>3. CASE op.attempt \in Attempts
    <2>1. rows[op.node][op.attempt] \in Row
      BY <1>2, <1>3 DEF TypeOK
    <2>2. Written(op, k) \in Row
      BY <2>1, WrittenTyped
    <2> QED
      BY <1>1, <1>2, <1>3, <2>2 DEF Store, TypeOK
  <1>4. CASE op.attempt \notin Attempts
    BY <1>1, <1>2, <1>4 DEF Store, TypeOK
  <1> QED
    BY <1>3, <1>4
-----------------------------------------------------------------------------
(***************************************************************************)
(* Type correctness: one step per action.                                  *)
(***************************************************************************)
LEMMA TypeInit == Init => TypeOK
  <1> SUFFICES ASSUME Init PROVE TypeOK
    OBVIOUS
  <1>1. dbRun \in Run
    BY DEF Init, Run, RunStatus
  <1>2. rows \in [Nodes -> [Attempts -> Row]]
    BY DEF Init, Row, EmptyRow, RowStatus, RowPorts
  <1>3. persistQ \in Seq(Op)
    BY DEF Init
  <1>4. cur \in Result \cup {None} /\ endHit \in Nodes \cup {None}
    BY DEF Init
  <1>5. edgeState \in [Edges -> EdgeStates]
    BY DEF Init, EdgeStates
  <1>6. /\ cancelled \in BOOLEAN /\ listening \in BOOLEAN
        /\ ctxErr \in BOOLEAN /\ persistErr \in BOOLEAN
    BY Zenon DEF Init
  <1>7. /\ pc = "load" /\ todo = {} /\ nodeStat \in [Nodes -> {"unready", "running", "done"}]
        /\ attemptCounter \in [Nodes -> Nat] /\ inflight = 0 /\ pendingRetries = 0
        /\ runFail = None /\ symVars = {} /\ work = {} /\ results = {}
        /\ timers = {} /\ retryCh = {} /\ faults = 0
    BY DEF Init
  <1> QED
    BY <1>1, <1>2, <1>3, <1>4, <1>5, <1>6, <1>7 DEF TypeOK

\* The steps that neither queue nor apply a write.
LEMMA TypeQuietSteps ==
  ASSUME TypeOK,
         \/ LoadVersion \/ CreateRun \/ BeginRun \/ Settle \/ PersistFailed
         \/ ContextDone \/ LeaveLoop \/ FinishDrain \/ SaveVerdict \/ CloseRun
         \/ CallerCancels
  PROVE  TypeOK'
  <1> USE DEF TypeOK, vars, driverVars, graphVars, verdictVars, taskVars,
              storeVars, Selecting
  <1>1. CASE LoadVersion  BY <1>1 DEF LoadVersion
  <1>2. CASE CreateRun
    <2>1. dbRun' \in Run
      BY <1>2 DEF CreateRun, Run, RunStatus
    <2> QED
      BY <1>2, <2>1 DEF CreateRun, GiveUp
  <1>3. CASE BeginRun
    <2>1. dbRun' \in Run
      BY <1>3 DEF BeginRun, Run, RunStatus
    <2> QED
      BY <1>3, <2>1 DEF BeginRun, GiveUp, RunErrCodes, Roots
  <1>4. CASE Settle       BY <1>4 DEF Settle, CancelOnce
  <1>5. CASE PersistFailed
    BY <1>5 DEF PersistFailed, RunFailAfterPersistErr, RunErrCodes, CancelOnce
  <1>6. CASE ContextDone  BY <1>6 DEF ContextDone, CancelOnce
  <1>7. CASE LeaveLoop    BY <1>7 DEF LeaveLoop, Decided
  <1>8. CASE FinishDrain
    BY <1>8 DEF FinishDrain, RunFailAfterPersistErr, RunErrCodes
  <1>9. CASE SaveVerdict
    <2>1. dbRun' \in Run
      <3>1. CASE Verdict = "failed"
        BY <1>9, <3>1 DEF SaveVerdict, Run, RunErrCodes
      <3>2. CASE Verdict = "cancelled"
        BY <1>9, <3>2 DEF SaveVerdict
      <3>3. CASE Verdict = "success"
        <4>1. endHit \in Nodes
          BY <3>3 DEF Verdict
        <4>2. \A a \in Latest(endHit) : rows[endHit][a].resolved \in BOOLEAN
          BY <4>1 DEF Latest, Recorded, Row
        <4>3. CASE dbRun' = dbRun
          BY <4>3
        <4>4. CASE \E a \in Latest(endHit) :
                     dbRun' = [dbRun EXCEPT !.endNode = endHit,
                                            !.output = rows[endHit][a].resolved]
          BY <4>1, <4>2, <4>4 DEF Run
        <4> QED
          BY <1>9, <3>3, <4>3, <4>4 DEF SaveVerdict
      <3> QED
        BY <3>1, <3>2, <3>3 DEF Verdict
    <2>2. pc' = "closing" \/ pc' = "failed"
      BY <1>9, Zenon DEF SaveVerdict, GiveUp
    <2>4. UNCHANGED faults \/ faults' = faults + 1
      BY <1>9, Zenon DEF SaveVerdict, GiveUp
    <2>3. /\ UNCHANGED <<cur, todo, graphVars, attemptCounter, inflight,
                         pendingRetries, verdictVars, ctxErr, taskVars>>
          /\ UNCHANGED <<persistQ, persistErr, rows>>
      BY <1>9 DEF SaveVerdict
    <2> QED
      BY <2>1, <2>2, <2>3, <2>4
  <1>10. CASE CloseRun
    <2>1. Verdict \in RunStatus
      BY DEF Verdict, RunStatus
    <2>2. dbRun' \in Run
      BY <1>10, <2>1 DEF CloseRun, Run
    <2> QED
      BY <1>10, <2>2 DEF CloseRun, GiveUp
  <1>11. CASE CallerCancels BY <1>11 DEF CallerCancels
  <1> QED
    BY <1>1, <1>2, <1>3, <1>4, <1>5, <1>6, <1>7, <1>8, <1>9, <1>10, <1>11

\* The steps that queue writes.
LEMMA TypeAdvance ==
  ASSUME TypeOK, NEW n \in Nodes, TryAdvance(n)
  PROVE  TypeOK'
  <1>1. UNCHANGED <<pc, cur, symVars, pendingRetries, verdictVars, ctxErr,
                    results, timers, retryCh, persistErr, rows, dbRun, faults>>
    BY DEF TryAdvance
  <1> USE DEF verdictVars
  <1>2. CASE Dispatch(n) /\ todo' = todo \ {n} /\ UNCHANGED edgeState
    BY <1>1, <1>2, DispatchTyped DEF TypeOK
  <1>3. CASE /\ MarkSkipped(n)
             /\ edgeState' = [e \in Edges |-> Killed(n, e)]
             /\ todo' = (todo \ {n}) \cup Owed(n)
             /\ UNCHANGED <<attemptCounter, inflight, work>>
    <2>1. AppendOp(n, 1, "skipped") \in Op
      BY OpsTyped DEF RowStatus
    <2>2. Send(<<AppendOp(n, 1, "skipped")>>)
      BY <1>3 DEF MarkSkipped
    <2>3. persistQ' \in Seq(Op)
      BY <2>1, <2>2, SendTyped DEF TypeOK
    <2>4. edgeState' \in [Edges -> EdgeStates]
      BY <1>3 DEF Killed, TypeOK, EdgeStates
    <2>5. todo' \in SUBSET Nodes
      BY <1>3, GraphAssumption DEF Owed, Targets, OutEdges, TypeOK
    <2>6. nodeStat' \in [Nodes -> {"unready", "running", "done"}]
      BY <1>3 DEF MarkSkipped, TypeOK
    <2> QED
      BY <1>1, <1>3, <2>3, <2>4, <2>5, <2>6 DEF TypeOK
  <1>4. CASE /\ todo' = todo \ {n}
             /\ UNCHANGED <<edgeState, nodeStat, attemptCounter, inflight,
                            work, persistQ>>
    BY <1>1, <1>4 DEF TypeOK
  <1> QED
    BY <1>2, <1>3, <1>4 DEF TryAdvance

LEMMA TypeReceive ==
  ASSUME TypeOK, NEW r \in results, ReceiveResult(r)
  PROVE  TypeOK'
  <1>1. r \in Result
    BY DEF TypeOK
  <1>2. /\ results' = results \ {r}
        /\ inflight' = inflight - 1
        /\ UNCHANGED <<todo, edgeState, symVars, attemptCounter,
                       pendingRetries, endHit, runFail, listening, ctxErr,
                       work, timers, retryCh, persistErr, rows, dbRun, faults>>
    BY DEF ReceiveResult
  <1>3. cancelled' \in BOOLEAN
    BY DEF ReceiveResult, CancelNoticed
  <1>4. CASE CancelNoticed \/ Decided
    <2>1. /\ EndAttempt(r, "cancelled", PortOf(r), FALSE)
          /\ pc' = "advancing"
          /\ UNCHANGED cur
      BY <1>4 DEF ReceiveResult
    <2>2. /\ persistQ' \in Seq(Op)
          /\ nodeStat' \in [Nodes -> {"unready", "running", "done"}]
      BY <1>1, <2>1, PortTyped, EndAttemptTyped DEF RowStatus
    <2> QED
      BY <1>2, <1>3, <2>1, <2>2 DEF TypeOK
  <1>5. CASE ~(CancelNoticed \/ Decided)
    <2>1. cur' = r /\ pc' = "handling" /\ UNCHANGED <<nodeStat, persistQ>>
      BY <1>5 DEF ReceiveResult
    <2> QED
      BY <1>1, <1>2, <1>3, <2>1 DEF TypeOK
  <1> QED
    BY <1>4, <1>5

LEMMA TypeHandle ==
  ASSUME TypeOK,
         HandleCancelled \/ HandleRetry \/ HandleFailRun \/ HandlePropagate
  PROVE  TypeOK'
  <1>1. /\ cur \in Result
        /\ pc' = "advancing" /\ cur' = None
        /\ UNCHANGED <<attemptCounter, inflight, listening, ctxErr, work,
                       results, retryCh, persistErr, rows, dbRun, faults>>
    BY DEF Handle, HandleCancelled, HandleRetry, HandleFailRun,
           HandlePropagate, TypeOK
  <1>2. CASE HandleCancelled
    <2>1. EndAttempt(cur, "cancelled", NoPort, FALSE)
      BY <1>2 DEF HandleCancelled
    <2>2. /\ persistQ' \in Seq(Op)
          /\ nodeStat' \in [Nodes -> {"unready", "running", "done"}]
      BY <1>1, <2>1, EndAttemptTyped DEF RowStatus, RowPorts
    <2> QED
      BY <1>1, <1>2, <2>2 DEF HandleCancelled, TypeOK
  <1>3. CASE HandleRetry
    <2>1. Send(<<FinishOp(cur, "failed", NoPort, FALSE)>>)
      BY <1>3 DEF HandleRetry
    <2>2. FinishOp(cur, "failed", NoPort, FALSE) \in Op
      BY <1>1, OpsTyped DEF RowStatus, RowPorts
    <2>3. persistQ' \in Seq(Op)
      BY <2>1, <2>2, SendTyped DEF TypeOK
    <2>4. timers' \in SUBSET Task
      BY <1>1, <1>3 DEF HandleRetry, TypeOK, Task, Result
    <2>5. pendingRetries' \in Int
      BY <1>3 DEF HandleRetry, TypeOK
    <2>6. UNCHANGED <<todo, graphVars, endHit, runFail, cancelled>>
      BY <1>3 DEF HandleRetry
    <2> QED
      BY <1>1, <2>3, <2>4, <2>5, <2>6 DEF TypeOK, graphVars
  <1>4. CASE HandleFailRun
    <2>1. EndAttempt(cur, "failed", NoPort, FALSE)
      BY <1>4 DEF HandleFailRun
    <2>2. /\ persistQ' \in Seq(Op)
          /\ nodeStat' \in [Nodes -> {"unready", "running", "done"}]
      BY <1>1, <2>1, EndAttemptTyped DEF RowStatus, RowPorts
    <2>3. runFail' \in RunErrCodes
      BY <1>4 DEF HandleFailRun, RunErrCodes
    <2>4. UNCHANGED <<todo, edgeState, symVars, pendingRetries, endHit,
                      cancelled, timers>>
      BY <1>4 DEF HandleFailRun
    <2> QED
      BY <1>1, <2>2, <2>3, <2>4 DEF TypeOK
  <1>5. CASE HandlePropagate
    <2>1. PICK p \in Ports, s \in RowStatus, fb \in BOOLEAN : Propagate(p, s, fb)
      <3>1. cur.node \in Nodes
        BY <1>1 DEF Result
      <3>2. FallbackPort[cur.node] \in Ports /\ ErrorPort \in Ports
        BY <3>1, PolicyAssumption, PortAssumption
      <3>3. "success" \in RowStatus /\ "failed" \in RowStatus
        BY DEF RowStatus
      <3> QED
        BY <1>5, <3>2, <3>3, Zenon DEF HandlePropagate
    <2>2. UNCHANGED <<pendingRetries, runFail, cancelled, timers>>
      BY <1>5 DEF HandlePropagate
    <2> QED
      BY <1>1, <2>1, <2>2, PropagateTyped DEF TypeOK
  <1> QED
    BY <1>2, <1>3, <1>4, <1>5

LEMMA TypeRetryDue ==
  ASSUME TypeOK, NEW rt \in retryCh, RetryDue(rt)
  PROVE  TypeOK'
  <1>1. rt \in Retry /\ rt.node \in Nodes /\ rt.attempt \in Nat
    BY DEF TypeOK, Retry
  <1>2. /\ retryCh' = retryCh \ {rt}
        /\ pendingRetries' = pendingRetries - 1
        /\ UNCHANGED <<pc, cur, todo, edgeState, symVars, verdictVars, ctxErr,
                       results, timers, persistErr, rows, dbRun, faults>>
    BY DEF RetryDue
  <1>3. CASE Aborts(rt)
    <2>1. /\ Send(<<AppendOp(rt.node, rt.attempt, "cancelled")>>)
          /\ nodeStat' = [nodeStat EXCEPT ![rt.node] = "done"]
          /\ UNCHANGED <<attemptCounter, inflight, work>>
      BY <1>3 DEF RetryDue, AbortOp
    <2>2. AppendOp(rt.node, rt.attempt, "cancelled") \in Op
      BY <1>1, OpsTyped DEF RowStatus
    <2>3. persistQ' \in Seq(Op)
      BY <2>1, <2>2, SendTyped DEF TypeOK
    <2> QED
      BY <1>1, <1>2, <2>1, <2>3 DEF TypeOK, verdictVars
  <1>4. CASE Dispatch(rt.node)
    BY <1>1, <1>2, <1>4, DispatchTyped DEF TypeOK, verdictVars
  <1> QED
    BY <1>3, <1>4 DEF RetryDue

\* The steps of the other goroutines.
LEMMA TypeOthers ==
  ASSUME TypeOK,
         \/ \E t \in work, out \in Outcome : WorkerEnds(t, out)
         \/ \E t \in timers : TimerFires(t)
  PROVE  TypeOK'
  <1>1. CASE \E t \in work, out \in Outcome : WorkerEnds(t, out)
    <2>1. PICK t \in work, out \in Outcome : WorkerEnds(t, out)
      BY <1>1
    <2>2. [node |-> t.node, attempt |-> t.attempt, out |-> out] \in Result
      BY <2>1 DEF TypeOK, Task, Result
    <2>3. work' \in SUBSET Task /\ results' \in SUBSET Result
      BY <2>1, <2>2 DEF WorkerEnds, TypeOK
    <2>4. UNCHANGED <<driverVars, ctxErr, timers, retryCh, storeVars>>
      BY <2>1 DEF WorkerEnds
    <2> QED
      BY <2>3, <2>4 DEF TypeOK, driverVars, storeVars
  <1>2. CASE \E t \in timers : TimerFires(t)
    <2>1. PICK t \in timers : TimerFires(t)
      BY <1>2
    <2>2. \A flagged \in BOOLEAN :
            [node |-> t.node, attempt |-> t.attempt, cancelled |-> flagged] \in Retry
      BY <2>1 DEF TypeOK, Task, Retry
    <2>3. timers' \in SUBSET Task /\ retryCh' \in SUBSET Retry
      BY <2>1, <2>2 DEF TimerFires, TypeOK
    <2>4. UNCHANGED <<driverVars, ctxErr, work, results, storeVars>>
      BY <2>1 DEF TimerFires
    <2> QED
      BY <2>3, <2>4 DEF TypeOK, driverVars, storeVars
  <1> QED
    BY <1>1, <1>2

LEMMA TypePersist ==
  ASSUME TypeOK, Persist
  PROVE  TypeOK'
  <1> DEFINE op == Head(persistQ)
  <1>1. op \in Op /\ persistQ' \in Seq(Op)
    BY DEF Persist, TypeOK
  <1>2. WritesAccepted(op) \in 0..3
    BY DEF WritesAccepted
  <1>3. /\ \E k \in 0..3 : Store(op, k)
        /\ persistErr' \in BOOLEAN
        /\ UNCHANGED faults \/ faults' = faults + 1
    <2>1. CASE /\ Store(op, WritesAccepted(op))
               /\ persistErr' = ErrReported(WritesAccepted(op) < 3)
               /\ UNCHANGED faults
      BY <1>2, <2>1, Zenon DEF ErrReported, TypeOK
    <2>2. CASE /\ faults' = faults + 1
               /\ \E k \in 0..2 : Store(op, k)
               /\ persistErr' = ErrReported(TRUE)
      BY <2>2 DEF ErrReported, TypeOK
    <2> QED
      BY <2>1, <2>2 DEF Persist
  <1>4. PICK k \in 0..3 : Store(op, k)
    BY <1>3
  <1>5. rows' \in [Nodes -> [Attempts -> Row]] /\ dbRun' \in Run
    BY <1>1, <1>4, StoreTyped
  <1>6. UNCHANGED <<driverVars, ctxErr, taskVars>>
    BY DEF Persist
  <1> QED
    BY <1>1, <1>3, <1>5, <1>6 DEF TypeOK, driverVars, graphVars, verdictVars,
                                  taskVars

LEMMA TypeStep == TypeOK /\ [Next]_vars => TypeOK'
  <1> SUFFICES ASSUME TypeOK, [Next]_vars PROVE TypeOK'
    OBVIOUS
  <1>1. CASE Driver
    <2>1. CASE \E n \in todo : TryAdvance(n)
      BY <2>1, TypeAdvance DEF TypeOK
    <2>2. CASE \E r \in results : ReceiveResult(r)
      BY <2>2, TypeReceive
    <2>3. CASE \E rt \in retryCh : RetryDue(rt)
      BY <2>3, TypeRetryDue
    <2> QED
      BY <1>1, <2>1, <2>2, <2>3, TypeQuietSteps, TypeHandle DEF Driver
  <1>2. CASE \E n \in Nodes : Worker(n) \/ RetryTimer(n)
    BY <1>2, TypeOthers DEF Worker, RetryTimer
  <1>3. CASE Persist
    BY <1>3, TypePersist
  <1>4. CASE CallerCancels
    BY <1>4, TypeQuietSteps
  <1>5. CASE UNCHANGED vars
    BY <1>5 DEF TypeOK, vars, driverVars, graphVars, verdictVars, taskVars,
                storeVars
  <1> QED
    BY <1>1, <1>2, <1>3, <1>4, <1>5 DEF Next, Over

(***************************************************************************)
(* The state of a run is always well typed: in particular no attempt       *)
(* carries an unknown node, no row a status the schema does not have, and  *)
(* the driver is never asked to handle a result it does not hold.          *)
(***************************************************************************)
THEOREM TypeCorrect == Spec => []TypeOK
  BY TypeInit, TypeStep, PTL DEF Spec
-----------------------------------------------------------------------------
(***************************************************************************)
(* The decision of a run.  Why no run is both ended and cancelled cannot   *)
(* be seen from one step: handleResult acts on a result one step after it  *)
(* looked at the context, and the loop stops listening to the context only *)
(* one step after an End was recorded.  DecisionInv says what holds in     *)
(* between, part by part.                                                  *)
(***************************************************************************)
LEMMA DecisionInit == Init => DecisionInv
  BY Zenon DEF Init, DecisionInv, EndExcludesCancel,
     SelfCancelIsNoCancellation, StartsUndecided, HandlesUndecided,
     DecidedIsDeaf, AdvancesUndecided, SelfCancelled, Decided

LEMMA DecisionStep == DecisionInv /\ [Next]_vars => DecisionInv'
  <1> SUFFICES ASSUME DecisionInv, [Next]_vars PROVE DecisionInv'
    OBVIOUS
  <1> USE DEF DecisionInv, EndExcludesCancel, SelfCancelIsNoCancellation,
              StartsUndecided, HandlesUndecided, DecidedIsDeaf,
              AdvancesUndecided, SelfCancelled, Decided, vars, driverVars,
              graphVars, verdictVars, taskVars, storeVars, Selecting
  <1>1. CASE LoadVersion  BY <1>1 DEF LoadVersion
  <1>2. CASE CreateRun    BY <1>2 DEF CreateRun, GiveUp
  <1>3. CASE BeginRun     BY <1>3 DEF BeginRun, GiveUp
  <1>4. CASE \E n \in todo : TryAdvance(n)
    <2>1. /\ pc = "advancing" /\ todo # {}
          /\ pc' = pc /\ endHit' = endHit /\ runFail' = runFail
          /\ cancelled' = cancelled /\ listening' = listening
          /\ ctxErr' = ctxErr
      BY <1>4 DEF TryAdvance
    <2> QED
      BY <2>1, Zenon
  <1>5. CASE Settle       BY <1>5 DEF Settle, CancelOnce
  <1>6. CASE \E r \in results : ReceiveResult(r)
    <2>1. /\ pc = "loop" /\ todo' = todo
          /\ endHit' = endHit /\ runFail' = runFail
          /\ listening' = listening /\ ctxErr' = ctxErr
          /\ cancelled' = (cancelled \/ (~Decided /\ ctxErr))
      BY <1>6 DEF ReceiveResult, CancelNoticed
    <2>2. \/ pc' = "advancing"
          \/ pc' = "handling" /\ ~cancelled' /\ ~Decided
      BY <1>6 DEF ReceiveResult, CancelNoticed
    <2> QED
      BY <2>1, <2>2
  <1>7. CASE HandleCancelled
    BY <1>7 DEF HandleCancelled, Handle, EndedByContext
  <1>8. CASE HandleRetry  BY <1>8 DEF HandleRetry, Handle
  <1>9. CASE HandleFailRun
    BY <1>9, EngineAssumption DEF HandleFailRun, Handle, RunErrCodes
  <1>10. CASE HandlePropagate
    BY <1>10 DEF HandlePropagate, Handle, Propagate
  <1>11. CASE \E rt \in retryCh : RetryDue(rt)
    BY <1>11 DEF RetryDue
  <1>12. CASE PersistFailed
    BY <1>12, EngineAssumption
       DEF PersistFailed, CancelOnce, RunFailAfterPersistErr, RunErrCodes
  <1>13. CASE ContextDone BY <1>13 DEF ContextDone, CancelOnce
  <1>14. CASE LeaveLoop   BY <1>14 DEF LeaveLoop
  <1>15. CASE FinishDrain
    BY <1>15, EngineAssumption DEF FinishDrain, RunFailAfterPersistErr, RunErrCodes
  <1>16. CASE SaveVerdict BY <1>16 DEF SaveVerdict, GiveUp
  <1>17. CASE CloseRun    BY <1>17 DEF CloseRun, GiveUp
  <1>18. CASE \E n \in Nodes : Worker(n) \/ RetryTimer(n)
    BY <1>18 DEF Worker, WorkerEnds, RetryTimer, TimerFires
  <1>19. CASE Persist     BY <1>19 DEF Persist
  <1>20. CASE CallerCancels
    BY <1>20 DEF CallerCancels
  <1>21. CASE UNCHANGED vars
    BY <1>21
  <1> QED
    BY <1>1, <1>2, <1>3, <1>4, <1>5, <1>6, <1>7, <1>8, <1>9, <1>10, <1>11,
       <1>12, <1>13, <1>14, <1>15, <1>16, <1>17, <1>18, <1>19, <1>20, <1>21
       DEF Next, Driver, Over

\* Under DecisionInv the properties hold: two at once, one for every step.
LEMMA DecidedStartsNothing ==
  DecisionInv /\ TypeOK /\ [Next]_vars =>
    [Decided => work' \subseteq work /\ (endHit # None => endHit' = endHit)]_vars
  <1> SUFFICES ASSUME DecisionInv, TypeOK, Next, Decided
               PROVE  /\ work' \subseteq work
                      /\ endHit # None => endHit' = endHit
    OBVIOUS
  <1> USE DEF DecisionInv, vars, driverVars, graphVars, verdictVars, taskVars,
              storeVars
  <1>1. todo = {} /\ pc # "handling"
    BY DEF AdvancesUndecided, HandlesUndecided
  <1>2. CASE \E rt \in retryCh : RetryDue(rt)
    <2>1. PICK rt \in retryCh : RetryDue(rt)
      BY <1>2
    <2>2. Aborts(rt)
      BY <2>1 DEF RetryDue, Selecting, DecidedIsDeaf, Aborts
    <2> QED
      BY <2>1, <2>2 DEF RetryDue
  <1>3. CASE \E n \in Nodes : Worker(n) \/ RetryTimer(n)
    BY <1>3 DEF Worker, WorkerEnds, RetryTimer, TimerFires
  <1>4. CASE LoadVersion \/ CreateRun \/ BeginRun
    BY <1>4 DEF LoadVersion, CreateRun, BeginRun
  <1>5. CASE Settle \/ LeaveLoop \/ FinishDrain \/ SaveVerdict \/ CloseRun
    BY <1>5 DEF Settle, LeaveLoop, FinishDrain, SaveVerdict, CloseRun
  <1>6. CASE \E r \in results : ReceiveResult(r)
    BY <1>6 DEF ReceiveResult
  <1>7. CASE PersistFailed \/ ContextDone
    BY <1>7 DEF PersistFailed, ContextDone
  <1>8. CASE Persist \/ CallerCancels \/ Over
    BY <1>8 DEF Persist, CallerCancels, Over
  <1>9. ~(HandleCancelled \/ HandleRetry \/ HandleFailRun \/ HandlePropagate)
    BY <1>1 DEF HandleCancelled, HandleRetry, HandleFailRun, HandlePropagate,
                Handle
  <1> QED
    BY <1>1, <1>2, <1>3, <1>4, <1>5, <1>6, <1>7, <1>8, <1>9 DEF Next, Driver

(***************************************************************************)
(* The decision of a run is made once and acted on in one place            *)
(* (DecisionInv), for every workflow, policy and interleaving: what        *)
(* handleResult does after its checks of the context it does to a run      *)
(* neither cancelled nor decided, and a decided run is deaf to the context *)
(* it cancels itself (scheduler.go:177, engine.go:167).                    *)
(***************************************************************************)
THEOREM DecisionAlways == Spec => []DecisionInv
  BY DecisionInit, DecisionStep, PTL DEF Spec

(***************************************************************************)
(* No run is both ended and cancelled, however a cancellation, a timeout,  *)
(* an End and a failure race (finalize.go:10).                             *)
(***************************************************************************)
THEOREM EndAndCancelExclude == Spec => []EndExcludesCancel
  <1>1. DecisionInv => EndExcludesCancel
    BY DEF DecisionInv
  <1> QED
    BY <1>1, DecisionAlways, PTL

(***************************************************************************)
(* A run whose caller cannot cancel is never recorded as cancelled: the    *)
(* driver never takes its own cancellation for an external one             *)
(* (engine.go:167, scheduler.go:177).                                      *)
(***************************************************************************)
THEOREM OnlyTheCallerCancels == Spec => []SelfCancelIsNoCancellation
  <1>1. DecisionInv => SelfCancelIsNoCancellation
    BY DEF DecisionInv
  <1> QED
    BY <1>1, DecisionAlways, PTL

(***************************************************************************)
(* From the step that decides a run on, no attempt starts and the End that *)
(* was reached first stays the one (engine.go:185, scheduler.go:183).      *)
(***************************************************************************)
THEOREM DecidedIsFinal == Spec => NothingStartsOnceDecided
  BY DecisionAlways, TypeCorrect, DecidedStartsNothing, PTL
     DEF Spec, NothingStartsOnceDecided
-----------------------------------------------------------------------------
(***************************************************************************)
(* Tokens.  A step gives one node a token, or takes its token away; the    *)
(* tokens of the other nodes stay.                                         *)
(***************************************************************************)
OthersTokens(n) == {x \in Tokens : x.task.node # n}

LEMMA TokenTyped ==
  ASSUME TypeOK, NEW x \in Tokens
  PROVE  x.task.node \in Nodes /\ x.task.attempt \in Nat
  BY DEF TypeOK, Tokens, Task, Result, Retry

LEMMA TokenPlaces ==
  /\ \A t \in work : [at |-> "worker", task |-> t] \in Tokens
  /\ \A r \in results : [at |-> "done", task |-> r] \in Tokens
  /\ cur # None => [at |-> "driver", task |-> cur] \in Tokens
  /\ \A t \in timers : [at |-> "timer", task |-> t] \in Tokens
  /\ \A rt \in retryCh : [at |-> "retryCh", task |-> rt] \in Tokens
  BY DEF Tokens

TokenInv == OneAttemptAtATime /\ UnreadyIsFresh /\ WithinPolicy

\* Node n comes to hold token y, and its counter goes to c.
LEMMA HoldsToken ==
  ASSUME TypeOK, TokenInv, NEW n \in Nodes, NEW y, NEW c \in Nat,
         y.task.node = n,
         \/ ~Waits(y) /\ y.task.attempt = c
         \/ Waits(y) /\ y.task.attempt = c + 1,
         c > 0, c <= MaxRetries[n] + 1,
         y.task.attempt \in 1..(MaxRetries[n] + 1),
         Tokens' = OthersTokens(n) \cup {y},
         nodeStat' = [nodeStat EXCEPT ![n] = "running"],
         attemptCounter' = [attemptCounter EXCEPT ![n] = c]
  PROVE  TokenInv'
  <1>1. /\ \A x \in Tokens : x.task.node \in Nodes
        /\ nodeStat \in [Nodes -> {"unready", "running", "done"}]
        /\ attemptCounter \in [Nodes -> Nat]
    BY TokenTyped DEF TypeOK
  <1>2. \A x \in Tokens' : x = y \/ (x \in Tokens /\ x.task.node # n)
    BY DEF OthersTokens
  <1>3. y \in Tokens' /\ \A x \in Tokens : x.task.node # n => x \in Tokens'
    BY DEF OthersTokens
  <1>4. OneAttemptAtATime'
    <2>1. ASSUME NEW m \in Nodes
          PROVE  nodeStat'[m] = "running" <=> \E x \in Tokens' : x.task.node = m
      BY <1>1, <1>2, <1>3 DEF TokenInv, OneAttemptAtATime
    <2>2. ASSUME NEW x1 \in Tokens', NEW x2 \in Tokens',
                 x1.task.node = x2.task.node
          PROVE  x1 = x2
      BY <1>2, <2>2 DEF TokenInv, OneAttemptAtATime
    <2>3. ASSUME NEW x \in Tokens'
          PROVE  x.task.attempt =
                   attemptCounter'[x.task.node] + (IF Waits(x) THEN 1 ELSE 0)
      BY <1>1, <1>2 DEF TokenInv, OneAttemptAtATime
    <2> QED
      BY <2>1, <2>2, <2>3 DEF OneAttemptAtATime, Waits
  <1>5. UnreadyIsFresh'
    BY <1>1 DEF TokenInv, UnreadyIsFresh
  <1>6. WithinPolicy'
    BY <1>1, <1>2 DEF TokenInv, WithinPolicy
  <1> QED
    BY <1>4, <1>5, <1>6 DEF TokenInv

\* Node n holds no token any more, or it never did.
LEMMA FreesNode ==
  ASSUME TypeOK, TokenInv, NEW n \in Nodes,
         Tokens' = OthersTokens(n),
         nodeStat' = [nodeStat EXCEPT ![n] = "done"],
         attemptCounter' = attemptCounter
  PROVE  TokenInv'
  <1>1. /\ \A x \in Tokens : x.task.node \in Nodes
        /\ nodeStat \in [Nodes -> {"unready", "running", "done"}]
    BY TokenTyped DEF TypeOK
  <1>2. \A x : x \in Tokens' <=> (x \in Tokens /\ x.task.node # n)
    BY DEF OthersTokens
  <1>3. OneAttemptAtATime'
    <2>1. ASSUME NEW m \in Nodes
          PROVE  nodeStat'[m] = "running" <=> \E x \in Tokens' : x.task.node = m
      BY <1>1, <1>2 DEF TokenInv, OneAttemptAtATime
    <2> QED
      BY <1>2, <2>1 DEF TokenInv, OneAttemptAtATime, Waits
  <1> QED
    BY <1>1, <1>2, <1>3 DEF TokenInv, UnreadyIsFresh, WithinPolicy

LEMMA StaysPut ==
  ASSUME TokenInv, Tokens' = Tokens, nodeStat' = nodeStat,
         attemptCounter' = attemptCounter
  PROVE  TokenInv'
  BY DEF TokenInv, OneAttemptAtATime, UnreadyIsFresh, WithinPolicy, Waits
-----------------------------------------------------------------------------
(***************************************************************************)
(* What each action does to the tokens.                                    *)
(***************************************************************************)
\* dispatch gives a worker to a node, whatever token it had.
LEMMA DispatchHolds ==
  ASSUME TypeOK, TokenInv, NEW n \in Nodes, Dispatch(n),
         attemptCounter[n] <= MaxRetries[n],
         UNCHANGED <<cur, results, timers>>,
         \A t \in timers : t.node # n, \A r \in results : r.node # n,
         cur # None => cur.node # n,
         \A t \in work : t.node # n,
         retryCh' = {rt \in retryCh : rt.node # n}
  PROVE  TokenInv'
  <1> DEFINE a == attemptCounter[n] + 1
             t == [node |-> n, attempt |-> a]
             y == [at |-> "worker", task |-> t]
  <1>1. /\ a \in Nat /\ a > 0
        /\ a \in 1..(MaxRetries[n] + 1) /\ a <= MaxRetries[n] + 1
    BY PolicyAssumption DEF TypeOK
  <1>2. work' = work \cup {t}
    BY DEF Dispatch
  <1>3. Tokens' = OthersTokens(n) \cup {y}
    BY <1>2 DEF Tokens, OthersTokens
  <1>4. /\ nodeStat' = [nodeStat EXCEPT ![n] = "running"]
        /\ attemptCounter' = [attemptCounter EXCEPT ![n] = a]
    BY DEF Dispatch
  <1>5. y.task.node = n /\ y.task.attempt = a /\ ~Waits(y)
    BY DEF Waits
  <1> HIDE DEF y, t, a
  <1> QED
    BY <1>1, <1>3, <1>4, <1>5, HoldsToken

LEMMA UnreadyHasNoToken ==
  ASSUME TypeOK, TokenInv, NEW n \in Nodes, nodeStat[n] # "running"
  PROVE  /\ \A x \in Tokens : x.task.node # n
         /\ \A t \in work : t.node # n
         /\ \A r \in results : r.node # n
         /\ \A t \in timers : t.node # n
         /\ \A rt \in retryCh : rt.node # n
         /\ cur # None => cur.node # n
  <1>1. \A x \in Tokens : x.task.node # n
    BY DEF TokenInv, OneAttemptAtATime
  <1> QED
    BY <1>1, TokenPlaces

\* What a token says of its node.
LEMMA TokenTells ==
  ASSUME TypeOK, TokenInv, NEW x \in Tokens
  PROVE  /\ nodeStat[x.task.node] = "running"
         /\ ~Waits(x) => x.task.attempt = attemptCounter[x.task.node]
         /\ Waits(x) => x.task.attempt = attemptCounter[x.task.node] + 1
         /\ x.task.attempt \in 1..(MaxRetries[x.task.node] + 1)
         /\ \A y \in Tokens : y.task.node = x.task.node => y = x
  <1>1. x.task.node \in Nodes /\ x.task.attempt \in Nat
    BY TokenTyped
  <1>2. attemptCounter[x.task.node] \in Nat
    BY <1>1 DEF TypeOK
  <1>3. nodeStat[x.task.node] = "running"
    BY <1>1 DEF TokenInv, OneAttemptAtATime
  <1>4. x.task.attempt = attemptCounter[x.task.node] + (IF Waits(x) THEN 1 ELSE 0)
    BY DEF TokenInv, OneAttemptAtATime
  <1>5. \A y \in Tokens : y.task.node = x.task.node => y = x
    BY DEF TokenInv, OneAttemptAtATime
  <1>6. x.task.attempt \in 1..(MaxRetries[x.task.node] + 1)
    BY DEF TokenInv, WithinPolicy
  <1> QED
    BY <1>2, <1>3, <1>4, <1>5, <1>6

LEMMA AdvanceTokens ==
  ASSUME TypeOK, TokenInv, NEW n \in Nodes, TryAdvance(n)
  PROVE  TokenInv'
  <1>1. UNCHANGED <<cur, results, timers, retryCh>>
    BY DEF TryAdvance
  <1>2. CASE Startable(n) /\ Dispatch(n)
    <2>0. nodeStat[n] = "unready" /\ MaxRetries[n] \in Nat
      BY <1>2, PolicyAssumption DEF Startable
    <2>1. nodeStat[n] = "unready" /\ attemptCounter[n] = 0 /\ MaxRetries[n] \in Nat
      BY <2>0 DEF TokenInv, UnreadyIsFresh, TypeOK
    <2>2. retryCh' = {rt \in retryCh : rt.node # n}
      BY <1>1, <2>1, UnreadyHasNoToken
    <2> QED
      BY <1>1, <1>2, <2>1, <2>2, UnreadyHasNoToken, DispatchHolds
  <1>3. CASE Startable(n) /\ MarkSkipped(n) /\ UNCHANGED <<attemptCounter, work>>
    <2>1. Tokens' = Tokens
      BY <1>1, <1>3 DEF Tokens
    <2>2. nodeStat[n] # "running"
      BY <1>3 DEF Startable
    <2>3. Tokens' = OthersTokens(n)
      BY <2>1, <2>2, UnreadyHasNoToken DEF OthersTokens
    <2> QED
      BY <1>3, <2>3, FreesNode DEF MarkSkipped
  <1>4. CASE UNCHANGED <<nodeStat, attemptCounter, work>>
    <2>1. Tokens' = Tokens
      BY <1>1, <1>4 DEF Tokens
    <2> QED
      BY <1>4, <2>1, StaysPut
  <1> QED
    BY <1>2, <1>3, <1>4 DEF TryAdvance

LEMMA ReceiveTokens ==
  ASSUME TypeOK, TokenInv, HandFilled, NEW r \in results, ReceiveResult(r)
  PROVE  TokenInv' /\ HandFilled'
  <1> DEFINE x == [at |-> "done", task |-> r]
             y == [at |-> "driver", task |-> r]
  <1>1. cur = None /\ r \in Result /\ r # None /\ r.node \in Nodes
    BY NilAssumption DEF ReceiveResult, Selecting, HandFilled, TypeOK, Result
  <1>2. x \in Tokens /\ x.task.node = r.node
    BY DEF Tokens
  <1>3. /\ results' = results \ {r}
        /\ UNCHANGED <<attemptCounter, work, timers, retryCh>>
    BY DEF ReceiveResult
  <1>4. \A z \in Tokens : z.task.node = r.node <=> z = x
    BY <1>2 DEF TokenInv, OneAttemptAtATime
  <1>5. OthersTokens(r.node) = Tokens \ {x}
    BY <1>2, <1>4 DEF OthersTokens
  <1>6. CASE CancelNoticed \/ Decided
    <2>1. /\ nodeStat' = [nodeStat EXCEPT ![r.node] = "done"]
          /\ cur' = None /\ pc' = "advancing"
      BY <1>1, <1>6 DEF ReceiveResult, EndAttempt
    <2>2. Tokens' = Tokens \ {x}
      BY <1>1, <1>3, <2>1 DEF Tokens
    <2> QED
      BY <1>1, <1>3, <1>5, <2>1, <2>2, FreesNode DEF HandFilled
  <1>7. CASE ~(CancelNoticed \/ Decided)
    <2>1. cur' = r /\ pc' = "handling" /\ UNCHANGED nodeStat
      BY <1>7 DEF ReceiveResult
    <2>2. Tokens' = (Tokens \ {x}) \cup {y}
      BY <1>1, <1>3, <2>1 DEF Tokens
    <2>3. /\ nodeStat[r.node] = "running"
          /\ r.attempt = attemptCounter[r.node]
          /\ r.attempt \in 1..(MaxRetries[r.node] + 1)
      BY <1>2, TokenTells DEF Waits
    <2>4. /\ nodeStat' = [nodeStat EXCEPT ![r.node] = "running"]
          /\ attemptCounter' = [attemptCounter EXCEPT ![r.node] = r.attempt]
      BY <1>3, <2>1, <2>3 DEF TypeOK
    <2>5. /\ y.task.node = r.node /\ ~Waits(y) /\ y.task.attempt = r.attempt
          /\ r.attempt \in Nat /\ r.attempt > 0
          /\ r.attempt <= MaxRetries[r.node] + 1
      BY <1>1, <2>3, PolicyAssumption DEF Waits, Result
    <2>6. Tokens' = OthersTokens(r.node) \cup {y}
      BY <1>5, <2>2
    <2>7. TokenInv'
      <3> HIDE DEF y
      <3> QED
        BY <1>1, <2>3, <2>4, <2>5, <2>6, HoldsToken
    <2> QED
      BY <1>1, <2>1, <2>7 DEF HandFilled
  <1> QED
    BY <1>6, <1>7
-----------------------------------------------------------------------------
\* The driver's hands are empty again: the node is done, or a timer holds it.
LEMMA HandleTokens ==
  ASSUME TypeOK, TokenInv, HandFilled,
         HandleCancelled \/ HandleRetry \/ HandleFailRun \/ HandlePropagate
  PROVE  TokenInv' /\ HandFilled'
  <1> DEFINE x == [at |-> "driver", task |-> cur]
  <1>1. /\ cur # None /\ cur' = None /\ pc' = "advancing"
        /\ UNCHANGED <<attemptCounter, work, results, retryCh>>
    BY DEF HandFilled, Handle, HandleCancelled, HandleRetry, HandleFailRun,
           HandlePropagate
  <1>2. cur \in Result /\ cur.node \in Nodes
    BY <1>1 DEF TypeOK, Result
  <1>3. x \in Tokens /\ x.task = cur
    BY <1>1, TokenPlaces
  <1>4. /\ nodeStat[cur.node] = "running"
        /\ cur.attempt = attemptCounter[cur.node]
        /\ \A z \in Tokens : z.task.node = cur.node => z = x
    BY <1>3, TokenTells DEF Waits
  <1>5. OthersTokens(cur.node) = Tokens \ {x}
    BY <1>3, <1>4 DEF OthersTokens
  <1>6. CASE HandleRetry
    <2> DEFINE t == [node |-> cur.node, attempt |-> cur.attempt + 1]
               y == [at |-> "timer", task |-> t]
               c == attemptCounter[cur.node]
    <2>1. timers' = timers \cup {t} /\ UNCHANGED nodeStat
      BY <1>6 DEF HandleRetry, graphVars
    <2>2. Tokens' = (Tokens \ {x}) \cup {y}
      <3>1. cur \notin {cur'} \ {None}
        BY <1>1
      <3> QED
        BY <1>1, <2>1 DEF Tokens
    <2>3. Tokens' = OthersTokens(cur.node) \cup {y}
      BY <1>5, <2>2
    <2>4. /\ c \in Nat /\ c > 0 /\ MaxRetries[cur.node] \in Nat
          /\ cur.attempt < MaxRetries[cur.node] + 1
      <3>1. c \in Nat /\ c > 0
        BY <1>2, <1>4 DEF TokenInv, UnreadyIsFresh, TypeOK
      <3> QED
        BY <1>2, <1>6, <3>1, PolicyAssumption DEF HandleRetry, RetriesLeft
    <2>5. /\ y.task.node = cur.node /\ Waits(y) /\ y.task.attempt = c + 1
          /\ c > 0 /\ c <= MaxRetries[cur.node] + 1
          /\ y.task.attempt \in 1..(MaxRetries[cur.node] + 1)
      BY <1>4, <2>4 DEF Waits
    <2>6. /\ nodeStat' = [nodeStat EXCEPT ![cur.node] = "running"]
          /\ attemptCounter' = [attemptCounter EXCEPT ![cur.node] = c]
      BY <1>1, <1>4, <2>1 DEF TypeOK
    <2> HIDE DEF y, c
    <2>7. TokenInv'
      BY <1>2, <2>3, <2>4, <2>5, <2>6, HoldsToken
    <2> QED
      BY <1>1, <2>7 DEF HandFilled
  <1>7. CASE ~HandleRetry
    <2>1. nodeStat' = [nodeStat EXCEPT ![cur.node] = "done"] /\ UNCHANGED timers
      BY <1>7 DEF HandleCancelled, HandleFailRun, HandlePropagate, EndAttempt,
                  Propagate
    <2>2. Tokens' = Tokens \ {x}
      BY <1>1, <2>1 DEF Tokens
    <2> QED
      BY <1>1, <1>2, <1>5, <2>1, <2>2, FreesNode DEF HandFilled
  <1> QED
    BY <1>6, <1>7

LEMMA RetryTokens ==
  ASSUME TypeOK, TokenInv, NEW rt \in retryCh, RetryDue(rt)
  PROVE  TokenInv'
  <1> DEFINE x == [at |-> "retryCh", task |-> rt]
  <1>1. /\ retryCh' = retryCh \ {rt}
        /\ UNCHANGED <<cur, results, timers>>
    BY DEF RetryDue, verdictVars
  <1>2. rt.node \in Nodes
    BY DEF TypeOK, Retry
  <1>3. x \in Tokens /\ x.task = rt
    BY TokenPlaces
  <1>4. /\ rt.attempt = attemptCounter[rt.node] + 1
        /\ rt.attempt \in 1..(MaxRetries[rt.node] + 1)
        /\ \A z \in Tokens : z.task.node = rt.node => z = x
    BY <1>3, TokenTells DEF Waits
  <1>5. OthersTokens(rt.node) = Tokens \ {x}
    BY <1>3, <1>4 DEF OthersTokens
  <1>6. CASE Aborts(rt)
    <2>1. /\ nodeStat' = [nodeStat EXCEPT ![rt.node] = "done"]
          /\ UNCHANGED <<attemptCounter, work>>
      BY <1>6 DEF RetryDue
    <2>2. Tokens' = Tokens \ {x}
      BY <1>1, <2>1 DEF Tokens
    <2> QED
      BY <1>2, <1>5, <2>1, <2>2, FreesNode
  <1>7. CASE ~Aborts(rt)
    <2>1. Dispatch(rt.node)
      BY <1>7 DEF RetryDue
    <2>2. attemptCounter[rt.node] <= MaxRetries[rt.node]
      BY <1>2, <1>4, PolicyAssumption DEF TypeOK
    <2>3. /\ \A t \in work : t.node # rt.node
          /\ \A r \in results : r.node # rt.node
          /\ cur # None => cur.node # rt.node
          /\ \A t \in timers : t.node # rt.node
      BY <1>4, TokenPlaces
    <2>4. \A u \in retryCh : u.node = rt.node => u = rt
      BY <1>4, TokenPlaces
    <2>5. retryCh' = {u \in retryCh : u.node # rt.node}
      BY <1>1, <2>4
    <2> QED
      BY <1>1, <1>2, <2>1, <2>2, <2>3, <2>5, DispatchHolds
  <1> QED
    BY <1>6, <1>7

LEMMA WorkerTokens ==
  ASSUME TypeOK, TokenInv, NEW t \in work, NEW out \in Outcome, WorkerEnds(t, out)
  PROVE  TokenInv'
  <1> DEFINE x == [at |-> "worker", task |-> t]
             r == [node |-> t.node, attempt |-> t.attempt, out |-> out]
             y == [at |-> "done", task |-> r]
  <1>1. /\ work' = work \ {t} /\ results' = results \cup {r}
        /\ UNCHANGED <<cur, timers, retryCh, nodeStat, attemptCounter>>
    BY DEF WorkerEnds, driverVars, graphVars
  <1>2. t.node \in Nodes /\ t.attempt \in Nat
    BY DEF TypeOK, Task
  <1>3. x \in Tokens /\ x.task = t
    BY TokenPlaces
  <1>4. /\ nodeStat[t.node] = "running"
        /\ t.attempt = attemptCounter[t.node]
        /\ t.attempt \in 1..(MaxRetries[t.node] + 1)
        /\ \A z \in Tokens : z.task.node = t.node => z = x
    BY <1>3, TokenTells DEF Waits
  <1>5. OthersTokens(t.node) = Tokens \ {x}
    BY <1>3, <1>4 DEF OthersTokens
  <1>6. Tokens' = (Tokens \ {x}) \cup {y}
    BY <1>1 DEF Tokens
  <1>7. Tokens' = OthersTokens(t.node) \cup {y}
    BY <1>5, <1>6
  <1>8. /\ y.task.node = t.node /\ ~Waits(y) /\ y.task.attempt = t.attempt
        /\ t.attempt > 0 /\ t.attempt <= MaxRetries[t.node] + 1
    BY <1>2, <1>4, PolicyAssumption DEF Waits
  <1>9. /\ nodeStat' = [nodeStat EXCEPT ![t.node] = "running"]
        /\ attemptCounter' = [attemptCounter EXCEPT ![t.node] = t.attempt]
    BY <1>1, <1>4 DEF TypeOK
  <1> HIDE DEF y
  <1> QED
    BY <1>2, <1>4, <1>7, <1>8, <1>9, HoldsToken

LEMMA TimerTokens ==
  ASSUME TypeOK, TokenInv, NEW t \in timers, TimerFires(t)
  PROVE  TokenInv'
  <1>1. PICK flagged \in BOOLEAN :
          retryCh' = retryCh \cup {[node |-> t.node, attempt |-> t.attempt,
                                    cancelled |-> flagged]}
    BY DEF TimerFires
  <1> DEFINE x == [at |-> "timer", task |-> t]
             rt == [node |-> t.node, attempt |-> t.attempt, cancelled |-> flagged]
             y == [at |-> "retryCh", task |-> rt]
             c == attemptCounter[t.node]
  <1>2. /\ timers' = timers \ {t}
        /\ UNCHANGED <<cur, work, results, nodeStat, attemptCounter>>
    BY DEF TimerFires, driverVars, graphVars
  <1>3. t.node \in Nodes /\ t.attempt \in Nat /\ c \in Nat
    BY DEF TypeOK, Task
  <1>4. x \in Tokens /\ x.task = t
    BY TokenPlaces
  <1>5. /\ nodeStat[t.node] = "running"
        /\ t.attempt = c + 1
        /\ t.attempt \in 1..(MaxRetries[t.node] + 1)
        /\ \A z \in Tokens : z.task.node = t.node => z = x
    BY <1>4, TokenTells DEF Waits
  <1>6. OthersTokens(t.node) = Tokens \ {x}
    BY <1>4, <1>5 DEF OthersTokens
  <1>7. Tokens' = (Tokens \ {x}) \cup {y}
    BY <1>1, <1>2 DEF Tokens
  <1>8. Tokens' = OthersTokens(t.node) \cup {y}
    BY <1>6, <1>7
  <1>9. /\ y.task.node = t.node /\ Waits(y) /\ y.task.attempt = c + 1
        /\ y.task.attempt \in 1..(MaxRetries[t.node] + 1)
        /\ c > 0 /\ c <= MaxRetries[t.node] + 1
    BY <1>3, <1>5, PolicyAssumption DEF Waits, TokenInv, UnreadyIsFresh
  <1>10. /\ nodeStat' = [nodeStat EXCEPT ![t.node] = "running"]
         /\ attemptCounter' = [attemptCounter EXCEPT ![t.node] = c]
    BY <1>2, <1>5 DEF TypeOK
  <1> HIDE DEF y, c
  <1> QED
    BY <1>3, <1>8, <1>9, <1>10, HoldsToken
-----------------------------------------------------------------------------
(***************************************************************************)
(* No two attempts of a node overlap.                                      *)
(***************************************************************************)
LEMMA TaskInit == Init => TaskInv
  <1> SUFFICES ASSUME Init PROVE TaskInv
    OBVIOUS
  <1>1. Tokens = {}
    BY DEF Init, Tokens
  <1>2. /\ nodeStat = [n \in Nodes |-> "unready"]
        /\ edgeState = [e \in Edges |-> "pending"]
        /\ attemptCounter = [n \in Nodes |-> 0]
        /\ pc = "load" /\ cur = None
    BY DEF Init
  <1>3. persistQ = <<>> /\ ~persistErr
    BY Zenon DEF Init
  <1>4. OneAttemptAtATime
    BY <1>1, <1>2 DEF OneAttemptAtATime
  <1>5. UnreadyIsFresh /\ WithinPolicy
    BY <1>1, <1>2, PolicyAssumption DEF UnreadyIsFresh, WithinPolicy
  <1>6. HandFilled /\ NothingYet
    BY <1>1, <1>2, <1>3 DEF HandFilled, NothingYet
  <1> QED
    BY <1>4, <1>5, <1>6 DEF TaskInv

\* The actions that leave every attempt where it is.
LEMMA QuietTokens ==
  ASSUME TaskInv,
         \/ LoadVersion \/ CreateRun \/ BeginRun \/ Settle \/ PersistFailed
         \/ ContextDone \/ LeaveLoop \/ FinishDrain \/ SaveVerdict \/ CloseRun
         \/ CallerCancels \/ Persist \/ UNCHANGED vars
  PROVE  /\ TokenInv' /\ HandFilled'
         /\ Tokens' = Tokens
         /\ UNCHANGED <<nodeStat, edgeState, attemptCounter, work, results,
                        timers, retryCh, inflight, pendingRetries>>
  <1>1. UNCHANGED <<cur, nodeStat, edgeState, attemptCounter, work, results,
                    timers, retryCh, inflight, pendingRetries>>
    BY DEF LoadVersion, CreateRun, BeginRun, Settle, PersistFailed, ContextDone,
           LeaveLoop, FinishDrain, SaveVerdict, CloseRun, CallerCancels, Persist,
           vars, driverVars, graphVars, taskVars
  <1>2. Tokens' = Tokens
    BY <1>1 DEF Tokens
  <1>3. pc' = "handling" <=> pc = "handling"
    <2>1. CASE LoadVersion \/ CreateRun \/ BeginRun \/ Settle \/ PersistFailed \/ ContextDone
      BY <2>1 DEF LoadVersion, CreateRun, BeginRun, GiveUp, Settle, PersistFailed,
                  ContextDone, Selecting
    <2>2. CASE LeaveLoop \/ FinishDrain \/ SaveVerdict \/ CloseRun
      BY <2>2 DEF LeaveLoop, FinishDrain, SaveVerdict, CloseRun, GiveUp
    <2>3. CASE CallerCancels \/ Persist \/ UNCHANGED vars
      BY <2>3 DEF CallerCancels, Persist, vars, driverVars
    <2> QED
      BY <2>1, <2>2, <2>3
  <1>4. TokenInv'
    BY <1>1, <1>2, StaysPut DEF TaskInv, TokenInv
  <1> QED
    BY <1>1, <1>2, <1>3, <1>4 DEF TaskInv, HandFilled

LEMMA TaskStep == TypeOK /\ TaskInv /\ [Next]_vars => TaskInv'
  <1> SUFFICES ASSUME TypeOK, TaskInv, [Next]_vars PROVE TaskInv'
    OBVIOUS
  <1>1. TokenInv /\ HandFilled /\ NothingYet
    BY DEF TaskInv, TokenInv
  <1>2. SUFFICES TokenInv' /\ HandFilled' /\ NothingYet'
    BY DEF TaskInv, TokenInv
  <1>3. CASE LoadVersion \/ CreateRun
    <2>1. /\ pc \in {"load", "create"}
          /\ UNCHANGED <<persistQ, persistErr>>
      BY <1>3 DEF LoadVersion, CreateRun, storeVars
    <2>2. NothingYet'
      BY <1>1, <1>3, <2>1, QuietTokens DEF NothingYet
    <2> QED
      BY <1>3, <2>2, QuietTokens
  <1>4. CASE \/ BeginRun \/ Settle \/ PersistFailed \/ ContextDone \/ LeaveLoop
             \/ FinishDrain \/ SaveVerdict \/ CloseRun
    <2>1. pc' \notin {"load", "create", "begin"}
      BY <1>4 DEF BeginRun, GiveUp, Settle, PersistFailed, ContextDone, Selecting,
                  LeaveLoop, FinishDrain, SaveVerdict, CloseRun
    <2> QED
      BY <1>4, <2>1, QuietTokens DEF NothingYet
  <1>5. CASE CallerCancels \/ Persist \/ UNCHANGED vars
    <2>1. pc' = pc
      BY <1>5 DEF CallerCancels, Persist, vars, driverVars
    <2>2. \/ UNCHANGED <<persistQ, persistErr>>
          \/ persistQ # <<>>
      BY <1>5 DEF CallerCancels, Persist, vars, storeVars
    <2>3. NothingYet'
      BY <1>1, <1>5, <2>1, <2>2, QuietTokens DEF NothingYet
    <2> QED
      BY <1>5, <2>3, QuietTokens
  <1>6. CASE \E n \in todo : TryAdvance(n)
    <2>1. PICK n \in todo : TryAdvance(n)
      BY <1>6
    <2>2. n \in Nodes /\ pc = "advancing" /\ UNCHANGED <<pc, cur>>
      BY <2>1 DEF TryAdvance, TypeOK
    <2> QED
      BY <1>1, <2>1, <2>2, AdvanceTokens DEF HandFilled, NothingYet
  <1>7. CASE \E r \in results : ReceiveResult(r)
    <2>1. pc' \in {"advancing", "handling"}
      BY <1>7 DEF ReceiveResult
    <2> QED
      BY <1>1, <1>7, <2>1, ReceiveTokens DEF NothingYet
  <1>8. CASE HandleCancelled \/ HandleRetry \/ HandleFailRun \/ HandlePropagate
    <2>1. pc' = "advancing"
      BY <1>8 DEF HandleCancelled, HandleRetry, HandleFailRun, HandlePropagate,
                  Handle
    <2> QED
      BY <1>1, <1>8, <2>1, HandleTokens DEF NothingYet
  <1>9. CASE \E rt \in retryCh : RetryDue(rt)
    <2>1. pc = "loop" /\ UNCHANGED <<pc, cur>>
      BY <1>9 DEF RetryDue, Selecting
    <2> QED
      BY <1>1, <1>9, <2>1, RetryTokens DEF HandFilled, NothingYet
  <1>10. CASE \E n \in Nodes : Worker(n) \/ RetryTimer(n)
    <2>1. UNCHANGED <<pc, cur>>
      BY <1>10 DEF Worker, WorkerEnds, RetryTimer, TimerFires, driverVars
    <2>2. Tokens # {}
      BY <1>10, TokenPlaces DEF Worker, RetryTimer
    <2>3. TokenInv'
      <3>1. CASE \E t \in work, out \in Outcome : WorkerEnds(t, out)
        BY <1>1, <3>1, WorkerTokens
      <3>2. CASE \E t \in timers : TimerFires(t)
        BY <1>1, <3>2, TimerTokens
      <3> QED
        BY <1>10, <3>1, <3>2 DEF Worker, RetryTimer
    <2> QED
      BY <1>1, <2>1, <2>2, <2>3 DEF HandFilled, NothingYet
  <1> QED
    BY <1>3, <1>4, <1>5, <1>6, <1>7, <1>8, <1>9, <1>10 DEF Next, Driver, Over

LEMMA TasksAlways == Spec => []TaskInv
  BY TaskInit, TaskStep, TypeCorrect, PTL DEF Spec

(***************************************************************************)
(* However results, timers, retries and cancellations interleave, a node   *)
(* is running exactly while it has one token, which carries the attempt    *)
(* the driver counted, so no two attempts of a node ever overlap           *)
(* (engine.go:158, scheduler.go:126).                                      *)
(***************************************************************************)
THEOREM AttemptsNeverOverlap == Spec => []OneAttemptAtATime
  <1>1. TaskInv => OneAttemptAtATime
    BY DEF TaskInv
  <1> QED
    BY <1>1, TasksAlways, PTL
-----------------------------------------------------------------------------
(***************************************************************************)
(* The counters.                                                           *)
(***************************************************************************)
\* A worker's result is not yet in done, a timer's event not yet in retryCh,
\* and a new attempt or timer is not there yet: the tokens say so.
LEMMA OnePlace ==
  ASSUME TypeOK, TokenInv
  PROVE  /\ \A t \in work, r \in results : t.node # r.node
         /\ \A t \in timers, rt \in retryCh : t.node # rt.node
         /\ \A t \in timers : cur # None => t.node # cur.node
         /\ \A t \in work, rt \in retryCh : t.node # rt.node
  <1>1. ASSUME NEW x \in Tokens, NEW y \in Tokens, x.at # y.at
        PROVE  x.task.node # y.task.node
    BY <1>1, TokenTells
  <1>2. \A t \in work, r \in results : t.node # r.node
    BY <1>1, TokenPlaces
  <1>3. \A t \in timers, rt \in retryCh : t.node # rt.node
    BY <1>1, TokenPlaces
  <1>4. \A t \in timers : cur # None => t.node # cur.node
    BY <1>1, TokenPlaces
  <1>5. \A t \in work, rt \in retryCh : t.node # rt.node
    BY <1>1, TokenPlaces
  <1> QED
    BY <1>2, <1>3, <1>4, <1>5

LEMMA CountInit == Init => CountInv
  BY FS_EmptySet DEF Init, CountInv, CountersExact

\* Adding and removing one element, with the numbers they give.
LEMMA AddOne ==
  ASSUME NEW S, NEW x, IsFiniteSet(S), x \notin S
  PROVE  /\ IsFiniteSet(S \cup {x})
         /\ Cardinality(S) \in Nat
         /\ Cardinality(S \cup {x}) = Cardinality(S) + 1
  BY FS_AddElement, FS_CardinalityType

LEMMA RemoveOne ==
  ASSUME NEW S, NEW x, IsFiniteSet(S), x \in S
  PROVE  /\ IsFiniteSet(S \ {x})
         /\ Cardinality(S) \in Nat
         /\ Cardinality(S \ {x}) = Cardinality(S) - 1
  BY FS_RemoveElement, FS_CardinalityType

LEMMA DispatchCounts ==
  ASSUME CountInv, NEW n \in Nodes, Dispatch(n), \A t \in work : t.node # n
  PROVE  /\ IsFiniteSet(work')
         /\ inflight' = inflight + 1
         /\ Cardinality(work) \in Nat
         /\ Cardinality(work') = Cardinality(work) + 1
  <1> DEFINE t == [node |-> n, attempt |-> attemptCounter[n] + 1]
  <1>1. work' = work \cup {t} /\ t \notin work /\ inflight' = inflight + 1
    BY DEF Dispatch
  <1> HIDE DEF t
  <1> QED
    BY <1>1, AddOne DEF CountInv

LEMMA CountStep == TypeOK /\ TaskInv /\ CountInv /\ [Next]_vars => CountInv'
  <1> SUFFICES ASSUME TypeOK, TaskInv, CountInv, [Next]_vars PROVE CountInv'
    OBVIOUS
  <1>1. TokenInv
    BY DEF TaskInv, TokenInv
  <1>2. /\ IsFiniteSet(work) /\ IsFiniteSet(results)
        /\ IsFiniteSet(timers) /\ IsFiniteSet(retryCh)
        /\ Cardinality(work) \in Nat /\ Cardinality(results) \in Nat
        /\ Cardinality(timers) \in Nat /\ Cardinality(retryCh) \in Nat
        /\ inflight = Cardinality(work) + Cardinality(results)
        /\ pendingRetries = Cardinality(timers) + Cardinality(retryCh)
    BY FS_CardinalityType DEF CountInv, CountersExact
  <1>3. CASE \/ LoadVersion \/ CreateRun \/ BeginRun \/ Settle \/ PersistFailed
             \/ ContextDone \/ LeaveLoop \/ FinishDrain \/ SaveVerdict \/ CloseRun
             \/ CallerCancels \/ Persist \/ UNCHANGED vars
    BY <1>3, QuietTokens DEF CountInv, CountersExact
  <1>4. CASE \E n \in todo : TryAdvance(n)
    <2>1. PICK n \in todo : TryAdvance(n)
      BY <1>4
    <2>2. /\ n \in Nodes
          /\ UNCHANGED <<pendingRetries, results, timers, retryCh>>
      BY <2>1 DEF TryAdvance, TypeOK
    <2>3. CASE nodeStat[n] = "unready" /\ Dispatch(n)
      <3>1. \A t \in work : t.node # n
        BY <1>1, <2>2, <2>3, UnreadyHasNoToken
      <3> QED
        BY <1>2, <2>2, <2>3, <3>1, DispatchCounts DEF CountInv, CountersExact
    <2>4. CASE UNCHANGED <<inflight, work>>
      BY <2>2, <2>4 DEF CountInv, CountersExact
    <2> QED
      BY <2>1, <2>3, <2>4 DEF TryAdvance, Startable
  <1>5. CASE \E r \in results : ReceiveResult(r)
    <2>1. PICK r \in results : ReceiveResult(r)
      BY <1>5
    <2>2. /\ results' = results \ {r} /\ inflight' = inflight - 1
          /\ UNCHANGED <<pendingRetries, work, timers, retryCh>>
      BY <2>1 DEF ReceiveResult
    <2>3. /\ IsFiniteSet(results')
          /\ Cardinality(results') = Cardinality(results) - 1
      BY <1>2, <2>2, RemoveOne
    <2> QED
      BY <1>2, <2>2, <2>3 DEF CountInv, CountersExact
  <1>6. CASE HandleRetry
    <2> DEFINE t == [node |-> cur.node, attempt |-> cur.attempt + 1]
    <2>1. /\ timers' = timers \cup {t} /\ pendingRetries' = pendingRetries + 1
          /\ UNCHANGED <<inflight, work, results, retryCh>>
      BY <1>6 DEF HandleRetry, Handle
    <2>2. t \notin timers
      BY <1>1, <1>6, OnePlace DEF HandleRetry, Handle, TaskInv, HandFilled
    <2> HIDE DEF t
    <2>3. IsFiniteSet(timers') /\ Cardinality(timers') = Cardinality(timers) + 1
      BY <1>2, <2>1, <2>2, AddOne
    <2> QED
      BY <1>2, <2>1, <2>3 DEF CountInv, CountersExact
  <1>7. CASE HandleCancelled \/ HandleFailRun \/ HandlePropagate
    BY <1>7 DEF HandleCancelled, HandleFailRun, HandlePropagate, Handle,
                CountInv, CountersExact
  <1>8. CASE \E rt \in retryCh : RetryDue(rt)
    <2>1. PICK rt \in retryCh : RetryDue(rt)
      BY <1>8
    <2>2. /\ retryCh' = retryCh \ {rt} /\ pendingRetries' = pendingRetries - 1
          /\ UNCHANGED <<results, timers>>
      BY <2>1 DEF RetryDue
    <2>3. /\ IsFiniteSet(retryCh')
          /\ Cardinality(retryCh') = Cardinality(retryCh) - 1
      BY <1>2, <2>2, RemoveOne
    <2>4. CASE Dispatch(rt.node)
      <3>1. rt.node \in Nodes /\ \A t \in work : t.node # rt.node
        BY <1>1, OnePlace DEF TypeOK, Retry
      <3> QED
        BY <1>2, <2>2, <2>3, <2>4, <3>1, DispatchCounts DEF CountInv, CountersExact
    <2>5. CASE UNCHANGED <<inflight, work>>
      BY <1>2, <2>2, <2>3, <2>5 DEF CountInv, CountersExact
    <2> QED
      BY <2>1, <2>4, <2>5 DEF RetryDue
  <1>9. CASE \E n \in Nodes : Worker(n)
    <2>1. PICK t \in work, out \in Outcome : WorkerEnds(t, out)
      BY <1>9 DEF Worker
    <2> DEFINE r == [node |-> t.node, attempt |-> t.attempt, out |-> out]
    <2>2. /\ work' = work \ {t} /\ results' = results \cup {r}
          /\ UNCHANGED <<inflight, pendingRetries, timers, retryCh>>
      BY <2>1 DEF WorkerEnds, driverVars
    <2>3. r \notin results
      BY <1>1, OnePlace
    <2> HIDE DEF r
    <2>4. /\ IsFiniteSet(work') /\ Cardinality(work') = Cardinality(work) - 1
          /\ IsFiniteSet(results')
          /\ Cardinality(results') = Cardinality(results) + 1
      BY <1>2, <2>2, <2>3, AddOne, RemoveOne
    <2> QED
      BY <1>2, <2>2, <2>4 DEF CountInv, CountersExact
  <1>10. CASE \E n \in Nodes : RetryTimer(n)
    <2>1. PICK t \in timers : TimerFires(t)
      BY <1>10 DEF RetryTimer
    <2>2. PICK flagged \in BOOLEAN :
            retryCh' = retryCh \cup {[node |-> t.node, attempt |-> t.attempt,
                                      cancelled |-> flagged]}
      BY <2>1 DEF TimerFires
    <2> DEFINE rt == [node |-> t.node, attempt |-> t.attempt, cancelled |-> flagged]
    <2>3. /\ timers' = timers \ {t} /\ retryCh' = retryCh \cup {rt}
          /\ UNCHANGED <<inflight, pendingRetries, work, results>>
      BY <2>1, <2>2 DEF TimerFires, driverVars
    <2>4. rt \notin retryCh
      BY <1>1, OnePlace
    <2> HIDE DEF rt
    <2>5. /\ IsFiniteSet(timers') /\ Cardinality(timers') = Cardinality(timers) - 1
          /\ IsFiniteSet(retryCh')
          /\ Cardinality(retryCh') = Cardinality(retryCh) + 1
      BY <1>2, <2>3, <2>4, AddOne, RemoveOne
    <2> QED
      BY <1>2, <2>3, <2>5 DEF CountInv, CountersExact
  <1> QED
    BY <1>3, <1>4, <1>5, <1>6, <1>7, <1>8, <1>9, <1>10 DEF Next, Driver, Over

LEMMA CountsAlways == Spec => []CountInv
  BY CountInit, CountStep, TasksAlways, TypeCorrect, PTL DEF Spec

(***************************************************************************)
(* The counters of the loop's condition are exact, for any number of       *)
(* workers, timers and retries under way: the loop can end neither early,  *)
(* with senders left behind, nor never (engine.go:175).                    *)
(***************************************************************************)
THEOREM LoopCountersExact == Spec => []CountersExact
  <1>1. CountInv => CountersExact
    BY DEF CountInv
  <1> QED
    BY <1>1, CountsAlways, PTL
-----------------------------------------------------------------------------
(***************************************************************************)
(* The end of the loop.                                                    *)
(***************************************************************************)
EndInv == NothingMore /\ NothingLeftBehind

LEMMA NoTokens ==
  Tokens = {} <=> /\ work = {} /\ results = {} /\ timers = {} /\ retryCh = {}
                  /\ cur = None
  <1>1. Tokens = {} => /\ work = {} /\ results = {} /\ timers = {} /\ retryCh = {}
                       /\ cur = None
    BY TokenPlaces
  <1> QED
    BY <1>1 DEF Tokens

LEMMA EndInit == Init => EndInv
  BY DEF Init, EndInv, NothingMore, NothingLeftBehind

LEMMA EndStep ==
  TypeOK /\ TaskInv /\ CountInv /\ EndInv /\ [Next]_vars => EndInv'
  <1> SUFFICES ASSUME TypeOK, TaskInv, CountInv, EndInv, [Next]_vars PROVE EndInv'
    OBVIOUS
  <1> DEFINE afterLoop == {"draining", "finalize", "closing", "returned", "failed"}
  <1>1. CASE LoadVersion \/ CreateRun \/ BeginRun
    <2>1. Tokens = {} /\ persistQ = <<>> /\ ~persistErr
      BY <1>1 DEF LoadVersion, CreateRun, BeginRun, TaskInv, NothingYet
    <2>2. Tokens' = {} /\ UNCHANGED <<taskVars, persistQ, persistErr>>
      BY <1>1, <2>1, QuietTokens DEF LoadVersion, CreateRun, BeginRun, storeVars
    <2> QED
      BY <2>1, <2>2, NoTokens DEF EndInv, NothingMore, NothingLeftBehind, taskVars
  <1>2. CASE LeaveLoop
    <2>1. ~Busy /\ pc = "loop" /\ pc' = "draining"
      BY <1>2 DEF LeaveLoop
    <2>2. /\ Cardinality(work) \in Nat /\ Cardinality(results) \in Nat
          /\ Cardinality(timers) \in Nat /\ Cardinality(retryCh) \in Nat
      BY FS_CardinalityType DEF CountInv
    <2>3. /\ Cardinality(work) = 0 /\ Cardinality(results) = 0
          /\ Cardinality(timers) = 0 /\ Cardinality(retryCh) = 0
      BY <2>1, <2>2 DEF Busy, CountInv, CountersExact
    <2>4. work = {} /\ results = {} /\ timers = {} /\ retryCh = {} /\ cur = None
      BY <2>1, <2>3, FS_EmptySet DEF CountInv, TaskInv, HandFilled
    <2>5. Tokens = {}
      BY <2>4, NoTokens
    <2> QED
      BY <1>2, <2>1, <2>5, QuietTokens DEF EndInv, NothingMore, NothingLeftBehind
  <1>3. CASE FinishDrain
    <2>1. Tokens = {} /\ persistQ = <<>>
      BY <1>3 DEF FinishDrain, Drained, EndInv, NothingMore
    <2>2. Tokens' = {} /\ persistQ' = <<>> /\ ~persistErr' /\ UNCHANGED taskVars
      BY <1>3, <2>1, QuietTokens DEF FinishDrain
    <2> QED
      BY <2>1, <2>2, NoTokens DEF EndInv, NothingMore, NothingLeftBehind, taskVars
  <1>4. CASE SaveVerdict \/ CloseRun
    <2>1. /\ pc \in {"finalize", "closing"}
          /\ UNCHANGED <<taskVars, persistQ, persistErr>>
      BY <1>4 DEF SaveVerdict, CloseRun
    <2>2. Tokens' = {}
      BY <1>4, <2>1, QuietTokens DEF EndInv, NothingMore
    <2> QED
      BY <2>1, <2>2 DEF EndInv, NothingLeftBehind, NothingMore, taskVars
  <1>5. CASE Settle \/ PersistFailed \/ ContextDone
    <2>1. pc' \notin afterLoop
      BY <1>5 DEF Settle, PersistFailed, ContextDone, Selecting
    <2> QED
      BY <2>1 DEF EndInv, NothingMore, NothingLeftBehind
  <1>6. CASE CallerCancels \/ UNCHANGED vars
    <2>1. UNCHANGED <<pc, taskVars, storeVars>>
      BY <1>6 DEF CallerCancels, vars, driverVars
    <2> QED
      BY <1>6, <2>1, QuietTokens
         DEF EndInv, NothingMore, NothingLeftBehind, taskVars, storeVars
  <1>7. CASE Persist
    <2>1. UNCHANGED <<pc, taskVars>> /\ persistQ # <<>>
      BY <1>7 DEF Persist, driverVars
    <2> QED
      BY <1>7, <2>1, QuietTokens DEF EndInv, NothingMore, NothingLeftBehind
  <1>8. CASE \E n \in todo : TryAdvance(n)
    BY <1>8 DEF TryAdvance, EndInv, NothingMore, NothingLeftBehind
  <1>9. CASE \E r \in results : ReceiveResult(r)
    BY <1>9 DEF ReceiveResult, EndInv, NothingMore, NothingLeftBehind
  <1>10. CASE HandleCancelled \/ HandleRetry \/ HandleFailRun \/ HandlePropagate
    BY <1>10 DEF HandleCancelled, HandleRetry, HandleFailRun, HandlePropagate,
                 Handle, EndInv, NothingMore, NothingLeftBehind
  <1>11. CASE \E rt \in retryCh : RetryDue(rt)
    BY <1>11 DEF RetryDue, Selecting, EndInv, NothingMore, NothingLeftBehind
  <1>12. CASE \E n \in Nodes : Worker(n) \/ RetryTimer(n)
    <2>1. pc' = pc
      BY <1>12 DEF Worker, WorkerEnds, RetryTimer, TimerFires, driverVars
    <2>2. Tokens # {}
      BY <1>12, TokenPlaces DEF Worker, RetryTimer
    <2> QED
      BY <2>1, <2>2 DEF EndInv, NothingMore, NothingLeftBehind
  <1> QED
    BY <1>1, <1>2, <1>3, <1>4, <1>5, <1>6, <1>7, <1>8, <1>9, <1>10, <1>11,
       <1>12 DEF Next, Driver, Over

LEMMA EndAlways == Spec => []EndInv
  BY EndInit, EndStep, TasksAlways, CountsAlways, TypeCorrect, PTL DEF Spec

(***************************************************************************)
(* When a run comes to its verdict, or Start returns an error, nothing it  *)
(* started is left: no worker, no unread result, no timer or retry event,  *)
(* no write and no unread error (engine.go:175, 209-217).                  *)
(***************************************************************************)
THEOREM NothingIsLeftBehind == Spec => []NothingLeftBehind
  <1>1. EndInv => NothingLeftBehind
    BY DEF EndInv
  <1> QED
    BY <1>1, EndAlways, PTL
-----------------------------------------------------------------------------
(***************************************************************************)
(* The graph.                                                              *)
(***************************************************************************)
\* A node is judged by its in-edges alone.
LEMMA RipeByInEdges ==
  ASSUME NEW n \in Nodes, NEW es, NEW fs, \A e \in InEdges(n) : es[e] = fs[e]
  PROVE  /\ ReadyToRun(n, es) <=> ReadyToRun(n, fs)
         /\ ReadyToSkip(n, es) <=> ReadyToSkip(n, fs)
  BY DEF ReadyToRun, ReadyToSkip

LEMMA TargetsOf ==
  ASSUME NEW n \in Nodes, NEW m, NEW e \in InEdges(m), e \in OutEdges(n)
  PROVE  m \in Targets(n)
  BY DEF InEdges, OutEdges, Targets

\* The out-edges of n are resolved, and its targets are owed.
LEMMA ResolveOut ==
  ASSUME TypeOK, GraphInv, NEW n \in Nodes, nodeStat[n] # "done",
         nodeStat' = [nodeStat EXCEPT ![n] = "done"],
         edgeState' \in [Edges -> EdgeStates],
         \A e \in Edges \ OutEdges(n) : edgeState'[e] = edgeState[e],
         pc \in {"advancing", "handling"},
         \A m \in Nodes \ {n} : m \in todo => m \in todo',
         Targets(n) \subseteq todo'
  PROVE  GraphInv' /\ \A e \in Edges : edgeState[e] # "pending" =>
                                          edgeState'[e] = edgeState[e]
  <1>1. \A e \in Edges : e \in OutEdges(n) <=> EdgeFrom[e] = n
    BY DEF OutEdges
  <1>2. \A e \in OutEdges(n) : edgeState[e] = "pending"
    BY <1>1 DEF GraphInv, ResolvedByDone, OutEdges
  <1>3. ResolvedByDone'
    BY <1>1, GraphAssumption DEF GraphInv, ResolvedByDone, TypeOK
  <1>4. ASSUME NEW m \in Nodes, nodeStat'[m] = "unready", Ripe(m)'
        PROVE  m \in todo'
    <2>1. m # n /\ nodeStat[m] = "unready"
      BY <1>4 DEF TypeOK
    <2>2. CASE m \in Targets(n)
      BY <2>2
    <2>3. CASE m \notin Targets(n)
      <3>1. \A e \in InEdges(m) : edgeState'[e] = edgeState[e]
        BY <2>3, TargetsOf DEF InEdges
      <3>2. Ripe(m)
        BY <1>4, <3>1, RipeByInEdges DEF Ripe
      <3> QED
        BY <2>1, <3>2 DEF GraphInv, RipeIsOwed
    <2> QED
      BY <2>2, <2>3
  <1> QED
    BY <1>2, <1>3, <1>4 DEF GraphInv, RipeIsOwed

\* Node n, which has started, is done or runs on; the graph stays.
LEMMA KeepsGraph ==
  ASSUME TypeOK, GraphInv, UNCHANGED <<edgeState, todo>>,
         \/ nodeStat' = nodeStat
         \/ \E n \in Nodes, s \in {"running", "done"} :
              nodeStat[n] = "running" /\ nodeStat' = [nodeStat EXCEPT ![n] = s],
         pc' \in {"advancing", "loop", "handling", "draining"} =>
           pc \in {"advancing", "loop", "handling", "draining"}
  PROVE  GraphInv'
  <1>1. \A m \in Nodes : /\ nodeStat[m] = "done" => nodeStat'[m] = "done"
                         /\ nodeStat'[m] = "unready" => nodeStat[m] = "unready"
    BY DEF TypeOK
  <1>2. ResolvedByDone'
    BY <1>1, GraphAssumption DEF GraphInv, ResolvedByDone
  <1>3. RipeIsOwed'
    BY <1>1 DEF GraphInv, RipeIsOwed, Ripe
  <1> QED
    BY <1>2, <1>3 DEF GraphInv

LEMMA GraphInit == Init => GraphInv
  BY DEF Init, GraphInv, ResolvedByDone, RipeIsOwed

LEMMA AdvanceGraph ==
  ASSUME TypeOK, TypeOK', GraphInv, NEW n \in todo, TryAdvance(n)
  PROVE  GraphInv' /\ \A e \in Edges : edgeState[e] # "pending" =>
                                          edgeState'[e] = edgeState[e]
  <1>1. n \in Nodes /\ pc = "advancing" /\ pc' = pc
    BY DEF TryAdvance, TypeOK
  <1>2. CASE Startable(n) /\ Dispatch(n) /\ todo' = todo \ {n} /\ UNCHANGED edgeState
    <2>1. nodeStat[n] = "unready" /\ nodeStat' = [nodeStat EXCEPT ![n] = "running"]
      BY <1>2 DEF Startable, Dispatch
    <2>2. \A m \in Nodes \ {n} : nodeStat'[m] = nodeStat[m]
      BY <2>1 DEF TypeOK
    <2>3. ResolvedByDone'
      BY <1>1, <1>2, <2>1, <2>2, GraphAssumption DEF GraphInv, ResolvedByDone
    <2>4. nodeStat'[n] = "running"
      BY <1>1, <2>1 DEF TypeOK
    <2>5. RipeIsOwed'
      BY <1>1, <1>2, <2>2, <2>4 DEF GraphInv, RipeIsOwed, Ripe
    <2> QED
      BY <1>2, <2>3, <2>5 DEF GraphInv
  <1>3. CASE /\ Startable(n) /\ MarkSkipped(n)
             /\ edgeState' = [e \in Edges |-> Killed(n, e)]
             /\ todo' = (todo \ {n}) \cup Owed(n)
    <2>1. nodeStat[n] # "done" /\ nodeStat' = [nodeStat EXCEPT ![n] = "done"]
      BY <1>3 DEF Startable, MarkSkipped
    <2>2. /\ edgeState' \in [Edges -> EdgeStates]
          /\ \A e \in Edges \ OutEdges(n) : edgeState'[e] = edgeState[e]
      BY <1>3 DEF Killed, TypeOK
    <2>3. Targets(n) \subseteq todo' /\ \A m \in Nodes \ {n} : m \in todo => m \in todo'
      BY <1>3 DEF Owed
    <2> QED
      BY <1>1, <2>1, <2>2, <2>3, ResolveOut
  <1>4. CASE /\ Startable(n) => ~ReadyToRun(n, edgeState) /\ ~ReadyToSkip(n, edgeState)
             /\ todo' = todo \ {n}
             /\ UNCHANGED <<edgeState, nodeStat>>
    <2>1. ResolvedByDone'
      BY <1>4 DEF GraphInv, ResolvedByDone
    <2>2. RipeIsOwed'
      BY <1>1, <1>4 DEF GraphInv, RipeIsOwed, Ripe, Startable
    <2> QED
      BY <1>4, <2>1, <2>2 DEF GraphInv
  <1> QED
    BY <1>2, <1>3, <1>4 DEF TryAdvance

LEMMA PropagateGraph ==
  ASSUME TypeOK, TypeOK', TaskInv, DecisionInv, GraphInv, HandlePropagate
  PROVE  GraphInv' /\ \A e \in Edges : edgeState[e] # "pending" =>
                                          edgeState'[e] = edgeState[e]
  <1>1. /\ cur # None /\ pc = "handling" /\ pc' = "advancing"
        /\ todo = {}
    BY DEF HandlePropagate, Handle, TaskInv, HandFilled, DecisionInv,
           AdvancesUndecided
  <1>2. cur.node \in Nodes
    BY <1>1 DEF TypeOK, Result
  <1>3. nodeStat[cur.node] = "running"
    BY <1>1, TokenPlaces, TokenTells DEF TaskInv, TokenInv
  <1>4. PICK port, status, fb : Propagate(port, status, fb)
    BY DEF HandlePropagate
  <1>5. nodeStat' = [nodeStat EXCEPT ![cur.node] = "done"]
    BY <1>4 DEF Propagate
  <1>6. CASE cur.node \in EndNodes
    <2>1. UNCHANGED <<edgeState, todo>>
      BY <1>4, <1>6 DEF Propagate
    <2> QED
      BY <1>1, <1>2, <1>3, <1>5, <2>1, KeepsGraph
  <1>7. CASE cur.node \notin EndNodes
    <2>1. /\ edgeState' = [e \in Edges |-> Fired(cur.node, port, e)]
          /\ todo' = Owed(cur.node)
      BY <1>4, <1>7 DEF Propagate
    <2>2. \A e \in Edges \ OutEdges(cur.node) : edgeState'[e] = edgeState[e]
      BY <2>1 DEF Fired
    <2>3. edgeState' \in [Edges -> EdgeStates] /\ nodeStat[cur.node] # "done"
      BY <1>3 DEF TypeOK
    <2>4. Targets(cur.node) \subseteq todo'
      BY <2>1 DEF Owed
    <2> QED
      BY <1>1, <1>2, <1>5, <2>2, <2>3, <2>4, ResolveOut
  <1> QED
    BY <1>6, <1>7

\* The other steps: no edge changes.
LEMMA StillGraph ==
  ASSUME TypeOK, TaskInv, GraphInv, [Next]_vars,
         ~(\E n \in todo : TryAdvance(n)), ~HandlePropagate
  PROVE  GraphInv' /\ edgeState' = edgeState
  <1> DEFINE inLoop == {"advancing", "loop", "handling", "draining"}
  <1>1. CASE BeginRun
    <2>1. /\ todo' = Roots \/ pc' \notin inLoop
          /\ UNCHANGED <<nodeStat, edgeState>>
      BY <1>1 DEF BeginRun, GiveUp, graphVars
    <2>2. edgeState = [e \in Edges |-> "pending"]
      BY <1>1 DEF BeginRun, TaskInv, NothingYet
    <2>3. ResolvedByDone'
      BY <2>1 DEF GraphInv, ResolvedByDone
    <2>4. ASSUME NEW m \in Nodes, Ripe(m)'
          PROVE  m \in Roots
      <3>1. \A e \in InEdges(m) : edgeState'[e] = "pending"
        BY <2>1, <2>2 DEF InEdges
      <3>2. InEdges(m) = {}
        BY <2>4, <3>1 DEF Ripe, ReadyToRun, ReadyToSkip
      <3> QED
        BY <3>2 DEF Roots
    <2>5. RipeIsOwed'
      BY <2>1, <2>4 DEF RipeIsOwed
    <2> QED
      BY <2>1, <2>3, <2>5 DEF GraphInv
  <1>2. CASE \/ LoadVersion \/ CreateRun \/ Settle \/ PersistFailed \/ ContextDone
             \/ LeaveLoop \/ FinishDrain \/ SaveVerdict \/ CloseRun
             \/ CallerCancels \/ Persist \/ UNCHANGED vars
    <2>1. pc' \in inLoop => pc \in inLoop
      <3>1. CASE LoadVersion \/ CreateRun \/ Settle \/ PersistFailed \/ ContextDone
        BY <3>1 DEF LoadVersion, CreateRun, GiveUp, Settle, PersistFailed,
                    ContextDone, Selecting
      <3>2. CASE LeaveLoop \/ FinishDrain \/ SaveVerdict \/ CloseRun
        BY <3>2 DEF LeaveLoop, FinishDrain, SaveVerdict, CloseRun, GiveUp
      <3>3. CASE CallerCancels \/ Persist \/ UNCHANGED vars
        BY <3>3 DEF CallerCancels, Persist, vars, driverVars
      <3> QED
        BY <1>2, <3>1, <3>2, <3>3
    <2>2. UNCHANGED <<edgeState, nodeStat>>
      BY <1>2, QuietTokens
    <2>3. UNCHANGED todo
      BY <1>2 DEF LoadVersion, CreateRun, Settle, PersistFailed, ContextDone,
                  LeaveLoop, FinishDrain, SaveVerdict, CloseRun, CallerCancels,
                  Persist, vars, driverVars
    <2> QED
      BY <2>1, <2>2, <2>3, KeepsGraph
  <1>3. CASE \E r \in results : ReceiveResult(r)
    <2>1. PICK r \in results : ReceiveResult(r)
      BY <1>3
    <2>2. /\ r.node \in Nodes /\ nodeStat[r.node] = "running"
          /\ pc = "loop" /\ UNCHANGED <<edgeState, todo>>
      BY <2>1, TokenPlaces, TokenTells
         DEF TaskInv, TokenInv, TypeOK, Result, ReceiveResult, Selecting
    <2>3. \/ nodeStat' = nodeStat
          \/ nodeStat' = [nodeStat EXCEPT ![r.node] = "done"]
      BY <2>1 DEF ReceiveResult, EndAttempt
    <2> QED
      BY <2>2, <2>3, KeepsGraph
  <1>4. CASE HandleCancelled \/ HandleRetry \/ HandleFailRun
    <2>1. /\ pc = "handling" /\ cur # None /\ UNCHANGED <<edgeState, todo>>
      BY <1>4 DEF HandleCancelled, HandleRetry, HandleFailRun, Handle, graphVars,
                  TaskInv, HandFilled
    <2>2. cur.node \in Nodes /\ nodeStat[cur.node] = "running"
      BY <2>1, TokenPlaces, TokenTells DEF TaskInv, TokenInv, TypeOK, Result
    <2>3. \/ nodeStat' = nodeStat
          \/ nodeStat' = [nodeStat EXCEPT ![cur.node] = "done"]
      BY <1>4 DEF HandleCancelled, HandleRetry, HandleFailRun, EndAttempt, graphVars
    <2> QED
      BY <2>1, <2>2, <2>3, KeepsGraph
  <1>5. CASE \E rt \in retryCh : RetryDue(rt)
    <2>1. PICK rt \in retryCh : RetryDue(rt)
      BY <1>5
    <2>2. /\ rt.node \in Nodes /\ nodeStat[rt.node] = "running"
          /\ pc = "loop" /\ UNCHANGED <<pc, edgeState, todo>>
      BY <2>1, TokenPlaces, TokenTells
         DEF TaskInv, TokenInv, TypeOK, Retry, RetryDue, Selecting
    <2>3. \/ nodeStat' = [nodeStat EXCEPT ![rt.node] = "done"]
          \/ nodeStat' = [nodeStat EXCEPT ![rt.node] = "running"]
      BY <2>1 DEF RetryDue, Dispatch
    <2> QED
      BY <2>2, <2>3, KeepsGraph
  <1>6. CASE \E n \in Nodes : Worker(n) \/ RetryTimer(n)
    <2>1. UNCHANGED <<pc, edgeState, nodeStat, todo>>
      BY <1>6 DEF Worker, WorkerEnds, RetryTimer, TimerFires, driverVars, graphVars
    <2> QED
      BY <2>1, KeepsGraph
  <1> QED
    BY <1>1, <1>2, <1>3, <1>4, <1>5, <1>6 DEF Next, Driver, Over

LEMMA GraphStep ==
  TypeOK /\ TypeOK' /\ TaskInv /\ DecisionInv /\ GraphInv /\ [Next]_vars =>
    GraphInv' /\ \A e \in Edges : edgeState[e] # "pending" =>
                                     edgeState'[e] = edgeState[e]
  BY AdvanceGraph, PropagateGraph, StillGraph

LEMMA GraphAlways == Spec => []GraphInv
  BY GraphInit, GraphStep, TasksAlways, DecisionAlways, TypeCorrect, PTL DEF Spec

(***************************************************************************)
(* An edge is resolved once, in any graph and whatever order the nodes     *)
(* complete in: no node completes twice, and no skip kills a live edge     *)
(* (scheduler.go:315, 354).                                                *)
(***************************************************************************)
THEOREM EdgesAreResolvedOnce == Spec => EdgesResolveOnce
  <1>1. TypeOK /\ TypeOK' /\ TaskInv /\ DecisionInv /\ GraphInv /\ [Next]_vars =>
          [\A e \in Edges : edgeState[e] # "pending" =>
                               edgeState'[e] = edgeState[e]]_edgeState
    BY GraphStep
  <1> QED
    BY <1>1, GraphAlways, TasksAlways, DecisionAlways, TypeCorrect, PTL
       DEF Spec, EdgesResolveOnce

(***************************************************************************)
(* No wakeup is lost, in any graph: when the driver waits, no node that    *)
(* has not started may run or be skipped (scheduler.go:323).               *)
(***************************************************************************)
THEOREM NoWakeupIsLost == Spec => []NoLostWakeup
  <1>1. GraphInv /\ DecisionInv => NoLostWakeup
    BY DEF GraphInv, RipeIsOwed, Ripe, NoLostWakeup, DecisionInv, AdvancesUndecided
  <1> QED
    BY <1>1, GraphAlways, DecisionAlways, PTL
===============================================================================
