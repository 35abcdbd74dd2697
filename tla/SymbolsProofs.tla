----------------------------- MODULE SymbolsProofs -----------------------------
(***************************************************************************)
(* The engine with its symbols is the engine, so what EngineProofs proves  *)
(* holds of the composition too; and the variables a replay finds.         *)
(***************************************************************************)
EXTENDS EngineSymbols, RowProofs

LEMMA ExecuteIsAStep ==
  ASSUME TypeOK, \E t \in work, out \in Outcome : Execute(t, out)
  PROVE  Next
  <1>1. PICK t \in work, out \in Outcome : WorkerEnds(t, out)
    BY DEF Execute
  <1>2. t.node \in Nodes
    BY DEF TypeOK, Task
  <1>3. Worker(t.node)
    BY <1>1 DEF Worker
  <1> QED
    BY <1>2, <1>3 DEF Next

LEMMA TimerIsAStep ==
  ASSUME TypeOK, \E t \in timers : TimerFires(t)
  PROVE  Next
  <1>1. PICK t \in timers : TimerFires(t)
    OBVIOUS
  <1>2. t.node \in Nodes
    BY DEF TypeOK, Task
  <1>3. RetryTimer(t.node)
    BY <1>1 DEF RetryTimer
  <1> QED
    BY <1>2, <1>3 DEF Next

LEMMA SymbolsMove ==
  ASSUME TypeOK, Publish \/ Quiet
  PROVE  Next
  <1>1. CASE Publish
    BY <1>1 DEF Publish, Next, Driver
  <1>2. CASE \E t \in work, out \in Outcome : Execute(t, out)
    BY <1>2, ExecuteIsAStep
  <1>3. CASE \E t \in timers : TimerFires(t)
    BY <1>3, TimerIsAStep
  <1> QED
    BY <1>1, <1>2, <1>3 DEF Quiet, Next, Driver

LEMMA SymbolsStep ==
  TypeOK /\ [SymNext]_<<vars, symbolVars>> => [Next]_vars
  BY SymbolsMove DEF SymNext, Next, Over

LEMMA SymbolsTyped == SymSpec => []TypeOK
  <1>1. SymInit => TypeOK
    BY TypeInit DEF SymInit
  <1>2. TypeOK /\ [SymNext]_<<vars, symbolVars>> => TypeOK'
    BY SymbolsStep, TypeStep
  <1> QED
    BY <1>1, <1>2, PTL DEF SymSpec

(***************************************************************************)
(* The engine with its symbols behaves as the engine: publishing, taking   *)
(* snapshots and resolving references add no step and rule some out, so    *)
(* every invariant of Engine is one of the composition                     *)
(* (scheduler.go:126, 257).                                                *)
(***************************************************************************)
THEOREM SymbolsRefineEngine == SymSpec => Spec
  <1>1. SymInit => Init
    BY DEF SymInit
  <1> QED
    BY <1>1, SymbolsStep, SymbolsTyped, PTL DEF SymSpec, Spec

-----------------------------------------------------------------------------
(***************************************************************************)
(* What was saved for the nodes symVars is what the symbols hold: only     *)
(* propagate touches either, and it does both.                             *)
(***************************************************************************)
SavedExact ==
  /\ sym \in SymbolTable
  /\ savedVars \in [SUBSET SetVarNodes -> [Keys -> Output \cup {Unset}]]
  /\ savedVars[symVars] = sym.vars

LEMMA SavedInit == SymInit => SavedExact
  <1> SUFFICES ASSUME SymInit PROVE SavedExact
    OBVIOUS
  <1>1. sym \in SymbolTable
    BY DEF SymInit, NewSymbols, SymbolTable
  <1>2. /\ savedVars = [vs \in SUBSET SetVarNodes |-> NewSymbols.vars]
        /\ NewSymbols.vars \in [Keys -> Output \cup {Unset}]
        /\ symVars = {}
    BY DEF SymInit, Init, NewSymbols
  <1> QED
    BY <1>1, <1>2 DEF SavedExact, SymInit

LEMMA QuietKeepsVariables ==
  ASSUME Quiet
  PROVE  UNCHANGED <<symVars, sym, savedVars>>
  <1>1. UNCHANGED symVars
    BY DEF Quiet, LoadVersion, CreateRun, BeginRun, TryAdvance, Settle,
           ReceiveResult, HandleCancelled, HandleRetry, HandleFailRun, RetryDue,
           PersistFailed, ContextDone, LeaveLoop, FinishDrain, SaveVerdict,
           CloseRun, Execute, WorkerEnds, TimerFires, Persist, CallerCancels,
           driverVars, graphVars
  <1> QED
    BY <1>1 DEF Quiet

LEMMA OutputTyped ==
  ASSUME TypeOK, pc = "handling"
  PROVE  OutputOf(cur) \in Output /\ cur.node \in Nodes
  BY DEF TypeOK, Result, OutputOf, Output, Sources

LEMMA PublishSaves ==
  ASSUME SavedExact, TypeOK, TypeOK', Publish
  PROVE  SavedExact'
  <1> DEFINE out == OutputOf(cur)
             s   == SetNodeOutput(sym, out)
  <1>1. out \in Output /\ out.node \in Nodes /\ cur.node \in Nodes
    BY OutputTyped DEF Publish, HandlePropagate, Handle, Output
  <1>2. s \in SymbolTable /\ s.vars = sym.vars
    BY <1>1 DEF SavedExact, SymbolTable, SetNodeOutput
  <1>3. SetVars(s, out) \in SymbolTable
    <2>1. [k \in Keys |-> IF k \in KeysOf(out) THEN out ELSE s.vars[k]]
            \in [Keys -> Output \cup {Unset}]
      BY <1>1, <1>2 DEF SymbolTable
    <2> QED
      BY <1>2, <2>1 DEF SetVars, SymbolTable
  <1>4. sym' \in SymbolTable
    BY <1>2, <1>3 DEF Publish
  <1>5. symVars' \in SUBSET SetVarNodes
    BY DEF TypeOK
  <1>6. /\ savedVars' = [savedVars EXCEPT ![symVars'] = sym'.vars]
        /\ sym'.vars \in [Keys -> Output \cup {Unset}]
    BY <1>4 DEF Publish, SymbolTable
  <1>7. /\ savedVars' \in [SUBSET SetVarNodes -> [Keys -> Output \cup {Unset}]]
        /\ savedVars'[symVars'] = sym'.vars
    BY <1>5, <1>6 DEF SavedExact
  <1> QED
    BY <1>4, <1>7 DEF SavedExact

LEMMA SavedStep ==
  SavedExact /\ TypeOK /\ TypeOK' /\ [SymNext]_<<vars, symbolVars>> => SavedExact'
  <1> SUFFICES ASSUME SavedExact, TypeOK, TypeOK', [SymNext]_<<vars, symbolVars>>
               PROVE  SavedExact'
    OBVIOUS
  <1>1. CASE Publish
    BY <1>1, PublishSaves
  <1>2. CASE Quiet
    BY <1>2, QuietKeepsVariables DEF SavedExact
  <1>3. CASE UNCHANGED <<vars, symbolVars>>
    BY <1>3 DEF SavedExact, vars, driverVars, symbolVars
  <1>4. CASE Over /\ UNCHANGED symbolVars
    BY <1>4 DEF SavedExact, Over, vars, driverVars, symbolVars
  <1> QED
    BY <1>1, <1>2, <1>3, <1>4 DEF SymNext
-----------------------------------------------------------------------------
(***************************************************************************)
(* What a step does to the graph, the attempts and the queue, as far as    *)
(* the symbols are concerned.                                              *)
(***************************************************************************)
LEMMA QuietGraph ==
  ASSUME TypeOK, Quiet
  PROVE  /\ sym' = sym
         /\ \A e \in Edges : edgeState'[e] = "live" => edgeState[e] = "live"
  <1>1. sym' = sym
    BY DEF Quiet
  <1>2. CASE \E n \in todo : TryAdvance(n)
    <2>1. PICK n \in todo : TryAdvance(n)
      BY <1>2
    <2>2. edgeState' = edgeState \/ edgeState' = [e \in Edges |-> Killed(n, e)]
      BY <2>1 DEF TryAdvance
    <2> QED
      BY <1>1, <2>2 DEF Killed
  <1>3. UNCHANGED edgeState \/ \E n \in todo : TryAdvance(n)
    <2>1. CASE \/ \E r \in results : ReceiveResult(r)
               \/ \E rt \in retryCh : RetryDue(rt)
      BY <2>1 DEF ReceiveResult, RetryDue
    <2>2. CASE HandleCancelled \/ HandleRetry \/ HandleFailRun
      BY <2>2 DEF HandleCancelled, HandleRetry, HandleFailRun, graphVars
    <2>3. CASE \/ \E t \in work, out \in Outcome : Execute(t, out)
               \/ \E t \in timers : TimerFires(t)
      BY <2>3 DEF Execute, WorkerEnds, TimerFires, driverVars, graphVars
    <2>4. CASE CreateRun \/ BeginRun \/ SaveVerdict \/ CloseRun
      BY <2>4 DEF CreateRun, BeginRun, SaveVerdict, CloseRun, graphVars
    <2>5. CASE Persist
      BY <2>5 DEF Persist, driverVars, graphVars
    <2>6. CASE LoadVersion \/ Settle \/ PersistFailed \/ ContextDone \/ LeaveLoop
               \/ FinishDrain \/ CallerCancels
      BY <2>6 DEF LoadVersion, Settle, PersistFailed, ContextDone, LeaveLoop, FinishDrain,
           CallerCancels, driverVars, graphVars
    <2> QED
      BY <2>1, <2>2, <2>3, <2>4, <2>5, <2>6 DEF Quiet
  <1> QED
    BY <1>1, <1>2, <1>3

NextOf(n) == [node |-> n, attempt |-> attemptCounter[n] + 1]

\* An attempt of n starts: it is ready, or retries.
Dispatched(n) ==
  /\ work' = work \cup {NextOf(n)}
  /\ attemptCounter' = [attemptCounter EXCEPT ![n] = attemptCounter[n] + 1]
  /\ ReadyToRun(n, edgeState) \/ attemptCounter[n] > 0

LEMMA WorkGrows ==
  ASSUME TypeOK, TaskInv, Quiet
  PROVE  \/ work' \subseteq work /\ attemptCounter' = attemptCounter
         \/ \E n \in Nodes : Dispatched(n)
  <1>1. CASE \E n \in todo : TryAdvance(n)
    <2>1. PICK n \in Nodes : TryAdvance(n)
      BY <1>1 DEF TypeOK
    <2>2. \/ ReadyToRun(n, edgeState) /\ Dispatch(n)
          \/ UNCHANGED <<work, attemptCounter>>
      BY <2>1 DEF TryAdvance
    <2> QED
      BY <2>1, <2>2 DEF Dispatch, Dispatched, NextOf
  <1>2. CASE \E rt \in retryCh : RetryDue(rt)
    <2>1. PICK rt \in retryCh : RetryDue(rt)
      BY <1>2
    <2>2. rt.node \in Nodes /\ nodeStat[rt.node] = "running"
      BY <2>1, TokenPlaces, TokenTells DEF TaskInv, TokenInv, TypeOK, Retry
    <2>3. attemptCounter[rt.node] > 0
      BY <2>2 DEF TaskInv, UnreadyIsFresh
    <2>4. Dispatch(rt.node) \/ UNCHANGED <<work, attemptCounter>>
      BY <2>1 DEF RetryDue
    <2> QED
      BY <2>2, <2>3, <2>4 DEF Dispatch, Dispatched, NextOf
  <1>3. CASE \E r \in results : ReceiveResult(r)
    BY <1>3 DEF ReceiveResult
  <1>4. CASE HandleCancelled \/ HandleRetry \/ HandleFailRun
    BY <1>4 DEF HandleCancelled, HandleRetry, HandleFailRun, Handle
  <1>5. CASE \/ \E t \in work, out \in Outcome : Execute(t, out)
             \/ \E t \in timers : TimerFires(t)
    BY <1>5 DEF Execute, WorkerEnds, TimerFires, driverVars
  <1>6. CASE CreateRun \/ BeginRun \/ SaveVerdict \/ CloseRun
    BY <1>6 DEF CreateRun, BeginRun, SaveVerdict, CloseRun, taskVars
  <1>7. CASE LoadVersion \/ Settle \/ PersistFailed \/ ContextDone \/ LeaveLoop
             \/ FinishDrain \/ CallerCancels
    BY <1>7 DEF LoadVersion, Settle, PersistFailed, ContextDone, LeaveLoop, FinishDrain,
         CallerCancels, driverVars, taskVars
  <1>8. CASE Persist
    BY <1>8 DEF Persist, driverVars, taskVars
  <1> QED
    BY <1>1, <1>2, <1>3, <1>4, <1>5, <1>6, <1>7, <1>8 DEF Quiet

\* A write the driver queues other than by propagating shows nothing.
QueuesHidden ==
  \/ persistQ' = persistQ
  \/ \E op \in Op : persistQ' = persistQ \o <<op>> /\ ~VisibleRow(op.row)

LEMMA AppendHidden ==
  ASSUME NEW n \in Nodes, NEW a \in Nat, NEW s \in {"running", "skipped", "cancelled"}
  PROVE  AppendOp(n, a, s) \in Op /\ ~VisibleRow(AppendOp(n, a, s).row)
  BY DEF AppendOp, EmptyRow, Op, Row, RowStatus, RowPorts, VisibleRow

LEMMA FinishHidden ==
  ASSUME NEW r \in Result, NEW s \in {"failed", "cancelled"}, NEW p \in RowPorts
  PROVE  FinishOp(r, s, p, FALSE) \in Op /\ ~VisibleRow(FinishOp(r, s, p, FALSE).row)
  BY DEF FinishOp, Result, Op, Row, RowStatus, VisibleRow

LEMMA QuietWrites ==
  ASSUME TypeOK, Quiet, ~Persist
  PROVE  QueuesHidden /\ rows' = rows
  <1>1. CASE \E n \in todo : TryAdvance(n)
    <2>1. PICK n \in Nodes : TryAdvance(n)
      BY <1>1 DEF TypeOK
    <2>2. attemptCounter[n] + 1 \in Nat
      BY DEF TypeOK
    <2>3. \/ persistQ' = persistQ
          \/ persistQ' = persistQ \o <<AppendOp(n, attemptCounter[n] + 1, "running")>>
          \/ persistQ' = persistQ \o <<AppendOp(n, 1, "skipped")>>
      BY <2>1 DEF TryAdvance, Dispatch, MarkSkipped, Send
    <2> QED
      BY <2>1, <2>2, <2>3, AppendHidden DEF QueuesHidden, TryAdvance
  <1>2. CASE \E rt \in retryCh : RetryDue(rt)
    <2>1. PICK rt \in retryCh : RetryDue(rt)
      BY <1>2
    <2>2. rt.node \in Nodes /\ rt.attempt \in Nat /\ attemptCounter[rt.node] + 1 \in Nat
      BY <2>1 DEF TypeOK, Retry
    <2>3. \/ persistQ' = persistQ \o <<AppendOp(rt.node, rt.attempt, "cancelled")>>
          \/ persistQ' = persistQ \o
                         <<AppendOp(rt.node, attemptCounter[rt.node] + 1, "running")>>
      BY <2>1 DEF RetryDue, Dispatch, Send, AbortOp
    <2> QED
      BY <2>1, <2>2, <2>3, AppendHidden DEF QueuesHidden, RetryDue
  <1>3. CASE \E r \in results : ReceiveResult(r)
    <2>1. PICK r \in results : ReceiveResult(r)
      BY <1>3
    <2>2. r \in Result /\ PortOf(r) \in RowPorts
      BY <2>1 DEF TypeOK, Result, Outcome, PortOf, RowPorts
    <2>3. \/ persistQ' = persistQ
          \/ persistQ' = persistQ \o <<FinishOp(r, "cancelled", PortOf(r), FALSE)>>
      BY <2>1 DEF ReceiveResult, EndAttempt, Send
    <2> QED
      BY <2>1, <2>2, <2>3, FinishHidden DEF QueuesHidden, ReceiveResult
  <1>4. CASE HandleCancelled \/ HandleRetry \/ HandleFailRun
    <2>1. cur \in Result /\ NoPort \in RowPorts
      BY <1>4 DEF HandleCancelled, HandleRetry, HandleFailRun, Handle, TypeOK, RowPorts
    <2>2. \E s \in {"failed", "cancelled"} :
            persistQ' = persistQ \o <<FinishOp(cur, s, NoPort, FALSE)>>
      BY <1>4 DEF HandleCancelled, HandleRetry, HandleFailRun, EndAttempt, Send
    <2> QED
      BY <1>4, <2>1, <2>2, FinishHidden
         DEF QueuesHidden, HandleCancelled, HandleRetry, HandleFailRun, Handle
  <1>5. CASE \/ \E t \in work, out \in Outcome : Execute(t, out)
             \/ \E t \in timers : TimerFires(t)
    BY <1>5 DEF Execute, WorkerEnds, TimerFires, storeVars, QueuesHidden
  <1>6. CASE CreateRun \/ BeginRun \/ SaveVerdict \/ CloseRun
    BY <1>6 DEF CreateRun, BeginRun, SaveVerdict, CloseRun, QueuesHidden
  <1>7. CASE LoadVersion \/ Settle \/ PersistFailed \/ ContextDone \/ LeaveLoop
             \/ FinishDrain \/ CallerCancels
    BY <1>7 DEF LoadVersion, Settle, PersistFailed, ContextDone, LeaveLoop, FinishDrain,
         CallerCancels, storeVars, QueuesHidden
  <1> QED
    BY <1>1, <1>2, <1>3, <1>4, <1>5, <1>6, <1>7 DEF Quiet
-----------------------------------------------------------------------------
(***************************************************************************)
(* The snapshots.  The latest attempt of a node has one, and no attempt to *)
(* come; what a snapshot shows stays so, since a node's output is          *)
(* published once, when the node is done; and an edge is live only after   *)
(* its source has published.                                               *)
(***************************************************************************)
LatestOf(n) == [node |-> n, attempt |-> attemptCounter[n]]

SnapshotPerAttempt ==
  /\ DOMAIN snapshots \subseteq Task
  /\ \A t \in DOMAIN snapshots : t.attempt <= attemptCounter[t.node]
  /\ work \subseteq DOMAIN snapshots
  /\ \A n \in Nodes : attemptCounter[n] > 0 => LatestOf(n) \in DOMAIN snapshots

SnapshotsStand ==
  \A t \in DOMAIN snapshots :
    /\ snapshots[t] \in SymbolTable
    /\ \A n \in Nodes : snapshots[t].nodes[n] \in {Unset, sym.nodes[n]}

PublishedByDone ==
  \A n \in Nodes : sym.nodes[n] # Unset =>
    /\ nodeStat[n] = "done"
    /\ sym.nodes[n].node = n

LiveIsPublished ==
  \A e \in Edges : edgeState[e] = "live" => sym.nodes[EdgeFrom[e]] # Unset

SnapshotInv ==
  /\ SnapshotPerAttempt
  /\ SnapshotsStand
  /\ PublishedByDone
  /\ LiveIsPublished
  /\ SeesSources /\ SeesNoLess

\* What the engine and the saved variables guarantee already.
Ground == TypeOK /\ TaskInv /\ DecisionInv /\ GraphInv /\ RowInv /\ SavedExact

LEMMA DoneStays ==
  ASSUME TypeOK, TypeOK', TaskInv, DecisionInv, RowInv, [Next]_vars
  PROVE  \A n \in Nodes : nodeStat[n] = "done" => nodeStat'[n] = "done"
  <1> SUFFICES ASSUME NEW n \in Nodes, nodeStat[n] = "done" PROVE nodeStat'[n] = "done"
    OBVIOUS
  <1>1. CASE Still
    BY <1>1 DEF Still, SameNode
  <1>2. CASE \E m \in Nodes, op \in Op : Starts(m, op) \/ GivesUp(m, op) \/ Ends(m, op)
    <2>1. PICK m \in Nodes, op \in Op : Starts(m, op) \/ GivesUp(m, op) \/ Ends(m, op)
      BY <1>2
    <2>2. m # n
      BY <2>1 DEF Starts, GivesUp, Ends, Alive
    <2> QED
      BY <2>1, <2>2 DEF Starts, GivesUp, Ends, Sends, SameNode
  <1>3. CASE Persist
    BY <1>3 DEF Persist, driverVars, graphVars
  <1> QED
    BY <1>1, <1>2, <1>3, StepKinds DEF RowInv

\* A node publishes once, when its last attempt ends.
LEMMA PublishesOnce ==
  ASSUME TypeOK, TaskInv, sym \in SymbolTable, Publish
  PROVE  /\ cur.node \in Nodes /\ cur.attempt = attemptCounter[cur.node]
         /\ nodeStat[cur.node] = "running" /\ nodeStat'[cur.node] = "done"
         /\ OutputOf(cur) \in Output /\ OutputOf(cur).node = cur.node
         /\ sym'.nodes = [sym.nodes EXCEPT ![cur.node] = OutputOf(cur)]
         /\ UNCHANGED <<work, attemptCounter, rows>>
         /\ \A e \in Edges : edgeState'[e] = "live" =>
                               edgeState[e] = "live" \/ EdgeFrom[e] = cur.node
  <1>1. /\ pc = "handling" /\ UNCHANGED <<work, attemptCounter, rows>>
    BY DEF Publish, HandlePropagate, Handle
  <1>2. cur \in Result /\ cur # None
    BY <1>1 DEF TypeOK, TaskInv, HandFilled
  <1>3. cur.node \in Nodes /\ cur.attempt = attemptCounter[cur.node]
        /\ nodeStat[cur.node] = "running"
    BY <1>2, TokenPlaces, TokenTells DEF TaskInv, TokenInv, Result, Waits
  <1>4. PICK port, status, fb : Propagate(port, status, fb)
    BY DEF Publish, HandlePropagate
  <1>5. nodeStat'[cur.node] = "done"
    BY <1>3, <1>4 DEF Propagate, TypeOK
  <1>6. edgeState' = edgeState \/ edgeState' = [e \in Edges |-> Fired(cur.node, port, e)]
    BY <1>4 DEF Propagate
  <1>7. \A e \in Edges : edgeState'[e] = "live" =>
                           edgeState[e] = "live" \/ EdgeFrom[e] = cur.node
    BY <1>6 DEF Fired, OutEdges
  <1>8. OutputOf(cur) \in Output /\ OutputOf(cur).node = cur.node
    BY <1>1, OutputTyped DEF OutputOf
  <1>9. sym'.nodes = [sym.nodes EXCEPT ![cur.node] = OutputOf(cur)]
    BY <1>8 DEF Publish, SetNodeOutput, SetVars, SymbolTable
  <1> QED
    BY <1>1, <1>3, <1>5, <1>7, <1>8, <1>9

\* What is published stays.
LEMMA OutputsStand ==
  ASSUME TypeOK, TaskInv, sym \in SymbolTable, PublishedByDone, Publish \/ Quiet
  PROVE  \A n \in Nodes : sym.nodes[n] # Unset => sym'.nodes[n] = sym.nodes[n]
  <1>1. CASE Quiet
    BY <1>1, QuietGraph
  <1>2. CASE Publish
    BY <1>2, PublishesOnce DEF PublishedByDone, SymbolTable
  <1> QED
    BY <1>1, <1>2

LEMMA PublishedStep ==
  ASSUME Ground, TypeOK', PublishedByDone, LiveIsPublished, Publish \/ Quiet
  PROVE  PublishedByDone' /\ LiveIsPublished'
  <1>1. [Next]_vars
    BY SymbolsMove DEF Ground
  <1>2. \A n \in Nodes : nodeStat[n] = "done" => nodeStat'[n] = "done"
    BY <1>1, DoneStays DEF Ground
  <1>3. CASE Quiet
    <2>1. /\ sym' = sym
          /\ \A e \in Edges : edgeState'[e] = "live" => edgeState[e] = "live"
      BY <1>3, QuietGraph DEF Ground
    <2> QED
      BY <1>2, <2>1 DEF PublishedByDone, LiveIsPublished
  <1>4. CASE Publish
    <2>1. sym \in SymbolTable
      BY DEF Ground, SavedExact
    <2>2. /\ cur.node \in Nodes /\ nodeStat'[cur.node] = "done"
          /\ OutputOf(cur) \in Output /\ OutputOf(cur).node = cur.node
          /\ sym'.nodes = [sym.nodes EXCEPT ![cur.node] = OutputOf(cur)]
          /\ \A e \in Edges : edgeState'[e] = "live" =>
                                edgeState[e] = "live" \/ EdgeFrom[e] = cur.node
      BY <1>4, <2>1, PublishesOnce DEF Ground
    <2>3. PublishedByDone'
      BY <1>2, <2>1, <2>2 DEF PublishedByDone, SymbolTable
    <2>4. LiveIsPublished'
      BY <2>1, <2>2, SymbolAssumption, GraphAssumption DEF LiveIsPublished, SymbolTable
    <2> QED
      BY <2>3, <2>4
  <1> QED
    BY <1>3, <1>4

\* A step takes at most one snapshot, for an attempt that starts.
Taken(n) ==
  /\ attemptCounter' = [attemptCounter EXCEPT ![n] = attemptCounter[n] + 1]
  /\ DOMAIN snapshots' = (DOMAIN snapshots) \cup {NextOf(n)}
  /\ snapshots'[NextOf(n)] = sym
  /\ ReadyToRun(n, edgeState) \/ attemptCounter[n] > 0

LEMMA SnapshotsGrow ==
  ASSUME Ground, SnapshotPerAttempt, Publish \/ Quiet, Snapshot
  PROVE  /\ \A t \in DOMAIN snapshots : t \in DOMAIN snapshots' /\ snapshots'[t] = snapshots[t]
         /\ work' \subseteq DOMAIN snapshots'
         /\ \/ DOMAIN snapshots' = DOMAIN snapshots /\ attemptCounter' = attemptCounter
            \/ \E n \in Nodes : Taken(n) /\ sym' = sym
  <1>1. /\ DOMAIN snapshots' = (DOMAIN snapshots) \cup work'
        /\ \A t \in (DOMAIN snapshots) \cup work' :
             snapshots'[t] = IF t \in DOMAIN snapshots THEN snapshots[t] ELSE sym
    BY DEF Snapshot
  <1>2. work \subseteq DOMAIN snapshots
    BY DEF SnapshotPerAttempt
  <1>3. \/ work' \subseteq work /\ attemptCounter' = attemptCounter
        \/ \E n \in Nodes : Dispatched(n) /\ sym' = sym
    <2>1. CASE Quiet
      BY <2>1, WorkGrows, QuietGraph DEF Ground
    <2>2. CASE Publish
      BY <2>2 DEF Publish, HandlePropagate, Handle
    <2> QED
      BY <2>1, <2>2
  <1>4. ASSUME NEW n \in Nodes, Dispatched(n), sym' = sym
        PROVE  Taken(n)
    <2>1. NextOf(n) \notin DOMAIN snapshots
      <3>1. attemptCounter[n] \in Nat
        BY DEF Ground, TypeOK
      <3>2. NextOf(n).node = n /\ NextOf(n).attempt = attemptCounter[n] + 1
        BY DEF NextOf
      <3> QED
        BY <3>1, <3>2 DEF SnapshotPerAttempt
    <2> QED
      BY <1>1, <1>2, <1>4, <2>1 DEF Dispatched, Taken
  <1> QED
    BY <1>1, <1>2, <1>3, <1>4

LEMMA SnapshotCounts ==
  ASSUME Ground, SnapshotPerAttempt, Publish \/ Quiet, Snapshot
  PROVE  SnapshotPerAttempt'
  <1>1. attemptCounter \in [Nodes -> Nat]
    BY DEF Ground, TypeOK
  <1>2. CASE DOMAIN snapshots' = DOMAIN snapshots /\ attemptCounter' = attemptCounter
    BY <1>2, SnapshotsGrow DEF SnapshotPerAttempt, LatestOf
  <1>3. CASE \E n \in Nodes : Taken(n)
    <2>1. PICK n \in Nodes : Taken(n)
      BY <1>3
    <2>2. /\ NextOf(n) \in Task /\ NextOf(n).node = n
          /\ NextOf(n).attempt = attemptCounter[n] + 1
      BY <1>1 DEF NextOf, Task
    <2>3. /\ \A m \in Nodes \ {n} : attemptCounter'[m] = attemptCounter[m]
          /\ attemptCounter'[n] = attemptCounter[n] + 1
      BY <1>1, <2>1 DEF Taken
    <2>4. DOMAIN snapshots' \subseteq Task
      BY <2>1, <2>2 DEF Taken, SnapshotPerAttempt
    <2>5. \A t \in DOMAIN snapshots' : t.attempt <= attemptCounter'[t.node]
      <3> SUFFICES ASSUME NEW t \in DOMAIN snapshots'
                   PROVE  t.attempt <= attemptCounter'[t.node]
        OBVIOUS
      <3>1. CASE t = NextOf(n)
        BY <1>1, <2>2, <2>3, <3>1
      <3>2. CASE t \in DOMAIN snapshots
        <4>1. t.node \in Nodes /\ t.attempt \in Nat /\ t.attempt <= attemptCounter[t.node]
          BY <3>2 DEF SnapshotPerAttempt, Task
        <4> QED
          BY <1>1, <2>3, <4>1
      <3> QED
        BY <2>1, <3>1, <3>2 DEF Taken
    <2>6. \A m \in Nodes : attemptCounter'[m] > 0 => LatestOf(m)' \in DOMAIN snapshots'
      <3> SUFFICES ASSUME NEW m \in Nodes, attemptCounter'[m] > 0
                   PROVE  LatestOf(m)' \in DOMAIN snapshots'
        OBVIOUS
      <3>1. CASE m = n
        <4>1. LatestOf(m)' = NextOf(n)
          BY <2>3, <3>1 DEF LatestOf, NextOf
        <4> QED
          BY <2>1, <4>1 DEF Taken
      <3>2. CASE m # n
        BY <2>1, <2>3, <3>2 DEF Taken, SnapshotPerAttempt, LatestOf
      <3> QED
        BY <3>1, <3>2
    <2> QED
      BY <2>4, <2>5, <2>6, SnapshotsGrow DEF SnapshotPerAttempt
  <1> QED
    BY <1>2, <1>3, SnapshotsGrow

LEMMA SnapshotsStandStep ==
  ASSUME Ground, SnapshotPerAttempt, SnapshotsStand, PublishedByDone,
         Publish \/ Quiet, Snapshot
  PROVE  SnapshotsStand'
  <1>1. sym \in SymbolTable
    BY DEF Ground, SavedExact
  <1>2. \A n \in Nodes : sym.nodes[n] # Unset => sym'.nodes[n] = sym.nodes[n]
    BY <1>1, OutputsStand DEF Ground
  <1> SUFFICES ASSUME NEW t \in DOMAIN snapshots'
               PROVE  /\ snapshots'[t] \in SymbolTable
                      /\ \A n \in Nodes : snapshots'[t].nodes[n] \in {Unset, sym'.nodes[n]}
    BY DEF SnapshotsStand
  <1>3. CASE t \in DOMAIN snapshots
    BY <1>2, <1>3, SnapshotsGrow DEF SnapshotsStand
  <1>4. CASE t \notin DOMAIN snapshots
    <2>1. snapshots'[t] = sym /\ sym' = sym
      BY <1>4, SnapshotsGrow DEF Taken
    <2> QED
      BY <1>1, <2>1
  <1> QED
    BY <1>3, <1>4

\* What an attempt was started for is still so.
LEMMA SeesStill ==
  ASSUME Ground, TypeOK', SnapshotInv, Publish \/ Quiet, Snapshot,
         NEW t \in DOMAIN snapshots, NEW e \in Edges, Fed(snapshots[t], e)
  PROVE  Fed(snapshots[t], e)'
  <1>1. edgeState'[e] = "live"
    BY SymbolsMove, GraphStep DEF Ground, Fed
  <1>2. snapshots'[t] = snapshots[t]
    BY SnapshotsGrow DEF SnapshotInv
  <1> QED
    BY <1>1, <1>2 DEF Fed

\* What an attempt that starts now is given.
LEMMA SeesNow ==
  ASSUME Ground, TypeOK', SnapshotInv, Publish \/ Quiet, Snapshot,
         NEW n \in Nodes, Taken(n), n \notin Roots, NEW t, t = NextOf(n)
  PROVE  IF n \in JoinAllNodes
         THEN \A e \in InEdges(n) : Fed(snapshots[t], e)'
         ELSE \E e \in InEdges(n) : Fed(snapshots[t], e)'
  <1>1. ASSUME NEW e \in InEdges(n), edgeState[e] = "live", sym.nodes[EdgeFrom[e]] # Unset
        PROVE  Fed(snapshots[t], e)'
    <2>1. edgeState'[e] = "live"
      BY <1>1, SymbolsMove, GraphStep DEF Ground, InEdges
    <2> QED
      BY <1>1, <2>1 DEF Taken, Fed
  <1>2. CASE ReadyToRun(n, edgeState)
    <2>1. InEdges(n) # {}
      BY DEF Roots
    <2>2. \A e \in InEdges(n) : edgeState[e] = "live" => sym.nodes[EdgeFrom[e]] # Unset
      BY DEF SnapshotInv, LiveIsPublished, InEdges
    <2> QED
      BY <1>1, <1>2, <2>1, <2>2 DEF ReadyToRun
  <1>3. CASE attemptCounter[n] > 0
    <2>1. LatestOf(n) \in DOMAIN snapshots /\ LatestOf(n).node = n
      BY <1>3 DEF SnapshotInv, SnapshotPerAttempt, LatestOf
    <2>2. \A e \in InEdges(n) : Fed(snapshots[LatestOf(n)], e) =>
            edgeState[e] = "live" /\ sym.nodes[EdgeFrom[e]] # Unset
      BY <2>1, GraphAssumption DEF SnapshotInv, SnapshotsStand, Fed, InEdges
    <2> QED
      BY <1>1, <2>1, <2>2 DEF SnapshotInv, SeesSources
  <1> QED
    BY <1>2, <1>3 DEF Taken

LEMMA SeesStep ==
  ASSUME Ground, TypeOK', SnapshotInv, Publish \/ Quiet, Snapshot
  PROVE  SeesSources' /\ SeesNoLess'
  <1>1. ASSUME NEW t \in DOMAIN snapshots', t.node \notin Roots
        PROVE  IF t.node \in JoinAllNodes
               THEN \A e \in InEdges(t.node) : Fed(snapshots[t], e)'
               ELSE \E e \in InEdges(t.node) : Fed(snapshots[t], e)'
    <2>1. CASE t \in DOMAIN snapshots
      BY <1>1, <2>1, SeesStill DEF SnapshotInv, SeesSources, InEdges
    <2>2. CASE t \notin DOMAIN snapshots
      <3>1. PICK n \in Nodes : Taken(n)
        BY <2>2, SnapshotsGrow DEF SnapshotInv
      <3>2. t = NextOf(n) /\ t.node = n
        BY <2>2, <3>1 DEF Taken, NextOf
      <3> QED
        BY <1>1, <3>1, <3>2, SeesNow
    <2> QED
      BY <2>1, <2>2
  <1>2. ASSUME NEW t \in DOMAIN snapshots', NEW u \in DOMAIN snapshots',
               u.node = t.node, u.attempt < t.attempt,
               NEW m \in Nodes, snapshots'[u].nodes[m] # Unset
        PROVE  snapshots'[t].nodes[m] = snapshots'[u].nodes[m]
    <2>1. CASE t \in DOMAIN snapshots /\ u \in DOMAIN snapshots
      BY <1>2, <2>1, SnapshotsGrow DEF SnapshotInv, SeesNoLess
    <2>2. CASE t \notin DOMAIN snapshots \/ u \notin DOMAIN snapshots
      <3>1. PICK n \in Nodes : Taken(n)
        BY <2>2, SnapshotsGrow DEF SnapshotInv
      <3>2. attemptCounter[n] \in Nat /\ NextOf(n).node = n
            /\ NextOf(n).attempt = attemptCounter[n] + 1
        BY DEF Ground, TypeOK, NextOf
      <3>3. \A v \in DOMAIN snapshots : v.attempt \in Nat /\ v.attempt <= attemptCounter[v.node]
        BY DEF SnapshotInv, SnapshotPerAttempt, Task
      <3>4. t = NextOf(n) /\ u \in DOMAIN snapshots
        BY <1>2, <2>2, <3>1, <3>2, <3>3 DEF Taken
      <3>5. snapshots'[u] = snapshots[u] /\ snapshots'[t] = sym
        BY <3>1, <3>4, SnapshotsGrow DEF SnapshotInv, Taken
      <3> QED
        BY <1>2, <3>4, <3>5 DEF SnapshotInv, SnapshotsStand
    <2> QED
      BY <2>1, <2>2
  <1> QED
    BY <1>1, <1>2 DEF SeesSources, SeesNoLess

LEMMA SnapshotStep ==
  Ground /\ TypeOK' /\ SnapshotInv /\ [SymNext]_<<vars, symbolVars>> => SnapshotInv'
  <1> SUFFICES ASSUME Ground, TypeOK', SnapshotInv, [SymNext]_<<vars, symbolVars>>
               PROVE  SnapshotInv'
    OBVIOUS
  <1>1. CASE (Publish \/ Quiet) /\ Snapshot
    <2>1. PublishedByDone' /\ LiveIsPublished'
      BY <1>1, PublishedStep DEF SnapshotInv
    <2>2. SnapshotPerAttempt' /\ SnapshotsStand'
      BY <1>1, SnapshotCounts, SnapshotsStandStep DEF SnapshotInv
    <2>3. SeesSources' /\ SeesNoLess'
      BY <1>1, SeesStep
    <2> QED
      BY <2>1, <2>2, <2>3 DEF SnapshotInv
  <1>2. CASE UNCHANGED <<vars, symbolVars>>
    BY <1>2 DEF SnapshotInv, SnapshotPerAttempt, LatestOf, SnapshotsStand, PublishedByDone,
                LiveIsPublished, SeesSources, SeesNoLess, Fed, vars, driverVars, graphVars, taskVars,
                symbolVars
  <1> QED
    BY <1>1, <1>2 DEF SymNext, Over

LEMMA SnapshotInit == SymInit => SnapshotInv
  <1> SUFFICES ASSUME SymInit PROVE SnapshotInv
    OBVIOUS
  <1>1. /\ DOMAIN snapshots = {} /\ work = {}
        /\ \A n \in Nodes : attemptCounter[n] = 0 /\ sym.nodes[n] = Unset
        /\ \A e \in Edges : edgeState[e] = "pending"
    BY DEF SymInit, Init, NewSymbols
  <1> QED
    BY <1>1 DEF SnapshotInv, SnapshotPerAttempt, SnapshotsStand, PublishedByDone,
                LiveIsPublished, SeesSources, SeesNoLess

LEMMA GroundAlways == SymSpec => []Ground
  <1>1. SymSpec => []SavedExact
    BY SavedInit, SavedStep, SymbolsTyped, PTL DEF SymSpec
  <1> QED
    BY <1>1, SymbolsRefineEngine, TypeCorrect, TasksAlways, DecisionAlways, GraphAlways,
       RowsAlways, PTL DEF Ground

LEMMA SnapshotsAlways == SymSpec => []SnapshotInv
  <1>1. Ground /\ Ground' /\ SnapshotInv /\ [SymNext]_<<vars, symbolVars>> => SnapshotInv'
    BY SnapshotStep DEF Ground
  <1> QED
    BY <1>1, SnapshotInit, GroundAlways, PTL DEF SymSpec
-----------------------------------------------------------------------------
(***************************************************************************)
(* The variables.  What was saved for vs, a set of nodes that have set     *)
(* theirs, is what they set; so it is for the set in the row of the run,   *)
(* for those still queued, and for the last one.                           *)
(***************************************************************************)
Holds(vs, k) ==
  LET out  == savedVars[vs][k]
      last == sym.vars[k]
  IN  /\ IF out = Unset
         THEN \A n \in vs : k \notin KeysOf(sym.nodes[n])
         ELSE out.node \in vs /\ out = sym.nodes[out.node] /\ k \in KeysOf(out)
      /\ last # Unset /\ last.node \in vs => out = last

Saved(vs) == vs \subseteq symVars /\ \A k \in Keys : Holds(vs, k)

QueuedSaved ==
  \A i \in DOMAIN persistQ : persistQ[i].kind = "vars" => Saved(persistQ[i].vars)

VariablesInv ==
  /\ \A n \in symVars : sym.nodes[n] # Unset
  /\ Saved(symVars) /\ Saved(dbRun.vars) /\ QueuedSaved

LEMMA VariablesInit == SymInit => VariablesInv
  <1> SUFFICES ASSUME SymInit PROVE VariablesInv
    OBVIOUS
  <1>1. /\ symVars = {} /\ dbRun.vars = {} /\ DOMAIN persistQ = {}
        /\ savedVars[{}] = [k \in Keys |-> Unset] /\ sym.vars = [k \in Keys |-> Unset]
    BY DEF SymInit, Init, NewSymbols
  <1> QED
    BY <1>1 DEF VariablesInv, Saved, Holds, QueuedSaved

\* A write that a step queues for the variables covers them all.
LEMMA NewVariables ==
  ASSUME Ground, TypeOK', [Next]_vars, ~Persist
  PROVE  /\ dbRun'.vars = dbRun.vars
         /\ \A i \in DOMAIN persistQ' : persistQ'[i].kind = "vars" =>
              \/ i \in DOMAIN persistQ /\ persistQ'[i] = persistQ[i]
              \/ persistQ'[i].vars = symVars'
  <1>1. CASE Still
    BY <1>1 DEF Still
  <1>2. CASE \E n \in Nodes, op \in Op : Starts(n, op) \/ GivesUp(n, op) \/ Ends(n, op)
    <2>1. PICK n \in Nodes, op \in Op : Sends(n, op)
      BY <1>2 DEF Starts, GivesUp, Ends
    <2>2. /\ op.kind # "vars" /\ dbRun' = dbRun
          /\ \A i \in 1..Len(persistQ) : persistQ'[i] = persistQ[i]
          /\ persistQ'[Len(persistQ) + 1] = op
          /\ \A i \in (Len(persistQ) + 2)..Len(persistQ') : persistQ'[i].vars = symVars'
      BY <2>1 DEF Sends, Queues
    <2>3. /\ DOMAIN persistQ = 1..Len(persistQ) /\ Len(persistQ) \in Nat
          /\ DOMAIN persistQ' = 1..Len(persistQ') /\ Len(persistQ') \in Nat
      BY QueuedTyped, QueuedTypedNext DEF Ground
    <2>4. \A i \in DOMAIN persistQ' : \/ i \in DOMAIN persistQ \/ i = Len(persistQ) + 1
                                      \/ i \in (Len(persistQ) + 2)..Len(persistQ')
      BY <2>3
    <2> QED
      BY <2>2, <2>3, <2>4
  <1> QED
    BY <1>1, <1>2, StepKinds DEF Ground, RowInv

\* Steps that leave the variables alone.
LEMMA QuietVariables ==
  ASSUME Ground, TypeOK', VariablesInv, Quiet
  PROVE  VariablesInv'
  <1>1. UNCHANGED <<symVars, sym, savedVars>>
    BY QuietKeepsVariables
  <1>2. Saved(symVars)'
    BY <1>1 DEF VariablesInv, Saved, Holds
  <1>3. CASE Persist
    <2>1. PICK op \in Op, k \in 0..3 : Applies(op, k)
      BY <1>3, PersistApplies DEF Ground
    <2>2. /\ 1 \in DOMAIN persistQ /\ persistQ[1] = op
          /\ \A i \in DOMAIN persistQ' : i + 1 \in DOMAIN persistQ
                                         /\ persistQ'[i] = persistQ[i + 1]
      BY <2>1, QueuedAfterApply DEF Ground
    <2>3. \/ dbRun.vars' = dbRun.vars
          \/ op.kind = "vars" /\ dbRun.vars' = op.vars
      <3>1. dbRun' = IF op.kind = "vars" /\ k = 3
                     THEN [dbRun EXCEPT !.vars = op.vars] ELSE dbRun
        BY <2>1 DEF Applies, Store
      <3>2. dbRun \in Run
        BY DEF Ground, TypeOK
      <3> QED
        BY <3>1, <3>2 DEF Run
    <2>4. Saved(dbRun.vars)'
      <3> PICK vs : vs = dbRun.vars'
        OBVIOUS
      <3>1. Saved(vs)
        BY <2>2, <2>3 DEF VariablesInv, QueuedSaved
      <3> QED
        BY <1>1, <3>1 DEF Saved, Holds
    <2>5. QueuedSaved'
      BY <1>1, <2>2 DEF VariablesInv, QueuedSaved, Saved, Holds
    <2> QED
      BY <1>1, <1>2, <2>4, <2>5 DEF VariablesInv
  <1>4. CASE ~Persist
    <2>1. [Next]_vars
      BY SymbolsMove DEF Ground
    <2>2. /\ dbRun'.vars = dbRun.vars
          /\ \A i \in DOMAIN persistQ' : persistQ'[i].kind = "vars" =>
               \/ i \in DOMAIN persistQ /\ persistQ'[i] = persistQ[i]
               \/ persistQ'[i].vars = symVars'
      BY <1>4, <2>1, NewVariables
    <2>3. Saved(dbRun.vars)'
      BY <1>1, <2>2 DEF VariablesInv, Saved, Holds
    <2>4. QueuedSaved'
      <3> SUFFICES ASSUME NEW i \in DOMAIN persistQ', persistQ'[i].kind = "vars"
                   PROVE  Saved(persistQ[i].vars)'
        BY DEF QueuedSaved
      <3>1. CASE i \in DOMAIN persistQ /\ persistQ'[i] = persistQ[i]
        BY <1>1, <3>1 DEF VariablesInv, QueuedSaved, Saved, Holds
      <3>2. CASE persistQ'[i].vars = symVars'
        BY <1>2, <3>2 DEF Saved, Holds
      <3> QED
        BY <2>2, <3>1, <3>2
    <2> QED
      BY <1>1, <1>2, <2>3, <2>4 DEF VariablesInv
  <1> QED
    BY <1>3, <1>4

\* A node that publishes has not before; what was saved stays, and what is saved
\* now has its variables on top.
LEMMA PublishVariables ==
  ASSUME Ground, TypeOK', PublishedByDone, VariablesInv, Publish
  PROVE  VariablesInv'
  <1> DEFINE c   == cur.node
             out == OutputOf(cur)
  <1>1. /\ c \in Nodes /\ nodeStat[c] = "running" /\ out \in Output /\ out.node = c
        /\ sym'.nodes = [sym.nodes EXCEPT ![c] = out]
    BY PublishesOnce DEF Ground, SavedExact
  <1>2. sym \in SymbolTable /\ sym.nodes[c] = Unset /\ out # Unset
    BY <1>1, SymbolAssumption DEF Ground, SavedExact, PublishedByDone
  <1>3. /\ sym'.nodes[c] = out
        /\ \A n \in Nodes \ {c} : sym'.nodes[n] = sym.nodes[n]
    BY <1>1, <1>2 DEF SymbolTable
  <1>4. symVars \subseteq Nodes /\ c \notin symVars
    BY <1>2, GraphAssumption DEF Ground, TypeOK, VariablesInv
  <1>5. symVars' = IF c \in SetVarNodes THEN symVars \cup {c} ELSE symVars
    BY DEF Publish, HandlePropagate, Propagate
  <1>6. \A k \in Keys : sym'.vars[k] = IF c \in SetVarNodes /\ k \in KeysOf(out)
                                       THEN out ELSE sym.vars[k]
    BY <1>2 DEF Publish, SetNodeOutput, SetVars, SymbolTable
  <1>7. /\ savedVars'[symVars'] = sym'.vars
        /\ \A vs \in SUBSET SetVarNodes : vs # symVars' => savedVars'[vs] = savedVars[vs]
    <2>1. savedVars' = [savedVars EXCEPT ![symVars'] = sym'.vars]
      BY DEF Publish
    <2>2. symVars' \in SUBSET SetVarNodes
      BY DEF TypeOK
    <2> QED
      BY <2>1, <2>2 DEF Ground, SavedExact
  <1>8. savedVars[symVars] = sym.vars /\ symVars \in SUBSET SetVarNodes
    BY DEF Ground, SavedExact, TypeOK
  <1> HIDE DEF c, out
  <1>9. ASSUME NEW vs, Saved(vs)
        PROVE  Saved(vs)'
    <2>1. vs \subseteq symVars /\ vs \in SUBSET SetVarNodes /\ c \notin vs
      BY <1>4, <1>8, <1>9 DEF Saved
    <2>2. \A n \in vs : sym'.nodes[n] = sym.nodes[n]
      BY <1>3, <1>4, <2>1
    <2>3. \A k \in Keys : savedVars'[vs][k] = savedVars[vs][k]
      <3>1. CASE c \in SetVarNodes
        BY <1>5, <1>7, <2>1, <3>1
      <3>2. CASE c \notin SetVarNodes
        BY <1>5, <1>6, <1>7, <1>8, <2>1, <3>2
      <3> QED
        BY <3>1, <3>2
    <2>4. \A k \in Keys : sym'.vars[k] # Unset /\ sym'.vars[k].node \in vs =>
                            sym'.vars[k] = sym.vars[k]
      BY <1>1, <1>6, <2>1 DEF c, out
    <2>5. ASSUME NEW k \in Keys
          PROVE  Holds(vs, k)'
      <3>1. Holds(vs, k)
        BY <1>9 DEF Saved
      <3> QED
        BY <2>2, <2>3, <2>4, <3>1 DEF Holds
    <2> QED
      BY <1>5, <2>1, <2>5 DEF Saved
  <1>10. Saved(symVars)'
    <2>1. ASSUME NEW k \in Keys
          PROVE  Holds(symVars, k)'
      <3>1. Holds(symVars, k)
        BY DEF VariablesInv, Saved
      <3>2. CASE c \in SetVarNodes /\ k \in KeysOf(out)
        <4>1. savedVars'[symVars'][k] = out /\ sym'.vars[k] = out
          BY <1>6, <1>7, <3>2
        <4>2. out.node = c /\ c \in symVars'
          BY <1>1, <1>5, <3>2 DEF c, out
        <4> QED
          BY <1>2, <1>3, <3>2, <4>1, <4>2 DEF Holds, c, out
      <3>3. CASE ~(c \in SetVarNodes /\ k \in KeysOf(out))
        <4>1. savedVars'[symVars'][k] = sym.vars[k] /\ sym'.vars[k] = sym.vars[k]
          BY <1>6, <1>7, <3>3
        <4>2. \A n \in symVars : n \in symVars' /\ sym'.nodes[n] = sym.nodes[n]
          BY <1>3, <1>4, <1>5
        <4>3. \A n \in symVars' : n \in symVars \/ (n = c /\ c \in SetVarNodes)
          BY <1>5
        <4>4. CASE sym.vars[k] = Unset
          <5>1. \A n \in symVars' : k \notin KeysOf(sym'.nodes[n])
            BY <1>3, <1>8, <3>1, <3>3, <4>2, <4>3, <4>4 DEF Holds
          <5> QED
            BY <4>1, <4>4, <5>1 DEF Holds
        <4>5. CASE sym.vars[k] # Unset
          <5>1. /\ sym.vars[k].node \in symVars
                /\ sym.vars[k] = sym.nodes[sym.vars[k].node] /\ k \in KeysOf(sym.vars[k])
            BY <1>8, <3>1, <4>5 DEF Holds
          <5> QED
            BY <4>1, <4>2, <4>5, <5>1 DEF Holds
        <4> QED
          BY <4>4, <4>5
      <3> QED
        BY <3>2, <3>3
    <2> QED
      BY <2>1 DEF Saved
  <1>11. /\ dbRun'.vars = dbRun.vars
         /\ \A i \in DOMAIN persistQ' : persistQ'[i].kind = "vars" =>
              \/ i \in DOMAIN persistQ /\ persistQ'[i] = persistQ[i]
              \/ persistQ'[i].vars = symVars'
    <2>1. [Next]_vars
      BY SymbolsMove DEF Ground
    <2>2. ~Persist
      BY <1>2, <1>3 DEF Persist, Publish, HandlePropagate, Handle, driverVars
    <2> QED
      BY <2>1, <2>2, NewVariables
  <1>12. Saved(dbRun.vars)'
    <2> PICK vs : vs = dbRun.vars
      OBVIOUS
    <2>1. Saved(vs)'
      BY <1>9 DEF VariablesInv
    <2> QED
      BY <1>11, <2>1 DEF Saved, Holds
  <1>13. QueuedSaved'
    <2> SUFFICES ASSUME NEW i \in DOMAIN persistQ', persistQ'[i].kind = "vars"
                 PROVE  Saved(persistQ[i].vars)'
      BY DEF QueuedSaved
    <2>1. CASE i \in DOMAIN persistQ /\ persistQ'[i] = persistQ[i]
      <3> PICK vs : vs = persistQ[i].vars
        OBVIOUS
      <3>1. Saved(vs)'
        BY <1>9, <2>1 DEF VariablesInv, QueuedSaved
      <3> QED
        BY <2>1, <3>1 DEF Saved, Holds
    <2>2. CASE persistQ'[i].vars = symVars'
      BY <1>10, <2>2 DEF Saved, Holds
    <2> QED
      BY <1>11, <2>1, <2>2
  <1>14. \A n \in symVars' : sym'.nodes[n] # Unset
    BY <1>2, <1>3, <1>4, <1>5 DEF VariablesInv
  <1> QED
    BY <1>10, <1>12, <1>13, <1>14 DEF VariablesInv

LEMMA VariablesStep ==
  Ground /\ TypeOK' /\ PublishedByDone /\ VariablesInv /\ [SymNext]_<<vars, symbolVars>>
    => VariablesInv'
  <1> SUFFICES ASSUME Ground, TypeOK', PublishedByDone, VariablesInv,
                      [SymNext]_<<vars, symbolVars>>
               PROVE  VariablesInv'
    OBVIOUS
  <1>1. CASE UNCHANGED <<vars, symbolVars>>
    BY <1>1 DEF VariablesInv, QueuedSaved, Saved, Holds, vars, driverVars, storeVars, symbolVars
  <1> QED
    BY <1>1, QuietVariables, PublishVariables DEF SymNext, Over

(***************************************************************************)
(* At every moment the variables a replay finds are what the nodes it      *)
(* covers have set: nothing else, nothing missing, and of a variable set   *)
(* more than once the last if its node is covered; whatever order the      *)
(* nodes publish in and whatever write was lost before (symbols.go:168,    *)
(* scheduler.go:290).                                                      *)
(***************************************************************************)
THEOREM VariablesSurvive == SymSpec => []VariablesReplayed
  <1>1. VariablesInv => VariablesReplayed
    BY DEF VariablesInv, Saved, Holds, VariablesReplayed, VariableReplayed, Replayed,
           FromPersistedState
  <1>2. Ground /\ Ground' /\ SnapshotInv /\ VariablesInv /\ [SymNext]_<<vars, symbolVars>>
          => VariablesInv'
    BY VariablesStep DEF Ground, SnapshotInv
  <1> QED
    BY <1>1, <1>2, VariablesInit, GroundAlways, SnapshotsAlways, PTL DEF SymSpec
-----------------------------------------------------------------------------
(***************************************************************************)
(* The replay.  A stored or queued row that a replay shows is the end of   *)
(* the attempt whose output was published; while no error was told, the    *)
(* row of a published output is stored or queued.                          *)
(***************************************************************************)
AsShown(n, a, row) == [node |-> n, attempt |-> a, by |-> SourceOf(row)]

ShownIsPublished ==
  \A n \in Nodes :
    /\ \A a \in Attempts :
         VisibleRow(rows[n][a]) => sym.nodes[n] = AsShown(n, a, rows[n][a])
    /\ \A i \in Queued(n) :
         VisibleRow(persistQ[i].row) =>
           sym.nodes[n] = AsShown(n, persistQ[i].attempt, persistQ[i].row)

\* Nothing is shown of an attempt before its end is stored.
OpenIsHidden ==
  \A n \in Nodes, a \in Attempts :
    rows[n][a].status \in {"absent", "running"} => ~rows[n][a].fallback

Shows(n, a) ==
  \/ a \in Attempts /\ VisibleRow(rows[n][a])
  \/ \E i \in Finishes(n, a) : VisibleRow(persistQ[i].row)

PublishedIsShown ==
  Clean => \A n \in Nodes :
    sym.nodes[n] = Unset \/ sym.nodes[n].by = "error" \/ Shows(n, sym.nodes[n].attempt)

ReplayInv == ShownIsPublished /\ OpenIsHidden /\ PublishedIsShown

LEMMA ShownTyped ==
  ASSUME NEW n \in Nodes, NEW a \in Nat, NEW row
  PROVE  AsShown(n, a, row) \in Output /\ AsShown(n, a, row) # Unset
  BY SymbolAssumption DEF AsShown, SourceOf, Output, Sources

\* What the persister shows by its step was queued to be shown.
LEMMA AppliedShown ==
  ASSUME TypeOK, RowsLegal, NEW op \in Op, LegalWrite(op), op.kind # "vars",
         NEW k \in 0..3, Applies(op, k)
  PROVE  LET old == rows[op.node][op.attempt]
             new == rows'[op.node][op.attempt] IN
         \/ new.status = old.status /\ new.fallback = old.fallback
         \/ new.status = op.row.status /\ new.fallback = op.row.fallback
  <1> DEFINE old == rows[op.node][op.attempt]
             new == rows'[op.node][op.attempt]
  <1>1. op.node \in Nodes /\ op.attempt \in Attempts /\ op.row \in Row
    BY InAttempts DEF Op, LegalWrite
  <1>2. old \in Row
    BY <1>1 DEF TypeOK
  <1>3. rows' = [rows EXCEPT ![op.node][op.attempt] = Written(op, k)]
    BY DEF Applies, Store
  <1>4. new = Written(op, k)
    BY <1>1, <1>3 DEF TypeOK
  <1>5. /\ WithResolved(op, old) \in Row
        /\ WithResolved(op, old).status = old.status
        /\ WithResolved(op, old).fallback = old.fallback
    BY <1>1, <1>2 DEF WithResolved, Row
  <1>6. /\ WithOutput(op, WithResolved(op, old)) \in Row
        /\ WithOutput(op, WithResolved(op, old)).status = old.status
        /\ WithOutput(op, WithResolved(op, old)).fallback = old.fallback
    BY <1>1, <1>5 DEF WithOutput, Row
  <1>7. CASE k = 0
    BY <1>4, <1>7 DEF Written
  <1>8. CASE k = 1
    BY <1>4, <1>5, <1>8 DEF Written
  <1>9. CASE k = 2
    BY <1>4, <1>6, <1>9 DEF Written
  <1>10. CASE k = 3
    <2>1. new = WithStatus(op, WithOutput(op, WithResolved(op, old)))
      BY <1>4, <1>10 DEF Written
    <2>2. new.status = op.row.status /\ new.fallback = op.row.fallback
      BY <1>1, <1>6, <2>1 DEF WithStatus, Row
    <2> QED
      BY <2>2
  <1> QED
    BY <1>7, <1>8, <1>9, <1>10

\* The end that propagate queues: shown, unless it fires the error port.
LEMMA PublishSends ==
  ASSUME TypeOK, TypeOK', TaskInv, Publish
  PROVE  \E op \in Op :
           /\ Sends(cur.node, op)
           /\ op.kind = "finish" /\ op.attempt = cur.attempt
           /\ VisibleRow(op.row) <=> OutputOf(cur).by # "error"
           /\ VisibleRow(op.row) => SourceOf(op.row) = OutputOf(cur).by
  <1>1. HandlePropagate /\ Handle /\ UNCHANGED timers
    BY DEF Publish, HandlePropagate
  <1>2. /\ cur \in Result /\ cur.node \in Nodes
        /\ UNCHANGED <<attemptCounter, retryCh, persistErr, rows, dbRun, faults>>
    BY <1>1, HandKind DEF TaskInv, TokenInv
  <1>3. PICK s \in {"success", "failed"}, p \in Ports, fb \in BOOLEAN :
          /\ Propagate(p, s, fb)
          /\ OutputOf(cur).by = IF s = "success" THEN "success"
                                ELSE IF fb THEN "fallback" ELSE "error"
          /\ s = "success" => ~fb
    <2>1. FallbackPort[cur.node] \in Ports /\ ErrorPort \in Ports
      BY <1>2, PolicyAssumption, PortAssumption
    <2>2. CASE cur.out \in Ports /\ Propagate(cur.out, "success", FALSE)
      BY <2>2, PortAssumption DEF OutputOf, Failed
    <2>3. CASE /\ Exhausted /\ OnFinalFail[cur.node] = "fallback"
               /\ Propagate(FallbackPort[cur.node], "failed", TRUE)
      BY <2>1, <2>3 DEF OutputOf, Exhausted
    <2>4. CASE /\ Exhausted /\ OnFinalFail[cur.node] = "fire_error_port"
               /\ Propagate(ErrorPort, "failed", FALSE)
      BY <2>1, <2>4 DEF OutputOf, Exhausted
    <2> QED
      BY <1>1, <2>2, <2>3, <2>4 DEF HandlePropagate
  <1> PICK vs \in SUBSET SetVarNodes : vs = symVars'
    BY DEF TypeOK
  <1> DEFINE op == FinishOp(cur, s, p, fb)
             vop == VarsOp(cur, vs)
  <1>4. /\ op \in Op /\ vop \in Op /\ vop.kind = "vars" /\ vop.vars = symVars'
    BY <1>2, OpsTyped DEF RowStatus, RowPorts, VarsOp
  <1>5. /\ op.kind = "finish" /\ op.node = cur.node /\ op.attempt = cur.attempt
        /\ op.row.status = s /\ op.row.fallback = fb
    BY DEF FinishOp
  <1> HIDE DEF op, vop
  <1>6. Queues(op)
    <2>1. CASE cur.node \in SetVarNodes
      <3>1. Send(<<op, vop>>)
        BY <1>3, <2>1 DEF Propagate, op, vop
      <3> QED
        BY <1>4, <3>1, SendsTwo
    <2>2. CASE cur.node \notin SetVarNodes
      <3>1. Send(<<op>>) /\ UNCHANGED symVars
        BY <1>3, <2>2 DEF Propagate, op
      <3> QED
        BY <1>4, <3>1, SendsOne
    <2> QED
      BY <2>1, <2>2
  <1>7. \A m \in Nodes \ {cur.node} : SameNode(m)
    <2>1. nodeStat' = [nodeStat EXCEPT ![cur.node] = "done"]
      BY <1>3 DEF Propagate
    <2> QED
      BY <1>1, <1>2, <2>1, SameRetries DEF SameNode, TypeOK
  <1>8. Sends(cur.node, op)
    BY <1>2, <1>4, <1>5, <1>6, <1>7 DEF Sends
  <1> QED
    BY <1>3, <1>4, <1>5, <1>8 DEF VisibleRow, SourceOf

\* The queue grows, by nothing a replay shows.
LEMMA HiddenGrowth ==
  ASSUME TypeOK, QueuesHidden
  PROVE  /\ \A i \in DOMAIN persistQ : i \in DOMAIN persistQ' /\ persistQ'[i] = persistQ[i]
         /\ \A i \in DOMAIN persistQ' :
              i \in DOMAIN persistQ \/ ~VisibleRow(persistQ'[i].row)
  <1>1. CASE persistQ' = persistQ
    BY <1>1
  <1>2. CASE \E op \in Op : persistQ' = persistQ \o <<op>> /\ ~VisibleRow(op.row)
    <2>1. PICK op \in Op : persistQ' = persistQ \o <<op>> /\ ~VisibleRow(op.row)
      BY <1>2
    <2>2. persistQ \in Seq(Op) /\ Len(persistQ) \in Nat
      BY DEF TypeOK
    <2>3. /\ DOMAIN persistQ = 1..Len(persistQ)
          /\ DOMAIN persistQ' = 1..(Len(persistQ) + 1)
          /\ \A i \in 1..Len(persistQ) : persistQ'[i] = persistQ[i]
          /\ persistQ'[Len(persistQ) + 1] = op
      BY <2>1, <2>2
    <2> QED
      BY <2>1, <2>2, <2>3
  <1> QED
    BY <1>1, <1>2 DEF QueuesHidden

LEMMA ShowsBySend ==
  ASSUME rows' = rows,
         \A i \in DOMAIN persistQ : i \in DOMAIN persistQ' /\ persistQ'[i] = persistQ[i],
         NEW n \in Nodes, NEW a, Shows(n, a)
  PROVE  Shows(n, a)'
  BY DEF Shows, Finishes, Queued

LEMMA QuietReplay ==
  ASSUME Ground, TypeOK', ReplayInv, Quiet, ~Persist
  PROVE  ReplayInv'
  <1>1. QueuesHidden /\ rows' = rows /\ sym' = sym
    BY QuietWrites, QuietGraph DEF Ground
  <1>2. /\ \A i \in DOMAIN persistQ : i \in DOMAIN persistQ' /\ persistQ'[i] = persistQ[i]
        /\ \A i \in DOMAIN persistQ' :
             i \in DOMAIN persistQ \/ ~VisibleRow(persistQ'[i].row)
    BY <1>1, HiddenGrowth DEF Ground
  <1>3. ShownIsPublished'
    <2>1. \A n \in Nodes : \A i \in Queued(n)' :
            VisibleRow(persistQ'[i].row) => i \in Queued(n) /\ persistQ'[i] = persistQ[i]
      BY <1>2 DEF Queued
    <2> QED
      BY <1>1, <2>1 DEF ReplayInv, ShownIsPublished
  <1>4. OpenIsHidden'
    BY <1>1 DEF ReplayInv, OpenIsHidden
  <1>5. PublishedIsShown'
    <2> SUFFICES ASSUME Clean',
                        NEW n \in Nodes, sym'.nodes[n] # Unset, sym'.nodes[n].by # "error"
                 PROVE  Shows(n, sym.nodes[n].attempt)'
      BY DEF PublishedIsShown
    <2>1. Clean
      BY SymbolsMove, CleanBefore DEF Ground
    <2>2. Shows(n, sym.nodes[n].attempt)
      BY <1>1, <2>1 DEF ReplayInv, PublishedIsShown
    <2> DEFINE a == sym.nodes[n].attempt
    <2>3. PICK b : b = a
      OBVIOUS
    <2>4. Shows(n, b)'
      BY <1>1, <1>2, <2>2, <2>3, ShowsBySend
    <2>5. sym'.nodes[n].attempt = b
      BY <1>1, <2>3
    <2> QED
      BY <2>4, <2>5 DEF Shows
  <1> QED
    BY <1>3, <1>4, <1>5 DEF ReplayInv

LEMMA PublishReplay ==
  ASSUME Ground, TypeOK', SnapshotInv, ReplayInv, Publish
  PROVE  ReplayInv'
  <1> PICK c \in Nodes : c = cur.node
    BY PublishesOnce DEF Ground, SavedExact
  <1>1. /\ nodeStat[c] = "running"
        /\ OutputOf(cur) \in Output
        /\ sym'.nodes = [sym.nodes EXCEPT ![c] = OutputOf(cur)]
        /\ rows' = rows /\ sym \in SymbolTable
    BY PublishesOnce DEF Ground, SavedExact
  <1>2. PICK op \in Op :
           /\ Sends(c, op)
           /\ op.kind = "finish" /\ op.attempt = cur.attempt
           /\ VisibleRow(op.row) <=> OutputOf(cur).by # "error"
           /\ VisibleRow(op.row) => SourceOf(op.row) = OutputOf(cur).by
    BY PublishSends DEF Ground
  <1> DEFINE last == Len(persistQ) + 1
  <1>3. /\ \A m \in Nodes \ {c} : Queued(m)' = Queued(m)
        /\ Queued(c)' = Queued(c) \cup {last}
        /\ \A i \in DOMAIN persistQ : i \in DOMAIN persistQ' /\ persistQ'[i] = persistQ[i]
        /\ persistQ'[last] = op
    BY <1>1, <1>2, QueuedAfterSend DEF Ground
  <1>4. /\ sym.nodes[c] = Unset
        /\ sym'.nodes[c] = OutputOf(cur)
        /\ \A m \in Nodes \ {c} : sym'.nodes[m] = sym.nodes[m]
    BY <1>1 DEF SnapshotInv, PublishedByDone, SymbolTable
  <1>5. \A n : Queued(n) \subseteq DOMAIN persistQ
    BY DEF Queued
  <1> HIDE DEF last
  <1>6. ShownIsPublished'
    <2> SUFFICES ASSUME NEW n \in Nodes
                 PROVE  /\ \A a \in Attempts :
                             VisibleRow(rows[n][a]) => sym'.nodes[n] = AsShown(n, a, rows[n][a])
                        /\ \A i \in Queued(n)' :
                             VisibleRow(persistQ'[i].row) =>
                               sym'.nodes[n] = AsShown(n, persistQ'[i].attempt, persistQ'[i].row)
      BY <1>1 DEF ShownIsPublished
    <2>1. /\ \A a \in Attempts :
               VisibleRow(rows[n][a]) => sym.nodes[n] = AsShown(n, a, rows[n][a])
          /\ \A i \in Queued(n) :
               VisibleRow(persistQ[i].row) =>
                 sym.nodes[n] = AsShown(n, persistQ[i].attempt, persistQ[i].row)
      BY DEF ReplayInv, ShownIsPublished
    <2>2. CASE n # c
      BY <1>3, <1>4, <1>5, <2>1, <2>2
    <2>3. CASE n = c
      <3>1. \A a \in Attempts : ~VisibleRow(rows[n][a])
        BY <1>4, <2>1, <2>3, AttemptsNat, ShownTyped
      <3>2. \A i \in Queued(n) : ~VisibleRow(persistQ[i].row)
        BY <1>4, <2>1, <2>3, QueuedTyped, ShownTyped DEF Ground, Op
      <3>3. VisibleRow(op.row) => OutputOf(cur) = AsShown(n, op.attempt, op.row)
        BY <1>2, <2>3 DEF AsShown, OutputOf
      <3> QED
        BY <1>3, <1>4, <1>5, <2>3, <3>1, <3>2, <3>3
    <2> QED
      BY <2>2, <2>3
  <1>7. OpenIsHidden'
    BY <1>1 DEF ReplayInv, OpenIsHidden
  <1>8. PublishedIsShown'
    <2> SUFFICES ASSUME Clean',
                        NEW n \in Nodes, sym'.nodes[n] # Unset, sym'.nodes[n].by # "error"
                 PROVE  Shows(n, sym.nodes[n].attempt)'
      BY DEF PublishedIsShown
    <2>1. Clean
      BY SymbolsMove, CleanBefore DEF Ground
    <2>2. CASE n # c
      <3>1. sym'.nodes[n] = sym.nodes[n]
        BY <1>4, <2>2
      <3>2. PICK b : b = sym.nodes[n].attempt
        OBVIOUS
      <3>3. Shows(n, b)
        BY <2>1, <3>1, <3>2 DEF ReplayInv, PublishedIsShown
      <3>4. Shows(n, b)'
        BY <1>1, <1>3, <3>3, ShowsBySend
      <3> QED
        BY <3>1, <3>2, <3>4 DEF Shows
    <2>3. CASE n = c
      <3>1. sym'.nodes[n] = OutputOf(cur) /\ sym'.nodes[n].attempt = op.attempt
        BY <1>2, <1>4, <2>3 DEF OutputOf
      <3>2. last \in Queued(n)' /\ VisibleRow(persistQ'[last].row)
        BY <1>2, <1>3, <2>3, <3>1
      <3>3. PICK b : b = op.attempt
        OBVIOUS
      <3>4. last \in Finishes(n, b)'
        BY <1>2, <1>3, <3>2, <3>3 DEF Finishes
      <3>5. Shows(n, b)'
        BY <3>2, <3>4 DEF Shows
      <3> QED
        BY <3>1, <3>3, <3>5 DEF Shows
    <2> QED
      BY <2>2, <2>3
  <1> QED
    BY <1>6, <1>7, <1>8 DEF ReplayInv

LEMMA ApplyShown ==
  ASSUME TypeOK, TypeOK', RowInv, ShownIsPublished, OpenIsHidden, sym' = sym,
         NEW op \in Op, NEW k \in 0..3, Applies(op, k)
  PROVE  ShownIsPublished' /\ OpenIsHidden'
  <1>1. /\ 1 \in DOMAIN persistQ /\ persistQ[1] = op
        /\ op.kind # "vars" => 1 \in Queued(op.node)
        /\ \A m : \A i \in Queued(m)' : i + 1 \in Queued(m) /\ persistQ'[i] = persistQ[i + 1]
    BY QueuedAfterApply
  <1>2. LegalWrite(op)
    BY <1>1 DEF RowInv, WritesLegal
  <1>3. \A n \in Nodes : \A i \in Queued(n)' :
          VisibleRow(persistQ'[i].row) =>
            sym'.nodes[n] = AsShown(n, persistQ'[i].attempt, persistQ'[i].row)
    BY <1>1 DEF ShownIsPublished
  <1>4. CASE op.kind = "vars"
    <2>1. rows' = rows
      BY <1>4 DEF Applies, Store
    <2> QED
      BY <1>3, <2>1 DEF ShownIsPublished, OpenIsHidden
  <1>5. CASE op.kind # "vars"
    <2> DEFINE old == rows[op.node][op.attempt]
               new == rows'[op.node][op.attempt]
    <2>1. /\ op.node \in Nodes /\ op.attempt \in Attempts /\ OtherRows(op)
          /\ Left(op, old, new) \/ Inserted(op, old, new) \/ Closed(op, old, new)
      BY <1>2, <1>5, AppliedRow DEF RowInv
    <2>2. \/ new.status = old.status /\ new.fallback = old.fallback
          \/ new.status = op.row.status /\ new.fallback = op.row.fallback
      BY <1>2, <1>5, AppliedShown DEF RowInv
    <2>3. /\ VisibleRow(old) => sym.nodes[op.node] = AsShown(op.node, op.attempt, old)
          /\ VisibleRow(op.row) => sym.nodes[op.node] = AsShown(op.node, op.attempt, op.row)
      BY <1>1, <1>5, <2>1 DEF ShownIsPublished
    <2>4. VisibleRow(new) => sym'.nodes[op.node] = AsShown(op.node, op.attempt, new)
      BY <2>2, <2>3 DEF VisibleRow, AsShown, SourceOf
    <2>5. new.status \in {"absent", "running"} => ~new.fallback
      <3>1. CASE new.status = old.status /\ new.fallback = old.fallback
        BY <2>1, <3>1 DEF OpenIsHidden
      <3>2. CASE new.status = op.row.status /\ new.fallback = op.row.fallback
        BY <1>2, <1>5, <3>2 DEF LegalWrite, Insertion, Ending, Op
      <3> QED
        BY <2>2, <3>1, <3>2
    <2> HIDE DEF old, new
    <2>6. \A n \in Nodes, a \in Attempts :
            VisibleRow(rows'[n][a]) => sym'.nodes[n] = AsShown(n, a, rows'[n][a])
      BY <2>1, <2>4 DEF OtherRows, ShownIsPublished, new
    <2>7. OpenIsHidden'
      BY <2>1, <2>5 DEF OtherRows, OpenIsHidden, new
    <2> QED
      BY <1>3, <2>6, <2>7 DEF ShownIsPublished
  <1> QED
    BY <1>4, <1>5

LEMMA ShowsByApply ==
  ASSUME TypeOK, TypeOK', RowInv, OpenIsHidden, NEW op \in Op,
         NEW k \in 0..3, Applies(op, k), ~persistErr', NEW m \in Nodes
  PROVE  \A a : Shows(m, a) => Shows(m, a)'
  <1> SUFFICES ASSUME NEW a, Shows(m, a) PROVE Shows(m, a)'
    OBVIOUS
  <1>1. 1 \in DOMAIN persistQ /\ persistQ[1] = op
    BY QueuedTyped DEF Applies
  <1>2. LegalWrite(op) /\ RowsLegal /\ WritesLegal
    BY <1>1 DEF RowInv, WritesLegal
  <1>3. CASE op.kind = "vars"
    <2>1. rows' = rows
      BY <1>3 DEF Applies, Store
    <2>2. 1 \notin Finishes(m, a)
      BY <1>1, <1>3 DEF Finishes
    <2>3. \A i \in Finishes(m, a) : i - 1 \in Finishes(m, a)' /\ persistQ'[i - 1] = persistQ[i]
      BY <2>2, KeptByApply
    <2> QED
      BY <2>1, <2>3 DEF Shows
  <1>4. CASE op.kind # "vars"
    <2> DEFINE old == rows[op.node][op.attempt]
               new == rows'[op.node][op.attempt]
    <2>1. /\ op.node \in Nodes /\ op.attempt \in Attempts /\ OtherRows(op)
          /\ Inserted(op, old, new) \/ Closed(op, old, new)
      BY <1>2, <1>4, CleanWrite
    <2>2. Closed(op, old, new) /\ VisibleRow(op.row) => VisibleRow(new)
      BY DEF Closed, VisibleRow
    <2>3. ~VisibleRow(old)
      BY <2>1 DEF Inserted, Closed, VisibleRow, OpenIsHidden
    <2>4. CASE a \in Attempts /\ VisibleRow(rows[m][a])
      <3>1. m # op.node \/ a # op.attempt
        BY <2>3, <2>4
      <3>2. rows'[m][a] = rows[m][a]
        BY <2>1, <2>4, <3>1 DEF OtherRows
      <3> QED
        BY <2>4, <3>2 DEF Shows
    <2>5. ASSUME NEW i \in Finishes(m, a), VisibleRow(persistQ[i].row)
          PROVE  Shows(m, a)'
      <3>1. CASE i # 1
        <4>1. i - 1 \in Finishes(m, a)' /\ persistQ'[i - 1] = persistQ[i]
          BY <3>1, KeptByApply
        <4> QED
          BY <2>5, <4>1 DEF Shows
      <3>2. CASE i = 1
        <4>1. op.kind = "finish" /\ op.node = m /\ op.attempt = a
          BY <1>1, <2>5, <3>2 DEF Finishes, Queued
        <4>2. VisibleRow(new)
          BY <1>1, <2>1, <2>2, <2>5, <3>2, <4>1 DEF Inserted
        <4> QED
          BY <2>1, <4>1, <4>2 DEF Shows
      <3> QED
        BY <3>1, <3>2
    <2> QED
      BY <2>4, <2>5 DEF Shows
  <1> QED
    BY <1>3, <1>4

LEMMA PersistReplay ==
  ASSUME Ground, TypeOK', ReplayInv, Quiet, Persist
  PROVE  ReplayInv'
  <1>1. sym' = sym
    BY QuietGraph DEF Ground
  <1>2. PICK op \in Op, k \in 0..3 : Applies(op, k)
    BY PersistApplies DEF Ground
  <1>3. ShownIsPublished' /\ OpenIsHidden'
    BY <1>1, <1>2, ApplyShown DEF Ground, ReplayInv
  <1>4. PublishedIsShown'
    <2> SUFFICES ASSUME Clean',
                        NEW n \in Nodes, sym'.nodes[n] # Unset, sym'.nodes[n].by # "error"
                 PROVE  Shows(n, sym.nodes[n].attempt)'
      BY DEF PublishedIsShown
    <2>1. Clean
      BY SymbolsMove, CleanBefore DEF Ground
    <2>2. ~persistErr'
      BY Zenon DEF Clean
    <2>3. PICK b : b = sym.nodes[n].attempt
      OBVIOUS
    <2>4. Shows(n, b)
      BY <1>1, <2>1, <2>3 DEF ReplayInv, PublishedIsShown
    <2>5. Shows(n, b)'
      BY <1>2, <2>2, <2>4, ShowsByApply DEF Ground, ReplayInv
    <2>6. sym'.nodes[n].attempt = b
      BY <1>1, <2>3
    <2> QED
      BY <2>5, <2>6 DEF Shows
  <1> QED
    BY <1>3, <1>4 DEF ReplayInv

LEMMA ReplayStep ==
  Ground /\ TypeOK' /\ SnapshotInv /\ ReplayInv /\ [SymNext]_<<vars, symbolVars>> => ReplayInv'
  <1> SUFFICES ASSUME Ground, TypeOK', SnapshotInv, ReplayInv,
                      [SymNext]_<<vars, symbolVars>>
               PROVE  ReplayInv'
    OBVIOUS
  <1>1. CASE Publish
    BY <1>1, PublishReplay
  <1>2. CASE Quiet
    BY <1>2, QuietReplay, PersistReplay
  <1>3. CASE UNCHANGED <<vars, symbolVars>>
    BY <1>3 DEF ReplayInv, ShownIsPublished, OpenIsHidden, PublishedIsShown, Shows, Finishes,
                Queued, Clean, vars, driverVars, storeVars, symbolVars
  <1> QED
    BY <1>1, <1>2, <1>3 DEF SymNext, Over

LEMMA ReplayInit == SymInit => ReplayInv
  <1> SUFFICES ASSUME SymInit PROVE ReplayInv
    OBVIOUS
  <1>1. /\ DOMAIN persistQ = {}
        /\ \A n \in Nodes, a \in Attempts : rows[n][a] = EmptyRow
        /\ \A n \in Nodes : sym.nodes[n] = Unset
    BY DEF SymInit, Init, NewSymbols
  <1> QED
    BY <1>1 DEF ReplayInv, ShownIsPublished, OpenIsHidden, PublishedIsShown, Queued,
                VisibleRow, EmptyRow

LEMMA ReplayAlways == SymSpec => []ReplayInv
  <1>1. Ground /\ Ground' /\ SnapshotInv /\ ReplayInv /\ [SymNext]_<<vars, symbolVars>>
          => ReplayInv'
    BY ReplayStep DEF Ground
  <1> QED
    BY <1>1, ReplayInit, SnapshotsAlways, GroundAlways, PTL DEF SymSpec

\* A node has at most one visible row, that of the output it published.
LEMMA RebuiltIsPublished ==
  ASSUME ReplayInv, NEW n \in Nodes
  PROVE  LET out == RebuiltOutput(n, rows[n]) IN
         /\ out \in {Unset, sym.nodes[n]}
         /\ sym.nodes[n] = Unset => out = Unset
         /\ \A a \in Attempts : VisibleRow(rows[n][a]) => out = sym.nodes[n]
  <1> DEFINE visible == {a \in Attempts : VisibleRow(rows[n][a])}
  <1>1. \A a \in visible : a \in Nat /\ sym.nodes[n] = AsShown(n, a, rows[n][a])
    BY AttemptsNat DEF ReplayInv, ShownIsPublished
  <1>2. CASE visible = {}
    BY <1>2 DEF RebuiltOutput
  <1>3. CASE visible # {}
    <2>1. PICK b \in visible : TRUE
      BY <1>3
    <2>2. \A a \in visible : a = b
      <3>1. \A a \in visible : sym.nodes[n].attempt = a
        <4> TAKE a \in visible
        <4>1. sym.nodes[n] = AsShown(n, a, rows[n][a])
          BY <1>1
        <4>2. AsShown(n, a, rows[n][a]).attempt = a
          BY DEF AsShown
        <4> QED
          BY <4>1, <4>2
      <3> QED
        BY <2>1, <3>1
    <2>3. visible = {b} /\ b \in Nat
      BY <1>1, <2>1, <2>2
    <2>4. Max(visible) = b
      <3> HIDE DEF visible
      <3> QED
        BY <2>3 DEF Max
    <2>5. RebuiltOutput(n, rows[n]) = AsShown(n, b, rows[n][b])
      BY <1>3, <2>4 DEF RebuiltOutput, AsShown
    <2>6. sym.nodes[n] = AsShown(n, b, rows[n][b]) /\ sym.nodes[n] # Unset
      BY <1>1, <2>1, ShownTyped
    <2> QED
      BY <2>5, <2>6
  <1> QED
    BY <1>2, <1>3

(***************************************************************************)
(* At every moment of any run, after any lost write and hence after any    *)
(* crash, what is rebuilt from the rows was published by the run, and the  *)
(* variables are those after the nodes they cover (symbols.go:168).        *)
(***************************************************************************)
THEOREM ReplayShowsTheRun == SymSpec => []ReplayWithinRun
  <1>1. ReplayInv => OutputsReplayed
    <2> SUFFICES ASSUME ReplayInv, NEW n \in Nodes
                 PROVE  Replayed.nodes[n] \in {Unset, sym.nodes[n]}
      BY DEF OutputsReplayed
    <2> QED
      BY RebuiltIsPublished DEF Replayed, FromPersistedState
  <1> QED
    BY <1>1, ReplayAlways, VariablesSurvive, PTL DEF ReplayWithinRun

(***************************************************************************)
(* The replay of a run that was reported without a failure of the engine's *)
(* own is that run: every output but the error ports', the last variables, *)
(* and what each attempt was given of them (symbols.go:167, 191).          *)
(***************************************************************************)
THEOREM ReplayIsTheRun == SymSpec => []ReplayIsRun
  <1>1. Ground /\ EndInv /\ RunRowInv /\ CleanInv /\ SnapshotInv /\ ReplayInv => ReplayIsRun
    <2> SUFFICES ASSUME Ground, EndInv, RunRowInv, CleanInv, SnapshotInv, ReplayInv, ReportedClean
                 PROVE  /\ Replayed.vars = sym.vars
                        /\ \A n \in Nodes :
                             sym.nodes[n] = Unset \/ sym.nodes[n].by # "error" =>
                               /\ Replayed.nodes[n] = sym.nodes[n]
                               /\ \A t \in DOMAIN snapshots :
                                    snapshots[t].nodes[n] \in {Unset, Replayed.nodes[n]}
      BY DEF ReplayIsRun, ReportedClean
    <2>1. runFail = None /\ pc \in {"finalize", "closing", "returned", "failed"}
      BY DEF RunRowInv, CleanIsReportedLast
    <2>2. /\ Clean /\ dbRun.vars = symVars /\ \A n : Queued(n) = {}
      BY <2>1, RowsAtEnd DEF Ground
    <2>3. Replayed.vars = sym.vars
      BY <2>2 DEF Ground, SavedExact, Replayed, FromPersistedState
    <2>4. ASSUME NEW n \in Nodes, sym.nodes[n] = Unset \/ sym.nodes[n].by # "error"
          PROVE  Replayed.nodes[n] = sym.nodes[n]
      <3>1. Replayed.nodes[n] = RebuiltOutput(n, rows[n])
        BY DEF Replayed, FromPersistedState
      <3>2. CASE sym.nodes[n] = Unset
        BY <3>1, <3>2, RebuiltIsPublished
      <3>3. CASE sym.nodes[n] # Unset
        <4>1. Shows(n, sym.nodes[n].attempt)
          BY <2>2, <2>4, <3>3 DEF ReplayInv, PublishedIsShown
        <4>2. \E a \in Attempts : VisibleRow(rows[n][a])
          BY <2>2, <4>1 DEF Shows, Finishes
        <4> QED
          BY <3>1, <4>2, RebuiltIsPublished
      <3> QED
        BY <3>2, <3>3
    <2>5. \A n \in Nodes, t \in DOMAIN snapshots : snapshots[t].nodes[n] \in {Unset, sym.nodes[n]}
      BY DEF SnapshotInv, SnapshotsStand
    <2> QED
      BY <2>3, <2>4, <2>5
  <1> QED
    BY <1>1, GroundAlways, SnapshotsAlways, ReplayAlways, SymbolsRefineEngine, EndAlways,
       RunRowAlways, CleanAlways, PTL
-----------------------------------------------------------------------------
(***************************************************************************)
(* What an attempt sees.  While the insert of an attempt is queued, what   *)
(* the rows show, and what queued writes will show before it, was          *)
(* published when the attempt was given its snapshot.                      *)
(***************************************************************************)
Saw(t, n) == snapshots[t].nodes[n] = sym.nodes[n]

SeenBefore ==
  \A t \in DOMAIN snapshots : \A i \in Appends(t.node, t.attempt) : \A n \in Nodes :
    /\ \A a \in Attempts : VisibleRow(rows[n][a]) => Saw(t, n)
    /\ \A j \in Queued(n) : j < i /\ VisibleRow(persistQ[j].row) => Saw(t, n)

\* An attempt known already is not inserted again, and nothing is queued
\* before a write that is queued.
LEMMA OldAppends ==
  ASSUME Ground, TypeOK', SnapshotPerAttempt, [Next]_vars, ~Persist
  PROVE  /\ rows' = rows
         /\ \A t \in DOMAIN snapshots : \A i \in Appends(t.node, t.attempt)' :
              /\ i \in Appends(t.node, t.attempt)
              /\ \A n \in Nodes : \A j \in Queued(n)' :
                   j < i => j \in Queued(n) /\ persistQ'[j] = persistQ[j]
  <1>1. CASE Still
    BY <1>1 DEF Still, Appends, Queued
  <1>2. CASE \E n \in Nodes, op \in Op : Starts(n, op) \/ GivesUp(n, op) \/ Ends(n, op)
    <2>1. PICK n \in Nodes, op \in Op : Starts(n, op) \/ GivesUp(n, op) \/ Ends(n, op)
      BY <1>2
    <2>2. Sends(n, op)
      BY <2>1 DEF Starts, GivesUp, Ends
    <2>3. attemptCounter[n] \in Nat
      BY DEF Ground, TypeOK
    <2>4. op.kind = "append" => op.attempt = attemptCounter[n] + 1
      <3>1. CASE Starts(n, op)
        BY <3>1 DEF Starts, AppendOp
      <3>2. CASE GivesUp(n, op)
        BY <3>2 DEF GivesUp, AppendOp
      <3>3. CASE Ends(n, op)
        BY <3>3 DEF Ends
      <3> QED
        BY <2>1, <3>1, <3>2, <3>3
    <2>5. ASSUME NEW t \in DOMAIN snapshots, NEW i \in Appends(t.node, t.attempt)'
          PROVE  i \in Appends(t.node, t.attempt)
      <3>1. t.node \in Nodes /\ t.attempt \in Nat /\ t.attempt <= attemptCounter[t.node]
        BY DEF SnapshotPerAttempt, Task
      <3>2. ~(t.node = n /\ op.kind = "append" /\ op.attempt = t.attempt)
        BY <2>3, <2>4, <3>1
      <3> PICK m \in Nodes, a \in Nat : m = t.node /\ a = t.attempt
        BY <3>1
      <3>3. Appends(m, a)' = Appends(m, a) \cup
              (IF m = n /\ op.kind = "append" /\ op.attempt = a
               THEN {Len(persistQ) + 1} ELSE {})
        BY <2>2, KeptBySend DEF Ground
      <3>4. i \in Appends(m, a)'
        BY <2>5 DEF Appends, Queued
      <3> QED
        BY <3>2, <3>3, <3>4
    <2>6. ASSUME NEW i \in DOMAIN persistQ, NEW m \in Nodes, NEW j \in Queued(m)', j < i
          PROVE  j \in Queued(m) /\ persistQ'[j] = persistQ[j]
      <3>1. j \in DOMAIN persistQ'
        BY DEF Queued
      <3>2. j \in DOMAIN persistQ
        BY <2>6, <3>1, QueuedTyped, QueuedTypedNext DEF Ground
      <3>3. persistQ'[j] = persistQ[j]
        BY <2>2, <3>2, QueuedAfterSend DEF Ground
      <3> QED
        BY <3>2, <3>3 DEF Queued
    <2>7. \A t \in DOMAIN snapshots : Appends(t.node, t.attempt) \subseteq DOMAIN persistQ
      BY DEF Appends, Queued
    <2> QED
      BY <2>2, <2>5, <2>6, <2>7 DEF Sends
  <1> QED
    BY <1>1, <1>2, StepKinds DEF Ground, RowInv

\* What was seen stays seen, if it was published.
LEMMA SawStays ==
  ASSUME Ground, SnapshotInv, Publish \/ Quiet, Snapshot,
         NEW t \in DOMAIN snapshots, NEW n \in Nodes, Saw(t, n), sym.nodes[n] # Unset
  PROVE  Saw(t, n)'
  <1>1. snapshots'[t] = snapshots[t]
    BY SnapshotsGrow DEF SnapshotInv
  <1>2. sym'.nodes[n] = sym.nodes[n]
    BY OutputsStand DEF Ground, SavedExact, SnapshotInv
  <1> QED
    BY <1>1, <1>2 DEF Saw

\* What is shown, or about to be, was published.
LEMMA ShownPublished ==
  ASSUME ReplayInv, TypeOK, NEW n \in Nodes
  PROVE  /\ \A a \in Attempts : VisibleRow(rows[n][a]) => sym.nodes[n] # Unset
         /\ \A j \in Queued(n) : VisibleRow(persistQ[j].row) => sym.nodes[n] # Unset
  <1>1. ASSUME NEW a \in Attempts, VisibleRow(rows[n][a]) PROVE sym.nodes[n] # Unset
    BY <1>1, AttemptsNat, ShownTyped DEF ReplayInv, ShownIsPublished
  <1>2. ASSUME NEW j \in Queued(n), VisibleRow(persistQ[j].row) PROVE sym.nodes[n] # Unset
    <2>1. persistQ[j].attempt \in Nat
      BY QueuedTyped DEF Op
    <2> QED
      BY <1>2, <2>1, ShownTyped DEF ReplayInv, ShownIsPublished
  <1> QED
    BY <1>1, <1>2

\* What the persister shows was queued before all that is still queued.
LEMMA SeenByApply ==
  ASSUME Ground, TypeOK', ReplayInv, SeenBefore, NEW op \in Op, NEW k \in 0..3, Applies(op, k),
         NEW t \in DOMAIN snapshots, NEW i \in Appends(t.node, t.attempt)', NEW n \in Nodes
  PROVE  /\ \A a \in Attempts : VisibleRow(rows'[n][a]) => Saw(t, n) /\ sym.nodes[n] # Unset
         /\ \A j \in Queued(n)' : j < i /\ VisibleRow(persistQ'[j].row) =>
                                    Saw(t, n) /\ sym.nodes[n] # Unset
  <1>1. i + 1 \in Appends(t.node, t.attempt) /\ i + 1 > 1
    BY KeptByApply DEF Ground
  <1>2. /\ 1 \in DOMAIN persistQ /\ persistQ[1] = op
        /\ op.kind # "vars" => 1 \in Queued(op.node)
        /\ \A j \in Queued(n)' : j \in Nat /\ j + 1 \in Queued(n)
                                 /\ persistQ'[j] = persistQ[j + 1]
    BY QueuedAfterApply DEF Ground
  <1>3. i \in Nat
    <2>1. i \in DOMAIN persistQ'
      BY DEF Appends, Queued
    <2> QED
      BY <2>1, QueuedTypedNext
  <1>4. ASSUME NEW j \in Queued(n)', j < i, VisibleRow(persistQ'[j].row)
        PROVE  Saw(t, n) /\ sym.nodes[n] # Unset
    <2>1. j + 1 \in Queued(n) /\ j + 1 < i + 1 /\ VisibleRow(persistQ[j + 1].row)
      BY <1>2, <1>3, <1>4
    <2> QED
      BY <1>1, <2>1, ShownPublished DEF Ground, SeenBefore
  <1>5. ASSUME NEW a \in Attempts, VisibleRow(rows'[n][a])
        PROVE  Saw(t, n) /\ sym.nodes[n] # Unset
    <2>1. CASE VisibleRow(rows[n][a])
      BY <1>1, <2>1, ShownPublished DEF Ground, SeenBefore
    <2>2. CASE ~VisibleRow(rows[n][a])
      <3>1. op.kind # "vars" /\ LegalWrite(op) /\ RowsLegal
        <4>1. rows' # rows
          BY <1>5, <2>2
        <4> QED
          BY <1>2, <4>1 DEF Applies, Store, Ground, RowInv, WritesLegal
      <3>2. /\ op.node \in Nodes /\ op.attempt \in Attempts /\ OtherRows(op)
            /\ \/ /\ rows'[op.node][op.attempt].status = rows[op.node][op.attempt].status
                  /\ rows'[op.node][op.attempt].fallback = rows[op.node][op.attempt].fallback
               \/ /\ rows'[op.node][op.attempt].status = op.row.status
                  /\ rows'[op.node][op.attempt].fallback = op.row.fallback
        BY <3>1, AppliedRow, AppliedShown DEF Ground
      <3>3. n = op.node /\ a = op.attempt
        BY <1>5, <2>2, <3>2 DEF OtherRows
      <3>4. VisibleRow(op.row)
        BY <1>5, <2>2, <3>2, <3>3 DEF VisibleRow
      <3> QED
        BY <1>1, <1>2, <3>1, <3>3, <3>4, ShownPublished DEF Ground, SeenBefore
    <2> QED
      BY <2>1, <2>2
  <1> QED
    BY <1>4, <1>5

LEMMA SeenStep ==
  Ground /\ TypeOK' /\ SnapshotInv /\ ReplayInv /\ SeenBefore
    /\ [SymNext]_<<vars, symbolVars>> => SeenBefore'
  <1> SUFFICES ASSUME Ground, TypeOK', SnapshotInv, ReplayInv, SeenBefore,
                      [SymNext]_<<vars, symbolVars>>
               PROVE  SeenBefore'
    OBVIOUS
  <1>1. CASE UNCHANGED <<vars, symbolVars>>
    BY <1>1 DEF SeenBefore, Saw, Appends, Queued, vars, driverVars, storeVars, symbolVars
  <1>2. CASE (Publish \/ Quiet) /\ Snapshot
    <2>1. [Next]_vars
      BY <1>2, SymbolsMove DEF Ground
    <2> SUFFICES ASSUME NEW t \in DOMAIN snapshots', NEW i \in Appends(t.node, t.attempt)',
                        NEW n \in Nodes
                 PROVE  /\ \A a \in Attempts : VisibleRow(rows'[n][a]) => Saw(t, n)'
                        /\ \A j \in Queued(n)' : j < i /\ VisibleRow(persistQ'[j].row)
                                                   => Saw(t, n)'
      BY DEF SeenBefore, Appends, Queued
    <2>2. CASE t \notin DOMAIN snapshots
      <3>1. snapshots'[t] = sym /\ sym' = sym
        BY <1>2, <2>2, SnapshotsGrow DEF SnapshotInv, Taken
      <3> QED
        BY <3>1 DEF Saw
    <2>3. CASE t \in DOMAIN snapshots /\ Persist
      <3>1. PICK op \in Op, k \in 0..3 : Applies(op, k)
        BY <2>3, PersistApplies DEF Ground
      <3> QED
        BY <1>2, <2>3, <3>1, SeenByApply, SawStays
    <2>4. CASE t \in DOMAIN snapshots /\ ~Persist
      <3>1. /\ rows' = rows /\ i \in Appends(t.node, t.attempt)
            /\ \A j \in Queued(n)' : j < i => j \in Queued(n) /\ persistQ'[j] = persistQ[j]
        BY <2>1, <2>4, OldAppends DEF SnapshotInv
      <3>2. /\ \A a \in Attempts : VisibleRow(rows[n][a]) => Saw(t, n) /\ sym.nodes[n] # Unset
            /\ \A j \in Queued(n) : j < i /\ VisibleRow(persistQ[j].row) =>
                                      Saw(t, n) /\ sym.nodes[n] # Unset
        BY <2>4, <3>1, ShownPublished DEF SeenBefore, Ground
      <3> QED
        BY <1>2, <2>4, <3>1, <3>2, SawStays
    <2> QED
      BY <2>2, <2>3, <2>4
  <1> QED
    BY <1>1, <1>2 DEF SymNext, Over

(***************************************************************************)
(* An attempt sees the outputs it was started for, no less than the        *)
(* attempt before it, and all that a replay shows while its own row is     *)
(* still to be written: whatever the interleaving of branches, retries     *)
(* and joins (scheduler.go:126, 257, 323).                                 *)
(***************************************************************************)
THEOREM AttemptsSeeTheirSources == SymSpec => []SeesWhatFiredIt
  <1>1. Ground /\ SnapshotInv /\ ReplayInv /\ SeenBefore => SeesWhatFiredIt
    <2> SUFFICES ASSUME Ground, SnapshotInv, ReplayInv, SeenBefore,
                        NEW t \in DOMAIN snapshots, Unstored(t), NEW n \in Nodes
                 PROVE  Replayed.nodes[n] \in {Unset, snapshots[t].nodes[n]}
      BY DEF SnapshotInv, SeesWhatFiredIt, SeesWhatIsStored
    <2>1. PICK i : i \in Appends(t.node, t.attempt)
      BY DEF Unstored, Appends, Queued
    <2>2. Replayed.nodes[n] = RebuiltOutput(n, rows[n])
      BY DEF Replayed, FromPersistedState
    <2>3. CASE \E a \in Attempts : VisibleRow(rows[n][a])
      BY <2>1, <2>2, <2>3, RebuiltIsPublished DEF SeenBefore, Saw
    <2>4. CASE ~\E a \in Attempts : VisibleRow(rows[n][a])
      BY <2>2, <2>4 DEF RebuiltOutput
    <2> QED
      BY <2>3, <2>4
  <1>2. SymInit => SeenBefore
    BY DEF SymInit, SeenBefore
  <1>3. Ground /\ Ground' /\ SnapshotInv /\ ReplayInv /\ SeenBefore
          /\ [SymNext]_<<vars, symbolVars>> => SeenBefore'
    BY SeenStep DEF Ground
  <1> QED
    BY <1>1, <1>2, <1>3, GroundAlways, SnapshotsAlways, ReplayAlways, PTL DEF SymSpec
=============================================================================
