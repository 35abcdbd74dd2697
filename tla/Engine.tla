-------------------------------- MODULE Engine --------------------------------
(***************************************************************************)
(* One run of a workflow: Engine.Start and everything it starts.           *)
(*                                                                         *)
(*   driver     the goroutine of Start; it alone owns runState             *)
(*              (scheduler.go, engine.go, finalize.go)                     *)
(*   workers    one goroutine per dispatched attempt (nodeexec.go)         *)
(*   timers     one timer and one watcher goroutine per scheduled retry    *)
(*              (retry.go)                                                 *)
(*   persister  the goroutine that applies the driver's writes in order    *)
(*              (persist.go) to the database (infrastructure/storage/run)  *)
(*   caller     may cancel the context at any time; RunTimeout does the    *)
(*              same                                                       *)
(*                                                                         *)
(* A driver step is everything between two points where another goroutine  *)
(* can change what the driver reads next: the receive with its first check *)
(* of ctx.Err(), the rest of handleResult, each call of tryAdvance, and    *)
(* the cancellation that closes the iteration.                             *)
(***************************************************************************)
EXTENDS WorkflowDSL, Integers, Sequences

CONSTANTS
  PersistBuf,   \* Config.PersistBuf: capacity of persistCh
  MaxFaults,    \* bound: how many database calls fail in one behaviour
  MayCancel,    \* whether the caller's context may end
  Stubborn,     \* nodes whose executor may go on until its context ends
  None          \* a nil pointer: no End hit, no RunError

RunErrCodes == {"node_exec_failed", "output_not_serializable",
                "persistence_error", "trigger_invalid", "no_end_reached"}

ASSUME EngineAssumption ==
  /\ PersistBuf \in Nat
  /\ MaxFaults \in Nat
  /\ MayCancel \in BOOLEAN
  /\ Stubborn \subseteq Nodes
  /\ None \notin Nodes \cup RunErrCodes

VARIABLES
  \* the driver
  pc,              \* where Start is
  cur,             \* the nodeResult handleResult is working on
  todo,            \* nodes tryAdvance is still to be called for
  edgeState, nodeStat, attemptCounter, inflight, pendingRetries,
  endHit, runFail, cancelled,
  symVars,         \* set_variable nodes whose variables are in st.sym
  listening,       \* the loop's ctxDone variable is not nil
  \* the context, the workers and the retry timers
  ctxErr,          \* runCtx.Err() # nil
  work,            \* attempts being executed
  results,         \* attempts executed, not yet received from done
  timers,          \* retries whose timer and watcher are armed
  retryCh,         \* retry events not yet received
  \* the persister and the database
  persistQ,        \* persistCh, and behind it the send the driver blocks on
  persistErr,      \* persistErrCh (capacity 1) holds an error
  rows,            \* node -> attempt -> the workflow_node_runs row
  dbRun,           \* the workflow_runs row
  faults           \* database calls that failed so far

driverVars == <<pc, cur, todo, edgeState, nodeStat, attemptCounter, inflight,
                pendingRetries, endHit, runFail, cancelled, symVars, listening>>
graphVars  == <<edgeState, nodeStat, symVars>>
verdictVars == <<endHit, runFail, cancelled, listening>>
taskVars   == <<work, results, timers, retryCh>>
storeVars  == <<persistQ, persistErr, rows, dbRun, faults>>
vars       == <<driverVars, ctxErr, taskVars, storeVars>>

RunStatus   == {"absent", "pending", "running", "success", "failed", "cancelled"}
RowStatus   == {"absent", "running", "success", "failed", "cancelled", "skipped"}
RowPorts    == Ports \cup {"unserializable", NoPort}

Task   == [node : Nodes, attempt : Nat]
Result == [node : Nodes, attempt : Nat, out : Outcome]
Retry  == [node : Nodes, attempt : Nat, cancelled : BOOLEAN]
Row    == [status : RowStatus, port : RowPorts, resolved : BOOLEAN,
           fallback : BOOLEAN]
Op     == [kind : {"append", "finish", "vars"}, node : Nodes,
           attempt : Nat, row : Row, vars : SUBSET SetVarNodes]
Run    == [status : RunStatus, endNode : Nodes \cup {None},
           error : RunErrCodes \cup {None}, output : BOOLEAN,
           vars : SUBSET SetVarNodes]

\* A nil pointer is no result.
ASSUME NilAssumption == None \notin Result

EmptyRow == [status |-> "absent", port |-> NoPort, resolved |-> FALSE,
             fallback |-> FALSE]

TypeOK ==
  /\ pc \in {"load", "create", "begin", "loop", "handling", "advancing",
             "draining", "finalize", "closing", "returned", "failed"}
  /\ cur \in Result \cup {None}
  /\ pc = "handling" => cur \in Result
  /\ todo \in SUBSET Nodes
  /\ edgeState \in [Edges -> EdgeStates]
  /\ nodeStat \in [Nodes -> {"unready", "running", "done"}]
  /\ attemptCounter \in [Nodes -> Nat]
  /\ inflight \in Int
  /\ pendingRetries \in Int
  /\ endHit \in Nodes \cup {None}
  /\ runFail \in RunErrCodes \cup {None}
  /\ cancelled \in BOOLEAN
  /\ symVars \in SUBSET SetVarNodes
  /\ listening \in BOOLEAN
  /\ ctxErr \in BOOLEAN
  /\ work \in SUBSET Task
  /\ results \in SUBSET Result
  /\ timers \in SUBSET Task
  /\ retryCh \in SUBSET Retry
  /\ persistQ \in Seq(Op)
  /\ persistErr \in BOOLEAN
  /\ rows \in [Nodes -> [Attempts -> Row]]
  /\ dbRun \in Run
  /\ faults \in Nat

Init ==
  /\ pc = "load"
  /\ cur = None
  /\ todo = {}
  /\ edgeState = [e \in Edges |-> "pending"]
  /\ nodeStat = [n \in Nodes |-> "unready"]
  /\ attemptCounter = [n \in Nodes |-> 0]
  /\ inflight = 0
  /\ pendingRetries = 0
  /\ endHit = None
  /\ runFail = None
  /\ cancelled = FALSE
  /\ symVars = {}
  /\ listening = TRUE
  /\ ctxErr = FALSE
  /\ work = {} /\ results = {} /\ timers = {} /\ retryCh = {}
  /\ persistQ = <<>>
  /\ persistErr = FALSE
  /\ rows = [n \in Nodes |-> [a \in Attempts |-> EmptyRow]]
  /\ dbRun = [status |-> "absent", endNode |-> None, error |-> None,
              output |-> FALSE, vars |-> {}]
  /\ faults = 0
-----------------------------------------------------------------------------
(***************************************************************************)
(* The writes the driver queues (persistOp).                               *)
(***************************************************************************)
AppendOp(n, a, s) ==
  [kind |-> "append", node |-> n, attempt |-> a,
   row |-> [EmptyRow EXCEPT !.status = s], vars |-> {}]

\* The end of attempt r: its status, the port saved with its output, and
\* whether the fallback patch is applied.  Inputs are saved when resolved.
FinishOp(r, s, p, fb) ==
  [kind |-> "finish", node |-> r.node, attempt |-> r.attempt,
   row |-> [status |-> s, port |-> p, resolved |-> r.out # "unresolved",
            fallback |-> fb], vars |-> {}]

VarsOp(r, vs) ==
  [kind |-> "vars", node |-> r.node, attempt |-> r.attempt,
   row |-> EmptyRow, vars |-> vs]

\* The driver is not blocked on a send to persistCh.
CanSend == Len(persistQ) <= PersistBuf

Send(ops) == persistQ' = persistQ \o ops

\* The port an attempt's own outcome carries: errors leave FiredPort empty.
PortOf(r) == IF r.out \in Errors THEN NoPort ELSE r.out

Failed(r) == r.out \in Errors

-----------------------------------------------------------------------------
(***************************************************************************)
(* Start, up to the main loop.                                             *)
(***************************************************************************)
\* A repository call of the driver fails: Start returns the error.
GiveUp ==
  /\ faults < MaxFaults
  /\ faults' = faults + 1
  /\ pc' = "failed"

\* GetVersion, and the check that the version is released.
LoadVersion ==
  /\ pc = "load"
  /\ pc' \in {"create", "failed"}
  /\ UNCHANGED <<cur, todo, graphVars, attemptCounter, inflight,
                 pendingRetries, verdictVars, ctxErr, taskVars, storeVars>>

CreateRun ==
  /\ pc = "create"
  /\ \/ /\ pc' = "begin"
        /\ dbRun' = [dbRun EXCEPT !.status = "pending"]
        /\ UNCHANGED faults
     \/ GiveUp /\ UNCHANGED dbRun
  /\ UNCHANGED <<cur, todo, graphVars, attemptCounter, inflight,
                 pendingRetries, verdictVars, ctxErr, taskVars, persistQ,
                 persistErr, rows>>

(***************************************************************************)
(* UpdateStatus(running), then NewSymbols.  A payload that does not parse  *)
(* fails the run before the persister exists; otherwise the roots are      *)
(* dispatched, which is what tryAdvance does to a node with no in-edge.    *)
(***************************************************************************)
BeginRun ==
  /\ pc = "begin"
  /\ \/ /\ dbRun' = [dbRun EXCEPT !.status = "running"]
        /\ \/ /\ pc' = "advancing"
              /\ todo' = Roots
              /\ UNCHANGED runFail
           \/ /\ pc' = "finalize"
              /\ runFail' = "trigger_invalid"
              /\ UNCHANGED todo
        /\ UNCHANGED faults
     \/ GiveUp /\ UNCHANGED <<dbRun, todo, runFail>>
  /\ UNCHANGED <<cur, graphVars, attemptCounter, inflight, pendingRetries,
                 endHit, cancelled, listening, ctxErr, taskVars, persistQ,
                 persistErr, rows>>
-----------------------------------------------------------------------------
(***************************************************************************)
(* Advancing the graph.                                                    *)
(***************************************************************************)
\* A wrong dispatch that does not count its worker.
DispatchUncounted(n) ==
  LET a == attemptCounter[n] + 1 IN
  /\ attemptCounter' = [attemptCounter EXCEPT ![n] = a]
  /\ Send(<<AppendOp(n, a, "running")>>)
  /\ nodeStat' = [nodeStat EXCEPT ![n] = "running"]
  /\ work' = work \cup {[node |-> n, attempt |-> a]}
  /\ UNCHANGED inflight

\* A wrong dispatch that numbers a retry like the attempt before it.
DispatchSameAttempt(n) ==
  LET a == IF attemptCounter[n] = 0 THEN 1 ELSE attemptCounter[n] IN
  /\ attemptCounter' = [attemptCounter EXCEPT ![n] = a]
  /\ Send(<<AppendOp(n, a, "running")>>)
  /\ nodeStat' = [nodeStat EXCEPT ![n] = "running"]
  /\ inflight' = inflight + 1
  /\ work' = work \cup {[node |-> n, attempt |-> a]}

\* dispatch: the next attempt of n starts, after the insert of its row.
Dispatch(n) ==
  LET a == attemptCounter[n] + 1 IN
  /\ attemptCounter' = [attemptCounter EXCEPT ![n] = a]
  /\ Send(<<AppendOp(n, a, "running")>>)
  /\ nodeStat' = [nodeStat EXCEPT ![n] = "running"]
  /\ inflight' = inflight + 1
  /\ work' = work \cup {[node |-> n, attempt |-> a]}

\* A wrong advance: nobody asks the targets again.
OwedNothing(n) == {}

\* The nodes tryAdvance must be called for once n's out-edges are resolved.
Owed(n) == Targets(n)

\* A wrong skip: it kills every edge that leads where n's edges lead.
KilledAround(n, e) == IF EdgeTo[e] \in Targets(n) THEN "dead" ELSE edgeState[e]

\* The state of edge e once n is skipped.
Killed(n, e) == IF e \in OutEdges(n) THEN "dead" ELSE edgeState[e]

MarkSkipped(n) ==
  /\ nodeStat' = [nodeStat EXCEPT ![n] = "done"]
  /\ Send(<<AppendOp(n, 1, "skipped")>>)

\* A wrong guard: a node may be started again.
AlwaysStartable(n) == nodeStat[n] \in {"unready", "running", "done"}

Startable(n) == nodeStat[n] = "unready"

(***************************************************************************)
(* One call of tryAdvance: dispatch, skip and kill the out-edges, or leave *)
(* the node for a later call.  The order of the calls, a depth-first walk  *)
(* of adjacency lists, is left open: todo is a set.                        *)
(***************************************************************************)
TryAdvance(n) ==
  /\ pc = "advancing"
  /\ n \in todo
  /\ CanSend
  /\ \/ /\ Startable(n)
        /\ ReadyToRun(n, edgeState)
        /\ Dispatch(n)
        /\ todo' = todo \ {n}
        /\ UNCHANGED edgeState
     \/ /\ Startable(n)
        /\ ReadyToSkip(n, edgeState)
        /\ MarkSkipped(n)
        /\ edgeState' = [e \in Edges |-> Killed(n, e)]
        /\ todo' = (todo \ {n}) \cup Owed(n)
        /\ UNCHANGED <<attemptCounter, inflight, work>>
     \/ /\ Startable(n) => /\ ~ReadyToRun(n, edgeState)
                           /\ ~ReadyToSkip(n, edgeState)
        /\ todo' = todo \ {n}
        /\ UNCHANGED <<edgeState, nodeStat, attemptCounter, inflight, work,
                       persistQ>>
  /\ UNCHANGED <<pc, cur, symVars, pendingRetries, verdictVars, ctxErr,
                 results, timers, retryCh, persistErr, rows, dbRun, faults>>

(***************************************************************************)
(* cancelOnce: end the context, and stop selecting on it.                  *)
(***************************************************************************)
\* A wrong cancelOnce that leaves the loop's ctxDone in place.
CancelAndListen == ctxErr' = TRUE /\ UNCHANGED listening

\* A wrong cancelOnce that forgets to end the context.
CancelNobody == listening' = FALSE /\ UNCHANGED ctxErr

CancelOnce == ctxErr' = TRUE /\ listening' = FALSE

\* The end of an iteration of the loop (and of the dispatch of the roots).
Settle ==
  /\ pc = "advancing"
  /\ todo = {}
  /\ CanSend
  /\ pc' = "loop"
  /\ IF runFail # None \/ (endHit # None /\ listening)
     THEN CancelOnce
     ELSE UNCHANGED <<ctxErr, listening>>
  /\ UNCHANGED <<cur, todo, graphVars, attemptCounter, inflight,
                 pendingRetries, endHit, runFail, cancelled, taskVars,
                 storeVars>>
-----------------------------------------------------------------------------
(***************************************************************************)
(* The main loop.                                                          *)
(***************************************************************************)
\* A wrong loop condition: retries that wait do not count.
BusyInflight == inflight > 0

Busy == inflight > 0 \/ pendingRetries > 0

\* The loop waits in its select.
Selecting == pc = "loop" /\ Busy /\ CanSend

Decided == endHit # None \/ runFail # None

\* The first check of handleResult, which also records the cancellation.
CancelNoticed == cancelled \/ (~Decided /\ ctxErr)

\* Writes that end attempt r, and the end of its node.
EndAttempt(r, s, p, fb) ==
  /\ Send(<<FinishOp(r, s, p, fb)>>)
  /\ nodeStat' = [nodeStat EXCEPT ![r.node] = "done"]

(***************************************************************************)
(* A result is received.  When the run is already decided or cancelled the *)
(* attempt is recorded as cancelled whatever its outcome, and propagates   *)
(* nothing.                                                                *)
(***************************************************************************)
ReceiveResult(r) ==
  /\ Selecting
  /\ r \in results
  /\ results' = results \ {r}
  /\ inflight' = inflight - 1
  /\ cancelled' = CancelNoticed
  /\ IF CancelNoticed \/ Decided
     THEN /\ EndAttempt(r, "cancelled", PortOf(r), FALSE)
          /\ pc' = "advancing"
          /\ UNCHANGED cur
     ELSE /\ cur' = r
          /\ pc' = "handling"
          /\ UNCHANGED <<nodeStat, persistQ>>
  /\ UNCHANGED <<todo, edgeState, symVars, attemptCounter, pendingRetries,
                 endHit, runFail, listening, ctxErr, work, timers, retryCh,
                 persistErr, rows, dbRun, faults>>

\* The rest of handleResult ends: back to the loop through Settle.
Handle ==
  /\ pc = "handling"
  /\ pc' = "advancing"
  /\ cur' = None
  /\ UNCHANGED <<attemptCounter, inflight, listening, ctxErr, work, results,
                 retryCh, persistErr, rows, dbRun, faults>>

\* The worker gave up because the run's context ended.
EndedByContext == cur.out = "ctx" /\ ctxErr

HandleCancelled ==
  /\ Handle
  /\ EndedByContext
  /\ EndAttempt(cur, "cancelled", NoPort, FALSE)
  /\ cancelled' = TRUE
  /\ UNCHANGED <<todo, edgeState, symVars, pendingRetries, endHit, runFail,
                 timers>>

\* A wrong bound: one retry more than the policy allows.
OneRetryMore(r) == r.attempt <= MaxRetries[r.node] + 1

RetriesLeft(r) == r.attempt < MaxRetries[r.node] + 1

\* scheduleRetry arms a timer; the node stays running meanwhile.
HandleRetry ==
  /\ Handle
  /\ Failed(cur) /\ ~EndedByContext
  /\ RetriesLeft(cur)
  /\ Send(<<FinishOp(cur, "failed", NoPort, FALSE)>>)
  /\ pendingRetries' = pendingRetries + 1
  /\ timers' = timers \cup {[node |-> cur.node, attempt |-> cur.attempt + 1]}
  /\ UNCHANGED <<todo, graphVars, endHit, runFail, cancelled>>

Exhausted == Failed(cur) /\ ~EndedByContext /\ ~RetriesLeft(cur)

\* The node's failure, or an output that does not marshal, fails the run.
HandleFailRun ==
  /\ Handle
  /\ \/ /\ Exhausted
        /\ OnFinalFail[cur.node] = "fail_run"
        /\ runFail' = "node_exec_failed"
     \/ /\ cur.out = "unserializable"
        /\ runFail' = "output_not_serializable"
  /\ EndAttempt(cur, "failed", NoPort, FALSE)
  /\ UNCHANGED <<todo, edgeState, symVars, pendingRetries, endHit, cancelled,
                 timers>>

\* A wrong edge update: the edges that did not fire stay pending.
FiredOnly(n, port, e) ==
  IF e \in OutEdges(n) /\ EdgePort[e] = port THEN "live" ELSE edgeState[e]

\* The state of edge e once n has fired port.
Fired(n, port, e) ==
  IF e \notin OutEdges(n) THEN edgeState[e]
  ELSE IF EdgePort[e] = port THEN "live" ELSE "dead"

(***************************************************************************)
(* propagate: the attempt's end is written, with the variables when the    *)
(* node sets some; an End node is recorded, any other node resolves its    *)
(* out-edges and owes tryAdvance to their targets.                         *)
(***************************************************************************)
Propagate(port, status, fb) ==
  LET n == cur.node IN
  /\ nodeStat' = [nodeStat EXCEPT ![n] = "done"]
  /\ IF n \in SetVarNodes
     THEN /\ symVars' = symVars \cup {n}
          /\ Send(<<FinishOp(cur, status, port, fb), VarsOp(cur, symVars')>>)
     ELSE /\ Send(<<FinishOp(cur, status, port, fb)>>)
          /\ UNCHANGED symVars
  /\ IF n \in EndNodes
     THEN /\ endHit' = IF endHit = None THEN n ELSE endHit
          /\ UNCHANGED <<edgeState, todo>>
     ELSE /\ edgeState' = [e \in Edges |-> Fired(n, port, e)]
          /\ todo' = Owed(n)
          /\ UNCHANGED endHit

HandlePropagate ==
  /\ Handle
  /\ \/ cur.out \in Ports /\ Propagate(cur.out, "success", FALSE)
     \/ /\ Exhausted
        /\ OnFinalFail[cur.node] = "fallback"
        /\ Propagate(FallbackPort[cur.node], "failed", TRUE)
     \/ /\ Exhausted
        /\ OnFinalFail[cur.node] = "fire_error_port"
        /\ Propagate(ErrorPort, "failed", FALSE)
  /\ UNCHANGED <<pendingRetries, runFail, cancelled, timers>>

\* A wrong guard: only the timer's own flag stops a retry.
AbortsIfFlagged(rt) == rt.cancelled

\* The retry is not started: it was cancelled, or the run is over.
Aborts(rt) == rt.cancelled \/ runFail # None \/ ~listening

\* A wrong abort: a status the schema does not have.
AbortOpAborted(rt) == <<AppendOp(rt.node, rt.attempt, "aborted")>>

\* persistRetryAborted: the attempt that never ran gets a row of its own.
AbortOp(rt) == <<AppendOp(rt.node, rt.attempt, "cancelled")>>

RetryDue(rt) ==
  /\ Selecting
  /\ rt \in retryCh
  /\ retryCh' = retryCh \ {rt}
  /\ pendingRetries' = pendingRetries - 1
  /\ IF Aborts(rt)
     THEN /\ Send(AbortOp(rt))
          /\ nodeStat' = [nodeStat EXCEPT ![rt.node] = "done"]
          /\ UNCHANGED <<attemptCounter, inflight, work>>
     ELSE Dispatch(rt.node)
  /\ UNCHANGED <<pc, cur, todo, edgeState, symVars, verdictVars, ctxErr,
                 results, timers, persistErr, rows, dbRun, faults>>

\* runFail keeps the first failure.
RunFailAfterPersistErr ==
  IF persistErr /\ runFail = None THEN "persistence_error" ELSE runFail

PersistFailed ==
  /\ Selecting
  /\ persistErr
  /\ persistErr' = FALSE
  /\ runFail' = RunFailAfterPersistErr
  /\ IF listening THEN CancelOnce ELSE UNCHANGED <<ctxErr, listening>>
  /\ UNCHANGED <<pc, cur, todo, graphVars, attemptCounter, inflight,
                 pendingRetries, endHit, cancelled, taskVars, persistQ, rows,
                 dbRun, faults>>

\* <-ctxDone: nothing the driver did itself, so the run is cancelled.
ContextDone ==
  /\ Selecting
  /\ listening /\ ctxErr
  /\ cancelled' = TRUE
  /\ CancelOnce
  /\ UNCHANGED <<pc, cur, todo, graphVars, attemptCounter, inflight,
                 pendingRetries, endHit, runFail, taskVars, storeVars>>

\* The loop ends; the channel is closed and the persister drains it.
LeaveLoop ==
  /\ pc = "loop"
  /\ ~Busy
  /\ CanSend
  /\ pc' = "draining"
  /\ cancelled' = (cancelled \/ (~Decided /\ ctxErr))
  /\ UNCHANGED <<cur, todo, graphVars, attemptCounter, inflight,
                 pendingRetries, endHit, runFail, listening, ctxErr, taskVars,
                 storeVars>>

\* A wrong drain: Start does not wait for the persister.
NotDrained == TRUE

\* <-persistDone: every queued write was tried.
Drained == persistQ = <<>>

\* A last look at persistErrCh, then finalize.
FinishDrain ==
  /\ pc = "draining"
  /\ Drained
  /\ pc' = "finalize"
  /\ runFail' = RunFailAfterPersistErr
  /\ persistErr' = FALSE
  /\ UNCHANGED <<cur, todo, graphVars, attemptCounter, inflight,
                 pendingRetries, endHit, cancelled, listening, ctxErr,
                 taskVars, persistQ, rows, dbRun, faults>>
-----------------------------------------------------------------------------
(***************************************************************************)
(* finalize.                                                               *)
(***************************************************************************)
\* A wrong order: reaching an End wins over a later failure.
VerdictEndFirst ==
  IF endHit # None THEN "success"
  ELSE IF runFail # None THEN "failed"
  ELSE IF cancelled THEN "cancelled"
  ELSE "failed"

\* The status the run ends in: failure over cancellation over success.
Verdict ==
  IF runFail # None THEN "failed"
  ELSE IF cancelled THEN "cancelled"
  ELSE IF endHit # None THEN "success"
  ELSE "failed"

\* GetLatestNodeRun: the highest attempt of n that has a row, if any.
Recorded(n) == {a \in Attempts : rows[n][a].status # "absent"}
Latest(n)   == {a \in Recorded(n) : \A b \in Recorded(n) : b <= a}

\* SaveError, or GetLatestNodeRun and SaveEndResult; nothing for a
\* cancelled run.
SaveVerdict ==
  /\ pc = "finalize"
  /\ \/ /\ Verdict = "failed"
        /\ pc' = "closing"
        /\ dbRun' = [dbRun EXCEPT !.error = IF runFail # None THEN runFail
                                           ELSE "no_end_reached"]
        /\ UNCHANGED faults
     \/ /\ Verdict = "cancelled"
        /\ pc' = "closing"
        /\ UNCHANGED <<dbRun, faults>>
     \/ /\ Verdict = "success"
        /\ \/ /\ Latest(endHit) = {}
              /\ pc' = "failed"
              /\ UNCHANGED dbRun
           \/ \E a \in Latest(endHit) :
                /\ pc' = "closing"
                /\ dbRun' = [dbRun EXCEPT !.endNode = endHit,
                                         !.output = rows[endHit][a].resolved]
        /\ UNCHANGED faults
     \/ /\ Verdict # "cancelled"
        /\ GiveUp
        /\ UNCHANGED dbRun
  /\ UNCHANGED <<cur, todo, graphVars, attemptCounter, inflight,
                 pendingRetries, verdictVars, ctxErr, taskVars, persistQ,
                 persistErr, rows>>

\* runAllowedPrev: the statuses the UPDATE's WHERE clause lets through.
AllowedPrev(s) ==
  CASE s = "running" -> {"pending"}
    [] s = "success" -> {"running"}
    [] OTHER         -> {"pending", "running"}

\* UpdateStatus with the verdict; Start returns.
CloseRun ==
  /\ pc = "closing"
  /\ \/ /\ dbRun.status \in AllowedPrev(Verdict)
        /\ dbRun' = [dbRun EXCEPT !.status = Verdict]
        /\ pc' = "returned"
        /\ UNCHANGED faults
     \/ GiveUp /\ UNCHANGED dbRun
  /\ UNCHANGED <<cur, todo, graphVars, attemptCounter, inflight,
                 pendingRetries, verdictVars, ctxErr, taskVars, persistQ,
                 persistErr, rows>>
-----------------------------------------------------------------------------
(***************************************************************************)
(* The other goroutines.                                                   *)
(***************************************************************************)
\* The context of n's executor ends: the run's, or the node's own timeout.
NodeCtxEnds(n) == ctxErr \/ n \in TimedNodes

\* runNode ends with outcome out.
WorkerEnds(t, out) ==
  /\ t \in work
  /\ out \in Outcomes[t.node]
  /\ out = "ctx" => NodeCtxEnds(t.node)
  /\ work' = work \ {t}
  /\ results' = results \cup
                  {[node |-> t.node, attempt |-> t.attempt, out |-> out]}
  /\ UNCHANGED <<driverVars, ctxErr, timers, retryCh, storeVars>>

(***************************************************************************)
(* The one event of a scheduled retry: the timer or the watcher sends it,  *)
(* whichever reaches the sync.Once first.  A flagged event needs a context *)
(* that ended; one without the flag may still be sent after that, by a     *)
(* timer that looked before.                                               *)
(***************************************************************************)
TimerFires(t) ==
  /\ t \in timers
  /\ timers' = timers \ {t}
  /\ \E flagged \in BOOLEAN :
       /\ flagged => ctxErr
       /\ retryCh' = retryCh \cup
            {[node |-> t.node, attempt |-> t.attempt, cancelled |-> flagged]}
  /\ UNCHANGED <<driverVars, ctxErr, work, results, storeVars>>

\* The caller cancels, or RunTimeout expires, while Start is at work.
CallerCancels ==
  /\ MayCancel
  /\ ~ctxErr
  /\ pc \notin {"finalize", "closing", "returned", "failed"}
  /\ ctxErr' = TRUE
  /\ UNCHANGED <<driverVars, taskVars, storeVars>>

(***************************************************************************)
(* The persister applies one operation: an insert, or up to three updates  *)
(* of one row (resolved inputs, output and port, status).  An update finds *)
(* no row, an insert finds its key taken, an output does not marshal, or a *)
(* status transition is not allowed: the rest of the operation is dropped. *)
(***************************************************************************)
WithResolved(op, row) == [row EXCEPT !.resolved = @ \/ op.row.resolved]

WithOutput(op, row) ==
  IF op.row.port = NoPort THEN row ELSE [row EXCEPT !.port = op.row.port]

WithStatus(op, row) ==
  [row EXCEPT !.status = op.row.status, !.fallback = op.row.fallback]

\* What op leaves of the row after its first k writes.
Written(op, k) ==
  LET row == rows[op.node][op.attempt] IN
  CASE k = 0 -> row
    [] k = 1 -> WithResolved(op, row)
    [] k = 2 -> WithOutput(op, WithResolved(op, row))
    [] OTHER -> WithStatus(op, WithOutput(op, WithResolved(op, row)))

\* The writes of op the database and marshalOutput let through.
WritesAccepted(op) ==
  LET row == rows[op.node][op.attempt] IN
  CASE op.kind = "append" -> IF row.status = "absent" THEN 3 ELSE 0
    [] op.kind = "vars"   -> 3
    [] OTHER -> IF row.status = "absent" THEN 0
                ELSE IF op.row.port = "unserializable" THEN 1
                ELSE IF row.status = "running" THEN 3 ELSE 2

Store(op, k) ==
  /\ rows' = IF op.kind = "vars" THEN rows
             ELSE [rows EXCEPT ![op.node][op.attempt] = Written(op, k)]
  /\ dbRun' = IF op.kind = "vars" /\ k = 3
              THEN [dbRun EXCEPT !.vars = op.vars] ELSE dbRun

\* A wrong persister: errors are swallowed.
ErrSwallowed(failed) == persistErr

\* errOut keeps the first error the driver has not received.
ErrReported(failed) == persistErr \/ failed

Persist ==
  /\ persistQ # <<>>
  /\ LET op == Head(persistQ) IN
       \/ /\ Store(op, WritesAccepted(op))
          /\ persistErr' = ErrReported(WritesAccepted(op) < 3)
          /\ UNCHANGED faults
       \/ /\ faults < MaxFaults
          /\ faults' = faults + 1
          /\ \E k \in 0..2 :
               /\ op.kind # "finish" => k = 0
               /\ k <= WritesAccepted(op)
               /\ Store(op, k)
          /\ persistErr' = ErrReported(TRUE)
  /\ persistQ' = Tail(persistQ)
  /\ UNCHANGED <<driverVars, ctxErr, taskVars>>
-----------------------------------------------------------------------------
Driver ==
  \/ LoadVersion \/ CreateRun \/ BeginRun
  \/ \E n \in todo : TryAdvance(n)
  \/ Settle
  \/ \E r \in results : ReceiveResult(r)
  \/ HandleCancelled \/ HandleRetry \/ HandleFailRun \/ HandlePropagate
  \/ \E rt \in retryCh : RetryDue(rt)
  \/ PersistFailed \/ ContextDone
  \/ LeaveLoop \/ FinishDrain
  \/ SaveVerdict \/ CloseRun

Worker(n) == \E t \in work : t.node = n /\ \E out \in Outcome : WorkerEnds(t, out)

RetryTimer(n) == \E t \in timers : t.node = n /\ TimerFires(t)

\* Start has returned.
Over == pc \in {"returned", "failed"} /\ UNCHANGED vars

Next ==
  \/ Driver
  \/ \E n \in Nodes : Worker(n) \/ RetryTimer(n)
  \/ Persist
  \/ CallerCancels
  \/ Over

(***************************************************************************)
(* The Go scheduler runs every goroutine that can run, database calls      *)
(* return, timers expire, and an executor ends: a stubborn one may take    *)
(* until its context has.  Nothing obliges the caller to cancel.           *)
(***************************************************************************)
MustEnd(n) == n \in Stubborn => NodeCtxEnds(n)

Fairness ==
  /\ WF_vars(Driver)
  /\ WF_vars(Persist)
  /\ \A n \in Nodes : WF_vars(MustEnd(n) /\ Worker(n)) /\ WF_vars(RetryTimer(n))

Spec     == Init /\ [][Next]_vars
FairSpec == Spec /\ Fairness
=============================================================================
