--------------------------- MODULE EngineInvariants ---------------------------
(***************************************************************************)
(* Why the properties of a run hold: what is true between any two steps of *)
(* module Engine, in a form that every step preserves.                     *)
(***************************************************************************)
EXTENDS EngineProperties

(***************************************************************************)
(* The attempts.                                                           *)
(***************************************************************************)
\* A node's attempts are numbered from one and end with its policy.
UnreadyIsFresh ==
  \A n \in Nodes :
    /\ nodeStat[n] = "unready" => attemptCounter[n] = 0
    /\ nodeStat[n] = "running" => attemptCounter[n] > 0

WithinPolicy ==
  /\ \A n \in Nodes : attemptCounter[n] <= MaxRetries[n] + 1
  /\ \A x \in Tokens : x.task.attempt \in 1..(MaxRetries[x.task.node] + 1)

HandFilled == pc = "handling" <=> cur # None

\* Before the roots are dispatched nothing has happened.
NothingYet ==
  pc \in {"load", "create", "begin"} =>
    /\ Tokens = {}
    /\ nodeStat = [n \in Nodes |-> "unready"]
    /\ edgeState = [e \in Edges |-> "pending"]
    /\ persistQ = <<>> /\ ~persistErr

\* After the loop, nothing is under way any more.
NothingMore ==
  pc \in {"draining", "finalize", "closing", "returned", "failed"} => Tokens = {}

TaskInv ==
  /\ OneAttemptAtATime
  /\ UnreadyIsFresh
  /\ WithinPolicy
  /\ HandFilled
  /\ NothingYet

(***************************************************************************)
(* The counters: the sets they count are finite.                           *)
(***************************************************************************)
CountInv ==
  /\ IsFiniteSet(work) /\ IsFiniteSet(results)
  /\ IsFiniteSet(timers) /\ IsFiniteSet(retryCh)
  /\ CountersExact

(***************************************************************************)
(* The graph: only a node that is done has resolved its out-edges, and a   *)
(* node that could start or be skipped is one tryAdvance is owed for.      *)
(***************************************************************************)
ResolvedByDone ==
  \A e \in Edges : edgeState[e] # "pending" => nodeStat[EdgeFrom[e]] = "done"

Ripe(n) == ReadyToRun(n, edgeState) \/ ReadyToSkip(n, edgeState)

RipeIsOwed ==
  pc \in {"advancing", "loop", "handling", "draining"} =>
    \A n \in Nodes : nodeStat[n] = "unready" /\ Ripe(n) => n \in todo

GraphInv == ResolvedByDone /\ RipeIsOwed
-----------------------------------------------------------------------------
(***************************************************************************)
(* The rows.  A write of a node has its turn: the insert of attempt a      *)
(* comes before its end, and that before the insert of the next one; a row *)
(* inserted as skipped or cancelled is at its end at once.                 *)
(***************************************************************************)
Retrying(n) == \E x \in Tokens : x.task.node = n /\ Waits(x)
Alive(n)    == nodeStat[n] = "running" /\ ~Retrying(n)

Queued(n) == {i \in DOMAIN persistQ : persistQ[i].kind # "vars" /\ persistQ[i].node = n}

Appends(n, a)  == {i \in Queued(n) : persistQ[i].kind = "append" /\ persistQ[i].attempt = a}
Finishes(n, a) == {i \in Queued(n) : persistQ[i].kind = "finish" /\ persistQ[i].attempt = a}

Turn(op)      == 2 * op.attempt + (IF op.kind = "finish" THEN 1 ELSE 0)
TurnAfter(op) == 2 * op.attempt + (IF op.row.status = "running" THEN 0 ELSE 1)

RowTurn(n, a) == 2 * a + (IF rows[n][a].status = "running" THEN 0 ELSE 1)

\* The turn of the last write the driver has sent for n.
Clock(n) == 2 * attemptCounter[n] + (IF nodeStat[n] = "done" \/ Retrying(n) THEN 1 ELSE 0)

(***************************************************************************)
(* Writes are queued in turn, every row of a node is behind the writes     *)
(* still queued for it, and neither is ahead of the driver: so no attempt  *)
(* is inserted or ended twice.  A node that is done sends nothing more; of *)
(* those only the End that was reached is read again (finalize.go:25).     *)
(***************************************************************************)
QueueInTurn(n) ==
  \A i, j \in Queued(n) : i < j => TurnAfter(persistQ[i]) < Turn(persistQ[j])

RowsBehindQueue(n) ==
  \A i \in Queued(n), a \in Attempts :
    rows[n][a].status # "absent" => RowTurn(n, a) < Turn(persistQ[i])

BehindClock(n) ==
  (nodeStat[n] # "done" \/ n = endHit) =>
    /\ \A i \in Queued(n) : TurnAfter(persistQ[i]) <= Clock(n)
    /\ \A a \in Attempts : rows[n][a].status # "absent" => RowTurn(n, a) <= Clock(n)

InTurn ==
  /\ \A n \in Nodes : QueueInTurn(n) /\ RowsBehindQueue(n) /\ BehindClock(n)
  /\ endHit # None => nodeStat[endHit] = "done"

\* The last attempt its policy allows, failed, and what it fired.
LastFailure(n, a, row) ==
  /\ a = MaxRetries[n] + 1
  /\ row.port = (IF row.fallback THEN FallbackPort[n] ELSE ErrorPort)

Insertion(op) ==
  /\ op.row.status \in {"running", "skipped", "cancelled"}
  /\ op.row.port = NoPort /\ ~op.row.resolved /\ ~op.row.fallback
  /\ op.row.status = "running" => op.attempt <= attemptCounter[op.node]
  /\ op.row.status = "skipped" => op.attempt = 1
  /\ op.row.status = "cancelled" => op.attempt > 1

Ending(op) ==
  /\ op.row.status \in {"success", "failed", "cancelled"}
  /\ op.row.status = "failed" /\ op.row.port # NoPort =>
       LastFailure(op.node, op.attempt, op.row)
  /\ op.row.port = "unserializable" => "unserializable" \in Outcomes[op.node]

LegalWrite(op) ==
  /\ op.kind # "vars" => op.attempt \in 1..(MaxRetries[op.node] + 1)
  /\ op.kind = "append" => Insertion(op)
  /\ op.kind = "finish" => Ending(op)

WritesLegal == \A i \in DOMAIN persistQ : LegalWrite(persistQ[i])

\* Results an executor may return.
ResultsPossible ==
  \A r \in results \cup ({cur} \ {None}) : r.out \in Outcomes[r.node]

LegalRow(n, a, row) ==
  /\ row.status = "absent" => row = EmptyRow
  /\ row.status # "absent" => a <= MaxRetries[n] + 1
  /\ row.status = "running" => a <= attemptCounter[n]

RowsLegal == \A n \in Nodes, a \in Attempts : LegalRow(n, a, rows[n][a])

RowInv == InTurn /\ WritesLegal /\ ResultsPossible /\ RowsLegal

(***************************************************************************)
(* While the database has not failed: an attempt that has not ended has an *)
(* open row, or will have; before another one comes a failure that fired   *)
(* nothing.                                                                *)
(***************************************************************************)
Opened(n, a) ==
  \/ a \in Attempts /\ rows[n][a].status = "running"
  \/ \E i \in Appends(n, a) : persistQ[i].row.status = "running"

FailedQuietly(row) == row.status = "failed" /\ row.port = NoPort

FailedFirst(n, a) ==
  \/ a \in Attempts /\ FailedQuietly(rows[n][a])
  \/ \E i \in Finishes(n, a) : FailedQuietly(persistQ[i].row)

StoryOf(n) ==
  /\ Alive(n) => Opened(n, attemptCounter[n])
  /\ Retrying(n) => FailedFirst(n, attemptCounter[n])
  /\ \A a \in Attempts :
       /\ Finishes(n, a) # {} => Opened(n, a)
       /\ Appends(n, a) # {} /\ a > 1 => FailedFirst(n, a - 1)
       /\ rows[n][a].status # "absent" /\ a > 1 => FailedFirst(n, a - 1)
       /\ rows[n][a].status = "running" => rows[n][a].port = NoPort
       /\ rows[n][a].status = "failed" /\ rows[n][a].port # NoPort =>
            LastFailure(n, a, rows[n][a])

StoryInv == faults = 0 => \A n \in Nodes : StoryOf(n)

(***************************************************************************)
(* While the database has not failed: an edge is resolved only after the   *)
(* write that says why was queued, and a node's first row is queued behind *)
(* the writes that made it start or be skipped.  Told(e, d, k): a stored   *)
(* row of e's source, or a write before the k-th, says that e is d.        *)
(***************************************************************************)
Tells(row, e, d) ==
  IF d = "live"
  THEN row.status \in {"success", "failed"} /\ row.port = EdgePort[e]
  ELSE \/ row.status = "skipped"
       \/ /\ row.status \in {"success", "failed"}
          /\ row.port \notin {NoPort, "unserializable", EdgePort[e]}

Told(e, d, k) ==
  \/ \E a \in Attempts : Tells(rows[EdgeFrom[e]][a], e, d)
  \/ \E i \in Queued(EdgeFrom[e]) : i < k /\ Tells(persistQ[i].row, e, d)

ToldToRun(n, k) ==
  IF n \in JoinAllNodes THEN \A e \in InEdges(n) : Told(e, "live", k)
                        ELSE \E e \in InEdges(n) : Told(e, "live", k)

ToldToSkip(n, k) ==
  IF n \in JoinAllNodes
  THEN /\ \A e \in InEdges(n) : Told(e, "live", k) \/ Told(e, "dead", k)
       /\ \E e \in InEdges(n) : Told(e, "dead", k)
  ELSE \A e \in InEdges(n) : Told(e, "dead", k)

\* What a first row of status s needs.
Because(n, s, k) == IF s = "skipped" THEN ToldToSkip(n, k) ELSE ToldToRun(n, k)

CausalInv ==
  faults = 0 =>
    /\ \A e \in Edges : edgeState[e] # "pending" =>
                        Told(e, edgeState[e], Len(persistQ) + 1)
    /\ \A n \in Nodes \ Roots :
         /\ \A i \in Appends(n, 1) : Because(n, persistQ[i].row.status, i)
         /\ rows[n][1].status # "absent" => Because(n, rows[n][1].status, 1)

(***************************************************************************)
(* The run's own row, and what became of the database's failures.          *)
(***************************************************************************)
Executing == {"advancing", "loop", "handling", "draining"}

\* The run is reported as ended without a failure of the engine's own.
ReportedClean ==
  dbRun.status \in {"success", "cancelled"} \/ dbRun.error = "no_end_reached"

StatusFollowsPc ==
  /\ pc \in {"load", "create"} => dbRun.status = "absent"
  /\ pc = "begin" => dbRun.status = "pending"
  /\ pc \in Executing \cup {"finalize", "closing"} => dbRun.status = "running"

QueueWhileExecuting == persistQ # <<>> => pc \in Executing

CleanIsReportedLast ==
  /\ ReportedClean => pc \in {"closing", "returned", "failed"} /\ runFail = None
  /\ runFail # "no_end_reached"

FaultIsTold == faults > 0 => persistErr \/ runFail # None \/ pc = "failed"

RunRowInv ==
  /\ StatusFollowsPc
  /\ QueueWhileExecuting
  /\ CleanIsReportedLast
  /\ FaultIsTold

(***************************************************************************)
(* While no error was reported: every attempt that ended has its end       *)
(* stored or queued, so have the variables, and so has the End that was    *)
(* reached.                                                                *)
(***************************************************************************)
Clean == ~persistErr /\ runFail = None

Ended(n, a) ==
  \/ a \in Attempts /\ rows[n][a].status \notin {"absent", "running"}
  \/ Finishes(n, a) # {}

EndsTold ==
  \A n \in Nodes : \A a \in 1..attemptCounter[n] :
    (a = attemptCounter[n] /\ Alive(n)) \/ Ended(n, a)

VarsWrites == {i \in DOMAIN persistQ : persistQ[i].kind = "vars"}

VarsTold ==
  IF VarsWrites = {} THEN dbRun.vars = symVars
  ELSE \E i \in VarsWrites : /\ \A j \in VarsWrites : j <= i
                             /\ persistQ[i].vars = symVars

Propagated(row) == row.status \in {"success", "failed"} /\ row.port # NoPort

EndTold ==
  endHit # None => LET a == attemptCounter[endHit] IN
    /\ endHit \in EndNodes
    /\ a \in Attempts
    /\ \/ Propagated(rows[endHit][a])
       \/ \E i \in Finishes(endHit, a) : Propagated(persistQ[i].row)

CleanInv == Clean => EndsTold /\ VarsTold /\ EndTold

(***************************************************************************)
(* A run that is a success, or is about to be: it ended at the End it      *)
(* reached, and its output is that of the row read for it.                 *)
(***************************************************************************)
Succeeds == (pc = "closing" /\ Verdict = "success") \/ dbRun.status = "success"

SuccessInv ==
  Succeeds =>
    /\ endHit # None /\ dbRun.endNode = endHit
    /\ \E a \in Latest(endHit) : dbRun.output = rows[endHit][a].resolved

(***************************************************************************)
(* While nothing was decided, nobody cancelled and the context stands, a   *)
(* node that is done has resolved its out-edges, and an End that is done   *)
(* was skipped; a run may only end without an End when no node of it could *)
(* still be advanced.                                                      *)
(***************************************************************************)
Undisturbed ==
  ~Decided /\ ~cancelled /\ (pc \in {"advancing", "loop", "handling"} => ~ctxErr)

\* The loop goes deaf, and a retry is flagged, only for an ended context.
ContextTold ==
  /\ ~listening => ctxErr
  /\ \A rt \in retryCh : rt.cancelled => ctxErr

SkipTold(n) ==
  \/ rows[n][1].status = "skipped"
  \/ \E i \in Appends(n, 1) : persistQ[i].row.status = "skipped"

DoneIsSettled ==
  Undisturbed =>
    /\ \A e \in Edges : nodeStat[EdgeFrom[e]] = "done" => edgeState[e] # "pending"
    /\ ~persistErr => \A n \in EndNodes : nodeStat[n] = "done" => SkipTold(n)

NoEnd == dbRun.error = "no_end_reached"

NoEndStands ==
  /\ NoEnd => ~cancelled /\ endHit = None
  /\ NoEnd \/ (pc = "finalize" /\ runFail = None) =>
       \A n \in Nodes : nodeStat[n] = "unready" => ~Ripe(n)

SettledInv == ContextTold /\ DoneIsSettled /\ NoEndStands

(***************************************************************************)
(* All of it: what the proofs rest on, checked before they do.             *)
(***************************************************************************)
EngineInv ==
  /\ DecisionInv
  /\ TaskInv /\ CountInv /\ NothingMore /\ GraphInv
  /\ RowInv /\ StoryInv /\ CausalInv
  /\ RunRowInv /\ CleanInv /\ SuccessInv /\ SettledInv
-----------------------------------------------------------------------------
\* Every output an executor may return marshals.
Marshals == \A n \in Nodes : "unserializable" \notin Outcomes[n]

\* No set of nodes is fed from within alone.
Acyclic ==
  \A S \in SUBSET Nodes : S # {} => \E n \in S : \A e \in InEdges(n) : EdgeFrom[e] \notin S
===============================================================================
