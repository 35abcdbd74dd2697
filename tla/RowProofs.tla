------------------------------- MODULE RowProofs -------------------------------
(***************************************************************************)
(* The rows of a run: what the driver's writes and the persister make of   *)
(* them in any workflow, under any interleaving and any database failures. *)
(*                                                                         *)
(* The proofs look at a step through what it does to the queue.  A step    *)
(* leaves queue and rows alone, or sends one write of one node, or is the  *)
(* persister's (StepKinds); each invariant is proved for these.            *)
(***************************************************************************)
EXTENDS EngineProofs

-----------------------------------------------------------------------------
(***************************************************************************)
(* Steps, as the rows see them.                                            *)
(***************************************************************************)
SameNode(m) ==
  /\ nodeStat'[m] = nodeStat[m]
  /\ attemptCounter'[m] = attemptCounter[m]
  /\ Retrying(m)' <=> Retrying(m)

Still ==
  /\ UNCHANGED <<persistQ, rows, endHit, symVars>>
  /\ dbRun'.vars = dbRun.vars
  /\ \A m \in Nodes : SameNode(m)

\* One write of node n is queued, and behind it the variables if they changed.
Queues(op) ==
  /\ Len(persistQ') >= Len(persistQ) + 1
  /\ \A i \in 1..Len(persistQ) : persistQ'[i] = persistQ[i]
  /\ persistQ'[Len(persistQ) + 1] = op
  /\ \A i \in (Len(persistQ) + 2)..Len(persistQ') :
       persistQ'[i].kind = "vars" /\ persistQ'[i].vars = symVars'
  /\ symVars' # symVars => Len(persistQ') > Len(persistQ) + 1

Sends(n, op) ==
  /\ op \in Op /\ op.kind # "vars" /\ op.node = n
  /\ Queues(op)
  /\ UNCHANGED <<rows, dbRun, faults, persistErr>>
  /\ \A m \in Nodes \ {n} : SameNode(m)

\* The next attempt of n starts.
Starts(n, op) ==
  /\ Sends(n, op)
  /\ op = AppendOp(n, attemptCounter[n] + 1, "running")
  /\ op.attempt <= MaxRetries[n] + 1
  /\ Retrying(n) \/ (nodeStat[n] = "unready" /\ attemptCounter[n] = 0 /\ ~Retrying(n))
  /\ nodeStat[n] # "done" /\ nodeStat'[n] = "running"
  /\ attemptCounter'[n] = attemptCounter[n] + 1
  /\ ~Retrying(n)'
  /\ UNCHANGED endHit

\* n is skipped, or its retry is aborted.
GivesUp(n, op) ==
  /\ Sends(n, op)
  /\ \/ /\ nodeStat[n] = "unready" /\ attemptCounter[n] = 0
        /\ op = AppendOp(n, 1, "skipped")
     \/ /\ Retrying(n) /\ attemptCounter[n] > 0
        /\ op = AppendOp(n, attemptCounter[n] + 1, "cancelled")
  /\ op.attempt <= MaxRetries[n] + 1
  /\ nodeStat[n] # "done" /\ nodeStat'[n] = "done"
  /\ attemptCounter'[n] = attemptCounter[n]
  /\ ~Retrying(n)'
  /\ UNCHANGED endHit

\* The attempt under way ends; n is done or a retry is scheduled.
Ends(n, op) ==
  /\ Sends(n, op)
  /\ op.kind = "finish" /\ op.attempt = attemptCounter[n]
  /\ op.attempt \in 1..(MaxRetries[n] + 1)
  /\ Ending(op)
  /\ Alive(n)
  /\ attemptCounter'[n] = attemptCounter[n]
  /\ \/ nodeStat'[n] = "done" /\ ~Retrying(n)'
     \/ nodeStat'[n] = "running" /\ Retrying(n)' /\ FailedQuietly(op.row)
  /\ \/ UNCHANGED endHit
     \/ /\ endHit = None /\ endHit' = n /\ nodeStat'[n] = "done"
        /\ n \in EndNodes /\ Propagated(op.row)
-----------------------------------------------------------------------------
LEMMA SendsOne ==
  ASSUME TypeOK, NEW op \in Op, Send(<<op>>), UNCHANGED symVars
  PROVE  Queues(op)
  <1>1. persistQ' = persistQ \o <<op>> /\ persistQ \in Seq(Op)
    BY DEF Send, TypeOK
  <1>2. /\ Len(persistQ') = Len(persistQ) + 1
        /\ \A i \in 1..Len(persistQ) : persistQ'[i] = persistQ[i]
        /\ persistQ'[Len(persistQ) + 1] = op
        /\ Len(persistQ) \in Nat
    BY <1>1
  <1> QED
    BY <1>2 DEF Queues

LEMMA SendsTwo ==
  ASSUME TypeOK, NEW op \in Op, NEW vop \in Op, Send(<<op, vop>>),
         vop.kind = "vars", vop.vars = symVars'
  PROVE  Queues(op)
  <1>1. persistQ' = persistQ \o <<op, vop>> /\ persistQ \in Seq(Op)
    BY DEF Send, TypeOK
  <1>2. /\ Len(persistQ') = Len(persistQ) + 2
        /\ \A i \in 1..Len(persistQ) : persistQ'[i] = persistQ[i]
        /\ persistQ'[Len(persistQ) + 1] = op
        /\ persistQ'[Len(persistQ) + 2] = vop
        /\ Len(persistQ) \in Nat
    BY <1>1
  <1> QED
    BY <1>2 DEF Queues

\* A node's retry waits exactly while its token does.
LEMMA WaitsTells ==
  ASSUME TypeOK, TokenInv, NEW x \in Tokens
  PROVE  /\ Waits(x) <=> Retrying(x.task.node)
         /\ ~Waits(x) <=> Alive(x.task.node)
  BY TokenTells DEF Retrying, Alive

LEMMA RetryingRuns ==
  ASSUME TypeOK, TokenInv, NEW n \in Nodes, Retrying(n)
  PROVE  nodeStat[n] = "running" /\ attemptCounter[n] + 1 <= MaxRetries[n] + 1
  <1>1. PICK x \in Tokens : x.task.node = n /\ Waits(x)
    BY DEF Retrying
  <1> QED
    BY <1>1, TokenTells

\* The retries that wait are the timers' and the events'.
WaitingRetry(n) == (\E t \in timers : t.node = n) \/ (\E rt \in retryCh : rt.node = n)

LEMMA RetryingWhere == \A n : Retrying(n) <=> WaitingRetry(n)
  <1> SUFFICES ASSUME NEW n PROVE Retrying(n) <=> WaitingRetry(n)
    OBVIOUS
  <1>1. ASSUME Retrying(n) PROVE WaitingRetry(n)
    BY <1>1 DEF Retrying, Tokens, Waits, WaitingRetry
  <1>2. ASSUME NEW t \in timers, t.node = n PROVE Retrying(n)
    <2> DEFINE x == [at |-> "timer", task |-> t]
    <2>1. x \in Tokens /\ x.task.node = n /\ Waits(x)
      BY <1>2, TokenPlaces DEF Waits
    <2> QED
      BY <2>1 DEF Retrying
  <1>3. ASSUME NEW rt \in retryCh, rt.node = n PROVE Retrying(n)
    <2> DEFINE x == [at |-> "retryCh", task |-> rt]
    <2>1. x \in Tokens /\ x.task.node = n /\ Waits(x)
      BY <1>3, TokenPlaces DEF Waits
    <2> QED
      BY <2>1 DEF Retrying
  <1> QED
    BY <1>1, <1>2, <1>3 DEF WaitingRetry

LEMMA RetryingWhereNext == \A n : Retrying(n)' <=> WaitingRetry(n)'
  <1>1. (\A n : Retrying(n) <=> WaitingRetry(n))'
    BY RetryingWhere, PTL
  <1> QED
    BY <1>1

LEMMA SameRetries ==
  ASSUME UNCHANGED <<timers, retryCh>>
  PROVE  \A m : Retrying(m)' <=> Retrying(m)
  <1>1. \A m : WaitingRetry(m)' <=> WaitingRetry(m)
    BY DEF WaitingRetry
  <1> QED
    BY <1>1, RetryingWhere, RetryingWhereNext
-----------------------------------------------------------------------------
(***************************************************************************)
(* Which of these steps an action is.                                      *)
(***************************************************************************)
LEMMA DispatchStarts ==
  ASSUME TypeOK, NEW n \in Nodes, Dispatch(n),
         nodeStat[n] # "done", attemptCounter[n] <= MaxRetries[n],
         Retrying(n) \/ (nodeStat[n] = "unready" /\ attemptCounter[n] = 0 /\ ~Retrying(n)),
         ~Retrying(n)', \A m \in Nodes \ {n} : Retrying(m)' <=> Retrying(m),
         UNCHANGED <<rows, dbRun, faults, persistErr, endHit, symVars>>
  PROVE  \E op \in Op : Starts(n, op)
  <1> DEFINE a == attemptCounter[n] + 1
             op == AppendOp(n, a, "running")
  <1>1. a \in Nat /\ a <= MaxRetries[n] + 1
    BY PolicyAssumption DEF TypeOK
  <1>2. op \in Op /\ op.kind # "vars" /\ op.node = n /\ op.attempt = a
    <2>1. op \in Op
      BY <1>1, OpsTyped DEF RowStatus
    <2> QED
      BY <2>1 DEF AppendOp
  <1>3. Send(<<op>>)
    BY DEF Dispatch
  <1>4. Queues(op)
    <2> HIDE DEF op
    <2> QED
      BY <1>2, <1>3, SendsOne
  <1>5. /\ nodeStat' = [nodeStat EXCEPT ![n] = "running"]
        /\ attemptCounter' = [attemptCounter EXCEPT ![n] = a]
    BY DEF Dispatch
  <1>6. \A m \in Nodes \ {n} : SameNode(m)
    BY <1>5 DEF SameNode, TypeOK
  <1>7. nodeStat'[n] = "running" /\ attemptCounter'[n] = a
    BY <1>5 DEF TypeOK
  <1>8. Sends(n, op)
    <2> HIDE DEF op
    <2> QED
      BY <1>2, <1>4, <1>6 DEF Sends
  <1>9. Starts(n, op)
    BY <1>1, <1>2, <1>7, <1>8 DEF Starts
  <1> QED
    BY <1>2, <1>9

LEMMA AdvanceKind ==
  ASSUME TypeOK, TokenInv, DecisionInv, NEW n \in Nodes, TryAdvance(n)
  PROVE  \/ Still
         \/ \E op \in Op : Starts(n, op) \/ GivesUp(n, op)
  <1>1. UNCHANGED <<symVars, endHit, timers, retryCh, persistErr, rows, dbRun, faults>>
    BY DEF TryAdvance, verdictVars
  <1>2. \A m : Retrying(m)' <=> Retrying(m)
    BY <1>1, SameRetries
  <1>3. CASE Startable(n) /\ Dispatch(n)
    <2>1. /\ nodeStat[n] = "unready" /\ attemptCounter[n] = 0
          /\ attemptCounter[n] <= MaxRetries[n]
      <3>1. nodeStat[n] = "unready"
        BY <1>3 DEF Startable
      <3> QED
        BY <3>1, PolicyAssumption DEF TokenInv, UnreadyIsFresh, TypeOK
    <2>2. ~Retrying(n)
      BY <2>1, UnreadyHasNoToken DEF Retrying
    <2> QED
      BY <1>1, <1>2, <1>3, <2>1, <2>2, DispatchStarts
  <1>4. CASE Startable(n) /\ MarkSkipped(n) /\ UNCHANGED attemptCounter
    <2> DEFINE op == AppendOp(n, 1, "skipped")
    <2>1. nodeStat[n] = "unready" /\ attemptCounter[n] = 0
      <3>1. nodeStat[n] = "unready"
        BY <1>4 DEF Startable
      <3> QED
        BY <3>1 DEF TokenInv, UnreadyIsFresh, TypeOK
    <2>2. ~Retrying(n)
      BY <2>1, UnreadyHasNoToken DEF Retrying
    <2>3. op \in Op /\ op.kind # "vars" /\ op.node = n /\ op.attempt = 1
      <3>1. op \in Op
        BY OpsTyped DEF RowStatus
      <3> QED
        BY <3>1 DEF AppendOp
    <2>4. Send(<<op>>) /\ nodeStat' = [nodeStat EXCEPT ![n] = "done"]
      BY <1>4 DEF MarkSkipped
    <2>5. Queues(op)
      <3> HIDE DEF op
      <3> QED
        BY <1>1, <2>3, <2>4, SendsOne
    <2>6. /\ \A m \in Nodes \ {n} : SameNode(m)
          /\ nodeStat'[n] = "done"
      BY <1>2, <1>4, <2>4 DEF SameNode, TypeOK
    <2>7. Sends(n, op)
      <3> HIDE DEF op
      <3> QED
        BY <1>1, <2>3, <2>5, <2>6 DEF Sends
    <2>8. 1 <= MaxRetries[n] + 1
      BY PolicyAssumption
    <2>9. GivesUp(n, op)
      BY <1>1, <1>2, <1>4, <2>1, <2>2, <2>3, <2>6, <2>7, <2>8 DEF GivesUp
    <2> QED
      BY <2>3, <2>9
  <1>5. CASE UNCHANGED <<nodeStat, attemptCounter, persistQ>>
    BY <1>1, <1>2, <1>5 DEF Still, SameNode
  <1> QED
    BY <1>3, <1>4, <1>5 DEF TryAdvance

\* Once a node is done its attempt is over.
LEMMA EndsAttempt ==
  ASSUME TypeOK, TokenInv, NEW r \in Result, Alive(r.node),
         r.attempt = attemptCounter[r.node],
         r.attempt \in 1..(MaxRetries[r.node] + 1),
         NEW s \in {"success", "failed", "cancelled"}, NEW p \in RowPorts,
         NEW fb \in BOOLEAN, Ending(FinishOp(r, s, p, fb)),
         Queues(FinishOp(r, s, p, fb)),
         nodeStat' = [nodeStat EXCEPT ![r.node] = "done"],
         UNCHANGED <<attemptCounter, timers, retryCh, rows, dbRun, faults, persistErr>>,
         \/ UNCHANGED endHit
         \/ /\ endHit = None /\ endHit' = r.node /\ r.node \in EndNodes
            /\ s # "cancelled" /\ p # NoPort
  PROVE  \E n \in Nodes, op \in Op : Ends(n, op)
  <1> DEFINE op == FinishOp(r, s, p, fb)
             n == r.node
  <1>1. n \in Nodes
    BY DEF Result
  <1>2. /\ op \in Op /\ op.kind = "finish" /\ op.node = n /\ op.attempt = r.attempt
        /\ op.row.status = s /\ op.row.port = p
    <2>1. op \in Op
      BY OpsTyped DEF RowStatus
    <2> QED
      BY <2>1 DEF FinishOp
  <1>3. \A m : Retrying(m)' <=> Retrying(m)
    BY SameRetries
  <1>4. /\ \A m \in Nodes \ {n} : SameNode(m)
        /\ nodeStat'[n] = "done" /\ attemptCounter'[n] = attemptCounter[n]
    BY <1>1, <1>3 DEF SameNode, TypeOK
  <1>5. Sends(n, op)
    <2>1. op.kind # "vars"
      BY <1>2
    <2> HIDE DEF op, n
    <2> QED
      BY <1>2, <1>4, <2>1 DEF Sends, op
  <1>6. /\ Ending(op) /\ Alive(n) /\ ~Retrying(n)'
    BY <1>3 DEF Alive
  <1>7. \/ UNCHANGED endHit
        \/ /\ endHit = None /\ endHit' = n /\ n \in EndNodes /\ Propagated(op.row)
    BY <1>2 DEF Propagated
  <1>8. Ends(n, op)
    <2> HIDE DEF op, n
    <2> QED
      BY <1>2, <1>4, <1>5, <1>6, <1>7 DEF Ends, n
  <1> QED
    BY <1>1, <1>2, <1>8

LEMMA ReceiveKind ==
  ASSUME TypeOK, TokenInv, InTurn, ResultsPossible, NEW r \in results, ReceiveResult(r)
  PROVE  \/ Still
         \/ \E n \in Nodes, op \in Op : Ends(n, op)
  <1>1. /\ r \in Result /\ r.node \in Nodes
        /\ UNCHANGED <<symVars, endHit, attemptCounter, timers, retryCh, rows, dbRun,
                       faults, persistErr>>
    BY DEF ReceiveResult, TypeOK, Result
  <1>2. CASE CancelNoticed \/ Decided
    <2> DEFINE x == [at |-> "done", task |-> r]
               op == FinishOp(r, "cancelled", PortOf(r), FALSE)
    <2>1. x \in Tokens /\ x.task = r /\ ~Waits(x)
      BY TokenPlaces DEF Waits
    <2>2. /\ Alive(r.node) /\ r.attempt = attemptCounter[r.node]
          /\ r.attempt \in 1..(MaxRetries[r.node] + 1)
      BY <2>1, TokenTells, WaitsTells
    <2>3. /\ Send(<<op>>)
          /\ nodeStat' = [nodeStat EXCEPT ![r.node] = "done"]
      BY <1>2 DEF ReceiveResult, EndAttempt
    <2>4. PortOf(r) \in RowPorts /\ op \in Op
      BY <1>1, PortTyped, OpsTyped DEF RowStatus
    <2>5. PortOf(r) = "unserializable" => "unserializable" \in Outcomes[r.node]
      <3>1. r.out \in Outcomes[r.node]
        BY DEF ResultsPossible
      <3> QED
        BY <3>1, PortAssumption DEF PortOf, Errors
    <2>6. Ending(op)
      <3>1. op.row.status = "cancelled" /\ op.row.port = PortOf(r) /\ op.node = r.node
        BY DEF FinishOp
      <3> HIDE DEF op
      <3> QED
        BY <2>5, <3>1 DEF Ending
    <2>7. Queues(op)
      <3> HIDE DEF op
      <3> QED
        BY <1>1, <2>3, <2>4, SendsOne
    <2> QED
      BY <1>1, <2>2, <2>3, <2>4, <2>6, <2>7, EndsAttempt
  <1>3. CASE ~(CancelNoticed \/ Decided)
    <2>1. UNCHANGED <<nodeStat, persistQ>>
      BY <1>3 DEF ReceiveResult
    <2> QED
      BY <1>1, <2>1, SameRetries DEF Still, SameNode
  <1> QED
    BY <1>2, <1>3

LEMMA HandKind ==
  ASSUME TypeOK, TokenInv, HandFilled, Handle
  PROVE  /\ cur \in Result /\ cur.node \in Nodes /\ Alive(cur.node)
         /\ cur.attempt = attemptCounter[cur.node]
         /\ cur.attempt \in 1..(MaxRetries[cur.node] + 1)
         /\ UNCHANGED <<attemptCounter, retryCh, persistErr, rows, dbRun, faults>>
  <1> DEFINE x == [at |-> "driver", task |-> cur]
  <1>1. cur # None /\ cur \in Result /\ cur.node \in Nodes
    BY DEF HandFilled, Handle, TypeOK, Result
  <1>2. x \in Tokens /\ x.task = cur /\ ~Waits(x)
    BY <1>1, TokenPlaces DEF Waits
  <1>3. UNCHANGED <<attemptCounter, retryCh, persistErr, rows, dbRun, faults>>
    BY DEF Handle
  <1> QED
    BY <1>1, <1>2, <1>3, TokenTells, WaitsTells

LEMMA FailKind ==
  ASSUME TypeOK, TokenInv, HandFilled, HandleCancelled \/ HandleFailRun
  PROVE  \E n \in Nodes, op \in Op : Ends(n, op)
  <1>1. Handle /\ UNCHANGED <<endHit, symVars, timers>>
    BY DEF HandleCancelled, HandleFailRun
  <1>2. PICK r \in Result :
          /\ r = cur /\ Alive(r.node) /\ r.attempt = attemptCounter[r.node]
          /\ r.attempt \in 1..(MaxRetries[r.node] + 1)
          /\ UNCHANGED <<attemptCounter, retryCh, persistErr, rows, dbRun, faults>>
    BY <1>1, HandKind
  <1>3. PICK s \in {"cancelled", "failed"} : EndAttempt(r, s, NoPort, FALSE)
    BY <1>2 DEF HandleCancelled, HandleFailRun
  <1> DEFINE op == FinishOp(r, s, NoPort, FALSE)
  <1>4. /\ Send(<<op>>)
        /\ nodeStat' = [nodeStat EXCEPT ![r.node] = "done"]
    BY <1>3 DEF EndAttempt
  <1>5. op \in Op /\ NoPort \in RowPorts
    BY OpsTyped DEF RowStatus, RowPorts
  <1>6. Ending(op)
    <2>1. op.row.status = s /\ op.row.port = NoPort
      BY DEF FinishOp
    <2> HIDE DEF op
    <2> QED
      BY <2>1, PortAssumption DEF Ending
  <1>7. Queues(op)
    <2> HIDE DEF op
    <2> QED
      BY <1>1, <1>4, <1>5, SendsOne
  <1>8. s \in {"success", "failed", "cancelled"}
    OBVIOUS
  <1> QED
    BY <1>1, <1>2, <1>4, <1>5, <1>6, <1>7, <1>8, EndsAttempt

LEMMA PropagateKind ==
  ASSUME TypeOK, TypeOK', TokenInv, HandFilled, HandlesUndecided, HandlePropagate
  PROVE  \E n \in Nodes, op \in Op : Ends(n, op)
  <1>1. Handle /\ UNCHANGED timers /\ pc = "handling" /\ endHit = None
    BY DEF HandlePropagate, Handle, HandlesUndecided, Decided
  <1>2. PICK r \in Result :
          /\ r = cur /\ r.node \in Nodes /\ Alive(r.node)
          /\ r.attempt = attemptCounter[r.node]
          /\ r.attempt \in 1..(MaxRetries[r.node] + 1)
          /\ UNCHANGED <<attemptCounter, retryCh, persistErr, rows, dbRun, faults>>
    BY <1>1, HandKind
  <1>3. PICK s \in {"success", "failed"}, p \in Ports, fb \in BOOLEAN :
          /\ Propagate(p, s, fb)
          /\ s = "failed" => /\ Exhausted
                             /\ p = (IF fb THEN FallbackPort[r.node] ELSE ErrorPort)
    <2>1. FallbackPort[r.node] \in Ports /\ ErrorPort \in Ports
      BY <1>2, PolicyAssumption, PortAssumption
    <2>2. CASE r.out \in Ports /\ Propagate(r.out, "success", FALSE)
      BY <2>2
    <2>3. CASE Exhausted /\ Propagate(FallbackPort[r.node], "failed", TRUE)
      BY <2>1, <2>3
    <2>4. CASE Exhausted /\ Propagate(ErrorPort, "failed", FALSE)
      BY <2>1, <2>4
    <2> QED
      BY <1>2, <2>2, <2>3, <2>4 DEF HandlePropagate
  <1> PICK vs \in SUBSET SetVarNodes : vs = symVars'
    BY DEF TypeOK
  <1> DEFINE op == FinishOp(r, s, p, fb)
             vop == VarsOp(r, vs)
  <1>4. /\ op \in Op /\ vop \in Op /\ vop.kind = "vars" /\ vop.vars = symVars'
        /\ s \in {"success", "failed", "cancelled"} /\ p \in RowPorts
        /\ p # NoPort /\ p # "unserializable" /\ s # "cancelled"
    <2>1. op \in Op /\ p \in RowPorts
      BY <1>2, OpsTyped DEF RowStatus, RowPorts
    <2>2. vop \in Op
      BY <1>2, OpsTyped
    <2> QED
      BY <2>1, <2>2, PortAssumption DEF VarsOp
  <1>5. Ending(op)
    <2>1. s = "failed" => LastFailure(r.node, r.attempt, op.row)
      <3>1. Exhausted => r.attempt = MaxRetries[r.node] + 1
        BY <1>2, PolicyAssumption DEF Exhausted, RetriesLeft
      <3> QED
        BY <1>3, <3>1 DEF LastFailure, FinishOp
    <2> QED
      BY <1>4, <2>1 DEF Ending, FinishOp
  <1>6. Queues(op)
    <2>1. CASE r.node \in SetVarNodes
      <3>1. Send(<<op, vop>>)
        BY <1>2, <1>3, <2>1 DEF Propagate
      <3> HIDE DEF op, vop
      <3> QED
        BY <1>4, <3>1, SendsTwo
    <2>2. CASE r.node \notin SetVarNodes
      <3>1. Send(<<op>>) /\ UNCHANGED symVars
        BY <1>2, <1>3, <2>2 DEF Propagate
      <3> HIDE DEF op
      <3> QED
        BY <1>4, <3>1, SendsOne
    <2> QED
      BY <2>1, <2>2
  <1>7. /\ nodeStat' = [nodeStat EXCEPT ![r.node] = "done"]
        /\ UNCHANGED endHit \/ (endHit' = r.node /\ r.node \in EndNodes)
    BY <1>1, <1>2, <1>3 DEF Propagate
  <1> HIDE DEF vop
  <1> QED
    BY <1>1, <1>2, <1>4, <1>5, <1>6, <1>7, EndsAttempt

LEMMA RetryKind ==
  ASSUME TypeOK, TokenInv, HandFilled, HandleRetry
  PROVE  \E n \in Nodes, op \in Op : Ends(n, op)
  <1>1. Handle /\ UNCHANGED <<nodeStat, symVars, endHit>> /\ RetriesLeft(cur)
    BY DEF HandleRetry, graphVars
  <1>2. PICK r \in Result :
          /\ r = cur /\ r.node \in Nodes /\ Alive(r.node)
          /\ r.attempt = attemptCounter[r.node]
          /\ r.attempt \in 1..(MaxRetries[r.node] + 1)
          /\ UNCHANGED <<attemptCounter, retryCh, persistErr, rows, dbRun, faults>>
    BY <1>1, HandKind
  <1> DEFINE op == FinishOp(r, "failed", NoPort, FALSE)
             t == [node |-> r.node, attempt |-> r.attempt + 1]
             n == r.node
  <1>3. Send(<<op>>) /\ timers' = timers \cup {t} /\ t.node = n
    BY <1>2 DEF HandleRetry
  <1>4. \A m : WaitingRetry(m)' <=> WaitingRetry(m) \/ m = n
    BY <1>2, <1>3 DEF WaitingRetry
  <1>5. \A m : Retrying(m)' <=> Retrying(m) \/ m = n
    BY <1>4, RetryingWhere, RetryingWhereNext
  <1>6. op \in Op
    BY <1>2, OpsTyped DEF RowStatus, RowPorts
  <1>7. /\ op.kind = "finish" /\ op.kind # "vars" /\ op.node = n
        /\ op.attempt = attemptCounter[n]
        /\ Ending(op) /\ FailedQuietly(op.row)
    <2>1. /\ op.kind = "finish" /\ op.node = n /\ op.attempt = r.attempt
          /\ op.row.status = "failed" /\ op.row.port = NoPort
      BY DEF FinishOp
    <2> HIDE DEF op
    <2> QED
      BY <1>2, <2>1, PortAssumption DEF Ending, FailedQuietly
  <1>8. /\ nodeStat[n] = "running" /\ nodeStat'[n] = "running" /\ Retrying(n)'
        /\ attemptCounter'[n] = attemptCounter[n] /\ Alive(n)
        /\ attemptCounter[n] \in 1..(MaxRetries[n] + 1)
    BY <1>1, <1>2, <1>5 DEF Alive
  <1> HIDE DEF op, n, t
  <1>9. Queues(op)
    BY <1>1, <1>3, <1>6, SendsOne
  <1>10. Sends(n, op)
    BY <1>1, <1>2, <1>5, <1>6, <1>7, <1>9 DEF Sends, SameNode
  <1>11. Ends(n, op)
    BY <1>1, <1>7, <1>8, <1>10 DEF Ends
  <1> QED
    BY <1>2, <1>6, <1>11 DEF n

LEMMA RetryDueKind ==
  ASSUME TypeOK, TokenInv, InTurn, NEW rt \in retryCh, RetryDue(rt)
  PROVE  \E n \in Nodes, op \in Op : Starts(n, op) \/ GivesUp(n, op)
  <1> DEFINE x == [at |-> "retryCh", task |-> rt]
             n == rt.node
  <1>1. rt \in Retry /\ n \in Nodes /\ n # None
    BY EngineAssumption DEF TypeOK, Retry
  <1>2. x \in Tokens /\ x.task = rt /\ Waits(x)
    BY TokenPlaces DEF Waits
  <1>3. /\ nodeStat[n] = "running" /\ Retrying(n)
        /\ rt.attempt = attemptCounter[n] + 1
        /\ rt.attempt \in 1..(MaxRetries[n] + 1)
        /\ \A y \in Tokens : y.task.node = n => y = x
    BY <1>2, TokenTells, WaitsTells
  <1>4. attemptCounter[n] \in Nat /\ MaxRetries[n] \in Nat
    BY <1>1, PolicyAssumption DEF TypeOK
  <1>5. attemptCounter[n] > 0
    <2>1. attemptCounter[n] # 0
      BY <1>1, <1>3 DEF TokenInv, UnreadyIsFresh
    <2> QED
      BY <1>4, <2>1
  <1>6. /\ retryCh' = retryCh \ {rt}
        /\ UNCHANGED <<timers, symVars, endHit, rows, dbRun, faults, persistErr>>
    BY DEF RetryDue, verdictVars
  <1>7. ~WaitingRetry(n)' /\ \A m \in Nodes \ {n} : WaitingRetry(m)' <=> WaitingRetry(m)
    <2>1. \A u \in retryCh : u.node = n => u = rt
      BY <1>3, TokenPlaces
    <2>2. \A t \in timers : t.node # n
      BY <1>3, TokenPlaces
    <2> QED
      BY <1>6, <2>1, <2>2 DEF WaitingRetry
  <1>8. ~Retrying(n)' /\ \A m \in Nodes \ {n} : Retrying(m)' <=> Retrying(m)
    BY <1>7, RetryingWhere, RetryingWhereNext
  <1>9. CASE Aborts(rt)
    <2> DEFINE op == AppendOp(n, rt.attempt, "cancelled")
    <2>1. /\ Send(<<op>>) /\ nodeStat' = [nodeStat EXCEPT ![n] = "done"]
          /\ UNCHANGED attemptCounter
      BY <1>9 DEF RetryDue, AbortOp
    <2>2. op \in Op /\ op.kind # "vars" /\ op.node = n /\ op.attempt = rt.attempt
      <3>1. op \in Op
        BY <1>1, OpsTyped DEF RowStatus, Retry
      <3> QED
        BY <3>1 DEF AppendOp
    <2>3. Queues(op)
      <3> HIDE DEF op
      <3> QED
        BY <1>6, <2>1, <2>2, SendsOne
    <2>4. /\ \A m \in Nodes \ {n} : SameNode(m)
          /\ nodeStat'[n] = "done"
      BY <1>1, <1>8, <2>1 DEF SameNode, TypeOK
    <2>5. op = AppendOp(n, attemptCounter[n] + 1, "cancelled") /\ op.attempt <= MaxRetries[n] + 1
      BY <1>3, <1>4, <2>2
    <2> HIDE DEF op, n
    <2>6. Sends(n, op)
      BY <1>6, <2>2, <2>3, <2>4 DEF Sends
    <2>7. GivesUp(n, op)
      BY <1>3, <1>5, <1>6, <1>8, <2>1, <2>4, <2>5, <2>6 DEF GivesUp
    <2> QED
      BY <1>1, <2>2, <2>7
  <1>10. CASE ~Aborts(rt)
    <2>1. Dispatch(n)
      BY <1>10 DEF RetryDue
    <2>2. attemptCounter[n] <= MaxRetries[n] /\ nodeStat[n] # "done"
      BY <1>3, <1>4
    <2> HIDE DEF n
    <2> QED
      BY <1>1, <1>3, <1>6, <1>8, <2>1, <2>2, DispatchStarts
  <1> QED
    BY <1>9, <1>10

\* The steps that send nothing.
LEMMA QuietKind ==
  ASSUME TypeOK,
         \/ LoadVersion \/ CreateRun \/ BeginRun \/ Settle \/ PersistFailed
         \/ ContextDone \/ LeaveLoop \/ FinishDrain \/ SaveVerdict \/ CloseRun
         \/ CallerCancels \/ UNCHANGED vars
  PROVE  Still
  <1>1. UNCHANGED <<persistQ, rows, nodeStat, attemptCounter, timers, retryCh, endHit,
                    symVars>>
    BY DEF LoadVersion, CreateRun, BeginRun, Settle, PersistFailed, ContextDone,
           LeaveLoop, FinishDrain, SaveVerdict, CloseRun, CallerCancels,
           vars, driverVars, graphVars, taskVars, storeVars, verdictVars
  <1>2. dbRun'.vars = dbRun.vars
    <2>1. CASE LoadVersion \/ Settle \/ PersistFailed \/ ContextDone \/ LeaveLoop
               \/ FinishDrain \/ CallerCancels \/ UNCHANGED vars
      BY <2>1 DEF LoadVersion, Settle, PersistFailed, ContextDone, LeaveLoop,
                  FinishDrain, CallerCancels, vars, storeVars
    <2>2. CASE CreateRun \/ BeginRun \/ CloseRun
      BY <2>2 DEF CreateRun, BeginRun, CloseRun, GiveUp, TypeOK, Run
    <2>3. CASE SaveVerdict
      BY <2>3 DEF SaveVerdict, TypeOK, Run
    <2> QED
      BY <2>1, <2>2, <2>3
  <1> QED
    BY <1>1, <1>2, SameRetries DEF Still, SameNode

LEMMA OthersKind ==
  ASSUME TypeOK,
         \/ \E t \in work, out \in Outcome : WorkerEnds(t, out)
         \/ \E t \in timers : TimerFires(t)
  PROVE  Still
  <1>1. UNCHANGED <<persistQ, rows, nodeStat, attemptCounter, endHit, symVars, dbRun>>
    BY DEF WorkerEnds, TimerFires, driverVars, graphVars, storeVars, verdictVars
  <1>2. CASE \E t \in work, out \in Outcome : WorkerEnds(t, out)
    <2>1. UNCHANGED <<timers, retryCh>>
      BY <1>2 DEF WorkerEnds
    <2> QED
      BY <1>1, <2>1, SameRetries DEF Still, SameNode
  <1>3. CASE \E t \in timers : TimerFires(t)
    <2>1. PICK t \in timers, flagged \in BOOLEAN :
            /\ timers' = timers \ {t}
            /\ retryCh' = retryCh \cup {[node |-> t.node, attempt |-> t.attempt,
                                         cancelled |-> flagged]}
      BY <1>3 DEF TimerFires
    <2>2. \A m : WaitingRetry(m) => WaitingRetry(m)'
      <3> SUFFICES ASSUME NEW m, WaitingRetry(m) PROVE WaitingRetry(m)'
        OBVIOUS
      <3> DEFINE rt == [node |-> t.node, attempt |-> t.attempt, cancelled |-> flagged]
      <3>1. rt \in retryCh' /\ rt.node = t.node
        BY <2>1
      <3>2. \A u \in timers : u # t => u \in timers'
        BY <2>1
      <3>3. \A u \in retryCh : u \in retryCh'
        BY <2>1
      <3> HIDE DEF rt
      <3> QED
        BY <3>1, <3>2, <3>3 DEF WaitingRetry
    <2>3. \A m : WaitingRetry(m)' => WaitingRetry(m)
      BY <2>1 DEF WaitingRetry
    <2>4. \A m : Retrying(m)' <=> Retrying(m)
      BY <2>2, <2>3, RetryingWhere, RetryingWhereNext
    <2> QED
      BY <1>1, <2>4 DEF Still, SameNode
  <1> QED
    BY <1>2, <1>3

\* Every step that is not the persister's.
LEMMA StepKinds ==
  ASSUME TypeOK, TypeOK', TaskInv, DecisionInv, InTurn, ResultsPossible, [Next]_vars
  PROVE  \/ Still
         \/ \E n \in Nodes, op \in Op : Starts(n, op) \/ GivesUp(n, op) \/ Ends(n, op)
         \/ Persist
  <1>1. TokenInv /\ HandFilled /\ HandlesUndecided
    BY DEF TaskInv, TokenInv, DecisionInv
  <1>2. CASE \E n \in todo : TryAdvance(n)
    <2>1. PICK n \in Nodes : TryAdvance(n)
      BY <1>2 DEF TypeOK
    <2> QED
      BY <1>1, <2>1, AdvanceKind
  <1>3. CASE \E r \in results : ReceiveResult(r)
    BY <1>1, <1>3, ReceiveKind
  <1>4. CASE HandleCancelled \/ HandleRetry \/ HandleFailRun \/ HandlePropagate
    BY <1>1, <1>4, FailKind, RetryKind, PropagateKind
  <1>5. CASE \E rt \in retryCh : RetryDue(rt)
    BY <1>1, <1>5, RetryDueKind
  <1>6. CASE \E n \in Nodes : Worker(n) \/ RetryTimer(n)
    BY <1>6, OthersKind DEF Worker, RetryTimer
  <1> QED
    BY <1>2, <1>3, <1>4, <1>5, <1>6, QuietKind DEF Next, Driver, Over
-----------------------------------------------------------------------------
(***************************************************************************)
(* What the persister does to the queue and to the row of its operation.   *)
(***************************************************************************)
Accepted(op, k) ==
  \/ /\ k = WritesAccepted(op)
     /\ (persistErr' <=> persistErr \/ k < 3)
     /\ UNCHANGED faults
  \/ /\ k <= WritesAccepted(op) /\ k < 3
     /\ op.kind # "finish" => k = 0
     /\ persistErr'
     /\ faults' = faults + 1

Applies(op, k) ==
  /\ Len(persistQ) >= 1 /\ persistQ[1] = op
  /\ Len(persistQ') = Len(persistQ) - 1
  /\ \A i \in 1..Len(persistQ') : persistQ'[i] = persistQ[i + 1]
  /\ Store(op, k)
  /\ Accepted(op, k)
  /\ UNCHANGED <<endHit, symVars, runFail, pc, results, cur>>
  /\ \A m \in Nodes : SameNode(m)

LEMMA PersistApplies ==
  ASSUME TypeOK, Persist
  PROVE  \E op \in Op, k \in 0..3 : Applies(op, k)
  <1> DEFINE op == Head(persistQ)
  <1>1. /\ persistQ # <<>> /\ persistQ \in Seq(Op) /\ persistQ' = Tail(persistQ)
        /\ UNCHANGED <<driverVars, ctxErr, taskVars>>
    BY DEF Persist, TypeOK
  <1>2. /\ op \in Op /\ Len(persistQ) >= 1 /\ persistQ[1] = op
        /\ Len(persistQ') = Len(persistQ) - 1
        /\ \A i \in 1..Len(persistQ') : persistQ'[i] = persistQ[i + 1]
    BY <1>1
  <1>3. WritesAccepted(op) \in 0..3
    BY DEF WritesAccepted
  <1>4. persistErr \in BOOLEAN
    BY DEF TypeOK
  <1>5. PICK k \in 0..3 : Store(op, k) /\ Accepted(op, k)
    <2>1. CASE /\ Store(op, WritesAccepted(op))
               /\ persistErr' = ErrReported(WritesAccepted(op) < 3)
               /\ UNCHANGED faults
      <3>1. Accepted(op, WritesAccepted(op))
        BY <2>1, Zenon DEF Accepted, ErrReported
      <3> QED
        BY <1>3, <2>1, <3>1
    <2>2. CASE /\ faults' = faults + 1
               /\ \E k \in 0..2 : /\ op.kind # "finish" => k = 0
                                  /\ k <= WritesAccepted(op)
                                  /\ Store(op, k)
               /\ persistErr' = ErrReported(TRUE)
      <3>1. PICK k \in 0..2 : /\ op.kind # "finish" => k = 0
                              /\ k <= WritesAccepted(op)
                              /\ Store(op, k)
        BY <2>2
      <3>2. persistErr'
        BY <2>2, Zenon DEF ErrReported
      <3>3. k < 3 /\ k \in 0..3
        OBVIOUS
      <3>4. Accepted(op, k)
        BY <2>2, <3>1, <3>2, <3>3, Zenon DEF Accepted
      <3> QED
        BY <3>1, <3>3, <3>4
    <2> QED
      BY <2>1, <2>2 DEF Persist
  <1>6. /\ UNCHANGED <<endHit, symVars, runFail, pc, results, cur>>
        /\ \A m \in Nodes : SameNode(m)
    <2>1. UNCHANGED <<timers, retryCh, nodeStat, attemptCounter>>
      BY <1>1 DEF driverVars, graphVars, taskVars
    <2> QED
      BY <1>1, <2>1, SameRetries
         DEF SameNode, driverVars, graphVars, verdictVars, taskVars
  <1> HIDE DEF op
  <1> QED
    BY <1>2, <1>5, <1>6 DEF Applies

\* The row its operation leaves: as it was, but perhaps for a part of an
\* update; inserted; or ended.
Left(op, old, new) ==
  /\ new.status = old.status
  /\ old.status = "absent" => new = old
  /\ \/ faults' = faults + 1 /\ persistErr'
     \/ /\ faults' = faults /\ persistErr'
        /\ op.kind = "append" => old.status # "absent"
        /\ op.kind = "finish" =>
             \/ op.row.port = "unserializable" /\ new.port = old.port
             \/ old.status # "running"

Inserted(op, old, new) ==
  /\ op.kind = "append" /\ old.status = "absent"
  /\ new.status = op.row.status /\ new.port = NoPort
  /\ faults' = faults /\ (persistErr' <=> persistErr)

Closed(op, old, new) ==
  /\ op.kind = "finish" /\ old.status = "running"
  /\ op.row.port # "unserializable"
  /\ new.status = op.row.status
  /\ new.fallback = op.row.fallback
  /\ new.port = IF op.row.port = NoPort THEN old.port ELSE op.row.port
  /\ faults' = faults /\ (persistErr' <=> persistErr)

OtherRows(op) ==
  \A m \in Nodes, b \in Attempts :
    (m # op.node \/ b # op.attempt) => rows'[m][b] = rows[m][b]

LEMMA InAttempts ==
  ASSUME NEW n \in Nodes, NEW a \in 1..(MaxRetries[n] + 1)
  PROVE  a \in Attempts
  BY DEF Attempts

LEMMA AppliedRow ==
  ASSUME TypeOK, RowsLegal, NEW op \in Op, LegalWrite(op), op.kind # "vars",
         NEW k \in 0..3, Applies(op, k)
  PROVE  /\ op.node \in Nodes /\ op.attempt \in Attempts
         /\ OtherRows(op)
         /\ UNCHANGED dbRun
         /\ LET old == rows[op.node][op.attempt]
                new == rows'[op.node][op.attempt] IN
            Left(op, old, new) \/ Inserted(op, old, new) \/ Closed(op, old, new)
  <1> DEFINE old == rows[op.node][op.attempt]
             new == rows'[op.node][op.attempt]
  <1>1. op.node \in Nodes /\ op.attempt \in Attempts /\ op.row \in Row
        /\ op.kind \in {"append", "finish"}
    BY InAttempts DEF Op, LegalWrite
  <1>2. old \in Row /\ (old.status = "absent" => old = EmptyRow)
    BY <1>1 DEF TypeOK, RowsLegal, LegalRow
  <1>3. /\ rows' = [rows EXCEPT ![op.node][op.attempt] = Written(op, k)]
        /\ UNCHANGED dbRun
    BY DEF Applies, Store
  <1>4. OtherRows(op) /\ new = Written(op, k)
    BY <1>1, <1>3 DEF TypeOK, OtherRows
  <1>5. Accepted(op, k)
    BY DEF Applies
  <1>6. CASE op.kind = "append"
    <2>1. CASE k = 0
      <3>1. new = old
        BY <1>4, <2>1 DEF Written
      <3>2. persistErr' /\ (faults' = faults + 1 \/ (faults' = faults /\ old.status # "absent"))
        BY <1>5, <1>6, <2>1 DEF Accepted, WritesAccepted
      <3> QED
        BY <1>1, <1>3, <1>4, <1>6, <3>1, <3>2 DEF Left
    <2>2. CASE k # 0
      <3>1. /\ k = 3 /\ old.status = "absent" /\ faults' = faults
            /\ (persistErr' <=> persistErr)
        BY <1>5, <1>6, <2>2 DEF Accepted, WritesAccepted
      <3>2. Insertion(op)
        BY <1>6 DEF LegalWrite
      <3>3. new = WithStatus(op, WithOutput(op, WithResolved(op, old)))
        BY <1>4, <3>1 DEF Written
      <3>4. WithResolved(op, old) = old
        BY <1>2, <3>1, <3>2 DEF WithResolved, Insertion, EmptyRow, Row
      <3>5. WithOutput(op, old) = old
        BY <3>2 DEF WithOutput, Insertion
      <3>6. WithStatus(op, old).status = op.row.status /\ WithStatus(op, old).port = NoPort
        <4>1. old \in Row /\ old.port = NoPort
          BY <1>2, <3>1 DEF EmptyRow
        <4> HIDE DEF old
        <4> QED
          BY <1>1, <4>1 DEF WithStatus, Row
      <3> QED
        BY <1>1, <1>3, <1>4, <1>6, <3>1, <3>3, <3>4, <3>5, <3>6 DEF Inserted
    <2> QED
      BY <2>1, <2>2
  <1>7. CASE op.kind = "finish"
    <2>1. CASE k < 3
      <3>1. /\ new.status = old.status
            /\ k = 0 => new = old
        BY <1>2, <1>4, <2>1 DEF Written, WithResolved, WithOutput, Row
      <3>2. /\ persistErr'
            /\ old.status = "absent" => k = 0
            /\ \/ faults' = faults + 1
               \/ /\ faults' = faults
                  /\ \/ op.row.port = "unserializable" /\ k < 2
                     \/ old.status # "running"
        BY <1>5, <1>7, <2>1 DEF Accepted, WritesAccepted
      <3>3. k < 2 => new.port = old.port
        BY <1>1, <1>2, <1>4 DEF Written, WithResolved, Row
      <3> QED
        BY <1>1, <1>3, <1>4, <1>7, <3>1, <3>2, <3>3 DEF Left
    <2>2. CASE k = 3
      <3>1. /\ old.status = "running" /\ op.row.port # "unserializable"
            /\ faults' = faults /\ (persistErr' <=> persistErr)
        BY <1>5, <1>7, <2>2 DEF Accepted, WritesAccepted
      <3>2. new = WithStatus(op, WithOutput(op, WithResolved(op, old)))
        BY <1>4, <2>2 DEF Written
      <3>3. /\ WithResolved(op, old) \in Row /\ WithResolved(op, old).port = old.port
        BY <1>1, <1>2 DEF WithResolved, Row
      <3>4. /\ WithOutput(op, WithResolved(op, old)) \in Row
            /\ WithOutput(op, WithResolved(op, old)).port =
                 IF op.row.port = NoPort THEN old.port ELSE op.row.port
        BY <1>1, <3>3 DEF WithOutput, Row
      <3>5. /\ new.status = op.row.status /\ new.fallback = op.row.fallback
            /\ new.port = IF op.row.port = NoPort THEN old.port ELSE op.row.port
        BY <1>1, <3>2, <3>4 DEF WithStatus, Row
      <3> QED
        BY <1>1, <1>3, <1>4, <1>7, <3>1, <3>5 DEF Closed
    <2> QED
      BY <2>1, <2>2
  <1> QED
    BY <1>1, <1>6, <1>7
-----------------------------------------------------------------------------
(***************************************************************************)
(* The queue before and after.                                             *)
(***************************************************************************)
LEMMA AttemptsNat == \A a \in Attempts : a \in Nat /\ a >= 1
  BY PolicyAssumption DEF Attempts

LEMMA TurnsTyped ==
  ASSUME TypeOK
  PROVE  /\ \A op \in Op : Turn(op) \in Nat /\ TurnAfter(op) \in Nat
         /\ \A n \in Nodes, a \in Attempts : RowTurn(n, a) \in Nat
         /\ \A n \in Nodes : Clock(n) \in Nat
  <1>1. \A op \in Op : Turn(op) \in Nat /\ TurnAfter(op) \in Nat
    BY DEF Op, Turn, TurnAfter
  <1>2. \A n \in Nodes, a \in Attempts : RowTurn(n, a) \in Nat
    BY AttemptsNat DEF RowTurn
  <1>3. \A n \in Nodes : Clock(n) \in Nat
    BY DEF Clock, TypeOK
  <1> QED
    BY <1>1, <1>2, <1>3

LEMMA QueuedTyped ==
  ASSUME TypeOK
  PROVE  /\ DOMAIN persistQ = 1..Len(persistQ) /\ Len(persistQ) \in Nat
         /\ \A i \in DOMAIN persistQ : persistQ[i] \in Op
         /\ \A n : \A i \in Queued(n) :
              i \in Nat /\ i >= 1 /\ i <= Len(persistQ) /\ persistQ[i] \in Op
  <1>1. /\ DOMAIN persistQ = 1..Len(persistQ) /\ Len(persistQ) \in Nat
        /\ \A i \in DOMAIN persistQ : persistQ[i] \in Op
    BY DEF TypeOK
  <1> QED
    BY <1>1 DEF Queued

LEMMA QueuedTypedNext ==
  ASSUME TypeOK'
  PROVE  /\ DOMAIN persistQ' = 1..Len(persistQ') /\ Len(persistQ') \in Nat
         /\ \A i \in DOMAIN persistQ' : persistQ'[i] \in Op
  BY DEF TypeOK

LEMMA QueuedAfterSend ==
  ASSUME TypeOK, TypeOK', NEW n \in Nodes, NEW op \in Op, Sends(n, op)
  PROVE  LET last == Len(persistQ) + 1 IN
         /\ \A m \in Nodes \ {n} : Queued(m)' = Queued(m)
         /\ Queued(n)' = Queued(n) \cup {last}
         /\ \A i \in DOMAIN persistQ : persistQ'[i] = persistQ[i]
         /\ last \notin DOMAIN persistQ /\ persistQ'[last] = op
         /\ \A m : \A i \in Queued(m) : i < last
         /\ \A i \in DOMAIN persistQ' :
              i \in DOMAIN persistQ \/ i = last \/ persistQ'[i].kind = "vars"
         /\ \A i \in DOMAIN persistQ : i \in DOMAIN persistQ'
  <1> DEFINE last == Len(persistQ) + 1
  <1>1. /\ op.kind # "vars" /\ op.node = n
        /\ Len(persistQ') >= last
        /\ \A i \in 1..Len(persistQ) : persistQ'[i] = persistQ[i]
        /\ persistQ'[last] = op
        /\ \A i \in (Len(persistQ) + 2)..Len(persistQ') : persistQ'[i].kind = "vars"
    BY DEF Sends, Queues
  <1>2. /\ DOMAIN persistQ = 1..Len(persistQ) /\ Len(persistQ) \in Nat
        /\ DOMAIN persistQ' = 1..Len(persistQ') /\ Len(persistQ') \in Nat
    BY DEF TypeOK
  <1>3. /\ last \notin DOMAIN persistQ /\ last \in DOMAIN persistQ'
        /\ \A i \in DOMAIN persistQ : i \in DOMAIN persistQ' /\ persistQ'[i] = persistQ[i]
                                      /\ i < last
        /\ \A i \in DOMAIN persistQ' :
             i \in DOMAIN persistQ \/ i = last \/ persistQ'[i].kind = "vars"
    BY <1>1, <1>2
  <1> HIDE DEF last
  <1>4. ASSUME NEW m, NEW i
        PROVE  i \in Queued(m)' <=> i \in Queued(m) \/ (m = n /\ i = last)
    <2>1. i \in Queued(m)' <=> /\ i \in DOMAIN persistQ'
                               /\ persistQ'[i].kind # "vars" /\ persistQ'[i].node = m
      BY DEF Queued
    <2>2. i \in Queued(m) <=> /\ i \in DOMAIN persistQ
                              /\ persistQ[i].kind # "vars" /\ persistQ[i].node = m
      BY DEF Queued
    <2> QED
      BY <1>1, <1>3, <2>1, <2>2
  <1>5. \A m : \A i \in Queued(m) : i < last
    BY <1>3 DEF Queued
  <1>6. \A m \in Nodes \ {n} : Queued(m)' = Queued(m)
    <2> TAKE m \in Nodes \ {n}
    <2> QED
      BY <1>4
  <1>7. Queued(n)' = Queued(n) \cup {last}
    BY <1>4
  <1> QED
    BY <1>1, <1>3, <1>5, <1>6, <1>7 DEF last

LEMMA QueuedAfterApply ==
  ASSUME TypeOK, TypeOK', NEW op \in Op, NEW k \in 0..3, Applies(op, k)
  PROVE  /\ \A m : \A i \in Queued(m)' :
              /\ i \in Nat /\ i + 1 > 1
              /\ i + 1 \in Queued(m) /\ persistQ'[i] = persistQ[i + 1]
         /\ \A m : \A i \in Queued(m) :
              i # 1 => i - 1 \in Queued(m)' /\ persistQ'[i - 1] = persistQ[i]
         /\ op.kind # "vars" => 1 \in Queued(op.node)
         /\ 1 \in DOMAIN persistQ /\ persistQ[1] = op
         /\ \A i \in DOMAIN persistQ' : i + 1 \in DOMAIN persistQ
                                        /\ persistQ'[i] = persistQ[i + 1]
         /\ \A i \in DOMAIN persistQ : i # 1 => i - 1 \in DOMAIN persistQ'
                                             /\ persistQ'[i - 1] = persistQ[i]
  <1>1. /\ Len(persistQ) >= 1 /\ persistQ[1] = op
        /\ Len(persistQ') = Len(persistQ) - 1
        /\ \A i \in 1..Len(persistQ') : persistQ'[i] = persistQ[i + 1]
    BY DEF Applies
  <1>2. /\ DOMAIN persistQ = 1..Len(persistQ) /\ Len(persistQ) \in Nat
        /\ DOMAIN persistQ' = 1..Len(persistQ') /\ Len(persistQ') \in Nat
    BY DEF TypeOK
  <1>3. /\ \A i \in DOMAIN persistQ' : /\ i \in Nat /\ i + 1 > 1 /\ i + 1 \in DOMAIN persistQ
                                       /\ persistQ'[i] = persistQ[i + 1]
        /\ 1 \in DOMAIN persistQ
    BY <1>1, <1>2
  <1>4. \A i \in DOMAIN persistQ : i # 1 => i - 1 \in DOMAIN persistQ'
                                          /\ persistQ'[i - 1] = persistQ[i]
    BY <1>1, <1>2
  <1>5. \A m, i : i \in Queued(m)' <=> /\ i \in DOMAIN persistQ'
                                       /\ persistQ'[i].kind # "vars"
                                       /\ persistQ'[i].node = m
    BY DEF Queued
  <1>6. \A m, i : i \in Queued(m) <=> /\ i \in DOMAIN persistQ
                                      /\ persistQ[i].kind # "vars"
                                      /\ persistQ[i].node = m
    BY DEF Queued
  <1>7. \A m : \A i \in Queued(m)' :
              /\ i \in Nat /\ i + 1 > 1
              /\ i + 1 \in Queued(m) /\ persistQ'[i] = persistQ[i + 1]
    BY <1>3, <1>5, <1>6
  <1>8. \A m : \A i \in Queued(m) :
              i # 1 => i - 1 \in Queued(m)' /\ persistQ'[i - 1] = persistQ[i]
    BY <1>4, <1>5, <1>6
  <1>9. op.kind # "vars" => 1 \in Queued(op.node)
    BY <1>1, <1>3, <1>6
  <1> QED
    BY <1>1, <1>3, <1>4, <1>7, <1>8, <1>9
-----------------------------------------------------------------------------
(***************************************************************************)
(* Writes are queued and applied in turn.                                  *)
(***************************************************************************)
LEMMA SameClock ==
  ASSUME NEW m, SameNode(m)
  PROVE  Clock(m)' = Clock(m)
  BY DEF SameNode, Clock

LEMMA StillInTurn ==
  ASSUME InTurn, Still, TypeOK
  PROVE  InTurn'
  <1>1. \A m \in Nodes : Clock(m)' = Clock(m)
    BY SameClock DEF Still
  <1>2. \A m : Queued(m)' = Queued(m)
    BY DEF Still, Queued
  <1>3. \A m \in Nodes, a \in Attempts : RowTurn(m, a)' = RowTurn(m, a)
    BY DEF Still, RowTurn
  <1>4. \A m \in Nodes : QueueInTurn(m)' /\ RowsBehindQueue(m)' /\ BehindClock(m)'
    BY <1>1, <1>2, <1>3
       DEF Still, SameNode, InTurn, QueueInTurn, RowsBehindQueue, BehindClock
  <1>5. (endHit # None => nodeStat[endHit] = "done")'
    BY DEF Still, SameNode, InTurn, TypeOK
  <1> QED
    BY <1>4, <1>5 DEF InTurn

LEMMA SendInTurn ==
  ASSUME TypeOK, TypeOK', InTurn, NEW n \in Nodes, NEW op \in Op, Sends(n, op),
         nodeStat[n] # "done",
         Clock(n) < Turn(op), Turn(op) <= TurnAfter(op), Clock(n) <= Clock(n)',
         nodeStat'[n] # "done" \/ n = endHit' => TurnAfter(op) <= Clock(n)',
         \/ UNCHANGED endHit
         \/ endHit' = n /\ nodeStat'[n] = "done"
  PROVE  InTurn'
  <1> DEFINE last == Len(persistQ) + 1
  <1>1. /\ \A m \in Nodes \ {n} : Queued(m)' = Queued(m)
        /\ Queued(n)' = Queued(n) \cup {last}
        /\ \A i \in DOMAIN persistQ : persistQ'[i] = persistQ[i]
        /\ last \notin DOMAIN persistQ /\ persistQ'[last] = op
        /\ \A m : \A i \in Queued(m) : i < last
    BY QueuedAfterSend
  <1>2. rows' = rows /\ \A m \in Nodes \ {n} : SameNode(m)
    BY DEF Sends
  <1>3. \A m : Queued(m) \subseteq DOMAIN persistQ
    BY DEF Queued
  <1>4. /\ \A m : \A i \in Queued(m) : i \in Nat /\ persistQ[i] \in Op
        /\ Turn(op) \in Nat /\ TurnAfter(op) \in Nat
        /\ \A o \in Op : Turn(o) \in Nat /\ TurnAfter(o) \in Nat
        /\ \A m \in Nodes, a \in Attempts : RowTurn(m, a) \in Nat
        /\ \A m \in Nodes : Clock(m) \in Nat
    BY TurnsTyped, QueuedTyped
  <1>5. Clock(n)' \in Nat /\ last \in Nat
    <2>1. (\A m \in Nodes : Clock(m) \in Nat)'
      BY DEF Clock, TypeOK
    <2> QED
      BY <2>1, QueuedTyped
  <1> HIDE DEF last
  <1>6. \A m \in Nodes, a \in Attempts : RowTurn(m, a)' = RowTurn(m, a)
    BY <1>2 DEF RowTurn
  <1>7. \A m \in Nodes \ {n} : Clock(m)' = Clock(m)
    BY <1>2, SameClock
  <1>8. /\ \A i \in Queued(n) : TurnAfter(persistQ[i]) <= Clock(n)
        /\ \A a \in Attempts : rows[n][a].status # "absent" => RowTurn(n, a) <= Clock(n)
    BY DEF InTurn, BehindClock
  <1>9. ASSUME NEW m \in Nodes \ {n}
        PROVE  QueueInTurn(m)' /\ RowsBehindQueue(m)' /\ BehindClock(m)'
    <2>1. \A i \in Queued(m)' : i \in Queued(m) /\ persistQ'[i] = persistQ[i]
      BY <1>1, <1>3
    <2>2. QueueInTurn(m)'
      BY <2>1 DEF InTurn, QueueInTurn
    <2>3. RowsBehindQueue(m)'
      BY <1>2, <1>6, <2>1 DEF InTurn, RowsBehindQueue
    <2>4. (nodeStat'[m] # "done" \/ m = endHit') => (nodeStat[m] # "done" \/ m = endHit)
      BY <1>2 DEF SameNode
    <2>5. BehindClock(m)'
      BY <1>2, <1>6, <1>7, <2>1, <2>4 DEF InTurn, BehindClock
    <2> QED
      BY <2>2, <2>3, <2>5
  <1>10. \A i \in Queued(n)' : \/ i \in Queued(n) /\ persistQ'[i] = persistQ[i] /\ i < last
                               \/ i = last /\ persistQ'[i] = op
    BY <1>1, <1>3
  <1>11. QueueInTurn(n)'
    <2> SUFFICES ASSUME NEW i \in Queued(n)', NEW j \in Queued(n)', i < j
                 PROVE  TurnAfter(persistQ'[i]) < Turn(persistQ'[j])
      BY DEF QueueInTurn
    <2>1. i \in Queued(n) /\ persistQ'[i] = persistQ[i]
      BY <1>4, <1>5, <1>10
    <2>2. CASE j \in Queued(n) /\ persistQ'[j] = persistQ[j]
      BY <2>1, <2>2 DEF InTurn, QueueInTurn
    <2>3. CASE persistQ'[j] = op
      <3>1. TurnAfter(persistQ[i]) \in Nat /\ TurnAfter(persistQ[i]) <= Clock(n)
        BY <1>4, <1>8, <2>1
      <3> QED
        BY <1>4, <2>1, <2>3, <3>1
    <2> QED
      BY <1>10, <2>2, <2>3
  <1>12. RowsBehindQueue(n)'
    <2> SUFFICES ASSUME NEW i \in Queued(n)', NEW a \in Attempts,
                        rows[n][a].status # "absent"
                 PROVE  RowTurn(n, a) < Turn(persistQ'[i])
      BY <1>2, <1>6 DEF RowsBehindQueue
    <2>1. RowTurn(n, a) \in Nat /\ RowTurn(n, a) <= Clock(n)
      BY <1>4, <1>8
    <2> QED
      BY <1>4, <1>10, <2>1 DEF InTurn, RowsBehindQueue
  <1>13. BehindClock(n)'
    <2> SUFFICES ASSUME nodeStat'[n] # "done" \/ n = endHit'
                 PROVE  /\ \A i \in Queued(n)' : TurnAfter(persistQ'[i]) <= Clock(n)'
                        /\ \A a \in Attempts : rows[n][a].status # "absent" =>
                                                 RowTurn(n, a) <= Clock(n)'
      BY <1>2, <1>6 DEF BehindClock
    <2>1. ASSUME NEW i \in Queued(n) PROVE TurnAfter(persistQ[i]) <= Clock(n)'
      <3>1. TurnAfter(persistQ[i]) \in Nat /\ TurnAfter(persistQ[i]) <= Clock(n)
        BY <1>4, <1>8
      <3> QED
        BY <1>4, <1>5, <3>1
    <2>2. ASSUME NEW a \in Attempts, rows[n][a].status # "absent"
          PROVE  RowTurn(n, a) <= Clock(n)'
      <3>1. RowTurn(n, a) \in Nat /\ RowTurn(n, a) <= Clock(n)
        BY <1>4, <1>8, <2>2
      <3> QED
        BY <1>4, <1>5, <3>1
    <2> QED
      BY <1>10, <2>1, <2>2
  <1>14. (endHit # None => nodeStat[endHit] = "done")'
    <2>1. CASE UNCHANGED endHit
      BY <1>2, <2>1 DEF InTurn, SameNode, TypeOK
    <2>2. CASE endHit' = n /\ nodeStat'[n] = "done"
      BY <2>2
    <2> QED
      BY <2>1, <2>2
  <1> QED
    BY <1>9, <1>11, <1>12, <1>13, <1>14 DEF InTurn

LEMMA KindsInTurn ==
  ASSUME TypeOK, TypeOK', InTurn, NEW n \in Nodes, NEW op \in Op,
         Starts(n, op) \/ GivesUp(n, op) \/ Ends(n, op)
  PROVE  InTurn'
  <1> DEFINE c == attemptCounter[n]
  <1>1. c \in Nat /\ n # None
    BY EngineAssumption DEF TypeOK
  <1>2. Clock(n) = 2 * c + (IF nodeStat[n] = "done" \/ Retrying(n) THEN 1 ELSE 0)
    BY DEF Clock
  <1>3. Clock(n)' = 2 * attemptCounter'[n]
                    + (IF nodeStat'[n] = "done" \/ Retrying(n)' THEN 1 ELSE 0)
    BY DEF Clock
  <1>4. CASE Starts(n, op)
    <2>1. /\ Sends(n, op) /\ nodeStat[n] # "done" /\ nodeStat'[n] = "running"
          /\ attemptCounter'[n] = c + 1 /\ ~Retrying(n)' /\ UNCHANGED endHit
          /\ op = AppendOp(n, c + 1, "running")
      BY <1>4 DEF Starts
    <2>2. Turn(op) = 2 * (c + 1) /\ TurnAfter(op) = 2 * (c + 1)
      BY <1>1, <2>1 DEF Turn, TurnAfter, AppendOp, EmptyRow
    <2> HIDE DEF c
    <2>3. Clock(n) < Turn(op) /\ Clock(n) <= Clock(n)' /\ TurnAfter(op) <= Clock(n)'
      BY <1>1, <1>2, <1>3, <2>1, <2>2
    <2>4. Turn(op) <= TurnAfter(op)
      BY <1>1, <2>2
    <2> QED
      BY <2>1, <2>3, <2>4, SendInTurn
  <1>5. CASE GivesUp(n, op)
    <2>1. /\ Sends(n, op) /\ nodeStat[n] # "done" /\ nodeStat'[n] = "done"
          /\ attemptCounter'[n] = c /\ UNCHANGED endHit
      BY <1>5 DEF GivesUp
    <2>2. /\ Turn(op) = 2 * (c + 1) /\ TurnAfter(op) = 2 * (c + 1) + 1
      <3>1. CASE c = 0 /\ op = AppendOp(n, 1, "skipped")
        BY <3>1 DEF Turn, TurnAfter, AppendOp, EmptyRow
      <3>2. CASE op = AppendOp(n, c + 1, "cancelled")
        BY <1>1, <3>2 DEF Turn, TurnAfter, AppendOp, EmptyRow
      <3> QED
        BY <1>5, <3>1, <3>2 DEF GivesUp
    <2> HIDE DEF c
    <2>3. Clock(n) < Turn(op) /\ Clock(n) <= Clock(n)' /\ Turn(op) <= TurnAfter(op)
      BY <1>1, <1>2, <1>3, <2>1, <2>2
    <2>4. ~(nodeStat'[n] # "done" \/ n = endHit')
      BY <1>1, <2>1 DEF InTurn
    <2> QED
      BY <2>1, <2>3, <2>4, SendInTurn
  <1>6. CASE Ends(n, op)
    <2>1. /\ Sends(n, op) /\ Alive(n) /\ Ending(op)
          /\ attemptCounter'[n] = c /\ op.kind = "finish" /\ op.attempt = c
          /\ nodeStat'[n] = "done" \/ Retrying(n)'
      BY <1>6 DEF Ends
    <2>2. /\ Turn(op) = 2 * c + 1 /\ TurnAfter(op) = 2 * c + 1
      BY <1>1, <2>1 DEF Turn, TurnAfter, Ending
    <2>3. nodeStat[n] # "done" /\ ~Retrying(n)
      BY <2>1 DEF Alive
    <2>4. UNCHANGED endHit \/ (endHit' = n /\ nodeStat'[n] = "done")
      BY <1>6 DEF Ends
    <2> HIDE DEF c
    <2>5. /\ Clock(n) < Turn(op) /\ Clock(n) <= Clock(n)' /\ TurnAfter(op) <= Clock(n)'
          /\ Turn(op) <= TurnAfter(op)
      BY <1>1, <1>2, <1>3, <2>1, <2>2, <2>3
    <2> QED
      BY <2>1, <2>3, <2>4, <2>5, SendInTurn
  <1> QED
    BY <1>4, <1>5, <1>6

LEMMA ApplyInTurn ==
  ASSUME TypeOK, TypeOK', InTurn, WritesLegal, RowsLegal, NEW op \in Op,
         NEW k \in 0..3, Applies(op, k)
  PROVE  InTurn'
  <1>1. /\ \A m : \A i \in Queued(m)' :
              /\ i \in Nat /\ i + 1 > 1
              /\ i + 1 \in Queued(m) /\ persistQ'[i] = persistQ[i + 1]
        /\ op.kind # "vars" => 1 \in Queued(op.node)
        /\ 1 \in DOMAIN persistQ /\ persistQ[1] = op
    BY QueuedAfterApply
  <1>2. LegalWrite(op)
    BY <1>1 DEF WritesLegal
  <1>3. \A m \in Nodes : SameNode(m) /\ Clock(m)' = Clock(m)
    BY SameClock DEF Applies
  <1>4. endHit' = endHit /\ (endHit # None => nodeStat[endHit] = "done")'
    BY <1>3 DEF Applies, InTurn, SameNode, TypeOK
  <1>5. /\ \A m : \A i \in Queued(m) : i \in Nat /\ i >= 1 /\ persistQ[i] \in Op
        /\ \A o \in Op : Turn(o) \in Nat /\ TurnAfter(o) \in Nat
        /\ \A m \in Nodes, a \in Attempts : RowTurn(m, a) \in Nat
        /\ \A m \in Nodes : Clock(m) \in Nat
    BY TurnsTyped, QueuedTyped
  <1>6. ASSUME NEW m \in Nodes
        PROVE  QueueInTurn(m)'
    <2>1. \A i, j \in Queued(m)' : i < j => i + 1 < j + 1
      BY <1>1
    <2> QED
      BY <1>1, <2>1 DEF InTurn, QueueInTurn
  <1>7. CASE op.kind = "vars"
    <2>1. rows' = rows
      BY <1>7 DEF Applies, Store
    <2>2. \A m \in Nodes, a \in Attempts : RowTurn(m, a)' = RowTurn(m, a)
      BY <2>1 DEF RowTurn
    <2>3. \A m \in Nodes : RowsBehindQueue(m)'
      BY <1>1, <2>1, <2>2 DEF InTurn, RowsBehindQueue
    <2>4. \A m \in Nodes : BehindClock(m)'
      BY <1>1, <1>3, <1>4, <2>1, <2>2 DEF InTurn, BehindClock, SameNode
    <2> QED
      BY <1>4, <1>6, <2>3, <2>4 DEF InTurn
  <1>8. CASE op.kind # "vars"
    <2> DEFINE n == op.node
               a == op.attempt
               old == rows[n][a]
               new == rows'[n][a]
    <2>1. /\ n \in Nodes /\ a \in Attempts /\ OtherRows(op)
          /\ Left(op, old, new) \/ Inserted(op, old, new) \/ Closed(op, old, new)
      BY <1>2, <1>8, AppliedRow
    <2>2. \A m \in Nodes, b \in Attempts :
            (m # n \/ b # a) => /\ rows'[m][b] = rows[m][b]
                                /\ RowTurn(m, b)' = RowTurn(m, b)
      BY <2>1 DEF OtherRows, RowTurn
    \* The row is behind the operation, or, afterwards, level with it.
    <2>3. \/ new.status = old.status /\ RowTurn(n, a)' = RowTurn(n, a)
          \/ new.status # "absent" /\ RowTurn(n, a)' <= TurnAfter(op)
      <3>1. RowTurn(n, a)' = 2 * a + (IF new.status = "running" THEN 0 ELSE 1)
        <4>1. n \in Nodes /\ a \in Nat
          BY <2>1, AttemptsNat
        <4> QED
          BY DEF RowTurn
      <3>2. RowTurn(n, a) = 2 * a + (IF old.status = "running" THEN 0 ELSE 1)
        BY DEF RowTurn
      <3>3. CASE Left(op, old, new)
        BY <3>1, <3>2, <3>3 DEF Left
      <3>4. CASE Inserted(op, old, new) \/ Closed(op, old, new)
        <4>1. new.status = op.row.status
          BY <3>4 DEF Inserted, Closed
        <4>2. op.row.status # "absent"
          BY <1>2, <3>4 DEF Inserted, Closed, LegalWrite, Insertion, Ending
        <4>3. RowTurn(n, a)' = TurnAfter(op) /\ TurnAfter(op) \in Nat
          BY <1>5, <3>1, <4>1 DEF TurnAfter
        <4> QED
          BY <4>1, <4>2, <4>3
      <3> QED
        BY <2>1, <3>3, <3>4
    <2>4. 1 \in Queued(n)
      BY <1>1, <1>8
    <2> HIDE DEF n, a, old, new
    <2>5. ASSUME NEW m \in Nodes, NEW i \in Queued(m)', NEW b \in Attempts,
                 rows'[m][b].status # "absent"
          PROVE  RowTurn(m, b)' < Turn(persistQ'[i])
      <3>1. i + 1 \in Queued(m) /\ persistQ'[i] = persistQ[i + 1] /\ i + 1 > 1
        BY <1>1
      <3>2. CASE rows[m][b].status # "absent" /\ RowTurn(m, b)' = RowTurn(m, b)
        BY <3>1, <3>2 DEF InTurn, RowsBehindQueue
      <3>3. CASE m = n /\ b = a /\ RowTurn(n, a)' <= TurnAfter(op)
        <4>1. TurnAfter(op) < Turn(persistQ[i + 1])
          BY <1>1, <2>4, <3>1, <3>3 DEF InTurn, QueueInTurn
        <4>2. RowTurn(n, a)' \in Nat
          <5>1. (\A nn \in Nodes, aa \in Attempts : RowTurn(nn, aa) \in Nat)'
            BY AttemptsNat DEF RowTurn
          <5> QED
            BY <2>1, <5>1
        <4>3. TurnAfter(op) \in Nat /\ Turn(persistQ[i + 1]) \in Nat
          BY <1>5, <3>1
        <4> QED
          BY <3>1, <3>3, <4>1, <4>2, <4>3
      <3> QED
        BY <2>2, <2>3, <2>5, <3>2, <3>3 DEF old, new
    <2>6. \A m \in Nodes : RowsBehindQueue(m)'
      BY <2>5 DEF RowsBehindQueue
    <2>7. ASSUME NEW m \in Nodes, nodeStat'[m] # "done" \/ m = endHit'
          PROVE  /\ \A i \in Queued(m)' : TurnAfter(persistQ'[i]) <= Clock(m)'
                 /\ \A b \in Attempts : rows'[m][b].status # "absent" =>
                                          RowTurn(m, b)' <= Clock(m)'
      <3>1. /\ \A i \in Queued(m) : TurnAfter(persistQ[i]) <= Clock(m)
            /\ \A b \in Attempts : rows[m][b].status # "absent" => RowTurn(m, b) <= Clock(m)
        BY <1>3, <1>4, <2>7 DEF InTurn, BehindClock, SameNode
      <3>2. Clock(m)' = Clock(m) /\ Clock(m) \in Nat
        BY <1>3, <1>5
      <3>3. ASSUME NEW b \in Attempts, rows'[m][b].status # "absent"
            PROVE  RowTurn(m, b)' <= Clock(m)
        <4>1. CASE rows[m][b].status # "absent" /\ RowTurn(m, b)' = RowTurn(m, b)
          BY <3>1, <4>1
        <4>2. CASE m = n /\ b = a /\ RowTurn(n, a)' <= TurnAfter(op)
          <5>1. TurnAfter(op) <= Clock(n)
            BY <1>1, <2>4, <3>1, <4>2
          <5>2. RowTurn(n, a)' \in Nat
            <6>1. (\A nn \in Nodes, aa \in Attempts : RowTurn(nn, aa) \in Nat)'
              BY AttemptsNat DEF RowTurn
            <6> QED
              BY <2>1, <6>1
          <5>3. TurnAfter(op) \in Nat
            BY <1>5
          <5> QED
            BY <3>2, <4>2, <5>1, <5>2, <5>3
        <4> QED
          BY <2>2, <2>3, <3>3, <4>1, <4>2 DEF old, new
      <3> QED
        BY <1>1, <3>1, <3>2, <3>3
    <2>8. \A m \in Nodes : BehindClock(m)'
      BY <2>7 DEF BehindClock
    <2> QED
      BY <1>4, <1>6, <2>6, <2>8 DEF InTurn
  <1> QED
    BY <1>7, <1>8
-----------------------------------------------------------------------------
(***************************************************************************)
(* The writes and the rows stay legal.                                     *)
(***************************************************************************)
\* What a step that is not the persister's does to the counters.
LEMMA CountersGrow ==
  ASSUME TypeOK, TypeOK', NEW n \in Nodes, NEW op \in Op,
         Starts(n, op) \/ GivesUp(n, op) \/ Ends(n, op)
  PROVE  \A m \in Nodes : attemptCounter[m] <= attemptCounter'[m]
  <1>1. \A m \in Nodes : attemptCounter[m] \in Nat
    BY DEF TypeOK
  <1>2. \A m \in Nodes \ {n} : attemptCounter'[m] = attemptCounter[m]
    BY DEF Starts, GivesUp, Ends, Sends, SameNode
  <1>3. attemptCounter'[n] = attemptCounter[n] \/ attemptCounter'[n] = attemptCounter[n] + 1
    BY DEF Starts, GivesUp, Ends
  <1> QED
    BY <1>1, <1>2, <1>3

LEMMA StaysLegal ==
  ASSUME TypeOK, TypeOK', NEW op \in Op, LegalWrite(op),
         \A m \in Nodes : attemptCounter[m] <= attemptCounter'[m]
  PROVE  LegalWrite(op)'
  <1>1. op.node \in Nodes /\ op.attempt \in Nat
    BY DEF Op
  <1>2. /\ attemptCounter[op.node] \in Nat /\ attemptCounter'[op.node] \in Nat
        /\ attemptCounter[op.node] <= attemptCounter'[op.node]
    BY <1>1 DEF TypeOK
  <1>3. Ending(op)' <=> Ending(op)
    BY DEF Ending, LastFailure
  <1>4. Insertion(op) => Insertion(op)'
    BY <1>1, <1>2 DEF Insertion
  <1> QED
    BY <1>3, <1>4 DEF LegalWrite

\* The write a step sends is legal.
LEMMA SentLegal ==
  ASSUME TypeOK, TypeOK', NEW n \in Nodes, NEW op \in Op,
         Starts(n, op) \/ GivesUp(n, op) \/ Ends(n, op)
  PROVE  LegalWrite(op)'
  <1>1. /\ op.node = n /\ op.kind # "vars"
        /\ attemptCounter[n] \in Nat /\ MaxRetries[n] \in Nat
    BY PolicyAssumption DEF Starts, GivesUp, Ends, Sends, TypeOK
  <1>2. CASE Ends(n, op)
    <2>1. Ending(op) /\ op.kind = "finish" /\ op.attempt \in 1..(MaxRetries[n] + 1)
      BY <1>2 DEF Ends
    <2>2. Ending(op)'
      BY <2>1 DEF Ending, LastFailure
    <2> QED
      BY <1>1, <2>1, <2>2 DEF LegalWrite
  <1>3. ASSUME NEW a \in Nat, NEW st \in {"running", "skipped", "cancelled"},
               op = AppendOp(n, a, st), 1 <= a, a <= MaxRetries[n] + 1,
               st = "running" => a <= attemptCounter'[n],
               st = "skipped" => a = 1, st = "cancelled" => a > 1
        PROVE  LegalWrite(op)'
    <2>1. /\ op.kind = "append" /\ op.attempt = a /\ op.row.status = st
          /\ op.row.port = NoPort /\ op.row.resolved = FALSE /\ op.row.fallback = FALSE
      BY <1>3 DEF AppendOp, EmptyRow
    <2>2. Insertion(op)'
      BY <1>1, <1>3, <2>1 DEF Insertion
    <2> QED
      BY <1>1, <1>3, <2>1, <2>2 DEF LegalWrite
  <1>4. CASE Starts(n, op)
    <2>1. /\ op = AppendOp(n, attemptCounter[n] + 1, "running")
          /\ op.attempt <= MaxRetries[n] + 1
          /\ attemptCounter'[n] = attemptCounter[n] + 1
      BY <1>4 DEF Starts
    <2>2. op.attempt = attemptCounter[n] + 1
      BY <2>1 DEF AppendOp
    <2> QED
      BY <1>1, <1>3, <2>1, <2>2
  <1>5. CASE GivesUp(n, op)
    <2>1. CASE attemptCounter[n] = 0 /\ op = AppendOp(n, 1, "skipped")
      BY <1>1, <1>3, <2>1
    <2>2. CASE attemptCounter[n] > 0 /\ op = AppendOp(n, attemptCounter[n] + 1, "cancelled")
      <3>1. op.attempt = attemptCounter[n] + 1 /\ op.attempt <= MaxRetries[n] + 1
        BY <1>5, <2>2 DEF AppendOp, GivesUp
      <3> QED
        BY <1>1, <1>3, <2>2, <3>1
    <2> QED
      BY <1>5, <2>1, <2>2 DEF GivesUp
  <1> QED
    BY <1>2, <1>4, <1>5

LEMMA StillLegal ==
  ASSUME TypeOK, TypeOK', WritesLegal, RowsLegal, Still
  PROVE  WritesLegal' /\ RowsLegal'
  <1>1. /\ persistQ' = persistQ /\ rows' = rows
        /\ \A m \in Nodes : attemptCounter'[m] = attemptCounter[m]
    BY DEF Still, SameNode
  <1>2. \A m \in Nodes : attemptCounter[m] <= attemptCounter'[m]
    BY <1>1 DEF TypeOK
  <1>3. WritesLegal'
    BY <1>1, <1>2, StaysLegal, QueuedTyped DEF WritesLegal
  <1>4. RowsLegal'
    BY <1>1 DEF RowsLegal, LegalRow
  <1> QED
    BY <1>3, <1>4

LEMMA SendsLegal ==
  ASSUME TypeOK, TypeOK', WritesLegal, RowsLegal, NEW n \in Nodes, NEW op \in Op,
         Starts(n, op) \/ GivesUp(n, op) \/ Ends(n, op)
  PROVE  WritesLegal' /\ RowsLegal'
  <1>1. Sends(n, op) /\ rows' = rows
    BY DEF Starts, GivesUp, Ends, Sends
  <1>2. \A m \in Nodes : attemptCounter[m] <= attemptCounter'[m]
    BY CountersGrow
  <1>3. ASSUME NEW i \in DOMAIN persistQ'
        PROVE  LegalWrite(persistQ[i])'
    <2> PICK o \in Op : o = persistQ'[i]
      BY QueuedTypedNext
    <2>1. CASE i \in DOMAIN persistQ
      <3>1. o = persistQ[i]
        BY <1>1, <2>1, QueuedAfterSend
      <3>2. LegalWrite(o)
        BY <2>1, <3>1 DEF WritesLegal
      <3> QED
        BY <1>2, <3>2, StaysLegal
    <2>2. CASE o = op
      BY <2>2, SentLegal
    <2>3. CASE o.kind = "vars"
      BY <2>3 DEF LegalWrite
    <2> QED
      BY <1>1, <2>1, <2>2, <2>3, QueuedAfterSend
  <1>4. RowsLegal'
    <2> SUFFICES ASSUME NEW m \in Nodes, NEW a \in Attempts
                 PROVE  LegalRow(m, a, rows[m][a])'
      BY DEF RowsLegal
    <2>1. LegalRow(m, a, rows[m][a])
      BY DEF RowsLegal
    <2>2. /\ attemptCounter[m] \in Nat /\ attemptCounter'[m] \in Nat /\ a \in Nat
          /\ attemptCounter[m] <= attemptCounter'[m]
      BY <1>2, AttemptsNat DEF TypeOK
    <2> QED
      BY <1>1, <2>1, <2>2 DEF LegalRow
  <1> QED
    BY <1>3, <1>4 DEF WritesLegal

LEMMA ApplyLegal ==
  ASSUME TypeOK, TypeOK', WritesLegal, RowsLegal, NEW op \in Op,
         NEW k \in 0..3, Applies(op, k)
  PROVE  WritesLegal' /\ RowsLegal'
  <1>1. \A m \in Nodes : attemptCounter'[m] = attemptCounter[m]
    BY DEF Applies, SameNode
  <1>2. /\ 1 \in DOMAIN persistQ /\ persistQ[1] = op
        /\ \A i \in DOMAIN persistQ' : i + 1 \in DOMAIN persistQ
                                       /\ persistQ'[i] = persistQ[i + 1]
    BY QueuedTyped, QueuedTypedNext DEF Applies
  <1>3. WritesLegal'
    <2>1. \A m \in Nodes : attemptCounter[m] <= attemptCounter'[m]
      BY <1>1 DEF TypeOK
    <2> SUFFICES ASSUME NEW i \in DOMAIN persistQ'
                 PROVE  LegalWrite(persistQ[i])'
      BY DEF WritesLegal
    <2> PICK o \in Op : o = persistQ'[i]
      BY QueuedTypedNext
    <2>2. LegalWrite(o)
      BY <1>2 DEF WritesLegal
    <2> QED
      BY <2>1, <2>2, StaysLegal
  <1>4. RowsLegal'
    <2>1. CASE op.kind = "vars"
      <3>1. rows' = rows
        BY <2>1 DEF Applies, Store
      <3> QED
        BY <1>1, <3>1 DEF RowsLegal, LegalRow
    <2>2. CASE op.kind # "vars"
      <3> DEFINE n == op.node
                 a == op.attempt
                 old == rows[n][a]
                 new == rows'[n][a]
      <3>1. LegalWrite(op) /\ op.kind \in {"append", "finish"}
        BY <1>2, <2>2 DEF WritesLegal, Op
      <3>2. /\ n \in Nodes /\ a \in Attempts /\ OtherRows(op)
            /\ Left(op, old, new) \/ Inserted(op, old, new) \/ Closed(op, old, new)
        BY <2>2, <3>1, AppliedRow
      <3>3. LegalRow(n, a, old)
        BY <3>2 DEF RowsLegal
      <3>4. LegalRow(n, a, new)
        <4>1. CASE Left(op, old, new)
          BY <3>3, <4>1 DEF LegalRow, Left
        <4>2. CASE Inserted(op, old, new)
          BY <3>1, <4>2 DEF LegalRow, Inserted, LegalWrite, Insertion
        <4>3. CASE Closed(op, old, new)
          BY <3>1, <4>3 DEF LegalRow, Closed, LegalWrite, Ending
        <4> QED
          BY <3>2, <4>1, <4>2, <4>3
      <3> HIDE DEF n, a, old, new
      <3> SUFFICES ASSUME NEW m \in Nodes, NEW b \in Attempts
                   PROVE  LegalRow(m, b, rows'[m][b])
        BY <1>1 DEF RowsLegal, LegalRow
      <3>5. CASE m = n /\ b = a
        BY <3>4, <3>5 DEF new
      <3>6. CASE m # n \/ b # a
        BY <3>2, <3>6 DEF RowsLegal, OtherRows, n, a
      <3> QED
        BY <3>5, <3>6
    <2> QED
      BY <2>1, <2>2
  <1> QED
    BY <1>3, <1>4

LEMMA ResultsStep ==
  ASSUME TypeOK, ResultsPossible, [Next]_vars
  PROVE  ResultsPossible'
  <1>1. CASE \E t \in work, out \in Outcome : WorkerEnds(t, out)
    <2>1. PICK t \in work, out \in Outcome : WorkerEnds(t, out)
      BY <1>1
    <2>2. /\ out \in Outcomes[t.node] /\ cur' = cur
          /\ results' = results \cup {[node |-> t.node, attempt |-> t.attempt, out |-> out]}
      BY <2>1 DEF WorkerEnds, driverVars
    <2> QED
      BY <2>2 DEF ResultsPossible
  <1>2. CASE \E r \in results : ReceiveResult(r)
    BY <1>2 DEF ReceiveResult, ResultsPossible
  <1>3. CASE HandleCancelled \/ HandleRetry \/ HandleFailRun \/ HandlePropagate
    <2>1. cur' = None /\ results' = results
      BY <1>3 DEF HandleCancelled, HandleRetry, HandleFailRun, HandlePropagate, Handle
    <2> QED
      BY <2>1 DEF ResultsPossible
  <1>4. CASE UNCHANGED <<cur, results>>
    BY <1>4 DEF ResultsPossible
  <1>5. CASE \E n \in todo : TryAdvance(n)
    BY <1>4, <1>5 DEF TryAdvance
  <1>6. CASE \E rt \in retryCh : RetryDue(rt)
    BY <1>4, <1>6 DEF RetryDue
  <1>7. CASE \E t \in timers : TimerFires(t)
    BY <1>4, <1>7 DEF TimerFires, driverVars
  <1>8. CASE LoadVersion \/ CreateRun \/ BeginRun \/ Settle \/ PersistFailed
             \/ ContextDone \/ LeaveLoop \/ FinishDrain \/ SaveVerdict \/ CloseRun
             \/ CallerCancels \/ Persist \/ UNCHANGED vars
    BY <1>4, <1>8 DEF LoadVersion, CreateRun, BeginRun, Settle, PersistFailed,
         ContextDone, LeaveLoop, FinishDrain, SaveVerdict, CloseRun, CallerCancels,
         Persist, vars, driverVars, taskVars
  <1> QED
    BY <1>1, <1>2, <1>3, <1>5, <1>6, <1>7, <1>8
       DEF Next, Driver, Over, Worker, RetryTimer

LEMMA RowInit == Init => RowInv
  <1> SUFFICES ASSUME Init PROVE RowInv
    OBVIOUS
  <1>1. /\ DOMAIN persistQ = {} /\ results = {} /\ cur = None /\ endHit = None
        /\ \A n \in Nodes, a \in Attempts : rows[n][a] = EmptyRow
    BY DEF Init
  <1>2. \A n : Queued(n) = {}
    BY <1>1 DEF Queued
  <1>3. InTurn
    BY <1>1, <1>2 DEF InTurn, QueueInTurn, RowsBehindQueue, BehindClock, EmptyRow
  <1>4. EmptyRow.status = "absent"
    BY DEF EmptyRow
  <1>5. RowsLegal
    BY <1>1, <1>4 DEF RowsLegal, LegalRow
  <1>6. WritesLegal /\ ResultsPossible
    BY <1>1 DEF WritesLegal, ResultsPossible
  <1> QED
    BY <1>3, <1>5, <1>6 DEF RowInv

LEMMA RowStep ==
  ASSUME TypeOK, TypeOK', TaskInv, DecisionInv, RowInv, [Next]_vars
  PROVE  RowInv'
  <1>1. InTurn /\ WritesLegal /\ ResultsPossible /\ RowsLegal
    BY DEF RowInv
  <1>2. ResultsPossible'
    BY <1>1, ResultsStep
  <1>3. CASE Still
    <2>1. InTurn'
      BY <1>1, <1>3, StillInTurn
    <2> QED
      BY <1>1, <1>2, <1>3, <2>1, StillLegal DEF RowInv
  <1>4. CASE \E n \in Nodes, op \in Op : Starts(n, op) \/ GivesUp(n, op) \/ Ends(n, op)
    BY <1>1, <1>2, <1>4, KindsInTurn, SendsLegal DEF RowInv
  <1>5. CASE Persist
    BY <1>1, <1>2, <1>5, PersistApplies, ApplyInTurn, ApplyLegal DEF RowInv
  <1> QED
    BY <1>1, <1>3, <1>4, <1>5, StepKinds

(***************************************************************************)
(* Writes and rows are always in turn and legal.                           *)
(***************************************************************************)
LEMMA RowsAlways == Spec => []RowInv
  <1>1. TypeOK /\ TypeOK' /\ TaskInv /\ DecisionInv /\ RowInv /\ [Next]_vars => RowInv'
    BY RowStep
  <1>2. Spec => []TypeOK /\ []TaskInv /\ []DecisionInv
    BY TypeCorrect, TasksAlways, DecisionAlways, PTL
  <1> QED
    BY <1>1, <1>2, RowInit, PTL DEF Spec
-----------------------------------------------------------------------------
(***************************************************************************)
(* The story of a node's attempts.                                         *)
(***************************************************************************)
\* The inserts and the ends of an attempt that are still queued, after a
\* send and after the persister's step.
LEMMA KeptBySend ==
  ASSUME TypeOK, TypeOK', NEW n \in Nodes, NEW op \in Op, Sends(n, op),
         NEW m \in Nodes, NEW a
  PROVE  LET last == Len(persistQ) + 1 IN
         /\ Appends(m, a)' = Appends(m, a) \cup
              (IF m = n /\ op.kind = "append" /\ op.attempt = a THEN {last} ELSE {})
         /\ Finishes(m, a)' = Finishes(m, a) \cup
              (IF m = n /\ op.kind = "finish" /\ op.attempt = a THEN {last} ELSE {})
         /\ \A i \in Appends(m, a) \cup Finishes(m, a) : persistQ'[i] = persistQ[i]
         /\ persistQ'[last] = op
  <1> DEFINE last == Len(persistQ) + 1
  <1>1. /\ m # n => Queued(m)' = Queued(m)
        /\ Queued(n)' = Queued(n) \cup {last}
        /\ \A i \in DOMAIN persistQ : persistQ'[i] = persistQ[i]
        /\ last \notin DOMAIN persistQ /\ persistQ'[last] = op
    BY QueuedAfterSend
  <1>2. Queued(m) \subseteq DOMAIN persistQ
    BY DEF Queued
  <1> HIDE DEF last
  <1>3. \A i : i \in Appends(m, a)' <=>
               \/ i \in Appends(m, a)
               \/ i = last /\ m = n /\ op.kind = "append" /\ op.attempt = a
    BY <1>1, <1>2 DEF Appends
  <1>4. \A i : i \in Finishes(m, a)' <=>
               \/ i \in Finishes(m, a)
               \/ i = last /\ m = n /\ op.kind = "finish" /\ op.attempt = a
    BY <1>1, <1>2 DEF Finishes
  <1>5. \A i \in Appends(m, a) \cup Finishes(m, a) : persistQ'[i] = persistQ[i]
    BY <1>1, <1>2 DEF Appends, Finishes
  <1> QED
    BY <1>1, <1>3, <1>4, <1>5 DEF last

LEMMA KeptByApply ==
  ASSUME TypeOK, TypeOK', NEW op \in Op, NEW k \in 0..3, Applies(op, k), NEW m, NEW a
  PROVE  /\ \A i \in Appends(m, a)' : /\ i + 1 > 1 /\ i + 1 \in Appends(m, a)
                                      /\ persistQ'[i] = persistQ[i + 1]
         /\ \A i \in Finishes(m, a)' : /\ i + 1 > 1 /\ i + 1 \in Finishes(m, a)
                                       /\ persistQ'[i] = persistQ[i + 1]
         /\ \A i \in Appends(m, a) :
              i # 1 => i - 1 \in Appends(m, a)' /\ persistQ'[i - 1] = persistQ[i]
         /\ \A i \in Finishes(m, a) :
              i # 1 => i - 1 \in Finishes(m, a)' /\ persistQ'[i - 1] = persistQ[i]
  <1>1. /\ \A i \in Queued(m)' : /\ i \in Nat /\ i + 1 > 1
                                 /\ i + 1 \in Queued(m) /\ persistQ'[i] = persistQ[i + 1]
        /\ \A i \in Queued(m) :
             i # 1 => i - 1 \in Queued(m)' /\ persistQ'[i - 1] = persistQ[i]
    BY QueuedAfterApply
  <1>2. /\ \A i \in Appends(m, a)' : /\ i + 1 > 1 /\ i + 1 \in Appends(m, a)
                                     /\ persistQ'[i] = persistQ[i + 1]
        /\ \A i \in Appends(m, a) :
             i # 1 => i - 1 \in Appends(m, a)' /\ persistQ'[i - 1] = persistQ[i]
    BY <1>1 DEF Appends
  <1>3. /\ \A i \in Finishes(m, a)' : /\ i + 1 > 1 /\ i + 1 \in Finishes(m, a)
                                      /\ persistQ'[i] = persistQ[i + 1]
        /\ \A i \in Finishes(m, a) :
             i # 1 => i - 1 \in Finishes(m, a)' /\ persistQ'[i - 1] = persistQ[i]
    BY <1>1 DEF Finishes
  <1> QED
    BY <1>2, <1>3

\* A node's story that a step does not concern.
LEMMA StoryMoves ==
  ASSUME TypeOK, TypeOK', NEW m \in Nodes, StoryOf(m), SameNode(m),
         \A a \in Attempts : rows'[m][a] = rows[m][a],
         \A a : Opened(m, a) => Opened(m, a)',
         \A a : FailedFirst(m, a) => FailedFirst(m, a)',
         \A a : Appends(m, a)' # {} => Appends(m, a) # {},
         \A a : Finishes(m, a)' # {} => Finishes(m, a) # {}
  PROVE  StoryOf(m)'
  <1>1. (Alive(m)' <=> Alive(m)) /\ attemptCounter'[m] = attemptCounter[m]
    BY DEF Alive, SameNode
  <1>2. (Alive(m) => Opened(m, attemptCounter[m]))'
    BY <1>1 DEF StoryOf
  <1>3. (Retrying(m) => FailedFirst(m, attemptCounter[m]))'
    BY <1>1 DEF StoryOf, SameNode
  <1>4. \A a \in Attempts :
          /\ Finishes(m, a)' # {} => Opened(m, a)'
          /\ Appends(m, a)' # {} /\ a > 1 => FailedFirst(m, a - 1)'
          /\ rows'[m][a].status # "absent" /\ a > 1 => FailedFirst(m, a - 1)'
    BY DEF StoryOf
  <1>5. \A a \in Attempts :
          /\ rows'[m][a].status = "running" => rows'[m][a].port = NoPort
          /\ rows'[m][a].status = "failed" /\ rows'[m][a].port # NoPort =>
               LastFailure(m, a, rows'[m][a])
    BY DEF StoryOf
  <1> QED
    BY <1>2, <1>3, <1>4, <1>5 DEF StoryOf, LastFailure

LEMMA StillStory ==
  ASSUME TypeOK, TypeOK', Still, NEW m \in Nodes, StoryOf(m)
  PROVE  StoryOf(m)'
  <1>1. persistQ' = persistQ /\ rows' = rows /\ SameNode(m)
    BY DEF Still
  <1>2. \A a : Appends(m, a)' = Appends(m, a) /\ Finishes(m, a)' = Finishes(m, a)
    BY <1>1 DEF Appends, Finishes, Queued
  <1>3. \A a : Opened(m, a) => Opened(m, a)'
    BY <1>1, <1>2 DEF Opened
  <1>4. \A a : FailedFirst(m, a) => FailedFirst(m, a)'
    BY <1>1, <1>2 DEF FailedFirst
  <1> QED
    BY <1>1, <1>2, <1>3, <1>4, StoryMoves

LEMMA SendKeeps ==
  ASSUME TypeOK, TypeOK', NEW n \in Nodes, NEW op \in Op, Sends(n, op), NEW m \in Nodes
  PROVE  /\ \A a : Opened(m, a) => Opened(m, a)'
         /\ \A a : FailedFirst(m, a) => FailedFirst(m, a)'
  <1>1. rows' = rows
    BY DEF Sends
  <1> SUFFICES ASSUME NEW a PROVE /\ Opened(m, a) => Opened(m, a)'
                                  /\ FailedFirst(m, a) => FailedFirst(m, a)'
    OBVIOUS
  <1>2. /\ \A i \in Appends(m, a) : i \in Appends(m, a)' /\ persistQ'[i] = persistQ[i]
        /\ \A i \in Finishes(m, a) : i \in Finishes(m, a)' /\ persistQ'[i] = persistQ[i]
    BY KeptBySend
  <1>3. Opened(m, a) => Opened(m, a)'
    BY <1>1, <1>2 DEF Opened
  <1>4. FailedFirst(m, a) => FailedFirst(m, a)'
    BY <1>1, <1>2 DEF FailedFirst
  <1> QED
    BY <1>3, <1>4

LEMMA OthersStory ==
  ASSUME TypeOK, TypeOK', NEW n \in Nodes, NEW op \in Op, Sends(n, op),
         NEW m \in Nodes \ {n}, StoryOf(m)
  PROVE  StoryOf(m)'
  <1>1. rows' = rows /\ SameNode(m)
    BY DEF Sends
  <1>2. \A a : Appends(m, a)' = Appends(m, a) /\ Finishes(m, a)' = Finishes(m, a)
    <2> TAKE a
    <2>1. /\ Appends(m, a)' = Appends(m, a) \cup
               (IF m = n /\ op.kind = "append" /\ op.attempt = a
                THEN {Len(persistQ) + 1} ELSE {})
          /\ Finishes(m, a)' = Finishes(m, a) \cup
               (IF m = n /\ op.kind = "finish" /\ op.attempt = a
                THEN {Len(persistQ) + 1} ELSE {})
      BY KeptBySend
    <2> QED
      BY <2>1
  <1>3. /\ \A a : Opened(m, a) => Opened(m, a)'
        /\ \A a : FailedFirst(m, a) => FailedFirst(m, a)'
    BY SendKeeps
  <1> QED
    BY <1>1, <1>2, <1>3, StoryMoves

LEMMA SenderStory ==
  ASSUME TypeOK, TypeOK', NEW n \in Nodes, NEW op \in Op, StoryOf(n),
         Starts(n, op) \/ GivesUp(n, op) \/ Ends(n, op)
  PROVE  StoryOf(n)'
  <1> PICK c \in Nat : c = attemptCounter[n]
    BY DEF TypeOK
  <1> DEFINE last == Len(persistQ) + 1
  <1>1. Sends(n, op) /\ rows' = rows
    BY DEF Starts, GivesUp, Ends, Sends
  <1>2. /\ \A a : Opened(n, a) => Opened(n, a)'
        /\ \A a : FailedFirst(n, a) => FailedFirst(n, a)'
    BY <1>1, SendKeeps
  <1>3. \A a : /\ Appends(n, a)' = Appends(n, a) \cup
                    (IF op.kind = "append" /\ op.attempt = a THEN {last} ELSE {})
               /\ Finishes(n, a)' = Finishes(n, a) \cup
                    (IF op.kind = "finish" /\ op.attempt = a THEN {last} ELSE {})
               /\ persistQ'[last] = op
    BY <1>1, KeptBySend
  <1> HIDE DEF last
  <1>4. \A a \in Attempts :
          /\ rows'[n][a].status # "absent" /\ a > 1 => FailedFirst(n, a - 1)'
          /\ rows'[n][a].status = "running" => rows'[n][a].port = NoPort
          /\ rows'[n][a].status = "failed" /\ rows'[n][a].port # NoPort =>
               LastFailure(n, a, rows'[n][a])
    BY <1>1, <1>2 DEF StoryOf
  \* What is left to show is about the write that is sent.
  <1>5. ASSUME (Alive(n) => Opened(n, attemptCounter[n]))',
               (Retrying(n) => FailedFirst(n, attemptCounter[n]))',
               op.kind = "finish" => Opened(n, op.attempt)',
               op.kind = "append" /\ op.attempt > 1 => FailedFirst(n, op.attempt - 1)'
        PROVE  StoryOf(n)'
    <2>1. \A a \in Attempts : Finishes(n, a)' # {} => Opened(n, a)'
      BY <1>2, <1>3, <1>5 DEF StoryOf
    <2>2. \A a \in Attempts : Appends(n, a)' # {} /\ a > 1 => FailedFirst(n, a - 1)'
      BY <1>2, <1>3, <1>5 DEF StoryOf
    <2> QED
      BY <1>4, <1>5, <2>1, <2>2 DEF StoryOf, LastFailure
  <1>6. Retrying(n) => FailedFirst(n, c)'
    BY <1>2 DEF StoryOf
  <1>7. CASE Starts(n, op)
    <2>1. /\ op = AppendOp(n, c + 1, "running") /\ ~Retrying(n)'
          /\ attemptCounter'[n] = c + 1 /\ (Retrying(n) \/ c = 0)
      BY <1>7 DEF Starts
    <2>2. op.kind = "append" /\ op.attempt = c + 1 /\ op.row.status = "running"
      BY <2>1 DEF AppendOp, EmptyRow
    <2>3. Opened(n, c + 1)'
      BY <1>3, <2>2 DEF Opened
    <2>4. op.attempt > 1 => FailedFirst(n, op.attempt - 1)'
      BY <1>1, <1>6, <2>1, <2>2
    <2> QED
      BY <1>5, <2>1, <2>2, <2>3, <2>4
  <1>8. CASE GivesUp(n, op)
    <2>1. ~Retrying(n)' /\ ~Alive(n)'
      BY <1>8 DEF GivesUp, Alive
    <2>2. op.kind = "append" /\ (op.attempt > 1 => FailedFirst(n, op.attempt - 1)')
      <3>1. CASE op = AppendOp(n, 1, "skipped")
        BY <3>1 DEF AppendOp
      <3>2. CASE Retrying(n) /\ op = AppendOp(n, c + 1, "cancelled")
        <4>1. op.kind = "append" /\ op.attempt = c + 1 /\ op.attempt - 1 = c
          BY <1>1, <3>2 DEF AppendOp
        <4> QED
          BY <1>6, <3>2, <4>1
      <3> QED
        BY <1>8, <3>1, <3>2 DEF GivesUp
    <2> QED
      BY <1>5, <2>1, <2>2
  <1>9. CASE Ends(n, op)
    <2>1. /\ op.kind = "finish" /\ op.attempt = c /\ Alive(n) /\ attemptCounter'[n] = c
          /\ Retrying(n)' => FailedQuietly(op.row)
          /\ ~Alive(n)'
      BY <1>9 DEF Ends, Alive
    <2>2. Opened(n, c)'
      BY <1>2, <2>1 DEF StoryOf
    <2>3. Retrying(n)' => FailedFirst(n, c)'
      BY <1>3, <2>1 DEF FailedFirst
    <2> QED
      BY <1>5, <2>1, <2>2, <2>3
  <1> QED
    BY <1>7, <1>8, <1>9

\* Without a database failure the persister finds what it looks for: no row
\* for an insert, an open one for an end; and an end is the attempt's last write.
LEMMA FindsItsRow ==
  ASSUME TypeOK, InTurn, NEW m \in Nodes, StoryOf(m), NEW op \in Op, LegalWrite(op),
         op.kind # "vars", op.node = m, op.attempt \in Attempts,
         1 \in DOMAIN persistQ, persistQ[1] = op
  PROVE  /\ op.kind = "append" => rows[m][op.attempt].status = "absent"
         /\ op.kind = "finish" => rows[m][op.attempt].status = "running"
         /\ op.kind = "finish" =>
              \A i : i > 1 => i \notin Appends(m, op.attempt) /\ i \notin Finishes(m, op.attempt)
  <1> DEFINE a == op.attempt
  <1>1. a \in Attempts /\ a \in Nat /\ a >= 1
    BY AttemptsNat
  <1>2. /\ op.kind = "append" => 1 \in Appends(m, a)
        /\ op.kind = "finish" => 1 \in Finishes(m, a)
        /\ 1 \in Queued(m)
    BY DEF Appends, Finishes, Queued
  <1>3. op.kind = "finish" => Ending(op)
    BY DEF LegalWrite
  <1>4. \A i \in Appends(m, a) : i = 1 => op.kind = "append"
    BY DEF Appends
  <1>6. op.kind = "finish" =>
          \A i : i > 1 => i \notin Appends(m, a) /\ i \notin Finishes(m, a)
    <2> SUFFICES ASSUME op.kind = "finish", NEW i, i > 1,
                        i \in Appends(m, a) \/ i \in Finishes(m, a)
                 PROVE  FALSE
      OBVIOUS
    <2>1. i \in Queued(m) /\ persistQ[i].attempt = a /\ persistQ[i] \in Op
      BY QueuedTyped DEF Appends, Finishes
    <2>2. i \in Nat
      BY <2>1, QueuedTyped
    <2>3. TurnAfter(op) < Turn(persistQ[i])
      BY <1>2, <2>1, <2>2 DEF InTurn, QueueInTurn
    <2>4. TurnAfter(op) = 2 * a + 1
      BY <1>1, <1>3 DEF TurnAfter, Ending
    <2>5. Turn(persistQ[i]) <= 2 * a + 1
      BY <1>1, <2>1 DEF Turn
    <2> HIDE DEF a
    <2> QED
      BY <1>1, <2>3, <2>4, <2>5, TurnsTyped, <2>1
  <1>7. op.kind = "append" => rows[m][a].status = "absent"
    <2> SUFFICES ASSUME op.kind = "append", rows[m][a].status # "absent" PROVE FALSE
      OBVIOUS
    <2>1. RowTurn(m, a) < Turn(op)
      BY <1>1, <1>2 DEF InTurn, RowsBehindQueue
    <2>2. Turn(op) = 2 * a /\ RowTurn(m, a) >= 2 * a
      BY <1>1 DEF Turn, RowTurn
    <2> HIDE DEF a
    <2> QED
      BY <1>1, <2>1, <2>2, TurnsTyped
  <1>8. op.kind = "finish" => rows[m][a].status = "running"
    <2> SUFFICES ASSUME op.kind = "finish" PROVE rows[m][a].status = "running"
      OBVIOUS
    <2>1. Opened(m, a)
      BY <1>1, <1>2 DEF StoryOf
    <2>2. ASSUME NEW i \in Appends(m, a) PROVE FALSE
      <3>1. i # 1 /\ i \in Nat /\ i >= 1
        BY <1>4, QueuedTyped DEF Appends
      <3> QED
        BY <1>6, <3>1
    <2> QED
      BY <2>1, <2>2 DEF Opened
  <1> QED
    BY <1>6, <1>7, <1>8

\* The persister's step, without a database failure.
LEMMA ApplyStory ==
  ASSUME TypeOK, TypeOK', InTurn, WritesLegal, RowsLegal, faults = 0, faults' = 0,
         \A n \in Nodes : StoryOf(n), NEW op \in Op, NEW k \in 0..3, Applies(op, k),
         NEW m \in Nodes
  PROVE  StoryOf(m)'
  <1>1. SameNode(m) /\ StoryOf(m) /\ 1 \in DOMAIN persistQ /\ persistQ[1] = op
    BY QueuedTyped DEF Applies
  <1>2. \A b : /\ \A i \in Appends(m, b) :
                    i # 1 => i - 1 \in Appends(m, b)' /\ persistQ'[i - 1] = persistQ[i]
               /\ \A i \in Finishes(m, b) :
                    i # 1 => i - 1 \in Finishes(m, b)' /\ persistQ'[i - 1] = persistQ[i]
               /\ Appends(m, b)' # {} => Appends(m, b) # {}
               /\ Finishes(m, b)' # {} => \E i \in Finishes(m, b) : i > 1
    BY KeptByApply
  <1>3. LegalWrite(op)
    BY <1>1 DEF WritesLegal
  <1>4. CASE op.kind = "vars" \/ op.node # m
    <2>1. \A b : 1 \notin Appends(m, b) /\ 1 \notin Finishes(m, b)
      BY <1>1, <1>4 DEF Appends, Finishes, Queued
    <2>2. \A b \in Attempts : rows'[m][b] = rows[m][b]
      <3>1. CASE op.kind = "vars"
        BY <3>1 DEF Applies, Store
      <3>2. CASE op.kind # "vars"
        BY <1>3, <1>4, <3>2, AppliedRow DEF OtherRows
      <3> QED
        BY <3>1, <3>2
    <2>3. \A b : Opened(m, b) => Opened(m, b)'
      BY <1>2, <2>1, <2>2 DEF Opened
    <2>4. \A b : FailedFirst(m, b) => FailedFirst(m, b)'
      BY <1>2, <2>1, <2>2 DEF FailedFirst
    <2> QED
      BY <1>1, <1>2, <2>2, <2>3, <2>4, StoryMoves
  <1>5. CASE op.kind # "vars" /\ op.node = m
    <2> DEFINE a == op.attempt
               old == rows[m][a]
               new == rows'[m][a]
    <2>1. /\ a \in Attempts /\ OtherRows(op) /\ a \in Nat /\ a >= 1
          /\ Left(op, old, new) \/ Inserted(op, old, new) \/ Closed(op, old, new)
      BY <1>3, <1>5, AppliedRow, AttemptsNat
    <2>2. /\ op.kind = "append" => 1 \in Appends(m, a)
          /\ op.kind = "finish" => 1 \in Finishes(m, a)
          /\ 1 \in Queued(m)
      BY <1>1, <1>5 DEF Appends, Finishes, Queued
    <2>3. /\ op.kind \in {"append", "finish"}
          /\ op.kind = "append" => Insertion(op)
          /\ op.kind = "finish" => Ending(op)
      BY <1>3, <1>5 DEF LegalWrite, Op
    <2>4. \A b : /\ \A i \in Appends(m, b) : i = 1 => op.kind = "append" /\ b = a
                 /\ \A i \in Finishes(m, b) : i = 1 => op.kind = "finish" /\ b = a
      BY <1>1 DEF Appends, Finishes
    <2>5. \A b \in Attempts : b # a => rows'[m][b] = rows[m][b]
      BY <1>5, <2>1 DEF OtherRows
    <2>6. /\ op.kind = "append" => old.status = "absent"
          /\ op.kind = "finish" => old.status = "running"
          /\ op.kind = "finish" =>
               \A i : i > 1 => i \notin Appends(m, a) /\ i \notin Finishes(m, a)
      BY <1>1, <1>3, <1>5, <2>1, FindsItsRow
    <2>7. op.kind = "append" => old.status = "absent"
      BY <2>6
    <2>8. op.kind = "finish" => old.status = "running"
      BY <2>6
    <2>9. \A b : FailedFirst(m, b) => FailedFirst(m, b)'
      <3> SUFFICES ASSUME NEW b, FailedFirst(m, b) PROVE FailedFirst(m, b)'
        OBVIOUS
      <3>1. CASE b \in Attempts /\ FailedQuietly(rows[m][b])
        <4>1. b # a
          BY <2>3, <2>7, <2>8, <3>1 DEF FailedQuietly
        <4> QED
          BY <2>5, <3>1, <4>1 DEF FailedFirst
      <3>2. ASSUME NEW i \in Finishes(m, b), FailedQuietly(persistQ[i].row)
            PROVE  FailedFirst(m, b)'
        <4>1. CASE i # 1
          BY <1>2, <3>2, <4>1 DEF FailedFirst
        <4>2. CASE i = 1
          <5>1. op.kind = "finish" /\ b = a /\ FailedQuietly(op.row)
            BY <1>1, <2>4, <3>2, <4>2
          <5>2. op.row.port = NoPort /\ op.row.status = "failed"
            BY <5>1 DEF FailedQuietly
          <5>3. Closed(op, old, new)
            BY <2>1, <2>8, <5>1, <5>2, PortAssumption DEF Left, Inserted
          <5>4. old.port = NoPort
            BY <1>1, <2>1, <2>8, <5>1 DEF StoryOf
          <5>5. FailedQuietly(new)
            BY <5>2, <5>3, <5>4 DEF Closed, FailedQuietly
          <5> QED
            BY <2>1, <5>1, <5>5 DEF FailedFirst
        <4> QED
          BY <4>1, <4>2
      <3> QED
        BY <3>1, <3>2 DEF FailedFirst
    <2>10. \A b : Opened(m, b) => Opened(m, b)' \/ (b = a /\ Closed(op, old, new))
      <3> SUFFICES ASSUME NEW b, Opened(m, b), ~(b = a /\ Closed(op, old, new))
                   PROVE  Opened(m, b)'
        OBVIOUS
      <3>1. CASE b \in Attempts /\ rows[m][b].status = "running"
        <4>1. rows'[m][b].status = "running"
          BY <2>1, <2>5, <3>1 DEF Left, Inserted
        <4> QED
          BY <3>1, <4>1 DEF Opened
      <3>2. ASSUME NEW i \in Appends(m, b), persistQ[i].row.status = "running"
            PROVE  Opened(m, b)'
        <4>1. CASE i # 1
          BY <1>2, <3>2, <4>1 DEF Opened
        <4>2. CASE i = 1
          <5>1. op.kind = "append" /\ b = a /\ op.row.status = "running"
            BY <1>1, <2>4, <3>2, <4>2
          <5>2. Inserted(op, old, new)
            BY <2>1, <2>7, <5>1 DEF Left, Closed
          <5> QED
            BY <2>1, <5>1, <5>2 DEF Inserted, Opened
        <4> QED
          BY <4>1, <4>2
      <3> QED
        BY <3>1, <3>2 DEF Opened
    <2> HIDE DEF a, old, new
    <2>11. attemptCounter'[m] = attemptCounter[m] /\ (Alive(m)' <=> Alive(m))
      BY <1>1 DEF SameNode, Alive
    <2>12. (Alive(m) => Opened(m, attemptCounter[m]))'
      <3> SUFFICES ASSUME Alive(m) PROVE Opened(m, attemptCounter[m])'
        BY <2>11
      <3>1. Opened(m, attemptCounter[m])
        BY <1>1 DEF StoryOf
      <3>2. ~(attemptCounter[m] = a /\ Closed(op, old, new))
        <4> SUFFICES ASSUME attemptCounter[m] = a, op.kind = "finish" PROVE FALSE
          BY DEF Closed
        <4>1. TurnAfter(op) <= Clock(m)
          BY <1>1, <2>2 DEF InTurn, BehindClock, Alive
        <4>2. TurnAfter(op) = 2 * a + 1
          BY <2>1, <2>3 DEF TurnAfter, Ending, a
        <4>3. Clock(m) = 2 * a
          BY <2>1 DEF Clock, Alive
        <4> QED
          BY <2>1, <4>1, <4>2, <4>3
      <3> QED
        BY <2>10, <2>11, <3>1, <3>2
    <2>13. (Retrying(m) => FailedFirst(m, attemptCounter[m]))'
      BY <1>1, <2>9, <2>11 DEF StoryOf, SameNode
    <2>14. ASSUME NEW b \in Attempts
           PROVE  /\ Finishes(m, b)' # {} => Opened(m, b)'
                  /\ Appends(m, b)' # {} /\ b > 1 => FailedFirst(m, b - 1)'
                  /\ rows'[m][b].status # "absent" /\ b > 1 => FailedFirst(m, b - 1)'
      <3>1. Finishes(m, b)' # {} => Opened(m, b)'
        <4> SUFFICES ASSUME Finishes(m, b)' # {} PROVE Opened(m, b)'
          OBVIOUS
        <4>1. PICK i \in Finishes(m, b) : i > 1
          BY <1>2
        <4>2. Opened(m, b)
          BY <1>1, <4>1 DEF StoryOf
        <4>3. ~(b = a /\ Closed(op, old, new))
          BY <2>6, <4>1 DEF Closed, a
        <4> QED
          BY <2>10, <4>2, <4>3
      <3>2. Appends(m, b)' # {} /\ b > 1 => FailedFirst(m, b - 1)'
        BY <1>1, <1>2, <2>9 DEF StoryOf
      <3>3. rows'[m][b].status # "absent" /\ b > 1 => FailedFirst(m, b - 1)'
        <4>1. CASE rows[m][b].status # "absent"
          BY <1>1, <2>9, <4>1 DEF StoryOf
        <4>2. CASE rows[m][b].status = "absent" /\ rows'[m][b].status # "absent"
          <5>1. b = a /\ op.kind = "append"
            BY <2>1, <2>5, <4>2 DEF Left, Closed, Inserted, a, old, new
          <5> QED
            BY <1>1, <2>2, <2>9, <5>1 DEF StoryOf, a
        <4> QED
          BY <4>1, <4>2
      <3> QED
        BY <3>1, <3>2, <3>3
    <2>15. /\ new.status = "running" => new.port = NoPort
           /\ new.status = "failed" /\ new.port # NoPort => LastFailure(m, a, new)
      <3>1. /\ old.status = "running" => old.port = NoPort
            /\ old.status = "failed" /\ old.port # NoPort => LastFailure(m, a, old)
        BY <1>1, <2>1 DEF StoryOf, a, old
      <3>2. CASE Left(op, old, new)
        BY <2>3, <2>7, <2>8, <3>1, <3>2 DEF Left, a, old
      <3>3. CASE Inserted(op, old, new)
        BY <2>3, <3>3 DEF Inserted, Insertion
      <3>4. CASE Closed(op, old, new)
        <4>1. new.port = op.row.port
          BY <3>1, <3>4 DEF Closed
        <4> QED
          BY <1>5, <2>3, <3>4, <4>1 DEF Closed, Ending, LastFailure, a
      <3> QED
        BY <2>1, <3>2, <3>3, <3>4 DEF a, old, new
    <2>16. \A b \in Attempts :
             /\ rows'[m][b].status = "running" => rows'[m][b].port = NoPort
             /\ rows'[m][b].status = "failed" /\ rows'[m][b].port # NoPort =>
                  LastFailure(m, b, rows'[m][b])
      <3> TAKE b \in Attempts
      <3>1. CASE b = a
        BY <2>15, <3>1 DEF new
      <3>2. CASE b # a
        BY <1>1, <2>5, <3>2 DEF StoryOf, a
      <3> QED
        BY <3>1, <3>2
    <2> QED
      BY <2>12, <2>13, <2>14, <2>16 DEF StoryOf, LastFailure
  <1> QED
    BY <1>4, <1>5

LEMMA FaultsGrow ==
  ASSUME TypeOK, [Next]_vars
  PROVE  faults' = faults \/ faults' = faults + 1
  <1>1. CASE \E n \in todo : TryAdvance(n)
    BY <1>1 DEF TryAdvance
  <1>2. CASE \E r \in results : ReceiveResult(r)
    BY <1>2 DEF ReceiveResult
  <1>3. CASE HandleCancelled \/ HandleRetry \/ HandleFailRun \/ HandlePropagate
    BY <1>3 DEF HandleCancelled, HandleRetry, HandleFailRun, HandlePropagate, Handle
  <1>4. CASE \E rt \in retryCh : RetryDue(rt)
    BY <1>4 DEF RetryDue
  <1>5. CASE \/ \E t \in work, out \in Outcome : WorkerEnds(t, out)
             \/ \E t \in timers : TimerFires(t)
    BY <1>5 DEF WorkerEnds, TimerFires, storeVars
  <1>6. CASE CreateRun \/ BeginRun \/ SaveVerdict \/ CloseRun
    BY <1>6 DEF CreateRun, BeginRun, SaveVerdict, CloseRun, GiveUp
  <1>7. CASE LoadVersion \/ Settle \/ PersistFailed \/ ContextDone \/ LeaveLoop
             \/ FinishDrain \/ CallerCancels \/ UNCHANGED vars
    BY <1>7 DEF LoadVersion, Settle, PersistFailed, ContextDone, LeaveLoop, FinishDrain,
         CallerCancels, vars, storeVars
  <1>8. CASE Persist
    BY <1>8 DEF Persist
  <1> QED
    BY <1>1, <1>2, <1>3, <1>4, <1>5, <1>6, <1>7, <1>8
       DEF Next, Driver, Over, Worker, RetryTimer

LEMMA StoryInit == Init => StoryInv
  <1> SUFFICES ASSUME Init PROVE StoryInv
    OBVIOUS
  <1>1. /\ DOMAIN persistQ = {} /\ Tokens = {}
        /\ \A n \in Nodes : nodeStat[n] = "unready"
        /\ \A n \in Nodes, a \in Attempts : rows[n][a] = EmptyRow
    BY DEF Init, Tokens
  <1>2. \A n : Queued(n) = {} /\ ~Retrying(n)
    BY <1>1 DEF Queued, Retrying
  <1>3. \A n \in Nodes : ~Alive(n)
    BY <1>1 DEF Alive
  <1>4. EmptyRow.status = "absent"
    BY DEF EmptyRow
  <1> QED
    BY <1>1, <1>2, <1>3, <1>4 DEF StoryInv, StoryOf, Appends, Finishes

LEMMA StoryStep ==
  ASSUME TypeOK, TypeOK', TaskInv, DecisionInv, RowInv, StoryInv, [Next]_vars
  PROVE  StoryInv'
  <1> SUFFICES ASSUME faults' = 0, NEW m \in Nodes PROVE StoryOf(m)'
    BY DEF StoryInv
  <1>1. faults = 0 /\ \A n \in Nodes : StoryOf(n)
    <2>1. faults = 0
      BY FaultsGrow DEF TypeOK
    <2> QED
      BY <2>1 DEF StoryInv
  <1>2. InTurn /\ WritesLegal /\ ResultsPossible /\ RowsLegal
    BY DEF RowInv
  <1>3. CASE Still
    BY <1>1, <1>3, StillStory
  <1>4. ASSUME NEW n \in Nodes, NEW op \in Op,
               Starts(n, op) \/ GivesUp(n, op) \/ Ends(n, op)
        PROVE  StoryOf(m)'
    <2>1. Sends(n, op)
      BY <1>4 DEF Starts, GivesUp, Ends
    <2>2. CASE m = n
      BY <1>1, <1>4, <2>2, SenderStory
    <2>3. CASE m # n
      BY <1>1, <2>1, <2>3, OthersStory
    <2> QED
      BY <2>2, <2>3
  <1>5. CASE Persist
    BY <1>1, <1>2, <1>5, PersistApplies, ApplyStory
  <1> QED
    BY <1>2, <1>3, <1>4, <1>5, StepKinds

LEMMA StoryAlways == Spec => []StoryInv
  <1>1. TypeOK /\ TypeOK' /\ TaskInv /\ DecisionInv /\ RowInv /\ StoryInv /\ [Next]_vars
          => StoryInv'
    BY StoryStep
  <1>2. Spec => []TypeOK /\ []TaskInv /\ []DecisionInv /\ []RowInv
    BY TypeCorrect, TasksAlways, DecisionAlways, RowsAlways, PTL
  <1> QED
    BY <1>1, <1>2, StoryInit, PTL DEF Spec

(***************************************************************************)
(* While the database does not fail, the rows of every node tell its       *)
(* attempts one after the other: each but the last failed and fired        *)
(* nothing, and a failed one that fired a port used up the policy.         *)
(***************************************************************************)
THEOREM RowsTellTheStory == Spec => []AttemptStory
  <1>1. TypeOK /\ RowInv /\ StoryInv => AttemptStory
    <2> SUFFICES ASSUME TypeOK, RowInv, StoryInv, faults = 0,
                        NEW n \in Nodes, NEW a \in Attempts
                 PROVE  /\ rows[n][a].status # "absent" => a <= MaxRetries[n] + 1
                        /\ (a > 1 /\ rows[n][a].status # "absent") =>
                             FailedQuietly(rows[n][a - 1])
                        /\ (rows[n][a].status = "failed" /\ rows[n][a].port # NoPort) =>
                             LastFailure(n, a, rows[n][a])
      BY DEF AttemptStory, FailedQuietly, LastFailure
    <2>1. StoryOf(n) /\ InTurn /\ RowsLegal /\ a \in Nat
      BY AttemptsNat DEF StoryInv, RowInv
    <2>2. rows[n][a].status # "absent" => a <= MaxRetries[n] + 1
      BY <2>1 DEF RowsLegal, LegalRow
    <2>3. ASSUME a > 1, rows[n][a].status # "absent"
          PROVE  FailedQuietly(rows[n][a - 1])
      <3>1. FailedFirst(n, a - 1)
        BY <2>1, <2>3 DEF StoryOf
      <3>2. ASSUME NEW i \in Finishes(n, a - 1) PROVE FALSE
        <4>1. i \in Queued(n) /\ persistQ[i].attempt = a - 1 /\ persistQ[i] \in Op
          BY QueuedTyped DEF Finishes
        <4>2. RowTurn(n, a) < Turn(persistQ[i])
          BY <2>1, <2>3, <4>1 DEF InTurn, RowsBehindQueue
        <4>3. Turn(persistQ[i]) <= 2 * (a - 1) + 1 /\ RowTurn(n, a) >= 2 * a
          BY <2>1, <4>1 DEF Turn, RowTurn
        <4>4. Turn(persistQ[i]) \in Nat /\ RowTurn(n, a) \in Nat
          BY <4>1, TurnsTyped
        <4> QED
          BY <2>1, <4>2, <4>3, <4>4
      <3> QED
        BY <3>1, <3>2 DEF FailedFirst
    <2>4. (rows[n][a].status = "failed" /\ rows[n][a].port # NoPort) =>
            LastFailure(n, a, rows[n][a])
      BY <2>1 DEF StoryOf
    <2> QED
      BY <2>2, <2>3, <2>4
  <1> QED
    BY <1>1, TypeCorrect, RowsAlways, StoryAlways, PTL
-----------------------------------------------------------------------------
(***************************************************************************)
(* The run's own row.                                                      *)
(***************************************************************************)
LEMMA RunRowInit == Init => RunRowInv
  <1> SUFFICES ASSUME Init PROVE RunRowInv
    OBVIOUS
  <1>1. /\ pc = "load" /\ persistQ = <<>> /\ faults = 0 /\ runFail = None
        /\ dbRun.status = "absent" /\ dbRun.error = None
    BY DEF Init
  <1>2. None # "no_end_reached"
    BY EngineAssumption DEF RunErrCodes
  <1> QED
    BY <1>1, <1>2 DEF RunRowInv, StatusFollowsPc, QueueWhileExecuting,
         CleanIsReportedLast, ReportedClean, FaultIsTold, Executing

\* A step of the loop changes nothing of the run's row, and leaves the run
\* in the loop.
LEMMA LoopSteps ==
  ASSUME \/ \E n \in todo : TryAdvance(n)
         \/ Settle
         \/ \E r \in results : ReceiveResult(r)
         \/ HandleCancelled \/ HandleRetry \/ HandleFailRun \/ HandlePropagate
         \/ \E rt \in retryCh : RetryDue(rt)
         \/ PersistFailed \/ ContextDone \/ LeaveLoop
  PROVE  pc \in Executing /\ pc' \in Executing /\ UNCHANGED <<dbRun, faults>>
  <1>1. CASE \E n \in todo : TryAdvance(n)
    BY <1>1 DEF TryAdvance, Executing
  <1>2. CASE \E r \in results : ReceiveResult(r)
    BY <1>2 DEF ReceiveResult, Selecting, Executing
  <1>3. CASE HandleCancelled \/ HandleRetry \/ HandleFailRun \/ HandlePropagate
    BY <1>3 DEF HandleCancelled, HandleRetry, HandleFailRun, HandlePropagate, Handle,
         Executing
  <1>4. CASE \E rt \in retryCh : RetryDue(rt)
    BY <1>4 DEF RetryDue, Selecting, Executing
  <1>5. CASE Settle \/ PersistFailed \/ ContextDone \/ LeaveLoop
    BY <1>5 DEF Settle, PersistFailed, ContextDone, LeaveLoop, Selecting, Executing,
         storeVars
  <1> QED
    BY <1>1, <1>2, <1>3, <1>4, <1>5

\* The steps of the caller, the workers and the timers.
LEMMA OutsideSteps ==
  ASSUME \/ \E n \in Nodes : Worker(n) \/ RetryTimer(n)
         \/ CallerCancels \/ UNCHANGED vars
  PROVE  UNCHANGED <<pc, runFail, cancelled, endHit, persistQ, persistErr, dbRun,
                     faults, rows>>
  <1>1. CASE \E n \in Nodes : Worker(n) \/ RetryTimer(n)
    BY <1>1 DEF Worker, RetryTimer, WorkerEnds, TimerFires, driverVars, verdictVars,
         storeVars
  <1>2. CASE CallerCancels \/ UNCHANGED vars
    BY <1>2 DEF CallerCancels, vars, driverVars, verdictVars, storeVars
  <1> QED
    BY <1>1, <1>2

\* The first failure of a run is kept.
LEMMA FailureKept ==
  ASSUME [Next]_vars
  PROVE  /\ runFail # None => runFail' # None
         /\ runFail # "no_end_reached" => runFail' # "no_end_reached"
         /\ runFail' # runFail => pc \in Executing \cup {"begin"}
  <1>1. /\ "persistence_error" # None /\ "trigger_invalid" # None
        /\ "node_exec_failed" # None /\ "output_not_serializable" # None
    BY EngineAssumption DEF RunErrCodes
  <1>2. CASE runFail' = runFail
    BY <1>2
  <1>3. CASE BeginRun
    BY <1>1, <1>3 DEF BeginRun
  <1>4. CASE HandleFailRun
    BY <1>1, <1>4 DEF HandleFailRun, Handle, Executing
  <1>5. CASE PersistFailed
    BY <1>1, <1>5 DEF PersistFailed, RunFailAfterPersistErr, Selecting, Executing
  <1>6. CASE FinishDrain
    BY <1>1, <1>6 DEF FinishDrain, RunFailAfterPersistErr, Executing
  <1>7. CASE \E n \in todo : TryAdvance(n)
    BY <1>2, <1>7 DEF TryAdvance, verdictVars
  <1>8. CASE \E r \in results : ReceiveResult(r)
    BY <1>2, <1>8 DEF ReceiveResult
  <1>9. CASE HandleCancelled \/ HandleRetry \/ HandlePropagate
    BY <1>2, <1>9 DEF HandleCancelled, HandleRetry, HandlePropagate
  <1>10. CASE \E rt \in retryCh : RetryDue(rt)
    BY <1>2, <1>10 DEF RetryDue, verdictVars
  <1>11. CASE LoadVersion \/ CreateRun \/ Settle \/ ContextDone \/ LeaveLoop
              \/ SaveVerdict \/ CloseRun \/ Persist
    BY <1>2, <1>11 DEF LoadVersion, CreateRun, Settle, ContextDone, LeaveLoop,
         SaveVerdict, CloseRun, Persist, driverVars, verdictVars
  <1>12. CASE (\E n \in Nodes : Worker(n) \/ RetryTimer(n)) \/ CallerCancels
              \/ UNCHANGED vars
    BY <1>2, <1>12, OutsideSteps
  <1> QED
    BY <1>3, <1>4, <1>5, <1>6, <1>7, <1>8, <1>9, <1>10, <1>11, <1>12
       DEF Next, Driver, Over

LEMMA PersistRun ==
  ASSUME TypeOK, Persist
  PROVE  /\ dbRun'.status = dbRun.status /\ dbRun'.error = dbRun.error
         /\ dbRun'.endNode = dbRun.endNode /\ dbRun'.output = dbRun.output
         /\ UNCHANGED <<pc, runFail, cancelled, endHit>>
  <1>1. PICK op \in Op, k \in 0..3 : Applies(op, k)
    BY PersistApplies
  <1>2. dbRun' = dbRun \/ dbRun' = [dbRun EXCEPT !.vars = op.vars]
    BY <1>1 DEF Applies, Store
  <1>3. /\ dbRun'.status = dbRun.status /\ dbRun'.error = dbRun.error
        /\ dbRun'.endNode = dbRun.endNode /\ dbRun'.output = dbRun.output
    BY <1>2 DEF TypeOK, Run
  <1> QED
    BY <1>3 DEF Persist, driverVars, verdictVars

LEMMA StatusStep ==
  ASSUME TypeOK, StatusFollowsPc, [Next]_vars
  PROVE  StatusFollowsPc'
  <1>1. CASE LoadVersion \/ CreateRun \/ BeginRun
    BY <1>1 DEF LoadVersion, CreateRun, BeginRun, GiveUp, StatusFollowsPc, TypeOK, Run,
         Executing, storeVars
  <1>2. CASE FinishDrain \/ SaveVerdict \/ CloseRun
    <2>1. pc \in {"draining", "finalize", "closing"}
      BY <1>2 DEF FinishDrain, SaveVerdict, CloseRun
    <2>2. CASE FinishDrain
      BY <2>2 DEF FinishDrain, StatusFollowsPc, Executing
    <2>3. CASE SaveVerdict
      <3>1. pc' \in {"closing", "failed"} /\ dbRun'.status = dbRun.status
        BY <2>3 DEF SaveVerdict, GiveUp, TypeOK, Run
      <3> QED
        BY <2>1, <3>1 DEF StatusFollowsPc, Executing
    <2>4. CASE CloseRun
      <3>1. pc' \in {"returned", "failed"}
        BY <2>4 DEF CloseRun, GiveUp
      <3> QED
        BY <3>1 DEF StatusFollowsPc, Executing
    <2> QED
      BY <1>2, <2>2, <2>3, <2>4
  <1>3. CASE Persist
    BY <1>3, PersistRun DEF StatusFollowsPc
  <1>4. CASE pc \in Executing /\ pc' \in Executing /\ dbRun' = dbRun
    BY <1>4 DEF StatusFollowsPc, Executing
  <1>5. CASE pc' = pc /\ dbRun' = dbRun
    BY <1>5 DEF StatusFollowsPc
  <1> QED
    BY <1>1, <1>2, <1>3, <1>4, <1>5, LoopSteps, OutsideSteps DEF Next, Driver, Over

LEMMA QueueStep ==
  ASSUME TypeOK, TaskInv, QueueWhileExecuting, [Next]_vars
  PROVE  QueueWhileExecuting'
  <1>1. CASE LoadVersion \/ CreateRun \/ BeginRun \/ FinishDrain \/ SaveVerdict \/ CloseRun
    BY <1>1 DEF LoadVersion, CreateRun, BeginRun, FinishDrain, SaveVerdict, CloseRun,
         Drained, QueueWhileExecuting, Executing, storeVars
  <1>2. CASE Persist
    BY <1>2 DEF Persist, QueueWhileExecuting, driverVars
  <1>3. CASE pc' \in Executing
    BY <1>3 DEF QueueWhileExecuting
  <1>4. CASE pc' = pc /\ persistQ' = persistQ
    BY <1>4 DEF QueueWhileExecuting
  <1> QED
    BY <1>1, <1>2, <1>3, <1>4, LoopSteps, OutsideSteps DEF Next, Driver, Over

LEMMA ReportStep ==
  ASSUME TypeOK, StatusFollowsPc, CleanIsReportedLast, [Next]_vars
  PROVE  CleanIsReportedLast'
  <1>1. /\ runFail' # "no_end_reached"
        /\ runFail' # runFail => pc \in Executing \cup {"begin"}
    BY FailureKept DEF CleanIsReportedLast
  <1>2. ReportedClean => pc \in {"closing", "returned", "failed"} /\ runFail = None
                         /\ runFail' = None
    BY <1>1 DEF CleanIsReportedLast, Executing
  <1>3. CASE LoadVersion
    BY <1>2, <1>3 DEF LoadVersion, storeVars, verdictVars, ReportedClean, CleanIsReportedLast
  <1>4. CASE CreateRun \/ BeginRun
    <2>1. pc \in {"create", "begin"} /\ dbRun'.error = dbRun.error
          /\ (dbRun' = dbRun \/ dbRun'.status \in {"pending", "running"})
      BY <1>4 DEF CreateRun, BeginRun, TypeOK, Run
    <2>2. ~ReportedClean
      BY <1>2, <2>1
    <2>3. ~ReportedClean'
      BY <2>1, <2>2 DEF ReportedClean
    <2> QED
      BY <1>1, <2>3 DEF CleanIsReportedLast
  <1>5. CASE FinishDrain
    <2>1. pc = "draining" /\ dbRun' = dbRun
      BY <1>5 DEF FinishDrain
    <2> QED
      BY <1>1, <1>2, <2>1 DEF CleanIsReportedLast, ReportedClean
  <1>6. CASE SaveVerdict
    <2>1. /\ pc = "finalize" /\ pc' \in {"closing", "failed"} /\ runFail' = runFail
          /\ dbRun'.status = dbRun.status
      BY <1>6 DEF SaveVerdict, GiveUp, verdictVars, TypeOK, Run
    <2>2. dbRun'.error = dbRun.error \/ dbRun'.error = runFail
          \/ (runFail = None /\ dbRun'.error = "no_end_reached")
      BY <1>6 DEF SaveVerdict, TypeOK, Run
    <2> QED
      BY <1>1, <1>2, <2>1, <2>2 DEF CleanIsReportedLast, ReportedClean
  <1>7. CASE CloseRun
    <2>1. /\ pc = "closing" /\ pc' \in {"returned", "failed"} /\ runFail' = runFail
          /\ dbRun' = dbRun \/ (dbRun'.status = Verdict /\ dbRun'.error = dbRun.error)
      BY <1>7 DEF CloseRun, GiveUp, verdictVars, TypeOK, Run
    <2>2. Verdict \in {"success", "cancelled"} => runFail = None
      BY DEF Verdict
    <2> QED
      BY <1>1, <1>2, <2>1, <2>2 DEF CleanIsReportedLast, ReportedClean
  <1>8. CASE Persist
    BY <1>1, <1>8, PersistRun DEF CleanIsReportedLast, ReportedClean
  <1>9. CASE pc \in Executing /\ dbRun' = dbRun
    BY <1>1, <1>2, <1>9 DEF CleanIsReportedLast, ReportedClean, Executing
  <1>10. CASE pc' = pc /\ dbRun' = dbRun /\ runFail' = runFail
    BY <1>10 DEF CleanIsReportedLast, ReportedClean
  <1> QED
    BY <1>3, <1>4, <1>5, <1>6, <1>7, <1>8, <1>9, <1>10, LoopSteps, OutsideSteps
       DEF Next, Driver, Over

\* An error of the persister that the driver has not read is kept, or read.
LEMMA ErrorKept ==
  ASSUME [Next]_vars, persistErr
  PROVE  persistErr' \/ runFail' # None
  <1>1. "persistence_error" # None
    BY EngineAssumption DEF RunErrCodes
  <1>2. CASE UNCHANGED persistErr
    BY <1>2, Zenon
  <1>3. CASE PersistFailed
    BY <1>1, <1>3 DEF PersistFailed, RunFailAfterPersistErr
  <1>4. CASE FinishDrain
    BY <1>1, <1>4 DEF FinishDrain, RunFailAfterPersistErr
  <1>5. CASE Persist
    BY <1>5, Zenon DEF Persist, ErrReported
  <1>6. CASE \E n \in todo : TryAdvance(n)
    BY <1>2, <1>6 DEF TryAdvance
  <1>7. CASE \E r \in results : ReceiveResult(r)
    BY <1>2, <1>7 DEF ReceiveResult
  <1>8. CASE HandleCancelled \/ HandleRetry \/ HandleFailRun \/ HandlePropagate
    BY <1>2, <1>8 DEF HandleCancelled, HandleRetry, HandleFailRun, HandlePropagate, Handle
  <1>9. CASE \E rt \in retryCh : RetryDue(rt)
    BY <1>2, <1>9 DEF RetryDue
  <1>10. CASE LoadVersion \/ CreateRun \/ BeginRun \/ Settle \/ ContextDone \/ LeaveLoop
              \/ SaveVerdict \/ CloseRun
    BY <1>2, <1>10 DEF LoadVersion, CreateRun, BeginRun, Settle, ContextDone, LeaveLoop,
         SaveVerdict, CloseRun, storeVars
  <1>11. CASE (\E n \in Nodes : Worker(n) \/ RetryTimer(n)) \/ CallerCancels
              \/ UNCHANGED vars
    BY <1>2, <1>11, OutsideSteps
  <1> QED
    BY <1>3, <1>4, <1>5, <1>6, <1>7, <1>8, <1>9, <1>10, <1>11 DEF Next, Driver, Over

\* Where a fault comes from.
LEMMA FaultsOf ==
  ASSUME TypeOK, [Next]_vars, faults' # faults
  PROVE  pc' = "failed" \/ persistErr'
  <1>1. CASE CreateRun \/ BeginRun \/ SaveVerdict \/ CloseRun
    BY <1>1 DEF CreateRun, BeginRun, SaveVerdict, CloseRun, GiveUp
  <1>2. CASE Persist
    BY <1>2, Zenon DEF Persist, ErrReported
  <1>3. CASE LoadVersion \/ FinishDrain
    BY <1>3 DEF LoadVersion, FinishDrain, storeVars
  <1> QED
    BY <1>1, <1>2, <1>3, LoopSteps, OutsideSteps DEF Next, Driver, Over

\* Start has returned with an error: it stays so.
LEMMA FailedStays ==
  ASSUME QueueWhileExecuting, [Next]_vars, pc = "failed"
  PROVE  pc' = "failed"
  <1>1. CASE LoadVersion \/ CreateRun \/ BeginRun \/ FinishDrain \/ SaveVerdict \/ CloseRun
    BY <1>1 DEF LoadVersion, CreateRun, BeginRun, FinishDrain, SaveVerdict, CloseRun
  <1>2. CASE Persist
    BY <1>2 DEF Persist, driverVars
  <1>3. pc \notin Executing
    BY DEF Executing
  <1> QED
    BY <1>1, <1>2, <1>3, LoopSteps, OutsideSteps DEF Next, Driver, Over

LEMMA FaultStep ==
  ASSUME TypeOK, QueueWhileExecuting, FaultIsTold, [Next]_vars
  PROVE  FaultIsTold'
  <1>1. CASE faults' = faults
    <2>1. (faults > 0)' <=> faults > 0
      BY <1>1
    <2>2. faults > 0 => persistErr' \/ runFail' # None \/ pc' = "failed"
      BY FailureKept, ErrorKept, FailedStays, Zenon DEF FaultIsTold
    <2> QED
      BY <2>1, <2>2, Zenon DEF FaultIsTold
  <1>2. CASE faults' # faults
    BY <1>2, FaultsOf, Zenon DEF FaultIsTold
  <1> QED
    BY <1>1, <1>2

LEMMA RunRowStep ==
  ASSUME TypeOK, TaskInv, RunRowInv, [Next]_vars
  PROVE  RunRowInv'
  BY StatusStep, QueueStep, ReportStep, FaultStep, Zenon DEF RunRowInv

LEMMA RunRowAlways == Spec => []RunRowInv
  <1>1. TypeOK /\ TaskInv /\ RunRowInv /\ [Next]_vars => RunRowInv'
    BY RunRowStep
  <1> QED
    BY <1>1, TypeCorrect, TasksAlways, RunRowInit, PTL DEF Spec
-----------------------------------------------------------------------------
(***************************************************************************)
(* The history of a run without an error.                                  *)
(***************************************************************************)
LEMMA CleanBefore ==
  ASSUME [Next]_vars, Clean'
  PROVE  Clean
  BY FailureKept, ErrorKept, Zenon DEF Clean

\* A write that is applied without an error does all it is for.
LEMMA CleanWrite ==
  ASSUME TypeOK, RowsLegal, NEW op \in Op, LegalWrite(op), op.kind # "vars",
         NEW k \in 0..3, Applies(op, k), ~persistErr'
  PROVE  /\ op.node \in Nodes /\ op.attempt \in Attempts
         /\ OtherRows(op) /\ UNCHANGED <<dbRun, faults>>
         /\ LET old == rows[op.node][op.attempt]
                new == rows'[op.node][op.attempt] IN
            Inserted(op, old, new) \/ Closed(op, old, new)
  <1> DEFINE old == rows[op.node][op.attempt]
             new == rows'[op.node][op.attempt]
  <1>1. /\ op.node \in Nodes /\ op.attempt \in Attempts
        /\ OtherRows(op) /\ UNCHANGED dbRun
        /\ Left(op, old, new) \/ Inserted(op, old, new) \/ Closed(op, old, new)
    BY AppliedRow
  <1>2. Inserted(op, old, new) \/ Closed(op, old, new)
    BY <1>1, Zenon DEF Left
  <1>3. UNCHANGED faults
    BY <1>2 DEF Inserted, Closed
  <1> QED
    BY <1>1, <1>2, <1>3

\* What is stored or queued as ended stays so.
LEMMA EndedBySend ==
  ASSUME TypeOK, TypeOK', NEW n \in Nodes, NEW op \in Op, Sends(n, op), NEW m \in Nodes
  PROVE  \A a : /\ Ended(m, a) => Ended(m, a)'
                /\ m = n /\ op.kind = "finish" /\ op.attempt = a => Ended(m, a)'
  <1> TAKE a
  <1>1. rows' = rows
    BY DEF Sends
  <1>2. /\ \A i \in Finishes(m, a) : i \in Finishes(m, a)'
        /\ m = n /\ op.kind = "finish" /\ op.attempt = a => Finishes(m, a)' # {}
    BY KeptBySend
  <1> QED
    BY <1>1, <1>2 DEF Ended

LEMMA EndedByApply ==
  ASSUME TypeOK, TypeOK', WritesLegal, RowsLegal, NEW op \in Op,
         NEW k \in 0..3, Applies(op, k), ~persistErr', NEW m \in Nodes
  PROVE  \A a : Ended(m, a) => Ended(m, a)'
  <1> SUFFICES ASSUME NEW a, Ended(m, a) PROVE Ended(m, a)'
    OBVIOUS
  <1>1. 1 \in DOMAIN persistQ /\ persistQ[1] = op
    BY QueuedTyped DEF Applies
  <1>2. LegalWrite(op)
    BY <1>1 DEF WritesLegal
  <1>3. CASE op.kind = "vars"
    <2>1. rows' = rows
      BY <1>3 DEF Applies, Store
    <2>2. 1 \notin Finishes(m, a)
      BY <1>1, <1>3 DEF Finishes
    <2>3. \A i \in Finishes(m, a) : i - 1 \in Finishes(m, a)'
      BY <2>2, KeptByApply
    <2> QED
      BY <2>1, <2>3 DEF Ended
  <1>4. CASE op.kind # "vars"
    <2> DEFINE old == rows[op.node][op.attempt]
               new == rows'[op.node][op.attempt]
    <2>1. /\ op.node \in Nodes /\ op.attempt \in Attempts /\ OtherRows(op)
          /\ Inserted(op, old, new) \/ Closed(op, old, new)
      BY <1>2, <1>4, CleanWrite
    <2>2. Closed(op, old, new) => new.status \notin {"absent", "running"}
      BY <1>2 DEF Closed, LegalWrite, Ending
    <2>3. old.status \in {"absent", "running"}
      BY <2>1 DEF Inserted, Closed
    <2>4. CASE a \in Attempts /\ rows[m][a].status \notin {"absent", "running"}
      <3>1. m # op.node \/ a # op.attempt
        BY <2>3, <2>4
      <3>2. rows'[m][a] = rows[m][a]
        BY <2>1, <2>4, <3>1 DEF OtherRows
      <3> QED
        BY <2>4, <3>2 DEF Ended
    <2>5. ASSUME NEW i \in Finishes(m, a) PROVE Ended(m, a)'
      <3>1. CASE i # 1
        <4>1. i - 1 \in Finishes(m, a)'
          BY <3>1, KeptByApply
        <4> QED
          BY <4>1 DEF Ended
      <3>2. CASE i = 1
        <4>1. op.kind = "finish" /\ op.node = m /\ op.attempt = a
          BY <1>1, <2>5, <3>2 DEF Finishes, Queued
        <4> QED
          BY <2>1, <2>2, <4>1 DEF Ended, Inserted
      <3> QED
        BY <3>1, <3>2
    <2> QED
      BY <2>4, <2>5 DEF Ended
  <1> QED
    BY <1>3, <1>4

LEMMA EndsStep ==
  ASSUME TypeOK, TypeOK', WritesLegal, RowsLegal, EndsTold, ~persistErr',
         \/ Still
         \/ \E n \in Nodes, op \in Op : Starts(n, op) \/ GivesUp(n, op) \/ Ends(n, op)
         \/ Persist
  PROVE  EndsTold'
  <1> SUFFICES ASSUME NEW m \in Nodes, NEW a \in 1..attemptCounter'[m]
               PROVE  (a = attemptCounter'[m] /\ Alive(m)') \/ Ended(m, a)'
    BY DEF EndsTold
  <1>1. ASSUME SameNode(m), \A b : Ended(m, b) => Ended(m, b)'
        PROVE  (a = attemptCounter'[m] /\ Alive(m)') \/ Ended(m, a)'
    <2>1. (a = attemptCounter[m] /\ Alive(m)) \/ Ended(m, a)
      BY <1>1 DEF EndsTold, SameNode
    <2> QED
      BY <1>1, <2>1 DEF SameNode, Alive
  <1>2. CASE Still
    <2>1. \A b : Ended(m, b) => Ended(m, b)'
      BY <1>2 DEF Still, Ended, Finishes, Queued
    <2> QED
      BY <1>1, <1>2, <2>1 DEF Still
  <1>3. CASE Persist
    <2>1. PICK op \in Op, k \in 0..3 : Applies(op, k)
      BY <1>3, PersistApplies
    <2>2. SameNode(m)
      BY <2>1 DEF Applies
    <2>3. \A b : Ended(m, b) => Ended(m, b)'
      BY <2>1, EndedByApply
    <2> QED
      BY <1>1, <2>2, <2>3
  <1>4. ASSUME NEW n \in Nodes, NEW op \in Op,
               Starts(n, op) \/ GivesUp(n, op) \/ Ends(n, op)
        PROVE  (a = attemptCounter'[m] /\ Alive(m)') \/ Ended(m, a)'
    <2>1. Sends(n, op)
      BY <1>4 DEF Starts, GivesUp, Ends
    <2>2. \A b : /\ Ended(m, b) => Ended(m, b)'
                 /\ m = n /\ op.kind = "finish" /\ op.attempt = b => Ended(m, b)'
      BY <2>1, EndedBySend
    <2>3. CASE m # n
      BY <1>1, <2>1, <2>2, <2>3 DEF Sends
    <2>4. CASE m = n
      <3> PICK c \in Nat : c = attemptCounter[n]
        BY DEF TypeOK
      <3>1. \A b \in 1..c : (b = c /\ Alive(n)) \/ Ended(n, b)
        BY DEF EndsTold
      <3>2. CASE Starts(n, op)
        <4>1. ~Alive(n)
          BY <3>2 DEF Starts, Alive
        <4>2. attemptCounter'[n] = c + 1 /\ Alive(n)'
          BY <3>2 DEF Starts, Alive
        <4>3. CASE a = c + 1
          BY <2>4, <4>2, <4>3
        <4>4. CASE a # c + 1
          <5>1. a \in 1..c
            BY <2>4, <4>2, <4>4
          <5> QED
            BY <2>2, <2>4, <3>1, <4>1, <5>1
        <4> QED
          BY <4>3, <4>4
      <3>3. CASE GivesUp(n, op)
        <4>1. ~Alive(n) /\ attemptCounter'[n] = c
          BY <3>3 DEF GivesUp, Alive
        <4> QED
          BY <2>2, <2>4, <3>1, <4>1
      <3>4. CASE Ends(n, op)
        <4>1. attemptCounter'[n] = c /\ op.kind = "finish" /\ op.attempt = c
          BY <3>4 DEF Ends
        <4> QED
          BY <2>2, <2>4, <3>1, <4>1
      <3> QED
        BY <1>4, <3>2, <3>3, <3>4
    <2> QED
      BY <2>3, <2>4
  <1> QED
    BY <1>2, <1>3, <1>4

LEMMA VarsSend ==
  ASSUME TypeOK, TypeOK', VarsTold, NEW n \in Nodes, NEW op \in Op, Sends(n, op)
  PROVE  VarsTold'
  <1> DEFINE L == Len(persistQ)
             L2 == Len(persistQ')
  <1>1. /\ DOMAIN persistQ = 1..L /\ L \in Nat
        /\ DOMAIN persistQ' = 1..L2 /\ L2 \in Nat
    BY QueuedTyped, QueuedTypedNext
  <1>2. /\ L2 >= L + 1 /\ dbRun' = dbRun
        /\ \A i \in 1..L : persistQ'[i] = persistQ[i]
        /\ persistQ'[L + 1].kind # "vars"
        /\ \A i \in (L + 2)..L2 : persistQ'[i].kind = "vars" /\ persistQ'[i].vars = symVars'
        /\ symVars' # symVars => L2 > L + 1
    BY DEF Sends, Queues
  <1> HIDE DEF L, L2
  <1>3. CASE L2 > L + 1
    <2>1. L2 \in (L + 2)..L2 /\ L2 \in 1..L2
      BY <1>1, <1>3
    <2>2. L2 \in VarsWrites' /\ persistQ'[L2].vars = symVars'
      BY <1>1, <1>2, <2>1 DEF VarsWrites
    <2>3. \A j \in VarsWrites' : j <= L2
      BY <1>1 DEF VarsWrites
    <2> QED
      BY <2>2, <2>3 DEF VarsTold
  <1>4. CASE L2 = L + 1
    <2>1. symVars' = symVars
      BY <1>1, <1>2, <1>4
    <2>2. \A i : i \in VarsWrites' <=> i \in VarsWrites
      <3> TAKE i
      <3>1. i \in 1..L2 <=> i \in 1..L \/ i = L + 1
        BY <1>1, <1>4
      <3> QED
        BY <1>1, <1>2, <3>1 DEF VarsWrites
    <2>3. \A i \in VarsWrites : persistQ'[i] = persistQ[i]
      BY <1>1, <1>2 DEF VarsWrites
    <2>4. VarsWrites' = VarsWrites
      BY <2>2
    <2> QED
      BY <1>2, <2>1, <2>3, <2>4 DEF VarsTold
  <1> QED
    BY <1>1, <1>2, <1>3, <1>4

LEMMA VarsApply ==
  ASSUME TypeOK, TypeOK', VarsTold, WritesLegal, RowsLegal, NEW op \in Op,
         NEW k \in 0..3, Applies(op, k), ~persistErr'
  PROVE  VarsTold'
  <1>1. /\ 1 \in DOMAIN persistQ /\ persistQ[1] = op
        /\ DOMAIN persistQ = 1..Len(persistQ) /\ Len(persistQ) \in Nat
        /\ DOMAIN persistQ' = 1..Len(persistQ')
        /\ Len(persistQ') = Len(persistQ) - 1
        /\ \A i \in 1..Len(persistQ') : persistQ'[i] = persistQ[i + 1]
        /\ symVars' = symVars
    BY QueuedTyped, QueuedTypedNext DEF Applies
  <1>2. /\ \A i \in VarsWrites' : i \in Nat /\ i + 1 \in VarsWrites /\ persistQ'[i] = persistQ[i + 1]
        /\ \A i \in VarsWrites : i \in Nat /\ i >= 1
        /\ \A i \in VarsWrites :
             i # 1 => i - 1 \in VarsWrites' /\ persistQ'[i - 1] = persistQ[i]
    <2>1. \A i \in 1..Len(persistQ) : i # 1 => i - 1 \in 1..Len(persistQ') /\ (i - 1) + 1 = i
      BY <1>1
    <2>2. \A i \in 1..Len(persistQ') : i \in Nat /\ i + 1 \in 1..Len(persistQ)
      BY <1>1
    <2> QED
      BY <1>1, <2>1, <2>2 DEF VarsWrites
  <1>3. CASE \E i \in VarsWrites : i # 1
    <2>1. VarsWrites # {}
      BY <1>3
    <2>2. PICK i \in VarsWrites : /\ \A j \in VarsWrites : j <= i
                                  /\ persistQ[i].vars = symVars
      BY <2>1 DEF VarsTold
    <2>3. i # 1
      BY <1>2, <1>3, <2>2
    <2>4. i - 1 \in VarsWrites' /\ persistQ'[i - 1].vars = symVars'
      BY <1>1, <1>2, <2>2, <2>3
    <2>5. \A j \in VarsWrites' : j <= i - 1
      BY <1>2, <2>2
    <2> QED
      BY <2>4, <2>5 DEF VarsTold
  <1>4. CASE \A i \in VarsWrites : i = 1
    <2>1. VarsWrites' = {}
      <3> SUFFICES ASSUME NEW i \in VarsWrites' PROVE FALSE
        OBVIOUS
      <3>1. i \in Nat /\ i + 1 = 1
        BY <1>2, <1>4
      <3>2. i >= 1
        BY <1>1 DEF VarsWrites
      <3> QED
        BY <3>1, <3>2
    <2>2. CASE op.kind = "vars"
      <3>1. 1 \in VarsWrites
        BY <1>1, <2>2 DEF VarsWrites
      <3>2. op.vars = symVars
        BY <1>1, <1>4, <3>1 DEF VarsTold
      <3>3. k = 3
        <4>1. Accepted(op, k)
          BY DEF Applies
        <4>2. ~(k < 3)
          BY <4>1, Zenon DEF Accepted
        <4> QED
          BY <4>2
      <3>4. dbRun' = [dbRun EXCEPT !.vars = op.vars]
        BY <2>2, <3>3 DEF Applies, Store
      <3>5. dbRun'.vars = op.vars
        BY <3>4 DEF TypeOK, Run
      <3> QED
        BY <1>1, <2>1, <3>2, <3>5 DEF VarsTold
    <2>3. CASE op.kind # "vars"
      <3>1. VarsWrites = {}
        BY <1>1, <1>4, <2>3 DEF VarsWrites
      <3>2. dbRun' = dbRun
        BY <2>3 DEF Applies, Store
      <3> QED
        BY <1>1, <2>1, <3>1, <3>2 DEF VarsTold
    <2> QED
      BY <2>2, <2>3
  <1> QED
    BY <1>3, <1>4

LEMMA VarsStep ==
  ASSUME TypeOK, TypeOK', WritesLegal, RowsLegal, VarsTold, ~persistErr',
         \/ Still
         \/ \E n \in Nodes, op \in Op : Starts(n, op) \/ GivesUp(n, op) \/ Ends(n, op)
         \/ Persist
  PROVE  VarsTold'
  <1>1. CASE Still
    BY <1>1 DEF Still, VarsTold, VarsWrites
  <1>2. CASE \E n \in Nodes, op \in Op : Starts(n, op) \/ GivesUp(n, op) \/ Ends(n, op)
    BY <1>2, VarsSend DEF Starts, GivesUp, Ends
  <1>3. CASE Persist
    BY <1>3, PersistApplies, VarsApply
  <1> QED
    BY <1>1, <1>2, <1>3

\* The end that a node fired a port with, stored or queued.
Fires(n, a) ==
  \/ a \in Attempts /\ Propagated(rows[n][a])
  \/ \E i \in Finishes(n, a) : Propagated(persistQ[i].row)

LEMMA FiresBySend ==
  ASSUME TypeOK, TypeOK', NEW n \in Nodes, NEW op \in Op, Sends(n, op), NEW m \in Nodes
  PROVE  \A a : /\ Fires(m, a) => Fires(m, a)'
                /\ m = n /\ op.kind = "finish" /\ op.attempt = a /\ Propagated(op.row)
                     => Fires(m, a)'
  <1> TAKE a
  <1>1. rows' = rows
    BY DEF Sends
  <1>2. /\ \A i \in Finishes(m, a) : i \in Finishes(m, a)' /\ persistQ'[i] = persistQ[i]
        /\ m = n /\ op.kind = "finish" /\ op.attempt = a =>
             Len(persistQ) + 1 \in Finishes(m, a)' /\ persistQ'[Len(persistQ) + 1] = op
    BY KeptBySend
  <1> QED
    BY <1>1, <1>2 DEF Fires

LEMMA FiresByApply ==
  ASSUME TypeOK, TypeOK', WritesLegal, RowsLegal, NEW op \in Op,
         NEW k \in 0..3, Applies(op, k), ~persistErr', NEW m \in Nodes
  PROVE  \A a : Fires(m, a) => Fires(m, a)'
  <1> SUFFICES ASSUME NEW a, Fires(m, a) PROVE Fires(m, a)'
    OBVIOUS
  <1>1. 1 \in DOMAIN persistQ /\ persistQ[1] = op
    BY QueuedTyped DEF Applies
  <1>2. LegalWrite(op)
    BY <1>1 DEF WritesLegal
  <1>3. CASE op.kind = "vars"
    <2>1. rows' = rows
      BY <1>3 DEF Applies, Store
    <2>2. 1 \notin Finishes(m, a)
      BY <1>1, <1>3 DEF Finishes
    <2>3. \A i \in Finishes(m, a) : i - 1 \in Finishes(m, a)' /\ persistQ'[i - 1] = persistQ[i]
      BY <2>2, KeptByApply
    <2> QED
      BY <2>1, <2>3 DEF Fires
  <1>4. CASE op.kind # "vars"
    <2> DEFINE old == rows[op.node][op.attempt]
               new == rows'[op.node][op.attempt]
    <2>1. /\ op.node \in Nodes /\ op.attempt \in Attempts /\ OtherRows(op)
          /\ Inserted(op, old, new) \/ Closed(op, old, new)
      BY <1>2, <1>4, CleanWrite
    <2>2. Closed(op, old, new) /\ Propagated(op.row) => Propagated(new)
      BY DEF Closed, Propagated
    <2>3. ~Propagated(old)
      BY <2>1 DEF Inserted, Closed, Propagated
    <2>4. CASE a \in Attempts /\ Propagated(rows[m][a])
      <3>1. m # op.node \/ a # op.attempt
        BY <2>3, <2>4
      <3>2. rows'[m][a] = rows[m][a]
        BY <2>1, <2>4, <3>1 DEF OtherRows
      <3> QED
        BY <2>4, <3>2 DEF Fires
    <2>5. ASSUME NEW i \in Finishes(m, a), Propagated(persistQ[i].row)
          PROVE  Fires(m, a)'
      <3>1. CASE i # 1
        <4>1. i - 1 \in Finishes(m, a)' /\ persistQ'[i - 1] = persistQ[i]
          BY <3>1, KeptByApply
        <4> QED
          BY <2>5, <4>1 DEF Fires
      <3>2. CASE i = 1
        <4>1. op.kind = "finish" /\ op.node = m /\ op.attempt = a
          BY <1>1, <2>5, <3>2 DEF Finishes, Queued
        <4>2. Propagated(new)
          BY <1>1, <2>1, <2>2, <2>5, <3>2, <4>1 DEF Inserted
        <4> QED
          BY <2>1, <4>1, <4>2 DEF Fires
      <3> QED
        BY <3>1, <3>2
    <2> QED
      BY <2>4, <2>5 DEF Fires
  <1> QED
    BY <1>3, <1>4

LEMMA EndFires ==
  EndTold <=> (endHit # None => /\ endHit \in EndNodes
                                /\ attemptCounter[endHit] \in Attempts
                                /\ Fires(endHit, attemptCounter[endHit]))
  BY DEF EndTold, Fires

LEMMA EndToldStep ==
  ASSUME TypeOK, TypeOK', InTurn, WritesLegal, RowsLegal, EndTold, ~persistErr',
         \/ Still
         \/ \E n \in Nodes, op \in Op : Starts(n, op) \/ GivesUp(n, op) \/ Ends(n, op)
         \/ Persist
  PROVE  EndTold'
  <1>1. ASSUME endHit' = endHit,
               endHit # None => SameNode(endHit),
               endHit # None => \A a : Fires(endHit, a) => Fires(endHit, a)'
        PROVE  EndTold'
    <2> SUFFICES ASSUME endHit # None
                 PROVE  /\ endHit' \in EndNodes
                        /\ attemptCounter'[endHit'] \in Attempts
                        /\ Fires(endHit, attemptCounter[endHit])'
      BY <1>1 DEF EndTold, Fires
    <2>1. /\ endHit \in EndNodes /\ attemptCounter[endHit] \in Attempts
          /\ Fires(endHit, attemptCounter[endHit])
      BY EndFires
    <2>2. attemptCounter'[endHit] = attemptCounter[endHit]
      BY <1>1 DEF SameNode
    <2> PICK e \in EndNodes : e = endHit
      BY <2>1
    <2>3. Fires(e, attemptCounter[e])'
      BY <1>1, <2>1, <2>2
    <2>4. Fires(endHit, attemptCounter[endHit])'
      BY <1>1, <2>3
    <2> QED
      BY <1>1, <2>1, <2>2, <2>4
  <1>2. endHit # None => endHit \in Nodes /\ nodeStat[endHit] = "done"
    BY DEF InTurn, TypeOK
  <1>3. CASE Still
    <2>1. \A n, a : Fires(n, a) => Fires(n, a)'
      BY <1>3 DEF Still, Fires, Finishes, Queued
    <2> QED
      BY <1>1, <1>2, <1>3, <2>1 DEF Still
  <1>4. CASE Persist
    <2>1. PICK op \in Op, k \in 0..3 : Applies(op, k)
      BY <1>4, PersistApplies
    <2>2. endHit' = endHit /\ (endHit # None => SameNode(endHit))
      BY <1>2, <2>1 DEF Applies
    <2>3. \A m \in Nodes : \A a : Fires(m, a) => Fires(m, a)'
      BY <2>1, FiresByApply
    <2> QED
      BY <1>1, <1>2, <2>2, <2>3
  <1>5. ASSUME NEW n \in Nodes, NEW op \in Op,
               Starts(n, op) \/ GivesUp(n, op) \/ Ends(n, op)
        PROVE  EndTold'
    <2>1. Sends(n, op) /\ nodeStat[n] # "done"
      BY <1>5 DEF Starts, GivesUp, Ends, Alive
    <2>2. \A m \in Nodes : \A a :
            /\ Fires(m, a) => Fires(m, a)'
            /\ m = n /\ op.kind = "finish" /\ op.attempt = a /\ Propagated(op.row)
                 => Fires(m, a)'
      BY <2>1, FiresBySend
    <2>3. CASE endHit' = endHit
      <3>1. endHit # None => endHit \in Nodes \ {n}
        BY <1>2, <2>1
      <3> QED
        BY <1>1, <2>1, <2>2, <2>3, <3>1 DEF Sends
    <2>4. CASE endHit' # endHit
      <3>1. /\ endHit' = n /\ n \in EndNodes /\ Propagated(op.row)
            /\ op.kind = "finish" /\ op.attempt = attemptCounter[n]
            /\ attemptCounter'[n] = attemptCounter[n]
            /\ op.attempt \in 1..(MaxRetries[n] + 1)
        BY <1>5, <2>4 DEF Starts, GivesUp, Ends
      <3>2. op.attempt \in Attempts
        BY <3>1, InAttempts
      <3>3. Fires(n, op.attempt)'
        BY <2>2, <3>1
      <3>4. Fires(endHit, attemptCounter[endHit])'
        <4> PICK b \in Attempts : b = op.attempt
          BY <3>2
        <4>1. Fires(n, b)'
          BY <3>3
        <4> QED
          BY <3>1, <4>1 DEF Fires
      <3> QED
        BY <3>1, <3>2, <3>4 DEF EndTold, Fires
    <2> QED
      BY <2>3, <2>4
  <1> QED
    BY <1>3, <1>4, <1>5

LEMMA CleanInit == Init => CleanInv
  <1> SUFFICES ASSUME Init PROVE EndsTold /\ VarsTold /\ EndTold
    BY DEF CleanInv
  <1>1. /\ DOMAIN persistQ = {} /\ endHit = None /\ symVars = {} /\ dbRun.vars = {}
        /\ \A n \in Nodes : attemptCounter[n] = 0
    BY DEF Init
  <1> QED
    BY <1>1 DEF EndsTold, VarsTold, VarsWrites, EndTold

LEMMA CleanStep ==
  ASSUME TypeOK, TypeOK', TaskInv, DecisionInv, RowInv, CleanInv, [Next]_vars
  PROVE  CleanInv'
  <1> SUFFICES ASSUME Clean' PROVE EndsTold' /\ VarsTold' /\ EndTold'
    BY DEF CleanInv
  <1>1. EndsTold /\ VarsTold /\ EndTold
    BY CleanBefore DEF CleanInv
  <1>2. ~persistErr'
    BY Zenon DEF Clean
  <1>3. InTurn /\ WritesLegal /\ RowsLegal /\ ResultsPossible
    BY DEF RowInv
  <1>4. \/ Still
        \/ \E n \in Nodes, op \in Op : Starts(n, op) \/ GivesUp(n, op) \/ Ends(n, op)
        \/ Persist
    BY <1>3, StepKinds
  <1>5. EndsTold'
    BY <1>1, <1>2, <1>3, <1>4, EndsStep
  <1>6. VarsTold'
    BY <1>1, <1>2, <1>3, <1>4, VarsStep
  <1>7. EndTold'
    BY <1>1, <1>2, <1>3, <1>4, EndToldStep
  <1> QED
    BY <1>5, <1>6, <1>7

LEMMA CleanAlways == Spec => []CleanInv
  <1>1. TypeOK /\ TypeOK' /\ TaskInv /\ DecisionInv /\ RowInv /\ CleanInv /\ [Next]_vars
          => CleanInv'
    BY CleanStep
  <1> QED
    BY <1>1, TypeCorrect, TasksAlways, DecisionAlways, RowsAlways, CleanInit, PTL
       DEF Spec

\* What is known once nothing of the run is under way and no error is unread.
LEMMA NothingRuns ==
  ASSUME TaskInv, Tokens = {}
  PROVE  \A n \in Nodes : ~Alive(n) /\ ~Retrying(n)
  BY DEF TaskInv, OneAttemptAtATime, Alive, Retrying

LEMMA RowsAtEnd ==
  ASSUME TypeOK, TaskInv, EndInv, RowInv, CleanInv, runFail = None,
         pc \in {"finalize", "closing", "returned", "failed"}
  PROVE  /\ Clean /\ EndsTold /\ VarsTold /\ EndTold
         /\ persistQ = <<>> /\ Tokens = {} /\ \A n : Queued(n) = {}
         /\ \A n \in Nodes, a \in Attempts :
              /\ rows[n][a].status # "running"
              /\ a <= attemptCounter[n] => rows[n][a].status # "absent"
         /\ dbRun.vars = symVars
  <1>1. persistQ = <<>> /\ Tokens = {}
    BY DEF EndInv, NothingMore, NothingLeftBehind
  <1>2. Clean
    BY Zenon DEF EndInv, NothingLeftBehind, Clean
  <1>3. EndsTold /\ VarsTold /\ EndTold
    BY <1>2 DEF CleanInv
  <1>4. DOMAIN persistQ = {}
    BY <1>1
  <1>5. \A n : Queued(n) = {}
    BY <1>4 DEF Queued
  <1>6. ASSUME NEW n \in Nodes, NEW a \in Attempts, a <= attemptCounter[n]
        PROVE  rows[n][a].status \notin {"absent", "running"}
    <2>1. a \in 1..attemptCounter[n]
      BY <1>6, AttemptsNat DEF TypeOK
    <2>2. Ended(n, a)
      BY <1>1, <1>3, <2>1, NothingRuns DEF EndsTold
    <2> QED
      BY <1>5, <2>2 DEF Ended, Finishes
  <1>7. ASSUME NEW n \in Nodes, NEW a \in Attempts, rows[n][a].status = "running"
        PROVE  FALSE
    BY <1>6, <1>7 DEF RowInv, RowsLegal, LegalRow
  <1>8. dbRun.vars = symVars
    BY <1>3, <1>4 DEF VarsTold, VarsWrites
  <1> QED
    BY <1>1, <1>2, <1>3, <1>5, <1>6, <1>7, <1>8

LEMMA ReportIsComplete ==
  ASSUME TypeOK, TaskInv, EndInv, RowInv, RunRowInv, CleanInv
  PROVE  HistoryComplete
  <1> SUFFICES ASSUME ReportedClean
               PROVE  /\ \A n \in Nodes, a \in Attempts :
                           /\ rows[n][a].status # "running"
                           /\ a <= attemptCounter[n] => rows[n][a].status # "absent"
                      /\ dbRun.vars = symVars
    BY DEF HistoryComplete, ReportedClean
  <1>1. runFail = None /\ pc \in {"finalize", "closing", "returned", "failed"}
    BY DEF RunRowInv, CleanIsReportedLast
  <1> QED
    BY <1>1, RowsAtEnd

(***************************************************************************)
(* A run reported as success or cancelled, or as having reached no End,    *)
(* has a complete history, whatever the database did on the way: a row for *)
(* every attempt, none left running, and the last variables.               *)
(***************************************************************************)
THEOREM HistoryIsComplete == Spec => []HistoryComplete
  <1>1. TypeOK /\ TaskInv /\ EndInv /\ RowInv /\ RunRowInv /\ CleanInv => HistoryComplete
    BY ReportIsComplete
  <1> QED
    BY <1>1, TypeCorrect, TasksAlways, EndAlways, RowsAlways, RunRowAlways, CleanAlways,
       PTL
-----------------------------------------------------------------------------
(***************************************************************************)
(* The End of a run that is a success.                                     *)
(***************************************************************************)
\* GetLatestNodeRun finds the row the End was reached with.
LEMMA LatestOfEnd ==
  ASSUME TypeOK, TaskInv, EndInv, RowInv, CleanInv, runFail = None, endHit # None,
         pc \in {"finalize", "closing", "returned", "failed"}
  PROVE  LET c == attemptCounter[endHit] IN
         /\ endHit \in EndNodes /\ endHit \in Nodes /\ c \in Attempts
         /\ Latest(endHit) = {c} /\ Propagated(rows[endHit][c])
  <1> DEFINE c == attemptCounter[endHit]
  <1>1. /\ EndTold /\ InTurn /\ \A n : Queued(n) = {}
        /\ \A n \in Nodes : ~Retrying(n)
    BY RowsAtEnd, NothingRuns DEF RowInv
  <1>2. endHit \in EndNodes /\ endHit \in Nodes /\ c \in Attempts
    BY <1>1, GraphAssumption DEF EndTold, TypeOK
  <1>3. Propagated(rows[endHit][c])
    BY <1>1 DEF EndTold, Finishes
  <1>4. c \in Recorded(endHit)
    BY <1>2, <1>3 DEF Propagated, Recorded
  <1>5. \A a \in Recorded(endHit) : a \in Attempts /\ a \in Nat /\ a <= c
    <2> SUFFICES ASSUME NEW a \in Recorded(endHit)
                 PROVE  a \in Attempts /\ a \in Nat /\ a <= c
      OBVIOUS
    <2>1. a \in Attempts /\ a \in Nat /\ c \in Nat /\ rows[endHit][a].status # "absent"
      BY <1>2, AttemptsNat DEF Recorded
    <2>2. RowTurn(endHit, a) <= Clock(endHit)
      BY <1>1, <1>2, <2>1 DEF InTurn, BehindClock
    <2>3. RowTurn(endHit, a) >= 2 * a /\ RowTurn(endHit, a) \in Nat
      BY <1>2, <2>1 DEF RowTurn
    <2>4. Clock(endHit) <= 2 * c + 1 /\ Clock(endHit) \in Nat
      BY <2>1 DEF Clock
    <2> HIDE DEF c
    <2> QED
      BY <2>1, <2>2, <2>3, <2>4
  <1>6. \A a : a \in Latest(endHit) <=> a = c
    <2> HIDE DEF c
    <2>1. c \in Latest(endHit)
      BY <1>4, <1>5 DEF Latest
    <2>2. ASSUME NEW a \in Latest(endHit) PROVE a = c
      <3>1. a \in Recorded(endHit) /\ c <= a
        BY <1>4, <2>2 DEF Latest
      <3> QED
        BY <1>4, <1>5, <3>1
    <2> QED
      BY <2>1, <2>2
  <1>7. Latest(endHit) = {c}
    BY <1>6
  <1> QED
    BY <1>2, <1>3, <1>7

LEMMA SuccessInit == Init => SuccessInv
  <1>1. Init => pc # "closing" /\ dbRun.status # "success"
    BY DEF Init
  <1> QED
    BY <1>1 DEF SuccessInv, Succeeds

LEMMA SuccessStep ==
  ASSUME TypeOK, RunRowInv, SuccessInv, [Next]_vars
  PROVE  SuccessInv'
  <1>1. /\ pc \in Executing \cup {"finalize", "closing"} => dbRun.status # "success"
        /\ pc \in {"load", "create", "begin"} => dbRun.status # "success"
        /\ persistQ # <<>> => pc \in Executing
    BY DEF RunRowInv, StatusFollowsPc, QueueWhileExecuting
  <1>2. CASE SaveVerdict
    <2>1. /\ pc = "finalize" /\ dbRun'.status = dbRun.status
          /\ UNCHANGED <<rows, endHit, runFail, cancelled>>
      BY <1>2 DEF SaveVerdict, verdictVars, TypeOK, Run
    <2>2. dbRun'.status # "success"
      BY <1>1, <2>1
    <2> SUFFICES ASSUME pc' = "closing", Verdict = "success" PROVE SuccessInv'
      BY <2>1, <2>2 DEF SuccessInv, Succeeds, Verdict
    <2>3. endHit # None
      BY DEF Verdict
    <2>4. PICK a \in Latest(endHit) :
            dbRun' = [dbRun EXCEPT !.endNode = endHit, !.output = rows[endHit][a].resolved]
      BY <1>2 DEF SaveVerdict, GiveUp
    <2>5. dbRun'.endNode = endHit /\ dbRun'.output = rows[endHit][a].resolved
      BY <2>4 DEF TypeOK, Run
    <2>6. Latest(endHit)' = Latest(endHit)
      BY <2>1 DEF Latest, Recorded
    <2> QED
      BY <2>1, <2>3, <2>4, <2>5, <2>6 DEF SuccessInv
  <1>3. CASE CloseRun
    <2>1. /\ pc = "closing" /\ pc' # "closing" /\ UNCHANGED <<rows, endHit>>
          /\ dbRun'.endNode = dbRun.endNode /\ dbRun'.output = dbRun.output
          /\ dbRun'.status = dbRun.status \/ dbRun'.status = Verdict
      BY <1>3 DEF CloseRun, GiveUp, verdictVars, TypeOK, Run
    <2>2. dbRun'.status = "success" => Succeeds
      BY <2>1 DEF Succeeds
    <2> QED
      BY <2>1, <2>2 DEF SuccessInv, Succeeds, Latest, Recorded
  <1>4. CASE Persist
    <2>1. pc' \in Executing /\ dbRun'.status # "success"
      BY <1>1, <1>4, PersistRun DEF Persist
    <2> QED
      BY <2>1 DEF SuccessInv, Succeeds, Executing
  <1>5. CASE LoadVersion \/ CreateRun \/ BeginRun \/ FinishDrain
    <2>1. pc' # "closing" /\ dbRun'.status # "success"
      BY <1>1, <1>5 DEF LoadVersion, CreateRun, BeginRun, FinishDrain, GiveUp, storeVars,
           Executing, TypeOK, Run
    <2> QED
      BY <2>1 DEF SuccessInv, Succeeds
  <1>6. CASE pc \in Executing /\ pc' \in Executing /\ dbRun' = dbRun
    BY <1>1, <1>6 DEF SuccessInv, Succeeds, Executing
  <1>7. CASE UNCHANGED <<pc, runFail, cancelled, endHit, dbRun, rows>>
    BY <1>7 DEF SuccessInv, Succeeds, Verdict, Latest, Recorded
  <1> QED
    BY <1>2, <1>3, <1>4, <1>5, <1>6, <1>7, LoopSteps, OutsideSteps
       DEF Next, Driver, Over

LEMMA SuccessAlways == Spec => []SuccessInv
  <1>1. TypeOK /\ RunRowInv /\ SuccessInv /\ [Next]_vars => SuccessInv'
    BY SuccessStep
  <1> QED
    BY <1>1, TypeCorrect, RunRowAlways, SuccessInit, PTL DEF Spec

(***************************************************************************)
(* A run reported as success ended at an End whose last row was ended by   *)
(* propagating, and its output is that row's.                              *)
(***************************************************************************)
THEOREM SuccessIsAnEnd == Spec => []SuccessHasItsEnd
  <1>1. TypeOK /\ TaskInv /\ EndInv /\ RowInv /\ RunRowInv /\ CleanInv /\ SuccessInv
          => SuccessHasItsEnd
    <2> SUFFICES ASSUME TypeOK, TaskInv, EndInv, RowInv, RunRowInv, CleanInv, SuccessInv,
                        dbRun.status = "success"
                 PROVE  SuccessHasItsEnd
      BY DEF SuccessHasItsEnd
    <2>1. runFail = None /\ pc \in {"finalize", "closing", "returned", "failed"}
      BY DEF RunRowInv, CleanIsReportedLast, ReportedClean
    <2>2. /\ endHit # None /\ dbRun.endNode = endHit
          /\ \E a \in Latest(endHit) : dbRun.output = rows[endHit][a].resolved
      BY DEF SuccessInv, Succeeds
    <2>3. /\ endHit \in EndNodes
          /\ Latest(endHit) = {attemptCounter[endHit]}
          /\ Propagated(rows[endHit][attemptCounter[endHit]])
      BY <2>1, <2>2, LatestOfEnd
    <2> QED
      BY <2>2, <2>3 DEF SuccessHasItsEnd, Propagated
  <1> QED
    BY <1>1, TypeCorrect, TasksAlways, EndAlways, RowsAlways, RunRowAlways, CleanAlways,
       SuccessAlways, PTL
-----------------------------------------------------------------------------
(***************************************************************************)
(* Without a database failure no write is refused.                         *)
(***************************************************************************)
LEMMA AcceptsAll ==
  ASSUME Marshals, TypeOK, RowInv, StoryInv, faults = 0, faults' = 0,
         ~persistErr, Persist
  PROVE  ~persistErr'
  <1>1. InTurn /\ WritesLegal /\ RowsLegal
    BY DEF RowInv
  <1>2. PICK op \in Op, k \in 0..3 : Applies(op, k)
    BY PersistApplies
  <1>3. 1 \in DOMAIN persistQ /\ persistQ[1] = op /\ Accepted(op, k)
    BY <1>2, QueuedTyped DEF Applies
  <1>4. LegalWrite(op)
    BY <1>1, <1>3 DEF WritesLegal
  <1>5. CASE op.kind = "vars"
    <2>1. WritesAccepted(op) = 3
      BY <1>5 DEF WritesAccepted
    <2> QED
      <3>1. faults' # faults + 1
        OBVIOUS
      <3>2. ~(WritesAccepted(op) < 3)
        BY <2>1
      <3> QED
        BY <1>3, <3>1, <3>2, Zenon DEF Accepted
  <1>6. CASE op.kind # "vars"
    <2> DEFINE old == rows[op.node][op.attempt]
               new == rows'[op.node][op.attempt]
    <2>1. /\ op.node \in Nodes /\ op.attempt \in Attempts
          /\ Left(op, old, new) \/ Inserted(op, old, new) \/ Closed(op, old, new)
      BY <1>1, <1>2, <1>4, <1>6, AppliedRow
    <2>2. /\ op.kind = "append" => old.status = "absent"
          /\ op.kind = "finish" => old.status = "running"
      BY <1>1, <1>3, <1>4, <1>6, <2>1, FindsItsRow DEF StoryInv
    <2>3. op.kind = "finish" => op.row.port # "unserializable"
      BY <1>4, <2>1 DEF LegalWrite, Ending, Marshals
    <2>4. op.kind \in {"append", "finish"}
      BY <1>6 DEF Op
    <2>5. ~Left(op, old, new)
      BY <2>2, <2>3, <2>4 DEF Left
    <2> QED
      BY <2>1, <2>5, Zenon DEF Inserted, Closed
  <1> QED
    BY <1>5, <1>6

LEMMA NoErrorAppears ==
  ASSUME ~persistErr, [Next]_vars, ~Persist
  PROVE  ~persistErr'
  <1>1. CASE UNCHANGED persistErr
    BY <1>1, Zenon
  <1>2. CASE PersistFailed \/ FinishDrain
    BY <1>2 DEF PersistFailed, FinishDrain
  <1>3. CASE \E n \in todo : TryAdvance(n)
    BY <1>1, <1>3 DEF TryAdvance
  <1>4. CASE \E r \in results : ReceiveResult(r)
    BY <1>1, <1>4 DEF ReceiveResult
  <1>5. CASE HandleCancelled \/ HandleRetry \/ HandleFailRun \/ HandlePropagate
    BY <1>1, <1>5 DEF HandleCancelled, HandleRetry, HandleFailRun, HandlePropagate, Handle
  <1>6. CASE \E rt \in retryCh : RetryDue(rt)
    BY <1>1, <1>6 DEF RetryDue
  <1>7. CASE LoadVersion \/ CreateRun \/ BeginRun \/ Settle \/ ContextDone \/ LeaveLoop
             \/ SaveVerdict \/ CloseRun
    BY <1>1, <1>7 DEF LoadVersion, CreateRun, BeginRun, Settle, ContextDone, LeaveLoop,
         SaveVerdict, CloseRun, storeVars
  <1>8. CASE (\E n \in Nodes : Worker(n) \/ RetryTimer(n)) \/ CallerCancels
             \/ UNCHANGED vars
    BY <1>1, <1>8, OutsideSteps
  <1> QED
    BY <1>2, <1>3, <1>4, <1>5, <1>6, <1>7, <1>8 DEF Next, Driver, Over

\* The persister's error is the only one of that name.
LEMMA ErrorIsThePersisters ==
  ASSUME TypeOK, [Next]_vars, ~persistErr, runFail # "persistence_error"
  PROVE  runFail' # "persistence_error"
  <1>1. CASE runFail' = runFail
    BY <1>1
  <1>2. CASE BeginRun
    BY <1>2 DEF BeginRun
  <1>3. CASE HandleFailRun
    BY <1>3 DEF HandleFailRun
  <1>4. CASE PersistFailed \/ FinishDrain
    BY <1>4 DEF PersistFailed, FinishDrain, RunFailAfterPersistErr
  <1>5. CASE \E n \in todo : TryAdvance(n)
    BY <1>1, <1>5 DEF TryAdvance, verdictVars
  <1>6. CASE \E r \in results : ReceiveResult(r)
    BY <1>1, <1>6 DEF ReceiveResult
  <1>7. CASE HandleCancelled \/ HandleRetry \/ HandlePropagate
    BY <1>1, <1>7 DEF HandleCancelled, HandleRetry, HandlePropagate
  <1>8. CASE \E rt \in retryCh : RetryDue(rt)
    BY <1>1, <1>8 DEF RetryDue, verdictVars
  <1>9. CASE LoadVersion \/ CreateRun \/ Settle \/ ContextDone \/ LeaveLoop
             \/ SaveVerdict \/ CloseRun \/ Persist
    BY <1>1, <1>9 DEF LoadVersion, CreateRun, Settle, ContextDone, LeaveLoop,
         SaveVerdict, CloseRun, Persist, driverVars, verdictVars
  <1>10. CASE (\E n \in Nodes : Worker(n) \/ RetryTimer(n)) \/ CallerCancels
              \/ UNCHANGED vars
    BY <1>1, <1>10, OutsideSteps
  <1> QED
    BY <1>2, <1>3, <1>4, <1>5, <1>6, <1>7, <1>8, <1>9, <1>10 DEF Next, Driver, Over

\* Start fails after the run was created only when the database does.
LEMMA FailsByFault ==
  ASSUME TypeOK, TaskInv, EndInv, RowInv, RunRowInv, CleanInv, [Next]_vars,
         faults = 0, faults' = 0, pc = "failed" => dbRun.status = "absent",
         pc' = "failed"
  PROVE  dbRun'.status = "absent"
  <1>1. faults' # faults + 1
    OBVIOUS
  <1>2. CASE LoadVersion
    BY <1>2 DEF LoadVersion, storeVars, RunRowInv, StatusFollowsPc
  <1>3. CASE CreateRun \/ BeginRun \/ CloseRun
    BY <1>1, <1>3 DEF CreateRun, BeginRun, CloseRun, GiveUp
  <1>4. CASE SaveVerdict
    <2>1. pc = "finalize" /\ Verdict = "success" /\ Latest(endHit) = {}
      BY <1>1, <1>4 DEF SaveVerdict, GiveUp
    <2>2. runFail = None /\ endHit # None
      BY <2>1 DEF Verdict
    <2> QED
      BY <2>1, <2>2, LatestOfEnd
  <1>5. CASE FinishDrain
    BY <1>5 DEF FinishDrain
  <1>6. CASE Persist
    BY <1>6, PersistRun
  <1>7. CASE pc' \in Executing
    BY <1>7 DEF Executing
  <1>8. CASE pc' = pc /\ dbRun' = dbRun
    BY <1>8
  <1> QED
    BY <1>2, <1>3, <1>4, <1>5, <1>6, <1>7, <1>8, LoopSteps, OutsideSteps
       DEF Next, Driver, Over

LEMMA RefusalStep ==
  ASSUME Marshals, TypeOK, TaskInv, EndInv, RowInv, StoryInv, RunRowInv, CleanInv,
         NoRefusedWrite, [Next]_vars
  PROVE  NoRefusedWrite'
  <1> SUFFICES ASSUME faults' = 0
               PROVE  /\ ~persistErr' /\ runFail' # "persistence_error"
                      /\ pc' = "failed" => dbRun'.status = "absent"
    BY Zenon DEF NoRefusedWrite
  <1>1. faults = 0
    BY FaultsGrow DEF TypeOK
  <1>2. ~persistErr /\ runFail # "persistence_error"
        /\ (pc = "failed" => dbRun.status = "absent")
    BY <1>1, Zenon DEF NoRefusedWrite
  <1>3. ~persistErr'
    BY <1>1, <1>2, AcceptsAll, NoErrorAppears, Zenon
  <1>4. runFail' # "persistence_error"
    BY <1>2, ErrorIsThePersisters
  <1>5. pc' = "failed" => dbRun'.status = "absent"
    BY <1>1, <1>2, FailsByFault
  <1> QED
    BY <1>3, <1>4, <1>5

LEMMA RefusalInit == Init => NoRefusedWrite
  <1>1. Init => ~persistErr
    BY Zenon DEF Init
  <1>2. Init => runFail # "persistence_error" /\ pc # "failed"
    BY EngineAssumption DEF Init, RunErrCodes
  <1> QED
    BY <1>1, <1>2, Zenon DEF NoRefusedWrite

(***************************************************************************)
(* When every output marshals, the engine never asks the database for      *)
(* something it refuses: a persistence_error, and an error that Start      *)
(* returns once the run exists, mean that the database failed.             *)
(***************************************************************************)
THEOREM NoWriteIsRefused ==
  ASSUME Marshals
  PROVE  Spec => []NoRefusedWrite
  <1>1. TypeOK /\ TaskInv /\ EndInv /\ RowInv /\ StoryInv /\ RunRowInv /\ CleanInv
          /\ NoRefusedWrite /\ [Next]_vars => NoRefusedWrite'
    BY RefusalStep
  <1> QED
    BY <1>1, TypeCorrect, TasksAlways, EndAlways, RowsAlways, StoryAlways, RunRowAlways,
       CleanAlways, RefusalInit, PTL DEF Spec
-----------------------------------------------------------------------------
(***************************************************************************)
(* The rows are a history that RunHistory allows.                          *)
(***************************************************************************)
Table == [n \in Nodes |-> [a \in Attempts |-> rows[n][a].status]]

LEMMA HistoryInit == Init => History!Init
  <1> SUFFICES ASSUME Init PROVE History!Init
    OBVIOUS
  <1>1. dbRun.status = "absent" /\ (faults > 0) = FALSE
    BY DEF Init
  <1>2. \A n \in Nodes, a \in Attempts : rows[n][a].status = "absent"
    BY DEF Init, EmptyRow
  <1>3. Table = [n \in Nodes |-> [a \in Attempts |-> "absent"]]
    BY <1>2 DEF Table
  <1> QED
    BY <1>1, <1>3 DEF History!Init, Table

\* The steps the history does not see.
LEMMA HistoryStutters ==
  ASSUME \A n \in Nodes, a \in Attempts : rows'[n][a].status = rows[n][a].status,
         dbRun'.status = dbRun.status, faults' = faults
  PROVE  UNCHANGED History!hvars
  <1>1. Table' = Table
    BY DEF Table
  <1> QED
    BY <1>1 DEF History!hvars, Table

LEMMA HistoryLoses ==
  ASSUME TypeOK, \A n \in Nodes, a \in Attempts : rows'[n][a].status = rows[n][a].status,
         dbRun'.status = dbRun.status, faults' = faults + 1
  PROVE  History!LoseWrite
  <1>1. Table' = Table
    BY DEF Table
  <1>2. (faults' > 0) = TRUE
    BY DEF TypeOK
  <1> QED
    BY <1>1, <1>2 DEF History!LoseWrite, Table

\* A table that differs from another in one cell is that table, updated there.
LEMMA OneCell ==
  ASSUME NEW M, NEW B, NEW t, NEW u, NEW n \in M, NEW a \in B, NEW s,
         t = [m \in M |-> [b \in B |-> t[m][b]]],
         u = [m \in M |-> [b \in B |-> u[m][b]]],
         \A m \in M, b \in B : u[m][b] = IF m = n /\ b = a THEN s ELSE t[m][b]
  PROVE  u = [t EXCEPT ![n][a] = s]
  <1> DEFINE row(m) == [b \in B |-> u[m][b]]
  <1>1. \A m \in M : m # n => row(m) = t[m]
    OBVIOUS
  <1>2. row(n) = [t[n] EXCEPT ![a] = s]
    OBVIOUS
  <1>3. [t EXCEPT ![n][a] = s] = [m \in M |-> IF m = n THEN [t[n] EXCEPT ![a] = s] ELSE t[m]]
    OBVIOUS
  <1>4. u = [m \in M |-> row(m)]
    OBVIOUS
  <1> HIDE DEF row
  <1> QED
    BY <1>1, <1>2, <1>3, <1>4

LEMMA HistoryPersist ==
  ASSUME TypeOK, RowInv, RunRowInv, AttemptStory', Persist
  PROVE  History!Next \/ UNCHANGED History!hvars
  <1>1. InTurn /\ WritesLegal /\ RowsLegal
    BY DEF RowInv
  <1>2. PICK op \in Op, k \in 0..3 : Applies(op, k)
    BY PersistApplies
  <1>3. 1 \in DOMAIN persistQ /\ persistQ[1] = op /\ LegalWrite(op)
    <2>1. 1 \in DOMAIN persistQ /\ persistQ[1] = op
      BY <1>2, QueuedTyped DEF Applies
    <2> QED
      BY <1>1, <2>1 DEF WritesLegal
  <1>4. dbRun.status = "running" /\ dbRun'.status = dbRun.status
    BY PersistRun DEF Persist, RunRowInv, QueueWhileExecuting, StatusFollowsPc
  <1>5. faults' = faults \/ faults' = faults + 1
    BY <1>2, Zenon DEF Applies, Accepted
  <1>6. CASE \A n \in Nodes, a \in Attempts : rows'[n][a].status = rows[n][a].status
    BY <1>4, <1>5, <1>6, HistoryStutters, HistoryLoses DEF History!Next
  <1>7. CASE op.kind = "vars"
    BY <1>2, <1>6, <1>7 DEF Applies, Store
  <1>8. CASE op.kind # "vars"
    <2> DEFINE n == op.node
               a == op.attempt
               s == op.row.status
               old == rows[n][a]
               new == rows'[n][a]
    <2>1. /\ n \in Nodes /\ a \in Attempts /\ OtherRows(op)
          /\ Left(op, old, new) \/ Inserted(op, old, new) \/ Closed(op, old, new)
      BY <1>1, <1>2, <1>3, <1>8, AppliedRow
    <2>2. CASE Left(op, old, new)
      <3>1. \A m \in Nodes, b \in Attempts : rows'[m][b].status = rows[m][b].status
        BY <2>1, <2>2 DEF Left, OtherRows
      <3> QED
        BY <1>6, <3>1
    <2>3. ASSUME new.status = s
          PROVE  Table' = [Table EXCEPT ![n][a] = s]
      <3>1. \A m \in Nodes, b \in Attempts :
              rows'[m][b].status = IF m = n /\ b = a THEN s ELSE rows[m][b].status
        BY <2>1, <2>3 DEF OtherRows
      <3>2. \A m \in Nodes, b \in Attempts :
              Table'[m][b] = IF m = n /\ b = a THEN s ELSE Table[m][b]
        BY <3>1 DEF Table
      <3>3. /\ Table = [m \in Nodes |-> [b \in Attempts |-> Table[m][b]]]
            /\ Table' = [m \in Nodes |-> [b \in Attempts |-> Table'[m][b]]]
        BY DEF Table
      <3> HIDE DEF n, a, s
      <3> QED
        BY <2>1, <3>2, <3>3, OneCell
    <2>4. CASE Inserted(op, old, new)
      <3>1. /\ Insertion(op) /\ s \in {"running", "skipped", "cancelled"}
            /\ s = "skipped" => a = 1
            /\ s = "cancelled" => a > 1
            /\ old.status = "absent" /\ new.status = s /\ s # "absent"
            /\ faults' = faults
            /\ a <= MaxRetries[n] + 1
        BY <1>3, <2>4 DEF Inserted, LegalWrite, Insertion
      <3>2. a > 1 => faults > 0 \/ rows[n][a - 1].status = "failed"
        <4> SUFFICES ASSUME a > 1, ~(faults > 0) PROVE rows[n][a - 1].status = "failed"
          OBVIOUS
        <4>1. faults' = 0
          BY <3>1 DEF TypeOK
        <4>2. rows'[n][a - 1].status = "failed"
          BY <2>1, <3>1, <4>1 DEF AttemptStory
        <4>3. a - 1 \in Attempts /\ a - 1 # a
          BY <2>1, <3>1, AttemptsNat, InAttempts, PolicyAssumption
        <4> QED
          BY <2>1, <4>2, <4>3 DEF OtherRows
      <3>3. Table' = [Table EXCEPT ![n][a] = s]
        BY <2>3, <3>1
      <3>4. a > 1 => a - 1 \in Attempts
        BY <2>1, <3>1, AttemptsNat, InAttempts, PolicyAssumption
      <3>5. Table[n][a] = "absent" /\ (a > 1 => faults > 0 \/ Table[n][a - 1] = "failed")
        BY <2>1, <3>1, <3>2, <3>4 DEF Table
      <3> HIDE DEF n, a, s
      <3>6. History!NewRow(n, a, s)
        BY <1>4, <3>1, <3>3, <3>5 DEF History!NewRow, Table
      <3> QED
        BY <2>1, <3>1, <3>6 DEF History!Next
    <2>5. CASE Closed(op, old, new)
      <3>1. /\ s \in {"success", "failed", "cancelled"}
            /\ old.status = "running" /\ new.status = s /\ faults' = faults
        BY <1>3, <2>5 DEF Closed, LegalWrite, Ending
      <3>2. Table' = [Table EXCEPT ![n][a] = s] /\ Table[n][a] = "running"
        BY <2>1, <2>3, <3>1 DEF Table
      <3> HIDE DEF n, a, s
      <3>3. History!FinishRow(n, a, s)
        BY <1>4, <3>1, <3>2 DEF History!FinishRow, Table
      <3> QED
        BY <2>1, <3>1, <3>3 DEF History!Next
    <2> QED
      BY <2>1, <2>2, <2>4, <2>5
  <1> QED
    BY <1>7, <1>8

LEMMA HistoryClose ==
  ASSUME TypeOK, TaskInv, EndInv, RowInv, RunRowInv, CleanInv, CloseRun
  PROVE  History!Next \/ UNCHANGED History!hvars
  <1>1. pc = "closing" /\ rows' = rows /\ dbRun.status = "running"
    BY DEF CloseRun, RunRowInv, StatusFollowsPc
  <1>2. CASE faults' = faults + 1 /\ dbRun' = dbRun
    BY <1>1, <1>2, HistoryLoses DEF History!Next
  <1>3. CASE dbRun' = [dbRun EXCEPT !.status = Verdict] /\ faults' = faults
    <2>1. Verdict \in {"success", "failed", "cancelled"} /\ dbRun'.status = Verdict
      BY <1>3 DEF Verdict, TypeOK, Run
    <2>2. Verdict # "failed" => runFail = None
      BY DEF Verdict
    <2>3. Verdict # "failed" => ~(faults > 0)
      <3> SUFFICES ASSUME runFail = None, faults > 0 PROVE FALSE
        BY <2>2
      <3>1. ~persistErr
        BY <1>1, Zenon DEF EndInv, NothingLeftBehind
      <3>2. pc # "failed"
        BY <1>1
      <3> QED
        BY <3>1, <3>2, Zenon DEF RunRowInv, FaultIsTold
    <2>4. Verdict # "failed" => \A n \in Nodes, a \in Attempts : rows[n][a].status # "running"
      BY <1>1, <2>2, RowsAtEnd
    <2>5. Verdict # "failed" => History!Open = {}
      BY <2>4 DEF History!Open
    <2>6. Table' = Table
      BY <1>1 DEF Table
    <2>7. History!Close(Verdict)
      BY <1>1, <1>3, <2>1, <2>3, <2>5, <2>6 DEF History!Close, Table
    <2> QED
      BY <2>1, <2>7 DEF History!Next
  <1> QED
    BY <1>2, <1>3 DEF CloseRun, GiveUp

LEMMA HistoryStep ==
  ASSUME TypeOK, TaskInv, EndInv, RowInv, RunRowInv, CleanInv, AttemptStory',
         [Next]_vars
  PROVE  History!Next \/ UNCHANGED History!hvars
  <1>1. CASE rows' = rows /\ dbRun'.status = dbRun.status /\ faults' = faults
    BY <1>1, HistoryStutters
  <1>2. CASE rows' = rows /\ dbRun'.status = dbRun.status /\ faults' = faults + 1
    BY <1>2, HistoryLoses DEF History!Next
  <1>3. CASE CreateRun \/ BeginRun
    <2>1. /\ rows' = rows
          /\ \/ faults' = faults + 1 /\ dbRun' = dbRun
             \/ /\ faults' = faults
                /\ \/ dbRun.status = "absent" /\ dbRun'.status = "pending"
                   \/ dbRun.status = "pending" /\ dbRun'.status = "running"
      BY <1>3 DEF CreateRun, BeginRun, GiveUp, RunRowInv, StatusFollowsPc, TypeOK, Run
    <2>2. Table' = Table
      BY <2>1 DEF Table
    <2>3. CASE dbRun' = dbRun
      BY <1>2, <2>1, <2>3
    <2>4. CASE faults' = faults /\ dbRun.status = "absent" /\ dbRun'.status = "pending"
      BY <2>2, <2>4 DEF History!Next, History!Create, Table
    <2>5. CASE faults' = faults /\ dbRun.status = "pending" /\ dbRun'.status = "running"
      BY <2>2, <2>5 DEF History!Next, History!Begin, Table
    <2> QED
      BY <2>1, <2>3, <2>4, <2>5
  <1>4. CASE SaveVerdict
    <2>1. /\ rows' = rows /\ dbRun'.status = dbRun.status
          /\ faults' = faults \/ faults' = faults + 1
      BY <1>4 DEF SaveVerdict, GiveUp, TypeOK, Run
    <2> QED
      BY <1>1, <1>2, <2>1
  <1>5. CASE CloseRun
    BY <1>5, HistoryClose
  <1>6. CASE Persist
    BY <1>6, HistoryPersist
  <1>7. CASE LoadVersion \/ FinishDrain
    BY <1>1, <1>7 DEF LoadVersion, FinishDrain, storeVars
  <1>8. CASE \/ (\E n \in todo : TryAdvance(n)) \/ Settle
             \/ (\E r \in results : ReceiveResult(r))
             \/ HandleCancelled \/ HandleRetry \/ HandleFailRun \/ HandlePropagate
             \/ (\E rt \in retryCh : RetryDue(rt))
             \/ PersistFailed \/ ContextDone \/ LeaveLoop
    <2>1. rows' = rows
      BY <1>8 DEF TryAdvance, Settle, ReceiveResult, HandleCancelled, HandleRetry,
           HandleFailRun, HandlePropagate, Handle, RetryDue, PersistFailed, ContextDone,
           LeaveLoop, storeVars
    <2>2. UNCHANGED <<dbRun, faults>>
      BY <1>8, LoopSteps
    <2> QED
      BY <1>1, <2>1, <2>2
  <1>9. CASE (\E n \in Nodes : Worker(n) \/ RetryTimer(n)) \/ CallerCancels
             \/ UNCHANGED vars
    BY <1>1, <1>9, OutsideSteps
  <1> QED
    BY <1>3, <1>4, <1>5, <1>6, <1>7, <1>8, <1>9 DEF Next, Driver, Over

(***************************************************************************)
(* The rows the engine leaves in the database, at every moment and so      *)
(* after any crash, are a history that RunHistory allows: every step of    *)
(* the engine is a step of the history, or invisible to its reader.        *)
(***************************************************************************)
THEOREM RowsAreAHistory == Spec => ImplementsHistory
  <1>1. TypeOK /\ TaskInv /\ EndInv /\ RowInv /\ RunRowInv /\ CleanInv /\ AttemptStory'
          /\ [Next]_vars => [History!Next]_(History!hvars)
    BY HistoryStep
  <1> QED
    BY <1>1, HistoryInit, TypeCorrect, TasksAlways, EndAlways, RowsAlways, RunRowAlways,
       CleanAlways, RowsTellTheStory, PTL DEF Spec, ImplementsHistory, History!Spec
-----------------------------------------------------------------------------
(***************************************************************************)
(* Causal order: what resolved an edge was written before what came of it. *)
(***************************************************************************)
\* What is told stays told, as far as the queue up to position k goes.
LEMMA ToldBySend ==
  ASSUME TypeOK, TypeOK', NEW n \in Nodes, NEW op \in Op, Sends(n, op), NEW e \in Edges,
         NEW d, NEW k, NEW k2, k2 >= k, k \in Nat, k2 \in Nat, Told(e, d, k)
  PROVE  Told(e, d, k2)'
  <1> DEFINE m == EdgeFrom[e]
  <1>1. m \in Nodes
    BY GraphAssumption
  <1>2. rows' = rows
    BY DEF Sends
  <1>3. \A i \in Queued(m) : i \in Queued(m)' /\ persistQ'[i] = persistQ[i]
    <2>1. /\ \A mm \in Nodes \ {n} : Queued(mm)' = Queued(mm)
          /\ Queued(n)' = Queued(n) \cup {Len(persistQ) + 1}
          /\ \A i \in DOMAIN persistQ : persistQ'[i] = persistQ[i]
      BY QueuedAfterSend
    <2> QED
      BY <1>1, <2>1 DEF Queued
  <1>4. \A i \in Queued(m) : i < k => i < k2
    BY QueuedTyped
  <1> QED
    BY <1>2, <1>3, <1>4 DEF Told, Tells

LEMMA ToldByApply ==
  ASSUME TypeOK, TypeOK', InTurn, WritesLegal, RowsLegal, faults = 0, faults' = 0,
         \A n \in Nodes : StoryOf(n), NEW op \in Op, NEW j \in 0..3, Applies(op, j),
         NEW e \in Edges, NEW d \in {"live", "dead"}, NEW k \in Nat, k >= 1,
         NEW k2 \in Nat, k2 + 1 >= k, Told(e, d, k)
  PROVE  Told(e, d, k2)'
  <1> DEFINE m == EdgeFrom[e]
  <1>1. m \in Nodes /\ StoryOf(m)
    BY GraphAssumption
  <1>2. 1 \in DOMAIN persistQ /\ persistQ[1] = op
    BY QueuedAfterApply
  <1>3. LegalWrite(op)
    BY <1>2 DEF WritesLegal
  <1>4. \A i \in Queued(m) : i # 1 => i - 1 \in Queued(m)' /\ persistQ'[i - 1] = persistQ[i]
    BY QueuedAfterApply
  <1>5. \A i \in Queued(m) : i < k => i - 1 < k2
    BY QueuedTyped
  <1>6. ASSUME NEW i \in Queued(m), i # 1, i < k, Tells(persistQ[i].row, e, d)
        PROVE  Told(e, d, k2)'
    <2>1. i - 1 \in Queued(m)' /\ i - 1 < k2 /\ Tells(persistQ'[i - 1].row, e, d)
      BY <1>4, <1>5, <1>6
    <2> QED
      BY <2>1 DEF Told, Tells
  <1>7. CASE op.kind = "vars"
    <2>1. rows' = rows
      BY <1>7 DEF Applies, Store
    <2>2. 1 \notin Queued(m)
      BY <1>2, <1>7 DEF Queued
    <2>3. CASE \E a \in Attempts : Tells(rows[m][a], e, d)
      BY <2>1, <2>3 DEF Told, Tells
    <2> QED
      BY <1>6, <2>2, <2>3 DEF Told
  <1>8. CASE op.kind # "vars"
    <2> DEFINE a == op.attempt
               old == rows[op.node][a]
               new == rows'[op.node][a]
    <2>1. /\ op.node \in Nodes /\ a \in Attempts /\ OtherRows(op)
          /\ Left(op, old, new) \/ Inserted(op, old, new) \/ Closed(op, old, new)
      BY <1>3, <1>8, AppliedRow
    <2>2. /\ op.kind = "append" => old.status = "absent"
          /\ op.kind = "finish" => old.status = "running"
      BY <1>2, <1>3, <1>8, <2>1, FindsItsRow
    <2>3. op.kind \in {"append", "finish"}
      BY <1>8 DEF Op
    <2>4. ASSUME NEW b \in Attempts, Tells(rows[m][b], e, d)
          PROVE  Told(e, d, k2)'
      <3>1. m # op.node \/ b # a
        BY <2>2, <2>3, <2>4 DEF Tells
      <3>2. rows'[m][b] = rows[m][b]
        BY <1>1, <2>1, <3>1 DEF OtherRows
      <3> QED
        BY <2>4, <3>2 DEF Told, Tells
    <2>5. ASSUME m = op.node, Tells(op.row, e, d)
          PROVE  Told(e, d, k2)'
      <3>1. /\ op.kind = "append" => Insertion(op)
            /\ op.kind = "finish" => Ending(op)
        BY <1>3 DEF LegalWrite
      <3>2. ASSUME Tells(new, e, d) PROVE Told(e, d, k2)'
        <4>1. \E b \in Attempts : Tells(rows'[m][b], e, d)
          BY <2>1, <2>5, <3>2
        <4> QED
          BY <4>1 DEF Told, Tells
      <3>3. CASE op.kind = "append"
        <4>1. op.row.status = "skipped" /\ d = "dead"
          BY <2>5, <3>1, <3>3 DEF Tells, Insertion
        <4>2. Inserted(op, old, new)
          BY <2>1, <2>2, <3>3 DEF Left, Closed
        <4>3. Tells(new, e, d)
          BY <4>1, <4>2 DEF Inserted, Tells
        <4> QED
          BY <3>2, <4>3
      <3>4. CASE op.kind = "finish"
        <4>1. op.row.port # NoPort /\ op.row.port # "unserializable"
          <5>1. EdgePort[e] \in Ports
            BY GraphAssumption
          <5>2. op.row.status # "skipped"
            BY <3>1, <3>4 DEF Ending
          <5> QED
            BY <2>5, <5>1, <5>2, PortAssumption DEF Tells
        <4>2. Closed(op, old, new)
          BY <2>1, <2>2, <3>4, <4>1 DEF Left, Inserted
        <4>3. new.status = op.row.status /\ new.port = op.row.port
          BY <4>1, <4>2 DEF Closed
        <4>4. Tells(new, e, d)
          BY <2>5, <4>3 DEF Tells
        <4> QED
          BY <3>2, <4>4
      <3> QED
        BY <2>3, <3>3, <3>4
    <2>6. ASSUME NEW i \in Queued(m), i < k, Tells(persistQ[i].row, e, d)
          PROVE  Told(e, d, k2)'
      <3>1. CASE i = 1
        <4>1. m = op.node
          BY <1>2, <2>6, <3>1 DEF Queued
        <4> QED
          BY <1>2, <2>5, <2>6, <3>1, <4>1
      <3> QED
        BY <1>6, <2>6, <3>1
    <2> QED
      BY <2>4, <2>6 DEF Told
  <1> QED
    BY <1>7, <1>8

LEMMA BecauseMoves ==
  ASSUME NEW n \in Nodes, NEW s, NEW k, NEW k2, Because(n, s, k),
         \A e \in Edges, d \in {"live", "dead"} : Told(e, d, k) => Told(e, d, k2)'
  PROVE  Because(n, s, k2)'
  <1>1. InEdges(n) \subseteq Edges
    BY DEF InEdges
  <1>2. ToldToRun(n, k) => ToldToRun(n, k2)'
    BY <1>1 DEF ToldToRun
  <1>3. ToldToSkip(n, k) => ToldToSkip(n, k2)'
    BY <1>1 DEF ToldToSkip
  <1> QED
    BY <1>2, <1>3 DEF Because

\* The write that is queued last says what it did to the edges.
LastTells(e, d) ==
  LET op == persistQ'[Len(persistQ) + 1] IN
  /\ Len(persistQ') >= Len(persistQ) + 1
  /\ op.kind # "vars" /\ op.node = EdgeFrom[e]
  /\ Tells(op.row, e, d)

LEMMA SkipTells ==
  ASSUME TypeOK, NEW n \in Nodes, TryAdvance(n), NEW e \in Edges, edgeState'[e] # edgeState[e]
  PROVE  LastTells(e, edgeState'[e])
  <1>1. /\ MarkSkipped(n) /\ edgeState' = [f \in Edges |-> Killed(n, f)]
    BY DEF TryAdvance
  <1>2. EdgeFrom[e] = n /\ edgeState'[e] = "dead"
    BY <1>1 DEF Killed, OutEdges
  <1>3. /\ Len(persistQ') = Len(persistQ) + 1
        /\ persistQ'[Len(persistQ) + 1] = AppendOp(n, 1, "skipped")
    BY <1>1 DEF MarkSkipped, Send, TypeOK
  <1>4. LET op == AppendOp(n, 1, "skipped") IN
          op.kind = "append" /\ op.node = n /\ op.row.status = "skipped"
    BY DEF AppendOp, EmptyRow
  <1>5. Len(persistQ) \in Nat
    BY DEF TypeOK
  <1> QED
    BY <1>2, <1>3, <1>4, <1>5 DEF LastTells, Tells

LEMMA PropagateTells ==
  ASSUME TypeOK, pc = "handling", NEW p \in Ports, NEW s \in {"success", "failed"}, NEW fb,
         Propagate(p, s, fb), NEW e \in Edges, edgeState'[e] # edgeState[e]
  PROVE  LastTells(e, edgeState'[e])
  <1>1. PICK r \in Result : r = cur
    BY DEF TypeOK
  <1>2. edgeState' = [f \in Edges |-> Fired(r.node, p, f)]
    BY <1>1 DEF Propagate
  <1>3. /\ EdgeFrom[e] = r.node
        /\ edgeState'[e] = IF EdgePort[e] = p THEN "live" ELSE "dead"
    BY <1>2 DEF Fired, OutEdges
  <1> DEFINE op == FinishOp(r, s, p, fb)
  <1>4. /\ Len(persistQ') >= Len(persistQ) + 1
        /\ persistQ'[Len(persistQ) + 1] = op
    <2>1. \/ Send(<<op>>)
          \/ Send(<<op, VarsOp(r, symVars')>>)
      BY <1>1 DEF Propagate
    <2>2. persistQ \in Seq(Op)
      BY DEF TypeOK
    <2> HIDE DEF op
    <2> QED
      BY <2>1, <2>2 DEF Send
  <1>5. op.kind = "finish" /\ op.node = r.node /\ op.row.status = s /\ op.row.port = p
    BY DEF FinishOp
  <1>6. p # NoPort /\ p # "unserializable"
    BY PortAssumption
  <1> HIDE DEF op
  <1> QED
    BY <1>3, <1>4, <1>5, <1>6 DEF LastTells, Tells

LEMMA EdgesFollow ==
  ASSUME TypeOK, [Next]_vars, NEW e \in Edges, edgeState'[e] # edgeState[e]
  PROVE  LastTells(e, edgeState'[e])
  <1>1. CASE \E n \in todo : TryAdvance(n)
    <2>1. PICK n \in Nodes : TryAdvance(n)
      BY <1>1 DEF TypeOK
    <2> QED
      BY <2>1, SkipTells
  <1>2. CASE HandlePropagate
    <2>1. pc = "handling" /\ cur \in Result
      BY <1>2 DEF HandlePropagate, Handle, TypeOK
    <2>2. FallbackPort[cur.node] \in Ports /\ ErrorPort \in Ports
      BY <2>1, PolicyAssumption, PortAssumption DEF Result
    <2>3. \E p \in Ports, s \in {"success", "failed"}, fb \in BOOLEAN : Propagate(p, s, fb)
      BY <1>2, <2>2 DEF HandlePropagate
    <2> QED
      BY <2>1, <2>3, PropagateTells
  <1>3. UNCHANGED edgeState \/ HandlePropagate \/ \E n \in todo : TryAdvance(n)
    <2>1. CASE \E r \in results : ReceiveResult(r)
      BY <2>1 DEF ReceiveResult
    <2>2. CASE HandleCancelled \/ HandleRetry \/ HandleFailRun
      BY <2>2 DEF HandleCancelled, HandleRetry, HandleFailRun, graphVars
    <2>3. CASE \E rt \in retryCh : RetryDue(rt)
      BY <2>3 DEF RetryDue
    <2>4. CASE \/ \E t \in work, out \in Outcome : WorkerEnds(t, out)
               \/ \E t \in timers : TimerFires(t)
      BY <2>4 DEF WorkerEnds, TimerFires, driverVars, graphVars
    <2>5. CASE CreateRun \/ BeginRun \/ SaveVerdict \/ CloseRun
      BY <2>5 DEF CreateRun, BeginRun, SaveVerdict, CloseRun, graphVars
    <2>7. CASE Persist
      BY <2>7 DEF Persist, driverVars, graphVars
    <2>6. CASE LoadVersion \/ Settle \/ PersistFailed \/ ContextDone \/ LeaveLoop
               \/ FinishDrain \/ CallerCancels \/ UNCHANGED vars
      BY <2>6 DEF LoadVersion, Settle, PersistFailed, ContextDone, LeaveLoop, FinishDrain,
           CallerCancels, vars, driverVars, graphVars
    <2> QED
      BY <2>1, <2>2, <2>3, <2>4, <2>5, <2>6, <2>7 DEF Next, Driver, Over, Worker, RetryTimer
  <1> QED
    BY <1>1, <1>2, <1>3

\* A node leaves unready only by tryAdvance, for what its in-edges say.
LEMMA LeavesUnready ==
  ASSUME TypeOK, TokenInv, HandFilled, [Next]_vars, NEW n \in Nodes, nodeStat[n] = "unready"
  PROVE  /\ nodeStat'[n] = "running" => ReadyToRun(n, edgeState)
         /\ nodeStat'[n] = "done" => ReadyToSkip(n, edgeState)
  <1>1. /\ \A r \in results : r.node # n
        /\ \A rt \in retryCh : rt.node # n
        /\ cur # None => cur.node # n
    BY UnreadyHasNoToken
  <1>2. nodeStat \in [Nodes -> {"unready", "running", "done"}]
    BY DEF TypeOK
  <1>3. CASE \E m \in todo : TryAdvance(m)
    <2>1. PICK m \in Nodes : TryAdvance(m)
      BY <1>3 DEF TypeOK
    <2>2. CASE m = n
      BY <1>2, <2>1, <2>2 DEF TryAdvance, Dispatch, MarkSkipped
    <2>3. CASE m # n
      BY <1>2, <2>1, <2>3 DEF TryAdvance, Dispatch, MarkSkipped
    <2> QED
      BY <2>2, <2>3
  <1>4. CASE \E r \in results : ReceiveResult(r)
    BY <1>1, <1>2, <1>4 DEF ReceiveResult, EndAttempt
  <1>5. CASE HandleCancelled \/ HandleRetry \/ HandleFailRun \/ HandlePropagate
    <2>1. cur.node # n
      BY <1>1, <1>5 DEF HandFilled, Handle, HandleCancelled, HandleRetry, HandleFailRun,
                        HandlePropagate
    <2> QED
      BY <1>2, <1>5, <2>1 DEF HandleCancelled, HandleRetry, HandleFailRun,
                              HandlePropagate, Propagate, EndAttempt, graphVars
  <1>6. CASE \E rt \in retryCh : RetryDue(rt)
    BY <1>1, <1>2, <1>6 DEF RetryDue, Dispatch
  <1>7. CASE \/ \E t \in work, out \in Outcome : WorkerEnds(t, out)
             \/ \E t \in timers : TimerFires(t)
    BY <1>7 DEF WorkerEnds, TimerFires, driverVars, graphVars
  <1>8. CASE CreateRun \/ BeginRun \/ SaveVerdict \/ CloseRun
    BY <1>8 DEF CreateRun, BeginRun, SaveVerdict, CloseRun, graphVars
  <1>10. CASE Persist
    BY <1>10 DEF Persist, driverVars, graphVars
  <1>9. CASE LoadVersion \/ Settle \/ PersistFailed \/ ContextDone \/ LeaveLoop
             \/ FinishDrain \/ CallerCancels \/ UNCHANGED vars
    BY <1>9 DEF LoadVersion, Settle, PersistFailed, ContextDone, LeaveLoop, FinishDrain,
         CallerCancels, vars, driverVars, graphVars
  <1> QED
    BY <1>3, <1>4, <1>5, <1>6, <1>7, <1>8, <1>9, <1>10
       DEF Next, Driver, Over, Worker, RetryTimer

LEMMA CausalStill ==
  ASSUME TypeOK, TypeOK', CausalInv, faults = 0, Still, [Next]_vars
  PROVE  CausalInv'
  <1>1. UNCHANGED <<persistQ, rows>>
    BY DEF Still
  <1>2. \A e \in Edges : edgeState'[e] = edgeState[e]
    <2> SUFFICES ASSUME NEW e \in Edges, edgeState'[e] # edgeState[e] PROVE FALSE
      OBVIOUS
    <2>1. Len(persistQ') >= Len(persistQ) + 1
      BY EdgesFollow DEF LastTells
    <2> QED
      BY <1>1, <2>1 DEF TypeOK
  <1>3. \A e \in Edges : \A d, k : Told(e, d, k)' <=> Told(e, d, k)
    BY <1>1 DEF Told, Tells, Queued
  <1>4. \A n \in Nodes : \A s, k : Because(n, s, k)' <=> Because(n, s, k)
    <2>1. \A n \in Nodes : InEdges(n) \subseteq Edges
      BY DEF InEdges
    <2> QED
      BY <1>3, <2>1 DEF Because, ToldToRun, ToldToSkip
  <1>5. \A n : Appends(n, 1)' = Appends(n, 1)
    BY <1>1 DEF Appends, Queued
  <1>6. \A e \in Edges : edgeState'[e] # "pending" => Told(e, edgeState'[e], Len(persistQ) + 1)
    BY <1>2 DEF CausalInv
  <1> QED
    BY <1>1, <1>3, <1>4, <1>5, <1>6 DEF CausalInv

\* The edges, after a write is sent.
LEMMA EdgesAfterSend ==
  ASSUME TypeOK, TypeOK', CausalInv, faults = 0, [Next]_vars,
         NEW n \in Nodes, NEW op \in Op, Sends(n, op),
         NEW e \in Edges, edgeState'[e] # "pending"
  PROVE  Told(e, edgeState[e], Len(persistQ) + 1)'
  <1> PICK l \in Nat, l2 \in Nat : l = Len(persistQ) /\ l2 = Len(persistQ')
    BY DEF TypeOK
  <1> PICK d \in {"live", "dead"} : d = edgeState'[e]
    BY DEF TypeOK, EdgeStates
  <1>1. Len(persistQ') >= Len(persistQ) + 1
    BY DEF Sends, Queues
  <1>2. CASE edgeState'[e] = edgeState[e]
    <2>1. Told(e, d, l + 1)
      BY <1>2 DEF CausalInv
    <2>2. l + 1 \in Nat /\ l2 + 1 \in Nat /\ l2 + 1 >= l + 1
      BY <1>1
    <2>3. Told(e, d, l2 + 1)'
      BY <2>1, <2>2, ToldBySend
    <2> QED
      BY <2>3 DEF Told
  <1>3. CASE edgeState'[e] # edgeState[e]
    <2>1. /\ persistQ'[l + 1].kind # "vars" /\ persistQ'[l + 1].node = EdgeFrom[e]
          /\ Tells(persistQ'[l + 1].row, e, d)
      BY <1>3, EdgesFollow DEF LastTells
    <2>2. l + 1 \in DOMAIN persistQ' /\ l + 1 < l2 + 1
      BY <1>1, QueuedTypedNext
    <2>3. l + 1 \in Queued(EdgeFrom[e])'
      BY <2>1, <2>2 DEF Queued
    <2>4. Told(e, d, l2 + 1)'
      BY <2>1, <2>2, <2>3 DEF Told, Tells
    <2> QED
      BY <2>4 DEF Told
  <1> QED
    BY <1>2, <1>3

\* A first row that is sent: the in-edges, and so the writes before it, ask for it.
LEMMA FirstRowCaused ==
  ASSUME TypeOK, TokenInv, HandFilled, CausalInv, faults = 0, [Next]_vars,
         NEW n \in Nodes \ Roots, NEW op \in Op,
         Starts(n, op) \/ GivesUp(n, op) \/ Ends(n, op),
         op.kind = "append", op.attempt = 1
  PROVE  Because(n, op.row.status, Len(persistQ) + 1)
  <1> PICK c \in Nat : c = attemptCounter[n]
    BY DEF TypeOK
  <1> PICK l \in Nat : l = Len(persistQ) + 1
    BY DEF TypeOK
  <1>1. Retrying(n) => c > 0
    <2>1. Retrying(n) => nodeStat[n] = "running"
      BY RetryingRuns
    <2> QED
      BY <2>1 DEF TokenInv, UnreadyIsFresh
  <1>2. \A e \in InEdges(n) : edgeState[e] # "pending" => Told(e, edgeState[e], l)
    BY DEF CausalInv, InEdges
  <1>3. InEdges(n) # {}
    BY DEF Roots
  <1>4. \A e \in InEdges(n) : edgeState[e] \in {"pending", "live", "dead"}
    BY DEF TypeOK, InEdges, EdgeStates
  <1>5. ReadyToRun(n, edgeState) => ToldToRun(n, l)
    BY <1>2, <1>3 DEF ReadyToRun, ToldToRun
  <1>6. ReadyToSkip(n, edgeState) => ToldToSkip(n, l)
    BY <1>2, <1>3, <1>4 DEF ReadyToSkip, ReadyToRun, ToldToSkip
  <1>7. CASE Starts(n, op)
    <2>1. op.attempt = c + 1 /\ op.row.status = "running"
      BY <1>7 DEF Starts, AppendOp, EmptyRow
    <2>2. nodeStat[n] = "unready" /\ nodeStat'[n] = "running"
      BY <1>1, <1>7, <2>1 DEF Starts
    <2>3. ReadyToRun(n, edgeState)
      BY <2>2, LeavesUnready
    <2> QED
      BY <1>5, <2>1, <2>3 DEF Because
  <1>8. CASE GivesUp(n, op)
    <2>1. nodeStat[n] = "unready" /\ op = AppendOp(n, 1, "skipped") /\ nodeStat'[n] = "done"
      <3>1. ~(op = AppendOp(n, c + 1, "cancelled") /\ c > 0)
        BY DEF AppendOp
      <3> QED
        BY <1>8, <3>1 DEF GivesUp
    <2>2. op.row.status = "skipped"
      BY <2>1 DEF AppendOp, EmptyRow
    <2>3. ReadyToSkip(n, edgeState)
      BY <2>1, LeavesUnready
    <2> QED
      BY <1>6, <2>2, <2>3 DEF Because
  <1> QED
    BY <1>7, <1>8 DEF Ends

LEMMA CausalSend ==
  ASSUME TypeOK, TypeOK', TokenInv, HandFilled, CausalInv, faults = 0, [Next]_vars,
         NEW n \in Nodes, NEW op \in Op,
         Starts(n, op) \/ GivesUp(n, op) \/ Ends(n, op)
  PROVE  CausalInv'
  <1> PICK l \in Nat : l = Len(persistQ) + 1
    BY DEF TypeOK
  <1>1. Sends(n, op) /\ rows' = rows
    BY DEF Starts, GivesUp, Ends, Sends
  <1>2. \A e \in Edges : edgeState'[e] # "pending" => Told(e, edgeState[e], Len(persistQ) + 1)'
    BY <1>1, EdgesAfterSend
  <1>3. ASSUME NEW m \in Nodes, NEW s, NEW k \in Nat, Because(m, s, k)
        PROVE  Because(m, s, k)'
    <2>1. ASSUME NEW e \in Edges, NEW d \in {"live", "dead"}, Told(e, d, k)
          PROVE  Told(e, d, k)'
      <3>1. k >= k
        OBVIOUS
      <3> QED
        BY <1>1, <2>1, <3>1, ToldBySend
    <2> QED
      BY <1>3, <2>1, BecauseMoves
  <1>4. ASSUME NEW m \in Nodes \ Roots, NEW i, i \in Appends(m, 1)',
               NEW s, s = persistQ'[i].row.status
        PROVE  Because(m, s, i)'
    <2>1. /\ i \in Appends(m, 1) \cup
               (IF m = n /\ op.kind = "append" /\ op.attempt = 1 THEN {l} ELSE {})
          /\ \A j \in Appends(m, 1) : persistQ'[j] = persistQ[j]
          /\ persistQ'[l] = op
      BY <1>1, <1>4, KeptBySend
    <2>2. CASE i \in Appends(m, 1)
      <3>1. s = persistQ[i].row.status
        BY <1>4, <2>1, <2>2
      <3>2. i \in Nat
        BY <2>2, QueuedTyped DEF Appends
      <3>3. Because(m, s, i)
        BY <2>2, <3>1 DEF CausalInv
      <3> QED
        BY <1>3, <3>2, <3>3
    <2>3. CASE i \notin Appends(m, 1)
      <3>1. i = l /\ m = n /\ op.kind = "append" /\ op.attempt = 1
        BY <2>1, <2>3
      <3>2. Because(n, op.row.status, l)
        BY <3>1, FirstRowCaused
      <3>3. s = op.row.status
        BY <1>4, <2>1, <3>1
      <3> QED
        BY <1>3, <3>1, <3>2, <3>3
    <2> QED
      BY <2>2, <2>3
  <1>5. ASSUME NEW m \in Nodes \ Roots, NEW s, s = rows'[m][1].status, s # "absent"
        PROVE  Because(m, s, 1)'
    <2>1. Because(m, s, 1)
      BY <1>1, <1>5 DEF CausalInv
    <2> QED
      BY <1>3, <2>1
  <1> QED
    BY <1>2, <1>4, <1>5 DEF CausalInv

LEMMA CausalApply ==
  ASSUME TypeOK, TypeOK', InTurn, WritesLegal, RowsLegal, faults = 0, faults' = 0,
         \A n \in Nodes : StoryOf(n), CausalInv, [Next]_vars,
         NEW op \in Op, NEW j \in 0..3, Applies(op, j)
  PROVE  CausalInv'
  <1> PICK l \in Nat : l = Len(persistQ)
    BY DEF TypeOK
  <1>1. /\ Len(persistQ') = l - 1 /\ l >= 1
        /\ 1 \in DOMAIN persistQ /\ persistQ[1] = op
    BY QueuedAfterApply DEF Applies
  <1>2. ASSUME NEW e \in Edges, NEW d \in {"live", "dead"}, NEW k \in Nat, k >= 1,
               NEW k2 \in Nat, k2 + 1 >= k, Told(e, d, k)
        PROVE  Told(e, d, k2)'
    BY <1>2, ToldByApply
  <1>3. ASSUME NEW m \in Nodes, NEW s, NEW k \in Nat, k >= 1,
               NEW k2 \in Nat, k2 + 1 >= k, Because(m, s, k)
        PROVE  Because(m, s, k2)'
    <2>1. \A e \in Edges, d \in {"live", "dead"} : Told(e, d, k) => Told(e, d, k2)'
      BY <1>2, <1>3
    <2> QED
      BY <1>3, <2>1, BecauseMoves
  <1>4. ASSUME NEW e \in Edges, edgeState'[e] # "pending"
        PROVE  Told(e, edgeState[e], Len(persistQ) + 1)'
    <2>1. edgeState'[e] = edgeState[e]
      <3> SUFFICES ASSUME edgeState'[e] # edgeState[e] PROVE FALSE
        OBVIOUS
      <3> QED
        BY <1>1, EdgesFollow DEF LastTells
    <2>2. PICK d \in {"live", "dead"} : d = edgeState[e]
      BY <1>4, <2>1 DEF TypeOK, EdgeStates
    <2>3. Told(e, d, l + 1)
      BY <1>4, <2>1, <2>2 DEF CausalInv
    <2>4. l + 1 \in Nat /\ l + 1 >= 1
      OBVIOUS
    <2>5. Told(e, d, l)'
      BY <1>2, <2>3, <2>4
    <2>6. Len(persistQ') + 1 = l
      BY <1>1
    <2> QED
      BY <2>1, <2>2, <2>5, <2>6 DEF Told
  <1>5. ASSUME NEW m \in Nodes \ Roots, NEW i, i \in Appends(m, 1)',
               NEW s, s = persistQ'[i].row.status
        PROVE  Because(m, s, i)'
    <2>1. i + 1 \in Appends(m, 1) /\ persistQ'[i] = persistQ[i + 1]
      BY <1>5, KeptByApply
    <2>2. i \in Nat /\ i + 1 \in Nat /\ i + 1 >= 1
      BY <1>5, QueuedAfterApply DEF Appends
    <2>3. Because(m, s, i + 1)
      BY <1>5, <2>1 DEF CausalInv
    <2> QED
      BY <1>3, <2>2, <2>3
  <1>6. ASSUME NEW m \in Nodes \ Roots, NEW s, s = rows'[m][1].status, s # "absent"
        PROVE  Because(m, s, 1)'
    <2> DEFINE old == rows[op.node][op.attempt]
               new == rows'[op.node][op.attempt]
    <2>1. 1 \in Attempts
      <3>1. MaxRetries[m] \in Nat
        BY PolicyAssumption
      <3>2. 1 \in 1..(MaxRetries[m] + 1)
        BY <3>1
      <3> QED
        BY <3>2, InAttempts
    <2>2. \A t : Because(m, t, 1) => Because(m, t, 1)'
      BY <1>3
    <2>3. LegalWrite(op)
      BY <1>1 DEF WritesLegal
    <2>4. CASE rows'[m][1].status = rows[m][1].status
      BY <1>6, <2>2, <2>4 DEF CausalInv
    <2>5. CASE rows'[m][1].status # rows[m][1].status
      <3>1. op.kind # "vars"
        BY <2>5 DEF Applies, Store
      <3>2. /\ op.node \in Nodes /\ op.attempt \in Attempts /\ OtherRows(op)
            /\ Left(op, old, new) \/ Inserted(op, old, new) \/ Closed(op, old, new)
        BY <2>3, <3>1, AppliedRow
      <3>3. op.node = m /\ op.attempt = 1
        BY <2>1, <2>5, <3>2 DEF OtherRows
      <3>4. CASE Inserted(op, old, new)
        <4>1. op.kind = "append" /\ op.row.status = s
          BY <1>6, <3>3, <3>4 DEF Inserted
        <4>2. 1 \in Appends(m, 1)
          BY <1>1, <3>1, <3>3, <4>1 DEF Appends, Queued
        <4>3. Because(m, s, 1)
          BY <1>1, <4>1, <4>2 DEF CausalInv
        <4> QED
          BY <2>2, <4>3
      <3>5. CASE Closed(op, old, new)
        <4>1. Ending(op) /\ s = op.row.status /\ rows[m][1].status = "running"
          BY <1>6, <2>3, <3>3, <3>5 DEF Closed, LegalWrite
        <4>2. s # "skipped"
          BY <4>1 DEF Ending
        <4>3. Because(m, "running", 1)
          BY <4>1 DEF CausalInv
        <4>4. Because(m, s, 1)
          BY <4>2, <4>3 DEF Because
        <4> QED
          BY <2>2, <4>4
      <3> QED
        BY <2>5, <3>2, <3>3, <3>4, <3>5 DEF Left
    <2> QED
      BY <2>4, <2>5
  <1> QED
    BY <1>4, <1>5, <1>6 DEF CausalInv

LEMMA CausalInit == Init => CausalInv
  <1> SUFFICES ASSUME Init PROVE CausalInv
    OBVIOUS
  <1>1. /\ DOMAIN persistQ = {}
        /\ \A e \in Edges : edgeState[e] = "pending"
        /\ \A n \in Nodes, a \in Attempts : rows[n][a].status = "absent"
    BY DEF Init, EmptyRow
  <1>2. ASSUME NEW n \in Nodes PROVE rows[n][1].status = "absent"
    <2>1. MaxRetries[n] \in Nat
      BY PolicyAssumption
    <2>2. 1 \in 1..(MaxRetries[n] + 1)
      BY <2>1
    <2> QED
      BY <1>1, <2>2, InAttempts
  <1> QED
    BY <1>1, <1>2 DEF CausalInv, Appends, Queued

LEMMA CausalStep ==
  ASSUME TypeOK, TypeOK', TaskInv, DecisionInv, RowInv, StoryInv, CausalInv, [Next]_vars
  PROVE  CausalInv'
  <1> SUFFICES ASSUME faults' = 0 PROVE CausalInv'
    BY DEF CausalInv
  <1>1. faults = 0 /\ \A n \in Nodes : StoryOf(n)
    <2>1. faults = 0
      BY FaultsGrow DEF TypeOK
    <2> QED
      BY <2>1 DEF StoryInv
  <1>2. /\ InTurn /\ WritesLegal /\ ResultsPossible /\ RowsLegal
        /\ TokenInv /\ HandFilled
    BY DEF RowInv, TaskInv, TokenInv
  <1>3. CASE Still
    BY <1>1, <1>3, CausalStill
  <1>4. ASSUME NEW n \in Nodes, NEW op \in Op,
               Starts(n, op) \/ GivesUp(n, op) \/ Ends(n, op)
        PROVE  CausalInv'
    BY <1>1, <1>2, <1>4, CausalSend
  <1>5. CASE Persist
    BY <1>1, <1>2, <1>5, PersistApplies, CausalApply
  <1> QED
    BY <1>2, <1>3, <1>4, <1>5, StepKinds

LEMMA CausesAlways == Spec => []CausalInv
  <1>1. TypeOK /\ TypeOK' /\ TaskInv /\ DecisionInv /\ RowInv /\ StoryInv /\ CausalInv
          /\ [Next]_vars => CausalInv'
    BY CausalStep
  <1> QED
    BY <1>1, TypeCorrect, TasksAlways, DecisionAlways, RowsAlways, StoryAlways,
       CausalInit, PTL DEF Spec

(***************************************************************************)
(* Without a database failure the rows are in causal order at every        *)
(* moment: a node with a row has its in-edges fired, or killed, by rows,   *)
(* so a process that dies between two writes leaves no effect without its  *)
(* cause (persist.go:33, scheduler.go:301).                                *)
(***************************************************************************)
THEOREM RowsAreCausal == Spec => []CausalRows
  <1>1. ASSUME TypeOK, CausalInv PROVE CausalRows
    <2>1. CASE faults # 0
      BY <2>1 DEF CausalRows
    <2>2. CASE faults = 0
      <3>1. ASSUME NEW n \in Nodes \ Roots, rows[n][1].status # "absent"
            PROVE  Because(n, rows[n][1].status, 1)
        BY <1>1, <2>2, <3>1 DEF CausalInv
      <3>2. ASSUME NEW m, NEW i \in Queued(m) PROVE ~(i < 1)
        BY <1>1, <3>2, QueuedTyped
      <3>3. ASSUME NEW e, Told(e, "live", 1) PROVE FiredRow(e)
        BY <3>2, <3>3 DEF Told, Tells, FiredRow
      <3>4. ASSUME NEW e, Told(e, "dead", 1) PROVE DeadRow(e)
        BY <3>2, <3>4 DEF Told, Tells, DeadRow
      <3>5. ASSUME NEW n \in Nodes \ Roots,
                   rows[n][1].status \notin {"absent", "skipped"}
            PROVE  IF n \in JoinAllNodes THEN \A e \in InEdges(n) : FiredRow(e)
                                         ELSE \E e \in InEdges(n) : FiredRow(e)
        BY <3>1, <3>3, <3>5 DEF Because, ToldToRun
      <3>6. ASSUME NEW n \in Nodes \ Roots, rows[n][1].status = "skipped"
            PROVE  IF n \in JoinAllNodes
                   THEN /\ \A e \in InEdges(n) : FiredRow(e) \/ DeadRow(e)
                        /\ \E e \in InEdges(n) : DeadRow(e)
                   ELSE \A e \in InEdges(n) : DeadRow(e)
        <4>1. ToldToSkip(n, 1)
          BY <3>1, <3>6 DEF Because
        <4>2. CASE n \in JoinAllNodes
          BY <3>3, <3>4, <4>1, <4>2 DEF ToldToSkip
        <4>3. CASE n \notin JoinAllNodes
          BY <3>4, <4>1, <4>3 DEF ToldToSkip
        <4> QED
          BY <4>2, <4>3
      <3> QED
        BY <3>5, <3>6, Zenon DEF CausalRows
    <2> QED
      BY <2>1, <2>2
  <1> QED
    BY <1>1, TypeCorrect, CausesAlways, PTL
-----------------------------------------------------------------------------
(***************************************************************************)
(* A run without an End.                                                   *)
(***************************************************************************)
\* What disturbs a run stays: an End, a failure, a cancellation, a context
\* that ended before the loop was left.
LEMMA UndisturbedBefore ==
  ASSUME TypeOK, [Next]_vars, Undisturbed'
  PROVE  Undisturbed
  <1> DEFINE early == {"advancing", "loop", "handling"}
  <1>1. endHit' = None /\ runFail' = None /\ ~cancelled' /\ (pc' \in early => ~ctxErr')
    BY DEF Undisturbed, Decided
  <1>2. runFail = None
    BY <1>1, FailureKept
  <1>3. CASE LoadVersion \/ CreateRun \/ BeginRun \/ SaveVerdict \/ CloseRun \/ FinishDrain
    <2>1. UNCHANGED <<endHit, cancelled>>
      <3>1. CASE LoadVersion
        BY <3>1 DEF LoadVersion, verdictVars
      <3>2. CASE CreateRun
        BY <3>2 DEF CreateRun, verdictVars
      <3>3. CASE BeginRun
        BY <3>3 DEF BeginRun
      <3>4. CASE SaveVerdict
        BY <3>4 DEF SaveVerdict, TypeOK, Run, verdictVars
      <3>5. CASE CloseRun
        BY <3>5 DEF CloseRun, verdictVars
      <3>6. CASE FinishDrain
        BY <3>6 DEF FinishDrain
      <3> QED
        BY <1>3, <3>1, <3>2, <3>3, <3>4, <3>5, <3>6
    <2>2. pc \in {"load", "create", "begin", "draining", "finalize", "closing"}
      <3>1. CASE LoadVersion \/ CreateRun \/ BeginRun
        BY <3>1 DEF LoadVersion, CreateRun, BeginRun
      <3>2. CASE SaveVerdict
        BY <3>2 DEF SaveVerdict, TypeOK, Run
      <3>3. CASE CloseRun
        BY <3>3 DEF CloseRun
      <3>4. CASE FinishDrain
        BY <3>4 DEF FinishDrain
      <3> QED
        BY <1>3, <3>1, <3>2, <3>3, <3>4
    <2> QED
      BY <1>1, <1>2, <2>1, <2>2 DEF Undisturbed, Decided
  <1>4. CASE \E n \in todo : TryAdvance(n)
    BY <1>1, <1>2, <1>4 DEF TryAdvance, verdictVars, Undisturbed, Decided
  <1>5. CASE Settle
    BY <1>1, <1>2, <1>5 DEF Settle, CancelOnce, Undisturbed, Decided
  <1>6. CASE \E r \in results : ReceiveResult(r)
    <2>1. /\ UNCHANGED <<endHit, ctxErr>> /\ pc' \in early
          /\ cancelled' = CancelNoticed
      BY <1>6 DEF ReceiveResult
    <2>2. ~cancelled
      BY <1>1, <2>1, Zenon DEF CancelNoticed
    <2> QED
      BY <1>1, <1>2, <2>1, <2>2 DEF Undisturbed, Decided
  <1>7. CASE HandleCancelled \/ HandleRetry \/ HandleFailRun \/ HandlePropagate
    <2>1. /\ pc' \in early /\ ctxErr' = ctxErr
          /\ cancelled' = cancelled \/ cancelled' = TRUE
      BY <1>7 DEF HandleCancelled, HandleRetry, HandleFailRun, HandlePropagate, Handle
    <2>2. endHit # None => endHit' = endHit
      BY <1>7 DEF HandleCancelled, HandleRetry, HandleFailRun, HandlePropagate, Propagate
    <2> QED
      BY <1>1, <1>2, <2>1, <2>2 DEF Undisturbed, Decided
  <1>8. CASE \E rt \in retryCh : RetryDue(rt)
    BY <1>1, <1>2, <1>8 DEF RetryDue, verdictVars, Undisturbed, Decided
  <1>9. CASE PersistFailed \/ ContextDone
    <2>1. UNCHANGED <<pc, endHit>> /\ (cancelled' = cancelled \/ cancelled' = TRUE)
          /\ (ctxErr' = ctxErr \/ ctxErr' = TRUE)
      BY <1>9 DEF PersistFailed, ContextDone, CancelOnce
    <2> QED
      BY <1>1, <1>2, <2>1 DEF Undisturbed, Decided
  <1>10. CASE LeaveLoop
    <2>1. UNCHANGED <<endHit, runFail, ctxErr>>
      BY <1>10 DEF LeaveLoop
    <2>2. ~cancelled /\ ~ctxErr
      BY <1>1, <1>2, <1>10, <2>1, Zenon DEF LeaveLoop, Decided
    <2> QED
      BY <1>1, <1>2, <2>1, <2>2 DEF Undisturbed, Decided
  <1>11. CASE Persist
    BY <1>1, <1>2, <1>11 DEF Persist, driverVars, verdictVars, Undisturbed, Decided
  <1>12. CASE (\E n \in Nodes : Worker(n) \/ RetryTimer(n)) \/ CallerCancels
              \/ UNCHANGED vars
    <2>1. UNCHANGED <<pc, cancelled, endHit>>
      BY <1>12, OutsideSteps
    <2>2. ctxErr' = ctxErr \/ ctxErr' = TRUE
      BY <1>12 DEF Worker, RetryTimer, WorkerEnds, TimerFires, CallerCancels, vars
    <2> QED
      BY <1>1, <1>2, <2>1, <2>2 DEF Undisturbed, Decided
  <1> QED
    BY <1>3, <1>4, <1>5, <1>6, <1>7, <1>8, <1>9, <1>10, <1>11, <1>12
       DEF Next, Driver, Over

LEMMA ContextInit == Init => ContextTold
  BY DEF Init, ContextTold

LEMMA ContextStep ==
  ASSUME TypeOK, ContextTold, [Next]_vars
  PROVE  ContextTold'
  <1>1. CASE \/ \E n \in todo : TryAdvance(n)
             \/ \E r \in results : ReceiveResult(r)
             \/ HandleCancelled \/ HandleRetry \/ HandleFailRun \/ HandlePropagate
    <2>1. UNCHANGED <<listening, ctxErr, retryCh>>
      BY <1>1 DEF TryAdvance, ReceiveResult, HandleCancelled, HandleRetry, HandleFailRun,
           HandlePropagate, Handle, verdictVars
    <2> QED
      BY <2>1 DEF ContextTold
  <1>2. CASE \E rt \in retryCh : RetryDue(rt)
    BY <1>2 DEF RetryDue, verdictVars, ContextTold
  <1>3. CASE Settle \/ PersistFailed \/ ContextDone
    <2>1. retryCh' = retryCh /\ (CancelOnce \/ UNCHANGED <<ctxErr, listening>>)
      BY <1>3 DEF Settle, PersistFailed, ContextDone, taskVars
    <2> QED
      BY <2>1 DEF CancelOnce, ContextTold
  <1>4. CASE \E n \in Nodes : RetryTimer(n)
    <2>1. UNCHANGED <<listening, ctxErr>>
      BY <1>4 DEF RetryTimer, TimerFires, driverVars, verdictVars
    <2>2. \A rt \in retryCh' \ retryCh : rt.cancelled => ctxErr
      BY <1>4 DEF RetryTimer, TimerFires
    <2> QED
      BY <2>1, <2>2 DEF ContextTold
  <1>5. CASE (\E n \in Nodes : Worker(n)) \/ CallerCancels \/ UNCHANGED vars
    <2>1. UNCHANGED <<listening, retryCh>> /\ (ctxErr' = ctxErr \/ ctxErr' = TRUE)
      BY <1>5 DEF Worker, WorkerEnds, CallerCancels, vars, driverVars, verdictVars, taskVars
    <2> QED
      BY <2>1 DEF ContextTold
  <1>6. CASE LoadVersion \/ CreateRun \/ BeginRun \/ LeaveLoop \/ FinishDrain
             \/ SaveVerdict \/ CloseRun \/ Persist
    <2>1. UNCHANGED <<listening, ctxErr, retryCh>>
      <3>1. CASE LoadVersion \/ CreateRun
        BY <3>1 DEF LoadVersion, CreateRun, verdictVars, taskVars
      <3>2. CASE BeginRun
        BY <3>2 DEF BeginRun, taskVars
      <3>3. CASE Persist
        BY <3>3 DEF Persist, driverVars, taskVars
      <3>4. CASE LeaveLoop \/ FinishDrain
        BY <3>4 DEF LeaveLoop, FinishDrain, taskVars
      <3>5. CASE SaveVerdict
        BY <3>5 DEF SaveVerdict, TypeOK, Run, verdictVars, taskVars
      <3>6. CASE CloseRun
        BY <3>6 DEF CloseRun, verdictVars, taskVars
      <3> QED
        BY <1>6, <3>1, <3>2, <3>3, <3>4, <3>5, <3>6
    <2> QED
      BY <2>1 DEF ContextTold
  <1> QED
    BY <1>1, <1>2, <1>3, <1>4, <1>5, <1>6 DEF Next, Driver, Over

\* While nothing disturbs the run a node completes by being skipped or by
\* propagating, and both resolve its out-edges.
LEMMA SettlesByAdvance ==
  ASSUME TypeOK, TypeOK', NEW m \in Nodes, TryAdvance(m), NEW n \in Nodes,
         nodeStat[n] # "done", nodeStat'[n] = "done"
  PROVE  /\ \A e \in OutEdges(n) : edgeState'[e] # "pending"
         /\ \E i \in Appends(n, 1)' : persistQ'[i].row.status = "skipped"
  <1>1. nodeStat \in [Nodes -> {"unready", "running", "done"}]
    BY DEF TypeOK
  <1>2. m = n /\ MarkSkipped(n) /\ edgeState' = [e \in Edges |-> Killed(n, e)]
    <2>1. CASE Startable(m) /\ Dispatch(m)
      BY <1>1, <2>1 DEF Dispatch
    <2>2. CASE /\ Startable(m) /\ MarkSkipped(m)
               /\ edgeState' = [e \in Edges |-> Killed(m, e)]
      BY <1>1, <2>2 DEF MarkSkipped
    <2>3. CASE UNCHANGED nodeStat
      BY <2>3
    <2> QED
      BY <2>1, <2>2, <2>3 DEF TryAdvance
  <1>3. \A e \in OutEdges(n) : edgeState'[e] # "pending"
    BY <1>2 DEF Killed, OutEdges
  <1> DEFINE op   == AppendOp(n, 1, "skipped")
             last == Len(persistQ) + 1
  <1>4. persistQ' = persistQ \o <<op>> /\ persistQ \in Seq(Op)
    BY <1>2 DEF MarkSkipped, Send, TypeOK
  <1>5. last \in DOMAIN persistQ' /\ persistQ'[last] = op
    BY <1>4
  <1>6. op.kind = "append" /\ op.node = n /\ op.attempt = 1 /\ op.row.status = "skipped"
    BY DEF AppendOp, EmptyRow
  <1>7. last \in Appends(n, 1)'
    BY <1>5, <1>6 DEF Appends, Queued
  <1> QED
    BY <1>3, <1>5, <1>6, <1>7

LEMMA SettlesByPropagation ==
  ASSUME TypeOK, TypeOK', HandlePropagate, endHit' = None, NEW n \in Nodes,
         nodeStat[n] # "done", nodeStat'[n] = "done"
  PROVE  /\ \A e \in OutEdges(n) : edgeState'[e] # "pending"
         /\ n \notin EndNodes
  <1>1. nodeStat \in [Nodes -> {"unready", "running", "done"}]
    BY DEF TypeOK
  <1>2. PICK port, status, fb : Propagate(port, status, fb)
    BY DEF HandlePropagate
  <1>3. n = cur.node
    BY <1>1, <1>2 DEF Propagate
  <1>4. None \notin Nodes
    BY EngineAssumption
  <1>5. n \notin EndNodes
    BY <1>2, <1>3, <1>4 DEF Propagate
  <1>6. edgeState' = [e \in Edges |-> Fired(n, port, e)]
    BY <1>2, <1>3, <1>5 DEF Propagate
  <1>7. \A e \in OutEdges(n) : edgeState'[e] # "pending"
    BY <1>6 DEF Fired, OutEdges
  <1> QED
    BY <1>5, <1>7

LEMMA SettlesUndisturbed ==
  ASSUME TypeOK, TypeOK', ContextTold, [Next]_vars, Undisturbed', NEW n \in Nodes,
         nodeStat[n] # "done", nodeStat'[n] = "done"
  PROVE  /\ \A e \in OutEdges(n) : edgeState'[e] # "pending"
         /\ n \in EndNodes => \E i \in Appends(n, 1)' : persistQ'[i].row.status = "skipped"
  <1>1. /\ endHit' = None /\ runFail' = None /\ ~cancelled'
        /\ pc' \in {"advancing", "loop", "handling"} => ~ctxErr'
    BY DEF Undisturbed, Decided
  <1>2. nodeStat \in [Nodes -> {"unready", "running", "done"}]
    BY DEF TypeOK
  <1>3. CASE \E m \in todo : TryAdvance(m)
    <2>1. PICK m \in Nodes : TryAdvance(m)
      BY <1>3 DEF TypeOK
    <2> QED
      BY <2>1, SettlesByAdvance
  <1>4. CASE HandlePropagate
    BY <1>1, <1>4, SettlesByPropagation
  <1>5. CASE \E r \in results : ReceiveResult(r)
    <2>1. CASE CancelNoticed
      BY <1>1, <1>5, <2>1, Zenon DEF ReceiveResult
    <2>2. CASE Decided
      BY <1>1, <1>5, <2>2 DEF ReceiveResult, Decided
    <2>3. CASE ~CancelNoticed /\ ~Decided
      BY <1>5, <2>3 DEF ReceiveResult
    <2> QED
      BY <2>1, <2>2, <2>3
  <1>6. CASE HandleCancelled \/ HandleFailRun
    <2>1. "node_exec_failed" # None /\ "output_not_serializable" # None
      BY EngineAssumption DEF RunErrCodes
    <2> QED
      BY <1>1, <1>6, <2>1 DEF HandleCancelled, HandleFailRun
  <1>7. CASE HandleRetry
    BY <1>7 DEF HandleRetry, graphVars
  <1>8. CASE \E rt \in retryCh : RetryDue(rt)
    <2>1. PICK rt \in retryCh : RetryDue(rt)
      BY <1>8
    <2>2. UNCHANGED <<pc, ctxErr, runFail>> /\ pc = "loop"
      BY <2>1 DEF RetryDue, Selecting, verdictVars
    <2>3. ~Aborts(rt)
      BY <1>1, <2>2 DEF Aborts, ContextTold
    <2> QED
      BY <1>2, <2>1, <2>3 DEF RetryDue, Dispatch
  <1>9. CASE CreateRun \/ BeginRun \/ SaveVerdict \/ CloseRun
    BY <1>9 DEF CreateRun, BeginRun, SaveVerdict, CloseRun, graphVars
  <1>10. CASE LoadVersion \/ Settle \/ PersistFailed \/ ContextDone \/ LeaveLoop
              \/ FinishDrain \/ CallerCancels \/ UNCHANGED vars
    BY <1>10 DEF LoadVersion, Settle, PersistFailed, ContextDone, LeaveLoop, FinishDrain,
         CallerCancels, vars, driverVars, graphVars
  <1>11. CASE Persist \/ \E m \in Nodes : Worker(m) \/ RetryTimer(m)
    BY <1>11 DEF Persist, Worker, RetryTimer, WorkerEnds, TimerFires, driverVars, graphVars
  <1> QED
    BY <1>3, <1>4, <1>5, <1>6, <1>7, <1>8, <1>9, <1>10, <1>11 DEF Next, Driver, Over

\* The row of a skip is queued once and stored if the persister tells no error.
LEMMA SkipStays ==
  ASSUME TypeOK, TypeOK', TaskInv, DecisionInv, RowInv, [Next]_vars, ~persistErr',
         NEW m \in Nodes, SkipTold(m)
  PROVE  SkipTold(m)'
  <1>1. InTurn /\ ResultsPossible /\ WritesLegal /\ RowsLegal
    BY DEF RowInv
  <1>2. CASE Still
    BY <1>2 DEF Still, SkipTold, Appends, Queued
  <1>3. ASSUME NEW n \in Nodes, NEW op \in Op, Sends(n, op) PROVE SkipTold(m)'
    <2>1. rows' = rows
      BY <1>3 DEF Sends
    <2>2. \A i \in Appends(m, 1) : i \in Appends(m, 1)' /\ persistQ'[i] = persistQ[i]
      BY <1>3, KeptBySend
    <2> QED
      BY <2>1, <2>2 DEF SkipTold
  <1>4. CASE Persist
    <2>1. PICK op \in Op, k \in 0..3 : Applies(op, k)
      BY <1>4, PersistApplies
    <2>2. 1 \in DOMAIN persistQ /\ persistQ[1] = op
      BY <2>1, QueuedTyped DEF Applies
    <2>3. LegalWrite(op)
      BY <1>1, <2>2 DEF WritesLegal
    <2>4. \A i \in Appends(m, 1) : i # 1 => i - 1 \in Appends(m, 1)' /\ persistQ'[i - 1] = persistQ[i]
      BY <2>1, KeptByApply
    <2>5. CASE op.kind = "vars"
      <3>1. rows' = rows
        BY <2>1, <2>5 DEF Applies, Store
      <3>2. 1 \notin Appends(m, 1)
        BY <2>2, <2>5 DEF Appends
      <3> QED
        BY <2>4, <3>1, <3>2 DEF SkipTold
    <2>6. CASE op.kind # "vars"
      <3> DEFINE old == rows[op.node][op.attempt]
                 new == rows'[op.node][op.attempt]
      <3>1. /\ op.node \in Nodes /\ op.attempt \in Attempts /\ OtherRows(op)
            /\ Inserted(op, old, new) \/ Closed(op, old, new)
        BY <1>1, <2>1, <2>3, <2>6, CleanWrite
      <3>2. 1 \in Attempts
        BY PolicyAssumption, InAttempts
      <3>3. CASE rows[m][1].status = "skipped"
        <4>1. m # op.node \/ 1 # op.attempt
          BY <3>1, <3>3 DEF Inserted, Closed
        <4>2. rows'[m][1] = rows[m][1]
          BY <3>1, <3>2, <4>1 DEF OtherRows
        <4> QED
          BY <3>3, <4>2 DEF SkipTold
      <3>4. ASSUME NEW i \in Appends(m, 1), persistQ[i].row.status = "skipped"
            PROVE  SkipTold(m)'
        <4>1. CASE i # 1
          BY <2>4, <3>4, <4>1 DEF SkipTold
        <4>2. CASE i = 1
          <5>1. op.kind = "append" /\ op.node = m /\ op.attempt = 1 /\ op.row.status = "skipped"
            BY <2>2, <3>4, <4>2 DEF Appends, Queued
          <5>2. new.status = "skipped"
            BY <3>1, <5>1 DEF Inserted, Closed
          <5> QED
            BY <5>1, <5>2 DEF SkipTold
        <4> QED
          BY <4>1, <4>2
      <3> QED
        BY <3>3, <3>4 DEF SkipTold
    <2> QED
      BY <2>5, <2>6
  <1> QED
    BY <1>1, <1>2, <1>3, <1>4, StepKinds DEF Starts, GivesUp, Ends

LEMMA SettledInit == Init => DoneIsSettled /\ NoEndStands
  <1> SUFFICES ASSUME Init PROVE DoneIsSettled /\ NoEndStands
    OBVIOUS
  <1>1. nodeStat = [n \in Nodes |-> "unready"] /\ pc = "load"
    BY DEF Init
  <1>2. dbRun.error # "no_end_reached"
    BY EngineAssumption DEF Init, RunErrCodes
  <1>3. \A e \in Edges : EdgeFrom[e] \in Nodes
    BY GraphAssumption
  <1>4. EndNodes \subseteq Nodes
    BY GraphAssumption
  <1> QED
    BY <1>1, <1>2, <1>3, <1>4 DEF DoneIsSettled, NoEndStands, NoEnd

LEMMA DoneStep ==
  ASSUME TypeOK, TypeOK', TaskInv, DecisionInv, GraphInv, RowInv, ContextTold,
         DoneIsSettled, [Next]_vars
  PROVE  DoneIsSettled'
  <1> SUFFICES ASSUME Undisturbed'
               PROVE  /\ \A e \in Edges : nodeStat'[EdgeFrom[e]] = "done" =>
                                          edgeState'[e] # "pending"
                      /\ ~persistErr' => \A n \in EndNodes : nodeStat'[n] = "done" =>
                                                             SkipTold(n)'
    BY DEF DoneIsSettled
  <1>1. Undisturbed
    BY UndisturbedBefore
  <1>2. ASSUME NEW e \in Edges, nodeStat'[EdgeFrom[e]] = "done"
        PROVE  edgeState'[e] # "pending"
    <2>1. EdgeFrom[e] \in Nodes /\ e \in OutEdges(EdgeFrom[e])
      BY GraphAssumption DEF OutEdges
    <2>2. CASE nodeStat[EdgeFrom[e]] = "done"
      <3>1. edgeState[e] # "pending"
        BY <1>1, <2>2 DEF DoneIsSettled
      <3> QED
        BY <3>1, GraphStep
    <2>3. CASE nodeStat[EdgeFrom[e]] # "done"
      BY <1>2, <2>1, <2>3, SettlesUndisturbed
    <2> QED
      BY <2>2, <2>3
  <1>3. ASSUME ~persistErr', NEW n \in EndNodes, nodeStat'[n] = "done"
        PROVE  SkipTold(n)'
    <2>1. n \in Nodes
      BY GraphAssumption
    <2>2. runFail' = None
      BY DEF Undisturbed, Decided
    <2>3. ~persistErr
      BY <1>3, <2>2, ErrorKept
    <2>4. CASE nodeStat[n] = "done"
      <3>1. SkipTold(n)
        BY <1>1, <2>3, <2>4 DEF DoneIsSettled
      <3> QED
        BY <1>3, <2>1, <3>1, SkipStays
    <2>5. CASE nodeStat[n] # "done"
      <3>1. \E i \in Appends(n, 1)' : persistQ'[i].row.status = "skipped"
        BY <1>3, <2>1, <2>5, SettlesUndisturbed
      <3> QED
        BY <3>1 DEF SkipTold
    <2> QED
      BY <2>4, <2>5
  <1> QED
    BY <1>2, <1>3

LEMMA NoEndStep ==
  ASSUME TypeOK, TypeOK', TaskInv, DecisionInv, GraphInv, RunRowInv, NoEndStands,
         [Next]_vars
  PROVE  NoEndStands'
  <1> DEFINE stalled == \A n \in Nodes : nodeStat[n] = "unready" => ~Ripe(n)
  <1>1. /\ NoEnd => pc \in {"closing", "returned", "failed"} /\ runFail = None
        /\ runFail # "no_end_reached"
        /\ persistQ # <<>> => pc \in Executing
    BY DEF NoEnd, RunRowInv, CleanIsReportedLast, ReportedClean, QueueWhileExecuting
  <1>2. CASE pc \in Executing /\ pc' \in Executing /\ dbRun' = dbRun
    BY <1>1, <1>2 DEF NoEndStands, NoEnd, Executing
  <1>3. CASE Persist
    <2>1. pc \in Executing /\ pc' = pc /\ dbRun'.error = dbRun.error
      BY <1>1, <1>3, PersistRun DEF Persist
    <2> QED
      BY <1>1, <2>1 DEF NoEndStands, NoEnd, Executing
  <1>4. CASE LoadVersion \/ CreateRun \/ BeginRun
    <2>1. pc \in {"load", "create", "begin"} /\ dbRun'.error = dbRun.error
      BY <1>4 DEF LoadVersion, CreateRun, BeginRun, storeVars, TypeOK, Run
    <2>2. "trigger_invalid" # None
      BY EngineAssumption DEF RunErrCodes
    <2>3. ~(pc' = "finalize" /\ runFail' = None)
      BY <1>4, <2>1, <2>2 DEF LoadVersion, CreateRun, BeginRun, GiveUp
    <2> QED
      BY <1>1, <2>1, <2>3 DEF NoEndStands, NoEnd
  <1>5. CASE FinishDrain
    <2>1. /\ pc = "draining" /\ dbRun' = dbRun
          /\ UNCHANGED <<edgeState, nodeStat>>
      BY <1>5 DEF FinishDrain, graphVars
    <2>2. stalled
      BY <2>1 DEF GraphInv, RipeIsOwed, DecisionInv, AdvancesUndecided
    <2> QED
      BY <1>1, <2>1, <2>2 DEF NoEndStands, NoEnd, Ripe
  <1>6. CASE SaveVerdict
    <2>1. /\ pc = "finalize" /\ pc' # "finalize"
          /\ UNCHANGED <<edgeState, nodeStat, endHit, runFail, cancelled>>
      BY <1>6 DEF SaveVerdict, GiveUp, verdictVars, graphVars, TypeOK, Run
    <2>2. NoEnd' => Verdict = "failed" /\ runFail = None
      BY <1>1, <1>6, <2>1 DEF SaveVerdict, NoEnd, TypeOK, Run
    <2>3. NoEnd' => ~cancelled /\ endHit = None /\ stalled
      BY <2>1, <2>2 DEF Verdict, NoEndStands
    <2> QED
      BY <2>1, <2>3 DEF NoEndStands, Ripe
  <1>7. CASE CloseRun
    <2>1. /\ pc' \in {"returned", "failed"} /\ dbRun'.error = dbRun.error
          /\ UNCHANGED <<edgeState, nodeStat, endHit, cancelled>>
      BY <1>7 DEF CloseRun, GiveUp, verdictVars, graphVars, TypeOK, Run
    <2> QED
      BY <2>1 DEF NoEndStands, NoEnd, Ripe
  <1>8. CASE (\E n \in Nodes : Worker(n) \/ RetryTimer(n)) \/ CallerCancels
             \/ UNCHANGED vars
    <2>1. UNCHANGED <<pc, runFail, cancelled, endHit, dbRun>>
      BY <1>8, OutsideSteps
    <2>2. UNCHANGED <<edgeState, nodeStat>>
      BY <1>8 DEF Worker, WorkerEnds, RetryTimer, TimerFires, CallerCancels, vars,
                  driverVars, graphVars
    <2> QED
      BY <2>1, <2>2 DEF NoEndStands, NoEnd, Ripe
  <1> QED
    BY <1>2, <1>3, <1>4, <1>5, <1>6, <1>7, <1>8, LoopSteps DEF Next, Driver, Over

LEMMA SettledAlways == Spec => []SettledInv
  <1>1. Init => SettledInv
    BY ContextInit, SettledInit DEF SettledInv
  <1>2. TypeOK /\ TypeOK' /\ TaskInv /\ DecisionInv /\ GraphInv /\ RowInv /\ RunRowInv
          /\ SettledInv /\ [Next]_vars => SettledInv'
    BY ContextStep, DoneStep, NoEndStep DEF SettledInv
  <1> QED
    BY <1>1, <1>2, TypeCorrect, TasksAlways, DecisionAlways, GraphAlways, RowsAlways,
       RunRowAlways, PTL DEF Spec

LEMMA Unripe ==
  ASSUME TypeOK, NEW n \in Nodes, ~Ripe(n)
  PROVE  \E e \in InEdges(n) : edgeState[e] = "pending"
  BY DEF Ripe, ReadyToRun, ReadyToSkip

(***************************************************************************)
(* In a graph without cycles, which publishing requires, a run that fails  *)
(* with no_end_reached has completed every node, and skipped every End:    *)
(* neither a lost wakeup nor a context that ended unnoticed can look like  *)
(* it (finalize.go:17).  A node left over would have an in-edge pending,   *)
(* whose source would be left over too.                                    *)
(***************************************************************************)
THEOREM NoEndIsAllSkipped ==
  ASSUME Acyclic
  PROVE  Spec => []NoEndMeansAllSkipped
  <1>1. ASSUME TypeOK, TaskInv, EndInv, RunRowInv, SettledInv, NoEnd
        PROVE  /\ \A n \in Nodes : nodeStat[n] = "done"
               /\ \A n \in EndNodes : rows[n][1].status = "skipped"
    <2>1. /\ pc \in {"closing", "returned", "failed"} /\ runFail = None
          /\ ~cancelled /\ endHit = None
          /\ \A n \in Nodes : nodeStat[n] = "unready" => ~Ripe(n)
      BY <1>1 DEF NoEnd, RunRowInv, CleanIsReportedLast, ReportedClean, SettledInv,
                  NoEndStands
    <2>2. Undisturbed
      BY <2>1 DEF Undisturbed, Decided
    <2>3. persistQ = <<>> /\ ~persistErr /\ Tokens = {}
      BY <1>1, <2>1 DEF EndInv, NothingMore, NothingLeftBehind
    <2>4. \A n \in Nodes : nodeStat[n] \in {"unready", "done"}
      BY <1>1, <2>3 DEF TypeOK, TaskInv, OneAttemptAtATime
    <2> DEFINE left == {n \in Nodes : nodeStat[n] = "unready"}
    <2>5. \A n \in left : \E e \in InEdges(n) : EdgeFrom[e] \in left
      <3> SUFFICES ASSUME NEW n \in left PROVE \E e \in InEdges(n) : EdgeFrom[e] \in left
        OBVIOUS
      <3>1. PICK e \in InEdges(n) : edgeState[e] = "pending"
        BY <1>1, <2>1, Unripe
      <3>2. e \in Edges /\ EdgeFrom[e] \in Nodes
        BY GraphAssumption DEF InEdges
      <3>3. nodeStat[EdgeFrom[e]] # "done"
        BY <1>1, <2>2, <3>1, <3>2 DEF SettledInv, DoneIsSettled
      <3> QED
        BY <2>4, <3>2, <3>3
    <2>6. left = {}
      BY <2>5 DEF Acyclic
    <2>7. \A n \in Nodes : nodeStat[n] = "done"
      BY <2>4, <2>6
    <2>8. ASSUME NEW n \in EndNodes PROVE rows[n][1].status = "skipped"
      <3>1. nodeStat[n] = "done"
        BY <2>7, GraphAssumption
      <3>2. SkipTold(n)
        BY <1>1, <2>2, <2>3, <3>1 DEF SettledInv, DoneIsSettled
      <3>3. Appends(n, 1) = {}
        BY <2>3 DEF Appends, Queued
      <3> QED
        BY <3>2, <3>3 DEF SkipTold
    <2> QED
      BY <2>7, <2>8
  <1>2. TypeOK /\ TaskInv /\ EndInv /\ RunRowInv /\ SettledInv => NoEndMeansAllSkipped
    BY <1>1 DEF NoEndMeansAllSkipped, NoEnd
  <1> QED
    BY <1>2, TypeCorrect, TasksAlways, EndAlways, RunRowAlways, SettledAlways, PTL
-----------------------------------------------------------------------------

(***************************************************************************)
(* Every part of the invariant the engine's proofs rest on holds in every  *)
(* reachable state: the driver's tasks, counters and graph agree with each *)
(* other, and with the writes waiting in the persister's queue and the     *)
(* rows already stored (driver.go:40, scheduler.go:26, persist.go:33).     *)
(***************************************************************************)
THEOREM InvariantsHold == Spec => []EngineInv
  <1>1. /\ DecisionInv /\ TaskInv /\ CountInv /\ EndInv /\ GraphInv
        /\ RowInv /\ StoryInv /\ CausalInv /\ RunRowInv /\ CleanInv /\ SuccessInv
        /\ SettledInv
        => EngineInv
    BY DEF EngineInv, EndInv
  <1> QED
    BY <1>1, DecisionAlways, TasksAlways, CountsAlways, EndAlways, GraphAlways,
       RowsAlways, StoryAlways, CausesAlways, RunRowAlways, CleanAlways,
       SuccessAlways, SettledAlways, PTL
=============================================================================
