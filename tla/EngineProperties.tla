--------------------------- MODULE EngineProperties ---------------------------
(***************************************************************************)
(* What one run promises: properties of module Engine.                     *)
(***************************************************************************)
EXTENDS Engine, FiniteSets

(***************************************************************************)
(* Every attempt under way, with where it is: being executed, waiting in   *)
(* done, in the driver's hands, or waiting for its timer or in retryCh.    *)
(***************************************************************************)
Tokens ==
  {[at |-> "worker", task |-> t] : t \in work}
  \cup {[at |-> "done", task |-> r] : r \in results}
  \cup {[at |-> "driver", task |-> r] : r \in {cur} \ {None}}
  \cup {[at |-> "timer", task |-> t] : t \in timers}
  \cup {[at |-> "retryCh", task |-> rt] : rt \in retryCh}

Waits(x) == x.at \in {"timer", "retryCh"}

(***************************************************************************)
(* The counters the loop's condition reads are exact: inflight counts the  *)
(* workers and their unread results, pendingRetries the armed timers and   *)
(* the unread retry events.  An error in either ends the loop early, with  *)
(* goroutines blocked on a channel nobody reads, or never (engine.go:175). *)
(***************************************************************************)
CountersExact ==
  /\ inflight = Cardinality(work) + Cardinality(results)
  /\ pendingRetries = Cardinality(timers) + Cardinality(retryCh)

(***************************************************************************)
(* A node is running exactly while it has one token, and the token carries *)
(* the attempt attemptCounter says, or the next one while a retry waits.   *)
(* So no two attempts of a node overlap, and retryCh, made for one event   *)
(* per node, never blocks its sender (engine.go:158).                      *)
(***************************************************************************)
OneAttemptAtATime ==
  /\ \A n \in Nodes :
       nodeStat[n] = "running" <=> \E x \in Tokens : x.task.node = n
  /\ \A x, y \in Tokens : x.task.node = y.task.node => x = y
  /\ \A x \in Tokens :
       x.task.attempt = attemptCounter[x.task.node] + (IF Waits(x) THEN 1 ELSE 0)

(***************************************************************************)
(* Reaching an End and being cancelled exclude each other.  finalize tests *)
(* cancelled before endHit; were both set, a run whose End was reached     *)
(* would be reported as cancelled (finalize.go:10).                        *)
(***************************************************************************)
EndExcludesCancel == ~(cancelled /\ endHit # None)

(***************************************************************************)
(* Only the caller's context cancels a run: cancelOnce(false), which the   *)
(* driver calls on itself after an End or a failure, is never taken for    *)
(* it (engine.go:167, scheduler.go:177).                                   *)
(***************************************************************************)
SelfCancelIsNoCancellation == cancelled => MayCancel

(***************************************************************************)
(* Why the last two hold.  The part of handleResult after its checks of    *)
(* the context only runs for a run that is neither cancelled nor decided;  *)
(* once decided the loop no longer listens to the context and nothing is   *)
(* advanced; and when the caller cannot cancel, the context ends only      *)
(* after the decision.                                                     *)
(***************************************************************************)
StartsUndecided   == pc \in {"load", "create", "begin"} => ~Decided /\ todo = {}
HandlesUndecided  == pc = "handling" => ~cancelled /\ ~Decided
DecidedIsDeaf     == pc = "loop" /\ Decided => ~listening
AdvancesUndecided == todo # {} => pc = "advancing" /\ ~Decided
SelfCancelled     == ctxErr => MayCancel \/ (Decided /\ ~listening)

DecisionInv ==
  /\ EndExcludesCancel
  /\ SelfCancelIsNoCancellation
  /\ StartsUndecided
  /\ HandlesUndecided
  /\ DecidedIsDeaf
  /\ AdvancesUndecided
  /\ SelfCancelled

(***************************************************************************)
(* No lost wakeup: whenever the driver waits in its select, every node     *)
(* that has not started is one that may neither run nor be skipped yet.    *)
(***************************************************************************)
NoLostWakeup ==
  pc = "loop" =>
    \A n \in Nodes : nodeStat[n] = "unready" =>
      ~ReadyToRun(n, edgeState) /\ ~ReadyToSkip(n, edgeState)

(***************************************************************************)
(* A run that fails with no_end_reached has settled its whole graph, and   *)
(* every End has a skipped row: the verdict never hides a node that was    *)
(* forgotten (finalize.go:17).                                             *)
(***************************************************************************)
NoEndMeansAllSkipped ==
  dbRun.error = "no_end_reached" =>
    /\ \A n \in Nodes : nodeStat[n] = "done"
    /\ \A n \in EndNodes : rows[n][1].status = "skipped"

(***************************************************************************)
(* Rows appear in causal order.  At any moment, hence after any crash, a   *)
(* node with a row that says it ran has its in-edges fired by finished     *)
(* rows (all of them for join all, one otherwise), and a skipped node has  *)
(* only predecessors that were skipped or fired elsewhere, so far as its   *)
(* join needs (persist.go:33, scheduler.go:301).                           *)
(***************************************************************************)
FiredRow(e) ==
  \E a \in Attempts : LET row == rows[EdgeFrom[e]][a] IN
    row.status \in {"success", "failed"} /\ row.port = EdgePort[e]

DeadRow(e) ==
  \E a \in Attempts : LET row == rows[EdgeFrom[e]][a] IN
    \/ row.status = "skipped"
    \/ /\ row.status \in {"success", "failed"}
       /\ row.port \notin {NoPort, EdgePort[e]}

CausalRows ==
  faults = 0 =>
    \A n \in Nodes \ Roots :
      /\ rows[n][1].status \notin {"absent", "skipped"} =>
           IF n \in JoinAllNodes THEN \A e \in InEdges(n) : FiredRow(e)
                                 ELSE \E e \in InEdges(n) : FiredRow(e)
      /\ rows[n][1].status = "skipped" =>
           IF n \in JoinAllNodes
           THEN /\ \A e \in InEdges(n) : FiredRow(e) \/ DeadRow(e)
                /\ \E e \in InEdges(n) : DeadRow(e)
           ELSE \A e \in InEdges(n) : DeadRow(e)

(***************************************************************************)
(* The rows of a node are the story of its attempts: every attempt but the *)
(* last is a failure that fired nothing, and only the attempt that used up *)
(* the policy may be failed and still have fired a port (fallback, or the  *)
(* error port; scheduler.go:200).                                          *)
(***************************************************************************)
AttemptStory ==
  faults = 0 =>
    \A n \in Nodes, a \in Attempts :
      /\ rows[n][a].status # "absent" => a <= MaxRetries[n] + 1
      /\ (a > 1 /\ rows[n][a].status # "absent") =>
           rows[n][a - 1].status = "failed" /\ rows[n][a - 1].port = NoPort
      /\ (rows[n][a].status = "failed" /\ rows[n][a].port # NoPort) =>
           /\ a = MaxRetries[n] + 1
           /\ IF rows[n][a].fallback
              THEN rows[n][a].port = FallbackPort[n]
              ELSE rows[n][a].port = ErrorPort

(***************************************************************************)
(* A run reported as success or cancelled, or as having reached no End,    *)
(* has a complete history even when the database failed on the way: every  *)
(* attempt has a row, no row is left running, and the variables saved are  *)
(* the last the run had (engine.go:209, persist.go:33).                    *)
(***************************************************************************)
HistoryComplete ==
  (dbRun.status \in {"success", "cancelled"} \/ dbRun.error = "no_end_reached") =>
    /\ \A n \in Nodes, a \in Attempts :
         /\ rows[n][a].status # "running"
         /\ a <= attemptCounter[n] => rows[n][a].status # "absent"
    /\ dbRun.vars = symVars

(***************************************************************************)
(* A run reported as success ended at an End whose last row finished by    *)
(* propagating, never by being discarded; its output is that row's         *)
(* (finalize.go:25).                                                       *)
(***************************************************************************)
SuccessHasItsEnd ==
  dbRun.status = "success" =>
    /\ dbRun.endNode \in EndNodes
    /\ \E a \in Latest(dbRun.endNode) :
         LET row == rows[dbRun.endNode][a] IN
           /\ row.status \in {"success", "failed"}
           /\ row.port # NoPort
           /\ dbRun.output = row.resolved

(***************************************************************************)
(* The engine never asks the database for something it refuses: without a  *)
(* database fault no write is rejected (no duplicate attempt, no missing   *)
(* row, no illegal status transition), so a persistence_error and an error *)
(* returned by Start after the run was created mean the database failed    *)
(* (infrastructure/storage/run/repository.go:114).                         *)
(***************************************************************************)
NoRefusedWrite ==
  faults = 0 =>
    /\ ~persistErr
    /\ runFail # "persistence_error"
    /\ pc = "failed" => dbRun.status = "absent"

(***************************************************************************)
(* When a run comes to its verdict, or Start returns an error, nothing it  *)
(* started is left: no worker runs or holds a result, no timer or retry    *)
(* event is pending, every write was applied and no error is unread        *)
(* (engine.go:175, 209-217).                                               *)
(***************************************************************************)
NothingLeftBehind ==
  pc \in {"finalize", "closing", "returned", "failed"} =>
    /\ work = {} /\ results = {} /\ timers = {} /\ retryCh = {}
    /\ persistQ = <<>> /\ ~persistErr
-----------------------------------------------------------------------------
(***************************************************************************)
(* An edge is resolved once: no node completes twice, and a skip never     *)
(* kills an edge that was live (scheduler.go:315, 354).                    *)
(***************************************************************************)
EdgesResolveOnce ==
  [][\A e \in Edges : edgeState[e] # "pending" => edgeState'[e] = edgeState[e]]_edgeState

(***************************************************************************)
(* Once an End is reached or the run has failed, no attempt starts, and    *)
(* the End that was reached first stays the one (engine.go:185).           *)
(***************************************************************************)
NothingStartsOnceDecided ==
  [][Decided => work' \subseteq work /\ (endHit # None => endHit' = endHit)]_vars

(***************************************************************************)
(* Start returns.  The executor of a Stubborn node ends only with its      *)
(* context, so this needs every End and every failure to reach each worker *)
(* and timer through cancelOnce (engine.go:166, retry.go:65).              *)
(***************************************************************************)
Terminates == <>(pc \in {"returned", "failed"})

(***************************************************************************)
(* First End wins: a run that reaches an End ends as a success with that   *)
(* End, unless the database fails (scheduler.go:307, finalize.go:15).      *)
(***************************************************************************)
EndLeadsToSuccess ==
  \A n \in EndNodes :
    (endHit = n) ~> \/ dbRun.status = "success" /\ dbRun.endNode = n
                    \/ faults > 0
-----------------------------------------------------------------------------
(***************************************************************************)
(* The rows the engine leaves in the database, at every moment and so      *)
(* after any crash, are a history RunHistory allows (persist.go:45,        *)
(* engine.go:120, finalize.go:9).                                          *)
(***************************************************************************)
History == INSTANCE RunHistory WITH
  status   <- dbRun.status,
  attempts <- [n \in Nodes |-> [a \in Attempts |-> rows[n][a].status]],
  lossy    <- faults > 0

ImplementsHistory == History!Spec
-----------------------------------------------------------------------------
(***************************************************************************)
(* Claims of the documents and comments that the code does not keep.       *)
(***************************************************************************)

(***************************************************************************)
(* The design's comment on the retry branch of the loop: once the context  *)
(* was cancelled no new attempt is dispatched.  The code tests ctxDone,    *)
(* which is still set between the cancellation and the loop's ctxDone      *)
(* case, also after handleResult itself recorded the cancellation.         *)
(***************************************************************************)
NoAttemptOnceCancelled ==
  [][cancelled => work' \subseteq work]_vars

(***************************************************************************)
(* The design on first-end-wins: after an End the other branches end as    *)
(* cancelled and the run as success.  A late result whose output does not  *)
(* marshal makes its own cancelled write fail, and the run with it.        *)
(***************************************************************************)
EndMeansSuccess ==
  (pc = "returned" /\ endHit # None /\ faults = 0) => dbRun.status = "success"
=============================================================================
