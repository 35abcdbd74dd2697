------------------------------ MODULE RunHistory ------------------------------
(***************************************************************************)
(* What a reader of the database may rely on while a run is executed and   *)
(* afterwards: the abstract specification that module Engine implements.   *)
(*                                                                         *)
(* The statuses and their legal successors are those of domain/run         *)
(* (workflow_run.go, node_run.go).  Beyond them the history promises that  *)
(* attempts of a node follow each other, each after a failed one; that a   *)
(* skipped node has no attempt; and that once the run's own row is         *)
(* terminal nothing changes any more.  A run only ends as success or       *)
(* cancelled when no attempt is open and no write was lost.                *)
(***************************************************************************)
EXTENDS Naturals

CONSTANTS Nodes, Attempts

VARIABLES
  status,   \* status of the workflow_runs row, "absent" before it exists
  attempts, \* node -> attempt -> status of the workflow_node_runs row
  lossy     \* a write was lost

hvars == <<status, attempts, lossy>>

Open == {n \in Nodes : \E a \in Attempts : attempts[n][a] = "running"}

Init ==
  /\ status = "absent"
  /\ attempts = [n \in Nodes |-> [a \in Attempts |-> "absent"]]
  /\ lossy = FALSE

Create ==
  /\ status = "absent"
  /\ status' = "pending"
  /\ UNCHANGED <<attempts, lossy>>

Begin ==
  /\ status = "pending"
  /\ status' = "running"
  /\ UNCHANGED <<attempts, lossy>>

\* A row is inserted: the first attempt, the one after a failure, or, once
\* the first is known to fail, the record that it will not be tried.
NewRow(n, a, s) ==
  /\ status = "running"
  /\ attempts[n][a] = "absent"
  /\ s = "skipped"   => a = 1
  /\ s = "cancelled" => a > 1
  /\ a > 1 => lossy \/ attempts[n][a - 1] = "failed"
  /\ attempts' = [attempts EXCEPT ![n][a] = s]
  /\ UNCHANGED <<status, lossy>>

FinishRow(n, a, s) ==
  /\ status = "running"
  /\ attempts[n][a] = "running"
  /\ attempts' = [attempts EXCEPT ![n][a] = s]
  /\ UNCHANGED <<status, lossy>>

LoseWrite ==
  /\ lossy' = TRUE
  /\ UNCHANGED <<status, attempts>>

Close(s) ==
  /\ status = "running"
  /\ s # "failed" => Open = {} /\ ~lossy
  /\ status' = s
  /\ UNCHANGED <<attempts, lossy>>

Next ==
  \/ Create
  \/ Begin
  \/ \E n \in Nodes, a \in Attempts :
       \/ \E s \in {"running", "skipped", "cancelled"} : NewRow(n, a, s)
       \/ \E s \in {"success", "failed", "cancelled"} : FinishRow(n, a, s)
  \/ LoseWrite
  \/ \E s \in {"success", "failed", "cancelled"} : Close(s)

Spec == Init /\ [][Next]_hvars
=============================================================================
