-------------------------- MODULE ValidatorProperties --------------------------
(***************************************************************************)
(* What ValidateForPublish promises: properties of module Validator.       *)
(* Paths and cycles are stated through sets of nodes closed under edges,   *)
(* not through the walks that look for them.                               *)
(***************************************************************************)
EXTENDS Validator

Starts == IdsOfType(dsl, "start")
Ends   == IdsOfType(dsl, "end")

Accepted == pc = "done" /\ errs = {}

\* Every node of S has an edge from within S.
FedFromWithin(S) ==
  \A m \in S : \E e \in Edges(dsl) : e.to = m /\ e.from \in S

\* No edge leaves S.
Closed(S) == \A e \in Edges(dsl) : e.from \in S => e.to \in S

(***************************************************************************)
(* A cycle is reported exactly when there is one, whatever the order Go    *)
(* iterates indeg in and however many edges dangle: a graph has a cycle    *)
(* when a non-empty set of its nodes is fed from within.  The engine       *)
(* skips and advances recursively and would never start the nodes of a     *)
(* cycle (validator.go:544, scheduler.go:346).                             *)
(***************************************************************************)
CycleFoundIffCyclic ==
  pc = "done" =>
    ("cycle" \in errs <=> \E S \in (SUBSET Ids(dsl)) \ {{}} : FedFromWithin(S))

(***************************************************************************)
(* That no path leads to an End is reported exactly when there are Starts  *)
(* and Ends and a set closed under edges parts them.  One End reached is   *)
(* enough: branches beside it may lead nowhere (validator.go:321-361).     *)
(***************************************************************************)
PathFoundIffPath ==
  pc = "done" =>
    ("no_path_to_end" \in errs <=>
       /\ Starts # {} /\ Ends # {}
       /\ \E S \in SUBSET NodeIds : Starts \subseteq S /\ S \cap Ends = {} /\ Closed(S))

(***************************************************************************)
(* What the engine takes for granted about an accepted workflow.  The      *)
(* nodes without in-edges, which it dispatches first, are the one Start,   *)
(* and no edge leads back to it (engine.go:160); an End has no out-edges,  *)
(* which propagate would leave pending (scheduler.go:307); and every node, *)
(* so every End, is reached from the Start.  checkNoPathToEnd asks for one *)
(* End only; the rest follows from the in-degrees, the ports and           *)
(* acyclicity, checks that do not know of each other (validator.go:222,    *)
(* 322, 365, 544).                                                         *)
(***************************************************************************)
AcceptedFitsEngine ==
  Accepted =>
    /\ \E s \in Ids(dsl) : Starts = {s} /\ {m \in Ids(dsl) : InDegree(dsl, m) = 0} = {s}
    /\ \A e \in Edges(dsl) : e.from \notin Ends
    /\ \A S \in SUBSET Ids(dsl) : Starts \subseteq S /\ Closed(S) => S = Ids(dsl)
=============================================================================
