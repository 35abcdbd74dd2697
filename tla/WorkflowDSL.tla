----------------------------- MODULE WorkflowDSL -----------------------------
(***************************************************************************)
(* The static part of one published workflow version, as the engine sees   *)
(* it: the graph, the ports, the error policies, and the readiness rule a  *)
(* node is judged by (domain/engine/scheduler.go, domain/workflow).        *)
(*                                                                         *)
(* A node's ID, an edge's ID and a port are atomic values.  Config, Inputs *)
(* and outputs are abstracted to what the scheduler can tell apart: which  *)
(* port an execution fires, or the way it fails.                           *)
(***************************************************************************)
EXTENDS Naturals

CONSTANTS
  Nodes,         \* dsl.Nodes (their IDs)
  Edges,         \* dsl.Edges (their IDs; parallel edges are distinct)
  EdgeFrom,      \* edge -> source node
  EdgeTo,        \* edge -> target node
  EdgePort,      \* edge -> FromPort
  Ports,         \* port names
  DefaultPort,   \* workflow.PortDefault
  ErrorPort,     \* workflow.PortError
  NoPort,        \* the empty FiredPort
  JoinAllNodes,  \* builtin.join nodes whose mode parses to "all"
  EndNodes,      \* builtin.end nodes
  SetVarNodes,   \* builtin.set_variable nodes
  MaxRetries,    \* node -> ErrorPolicy.MaxRetries
  OnFinalFail,   \* node -> ErrorPolicy.OnFinalFail, defaulted
  FallbackPort,  \* node -> FallbackOutput.Port, defaulted
  TimedNodes,    \* nodes whose ErrorPolicy.Timeout is positive
  Outcomes       \* node -> the ways its executor may end (see Outcome)

(***************************************************************************)
(* How one execution of a node ends: it fires a port, it fires a port with *)
(* an output that does not marshal, its executor fails, its inputs or its  *)
(* config do not resolve, or it gives up because its context ended.        *)
(***************************************************************************)
Errors  == {"exec", "unresolved", "ctx"}
Outcome == Ports \cup {"unserializable"} \cup Errors

Strategies == {"fallback", "fire_error_port", "fail_run"}

ASSUME GraphAssumption ==
  /\ EdgeFrom \in [Edges -> Nodes]
  /\ EdgeTo   \in [Edges -> Nodes]
  /\ EdgePort \in [Edges -> Ports]
  /\ JoinAllNodes \subseteq Nodes
  /\ EndNodes \subseteq Nodes
  /\ SetVarNodes \subseteq Nodes
  /\ TimedNodes \subseteq Nodes

ASSUME PortAssumption ==
  /\ DefaultPort \in Ports
  /\ ErrorPort \in Ports
  /\ NoPort \notin Ports \cup {"unserializable"}
  /\ Ports \cap (Errors \cup {"unserializable"}) = {}

ASSUME PolicyAssumption ==
  /\ MaxRetries   \in [Nodes -> Nat]
  /\ OnFinalFail  \in [Nodes -> Strategies]
  /\ FallbackPort \in [Nodes -> Ports]
  /\ Outcomes     \in [Nodes -> SUBSET Outcome]

InEdges(n)  == {e \in Edges : EdgeTo[e] = n}
OutEdges(n) == {e \in Edges : EdgeFrom[e] = n}
Targets(n)  == {EdgeTo[e] : e \in OutEdges(n)}
Roots       == {n \in Nodes : InEdges(n) = {}}

EdgeStates == {"pending", "live", "dead"}

\* A wrong mode for joins: all of them treated as "any".
ReadyToRunAny(n, es) ==
  InEdges(n) = {} \/ \E e \in InEdges(n) : es[e] = "live"

(***************************************************************************)
(* evaluate: the zero joinMode is joinAny, so every node that is not a     *)
(* join in mode "all" starts on its first live in-edge.  With one in-edge  *)
(* both modes coincide, which is why the code's n == 1 branch needs no     *)
(* case of its own.                                                        *)
(***************************************************************************)
ReadyToRun(n, es) ==
  \/ InEdges(n) = {}
  \/ IF n \in JoinAllNodes
     THEN \A e \in InEdges(n) : es[e] = "live"
     ELSE \E e \in InEdges(n) : es[e] = "live"

ReadyToSkip(n, es) ==
  /\ \A e \in InEdges(n) : es[e] # "pending"
  /\ ~ReadyToRun(n, es)

Attempts == UNION {1..(MaxRetries[n] + 1) : n \in Nodes}
==============================================================================
