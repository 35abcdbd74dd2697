------------------------------- MODULE Validator -------------------------------
(***************************************************************************)
(* ValidateForPublish (domain/validator/validator.go): the checks a        *)
(* workflow passes before it is published.  All violations are collected,  *)
(* so every check runs on every input, whatever the others found.          *)
(*                                                                         *)
(* The two checks that walk the graph, breadth first from the Start nodes  *)
(* and Kahn's sort, are stepped through with their queues; the others are  *)
(* operators from a workflow to the codes they report.  Go iterates maps   *)
(* in any order, so the walks take any element of their queue.             *)
(***************************************************************************)
EXTENDS Integers, Sequences, FiniteSets

CONSTANTS
  NodeIds,      \* strings used as node IDs, in nodes or only in edges
  PortsOf,      \* known node type -> ports its NodeType declares
  ValidNames,   \* names that match portNamePattern
  Inputs        \* the workflows to validate

ASSUME TypeAssumption ==
  /\ {"start", "end", "join", "switch"} \subseteq DOMAIN PortsOf
  /\ PortsOf["end"] = {}

VARIABLES
  dsl,       \* the workflow
  pc,        \* the part of ValidateForPublish under way
  errs,      \* codes reported so far
  seen, queue,            \* of the walk under way
  indeg, visited          \* of Kahn's sort

vars == <<dsl, pc, errs, seen, queue, indeg, visited>>

-----------------------------------------------------------------------------
(***************************************************************************)
(* A workflow d has a list of nodes and a list of edges.  A node has its   *)
(* id, its type, what is read of its Config (whether it parses, the mode   *)
(* of a join, the case names of a switch), its OnFinalFail policy with the *)
(* fallback port, the nodes its inputs refer to, and whether a required    *)
(* input is unbound.  nodeByID keeps the last node of an ID.               *)
(***************************************************************************)
Nodes(d) == {d.nodes[i] : i \in DOMAIN d.nodes}
Edges(d) == {d.edges[i] : i \in DOMAIN d.edges}
Ids(d)   == {n.id : n \in Nodes(d)}

NodeById(d, id) ==
  d.nodes[CHOOSE i \in DOMAIN d.nodes :
            /\ d.nodes[i].id = id
            /\ \A j \in DOMAIN d.nodes : d.nodes[j].id = id => j <= i]

IdsOfType(d, t) == {n.id : n \in {m \in Nodes(d) : m.type = t}}

\* Nodes and edges come as slices; NodeIds has every ID there is.
ASSUME InputsAssumption ==
  \A d \in Inputs :
    /\ d.nodes \in Seq(Nodes(d)) /\ d.edges \in Seq(Edges(d))
    /\ Ids(d) \subseteq NodeIds
    /\ \A e \in Edges(d) : {e.from, e.to} \subseteq NodeIds

InDegree(d, id) == Cardinality({i \in DOMAIN d.edges : d.edges[i].to = id})

\* outputPortsOf
OutputPorts(n) ==
  IF n.type = "switch" THEN {n.cases[i] : i \in DOMAIN n.cases} \cup {"default", "error"}
  ELSE IF n.type \in DOMAIN PortsOf THEN PortsOf[n.type]
  ELSE {}

If(c, code) == IF c THEN {code} ELSE {}
-----------------------------------------------------------------------------
(***************************************************************************)
(* The checks before the walk from Start.                                  *)
(***************************************************************************)
CheckStartEnd(d) ==
  If(IdsOfType(d, "start") = {}, "missing_start")
    \cup If(IdsOfType(d, "end") = {}, "missing_end")

CheckSingleStart(d) ==
  If(Cardinality({i \in DOMAIN d.nodes : d.nodes[i].type = "start"}) > 1,
     "multiple_starts")

CheckUniqueIDs(d) ==
  If(\E i, j \in DOMAIN d.nodes : i # j /\ d.nodes[i].id = d.nodes[j].id,
     "duplicate_node_id")
    \cup If(\E i, j \in DOMAIN d.edges : i # j /\ d.edges[i].id = d.edges[j].id,
            "duplicate_edge_id")

CheckNodeTypesExist(d) ==
  If(\E n \in Nodes(d) : n.type \notin DOMAIN PortsOf, "unknown_node_type")

CheckEdgeTargets(d) ==
  If(\E e \in Edges(d) : {e.from, e.to} \ Ids(d) # {}, "dangling_edge")

CheckEdgeFromPorts(d) ==
  If(\E e \in Edges(d) :
       /\ e.from \in Ids(d)
       /\ NodeById(d, e.from).type \in DOMAIN PortsOf
       /\ e.port \notin OutputPorts(NodeById(d, e.from)),
     "unknown_from_port")

CheckRefValues(d) ==
  If(\E n \in Nodes(d) : n.refs \ Ids(d) # {}, "dangling_ref")

CheckRequiredInputs(d) ==
  If(\E n \in Nodes(d) : n.type \in DOMAIN PortsOf /\ n.unbound,
     "required_input_missing")

FirstChecks(d) ==
  UNION {CheckStartEnd(d), CheckSingleStart(d), CheckUniqueIDs(d),
         CheckNodeTypesExist(d), CheckEdgeTargets(d), CheckEdgeFromPorts(d),
         CheckRefValues(d), CheckRequiredInputs(d)}
-----------------------------------------------------------------------------
(***************************************************************************)
(* The checks after it.                                                    *)
(***************************************************************************)
\* A wrong check: only nodes without any edge are isolated.
CheckLoneNode(d) ==
  If(\E n \in Nodes(d) : /\ \A e \in Edges(d) : n.id \notin {e.from, e.to}
                         /\ n.type # "start",
     "isolated_node")

CheckIsolatedNode(d) ==
  If(\E n \in Nodes(d) : InDegree(d, n.id) = 0 /\ n.type # "start",
     "isolated_node")

CheckMultiInputRequiresJoin(d) ==
  If(\E n \in Nodes(d) : InDegree(d, n.id) > 1 /\ n.type # "join",
     "multi_input_requires_join")

CheckJoin(d) ==
  LET joins == {n \in Nodes(d) : n.type = "join"} IN
  If(\E n \in joins : InDegree(d, n.id) < 2, "join_insufficient_inputs")
    \cup If(\E n \in joins : ~n.parses, "join_config_invalid")
    \cup If(\E n \in joins : n.parses /\ n.mode \notin {"any", "all"},
            "join_mode_invalid")

Reserved(name) == name \in {"default", "error"} \/ name \notin ValidNames

CheckSwitchCaseNames(d) ==
  LET switches == {n \in Nodes(d) : n.type = "switch"} IN
  If(\E n \in switches : ~n.parses, "switch_config_invalid")
    \cup If(\E n \in switches : n.parses /\ \E i \in DOMAIN n.cases : Reserved(n.cases[i]),
            "switch_case_name_reserved")
    \cup If(\E n \in switches :
              /\ n.parses
              /\ \E i, j \in DOMAIN n.cases :
                   i # j /\ n.cases[i] = n.cases[j] /\ ~Reserved(n.cases[i]),
            "switch_case_name_duplicate")

\* Also without a port: the empty name is no port.
CheckFallbackPort(d) ==
  If(\E n \in Nodes(d) : n.policy = "fallback" /\ n.port \notin OutputPorts(n),
     "fallback_port_invalid")

CheckFireErrorPort(d) ==
  If(\E n \in Nodes(d) : n.policy = "fire_error_port" /\ "error" \notin OutputPorts(n),
     "fire_error_port_requires_error_port")

LastChecks(d) ==
  UNION {CheckIsolatedNode(d), CheckMultiInputRequiresJoin(d), CheckJoin(d),
         CheckSwitchCaseNames(d), CheckFallbackPort(d), CheckFireErrorPort(d)}
-----------------------------------------------------------------------------
(***************************************************************************)
(* ValidateForPublish.                                                     *)
(***************************************************************************)
Init ==
  /\ dsl \in Inputs
  /\ pc = "parts"
  /\ errs = {}
  /\ seen = {} /\ queue = {}
  /\ indeg = [m \in NodeIds |-> 0]
  /\ visited = 0

\* checkNoPathToEnd walks only when there is a Start and an End.
CheckParts ==
  LET starts == IdsOfType(dsl, "start") IN
  /\ pc = "parts"
  /\ errs' = errs \cup FirstChecks(dsl)
  /\ IF starts = {} \/ IdsOfType(dsl, "end") = {}
     THEN pc' = "rest" /\ UNCHANGED <<seen, queue>>
     ELSE pc' = "walk" /\ seen' = starts /\ queue' = starts
  /\ UNCHANGED <<dsl, indeg, visited>>

\* The walk follows dangling edges too.
Walk ==
  /\ pc = "walk"
  /\ \E n \in queue :
       LET next == {e.to : e \in {f \in Edges(dsl) : f.from = n}} IN
       /\ seen' = seen \cup next
       /\ queue' = (queue \ {n}) \cup (next \ seen)
  /\ UNCHANGED <<dsl, pc, errs, indeg, visited>>

\* A wrong end of the walk: every End has to be seen.
PathToAll(d, s) == IdsOfType(d, "end") \subseteq s

PathFound(d, s) == IdsOfType(d, "end") \cap s # {}

WalkEnds ==
  /\ pc = "walk"
  /\ queue = {}
  /\ errs' = errs \cup If(~PathFound(dsl, seen), "no_path_to_end")
  /\ pc' = "rest"
  /\ UNCHANGED <<dsl, seen, queue, indeg, visited>>

\* A wrong sort: edges from or to unknown nodes count as well.
AllEdges(d) == DOMAIN d.edges

\* Kahn's sort leaves dangling edges out.
RealEdges(d) == {i \in DOMAIN d.edges : {d.edges[i].from, d.edges[i].to} \subseteq Ids(d)}

CheckRest ==
  /\ pc = "rest"
  /\ errs' = errs \cup LastChecks(dsl)
  /\ indeg' = [m \in NodeIds |->
                 Cardinality({i \in RealEdges(dsl) : dsl.edges[i].to = m})]
  /\ queue' = {m \in Ids(dsl) : indeg'[m] = 0}
  /\ pc' = "sort"
  /\ UNCHANGED <<dsl, seen, visited>>

Free(left) == left = 0

Sort ==
  /\ pc = "sort"
  /\ \E n \in queue :
       LET Between(m) == {i \in RealEdges(dsl) :
                            dsl.edges[i].from = n /\ dsl.edges[i].to = m}
       IN
       /\ indeg' = [m \in NodeIds |-> indeg[m] - Cardinality(Between(m))]
       /\ queue' = (queue \ {n}) \cup
                     {m \in NodeIds : Between(m) # {} /\ Free(indeg'[m])}
  /\ visited' = visited + 1
  /\ UNCHANGED <<dsl, pc, errs, seen>>

SortEnds ==
  /\ pc = "sort"
  /\ queue = {}
  /\ errs' = errs \cup If(visited # Cardinality(Ids(dsl)), "cycle")
  /\ pc' = "done"
  /\ UNCHANGED <<dsl, seen, queue, indeg, visited>>

Done == pc = "done" /\ UNCHANGED vars

Next == CheckParts \/ Walk \/ WalkEnds \/ CheckRest \/ Sort \/ SortEnds \/ Done

Spec == Init /\ [][Next]_vars
=============================================================================
