---------------------------- MODULE ValidatorProofs ----------------------------
(***************************************************************************)
(* What ValidateForPublish reports about paths and cycles is so, and what  *)
(* it accepts fits the engine: for every workflow, and whatever order the  *)
(* two walks take.                                                         *)
(***************************************************************************)
EXTENDS ValidatorProperties, TLAPS, FiniteSetTheorems

-----------------------------------------------------------------------------
(***************************************************************************)
(* Workflows are finite.                                                   *)
(***************************************************************************)
LEMMA FiniteWorkflow ==
  ASSUME NEW d \in Inputs
  PROVE  /\ IsFiniteSet(DOMAIN d.nodes) /\ IsFiniteSet(DOMAIN d.edges)
         /\ IsFiniteSet(Ids(d)) /\ IsFiniteSet(RealEdges(d))
  <1>1. /\ d.nodes \in Seq(Nodes(d))
        /\ d.edges \in Seq(Edges(d))
    BY InputsAssumption
  <1>2. /\ DOMAIN d.nodes = 1..Len(d.nodes) /\ Len(d.nodes) \in Nat
        /\ DOMAIN d.edges = 1..Len(d.edges) /\ Len(d.edges) \in Nat
    <2> HIDE DEF Nodes, Edges
    <2> QED BY <1>1
  <1>3. IsFiniteSet(DOMAIN d.nodes) /\ IsFiniteSet(DOMAIN d.edges)
    BY <1>2, FS_Interval
  <1>4. IsFiniteSet(Ids(d))
    <2> DEFINE idOf == [i \in DOMAIN d.nodes |-> d.nodes[i].id]
    <2>1. idOf \in Surjection(DOMAIN d.nodes, Ids(d))
      BY DEF Surjection, Ids, Nodes
    <2> HIDE DEF idOf
    <2> QED
      BY <1>3, <2>1, FS_Surjection
  <1>5. IsFiniteSet(RealEdges(d))
    <2>1. RealEdges(d) \in SUBSET DOMAIN d.edges
      BY DEF RealEdges
    <2> QED
      BY <1>3, <2>1, FS_Subset
  <1> QED
    BY <1>3, <1>4, <1>5

LEMMA TwoAreMore ==
  ASSUME NEW S, IsFiniteSet(S), NEW i \in S, NEW j \in S, i # j
  PROVE  Cardinality(S) > 1
  <1>1. Cardinality(S) \in Nat /\ Cardinality(S) # 0
    BY FS_CardinalityType, FS_EmptySet
  <1>2. Cardinality(S) # 1
    BY FS_Singleton
  <1> QED
    BY <1>1, <1>2

LEMMA NoneIsZero ==
  ASSUME NEW S, IsFiniteSet(S)
  PROVE  Cardinality(S) \in Nat /\ (Cardinality(S) = 0 <=> S = {})
  BY FS_CardinalityType, FS_EmptySet
-----------------------------------------------------------------------------
(***************************************************************************)
(* What has been reported, part by part of ValidateForPublish.             *)
(***************************************************************************)
Parted ==
  /\ Starts # {} /\ Ends # {}
  /\ \E S \in SUBSET NodeIds : Starts \subseteq S /\ S \cap Ends = {} /\ Closed(S)

Cyclic == \E S \in (SUBSET Ids(dsl)) \ {{}} : FedFromWithin(S)

NotOfTheChecks == {"no_path_to_end", "cycle"}

LEMMA ChecksKeepOut ==
  ASSUME NEW d
  PROVE  (FirstChecks(d) \cup LastChecks(d)) \cap NotOfTheChecks = {}
  <1>1. ASSUME NEW c, c \in FirstChecks(d)
        PROVE  c \notin NotOfTheChecks
    BY <1>1 DEF FirstChecks, CheckStartEnd, CheckSingleStart, CheckUniqueIDs,
                CheckNodeTypesExist, CheckEdgeTargets, CheckEdgeFromPorts,
                CheckRefValues, CheckRequiredInputs, If, NotOfTheChecks
  <1>2. ASSUME NEW c, c \in LastChecks(d)
        PROVE  c \notin NotOfTheChecks
    BY <1>2 DEF LastChecks, CheckIsolatedNode, CheckMultiInputRequiresJoin, CheckJoin,
                CheckSwitchCaseNames, CheckFallbackPort, CheckFireErrorPort, If,
                NotOfTheChecks
  <1> QED
    BY <1>1, <1>2

ReportInv ==
  /\ dsl \in Inputs
  /\ pc \in {"parts", "walk", "rest", "sort", "done"}
  /\ pc = "parts" => errs = {}
  /\ pc = "walk"  => errs = FirstChecks(dsl) /\ Starts # {} /\ Ends # {}
  /\ pc = "rest"  => errs = FirstChecks(dsl) \cup If(Parted, "no_path_to_end")
  /\ pc = "sort"  => errs = UNION {FirstChecks(dsl), LastChecks(dsl),
                                   If(Parted, "no_path_to_end")}
  /\ pc = "done"  => errs = UNION {FirstChecks(dsl), LastChecks(dsl),
                                   If(Parted, "no_path_to_end"), If(Cyclic, "cycle")}
-----------------------------------------------------------------------------
(***************************************************************************)
(* The walk from Start: what it has seen is in every closed set around the *)
(* Starts, and only what is still queued may have an edge out of it.       *)
(***************************************************************************)
WalkInv ==
  pc = "walk" =>
    /\ Starts \subseteq seen /\ queue \subseteq seen /\ seen \subseteq NodeIds
    /\ \A e \in Edges(dsl) : e.from \in seen \ queue => e.to \in seen
    /\ \A S : Starts \subseteq S /\ Closed(S) => seen \subseteq S

\* At its end, what was seen is the least closed set.
LEMMA WalkDecides ==
  ASSUME WalkInv, pc = "walk", queue = {}, Starts # {}, Ends # {}
  PROVE  Parted <=> ~PathFound(dsl, seen)
  <1>1. Closed(seen)
    BY DEF WalkInv, Closed
  <1> QED
    BY <1>1 DEF WalkInv, Parted, PathFound, Ends

LEMMA WalkKeeps ==
  ASSUME ReportInv, WalkInv, Walk
  PROVE  WalkInv'
  <1>1. PICK n \in queue :
          LET next == {e.to : e \in {f \in Edges(dsl) : f.from = n}} IN
          /\ seen' = seen \cup next
          /\ queue' = (queue \ {n}) \cup (next \ seen)
    BY DEF Walk
  <1> DEFINE next == {e.to : e \in {f \in Edges(dsl) : f.from = n}}
  <1>2. /\ pc = "walk" /\ UNCHANGED <<dsl, pc>>
        /\ seen' = seen \cup next /\ queue' = (queue \ {n}) \cup (next \ seen)
    BY <1>1 DEF Walk
  <1>3. /\ \A x \in next : \E e \in Edges(dsl) : e.from = n /\ e.to = x
        /\ \A e \in Edges(dsl) : e.from = n => e.to \in next
    OBVIOUS
  <1>4. \A e \in Edges(dsl) : e.to \in NodeIds
    BY InputsAssumption DEF ReportInv
  <1>5. Starts' = Starts /\ Edges(dsl)' = Edges(dsl) /\ \A S : Closed(S)' = Closed(S)
    BY <1>2 DEF Starts, Closed
  <1> HIDE DEF next
  <1>6. next \subseteq NodeIds
    BY <1>3, <1>4
  <1>7. ASSUME NEW S, Starts \subseteq S, Closed(S)
        PROVE  next \subseteq S
    BY <1>2, <1>3, <1>7 DEF WalkInv, Closed
  <1>8. ASSUME NEW e \in Edges(dsl), e.from \in seen' \ queue'
        PROVE  e.to \in seen'
    BY <1>2, <1>3, <1>8 DEF WalkInv
  <1> QED
    BY <1>2, <1>5, <1>6, <1>7, <1>8 DEF WalkInv
-----------------------------------------------------------------------------
(***************************************************************************)
(* Kahn's sort: visited counts a set of nodes without edges into it from   *)
(* outside, and no set that is fed from within meets it.                   *)
(***************************************************************************)
\* The edges that lead from outside D to m.
Inflow(m, D) ==
  {i \in RealEdges(dsl) : dsl.edges[i].to = m /\ dsl.edges[i].from \notin D}

Sorted(D) ==
  /\ visited = Cardinality(D)
  /\ D \cap queue = {}
  /\ D \cup queue = {m \in Ids(dsl) : Inflow(m, D) = {}}
  /\ \A m \in NodeIds : indeg[m] = Cardinality(Inflow(m, D))
  /\ \A S \in SUBSET Ids(dsl) : FedFromWithin(S) => S \cap D = {}

SortInv ==
  /\ pc \in {"parts", "walk", "rest"} => visited = 0
  /\ pc = "sort" => \E D \in SUBSET Ids(dsl) : Sorted(D)

LEMMA FiniteInflow ==
  ASSUME ReportInv, NEW m, NEW D
  PROVE  IsFiniteSet(Inflow(m, D))
  <1>1. Inflow(m, D) \in SUBSET RealEdges(dsl)
    BY DEF Inflow
  <1> QED
    BY <1>1, FiniteWorkflow, FS_Subset DEF ReportInv

\* Whoever is fed from within S has an edge in from S, and it is real.
LEMMA FedIsReal ==
  ASSUME ReportInv, NEW S \in SUBSET Ids(dsl), NEW m \in S
  PROVE  (\E e \in Edges(dsl) : e.to = m /\ e.from \in S)
           <=> \E i \in RealEdges(dsl) : dsl.edges[i].to = m /\ dsl.edges[i].from \in S
  BY DEF RealEdges, Edges

\* When the queue is empty, what was not visited is fed from within.
LEMMA SortDecides ==
  ASSUME ReportInv, SortInv, pc = "sort", queue = {}
  PROVE  Cyclic <=> visited # Cardinality(Ids(dsl))
  <1>1. PICK D \in SUBSET Ids(dsl) : Sorted(D)
    BY DEF SortInv
  <1> DEFINE rest == Ids(dsl) \ D
  <1>2. FedFromWithin(rest)
    <2>1. ASSUME NEW m \in rest
          PROVE  \E e \in Edges(dsl) : e.to = m /\ e.from \in rest
      <3>1. PICK i \in Inflow(m, D) : TRUE
        BY <1>1 DEF Sorted
      <3> QED
        BY <3>1 DEF Inflow, RealEdges, Edges
    <2> QED
      BY <2>1 DEF FedFromWithin
  <1>3. visited = Cardinality(Ids(dsl)) <=> D = Ids(dsl)
    BY <1>1, FiniteWorkflow, FS_Subset DEF ReportInv, Sorted
  <1>4. CASE D = Ids(dsl)
    BY <1>1, <1>3, <1>4 DEF Sorted, Cyclic
  <1>5. CASE D # Ids(dsl)
    <2>1. rest \in (SUBSET Ids(dsl)) \ {{}}
      BY <1>5
    <2> QED
      BY <1>2, <1>3, <1>5, <2>1 DEF Cyclic
  <1> QED
    BY <1>4, <1>5

LEMMA SortBegins ==
  ASSUME ReportInv, SortInv, CheckRest
  PROVE  SortInv'
  <1>1. /\ UNCHANGED dsl /\ dsl \in Inputs /\ pc' = "sort" /\ visited' = 0
        /\ indeg' = [m \in NodeIds |->
                       Cardinality({i \in RealEdges(dsl) : dsl.edges[i].to = m})]
        /\ queue' = {m \in Ids(dsl) : indeg'[m] = 0}
    BY DEF CheckRest, ReportInv, SortInv
  <1>2. \A m : Inflow(m, {}) = {i \in RealEdges(dsl) : dsl.edges[i].to = m}
    BY DEF Inflow
  <1>3. \A m \in NodeIds : indeg'[m] = Cardinality(Inflow(m, {}))
    BY <1>1, <1>2
  <1>4. Ids(dsl) \subseteq NodeIds
    BY <1>1, InputsAssumption
  <1>5. \A m : Cardinality(Inflow(m, {})) = 0 <=> Inflow(m, {}) = {}
    BY FiniteInflow, NoneIsZero
  <1>6. queue' = {m \in Ids(dsl) : Inflow(m, {}) = {}}
    BY <1>1, <1>3, <1>4, <1>5
  <1>7. \A m : Inflow(m, {})' = Inflow(m, {})
    BY <1>1 DEF Inflow, RealEdges, Ids, Nodes
  <1>8. Ids(dsl)' = Ids(dsl)
    BY <1>1
  <1>9. Sorted({})'
    <2>1. Cardinality({}) = 0
      BY FS_EmptySet
    <2>2. {m \in Ids(dsl)' : Inflow(m, {})' = {}} = {m \in Ids(dsl) : Inflow(m, {}) = {}}
      BY <1>7, <1>8
    <2>3. \A m \in NodeIds : indeg'[m] = Cardinality(Inflow(m, {})')
      BY <1>3, <1>7
    <2> QED
      BY <1>1, <1>6, <2>1, <2>2, <2>3 DEF Sorted
  <1> QED
    BY <1>1, <1>9 DEF SortInv

\* One node leaves the queue and its edges the in-degrees.
LEMMA SortStep ==
  ASSUME ReportInv, Sort,
         NEW D \in SUBSET Ids(dsl), Sorted(D),
         NEW n \in queue,
         indeg' = [m \in NodeIds |->
                     indeg[m] - Cardinality({i \in RealEdges(dsl) :
                                  dsl.edges[i].from = n /\ dsl.edges[i].to = m})],
         queue' = (queue \ {n}) \cup
                    {m \in NodeIds :
                       /\ {i \in RealEdges(dsl) :
                             dsl.edges[i].from = n /\ dsl.edges[i].to = m} # {}
                       /\ Free(indeg'[m])}
  PROVE  D \cup {n} \in SUBSET Ids(dsl) /\ Sorted(D \cup {n})'
  <1> DEFINE E == D \cup {n}
             Between(m) == {i \in RealEdges(dsl) :
                              dsl.edges[i].from = n /\ dsl.edges[i].to = m}
  <1>1. UNCHANGED dsl /\ visited' = visited + 1
    BY DEF Sort
  <1>2. /\ n \in Ids(dsl) \ D /\ Inflow(n, D) = {}
        /\ visited = Cardinality(D) /\ IsFiniteSet(D) /\ Cardinality(D) \in Nat
    BY FiniteWorkflow, FS_Subset, FS_CardinalityType DEF Sorted, ReportInv
  <1>3. visited' = Cardinality(E)
    BY <1>1, <1>2, FS_AddElement
  <1>4. ASSUME NEW m
        PROVE  /\ Inflow(m, E) = Inflow(m, D) \ Between(m)
               /\ Between(m) \subseteq Inflow(m, D)
    BY <1>2 DEF Inflow
  <1>5. ASSUME NEW m
        PROVE  /\ Cardinality(Inflow(m, E)) = Cardinality(Inflow(m, D)) - Cardinality(Between(m))
               /\ Cardinality(Inflow(m, E)) = 0 <=> Inflow(m, E) = {}
    <2>1. IsFiniteSet(Inflow(m, D)) /\ IsFiniteSet(Inflow(m, E))
      BY FiniteInflow
    <2>2. Inflow(m, D) \cap Between(m) = Between(m)
      BY <1>4
    <2>3. Cardinality(Inflow(m, D) \ Between(m))
            = Cardinality(Inflow(m, D)) - Cardinality(Inflow(m, D) \cap Between(m))
      <3> HIDE DEF Between, E
      <3> QED BY <2>1, FS_Difference
    <2>4. Cardinality(Inflow(m, E)) = 0 <=> Inflow(m, E) = {}
      BY <2>1, NoneIsZero
    <2> HIDE DEF Between, E
    <2> QED
      BY <1>4, <2>2, <2>3, <2>4
  <1>6. \A m \in NodeIds : indeg'[m] = Cardinality(Inflow(m, E))
    BY <1>5 DEF Sorted
  <1>7. Ids(dsl) \subseteq NodeIds
    BY InputsAssumption DEF ReportInv
  <1>8. E \cup queue' = {m \in Ids(dsl) : Inflow(m, E) = {}} /\ E \cap queue' = {}
    <2>1. \A m \in NodeIds : Free(indeg'[m]) <=> Inflow(m, E) = {}
      BY <1>5, <1>6 DEF Free
    <2>2. queue' = (queue \ {n}) \cup
                     {m \in NodeIds : Between(m) # {} /\ Inflow(m, E) = {}}
      BY <2>1
    <2>3. ASSUME NEW m, Between(m) # {}
          PROVE  m \in Ids(dsl) /\ Inflow(m, D) # {}
      BY <1>4, <2>3 DEF RealEdges
    <2>4. \A m : m \in D \cup queue <=> m \in Ids(dsl) /\ Inflow(m, D) = {}
      BY DEF Sorted
    <2>5. \A m : Between(m) = {} => Inflow(m, E) = Inflow(m, D)
      BY <1>4
    <2>6. \A m : Inflow(m, D) = {} => Inflow(m, E) = {}
      BY <1>4
    <2>7. D \cap queue = {}
      BY DEF Sorted
    <2> HIDE DEF Between
    <2>8. ASSUME NEW m
          PROVE  m \in E \cup queue' <=> m \in Ids(dsl) /\ Inflow(m, E) = {}
      BY <1>7, <2>2, <2>3, <2>4, <2>5, <2>6
    <2>9. ASSUME NEW m \in E
          PROVE  m \notin queue'
      BY <2>2, <2>3, <2>4, <2>7
    <2> QED
      BY <2>8, <2>9
  <1>9. ASSUME NEW S \in SUBSET Ids(dsl), FedFromWithin(S)
        PROVE  S \cap E = {}
    <2>1. S \cap D = {}
      BY <1>9 DEF Sorted
    <2>2. ASSUME n \in S
          PROVE  FALSE
      <3>1. PICK i \in RealEdges(dsl) : dsl.edges[i].to = n /\ dsl.edges[i].from \in S
        <4> HIDE DEF E, Between
        <4> QED BY <1>9, <2>2, FedIsReal DEF FedFromWithin
      <3> QED
        BY <1>2, <2>1, <3>1 DEF Inflow
    <2> QED
      BY <2>1, <2>2
  <1>10. /\ \A m : Inflow(m, E)' = Inflow(m, E)
         /\ Ids(dsl)' = Ids(dsl)
         /\ \A S : FedFromWithin(S)' = FedFromWithin(S)
    BY <1>1 DEF Inflow, RealEdges, FedFromWithin
  <1>11. Sorted(E)'
    <2>1. {m \in Ids(dsl)' : Inflow(m, E)' = {}} = {m \in Ids(dsl) : Inflow(m, E) = {}}
      BY <1>10
    <2>2. \A m \in NodeIds : indeg'[m] = Cardinality(Inflow(m, E)')
      BY <1>6, <1>10
    <2> HIDE DEF E, Between
    <2> QED
      BY <1>3, <1>8, <1>9, <1>10, <2>1, <2>2 DEF Sorted
  <1> QED
    BY <1>2, <1>11
-----------------------------------------------------------------------------
(***************************************************************************)
(* The invariant.                                                          *)
(***************************************************************************)
ValidInv == ReportInv /\ WalkInv /\ SortInv

LEMMA ValidInit == Init => ValidInv
  BY DEF Init, ValidInv, ReportInv, WalkInv, SortInv

\* The workflow stays, and what is said of it.
LEMMA WorkflowStays ==
  ASSUME UNCHANGED dsl
  PROVE  /\ Starts' = Starts /\ Ends' = Ends /\ Parted' = Parted /\ Cyclic' = Cyclic
         /\ Edges(dsl)' = Edges(dsl) /\ Ids(dsl)' = Ids(dsl)
         /\ \A S : Closed(S)' = Closed(S)
  BY DEF Starts, Ends, Parted, Cyclic, Closed, FedFromWithin

LEMMA ReportStep ==
  ASSUME ValidInv, Next
  PROVE  ReportInv'
  <1>1. UNCHANGED dsl
    BY DEF Next, CheckParts, Walk, WalkEnds, CheckRest, Sort, SortEnds, Done, vars
  <1>2. ReportInv /\ WalkInv /\ SortInv
    BY DEF ValidInv
  <1>3. CASE CheckParts
    <2>1. IdsOfType(dsl, "start") = {} \/ IdsOfType(dsl, "end") = {} => ~Parted
      BY DEF Parted, Starts, Ends
    <2> QED
      BY <1>1, <1>2, <1>3, <2>1, WorkflowStays DEF CheckParts, ReportInv, If, Starts, Ends
  <1>4. CASE Walk
    BY <1>1, <1>2, <1>4, WorkflowStays DEF Walk, ReportInv
  <1>5. CASE WalkEnds
    BY <1>1, <1>2, <1>5, WorkflowStays, WalkDecides DEF WalkEnds, ReportInv, If
  <1>6. CASE CheckRest
    BY <1>1, <1>2, <1>6, WorkflowStays DEF CheckRest, ReportInv
  <1>7. CASE Sort
    BY <1>1, <1>2, <1>7, WorkflowStays DEF Sort, ReportInv
  <1>8. CASE SortEnds
    BY <1>1, <1>2, <1>8, WorkflowStays, SortDecides DEF SortEnds, ReportInv, If
  <1>9. CASE Done
    BY <1>1, <1>2, <1>9, WorkflowStays DEF Done, vars, ReportInv
  <1> QED
    BY <1>3, <1>4, <1>5, <1>6, <1>7, <1>8, <1>9 DEF Next

LEMMA ValidStep == ValidInv /\ [Next]_vars => ValidInv'
  <1> SUFFICES ASSUME ValidInv, [Next]_vars
               PROVE  ValidInv'
    OBVIOUS
  <1>1. CASE UNCHANGED vars
    <2>1. UNCHANGED <<dsl, pc, errs, seen, queue, indeg, visited>>
      BY <1>1 DEF vars
    <2>2. ReportInv' /\ WalkInv'
      BY <2>1, WorkflowStays DEF ValidInv, ReportInv, WalkInv
    <2>3. \A D : Sorted(D)' = Sorted(D)
      <3>1. \A m, D : Inflow(m, D)' = Inflow(m, D)
        BY <2>1 DEF Inflow
      <3> QED
        BY <2>1, <3>1 DEF Sorted, FedFromWithin
    <2>4. SortInv'
      BY <2>1, <2>3 DEF ValidInv, SortInv
    <2> QED
      BY <2>2, <2>4 DEF ValidInv
  <1>2. CASE Next
    <2>1. ReportInv /\ WalkInv /\ SortInv /\ ReportInv'
      BY <1>2, ReportStep DEF ValidInv
    <2>2. CASE CheckParts
      <3>1. WalkInv'
        BY <2>1, <2>2, WorkflowStays, InputsAssumption
           DEF CheckParts, WalkInv, Starts, IdsOfType, Ids, ReportInv
      <3> QED
        BY <2>1, <2>2, <3>1 DEF CheckParts, ValidInv, SortInv
    <2>3. CASE Walk
      BY <2>1, <2>3, WalkKeeps DEF Walk, ValidInv, SortInv
    <2>4. CASE WalkEnds
      BY <2>1, <2>4 DEF WalkEnds, ValidInv, WalkInv, SortInv
    <2>5. CASE CheckRest
      BY <2>1, <2>5, SortBegins DEF CheckRest, ValidInv, WalkInv
    <2>6. CASE Sort
      <3>1. PICK D \in SUBSET Ids(dsl) : Sorted(D)
        BY <2>1, <2>6 DEF Sort, SortInv
      <3>2. PICK n \in queue :
              /\ indeg' = [m \in NodeIds |->
                             indeg[m] - Cardinality({i \in RealEdges(dsl) :
                                          dsl.edges[i].from = n /\ dsl.edges[i].to = m})]
              /\ queue' = (queue \ {n}) \cup
                            {m \in NodeIds :
                               /\ {i \in RealEdges(dsl) :
                                     dsl.edges[i].from = n /\ dsl.edges[i].to = m} # {}
                               /\ Free(indeg'[m])}
        BY <2>6 DEF Sort
      <3>3. D \cup {n} \in SUBSET Ids(dsl) /\ Sorted(D \cup {n})'
        BY <2>1, <2>6, <3>1, <3>2, SortStep
      <3>4. pc = "sort" /\ UNCHANGED <<dsl, pc>>
        BY <2>6 DEF Sort
      <3>5. SortInv'
        BY <3>3, <3>4 DEF SortInv
      <3> QED
        BY <2>1, <3>4, <3>5 DEF ValidInv, WalkInv
    <2>7. CASE SortEnds
      BY <2>1, <2>7 DEF SortEnds, ValidInv, WalkInv, SortInv
    <2>8. CASE Done
      BY <2>1, <2>8 DEF Done, vars, ValidInv, WalkInv, SortInv
    <2> QED
      BY <1>2, <2>2, <2>3, <2>4, <2>5, <2>6, <2>7, <2>8 DEF Next
  <1> QED
    BY <1>1, <1>2

LEMMA ValidAlways == Spec => []ValidInv
  BY ValidInit, ValidStep, PTL DEF Spec

(***************************************************************************)
(* A cycle is reported exactly when there is one, in whatever order the    *)
(* nodes without in-edges are taken (CycleFoundIffCyclic; validator.go:544).*)
(***************************************************************************)
THEOREM CyclesAreFound == Spec => []CycleFoundIffCyclic
  <1>1. ValidInv => CycleFoundIffCyclic
    BY ChecksKeepOut DEF ValidInv, ReportInv, CycleFoundIffCyclic, Cyclic, If, NotOfTheChecks
  <1> QED
    BY <1>1, ValidAlways, PTL

(***************************************************************************)
(* That no path leads to an End is reported exactly when a closed set      *)
(* parts the Starts from the Ends (PathFoundIffPath; validator.go:321).    *)
(***************************************************************************)
THEOREM PathsAreFound == Spec => []PathFoundIffPath
  <1>1. ValidInv => PathFoundIffPath
    BY ChecksKeepOut DEF ValidInv, ReportInv, PathFoundIffPath, Parted, If, NotOfTheChecks
  <1> QED
    BY <1>1, ValidAlways, PTL
-----------------------------------------------------------------------------
(***************************************************************************)
(* What the checks of an accepted workflow exclude.                        *)
(***************************************************************************)
LEMMA AcceptedChecks ==
  ASSUME ValidInv, Accepted
  PROVE  /\ dsl \in Inputs /\ ~Cyclic /\ Starts # {}
         /\ \A i, j \in DOMAIN dsl.nodes :
              /\ dsl.nodes[i].id = dsl.nodes[j].id => i = j
              /\ dsl.nodes[i].type = "start" /\ dsl.nodes[j].type = "start" => i = j
         /\ \A e \in Edges(dsl) : {e.from, e.to} \subseteq Ids(dsl)
         /\ \A e \in Edges(dsl) :
              NodeById(dsl, e.from).type \in DOMAIN PortsOf =>
                e.port \in OutputPorts(NodeById(dsl, e.from))
         /\ \A n \in Nodes(dsl) : InDegree(dsl, n.id) = 0 => n.type = "start"
  <1>1. /\ dsl \in Inputs /\ FirstChecks(dsl) = {} /\ LastChecks(dsl) = {} /\ ~Cyclic
    BY DEF ValidInv, ReportInv, Accepted, If
  <1>2. /\ CheckStartEnd(dsl) = {} /\ CheckSingleStart(dsl) = {} /\ CheckUniqueIDs(dsl) = {}
        /\ CheckEdgeTargets(dsl) = {} /\ CheckEdgeFromPorts(dsl) = {}
        /\ CheckIsolatedNode(dsl) = {}
    BY <1>1 DEF FirstChecks, LastChecks
  <1>3. Starts # {}
    BY <1>2 DEF CheckStartEnd, If, Starts
  <1>4. ASSUME NEW i \in DOMAIN dsl.nodes, NEW j \in DOMAIN dsl.nodes
        PROVE  dsl.nodes[i].id = dsl.nodes[j].id => i = j
    BY <1>2 DEF CheckUniqueIDs, If
  <1>5. ASSUME NEW i \in DOMAIN dsl.nodes, NEW j \in DOMAIN dsl.nodes,
               dsl.nodes[i].type = "start", dsl.nodes[j].type = "start", i # j
        PROVE  FALSE
    <2> DEFINE T == {k \in DOMAIN dsl.nodes : dsl.nodes[k].type = "start"}
    <2>1. IsFiniteSet(T)
      <3>1. T \in SUBSET DOMAIN dsl.nodes
        OBVIOUS
      <3> HIDE DEF T
      <3> QED
        BY <1>1, <3>1, FiniteWorkflow, FS_Subset
    <2>2. ~(Cardinality(T) > 1)
      BY <1>2 DEF CheckSingleStart, If
    <2>3. i \in T /\ j \in T
      BY <1>5
    <2> HIDE DEF T
    <2> QED
      BY <1>5, <2>1, <2>2, <2>3, TwoAreMore
  <1>6. \A e \in Edges(dsl) : {e.from, e.to} \subseteq Ids(dsl)
    BY <1>2 DEF CheckEdgeTargets, If
  <1>7. \A e \in Edges(dsl) :
          NodeById(dsl, e.from).type \in DOMAIN PortsOf =>
            e.port \in OutputPorts(NodeById(dsl, e.from))
    BY <1>2, <1>6 DEF CheckEdgeFromPorts, If
  <1>8. \A n \in Nodes(dsl) : InDegree(dsl, n.id) = 0 => n.type = "start"
    BY <1>2 DEF CheckIsolatedNode, If
  <1> QED
    BY <1>1, <1>3, <1>4, <1>5, <1>6, <1>7, <1>8

\* A node of an accepted workflow that is no Start has a node before it.
LEMMA NodesAreFed ==
  ASSUME ValidInv, Accepted, NEW m \in Ids(dsl), m \notin Starts \/ InDegree(dsl, m) # 0
  PROVE  \E e \in Edges(dsl) : e.to = m /\ e.from \in Ids(dsl)
  <1> DEFINE into == {i \in DOMAIN dsl.edges : dsl.edges[i].to = m}
  <1>1. InDegree(dsl, m) # 0
    BY AcceptedChecks DEF Ids, Starts, IdsOfType
  <1>2. into # {}
    BY <1>1, FS_EmptySet DEF InDegree
  <1> QED
    BY <1>2, AcceptedChecks DEF Edges

\* A set of nodes that only takes in edges of its own is fed by them, so empty.
LEMMA NothingIsApart ==
  ASSUME ValidInv, Accepted, NEW S \in SUBSET Ids(dsl), FedFromWithin(S)
  PROVE  S = {}
  BY AcceptedChecks DEF Cyclic

(***************************************************************************)
(* What ValidateForPublish accepts has one Start, which alone has no edge  *)
(* into it, no edge out of an End, and no node apart from the Start        *)
(* (AcceptedFitsEngine): what the engine relies on (engine.go:160,         *)
(* scheduler.go:307) follows from checks that do not know of each other.   *)
(***************************************************************************)
THEOREM AcceptedFits == Spec => []AcceptedFitsEngine
  <1>1. ASSUME ValidInv, Accepted
        PROVE  \E s \in Ids(dsl) :
                 Starts = {s} /\ {m \in Ids(dsl) : InDegree(dsl, m) = 0} = {s}
    <2>1. PICK s \in Starts : Starts = {s}
      BY <1>1, AcceptedChecks DEF Starts, IdsOfType, Nodes
    <2>2. s \in Ids(dsl)
      BY DEF Starts, IdsOfType, Ids
    <2>3. \A m \in Ids(dsl) : InDegree(dsl, m) = 0 => m = s
      BY <1>1, <2>1, AcceptedChecks DEF Ids, Starts, IdsOfType
    <2>4. InDegree(dsl, s) = 0
      <3> SUFFICES ASSUME InDegree(dsl, s) # 0 PROVE FALSE
        OBVIOUS
      <3>1. \A m \in Ids(dsl) : m \notin Starts \/ InDegree(dsl, m) # 0
        BY <2>1
      <3>2. FedFromWithin(Ids(dsl))
        BY <1>1, <3>1, NodesAreFed DEF FedFromWithin
      <3> QED
        BY <1>1, <2>2, <3>2, NothingIsApart
    <2> QED
      BY <2>1, <2>2, <2>3, <2>4
  <1>2. ASSUME ValidInv, Accepted, NEW e \in Edges(dsl), e.from \in Ends
        PROVE  FALSE
    <2>1. PICK i \in DOMAIN dsl.nodes : dsl.nodes[i].id = e.from /\ dsl.nodes[i].type = "end"
      BY <1>2 DEF Ends, IdsOfType, Nodes
    <2>2. \A j \in DOMAIN dsl.nodes : dsl.nodes[j].id = e.from => j = i
      BY <1>2, <2>1, AcceptedChecks
    <2>3. i \in Nat
      <3>1. dsl.nodes \in Seq(Nodes(dsl))
        BY <1>2, AcceptedChecks, InputsAssumption
      <3> HIDE DEF Nodes
      <3> QED
        BY <3>1
    <2>4. NodeById(dsl, e.from) = dsl.nodes[i]
      <3> DEFINE last(k) == /\ dsl.nodes[k].id = e.from
                            /\ \A j \in DOMAIN dsl.nodes :
                                 dsl.nodes[j].id = e.from => j <= k
      <3>1. last(i)
        BY <2>1, <2>2, <2>3
      <3>2. \A k \in DOMAIN dsl.nodes : last(k) => k = i
        BY <2>2
      <3>3. (CHOOSE k \in DOMAIN dsl.nodes : last(k)) = i
        <4> HIDE DEF last
        <4> QED BY <2>1, <3>1, <3>2
      <3> QED
        BY <3>3 DEF NodeById
    <2>5. OutputPorts(dsl.nodes[i]) = {} /\ "end" \in DOMAIN PortsOf
      BY <2>1, TypeAssumption DEF OutputPorts
    <2> QED
      BY <1>2, <2>1, <2>4, <2>5, AcceptedChecks
  <1>3. ASSUME ValidInv, Accepted,
               NEW S \in SUBSET Ids(dsl), Starts \subseteq S, Closed(S)
        PROVE  S = Ids(dsl)
    <2>1. FedFromWithin(Ids(dsl) \ S)
      <3>1. ASSUME NEW m \in Ids(dsl) \ S
            PROVE  \E e \in Edges(dsl) : e.to = m /\ e.from \in Ids(dsl) \ S
        BY <1>3, NodesAreFed DEF Closed
      <3> QED
        BY <3>1 DEF FedFromWithin
    <2> QED
      BY <1>3, <2>1, NothingIsApart
  <1>4. ValidInv => AcceptedFitsEngine
    BY <1>1, <1>2, <1>3 DEF AcceptedFitsEngine
  <1> QED
    BY <1>4, ValidAlways, PTL
=============================================================================
