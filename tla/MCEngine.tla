------------------------------- MODULE MCEngine -------------------------------
(***************************************************************************)
(* Small workflows to check module Engine on.  An edge is a triple         *)
(* <<source, port, target>>; each workflow is one the validator accepts.   *)
(***************************************************************************)
EXTENDS EngineInvariants, TLC

MCEdgeFrom == [e \in Edges |-> e[1]]
MCPort     == [e \in Edges |-> e[2]]
MCEdgeTo   == [e \in Edges |-> e[3]]

MCPorts == {"default", "error", "true", "false"}

\* The policy of node n is f[n] where f names n, and d otherwise.
Policy(f, d) == [n \in Nodes |-> IF n \in DOMAIN f THEN f[n] ELSE d]
-----------------------------------------------------------------------------
(***************************************************************************)
(* Race: two branches, each with an End of its own.                        *)
(*     start -> a -> endA,  start -> b -> endB                             *)
(***************************************************************************)
RaceNodes == {"start", "a", "b", "endA", "endB"}
RaceEdges == {<<"start", "default", "a">>, <<"start", "default", "b">>,
              <<"a", "default", "endA">>, <<"b", "default", "endB">>}
RaceEnds     == {"endA", "endB"}
RaceRetries  == Policy([a |-> 1], 0)
RaceFail     == Policy(<<>>, "fail_run")
RaceFallback == Policy(<<>>, "default")
RaceOutcomes == Policy([a |-> {"default", "exec", "ctx"}, b |-> {"default", "ctx"}],
                       {"default"})
\* b returns an output that does not marshal.
RaceBadOutcomes == Policy([b |-> {"unserializable"}], {"default"})
-----------------------------------------------------------------------------
(***************************************************************************)
(* Branch: an if node; one of the nodes behind it retries and falls back;  *)
(* a join in mode any before the End.                                      *)
(*     if -true-> x, z   if -false-> y   x, y, z -> join -> end            *)
(***************************************************************************)
BranchNodes == {"if", "x", "y", "z", "join", "end"}
BranchEdges == {<<"if", "true", "x">>, <<"if", "true", "z">>,
                <<"if", "false", "y">>,
                <<"x", "default", "join">>, <<"y", "default", "join">>,
                <<"z", "default", "join">>, <<"join", "default", "end">>}
BranchEnds     == {"end"}
BranchRetries  == Policy([x |-> 1], 0)
BranchFail     == Policy([x |-> "fallback"], "fail_run")
BranchFallback == Policy(<<>>, "default")
BranchOutcomes == Policy("if" :> {"true", "false", "error"}
                         @@ "x" :> {"default", "exec", "unresolved"},
                         {"default"})
==============================================================================
