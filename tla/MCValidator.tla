------------------------------ MODULE MCValidator ------------------------------
(***************************************************************************)
(* Small workflows to validate: all graphs of four nodes with up to        *)
(* MaxEdges edges, and a chain whose middle node takes every               *)
(* configuration.                                                          *)
(***************************************************************************)
EXTENDS ValidatorProperties, SequencesExt

CONSTANT MaxEdges

MCNodeIds == {"n1", "n2", "n3", "n4", "ghost"}

MCPortsOf == [start  |-> {"default"},
              end    |-> {},
              join   |-> {"default"},
              llm    |-> {"default", "error"},
              if     |-> {"true", "false", "error"},
              switch |-> {"default", "error"}]

MCValidNames == {"c", "default", "error"}

Node(id, type) ==
  [id |-> id, type |-> type, parses |-> TRUE, mode |-> "any", cases |-> <<>>,
   policy |-> "fail_run", port |-> "", refs |-> {}, unbound |-> FALSE]

Edge(id, from, port, to) == [id |-> id, from |-> from, port |-> port, to |-> to]
-----------------------------------------------------------------------------
(***************************************************************************)
(* Graphs: n1 is a Start, n2 an End, n3 and n4 are anything.               *)
(***************************************************************************)
GraphIds   == {"n1", "n2", "n3", "n4"}
GraphTypes == {<<"start", "start">>, <<"start", "llm">>, <<"start", "join">>,
               <<"start", "end">>, <<"llm", "llm">>, <<"llm", "join">>,
               <<"llm", "end">>, <<"join", "join">>, <<"join", "end">>,
               <<"end", "end">>}

GraphNodes(ts) == <<Node("n1", "start"), Node("n2", "end"),
                    Node("n3", ts[1]), Node("n4", ts[2])>>

EdgeLists ==
  {SetToSeq(S) : S \in UNION {kSubset(k, {Edge(p, p[1], "default", p[2]) :
                                           p \in GraphIds \X GraphIds}) :
                              k \in 0..MaxEdges}}

Graphs == {[nodes |-> GraphNodes(ts), edges |-> es] : ts \in GraphTypes, es \in EdgeLists}
-----------------------------------------------------------------------------
(***************************************************************************)
(* Chains: n1 -> x -> n2.  The edges into x may be parallel, the edge out  *)
(* of it may name any port and may dangle, and x may reuse an ID.          *)
(***************************************************************************)
Configs ==
  [parses : BOOLEAN, mode : {"any", "none"},
   cases : {<<>>, <<"c">>, <<"c", "c">>, <<"error">>, <<"1">>}]

Failing == {<<"fail_run", "">>, <<"fire_error_port", "">>, <<"fallback", "">>,
            <<"fallback", "default">>, <<"fallback", "true">>, <<"fallback", "c">>}

Middle ==
  {[Node("n3", t) EXCEPT !.parses = c.parses, !.mode = c.mode, !.cases = c.cases,
                         !.policy = f[1], !.port = f[2]] :
     t \in {"llm", "if", "switch", "join", "unknown"}, c \in Configs, f \in Failing}

Wired ==
  {[Node(id, "llm") EXCEPT !.refs = r, !.unbound = u] :
     id \in {"n1", "n3"}, r \in {{}, {"n1"}, {"n1", "ghost"}}, u \in BOOLEAN}

Chain(x, into, port, to) ==
  [nodes |-> <<Node("n1", "start"), x, Node("n2", "end")>>,
   edges |-> into \o <<Edge(<<x.id, "out">>, x.id, port, to)>>]

Into == {<<>>,
         <<Edge(<<"n1", "in">>, "n1", "default", "n3")>>,
         <<Edge(<<"n1", "in">>, "n1", "default", "n3"),
           Edge(<<"n1", "in2">>, "n1", "default", "n3")>>,
         <<Edge(<<"n3", "out">>, "ghost", "default", "n3")>>}

Chains ==
  {Chain(x, into, port, "n2") : x \in Middle, into \in Into,
                                port \in {"default", "c"}}
    \cup {Chain(x, into, port, to) : x \in Wired, into \in Into,
                                     port \in {"default", "c"}, to \in {"n2", "ghost"}}

\* Nothing at all, and a Start or an End alone.
Stubs == {[nodes |-> ns, edges |-> <<>>] :
            ns \in {<<>>, <<Node("n1", "start")>>, <<Node("n2", "end")>>}}

MCInputs == Graphs \cup Chains \cup Stubs
=============================================================================
