------------------------------- MODULE MCSymbols -------------------------------
(***************************************************************************)
(* A workflow whose nodes refer to each other, to check EngineSymbols on.  *)
(***************************************************************************)
EXTENDS MCEngine, EngineSymbols
-----------------------------------------------------------------------------
(***************************************************************************)
(* Fork: two nodes side by side, joined in mode all before an End.  Both   *)
(* set variables, one of them the other's too.  One retries, has a timeout *)
(* of its own, falls back on the port of the other End, and refers to the  *)
(* variable of its neighbour; one fires an error port to that End.         *)
(*     start -> a -> join,  start -> b -> join,  join -> end,              *)
(*     a -false-> other,  b -error-> other                                 *)
(***************************************************************************)
ForkNodes == {"start", "a", "b", "join", "end", "other"}
ForkEdges == {<<"start", "default", "a">>, <<"start", "default", "b">>,
              <<"a", "default", "join">>, <<"b", "default", "join">>,
              <<"join", "default", "end">>, <<"a", "false", "other">>,
              <<"b", "error", "other">>}
ForkEnds     == {"end", "other"}
ForkFail     == Policy([a |-> "fallback", b |-> "fire_error_port"], "fail_run")
ForkFallback == Policy([a |-> "false"], "default")
ForkRetries  == Policy([a |-> 1], 0)
ForkSetVar   == {"a", "b"}
ForkOutcomes == Policy([a |-> {"default", "exec", "ctx", "unresolved"},
                        b |-> {"default", "exec"},
                        join |-> {"default", "unresolved"},
                        other |-> {"default", "unresolved"}], {"default"})

ForkKeys == {"x", "y", "error"}
KeysFor(success, fallback) ==
  [success |-> success, fallback |-> fallback, error |-> {"error"}]
ForkOutputKeys == Policy([a |-> KeysFor({"x"}, {"x", "y"}),
                          b |-> KeysFor({"y"}, {})], KeysFor({}, {}))

Ref(n, k)      == [kind |-> "ref", root |-> "nodes", name |-> n, key |-> k]
Template(x, k) == [kind |-> "template", root |-> x, name |-> k, key |-> Unset]

ForkInputRefs  == Policy([join |-> {Ref("a", "x"), Ref("b", "y")},
                          other |-> {Ref("a", Unset)}], {})
ForkConfigRefs == Policy([a |-> {Template("vars", "y"), Template("trigger", "x")}],
                         {})
==============================================================================
