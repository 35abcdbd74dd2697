-------------------------------- MODULE MCTools --------------------------------
(***************************************************************************)
(* The lists a server answers with, to check McpTools on: in both orders,  *)
(* with one tool, with none, and with a name twice.                        *)
(***************************************************************************)
EXTENDS McpTools

MCLists == {<<"a", "b">>, <<"b", "a">>, <<"a">>, <<>>, <<"b", "b">>}
=============================================================================
