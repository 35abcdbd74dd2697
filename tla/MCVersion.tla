------------------------------- MODULE MCVersion -------------------------------
(***************************************************************************)
(* Symmetry for the runs of module VersionRepo that check safety.          *)
(***************************************************************************)
EXTENDS VersionProperties, TLC

Symmetry == Permutations(Sessions) \cup Permutations(VersionIds)
              \cup Permutations(DSLs)
=============================================================================
