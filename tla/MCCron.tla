--------------------------------- MODULE MCCron ---------------------------------
(***************************************************************************)
(* Symmetry for module CronStore.                                          *)
(***************************************************************************)
EXTENDS CronStore, TLC

Symmetry == Permutations(Jobs) \cup Permutations(Schedulers)
=============================================================================
