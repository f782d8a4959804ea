---------------------------- MODULE MCRulesCache ----------------------------
(***************************************************************************)
(* Instances of RulesCache for TLC.  Threads are model values              *)
(* that the specification never tells apart.                               *)
(***************************************************************************)
EXTENDS RulesCache, TLC

Symmetry == Permutations(Threads)
=============================================================================
