-------------------------- MODULE MCResponsePhase --------------------------
(***************************************************************************)
(* Instances of ResponsePhase for TLC.                                     *)
(***************************************************************************)
EXTENDS ResponsePhase, TLC
=============================================================================
