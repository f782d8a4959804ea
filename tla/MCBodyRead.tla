----------------------------- MODULE MCBodyRead -----------------------------
(***************************************************************************)
(* Instances of BodyRead for TLC.  The values of the constants are in the  *)
(* .cfg files.                                                             *)
(***************************************************************************)
EXTENDS BodyRead, TLC

=============================================================================
