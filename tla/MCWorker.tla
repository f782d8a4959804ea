------------------------------ MODULE MCWorker ------------------------------
(***************************************************************************)
(* Instances of Worker for TLC.  The values of the constants are in the    *)
(* .cfg file.                                                              *)
(***************************************************************************)
EXTENDS Worker, TLC

=============================================================================
