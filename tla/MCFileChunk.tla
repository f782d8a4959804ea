---------------------------- MODULE MCFileChunk ----------------------------
(***************************************************************************)
(* Instances of FileChunk for TLC.  The values of the constants are in the *)
(* .cfg files.                                                             *)
(***************************************************************************)
EXTENDS FileChunk, TLC

=============================================================================
