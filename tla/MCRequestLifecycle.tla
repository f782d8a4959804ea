------------------------- MODULE MCRequestLifecycle -------------------------
(***************************************************************************)
(* Instances of RequestLifecycle for TLC.  The values of the constants are *)
(* in the .cfg file.                                                       *)
(***************************************************************************)
EXTENDS RequestLifecycle, TLC

\* Requests are interchangeable; the run checks invariants only.
Symmetry == Permutations(Requests)

\* No status, and one that survives a redirect.
MCStatuses == {-1, 307}
=============================================================================
