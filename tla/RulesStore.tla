----------------------------- MODULE RulesStore -----------------------------
(***************************************************************************)
(* What iis::getRules promises to the requests that call it, without       *)
(* files, time stamps or threads: for each configuration file a write-once *)
(* cell.  The first RulesSet returned for a file is the one every later    *)
(* call returns, and a call comes back without rules only while the cell   *)
(* is empty.                                                               *)
(***************************************************************************)
CONSTANTS Files, Rules,
  Empty      \* not a member of Rules

VARIABLES
  cell,      \* what is stored for each file
  served     \* everything that calls for each file have returned

vars == <<cell, served>>

Init ==
  /\ cell = [f \in Files |-> Empty]
  /\ served = [f \in Files |-> {}]

\* A call fills the empty cell and returns what it has put there.
Fill(f, r) ==
  /\ cell[f] = Empty
  /\ cell' = [cell EXCEPT ![f] = r]
  /\ served' = [served EXCEPT ![f] = @ \cup {r}]

\* A call returns what the cell holds.
Serve(f) ==
  /\ cell[f] # Empty
  /\ served' = [served EXCEPT ![f] = @ \cup {cell[f]}]
  /\ UNCHANGED cell

\* A call returns without rules.
Refuse(f) ==
  /\ cell[f] = Empty
  /\ served' = [served EXCEPT ![f] = @ \cup {Empty}]
  /\ UNCHANGED cell

Next == \E f \in Files : Serve(f) \/ Refuse(f) \/ \E r \in Rules : Fill(f, r)

Spec == Init /\ [][Next]_vars
=============================================================================
