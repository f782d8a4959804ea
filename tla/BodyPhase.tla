----------------------------- MODULE BodyPhase -----------------------------
(***************************************************************************)
(* What the request-body phase of the module promises, without threads,    *)
(* reads or completions: bytes of the entity are taken in order until its  *)
(* end or until the inspection cap is reached, the engine rules on at most *)
(* Cap of them, and RQ_BEGIN_REQUEST is answered once.  It is answered     *)
(* with "continue" only on the engine's explicit consent; everything else  *)
(* (a block, an exception, a failed restore) finishes the request.         *)
(***************************************************************************)
EXTENDS Integers, Sequences

CONSTANT Cap        \* GetMaxInspectBodyBytes

VARIABLES
  end,       \* how many bytes the entity has; fewer once the connection fails
  taken,     \* how many the module has drained
  given,     \* how many the engine was given
  ruling,    \* "none", "allow", "deny", "threw"
  answer     \* <<>>, then <<"continue">> or <<"finish">>

vars == <<end, taken, given, ruling, answer>>

Init ==
  /\ end \in Nat
  /\ taken = 0
  /\ given = 0
  /\ ruling = "none"
  /\ answer = <<>>

Undecided == ruling = "none" /\ answer = <<>>

\* Bytes are drained only while the cap has not been reached.
Take ==
  /\ Undecided
  /\ taken < Cap
  /\ taken' > taken
  /\ taken' <= end
  /\ UNCHANGED <<end, given, ruling, answer>>

\* The connection fails: no byte follows the ones on their way.
Cut ==
  /\ Undecided
  /\ end' <= end
  /\ taken <= end'
  /\ UNCHANGED <<taken, given, ruling, answer>>

\* The engine rules, once the whole entity or the cap has been reached.
Rule ==
  /\ Undecided
  /\ taken = end \/ taken >= Cap
  /\ given' = IF taken <= Cap THEN taken ELSE Cap
  /\ ruling' \in {"allow", "deny"}
  /\ UNCHANGED <<end, taken, answer>>

Continue ==
  /\ ruling = "allow"
  /\ answer = <<>>
  /\ answer' = <<"continue">>
  /\ UNCHANGED <<end, taken, given, ruling>>

Finish ==
  /\ answer = <<>>
  /\ answer' = <<"finish">>
  /\ ruling' \in {ruling, "threw"}
  /\ UNCHANGED <<end, taken, given>>

Next == Take \/ Cut \/ Rule \/ Continue \/ Finish

Spec == Init /\ [][Next]_vars
=============================================================================
