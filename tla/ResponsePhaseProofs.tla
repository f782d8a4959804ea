------------------------ MODULE ResponsePhaseProofs ------------------------
(***************************************************************************)
(* Proofs about ResponsePhase, for any cap, any number of flushes and any  *)
(* entity chunks.  While a notification is handled the request is live and *)
(* its last byte has not been sent (Control); the flags of the stored      *)
(* context say how often the phases have run (Phases); Mode A holds the    *)
(* bytes back until phase 4 (ModeAHoldsBytes), but for notifications that  *)
(* failed or had no raw response (Strays); the last byte and the           *)
(* evaluation come together (Covered); and what has been inspected is the  *)
(* sum of the lengths so far (Counted), which is what the module pins      *)
(* (Pins).                                                                 *)
(*                                                                         *)
(* Size is defined by recursion.  What is said of it is proved by          *)
(* induction, in the form "a set of numbers that contains 0 and with n     *)
(* also n + 1 contains Nat", which follows from the library's theorem that *)
(* a set of natural numbers has a least element.                           *)
(***************************************************************************)
EXTENDS ResponsePhase, TLAPS, SequenceTheorems, WellFoundedInduction

Working == pc \in {"headers", "body", "phase4"}

\* Where the handler is, and what it knows there.
Control ==
  /\ ~Working => note = NoNote /\ c = 0 /\ respInspected = 0
  /\ Working => m_pTx = "live" /\ ~over
  /\ pc = "headers" => ~m_ResponseHeadersFed /\ c = 0 /\ respInspected = 0
  /\ pc \in {"body", "phase4"} => m_ResponseHeadersFed
  /\ pc = "phase4" => c = Len(note.chunks)
  /\ blockedAt >= 0 => pc = "ended"

\* The flags of the stored context count the phases.
Phases ==
  /\ phase3 <= 1
  /\ m_ResponseHeadersFed => phase3 = 1
  /\ m_pTx = "live" /\ ~m_ResponseHeadersFed /\ pc # "ended" => phase3 = 0
  /\ m_ResponseBodyEvaluated => m_ResponseHeadersFed
  /\ phase4 = IF m_ResponseBodyEvaluated THEN 1 ELSE 0

\* Bytes leave before the choice between the modes only in a notification
\* that failed or had no raw response.
Strays == odd \cap {"threw", "rawMissing"} = {} => undecided = 0

\* The last byte of a response leaves with its evaluation, and not before.
Covered ==
  m_pTx = "live" /\ odd \cap {"threw", "rawMissing", "earlyPhase4"} = {} =>
    /\ over <=> m_ResponseBodyEvaluated
    /\ m_ResponseBodyEvaluated => evaluated = buffered

\* The bytes in the first n chunks, as Size counts them.
SizeUpTo(chunks) ==
  LET upTo[n \in 0..Len(chunks)] == IF n = 0 THEN 0 ELSE upTo[n - 1] + chunks[n].len
  IN  upTo

\* Short of the cap, all of the chunks looked at has been inspected.
Counted ==
  Working /\ odd = {} /\ respInspected < Cap => respInspected = SizeUpTo(note.chunks)[c]

\* A length is pinned with the flush that carries the whole body.
Pins ==
  pinned >= 0 /\ blockedAt = -1 /\ odd = {} => over /\ pinned = out

\* The inductive invariant.
IInv ==
  /\ TypeOK /\ Control /\ Phases /\ Strays /\ ModeAHoldsBytes /\ NeverBlocksLate
  /\ Covered /\ FailedStartStops /\ Counted /\ Pins

(***************************************************************************)
(* Induction.                                                              *)
(***************************************************************************)

\* A nonempty set of natural numbers has a least element.
LEMMA Least ==
  ASSUME NEW T, T \subseteq Nat, T # {}
  PROVE  \E x \in T : \A y \in T : x <= y
  <1>1. PICK x \in T : \A y \in T : ~(<<y, x>> \in OpToRel(<, Nat))
    BY NatLessThanWellFounded, WFMin
  <1>2. \A y \in T : ~(y < x)
    BY <1>1 DEF OpToRel
  <1>3. ASSUME NEW y \in T PROVE x <= y
    <2>1. x \in Nat /\ y \in Nat
      BY <1>1
    <2>2. ~(y < x)
      BY <1>2
    <2> QED BY <2>1, <2>2
  <1> QED BY <1>1, <1>3

\* A set that contains 0, and with n also n + 1, contains Nat.
LEMMA SetInduction ==
  ASSUME NEW T, 0 \in T, \A n \in Nat : n \in T => n + 1 \in T
  PROVE  Nat \subseteq T
  <1> SUFFICES ASSUME Nat \ T # {} PROVE FALSE
    OBVIOUS
  <1>1. PICK x \in Nat \ T : \A y \in Nat \ T : x <= y
    BY Least
  <1>2. x # 0 /\ x - 1 \in Nat
    BY <1>1
  <1>3. x - 1 \in T
    BY <1>1, <1>2
  <1>4. (x - 1) + 1 \in T
    BY <1>2, <1>3
  <1> QED BY <1>1, <1>4

(***************************************************************************)
(* Lemmas about the operators.                                             *)
(***************************************************************************)

\* The chunks of a notification are a sequence of chunks.
LEMMA ChunksProperties ==
  ASSUME NEW chunks \in Chunks
  PROVE  /\ chunks \in Seq(Chunk) /\ Len(chunks) \in Nat
         /\ \A i \in 1..Len(chunks) : chunks[i] \in Chunk /\ chunks[i].len \in Nat
  <1>1. PICK n \in 0..MaxChunks : chunks \in [1..n -> Chunk]
    BY DEF Chunks
  <1>2. n \in Nat
    BY <1>1, MaxChunksAssumption
  <1>3. chunks \in Seq(Chunk)
    BY <1>1, <1>2, SeqDef
  <1>4. Len(chunks) \in Nat /\ \A i \in 1..Len(chunks) : chunks[i] \in Chunk
    BY <1>3, LenProperties, ElementOfSeq
  <1>5. ASSUME NEW k \in Chunk PROVE k.len \in Nat
    <2>1. k.len \in 0..MaxLen \/ k.len \in 1..MaxLen
      BY DEF Chunk
    <2> QED BY <2>1, MaxLenAssumption
  <1> QED BY <1>3, <1>4, <1>5

\* The recursion that defines Size has a solution, of natural numbers.
LEMMA SizeExists ==
  ASSUME NEW L \in Nat, NEW s, \A i \in 1..L : s[i].len \in Nat
  PROVE  \E f : f = [n \in 0..L |-> IF n = 0 THEN 0 ELSE f[n - 1] + s[n].len]
  <1> DEFINE Sums(n, f) == f[0] = 0 /\ \A i \in 1..n : f[i] = f[i - 1] + s[i].len
             Has(n) == \E f \in [0..n -> Nat] : Sums(n, f)
             T == {n \in Nat : n <= L => Has(n)}
  <1>1. 0 \in T
    <2> DEFINE z == [i \in 0..0 |-> 0]
    <2>1. z \in [0..0 -> Nat] /\ z[0] = 0
      OBVIOUS
    <2>2. Sums(0, z)
      BY <2>1
    <2> HIDE DEF z
    <2> QED BY <2>1, <2>2
  <1>2. ASSUME NEW n \in Nat, n \in T PROVE n + 1 \in T
    <2> SUFFICES ASSUME n + 1 <= L PROVE Has(n + 1)
      <3> HIDE DEF Has
      <3> QED OBVIOUS
    <2>1. PICK f \in [0..n -> Nat] : Sums(n, f)
      BY <1>2
    <2> DEFINE g == [i \in 0..(n + 1) |-> IF i <= n THEN f[i] ELSE f[n] + s[n + 1].len]
    <2>2. f[n] + s[n + 1].len \in Nat
      OBVIOUS
    <2>3. g \in [0..(n + 1) -> Nat]
      BY <2>2
    <2>4. g[0] = 0
      BY <2>1
    <2>5. ASSUME NEW i \in 1..(n + 1) PROVE g[i] = g[i - 1] + s[i].len
      <3>1. CASE i <= n
        BY <2>1, <3>1
      <3>2. CASE i = n + 1
        BY <3>2
      <3> QED BY <3>1, <3>2
    <2> HIDE DEF g
    <2> QED BY <2>3, <2>4, <2>5
  <1> HIDE DEF T
  <1>3. L \in T
    BY <1>1, <1>2, SetInduction
  <1>4. PICK f \in [0..L -> Nat] : Sums(L, f)
    BY <1>3 DEF T
  <1>5. f = [n \in 0..L |-> IF n = 0 THEN 0 ELSE f[n - 1] + s[n].len]
    <2>1. ASSUME NEW n \in 0..L
          PROVE  f[n] = IF n = 0 THEN 0 ELSE f[n - 1] + s[n].len
      <3>1. n = 0 \/ n \in 1..L
        OBVIOUS
      <3> QED BY <1>4, <3>1
    <2>2. f = [n \in 0..L |-> f[n]]
      BY <1>4
    <2> QED BY <2>1, <2>2
  <1> QED BY <1>5

\* Size is a sum of natural numbers.
LEMMA SizeProperties ==
  ASSUME NEW chunks \in Chunks
  PROVE  /\ SizeUpTo(chunks)[0] = 0
         /\ \A n \in 1..Len(chunks) :
              SizeUpTo(chunks)[n] = SizeUpTo(chunks)[n - 1] + chunks[n].len
         /\ \A n \in 0..Len(chunks) : SizeUpTo(chunks)[n] \in Nat
         /\ Size(chunks) = SizeUpTo(chunks)[Len(chunks)]
         /\ Size(chunks) \in Nat
  <1> DEFINE L == Len(chunks)
             F(f) == [n \in 0..L |-> IF n = 0 THEN 0 ELSE f[n - 1] + chunks[n].len]
             u == CHOOSE f : f = F(f)
  <1>1. L \in Nat /\ \A i \in 1..L : chunks[i].len \in Nat
    BY ChunksProperties
  <1>2. SizeUpTo(chunks) = u
    BY DEF SizeUpTo
  <1>3. Size(chunks) = u[L]
    BY DEF Size
  <1>4. u = F(u)
    <2>1. \E f : f = F(f)
      <3> HIDE DEF L
      <3> QED BY <1>1, SizeExists
    <2> HIDE DEF F
    <2> QED BY <2>1
  <1> HIDE DEF u, L
  <1>5. u[0] = 0 /\ \A n \in 1..L : u[n] = u[n - 1] + chunks[n].len
    <2>1. \A n \in 0..L : u[n] = IF n = 0 THEN 0 ELSE u[n - 1] + chunks[n].len
      BY <1>4
    <2> QED BY <1>1, <2>1
  <1>6. \A n \in 0..L : u[n] \in Nat
    <2> DEFINE T == {n \in Nat : n <= L => u[n] \in Nat}
    <2>1. 0 \in T
      BY <1>5
    <2>2. ASSUME NEW n \in Nat, n \in T PROVE n + 1 \in T
      <3> SUFFICES ASSUME n + 1 <= L PROVE u[n + 1] \in Nat
        OBVIOUS
      <3>1. n + 1 \in 1..L /\ u[n] \in Nat
        BY <1>1, <2>2
      <3>2. u[n + 1] = u[(n + 1) - 1] + chunks[n + 1].len
        BY <1>5, <3>1
      <3>3. chunks[n + 1].len \in Nat
        BY <1>1, <3>1
      <3> QED BY <3>1, <3>2, <3>3
    <2> HIDE DEF T
    <2>3. Nat \subseteq T
      BY <2>1, <2>2, SetInduction
    <2> QED BY <1>1, <2>3 DEF T
  <1>7. u[L] \in Nat
    BY <1>1, <1>6
  <1> QED BY <1>2, <1>3, <1>5, <1>6, <1>7 DEF L

\* The notification is typed, and so is the absence of one.
LEMMA NoteProperties ==
  /\ \A n \in Note : n.chunks \in Chunks /\ n.moreData \in BOOLEAN
  /\ NoNote \in Note /\ NoNote.chunks = <<>> /\ Len(NoNote.chunks) = 0
  <1>1. \A n \in Note : n.chunks \in Chunks /\ n.moreData \in BOOLEAN
    BY DEF Note
  <1>2. << >> \in Chunks
    <2>1. << >> \in [1..0 -> Chunk]
      BY SMT
    <2>2. 0 \in 0..MaxChunks
      BY MaxChunksAssumption
    <2> QED BY <2>1, <2>2 DEF Chunks
  <1>3. NoNote \in Note
    BY <1>2 DEF Note, NoNote
  <1>4. NoNote.chunks = <<>> /\ Len(NoNote.chunks) = 0
    BY DEF NoNote
  <1> QED BY <1>1, <1>3, <1>4

\* What the loop may append of a chunk stays within the cap, and is the whole
\* chunk if the cap is not reached.
LEMMA AllowanceProperties ==
  ASSUME TypeOK, NEW k \in Chunk
  PROVE  /\ Allowance(k) \in Nat /\ respInspected + Allowance(k) <= Cap
         /\ Lesser(Allowance(k), k.len) \in 0..Allowance(k)
         /\ k.kind # "other" /\ respInspected + Lesser(Allowance(k), k.len) < Cap
              => Lesser(Allowance(k), k.len) = k.len
  <1>1. k.len \in Nat
    <2>1. k.len \in 0..MaxLen \/ k.len \in 1..MaxLen
      BY DEF Chunk
    <2> QED BY <2>1, MaxLenAssumption
  <1>2. respInspected \in 0..Cap /\ Cap \in Nat
    BY CapAssumption DEF TypeOK
  <1> QED BY <1>1, <1>2 DEF Allowance, Lesser

\* A pass of the loop: n bytes of the next chunk are appended.
LEMMA InspectEffect ==
  ASSUME TypeOK, InspectChunk
  PROVE  \E n \in Nat :
           /\ c + 1 \in 1..Len(note.chunks) /\ note.chunks[c + 1] \in Chunk
           /\ respInspected' = respInspected + n /\ respInspected' \in 0..Cap
           /\ buffered' = buffered + n
           /\ odd \subseteq odd' /\ odd' \subseteq odd \cup {"misread", "skipped"}
           /\ odd' = {} /\ respInspected' < Cap => n = note.chunks[c + 1].len
  <1> DEFINE k == note.chunks[c + 1]
             most == Lesser(Allowance(k), k.len)
  <1>1. note.chunks \in Chunks
    BY NoteProperties DEF TypeOK
  <1>2. Len(note.chunks) \in Nat /\ \A i \in 1..Len(note.chunks) : note.chunks[i] \in Chunk
    BY <1>1, ChunksProperties
  <1>3. c \in Nat /\ c < Len(note.chunks)
    BY <1>2 DEF TypeOK, InspectChunk
  <1>4. c + 1 \in 1..Len(note.chunks)
    BY <1>2, <1>3
  <1>5. k \in Chunk
    BY <1>2, <1>4
  <1>6. PICK n \in IF k.kind = "file" THEN 0..Allowance(k) ELSE {most} :
          /\ respInspected' = respInspected + n
          /\ buffered' = buffered + n
          /\ odd' = odd \cup (IF n # most THEN {"misread"} ELSE {})
                        \cup (IF k.kind = "other" THEN {"skipped"} ELSE {})
    BY DEF InspectChunk
  <1> HIDE DEF k
  <1>7. /\ Allowance(k) \in Nat /\ respInspected + Allowance(k) <= Cap
        /\ most \in 0..Allowance(k)
        /\ k.kind # "other" /\ respInspected + most < Cap => most = k.len
    BY <1>5, AllowanceProperties
  <1> HIDE DEF most
  <1>8. n \in Nat /\ n <= Allowance(k)
    BY <1>6, <1>7
  <1>9. respInspected' \in 0..Cap
    <2>1. respInspected \in Nat /\ Cap \in Nat
      BY CapAssumption DEF TypeOK
    <2> QED BY <1>6, <1>7, <1>8, <2>1
  <1>10. odd \subseteq odd' /\ odd' \subseteq odd \cup {"misread", "skipped"}
    BY <1>6
  <1>11. ASSUME odd' = {}, respInspected' < Cap PROVE n = k.len
    <2>1. n = most /\ k.kind # "other"
      BY <1>6, <1>11
    <2>2. respInspected + most < Cap
      BY <1>6, <1>11, <2>1
    <2> QED BY <1>7, <2>1, <2>2
  <1> QED BY <1>4, <1>5, <1>6, <1>8, <1>9, <1>10, <1>11 DEF k

(***************************************************************************)
(* Every step keeps each part of the invariant.                            *)
(***************************************************************************)

\* The types.
LEMMA TypeStep ==
  ASSUME TypeOK, Control, Next
  PROVE  TypeOK'
  <1> USE CapAssumption, MaxSendsAssumption
  <1>a. Size(note.chunks) \in Nat /\ note.chunks \in Chunks
    BY NoteProperties, SizeProperties DEF TypeOK
  <1>b. Len(note.chunks) \in Nat
    BY ChunksProperties
  <1>1. ASSUME NEW n \in Note, OnSendResponse(n) PROVE TypeOK'
    <2>1. note' \in Note /\ c' \in 0..Len(note'.chunks) /\ respInspected' \in 0..Cap
      BY <1>1, NoteProperties DEF OnSendResponse, noteVars, Control, Working
    <2>2. /\ sends' \in 0..MaxSends /\ out' \in Nat /\ undecided' \in Nat
          /\ blockedAt' \in Nat \cup {-1}
          /\ buffered' \in Nat /\ phase3' \in Nat /\ phase4' \in Nat /\ evaluated' \in Nat
          /\ pinned' \in Nat \cup {-1}
      BY <1>1, SizeProperties, NoteProperties
      DEF OnSendResponse, engineVars, TypeOK
    <2> QED
      BY <1>1, <2>1, <2>2
      DEF OnSendResponse, rscVars, noteVars, engineVars, TypeOK
  <1>2. CASE FeedHeaders
    <2>1. note' \in Note /\ c' \in 0..Len(note'.chunks) /\ respInspected' \in 0..Cap
      BY <1>2, NoteProperties DEF FeedHeaders, Block, Finish, noteVars, TypeOK
    <2>2. /\ sends' \in 0..MaxSends /\ out' \in Nat /\ undecided' \in Nat
          /\ blockedAt' \in Nat \cup {-1}
          /\ buffered' \in Nat /\ phase3' \in Nat /\ phase4' \in Nat /\ evaluated' \in Nat
          /\ pinned' \in Nat \cup {-1}
      BY <1>2 DEF FeedHeaders, Block, Finish, iisVars, TypeOK
    <2> QED
      BY <1>2, <2>1, <2>2
      DEF FeedHeaders, Block, Finish, noteVars, iisVars, TypeOK
  <1>3. CASE InspectChunk
    BY <1>3, InspectEffect DEF InspectChunk, rscVars, iisVars, TypeOK
  <1>4. CASE ChunksDone
    BY <1>4 DEF ChunksDone, rscVars, noteVars, iisVars, engineVars, TypeOK
  <1>5. CASE Degrade
    <2>1. note' \in Note /\ c' \in 0..Len(note'.chunks) /\ respInspected' \in 0..Cap
      BY <1>5, NoteProperties DEF Degrade, Continue
    <2>2. /\ sends' \in 0..MaxSends /\ out' \in Nat /\ undecided' \in Nat
          /\ blockedAt' \in Nat \cup {-1}
          /\ buffered' \in Nat /\ phase3' \in Nat /\ phase4' \in Nat /\ evaluated' \in Nat
          /\ pinned' \in Nat \cup {-1}
      BY <1>5, <1>a DEF Degrade, Continue, engineVars, TypeOK
    <2> QED
      BY <1>5, <2>1, <2>2 DEF Degrade, Continue, engineVars, TypeOK
  <1>6. CASE EvaluateModeA
    <2>1. note' \in Note /\ c' \in 0..Len(note'.chunks) /\ respInspected' \in 0..Cap
      BY <1>6, NoteProperties DEF EvaluateModeA, Block, Finish, Continue
    <2>2. /\ sends' \in 0..MaxSends /\ out' \in Nat /\ undecided' \in Nat
          /\ blockedAt' \in Nat \cup {-1}
          /\ buffered' \in Nat /\ phase3' \in Nat /\ phase4' \in Nat /\ evaluated' \in Nat
          /\ pinned' \in Nat \cup {-1}
      BY <1>6, <1>a
      DEF EvaluateModeA, RunPhase4, Block, Finish, Continue, PinLength, TypeOK
    <2> QED
      BY <1>6, <2>1, <2>2
      DEF EvaluateModeA, RunPhase4, Block, Finish, Continue, Early, TypeOK
  <1>7. CASE EvaluateModeB
    <2>1. note' \in Note /\ c' \in 0..Len(note'.chunks) /\ respInspected' \in 0..Cap
      BY <1>7, NoteProperties DEF EvaluateModeB, Continue
    <2> QED
      BY <1>7, <1>a, <2>1 DEF EvaluateModeB, RunPhase4, Continue, Early, TypeOK
  <1>8. CASE PassOn
    BY <1>8, <1>a, NoteProperties
    DEF PassOn, Continue, rscVars, engineVars, TypeOK
  <1>9. CASE HeadersThrow
    <2>1. note' \in Note /\ c' \in 0..Len(note'.chunks) /\ respInspected' \in 0..Cap
      BY <1>9, NoteProperties
      DEF HeadersThrow, SendResponseExceptionPolicy, Finish, Continue
    <2>2. /\ sends' \in 0..MaxSends /\ out' \in Nat /\ undecided' \in Nat
          /\ blockedAt' \in Nat \cup {-1}
          /\ buffered' \in Nat /\ phase3' \in Nat /\ phase4' \in Nat /\ evaluated' \in Nat
          /\ pinned' \in Nat \cup {-1}
      BY <1>9, <1>a
      DEF HeadersThrow, SendResponseExceptionPolicy, Finish, Continue, TypeOK
    <2> QED
      BY <1>9, <2>1, <2>2
      DEF HeadersThrow, SendResponseExceptionPolicy, Finish, Continue, rscVars,
          TypeOK
  <1>10. CASE AppendThrows
    <2>1. note' \in Note /\ c' \in 0..Len(note'.chunks) /\ respInspected' \in 0..Cap
      BY <1>10, NoteProperties
      DEF AppendThrows, SendResponseExceptionPolicy, Finish, Continue
    <2>2. /\ sends' \in 0..MaxSends /\ out' \in Nat /\ undecided' \in Nat
          /\ blockedAt' \in Nat \cup {-1}
          /\ buffered' \in Nat /\ phase3' \in Nat /\ phase4' \in Nat /\ evaluated' \in Nat
          /\ pinned' \in Nat \cup {-1}
      BY <1>10, <1>a, SMTT(30)
      DEF AppendThrows, SendResponseExceptionPolicy, Finish, Continue, TypeOK
    <2> QED
      BY <1>10, <2>1, <2>2
      DEF AppendThrows, SendResponseExceptionPolicy, Finish, Continue, rscVars,
          TypeOK
  <1>11. CASE EvaluateThrows
    <2>1. note' \in Note /\ c' \in 0..Len(note'.chunks) /\ respInspected' \in 0..Cap
      BY <1>11, NoteProperties DEF EvaluateThrows, Continue
    <2>2. /\ sends' \in 0..MaxSends /\ out' \in Nat /\ undecided' \in Nat
          /\ blockedAt' \in Nat \cup {-1}
          /\ buffered' \in Nat /\ phase3' \in Nat /\ phase4' \in Nat /\ evaluated' \in Nat
          /\ pinned' \in Nat \cup {-1}
      BY <1>11, <1>a DEF EvaluateThrows, Continue, PinLength, TypeOK
    <2> QED
      BY <1>11, <2>1, <2>2 DEF EvaluateThrows, Continue, TypeOK
  <1>12. CASE EndRequest
    BY <1>12 DEF EndRequest, noteVars, iisVars, engineVars, TypeOK
  <1> QED
    BY <1>1, <1>2, <1>3, <1>4, <1>5, <1>6, <1>7, <1>8, <1>9, <1>10, <1>11, <1>12
    DEF Next

\* Where the handler is.
LEMMA ControlStep ==
  ASSUME TypeOK, Control, Phases, Next
  PROVE  Control'
  <1>1. ASSUME NEW n \in Note, OnSendResponse(n) PROVE Control'
    BY <1>1 DEF OnSendResponse, rscVars, noteVars, TypeOK, Control, Working
  <1>2. CASE FeedHeaders
    BY <1>2 DEF FeedHeaders, Block, Finish, iisVars, Control, Working
  <1>3. CASE InspectChunk
    BY <1>3 DEF InspectChunk, rscVars, iisVars, Control, Working
  <1>4. CASE ChunksDone
    BY <1>4 DEF ChunksDone, rscVars, noteVars, iisVars, Control, Working
  <1>5. CASE Degrade
    BY <1>5 DEF Degrade, Continue, Control, Working
  <1>6. CASE EvaluateModeA
    BY <1>6
    DEF EvaluateModeA, RunPhase4, Block, Finish, Continue, Control, Working
  <1>7. CASE EvaluateModeB
    BY <1>7 DEF EvaluateModeB, RunPhase4, Continue, Control, Working
  <1>8. CASE PassOn
    BY <1>8 DEF PassOn, Continue, Control, Working
  <1>9. CASE HeadersThrow
    BY <1>9
    DEF HeadersThrow, SendResponseExceptionPolicy, Finish, Continue, Control,
        Working
  <1>10. CASE AppendThrows
    BY <1>10
    DEF AppendThrows, SendResponseExceptionPolicy, Finish, Continue, Control,
        Working
  <1>11. CASE EvaluateThrows
    BY <1>11 DEF EvaluateThrows, Continue, Control, Working
  <1>12. CASE EndRequest
    BY <1>12 DEF EndRequest, noteVars, iisVars, Control, Working
  <1> QED
    BY <1>1, <1>2, <1>3, <1>4, <1>5, <1>6, <1>7, <1>8, <1>9, <1>10, <1>11, <1>12
    DEF Next

\* How often the phases have run.
LEMMA PhasesStep ==
  ASSUME TypeOK, Control, Phases, Next
  PROVE  Phases'
  <1>1. ASSUME NEW n \in Note, OnSendResponse(n) PROVE Phases'
    BY <1>1 DEF OnSendResponse, rscVars, engineVars, Phases
  <1>2. CASE FeedHeaders
    BY <1>2 DEF FeedHeaders, Block, Finish, Control, Phases, Working
  <1>3. CASE InspectChunk
    BY <1>3 DEF InspectChunk, rscVars, Phases
  <1>4. CASE ChunksDone
    BY <1>4 DEF ChunksDone, rscVars, engineVars, Phases
  <1>5. CASE Degrade
    BY <1>5 DEF Degrade, Continue, engineVars, Phases
  <1>6. CASE EvaluateModeA
    BY <1>6 DEF EvaluateModeA, RunPhase4, Block, Finish, Continue, Control, Phases
  <1>7. CASE EvaluateModeB
    BY <1>7 DEF EvaluateModeB, RunPhase4, Continue, Control, Phases
  <1>8. CASE PassOn
    BY <1>8 DEF PassOn, Continue, rscVars, engineVars, Phases
  <1>9. CASE HeadersThrow
    BY <1>9
    DEF HeadersThrow, SendResponseExceptionPolicy, Finish, Continue, rscVars,
        Control, Phases, Working
  <1>10. CASE AppendThrows
    BY <1>10
    DEF AppendThrows, SendResponseExceptionPolicy, Finish, Continue, rscVars,
        Phases
  <1>11. CASE EvaluateThrows
    BY <1>11 DEF EvaluateThrows, Continue, Control, Phases
  <1>12. CASE EndRequest
    BY <1>12 DEF EndRequest, engineVars, Phases
  <1> QED
    BY <1>1, <1>2, <1>3, <1>4, <1>5, <1>6, <1>7, <1>8, <1>9, <1>10, <1>11, <1>12
    DEF Next

\* Only a failed or a raw-less notification has bytes that nobody decided on.
LEMMA StraysStep ==
  ASSUME TypeOK, Strays, Next
  PROVE  Strays'
  <1>1. ASSUME NEW n \in Note, OnSendResponse(n) PROVE Strays'
    BY <1>1 DEF OnSendResponse, Strays
  <1>2. CASE FeedHeaders
    BY <1>2 DEF FeedHeaders, iisVars, Strays
  <1>3. CASE InspectChunk
    BY <1>3, InspectEffect DEF InspectChunk, iisVars, Strays
  <1>4. CASE ChunksDone
    BY <1>4 DEF ChunksDone, iisVars, Strays
  <1>5. CASE Degrade
    BY <1>5 DEF Degrade, Strays
  <1>6. CASE EvaluateModeA
    BY <1>6 DEF EvaluateModeA, Strays
  <1>7. CASE EvaluateModeB
    BY <1>7 DEF EvaluateModeB, Strays
  <1>8. CASE PassOn
    BY <1>8 DEF PassOn, Strays
  <1>9. CASE HeadersThrow
    BY <1>9 DEF HeadersThrow, Strays
  <1>10. CASE AppendThrows
    BY <1>10 DEF AppendThrows, Strays
  <1>11. CASE EvaluateThrows
    BY <1>11 DEF EvaluateThrows, Strays
  <1>12. CASE EndRequest
    BY <1>12 DEF EndRequest, iisVars, Strays
  <1> QED
    BY <1>1, <1>2, <1>3, <1>4, <1>5, <1>6, <1>7, <1>8, <1>9, <1>10, <1>11, <1>12
    DEF Next

\* Mode A holds the bytes: what leaves without the choice between the modes
\* leaves in OnSendResponse or AppendThrows, and is counted there; before phase
\* 3 a failed notification sends nothing; after it Degrade ends Mode A, and
\* the evaluation, also a failing one, marks phase 4.
LEMMA HeldStep ==
  ASSUME TypeOK, Control, Phases, ModeAHoldsBytes, Next
  PROVE  ModeAHoldsBytes'
  <1>1. ASSUME NEW n \in Note, OnSendResponse(n) PROVE ModeAHoldsBytes'
    BY <1>1
    DEF OnSendResponse, rscVars, ModeAHoldsBytes, responseBodyBlockingEnabled
  <1>2. CASE FeedHeaders
    BY <1>2
    DEF FeedHeaders, Block, iisVars, ModeAHoldsBytes, responseBodyBlockingEnabled
  <1>3. CASE InspectChunk
    BY <1>3
    DEF InspectChunk, rscVars, iisVars, ModeAHoldsBytes, responseBodyBlockingEnabled
  <1>4. CASE ChunksDone
    BY <1>4
    DEF ChunksDone, rscVars, iisVars, ModeAHoldsBytes, responseBodyBlockingEnabled
  <1>5. CASE Degrade
    BY <1>5 DEF Degrade, ModeAHoldsBytes, responseBodyBlockingEnabled
  <1>6. CASE EvaluateModeA
    BY <1>6 DEF EvaluateModeA, RunPhase4, ModeAHoldsBytes
  <1>7. CASE EvaluateModeB
    BY <1>7 DEF EvaluateModeB, RunPhase4, ModeAHoldsBytes
  <1>8. CASE PassOn
    BY <1>8
    DEF PassOn, Continue, rscVars, ModeAHoldsBytes, responseBodyBlockingEnabled
  <1>9. CASE HeadersThrow
    <2>1. m_pTx = "live" /\ ~m_ResponseHeadersFed /\ ~m_ResponseBodyEvaluated
      BY <1>9 DEF HeadersThrow, Control, Phases, Working
    <2>2. Finish
      BY <1>9, <2>1 DEF HeadersThrow, SendResponseExceptionPolicy
    <2> QED
      BY <1>9, <2>2
      DEF HeadersThrow, Finish, rscVars, ModeAHoldsBytes, responseBodyBlockingEnabled
  <1>10. CASE AppendThrows
    <2>1. Continue(Size(note.chunks))
      BY <1>10 DEF AppendThrows, SendResponseExceptionPolicy, Control
    <2> QED
      BY <1>10, <2>1
      DEF AppendThrows, Continue, rscVars, ModeAHoldsBytes,
          responseBodyBlockingEnabled
  <1>11. CASE EvaluateThrows
    BY <1>11 DEF EvaluateThrows, ModeAHoldsBytes
  <1>12. CASE EndRequest
    BY <1>12 DEF EndRequest, ModeAHoldsBytes, responseBodyBlockingEnabled
  <1> QED
    BY <1>1, <1>2, <1>3, <1>4, <1>5, <1>6, <1>7, <1>8, <1>9, <1>10, <1>11, <1>12
    DEF Next

\* Nothing is replaced late: a replacement comes where Mode A holds the bytes,
\* and nothing is handled after it.
LEMMA LateStep ==
  ASSUME TypeOK, Control, Phases, ModeAHoldsBytes, NeverBlocksLate, Next
  PROVE  NeverBlocksLate'
  <1>1. ASSUME NEW n \in Note, OnSendResponse(n) PROVE NeverBlocksLate'
    BY <1>1 DEF OnSendResponse, Control, NeverBlocksLate
  <1>2. CASE FeedHeaders
    <2>1. ~m_ResponseBodyEvaluated
      BY <1>2 DEF FeedHeaders, Control, Phases
    <2> QED
      BY <1>2, <2>1
      DEF FeedHeaders, Block, iisVars, ModeAHoldsBytes, NeverBlocksLate
  <1>3. CASE InspectChunk
    BY <1>3 DEF InspectChunk, iisVars, NeverBlocksLate
  <1>4. CASE ChunksDone
    BY <1>4 DEF ChunksDone, iisVars, NeverBlocksLate
  <1>5. CASE Degrade
    BY <1>5 DEF Degrade, NeverBlocksLate
  <1>6. CASE EvaluateModeA
    BY <1>6 DEF EvaluateModeA, Block, ModeAHoldsBytes, NeverBlocksLate
  <1>7. CASE EvaluateModeB
    BY <1>7 DEF EvaluateModeB, NeverBlocksLate
  <1>8. CASE PassOn
    BY <1>8 DEF PassOn, NeverBlocksLate
  <1>9. CASE HeadersThrow
    BY <1>9 DEF HeadersThrow, NeverBlocksLate
  <1>10. CASE AppendThrows
    BY <1>10 DEF AppendThrows, Control, NeverBlocksLate
  <1>11. CASE EvaluateThrows
    BY <1>11 DEF EvaluateThrows, NeverBlocksLate
  <1>12. CASE EndRequest
    BY <1>12 DEF EndRequest, iisVars, NeverBlocksLate
  <1> QED
    BY <1>1, <1>2, <1>3, <1>4, <1>5, <1>6, <1>7, <1>8, <1>9, <1>10, <1>11, <1>12
    DEF Next

\* The last byte leaves with the evaluation.
LEMMA CoveredStep ==
  ASSUME TypeOK, Control, Covered, Next
  PROVE  Covered'
  <1>1. ASSUME NEW n \in Note, OnSendResponse(n) PROVE Covered'
    BY <1>1 DEF OnSendResponse, rscVars, Covered
  <1>2. CASE FeedHeaders
    BY <1>2 DEF FeedHeaders, Block, Finish, iisVars, Covered
  <1>3. CASE InspectChunk
    BY <1>3 DEF InspectChunk, rscVars, iisVars, Control, Covered, Working
  <1>4. CASE ChunksDone
    BY <1>4 DEF ChunksDone, rscVars, iisVars, Control, Covered, Working
  <1>5. CASE Degrade
    BY <1>5 DEF Degrade, Continue, TypeOK, Covered
  <1>6. CASE EvaluateModeA
    BY <1>6
    DEF EvaluateModeA, RunPhase4, Block, Finish, Continue, TypeOK, Covered,
        responseBodyBlockingEnabled, Early
  <1>7. CASE EvaluateModeB
    BY <1>7
    DEF EvaluateModeB, RunPhase4, Continue, TypeOK, Control, Covered, Working,
        responseBodyBlockingEnabled, Early
  <1>8. CASE PassOn
    BY <1>8 DEF PassOn, Continue, rscVars, TypeOK, Control, Covered, Working
  <1>9. CASE HeadersThrow
    BY <1>9
    DEF HeadersThrow, SendResponseExceptionPolicy, Finish, Continue, Covered
  <1>10. CASE AppendThrows
    BY <1>10
    DEF AppendThrows, SendResponseExceptionPolicy, Finish, Continue, Covered
  <1>11. CASE EvaluateThrows
    BY <1>11 DEF EvaluateThrows, Continue, Covered
  <1>12. CASE EndRequest
    BY <1>12 DEF EndRequest, Covered
  <1> QED
    BY <1>1, <1>2, <1>3, <1>4, <1>5, <1>6, <1>7, <1>8, <1>9, <1>10, <1>11, <1>12
    DEF Next

\* A failed start stops the response.
LEMMA StartStep ==
  ASSUME TypeOK, Control, Phases, FailedStartStops, Next
  PROVE  FailedStartStops'
  <1>1. ASSUME NEW n \in Note, OnSendResponse(n) PROVE FailedStartStops'
    BY <1>1 DEF OnSendResponse, rscVars, engineVars, FailedStartStops
  <1>2. CASE FeedHeaders
    BY <1>2
    DEF FeedHeaders, Block, Finish, Control, Phases, FailedStartStops, Working
  <1>3. CASE InspectChunk
    BY <1>3 DEF InspectChunk, Control, Phases, FailedStartStops
  <1>4. CASE ChunksDone
    BY <1>4 DEF ChunksDone, engineVars, Control, Phases, FailedStartStops
  <1>5. CASE Degrade
    BY <1>5 DEF Degrade, Continue, engineVars, Control, Phases, FailedStartStops
  <1>6. CASE EvaluateModeA
    BY <1>6
    DEF EvaluateModeA, RunPhase4, Block, Finish, Continue, Control, Phases,
        FailedStartStops
  <1>7. CASE EvaluateModeB
    BY <1>7
    DEF EvaluateModeB, RunPhase4, Continue, Control, Phases, FailedStartStops
  <1>8. CASE PassOn
    BY <1>8 DEF PassOn, Continue, engineVars, Control, Phases, FailedStartStops
  <1>9. CASE HeadersThrow
    BY <1>9
    DEF HeadersThrow, SendResponseExceptionPolicy, Finish, Continue, Control,
        Phases, FailedStartStops, Working
  <1>10. CASE AppendThrows
    BY <1>10
    DEF AppendThrows, SendResponseExceptionPolicy, Finish, Continue, Control,
        Phases, FailedStartStops
  <1>11. CASE EvaluateThrows
    BY <1>11 DEF EvaluateThrows, Continue, Control, Phases, FailedStartStops
  <1>12. CASE EndRequest
    BY <1>12 DEF EndRequest, FailedStartStops
  <1> QED
    BY <1>1, <1>2, <1>3, <1>4, <1>5, <1>6, <1>7, <1>8, <1>9, <1>10, <1>11, <1>12
    DEF Next

\* What has been inspected is what the chunks carry.
LEMMA CountedStep ==
  ASSUME TypeOK, Control, Counted, Next
  PROVE  Counted'
  <1>a. note.chunks \in Chunks
    BY NoteProperties DEF TypeOK
  <1>b. Len(note.chunks) \in Nat
    BY ChunksProperties
  <1>1. ASSUME NEW n \in Note, OnSendResponse(n) PROVE Counted'
    <2>1. SizeUpTo(n.chunks)[0] = 0
      BY <1>1, NoteProperties, SizeProperties
    <2>2. CASE m_pTx = "null" \/ ~n.raw
      BY <1>1, <2>2 DEF OnSendResponse, Counted, Working
    <2>3. CASE ~(m_pTx = "null" \/ ~n.raw)
      BY <1>1, <2>1, <2>3 DEF OnSendResponse, Control, Counted, Working
    <2> QED BY <2>2, <2>3
  <1>2. CASE FeedHeaders
    BY <1>2 DEF FeedHeaders, Block, Finish, noteVars, Counted, Working
  <1>3. CASE InspectChunk
    <2>1. PICK n \in Nat :
            /\ c + 1 \in 1..Len(note.chunks)
            /\ respInspected' = respInspected + n
            /\ odd \subseteq odd'
            /\ odd' = {} /\ respInspected' < Cap => n = note.chunks[c + 1].len
      BY <1>3, InspectEffect
    <2>2. note' = note /\ c' = c + 1 /\ Working
      BY <1>3 DEF InspectChunk, Working
    <2> SUFFICES ASSUME odd' = {}, respInspected' < Cap
                 PROVE  respInspected' = SizeUpTo(note.chunks)[c + 1]
      BY <2>2 DEF Counted
    <2>3. n = note.chunks[c + 1].len
      BY <2>1
    <2>4. respInspected = SizeUpTo(note.chunks)[c]
      BY <2>1, <2>2, CapAssumption DEF Counted, TypeOK
    <2>5. SizeUpTo(note.chunks)[c + 1]
            = SizeUpTo(note.chunks)[(c + 1) - 1] + note.chunks[c + 1].len
      BY <1>a, <2>1, SizeProperties
    <2>6. (c + 1) - 1 = c
      BY DEF TypeOK
    <2> QED BY <2>1, <2>3, <2>4, <2>5, <2>6
  <1>4. CASE ChunksDone
    BY <1>4 DEF ChunksDone, noteVars, Counted, Working
  <1>5. CASE Degrade
    BY <1>5 DEF Degrade, Continue, Counted, Working
  <1>6. CASE EvaluateModeA
    BY <1>6
    DEF EvaluateModeA, RunPhase4, Block, Finish, Continue, Counted, Working
  <1>7. CASE EvaluateModeB
    BY <1>7 DEF EvaluateModeB, RunPhase4, Continue, Counted, Working
  <1>8. CASE PassOn
    BY <1>8 DEF PassOn, Continue, Counted, Working
  <1>9. CASE HeadersThrow
    BY <1>9
    DEF HeadersThrow, SendResponseExceptionPolicy, Finish, Continue, Counted
  <1>10. CASE AppendThrows
    BY <1>10
    DEF AppendThrows, SendResponseExceptionPolicy, Finish, Continue, Counted
  <1>11. CASE EvaluateThrows
    BY <1>11 DEF EvaluateThrows, Continue, Counted
  <1>12. CASE EndRequest
    BY <1>12 DEF EndRequest, Counted, Working
  <1> QED
    BY <1>1, <1>2, <1>3, <1>4, <1>5, <1>6, <1>7, <1>8, <1>9, <1>10, <1>11, <1>12
    DEF Next

\* What is pinned is the length of the body.
LEMMA PinsStep ==
  ASSUME TypeOK, Control, Strays, ModeAHoldsBytes, Covered, Counted, Pins, Next
  PROVE  Pins'
  <1>a. note.chunks \in Chunks /\ Size(note.chunks) \in Nat
    BY NoteProperties, SizeProperties DEF TypeOK
  <1>1. ASSUME NEW n \in Note, OnSendResponse(n) PROVE Pins'
    BY <1>1 DEF OnSendResponse, engineVars, Pins
  <1>2. CASE FeedHeaders
    BY <1>2 DEF FeedHeaders, Block, Finish, iisVars, TypeOK, Pins
  <1>3. CASE InspectChunk
    BY <1>3, InspectEffect DEF InspectChunk, iisVars, Pins
  <1>4. CASE ChunksDone
    BY <1>4 DEF ChunksDone, iisVars, engineVars, Pins
  <1>5. CASE Degrade
    BY <1>5 DEF Degrade, Continue, engineVars, Control, Pins, Working
  <1>6. CASE EvaluateModeA
    <2> SUFFICES ASSUME pinned' >= 0, blockedAt' = -1, odd' = {}
                 PROVE  over' /\ pinned' = out'
      BY DEF Pins
    <2>1. /\ pc = "phase4" /\ ~over /\ c = Len(note.chunks) /\ ~note.moreData
          /\ odd = {} /\ note.chunks # <<>>
      BY <1>6 DEF EvaluateModeA, Control, Early
    <2>2. out = 0
      BY <1>6, <2>1 DEF EvaluateModeA, Strays, ModeAHoldsBytes
    <2>3. Continue(Size(note.chunks)) /\ blockedAt = -1
      BY <1>6, <2>2 DEF EvaluateModeA, Block
    <2>4. out' = Size(note.chunks) /\ over'
      <3>1. out' = out + Size(note.chunks)
        BY <2>3 DEF Continue
      <3>2. over'
        BY <2>1, <2>3 DEF Continue
      <3> QED BY <1>a, <2>2, <3>1, <3>2
    <2>5. ~(pinned >= 0)
      BY <2>1, <2>3 DEF Pins
    <2>6. pinned' = respInspected /\ respInspected < Cap
      BY <1>6, <2>5 DEF EvaluateModeA, PinLength
    <2>7. respInspected = SizeUpTo(note.chunks)[Len(note.chunks)]
      BY <2>1, <2>6 DEF Counted, Working
    <2> QED BY <1>a, <2>4, <2>6, <2>7, SizeProperties
  <1>7. CASE EvaluateModeB
    BY <1>7 DEF EvaluateModeB, RunPhase4, Continue, Control, Pins, Working
  <1>8. CASE PassOn
    BY <1>8 DEF PassOn, Continue, engineVars, Control, Pins, Working
  <1>9. CASE HeadersThrow
    BY <1>9
    DEF HeadersThrow, SendResponseExceptionPolicy, Finish, Continue, Control, Pins
  <1>10. CASE AppendThrows
    BY <1>10 DEF AppendThrows, SendResponseExceptionPolicy, Finish, Continue, Pins
  <1>11. CASE EvaluateThrows
    BY <1>11 DEF EvaluateThrows, Continue, Pins
  <1>12. CASE EndRequest
    BY <1>12 DEF EndRequest, iisVars, engineVars, Pins
  <1> QED
    BY <1>1, <1>2, <1>3, <1>4, <1>5, <1>6, <1>7, <1>8, <1>9, <1>10, <1>11, <1>12
    DEF Next

(***************************************************************************)
(* The invariant is inductive.                                             *)
(***************************************************************************)

\* The initial states satisfy the invariant.
LEMMA InitInv == Init => IInv
  <1> SUFFICES ASSUME Init PROVE IInv
    OBVIOUS
  <1> USE CapAssumption, MaxSendsAssumption DEF Init
  <1>1. Control /\ Phases /\ Counted /\ Pins
    BY DEF Control, Working, Phases, Counted, Pins
  <1>2. Strays /\ ModeAHoldsBytes
    BY DEF Strays, ModeAHoldsBytes
  <1>3. NeverBlocksLate /\ Covered /\ FailedStartStops
    BY DEF NeverBlocksLate, Covered, FailedStartStops
  <1>4. site.block \in BOOLEAN
    OBVIOUS
  <1>5. note \in Note /\ c \in 0..Len(note.chunks) /\ respInspected \in 0..Cap
    BY NoteProperties
  <1>6. /\ sends \in 0..MaxSends /\ buffered \in Nat /\ phase3 \in Nat /\ phase4 \in Nat
        /\ evaluated \in Nat /\ out \in Nat /\ undecided \in Nat
        /\ pinned \in Nat \cup {-1} /\ blockedAt \in Nat \cup {-1}
    OBVIOUS
  <1>7. m_ResponseBodyBlock \in BOOLEAN
    BY <1>4
  <1>8. TypeOK
    BY <1>5, <1>6, <1>7 DEF TypeOK
  <1> QED BY <1>1, <1>2, <1>3, <1>8 DEF IInv

\* Every step, a stuttering one too, preserves it.
LEMMA StepInv == IInv /\ [Next]_vars => IInv'
  <1> SUFFICES ASSUME IInv, [Next]_vars PROVE IInv'
    OBVIOUS
  <1>1. CASE Next
    BY <1>1, TypeStep, ControlStep, PhasesStep, StraysStep, HeldStep, LateStep,
       CoveredStep, StartStep, CountedStep, PinsStep
    DEF IInv
  <1>2. CASE UNCHANGED vars
    <2>1. UNCHANGED <<site, m_pTx, m_ResponseHeadersFed, m_ResponseBodyBlock,
                      m_ResponseBodyEvaluated, pc, note, c, respInspected, sends, over,
                      buffered, phase3, phase4, evaluated, pinned, out, undecided, blockedAt,
                      odd>>
      BY <1>2 DEF vars, rscVars, noteVars, iisVars, engineVars
    <2>2. Control' /\ Phases' /\ Counted' /\ Pins'
      BY <2>1 DEF IInv, Control, Working, Phases, Counted, Pins
    <2>3. Strays' /\ ModeAHoldsBytes' /\ NeverBlocksLate' /\ Covered' /\ FailedStartStops'
      BY <2>1
      DEF IInv, Strays, ModeAHoldsBytes, NeverBlocksLate, Covered, FailedStartStops,
          responseBodyBlockingEnabled
    <2>4. TypeOK'
      BY <2>1 DEF IInv, TypeOK
    <2> QED BY <2>2, <2>3, <2>4 DEF IInv
  <1> QED BY <1>1, <1>2

\* IInv holds in every reachable state.
LEMMA Inductive == Spec => []IInv
  BY InitInv, StepInv, PTL DEF Spec

(***************************************************************************)
(* The theorems.                                                           *)
(***************************************************************************)

\* Every reachable state is well typed: whatever the chunks and the flushes,
\* what one notification has inspected never exceeds the cap.
THEOREM TypeCorrect == Spec => []TypeOK
  <1>1. IInv => TypeOK
    BY DEF IInv
  <1> QED BY <1>1, Inductive, PTL

\* However many flushes a response takes, phase 3 completes at most once and
\* phase 4 starts at most once, never before phase 3.
THEOREM EachPhaseOnce == Spec => []PhasesOnce
  <1>1. IInv => PhasesOnce
    BY DEF IInv, TypeOK, Phases, PhasesOnce
  <1> QED BY <1>1, Inductive, PTL

\* When a response is replaced, no byte of it has left, but those of
\* notifications that ended before the choice between the modes: one without a
\* raw response, or one in which an append failed.
THEOREM BlocksInTime == Spec => []NeverBlocksLate
  <1>1. IInv => NeverBlocksLate
    BY DEF IInv
  <1> QED BY <1>1, Inductive, PTL

\* When the last byte has left and nothing odd has happened, phase 4 has seen
\* everything the engine was given.
THEOREM SeesTheBody == Spec => []EvaluationCoversBody
  <1>1. IInv => EvaluationCoversBody
    BY DEF IInv, Phases, Covered, EvaluationCoversBody
  <1> QED BY <1>1, Inductive, PTL

\* As long as a response can still be blocked, everything that has left did so
\* in notifications that ended before the choice between the modes: Mode A
\* itself lets no byte go before it evaluates or gives up blocking.
THEOREM HoldsBytes == Spec => []ModeAHoldsBytes
  <1>1. IInv => ModeAHoldsBytes
    BY DEF IInv
  <1> QED BY <1>1, Inductive, PTL

\* A response whose inspection failed before it had begun does not leave.
THEOREM FailedStartIsStopped == Spec => []FailedStartStops
  <1>1. IInv => FailedStartStops
    BY DEF IInv
  <1> QED BY <1>1, Inductive, PTL

\* The Content-Length the module sets is the length of the body, if every
\* chunk could be inspected.
THEOREM PinsTheLength == Spec => []PinnedLengthExact
  <1>1. IInv => PinnedLengthExact
    BY DEF IInv, Pins, PinnedLengthExact
  <1> QED BY <1>1, Inductive, PTL
=============================================================================
