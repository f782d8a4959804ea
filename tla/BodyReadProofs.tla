--------------------------- MODULE BodyReadProofs ---------------------------
(***************************************************************************)
(* Proofs about BodyRead, for any number of threads, any entity, chunk and *)
(* cap size, asynchronous and synchronous.                                 *)
(*                                                                         *)
(* The argument: the body of a request is a token.  It is held by the one  *)
(* thread that works on it, by the one read that is outstanding, or, after *)
(* the read has completed, by the thread that carries its completion.      *)
(* READ_PENDING is published exactly while a completion may be claimed;    *)
(* the answer to RQ_BEGIN_REQUEST gives the token up for good.             *)
(***************************************************************************)
EXTENDS BodyRead, TLAPS, SequenceTheorems

\* Thread t carries a completion of our read that it has not claimed yet.
Carries(t) == pc[t] \in {"entry", "claim"} /\ io[t].whose = "ours"

Owner(t) == Holds(t) \/ Carries(t)

\* The token exists once at most, and not after the answer.
Token ==
  /\ outstanding \in {0, 1}
  /\ outstanding = 1 => answers = <<>>
  /\ \A t \in Threads : Owner(t) => outstanding = 0 /\ answers = <<>>
  /\ \A t, u \in Threads : Owner(t) /\ Owner(u) => t = u

\* What m_BodyReadState says about the token.
Published ==
  /\ outstanding = 1 => m_BodyReadState = "READ_PENDING"
  /\ \A t \in Threads :
       /\ Carries(t) => m_BodyReadState = "READ_PENDING"
       /\ pc[t] \in {"entry", "claim"} /\ ~Carries(t) => answers # <<>>
       /\ pc[t] \in {"begin", "publish", "consume", "restore", "inspect", "verdict"}
            => m_BodyReadState # "READ_PENDING"
       /\ pc[t] = "issue" /\ BodyReadsAsync = "async" => m_BodyReadState = "READ_PENDING"
       /\ pc[t] = "publish" => BodyReadsAsync = "async"
  /\ BodyReadsAsync = "sync" => m_BodyReadState # "READ_PENDING"
  /\ answers # <<>> => m_BodyReadState # "READ_PENDING"

\* The transaction goes no earlier than the answer.
Live == answers = <<>> => m_pTx = "live"

Control == Token /\ Published /\ Live /\ Len(answers) <= 1

\* Thread t has the result of a read that is not appended yet.
InHand(t) == pc[t] \in {"inline", "consume"} \/ Carries(t)

\* How the body, the staging buffer and the bytes on the wire line up.
Body ==
  /\ m_Body = Bytes(0, Len(m_Body))
  /\ Len(m_Body) <= wire
  /\ outstanding = 1 => wire = Len(m_Body)
  /\ \A t \in Threads : Holds(t) /\ ~InHand(t) => wire = Len(m_Body)
  /\ \A t \in Threads : InHand(t) =>
       /\ io[t].cb <= ChunkSize
       /\ wire = Len(m_Body) + io[t].cb
       /\ \A i \in 1..io[t].cb : m_ReadBuf[i] = Len(m_Body) + i

\* While reading goes on the cap has not been reached.
Bound ==
  /\ Len(m_Body) < GetMaxInspectBodyBytes + ChunkSize
  /\ outstanding = 1 => Len(m_Body) < GetMaxInspectBodyBytes
  /\ \A t \in Threads :
       pc[t] \in {"begin", "publish", "issue", "inline", "consume"} \/ Carries(t)
         => Len(m_Body) < GetMaxInspectBodyBytes

\* The inductive invariant.
IInv == TypeOK /\ Control /\ Body /\ Bound

USE ThreadsAssumption, MaxEntityAssumption, ChunkAssumption, CapAssumption,
    DWordAssumption

(***************************************************************************)
(* Lemmas about the operators.                                             *)
(***************************************************************************)

\* The inspection cap is a positive number.
LEMMA CapPositive == GetMaxInspectBodyBytes \in Nat \ {0}
  BY DEF GetMaxInspectBodyBytes

\* A result of ReadEntityBody is a completion of ours that fits the buffer
\* and the bytes that are left.
LEMMA ReadResultsFit ==
  ASSUME TypeOK, NEW r \in ReadResults
  PROVE  /\ r \in Completion
         /\ r.whose = "ours"
         /\ r.cb \in Nat
         /\ r.cb <= ChunkSize
         /\ wire + r.cb \in 0..req.entity
  <1>1. req.entity \in Nat /\ wire \in 0..req.entity
    BY DEF TypeOK, Requests
  <1>2. Lesser(ChunkSize, req.entity - wire) \in Nat
        /\ Lesser(ChunkSize, req.entity - wire) <= ChunkSize
        /\ Lesser(ChunkSize, req.entity - wire) <= req.entity - wire
    BY <1>1 DEF Lesser
  <1>3. r \in [cb : 0..Lesser(ChunkSize, req.entity - wire), hr : HResult, whose : {"ours"}]
    BY DEF ReadResults
  <1> QED BY <1>1, <1>2, <1>3 DEF Completion

\* What a read leaves in the buffer are numbers.
LEMMA FilledType ==
  ASSUME TypeOK, NEW n \in Nat
  PROVE  Filled(n) \in [1..ChunkSize -> Nat]
  <1>1. wire \in Nat /\ m_ReadBuf \in [1..ChunkSize -> Nat]
    BY DEF TypeOK, Requests
  <1> QED BY <1>1 DEF Filled

\* A function on 1..n is a sequence of length n.
LEMMA FunctionIsSeq ==
  ASSUME NEW n \in Nat, NEW f \in [1..n -> Nat]
  PROVE  f \in Seq(Nat) /\ Len(f) = n
  <1>1. f \in Seq(Nat)
    BY SeqDef
  <1>2. Len(f) \in Nat /\ DOMAIN f = 1..Len(f) /\ DOMAIN f = 1..n
    BY <1>1, LenProperties
  <1>3. 1..Len(f) = 1..n => Len(f) = n
    BY <1>2
  <1> QED BY <1>1, <1>2, <1>3

\* An appended chunk is a sequence of bytes behind the body.
LEMMA AppendedType ==
  ASSUME TypeOK, NEW r \in Completion
  PROVE  /\ Appended(r) \in Seq(Nat)
         /\ Len(Appended(r)) = Len(m_Body) + r.cb
  <1> DEFINE chunk == [i \in 1..r.cb |-> m_ReadBuf[i]]
  <1>1. /\ r.cb \in Nat /\ r.cb <= ChunkSize /\ m_ReadBuf \in [1..ChunkSize -> Nat]
        /\ m_Body \in Seq(Nat)
    BY DEF TypeOK, Completion
  <1>2. chunk \in [1..r.cb -> Nat]
    BY <1>1
  <1> HIDE DEF chunk
  <1>3. chunk \in Seq(Nat) /\ Len(chunk) = r.cb
    BY <1>1, <1>2, FunctionIsSeq
  <1>4. m_Body \o chunk \in Seq(Nat) /\ Len(m_Body \o chunk) = Len(m_Body) + Len(chunk)
    BY <1>1, <1>3, ConcatProperties
  <1> QED BY <1>3, <1>4 DEF Appended, chunk

\* Bytes(0, k) is a sequence of length k.
LEMMA BytesType ==
  ASSUME NEW k \in Nat
  PROVE  /\ Bytes(0, k) \in Seq(Nat)
         /\ Len(Bytes(0, k)) = k
         /\ \A i \in 1..k : Bytes(0, k)[i] = i
  <1>1. Bytes(0, k) \in [1..k -> Nat] /\ \A i \in 1..k : Bytes(0, k)[i] = i
    BY DEF Bytes
  <1> QED BY <1>1, FunctionIsSeq

\* A prefix of the body followed by the bytes after it is a longer prefix.
LEMMA BytesGrow ==
  ASSUME NEW k \in Nat, NEW n \in Nat, NEW chunk,
         chunk = [i \in 1..n |-> k + i]
  PROVE  Bytes(0, k) \o chunk = Bytes(0, k + n)
  <1> DEFINE s == Bytes(0, k)
             u == Bytes(0, k + n)
  <1>1. s \in Seq(Nat) /\ Len(s) = k /\ \A i \in 1..k : s[i] = i
    BY BytesType
  <1>2. chunk \in Seq(Nat) /\ Len(chunk) = n
    <2>1. chunk \in [1..n -> Nat]
      OBVIOUS
    <2> QED BY <2>1, FunctionIsSeq
  <1>3. u \in Seq(Nat) /\ Len(u) = k + n /\ \A i \in 1..(k + n) : u[i] = i
    BY BytesType
  <1> HIDE DEF s, u
  <1>4. /\ s \o chunk \in Seq(Nat)
        /\ Len(s \o chunk) = k + n
        /\ \A i \in 1..(k + n) :
             (s \o chunk)[i] = IF i <= k THEN s[i] ELSE chunk[i - k]
    <2>1. /\ s \o chunk \in Seq(Nat)
          /\ Len(s \o chunk) = Len(s) + Len(chunk)
          /\ \A i \in 1..(Len(s) + Len(chunk)) :
               (s \o chunk)[i] = IF i <= Len(s) THEN s[i] ELSE chunk[i - Len(s)]
      BY <1>1, <1>2, ConcatProperties, Zenon
    <2> QED BY <1>1, <1>2, <2>1
  <1>5. \A i \in 1..(k + n) : (s \o chunk)[i] = u[i]
    <2> TAKE i \in 1..(k + n)
    <2>1. CASE i <= k
      BY <1>1, <1>3, <1>4, <2>1
    <2>2. CASE ~(i <= k)
      <3>1. chunk[i - k] = k + (i - k)
        BY <2>2
      <3> QED BY <1>3, <1>4, <2>2, <3>1
    <2> QED BY <2>1, <2>2
  <1>6. s \o chunk = u
    BY <1>3, <1>4, <1>5, SeqEqual
  <1> QED BY <1>6 DEF s, u

\* Inspecting a prefix gives the engine a sequence of bytes.
LEMMA PrefixType ==
  ASSUME NEW s \in Seq(Nat), NEW k \in Nat
  PROVE  SubSeq(s, 1, Lesser(Len(s), k)) \in Seq(Nat)
  <1>1. Lesser(Len(s), k) \in Nat /\ Lesser(Len(s), k) <= Len(s)
    BY DEF Lesser
  <1> QED BY <1>1

(***************************************************************************)
(* Type correctness.                                                       *)
(***************************************************************************)

\* The initial states have their types.
LEMMA TypeInit == Init => TypeOK
  <1> SUFFICES ASSUME Init PROVE TypeOK
    OBVIOUS
  <1>1. <<>> \in Seq(Nat) /\ <<>> \in Seq({"continue", "finish"})
    OBVIOUS
  <1>2. req \in Requests /\ wire \in 0..req.entity
    BY DEF Init, Requests
  <1>3. pc \in [Threads -> PC]
    BY DEF Init, PC
  <1>4. io \in [Threads -> Completion]
    BY DEF Init, NoIO, Completion, HResult
  <1>5. m_ReadBuf \in [1..ChunkSize -> Nat]
    BY DEF Init
  <1> QED BY <1>1, <1>2, <1>3, <1>4, <1>5 DEF Init, TypeOK

\* Every step keeps the types.
LEMMA TypeStep == TypeOK /\ [Next]_vars => TypeOK'
  <1> SUFFICES ASSUME TypeOK, [Next]_vars PROVE TypeOK'
    OBVIOUS
  <1> USE DEF rscVars, envVars, doneVars
  <1>1. CASE UNCHANGED vars
    BY <1>1 DEF TypeOK, vars
  <1>2. CASE CleanupStoredContext
    BY <1>2 DEF TypeOK, CleanupStoredContext
  <1>3. ASSUME NEW t \in Threads, ThreadStep(t) \/ DeliverOurs(t) \/ DeliverForeign(t)
        PROVE  TypeOK'
    <2> DEFINE Moved == \E w \in PC : Goto(t, w)
               Answered == \E s \in {"continue", "finish"} : Answer(t, s)
    <2>1. Moved => pc' \in [Threads -> PC]
      BY DEF Goto, TypeOK
    <2>2. Answered => answers' \in Seq({"continue", "finish"}) /\ pc' \in [Threads -> PC]
      BY DEF Answer, Goto, TypeOK, PC
    <2>3. LoopHead \in PC
      BY DEF LoopHead, PC
    <2>4. \A r \in ReadResults : Receive(t, r) =>
            /\ io' \in [Threads -> Completion]
            /\ m_ReadBuf' \in [1..ChunkSize -> Nat]
            /\ wire' \in 0..req.entity
            /\ broken' \in {"no", "yes"}
      <3> TAKE r \in ReadResults
      <3>1. r \in Completion /\ r.cb \in Nat /\ wire + r.cb \in 0..req.entity
        BY ReadResultsFit
      <3>2. Filled(r.cb) \in [1..ChunkSize -> Nat]
        BY <3>1, FilledType
      <3> QED BY <3>1, <3>2 DEF Receive, TypeOK
    <2> HIDE DEF Moved, Answered
    <2>5. CASE BeginBodyRead(t)
      <3>1. GetEntityBodyInfo(req).length \in Nat
        BY DEF TypeOK, Requests, GetEntityBodyInfo
      <3>2. \/ Moved /\ UNCHANGED answers
            \/ Answered
        BY <2>5, <2>3 DEF BeginBodyRead, Moved, Answered, PC
      <3>3. pc' \in [Threads -> PC] /\ answers' \in Seq({"continue", "finish"})
        BY <2>1, <2>2, <3>2 DEF TypeOK
      <3> QED BY <2>5, <3>1, <3>3 DEF BeginBodyRead, TypeOK
    <2>6. CASE Publish(t) \/ ReturnPending(t) \/ InlineDone(t) \/ CompletionEntry(t) \/ Claim(t)
      <3>1. Moved
        BY <2>6 DEF Publish, ReturnPending, InlineDone, CompletionEntry, Claim, Moved, PC
      <3> QED BY <2>1, <2>6, <3>1
           DEF TypeOK, Publish, ReturnPending, InlineDone, CompletionEntry, Claim
    <2>7. CASE IssueInline(t)
      <3>1. Moved
        BY <2>7 DEF IssueInline, Moved, PC
      <3> QED BY <2>1, <2>4, <2>7, <3>1 DEF IssueInline, TypeOK
    <2>8. CASE IssuePended(t)
      <3>1. Moved
        BY <2>8 DEF IssuePended, Moved, PC
      <3> QED BY <2>1, <2>8, <3>1 DEF IssuePended, TypeOK
    <2>9. CASE DeliverOurs(t)
      <3>1. Moved
        BY <2>9 DEF DeliverOurs, Moved, PC
      <3> QED BY <2>1, <2>4, <2>9, <3>1 DEF DeliverOurs, TypeOK
    <2>10. CASE DeliverForeign(t)
      <3>1. Moved
        BY <2>10 DEF DeliverForeign, Moved, PC
      <3>2. [cb |-> 1, hr |-> "ok", whose |-> "foreign"] \in Completion
        BY DEF Completion, HResult
      <3> QED BY <2>1, <2>10, <3>1, <3>2 DEF DeliverForeign, TypeOK
    <2>11. CASE ConsumeBodyChunk(t)
      <3>1. Moved
        BY <2>3, <2>11 DEF ConsumeBodyChunk, Moved, PC
      <3>2. io[t] \in Completion
        BY DEF TypeOK
      <3>3. Appended(io[t]) \in Seq(Nat)
        BY <3>2, AppendedType
      <3> QED BY <2>1, <2>11, <3>1, <3>3 DEF ConsumeBodyChunk, TypeOK
    <2>12. CASE RestoreBody(t)
      <3>1. Moved
        BY <2>12 DEF RestoreBody, Moved, PC
      <3>2. DWord(Len(m_Body)) \in Nat
        BY DEF DWord, TypeOK
      <3> QED BY <2>1, <2>12, <3>1, <3>2 DEF RestoreBody, TypeOK
    <2>13. CASE RestoreAllocFails(t)
      <3>1. Moved
        BY <2>13 DEF RestoreAllocFails, Moved, PC
      <3> QED BY <2>1, <2>13, <3>1 DEF RestoreAllocFails, TypeOK
    <2>14. CASE Inspect(t)
      <3>1. Moved
        BY <2>14 DEF Inspect, Moved, PC
      <3>2. inspected' \in Seq(Nat)
        BY <2>14, PrefixType, CapPositive DEF Inspect, TypeOK
      <3> QED BY <2>1, <2>14, <3>1, <3>2 DEF Inspect, TypeOK
    <2>15. CASE \/ ConsumeThrows(t) \/ RestoreInsertFails(t) \/ InspectThrows(t)
                \/ VerdictBlocks(t) \/ VerdictAllows(t) \/ VerdictThrows(t)
      <3>1. Answered
        BY <2>15 DEF ConsumeThrows, RestoreInsertFails, InspectThrows, VerdictBlocks,
                     VerdictAllows, VerdictThrows, Answered
      <3>2. answers' \in Seq({"continue", "finish"}) /\ pc' \in [Threads -> PC]
        BY <2>2, <3>1
      <3>3. CASE ConsumeThrows(t)
        BY <3>2, <3>3 DEF TypeOK, ConsumeThrows
      <3>6. CASE RestoreInsertFails(t)
        BY <3>2, <3>6 DEF TypeOK, RestoreInsertFails
      <3>7. CASE InspectThrows(t)
        BY <3>2, <3>7 DEF TypeOK, InspectThrows
      <3>4. CASE VerdictBlocks(t) \/ VerdictAllows(t)
        BY <3>2, <3>4 DEF TypeOK, VerdictBlocks, VerdictAllows
      <3>5. CASE VerdictThrows(t)
        <4>1. response' \in {"unset", "500", "denied"}
          BY <3>5 DEF TypeOK, VerdictThrows
        <4> QED BY <3>2, <3>5, <4>1 DEF TypeOK, VerdictThrows
      <3> QED BY <2>15, <3>3, <3>4, <3>5, <3>6, <3>7
    <2> QED BY <1>3, <2>5, <2>6, <2>7, <2>8, <2>9, <2>10, <2>11, <2>12, <2>13, <2>14, <2>15
         DEF ThreadStep
  <1> QED BY <1>1, <1>2, <1>3 DEF Next

\* Every state of the body-read machine is well typed: in particular no read
\* hands over more bytes than the staging buffer holds, and no more than the
\* entity has.
THEOREM TypeCorrect == Spec => []TypeOK
  BY TypeInit, TypeStep, PTL DEF Spec

(***************************************************************************)
(* One owner, one answer.                                                  *)
(***************************************************************************)

\* Control holds initially.
LEMMA ControlInit == Init => Control
  BY DEF Init, Control, Token, Published, Live, Owner, Holds, Carries, NoIO

\* The first answer is the only one.
LEMMA FirstAnswer ==
  ASSUME answers = <<>>, NEW t, NEW s, Answer(t, s)
  PROVE  answers' # <<>> /\ Len(answers') = 1
  BY DEF Answer

\* The request and the mode of reading do not change.
LEMMA RequestConstant == [Next]_vars => req' = req /\ BodyReadsAsync' = BodyReadsAsync
  <1> USE DEF rscVars, envVars, doneVars, vars
  <1>1. ASSUME NEW t \in Threads, ThreadStep(t) PROVE req' = req
    BY <1>1 DEF ThreadStep, BeginBodyRead, Publish, IssueInline, IssuePended, ReturnPending,
         InlineDone, ConsumeBodyChunk, ConsumeThrows, RestoreBody, RestoreAllocFails,
         RestoreInsertFails, Inspect, InspectThrows, VerdictBlocks, VerdictAllows,
         VerdictThrows, CompletionEntry, Claim
  <1>2. ASSUME NEW t \in Threads, DeliverOurs(t) \/ DeliverForeign(t) PROVE req' = req
    BY <1>2 DEF DeliverOurs, DeliverForeign
  <1>3. [Next]_vars => req' = req
    BY <1>1, <1>2 DEF Next, CleanupStoredContext
  <1> QED BY <1>3 DEF BodyReadsAsync

\* Every step hands the token on or gives it up with the answer.
LEMMA ControlStep == TypeOK /\ Control /\ [Next]_vars => Control'
  <1> SUFFICES ASSUME TypeOK, Control, [Next]_vars PROVE Control'
    OBVIOUS
  <1> USE DEF rscVars, envVars, doneVars
  <1>0. /\ pc \in [Threads -> PC] /\ io \in [Threads -> Completion]
        /\ outstanding \in Nat
    BY DEF TypeOK
  <1>m. BodyReadsAsync \in {"async", "sync"} /\ BodyReadsAsync' = BodyReadsAsync
    BY RequestConstant DEF TypeOK, Requests, BodyReadsAsync
  <1> USE <1>m
  <1>1. CASE UNCHANGED vars
    BY <1>1 DEF Control, Token, Published, Live, Owner, Holds, Carries, vars
  <1>2. CASE CleanupStoredContext
    BY <1>2 DEF Control, Token, Published, Live, Owner, Holds, Carries, CleanupStoredContext
  <1>3. ASSUME NEW t \in Threads, ThreadStep(t) \/ DeliverOurs(t) \/ DeliverForeign(t)
        PROVE  Control'
    <2>1. ASSUME Owner(t), pc[t] \in {"begin", "consume", "restore", "inspect", "verdict"},
                 UNCHANGED <<io, outstanding, m_BodyReadState>>,
                 \E s : Answer(t, s)
          PROVE  Control'
      <3>1. answers = <<>> /\ outstanding = 0 /\ m_BodyReadState # "READ_PENDING"
        BY <2>1 DEF Control, Token, Published
      <3>2. answers' # <<>> /\ Len(answers') = 1
        BY <2>1, <3>1, FirstAnswer
      <3>3. pc' = [pc EXCEPT ![t] = "idle"]
        BY <2>1 DEF Answer, Goto
      <3>4. \A u \in Threads : ~Owner(u)'
        BY <1>0, <2>1, <3>3 DEF Control, Token, Owner, Holds, Carries
      <3>5. Token'
        BY <2>1, <3>1, <3>4 DEF Token
      <3>6. Published'
        BY <1>0, <2>1, <3>1, <3>2, <3>3, <3>4
           DEF Control, Published, Owner, Holds, Carries
      <3> QED BY <3>2, <3>5, <3>6 DEF Control, Live
    <2> DEFINE NoMove == UNCHANGED <<io, answers, outstanding, m_pTx>>
    <2>2. ASSUME Owner(t), NEW w \in PC, Goto(t, w), NoMove,
                 w \in {"publish", "issue", "consume", "inline", "restore", "inspect", "verdict"},
                 \/ w \in {"publish", "consume", "restore", "inspect", "verdict"}
                      /\ m_BodyReadState' # "READ_PENDING"
                 \/ w = "issue" /\ (BodyReadsAsync = "async" => m_BodyReadState' = "READ_PENDING")
                 \/ w = "inline",
                 BodyReadsAsync = "sync" => m_BodyReadState' # "READ_PENDING",
                 w = "publish" => BodyReadsAsync = "async"
          PROVE  Control'
      <3>1. answers = <<>> /\ outstanding = 0
        BY <2>2 DEF Control, Token
      <3>2. \A u \in Threads : Owner(u)' <=> u = t
        BY <1>0, <2>2 DEF Control, Token, Owner, Holds, Carries, Goto
      <3>3. Token'
        BY <2>2, <3>1, <3>2 DEF Token, NoMove
      <3>4. Published'
        BY <1>0, <2>2, <3>1, <3>2 DEF Control, Token, Published, Owner, Holds, Carries, Goto, NoMove
      <3> QED BY <2>2, <3>3, <3>4 DEF Control, Live, NoMove
    <2> HIDE DEF NoMove
    <2>3. CASE BeginBodyRead(t)
      <3>1. Owner(t) /\ pc[t] = "begin" /\ m_BodyReadState # "READ_PENDING"
        BY <2>3 DEF BeginBodyRead, Owner, Holds, Control, Published
      <3>2. CASE \E s : Answer(t, s)
        BY <2>1, <2>3, <3>1, <3>2 DEF BeginBodyRead
      <3>3. CASE UNCHANGED answers /\ Goto(t, "restore")
        BY <2>2, <2>3, <3>1, <3>3 DEF BeginBodyRead, NoMove, PC
      <3>4. CASE UNCHANGED answers /\ Goto(t, LoopHead)
        BY <2>2, <2>3, <3>1, <3>4 DEF BeginBodyRead, NoMove, PC, LoopHead
      <3> QED BY <2>3, <3>2, <3>3, <3>4 DEF BeginBodyRead
    <2>4. CASE Publish(t)
      <3>1. Owner(t) /\ BodyReadsAsync = "async"
        BY <2>4 DEF Publish, Owner, Holds, Control, Published
      <3> QED BY <2>2, <2>4, <3>1 DEF Publish, NoMove, PC
    <2>5. CASE IssueInline(t)
      <3>1. Owner(t) /\ pc[t] = "issue"
        BY <2>5 DEF IssueInline, Owner, Holds
      <3>2. PICK r \in ReadResults : Receive(t, r)
        BY <2>5 DEF IssueInline
      <3>3. answers = <<>> /\ outstanding = 0
        BY <3>1 DEF Control, Token
      <3>4. pc' = [pc EXCEPT ![t] = "inline"] /\ io' = [io EXCEPT ![t] = r]
        BY <2>5, <3>2 DEF IssueInline, Receive, Goto
      <3>5. UNCHANGED <<answers, outstanding, m_pTx, m_BodyReadState>>
        BY <2>5 DEF IssueInline
      <3>6. \A u \in Threads : Owner(u)' <=> u = t
        BY <1>0, <3>1, <3>4 DEF Control, Token, Owner, Holds, Carries
      <3>7. Token'
        BY <3>3, <3>5, <3>6 DEF Token
      <3>8. Published'
        BY <1>0, <3>1, <3>3, <3>4, <3>5, <3>6 DEF Control, Token, Published, Owner, Holds, Carries
      <3> QED BY <3>5, <3>7, <3>8 DEF Control, Live
    <2>6. CASE IssuePended(t)
      <3>1. Owner(t) /\ pc[t] = "issue" /\ BodyReadsAsync = "async"
        BY <2>6 DEF IssuePended, Owner, Holds
      <3>2. answers = <<>> /\ outstanding = 0 /\ m_BodyReadState = "READ_PENDING"
        BY <3>1 DEF Control, Token, Published
      <3>3. pc' = [pc EXCEPT ![t] = "pended"] /\ outstanding' = 1
        BY <2>6, <3>2 DEF IssuePended, Goto
      <3>4. UNCHANGED <<answers, io, m_pTx, m_BodyReadState>>
        BY <2>6 DEF IssuePended
      <3>5. \A u \in Threads : ~Owner(u)'
        BY <1>0, <3>1, <3>3, <3>4 DEF Control, Token, Owner, Holds, Carries
      <3>6. Token'
        BY <3>2, <3>3, <3>4, <3>5 DEF Token
      <3>7. Published'
        BY <1>0, <3>1, <3>2, <3>3, <3>4, <3>5 DEF Control, Published, Owner, Holds, Carries
      <3> QED BY <3>4, <3>6, <3>7 DEF Control, Live
    <2>7. CASE ReturnPending(t)
      BY <1>0, <2>7
         DEF ReturnPending, Goto, Control, Token, Published, Live, Owner, Holds, Carries
    <2>8. CASE InlineDone(t)
      <3>1. Owner(t) /\ pc[t] = "inline"
        BY <2>8 DEF InlineDone, Owner, Holds
      <3>2. m_BodyReadState' # "READ_PENDING"
        BY <2>8 DEF InlineDone, Control, Published
      <3> QED BY <2>2, <2>8, <3>1, <3>2 DEF InlineDone, NoMove, PC
    <2>9. CASE ConsumeBodyChunk(t)
      <3>1. Owner(t) /\ pc[t] = "consume" /\ m_BodyReadState # "READ_PENDING"
        BY <2>9 DEF ConsumeBodyChunk, Owner, Holds, Control, Published
      <3>2. m_BodyReadState' # "READ_PENDING"
        BY <2>9, <3>1 DEF ConsumeBodyChunk
      <3>3. CASE Goto(t, "restore")
        BY <2>2, <2>9, <3>1, <3>2, <3>3 DEF ConsumeBodyChunk, NoMove, PC
      <3>4. CASE Goto(t, LoopHead)
        BY <2>2, <2>9, <3>1, <3>2, <3>4 DEF ConsumeBodyChunk, NoMove, PC, LoopHead
      <3> QED BY <2>9, <3>3, <3>4 DEF ConsumeBodyChunk
    <2>10. CASE RestoreBody(t)
      <3>1. Owner(t) /\ m_BodyReadState # "READ_PENDING"
        BY <2>10 DEF RestoreBody, Owner, Holds, Control, Published
      <3> QED BY <2>2, <2>10, <3>1 DEF RestoreBody, NoMove, PC
    <2>11. CASE RestoreAllocFails(t)
      <3>1. Owner(t) /\ m_BodyReadState # "READ_PENDING"
        BY <2>11 DEF RestoreAllocFails, Owner, Holds, Control, Published
      <3> QED BY <2>2, <2>11, <3>1 DEF RestoreAllocFails, NoMove, PC
    <2>12. CASE Inspect(t)
      <3>1. Owner(t) /\ m_BodyReadState # "READ_PENDING"
        BY <2>12 DEF Inspect, Owner, Holds, Control, Published
      <3> QED BY <2>2, <2>12, <3>1 DEF Inspect, NoMove, PC
    <2>13. CASE RestoreInsertFails(t)
      <3>1. Owner(t)
        BY <2>13 DEF RestoreInsertFails, Owner, Holds
      <3> QED BY <2>1, <2>13, <3>1 DEF RestoreInsertFails
    <2>14. CASE InspectThrows(t)
      <3>1. Owner(t)
        BY <2>14 DEF InspectThrows, Owner, Holds
      <3> QED BY <2>1, <2>14, <3>1 DEF InspectThrows
    <2>15. CASE VerdictThrows(t)
      <3>1. Owner(t)
        BY <2>15 DEF VerdictThrows, Owner, Holds
      <3> QED BY <2>1, <2>15, <3>1 DEF VerdictThrows
    <2>16. CASE VerdictAllows(t)
      <3>1. Owner(t)
        BY <2>16 DEF VerdictAllows, Owner, Holds
      <3> QED BY <2>1, <2>16, <3>1 DEF VerdictAllows
    <2>17. CASE ConsumeThrows(t)
      <3>1. Owner(t)
        BY <2>17 DEF ConsumeThrows, Owner, Holds
      <3> QED BY <2>1, <2>17, <3>1 DEF ConsumeThrows
    <2>18. CASE VerdictBlocks(t)
      <3>1. Owner(t)
        BY <2>18 DEF VerdictBlocks, Owner, Holds
      <3> QED BY <2>1, <2>18, <3>1 DEF VerdictBlocks
    <2>19. CASE DeliverOurs(t)
      <3>1. outstanding = 1 /\ answers = <<>> /\ m_BodyReadState = "READ_PENDING"
        BY <1>0, <2>19 DEF DeliverOurs, Control, Token, Published
      <3>2. PICK r \in ReadResults : Receive(t, r)
        BY <2>19 DEF DeliverOurs
      <3>3. pc' = [pc EXCEPT ![t] = "entry"] /\ io' = [io EXCEPT ![t] = r] /\ outstanding' = 0
        <4>1. outstanding' = 0
          BY <2>19, <3>1 DEF DeliverOurs
        <4>2. pc' = [pc EXCEPT ![t] = "entry"]
          BY <2>19 DEF DeliverOurs, Goto
        <4> QED BY <3>2, <4>1, <4>2 DEF Receive
      <3>4. UNCHANGED <<answers, m_pTx, m_BodyReadState>>
        BY <2>19 DEF DeliverOurs
      <3>5. r.whose = "ours"
        BY ReadResultsFit
      <3>6. \A u \in Threads : Owner(u)' <=> u = t
        BY <1>0, <3>1, <3>3, <3>5 DEF Control, Token, Owner, Holds, Carries
      <3>7. Token'
        BY <3>1, <3>3, <3>4, <3>6 DEF Token
      <3>8. Published'
        BY <1>0, <3>1, <3>3, <3>4, <3>5, <3>6 DEF Control, Published, Owner, Holds, Carries
      <3> QED BY <3>4, <3>7, <3>8 DEF Control, Live
    <2>20. CASE DeliverForeign(t)
      <3>1. /\ pc' = [pc EXCEPT ![t] = "entry"]
            /\ io' = [io EXCEPT ![t] = [cb |-> 1, hr |-> "ok", whose |-> "foreign"]]
            /\ pc[t] = "idle" /\ answers # <<>>
            /\ UNCHANGED <<answers, outstanding, m_pTx, m_BodyReadState>>
        BY <2>20 DEF DeliverForeign, Goto
      <3> QED BY <1>0, <3>1 DEF Control, Token, Published, Live, Owner, Holds, Carries
    <2>21. CASE CompletionEntry(t)
      <3>1. CASE m_pTx = "null"
        <4>1. answers # <<>>
          BY <3>1 DEF Control, Live
        <4> QED BY <1>0, <2>21, <3>1, <4>1
             DEF CompletionEntry, Goto, Control, Token, Published, Live, Owner, Holds, Carries
      <3>2. CASE m_pTx # "null"
        BY <1>0, <2>21, <3>2
           DEF CompletionEntry, Goto, Control, Token, Published, Live, Owner, Holds, Carries
      <3> QED BY <3>1, <3>2
    <2>22. CASE Claim(t)
      <3>1. CASE m_BodyReadState = "READ_PENDING"
        <4>1. Owner(t) /\ m_BodyReadState' = "IDLE" /\ Goto(t, "consume")
          BY <2>22, <3>1 DEF Claim, Control, Published, Owner
        <4> QED BY <2>2, <2>22, <4>1 DEF Claim, NoMove, PC
      <3>2. CASE m_BodyReadState # "READ_PENDING"
        <4>1. ~Owner(t) /\ Goto(t, "idle") /\ UNCHANGED m_BodyReadState
          BY <2>22, <3>2 DEF Claim, Control, Published, Owner, Holds
        <4> QED BY <1>0, <2>22, <4>1
             DEF Claim, Goto, Control, Token, Published, Live, Owner, Holds, Carries
      <3> QED BY <3>1, <3>2
    <2> QED BY <1>3, <2>3, <2>4, <2>5, <2>6, <2>7, <2>8, <2>9, <2>10, <2>11, <2>12, <2>13, <2>14, <2>15, <2>16, <2>17, <2>18, <2>19, <2>20, <2>21, <2>22
         DEF ThreadStep
  <1> QED BY <1>1, <1>2, <1>3 DEF Next

\* The ARR invariant: one read in flight, one thread on the body.
THEOREM OneReader == Spec => []SingleReader
  <1>1. TypeOK /\ Control => SingleReader
    BY DEF TypeOK, Control, Token, SingleReader, Owner
  <1> QED BY <1>1, TypeInit, TypeStep, ControlInit, ControlStep, PTL DEF Spec

\* RQ_BEGIN_REQUEST is answered at most once.
THEOREM OneAnswer == Spec => []AnsweredOnce
  <1>1. Control => AnsweredOnce
    BY DEF Control, AnsweredOnce
  <1> QED BY <1>1, TypeInit, TypeStep, ControlInit, ControlStep, PTL DEF Spec

\* FinishBodyRead never meets a transaction that is gone.
THEOREM LiveTransaction == Spec => []TransactionLive
  <1>1. Control => TransactionLive
    BY DEF Control, Token, Live, Owner, Holds, TransactionLive
  <1> QED BY <1>1, TypeInit, TypeStep, ControlInit, ControlStep, PTL DEF Spec

(***************************************************************************)
(* The body is a prefix of the entity, and it is bounded.                  *)
(***************************************************************************)

\* Body and Bound hold initially.
LEMMA BodyInit == Init => Body /\ Bound
  <1> SUFFICES ASSUME Init PROVE Body /\ Bound
    OBVIOUS
  <1>1. m_Body = <<>> /\ Len(m_Body) = 0 /\ wire = 0 /\ outstanding = 0
    BY DEF Init
  <1>2. m_Body = Bytes(0, 0)
    <2>1. Bytes(0, 0) \in Seq(Nat) /\ Len(Bytes(0, 0)) = 0
      BY BytesType
    <2> QED BY <1>1, <2>1, EmptySeq
  <1>3. \A t \in Threads : ~InHand(t)
    BY DEF Init, InHand, Carries
  <1> QED BY <1>1, <1>2, <1>3, CapPositive DEF Body, Bound

\* A read that completes into the hands of thread t.
LEMMA ReceiveStep ==
  ASSUME TypeOK, Control, Body, Bound, NEW t \in Threads,
         NEW r \in ReadResults, Receive(t, r),
         \A u \in Threads : Owner(u)' <=> u = t,
         wire = Len(m_Body), Len(m_Body) < GetMaxInspectBodyBytes,
         outstanding' = 0, InHand(t)', UNCHANGED m_Body
  PROVE  Body' /\ Bound'
  <1>1. r.cb \in Nat /\ r.cb <= ChunkSize
    BY ReadResultsFit
  <1>2. Len(m_Body) \in Nat /\ wire \in Nat /\ io \in [Threads -> Completion]
    BY DEF TypeOK, Requests
  <1>3. io'[t] = r /\ wire' = wire + r.cb /\ m_ReadBuf' = Filled(r.cb)
    BY <1>2 DEF Receive
  <1>4. \A i \in 1..r.cb : m_ReadBuf'[i] = Len(m_Body) + i
    BY <1>1, <1>2, <1>3 DEF Filled
  <1>5. \A u \in Threads : (InHand(u)' \/ Holds(u)' \/ Carries(u)') => u = t
    BY DEF InHand, Owner, Holds
  <1>6. Len(m_Body') <= wire'
    BY <1>1, <1>2, <1>3
  <1>7. ASSUME NEW u \in Threads, InHand(u)'
        PROVE  /\ io'[u].cb <= ChunkSize
               /\ wire' = Len(m_Body') + io'[u].cb
               /\ \A i \in 1..io'[u].cb : m_ReadBuf'[i] = Len(m_Body') + i
    BY <1>1, <1>3, <1>4, <1>5, <1>7
  <1>8. Body'
    BY <1>5, <1>6, <1>7 DEF Body
  <1>9. Bound'
    BY DEF Bound
  <1> QED BY <1>8, <1>9

\* The chunk in hand is the next stretch of the entity.
LEMMA ConsumeStep ==
  ASSUME TypeOK, Control, Body, Bound, NEW t \in Threads, ConsumeBodyChunk(t)
  PROVE  Body' /\ Bound'
  <1> DEFINE n == io[t].cb
             chunk == [i \in 1..n |-> m_ReadBuf[i]]
             k == Len(m_Body)
  <1>1. pc \in [Threads -> PC] /\ io[t] \in Completion /\ n \in Nat /\ n <= ChunkSize /\ k \in Nat
    BY DEF TypeOK, Completion
  <1>2. pc[t] = "consume" /\ InHand(t) /\ Owner(t) /\ outstanding = 0
    BY DEF ConsumeBodyChunk, InHand, Owner, Holds, Control, Token
  <1>3. wire = k + n /\ \A i \in 1..n : m_ReadBuf[i] = k + i
    BY <1>2 DEF Body
  <1>4. k < GetMaxInspectBodyBytes
    BY <1>2 DEF Bound
  <1>5. chunk = [i \in 1..n |-> k + i]
    BY <1>3
  <1>6. m_Body' = m_Body \o chunk /\ m_Body = Bytes(0, k)
    BY DEF ConsumeBodyChunk, Appended, Body
  <1>7. m_Body' = Bytes(0, k + n)
    <2> HIDE DEF chunk, k, n
    <2> QED BY <1>1, <1>5, <1>6, BytesGrow
  <1>8. Len(m_Body') = k + n
    BY <1>1, <1>7, BytesType
  <1>9. \E w \in {"restore", "publish", "issue"} :
          /\ pc' = [pc EXCEPT ![t] = w]
          /\ w # "restore" => k + n < GetMaxInspectBodyBytes
    <2>1. m_Body' = Appended(io[t])
      BY DEF ConsumeBodyChunk
    <2>2. CASE BodyEnds(io[t], Len(Appended(io[t]))) \/ CapReached(Len(Appended(io[t])))
      BY <2>2 DEF ConsumeBodyChunk, Goto
    <2>3. CASE ~BodyEnds(io[t], Len(Appended(io[t]))) /\ ~CapReached(Len(Appended(io[t])))
      <3>1. pc' = [pc EXCEPT ![t] = LoopHead] /\ LoopHead \in {"publish", "issue"}
        BY <2>3 DEF ConsumeBodyChunk, Goto, LoopHead
      <3>2. k + n < GetMaxInspectBodyBytes
        BY <1>1, <1>8, <2>1, <2>3, CapPositive DEF CapReached
      <3> QED BY <3>1, <3>2
    <2> QED BY <2>2, <2>3
  <1>10. UNCHANGED <<io, wire, m_ReadBuf, outstanding>>
    BY DEF ConsumeBodyChunk, envVars
  <1>11. \A u \in Threads : ~InHand(u)'
    BY <1>1, <1>2, <1>9, <1>10 DEF InHand, Carries, Control, Token, Owner, Holds
  <1>12. Body'
    BY <1>1, <1>2, <1>3, <1>7, <1>8, <1>10, <1>11 DEF Body
  <1>13. Bound'
    <2>1. Len(m_Body') < GetMaxInspectBodyBytes + ChunkSize
      BY <1>1, <1>4, <1>8, CapPositive
    <2>2. ASSUME NEW u \in Threads,
                 pc'[u] \in {"begin", "publish", "issue", "inline", "consume"} \/ Carries(u)'
          PROVE  Len(m_Body') < GetMaxInspectBodyBytes
      <3>1. u = t
        BY <1>1, <1>2, <1>9, <1>10, <1>11, <2>2 DEF InHand, Carries, Control, Token, Owner, Holds
      <3> QED BY <1>1, <1>2, <1>8, <1>9, <1>11, <2>2, <3>1 DEF InHand
    <2> QED BY <1>2, <1>10, <2>1, <2>2 DEF Bound
  <1> QED BY <1>12, <1>13

\* Every step keeps body, buffer and wire in line, and the body bounded.
LEMMA BodyStep == TypeOK /\ Control /\ Body /\ Bound /\ [Next]_vars => Body' /\ Bound'
  <1> SUFFICES ASSUME TypeOK, Control, Body, Bound, [Next]_vars PROVE Body' /\ Bound'
    OBVIOUS
  <1> USE DEF rscVars, envVars, doneVars
  <1>0. /\ pc \in [Threads -> PC] /\ io \in [Threads -> Completion]
        /\ outstanding \in {0, 1}
    BY DEF TypeOK, Control, Token
  <1>1. CASE UNCHANGED vars
    BY <1>1 DEF Body, Bound, InHand, Holds, Carries, vars
  <1>2. CASE CleanupStoredContext
    BY <1>2 DEF Body, Bound, InHand, Holds, Carries, CleanupStoredContext
  <1>3. ASSUME NEW t \in Threads, ThreadStep(t) \/ DeliverOurs(t) \/ DeliverForeign(t)
        PROVE  Body' /\ Bound'
    <2>1. CASE BeginBodyRead(t)
      BY <1>0, <2>1 DEF BeginBodyRead, Goto, Answer, LoopHead, Body, Bound, InHand, Holds, Carries
    <2>2. CASE Publish(t)
      BY <1>0, <2>2 DEF Publish, Goto, Body, Bound, InHand, Holds, Carries
    <2>3. CASE IssuePended(t)
      BY <1>0, <2>3 DEF IssuePended, Goto, Body, Bound, InHand, Holds, Carries
    <2>4. CASE ReturnPending(t)
      BY <1>0, <2>4 DEF ReturnPending, Goto, Body, Bound, InHand, Holds, Carries
    <2>5. CASE InlineDone(t)
      BY <1>0, <2>5 DEF InlineDone, Goto, Body, Bound, InHand, Holds, Carries
    <2>6. CASE ConsumeThrows(t)
      BY <1>0, <2>6 DEF ConsumeThrows, Goto, Answer, Body, Bound, InHand, Holds, Carries
    <2>7. CASE RestoreBody(t)
      BY <1>0, <2>7 DEF RestoreBody, Goto, Body, Bound, InHand, Holds, Carries
    <2>8. CASE RestoreAllocFails(t)
      BY <1>0, <2>8 DEF RestoreAllocFails, Goto, Body, Bound, InHand, Holds, Carries
    <2>9. CASE RestoreInsertFails(t)
      BY <1>0, <2>9 DEF RestoreInsertFails, Goto, Answer, Body, Bound, InHand, Holds, Carries
    <2>10. CASE Inspect(t)
      BY <1>0, <2>10 DEF Inspect, Goto, Body, Bound, InHand, Holds, Carries
    <2>11. CASE InspectThrows(t)
      BY <1>0, <2>11 DEF InspectThrows, Goto, Answer, Body, Bound, InHand, Holds, Carries
    <2>12. CASE VerdictBlocks(t)
      BY <1>0, <2>12 DEF VerdictBlocks, Goto, Answer, Body, Bound, InHand, Holds, Carries
    <2>13. CASE VerdictAllows(t)
      BY <1>0, <2>13 DEF VerdictAllows, Goto, Answer, Body, Bound, InHand, Holds, Carries
    <2>14. CASE VerdictThrows(t)
      BY <1>0, <2>14 DEF VerdictThrows, Goto, Answer, Body, Bound, InHand, Holds, Carries
    <2>15. CASE CompletionEntry(t)
      BY <1>0, <2>15 DEF CompletionEntry, Goto, Body, Bound, InHand, Holds, Carries
    <2>16. CASE Claim(t)
      <3>1. pc[t] = "claim" /\ (m_BodyReadState = "READ_PENDING" => Carries(t))
        BY <2>16 DEF Claim, Control, Published
      <3> QED BY <1>0, <2>16, <3>1 DEF Claim, Goto, Body, Bound, InHand, Holds, Carries
    <2>17. CASE DeliverForeign(t)
      BY <1>0, <2>17 DEF DeliverForeign, Goto, Body, Bound, InHand, Holds, Carries
    <2>18. CASE ConsumeBodyChunk(t)
      BY <2>18, ConsumeStep
    <2>19. CASE IssueInline(t)
      <3>1. Owner(t) /\ Holds(t) /\ ~InHand(t) /\ pc[t] = "issue"
        BY <2>19 DEF IssueInline, Owner, Holds, InHand, Carries
      <3>2. PICK r \in ReadResults : Receive(t, r)
        BY <2>19 DEF IssueInline
      <3>3. pc' = [pc EXCEPT ![t] = "inline"] /\ io' = [io EXCEPT ![t] = r]
        BY <2>19, <3>2 DEF IssueInline, Receive, Goto
      <3>4. \A u \in Threads : Owner(u)' <=> u = t
        BY <1>0, <3>1, <3>3 DEF Control, Token, Owner, Holds, Carries
      <3>5. InHand(t)'
        BY <1>0, <3>3 DEF InHand
      <3>6. wire = Len(m_Body) /\ Len(m_Body) < GetMaxInspectBodyBytes
        BY <3>1 DEF Body, Bound
      <3>7. outstanding' = 0 /\ UNCHANGED m_Body
        BY <2>19, <3>1 DEF IssueInline, Control, Token
      <3> QED BY <3>2, <3>4, <3>5, <3>6, <3>7, ReceiveStep
    <2>20. CASE DeliverOurs(t)
      <3>1. outstanding = 1 /\ UNCHANGED m_Body
        BY <1>0, <2>20 DEF DeliverOurs
      <3>2. PICK r \in ReadResults : Receive(t, r)
        BY <2>20 DEF DeliverOurs
      <3>3. outstanding' = 0
        BY <2>20, <3>1 DEF DeliverOurs
      <3>4. pc' = [pc EXCEPT ![t] = "entry"] /\ io' = [io EXCEPT ![t] = r]
        BY <2>20, <3>2 DEF DeliverOurs, Receive, Goto
      <3>5. r.whose = "ours"
        BY ReadResultsFit
      <3>6. \A u \in Threads : Owner(u)' <=> u = t
        BY <1>0, <3>1, <3>4, <3>5 DEF Control, Token, Owner, Holds, Carries
      <3>7. InHand(t)'
        BY <1>0, <3>4, <3>5 DEF InHand, Carries
      <3>8. wire = Len(m_Body) /\ Len(m_Body) < GetMaxInspectBodyBytes
        BY <3>1 DEF Body, Bound
      <3> QED BY <3>1, <3>2, <3>3, <3>6, <3>7, <3>8, ReceiveStep
    <2> QED BY <1>3, <2>1, <2>2, <2>3, <2>4, <2>5, <2>6, <2>7, <2>8, <2>9, <2>10, <2>11, <2>12, <2>13, <2>14, <2>15, <2>16, <2>17, <2>18, <2>19, <2>20
         DEF ThreadStep
  <1> QED BY <1>1, <1>2, <1>3 DEF Next

\* IInv is inductive and holds from the start.
LEMMA Inductive == Spec => []IInv
  <1>1. Init => IInv
    BY TypeInit, ControlInit, BodyInit DEF IInv
  <1>2. IInv /\ [Next]_vars => IInv'
    BY TypeStep, ControlStep, BodyStep DEF IInv
  <1> QED BY <1>1, <1>2, PTL DEF Spec

\* The drained body is the entity from its first byte on.
THEOREM PrefixOfEntity == Spec => []BodyIsPrefix
  <1>1. IInv => BodyIsPrefix
    BY DEF IInv, Body, BodyIsPrefix
  <1> QED BY <1>1, Inductive, PTL

\* The accumulator stays below the cap plus one chunk.
THEOREM BoundedBuffer == Spec => []BufferBounded
  <1>1. IInv => BufferBounded
    BY DEF IInv, Bound, BufferBounded
  <1> QED BY <1>1, Inductive, PTL
=============================================================================
