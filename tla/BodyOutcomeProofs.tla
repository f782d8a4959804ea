------------------------- MODULE BodyOutcomeProofs -------------------------
(***************************************************************************)
(* What a request that goes on has been through, and that BodyRead         *)
(* implements BodyPhase, for any threads, entity, chunk and cap size.      *)
(*                                                                         *)
(* To the inductive invariant of BodyReadProofs this adds what the holder  *)
(* of the body knows at each of its steps (Course): reading stops at the   *)
(* end of the entity, at the cap or with the connection (Ready); the       *)
(* engine has not ruled before "verdict"; and the answer keeps what the    *)
(* last step knew (Outcome).                                               *)
(***************************************************************************)
EXTENDS BodyReadProofs

\* There is nothing left to read, or the cap has been reached.
Ready ==
  \/ broken = "yes"
  \/ Len(m_Body) = req.entity
  \/ Len(m_Body) >= GetMaxInspectBodyBytes

\* What the engine has been given, once it has ruled.
Given == inspected = SubSeq(m_Body, 1, Lesser(Len(m_Body), GetMaxInspectBodyBytes))

\* Everything drained has been given back.
GivenBack == inserted = DWord(Len(m_Body))

\* A result in hand says why reading ends.
Result(t) ==
  /\ broken = "yes" <=> io[t].hr = "fail"
  /\ io[t].hr = "eof" \/ (io[t].hr = "ok" /\ io[t].cb = 0) => wire = req.entity

\* What thread t knows at each of its steps.
Knows(t) ==
  /\ Owner(t) /\ pc[t] # "verdict" => engine = "none"
  /\ pc[t] \in {"begin", "publish", "issue"} => broken = "no"
  /\ InHand(t) => Result(t)
  /\ pc[t] \in {"restore", "inspect", "verdict"} => Ready
  /\ pc[t] \in {"inspect", "verdict"} => restore = "allocFailed" \/ GivenBack
  /\ pc[t] = "verdict" => engine \in {"allow", "deny"} /\ Given

Course ==
  /\ m_DeclaredBodyLength \in {0, req.entity}
  /\ outstanding = 1 => engine = "none" /\ broken = "no"
  /\ \A t \in Threads : Knows(t)

\* What holds of a request that goes on.
Outcome ==
  Continued => engine = "allow" /\ Given /\ GivenBack /\ Ready /\ wire = Len(m_Body)

\* The inductive invariant.
OInv == IInv /\ Course /\ Outcome

USE ThreadsAssumption, MaxEntityAssumption, ChunkAssumption, CapAssumption,
    DWordAssumption

(***************************************************************************)
(* How a step can change the course of a request.                          *)
(***************************************************************************)

\* A thread that does not own the body knows nothing.
LEMMA OnlyOwnersKnow ==
  ASSUME NEW t \in Threads, ~Owner(t)
  PROVE  Knows(t)
  BY DEF Knows, Owner, Holds, InHand

\* A step that leaves the body with thread t.
LEMMA Moves ==
  ASSUME NEW t \in Threads, answers' = <<>>, outstanding' = 0,
         \A u \in Threads : u # t => ~Owner(u)',
         m_DeclaredBodyLength' \in {0, req'.entity}, Knows(t)'
  PROVE  Course' /\ Outcome'
  <1>1. ASSUME NEW u \in Threads PROVE Knows(u)'
    <2>1. CASE u = t
      BY <2>1
    <2>2. CASE u # t
      <3>1. ~Owner(u)'
        BY <2>2
      <3> QED BY <3>1 DEF Knows, Owner, Holds, InHand
    <2> QED BY <2>1, <2>2
  <1>2. Course'
    BY <1>1 DEF Course
  <1>3. Outcome'
    BY DEF Outcome, Continued
  <1> QED BY <1>2, <1>3

\* A step of the owner that moves on, with or without a result in hand.
LEMMA OwnerMoves ==
  ASSUME TypeOK, Control, Course, NEW t \in Threads, Owner(t),
         NEW w \in PC, Goto(t, w), UNCHANGED <<answers, outstanding>>,
         \A u \in Threads : u # t => io'[u] = io[u]
  PROVE  /\ answers' = <<>> /\ outstanding' = 0 /\ pc'[t] = w
         /\ \A u \in Threads : u # t => ~Owner(u)'
  <1>1. pc \in [Threads -> PC] /\ pc' = [pc EXCEPT ![t] = w]
    BY DEF TypeOK, Goto
  <1>2. answers = <<>> /\ outstanding = 0 /\ \A u \in Threads : u # t => ~Owner(u)
    BY DEF Control, Token
  <1>3. ASSUME NEW u \in Threads, u # t PROVE ~Owner(u)'
    BY <1>1, <1>2, <1>3 DEF Owner, Holds, Carries
  <1> QED BY <1>1, <1>2, <1>3

\* A step of the owner that answers "finish".
LEMMA OwnerFinishes ==
  ASSUME TypeOK, Control, Course, NEW t \in Threads, Holds(t), Answer(t, "finish"),
         UNCHANGED <<io, outstanding>>, m_DeclaredBodyLength' \in {0, req'.entity}
  PROVE  Course' /\ Outcome'
  <1>1. answers = <<>> /\ outstanding = 0 /\ \A u \in Threads : u # t => ~Owner(u)
    BY DEF Control, Token, Owner
  <1>2. pc \in [Threads -> PC] /\ pc' = [pc EXCEPT ![t] = "idle"]
    BY DEF TypeOK, Answer, Goto
  <1>3. ASSUME NEW u \in Threads PROVE Knows(u)'
    <2>1. ~Owner(u)'
      BY <1>1, <1>2 DEF Owner, Holds, Carries
    <2> QED BY <2>1 DEF Knows, Owner, Holds, InHand
  <1>4. Course'
    BY <1>1, <1>3 DEF Course
  <1>5. answers' = <<"finish">>
    BY <1>1 DEF Answer
  <1>6. answers' # <<"continue">>
    BY <1>5
  <1> QED BY <1>4, <1>6 DEF Outcome, Continued

\* A step that neither takes nor moves the body.
LEMMA Bystands ==
  ASSUME Control, Course, Outcome, NEW t \in Threads, ~Owner(t), ~Owner(t)',
         \A u \in Threads : u # t => pc'[u] = pc[u] /\ io'[u] = io[u],
         UNCHANGED <<req, wire, broken, outstanding, m_Body, m_DeclaredBodyLength, restore,
                     inserted, inspected, engine, answers>>
  PROVE  Course' /\ Outcome'
  <1>1. ASSUME NEW u \in Threads PROVE Knows(u)'
    <2>1. CASE u = t
      BY <2>1 DEF Knows, Owner, Holds, InHand
    <2>2. CASE u # t
      <3>1. pc'[u] = pc[u] /\ io'[u] = io[u] /\ Knows(u)
        BY <2>2 DEF Course
      <3> QED BY <3>1 DEF Knows, Owner, Holds, Carries, InHand, Result, Ready, GivenBack, Given
    <2> QED BY <2>1, <2>2
  <1>2. Course'
    BY <1>1 DEF Course
  <1>3. Outcome'
    BY DEF Outcome, Continued, Given, GivenBack, Ready
  <1> QED BY <1>2, <1>3

(***************************************************************************)
(* The steps that decide something.                                        *)
(***************************************************************************)

\* A read completes into the hands of thread t: the result says whether the
\* connection failed and whether the entity is at its end.
LEMMA ReceiveKnows ==
  ASSUME TypeOK, NEW t \in Threads, NEW r \in ReadResults, Receive(t, r),
         broken = "no", engine = "none", UNCHANGED <<req, engine>>,
         pc'[t] \in {"inline", "entry"}
  PROVE  Knows(t)'
  <1>1. io'[t] = r /\ wire' = wire + r.cb
    BY DEF Receive, TypeOK
  <1>2. wire \in Nat /\ req.entity \in Nat /\ r.cb \in Nat /\ wire' \in 0..req.entity
    BY <1>1, ReadResultsFit DEF TypeOK, Requests
  <1>3. broken' = "yes" <=> r.hr = "fail"
    BY DEF Receive
  <1>4. /\ r.hr = "ok"  => (r.cb > 0 \/ req.entity - wire = 0)
        /\ r.hr = "eof" => r.cb = req.entity - wire
    BY DEF ReadResults
  <1>5. r.hr = "eof" \/ (r.hr = "ok" /\ r.cb = 0) => wire' = req.entity
    BY <1>1, <1>2, <1>4
  <1>6. Result(t)'
    BY <1>1, <1>3, <1>5 DEF Result
  <1> QED BY <1>6 DEF Knows

\* The chunk in hand ends the body for a reason, or reading goes on.
LEMMA ConsumeKnows ==
  ASSUME TypeOK, Control, Body, Bound, Course, NEW t \in Threads, ConsumeBodyChunk(t)
  PROVE  Course' /\ Outcome'
  <1> DEFINE r == io[t]
             n == Len(Appended(r))
  <1>1. pc[t] = "consume" /\ Owner(t) /\ InHand(t) /\ engine = "none" /\ Result(t)
    BY DEF ConsumeBodyChunk, Owner, Holds, InHand, Course, Knows
  <1>2. r \in Completion /\ Len(m_Body) \in Nat /\ req.entity \in Nat /\ wire \in 0..req.entity
    BY DEF TypeOK, Requests
  <1>3. m_Body' = Appended(r) /\ n = Len(m_Body) + r.cb /\ r.cb \in Nat /\ n \in Nat
    BY <1>2, AppendedType DEF ConsumeBodyChunk, Completion
  <1>4. n = wire
    BY <1>1, <1>3 DEF Body
  <1>5. UNCHANGED <<req, wire, broken, outstanding, m_DeclaredBodyLength, engine, answers, io>>
    BY DEF ConsumeBodyChunk, envVars
  <1>6. Len(m_Body') = n
    BY <1>3
  <1> HIDE DEF n, r
  <1>7. CASE BodyEnds(r, n) \/ CapReached(n)
    <2>1. Goto(t, "restore")
      BY <1>7 DEF ConsumeBodyChunk, n, r
    <2>2. broken = "yes" \/ n = req.entity \/ n >= GetMaxInspectBodyBytes
      <3>1. CASE CapReached(n)
        BY <3>1 DEF CapReached
      <3>2. CASE r.hr = "fail"
        BY <1>1, <3>2 DEF Result, r
      <3>3. CASE r.hr = "eof" \/ (r.hr = "ok" /\ r.cb = 0)
        BY <1>1, <1>4, <3>3 DEF Result, r
      <3>4. CASE m_DeclaredBodyLength > 0 /\ n >= m_DeclaredBodyLength
        <4>1. m_DeclaredBodyLength = req.entity
          BY <3>4 DEF Course
        <4> QED BY <1>2, <1>3, <1>4, <3>4, <4>1
      <3>5. r.hr \in {"ok", "eof", "fail"}
        BY <1>2 DEF Completion, HResult
      <3> QED BY <1>7, <3>1, <3>2, <3>3, <3>4, <3>5 DEF BodyEnds
    <2>3. Ready'
      BY <1>5, <1>6, <2>2 DEF Ready, GetMaxInspectBodyBytes
    <2>4. /\ answers' = <<>> /\ outstanding' = 0 /\ pc'[t] = "restore"
          /\ \A u \in Threads : u # t => ~Owner(u)'
      BY <1>1, <1>5, <2>1, OwnerMoves DEF PC
    <2>5. Knows(t)'
      BY <1>1, <1>5, <2>3, <2>4 DEF Knows, InHand, Carries
    <2> QED BY <1>5, <2>4, <2>5, Moves DEF Course
  <1>8. CASE ~(BodyEnds(r, n) \/ CapReached(n))
    <2>1. Goto(t, LoopHead) /\ LoopHead \in {"publish", "issue"}
      BY <1>8 DEF ConsumeBodyChunk, LoopHead, n, r
    <2>2. r.hr # "fail"
      BY <1>8 DEF BodyEnds
    <2>3. broken = "no"
      BY <1>1, <2>2 DEF Result, TypeOK, r
    <2>4. /\ answers' = <<>> /\ outstanding' = 0 /\ pc'[t] \in {"publish", "issue"}
          /\ \A u \in Threads : u # t => ~Owner(u)'
      <3>1. LoopHead \in PC
        BY <2>1 DEF PC
      <3>2. /\ answers' = <<>> /\ outstanding' = 0 /\ pc'[t] = LoopHead
            /\ \A u \in Threads : u # t => ~Owner(u)'
        BY <1>1, <1>5, <2>1, <3>1, OwnerMoves
      <3> QED BY <2>1, <3>2
    <2>5. Knows(t)'
      BY <1>1, <1>5, <2>3, <2>4 DEF Knows, InHand, Carries
    <2> QED BY <1>5, <2>4, <2>5, Moves DEF Course
  <1> QED BY <1>7, <1>8

\* OnBeginRequest's part: the declared length is the entity's or unknown, and
\* a request without a body has nothing left to read.
LEMMA BeginKnows ==
  ASSUME TypeOK, Control, Body, Bound, Course, NEW t \in Threads, BeginBodyRead(t)
  PROVE  Course' /\ Outcome'
  <1> DEFINE info == GetEntityBodyInfo(req)
  <1>1. pc[t] = "begin" /\ Holds(t) /\ Owner(t) /\ ~InHand(t) /\ engine = "none" /\ broken = "no"
    BY DEF BeginBodyRead, Owner, Holds, InHand, Carries, Course, Knows
  <1>2. UNCHANGED <<req, wire, broken, outstanding, m_Body, engine, io>>
    BY DEF BeginBodyRead, envVars
  <1>3. req.contentLength \in {0, req.entity} /\ req.entity \in Nat
    BY DEF TypeOK, Requests
  <1>4. m_DeclaredBodyLength' \in {0, req'.entity}
    BY <1>2, <1>3 DEF BeginBodyRead, GetEntityBodyInfo
  <1>5. CASE info.hasBody = "no" /\ Goto(t, "restore") /\ UNCHANGED answers
    <2>1. req.entity = 0
      <3>1. req.moreFlag # "set" /\ ~(req.contentLength > 0)
        BY <1>5 DEF GetEntityBodyInfo
      <3>2. req.contentLength = req.entity
        BY <3>1 DEF TypeOK, Requests
      <3> QED BY <1>3, <3>1, <3>2
    <2>2. Len(m_Body) = req.entity
      BY <1>1, <2>1 DEF Body, TypeOK
    <2>3. Ready'
      BY <1>2, <2>2 DEF Ready
    <2>4. /\ answers' = <<>> /\ outstanding' = 0 /\ pc'[t] = "restore"
          /\ \A u \in Threads : u # t => ~Owner(u)'
      BY <1>1, <1>2, <1>5, OwnerMoves DEF PC
    <2>5. Knows(t)'
      BY <1>1, <1>2, <2>3, <2>4 DEF Knows, InHand, Carries
    <2> QED BY <1>4, <2>4, <2>5, Moves
  <1>6. CASE Goto(t, LoopHead) /\ UNCHANGED answers
    <2>1. LoopHead \in PC /\ LoopHead \in {"publish", "issue"}
      BY DEF LoopHead, PC
    <2>2. /\ answers' = <<>> /\ outstanding' = 0 /\ pc'[t] = LoopHead
          /\ \A u \in Threads : u # t => ~Owner(u)'
      BY <1>1, <1>2, <1>6, <2>1, OwnerMoves
    <2>3. Knows(t)'
      BY <1>1, <1>2, <2>1, <2>2 DEF Knows, InHand, Carries
    <2> QED BY <1>4, <2>2, <2>3, Moves
  <1>7. CASE Answer(t, "finish")
    BY <1>1, <1>2, <1>4, <1>7, OwnerFinishes
  <1> QED BY <1>5, <1>6, <1>7 DEF BeginBodyRead

\* Every step keeps the course of the request, and the outcome once it is out.
LEMMA CourseStep ==
  TypeOK /\ Control /\ Body /\ Bound /\ Course /\ Outcome /\ [Next]_vars => Course' /\ Outcome'
  <1> SUFFICES ASSUME TypeOK, Control, Body, Bound, Course, Outcome, [Next]_vars
               PROVE  Course' /\ Outcome'
    OBVIOUS
  <1>0. pc \in [Threads -> PC] /\ io \in [Threads -> Completion] /\ req' = req
    BY RequestConstant DEF TypeOK
  <1>1. CASE UNCHANGED vars
    BY <1>1 DEF Course, Outcome, Continued, Knows, Owner, Holds, Carries, InHand, Result, Ready,
                GivenBack, Given, vars, rscVars, envVars, doneVars
  <1>2. CASE CleanupStoredContext
    BY <1>2 DEF CleanupStoredContext, Course, Outcome, Continued, Knows, Owner, Holds, Carries,
                InHand, Result, Ready, GivenBack, Given, envVars, doneVars
  <1>3. ASSUME NEW t \in Threads, ThreadStep(t) \/ DeliverOurs(t) \/ DeliverForeign(t)
        PROVE  Course' /\ Outcome'
    <2> DEFINE Quiet == UNCHANGED <<io, answers, outstanding, m_DeclaredBodyLength>>
    <2>1. ASSUME Owner(t), NEW w \in PC, Goto(t, w), Quiet, pc'[t] = w => Knows(t)'
          PROVE  Course' /\ Outcome'
      <3>1. /\ answers' = <<>> /\ outstanding' = 0 /\ pc'[t] = w
            /\ \A u \in Threads : u # t => ~Owner(u)'
        BY <2>1, OwnerMoves
      <3>2. m_DeclaredBodyLength' \in {0, req'.entity}
        BY <1>0, <2>1 DEF Course
      <3> QED BY <2>1, <3>1, <3>2, Moves
    <2>2. ASSUME Holds(t), Answer(t, "finish"),
                 UNCHANGED <<io, outstanding, m_DeclaredBodyLength>>
          PROVE  Course' /\ Outcome'
      BY <1>0, <2>2, OwnerFinishes DEF Course
    <2> HIDE DEF Quiet
    <2>3. CASE BeginBodyRead(t)
      BY <2>3, BeginKnows
    <2>4. CASE ConsumeBodyChunk(t)
      BY <2>4, ConsumeKnows
    <2>5. CASE Publish(t)
      <3>1. Owner(t) /\ Goto(t, "issue") /\ Quiet /\ engine' = "none" /\ broken' = "no"
        BY <2>5 DEF Publish, Owner, Holds, Course, Knows, Quiet, envVars, doneVars
      <3>2. pc'[t] = "issue" => Knows(t)'
        BY <3>1 DEF Knows, InHand, Carries
      <3> QED BY <2>1, <3>1, <3>2 DEF PC
    <2>6. CASE IssueInline(t)
      <3>1. pc[t] = "issue" /\ Owner(t) /\ engine = "none" /\ broken = "no"
        BY <2>6 DEF IssueInline, Owner, Holds, Course, Knows
      <3>2. PICK r \in ReadResults : Receive(t, r)
        BY <2>6 DEF IssueInline
      <3>3. Goto(t, "inline") /\ UNCHANGED <<answers, outstanding, engine, m_DeclaredBodyLength>>
        BY <2>6 DEF IssueInline, doneVars
      <3>4. \A u \in Threads : u # t => io'[u] = io[u]
        BY <1>0, <3>2 DEF Receive
      <3>5. /\ answers' = <<>> /\ outstanding' = 0 /\ pc'[t] = "inline"
            /\ \A u \in Threads : u # t => ~Owner(u)'
        BY <3>1, <3>3, <3>4, OwnerMoves DEF PC
      <3>6. Knows(t)'
        BY <1>0, <3>1, <3>2, <3>3, <3>5, ReceiveKnows
      <3> QED BY <1>0, <3>3, <3>5, <3>6, Moves DEF Course
    <2>7. CASE IssuePended(t)
      <3>1. pc[t] = "issue" /\ Owner(t) /\ engine = "none" /\ broken = "no"
        BY <2>7 DEF IssuePended, Owner, Holds, Course, Knows
      <3>2. answers = <<>> /\ \A u \in Threads : u # t => ~Owner(u)
        BY <3>1 DEF Control, Token
      <3>3. /\ pc' = [pc EXCEPT ![t] = "pended"]
            /\ UNCHANGED <<io, answers, engine, broken, m_DeclaredBodyLength>>
        BY <2>7 DEF IssuePended, Goto, rscVars, doneVars
      <3>4. \A u \in Threads : Knows(u)'
        <4> TAKE u \in Threads
        <4>1. ~Owner(u)'
          BY <1>0, <3>2, <3>3 DEF Owner, Holds, Carries
        <4> QED BY <4>1 DEF Knows, Owner, Holds, InHand
      <3>5. Course'
        BY <1>0, <3>1, <3>3, <3>4 DEF Course
      <3> QED BY <3>2, <3>3, <3>5 DEF Outcome, Continued
    <2>8. CASE InlineDone(t)
      <3>1. pc[t] = "inline" /\ Owner(t) /\ Goto(t, "consume") /\ Quiet
        BY <2>8 DEF InlineDone, Owner, Holds, Quiet, doneVars, envVars
      <3>2. InHand(t) /\ Knows(t) /\ UNCHANGED <<req, wire, broken, engine, io>>
        BY <2>8, <3>1 DEF InlineDone, InHand, Course, doneVars, envVars
      <3>3. pc'[t] = "consume" => Knows(t)'
        BY <3>1, <3>2 DEF Knows, Result
      <3> QED BY <2>1, <3>1, <3>3 DEF PC
    <2>9. CASE RestoreBody(t) \/ RestoreAllocFails(t)
      <3>1. /\ pc[t] = "restore" /\ Owner(t) /\ Goto(t, "inspect") /\ Quiet
            /\ UNCHANGED <<req, broken, engine, m_Body>>
            /\ restore' = "allocFailed" \/ inserted' = DWord(Len(m_Body))
        BY <2>9 DEF RestoreBody, RestoreAllocFails, Owner, Holds, Quiet, rscVars, envVars
      <3>2. Ready /\ engine = "none"
        BY <3>1 DEF Course, Knows
      <3>3. pc'[t] = "inspect" => Knows(t)'
        BY <3>1, <3>2 DEF Knows, InHand, Carries, Ready, GivenBack
      <3> QED BY <2>1, <3>1, <3>3 DEF PC
    <2>10. CASE Inspect(t)
      <3>1. /\ pc[t] = "inspect" /\ Owner(t) /\ Goto(t, "verdict") /\ Quiet
            /\ UNCHANGED <<req, broken, m_Body, restore, inserted>>
            /\ engine' \in {"allow", "deny"}
            /\ inspected' = SubSeq(m_Body, 1, Lesser(Len(m_Body), GetMaxInspectBodyBytes))
        BY <2>10 DEF Inspect, Owner, Holds, Quiet, rscVars, envVars
      <3>2. Ready /\ (restore = "allocFailed" \/ GivenBack)
        BY <3>1 DEF Course, Knows
      <3>3. pc'[t] = "verdict" => Knows(t)'
        BY <3>1, <3>2 DEF Knows, InHand, Carries, Ready, GivenBack, Given
      <3> QED BY <2>1, <3>1, <3>3 DEF PC
    <2>11. CASE ConsumeThrows(t) \/ RestoreInsertFails(t) \/ InspectThrows(t)
      BY <2>2, <2>11
      DEF ConsumeThrows, RestoreInsertFails, InspectThrows, Holds, rscVars, envVars
    <2>12. CASE VerdictBlocks(t) \/ VerdictThrows(t)
      BY <2>2, <2>12 DEF VerdictBlocks, VerdictThrows, Holds, rscVars, envVars
    <2>13. CASE VerdictAllows(t)
      <3>1. /\ pc[t] = "verdict" /\ Holds(t) /\ Owner(t) /\ ~InHand(t) /\ engine = "allow"
            /\ UNCHANGED <<req, wire, broken, outstanding, m_Body, m_DeclaredBodyLength, restore,
                           inserted, inspected, engine, io>>
        BY <2>13 DEF VerdictAllows, Holds, Owner, InHand, Carries, rscVars, envVars
      <3>2. CASE restore = "allocFailed"
        BY <2>2, <2>13, <3>1, <3>2 DEF VerdictAllows
      <3>3. CASE restore # "allocFailed"
        <4>1. Answer(t, "continue") /\ GivenBack /\ Given /\ Ready /\ wire = Len(m_Body)
          BY <2>13, <3>1, <3>3 DEF VerdictAllows, Course, Knows, Body
        <4>2. Outcome'
          BY <3>1, <4>1 DEF Outcome, GivenBack, Given, Ready
        <4>3. pc' = [pc EXCEPT ![t] = "idle"] /\ outstanding = 0
              /\ \A u \in Threads : u # t => ~Owner(u)
          BY <3>1, <4>1 DEF Answer, Goto, Control, Token
        <4>4. \A u \in Threads : Knows(u)'
          <5> TAKE u \in Threads
          <5>1. ~Owner(u)'
            BY <1>0, <3>1, <4>3 DEF Owner, Holds, Carries
          <5> QED BY <5>1 DEF Knows, Owner, Holds, InHand
        <4> QED BY <3>1, <4>2, <4>3, <4>4 DEF Course
      <3> QED BY <3>2, <3>3
    <2>14. CASE DeliverOurs(t)
      <3>1. outstanding = 1
        BY <2>14 DEF DeliverOurs, Control, Token
      <3>2. /\ outstanding' = 0 /\ answers = <<>> /\ engine = "none" /\ broken = "no"
            /\ \A u \in Threads : ~Owner(u)
        BY <2>14, <3>1 DEF DeliverOurs, Control, Token, Course
      <3>3. PICK r \in ReadResults : Receive(t, r)
        BY <2>14 DEF DeliverOurs
      <3>4. /\ pc' = [pc EXCEPT ![t] = "entry"] /\ io' = [io EXCEPT ![t] = r]
            /\ UNCHANGED <<answers, engine, m_DeclaredBodyLength>>
        BY <2>14, <3>3 DEF DeliverOurs, Receive, Goto, doneVars
      <3>5. \A u \in Threads : u # t => ~Owner(u)'
        BY <1>0, <3>2, <3>4 DEF Owner, Holds, Carries
      <3>6. Knows(t)'
        BY <1>0, <3>2, <3>3, <3>4, ReceiveKnows
      <3> QED BY <1>0, <3>2, <3>4, <3>5, <3>6, Moves DEF Course
    <2>15. CASE ReturnPending(t)
      <3>1. ~Owner(t) /\ ~Owner(t)'
        BY <1>0, <2>15 DEF ReturnPending, Goto, Owner, Holds, Carries
      <3> QED BY <1>0, <2>15, <3>1, Bystands
              DEF ReturnPending, Goto, rscVars, envVars, doneVars
    <2>16. CASE DeliverForeign(t)
      <3>1. ~Owner(t) /\ ~Owner(t)'
        BY <1>0, <2>16 DEF DeliverForeign, Goto, Owner, Holds, Carries
      <3> QED BY <1>0, <2>16, <3>1, Bystands
              DEF DeliverForeign, Goto, rscVars, envVars, doneVars
    <2>17. CASE CompletionEntry(t)
      <3>1. CASE m_pTx = "live" /\ Owner(t)
        <4>1. pc[t] = "entry" /\ Goto(t, "claim") /\ Quiet /\ InHand(t) /\ Knows(t)
              /\ UNCHANGED <<req, wire, broken, engine, io>>
          BY <2>17, <3>1
          DEF CompletionEntry, Quiet, Owner, Holds, InHand, Course, rscVars, envVars, doneVars
        <4>2. pc'[t] = "claim" => Knows(t)'
          BY <3>1, <4>1 DEF Knows, Result
        <4> QED BY <2>1, <3>1, <4>1, <4>2 DEF PC
      <3>2. CASE ~(m_pTx = "live" /\ Owner(t))
        <4>1. ~Owner(t)
          BY <3>2 DEF Control, Token, Live
        <4>2. pc' = [pc EXCEPT ![t] = IF m_pTx = "null" THEN "idle" ELSE "claim"] /\ io' = io
          BY <2>17 DEF CompletionEntry, Goto
        <4>3. ~Owner(t)'
          BY <1>0, <2>17, <4>1, <4>2 DEF CompletionEntry, Owner, Holds, Carries
        <4> QED BY <1>0, <2>17, <4>1, <4>2, <4>3, Bystands
                DEF CompletionEntry, rscVars, envVars, doneVars
      <3> QED BY <3>1, <3>2
    <2>18. CASE Claim(t)
      <3>1. CASE m_BodyReadState = "READ_PENDING"
        <4>1. /\ Carries(t) /\ Owner(t) /\ InHand(t) /\ Goto(t, "consume") /\ Quiet /\ Knows(t)
              /\ UNCHANGED <<req, wire, broken, engine, io>>
          BY <2>18, <3>1
          DEF Claim, Control, Published, Owner, InHand, Quiet, Course, envVars, doneVars
        <4>2. pc[t] = "claim"
          BY <2>18 DEF Claim
        <4>3. pc'[t] = "consume" => Knows(t)'
          BY <4>1, <4>2 DEF Knows, Result
        <4> QED BY <2>1, <4>1, <4>3 DEF PC
      <3>2. CASE m_BodyReadState # "READ_PENDING"
        <4>1. ~Owner(t) /\ pc' = [pc EXCEPT ![t] = "idle"]
          BY <2>18, <3>2 DEF Claim, Goto, Control, Published, Owner, Holds
        <4>2. ~Owner(t)'
          BY <1>0, <4>1 DEF Owner, Holds, Carries
        <4> QED BY <1>0, <2>18, <4>1, <4>2, Bystands DEF Claim, envVars, doneVars
      <3> QED BY <3>1, <3>2
    <2> QED BY <1>3, <2>3, <2>4, <2>5, <2>6, <2>7, <2>8, <2>9, <2>10, <2>11, <2>12, <2>13,
               <2>14, <2>15, <2>16, <2>17, <2>18
            DEF ThreadStep
  <1> QED BY <1>1, <1>2, <1>3 DEF Next

\* The course holds from the start.
LEMMA CourseInit == Init => Course /\ Outcome
  <1> SUFFICES ASSUME Init PROVE Course /\ Outcome
    OBVIOUS
  <1>1. ASSUME NEW t \in Threads PROVE Knows(t)
    BY DEF Init, Knows, InHand, Carries
  <1> QED BY <1>1 DEF Init, Course, Outcome, Continued

\* OInv holds in every reachable state.
LEMMA OutcomeInductive == Spec => []OInv
  <1>1. Init => OInv
    BY TypeInit, ControlInit, BodyInit, CourseInit DEF OInv, IInv
  <1>2. OInv /\ [Next]_vars => OInv'
    BY TypeStep, ControlStep, BodyStep, CourseStep DEF OInv, IInv
  <1> QED BY <1>1, <1>2, PTL DEF Spec

(***************************************************************************)
(* What a request that goes on has been through.                           *)
(***************************************************************************)

\* A prefix of the first k bytes is the first j bytes.
LEMMA BytesPrefix ==
  ASSUME NEW k \in Nat, NEW j \in Nat, j <= k
  PROVE  SubSeq(Bytes(0, k), 1, j) = Bytes(0, j)
  <1> DEFINE s == Bytes(0, k)
             u == Bytes(0, j)
             v == SubSeq(s, 1, j)
  <1>1. s \in Seq(Nat) /\ \A i \in 1..k : s[i] = i
    BY BytesType
  <1>2. u \in Seq(Nat) /\ Len(u) = j /\ \A i \in 1..j : u[i] = i
    BY BytesType
  <1> HIDE DEF s, u
  <1>3. /\ v \in Seq(Nat) /\ Len(v) = (IF 1 <= j THEN j - 1 + 1 ELSE 0)
        /\ \A i \in 1..(j - 1 + 1) : v[i] = s[1 + i - 1]
    <2>1. \A i \in 1..j : s[i] \in Nat
      BY <1>1
    <2>2. 1 \in Int /\ j \in Int
      OBVIOUS
    <2> QED BY <2>1, <2>2, SubSeqProperties
  <1> HIDE DEF v
  <1>4. Len(v) = j
    BY <1>3
  <1>5. \A i \in 1..j : v[i] = u[i]
    BY <1>1, <1>2, <1>3
  <1>6. v = u
    BY <1>2, <1>3, <1>4, <1>5, SeqEqual
  <1> QED BY <1>6 DEF s, u, v

\* A request goes on only after the engine has allowed it, having been given
\* every byte of the entity up to the inspection cap.
THEOREM InspectedBeforeForwarded == Spec => []ForwardedInspected
  <1>1. ASSUME OInv PROVE ForwardedInspected
    <2> SUFFICES ASSUME Continued
                 PROVE  /\ engine = "allow"
                        /\ inspected = Bytes(0, Lesser(GetMaxInspectBodyBytes,
                                           IF broken = "no" THEN req.entity ELSE wire))
      BY DEF ForwardedInspected
    <2> DEFINE k == Len(m_Body)
               j == Lesser(k, GetMaxInspectBodyBytes)
    <2>1. engine = "allow" /\ Given /\ Ready /\ wire = k
      BY <1>1 DEF OInv, Outcome
    <2>2. /\ k \in Nat /\ GetMaxInspectBodyBytes \in Nat
          /\ wire \in 0..req.entity /\ req.entity \in Nat /\ broken \in {"no", "yes"}
      BY <1>1, CapPositive DEF OInv, IInv, TypeOK, Requests
    <2>3. j \in Nat /\ j <= k
      BY <2>2 DEF Lesser
    <2>4. inspected = SubSeq(m_Body, 1, j) /\ m_Body = Bytes(0, k)
      BY <1>1, <2>1 DEF OInv, IInv, Body, Given
    <2>5. j = Lesser(GetMaxInspectBodyBytes, IF broken = "no" THEN req.entity ELSE wire)
      BY <2>1, <2>2 DEF Ready, Lesser
    <2> HIDE DEF k, j
    <2>6. inspected = Bytes(0, j)
      BY <2>2, <2>3, <2>4, BytesPrefix
    <2> QED BY <2>1, <2>5, <2>6
  <1>2. OInv => ForwardedInspected
    BY <1>1
  <1> QED BY <1>2, OutcomeInductive, PTL

\* The handler behind the module reads the whole entity, provided the length
\* of a drained body fits the DWORD it is passed in: no entity is longer, or
\* the cap leaves room for a last chunk.
THEOREM ForwardedWhole ==
  ASSUME MaxEntity < DWordSize \/ GetMaxInspectBodyBytes + ChunkSize <= DWordSize
  PROVE  Spec => []ForwardedIntact
  <1>1. ASSUME OInv PROVE ForwardedIntact
    <2> SUFFICES ASSUME Continued, broken = "no"
                 PROVE  SubSeq(m_Body, 1, inserted) \o Bytes(wire, req.entity)
                          = Bytes(0, req.entity)
      BY DEF ForwardedIntact
    <2> DEFINE k == Len(m_Body)
               e == req.entity
               rest == Bytes(k, e)
    <2>1. wire = k /\ inserted = DWord(k)
      BY <1>1 DEF OInv, Outcome, GivenBack
    <2>2. k \in Nat /\ e \in Nat /\ k <= e /\ e <= MaxEntity
      BY <1>1, <2>1 DEF OInv, IInv, TypeOK, Requests
    <2>3. k < GetMaxInspectBodyBytes + ChunkSize /\ GetMaxInspectBodyBytes \in Nat
      BY <1>1, CapPositive DEF OInv, IInv, Bound
    <2>4. k < DWordSize
      BY <2>2, <2>3
    <2>5. DWord(k) = k
      BY <2>2, <2>4 DEF DWord
    <2>6. m_Body = Bytes(0, k)
      BY <1>1 DEF OInv, IInv, Body
    <2> HIDE DEF k, e
    <2>7. SubSeq(m_Body, 1, inserted) = Bytes(0, k)
      BY <2>1, <2>2, <2>5, <2>6, BytesPrefix
    <2>8. e - k \in Nat /\ k + (e - k) = e
      BY <2>2
    <2>9. rest = [i \in 1..(e - k) |-> k + i]
      BY DEF Bytes
    <2>10. Bytes(0, k) \o rest = Bytes(0, k + (e - k))
      <3> HIDE DEF rest
      <3> QED BY <2>2, <2>8, <2>9, BytesGrow
    <2> QED BY <2>1, <2>7, <2>8, <2>10 DEF e
  <1>2. OInv => ForwardedIntact
    BY <1>1
  <1> QED BY <1>2, OutcomeInductive, PTL

(***************************************************************************)
(* BodyRead implements BodyPhase.                                          *)
(***************************************************************************)

\* The initial states are initial states of the body phase.
LEMMA PhaseInit == Init => Phase!Init
  <1> SUFFICES ASSUME Init PROVE Phase!Init
    OBVIOUS
  <1>1. broken = "no" /\ req.entity \in Nat /\ Len(m_Body) = 0 /\ Len(inspected) = 0
    BY DEF Init, Requests
  <1> QED BY <1>1 DEF Init, Phase!Init

\* A step that only moves threads is none of the phase.
LEMMA PhaseStutter ==
  ASSUME UNCHANGED <<req, wire, broken, m_Body, inspected, engine, answers>>
  PROVE  UNCHANGED Phase!vars
  BY DEF Phase!vars

\* The owner of the body answers "finish".
LEMMA PhaseFinish ==
  ASSUME Control, NEW t \in Threads, Holds(t), Answer(t, "finish"),
         UNCHANGED <<req, wire, broken, m_Body, inspected>>, engine' \in {engine, "threw"}
  PROVE  Phase!Finish
  <1>1. answers = <<>>
    BY DEF Control, Token, Owner
  <1>2. answers' = <<"finish">>
    BY <1>1 DEF Answer
  <1> QED BY <1>1, <1>2 DEF Phase!Finish

\* A read: the connection fails, or nothing of the phase happens yet.
LEMMA PhaseReceive ==
  ASSUME OInv, NEW t \in Threads, NEW r \in ReadResults, Receive(t, r), broken = "no",
         engine = "none", answers = <<>>, wire = Len(m_Body),
         UNCHANGED <<req, m_Body, inspected, engine, answers>>
  PROVE  Phase!Cut \/ UNCHANGED Phase!vars
  <1>1. wire' = wire + r.cb /\ r.cb \in Nat /\ wire' \in 0..req.entity
    BY ReadResultsFit DEF Receive, OInv, IInv
  <1>2. Len(m_Body) \in Nat /\ req.entity \in Nat
    BY DEF OInv, IInv, TypeOK, Requests
  <1>3. CASE r.hr = "fail"
    <2>1. broken' = "yes"
      BY <1>3 DEF Receive
    <2> QED BY <1>1, <1>2, <2>1 DEF Phase!Cut, Phase!Undecided
  <1>4. CASE r.hr # "fail"
    <2>1. broken' = "no"
      BY <1>4 DEF Receive
    <2> QED BY <2>1 DEF Phase!vars
  <1> QED BY <1>3, <1>4

\* A chunk is appended: bytes are taken, below the cap and within the entity.
LEMMA PhaseTake ==
  ASSUME OInv, NEW t \in Threads, ConsumeBodyChunk(t)
  PROVE  Phase!Take \/ UNCHANGED Phase!vars
  <1> DEFINE n == io[t].cb
             k == Len(m_Body)
  <1>1. pc[t] = "consume" /\ Owner(t) /\ InHand(t) /\ engine = "none" /\ answers = <<>>
    BY DEF ConsumeBodyChunk, Owner, Holds, InHand, OInv, IInv, Control, Token, Course, Knows
  <1>2. k < GetMaxInspectBodyBytes /\ wire = k + n
    BY <1>1 DEF OInv, IInv, Body, Bound
  <1>3. k \in Nat /\ n \in Nat /\ wire \in 0..req.entity /\ req.entity \in Nat
    BY DEF OInv, IInv, TypeOK, Completion, Requests
  <1>4. Len(m_Body') = k + n
    BY AppendedType DEF ConsumeBodyChunk, OInv, IInv, TypeOK
  <1>5. UNCHANGED <<req, wire, broken, inspected, engine, answers>>
    BY DEF ConsumeBodyChunk, envVars
  <1> HIDE DEF n, k
  <1>6. CASE n = 0
    <2>1. Len(m_Body') = Len(m_Body)
      BY <1>3, <1>4, <1>6 DEF k
    <2> QED BY <1>5, <2>1 DEF Phase!vars
  <1>7. CASE n > 0
    <2>1. Len(m_Body') > Len(m_Body) /\ Len(m_Body) < GetMaxInspectBodyBytes
      BY <1>2, <1>3, <1>4, <1>7 DEF k
    <2>2. Len(m_Body') <= (IF broken = "yes" THEN wire ELSE req.entity)
      BY <1>2, <1>3, <1>4
    <2> QED BY <1>1, <1>5, <2>1, <2>2 DEF Phase!Take, Phase!Undecided
  <1> QED BY <1>3, <1>6, <1>7

\* The engine rules: reading has come to its end.
LEMMA PhaseRule ==
  ASSUME OInv, NEW t \in Threads, Inspect(t)
  PROVE  Phase!Rule
  <1> DEFINE k == Len(m_Body)
             j == Lesser(k, GetMaxInspectBodyBytes)
  <1>1. /\ pc[t] = "inspect" /\ Holds(t) /\ ~InHand(t) /\ engine = "none" /\ answers = <<>>
        /\ Ready
    BY DEF Inspect, Owner, Holds, InHand, Carries, OInv, IInv, Control, Token, Course, Knows
  <1>2. wire = k /\ m_Body \in Seq(Nat) /\ k \in Nat /\ GetMaxInspectBodyBytes \in Nat
    BY <1>1, CapPositive DEF OInv, IInv, Body, TypeOK
  <1>3. j \in Nat /\ j <= k /\ j = IF k <= GetMaxInspectBodyBytes THEN k ELSE GetMaxInspectBodyBytes
    BY <1>2 DEF Lesser
  <1>4. /\ inspected' = SubSeq(m_Body, 1, j) /\ engine' \in {"allow", "deny"}
        /\ UNCHANGED <<req, wire, broken, m_Body, answers>>
    BY DEF Inspect, rscVars, envVars
  <1> HIDE DEF j
  <1>5. Len(inspected') = j
    <2>1. \A i \in 1..j : m_Body[i] \in Nat
      BY <1>2, <1>3
    <2>2. Len(SubSeq(m_Body, 1, j)) = IF 1 <= j THEN j - 1 + 1 ELSE 0
      BY <1>3, <2>1, SubSeqProperties
    <2> QED BY <1>3, <1>4, <2>2
  <1>6. k = (IF broken = "yes" THEN wire ELSE req.entity) \/ k >= GetMaxInspectBodyBytes
    BY <1>1, <1>2 DEF Ready
  <1> QED BY <1>1, <1>3, <1>4, <1>5, <1>6 DEF Phase!Rule, Phase!Undecided

\* Every step of BodyRead is a step of the phase, or none of it.
LEMMA PhaseStep == OInv /\ [Next]_vars => [Phase!Next]_(Phase!vars)
  <1> SUFFICES ASSUME OInv, [Next]_vars PROVE Phase!Next \/ UNCHANGED Phase!vars
    OBVIOUS
  <1>0. Control
    BY DEF OInv, IInv
  <1>1. CASE UNCHANGED vars
    BY <1>1, PhaseStutter DEF vars, rscVars, envVars, doneVars
  <1>2. CASE CleanupStoredContext
    BY <1>2, PhaseStutter DEF CleanupStoredContext, envVars, doneVars
  <1>3. ASSUME NEW t \in Threads, ThreadStep(t) \/ DeliverOurs(t) \/ DeliverForeign(t)
        PROVE  Phase!Next \/ UNCHANGED Phase!vars
    <2>1. CASE BeginBodyRead(t)
      <3>1. Holds(t) /\ UNCHANGED <<req, wire, broken, m_Body, inspected, engine>>
        BY <2>1 DEF BeginBodyRead, Holds, envVars
      <3>2. CASE UNCHANGED answers
        BY <3>1, <3>2, PhaseStutter
      <3>3. CASE Answer(t, "finish")
        BY <1>0, <3>1, <3>3, PhaseFinish DEF Phase!Next
      <3> QED BY <2>1, <3>2, <3>3 DEF BeginBodyRead
    <2>2. CASE \/ Publish(t) \/ IssuePended(t) \/ ReturnPending(t) \/ InlineDone(t)
               \/ CompletionEntry(t) \/ Claim(t) \/ DeliverForeign(t)
      BY <2>2, PhaseStutter
      DEF Publish, IssuePended, ReturnPending, InlineDone, CompletionEntry, Claim, DeliverForeign,
          rscVars, envVars, doneVars
    <2>3. CASE RestoreBody(t) \/ RestoreAllocFails(t)
      BY <2>3, PhaseStutter DEF RestoreBody, RestoreAllocFails, rscVars, envVars
    <2>4. CASE IssueInline(t)
      <3>1. Holds(t) /\ Owner(t) /\ ~InHand(t) /\ engine = "none" /\ broken = "no"
        BY <2>4 DEF IssueInline, Owner, Holds, InHand, Carries, OInv, Course, Knows
      <3>2. answers = <<>> /\ wire = Len(m_Body)
        BY <1>0, <3>1 DEF OInv, IInv, Control, Token, Body
      <3>3. UNCHANGED <<req, m_Body, inspected, engine, answers>>
        BY <2>4 DEF IssueInline, doneVars
      <3>4. PICK r \in ReadResults : Receive(t, r)
        BY <2>4 DEF IssueInline
      <3> QED BY <3>1, <3>2, <3>3, <3>4, PhaseReceive DEF Phase!Next
    <2>5. CASE DeliverOurs(t)
      <3>1. outstanding = 1
        BY <1>0, <2>5 DEF DeliverOurs, Control, Token
      <3>2. answers = <<>> /\ wire = Len(m_Body) /\ engine = "none" /\ broken = "no"
        BY <1>0, <3>1 DEF OInv, IInv, Control, Token, Body, Course
      <3>3. UNCHANGED <<req, m_Body, inspected, engine, answers>>
        BY <2>5 DEF DeliverOurs, doneVars
      <3>4. PICK r \in ReadResults : Receive(t, r)
        BY <2>5 DEF DeliverOurs
      <3> QED BY <3>2, <3>3, <3>4, PhaseReceive DEF Phase!Next
    <2>6. CASE ConsumeBodyChunk(t)
      BY <2>6, PhaseTake DEF Phase!Next
    <2>7. CASE Inspect(t)
      BY <2>7, PhaseRule DEF Phase!Next
    <2>8. CASE \/ ConsumeThrows(t) \/ RestoreInsertFails(t) \/ InspectThrows(t)
               \/ VerdictBlocks(t) \/ VerdictThrows(t)
      <3>1. /\ Holds(t) /\ Answer(t, "finish") /\ engine' \in {engine, "threw"}
            /\ UNCHANGED <<req, wire, broken, m_Body, inspected>>
        BY <2>8 DEF ConsumeThrows, RestoreInsertFails, InspectThrows, VerdictBlocks,
                    VerdictThrows, Holds, rscVars, envVars
      <3> QED BY <1>0, <3>1, PhaseFinish DEF Phase!Next
    <2>9. CASE VerdictAllows(t)
      <3>1. /\ Holds(t) /\ engine = "allow"
            /\ UNCHANGED <<req, wire, broken, m_Body, inspected, engine>>
        BY <2>9 DEF VerdictAllows, Holds, rscVars, envVars
      <3>2. CASE Answer(t, "finish")
        BY <1>0, <3>1, <3>2, PhaseFinish DEF Phase!Next
      <3>3. CASE Answer(t, "continue")
        <4>1. answers = <<>>
          BY <1>0, <3>1 DEF Control, Token, Owner
        <4>2. answers' = <<"continue">>
          BY <3>3, <4>1 DEF Answer
        <4>3. Phase!Continue
          BY <3>1, <4>1, <4>2 DEF Phase!Continue
        <4> QED BY <4>3 DEF Phase!Next
      <3> QED BY <2>9, <3>2, <3>3 DEF VerdictAllows
    <2> QED BY <1>3, <2>1, <2>2, <2>3, <2>4, <2>5, <2>6, <2>7, <2>8, <2>9 DEF ThreadStep
  <1> QED BY <1>1, <1>2, <1>3 DEF Next

\* Threads, pended reads and foreign completions included, the module drains,
\* rules and answers as BodyPhase says.
THEOREM ReadImplementsPhase == Spec => ImplementsBodyPhase
  BY PhaseInit, PhaseStep, OutcomeInductive, PTL
     DEF Spec, ImplementsBodyPhase, Phase!Spec
=============================================================================
