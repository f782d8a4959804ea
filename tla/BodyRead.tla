------------------------------ MODULE BodyRead ------------------------------
(***************************************************************************)
(* The request entity-body state machine of CMyHttpModule: BeginBodyRead,  *)
(* PumpBodyRead, ConsumeBodyChunk, FinishBodyRead and OnAsyncCompletion    *)
(* (src/ModSecurityIIS.cpp), for ONE request.                              *)
(*                                                                         *)
(* A request is handled by several IIS threads.  The thread that runs      *)
(* OnBeginRequest issues ReadEntityBody; a read that pends is completed on *)
(* another thread, possibly before the issuing call has returned, and that *)
(* thread runs OnAsyncCompletion.  Completions that are not ours are       *)
(* delivered there too.  Every access to the shared REQUEST_STORED_CONTEXT *)
(* that another thread could observe is a step of its own.                 *)
(*                                                                         *)
(* Bytes are modelled by their offset in the entity (1, 2, ...), so a      *)
(* byte that is lost, repeated or moved shows in m_Body.                   *)
(*                                                                         *)
(* IHttpContext::GetRequest() is taken to be non-NULL: OnBeginRequest has  *)
(* returned before this code when it is NULL (lines 995-1000).             *)
(***************************************************************************)
EXTENDS Integers, Sequences

CONSTANTS
  Threads,         \* IIS worker and I/O threads
  MaxEntity,       \* bound: the longest request entity
  ChunkSize,       \* kBodyReadChunkSize (65536 in the code)
  CapSetting,      \* MODSEC_IIS_MAX_INSPECT_BODY_BYTES; 0: unset or not a number
  DefaultCap,      \* the built-in cap (1 MiB in the code)
  DWordSize        \* how many values a DWORD has (2^32)

ASSUME ThreadsAssumption == Threads # {}
ASSUME MaxEntityAssumption == MaxEntity \in Nat
ASSUME ChunkAssumption == ChunkSize \in Nat \ {0}
ASSUME CapAssumption == CapSetting \in Nat /\ DefaultCap \in Nat \ {0}
ASSUME DWordAssumption == DWordSize \in Nat /\ DWordSize > 1

VARIABLES
  req,               \* what http.sys knows of the request, and how the process
                     \* reads bodies; constant
  wire,              \* how many entity bytes IIS has handed to the module
  broken,            \* "yes" once a read failed: the connection is gone
  outstanding,       \* pended ReadEntityBody calls not yet completed
  m_pTx,             \* the transaction: "live", or "null" after FinishRequest
  m_BodyReadState,   \* BRS_IDLE, BRS_READ_PENDING, BRS_DONE
  m_ReadBuf,         \* the staging buffer IIS writes into
  m_Body,            \* the accumulated body
  m_DeclaredBodyLength,
  pc,                \* where each thread is
  io,                \* each thread's cb, hr and whose completion it carries
  restore,           \* what became of the re-insertion in FinishBodyRead
  inserted,          \* bytes IIS got back through InsertEntityBody
  inspected,         \* the bytes the engine was given
  engine,            \* the engine's phase 2: "none", "allow", "deny", "threw"
  response,          \* "unset", "500" or "denied"
  capLogged,         \* s_capLogged: "yes" once the cap event was written
  answers            \* final statuses returned for RQ_BEGIN_REQUEST

rscVars  == <<m_pTx, m_BodyReadState, m_ReadBuf, m_Body, m_DeclaredBodyLength>>
envVars  == <<req, wire, broken, outstanding>>
doneVars == <<restore, inserted, inspected, engine, response, capLogged, answers>>
vars     == <<rscVars, envVars, doneVars, pc, io>>

(***************************************************************************)
(* Values and small helpers.                                               *)
(***************************************************************************)

\* The bytes of the entity with offsets lo+1 .. hi.
Bytes(lo, hi) == [i \in 1..(hi - lo) |-> lo + i]

Lesser(a, b) == IF a <= b THEN a ELSE b

\* A narrowing cast to DWORD.
DWord(n) == n % DWordSize

\* GetMaxInspectBodyBytes: the setting or the default, at most a DWORD.
GetMaxInspectBodyBytes ==
  LET v == IF CapSetting > 0 THEN CapSetting ELSE DefaultCap
  IN  IF v > DWordSize - 1 THEN DWordSize - 1 ELSE v

\* What http.sys can report: with MORE_ENTITY_BODY_EXISTS the header may be
\* absent (0); without it the entity is exactly what Content-Length declares.
\* The mode is fixed for the process by MODSEC_IIS_BODY_ASYNC.
Requests ==
  {r \in [entity : 0..MaxEntity, moreFlag : {"set", "clear"},
          contentLength : 0..MaxEntity, mode : {"async", "sync"}] :
     IF r.moreFlag = "set" THEN r.contentLength \in {0, r.entity}
                           ELSE r.contentLength = r.entity}

\* Fault: an unknown length is reported as -1 instead of 0.
UnknownLengthAsMinusOne(r) ==
  IF r.moreFlag = "set"
  THEN [hasBody |-> "yes", length |-> -1]
  ELSE [hasBody |-> IF r.contentLength > 0 THEN "yes" ELSE "no",
        length  |-> r.contentLength]

\* GetEntityBodyInfo: a body whose length is not known has length 0.
GetEntityBodyInfo(r) ==
  IF r.moreFlag = "set"
  THEN [hasBody |-> "yes", length |-> 0]
  ELSE [hasBody |-> IF r.contentLength > 0 THEN "yes" ELSE "no",
        length  |-> r.contentLength]

\* BodyReadsAsync: "async", or "sync" when MODSEC_IIS_BODY_ASYNC=0.
BodyReadsAsync == req.mode

HResult    == {"ok", "eof", "fail"}
Completion == [cb : 0..ChunkSize, hr : HResult, whose : {"ours", "foreign"}]
NoIO       == [cb |-> 0, hr |-> "ok", whose |-> "ours"]

PC == {"idle", "begin", "publish", "issue", "pended", "inline", "consume",
       "restore", "inspect", "verdict", "entry", "claim"}

\* What a ReadEntityBody of ours can deliver: some of the bytes that are left
\* (a short read is allowed), the last ones with or without an EOF status, an
\* empty read at the end, or a failure with or without bytes.
ReadResults ==
  LET left == req.entity - wire
      most == Lesser(ChunkSize, left)
  IN  {r \in [cb : 0..most, hr : HResult, whose : {"ours"}] :
         /\ r.hr = "ok"  => (r.cb > 0 \/ left = 0)
         /\ r.hr = "eof" => r.cb = left}

\* The buffer after a read left n bytes at its start.
Filled(n) == [i \in 1..ChunkSize |-> IF i <= n THEN wire + i ELSE m_ReadBuf[i]]

Goto(t, where) == pc' = [pc EXCEPT ![t] = where]

\* A handler returns a final status for RQ_BEGIN_REQUEST to IIS.
Answer(t, status) ==
  /\ answers' = Append(answers, status)
  /\ Goto(t, "idle")

\* The top of the loop in PumpBodyRead: only the asynchronous mode publishes.
LoopHead == IF BodyReadsAsync = "async" THEN "publish" ELSE "issue"

TypeOK ==
  /\ req \in Requests
  /\ wire \in 0..req.entity
  /\ broken \in {"no", "yes"}
  /\ outstanding \in Nat
  /\ m_pTx \in {"live", "null"}
  /\ m_BodyReadState \in {"IDLE", "READ_PENDING", "DONE"}
  /\ m_ReadBuf \in [1..ChunkSize -> Nat]
  /\ m_Body \in Seq(Nat)
  /\ m_DeclaredBodyLength \in Nat
  /\ pc \in [Threads -> PC]
  /\ io \in [Threads -> Completion]
  /\ restore \in {"none", "done", "allocFailed", "insertFailed"}
  /\ inserted \in Nat
  /\ inspected \in Seq(Nat)
  /\ engine \in {"none", "allow", "deny", "threw"}
  /\ response \in {"unset", "500", "denied"}
  /\ capLogged \in {"no", "yes"}
  /\ answers \in Seq({"continue", "finish"})

Init ==
  /\ req \in Requests
  /\ wire = 0
  /\ broken = "no"
  /\ outstanding = 0
  /\ m_pTx = "live"
  /\ m_BodyReadState = "IDLE"
  /\ m_ReadBuf = [i \in 1..ChunkSize |-> 0]
  /\ m_Body = <<>>
  /\ m_DeclaredBodyLength = 0
  /\ \E t \in Threads : pc = [u \in Threads |-> IF u = t THEN "begin" ELSE "idle"]
  /\ io = [t \in Threads |-> NoIO]
  /\ restore = "none"
  /\ inserted = 0
  /\ inspected = <<>>
  /\ engine = "none"
  /\ response = "unset"
  /\ capLogged = "no"
  /\ answers = <<>>

(***************************************************************************)
(* BeginBodyRead, called by OnBeginRequest after phase 1.                  *)
(***************************************************************************)
BeginBodyRead(t) ==
  LET info == GetEntityBodyInfo(req)
  IN  /\ pc[t] = "begin"
      /\ m_DeclaredBodyLength' = info.length
      /\ \/ /\ info.hasBody = "no"
            /\ Goto(t, "restore")
            /\ UNCHANGED answers
         \/ /\ info.hasBody = "yes"
            /\ Goto(t, LoopHead)
            /\ UNCHANGED answers
         \/ /\ info.hasBody = "yes"     \* a buffer allocation throws
            /\ Answer(t, "finish")
      /\ UNCHANGED <<envVars, m_pTx, m_BodyReadState, m_ReadBuf, m_Body, io,
                     restore, inserted, inspected, engine, response, capLogged>>

(***************************************************************************)
(* PumpBodyRead: one pass of its loop.                                     *)
(***************************************************************************)

\* InterlockedExchange(BRS_READ_PENDING), before the read is issued.
Publish(t) ==
  /\ pc[t] = "publish"
  /\ m_BodyReadState' = "READ_PENDING"
  /\ Goto(t, "issue")
  /\ UNCHANGED <<envVars, doneVars, io, m_pTx, m_ReadBuf, m_Body, m_DeclaredBodyLength>>

\* IIS puts the result r of a read into the buffer and hands it to thread t.
Receive(t, r) ==
  /\ io' = [io EXCEPT ![t] = r]
  /\ m_ReadBuf' = Filled(r.cb)
  /\ wire' = wire + r.cb
  /\ broken' = IF r.hr = "fail" THEN "yes" ELSE broken

\* ReadEntityBody completes inline.
IssueInline(t) ==
  /\ pc[t] = "issue"
  /\ \E r \in ReadResults : Receive(t, r)
  /\ Goto(t, "inline")
  /\ UNCHANGED <<doneVars, req, outstanding, m_pTx, m_BodyReadState, m_Body, m_DeclaredBodyLength>>

\* ReadEntityBody(fAsync=TRUE) pends; from here on the completion may be
\* delivered on any other thread.
IssuePended(t) ==
  /\ pc[t] = "issue"
  /\ BodyReadsAsync = "async"
  /\ outstanding' = outstanding + 1
  /\ Goto(t, "pended")
  /\ UNCHANGED <<rscVars, doneVars, io, req, wire, broken>>

\* Fault: the pending state is published again after the read has pended.
ReturnPendingRepublishes(t) ==
  /\ pc[t] = "pended"
  /\ m_BodyReadState' = "READ_PENDING"
  /\ Goto(t, "idle")
  /\ UNCHANGED <<envVars, doneVars, io, m_pTx, m_ReadBuf, m_Body, m_DeclaredBodyLength>>

\* return RQ_NOTIFICATION_PENDING: only locals are looked at.
ReturnPending(t) ==
  /\ pc[t] = "pended"
  /\ Goto(t, "idle")
  /\ UNCHANGED <<rscVars, envVars, doneVars, io>>

\* An inline completion: InterlockedExchange(BRS_IDLE) when asynchronous.
InlineDone(t) ==
  /\ pc[t] = "inline"
  /\ m_BodyReadState' = IF BodyReadsAsync = "async" THEN "IDLE" ELSE m_BodyReadState
  /\ Goto(t, "consume")
  /\ UNCHANGED <<envVars, doneVars, io, m_pTx, m_ReadBuf, m_Body, m_DeclaredBodyLength>>

(***************************************************************************)
(* ConsumeBodyChunk.                                                       *)
(***************************************************************************)

\* Fault: the whole staging buffer is appended, not the bytes just read.
AppendedWholeBuffer(r) == m_Body \o m_ReadBuf

\* The body once the chunk of completion r has been appended.
Appended(r) == m_Body \o [i \in 1..r.cb |-> m_ReadBuf[i]]

\* Fault: a short read is taken for the end of the body.
EndsOnShortRead(r, len) ==
  \/ r.cb < ChunkSize
  \/ r.hr \in {"eof", "fail"}
  \/ m_DeclaredBodyLength > 0 /\ len >= m_DeclaredBodyLength

\* Fault: only an EOF status ends the body, an empty read does not.
EmptyReadGoesOn(r, len) ==
  \/ r.hr \in {"eof", "fail"}
  \/ m_DeclaredBodyLength > 0 /\ len >= m_DeclaredBodyLength

\* The stop conditions ahead of the cap: a zero-length read or EOF, a hard
\* error, everything declared has arrived.
BodyEnds(r, len) ==
  \/ r.cb = 0 \/ r.hr = "eof"
  \/ r.hr = "fail"
  \/ m_DeclaredBodyLength > 0 /\ len >= m_DeclaredBodyLength

\* Fault: the accumulation cap is not applied.
CapIgnored(len) == FALSE

\* The accumulation cap.
CapReached(len) == len >= GetMaxInspectBodyBytes

ConsumeBodyChunk(t) ==
  LET body   == Appended(io[t])
      ends   == BodyEnds(io[t], Len(body))
      capped == ~ends /\ CapReached(Len(body))
  IN  /\ pc[t] = "consume"
      /\ m_Body' = body
      /\ m_BodyReadState' = IF ends \/ capped THEN "DONE" ELSE m_BodyReadState
      /\ capLogged' = IF capped THEN "yes" ELSE capLogged
      /\ Goto(t, IF ends \/ capped THEN "restore" ELSE LoopHead)
      /\ UNCHANGED <<envVars, io, m_pTx, m_ReadBuf, m_DeclaredBodyLength,
                     restore, inserted, inspected, engine, response, answers>>

\* m_Body.insert throws; the handler's catch finishes the request.
ConsumeThrows(t) ==
  /\ pc[t] = "consume"
  /\ io[t].cb > 0
  /\ Answer(t, "finish")
  /\ UNCHANGED <<rscVars, envVars, io, restore, inserted, inspected, engine,
                 response, capLogged>>

(***************************************************************************)
(* FinishBodyRead: restore the body, run phase 2, apply the verdict.       *)
(***************************************************************************)

\* Nothing was drained, or AllocateRequestMemory and InsertEntityBody succeed.
RestoreBody(t) ==
  /\ pc[t] = "restore"
  /\ restore' = IF m_Body = <<>> THEN "none" ELSE "done"
  /\ inserted' = DWord(Len(m_Body))
  /\ Goto(t, "inspect")
  /\ UNCHANGED <<rscVars, envVars, io, inspected, engine, response, capLogged, answers>>

\* AllocateRequestMemory fails: restoreFailed, the engine still inspects.
RestoreAllocFails(t) ==
  /\ pc[t] = "restore"
  /\ m_Body # <<>>
  /\ restore' = "allocFailed"
  /\ Goto(t, "inspect")
  /\ UNCHANGED <<rscVars, envVars, io, inserted, inspected, engine, response,
                 capLogged, answers>>

\* InsertEntityBody fails: the request is finished on the spot.
RestoreInsertFails(t) ==
  /\ pc[t] = "restore"
  /\ m_Body # <<>>
  /\ restore' = "insertFailed"
  /\ Answer(t, "finish")
  /\ UNCHANGED <<rscVars, envVars, io, inserted, inspected, engine, response,
                 capLogged>>

\* appendRequestBody, bounded by the cap, and processRequestBody.
Inspect(t) ==
  /\ pc[t] = "inspect"
  /\ inspected' = SubSeq(m_Body, 1, Lesser(Len(m_Body), GetMaxInspectBodyBytes))
  /\ engine' \in {"allow", "deny"}
  /\ Goto(t, "verdict")
  /\ UNCHANGED <<rscVars, envVars, io, restore, inserted, response, capLogged, answers>>

\* Fault: an exception in the engine lets the request go on.
InspectThrowsOpen(t) ==
  /\ pc[t] = "inspect"
  /\ engine' = "threw"
  /\ Answer(t, "continue")
  /\ UNCHANGED <<rscVars, envVars, io, restore, inserted, inspected, response, capLogged>>

\* The engine throws: fail closed, the transaction stays for CleanupStoredContext.
InspectThrows(t) ==
  /\ pc[t] = "inspect"
  /\ engine' = "threw"
  /\ Answer(t, "finish")
  /\ UNCHANGED <<rscVars, envVars, io, restore, inserted, inspected, response, capLogged>>

\* ApplyIntervention(canBlock = true) blocks: it replaces the response and
\* runs FinishRequest.
VerdictBlocks(t) ==
  /\ pc[t] = "verdict"
  /\ engine = "deny"
  /\ response' = "denied"
  /\ m_pTx' = "null"
  /\ Answer(t, "finish")
  /\ UNCHANGED <<envVars, io, m_BodyReadState, m_ReadBuf, m_Body, m_DeclaredBodyLength,
                 restore, inserted, inspected, engine, capLogged>>

\* Fault: a failed restore is forgotten once the engine has allowed the body.
VerdictForgetsRestore(t) ==
  /\ pc[t] = "verdict"
  /\ engine = "allow"
  /\ Answer(t, "continue")
  /\ UNCHANGED <<rscVars, envVars, io, restore, inserted, inspected, engine,
                 response, capLogged>>

\* No disruptive intervention: 500 if the body could not be restored,
\* otherwise the pipeline goes on.
VerdictAllows(t) ==
  /\ pc[t] = "verdict"
  /\ engine = "allow"
  /\ response' = IF restore = "allocFailed" THEN "500" ELSE response
  /\ Answer(t, IF restore = "allocFailed" THEN "finish" ELSE "continue")
  /\ UNCHANGED <<rscVars, envVars, io, restore, inserted, inspected, engine, capLogged>>

\* ApplyIntervention throws, before or after it has replaced the response;
\* the notification handler's catch finishes.
VerdictThrows(t) ==
  /\ pc[t] = "verdict"
  /\ engine' = "threw"
  /\ response' \in IF engine = "deny" THEN {response, "denied"} ELSE {response}
  /\ Answer(t, "finish")
  /\ UNCHANGED <<rscVars, envVars, io, restore, inserted, inspected, capLogged>>

(***************************************************************************)
(* OnAsyncCompletion.                                                      *)
(***************************************************************************)

\* IIS completes our pended read and calls OnAsyncCompletion on thread t.
DeliverOurs(t) ==
  /\ pc[t] = "idle"
  /\ outstanding > 0
  /\ outstanding' = outstanding - 1
  /\ \E r \in ReadResults : Receive(t, r)
  /\ Goto(t, "entry")
  /\ UNCHANGED <<doneVars, req, m_pTx, m_BodyReadState, m_Body, m_DeclaredBodyLength>>

\* A completion of somebody else's operation (ARR's own reads, a late or
\* repeated delivery).  While RQ_BEGIN_REQUEST is unanswered the pipeline
\* cannot advance, so there is none before the answer (lines 52-55, 1274-1278).
DeliverForeign(t) ==
  /\ pc[t] = "idle"
  /\ answers # <<>>
  /\ io' = [io EXCEPT ![t] = [cb |-> 1, hr |-> "ok", whose |-> "foreign"]]
  /\ Goto(t, "entry")
  /\ UNCHANGED <<rscVars, envVars, doneVars>>

\* rsc == NULL || m_pTx == NULL: not a tracked request, or after cleanup.
CompletionEntry(t) ==
  /\ pc[t] = "entry"
  /\ Goto(t, IF m_pTx = "null" THEN "idle" ELSE "claim")
  /\ UNCHANGED <<rscVars, envVars, doneVars, io>>

\* Fault: the completion is taken without looking at the state.
ClaimUnchecked(t) ==
  /\ pc[t] = "claim"
  /\ m_BodyReadState' = "IDLE"
  /\ Goto(t, "consume")
  /\ UNCHANGED <<envVars, doneVars, io, m_pTx, m_ReadBuf, m_Body, m_DeclaredBodyLength>>

\* InterlockedCompareExchange: READ_PENDING -> IDLE claims the completion,
\* any other state ignores it.
Claim(t) ==
  /\ pc[t] = "claim"
  /\ \/ /\ m_BodyReadState = "READ_PENDING"
        /\ m_BodyReadState' = "IDLE"
        /\ Goto(t, "consume")
     \/ /\ m_BodyReadState # "READ_PENDING"
        /\ Goto(t, "idle")
        /\ UNCHANGED m_BodyReadState
  /\ UNCHANGED <<envVars, doneVars, io, m_pTx, m_ReadBuf, m_Body, m_DeclaredBodyLength>>

\* IIS ends the request: CleanupStoredContext, after every notification.
CleanupStoredContext ==
  /\ answers # <<>>
  /\ m_pTx = "live"
  /\ \A t \in Threads : pc[t] = "idle"
  /\ m_pTx' = "null"
  /\ UNCHANGED <<envVars, doneVars, pc, io, m_BodyReadState, m_ReadBuf, m_Body,
                 m_DeclaredBodyLength>>

(***************************************************************************)
(* The specification.                                                      *)
(***************************************************************************)

\* What a thread of ours does by itself once it has been entered.
ThreadStep(t) ==
  \/ BeginBodyRead(t)
  \/ Publish(t) \/ IssueInline(t) \/ IssuePended(t) \/ ReturnPending(t) \/ InlineDone(t)
  \/ ConsumeBodyChunk(t) \/ ConsumeThrows(t)
  \/ RestoreBody(t) \/ RestoreAllocFails(t) \/ RestoreInsertFails(t)
  \/ Inspect(t) \/ InspectThrows(t)
  \/ VerdictBlocks(t) \/ VerdictAllows(t) \/ VerdictThrows(t)
  \/ CompletionEntry(t) \/ Claim(t)

Next ==
  \/ \E t \in Threads : ThreadStep(t) \/ DeliverOurs(t) \/ DeliverForeign(t)
  \/ CleanupStoredContext

Spec == Init /\ [][Next]_vars

\* A thread that runs our code is scheduled, and http.sys completes every
\* read it accepted (with bytes, EOF, or an error when the connection times out).
Fairness ==
  /\ \A t \in Threads : WF_vars(ThreadStep(t))
  /\ WF_vars(\E t \in Threads : DeliverOurs(t))

FairSpec == Spec /\ Fairness

(***************************************************************************)
(* Properties.                                                             *)
(***************************************************************************)

\* Thread t is inside the part of the handlers that works on the stored
\* context: it holds the request's body.
Holds(t) == pc[t] \in {"begin", "publish", "issue", "inline", "consume",
                       "restore", "inspect", "verdict"}

\* The ARR invariant (lines 48-55): at most one ReadEntityBody is in flight,
\* and while one is, or while one thread works on the body, no other thread
\* touches m_Body, m_ReadBuf or the transaction.
SingleReader ==
  /\ outstanding <= 1
  /\ outstanding = 1 => \A t \in Threads : ~Holds(t)
  /\ \A t, u \in Threads : Holds(t) /\ Holds(u) => t = u

\* The drained body is the entity from its first byte on: no chunk is lost,
\* repeated or taken from a buffer that another read is filling, however the
\* completions interleave with the returning calls.
BodyIsPrefix ==
  /\ m_Body = Bytes(0, Len(m_Body))
  /\ Len(m_Body) <= wire

\* IIS is told once, and only once, how RQ_BEGIN_REQUEST ended.
AnsweredOnce == Len(answers) <= 1

\* FinishBodyRead uses rsc->m_pTx without a check: it is live there.
TransactionLive ==
  \A t \in Threads : pc[t] \in {"restore", "inspect", "verdict"} => m_pTx = "live"

\* The accumulator never outgrows the cap by a whole chunk (lines 837-843).
BufferBounded == Len(m_Body) < GetMaxInspectBodyBytes + ChunkSize

Continued == answers = <<"continue">>

\* If the request goes on and its connection did not fail, the handler reads
\* the whole entity: what was re-inserted followed by what was left unread.
ForwardedIntact ==
  Continued /\ broken = "no"
    => SubSeq(m_Body, 1, inserted) \o Bytes(wire, req.entity) = Bytes(0, req.entity)

\* A request goes on only after the engine has allowed it, having been given
\* every byte of the entity up to the inspection cap.
ForwardedInspected ==
  Continued =>
    /\ engine = "allow"
    /\ inspected = Bytes(0, Lesser(GetMaxInspectBodyBytes,
                                  IF broken = "no" THEN req.entity ELSE wire))

\* What the body phase promises (module BodyPhase), whatever threads run it
\* and however the reads complete: the entity is taken from its start, the
\* engine rules on the end or the cap, IIS is answered once and nothing moves
\* afterwards.
Phase == INSTANCE BodyPhase WITH
  Cap    <- GetMaxInspectBodyBytes,
  end    <- IF broken = "yes" THEN wire ELSE req.entity,
  taken  <- Len(m_Body),
  given  <- Len(inspected),
  ruling <- engine,
  answer <- answers

ImplementsBodyPhase == Phase!Spec

\* No stall: the pended notification is always answered.
EventuallyAnswered == <>(answers # <<>>)

\* "Detection is fail-open past the cap BY DESIGN ... but it must not be
\* silent" (lines 846-848): a request that goes on with bytes the engine was
\* not given has been reported.
CapNotSilent ==
  Continued /\ broken = "no" /\ Len(inspected) < req.entity => capLogged = "yes"
=============================================================================
