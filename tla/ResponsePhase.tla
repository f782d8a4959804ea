--------------------------- MODULE ResponsePhase ---------------------------
(***************************************************************************)
(* OnSendResponse (src/ModSecurityIIS.cpp) for ONE request: the response   *)
(* headers phase, the inspection of the entity chunks and the response     *)
(* body phase, in Mode A (may block) and Mode B (inspect only).            *)
(*                                                                         *)
(* IIS sends RQ_SEND_RESPONSE once per flush of the handler, one at a      *)
(* time; what arrives in which notification is the handler's choice.  The  *)
(* steps of one notification are the places where the code may throw.      *)
(*                                                                         *)
(* A response is counted in bytes; what the engine thinks of it is a free  *)
(* choice.  site.engine is what getRuleEngineState() says once phase 3 has *)
(* run (a ctl:ruleEngine action included): the code does not ask before    *)
(* that, nor after phase 4.  FINISH_REQUEST ends the request for this      *)
(* module.                                                                 *)
(***************************************************************************)
EXTENDS Integers, Sequences, FiniteSets

CONSTANTS
  Cap,         \* GetMaxInspectBodyBytes
  MaxLen,      \* bound: bytes in one entity chunk
  MaxChunks,   \* bound: entity chunks in one notification
  MaxSends     \* bound: notifications

ASSUME CapAssumption == Cap \in Nat \ {0}
ASSUME MaxLenAssumption == MaxLen \in Nat \ {0}
ASSUME MaxChunksAssumption == MaxChunks \in Nat
ASSUME MaxSendsAssumption == MaxSends \in Nat

VARIABLES
  site,        \* <responseBodyBlock>, SecResponseBodyAccess, SecRuleEngine,
               \* and whether the response has a Content-Length; constant
  m_pTx,       \* "live", or "null" once FinishRequest has run
  m_ResponseHeadersFed,
  m_ResponseBodyBlock,
  m_ResponseBodyEvaluated,
  pc,          \* "iis", "headers", "body", "phase4", "ended"
  note,        \* the notification being handled
  c,           \* entity chunks of it already looked at
  respInspected,
  sends,       \* notifications so far
  over,        \* the handler has sent its last body bytes
  buffered,    \* bytes appended to the engine's response body
  phase3,      \* completed runs of processResponseHeaders
  phase4,      \* started runs of processResponseBody
  evaluated,   \* how many bytes the last of them saw
  pinned,      \* Content-Length the module has set; -1: none
  out,         \* body bytes that have left the worker
  undecided,   \* history: those of them that left in a notification which ended
               \* before the choice between the modes (line 1558)
  blockedAt,   \* value of out when the response was replaced; -1: it was not
  odd          \* history: what went wrong or could not be inspected

rscVars    == <<m_pTx, m_ResponseHeadersFed, m_ResponseBodyBlock, m_ResponseBodyEvaluated>>
noteVars   == <<note, c, respInspected>>
iisVars    == <<site, sends, over, out, undecided, blockedAt>>
engineVars == <<buffered, phase3, phase4, evaluated, pinned>>
vars       == <<rscVars, noteVars, iisVars, engineVars, pc, odd>>

Lesser(a, b) == IF a <= b THEN a ELSE b

\* An entity chunk: len bytes really go to the client.  A file range may be
\* given as "to the end of the file".
Chunk ==
  [kind : {"memory"}, len : 0..MaxLen, toEof : {FALSE}]
    \cup [kind : {"other"}, len : 1..MaxLen, toEof : {FALSE}]
    \cup [kind : {"file"}, len : 1..MaxLen, toEof : BOOLEAN]

Chunks == UNION {[1..n -> Chunk] : n \in 0..MaxChunks}

Note == [raw : BOOLEAN, chunks : Chunks, moreData : BOOLEAN, headersBeingSent : BOOLEAN]

NoNote == [raw |-> TRUE, chunks |-> <<>>, moreData |-> FALSE, headersBeingSent |-> FALSE]

\* How many bytes a sequence of entity chunks carries.
Size(chunks) ==
  LET upTo[n \in 0..Len(chunks)] == IF n = 0 THEN 0 ELSE upTo[n - 1] + chunks[n].len
  IN  upTo[Len(chunks)]

TypeOK ==
  /\ site \in [block : BOOLEAN, access : BOOLEAN, engine : {"On", "DetectionOnly"},
               hasLength : BOOLEAN]
  /\ m_pTx \in {"live", "null"}
  /\ m_ResponseHeadersFed \in BOOLEAN
  /\ m_ResponseBodyBlock \in BOOLEAN
  /\ m_ResponseBodyEvaluated \in BOOLEAN
  /\ pc \in {"iis", "headers", "body", "phase4", "ended"}
  /\ note \in Note
  /\ c \in 0..Len(note.chunks)
  /\ respInspected \in 0..Cap
  /\ sends \in 0..MaxSends
  /\ over \in BOOLEAN
  /\ buffered \in Nat /\ phase3 \in Nat /\ phase4 \in Nat /\ evaluated \in Nat
  /\ pinned \in Nat \cup {-1}
  /\ out \in Nat /\ undecided \in Nat
  /\ blockedAt \in Nat \cup {-1}
  /\ odd \subseteq {"rawMissing", "threw", "misread", "skipped", "earlyPhase4"}

Init ==
  /\ site \in [block : BOOLEAN, access : BOOLEAN, engine : {"On", "DetectionOnly"},
               hasLength : BOOLEAN]
  /\ m_pTx \in {"live", "null"}      \* null: a request phase has blocked
  /\ m_ResponseHeadersFed = FALSE
  /\ m_ResponseBodyBlock = site.block
  /\ m_ResponseBodyEvaluated = FALSE
  /\ pc = "iis"
  /\ note = NoNote /\ c = 0 /\ respInspected = 0
  /\ sends = 0 /\ over = FALSE
  /\ buffered = 0 /\ phase3 = 0 /\ phase4 = 0 /\ evaluated = 0
  /\ pinned = -1
  /\ out = 0 /\ undecided = 0
  /\ blockedAt = -1
  /\ odd = {}

(***************************************************************************)
(* Helpers.                                                                *)
(***************************************************************************)

\* responseBodyBlockingEnabled
responseBodyBlockingEnabled ==
  /\ m_pTx = "live"
  /\ m_ResponseBodyBlock
  /\ site.access
  /\ site.engine = "On"

\* RQ_NOTIFICATION_CONTINUE: IIS sends the chunks of the notification.
Continue(bytes) ==
  /\ pc' = "iis"
  /\ note' = NoNote /\ c' = 0 /\ respInspected' = 0
  /\ out' = out + bytes
  /\ over' = (over \/ (~note.moreData /\ note.chunks # <<>>))
  /\ UNCHANGED <<site, sends>>

\* RQ_NOTIFICATION_FINISH_REQUEST: nothing of the notification is sent.
Finish ==
  /\ pc' = "ended"
  /\ note' = NoNote /\ c' = 0 /\ respInspected' = 0
  /\ UNCHANGED <<site, sends, over, out>>

\* ApplyIntervention blocks: Clear, SetStatus or Redirect, FinishRequest.
Block ==
  /\ m_pTx' = "null"
  /\ blockedAt' = out
  /\ Finish

(***************************************************************************)
(* The handler of one notification.                                        *)
(***************************************************************************)

\* IIS notifies; the handler leaves at once when the request is not tracked
\* any more or there is no raw response.
OnSendResponse(n) ==
  /\ pc = "iis"
  /\ ~over
  /\ sends < MaxSends
  /\ n.headersBeingSent = (sends = 0)
  /\ sends' = sends + 1
  /\ IF m_pTx = "null" \/ ~n.raw
     THEN /\ out' = out + Size(n.chunks)
          /\ over' = (~n.moreData /\ n.chunks # <<>>)
          /\ odd' = IF n.raw THEN odd ELSE odd \cup {"rawMissing"}
          /\ undecided' = IF n.raw THEN undecided ELSE undecided + Size(n.chunks)
          /\ UNCHANGED <<pc, noteVars>>
     ELSE /\ note' = n
          /\ pc' = IF m_ResponseHeadersFed THEN "body" ELSE "headers"
          /\ UNCHANGED <<c, respInspected, out, undecided, over, odd>>
  /\ UNCHANGED <<rscVars, engineVars, site, blockedAt>>

\* Fault: m_ResponseHeadersFed is not set.
FeedHeadersForgotten ==
  /\ pc = "headers"
  /\ phase3' = phase3 + 1
  /\ \/ /\ responseBodyBlockingEnabled
        /\ Block
        /\ UNCHANGED <<m_ResponseHeadersFed, m_ResponseBodyBlock, m_ResponseBodyEvaluated,
                       undecided>>
     \/ /\ pc' = "body"
        /\ UNCHANGED <<rscVars, noteVars, iisVars>>
  /\ UNCHANGED <<buffered, phase4, evaluated, pinned, odd>>

\* The headers are fed and phase 3 runs; its intervention blocks only when
\* response blocking is enabled, and is dropped otherwise.
FeedHeaders ==
  /\ pc = "headers"
  /\ phase3' = phase3 + 1
  /\ \/ /\ responseBodyBlockingEnabled
        /\ Block
        /\ UNCHANGED <<m_ResponseHeadersFed, m_ResponseBodyBlock, m_ResponseBodyEvaluated,
                       undecided>>
     \/ /\ pc' = "body"
        /\ m_ResponseHeadersFed' = TRUE
        /\ UNCHANGED <<m_pTx, m_ResponseBodyBlock, m_ResponseBodyEvaluated, noteVars, iisVars>>
  /\ UNCHANGED <<buffered, phase4, evaluated, pinned, odd>>

\* Fault: the cap is not applied to a file range that has a length.
AllowanceUncapped(k) ==
  IF k.kind = "other" THEN 0
  ELSE IF k.toEof THEN Cap - respInspected
  ELSE k.len

\* How many bytes of chunk k the code hands to the engine at most.
Allowance(k) ==
  IF k.kind = "other" THEN 0
  ELSE IF k.toEof \/ respInspected + k.len > Cap THEN Cap - respInspected
  ELSE k.len

\* One pass of the loop over pEntityChunks.  A memory chunk is appended up to
\* the cap; of a file range any part within the allowance, as module FileChunk
\* shows (it stops at a failed call, and reads elsewhere when the position of
\* the file is moved); other kinds are skipped.
InspectChunk ==
  /\ pc = "body"
  /\ c < Len(note.chunks)
  /\ LET k    == note.chunks[c + 1]
         most == Lesser(Allowance(k), k.len)
     IN \E n \in IF k.kind = "file" THEN 0..Allowance(k) ELSE {most} :
          /\ respInspected' = respInspected + n
          /\ buffered' = buffered + n
          /\ odd' = odd \cup (IF n # most THEN {"misread"} ELSE {})
                        \cup (IF k.kind = "other" THEN {"skipped"} ELSE {})
  /\ c' = c + 1
  /\ UNCHANGED <<rscVars, iisVars, note, pc, phase3, phase4, evaluated, pinned>>

ChunksDone ==
  /\ pc = "body"
  /\ c = Len(note.chunks)
  /\ pc' = "phase4"
  /\ UNCHANGED <<rscVars, noteVars, iisVars, engineVars, odd>>

\* Fault: a streaming notification leaves the request in Mode A.
DegradeForgotten ==
  /\ pc = "phase4"
  /\ responseBodyBlockingEnabled
  /\ ~m_ResponseBodyEvaluated
  /\ note.moreData
  /\ Continue(Size(note.chunks))
  /\ UNCHANGED <<rscVars, engineVars, undecided, blockedAt, odd>>

\* Mode A on a streaming notification: degrade to Mode B for good.
Degrade ==
  /\ pc = "phase4"
  /\ responseBodyBlockingEnabled
  /\ ~m_ResponseBodyEvaluated
  /\ note.moreData
  /\ m_ResponseBodyBlock' = FALSE
  /\ Continue(Size(note.chunks))
  /\ UNCHANGED <<m_pTx, m_ResponseHeadersFed, m_ResponseBodyEvaluated, engineVars,
                 undecided, blockedAt, odd>>

\* Fault: the length is pinned also when the cap has cut the inspection.
PinLengthAtCap ==
  IF respInspected > 0 /\ note.headersBeingSent /\ ~site.hasLength /\ pinned = -1
  THEN respInspected ELSE pinned

\* The Content-Length that Mode A pins before it evaluates.
PinLength ==
  IF /\ respInspected > 0
     /\ respInspected < Cap
     /\ note.headersBeingSent
     /\ ~site.hasLength
     /\ pinned = -1
  THEN respInspected ELSE pinned

\* processResponseBody sees what has been appended so far.
RunPhase4 ==
  /\ m_ResponseBodyEvaluated' = TRUE
  /\ phase4' = phase4 + 1
  /\ evaluated' = buffered
  /\ UNCHANGED <<m_ResponseHeadersFed, m_ResponseBodyBlock, buffered, phase3>>

\* A headers-only notification uses up the evaluation.
Early == IF note.chunks = <<>> THEN {"earlyPhase4"} ELSE {}

\* Mode A, final notification: evaluate, and block or let it go.
EvaluateModeA ==
  /\ pc = "phase4"
  /\ responseBodyBlockingEnabled
  /\ ~m_ResponseBodyEvaluated
  /\ ~note.moreData
  /\ pinned' = PinLength
  /\ RunPhase4
  /\ odd' = odd \cup Early
  /\ \/ Block
     \/ Continue(Size(note.chunks)) /\ UNCHANGED <<m_pTx, blockedAt>>
  /\ UNCHANGED undecided

\* Fault: Mode B evaluates while the response is still streaming.
EvaluateModeBEarly ==
  /\ pc = "phase4"
  /\ ~responseBodyBlockingEnabled
  /\ ~m_ResponseBodyEvaluated
  /\ RunPhase4
  /\ odd' = odd \cup Early
  /\ Continue(Size(note.chunks))
  /\ UNCHANGED <<m_pTx, undecided, blockedAt, pinned>>

\* Mode B, final notification: evaluate, never block.
EvaluateModeB ==
  /\ pc = "phase4"
  /\ ~responseBodyBlockingEnabled
  /\ ~m_ResponseBodyEvaluated
  /\ ~note.moreData
  /\ RunPhase4
  /\ odd' = odd \cup Early
  /\ Continue(Size(note.chunks))
  /\ UNCHANGED <<m_pTx, undecided, blockedAt, pinned>>

\* Nothing to evaluate: Mode B while streaming, or phase 4 has run before.
PassOn ==
  /\ pc = "phase4"
  /\ \/ m_ResponseBodyEvaluated
     \/ ~responseBodyBlockingEnabled /\ note.moreData
  /\ Continue(Size(note.chunks))
  /\ UNCHANGED <<rscVars, engineVars, undecided, blockedAt, odd>>

(***************************************************************************)
(* Exceptions.                                                             *)
(***************************************************************************)

\* Fault: an exception always lets the response go.
PolicyAlwaysContinue == Continue(Size(note.chunks))

\* SendResponseExceptionPolicy: stop with 500 if the response phases have not
\* begun, otherwise the bytes cannot be recalled and go on.
SendResponseExceptionPolicy ==
  IF m_pTx = "live" /\ ~m_ResponseHeadersFed /\ ~m_ResponseBodyEvaluated
  THEN Finish
  ELSE Continue(Size(note.chunks))

\* Feeding the headers, phase 3 or its intervention throws.
HeadersThrow ==
  /\ pc = "headers"
  /\ phase3' \in {phase3, phase3 + 1}
  /\ odd' = odd \cup {"threw"}
  /\ SendResponseExceptionPolicy
  /\ UNCHANGED <<rscVars, undecided, blockedAt, buffered, phase4, evaluated, pinned>>

\* appendResponseBody, called only for a chunk with an allowance, throws;
\* earlier blocks of a file range stay appended.
AppendThrows ==
  /\ pc = "body"
  /\ c < Len(note.chunks)
  /\ LET k == note.chunks[c + 1]
     IN  /\ Allowance(k) > 0
         /\ \E n \in IF k.kind = "file" THEN 0..Allowance(k) - 1 ELSE {0} :
              buffered' = buffered + n
  /\ undecided' = undecided + Size(note.chunks)
  /\ odd' = odd \cup {"threw"}
  /\ SendResponseExceptionPolicy
  /\ UNCHANGED <<rscVars, blockedAt, phase3, phase4, evaluated, pinned>>

\* Fault: phase 4 is marked as evaluated only after processResponseBody.
EvaluateThrowsUnmarked ==
  /\ pc = "phase4"
  /\ ~m_ResponseBodyEvaluated
  /\ ~note.moreData
  /\ phase4' = phase4 + 1
  /\ pinned' = IF responseBodyBlockingEnabled THEN PinLength ELSE pinned
  /\ odd' = odd \cup {"threw"}
  /\ Continue(Size(note.chunks))
  /\ UNCHANGED <<rscVars, undecided, blockedAt, buffered, phase3, evaluated>>

\* processResponseBody or ApplyIntervention throws: phase 4 counts as
\* evaluated, and the response goes on, emptied if ApplyIntervention had
\* already cleared it.
EvaluateThrows ==
  /\ pc = "phase4"
  /\ ~m_ResponseBodyEvaluated
  /\ ~note.moreData
  /\ m_ResponseBodyEvaluated' = TRUE
  /\ phase4' = phase4 + 1
  /\ pinned' = IF responseBodyBlockingEnabled THEN PinLength ELSE pinned
  /\ odd' = odd \cup {"threw"}
  /\ \/ Continue(Size(note.chunks))
     \/ responseBodyBlockingEnabled /\ Continue(0)
  /\ UNCHANGED <<m_pTx, m_ResponseHeadersFed, m_ResponseBodyBlock, undecided,
                 blockedAt, buffered, phase3, evaluated>>

\* IIS ends the request: OnPostEndRequest does nothing, CleanupStoredContext
\* runs FinishRequest.
EndRequest ==
  /\ pc = "iis"
  /\ pc' = "ended"
  /\ m_pTx' = "null"
  /\ UNCHANGED <<m_ResponseHeadersFed, m_ResponseBodyBlock, m_ResponseBodyEvaluated,
                 noteVars, iisVars, engineVars, odd>>

Next ==
  \/ \E n \in Note : OnSendResponse(n)
  \/ FeedHeaders \/ InspectChunk \/ ChunksDone
  \/ Degrade \/ EvaluateModeA \/ EvaluateModeB \/ PassOn
  \/ HeadersThrow \/ AppendThrows \/ EvaluateThrows
  \/ EndRequest

Spec == Init /\ [][Next]_vars

(***************************************************************************)
(* Properties.                                                             *)
(***************************************************************************)

\* However many flushes a response takes, phase 3 completes at most once and
\* phase 4 starts at most once, and never before phase 3.
PhasesOnce == phase3 <= 1 /\ phase4 <= phase3

\* When a response is replaced, no byte of it has left, but those of
\* notifications that never came to the choice between the modes: they had no
\* raw response (1415) or an append failed.  A streaming notification
\* that does come there is never followed by a replacement.
NeverBlocksLate == blockedAt >= 0 => blockedAt = undecided

\* When the handler has sent its last byte and nothing odd has happened,
\* phase 4 has been evaluated on everything the engine was given.
EvaluationCoversBody ==
  over /\ m_pTx = "live" /\ odd \cap {"threw", "rawMissing", "earlyPhase4"} = {}
    => phase4 = 1 /\ evaluated = buffered

\* As long as a response can still be blocked, Mode A has let no byte go: what
\* has left are the notifications that never came to the choice between the
\* modes.  An evaluation that fails ends Mode A with the bytes it lets go.
ModeAHoldsBytes ==
  responseBodyBlockingEnabled /\ ~m_ResponseBodyEvaluated => out = undecided

\* A response whose inspection failed before it had begun does not leave.
FailedStartStops ==
  out > 0 /\ "rawMissing" \notin odd => phase3 > 0 \/ m_pTx = "null"

\* The Content-Length the module sets is the length of the body, if every
\* chunk could be inspected.
PinnedLengthExact ==
  pinned >= 0 /\ over /\ blockedAt = -1 /\ odd = {} => pinned = out

\* "buffer the full body and evaluate phase-4 synchronously, blocking before
\* any byte leaves the worker" (lines 1504-1505).
BlocksBeforeAnyByteLeaves == "rawMissing" \notin odd => blockedAt <= 0

\* The same comment: in Mode A a body that leaves has been evaluated.
ModeAEvaluatesFullBody ==
  responseBodyBlockingEnabled /\ over /\ odd \cap {"threw", "rawMissing"} = {}
    => evaluated = buffered

\* "Upper bound (bytes) of request/response body we allow the engine to buffer
\* for inspection" (lines 188-189), of a response that met nothing unusual.
EngineBufferCapped == odd = {} => buffered <= Cap
=============================================================================
