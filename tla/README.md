# ModSecurityIIS: TLA+ models, model checking and proofs

ModSecurityIIS is a native IIS module that feeds every HTTP request and
response of a site to libModSecurity (a separate library) and blocks the ones
the rules reject. This directory models the parts of `src/` where the order of
steps matters: threads and completions of IIS, a process-wide cache, streamed
responses, and failures in the middle of a phase. TLC checks the models on
small instances; TLAPS proves the central invariants for every value of the
constants.

Line numbers below are those of `src/ModSecurityIIS.cpp` unless another file is
named.

## 1. The system

### Components

| Component | State | Operations | Model |
|---|---|---|---|
| Request start (`OnBeginRequest`) | the request's stored context | configuration, rules, transaction, phases 0 and 1, fail-open and fail-closed exits | `RequestLifecycle` |
| Module configuration (`moduleconfig.cpp`) | one stored context per metadata object of IIS | `GetConfig`, `Initialize`, getters, `CleanupStoredContext` | `ModuleConfig`, composed in `RequestLifecycle` |
| Stored context lifetime (`REQUEST_STORED_CONTEXT`) | `m_pTx` and what becomes of the transaction | `FinishRequest`, `CleanupStoredContext`, destructor | `RequestLifecycle`; end of transaction in `BodyRead`, `ResponsePhase` |
| Intervention (`ApplyIntervention`) | none of its own | consume the verdict, replace the response, tell the engine the status, `FinishRequest` | `RequestLifecycle`; by outcome in `BodyRead`, `ResponsePhase` |
| Request body state machine (`BeginBodyRead`, `PumpBodyRead`, `ConsumeBodyChunk`, `FinishBodyRead`, `OnAsyncCompletion`) | `m_BodyReadState`, `m_ReadBuf`, `m_Body`, `m_DeclaredBodyLength`, `m_pTx` | drain the entity, give it back to IIS, run phase 2, answer `RQ_BEGIN_REQUEST` | `BodyRead`, `BodyPhase` |
| Response phases (`OnSendResponse`) | `m_ResponseHeadersFed`, `m_ResponseBodyBlock`, `m_ResponseBodyEvaluated` | feed headers and chunks, phases 3 and 4, block or let go | `ResponsePhase` |
| File chunk reader (`AppendResponseFileChunk`) | a duplicated handle, the position of the file object | duplicate, seek, read and append, close | `FileChunk` |
| Rules cache (`iis::getRules`, `connector.cpp`) | `g_rulesCache` under `g_rulesMutex` | look up, parse, keep last good, publish | `RulesCache`, `RulesStore` |
| Module factory, engine singleton (`RegisterModule`, `mymodulefactory.h`, `iis::engine`) | `m_pModule`, `g_engine`, the event source, their locks | register, `GetHttpModule`, `Dispose`, `Terminate` | `ModuleFactory`, composed in `Worker` |
| Server log throttle (`ServerLogCallback`) | window start and counter under `g_logThrottleMutex` | admit or drop a line, write it | `LogThrottle`, composed in `Worker` |
| Conversions (`WToUtf8`, `SockAddrToIp`, ...), trace, reason phrases | none | pure, text only | not modelled (section 5) |

### Interactions

IIS calls `OnBeginRequest`, which asks the configuration and the rules cache,
creates the transaction, runs phase 1 and calls `BeginBodyRead`. A body read
may pend; IIS then calls `OnAsyncCompletion` on another thread, perhaps before
`PumpBodyRead` has returned on the first. The same callback also receives
completions of other modules' operations. Whoever finishes the body runs phase
2 and answers the pending notification. The handler's flushes call
`OnSendResponse`, one notification after the other. At the end IIS calls
`CleanupStoredContext`. All requests share the rules cache, the engine, the
factory and the log throttle.

### What is hard here

* the hand-over of the body between threads by one interlocked variable;
* foreign, late and repeated completions;
* giving a drained body back to IIS, when that fails, and when the inspection
  cap has left part of it unread;
* first requests that race to parse the same rules file, and a file that is
  edited, broken or removed while requests run;
* responses that are streamed: headers once, evaluation once, no block after
  bytes have left;
* first requests that race to create a site's configuration object while the
  administrator changes the configuration;
* several responses that read the same cached file object;
* a factory, a module and an event source with different owners, and log lines
  that are written outside every lock;
* an exception at any step, which must not let an uninspected request through,
  end a transaction twice or keep a lock.

`PROJECT.json` lists these at their lines under `hazards`, with the properties
that would catch them.

## 2. Modules

### `BodyRead` (the core)

One request, any number of IIS threads. `pc[t]` says where thread `t` is in our
code, `io[t]` holds the `cb` and `hr` it carries. Each access to the stored
context that another thread can observe is one step:

| Action | Code |
|---|---|
| `BeginBodyRead` | 695-733, with `GetEntityBodyInfo` (641-693) and throwing allocations |
| `Publish` | 745-760: `BRS_READ_PENDING` before the read is issued |
| `IssueInline`, `IssuePended` | 761-772: `ReadEntityBody` completes inline or pends |
| `ReturnPending`, `InlineDone` | 774-794 |
| `ConsumeBodyChunk`, `ConsumeThrows` | 796-865: append, four stop conditions in order, the cap event |
| `RestoreBody`, `RestoreAllocFails`, `RestoreInsertFails` | 878-923 |
| `Inspect`, `InspectThrows` | 925-949: phase 2 on at most the cap |
| `VerdictBlocks`, `VerdictAllows`, `VerdictThrows` | 951-965, 481-564 |
| `CompletionEntry`, `Claim` | 1284-1343: the `m_pTx` check, then the compare-exchange |
| `DeliverOurs`, `DeliverForeign` | IIS |
| `CleanupStoredContext` | `ModSecurityIIS.h` 46-82 |

Bytes are their offsets in the entity, so that a lost, repeated or moved byte
shows. A DWORD has `DWordSize` values and a cast is `% DWordSize`. The engine's
verdict is a free choice. `RestoreBody` covers the empty body too (nothing to
restore). The two read modes (`MODSEC_IIS_BODY_ASYNC`) are initial
values of `req.mode`.

What is assumed of IIS, from how the code uses it: a read delivers the next
bytes of the entity, possibly fewer than asked; the last ones come with or
without an EOF status; a failing read may carry bytes; foreign completions come
only after `RQ_BEGIN_REQUEST` has been answered, because until then the
pipeline does not advance (48-55, 1274-1278); `CleanupStoredContext` runs when
no notification is running.

`BodyPhase` is the promise without threads: bytes are taken in order up to the
end or the cap, the engine rules on at most `Cap` of them, the notification is
answered once, with "continue" only on the engine's consent. `BodyRead` defines
the refinement mapping (`Phase`, `ImplementsBodyPhase`).

### `RulesCache`

`getRules` for any number of threads and files. The stat, the lookup under
the mutex, the parse without it, and the outcome under the mutex again are
steps of their own; `EditFile` (the operator) may come between any two. A
`RulesSet` has a serial number (object identity) and the version it was parsed
from. `served` and `call.protected` are history. `LoadThrows` is an exception
that leaves `getRules`.

`RulesStore` is the promise: one write-once cell per file.

### `ResponsePhase`

One request's `RQ_SEND_RESPONSE` notifications, one at a time. A notification
has any mixture of memory, file and other chunks, with or without `MORE_DATA`,
with or without a raw response. `FeedHeaders` (1424-1501), `InspectChunk` for
each chunk (1509-1553) with the cap arithmetic in `Allowance`, `Degrade` (1558-1565),
`EvaluateModeA` with `PinLength` (1566-1600), `EvaluateModeB` (1602-1618),
`PassOn`, and the exceptions `HeadersThrow`, `AppendThrows`, `EvaluateThrows`
with `SendResponseExceptionPolicy` (1362-1382). `AppendResponseFileChunk` is
modelled by the outcome `FileChunk` shows: any number of bytes up to the range,
perhaps not the ones that are sent (`"misread"` in `odd`). `odd` is history:
which unusual event the request has seen, so that a property can name its
proviso; `undecided` counts the bytes that left in notifications which ended before
the choice between the modes (1558), for want of a raw response or by a failed append.

Assumed of IIS: `FINISH_REQUEST` from the handler is final for this module, and
after a notification with body chunks and without `MORE_DATA` no further one
follows (a headers-only one may be followed by the body, see the comment at
1571-1575).

### `FileChunk`

`AppendResponseFileChunk` (374-425), one call per response, on one file object.
Bytes are file offsets.

| State | Code | Action | Code |
|---|---|---|---|
| `position` | position of the file object behind both handles | `Call` | the call at 1539-1545 |
| `handles` | `hDup` of each call | `Duplicate` | 383-389 |
| `ask`, `length` | the byte range, `length` | `Seek` | 391-394 |
| `appended` | what `appendResponseBody` was given | `Read`, `ReadEnds`, `RangeCovered` | 405-421 |
| `result`, `threw` | the value returned, or an exception | `AppendThrows`, `Close` | 418; 422-425 |

Assumed of Windows: `DuplicateHandle` makes a handle to the same file object,
and for synchronous reads the position belongs to the object. `mixed` is history:
calls that overlapped another one.

### `ModuleFactory`, `LogThrottle` and their composition `Worker`

`ModuleFactory` follows a worker process from `RegisterModule` (1681-1735: the
factory in a `unique_ptr`, handed to IIS by `SetRequestNotifications`, two
priorities that may fail afterwards) through `GetHttpModule`
(`mymodulefactory.h` 20-57: critical section, creation by the first request,
the pointer fetched after the section is left) to `Dispose` (which does nothing)
and `Terminate`. The constructor opens the event source and publishes its handle
before it asks `iis::engine()`, whose first call may throw; the exception leaves
`GetHttpModule` with the critical section held and takes the process down
(295-300). Objects are numbered; 0 is NULL.

`LogThrottle` is the decision of `ServerLogCallback` (`connector.cpp` 59-87),
one step under `g_logThrottleMutex`, against a clock that runs freely. `logged`
and `dropped` are history. `Worker` instantiates both over one set of variables:
a thread in a handler may call the log callback, and writes the admitted line in
a later step, to the handle the constructor has published. Assumed of IIS:
`Terminate` comes when no request is left.

### `ModuleConfig` and its composition `RequestLifecycle`

`ModuleConfig` is `GetConfig` (`moduleconfig.cpp` 236-300) as any number of
requests run it at the same time: `Lookup`, `Initialize` (16-218, by what
reading each of the three properties comes to), and `SetModuleContext`, which
succeeds (`StoreWins`), finds another request's object (`StoreLoses`) or fails
(`StoreFails`). Assumed of IIS: requests that come after a change of configuration get a fresh
metadata object; an old one is released with its stored context when no request holds it (`Release`);
configuration is read as it stands at the time, so a request may meet
newer settings than its metadata object. A property that is missing from the
schema is read into a VARIANT nobody has initialised (168); `VariantClear` of it is
undefined and may or may not take the worker down, and the model has both
outcomes.

`RequestLifecycle` takes several requests from `RQ_BEGIN_REQUEST` to the release
of their contexts:

| Action | Code |
|---|---|
| `OnBeginRequest`, `GetConfig`, `ConfigFailed`, `UseConfig` | 972-1038, `FailPolicy` 225-238 |
| `GetRules` | 1040-1067, by the promise `RulesStore` that `RulesCacheProofs` proves of `getRules` |
| `CreateFails`, `CreateContext`, `StoreContextFails` | 1069-1108 |
| `RawRequestMissing`, `RequestHeaders` | 1110-1229 |
| `RequestBody` | 1231-1236, by the promise `BodyPhase` that `BodyOutcomeProofs` proves of the body machine |
| `OnSendResponse` | 1392-1407 and the outcomes of `ResponsePhase` |
| `Handler`, `EndRequest` | IIS; `CleanupStoredContext`, `OnPostEndRequest` 1646-1659 |

`contexts[r]` has one record for every `REQUEST_STORED_CONTEXT` made for the
request, orphans included, with how often its transaction was logged and
deleted. Statuses go through `WireStatus` and `FinalStatus` (524-559). Assumed of
IIS: after `FINISH_REQUEST` the handler is skipped and the response is sent as it
is; `RQ_BEGIN_REQUEST` comes again only for a request that was let
through ("already being handled", 1097-1104). `OnPostEndRequest` calls nothing
today; the comment at `ModSecurityIIS.h` 52-53 that says it calls
`FinishRequest` is out of date.

### `MC*` modules and faults

`MCBodyRead`, `MCRulesCache`, `MCResponsePhase`, `MCFileChunk`, `MCWorker` and
`MCRequestLifecycle` are the modules TLC runs.
Definitions introduced by a comment `Fault:` are not part of any
specification: each is a plausible bug for the definition it stands before, and
shows that the property named with it in `PROJECT.json` (`mutants`) notices it.

## 3. Runs

| Run | Instance | Shows |
|---|---|---|
| `body_reads` | both read modes, 3 threads, entity up to 5, chunk 2, cap 3, DWORD of 5 values | one reader, one answer, live transaction, body is a prefix, buffer below cap + chunk, forwarded requests intact and inspected up to the cap, refinement of `BodyPhase`, no stall |
| `lifecycle` | 2 requests of one site, one change of settings, 2 configuration objects, 2 notifications each | settings are never used after their release and never lost, the handler sees only inspected requests (or a listed bypass), every transaction is logged and deleted once, the audit log shows the status the module set |
| `rules_cache` | 2 threads, 1 file, 2 edits, 3 parses | one `RulesSet` per file, never a loss of protection, refinement of `RulesStore` |
| `response_flushes` | 2 notifications of up to 2 chunks of up to 2 bytes, cap 3 | phases run once and in order; while a response can still be blocked, and when it is, no byte has left but those of notifications that failed or had no raw response before the choice of the mode (`undecided`); the evaluation covers the body, a failed start stops the response, cap arithmetic and pinned length |
| `file_chunk` | 2 calls on a file of 4 bytes, ranges up to 3 from offset 0 to 2, buffer 2 | what is returned is what was appended, a call that runs alone reads its range, handles are closed, the loop ends |
| `worker` | 2 threads, 2 module objects, 2 lines per second of 2 ticks, 5 ticks | one live module for all requests, one deletion of the factory, no lock kept, admitted lines find their event source open, at most twice the limit in any second, nothing dropped before the limit is used up |

Six runs whose expected result is a violation record disagreements between
the code and its own comments (`findings` in `PROJECT.json`):

| Run | The text | The code |
|---|---|---|
| `body_silent_cap` | past the cap "it must not be silent" (846-848) | a body that overshoots the cap in its last read is not reported |
| `rules_mtime` | "Cache is invalidated when the file's mtime changes" (`connector.h` 18-19) | the parsed file is discarded for the stale entry, on every request; `README.md` 131 describes what the code does |
| `response_late_block` | "blocking before any byte leaves the worker" (1504-1505) | an exception in a streaming notification skips the degradation |
| `response_cap` | "Upper bound (bytes) of request/response body we allow the engine to buffer" (188-189) | `respInspected` (1510) starts anew in every notification; two flushes together exceed the cap |
| `response_headers_only` | "buffer the full body and evaluate phase-4" (1504-1505) | a headers-only notification uses up the evaluation |
| `file_position` | "a duplicated handle with its own file position" (368-371) | the duplicate shares the position; two responses move each other's |

Smaller observations that the models carry and no run singles out:

* the casts to DWORD "can never truncate" (214-215) only while cap + chunk fits a
  DWORD: the cap is checked after the append, so with a cap set within a chunk of
  4 GiB `m_Body` may pass it. `ForwardedIntact` is checked at the largest cap that
  is safe (cap 3 and chunk 2 against a DWORD of 5 values; with 4 values it fails),
  and `ForwardedWhole` proves it under that condition;
* "both paths end the request the same way" (875) does not hold of the two restore
  failures: after a failed allocation the engine rules and the answer is 500 (961),
  a failed `InsertEntityBody` ends the request without verdict and status (906);
* `ModSecurity.xml` 13-15 says `responseBodyBlock` is "independent of SecRuleEngine /
  SecResponseBodyAccess"; `responseBodyBlockingEnabled` (566-585) asks for both, so
  nothing is ever blocked with either off;
* a notification without a raw response (1415) leaves before the choice of the
  mode, like one in which an append fails, and its bytes may be followed by a block;
* a transaction whose stored context cannot be allocated is deleted at 1083 without
  `processLogging`; `CreateFails` has this exit, but `TransactionsEndOnce` speaks of
  transactions that have a context;
* `wire` is the status the module sets. After a late block (`response_late_block`)
  the client may have received another one before;
* with a chunk that is skipped (1547-1552) or a file range that could not be read
  in full, the Content-Length that is set counts only the inspected bytes, hence
  the proviso of `PinnedLengthExact`;
* `appendResponseBody` throwing leaves the duplicated handle open (418), hence
  the exception in `HandlesClosed`; `processLogging` throwing leaves a
  transaction that is not deleted (`ModSecurityIIS.h` 66), hence the one in
  `TransactionsEndOnce`;
* the module is created by a `new (std::nothrow)` whose constructor can still
  throw (`mymodulefactory.h` 39, 597-599): the process ends, which is why
  `LockReleased` may also end in `worker = "down"`.

### Why the bounds are enough

The body machine treats chunks alike, so what matters is the position of the
end and of the cap relative to a chunk boundary. With chunk 2, cap 3 and
entities of 0 to 5 bytes there are bodies below, at and above the cap, a cap that
falls inside a chunk, short reads, and two passes of the loop before the
cap. A DWORD of 5 values holds the longest body the cap allows (4 bytes) and not one
byte more, so an overshoot would be truncated. Three threads are an issuing call that
has not yet returned, the claimant of its
completion, and a stranger; at most two can be inside before the answer,
which `OneReader` proves for any number. In the cache a third parse or edit
only repeats what the second does: the entry is written once. Two notifications
are enough for every ordering of headers-only, streaming and final. Two chunks
let the second one meet a partly used cap.

Two calls on a file are enough to disturb each other between seek and read; a
range of 3 with a buffer of 2 takes two reads, ranges may start or end behind the
end of the file (offset 2, length 3, size 4). Two threads race in
`GetHttpModule`; a second module object would be made if the first were missed.
Five ticks are two windows and part of a third, enough for a second that
touches two windows. In the life cycle two requests race for one
configuration object, one change gives an old and a new metadata object, two
objects are the winner's and the loser's; a request that cannot allocate a third takes the path of failed
allocation. The second notification meets a request that
already has a context. Status -1 is "no status", 307 a status that a redirect
keeps.

The bounds are `MaxEntity`, `MaxEdits`, `MaxLoads`, `MaxLen`, `MaxChunks`,
`MaxSends`, `MaxStart`, `MaxLength`, `MaxObjects`, `MaxTime`, `MaxMetas`,
`MaxConfigs` and `MaxNotify`; the code has none of them (`ChunkSize`, `BufSize`,
the caps and `kMaxLogsPerSecond` are its own).
`loads < MaxLoads` only stops further parses; a thread can always leave through
`LoadThrows`. Deadlock is checked for the body and the cache. A response, a file
chunk, a request and a worker process really end, so their runs do not check
deadlock. `rules_cache` and `lifecycle` use symmetry of threads and requests; both
check nothing that symmetry could hide (invariants, and a step-by-step refinement without
fairness).

### Fairness

`EventuallyAnswered` is checked under `BodyRead!FairSpec`: weak fairness of every
thread's own steps, since IIS threads are scheduled and the code waits for
nothing, and weak fairness of the delivery of our pended read, since http.sys
completes every read it has accepted, with bytes, EOF, or an error when the
connection times out. Nothing is assumed of foreign completions. Under weak
fairness of the delivery, EOF is reached because an entity is finite and a
successful read before the end carries at least one byte.

`EventuallyReturned` (`FileChunk`) and `LockReleased` (`Worker`) assume weak
fairness of the steps of a call that has begun, respectively of a thread inside
`GetHttpModule`: neither waits for anything but the critical section, and a thread
that has entered it waits for nothing. Nothing is assumed of requests that have not arrived, of the end of
a request, or of the clock.

## 4. Proofs

Every invariant and both refinements that the passing runs check are theorems of
the specifications, for every value of the constants: 36 of the 39 properties. The
remaining three are the liveness properties.

Few of the safety properties are inductive as they stand. Each proof module
states the strengthening (`IInv`, in `BodyOutcomeProofs` `OInv`, in `WorkerProofs`
`FactoryInv` and `ThrottleInv`) as a conjunction of named parts, shows that it
holds initially and that every action keeps every part, and derives the
properties. TLC has checked each strengthening too, as an invariant on the
constants of the component's run.

| Module | Theorems (property) | The argument |
|---|---|---|
| `BodyReadProofs` | `TypeCorrect` (`TypeOK`), `OneReader` (`SingleReader`), `OneAnswer` (`AnsweredOnce`), `LiveTransaction` (`TransactionLive`), `PrefixOfEntity` (`BodyIsPrefix`), `BoundedBuffer` (`BufferBounded`) | the token, see below |
| `BodyOutcomeProofs` | `InspectedBeforeForwarded` (`ForwardedInspected`), `ForwardedWhole` (`ForwardedIntact`), `ReadImplementsPhase` (`ImplementsBodyPhase`) | what the holder of the token knows at each step, see below |
| `RulesCacheProofs` | `TypeCorrect` (`TypeOK`), `OneRulesSetPerFile` (`SameRules`), `NeverUnprotectedAgain` (`StaysProtected`), `CacheImplementsStore` (`ImplementsRulesStore`) | an entry, once written, is never touched, and whatever has been served for a file is in its entry |
| `RequestLifecycleProofs` | `TypeCorrect` (`TypeOK`), `LiveConfig` (`UsesLiveConfig`), `NoConfigLost` (`ConfigsAccounted`), `OnlyInspected` (`HandledOnlyInspected`), `EndOnce` (`TransactionsEndOnce`), `AuditRight` (`AuditMatchesWire`) | ownership, origin, reasons, endings, see below |
| `ResponsePhaseProofs` | `TypeCorrect` (`TypeOK`), `EachPhaseOnce` (`PhasesOnce`), `BlocksInTime` (`NeverBlocksLate`), `SeesTheBody` (`EvaluationCoversBody`), `HoldsBytes` (`ModeAHoldsBytes`), `FailedStartIsStopped` (`FailedStartStops`), `PinsTheLength` (`PinnedLengthExact`) | the flags of the stored context against the history of the response, see below |
| `FileChunkProofs` | `TypeCorrect` (`TypeOK`), `ReturnsWhatItAppended` (`AccountedExactly`), `AloneReadsItsRange` (`AloneReadsRange`), `ClosesItsHandle` (`HandlesClosed`) | bytes appended plus bytes left are the bytes asked for; two calls at once are both marked; the position is where a call that runs alone left it |
| `WorkerProofs` | `TypeCorrect` (`TypeOK`), `OneModule` (`OneLiveModule`), `FreedOnce` (`FactoryFreedOnce`), `LinesReachTheSource` (`LineReachesSource`), `Bounded` (`SlidingBound`), `DropsJustified` (`DroppedOnlyWhenFull`) | the critical section and the windows of the log, see below |

**The body.** While the request is unanswered there is exactly one token, held
either by the one thread inside the handlers, by the one pended read, or by the
one thread that carries its completion to the claim, and the state is
`BRS_READ_PENDING` in the last two cases. A foreign completion comes only when the
token is gone and finds a state other than `READ_PENDING`. Since only the token's
holder touches the body, the bytes in the buffer are the ones that follow `m_Body`
in the entity, and the cap is tested before each further read. On top of that,
`BodyOutcomeProofs` follows the holder (`Course`): a failed read is the last one;
a result in hand tells whether the entity is at its end; from "restore" on the
end, the cap or a failure has been reached (`Ready`); the engine has not ruled before
"verdict". `Outcome` keeps this for a request that was let through.

The refinement maps `end` to the length of the entity, or to what was received
once the connection has failed; that a failed read is the last one is what makes the
mapping work (`end` may shrink, never grow). `IssueInline` and `DeliverOurs` are
`Cut` or a stutter, `ConsumeBodyChunk` is `Take` (a stutter for an empty read),
`Inspect` is `Rule`, the answers are `Continue` and `Finish`; all other steps
leave the phase alone.

`ForwardedWhole` has a hypothesis, and needs it: the length of the drained body is
cast to DWORD (214-215), so either no entity is longer than a DWORD can say, or
cap plus one chunk is not. The defaults (1 MiB and 64 KiB) satisfy it; a cap
set within a chunk of 4 GiB does not.

**The request.** `Ownership`: a stored configuration object belongs to its
metadata object, an unstored one to the request that is making it. `Origin`:
what an object says was set at some time since its metadata object was made, which is
what a request that is let through for being disabled appeals to. `Reasons`: a
request that is handled, or notified again, has one of the excuses
`HandledOnlyInspected` lists. `Endings`: only the stored context may have a
live transaction; it ends where the status is decided, and what the engine was told is
what the module sets for the client. `StatusesAgree` is the arithmetic of the two status
mappings (a status is at most 999, so the casts to USHORT change nothing).

**The response.** `Control`: while a notification is handled the request is live
and its last byte has not been sent, and a replaced response is over. `Phases`: the
flags count the phases. `ModeAHoldsBytes` is inductive with these: what leaves
without a choice of the mode is counted in `undecided`, before phase 3 a failed
notification sends nothing, and afterwards `Degrade` ends Mode A and an evaluation,
a failing one too, marks phase 4; so a block comes when `out = undecided`
(`NeverBlocksLate`). `Strays`: without a failed or raw-less notification that is 0.
`Covered`: in a
request that has seen nothing odd, the last byte has left if and only if the evaluation has
run. `Counted`: short of the cap, `respInspected` is the sum of the lengths
of the chunks looked at; at the last chunk this is `Size`, which is what
`Continue` adds to `out` (`Pins`).

`Size` is a recursively defined function, so this needs induction over the
chunks. The induction theorems of the library take a predicate as parameter, which the
installed provers cannot instantiate; `ResponsePhaseProofs` states induction for
a set instead (`SetInduction`: a set that contains 0, and with n also n + 1,
contains `Nat`), from the theorem that `<` on `Nat` is well founded. `SizeExists`
uses it to show that the recursion has a solution, `SizeProperties` that
the solution is a sum of natural numbers.

**The worker process.** Whoever is past the critical section has found or made a
module, and the module that is there is the last one made, with its event source
published (`Locking`, `Serves`, `Published`). For the throttle: the last
`g_logCount` lines are of the current window, those before it are older, and
those a limit further back are older than the window by a second (`Windows`); so two lines
that are two limits apart are a second apart (`Spread`).

Assumptions are the named `ASSUME`s of the modules (sizes are natural numbers, a
chunk and a cap are not zero, a DWORD has more than one value, sets are
not empty); TLC evaluates them in every run.

Only model-checked: `EventuallyAnswered`, `EventuallyReturned` and `LockReleased`
(TLAPS has no reasoning about fairness or `ENABLED` here), and the six runs that
end in a violation, which a proof cannot replace.

## 5. Not modelled

* The engine is a library outside this repository: its verdicts are free choices
  and it may throw wherever it is called.
* The conversions (`WToUtf8`, `AToUtf8`, `SockAddrToIp`, `SockAddrToPort`,
  `VerbToString`, `VersionToString`) are pure functions on text and addresses:
  they keep no state, and no property of the modules depends on what they return.
* Text (headers, log lines, reason phrases, traces) carries no control.
* The installer, build and test scripts contain no behaviour of the module.

## 6. Plan

Every component with behaviour of its own is modelled, and what the runs show on
small instances is proved for every value of the constants, liveness excepted.
What could follow, with the code:

1. The liveness properties, should the prover learn fairness: their measures
   (bytes left on the wire, bytes left in the range, the one holder of the lock)
   are part of the invariants.
2. An abstract specification of the response, in the manner of `BodyPhase`, so
   that `RequestLifecycle!OnSendResponse` rests on a refinement as
   `RequestBody` and `GetRules` do.
3. When the code changes: the definition named by `map`, its run, its mutants, and
   the steps of the proof that mention the action.
