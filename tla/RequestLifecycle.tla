-------------------------- MODULE RequestLifecycle --------------------------
(***************************************************************************)
(* A request from RQ_BEGIN_REQUEST to the release of its stored context    *)
(* (OnBeginRequest, ApplyIntervention, REQUEST_STORED_CONTEXT in           *)
(* src/ModSecurityIIS.cpp and .h), for several requests at a time, with    *)
(* every way out of OnBeginRequest.  It composes                           *)
(*   - ModuleConfig, whose actions the requests take to get their settings;*)
(*   - RulesStore, the promise of iis::getRules;                           *)
(*   - the request-body phase by the promise of BodyPhase: "continue" only *)
(*     on the engine's consent, "finish" otherwise;                        *)
(*   - the response phases by their outcome.                               *)
(*                                                                         *)
(* IIS (external) may notify RQ_BEGIN_REQUEST again for a request that was *)
(* let through, which is what the code calls "already being handled".      *)
(* After "finish" it skips the handler and sends the response as it is.    *)
(***************************************************************************)
EXTENDS Integers, Sequences, FiniteSets

CONSTANTS Requests, MaxMetas, MaxConfigs,
  MaxNotify,      \* bound: RQ_BEGIN_REQUEST notifications of a request
  Statuses        \* the statuses disruptive actions ask for; 0 or less: none

ASSUME RequestsAssumption == Requests # {}
ASSUME BoundsAssumption == MaxMetas \in Nat \ {0} /\ MaxConfigs \in Nat /\ MaxNotify \in Nat \ {0}
ASSUME StatusesAssumption == Statuses \subseteq -1..999

VARIABLES worker, settings, container, configs, pc, meta, config,   \* ModuleConfig
          cell, served,                                             \* RulesStore
  failClosed,     \* ConfigFailClosed: MODSEC_IIS_FAIL_CLOSED
  notified,       \* notifications of each request so far
  contexts,       \* the REQUEST_STORED_CONTEXT objects made for each request
  stored,         \* which of them its container holds; 0: none
  consented,      \* the engine has passed the headers and the body
  wire,           \* the status the module has set for the client; 0: none
  rawMissing,     \* there was no raw request
  handled         \* the handler has run

siteVars   == <<settings, container, configs, meta>>
configVars == <<siteVars, config>>
rulesVars  == <<cell, served>>
ownVars    == <<failClosed, notified, contexts, stored, consented, wire, rawMissing, handled>>
vars       == <<worker, configVars, pc, rulesVars, ownVars>>

File    == "modsecurity.conf"
NoRules == "nullptr"

Settings == INSTANCE ModuleConfig
Store    == INSTANCE RulesStore WITH Files <- {File}, Rules <- {"rules"}, Empty <- NoRules

\* The statuses SetStatus and the engine are given; 0: none yet.
StatusCodes == 0..999

\* A REQUEST_STORED_CONTEXT: its pointer, what became of the transaction, and
\* the statuses the engine was told.
Context == [m_pTx : {"set", "null"}, logs : Nat, frees : Nat, logThrew : BOOLEAN,
            told : SUBSET StatusCodes]

NewContext == [m_pTx |-> "set", logs |-> 0, frees |-> 0, logThrew |-> FALSE, told |-> {}]

TypeOK ==
  /\ Settings!TypeOK
  /\ cell \in [{File} -> {"rules", NoRules}]
  /\ served \in [{File} -> SUBSET {"rules", NoRules}]
  /\ pc \in [Requests -> {"away", "lookup", "initialize", "store", "configFailed", "use",
                          "rules", "create", "phase1", "body", "resume", "response",
                          "end", "ended"}]
  /\ failClosed \in BOOLEAN
  /\ notified \in [Requests -> 0..MaxNotify]
  /\ contexts \in [Requests -> Seq(Context)]
  /\ \A r \in Requests : Len(contexts[r]) <= notified[r]
  /\ stored \in [Requests -> 0..MaxNotify]
  /\ consented \in [Requests -> BOOLEAN]
  /\ wire \in [Requests -> StatusCodes]
  /\ rawMissing \in [Requests -> BOOLEAN]
  /\ handled \in [Requests -> BOOLEAN]

Init ==
  /\ Settings!Init
  /\ Store!Init
  /\ pc = [r \in Requests |-> "away"]
  /\ failClosed \in BOOLEAN
  /\ notified = [r \in Requests |-> 0]
  /\ contexts = [r \in Requests |-> <<>>]
  /\ stored = [r \in Requests |-> 0]
  /\ consented = [r \in Requests |-> FALSE]
  /\ wire = [r \in Requests |-> 0]
  /\ rawMissing = [r \in Requests |-> FALSE]
  /\ handled = [r \in Requests |-> FALSE]

Goto(r, where) == pc' = [pc EXCEPT ![r] = where]

\* pConfig is a local variable of OnBeginRequest.
Forget(r) == config' = [config EXCEPT ![r] = 0]

\* RQ_NOTIFICATION_CONTINUE and RQ_NOTIFICATION_FINISH_REQUEST
Continue(r) == Goto(r, "resume") /\ Forget(r)
Finish(r)   == Goto(r, "response") /\ Forget(r)

SetStatus(r, s) == wire' = [wire EXCEPT ![r] = s]

(***************************************************************************)
(* REQUEST_STORED_CONTEXT.                                                 *)
(***************************************************************************)

\* Fault: the pointer survives the transaction.
FinishRequestKeepsPointer(x, throws) ==
  IF x.m_pTx = "null" THEN x
  ELSE IF throws THEN [x EXCEPT !.logThrew = TRUE]
  ELSE [x EXCEPT !.logs = @ + 1, !.frees = @ + 1]

\* FinishRequest: log and delete the transaction; when processLogging throws
\* it is forgotten, not deleted.
FinishRequest(x, throws) ==
  IF x.m_pTx = "null" THEN x
  ELSE IF throws THEN [x EXCEPT !.m_pTx = "null", !.logThrew = TRUE]
  ELSE [x EXCEPT !.m_pTx = "null", !.logs = @ + 1, !.frees = @ + 1]

\* CleanupStoredContext: FinishRequest, then the destructor runs it again.
CleanupStoredContext(x, throws) == FinishRequest(FinishRequest(x, throws), throws)

(***************************************************************************)
(* ApplyIntervention.                                                      *)
(***************************************************************************)

\* Fault: a missing status is not replaced by 403.
WireStatusUnguarded(status, redirect) ==
  IF redirect
  THEN IF status \in 301..308 \ {302} THEN status % 65536 ELSE 302
  ELSE status % 65536

\* The status line the module sets; Redirect alone answers 302.
WireStatus(status, redirect) ==
  IF redirect
  THEN IF status \in 301..308 \ {302} THEN status % 65536 ELSE 302
  ELSE IF status <= 0 THEN 403 ELSE status % 65536

\* Fault: the engine is told the status of the rule.
FinalStatusOfRule(status, redirect) == status

\* finalStatus, which updateStatusCode gives to the engine.
FinalStatus(status, redirect) ==
  IF redirect
  THEN IF status \in 301..308 \ {302} THEN status ELSE 302
  ELSE IF status <= 0 THEN 403 ELSE status

\* A disruptive intervention: the response is replaced, the engine is told,
\* and the transaction ends.
ApplyIntervention(r) ==
  \E status \in Statuses, redirect, throws \in BOOLEAN :
    LET x == contexts[r][stored[r]]
    IN  /\ SetStatus(r, WireStatus(status, redirect))
        /\ contexts' = [contexts EXCEPT ![r][stored[r]] =
             FinishRequest([x EXCEPT !.told = {FinalStatus(status, redirect)}], throws)]

(***************************************************************************)
(* OnBeginRequest.                                                         *)
(***************************************************************************)

\* IIS begins the request, or notifies once more.
OnBeginRequest(r) ==
  /\ pc[r] \in {"away", "resume"}
  /\ notified[r] < MaxNotify
  /\ notified' = [notified EXCEPT ![r] = @ + 1]
  /\ meta' = IF pc[r] = "away" THEN [meta EXCEPT ![r] = Len(settings)] ELSE meta
  /\ Goto(r, "lookup")
  /\ UNCHANGED <<worker, settings, container, configs, config, rulesVars, failClosed,
                 contexts, stored, consented, wire, rawMissing, handled>>

GetConfig(r) ==
  /\ Settings!GetConfig(r)
  /\ UNCHANGED <<rulesVars, ownVars>>

\* Without configuration or rules: 500, or pass through by the operator's
\* choice.
FailPolicy(r) ==
  IF failClosed THEN SetStatus(r, 500) /\ Finish(r)
                ELSE Continue(r) /\ UNCHANGED wire

ConfigFailed(r) ==
  /\ pc[r] = "configFailed"
  /\ FailPolicy(r)
  /\ UNCHANGED <<worker, siteVars, rulesVars, failClosed, notified, contexts, stored,
                 consented, rawMissing, handled>>

\* GetIsEnabled and GetPath of the configuration; a NULL one is dereferenced.
UseConfig(r) ==
  /\ pc[r] = "use"
  /\ IF config[r] = 0
     THEN worker' = "down" /\ UNCHANGED <<pc, config>>
     ELSE /\ LET c == configs[config[r]]
             IN  IF c.enabled /\ c.path = "rules" THEN Goto(r, "rules") /\ UNCHANGED config ELSE Continue(r)
          /\ UNCHANGED worker
  /\ UNCHANGED <<siteVars, rulesVars, ownVars>>

\* iis::getRules returns rules, or nullptr, or throws.
GetRules(r) ==
  /\ pc[r] = "rules"
  /\ \/ /\ Store!Fill(File, "rules") \/ Store!Serve(File)
        /\ Goto(r, "create")
        /\ UNCHANGED <<config, wire>>
     \/ /\ Store!Refuse(File)
        /\ FailPolicy(r)
     \/ /\ Finish(r)
        /\ UNCHANGED <<rulesVars, wire>>
  /\ UNCHANGED <<worker, siteVars, failClosed, notified, contexts, stored, consented,
                 rawMissing, handled>>

\* The engine, the transaction or the context cannot be made: an exception or
\* E_OUTOFMEMORY finishes the request; a transaction already made is deleted.
CreateFails(r) ==
  /\ pc[r] = "create"
  /\ Finish(r)
  /\ UNCHANGED <<worker, siteVars, rulesVars, ownVars>>

\* The context is made from the settings and stored with the request.
CreateContext(r) ==
  /\ pc[r] = "create"
  /\ stored[r] = 0
  /\ contexts' = [contexts EXCEPT ![r] = Append(@, NewContext)]
  /\ stored' = [stored EXCEPT ![r] = Len(contexts'[r])]
  /\ Goto(r, "phase1") /\ Forget(r)
  /\ UNCHANGED <<worker, siteVars, rulesVars, failClosed, notified, consented, wire,
                 rawMissing, handled>>

\* SetModuleContext fails and the orphaned context is released: the request
\* goes on if a context is already assigned, and is finished otherwise.
StoreContextFails(r) ==
  /\ pc[r] = "create"
  /\ \E throws \in BOOLEAN :
       contexts' = [contexts EXCEPT ![r] = Append(@, CleanupStoredContext(NewContext, throws))]
  /\ IF stored[r] # 0 THEN Continue(r) ELSE Finish(r)
  /\ UNCHANGED <<worker, siteVars, rulesVars, failClosed, notified, stored, consented, wire,
                 rawMissing, handled>>

\* No raw request: pass through, with the context in place.
RawRequestMissing(r) ==
  /\ pc[r] = "phase1"
  /\ rawMissing' = [rawMissing EXCEPT ![r] = TRUE]
  /\ Continue(r)
  /\ UNCHANGED <<worker, siteVars, rulesVars, failClosed, notified, contexts, stored,
                 consented, wire, handled>>

\* The connection, the URI and the headers are fed and phase 1 runs.
RequestHeaders(r) ==
  /\ pc[r] = "phase1"
  /\ \/ Goto(r, "body") /\ UNCHANGED <<contexts, wire, config>>
     \/ ApplyIntervention(r) /\ Finish(r)
     \/ Finish(r) /\ UNCHANGED <<contexts, wire>>                  \* an exception
  /\ UNCHANGED <<worker, siteVars, rulesVars, failClosed, notified, stored, consented,
                 rawMissing, handled>>

\* The request-body phase, as BodyPhase promises it: the engine consents, or
\* blocks, or the request is finished for an exception (with no status set) or
\* a failed restore (500, unless the insertion failed).
RequestBody(r) ==
  /\ pc[r] = "body"
  /\ \/ /\ consented' = [consented EXCEPT ![r] = TRUE]
        /\ Continue(r)
        /\ UNCHANGED <<contexts, wire>>
     \/ /\ ApplyIntervention(r)
        /\ Finish(r)
        /\ UNCHANGED consented
     \/ /\ Finish(r)
        /\ SetStatus(r, 500) \/ UNCHANGED wire
        /\ UNCHANGED <<contexts, consented>>
  /\ UNCHANGED <<worker, siteVars, rulesVars, failClosed, notified, stored, rawMissing,
                 handled>>

(***************************************************************************)
(* The rest of the pipeline.                                               *)
(***************************************************************************)

\* IIS goes on to the handler.
Handler(r) ==
  /\ pc[r] = "resume"
  /\ handled' = [handled EXCEPT ![r] = TRUE]
  /\ Goto(r, "response")
  /\ UNCHANGED <<worker, configVars, rulesVars, failClosed, notified, contexts, stored,
                 consented, wire, rawMissing>>

\* OnSendResponse: without a transaction it does nothing; otherwise the
\* response passes, is stopped with 500, or is replaced.
OnSendResponse(r) ==
  /\ pc[r] = "response"
  /\ \/ UNCHANGED <<contexts, wire>>
     \/ /\ stored[r] # 0
        /\ contexts[r][stored[r]].m_pTx = "set"
        /\ ApplyIntervention(r) \/ (SetStatus(r, 500) /\ UNCHANGED contexts)
  /\ Goto(r, "end")
  /\ UNCHANGED <<worker, configVars, rulesVars, failClosed, notified, stored, consented,
                 rawMissing, handled>>

\* IIS releases the stored context, and the metadata object with it.
EndRequest(r) ==
  /\ pc[r] = "end"
  /\ IF stored[r] = 0 THEN UNCHANGED contexts
     ELSE \E throws \in BOOLEAN :
            contexts' = [contexts EXCEPT ![r][stored[r]] = CleanupStoredContext(@, throws)]
  /\ Goto(r, "ended")
  /\ UNCHANGED <<worker, configVars, rulesVars, failClosed, notified, stored, consented, wire,
                 rawMissing, handled>>

Step(r) ==
  \/ GetConfig(r) \/ ConfigFailed(r) \/ UseConfig(r) \/ GetRules(r)
  \/ CreateFails(r) \/ CreateContext(r) \/ StoreContextFails(r)
  \/ RawRequestMissing(r) \/ RequestHeaders(r) \/ RequestBody(r)
  \/ Handler(r) \/ OnSendResponse(r) \/ EndRequest(r)

Next ==
  /\ worker = "up"
  /\ \/ \E r \in Requests : OnBeginRequest(r) \/ Step(r)
     \/ Settings!IIS /\ UNCHANGED <<rulesVars, ownVars>>

Spec == Init /\ [][Next]_vars

(***************************************************************************)
(* Properties.                                                             *)
(***************************************************************************)

\* From GetConfig to the last use of its settings (line 1090) a request reads
\* an object that exists, and the one all requests of its metadata object
\* share: not one a racing request has deleted or a change has released.
UsesLiveConfig ==
  \A r \in Requests :
    pc[r] \in {"use", "rules", "create"} =>
      /\ config[r] # 0
      /\ configs[config[r]].alive
      /\ config[r] = container[meta[r]]

\* No MODSECURITY_STORED_CONTEXT is lost: one that exists is stored with a
\* metadata object or is still being made by a request (GetConfig).
ConfigsAccounted ==
  \A i \in DOMAIN configs :
    configs[i].alive =>
      \/ \E m \in DOMAIN container : container[m] = i
      \/ \E r \in Requests : pc[r] \in {"initialize", "store"} /\ config[r] = i

\* The handler sees a request only with the engine's consent, or because the
\* site was switched off or had no rules file at some time since the request
\* has its metadata, or the operator chose fail-open, or there was no raw
\* request.  What the engine denied never gets there.
HandledOnlyInspected ==
  \A r \in Requests :
    handled[r] =>
      \/ consented[r] \/ rawMissing[r] \/ ~failClosed
      \/ \E i \in meta[r]..Len(settings) :
           ~settings[i].enabled \/ settings[i].path = "none"

\* Every transaction is logged and deleted once, whichever way its request
\* ends; one is left over only if processLogging threw.
TransactionsEndOnce ==
  \A r \in Requests : \A i \in DOMAIN contexts[r] :
    LET x == contexts[r][i]
    IN  /\ x.frees <= 1 /\ x.logs = x.frees
        /\ ~(x.logThrew /\ x.frees > 0)
        /\ pc[r] = "ended" => x.frees = 1 \/ x.logThrew

\* When a request was blocked, the status the audit log shows is the one the
\* module has set in the end: no later answer of the module replaces it.
AuditMatchesWire ==
  \A r \in Requests : \A i \in DOMAIN contexts[r] :
    contexts[r][i].told \subseteq {wire[r]}
=============================================================================
