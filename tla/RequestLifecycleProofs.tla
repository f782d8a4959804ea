----------------------- MODULE RequestLifecycleProofs -----------------------
(***************************************************************************)
(* Proofs about RequestLifecycle, for any number of requests, changes of   *)
(* the configuration and notifications.                                    *)
(*                                                                         *)
(* Four arguments, one invariant each:                                     *)
(*   - a MODSECURITY_STORED_CONTEXT has one owner: the request that makes  *)
(*     it, or the metadata object it is stored with (Ownership);           *)
(*   - what it says was set at some time since its metadata object is      *)
(*     there (Origin);                                                     *)
(*   - a request that is let through, or is notified again after it was,   *)
(*     has a reason to be (Reasons);                                       *)
(*   - of the contexts of a request at most one, the stored one, has a     *)
(*     transaction, and it ends where the status is decided (Endings).     *)
(***************************************************************************)
EXTENDS RequestLifecycle, TLAPS, SequenceTheorems

\* Request r owns the object it is making.
Making(r) == pc[r] \in {"initialize", "store"}

Ownership ==
  /\ \A r \in Requests : pc[r] = "away" \/ meta[r] # 0
  /\ \A m \in Settings!Metas : container[m] # 0 => configs[container[m]].alive
  /\ \A m, n \in Settings!Metas : container[m] # 0 /\ container[m] = container[n] => m = n
  /\ \A r \in Requests : Making(r) =>
       /\ config[r] # 0
       /\ configs[config[r]].alive
       /\ \A m \in Settings!Metas : container[m] # config[r]
       /\ \A s \in Requests : Making(s) /\ config[s] = config[r] => s = r

\* Object i says what was set at some time since metadata object m is there.
SaysOf(i, m) ==
  \E j \in m..Len(settings) :
    configs[i].enabled = settings[j].enabled /\ configs[i].path = settings[j].path

Origin ==
  /\ \A m \in Settings!Metas : container[m] # 0 => SaysOf(container[m], m)
  /\ \A r \in Requests : pc[r] = "store" => SaysOf(config[r], meta[r])

\* The reasons HandledOnlyInspected allows.
Excused(r) ==
  \/ consented[r] \/ rawMissing[r] \/ ~failClosed
  \/ \E i \in meta[r]..Len(settings) : ~settings[i].enabled \/ settings[i].path = "none"

\* OnBeginRequest before the context is stored.
Acquiring(r) ==
  pc[r] \in {"lookup", "initialize", "store", "configFailed", "use", "rules", "create"}

Reasons ==
  \A r \in Requests :
    /\ handled[r] \/ pc[r] = "resume" => Excused(r)
    /\ Acquiring(r) /\ stored[r] # 0 => Excused(r)
    /\ pc[r] = "away" => ~handled[r] /\ stored[r] = 0

\* What has become of the transaction of context x.
Sound(x) ==
  \/ x.m_pTx = "set" /\ x.logs = 0 /\ x.frees = 0 /\ ~x.logThrew /\ x.told = {}
  \/ x.m_pTx = "null" /\ x.logs = 1 /\ x.frees = 1 /\ ~x.logThrew
  \/ x.m_pTx = "null" /\ x.logs = 0 /\ x.frees = 0 /\ x.logThrew

\* The request has been answered or handled.
Late(r) == pc[r] \in {"response", "end", "ended"}

Endings ==
  \A r \in Requests :
    /\ stored[r] \in 0..Len(contexts[r])
    /\ pc[r] = "away" => stored[r] = 0
    /\ pc[r] \in {"phase1", "body"} => stored[r] # 0
    /\ \A i \in 1..Len(contexts[r]) :
         /\ Sound(contexts[r][i])
         /\ i # stored[r] => contexts[r][i].m_pTx = "null" /\ contexts[r][i].told = {}
         /\ contexts[r][i].told # {} => Late(r) /\ contexts[r][i].told = {wire[r]}
         /\ i = stored[r] /\ ~Late(r) => contexts[r][i].m_pTx = "set"
         /\ pc[r] = "ended" => contexts[r][i].m_pTx = "null"

\* How many contexts a request can have.
Counts ==
  \A r \in Requests : Acquiring(r) => Len(contexts[r]) < notified[r]

\* The inductive invariant.
IInv ==
  /\ TypeOK /\ Counts
  /\ Ownership /\ UsesLiveConfig /\ ConfigsAccounted
  /\ Origin /\ Reasons /\ Endings

(***************************************************************************)
(* Lemmas about the operators.                                             *)
(***************************************************************************)

\* What the invariant says of the types of a request's own variables.
LEMMA RequestTypes ==
  ASSUME IInv
  PROVE  /\ DOMAIN pc = Requests
         /\ notified \in [Requests -> 0..MaxNotify]
         /\ contexts \in [Requests -> Seq(Context)]
         /\ stored \in [Requests -> 0..MaxNotify]
         /\ wire \in [Requests -> StatusCodes]
  <1>1. TypeOK
    BY DEF IInv
  <1>2. DOMAIN pc = Requests
    BY <1>1 DEF TypeOK
  <1> QED BY <1>1, <1>2, Zenon DEF TypeOK

\* The status the engine is told is the one on the wire, and it is a status.
LEMMA StatusesAgree ==
  ASSUME NEW status \in Statuses, NEW redirect \in BOOLEAN
  PROVE  /\ WireStatus(status, redirect) \in StatusCodes
         /\ FinalStatus(status, redirect) = WireStatus(status, redirect)
  <1>1. status \in -1..999
    BY StatusesAssumption
  <1>2. status > 0 => status % 65536 = status
    BY <1>1
  <1> QED BY <1>1, <1>2 DEF WireStatus, FinalStatus, StatusCodes

\* A context stays one when its flag logThrew is raised.
LEMMA FailedLogType ==
  ASSUME NEW x \in Context
  PROVE  [x EXCEPT !.logThrew = TRUE] \in Context
  BY DEF Context

\* FinishRequest ends a transaction once.
LEMMA FinishRequestEnds ==
  ASSUME NEW x \in Context, NEW throws \in BOOLEAN
  PROVE  LET y == FinishRequest(x, throws)
         IN  /\ y \in Context
             /\ y.m_pTx = "null"
             /\ y.told = x.told
             /\ x.m_pTx = "set" /\ x.logs = 0 /\ x.frees = 0 /\ ~x.logThrew => Sound(y)
             /\ x.m_pTx = "null" => y = x
  <1> DEFINE n == [x EXCEPT !.m_pTx = "null"]
             a == [n EXCEPT !.logThrew = TRUE]
             l == [n EXCEPT !.logs = @ + 1]
             b == [l EXCEPT !.frees = @ + 1]
  <1>1. x.m_pTx \in {"set", "null"} /\ x.logs \in Nat /\ x.frees \in Nat
    BY DEF Context
  <1>2. /\ n \in Context
        /\ n.m_pTx = "null" /\ n.told = x.told /\ n.logs = x.logs /\ n.frees = x.frees
        /\ n.logThrew <=> x.logThrew
    BY DEF Context
  <1>3. FinishRequest(x, throws) = IF x.m_pTx = "null" THEN x ELSE IF throws THEN a ELSE b
    BY DEF FinishRequest
  <1> HIDE DEF n
  <1>4. /\ a \in Context
        /\ a.m_pTx = "null" /\ a.told = x.told /\ a.logs = x.logs /\ a.frees = x.frees
        /\ a.logThrew
    <2>1. a \in Context
      <3>1. n \in Context
        BY <1>2
      <3> QED BY <3>1, FailedLogType
    <2>2. a.told = n.told /\ a.m_pTx = n.m_pTx /\ a.logs = n.logs /\ a.frees = n.frees
      BY <1>2 DEF Context
    <2>3. a.logThrew
      BY <1>2 DEF Context
    <2> QED BY <1>2, <2>1, <2>2, <2>3
  <1>5. /\ l \in Context
        /\ l.m_pTx = "null" /\ l.told = x.told /\ l.logs = x.logs + 1 /\ l.frees = x.frees
        /\ l.logThrew <=> x.logThrew
    BY <1>1, <1>2 DEF Context
  <1> HIDE DEF a, l
  <1>6. /\ b \in Context
        /\ b.m_pTx = "null" /\ b.told = x.told /\ b.logs = x.logs + 1
        /\ b.frees = x.frees + 1
        /\ b.logThrew <=> x.logThrew
    BY <1>1, <1>5 DEF Context
  <1> HIDE DEF b
  <1>7. CASE x.m_pTx = "null"
    BY <1>3, <1>7
  <1>8. CASE x.m_pTx # "null" /\ throws
    BY <1>1, <1>3, <1>4, <1>8 DEF Sound
  <1>9. CASE x.m_pTx # "null" /\ ~throws
    BY <1>1, <1>3, <1>6, <1>9 DEF Sound
  <1> QED BY <1>7, <1>8, <1>9

\* CleanupStoredContext does no more than FinishRequest.
LEMMA CleanupEnds ==
  ASSUME NEW x \in Context, NEW throws \in BOOLEAN
  PROVE  CleanupStoredContext(x, throws) = FinishRequest(x, throws)
  <1>1. /\ FinishRequest(x, throws) \in Context
        /\ FinishRequest(x, throws).m_pTx = "null"
    BY FinishRequestEnds
  <1> QED BY <1>1, FinishRequestEnds DEF CleanupStoredContext

\* A new context has its transaction.
LEMMA NewContextType == NewContext \in Context /\ Sound(NewContext) /\ NewContext.m_pTx = "set"
  BY DEF NewContext, Context, Sound

\* The stored context of request r becomes x.
Updates(r, x) == contexts' = [contexts EXCEPT ![r] = [contexts[r] EXCEPT ![stored[r]] = x]]

\* Replacing the stored context touches no other context.
LEMMA UpdateEffect ==
  ASSUME contexts \in [Requests -> Seq(Context)],
         NEW r \in Requests, stored[r] \in 1..Len(contexts[r]),
         NEW x \in Context, Updates(r, x)
  PROVE  /\ contexts' \in [Requests -> Seq(Context)]
         /\ \A s \in Requests : s # r => contexts'[s] = contexts[s]
         /\ Len(contexts'[r]) = Len(contexts[r])
         /\ \A i \in 1..Len(contexts[r]) :
              contexts'[r][i] = IF i = stored[r] THEN x ELSE contexts[r][i]
  <1> DEFINE q == [contexts[r] EXCEPT ![stored[r]] = x]
  <1>1. /\ q \in Seq(Context)
        /\ Len(q) = Len(contexts[r])
        /\ \A i \in 1..Len(contexts[r]) : q[i] = IF i = stored[r] THEN x ELSE contexts[r][i]
    BY ExceptSeq
  <1>2. contexts' = [contexts EXCEPT ![r] = q]
    BY DEF Updates
  <1> HIDE DEF q
  <1> QED BY <1>1, <1>2

\* Context x is made for request r.
Adds(r, x) == contexts' = [contexts EXCEPT ![r] = Append(contexts[r], x)]

\* A new context comes behind the others of its request.
LEMMA AddEffect ==
  ASSUME contexts \in [Requests -> Seq(Context)],
         NEW r \in Requests, NEW x \in Context, Adds(r, x)
  PROVE  /\ contexts' \in [Requests -> Seq(Context)]
         /\ \A s \in Requests : s # r => contexts'[s] = contexts[s]
         /\ Len(contexts'[r]) = Len(contexts[r]) + 1
         /\ \A i \in 1..Len(contexts'[r]) :
              contexts'[r][i] = IF i = Len(contexts[r]) + 1 THEN x ELSE contexts[r][i]
  <1> DEFINE q == Append(contexts[r], x)
  <1>1. /\ q \in Seq(Context)
        /\ Len(q) = Len(contexts[r]) + 1
        /\ \A i \in 1..Len(q) : q[i] = IF i = Len(contexts[r]) + 1 THEN x ELSE contexts[r][i]
    BY AppendProperties
  <1>2. contexts' = [contexts EXCEPT ![r] = q]
    BY DEF Adds
  <1> HIDE DEF q
  <1> QED BY <1>1, <1>2

\* ApplyIntervention on a stored context that has a transaction: it ends, and
\* the status it is told is the one on the wire.
LEMMA InterventionEffect ==
  ASSUME IInv, NEW r \in Requests, stored[r] # 0,
         contexts[r][stored[r]].m_pTx = "set",
         ApplyIntervention(r)
  PROVE  /\ wire' \in [Requests -> StatusCodes]
         /\ \A s \in Requests : s # r => wire'[s] = wire[s]
         /\ \E x \in Context : /\ Updates(r, x)
                               /\ Sound(x)
                               /\ x.m_pTx = "null"
                               /\ x.told = {wire'[r]}
  <1>1. PICK status \in Statuses, redirect, throws \in BOOLEAN :
          LET x == contexts[r][stored[r]]
          IN  /\ SetStatus(r, WireStatus(status, redirect))
              /\ contexts' = [contexts EXCEPT ![r][stored[r]] =
                   FinishRequest([x EXCEPT !.told = {FinalStatus(status, redirect)}], throws)]
    BY DEF ApplyIntervention
  <1> DEFINE s  == WireStatus(status, redirect)
             x0 == contexts[r][stored[r]]
             x1 == [x0 EXCEPT !.told = {s}]
             x2 == FinishRequest(x1, throws)
  <1>2. s \in StatusCodes /\ FinalStatus(status, redirect) = s
    BY <1>1, StatusesAgree
  <1>3. x0 \in Context /\ Sound(x0)
    <2>1. /\ contexts[r] \in Seq(Context)
          /\ stored[r] \in 1..Len(contexts[r])
      BY DEF IInv, TypeOK, Endings
    <2>2. contexts[r][stored[r]] \in Context
      BY <2>1, ElementOfSeq
    <2> QED BY <2>1, <2>2 DEF IInv, Endings
  <1> HIDE DEF s, x0
  <1>4. /\ x1 \in Context /\ x1.told = {s}
        /\ x1.m_pTx = "set" /\ x1.logs = 0 /\ x1.frees = 0 /\ ~x1.logThrew
    <2>1. x0.m_pTx = "set"
      BY DEF x0
    <2> QED BY <1>2, <1>3, <2>1 DEF Context, Sound
  <1> HIDE DEF x1
  <1>5. x2 \in Context /\ Sound(x2) /\ x2.m_pTx = "null" /\ x2.told = {s}
    BY <1>4, FinishRequestEnds
  <1>6. Updates(r, x2)
    BY <1>1, <1>2 DEF Updates, x0, x1, s
  <1>7. wire' = [wire EXCEPT ![r] = s] /\ wire \in [Requests -> StatusCodes]
    BY <1>1, RequestTypes DEF SetStatus, s
  <1> HIDE DEF x2
  <1> QED BY <1>2, <1>5, <1>6, <1>7

(***************************************************************************)
(* What the actions do to the configuration objects.                       *)
(***************************************************************************)

\* Replacing an object touches no other.
LEMMA ReplacedEffect ==
  ASSUME configs \in Seq(Settings!Config), NEW i \in 1..Len(configs),
         NEW z \in Settings!Config
  PROVE  /\ [configs EXCEPT ![i] = z] \in Seq(Settings!Config)
         /\ Len([configs EXCEPT ![i] = z]) = Len(configs)
         /\ [configs EXCEPT ![i] = z][i] = z
         /\ \A j \in 1..Len(configs) : j # i => [configs EXCEPT ![i] = z][j] = configs[j]
  BY ExceptSeq

\* Deleting an object touches no other.
LEMMA DeletedEffect ==
  ASSUME configs \in Seq(Settings!Config), NEW i \in 1..Len(configs)
  PROVE  /\ Settings!Deleted(i) \in Seq(Settings!Config)
         /\ Len(Settings!Deleted(i)) = Len(configs)
         /\ ~Settings!Deleted(i)[i].alive
         /\ \A j \in 1..Len(configs) : j # i => Settings!Deleted(i)[j] = configs[j]
  <1> DEFINE dead == [Settings!Fresh EXCEPT !.alive = FALSE]
  <1>1. dead \in Settings!Config /\ ~dead.alive
    BY DEF Settings!Config, Settings!Fresh
  <1>2. Settings!Deleted(i) = [configs EXCEPT ![i] = dead]
    BY DEF Settings!Deleted
  <1> HIDE DEF dead
  <1> QED BY <1>1, <1>2, ReplacedEffect

\* A new object is added behind the others.
LEMMA FreshEffect ==
  ASSUME configs \in Seq(Settings!Config), configs' = Append(configs, Settings!Fresh)
  PROVE  /\ configs' \in Seq(Settings!Config)
         /\ Len(configs') = Len(configs) + 1
         /\ configs'[Len(configs) + 1].alive
         /\ \A j \in 1..Len(configs) : configs'[j] = configs[j]
  <1>1. Settings!Fresh \in Settings!Config /\ Settings!Fresh.alive
    BY DEF Settings!Config, Settings!Fresh
  <1> QED BY <1>1, AppendProperties

\* An object that is initialised says what was read, and no other changes.
LEMMA FilledEffect ==
  ASSUME configs \in Seq(Settings!Config), NEW i \in 1..Len(configs),
         NEW e \in BOOLEAN, NEW p \in {"none", "rules"},
         configs' = [configs EXCEPT ![i].enabled = e, ![i].path = p]
  PROVE  /\ configs' \in Seq(Settings!Config)
         /\ Len(configs') = Len(configs)
         /\ configs'[i].enabled = e /\ configs'[i].path = p
         /\ configs'[i].alive = configs[i].alive
         /\ \A j \in 1..Len(configs) : j # i => configs'[j] = configs[j]
  <1> DEFINE x == configs[i]
             y == [x EXCEPT !.enabled = e]
             z == [y EXCEPT !.path = p]
  <1>1. x \in Settings!Config
    BY ElementOfSeq
  <1>2. configs' = [configs EXCEPT ![i] = z]
    BY <1>1 DEF Settings!Config
  <1> HIDE DEF x
  <1>3. y \in Settings!Config /\ y.enabled = e /\ y.alive = x.alive
    BY <1>1 DEF Settings!Config
  <1> HIDE DEF y
  <1>4. z \in Settings!Config /\ z.enabled = e /\ z.path = p /\ z.alive = x.alive
    BY <1>3 DEF Settings!Config
  <1> HIDE DEF z
  <1>5. /\ configs' \in Seq(Settings!Config)
        /\ Len(configs') = Len(configs)
        /\ configs'[i] = z
        /\ \A j \in 1..Len(configs) : j # i => configs'[j] = configs[j]
    <2> DEFINE q == [configs EXCEPT ![i] = z]
    <2>1. z \in Settings!Config
      BY <1>4
    <2>2. /\ q \in Seq(Settings!Config)
          /\ Len(q) = Len(configs)
          /\ q[i] = z
          /\ \A j \in 1..Len(configs) : j # i => q[j] = configs[j]
      BY <2>1, ReplacedEffect
    <2>3. configs' = q
      BY <1>2
    <2> HIDE DEF q
    <2> QED BY <2>2, <2>3
  <1> QED BY <1>4, <1>5 DEF x

(***************************************************************************)
(* The steps of a request once GetConfig has returned.                     *)
(***************************************************************************)
Afterwards(r) ==
  /\ UNCHANGED siteVars
  /\ pc[r] \notin {"away", "lookup", "initialize", "store"}
  /\ config' = config \/ config' = [config EXCEPT ![r] = 0]
  /\ \E w \in {"rules", "create", "phase1", "body", "resume", "response", "end", "ended"} :
       /\ pc' = [pc EXCEPT ![r] = w]
       /\ w \in {"rules", "create"} => pc[r] \in {"use", "rules"} /\ config' = config

LaterStep(r) ==
  \/ ConfigFailed(r) \/ UseConfig(r) \/ GetRules(r)
  \/ CreateFails(r) \/ CreateContext(r) \/ StoreContextFails(r)
  \/ RawRequestMissing(r) \/ RequestHeaders(r) \/ RequestBody(r)
  \/ Handler(r) \/ OnSendResponse(r) \/ EndRequest(r)

\* No step after GetConfig touches what the site's configuration is about.
LEMMA LaterStepsAreAfterwards ==
  ASSUME IInv, NEW r \in Requests, LaterStep(r)
  PROVE  Afterwards(r)
  <1> USE DEF Afterwards, Goto, Forget, Continue, Finish, siteVars, configVars
  <1>1. CASE ConfigFailed(r)
    BY <1>1 DEF ConfigFailed, FailPolicy
  <1>2. CASE UseConfig(r)
    <2>1. config[r] # 0
      BY <1>2 DEF UseConfig, IInv, UsesLiveConfig
    <2> QED BY <1>2, <2>1 DEF UseConfig
  <1>3. CASE GetRules(r)
    BY <1>3 DEF GetRules, FailPolicy
  <1>4. CASE CreateFails(r)
    BY <1>4 DEF CreateFails
  <1>5. CASE CreateContext(r)
    BY <1>5 DEF CreateContext
  <1>6. CASE StoreContextFails(r)
    BY <1>6 DEF StoreContextFails
  <1>7. CASE RawRequestMissing(r)
    BY <1>7 DEF RawRequestMissing
  <1>8. CASE RequestHeaders(r)
    BY <1>8 DEF RequestHeaders
  <1>9. CASE RequestBody(r)
    BY <1>9 DEF RequestBody
  <1>10. CASE Handler(r)
    BY <1>10 DEF Handler
  <1>11. CASE OnSendResponse(r)
    BY <1>11 DEF OnSendResponse
  <1>12. CASE EndRequest(r)
    BY <1>12 DEF EndRequest
  <1> QED BY <1>1, <1>2, <1>3, <1>4, <1>5, <1>6, <1>7, <1>8, <1>9, <1>10, <1>11, <1>12
          DEF LaterStep

\* The cases of a step.
LEMMA NextCases ==
  ASSUME [Next]_vars
  PROVE  \/ \E r \in Requests : OnBeginRequest(r)
         \/ \E r \in Requests : GetConfig(r)
         \/ \E r \in Requests : LaterStep(r)
         \/ Settings!Change /\ UNCHANGED <<rulesVars, ownVars>>
         \/ \E m \in Settings!Metas : Settings!Release(m) /\ UNCHANGED <<rulesVars, ownVars>>
         \/ UNCHANGED vars
  BY DEF Next, Step, LaterStep, Settings!IIS

(***************************************************************************)
(* Type correctness.                                                       *)
(***************************************************************************)

\* The initial states have their types.
LEMMA TypeInit == Init => TypeOK /\ Counts
  <1> SUFFICES ASSUME Init PROVE TypeOK /\ Counts
    OBVIOUS
  <1>1. Settings!TypeOK
    <2>1. settings \in Seq(Settings!Setting) /\ Len(settings) = 1
      <3>1. settings \in [1..1 -> Settings!Setting]
        BY DEF Init, Settings!Init
      <3>2. settings \in Seq(Settings!Setting)
        BY <3>1, SeqDef
      <3>3. DOMAIN settings = 1..1 /\ DOMAIN settings = 1..Len(settings) /\ Len(settings) \in Nat
        BY <3>1, <3>2, LenProperties
      <3> QED BY <3>2, <3>3
    <2> QED BY <2>1, BoundsAssumption
            DEF Init, Settings!Init, Settings!TypeOK, Settings!Metas
  <1>2. /\ cell \in [{File} -> {"rules", NoRules}]
        /\ served \in [{File} -> SUBSET {"rules", NoRules}]
    BY DEF Init, Store!Init
  <1>3. contexts \in [Requests -> Seq(Context)] /\ \A r \in Requests : Len(contexts[r]) = 0
    BY EmptySeq DEF Init
  <1> QED BY <1>1, <1>2, <1>3, BoundsAssumption
          DEF Init, TypeOK, Counts, Acquiring, StatusCodes

\* A request that has begun has a metadata object.
LEMMA HasMeta ==
  ASSUME IInv, NEW r \in Requests, pc[r] # "away"
  PROVE  meta[r] \in 1..Len(settings) /\ meta[r] \in Settings!Metas
  BY BoundsAssumption DEF IInv, TypeOK, Ownership, Settings!TypeOK, Settings!Metas

\* The object a request is making exists.
LEMMA MakingExists ==
  ASSUME IInv, NEW r \in Requests, Making(r)
  PROVE  config[r] \in 1..Len(configs)
  BY DEF IInv, TypeOK, Ownership, Settings!TypeOK

\* The part of the type invariant that is about the configuration.
LEMMA SettingsTypeStep ==
  ASSUME IInv, [Next]_vars
  PROVE  Settings!TypeOK'
  <1> USE DEF Settings!TypeOK, Settings!Goto
  <1>0. Settings!TypeOK
    BY DEF IInv, TypeOK
  <1>1. ASSUME NEW r \in Requests, OnBeginRequest(r)
        PROVE  Settings!TypeOK'
    BY <1>0, <1>1, BoundsAssumption DEF OnBeginRequest, Settings!Metas
  <1>2. ASSUME NEW r \in Requests, GetConfig(r)
        PROVE  Settings!TypeOK'
    <2>1. CASE Settings!Lookup(r)
      <3>1. CASE container[meta[r]] # 0
        <4>1. container[meta[r]] \in 0..Len(configs)
          BY <1>0, <2>1, HasMeta DEF Settings!Lookup
        <4> QED BY <1>0, <2>1, <3>1, <4>1 DEF Settings!Lookup
      <3>2. CASE configs' = Append(configs, Settings!Fresh) /\ Len(configs) < MaxConfigs
        <4>1. configs' \in Seq(Settings!Config) /\ Len(configs') = Len(configs) + 1
          BY <1>0, <3>2, FreshEffect
        <4>2. config' = [config EXCEPT ![r] = Len(configs')] /\ container' = container
          BY <2>1, <3>2 DEF Settings!Lookup
        <4>3. container' \in [Settings!Metas -> 0..Len(configs')]
          BY <1>0, <4>1, <4>2
        <4>4. config' \in [Requests -> 0..Len(configs')]
          BY <1>0, <4>1, <4>2
        <4> QED BY <1>0, <2>1, <3>2, <4>1, <4>3, <4>4, BoundsAssumption DEF Settings!Lookup
      <3>3. CASE UNCHANGED <<configs, config>>
        BY <1>0, <2>1, <3>3 DEF Settings!Lookup
      <3> QED BY <2>1, <3>1, <3>2, <3>3 DEF Settings!Lookup
    <2>2. CASE Settings!Initialize(r)
      <3>1. config[r] \in 1..Len(configs)
        BY <2>2, MakingExists DEF Settings!Initialize, Making
      <3>2. CASE Settings!InitializeFails(r)
        BY <1>0, <2>2, <3>1, <3>2, DeletedEffect
           DEF Settings!Initialize, Settings!InitializeFails
      <3>3. CASE ~Settings!InitializeFails(r)
        <4>1. PICK reads \in Settings!Reads :
                LET got == Settings!Initialized(settings[Len(settings)], reads)
                IN  \/ /\ configs' = [configs EXCEPT ![config[r]].enabled = got.enabled,
                                                     ![config[r]].path = got.path]
                       /\ UNCHANGED <<worker, config>>
                    \/ /\ worker' = "down"
                       /\ UNCHANGED <<configs, config, pc>>
          BY <2>2, <3>3 DEF Settings!Initialize
        <4> DEFINE now == settings[Len(settings)]
                   got == Settings!Initialized(now, reads)
        <4>2. now \in Settings!Setting
          BY <1>0, ElementOfSeq, BoundsAssumption DEF Settings!Metas
        <4>3. got.enabled \in BOOLEAN /\ got.path \in {"none", "rules"}
          BY <4>2 DEF Settings!Initialized, Settings!Setting
        <4> HIDE DEF now, got
        <4>4. CASE worker' = "down" /\ UNCHANGED <<configs, config>>
          BY <1>0, <2>2, <4>4 DEF Settings!Initialize
        <4>5. CASE /\ configs' = [configs EXCEPT ![config[r]].enabled = got.enabled,
                                                 ![config[r]].path = got.path]
                   /\ UNCHANGED <<worker, config>>
          <5>1. configs' \in Seq(Settings!Config) /\ Len(configs') = Len(configs)
            BY <1>0, <3>1, <4>3, <4>5, FilledEffect
          <5> QED BY <1>0, <2>2, <4>5, <5>1 DEF Settings!Initialize
        <4> QED BY <4>1, <4>4, <4>5 DEF got, now
      <3> QED BY <3>2, <3>3
    <2>3. CASE Settings!StoreWins(r)
      BY <1>0, <2>3 DEF Settings!StoreWins
    <2>4. CASE Settings!StoreLoses(r)
      <3>1. config[r] \in 1..Len(configs) /\ container[meta[r]] \in 0..Len(configs)
        BY <1>0, <2>4, MakingExists, HasMeta DEF Settings!StoreLoses, Making
      <3> QED BY <1>0, <2>4, <3>1, DeletedEffect DEF Settings!StoreLoses
    <2>5. CASE Settings!StoreFails(r)
      <3>1. config[r] \in 1..Len(configs)
        BY <2>5, MakingExists DEF Settings!StoreFails, Making
      <3> QED BY <1>0, <2>5, <3>1, DeletedEffect DEF Settings!StoreFails
    <2> QED BY <1>2, <2>1, <2>2, <2>3, <2>4, <2>5 DEF GetConfig, Settings!GetConfig
  <1>3. ASSUME NEW r \in Requests, LaterStep(r)
        PROVE  Settings!TypeOK'
    <2>1. Afterwards(r)
      BY <1>3, LaterStepsAreAfterwards
    <2>2. worker' \in {"up", "down"}
      BY <1>0, <1>3 DEF LaterStep, ConfigFailed, UseConfig, GetRules, CreateFails,
         CreateContext, StoreContextFails, RawRequestMissing, RequestHeaders, RequestBody,
         Handler, OnSendResponse, EndRequest
    <2>3. config' \in [Requests -> 0..Len(configs)]
      <3>1. CASE config' = config
        BY <1>0, <3>1
      <3>2. CASE config' = [config EXCEPT ![r] = 0]
        BY <1>0, <3>2
      <3> QED BY <2>1, <3>1, <3>2 DEF Afterwards
    <2>4. UNCHANGED siteVars
      BY <2>1 DEF Afterwards
    <2> QED BY <1>0, <2>2, <2>3, <2>4 DEF siteVars
  <1>4. ASSUME Settings!Change
        PROVE  Settings!TypeOK'
    <2>1. PICK t \in Settings!Setting : settings' = Append(settings, t)
      BY <1>4 DEF Settings!Change
    <2>2. settings' \in Seq(Settings!Setting) /\ Len(settings') = Len(settings) + 1
      BY <1>0, <2>1, AppendProperties
    <2> QED BY <1>0, <1>4, <2>2, BoundsAssumption DEF Settings!Change, Settings!Metas
  <1>5. ASSUME NEW m \in Settings!Metas, Settings!Release(m)
        PROVE  Settings!TypeOK'
    <2>1. container[m] \in 1..Len(configs)
      BY <1>0, <1>5 DEF Settings!Release
    <2> QED BY <1>0, <1>5, <2>1, DeletedEffect DEF Settings!Release
  <1>6. ASSUME UNCHANGED vars
        PROVE  Settings!TypeOK'
    BY <1>0, <1>6 DEF vars, configVars, siteVars
  <1> QED BY <1>1, <1>2, <1>3, <1>4, <1>5, <1>6, NextCases

(***************************************************************************)
(* What the later steps do to the contexts of a request: nothing, or a new *)
(* one is stored, or an orphan is made and released, or an intervention or *)
(* IIS ends the transaction of the stored one.                             *)
(***************************************************************************)
NothingTold(r) == \A i \in 1..Len(contexts[r]) : contexts[r][i].told = {}

Quiet(r) ==
  /\ UNCHANGED <<contexts, stored>>
  /\ \/ wire' = wire
     \/ NothingTold(r) /\ \E w \in StatusCodes : wire' = [wire EXCEPT ![r] = w]
  /\ pc'[r] = "ended" => stored[r] = 0
  /\ pc'[r] = "body" => pc[r] = "phase1"
  /\ pc'[r] # "phase1"
  /\ Late(r) => Late(r)'

Stored(r) ==
  /\ stored[r] = 0
  /\ Adds(r, NewContext)
  /\ stored' = [stored EXCEPT ![r] = Len(contexts[r]) + 1]
  /\ pc[r] = "create" /\ pc'[r] = "phase1"
  /\ UNCHANGED wire

Orphaned(r) ==
  /\ \E x \in Context : Adds(r, x) /\ Sound(x) /\ x.m_pTx = "null" /\ x.told = {}
  /\ UNCHANGED <<stored, wire>>
  /\ pc[r] = "create"
  /\ pc'[r] = IF stored[r] # 0 THEN "resume" ELSE "response"

Intervened(r) ==
  /\ stored[r] # 0
  /\ contexts[r][stored[r]].m_pTx = "set"
  /\ \E x \in Context : Updates(r, x) /\ Sound(x) /\ x.m_pTx = "null" /\ x.told = {wire'[r]}
  /\ UNCHANGED stored
  /\ wire' \in [Requests -> StatusCodes]
  /\ \A s \in Requests : s # r => wire'[s] = wire[s]
  /\ pc'[r] \in {"response", "end"}

Released(r) ==
  /\ stored[r] # 0
  /\ \E x \in Context : /\ Updates(r, x) /\ Sound(x) /\ x.m_pTx = "null"
                        /\ x.told = contexts[r][stored[r]].told
  /\ UNCHANGED <<stored, wire>>
  /\ pc[r] = "end" /\ pc'[r] = "ended"

\* A request that has not got its answer, or still has its transaction, has
\* told the engine nothing.
LEMMA ToldNothing ==
  ASSUME IInv, NEW r \in Requests,
         ~Late(r) \/ (stored[r] # 0 /\ contexts[r][stored[r]].m_pTx = "set")
  PROVE  NothingTold(r)
  BY DEF IInv, Endings, NothingTold, Sound

\* The five cases are all there are.
LEMMA LaterContexts ==
  ASSUME IInv, NEW r \in Requests, LaterStep(r)
  PROVE  Quiet(r) \/ Stored(r) \/ Orphaned(r) \/ Intervened(r) \/ Released(r)
  <1>0. /\ r \in DOMAIN pc
        /\ wire \in [Requests -> StatusCodes]
        /\ contexts \in [Requests -> Seq(Context)]
    BY RequestTypes
  <1> USE DEF Goto, Forget, Continue, Finish, siteVars, configVars, SetStatus
  <1>1. CASE ConfigFailed(r)
    <2>1. NothingTold(r)
      BY <1>1, ToldNothing DEF ConfigFailed, Late
    <2> QED BY <1>0, <1>1, <2>1 DEF ConfigFailed, FailPolicy, Quiet, Late, StatusCodes
  <1>2. CASE UseConfig(r)
    <2>1. config[r] # 0
      BY <1>2 DEF UseConfig, IInv, UsesLiveConfig
    <2> QED BY <1>0, <1>2, <2>1 DEF UseConfig, ownVars, Quiet, Late
  <1>3. CASE GetRules(r)
    <2>1. NothingTold(r)
      BY <1>3, ToldNothing DEF GetRules, Late
    <2> QED BY <1>0, <1>3, <2>1 DEF GetRules, FailPolicy, Quiet, Late, StatusCodes
  <1>4. CASE CreateFails(r)
    BY <1>0, <1>4 DEF CreateFails, ownVars, Quiet, Late
  <1>5. CASE CreateContext(r)
    <2>1. Len(contexts'[r]) = Len(contexts[r]) + 1
      BY <1>0, <1>5, NewContextType, AddEffect DEF CreateContext, Adds
    <2> QED BY <1>0, <1>5, <2>1 DEF CreateContext, Stored, Adds
  <1>6. CASE StoreContextFails(r)
    <2>1. PICK throws \in BOOLEAN : Adds(r, CleanupStoredContext(NewContext, throws))
      BY <1>6 DEF StoreContextFails, Adds
    <2> DEFINE x == CleanupStoredContext(NewContext, throws)
    <2>2. x \in Context /\ Sound(x) /\ x.m_pTx = "null" /\ x.told = {}
      <3>1. x = FinishRequest(NewContext, throws)
        BY <2>1, CleanupEnds, NewContextType
      <3>2. /\ NewContext.logs = 0 /\ NewContext.frees = 0 /\ ~NewContext.logThrew
            /\ NewContext.told = {}
        BY DEF NewContext
      <3> QED BY <2>1, <3>1, <3>2, FinishRequestEnds, NewContextType
    <2> HIDE DEF x
    <2>3. Adds(r, x)
      BY <2>1 DEF x
    <2>4. /\ UNCHANGED <<stored, wire>>
          /\ pc[r] = "create"
          /\ pc'[r] = IF stored[r] # 0 THEN "resume" ELSE "response"
      BY <1>0, <1>6 DEF StoreContextFails
    <2> QED BY <2>2, <2>3, <2>4 DEF Orphaned
  <1>7. CASE RawRequestMissing(r)
    BY <1>0, <1>7 DEF RawRequestMissing, Quiet, Late
  <1> DEFINE Live == stored[r] # 0 /\ contexts[r][stored[r]].m_pTx = "set"
  <1>20. ASSUME Live, ApplyIntervention(r), UNCHANGED stored, pc'[r] \in {"response", "end"}
         PROVE  Intervened(r)
    BY <1>20, InterventionEffect DEF Intervened
  <1>21. pc[r] \in {"phase1", "body"} => Live
    BY DEF IInv, Endings, Late
  <1>22. ASSUME pc[r] \in {"phase1", "body"}
         PROVE  NothingTold(r)
    BY <1>22, ToldNothing DEF Late
  <1> HIDE DEF Live
  <1>8. CASE RequestHeaders(r)
    <2>1. CASE ApplyIntervention(r) /\ Finish(r)
      BY <1>0, <1>8, <2>1, <1>20, <1>21 DEF RequestHeaders
    <2>2. CASE ~(ApplyIntervention(r) /\ Finish(r))
      BY <1>0, <1>8, <2>2 DEF RequestHeaders, Quiet, Late
    <2> QED BY <2>1, <2>2
  <1>9. CASE RequestBody(r)
    <2>1. CASE ApplyIntervention(r) /\ Finish(r)
      BY <1>0, <1>9, <2>1, <1>20, <1>21 DEF RequestBody
    <2>2. CASE ~(ApplyIntervention(r) /\ Finish(r))
      <3>1. NothingTold(r)
        BY <1>9, <1>22 DEF RequestBody
      <3> QED BY <1>0, <1>9, <2>2, <3>1 DEF RequestBody, Quiet, Late, StatusCodes
    <2> QED BY <2>1, <2>2
  <1>10. CASE Handler(r)
    BY <1>0, <1>10 DEF Handler, Quiet, Late
  <1>11. CASE OnSendResponse(r)
    <2>1. CASE Live /\ ApplyIntervention(r)
      BY <1>0, <1>11, <2>1, <1>20 DEF OnSendResponse
    <2>2. CASE ~(Live /\ ApplyIntervention(r))
      <3>1. wire' = wire \/ (NothingTold(r) /\ wire' = [wire EXCEPT ![r] = 500])
        BY <1>11, <2>2, ToldNothing DEF OnSendResponse, Live
      <3> QED BY <1>0, <1>11, <2>2, <3>1 DEF OnSendResponse, Quiet, Late, Live, StatusCodes
    <2> QED BY <2>1, <2>2
  <1>12. CASE EndRequest(r)
    <2>1. CASE stored[r] = 0
      BY <1>0, <1>12, <2>1 DEF EndRequest, Quiet, Late
    <2>2. CASE stored[r] # 0
      <3> DEFINE x0 == contexts[r][stored[r]]
      <3>1. PICK throws \in BOOLEAN : Updates(r, CleanupStoredContext(x0, throws))
        BY <1>12, <2>2 DEF EndRequest, Updates
      <3>2. x0 \in Context /\ Sound(x0)
        <4>1. stored[r] \in 1..Len(contexts[r])
          BY <2>2 DEF IInv, Endings
        <4>2. x0 \in Context
          BY <1>0, <4>1, ElementOfSeq
        <4> QED BY <4>1, <4>2 DEF IInv, Endings
      <3> HIDE DEF x0
      <3> DEFINE x == CleanupStoredContext(x0, throws)
      <3>3. x \in Context /\ Sound(x) /\ x.m_pTx = "null" /\ x.told = x0.told
        BY <3>1, <3>2, CleanupEnds, FinishRequestEnds DEF Sound
      <3> HIDE DEF x
      <3> QED BY <1>0, <1>12, <2>2, <3>1, <3>3 DEF EndRequest, Released, x, x0
    <2> QED BY <2>1, <2>2
  <1> QED BY <1>1, <1>2, <1>3, <1>4, <1>5, <1>6, <1>7, <1>8, <1>9, <1>10, <1>11, <1>12
          DEF LaterStep

\* The rest of the type invariant.
OwnTypes ==
  /\ cell \in [{File} -> {"rules", NoRules}]
  /\ served \in [{File} -> SUBSET {"rules", NoRules}]
  /\ pc \in [Requests -> {"away", "lookup", "initialize", "store", "configFailed", "use",
                          "rules", "create", "phase1", "body", "resume", "response",
                          "end", "ended"}]
  /\ failClosed \in BOOLEAN
  /\ notified \in [Requests -> 0..MaxNotify]
  /\ consented \in [Requests -> BOOLEAN]
  /\ rawMissing \in [Requests -> BOOLEAN]
  /\ handled \in [Requests -> BOOLEAN]

ContextTypes ==
  /\ contexts \in [Requests -> Seq(Context)]
  /\ \A r \in Requests : Len(contexts[r]) <= notified[r]
  /\ stored \in [Requests -> 0..MaxNotify]
  /\ wire \in [Requests -> StatusCodes]

\* TypeOK in three parts, each with a lemma of its own.
LEMMA TypeParts == TypeOK <=> Settings!TypeOK /\ OwnTypes /\ ContextTypes
  BY DEF TypeOK, OwnTypes, ContextTypes

\* The second part survives every step.
LEMMA OwnTypesStep ==
  ASSUME IInv, [Next]_vars
  PROVE  OwnTypes'
  <1>0. OwnTypes
    BY TypeParts DEF IInv
  <1> USE DEF OwnTypes, Goto, Forget, Continue, Finish
  <1>1. ASSUME NEW r \in Requests, OnBeginRequest(r)
        PROVE  OwnTypes'
    BY <1>0, <1>1, BoundsAssumption DEF OnBeginRequest, rulesVars
  <1>2. ASSUME NEW r \in Requests, GetConfig(r)
        PROVE  OwnTypes'
    BY <1>0, <1>2 DEF GetConfig, rulesVars, ownVars, Settings!GetConfig, Settings!Lookup,
       Settings!Initialize, Settings!InitializeFails, Settings!StoreWins,
       Settings!StoreLoses, Settings!StoreFails, Settings!Goto
  <1>3. ASSUME NEW r \in Requests, LaterStep(r)
        PROVE  OwnTypes'
    <2>1. pc' \in [Requests -> {"away", "lookup", "initialize", "store", "configFailed", "use",
                          "rules", "create", "phase1", "body", "resume", "response",
                          "end", "ended"}]
      BY <1>0, <1>3, LaterStepsAreAfterwards DEF Afterwards
    <2>2. UNCHANGED <<failClosed, notified>>
      BY <1>3 DEF LaterStep, ConfigFailed, UseConfig, GetRules, CreateFails,
         CreateContext, StoreContextFails, RawRequestMissing, RequestHeaders, RequestBody,
         Handler, OnSendResponse, EndRequest, ownVars
    <2>3. /\ cell' \in [{File} -> {"rules", NoRules}]
          /\ served' \in [{File} -> SUBSET {"rules", NoRules}]
      <3>1. CASE GetRules(r)
        BY <1>0, <3>1 DEF GetRules, Store!Fill, Store!Serve, Store!Refuse, rulesVars
      <3>2. CASE ~GetRules(r)
        BY <1>0, <1>3, <3>2 DEF LaterStep, ConfigFailed, UseConfig, CreateFails,
           CreateContext, StoreContextFails, RawRequestMissing, RequestHeaders, RequestBody,
           Handler, OnSendResponse, EndRequest, ownVars, rulesVars
      <3> QED BY <3>1, <3>2
    <2>4. /\ consented' \in [Requests -> BOOLEAN]
          /\ rawMissing' \in [Requests -> BOOLEAN]
          /\ handled' \in [Requests -> BOOLEAN]
      BY <1>0, <1>3 DEF LaterStep, ConfigFailed, UseConfig, GetRules, CreateFails,
         CreateContext, StoreContextFails, RawRequestMissing, RequestHeaders, RequestBody,
         Handler, OnSendResponse, EndRequest, ownVars
    <2> QED BY <1>0, <2>1, <2>2, <2>3, <2>4
  <1>4. ASSUME Settings!Change, UNCHANGED <<rulesVars, ownVars>>
        PROVE  OwnTypes'
    BY <1>0, <1>4 DEF Settings!Change, rulesVars, ownVars
  <1>5. ASSUME NEW m \in Settings!Metas, Settings!Release(m), UNCHANGED <<rulesVars, ownVars>>
        PROVE  OwnTypes'
    BY <1>0, <1>5 DEF Settings!Release, rulesVars, ownVars
  <1>6. ASSUME UNCHANGED vars
        PROVE  OwnTypes'
    BY <1>0, <1>6 DEF vars, rulesVars, ownVars
  <1> QED BY <1>1, <1>2, <1>3, <1>4, <1>5, <1>6, NextCases

\* Steps other than the later ones leave the contexts alone.
LEMMA EarlierSteps ==
  ASSUME IInv, [Next]_vars
  PROVE  \/ \E r \in Requests : OnBeginRequest(r)
         \/ \E r \in Requests : LaterStep(r)
         \/ /\ UNCHANGED ownVars
            /\ \A r \in Requests :
                 \/ pc'[r] = pc[r]
                 \/ Acquiring(r) /\ Acquiring(r)'
  <1>0. pc \in [Requests -> {"away", "lookup", "initialize", "store", "configFailed", "use",
                          "rules", "create", "phase1", "body", "resume", "response",
                          "end", "ended"}]
    BY DEF IInv, TypeOK
  <1>1. ASSUME NEW r \in Requests, GetConfig(r)
        PROVE  /\ UNCHANGED ownVars
               /\ \A s \in Requests : pc'[s] = pc[s] \/ (Acquiring(s) /\ Acquiring(s)')
    <2>1. pc[r] \in {"lookup", "initialize", "store"}
      BY <1>1 DEF GetConfig, Settings!GetConfig, Settings!Lookup, Settings!Initialize,
         Settings!StoreWins, Settings!StoreLoses, Settings!StoreFails
    <2>2. \/ pc' = pc
          \/ \E w \in {"use", "initialize", "store", "configFailed"} :
               pc' = [pc EXCEPT ![r] = w]
      BY <1>1 DEF GetConfig, Settings!GetConfig, Settings!Lookup, Settings!Initialize,
         Settings!InitializeFails, Settings!StoreWins, Settings!StoreLoses,
         Settings!StoreFails, Settings!Goto
    <2>3. UNCHANGED ownVars
      BY <1>1 DEF GetConfig
    <2>4. CASE pc' = pc
      BY <2>3, <2>4
    <2>5. ASSUME NEW w \in {"use", "initialize", "store", "configFailed"},
                 pc' = [pc EXCEPT ![r] = w], NEW s \in Requests
          PROVE  pc'[s] = pc[s] \/ (Acquiring(s) /\ Acquiring(s)')
      <3>1. CASE s = r
        BY <1>0, <2>1, <2>5, <3>1 DEF Acquiring
      <3>2. CASE s # r
        BY <1>0, <2>5, <3>2
      <3> QED BY <3>1, <3>2
    <2> QED BY <2>2, <2>3, <2>4, <2>5
  <1>2. ASSUME Settings!Change \/ \E m \in Settings!Metas : Settings!Release(m)
        PROVE  UNCHANGED pc
    BY <1>2 DEF Settings!Change, Settings!Release
  <1>3. ASSUME UNCHANGED vars
        PROVE  UNCHANGED <<pc, ownVars>>
    BY <1>3 DEF vars
  <1> QED BY <1>1, <1>2, <1>3, NextCases

(***************************************************************************)
(* The contexts and their transactions.                                    *)
(***************************************************************************)

\* The contexts of another request are not touched.
SameContexts(s) ==
  /\ contexts'[s] = contexts[s] /\ stored'[s] = stored[s] /\ wire'[s] = wire[s]
  /\ notified'[s] = notified[s]
  /\ pc'[s] = pc[s] \/ (Acquiring(s) /\ Acquiring(s)')

\* The invariants about one context of a request, and about all of them.
EndingOf(r, i) ==
  /\ Sound(contexts[r][i])
  /\ i # stored[r] => contexts[r][i].m_pTx = "null" /\ contexts[r][i].told = {}
  /\ contexts[r][i].told # {} => Late(r) /\ contexts[r][i].told = {wire[r]}
  /\ i = stored[r] /\ ~Late(r) => contexts[r][i].m_pTx = "set"
  /\ pc[r] = "ended" => contexts[r][i].m_pTx = "null"

EndingsOf(r) ==
  /\ Acquiring(r) => Len(contexts[r]) < notified[r]
  /\ Len(contexts[r]) <= notified[r]
  /\ stored[r] \in 0..Len(contexts[r])
  /\ pc[r] = "away" => stored[r] = 0
  /\ pc[r] \in {"phase1", "body"} => stored[r] # 0
  /\ \A i \in 1..Len(contexts[r]) : EndingOf(r, i)

\* The inductive invariant, read for one request.
LEMMA EndingsParts ==
  IInv => \A r \in Requests : EndingsOf(r)
  <1> SUFFICES ASSUME IInv, NEW r \in Requests
               PROVE  EndingsOf(r)
    OBVIOUS
  <1>1. Len(contexts[r]) <= notified[r]
    BY DEF IInv, TypeOK
  <1>2. Acquiring(r) => Len(contexts[r]) < notified[r]
    BY DEF IInv, Counts
  <1>3. /\ stored[r] \in 0..Len(contexts[r])
        /\ pc[r] = "away" => stored[r] = 0
        /\ pc[r] \in {"phase1", "body"} => stored[r] # 0
    BY DEF IInv, Endings
  <1>4. ASSUME NEW i \in 1..Len(contexts[r])
        PROVE  EndingOf(r, i)
    BY <1>4 DEF IInv, Endings, EndingOf
  <1> QED BY <1>1, <1>2, <1>3, <1>4 DEF EndingsOf

\* A request whose contexts are not touched keeps the invariants.
LEMMA SameContextsKeep ==
  ASSUME NEW s \in Requests, EndingsOf(s), SameContexts(s)
  PROVE  EndingsOf(s)'
  <1>1. CASE pc'[s] = pc[s]
    BY <1>1 DEF SameContexts, EndingsOf, EndingOf, Acquiring, Late, Sound
  <1>2. CASE Acquiring(s) /\ Acquiring(s)'
    BY <1>2 DEF SameContexts, EndingsOf, EndingOf, Acquiring, Late, Sound
  <1> QED BY <1>1, <1>2 DEF SameContexts

\* A later step leaves the invariants of its request and the types intact.
LEMMA LaterEndings ==
  ASSUME IInv, NEW r \in Requests, LaterStep(r)
  PROVE  /\ EndingsOf(r)'
         /\ contexts' \in [Requests -> Seq(Context)]
         /\ stored' \in [Requests -> Nat]
         /\ wire' \in [Requests -> StatusCodes]
         /\ \A s \in Requests : s # r => SameContexts(s)
  <1>0. /\ contexts \in [Requests -> Seq(Context)]
        /\ stored \in [Requests -> Nat]
        /\ wire \in [Requests -> StatusCodes]
        /\ notified \in [Requests -> Nat]
        /\ EndingsOf(r)
        /\ Len(contexts[r]) \in Nat
    <2>1. /\ contexts \in [Requests -> Seq(Context)]
          /\ stored \in [Requests -> 0..MaxNotify]
          /\ wire \in [Requests -> StatusCodes]
          /\ notified \in [Requests -> 0..MaxNotify]
      BY RequestTypes
    <2>2. stored \in [Requests -> Nat] /\ notified \in [Requests -> Nat]
      BY <2>1, BoundsAssumption
    <2>3. Len(contexts[r]) \in Nat
      BY <2>1, LenProperties
    <2> QED BY <2>1, <2>2, <2>3, EndingsParts
  <1>1. /\ pc'[r] \in {"rules", "create", "phase1", "body", "resume", "response", "end", "ended"}
        /\ Acquiring(r)' => Acquiring(r)
        /\ \A s \in Requests : s # r => pc'[s] = pc[s]
    <2>1. r \in DOMAIN pc /\ DOMAIN pc = Requests
      BY RequestTypes
    <2> QED BY <2>1, LaterStepsAreAfterwards DEF Afterwards, Acquiring
  <1>2. notified' = notified
    BY DEF LaterStep, ConfigFailed, UseConfig, GetRules, CreateFails,
       CreateContext, StoreContextFails, RawRequestMissing, RequestHeaders, RequestBody,
       Handler, OnSendResponse, EndRequest, ownVars
  <1>3. CASE Quiet(r)
    <2>1. /\ contexts' = contexts /\ stored' = stored
          /\ wire' \in [Requests -> StatusCodes]
          /\ \A s \in Requests : s # r => wire'[s] = wire[s]
          /\ wire'[r] = wire[r] \/ NothingTold(r)
          /\ pc'[r] = "ended" => stored[r] = 0
          /\ pc'[r] = "body" => pc[r] = "phase1"
          /\ pc'[r] # "phase1"
          /\ Late(r) => Late(r)'
      <3>1. /\ contexts' = contexts /\ stored' = stored
            /\ pc'[r] = "ended" => stored[r] = 0
            /\ pc'[r] = "body" => pc[r] = "phase1"
            /\ pc'[r] # "phase1"
            /\ Late(r) => Late(r)'
        BY <1>3 DEF Quiet
      <3>2. /\ wire' \in [Requests -> StatusCodes]
            /\ \A s \in Requests : s # r => wire'[s] = wire[s]
            /\ wire'[r] = wire[r] \/ NothingTold(r)
        <4>1. CASE wire' = wire
          BY <1>0, <4>1
        <4>2. CASE NothingTold(r) /\ \E w \in StatusCodes : wire' = [wire EXCEPT ![r] = w]
          <5>1. PICK w \in StatusCodes : wire' = [wire EXCEPT ![r] = w]
            BY <4>2
          <5>2. /\ wire' \in [Requests -> StatusCodes]
                /\ \A s \in Requests : s # r => wire'[s] = wire[s]
            BY <1>0, <5>1
          <5> QED BY <4>2, <5>2
        <4> QED BY <1>3, <4>1, <4>2 DEF Quiet
      <3> QED BY <3>1, <3>2
    <2>2. EndingsOf(r)'
      <3>1. ASSUME NEW i \in 1..Len(contexts[r])
            PROVE  EndingOf(r, i)'
        <4>1. EndingOf(r, i)
          BY <1>0, <3>1 DEF EndingsOf
        <4>2. NothingTold(r) => contexts[r][i].told = {}
          BY <3>1 DEF NothingTold
        <4>3. i = stored[r] => pc'[r] # "ended"
          BY <2>1, <3>1
        <4> QED BY <2>1, <4>1, <4>2, <4>3 DEF EndingOf, Sound
      <3> QED BY <1>0, <1>1, <1>2, <2>1, <3>1 DEF EndingsOf
    <2>3. \A s \in Requests : s # r => SameContexts(s)
      BY <1>1, <1>2, <2>1 DEF SameContexts
    <2>4. contexts' \in [Requests -> Seq(Context)] /\ stored' \in [Requests -> Nat]
      BY <1>0, <2>1
    <2> QED BY <2>1, <2>2, <2>3, <2>4
  <1>4. CASE Stored(r)
    <2>1. /\ contexts' \in [Requests -> Seq(Context)]
          /\ \A s \in Requests : s # r => contexts'[s] = contexts[s]
          /\ Len(contexts'[r]) = Len(contexts[r]) + 1
          /\ \A i \in 1..Len(contexts'[r]) : contexts'[r][i] =
               IF i = Len(contexts[r]) + 1 THEN NewContext ELSE contexts[r][i]
      BY <1>0, <1>4, NewContextType, AddEffect DEF Stored
    <2>2. stored' = [stored EXCEPT ![r] = Len(contexts[r]) + 1] /\ wire' = wire
          /\ pc[r] = "create" /\ pc'[r] = "phase1" /\ stored[r] = 0
      BY <1>4 DEF Stored
    <2>3. NewContext.told = {} /\ Sound(NewContext) /\ NewContext.m_pTx = "set"
      BY NewContextType DEF NewContext
    <2>4. EndingsOf(r)'
      <3>1. ~Late(r) /\ ~Late(r)' /\ ~Acquiring(r)' /\ pc'[r] # "away"
            /\ stored'[r] = Len(contexts[r]) + 1
        BY <1>0, <2>2 DEF Late, Acquiring
      <3>2. ASSUME NEW i \in 1..Len(contexts'[r]), i # Len(contexts[r]) + 1
            PROVE  i \in 1..Len(contexts[r]) /\ contexts'[r][i] = contexts[r][i]
        BY <1>0, <2>1, <3>2
      <3>3. contexts'[r][Len(contexts[r]) + 1] = NewContext
        BY <1>0, <2>1
      <3>4. \A i \in 1..Len(contexts'[r]) : EndingOf(r, i)'
        <4>1. ASSUME NEW i \in 1..Len(contexts'[r]), i # Len(contexts[r]) + 1
              PROVE  EndingOf(r, i)'
          <5>1. /\ Sound(contexts[r][i])
                /\ contexts[r][i].m_pTx = "null" /\ contexts[r][i].told = {}
            BY <1>0, <2>2, <3>2, <4>1 DEF EndingsOf, EndingOf
          <5> QED BY <2>2, <3>1, <3>2, <4>1, <5>1 DEF EndingOf, Sound
        <4>2. ASSUME NEW i \in 1..Len(contexts'[r]), i = Len(contexts[r]) + 1
              PROVE  EndingOf(r, i)'
          BY <2>2, <2>3, <3>1, <3>3, <4>2 DEF EndingOf, Sound
        <4> QED BY <4>1, <4>2
      <3>5. Len(contexts[r]) < notified[r]
        BY <1>0, <2>2 DEF EndingsOf, Acquiring
      <3> QED BY <1>0, <1>2, <2>1, <2>2, <3>1, <3>4, <3>5 DEF EndingsOf
    <2>5. /\ stored' \in [Requests -> Nat]
          /\ \A s \in Requests : s # r => stored'[s] = stored[s]
      BY <1>0, <2>2
    <2>6. \A s \in Requests : s # r => SameContexts(s)
      BY <1>1, <1>2, <2>1, <2>2, <2>5 DEF SameContexts
    <2> QED BY <1>0, <2>1, <2>2, <2>4, <2>5, <2>6
  <1>5. CASE Orphaned(r)
    <2>1. PICK x \in Context : Adds(r, x) /\ Sound(x) /\ x.m_pTx = "null" /\ x.told = {}
      BY <1>5 DEF Orphaned
    <2>2. /\ contexts' \in [Requests -> Seq(Context)]
          /\ \A s \in Requests : s # r => contexts'[s] = contexts[s]
          /\ Len(contexts'[r]) = Len(contexts[r]) + 1
          /\ \A i \in 1..Len(contexts'[r]) : contexts'[r][i] =
               IF i = Len(contexts[r]) + 1 THEN x ELSE contexts[r][i]
      BY <1>0, <2>1, AddEffect
    <2>3. stored' = stored /\ wire' = wire /\ pc[r] = "create"
          /\ pc'[r] = IF stored[r] # 0 THEN "resume" ELSE "response"
      BY <1>5 DEF Orphaned
    <2>4. EndingsOf(r)'
      <3>1. (~Late(r) /\ ~Late(r)') \/ stored[r] = 0
        BY <2>3 DEF Late
      <3>2. ASSUME NEW i \in 1..Len(contexts'[r]), i # Len(contexts[r]) + 1
            PROVE  i \in 1..Len(contexts[r]) /\ contexts'[r][i] = contexts[r][i]
        BY <1>0, <2>2, <3>2
      <3>3. contexts'[r][Len(contexts[r]) + 1] = x /\ Len(contexts[r]) + 1 # stored[r]
        BY <1>0, <2>2 DEF EndingsOf
      <3>4. \A i \in 1..Len(contexts'[r]) : EndingOf(r, i)'
        <4>1. ASSUME NEW i \in 1..Len(contexts'[r]), i # Len(contexts[r]) + 1
              PROVE  EndingOf(r, i)'
          <5>1. EndingOf(r, i) /\ contexts'[r][i] = contexts[r][i]
            BY <1>0, <3>2, <4>1 DEF EndingsOf
          <5>2. /\ Sound(contexts[r][i])
                /\ i # stored[r] => /\ contexts[r][i].m_pTx = "null"
                                   /\ contexts[r][i].told = {}
                /\ i = stored[r] => /\ contexts[r][i].m_pTx = "set"
                                   /\ ~Late(r) /\ ~Late(r)'
            <6>1. i # 0
              BY <1>0, <4>1, <3>2
            <6> QED BY <3>1, <5>1, <6>1 DEF EndingOf
          <5>3. contexts[r][i].told = {} /\ pc'[r] # "ended"
            BY <2>3, <5>2 DEF Sound
          <5> QED BY <2>3, <5>1, <5>2, <5>3 DEF EndingOf, Sound
        <4>2. ASSUME NEW i \in 1..Len(contexts'[r]), i = Len(contexts[r]) + 1
              PROVE  EndingOf(r, i)'
          BY <2>1, <2>3, <3>3, <4>2 DEF EndingOf, Sound
        <4> QED BY <4>1, <4>2
      <3> QED BY <1>0, <1>1, <1>2, <2>2, <2>3, <3>4 DEF EndingsOf, Acquiring
    <2>5. \A s \in Requests : s # r => SameContexts(s)
      BY <1>1, <1>2, <2>2, <2>3 DEF SameContexts
    <2>6. stored' \in [Requests -> Nat] /\ wire' \in [Requests -> StatusCodes]
      BY <1>0, <2>3
    <2> QED BY <2>2, <2>4, <2>5, <2>6
  <1>6. CASE Intervened(r)
    <2>1. PICK x \in Context :
            Updates(r, x) /\ Sound(x) /\ x.m_pTx = "null" /\ x.told = {wire'[r]}
      BY <1>6 DEF Intervened
    <2>2. stored[r] \in 1..Len(contexts[r])
      BY <1>0, <1>6 DEF Intervened, EndingsOf
    <2>3. /\ contexts' \in [Requests -> Seq(Context)]
          /\ \A s \in Requests : s # r => contexts'[s] = contexts[s]
          /\ Len(contexts'[r]) = Len(contexts[r])
          /\ \A i \in 1..Len(contexts[r]) :
               contexts'[r][i] = IF i = stored[r] THEN x ELSE contexts[r][i]
      BY <1>0, <2>1, <2>2, UpdateEffect
    <2>4. /\ stored' = stored /\ wire' \in [Requests -> StatusCodes]
          /\ \A s \in Requests : s # r => wire'[s] = wire[s]
          /\ pc'[r] \in {"response", "end"}
      BY <1>6 DEF Intervened
    <2>5. EndingsOf(r)'
      <3>1. Late(r)'
        BY <2>4 DEF Late
      <3>2. ASSUME NEW i \in 1..Len(contexts[r]), i # stored[r]
            PROVE  EndingOf(r, i)'
        <4>1. EndingOf(r, i) /\ contexts'[r][i] = contexts[r][i]
          BY <1>0, <2>3, <3>2 DEF EndingsOf
        <4> QED BY <2>4, <3>2, <4>1 DEF EndingOf, Sound
      <3>3. EndingOf(r, stored[r])'
        BY <2>1, <2>2, <2>3, <2>4, <3>1 DEF EndingOf, Sound
      <3> QED BY <1>0, <1>1, <1>2, <2>2, <2>3, <2>4, <3>2, <3>3 DEF EndingsOf, Acquiring
    <2>6. \A s \in Requests : s # r => SameContexts(s)
      BY <1>1, <1>2, <2>3, <2>4 DEF SameContexts
    <2>7. stored' \in [Requests -> Nat] /\ wire' \in [Requests -> StatusCodes]
      BY <1>0, <2>4
    <2> QED BY <2>3, <2>5, <2>6, <2>7
  <1>7. CASE Released(r)
    <2>1. PICK x \in Context : /\ Updates(r, x) /\ Sound(x) /\ x.m_pTx = "null"
                               /\ x.told = contexts[r][stored[r]].told
      BY <1>7 DEF Released
    <2>2. stored[r] \in 1..Len(contexts[r])
      BY <1>0, <1>7 DEF Released, EndingsOf
    <2>3. /\ contexts' \in [Requests -> Seq(Context)]
          /\ \A s \in Requests : s # r => contexts'[s] = contexts[s]
          /\ Len(contexts'[r]) = Len(contexts[r])
          /\ \A i \in 1..Len(contexts[r]) :
               contexts'[r][i] = IF i = stored[r] THEN x ELSE contexts[r][i]
      BY <1>0, <2>1, <2>2, UpdateEffect
    <2>4. stored' = stored /\ wire' = wire /\ pc'[r] = "ended"
      BY <1>7 DEF Released
    <2>5. EndingsOf(r)'
      <3>1. Late(r)'
        BY <2>4 DEF Late
      <3>2. ASSUME NEW i \in 1..Len(contexts[r]), i # stored[r]
            PROVE  EndingOf(r, i)'
        <4>1. EndingOf(r, i) /\ contexts'[r][i] = contexts[r][i]
          BY <1>0, <2>3, <3>2 DEF EndingsOf
        <4> QED BY <2>4, <3>2, <4>1 DEF EndingOf, Sound
      <3>3. EndingOf(r, stored[r])'
        <4>1. EndingOf(r, stored[r]) /\ contexts'[r][stored[r]] = x
          BY <1>0, <2>2, <2>3 DEF EndingsOf
        <4> QED BY <2>1, <2>4, <3>1, <4>1 DEF EndingOf, Sound
      <3> QED BY <1>0, <1>1, <1>2, <2>2, <2>3, <2>4, <3>2, <3>3 DEF EndingsOf, Acquiring
    <2>6. \A s \in Requests : s # r => SameContexts(s)
      BY <1>1, <1>2, <2>3, <2>4 DEF SameContexts
    <2>7. stored' \in [Requests -> Nat] /\ wire' \in [Requests -> StatusCodes]
      BY <1>0, <2>4
    <2> QED BY <2>3, <2>5, <2>6, <2>7
  <1> QED BY <1>3, <1>4, <1>5, <1>6, <1>7, LaterContexts

ContextInv ==
  /\ contexts \in [Requests -> Seq(Context)]
  /\ stored \in [Requests -> Nat]
  /\ wire \in [Requests -> StatusCodes]
  /\ \A s \in Requests : EndingsOf(s)

\* The invariants about the contexts survive every step.
LEMMA ContextsStep ==
  ASSUME IInv, [Next]_vars
  PROVE  ContextTypes' /\ Counts' /\ Endings'
  <1>0. /\ contexts \in [Requests -> Seq(Context)]
        /\ stored \in [Requests -> 0..MaxNotify]
        /\ wire \in [Requests -> StatusCodes]
        /\ notified \in [Requests -> 0..MaxNotify]
        /\ \A s \in Requests : EndingsOf(s)
    BY EndingsParts, RequestTypes
  <1>1. stored \in [Requests -> Nat]
    BY <1>0, BoundsAssumption
  <1>2. ContextInv'
    <2>1. ASSUME NEW r \in Requests, LaterStep(r)
          PROVE  ContextInv'
      <3>1. /\ EndingsOf(r)'
            /\ contexts' \in [Requests -> Seq(Context)]
            /\ stored' \in [Requests -> Nat]
            /\ wire' \in [Requests -> StatusCodes]
            /\ \A s \in Requests : s # r => SameContexts(s)
        BY <2>1, LaterEndings, Zenon
      <3>2. \A s \in Requests : EndingsOf(s)'
        BY <1>0, <3>1, SameContextsKeep
      <3> QED BY <3>1, <3>2 DEF ContextInv
    <2>2. ASSUME NEW r \in Requests, OnBeginRequest(r)
          PROVE  ContextInv'
      <3>1. /\ UNCHANGED <<contexts, stored, wire>>
            /\ pc[r] \in {"away", "resume"}
            /\ notified' = [notified EXCEPT ![r] = @ + 1]
            /\ pc' = [pc EXCEPT ![r] = "lookup"]
        BY <2>2 DEF OnBeginRequest, Goto
      <3>2. DOMAIN pc = Requests
        BY RequestTypes
      <3>3. \A s \in Requests : s # r => SameContexts(s)
        BY <1>0, <3>1, <3>2 DEF SameContexts
      <3>4. EndingsOf(r)'
        <4>1. /\ notified'[r] = notified[r] + 1 /\ pc'[r] = "lookup"
              /\ contexts'[r] = contexts[r] /\ stored'[r] = stored[r] /\ wire'[r] = wire[r]
              /\ notified[r] \in Nat /\ Len(contexts[r]) \in Nat
          BY <1>0, <3>1, <3>2, LenProperties, BoundsAssumption
        <4>2. EndingsOf(r)
          BY <1>0
        <4>3. \A i \in 1..Len(contexts[r]) : EndingOf(r, i)'
          BY <3>1, <4>1, <4>2 DEF EndingsOf, EndingOf, Late, Sound
        <4> QED BY <4>1, <4>2, <4>3 DEF EndingsOf
      <3>5. \A s \in Requests : EndingsOf(s)'
        BY <1>0, <3>3, <3>4, SameContextsKeep
      <3> QED BY <1>0, <1>1, <3>1, <3>5 DEF ContextInv
    <2>3. ASSUME UNCHANGED ownVars,
                 \A s \in Requests : pc'[s] = pc[s] \/ (Acquiring(s) /\ Acquiring(s)')
          PROVE  ContextInv'
      <3>1. \A s \in Requests : SameContexts(s)
        BY <2>3 DEF SameContexts, ownVars
      <3>2. \A s \in Requests : EndingsOf(s)'
        BY <1>0, <3>1, SameContextsKeep
      <3> QED BY <1>0, <1>1, <2>3, <3>2 DEF ContextInv, ownVars
    <2> QED BY <2>1, <2>2, <2>3, EarlierSteps
  <1>3. notified' \in [Requests -> 0..MaxNotify]
    BY OwnTypesStep DEF OwnTypes
  <1>4. stored' \in [Requests -> 0..MaxNotify]
    <2>1. ASSUME NEW s \in Requests
          PROVE  stored'[s] \in 0..MaxNotify
      <3>1. Len(contexts'[s]) \in Nat
        BY <1>2, LenProperties DEF ContextInv
      <3> QED BY <1>2, <1>3, <3>1, BoundsAssumption DEF ContextInv, EndingsOf
    <2> QED BY <1>2, <2>1 DEF ContextInv
  <1>5. ContextTypes'
    BY <1>2, <1>4 DEF ContextInv, ContextTypes, EndingsOf
  <1>6. Counts'
    BY <1>2 DEF ContextInv, Counts, EndingsOf
  <1>7. Endings'
    BY <1>2 DEF ContextInv, Endings, EndingsOf, EndingOf
  <1> QED BY <1>5, <1>6, <1>7

(***************************************************************************)
(* The owners of the configuration objects.                                *)
(***************************************************************************)

\* Request r reads the object it has got.
Using(r) == pc[r] \in {"use", "rules", "create"}

SiteTypes ==
  /\ Len(configs) \in Nat /\ Len(settings) \in Settings!Metas
  /\ container \in [Settings!Metas -> 0..Len(configs)]
  /\ config \in [Requests -> 0..Len(configs)]
  /\ meta \in [Requests -> 0..Len(settings)]
  /\ DOMAIN pc = Requests

\* Ownership, UsesLiveConfig and ConfigsAccounted.
SiteInv ==
  /\ SiteTypes
  /\ \A r \in Requests : pc[r] = "away" \/ meta[r] \in Settings!Metas
  /\ \A m \in Settings!Metas : container[m] # 0 => configs[container[m]].alive
  /\ \A m, n \in Settings!Metas : container[m] # 0 /\ container[m] = container[n] => m = n
  /\ \A r \in Requests : Making(r) =>
       /\ config[r] # 0
       /\ configs[config[r]].alive
       /\ \A m \in Settings!Metas : container[m] # config[r]
       /\ \A s \in Requests : Making(s) /\ config[s] = config[r] => s = r
  /\ \A r \in Requests : Using(r) =>
       config[r] # 0 /\ configs[config[r]].alive /\ config[r] = container[meta[r]]
  /\ \A i \in 1..Len(configs) : configs[i].alive =>
       \/ \E m \in Settings!Metas : container[m] = i
       \/ \E r \in Requests : Making(r) /\ config[r] = i

\* SiteTypes follows from the type invariant.
LEMMA SiteTypesHold ==
  Settings!TypeOK /\ OwnTypes => SiteTypes /\ DOMAIN configs = 1..Len(configs)
  <1> SUFFICES ASSUME Settings!TypeOK, OwnTypes
               PROVE  SiteTypes /\ DOMAIN configs = 1..Len(configs)
    OBVIOUS
  <1>1. Len(configs) \in Nat /\ DOMAIN configs = 1..Len(configs)
    BY LenProperties DEF Settings!TypeOK
  <1> QED BY <1>1 DEF Settings!TypeOK, OwnTypes, SiteTypes

\* SiteInv is the three invariants about the objects in one formula.
LEMMA SiteParts ==
  Settings!TypeOK /\ OwnTypes => (SiteInv <=> Ownership /\ UsesLiveConfig /\ ConfigsAccounted)
  <1> SUFFICES ASSUME Settings!TypeOK, OwnTypes
               PROVE  SiteInv <=> Ownership /\ UsesLiveConfig /\ ConfigsAccounted
    OBVIOUS
  <1>1. SiteTypes /\ DOMAIN configs = 1..Len(configs) /\ DOMAIN container = Settings!Metas
    BY SiteTypesHold DEF SiteTypes
  <1>2. \A r \in Requests : meta[r] \in Settings!Metas <=> meta[r] # 0
    BY <1>1, BoundsAssumption DEF SiteTypes, Settings!Metas
  <1> HIDE DEF Settings!Metas
  <1>3. SiteInv => Ownership
    BY <1>2 DEF SiteInv, Ownership
  <1>4. SiteInv => UsesLiveConfig
    BY DEF SiteInv, UsesLiveConfig, Using
  <1>5. SiteInv => ConfigsAccounted
    BY <1>1 DEF SiteInv, ConfigsAccounted, Making
  <1>6. Ownership /\ UsesLiveConfig /\ ConfigsAccounted => SiteInv
    BY <1>1, <1>2 DEF SiteInv, Ownership, UsesLiveConfig, ConfigsAccounted, Using, Making
  <1> QED BY <1>3, <1>4, <1>5, <1>6

\* A step that leaves the objects and their places alone.
LEMMA SiteQuiet ==
  ASSUME SiteInv, SiteTypes', UNCHANGED <<configs, container>>,
         \A s \in Requests :
           /\ pc'[s] = "away" \/ meta'[s] \in Settings!Metas
           /\ Making(s)' <=> Making(s)
           /\ Using(s)' => Using(s)
           /\ Making(s) \/ Using(s)' => config'[s] = config[s] /\ meta'[s] = meta[s]
  PROVE  SiteInv'
  BY DEF SiteInv

\* Request r takes the stored object.
LEMMA SiteHit ==
  ASSUME SiteInv, SiteTypes', NEW r \in Requests, pc[r] = "lookup",
         UNCHANGED <<configs, container, meta>>,
         container[meta[r]] # 0,
         config' = [config EXCEPT ![r] = container[meta[r]]],
         pc' = [pc EXCEPT ![r] = "use"]
  PROVE  SiteInv'
  <1>1. /\ pc'[r] = "use" /\ config'[r] = container[meta[r]]
        /\ \A s \in Requests : s # r => pc'[s] = pc[s] /\ config'[s] = config[s]
    BY DEF SiteInv, SiteTypes
  <1>2. \A s \in Requests : (Making(s)' <=> Making(s)) /\ (Making(s) => s # r)
    BY <1>1 DEF Making
  <1>3. \A s \in Requests : s # r => (Using(s)' <=> Using(s))
    BY <1>1 DEF Using
  <1> QED BY <1>1, <1>2, <1>3 DEF SiteInv

\* Request r makes a new object.
LEMMA SiteNew ==
  ASSUME SiteInv, SiteTypes', NEW r \in Requests, pc[r] = "lookup",
         UNCHANGED <<container, meta>>,
         Len(configs') = Len(configs) + 1,
         configs'[Len(configs) + 1].alive,
         \A j \in 1..Len(configs) : configs'[j] = configs[j],
         config' = [config EXCEPT ![r] = Len(configs) + 1],
         pc' = [pc EXCEPT ![r] = "initialize"]
  PROVE  SiteInv'
  <1>0. SiteTypes /\ Len(configs) \in Nat
    BY DEF SiteInv, SiteTypes
  <1>1. /\ pc'[r] = "initialize" /\ config'[r] = Len(configs) + 1
        /\ \A s \in Requests : s # r => pc'[s] = pc[s] /\ config'[s] = config[s]
    BY DEF SiteInv, SiteTypes
  <1>2. \A s \in Requests : s # r => (Making(s)' <=> Making(s)) /\ (Using(s)' <=> Using(s))
    BY <1>1 DEF Making, Using
  <1>3. Making(r)' /\ ~Using(r)' /\ ~Making(r)
    BY <1>1 DEF Making, Using
  <1>4. \A m \in Settings!Metas : container[m] \in 0..Len(configs)
    BY <1>0 DEF SiteTypes
  <1>5. \A s \in Requests : config[s] \in 0..Len(configs)
    BY <1>0 DEF SiteTypes
  <1>6. /\ \A s \in Requests : pc'[s] = "away" \/ meta'[s] \in Settings!Metas
        /\ \A m \in Settings!Metas : container'[m] # 0 => configs'[container'[m]].alive
        /\ \A m, n \in Settings!Metas : container'[m] # 0 /\ container'[m] = container'[n] => m = n
    BY <1>0, <1>1, <1>4 DEF SiteInv
  <1>7. \A s \in Requests : Making(s)' =>
          /\ config'[s] # 0
          /\ configs'[config'[s]].alive
          /\ \A m \in Settings!Metas : container'[m] # config'[s]
          /\ \A q \in Requests : Making(q)' /\ config'[q] = config'[s] => q = s
    BY <1>0, <1>1, <1>2, <1>3, <1>4, <1>5 DEF SiteInv
  <1>8. \A s \in Requests : Using(s)' =>
          config'[s] # 0 /\ configs'[config'[s]].alive /\ config'[s] = container'[meta'[s]]
    BY <1>0, <1>1, <1>2, <1>3, <1>5 DEF SiteInv
  <1>9. \A i \in 1..Len(configs') : configs'[i].alive =>
          \/ \E m \in Settings!Metas : container'[m] = i
          \/ \E s \in Requests : Making(s)' /\ config'[s] = i
    BY <1>0, <1>1, <1>2, <1>3 DEF SiteInv
  <1> QED BY <1>6, <1>7, <1>8, <1>9 DEF SiteInv

\* Request r stores the object it has made.
LEMMA SiteStored ==
  ASSUME SiteInv, SiteTypes', NEW r \in Requests, pc[r] = "store",
         UNCHANGED <<configs, meta, config>>,
         container[meta[r]] = 0,
         container' = [container EXCEPT ![meta[r]] = config[r]],
         pc' = [pc EXCEPT ![r] = "use"]
  PROVE  SiteInv'
  <1>0. SiteTypes /\ Making(r) /\ meta[r] \in Settings!Metas
    BY DEF SiteInv, Making
  <1>1. /\ pc'[r] = "use"
        /\ \A s \in Requests : s # r => pc'[s] = pc[s]
        /\ container'[meta[r]] = config[r]
        /\ \A m \in Settings!Metas : m # meta[r] => container'[m] = container[m]
    BY <1>0 DEF SiteTypes
  <1>2. \A s \in Requests : (Making(s)' <=> Making(s) /\ s # r)
    BY <1>1 DEF Making
  <1>3. \A s \in Requests : s # r => (Using(s)' <=> Using(s))
    BY <1>1 DEF Using
  <1>4. /\ \A s \in Requests : pc'[s] = "away" \/ meta'[s] \in Settings!Metas
        /\ \A m \in Settings!Metas : container'[m] # 0 => configs'[container'[m]].alive
        /\ \A m, n \in Settings!Metas : container'[m] # 0 /\ container'[m] = container'[n] => m = n
    BY <1>0, <1>1 DEF SiteInv
  <1>5. \A s \in Requests : Making(s)' =>
          /\ config'[s] # 0
          /\ configs'[config'[s]].alive
          /\ \A m \in Settings!Metas : container'[m] # config'[s]
          /\ \A q \in Requests : Making(q)' /\ config'[q] = config'[s] => q = s
    BY <1>0, <1>1, <1>2 DEF SiteInv
  <1>6. \A s \in Requests : Using(s)' =>
          config'[s] # 0 /\ configs'[config'[s]].alive /\ config'[s] = container'[meta'[s]]
    <2>1. ASSUME NEW s \in Requests, s # r, Using(s)'
          PROVE  config[s] # 0 /\ configs[config[s]].alive /\ config[s] = container'[meta[s]]
      <3>1. /\ config[s] # 0 /\ configs[config[s]].alive /\ config[s] = container[meta[s]]
            /\ meta[s] \in Settings!Metas
        BY <1>3, <2>1 DEF SiteInv, Using
      <3> QED BY <1>1, <3>1
    <2> QED BY <1>0, <1>1, <2>1 DEF SiteInv
  <1>7. \A i \in 1..Len(configs') : configs'[i].alive =>
          \/ \E m \in Settings!Metas : container'[m] = i
          \/ \E s \in Requests : Making(s)' /\ config'[s] = i
    BY <1>0, <1>1, <1>2 DEF SiteInv
  <1> QED BY <1>4, <1>5, <1>6, <1>7 DEF SiteInv

\* Request r deletes the object it has made, and takes the stored one or none.
LEMMA SiteDropped ==
  ASSUME SiteInv, SiteTypes', NEW r \in Requests, Making(r),
         UNCHANGED <<container, meta>>,
         Len(configs') = Len(configs),
         ~configs'[config[r]].alive,
         \A j \in 1..Len(configs) : j # config[r] => configs'[j] = configs[j],
         \/ /\ config' = [config EXCEPT ![r] = 0]
            /\ pc' = [pc EXCEPT ![r] = "configFailed"]
         \/ /\ container[meta[r]] # 0
            /\ config' = [config EXCEPT ![r] = container[meta[r]]]
            /\ pc' = [pc EXCEPT ![r] = "use"]
  PROVE  SiteInv'
  <1>0. /\ SiteTypes /\ meta[r] \in Settings!Metas
        /\ \A m \in Settings!Metas : container[m] \in 0..Len(configs)
        /\ \A s \in Requests : config[s] \in 0..Len(configs)
        /\ Len(configs) \in Nat
    BY DEF SiteInv, SiteTypes, Making
  <1>1. /\ \/ pc'[r] = "configFailed"
           \/ pc'[r] = "use" /\ container[meta[r]] # 0 /\ config'[r] = container[meta[r]]
        /\ \A s \in Requests : s # r => pc'[s] = pc[s] /\ config'[s] = config[s]
    BY <1>0 DEF SiteTypes
  <1>2. \A s \in Requests : (Making(s)' <=> Making(s) /\ s # r)
    BY <1>1 DEF Making
  <1>3. \A s \in Requests : s # r => (Using(s)' <=> Using(s))
    BY <1>1 DEF Using
  <1>4. \A m \in Settings!Metas : container[m] # 0 =>
          configs'[container[m]] = configs[container[m]] /\ configs[container[m]].alive
    BY <1>0 DEF SiteInv
  <1>5. \A s \in Requests : Making(s)' =>
          /\ config'[s] # 0
          /\ configs'[config'[s]].alive
          /\ \A m \in Settings!Metas : container'[m] # config'[s]
          /\ \A q \in Requests : Making(q)' /\ config'[q] = config'[s] => q = s
    BY <1>0, <1>1, <1>2 DEF SiteInv
  <1>6. \A s \in Requests : Using(s)' =>
          config'[s] # 0 /\ configs'[config'[s]].alive /\ config'[s] = container'[meta'[s]]
    <2>1. ASSUME NEW s \in Requests, s # r, Using(s)'
          PROVE  config[s] # 0 /\ configs'[config[s]].alive /\ config[s] = container[meta[s]]
      <3>1. /\ config[s] # 0 /\ config[s] = container[meta[s]] /\ meta[s] \in Settings!Metas
        BY <1>3, <2>1 DEF SiteInv, Using
      <3> QED BY <1>4, <3>1
    <2>2. ~Using(r)' \/ (container[meta[r]] # 0 /\ config'[r] = container[meta[r]])
      BY <1>1 DEF Using
    <2> QED BY <1>0, <1>1, <1>4, <2>1, <2>2
  <1>7. \A i \in 1..Len(configs') : configs'[i].alive =>
          \/ \E m \in Settings!Metas : container'[m] = i
          \/ \E s \in Requests : Making(s)' /\ config'[s] = i
    BY <1>0, <1>1, <1>2 DEF SiteInv
  <1>8. /\ \A s \in Requests : pc'[s] = "away" \/ meta'[s] \in Settings!Metas
        /\ \A m \in Settings!Metas : container'[m] # 0 => configs'[container'[m]].alive
        /\ \A m, n \in Settings!Metas : container'[m] # 0 /\ container'[m] = container'[n] => m = n
    BY <1>0, <1>1, <1>4 DEF SiteInv
  <1> QED BY <1>5, <1>6, <1>7, <1>8 DEF SiteInv

\* Request r fills in the object it has made.
LEMMA SiteFilled ==
  ASSUME SiteInv, SiteTypes', NEW r \in Requests, pc[r] = "initialize",
         UNCHANGED <<container, meta, config>>,
         Len(configs') = Len(configs),
         \A j \in 1..Len(configs) : configs'[j].alive = configs[j].alive,
         pc' = [pc EXCEPT ![r] = "store"]
  PROVE  SiteInv'
  <1>0. /\ SiteTypes
        /\ \A m \in Settings!Metas : container[m] \in 0..Len(configs)
        /\ \A s \in Requests : config[s] \in 0..Len(configs)
        /\ Len(configs) \in Nat
    BY DEF SiteInv, SiteTypes
  <1>1. pc'[r] = "store" /\ \A s \in Requests : s # r => pc'[s] = pc[s]
    BY <1>0 DEF SiteTypes
  <1>2. \A s \in Requests : (Making(s)' <=> Making(s)) /\ (Using(s)' <=> Using(s))
    BY <1>1 DEF Making, Using
  <1>3. \A s \in Requests : pc'[s] = "away" \/ meta'[s] \in Settings!Metas
    BY <1>1 DEF SiteInv
  <1>4. \A m \in Settings!Metas : container'[m] # 0 => configs'[container'[m]].alive
    BY <1>0 DEF SiteInv
  <1>5. \A s \in Requests : Making(s)' =>
          /\ config'[s] # 0
          /\ configs'[config'[s]].alive
          /\ \A m \in Settings!Metas : container'[m] # config'[s]
          /\ \A q \in Requests : Making(q)' /\ config'[q] = config'[s] => q = s
    BY <1>0, <1>2 DEF SiteInv
  <1>6. \A s \in Requests : Using(s)' =>
          config'[s] # 0 /\ configs'[config'[s]].alive /\ config'[s] = container'[meta'[s]]
    BY <1>0, <1>2 DEF SiteInv
  <1>7. \A i \in 1..Len(configs') : configs'[i].alive =>
          \/ \E m \in Settings!Metas : container'[m] = i
          \/ \E s \in Requests : Making(s)' /\ config'[s] = i
    BY <1>0, <1>2 DEF SiteInv
  <1> QED BY <1>3, <1>4, <1>5, <1>6, <1>7 DEF SiteInv

\* IIS releases a metadata object that nobody holds.
LEMMA SiteReleased ==
  ASSUME SiteInv, SiteTypes', NEW m \in Settings!Metas, container[m] # 0,
         \A s \in Requests : meta[s] = m => pc[s] \in {"away", "ended"},
         UNCHANGED <<pc, meta, config>>,
         Len(configs') = Len(configs),
         ~configs'[container[m]].alive,
         \A j \in 1..Len(configs) : j # container[m] => configs'[j] = configs[j],
         container' = [container EXCEPT ![m] = 0]
  PROVE  SiteInv'
  <1>0. /\ SiteTypes
        /\ \A n \in Settings!Metas : container[n] \in 0..Len(configs)
        /\ \A s \in Requests : config[s] \in 0..Len(configs)
        /\ Len(configs) \in Nat
    BY DEF SiteInv, SiteTypes
  <1>1. container'[m] = 0 /\ \A n \in Settings!Metas : n # m => container'[n] = container[n]
    BY <1>0 DEF SiteTypes
  <1>2. \A s \in Requests : (Making(s)' <=> Making(s)) /\ (Using(s)' <=> Using(s))
    BY DEF Making, Using
  <1>3. /\ \A s \in Requests : pc'[s] = "away" \/ meta'[s] \in Settings!Metas
        /\ \A n \in Settings!Metas : container'[n] # 0 => configs'[container'[n]].alive
        /\ \A k, n \in Settings!Metas : container'[k] # 0 /\ container'[k] = container'[n] => k = n
    BY <1>0, <1>1 DEF SiteInv
  <1>4. \A s \in Requests : Making(s)' =>
          /\ config'[s] # 0
          /\ configs'[config'[s]].alive
          /\ \A n \in Settings!Metas : container'[n] # config'[s]
          /\ \A q \in Requests : Making(q)' /\ config'[q] = config'[s] => q = s
    BY <1>0, <1>1, <1>2 DEF SiteInv
  <1>5. \A s \in Requests : Using(s)' =>
          config'[s] # 0 /\ configs'[config'[s]].alive /\ config'[s] = container'[meta'[s]]
    <2>1. ASSUME NEW s \in Requests, Using(s)
          PROVE  config[s] # 0 /\ configs'[config[s]].alive /\ config[s] = container'[meta[s]]
      <3>1. /\ config[s] # 0 /\ configs[config[s]].alive /\ config[s] = container[meta[s]]
            /\ meta[s] \in Settings!Metas
        BY <2>1 DEF SiteInv, Using
      <3>2. meta[s] # m
        BY <2>1 DEF Using
      <3>3. config[s] # container[m]
        BY <3>1, <3>2 DEF SiteInv
      <3> QED BY <1>0, <1>1, <3>1, <3>2, <3>3
    <2> QED BY <1>2, <2>1
  <1>6. \A i \in 1..Len(configs') : configs'[i].alive =>
          \/ \E n \in Settings!Metas : container'[n] = i
          \/ \E s \in Requests : Making(s)' /\ config'[s] = i
    BY <1>0, <1>1, <1>2 DEF SiteInv
  <1> QED BY <1>3, <1>4, <1>5, <1>6 DEF SiteInv

\* The cases of GetConfig, by what they do to the objects.
Hit(r) ==
  /\ pc[r] = "lookup"
  /\ container[meta[r]] # 0
  /\ config' = [config EXCEPT ![r] = container[meta[r]]]
  /\ pc' = [pc EXCEPT ![r] = "use"]
  /\ UNCHANGED <<configs, container>>

New(r) ==
  /\ pc[r] = "lookup"
  /\ configs' = Append(configs, Settings!Fresh)
  /\ config' = [config EXCEPT ![r] = Len(configs')]
  /\ pc' = [pc EXCEPT ![r] = "initialize"]
  /\ UNCHANGED container

Idle(r) ==
  /\ \/ pc' = pc
     \/ pc[r] = "lookup" /\ pc' = [pc EXCEPT ![r] = "configFailed"]
  /\ UNCHANGED <<configs, container, config>>

Dropped(r) ==
  /\ pc[r] \in {"initialize", "store"}
  /\ configs' = Settings!Deleted(config[r])
  /\ \/ /\ config' = [config EXCEPT ![r] = 0]
        /\ pc' = [pc EXCEPT ![r] = "configFailed"]
     \/ /\ container[meta[r]] # 0
        /\ config' = [config EXCEPT ![r] = container[meta[r]]]
        /\ pc' = [pc EXCEPT ![r] = "use"]
  /\ UNCHANGED container

Filled(r) ==
  /\ pc[r] = "initialize"
  /\ \E reads \in Settings!Reads :
       LET got == Settings!Initialized(settings[Len(settings)], reads)
       IN  configs' = [configs EXCEPT ![config[r]].enabled = got.enabled,
                                      ![config[r]].path = got.path]
  /\ pc' = [pc EXCEPT ![r] = "store"]
  /\ UNCHANGED <<container, config>>

Placed(r) ==
  /\ pc[r] = "store"
  /\ container[meta[r]] = 0
  /\ container' = [container EXCEPT ![meta[r]] = config[r]]
  /\ pc' = [pc EXCEPT ![r] = "use"]
  /\ UNCHANGED <<configs, config>>

\* The six cases are all there are.
LEMMA GetConfigCases ==
  ASSUME NEW r \in Requests, GetConfig(r)
  PROVE  /\ UNCHANGED <<settings, meta>>
         /\ Hit(r) \/ New(r) \/ Idle(r) \/ Dropped(r) \/ Filled(r) \/ Placed(r)
  <1> USE DEF Settings!Goto
  <1>1. CASE Settings!Lookup(r)
    BY <1>1 DEF Settings!Lookup, Hit, New, Idle
  <1>2. CASE Settings!Initialize(r)
    BY <1>2 DEF Settings!Initialize, Settings!InitializeFails, Dropped, Filled, Idle
  <1>3. CASE Settings!StoreWins(r)
    BY <1>3 DEF Settings!StoreWins, Placed
  <1>4. CASE Settings!StoreLoses(r)
    BY <1>4 DEF Settings!StoreLoses, Dropped
  <1>5. CASE Settings!StoreFails(r)
    BY <1>5 DEF Settings!StoreFails, Dropped
  <1> QED BY <1>1, <1>2, <1>3, <1>4, <1>5 DEF GetConfig, Settings!GetConfig

\* What Initialize fills in: the settings as they are now.
LEMMA FilledIn ==
  ASSUME IInv, NEW r \in Requests, Filled(r)
  PROVE  /\ Len(configs') = Len(configs)
         /\ config[r] \in 1..Len(configs)
         /\ configs'[config[r]].enabled = settings[Len(settings)].enabled
         /\ configs'[config[r]].path = settings[Len(settings)].path
         /\ configs'[config[r]].alive = configs[config[r]].alive
         /\ \A j \in 1..Len(configs) : j # config[r] => configs'[j] = configs[j]
  <1> DEFINE now == settings[Len(settings)]
  <1>1. configs' = [configs EXCEPT ![config[r]].enabled = now.enabled,
                                   ![config[r]].path = now.path]
    BY DEF Filled, Settings!Initialized
  <1>2. config[r] \in 1..Len(configs)
    BY MakingExists DEF Filled, Making
  <1>3. now \in Settings!Setting
    BY ElementOfSeq, BoundsAssumption DEF IInv, TypeOK, Settings!TypeOK, Settings!Metas
  <1>4. now.enabled \in BOOLEAN /\ now.path \in {"none", "rules"}
    BY <1>3 DEF Settings!Setting
  <1>5. configs \in Seq(Settings!Config)
    BY DEF IInv, TypeOK, Settings!TypeOK
  <1> HIDE DEF now
  <1>6. /\ Len(configs') = Len(configs)
        /\ configs'[config[r]].enabled = now.enabled
        /\ configs'[config[r]].path = now.path
        /\ configs'[config[r]].alive = configs[config[r]].alive
        /\ \A j \in 1..Len(configs) : j # config[r] => configs'[j] = configs[j]
    BY <1>1, <1>2, <1>4, <1>5, FilledEffect
  <1> QED BY <1>2, <1>6 DEF now

\* Every step keeps the owners.
LEMMA SiteStep ==
  ASSUME IInv, [Next]_vars
  PROVE  SiteInv'
  <1>0. SiteInv /\ configs \in Seq(Settings!Config)
    BY SiteParts, TypeParts DEF IInv, Settings!TypeOK
  <1>1. SiteTypes /\ SiteTypes'
    <2>1. Settings!TypeOK' /\ OwnTypes'
      BY SettingsTypeStep, OwnTypesStep
    <2>2. SiteTypes'
      <3>1. (Settings!TypeOK /\ OwnTypes => SiteTypes /\ DOMAIN configs = 1..Len(configs))'
        BY SiteTypesHold, PTL
      <3> QED BY <2>1, <3>1
    <2> QED BY <1>0, <2>2 DEF SiteInv
  <1>2. ASSUME NEW r \in Requests, OnBeginRequest(r)
        PROVE  SiteInv'
    <2>1. /\ UNCHANGED <<configs, container, config>>
          /\ pc[r] \in {"away", "resume"} /\ pc'[r] = "lookup"
          /\ \A s \in Requests : s # r => pc'[s] = pc[s] /\ meta'[s] = meta[s]
          /\ meta'[r] = IF pc[r] = "away" THEN Len(settings) ELSE meta[r]
      BY <1>1, <1>2 DEF OnBeginRequest, Goto, SiteTypes
    <2>2. \A s \in Requests :
           /\ pc'[s] = "away" \/ meta'[s] \in Settings!Metas
           /\ Making(s)' <=> Making(s)
           /\ Using(s)' => Using(s)
           /\ Making(s) \/ Using(s)' => config'[s] = config[s] /\ meta'[s] = meta[s]
      BY <1>0, <1>1, <2>1 DEF SiteInv, SiteTypes, Making, Using
    <2> QED BY <1>0, <1>1, <2>1, <2>2, SiteQuiet
  <1>3. ASSUME NEW r \in Requests, GetConfig(r)
        PROVE  SiteInv'
    <2>0. UNCHANGED meta
      BY <1>3, GetConfigCases
    <2>1. CASE Hit(r)
      BY <1>0, <1>1, <2>0, <2>1, SiteHit DEF Hit
    <2>2. CASE New(r)
      <3>1. /\ Len(configs') = Len(configs) + 1
            /\ configs'[Len(configs) + 1].alive
            /\ \A j \in 1..Len(configs) : configs'[j] = configs[j]
        BY <1>0, <2>2, FreshEffect DEF New
      <3> QED BY <1>0, <1>1, <2>0, <2>2, <3>1, SiteNew DEF New
    <2>3. CASE Idle(r)
      <3>1. \A s \in Requests : \/ pc'[s] = pc[s]
                                \/ pc[s] = "lookup" /\ pc'[s] = "configFailed"
        BY <1>1, <2>3 DEF Idle, SiteTypes
      <3>2. \A s \in Requests :
             /\ pc'[s] = "away" \/ meta'[s] \in Settings!Metas
             /\ Making(s)' <=> Making(s)
             /\ Using(s)' => Using(s)
        BY <1>0, <2>0, <3>1 DEF SiteInv, Making, Using
      <3> QED BY <1>0, <1>1, <2>0, <2>3, <3>2, SiteQuiet DEF Idle
    <2>4. CASE Dropped(r)
      <3>1. config[r] \in 1..Len(configs) /\ Making(r)
        BY <2>4, MakingExists DEF Dropped, Making
      <3>2. /\ Len(configs') = Len(configs)
            /\ ~configs'[config[r]].alive
            /\ \A j \in 1..Len(configs) : j # config[r] => configs'[j] = configs[j]
        BY <1>0, <2>4, <3>1, DeletedEffect DEF Dropped
      <3> QED BY <1>0, <1>1, <2>0, <2>4, <3>1, <3>2, SiteDropped DEF Dropped
    <2>5. CASE Filled(r)
      <3>1. /\ Len(configs') = Len(configs)
            /\ \A j \in 1..Len(configs) : configs'[j].alive = configs[j].alive
        BY <2>5, FilledIn
      <3> QED BY <1>0, <1>1, <2>0, <2>5, <3>1, SiteFilled DEF Filled
    <2>6. CASE Placed(r)
      BY <1>0, <1>1, <2>0, <2>6, SiteStored DEF Placed
    <2> QED BY <1>3, <2>1, <2>2, <2>3, <2>4, <2>5, <2>6, GetConfigCases
  <1>4. ASSUME NEW r \in Requests, LaterStep(r)
        PROVE  SiteInv'
    <2>1. Afterwards(r)
      BY <1>4, LaterStepsAreAfterwards
    <2>2. UNCHANGED <<configs, container, meta>>
      BY <2>1 DEF Afterwards, siteVars
    <2>3. \A s \in Requests : s # r => pc'[s] = pc[s] /\ config'[s] = config[s]
      BY <1>1, <2>1 DEF Afterwards, SiteTypes
    <2>4. /\ pc[r] \notin {"away", "lookup", "initialize", "store"}
          /\ pc'[r] \in {"rules", "create", "phase1", "body", "resume", "response", "end", "ended"}
          /\ pc'[r] \in {"rules", "create"} => pc[r] \in {"use", "rules"} /\ config' = config
      BY <1>1, <2>1 DEF Afterwards, SiteTypes
    <2>5. \A s \in Requests :
           /\ pc'[s] = "away" \/ meta'[s] \in Settings!Metas
           /\ Making(s)' <=> Making(s)
           /\ Using(s)' => Using(s)
           /\ Making(s) \/ Using(s)' => config'[s] = config[s] /\ meta'[s] = meta[s]
      BY <1>0, <2>2, <2>3, <2>4 DEF SiteInv, Making, Using
    <2> QED BY <1>0, <1>1, <2>2, <2>5, SiteQuiet
  <1>5. ASSUME Settings!Change \/ UNCHANGED vars
        PROVE  SiteInv'
    <2>1. UNCHANGED <<configs, container, pc, meta, config>>
      BY <1>5 DEF Settings!Change, vars, configVars, siteVars
    <2>2. \A s \in Requests :
           /\ pc'[s] = "away" \/ meta'[s] \in Settings!Metas
           /\ Making(s)' <=> Making(s)
           /\ Using(s)' => Using(s)
      BY <1>0, <2>1 DEF SiteInv, Making, Using
    <2> QED BY <1>0, <1>1, <2>1, <2>2, SiteQuiet
  <1>6. ASSUME NEW m \in Settings!Metas, Settings!Release(m)
        PROVE  SiteInv'
    <2>1. container[m] \in 1..Len(configs)
      BY <1>1, <1>6 DEF Settings!Release, SiteTypes
    <2>2. /\ Len(configs') = Len(configs)
          /\ ~configs'[container[m]].alive
          /\ \A j \in 1..Len(configs) : j # container[m] => configs'[j] = configs[j]
      BY <1>0, <1>6, <2>1, DeletedEffect DEF Settings!Release
    <2>3. \A s \in Requests : meta[s] = m => pc[s] \in {"away", "ended"}
      BY <1>6 DEF Settings!Release, Settings!Holds
    <2> QED BY <1>0, <1>1, <1>6, <2>2, <2>3, SiteReleased DEF Settings!Release
  <1> QED BY <1>2, <1>3, <1>4, <1>5, <1>6, NextCases

(***************************************************************************)
(* What the objects say.                                                   *)
(***************************************************************************)

\* The settings are a history: they only grow.
Grows ==
  /\ Len(settings) \in Nat /\ Len(settings') \in Nat
  /\ Len(settings) <= Len(settings')
  /\ \A j \in 1..Len(settings) : settings'[j] = settings[j]

\* No step takes back a change of the settings.
LEMMA SettingsGrow ==
  ASSUME IInv, [Next]_vars
  PROVE  Grows
  <1>0. settings \in Seq(Settings!Setting) /\ Len(settings) \in Nat
    BY LenProperties DEF IInv, TypeOK, Settings!TypeOK
  <1>1. CASE Settings!Change
    <2>1. PICK t \in Settings!Setting : settings' = Append(settings, t)
      BY <1>1 DEF Settings!Change
    <2> QED BY <1>0, <2>1, AppendProperties DEF Grows
  <1>2. ASSUME NEW r \in Requests, LaterStep(r)
        PROVE  UNCHANGED settings
    BY <1>2, LaterStepsAreAfterwards DEF Afterwards, siteVars
  <1>3. ASSUME NEW r \in Requests, GetConfig(r)
        PROVE  UNCHANGED settings
    BY <1>3, GetConfigCases
  <1>4. CASE UNCHANGED settings
    BY <1>0, <1>4 DEF Grows
  <1> QED BY <1>1, <1>2, <1>3, <1>4, NextCases
          DEF OnBeginRequest, Settings!Release, vars, configVars, siteVars

\* Origin, with the objects named.
OriginInv ==
  /\ \A m \in Settings!Metas, i \in 1..Len(configs) : container[m] = i => SaysOf(i, m)
  /\ \A r \in Requests, m \in Settings!Metas, i \in 1..Len(configs) :
       pc[r] = "store" /\ config[r] = i /\ meta[r] = m => SaysOf(i, m)

\* The two forms of Origin agree.
LEMMA OriginParts ==
  SiteInv => (OriginInv <=> Origin)
  <1> SUFFICES ASSUME SiteInv
               PROVE  OriginInv <=> Origin
    OBVIOUS
  <1>1. /\ \A m \in Settings!Metas : container[m] # 0 => container[m] \in 1..Len(configs)
        /\ \A m \in Settings!Metas : \A i \in 1..Len(configs) : container[m] = i => container[m] # 0
        /\ \A r \in Requests : pc[r] = "store" =>
             config[r] \in 1..Len(configs) /\ meta[r] \in Settings!Metas
    BY DEF SiteInv, SiteTypes, Making
  <1>2. OriginInv => Origin
    BY <1>1 DEF OriginInv, Origin
  <1>3. Origin => OriginInv
    BY <1>1 DEF OriginInv, Origin
  <1> QED BY <1>2, <1>3

\* An object that is not touched says what it said.
LEMMA SaysOfKept ==
  ASSUME NEW i, NEW m \in Nat \ {0}, SaysOf(i, m), Grows, configs'[i] = configs[i]
  PROVE  SaysOf(i, m)'
  BY DEF SaysOf, Grows

\* Every step keeps Origin.
LEMMA OriginStep ==
  ASSUME IInv, [Next]_vars
  PROVE  OriginInv'
  <1>0. /\ SiteInv /\ OriginInv /\ SiteTypes
        /\ configs \in Seq(Settings!Config) /\ Len(configs) \in Nat
    BY SiteParts, TypeParts, OriginParts DEF IInv, Settings!TypeOK, SiteInv, SiteTypes
  <1>1. Grows
    BY SettingsGrow
  <1>2. \A m \in Settings!Metas : m \in Nat \ {0}
    BY BoundsAssumption DEF Settings!Metas
  <1> DEFINE Was(i, m) ==
        \/ container[m] = i
        \/ \E r \in Requests : pc[r] = "store" /\ config[r] = i /\ meta[r] = m
  <1>3. ASSUME NEW m \in Settings!Metas, NEW i \in 1..Len(configs), Was(i, m),
               configs'[i] = configs[i]
        PROVE  SaysOf(i, m)'
    <2>1. SaysOf(i, m)
      BY <1>0, <1>3 DEF OriginInv
    <2> QED BY <1>1, <1>2, <1>3, <2>1, SaysOfKept
  <1>4. SUFFICES ASSUME NEW m \in Settings!Metas, NEW i \in 1..Len(configs'),
                        \/ container'[m] = i
                        \/ \E r \in Requests : pc'[r] = "store" /\ config'[r] = i /\ meta'[r] = m
                 PROVE  SaysOf(i, m)'
    BY DEF OriginInv
  <1>5. ASSUME UNCHANGED <<configs, container>>,
               \A s \in Requests : pc'[s] = "store" =>
                 pc[s] = "store" /\ config'[s] = config[s] /\ meta'[s] = meta[s]
        PROVE  SaysOf(i, m)'
    BY <1>3, <1>4, <1>5
  <1>6. ASSUME NEW r \in Requests, OnBeginRequest(r)
        PROVE  SaysOf(i, m)'
    <2>1. /\ UNCHANGED <<configs, container, config>>
          /\ pc'[r] = "lookup"
          /\ \A s \in Requests : s # r => pc'[s] = pc[s] /\ meta'[s] = meta[s]
      BY <1>0, <1>6 DEF OnBeginRequest, Goto, SiteTypes
    <2> QED BY <1>5, <2>1
  <1>7. ASSUME NEW r \in Requests, LaterStep(r)
        PROVE  SaysOf(i, m)'
    <2>1. Afterwards(r)
      BY <1>7, LaterStepsAreAfterwards
    <2>2. UNCHANGED <<configs, container, meta>>
      BY <2>1 DEF Afterwards, siteVars
    <2>3. /\ \A s \in Requests : s # r => pc'[s] = pc[s] /\ config'[s] = config[s]
          /\ pc'[r] # "store"
      BY <1>0, <2>1 DEF Afterwards, SiteTypes
    <2> QED BY <1>5, <2>2, <2>3
  <1>8. ASSUME Settings!Change \/ UNCHANGED vars
        PROVE  SaysOf(i, m)'
    BY <1>5, <1>8 DEF Settings!Change, vars, configVars, siteVars
  <1>9. ASSUME NEW n \in Settings!Metas, Settings!Release(n)
        PROVE  SaysOf(i, m)'
    <2>1. container[n] \in 1..Len(configs) /\ container[n] # 0
      BY <1>0, <1>9 DEF Settings!Release, SiteTypes
    <2>2. /\ Len(configs') = Len(configs)
          /\ \A j \in 1..Len(configs) : j # container[n] => configs'[j] = configs[j]
      BY <1>0, <1>9, <2>1, DeletedEffect DEF Settings!Release
    <2>3. container'[n] = 0 /\ \A k \in Settings!Metas : k # n => container'[k] = container[k]
      BY <1>0, <1>9 DEF Settings!Release, SiteTypes
    <2>4. UNCHANGED <<pc, meta, config>>
      BY <1>9 DEF Settings!Release
    <2>5. i # container[n]
      BY <1>0, <1>4, <2>1, <2>3, <2>4 DEF SiteInv, Making
    <2> QED BY <1>3, <1>4, <2>2, <2>3, <2>4, <2>5
  <1>10. ASSUME NEW r \in Requests, GetConfig(r)
         PROVE  SaysOf(i, m)'
    <2>0. UNCHANGED meta
      BY <1>10, GetConfigCases
    <2>1. CASE Hit(r) \/ Idle(r)
      <3>1. /\ UNCHANGED <<configs, container>>
            /\ \A s \in Requests : pc'[s] = "store" => pc'[s] = pc[s] /\ config'[s] = config[s]
        BY <1>0, <2>1 DEF Hit, Idle, SiteTypes
      <3> QED BY <1>5, <2>0, <3>1
    <2>2. CASE New(r)
      <3>1. /\ Len(configs') = Len(configs) + 1
            /\ \A j \in 1..Len(configs) : configs'[j] = configs[j]
        BY <1>0, <2>2, FreshEffect DEF New
      <3>2. /\ UNCHANGED container
            /\ \A s \in Requests : pc'[s] = "store" => pc'[s] = pc[s] /\ config'[s] = config[s]
        BY <1>0, <2>2 DEF New, SiteTypes
      <3>3. Was(i, m)
        BY <1>4, <2>0, <3>2
      <3>4. i \in 1..Len(configs)
        BY <1>0, <3>3 DEF SiteTypes, SiteInv, Making
      <3> QED BY <1>3, <3>1, <3>3, <3>4
    <2>3. CASE Dropped(r)
      <3>1. config[r] \in 1..Len(configs) /\ Making(r)
        BY <2>3, MakingExists DEF Dropped, Making
      <3>2. /\ Len(configs') = Len(configs)
            /\ \A j \in 1..Len(configs) : j # config[r] => configs'[j] = configs[j]
        BY <1>0, <2>3, <3>1, DeletedEffect DEF Dropped
      <3>3. /\ UNCHANGED container
            /\ \A s \in Requests : pc'[s] = "store" =>
                 s # r /\ pc'[s] = pc[s] /\ config'[s] = config[s]
        BY <1>0, <2>3 DEF Dropped, SiteTypes
      <3>4. i # config[r]
        BY <1>0, <1>4, <3>1, <3>3 DEF SiteInv, Making
      <3> QED BY <1>3, <1>4, <2>0, <3>2, <3>3, <3>4
    <2>4. CASE Filled(r)
      <3>1. /\ Len(configs') = Len(configs)
            /\ configs'[config[r]].enabled = settings[Len(settings)].enabled
            /\ configs'[config[r]].path = settings[Len(settings)].path
            /\ \A j \in 1..Len(configs) : j # config[r] => configs'[j] = configs[j]
        BY <2>4, FilledIn
      <3>2. /\ UNCHANGED <<container, config>>
            /\ pc[r] = "initialize"
            /\ \A s \in Requests : s # r => pc'[s] = pc[s]
        BY <1>0, <2>4 DEF Filled, SiteTypes
      <3>3. Making(r) /\ UNCHANGED settings
        BY <1>10, <3>2, GetConfigCases DEF Making
      <3>4. CASE i = config[r]
        <4>1. m = meta[r]
          BY <1>0, <1>4, <2>0, <3>2, <3>3, <3>4 DEF SiteInv, Making
        <4>2. m \in 0..Len(settings) /\ Len(settings) \in Nat
          BY <1>0, <1>1, <4>1 DEF SiteTypes, Grows
        <4> QED BY <3>1, <3>3, <3>4, <4>2 DEF SaysOf
      <3>5. CASE i # config[r]
        BY <1>3, <1>4, <2>0, <3>1, <3>2, <3>5
      <3> QED BY <3>4, <3>5
    <2>5. CASE Placed(r)
      <3>1. /\ UNCHANGED <<configs, config>>
            /\ pc[r] = "store" /\ pc'[r] = "use"
            /\ \A s \in Requests : s # r => pc'[s] = pc[s]
            /\ container'[m] = container[m] \/ (m = meta[r] /\ container'[m] = config[r])
        BY <1>0, <2>5 DEF Placed, SiteTypes
      <3>2. Was(i, m)
        BY <1>4, <2>0, <3>1
      <3> QED BY <1>3, <3>1, <3>2
    <2> QED BY <1>10, <2>1, <2>2, <2>3, <2>4, <2>5, GetConfigCases
  <1> QED BY <1>6, <1>7, <1>8, <1>9, <1>10, NextCases

(***************************************************************************)
(* The reasons for which a request is let through.                         *)
(***************************************************************************)

\* A reason does not go away.
LEMMA ExcusedKept ==
  ASSUME NEW s \in Requests, Excused(s), Grows, meta[s] \in Nat \ {0}, meta'[s] = meta[s],
         consented[s] => consented'[s], rawMissing[s] => rawMissing'[s],
         UNCHANGED failClosed
  PROVE  Excused(s)'
  BY DEF Excused, Grows

\* The settings a request goes by when it is let through without inspection.
LEMMA SwitchedOff ==
  ASSUME IInv, NEW r \in Requests, pc[r] = "use",
         ~(configs[config[r]].enabled /\ configs[config[r]].path = "rules")
  PROVE  \E j \in meta[r]..Len(settings) : ~settings[j].enabled \/ settings[j].path = "none"
  <1>1. meta[r] \in Settings!Metas
    BY HasMeta
  <1>2. config[r] # 0 /\ config[r] = container[meta[r]]
    BY DEF IInv, UsesLiveConfig
  <1>3. SaysOf(config[r], meta[r])
    BY <1>1, <1>2 DEF IInv, Origin
  <1>4. PICK j \in meta[r]..Len(settings) :
          /\ configs[config[r]].enabled = settings[j].enabled
          /\ configs[config[r]].path = settings[j].path
    BY <1>3 DEF SaysOf
  <1>5. settings[j] \in Settings!Setting
    <2>1. j \in 1..Len(settings)
      BY <1>1, <1>4, HasMeta DEF Settings!Metas, IInv, TypeOK, Settings!TypeOK
    <2> QED BY <2>1, ElementOfSeq DEF IInv, TypeOK, Settings!TypeOK
  <1>6. settings[j].path \in {"none", "rules"}
    BY <1>5 DEF Settings!Setting
  <1> QED BY <1>4, <1>6

ReasonsOf(r) ==
  /\ handled[r] \/ pc[r] = "resume" => Excused(r)
  /\ Acquiring(r) /\ stored[r] # 0 => Excused(r)
  /\ pc[r] = "away" => ~handled[r] /\ stored[r] = 0

\* What a later step does to the flags, and when it lets the request through.
LEMMA LaterReasons ==
  ASSUME IInv, NEW r \in Requests, LaterStep(r)
  PROVE  /\ UNCHANGED failClosed
         /\ \A s \in Requests : /\ consented[s] => consented'[s]
                                /\ rawMissing[s] => rawMissing'[s]
                                /\ s # r => handled'[s] = handled[s] /\ stored'[s] = stored[s]
         /\ handled'[r] => handled[r] \/ pc[r] = "resume"
         /\ stored'[r] = stored[r] \/ pc'[r] = "phase1"
         /\ pc'[r] = "resume" =>
              \/ Excused(r)
              \/ ~failClosed
              \/ consented'[r]
              \/ rawMissing'[r]
              \/ \E j \in meta[r]..Len(settings) :
                   ~settings[j].enabled \/ settings[j].path = "none"
  <1> USE DEF Goto, Forget, Continue, Finish
  <1>0. /\ DOMAIN pc = Requests /\ DOMAIN consented = Requests /\ DOMAIN rawMissing = Requests
        /\ DOMAIN handled = Requests /\ DOMAIN stored = Requests
    BY DEF IInv, TypeOK
  <1>1. CASE ConfigFailed(r)
    BY <1>0, <1>1 DEF ConfigFailed, FailPolicy
  <1>2. CASE UseConfig(r)
    <2>1. config[r] # 0
      BY <1>2 DEF UseConfig, IInv, UsesLiveConfig
    <2>2. UNCHANGED ownVars
      BY <1>2 DEF UseConfig
    <2>3. pc'[r] = "resume" =>
            ~(configs[config[r]].enabled /\ configs[config[r]].path = "rules")
      BY <1>0, <1>2, <2>1 DEF UseConfig
    <2>4. pc[r] = "use"
      BY <1>2 DEF UseConfig
    <2> QED BY <1>0, <2>2, <2>3, <2>4, SwitchedOff DEF ownVars
  <1>3. CASE GetRules(r)
    BY <1>0, <1>3 DEF GetRules, FailPolicy
  <1>4. CASE CreateFails(r)
    BY <1>0, <1>4 DEF CreateFails, ownVars
  <1>5. CASE CreateContext(r)
    BY <1>0, <1>5 DEF CreateContext
  <1>6. CASE StoreContextFails(r)
    BY <1>0, <1>6 DEF StoreContextFails, IInv, Reasons, Acquiring
  <1>7. CASE RawRequestMissing(r)
    BY <1>0, <1>7 DEF RawRequestMissing
  <1>8. CASE RequestHeaders(r)
    BY <1>0, <1>8 DEF RequestHeaders
  <1>9. CASE RequestBody(r)
    BY <1>0, <1>9 DEF RequestBody
  <1>10. CASE Handler(r)
    BY <1>0, <1>10 DEF Handler
  <1>11. CASE OnSendResponse(r)
    BY <1>0, <1>11 DEF OnSendResponse
  <1>12. CASE EndRequest(r)
    BY <1>0, <1>12 DEF EndRequest
  <1> QED BY <1>1, <1>2, <1>3, <1>4, <1>5, <1>6, <1>7, <1>8, <1>9, <1>10, <1>11, <1>12
          DEF LaterStep

\* Every step keeps Reasons.
LEMMA ReasonsStep ==
  ASSUME IInv, [Next]_vars
  PROVE  Reasons'
  <1>0. /\ \A s \in Requests : ReasonsOf(s)
        /\ DOMAIN pc = Requests
        /\ \A s \in Requests : pc[s] # "away" => meta[s] \in Nat \ {0}
    <2>1. \A s \in Requests : pc[s] # "away" => meta[s] \in Settings!Metas
      BY HasMeta
    <2> QED BY <2>1, BoundsAssumption DEF IInv, TypeOK, Reasons, ReasonsOf, Settings!Metas
  <1>1. Grows
    BY SettingsGrow
  <1>2. SUFFICES ASSUME NEW s \in Requests
                 PROVE  ReasonsOf(s)'
    BY DEF Reasons, ReasonsOf
  <1>3. ReasonsOf(s)
    BY <1>0
  \* nothing happens to request s that matters here
  <1>4. ASSUME UNCHANGED failClosed, handled'[s] = handled[s], stored'[s] = stored[s],
               consented[s] => consented'[s], rawMissing[s] => rawMissing'[s],
               pc[s] # "away" => meta'[s] = meta[s],
               pc'[s] = pc[s] \/ (Acquiring(s) /\ Acquiring(s)')
        PROVE  ReasonsOf(s)'
    <2>1. CASE pc[s] = "away"
      <3>1. pc'[s] = "away"
        BY <1>4, <2>1 DEF Acquiring
      <3> QED BY <1>3, <1>4, <2>1, <3>1 DEF ReasonsOf, Acquiring
    <2>2. CASE pc[s] # "away"
      <3>1. Excused(s) => Excused(s)'
        BY <1>0, <1>1, <1>4, <2>2, ExcusedKept
      <3>2. CASE pc'[s] = pc[s]
        BY <1>3, <1>4, <2>2, <3>1, <3>2 DEF ReasonsOf, Acquiring
      <3>3. CASE Acquiring(s) /\ Acquiring(s)'
        <4>1. pc'[s] # "away" /\ pc'[s] # "resume"
          BY <3>3 DEF Acquiring
        <4> QED BY <1>3, <1>4, <3>1, <3>3, <4>1 DEF ReasonsOf
      <3> QED BY <1>4, <3>2, <3>3
    <2> QED BY <2>1, <2>2
  <1>5. ASSUME NEW r \in Requests, OnBeginRequest(r)
        PROVE  ReasonsOf(s)'
    <2>1. /\ UNCHANGED <<failClosed, handled, stored, consented, rawMissing>>
          /\ pc[r] \in {"away", "resume"} /\ pc'[r] = "lookup"
          /\ r # s => pc'[s] = pc[s]
          /\ r # s \/ pc[r] # "away" => meta'[s] = meta[s]
      <3>1. DOMAIN meta = Requests
        BY DEF IInv, TypeOK, Settings!TypeOK
      <3> QED BY <1>0, <1>5, <3>1 DEF OnBeginRequest, Goto
    <2>2. CASE r # s
      BY <1>4, <2>1, <2>2
    <2>3. CASE r = s /\ pc[r] = "away"
      BY <1>3, <2>1, <2>3 DEF ReasonsOf
    <2>4. CASE r = s /\ pc[r] = "resume"
      <3>1. Excused(s)'
        BY <1>0, <1>1, <1>3, <2>1, <2>4, ExcusedKept DEF ReasonsOf
      <3> QED BY <2>1, <2>4, <3>1 DEF ReasonsOf
    <2> QED BY <2>1, <2>2, <2>3, <2>4
  <1>6. ASSUME NEW r \in Requests, LaterStep(r)
        PROVE  ReasonsOf(s)'
    <2>1. /\ UNCHANGED <<meta, settings>>
          /\ pc[r] \notin {"away", "lookup", "initialize", "store"}
          /\ pc'[r] \in {"rules", "create", "phase1", "body", "resume", "response", "end", "ended"}
          /\ pc'[r] \in {"rules", "create"} => pc[r] \in {"use", "rules"}
          /\ r # s => pc'[s] = pc[s]
      BY <1>0, <1>6, LaterStepsAreAfterwards DEF Afterwards, siteVars
    <2>2. /\ UNCHANGED failClosed
          /\ consented[s] => consented'[s]
          /\ rawMissing[s] => rawMissing'[s]
          /\ s # r => handled'[s] = handled[s] /\ stored'[s] = stored[s]
          /\ handled'[r] => handled[r] \/ pc[r] = "resume"
          /\ stored'[r] = stored[r] \/ pc'[r] = "phase1"
      BY <1>6, LaterReasons
    <2>3. CASE r # s
      BY <1>4, <2>1, <2>2, <2>3
    <2>4. CASE r = s
      <3>1. Excused(s) => Excused(s)'
        BY <1>0, <1>1, <2>1, <2>2, <2>4, ExcusedKept
      <3>2. pc'[s] = "resume" => Excused(s)'
        <4>1. pc'[s] = "resume" =>
              \/ Excused(s)
              \/ ~failClosed
              \/ consented'[s]
              \/ rawMissing'[s]
              \/ \E j \in meta[s]..Len(settings) :
                   ~settings[j].enabled \/ settings[j].path = "none"
          BY <1>6, <2>4, LaterReasons
        <4> QED BY <2>1, <2>2, <3>1, <4>1 DEF Excused
      <3>3. Acquiring(s)' => Acquiring(s) /\ stored'[s] = stored[s]
        BY <2>1, <2>2, <2>4 DEF Acquiring
      <3>4. handled'[s] => Excused(s)'
        BY <1>3, <2>2, <2>4, <3>1 DEF ReasonsOf
      <3> QED BY <1>3, <2>1, <2>4, <3>1, <3>2, <3>3, <3>4 DEF ReasonsOf
    <2> QED BY <2>3, <2>4
  <1>7. ASSUME UNCHANGED ownVars, UNCHANGED meta,
               \A q \in Requests : pc'[q] = pc[q] \/ (Acquiring(q) /\ Acquiring(q)')
        PROVE  ReasonsOf(s)'
    BY <1>4, <1>7 DEF ownVars
  <1>8. ASSUME NEW r \in Requests, GetConfig(r)
        PROVE  UNCHANGED meta
    BY <1>8, GetConfigCases
  <1>9. \/ \E r \in Requests : OnBeginRequest(r)
        \/ \E r \in Requests : LaterStep(r)
        \/ UNCHANGED meta
    BY <1>8, NextCases DEF Settings!Change, Settings!Release, vars, configVars, siteVars
  <1> QED BY <1>5, <1>6, <1>7, <1>9, EarlierSteps

(***************************************************************************)
(* The theorems.                                                           *)
(***************************************************************************)

\* The inductive invariant holds initially,
LEMMA InvInit == Init => IInv
  <1> SUFFICES ASSUME Init
               PROVE  IInv
    OBVIOUS
  <1>1. TypeOK /\ Counts
    BY TypeInit
  <1>2. /\ pc = [r \in Requests |-> "away"]
        /\ container = [m \in Settings!Metas |-> 0]
        /\ configs = <<>>
        /\ handled = [r \in Requests |-> FALSE]
        /\ stored = [r \in Requests |-> 0]
        /\ contexts = [r \in Requests |-> <<>>]
    BY DEF Init, Settings!Init
  <1>3. Len(configs) = 0 /\ DOMAIN configs = {} /\ \A r \in Requests : Len(contexts[r]) = 0
    BY <1>2
  <1>4. Ownership
    BY <1>2 DEF Ownership, Making
  <1>5. UsesLiveConfig
    BY <1>2 DEF UsesLiveConfig
  <1>6. ConfigsAccounted
    BY <1>3 DEF ConfigsAccounted
  <1>7. Origin
    BY <1>2 DEF Origin
  <1>8. Reasons
    BY <1>2 DEF Reasons, Acquiring
  <1>9. Endings
    BY <1>2, <1>3 DEF Endings
  <1> QED BY <1>1, <1>4, <1>5, <1>6, <1>7, <1>8, <1>9 DEF IInv

\* is kept by every step,
LEMMA InvStep == IInv /\ [Next]_vars => IInv'
  <1> SUFFICES ASSUME IInv, [Next]_vars
               PROVE  IInv'
    OBVIOUS
  <1>1. Settings!TypeOK' /\ OwnTypes' /\ ContextTypes' /\ Counts' /\ Endings'
    BY SettingsTypeStep, OwnTypesStep, ContextsStep
  <1>2. TypeOK'
    BY <1>1 DEF TypeOK, OwnTypes, ContextTypes
  <1>3. SiteInv' /\ OriginInv' /\ Reasons'
    BY SiteStep, OriginStep, ReasonsStep
  <1>4. Ownership' /\ UsesLiveConfig' /\ ConfigsAccounted'
    <2>1. (Settings!TypeOK /\ OwnTypes => (SiteInv <=> Ownership /\ UsesLiveConfig /\ ConfigsAccounted))'
      BY SiteParts, PTL
    <2> QED BY <1>1, <1>3, <2>1
  <1>5. Origin'
    <2>1. (SiteInv => (OriginInv <=> Origin))'
      BY OriginParts, PTL
    <2> QED BY <1>3, <2>1
  <1> QED BY <1>1, <1>2, <1>3, <1>4, <1>5 DEF IInv

\* and so holds always.
LEMMA InvHolds == Spec => []IInv
  BY InvInit, InvStep, PTL DEF Spec

\* Type correctness, for any number of requests, changes and notifications.
THEOREM TypeCorrect == Spec => []TypeOK
  <1>1. IInv => TypeOK
    BY DEF IInv
  <1> QED BY <1>1, InvHolds, PTL

\* A request never reads settings that a racing request or IIS has deleted:
\* GetConfig hands over the object of its metadata object, which lives until
\* the request is through with it.
THEOREM LiveConfig == Spec => []UsesLiveConfig
  <1>1. IInv => UsesLiveConfig
    BY DEF IInv
  <1> QED BY <1>1, InvHolds, PTL

\* Whoever loses the race in GetConfig deletes its own object, and so does
\* whoever fails: no MODSECURITY_STORED_CONTEXT is lost.
THEOREM NoConfigLost == Spec => []ConfigsAccounted
  <1>1. IInv => ConfigsAccounted
    BY DEF IInv
  <1> QED BY <1>1, InvHolds, PTL

\* What OnBeginRequest lets through to the handler was passed by the engine,
\* or by the settings or the policy of the operator, or had no raw request.
THEOREM OnlyInspected == Spec => []HandledOnlyInspected
  <1>1. IInv => HandledOnlyInspected
    BY DEF IInv, Reasons, Excused, HandledOnlyInspected
  <1> QED BY <1>1, InvHolds, PTL

\* FinishRequest and the destructor between them end a transaction once.
THEOREM EndOnce == Spec => []TransactionsEndOnce
  <1>1. IInv => TransactionsEndOnce
    <2> SUFFICES ASSUME IInv, NEW r \in Requests, NEW i \in DOMAIN contexts[r]
                 PROVE  /\ contexts[r][i].frees <= 1
                        /\ contexts[r][i].logs = contexts[r][i].frees
                        /\ ~(contexts[r][i].logThrew /\ contexts[r][i].frees > 0)
                        /\ pc[r] = "ended" => contexts[r][i].frees = 1 \/ contexts[r][i].logThrew
      BY DEF TransactionsEndOnce
    <2>1. i \in 1..Len(contexts[r])
      BY LenProperties DEF IInv, TypeOK
    <2> QED BY <2>1 DEF IInv, Endings, Sound
  <1> QED BY <1>1, InvHolds, PTL

\* The status ApplyIntervention tells the engine is the one the module sets for
\* the client: no later status replaces it.
THEOREM AuditRight == Spec => []AuditMatchesWire
  <1>1. IInv => AuditMatchesWire
    <2> SUFFICES ASSUME IInv, NEW r \in Requests, NEW i \in DOMAIN contexts[r]
                 PROVE  contexts[r][i].told \subseteq {wire[r]}
      BY DEF AuditMatchesWire
    <2>1. i \in 1..Len(contexts[r])
      BY LenProperties DEF IInv, TypeOK
    <2> QED BY <2>1 DEF IInv, Endings
  <1> QED BY <1>1, InvHolds, PTL
=============================================================================
