---------------------------- MODULE ModuleConfig ----------------------------
(***************************************************************************)
(* MODSECURITY_STORED_CONTEXT (src/moduleconfig.cpp): how a request comes  *)
(* to the settings of its site.  IIS keeps them, as the module has stored  *)
(* them, with the metadata object of the configuration path.  Requests of  *)
(* one path share that object and may be in GetConfig at the same time:    *)
(* nothing but SetModuleContext arbitrates between them.                   *)
(*                                                                         *)
(* IIS (external): when the configuration changes, later requests get a    *)
(* fresh metadata object; an old one is released, and its stored context   *)
(* with it, when no request holds it any more.  Configuration is always    *)
(* read as it stands at the time of the read.                              *)
(***************************************************************************)
EXTENDS Integers, Sequences

CONSTANTS
  Requests,
  MaxMetas,       \* bound: metadata objects, one more than changes
  MaxConfigs      \* bound: MODSECURITY_STORED_CONTEXT objects ever made

VARIABLES
  worker,         \* "up", or "down" after an access violation
  settings,       \* what the administrator has set, one entry per change; the
                  \* metadata objects are numbered alike
  container,      \* the stored context of each metadata object; 0: none
  configs,        \* the MODSECURITY_STORED_CONTEXT objects made so far
  pc,             \* where each request is
  meta,           \* the metadata object each request holds
  config          \* pModuleConfig of each request; 0 is NULL

\* What matters of a setting; the path of a site that is off is never read.
Setting == [enabled : {TRUE}, path : {"none", "rules"}]
             \cup [enabled : {FALSE}, path : {"none"}]
Config  == [enabled : BOOLEAN, path : {"none", "rules"}, alive : BOOLEAN]
Metas   == 1..MaxMetas

TypeOK ==
  /\ worker \in {"up", "down"}
  /\ settings \in Seq(Setting) /\ Len(settings) \in Metas
  /\ container \in [Metas -> 0..Len(configs)]
  /\ configs \in Seq(Config) /\ Len(configs) <= MaxConfigs
  /\ meta \in [Requests -> 0..Len(settings)]
  /\ config \in [Requests -> 0..Len(configs)]

Init ==
  /\ worker = "up"
  /\ settings \in [1..1 -> Setting]
  /\ container = [m \in Metas |-> 0]
  /\ configs = <<>>
  /\ meta = [r \in Requests |-> 0]
  /\ config = [r \in Requests |-> 0]

Goto(r, where) == pc' = [pc EXCEPT ![r] = where]
Holds(r)       == pc[r] \notin {"away", "ended"}

Fresh == [enabled |-> FALSE, path |-> "none", alive |-> TRUE]

\* CleanupStoredContext: delete this.
Deleted(i) == [configs EXCEPT ![i] = [Fresh EXCEPT !.alive = FALSE]]

(***************************************************************************)
(* IIS.                                                                    *)
(***************************************************************************)

\* The administrator changes the settings of the path.
Change ==
  /\ Len(settings) < MaxMetas
  /\ \E s \in Setting : settings' = Append(settings, s)
  /\ UNCHANGED <<worker, container, configs, pc, meta, config>>

\* An outdated metadata object that nobody holds goes, with its context.
Release(m) ==
  /\ m < Len(settings)
  /\ container[m] # 0
  /\ \A r \in Requests : meta[r] = m => ~Holds(r)
  /\ configs' = Deleted(container[m])
  /\ container' = [container EXCEPT ![m] = 0]
  /\ UNCHANGED <<worker, settings, pc, meta, config>>

(***************************************************************************)
(* GetConfig.                                                              *)
(***************************************************************************)

\* The stored context is there, or a new one is allocated with the defaults
\* of the constructor; without a container or memory the call fails.
Lookup(r) ==
  /\ pc[r] = "lookup"
  /\ IF container[meta[r]] # 0
     THEN /\ config' = [config EXCEPT ![r] = container[meta[r]]]
          /\ Goto(r, "use")
          /\ UNCHANGED configs
     ELSE \/ /\ Len(configs) < MaxConfigs
             /\ configs' = Append(configs, Fresh)
             /\ config' = [config EXCEPT ![r] = Len(configs')]
             /\ Goto(r, "initialize")
          \/ Goto(r, "configFailed") /\ UNCHANGED <<configs, config>>
  /\ UNCHANGED <<worker, settings, container, meta>>

\* What reading one property comes to: its value; a failure, which is a
\* failed call or no memory for the copy; success with an exception object; or
\* a property that is missing, whose VARIANT is cleared uninitialised.
Read  == {"value", "failed", "exception", "missing"}
Reads == [enabled : Read, responseBodyBlock : Read, configFile : Read]

\* Fault: an exception object is not handed to the caller, which takes the
\* call for a success.
ExceptionSwallowed(s, reads) ==
  LET ok == {"value", "exception"}
      on == reads.enabled = "value" /\ s.enabled
      failure == IF reads.enabled \notin ok THEN reads.enabled
                 ELSE IF on /\ reads.responseBodyBlock \notin ok THEN reads.responseBodyBlock
                 ELSE IF on /\ reads.configFile \notin ok THEN reads.configFile
                 ELSE "value"
  IN [result |-> failure, enabled |-> on,
      path |-> IF on /\ reads.configFile = "value" THEN s.path ELSE "none"]

\* Initialize: the three properties in order, up to the first that cannot be
\* read; a disabled site is not read further.
Initialized(s, reads) ==
  [result  |-> IF reads.enabled # "value" \/ ~s.enabled THEN reads.enabled
               ELSE IF reads.responseBodyBlock # "value" THEN reads.responseBodyBlock
               ELSE reads.configFile,
   enabled |-> s.enabled,
   path    |-> s.path]

\* Initialize fails, as a whole or at a property: the object is deleted.
InitializeFails(r) ==
  /\ configs' = Deleted(config[r])
  /\ config' = [config EXCEPT ![r] = 0]
  /\ Goto(r, "configFailed")
  /\ UNCHANGED worker

Initialize(r) ==
  /\ pc[r] = "initialize"
  /\ \/ InitializeFails(r)             \* no admin manager, no section
     \/ \E reads \in Reads :
          LET got == Initialized(settings[Len(settings)], reads)
          IN  \/ /\ got.result = "value"
                 /\ configs' = [configs EXCEPT ![config[r]].enabled = got.enabled,
                                               ![config[r]].path = got.path]
                 /\ Goto(r, "store")
                 /\ UNCHANGED <<worker, config>>
              \/ /\ got.result # "value"
                 /\ InitializeFails(r)
              \/ /\ got.result = "missing"
                 /\ worker' = "down"
                 /\ UNCHANGED <<configs, config, pc>>
  /\ UNCHANGED <<settings, container, meta>>

\* SetModuleContext succeeds.
StoreWins(r) ==
  /\ pc[r] = "store"
  /\ container[meta[r]] = 0
  /\ container' = [container EXCEPT ![meta[r]] = config[r]]
  /\ Goto(r, "use")
  /\ UNCHANGED <<worker, settings, configs, meta, config>>

\* Fault: the loser goes on with its own object, which it has deleted.
StoreLosesKeepsOwn(r) ==
  /\ pc[r] = "store"
  /\ container[meta[r]] # 0
  /\ configs' = Deleted(config[r])
  /\ Goto(r, "use")
  /\ UNCHANGED <<worker, settings, container, meta, config>>

\* Fault: the loser forgets its own object.
StoreLosesLeaks(r) ==
  /\ pc[r] = "store"
  /\ container[meta[r]] # 0
  /\ config' = [config EXCEPT ![r] = container[meta[r]]]
  /\ Goto(r, "use")
  /\ UNCHANGED <<worker, settings, container, configs, meta>>

\* ERROR_ALREADY_ASSIGNED: another request was first.  The own object is
\* deleted and the winner's is fetched, without a check for NULL.
StoreLoses(r) ==
  /\ pc[r] = "store"
  /\ container[meta[r]] # 0
  /\ configs' = Deleted(config[r])
  /\ config' = [config EXCEPT ![r] = container[meta[r]]]
  /\ Goto(r, "use")
  /\ UNCHANGED <<worker, settings, container, meta>>

\* SetModuleContext fails otherwise.
StoreFails(r) ==
  /\ pc[r] = "store"
  /\ container[meta[r]] = 0
  /\ configs' = Deleted(config[r])
  /\ config' = [config EXCEPT ![r] = 0]
  /\ Goto(r, "configFailed")
  /\ UNCHANGED <<worker, settings, container, meta>>

GetConfig(r) ==
  Lookup(r) \/ Initialize(r) \/ StoreWins(r) \/ StoreLoses(r) \/ StoreFails(r)

IIS == Change \/ \E m \in Metas : Release(m)
=============================================================================
