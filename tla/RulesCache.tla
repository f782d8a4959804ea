----------------------------- MODULE RulesCache -----------------------------
(***************************************************************************)
(* iis::getRules (src/connector.cpp): the process-wide cache of parsed     *)
(* RulesSet objects, keyed by configuration file, that every request       *)
(* consults in OnBeginRequest.                                             *)
(*                                                                         *)
(* Several IIS threads are inside getRules at a time.  g_rulesMutex is     *)
(* held for the lookup and again for the outcome, but not while the file   *)
(* is stat'd or parsed, so each of those is a step of its own and the      *)
(* operator may edit, break or remove the file between any two of them.    *)
(*                                                                         *)
(* A RulesSet is the object one loadFromUri filled: its serial number      *)
(* tells objects apart, its version is the mtime of the text it was parsed *)
(* from.  Time stamps are positive; 0 is the zeroed FILETIME.              *)
(***************************************************************************)
EXTENDS Integers, FiniteSets

CONSTANTS
  Threads,      \* IIS threads that run OnBeginRequest
  Files,        \* configuration files
  MaxEdits,     \* bound: how often the operator touches the files
  MaxLoads      \* bound: how many RulesSet objects are made

ASSUME ThreadsAssumption == Threads # {}
ASSUME FilesAssumption == Files # {}
ASSUME MaxEditsAssumption == MaxEdits \in Nat
ASSUME MaxLoadsAssumption == MaxLoads \in Nat

VARIABLES
  disk,           \* per file: mtime and "good", "broken" or "absent" text
  edits,          \* edits so far: the clock of the file system
  g_rulesCache,   \* per file: NoEntry or [rules, mtime]
  loads,          \* RulesSet objects made so far
  pc,             \* where each thread is in getRules
  call,           \* each thread's configFile, haveMtime, curMtime and rules
  result,         \* what each thread's last call returned
  served          \* history: everything the calls for a file returned

vars == <<disk, edits, g_rulesCache, loads, pc, call, result, served>>

RulesSet == [serial : 1..MaxLoads, version : 0..MaxEdits + 1]
NoRules  == [serial |-> 0, version |-> 0]        \* nullptr
NoEntry  == [rules |-> NoRules, mtime |-> 0]
Entry    == [rules : RulesSet, mtime : 0..MaxEdits + 1]
Cached(f) == g_rulesCache[f] # NoEntry

\* A call: the file, what GetRulesFileTime said, the RulesSet it has parsed,
\* and whether the file had been served before it began (history).
Call == [file : Files, haveMtime : {"yes", "no"}, curMtime : 0..MaxEdits + 1,
         rules : RulesSet \cup {NoRules}, protected : BOOLEAN]

Result == [rules : RulesSet \cup {NoRules}, how : {"none", "hit", "parsed", "kept", "threw"},
           call : Call]

TypeOK ==
  /\ disk \in [Files -> [mtime : 1..MaxEdits + 1, text : {"good", "broken", "absent"}]]
  /\ edits \in 0..MaxEdits
  /\ g_rulesCache \in [Files -> Entry \cup {NoEntry}]
  /\ loads \in 0..MaxLoads
  /\ pc \in [Threads -> {"idle", "fast", "load", "failed", "publish"}]
  /\ call \in [Threads -> Call]
  /\ result \in [Threads -> Result]
  /\ served \in [Files -> SUBSET (RulesSet \cup {NoRules})]

NoCall == [file |-> CHOOSE f \in Files : TRUE, haveMtime |-> "no", curMtime |-> 0,
           rules |-> NoRules, protected |-> FALSE]

Init ==
  /\ disk \in [Files -> [mtime : {1}, text : {"good", "broken", "absent"}]]
  /\ edits = 0
  /\ g_rulesCache = [f \in Files |-> NoEntry]
  /\ loads = 0
  /\ pc = [t \in Threads |-> "idle"]
  /\ call = [t \in Threads |-> NoCall]
  /\ result = [t \in Threads |-> [rules |-> NoRules, how |-> "none", call |-> NoCall]]
  /\ served = [f \in Files |-> {}]

Goto(t, where) == pc' = [pc EXCEPT ![t] = where]

(***************************************************************************)
(* The operator edits, breaks, repairs or removes a file.                  *)
(***************************************************************************)
EditFile(f) ==
  /\ edits < MaxEdits
  /\ edits' = edits + 1
  /\ \E text \in {"good", "broken", "absent"} :
       disk' = [disk EXCEPT ![f] = [mtime |-> edits + 2, text |-> text]]
  /\ UNCHANGED <<g_rulesCache, loads, pc, call, result, served>>

(***************************************************************************)
(* getRules.                                                               *)
(***************************************************************************)

\* Fault: curMtime keeps what was on the stack when the stat fails.
FileTimeUninitialised(f) ==
  IF disk[f].text = "absent" THEN [have |-> "no",  mtime |-> -1]
                             ELSE [have |-> "yes", mtime |-> disk[f].mtime]

\* GetRulesFileTime into a zeroed curMtime.
GetRulesFileTime(f) ==
  IF disk[f].text = "absent" THEN [have |-> "no",  mtime |-> 0]
                             ELSE [have |-> "yes", mtime |-> disk[f].mtime]

\* A request calls getRules, which stats the file first.
GetRules(t, f) ==
  LET stat == GetRulesFileTime(f)
  IN  /\ pc[t] = "idle"
      /\ call' = [call EXCEPT ![t] =
           [file |-> f, haveMtime |-> stat.have, curMtime |-> stat.mtime,
            rules |-> NoRules, protected |-> served[f] \cap RulesSet # {}]]
      /\ Goto(t, "fast")
      /\ UNCHANGED <<disk, edits, g_rulesCache, loads, result, served>>

\* The call of thread t returns r.
Return(t, r, how) ==
  /\ result' = [result EXCEPT ![t] = [rules |-> r, how |-> how, call |-> call[t]]]
  /\ served' = [served EXCEPT ![call[t].file] = @ \cup {r}]
  /\ Goto(t, "idle")

\* Under the mutex: a cached entry whose mtime still matches, or a file that
\* cannot be stat'd, is a hit; otherwise go and parse.
FastPath(t) ==
  LET f   == call[t].file
      hit == /\ Cached(f)
             /\ \/ call[t].haveMtime = "no"
                \/ g_rulesCache[f].mtime = call[t].curMtime
  IN  /\ pc[t] = "fast"
      /\ \/ hit /\ Return(t, g_rulesCache[f].rules, "hit")
         \/ ~hit /\ Goto(t, "load") /\ UNCHANGED <<result, served>>
      /\ UNCHANGED <<disk, edits, g_rulesCache, loads, call>>

\* loadFromUri into a new RulesSet, without the mutex.
LoadFromUri(t) ==
  LET f == call[t].file
  IN  /\ pc[t] = "load"
      /\ \/ /\ disk[f].text = "good"
            /\ loads < MaxLoads
            /\ loads' = loads + 1
            /\ call' = [call EXCEPT ![t].rules =
                 [serial |-> loads + 1, version |-> disk[f].mtime]]
            /\ Goto(t, "publish")
         \/ /\ disk[f].text # "good"
            /\ Goto(t, "failed")
            /\ UNCHANGED <<call, loads>>
      /\ UNCHANGED <<disk, edits, g_rulesCache, result, served>>

\* make_shared or the parser throws: the exception leaves getRules and the
\* caller's catch finishes the request; nothing is returned.
LoadThrows(t) ==
  /\ pc[t] = "load"
  /\ result' = [result EXCEPT ![t] = [rules |-> NoRules, how |-> "threw", call |-> call[t]]]
  /\ Goto(t, "idle")
  /\ UNCHANGED <<disk, edits, g_rulesCache, loads, call, served>>

\* Fault: a failed parse returns nullptr although an entry is cached.
ParseFailureRefuses(t) ==
  /\ pc[t] = "failed"
  /\ Return(t, NoRules, "kept")
  /\ UNCHANGED <<disk, edits, g_rulesCache, loads, call>>

\* Fault: a failed parse drops the cached entry.
ParseFailureDropsEntry(t) ==
  /\ pc[t] = "failed"
  /\ Return(t, g_rulesCache[call[t].file].rules, "kept")
  /\ g_rulesCache' = [g_rulesCache EXCEPT ![call[t].file] = NoEntry]
  /\ UNCHANGED <<disk, edits, loads, call>>

\* Under the mutex, after a failed parse: the last known good rules, or
\* nullptr when there are none.
KeepLastGood(t) ==
  /\ pc[t] = "failed"
  /\ Return(t, g_rulesCache[call[t].file].rules, "kept")
  /\ UNCHANGED <<disk, edits, g_rulesCache, loads, call>>

\* Fault: the entry is written without a second look at the cache.
PublishOverwrites(t) ==
  /\ pc[t] = "publish"
  /\ g_rulesCache' = [g_rulesCache EXCEPT ![call[t].file] =
       [rules |-> call[t].rules, mtime |-> call[t].curMtime]]
  /\ Return(t, call[t].rules, "parsed")
  /\ UNCHANGED <<disk, edits, loads, call>>

\* Under the mutex, after a successful parse: an entry that is already there
\* wins and the new RulesSet is dropped; otherwise it becomes the entry.
Publish(t) ==
  LET f == call[t].file
  IN  /\ pc[t] = "publish"
      /\ \/ /\ Cached(f)
            /\ Return(t, g_rulesCache[f].rules, "parsed")
            /\ UNCHANGED g_rulesCache
         \/ /\ ~Cached(f)
            /\ g_rulesCache' = [g_rulesCache EXCEPT ![f] =
                 [rules |-> call[t].rules, mtime |-> call[t].curMtime]]
            /\ Return(t, call[t].rules, "parsed")
      /\ UNCHANGED <<disk, edits, loads, call>>

Next ==
  \/ \E f \in Files : EditFile(f)
  \/ \E t \in Threads :
       \/ \E f \in Files : GetRules(t, f)
       \/ FastPath(t) \/ LoadFromUri(t) \/ LoadThrows(t) \/ KeepLastGood(t) \/ Publish(t)

Spec == Init /\ [][Next]_vars

(***************************************************************************)
(* Properties.                                                             *)
(***************************************************************************)

\* One RulesSet per file for the life of the worker process (README.md:131):
\* whoever wins the race of the first requests, every request that is given
\* rules for a file is given the same object.
SameRules ==
  \A f \in Files : \A r, s \in served[f] \cap RulesSet : r = s

\* Last known good (connector.cpp:133): a call that begins after some request
\* was given rules for the file never comes back with nullptr, whatever has
\* happened to the file in between.
StaysProtected ==
  \A t \in Threads :
    result[t].call.protected => result[t].rules # NoRules \/ result[t].how = "threw"

\* getRules behaves like a write-once cell per file (module RulesStore).
Store == INSTANCE RulesStore WITH
  Rules <- RulesSet,
  Empty <- NoRules,
  cell  <- [f \in Files |-> g_rulesCache[f].rules]

ImplementsRulesStore == Store!Spec

\* "Cache is invalidated when the file's mtime changes" (connector.h:18-19):
\* a call that found a newer file and parsed it returns rules at least as new
\* as the file it found.
MtimeInvalidates ==
  \A t \in Threads :
    result[t].how = "parsed" => result[t].rules.version >= result[t].call.curMtime
=============================================================================
