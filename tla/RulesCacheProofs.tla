-------------------------- MODULE RulesCacheProofs --------------------------
(***************************************************************************)
(* Proofs about RulesCache, for any threads, files and number of edits.    *)
(*                                                                         *)
(* The argument: an entry, once made, is never touched again, and whatever *)
(* has been returned for a file is its entry.  A call that begins after a  *)
(* success therefore finds an entry in each of its critical sections.      *)
(***************************************************************************)
EXTENDS RulesCache, TLAPS

\* What was returned is what is cached.
ServedIsCached ==
  \A f \in Files : \A r \in served[f] : r \in RulesSet => r = g_rulesCache[f].rules

\* A call that began protected works on a cached file.
ProtectedIsCached ==
  \A t \in Threads : pc[t] # "idle" /\ call[t].protected => Cached(call[t].file)

\* A call about to publish has parsed a RulesSet.
ParsedInHand ==
  \A t \in Threads : pc[t] = "publish" => call[t].rules \in RulesSet

\* The inductive invariant.
IInv == TypeOK /\ ServedIsCached /\ ProtectedIsCached /\ ParsedInHand /\ StaysProtected

USE ThreadsAssumption, MaxEditsAssumption, MaxLoadsAssumption, FilesAssumption

\* nullptr is not a RulesSet, so an entry is cached exactly when it has rules.
LEMMA EntryHasRules ==
  ASSUME TypeOK, NEW f \in Files
  PROVE  /\ NoRules \notin RulesSet
         /\ Cached(f) => g_rulesCache[f].rules \in RulesSet
         /\ ~Cached(f) => g_rulesCache[f].rules = NoRules
  BY DEF TypeOK, Entry, NoEntry, NoRules, RulesSet, Cached

\* The idle record is a call.
LEMMA NoCallType == NoCall \in Call
  BY DEF NoCall, Call

\* The initial states have their types.
LEMMA TypeInit == Init => TypeOK
  <1> SUFFICES ASSUME Init PROVE TypeOK
    OBVIOUS
  <1>1. call \in [Threads -> Call]
    BY NoCallType DEF Init
  <1>2. result \in [Threads -> Result]
    BY NoCallType DEF Init, Result
  <1>3. disk \in [Files -> [mtime : 1..MaxEdits + 1, text : {"good", "broken", "absent"}]]
    BY DEF Init
  <1> QED BY <1>1, <1>2, <1>3 DEF Init, TypeOK

\* A call returns: the history and the result keep their types.
LEMMA ReturnType ==
  ASSUME TypeOK, NEW t \in Threads, NEW r \in RulesSet \cup {NoRules},
         NEW how \in {"hit", "parsed", "kept"}, Return(t, r, how)
  PROVE  /\ result' \in [Threads -> Result]
         /\ served' \in [Files -> SUBSET (RulesSet \cup {NoRules})]
         /\ pc' \in [Threads -> {"idle", "fast", "load", "failed", "publish"}]
  <1>1. call[t] \in Call /\ call[t].file \in Files
    BY DEF TypeOK, Call
  <1>2. [rules |-> r, how |-> how, call |-> call[t]] \in Result
    BY <1>1 DEF Result
  <1>3. result' \in [Threads -> Result]
    BY <1>2 DEF Return, TypeOK
  <1>4. served' \in [Files -> SUBSET (RulesSet \cup {NoRules})]
    BY <1>1 DEF Return, TypeOK
  <1> QED BY <1>3, <1>4 DEF Return, Goto, TypeOK

\* Every step keeps the types.
LEMMA TypeStep == TypeOK /\ ParsedInHand /\ [Next]_vars => TypeOK'
  <1> SUFFICES ASSUME TypeOK, ParsedInHand, [Next]_vars PROVE TypeOK'
    OBVIOUS
  <1>1. CASE UNCHANGED vars
    BY <1>1 DEF TypeOK, vars
  <1>2. ASSUME NEW f \in Files, EditFile(f) PROVE TypeOK'
    <2>1. edits' \in 0..MaxEdits
      BY <1>2 DEF EditFile, TypeOK
    <2>2. \A text \in {"good", "broken", "absent"} :
            [mtime |-> edits + 2, text |-> text]
              \in [mtime : 1..MaxEdits + 1, text : {"good", "broken", "absent"}]
      BY <1>2 DEF EditFile, TypeOK
    <2>3. disk' \in [Files -> [mtime : 1..MaxEdits + 1, text : {"good", "broken", "absent"}]]
      BY <1>2, <2>2 DEF EditFile, TypeOK
    <2> QED BY <1>2, <2>1, <2>3 DEF EditFile, TypeOK
  <1>3. ASSUME NEW t \in Threads, NEW f \in Files, GetRules(t, f) PROVE TypeOK'
    <2>1. GetRulesFileTime(f).have \in {"yes", "no"} /\ GetRulesFileTime(f).mtime \in 0..MaxEdits + 1
      BY DEF GetRulesFileTime, TypeOK
    <2>2. call' \in [Threads -> Call]
      <3>1. (served[f] \cap RulesSet # {}) \in BOOLEAN
        OBVIOUS
      <3> QED BY <1>3, <2>1, <3>1 DEF GetRules, Call, TypeOK
    <2>3. pc' \in [Threads -> {"idle", "fast", "load", "failed", "publish"}]
      BY <1>3 DEF GetRules, Goto, TypeOK
    <2> QED BY <1>3, <2>2, <2>3 DEF GetRules, TypeOK
  <1>4. ASSUME NEW t \in Threads, FastPath(t) PROVE TypeOK'
    <2>1. call[t].file \in Files
      BY DEF TypeOK, Call
    <2>2. g_rulesCache[call[t].file].rules \in RulesSet \cup {NoRules}
      BY <2>1, EntryHasRules
    <2>3. CASE Return(t, g_rulesCache[call[t].file].rules, "hit")
      BY <1>4, <2>2, <2>3, ReturnType DEF FastPath, TypeOK
    <2>4. CASE Goto(t, "load") /\ UNCHANGED <<result, served>>
      BY <1>4, <2>4 DEF FastPath, Goto, TypeOK
    <2> QED BY <1>4, <2>3, <2>4 DEF FastPath
  <1>5. ASSUME NEW t \in Threads, LoadFromUri(t) PROVE TypeOK'
    <2>0. call[t].file \in Files
      BY DEF TypeOK, Call
    <2>1. pc' \in [Threads -> {"idle", "fast", "load", "failed", "publish"}]
      BY <1>5 DEF LoadFromUri, Goto, TypeOK
    <2>2. CASE disk[call[t].file].text # "good"
      BY <1>5, <2>1, <2>2 DEF LoadFromUri, TypeOK
    <2>3. CASE disk[call[t].file].text = "good"
      <3>1. loads' \in 0..MaxLoads /\ loads + 1 \in 1..MaxLoads
        BY <1>5, <2>3 DEF LoadFromUri, TypeOK
      <3>2. [serial |-> loads + 1, version |-> disk[call[t].file].mtime] \in RulesSet
        BY <2>0, <3>1 DEF RulesSet, TypeOK
      <3>3. call' \in [Threads -> Call]
        <4> DEFINE r == [serial |-> loads + 1, version |-> disk[call[t].file].mtime]
        <4>1. call' = [call EXCEPT ![t] = [call[t] EXCEPT !.rules = r]]
          BY <1>5, <2>3 DEF LoadFromUri, TypeOK
        <4>2. [call[t] EXCEPT !.rules = r] \in Call
          <5>1. call[t] \in Call /\ r \in RulesSet
            BY <3>2 DEF TypeOK
          <5> HIDE DEF r
          <5> QED BY <5>1 DEF Call
        <4> HIDE DEF r
        <4> QED BY <4>1, <4>2 DEF TypeOK
      <3> QED BY <1>5, <2>1, <3>1, <3>3 DEF LoadFromUri, TypeOK
    <2> QED BY <2>2, <2>3
  <1>6. ASSUME NEW t \in Threads, LoadThrows(t) PROVE TypeOK'
    <2>1. [rules |-> NoRules, how |-> "threw", call |-> call[t]] \in Result
      BY DEF Result, TypeOK
    <2> QED BY <1>6, <2>1 DEF LoadThrows, Goto, TypeOK
  <1>7. ASSUME NEW t \in Threads, KeepLastGood(t) PROVE TypeOK'
    <2>1. call[t].file \in Files
      BY DEF TypeOK, Call
    <2>2. g_rulesCache[call[t].file].rules \in RulesSet \cup {NoRules}
      BY <2>1, EntryHasRules
    <2> QED BY <1>7, <2>2, ReturnType DEF KeepLastGood, TypeOK
  <1>8. ASSUME NEW t \in Threads, Publish(t) PROVE TypeOK'
    <2>1. call[t].file \in Files /\ call[t].curMtime \in 0..MaxEdits + 1
      BY DEF TypeOK, Call
    <2>2. call[t].rules \in RulesSet
      BY <1>8 DEF Publish, ParsedInHand
    <2>3. CASE Cached(call[t].file)
      <3>1. g_rulesCache[call[t].file].rules \in RulesSet
        BY <2>1, <2>3, EntryHasRules
      <3> QED BY <1>8, <2>3, <3>1, ReturnType DEF Publish, TypeOK
    <2>4. CASE ~Cached(call[t].file)
      <3>1. [rules |-> call[t].rules, mtime |-> call[t].curMtime] \in Entry
        BY <2>1, <2>2 DEF Entry
      <3>2. g_rulesCache' \in [Files -> Entry \cup {NoEntry}]
        BY <1>8, <2>4, <3>1 DEF Publish, TypeOK
      <3> QED BY <1>8, <2>2, <2>4, <3>2, ReturnType DEF Publish, TypeOK
    <2> QED BY <2>3, <2>4
  <1> QED BY <1>1, <1>2, <1>3, <1>4, <1>5, <1>6, <1>7, <1>8 DEF Next

\* The inductive invariant holds initially,
LEMMA InvInit == Init => IInv
  <1> SUFFICES ASSUME Init PROVE IInv
    OBVIOUS
  <1>1. ServedIsCached /\ ProtectedIsCached /\ ParsedInHand
    BY DEF Init, ServedIsCached, ProtectedIsCached, ParsedInHand, NoCall
  <1>2. StaysProtected
    BY DEF Init, StaysProtected, NoCall
  <1> QED BY <1>1, <1>2, TypeInit DEF IInv

\* A call that returns the entry, or nullptr when there is none, keeps the
\* invariant.
LEMMA ReturnStep ==
  ASSUME IInv, NEW t \in Threads, pc[t] # "idle", NEW how \in {"hit", "parsed", "kept"},
         Return(t, g_rulesCache'[call[t].file].rules, how), UNCHANGED call,
         \A f \in Files : Cached(f) => g_rulesCache'[f] = g_rulesCache[f],
         \A f \in Files : f # call[t].file => g_rulesCache'[f] = g_rulesCache[f],
         TypeOK'
  PROVE  IInv'
  <1> DEFINE g == call[t].file
             r == g_rulesCache'[g].rules
  <1>1. g \in Files
    BY DEF IInv, TypeOK, Call
  <1>2. /\ result' = [result EXCEPT ![t] = [rules |-> r, how |-> how, call |-> call[t]]]
        /\ served' = [served EXCEPT ![g] = @ \cup {r}]
        /\ pc' = [pc EXCEPT ![t] = "idle"]
    BY DEF Return, Goto
  <1> HIDE DEF r, g
  <1>3. ServedIsCached'
    <2> SUFFICES ASSUME NEW f \in Files, NEW s \in served'[f], s \in RulesSet
                 PROVE  s = g_rulesCache'[f].rules
      BY DEF ServedIsCached
    <2>1. CASE s \in served[f]
      <3>1. s = g_rulesCache[f].rules
        BY <2>1 DEF IInv, ServedIsCached
      <3>2. Cached(f)
        BY <3>1, EntryHasRules DEF IInv
      <3> QED BY <3>1, <3>2
    <2>2. CASE s \notin served[f]
      <3>1. f = g /\ s = r
        BY <1>1, <1>2, <2>2 DEF IInv, TypeOK
      <3> QED BY <3>1 DEF r, g
    <2> QED BY <2>1, <2>2
  <1>4. ProtectedIsCached'
    <2> SUFFICES ASSUME NEW u \in Threads, pc'[u] # "idle", call[u].protected
                 PROVE  Cached(call[u].file)'
      BY DEF ProtectedIsCached
    <2>1. pc[u] # "idle" /\ call[u].file \in Files
      BY <1>2 DEF IInv, TypeOK, Call
    <2>2. Cached(call[u].file)
      BY <2>1 DEF IInv, ProtectedIsCached
    <2> QED BY <2>1, <2>2 DEF Cached
  <1>5. ParsedInHand'
    BY <1>2 DEF IInv, TypeOK, ParsedInHand
  <1>6. StaysProtected'
    <2> SUFFICES ASSUME NEW u \in Threads, result'[u].call.protected
                 PROVE  result'[u].rules # NoRules \/ result'[u].how = "threw"
      BY DEF StaysProtected
    <2>1. CASE u # t
      BY <1>2, <2>1 DEF IInv, TypeOK, StaysProtected
    <2>2. CASE u = t
      <3>1. result'[t] = [rules |-> r, how |-> how, call |-> call[t]]
        BY <1>2 DEF IInv, TypeOK
      <3>2. call[t].protected
        BY <2>2, <3>1
      <3>3. Cached(g)
        BY <3>2 DEF IInv, ProtectedIsCached, g
      <3>4. r \in RulesSet /\ NoRules \notin RulesSet
        BY <1>1, <3>3, EntryHasRules DEF IInv, r
      <3> QED BY <2>2, <3>1, <3>4
    <2> QED BY <2>1, <2>2
  <1> QED BY <1>3, <1>4, <1>5, <1>6 DEF IInv

\* is kept by every step,
LEMMA InvStep == IInv /\ [Next]_vars => IInv'
  <1> SUFFICES ASSUME IInv, [Next]_vars PROVE IInv'
    OBVIOUS
  <1>0. TypeOK /\ TypeOK'
    BY TypeStep DEF IInv
  <1> USE DEF ServedIsCached, ProtectedIsCached, ParsedInHand, StaysProtected, Cached
  <1>1. CASE UNCHANGED vars
    BY <1>0, <1>1 DEF IInv, vars
  <1>2. ASSUME NEW f \in Files, EditFile(f) PROVE IInv'
    BY <1>0, <1>2 DEF IInv, EditFile
  <1>3. ASSUME NEW t \in Threads, NEW f \in Files, GetRules(t, f) PROVE IInv'
    <2>1. /\ call'[t].file = f
          /\ call'[t].protected <=> served[f] \cap RulesSet # {}
          /\ pc' = [pc EXCEPT ![t] = "fast"]
          /\ \A u \in Threads : u # t => call'[u] = call[u]
          /\ UNCHANGED <<g_rulesCache, result, served>>
      BY <1>0, <1>3 DEF GetRules, Goto, TypeOK
    <2>2. served[f] \cap RulesSet # {} => Cached(f)
      <3> SUFFICES ASSUME NEW r \in served[f], r \in RulesSet PROVE Cached(f)
        OBVIOUS
      <3>1. r = g_rulesCache[f].rules
        BY DEF IInv
      <3> QED BY <1>0, <3>1, EntryHasRules
    <2>3. ProtectedIsCached'
      BY <1>0, <2>1, <2>2 DEF IInv, TypeOK
    <2>4. ParsedInHand'
      BY <1>0, <2>1 DEF IInv, TypeOK
    <2> QED BY <1>0, <2>1, <2>3, <2>4 DEF IInv
  <1>4. ASSUME NEW t \in Threads, FastPath(t) PROVE IInv'
    <2>1. CASE Return(t, g_rulesCache[call[t].file].rules, "hit")
      BY <1>0, <1>4, <2>1, ReturnStep DEF FastPath
    <2>2. CASE Goto(t, "load") /\ UNCHANGED <<result, served>>
      BY <1>0, <1>4, <2>2 DEF IInv, TypeOK, FastPath, Goto
    <2> QED BY <1>4, <2>1, <2>2 DEF FastPath
  <1>5. ASSUME NEW t \in Threads, LoadFromUri(t) PROVE IInv'
    <2> DEFINE g == call[t].file
               r == [serial |-> loads + 1, version |-> disk[g].mtime]
    <2>1. CASE disk[g].text # "good"
      BY <1>0, <1>5, <2>1 DEF IInv, TypeOK, LoadFromUri, Goto
    <2>2. CASE disk[g].text = "good"
      <3>1. /\ call' = [call EXCEPT ![t] = [call[t] EXCEPT !.rules = r]]
            /\ pc' = [pc EXCEPT ![t] = "publish"]
            /\ UNCHANGED <<g_rulesCache, result, served>>
        BY <1>0, <1>5, <2>2 DEF LoadFromUri, TypeOK, Goto
      <3>2. r \in RulesSet
        <4>1. loads + 1 \in 1..MaxLoads
          BY <1>0, <1>5, <2>2 DEF LoadFromUri, TypeOK
        <4>2. disk[g].mtime \in 0..MaxEdits + 1
          BY <1>0 DEF TypeOK, Call
        <4> QED BY <4>1, <4>2 DEF RulesSet
      <3> HIDE DEF r
      <3>3. /\ call'[t].rules = r
            /\ call'[t].file = call[t].file
            /\ call'[t].protected = call[t].protected
            /\ \A u \in Threads : u # t => call'[u] = call[u]
        BY <1>0, <3>1 DEF TypeOK, Call
      <3>4. pc[t] = "load"
        BY <1>5 DEF LoadFromUri
      <3>5. ProtectedIsCached'
        BY <1>0, <3>1, <3>3, <3>4 DEF IInv, TypeOK
      <3>6. ParsedInHand'
        BY <1>0, <3>1, <3>2, <3>3 DEF IInv, TypeOK
      <3> QED BY <1>0, <3>1, <3>5, <3>6 DEF IInv
    <2> QED BY <2>1, <2>2
  <1>6. ASSUME NEW t \in Threads, LoadThrows(t) PROVE IInv'
    BY <1>0, <1>6 DEF IInv, TypeOK, LoadThrows, Goto
  <1>7. ASSUME NEW t \in Threads, KeepLastGood(t) PROVE IInv'
    BY <1>0, <1>7, ReturnStep DEF KeepLastGood
  <1>8. ASSUME NEW t \in Threads, Publish(t) PROVE IInv'
    <2>0. call[t].file \in Files
      BY <1>0 DEF TypeOK, Call
    <2>1. CASE Cached(call[t].file)
      BY <1>0, <1>8, <2>1, ReturnStep DEF Publish
    <2>2. CASE ~Cached(call[t].file)
      <3>1. g_rulesCache' = [g_rulesCache EXCEPT ![call[t].file] =
              [rules |-> call[t].rules, mtime |-> call[t].curMtime]]
        BY <1>8, <2>2 DEF Publish
      <3>2. g_rulesCache'[call[t].file].rules = call[t].rules
        BY <1>0, <2>0, <3>1 DEF TypeOK
      <3>3. \A f \in Files : f # call[t].file => g_rulesCache'[f] = g_rulesCache[f]
        BY <1>0, <3>1 DEF TypeOK
      <3>4. /\ pc[t] # "idle" /\ UNCHANGED call
            /\ Return(t, g_rulesCache'[call[t].file].rules, "parsed")
        BY <1>8, <2>2, <3>2 DEF Publish
      <3>5. \A f \in Files : Cached(f) => g_rulesCache'[f] = g_rulesCache[f]
        BY <2>2, <3>3
      <3> QED BY <1>0, <3>3, <3>4, <3>5, ReturnStep
    <2> QED BY <2>1, <2>2
  <1> QED BY <1>1, <1>2, <1>3, <1>4, <1>5, <1>6, <1>7, <1>8 DEF Next

\* and so holds always.
LEMMA Inductive == Spec => []IInv
  BY InvInit, InvStep, PTL DEF Spec

\* Every reachable state is well typed: an entry of the cache is a parsed
\* RulesSet or absent, never a half-made one.
THEOREM TypeCorrect == Spec => []TypeOK
  <1>1. IInv => TypeOK
    BY DEF IInv
  <1> QED BY <1>1, Inductive, PTL

\* Every request that is given rules for a file is given the same object.
THEOREM OneRulesSetPerFile == Spec => []SameRules
  <1>1. IInv => SameRules
    BY DEF IInv, ServedIsCached, SameRules
  <1> QED BY <1>1, Inductive, PTL

\* A site that was protected once is never served without rules again.
THEOREM NeverUnprotectedAgain == Spec => []StaysProtected
  BY Inductive, PTL DEF IInv

\* The cell of a file in the abstract store.
Cell == [f \in Files |-> g_rulesCache[f].rules]

\* A call that returns the entry of a file, or nullptr when there is none, is
\* a Serve or a Refuse of the store.
LEMMA ReturnImplements ==
  ASSUME IInv, NEW t \in Threads, NEW how,
         Return(t, g_rulesCache[call[t].file].rules, how), UNCHANGED g_rulesCache
  PROVE  Store!Next
  <1> DEFINE g == call[t].file
  <1>1. g \in Files /\ Cell[g] = g_rulesCache[g].rules /\ Cell' = Cell
    BY DEF IInv, TypeOK, Call, Cell
  <1>2. served' = [served EXCEPT ![g] = @ \cup {Cell[g]}]
    BY <1>1 DEF Return
  <1> HIDE DEF g
  <1>3. CASE Cell[g] # NoRules
    <2>1. Store!Serve(g)
      BY <1>1, <1>2, <1>3 DEF Store!Serve, Cell
    <2> QED BY <1>1, <2>1 DEF Store!Next
  <1>4. CASE Cell[g] = NoRules
    <2>1. Store!Refuse(g)
      BY <1>1, <1>2, <1>4 DEF Store!Refuse, Cell
    <2> QED BY <1>1, <2>1 DEF Store!Next
  <1> QED BY <1>3, <1>4

\* Every step of getRules is a step of the store, or none.
LEMMA StepImplements == IInv /\ [Next]_vars => [Store!Next]_(Store!vars)
  <1> SUFFICES ASSUME IInv, [Next]_vars, ~UNCHANGED Store!vars PROVE Store!Next
    OBVIOUS
  <1>1. UNCHANGED <<g_rulesCache, served>> => UNCHANGED Store!vars
    BY DEF Store!vars
  <1>2. CASE UNCHANGED vars
    BY <1>1, <1>2 DEF vars
  <1>3. CASE \E f \in Files : EditFile(f)
    BY <1>1, <1>3 DEF EditFile
  <1>4. ASSUME NEW t \in Threads, FastPath(t) PROVE Store!Next
    BY <1>1, <1>4, ReturnImplements DEF FastPath
  <1>5. ASSUME NEW t \in Threads, KeepLastGood(t) PROVE Store!Next
    BY <1>5, ReturnImplements DEF KeepLastGood
  <1>6. ASSUME NEW t \in Threads, Publish(t) PROVE Store!Next
    <2> DEFINE g == call[t].file
               r == call[t].rules
    <2>1. CASE Cached(g)
      BY <1>6, <2>1, ReturnImplements DEF Publish
    <2>2. CASE ~Cached(g)
      <3>1. g \in Files /\ r \in RulesSet
        BY <1>6 DEF IInv, TypeOK, Call, ParsedInHand, Publish
      <3>2. g_rulesCache[g].rules = NoRules
        BY <2>2, <3>1, EntryHasRules DEF IInv
      <3>3. /\ g_rulesCache' = [g_rulesCache EXCEPT ![g] =
                 [rules |-> r, mtime |-> call[t].curMtime]]
            /\ served' = [served EXCEPT ![g] = @ \cup {r}]
        BY <1>6, <2>2 DEF Publish, Return
      <3> HIDE DEF g, r
      <3>4. PICK h \in Files, q \in RulesSet : h = g /\ q = r
        BY <3>1
      <3>5. Cell' = [Cell EXCEPT ![h] = q] /\ Cell[h] = NoRules
        BY <3>2, <3>3, <3>4 DEF Cell, IInv, TypeOK
      <3>6. Store!Fill(h, q)
        BY <3>3, <3>4, <3>5 DEF Store!Fill, Cell
      <3> QED BY <3>6 DEF Store!Next
    <2> QED BY <2>1, <2>2
  <1>7. ASSUME NEW t \in Threads,
               (\E f \in Files : GetRules(t, f)) \/ LoadFromUri(t) \/ LoadThrows(t)
        PROVE  Store!Next
    BY <1>1, <1>7 DEF GetRules, LoadFromUri, LoadThrows
  <1> QED BY <1>2, <1>3, <1>4, <1>5, <1>6, <1>7 DEF Next

\* getRules, with its races, edits and failures, is a write-once cell per file.
THEOREM CacheImplementsStore == Spec => ImplementsRulesStore
  <1>1. Init => Store!Init
    <2> SUFFICES ASSUME Init PROVE Store!Init
      OBVIOUS
    <2>1. \A f \in Files : g_rulesCache[f].rules = NoRules
      BY DEF Init, NoEntry
    <2> QED BY <2>1 DEF Init, Store!Init
  <1> QED BY <1>1, Inductive, StepImplements, PTL DEF Spec, ImplementsRulesStore, Store!Spec
=============================================================================
