------------------------------- MODULE Worker -------------------------------
(***************************************************************************)
(* The process-wide parts of a worker process together: the factory with   *)
(* its module, engine and event source (ModuleFactory), and the engine's   *)
(* log callback with its throttle (LogThrottle).  While a request is in a  *)
(* handler the engine may call ServerLogCallback on its thread; an         *)
(* admitted line is written outside the throttle's mutex, to the handle    *)
(* the module's constructor has published and its destructor takes back.   *)
(***************************************************************************)
EXTENDS Integers, Sequences, FiniteSets

CONSTANTS Threads, NoThread, MaxObjects, Second, kMaxLogsPerSecond, MaxTime

ASSUME ThreadsAssumption == Threads # {} /\ NoThread \notin Threads
ASSUME MaxObjectsAssumption == MaxObjects \in Nat
ASSUME SecondAssumption == Second \in Nat \ {0}
ASSUME LimitAssumption == kMaxLogsPerSecond \in Nat \ {0}
ASSUME MaxTimeAssumption == MaxTime \in Nat /\ MaxTime >= Second

VARIABLES worker, registration, owner, factoryFrees, m_csLock, m_pModule, modules,
          alive, g_engine, g_hEventLog, sources, openHandles, pc, held,
          clock, g_logWindowStart, g_logCount, logged, dropped

Factory  == INSTANCE ModuleFactory
Throttle == INSTANCE LogThrottle

factoryVars  == <<worker, registration, owner, factoryFrees, m_csLock, m_pModule,
                  modules, alive, g_engine, g_hEventLog, sources, openHandles>>
throttleVars == <<clock, g_logWindowStart, g_logCount, logged, dropped>>
vars         == <<factoryVars, pc, held, throttleVars>>

TypeOK ==
  /\ Factory!TypeOK
  /\ Throttle!TypeOK

Init ==
  /\ Factory!Init
  /\ Throttle!Init

\* ServerLogCallback on a thread that is in a handler: dropped, or admitted.
ServerLogCallback(t) ==
  /\ pc[t] = "handler"
  /\ \/ Throttle!Admit /\ Factory!Goto(t, "write")
     \/ Throttle!Drop /\ UNCHANGED pc
  /\ UNCHANGED <<factoryVars, held>>

\* WriteEventViewerLog: ReportEventA on the published handle, nothing without
\* one.  What it writes is outside the model.
WriteEventViewerLog(t) ==
  /\ pc[t] = "write"
  /\ Factory!Goto(t, "handler")
  /\ UNCHANGED <<factoryVars, held, throttleVars>>

Next ==
  /\ worker = "up"
  /\ \/ Factory!Next /\ UNCHANGED throttleVars
     \/ Throttle!Tick /\ UNCHANGED <<factoryVars, pc, held>>
     \/ \E t \in Threads : ServerLogCallback(t) \/ WriteEventViewerLog(t)

Spec == Init /\ [][Next]_vars

\* A thread inside GetHttpModule is scheduled.
FairSpec ==
  /\ Spec
  /\ \A t \in Threads :
       WF_vars(worker = "up" /\ Factory!FactoryStep(t) /\ UNCHANGED throttleVars)

(***************************************************************************)
(* Properties.                                                             *)
(***************************************************************************)
\* Every request is served by a module object that exists, and all by the same
\* one: requests that end, first requests that race and failed creations do
\* not take it from the others (Dispose, GetHttpModule).
OneLiveModule ==
  \A t, u \in Threads :
    pc[t] \in {"handler", "write"} /\ pc[u] \in {"handler", "write"}
      => held[t] = held[u] /\ held[t] \in alive

\* The factory is deleted once, by RegisterModule or by IIS, whatever step of
\* the registration fails ("rather than double-freeing").
FactoryFreedOnce == factoryFrees <= 1

\* The critical section is always left again, also when the module cannot be
\* created: no request waits for ever behind a failed one.
LockReleased == m_csLock # NoThread ~> (m_csLock = NoThread \/ worker = "down")

\* A line the throttle has let through finds the event source of the module
\* that serves its request still open, although other requests end and the
\* line is written outside every lock (ServerLogCallback, ~CMyHttpModule).
LineReachesSource ==
  \A t \in Threads :
    pc[t] = "write" /\ held[t] \in sources
      => g_hEventLog = held[t] /\ held[t] \in openHandles

\* Never more than twice kMaxLogsPerSecond lines within one second, wherever
\* the second begins: it touches two windows at most.
SlidingBound == Throttle!SlidingBound

\* A line is dropped only if the limit was used up within the second before it.
DroppedOnlyWhenFull == Throttle!DroppedOnlyWhenFull
=============================================================================
