--------------------------- MODULE ModuleFactory ---------------------------
(***************************************************************************)
(* RegisterModule, CMyHttpModuleFactory, the constructor and destructor of *)
(* CMyHttpModule and iis::engine: how a worker process comes to its one    *)
(* module object and its one engine, and gives them up again               *)
(* (src/ModSecurityIIS.cpp, src/mymodulefactory.h, src/connector.cpp).     *)
(*                                                                         *)
(* IIS loads the DLL and calls RegisterModule once.  For every request it  *)
(* then asks the factory for the module, from any thread, calls the        *)
(* module's handlers, and calls Dispose when the request is over.  It      *)
(* calls Terminate when no request is left.                                *)
(*                                                                         *)
(* Objects are numbered as they are made; 0 is NULL.  An exception that    *)
(* leaves the module takes the process down (ModSecurityIIS.cpp:295-300).  *)
(***************************************************************************)
EXTENDS Integers, FiniteSets

CONSTANTS
  Threads,      \* IIS threads
  NoThread,     \* nobody
  MaxObjects    \* bound: module objects ever made

VARIABLES
  worker,         \* "up", or "down" after an exception has left the module
  registration,   \* how far RegisterModule is
  owner,          \* who owns the factory: "nobody", "RegisterModule", "IIS"
  factoryFrees,   \* how often the factory was deleted
  m_csLock,       \* who is in the critical section
  m_pModule,      \* the factory's module object
  modules,        \* module objects made so far
  alive,          \* module objects that are not deleted
  g_engine,       \* engines made so far
  g_hEventLog,    \* the event source handle: 0, or the module's number
  sources,        \* module objects whose event source could be registered
  openHandles,    \* event source handles that are open
  pc,             \* where each thread is
  held            \* the module object each thread's request was given

factoryVars == <<worker, registration, owner, factoryFrees, m_csLock, m_pModule,
                 modules, alive, g_engine, g_hEventLog, sources, openHandles>>
vars        == <<factoryVars, pc, held>>

TypeOK ==
  /\ worker \in {"up", "down"}
  /\ registration \in {"start", "notifications", "priorityBegin", "prioritySend",
                       "registered", "refused", "unloaded"}
  /\ owner \in {"nobody", "RegisterModule", "IIS"}
  /\ factoryFrees \in Nat
  /\ m_csLock \in Threads \cup {NoThread}
  /\ modules \in 0..MaxObjects
  /\ m_pModule \in 0..modules
  /\ alive \in SUBSET (1..modules)
  /\ g_engine \in Nat
  /\ g_hEventLog \in 0..modules
  /\ sources \in SUBSET (1..modules)
  /\ openHandles \in SUBSET sources
  /\ pc \in [Threads -> {"idle", "wait", "locked", "engine", "leave", "fetch", "handler", "write"}]
  /\ held \in [Threads -> 0..MaxObjects]

Init ==
  /\ worker = "up"
  /\ registration = "start"
  /\ owner = "nobody"
  /\ factoryFrees = 0
  /\ m_csLock = NoThread
  /\ m_pModule = 0
  /\ modules = 0
  /\ alive = {}
  /\ g_engine = 0
  /\ g_hEventLog = 0
  /\ sources = {}
  /\ openHandles = {}
  /\ pc = [t \in Threads |-> "idle"]
  /\ held = [t \in Threads |-> 0]

Goto(t, where) == pc' = [pc EXCEPT ![t] = where]

(***************************************************************************)
(* RegisterModule.                                                         *)
(***************************************************************************)

\* The factory is created, or its allocation fails.
CreateFactory ==
  /\ registration = "start"
  /\ \/ registration' = "notifications" /\ owner' = "RegisterModule"
     \/ registration' = "refused" /\ UNCHANGED owner
  /\ UNCHANGED <<worker, factoryFrees, m_csLock, m_pModule, modules, alive, g_engine,
                 g_hEventLog, sources, openHandles, pc, held>>

\* SetRequestNotifications hands the factory to IIS, or fails and the
\* unique_ptr deletes it.
SetRequestNotifications ==
  /\ registration = "notifications"
  /\ \/ /\ registration' = "priorityBegin"
        /\ owner' = "IIS"
        /\ UNCHANGED factoryFrees
     \/ /\ registration' = "refused"
        /\ owner' = "nobody"
        /\ factoryFrees' = factoryFrees + 1
  /\ UNCHANGED <<worker, m_csLock, m_pModule, modules, alive, g_engine, g_hEventLog,
                 sources, openHandles, pc, held>>

\* Fault: the unique_ptr was not released, so a failed priority deletes the
\* factory IIS already owns.
SetPriorityDeletes ==
  /\ registration \in {"priorityBegin", "prioritySend"}
  /\ \/ /\ registration' = IF registration = "priorityBegin" THEN "prioritySend"
                                                              ELSE "registered"
        /\ UNCHANGED factoryFrees
     \/ /\ registration' = "refused"
        /\ factoryFrees' = factoryFrees + 1
  /\ UNCHANGED <<worker, owner, m_csLock, m_pModule, modules, alive, g_engine,
                 g_hEventLog, sources, openHandles, pc, held>>

\* SetPriorityForRequestNotification, for BEGIN_REQUEST and SEND_RESPONSE: a
\* failure refuses the registration and leaves the factory to IIS.
SetPriority ==
  /\ registration \in {"priorityBegin", "prioritySend"}
  /\ registration' \in {"refused", IF registration = "priorityBegin" THEN "prioritySend"
                                                                     ELSE "registered"}
  /\ UNCHANGED <<worker, owner, factoryFrees, m_csLock, m_pModule, modules, alive,
                 g_engine, g_hEventLog, sources, openHandles, pc, held>>

(***************************************************************************)
(* GetHttpModule.                                                          *)
(***************************************************************************)

\* IIS starts a request on thread t and asks for the module.
GetHttpModule(t) ==
  /\ registration = "registered"
  /\ pc[t] = "idle"
  /\ Goto(t, "wait")
  /\ UNCHANGED <<factoryVars, held>>

\* Fault: the section guards nothing, so two first requests both create.
EnterUnguarded(t) ==
  /\ pc[t] = "wait"
  /\ m_csLock' = t
  /\ Goto(t, IF m_pModule = 0 THEN "locked" ELSE "leave")
  /\ UNCHANGED <<worker, registration, owner, factoryFrees, m_pModule, modules, alive,
                 g_engine, g_hEventLog, sources, openHandles, held>>

EnterCriticalSection(t) ==
  /\ pc[t] = "wait"
  /\ m_csLock = NoThread
  /\ m_csLock' = t
  /\ Goto(t, IF m_pModule = 0 THEN "locked" ELSE "leave")
  /\ UNCHANGED <<worker, registration, owner, factoryFrees, m_pModule, modules, alive,
                 g_engine, g_hEventLog, sources, openHandles, held>>

\* Fault: the failure path returns with the critical section held.
NoMemoryKeepsLock(t) ==
  /\ pc[t] = "locked"
  /\ Goto(t, "idle")
  /\ UNCHANGED <<factoryVars, held>>

\* The allocation of the module fails: leave and report; the request fails.
NoMemory(t) ==
  /\ pc[t] = "locked"
  /\ m_csLock' = NoThread
  /\ Goto(t, "idle")
  /\ UNCHANGED <<worker, registration, owner, factoryFrees, m_pModule, modules, alive,
                 g_engine, g_hEventLog, sources, openHandles, held>>

\* The constructor registers the event source (which may fail: NULL) and
\* publishes its handle.
Construct(t) ==
  /\ pc[t] = "locked"
  /\ modules < MaxObjects
  /\ modules' = modules + 1
  /\ \/ /\ openHandles' = openHandles \cup {modules + 1}
        /\ sources' = sources \cup {modules + 1}
        /\ g_hEventLog' = modules + 1
     \/ /\ g_hEventLog' = 0
        /\ UNCHANGED <<sources, openHandles>>
  /\ Goto(t, "engine")
  /\ UNCHANGED <<worker, registration, owner, factoryFrees, m_csLock, m_pModule, alive,
                 g_engine, held>>

\* iis::engine, under its own mutex: made by the first caller.
Engine(t) ==
  /\ pc[t] = "engine"
  /\ g_engine' = IF g_engine = 0 THEN 1 ELSE g_engine
  /\ m_pModule' = modules
  /\ alive' = alive \cup {modules}
  /\ Goto(t, "leave")
  /\ UNCHANGED <<worker, registration, owner, factoryFrees, m_csLock, modules,
                 g_hEventLog, sources, openHandles, held>>

\* The engine's constructor throws, through CMyHttpModule's constructor and out
\* of GetHttpModule.
EngineThrows(t) ==
  /\ pc[t] = "engine"
  /\ g_engine = 0
  /\ worker' = "down"
  /\ UNCHANGED <<registration, owner, factoryFrees, m_csLock, m_pModule, modules, alive,
                 g_engine, g_hEventLog, sources, openHandles, pc, held>>

LeaveCriticalSection(t) ==
  /\ pc[t] = "leave"
  /\ m_csLock' = NoThread
  /\ Goto(t, "fetch")
  /\ UNCHANGED <<worker, registration, owner, factoryFrees, m_pModule, modules, alive,
                 g_engine, g_hEventLog, sources, openHandles, held>>

\* *ppModule = m_pModule, read outside the critical section.
Fetch(t) ==
  /\ pc[t] = "fetch"
  /\ held' = [held EXCEPT ![t] = m_pModule]
  /\ Goto(t, "handler")
  /\ UNCHANGED factoryVars

(***************************************************************************)
(* The end of a request and of the process.                                *)
(***************************************************************************)

\* ~CMyHttpModule of object m: the event source is closed and forgotten.
Destroy(m) ==
  /\ alive' = alive \ {m}
  /\ openHandles' = openHandles \ {m}
  /\ g_hEventLog' = IF m \in openHandles THEN 0 ELSE g_hEventLog

\* Fault: Dispose is left to the base class, which deletes the module.
DisposeDeletes(t) ==
  /\ pc[t] = "handler"
  /\ Destroy(held[t])
  /\ held' = [held EXCEPT ![t] = 0]
  /\ Goto(t, "idle")
  /\ UNCHANGED <<worker, registration, owner, factoryFrees, m_csLock, m_pModule, modules,
                 g_engine, sources>>

\* The request is over: IIS calls Dispose, which does nothing.
Dispose(t) ==
  /\ pc[t] = "handler"
  /\ held' = [held EXCEPT ![t] = 0]
  /\ Goto(t, "idle")
  /\ UNCHANGED factoryVars

\* IIS gives the factory up, after the last request.
Terminate ==
  /\ owner = "IIS"
  /\ registration \in {"registered", "refused"}
  /\ \A t \in Threads : pc[t] = "idle"
  /\ IF m_pModule # 0 THEN Destroy(m_pModule)
                      ELSE UNCHANGED <<alive, openHandles, g_hEventLog>>
  /\ m_pModule' = 0
  /\ factoryFrees' = factoryFrees + 1
  /\ owner' = "nobody"
  /\ registration' = "unloaded"
  /\ UNCHANGED <<worker, m_csLock, modules, g_engine, sources, pc, held>>

Register == CreateFactory \/ SetRequestNotifications \/ SetPriority

\* What a thread does inside GetHttpModule.
FactoryStep(t) ==
  \/ EnterCriticalSection(t) \/ NoMemory(t) \/ Construct(t) \/ Engine(t)
  \/ EngineThrows(t) \/ LeaveCriticalSection(t) \/ Fetch(t)

Next ==
  /\ worker = "up"
  /\ \/ Register \/ Terminate
     \/ \E t \in Threads : GetHttpModule(t) \/ FactoryStep(t) \/ Dispose(t)

Spec == Init /\ [][Next]_vars
=============================================================================
