---------------------------- MODULE WorkerProofs ----------------------------
(***************************************************************************)
(* Proofs about Worker, for any number of threads, any limit and any       *)
(* length of the second.                                                   *)
(*                                                                         *)
(* The factory: whoever is past the critical section has found or made a   *)
(* module, and the module that is there is the last one made, with its     *)
(* event source published (Published).                                     *)
(*                                                                         *)
(* The throttle: of the lines of the log the last g_logCount are of the    *)
(* current window, those before it are older, and those that are a full    *)
(* window further back are older by a second (Windows).                    *)
(***************************************************************************)
EXTENDS Worker, TLAPS, SequenceTheorems

Inside(t)  == pc[t] \in {"locked", "engine", "leave"}
Past(t)    == pc[t] \in {"leave", "fetch", "handler", "write"}
Serving(t) == pc[t] \in {"handler", "write"}

\* One thread at a time is in the critical section, and makes a module only if
\* there is none.
Locking ==
  /\ \A t \in Threads : Inside(t) => m_csLock = t
  /\ \A t \in Threads : pc[t] \in {"locked", "engine"} => m_pModule = 0
  /\ \A t \in Threads : pc[t] = "engine" => modules # 0

\* The module a request is given is the factory's, the last one made.
Serves ==
  /\ m_pModule # 0 => m_pModule = modules /\ m_pModule \in alive
  /\ \A t \in Threads : Past(t) => m_pModule # 0
  /\ \A t \in Threads : Serving(t) => held[t] = m_pModule

\* The event source of the last module is published while it is made or there.
Published ==
  m_pModule # 0 \/ (\E t \in Threads : pc[t] = "engine") =>
    (modules \in sources => g_hEventLog = modules /\ modules \in openHandles)

\* Who may still delete the factory.
Owned ==
  \/ factoryFrees = 0
  \/ factoryFrees = 1 /\ owner = "nobody" /\ registration \in {"refused", "unloaded"}

FactoryInv == Factory!TypeOK /\ Locking /\ Serves /\ Published /\ Owned

\* The windows of the log.
Windows ==
  /\ g_logCount <= Len(logged)
  /\ \A i \in 1..Len(logged) :
       /\ i > Len(logged) - g_logCount =>
            g_logWindowStart <= logged[i] /\ logged[i] < g_logWindowStart + Second
       /\ i <= Len(logged) - g_logCount => logged[i] < g_logWindowStart
       /\ i <= Len(logged) - g_logCount - kMaxLogsPerSecond =>
            logged[i] + Second <= g_logWindowStart

\* Two lines that are two limits apart are a second apart.
Spread ==
  \A i, j \in 1..Len(logged) :
    j - i >= 2 * kMaxLogsPerSecond => logged[j] - logged[i] >= Second

\* The last line dropped came when the limit was used up.
Justified ==
  dropped # Throttle!NoDrop =>
    /\ dropped.after >= kMaxLogsPerSecond
    /\ dropped.after <= Len(logged)
    /\ dropped.at - logged[dropped.after - kMaxLogsPerSecond + 1] < Second

ThrottleInv == Throttle!TypeOK /\ Windows /\ Spread /\ Justified

(***************************************************************************)
(* The throttle.                                                           *)
(***************************************************************************)

\* The throttle has its invariant initially.
LEMMA ThrottleInit == Throttle!Init => ThrottleInv
  <1> SUFFICES ASSUME Throttle!Init
               PROVE  ThrottleInv
    OBVIOUS
  <1>1. logged \in Seq(0..clock) /\ Len(logged) = 0
    BY EmptySeq DEF Throttle!Init
  <1>2. Throttle!TypeOK
    BY <1>1, SecondAssumption, LimitAssumption, MaxTimeAssumption
       DEF Throttle!Init, Throttle!TypeOK, Throttle!NoDrop
  <1>3. Windows /\ Spread
    BY <1>1 DEF Throttle!Init, Windows, Spread
  <1>4. Justified
    BY DEF Throttle!Init, Justified
  <1> QED BY <1>2, <1>3, <1>4 DEF ThrottleInv

\* Time alone changes nothing.
LEMMA TickKeeps ==
  ASSUME ThrottleInv, Throttle!Tick
  PROVE  ThrottleInv'
  <1>1. /\ clock \in Nat /\ clock' = clock + 1 /\ clock' \in 0..MaxTime
        /\ UNCHANGED <<g_logWindowStart, g_logCount, logged, dropped>>
    BY MaxTimeAssumption
       DEF ThrottleInv, Throttle!TypeOK, Throttle!Tick, Throttle!throttleVars
  <1>2. logged \in Seq(0..clock')
    BY <1>1, SeqMonotonic DEF ThrottleInv, Throttle!TypeOK
  <1>3. Throttle!TypeOK'
    <2>1. g_logWindowStart' \in 0..clock' /\ dropped' \in [at : 0..clock', after : Nat]
      BY <1>1 DEF ThrottleInv, Throttle!TypeOK
    <2> QED BY <1>1, <1>2, <2>1 DEF ThrottleInv, Throttle!TypeOK
  <1>4. Windows' /\ Spread' /\ Justified'
    BY <1>1 DEF ThrottleInv, Windows, Spread, Justified
  <1> QED BY <1>3, <1>4 DEF ThrottleInv

\* What the throttle reads is what it is.
LEMMA ThrottleTypes ==
  ASSUME ThrottleInv
  PROVE  /\ clock \in Nat /\ g_logWindowStart \in Nat /\ g_logWindowStart <= clock
         /\ g_logCount \in Nat /\ g_logCount <= kMaxLogsPerSecond
         /\ Second \in Nat \ {0} /\ kMaxLogsPerSecond \in Nat \ {0}
         /\ logged \in Seq(0..clock) /\ Len(logged) \in Nat
         /\ \A i \in 1..Len(logged) : logged[i] \in Nat
         /\ dropped.at \in Nat /\ dropped.after \in Nat
  <1>1. logged \in Seq(0..clock) /\ clock \in Nat
    BY MaxTimeAssumption DEF ThrottleInv, Throttle!TypeOK
  <1>2. Len(logged) \in Nat /\ \A i \in 1..Len(logged) : logged[i] \in 0..clock
    BY <1>1, LenProperties, ElementOfSeq
  <1> QED BY <1>1, <1>2, SecondAssumption, LimitAssumption
          DEF ThrottleInv, Throttle!TypeOK

\* The window of a line that comes now: the current one, or a new one if a
\* second has gone by.
LEMMA WindowCases ==
  \/ /\ clock - g_logWindowStart >= Second
     /\ Throttle!Window.start = clock /\ Throttle!Window.count = 0
  \/ /\ ~(clock - g_logWindowStart >= Second)
     /\ Throttle!Window.start = g_logWindowStart /\ Throttle!Window.count = g_logCount
  BY DEF Throttle!Window

\* A line is dropped only in a window that is full.
LEMMA DropKeeps ==
  ASSUME ThrottleInv, Throttle!Drop
  PROVE  ThrottleInv'
  <1> DEFINE k == kMaxLogsPerSecond
             n == Len(logged)
  <1>0. /\ clock \in Nat /\ g_logWindowStart \in Nat /\ g_logWindowStart <= clock
        /\ g_logCount \in Nat /\ g_logCount <= k
        /\ Second \in Nat \ {0} /\ k \in Nat \ {0}
        /\ n \in Nat
        /\ \A i \in 1..n : logged[i] \in Nat
    BY ThrottleTypes
  <1>1. /\ clock - g_logWindowStart < Second
        /\ g_logWindowStart' = g_logWindowStart /\ g_logCount' = g_logCount
        /\ g_logCount = k
        /\ logged' = logged /\ clock' = clock
        /\ dropped' = [at |-> clock, after |-> n]
    BY <1>0, WindowCases DEF Throttle!Drop, Throttle!Full
  <1>2. dropped' \in [at : 0..clock, after : Nat] /\ dropped'.at = clock /\ dropped'.after = n
    BY <1>0, <1>1
  <1>3. Throttle!TypeOK'
    BY <1>1, <1>2 DEF ThrottleInv, Throttle!TypeOK
  <1>4. Windows' /\ Spread'
    BY <1>1 DEF ThrottleInv, Windows, Spread
  <1>5. Justified'
    <2>1. n >= k /\ n - k + 1 \in 1..n /\ n - k + 1 > n - g_logCount
      BY <1>0, <1>1 DEF ThrottleInv, Windows
    <2>2. g_logWindowStart <= logged[n - k + 1] /\ logged[n - k + 1] \in Nat
      BY <1>0, <2>1 DEF ThrottleInv, Windows
    <2>3. clock - logged[n - k + 1] < Second
      BY <1>0, <1>1, <2>2
    <2> QED BY <1>0, <1>1, <1>2, <2>1, <2>3 DEF Justified
  <1> QED BY <1>3, <1>4, <1>5 DEF ThrottleInv

\* An admitted line is one more of its window.
LEMMA AdmitKeeps ==
  ASSUME ThrottleInv, Throttle!Admit
  PROVE  ThrottleInv'
  <1> DEFINE k == kMaxLogsPerSecond
             n == Len(logged)
             c == g_logCount
             w == g_logWindowStart
  <1>0. /\ clock \in Nat /\ w \in Nat /\ w <= clock
        /\ c \in Nat /\ c <= k
        /\ Second \in Nat \ {0} /\ k \in Nat \ {0}
        /\ n \in Nat
        /\ \A i \in 1..n : logged[i] \in Nat
        /\ logged \in Seq(0..clock)
        /\ dropped.at \in Nat /\ dropped.after \in Nat
    BY ThrottleTypes
  <1>1. \/ clock - w >= Second /\ g_logWindowStart' = clock /\ g_logCount' = 1
        \/ clock - w < Second /\ g_logWindowStart' = w /\ g_logCount' = c + 1 /\ c < k
    BY <1>0, WindowCases DEF Throttle!Admit, Throttle!Full
  <1>2. logged' = Append(logged, clock) /\ clock' = clock /\ dropped' = dropped
    BY DEF Throttle!Admit
  <1>3. /\ logged' \in Seq(0..clock) /\ Len(logged') = n + 1
        /\ logged'[n + 1] = clock
        /\ \A i \in 1..n : logged'[i] = logged[i]
    BY <1>0, <1>2, AppendProperties
  <1>4. Throttle!TypeOK'
    <2>1. g_logWindowStart' \in 0..clock /\ g_logCount' \in 0..k
      BY <1>0, <1>1
    <2> QED BY <1>2, <1>3, <2>1 DEF ThrottleInv, Throttle!TypeOK
  <1>5. /\ c <= n
        /\ \A i \in 1..n :
             /\ i > n - c => w <= logged[i] /\ logged[i] < w + Second
             /\ i <= n - c => logged[i] < w
             /\ i <= n - c - k => logged[i] + Second <= w
    BY DEF ThrottleInv, Windows
  <1>6. ASSUME NEW i \in 1..Len(logged')
        PROVE  i \in 1..n \/ i = n + 1
    BY <1>0, <1>3, <1>6
  <1>7. Windows'
    <2>1. g_logCount' <= Len(logged')
      BY <1>0, <1>1, <1>3, <1>5
    <2>2. CASE clock - w >= Second /\ g_logWindowStart' = clock /\ g_logCount' = 1
      <3>1. ASSUME NEW i \in 1..n
            PROVE  /\ logged'[i] < clock
                   /\ i <= n - k => logged'[i] + Second <= clock
        <4>1. logged'[i] = logged[i] /\ logged[i] \in Nat
          BY <1>0, <1>3
        <4>2. logged[i] < w + Second
          <5>1. i > n - c => logged[i] < w + Second
            BY <1>5
          <5>2. i <= n - c => logged[i] < w
            BY <1>5
          <5>3. i > n - c \/ i <= n - c
            BY <1>0
          <5> QED BY <1>0, <4>1, <5>1, <5>2, <5>3
        <4>3. i <= n - k => logged[i] < w
          BY <1>0, <1>5
        <4> QED BY <1>0, <2>2, <4>1, <4>2, <4>3
      <3>2. ASSUME NEW i \in 1..Len(logged')
            PROVE  /\ i > Len(logged') - 1 => clock <= logged'[i] /\ logged'[i] < clock + Second
                   /\ i <= Len(logged') - 1 => logged'[i] < clock
                   /\ i <= Len(logged') - 1 - k => logged'[i] + Second <= clock
        <4>1. CASE i \in 1..n
          BY <1>0, <1>3, <3>1, <4>1
        <4>2. CASE i = n + 1
          BY <1>0, <1>3, <4>2
        <4> QED BY <1>6, <4>1, <4>2
      <3> QED BY <2>1, <2>2, <3>2 DEF Windows
    <2>3. CASE clock - w < Second /\ g_logWindowStart' = w /\ g_logCount' = c + 1
      <3>1. Len(logged') - (c + 1) = n - c
        BY <1>0, <1>3
      <3>2. ASSUME NEW i \in 1..Len(logged')
            PROVE  /\ i > n - c => w <= logged'[i] /\ logged'[i] < w + Second
                   /\ i <= n - c => logged'[i] < w
                   /\ i <= n - c - k => logged'[i] + Second <= w
        <4>1. CASE i \in 1..n
          BY <1>3, <1>5, <4>1
        <4>2. CASE i = n + 1
          BY <1>0, <1>3, <2>3, <4>2
        <4> QED BY <1>6, <4>1, <4>2
      <3> QED BY <2>1, <2>3, <3>1, <3>2 DEF Windows
    <2> QED BY <1>1, <2>2, <2>3
  <1>8. Spread'
    <2>1. ASSUME NEW i \in 1..n, NEW j \in 1..n, j - i >= 2 * k
          PROVE  logged'[j] - logged'[i] >= Second
      BY <1>3, <2>1 DEF ThrottleInv, Spread
    <2>2. ASSUME NEW i \in 1..n, (n + 1) - i >= 2 * k
          PROVE  clock - logged'[i] >= Second
      <3>1. logged'[i] \in Nat /\ i \in 1..Len(logged')
        BY <1>0, <1>3
      <3>2. g_logCount' \in Nat /\ g_logCount' <= k
        BY <1>0, <1>1
      <3>3. i <= Len(logged') - g_logCount' - k
        BY <1>0, <1>3, <2>2, <3>2
      <3>4. logged'[i] + Second <= g_logWindowStart'
        BY <1>7, <3>1, <3>3 DEF Windows
      <3>5. g_logWindowStart' <= clock /\ g_logWindowStart' \in Nat
        BY <1>0, <1>1
      <3> QED BY <1>0, <3>1, <3>4, <3>5
    <2>3. SUFFICES ASSUME NEW i \in 1..Len(logged'), NEW j \in 1..Len(logged'), j - i >= 2 * k
                   PROVE  logged'[j] - logged'[i] >= Second
      BY DEF Spread
    <2>4. i \in 1..n
      BY <1>0, <1>3, <2>3
    <2>5. CASE j \in 1..n
      BY <2>1, <2>3, <2>4, <2>5
    <2>6. CASE j = n + 1
      BY <1>3, <2>2, <2>3, <2>4, <2>6
    <2> QED BY <1>6, <2>5, <2>6
  <1>9. Justified'
    <2>1. CASE dropped = Throttle!NoDrop
      BY <1>2, <2>1 DEF Justified
    <2>2. CASE dropped # Throttle!NoDrop
      <3>1. /\ dropped.after >= k /\ dropped.after <= n
            /\ dropped.at - logged[dropped.after - k + 1] < Second
        BY <2>2 DEF ThrottleInv, Justified
      <3>2. dropped.after - k + 1 \in 1..n
        BY <1>0, <3>1
      <3> QED BY <1>0, <1>2, <1>3, <3>1, <3>2, SMTT(30) DEF Justified
    <2> QED BY <2>1, <2>2
  <1> QED BY <1>4, <1>7, <1>8, <1>9 DEF ThrottleInv

\* A step of anything else does not touch the throttle.
LEMMA ThrottleUntouched ==
  ASSUME ThrottleInv, UNCHANGED throttleVars
  PROVE  ThrottleInv'
  BY DEF ThrottleInv, throttleVars, Throttle!TypeOK, Windows, Spread, Justified

(***************************************************************************)
(* The factory.                                                            *)
(***************************************************************************)

\* The factory has its invariant initially.
LEMMA FactoryInit == Factory!Init => FactoryInv
  <1> SUFFICES ASSUME Factory!Init
               PROVE  FactoryInv
    OBVIOUS
  <1>1. Factory!TypeOK
    BY MaxObjectsAssumption DEF Factory!Init, Factory!TypeOK
  <1>2. Locking /\ Serves /\ Published /\ Owned
    BY DEF Factory!Init, Locking, Inside, Serves, Past, Serving, Published, Owned
  <1> QED BY <1>1, <1>2 DEF FactoryInv

\* A step that leaves the objects alone: only where threads are, the critical
\* section and the module a request was given may change.
Harmless ==
  UNCHANGED <<registration, owner, factoryFrees, m_pModule, modules, alive, g_hEventLog,
              sources, openHandles>>

\* Every step keeps the types of the factory.
LEMMA FactoryTypeStep ==
  ASSUME FactoryInv, Factory!Next
  PROVE  Factory!TypeOK'
  <1>0. Factory!TypeOK
    BY DEF FactoryInv
  <1> USE DEF Factory!TypeOK, Factory!Goto
  <1>1. CASE Factory!Register
    <2>1. /\ registration' \in {"notifications", "priorityBegin", "prioritySend",
                               "registered", "refused"}
          /\ owner' \in {"nobody", "RegisterModule", "IIS"}
          /\ factoryFrees' \in Nat
          /\ UNCHANGED <<worker, m_csLock, m_pModule, modules, alive, g_engine, g_hEventLog,
                         sources, openHandles, pc, held>>
      <3>1. CASE Factory!CreateFactory
        BY <1>0, <3>1 DEF Factory!CreateFactory
      <3>2. CASE Factory!SetRequestNotifications
        BY <1>0, <3>2 DEF Factory!SetRequestNotifications
      <3>3. CASE Factory!SetPriority
        BY <1>0, <3>3 DEF Factory!SetPriority
      <3> QED BY <1>1, <3>1, <3>2, <3>3 DEF Factory!Register
    <2> QED BY <1>0, <2>1
  <1>2. CASE Factory!Terminate
    <2>1. /\ alive' \in SUBSET (1..modules)
          /\ openHandles' \in SUBSET sources
          /\ g_hEventLog' \in 0..modules
      <3>1. CASE m_pModule # 0
        <4>1. /\ alive' = alive \ {m_pModule} /\ openHandles' = openHandles \ {m_pModule}
              /\ g_hEventLog' \in {0, g_hEventLog}
          BY <1>2, <3>1 DEF Factory!Terminate, Factory!Destroy
        <4> QED BY <1>0, <4>1, MaxObjectsAssumption
      <3>2. CASE m_pModule = 0
        BY <1>0, <1>2, <3>2 DEF Factory!Terminate
      <3> QED BY <3>1, <3>2
    <2>2. 0 \in 0..modules
      BY <1>0, MaxObjectsAssumption
    <2>3. factoryFrees' \in Nat /\ registration' = "unloaded" /\ owner' = "nobody" /\ m_pModule' = 0
          /\ UNCHANGED <<worker, m_csLock, modules, g_engine, sources, pc, held>>
      BY <1>0, <1>2 DEF Factory!Terminate
    <2> QED BY <1>0, <2>1, <2>2, <2>3
  <1>3. ASSUME NEW t \in Threads,
               \/ Factory!GetHttpModule(t) \/ Factory!EnterCriticalSection(t)
               \/ Factory!NoMemory(t) \/ Factory!EngineThrows(t)
               \/ Factory!LeaveCriticalSection(t)
        PROVE  Factory!TypeOK'
    BY <1>0, <1>3 DEF Factory!GetHttpModule, Factory!EnterCriticalSection, Factory!NoMemory,
       Factory!EngineThrows, Factory!LeaveCriticalSection, Factory!factoryVars
  <1>4. ASSUME NEW t \in Threads, Factory!Construct(t)
        PROVE  Factory!TypeOK'
    <2>1. /\ modules \in Nat /\ modules' = modules + 1 /\ modules' \in 0..MaxObjects
          /\ 1..modules \subseteq 1..modules' /\ modules + 1 \in 1..modules'
          /\ 0..modules \subseteq 0..modules'
      BY <1>0, <1>4, MaxObjectsAssumption DEF Factory!Construct
    <2>2. /\ g_hEventLog' \in 0..modules'
          /\ sources' \in SUBSET (1..modules')
          /\ openHandles' \in SUBSET sources'
      <3>1. CASE /\ openHandles' = openHandles \cup {modules + 1}
                 /\ sources' = sources \cup {modules + 1}
                 /\ g_hEventLog' = modules + 1
        BY <1>0, <2>1, <3>1
      <3>2. CASE g_hEventLog' = 0 /\ UNCHANGED <<sources, openHandles>>
        BY <1>0, <2>1, <3>2
      <3> QED BY <1>4, <3>1, <3>2 DEF Factory!Construct
    <2> QED BY <1>0, <1>4, <2>1, <2>2 DEF Factory!Construct
  <1>5. ASSUME NEW t \in Threads, Factory!Engine(t)
        PROVE  Factory!TypeOK'
    <2>1. modules \in 1..modules
      BY <1>0, <1>5, MaxObjectsAssumption DEF Factory!Engine, FactoryInv, Locking
    <2> QED BY <1>0, <1>5, <2>1 DEF Factory!Engine
  <1>6. ASSUME NEW t \in Threads, Factory!Fetch(t) \/ Factory!Dispose(t)
        PROVE  Factory!TypeOK'
    <2>1. m_pModule \in 0..MaxObjects /\ 0 \in 0..MaxObjects
      BY <1>0, MaxObjectsAssumption
    <2> QED BY <1>0, <1>6, <2>1 DEF Factory!Fetch, Factory!Dispose, Factory!factoryVars
  <1> QED BY <1>1, <1>2, <1>3, <1>4, <1>5, <1>6 DEF Factory!Next, Factory!FactoryStep

\* What is left of the invariant survives a harmless step.
LEMMA HarmlessKeeps ==
  ASSUME FactoryInv, Harmless,
         \A t \in Threads : /\ Inside(t)' => m_csLock' = t
                            /\ pc'[t] \in {"locked", "engine"} => m_pModule = 0
                            /\ pc'[t] = "engine" => pc[t] = "engine"
                            /\ Past(t)' => m_pModule # 0
                            /\ Serving(t)' => held'[t] = m_pModule
  PROVE  Locking' /\ Serves' /\ Published' /\ Owned'
  <1>1. Locking'
    BY DEF FactoryInv, Harmless, Locking
  <1>2. Serves'
    BY DEF FactoryInv, Harmless, Serves
  <1>3. Published'
    BY DEF FactoryInv, Harmless, Published
  <1>4. Owned'
    BY DEF FactoryInv, Harmless, Owned
  <1> QED BY <1>1, <1>2, <1>3, <1>4

\* Every step of the factory keeps its invariant.
LEMMA FactoryStepKeeps ==
  ASSUME FactoryInv, Factory!Next
  PROVE  Locking' /\ Serves' /\ Published' /\ Owned'
  <1>0. /\ Factory!TypeOK /\ Locking /\ Serves /\ Published /\ Owned
        /\ DOMAIN pc = Threads /\ DOMAIN held = Threads
    BY DEF FactoryInv, Factory!TypeOK
  <1> USE DEF Factory!Goto
  <1>1. CASE Factory!Register
    <2>1. UNCHANGED <<m_csLock, m_pModule, modules, alive, g_hEventLog, sources,
                      openHandles, pc, held>>
      BY <1>1 DEF Factory!Register, Factory!CreateFactory,
         Factory!SetRequestNotifications, Factory!SetPriority
    <2>2. Owned'
      BY <1>0, <1>1 DEF Factory!Register, Factory!CreateFactory,
         Factory!SetRequestNotifications, Factory!SetPriority, Owned
    <2> QED BY <1>0, <2>1, <2>2 DEF Locking, Serves, Published, Inside, Past, Serving
  <1>2. CASE Factory!Terminate
    <2>1. /\ \A t \in Threads : pc'[t] = "idle"
          /\ m_pModule' = 0
      BY <1>2 DEF Factory!Terminate
    <2>2. Owned'
      BY <1>0, <1>2 DEF Factory!Terminate, Owned
    <2> QED BY <2>1, <2>2 DEF Locking, Serves, Published, Inside, Past, Serving
  <1>3. ASSUME NEW t \in Threads, Factory!GetHttpModule(t) \/ Factory!Dispose(t)
        PROVE  Locking' /\ Serves' /\ Published' /\ Owned'
    <2>1. /\ Harmless /\ UNCHANGED m_csLock
          /\ pc'[t] \in {"wait", "idle"}
          /\ \A u \in Threads : u # t => pc'[u] = pc[u] /\ held'[u] = held[u]
      BY <1>0, <1>3 DEF Factory!GetHttpModule, Factory!Dispose, Factory!factoryVars, Harmless
    <2>2. \A u \in Threads : /\ Inside(u)' => m_csLock' = u
                             /\ pc'[u] \in {"locked", "engine"} => m_pModule = 0
                             /\ pc'[u] = "engine" => pc[u] = "engine"
                             /\ Past(u)' => m_pModule # 0
                             /\ Serving(u)' => held'[u] = m_pModule
      BY <1>0, <2>1 DEF Locking, Serves, Inside, Past, Serving
    <2> QED BY <2>1, <2>2, HarmlessKeeps
  <1>4. ASSUME NEW t \in Threads, Factory!EnterCriticalSection(t)
        PROVE  Locking' /\ Serves' /\ Published' /\ Owned'
    <2>1. /\ Harmless /\ m_csLock = NoThread /\ m_csLock' = t
          /\ pc'[t] = IF m_pModule = 0 THEN "locked" ELSE "leave"
          /\ \A u \in Threads : u # t => pc'[u] = pc[u]
          /\ UNCHANGED held
      BY <1>0, <1>4 DEF Factory!EnterCriticalSection, Harmless
    <2>2. \A u \in Threads : ~Inside(u)
      BY <1>0, <2>1, ThreadsAssumption DEF Locking
    <2>3. \A u \in Threads : /\ Inside(u)' => m_csLock' = u
                             /\ pc'[u] \in {"locked", "engine"} => m_pModule = 0
                             /\ pc'[u] = "engine" => pc[u] = "engine"
                             /\ Past(u)' => m_pModule # 0
                             /\ Serving(u)' => held'[u] = m_pModule
      BY <1>0, <2>1, <2>2 DEF Locking, Serves, Inside, Past, Serving
    <2> QED BY <2>1, <2>3, HarmlessKeeps
  <1>5. ASSUME NEW t \in Threads, Factory!NoMemory(t) \/ Factory!LeaveCriticalSection(t)
        PROVE  Locking' /\ Serves' /\ Published' /\ Owned'
    <2>1. /\ Harmless /\ Inside(t)
          /\ pc'[t] = "idle" \/ (pc[t] = "leave" /\ pc'[t] = "fetch")
          /\ \A u \in Threads : u # t => pc'[u] = pc[u]
          /\ UNCHANGED held
      BY <1>0, <1>5 DEF Factory!NoMemory, Factory!LeaveCriticalSection, Harmless, Inside
    <2>2. \A u \in Threads : u # t => ~Inside(u)
      BY <1>0, <2>1 DEF Locking
    <2>3. \A u \in Threads : /\ Inside(u)' => m_csLock' = u
                             /\ pc'[u] \in {"locked", "engine"} => m_pModule = 0
                             /\ pc'[u] = "engine" => pc[u] = "engine"
                             /\ Past(u)' => m_pModule # 0
                             /\ Serving(u)' => held'[u] = m_pModule
      BY <1>0, <2>1, <2>2 DEF Locking, Serves, Inside, Past, Serving
    <2> QED BY <2>1, <2>3, HarmlessKeeps
  <1>6. ASSUME NEW t \in Threads, Factory!EngineThrows(t)
        PROVE  Locking' /\ Serves' /\ Published' /\ Owned'
    <2>1. Harmless /\ UNCHANGED <<m_csLock, pc, held>>
      BY <1>6 DEF Factory!EngineThrows, Harmless
    <2> QED BY <1>0, <2>1, HarmlessKeeps DEF Locking, Serves, Inside, Past, Serving
  <1>7. ASSUME NEW t \in Threads, Factory!Fetch(t)
        PROVE  Locking' /\ Serves' /\ Published' /\ Owned'
    <2>1. /\ Harmless /\ UNCHANGED m_csLock
          /\ pc[t] = "fetch" /\ pc'[t] = "handler" /\ held'[t] = m_pModule
          /\ \A u \in Threads : u # t => pc'[u] = pc[u] /\ held'[u] = held[u]
      BY <1>0, <1>7 DEF Factory!Fetch, Factory!factoryVars, Harmless
    <2>2. \A u \in Threads : /\ Inside(u)' => m_csLock' = u
                             /\ pc'[u] \in {"locked", "engine"} => m_pModule = 0
                             /\ pc'[u] = "engine" => pc[u] = "engine"
                             /\ Past(u)' => m_pModule # 0
                             /\ Serving(u)' => held'[u] = m_pModule
      BY <1>0, <2>1 DEF Locking, Serves, Inside, Past, Serving
    <2> QED BY <2>1, <2>2, HarmlessKeeps
  <1>8. ASSUME NEW t \in Threads, Factory!Construct(t)
        PROVE  Locking' /\ Serves' /\ Published' /\ Owned'
    <2>1. /\ pc[t] = "locked" /\ pc'[t] = "engine" /\ modules' = modules + 1
          /\ \A u \in Threads : u # t => pc'[u] = pc[u]
          /\ UNCHANGED <<registration, owner, factoryFrees, m_csLock, m_pModule, alive, held>>
      BY <1>0, <1>8 DEF Factory!Construct
    <2>2. modules \in Nat /\ modules + 1 \notin sources
      BY <1>0, MaxObjectsAssumption DEF Factory!TypeOK
    <2>3. m_pModule = 0
      BY <1>0, <2>1 DEF Locking
    <2>4. Published'
      BY <1>8, <2>1, <2>2 DEF Factory!Construct, Published
    <2>5. Owned'
      BY <1>0, <2>1 DEF Owned
    <2>6. Locking'
      BY <1>0, <2>1, <2>2, <2>3 DEF Locking, Inside
    <2>7. Serves'
      BY <1>0, <2>1, <2>3 DEF Serves, Past, Serving
    <2> QED BY <2>4, <2>5, <2>6, <2>7
  <1>9. ASSUME NEW t \in Threads, Factory!Engine(t)
        PROVE  Locking' /\ Serves' /\ Published' /\ Owned'
    <2>1. /\ pc[t] = "engine" /\ pc'[t] = "leave" /\ m_pModule' = modules
          /\ alive' = alive \cup {modules}
          /\ \A u \in Threads : u # t => pc'[u] = pc[u]
          /\ UNCHANGED <<registration, owner, factoryFrees, m_csLock, modules, g_hEventLog,
                         sources, openHandles, held>>
      BY <1>0, <1>9 DEF Factory!Engine
    <2>2. /\ m_pModule = 0 /\ modules # 0
          /\ \A u \in Threads : u # t => ~Inside(u)
          /\ \A u \in Threads : u # t => ~Past(u)
      BY <1>0, <2>1 DEF Locking, Serves, Inside
    <2>3. Published'
      BY <1>0, <2>1 DEF Published
    <2>4. Owned'
      BY <1>0, <2>1 DEF Owned
    <2>5. Locking'
      BY <1>0, <2>1, <2>2 DEF Locking, Inside
    <2>6. Serves'
      BY <1>0, <2>1, <2>2 DEF Serves, Past, Serving
    <2> QED BY <2>3, <2>4, <2>5, <2>6
  <1> QED BY <1>1, <1>2, <1>3, <1>4, <1>5, <1>6, <1>7, <1>8, <1>9
          DEF Factory!Next, Factory!FactoryStep

\* A line of the log moves its thread and nothing else of the factory.
LEMMA LogKeeps ==
  ASSUME FactoryInv, NEW t \in Threads, UNCHANGED <<factoryVars, held>>,
         \/ pc' = pc
         \/ pc[t] = "handler" /\ pc' = [pc EXCEPT ![t] = "write"]
         \/ pc[t] = "write" /\ pc' = [pc EXCEPT ![t] = "handler"]
  PROVE  FactoryInv'
  <1>0. Factory!TypeOK /\ Locking /\ Serves /\ DOMAIN pc = Threads
    BY DEF FactoryInv, Factory!TypeOK
  <1>1. Factory!TypeOK'
    BY <1>0 DEF Factory!TypeOK, factoryVars
  <1>2. /\ Harmless /\ UNCHANGED <<m_csLock, held>>
        /\ \A u \in Threads : pc'[u] = pc[u] \/ (Serving(u) /\ Serving(u)')
    BY <1>0 DEF factoryVars, Harmless, Serving
  <1>3. \A u \in Threads : /\ Inside(u)' => m_csLock' = u
                           /\ pc'[u] \in {"locked", "engine"} => m_pModule = 0
                           /\ pc'[u] = "engine" => pc[u] = "engine"
                           /\ Past(u)' => m_pModule # 0
                           /\ Serving(u)' => held'[u] = m_pModule
    BY <1>0, <1>2 DEF Locking, Serves, Inside, Past, Serving
  <1> QED BY <1>1, <1>2, <1>3, HarmlessKeeps DEF FactoryInv

(***************************************************************************)
(* The worker.                                                             *)
(***************************************************************************)

\* The two invariants hold of the whole.
LEMMA InvHolds == Spec => [](FactoryInv /\ ThrottleInv)
  <1>1. Init => FactoryInv /\ ThrottleInv
    BY FactoryInit, ThrottleInit DEF Init
  <1>2. FactoryInv /\ ThrottleInv /\ [Next]_vars => FactoryInv' /\ ThrottleInv'
    <2> SUFFICES ASSUME FactoryInv, ThrottleInv, [Next]_vars
                 PROVE  FactoryInv' /\ ThrottleInv'
      OBVIOUS
    <2>1. CASE Factory!Next /\ UNCHANGED throttleVars
      BY <2>1, FactoryTypeStep, FactoryStepKeeps, ThrottleUntouched DEF FactoryInv
    <2>2. CASE Throttle!Tick /\ UNCHANGED <<factoryVars, pc, held>>
      <3>1. \E t \in Threads : TRUE
        BY ThreadsAssumption
      <3> QED BY <2>2, <3>1, TickKeeps, LogKeeps
    <2>3. ASSUME NEW t \in Threads, ServerLogCallback(t)
          PROVE  FactoryInv' /\ ThrottleInv'
      BY <2>3, AdmitKeeps, DropKeeps, LogKeeps DEF ServerLogCallback, Factory!Goto
    <2>4. ASSUME NEW t \in Threads, WriteEventViewerLog(t)
          PROVE  FactoryInv' /\ ThrottleInv'
      BY <2>4, LogKeeps, ThrottleUntouched DEF WriteEventViewerLog, Factory!Goto
    <2>5. CASE UNCHANGED vars
      <3>1. \E t \in Threads : TRUE
        BY ThreadsAssumption
      <3> QED BY <2>5, <3>1, LogKeeps, ThrottleUntouched DEF vars
    <2> QED BY <2>1, <2>2, <2>3, <2>4, <2>5 DEF Next
  <1> QED BY <1>1, <1>2, PTL DEF Spec

\* Type correctness, for any number of threads.
THEOREM TypeCorrect == Spec => []TypeOK
  <1>1. FactoryInv /\ ThrottleInv => TypeOK
    BY DEF FactoryInv, ThrottleInv, TypeOK
  <1> QED BY <1>1, InvHolds, PTL

\* GetHttpModule gives every request the one module object there is, and
\* Dispose leaves it to the others.
THEOREM OneModule == Spec => []OneLiveModule
  <1>1. FactoryInv /\ ThrottleInv => OneLiveModule
    BY DEF FactoryInv, Serves, Past, Serving, OneLiveModule
  <1> QED BY <1>1, InvHolds, PTL

\* RegisterModule and IIS between them delete the factory at most once.
THEOREM FreedOnce == Spec => []FactoryFreedOnce
  <1>1. FactoryInv /\ ThrottleInv => FactoryFreedOnce
    BY DEF FactoryInv, Owned, FactoryFreedOnce
  <1> QED BY <1>1, InvHolds, PTL

\* The handle WriteEventViewerLog reads is open for as long as a request runs.
THEOREM LinesReachTheSource == Spec => []LineReachesSource
  <1>1. FactoryInv /\ ThrottleInv => LineReachesSource
    BY DEF FactoryInv, Serves, Past, Serving, Published, LineReachesSource
  <1> QED BY <1>1, InvHolds, PTL

\* ServerLogCallback lets through at most twice the limit in any stretch of
\* time shorter than a second.
THEOREM Bounded == Spec => []SlidingBound
  <1>1. FactoryInv /\ ThrottleInv => SlidingBound
    <2> SUFFICES ASSUME ThrottleInv, NEW i \in DOMAIN logged, NEW j \in DOMAIN logged,
                        i <= j, Throttle!Close(i, j)
                 PROVE  j - i < 2 * kMaxLogsPerSecond
      BY DEF SlidingBound, Throttle!SlidingBound
    <2>1. i \in 1..Len(logged) /\ j \in 1..Len(logged) /\ Len(logged) \in Nat
      BY ThrottleTypes, LenProperties
    <2>2. /\ logged[i] \in Nat /\ logged[j] \in Nat
          /\ Second \in Nat /\ kMaxLogsPerSecond \in Nat
          /\ logged[j] - logged[i] < Second
      BY <2>1, ThrottleTypes DEF Throttle!Close
    <2> QED BY <2>1, <2>2 DEF ThrottleInv, Spread
  <1> QED BY <1>1, InvHolds, PTL

\* ServerLogCallback loses no line while the limit is not used up.
THEOREM DropsJustified == Spec => []DroppedOnlyWhenFull
  <1>1. FactoryInv /\ ThrottleInv => DroppedOnlyWhenFull
    BY DEF ThrottleInv, Justified, DroppedOnlyWhenFull, Throttle!DroppedOnlyWhenFull
  <1> QED BY <1>1, InvHolds, PTL
=============================================================================
