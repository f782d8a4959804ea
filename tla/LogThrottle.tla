---------------------------- MODULE LogThrottle ----------------------------
(***************************************************************************)
(* The throttle of ServerLogCallback (src/connector.cpp): the engine's     *)
(* log lines go to the Event Viewer, at most kMaxLogsPerSecond of them per *)
(* window.  A window starts with the first line that comes a second or     *)
(* more after the start of the last one, so windows do not line up with    *)
(* the seconds of the clock.  The whole decision is made under             *)
(* g_logThrottleMutex, the clock included, and is one step.                *)
(***************************************************************************)
EXTENDS Integers, Sequences

CONSTANTS
  Second,              \* ticks in 1000 ms
  kMaxLogsPerSecond,
  MaxTime              \* bound: ticks the clock runs

VARIABLES
  clock,               \* GetTickCount64
  g_logWindowStart,
  g_logCount,
  logged,              \* history: when each admitted line came
  dropped              \* history: the last line that was dropped

throttleVars == <<g_logWindowStart, g_logCount, logged, dropped>>
vars         == <<clock, throttleVars>>

NoDrop == [at |-> 0, after |-> 0]

TypeOK ==
  /\ clock \in 0..MaxTime
  /\ g_logWindowStart \in 0..clock
  /\ g_logCount \in 0..kMaxLogsPerSecond
  /\ logged \in Seq(0..clock)
  /\ dropped \in [at : 0..clock, after : Nat]

Init ==
  /\ clock \in 0..Second           \* the machine may just have started
  /\ g_logWindowStart = 0
  /\ g_logCount = 0
  /\ logged = <<>>
  /\ dropped = NoDrop

Tick ==
  /\ clock < MaxTime
  /\ clock' = clock + 1
  /\ UNCHANGED throttleVars

\* Fault: a new window resets the count but not its start.
WindowStartForgotten ==
  IF clock - g_logWindowStart >= Second
  THEN [start |-> g_logWindowStart, count |-> 0]
  ELSE [start |-> g_logWindowStart, count |-> g_logCount]

\* Fault: a new window keeps the count of the old one.
CountKept ==
  IF clock - g_logWindowStart >= Second
  THEN [start |-> clock, count |-> g_logCount]
  ELSE [start |-> g_logWindowStart, count |-> g_logCount]

\* The window a line that comes now belongs to.
Window ==
  IF clock - g_logWindowStart >= Second
  THEN [start |-> clock, count |-> 0]
  ELSE [start |-> g_logWindowStart, count |-> g_logCount]

\* Fault: one line more than the limit.
FullOffByOne == Window.count > kMaxLogsPerSecond

Full == Window.count >= kMaxLogsPerSecond

\* The decision of ServerLogCallback for a line that comes now.
Admit ==
  /\ ~Full
  /\ g_logWindowStart' = Window.start
  /\ g_logCount' = Window.count + 1
  /\ logged' = Append(logged, clock)
  /\ UNCHANGED <<clock, dropped>>

Drop ==
  /\ Full
  /\ g_logWindowStart' = Window.start
  /\ g_logCount' = Window.count
  /\ dropped' = [at |-> clock, after |-> Len(logged)]
  /\ UNCHANGED <<clock, logged>>

Next == Tick \/ Admit \/ Drop

Spec == Init /\ [][Next]_vars

\* Lines i and j of the log are less than a second apart.
Close(i, j) == logged[j] - logged[i] < Second

\* ServerLogCallback: never more than twice kMaxLogsPerSecond lines within one second, wherever
\* the second begins: it touches two windows at most.
SlidingBound ==
  \A i, j \in DOMAIN logged : i <= j /\ Close(i, j) => j - i < 2 * kMaxLogsPerSecond

\* ServerLogCallback: a line is lost only if the limit was used up within the second before it.
DroppedOnlyWhenFull ==
  dropped # NoDrop =>
    /\ dropped.after >= kMaxLogsPerSecond
    /\ dropped.at - logged[dropped.after - kMaxLogsPerSecond + 1] < Second
=============================================================================
