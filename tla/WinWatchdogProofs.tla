--------------------------- MODULE WinWatchdogProofs ---------------------------
(***************************************************************************)
(* What the watchdog guarantees for any number of restarts, any commit     *)
(* charges and any times, as long as a new thread can be referenced and    *)
(* the interval is shorter than the wait for its end.                      *)
(***************************************************************************)
EXTENDS WinWatchdog, TLAPS

(* Who is alive is known to the code that will stop it *)
ThreadInv ==
  /\ created # None <=> phase = "reference"
  /\ thread # None => phase \in {"up", "stop", "wait"}
  /\ phase = "wait" => thread # None
  /\ \A w \in Watchdogs : pc[w] = "done" \/ w = created \/ w = thread

(* Its delay ends before the wait for it does *)
TimeInv ==
  /\ \A w \in Watchdogs : pc[w] = "delay" => left[w] <= Nap
  /\ phase = "wait" =>
       /\ ~running
       /\ pc[thread] # "done" => wait > 0
       /\ pc[thread] = "delay" => left[thread] < wait

(* The event is there for who signals it and for who waits *)
EventInv ==
  /\ \A w \in Watchdogs : pc[w] = "set" => event
  /\ \A c \in Clients : client[c] # "closed" => phase = "up" /\ event

IInv == TypeOK /\ ThreadInv /\ TimeInv /\ EventInv

Prompt == ~RefFails /\ Nap < StopWait
OneClient == \A c, d \in Clients : c = d
-----------------------------------------------------------------------------
LEMMA LevelType == ASSUME NEW p \in Nat PROVE Level(p) \in Levels
BY DEF Level, Levels

LEMMA InitInv == Init => IInv
<1> SUFFICES ASSUME Init PROVE IInv
  OBVIOUS
<1>1. TypeOK
  BY DEF Init, TypeOK, Phases, Labels, Levels
<1>2. ThreadInv /\ TimeInv /\ EventInv
  BY DEF Init, ThreadInv, TimeInv, EventInv
<1> QED
  BY <1>1, <1>2 DEF IInv

LEMMA AddSteps ==
  ASSUME IInv, Prompt, AddDevice
  PROVE  IInv'
<1> USE WatchdogAssumption
    DEF IInv, TypeOK, ThreadInv, TimeInv, EventInv, Prompt, Phases, Labels, Levels, At, Goto,
        watchVars, stateVars, worldVars, clientVars
<1>1. CASE Add
  BY <1>1 DEF Add
<1>2. CASE CreateEvent
  BY <1>2 DEF CreateEvent
<1>3. CASE Start
  BY <1>3 DEF Start
<1>4. CASE CreateThread
  BY <1>4 DEF CreateThread
<1>5. CASE Reference
  BY <1>5 DEF Reference
<1> QED
  BY <1>1, <1>2, <1>3, <1>4, <1>5 DEF AddDevice

LEMMA WatchSteps ==
  ASSUME IInv, Prompt, NEW w \in Watchdogs, Watch(w)
  PROVE  IInv'
<1> USE WatchdogAssumption, LevelType
    DEF IInv, TypeOK, ThreadInv, TimeInv, EventInv, Prompt, Phases, Labels, Levels, At, Goto,
        deviceVars, stateVars, worldVars, clientVars, Short
<1>1. CASE Loop(w)
  BY <1>1 DEF Loop
<1>2. CASE Delayed(w)
  BY <1>2 DEF Delayed
<1>3. CASE Measure(w) \/ Guard(w)
  <2>1. CASE Measure(w)
    BY <2>1 DEF Measure
  <2>2. CASE Guard(w)
    BY <2>2 DEF Guard
  <2> QED
    BY <1>3, <2>1, <2>2
<1>4. CASE QueryFails(w)
  BY <1>4 DEF QueryFails
<1>5. CASE Exchange(w)
  <2>1. Level(load) \in Levels
    OBVIOUS
  <2> QED
    BY <1>5, <2>1 DEF Exchange
<1>6. CASE Test(w)
  BY <1>6 DEF Test
<1>7. CASE Set(w)
  BY <1>7 DEF Set
<1> QED
  BY <1>1, <1>2, <1>3, <1>4, <1>5, <1>6, <1>7 DEF Watch, Observe

LEMMA StopStep ==
  ASSUME IInv, Prompt, Stop
  PROVE  IInv'
<1>1. thread = None \/ thread \in Watchdogs
  BY DEF IInv, TypeOK
<1>2. UNCHANGED <<created, thread, event, watchVars, stateVars, signaled, worldVars, clientVars>>
  BY DEF Stop
<1>3. TypeOK'
  BY <1>2, WatchdogAssumption
     DEF IInv, TypeOK, Stop, watchVars, stateVars, worldVars, clientVars, Phases
<1>4. ThreadInv' /\ EventInv'
  BY <1>2 DEF IInv, ThreadInv, EventInv, Stop, watchVars, clientVars
<1>5. TimeInv'
  <2>1. CASE thread = None
    BY <1>2, <2>1 DEF IInv, TimeInv, Stop, watchVars
  <2>2. CASE thread # None
    <3>1. running' = FALSE /\ wait' = StopWait /\ UNCHANGED <<thread, pc, left>>
      BY <1>2, <2>2 DEF Stop, watchVars
    <3>2. thread \in Watchdogs /\ left \in [Watchdogs -> Nat]
      BY <1>1, <2>2 DEF IInv, TypeOK
    <3>3. pc[thread] = "delay" => left[thread] < StopWait
      BY <3>2, WatchdogAssumption DEF IInv, TimeInv, Prompt
    <3> QED
      BY <3>1, <3>2, <3>3, WatchdogAssumption DEF IInv, TimeInv, Prompt
  <2> QED
    BY <2>1, <2>2
<1> QED
  BY <1>3, <1>4, <1>5 DEF IInv

LEMMA RemoveSteps ==
  ASSUME IInv, Prompt, RemoveDevice \/ Unload \/ DriverEntry
  PROVE  IInv'
<1> USE WatchdogAssumption
    DEF IInv, TypeOK, ThreadInv, TimeInv, EventInv, Prompt, Phases, Labels, Levels, At, Goto,
        watchVars, stateVars, worldVars, clientVars
<1>1. CASE Remove
  BY <1>1 DEF Remove
<1>2. CASE Stop
  BY <1>2, StopStep
<1>3. CASE Waited
  BY <1>3 DEF Waited
<1>4. CASE Destroy
  BY <1>4 DEF Destroy
<1>5. CASE Unload
  BY <1>5 DEF Unload
<1>6. CASE DriverEntry
  <2>1. TypeOK'
    BY <1>6 DEF DriverEntry
  <2>2. ThreadInv' /\ TimeInv' /\ EventInv'
    BY <1>6 DEF DriverEntry
  <2> QED
    BY <2>1, <2>2
<1> QED
  BY <1>1, <1>2, <1>3, <1>4, <1>5, <1>6 DEF RemoveDevice

LEMMA OtherSteps ==
  ASSUME IInv, Prompt, (\E c \in Clients : Client(c)) \/ Refuse \/ World \/ Tick \/ UNCHANGED vars
  PROVE  IInv'
<1> USE WatchdogAssumption
    DEF IInv, TypeOK, ThreadInv, TimeInv, EventInv, Prompt, Phases, Labels, Levels, At, Goto,
        deviceVars, watchVars, stateVars, worldVars, clientVars
<1>1. CASE \E c \in Clients : Client(c)
  <2>1. PICK c \in Clients : Client(c)
    BY <1>1
  <2>2. TypeOK'
    BY <2>1 DEF Client, OpenEvent, GetInfo, Woken, CloseEvent
  <2>3. ThreadInv' /\ TimeInv'
    BY <2>1 DEF Client, OpenEvent, GetInfo, Woken, CloseEvent
  <2>4. EventInv'
    BY <2>1 DEF Client, OpenEvent, GetInfo, Woken, CloseEvent
  <2> QED
    BY <2>2, <2>3, <2>4
<1>2. CASE Refuse
  BY <1>2 DEF Refuse
<1>3. CASE World
  BY <1>3 DEF World
<1>4. CASE Tick
  BY <1>4 DEF Tick, Resting, Less
<1>5. CASE UNCHANGED vars
  BY <1>5 DEF vars
<1> QED
  BY <1>1, <1>2, <1>3, <1>4, <1>5

LEMMA StepInv == IInv /\ Prompt /\ [Next]_vars => IInv'
BY AddSteps, WatchSteps, RemoveSteps, OtherSteps DEF Next

(* The invariant holds from the first state on *)
THEOREM Invariant == ASSUME Prompt PROVE Spec => []IInv
<1>1. []Prompt
  BY PTL
<1> QED
  BY <1>1, InitInv, StepInv, PTL DEF Spec

(* The watchdog has returned before the event, the buffers or the image go, *)
(* and there is never a second one                                          *)
THEOREM WatchdogReturns == ASSUME Prompt PROVE Spec => []WatchdogEndsFirst
<1>1. IInv => WatchdogEndsFirst
  BY WatchdogAssumption DEF IInv, TypeOK, ThreadInv, EventInv, WatchdogEndsFirst, At, Phases
<1> QED
  BY <1>1, Invariant, PTL
-----------------------------------------------------------------------------
(* The promise of the event *)

LEMMA MissedSteps ==
  ASSUME IInv, OneClient, NoMissedPressure, [Next]_vars
  PROVE  NoMissedPressure'
<1> USE DEF NoMissedPressure, IInv, TypeOK, At, Goto
<1>1. CASE AddDevice \/ RemoveDevice \/ Unload \/ DriverEntry
  <2>1. CASE AddDevice \/ Remove \/ Stop \/ Waited \/ Unload
    <3>1. UNCHANGED <<swap, signaled, client, known>>
      BY <2>1 DEF AddDevice, Add, CreateEvent, Start, CreateThread, Reference, Remove, Stop, Waited, Unload,
                  stateVars, clientVars
    <3>2. \A w \in Watchdogs : pc[w] \in {"test", "set"} => pc'[w] = pc[w]
      BY <2>1 DEF AddDevice, Add, CreateEvent, Start, CreateThread, Reference, Remove, Stop, Waited, Unload,
                  watchVars
    <3> QED
      BY <3>1, <3>2
  <2>2. CASE Destroy \/ DriverEntry
    <3>1. \A c \in Clients : client'[c] = "closed"
      BY <2>2 DEF Destroy, DriverEntry, clientVars, EventInv
    <3> QED
      BY <3>1
  <2> QED
    BY <1>1, <2>1, <2>2 DEF RemoveDevice
<1>2. ASSUME NEW w \in Watchdogs, Watch(w) PROVE NoMissedPressure'
  <2>1. UNCHANGED <<client, known>> /\ \A x \in Watchdogs \ {w} : pc'[x] = pc[x]
    BY <1>2 DEF Watch, Loop, Delayed, Measure, Guard, Observe, QueryFails, Exchange, Test, Set, clientVars
  <2>2. CASE Loop(w) \/ Delayed(w) \/ Measure(w) \/ Guard(w) \/ QueryFails(w)
    <3>1. UNCHANGED <<swap, signaled>> /\ pc[w] \notin {"test", "set"}
      BY <2>2 DEF Loop, Delayed, Measure, Guard, QueryFails, stateVars
    <3> QED
      BY <2>1, <3>1
  <2>3. CASE Exchange(w)
    <3>1. UNCHANGED signaled /\ pc[w] = "pagefile" /\ (swap' # swap => pc'[w] = "test")
      BY <2>3 DEF Exchange
    <3> QED
      BY <2>1, <3>1
  <2>4. CASE Test(w)
    <3>1. UNCHANGED <<swap, signaled>> /\ (event => pc'[w] = "set")
      BY <2>4 DEF Test, stateVars
    <3> QED
      BY <2>1, <3>1 DEF EventInv
  <2>5. CASE Set(w)
    BY <2>5 DEF Set
  <2> QED
    BY <1>2, <2>2, <2>3, <2>4, <2>5 DEF Watch, Observe
<1>3. ASSUME NEW c \in Clients, Client(c) PROVE NoMissedPressure'
  <2>1. \A d \in Clients : d = c
    BY DEF OneClient
  <2>2. UNCHANGED <<swap, pc>>
    BY <1>3 DEF Client, OpenEvent, GetInfo, Woken, CloseEvent, stateVars, watchVars
  <2>3. client'[c] # "waiting" \/ known'[c] = swap'
    BY <1>3, <2>2 DEF Client, OpenEvent, GetInfo, Woken, CloseEvent
  <2> QED
    BY <2>1, <2>3
<1>4. CASE Refuse \/ World \/ Tick \/ UNCHANGED vars
  BY <1>4 DEF Refuse, World, Tick, vars, watchVars, stateVars, clientVars
<1> QED
  BY <1>1, <1>2, <1>3, <1>4 DEF Next

(* A client never sleeps on a pressure that has changed *)
THEOREM NothingMissed == ASSUME Prompt, OneClient PROVE Spec => []NoMissedPressure
<1>1. Init => NoMissedPressure
  BY DEF Init, NoMissedPressure
<1>2. []OneClient
  BY PTL
<1> QED
  BY <1>1, <1>2, MissedSteps, Invariant, PTL DEF Spec
================================================================================
