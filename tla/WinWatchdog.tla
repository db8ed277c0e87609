------------------------------ MODULE WinWatchdog ------------------------------
(***************************************************************************)
(* The watchdog of windows-port/driver/greenboost_win.c: the thread that   *)
(* looks at memory and pagefile once a second, the pressure event it       *)
(* signals, and the device that starts it, stops it and may be added again *)
(* while the driver's image stays loaded.                                  *)
(*                                                                         *)
(* Time is modelled as in PrefetchQueue: a running thread's steps take     *)
(* none, KeDelayExecutionThread lasts Nap units, the wait for the thread   *)
(* at most StopWait.  The clients are external: they open the event by its *)
(* name and ask GET_INFO each time it wakes them (greenboost_ioctl_win.h,  *)
(* lines 127-135).                                                         *)
(***************************************************************************)
EXTENDS Naturals

CONSTANTS
  Watchdogs, \* system threads; one that has ended may be created again
  Clients,   \* processes that wait for the event
  None,      \* NULL
  Loads,     \* pagefile commit charges, in percent of the limit
  Frees,     \* amounts of memory that may be available
  Reserve,   \* SafetyReserveGb
  Sizes,     \* sizes clients ask GbAllocTier2 for
  Nap,       \* the interval of GbWatchdogThread
  StopWait,  \* the timeout of GbStopWatchdog
  RefFails   \* ObReferenceObjectByHandle may refuse a thread just created

ASSUME WatchdogAssumption ==
  /\ None \notin Watchdogs
  /\ Loads \subseteq Nat /\ Frees \subseteq Nat /\ Reserve \in Nat /\ Sizes \subseteq Nat
  /\ Nap \in Nat /\ StopWait \in Nat
  /\ RefFails \in BOOLEAN

VARIABLES
  phase,    \* where GbEvtDeviceAdd and GbEvtDeviceCleanup are
  created,  \* threadHandle in GbStartWatchdog
  thread,   \* WatchdogThread
  running,  \* WatchdogRunning
  event,    \* PressureEvent is not NULL
  pc, left, \* where each watchdog is, and what is left of its delay
  wait,     \* what is left of the wait for the watchdog
  oom,      \* OomActive
  swap,     \* SwapPressure
  signaled, \* the state of the event object, reset by the wait it satisfies
  free,     \* available memory
  load,     \* the commit charge
  client,   \* where each client is
  known     \* the pressure each client was told

deviceVars == <<phase, created, thread, running, event, wait>>
watchVars == <<pc, left>>
stateVars == <<oom, swap>>
worldVars == <<free, load>>
clientVars == <<client, known>>
vars == <<deviceVars, watchVars, stateVars, signaled, worldVars, clientVars>>

Short == free < Reserve

(* GB_SWAP_PRESSURE_OK, _WARN and _CRITICAL *)
Level(p) == IF p >= 90 THEN 2 ELSE IF p >= 75 THEN 1 ELSE 0

Init ==
  /\ phase = "off" /\ created = None /\ thread = None /\ running = FALSE /\ event = FALSE
  /\ pc = [w \in Watchdogs |-> "done"] /\ left = [w \in Watchdogs |-> 0] /\ wait = 0
  /\ oom = FALSE /\ swap = 0 /\ signaled = FALSE
  /\ free \in Frees /\ load \in Loads
  /\ client = [c \in Clients |-> "closed"] /\ known = [c \in Clients |-> 0]

At(w, label) == pc[w] = label
Goto(w, label) == pc' = [pc EXCEPT ![w] = label]

-----------------------------------------------------------------------------
(* GbEvtDeviceAdd.  If it fails the framework deletes the device, and       *)
(* GbEvtDeviceCleanup runs all the same.                                    *)

Add ==
  /\ phase = "off"
  /\ phase' \in {"event", "stop"}
  /\ UNCHANGED <<created, thread, running, event, wait, watchVars, stateVars, signaled, worldVars, clientVars>>

(* GbCreatePressureEvent, which may fail *)
CreateEvent ==
  /\ phase = "event"
  /\ event' \in BOOLEAN
  /\ phase' = "start"
  /\ UNCHANGED <<created, thread, running, wait, watchVars, stateVars, signaled, worldVars, clientVars>>

(* GbStartWatchdog *)
Start ==
  /\ phase = "start"
  /\ running' = TRUE
  /\ phase' = "create"
  /\ UNCHANGED <<created, thread, event, wait, watchVars, stateVars, signaled, worldVars, clientVars>>

CreateThread ==
  /\ phase = "create"
  /\ \/ \E w \in Watchdogs :
          /\ At(w, "done") /\ Goto(w, "loop")
          /\ created' = w /\ phase' = "reference"
          /\ UNCHANGED running
     \/ /\ running' = FALSE /\ phase' = "up"
        /\ UNCHANGED <<created, pc>>
  /\ UNCHANGED <<thread, event, wait, left, stateVars, signaled, worldVars, clientVars>>

(* The thread runs already; without the reference it is told to stop and    *)
(* WatchdogThread stays NULL                                                *)
Reference ==
  /\ phase = "reference"
  /\ \/ thread' = created /\ UNCHANGED running
     \/ RefFails /\ running' = FALSE /\ UNCHANGED thread
  /\ created' = None /\ phase' = "up"
  /\ UNCHANGED <<event, wait, watchVars, stateVars, signaled, worldVars, clientVars>>

-----------------------------------------------------------------------------
(* GbWatchdogThread *)

Loop(w) ==
  /\ At(w, "loop")
  /\ \/ running /\ Goto(w, "delay") /\ left' = [left EXCEPT ![w] = Nap]
     \/ ~running /\ Goto(w, "done") /\ UNCHANGED left
  /\ UNCHANGED <<deviceVars, stateVars, signaled, worldVars, clientVars>>

Delayed(w) ==
  /\ At(w, "delay") /\ left[w] = 0
  /\ Goto(w, IF running THEN "memory" ELSE "done")
  /\ UNCHANGED <<deviceVars, left, stateVars, signaled, worldVars, clientVars>>

(* The reserve check of tier 2: the memory is measured, and the guard set   *)
(* or cleared afterwards                                                    *)
Measure(w) ==
  /\ At(w, "memory")
  /\ Goto(w, IF Short THEN "trip" ELSE "clear")
  /\ UNCHANGED <<deviceVars, left, stateVars, signaled, worldVars, clientVars>>

(* mutant: the guard trips and is never cleared *)
GuardTrips(w) ==
  /\ pc[w] \in {"trip", "clear"}
  /\ oom' = (oom \/ At(w, "trip"))
  /\ Goto(w, "pagefile")
  /\ UNCHANGED <<deviceVars, left, swap, signaled, worldVars, clientVars>>

Guard(w) ==
  /\ pc[w] \in {"trip", "clear"}
  /\ oom' = At(w, "trip")
  /\ Goto(w, "pagefile")
  /\ UNCHANGED <<deviceVars, left, swap, signaled, worldVars, clientVars>>

(* ZwQuerySystemInformation may fail; the pressure is then left as it was *)
QueryFails(w) ==
  /\ At(w, "pagefile")
  /\ Goto(w, "loop")
  /\ UNCHANGED <<deviceVars, left, stateVars, signaled, worldVars, clientVars>>

(* mutant: only more pressure is announced *)
ExchangeRising(w) ==
  /\ At(w, "pagefile")
  /\ swap' = Level(load)
  /\ Goto(w, IF Level(load) > swap THEN "test" ELSE "loop")
  /\ UNCHANGED <<deviceVars, left, oom, signaled, worldVars, clientVars>>

Exchange(w) ==
  /\ At(w, "pagefile")
  /\ swap' = Level(load)
  /\ Goto(w, IF Level(load) # swap THEN "test" ELSE "loop")
  /\ UNCHANGED <<deviceVars, left, oom, signaled, worldVars, clientVars>>

(* mutant: the test is the wrong way round *)
TestInverted(w) ==
  /\ At(w, "test")
  /\ Goto(w, IF event THEN "loop" ELSE "set")
  /\ UNCHANGED <<deviceVars, left, stateVars, signaled, worldVars, clientVars>>

(* PressureEvent is tested, and read again for KeSetEvent *)
Test(w) ==
  /\ At(w, "test")
  /\ Goto(w, IF event THEN "set" ELSE "loop")
  /\ UNCHANGED <<deviceVars, left, stateVars, signaled, worldVars, clientVars>>

Set(w) ==
  /\ At(w, "set")
  /\ signaled' = TRUE
  /\ Goto(w, "loop")
  /\ UNCHANGED <<deviceVars, left, stateVars, worldVars, clientVars>>

-----------------------------------------------------------------------------
(* GbAllocTier2 finds less memory than the reserve and the request need *)
Refuse ==
  /\ phase = "up"
  /\ \E n \in Sizes : free < Reserve + n
  /\ oom' = TRUE
  /\ UNCHANGED <<deviceVars, watchVars, swap, signaled, worldVars, clientVars>>

-----------------------------------------------------------------------------
(* GbEvtDeviceCleanup, once no handle of the device is open *)

Remove ==
  /\ phase = "up" /\ \A c \in Clients : client[c] = "closed"
  /\ phase' = "stop"
  /\ UNCHANGED <<created, thread, running, event, wait, watchVars, stateVars, signaled, worldVars, clientVars>>

(* GbStopWatchdog returns at once without a thread to wait for *)
Stop ==
  /\ phase = "stop"
  /\ \/ thread # None /\ running' = FALSE /\ wait' = StopWait /\ phase' = "wait"
     \/ thread = None /\ phase' = "destroy" /\ UNCHANGED <<running, wait>>
  /\ UNCHANGED <<created, thread, event, watchVars, stateVars, signaled, worldVars, clientVars>>

(* mutant: the thread is not waited for *)
WaitSkipped ==
  /\ phase = "wait"
  /\ thread' = None /\ wait' = 0 /\ phase' = "destroy"
  /\ UNCHANGED <<created, running, event, watchVars, stateVars, signaled, worldVars, clientVars>>

(* The thread has ended, or the time is over *)
Waited ==
  /\ phase = "wait"
  /\ At(thread, "done") \/ wait = 0
  /\ thread' = None /\ wait' = 0 /\ phase' = "destroy"
  /\ UNCHANGED <<created, running, event, watchVars, stateVars, signaled, worldVars, clientVars>>

(* GbDestroyPressureEvent, after the buffers (WinDriver) *)
Destroy ==
  /\ phase = "destroy"
  /\ event' = FALSE /\ signaled' = FALSE
  /\ phase' = "off"
  /\ UNCHANGED <<created, thread, running, wait, watchVars, stateVars, worldVars, clientVars>>

(* The image goes, and DriverEntry zeroes the state of the next one *)
Unload ==
  /\ phase = "off"
  /\ phase' = "gone"
  /\ UNCHANGED <<created, thread, running, event, wait, watchVars, stateVars, signaled, worldVars, clientVars>>

DriverEntry ==
  /\ phase = "gone"
  /\ thread' = None /\ running' = FALSE /\ event' = FALSE /\ oom' = FALSE /\ swap' = 0
  /\ phase' = "off"
  /\ UNCHANGED <<created, wait, watchVars, signaled, worldVars, clientVars>>

-----------------------------------------------------------------------------
(* The clients *)

OpenEvent(c) ==
  /\ phase = "up" /\ event /\ client[c] = "closed"
  /\ client' = [client EXCEPT ![c] = "ask"]
  /\ UNCHANGED <<deviceVars, watchVars, stateVars, signaled, worldVars, known>>

(* GbHandleGetInfo *)
GetInfo(c) ==
  /\ client[c] = "ask"
  /\ known' = [known EXCEPT ![c] = swap]
  /\ client' = [client EXCEPT ![c] = "waiting"]
  /\ UNCHANGED <<deviceVars, watchVars, stateVars, signaled, worldVars>>

(* A synchronization event lets one waiter go and is reset *)
Woken(c) ==
  /\ client[c] = "waiting" /\ signaled
  /\ signaled' = FALSE
  /\ client' = [client EXCEPT ![c] = "ask"]
  /\ UNCHANGED <<deviceVars, watchVars, stateVars, worldVars, known>>

CloseEvent(c) ==
  /\ client[c] \in {"ask", "waiting"}
  /\ client' = [client EXCEPT ![c] = "closed"]
  /\ known' = [known EXCEPT ![c] = 0]
  /\ UNCHANGED <<deviceVars, watchVars, stateVars, signaled, worldVars>>

-----------------------------------------------------------------------------
World ==
  /\ free' \in Frees /\ load' \in Loads
  /\ UNCHANGED <<deviceVars, watchVars, stateVars, signaled, clientVars>>

(* Time passes only while every thread of the driver is in a delay or a wait *)
Resting ==
  /\ \A w \in Watchdogs : At(w, "done") \/ (At(w, "delay") /\ left[w] > 0)
  /\ phase \in {"up", "off", "gone"} \/ (phase = "wait" /\ wait > 0)

Less(n) == IF n = 0 THEN 0 ELSE n - 1

Tick ==
  /\ Resting
  /\ left' = [w \in Watchdogs |-> Less(left[w])] /\ wait' = Less(wait)
  /\ UNCHANGED <<phase, created, thread, running, event, pc, stateVars, signaled, worldVars, clientVars>>

Observe(w) == QueryFails(w) \/ Exchange(w)
Watch(w) == Loop(w) \/ Delayed(w) \/ Measure(w) \/ Guard(w) \/ Observe(w) \/ Test(w) \/ Set(w)
AddDevice == Add \/ CreateEvent \/ Start \/ CreateThread \/ Reference
RemoveDevice == Remove \/ Stop \/ Waited \/ Destroy
Client(c) == OpenEvent(c) \/ GetInfo(c) \/ Woken(c) \/ CloseEvent(c)

Next ==
  \/ AddDevice \/ RemoveDevice \/ Unload \/ DriverEntry
  \/ \E w \in Watchdogs : Watch(w)
  \/ \E c \in Clients : Client(c)
  \/ Refuse \/ World \/ Tick

(* Threads run, a client that is woken asks, time passes, and the query of  *)
(* the pagefile does not fail for ever                                      *)
Fairness ==
  /\ \A w \in Watchdogs : WF_vars(Watch(w)) /\ SF_vars(Exchange(w))
  /\ \A c \in Clients : WF_vars(GetInfo(c)) /\ WF_vars(Woken(c))
  /\ WF_vars(Tick)

Spec == Init /\ [][Next]_vars /\ Fairness
-----------------------------------------------------------------------------
(* Properties *)

Phases == {"off", "event", "start", "create", "reference", "up", "stop", "wait", "destroy", "gone"}
Levels == {0, 1, 2}
Labels == {"done", "loop", "delay", "memory", "trip", "clear", "pagefile", "test", "set"}

TypeOK ==
  /\ phase \in Phases /\ created \in Watchdogs \cup {None} /\ thread \in Watchdogs \cup {None}
  /\ running \in BOOLEAN /\ event \in BOOLEAN /\ wait \in Nat
  /\ pc \in [Watchdogs -> Labels] /\ left \in [Watchdogs -> Nat]
  /\ oom \in BOOLEAN /\ swap \in Levels /\ signaled \in BOOLEAN
  /\ free \in Frees /\ load \in Loads
  /\ client \in [Clients -> {"closed", "ask", "waiting"}] /\ known \in [Clients -> Levels]

(* GbEvtDeviceCleanup frees what the watchdog uses, and the image may go,   *)
(* only when GbWatchdogThread has returned; a device that is added again    *)
(* starts the only watchdog; and the event that is signaled is there        *)
(* (lines 668-672, 742-761, 1492-1510).                                     *)
WatchdogEndsFirst ==
  /\ phase \in {"destroy", "off", "gone", "event", "start", "create"} =>
       \A w \in Watchdogs : At(w, "done")
  /\ \A w, x \in Watchdogs : At(w, "done") \/ At(x, "done") \/ w = x
  /\ \A w \in Watchdogs : At(w, "set") => event

(* A client that sleeps on an old pressure is about to be woken: the level  *)
(* is exchanged before the event is set, and every change sets it           *)
(* (lines 665-672).                                                         *)
NoMissedPressure ==
  \A c \in Clients : (client[c] = "waiting" /\ known[c] # swap) =>
     signaled \/ \E w \in Watchdogs : pc[w] \in {"test", "set"}

Watching == phase = "up" /\ thread # None

(* While there is memory the OOM guard is cleared again, also after         *)
(* GbAllocTier2 has tripped it (lines 346, 631-645).                        *)
OomClears == <>[](Watching /\ ~Short) => []<>~oom

(* BUILD_INSTRUCTIONS.md:116, "Signal named event": a pressure that lasts   *)
(* is known in the end to a client that waits for the event.                *)
PressureReachesClient ==
  \A c \in Clients, p \in Loads :
    <>[](Watching /\ load = p /\ client[c] # "closed") => <>[](known[c] = Level(p))
================================================================================
