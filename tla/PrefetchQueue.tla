----------------------------- MODULE PrefetchQueue -----------------------------
(***************************************************************************)
(* The prefetch worker of windows-port/shim/greenboost_cuda_shim_win.c:    *)
(* the ring the allocation hooks fill, the thread that empties it, and the *)
(* library that starts both and is unloaded under them.                    *)
(*                                                                         *)
(* The shutdown is bounded by time and not by a handshake, so time is part *)
(* of the model: Tick lets a unit pass, the steps of a running thread take *)
(* none, and a sleep, a CUDA call and the wait for the worker last at most *)
(* their number of units.                                                  *)
(***************************************************************************)
EXTENDS Naturals

CONSTANTS
  Threads,    \* application threads in the allocation hook
  Reqs,       \* allocations to prefetch
  None,       \* no request, no owner
  Worker,     \* prefetch_worker
  QueueSize,  \* PREFETCH_QUEUE_SIZE
  Nap,        \* the timeout of SleepConditionVariableCS
  StopWait,   \* the timeout of WaitForSingleObject
  Busy,       \* assumed: the longest prefetch call
  QuietUnload \* assumed: when the library is unloaded the worker has begun
              \* or, where there is none, no hook is under way

ASSUME PrefetchAssumption ==
  /\ QueueSize \in Nat /\ QueueSize > 1
  /\ Nap \in Nat /\ StopWait \in Nat /\ Busy \in Nat
  /\ QuietUnload \in BOOLEAN
  /\ None \notin Reqs \cup Threads /\ Worker \notin Threads /\ Worker # None

VARIABLES
  ring, head, tail, \* prefetch_queue, prefetch_head, prefetch_tail
  running,          \* prefetch_running
  cs,               \* prefetch_cs: uninitialised, alive, deleted
  owner,            \* who is in prefetch_cs
  worker,           \* where the worker is
  req,              \* the request it has copied
  left,             \* what is left of its sleep or of its call
  phase,            \* where DllMain is
  wait,             \* what is left of the wait for the worker
  call              \* the request each thread is enqueuing

ringVars == <<ring, head, tail>>
lockVars == <<cs, owner>>
workerVars == <<worker, req, left>>
libVars == <<running, phase, wait>>
vars == <<ringVars, lockVars, workerVars, libVars, call>>

Slots == 0 .. QueueSize - 1
Succ(i) == (i + 1) % QueueSize
NoCall == [req |-> None, res |-> "none", pc |-> "idle"]
At(t, pc) == call[t].pc = pc

Init ==
  /\ ring = [i \in Slots |-> None] /\ head = 0 /\ tail = 0
  /\ running = FALSE /\ cs = "none" /\ owner = None
  /\ worker = "none" /\ req = None /\ left = 0
  /\ phase = "attach" /\ wait = 0
  /\ call = [t \in Threads |-> NoCall]

Enter(a) == cs = "alive" /\ owner = None /\ owner' = a /\ UNCHANGED cs
Leave == owner' = None /\ UNCHANGED cs

-----------------------------------------------------------------------------
(* gb_shim_init, under the loader lock *)

(* Without the CUDA symbols it returns before the worker's part *)
Disable ==
  /\ phase = "attach"
  /\ phase' = "disabled"
  /\ UNCHANGED <<ringVars, lockVars, workerVars, running, wait, call>>

(* The flag follows the setting; CreateThread may still fail *)
Attach(legacy) ==
  /\ phase = "attach"
  /\ cs' = "alive"
  /\ running' = legacy
  /\ \/ legacy /\ worker' = "born"
     \/ UNCHANGED worker
  /\ phase' = "up"
  /\ UNCHANGED <<ringVars, owner, req, left, wait, call>>

-----------------------------------------------------------------------------
(* enqueue_prefetch *)

Ask(t, r) ==
  /\ phase = "up" /\ At(t, "idle")
  /\ call' = [call EXCEPT ![t].req = r, ![t].pc = "test"]
  /\ UNCHANGED <<ringVars, lockVars, workerVars, libVars>>

(* prefetch_running is read before the lock is taken *)
Test(t) ==
  /\ At(t, "test")
  /\ call' = [call EXCEPT ![t].res = IF running THEN "none" ELSE "dropped",
                          ![t].pc = IF running THEN "enter" ELSE "return"]
  /\ UNCHANGED <<ringVars, lockVars, workerVars, libVars>>

EnterToPut(t) ==
  /\ At(t, "enter") /\ Enter(t)
  /\ call' = [call EXCEPT ![t].pc = "put"]
  /\ UNCHANGED <<ringVars, workerVars, libVars>>

Wake == worker' = IF worker = "asleep" THEN "relock" ELSE worker
RingFull == Succ(head) = tail

(* mutant: a full ring is written over *)
PutOver(t) ==
  /\ At(t, "put")
  /\ ring' = [ring EXCEPT ![head] = call[t].req] /\ head' = Succ(head) /\ Wake
  /\ call' = [call EXCEPT ![t].res = "kept", ![t].pc = "leave"]
  /\ UNCHANGED <<tail, lockVars, req, left, libVars>>

(* mutant: the sleeping worker is not woken *)
PutQuietly(t) ==
  /\ At(t, "put")
  /\ \/ /\ ~RingFull
        /\ ring' = [ring EXCEPT ![head] = call[t].req] /\ head' = Succ(head)
        /\ UNCHANGED worker
        /\ call' = [call EXCEPT ![t].res = "kept", ![t].pc = "leave"]
     \/ /\ RingFull
        /\ call' = [call EXCEPT ![t].res = "dropped", ![t].pc = "leave"]
        /\ UNCHANGED <<ring, head, worker>>
  /\ UNCHANGED <<tail, lockVars, req, left, libVars>>

Put(t) ==
  /\ At(t, "put")
  /\ \/ /\ ~RingFull
        /\ ring' = [ring EXCEPT ![head] = call[t].req] /\ head' = Succ(head)
        /\ Wake
        /\ call' = [call EXCEPT ![t].res = "kept", ![t].pc = "leave"]
     \/ /\ RingFull
        /\ call' = [call EXCEPT ![t].res = "dropped", ![t].pc = "leave"]
        /\ UNCHANGED <<ring, head, worker>>
  /\ UNCHANGED <<tail, lockVars, req, left, libVars>>

LeaveAfterPut(t) ==
  /\ At(t, "leave") /\ Leave
  /\ call' = [call EXCEPT ![t].pc = "return"]
  /\ UNCHANGED <<ringVars, workerVars, libVars>>

Return(t) ==
  /\ At(t, "return")
  /\ call' = [call EXCEPT ![t] = NoCall]
  /\ UNCHANGED <<ringVars, lockVars, workerVars, libVars>>

-----------------------------------------------------------------------------
(* prefetch_worker *)

LoaderLockFree == phase \in {"up", "gone"}

(* A new thread passes through the loader before its first instruction *)
Begin ==
  /\ worker = "born" /\ LoaderLockFree
  /\ worker' = "loop"
  /\ UNCHANGED <<ringVars, lockVars, req, left, libVars, call>>

Loop ==
  /\ worker = "loop"
  /\ worker' = IF running THEN "enter" ELSE "leaving"
  /\ UNCHANGED <<ringVars, lockVars, req, left, libVars, call>>

(* Into the critical section, at first or after a sleep *)
EnterToTake ==
  /\ worker \in {"enter", "relock"} /\ Enter(Worker)
  /\ worker' = "test" /\ left' = 0
  /\ UNCHANGED <<ringVars, req, libVars, call>>

(* mutant: the inner loop does not look at prefetch_running *)
WhileEmptyOnly ==
  /\ worker = "test"
  /\ worker' = IF head = tail THEN "drowsy" ELSE "check"
  /\ UNCHANGED <<ringVars, lockVars, req, left, libVars, call>>

WhileEmpty ==
  /\ worker = "test"
  /\ worker' = IF head = tail /\ running THEN "drowsy" ELSE "check"
  /\ UNCHANGED <<ringVars, lockVars, req, left, libVars, call>>

(* SleepConditionVariableCS leaves the critical section and sleeps *)
Sleep ==
  /\ worker = "drowsy" /\ Leave
  /\ worker' = "asleep" /\ left' = Nap
  /\ UNCHANGED <<ringVars, req, libVars, call>>

(* The timeout, or for no reason *)
WakeUp ==
  /\ worker = "asleep"
  /\ worker' = "relock"
  /\ UNCHANGED <<ringVars, lockVars, req, left, libVars, call>>

Check ==
  /\ worker = "check"
  /\ \/ ~running /\ worker' = "leaving" /\ Leave
     \/ running /\ worker' = "take" /\ UNCHANGED lockVars
  /\ UNCHANGED <<ringVars, req, left, libVars, call>>

(* mutant: the critical section is not left *)
TakeAndHold ==
  /\ worker = "take"
  /\ req' = ring[tail] /\ tail' = Succ(tail)
  /\ worker' = "call" /\ left' = Busy
  /\ UNCHANGED <<ring, head, lockVars, libVars, call>>

(* The request is copied, and served outside of the critical section *)
Take ==
  /\ worker = "take" /\ Leave
  /\ req' = ring[tail] /\ tail' = Succ(tail)
  /\ worker' = "call" /\ left' = Busy
  /\ UNCHANGED <<ring, head, libVars, call>>

(* cuMemPrefetchAsync or PrefetchVirtualMemory returns *)
Served ==
  /\ worker = "call"
  /\ worker' = "loop" /\ req' = None /\ left' = 0
  /\ UNCHANGED <<ringVars, lockVars, libVars, call>>

(* The end of a thread passes through the loader as well *)
Exit ==
  /\ worker = "leaving" /\ LoaderLockFree
  /\ worker' = "exited"
  /\ UNCHANGED <<ringVars, lockVars, req, left, libVars, call>>

-----------------------------------------------------------------------------
(* DllMain at DLL_PROCESS_DETACH *)

HasThread == worker # "none"

Quiet == IF HasThread THEN worker # "born" ELSE \A t \in Threads : At(t, "idle")

(* FreeLibrary: gb_shim_cleanup removes the hooks; some may be under way *)
Detach ==
  /\ phase \in {"up", "disabled"}
  /\ QuietUnload => Quiet
  /\ phase' = IF HasThread THEN "stop" ELSE "delete"
  /\ UNCHANGED <<ringVars, lockVars, workerVars, running, wait, call>>

(* The flag is cleared outside of the critical section *)
Stop ==
  /\ phase = "stop"
  /\ running' = FALSE
  /\ phase' = "wake"
  /\ UNCHANGED <<ringVars, lockVars, workerVars, wait, call>>

WakeToStop ==
  /\ phase = "wake"
  /\ Wake
  /\ phase' = "wait" /\ wait' = StopWait
  /\ UNCHANGED <<ringVars, lockVars, req, left, running, call>>

(* mutant: the wait has no timeout *)
WaitedForever ==
  /\ phase = "wait" /\ worker = "exited"
  /\ phase' = "delete" /\ wait' = 0
  /\ UNCHANGED <<ringVars, lockVars, workerVars, running, call>>

(* The thread has ended, or the time is over *)
Waited ==
  /\ phase = "wait"
  /\ worker = "exited" \/ wait = 0
  /\ phase' = "delete" /\ wait' = 0
  /\ UNCHANGED <<ringVars, lockVars, workerVars, running, call>>

(* DeleteCriticalSection, whatever came before *)
Delete ==
  /\ phase = "delete"
  /\ cs' = "deleted"
  /\ phase' = "unmap"
  /\ UNCHANGED <<ringVars, owner, workerVars, running, wait, call>>

(* The loader takes the library's code and data away *)
Unmap ==
  /\ phase = "unmap"
  /\ phase' = "gone"
  /\ UNCHANGED <<ringVars, lockVars, workerVars, running, wait, call>>

-----------------------------------------------------------------------------
(* Time passes only while every thread sleeps, is in a call or has nothing  *)
(* to do                                                                    *)
Resting ==
  /\ \A t \in Threads : At(t, "idle")
  /\ worker \in {"none", "born", "leaving", "exited"} \/ (worker \in {"asleep", "call"} /\ left > 0)
  /\ phase \in {"up", "disabled", "gone"} \/ (phase = "wait" /\ wait > 0)

Less(n) == IF n = 0 THEN 0 ELSE n - 1

Tick ==
  /\ Resting
  /\ left' = Less(left) /\ wait' = Less(wait)
  /\ UNCHANGED <<ringVars, lockVars, worker, req, running, phase, call>>

Enqueue(t) == Test(t) \/ EnterToPut(t) \/ Put(t) \/ LeaveAfterPut(t) \/ Return(t)
Work == Begin \/ Loop \/ EnterToTake \/ WhileEmpty \/ Sleep \/ WakeUp \/ Check \/ Take \/ Served \/ Exit
Unload == Stop \/ WakeToStop \/ Waited \/ Delete \/ Unmap

Next ==
  \/ Disable \/ \E legacy \in BOOLEAN : Attach(legacy)
  \/ \E t \in Threads : Enqueue(t) \/ \E r \in Reqs : Ask(t, r)
  \/ Work \/ Detach \/ Unload \/ Tick

(* The scheduler runs every thread that can run, and time passes *)
Fairness ==
  /\ \A t \in Threads : WF_vars(Test(t) \/ Put(t) \/ LeaveAfterPut(t) \/ Return(t)) /\ SF_vars(EnterToPut(t))
  /\ WF_vars(Work) /\ SF_vars(EnterToTake)
  /\ WF_vars(Unload) /\ WF_vars(Tick)

Spec == Init /\ [][Next]_vars /\ Fairness
-----------------------------------------------------------------------------
(* Properties *)

WorkerStates == {"none", "born", "loop", "enter", "test", "drowsy", "asleep", "relock",
                 "check", "take", "call", "leaving", "exited"}
Phases == {"attach", "disabled", "up", "stop", "wake", "wait", "delete", "unmap", "gone"}
Calls == [req : Reqs \cup {None}, res : {"none", "kept", "dropped"},
          pc : {"idle", "test", "enter", "put", "leave", "return"}]

TypeOK ==
  /\ ring \in [Slots -> Reqs \cup {None}] /\ head \in Slots /\ tail \in Slots
  /\ running \in BOOLEAN /\ cs \in {"none", "alive", "deleted"}
  /\ owner \in Threads \cup {Worker, None}
  /\ worker \in WorkerStates /\ req \in Reqs \cup {None} /\ left \in Nat
  /\ phase \in Phases /\ wait \in Nat
  /\ call \in [Threads -> Calls]

(* prefetch_cs is there whenever a thread is about to enter it, in it or    *)
(* asleep on it, and nothing executes the library's code once the loader    *)
(* has taken it away: gb_shim_cleanup waits 5 s for a worker that naps for  *)
(* at most 1 s and whose calls are assumed to be shorter than the wait      *)
(* (lines 161-166, 1069-1076).  The worker's thread cannot end while the    *)
(* loader lock is held, so it is always the timeout that ends the wait.     *)
SectionOutlivesItsUsers ==
  cs # "alive" =>
    /\ worker \in {"none", "born", "loop", "call", "leaving", "exited"}
    /\ \A t \in Threads : call[t].pc \in {"idle", "test", "return"}

CodeOutlivesItsUsers ==
  phase = "gone" =>
    /\ worker \in {"none", "leaving", "exited"}
    /\ \A t \in Threads : At(t, "idle")

LibraryOutlivesItsUsers == SectionOutlivesItsUsers /\ CodeOutlivesItsUsers

(* The worker does not sleep while a request waits: it looks at the ring    *)
(* and goes to sleep without leaving the critical section in between, and   *)
(* who fills the ring wakes it (lines 160-163, 204-210).                    *)
NeverSleepsOnWork == worker \in {"drowsy", "asleep"} => head = tail

(* The ring is a queue of QueueSize - 1 requests, first in first out; a     *)
(* request is dropped only when it is full or the worker is told to stop    *)
(* (lines 199-211).                                                         *)
Used == IF head >= tail THEN head - tail ELSE head + QueueSize - tail
Waiting == [i \in 1 .. Used |-> ring[(tail + i - 1) % QueueSize]]
Asked == [t \in Threads |-> [req |-> call[t].req, res |-> call[t].res]]
Queue == INSTANCE RequestQueue WITH
  NoReq <- None, Room <- QueueSize - 1,
  queue <- Waiting, serving <- req, open <- running, call <- Asked
ImplementsRequestQueue == Queue!QSpec

(* What is in the ring is served as long as the library stays, when the     *)
(* worker's thread could be created (line 1036).                            *)
RequestsServed ==
  \A i \in Slots :
    (phase = "up" /\ HasThread /\ head # tail /\ tail = i) ~> (tail # i \/ phase # "up")

(* Unloading ends, and with it the worker's thread: the wait gives up on a  *)
(* thread that needs the loader lock to end (line 1072).                    *)
UnloadEnds == phase = "stop" ~> (phase = "gone" /\ worker = "exited")

(* gb_shim_cleanup deletes a critical section that was initialised.         *)
DeletesWhatExists == phase = "delete" => cs = "alive"
===============================================================================
