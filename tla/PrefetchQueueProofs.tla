-------------------------- MODULE PrefetchQueueProofs --------------------------
(***************************************************************************)
(* What the prefetch worker guarantees for any ring, any threads and any   *)
(* times.  That the ring is a bounded queue, and that the worker does not  *)
(* sleep on a request, depends on nothing; that the critical section       *)
(* outlives its users depends on the nap being shorter than the wait of    *)
(* the shutdown; that the code does, on the prefetch calls being shorter,  *)
(* too.                                                                    *)
(***************************************************************************)
EXTENDS PrefetchQueue, SequenceTheorems, TLAPS

Still == \A t \in Threads : call[t].pc = "idle"

(* The critical section has one owner, and who is in it knows it *)
LockInv ==
  /\ owner = Worker <=> worker \in {"test", "drowsy", "check", "take"}
  /\ \A t \in Threads : owner = t <=> call[t].pc \in {"put", "leave"}
  /\ phase \in {"up", "stop", "wake", "wait"} => cs = "alive"

(* Who may be where in each phase of the library *)
PhaseInv ==
  /\ phase \in {"attach", "disabled"} => worker = "none" /\ Still
  /\ phase \in {"stop", "wake", "wait"} => worker # "none"
  /\ phase \in {"up", "stop"} => worker = "none" \/ running
  /\ phase \in {"wake", "wait", "delete", "unmap", "gone"} => worker = "none" \/ ~running
  /\ worker \in {"leaving", "exited"} => phase \notin {"up", "stop"}
  /\ worker = "exited" => phase = "gone"

RingInv ==
  /\ NeverSleepsOnWork
  /\ worker \in {"take", "check"} => head # tail \/ ~running
  /\ worker = "take" => head # tail

(* What a call carries at each point, and what the worker serves *)
CallInv ==
  /\ worker # "call" => req = None
  /\ \A t \in Threads :
       /\ call[t].pc = "idle" => call[t] = NoCall
       /\ call[t].pc \in {"test", "enter", "put"} => call[t].req \in Reqs /\ call[t].res = "none"
       /\ call[t].pc \in {"leave", "return"} => call[t].req \in Reqs /\ call[t].res # "none"

IInv == TypeOK /\ LockInv /\ PhaseInv /\ RingInv /\ CallInv

(* A worker that is told to stop is out of the critical section before the  *)
(* wait is over, and time passes only when no hook is under way             *)
SectionInv ==
  /\ worker = "asleep" => left <= Nap
  /\ phase = "wait" =>
       /\ wait <= StopWait
       /\ wait < StopWait => Still
       /\ worker \in {"drowsy", "take"} => wait = StopWait
       /\ worker = "asleep" => left < wait
       /\ worker \in {"enter", "test", "relock", "check"} => wait > 0
  /\ phase \in {"delete", "unmap", "gone"} =>
       Still /\ worker \in {"none", "born", "loop", "call", "leaving", "exited"}

(* ... and out of the library, when its calls are shorter than the wait *)
CodeInv ==
  /\ worker = "call" => left <= Busy
  /\ phase = "wait" =>
       /\ worker = "call" => left < wait
       /\ worker = "loop" => wait > 0
  /\ phase \in {"delete", "unmap", "gone"} => worker \in {"none", "leaving", "exited"}
  /\ phase \notin {"attach", "disabled", "up"} => worker # "born"

(* What the unload is assumed to meet: without a worker to wait for, no     *)
(* hook that is under way                                                   *)
HooksLeave == Detach => HasThread \/ Still
QuietDetach == Detach => Quiet
-----------------------------------------------------------------------------
LEMMA SuccInSlots ==
  ASSUME NEW i \in Slots
  PROVE  Succ(i) \in Slots /\ Succ(i) = IF i + 1 = QueueSize THEN 0 ELSE i + 1
BY PrefetchAssumption DEF Slots, Succ

LEMMA InitInv == Init => IInv /\ SectionInv /\ CodeInv
<1> SUFFICES ASSUME Init PROVE IInv /\ SectionInv /\ CodeInv
  OBVIOUS
<1>1. TypeOK
  <2>1. 0 \in Slots /\ NoCall \in Calls
    BY PrefetchAssumption DEF Slots, NoCall, Calls
  <2> QED
    BY <2>1 DEF Init, TypeOK, WorkerStates, Phases
<1>2. LockInv /\ PhaseInv
  BY PrefetchAssumption DEF Init, LockInv, PhaseInv, NoCall, Still
<1>3. RingInv /\ CallInv /\ SectionInv /\ CodeInv
  BY DEF Init, RingInv, CallInv, SectionInv, CodeInv, NeverSleepsOnWork, NoCall
<1> QED
  BY <1>1, <1>2, <1>3 DEF IInv

LEMMA AskKeeps ==
  ASSUME IInv, NEW t \in Threads, NEW r \in Reqs, Ask(t, r)
  PROVE  IInv'
<1> USE PrefetchAssumption, SuccInSlots
    DEF IInv, TypeOK, LockInv, PhaseInv, RingInv, CallInv, NeverSleepsOnWork, Still,
        ringVars, lockVars, workerVars, libVars, At, Enter, Leave, Wake, Calls, NoCall, WorkerStates, Phases
<1>1. call[t].res = "none" /\ call[t].pc = "idle" /\ phase = "up"
  BY DEF Ask
<1>2. /\ call' \in [Threads -> Calls] /\ \A u \in Threads \ {t} : call'[u] = call[u]
      /\ call'[t].pc = "test" /\ call'[t].req = r /\ call'[t].res = "none"
  BY <1>1 DEF Ask
<1> QED
  BY <1>1, <1>2 DEF Ask

LEMMA EnqueueKeeps ==
  ASSUME IInv, NEW t \in Threads, Enqueue(t)
  PROVE  IInv'
<1> USE PrefetchAssumption, SuccInSlots
    DEF IInv, TypeOK, LockInv, PhaseInv, RingInv, CallInv, NeverSleepsOnWork, Still,
        ringVars, lockVars, workerVars, libVars, At, Enter, Leave, Wake, Calls, NoCall, WorkerStates, Phases
<1>1. CASE Test(t)
  BY <1>1 DEF Test
<1>2. CASE EnterToPut(t)
  BY <1>2 DEF EnterToPut
<1>3. CASE Put(t)
  BY <1>3 DEF Put, RingFull
<1>4. CASE LeaveAfterPut(t)
  BY <1>4 DEF LeaveAfterPut
<1>5. CASE Return(t)
  BY <1>5 DEF Return
<1> QED
  BY <1>1, <1>2, <1>3, <1>4, <1>5 DEF Enqueue

LEMMA WorkKeeps ==
  ASSUME IInv, Work
  PROVE  IInv'
<1> USE PrefetchAssumption, SuccInSlots
    DEF IInv, TypeOK, LockInv, PhaseInv, RingInv, CallInv, NeverSleepsOnWork, Still,
        ringVars, lockVars, workerVars, libVars, At, Enter, Leave, Wake, Calls, NoCall, WorkerStates, Phases
<1>1. CASE Begin
  BY <1>1 DEF Begin, LoaderLockFree
<1>2. CASE Loop
  BY <1>2 DEF Loop
<1>3. CASE EnterToTake
  BY <1>3 DEF EnterToTake
<1>4. CASE WhileEmpty
  BY <1>4 DEF WhileEmpty
<1>5. CASE Sleep
  BY <1>5 DEF Sleep
<1>6. CASE WakeUp
  BY <1>6 DEF WakeUp
<1>7. CASE Check
  BY <1>7 DEF Check
<1>8. CASE Take
  BY <1>8 DEF Take
<1>9. CASE Served
  BY <1>9 DEF Served
<1>10. CASE Exit
  BY <1>10 DEF Exit, LoaderLockFree
<1> QED
  BY <1>1, <1>2, <1>3, <1>4, <1>5, <1>6, <1>7, <1>8, <1>9, <1>10 DEF Work

LEMMA LibraryKeeps ==
  ASSUME IInv, Disable \/ (\E legacy \in BOOLEAN : Attach(legacy)) \/ Detach \/ Unload \/ Tick
  PROVE  IInv'
<1> USE PrefetchAssumption, SuccInSlots
    DEF IInv, TypeOK, LockInv, PhaseInv, RingInv, CallInv, NeverSleepsOnWork, Still,
        ringVars, lockVars, workerVars, libVars, At, Enter, Leave, Wake, Calls, NoCall, WorkerStates, Phases
<1>1. CASE Disable
  BY <1>1 DEF Disable
<1>2. CASE \E legacy \in BOOLEAN : Attach(legacy)
  BY <1>2 DEF Attach
<1>3. CASE Detach
  BY <1>3 DEF Detach, HasThread, HooksLeave, QuietDetach, Quiet
<1>4. CASE Stop
  BY <1>4 DEF Stop
<1>5. CASE WakeToStop
  BY <1>5 DEF WakeToStop
<1>6. CASE Waited
  BY <1>6 DEF Waited
<1>7. CASE Delete
  BY <1>7 DEF Delete
<1>8. CASE Unmap
  BY <1>8 DEF Unmap
<1>9. CASE Tick
  BY <1>9 DEF Tick, Resting, Less
<1> QED
  BY <1>1, <1>2, <1>3, <1>4, <1>5, <1>6, <1>7, <1>8, <1>9 DEF Unload

LEMMA StepInv ==
  ASSUME IInv, [Next]_vars
  PROVE  IInv'
<1>1. CASE UNCHANGED vars
  BY <1>1 DEF vars, ringVars, lockVars, workerVars, libVars, IInv, TypeOK, LockInv, PhaseInv,
              RingInv, CallInv, NeverSleepsOnWork, Still
<1>2. CASE Next
  BY <1>2, AskKeeps, EnqueueKeeps, WorkKeeps, LibraryKeeps DEF Next
<1> QED
  BY <1>1, <1>2

(* The invariant holds from the first state on *)
THEOREM Invariant == Spec => []IInv
<1>1. IInv /\ [Next]_vars => IInv'
  BY StepInv
<1> QED
  BY <1>1, InitInv, PTL DEF Spec

(* The worker never goes to sleep on a request, nor sleeps through one,     *)
(* whenever the library is unloaded and however long its calls take         *)
(* (lines 160-163, 204-210).                                                *)
THEOREM WakesForWork == Spec => []NeverSleepsOnWork
<1>1. IInv => NeverSleepsOnWork
  BY DEF IInv, RingInv
<1> QED
  BY <1>1, Invariant, PTL
-----------------------------------------------------------------------------
(* The critical section *)

LEMMA AskKeepsSection ==
  ASSUME IInv, IInv', SectionInv, HooksLeave, Nap < StopWait, NEW t \in Threads, NEW r \in Reqs, Ask(t, r)
  PROVE  SectionInv'
<1> USE PrefetchAssumption, SuccInSlots
    DEF IInv, TypeOK, LockInv, PhaseInv, RingInv, CallInv, NeverSleepsOnWork, Still, SectionInv,
        ringVars, lockVars, workerVars, libVars, At, Enter, Leave, Wake, Calls, NoCall, WorkerStates, Phases
<1>1. call[t].res = "none" /\ call[t].pc = "idle" /\ phase = "up"
  BY DEF Ask
<1>2. /\ call' \in [Threads -> Calls] /\ \A u \in Threads \ {t} : call'[u] = call[u]
      /\ call'[t].pc = "test" /\ call'[t].req = r /\ call'[t].res = "none"
  BY <1>1 DEF Ask
<1> QED
  BY <1>1, <1>2 DEF Ask

LEMMA EnqueueKeepsSection ==
  ASSUME IInv, IInv', SectionInv, HooksLeave, Nap < StopWait, NEW t \in Threads, Enqueue(t)
  PROVE  SectionInv'
<1> USE PrefetchAssumption, SuccInSlots
    DEF IInv, TypeOK, LockInv, PhaseInv, RingInv, CallInv, NeverSleepsOnWork, Still, SectionInv,
        ringVars, lockVars, workerVars, libVars, At, Enter, Leave, Wake, Calls, NoCall, WorkerStates, Phases
<1>1. CASE Test(t)
  BY <1>1 DEF Test
<1>2. CASE EnterToPut(t)
  BY <1>2 DEF EnterToPut
<1>3. CASE Put(t)
  BY <1>3 DEF Put, RingFull
<1>4. CASE LeaveAfterPut(t)
  BY <1>4 DEF LeaveAfterPut
<1>5. CASE Return(t)
  BY <1>5 DEF Return
<1> QED
  BY <1>1, <1>2, <1>3, <1>4, <1>5 DEF Enqueue

LEMMA WorkKeepsSection ==
  ASSUME IInv, IInv', SectionInv, HooksLeave, Nap < StopWait, Work
  PROVE  SectionInv'
<1> USE PrefetchAssumption, SuccInSlots
    DEF IInv, TypeOK, LockInv, PhaseInv, RingInv, CallInv, NeverSleepsOnWork, Still, SectionInv,
        ringVars, lockVars, workerVars, libVars, At, Enter, Leave, Wake, Calls, NoCall, WorkerStates, Phases
<1>1. CASE Begin
  BY <1>1 DEF Begin, LoaderLockFree
<1>2. CASE Loop
  BY <1>2 DEF Loop
<1>3. CASE EnterToTake
  BY <1>3 DEF EnterToTake
<1>4. CASE WhileEmpty
  BY <1>4 DEF WhileEmpty
<1>5. CASE Sleep
  BY <1>5 DEF Sleep
<1>6. CASE WakeUp
  BY <1>6 DEF WakeUp
<1>7. CASE Check
  BY <1>7 DEF Check
<1>8. CASE Take
  BY <1>8 DEF Take
<1>9. CASE Served
  BY <1>9 DEF Served
<1>10. CASE Exit
  BY <1>10 DEF Exit, LoaderLockFree
<1> QED
  BY <1>1, <1>2, <1>3, <1>4, <1>5, <1>6, <1>7, <1>8, <1>9, <1>10 DEF Work

LEMMA LibraryKeepsSection ==
  ASSUME IInv, IInv', SectionInv, HooksLeave, Nap < StopWait, Disable \/ (\E legacy \in BOOLEAN : Attach(legacy)) \/ Detach \/ Unload \/ Tick
  PROVE  SectionInv'
<1> USE PrefetchAssumption, SuccInSlots
    DEF IInv, TypeOK, LockInv, PhaseInv, RingInv, CallInv, NeverSleepsOnWork, Still, SectionInv,
        ringVars, lockVars, workerVars, libVars, At, Enter, Leave, Wake, Calls, NoCall, WorkerStates, Phases
<1>1. CASE Disable
  BY <1>1 DEF Disable
<1>2. CASE \E legacy \in BOOLEAN : Attach(legacy)
  BY <1>2 DEF Attach
<1>3. CASE Detach
  BY <1>3 DEF Detach, HasThread, HooksLeave, QuietDetach, Quiet
<1>4. CASE Stop
  BY <1>4 DEF Stop
<1>5. CASE WakeToStop
  BY <1>5 DEF WakeToStop
<1>6. CASE Waited
  BY <1>6 DEF Waited
<1>7. CASE Delete
  BY <1>7 DEF Delete
<1>8. CASE Unmap
  BY <1>8 DEF Unmap
<1>9. CASE Tick
  BY <1>9 DEF Tick, Resting, Less
<1> QED
  BY <1>1, <1>2, <1>3, <1>4, <1>5, <1>6, <1>7, <1>8, <1>9 DEF Unload

LEMMA StepSection ==
  ASSUME IInv, IInv', SectionInv, Nap < StopWait, [Next]_vars, [HooksLeave]_vars
  PROVE  SectionInv'
<1>1. CASE UNCHANGED vars
  BY <1>1 DEF vars, ringVars, lockVars, workerVars, libVars, SectionInv, Still
<1>2. CASE Next /\ ~UNCHANGED vars
  BY <1>2, AskKeepsSection, EnqueueKeepsSection, WorkKeepsSection, LibraryKeepsSection DEF Next
<1> QED
  BY <1>1, <1>2

(* prefetch_cs is there for the worker and for the hooks, as long as its    *)
(* nap is shorter than the wait of the shutdown and no hook is under way    *)
(* when there is no worker to wait for.  It takes neither a bound on the    *)
(* prefetch calls nor a worker that has begun: one that is late finds       *)
(* prefetch_running cleared before it needs the section                     *)
(* (lines 157-167, 1069-1076).                                              *)
THEOREM SectionStays ==
  ASSUME Nap < StopWait
  PROVE  Spec /\ [][HooksLeave]_vars => []SectionOutlivesItsUsers
<1>0. [](Nap < StopWait)
  BY PTL
<1>1. IInv /\ IInv' /\ SectionInv /\ Nap < StopWait /\ [Next]_vars /\ [HooksLeave]_vars => SectionInv'
  BY StepSection
<1>2. IInv /\ SectionInv => SectionOutlivesItsUsers
  BY DEF IInv, TypeOK, LockInv, PhaseInv, SectionInv, Still, WorkerStates, Phases, Calls,
         SectionOutlivesItsUsers
<1> QED
  BY <1>0, <1>1, <1>2, Invariant, InitInv, PTL DEF Spec
-----------------------------------------------------------------------------
(* The code *)

LEMMA AskKeepsCode ==
  ASSUME IInv, IInv', SectionInv, SectionInv', CodeInv, QuietDetach, Nap < StopWait, Busy < StopWait, NEW t \in Threads, NEW r \in Reqs, Ask(t, r)
  PROVE  CodeInv'
<1> USE PrefetchAssumption, SuccInSlots
    DEF IInv, TypeOK, LockInv, PhaseInv, RingInv, CallInv, NeverSleepsOnWork, Still, SectionInv, CodeInv,
        ringVars, lockVars, workerVars, libVars, At, Enter, Leave, Wake, Calls, NoCall, WorkerStates, Phases
<1>1. call[t].res = "none" /\ call[t].pc = "idle" /\ phase = "up"
  BY DEF Ask
<1>2. /\ call' \in [Threads -> Calls] /\ \A u \in Threads \ {t} : call'[u] = call[u]
      /\ call'[t].pc = "test" /\ call'[t].req = r /\ call'[t].res = "none"
  BY <1>1 DEF Ask
<1> QED
  BY <1>1, <1>2 DEF Ask

LEMMA EnqueueKeepsCode ==
  ASSUME IInv, IInv', SectionInv, SectionInv', CodeInv, QuietDetach, Nap < StopWait, Busy < StopWait, NEW t \in Threads, Enqueue(t)
  PROVE  CodeInv'
<1> USE PrefetchAssumption, SuccInSlots
    DEF IInv, TypeOK, LockInv, PhaseInv, RingInv, CallInv, NeverSleepsOnWork, Still, SectionInv, CodeInv,
        ringVars, lockVars, workerVars, libVars, At, Enter, Leave, Wake, Calls, NoCall, WorkerStates, Phases
<1>1. CASE Test(t)
  BY <1>1 DEF Test
<1>2. CASE EnterToPut(t)
  BY <1>2 DEF EnterToPut
<1>3. CASE Put(t)
  BY <1>3 DEF Put, RingFull
<1>4. CASE LeaveAfterPut(t)
  BY <1>4 DEF LeaveAfterPut
<1>5. CASE Return(t)
  BY <1>5 DEF Return
<1> QED
  BY <1>1, <1>2, <1>3, <1>4, <1>5 DEF Enqueue

LEMMA WorkKeepsCode ==
  ASSUME IInv, IInv', SectionInv, SectionInv', CodeInv, QuietDetach, Nap < StopWait, Busy < StopWait, Work
  PROVE  CodeInv'
<1> USE PrefetchAssumption, SuccInSlots
    DEF IInv, TypeOK, LockInv, PhaseInv, RingInv, CallInv, NeverSleepsOnWork, Still, SectionInv, CodeInv,
        ringVars, lockVars, workerVars, libVars, At, Enter, Leave, Wake, Calls, NoCall, WorkerStates, Phases
<1>1. CASE Begin
  BY <1>1 DEF Begin, LoaderLockFree
<1>2. CASE Loop
  BY <1>2 DEF Loop
<1>3. CASE EnterToTake
  BY <1>3 DEF EnterToTake
<1>4. CASE WhileEmpty
  BY <1>4 DEF WhileEmpty
<1>5. CASE Sleep
  BY <1>5 DEF Sleep
<1>6. CASE WakeUp
  BY <1>6 DEF WakeUp
<1>7. CASE Check
  BY <1>7 DEF Check
<1>8. CASE Take
  BY <1>8 DEF Take
<1>9. CASE Served
  BY <1>9 DEF Served
<1>10. CASE Exit
  BY <1>10 DEF Exit, LoaderLockFree
<1> QED
  BY <1>1, <1>2, <1>3, <1>4, <1>5, <1>6, <1>7, <1>8, <1>9, <1>10 DEF Work

LEMMA LibraryKeepsCode ==
  ASSUME IInv, IInv', SectionInv, SectionInv', CodeInv, QuietDetach, Nap < StopWait, Busy < StopWait, Disable \/ (\E legacy \in BOOLEAN : Attach(legacy)) \/ Detach \/ Unload \/ Tick
  PROVE  CodeInv'
<1> USE PrefetchAssumption, SuccInSlots
    DEF IInv, TypeOK, LockInv, PhaseInv, RingInv, CallInv, NeverSleepsOnWork, Still, SectionInv, CodeInv,
        ringVars, lockVars, workerVars, libVars, At, Enter, Leave, Wake, Calls, NoCall, WorkerStates, Phases
<1>1. CASE Disable
  BY <1>1 DEF Disable
<1>2. CASE \E legacy \in BOOLEAN : Attach(legacy)
  BY <1>2 DEF Attach
<1>3. CASE Detach
  BY <1>3 DEF Detach, HasThread, HooksLeave, QuietDetach, Quiet
<1>4. CASE Stop
  BY <1>4 DEF Stop
<1>5. CASE WakeToStop
  BY <1>5 DEF WakeToStop
<1>6. CASE Waited
  BY <1>6 DEF Waited
<1>7. CASE Delete
  BY <1>7 DEF Delete
<1>8. CASE Unmap
  BY <1>8 DEF Unmap
<1>9. CASE Tick
  BY <1>9 DEF Tick, Resting, Less
<1> QED
  BY <1>1, <1>2, <1>3, <1>4, <1>5, <1>6, <1>7, <1>8, <1>9 DEF Unload

LEMMA StepCode ==
  ASSUME IInv, IInv', SectionInv, SectionInv', CodeInv, Nap < StopWait, Busy < StopWait,
         [Next]_vars, [QuietDetach]_vars
  PROVE  CodeInv'
<1>1. CASE UNCHANGED vars
  BY <1>1 DEF vars, ringVars, lockVars, workerVars, libVars, CodeInv
<1>2. CASE Next /\ ~UNCHANGED vars
  BY <1>2, AskKeepsCode, EnqueueKeepsCode, WorkKeepsCode, LibraryKeepsCode DEF Next
<1> QED
  BY <1>1, <1>2

(* The critical section and the code of the library are there for whoever   *)
(* uses them, as long as neither a nap nor a prefetch call lasts as long as *)
(* the wait of the shutdown, and at every unload the worker has begun or,   *)
(* where there is none, no hook is under way: hooks may be, when there is a *)
(* worker to wait for (lines 157-213, 1069-1076).                           *)
THEOREM LibraryStays ==
  ASSUME Nap < StopWait, Busy < StopWait
  PROVE  Spec /\ [][QuietDetach]_vars => []LibraryOutlivesItsUsers
<1>0. [](Nap < StopWait /\ Busy < StopWait)
  BY PTL
<1>1. [QuietDetach]_vars => [HooksLeave]_vars
  BY DEF QuietDetach, HooksLeave, Quiet, Still, At
<1>2. IInv /\ IInv' /\ SectionInv /\ SectionInv' /\ CodeInv /\ (Nap < StopWait /\ Busy < StopWait)
        /\ [Next]_vars /\ [QuietDetach]_vars => CodeInv'
  BY StepCode
<1>3. IInv /\ IInv' /\ SectionInv /\ Nap < StopWait /\ [Next]_vars /\ [HooksLeave]_vars => SectionInv'
  BY StepSection
<1>4. IInv /\ SectionInv /\ CodeInv => LibraryOutlivesItsUsers
  BY DEF IInv, TypeOK, LockInv, PhaseInv, SectionInv, CodeInv, Still, At, WorkerStates, Phases, Calls,
         LibraryOutlivesItsUsers, SectionOutlivesItsUsers, CodeOutlivesItsUsers
<1> QED
  BY <1>0, <1>1, <1>2, <1>3, <1>4, Invariant, InitInv, PTL DEF Spec
-----------------------------------------------------------------------------
(* The ring as a queue *)

LEMMA Position ==
  ASSUME NEW i \in Slots, NEW k \in Slots
  PROVE  (i + k) % QueueSize = IF i + k < QueueSize THEN i + k ELSE i + k - QueueSize
BY PrefetchAssumption DEF Slots

(* The same ring, head and tail before and after a step *)
Count(h, t) == IF h >= t THEN h - t ELSE h + QueueSize - t
Place(t, k) == IF t + k < QueueSize THEN t + k ELSE t + k - QueueSize
Content(r, h, t) == [i \in 1 .. Count(h, t) |-> r[(t + i - 1) % QueueSize]]
Rings == [Slots -> Reqs \cup {None}]

LEMMA ContentIsASeq ==
  ASSUME NEW r \in Rings, NEW h \in Slots, NEW t \in Slots
  PROVE  /\ Count(h, t) \in 0 .. QueueSize - 1
         /\ Content(r, h, t) \in Seq(Reqs \cup {None})
         /\ Len(Content(r, h, t)) = Count(h, t)
         /\ \A i \in 1 .. Count(h, t) : /\ Place(t, i - 1) \in Slots
                                      /\ Content(r, h, t)[i] = r[Place(t, i - 1)]
<1>1. Count(h, t) \in 0 .. QueueSize - 1
  BY PrefetchAssumption DEF Slots, Count
<1>2. \A i \in 1 .. Count(h, t) :
        Place(t, i - 1) \in Slots /\ (t + i - 1) % QueueSize = Place(t, i - 1)
  <2> TAKE i \in 1 .. Count(h, t)
  <2>1. i - 1 \in Slots /\ t + i - 1 = t + (i - 1)
    BY <1>1, PrefetchAssumption DEF Slots
  <2>2. (t + (i - 1)) % QueueSize = Place(t, i - 1)
    BY <2>1, Position DEF Place
  <2>3. Place(t, i - 1) \in Slots
    BY <2>1, PrefetchAssumption DEF Slots, Place
  <2> QED
    BY <2>1, <2>2, <2>3
<1>3. \A i \in 1 .. Count(h, t) : r[(t + i - 1) % QueueSize] \in Reqs \cup {None}
  BY <1>2 DEF Rings
<1>4. Content(r, h, t) \in Seq(Reqs \cup {None}) /\ Len(Content(r, h, t)) = Count(h, t)
  BY <1>1, <1>3, IsASeq DEF Content
<1> QED
  BY <1>1, <1>2, <1>4 DEF Content

LEMMA ContentAt ==
  ASSUME NEW r \in Rings, NEW h \in Slots, NEW t \in Slots, NEW i \in 1 .. Count(h, t)
  PROVE  /\ Place(t, i - 1) \in Slots
         /\ Content(r, h, t)[i] = r[Place(t, i - 1)]
BY ContentIsASeq

(* A request written at the head is appended *)
LEMMA ContentAppend ==
  ASSUME NEW r \in Rings, NEW h \in Slots, NEW t \in Slots, NEW x \in Reqs, Succ(h) # t
  PROVE  /\ Count(h, t) < QueueSize - 1
         /\ Content([r EXCEPT ![h] = x], Succ(h), t) = Append(Content(r, h, t), x)
<1> DEFINE s == [r EXCEPT ![h] = x]
           n == Count(h, t)
           old == Content(r, h, t)
           new == Content(s, Succ(h), t)
<1>1. s \in Rings /\ Succ(h) \in Slots
  BY SuccInSlots DEF Rings
<1>2. n \in Nat /\ n < QueueSize - 1 /\ Count(Succ(h), t) = n + 1
  BY SuccInSlots, PrefetchAssumption DEF Slots, Count
<1>3. old \in Seq(Reqs \cup {None}) /\ Len(old) = n
  BY ContentIsASeq
<1>4. new \in Seq(Reqs \cup {None}) /\ Len(new) = n + 1
  BY <1>1, <1>2, ContentIsASeq
<1>5. \A i \in 1 .. n : new[i] = old[i]
  <2> TAKE i \in 1 .. n
  <2>1. Place(t, i - 1) \in Slots /\ old[i] = r[Place(t, i - 1)]
    BY ContentAt
  <2>2. new[i] = s[Place(t, i - 1)]
    <3>1. i \in 1 .. Count(Succ(h), t)
      BY <1>2
    <3> QED
      BY <1>1, <3>1, ContentAt
  <2>3. Place(t, i - 1) # h
    BY PrefetchAssumption, <1>2 DEF Place, Slots, Count
  <2> QED
    BY <2>1, <2>2, <2>3 DEF Rings
<1>6. new[n + 1] = x
  <2>1. Place(t, n) = h
    BY PrefetchAssumption DEF Place, Slots, Count
  <2>2. new[n + 1] = s[Place(t, n)]
    <3>1. PICK i \in 1 .. Count(Succ(h), t) : i = n + 1
      BY <1>2
    <3>2. new[i] = s[Place(t, i - 1)]
      BY <1>1, ContentAt
    <3>3. i - 1 = n
      BY <1>2, <3>1
    <3> HIDE DEF new, s, n
    <3> QED
      BY <3>1, <3>2, <3>3
  <2> QED
    BY <2>1, <2>2 DEF Rings
<1>7. /\ Append(old, x) \in Seq(Reqs \cup {None}) /\ Len(Append(old, x)) = n + 1
      /\ \A i \in 1 .. n : Append(old, x)[i] = old[i]
      /\ Append(old, x)[n + 1] = x
  BY <1>3, AppendProperties
<1>8. \A i \in 1 .. n + 1 : new[i] = Append(old, x)[i]
  <2> HIDE DEF new, old, n
  <2> TAKE i \in 1 .. n + 1
  <2>1. i \in 1 .. n \/ i = n + 1
    BY <1>2
  <2> QED
    BY <2>1, <1>5, <1>6, <1>7
<1> QED
  BY <1>2, <1>4, <1>7, <1>8, SeqEqual

(* What is read at the tail is the first, and the rest stays *)
LEMMA ContentTail ==
  ASSUME NEW r \in Rings, NEW h \in Slots, NEW t \in Slots, h # t
  PROVE  /\ Content(r, h, t) # << >>
         /\ Head(Content(r, h, t)) = r[t]
         /\ Content(r, h, Succ(t)) = Tail(Content(r, h, t))
<1> DEFINE n == Count(h, t)
           old == Content(r, h, t)
           new == Content(r, h, Succ(t))
<1>1. n \in Nat /\ n > 0 /\ n < QueueSize /\ Count(h, Succ(t)) = n - 1 /\ Succ(t) \in Slots
  BY SuccInSlots, PrefetchAssumption DEF Slots, Count
<1>2. old \in Seq(Reqs \cup {None}) /\ Len(old) = n /\ old # << >>
  BY <1>1, ContentIsASeq
<1>3. new \in Seq(Reqs \cup {None}) /\ Len(new) = n - 1
  BY <1>1, ContentIsASeq
<1>4. old[1] = r[t]
  <2>1. Place(t, 1 - 1) = t
    BY PrefetchAssumption DEF Place, Slots
  <2>2. old[1] = r[Place(t, 1 - 1)]
    BY <1>1, ContentIsASeq
  <2> QED
    BY <2>1, <2>2
<1>5. \A i \in 1 .. n - 1 : new[i] = old[i + 1]
  <2> TAKE i \in 1 .. n - 1
  <2>1. old[i + 1] = r[Place(t, i + 1 - 1)]
    <3>1. i + 1 \in 1 .. Count(h, t)
      BY <1>1
    <3> QED
      BY <3>1, ContentAt
  <2>2. new[i] = r[Place(Succ(t), i - 1)]
    <3>1. i \in 1 .. Count(h, Succ(t))
      BY <1>1
    <3> QED
      BY <1>1, <3>1, ContentAt
  <2>3. Place(t, i + 1 - 1) = Place(Succ(t), i - 1)
    BY <1>1, SuccInSlots, PrefetchAssumption DEF Place, Slots
  <2> QED
    BY <2>1, <2>2, <2>3
<1>6. /\ Tail(old) \in Seq(Reqs \cup {None}) /\ Len(Tail(old)) = n - 1 /\ Head(old) = old[1]
      /\ \A i \in 1 .. n - 1 : Tail(old)[i] = old[i + 1]
  BY <1>2, HeadTailProperties
<1>7. new = Tail(old)
  BY <1>3, <1>5, <1>6, SeqEqual
<1> QED
  BY <1>2, <1>4, <1>6, <1>7
-----------------------------------------------------------------------------
(* Every step is one of the abstract queue's, or leaves it as it is *)

LEMMA WaitingIsContent ==
  /\ Waiting = Content(ring, head, tail)
  /\ Waiting' = Content(ring', head', tail')
BY DEF Waiting, Used, Content, Count

LEMMA RingUnchanged ==
  ASSUME UNCHANGED ringVars
  PROVE  Waiting' = Waiting
BY WaitingIsContent DEF ringVars

(* Where a call is does not show in the queue *)
LEMMA AskedKept ==
  ASSUME call \in [Threads -> Calls], NEW t \in Threads, NEW pc, call' = [call EXCEPT ![t].pc = pc]
  PROVE  Asked' = Asked
BY DEF Asked, Calls

LEMMA Pending ==
  ASSUME IInv, NEW t \in Threads, call[t].pc \in {"test", "put"}
  PROVE  Queue!Pending(t)
BY PrefetchAssumption DEF IInv, CallInv, TypeOK, Queue!Pending, Asked

(* A request that is turned away, with the queue closed or full *)
LEMMA TurnedAway ==
  ASSUME IInv, NEW t \in Threads, call[t].pc \in {"test", "put"},
         ~running \/ Len(Waiting) = QueueSize - 1,
         Asked' = [Asked EXCEPT ![t].res = "dropped"],
         UNCHANGED <<ringVars, req, running>>
  PROVE  Queue!TurnAway(t)
BY Pending, RingUnchanged DEF Queue!TurnAway, Queue!Reply

LEMMA TestStep ==
  ASSUME IInv, NEW t \in Threads, Test(t)
  PROVE  [Queue!QNext]_(Queue!qvars)
<1>1. call \in [Threads -> Calls] /\ UNCHANGED <<ringVars, req, running>>
  BY DEF IInv, TypeOK, Test, workerVars, libVars
<1>2. CASE running
  <2>1. call' = [call EXCEPT ![t].res = "none", ![t].pc = "enter"] /\ call[t].res = "none"
    BY <1>2 DEF Test, At, IInv, CallInv
  <2>2. Asked' = Asked
    BY <1>1, <2>1 DEF Asked, Calls
  <2> QED
    BY <1>1, <2>2, RingUnchanged DEF Queue!qvars
<1>3. CASE ~running
  <2>1. call[t].pc = "test" /\ call' = [call EXCEPT ![t].res = "dropped", ![t].pc = "return"]
    BY <1>3 DEF Test, At
  <2>2. Asked' = [Asked EXCEPT ![t].res = "dropped"]
    BY <1>1, <2>1 DEF Asked, Calls
  <2>3. Queue!TurnAway(t)
    BY <1>1, <1>3, <2>1, <2>2, TurnedAway
  <2> QED
    BY <2>3 DEF Queue!QNext
<1> QED
  BY <1>2, <1>3

LEMMA PutStep ==
  ASSUME IInv, NEW t \in Threads, Put(t)
  PROVE  Queue!QNext
<1>1. /\ call \in [Threads -> Calls] /\ ring \in Rings /\ head \in Slots /\ tail \in Slots
      /\ call[t].pc = "put" /\ call[t].req \in Reqs
      /\ UNCHANGED <<tail, req, running>>
  BY DEF IInv, TypeOK, CallInv, Put, At, Rings, libVars
<1>2. CASE ~RingFull
  <2>1. /\ ring' = [ring EXCEPT ![head] = call[t].req] /\ head' = Succ(head)
        /\ call' = [call EXCEPT ![t].res = "kept", ![t].pc = "leave"]
    BY <1>2 DEF Put
  <2>2. /\ Len(Waiting) < QueueSize - 1
        /\ Waiting' = Append(Waiting, call[t].req)
    BY <1>1, <1>2, <2>1, ContentAppend, ContentIsASeq, WaitingIsContent DEF RingFull
  <2>3. Asked' = [Asked EXCEPT ![t].res = "kept"] /\ Asked[t].req = call[t].req
    BY <1>1, <2>1 DEF Asked, Calls
  <2>4. Queue!Pending(t)
    BY <1>1, Pending
  <2>5. Queue!Keep(t)
    BY <1>1, <2>2, <2>3, <2>4 DEF Queue!Keep, Queue!Reply
  <2> QED
    BY <2>5 DEF Queue!QNext
<1>3. CASE RingFull
  <2>1. call' = [call EXCEPT ![t].res = "dropped", ![t].pc = "leave"] /\ UNCHANGED ringVars
    BY <1>1, <1>3 DEF Put, ringVars
  <2>2. Len(Waiting) = QueueSize - 1
    <3>1. Count(head, tail) = QueueSize - 1
      BY <1>1, <1>3, SuccInSlots, PrefetchAssumption DEF RingFull, Count, Slots
    <3> QED
      BY <1>1, <3>1, ContentIsASeq, WaitingIsContent
  <2>3. Asked' = [Asked EXCEPT ![t].res = "dropped"]
    BY <1>1, <2>1 DEF Asked, Calls
  <2>4. Queue!TurnAway(t)
    BY <1>1, <2>1, <2>2, <2>3, TurnedAway
  <2> QED
    BY <2>4 DEF Queue!QNext
<1> QED
  BY <1>2, <1>3

LEMMA ReturnStep ==
  ASSUME IInv, NEW t \in Threads, Return(t)
  PROVE  Queue!QNext
<1>1. call \in [Threads -> Calls] /\ call[t].res # "none" /\ UNCHANGED <<ringVars, req, running>>
  BY DEF IInv, TypeOK, CallInv, Return, At, workerVars, libVars
<1>2. Asked' = [Asked EXCEPT ![t] = Queue!NoCall] /\ Asked[t].res # "none"
  BY <1>1 DEF Return, Asked, NoCall, Queue!NoCall, Calls
<1>3. Queue!QReturn(t)
  BY <1>1, <1>2, RingUnchanged DEF Queue!QReturn
<1> QED
  BY <1>3 DEF Queue!QNext

LEMMA AskStep ==
  ASSUME IInv, NEW t \in Threads, NEW r \in Reqs, Ask(t, r)
  PROVE  Queue!QNext
<1>1. call \in [Threads -> Calls] /\ call[t] = NoCall /\ UNCHANGED <<ringVars, req, running>>
  BY DEF IInv, TypeOK, CallInv, Ask, At, workerVars, libVars
<1>2. Asked[t] = Queue!NoCall
  BY <1>1 DEF Asked, NoCall, Queue!NoCall
<1>3. Asked' = [Asked EXCEPT ![t].req = r]
  BY <1>1 DEF Ask, Asked, Calls
<1>4. Queue!Ask(t, r)
  BY <1>1, <1>2, <1>3, RingUnchanged DEF Queue!Ask
<1> QED
  BY <1>4 DEF Queue!QNext

LEMMA TakeStep ==
  ASSUME IInv, Take
  PROVE  Queue!QNext
<1>1. /\ ring \in Rings /\ head \in Slots /\ tail \in Slots /\ head # tail /\ req = None
      /\ req' = ring[tail] /\ tail' = Succ(tail)
      /\ UNCHANGED <<ring, head, running, call>>
  BY DEF IInv, TypeOK, RingInv, CallInv, Take, Rings, libVars
<1>2. Waiting # << >> /\ Head(Waiting) = ring[tail] /\ Waiting' = Tail(Waiting)
  BY <1>1, ContentTail, WaitingIsContent
<1>3. Asked' = Asked
  BY <1>1 DEF Asked
<1>4. Queue!Serve
  BY <1>1, <1>2, <1>3 DEF Queue!Serve
<1> QED
  BY <1>4 DEF Queue!QNext

LEMMA ServedStep ==
  ASSUME Served
  PROVE  [Queue!QNext]_(Queue!qvars)
<1>1. req' = None /\ UNCHANGED <<ringVars, running, call>>
  BY DEF Served, libVars
<1>2. Asked' = Asked /\ Waiting' = Waiting
  BY <1>1, RingUnchanged DEF Asked
<1> QED
  BY <1>1, <1>2 DEF Queue!QNext, Queue!Finish, Queue!qvars

LEMMA SwitchStep ==
  ASSUME IInv, running' \in BOOLEAN, UNCHANGED <<ringVars, req, call>>
  PROVE  [Queue!QNext]_(Queue!qvars)
<1>1. Asked' = Asked /\ Waiting' = Waiting /\ running \in BOOLEAN
  BY RingUnchanged DEF Asked, IInv, TypeOK
<1> QED
  BY <1>1 DEF Queue!QNext, Queue!Switch, Queue!qvars

LEMMA QueueStep ==
  ASSUME IInv, [Next]_vars
  PROVE  [Queue!QNext]_(Queue!qvars)
<1>1. CASE \E t \in Threads : Enqueue(t) \/ \E r \in Reqs : Ask(t, r)
  <2>1. PICK t \in Threads : Enqueue(t) \/ \E r \in Reqs : Ask(t, r)
    BY <1>1
  <2>2. CASE EnterToPut(t) \/ LeaveAfterPut(t)
    <3>1. call \in [Threads -> Calls] /\ UNCHANGED <<ringVars, req, running>>
      BY <2>2 DEF IInv, TypeOK, EnterToPut, LeaveAfterPut, workerVars, libVars
    <3>2. Asked' = Asked
      BY <2>2, <3>1, AskedKept DEF EnterToPut, LeaveAfterPut
    <3> QED
      BY <3>1, <3>2, RingUnchanged DEF Queue!qvars
  <2> QED
    BY <2>1, <2>2, TestStep, PutStep, ReturnStep, AskStep DEF Enqueue
<1>2. CASE Disable \/ (\E legacy \in BOOLEAN : Attach(legacy)) \/ Detach \/ Unload \/ Tick \/ UNCHANGED vars
  <2>1. running' \in BOOLEAN /\ UNCHANGED <<ringVars, req, call>>
    BY <1>2 DEF IInv, TypeOK, Disable, Attach, Detach, Unload, Stop, WakeToStop, Waited, Delete, Unmap,
                Tick, vars, workerVars, libVars
  <2> QED
    BY <2>1, SwitchStep
<1>3. CASE Work
  <2>1. CASE Begin \/ Loop \/ EnterToTake \/ WhileEmpty \/ Sleep \/ WakeUp \/ Check \/ Exit
    <3>1. running' \in BOOLEAN /\ UNCHANGED <<ringVars, req, call>>
      BY <2>1 DEF IInv, TypeOK, Begin, Loop, EnterToTake, WhileEmpty, Sleep, WakeUp, Check, Exit, libVars
    <3> QED
      BY <3>1, SwitchStep
  <2> QED
    BY <1>3, <2>1, TakeStep, ServedStep DEF Work
<1> QED
  BY <1>1, <1>2, <1>3 DEF Next

(* The prefetch ring implements the bounded queue for any size and any      *)
(* threads, whenever the library is unloaded, up to where a thread would    *)
(* enter a deleted critical section (lines 199-211)                         *)
THEOREM RingIsAQueue == Spec => ImplementsRequestQueue
<1>1. Init => Queue!QInit
  <2> SUFFICES ASSUME Init PROVE Queue!QInit
    OBVIOUS
  <2>1. ring = [i \in Slots |-> None] /\ head = 0 /\ tail = 0 /\ 0 \in Slots
    BY PrefetchAssumption DEF Init, Slots
  <2>2. Used = 0
    BY <2>1 DEF Used
  <2>3. Waiting = << >>
    BY <2>2, EmptySeq DEF Waiting
  <2>4. Asked = [t \in Threads |-> Queue!NoCall]
    BY DEF Init, Asked, NoCall, Queue!NoCall
  <2> QED
    BY <2>3, <2>4 DEF Init, Queue!QInit
<1>2. IInv /\ [Next]_vars => [Queue!QNext]_(Queue!qvars)
  BY QueueStep
<1> QED
  BY <1>1, <1>2, Invariant, PTL DEF Spec, ImplementsRequestQueue, Queue!QSpec
================================================================================
