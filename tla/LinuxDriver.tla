----------------------------- MODULE LinuxDriver -----------------------------
(***************************************************************************)
(* greenboost.c: the Linux module's buffers.  A buffer lives as long as    *)
(* somebody holds its DMA-BUF; the IDR and the LRU list point at it        *)
(* without holding it.  System calls run in parallel, and a step is what   *)
(* runs under one lock, or one access outside of them.                     *)
(*                                                                         *)
(* Beside the buffers stands the pressure event: the eventfd that POLL_FD  *)
(* registers and the watchdog signals.                                     *)
(***************************************************************************)
EXTENDS Integers, FiniteSets

CONSTANTS
  Threads,     \* tasks that may be in a system call
  OpsOf,       \* the calls each task issues
  Bufs,        \* struct gb_buf
  NoBuf,       \* NULL
  MaxRefs,     \* bound: references to one DMA-BUF held outside of the module
  Careful,     \* clients name a buffer only while they hold it, in one call at a time
  Sizes,       \* requested sizes, in pages
  Huge,        \* GB_HPAGES_PER
  PoolCap,     \* virtual_vram_gb in pages
  NvmeCap,     \* nvme_pool_gb in pages
  ExportFails, \* dma_buf_export may run out of memory
  Events,      \* eventfd contexts of the clients
  NoEvent      \* NULL

Ids == 1 .. Cardinality(Bufs)
Buffer == [tier : {2, 3}, kind : {"huge", "small", "user"}, id : Ids \cup {0}, size : Nat]

ASSUME LinuxDriverAssumption ==
  /\ IsFiniteSet(Bufs)
  /\ MaxRefs \in Nat \ {0} /\ Sizes \subseteq Nat \ {0} /\ Huge \in Nat \ {0}
  /\ PoolCap \in Nat /\ NvmeCap \in Nat
  /\ Careful \in BOOLEAN /\ ExportFails \in BOOLEAN
  /\ NoBuf \notin Bufs \cup Buffer /\ NoEvent \notin Events

VARIABLES
  heap,     \* gb_buf per descriptor, NoBuf while it is not allocated
  idr,      \* gb_dev.idr
  active,   \* active_bufs
  pool,     \* pool_allocated
  nvme,     \* nvme_allocated
  lru,      \* buffers linked into lru_list; no code reads its order
  refs,     \* descriptors, mappings and attachments that hold each DMA-BUF
  call,     \* the call each task is in
  loaded,   \* the module is loaded
  event,    \* pressure_efd
  taken,    \* references the module holds on each context
  exists,   \* contexts whose descriptor the client has open
  pressure, \* swap_pressure: is it higher than OK
  watchdog, \* where the watchdog is
  target    \* the context it is about to signal

bufVars == <<heap, idr, lru, refs>>
counters == <<active, pool, nvme>>
eventVars == <<event, taken, exists>>
watchVars == <<pressure, watchdog, target>>
vars == <<bufVars, counters, call, loaded, eventVars, watchVars>>

NoCall == [op |-> "none", pc |-> "idle", buf |-> NoBuf, id |-> 0, size |-> 0, event |-> NoEvent]

Live == {b \in Bufs : heap[b] # NoBuf}
At(t, label) == call[t].pc = label
Reaches(t, label) == At(t, label) /\ call[t].buf \in Live
Buf(t) == heap[call[t].buf]
Goto(t, label) == call' = [call EXCEPT ![t].pc = label]
Done(t) == call' = [call EXCEPT ![t] = NoCall]
Quiet == \A t \in Threads : At(t, "idle")

Init ==
  /\ heap = [b \in Bufs |-> NoBuf]
  /\ idr = [i \in Ids |-> NoBuf]
  /\ active = 0 /\ pool = 0 /\ nvme = 0
  /\ lru = {}
  /\ refs = [b \in Bufs |-> 0]
  /\ call = [t \in Threads |-> NoCall]
  /\ loaded = TRUE
  /\ event = NoEvent
  /\ taken = [e \in Events |-> 0]
  /\ exists = Events
  /\ pressure = FALSE
  /\ watchdog = "sleep" /\ target = NoEvent

-----------------------------------------------------------------------------
(* What clients ask for *)

Idle(t) == At(t, "idle") /\ loaded /\ \A u \in Threads : call[u].op # "exit"
Unused(b) == \A u \in Threads : call[u].buf # b /\ (call[u].id # 0 => idr[call[u].id] # b)
Ask(t, op, label, b, id, n, e) ==
  call' = [call EXCEPT ![t] = [op |-> op, pc |-> label, buf |-> b, id |-> id,
                               size |-> n, event |-> e]]

AskMemory(t) ==
  /\ Idle(t)
  /\ \E op \in OpsOf[t] \cap {"alloc", "pin"}, n \in Sizes : Ask(t, op, "take", NoBuf, 0, n, NoEvent)
  /\ UNCHANGED <<bufVars, counters, loaded, eventVars, watchVars>>

AskBuffer(t) ==
  /\ Idle(t)
  /\ \E op \in OpsOf[t] \cap {"madvise", "evict"}, id \in Ids :
       /\ Careful => idr[id] # NoBuf /\ refs[idr[id]] > 0 /\ Unused(idr[id])
       /\ Ask(t, op, "lookup", NoBuf, id, 0, NoEvent)
  /\ UNCHANGED <<bufVars, counters, loaded, eventVars, watchVars>>

AskPoll(t) ==
  /\ Idle(t) /\ "poll" \in OpsOf[t]
  /\ \E e \in exists : Ask(t, "poll", "get", NoBuf, 0, 0, e)
  /\ UNCHANGED <<bufVars, counters, loaded, eventVars, watchVars>>

(* dup, mmap, or an attachment of the GPU *)
Share(b) ==
  /\ b \in Live /\ refs[b] \in 1 .. MaxRefs - 1
  /\ refs' = [refs EXCEPT ![b] = @ + 1]
  /\ UNCHANGED <<heap, idr, lru, counters, call, loaded, eventVars, watchVars>>

(* The last reference to go calls gb_release *)
Drop(t, b) ==
  /\ Idle(t) /\ refs[b] > 0
  /\ Careful => Unused(b)
  /\ refs' = [refs EXCEPT ![b] = @ - 1]
  /\ IF refs[b] = 1 THEN Ask(t, "close", "unlink", b, 0, 0, NoEvent) ELSE UNCHANGED call
  /\ UNCHANGED <<heap, idr, lru, counters, loaded, eventVars, watchVars>>

CloseEvent(e) ==
  /\ e \in exists
  /\ exists' = exists \ {e}
  /\ UNCHANGED <<bufVars, counters, call, loaded, event, taken, watchVars>>

-----------------------------------------------------------------------------
(* ALLOC and PIN_USER_PTR *)

Pages(n, kind) == IF kind = "huge" THEN ((n + Huge - 1) \div Huge) * Huge ELSE n

(* gb_alloc_buf and gb_pin_user_buf up to the accounting: the caps are read *)
(* here.  The reserve check and every allocation may fail, and huge pages   *)
(* fall back to small ones.                                                 *)
Take(t) ==
  /\ At(t, "take")
  /\ \/ Done(t) /\ UNCHANGED heap
     \/ \E b \in Bufs \ Live, tier \in {2, 3}, kind \in {"huge", "small", "user"} :
          /\ IF tier = 2 THEN pool + call[t].size <= PoolCap
             ELSE pool + call[t].size > PoolCap /\ nvme + call[t].size <= NvmeCap
          /\ (kind = "user") = (call[t].op = "pin")
          /\ tier = 3 => kind = "small"
          /\ heap' = [heap EXCEPT ![b] = [tier |-> tier, kind |-> kind, id |-> 0,
                                          size |-> Pages(call[t].size, kind)]]
          /\ call' = [call EXCEPT ![t].buf = b, ![t].pc = "account"]
  /\ UNCHANGED <<idr, lru, refs, counters, loaded, eventVars, watchVars>>

(* Every new buffer is linked, whatever its tier *)
Account(t) ==
  /\ Reaches(t, "account")
  /\ IF Buf(t).tier = 3 THEN nvme' = nvme + Buf(t).size /\ UNCHANGED pool
     ELSE pool' = pool + Buf(t).size /\ UNCHANGED nvme
  /\ active' = active + 1
  /\ lru' = lru \cup {call[t].buf}
  /\ Goto(t, "export")
  /\ UNCHANGED <<heap, idr, refs, loaded, eventVars, watchVars>>

(* A failed export takes the bytes from the pool, gives single pages back,  *)
(* which a buffer of huge pages has none of, and leaves the buffer linked   *)
Export(t) ==
  /\ Reaches(t, "export")
  /\ \/ Goto(t, "register") /\ UNCHANGED <<heap, active, pool>>
     \/ /\ ExportFails
        /\ active' = active - 1
        /\ pool' = pool - Buf(t).size
        /\ IF Buf(t).kind = "huge" THEN Goto(t, "fault") /\ UNCHANGED heap
           ELSE heap' = [heap EXCEPT ![call[t].buf] = NoBuf] /\ Done(t)
  /\ UNCHANGED <<idr, lru, refs, nvme, loaded, eventVars, watchVars>>

(* idr_alloc takes the lowest free id; without one the DMA-BUF is put *)
Register(t) ==
  /\ Reaches(t, "register")
  /\ \/ \E id \in Ids :
        /\ idr[id] = NoBuf /\ \A i \in Ids : i < id => idr[i] # NoBuf
        /\ idr' = [idr EXCEPT ![id] = call[t].buf]
        /\ Goto(t, "name")
     \/ Goto(t, "unlink") /\ UNCHANGED idr
  /\ UNCHANGED <<heap, lru, refs, counters, loaded, eventVars, watchVars>>

(* Outside of the mutex the buffer learns the id that leads to it *)
Name(t) ==
  /\ Reaches(t, "name")
  /\ \E id \in Ids : /\ idr[id] = call[t].buf
                     /\ heap' = [heap EXCEPT ![call[t].buf].id = id]
  /\ Goto(t, "install")
  /\ UNCHANGED <<idr, lru, refs, counters, loaded, eventVars, watchVars>>

(* mutant: the id is kept, so gb_release removes it a second time *)
InstallKeepsId(t) ==
  /\ Reaches(t, "install")
  /\ \/ refs' = [refs EXCEPT ![call[t].buf] = 1] /\ Goto(t, "report") /\ UNCHANGED idr
     \/ /\ idr' = [idr EXCEPT ![Buf(t).id] = NoBuf]
        /\ Goto(t, "unlink")
        /\ UNCHANGED refs
  /\ UNCHANGED <<heap, lru, counters, loaded, eventVars, watchVars>>

(* dma_buf_fd hands the reference to the caller; without a descriptor the   *)
(* id is taken back and the DMA-BUF is put                                  *)
Install(t) ==
  /\ Reaches(t, "install")
  /\ \/ refs' = [refs EXCEPT ![call[t].buf] = 1] /\ Goto(t, "report") /\ UNCHANGED idr
     \/ /\ idr' = [idr EXCEPT ![Buf(t).id] = NoBuf]
        /\ Goto(t, "unname")
        /\ UNCHANGED refs
  /\ UNCHANGED <<heap, lru, counters, loaded, eventVars, watchVars>>

(* Outside of the mutex, too *)
Unname(t) ==
  /\ Reaches(t, "unname")
  /\ heap' = [heap EXCEPT ![call[t].buf].id = 0]
  /\ Goto(t, "unlink")
  /\ UNCHANGED <<idr, lru, refs, counters, loaded, eventVars, watchVars>>

(* The reply, and the message that reads the buffer again *)
Report(t) ==
  /\ Reaches(t, "report")
  /\ Done(t)
  /\ UNCHANGED <<bufVars, counters, loaded, eventVars, watchVars>>

-----------------------------------------------------------------------------
(* gb_release *)

(* mutant: the list is left alone *)
UnlinkedKept(b) == lru

Unlinked(b) == lru \ {b}

Unlink(t) ==
  /\ Reaches(t, "unlink")
  /\ lru' = Unlinked(call[t].buf)
  /\ Goto(t, "unregister")
  /\ UNCHANGED <<heap, idr, refs, counters, loaded, eventVars, watchVars>>

Unregister(t) ==
  /\ Reaches(t, "unregister")
  /\ idr' = IF Buf(t).id > 0 THEN [idr EXCEPT ![Buf(t).id] = NoBuf] ELSE idr
  /\ Goto(t, "free")
  /\ UNCHANGED <<heap, lru, refs, counters, loaded, eventVars, watchVars>>

Free(t) ==
  /\ Reaches(t, "free")
  /\ active' = active - 1
  /\ IF Buf(t).tier = 3 THEN nvme' = nvme - Buf(t).size /\ UNCHANGED pool
     ELSE pool' = pool - Buf(t).size /\ UNCHANGED nvme
  /\ heap' = [heap EXCEPT ![call[t].buf] = NoBuf]
  /\ Done(t)
  /\ UNCHANGED <<idr, lru, refs, loaded, eventVars, watchVars>>

-----------------------------------------------------------------------------
(* MADVISE and EVICT: the buffer is used after the mutex is released *)

Lookup(t) ==
  /\ At(t, "lookup")
  /\ LET b == idr[call[t].id] IN
     \/ /\ b # NoBuf
        /\ call' = [call EXCEPT ![t].buf = b,
                                ![t].pc = IF call[t].op = "evict" THEN "move" ELSE "advise"]
     \/ b = NoBuf /\ Done(t)
  /\ UNCHANGED <<bufVars, counters, loaded, eventVars, watchVars>>

(* HOT and COLD link the buffer; FREEZE sets a flag that nothing reads *)
Advise(t) ==
  /\ Reaches(t, "advise")
  /\ \/ lru' = lru \cup {call[t].buf}
     \/ UNCHANGED lru
  /\ Done(t)
  /\ UNCHANGED <<heap, idr, refs, counters, loaded, eventVars, watchVars>>

(* mutant: the bytes stay in the pool *)
MoveKeepsPool(t) ==
  /\ Reaches(t, "move")
  /\ \/ /\ Buf(t).tier = 2
        /\ nvme' = nvme + Buf(t).size
        /\ Goto(t, "relabel")
        /\ UNCHANGED pool
     \/ Buf(t).tier = 3 /\ Done(t) /\ UNCHANGED <<pool, nvme>>
  /\ UNCHANGED <<bufVars, active, loaded, eventVars, watchVars>>

Move(t) ==
  /\ Reaches(t, "move")
  /\ \/ /\ Buf(t).tier = 2
        /\ pool' = pool - Buf(t).size
        /\ nvme' = nvme + Buf(t).size
        /\ Goto(t, "relabel")
     \/ Buf(t).tier = 3 /\ Done(t) /\ UNCHANGED <<pool, nvme>>
  /\ UNCHANGED <<bufVars, active, loaded, eventVars, watchVars>>

Relabel(t) ==
  /\ Reaches(t, "relabel")
  /\ heap' = [heap EXCEPT ![call[t].buf].tier = 3]
  /\ Goto(t, "delist")
  /\ UNCHANGED <<idr, lru, refs, counters, loaded, eventVars, watchVars>>

Delist(t) ==
  /\ Reaches(t, "delist")
  /\ lru' = lru \ {call[t].buf}
  /\ Done(t)
  /\ UNCHANGED <<heap, idr, refs, counters, loaded, eventVars, watchVars>>
-----------------------------------------------------------------------------
(* POLL_FD, the watchdog, and the end of the module *)

(* The descriptor may have been closed since the call was made *)
GetEvent(t) ==
  /\ At(t, "get")
  /\ \/ /\ call[t].event \in exists
        /\ taken' = [taken EXCEPT ![call[t].event] = @ + 1]
        /\ Goto(t, "put")
     \/ call[t].event \notin exists /\ Done(t) /\ UNCHANGED taken
  /\ UNCHANGED <<bufVars, counters, loaded, event, exists, watchVars>>

Released(e) == IF e = NoEvent THEN taken ELSE [taken EXCEPT ![e] = @ - 1]

PutEvent(t) ==
  /\ At(t, "put")
  /\ taken' = Released(event)
  /\ Goto(t, "set")
  /\ UNCHANGED <<bufVars, counters, loaded, event, exists, watchVars>>

SetEvent(t) ==
  /\ At(t, "set")
  /\ event' = call[t].event
  /\ IF call[t].op = "exit" THEN Goto(t, "stop") ELSE Done(t)
  /\ UNCHANGED <<bufVars, counters, loaded, taken, exists, watchVars>>

(* A change of swap pressure is noted, then signalled if an event is set,   *)
(* which nothing keeps from being put in between                            *)
Watch ==
  /\ loaded /\ watchdog = "sleep"
  /\ pressure' = ~pressure
  /\ watchdog' = "test"
  /\ UNCHANGED <<bufVars, counters, call, loaded, eventVars, target>>

TestEvent ==
  /\ watchdog = "test"
  /\ target' = event
  /\ watchdog' = IF event = NoEvent THEN "sleep" ELSE "signal"
  /\ UNCHANGED <<bufVars, counters, call, loaded, eventVars, pressure>>

SignalEvent ==
  /\ watchdog = "signal"
  /\ target' = NoEvent
  /\ watchdog' = "sleep"
  /\ UNCHANGED <<bufVars, counters, call, loaded, eventVars, pressure>>

(* gb_exit runs when nothing refers to the module: the event is put and     *)
(* cleared before the watchdog is stopped                                   *)
Exit(t) ==
  /\ Idle(t) /\ Quiet
  /\ \A b \in Bufs : refs[b] = 0
  /\ Ask(t, "exit", "put", NoBuf, 0, 0, NoEvent)
  /\ UNCHANGED <<bufVars, counters, loaded, eventVars, watchVars>>

StopWatchdog(t) ==
  /\ At(t, "stop") /\ watchdog = "sleep"
  /\ loaded' = FALSE
  /\ Done(t)
  /\ UNCHANGED <<bufVars, counters, eventVars, watchVars>>

(* gb_init *)
Load ==
  /\ ~loaded
  /\ loaded' = TRUE
  /\ idr' = [i \in Ids |-> NoBuf]
  /\ active' = 0 /\ pool' = 0 /\ nvme' = 0
  /\ lru' = {}
  /\ event' = NoEvent
  /\ pressure' = FALSE
  /\ UNCHANGED <<heap, refs, call, taken, exists, watchdog, target>>

System(t) ==
  \/ Take(t) \/ Account(t) \/ Export(t) \/ Register(t) \/ Name(t)
  \/ Install(t) \/ Unname(t) \/ Report(t)
  \/ Unlink(t) \/ Unregister(t) \/ Free(t)
  \/ Lookup(t) \/ Advise(t) \/ Move(t) \/ Relabel(t) \/ Delist(t)
  \/ GetEvent(t) \/ PutEvent(t) \/ SetEvent(t) \/ StopWatchdog(t)

Next ==
  \/ \E t \in Threads : System(t) \/ AskMemory(t) \/ AskBuffer(t) \/ AskPoll(t) \/ Exit(t)
  \/ \E t \in Threads, b \in Bufs : Drop(t, b)
  \/ \E b \in Bufs : Share(b)
  \/ \E e \in Events : CloseEvent(e)
  \/ Watch \/ TestEvent \/ SignalEvent \/ Load

Spec == Init /\ [][Next]_vars
-----------------------------------------------------------------------------
(* Properties *)

TypeOK ==
  /\ heap \in [Bufs -> Buffer \cup {NoBuf}]
  /\ idr \in [Ids -> Bufs \cup {NoBuf}]
  /\ active \in Nat /\ pool \in Nat /\ nvme \in Nat
  /\ lru \subseteq Bufs
  /\ refs \in [Bufs -> 0 .. MaxRefs]
  /\ loaded \in BOOLEAN /\ pressure \in BOOLEAN
  /\ event \in Events \cup {NoEvent} /\ taken \in [Events -> Int] /\ exists \subseteq Events
  /\ watchdog \in {"sleep", "test", "signal"} /\ target \in Events \cup {NoEvent}

(* What the buffers of a set take up, one element for each page *)
Bytes(B) == Cardinality(UNION {{b} \X (1 .. heap[b].size) : b \in B})
InTier(n) == {b \in Live : heap[b].tier = n}

(* Between calls the counters that GET_INFO and sysfs report add up to the  *)
(* live buffers of each tier (greenboost.c:186-192), through refusals, a    *)
(* missing id or descriptor, evictions and late releases.  Two clients that *)
(* EVICT one buffer, and a failing dma_buf_export, break it (lines 625-627, *)
(* 834-844).                                                                *)
CountersAreExact ==
  Quiet => /\ pool = Bytes(InTier(2)) /\ nvme = Bytes(InTier(3))
           /\ active = Cardinality(Live)

(* lru_list links no freed buffer: gb_release and the error paths must      *)
(* unlink what gb_alloc_buf, HOT and COLD link (lines 275-278, 582-584).    *)
LruNodesLive == lru \subseteq Live

(* The IDR never leads to a freed buffer, and a buffer somebody holds is    *)
(* found under its id until the last reference goes (lines 280-285,         *)
(* 636-660).                                                                *)
IdsFindBuffers ==
  /\ \A i \in Ids : idr[i] # NoBuf => idr[i] \in Live /\ heap[idr[i]].id \in {0, i}
  /\ \A b \in Bufs : refs[b] > 0 => b \in Live /\ heap[b].id \in Ids /\ idr[heap[b].id] = b

(* The module holds one reference on the registered eventfd and none on     *)
(* those it replaced or was unloaded with (lines 866-869, 1247-1250): false *)
(* with two callers of POLL_FD, which put one context twice.                *)
EventsBalanced ==
  Quiet => \A e \in Events : taken[e] = IF loaded /\ event = e THEN 1 ELSE 0

(* No call touches a buffer that gb_release has freed (lines 799-803).      *)
NoUseOfFreed == \A t \in Threads : call[t].buf # NoBuf => call[t].buf \in Live

(* No path frees single pages of a buffer of huge pages (line 629).         *)
NoFault == \A t \in Threads : ~At(t, "fault")

(* The watchdog signals a context that still exists (line 1074).            *)
SignalsALiveEvent == target # NoEvent => target \in exists \/ taken[target] > 0

(* greenboost.c:196, "T2 buffers in LRU order", and :845, "evicted buffers  *)
(* are not candidates".                                                     *)
LruHoldsTier2 == Quiet => \A b \in lru : heap[b].tier = 2
=============================================================================
