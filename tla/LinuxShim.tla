------------------------------ MODULE LinuxShim ------------------------------
(***************************************************************************)
(* greenboost_cuda_shim.c: the allocation, free and prefetch overrides of  *)
(* the LD_PRELOAD shim, with the pointer table they share.  A step is one  *)
(* call of CUDA or the system, or one slot of the table under its lock.    *)
(*                                                                         *)
(* The device pointer of a registered mapping is its address, as under     *)
(* unified addressing; the runtime's overrides (cudaMalloc, ...) differ    *)
(* from the driver's only in the function they call at the end.  Nobody    *)
(* looks at what cuMemHostUnregister returns, or whether there is one: a   *)
(* registration may outlive its mapping.                                   *)
(***************************************************************************)
EXTENDS Integers, Sequences

CONSTANTS
  Threads,
  HostAddrs,   \* addresses mmap may return
  CudaAddrs,   \* addresses CUDA may return for memory of its own
  NumSlots,    \* HT_SIZE
  Hash,        \* ht_hash
  QueueSize,   \* PREFETCH_QUEUE_SIZE - 1, what the ring can hold
  UsesDriver,  \* gb_use_dmabuf, and CUDA has cuMemHostRegister
  DeviceOpens, \* /dev/greenboost is there
  None         \* no pointer

ASSUME LinuxShimAssumption ==
  /\ NumSlots \in Nat \ {0} /\ QueueSize \in Nat /\ DeviceOpens \in BOOLEAN
  /\ UsesDriver \in BOOLEAN
  /\ Hash \in [HostAddrs \cup CudaAddrs -> 0 .. NumSlots - 1]
  /\ None \notin HostAddrs \cup CudaAddrs

VARIABLES
  table, \* gb_htable: what each slot tracks
  host,  \* what the shim has made of each address it mapped
  cuda,  \* what CUDA has allocated at each address
  held,  \* pointers the application may use
  call,  \* the override each thread is in
  queue, \* prefetch_queue between tail and head
  job    \* the mapping the prefetch worker is about to advise

vars == <<table, host, cuda, held, call, queue, job>>

Addrs == HostAddrs \cup CudaAddrs
Slots == 0 .. NumSlots - 1
Empty == [ptr |-> None, mapped |-> FALSE]
NoCall == [op |-> "none", pc |-> "idle", entry |-> Empty, i |-> 0]
Mapping == {"mapped", "pinned", "registered"}

At(t, label) == call[t].pc = label
Ptr(t) == call[t].entry.ptr
Slot(t) == (Hash[Ptr(t)] + call[t].i) % NumSlots
Goto(t, label) == call' = [call EXCEPT ![t].pc = label, ![t].i = 0]
Unoccupied(p) == "mapped" \notin host[p] /\ cuda[p] = "none"
Leftover(p) == host[p] \cap {"registered"}

(* The override returns; keep says whether the application has the pointer *)
Return(t, keep) ==
  /\ call' = [call EXCEPT ![t] = NoCall]
  /\ held' = IF keep THEN held \cup {Ptr(t)} ELSE held

Init ==
  /\ table = [s \in Slots |-> Empty]
  /\ host = [p \in Addrs |-> {}]
  /\ cuda = [p \in Addrs |-> "none"]
  /\ held = {}
  /\ call = [t \in Threads |-> NoCall]
  /\ queue = <<>>
  /\ job = None

-----------------------------------------------------------------------------
(* The application: a pointer is in one call at a time *)

(* gb_needs_overflow decides between memory of the system and of the device *)
Alloc(t) ==
  /\ At(t, "idle")
  /\ \E label \in {IF UsesDriver THEN "map" ELSE "managed", "device"} :
       call' = [call EXCEPT ![t] = [NoCall EXCEPT !.op = "alloc", !.pc = label]]
  /\ UNCHANGED <<table, host, cuda, held, queue, job>>

FreeOrPrefetch(t) ==
  /\ At(t, "idle")
  /\ \E p \in held, op \in {"free", "prefetch"} :
       /\ held' = held \ {p}
       /\ call' = [call EXCEPT ![t] = [op |-> op, pc |-> "remove", i |-> 0,
                                       entry |-> [ptr |-> p, mapped |-> FALSE]]]
  /\ UNCHANGED <<table, host, cuda, queue, job>>

(* cuMemFreeAsync and cudaFreeAsync are not overridden: the entry stays in  *)
(* the table.  CUDA refuses what it did not allocate.                       *)
FreeAsync ==
  /\ \E p \in held :
       /\ cuda[p] # "none"
       /\ cuda' = [cuda EXCEPT ![p] = "none"]
       /\ held' = held \ {p}
  /\ UNCHANGED <<table, host, call, queue, job>>

-----------------------------------------------------------------------------
(* gb_overflow_alloc *)

Map(t) ==
  /\ At(t, "map")
  /\ \/ \E p \in HostAddrs :
          /\ Unoccupied(p)
          /\ host' = [host EXCEPT ![p] = Leftover(p) \cup {"mapped"}]
          /\ call' = [call EXCEPT ![t].pc = "pin", ![t].entry = [ptr |-> p, mapped |-> TRUE]]
     \/ Goto(t, "device") /\ UNCHANGED host
  /\ UNCHANGED <<table, cuda, held, queue, job>>

Forget(t, label) == call' = [call EXCEPT ![t].pc = label, ![t].entry = Empty]

(* munmap and close of the descriptor *)
Unmap(t) == host' = [host EXCEPT ![Ptr(t)] = Leftover(Ptr(t))]

(* cuMemHostUnregister before them, if CUDA has it and does it *)
UnregisterAndUnmap(t) == host' = [host EXCEPT ![Ptr(t)] = {}] \/ Unmap(t)

(* Without the device the mapping is left behind *)
Pin(t) ==
  /\ At(t, "pin")
  /\ \/ /\ DeviceOpens
        /\ host' = [host EXCEPT ![Ptr(t)] = @ \cup {"pinned"}]
        /\ Goto(t, "register")
     \/ /\ IF DeviceOpens THEN Unmap(t) ELSE UNCHANGED host
        /\ Forget(t, "managed")
  /\ UNCHANGED <<table, cuda, held, queue, job>>

RegisterHost(t) ==
  /\ At(t, "register")
  /\ \/ host' = [host EXCEPT ![Ptr(t)] = @ \cup {"registered"}] /\ Goto(t, "address")
     \/ Unmap(t) /\ Forget(t, "device")
  /\ UNCHANGED <<table, cuda, held, queue, job>>

(* cuMemHostGetDevicePointer; a failure undoes the three steps before *)
GetAddress(t) ==
  /\ At(t, "address")
  /\ \/ Goto(t, "insert") /\ UNCHANGED host
     \/ UnregisterAndUnmap(t) /\ Forget(t, "device")
  /\ UNCHANGED <<table, cuda, held, queue, job>>

Given(t, kind) ==
  \E p \in CudaAddrs :
    /\ Unoccupied(p)
    /\ cuda' = [cuda EXCEPT ![p] = kind]
    /\ call' = [call EXCEPT ![t].pc = "insert", ![t].entry = [ptr |-> p, mapped |-> FALSE]]

Managed(t) ==
  /\ At(t, "managed")
  /\ \/ Given(t, "managed")
     \/ Goto(t, "device") /\ UNCHANGED cuda
  /\ UNCHANGED <<table, host, held, queue, job>>

Device(t) ==
  /\ At(t, "device")
  /\ \/ Given(t, "device") /\ UNCHANGED held
     \/ Return(t, FALSE) /\ UNCHANGED cuda
  /\ UNCHANGED <<table, host, queue, job>>

-----------------------------------------------------------------------------
(* The table *)

Last(t) == call[t].i = NumSlots - 1
NextSlot(t, label) == call' = [call EXCEPT ![t].i = @ + 1, ![t].pc = label]

(* ht_insert; nobody looks whether the table was full *)
Insert(t) ==
  /\ At(t, "insert")
  /\ IF table[Slot(t)] = Empty
     THEN table' = [table EXCEPT ![Slot(t)] = call[t].entry] /\ Return(t, TRUE)
     ELSE /\ UNCHANGED table
          /\ IF Last(t) THEN Return(t, TRUE) ELSE NextSlot(t, "insert") /\ UNCHANGED held
  /\ UNCHANGED <<host, cuda, queue, job>>

(* ht_remove did not find the pointer *)
NotFound(t) ==
  IF call[t].op = "free" THEN Goto(t, "free") /\ UNCHANGED held ELSE Return(t, TRUE)

(* mutant: the entry is not zeroed *)
RemoveKeeps(t) ==
  /\ At(t, "remove")
  /\ IF table[Slot(t)].ptr = Ptr(t)
     THEN call' = [call EXCEPT ![t].entry = table[Slot(t)], ![t].i = 0,
            ![t].pc = IF call[t].op = "free" THEN "release" ELSE "enqueue"]
     ELSE call' = [call EXCEPT ![t].pc = "peek"]
  /\ UNCHANGED <<table, host, cuda, held, queue, job>>

(* mutant: the first entry of the chain is taken for the pointer's *)
RemoveAny(t) ==
  /\ At(t, "remove")
  /\ LET e == table[Slot(t)] IN
     IF e # Empty
     THEN /\ table' = [table EXCEPT ![Slot(t)] = Empty]
          /\ call' = [call EXCEPT ![t].entry = e, ![t].i = 0,
               ![t].pc = IF call[t].op = "free" THEN "release" ELSE "enqueue"]
     ELSE call' = [call EXCEPT ![t].pc = "peek"] /\ UNCHANGED table
  /\ UNCHANGED <<host, cuda, held, queue, job>>

(* ht_remove under the lock of a slot: the entry is zeroed *)
Remove(t) ==
  /\ At(t, "remove")
  /\ LET e == table[Slot(t)] IN
     IF e.ptr = Ptr(t)
     THEN /\ table' = [table EXCEPT ![Slot(t)] = Empty]
          /\ call' = [call EXCEPT ![t].entry = e, ![t].i = 0,
               ![t].pc = IF call[t].op = "free" THEN "release" ELSE "enqueue"]
     ELSE call' = [call EXCEPT ![t].pc = "peek"] /\ UNCHANGED table
  /\ UNCHANGED <<host, cuda, held, queue, job>>

(* The slot is read again without the lock: if it is empty now, the search  *)
(* ends                                                                     *)
Peek(t) ==
  /\ At(t, "peek")
  /\ IF table[Slot(t)] = Empty \/ Last(t) THEN NotFound(t)
     ELSE NextSlot(t, "remove") /\ UNCHANGED held
  /\ UNCHANGED <<table, host, cuda, queue, job>>

-----------------------------------------------------------------------------
(* The rest of cuMemFree_v2: the mapping goes back, then CUDA is asked to   *)
(* free the pointer, whatever it was                                        *)

Release(t) ==
  /\ At(t, "release")
  /\ IF call[t].entry.mapped THEN UnregisterAndUnmap(t) ELSE UNCHANGED host
  /\ Goto(t, "free")
  /\ UNCHANGED <<table, cuda, held, queue, job>>

Free(t) ==
  /\ At(t, "free")
  /\ \/ cuda' = [cuda EXCEPT ![Ptr(t)] = "none"] /\ Return(t, FALSE)
     \/ cuda[Ptr(t)] # "none" /\ Return(t, TRUE) /\ UNCHANGED cuda
  /\ UNCHANGED <<table, host, queue, job>>

(* The rest of cuMemPrefetchAsync: a full ring loses the request, and the   *)
(* entry goes back into the table                                           *)
Enqueue(t) ==
  /\ At(t, "enqueue")
  /\ queue' = IF call[t].entry.mapped /\ Len(queue) < QueueSize THEN Append(queue, Ptr(t)) ELSE queue
  /\ Goto(t, "insert")
  /\ UNCHANGED <<table, host, cuda, held, job>>

(* prefetch_worker *)
Dequeue ==
  /\ job = None /\ queue # <<>>
  /\ job' = Head(queue)
  /\ queue' = Tail(queue)
  /\ UNCHANGED <<table, host, cuda, held, call>>

AdviseMapping ==
  /\ job # None
  /\ job' = None
  /\ UNCHANGED <<table, host, cuda, held, call, queue>>

Override(t) ==
  \/ Alloc(t) \/ FreeOrPrefetch(t)
  \/ Map(t) \/ Pin(t) \/ RegisterHost(t) \/ GetAddress(t) \/ Managed(t) \/ Device(t)
  \/ Insert(t) \/ Remove(t) \/ Peek(t) \/ Release(t) \/ Free(t) \/ Enqueue(t)

Next == Dequeue \/ AdviseMapping \/ FreeAsync \/ \E t \in Threads : Override(t)

Spec == Init /\ [][Next]_vars
-----------------------------------------------------------------------------
(* Properties *)

Entry == [ptr : Addrs \cup {None}, mapped : BOOLEAN]
Call == [op : {"none", "alloc", "free", "prefetch"}, entry : Entry, i : Slots,
         pc : {"idle", "map", "pin", "register", "address", "managed", "device", "insert",
               "remove", "peek", "release", "free", "enqueue"}]

TypeOK ==
  /\ table \in [Slots -> Entry]
  /\ host \in [Addrs -> SUBSET Mapping]
  /\ cuda \in [Addrs -> {"none", "device", "managed"}]
  /\ held \subseteq Addrs
  /\ call \in [Threads -> Call]
  /\ queue \in Seq(HostAddrs) /\ Len(queue) <= QueueSize
  /\ job \in HostAddrs \cup {None}

(* The thread alone knows of a mapping: it made it, or took it out of the table *)
Owning == {"pin", "register", "address", "insert", "release", "enqueue"}
Owns(t) == call[t].entry.mapped /\ call[t].pc \in Owning

(* Whatever chains have become, an entry for a mapping stands for memory    *)
(* that is still mapped, pinned and registered, and one entry or one call   *)
(* alone stands for it: no mapping is given back twice                      *)
(* (greenboost_cuda_shim.c:199-206, 678-689, 839-844).                      *)
EntriesOwnMappings ==
  /\ \A s \in Slots : table[s].mapped => host[table[s].ptr] = Mapping
  /\ \A r, s \in Slots :
       (table[r].mapped /\ table[s].mapped /\ table[r].ptr = table[s].ptr) => r = s
  /\ \A t \in Threads, s \in Slots : (Owns(t) /\ table[s].mapped) => table[s].ptr # Ptr(t)
  /\ \A t, u \in Threads : (Owns(t) /\ Owns(u) /\ Ptr(t) = Ptr(u)) => t = u

(* Memory the application holds is not given back under it, neither by      *)
(* another thread's free nor by a failed allocation                         *)
(* (greenboost_cuda_shim.c:584, 593, 604, 681-691).                         *)
HeldMemoryStays ==
  \A p \in held : host[p] = Mapping \/ cuda[p] # "none"

(* greenboost_cuda_shim.c:211, "empty slot - key not present": a free finds *)
(* what the table tracks, so nothing outlives its free.                     *)
NothingLost ==
  \A p \in Addrs : Unoccupied(p) \/ p \in held \/ \E t \in Threads : Ptr(t) = p

(* The worker advises memory that is mapped (greenboost_cuda_shim.c:121).   *)
AdvisesMappings == job # None => "mapped" \in host[job]

(* Once a free has given a mapping back, what it asks CUDA to free is       *)
(* nobody else's (greenboost_cuda_shim.c:691).                              *)
FreesItsOwn ==
  [][\A t \in Threads :
       At(t, "free") /\ call[t].entry.mapped /\ call'[t] # call[t] => cuda' = cuda]_vars
=============================================================================
