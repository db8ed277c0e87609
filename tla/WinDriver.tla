------------------------------ MODULE WinDriver ------------------------------
(***************************************************************************)
(* windows-port/driver/greenboost_win.c: the KMDF driver's buffer manager. *)
(* The I/O queue dispatches requests in parallel, so each IOCTL handler is *)
(* a sequence of steps that interleave with those of other requests.  A    *)
(* step is what runs under one lock, or one interlocked operation.         *)
(*                                                                         *)
(* Buffers are the descriptors GB_BUF_WIN in non-paged pool; Buffer size   *)
(* is counted in pages.  Memory, address space and descriptors may run out *)
(* whenever the code asks for them.                                        *)
(***************************************************************************)
EXTENDS Integers, FiniteSets

CONSTANTS
  Threads,   \* requests that may be in progress at once
  Handles,   \* file objects of \\.\GreenBoost
  Uses,      \* the handles each thread issues requests on
  Ops,       \* the requests the clients issue
  Bufs,      \* buffer descriptors
  NoBuf,     \* NULL
  MaxBufs,   \* GB_MAX_BUFS: ids are 1 .. MaxBufs - 1
  IdLimit,   \* bound: no allocation starts once NextBufId has reached it
  OwnLimit,  \* bound: nor on a handle whose OwnedCount has, which RESET never lowers
  Sizes,     \* requested sizes, in pages
  Block,     \* GB_BLOCK_SIZE in pages
  PoolCap,   \* VirtualVramGb in pages
  NvmeCap,   \* NvmePoolGb in pages
  Flags,     \* values clients give the GB_ALLOC_FROZEN flag
  Careful    \* clients serialise what no lock in the driver orders

Ids == 1 .. MaxBufs - 1
Buffer == [size : Nat, tier : {2, 3}, backing : {"contiguous", "mdl", "paged", "user"},
           frozen : BOOLEAN, id : 0 .. MaxBufs - 1, active : BOOLEAN]

ASSUME WinDriverAssumption ==
  /\ IsFiniteSet(Threads) /\ IsFiniteSet(Bufs)
  /\ Uses \in [Threads -> SUBSET Handles]
  /\ MaxBufs \in Nat \ {0} /\ IdLimit \in Nat /\ OwnLimit \in Nat
  /\ Sizes \subseteq Nat \ {0} /\ Block \in Nat \ {0}
  /\ PoolCap \in Nat /\ NvmeCap \in Nat
  /\ Flags \subseteq BOOLEAN /\ Careful \in BOOLEAN
  /\ NoBuf \notin Bufs \cup Handles \cup Buffer

VARIABLES
  heap,       \* GB_BUF_WIN per descriptor, NoBuf while it is not allocated
  table,      \* BufTable
  nextId,     \* NextBufId, kept at MaxBufs once it is out of range
  activeBufs, \* ActiveBufs
  pool,       \* PoolAllocated
  nvme,       \* NvmeAllocated
  lru,        \* buffers linked into LruList; no code reads its order
  open,       \* handles that are open
  owned,      \* GB_FILE_CONTEXT.OwnedBufs of each handle
  ownedCount, \* GB_FILE_CONTEXT.OwnedCount
  held,       \* ids the client of each handle may still use
  loaded,     \* the driver is loaded
  req         \* the request each thread is in

fileVars == <<open, owned, ownedCount, held, loaded>>
poolVars == <<pool, nvme>>
tableVars == <<table, nextId, activeBufs>>
vars == <<heap, tableVars, poolVars, lru, fileVars, req>>

NoRequest == [op |-> "none", pc |-> "idle", h |-> NoBuf, id |-> 0, buf |-> NoBuf,
              size |-> 0, frozen |-> FALSE, idx |-> 0, freed |-> 0, word |-> {}]

Live == {b \in Bufs : heap[b] # NoBuf}
At(t, label) == req[t].pc = label
Buf(t) == heap[req[t].buf]

(* A handler that reaches a freed buffer has no defined behaviour: it is    *)
(* not followed further, and NoUseOfFreed tells whether one can.            *)
Reaches(t, label) == At(t, label) /\ req[t].buf \in Live

Goto(t, label) == req' = [req EXCEPT ![t].pc = label]
Done(t) == req' = [req EXCEPT ![t] = NoRequest]
RoundUp(n) == ((n + Block - 1) \div Block) * Block

Init ==
  /\ heap = [b \in Bufs |-> NoBuf]
  /\ table = [i \in Ids |-> NoBuf]
  /\ nextId = 0 /\ activeBufs = 0 /\ pool = 0 /\ nvme = 0
  /\ lru = {} /\ open = {}
  /\ owned = [h \in Handles |-> {}]
  /\ ownedCount = [h \in Handles |-> 0]
  /\ held = [h \in Handles |-> {}]
  /\ loaded = TRUE
  /\ req = [t \in Threads |-> NoRequest]

-----------------------------------------------------------------------------
(* What clients ask for.  The driver looks up any id, whoever names it, and *)
(* orders no request on a buffer with another, with a reset or with a close *)
(* (lines 181-195, 1015, 1340).  Careful clients use the ids they were      *)
(* given, one request per id at a time as the shim's hash table does, reset *)
(* beside no other request, and close a handle when its requests have ended.*)

Serving == loaded /\ \A t \in Threads : req[t].op # "unload"
Idle(t) == At(t, "idle") /\ Serving
Quiet == \A t \in Threads : At(t, "idle")
NoReset == Careful => \A t \in Threads : req[t].op # "reset"
Resettable == Careful => Quiet
Closable(h) == Careful => \A t \in Threads : req[t].h # h
Nameable(h) == IF Careful THEN held[h] ELSE Ids

Ask(t, op, label, h, id, n, f) ==
  req' = [req EXCEPT ![t] = [NoRequest EXCEPT !.op = op, !.pc = label, !.h = h,
                               !.id = id, !.size = n, !.frozen = f, !.idx = 1]]

Open(h) ==
  /\ Serving /\ h \notin open
  /\ \A t \in Threads : req[t].h # h
  /\ open' = open \cup {h}
  /\ owned' = [owned EXCEPT ![h] = {}]
  /\ ownedCount' = [ownedCount EXCEPT ![h] = 0]
  /\ UNCHANGED <<heap, tableVars, poolVars, lru, held, loaded, req>>

AskMemory(t, h) ==
  /\ Idle(t) /\ NoReset
  /\ h \in Uses[t] \cap open
  /\ nextId < IdLimit /\ ownedCount[h] < OwnLimit
  /\ \E n \in Sizes, f \in Flags :
       \/ "alloc" \in Ops /\ Ask(t, "alloc", "t2", h, 0, n, f)
       \/ "pin" \in Ops /\ Ask(t, "pin", "pin", h, 0, n, f)
  /\ UNCHANGED <<heap, tableVars, poolVars, lru, fileVars>>

AskBuffer(t, h) ==
  /\ Idle(t) /\ NoReset
  /\ h \in Uses[t] \cap open
  /\ \E id \in Nameable(h), op \in Ops \cap {"free", "madvise", "evict"} :
       /\ Ask(t, op, "lookup", h, id, 0, FALSE)
       /\ held' = [held EXCEPT ![h] = @ \ {id}]
  /\ UNCHANGED <<heap, tableVars, poolVars, lru, open, owned, ownedCount, loaded>>

AskReset(t, h) ==
  /\ Idle(t) /\ Resettable
  /\ "reset" \in Ops
  /\ h \in Uses[t] \cap open
  /\ Ask(t, "reset", "scan", h, 0, 0, FALSE)
  /\ UNCHANGED <<heap, tableVars, poolVars, lru, fileVars>>

(* The last handle of a file object is closed, by CloseHandle or by the end *)
(* of its process                                                           *)
Close(t, h) ==
  /\ Idle(t) /\ NoReset
  /\ h \in Uses[t] \cap open
  /\ Closable(h)
  /\ open' = open \ {h}
  /\ held' = [held EXCEPT ![h] = {}]
  /\ Ask(t, "close", "scan", h, 0, 0, FALSE)
  /\ UNCHANGED <<heap, tableVars, poolVars, lru, owned, ownedCount, loaded>>

(* The device goes away once nothing refers to it *)
Unload(t) ==
  /\ Idle(t) /\ Quiet
  /\ open = {}
  /\ Ask(t, "unload", "scan", NoBuf, 0, 0, FALSE)
  /\ UNCHANGED <<heap, tableVars, poolVars, lru, fileVars>>

-----------------------------------------------------------------------------
(* Allocation *)

NewBuffer(n, tier, backing, f) ==
  [size |-> n, tier |-> tier, backing |-> backing, frozen |-> f, id |-> 0, active |-> FALSE]

Take(t, n, tier, backing, f) ==
  \E b \in Bufs \ Live :
    /\ heap' = [heap EXCEPT ![b] = NewBuffer(n, tier, backing, f)]
    /\ req' = [req EXCEPT ![t].buf = b, ![t].pc = "account"]

(* GbAllocTier2: the cap is checked here, the bytes are added in Account.   *)
(* The reserve check and both allocators may fail.                          *)
TryTier2(t) ==
  /\ At(t, "t2")
  /\ \/ Goto(t, "t3") /\ UNCHANGED heap
     \/ /\ pool + req[t].size <= PoolCap
        /\ \E backing \in {"contiguous", "mdl"} :
             Take(t, RoundUp(req[t].size), 2, backing, req[t].frozen)
  /\ UNCHANGED <<tableVars, poolVars, lru, fileVars>>

(* GbAllocTier3 *)
TryTier3(t) ==
  /\ At(t, "t3")
  /\ \/ Done(t) /\ UNCHANGED heap
     \/ /\ nvme + req[t].size <= NvmeCap
        /\ Take(t, req[t].size, 3, "paged", FALSE)
  /\ UNCHANGED <<tableVars, poolVars, lru, fileVars>>

(* GbHandlePinUserPtr up to its accounting *)
TryPin(t) ==
  /\ At(t, "pin")
  /\ \/ Done(t) /\ UNCHANGED heap
     \/ /\ pool + req[t].size <= PoolCap
        /\ Take(t, req[t].size, 2, "user", req[t].frozen)
  /\ UNCHANGED <<tableVars, poolVars, lru, fileVars>>

(* mutant: the bytes asked for are added, the rounded ones are given back *)
AccountRequested(t) ==
  /\ Reaches(t, "account")
  /\ IF Buf(t).tier = 2
     THEN pool' = pool + req[t].size /\ lru' = lru \cup {req[t].buf} /\ UNCHANGED nvme
     ELSE nvme' = nvme + req[t].size /\ UNCHANGED <<pool, lru>>
  /\ Goto(t, "register")
  /\ UNCHANGED <<heap, tableVars, fileVars>>

(* The bytes are added and a T2 buffer joins the list; no other request can *)
(* reach the buffer yet                                                     *)
Account(t) ==
  /\ Reaches(t, "account")
  /\ IF Buf(t).tier = 2
     THEN pool' = pool + Buf(t).size /\ lru' = lru \cup {req[t].buf} /\ UNCHANGED nvme
     ELSE nvme' = nvme + Buf(t).size /\ UNCHANGED <<pool, lru>>
  /\ Goto(t, "register")
  /\ UNCHANGED <<heap, tableVars, fileVars>>

FirstFree(id) == table[id] = NoBuf /\ \A i \in Ids : i < id => table[i] # NoBuf

(* GbRegisterBuf: the next id, and after the last one the first free slot.  *)
(* A full table leaves the counter out of range and frees the buffer.       *)
Register(t) ==
  /\ Reaches(t, "register")
  /\ \/ \E id \in Ids :
          /\ IF nextId + 1 < MaxBufs THEN id = nextId + 1 ELSE FirstFree(id)
          /\ table' = [table EXCEPT ![id] = req[t].buf]
          /\ heap' = [heap EXCEPT ![req[t].buf].id = id, ![req[t].buf].active = TRUE]
          /\ nextId' = id
          /\ activeBufs' = activeBufs + 1
          /\ req' = [req EXCEPT ![t].id = id, ![t].pc = "map"]
     \/ /\ nextId + 1 >= MaxBufs /\ \A i \in Ids : table[i] # NoBuf
        /\ nextId' = MaxBufs
        /\ Goto(t, "unlink")
        /\ UNCHANGED <<table, heap, activeBufs>>
  /\ UNCHANGED <<poolVars, lru, fileVars>>

(* GbMapToUser, and the reply: if either fails the buffer is freed *)
Map(t) ==
  /\ Reaches(t, "map")
  /\ \/ Goto(t, "own")
     \/ Goto(t, "unlink")
  /\ UNCHANGED <<heap, tableVars, poolVars, lru, fileVars>>

-----------------------------------------------------------------------------
(* Ownership bits.  The bitmap is read and written back without a lock; the *)
(* count is interlocked.                                                    *)

ReadOwned(t) ==
  /\ Reaches(t, "own")
  /\ req' = [req EXCEPT ![t].word = owned[req[t].h], ![t].pc = "owned"]
  /\ UNCHANGED <<heap, tableVars, poolVars, lru, fileVars>>

(* GbFileContextSetBuf, the last step of an allocation *)
SetOwned(t) ==
  /\ Reaches(t, "owned")
  /\ req[t].op \in {"alloc", "pin"}
  /\ owned' = [owned EXCEPT ![req[t].h] = req[t].word \cup {req[t].id}]
  /\ ownedCount' = [ownedCount EXCEPT ![req[t].h] = @ + 1]
  /\ held' = [held EXCEPT ![req[t].h] = @ \cup {req[t].id}]
  /\ Done(t)
  /\ UNCHANGED <<heap, tableVars, poolVars, lru, open, loaded>>

(* mutant: the count is decremented, the bit stays *)
ClearOwnedCount(t) ==
  /\ Reaches(t, "owned")
  /\ req[t].op = "free"
  /\ ownedCount' = [ownedCount EXCEPT ![req[t].h] = @ - 1]
  /\ Goto(t, "unlink")
  /\ UNCHANGED <<heap, tableVars, poolVars, lru, open, owned, held, loaded>>

(* GbFileContextClearBuf, before the buffer is freed *)
ClearOwned(t) ==
  /\ Reaches(t, "owned")
  /\ req[t].op = "free"
  /\ owned' = [owned EXCEPT ![req[t].h] = req[t].word \ {req[t].id}]
  /\ ownedCount' = [ownedCount EXCEPT ![req[t].h] = @ - 1]
  /\ Goto(t, "unlink")
  /\ UNCHANGED <<heap, tableVars, poolVars, lru, open, held, loaded>>

-----------------------------------------------------------------------------
(* Requests that name a buffer *)

(* GbLookupBuf: the pointer is used after the lock is released *)
Active(b) == b # NoBuf /\ (b \in Live => heap[b].active)

Lookup(t) ==
  /\ At(t, "lookup")
  /\ LET b == table[req[t].id] IN
     \/ /\ Active(b)
        /\ req' = [req EXCEPT ![t].buf = b,
             ![t].pc = CASE req[t].op = "free" -> "own"
                         [] req[t].op = "madvise" -> "advise"
                         [] req[t].op = "evict" -> "relabel"]
     \/ ~Active(b) /\ Done(t)
  /\ UNCHANGED <<heap, tableVars, poolVars, lru, fileVars>>

GiveBack(t) == held' = [held EXCEPT ![req[t].h] = @ \cup {req[t].id}]

(* GbHandleMadvise: COLD and HOT link the buffer, whatever its tier *)
Advise(t) ==
  /\ Reaches(t, "advise")
  /\ \/ lru' = lru \cup {req[t].buf} /\ UNCHANGED heap
     \/ heap' = [heap EXCEPT ![req[t].buf].frozen = TRUE] /\ UNCHANGED lru
  /\ GiveBack(t)
  /\ Done(t)
  /\ UNCHANGED <<tableVars, poolVars, open, owned, ownedCount, loaded>>

(* mutant: an evicted buffer no longer answers to its id *)
RelabelGone(t) ==
  /\ Reaches(t, "relabel")
  /\ heap' = [heap EXCEPT ![req[t].buf].tier = 3, ![req[t].buf].active = FALSE]
  /\ Goto(t, "delist")
  /\ UNCHANGED <<tableVars, poolVars, lru, fileVars>>

(* mutant: the bytes leave the pool although the memory stays pinned *)
RelabelAccounts(t) ==
  /\ Reaches(t, "relabel")
  /\ \/ /\ Buf(t).tier = 2
        /\ heap' = [heap EXCEPT ![req[t].buf].tier = 3]
        /\ pool' = pool - Buf(t).size
        /\ Goto(t, "delist")
        /\ UNCHANGED held
     \/ /\ Buf(t).tier = 3
        /\ GiveBack(t)
        /\ Done(t)
        /\ UNCHANGED <<heap, pool>>
  /\ UNCHANGED <<tableVars, nvme, lru, open, owned, ownedCount, loaded>>

(* GbHandleEvict: a T2 buffer is relabelled, frozen or not *)
Relabel(t) ==
  /\ Reaches(t, "relabel")
  /\ \/ /\ Buf(t).tier = 2
        /\ heap' = [heap EXCEPT ![req[t].buf].tier = 3]
        /\ Goto(t, "delist")
        /\ UNCHANGED held
     \/ /\ Buf(t).tier = 3
        /\ GiveBack(t)
        /\ Done(t)
        /\ UNCHANGED heap
  /\ UNCHANGED <<tableVars, poolVars, lru, open, owned, ownedCount, loaded>>

Delist(t) ==
  /\ Reaches(t, "delist")
  /\ lru' = lru \ {req[t].buf}
  /\ GiveBack(t)
  /\ Done(t)
  /\ UNCHANGED <<heap, tableVars, poolVars, open, owned, ownedCount, loaded>>

-----------------------------------------------------------------------------
(* GbFreeBuf *)

(* mutant: the list is left alone *)
UnlinkedKept(b) == lru

Unlinked(b) == lru \ {b}

Unlink(t) ==
  /\ Reaches(t, "unlink")
  /\ heap' = [heap EXCEPT ![req[t].buf].active = FALSE]
  /\ lru' = Unlinked(req[t].buf)
  /\ Goto(t, "unregister")
  /\ UNCHANGED <<tableVars, poolVars, fileVars>>

(* GbUnregisterBuf clears the slot whoever is in it *)
Unregister(t) ==
  /\ Reaches(t, "unregister")
  /\ IF Buf(t).id > 0
     THEN table' = [table EXCEPT ![Buf(t).id] = NoBuf] /\ activeBufs' = activeBufs - 1
     ELSE UNCHANGED <<table, activeBufs>>
  /\ Goto(t, "release")
  /\ UNCHANGED <<heap, nextId, poolVars, lru, fileVars>>

(* The user mapping, the bytes, the memory and the descriptor go *)
Release(t) ==
  /\ Reaches(t, "release")
  /\ IF Buf(t).tier = 3
     THEN nvme' = nvme - Buf(t).size /\ UNCHANGED pool
     ELSE pool' = pool - Buf(t).size /\ UNCHANGED nvme
  /\ heap' = [heap EXCEPT ![req[t].buf] = NoBuf]
  /\ IF req[t].op \in {"reset", "close", "unload"}
     THEN req' = [req EXCEPT ![t].buf = NoBuf, ![t].pc = "scan"]
     ELSE Done(t)
  /\ UNCHANGED <<tableVars, lru, fileVars>>

-----------------------------------------------------------------------------
(* The loops over the table *)

Next1(t) == [req EXCEPT ![t].idx = @ + 1]
WithoutId(b) == IF b \in Live THEN [heap EXCEPT ![b].id = 0] ELSE heap
Found(t) == [req EXCEPT ![t].idx = @ + 1, ![t].buf = table[req[t].idx], ![t].pc = "unlink"]

(* GbHandleReset *)
ResetEntry(t) ==
  /\ At(t, "scan") /\ req[t].op = "reset"
  /\ req[t].idx < MaxBufs
  /\ Active(table[req[t].idx])
  /\ table' = [table EXCEPT ![req[t].idx] = NoBuf]
  /\ activeBufs' = activeBufs - 1
  /\ heap' = WithoutId(table[req[t].idx])
  /\ req' = Found(t)
  /\ UNCHANGED <<nextId, poolVars, lru, fileVars>>

(* mutant: the id is cleared as in GbHandleReset, the count is not lowered *)
UnloadEntryUncounted(t) ==
  /\ At(t, "scan") /\ req[t].op = "unload"
  /\ req[t].idx < MaxBufs
  /\ Active(table[req[t].idx])
  /\ table' = [table EXCEPT ![req[t].idx] = NoBuf]
  /\ heap' = WithoutId(table[req[t].idx])
  /\ req' = Found(t)
  /\ UNCHANGED <<nextId, activeBufs, poolVars, lru, fileVars>>

(* GbEvtDeviceCleanup leaves the id to GbFreeBuf *)
UnloadEntry(t) ==
  /\ At(t, "scan") /\ req[t].op = "unload"
  /\ req[t].idx < MaxBufs
  /\ Active(table[req[t].idx])
  /\ table' = [table EXCEPT ![req[t].idx] = NoBuf]
  /\ req' = Found(t)
  /\ UNCHANGED <<heap, nextId, activeBufs, poolVars, lru, fileVars>>

(* GbEvtFileCleanup: at most OwnedCount bits are looked at *)
More(t) == req[t].idx < MaxBufs /\ req[t].freed < ownedCount[req[t].h]

CleanupEntry(t) ==
  /\ At(t, "scan") /\ req[t].op = "close"
  /\ More(t)
  /\ req[t].idx \in owned[req[t].h]
  /\ req' = [(IF Active(table[req[t].idx]) THEN Found(t) ELSE Next1(t)) EXCEPT ![t].freed = @ + 1]
  /\ UNCHANGED <<heap, tableVars, poolVars, lru, fileVars>>

SkipEntry(t) ==
  /\ At(t, "scan")
  /\ IF req[t].op = "close" THEN More(t) /\ req[t].idx \notin owned[req[t].h]
     ELSE req[t].idx < MaxBufs /\ ~Active(table[req[t].idx])
  /\ req' = Next1(t)
  /\ UNCHANGED <<heap, tableVars, poolVars, lru, fileVars>>

ScanEnds(t) ==
  /\ At(t, "scan")
  /\ IF req[t].op = "close" THEN ~More(t) ELSE req[t].idx = MaxBufs
  /\ loaded' = (req[t].op # "unload")
  /\ Done(t)
  /\ UNCHANGED <<heap, tableVars, poolVars, lru, open, owned, ownedCount, held>>

(* DriverEntry zeroes the device *)
Load ==
  /\ ~loaded
  /\ loaded' = TRUE
  /\ table' = [i \in Ids |-> NoBuf]
  /\ nextId' = 0 /\ activeBufs' = 0 /\ pool' = 0 /\ nvme' = 0
  /\ lru' = {}
  /\ UNCHANGED <<heap, open, owned, ownedCount, held, req>>

Handler(t) ==
  \/ TryTier2(t) \/ TryTier3(t) \/ TryPin(t) \/ Account(t) \/ Register(t) \/ Map(t)
  \/ ReadOwned(t) \/ SetOwned(t) \/ ClearOwned(t)
  \/ Lookup(t) \/ Advise(t) \/ Relabel(t) \/ Delist(t)
  \/ Unlink(t) \/ Unregister(t) \/ Release(t)
  \/ ResetEntry(t) \/ UnloadEntry(t) \/ CleanupEntry(t) \/ SkipEntry(t) \/ ScanEnds(t)

Next ==
  \/ Load
  \/ \E h \in Handles : Open(h)
  \/ \E t \in Threads : Handler(t) \/ Unload(t)
  \/ \E t \in Threads, h \in Handles :
       AskMemory(t, h) \/ AskBuffer(t, h) \/ AskReset(t, h) \/ Close(t, h)

Spec == Init /\ [][Next]_vars
-----------------------------------------------------------------------------
(* Properties *)

TypeOK ==
  /\ \A b \in Live : heap[b] \in Buffer
  /\ table \in [Ids -> Bufs \cup {NoBuf}]
  /\ nextId \in 0 .. MaxBufs /\ activeBufs \in Nat
  /\ pool \in Nat /\ nvme \in Nat
  /\ lru \subseteq Bufs /\ open \subseteq Handles
  /\ \A h \in Handles : owned[h] \subseteq Ids /\ ownedCount[h] \in Nat /\ held[h] \subseteq Ids
  /\ loaded \in BOOLEAN

Pinned == {b \in Live : heap[b].backing # "paged"}
Bytes(B) == Cardinality(UNION {{b} \X (1 .. heap[b].size) : b \in B})

(* Between requests the counters GET_INFO reports are the memory the driver *)
(* really holds: PoolAllocated is "bytes currently pinned", NvmeAllocated   *)
(* the paged rest, ActiveBufs the live buffers (greenboost_win.h:221-228).  *)
CountersAreExact ==
  (Quiet /\ loaded) => /\ pool = Bytes(Pinned)
                        /\ nvme = Bytes(Live \ Pinned)
                        /\ activeBufs = Cardinality(Live)

(* Whatever EVICT does to the tiers, the two counters together are the      *)
(* memory the driver holds (greenboost_win.c:1106-1109, 1114-1123).         *)
TotalIsExact ==
  (Quiet /\ loaded) => pool + nvme = Bytes(Live) /\ activeBufs = Cardinality(Live)

(* Every live buffer can still be released: its id leads to it, and the     *)
(* open handle it came from owns it, so closing that handle frees it        *)
(* (greenboost_win.h:256-259).                                              *)
NoOrphans ==
  Quiet => \A b \in Live : /\ heap[b].id \in Ids /\ table[heap[b].id] = b
                           /\ \E h \in open : heap[b].id \in owned[h]

(* No handler uses a buffer that another request has freed.  Pointers from  *)
(* GbLookupBuf are used after BufLock is released (lines 181-195), so only  *)
(* careful clients keep it.                                                 *)
NoUseOfFreed ==
  \A t \in Threads : req[t].buf # NoBuf => req[t].buf \in Live

(* LruList links no freed buffer, whatever advice, eviction and free did.   *)
LruNodesLive == lru \subseteq Live

(* Nothing is left when the driver is unloaded (lines 1485-1513); after an  *)
(* EVICT the two counters are zero together, one by one they may not be.    *)
UnloadFreesAll == ~loaded => Live = {} /\ pool + nvme = 0 /\ activeBufs = 0

(* greenboost_win.h:258, "we free all owned bufs": closing one handle takes *)
(* no buffer whose id the client of another open handle still holds.        *)
CloseFreesItsOwn ==
  [][\A t \in Threads, h \in open :
       (req[t].op = "close" /\ At(t, "scan") /\ req'[t].buf # NoBuf)
         => req[t].idx \notin held[h]]_vars

(* An id keeps its buffer from the reply that gives it to the client until  *)
(* the client frees it, resets the pool or goes (lines 817-941): the ids a  *)
(* client holds are active buffers, and an id has one holder.               *)
HeldIdsWork ==
  \A h \in open : \A id \in held[h] :
    /\ table[id] \in Live /\ heap[table[id]].active /\ heap[table[id]].id = id
    /\ \A g \in open \ {h} : id \notin held[g]

(* greenboost_win.h:191, "unique buffer ID (1-based)": no two live buffers  *)
(* answer to one id.                                                        *)
UniqueIds ==
  \A b, c \in Live : (heap[b].active /\ heap[c].active /\ heap[b].id = heap[c].id) => b = c

(* greenboost_ioctl_win.h:120, "pin -- never evict while frozen", and :51,  *)
(* "never evict from T2": a frozen T2 buffer stays in T2.                   *)
FrozenStaysInT2 ==
  [][\A b \in Live : (heap[b].frozen /\ heap[b].tier = 2)
        => (heap'[b] = NoBuf \/ heap'[b].tier = 2)]_vars

(* greenboost_win.c:1117, "evicted buffers are not candidates": a      *)
(* buffer EVICT took out of LruList is not linked again.                    *)
EvictedStaysUnlinked ==
  Quiet => \A b \in Pinned : heap[b].tier = 3 => b \notin lru

(* greenboost_win.c:1541, "pool cap": no more is pinned than VirtualVramGb. *)
PoolWithinCap == pool <= PoolCap
=============================================================================
