------------------------------ MODULE FileTensor ------------------------------
(***************************************************************************)
(* windows-port/storage/file_tensor.cpp: a read-only file behind one CUDA  *)
(* virtual address range, with a bounded pool of physical VRAM chunks      *)
(* ("slots") mapped into it on demand and pinned host buffers ("lanes")    *)
(* that stage overlapped file reads and asynchronous copies to the GPU.    *)
(*                                                                         *)
(* One owner thread runs acquire_many, one step per CUDA or file call that *)
(* can block or fail; the kernel's I/O completion, the GPU's copies and    *)
(* the client's consumer kernels run beside it.  A chunk's content is the  *)
(* page whose bytes it holds, or Garbage.                                  *)
(***************************************************************************)
EXTENDS Naturals, FiniteSets, Sequences

CONSTANTS
  PageCount,   \* chunks of the file, the last one zero padded
  Budget,      \* VRAM budget in chunks
  HostBudget,  \* host cache budget in chunks, 0 when it is off
  Jobs,        \* consumer submissions that may be in flight at once
  NoPage,      \* UINT64_MAX, "no page"
  Garbage      \* content that is no page of the file

ASSUME FileTensorAssumption ==
  /\ PageCount \in Nat \ {0}
  /\ Budget \in Nat \ {0}
  /\ HostBudget \in Nat
  /\ NoPage \notin Nat
  /\ Garbage \notin Nat

Smaller(a, b) == IF a <= b THEN a ELSE b

Pages == 0 .. PageCount - 1
SlotCount == Smaller(Budget, PageCount)
Slots == 1 .. SlotCount
Cache == HostBudget > 0
LaneCount == IF Cache THEN Smaller(HostBudget, PageCount) ELSE 2
Lanes == 1 .. LaneCount
BatchLimit == Smaller(2, LaneCount)

VARIABLES
  map,       \* Slot.page while Slot.mapped, else NoPage
  access,    \* access granted on the slot's mapping: "none", "rw" or "ro"
  data,      \* content of the physical chunk
  slotAge,   \* how many slots were touched after this one (order of Slot.used)
  lanePage,  \* Lane.page
  buffer,    \* content of the pinned host buffer Lane.host
  io,        \* Lane.pending: "idle", else "reading", "read" or "bad"
  target,    \* page at the file offset in Lane.io
  laneAge,   \* order of Lane.used
  copies,    \* host-to-device copies the stream has not executed
  jobs,      \* state of each consumer: "none", "stream", "other" or "fenced"
  uses,      \* pages each consumer reads
  pc,        \* where the owner thread is
  want,      \* "required" of the latest acquire_many
  todo,      \* pages of the request not looked up yet
  missing,   \* "missing"
  page,      \* loop variable of the second loop
  slot,      \* slot chosen for page
  lane,      \* lane chosen for page
  batch,     \* "batch": reads and cache hits not handed to the stream yet
  poisoned,  \* Impl.poisoned
  fault      \* the CUDA context has a sticky error

slotVars == <<map, access, data, slotAge>>
laneVars == <<lanePage, buffer, io, target, laneAge>>
gpuVars  == <<copies, jobs, uses, fault>>
callVars == <<pc, want, todo, missing, page, slot, lane, batch>>
vars == <<slotVars, laneVars, gpuVars, callVars, poisoned>>

Mapped(p) == \E s \in Slots : map[s] = p
MappedPages == {map[s] : s \in Slots} \cap Pages

Remaining == {p \in missing : ~Mapped(p)}

(* used = ++clock: x becomes the most recent, the others keep their order  *)
Touch(age, x) ==
  [y \in DOMAIN age |-> IF y = x THEN 0
                        ELSE IF age[y] < age[x] THEN age[y] + 1 ELSE age[y]]

(* mutant: nothing was recorded on the stream for other streams *)
StreamIdleUnfenced ==
  /\ copies = {}
  /\ \A k \in Jobs : jobs[k] # "stream"

(* mutant: the barrier looks at consumers only *)
StreamIdleUncopied == \A k \in Jobs : jobs[k] \notin {"stream", "fenced"}

(* cuStreamSynchronize returns: copies, consumers submitted on stream() and *)
(* consumers fenced by record_use are finished                              *)
StreamIdle ==
  /\ copies = {}
  /\ \A k \in Jobs : jobs[k] \notin {"stream", "fenced"}

(* The slots the loop of lines 227-230 considers, and the one it settles on *)
Evictable == {s \in Slots : map[s] = NoPage \/ map[s] \notin want}

(* mutant: the first slot, whatever it holds *)
VictimFirst(s) ==
  IF \E t \in Slots : map[t] = NoPage
  THEN map[s] = NoPage /\ \A t \in Slots : t < s => map[t] # NoPage
  ELSE s = 1

Victim(s) ==
  IF \E t \in Slots : map[t] = NoPage
  THEN map[s] = NoPage /\ \A t \in Slots : t < s => map[t] # NoPage
  ELSE s \in Evictable /\ \A t \in Evictable : slotAge[t] <= slotAge[s]

(* The lanes lines 239-245 consider *)
CachedIn(p) == {l \in Lanes : Cache /\ lanePage[l] = p}
Busy == {batch[i].lane : i \in DOMAIN batch}

Chosen(l) ==
  IF CachedIn(page) # {}
  THEN l \in CachedIn(page) /\ \A m \in CachedIn(page) : l <= m
  ELSE l \in Lanes \ Busy /\ \A m \in Lanes \ Busy : laneAge[m] <= laneAge[l]

-----------------------------------------------------------------------------

Init ==
  /\ map = [s \in Slots |-> NoPage]
  /\ access = [s \in Slots |-> "none"]
  /\ data = [s \in Slots |-> Garbage]
  /\ slotAge = [s \in Slots |-> SlotCount - s]
  /\ lanePage = [l \in Lanes |-> NoPage]
  /\ buffer = [l \in Lanes |-> Garbage]
  /\ io = [l \in Lanes |-> "idle"]
  /\ target = [l \in Lanes |-> NoPage]
  /\ laneAge = [l \in Lanes |-> LaneCount - l]
  /\ copies = {}
  /\ jobs = [k \in Jobs |-> "none"]
  /\ uses = [k \in Jobs |-> {}]
  /\ pc = "idle"
  /\ want = {} /\ todo = {} /\ missing = {}
  /\ page = NoPage /\ slot = NoPage /\ lane = NoPage
  /\ batch = <<>>
  /\ poisoned = FALSE /\ fault = FALSE

-----------------------------------------------------------------------------
(* The owner thread: acquire_many *)

(* mutant: each span is compared with the pool, their union is not *)
FitsAlone(req) == \E r \in SUBSET req : Cardinality(r) <= SlotCount

(* Lines 183-194: the union of the aligned spans fits the pool *)
Fits(req) == Cardinality(req) <= SlotCount

(* Lines 179-194: the request is the union of the aligned spans; a union    *)
(* larger than the pool is refused before anything changes, so only the     *)
(* accepted requests are steps.  The client keeps the contract of           *)
(* file_tensor.h:10-12: work on another stream was recorded by record_use.  *)
Acquire(req) ==
  /\ pc = "idle"
  /\ ~poisoned
  /\ \A k \in Jobs : jobs[k] # "other"
  /\ Fits(req)
  /\ want' = req
  /\ todo' = req
  /\ pc' = "scan"
  /\ UNCHANGED <<slotVars, laneVars, gpuVars, missing, page, slot, lane, batch, poisoned>>

(* mutant: a hit does not refresh the slot, as a first-in first-out pool *)
LookupFifo(p) ==
  /\ pc = "scan"
  /\ p \in todo
  /\ todo' = todo \ {p}
  /\ missing' = IF Mapped(p) THEN missing ELSE missing \cup {p}
  /\ UNCHANGED <<slotVars, laneVars, gpuVars, pc, want, page, slot, lane, batch, poisoned>>

(* Lines 195-199, one page of the request (its order is the caller's) *)
Lookup(p) ==
  /\ pc = "scan"
  /\ p \in todo
  /\ todo' = todo \ {p}
  /\ \/ \E s \in Slots : /\ map[s] = p
                         /\ slotAge' = Touch(slotAge, s)
                         /\ UNCHANGED missing
     \/ /\ ~Mapped(p)
        /\ missing' = missing \cup {p}
        /\ UNCHANGED slotAge
  /\ UNCHANGED <<map, access, data, laneVars, gpuVars, pc, want, page, slot, lane, batch, poisoned>>

(* Line 201: a completely resident request returns without a barrier *)
LookedUp ==
  /\ pc = "scan"
  /\ todo = {}
  /\ pc' = IF missing = {} THEN "idle" ELSE "sync"
  /\ UNCHANGED <<slotVars, laneVars, gpuVars, want, todo, missing, page, slot, lane, batch, poisoned>>

(* Line 203 *)
FinishConsumers ==
  /\ pc = "sync"
  /\ ~fault /\ StreamIdle
  /\ pc' = "slot"
  /\ UNCHANGED <<slotVars, laneVars, gpuVars, want, todo, missing, page, slot, lane, batch, poisoned>>

(* Lines 225-235: the next missing page takes a free slot, else the least   *)
(* recently used one that holds no page of this request                     *)
TakeSlot(p, s) ==
  /\ pc = "slot"
  /\ ~fault
  /\ p \in Remaining
  /\ Victim(s)
  /\ map' = [map EXCEPT ![s] = NoPage]
  /\ access' = [access EXCEPT ![s] = "none"]
  /\ page' = p
  /\ slot' = s
  /\ pc' = "map"
  /\ UNCHANGED <<data, slotAge, laneVars, gpuVars, want, todo, missing, lane, batch, poisoned>>

(* Lines 236-238: the chunk still holds what it held before *)
MapPage ==
  /\ pc = "map"
  /\ ~fault
  /\ map' = [map EXCEPT ![slot] = page]
  /\ slotAge' = Touch(slotAge, slot)
  /\ access' = [access EXCEPT ![slot] = "rw"]
  /\ slot' = NoPage
  /\ pc' = "lane"
  /\ UNCHANGED <<data, laneVars, gpuVars, want, todo, missing, page, lane, batch, poisoned>>

(* Lines 239-246 *)
TakeLane(l) ==
  /\ pc = "lane"
  /\ Chosen(l)
  /\ lane' = l
  /\ pc' = "fence"
  /\ UNCHANGED <<slotVars, laneVars, gpuVars, want, todo, missing, page, slot, batch, poisoned>>

(* mutant: line 247 is missing *)
LaneUnfenced == TRUE

(* Line 247, cuEventSynchronize(lane->done): no copy reads the lane's buffer *)
LaneFree == \A c \in copies : c.lane # lane

(* Line 262: where the loop goes once the page is in the batch *)
AfterPush(b) == IF Len(b) = BatchLimit \/ Remaining = {} THEN "finish" ELSE "slot"

(* Lines 247-262: the lane caches the page, or a read into it is started *)
Stage ==
  /\ pc = "fence"
  /\ ~fault /\ LaneFree
  /\ laneAge' = Touch(laneAge, lane)
  /\ LET hit == lane \in CachedIn(page) IN
     /\ batch' = Append(batch, [page |-> page, lane |-> lane, read |-> ~hit])
     /\ \/ hit /\ UNCHANGED <<lanePage, buffer, io, target>>
        \/ /\ ~hit
           /\ lanePage' = [lanePage EXCEPT ![lane] = NoPage]
           /\ target' = [target EXCEPT ![lane] = page]
           /\ io' = [io EXCEPT ![lane] = "reading"]
           /\ buffer' = [buffer EXCEPT ![lane] = Garbage]
  /\ page' = NoPage
  /\ lane' = NoPage
  /\ pc' = AfterPush(batch')
  /\ UNCHANGED <<slotVars, gpuVars, want, todo, missing, slot, poisoned>>

(* mutant: line 213 does not compare got with wanted *)
CollectedShort(item) ==
  \/ /\ item.read
     /\ io[item.lane] \in {"read", "bad"}
     /\ io' = [io EXCEPT ![item.lane] = "idle"]
     /\ lanePage' = [lanePage EXCEPT ![item.lane] = item.page]
  \/ /\ ~item.read
     /\ UNCHANGED <<io, lanePage>>

(* Lines 207-216: wait for the read of the batch's first item, if it has one *)
Collected(item) ==
  \/ /\ item.read
     /\ io[item.lane] = "read"
     /\ io' = [io EXCEPT ![item.lane] = "idle"]
     /\ lanePage' = [lanePage EXCEPT ![item.lane] = item.page]
  \/ /\ ~item.read
     /\ UNCHANGED <<io, lanePage>>

(* Lines 217-221: hand the item to the stream *)
Upload ==
  /\ pc = "finish"
  /\ batch # <<>>
  /\ ~fault
  /\ Collected(Head(batch))
  /\ copies' = copies \cup {[lane |-> Head(batch).lane, page |-> Head(batch).page]}
  /\ batch' = Tail(batch)
  /\ UNCHANGED <<slotVars, buffer, target, laneAge, jobs, uses, fault, pc, want, todo, missing, page, slot, lane, poisoned>>

(* Line 223 and the loop head or line 264 *)
BatchDone ==
  /\ pc = "finish"
  /\ batch = <<>>
  /\ pc' = IF Remaining = {} THEN "drain" ELSE "slot"
  /\ UNCHANGED <<slotVars, laneVars, gpuVars, want, todo, missing, page, slot, lane, batch, poisoned>>

(* mutant: line 265 is missing *)
DrainAtOnce ==
  /\ pc = "drain"
  /\ ~fault
  /\ access' = [s \in Slots |-> IF map[s] \in missing THEN "ro" ELSE access[s]]
  /\ missing' = {}
  /\ pc' = "idle"
  /\ UNCHANGED <<map, data, slotAge, laneVars, gpuVars, want, todo, page, slot, lane, batch, poisoned>>

(* Lines 265-266: the request is resident and becomes read only *)
Drain ==
  /\ pc = "drain"
  /\ ~fault /\ StreamIdle
  /\ access' = [s \in Slots |-> IF map[s] \in missing THEN "ro" ELSE access[s]]
  /\ missing' = {}
  /\ pc' = "idle"
  /\ UNCHANGED <<map, data, slotAge, laneVars, gpuVars, want, todo, page, slot, lane, batch, poisoned>>

-----------------------------------------------------------------------------
(* Failures: line 267 poisons the object wherever the call fails *)

Thrown ==
  /\ poisoned' = TRUE
  /\ pc' = "idle"
  /\ todo' = {} /\ missing' = {}
  /\ page' = NoPage /\ slot' = NoPage /\ lane' = NoPage
  /\ batch' = <<>>
  /\ UNCHANGED want

(* mutant: a read that fails is started again *)
CallFailsButReads ==
  \/ /\ pc \in {"sync", "slot", "map", "fence", "drain"} \/ fault
     /\ Thrown
     /\ UNCHANGED <<slotVars, laneVars, gpuVars>>
  \/ /\ pc = "finish" /\ batch # <<>> /\ Head(batch).read
     /\ io[Head(batch).lane] = "bad"
     /\ io' = [io EXCEPT ![Head(batch).lane] = "reading"]
     /\ UNCHANGED <<slotVars, lanePage, buffer, target, laneAge, gpuVars, callVars, poisoned>>

(* A CUDA or file call fails and changes nothing.  At "lane" nothing is     *)
(* called; line 246 throws if no lane is free, as line 231 does for slots.  *)
CallFails ==
  /\ \/ pc \in {"sync", "slot", "map", "fence", "drain"}
     \/ pc = "finish" /\ batch # <<>>
     \/ pc = "lane" /\ CachedIn(page) = {} /\ Lanes \subseteq Busy
  /\ Thrown
  /\ UNCHANGED <<slotVars, laneVars, gpuVars>>

(* Line 238 fails after line 237: the page is mapped without access *)
AccessFails ==
  /\ pc = "map"
  /\ map' = [map EXCEPT ![slot] = page]
  /\ slotAge' = Touch(slotAge, slot)
  /\ Thrown
  /\ UNCHANGED <<access, data, laneVars, gpuVars>>

(* Line 257 fails after 251: the lane lost its page, no read was started *)
ReadFails ==
  /\ pc = "fence"
  /\ LaneFree
  /\ lane \notin CachedIn(page)
  /\ laneAge' = Touch(laneAge, lane)
  /\ lanePage' = [lanePage EXCEPT ![lane] = NoPage]
  /\ Thrown
  /\ UNCHANGED <<slotVars, buffer, io, target, gpuVars>>

(* Line 219 or 220 fails after 217: the copy is on the stream all the same *)
FenceFails ==
  /\ pc = "finish"
  /\ batch # <<>>
  /\ ~fault
  /\ Collected(Head(batch))
  /\ copies' = copies \cup {[lane |-> Head(batch).lane, page |-> Head(batch).page]}
  /\ Thrown
  /\ UNCHANGED <<slotVars, buffer, target, laneAge, jobs, uses, fault>>

(* Line 266 fails part of the way *)
SealFails(done) ==
  /\ pc = "drain"
  /\ StreamIdle
  /\ access' = [s \in Slots |-> IF map[s] \in done THEN "ro" ELSE access[s]]
  /\ Thrown
  /\ UNCHANGED <<map, data, slotAge, laneVars, gpuVars>>

(* The steps that take acquire_many on *)
Progress ==
  \/ LookedUp \/ FinishConsumers \/ MapPage \/ Stage \/ Upload \/ BatchDone \/ Drain
  \/ \E p \in Pages : Lookup(p) \/ \E s \in Slots : TakeSlot(p, s)
  \/ \E l \in Lanes : TakeLane(l)

Owner ==
  \/ Progress
  \/ CallFails \/ AccessFails \/ ReadFails \/ FenceFails
  \/ \E done \in SUBSET missing : SealFails(done)
-----------------------------------------------------------------------------
(* What runs beside the owner thread *)

(* The overlapped read of a lane completes, in full or short / in error *)
ReadCompletes(l) ==
  /\ io[l] = "reading"
  /\ \/ /\ io' = [io EXCEPT ![l] = "read"]
        /\ buffer' = [buffer EXCEPT ![l] = target[l]]
     \/ /\ io' = [io EXCEPT ![l] = "bad"]
        /\ UNCHANGED buffer
  /\ UNCHANGED <<slotVars, lanePage, target, laneAge, gpuVars, callVars, poisoned>>

(* The GPU executes a copy: whatever the buffer holds now lands in the chunk *)
CopyExecutes(c) ==
  /\ c \in copies
  /\ copies' = copies \ {c}
  /\ data' = [s \in Slots |-> IF map[s] = c.page THEN buffer[c.lane] ELSE data[s]]
  /\ UNCHANGED <<map, access, slotAge, laneVars, jobs, uses, fault, callVars, poisoned>>

(* Asynchronous work fails: the context is lost and its work with it *)
DeviceFault ==
  /\ copies # {} \/ \E k \in Jobs : jobs[k] # "none"
  /\ fault' = TRUE
  /\ copies' = {}
  /\ jobs' = [k \in Jobs |-> "none"]
  /\ uses' = [k \in Jobs |-> {}]
  /\ UNCHANGED <<slotVars, laneVars, callVars, poisoned>>

(* The client submits a consumer of pages it acquired, on stream() or on a  *)
(* stream of its own                                                        *)
Submit(k, P) ==
  /\ pc = "idle"
  /\ ~poisoned /\ ~fault
  /\ jobs[k] = "none"
  /\ P # {} /\ P \subseteq want
  /\ \E where \in {"stream", "other"} : jobs' = [jobs EXCEPT ![k] = where]
  /\ uses' = [uses EXCEPT ![k] = P]
  /\ UNCHANGED <<slotVars, laneVars, copies, fault, callVars, poisoned>>

JobEnds(k) ==
  /\ jobs[k] # "none"
  /\ jobs' = [jobs EXCEPT ![k] = "none"]
  /\ uses' = [uses EXCEPT ![k] = {}]
  /\ UNCHANGED <<slotVars, laneVars, copies, fault, callVars, poisoned>>

(* Lines 172-178 *)
RecordUse ==
  /\ pc = "idle"
  /\ ~poisoned
  /\ \E k \in Jobs : jobs[k] = "other"
  /\ \/ /\ ~fault
        /\ jobs' = [k \in Jobs |-> IF jobs[k] = "other" THEN "fenced" ELSE jobs[k]]
        /\ UNCHANGED poisoned
     \/ /\ poisoned' = TRUE
        /\ UNCHANGED jobs
  /\ UNCHANGED <<slotVars, laneVars, copies, uses, fault, callVars>>

-----------------------------------------------------------------------------
(* The destructor, lines 54-81, and the constructor, lines 102-161 *)

(* The client waits for work it could not record before it destroys *)
Destroy ==
  /\ pc = "idle"
  /\ \A k \in Jobs : jobs[k] # "other"
  /\ pc' = "cancel"
  /\ UNCHANGED <<slotVars, laneVars, gpuVars, want, todo, missing, page, slot, lane, batch, poisoned>>

(* mutant: CancelIoEx without the wait of line 58 *)
CancelReadsNoWait ==
  /\ pc = "cancel"
  /\ pc' = "release"
  /\ UNCHANGED <<slotVars, laneVars, gpuVars, want, todo, missing, page, slot, lane, batch, poisoned>>

(* mutant: line 58 polls until the read is complete *)
CancelReadsPolling ==
  /\ pc = "cancel"
  /\ IF \A l \in Lanes : io[l] \in {"idle", "read"}
     THEN io' = [l \in Lanes |-> "idle"] /\ pc' = "release"
     ELSE UNCHANGED <<io, pc>>
  /\ UNCHANGED <<slotVars, lanePage, buffer, target, laneAge, gpuVars, want, todo, missing, page, slot, lane, batch, poisoned>>

(* Lines 55-59: pending reads are cancelled and waited for *)
CancelReads ==
  /\ pc = "cancel"
  /\ \A l \in Lanes : io[l] # "reading"
  /\ io' = [l \in Lanes |-> "idle"]
  /\ pc' = "release"
  /\ UNCHANGED <<slotVars, lanePage, buffer, target, laneAge, gpuVars, want, todo, missing, page, slot, lane, batch, poisoned>>

(* Lines 61-80: wait for the stream, then unmap and free everything *)
Release ==
  /\ pc = "release"
  /\ StreamIdle
  /\ map' = [s \in Slots |-> NoPage]
  /\ access' = [s \in Slots |-> "none"]
  /\ data' = [s \in Slots |-> Garbage]
  /\ buffer' = [l \in Lanes |-> Garbage]
  /\ lanePage' = [l \in Lanes |-> NoPage]
  /\ pc' = "closed"
  /\ UNCHANGED <<slotAge, io, target, laneAge, gpuVars, want, todo, missing, page, slot, lane, batch, poisoned>>

(* Lines 61 and 76-80: the context cannot be pushed; nothing is waited for, *)
(* unmapped or freed, only the events and the file are closed               *)
Abandon ==
  /\ pc = "release"
  /\ pc' = "abandoned"
  /\ UNCHANGED <<slotVars, laneVars, gpuVars, want, todo, missing, page, slot, lane, batch, poisoned>>

(* Lines 102-161: a new object, in a context that works; what an abandoned  *)
(* one left on the device is no longer reachable                            *)
Construct ==
  /\ pc \in {"closed", "abandoned"}
  /\ map' = [s \in Slots |-> NoPage]
  /\ access' = [s \in Slots |-> "none"]
  /\ data' = [s \in Slots |-> Garbage]
  /\ lanePage' = [l \in Lanes |-> NoPage]
  /\ buffer' = [l \in Lanes |-> Garbage]
  /\ copies' = {}
  /\ jobs' = [k \in Jobs |-> "none"]
  /\ uses' = [k \in Jobs |-> {}]
  /\ pc' = "idle"
  /\ slotAge' = [s \in Slots |-> SlotCount - s]
  /\ laneAge' = [l \in Lanes |-> LaneCount - l]
  /\ target' = [l \in Lanes |-> NoPage]
  /\ want' = {}
  /\ poisoned' = FALSE
  /\ fault' = FALSE
  /\ UNCHANGED <<io, todo, missing, page, slot, lane, batch>>

Device ==
  \/ \E l \in Lanes : ReadCompletes(l)
  \/ \E c \in copies : CopyExecutes(c)
  \/ \E k \in Jobs : JobEnds(k)

Next ==
  \/ \E req \in SUBSET Pages : Acquire(req)
  \/ Owner
  \/ Device \/ DeviceFault
  \/ \E k \in Jobs, P \in SUBSET Pages : Submit(k, P)
  \/ RecordUse
  \/ Destroy \/ CancelReads \/ Release \/ Abandon \/ Construct

Spec == Init /\ [][Next]_vars

(* The call the owner makes now cannot succeed: the context is lost, the    *)
(* read it waited for failed, or lines 231 and 246 find nothing to take.    *)
Refused ==
  \/ fault /\ pc \in {"sync", "slot", "map", "fence", "drain"}
  \/ pc = "slot" /\ Evictable = {}
  \/ pc = "lane" /\ CachedIn(page) = {} /\ Lanes \subseteq Busy
  \/ /\ pc = "finish" /\ batch # <<>>
     /\ IF Head(batch).read
        THEN \/ io[Head(batch).lane] = "bad"
             \/ io[Head(batch).lane] = "read" /\ fault
        ELSE fault

(* The owner thread runs, the disk and the GPU finish what they started.    *)
(* No call is assumed to fail that could succeed: a wait ends because what  *)
(* it waits for happens.                                                    *)
Fairness ==
  /\ WF_vars(Progress \/ (Refused /\ CallFails))
  /\ WF_vars(CancelReads) /\ WF_vars(Release)
  /\ \A l \in Lanes : WF_vars(ReadCompletes(l))
  /\ WF_vars(\E c \in copies : CopyExecutes(c))
  /\ \A k \in Jobs : WF_vars(JobEnds(k))

FairSpec == Spec /\ Fairness
-----------------------------------------------------------------------------
(* Properties *)

SlotOf(p) == {s \in Slots : map[s] = p}
Holds(s) == map[s] \in Pages /\ data[s] = map[s]
Readable(p) == \E s \in Slots : map[s] = p /\ data[s] = p /\ access[s] # "none"

(* struct Pending of line 204 *)
Pending == [page : Pages, lane : Lanes, read : BOOLEAN]

TypeOK ==
  /\ map \in [Slots -> Pages \cup {NoPage}]
  /\ access \in [Slots -> {"none", "rw", "ro"}]
  /\ data \in [Slots -> Pages \cup {Garbage}]
  /\ slotAge \in [Slots -> Nat]
  /\ lanePage \in [Lanes -> Pages \cup {NoPage}]
  /\ buffer \in [Lanes -> Pages \cup {Garbage}]
  /\ io \in [Lanes -> {"idle", "reading", "read", "bad"}]
  /\ target \in [Lanes -> Pages \cup {NoPage}]
  /\ laneAge \in [Lanes -> Nat]
  /\ copies \subseteq [lane : Lanes, page : Pages]
  /\ jobs \in [Jobs -> {"none", "stream", "other", "fenced"}]
  /\ uses \in [Jobs -> SUBSET Pages]
  /\ pc \in {"idle", "scan", "sync", "slot", "map", "lane", "fence", "finish",
             "drain", "cancel", "release", "closed", "abandoned"}
  /\ want \subseteq Pages /\ todo \subseteq want /\ missing \subseteq want
  /\ page \in Pages \cup {NoPage}
  /\ slot \in Slots \cup {NoPage}
  /\ lane \in Lanes \cup {NoPage}
  /\ batch \in Seq(Pending)
  /\ poisoned \in BOOLEAN /\ fault \in BOOLEAN

(* Every page a consumer in flight reads stays mapped, with that page's     *)
(* bytes, until the consumer ends: no eviction, remapping or teardown       *)
(* overtakes it (file_tensor.h:10-13, lines 203 and 172-178).               *)
ConsumersReadTheirPages ==
  \A k \in Jobs : \A p \in uses[k] : Readable(p)

(* Between calls every mapped page of a healthy object holds its own bytes  *)
(* and is read only, and the whole latest request is among them.            *)
AcquiredPagesHoldTheFile ==
  (pc = "idle" /\ ~poisoned) =>
    /\ \A s \in Slots : map[s] # NoPage => Holds(s) /\ access[s] = "ro"
    /\ want \subseteq MappedPages

(* A copy the GPU has not executed finds its page mapped for writing and    *)
(* its host buffer holding that page: no lane is reused under it.           *)
CopiesReadStableBuffers ==
  \A c \in copies :
    /\ buffer[c.lane] = c.page /\ io[c.lane] = "idle"
    /\ \E s \in Slots : map[s] = c.page /\ access[s] = "rw"

(* A lane that claims a page holds it: the host cache never serves a torn   *)
(* or superseded buffer as a hit (lines 240, 251 and 214).                  *)
HostCacheIsTruthful ==
  \A l \in Lanes : lanePage[l] # NoPage => buffer[l] = lanePage[l] /\ io[l] = "idle"

(* Lines 231 and 246 are never reached: an accepted request always finds a  *)
(* slot to take and a lane to read through.                                 *)
AlwaysASlotAndALane ==
  /\ pc = "slot" => Evictable # {}
  /\ pc = "lane" => CachedIn(page) # {} \/ ~(Lanes \subseteq Busy)

(* A read is never started on a lane whose previous read is outstanding or  *)
(* uncollected: one OVERLAPPED, one event and one buffer per read           *)
(* (lines 242-258).                                                         *)
OneReadPerLane ==
  /\ pc = "fence" => io[lane] = "idle"
  /\ \A i, j \in DOMAIN batch : batch[i].lane = batch[j].lane => i = j

(* No page is mapped from two physical chunks at once. *)
OneSlotPerPage ==
  \A s, t \in Slots : map[s] = map[t] /\ map[s] # NoPage => s = t

(* Host buffers, events and mappings are freed only when neither the disk   *)
(* nor the GPU can still touch them, even after a failure left reads and    *)
(* copies behind (lines 54-81); an abandoned object frees none of them.     *)
QuietTeardown ==
  pc = "closed" =>
    /\ copies = {} /\ \A l \in Lanes : io[l] = "idle"
    /\ \A k \in Jobs : jobs[k] = "none"

(* A page that is resident when it is requested again is neither evicted    *)
(* nor rewritten by the call that requests it.                              *)
RequestedPagesStay ==
  [][\A s \in Slots :
       (pc \notin {"idle", "cancel", "release", "closed", "abandoned"} /\ map[s] \in want)
         => map'[s] = map[s]]_vars

(* acquire_many returns or throws: every wait of it ends because the disk   *)
(* and the GPU finish, in full, short or in error (lines 203-265).          *)
CallsEnd == pc = "scan" ~> pc = "idle"

(* The destructor ends, even on an object poisoned with work in flight.     *)
TeardownEnds == pc = "cancel" ~> pc \in {"closed", "abandoned"}

(* What the client of file_tensor.h sees *)
Implements == INSTANCE Residency WITH
  Budget <- SlotCount,
  resident <- {p \in Pages : Readable(p)},
  inUse <- UNION {uses[k] : k \in Jobs},
  phase <- IF pc = "abandoned" THEN "lost"
           ELSE IF pc \in {"cancel", "release", "closed"} THEN "closed"
           ELSE IF poisoned THEN "failed"
           ELSE IF pc = "idle" THEN "idle" ELSE "busy"

(* The client-visible promise of Residency is kept at every step.           *)
ImplementsResidency == Implements!RSpec
=============================================================================
