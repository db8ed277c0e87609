--------------------------- MODULE FileTensorProofs ---------------------------
(***************************************************************************)
(* Proofs about FileTensor for every file size, VRAM budget, host cache    *)
(* budget and set of consumers.                                            *)
(***************************************************************************)
EXTENDS FileTensorHistory, FileTensorInv, FiniteSetTheorems, TLAPS

(* What the constructor's arithmetic gives the rest of the object. *)
LEMMA Sizes ==
  /\ SlotCount \in Nat \ {0} /\ LaneCount \in Nat \ {0}
  /\ BatchLimit \in {1, 2} /\ BatchLimit <= LaneCount
  /\ Pages \subseteq Nat /\ Slots \subseteq Nat /\ Lanes \subseteq Nat
  /\ NoPage \notin Pages /\ NoPage \notin Slots /\ NoPage \notin Lanes
  /\ Garbage \notin Pages
BY FileTensorAssumption DEF SlotCount, LaneCount, BatchLimit, Smaller, Cache, Pages, Slots,
   Lanes

(* Touching keeps the replacement order a function to Nat.                  *)
LEMMA TouchType ==
  ASSUME NEW S, NEW age \in [S -> Nat], NEW x
  PROVE  Touch(age, x) \in [S -> Nat]
BY DEF Touch

(* What pushing an item onto the batch does (line 261).                     *)
LEMMA AppendFacts ==
  ASSUME NEW b \in Seq(Pending), NEW e \in Pending
  PROVE  /\ Append(b, e) \in Seq(Pending)
         /\ Len(b) \in Nat /\ Len(Append(b, e)) = Len(b) + 1
         /\ DOMAIN Append(b, e) = DOMAIN b \cup {Len(b) + 1}
         /\ Len(b) + 1 \notin DOMAIN b
         /\ \A i \in DOMAIN b : Append(b, e)[i] = b[i]
         /\ Append(b, e)[Len(b) + 1] = e
OBVIOUS

(* What removing the first item of the batch does (line 221).               *)
LEMMA TailFacts ==
  ASSUME NEW b \in Seq(Pending), b # <<>>
  PROVE  /\ Tail(b) \in Seq(Pending)
         /\ Head(b) = b[1] /\ 1 \in DOMAIN b /\ b[1] \in Pending
         /\ Len(b) \in Nat /\ Len(Tail(b)) = Len(b) - 1
         /\ \A i \in DOMAIN Tail(b) :
              i + 1 \in DOMAIN b /\ i + 1 # 1 /\ Tail(b)[i] = b[i + 1]
         /\ \A j \in DOMAIN b : j # 1 =>
              j - 1 \in DOMAIN Tail(b) /\ Tail(b)[j - 1] = b[j]
OBVIOUS

USE DEF InLoop

(* A new object satisfies the invariant (lines 102-161).                    *)
LEMMA InitInv == Init => IInv
<1> SUFFICES ASSUME Init PROVE IInv
  OBVIOUS
<1> USE Sizes DEF Init
<1>1. TypeOK
  <2>1. slotAge \in [Slots -> Nat]
    BY DEF Slots
  <2>2. laneAge \in [Lanes -> Nat]
    BY DEF Lanes
  <2>3. batch \in Seq(Pending)
    OBVIOUS
  <2>4. QED
    BY <2>1, <2>2, <2>3 DEF TypeOK
<1>2. CallInv /\ BatchInv
  <2>1. Cardinality({}) = 0
    BY FS_EmptySet
  <2>2. QED
    BY <2>1 DEF CallInv, BatchInv
<1>3. LaneInv /\ SlotInv /\ OneSlotPerPage /\ HostCacheIsTruthful
  BY DEF LaneInv, SlotInv, OneSlotPerPage, HostCacheIsTruthful
<1>4. WantInv /\ JobInv /\ ClosedInv
  BY DEF WantInv, JobInv, ClosedInv
<1>5. QED
  BY <1>1, <1>2, <1>3, <1>4 DEF IInv

(* A request that fits the pool is accepted (lines 179-194).                *)
LEMMA AcquireInv ==
  ASSUME IInv, NEW req \in SUBSET Pages, Acquire(req)
  PROVE  IInv'
<1> USE DEF Acquire, slotVars, laneVars, gpuVars
<1>1. TypeOK'
  BY DEF IInv, TypeOK, CallInv
<1>2. CallInv'
  BY DEF IInv, CallInv, Fits
<1>3. BatchInv'
  BY DEF IInv, CallInv, BatchInv
<1>4. LaneInv' /\ SlotInv'
  BY DEF IInv, CallInv, LaneInv, SlotInv, Busy
<1>5. OneSlotPerPage' /\ HostCacheIsTruthful'
  BY DEF IInv, OneSlotPerPage, HostCacheIsTruthful
<1>6. WantInv' /\ JobInv' /\ ClosedInv'
  BY DEF IInv, WantInv, JobInv, ClosedInv, Readable
<1>7. QED
  BY <1>1, <1>2, <1>3, <1>4, <1>5, <1>6 DEF IInv

(* A page of the request is found or becomes missing (195-199).             *)
LEMMA LookupInv ==
  ASSUME IInv, NEW p \in Pages, Lookup(p)
  PROVE  IInv'
<1> USE Sizes DEF IInv, Lookup, slotVars, laneVars, gpuVars
<1>1. TypeOK'
  <2>1. slotAge \in [Slots -> Nat]
    BY DEF TypeOK
  <2>2. slotAge' \in [Slots -> Nat]
    <3>1. \A x : Touch(slotAge, x) \in [Slots -> Nat]
      BY <2>1, TouchType
    <3>2. QED
      BY <2>1, <3>1
  <2>3. missing' \subseteq want /\ todo' \subseteq want
    BY DEF TypeOK
  <2>4. QED
    BY <2>2, <2>3 DEF TypeOK
<1>2. CallInv'
  BY DEF CallInv, Mapped
<1>3. BatchInv'
  BY DEF CallInv, BatchInv
<1>4. LaneInv'
  BY DEF CallInv, LaneInv, Busy
<1>5. SlotInv'
  BY DEF CallInv, SlotInv, Mapped
<1>6. OneSlotPerPage'
  BY DEF OneSlotPerPage
<1>7. HostCacheIsTruthful'
  BY DEF HostCacheIsTruthful
<1>8. WantInv'
  BY DEF WantInv, Mapped
<1>9. JobInv' /\ ClosedInv'
  BY DEF JobInv, ClosedInv, Readable
<1>10. QED
  BY <1>1, <1>2, <1>3, <1>4, <1>5, <1>6, <1>7, <1>8, <1>9

(* The first loop ends (lines 200-201).                                     *)
LEMMA LookedUpInv ==
  ASSUME IInv, LookedUp
  PROVE  IInv'
<1> USE Sizes DEF IInv, LookedUp, slotVars, laneVars, gpuVars
<1>1. TypeOK'
  BY DEF TypeOK
<1>2. CallInv'
  BY DEF CallInv, Mapped
<1>3. BatchInv'
  BY DEF CallInv, BatchInv
<1>4. LaneInv'
  BY DEF CallInv, LaneInv, Busy
<1>5. SlotInv'
  BY DEF SlotInv, InFlight
<1>6. OneSlotPerPage'
  BY DEF OneSlotPerPage
<1>7. HostCacheIsTruthful'
  BY DEF HostCacheIsTruthful
<1>8. WantInv'
  BY DEF WantInv, Mapped
<1>9. JobInv' /\ ClosedInv'
  BY DEF JobInv, ClosedInv, Readable
<1>10. QED
  BY <1>1, <1>2, <1>3, <1>4, <1>5, <1>6, <1>7, <1>8, <1>9

(* After the barrier of line 203 no consumer runs.                          *)
LEMMA FinishConsumersInv ==
  ASSUME IInv, FinishConsumers
  PROVE  IInv'
<1> USE Sizes DEF IInv, FinishConsumers, StreamIdle, slotVars, laneVars, gpuVars
<1>1. TypeOK'
  BY DEF TypeOK
<1>2. CallInv'
  <2>1. batch = <<>> /\ Len(batch) < BatchLimit
    BY DEF CallInv
  <2>2. Remaining' # {}
    BY DEF CallInv, Remaining, Mapped
  <2>3. QED
    BY <2>1, <2>2 DEF CallInv
<1>3. BatchInv'
  BY DEF CallInv, BatchInv
<1>4. LaneInv'
  BY ZenonT(60) DEF LaneInv, Busy
<1>5. SlotInv'
  BY DEF SlotInv, InFlight
<1>6. OneSlotPerPage'
  BY DEF OneSlotPerPage
<1>7. HostCacheIsTruthful'
  BY DEF HostCacheIsTruthful
<1>8. WantInv'
  BY DEF WantInv, Mapped
<1>9. JobInv' /\ ClosedInv'
  BY DEF TypeOK, JobInv, ClosedInv
<1>10. QED
  BY <1>1, <1>2, <1>3, <1>4, <1>5, <1>6, <1>7, <1>8, <1>9

(* The evicted page is none of the request, so no copy waits for it.        *)
LEMMA TakeSlotInv ==
  ASSUME IInv, NEW p \in Pages, NEW s \in Slots, TakeSlot(p, s)
  PROVE  IInv'
<1> USE Sizes DEF IInv, TakeSlot, slotVars, laneVars, gpuVars
<1>1. TypeOK'
  BY DEF TypeOK
<1>2. CallInv'
  BY DEF TypeOK, CallInv, Remaining, Mapped
<1>0. map[s] = NoPage \/ map[s] \notin want
  BY DEF Victim, Evictable
<1>a. ASSUME NEW q \in want, Writable(q)
      PROVE  Writable(q)'
  BY <1>0, <1>a DEF TypeOK, Writable
<1>3. BatchInv'
  BY <1>a DEF TypeOK, BatchInv
<1>4. LaneInv'
  <2>1. ~poisoned
    BY DEF CallInv
  <2>2. \A c \in copies : Writable(c.page)'
    BY <1>a, <2>1 DEF TypeOK, LaneInv
  <2>3. QED
    BY <2>1, <2>2 DEF LaneInv, Busy
<1>5. SlotInv'
  BY <1>0 DEF TypeOK, SlotInv, InFlight
<1>6. OneSlotPerPage'
  BY DEF OneSlotPerPage
<1>7. HostCacheIsTruthful'
  BY DEF HostCacheIsTruthful
<1>8. WantInv'
  BY <1>0 DEF WantInv, Mapped
<1>9. JobInv' /\ ClosedInv'
  BY DEF JobInv, ClosedInv
<1>10. QED
  BY <1>1, <1>2, <1>3, <1>4, <1>5, <1>6, <1>7, <1>8, <1>9

(* The new mapping is writable and its bytes are still to come.             *)
LEMMA MapPageInv ==
  ASSUME IInv, MapPage
  PROVE  IInv'
<1> USE Sizes DEF IInv, MapPage, slotVars, laneVars, gpuVars
<1>1. TypeOK'
  BY TouchType DEF TypeOK
<1>2. CallInv'
  BY DEF TypeOK, CallInv, Writable
<1>a. ASSUME NEW q \in Pages, Writable(q)
      PROVE  Writable(q)' /\ q # page
  BY <1>a DEF Writable, CallInv, Mapped
<1>3. BatchInv'
  BY <1>a DEF TypeOK, BatchInv
<1>4. LaneInv'
  BY DEF CallInv, LaneInv, Writable, Busy
<1>5. SlotInv'
  BY DEF TypeOK, CallInv, SlotInv, InFlight
<1>6. OneSlotPerPage'
  BY DEF CallInv, OneSlotPerPage, Mapped
<1>7. HostCacheIsTruthful'
  BY DEF HostCacheIsTruthful
<1>8. WantInv'
  BY DEF TypeOK, CallInv, WantInv, Mapped
<1>9. JobInv' /\ ClosedInv'
  BY DEF JobInv, ClosedInv
<1>10. QED
  BY <1>1, <1>2, <1>3, <1>4, <1>5, <1>6, <1>7, <1>8, <1>9

(* The chosen lane is in no batch item (lines 239-246).                     *)
LEMMA TakeLaneInv ==
  ASSUME IInv, NEW l \in Lanes, TakeLane(l)
  PROVE  IInv'
<1> USE Sizes DEF IInv, TakeLane, slotVars, laneVars, gpuVars
<1>1. TypeOK'
  BY DEF TypeOK
<1>2. CallInv'
  <2>1. l \notin Busy
    <3>1. CASE CachedIn(page) # {}
      BY <3>1 DEF Chosen, CachedIn, Busy, BatchInv, LaneInv, CallInv, TypeOK
    <3>2. CASE CachedIn(page) = {}
      BY <3>2 DEF Chosen
    <3>3. QED
      BY <3>1, <3>2
  <2>2. QED
    BY <2>1 DEF CallInv, Busy, Writable
<1>3. BatchInv'
  BY DEF BatchInv, Writable
<1>4. LaneInv'
  BY DEF LaneInv, Writable, Busy
<1>5. SlotInv'
  BY DEF SlotInv, InFlight
<1>6. OneSlotPerPage'
  BY DEF OneSlotPerPage
<1>7. HostCacheIsTruthful'
  BY DEF HostCacheIsTruthful
<1>8. WantInv'
  BY DEF WantInv, Mapped
<1>9. JobInv' /\ ClosedInv'
  BY DEF JobInv, ClosedInv
<1>10. QED
  BY <1>1, <1>2, <1>3, <1>4, <1>5, <1>6, <1>7, <1>8, <1>9

(* The batch grows by a hit or by a read into a free lane (247-262).        *)
LEMMA StageInv ==
  ASSUME IInv, Stage
  PROVE  IInv'
<1> DEFINE hit == lane \in CachedIn(page)
           new == [page |-> page, lane |-> lane, read |-> ~hit]
<1> USE Sizes DEF IInv, slotVars, gpuVars
<1>a. /\ pc = "fence" /\ LaneFree /\ batch' = Append(batch, new)
      /\ lane \in Lanes /\ lane \notin Busy /\ page \in missing /\ page \in Pages
      /\ new \in Pending /\ ~poisoned /\ Writable(page)
      /\ pc' = AfterPush(batch') /\ pc' \in {"slot", "finish"}
      /\ lane' = NoPage /\ page' = NoPage
      /\ UNCHANGED <<slotVars, gpuVars, want, todo, missing, slot, poisoned>>
  BY DEF Stage, CallInv, TypeOK, Pending, AfterPush
<1>b. /\ batch' \in Seq(Pending) /\ Len(batch') = Len(batch) + 1
      /\ Len(batch) \in Nat /\ DOMAIN batch' = DOMAIN batch \cup {Len(batch) + 1}
      /\ Len(batch) + 1 \notin DOMAIN batch
      /\ \A i \in DOMAIN batch : batch'[i] = batch[i] /\ batch[i] \in Pending
      /\ batch'[Len(batch) + 1] = new
  <2>1. batch \in Seq(Pending)
    BY DEF TypeOK
  <2>2. \A i \in DOMAIN batch : batch[i] \in Pending
    BY <2>1
  <2>3. QED
    BY <1>a, <2>1, <2>2, AppendFacts
<1>c. io[lane] = "idle"
  BY <1>a DEF LaneInv, TypeOK
<1>d. \/ hit /\ UNCHANGED <<lanePage, buffer, io, target>>
      \/ /\ ~hit
         /\ lanePage' = [lanePage EXCEPT ![lane] = NoPage]
         /\ target' = [target EXCEPT ![lane] = page]
         /\ io' = [io EXCEPT ![lane] = "reading"]
         /\ buffer' = [buffer EXCEPT ![lane] = Garbage]
  BY DEF Stage
<1>e. \A i \in DOMAIN batch : batch[i].lane # lane
  BY <1>a DEF Busy
<1>f. hit => lanePage[lane] = page
  BY DEF CachedIn
<1>g. \A q : Writable(q)' <=> Writable(q)
  BY <1>a DEF Writable
<1>h. Busy' = Busy \cup {lane}
  BY <1>a, <1>b DEF Busy
<1>i. Remaining' = Remaining
  BY <1>a DEF Remaining, Mapped
<1>1. TypeOK'
  <2>1. laneAge' \in [Lanes -> Nat]
    BY TouchType DEF Stage, TypeOK
  <2>2. /\ lanePage' \in [Lanes -> Pages \cup {NoPage}]
        /\ buffer' \in [Lanes -> Pages \cup {Garbage}]
        /\ io' \in [Lanes -> {"idle", "reading", "read", "bad"}]
        /\ target' \in [Lanes -> Pages \cup {NoPage}]
    BY SMTT(60), <1>a, <1>d DEF TypeOK
  <2>3. QED
    BY <1>a, <1>b, <2>1, <2>2 DEF TypeOK
<1>2. CallInv'
  <2>1. pc' = "slot" => Len(batch') < BatchLimit /\ Remaining' # {}
    BY <1>a, <1>b, <1>i DEF AfterPush, CallInv
  <2>2. QED
    BY <1>a, <1>b, <2>1 DEF CallInv, Mapped
<1>3. BatchInv'
  <2> SUFFICES ASSUME NEW i \in DOMAIN batch'
               PROVE  /\ batch'[i].page \in missing /\ Writable(batch'[i].page)
                      /\ batch'[i].read =>
                           io'[batch'[i].lane] # "idle" /\ target'[batch'[i].lane] = batch'[i].page
                      /\ ~batch'[i].read => lanePage'[batch'[i].lane] = batch'[i].page
                      /\ \A j \in DOMAIN batch' : batch'[j].lane = batch'[i].lane => i = j
    BY <1>a, <1>g DEF BatchInv
  <2>1. CASE i = Len(batch) + 1
    <3>1. batch'[i] = new /\ \A j \in DOMAIN batch : batch'[j].lane # lane
      BY <1>b, <1>e, <2>1
    <3>2. new.read => io'[lane] # "idle" /\ target'[lane] = page
      BY <1>a, <1>d DEF TypeOK
    <3>3. ~new.read => lanePage'[lane] = page
      BY <1>d, <1>f
    <3>4. QED
      BY <1>a, <1>b, <2>1, <3>1, <3>2, <3>3
  <2>2. CASE i \in DOMAIN batch
    <3>1. batch'[i] = batch[i] /\ batch[i].lane # lane /\ batch[i] \in Pending
      BY <1>b, <1>e, <2>2
    <3>2. /\ batch[i].page \in missing /\ Writable(batch[i].page)
          /\ batch[i].read => io[batch[i].lane] # "idle" /\ target[batch[i].lane] = batch[i].page
          /\ ~batch[i].read => lanePage[batch[i].lane] = batch[i].page
          /\ \A j \in DOMAIN batch : batch[j].lane = batch[i].lane => i = j
      BY <2>2 DEF BatchInv
    <3>3. /\ io'[batch[i].lane] = io[batch[i].lane]
          /\ target'[batch[i].lane] = target[batch[i].lane]
          /\ lanePage'[batch[i].lane] = lanePage[batch[i].lane]
      BY ZenonT(60), <1>d, <3>1 DEF TypeOK, Pending
    <3>4. \A j \in DOMAIN batch' : batch'[j].lane = batch[i].lane => i = j
      BY <1>b, <3>1, <3>2
    <3>5. QED
      BY <3>1, <3>2, <3>3, <3>4
  <2>3. QED
    BY <1>b, <2>1, <2>2
<1>4. LaneInv'
  <2>1. \A c \in copies : c.lane # lane
    BY <1>a DEF LaneFree
  <2>2. QED
    <3>1. CASE hit
      BY <3>1, <1>a, <1>d, <1>g, <1>h DEF TypeOK, LaneInv
    <3>2. CASE ~hit
      <4>1. \A m \in Lanes \ {lane} :
              /\ io'[m] = io[m] /\ lanePage'[m] = lanePage[m]
              /\ target'[m] = target[m] /\ buffer'[m] = buffer[m]
        BY <1>d, <3>2 DEF TypeOK
      <4>2. /\ io'[lane] = "reading" /\ lanePage'[lane] = NoPage /\ target'[lane] = page
        BY <1>a, <1>d, <3>2 DEF TypeOK
      <4>3. \A m \in Lanes : io'[m] # "idle" =>
              /\ lanePage'[m] = NoPage /\ target'[m] \in Pages
              /\ io'[m] = "read" => buffer'[m] = target'[m]
              /\ \A c \in copies : c.lane # m
              /\ ~poisoned /\ pc \notin {"cancel", "release", "closed"} => m \in Busy'
        BY <1>a, <1>h, <2>1, <4>1, <4>2 DEF LaneInv
      <4>4. \A c \in copies : c.lane \in Lanes
        BY DEF TypeOK
      <4>5. \A c \in copies : /\ buffer'[c.lane] = c.page /\ io'[c.lane] = "idle"
                              /\ Writable(c.page)' /\ c.page \in missing
        BY <1>a, <1>g, <2>1, <4>1, <4>4 DEF LaneInv
      <4>6. QED
        BY <1>a, <4>3, <4>5 DEF LaneInv
    <3>3. QED
      BY <3>1, <3>2
<1>5. SlotInv'
  <2>1. \A q : InFlight(q) => InFlight(q)'
    BY <1>a, <1>b DEF InFlight
  <2>2. QED
    BY <1>a, <2>1 DEF SlotInv
<1>6. OneSlotPerPage'
  BY <1>a DEF OneSlotPerPage
<1>7. HostCacheIsTruthful'
  BY <1>a, <1>d DEF TypeOK, HostCacheIsTruthful
<1>8. WantInv'
  BY <1>a DEF WantInv, Mapped
<1>9. JobInv' /\ ClosedInv'
  BY <1>a DEF JobInv, ClosedInv
<1>10. QED
  BY <1>1, <1>2, <1>3, <1>4, <1>5, <1>6, <1>7, <1>8, <1>9

(* After lines 209-216 the first item's lane holds its page and is idle.    *)
(* Once the read is collected the lane holds the item's page.               *)
LEMMA CollectedFacts ==
  ASSUME IInv, pc = "finish", batch # <<>>, Collected(Head(batch))
  PROVE  LET it == Head(batch) IN
         /\ it \in Pending /\ it.lane \in Lanes /\ it.page \in Pages
         /\ it.page \in missing /\ Writable(it.page)
         /\ buffer[it.lane] = it.page
         /\ io'[it.lane] = "idle" /\ lanePage'[it.lane] = it.page
         /\ io' \in [Lanes -> {"idle", "reading", "read", "bad"}]
         /\ lanePage' \in [Lanes -> Pages \cup {NoPage}]
         /\ \A l \in Lanes \ {it.lane} : io'[l] = io[l] /\ lanePage'[l] = lanePage[l]
         /\ \A j \in DOMAIN batch : j # 1 => batch[j].lane # it.lane
<1> USE Sizes DEF IInv
<1> DEFINE it == Head(batch)
<1>1. batch \in Seq(Pending)
  BY DEF TypeOK
<1>2. it = batch[1] /\ 1 \in DOMAIN batch /\ it \in Pending
  BY <1>1, TailFacts
<1>3. it.lane \in Lanes /\ it.page \in Pages /\ it.page # NoPage
  BY <1>2 DEF Pending
<1>4. /\ it.page \in missing /\ Writable(it.page)
      /\ it.read => io[it.lane] # "idle" /\ target[it.lane] = it.page
      /\ ~it.read => lanePage[it.lane] = it.page
      /\ \A j \in DOMAIN batch : batch[j].lane = it.lane => 1 = j
  BY <1>2 DEF BatchInv
<1>5. CASE it.read
  <2>1. /\ io[it.lane] = "read"
        /\ io' = [io EXCEPT ![it.lane] = "idle"]
        /\ lanePage' = [lanePage EXCEPT ![it.lane] = it.page]
    BY <1>5 DEF Collected
  <2>2. buffer[it.lane] = it.page
    BY <1>3, <1>4, <1>5, <2>1 DEF LaneInv
  <2>3. QED
    BY <1>2, <1>3, <1>4, <2>1, <2>2 DEF TypeOK
<1>6. CASE ~it.read
  <2>1. UNCHANGED <<io, lanePage>>
    BY <1>6 DEF Collected
  <2>2. buffer[it.lane] = it.page /\ io[it.lane] = "idle" /\ lanePage[it.lane] = it.page
    BY <1>3, <1>4, <1>6 DEF HostCacheIsTruthful
  <2>3. QED
    BY <1>2, <1>3, <1>4, <2>1, <2>2 DEF TypeOK
<1>7. QED
  BY <1>5, <1>6

(* The head of the batch goes to the stream (lines 207-221).                *)
LEMMA UploadInv ==
  ASSUME IInv, Upload
  PROVE  IInv'
<1> DEFINE it == Head(batch)
           new == [lane |-> it.lane, page |-> it.page]
<1> USE Sizes DEF IInv, slotVars
<1>a. /\ pc = "finish" /\ batch # <<>> /\ Collected(it)
      /\ copies' = copies \cup {new} /\ batch' = Tail(batch) /\ ~poisoned
      /\ UNCHANGED <<slotVars, buffer, target, laneAge, jobs, uses, fault, pc, want,
                     todo, missing, page, slot, lane, poisoned>>
  BY DEF Upload, CallInv
<1>b. /\ it \in Pending /\ it.lane \in Lanes /\ it.page \in Pages
      /\ it.page \in missing /\ Writable(it.page)
      /\ buffer[it.lane] = it.page
      /\ io'[it.lane] = "idle" /\ lanePage'[it.lane] = it.page
      /\ io' \in [Lanes -> {"idle", "reading", "read", "bad"}]
      /\ lanePage' \in [Lanes -> Pages \cup {NoPage}]
      /\ \A l \in Lanes \ {it.lane} : io'[l] = io[l] /\ lanePage'[l] = lanePage[l]
      /\ \A j \in DOMAIN batch : j # 1 => batch[j].lane # it.lane
  BY <1>a, CollectedFacts
<1>c. batch \in Seq(Pending)
  BY DEF TypeOK
<1>d. /\ batch' \in Seq(Pending) /\ it = batch[1] /\ 1 \in DOMAIN batch
      /\ \A i \in DOMAIN batch' :
           i + 1 \in DOMAIN batch /\ i + 1 # 1 /\ batch'[i] = batch[i + 1]
      /\ \A j \in DOMAIN batch : j # 1 =>
           j - 1 \in DOMAIN batch' /\ batch'[j - 1] = batch[j]
      /\ DOMAIN batch' \subseteq Nat /\ DOMAIN batch \subseteq Nat
  BY <1>a, <1>c, TailFacts
<1>e. \A j \in DOMAIN batch : batch[j] \in Pending
  BY <1>c
<1>g. \A q : Writable(q)' <=> Writable(q)
  BY <1>a DEF Writable
<1>h. Busy \subseteq Busy' \cup {it.lane}
  <2> SUFFICES ASSUME NEW j \in DOMAIN batch, j # 1
               PROVE  batch[j].lane \in Busy'
    BY <1>d DEF Busy
  <2>1. j - 1 \in DOMAIN batch' /\ batch'[j - 1] = batch[j]
    BY <1>d
  <2>2. QED
    BY <2>1 DEF Busy
<1>1. TypeOK'
  BY SMTT(60), <1>a, <1>b, <1>d DEF TypeOK
<1>2. CallInv'
  BY <1>a DEF CallInv
<1>3. BatchInv'
  <2> SUFFICES ASSUME NEW i \in DOMAIN batch'
               PROVE  /\ batch'[i].page \in missing /\ Writable(batch'[i].page)
                      /\ batch'[i].read =>
                           io'[batch'[i].lane] # "idle" /\ target[batch'[i].lane] = batch'[i].page
                      /\ ~batch'[i].read => lanePage'[batch'[i].lane] = batch'[i].page
                      /\ \A j \in DOMAIN batch' : batch'[j].lane = batch'[i].lane => i = j
    BY <1>a, <1>g DEF BatchInv
  <2>1. /\ i + 1 \in DOMAIN batch /\ batch'[i] = batch[i + 1]
        /\ batch[i + 1].lane # it.lane /\ batch[i + 1].lane \in Lanes
    BY <1>b, <1>d, <1>e DEF Pending
  <2>2. /\ batch[i + 1].page \in missing /\ Writable(batch[i + 1].page)
        /\ batch[i + 1].read =>
             io[batch[i + 1].lane] # "idle" /\ target[batch[i + 1].lane] = batch[i + 1].page
        /\ ~batch[i + 1].read => lanePage[batch[i + 1].lane] = batch[i + 1].page
        /\ \A j \in DOMAIN batch : batch[j].lane = batch[i + 1].lane => i + 1 = j
    BY <2>1 DEF BatchInv
  <2>3. \A j \in DOMAIN batch' : batch'[j].lane = batch'[i].lane => i = j
    BY SMTT(60), <1>d, <2>1, <2>2
  <2>4. QED
    BY <1>b, <2>1, <2>2, <2>3
<1>4. LaneInv'
  <2>1. \A c \in copies' : /\ buffer[c.lane] = c.page /\ io'[c.lane] = "idle"
                           /\ Writable(c.page)' /\ c.page \in missing
    <3> SUFFICES ASSUME NEW c \in copies'
                 PROVE  /\ buffer[c.lane] = c.page /\ io'[c.lane] = "idle"
                        /\ Writable(c.page)' /\ c.page \in missing
      OBVIOUS
    <3>1. CASE c = new
      BY <1>b, <1>g, <3>1
    <3>2. CASE c \in copies
      <4>1. c.lane \in Lanes
        BY <3>2 DEF TypeOK
      <4>2. /\ buffer[c.lane] = c.page /\ io[c.lane] = "idle" /\ Writable(c.page)
            /\ c.page \in missing
        BY <1>a, <3>2 DEF LaneInv
      <4>3. QED
        BY <1>b, <1>g, <4>1, <4>2
    <3>3. QED
      BY <1>a, <3>1, <3>2
  <2>2. \A l \in Lanes : io'[l] # "idle" =>
          /\ lanePage'[l] = NoPage /\ target[l] \in Pages
          /\ io'[l] = "read" => buffer[l] = target[l]
          /\ \A c \in copies' : c.lane # l
          /\ l \in Busy'
    BY <1>a, <1>b, <1>h DEF LaneInv
  <2>3. missing \subseteq want
    BY DEF TypeOK
  <2>4. QED
    BY <1>a, <2>1, <2>2, <2>3 DEF LaneInv
<1>5. SlotInv'
  <2>1. \A q : InFlight(q) => InFlight(q)'
    <3> SUFFICES ASSUME NEW q, InFlight(q) PROVE InFlight(q)'
      OBVIOUS
    <3>1. new \in copies' /\ new.page = it.page
      BY <1>a
    <3>2. CASE \E i \in DOMAIN batch : batch[i].page = q
      BY <1>d, <3>1, <3>2 DEF InFlight
    <3>3. CASE \E c \in copies : c.page = q
      BY <1>a, <3>3 DEF InFlight
    <3>4. QED
      BY <1>a, <3>2, <3>3 DEF InFlight
  <2>2. QED
    BY <1>a, <2>1 DEF SlotInv
<1>6. OneSlotPerPage'
  BY <1>a DEF OneSlotPerPage
<1>7. HostCacheIsTruthful'
  BY <1>a, <1>b DEF HostCacheIsTruthful
<1>8. WantInv'
  BY <1>a DEF WantInv, Mapped
<1>9. JobInv' /\ ClosedInv'
  BY <1>a DEF JobInv, ClosedInv
<1>10. QED
  BY <1>1, <1>2, <1>3, <1>4, <1>5, <1>6, <1>7, <1>8, <1>9

(* The batch is empty and the loop goes on or ends (line 223).              *)
LEMMA BatchDoneInv ==
  ASSUME IInv, BatchDone
  PROVE  IInv'
<1> USE Sizes DEF IInv, BatchDone, slotVars, laneVars, gpuVars
<1>1. TypeOK'
  BY DEF TypeOK
<1>2. CallInv'
  BY DEF CallInv, Remaining, Mapped
<1>3. BatchInv'
  BY DEF BatchInv
<1>4. LaneInv'
  BY DEF LaneInv, Writable, Busy
<1>5. SlotInv'
  BY DEF SlotInv, InFlight
<1>6. OneSlotPerPage'
  BY DEF OneSlotPerPage
<1>7. HostCacheIsTruthful'
  BY DEF HostCacheIsTruthful
<1>8. WantInv'
  BY DEF WantInv, Mapped
<1>9. JobInv' /\ ClosedInv'
  BY DEF JobInv, ClosedInv
<1>10. QED
  BY <1>1, <1>2, <1>3, <1>4, <1>5, <1>6, <1>7, <1>8, <1>9

(* Nothing is in flight, so every missing page has its bytes (264-266).     *)
LEMMA DrainInv ==
  ASSUME IInv, Drain
  PROVE  IInv'
<1> USE Sizes DEF IInv, Drain, StreamIdle, slotVars, laneVars, gpuVars
<1>1. TypeOK'
  BY DEF TypeOK
<1>2. CallInv'
  BY DEF CallInv
<1>3. BatchInv'
  BY DEF CallInv, BatchInv
<1>4. LaneInv'
  BY ZenonT(60) DEF LaneInv, Busy
<1>5. SlotInv'
  BY DEF CallInv, SlotInv, InFlight
<1>6. OneSlotPerPage'
  BY DEF OneSlotPerPage
<1>7. HostCacheIsTruthful'
  BY DEF HostCacheIsTruthful
<1>8. WantInv'
  BY DEF CallInv, WantInv, Mapped, Remaining
<1>9. JobInv' /\ ClosedInv'
  BY DEF JobInv, ClosedInv
<1>10. QED
  BY <1>1, <1>2, <1>3, <1>4, <1>5, <1>6, <1>7, <1>8, <1>9

(* A failing call poisons the object and changes nothing else.              *)
LEMMA CallFailsInv ==
  ASSUME IInv, CallFails
  PROVE  IInv'
<1> USE Sizes DEF IInv, CallFails, Thrown, slotVars, laneVars, gpuVars
<1>1. TypeOK'
  BY DEF TypeOK
<1>2. CallInv'
  BY DEF CallInv
<1>3. BatchInv'
  BY DEF BatchInv
<1>4. LaneInv'
  BY DEF LaneInv, Writable
<1>5. SlotInv'
  BY DEF SlotInv
<1>6. OneSlotPerPage'
  BY DEF OneSlotPerPage
<1>7. HostCacheIsTruthful'
  BY DEF HostCacheIsTruthful
<1>8. WantInv'
  BY DEF WantInv
<1>9. JobInv' /\ ClosedInv'
  BY DEF JobInv, ClosedInv, Readable
<1>10. QED
  BY <1>1, <1>2, <1>3, <1>4, <1>5, <1>6, <1>7, <1>8, <1>9

(* The page stays mapped without access (lines 93-99).                      *)
LEMMA AccessFailsInv ==
  ASSUME IInv, AccessFails
  PROVE  IInv'
<1> USE Sizes DEF IInv, AccessFails, Thrown, slotVars, laneVars, gpuVars
<1>1. TypeOK'
  <2>1. slotAge \in [Slots -> Nat]
    BY DEF TypeOK
  <2>2. slotAge' \in [Slots -> Nat]
    BY <2>1, TouchType
  <2>3. map' \in [Slots -> Pages \cup {NoPage}]
    BY DEF TypeOK
  <2>4. batch' \in Seq(Pending)
    OBVIOUS
  <2>5. QED
    BY <2>2, <2>3, <2>4 DEF TypeOK, CallInv
<1>2. CallInv'
  BY DEF CallInv
<1>3. BatchInv'
  BY DEF BatchInv
<1>4. LaneInv'
  BY DEF CallInv, LaneInv, Writable
<1>5. SlotInv'
  BY DEF SlotInv
<1>6. OneSlotPerPage'
  BY DEF CallInv, OneSlotPerPage, Mapped
<1>7. HostCacheIsTruthful'
  BY DEF HostCacheIsTruthful
<1>8. WantInv'
  BY DEF WantInv
<1>9. JobInv' /\ ClosedInv'
  BY DEF JobInv, ClosedInv
<1>10. QED
  BY <1>1, <1>2, <1>3, <1>4, <1>5, <1>6, <1>7, <1>8, <1>9

(* The lane lost its page before its read failed (lines 250-257).           *)
LEMMA ReadFailsInv ==
  ASSUME IInv, ReadFails
  PROVE  IInv'
<1> USE Sizes DEF IInv, ReadFails, Thrown, slotVars, laneVars, gpuVars
<1>1. TypeOK'
  <2>1. laneAge \in [Lanes -> Nat]
    BY DEF TypeOK
  <2>2. laneAge' \in [Lanes -> Nat]
    BY <2>1, TouchType
  <2>3. lanePage' \in [Lanes -> Pages \cup {NoPage}]
    BY DEF TypeOK
  <2>4. batch' \in Seq(Pending)
    OBVIOUS
  <2>5. QED
    BY <2>2, <2>3, <2>4 DEF TypeOK, CallInv
<1>2. CallInv'
  BY DEF CallInv
<1>3. BatchInv'
  BY DEF BatchInv
<1>4. LaneInv'
  BY DEF LaneInv, Writable
<1>5. SlotInv'
  BY DEF SlotInv
<1>6. OneSlotPerPage'
  BY DEF OneSlotPerPage
<1>7. HostCacheIsTruthful'
  BY DEF HostCacheIsTruthful
<1>8. WantInv'
  BY DEF WantInv
<1>9. JobInv' /\ ClosedInv'
  BY DEF JobInv, ClosedInv
<1>10. QED
  BY <1>1, <1>2, <1>3, <1>4, <1>5, <1>6, <1>7, <1>8, <1>9

(* The copy was queued although the call failed (lines 217-220).            *)
LEMMA FenceFailsInv ==
  ASSUME IInv, FenceFails
  PROVE  IInv'
<1> DEFINE it == Head(batch)
           new == [lane |-> it.lane, page |-> it.page]
<1> USE Sizes DEF IInv, slotVars
<1>a. /\ pc = "finish" /\ batch # <<>> /\ Collected(it) /\ ~poisoned
      /\ copies' = copies \cup {new} /\ poisoned' /\ pc' = "idle"
      /\ todo' = {} /\ missing' = {} /\ batch' = <<>>
      /\ page' = NoPage /\ slot' = NoPage /\ lane' = NoPage
      /\ UNCHANGED <<slotVars, buffer, target, laneAge, jobs, uses, fault, want>>
  BY DEF FenceFails, Thrown, CallInv
<1>b. /\ it \in Pending /\ it.lane \in Lanes /\ it.page \in Pages
      /\ it.page \in missing /\ Writable(it.page)
      /\ buffer[it.lane] = it.page
      /\ io'[it.lane] = "idle" /\ lanePage'[it.lane] = it.page
      /\ io' \in [Lanes -> {"idle", "reading", "read", "bad"}]
      /\ lanePage' \in [Lanes -> Pages \cup {NoPage}]
      /\ \A l \in Lanes \ {it.lane} : io'[l] = io[l] /\ lanePage'[l] = lanePage[l]
  BY <1>a, CollectedFacts
<1>g. \A q : Writable(q)' <=> Writable(q)
  BY <1>a DEF Writable
<1>1. TypeOK'
  BY <1>a, <1>b DEF TypeOK
<1>2. CallInv' /\ BatchInv'
  BY <1>a DEF CallInv, BatchInv
<1>4. LaneInv'
  <2>1. \A c \in copies' : /\ buffer[c.lane] = c.page /\ io'[c.lane] = "idle"
                           /\ Writable(c.page)' /\ c.page \in want
    <3> SUFFICES ASSUME NEW c \in copies'
                 PROVE  /\ buffer[c.lane] = c.page /\ io'[c.lane] = "idle"
                        /\ Writable(c.page)' /\ c.page \in want
      OBVIOUS
    <3>1. CASE c = new
      BY <1>b, <1>g, <3>1 DEF TypeOK
    <3>2. CASE c \in copies
      <4>1. c.lane \in Lanes
        BY <3>2 DEF TypeOK
      <4>2. /\ buffer[c.lane] = c.page /\ io[c.lane] = "idle" /\ Writable(c.page)
            /\ c.page \in want
        BY <1>a, <3>2 DEF LaneInv
      <4>3. QED
        BY <1>b, <1>g, <4>1, <4>2
    <3>3. QED
      BY <1>a, <3>1, <3>2
  <2>2. \A l \in Lanes : io'[l] # "idle" =>
          /\ lanePage'[l] = NoPage /\ target[l] \in Pages
          /\ io'[l] = "read" => buffer[l] = target[l]
          /\ \A c \in copies' : c.lane # l
    BY <1>a, <1>b DEF LaneInv
  <2>3. QED
    BY <1>a, <2>1, <2>2 DEF LaneInv
<1>5. SlotInv' /\ OneSlotPerPage' /\ WantInv'
  BY <1>a DEF SlotInv, OneSlotPerPage, WantInv
<1>7. HostCacheIsTruthful'
  BY <1>a, <1>b DEF HostCacheIsTruthful
<1>9. JobInv' /\ ClosedInv'
  BY <1>a DEF JobInv, ClosedInv
<1>10. QED
  BY <1>1, <1>2, <1>4, <1>5, <1>7, <1>9

(* Some of the pages are already read only (line 266).                      *)
LEMMA SealFailsInv ==
  ASSUME IInv, NEW done \in SUBSET missing, SealFails(done)
  PROVE  IInv'
<1> USE Sizes DEF IInv, SealFails, Thrown, StreamIdle, slotVars, laneVars, gpuVars
<1>1. TypeOK'
  BY DEF TypeOK
<1>2. CallInv'
  BY DEF CallInv
<1>3. BatchInv'
  BY DEF BatchInv
<1>4. LaneInv'
  BY DEF LaneInv
<1>5. SlotInv'
  BY DEF SlotInv
<1>6. OneSlotPerPage'
  BY DEF OneSlotPerPage
<1>7. HostCacheIsTruthful'
  BY DEF HostCacheIsTruthful
<1>8. WantInv'
  BY DEF WantInv
<1>9. JobInv' /\ ClosedInv'
  BY DEF JobInv, ClosedInv
<1>10. QED
  BY <1>1, <1>2, <1>3, <1>4, <1>5, <1>6, <1>7, <1>8, <1>9

(* The disk fills a lane nobody else reads or writes.                       *)
LEMMA ReadCompletesInv ==
  ASSUME IInv, NEW l \in Lanes, ReadCompletes(l)
  PROVE  IInv'
<1> USE Sizes DEF IInv, ReadCompletes, slotVars, laneVars, gpuVars, callVars
<1>1. TypeOK'
  BY SMTT(60) DEF TypeOK, LaneInv
<1>2. CallInv'
  BY DEF TypeOK, CallInv, BatchInv, Remaining, Mapped, Busy, Writable
<1>a. io[l] = "reading" /\ l \in Busy \cup {l} /\ target[l] \in Pages
  BY DEF LaneInv
<1>b. /\ io'[l] \in {"read", "bad"} /\ (io'[l] = "read" => buffer'[l] = target[l])
      /\ \A m \in Lanes \ {l} : io'[m] = io[m] /\ buffer'[m] = buffer[m]
      /\ UNCHANGED <<slotVars, lanePage, target, laneAge, gpuVars, callVars, poisoned>>
  BY DEF TypeOK
<1>c. \A j \in DOMAIN batch : batch[j].lane \in Lanes
  <2>1. batch \in Seq(Pending)
    BY DEF TypeOK
  <2>2. \A j \in DOMAIN batch : batch[j] \in Pending
    BY <2>1
  <2>3. QED
    BY <2>2 DEF Pending
<1>d. \A m \in Lanes : io[m] # "idle" => io'[m] # "idle"
  BY <1>a, <1>b
<1>3. BatchInv'
  <2> SUFFICES ASSUME NEW i \in DOMAIN batch
               PROVE  /\ batch[i].page \in missing /\ Writable(batch[i].page)'
                      /\ pc \in {"lane", "fence"} => batch[i].page # page
                      /\ batch[i].read =>
                           io'[batch[i].lane] # "idle" /\ target[batch[i].lane] = batch[i].page
                      /\ ~batch[i].read => lanePage[batch[i].lane] = batch[i].page
                      /\ \A j \in DOMAIN batch : batch[j].lane = batch[i].lane => i = j
    BY <1>b DEF BatchInv
  <2>1. Writable(batch[i].page)' <=> Writable(batch[i].page)
    BY <1>b DEF Writable
  <2>2. QED
    BY <1>c, <1>d, <2>1 DEF BatchInv
<1>4. LaneInv'
  <2>1. \A c \in copies : c.lane \in Lanes /\ c.lane # l
    BY <1>a DEF LaneInv, TypeOK
  <2>2. Busy' = Busy /\ \A q : Writable(q)' <=> Writable(q)
    BY <1>b DEF Busy, Writable
  <2>3. ~poisoned /\ pc \notin {"cancel", "release", "closed", "abandoned"} => l \in Busy
    BY <1>a DEF LaneInv
  <2>4. lanePage[l] = NoPage
    BY <1>a DEF LaneInv
  <2>5. \A c \in copies' : /\ buffer'[c.lane] = c.page /\ io'[c.lane] = "idle"
                           /\ Writable(c.page)' /\ (~poisoned' => InLoop' /\ c.page \in missing')
    <3> SUFFICES ASSUME NEW c \in copies
                 PROVE  /\ buffer'[c.lane] = c.page /\ io'[c.lane] = "idle"
                        /\ Writable(c.page)' /\ (~poisoned => InLoop /\ c.page \in missing)
      BY <1>b
    <3>1. io'[c.lane] = io[c.lane] /\ buffer'[c.lane] = buffer[c.lane]
      BY <1>b, <2>1
    <3>2. QED
      BY <2>2, <3>1 DEF LaneInv
  <2>6. \A m \in Lanes : io'[m] # "idle" =>
          /\ lanePage'[m] = NoPage /\ target'[m] \in Pages
          /\ io'[m] = "read" => buffer'[m] = target'[m]
          /\ \A c \in copies' : c.lane # m
          /\ ~poisoned' /\ pc' \notin {"cancel", "release", "closed", "abandoned"} => m \in Busy'
    BY <1>a, <1>b, <2>1, <2>2, <2>3, <2>4 DEF LaneInv
  <2>7. QED
    BY <2>5, <2>6 DEF LaneInv
<1>5. SlotInv'
  <2>1. \A q : InFlight(q)' <=> InFlight(q)
    BY DEF InFlight
  <2>2. QED
    BY <2>1 DEF SlotInv
<1>6. OneSlotPerPage'
  BY DEF OneSlotPerPage
<1>7. HostCacheIsTruthful'
  BY DEF TypeOK, HostCacheIsTruthful
<1>8. WantInv'
  BY DEF WantInv, Mapped
<1>9. JobInv' /\ ClosedInv'
  BY DEF JobInv, ClosedInv, Readable
<1>10. QED
  BY <1>1, <1>2, <1>3, <1>4, <1>5, <1>6, <1>7, <1>8, <1>9

(* The GPU writes a page its own bytes.                                     *)
LEMMA CopyExecutesInv ==
  ASSUME IInv, NEW c \in copies, CopyExecutes(c)
  PROVE  IInv'
<1> USE Sizes DEF IInv, CopyExecutes, slotVars, laneVars, gpuVars, callVars
<1>1. TypeOK'
  BY DEF TypeOK
<1>2. CallInv'
  BY DEF CallInv, Remaining, Mapped, Busy, Writable
<1>3. BatchInv'
  BY DEF BatchInv, Writable
<1>4. LaneInv'
  BY DEF LaneInv, Writable, Busy
<1>5. SlotInv'
  <2>1. buffer[c.lane] = c.page
    BY DEF LaneInv
  <2>2. \A q : q # c.page /\ InFlight(q) => InFlight(q)'
    BY DEF InFlight
  <2>3. \A s \in Slots : data'[s] = IF map[s] = c.page THEN c.page ELSE data[s]
    BY <2>1
  <2>4. QED
    BY <2>2, <2>3 DEF SlotInv
<1>6. OneSlotPerPage'
  BY DEF OneSlotPerPage
<1>7. HostCacheIsTruthful'
  BY DEF HostCacheIsTruthful
<1>8. WantInv'
  BY DEF WantInv, Mapped
<1>9. JobInv' /\ ClosedInv'
  BY DEF JobInv, ClosedInv, LaneInv, Readable
<1>10. QED
  BY <1>1, <1>2, <1>3, <1>4, <1>5, <1>6, <1>7, <1>8, <1>9

(* A lost context loses copies and consumers together.                      *)
LEMMA DeviceFaultInv ==
  ASSUME IInv, DeviceFault
  PROVE  IInv'
<1> USE Sizes DEF IInv, DeviceFault, slotVars, laneVars, gpuVars, callVars
<1>1. TypeOK'
  BY DEF TypeOK
<1>2. CallInv'
  BY DEF CallInv, Remaining, Mapped, Busy, Writable
<1>3. BatchInv'
  BY DEF BatchInv, Writable
<1>4. LaneInv'
  BY DEF LaneInv, Busy
<1>5. SlotInv'
  BY DEF SlotInv
<1>6. OneSlotPerPage'
  BY DEF OneSlotPerPage
<1>7. HostCacheIsTruthful'
  BY DEF HostCacheIsTruthful
<1>8. WantInv'
  BY DEF WantInv, Mapped
<1>9. JobInv' /\ ClosedInv'
  BY DEF JobInv, ClosedInv
<1>10. QED
  BY <1>1, <1>2, <1>3, <1>4, <1>5, <1>6, <1>7, <1>8, <1>9

(* A consumer reads pages of the request, all of them loaded.               *)
LEMMA SubmitInv ==
  ASSUME IInv, NEW k \in Jobs, NEW P \in SUBSET Pages, Submit(k, P)
  PROVE  IInv'
<1> USE Sizes DEF IInv, Submit, slotVars, laneVars, gpuVars, callVars
<1>1. TypeOK'
  BY DEF TypeOK, LaneInv
<1>2. CallInv'
  BY DEF CallInv
<1>3. BatchInv'
  BY DEF CallInv, BatchInv
<1>4. LaneInv'
  BY DEF LaneInv, Busy
<1>5. SlotInv'
  BY DEF CallInv, SlotInv
<1>6. OneSlotPerPage'
  BY DEF OneSlotPerPage
<1>7. HostCacheIsTruthful'
  BY DEF HostCacheIsTruthful
<1>8. WantInv'
  BY DEF WantInv, Mapped
<1>9. JobInv' /\ ClosedInv'
  <2>1. \A p \in want : Readable(p)
    BY DEF TypeOK, CallInv, WantInv, SlotInv, Mapped, Readable
  <2>2. /\ uses' = [uses EXCEPT ![k] = P] /\ jobs'[k] \in {"stream", "other"}
        /\ \A j \in Jobs \ {k} : jobs'[j] = jobs[j]
        /\ \A p : Readable(p)' <=> Readable(p)
    BY DEF TypeOK, Readable
  <2>3. QED
    BY <2>1, <2>2 DEF TypeOK, JobInv, ClosedInv
<1>10. QED
  BY <1>1, <1>2, <1>3, <1>4, <1>5, <1>6, <1>7, <1>8, <1>9

(* A consumer ends.                                                         *)
LEMMA JobEndsInv ==
  ASSUME IInv, NEW k \in Jobs, JobEnds(k)
  PROVE  IInv'
<1> USE Sizes DEF IInv, JobEnds, slotVars, laneVars, gpuVars, callVars
<1>1. TypeOK'
  BY DEF TypeOK
<1>2. CallInv'
  BY DEF CallInv, Remaining, Mapped, Busy, Writable
<1>3. BatchInv'
  BY DEF BatchInv, Writable
<1>4. LaneInv'
  BY DEF LaneInv, Writable, Busy
<1>5. SlotInv'
  <2>1. \A q : InFlight(q)' <=> InFlight(q)
    BY DEF InFlight
  <2>2. QED
    BY <2>1 DEF SlotInv
<1>6. OneSlotPerPage'
  BY DEF OneSlotPerPage
<1>7. HostCacheIsTruthful'
  BY DEF HostCacheIsTruthful
<1>8. WantInv'
  BY DEF WantInv, Mapped
<1>9. JobInv' /\ ClosedInv'
  BY DEF TypeOK, JobInv, ClosedInv, Readable
<1>10. QED
  BY <1>1, <1>2, <1>3, <1>4, <1>5, <1>6, <1>7, <1>8, <1>9

(* Consumers on other streams become visible to the barrier (172-178).      *)
LEMMA RecordUseInv ==
  ASSUME IInv, RecordUse
  PROVE  IInv'
<1> USE Sizes DEF IInv, RecordUse, slotVars, laneVars, gpuVars, callVars
<1>1. TypeOK'
  <2>1. jobs' \in [Jobs -> {"none", "stream", "other", "fenced"}]
    BY DEF TypeOK
  <2>2. poisoned' \in BOOLEAN
    BY DEF TypeOK
  <2>3. QED
    BY <2>1, <2>2 DEF TypeOK
<1>2. CallInv'
  BY DEF CallInv
<1>3. BatchInv'
  BY DEF CallInv, BatchInv
<1>4. LaneInv'
  BY DEF LaneInv, Busy
<1>5. SlotInv'
  BY DEF CallInv, SlotInv
<1>6. OneSlotPerPage'
  BY DEF OneSlotPerPage
<1>7. HostCacheIsTruthful'
  BY DEF HostCacheIsTruthful
<1>8. WantInv'
  BY DEF WantInv, Mapped
<1>9. JobInv' /\ ClosedInv'
  BY DEF JobInv, ClosedInv, Readable
<1>10. QED
  BY <1>1, <1>2, <1>3, <1>4, <1>5, <1>6, <1>7, <1>8, <1>9

(* The destructor is entered.                                               *)
LEMMA DestroyInv ==
  ASSUME IInv, Destroy
  PROVE  IInv'
<1> USE Sizes DEF IInv, Destroy, slotVars, laneVars, gpuVars
<1>1. TypeOK'
  BY DEF TypeOK
<1>2. CallInv'
  BY DEF CallInv
<1>3. BatchInv'
  BY DEF CallInv, BatchInv
<1>4. LaneInv'
  BY DEF LaneInv, Writable
<1>5. SlotInv'
  BY DEF CallInv, SlotInv
<1>6. OneSlotPerPage'
  BY DEF OneSlotPerPage
<1>7. HostCacheIsTruthful'
  BY DEF HostCacheIsTruthful
<1>8. WantInv'
  BY DEF WantInv, Mapped
<1>9. JobInv' /\ ClosedInv'
  BY DEF JobInv, ClosedInv, Readable
<1>10. QED
  BY <1>1, <1>2, <1>3, <1>4, <1>5, <1>6, <1>7, <1>8, <1>9

(* No read is outstanding once the destructor has waited (55-59).           *)
LEMMA CancelReadsInv ==
  ASSUME IInv, CancelReads
  PROVE  IInv'
<1> USE Sizes DEF IInv, CancelReads, slotVars, laneVars, gpuVars
<1>1. TypeOK'
  BY DEF TypeOK
<1>2. CallInv'
  BY DEF CallInv
<1>3. BatchInv'
  BY DEF CallInv, BatchInv
<1>4. LaneInv'
  BY DEF TypeOK, LaneInv, Writable
<1>5. SlotInv'
  BY DEF CallInv, SlotInv
<1>6. OneSlotPerPage'
  BY DEF OneSlotPerPage
<1>7. HostCacheIsTruthful'
  BY DEF HostCacheIsTruthful
<1>8. WantInv'
  BY DEF WantInv, Mapped
<1>9. JobInv' /\ ClosedInv'
  BY DEF JobInv, ClosedInv, Readable
<1>10. QED
  BY <1>1, <1>2, <1>3, <1>4, <1>5, <1>6, <1>7, <1>8, <1>9

(* Nothing runs when memory is given back (lines 60-81).                    *)
LEMMA ReleaseInv ==
  ASSUME IInv, Release
  PROVE  IInv'
<1> USE Sizes DEF IInv, Release, StreamIdle, slotVars, laneVars, gpuVars
<1>1. TypeOK'
  BY DEF TypeOK
<1>2. CallInv'
  BY DEF CallInv
<1>3. BatchInv'
  BY DEF CallInv, BatchInv
<1>4. LaneInv'
  BY DEF LaneInv, ClosedInv
<1>5. SlotInv'
  BY DEF SlotInv
<1>6. OneSlotPerPage'
  BY DEF OneSlotPerPage
<1>7. HostCacheIsTruthful'
  BY DEF HostCacheIsTruthful
<1>8. WantInv'
  BY DEF WantInv
<1>9. JobInv' /\ ClosedInv'
  BY DEF TypeOK, JobInv, ClosedInv
<1>10. QED
  BY <1>1, <1>2, <1>3, <1>4, <1>5, <1>6, <1>7, <1>8, <1>9

(* Nothing is given back when the context cannot be reached (76-80).        *)
LEMMA AbandonInv ==
  ASSUME IInv, Abandon
  PROVE  IInv'
<1> USE Sizes DEF IInv, Abandon, slotVars, laneVars, gpuVars
<1>1. TypeOK'
  BY DEF TypeOK
<1>2. CallInv'
  BY DEF CallInv
<1>3. BatchInv'
  BY DEF CallInv, BatchInv
<1>4. LaneInv'
  BY DEF LaneInv, Writable
<1>5. SlotInv'
  BY DEF CallInv, SlotInv
<1>6. OneSlotPerPage'
  BY DEF OneSlotPerPage
<1>7. HostCacheIsTruthful'
  BY DEF HostCacheIsTruthful
<1>8. WantInv'
  BY DEF WantInv, Mapped
<1>9. JobInv' /\ ClosedInv'
  BY DEF JobInv, ClosedInv, Readable
<1>10. QED
  BY <1>1, <1>2, <1>3, <1>4, <1>5, <1>6, <1>7, <1>8, <1>9

(* A new object replaces the destroyed one (lines 102-161).                 *)
LEMMA ConstructInv ==
  ASSUME IInv, Construct
  PROVE  IInv'
<1> USE Sizes DEF IInv, Construct, slotVars, laneVars, gpuVars
<1>1. TypeOK'
  <2>1. slotAge' \in [Slots -> Nat]
    BY DEF Slots
  <2>2. laneAge' \in [Lanes -> Nat]
    BY DEF Lanes
  <2>3. QED
    BY <2>1, <2>2 DEF TypeOK, CallInv
<1>2. CallInv'
  <2>1. Cardinality({}) = 0
    BY FS_EmptySet
  <2>2. QED
    BY <2>1 DEF CallInv
<1>3. BatchInv'
  BY DEF CallInv, BatchInv
<1>4. LaneInv'
  BY DEF LaneInv, ClosedInv
<1>5. SlotInv'
  BY DEF SlotInv
<1>6. OneSlotPerPage'
  BY DEF OneSlotPerPage
<1>7. HostCacheIsTruthful'
  BY DEF HostCacheIsTruthful
<1>8. WantInv'
  BY DEF WantInv
<1>9. JobInv' /\ ClosedInv'
  BY DEF JobInv, ClosedInv
<1>10. QED
  BY <1>1, <1>2, <1>3, <1>4, <1>5, <1>6, <1>7, <1>8, <1>9

(* Every step of the system keeps the invariant: one case per action. *)
LEMMA NextInv == IInv /\ [Next]_vars => IInv'
<1> SUFFICES ASSUME IInv, [Next]_vars PROVE IInv'
  OBVIOUS
<1>1. ASSUME NEW req \in SUBSET Pages, Acquire(req) PROVE IInv'
  BY <1>1, AcquireInv
<1>2. CASE Owner
  <2>1. CASE LookedUp \/ FinishConsumers \/ MapPage \/ Stage
    BY <2>1, LookedUpInv, FinishConsumersInv, MapPageInv, StageInv
  <2>2. CASE Upload \/ BatchDone \/ Drain
    BY <2>2, UploadInv, BatchDoneInv, DrainInv
  <2>3. ASSUME NEW p \in Pages, Lookup(p) PROVE IInv'
    BY <2>3, LookupInv
  <2>4. ASSUME NEW p \in Pages, NEW s \in Slots, TakeSlot(p, s) PROVE IInv'
    BY <2>4, TakeSlotInv
  <2>5. ASSUME NEW l \in Lanes, TakeLane(l) PROVE IInv'
    BY <2>5, TakeLaneInv
  <2>6. CASE CallFails \/ AccessFails \/ ReadFails \/ FenceFails
    BY <2>6, CallFailsInv, AccessFailsInv, ReadFailsInv, FenceFailsInv
  <2>7. ASSUME NEW done \in SUBSET missing, SealFails(done) PROVE IInv'
    BY <2>7, SealFailsInv
  <2>8. QED
    BY <1>2, <2>1, <2>2, <2>3, <2>4, <2>5, <2>6, <2>7 DEF Owner, Progress
<1>3. CASE Device
  <2>1. ASSUME NEW l \in Lanes, ReadCompletes(l) PROVE IInv'
    BY <2>1, ReadCompletesInv
  <2>2. ASSUME NEW c \in copies, CopyExecutes(c) PROVE IInv'
    BY <2>2, CopyExecutesInv
  <2>3. ASSUME NEW k \in Jobs, JobEnds(k) PROVE IInv'
    BY <2>3, JobEndsInv
  <2>4. QED
    BY <1>3, <2>1, <2>2, <2>3 DEF Device
<1>4. CASE DeviceFault \/ RecordUse
  BY <1>4, DeviceFaultInv, RecordUseInv
<1>5. ASSUME NEW k \in Jobs, NEW P \in SUBSET Pages, Submit(k, P) PROVE IInv'
  BY <1>5, SubmitInv
<1>6. CASE Destroy \/ CancelReads \/ Release \/ Abandon \/ Construct
  BY <1>6, DestroyInv, CancelReadsInv, ReleaseInv, AbandonInv, ConstructInv
<1>7. CASE UNCHANGED vars
  BY <1>7 DEF IInv, TypeOK, CallInv, BatchInv, LaneInv, SlotInv, WantInv, JobInv, ClosedInv,
     OneSlotPerPage, HostCacheIsTruthful, InFlight, Readable, Writable, Mapped, Remaining,
     Busy, vars, slotVars, laneVars, gpuVars, callVars
<1>8. QED
  BY <1>1, <1>2, <1>3, <1>4, <1>5, <1>6, <1>7 DEF Next

(* The invariant holds in every reachable state, for every file size, VRAM  *)
(* budget, host cache budget and set of consumers.                          *)
THEOREM Invariant == Spec => []IInv
BY InitInv, NextInv, PTL DEF Spec

-----------------------------------------------------------------------------
(* What follows from the invariant *)

(* Every variable keeps its type: slot and lane numbers, page numbers and   *)
(* the batch stay within what the constructor sized (lines 130-161).        *)
THEOREM TypeCorrect == Spec => []TypeOK
<1>1. IInv => TypeOK
  BY DEF IInv
<1>2. QED
  BY <1>1, Invariant, PTL

(* A page that a consumer in flight reads is mapped with its own bytes      *)
(* until the consumer ends, whatever acquire_many evicts, whatever fails    *)
(* and whoever destroys the object.                                         *)
THEOREM ConsumersSafe == Spec => []ConsumersReadTheirPages
<1>1. IInv => ConsumersReadTheirPages
  BY DEF IInv, JobInv, ConsumersReadTheirPages
<1>2. QED
  BY <1>1, Invariant, PTL

(* acquire_many returns normally only when the whole request is mapped, and *)
(* every mapped page then holds its bytes and is read only.                 *)
THEOREM AcquireCorrect == Spec => []AcquiredPagesHoldTheFile
<1>1. IInv => AcquiredPagesHoldTheFile
  <2> SUFFICES ASSUME IInv, pc = "idle", ~poisoned
               PROVE  /\ \A s \in Slots : map[s] # NoPage => Holds(s) /\ access[s] = "ro"
                      /\ want \subseteq MappedPages
    BY DEF AcquiredPagesHoldTheFile
  <2>1. missing = {} /\ todo = {}
    BY DEF IInv, CallInv, InLoop
  <2>2. \A s \in Slots : map[s] # NoPage => Holds(s) /\ access[s] = "ro"
    BY <2>1 DEF IInv, TypeOK, SlotInv, Holds
  <2>3. \A p \in want : p \in Pages /\ \E s \in Slots : map[s] = p
    BY <2>1 DEF IInv, TypeOK, WantInv, Mapped
  <2>4. QED
    BY <2>2, <2>3 DEF MappedPages
<1>2. QED
  BY <1>1, Invariant, PTL

(* A queued copy finds its page mapped for writing and its pinned buffer    *)
(* still holding that page.                                                 *)
THEOREM CopiesSafe == Spec => []CopiesReadStableBuffers
<1>1. IInv => CopiesReadStableBuffers
  BY DEF IInv, LaneInv, Writable, CopiesReadStableBuffers
<1>2. QED
  BY <1>1, Invariant, PTL

(* The host cache never claims a page its buffer does not hold. *)
THEOREM HostCacheCorrect == Spec => []HostCacheIsTruthful
<1>1. IInv => HostCacheIsTruthful
  BY DEF IInv
<1>2. QED
  BY <1>1, Invariant, PTL

(* No page is mapped from two chunks at once. *)
THEOREM SlotsDisjoint == Spec => []OneSlotPerPage
<1>1. IInv => OneSlotPerPage
  BY DEF IInv
<1>2. QED
  BY <1>1, Invariant, PTL

(* A read is started only on a lane that has none outstanding. *)
THEOREM LanesDisjoint == Spec => []OneReadPerLane
<1>1. IInv => OneReadPerLane
  <2> SUFFICES ASSUME IInv PROVE OneReadPerLane
    OBVIOUS
  <2>1. ASSUME pc = "fence" PROVE io[lane] = "idle"
    <3>1. lane \in Lanes /\ lane \notin Busy /\ ~poisoned
      BY <2>1 DEF IInv, CallInv
    <3>2. QED
      BY <2>1, <3>1 DEF IInv, LaneInv
  <2>2. \A i, j \in DOMAIN batch : batch[i].lane = batch[j].lane => i = j
    BY DEF IInv, BatchInv
  <2>3. QED
    BY <2>1, <2>2 DEF OneReadPerLane
<1>2. QED
  BY <1>1, Invariant, PTL

(* Nothing is freed while the disk or the GPU can still touch it. *)
THEOREM TeardownQuiet == Spec => []QuietTeardown
<1>1. IInv => QuietTeardown
  BY DEF IInv, ClosedInv, QuietTeardown
<1>2. QED
  BY <1>1, Invariant, PTL

(* If every slot holds a page of the request, the whole request is mapped:  *)
(* it fits the pool, and no page is in two slots.                           *)
LEMMA FullPool ==
  ASSUME IInv, Evictable = {}
  PROVE  \A p \in want : Mapped(p)
<1>1. IsFiniteSet(Slots) /\ Cardinality(Slots) = SlotCount
  BY Sizes, FS_Interval DEF Slots
<1>2. IsFiniteSet(want)
  <2>1. IsFiniteSet(Pages)
    BY FileTensorAssumption, FS_Interval DEF Pages
  <2>2. QED
    BY <2>1, FS_Subset DEF IInv, TypeOK
<1>3. map \in Injection(Slots, want)
  <2>1. \A s \in Slots : map[s] \in want /\ map[s] # NoPage
    BY DEF Evictable
  <2>2. map \in [Slots -> want]
    BY <2>1 DEF IInv, TypeOK
  <2>3. \A s, t \in Slots : map[s] = map[t] => s = t
    BY <2>1 DEF IInv, OneSlotPerPage
  <2>4. QED
    BY <2>2, <2>3 DEF Injection, IsInjective
<1>4. Cardinality(want) = Cardinality(Slots)
  <2>1. Cardinality(Slots) <= Cardinality(want)
    BY <1>2, <1>3, FS_Injection
  <2>2. Cardinality(want) <= SlotCount /\ Cardinality(want) \in Nat
    BY <1>2, FS_CardinalityType DEF IInv, CallInv
  <2>3. QED
    BY <1>1, <2>1, <2>2, Sizes
<1>5. map \in Surjection(Slots, want)
  BY <1>2, <1>3, <1>4, FS_Injection
<1>6. QED
  BY <1>5 DEF Surjection, Mapped

(* The exceptions of lines 231 and 246 are unreachable: there is always a   *)
(* slot outside the request to take, and always a lane outside the batch.   *)
THEOREM ResourcesSuffice == Spec => []AlwaysASlotAndALane
<1>1. IInv => AlwaysASlotAndALane
  <2> SUFFICES ASSUME IInv PROVE AlwaysASlotAndALane
    OBVIOUS
  <2>1. ASSUME pc = "slot" PROVE Evictable # {}
    <3>1. Remaining # {} /\ missing \subseteq want
      BY <2>1 DEF IInv, CallInv, TypeOK
    <3>2. QED
      BY <3>1, FullPool DEF Remaining
  <2>2. ASSUME pc = "lane" PROVE ~(Lanes \subseteq Busy)
    <3>1. batch \in Seq(Pending) /\ Len(batch) < BatchLimit
      BY <2>2 DEF IInv, CallInv, TypeOK
    <3>2. 1 \in Lanes /\ (BatchLimit = 2 => 2 \in Lanes)
      BY Sizes DEF Lanes
    <3>3. Len(batch) = 0 \/ (Len(batch) = 1 /\ BatchLimit = 2)
      <4>1. Len(batch) \in Nat /\ Len(batch) < BatchLimit
        BY <3>1
      <4>2. BatchLimit \in {1, 2}
        BY Sizes
      <4>3. \A n \in Nat : \A b \in {1, 2} : n < b => n = 0 \/ (n = 1 /\ b = 2)
        OBVIOUS
      <4>4. QED
        BY <4>1, <4>2, <4>3
    <3>4. CASE Len(batch) = 0
      <4>1. DOMAIN batch = {}
        BY <3>1, <3>4
      <4>2. QED
        BY <3>2, <4>1 DEF Busy
    <3>5. CASE Len(batch) = 1 /\ BatchLimit = 2
      <4>1. DOMAIN batch = {1}
        BY <3>1, <3>5
      <4>2. Busy = {batch[1].lane}
        BY <4>1 DEF Busy
      <4>3. QED
        BY <3>2, <3>5, <4>2
    <3>6. QED
      BY <3>3, <3>4, <3>5
  <2>3. QED
    BY <2>1, <2>2 DEF AlwaysASlotAndALane
<1>2. QED
  BY <1>1, Invariant, PTL

(* A page of the request that is resident when the call begins, or becomes  *)
(* resident in it, keeps its slot until the call ends.                      *)
THEOREM RequestedPagesSafe == Spec => RequestedPagesStay
<1> DEFINE Stay == \A s \in Slots :
       (pc \notin {"idle", "cancel", "release", "closed", "abandoned"} /\ map[s] \in want)
         => map'[s] = map[s]
<1>1. IInv /\ [Next]_vars => [Stay]_vars
  <2> SUFFICES ASSUME IInv, Next, NEW s \in Slots, map[s] \in want,
                      pc \notin {"idle", "cancel", "release", "closed", "abandoned"}
               PROVE  map'[s] = map[s]
    OBVIOUS
  <2>1. map[s] # NoPage /\ map \in [Slots -> Pages \cup {NoPage}]
    BY Sizes DEF IInv, TypeOK
  <2>2. ASSUME NEW p \in Pages, NEW t \in Slots, TakeSlot(p, t)
        PROVE  map'[s] = map[s]
    BY <2>1, <2>2 DEF TakeSlot, Victim, Evictable
  <2>3. CASE MapPage \/ AccessFails
    BY <2>1, <2>3 DEF MapPage, AccessFails, IInv, CallInv
  <2>4. ASSUME NEW p \in Pages, Lookup(p) PROVE map' = map
    BY <2>4 DEF Lookup
  <2>5. CASE Device
    BY <2>5 DEF Device, ReadCompletes, CopyExecutes, JobEnds, slotVars
  <2>6. CASE LookedUp \/ FinishConsumers \/ Stage \/ Upload \/ BatchDone \/ Drain
    BY <2>6 DEF LookedUp, FinishConsumers, Stage, Upload, BatchDone, Drain, slotVars
  <2>7. CASE CallFails \/ ReadFails \/ FenceFails \/ (\E d \in SUBSET missing : SealFails(d))
    BY <2>7 DEF CallFails, ReadFails, FenceFails, SealFails, slotVars
  <2>8. ASSUME NEW l \in Lanes, TakeLane(l) PROVE map' = map
    BY <2>8 DEF TakeLane, slotVars
  <2>9. CASE Owner
    BY <2>2, <2>3, <2>4, <2>6, <2>7, <2>8, <2>9 DEF Owner, Progress
  <2>10. CASE DeviceFault \/ RecordUse
    BY <2>10 DEF DeviceFault, RecordUse, slotVars
  <2>11. QED
    BY <2>5, <2>9, <2>10 DEF Next, Acquire, Submit, Destroy, CancelReads, Release, Abandon, Construct
<1>2. QED
  BY <1>1, Invariant, PTL DEF Spec, RequestedPagesStay

-----------------------------------------------------------------------------
(* FileTensor implements Residency: each step of the owner thread, of the   *)
(* devices and of the destructor is a step of the abstract promise or       *)
(* changes nothing the client sees.                                         *)

(* The refinement mapping of FileTensor!Implements, by name *)
Resident == {p \in Pages : Readable(p)}
InUse == UNION {uses[k] : k \in Jobs}
Phase ==
  IF pc = "abandoned" THEN "lost"
  ELSE IF pc \in {"cancel", "release", "closed"} THEN "closed"
  ELSE IF poisoned THEN "failed"
  ELSE IF pc = "idle" THEN "idle" ELSE "busy"

(* The cardinality operator Residency sees is this module's. *)
LEMMA SameCardinality == \A S : Implements!Cardinality(S) = Cardinality(S)
BY DEF Implements!Cardinality, Cardinality

(* The pages a consumer may read are no more than the slots. *)
LEMMA ResidentBound == IInv => Cardinality(Resident) <= SlotCount
<1> SUFFICES ASSUME IInv PROVE Cardinality(Resident) <= SlotCount
  OBVIOUS
<1> DEFINE f == [p \in Resident |-> CHOOSE s \in Slots : map[s] = p]
<1>1. IsFiniteSet(Slots) /\ Cardinality(Slots) = SlotCount
  BY Sizes, FS_Interval DEF Slots
<1>2. \A p \in Resident : f[p] \in Slots /\ map[f[p]] = p
  BY DEF Resident, Readable
<1>3. f \in Injection(Resident, Slots)
  BY <1>2 DEF Injection, IsInjective
<1>4. QED
  BY <1>1, <1>3, FS_Injection

(* A step that leaves the mappings, their access and their contents alone   *)
(* leaves the resident pages alone.                                         *)
LEMMA SameResident ==
  ASSUME UNCHANGED <<map, access, data>>
  PROVE  Resident' = Resident
BY DEF Resident, Readable

(* Between calls a healthy object has its whole latest request resident. *)
LEMMA RequestResident ==
  ASSUME IInv, pc = "idle", ~poisoned
  PROVE  want \subseteq Resident
<1>1. missing = {} /\ todo = {}
  BY DEF IInv, CallInv, InLoop
<1>2. SUFFICES ASSUME NEW p \in want PROVE p \in Resident
  OBVIOUS
<1>3. p \in Pages
  BY DEF IInv, TypeOK
<1>4. PICK s \in Slots : map[s] = p
  BY <1>1 DEF IInv, WantInv, Mapped
<1>5. map[s] # NoPage
  BY <1>3, <1>4, Sizes
<1>6. data[s] = p /\ access[s] = "ro"
  BY <1>1, <1>4, <1>5 DEF IInv, SlotInv
<1>7. QED
  BY <1>3, <1>4, <1>6 DEF Resident, Readable

(* Inside the loop of acquire_many no consumer runs. *)
LEMMA NobodyReads ==
  ASSUME IInv, \A k \in Jobs : jobs[k] = "none"
  PROVE  InUse = {}
BY DEF IInv, JobInv, InUse

(* A step that makes one requested page readable is an abstract Load. *)
LEMMA LoadStep ==
  ASSUME IInv', NEW q \in Pages, q \in want \ Resident,
         Resident' = Resident \cup {q}, UNCHANGED <<InUse, want, Phase>>,
         Phase \in {"busy", "failed", "closed", "lost"}
  PROVE  Implements!Load(q)
<1>1. (Cardinality(Resident) <= SlotCount)'
  BY ResidentBound, PTL
<1>2. Implements!Cardinality(Resident') <= SlotCount
  BY <1>1, SameCardinality
<1>3. QED
  BY <1>2 DEF Implements!Load, Resident, InUse, Phase

(* A step the client does not see. *)
LEMMA StutterStep ==
  ASSUME UNCHANGED <<Resident, InUse, want, Phase>>
  PROVE  UNCHANGED Implements!rvars
BY DEF Implements!rvars, Resident, InUse, Phase

(* A step that only ends a call in an error is an abstract Throw. *)
LEMMA ThrowStep ==
  ASSUME UNCHANGED <<Resident, InUse, want>>, Phase \in {"idle", "busy"}, Phase' = "failed"
  PROVE  Implements!Throw
BY DEF Implements!Throw, Resident, InUse, Phase

(* Taking a slot unmaps at most one page, which the request does not want. *)
LEMMA TakeSlotRefines ==
  ASSUME IInv, NEW p \in Pages, NEW s \in Slots, TakeSlot(p, s)
  PROVE  \/ \E q \in Pages : Implements!Evict(q)
         \/ UNCHANGED Implements!rvars
<1> USE Sizes DEF TakeSlot
<1>1. InUse = {} /\ ~poisoned
  BY NobodyReads DEF IInv, CallInv, JobInv, InLoop
<1>2. UNCHANGED <<InUse, want, Phase>>
  BY <1>1 DEF InUse, Phase, gpuVars
<1>3. CASE map[s] = NoPage
  <2>1. Resident' = Resident
    BY <1>3 DEF IInv, TypeOK, Resident, Readable
  <2>2. QED
    BY <1>2, <2>1 DEF Implements!rvars, Resident, InUse, Phase
<1>4. CASE map[s] # NoPage
  <2>1. map[s] \in Pages /\ map[s] \notin want
    BY <1>4 DEF Victim, Evictable, IInv, TypeOK
  <2>2. map[s] \in Resident
    BY <1>1, <1>4, <2>1 DEF IInv, TypeOK, SlotInv, Resident, Readable
  <2>3. \A t \in Slots : t # s => map[t] # map[s]
    BY <1>4 DEF IInv, OneSlotPerPage
  <2>4. Resident' = Resident \ {map[s]}
    BY <2>1, <2>3 DEF IInv, TypeOK, Resident, Readable
  <2>5. Phase = "busy"
    BY <1>1 DEF Phase
  <2>6. Implements!Evict(map[s])
    BY <1>1, <1>2, <2>1, <2>2, <2>4, <2>5 DEF Implements!Evict, Resident, InUse, Phase
  <2>7. QED
    BY <2>1, <2>6
<1>5. QED
  BY <1>3, <1>4

(* The page becomes readable at once when the chunk still holds its bytes   *)
(* from before, else only when its copy is executed.                        *)
LEMMA MapPageRefines ==
  ASSUME IInv, IInv', MapPage
  PROVE  \/ \E q \in Pages : Implements!Load(q)
         \/ UNCHANGED Implements!rvars
<1> USE Sizes DEF MapPage
<1>1. /\ slot \in Slots /\ map[slot] = NoPage /\ ~Mapped(page) /\ ~poisoned
      /\ page \in want /\ page \in Pages
  BY DEF IInv, CallInv, TypeOK
<1>2. UNCHANGED <<InUse, want, Phase>> /\ Phase = "busy"
  BY <1>1 DEF InUse, Phase, gpuVars
<1>3. page \notin Resident
  BY <1>1 DEF Resident, Readable, Mapped
<1>4. Resident' = IF data[slot] = page THEN Resident \cup {page} ELSE Resident
  BY <1>1 DEF IInv, TypeOK, Resident, Readable, Mapped
<1>5. CASE data[slot] = page
  BY <1>1, <1>2, <1>3, <1>4, <1>5, LoadStep
<1>6. CASE data[slot] # page
  BY <1>2, <1>4, <1>6, StutterStep
<1>7. QED
  BY <1>1, <1>5, <1>6

(* A page is readable from the moment its copy is executed, which may be    *)
(* after the call that asked for it has failed.                             *)
LEMMA CopyRefines ==
  ASSUME IInv, IInv', NEW c \in copies, CopyExecutes(c)
  PROVE  \/ \E q \in Pages : Implements!Load(q)
         \/ UNCHANGED Implements!rvars
<1> USE Sizes DEF CopyExecutes
<1>1. /\ c.page \in Pages /\ c.page \in want /\ buffer[c.lane] = c.page
      /\ Writable(c.page)
      /\ ~poisoned => InLoop
  BY DEF IInv, TypeOK, LaneInv
<1>2. UNCHANGED <<InUse, want, Phase>> /\ Phase \in {"busy", "failed", "closed", "lost"}
  BY <1>1 DEF InUse, Phase, InLoop, callVars
<1>3. Resident' = Resident \cup {c.page}
  <2>1. \A s \in Slots : data'[s] = IF map[s] = c.page THEN c.page ELSE data[s]
    BY <1>1
  <2>2. PICK t \in Slots : map[t] = c.page /\ access[t] = "rw"
    BY <1>1 DEF Writable
  <2>3. \A p \in Pages : Readable(p)' <=> p = c.page \/ Readable(p)
    BY <2>1, <2>2 DEF Readable
  <2>4. QED
    BY <1>1, <2>3 DEF Resident
<1>4. CASE c.page \in Resident
  BY <1>2, <1>3, <1>4, StutterStep
<1>5. CASE c.page \notin Resident
  BY <1>1, <1>2, <1>3, <1>5, LoadStep
<1>6. QED
  BY <1>1, <1>4, <1>5

(* A call that fails is an abstract Throw, whatever it leaves behind. *)
LEMMA FailureRefines ==
  ASSUME IInv, \/ CallFails \/ AccessFails \/ ReadFails \/ FenceFails
               \/ \E done \in SUBSET missing : SealFails(done)
  PROVE  Implements!Throw
<1>1. Thrown /\ UNCHANGED <<uses, want>>
  BY DEF CallFails, AccessFails, ReadFails, FenceFails, SealFails, Thrown, gpuVars
<1>2. Phase' = "failed" /\ UNCHANGED <<InUse, want>>
  BY <1>1 DEF Thrown, Phase, InUse
<1>3. Phase = "busy"
  BY DEF CallFails, AccessFails, ReadFails, FenceFails, SealFails, IInv, CallInv, Phase
<1>4. Resident' = Resident
  <2>1. CASE CallFails \/ ReadFails \/ FenceFails
    BY <2>1, SameResident DEF CallFails, ReadFails, FenceFails, slotVars
  <2>2. CASE AccessFails
    <3>1. /\ slot \in Slots /\ map[slot] = NoPage /\ access[slot] = "none"
          /\ map' = [map EXCEPT ![slot] = page] /\ UNCHANGED <<access, data>>
      BY <2>2 DEF AccessFails, IInv, CallInv
    <3>2. \A p \in Pages : Readable(p)' <=> Readable(p)
      BY <3>1, Sizes DEF IInv, TypeOK, Readable
    <3>3. QED
      BY <3>2 DEF Resident
  <2>3. ASSUME NEW done \in SUBSET missing, SealFails(done)
        PROVE  Resident' = Resident
    <3>1. ~poisoned /\ missing \subseteq Pages
      BY <2>3 DEF SealFails, IInv, TypeOK, CallInv
    <3>2. \A s \in Slots : map[s] \in done => access[s] = "rw"
      BY <3>1, Sizes DEF IInv, SlotInv
    <3>3. \A p \in Pages : Readable(p)' <=> Readable(p)
      BY <2>3, <3>2 DEF SealFails, Readable
    <3>4. QED
      BY <3>3 DEF Resident
  <2>4. QED
    BY <2>1, <2>2, <2>3
<1>5. QED
  BY <1>2, <1>3, <1>4, ThrowStep

(* acquire_many returns with all it was asked for. *)
LEMMA DrainRefines ==
  ASSUME IInv, IInv', Drain
  PROVE  Implements!Return
<1>1. pc' = "idle" /\ ~poisoned /\ ~poisoned' /\ Phase = "busy" /\ Phase' = "idle"
  BY DEF Drain, IInv, CallInv, Phase
<1>2. UNCHANGED <<InUse, want>>
  BY DEF Drain, InUse, gpuVars
<1>3. Resident' = Resident
  <2>1. missing \subseteq Pages
    BY DEF IInv, TypeOK
  <2>2. \A s \in Slots : map[s] \in missing => access[s] = "rw"
    BY <1>1, <2>1, Sizes DEF IInv, SlotInv
  <2>3. \A p \in Pages : Readable(p)' <=> Readable(p)
    BY <2>2 DEF Drain, Readable
  <2>4. QED
    BY <2>3 DEF Resident
<1>4. (want \subseteq Resident)'
  <2>1. (IInv /\ pc = "idle" /\ ~poisoned => want \subseteq Resident)'
    BY RequestResident, PTL
  <2>2. QED
    BY <1>1, <2>1
<1>5. QED
  BY <1>1, <1>2, <1>3, <1>4 DEF Implements!Return, Resident, InUse, Phase

(* Every step of the owner thread inside acquire_many. *)
LEMMA OwnerRefines ==
  ASSUME IInv, IInv', Owner
  PROVE  [Implements!RNext]_Implements!rvars
<1>1. CASE LookedUp
  <2>1. UNCHANGED <<Resident, InUse, want>> /\ pc = "scan" /\ ~poisoned /\ ~poisoned'
    BY <1>1, SameResident DEF LookedUp, IInv, CallInv, InUse, slotVars, gpuVars
  <2>2. CASE missing = {}
    <3>1. pc' = "idle" /\ Phase = "busy" /\ Phase' = "idle"
      BY <1>1, <2>1, <2>2 DEF LookedUp, Phase
    <3>2. (want \subseteq Resident)'
      <4>1. (IInv /\ pc = "idle" /\ ~poisoned => want \subseteq Resident)'
        BY RequestResident, PTL
      <4>2. QED
        BY <2>1, <3>1, <4>1
    <3>3. Implements!Return
      BY <2>1, <3>1, <3>2 DEF Implements!Return, Resident, InUse, Phase
    <3>4. QED
      BY <3>3 DEF Implements!RNext
  <2>3. CASE missing # {}
    BY <1>1, <2>1, <2>3, StutterStep DEF LookedUp, Phase
  <2>4. QED
    BY <2>2, <2>3
<1>2. CASE FinishConsumers \/ Stage \/ Upload \/ BatchDone \/ \E l \in Lanes : TakeLane(l)
  <2>1. UNCHANGED <<map, access, data, uses, want, poisoned>>
    BY <1>2 DEF FinishConsumers, Stage, Upload, BatchDone, TakeLane, slotVars, gpuVars
  <2>2. /\ pc \in {"sync", "fence", "finish", "lane"}
        /\ pc' \in {"slot", "finish", "drain", "fence"}
    BY <1>2 DEF FinishConsumers, Stage, Upload, BatchDone, TakeLane, AfterPush
  <2>3. QED
    BY <2>1, <2>2, SameResident, StutterStep DEF InUse, Phase
<1>3. ASSUME NEW p \in Pages, Lookup(p) PROVE [Implements!RNext]_Implements!rvars
  BY <1>3, SameResident, StutterStep DEF Lookup, InUse, Phase, gpuVars
<1>4. ASSUME NEW p \in Pages, NEW s \in Slots, TakeSlot(p, s)
      PROVE  [Implements!RNext]_Implements!rvars
  BY <1>4, TakeSlotRefines DEF Implements!RNext
<1>5. CASE MapPage
  BY <1>5, MapPageRefines DEF Implements!RNext
<1>6. CASE Drain
  BY <1>6, DrainRefines DEF Implements!RNext
<1>7. CASE \/ CallFails \/ AccessFails \/ ReadFails \/ FenceFails
           \/ \E done \in SUBSET missing : SealFails(done)
  BY <1>7, FailureRefines DEF Implements!RNext
<1>8. QED
  BY <1>1, <1>2, <1>3, <1>4, <1>5, <1>6, <1>7 DEF Owner, Progress

(* What the client, the devices and the destructor do. *)
LEMMA OthersRefine ==
  ASSUME IInv, IInv', Next, ~Owner
  PROVE  [Implements!RNext]_Implements!rvars
<1>1. ASSUME NEW req \in SUBSET Pages, Acquire(req) PROVE Implements!Request(req)
  <2>1. UNCHANGED <<Resident, InUse>>
    BY <1>1, SameResident DEF Acquire, InUse, slotVars, gpuVars
  <2>2. Phase = "idle" /\ Phase' = "busy" /\ want' = req
    BY <1>1 DEF Acquire, Phase
  <2>3. Implements!Cardinality(req) <= SlotCount
    BY <1>1, SameCardinality DEF Acquire, Fits
  <2>4. QED
    BY <2>1, <2>2, <2>3 DEF Implements!Request, Resident, InUse, Phase
<1>2. ASSUME NEW l \in Lanes, ReadCompletes(l) PROVE UNCHANGED Implements!rvars
  BY <1>2, SameResident, StutterStep
     DEF ReadCompletes, InUse, Phase, slotVars, gpuVars, callVars
<1>3. ASSUME NEW c \in copies, CopyExecutes(c) PROVE [Implements!RNext]_Implements!rvars
  BY <1>3, CopyRefines DEF Implements!RNext
<1>4. ASSUME NEW k \in Jobs, JobEnds(k) PROVE \E u \in SUBSET Pages : Implements!Done(u)
  <2>1. Resident' = Resident
    BY <1>4, SameResident DEF JobEnds, slotVars
  <2>2. uses \in [Jobs -> SUBSET Pages] /\ uses' \in [Jobs -> SUBSET Pages]
    BY DEF IInv, TypeOK
  <2>3. \A j \in Jobs : uses'[j] \subseteq uses[j]
    BY <1>4, <2>2 DEF JobEnds
  <2>4. InUse' \subseteq InUse /\ InUse' \in SUBSET Pages
    BY <2>2, <2>3 DEF InUse
  <2>5. UNCHANGED <<want, Phase>>
    BY <1>4 DEF JobEnds, Phase, callVars
  <2>6. PICK u \in SUBSET Pages : u = InUse'
    BY <2>4
  <2>7. Implements!Done(u)
    BY <2>1, <2>4, <2>5, <2>6 DEF Implements!Done, Resident, InUse, Phase
  <2>8. QED
    BY <2>7
<1>5. CASE DeviceFault
  <2>1. Resident' = Resident /\ UNCHANGED <<want, Phase>>
    BY <1>5, SameResident DEF DeviceFault, Phase, slotVars, callVars
  <2>2. InUse' = {}
    BY <1>5 DEF DeviceFault, InUse
  <2>3. Implements!Done({})
    BY <2>1, <2>2 DEF Implements!Done, Resident, InUse, Phase
  <2>4. QED
    BY <2>3 DEF Implements!RNext
<1>6. ASSUME NEW k \in Jobs, NEW P \in SUBSET Pages, Submit(k, P) PROVE Implements!Use(P)
  <2>1. Resident' = Resident /\ UNCHANGED <<want, Phase>> /\ Phase = "idle" /\ P \subseteq want
    BY <1>6, SameResident DEF Submit, Phase, slotVars, callVars
  <2>2. uses \in [Jobs -> SUBSET Pages] /\ uses[k] = {}
    BY <1>6 DEF Submit, IInv, TypeOK, JobInv
  <2>3. InUse' = InUse \cup P
    <3>1. \A j \in Jobs : uses'[j] = IF j = k THEN P ELSE uses[j]
      BY <1>6, <2>2 DEF Submit
    <3>2. \A x : (\E j \in Jobs : x \in uses'[j]) <=> (x \in P \/ \E j \in Jobs : x \in uses[j])
      BY <2>2, <3>1
    <3>3. QED
      BY <3>2 DEF InUse
  <2>4. QED
    BY <2>1, <2>3 DEF Implements!Use, Resident, InUse, Phase
<1>7. CASE RecordUse
  <2>1. UNCHANGED <<Resident, InUse, want>> /\ Phase = "idle"
    BY <1>7, SameResident DEF RecordUse, InUse, Phase, slotVars, callVars
  <2>2. CASE poisoned' = poisoned
    BY <1>7, <2>1, <2>2, StutterStep DEF RecordUse, Phase, callVars
  <2>3. CASE poisoned' # poisoned
    <3>1. Phase' = "failed"
      BY <1>7, <2>3 DEF RecordUse, Phase, callVars
    <3>2. QED
      BY <2>1, <3>1, ThrowStep DEF Implements!RNext
  <2>4. QED
    BY <2>2, <2>3
<1>8. CASE Destroy
  <2>1. UNCHANGED <<Resident, InUse, want>> /\ Phase \in {"idle", "failed"} /\ Phase' = "closed"
    BY <1>8, SameResident DEF Destroy, InUse, Phase, slotVars, gpuVars
  <2>2. Implements!Close
    BY <2>1 DEF Implements!Close, Resident, InUse, Phase
  <2>3. QED
    BY <2>2 DEF Implements!RNext
<1>9. CASE CancelReads
  BY <1>9, SameResident, StutterStep DEF CancelReads, InUse, Phase, slotVars, gpuVars
<1>10. CASE Release
  <2>1. \A k \in Jobs : jobs[k] = "none"
    BY <1>10 DEF Release, StreamIdle, IInv, TypeOK, JobInv
  <2>2. InUse = {}
    BY <2>1, NobodyReads
  <2>3. UNCHANGED <<InUse, want, Phase>> /\ Phase = "closed"
    BY <1>10 DEF Release, InUse, Phase, gpuVars
  <2>4. Resident' = {}
    BY <1>10, Sizes DEF Release, Resident, Readable
  <2>5. Implements!Unmap
    BY <2>2, <2>3, <2>4 DEF Implements!Unmap, Resident, InUse, Phase
  <2>6. QED
    BY <2>5 DEF Implements!RNext
<1>11. CASE Construct
  <2>1. InUse' = {} /\ Resident' = {} /\ want' = {} /\ Phase' = "idle"
    BY <1>11, Sizes DEF Construct, InUse, Resident, Readable, Phase
  <2>2. ASSUME pc = "closed" PROVE Implements!Open
    <3>1. InUse = {}
      BY <2>2, NobodyReads DEF IInv, ClosedInv
    <3>2. Resident = {} /\ Phase = "closed"
      BY <2>2, Sizes DEF IInv, ClosedInv, Resident, Readable, Phase
    <3> QED
      BY <2>1, <3>1, <3>2 DEF Implements!Open, Resident, InUse, Phase
  <2>3. ASSUME pc = "abandoned" PROVE Implements!Open
    BY <2>1, <2>3 DEF Implements!Open, Resident, InUse, Phase
  <2>4. Implements!Open
    BY <1>11, <2>2, <2>3 DEF Construct
  <2>5. QED
    BY <2>4 DEF Implements!RNext
<1>12. CASE Abandon
  <2>1. UNCHANGED <<Resident, InUse, want>> /\ Phase = "closed" /\ Phase' = "lost"
    BY <1>12, SameResident DEF Abandon, InUse, Phase, slotVars, gpuVars
  <2>2. Implements!Lose
    BY <2>1 DEF Implements!Lose, Resident, InUse, Phase
  <2>3. QED
    BY <2>2 DEF Implements!RNext
<1>13. QED
  BY <1>1, <1>2, <1>3, <1>4, <1>5, <1>6, <1>7, <1>8, <1>9, <1>10, <1>11, <1>12
     DEF Next, Device, Implements!RNext

(* The detailed FileTensor keeps the promise of Residency at every step,    *)
(* for every value of the constants.                                        *)
THEOREM Refinement == Spec => ImplementsResidency
<1>1. Init => Implements!RInit
  BY Sizes DEF Init, Implements!RInit, Readable
<1>2. IInv /\ IInv' /\ [Next]_vars => [Implements!RNext]_Implements!rvars
  <2> SUFFICES ASSUME IInv, IInv', [Next]_vars
               PROVE  [Implements!RNext]_Implements!rvars
    OBVIOUS
  <2>1. CASE Owner
    BY <2>1, OwnerRefines
  <2>2. CASE Next /\ ~Owner
    BY <2>2, OthersRefine
  <2>3. CASE UNCHANGED vars
    BY <2>3, SameResident, StutterStep
       DEF vars, slotVars, gpuVars, callVars, InUse, Phase
  <2>4. QED
    BY <2>1, <2>2, <2>3
<1>3. QED
  BY <1>1, <1>2, Invariant, PTL DEF Spec, ImplementsResidency, Implements!RSpec

(* Consumers only read resident pages, what a call returned stays resident  *)
(* until the next, and no more pages are resident than the pool has slots   *)
(* (file_tensor.h:10-13, 24-32).                                            *)
THEOREM PromiseKept == Spec => []Implements!Promise
<1>1. IInv => Implements!Promise
  <2> SUFFICES ASSUME IInv PROVE Implements!Promise
    OBVIOUS
  <2>1. InUse \subseteq Resident
    BY DEF IInv, TypeOK, JobInv, InUse, Resident, Readable
  <2>2. Phase = "idle" => want \subseteq Resident
    BY RequestResident DEF Phase
  <2>3. Cardinality(Resident) <= SlotCount
    BY ResidentBound
  <2> QED
    BY <2>1, <2>2, <2>3, SameCardinality DEF Implements!Promise, InUse, Resident, Phase
<1>2. QED
  BY <1>1, Invariant, PTL
-----------------------------------------------------------------------------
(* Which pages the slot replacement keeps.  Slots are taken in the order of *)
(* their last touch, and what the latest two requests touched is younger    *)
(* than the rest                                                            *)

AgesDiffer == \A s, t \in Slots : slotAge[s] = slotAge[t] => s = t

(* t was touched before s *)
Older(t, s) == slotAge[s] < slotAge[t]
RecentInv ==
  ~poisoned => \A s, t \in Slots : (map[s] # NoPage /\ map[t] # NoPage /\ map[t] \notin want) =>
    /\ map[s] \in want \ todo => Older(t, s)
    /\ map[s] \in prev /\ map[t] \notin prev => Older(t, s)

Closing == pc \in {"cancel", "release", "closed", "abandoned"}
KeptInv ==
  /\ prev \subseteq Pages
  /\ (~poisoned /\ ~Closing /\ Cardinality(prev \cup want) <= SlotCount) => prev \subseteq MappedPages

ReuseInv == AgesDiffer /\ RecentInv /\ KeptInv
HInv == IInv /\ ReuseInv

LEMMA InitReuse == HInit => HInv
<1> SUFFICES ASSUME HInit PROVE HInv
  OBVIOUS
<1>1. IInv
  BY InitInv DEF HInit
<1>2. SlotCount \in Nat /\ Slots \subseteq Nat
  BY Sizes
<1>3. AgesDiffer
  BY <1>2 DEF HInit, Init, AgesDiffer
<1>4. RecentInv /\ KeptInv
  BY DEF HInit, Init, RecentInv, KeptInv
<1> QED
  BY <1>1, <1>3, <1>4 DEF HInv, ReuseInv

(* ++clock: the slot is younger than every other, and the others keep their *)
(* order (lines 197 and 237)                                                *)
LEMMA TouchOrder ==
  ASSUME NEW S, NEW age \in [S -> Nat], NEW x \in S,
         \A y, z \in S : age[y] = age[z] => y = z
  PROVE  /\ \A y \in S \ {x} : Touch(age, x)[x] < Touch(age, x)[y]
         /\ \A y, z \in S \ {x} : age[y] < age[z] => Touch(age, x)[y] < Touch(age, x)[z]
         /\ \A y, z \in S : Touch(age, x)[y] = Touch(age, x)[z] => y = z
<1> DEFINE new == Touch(age, x)
<1>1. new[x] = 0
  BY DEF Touch
<1>2. \A y \in S \ {x} : new[y] = IF age[y] < age[x] THEN age[y] + 1 ELSE age[y]
  BY DEF Touch
<1>3. \A y \in S : age[y] \in Nat
  OBVIOUS
<1>4. \A y \in S \ {x} : age[y] # age[x]
  OBVIOUS
<1> HIDE DEF new
<1>5. \A y \in S \ {x} : new[y] \in Nat /\ new[y] > 0
  BY <1>2, <1>3, <1>4
<1>6. \A y, z \in S \ {x} : age[y] < age[z] => new[y] < new[z]
  BY <1>2, <1>3, <1>4
<1>7. \A y, z \in S \ {x} : y # z => new[y] # new[z]
  <2> SUFFICES ASSUME NEW y \in S \ {x}, NEW z \in S \ {x}, y # z PROVE new[y] # new[z]
    OBVIOUS
  <2>1. age[y] < age[z] \/ age[z] < age[y]
    BY <1>3
  <2> QED
    BY <1>5, <1>6, <2>1
<1> QED
  BY <1>1, <1>5, <1>6, <1>7 DEF new

(* A step that neither maps, unmaps nor touches a slot *)
KeepsSlots ==
  /\ UNCHANGED <<map, slotAge, want>>
  /\ poisoned' \/ (poisoned' = poisoned /\ todo' = todo)
  /\ Closing => Closing'
  /\ ~(pc = "idle" /\ pc' = "scan") /\ ~Reborn

LEMMA KeepsSlotsReuse ==
  ASSUME HInv, HNext, KeepsSlots
  PROVE  ReuseInv'
<1>1. prev' = prev
  BY DEF HNext, KeepsSlots
<1>2. AgesDiffer'
  BY DEF HInv, ReuseInv, AgesDiffer, KeepsSlots
<1>3. poisoned \in BOOLEAN
  BY DEF HInv, IInv, TypeOK
<1>4. RecentInv'
  BY <1>1, <1>3 DEF HInv, ReuseInv, RecentInv, KeepsSlots, Older
<1>5. MappedPages' = MappedPages
  BY DEF KeepsSlots, MappedPages
<1>6. KeptInv'
  BY <1>1, <1>3, <1>5 DEF HInv, ReuseInv, KeptInv, KeepsSlots
<1> QED
  BY <1>2, <1>4, <1>6 DEF ReuseInv

(* Between calls the latest request is resident, and becomes the one before *)
LEMMA AcquireReuse ==
  ASSUME HInv, HNext, NEW req \in SUBSET Pages, Acquire(req)
  PROVE  ReuseInv'
<1>1. prev' = want /\ want' = req /\ todo' = req /\ ~poisoned /\ ~poisoned'
  BY DEF HNext, Reborn, Acquire
<1>2. UNCHANGED <<map, slotAge>> /\ todo = {} /\ want \subseteq Pages /\ pc = "idle"
  BY DEF Acquire, slotVars, HInv, IInv, CallInv, TypeOK
<1>3. AgesDiffer'
  BY <1>2 DEF HInv, ReuseInv, AgesDiffer
<1>4. RecentInv'
  BY <1>1, <1>2 DEF HInv, ReuseInv, RecentInv, Older
<1>5. want \subseteq MappedPages
  BY <1>1, <1>2 DEF HInv, IInv, CallInv, WantInv, Mapped, MappedPages
<1>6. MappedPages' = MappedPages
  BY <1>2 DEF MappedPages
<1>7. KeptInv'
  BY <1>1, <1>2, <1>5, <1>6 DEF KeptInv
<1> QED
  BY <1>3, <1>4, <1>7 DEF ReuseInv

(* Slot x gets or keeps a page of the request and becomes the youngest *)
LEMMA TouchReuse ==
  ASSUME HInv, HNext, NEW x \in Slots, slotAge' = Touch(slotAge, x),
         map'[x] \in want, \A s \in Slots \ {x} : map'[s] = map[s], map[x] \in {NoPage, map'[x]},
         UNCHANGED want, ~Closing, pc # "idle",
         poisoned' \/ (poisoned' = poisoned /\ todo' \cup {map'[x]} = todo \cup {map'[x]})
  PROVE  ReuseInv'
<1>0. prev' = prev /\ slotAge \in [Slots -> Nat] /\ poisoned \in BOOLEAN
  BY DEF HNext, Reborn, Closing, HInv, IInv, TypeOK
<1>1. /\ \A y \in Slots \ {x} : slotAge'[x] < slotAge'[y]
      /\ \A y, z \in Slots \ {x} : slotAge[y] < slotAge[z] => slotAge'[y] < slotAge'[z]
      /\ \A y, z \in Slots : slotAge'[y] = slotAge'[z] => y = z
  BY <1>0, TouchOrder DEF HInv, ReuseInv, AgesDiffer
<1>2. AgesDiffer'
  BY <1>1 DEF AgesDiffer
<1>3. RecentInv'
  <2> SUFFICES ASSUME ~poisoned', NEW s \in Slots, NEW t \in Slots,
                      map'[s] # NoPage, map'[t] # NoPage, map'[t] \notin want,
                      \/ map'[s] \in want \ todo'
                      \/ map'[s] \in prev /\ map'[t] \notin prev
               PROVE  slotAge'[s] < slotAge'[t]
    BY <1>0 DEF RecentInv, Older
  <2>1. t # x /\ map'[t] = map[t] /\ ~poisoned
    OBVIOUS
  <2>2. CASE s = x
    BY <1>1, <2>1, <2>2
  <2>3. CASE s # x
    <3>1. map'[s] = map[s]
      BY <2>3
    <3>2. map[s] # map'[x]
      <4>1. OneSlotPerPage'
        BY NextInv DEF HInv, HNext, IInv
      <4> QED
        BY <2>3, <3>1, <4>1 DEF OneSlotPerPage
    <3>3. map[s] \in want \ todo' => map[s] \in want \ todo
      BY <2>1, <3>2
    <3>4. slotAge[s] < slotAge[t]
      BY <2>1, <3>1, <3>3 DEF HInv, ReuseInv, RecentInv, Older
    <3> QED
      BY <1>1, <2>1, <2>3, <3>4
  <2> QED
    BY <2>2, <2>3
<1>4. MappedPages \subseteq MappedPages'
  <2> SUFFICES ASSUME NEW s \in Slots, map[s] \in Pages PROVE map[s] \in MappedPages'
    BY DEF MappedPages
  <2>1. map'[s] = map[s]
    BY Sizes
  <2> QED
    BY <2>1 DEF MappedPages
<1>5. KeptInv'
  BY <1>0, <1>4 DEF HInv, ReuseInv, KeptInv
<1> QED
  BY <1>2, <1>3, <1>5 DEF ReuseInv

(* The pool is full, and a page of two requests that fit it is missing: a   *)
(* slot holds a page of neither                                             *)
LEMMA Spare ==
  ASSUME IInv, \A s \in Slots : map[s] # NoPage, NEW W \in SUBSET Pages,
         Cardinality(W) <= SlotCount, NEW p \in W, ~Mapped(p)
  PROVE  \E t \in Slots : map[t] \notin W
<1> SUFFICES ASSUME \A t \in Slots : map[t] \in W PROVE FALSE
  OBVIOUS
<1>1. IsFiniteSet(Slots) /\ Cardinality(Slots) = SlotCount
  BY Sizes, FS_Interval DEF Slots
<1>2. IsFiniteSet(W)
  <2>1. IsFiniteSet(Pages)
    BY FileTensorAssumption, FS_Interval DEF Pages
  <2> QED
    BY <2>1, FS_Subset
<1>3. map \in Injection(Slots, W)
  <2>1. map \in [Slots -> W]
    BY DEF IInv, TypeOK
  <2>2. \A s, t \in Slots : map[s] = map[t] => s = t
    BY DEF IInv, OneSlotPerPage
  <2> QED
    BY <2>1, <2>2 DEF Injection, IsInjective
<1>4. Cardinality(W) = Cardinality(Slots)
  <2>1. Cardinality(Slots) <= Cardinality(W)
    BY <1>2, <1>3, FS_Injection
  <2>2. Cardinality(W) \in Nat
    BY <1>2, FS_CardinalityType
  <2> QED
    BY <1>1, <2>1, <2>2, Sizes
<1>5. map \in Surjection(Slots, W)
  BY <1>2, <1>3, <1>4, FS_Injection
<1> QED
  BY <1>5 DEF Surjection, Mapped

(* Taking a slot unmaps no page of the latest two requests, if they fit *)
LEMMA TakeSlotReuse ==
  ASSUME HInv, HNext, NEW p \in Pages, NEW v \in Slots, TakeSlot(p, v)
  PROVE  ReuseInv'
<1>0. /\ prev' = prev /\ map \in [Slots -> Pages \cup {NoPage}] /\ slotAge \in [Slots -> Nat]
      /\ UNCHANGED <<slotAge, want, todo, poisoned>> /\ prev \subseteq Pages /\ want \subseteq Pages
      /\ ~Closing /\ NoPage \notin Pages
  BY Sizes DEF HNext, Reborn, TakeSlot, HInv, IInv, TypeOK, ReuseInv, KeptInv, Closing
<1>1. map' = [map EXCEPT ![v] = NoPage] /\ p \in want /\ ~Mapped(p) /\ Victim(v)
  BY DEF TakeSlot, Remaining, HInv, IInv, TypeOK
<1>2. AgesDiffer'
  BY <1>0 DEF HInv, ReuseInv, AgesDiffer
<1>3. RecentInv'
  BY <1>0, <1>1 DEF HInv, ReuseInv, RecentInv, Older
<1>4. ASSUME ~poisoned, Cardinality(prev \cup want) <= SlotCount, map[v] # NoPage
      PROVE  map[v] \notin prev
  <2>1. \A s \in Slots : map[s] # NoPage
    BY <1>1, <1>4 DEF Victim
  <2>2. PICK t \in Slots : map[t] \notin prev \cup want
    BY <1>0, <1>1, <1>4, <2>1, Spare DEF HInv
  <2>3. v \in Evictable /\ t \in Evictable /\ slotAge[t] <= slotAge[v]
    BY <1>1, <2>1, <2>2 DEF Victim, Evictable
  <2>4. map[v] \in prev => slotAge[v] < slotAge[t]
    BY <1>4, <2>1, <2>2 DEF HInv, ReuseInv, RecentInv, Older
  <2> QED
    BY <1>0, <2>3, <2>4
<1>5. KeptInv'
  <2> SUFFICES ASSUME ~poisoned, Cardinality(prev \cup want) <= SlotCount, NEW q \in prev
               PROVE  q \in MappedPages'
    BY <1>0 DEF KeptInv
  <2>1. PICK s \in Slots : map[s] = q /\ q \in Pages
    BY <1>0 DEF HInv, ReuseInv, KeptInv, MappedPages
  <2>2. s # v
    BY <1>0, <1>4, <2>1
  <2>3. map'[s] = q
    BY <1>0, <1>1, <2>1, <2>2
  <2> QED
    BY <2>1, <2>3 DEF MappedPages
<1> QED
  BY <1>2, <1>3, <1>5 DEF ReuseInv

LEMMA TouchingReuse ==
  ASSUME HInv, HNext, MapPage \/ AccessFails \/ \E p \in Pages : Lookup(p)
  PROVE  ReuseInv'
<1>0. map \in [Slots -> Pages \cup {NoPage}] /\ ~Closing /\ pc # "idle"
  BY DEF HInv, IInv, TypeOK, MapPage, AccessFails, Lookup, Closing
<1>1. CASE MapPage \/ AccessFails
  <2>1. /\ slot \in Slots /\ map[slot] = NoPage /\ page \in want
        /\ map' = [map EXCEPT ![slot] = page] /\ slotAge' = Touch(slotAge, slot) /\ UNCHANGED want
        /\ poisoned' \/ (poisoned' = poisoned /\ todo' = todo)
    BY <1>1 DEF MapPage, AccessFails, Thrown, HInv, IInv, CallInv, TypeOK
  <2>2. PICK x \in Slots : x = slot
    BY <2>1
  <2>3. map'[x] = page /\ \A s \in Slots \ {x} : map'[s] = map[s]
    BY <1>0, <2>1, <2>2
  <2> QED
    BY <1>0, <2>1, <2>2, <2>3, TouchReuse
<1>2. ASSUME NEW p \in Pages, Lookup(p) PROVE ReuseInv'
  <2>0. UNCHANGED <<map, want, poisoned>> /\ p \in want /\ todo' = todo \ {p}
    BY <1>2 DEF Lookup, HInv, IInv, TypeOK
  <2>1. CASE \E s \in Slots : map[s] = p /\ slotAge' = Touch(slotAge, s)
    <3>1. PICK x \in Slots : map[x] = p /\ slotAge' = Touch(slotAge, x)
      BY <2>1
    <3> QED
      BY <1>0, <2>0, <3>1, TouchReuse
  <2>2. CASE ~Mapped(p) /\ UNCHANGED slotAge
    <3>0. prev' = prev
      BY <1>0 DEF HNext, Reborn, Closing
    <3>1. AgesDiffer'
      BY <2>2 DEF HInv, ReuseInv, AgesDiffer
    <3>2. RecentInv'
      BY <2>0, <2>2, <3>0 DEF HInv, ReuseInv, RecentInv, Older, Mapped
    <3>3. KeptInv'
      BY <1>0, <2>0, <3>0 DEF HInv, ReuseInv, KeptInv, MappedPages
    <3> QED
      BY <3>1, <3>2, <3>3 DEF ReuseInv
  <2> QED
    BY <1>2, <2>1, <2>2 DEF Lookup
<1> QED
  BY <1>1, <1>2

LEMMA RestartReuse ==
  ASSUME HInv, HNext, Release \/ Construct
  PROVE  ReuseInv'
<1>0. HInv /\ IInv'
  BY NextInv DEF HInv, HNext
<1>1. CASE Release
  <2>1. prev' = prev /\ Closing' /\ \A s \in Slots : map'[s] = NoPage
    BY <1>1 DEF Release, HNext, Reborn, Closing
  <2>2. AgesDiffer'
    BY <1>1 DEF Release, HInv, ReuseInv, AgesDiffer
  <2> QED
    BY <2>1, <2>2 DEF ReuseInv, RecentInv, KeptInv, HInv
<1>2. CASE Construct
  <2>1. prev' = {} /\ \A s \in Slots : map'[s] = NoPage
    BY <1>2 DEF Construct, HNext, Reborn
  <2>2. AgesDiffer'
    BY <1>2, Sizes DEF Construct, AgesDiffer
  <2> QED
    BY <2>1, <2>2 DEF ReuseInv, RecentInv, KeptInv
<1> QED
  BY <1>1, <1>2

LEMMA NextReuse ==
  ASSUME HInv, HNext
  PROVE  ReuseInv'
<1>0. todo = {} \/ pc = "scan"
  BY DEF HInv, IInv, CallInv
<1>1. ASSUME NEW req \in SUBSET Pages, Acquire(req) PROVE ReuseInv'
  BY <1>1, AcquireReuse
<1>2. CASE MapPage \/ AccessFails \/ \E p \in Pages : Lookup(p)
  BY <1>2, TouchingReuse
<1>3. ASSUME NEW p \in Pages, NEW s \in Slots, TakeSlot(p, s) PROVE ReuseInv'
  BY <1>3, TakeSlotReuse
<1>4. CASE LookedUp \/ FinishConsumers \/ Stage \/ Upload \/ BatchDone \/ Drain
  <2>1. KeepsSlots
    BY <1>4 DEF LookedUp, FinishConsumers, Stage, AfterPush, Upload, BatchDone, Drain, slotVars, KeepsSlots, Reborn, Closing
  <2> QED
    BY <2>1, KeepsSlotsReuse
<1>5. CASE \/ CallFails \/ ReadFails \/ FenceFails \/ \E done \in SUBSET missing : SealFails(done)
           \/ \E l \in Lanes : TakeLane(l)
  <2>1. KeepsSlots
    BY <1>5 DEF CallFails, ReadFails, FenceFails, SealFails, TakeLane, Thrown, slotVars, KeepsSlots, Reborn, Closing
  <2> QED
    BY <2>1, KeepsSlotsReuse
<1>6. CASE Device \/ DeviceFault \/ (\E k \in Jobs, P \in SUBSET Pages : Submit(k, P)) \/ RecordUse
           \/ Destroy \/ CancelReads \/ Abandon
  <2>1. ~Reborn
    BY <1>6
       DEF Device, ReadCompletes, CopyExecutes, JobEnds, DeviceFault, Submit, RecordUse,
           Destroy, CancelReads, Abandon, Reborn, callVars
  <2>2. KeepsSlots
    BY <1>6, <2>1
       DEF Device, ReadCompletes, CopyExecutes, JobEnds, DeviceFault, Submit, RecordUse, Destroy, CancelReads, Abandon,
           slotVars, callVars, KeepsSlots, Closing
  <2> QED
    BY <2>2, KeepsSlotsReuse
<1>7. CASE Release \/ Construct
  BY <1>7, RestartReuse
<1> QED
  BY <1>1, <1>2, <1>3, <1>4, <1>5, <1>6, <1>7 DEF HNext, Next, Owner, Progress

LEMMA NextHInv ==
  ASSUME HInv, [HNext]_hvars
  PROVE  HInv'
<1>1. IInv'
  BY NextInv DEF HInv, HNext, hvars
<1>2. CASE HNext
  BY <1>1, <1>2, NextReuse DEF HInv
<1>3. CASE UNCHANGED hvars
  <2>1. UNCHANGED <<map, slotAge, want, todo, poisoned, pc, prev>>
    BY <1>3 DEF hvars, vars, slotVars, callVars
  <2>2. ReuseInv'
    BY <2>1 DEF HInv, ReuseInv, AgesDiffer, RecentInv, Older, KeptInv, Closing, MappedPages
  <2> QED
    BY <1>1, <2>2 DEF HInv
<1> QED
  BY <1>2, <1>3

(* Two consecutive requests that fit the pool together are both resident    *)
(* after the second: the slot that is taken is the one touched longest ago, *)
(* and that is neither request's (lines 197 and 226-230).                   *)
THEOREM WorkingSetKept == HSpec => []WorkingSetStaysResident
<1>1. HInv /\ [HNext]_hvars => HInv'
  BY NextHInv
<1>2. HInv => WorkingSetStaysResident
  <2> SUFFICES ASSUME HInv, pc = "idle", ~poisoned, Cardinality(prev \cup want) <= SlotCount
               PROVE  prev \cup want \subseteq MappedPages
    BY DEF WorkingSetStaysResident
  <2>1. want \subseteq MappedPages
    BY DEF HInv, IInv, TypeOK, CallInv, WantInv, Mapped, MappedPages
  <2>2. prev \subseteq MappedPages
    BY DEF HInv, ReuseInv, KeptInv, Closing
  <2> QED
    BY <2>1, <2>2
<1> QED
  BY <1>1, <1>2, InitReuse, PTL DEF HSpec
=============================================================================
