--------------------------- MODULE LinuxShimProofs ---------------------------
(***************************************************************************)
(* What LinuxShim guarantees for any threads, addresses, hash and table    *)
(* size: a mapping has one owner, an entry or a call, and its owner is     *)
(* what gives it back.  Chains need not be intact for that.                *)
(***************************************************************************)
EXTENDS LinuxShim, SequenceTheorems, TLAPS

(* Which entry a call can carry at each point *)
WellFormed(c) ==
  /\ c.pc \in {"idle", "map", "managed", "device", "remove", "peek"} => ~c.entry.mapped
  /\ c.pc \in {"pin", "register", "address"} => c.entry.mapped
  /\ c.pc \in {"insert", "remove", "peek", "release", "free", "enqueue"} => c.entry.ptr # None
  /\ c.entry.mapped => c.entry.ptr \in HostAddrs

(* What gb_overflow_alloc has made of the mapping at each point *)
StageOf(pc) ==
  CASE pc = "pin" -> {"mapped"} [] pc = "register" -> {"mapped", "pinned"} [] OTHER -> Mapping

(* ... maybe under a registration an earlier mapping has left there *)
Staged(h, pc) == h \in {StageOf(pc), StageOf(pc) \cup {"registered"}}

CallInv ==
  \A t \in Threads : WellFormed(call[t]) /\ (Owns(t) => Staged(host[Ptr(t)], call[t].pc))

TableInv == \A s \in Slots : table[s].mapped => table[s].ptr \in HostAddrs

IInv == TypeOK /\ EntriesOwnMappings /\ CallInv /\ TableInv
-----------------------------------------------------------------------------

LEMMA StagedMapping ==
  ASSUME NEW h, NEW pc, Staged(h, pc)
  PROVE  "mapped" \in h /\ (StageOf(pc) = Mapping => h = Mapping)
<1>1. "mapped" \in StageOf(pc) /\ Mapping \cup {"registered"} = Mapping
  BY DEF StageOf, Mapping
<1> QED
  BY <1>1 DEF Staged

LEMMA InitInv == Init => IInv
BY LinuxShimAssumption
   DEF Init, IInv, TypeOK, EntriesOwnMappings, CallInv, WellFormed, TableInv, Entry, Call, Empty,
       NoCall, Slots, Addrs, Owns, Owning, At, Ptr

LEMMA SlotInTable ==
  ASSUME TypeOK, NEW t \in Threads, Ptr(t) # None
  PROVE  Slot(t) \in Slots
<1>1. Ptr(t) \in Addrs /\ call[t].i \in Nat
  BY DEF TypeOK, Call, Entry, Ptr, Slots
<1>2. Hash[Ptr(t)] \in 0 .. NumSlots - 1 /\ NumSlots \in Nat \ {0}
  BY <1>1, LinuxShimAssumption DEF Addrs
<1> QED
  BY <1>1, <1>2 DEF Slot, Slots

(* What a step may do to the variables that nobody's claims depend on *)
RestTyped ==
  /\ cuda' \in [Addrs -> {"none", "device", "managed"}]
  /\ held' \subseteq Addrs
  /\ queue' \in Seq(HostAddrs) /\ Len(queue') <= QueueSize
  /\ job' \in HostAddrs \cup {None}

(* A step of thread t that keeps the table and the host: it may lose what   *)
(* it owns but not gain                                                     *)
LEMMA CallStep ==
  ASSUME IInv, NEW t \in Threads, NEW c \in Call, call' = [call EXCEPT ![t] = c],
         UNCHANGED <<table, host>>, RestTyped, WellFormed(c),
         c.entry.mapped /\ c.pc \in Owning =>
           Owns(t) /\ c.entry.ptr = Ptr(t) /\ StageOf(c.pc) = StageOf(call[t].pc)
  PROVE  IInv'
<1>1. TypeOK'
  BY DEF IInv, TypeOK, RestTyped
<1>2. call'[t] = c /\ \A u \in Threads : u # t => call'[u] = call[u]
  BY DEF IInv, TypeOK
<1>3. EntriesOwnMappings'
  BY <1>2 DEF IInv, EntriesOwnMappings, Owns, Ptr
<1>4. CallInv'
  BY <1>2 DEF IInv, CallInv, Staged, WellFormed, Owns, Ptr
<1>5. TableInv'
  BY DEF IInv, TableInv
<1> QED
  BY <1>1, <1>3, <1>4, <1>5 DEF IInv

(* A step of thread t that changes what the host has of the address t owns, *)
(* or of one that nobody has                                                *)
LEMMA HostStep ==
  ASSUME IInv, NEW t \in Threads, NEW c \in Call, call' = [call EXCEPT ![t] = c],
         NEW p \in Addrs, NEW h \in SUBSET Mapping, host' = [host EXCEPT ![p] = h],
         IF Owns(t) THEN p = Ptr(t) ELSE "mapped" \notin host[p],
         UNCHANGED table, RestTyped, WellFormed(c),
         c.entry.mapped /\ c.pc \in Owning => c.entry.ptr = p /\ Staged(h, c.pc)
  PROVE  IInv'
<1>1. TypeOK'
  BY DEF IInv, TypeOK, RestTyped
<1>2. call'[t] = c /\ \A u \in Threads : u # t => call'[u] = call[u]
  BY DEF IInv, TypeOK
<1>3. host'[p] = h /\ \A q \in Addrs : q # p => host'[q] = host[q]
  BY DEF IInv, TypeOK
<1>4. \A s \in Slots : table[s].mapped => table[s].ptr \in Addrs /\ table[s].ptr # p
  BY DEF IInv, TableInv, EntriesOwnMappings, Mapping, Addrs
<1>5. \A u \in Threads \ {t} : Owns(u) => Ptr(u) \in Addrs /\ Ptr(u) # p
  BY StagedMapping DEF IInv, CallInv, WellFormed, EntriesOwnMappings, Owns, Ptr, Addrs
<1>6. EntriesOwnMappings'
  BY <1>2, <1>3, <1>4, <1>5 DEF IInv, EntriesOwnMappings, Owns, Ptr
<1>7. CallInv'
  BY <1>2, <1>3, <1>5 DEF IInv, CallInv, WellFormed, Owns, Ptr
<1>8. TableInv'
  BY DEF IInv, TableInv
<1> QED
  BY <1>1, <1>6, <1>7, <1>8 DEF IInv
-----------------------------------------------------------------------------
(* One lemma per part of Next *)

LEMMA ApplicationSteps ==
  ASSUME IInv, NEW t \in Threads, Alloc(t) \/ FreeOrPrefetch(t)
  PROVE  IInv'
<1>1. NoCall \in Call /\ Empty \in Entry /\ 0 \in Slots /\ RestTyped
  BY LinuxShimAssumption
     DEF IInv, TypeOK, Alloc, FreeOrPrefetch, RestTyped, NoCall, Empty, Call, Entry, Slots, Addrs
<1>2. CASE Alloc(t)
  <2>1. PICK label \in {"map", "managed", "device"} :
          call' = [call EXCEPT ![t] = [NoCall EXCEPT !.op = "alloc", !.pc = label]]
    BY <1>2 DEF Alloc
  <2>2. WellFormed([NoCall EXCEPT !.op = "alloc", !.pc = label])
    BY DEF WellFormed, NoCall, Empty
  <2>3. [NoCall EXCEPT !.op = "alloc", !.pc = label] \in Call
    BY <1>1 DEF Call, NoCall
  <2> QED
    BY <1>1, <1>2, <2>1, <2>2, <2>3, CallStep DEF Alloc, NoCall, Empty
<1>3. CASE FreeOrPrefetch(t)
  <2>1. PICK p \in held, op \in {"free", "prefetch"} :
          call' = [call EXCEPT ![t] = [op |-> op, pc |-> "remove", i |-> 0,
                                       entry |-> [ptr |-> p, mapped |-> FALSE]]]
    BY <1>3 DEF FreeOrPrefetch
  <2> DEFINE c == [op |-> op, pc |-> "remove", i |-> 0, entry |-> [ptr |-> p, mapped |-> FALSE]]
  <2>2. p \in Addrs /\ p # None
    BY LinuxShimAssumption DEF IInv, TypeOK, Addrs
  <2>3. c \in Call /\ WellFormed(c)
    BY <1>1, <2>2 DEF Call, Entry, WellFormed
  <2> QED
    BY <1>1, <1>3, <2>1, <2>3, CallStep DEF FreeOrPrefetch
<1> QED
  BY <1>2, <1>3

LEMMA OverflowSteps ==
  ASSUME IInv, NEW t \in Threads,
         Map(t) \/ Pin(t) \/ RegisterHost(t) \/ GetAddress(t)
  PROVE  IInv'
<1>1. Empty \in Entry /\ 0 \in Slots /\ call[t] \in Call /\ RestTyped /\ WellFormed(call[t])
  BY LinuxShimAssumption
     DEF IInv, TypeOK, Map, Pin, RegisterHost, GetAddress, RestTyped, CallInv, Empty, Entry, Slots, Addrs
<1> DEFINE To(label) == [call[t] EXCEPT !.pc = label, !.i = 0]
           Dropped(label) == [call[t] EXCEPT !.pc = label, !.entry = Empty]
           p == Ptr(t)
<1>2. \A label \in {"register", "address", "insert", "managed", "device"} :
        /\ To(label) \in Call /\ To(label).pc = label /\ To(label).entry = call[t].entry
        /\ Dropped(label) \in Call /\ Dropped(label).pc = label /\ Dropped(label).entry = Empty
  BY <1>1 DEF Call
<1>a. \A label \in {"register", "address", "insert", "managed", "device"} :
        /\ Goto(t, label) => call' = [call EXCEPT ![t] = To(label)]
        /\ Forget(t, label) => call' = [call EXCEPT ![t] = Dropped(label)]
  BY <1>1 DEF Goto, Forget, IInv, TypeOK
<1> HIDE DEF To, Dropped
<1>3. \A label \in {"managed", "device"} : WellFormed(Dropped(label))
  BY <1>2 DEF WellFormed, Empty
<1>4. ASSUME At(t, "pin") \/ At(t, "register") \/ At(t, "address")
      PROVE  Owns(t) /\ p \in HostAddrs /\ p \in Addrs /\ p # None
  BY <1>1, <1>4, LinuxShimAssumption DEF WellFormed, Owns, Owning, At, Ptr, Addrs
<1>b. ASSUME NEW label \in {"managed", "device"}, Owns(t), p \in Addrs,
             UnregisterAndUnmap(t), Forget(t, label), UNCHANGED table
      PROVE  IInv'
  <2>1. ~Dropped(label).entry.mapped
    BY <1>2 DEF Empty
  <2>3. PICK h \in SUBSET Mapping : host' = [host EXCEPT ![p] = h]
    BY <1>b DEF UnregisterAndUnmap, Unmap, Leftover, Mapping
  <2>2. call' = [call EXCEPT ![t] = Dropped(label)] /\ Dropped(label) \in Call
    BY <1>2, <1>a, <1>b
  <2> QED
    BY <1>1, <1>3, <1>b, <2>1, <2>2, <2>3, HostStep
<1>5. CASE Map(t)
  <2>1. CASE Goto(t, "device") /\ UNCHANGED host
    <3>1. WellFormed(To("device")) /\ ~To("device").entry.mapped
      BY <1>1, <1>2, <1>5 DEF Map, At, WellFormed
    <3> QED
      BY <1>1, <1>2, <1>a, <1>5, <2>1, <3>1, CallStep DEF Map
  <2>2. CASE ~(Goto(t, "device") /\ UNCHANGED host)
    <3>1. PICK q \in HostAddrs :
            /\ "mapped" \notin host[q] /\ host' = [host EXCEPT ![q] = Leftover(q) \cup {"mapped"}]
            /\ call' = [call EXCEPT ![t].pc = "pin", ![t].entry = [ptr |-> q, mapped |-> TRUE]]
      BY <1>5, <2>2 DEF Map, Unoccupied
    <3> DEFINE c == [call[t] EXCEPT !.pc = "pin", !.entry = [ptr |-> q, mapped |-> TRUE]]
    <3>2. c \in Call /\ WellFormed(c) /\ c.entry.ptr = q /\ StageOf(c.pc) = {"mapped"}
      BY <1>1, LinuxShimAssumption DEF Call, Entry, Addrs, WellFormed, StageOf
    <3>3. ~Owns(t) /\ q \in Addrs
      BY <1>1, <1>5 DEF Map, At, WellFormed, Owns, Addrs
    <3>5. PICK h \in SUBSET Mapping : h = Leftover(q) \cup {"mapped"}
      BY DEF Leftover, Mapping
    <3>6. Staged(h, c.pc)
      BY <3>2, <3>5 DEF Staged, Leftover
    <3>4. call' = [call EXCEPT ![t] = c]
      BY <3>1 DEF IInv, TypeOK
    <3> QED
      BY <1>1, <1>5, <3>1, <3>2, <3>3, <3>4, <3>5, <3>6, HostStep DEF Map
  <2> QED
    BY <2>1, <2>2
<1>6. CASE Pin(t)
  <2>1. host[p] \in {{"mapped"}, {"mapped", "registered"}} /\ At(t, "pin")
    BY <1>4, <1>6 DEF Pin, IInv, CallInv, Staged, StageOf, At
  <2>2. CASE host' = [host EXCEPT ![p] = @ \cup {"pinned"}] /\ Goto(t, "register")
    <3>1. WellFormed(To("register")) /\ StageOf("register") = {"mapped", "pinned"}
      BY <1>1, <1>2, <2>1 DEF WellFormed, At, StageOf
    <3>2. PICK h \in SUBSET Mapping : h = host[p] \cup {"pinned"}
      BY <2>1 DEF Mapping
    <3>5. Staged(h, "register") /\ host' = [host EXCEPT ![p] = h]
      BY <2>1, <2>2, <3>1, <3>2 DEF Staged, Ptr
    <3>3. /\ To("register") \in Call /\ To("register").pc = "register"
          /\ To("register").entry.ptr = p /\ call' = [call EXCEPT ![t] = To("register")]
      BY <1>2, <1>a, <2>2 DEF Ptr
    <3>4. UNCHANGED table /\ Owns(t) /\ p \in Addrs
      BY <1>4, <1>6, <2>1 DEF Pin
    <3>6. Staged(h, To("register").pc)
      BY <3>3, <3>5
    <3> QED
      BY <1>1, <3>1, <3>2, <3>3, <3>4, <3>5, <3>6, HostStep
  <2>3. CASE DeviceOpens /\ Unmap(t) /\ Forget(t, "managed")
    BY <1>4, <1>b, <1>6, <2>1, <2>3 DEF Pin, UnregisterAndUnmap
  <2>4. CASE ~DeviceOpens /\ UNCHANGED host /\ Forget(t, "managed")
    BY <1>1, <1>2, <1>a, <1>3, <1>6, <2>4, CallStep DEF Pin, Empty
  <2> QED
    BY <1>6, <2>2, <2>3, <2>4 DEF Pin
<1>7. CASE RegisterHost(t)
  <2>1. host[p] \cup {"registered"} = Mapping /\ At(t, "register")
    BY <1>4, <1>7 DEF RegisterHost, IInv, CallInv, Staged, StageOf, Mapping, At
  <2>2. CASE host' = [host EXCEPT ![p] = @ \cup {"registered"}] /\ Goto(t, "address")
    <3>1. WellFormed(To("address")) /\ StageOf("address") = Mapping
      BY <1>1, <1>2, <2>1 DEF WellFormed, At, StageOf
    <3>2. host' = [host EXCEPT ![p] = Mapping] /\ Staged(Mapping, "address")
      BY <1>4, <2>1, <2>2, <3>1 DEF IInv, TypeOK, Staged, Ptr
    <3>3. /\ To("address") \in Call /\ To("address").pc = "address"
          /\ To("address").entry.ptr = p /\ call' = [call EXCEPT ![t] = To("address")]
      BY <1>2, <1>a, <2>2 DEF Ptr
    <3>4. UNCHANGED table /\ Owns(t) /\ p \in Addrs
      BY <1>4, <1>7, <2>1 DEF RegisterHost
    <3>5. Staged(Mapping, To("address").pc) /\ Mapping \in SUBSET Mapping
      BY <3>2, <3>3
    <3> QED
      BY <1>1, <3>1, <3>2, <3>3, <3>4, <3>5, HostStep
  <2>3. CASE Unmap(t) /\ Forget(t, "device")
    BY <1>4, <1>b, <1>7, <2>1, <2>3 DEF RegisterHost, UnregisterAndUnmap
  <2> QED
    BY <1>7, <2>2, <2>3 DEF RegisterHost
<1>8. CASE GetAddress(t)
  <2>1. At(t, "address")
    BY <1>8 DEF GetAddress
  <2>2. CASE Goto(t, "insert") /\ UNCHANGED host
    <3>1. WellFormed(To("insert")) /\ StageOf("insert") = StageOf("address")
      BY <1>1, <1>2, <1>4, <2>1 DEF WellFormed, StageOf, Ptr
    <3> QED
      BY <1>1, <1>2, <1>a, <1>4, <1>8, <2>1, <2>2, <3>1, CallStep DEF GetAddress, Ptr, At
  <2>3. CASE UnregisterAndUnmap(t) /\ Forget(t, "device")
    BY <1>4, <1>b, <1>8, <2>1, <2>3 DEF GetAddress
  <2> QED
    BY <1>8, <2>2, <2>3 DEF GetAddress
<1> QED
  BY <1>5, <1>6, <1>7, <1>8

(* A call that ends, and keeps the pointer or not *)
LEMMA ReturnStep ==
  ASSUME IInv, NEW t \in Threads, NEW keep \in BOOLEAN, Return(t, keep), keep => Ptr(t) # None,
         UNCHANGED <<table, host>>, cuda' \in [Addrs -> {"none", "device", "managed"}],
         UNCHANGED <<queue, job>>
  PROVE  IInv'
<1>1. NoCall \in Call /\ WellFormed(NoCall) /\ ~NoCall.entry.mapped
  BY LinuxShimAssumption DEF NoCall, Empty, Call, Entry, WellFormed, Slots
<1>2. RestTyped
  BY DEF IInv, TypeOK, RestTyped, Return, Call, Entry, Ptr
<1>3. call' = [call EXCEPT ![t] = NoCall]
  BY DEF Return
<1> QED
  BY <1>1, <1>2, <1>3, CallStep

(* A jump of thread t that keeps its entry *)
LEMMA GotoStep ==
  ASSUME IInv, NEW t \in Threads,
         NEW label \in {"device", "free", "insert", "peek", "remove"}, NEW i \in Slots,
         call' = [call EXCEPT ![t].pc = label, ![t].i = i],
         UNCHANGED <<table, host>>, RestTyped,
         label \in {"device", "remove", "peek"} => ~call[t].entry.mapped,
         label # "device" => Ptr(t) # None,
         label = "insert" /\ call[t].entry.mapped =>
           call[t].pc \in {"insert", "enqueue"}
  PROVE  IInv'
<1> DEFINE c == [call[t] EXCEPT !.pc = label, !.i = i]
<1>1. call[t] \in Call /\ call' = [call EXCEPT ![t] = c]
  BY DEF IInv, TypeOK
<1>2. c \in Call /\ c.pc = label /\ c.entry = call[t].entry
  BY <1>1 DEF Call
<1>3. WellFormed(c)
  BY <1>2 DEF WellFormed, Ptr, IInv, CallInv
<1>4. c.entry.mapped /\ c.pc \in Owning =>
        Owns(t) /\ c.entry.ptr = Ptr(t) /\ StageOf(c.pc) = StageOf(call[t].pc)
  BY <1>2 DEF Owning, Owns, Ptr, StageOf
<1> HIDE DEF c
<1> QED
  BY <1>1, <1>2, <1>3, <1>4, CallStep

LEMMA CudaSteps ==
  ASSUME IInv, NEW t \in Threads, Managed(t) \/ Device(t)
  PROVE  IInv'
<1>0. At(t, "managed") \/ At(t, "device")
  BY DEF Managed, Device
<1>1. 0 \in Slots /\ call[t] \in Call /\ ~call[t].entry.mapped
  BY <1>0, LinuxShimAssumption DEF IInv, TypeOK, CallInv, WellFormed, At, Slots
<1>2. ASSUME NEW kind \in {"device", "managed"}, Given(t, kind), UNCHANGED <<table, host, held, queue, job>>
      PROVE  IInv'
  <2>1. PICK q \in CudaAddrs :
          /\ cuda' = [cuda EXCEPT ![q] = kind]
          /\ call' = [call EXCEPT ![t].pc = "insert", ![t].entry = [ptr |-> q, mapped |-> FALSE]]
    BY <1>2 DEF Given
  <2> DEFINE c == [call[t] EXCEPT !.pc = "insert", !.entry = [ptr |-> q, mapped |-> FALSE]]
  <2>2. q \in Addrs /\ q # None
    BY LinuxShimAssumption DEF Addrs
  <2>3. c \in Call /\ c.pc = "insert" /\ c.entry = [ptr |-> q, mapped |-> FALSE]
    BY <1>1, <2>2 DEF Call, Entry
  <2>4. call' = [call EXCEPT ![t] = c]
    BY <2>1 DEF IInv, TypeOK
  <2>5. cuda' \in [Addrs -> {"none", "device", "managed"}]
    BY <2>1, <2>2 DEF IInv, TypeOK
  <2>6. RestTyped
    BY <1>2, <2>5 DEF IInv, TypeOK, RestTyped
  <2> HIDE DEF c
  <2>7. ~c.entry.mapped /\ c.entry.ptr = q /\ c.pc = "insert"
    BY <2>3
  <2>8. WellFormed(c)
    BY <2>2, <2>7 DEF WellFormed
  <2> QED
    BY <1>2, <2>3, <2>4, <2>6, <2>7, <2>8, CallStep
<1>3. CASE Goto(t, "device") /\ UNCHANGED <<table, host, cuda, held, queue, job>>
  <2>1. RestTyped
    BY <1>3 DEF IInv, TypeOK, RestTyped
  <2> QED
    BY <1>1, <1>3, <2>1, GotoStep DEF Goto
<1>4. CASE Return(t, FALSE) /\ UNCHANGED <<table, host, cuda, queue, job>>
  BY <1>4, ReturnStep DEF IInv, TypeOK
<1> QED
  BY <1>2, <1>3, <1>4 DEF Managed, Device

(* Thread t puts what it owns into slot s, or takes it out of it *)
LEMMA TableStep ==
  ASSUME IInv, NEW t \in Threads, NEW c \in Call, call' = [call EXCEPT ![t] = c],
         NEW s \in Slots, NEW e \in Entry, table' = [table EXCEPT ![s] = e],
         UNCHANGED host, RestTyped, WellFormed(c),
         e.mapped => /\ Owns(t) /\ e.ptr = Ptr(t) /\ StageOf(call[t].pc) = Mapping
                     /\ ~(c.entry.mapped /\ c.pc \in Owning),
         c.entry.mapped /\ c.pc \in Owning =>
           /\ table[s].mapped /\ c.entry.ptr = table[s].ptr /\ StageOf(c.pc) = Mapping
           /\ ~e.mapped
  PROVE  IInv'
<1>1. TypeOK'
  BY DEF IInv, TypeOK, RestTyped
<1>2. call'[t] = c /\ \A u \in Threads : u # t => call'[u] = call[u]
  BY DEF IInv, TypeOK
<1>3. table'[s] = e /\ \A r \in Slots : r # s => table'[r] = table[r]
  BY DEF IInv, TypeOK
<1>4. EntriesOwnMappings'
  <2>1. \A r \in Slots : table'[r].mapped => host'[table'[r].ptr] = Mapping
    BY <1>3, StagedMapping DEF IInv, EntriesOwnMappings, CallInv
  <2>2. \A q, r \in Slots :
          (table'[q].mapped /\ table'[r].mapped /\ table'[q].ptr = table'[r].ptr) => q = r
    BY <1>3 DEF IInv, EntriesOwnMappings
  <2>3. \A u \in Threads, r \in Slots :
          (Owns(u)' /\ table'[r].mapped) => table'[r].ptr # Ptr(u)'
    BY <1>2, <1>3 DEF IInv, EntriesOwnMappings, Owns, Ptr
  <2>4. \A u, v \in Threads : (Owns(u)' /\ Owns(v)' /\ Ptr(u)' = Ptr(v)') => u = v
    BY <1>2 DEF IInv, EntriesOwnMappings, Owns, Ptr
  <2> QED
    BY <2>1, <2>2, <2>3, <2>4 DEF EntriesOwnMappings
<1>5. CallInv'
  <2>1. c.entry.mapped /\ c.pc \in Owning => Staged(host'[c.entry.ptr], c.pc)
    BY DEF IInv, EntriesOwnMappings, Staged
  <2>2. \A u \in Threads \ {t} : WellFormed(call'[u]) /\ (Owns(u)' => Staged(host'[Ptr(u)'], call'[u].pc))
    BY <1>2 DEF IInv, CallInv, Owns, Ptr, Staged
  <2>3. Owns(t)' <=> c.entry.mapped /\ c.pc \in Owning
    BY <1>2 DEF Owns
  <2>4. WellFormed(call'[t]) /\ (Owns(t)' => Staged(host'[Ptr(t)'], call'[t].pc))
    BY <1>2, <2>1, <2>3 DEF Ptr
  <2> QED
    BY <2>2, <2>4 DEF CallInv, WellFormed, Staged, Ptr
<1>6. TableInv'
  BY <1>3 DEF IInv, TableInv, CallInv, WellFormed, Owns, Ptr
<1> QED
  BY <1>1, <1>4, <1>5, <1>6 DEF IInv

LEMMA InsertStep ==
  ASSUME IInv, NEW t \in Threads, Insert(t)
  PROVE  IInv'
<1>1. /\ At(t, "insert") /\ call[t] \in Call /\ WellFormed(call[t]) /\ Ptr(t) # None
      /\ call[t].entry.mapped => Owns(t)
  BY DEF Insert, IInv, TypeOK, CallInv, WellFormed, At, Ptr, Owns, Owning
<1>2. Slot(t) \in Slots
  BY <1>1, SlotInTable DEF IInv
<1>3. CASE table' = [table EXCEPT ![Slot(t)] = call[t].entry] /\ Return(t, TRUE)
  <2>1. NoCall \in Call /\ WellFormed(NoCall) /\ ~NoCall.entry.mapped
    BY LinuxShimAssumption DEF NoCall, Empty, Call, Entry, WellFormed, Slots
  <2>2. call[t].entry \in Entry /\ call[t].entry.ptr = Ptr(t) /\ StageOf(call[t].pc) = Mapping
    BY <1>1 DEF Call, Ptr, StageOf, At
  <2>3. RestTyped
    BY <1>1, <1>3 DEF Insert, IInv, TypeOK, RestTyped, Return, Call, Entry, Ptr
  <2>4. call' = [call EXCEPT ![t] = NoCall] /\ UNCHANGED host
    BY <1>3 DEF Insert, Return
  <2> QED
    BY <1>1, <1>2, <1>3, <2>1, <2>2, <2>3, <2>4, TableStep
<1>4. CASE UNCHANGED table /\ Return(t, TRUE)
  BY <1>1, <1>4, ReturnStep DEF Insert, IInv, TypeOK
<1>5. CASE UNCHANGED <<table, held>> /\ ~Last(t) /\ NextSlot(t, "insert")
  <2>1. call[t].i + 1 \in Slots
    BY <1>1, <1>5, LinuxShimAssumption DEF Call, Last, Slots
  <2>2. RestTyped
    BY <1>5 DEF Insert, IInv, TypeOK, RestTyped
  <2>3. call' = [call EXCEPT ![t].pc = "insert", ![t].i = call[t].i + 1]
    BY <1>5 DEF NextSlot, IInv, TypeOK
  <2> QED
    BY <1>1, <1>5, <2>1, <2>2, <2>3, GotoStep DEF Insert, At
<1> QED
  BY <1>3, <1>4, <1>5 DEF Insert

LEMMA RemoveStep ==
  ASSUME IInv, NEW t \in Threads, Remove(t)
  PROVE  IInv'
<1>1. /\ At(t, "remove") /\ call[t] \in Call /\ Ptr(t) # None /\ ~call[t].entry.mapped
      /\ 0 \in Slots /\ RestTyped
  BY LinuxShimAssumption
     DEF Remove, IInv, TypeOK, CallInv, WellFormed, At, Ptr, RestTyped, Slots
<1>2. Slot(t) \in Slots
  BY <1>1, SlotInTable DEF IInv
<1> DEFINE e == table[Slot(t)]
           pc == IF call[t].op = "free" THEN "release" ELSE "enqueue"
           c == [call[t] EXCEPT !.entry = e, !.i = 0, !.pc = pc]
<1>3. CASE /\ e.ptr = Ptr(t) /\ table' = [table EXCEPT ![Slot(t)] = Empty]
           /\ call' = [call EXCEPT ![t].entry = e, ![t].i = 0, ![t].pc = pc]
  <2>1. e \in Entry /\ Empty \in Entry /\ ~Empty.mapped /\ pc \in {"release", "enqueue"}
    BY <1>2 DEF IInv, TypeOK, Empty, Entry
  <2>2. c \in Call /\ c.pc = pc /\ c.entry = e
    BY <1>1, <2>1 DEF Call
  <2>3. call' = [call EXCEPT ![t] = c] /\ UNCHANGED host
    BY <1>3 DEF Remove, IInv, TypeOK
  <2>4. e.mapped => e.ptr \in HostAddrs
    BY <1>2 DEF IInv, TableInv
  <2>5. StageOf(pc) = Mapping
    BY DEF StageOf
  <2> HIDE DEF c, pc
  <2>6. WellFormed(c)
    BY <1>1, <1>3, <2>1, <2>2, <2>4 DEF WellFormed
  <2> QED
    BY <1>1, <1>2, <1>3, <2>1, <2>2, <2>3, <2>5, <2>6, TableStep
<1>4. CASE call' = [call EXCEPT ![t].pc = "peek"] /\ UNCHANGED table
  <2>1. call' = [call EXCEPT ![t].pc = "peek", ![t].i = call[t].i] /\ call[t].i \in Slots
    BY <1>1, <1>4 DEF IInv, TypeOK, Call
  <2> QED
    BY <1>1, <1>4, <2>1, GotoStep DEF Remove
<1> QED
  BY <1>3, <1>4 DEF Remove

LEMMA PeekStep ==
  ASSUME IInv, NEW t \in Threads, Peek(t)
  PROVE  IInv'
<1>1. /\ At(t, "peek") /\ call[t] \in Call /\ Ptr(t) # None /\ ~call[t].entry.mapped
      /\ 0 \in Slots
  BY LinuxShimAssumption DEF Peek, IInv, TypeOK, CallInv, WellFormed, At, Ptr, Slots
<1>2. CASE Goto(t, "free") /\ UNCHANGED held
  <2>1. RestTyped
    BY <1>2 DEF Peek, IInv, TypeOK, RestTyped
  <2> QED
    BY <1>1, <1>2, <2>1, GotoStep DEF Peek, Goto
<1>3. CASE Return(t, TRUE)
  BY <1>1, <1>3, ReturnStep DEF Peek, IInv, TypeOK
<1>4. CASE ~Last(t) /\ NextSlot(t, "remove") /\ UNCHANGED held
  <2>1. call[t].i + 1 \in Slots
    BY <1>1, <1>4, LinuxShimAssumption DEF Call, Last, Slots
  <2>2. RestTyped
    BY <1>4 DEF Peek, IInv, TypeOK, RestTyped
  <2>3. call' = [call EXCEPT ![t].pc = "remove", ![t].i = call[t].i + 1]
    BY <1>4 DEF NextSlot, IInv, TypeOK
  <2> QED
    BY <1>1, <1>4, <2>1, <2>2, <2>3, GotoStep DEF Peek
<1> QED
  BY <1>2, <1>3, <1>4 DEF Peek, NotFound

LEMMA FreeSteps ==
  ASSUME IInv, NEW t \in Threads, Release(t) \/ Free(t) \/ Enqueue(t)
  PROVE  IInv'
<1>a. call[t] \in Call /\ WellFormed(call[t]) /\ call[t].pc \in {"release", "free", "enqueue"}
  BY DEF Release, Free, Enqueue, IInv, TypeOK, CallInv, At
<1>b. call[t].entry \in Entry /\ call[t].entry.ptr # None
  BY <1>a DEF Call, WellFormed
<1>1. /\ call[t] \in Call /\ WellFormed(call[t]) /\ Ptr(t) # None /\ Ptr(t) \in Addrs
      /\ 0 \in Slots
  BY <1>a, <1>b, LinuxShimAssumption DEF Ptr, Entry, Slots
<1>2. CASE Release(t)
  <2> DEFINE c == [call[t] EXCEPT !.pc = "free", !.i = 0]
  <2>1. RestTyped
    BY <1>2 DEF Release, IInv, TypeOK, RestTyped
  <2>2. CASE ~call[t].entry.mapped
    BY <1>1, <1>2, <2>1, <2>2, GotoStep DEF Release, Goto
  <2>3. CASE call[t].entry.mapped
    <3>1. c \in Call /\ c.pc = "free" /\ c.entry = call[t].entry
      BY <1>1 DEF Call
    <3>2. call' = [call EXCEPT ![t] = c]
      BY <1>2 DEF Release, Goto, IInv, TypeOK
    <3>3. Owns(t) /\ UNCHANGED table
      BY <1>2, <2>3 DEF Release, Owns, Owning, At
    <3> HIDE DEF c
    <3>4. WellFormed(c) /\ c.pc \notin Owning
      BY <1>1, <3>1 DEF WellFormed, Ptr, Owning
    <3>5. PICK h \in SUBSET Mapping : host' = [host EXCEPT ![Ptr(t)] = h]
      BY <1>2, <2>3 DEF Release, UnregisterAndUnmap, Unmap, Leftover, Mapping
    <3> QED
      BY <1>1, <2>1, <3>1, <3>2, <3>3, <3>4, <3>5, HostStep
  <2> QED
    BY <2>2, <2>3
<1>3. CASE Free(t)
  <2>1. cuda' \in [Addrs -> {"none", "device", "managed"}]
    BY <1>3 DEF Free, IInv, TypeOK
  <2> QED
    BY <1>1, <1>3, <2>1, ReturnStep DEF Free
<1>4. CASE Enqueue(t)
  <2>1. queue' \in Seq(HostAddrs) /\ Len(queue') <= QueueSize
    <3>1. CASE call[t].entry.mapped /\ Len(queue) < QueueSize
      <4>1. queue' = Append(queue, Ptr(t)) /\ Ptr(t) \in HostAddrs /\ queue \in Seq(HostAddrs)
        BY <1>1, <1>4, <3>1 DEF Enqueue, IInv, TypeOK, WellFormed, Ptr
      <4>2. queue' \in Seq(HostAddrs) /\ Len(queue') = Len(queue) + 1
        BY <4>1
      <4>3. Len(queue) \in Nat /\ QueueSize \in Nat
        BY <4>1, LinuxShimAssumption
      <4> QED
        BY <3>1, <4>2, <4>3
    <3>2. CASE UNCHANGED queue
      BY <3>2 DEF IInv, TypeOK
    <3> QED
      BY <1>4, <3>1, <3>2 DEF Enqueue
  <2>2. RestTyped
    BY <1>4, <2>1 DEF Enqueue, IInv, TypeOK, RestTyped
  <2> QED
    BY <1>1, <1>4, <2>2, GotoStep DEF Enqueue, Goto, At
<1> QED
  BY <1>2, <1>3, <1>4

LEMMA WorkerSteps ==
  ASSUME IInv, Dequeue \/ AdviseMapping \/ FreeAsync
  PROVE  IInv'
<1>1. TypeOK'
  <2>1. CASE Dequeue
    <3>1. queue \in Seq(HostAddrs) /\ queue # <<>> /\ Len(queue) <= QueueSize
      BY <2>1 DEF Dequeue, IInv, TypeOK
    <3>2. /\ Head(queue) \in HostAddrs /\ Tail(queue) \in Seq(HostAddrs)
          /\ Len(Tail(queue)) = Len(queue) - 1 /\ Len(queue) \in Nat
      BY <3>1, HeadTailProperties
    <3>3. Len(Tail(queue)) <= QueueSize
      BY <3>1, <3>2, LinuxShimAssumption
    <3> QED
      BY <2>1, <3>2, <3>3 DEF Dequeue, IInv, TypeOK
  <2>2. CASE AdviseMapping
    BY <2>2 DEF AdviseMapping, IInv, TypeOK
  <2>3. CASE FreeAsync
    BY <2>3 DEF FreeAsync, IInv, TypeOK
  <2> QED
    BY <2>1, <2>2, <2>3
<1>2. UNCHANGED <<table, host, call>>
  BY DEF Dequeue, AdviseMapping, FreeAsync
<1> QED
  BY <1>1, <1>2 DEF IInv, EntriesOwnMappings, CallInv, TableInv, Owns, Ptr

LEMMA StutterStep == IInv /\ UNCHANGED vars => IInv'
BY DEF IInv, TypeOK, EntriesOwnMappings, CallInv, TableInv, Owns, Ptr, vars

LEMMA NextInv == IInv /\ [Next]_vars => IInv'
<1> SUFFICES ASSUME IInv, Next PROVE IInv'
  BY StutterStep
<1>1. ASSUME NEW t \in Threads, Override(t) PROVE IInv'
  <2>1. CASE Alloc(t) \/ FreeOrPrefetch(t)
    BY <2>1, ApplicationSteps
  <2>2. CASE Map(t) \/ Pin(t) \/ RegisterHost(t) \/ GetAddress(t)
    BY <2>2, OverflowSteps
  <2>3. CASE Managed(t) \/ Device(t)
    BY <2>3, CudaSteps
  <2>4. CASE Insert(t)
    BY <2>4, InsertStep
  <2>5. CASE Remove(t)
    BY <2>5, RemoveStep
  <2>6. CASE Peek(t)
    BY <2>6, PeekStep
  <2>7. CASE Release(t) \/ Free(t) \/ Enqueue(t)
    BY <2>7, FreeSteps
  <2> QED
    BY <1>1, <2>1, <2>2, <2>3, <2>4, <2>5, <2>6, <2>7 DEF Override
<1> QED
  BY <1>1, WorkerSteps DEF Next
-----------------------------------------------------------------------------

(* The inductive invariant holds in every state of every behaviour of the   *)
(* overrides.                                                               *)
THEOREM Invariant == Spec => []IInv
<1> QED
  BY InitInv, NextInv, PTL DEF Spec

(* Every variable of the overrides keeps its type; the prefetch ring never  *)
(* holds more than its size (greenboost_cuda_shim.c:132-150).               *)
THEOREM TypeCorrect == Spec => []TypeOK
<1>1. IInv => TypeOK
  BY DEF IInv
<1> QED
  BY <1>1, Invariant, PTL

(* However the chains of the table break, each mapping has at most one      *)
(* owner, an entry or the call that took the entry out, and is whole while  *)
(* an entry stands for it: none is unmapped twice                           *)
(* (greenboost_cuda_shim.c:199-206, 678-689, 839-844).                      *)
THEOREM MappingsOwned == Spec => []EntriesOwnMappings
<1>1. IInv => EntriesOwnMappings
  BY DEF IInv
<1> QED
  BY <1>1, Invariant, PTL

-----------------------------------------------------------------------------
(* Memory in use.  What a call works on at each point, when mmap and CUDA   *)
(* never return the same address                                            *)

SeparateAddresses == HostAddrs \cap CudaAddrs = {}

Backed(p) == host[p] = Mapping \/ cuda[p] # "none"

(* Thread t has p for itself; what it asks CUDA to free after a mapping is  *)
(* anybody's                                                                *)
Busy(t, p) == p = Ptr(t) /\ (call[t].pc # "free" \/ p \in CudaAddrs)

Sound(t) ==
  /\ call[t].pc \in {"idle", "map", "managed", "device"} => Ptr(t) = None
  /\ Ptr(t) \in CudaAddrs => cuda[Ptr(t)] # "none"
  /\ call[t].pc \in {"insert", "enqueue", "release"} /\ ~call[t].entry.mapped => Ptr(t) \in CudaAddrs
  /\ call[t].pc \in {"remove", "peek"} /\ Ptr(t) \in HostAddrs => host[Ptr(t)] = Mapping

(* Each address has memory of one kind, and the table knows which *)
KindInv ==
  /\ \A p \in HostAddrs : cuda[p] = "none"
  /\ \A p \in CudaAddrs : host[p] = {}
  /\ \A s \in Slots : table[s].ptr = None \/ table[s].mapped \/ table[s].ptr \in CudaAddrs

UseInv ==
  /\ \A p \in held : Backed(p)
  /\ \A t \in Threads : Sound(t)
  /\ \A t \in Threads, p \in held : ~Busy(t, p)
  /\ \A t, u \in Threads, p \in Addrs : Busy(t, p) /\ Busy(u, p) => t = u

UInv == IInv /\ KindInv /\ UseInv

LEMMA InitUse == Init => UInv
<1> SUFFICES ASSUME Init PROVE UInv
  OBVIOUS
<1>1. IInv
  BY InitInv
<1>2. KindInv
  BY DEF Init, KindInv, Empty, Addrs
<1>3. \A t \in Threads : Ptr(t) = None /\ call[t].pc = "idle"
  BY DEF Init, Ptr, NoCall, Empty
<1>4. None \notin Addrs
  BY LinuxShimAssumption DEF Addrs
<1>5. UseInv
  BY <1>3, <1>4 DEF Init, UseInv, Sound, Busy, Addrs
<1> QED
  BY <1>1, <1>2, <1>5 DEF UInv

(* A step of thread t that touches p alone, which no other call has *)
LEMMA UseStep ==
  ASSUME UInv, NEW t \in Threads, NEW c \in Call, call' = [call EXCEPT ![t] = c],
         NEW p \in Addrs \cup {None}, held' \subseteq Addrs,
         \A q \in Addrs \ {p} : /\ host'[q] = host[q] /\ cuda'[q] = cuda[q]
                                /\ q \in held' <=> q \in held,
         p \in Addrs => \A u \in Threads \ {t} : ~Busy(u, p),
         c.entry.ptr \in {p, None}, Sound(t)',
         p \in held' => Backed(p)' /\ ~Busy(t, p)'
  PROVE  UseInv'
<1>1. call'[t] = c /\ \A u \in Threads : u # t => call'[u] = call[u]
  BY DEF UInv, IInv, TypeOK
<1>2. None \notin Addrs
  BY LinuxShimAssumption DEF Addrs
<1>3. \A u \in Threads \ {t}, q \in Addrs : Busy(u, q)' <=> Busy(u, q)
  BY <1>1 DEF Busy, Ptr
<1>4. \A q \in Addrs : Busy(t, q)' => q = p
  BY <1>1, <1>2 DEF Busy, Ptr
<1>5. \A q \in held' : Backed(q)'
  BY DEF UInv, UseInv, Backed
<1>6. \A u \in Threads : Sound(u)'
  <2> SUFFICES ASSUME NEW u \in Threads, u # t PROVE Sound(u)'
    OBVIOUS
  <2>1. Ptr(u)' = Ptr(u) /\ call'[u] = call[u] /\ Sound(u)
    BY <1>1 DEF Ptr, UInv, UseInv
  <2>2. CASE Ptr(u) \in Addrs \ {p}
    BY <2>1, <2>2 DEF Sound
  <2>3. CASE Ptr(u) \notin Addrs
    BY <2>1, <2>3 DEF Sound, Addrs
  <2>4. CASE Ptr(u) = p /\ p \in Addrs
    <3>1. call[u].pc = "free" /\ p \notin CudaAddrs
      BY <2>4 DEF Busy
    <3> QED
      BY <2>1, <2>4, <3>1 DEF Sound
  <2> QED
    BY <2>2, <2>3, <2>4
<1>7. \A u \in Threads, q \in held' : ~Busy(u, q)'
  <2> SUFFICES ASSUME NEW u \in Threads, NEW q \in held', Busy(u, q)' PROVE FALSE
    OBVIOUS
  <2>1. q \in Addrs
    OBVIOUS
  <2>2. CASE u = t
    BY <1>4, <2>1, <2>2
  <2>3. CASE u # t
    BY <1>3, <2>1, <2>3 DEF UInv, UseInv
  <2> QED
    BY <2>2, <2>3
<1>8. \A u, v \in Threads, q \in Addrs : Busy(u, q)' /\ Busy(v, q)' => u = v
  BY <1>3, <1>4 DEF UInv, UseInv
<1> QED
  BY <1>5, <1>6, <1>7, <1>8 DEF UseInv

(* A step that changes the call of thread t and no memory *)
LEMMA UseCallStep ==
  ASSUME UInv, NEW t \in Threads, NEW c \in Call, call' = [call EXCEPT ![t] = c],
         UNCHANGED <<host, cuda, held>>, c.entry.ptr \in {Ptr(t), None},
         call[t].pc # "free" \/ c.entry.ptr = None, Sound(t)'
  PROVE  UseInv'
<1> DEFINE p == c.entry.ptr
<1>1. p \in Addrs \cup {None} /\ held' \subseteq Addrs
  BY DEF UInv, IInv, TypeOK, Call, Entry
<1>2. None \notin Addrs
  BY LinuxShimAssumption DEF Addrs
<1>3. p \in Addrs => Busy(t, p)
  BY <1>2 DEF Busy
<1>4. p \in Addrs => (\A u \in Threads \ {t} : ~Busy(u, p)) /\ p \notin held'
  BY <1>3 DEF UInv, UseInv
<1>5. p \notin held'
  BY <1>1, <1>2, <1>4
<1> HIDE DEF p
<1>6. c.entry.ptr \in {p, None}
  BY DEF p
<1> QED
  BY <1>1, <1>4, <1>5, <1>6, UseStep

(* Only overrides of mappings touch the host, only CUDA's own addresses get *)
(* memory from CUDA, and ht_insert takes what is one or the other           *)
LEMMA KindNext ==
  ASSUME UInv, SeparateAddresses, NEW t \in Threads, Override(t)
  PROVE  KindInv'
<1>0. /\ host \in [Addrs -> SUBSET Mapping] /\ cuda \in [Addrs -> {"none", "device", "managed"}]
      /\ HostAddrs \subseteq Addrs /\ CudaAddrs \subseteq Addrs
      /\ KindInv /\ WellFormed(call[t]) /\ call[t] \in Call /\ Sound(t)
  BY DEF UInv, UseInv, IInv, TypeOK, CallInv, Addrs
<1>1. \A p \in HostAddrs : cuda'[p] = "none"
  <2>1. CASE UNCHANGED cuda
    BY <1>0, <2>1 DEF KindInv
  <2>2. CASE Managed(t) \/ Device(t)
    <3>1. ASSUME NEW kind \in {"device", "managed"}, Given(t, kind) PROVE \A p \in HostAddrs : cuda'[p] = "none"
      BY <1>0, <3>1 DEF Given, KindInv, SeparateAddresses
    <3> QED
      BY <2>1, <2>2, <3>1 DEF Managed, Device
  <2>3. CASE Free(t)
    BY <1>0, <2>3 DEF Free, KindInv
  <2> QED
    BY <2>1, <2>2, <2>3
       DEF Override, Alloc, FreeOrPrefetch, Map, Pin, RegisterHost, GetAddress, Insert, Remove, Peek,
           Release, Enqueue
<1>2. \A p \in CudaAddrs : host'[p] = {}
  <2>1. CASE UNCHANGED host
    BY <1>0, <2>1 DEF KindInv
  <2>2. CASE Map(t)
    BY <1>0, <2>2 DEF Map, KindInv, SeparateAddresses
  <2>3. CASE Pin(t) \/ RegisterHost(t) \/ GetAddress(t) \/ Release(t)
    <3>1. ~(UNCHANGED host) => Ptr(t) \in HostAddrs
      BY <1>0, <2>3 DEF Pin, RegisterHost, GetAddress, Release, At, WellFormed, Ptr
    <3>2. \A q \in Addrs \ {Ptr(t)} : host'[q] = host[q]
      BY <1>0, <2>3 DEF Pin, RegisterHost, GetAddress, Release, UnregisterAndUnmap, Unmap
    <3> QED
      BY <1>0, <2>1, <3>1, <3>2 DEF KindInv, SeparateAddresses
  <2> QED
    BY <2>1, <2>2, <2>3
       DEF Override, Alloc, FreeOrPrefetch, Managed, Device, Insert, Remove, Peek, Free, Enqueue
<1>3. \A s \in Slots : table'[s].ptr = None \/ table'[s].mapped \/ table'[s].ptr \in CudaAddrs
  <2>1. table \in [Slots -> Entry]
    BY DEF UInv, IInv, TypeOK
  <2>2. CASE UNCHANGED table
    BY <1>0, <2>2 DEF KindInv
  <2>3. CASE Insert(t) /\ ~(UNCHANGED table)
    <3>1. table' = [table EXCEPT ![Slot(t)] = call[t].entry] /\ call[t].pc = "insert"
      BY <2>3 DEF Insert, At
    <3>2. call[t].entry.mapped \/ call[t].entry.ptr \in CudaAddrs
      BY <1>0, <3>1 DEF Sound, Ptr
    <3> QED
      BY <1>0, <2>1, <3>1, <3>2 DEF KindInv
  <2>4. CASE Remove(t)
    BY <1>0, <2>1, <2>4 DEF Remove, KindInv, Empty
  <2> QED
    BY <2>2, <2>3, <2>4
       DEF Override, Alloc, FreeOrPrefetch, Map, Pin, RegisterHost, GetAddress, Managed, Device, Peek,
           Release, Free, Enqueue
<1> QED
  BY <1>1, <1>2, <1>3 DEF KindInv

(* The end of a call *)
LEMMA UseReturn ==
  ASSUME UInv, NEW t \in Threads, NEW keep \in BOOLEAN, Return(t, keep),
         UNCHANGED <<host, cuda>>,
         keep => Ptr(t) # None /\ Backed(Ptr(t)) /\ Busy(t, Ptr(t))
  PROVE  UseInv'
<1>0. PICK p : p = IF keep THEN Ptr(t) ELSE None
  OBVIOUS
<1>1. None \notin Addrs /\ NoCall \in Call /\ NoCall.entry.ptr = None /\ NoCall.pc = "idle"
  BY LinuxShimAssumption DEF Addrs, NoCall, Empty, Call, Entry, Slots
<1>2. call' = [call EXCEPT ![t] = NoCall] /\ held' = held \cup (IF keep THEN {p} ELSE {})
  BY <1>0 DEF Return
<1>3. p \in Addrs \cup {None} /\ held' \subseteq Addrs
  BY <1>0, <1>2 DEF UInv, IInv, TypeOK, Call, Entry, Ptr
<1>4. call'[t] = NoCall
  BY <1>2 DEF UInv, IInv, TypeOK
<1>5. Sound(t)' /\ \A q \in Addrs : ~Busy(t, q)'
  BY <1>1, <1>4 DEF Sound, Busy, Ptr, Addrs
<1>6. p \in Addrs => \A u \in Threads \ {t} : ~Busy(u, p)
  BY <1>0, <1>1 DEF UInv, UseInv
<1>7. p \in held' => Backed(p)' /\ ~Busy(t, p)'
  BY <1>0, <1>1, <1>3, <1>5 DEF Backed
<1>8. \A q \in Addrs \ {p} : host'[q] = host[q] /\ cuda'[q] = cuda[q] /\ (q \in held' <=> q \in held)
  BY <1>2
<1>9. NoCall.entry.ptr \in {p, None}
  BY <1>1
<1> QED
  BY <1>1, <1>2, <1>3, <1>5, <1>6, <1>7, <1>8, <1>9, UseStep

(* The application gives up a pointer when it hands it to a call *)
LEMMA UseApplication ==
  ASSUME UInv, SeparateAddresses, NEW t \in Threads, Alloc(t) \/ FreeOrPrefetch(t)
  PROVE  UseInv'
<1>1. None \notin Addrs /\ Empty \in Entry /\ 0 \in Slots
  BY LinuxShimAssumption DEF Addrs, Empty, Entry, Slots
<1>2. call \in [Threads -> Call] /\ held \subseteq Addrs
  BY DEF UInv, IInv, TypeOK
<1>3. CASE Alloc(t)
  <2>1. PICK label \in {"map", "managed", "device"} :
          call' = [call EXCEPT ![t] = [NoCall EXCEPT !.op = "alloc", !.pc = label]]
    BY <1>3 DEF Alloc
  <2> DEFINE c == [NoCall EXCEPT !.op = "alloc", !.pc = label]
  <2>2. c \in Call /\ c.entry.ptr = None /\ c.pc = label
    BY <1>1 DEF NoCall, Empty, Call, Entry
  <2>3. call' = [call EXCEPT ![t] = c] /\ call'[t] = c
    BY <1>2, <2>1
  <2> HIDE DEF c
  <2>4. Sound(t)'
    BY <1>1, <2>2, <2>3 DEF Sound, Ptr, Addrs
  <2>5. call[t].pc # "free"
    BY <1>3 DEF Alloc, At
  <2> QED
    BY <1>3, <2>2, <2>3, <2>4, <2>5, UseCallStep DEF Alloc
<1>4. CASE FreeOrPrefetch(t)
  <2>1. PICK p \in held, op \in {"free", "prefetch"} :
          /\ held' = held \ {p}
          /\ call' = [call EXCEPT ![t] = [op |-> op, pc |-> "remove", i |-> 0,
                                          entry |-> [ptr |-> p, mapped |-> FALSE]]]
    BY <1>4 DEF FreeOrPrefetch
  <2> DEFINE c == [op |-> op, pc |-> "remove", i |-> 0, entry |-> [ptr |-> p, mapped |-> FALSE]]
  <2>2. p \in Addrs /\ Backed(p) /\ \A u \in Threads : ~Busy(u, p)
    BY <1>2 DEF UInv, UseInv
  <2>3. c \in Call /\ c.entry.ptr = p /\ c.pc = "remove"
    BY <1>1, <2>2 DEF Call, Entry
  <2>4. call' = [call EXCEPT ![t] = c] /\ call'[t] = c
    BY <1>2, <2>1
  <2> HIDE DEF c
  <2>5. UNCHANGED <<host, cuda>>
    BY <1>4 DEF FreeOrPrefetch
  <2>6. Sound(t)'
    <3>1. p \in HostAddrs => host[p] = Mapping
      BY <2>2 DEF Backed, UInv, KindInv
    <3>2. p \in CudaAddrs => cuda[p] # "none"
      BY <2>2 DEF Backed, UInv, KindInv, Mapping
    <3> QED
      BY <2>3, <2>4, <2>5, <3>1, <3>2 DEF Sound, Ptr
  <2> QED
    BY <1>2, <2>1, <2>2, <2>3, <2>4, <2>5, <2>6, UseStep
<1> QED
  BY <1>3, <1>4

(* Thread t changes what there is at the address it has for itself *)
LEMMA UseOwnStep ==
  ASSUME UInv, NEW t \in Threads, NEW c \in Call, call' = [call EXCEPT ![t] = c],
         UNCHANGED held, Busy(t, Ptr(t)), Ptr(t) \in Addrs,
         \A q \in Addrs \ {Ptr(t)} : host'[q] = host[q] /\ cuda'[q] = cuda[q],
         c.entry.ptr \in {Ptr(t), None}, Sound(t)'
  PROVE  UseInv'
<1>1. PICK p \in Addrs : p = Ptr(t)
  OBVIOUS
<1>2. p \notin held' /\ \A u \in Threads \ {t} : ~Busy(u, p)
  BY <1>1 DEF UInv, UseInv
<1>3. held' \subseteq Addrs
  BY DEF UInv, IInv, TypeOK
<1> QED
  BY <1>1, <1>2, <1>3, UseStep

(* What mmap or CUDA returns is nobody's *)
LEMMA NewAddress ==
  ASSUME UInv, SeparateAddresses, NEW p \in Addrs, Unoccupied(p)
  PROVE  p \notin held /\ \A u \in Threads : ~Busy(u, p)
<1>1. p \notin held
  BY DEF UInv, UseInv, Backed, Unoccupied, Mapping
<1>2. ASSUME NEW u \in Threads, Busy(u, p) PROVE FALSE
  <2>1. Sound(u) /\ call[u] \in Call /\ WellFormed(call[u]) /\ (Owns(u) => Staged(host[p], call[u].pc))
    BY <1>2 DEF UInv, UseInv, IInv, TypeOK, CallInv, Busy
  <2>2. p \notin CudaAddrs
    BY <1>2, <2>1 DEF Sound, Busy, Unoccupied
  <2>3. ~Owns(u)
    BY <2>1, StagedMapping DEF Unoccupied
  <2>4. p \in HostAddrs /\ p # None /\ p = Ptr(u) /\ call[u].pc # "free"
    BY <1>2, <2>2, LinuxShimAssumption DEF Addrs, Busy
  <2>5. call[u].pc \notin {"idle", "map", "managed", "device", "remove", "peek"}
    BY <2>1, <2>4 DEF Sound, Unoccupied, Mapping
  <2>6. call[u].pc \in Owning
    BY <2>1, <2>4, <2>5 DEF Call, Owning
  <2>7. call[u].entry.mapped
    BY <2>1, <2>2, <2>4, <2>6 DEF Sound, WellFormed, Owning
  <2> QED
    BY <2>3, <2>6, <2>7 DEF Owns
<1> QED
  BY <1>1, <1>2

LEMMA UseOverflow ==
  ASSUME UInv, SeparateAddresses, NEW t \in Threads,
         Map(t) \/ Pin(t) \/ RegisterHost(t) \/ GetAddress(t)
  PROVE  UseInv'
<1>0. /\ call \in [Threads -> Call] /\ call[t] \in Call /\ host \in [Addrs -> SUBSET Mapping]
      /\ held \subseteq Addrs /\ None \notin Addrs /\ HostAddrs \subseteq Addrs
      /\ Empty \in Entry /\ 0 \in Slots /\ Empty.ptr = None
      /\ UNCHANGED <<cuda, held>> /\ WellFormed(call[t]) /\ Sound(t)
  BY LinuxShimAssumption
     DEF UInv, UseInv, IInv, TypeOK, CallInv, Empty, Entry, Slots, Addrs, Map, Pin, RegisterHost, GetAddress
<1>1. CASE Map(t)
  <2>1. CASE Goto(t, "device") /\ UNCHANGED host
    <3> DEFINE c == [call[t] EXCEPT !.pc = "device", !.i = 0]
    <3>1. c \in Call /\ c.entry = call[t].entry /\ c.pc = "device"
      BY <1>0 DEF Call
    <3>2. call' = [call EXCEPT ![t] = c] /\ call'[t] = c
      BY <1>0, <2>1 DEF Goto
    <3> HIDE DEF c
    <3>3. Ptr(t) = None /\ call[t].pc = "map"
      BY <1>0, <1>1 DEF Sound, Map, At
    <3>4. Sound(t)' /\ c.entry.ptr = None
      BY <1>0, <3>1, <3>2, <3>3 DEF Sound, Ptr, Addrs
    <3> QED
      BY <1>0, <2>1, <3>1, <3>2, <3>3, <3>4, UseCallStep
  <2>2. CASE ~(Goto(t, "device") /\ UNCHANGED host)
    <3>1. PICK p \in HostAddrs :
            /\ Unoccupied(p) /\ host' = [host EXCEPT ![p] = Leftover(p) \cup {"mapped"}]
            /\ call' = [call EXCEPT ![t].pc = "pin", ![t].entry = [ptr |-> p, mapped |-> TRUE]]
      BY <1>1, <2>2 DEF Map
    <3> DEFINE c == [call[t] EXCEPT !.pc = "pin", !.entry = [ptr |-> p, mapped |-> TRUE]]
    <3>2. c \in Call /\ c.entry.ptr = p /\ c.pc = "pin"
      BY <1>0 DEF Call, Entry
    <3>3. call' = [call EXCEPT ![t] = c] /\ call'[t] = c
      BY <1>0, <3>1
    <3> HIDE DEF c
    <3>4. p \in Addrs /\ p \notin held /\ \A u \in Threads : ~Busy(u, p)
      BY <1>0, <3>1, NewAddress
    <3>5. Sound(t)'
      BY <3>2, <3>3 DEF Sound, Ptr, SeparateAddresses
    <3> QED
      BY <1>0, <3>1, <3>2, <3>3, <3>4, <3>5, UseStep
  <2> QED
    BY <2>1, <2>2
<1>2. CASE Pin(t) \/ RegisterHost(t) \/ GetAddress(t)
  <2>1. call[t].pc \in {"pin", "register", "address"} /\ Ptr(t) \in HostAddrs /\ call[t].entry.mapped
    BY <1>0, <1>2 DEF Pin, RegisterHost, GetAddress, At, WellFormed, Ptr
  <2>2. Busy(t, Ptr(t)) /\ Ptr(t) \in Addrs /\ Ptr(t) \notin CudaAddrs
    BY <1>0, <2>1 DEF Busy, SeparateAddresses
  <2>3. \A q \in Addrs \ {Ptr(t)} : host'[q] = host[q] /\ cuda'[q] = cuda[q]
    BY <1>0, <1>2 DEF Pin, RegisterHost, GetAddress, UnregisterAndUnmap, Unmap
  <2>4. ASSUME NEW label \in {"register", "address", "insert"}, Goto(t, label) PROVE UseInv'
    <3> DEFINE c == [call[t] EXCEPT !.pc = label, !.i = 0]
    <3>1. c \in Call /\ c.entry = call[t].entry /\ c.pc = label
      BY <1>0 DEF Call
    <3>2. call' = [call EXCEPT ![t] = c] /\ call'[t] = c
      BY <1>0, <2>4 DEF Goto
    <3> HIDE DEF c
    <3>3. c.entry.ptr = Ptr(t) /\ c.entry.mapped
      BY <2>1, <3>1 DEF Ptr
    <3>4. Sound(t)'
      BY <2>2, <3>1, <3>2, <3>3 DEF Sound, Ptr
    <3> QED
      BY <1>0, <2>2, <2>3, <3>1, <3>2, <3>3, <3>4, UseOwnStep
  <2>5. ASSUME NEW label \in {"managed", "device"}, Forget(t, label) PROVE UseInv'
    <3> DEFINE c == [call[t] EXCEPT !.pc = label, !.entry = Empty]
    <3>1. c \in Call /\ c.entry = Empty /\ c.pc = label
      BY <1>0 DEF Call
    <3>2. call' = [call EXCEPT ![t] = c] /\ call'[t] = c
      BY <1>0, <2>5 DEF Forget
    <3> HIDE DEF c
    <3>3. Sound(t)' /\ c.entry.ptr = None
      BY <1>0, <3>1, <3>2 DEF Sound, Ptr, Addrs
    <3> QED
      BY <1>0, <2>2, <2>3, <3>1, <3>2, <3>3, UseOwnStep
  <2> QED
    BY <1>2, <2>4, <2>5 DEF Pin, RegisterHost, GetAddress
<1> QED
  BY <1>1, <1>2

LEMMA UseCuda ==
  ASSUME UInv, SeparateAddresses, NEW t \in Threads, Managed(t) \/ Device(t)
  PROVE  UseInv'
<1>0. /\ call \in [Threads -> Call] /\ call[t] \in Call /\ held \subseteq Addrs /\ None \notin Addrs
      /\ cuda \in [Addrs -> {"none", "device", "managed"}] /\ CudaAddrs \subseteq Addrs /\ 0 \in Slots
      /\ UNCHANGED host /\ Sound(t)
  <2>1. TypeOK /\ Sound(t)
    BY DEF UInv, UseInv, IInv
  <2>2. UNCHANGED host
    BY DEF Managed, Device
  <2>3. None \notin Addrs /\ 0 \in Slots /\ CudaAddrs \subseteq Addrs
    BY LinuxShimAssumption DEF Slots, Addrs
  <2> QED
    BY <2>1, <2>2, <2>3 DEF TypeOK
<1>1. Ptr(t) = None /\ call[t].pc # "free"
  BY <1>0 DEF Managed, Device, At, Sound
<1>2. ASSUME NEW kind \in {"device", "managed"}, Given(t, kind), UNCHANGED held PROVE UseInv'
  <2>1. PICK p \in CudaAddrs :
          /\ Unoccupied(p) /\ cuda' = [cuda EXCEPT ![p] = kind]
          /\ call' = [call EXCEPT ![t].pc = "insert", ![t].entry = [ptr |-> p, mapped |-> FALSE]]
    BY <1>2 DEF Given
  <2> DEFINE c == [call[t] EXCEPT !.pc = "insert", !.entry = [ptr |-> p, mapped |-> FALSE]]
  <2>2. c \in Call /\ c.entry.ptr = p /\ c.pc = "insert"
    BY <1>0 DEF Call, Entry
  <2>3. call' = [call EXCEPT ![t] = c] /\ call'[t] = c
    BY <1>0, <2>1
  <2> HIDE DEF c
  <2>4. p \in Addrs /\ p \notin held /\ \A u \in Threads : ~Busy(u, p)
    BY <1>0, <2>1, NewAddress
  <2>5. Sound(t)'
    BY <1>0, <2>1, <2>2, <2>3 DEF Sound, Ptr, SeparateAddresses
  <2> QED
    BY <1>0, <1>2, <2>1, <2>2, <2>3, <2>4, <2>5, UseStep
<1>3. CASE Goto(t, "device") /\ UNCHANGED <<cuda, held>>
  <2> DEFINE c == [call[t] EXCEPT !.pc = "device", !.i = 0]
  <2>1. c \in Call /\ c.entry = call[t].entry /\ c.pc = "device"
    BY <1>0 DEF Call
  <2>2. call' = [call EXCEPT ![t] = c] /\ call'[t] = c
    BY <1>0, <1>3 DEF Goto
  <2> HIDE DEF c
  <2>3. Sound(t)' /\ c.entry.ptr = None
    BY <1>0, <1>1, <2>1, <2>2 DEF Sound, Ptr, Addrs
  <2> QED
    BY <1>0, <1>1, <1>3, <2>1, <2>2, <2>3, UseCallStep
<1>4. CASE Return(t, FALSE) /\ UNCHANGED cuda
  BY <1>0, <1>4, UseReturn
<1> QED
  BY <1>2, <1>3, <1>4 DEF Managed, Device

(* The steps of a call that look at the table and touch no memory *)
LEMMA UseTable ==
  ASSUME UInv, SeparateAddresses, NEW t \in Threads,
         Insert(t) \/ Remove(t) \/ Peek(t) \/ Enqueue(t)
  PROVE  UseInv'
<1>0. /\ call \in [Threads -> Call] /\ call[t] \in Call /\ None \notin Addrs /\ 0 \in Slots
      /\ UNCHANGED <<host, cuda>> /\ Sound(t) /\ WellFormed(call[t]) /\ KindInv
      /\ call[t].pc \in {"insert", "remove", "peek", "enqueue"}
      /\ Owns(t) => Staged(host[Ptr(t)], call[t].pc)
  <2>1. TypeOK /\ Sound(t) /\ WellFormed(call[t]) /\ KindInv /\ (Owns(t) => Staged(host[Ptr(t)], call[t].pc))
    BY DEF UInv, UseInv, IInv, CallInv
  <2>2. UNCHANGED <<host, cuda>> /\ call[t].pc \in {"insert", "remove", "peek", "enqueue"}
    BY DEF Insert, Remove, Peek, Enqueue, At
  <2>3. None \notin Addrs /\ 0 \in Slots
    BY LinuxShimAssumption DEF Slots, Addrs
  <2> QED
    BY <2>1, <2>2, <2>3 DEF TypeOK
<1>1. Ptr(t) # None /\ Ptr(t) \in Addrs /\ Busy(t, Ptr(t))
  BY <1>0 DEF WellFormed, Ptr, Busy, Call, Entry
(* what a call holds is there *)
<1>2. call[t].pc \in {"insert", "peek"} => Backed(Ptr(t))
  <2>1. CASE Ptr(t) \in CudaAddrs
    BY <1>0, <2>1 DEF Sound, Backed
  <2>2. CASE Ptr(t) \in HostAddrs /\ call[t].pc = "peek"
    BY <1>0, <2>2 DEF Sound, Backed
  <2>3. CASE Ptr(t) \notin CudaAddrs /\ call[t].pc = "insert"
    BY <1>0, <2>3, StagedMapping DEF Sound, Owns, Owning, StageOf, Backed
  <2> QED
    BY <1>1, <2>1, <2>2, <2>3 DEF Addrs
<1>3. ASSUME NEW keep \in BOOLEAN, Return(t, keep), call[t].pc \in {"insert", "peek"} PROVE UseInv'
  BY <1>0, <1>1, <1>2, <1>3, UseReturn
<1>4. ASSUME NEW c \in Call, call' = [call EXCEPT ![t] = c], UNCHANGED held, c.entry.ptr = Ptr(t),
             \/ c.pc = call[t].pc /\ c.entry = call[t].entry
             \/ c.pc \in {"peek", "remove"} /\ call[t].pc \in {"remove", "peek"}
             \/ c.pc = "free"
             \/ c.pc \in {"release", "enqueue"} /\ (c.entry.mapped \/ Ptr(t) \in CudaAddrs)
             \/ c.pc = "insert" /\ c.entry = call[t].entry /\ call[t].pc = "enqueue"
      PROVE  UseInv'
  <2>1. call'[t] = c
    BY <1>0, <1>4
  <2>2. Sound(t)'
    BY <1>0, <1>4, <2>1 DEF Sound, Ptr
  <2> QED
    BY <1>0, <1>4, <2>2, UseCallStep
<1>5. CASE Insert(t)
  <2>1. CASE Return(t, TRUE)
    BY <1>0, <1>3, <1>5, <2>1 DEF Insert, At
  <2>2. CASE ~Last(t) /\ NextSlot(t, "insert") /\ UNCHANGED held
    <3> DEFINE c == [call[t] EXCEPT !.i = @ + 1, !.pc = "insert"]
    <3>0. call[t].i + 1 \in Slots
      BY <1>0, <2>2, LinuxShimAssumption DEF Call, Last, Slots
    <3>1. c \in Call /\ c.entry = call[t].entry /\ c.pc = "insert"
      BY <1>0, <3>0 DEF Call
    <3>2. call' = [call EXCEPT ![t] = c] /\ call[t].pc = "insert"
      BY <1>0, <1>5, <2>2 DEF NextSlot, Insert, At
    <3> HIDE DEF c
    <3> QED
      BY <1>4, <2>2, <3>1, <3>2 DEF Ptr
  <2> QED
    BY <1>5, <2>1, <2>2 DEF Insert
<1>6. CASE Remove(t)
  <2>0. UNCHANGED held /\ call[t].pc = "remove" /\ Slot(t) \in Slots
    BY <1>1, <1>6, SlotInTable DEF Remove, At, UInv, IInv
  <2> DEFINE e == table[Slot(t)]
             pc == IF call[t].op = "free" THEN "release" ELSE "enqueue"
  <2>1. CASE /\ e.ptr = Ptr(t)
             /\ call' = [call EXCEPT ![t].entry = e, ![t].i = 0, ![t].pc = pc]
    <3> DEFINE c == [call[t] EXCEPT !.entry = e, !.i = 0, !.pc = pc]
    <3>1. e \in Entry /\ (e.mapped \/ Ptr(t) \in CudaAddrs)
      BY <1>0, <1>1, <2>0, <2>1 DEF UInv, IInv, TypeOK, KindInv
    <3>2. c \in Call /\ c.entry = e /\ c.pc \in {"release", "enqueue"}
      BY <1>0, <3>1 DEF Call
    <3>3. call' = [call EXCEPT ![t] = c]
      BY <1>0, <2>1
    <3> HIDE DEF c
    <3> QED
      BY <1>4, <2>0, <2>1, <3>1, <3>2, <3>3
  <2>2. CASE call' = [call EXCEPT ![t].pc = "peek"]
    <3> DEFINE c == [call[t] EXCEPT !.pc = "peek"]
    <3>1. c \in Call /\ c.entry = call[t].entry /\ c.pc = "peek" /\ call' = [call EXCEPT ![t] = c]
      BY <1>0, <2>2 DEF Call
    <3> HIDE DEF c
    <3> QED
      BY <1>4, <2>0, <3>1 DEF Ptr
  <2> QED
    BY <1>6, <2>1, <2>2 DEF Remove
<1>7. CASE Peek(t)
  <2>0. call[t].pc = "peek"
    BY <1>7 DEF Peek, At
  <2>1. CASE Return(t, TRUE)
    BY <1>3, <2>0, <2>1
  <2>2. CASE Goto(t, "free") /\ UNCHANGED held
    <3> DEFINE c == [call[t] EXCEPT !.pc = "free", !.i = 0]
    <3>1. c \in Call /\ c.entry = call[t].entry /\ c.pc = "free" /\ call' = [call EXCEPT ![t] = c]
      BY <1>0, <2>2 DEF Call, Goto
    <3> HIDE DEF c
    <3> QED
      BY <1>4, <2>2, <3>1 DEF Ptr
  <2>3. CASE ~Last(t) /\ NextSlot(t, "remove") /\ UNCHANGED held
    <3> DEFINE c == [call[t] EXCEPT !.i = @ + 1, !.pc = "remove"]
    <3>0. call[t].i + 1 \in Slots
      BY <1>0, <2>3, LinuxShimAssumption DEF Call, Last, Slots
    <3>1. c \in Call /\ c.entry = call[t].entry /\ c.pc = "remove"
      BY <1>0, <3>0 DEF Call
    <3>2. call' = [call EXCEPT ![t] = c]
      BY <1>0, <2>3 DEF NextSlot
    <3> HIDE DEF c
    <3> QED
      BY <1>4, <2>0, <2>3, <3>1, <3>2 DEF Ptr
  <2> QED
    BY <1>7, <2>1, <2>2, <2>3 DEF Peek, NotFound
<1>8. CASE Enqueue(t)
  <2> DEFINE c == [call[t] EXCEPT !.pc = "insert", !.i = 0]
  <2>1. c \in Call /\ c.entry = call[t].entry /\ c.pc = "insert" /\ call' = [call EXCEPT ![t] = c]
    BY <1>0, <1>8 DEF Call, Goto, Enqueue
  <2>2. UNCHANGED held /\ call[t].pc = "enqueue"
    BY <1>8 DEF Enqueue, At
  <2> HIDE DEF c
  <2> QED
    BY <1>4, <2>1, <2>2 DEF Ptr
<1> QED
  BY <1>5, <1>6, <1>7, <1>8

LEMMA UseFree ==
  ASSUME UInv, SeparateAddresses, NEW t \in Threads, Release(t) \/ Free(t)
  PROVE  UseInv'
<1>0. /\ call \in [Threads -> Call] /\ call[t] \in Call /\ None \notin Addrs /\ 0 \in Slots
      /\ host \in [Addrs -> SUBSET Mapping] /\ cuda \in [Addrs -> {"none", "device", "managed"}]
      /\ held \subseteq Addrs /\ Sound(t) /\ WellFormed(call[t]) /\ KindInv
  BY LinuxShimAssumption DEF UInv, UseInv, IInv, TypeOK, CallInv, Slots, Addrs
<1>1. Ptr(t) # None /\ Ptr(t) \in Addrs
  BY <1>0 DEF WellFormed, Ptr, Call, Entry, Release, Free, At
<1>2. CASE Release(t)
  <2> DEFINE c == [call[t] EXCEPT !.pc = "free", !.i = 0]
  <2>1. c \in Call /\ c.entry = call[t].entry /\ c.pc = "free"
    BY <1>0 DEF Call
  <2>2. call' = [call EXCEPT ![t] = c] /\ call'[t] = c
    BY <1>0, <1>2 DEF Goto, Release
  <2> HIDE DEF c
  <2>3. UNCHANGED <<cuda, held>> /\ Busy(t, Ptr(t))
    BY <1>2 DEF Release, Busy, At
  <2>4. \A q \in Addrs \ {Ptr(t)} : host'[q] = host[q] /\ cuda'[q] = cuda[q]
    BY <1>0, <1>2, <2>3 DEF Release, UnregisterAndUnmap, Unmap
  <2>5. Sound(t)' /\ c.entry.ptr = Ptr(t)
    BY <1>0, <2>1, <2>2, <2>3 DEF Sound, Ptr
  <2> QED
    BY <1>1, <2>1, <2>2, <2>3, <2>4, <2>5, UseOwnStep
<1>3. CASE Free(t)
  <2>0. call[t].pc = "free" /\ UNCHANGED host
    BY <1>3 DEF Free, At
  <2>1. CASE cuda[Ptr(t)] # "none" /\ Return(t, TRUE) /\ UNCHANGED cuda
    <3>1. Ptr(t) \in CudaAddrs
      BY <1>0, <1>1, <2>1 DEF KindInv, Addrs
    <3>2. Backed(Ptr(t)) /\ Busy(t, Ptr(t))
      BY <2>1, <3>1 DEF Backed, Busy
    <3> QED
      BY <1>1, <2>0, <2>1, <3>2, UseReturn
  <2>2. CASE cuda' = [cuda EXCEPT ![Ptr(t)] = "none"] /\ Return(t, FALSE)
    <3>1. CASE Ptr(t) \in HostAddrs
      <4>1. UNCHANGED cuda
        BY <1>0, <1>1, <2>2, <3>1 DEF KindInv
      <4> QED
        BY <2>0, <2>2, <4>1, UseReturn
    <3>2. CASE Ptr(t) \in CudaAddrs
      <4>1. NoCall \in Call /\ NoCall.entry.ptr = None /\ NoCall.pc = "idle"
        BY <1>0 DEF NoCall, Empty, Call, Entry
      <4>2. call' = [call EXCEPT ![t] = NoCall] /\ call'[t] = NoCall /\ UNCHANGED held
        BY <1>0, <2>2 DEF Return
      <4>3. Sound(t)'
        BY <1>0, <4>1, <4>2 DEF Sound, Ptr, Addrs
      <4>4. \A q \in Addrs \ {Ptr(t)} : host'[q] = host[q] /\ cuda'[q] = cuda[q]
        BY <1>0, <2>0, <2>2
      <4>5. Busy(t, Ptr(t))
        BY <3>2 DEF Busy
      <4> QED
        BY <1>1, <4>1, <4>2, <4>3, <4>4, <4>5, UseOwnStep
    <3> QED
      BY <1>1, <3>1, <3>2 DEF Addrs
  <2> QED
    BY <1>3, <2>1, <2>2 DEF Free
<1> QED
  BY <1>2, <1>3

LEMMA NextUse ==
  ASSUME SeparateAddresses, UInv, [Next]_vars
  PROVE  UInv'
<1>1. IInv'
  BY NextInv DEF UInv
<1>2. CASE UNCHANGED <<table, host, cuda, held, call>>
  BY <1>1, <1>2 DEF UInv, KindInv, UseInv, Backed, Sound, Busy, Ptr
<1>3. ASSUME NEW t \in Threads, Override(t) PROVE UInv'
  <2>1. KindInv'
    BY <1>3, KindNext
  <2>2. UseInv'
    BY <1>3, UseApplication, UseOverflow, UseCuda, UseTable, UseFree DEF Override
  <2> QED
    BY <1>1, <2>1, <2>2 DEF UInv
<1>4. CASE FreeAsync
  <2>1. PICK p \in held : /\ cuda[p] # "none" /\ cuda' = [cuda EXCEPT ![p] = "none"]
                          /\ held' = held \ {p} /\ UNCHANGED <<table, host, call>>
    BY <1>4 DEF FreeAsync
  <2>2. /\ p \in CudaAddrs /\ cuda \in [Addrs -> {"none", "device", "managed"}] /\ held \subseteq Addrs
        /\ \A u \in Threads : ~Busy(u, p) /\ Ptr(u) # p
    BY <2>1 DEF UInv, UseInv, IInv, TypeOK, KindInv, Busy, Addrs
  <2>3. \A q \in Addrs : cuda'[q] = IF q = p THEN "none" ELSE cuda[q]
    BY <2>1, <2>2
  <2>4. KindInv'
    BY <2>1, <2>2, <2>3 DEF UInv, KindInv, Addrs
  <2>5. \A u \in Threads : Sound(u)'
    BY <2>1, <2>2, <2>3 DEF UInv, UseInv, Sound, Ptr, Addrs
  <2>6. \A q \in held' : Backed(q)'
    BY <2>1, <2>2, <2>3 DEF UInv, UseInv, Backed
  <2>7. UseInv'
    BY <2>1, <2>5, <2>6 DEF UInv, UseInv, Busy, Ptr
  <2> QED
    BY <1>1, <2>4, <2>7 DEF UInv
<1> QED
  BY <1>2, <1>3, <1>4 DEF Next, Dequeue, AdviseMapping, vars

(* Memory the application holds is never given back under it, neither by    *)
(* another thread's free nor by a failed allocation, as long as mmap and    *)
(* CUDA do not return the same address: the second free of a mapping's      *)
(* address finds nothing of CUDA's there                                    *)
(* (greenboost_cuda_shim.c:584, 593, 604, 681-691).                         *)
THEOREM HeldMemoryKept ==
  ASSUME SeparateAddresses
  PROVE  Spec => []HeldMemoryStays
<1>1. UInv /\ [Next]_vars => UInv'
  BY NextUse
<1>2. UInv => HeldMemoryStays
  BY DEF UInv, UseInv, HeldMemoryStays, Backed
<1> QED
  BY <1>1, <1>2, InitUse, PTL DEF Spec
=============================================================================
