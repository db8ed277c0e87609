--------------------------- MODULE ShimTableProofs ---------------------------
(***************************************************************************)
(* For any number of threads and pointers, any table size, any hash and    *)
(* any threshold: the table is the atomic map of PtrMap, up to and across  *)
(* every compaction that meets no probe under way and breaks no chain.     *)
(***************************************************************************)
EXTENDS ShimTable, FiniteSetTheorems, TLAPS

(* What ht_reclaim_tombstones says of itself (lines 341-366): no other      *)
(* operation is in progress, the tombstones are gone, every entry is in one *)
(* slot and its probes reach it.  The code does not see to it: a probe may  *)
(* be between two slots, and the loop of 367 breaks a chain that wraps.     *)
CompactsWell ==
  \A t \in Threads : Reclaim(t) =>
    /\ \A u \in Threads : ~Begun(u)
    /\ table' \in [Slots -> Keys \cup {Empty}]
    /\ Tracked' = Tracked /\ NoDuplicates' /\ EntriesReachable'

(* A call and its key; two calls never have one key. *)
CallInv ==
  \A t \in Threads :
    /\ call[t].pc = "idle" => call[t] = NoCall
    /\ call[t].pc # "idle" => call[t].key \in Keys /\ call[t].op # "none"
    /\ call[t].pc = "probe" => call[t].res = "none"
    /\ call[t].pc = "done" => call[t].res # "none"
    /\ call[t].pc \in {"check", "reclaim"} => call[t].op = "remove" /\ call[t].res = "yes"
    /\ \A u \in Threads \ {t} : call[t].key # Empty => call[u].key # call[t].key

(* The slots an insertion has passed are not empty, and its pointer is new. *)
InsertInv ==
  \A t \in Threads : Probing(t, "insert") =>
    /\ call[t].key \notin Tracked
    /\ \A j \in 0 .. call[t].i - 1 : table[Probe(call[t].key, j)] # Empty

(* The slots a removal has passed do not hold its pointer. *)
RemoveInv ==
  \A t \in Threads : Probing(t, "remove") =>
    \A j \in 0 .. call[t].i - 1 : table[Probe(call[t].key, j)] # call[t].key

IInv ==
  /\ TypeOK /\ TombstonesCounted
  /\ CallInv /\ InsertInv /\ RemoveInv
  /\ EntriesReachable /\ NoDuplicates /\ NoMiss

-----------------------------------------------------------------------------
LEMMA ProbeSlot ==
  ASSUME NEW k \in Keys, NEW i \in Nat
  PROVE  Probe(k, i) \in Slots
<1>1. Hash[k] \in Nat /\ Size \in Nat \ {0}
  BY ShimTableAssumption
<1>2. \A n \in Nat : n % Size \in 0 .. Size - 1
  BY <1>1
<1>3. QED
  BY SMTT(60), <1>1, <1>2 DEF Probe, Slots

LEMMA TombsFinite ==
  ASSUME TypeOK
  PROVE  IsFiniteSet(Tombs) /\ Cardinality(Tombs) \in Nat /\ Cardinality(Tombs) <= Size
<1>1. IsFiniteSet(Slots) /\ Cardinality(Slots) = Size
  BY ShimTableAssumption, FS_Interval DEF Slots
<1>2. Tombs \subseteq Slots
  BY DEF Tombs
<1>3. QED
  BY <1>1, <1>2, FS_Subset, FS_CardinalityType

(* A slot that turns into a tombstone, or stops being one, counts for one.  *)
LEMMA CountUp ==
  ASSUME TypeOK, TombstonesCounted, NEW s \in Slots, table[s] # Tombstone,
         table' = [table EXCEPT ![s] = Tombstone], tombstones' = tombstones + 1
  PROVE  TombstonesCounted'
<1>1. Tombs' = Tombs \cup {s} /\ s \notin Tombs
  BY DEF Tombs, TypeOK
<1>2. QED
  BY <1>1, TombsFinite, FS_AddElement DEF TombstonesCounted

LEMMA CountDown ==
  ASSUME TypeOK, TombstonesCounted, NEW s \in Slots, NEW k \in Keys,
         table[s] \in {Empty, Tombstone}, table' = [table EXCEPT ![s] = k],
         tombstones' = IF table[s] = Tombstone THEN tombstones - 1 ELSE tombstones
  PROVE  TombstonesCounted' /\ tombstones' \in Nat
<1>1. Tombs' = Tombs \ {s}
  BY ShimTableAssumption DEF Tombs, TypeOK
<1>2. IsFiniteSet(Tombs) /\ Cardinality(Tombs) \in Nat
  BY TombsFinite
<1>3. Cardinality(Tombs') = IF s \in Tombs THEN Cardinality(Tombs) - 1 ELSE Cardinality(Tombs)
  BY <1>1, <1>2, FS_RemoveElement
<1>4. s \in Tombs <=> table[s] = Tombstone
  BY DEF Tombs
<1>5. IsFiniteSet(Tombs') /\ Cardinality(Tombs') \in Nat
  BY <1>1, <1>2, FS_RemoveElement, FS_CardinalityType
<1>6. QED
  BY <1>3, <1>4, <1>5 DEF TombstonesCounted

LEMMA InitInv ==
  Init => IInv
<1> SUFFICES ASSUME Init PROVE IInv
  OBVIOUS
<1>1. Tracked = {} /\ Tombs = {}
  BY ShimTableAssumption DEF Init, Tracked, Tombs
<1>2. TypeOK
  BY ShimTableAssumption DEF Init, TypeOK, Calls, NoCall, Slots
<1>3. TombstonesCounted
  BY <1>1, FS_EmptySet DEF Init, TombstonesCounted
<1>4. CallInv /\ InsertInv /\ RemoveInv /\ NoMiss
  BY ShimTableAssumption DEF Init, CallInv, InsertInv, RemoveInv, NoMiss, NoCall, Probing
<1>5. EntriesReachable /\ NoDuplicates
  BY <1>1, ShimTableAssumption DEF Init, EntriesReachable, NoDuplicates
<1>6. QED
  BY <1>2, <1>3, <1>4, <1>5 DEF IInv

(* The record of a call that starts. *)
LEMMA NewCall ==
  ASSUME NEW k \in Keys, NEW op \in {"insert", "remove"}
  PROVE  [NoCall EXCEPT !.op = op, !.key = k, !.pc = "probe"] \in Calls
<1>1. 0 \in Slots
  BY ShimTableAssumption DEF Slots
<1>2. QED
  BY <1>1 DEF NoCall, Calls

(* A hook calls the table (lines 533, 557, 632).                            *)
LEMMA CallStep ==
  ASSUME IInv, NEW t \in Threads, NEW k \in Keys, Call(t, k)
  PROVE  IInv'
<1> USE ShimTableAssumption DEF IInv, Call
<1>1. TypeOK'
  <2>1. PICK op \in {"insert", "remove"} :
          call' = [call EXCEPT ![t] = [NoCall EXCEPT !.op = op, !.key = k, !.pc = "probe"]]
    OBVIOUS
  <2>2. [NoCall EXCEPT !.op = op, !.key = k, !.pc = "probe"] \in Calls
    BY ZenonT(60), NewCall
  <2>3. QED
    BY <2>1, <2>2 DEF TypeOK
<1>2. TombstonesCounted' /\ EntriesReachable' /\ NoDuplicates' /\ Tracked' = Tracked
  BY DEF TombstonesCounted, Tombs, EntriesReachable, NoDuplicates, Tracked
<1>3. CallInv'
  BY DEF CallInv, TypeOK, NoCall
<1>4. InsertInv' /\ RemoveInv'
  BY <1>2 DEF InsertInv, RemoveInv, Probing, TypeOK, NoCall
<1>5. NoMiss'
  BY <1>2 DEF NoMiss, TypeOK, NoCall
<1>6. QED
  BY <1>1, <1>2, <1>3, <1>4, <1>5

(* A probe finds a slot it cannot use and goes on, or the loop ends.        *)
LEMMA ProbeStep ==
  ASSUME IInv, NEW t \in Threads, ProbeOn(t),
         \/ Probing(t, "insert") /\ table[At(t)] \in Keys
         \/ Probing(t, "remove") /\ table[At(t)] \notin {Empty, call[t].key}
  PROVE  IInv'
<1> USE ShimTableAssumption DEF IInv, ProbeOn, Finish, Probing
<1>c. call[t] \in Calls /\ call[t].i \in Nat /\ call[t].key \in Keys
  BY DEF TypeOK, Calls, CallInv, Slots
<1>1. TypeOK'
  <2>1. call[t].i + 1 < Size => [call[t] EXCEPT !.i = @ + 1] \in Calls
    BY <1>c DEF Calls, Slots
  <2>2. [[call[t] EXCEPT !.res = "no"] EXCEPT !.pc = "done"] \in Calls
    BY <1>c DEF Calls
  <2>3. QED
    BY <2>1, <2>2 DEF TypeOK
<1>2. TombstonesCounted' /\ EntriesReachable' /\ NoDuplicates' /\ Tracked' = Tracked
  BY DEF TombstonesCounted, Tombs, EntriesReachable, NoDuplicates, Tracked
<1>d. \A u \in Threads \ {t} : call'[u] = call[u]
  BY DEF TypeOK
<1>e. \/ call[t].i + 1 < Size /\ call'[t] = [call[t] EXCEPT !.i = @ + 1]
      \/ call[t].i + 1 >= Size /\ call'[t].res = "no" /\ call'[t].pc = "done"
         /\ call'[t].key = call[t].key /\ call'[t].op = call[t].op
  BY <1>c DEF TypeOK, Calls
<1>f. \A j \in 0 .. call[t].i : j \in 0 .. call[t].i - 1 \/ j = call[t].i
  BY <1>c
<1>3. CallInv'
  <2>1. call'[t].key = call[t].key /\ call'[t].op = call[t].op
        /\ \/ call'[t].pc = "probe" /\ call'[t].res = "none"
           \/ call'[t].pc = "done" /\ call'[t].res = "no"
    <3>1. call[t].res = "none"
      BY DEF CallInv
    <3>2. QED
      BY <1>c, <1>e, <3>1 DEF Calls
  <2>2. QED
    BY <1>c, <1>d, <2>1 DEF CallInv
<1>4. InsertInv'
  <2>1. ASSUME NEW u \in Threads, Probing(u, "insert")', u # t
        PROVE  /\ call'[u].key \notin Tracked'
               /\ \A j \in 0 .. call'[u].i - 1 : table'[Probe(call'[u].key, j)] # Empty
    BY <2>1, <1>2, <1>d DEF InsertInv
  <2>2. ASSUME Probing(t, "insert")'
        PROVE  /\ call'[t].key \notin Tracked'
               /\ \A j \in 0 .. call'[t].i - 1 : table'[Probe(call'[t].key, j)] # Empty
    <3>1. call'[t].key = call[t].key /\ call'[t].i - 1 = call[t].i /\ Probing(t, "insert")
      BY <2>2, <1>c, <1>e DEF Calls
    <3>2. QED
      BY <3>1, <1>2, <1>f DEF InsertInv, At
  <2>3. QED
    BY <2>1, <2>2 DEF InsertInv
<1>5. RemoveInv'
  <2>1. ASSUME NEW u \in Threads, Probing(u, "remove")', u # t
        PROVE  \A j \in 0 .. call'[u].i - 1 : table'[Probe(call'[u].key, j)] # call'[u].key
    BY <2>1, <1>d DEF RemoveInv
  <2>2. ASSUME Probing(t, "remove")'
        PROVE  \A j \in 0 .. call'[t].i - 1 : table'[Probe(call'[t].key, j)] # call'[t].key
    <3>1. call'[t].key = call[t].key /\ call'[t].i - 1 = call[t].i /\ Probing(t, "remove")
      BY <2>2, <1>c, <1>e DEF Calls
    <3>2. QED
      BY <3>1, <1>f DEF RemoveInv, At
  <2>3. QED
    BY <2>1, <2>2 DEF RemoveInv
<1>6. NoMiss'
  <2>1. ASSUME Probing(t, "remove"), call[t].i + 1 >= Size
        PROVE  call[t].key \notin Tracked
    <3>1. \A j \in Slots : table[Probe(call[t].key, j)] # call[t].key
      BY <2>1, <1>c, <1>f DEF RemoveInv, At, Slots, Calls
    <3>2. QED
      BY <3>1 DEF EntriesReachable
  <2>2. QED
    BY <1>2, <1>c, <1>d, <1>e, <2>1 DEF NoMiss, Calls
<1>7. QED
  BY <1>1, <1>2, <1>3, <1>4, <1>5, <1>6

(* What Finish leaves of the calls. *)
LEMMA FinishCall ==
  ASSUME TypeOK, NEW t \in Threads, NEW res \in {"yes", "no"},
         NEW pc \in {"check", "reclaim", "done"}, Finish(t, res, pc)
  PROVE  /\ call' \in [Threads -> Calls]
         /\ \A u \in Threads \ {t} : call'[u] = call[u]
         /\ call'[t].key = call[t].key /\ call'[t].op = call[t].op
         /\ call'[t].res = res /\ call'[t].pc = pc
<1>1. call[t] \in Calls
  BY DEF TypeOK
<1>2. [[call[t] EXCEPT !.res = res] EXCEPT !.pc = pc] \in Calls
  BY <1>1 DEF Calls
<1>3. QED
  BY <1>1, <1>2 DEF Finish, TypeOK, Calls

(* The slots a call has passed are slots. *)
LEMMA PassedSlots ==
  ASSUME TypeOK, CallInv, NEW t \in Threads, call[t].pc = "probe"
  PROVE  /\ call[t].key \in Keys /\ call[t].i \in Slots
         /\ \A j \in 0 .. call[t].i - 1 : Probe(call[t].key, j) \in Slots
<1>1. call[t].key \in Keys /\ call[t].i \in Slots
  BY DEF CallInv, TypeOK, Calls
<1>2. \A j \in 0 .. call[t].i - 1 : j \in Nat
  BY <1>1, ShimTableAssumption DEF Slots
<1>3. QED
  BY <1>1, <1>2, ProbeSlot

(* ht_insert takes a slot (lines 241-250).                                  *)
LEMMA InsertStep ==
  ASSUME IInv, NEW t \in Threads, Probing(t, "insert"),
         table[At(t)] \in {Empty, Tombstone},
         tombstones' = IF table[At(t)] = Tombstone THEN tombstones - 1 ELSE tombstones,
         table' = [table EXCEPT ![At(t)] = call[t].key],
         Finish(t, "yes", "done")
  PROVE  IInv'
<1> DEFINE k == call[t].key
           s == At(t)
<1> USE ShimTableAssumption DEF IInv
<1>1. k \in Keys /\ call[t].i \in Slots /\ call[t].i \in Nat
  BY DEF CallInv, TypeOK, Calls, Slots, Probing
<1>2. s \in Slots
  BY <1>1, ProbeSlot DEF At
<1>3. k \notin Tracked /\ \A j \in 0 .. call[t].i - 1 : table[Probe(k, j)] # Empty
  BY DEF InsertInv
<1>4. TombstonesCounted' /\ tombstones' \in Nat
  BY <1>1, <1>2, CountDown
<1>5. /\ call' \in [Threads -> Calls]
      /\ \A u \in Threads \ {t} : call'[u] = call[u] /\ call[u].key # k
      /\ call'[t].key = k /\ call'[t].op = "insert"
      /\ call'[t].res = "yes" /\ call'[t].pc = "done"
  BY <1>1, FinishCall DEF CallInv, Probing
<1>6. TypeOK'
  BY <1>1, <1>4, <1>5 DEF TypeOK
<1>7. /\ table'[s] = k
      /\ \A r \in Slots \ {s} : table'[r] = table[r]
  BY <1>2 DEF TypeOK
<1>8. Tracked' = Tracked \cup {k}
  BY <1>1, <1>2, <1>7 DEF Tracked
<1>9. CallInv'
  BY <1>1, <1>5 DEF CallInv
<1>10. InsertInv'
  <2>1. ASSUME NEW u \in Threads, Probing(u, "insert")'
        PROVE  /\ call'[u].key \notin Tracked'
               /\ \A j \in 0 .. call'[u].i - 1 : table'[Probe(call'[u].key, j)] # Empty
    <3>1. u # t /\ call'[u] = call[u] /\ Probing(u, "insert")
      BY <2>1, <1>5 DEF Probing
    <3>2. call[u].key \notin Tracked \cup {k}
      BY <3>1, <1>5 DEF InsertInv
    <3>3. ASSUME NEW j \in 0 .. call[u].i - 1
          PROVE  table'[Probe(call[u].key, j)] # Empty
      <4>1. Probe(call[u].key, j) \in Slots
        BY <3>1, <3>3, PassedSlots DEF Probing
      <4>2. table[Probe(call[u].key, j)] # Empty
        BY <3>1, <3>3 DEF InsertInv
      <4>3. QED
        BY <4>1, <4>2, <1>1, <1>7
    <3>4. QED
      BY <3>1, <3>2, <3>3, <1>8
  <2>2. QED
    BY <2>1 DEF InsertInv
<1>11. RemoveInv'
  <2>1. ASSUME NEW u \in Threads, Probing(u, "remove")', NEW j \in 0 .. call'[u].i - 1
        PROVE  table'[Probe(call'[u].key, j)] # call'[u].key
    <3>1. u # t /\ call'[u] = call[u] /\ Probing(u, "remove") /\ call[u].key # k
      BY <2>1, <1>5 DEF Probing
    <3>2. Probe(call[u].key, j) \in Slots
      BY <3>1, <2>1, PassedSlots DEF Probing
    <3>3. table[Probe(call[u].key, j)] # call[u].key
      BY <3>1, <2>1 DEF RemoveInv
    <3>4. QED
      BY <3>1, <3>2, <3>3, <1>7
  <2>2. QED
    BY <2>1 DEF RemoveInv
<1>12. EntriesReachable'
  <2>1. ASSUME NEW q \in Tracked'
        PROVE  \E i \in Slots : /\ table'[Probe(q, i)] = q
                                /\ \A j \in 0 .. i - 1 : table'[Probe(q, j)] # Empty
    <3>1. \A i \in Slots : Probe(q, i) \in Slots /\ \A j \in 0 .. i - 1 : Probe(q, j) \in Slots
      BY ProbeSlot DEF Tracked, Slots
    <3>2. CASE q = k
      BY <3>1, <3>2, <1>1, <1>3, <1>7 DEF At
    <3>3. CASE q # k
      <4>1. q \in Tracked /\ q \in Keys
        BY <3>3, <1>8 DEF Tracked
      <4>2. PICK i \in Slots : /\ table[Probe(q, i)] = q
                               /\ \A j \in 0 .. i - 1 : table[Probe(q, j)] # Empty
        BY <4>1 DEF EntriesReachable
      <4>3. Probe(q, i) # s
        BY <4>1, <4>2
      <4>4. QED
        BY <4>2, <4>3, <3>1, <1>1, <1>7
    <3>4. QED
      BY <3>2, <3>3
  <2>2. QED
    BY <2>1 DEF EntriesReachable
<1>13. NoDuplicates'
  BY <1>1, <1>2, <1>3, <1>7 DEF NoDuplicates, Tracked
<1>14. NoMiss'
  <2>1. ASSUME NEW u \in Threads, call'[u].op = "remove", call'[u].res = "no"
        PROVE  call'[u].key \notin Tracked'
    BY <2>1, <1>5, <1>8 DEF NoMiss
  <2>2. QED
    BY <2>1 DEF NoMiss
<1>15. QED
  BY <1>4, <1>6, <1>9, <1>10, <1>11, <1>12, <1>13, <1>14

(* ht_remove finds its pointer (lines 283-297).                             *)
LEMMA RemoveStep ==
  ASSUME IInv, NEW t \in Threads, Probing(t, "remove"),
         table[At(t)] = call[t].key,
         table' = [table EXCEPT ![At(t)] = Tombstone],
         tombstones' = tombstones + 1,
         Finish(t, "yes", "check")
  PROVE  IInv'
<1> DEFINE k == call[t].key
           s == At(t)
<1> USE ShimTableAssumption DEF IInv
<1>1. k \in Keys /\ call[t].i \in Nat
  BY PassedSlots DEF Probing, Slots
<1>2. s \in Slots
  BY <1>1, ProbeSlot DEF At
<1>3. TombstonesCounted'
  BY <1>1, <1>2, CountUp
<1>4. /\ call' \in [Threads -> Calls]
      /\ \A u \in Threads \ {t} : call'[u] = call[u] /\ call[u].key # k
      /\ call'[t].key = k /\ call'[t].op = "remove"
      /\ call'[t].res = "yes" /\ call'[t].pc = "check"
  BY <1>1, FinishCall DEF CallInv, Probing
<1>5. TypeOK'
  <2>1. table' \in [Slots -> Keys \cup {Empty, Tombstone}]
    BY DEF TypeOK
  <2>2. tombstones' \in Nat
    BY DEF TypeOK
  <2>3. QED
    BY <1>4, <2>1, <2>2 DEF TypeOK
<1>6. /\ table'[s] = Tombstone
      /\ \A r \in Slots \ {s} : table'[r] = table[r]
  BY <1>2 DEF TypeOK
<1>7. Tracked' \subseteq Tracked /\ k \notin Tracked'
  BY <1>1, <1>2, <1>6 DEF Tracked, NoDuplicates
<1>8. CallInv'
  BY <1>1, <1>4 DEF CallInv
<1>9. InsertInv'
  <2>1. ASSUME NEW u \in Threads, Probing(u, "insert")'
        PROVE  /\ call'[u].key \notin Tracked'
               /\ \A j \in 0 .. call'[u].i - 1 : table'[Probe(call'[u].key, j)] # Empty
    <3>1. u # t /\ call'[u] = call[u] /\ Probing(u, "insert")
      BY <2>1, <1>4 DEF Probing
    <3>2. QED
      BY <3>1, <1>6, <1>7, PassedSlots DEF InsertInv, Probing
  <2>2. QED
    BY <2>1 DEF InsertInv
<1>10. RemoveInv'
  <2>1. ASSUME NEW u \in Threads, Probing(u, "remove")', NEW j \in 0 .. call'[u].i - 1
        PROVE  table'[Probe(call'[u].key, j)] # call'[u].key
    <3>1. u # t /\ call'[u] = call[u] /\ Probing(u, "remove")
      BY <2>1, <1>4 DEF Probing
    <3>2. call[u].key \in Keys /\ Probe(call[u].key, j) \in Slots
      BY <3>1, <2>1, PassedSlots DEF Probing
    <3>3. table[Probe(call[u].key, j)] # call[u].key
      BY <3>1, <2>1 DEF RemoveInv
    <3>4. QED
      BY <3>1, <3>2, <3>3, <1>6
  <2>2. QED
    BY <2>1 DEF RemoveInv
<1>11. EntriesReachable'
  <2>1. ASSUME NEW q \in Tracked'
        PROVE  \E i \in Slots : /\ table'[Probe(q, i)] = q
                                /\ \A j \in 0 .. i - 1 : table'[Probe(q, j)] # Empty
    <3>1. \A i \in Slots : Probe(q, i) \in Slots /\ \A j \in 0 .. i - 1 : Probe(q, j) \in Slots
      BY ProbeSlot DEF Tracked, Slots
    <3>2. PICK i \in Slots : /\ table[Probe(q, i)] = q
                             /\ \A j \in 0 .. i - 1 : table[Probe(q, j)] # Empty
      BY <1>7 DEF EntriesReachable
    <3>3. Probe(q, i) # s
      BY <3>2, <1>7
    <3>4. QED
      BY <3>1, <3>2, <3>3, <1>6
  <2>2. QED
    BY <2>1 DEF EntriesReachable
<1>12. NoDuplicates'
  BY <1>2, <1>6 DEF NoDuplicates
<1>13. NoMiss'
  <2>1. ASSUME NEW u \in Threads, call'[u].op = "remove", call'[u].res = "no"
        PROVE  call'[u].key \notin Tracked'
    BY <2>1, <1>4, <1>7 DEF NoMiss
  <2>2. QED
    BY <2>1 DEF NoMiss
<1>14. QED
  BY <1>3, <1>5, <1>8, <1>9, <1>10, <1>11, <1>12, <1>13

(* A step that leaves the table alone and moves no probe keeps what is said *)
(* of the table.                                                            *)
LEMMA SameTable ==
  ASSUME IInv, NEW t \in Threads, UNCHANGED <<table, tombstones>>,
         call' \in [Threads -> Calls], \A u \in Threads \ {t} : call'[u] = call[u],
         call'[t].pc # "probe",
         (call'[t].op = "remove" /\ call'[t].res = "no") => call'[t].key \notin Tracked
  PROVE  /\ TypeOK' /\ TombstonesCounted' /\ EntriesReachable' /\ NoDuplicates'
         /\ InsertInv' /\ RemoveInv' /\ NoMiss'
<1> USE DEF IInv
<1>1. TypeOK' /\ TombstonesCounted' /\ EntriesReachable' /\ NoDuplicates' /\ Tracked' = Tracked
  BY DEF TypeOK, TombstonesCounted, Tombs, EntriesReachable, NoDuplicates, Tracked
<1>2. \A u \in Threads : call'[u].pc = "probe" => u # t /\ call'[u] = call[u]
  OBVIOUS
<1>3. InsertInv' /\ RemoveInv'
  BY <1>1, <1>2 DEF InsertInv, RemoveInv, Probing
<1>4. NoMiss'
  BY <1>1 DEF NoMiss
<1>5. QED
  BY <1>1, <1>3, <1>4

(* ht_remove comes to an empty slot (lines 277-281): its pointer is not in  *)
(* the table, or its probes would have passed it or not end here.           *)
LEMMA MissStep ==
  ASSUME IInv, NEW t \in Threads, Probing(t, "remove"), table[At(t)] = Empty,
         UNCHANGED <<table, tombstones>>, Finish(t, "no", "done")
  PROVE  IInv'
<1> DEFINE k == call[t].key
<1> USE DEF IInv
<1>1. k \in Keys /\ call[t].i \in Slots
  BY PassedSlots DEF Probing
<1>2. k \notin Tracked
  <2>1. SUFFICES ASSUME k \in Tracked PROVE FALSE
    OBVIOUS
  <2>2. PICK i \in Slots : /\ table[Probe(k, i)] = k
                           /\ \A j \in 0 .. i - 1 : table[Probe(k, j)] # Empty
    BY <2>1 DEF EntriesReachable
  <2>3. i \notin 0 .. call[t].i - 1
    BY <2>2 DEF RemoveInv
  <2>4. i # call[t].i
    BY <2>2, <1>1, ShimTableAssumption DEF At
  <2>5. call[t].i \in 0 .. i - 1
    BY <1>1, <2>3, <2>4, ShimTableAssumption DEF Slots
  <2>6. QED
    BY <2>2, <2>5 DEF At
<1>3. /\ call' \in [Threads -> Calls]
      /\ \A u \in Threads \ {t} : call'[u] = call[u]
      /\ call'[t].key = k /\ call'[t].op = "remove"
      /\ call'[t].res = "no" /\ call'[t].pc = "done"
  BY FinishCall DEF Probing
<1>4. CallInv'
  BY <1>1, <1>3 DEF CallInv
<1>5. QED
  BY <1>2, <1>3, <1>4, SameTable

(* The count is compared with the threshold (lines 300-301).                *)
LEMMA CheckStep ==
  ASSUME IInv, NEW t \in Threads, Check(t)
  PROVE  /\ IInv' /\ call[t].res = "yes"
         /\ Finish(t, "yes", "done") \/ Finish(t, "yes", "reclaim")
<1> USE DEF IInv
<1>1. PICK pc \in {"reclaim", "done"} : Finish(t, "yes", pc)
  BY DEF Check
<1>2. call[t].pc = "check" /\ UNCHANGED <<table, tombstones>>
  BY DEF Check
<1>3. /\ call' \in [Threads -> Calls]
      /\ \A u \in Threads \ {t} : call'[u] = call[u]
      /\ call'[t].key = call[t].key /\ call'[t].op = call[t].op
      /\ call'[t].res = "yes" /\ call'[t].pc = pc
  BY <1>1, FinishCall
<1>4. call[t].op = "remove" /\ call[t].res = "yes" /\ call[t].key \in Keys
  BY <1>2 DEF CallInv
<1>5. CallInv'
  BY <1>3, <1>4 DEF CallInv
<1>6. QED
  BY <1>1, <1>2, <1>3, <1>4, <1>5, SameTable

(* ht_reclaim_tombstones, as it says of itself: a probe that has not begun  *)
(* has passed no slot.                                                      *)
LEMMA ReclaimStep ==
  ASSUME CompactsWell, IInv, NEW t \in Threads, Reclaim(t)
  PROVE  IInv' /\ Tracked' = Tracked /\ Finish(t, "yes", "done") /\ call[t].res = "yes"
<1> USE ShimTableAssumption DEF IInv
<1>1. /\ \A u \in Threads : ~Begun(u)
      /\ table' \in [Slots -> Keys \cup {Empty}]
      /\ Tracked' = Tracked /\ NoDuplicates' /\ EntriesReachable'
  BY DEF CompactsWell
<1>2. call[t].pc = "reclaim" /\ tombstones' = 0 /\ Finish(t, "yes", "done")
  BY DEF Reclaim
<1>3. call[t].op = "remove" /\ call[t].res = "yes" /\ call[t].key \in Keys
  BY <1>2 DEF CallInv
<1>4. /\ call' \in [Threads -> Calls]
      /\ \A u \in Threads \ {t} : call'[u] = call[u]
      /\ call'[t].key = call[t].key /\ call'[t].op = call[t].op
      /\ call'[t].res = "yes" /\ call'[t].pc = "done"
  BY <1>2, FinishCall
<1>5. TypeOK'
  BY <1>1, <1>2, <1>4 DEF TypeOK
<1>6. TombstonesCounted'
  <2>1. Tombs' = {}
    BY <1>1 DEF Tombs
  <2>2. QED
    BY <1>2, <2>1, FS_EmptySet DEF TombstonesCounted
<1>7. CallInv'
  BY <1>3, <1>4 DEF CallInv
<1>8. \A u \in Threads : call'[u].pc = "probe" => /\ u # t /\ call'[u] = call[u]
                                                /\ 0 .. call'[u].i - 1 = {}
  <2>1. ASSUME NEW u \in Threads, call'[u].pc = "probe"
        PROVE  u # t /\ call'[u] = call[u] /\ 0 .. call'[u].i - 1 = {}
    <3>1. u # t /\ call'[u] = call[u]
      BY <2>1, <1>4
    <3>2. call[u].i \in Nat /\ ~(call[u].i > 0)
      BY <2>1, <3>1, <1>1 DEF Begun, TypeOK, Calls, Slots
    <3>3. QED
      BY <3>1, <3>2
  <2>2. QED
    BY <2>1
<1>9. InsertInv'
  BY <1>1, <1>8 DEF InsertInv, Probing
<1>10. RemoveInv'
  BY <1>8 DEF RemoveInv, Probing
<1>11. NoMiss'
  BY <1>1, <1>4 DEF NoMiss
<1>12. QED
  BY <1>1, <1>2, <1>3, <1>5, <1>6, <1>7, <1>9, <1>10, <1>11

(* The call returns to its hook.                                            *)
LEMMA ReturnStep ==
  ASSUME IInv, NEW t \in Threads, Return(t)
  PROVE  IInv'
<1> USE DEF IInv
<1>1. NoCall \in Calls
  <2>1. 0 \in Slots
    BY ShimTableAssumption DEF Slots
  <2>2. QED
    BY <2>1 DEF NoCall, Calls
<1>2. /\ call' \in [Threads -> Calls] /\ call'[t] = NoCall
      /\ \A u \in Threads \ {t} : call'[u] = call[u]
      /\ UNCHANGED <<table, tombstones>>
  BY <1>1 DEF Return, TypeOK
<1>3. CallInv'
  BY <1>2 DEF CallInv, NoCall
<1>4. call'[t].pc # "probe" /\ call'[t].op # "remove"
  BY <1>2 DEF NoCall
<1>5. QED
  BY <1>2, <1>3, <1>4, SameTable

LEMMA NextInv ==
  ASSUME [CompactsWell]_vars, IInv, [Next]_vars
  PROVE  IInv'
<1>1. CASE UNCHANGED vars
  BY <1>1 DEF vars, IInv, TypeOK, TombstonesCounted, Tombs, CallInv, InsertInv, RemoveInv,
     EntriesReachable, NoDuplicates, NoMiss, Tracked, Probing
<1>2. ASSUME NEW t \in Threads, NEW k \in Keys, Call(t, k)
      PROVE  IInv'
  BY <1>2, CallStep
<1>3. ASSUME NEW t \in Threads, Insert(t)
      PROVE  IInv'
  BY <1>3, InsertStep, ProbeStep DEF Insert
<1>4. ASSUME NEW t \in Threads, Remove(t)
      PROVE  IInv'
  BY <1>4, RemoveStep, MissStep, ProbeStep DEF Remove
<1>5. ASSUME NEW t \in Threads, Check(t)
      PROVE  IInv'
  BY <1>5, CheckStep
<1>6. ASSUME NEW t \in Threads, Reclaim(t), ~UNCHANGED vars
      PROVE  IInv'
  BY <1>6, ReclaimStep
<1>7. ASSUME NEW t \in Threads, Return(t)
      PROVE  IInv'
  BY <1>7, ReturnStep
<1>8. QED
  BY <1>1, <1>2, <1>3, <1>4, <1>5, <1>6, <1>7 DEF Next

(* As long as compactions do what they say, every entry stays where its     *)
(* probes find it, in one slot, and no removal misses it (lines 230-310).   *)
THEOREM TableCorrect ==
  Spec /\ [][CompactsWell]_vars => [](EntriesReachable /\ NoDuplicates /\ NoMiss)
<1>1. IInv /\ [CompactsWell]_vars /\ [Next]_vars => IInv'
  BY NextInv
<1>2. IInv => EntriesReachable /\ NoDuplicates /\ NoMiss
  BY DEF IInv
<1>3. QED
  BY InitInv, <1>1, <1>2, PTL DEF Spec

-----------------------------------------------------------------------------
(* The calls as PtrMap sees them *)
Seen(c) == [op |-> c.op, key |-> c.key, res |-> c.res]
SeenCalls == [t \in Threads |-> Seen(call[t])]

LEMMA SeenFinish ==
  ASSUME TypeOK, NEW t \in Threads, NEW res \in {"yes", "no"},
         NEW pc \in {"check", "reclaim", "done"}, Finish(t, res, pc)
  PROVE  SeenCalls' = [SeenCalls EXCEPT ![t].res = res]
<1>1. /\ call' \in [Threads -> Calls]
      /\ \A u \in Threads \ {t} : call'[u] = call[u]
      /\ call'[t].key = call[t].key /\ call'[t].op = call[t].op /\ call'[t].res = res
  BY FinishCall
<1>2. [Seen(call[t]) EXCEPT !.res = res] = Seen(call'[t])
  BY <1>1 DEF Seen
<1>3. QED
  BY <1>1, <1>2 DEF SeenCalls

LEMMA MapInit ==
  Init => Map!MInit
<1> SUFFICES ASSUME Init PROVE Map!MInit
  OBVIOUS
<1>1. Tracked = {}
  BY ShimTableAssumption DEF Init, Tracked
<1>2. SeenCalls = [t \in Threads |-> Map!NoCall]
  BY DEF Init, SeenCalls, Seen, NoCall, Map!NoCall
<1>3. QED
  BY <1>1, <1>2 DEF Map!MInit, SeenCalls, Seen

LEMMA MapCall ==
  ASSUME IInv, NEW t \in Threads, NEW k \in Keys, Call(t, k)
  PROVE  Map!MCall(t, k)
<1> USE DEF IInv
<1>1. PICK op \in {"insert", "remove"} :
        /\ op = "insert" => k \notin Tracked
        /\ call' = [call EXCEPT ![t] = [NoCall EXCEPT !.op = op, !.key = k, !.pc = "probe"]]
  BY DEF Call
<1>2. SeenCalls' = [SeenCalls EXCEPT ![t] = [op |-> op, key |-> k, res |-> "none"]]
  BY <1>1 DEF SeenCalls, Seen, NoCall, TypeOK
<1>3. SeenCalls[t].op = "none" /\ \A u \in Threads : SeenCalls[u].key # k
  BY DEF Call, CallInv, SeenCalls, Seen, NoCall
<1>4. Tracked' = Tracked
  BY DEF Call, Tracked
<1>5. QED
  BY <1>1, <1>2, <1>3, <1>4 DEF Map!MCall, SeenCalls, Seen

(* A probe changes nothing PtrMap sees, or ends the call with "no".         *)
LEMMA MapProbe ==
  ASSUME IInv, IInv', NEW t \in Threads, ProbeOn(t),
         Probing(t, "insert") \/ Probing(t, "remove")
  PROVE  [Map!MNext]_(Map!mvars)
<1> USE DEF IInv
<1>1. Tracked' = Tracked
  BY DEF ProbeOn, Tracked
<1>2. SeenCalls[t].op = call[t].op /\ SeenCalls[t].res = "none" /\ SeenCalls[t].key = call[t].key
  BY DEF SeenCalls, Seen, CallInv, Probing
<1>3. CASE call[t].i + 1 < Size
  <2>1. call[t] \in Calls /\ call' = [call EXCEPT ![t].i = @ + 1]
    BY <1>3 DEF ProbeOn, TypeOK
  <2>2. Seen(call'[t]) = Seen(call[t])
    BY <2>1 DEF Seen, Calls, TypeOK
  <2>3. SeenCalls' = SeenCalls
    BY <2>1, <2>2 DEF SeenCalls, TypeOK
  <2>4. QED
    BY <1>1, <2>3 DEF Map!mvars, SeenCalls, Seen
<1>4. CASE ~(call[t].i + 1 < Size)
  <2>1. SeenCalls' = [SeenCalls EXCEPT ![t].res = "no"]
    BY <1>4, SeenFinish DEF ProbeOn
  <2>2. CASE Probing(t, "insert")
    <3>1. Map!Refuse(t)
      BY <1>1, <1>2, <2>1, <2>2 DEF Map!Refuse, Map!Pending, Map!Reply, SeenCalls, Seen, Probing
    <3>2. QED
      BY <3>1 DEF Map!MNext
  <2>3. CASE Probing(t, "remove")
    <3>1. call'[t].op = "remove" /\ call'[t].res = "no" /\ call'[t].key = call[t].key
      BY <1>4, <2>3, FinishCall DEF ProbeOn, Probing
    <3>2. call[t].key \notin Tracked
      BY <1>1, <3>1 DEF NoMiss
    <3>3. Map!Remove(t)
      BY <1>1, <1>2, <2>1, <2>3, <3>2
         DEF Map!Remove, Map!Pending, Map!Reply, SeenCalls, Seen, Probing
    <3>4. QED
      BY <3>3 DEF Map!MNext
  <2>4. QED
    BY <2>2, <2>3
<1>5. QED
  BY <1>3, <1>4

LEMMA MapInsert ==
  ASSUME IInv, NEW t \in Threads, Probing(t, "insert"),
         table' = [table EXCEPT ![At(t)] = call[t].key],
         table[At(t)] \in {Empty, Tombstone}, Finish(t, "yes", "done")
  PROVE  Map!Insert(t)
<1> USE DEF IInv
<1>1. call[t].key \in Keys /\ At(t) \in Slots
  BY PassedSlots, ProbeSlot DEF Probing, At, Slots
<1>2. Tracked' = Tracked \cup {call[t].key}
  BY <1>1, ShimTableAssumption DEF Tracked, TypeOK
<1>3. SeenCalls' = [SeenCalls EXCEPT ![t].res = "yes"]
  BY SeenFinish
<1>4. SeenCalls[t].op = "insert" /\ SeenCalls[t].res = "none" /\ SeenCalls[t].key = call[t].key
  BY DEF SeenCalls, Seen, CallInv, Probing
<1>5. QED
  BY <1>2, <1>3, <1>4 DEF Map!Insert, Map!Pending, Map!Reply, SeenCalls, Seen

LEMMA MapRemove ==
  ASSUME IInv, NEW t \in Threads, Probing(t, "remove"),
         table' = [table EXCEPT ![At(t)] = Tombstone],
         table[At(t)] = call[t].key, Finish(t, "yes", "check")
  PROVE  Map!Remove(t)
<1> USE DEF IInv
<1>1. call[t].key \in Keys /\ At(t) \in Slots
  BY PassedSlots, ProbeSlot DEF Probing, At, Slots
<1>2. Tracked' = Tracked \ {call[t].key} /\ call[t].key \in Tracked
  BY <1>1, ShimTableAssumption DEF Tracked, TypeOK, NoDuplicates
<1>3. SeenCalls' = [SeenCalls EXCEPT ![t].res = "yes"]
  BY SeenFinish
<1>4. SeenCalls[t].op = "remove" /\ SeenCalls[t].res = "none" /\ SeenCalls[t].key = call[t].key
  BY DEF SeenCalls, Seen, CallInv, Probing
<1>5. QED
  BY <1>2, <1>3, <1>4 DEF Map!Remove, Map!Pending, Map!Reply, SeenCalls, Seen

LEMMA MapMiss ==
  ASSUME IInv, IInv', NEW t \in Threads, Probing(t, "remove"),
         UNCHANGED <<table, tombstones>>, Finish(t, "no", "done")
  PROVE  Map!Remove(t)
<1> USE DEF IInv
<1>1. Tracked' = Tracked
  BY DEF Tracked
<1>2. call'[t].op = "remove" /\ call'[t].res = "no" /\ call'[t].key = call[t].key
  BY FinishCall DEF Probing
<1>3. call[t].key \notin Tracked
  BY <1>1, <1>2 DEF NoMiss
<1>4. SeenCalls' = [SeenCalls EXCEPT ![t].res = "no"]
  BY SeenFinish
<1>5. SeenCalls[t].op = "remove" /\ SeenCalls[t].res = "none" /\ SeenCalls[t].key = call[t].key
  BY DEF SeenCalls, Seen, CallInv, Probing
<1>6. QED
  BY <1>1, <1>3, <1>4, <1>5 DEF Map!Remove, Map!Pending, Map!Reply, SeenCalls, Seen

LEMMA MapStep ==
  ASSUME [CompactsWell]_vars, IInv, IInv', [Next]_vars
  PROVE  [Map!MNext]_(Map!mvars)
<1>1. CASE UNCHANGED vars
  BY <1>1 DEF vars, Map!mvars, Tracked
<1>2. ASSUME NEW t \in Threads, NEW k \in Keys, Call(t, k)
      PROVE  Map!MNext
  BY <1>2, MapCall DEF Map!MNext
<1>3. ASSUME NEW t \in Threads, Insert(t)
      PROVE  [Map!MNext]_(Map!mvars)
  BY <1>3, MapInsert, MapProbe DEF Insert, Map!MNext
<1>4. ASSUME NEW t \in Threads, Remove(t)
      PROVE  [Map!MNext]_(Map!mvars)
  BY <1>4, MapRemove, MapMiss, MapProbe DEF Remove, Map!MNext
<1>5. ASSUME NEW t \in Threads, Check(t)
      PROVE  UNCHANGED Map!mvars
  <2>1. Tracked' = Tracked /\ TypeOK
    BY <1>5 DEF Check, Tracked, IInv
  <2>2. SeenCalls' = [SeenCalls EXCEPT ![t].res = "yes"] /\ SeenCalls[t].res = "yes"
    BY <1>5, <2>1, CheckStep, SeenFinish DEF SeenCalls, Seen
  <2>3. SeenCalls' = SeenCalls
    BY <2>2 DEF SeenCalls, Seen
  <2>4. QED
    BY <2>1, <2>3 DEF Map!mvars, SeenCalls, Seen
<1>6. ASSUME NEW t \in Threads, Reclaim(t), ~UNCHANGED vars
      PROVE  UNCHANGED Map!mvars
  <2>1. Tracked' = Tracked /\ Finish(t, "yes", "done") /\ call[t].res = "yes"
    BY <1>6, ReclaimStep
  <2>2. SeenCalls' = [SeenCalls EXCEPT ![t].res = "yes"] /\ SeenCalls[t].res = "yes"
    BY <2>1, SeenFinish DEF IInv, SeenCalls, Seen
  <2>3. SeenCalls' = SeenCalls
    BY <2>2 DEF SeenCalls, Seen
  <2>4. QED
    BY <2>1, <2>3 DEF Map!mvars, SeenCalls, Seen
<1>7. ASSUME NEW t \in Threads, Return(t)
      PROVE  Map!MNext
  <2>1. Tracked' = Tracked /\ SeenCalls[t].res # "none"
    BY <1>7 DEF Return, Tracked, IInv, CallInv, SeenCalls, Seen
  <2>2. SeenCalls' = [SeenCalls EXCEPT ![t] = Map!NoCall]
    BY <1>7 DEF Return, IInv, TypeOK, SeenCalls, Seen, NoCall, Map!NoCall
  <2>3. Map!MReturn(t)
    BY <2>1, <2>2 DEF Map!MReturn, SeenCalls, Seen
  <2>4. QED
    BY <2>3 DEF Map!MNext
<1>8. QED
  BY <1>1, <1>2, <1>3, <1>4, <1>5, <1>6, <1>7 DEF Next

(* As long as compactions do what they say, the slot-by-slot table with one *)
(* lock at a time is an atomic map: every call takes effect at one instant. *)
THEOREM AtomicMap ==
  Spec /\ [][CompactsWell]_vars => ImplementsPtrMap
<1>1. IInv /\ [CompactsWell]_vars /\ [Next]_vars => IInv'
  BY NextInv
<1>2. IInv /\ IInv' /\ [CompactsWell]_vars /\ [Next]_vars => [Map!MNext]_(Map!mvars)
  BY MapStep
<1>3. QED
  BY InitInv, MapInit, <1>1, <1>2, PTL DEF Spec, ImplementsPtrMap, Map!MSpec
==============================================================================
