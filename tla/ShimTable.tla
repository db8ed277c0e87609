------------------------------ MODULE ShimTable ------------------------------
(***************************************************************************)
(* The open-addressed pointer table of                                     *)
(* windows-port/shim/greenboost_cuda_shim_win.c.  A slot is read and       *)
(* written under its own lock and no lock is kept from one slot to the     *)
(* next, so a call is one step per probed slot.  ht_reclaim_tombstones     *)
(* holds every lock while it works and is one step; a probe of another     *)
(* thread is between two of its slots meanwhile, unless ReclaimsAlone.     *)
(* What a slot holds beside its pointer is copied with it and left out.    *)
(***************************************************************************)
EXTENDS Integers, FiniteSets

CONSTANTS
  Threads,
  Keys,      \* device pointers
  Size,      \* HT_SIZE
  Hash,      \* ht_hash of every pointer
  Threshold, \* HT_TOMBSTONE_THRESHOLD
  ReclaimsAlone, \* assumed: no probe has begun when a reclaim takes the locks
  Empty,     \* HT_EMPTY; also the key of no call
  Tombstone  \* HT_TOMBSTONE

ASSUME ShimTableAssumption ==
  /\ Size \in Nat \ {0} /\ Threshold \in Nat /\ ReclaimsAlone \in BOOLEAN
  /\ Hash \in [Keys -> 0 .. Size - 1]
  /\ Empty \notin Keys /\ Tombstone \notin Keys /\ Empty # Tombstone

VARIABLES
  table,      \* gb_htable
  tombstones, \* gb_tombstone_count
  call        \* the call each thread is in, i slots after the first

vars == <<table, tombstones, call>>

Slots == 0 .. Size - 1
Probe(k, i) == (Hash[k] + i) % Size
NoCall == [op |-> "none", key |-> Empty, res |-> "none", i |-> 0, pc |-> "idle"]
Tracked == {k \in Keys : \E s \in Slots : table[s] = k}
Tombs == {s \in Slots : table[s] = Tombstone}

Init ==
  /\ table = [s \in Slots |-> Empty]
  /\ tombstones = 0
  /\ call = [t \in Threads |-> NoCall]

(* The hooks insert pointers CUDA has just given out and remove any pointer *)
(* the application frees, each from one thread at a time                    *)
Call(t, k) ==
  /\ call[t].pc = "idle"
  /\ \A u \in Threads : call[u].key # k
  /\ \E op \in {"insert", "remove"} :
       /\ op = "insert" => k \notin Tracked
       /\ call' = [call EXCEPT ![t] = [NoCall EXCEPT !.op = op, !.key = k, !.pc = "probe"]]
  /\ UNCHANGED <<table, tombstones>>

At(t) == Probe(call[t].key, call[t].i)
Probing(t, op) == call[t].op = op /\ call[t].pc = "probe"
Finish(t, res, pc) == call' = [call EXCEPT ![t].res = res, ![t].pc = pc]

(* The next slot, or the end of the loop *)
ProbeOn(t) ==
  /\ IF call[t].i + 1 < Size
     THEN call' = [call EXCEPT ![t].i = @ + 1]
     ELSE Finish(t, "no", "done")
  /\ UNCHANGED <<table, tombstones>>

(* ht_insert at one slot: the first empty or deleted slot is taken *)
Insert(t) ==
  /\ Probing(t, "insert")
  /\ \/ /\ table[At(t)] \in {Empty, Tombstone}
        /\ tombstones' = IF table[At(t)] = Tombstone THEN tombstones - 1 ELSE tombstones
        /\ table' = [table EXCEPT ![At(t)] = call[t].key]
        /\ Finish(t, "yes", "done")
     \/ table[At(t)] \in Keys /\ ProbeOn(t)

(* mutant: the slot is zeroed, as in greenboost_cuda_shim.c *)
RemoveZeroes(t) ==
  /\ Probing(t, "remove")
  /\ \/ table[At(t)] = Empty /\ Finish(t, "no", "done") /\ UNCHANGED <<table, tombstones>>
     \/ /\ table[At(t)] = call[t].key
        /\ table' = [table EXCEPT ![At(t)] = Empty]
        /\ tombstones' = tombstones
        /\ Finish(t, "yes", "check")
     \/ table[At(t)] \notin {Empty, call[t].key} /\ ProbeOn(t)

(* ht_remove at one slot *)
Remove(t) ==
  /\ Probing(t, "remove")
  /\ \/ table[At(t)] = Empty /\ Finish(t, "no", "done") /\ UNCHANGED <<table, tombstones>>
     \/ /\ table[At(t)] = call[t].key
        /\ table' = [table EXCEPT ![At(t)] = Tombstone]
        /\ tombstones' = tombstones + 1
        /\ Finish(t, "yes", "check")
     \/ table[At(t)] \notin {Empty, call[t].key} /\ ProbeOn(t)

(* The count is compared with the threshold after the lock is released *)
Check(t) ==
  /\ call[t].pc = "check"
  /\ Finish(t, "yes", IF tombstones > Threshold THEN "reclaim" ELSE "done")
  /\ UNCHANGED <<table, tombstones>>

-----------------------------------------------------------------------------
(* ht_reclaim_tombstones *)

Cleared == [s \in Slots |-> IF table[s] = Tombstone THEN Empty ELSE table[s]]

FirstEmpty(T, k) ==
  CHOOSE s \in Slots : \E j \in Slots :
    /\ s = Probe(k, j) /\ T[s] = Empty
    /\ \A m \in 0 .. j - 1 : T[Probe(k, m)] # Empty

(* The entry of slot s is taken out and inserted again *)
Reinsert(T, s) ==
  IF T[s] = Empty THEN T
  ELSE LET U == [T EXCEPT ![s] = Empty] IN [U EXCEPT ![FirstEmpty(U, T[s])] = T[s]]

Compacted ==
  LET pass[n \in 0 .. Size] == IF n = 0 THEN Cleared ELSE Reinsert(pass[n - 1], n - 1)
  IN pass[Size]

(* Between two slots of a probe no lock is held *)
Begun(t) == call[t].pc = "probe" /\ call[t].i > 0
MayReclaim(t) == ReclaimsAlone => \A u \in Threads \ {t} : ~Begun(u)

Reclaim(t) ==
  /\ call[t].pc = "reclaim" /\ MayReclaim(t)
  /\ table' = Compacted
  /\ tombstones' = 0
  /\ Finish(t, "yes", "done")

Return(t) ==
  /\ call[t].pc = "done"
  /\ call' = [call EXCEPT ![t] = NoCall]
  /\ UNCHANGED <<table, tombstones>>

Next ==
  \E t \in Threads :
    \/ \E k \in Keys : Call(t, k)
    \/ Insert(t) \/ Remove(t) \/ Check(t) \/ Reclaim(t) \/ Return(t)

Spec == Init /\ [][Next]_vars
-----------------------------------------------------------------------------
(* Properties *)

Calls == [op : {"none", "insert", "remove"}, key : Keys \cup {Empty},
          res : {"none", "yes", "no"}, i : Slots,
          pc : {"idle", "probe", "check", "reclaim", "done"}]

TypeOK ==
  /\ table \in [Slots -> Keys \cup {Empty, Tombstone}]
  /\ tombstones \in Nat
  /\ call \in [Threads -> Calls]

(* Every entry can be reached: no slot its probes pass before it is empty.  *)
(* Lines 362-383 re-insert all live entries "to fix probe chains".          *)
EntriesReachable ==
  \A k \in Tracked : \E i \in Slots :
    /\ table[Probe(k, i)] = k
    /\ \A j \in 0 .. i - 1 : table[Probe(k, j)] # Empty

(* A pointer that is in the table when its removal ends has been found: the *)
(* free of a managed pointer never goes to the driver as a native one       *)
(* (lines 555-560).                                                         *)
NoMiss ==
  \A t \in Threads : (call[t].op = "remove" /\ call[t].res = "no") => call[t].key \notin Tracked

(* gb_tombstone_count, which decides when to reclaim, is the number of      *)
(* deleted slots (lines 242-243, 292, 385).                                 *)
TombstonesCounted == tombstones = Cardinality(Tombs)

(* No pointer is in the table twice: a second entry would be found by the   *)
(* free of a later allocation at the same address.                          *)
NoDuplicates == \A r, s \in Slots : (table[r] = table[s] /\ table[r] \in Keys) => r = s

(* The table does what PtrMap promises. *)
Map == INSTANCE PtrMap WITH
  tracked <- Tracked, NoKey <- Empty,
  call <- [t \in Threads |-> [op |-> call[t].op, key |-> call[t].key, res |-> call[t].res]]
ImplementsPtrMap == Map!MSpec
===============================================================================
