-------------------------------- MODULE PtrMap --------------------------------
(***************************************************************************)
(* What the shim's pointer table promises its callers (the comments of     *)
(* ht_insert and ht_remove in                                              *)
(* windows-port/shim/greenboost_cuda_shim_win.c): a set of tracked device  *)
(* pointers with an atomic insert and an atomic remove that tells whether  *)
(* the pointer was tracked.  A call on one pointer is not made beside      *)
(* another on it: an allocation is freed once, and CUDA gives out an       *)
(* address only while no allocation has it.                                *)
(***************************************************************************)
CONSTANTS Threads, Keys, NoKey

VARIABLES tracked, call
mvars == <<tracked, call>>

NoCall == [op |-> "none", key |-> NoKey, res |-> "none"]

MInit ==
  /\ tracked = {}
  /\ call = [t \in Threads |-> NoCall]

Reply(t, res) == call' = [call EXCEPT ![t].res = res]
Pending(t, op) == call[t].op = op /\ call[t].res = "none"

MCall(t, k) ==
  /\ call[t].op = "none"
  /\ \A u \in Threads : call[u].key # k
  /\ \E op \in {"insert", "remove"} :
       /\ op = "insert" => k \notin tracked
       /\ call' = [call EXCEPT ![t] = [op |-> op, key |-> k, res |-> "none"]]
  /\ UNCHANGED tracked

Insert(t) ==
  /\ Pending(t, "insert")
  /\ tracked' = tracked \cup {call[t].key}
  /\ Reply(t, "yes")

(* The table is full *)
Refuse(t) ==
  /\ Pending(t, "insert")
  /\ Reply(t, "no")
  /\ UNCHANGED tracked

Remove(t) ==
  /\ Pending(t, "remove")
  /\ tracked' = tracked \ {call[t].key}
  /\ Reply(t, IF call[t].key \in tracked THEN "yes" ELSE "no")

MReturn(t) ==
  /\ call[t].res # "none"
  /\ call' = [call EXCEPT ![t] = NoCall]
  /\ UNCHANGED tracked

MNext ==
  \E t \in Threads :
    \/ \E k \in Keys : MCall(t, k)
    \/ Insert(t) \/ Refuse(t) \/ Remove(t) \/ MReturn(t)

MSpec == MInit /\ [][MNext]_mvars
===============================================================================
