----------------------------- MODULE MCShimTable -----------------------------
(* Instances of ShimTable small enough for TLC. *)
EXTENDS ShimTable, TLC

CONSTANTS t1, t2, t3, k1, k2, k3, k4

(* four entries whose probes run over the end of a table of five *)
Wrapping == k1 :> 2 @@ k2 :> 2 @@ k3 :> 3 @@ k4 :> 3
(* chains that overlap and do not run over the end of a table of three *)
Early == [k \in Keys |-> IF k \in {k1, k2} THEN 0 ELSE 1]
==============================================================================
