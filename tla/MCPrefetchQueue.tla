---------------------------- MODULE MCPrefetchQueue ----------------------------
(* Instances of PrefetchQueue small enough for TLC. *)
EXTENDS PrefetchQueue

CONSTANTS t1, t2, r1, r2
================================================================================
