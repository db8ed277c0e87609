----------------------------- MODULE MCShimAlloc -----------------------------
(* Instances of ShimAlloc small enough for TLC. *)
EXTENDS ShimAlloc, TLC

CONSTANTS t1, t2, a1, a2, a3, b1, b2, h1, h2
MCSymmetry == Permutations(Addrs) \cup Permutations(Bufs) \cup Permutations(Handles)
==============================================================================
