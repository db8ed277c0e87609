----------------------------- MODULE MCLinuxShim -----------------------------
(* Instances of LinuxShim small enough for TLC. *)
EXTENDS LinuxShim, TLC

CONSTANTS t1, t2, m1, m2, d1, d2
ThreadSymmetry == Permutations(Threads)

(* every pointer hashes to one slot; every pointer has a slot of its own *)
OneChain == [p \in HostAddrs \cup CudaAddrs |-> NumSlots - 1]
NoChain == [p \in HostAddrs \cup CudaAddrs |->
              CASE p = m1 -> 0 [] p = m2 -> 1 [] p = d1 -> 2 [] OTHER -> 3]
=============================================================================
