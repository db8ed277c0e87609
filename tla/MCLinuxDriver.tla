---------------------------- MODULE MCLinuxDriver ----------------------------
(* Instances of LinuxDriver small enough for TLC. *)
EXTENDS LinuxDriver, TLC

CONSTANTS t1, t2, b1, b2, e1, e2
Symmetric == Permutations(Bufs) \cup Permutations(Events)

(* one task registers events; several that race on POLL_FD are set apart *)
OnePoller == [t \in Threads |-> IF t = t1 THEN {"alloc", "pin", "evict"}
                                 ELSE {"alloc", "madvise", "evict", "poll"}]
BufferCalls == [t \in Threads |-> {"alloc", "pin", "madvise", "evict"}]
Pollers == [t \in Threads |-> {"poll"}]
=============================================================================
