------------------------------ MODULE Residency ------------------------------
(***************************************************************************)
(* What greenboost::FileTensor promises to its client (file_tensor.h): a   *)
(* bounded set of file pages is resident in VRAM, a call to acquire makes  *)
(* a whole set of pages resident, pages leave only while no consumer runs, *)
(* and a failure is reported instead of an unloaded page being served.     *)
(* Nothing is said here about slots, staging lanes, streams or the file.   *)
(***************************************************************************)
EXTENDS Naturals, FiniteSets

CONSTANTS Pages,    \* the chunks of the tensor file
          Budget    \* how many of them may be resident at once

VARIABLES resident, \* pages a consumer may read now
          inUse,    \* pages read by consumers that have not finished
          want,     \* the union of the spans of the latest acquire
          phase     \* "idle", "busy" (inside acquire), "failed", "closed" or "lost"

rvars == <<resident, inUse, want, phase>>

RTypeOK ==
  /\ resident \subseteq Pages
  /\ inUse \subseteq Pages
  /\ want \subseteq Pages
  /\ phase \in {"idle", "busy", "failed", "closed", "lost"}

RInit ==
  /\ resident = {} /\ inUse = {} /\ want = {}
  /\ phase = "idle"

(* acquire_many is entered with a request that fits the budget *)
Request(req) ==
  /\ phase = "idle"
  /\ Cardinality(req) <= Budget
  /\ want' = req
  /\ phase' = "busy"
  /\ UNCHANGED <<resident, inUse>>

(* a page nobody asked for leaves, once every consumer has finished *)
Evict(p) ==
  /\ phase = "busy"
  /\ p \in resident \ want
  /\ inUse = {}
  /\ resident' = resident \ {p}
  /\ UNCHANGED <<inUse, want, phase>>

(* a requested page becomes readable; an upload may outlive a failed call *)
Load(p) ==
  /\ phase \in {"busy", "failed", "closed", "lost"}
  /\ p \in want \ resident
  /\ resident' = resident \cup {p}
  /\ Cardinality(resident') <= Budget
  /\ UNCHANGED <<inUse, want, phase>>

(* acquire_many returns only with all it was asked for *)
Return ==
  /\ phase = "busy"
  /\ want \subseteq resident
  /\ phase' = "idle"
  /\ UNCHANGED <<resident, inUse, want>>

(* acquire_many or record_use throws *)
Throw ==
  /\ phase \in {"idle", "busy"}
  /\ phase' = "failed"
  /\ UNCHANGED <<resident, inUse, want>>

(* a consumer of acquired pages is submitted *)
Use(u) ==
  /\ phase = "idle"
  /\ u \subseteq want
  /\ inUse' = inUse \cup u
  /\ UNCHANGED <<resident, want, phase>>

(* consumers finish *)
Done(u) ==
  /\ u \subseteq inUse
  /\ inUse' = u
  /\ UNCHANGED <<resident, want, phase>>

(* the object is destroyed: the destructor is entered, then unmaps *)
Close ==
  /\ phase \in {"idle", "failed"}
  /\ phase' = "closed"
  /\ UNCHANGED <<resident, inUse, want>>

Unmap ==
  /\ phase = "closed"
  /\ inUse = {}
  /\ resident' = {}
  /\ UNCHANGED <<inUse, want, phase>>

(* the destructor cannot reach the context and leaves everything as it is *)
Lose ==
  /\ phase = "closed"
  /\ phase' = "lost"
  /\ UNCHANGED <<resident, inUse, want>>

(* a new object is constructed on the same file, once nothing of the old    *)
(* one is left or the old one is lost with its pages and consumers          *)
Open ==
  /\ \/ phase = "closed" /\ resident = {} /\ inUse = {}
     \/ phase = "lost"
  /\ phase' = "idle"
  /\ resident' = {} /\ inUse' = {} /\ want' = {}

RNext ==
  \/ \E req \in SUBSET Pages : Request(req)
  \/ \E p \in Pages : Evict(p) \/ Load(p)
  \/ Return \/ Throw \/ Close \/ Unmap \/ Lose \/ Open
  \/ \E u \in SUBSET Pages : Use(u) \/ Done(u)

RSpec == RInit /\ [][RNext]_rvars

(* Every page a running consumer reads is resident, and what acquire        *)
(* returned stays resident until the next acquire (file_tensor.h:10-13).    *)
Promise ==
  /\ inUse \subseteq resident
  /\ phase = "idle" => want \subseteq resident
  /\ Cardinality(resident) <= Budget
=============================================================================
