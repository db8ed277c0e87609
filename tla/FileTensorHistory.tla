-------------------------- MODULE FileTensorHistory --------------------------
(***************************************************************************)
(* FileTensor with two history variables, to say which pages the slot      *)
(* replacement of acquire_many keeps: the request before the latest one    *)
(* and the order in which the slots were last mapped.                      *)
(***************************************************************************)
EXTENDS FileTensor

VARIABLES prev,    \* the request of the acquire before the latest
          mapAge   \* how many slots were mapped after this one

hvars == <<vars, prev, mapAge>>

HInit ==
  /\ Init
  /\ prev = {}
  /\ mapAge = slotAge

NewlyMapped == {s \in Slots : map[s] = NoPage /\ map'[s] # NoPage}

(* A new object is constructed *)
Reborn == pc \in {"closed", "abandoned"} /\ pc' = "idle"

HNext ==
  /\ Next
  /\ prev' = IF Reborn THEN {}
             ELSE IF pc = "idle" /\ pc' = "scan" THEN want ELSE prev
  /\ mapAge' = IF Reborn THEN slotAge'
               ELSE IF NewlyMapped # {}
                    THEN Touch(mapAge, CHOOSE s \in NewlyMapped : TRUE)
                    ELSE mapAge

HSpec == HInit /\ [][HNext]_hvars
FairHSpec == HSpec /\ Fairness

(* Two consecutive requests that fit the pool together are both resident    *)
(* after the second: a layer that alternates between two expert sets within *)
(* its budget never reads the file again (lines 197 and 226-230).           *)
WorkingSetStaysResident ==
  (pc = "idle" /\ ~poisoned /\ Cardinality(prev \cup want) <= SlotCount)
    => prev \cup want \subseteq MappedPages

(* EXPERIMENTAL.md:81: "It currently uses FIFO slot reuse": the slot that   *)
(* is taken is the one mapped longest ago among those that may be taken.    *)
FifoSlotReuse ==
  [][\A s \in Slots :
       (pc = "slot" /\ map[s] # NoPage /\ map'[s] = NoPage)
         => \A t \in Evictable : mapAge[t] <= mapAge[s]]_hvars
=============================================================================
