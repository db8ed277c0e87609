---------------------------- MODULE FileTensorInv ----------------------------
(***************************************************************************)
(* The inductive invariant of FileTensor, in named parts.                  *)
(***************************************************************************)
EXTENDS FileTensor

InLoop == pc \in {"slot", "map", "lane", "fence", "finish", "drain"}
Writable(p) == \E s \in Slots : map[s] = p /\ access[s] = "rw"

(* The locals of acquire_many at each point of it *)
CallInv ==
  /\ pc # "scan" => todo = {}
  /\ pc \notin {"scan", "sync"} /\ ~InLoop => missing = {}
  /\ pc \in {"slot", "map", "lane", "fence"} => Len(batch) < BatchLimit
  /\ pc \notin {"slot", "map", "lane", "fence", "finish"} => batch = <<>>
  /\ pc \in {"map", "lane", "fence"} => page \in missing
  /\ pc = "map" => /\ slot \in Slots /\ map[slot] = NoPage
                   /\ access[slot] = "none" /\ ~Mapped(page)
  /\ pc \in {"lane", "fence"} => Writable(page)
  /\ pc = "fence" => lane \in Lanes /\ lane \notin Busy
  /\ pc = "sync" => missing # {}
  /\ pc = "slot" => Remaining # {}
  /\ pc = "drain" => Remaining = {}
  /\ poisoned => pc \in {"idle", "cancel", "release", "closed", "abandoned"}
  /\ pc \in {"scan", "sync"} => \A p \in missing : ~Mapped(p)
  /\ Cardinality(want) <= SlotCount

(* What the batch holds: mapped pages of the request in lanes of their own *)
BatchInv ==
  \A i \in DOMAIN batch :
    LET it == batch[i] IN
    /\ it.page \in missing /\ Writable(it.page)
    /\ pc \in {"lane", "fence"} => it.page # page
    /\ it.read => io[it.lane] # "idle" /\ target[it.lane] = it.page
    /\ ~it.read => lanePage[it.lane] = it.page
    /\ \A j \in DOMAIN batch : batch[j].lane = it.lane => i = j

LaneInv ==
  /\ \A l \in Lanes : io[l] # "idle" =>
       /\ lanePage[l] = NoPage /\ target[l] \in Pages
       /\ io[l] = "read" => buffer[l] = target[l]
       /\ \A c \in copies : c.lane # l
       /\ ~poisoned /\ pc \notin {"cancel", "release", "closed", "abandoned"} => l \in Busy
  /\ \A c \in copies : /\ buffer[c.lane] = c.page /\ c.page \in want
                       /\ io[c.lane] = "idle"
                       /\ Writable(c.page)
                       /\ ~poisoned => InLoop /\ c.page \in missing

(* A mapped page of a healthy object is loaded, or being loaded *)
InFlight(p) ==
  \/ pc \in {"lane", "fence"} /\ page = p
  \/ \E i \in DOMAIN batch : batch[i].page = p
  \/ \E c \in copies : c.page = p

SlotInv ==
  ~poisoned => \A s \in Slots : map[s] # NoPage =>
    \/ map[s] \notin missing /\ data[s] = map[s] /\ access[s] = "ro"
    \/ /\ map[s] \in missing /\ access[s] = "rw"
       /\ data[s] = map[s] \/ fault \/ InFlight(map[s])

WantInv ==
  ~poisoned /\ pc # "closed" => \A p \in want : p \in todo \/ p \in missing \/ Mapped(p)

JobInv ==
  /\ \A k \in Jobs : jobs[k] = "none" => uses[k] = {}
  /\ \A k \in Jobs : \A p \in uses[k] : Readable(p)
  /\ InLoop => \A k \in Jobs : jobs[k] = "none"
  /\ pc # "idle" => \A k \in Jobs : jobs[k] # "other"

ClosedInv ==
  /\ pc \in {"release", "closed", "abandoned"} => \A l \in Lanes : io[l] = "idle"
  /\ pc = "closed" => /\ copies = {} /\ \A k \in Jobs : jobs[k] = "none"
                      /\ \A s \in Slots : map[s] = NoPage

IInv ==
  /\ TypeOK /\ CallInv /\ BatchInv /\ LaneInv /\ SlotInv
  /\ OneSlotPerPage /\ HostCacheIsTruthful
  /\ WantInv /\ JobInv /\ ClosedInv
=============================================================================
