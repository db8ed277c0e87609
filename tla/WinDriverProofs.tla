---------------------------- MODULE WinDriverProofs ----------------------------
(***************************************************************************)
(* What WinDriver guarantees for any threads, handles, buffers, sizes and  *)
(* caps.                                                                   *)
(*                                                                         *)
(* The invariant is built in layers, each inductive relative to those      *)
(* before it: the shape of the state, the ids that are left, whose an id   *)
(* is, who may touch a buffer at each step of a request, and then, side by *)
(* side, what a client's ids lead to, what has been accounted, and which   *)
(* handle frees what.  A layer assumes only what it needs.                 *)
(***************************************************************************)
EXTENDS WinDriver, FiniteSetTheorems, TLAPS

Allocs == {"alloc", "pin"}
Named == {"free", "madvise", "evict"}
Scans == {"reset", "close", "unload"}
OpNames == {"none"} \cup Allocs \cup Named \cup Scans

(* Where a request has no buffer yet, where its buffer answers to its id,   *)
(* and where the buffer is on its way out                                   *)
Starting == {"t2", "t3", "pin"}
Registered == {"map", "own", "owned", "advise", "relabel", "delist"}
Freeing == {"unlink", "unregister", "release"}
HasBuf == {"account", "register"} \cup Registered \cup Freeing
Labels == {"idle", "lookup", "scan"} \cup Starting \cup HasBuf

Request == [op : OpNames, pc : Labels, h : Handles \cup {NoBuf}, id : Ids \cup {0},
            buf : Bufs \cup {NoBuf}, size : Nat, frozen : BOOLEAN, idx : 0 .. MaxBufs,
            freed : Nat, word : SUBSET Ids]

(* Which request can be at a label, and what it carries there               *)
WellFormed(r) ==
  /\ r.pc = "idle" => r = NoRequest
  /\ r.pc # "idle" => r.op \in (Ops \cap (Allocs \cup Named \cup {"reset"})) \cup {"close", "unload"}
  /\ r.op = "unload" => r.h = NoBuf
  /\ r.pc \in {"t2", "t3"} => r.op = "alloc"
  /\ r.pc = "pin" => r.op = "pin"
  /\ r.pc \in {"account", "register", "map"} => r.op \in Allocs
  /\ r.pc \in {"own", "owned"} => r.op \in Allocs \cup {"free"}
  /\ r.pc = "lookup" => r.op \in Named
  /\ r.pc = "advise" => r.op = "madvise"
  /\ r.pc \in {"relabel", "delist"} => r.op = "evict"
  /\ r.pc \in Freeing => r.op \in Allocs \cup {"free"} \cup Scans
  /\ r.pc = "scan" => r.op \in Scans
  /\ r.pc \in HasBuf <=> r.buf \in Bufs
  /\ r.pc \in {"lookup"} \cup Registered => r.id \in Ids
  /\ r.op \in Named => r.id \in Ids
  /\ r.pc \in Starting \cup {"account", "register"} \/ r.op \in Scans => r.id = 0
  /\ r.op \in Scans => r.idx \in 1 .. MaxBufs

(* A request is on an open handle of its thread; a handle being closed has  *)
(* no other                                                                 *)
Placed(t) ==
  /\ req[t].op \in Allocs \cup Named \cup {"reset"} => req[t].h \in open \cap Uses[t]
  /\ req[t].op = "close" => /\ req[t].h \in Uses[t] \ open
                            /\ \A u \in Threads : u # t => req[u].h # req[t].h

(* RESET and the unloading run alone, and nothing runs while the driver is  *)
(* not loaded                                                               *)
Alone ==
  /\ \A t, u \in Threads : req[t].op \in {"reset", "unload"} /\ u # t => At(u, "idle")
  /\ \A t \in Threads : req[t].op = "unload" => open = {} /\ loaded
  /\ ~loaded => open = {} /\ Quiet

Typed ==
  /\ heap \in [Bufs -> Buffer \cup {NoBuf}]
  /\ table \in [Ids -> Bufs \cup {NoBuf}]
  /\ nextId \in 0 .. MaxBufs /\ activeBufs \in Int /\ pool \in Int /\ nvme \in Int
  /\ lru \subseteq Bufs /\ open \subseteq Handles
  /\ owned \in [Handles -> SUBSET Ids] /\ ownedCount \in [Handles -> Int]
  /\ held \in [Handles -> SUBSET Ids] /\ \A h \in Handles \ open : held[h] = {}
  /\ loaded \in BOOLEAN
  /\ req \in [Threads -> Request]

(* The shape of the state when clients are careful                          *)
Shape ==
  /\ Careful
  /\ Typed
  /\ \A t \in Threads : WellFormed(req[t]) /\ Placed(t)
  /\ Alone
-----------------------------------------------------------------------------
(* What a step changes                                                      *)

others == <<heap, tableVars, poolVars, lru, fileVars>>

(* The labels of one request before and after, and what it goes on with     *)
Rest(t) == \A u \in Threads : u # t => req'[u] = req[u]
Moves(t, from, to) == Rest(t) /\ req[t].pc \in from /\ req'[t].pc \in to
SameCall(t) == req'[t].op = req[t].op /\ req'[t].h = req[t].h /\ req'[t].id = req[t].id
Keeps(t) == /\ SameCall(t) /\ req'[t].buf = req[t].buf /\ req'[t].size = req[t].size
            /\ req'[t].idx = req[t].idx /\ req'[t].freed = req[t].freed

(* One descriptor changes, but for its size and backing                     *)
Alters(b, tier, id, active) ==
  /\ heap[b] \in Buffer /\ heap'[b] \in Buffer
  /\ heap'[b].size = heap[b].size /\ heap'[b].backing = heap[b].backing
  /\ heap'[b].tier = tier /\ heap'[b].id = id /\ heap'[b].active = active
  /\ \A c \in Bufs : c # b => heap'[c] = heap[c]

Tries(t) == Moves(t, {"t2"}, {"t3"}) /\ Keeps(t) /\ UNCHANGED others

GivesUp(t) == Moves(t, {"t3", "pin", "lookup"}, {"idle"}) /\ UNCHANGED others

Takes(t) ==
  /\ Moves(t, Starting, {"account"}) /\ SameCall(t)
  /\ UNCHANGED <<tableVars, poolVars, lru, fileVars>>
  /\ LET b == req'[t].buf IN
     /\ b \in Bufs /\ heap[b] = NoBuf
     /\ heap'[b] \in Buffer /\ heap'[b].id = 0 /\ ~heap'[b].active
     /\ \/ heap'[b].tier = 2 /\ heap'[b].backing \in {"contiguous", "mdl"}
        \/ heap'[b].tier = 3 /\ heap'[b].backing = "paged"
        \/ heap'[b].tier = 2 /\ heap'[b].backing = "user" /\ req[t].op = "pin"
     /\ \A c \in Bufs : c # b => heap'[c] = heap[c]

Accounts(t) ==
  /\ Moves(t, {"account"}, {"register"}) /\ Keeps(t) /\ UNCHANGED <<heap, tableVars, fileVars>>
  /\ heap[req[t].buf] \in Buffer
  /\ \/ /\ heap[req[t].buf].tier = 2 /\ lru' = lru \cup {req[t].buf}
        /\ pool' = pool + heap[req[t].buf].size /\ UNCHANGED nvme
     \/ /\ heap[req[t].buf].tier = 3 /\ UNCHANGED <<pool, lru>>
        /\ nvme' = nvme + heap[req[t].buf].size

Registers(t) ==
  /\ Moves(t, {"register"}, {"map"}) /\ UNCHANGED <<poolVars, lru, fileVars>>
  /\ req'[t].op = req[t].op /\ req'[t].h = req[t].h /\ req'[t].buf = req[t].buf
  /\ req'[t].id \in Ids /\ nextId' = req'[t].id /\ activeBufs' = activeBufs + 1
  /\ nextId + 1 < MaxBufs => req'[t].id = nextId + 1
  /\ table' = [table EXCEPT ![req'[t].id] = req[t].buf]
  /\ Alters(req[t].buf, heap[req[t].buf].tier, req'[t].id, TRUE)

FindsFull(t) ==
  /\ Moves(t, {"register"}, {"unlink"}) /\ Keeps(t) /\ nextId + 1 >= MaxBufs
  /\ heap[req[t].buf] \in Buffer
  /\ nextId' = MaxBufs /\ UNCHANGED <<heap, table, activeBufs, poolVars, lru, fileVars>>

Maps(t) ==
  /\ Moves(t, {"map"}, {"own", "unlink"}) /\ Keeps(t) /\ UNCHANGED others
  /\ heap[req[t].buf] \in Buffer

ReadsOwned(t) ==
  /\ Moves(t, {"own"}, {"owned"}) /\ Keeps(t) /\ UNCHANGED others
  /\ heap[req[t].buf] \in Buffer
  /\ req'[t].word = owned[req[t].h]

SetsOwned(t) ==
  /\ Moves(t, {"owned"}, {"idle"}) /\ req[t].op \in Allocs
  /\ heap[req[t].buf] \in Buffer
  /\ owned' = [owned EXCEPT ![req[t].h] = req[t].word \cup {req[t].id}]
  /\ ownedCount' = [ownedCount EXCEPT ![req[t].h] = @ + 1]
  /\ held' = [held EXCEPT ![req[t].h] = @ \cup {req[t].id}]
  /\ UNCHANGED <<heap, tableVars, poolVars, lru, open, loaded>>

ClearsOwned(t) ==
  /\ Moves(t, {"owned"}, {"unlink"}) /\ Keeps(t) /\ req[t].op = "free"
  /\ heap[req[t].buf] \in Buffer
  /\ owned' = [owned EXCEPT ![req[t].h] = req[t].word \ {req[t].id}]
  /\ ownedCount' = [ownedCount EXCEPT ![req[t].h] = @ - 1]
  /\ UNCHANGED <<heap, tableVars, poolVars, lru, open, held, loaded>>

Finds(t) ==
  /\ Moves(t, {"lookup"}, {"own", "advise", "relabel"}) /\ SameCall(t) /\ UNCHANGED others
  /\ req'[t].buf = table[req[t].id] /\ Active(table[req[t].id])

Advises(t) ==
  /\ Moves(t, {"advise"}, {"idle"}) /\ GiveBack(t)
  /\ \/ UNCHANGED lru /\ Alters(req[t].buf, heap[req[t].buf].tier, heap[req[t].buf].id,
                                heap[req[t].buf].active)
     \/ UNCHANGED heap /\ lru' = lru \cup {req[t].buf} /\ heap[req[t].buf] \in Buffer
  /\ UNCHANGED <<tableVars, poolVars, open, owned, ownedCount, loaded>>

Relabels(t) ==
  /\ Moves(t, {"relabel"}, {"delist"}) /\ Keeps(t)
  /\ Alters(req[t].buf, 3, heap[req[t].buf].id, heap[req[t].buf].active)
  /\ UNCHANGED <<tableVars, poolVars, lru, fileVars>>

Leaves(t) ==
  /\ Moves(t, {"relabel"}, {"idle"}) /\ GiveBack(t) /\ heap[req[t].buf] \in Buffer
  /\ UNCHANGED <<heap, tableVars, poolVars, lru, open, owned, ownedCount, loaded>>

Delists(t) ==
  /\ Moves(t, {"delist"}, {"idle"}) /\ GiveBack(t) /\ heap[req[t].buf] \in Buffer
  /\ lru' = lru \ {req[t].buf}
  /\ UNCHANGED <<heap, tableVars, poolVars, open, owned, ownedCount, loaded>>

Unlinks(t) ==
  /\ Moves(t, {"unlink"}, {"unregister"}) /\ Keeps(t) /\ lru' = lru \ {req[t].buf}
  /\ Alters(req[t].buf, heap[req[t].buf].tier, heap[req[t].buf].id, FALSE)
  /\ UNCHANGED <<tableVars, poolVars, fileVars>>

Unregisters(t) ==
  /\ Moves(t, {"unregister"}, {"release"}) /\ Keeps(t) /\ heap[req[t].buf] \in Buffer
  /\ \/ /\ heap[req[t].buf].id \in Ids /\ table' = [table EXCEPT ![heap[req[t].buf].id] = NoBuf]
        /\ activeBufs' = activeBufs - 1
     \/ heap[req[t].buf].id = 0 /\ UNCHANGED <<table, activeBufs>>
  /\ UNCHANGED <<heap, nextId, poolVars, lru, fileVars>>

Releases(t) ==
  /\ Moves(t, {"release"}, {"idle", "scan"}) /\ heap[req[t].buf] \in Buffer
  /\ \/ req'[t].pc = "idle" /\ req[t].op \notin Scans
     \/ /\ req'[t].pc = "scan" /\ req[t].op \in Scans /\ SameCall(t)
        /\ req'[t].idx = req[t].idx /\ req'[t].freed = req[t].freed
  /\ \/ heap[req[t].buf].tier = 3 /\ nvme' = nvme - heap[req[t].buf].size /\ UNCHANGED pool
     \/ heap[req[t].buf].tier = 2 /\ pool' = pool - heap[req[t].buf].size /\ UNCHANGED nvme
  /\ heap'[req[t].buf] = NoBuf /\ \A c \in Bufs : c # req[t].buf => heap'[c] = heap[c]
  /\ UNCHANGED <<tableVars, lru, fileVars>>

(* A scan takes the buffer that is in the slot it has come to               *)
Comes(t, op) ==
  /\ Moves(t, {"scan"}, {"unlink"}) /\ req[t].op = op /\ SameCall(t)
  /\ req[t].idx \in Ids /\ req'[t].idx = req[t].idx + 1
  /\ Active(table[req[t].idx]) /\ req'[t].buf = table[req[t].idx]

ResetsEntry(t) ==
  /\ Comes(t, "reset") /\ heap' = WithoutId(table[req[t].idx])
  /\ table' = [table EXCEPT ![req[t].idx] = NoBuf] /\ activeBufs' = activeBufs - 1
  /\ UNCHANGED <<nextId, poolVars, lru, fileVars>>

UnloadsEntry(t) ==
  /\ Comes(t, "unload") /\ table' = [table EXCEPT ![req[t].idx] = NoBuf]
  /\ UNCHANGED <<heap, nextId, activeBufs, poolVars, lru, fileVars>>

CleansEntry(t) ==
  /\ Comes(t, "close") /\ req[t].idx \in owned[req[t].h] /\ req'[t].freed = req[t].freed + 1
  /\ UNCHANGED others

Skips(t) ==
  /\ Moves(t, {"scan"}, {"scan"}) /\ SameCall(t) /\ UNCHANGED others
  /\ req[t].idx \in Ids /\ req'[t].idx = req[t].idx + 1
  /\ \/ req[t].op = "close" /\ req[t].idx \notin owned[req[t].h] /\ req'[t].freed = req[t].freed
     \/ /\ req[t].op = "close" /\ req[t].idx \in owned[req[t].h] /\ req'[t].freed = req[t].freed + 1
        /\ ~Active(table[req[t].idx])
     \/ req[t].op # "close" /\ ~Active(table[req[t].idx])

Ends(t) ==
  /\ Moves(t, {"scan"}, {"idle"})
  /\ IF req[t].op = "close" THEN ~More(t) ELSE req[t].idx = MaxBufs
  /\ loaded' = (req[t].op # "unload")
  /\ UNCHANGED <<heap, tableVars, poolVars, lru, open, owned, ownedCount, held>>

StepKinds(t) ==
  \/ Tries(t) \/ GivesUp(t) \/ Takes(t) \/ Accounts(t) \/ Registers(t) \/ FindsFull(t) \/ Maps(t)
  \/ ReadsOwned(t) \/ SetsOwned(t) \/ ClearsOwned(t)
  \/ Finds(t) \/ Advises(t) \/ Relabels(t) \/ Leaves(t) \/ Delists(t)
  \/ Unlinks(t) \/ Unregisters(t) \/ Releases(t)
  \/ ResetsEntry(t) \/ UnloadsEntry(t) \/ CleansEntry(t) \/ Skips(t) \/ Ends(t)
-----------------------------------------------------------------------------
(* The shape of the state                                                   *)

LEMMA RoundsToNat ==
  ASSUME NEW n \in Nat
  PROVE  RoundUp(n) \in Nat
<1>1. Block \in Nat \ {0}
  BY WinDriverAssumption
<1>2. \A h \in Nat \ {0} : ((n + h - 1) \div h) \in Nat
  BY <1>1
<1>3. \A x, y \in Nat : x * y \in Nat
  OBVIOUS
<1> QED
  BY <1>1, <1>2, <1>3 DEF RoundUp

USE DEF Labels, HasBuf, Starting, Registered, Freeing, Scans, Named, Allocs, At

LEMMA IdsAreNat == \A i \in Ids : i \in Nat /\ i > 0 /\ i < MaxBufs /\ MaxBufs \in Nat
BY WinDriverAssumption DEF Ids

LEMMA NoBufApart == NoBuf \notin Bufs /\ NoBuf \notin Handles /\ NoBuf \notin Buffer
BY WinDriverAssumption

LEMMA NoRequestIs ==
  /\ NoRequest \in Request /\ WellFormed(NoRequest)
  /\ NoRequest.op = "none" /\ NoRequest.pc = "idle" /\ NoRequest.h = NoBuf /\ NoRequest.id = 0
  /\ NoRequest.buf = NoBuf
BY WinDriverAssumption DEF NoRequest, Request, WellFormed, OpNames, Ids

(* A handler goes on with its request or ends it *)
LEMMA HandlerStep ==
  ASSUME Shape, NEW t \in Threads, NEW q \in Request, req' = [req EXCEPT ![t] = q], WellFormed(q),
         req[t].pc # "idle", q = NoRequest \/ (q.op = req[t].op /\ q.h = req[t].h),
         UNCHANGED open, UNCHANGED loaded \/ (q = NoRequest /\ open = {} /\ req[t].op = "unload")
  PROVE  /\ req' \in [Threads -> Request] /\ Rest(t) /\ req'[t] = q
         /\ \A u \in Threads : WellFormed(req'[u]) /\ Placed(u)'
         /\ Alone'
<1>1. req' \in [Threads -> Request] /\ req'[t] = q /\ \A u \in Threads : u # t => req'[u] = req[u]
  BY DEF Shape, Typed
<1>2. q = NoRequest => q.op = "none" /\ q.h = NoBuf /\ q.pc = "idle"
  BY NoRequestIs
<1>3. req[t].op # "none"
  BY DEF Shape, WellFormed
<1>4. \A u \in Threads : WellFormed(req'[u])
  BY <1>1 DEF Shape
<1>5. ASSUME NEW u \in Threads PROVE Placed(u)'
  <2>1. \A v \in Threads : req'[v].h = req[v].h \/ req'[v].h = NoBuf
    BY <1>1, <1>2
  <2>2. req'[u].op = "none" \/ (req'[u].op = req[u].op /\ req'[u].h = req[u].h)
    BY <1>1, <1>2
  <2>3. req[u].op = "close" => req[u].h \in Handles
    BY WinDriverAssumption DEF Shape, Placed
  <2> QED
    BY <2>1, <2>2, <2>3, NoBufApart DEF Shape, Placed
<1>6. Alone'
  <2>1. \A u \in Threads : req'[u].op = req[u].op \/ (req'[u].pc = "idle" /\ req'[u].op = "none")
    BY <1>1, <1>2, NoRequestIs
  <2>2. \A u \in Threads : req[u].pc = "idle" => req'[u].pc = "idle"
    BY <1>1
  <2>3. CASE UNCHANGED loaded
    BY <2>1, <2>2, <2>3 DEF Shape, Alone, Quiet
  <2>4. CASE q = NoRequest /\ open = {} /\ req[t].op = "unload"
    <3>1. \A u \in Threads : req'[u].pc = "idle" /\ req'[u].op = "none"
      BY <1>1, <1>2, <2>4, NoRequestIs DEF Shape, Alone, WellFormed
    <3> QED
      BY <2>4, <3>1 DEF Alone, Quiet
  <2> QED
    BY <2>3, <2>4
<1> QED
  BY <1>1, <1>4, <1>5, <1>6 DEF Rest

LEMMA DoneStep ==
  ASSUME Shape, NEW t \in Threads, Done(t), req[t].pc # "idle", UNCHANGED <<open, loaded>>
  PROVE  /\ req' \in [Threads -> Request] /\ Rest(t) /\ req'[t] = NoRequest /\ req'[t].pc = "idle"
         /\ \A u \in Threads : WellFormed(req'[u]) /\ Placed(u)'
         /\ Alone'
<1>1. req' = [req EXCEPT ![t] = NoRequest]
  BY DEF Done
<1> QED
  BY <1>1, HandlerStep, NoRequestIs

GoesTo(r, l) ==
  \/ r.pc = "t2" /\ l = "t3"
  \/ r.pc = "account" /\ l = "register"
  \/ r.pc = "register" /\ l = "unlink"
  \/ r.pc = "map" /\ l \in {"own", "unlink"}
  \/ r.pc = "owned" /\ r.op = "free" /\ l = "unlink"
  \/ r.pc = "relabel" /\ l = "delist"
  \/ r.pc = "unlink" /\ l = "unregister"
  \/ r.pc = "unregister" /\ l = "release"

LEMMA GotoStep ==
  ASSUME Shape, NEW t \in Threads, NEW l \in Labels, Goto(t, l), GoesTo(req[t], l),
         UNCHANGED <<open, loaded>>
  PROVE  /\ req' \in [Threads -> Request] /\ Rest(t) /\ req'[t].pc = l /\ Keeps(t)
         /\ \A u \in Threads : WellFormed(req'[u]) /\ Placed(u)'
         /\ Alone'
<1>1. PICK r \in Request : r = req[t]
  BY DEF Shape, Typed
<1>2. WellFormed(r) /\ GoesTo(r, l)
  BY <1>1 DEF Shape
<1>3. PICK q : q = [r EXCEPT !.pc = l]
  OBVIOUS
<1>4. req' = [req EXCEPT ![t] = q]
  BY <1>1, <1>3 DEF Goto
<1>5. /\ q \in Request /\ q.pc = l /\ q.op = r.op /\ q.h = r.h /\ q.id = r.id /\ q.buf = r.buf
      /\ q.size = r.size /\ q.idx = r.idx /\ q.freed = r.freed
  BY <1>3 DEF Request
<1>6. WellFormed(q)
  BY <1>2, <1>5 DEF WellFormed, GoesTo
<1>7. r.pc # "idle"
  BY <1>2 DEF GoesTo
<1> QED
  BY <1>1, <1>4, <1>5, <1>6, <1>7, HandlerStep DEF Keeps, SameCall

(* A descriptor's flags, tier or id change *)
LEMMA AlterStep ==
  ASSUME Shape, NEW b \in Live, NEW e \in Buffer, heap' = [heap EXCEPT ![b] = e],
         e.size = heap[b].size, e.backing = heap[b].backing
  PROVE  heap' \in [Bufs -> Buffer \cup {NoBuf}] /\ Alters(b, e.tier, e.id, e.active)
<1>1. b \in Bufs /\ heap \in [Bufs -> Buffer \cup {NoBuf}] /\ heap[b] \in Buffer
  BY DEF Live, Shape, Typed
<1> QED
  BY <1>1 DEF Alters

LEMMA LiveIs ==
  ASSUME Shape, NEW b \in Live
  PROVE  b \in Bufs /\ heap[b] \in Buffer /\ heap[b].tier \in {2, 3} /\ heap[b].size \in Nat
         /\ heap[b].id \in Ids \cup {0}
<1>1. b \in Bufs /\ heap[b] \in Buffer
  BY DEF Live, Shape, Typed
<1> QED
  BY <1>1, WinDriverAssumption DEF Buffer, Ids

LEMMA MyCall ==
  ASSUME Shape, NEW t \in Threads
  PROVE  req[t] \in Request /\ WellFormed(req[t]) /\ Placed(t) /\ req \in [Threads -> Request]
BY DEF Shape, Typed

LEMMA TakeStep ==
  ASSUME Shape, NEW t \in Threads, NEW n \in Nat, NEW f \in BOOLEAN,
         NEW tier, NEW backing, Take(t, n, tier, backing, f), req[t].pc \in Starting,
         \/ tier = 2 /\ backing \in {"contiguous", "mdl"}
         \/ tier = 3 /\ backing = "paged"
         \/ tier = 2 /\ backing = "user" /\ req[t].op = "pin",
         UNCHANGED <<tableVars, poolVars, lru, fileVars>>
  PROVE  Takes(t) /\ Shape'
<1>1. PICK r \in Request : r = req[t] /\ WellFormed(r)
  BY MyCall
<1>2. PICK b \in Bufs : /\ b \notin Live
                        /\ heap' = [heap EXCEPT ![b] = NewBuffer(n, tier, backing, f)]
                        /\ req' = [req EXCEPT ![t].buf = b, ![t].pc = "account"]
  BY DEF Take
<1>3. PICK q : q = [r EXCEPT !.buf = b, !.pc = "account"]
  OBVIOUS
<1>4. req' = [req EXCEPT ![t] = q]
  BY <1>1, <1>2, <1>3
<1>5. /\ q \in Request /\ q.pc = "account" /\ q.op = r.op /\ q.h = r.h /\ q.id = r.id /\ q.buf = b
      /\ q.idx = r.idx
  BY <1>3 DEF Request
<1>6. WellFormed(q)
  BY <1>1, <1>5 DEF WellFormed
<1>7. /\ req' \in [Threads -> Request] /\ Rest(t) /\ req'[t] = q
      /\ \A u \in Threads : WellFormed(req'[u]) /\ Placed(u)'
      /\ Alone'
  BY <1>1, <1>4, <1>5, <1>6, HandlerStep DEF fileVars
<1>8. PICK e : e = NewBuffer(n, tier, backing, f)
  OBVIOUS
<1>9. e \in Buffer /\ e.id = 0 /\ ~e.active /\ e.tier = tier /\ e.backing = backing
  BY <1>8, WinDriverAssumption DEF NewBuffer, Buffer
<1>10. /\ heap \in [Bufs -> Buffer \cup {NoBuf}] /\ heap[b] = NoBuf /\ heap' = [heap EXCEPT ![b] = e]
       /\ b \in Bufs
  BY <1>2, <1>8 DEF Shape, Typed, Live
<1>11. /\ heap' \in [Bufs -> Buffer \cup {NoBuf}]
       /\ heap'[b] = e /\ \A c \in Bufs : c # b => heap'[c] = heap[c]
  BY <1>9, <1>10
<1>12. Takes(t)
  BY <1>1, <1>5, <1>7, <1>9, <1>10, <1>11 DEF Takes, Moves, SameCall
<1> QED
  BY <1>7, <1>11, <1>12 DEF Shape, Typed, tableVars, poolVars, fileVars

LEMMA KindsOfTries ==
  ASSUME Shape, NEW t \in Threads, TryTier2(t) \/ TryTier3(t) \/ TryPin(t)
  PROVE  StepKinds(t) /\ Shape'
<1>0. req[t] \in Request /\ WellFormed(req[t])
  BY MyCall
<1>1. req[t].pc \in Starting /\ UNCHANGED <<tableVars, poolVars, lru, fileVars>>
  BY DEF TryTier2, TryTier3, TryPin
<1>2. req[t].size \in Nat /\ RoundUp(req[t].size) \in Nat /\ req[t].frozen \in BOOLEAN
  BY <1>0, <1>1, RoundsToNat DEF Request
<1>3. CASE TryTier2(t)
  <2>1. CASE Goto(t, "t3") /\ UNCHANGED heap
    <3>1. GoesTo(req[t], "t3") /\ UNCHANGED <<open, loaded>> /\ req[t].pc = "t2"
      BY <1>1, <1>3 DEF GoesTo, TryTier2, fileVars
    <3>2. Tries(t)
      BY <1>1, <2>1, <3>1, GotoStep DEF Tries, Moves, others
    <3> QED
      BY <1>1, <2>1, <3>1, <3>2, GotoStep
         DEF StepKinds, Shape, Typed, tableVars, poolVars, fileVars
  <2>2. ASSUME NEW backing \in {"contiguous", "mdl"},
               Take(t, RoundUp(req[t].size), 2, backing, req[t].frozen)
        PROVE  StepKinds(t) /\ Shape'
    BY <1>1, <1>2, <2>2, TakeStep DEF StepKinds
  <2> QED
    BY <1>3, <2>1, <2>2 DEF TryTier2
<1>4. ASSUME Done(t), UNCHANGED heap, req[t].pc \in {"t3", "pin"} PROVE StepKinds(t) /\ Shape'
  <2>1. UNCHANGED <<open, loaded>>
    BY <1>1 DEF fileVars
  <2>2. GivesUp(t)
    BY <1>1, <1>4, <2>1, DoneStep DEF GivesUp, Moves, others
  <2> QED
    BY <1>1, <1>4, <2>1, <2>2, DoneStep DEF StepKinds, Shape, Typed, tableVars, poolVars, fileVars
<1>5. CASE TryTier3(t)
  <2>1. CASE Take(t, req[t].size, 3, "paged", FALSE)
    BY <1>1, <1>2, <2>1, TakeStep DEF StepKinds
  <2> QED
    BY <1>4, <1>5, <2>1 DEF TryTier3
<1>6. CASE TryPin(t)
  <2>1. req[t].op = "pin"
    BY <1>0, <1>6 DEF TryPin, WellFormed
  <2>2. CASE Take(t, req[t].size, 2, "user", req[t].frozen)
    BY <1>1, <1>2, <2>1, <2>2, TakeStep DEF StepKinds
  <2> QED
    BY <1>4, <1>6, <2>2 DEF TryPin
<1> QED
  BY <1>3, <1>5, <1>6

LEMMA KindsOfAccount ==
  ASSUME Shape, NEW t \in Threads, Account(t) \/ Map(t)
  PROVE  StepKinds(t) /\ Shape'
<1>1. /\ req[t].buf \in Live /\ heap[req[t].buf] \in Buffer /\ heap[req[t].buf].size \in Nat
      /\ heap[req[t].buf].tier \in {2, 3} /\ req[t].buf \in Bufs
  BY LiveIs DEF Account, Map, Reaches
<1>2. CASE Account(t)
  <2>1. /\ Goto(t, "register") /\ GoesTo(req[t], "register") /\ UNCHANGED <<open, loaded>>
        /\ req[t].pc = "account" /\ UNCHANGED <<heap, tableVars, fileVars>>
    BY <1>2 DEF Account, Reaches, GoesTo, fileVars
  <2>2. /\ req' \in [Threads -> Request] /\ Rest(t) /\ req'[t].pc = "register" /\ Keeps(t)
        /\ \A u \in Threads : WellFormed(req'[u]) /\ Placed(u)'
        /\ Alone'
    BY <2>1, GotoStep
  <2>3. Accounts(t)
    BY <1>1, <1>2, <2>1, <2>2 DEF Account, Accounts, Moves, Buf
  <2>4. pool' \in Int /\ nvme' \in Int /\ lru' \subseteq Bufs
    BY <1>1, <2>3 DEF Accounts, Shape, Typed
  <2> QED
    BY <2>1, <2>2, <2>3, <2>4 DEF StepKinds, Shape, Typed, tableVars, fileVars
<1>3. CASE Map(t)
  <2>1. PICK l \in {"own", "unlink"} : Goto(t, l)
    BY <1>3 DEF Map
  <2>2. /\ GoesTo(req[t], l) /\ UNCHANGED <<open, loaded>>
        /\ req[t].pc = "map" /\ UNCHANGED others
    BY <1>3 DEF Map, Reaches, GoesTo, fileVars, others
  <2>3. /\ req' \in [Threads -> Request] /\ Rest(t) /\ req'[t].pc = l /\ Keeps(t)
        /\ \A u \in Threads : WellFormed(req'[u]) /\ Placed(u)'
        /\ Alone'
    BY <2>1, <2>2, GotoStep
  <2>4. Maps(t)
    BY <1>1, <2>2, <2>3 DEF Maps, Moves
  <2> QED
    BY <2>2, <2>3, <2>4 DEF StepKinds, Shape, Typed, others, tableVars, poolVars, fileVars
<1> QED
  BY <1>2, <1>3

LEMMA KindsOfRegister ==
  ASSUME Shape, NEW t \in Threads, Register(t)
  PROVE  StepKinds(t) /\ Shape'
<1>1. req[t].pc = "register" /\ req[t].buf \in Live /\ UNCHANGED <<poolVars, lru, fileVars>>
  BY DEF Register, Reaches
<1>2. PICK r \in Request : r = req[t] /\ WellFormed(r)
  BY MyCall
<1>3. PICK b : b = req[t].buf
  OBVIOUS
<1>4. b \in Live /\ b \in Bufs /\ heap[b] \in Buffer
  BY <1>1, <1>3, LiveIs
<1>5. ASSUME NEW id \in Ids,
             nextId + 1 < MaxBufs => id = nextId + 1,
             table' = [table EXCEPT ![id] = b],
             heap' = [heap EXCEPT ![b].id = id, ![b].active = TRUE],
             nextId' = id, activeBufs' = activeBufs + 1,
             req' = [req EXCEPT ![t].id = id, ![t].pc = "map"]
      PROVE  StepKinds(t) /\ Shape'
  <2>1. PICK q : q = [r EXCEPT !.id = id, !.pc = "map"]
    OBVIOUS
  <2>2. req' = [req EXCEPT ![t] = q]
    BY <1>2, <1>5, <2>1
  <2>3. /\ q \in Request /\ q.pc = "map" /\ q.op = r.op /\ q.h = r.h /\ q.id = id /\ q.buf = r.buf
        /\ q.idx = r.idx
    BY <2>1 DEF Request
  <2>4. WellFormed(q)
    BY <1>1, <1>2, <2>3 DEF WellFormed
  <2>5. /\ req' \in [Threads -> Request] /\ Rest(t) /\ req'[t] = q
        /\ \A u \in Threads : WellFormed(req'[u]) /\ Placed(u)'
        /\ Alone'
    BY <1>1, <1>2, <2>2, <2>3, <2>4, HandlerStep DEF fileVars
  <2>6. PICK e : e = [heap[b] EXCEPT !.id = id, !.active = TRUE]
    OBVIOUS
  <2>7. /\ e \in Buffer /\ e.size = heap[b].size /\ e.backing = heap[b].backing
        /\ e.tier = heap[b].tier /\ e.id = id /\ e.active = TRUE
    <3>1. id \in 0 .. MaxBufs - 1
      BY IdsAreNat DEF Ids
    <3> QED
      BY <1>4, <2>6, <3>1 DEF Buffer
  <2>8. heap' = [heap EXCEPT ![b] = e]
    BY <1>5, <2>6
  <2>9. heap' \in [Bufs -> Buffer \cup {NoBuf}] /\ Alters(b, heap[b].tier, id, TRUE)
    BY <1>4, <2>7, <2>8, AlterStep
  <2>10. Registers(t)
    BY <1>1, <1>2, <1>3, <1>5, <2>3, <2>5, <2>9 DEF Registers, Moves
  <2>11. /\ nextId' \in 0 .. MaxBufs /\ activeBufs' \in Int /\ table' \in [Ids -> Bufs \cup {NoBuf}]
    BY <1>4, <1>5, IdsAreNat DEF Shape, Typed
  <2> QED
    BY <1>1, <2>5, <2>9, <2>10, <2>11 DEF StepKinds, Shape, Typed, poolVars, fileVars
<1>6. ASSUME nextId + 1 >= MaxBufs, nextId' = MaxBufs, Goto(t, "unlink"),
             UNCHANGED <<table, heap, activeBufs>>
      PROVE  StepKinds(t) /\ Shape'
  <2>1. GoesTo(req[t], "unlink") /\ UNCHANGED <<open, loaded>>
    BY <1>1 DEF GoesTo, fileVars
  <2>2. /\ req' \in [Threads -> Request] /\ Rest(t) /\ req'[t].pc = "unlink" /\ Keeps(t)
        /\ \A u \in Threads : WellFormed(req'[u]) /\ Placed(u)'
        /\ Alone'
    BY <1>6, <2>1, GotoStep
  <2>3. FindsFull(t)
    BY <1>1, <1>3, <1>4, <1>6, <2>2 DEF FindsFull, Moves
  <2>4. nextId' \in 0 .. MaxBufs
    BY <1>6, WinDriverAssumption
  <2> QED
    BY <1>1, <1>6, <2>2, <2>3, <2>4 DEF StepKinds, Shape, Typed, poolVars, fileVars
<1> QED
  BY <1>3, <1>5, <1>6 DEF Register

LEMMA KindsOfOwned ==
  ASSUME Shape, NEW t \in Threads, ReadOwned(t) \/ SetOwned(t) \/ ClearOwned(t)
  PROVE  StepKinds(t) /\ Shape'
<1>0. PICK r \in Request : r = req[t] /\ WellFormed(r)
  BY MyCall
<1>1. /\ r.pc \in {"own", "owned"} /\ heap[r.buf] \in Buffer /\ r.h \in Handles /\ r.id \in Ids
      /\ owned \in [Handles -> SUBSET Ids] /\ ownedCount \in [Handles -> Int]
      /\ held \in [Handles -> SUBSET Ids] /\ \A h \in Handles \ open : held[h] = {}
  <2>1. r.pc \in {"own", "owned"} /\ heap[r.buf] \in Buffer
    BY <1>0, LiveIs DEF ReadOwned, SetOwned, ClearOwned, Reaches
  <2>2. r.h \in Handles /\ r.id \in Ids
    BY <1>0, <2>1, MyCall, WinDriverAssumption DEF Placed, WellFormed
  <2> QED
    BY <2>1, <2>2 DEF Shape, Typed
<1>2. CASE ReadOwned(t)
  <2>1. r.pc = "own" /\ UNCHANGED others
    BY <1>0, <1>2 DEF ReadOwned, Reaches, others
  <2>2. PICK q : q = [r EXCEPT !.word = owned[r.h], !.pc = "owned"]
    OBVIOUS
  <2>3. req' = [req EXCEPT ![t] = q]
    BY <1>0, <1>2, <2>2 DEF ReadOwned
  <2>4. /\ q \in Request /\ q.pc = "owned" /\ q.op = r.op /\ q.h = r.h /\ q.id = r.id /\ q.buf = r.buf
        /\ q.idx = r.idx /\ q.size = r.size /\ q.freed = r.freed /\ q.word = owned[r.h]
    BY <1>1, <2>2 DEF Request
  <2>5. WellFormed(q)
    BY <1>0, <2>1, <2>4 DEF WellFormed
  <2>6. /\ req' \in [Threads -> Request] /\ Rest(t) /\ req'[t] = q
        /\ \A u \in Threads : WellFormed(req'[u]) /\ Placed(u)'
        /\ Alone'
    BY <1>0, <2>1, <2>3, <2>4, <2>5, HandlerStep DEF others, fileVars
  <2>7. ReadsOwned(t)
    BY <1>0, <1>1, <2>1, <2>4, <2>6 DEF ReadsOwned, Moves, Keeps, SameCall
  <2> QED
    BY <2>1, <2>6, <2>7 DEF StepKinds, Shape, Typed, others, tableVars, poolVars, fileVars
<1>3. CASE SetOwned(t)
  <2>1. r.pc = "owned" /\ r.op \in Allocs /\ Done(t) /\ UNCHANGED <<open, loaded>>
    BY <1>0, <1>3 DEF SetOwned, Reaches
  <2>2. /\ req' \in [Threads -> Request] /\ Rest(t) /\ req'[t].pc = "idle"
        /\ \A u \in Threads : WellFormed(req'[u]) /\ Placed(u)'
        /\ Alone'
    BY <1>0, <2>1, DoneStep
  <2>3. SetsOwned(t)
    BY <1>0, <1>1, <1>3, <2>1, <2>2 DEF SetOwned, SetsOwned, Moves
  <2>4. r.h \in open /\ r.word \in SUBSET Ids
    BY <1>0, <2>1, MyCall DEF Placed, Request
  <2>5. /\ owned' \in [Handles -> SUBSET Ids] /\ ownedCount' \in [Handles -> Int]
        /\ held' \in [Handles -> SUBSET Ids] /\ \A h \in Handles \ open : held'[h] = {}
    <3>1. /\ owned' = [owned EXCEPT ![r.h] = r.word \cup {r.id}]
          /\ ownedCount' = [ownedCount EXCEPT ![r.h] = @ + 1]
          /\ held' = [held EXCEPT ![r.h] = @ \cup {r.id}]
      BY <1>0, <2>3 DEF SetsOwned
    <3>2. r.word \cup {r.id} \in SUBSET Ids /\ held[r.h] \cup {r.id} \in SUBSET Ids
      BY <1>1, <2>4
    <3>3. ownedCount[r.h] + 1 \in Int
      BY <1>1
    <3> QED
      BY <1>1, <2>4, <3>1, <3>2, <3>3
  <2> QED
    BY <2>2, <2>3, <2>5 DEF SetsOwned, StepKinds, Shape, Typed, tableVars, poolVars
<1>4. CASE ClearOwned(t)
  <2>1. r.pc = "owned" /\ r.op = "free" /\ Goto(t, "unlink") /\ UNCHANGED <<open, loaded>>
    BY <1>0, <1>4 DEF ClearOwned, Reaches
  <2>2. /\ req' \in [Threads -> Request] /\ Rest(t) /\ req'[t].pc = "unlink" /\ Keeps(t)
        /\ \A u \in Threads : WellFormed(req'[u]) /\ Placed(u)'
        /\ Alone'
    BY <1>0, <2>1, GotoStep DEF GoesTo
  <2>3. ClearsOwned(t)
    BY <1>0, <1>1, <1>4, <2>1, <2>2 DEF ClearOwned, ClearsOwned, Moves
  <2>5. owned' \in [Handles -> SUBSET Ids] /\ ownedCount' \in [Handles -> Int]
    <3>1. /\ owned' = [owned EXCEPT ![r.h] = r.word \ {r.id}]
          /\ ownedCount' = [ownedCount EXCEPT ![r.h] = @ - 1]
      BY <1>0, <2>3 DEF ClearsOwned
    <3>2. r.word \ {r.id} \in SUBSET Ids
      BY DEF Request
    <3>3. ownedCount[r.h] - 1 \in Int
      BY <1>1
    <3> QED
      BY <1>1, <3>1, <3>2, <3>3
  <2> QED
    BY <2>2, <2>3, <2>5 DEF ClearsOwned, StepKinds, Shape, Typed, tableVars, poolVars
<1> QED
  BY <1>2, <1>3, <1>4

LEMMA GiveBackStep ==
  ASSUME Shape, NEW t \in Threads, GiveBack(t), req[t].op \in Named, UNCHANGED open
  PROVE  held' \in [Handles -> SUBSET Ids] /\ \A h \in Handles \ open' : held'[h] = {}
<1>1. PICK r \in Request : r = req[t] /\ WellFormed(r)
  BY MyCall
<1>2. /\ r.h \in open /\ r.h \in Handles /\ r.id \in Ids /\ held \in [Handles -> SUBSET Ids]
      /\ \A h \in Handles \ open : held[h] = {}
  BY <1>1, MyCall, WinDriverAssumption DEF Placed, WellFormed, Shape, Typed
<1>3. held' = [held EXCEPT ![r.h] = @ \cup {r.id}] /\ held[r.h] \cup {r.id} \in SUBSET Ids
  BY <1>1, <1>2 DEF GiveBack
<1> QED
  BY <1>2, <1>3

LEMMA KindsOfLookup ==
  ASSUME Shape, NEW t \in Threads, Lookup(t)
  PROVE  StepKinds(t) /\ Shape'
<1>0. PICK r \in Request : r = req[t] /\ WellFormed(r)
  BY MyCall
<1>1. r.pc = "lookup" /\ r.op \in Named /\ r.id \in Ids /\ UNCHANGED others
  BY <1>0 DEF Lookup, WellFormed, others
<1>2. UNCHANGED <<open, loaded>>
  BY <1>1 DEF others, fileVars
<1>3. CASE Done(t)
  BY <1>0, <1>1, <1>2, <1>3, DoneStep
     DEF GivesUp, Moves, StepKinds, Shape, Typed, others, tableVars, poolVars, fileVars
<1>4. CASE ~Done(t)
  <2>1. PICK b \in Bufs : b = table[r.id] /\ Active(table[r.id])
    BY <1>0, <1>1, <1>4 DEF Lookup, Active, Shape, Typed
  <2>2. PICK l \in {"own", "advise", "relabel"} :
          /\ l = CASE r.op = "free" -> "own" [] r.op = "madvise" -> "advise" [] r.op = "evict" -> "relabel"
    BY <1>1
  <2>3. PICK q : q = [r EXCEPT !.buf = b, !.pc = l]
    OBVIOUS
  <2>4. req' = [req EXCEPT ![t] = q]
    BY <1>0, <1>4, <2>1, <2>2, <2>3 DEF Lookup
  <2>5. /\ q \in Request /\ q.pc = l /\ q.op = r.op /\ q.h = r.h /\ q.id = r.id /\ q.buf = b
        /\ q.idx = r.idx
    BY <2>3 DEF Request
  <2>6. WellFormed(q)
    BY <1>0, <1>1, <2>2, <2>5 DEF WellFormed
  <2>7. /\ req' \in [Threads -> Request] /\ Rest(t) /\ req'[t] = q
        /\ \A u \in Threads : WellFormed(req'[u]) /\ Placed(u)'
        /\ Alone'
    BY <1>0, <1>1, <1>2, <2>4, <2>5, <2>6, HandlerStep
  <2>8. Finds(t)
    BY <1>0, <1>1, <2>1, <2>2, <2>5, <2>7 DEF Finds, Moves, SameCall
  <2> QED
    BY <1>1, <2>7, <2>8 DEF StepKinds, Shape, Typed, others, tableVars, poolVars, fileVars
<1> QED
  BY <1>3, <1>4

LEMMA KindsOfUses ==
  ASSUME Shape, NEW t \in Threads, Advise(t) \/ Relabel(t) \/ Delist(t)
  PROVE  StepKinds(t) /\ Shape'
<1>0. PICK r \in Request : r = req[t] /\ WellFormed(r)
  BY MyCall
<1>1. /\ r.pc \in {"advise", "relabel", "delist"} /\ r.op \in Named
      /\ UNCHANGED <<tableVars, poolVars, open, owned, ownedCount, loaded>>
  BY <1>0 DEF Advise, Relabel, Delist, Reaches, WellFormed
<1>2. PICK b : b = req[t].buf
  OBVIOUS
<1>3. b \in Live /\ b \in Bufs /\ heap[b] \in Buffer
  BY <1>2, LiveIs DEF Advise, Relabel, Delist, Reaches
<1>4. ASSUME Done(t), GiveBack(t)
      PROVE  /\ req' \in [Threads -> Request] /\ Rest(t) /\ req'[t].pc = "idle"
             /\ \A u \in Threads : WellFormed(req'[u]) /\ Placed(u)'
             /\ Alone'
             /\ held' \in [Handles -> SUBSET Ids] /\ \A h \in Handles \ open' : held'[h] = {}
  BY <1>0, <1>1, <1>4, DoneStep, GiveBackStep
<1>5. CASE Advise(t)
  <2>1. CASE lru' = lru \cup {b} /\ UNCHANGED heap
    <3>1. lru' = lru \cup {b} /\ lru' \subseteq Bufs
      BY <1>3, <2>1 DEF Shape, Typed
    <3>2. Advises(t)
      BY <1>0, <1>1, <1>2, <1>3, <1>4, <1>5, <2>1, <3>1 DEF Advise, Advises, Moves, Reaches
    <3> QED
      BY <1>1, <1>4, <1>5, <2>1, <3>1, <3>2
         DEF Advise, StepKinds, Shape, Typed, tableVars, poolVars
  <2>2. CASE heap' = [heap EXCEPT ![b].frozen = TRUE] /\ UNCHANGED lru
    <3>1. PICK e : e = [heap[b] EXCEPT !.frozen = TRUE]
      OBVIOUS
    <3>2. /\ e \in Buffer /\ e.size = heap[b].size /\ e.backing = heap[b].backing
          /\ e.tier = heap[b].tier /\ e.id = heap[b].id /\ e.active = heap[b].active
      BY <1>3, <3>1 DEF Buffer
    <3>3. heap' = [heap EXCEPT ![b] = e] /\ UNCHANGED lru
      BY <2>2, <3>1
    <3>4. heap' \in [Bufs -> Buffer \cup {NoBuf}] /\ Alters(b, heap[b].tier, heap[b].id, heap[b].active)
      BY <1>3, <3>2, <3>3, AlterStep
    <3>5. Advises(t)
      BY <1>0, <1>1, <1>2, <1>4, <1>5, <3>3, <3>4 DEF Advise, Advises, Moves, Reaches
    <3> QED
      BY <1>1, <1>4, <1>5, <3>3, <3>4, <3>5
         DEF Advise, StepKinds, Shape, Typed, tableVars, poolVars
  <2> QED
    BY <1>2, <1>5, <2>1, <2>2 DEF Advise
<1>6. CASE Relabel(t)
  <2>0. r.pc = "relabel" /\ UNCHANGED lru
    BY <1>0, <1>6 DEF Relabel, Reaches
  <2>1. CASE Goto(t, "delist") /\ heap' = [heap EXCEPT ![req[t].buf].tier = 3] /\ UNCHANGED held
    <3>1. PICK e : e = [heap[b] EXCEPT !.tier = 3]
      OBVIOUS
    <3>2. /\ e \in Buffer /\ e.size = heap[b].size /\ e.backing = heap[b].backing
          /\ e.tier = 3 /\ e.id = heap[b].id /\ e.active = heap[b].active
      BY <1>3, <3>1 DEF Buffer
    <3>3. heap' = [heap EXCEPT ![b] = e]
      BY <1>2, <2>1, <3>1
    <3>4. heap' \in [Bufs -> Buffer \cup {NoBuf}] /\ Alters(b, 3, heap[b].id, heap[b].active)
      BY <1>3, <3>2, <3>3, AlterStep
    <3>5. GoesTo(req[t], "delist")
      BY <1>0, <2>0 DEF GoesTo
    <3>6. /\ req' \in [Threads -> Request] /\ Rest(t) /\ req'[t].pc = "delist" /\ Keeps(t)
          /\ \A u \in Threads : WellFormed(req'[u]) /\ Placed(u)'
          /\ Alone'
      BY <1>1, <2>1, <3>5, GotoStep
    <3>7. Relabels(t)
      BY <1>0, <1>1, <1>2, <2>0, <2>1, <3>4, <3>6 DEF Relabels, Moves, fileVars
    <3> QED
      BY <1>1, <2>0, <2>1, <3>4, <3>6, <3>7 DEF StepKinds, Shape, Typed, tableVars, poolVars
  <2>2. CASE Done(t) /\ GiveBack(t) /\ UNCHANGED heap
    <3>1. Leaves(t)
      BY <1>0, <1>1, <1>2, <1>3, <1>4, <2>0, <2>2 DEF Leaves, Moves
    <3> QED
      BY <1>1, <1>4, <2>0, <2>2, <3>1 DEF StepKinds, Shape, Typed, tableVars, poolVars
  <2> QED
    BY <1>6, <2>1, <2>2 DEF Relabel
<1>7. CASE Delist(t)
  <2>1. Delists(t)
    BY <1>0, <1>1, <1>2, <1>3, <1>4, <1>7 DEF Delist, Delists, Moves, Reaches
  <2> QED
    BY <1>1, <1>4, <1>7, <2>1 DEF Delist, StepKinds, Shape, Typed, tableVars, poolVars
<1> QED
  BY <1>5, <1>6, <1>7

LEMMA KindsOfFree ==
  ASSUME Shape, NEW t \in Threads, Unlink(t) \/ Unregister(t) \/ Release(t)
  PROVE  StepKinds(t) /\ Shape'
<1>0. PICK r \in Request : r = req[t] /\ WellFormed(r)
  BY MyCall
<1>1. r.pc \in Freeing /\ UNCHANGED <<nextId, fileVars>> /\ UNCHANGED <<open, loaded>>
  BY <1>0 DEF Unlink, Unregister, Release, Reaches, tableVars, fileVars
<1>2. PICK b : b = req[t].buf
  OBVIOUS
<1>3. /\ b \in Live /\ b \in Bufs /\ heap[b] \in Buffer /\ heap[b].size \in Nat
      /\ heap[b].tier \in {2, 3} /\ heap[b].id \in Ids \cup {0}
  BY <1>2, LiveIs DEF Unlink, Unregister, Release, Reaches
<1>4. ASSUME NEW l \in Labels, Goto(t, l), GoesTo(req[t], l)
      PROVE  /\ req' \in [Threads -> Request] /\ Rest(t) /\ req'[t].pc = l /\ Keeps(t)
             /\ \A u \in Threads : WellFormed(req'[u]) /\ Placed(u)'
             /\ Alone'
  BY <1>1, <1>4, GotoStep
<1>5. CASE Unlink(t)
  <2>1. /\ Goto(t, "unregister") /\ GoesTo(req[t], "unregister") /\ req[t].pc = "unlink"
        /\ heap' = [heap EXCEPT ![b].active = FALSE] /\ lru' = lru \ {b}
        /\ UNCHANGED <<tableVars, poolVars, fileVars>>
    BY <1>2, <1>5 DEF Unlink, Unlinked, Reaches, GoesTo
  <2>2. /\ req' \in [Threads -> Request] /\ Rest(t) /\ req'[t].pc = "unregister" /\ Keeps(t)
        /\ \A u \in Threads : WellFormed(req'[u]) /\ Placed(u)'
        /\ Alone'
    BY <1>4, <2>1
  <2>3. PICK e : e = [heap[b] EXCEPT !.active = FALSE]
    OBVIOUS
  <2>4. /\ e \in Buffer /\ e.size = heap[b].size /\ e.backing = heap[b].backing
        /\ e.tier = heap[b].tier /\ e.id = heap[b].id /\ e.active = FALSE
    BY <1>3, <2>3 DEF Buffer
  <2>5. heap' = [heap EXCEPT ![b] = e]
    BY <2>1, <2>3
  <2>6. heap' \in [Bufs -> Buffer \cup {NoBuf}] /\ Alters(b, heap[b].tier, heap[b].id, FALSE)
    BY <1>3, <2>4, <2>5, AlterStep
  <2>7. Unlinks(t)
    BY <1>2, <2>1, <2>2, <2>6 DEF Unlinks, Moves
  <2>8. lru' \subseteq Bufs
    BY <2>1 DEF Shape, Typed
  <2> QED
    BY <2>1, <2>2, <2>6, <2>7, <2>8 DEF StepKinds, Shape, Typed, tableVars, poolVars, fileVars
<1>6. CASE Unregister(t)
  <2>1. /\ Goto(t, "release") /\ GoesTo(req[t], "release") /\ req[t].pc = "unregister"
        /\ UNCHANGED <<heap, nextId, poolVars, lru, fileVars>>
    BY <1>6 DEF Unregister, Reaches, GoesTo
  <2>2. /\ req' \in [Threads -> Request] /\ Rest(t) /\ req'[t].pc = "release" /\ Keeps(t)
        /\ \A u \in Threads : WellFormed(req'[u]) /\ Placed(u)'
        /\ Alone'
    BY <1>4, <2>1
  <2>3. heap[b].id > 0 <=> heap[b].id \in Ids
    BY <1>3, IdsAreNat
  <2>4. Unregisters(t)
    BY <1>2, <1>3, <1>6, <2>1, <2>2, <2>3 DEF Unregister, Unregisters, Moves, Buf
  <2>5. table' \in [Ids -> Bufs \cup {NoBuf}] /\ activeBufs' \in Int
    BY <2>4 DEF Unregisters, Shape, Typed
  <2> QED
    BY <2>1, <2>2, <2>4, <2>5 DEF StepKinds, Shape, Typed, poolVars, fileVars
<1>7. CASE Release(t)
  <2>1. req[t].pc = "release" /\ heap' = [heap EXCEPT ![b] = NoBuf] /\ UNCHANGED <<tableVars, lru, fileVars>>
    BY <1>2, <1>7 DEF Release, Reaches
  <2>2. /\ heap' \in [Bufs -> Buffer \cup {NoBuf}]
        /\ heap'[b] = NoBuf /\ \A c \in Bufs : c # b => heap'[c] = heap[c]
    BY <1>3, <2>1 DEF Shape, Typed
  <2>3. /\ \/ heap[b].tier = 3 /\ nvme' = nvme - heap[b].size /\ UNCHANGED pool
           \/ heap[b].tier = 2 /\ pool' = pool - heap[b].size /\ UNCHANGED nvme
    BY <1>2, <1>3, <1>7 DEF Release, Buf
  <2>4. pool' \in Int /\ nvme' \in Int
    BY <1>3, <2>3 DEF Shape, Typed
  <2>5. CASE req[t].op \in Scans
    <3>1. PICK q : q = [r EXCEPT !.buf = NoBuf, !.pc = "scan"]
      OBVIOUS
    <3>2. req' = [req EXCEPT ![t] = q]
      BY <1>0, <1>7, <2>5, <3>1 DEF Release
    <3>3. /\ q \in Request /\ q.pc = "scan" /\ q.op = r.op /\ q.h = r.h /\ q.id = r.id
          /\ q.buf = NoBuf /\ q.idx = r.idx /\ q.freed = r.freed
      BY <3>1 DEF Request
    <3>4. WellFormed(q)
      BY <1>0, <2>1, <2>5, <3>3, NoBufApart DEF WellFormed
    <3>5. /\ req' \in [Threads -> Request] /\ Rest(t) /\ req'[t] = q
          /\ \A u \in Threads : WellFormed(req'[u]) /\ Placed(u)'
          /\ Alone'
      BY <1>0, <1>1, <3>2, <3>3, <3>4, HandlerStep
    <3>6. Releases(t)
      BY <1>0, <1>2, <1>3, <2>1, <2>2, <2>3, <2>5, <3>3, <3>5 DEF Releases, Moves, SameCall
    <3> QED
      BY <2>1, <2>2, <2>4, <3>5, <3>6 DEF StepKinds, Shape, Typed, tableVars, fileVars
  <2>6. CASE req[t].op \notin Scans
    <3>1. Done(t)
      BY <1>7, <2>6 DEF Release
    <3>2. /\ req' \in [Threads -> Request] /\ Rest(t) /\ req'[t].pc = "idle"
          /\ \A u \in Threads : WellFormed(req'[u]) /\ Placed(u)'
          /\ Alone'
      BY <1>1, <2>1, <3>1, DoneStep
    <3>3. Releases(t)
      BY <1>2, <1>3, <2>1, <2>2, <2>3, <2>6, <3>2 DEF Releases, Moves
    <3> QED
      BY <2>1, <2>2, <2>4, <3>2, <3>3 DEF StepKinds, Shape, Typed, tableVars, fileVars
  <2> QED
    BY <2>5, <2>6
<1> QED
  BY <1>5, <1>6, <1>7

(* A scan goes on to the next slot *)
LEMMA NextSlot ==
  ASSUME Shape, NEW t \in Threads, req[t].pc = "scan", req[t].idx \in Ids,
         NEW q \in Request, req' = [req EXCEPT ![t] = q], UNCHANGED <<open, loaded>>,
         q.op = req[t].op, q.h = req[t].h, q.id = req[t].id, q.idx = req[t].idx + 1,
         \/ q.pc = "scan" /\ q.buf = NoBuf
         \/ q.pc = "unlink" /\ q.buf \in Bufs
  PROVE  /\ req' \in [Threads -> Request] /\ Rest(t) /\ SameCall(t) /\ req'[t] = q
         /\ \A u \in Threads : WellFormed(req'[u]) /\ Placed(u)'
         /\ Alone'
<1>1. WellFormed(req[t]) /\ q.idx \in 1 .. MaxBufs
  BY MyCall, IdsAreNat
<1>2. WellFormed(q)
  BY <1>1, NoBufApart DEF WellFormed
<1> QED
  BY <1>2, HandlerStep DEF SameCall

LEMMA KindsOfScans ==
  ASSUME Shape, NEW t \in Threads,
         ResetEntry(t) \/ UnloadEntry(t) \/ CleanupEntry(t) \/ SkipEntry(t)
  PROVE  StepKinds(t) /\ Shape'
<1>0. PICK r \in Request : r = req[t] /\ WellFormed(r)
  BY MyCall
<1>1. /\ r.pc = "scan" /\ r.idx < MaxBufs /\ r.buf \notin Bufs /\ r.buf = NoBuf
      /\ r.idx \in Nat /\ r.freed \in Nat
  <2>1. r.pc = "scan" /\ r.idx < MaxBufs
    BY <1>0 DEF ResetEntry, UnloadEntry, CleanupEntry, SkipEntry, More
  <2>2. r.buf \notin Bufs /\ r.buf = NoBuf
    BY <1>0, <2>1 DEF WellFormed, Request
  <2> QED
    BY <2>1, <2>2, WinDriverAssumption DEF Request
<1>2. UNCHANGED <<nextId, poolVars, lru, fileVars>> /\ UNCHANGED <<open, loaded>>
  BY DEF ResetEntry, UnloadEntry, CleanupEntry, SkipEntry, tableVars, fileVars
<1>3. PICK b : b = table[r.idx]
  OBVIOUS
<1>4. req \in [Threads -> Request] /\ r.idx \in Ids /\ r.idx + 1 \in 0 .. MaxBufs /\ (Active(b) => b \in Bufs)
  <2>1. r.idx \in 1 .. MaxBufs
    BY <1>0, <1>1 DEF WellFormed
  <2>2. r.idx \in Ids /\ r.idx + 1 \in 0 .. MaxBufs
    BY <1>1, <2>1, WinDriverAssumption DEF Ids
  <2>3. table[r.idx] \in Bufs \cup {NoBuf}
    BY <2>2 DEF Shape, Typed
  <2> QED
    BY <1>3, <2>2, <2>3 DEF Shape, Typed, Active
<1>5. ASSUME Active(b), NEW n \in Nat, req' = [Found(t) EXCEPT ![t].freed = @ + n]
      PROVE  /\ req' \in [Threads -> Request] /\ Rest(t) /\ SameCall(t)
             /\ req'[t].pc = "unlink" /\ req'[t].buf = b /\ req'[t].idx = r.idx + 1
             /\ req'[t].freed = r.freed + n
             /\ \A u \in Threads : WellFormed(req'[u]) /\ Placed(u)'
             /\ Alone'
  <2>1. PICK q : q = [r EXCEPT !.idx = @ + 1, !.buf = b, !.pc = "unlink", !.freed = @ + n]
    OBVIOUS
  <2>2. req' = [req EXCEPT ![t] = q]
    BY <1>0, <1>3, <1>4, <1>5, <2>1 DEF Found, Request
  <2>3. /\ q \in Request /\ q.pc = "unlink" /\ q.op = r.op /\ q.h = r.h /\ q.id = r.id /\ q.buf = b
        /\ q.idx = r.idx + 1 /\ q.freed = r.freed + n
    <3>1. PICK i \in 0 .. MaxBufs, k \in Nat : i = r.idx + 1 /\ k = r.freed + n
      BY <1>1, <1>4
    <3> QED
      BY <1>1, <1>4, <3>1, <1>5, <2>1 DEF Request
  <2> QED
    BY <1>0, <1>1, <1>2, <1>4, <1>5, <2>2, <2>3, NextSlot
<1>6. ASSUME NEW n \in Nat, req' = [Next1(t) EXCEPT ![t].freed = @ + n]
      PROVE  /\ req' \in [Threads -> Request] /\ Rest(t) /\ SameCall(t)
             /\ req'[t].pc = "scan" /\ req'[t].idx = r.idx + 1 /\ req'[t].freed = r.freed + n
             /\ \A u \in Threads : WellFormed(req'[u]) /\ Placed(u)'
             /\ Alone'
  <2>1. PICK q : q = [r EXCEPT !.idx = @ + 1, !.freed = @ + n]
    OBVIOUS
  <2>2. req' = [req EXCEPT ![t] = q]
    BY <1>0, <1>1, <1>4, <1>6, <2>1 DEF Next1, Request
  <2>3. /\ q \in Request /\ q.pc = "scan" /\ q.op = r.op /\ q.h = r.h /\ q.id = r.id /\ q.buf = NoBuf
        /\ q.idx = r.idx + 1 /\ q.freed = r.freed + n
    <3>1. PICK i \in 0 .. MaxBufs, k \in Nat : i = r.idx + 1 /\ k = r.freed + n
      BY <1>1, <1>4
    <3> QED
      BY <1>1, <1>4, <3>1, <1>6, <2>1 DEF Request
  <2> QED
    BY <1>0, <1>1, <1>2, <1>4, <2>2, <2>3, NextSlot
<1>7. ASSUME NEW f, f \in {Found(t), Next1(t)}
      PROVE  f = [f EXCEPT ![t].freed = @ + 0]
  BY <1>0, <1>1, <1>4, <1>7 DEF Found, Next1, Request
<1>8. CASE ResetEntry(t)
  <2>1. /\ Active(b) /\ r.op = "reset" /\ req' = Found(t) /\ heap' = WithoutId(b)
        /\ table' = [table EXCEPT ![r.idx] = NoBuf] /\ activeBufs' = activeBufs - 1
    BY <1>0, <1>3, <1>8 DEF ResetEntry
  <2>2. heap' \in [Bufs -> Buffer \cup {NoBuf}]
    <3>1. heap \in [Bufs -> Buffer \cup {NoBuf}]
      BY DEF Shape, Typed
    <3>2. CASE b \in Live
      <4>1. [heap[b] EXCEPT !.id = 0] \in Buffer
        BY <3>2, LiveIs, WinDriverAssumption DEF Buffer
      <4> QED
        BY <2>1, <3>1, <3>2, <4>1 DEF WithoutId
    <3> QED
      BY <2>1, <3>1, <3>2 DEF WithoutId
  <2>3. ResetsEntry(t)
    BY <1>0, <1>1, <1>2, <1>3, <1>4, <1>5, <1>7, <2>1 DEF ResetsEntry, Comes, Moves
  <2>4. table' \in [Ids -> Bufs \cup {NoBuf}] /\ activeBufs' \in Int
    <3>1. table \in [Ids -> Bufs \cup {NoBuf}] /\ activeBufs \in Int
      BY DEF Shape, Typed
    <3>2. table' = [table EXCEPT ![r.idx] = NoBuf]
      BY <2>1
    <3>3. activeBufs' = activeBufs - 1
      BY <2>1
    <3>4. table' \in [Ids -> Bufs \cup {NoBuf}]
      BY <3>1, <3>2
    <3> QED
      BY <3>1, <3>3, <3>4
  <2> QED
    BY <1>2, <1>5, <1>7, <2>1, <2>2, <2>3, <2>4 DEF StepKinds, Shape, Typed, poolVars, fileVars
<1>9. CASE UnloadEntry(t)
  <2>1. /\ Active(b) /\ r.op = "unload" /\ req' = Found(t) /\ UNCHANGED <<heap, activeBufs>>
        /\ table' = [table EXCEPT ![r.idx] = NoBuf]
    BY <1>0, <1>3, <1>9 DEF UnloadEntry
  <2>3. UnloadsEntry(t)
    BY <1>0, <1>1, <1>2, <1>3, <1>4, <1>5, <1>7, <2>1 DEF UnloadsEntry, Comes, Moves
  <2>4. table' \in [Ids -> Bufs \cup {NoBuf}]
    BY <2>1 DEF Shape, Typed
  <2> QED
    BY <1>2, <1>5, <1>7, <2>1, <2>3, <2>4 DEF StepKinds, Shape, Typed, poolVars, fileVars
<1>10. CASE CleanupEntry(t)
  <2>1. /\ r.op = "close" /\ r.idx \in owned[r.h] /\ UNCHANGED others
        /\ Active(b) => req' = [Found(t) EXCEPT ![t].freed = @ + 1]
        /\ ~Active(b) => req' = [Next1(t) EXCEPT ![t].freed = @ + 1]
    BY <1>0, <1>3, <1>10 DEF CleanupEntry, others
  <2>2. CASE Active(b)
    <3>1. CleansEntry(t)
      BY <1>0, <1>1, <1>3, <1>4, <1>5, <2>1, <2>2 DEF CleansEntry, Comes, Moves
    <3> QED
      BY <1>5, <2>1, <2>2, <3>1 DEF StepKinds, Shape, Typed, others, tableVars, poolVars, fileVars
  <2>3. CASE ~Active(b)
    <3>1. Skips(t)
      BY <1>0, <1>1, <1>3, <1>4, <1>6, <2>1, <2>3 DEF Skips, Moves
    <3> QED
      BY <1>6, <2>1, <2>3, <3>1 DEF StepKinds, Shape, Typed, others, tableVars, poolVars, fileVars
  <2> QED
    BY <2>2, <2>3
<1>11. CASE SkipEntry(t)
  <2>1. /\ req' = Next1(t) /\ UNCHANGED others
        /\ r.op = "close" => r.idx \notin owned[r.h]
        /\ r.op # "close" => ~Active(b)
    BY <1>0, <1>3, <1>11 DEF SkipEntry, others
  <2>3. /\ req' \in [Threads -> Request] /\ Rest(t) /\ SameCall(t)
        /\ req'[t].pc = "scan" /\ req'[t].idx = r.idx + 1 /\ req'[t].freed = r.freed + 0
        /\ \A u \in Threads : WellFormed(req'[u]) /\ Placed(u)'
        /\ Alone'
    BY <1>6, <1>7, <2>1
  <2>2. Skips(t)
    BY <1>0, <1>1, <1>3, <1>4, <2>1, <2>3 DEF Skips, Moves
  <2> QED
    BY <2>1, <2>2, <2>3 DEF StepKinds, Shape, Typed, others, tableVars, poolVars, fileVars
<1> QED
  BY <1>8, <1>9, <1>10, <1>11

LEMMA KindsOfScanEnd ==
  ASSUME Shape, NEW t \in Threads, ScanEnds(t)
  PROVE  StepKinds(t) /\ Shape'
<1>0. PICK r \in Request : r = req[t] /\ WellFormed(r)
  BY MyCall
<1>1. /\ r.pc = "scan" /\ r.op \in Scans /\ Done(t) /\ loaded' = (r.op # "unload")
      /\ UNCHANGED <<heap, tableVars, poolVars, lru, open, owned, ownedCount, held>>
  BY <1>0 DEF ScanEnds, WellFormed
<1>2. loaded
  BY <1>0, <1>1 DEF Shape, Alone, Quiet
<1>3. r.op = "unload" => open = {}
  BY <1>0 DEF Shape, Alone
<1>4. /\ req' \in [Threads -> Request] /\ Rest(t) /\ req'[t] = NoRequest
      /\ \A u \in Threads : WellFormed(req'[u]) /\ Placed(u)'
      /\ Alone'
  BY <1>0, <1>1, <1>2, <1>3, HandlerStep, NoRequestIs DEF Done, Shape, Typed
<1>5. Ends(t)
  BY <1>0, <1>1, <1>4, NoRequestIs DEF Ends, ScanEnds, Moves
<1> QED
  BY <1>1, <1>4, <1>5 DEF StepKinds, Shape, Typed, tableVars, poolVars

LEMMA HandlerKinds ==
  ASSUME Shape, NEW t \in Threads, Handler(t)
  PROVE  StepKinds(t) /\ Shape'
BY KindsOfTries, KindsOfAccount, KindsOfRegister, KindsOfOwned, KindsOfLookup, KindsOfUses,
   KindsOfFree, KindsOfScans, KindsOfScanEnd DEF Handler

(* What a client asks for *)
AsksMemory(t) ==
  /\ Moves(t, {"idle"}, {"t2", "pin"}) /\ Serving /\ NoReset /\ nextId < IdLimit
  /\ req'[t].h \in open /\ UNCHANGED others

AsksBuffer(t) ==
  /\ Moves(t, {"idle"}, {"lookup"}) /\ Serving /\ NoReset
  /\ req'[t].h \in open /\ req'[t].id \in held[req'[t].h]
  /\ held' = [held EXCEPT ![req'[t].h] = @ \ {req'[t].id}]
  /\ UNCHANGED <<heap, tableVars, poolVars, lru, open, owned, ownedCount, loaded>>

AsksReset(t) ==
  /\ Moves(t, {"idle"}, {"scan"}) /\ loaded /\ Quiet /\ req'[t].op = "reset"
  /\ req'[t].h \in open /\ UNCHANGED others

Closes(t) ==
  /\ Moves(t, {"idle"}, {"scan"}) /\ Serving /\ NoReset /\ req'[t].op = "close"
  /\ req'[t].idx = 1 /\ req'[t].freed = 0
  /\ req'[t].h \in open /\ \A u \in Threads : req[u].h # req'[t].h
  /\ open' = open \ {req'[t].h} /\ held' = [held EXCEPT ![req'[t].h] = {}]
  /\ UNCHANGED <<heap, tableVars, poolVars, lru, owned, ownedCount, loaded>>

Unloads(t) ==
  /\ Moves(t, {"idle"}, {"scan"}) /\ loaded /\ Quiet /\ open = {} /\ req'[t].op = "unload"
  /\ req'[t].idx = 1 /\ UNCHANGED others

ClientKinds(t) ==
  (AsksMemory(t) \/ AsksBuffer(t) \/ AsksReset(t) \/ Closes(t) \/ Unloads(t)) /\ req[t] = NoRequest

(* What a request starts with *)
Asked(op, l, h, id) ==
  \/ op \in Allocs \cap Ops /\ l = (IF op = "alloc" THEN "t2" ELSE "pin") /\ h \in open /\ id = 0
  \/ op \in Named \cap Ops /\ l = "lookup" /\ h \in open /\ id \in Ids
  \/ op \in {"reset"} \cap Ops /\ l = "scan" /\ h \in open /\ id = 0
  \/ op = "close" /\ l = "scan" /\ h \in open /\ id = 0
  \/ op = "unload" /\ l = "scan" /\ h = NoBuf /\ id = 0

(* A request that is asked for is well formed *)
LEMMA AskStep ==
  ASSUME Shape, NEW t \in Threads, Idle(t), NEW op, NEW l, NEW h, NEW id, NEW n \in Nat,
         NEW f \in BOOLEAN, Ask(t, op, l, h, id, n, f), Asked(op, l, h, id)
  PROVE  /\ req[t] = NoRequest /\ req' \in [Threads -> Request] /\ Rest(t)
         /\ \A u \in Threads : WellFormed(req'[u])
         /\ req'[t].op = op /\ req'[t].pc = l /\ req'[t].h = h /\ req'[t].id = id
         /\ req'[t].idx = 1 /\ req'[t].freed = 0
<1>1. req[t] = NoRequest /\ req \in [Threads -> Request]
  BY MyCall DEF Idle, WellFormed
<1>2. PICK q : q = [NoRequest EXCEPT !.op = op, !.pc = l, !.h = h, !.id = id, !.size = n,
                                     !.frozen = f, !.idx = 1]
  OBVIOUS
<1>3. req' = [req EXCEPT ![t] = q]
  BY <1>2 DEF Ask
<1>4. 1 \in 1 .. MaxBufs /\ 1 \in 0 .. MaxBufs /\ open \subseteq Handles
  BY WinDriverAssumption DEF Shape, Typed
<1>5. /\ q.op = op /\ q.pc = l /\ q.h = h /\ q.id = id /\ q.idx = 1 /\ q.freed = 0 /\ q.buf = NoBuf
      /\ q.size = n
  BY <1>2 DEF NoRequest
<1>6. q \in Request
  <2>1. op \in OpNames /\ l \in Labels /\ h \in Handles \cup {NoBuf} /\ id \in Ids \cup {0}
    BY <1>4 DEF OpNames, Asked
  <2> QED
    BY <1>2, <1>4, <2>1 DEF NoRequest, Request
<1>7. WellFormed(q)
  BY <1>4, <1>5, NoBufApart DEF WellFormed, Asked
<1> QED
  BY <1>1, <1>3, <1>5, <1>6, <1>7 DEF Shape, Rest

LEMMA ClientSteps ==
  ASSUME Shape, NEW t \in Threads,
         \/ Unload(t)
         \/ \E h \in Handles : AskMemory(t, h) \/ AskBuffer(t, h) \/ AskReset(t, h) \/ Close(t, h)
  PROVE  ClientKinds(t) /\ Shape'
<1>0. Idle(t) /\ Serving /\ req[t].pc = "idle" /\ loaded /\ Careful
  BY DEF Unload, AskMemory, AskBuffer, AskReset, Close, Idle, Serving, Shape
<1>1. /\ open \subseteq Handles /\ held \in [Handles -> SUBSET Ids] /\ Uses \in [Threads -> SUBSET Handles]
      /\ \A n \in Sizes : n \in Nat
      /\ Flags \subseteq BOOLEAN
  BY WinDriverAssumption DEF Shape, Typed
<1>2. ASSUME NEW h \in Handles, AskMemory(t, h) PROVE ClientKinds(t) /\ Shape'
  <2>1. PICK n \in Sizes, f \in Flags, op \in Allocs \cap Ops :
          Ask(t, op, IF op = "alloc" THEN "t2" ELSE "pin", h, 0, n, f)
    BY <1>2 DEF AskMemory
  <2>2. n \in Nat /\ f \in BOOLEAN /\ h \in open /\ h \in Uses[t] /\ NoReset /\ UNCHANGED others
        /\ nextId < IdLimit
    BY <1>1, <1>2 DEF AskMemory, others
  <2>3. /\ req[t] = NoRequest /\ req' \in [Threads -> Request] /\ Rest(t)
        /\ \A u \in Threads : WellFormed(req'[u])
        /\ req'[t].op = op /\ req'[t].pc = (IF op = "alloc" THEN "t2" ELSE "pin") /\ req'[t].h = h
    <3>1. Asked(op, IF op = "alloc" THEN "t2" ELSE "pin", h, 0)
      BY <2>2 DEF Asked
    <3> QED
      BY <1>0, <2>1, <2>2, <3>1, AskStep
  <2>4. \A u \in Threads : Placed(u)'
    BY <2>2, <2>3 DEF Shape, Placed, Rest, others, fileVars
  <2>5. Alone'
    BY <1>0, <2>2, <2>3 DEF Shape, Alone, Rest, others, fileVars, Serving, NoReset
  <2>6. ClientKinds(t)
    BY <1>0, <2>2, <2>3 DEF ClientKinds, AsksMemory, Moves
  <2> QED
    BY <2>2, <2>3, <2>4, <2>5, <2>6 DEF Shape, Typed, others, tableVars, poolVars, fileVars
<1>3. ASSUME NEW h \in Handles, AskBuffer(t, h) PROVE ClientKinds(t) /\ Shape'
  <2>1. PICK id \in held[h], op \in Named \cap Ops :
          /\ Ask(t, op, "lookup", h, id, 0, FALSE)
          /\ held' = [held EXCEPT ![h] = @ \ {id}]
    BY <1>0, <1>3 DEF AskBuffer, Nameable
  <2>2. h \in open /\ h \in Uses[t] /\ NoReset /\ id \in Ids
        /\ UNCHANGED <<heap, tableVars, poolVars, lru, open, owned, ownedCount, loaded>>
    BY <1>1, <1>3 DEF AskBuffer
  <2>3. /\ req[t] = NoRequest /\ req' \in [Threads -> Request] /\ Rest(t)
        /\ \A u \in Threads : WellFormed(req'[u])
        /\ req'[t].op = op /\ req'[t].pc = "lookup" /\ req'[t].h = h /\ req'[t].id = id
    <3>1. Asked(op, "lookup", h, id)
      BY <2>2 DEF Asked
    <3>2. PICK n \in Nat, f \in BOOLEAN : Ask(t, op, "lookup", h, id, n, f)
      <4>1. 0 \in Nat /\ FALSE \in BOOLEAN
        OBVIOUS
      <4> QED
        BY <2>1, <4>1, Zenon
    <3> QED
      BY <1>0, <3>1, <3>2, AskStep
  <2>4. \A u \in Threads : Placed(u)'
    BY <2>2, <2>3 DEF Shape, Placed, Rest
  <2>5. Alone'
    BY <1>0, <2>2, <2>3 DEF Shape, Alone, Rest, Serving, NoReset
  <2>6. ClientKinds(t)
    BY <1>0, <2>1, <2>2, <2>3 DEF ClientKinds, AsksBuffer, Moves
  <2>7. held' \in [Handles -> SUBSET Ids] /\ \A g \in Handles \ open : held'[g] = {}
    BY <1>1, <2>1, <2>2 DEF Shape, Typed
  <2> QED
    BY <2>2, <2>3, <2>4, <2>5, <2>6, <2>7 DEF Shape, Typed, tableVars, poolVars
<1>4. ASSUME NEW h \in Handles, AskReset(t, h) PROVE ClientKinds(t) /\ Shape'
  <2>1. /\ Ask(t, "reset", "scan", h, 0, 0, FALSE) /\ "reset" \in Ops /\ h \in open /\ h \in Uses[t]
        /\ Quiet /\ UNCHANGED others
    BY <1>0, <1>4 DEF AskReset, Resettable, others
  <2>3. /\ req[t] = NoRequest /\ req' \in [Threads -> Request] /\ Rest(t)
        /\ \A u \in Threads : WellFormed(req'[u])
        /\ req'[t].op = "reset" /\ req'[t].pc = "scan" /\ req'[t].h = h
    <3>1. Asked("reset", "scan", h, 0)
      BY <2>1 DEF Asked
    <3>2. PICK n \in Nat, f \in BOOLEAN : Ask(t, "reset", "scan", h, 0, n, f)
      <4>1. 0 \in Nat /\ FALSE \in BOOLEAN
        OBVIOUS
      <4> QED
        BY <2>1, <4>1, Zenon
    <3> QED
      BY <1>0, <3>1, <3>2, AskStep
  <2>4. \A u \in Threads : Placed(u)'
    BY <2>1, <2>3 DEF Shape, Placed, Rest, others, fileVars
  <2>5. Alone'
    BY <1>0, <2>1, <2>3, MyCall DEF Shape, Alone, Rest, others, fileVars, Serving, Quiet, WellFormed, NoRequest
  <2>6. ClientKinds(t)
    BY <1>0, <2>1, <2>3 DEF ClientKinds, AsksReset, Moves
  <2> QED
    BY <2>1, <2>3, <2>4, <2>5, <2>6 DEF Shape, Typed, others, tableVars, poolVars, fileVars
<1>5. ASSUME NEW h \in Handles, Close(t, h) PROVE ClientKinds(t) /\ Shape'
  <2>1. /\ Ask(t, "close", "scan", h, 0, 0, FALSE) /\ h \in open /\ h \in Uses[t] /\ NoReset
        /\ \A u \in Threads : req[u].h # h
        /\ open' = open \ {h} /\ held' = [held EXCEPT ![h] = {}]
        /\ UNCHANGED <<heap, tableVars, poolVars, lru, owned, ownedCount, loaded>>
    BY <1>0, <1>5 DEF Close, Closable
  <2>3. /\ req[t] = NoRequest /\ req' \in [Threads -> Request] /\ Rest(t)
        /\ \A u \in Threads : WellFormed(req'[u])
        /\ req'[t].op = "close" /\ req'[t].pc = "scan" /\ req'[t].h = h
        /\ req'[t].idx = 1 /\ req'[t].freed = 0
    <3>1. Asked("close", "scan", h, 0)
      BY <2>1 DEF Asked
    <3>2. PICK n \in Nat, f \in BOOLEAN : Ask(t, "close", "scan", h, 0, n, f)
      <4>1. 0 \in Nat /\ FALSE \in BOOLEAN
        OBVIOUS
      <4> QED
        BY <2>1, <4>1, Zenon
    <3> QED
      BY <1>0, <3>1, <3>2, AskStep
  <2>4. \A u \in Threads : Placed(u)'
    BY <2>1, <2>3 DEF Shape, Placed, Rest
  <2>5. Alone'
    BY <1>0, <2>1, <2>3 DEF Shape, Alone, Rest, Serving, NoReset
  <2>6. ClientKinds(t)
    BY <1>0, <2>1, <2>3 DEF ClientKinds, Closes, Moves
  <2>7. held' \in [Handles -> SUBSET Ids] /\ \A g \in Handles \ open' : held'[g] = {}
    BY <1>1, <2>1 DEF Shape, Typed
  <2> QED
    BY <1>1, <2>1, <2>3, <2>4, <2>5, <2>6, <2>7 DEF Shape, Typed, tableVars, poolVars
<1>6. CASE Unload(t)
  <2>1. /\ Ask(t, "unload", "scan", NoBuf, 0, 0, FALSE) /\ open = {}
        /\ Quiet /\ UNCHANGED others
    BY <1>6 DEF Unload, others
  <2>3. /\ req[t] = NoRequest /\ req' \in [Threads -> Request] /\ Rest(t)
        /\ \A u \in Threads : WellFormed(req'[u])
        /\ req'[t].op = "unload" /\ req'[t].pc = "scan" /\ req'[t].h = NoBuf /\ req'[t].idx = 1
    <3>1. Asked("unload", "scan", NoBuf, 0)
      BY <2>1 DEF Asked
    <3>2. PICK n \in Nat, f \in BOOLEAN : Ask(t, "unload", "scan", NoBuf, 0, n, f)
      <4>1. 0 \in Nat /\ FALSE \in BOOLEAN
        OBVIOUS
      <4> QED
        BY <2>1, <4>1, Zenon
    <3> QED
      BY <1>0, <3>1, <3>2, AskStep
  <2>4. \A u \in Threads : Placed(u)'
    <3>1. \A u \in Threads : req[u].op = "none"
      BY <2>1, MyCall, NoRequestIs DEF Quiet, WellFormed
    <3> QED
      BY <2>3, <3>1 DEF Placed, Rest
  <2>5. Alone'
    BY <1>0, <2>1, <2>3, MyCall DEF Shape, Alone, Rest, others, fileVars, Quiet, WellFormed, NoRequest
  <2>6. ClientKinds(t)
    BY <1>0, <2>1, <2>3 DEF ClientKinds, Unloads, Moves
  <2> QED
    BY <2>1, <2>3, <2>4, <2>5, <2>6 DEF Shape, Typed, others, tableVars, poolVars, fileVars
<1> QED
  BY <1>2, <1>3, <1>4, <1>5, <1>6

LEMMA ShapeOpen ==
  ASSUME Shape, NEW h \in Handles, Open(h)
  PROVE  Shape'
<1>1. /\ owned' \in [Handles -> SUBSET Ids] /\ ownedCount' \in [Handles -> Int]
      /\ open' = open \cup {h} /\ UNCHANGED <<heap, tableVars, poolVars, lru, held, loaded, req>>
      /\ \A t \in Threads : req[t].h # h
  BY DEF Open, Shape, Typed
<1>2. \A t \in Threads : Placed(t)'
  BY <1>1 DEF Shape, Placed
<1>3. Alone'
  BY <1>1 DEF Open, Shape, Alone, Serving, Quiet
<1> QED
  BY <1>1, <1>2, <1>3 DEF Shape, Typed, tableVars, poolVars

LEMMA ShapeLoad ==
  ASSUME Shape, Load
  PROVE  Shape'
<1>1. \A t \in Threads : Placed(t)'
  BY DEF Load, Shape, Placed
<1>2. Alone'
  BY DEF Load, Shape, Alone
<1>3. /\ table' \in [Ids -> Bufs \cup {NoBuf}] /\ nextId' \in 0 .. MaxBufs
      /\ activeBufs' \in Int /\ pool' \in Int /\ nvme' \in Int /\ lru' \subseteq Bufs /\ loaded' \in BOOLEAN
  BY WinDriverAssumption DEF Load
<1> QED
  BY <1>1, <1>2, <1>3 DEF Load, Shape, Typed

LEMMA ShapeInit ==
  ASSUME Careful
  PROVE  Init => Shape
<1> SUFFICES ASSUME Init PROVE Shape
  OBVIOUS
<1>1. \A t \in Threads : req[t] = NoRequest
  BY DEF Init
<1>2. req \in [Threads -> Request] /\ \A t \in Threads : WellFormed(req[t]) /\ Placed(t)
  BY <1>1, NoRequestIs DEF Init, Placed
<1>3. Alone
  BY <1>1, NoRequestIs DEF Init, Alone
<1>4. 0 \in 0 .. MaxBufs
  BY WinDriverAssumption
<1> QED
  BY <1>2, <1>3, <1>4 DEF Init, Shape, Typed

LEMMA ShapeNext ==
  ASSUME Shape, [Next]_vars
  PROVE  Shape'
<1>1. CASE UNCHANGED vars
  BY <1>1 DEF vars, tableVars, poolVars, fileVars, Shape, Typed, Placed, Alone, Quiet
<1> QED
  BY <1>1, HandlerKinds, ClientSteps, ShapeOpen, ShapeLoad DEF Next

LEMMA ShapeInvariant ==
  ASSUME Careful
  PROVE  Spec => []Shape
BY ShapeInit, ShapeNext, PTL DEF Spec

LEMMA Kinds ==
  ASSUME Shape, [Next]_vars
  PROVE  /\ Shape'
         /\ \/ UNCHANGED vars
            \/ Load
            \/ \E h \in Handles : Open(h)
            \/ \E t \in Threads : StepKinds(t) \/ ClientKinds(t)
BY ShapeNext, HandlerKinds, ClientSteps DEF Next
-----------------------------------------------------------------------------
(* The tag and the backing of a descriptor, as long as EVICT does not tell  *)
(* a descriptor something else                                              *)

Tagged(b) ==
  heap[b] # NoBuf => \/ heap[b].tier = 2 /\ heap[b].backing \in {"contiguous", "mdl"}
                     \/ heap[b].tier = 3 /\ heap[b].backing = "paged"
                     \/ heap[b].tier = 2 /\ heap[b].backing = "user" /\ "pin" \in Ops

LEMMA TaggedStep ==
  ASSUME Shape, Shape', [Next]_vars, "evict" \notin Ops,
         \A b \in Bufs : Tagged(b), NEW b \in Bufs
  PROVE  Tagged(b)'
<1>1. Tagged(b)
  OBVIOUS
<1>2. CASE heap'[b] = heap[b]
  BY <1>1, <1>2 DEF Tagged
<1>3. ASSUME NEW t \in Threads, Takes(t), heap'[b] # heap[b] PROVE Tagged(b)'
  <2>1. req[t].op = "pin" => "pin" \in Ops
    BY <1>3, MyCall DEF WellFormed, Takes, Moves
  <2> QED
    BY <1>3, <2>1 DEF Takes, Tagged
<1>4. ASSUME NEW c, NEW id, NEW active, Alters(c, heap[c].tier, id, active), heap'[b] # heap[b]
      PROVE  Tagged(b)'
  <2>1. c = b
    BY <1>4 DEF Alters
  <2>2. heap[b] # NoBuf
    BY <1>4, <2>1, NoBufApart DEF Alters
  <2> QED
    BY <1>1, <1>4, <2>1, <2>2 DEF Alters, Tagged
<1>5. ASSUME NEW t \in Threads PROVE ~Relabels(t)
  BY MyCall DEF WellFormed, Relabels, Moves
<1>6. ASSUME NEW t \in Threads, Releases(t) PROVE Tagged(b)'
  BY <1>1, <1>6 DEF Releases, Tagged
<1>7. ASSUME NEW t \in Threads, ResetsEntry(t) PROVE Tagged(b)'
  <2>1. PICK c : c = table[req[t].idx]
    OBVIOUS
  <2>2. CASE c \in Live /\ c = b
    <3>1. heap'[b] = [heap[b] EXCEPT !.id = 0] /\ heap[b] \in Buffer
      BY <1>7, <2>1, <2>2, LiveIs DEF ResetsEntry, WithoutId, Shape, Typed
    <3>2. heap'[b].tier = heap[b].tier /\ heap'[b].backing = heap[b].backing /\ heap[b] # NoBuf
      BY <3>1, NoBufApart DEF Buffer
    <3> QED
      BY <1>1, <3>2 DEF Tagged
  <2>3. CASE ~(c \in Live /\ c = b)
    BY <1>2, <1>7, <2>1, <2>3 DEF ResetsEntry, WithoutId, Shape, Typed
  <2> QED
    BY <2>2, <2>3
<1>8. ASSUME NEW t \in Threads, StepKinds(t) PROVE Tagged(b)'
  BY <1>2, <1>3, <1>4, <1>5, <1>6, <1>7, <1>8
     DEF StepKinds, Tries, GivesUp, Accounts, Registers, FindsFull, Maps, ReadsOwned, SetsOwned,
         ClearsOwned, Finds, Advises, Leaves, Delists, Unlinks, Unregisters, UnloadsEntry,
         CleansEntry, Skips, Ends, others
<1>9. ASSUME NEW t \in Threads, ClientKinds(t) PROVE Tagged(b)'
  BY <1>2, <1>9 DEF ClientKinds, AsksMemory, AsksBuffer, AsksReset, Closes, Unloads, others
<1> QED
  BY <1>2, <1>8, <1>9, Kinds DEF Load, Open, vars

LEMMA TagInvariant ==
  ASSUME Careful, "evict" \notin Ops
  PROVE  Spec => [](\A b \in Bufs : Tagged(b))
<1>1. Init => \A b \in Bufs : Tagged(b)
  BY DEF Init, Tagged
<1>2. Shape /\ Shape' /\ [Next]_vars /\ (\A b \in Bufs : Tagged(b)) => (\A b \in Bufs : Tagged(b))'
  BY TaggedStep
<1> QED
  BY <1>1, <1>2, ShapeInvariant, PTL DEF Spec

-----------------------------------------------------------------------------
(* The ids that are left: an allocation starts while NextBufId is below     *)
(* IdLimit, so that those in progress cannot take it past the table         *)

IdsLast == IdLimit + Cardinality(Threads) <= MaxBufs
Waiting == {t \in Threads : req[t].pc \in Starting \cup {"account", "register"}}
IdInv == Waiting # {} => nextId + Cardinality(Waiting) < IdLimit + Cardinality(Threads)

LEMMA BoundsAreNat == MaxBufs \in Nat \ {0} /\ IdLimit \in Nat
BY WinDriverAssumption

LEMMA WaitingCount ==
  ASSUME NEW W, W \subseteq Threads
  PROVE  /\ IsFiniteSet(W) /\ Cardinality(W) \in Nat /\ Cardinality(Threads) \in Nat
         /\ Cardinality(W) <= Cardinality(Threads)
         /\ W # {} => Cardinality(W) > 0
<1>1. IsFiniteSet(Threads)
  BY WinDriverAssumption
<1>2. IsFiniteSet(W) /\ Cardinality(W) <= Cardinality(Threads)
  BY <1>1, FS_Subset
<1>3. Cardinality(W) \in Nat /\ Cardinality(Threads) \in Nat
  BY <1>1, <1>2, FS_CardinalityType
<1>4. Cardinality(W) = 0 <=> W = {}
  BY <1>2, FS_EmptySet
<1> QED
  BY <1>2, <1>3, <1>4

LEMMA IdsSuffice ==
  ASSUME Shape, IdInv, IdsLast, NEW t \in Threads, req[t].pc = "register"
  PROVE  nextId + 1 < MaxBufs
<1>1. t \in Waiting /\ Waiting \subseteq Threads
  BY DEF Waiting
<1>2. Cardinality(Waiting) \in Nat /\ Cardinality(Waiting) > 0 /\ Cardinality(Threads) \in Nat
  BY <1>1, WaitingCount
<1>3. nextId + Cardinality(Waiting) < IdLimit + Cardinality(Threads)
  BY <1>1 DEF IdInv
<1>4. nextId \in Nat
  BY BoundsAreNat DEF Shape, Typed
<1> QED
  BY <1>2, <1>3, <1>4, BoundsAreNat DEF IdsLast

LEMMA NewId ==
  ASSUME Shape, IdInv, IdsLast, NEW t \in Threads
  PROVE  /\ ~FindsFull(t)
         /\ Registers(t) => nextId' = nextId + 1 /\ req'[t].id = nextId + 1 /\ nextId + 1 \in Ids
<1>1. nextId \in Nat /\ MaxBufs \in Nat
  BY BoundsAreNat DEF Shape, Typed
<1>2. req[t].pc = "register" => nextId + 1 < MaxBufs
  BY IdsSuffice
<1>3. ~FindsFull(t)
  BY <1>1, <1>2 DEF FindsFull, Moves
<1>4. Registers(t) => nextId' = nextId + 1 /\ req'[t].id = nextId + 1 /\ nextId + 1 \in Ids
  BY <1>1, <1>2 DEF Registers, Moves
<1> QED
  BY <1>3, <1>4

LEMMA IdStep ==
  ASSUME Shape, Shape', IdInv, [Next]_vars, IdsLast
  PROVE  IdInv'
<1>0. /\ Waiting \subseteq Threads /\ Waiting' \subseteq Threads
      /\ nextId \in Nat /\ IdLimit \in Nat
  BY BoundsAreNat DEF Waiting, Shape, Typed
<1>1. PICK W, V : W = Waiting /\ V = Waiting'
  OBVIOUS
<1>2. /\ Cardinality(W) \in Nat /\ Cardinality(V) \in Nat /\ Cardinality(Threads) \in Nat
      /\ Cardinality(V) <= Cardinality(Threads)
      /\ W # {} => Cardinality(W) > 0
      /\ V \subseteq W => Cardinality(V) <= Cardinality(W)
  BY <1>0, <1>1, WaitingCount, FS_Subset
<1>3. CASE V \subseteq W /\ nextId' = nextId
  BY <1>0, <1>1, <1>2, <1>3 DEF IdInv
<1>4. ASSUME NEW t \in Threads, Registers(t) PROVE IdInv'
  <2>1. V = W \ {t} /\ t \in W
    BY <1>1, <1>4 DEF Registers, Moves, Rest, Waiting
  <2>2. Cardinality(V) = Cardinality(W) - 1
    BY <1>0, <1>1, <2>1, WaitingCount, FS_RemoveElement
  <2>3. nextId' = nextId + 1
    BY <1>4, NewId
  <2> QED
    BY <1>0, <1>1, <1>2, <2>1, <2>2, <2>3 DEF IdInv
<1>5. ASSUME NEW t \in Threads, AsksMemory(t) PROVE IdInv'
  <2>1. nextId < IdLimit /\ nextId' = nextId
    BY <1>5 DEF AsksMemory, others, tableVars
  <2> QED
    BY <1>0, <1>1, <1>2, <2>1 DEF IdInv
<1>6. ASSUME NEW t \in Threads, StepKinds(t), ~Registers(t) PROVE IdInv'
  <2>1. nextId' = nextId
    BY <1>6, NewId
       DEF StepKinds, Tries, GivesUp, Takes, Accounts, Registers, Maps, ReadsOwned, SetsOwned,
           ClearsOwned, Finds, Advises, Relabels, Leaves, Delists, Unlinks, Unregisters, Releases,
           ResetsEntry, UnloadsEntry, CleansEntry, Skips, Ends, others, tableVars
  <2>2. V \subseteq W
    BY <1>1, <1>6
       DEF StepKinds, Tries, GivesUp, Takes, Accounts, Maps, ReadsOwned, SetsOwned, FindsFull,
           ClearsOwned, Finds, Advises, Relabels, Leaves, Delists, Unlinks, Unregisters, Releases,
           ResetsEntry, UnloadsEntry, CleansEntry, Comes, Skips, Ends, Moves, Rest, Waiting
  <2> QED
    BY <1>3, <2>1, <2>2
<1>7. ASSUME NEW t \in Threads, ClientKinds(t), ~AsksMemory(t) PROVE IdInv'
  <2>1. nextId' = nextId
    BY <1>7 DEF ClientKinds, AsksBuffer, AsksReset, Closes, Unloads, others, tableVars
  <2>2. V \subseteq W
    BY <1>1, <1>7
       DEF ClientKinds, AsksBuffer, AsksReset, Closes, Unloads, Moves, Rest, Waiting
  <2> QED
    BY <1>3, <2>1, <2>2
<1>8. CASE UNCHANGED vars \/ \E h \in Handles : Open(h)
  BY <1>1, <1>3, <1>8 DEF vars, Open, Waiting, tableVars
<1>9. CASE Load
  <2>1. V = {}
    BY <1>1, <1>9 DEF Load, Shape, Alone, Quiet, Waiting
  <2> QED
    BY <1>1, <2>1 DEF IdInv
<1> QED
  BY <1>4, <1>5, <1>6, <1>7, <1>8, <1>9, Kinds

-----------------------------------------------------------------------------
(* Whose an id is: the handle that owns it, that may still use it, or that  *)
(* has a request with it.  A handle that is neither open nor being closed   *)
(* has no claim; its bits are reset when it is opened.                      *)

InUse(h) == h \in open \/ \E t \in Threads : req[t].h = h
Possess(h, i) ==
  \/ i \in owned[h] \cup held[h]
  \/ \E t \in Threads : /\ req[t].h = h
                        /\ req[t].id = i \/ (req[t].pc = "owned" /\ i \in req[t].word)
Claims(h, i) == InUse(h) /\ Possess(h, i)

(* Ids in use have been given out, to one handle and to one of its requests *)
SlotsGiven == \A i \in Ids : table[i] # NoBuf => i <= nextId
ClaimsGiven == \A h \in Handles, i \in Ids : Claims(h, i) => i <= nextId
ClaimsApart == \A h, g \in Handles, i \in Ids : Claims(h, i) /\ Claims(g, i) => h = g
CallsApart == \A t, u \in Threads : t # u /\ req[t].id \in Ids => req[u].id # req[t].id
CallsHold == \A t \in Threads : \A h \in open : req[t].id \notin held[h]
ClaimInv == SlotsGiven /\ ClaimsGiven /\ ClaimsApart /\ CallsApart /\ CallsHold

LEMMA MyClaims ==
  ASSUME Shape, NEW t \in Threads, req[t].h \in Handles, NEW i \in Ids,
         \/ i \in owned[req[t].h] \cup held[req[t].h]
         \/ req[t].id = i
         \/ req[t].pc = "owned" /\ i \in req[t].word
  PROVE  Claims(req[t].h, i)
BY DEF Claims, InUse, Possess

LEMMA Idles ==
  ASSUME Shape, NEW t \in Threads, req[t].pc = "idle"
  PROVE  req[t] = NoRequest /\ req[t].h = NoBuf /\ req[t].id = 0 /\ req[t].buf = NoBuf /\ req[t].op = "none"
BY MyCall, NoRequestIs DEF WellFormed

LEMMA IdlesNext ==
  ASSUME Shape', NEW t \in Threads, req'[t].pc = "idle"
  PROVE  req'[t].h = NoBuf /\ req'[t].id = 0 /\ req'[t].buf = NoBuf /\ req'[t].op = "none"
<1>1. (\A u \in Threads : req[u].pc = "idle" =>
         req[u].h = NoBuf /\ req[u].id = 0 /\ req[u].buf = NoBuf /\ req[u].op = "none")'
  BY NoRequestIs DEF Shape, WellFormed
<1> QED
  BY <1>1

(* What a handler does to claims, when it registers nothing *)
Claimless(t) ==
  /\ Rest(t) /\ (SameCall(t) \/ req'[t].pc = "idle")
  /\ req'[t].pc = "owned" => req'[t].word = owned[req[t].h]
  /\ open' = open /\ nextId' = nextId
  /\ \A i \in Ids : table'[i] # NoBuf => table[i] # NoBuf
  /\ \A h \in Handles, i \in Ids :
       /\ i \in owned'[h] => \/ i \in owned[h]
                             \/ h = req[t].h /\ (i = req[t].id \/ (req[t].pc = "owned" /\ i \in req[t].word))
       /\ i \in held'[h] => \/ i \in held[h]
                            \/ h = req[t].h /\ i = req[t].id /\ req'[t].pc = "idle"

LEMMA NoClaims ==
  ASSUME Shape, Shape', IdInv, IdsLast, NEW t \in Threads, StepKinds(t), ~Registers(t)
  PROVE  Claimless(t)
<1>1. /\ owned \in [Handles -> SUBSET Ids] /\ held \in [Handles -> SUBSET Ids]
      /\ table \in [Ids -> Bufs \cup {NoBuf}]
  BY DEF Shape, Typed
<1>2. nextId' = nextId /\ open' = open
  BY NewId
     DEF StepKinds, Tries, GivesUp, Takes, Accounts, Registers, Maps, ReadsOwned, SetsOwned,
         ClearsOwned, Finds, Advises, Relabels, Leaves, Delists, Unlinks, Unregisters, Releases,
         ResetsEntry, UnloadsEntry, CleansEntry, Skips, Ends, others, tableVars, fileVars
<1>3. /\ Rest(t) /\ (SameCall(t) \/ req'[t].pc = "idle")
      /\ req'[t].pc = "owned" => req'[t].word = owned[req[t].h]
  BY NewId
     DEF StepKinds, Tries, GivesUp, Takes, Accounts, Registers, Maps, ReadsOwned, SetsOwned,
         ClearsOwned, Finds, Advises, Relabels, Leaves, Delists, Unlinks, Unregisters, Releases,
         ResetsEntry, UnloadsEntry, CleansEntry, Skips, Ends, Comes, Moves, Keeps
<1>4. ASSUME NEW i \in Ids, table'[i] # NoBuf PROVE table[i] # NoBuf
  BY <1>1, <1>4, NewId
     DEF StepKinds, Tries, GivesUp, Takes, Accounts, Registers, Maps, ReadsOwned, SetsOwned,
         ClearsOwned, Finds, Advises, Relabels, Leaves, Delists, Unlinks, Unregisters, Releases,
         ResetsEntry, UnloadsEntry, CleansEntry, Skips, Ends, others, tableVars
<1>5. CASE UNCHANGED <<owned, held>>
  BY <1>2, <1>3, <1>4, <1>5 DEF Claimless
<1>6. CASE SetsOwned(t)
  BY <1>1, <1>2, <1>3, <1>4, <1>6 DEF Claimless, SetsOwned, Moves
<1>7. CASE ClearsOwned(t)
  BY <1>1, <1>2, <1>3, <1>4, <1>7 DEF Claimless, ClearsOwned, Moves
<1>8. CASE GiveBack(t) /\ UNCHANGED owned /\ req'[t].pc = "idle"
  BY <1>1, <1>2, <1>3, <1>4, <1>8 DEF Claimless, GiveBack
<1>9. CASE Advises(t) \/ Leaves(t) \/ Delists(t)
  BY <1>8, <1>9 DEF Advises, Leaves, Delists, Moves
<1> QED
  BY <1>5, <1>6, <1>7, <1>9, NewId
     DEF StepKinds, Tries, GivesUp, Takes, Accounts, Registers, Maps, ReadsOwned,
         Finds, Relabels, Unlinks, Unregisters, Releases,
         ResetsEntry, UnloadsEntry, CleansEntry, Skips, Ends, others, fileVars

LEMMA ClaimHandlers ==
  ASSUME Shape, Shape', ClaimInv, NEW t \in Threads, Claimless(t)
  PROVE  ClaimInv'
<1>1. /\ \A u \in Threads : req'[u].h = req[u].h \/ req'[u].h = NoBuf
      /\ \A u \in Threads : req'[u].id = req[u].id \/ req'[u].id = 0
      /\ req'[t].pc = "idle" => req'[t].id = 0
      /\ 0 \notin Ids
  BY IdlesNext, IdsAreNat DEF Claimless, Rest, SameCall
<1>2. ASSUME NEW h \in Handles, NEW i \in Ids, Claims(h, i)' PROVE Claims(h, i)
  <2>1. InUse(h)
    BY <1>1, <1>2, NoBufApart DEF Claims, InUse, Claimless
  <2>2. i \in owned[h] \cup held[h] => Claims(h, i)
    BY <2>1 DEF Claims, Possess
  <2>3. ASSUME h = req[t].h, i = req[t].id \/ (req[t].pc = "owned" /\ i \in req[t].word)
        PROVE  Claims(h, i)
    BY <2>1, <2>3 DEF Claims, Possess
  <2>4. CASE i \in owned'[h] \cup held'[h]
    BY <2>2, <2>3, <2>4 DEF Claimless
  <2>5. ASSUME NEW u \in Threads, req'[u].h = h,
               req'[u].id = i \/ (req'[u].pc = "owned" /\ i \in req'[u].word)
        PROVE  Claims(h, i)
    <3>1. CASE u # t
      BY <2>1, <2>5, <3>1 DEF Claimless, Rest, Claims, Possess
    <3>2. CASE u = t
      <4>1. req'[t].pc # "idle"
        BY <2>5, <3>2, IdlesNext, NoBufApart
      <4> QED
        BY <2>2, <2>3, <2>5, <3>2, <4>1 DEF Claimless, SameCall
    <3> QED
      BY <3>1, <3>2
  <2> QED
    BY <1>2, <2>4, <2>5 DEF Claims, Possess
<1>3. SlotsGiven' /\ ClaimsGiven' /\ ClaimsApart'
  BY <1>2 DEF ClaimInv, SlotsGiven, ClaimsGiven, ClaimsApart, Claimless
<1>4. CallsApart'
  BY <1>1 DEF ClaimInv, CallsApart
<1>5. ASSUME NEW u \in Threads, NEW h \in open', req'[u].id \in held'[h] PROVE FALSE
  <2>1. h \in open /\ h \in Handles /\ req'[u].id \in Ids
    BY <1>5 DEF Claimless, Shape, Typed
  <2>2. req'[u].id = req[u].id
    BY <1>1, <2>1
  <2>3. req[u].id \notin held[h]
    BY <2>1 DEF ClaimInv, CallsHold
  <2>4. h = req[t].h /\ req[u].id = req[t].id /\ req'[t].pc = "idle"
    BY <1>5, <2>1, <2>2, <2>3 DEF Claimless
  <2>5. u # t
    BY <1>1, <2>1, <2>4
  <2> QED
    BY <2>1, <2>2, <2>4, <2>5 DEF ClaimInv, CallsApart
<1> QED
  BY <1>3, <1>4, <1>5 DEF ClaimInv, CallsHold

LEMMA ClaimRegisters ==
  ASSUME Shape, Shape', IdInv, IdsLast, ClaimInv, NEW t \in Threads, Registers(t)
  PROVE  ClaimInv'
<1>1. PICK n \in Ids : n = nextId + 1 /\ nextId' = n /\ req'[t].id = n
  BY NewId
<1>2. /\ nextId \in Nat /\ n \in Nat /\ \A i \in Ids : i \in Nat
  BY IdsAreNat, BoundsAreNat DEF Shape, Typed
<1>3. ~(n <= nextId) /\ \A i \in Ids : i <= nextId => i <= n
  <2>1. PICK k \in Nat : k = nextId
    BY <1>2
  <2>2. n = k + 1
    BY <1>1, <2>1
  <2>3. ~(n <= k)
    BY <2>2
  <2>4. ASSUME NEW i \in Ids, i <= k PROVE i <= n
    BY <1>2, <2>2, <2>4
  <2> QED
    BY <2>1, <2>3, <2>4
<1>4. /\ Rest(t) /\ req'[t].h = req[t].h /\ req'[t].pc = "map"
      /\ UNCHANGED <<open, owned, held>>
      /\ table' = [table EXCEPT ![n] = req[t].buf]
  BY <1>1 DEF Registers, Moves, fileVars
<1>5. req[t].h \in open
  BY MyCall DEF Registers, Moves, WellFormed, Placed
<1>6. ASSUME NEW h \in Handles, NEW i \in Ids, Claims(h, i)' PROVE Claims(h, i) \/ (h = req[t].h /\ i = n)
  BY <1>1, <1>4, <1>6 DEF Claims, InUse, Possess, Rest
<1>7. \A h \in Handles : ~Claims(h, n)
  BY <1>3 DEF ClaimInv, ClaimsGiven
<1>8. SlotsGiven'
  BY <1>1, <1>2, <1>3, <1>4 DEF ClaimInv, SlotsGiven, Shape, Typed
<1>9. ClaimsGiven'
  <2>1. \A h \in Handles, i \in Ids : Claims(h, i) => i <= nextId
    BY DEF ClaimInv, ClaimsGiven
  <2>2. n <= n
    BY <1>2
  <2>3. ASSUME NEW h \in Handles, NEW i \in Ids, Claims(h, i)' PROVE i <= n
    BY <1>3, <1>6, <2>1, <2>2, <2>3
  <2> QED
    BY <1>1, <2>3 DEF ClaimsGiven
<1>10. ClaimsApart'
  BY <1>6, <1>7 DEF ClaimInv, ClaimsApart
<1>11. \A u \in Threads : req[u].id # n
  <2> SUFFICES ASSUME NEW u \in Threads, req[u].id = n PROVE FALSE
    OBVIOUS
  <2>1. 0 \notin Ids
    BY IdsAreNat
  <2>2. req[u].h \in Handles
    BY <2>1, Idles, MyCall DEF WellFormed, Placed, Shape, Typed
  <2> QED
    BY <1>7, <2>2, MyClaims
<1>12. CallsApart'
  BY <1>1, <1>4, <1>11 DEF ClaimInv, CallsApart, Rest
<1>13. ASSUME NEW h \in open PROVE n \notin held[h]
  <2>1. h \in Handles
    BY DEF Shape, Typed
  <2> QED
    BY <1>7, <2>1 DEF Claims, InUse, Possess
<1>14. CallsHold'
  BY <1>1, <1>4, <1>13 DEF ClaimInv, CallsHold, Rest
<1> QED
  BY <1>8, <1>9, <1>10, <1>12, <1>14 DEF ClaimInv

LEMMA ClaimClients ==
  ASSUME Shape, Shape', ClaimInv, NEW t \in Threads, ClientKinds(t)
  PROVE  ClaimInv'
<1>0. /\ held \in [Handles -> SUBSET Ids] /\ open \subseteq Handles /\ 0 \notin Ids
      /\ req[t].h = NoBuf /\ req[t].id = 0
  BY IdsAreNat, NoRequestIs DEF Shape, Typed, ClientKinds
<1>1. /\ Rest(t) /\ UNCHANGED <<table, nextId, owned>> /\ open' \subseteq open
      /\ \A h \in Handles : held'[h] \subseteq held[h]
      /\ req'[t].pc # "owned"
  BY <1>0 DEF ClientKinds, AsksMemory, AsksBuffer, AsksReset, Closes, Unloads, others, tableVars,
              fileVars, Moves
<1>2. /\ req'[t].h \in open \cup {NoBuf}
      /\ req'[t].id \in Ids => /\ req'[t].h \in open /\ req'[t].id \in held[req'[t].h]
                               /\ req'[t].id \notin held'[req'[t].h] /\ open' = open
  <2>1. WellFormed(req'[t]) /\ Placed(t)'
    BY DEF Shape
  <2> QED
    BY <1>0, <2>1 DEF ClientKinds, AsksMemory, AsksBuffer, AsksReset, Closes, Unloads, Moves, WellFormed
<1>3. ASSUME NEW h \in Handles, NEW i \in Ids, Claims(h, i)' PROVE Claims(h, i)
  <2>1. InUse(h)
    BY <1>0, <1>1, <1>2, <1>3, NoBufApart DEF Claims, InUse, Rest
  <2>2. Possess(h, i)
    BY <1>0, <1>1, <1>2, <1>3, NoBufApart DEF Claims, Possess, Rest
  <2> QED
    BY <2>1, <2>2 DEF Claims
<1>4. SlotsGiven' /\ ClaimsGiven' /\ ClaimsApart'
  BY <1>1, <1>3 DEF ClaimInv, SlotsGiven, ClaimsGiven, ClaimsApart
<1>5. CallsApart'
  BY <1>0, <1>1, <1>2 DEF ClaimInv, CallsApart, CallsHold, Rest
<1>6. ASSUME NEW u \in Threads, NEW h \in open', req'[u].id \in held'[h] PROVE FALSE
  <2>1. h \in open /\ h \in Handles /\ req'[u].id \in held[h] /\ req'[u].id \in Ids
    BY <1>0, <1>1, <1>6
  <2>2. u = t
    BY <1>1, <2>1 DEF ClaimInv, CallsHold, Rest
  <2>3. Claims(h, req'[t].id) /\ Claims(req'[t].h, req'[t].id)
    BY <1>2, <2>1, <2>2 DEF Claims, InUse, Possess
  <2>4. h = req'[t].h
    BY <1>0, <1>2, <2>1, <2>2, <2>3 DEF ClaimInv, ClaimsApart
  <2> QED
    BY <1>2, <1>6, <2>1, <2>2, <2>4
<1> QED
  BY <1>4, <1>5, <1>6 DEF ClaimInv, CallsHold

LEMMA ClaimStep ==
  ASSUME Shape, Shape', IdInv, IdsLast, ClaimInv, [Next]_vars
  PROVE  ClaimInv'
<1>1. CASE UNCHANGED vars
  BY <1>1 DEF vars, tableVars, fileVars, ClaimInv, SlotsGiven, ClaimsGiven, ClaimsApart, CallsApart,
              CallsHold, Claims, InUse, Possess
<1>2. CASE Load
  <2>1. /\ \A u \in Threads : req'[u].h = NoBuf /\ req'[u].id = 0
        /\ open' = {} /\ 0 \notin Ids
        /\ \A i \in Ids : table'[i] = NoBuf
    BY <1>2, Idles, IdsAreNat DEF Load, Shape, Alone, Quiet
  <2>2. \A h \in Handles, i \in Ids : ~Claims(h, i)'
    BY <2>1, NoBufApart DEF Claims, InUse
  <2> QED
    BY <2>1, <2>2 DEF ClaimInv, SlotsGiven, ClaimsGiven, ClaimsApart, CallsApart, CallsHold
<1>3. ASSUME NEW g \in Handles, Open(g) PROVE ClaimInv'
  <2>1. /\ \A u \in Threads : req[u].h # g
        /\ owned'[g] = {} /\ held'[g] = {} /\ open' = open \cup {g}
        /\ \A h \in Handles : h # g => owned'[h] = owned[h]
        /\ UNCHANGED <<table, nextId, held, req>>
    BY <1>3 DEF Open, Shape, Typed, tableVars
  <2>2. ASSUME NEW h \in Handles, NEW i \in Ids, Claims(h, i)' PROVE Claims(h, i)
    <3>1. h # g
      BY <2>1, <2>2 DEF Claims, Possess
    <3> QED
      BY <2>1, <2>2, <3>1 DEF Claims, InUse, Possess
  <2>3. SlotsGiven' /\ ClaimsGiven' /\ ClaimsApart' /\ CallsApart'
    BY <2>1, <2>2 DEF ClaimInv, SlotsGiven, ClaimsGiven, ClaimsApart, CallsApart
  <2>4. CallsHold'
    BY <2>1 DEF ClaimInv, CallsHold
  <2> QED
    BY <2>3, <2>4 DEF ClaimInv
<1> QED
  BY <1>1, <1>2, <1>3, NoClaims, ClaimHandlers, ClaimRegisters, ClaimClients, Kinds

LEMMA ClaimInvariant ==
  ASSUME Careful, IdsLast
  PROVE  Spec => [](Shape /\ IdInv /\ ClaimInv)
<1>1. Init => IdInv
  <2>1. Init => Waiting = {}
    BY NoRequestIs DEF Init, Waiting
  <2> QED
    BY <2>1 DEF IdInv
<1>2. Init => ClaimInv
  <2> SUFFICES ASSUME Init PROVE ClaimInv
    OBVIOUS
  <2>1. open = {} /\ 0 \notin Ids /\ \A t \in Threads : req[t].h = NoBuf /\ req[t].id = 0
    BY NoRequestIs, IdsAreNat DEF Init
  <2>2. \A h \in Handles, i \in Ids : ~Claims(h, i)
    BY <2>1, NoBufApart DEF Claims, InUse
  <2>3. \A i \in Ids : table[i] = NoBuf
    BY DEF Init
  <2> QED
    BY <2>1, <2>2, <2>3 DEF ClaimInv, SlotsGiven, ClaimsGiven, ClaimsApart, CallsApart, CallsHold
<1> QED
  BY <1>1, <1>2, ShapeInit, ShapeNext, IdStep, ClaimStep, PTL DEF Spec

-----------------------------------------------------------------------------
(* Who may touch a buffer.  A request that has one has it alone, and what   *)
(* its label says about it holds until its next step.                       *)

Has(t) == req[t].pc \in HasBuf
Carries(t, b) ==
  /\ b \in Live
  /\ req[t].pc \in {"account", "register"} => heap[b].id = 0 /\ ~heap[b].active
  /\ req[t].pc \in Registered => heap[b].active /\ heap[b].id = req[t].id /\ table[req[t].id] = b
  /\ (req[t].pc \in {"unlink", "unregister"} /\ heap[b].id \in Ids) => table[heap[b].id] \in {b, NoBuf}
  /\ req[t].pc \in {"unregister", "release"} => b \notin lru
  /\ req[t].pc = "release" => \A i \in Ids : table[i] # b
  /\ req[t].pc \in Freeing => /\ req[t].op \in Allocs \cup {"free"} => heap[b].id = req[t].id
                              /\ req[t].op = "close" => heap[b].id \in owned[req[t].h]
                              /\ req[t].op = "reset" => heap[b].id = 0
Loose(b) == heap[b].active /\ heap[b].id \in Ids /\ table[heap[b].id] = b
Swept(t) == req[t].op = "unload" => \A i \in Ids : i < req[t].idx => table[i] = NoBuf

LruLive == \A b \in lru : b \in Live
IdsGiven == \A b \in Live : heap[b].id <= nextId
SlotsLead == \A i \in Ids : table[i] # NoBuf => table[i] \in Live /\ heap[table[i]].id = i
CallsCarry == \A t \in Threads, b \in Bufs : Has(t) /\ req[t].buf = b => Carries(t, b)
CallsDiffer == \A t, u \in Threads : t # u /\ Has(t) /\ Has(u) => req[t].buf # req[u].buf
RestLoose == \A b \in Live : (\A t \in Threads : Has(t) => req[t].buf # b) => Loose(b)
AllSwept == \A t \in Threads : Swept(t)
GoneEmpty == ~loaded => Live = {}
BufInv == /\ LruLive /\ IdsGiven /\ SlotsLead /\ CallsCarry /\ CallsDiffer /\ RestLoose /\ AllSwept
          /\ GoneEmpty

(* A step about one buffer, which no other request has *)
About(t, b) ==
  /\ Rest(t) /\ nextId <= nextId' /\ loaded' /\ req[t].pc # "idle"
  /\ \A u \in Threads : u # t /\ Has(u) => req[u].buf # b
  /\ Has(t) => req[t].buf = b
  /\ \A c \in Bufs : c # b => heap'[c] = heap[c] /\ (c \in lru' <=> c \in lru)
  /\ \A i \in Ids : \/ table'[i] = table[i]
                    \/ /\ table[i] \in {b, NoBuf} /\ table'[i] \in {b, NoBuf}
                       /\ table[i] = NoBuf => nextId < i
  /\ \A g \in Handles : g # req[t].h => owned'[g] = owned[g]
After(t, b) ==
  /\ Has(t) => req[t].buf = b /\ Carries(t, b)
  /\ b \in lru => b \in Live
  /\ \A i \in Ids : table[i] = b => b \in Live /\ heap[b].id = i
  /\ b \in Live => heap[b].id <= nextId
  /\ b \in Live /\ ~Has(t) => Loose(b)
  /\ Swept(t)

LEMMA OwnStep ==
  ASSUME Shape, Shape', BufInv, NEW t \in Threads, NEW b \in Bufs, About(t, b), After(t, b)'
  PROVE  BufInv'
<1>1. /\ table \in [Ids -> Bufs \cup {NoBuf}] /\ table' \in [Ids -> Bufs \cup {NoBuf}]
      /\ lru' \subseteq Bufs /\ NoBuf \notin Bufs
      /\ nextId \in Nat /\ nextId' \in Nat
      /\ \A i \in Ids : i \in Nat
      /\ Rest(t)
  BY NoBufApart, IdsAreNat, BoundsAreNat DEF Shape, Typed, About
<1>2. \A c \in Bufs : c # b => (c \in Live' <=> c \in Live)
  BY DEF About, Live
<1>3. \A c \in Bufs : c \in Live /\ heap[c].id \in Ids => heap[c].id <= nextId /\ ~(nextId < heap[c].id)
  BY <1>1 DEF BufInv, IdsGiven
<1>4. \A c \in Live : heap[c].id \in Nat
  BY <1>1, LiveIs
<1>5. LruLive'
  BY <1>1, <1>2 DEF BufInv, LruLive, About, After
<1>6. IdsGiven'
  <2> SUFFICES ASSUME NEW c \in Live', c # b PROVE heap'[c].id <= nextId'
    BY DEF IdsGiven, After
  <2>1. c \in Bufs /\ c \in Live /\ heap'[c] = heap[c]
    BY <1>2 DEF About, Live
  <2>2. heap[c].id <= nextId /\ heap[c].id \in Nat
    BY <1>4, <2>1 DEF BufInv, IdsGiven
  <2>3. nextId <= nextId'
    BY DEF About
  <2> QED
    BY <1>1, <2>1, <2>2, <2>3
<1>7. SlotsLead'
  <2> SUFFICES ASSUME NEW i \in Ids, table'[i] # NoBuf, table'[i] # b
               PROVE  table'[i] \in Live' /\ heap'[table'[i]].id = i
    BY DEF SlotsLead, After
  <2>1. table'[i] = table[i] /\ table[i] \in Bufs
    BY <1>1 DEF About
  <2> QED
    BY <1>2, <2>1 DEF BufInv, SlotsLead, About
<1>8. ASSUME NEW u \in Threads, NEW c \in Bufs, u # t, Has(u)', req'[u].buf = c
      PROVE  c # b /\ Carries(u, c)'
  <2>1. Has(u) /\ req'[u] = req[u] /\ req[u].buf = c
    BY <1>1, <1>8 DEF Rest, Has
  <2>2. c # b /\ Carries(u, c) /\ heap'[c] = heap[c]
    BY <1>8, <2>1 DEF About, BufInv, CallsCarry
  <2>3. c \in Live /\ c \in Live'
    BY <1>2, <2>2 DEF Carries
  <2>4. \A i \in Ids : table[i] = c => table'[i] = c
    BY <1>1, <2>2 DEF About
  <2>5. \A i \in Ids : table'[i] = c => table[i] = c
    BY <1>1, <2>2 DEF About
  <2>6. (heap[c].id \in Ids /\ table[heap[c].id] = NoBuf) => table'[heap[c].id] = NoBuf
    BY <1>3, <2>2, <2>3 DEF About
  <2>7. req[u].op = "close" => owned'[req[u].h] = owned[req[u].h]
    <3>1. req[u].op = "close" => req[u].h \in Handles /\ req[u].h # req[t].h
      BY <1>8, WinDriverAssumption, MyCall DEF Placed
    <3> QED
      BY <3>1 DEF About
  <2>8. req[u].pc \in Registered => req[u].id \in Ids
    BY MyCall DEF WellFormed
  <2>9. c \in lru' <=> c \in lru
    BY <2>2 DEF About
  <2> QED
    BY <2>1, <2>2, <2>3, <2>4, <2>5, <2>6, <2>7, <2>8, <2>9 DEF Carries
<1>9. CallsCarry'
  BY <1>8 DEF CallsCarry, After
<1>10. CallsDiffer'
  <2>1. \A u \in Threads : Has(u)' => req'[u].buf \in Bufs
    BY DEF Shape, WellFormed, Has
  <2>2. \A u, v \in Threads : u # v /\ u # t /\ v # t /\ Has(u)' /\ Has(v)' => req'[u].buf # req'[v].buf
    BY <1>1 DEF Rest, Has, BufInv, CallsDiffer
  <2>3. \A u \in Threads : u # t /\ Has(u)' => req'[u].buf # b
    BY <1>8, <2>1
  <2> QED
    BY <2>2, <2>3 DEF CallsDiffer, After
<1>11. RestLoose'
  <2> SUFFICES ASSUME NEW c \in Live', \A u \in Threads : Has(u)' => req'[u].buf # c PROVE Loose(c)'
    BY DEF RestLoose
  <2>1. CASE c = b
    BY <2>1 DEF After
  <2>2. CASE c # b
    <3>1. c \in Bufs /\ c \in Live /\ heap'[c] = heap[c]
      BY <1>2, <2>2 DEF About, Live
    <3>2. \A u \in Threads : Has(u) => req[u].buf # c
      BY <1>1, <2>2 DEF About, Rest, Has
    <3>3. Loose(c)
      BY <3>1, <3>2 DEF BufInv, RestLoose
    <3>4. \A i \in Ids : table[i] = c => table'[i] = c
      BY <1>1, <2>2, <3>1 DEF About
    <3> QED
      BY <3>1, <3>3, <3>4 DEF Loose
  <2> QED
    BY <2>1, <2>2
<1>12. AllSwept'
  <2> SUFFICES ASSUME NEW u \in Threads, u # t, req'[u].op = "unload" PROVE FALSE
    BY DEF AllSwept, Swept, After
  <2> QED
    BY <1>1 DEF Rest, Shape, Alone, About
<1>13. GoneEmpty'
  BY DEF GoneEmpty, About
<1> QED
  BY <1>5, <1>6, <1>7, <1>9, <1>10, <1>11, <1>12, <1>13 DEF BufInv

(* A step about none *)
LEMMA PlainStep ==
  ASSUME Shape, Shape', BufInv, NEW t \in Threads, Rest(t), ~Has(t), ~Has(t)', Swept(t)',
         UNCHANGED <<heap, table, nextId, lru, owned>>, GoneEmpty'
  PROVE  BufInv'
<1>1. Live' = Live
  BY DEF Live
<1>2. \A u \in Threads : Has(u)' => Has(u) /\ req'[u] = req[u] /\ u # t
  BY DEF Rest, Has
<1>3. \A u \in Threads : Has(u) => Has(u)' /\ req'[u] = req[u]
  BY DEF Rest, Has
<1>4. LruLive' /\ IdsGiven' /\ SlotsLead' /\ CallsDiffer' /\ GoneEmpty'
  BY <1>1, <1>2 DEF BufInv, LruLive, IdsGiven, SlotsLead, CallsDiffer
<1>5. CallsCarry'
  BY <1>1, <1>2 DEF BufInv, CallsCarry, Carries
<1>6. RestLoose'
  BY <1>1, <1>3 DEF BufInv, RestLoose, Loose
<1>7. AllSwept'
  BY DEF BufInv, AllSwept, Swept, Rest
<1> QED
  BY <1>4, <1>5, <1>6, <1>7 DEF BufInv

(* What a request knows of its own buffer *)
LEMMA Mine ==
  ASSUME Shape, BufInv, NEW t \in Threads, Has(t)
  PROVE  /\ req[t].buf \in Bufs /\ Carries(t, req[t].buf) /\ loaded /\ req[t].pc # "idle"
         /\ \A u \in Threads : u # t /\ Has(u) => req[u].buf # req[t].buf
         /\ \A i \in Ids : table[i] = req[t].buf => heap[req[t].buf].id = i
<1>1. req[t].buf \in Bufs
  BY MyCall DEF WellFormed, Has
<1> QED
  BY <1>1, NoBufApart DEF Has, BufInv, CallsCarry, CallsDiffer, SlotsLead, Shape, Alone, Quiet

(* What an id of one's own leads to is nobody else's *)
LEMMA FoundAlone ==
  ASSUME Shape, ClaimInv, BufInv, NEW t \in Threads, NEW i \in Ids,
         table[i] # NoBuf, req[t].h \in Handles, Claims(req[t].h, i),
         req[t].id = i \/ req[t].op = "close",
         NEW u \in Threads, u # t, Has(u), req[u].buf = table[i]
  PROVE  FALSE
<1>1. PICK b \in Bufs : b = table[i]
  BY DEF Shape, Typed
<1>2. b \in Live /\ heap[b].id = i /\ Carries(u, b)
  BY <1>1, Mine DEF BufInv, SlotsLead
<1>3. 0 \notin Ids
  BY IdsAreNat
<1>4. req[u].id # i
  <2> SUFFICES ASSUME req[u].id = i PROVE FALSE
    OBVIOUS
  <2>1. req[t].id # i
    BY DEF ClaimInv, CallsApart
  <2>2. req[t].op = "close"
    BY <2>1
  <2>3. req[u].h \in Handles
    BY <1>3, Idles, MyCall DEF WellFormed, Placed, Shape, Typed
  <2>4. Claims(req[u].h, i)
    BY <2>3, MyClaims
  <2>5. req[u].h = req[t].h
    BY <2>3, <2>4 DEF ClaimInv, ClaimsApart
  <2> QED
    BY <2>2, <2>5, MyCall DEF Placed
<1>5. req[u].pc \in Freeing
  BY <1>2, <1>3, <1>4 DEF Carries, Has
<1>6. CASE req[u].op \in Allocs \cup {"free"}
  BY <1>2, <1>4, <1>5, <1>6 DEF Carries
<1>7. CASE req[u].op = "close"
  <2>1. heap[b].id \in owned[req[u].h] /\ req[u].h \in Handles
    BY <1>2, <1>5, <1>7, MyCall, WinDriverAssumption DEF Carries, Placed
  <2>2. req[u].h = req[t].h
    BY <1>2, <2>1, MyClaims DEF ClaimInv, ClaimsApart
  <2> QED
    BY <1>7, <2>2, MyCall DEF Placed
<1>8. CASE req[u].op \in {"reset", "unload"}
  <2>1. req[t].pc = "idle"
    BY <1>8 DEF Shape, Alone
  <2> QED
    BY <2>1, Idles, NoBufApart
<1> QED
  BY <1>5, <1>6, <1>7, <1>8, MyCall DEF WellFormed

(* What the table gives back is alive *)
LEMMA FoundIs ==
  ASSUME Shape, BufInv, NEW i \in Ids, Active(table[i])
  PROVE  /\ table[i] \in Bufs /\ table[i] \in Live /\ heap[table[i]] \in Buffer
         /\ heap[table[i]].id = i /\ heap[table[i]].active
<1>1. table[i] \in Live /\ heap[table[i]].id = i
  BY DEF Active, BufInv, SlotsLead
<1> QED
  BY <1>1, LiveIs DEF Active

(* RESET and the unloading find buffers that no request has *)
LEMMA AloneHas ==
  ASSUME Shape, NEW t \in Threads, req[t].op \in {"reset", "unload"}, NEW u \in Threads, u # t
  PROVE  ~Has(u)
BY DEF Shape, Alone, Has

Holds(t, b) ==
  /\ b = req[t].buf /\ Carries(t, b) /\ loaded /\ req[t].pc # "idle"
  /\ \A u \in Threads : u # t /\ Has(u) => req[u].buf # b
  /\ \A i \in Ids : table[i] = b => heap[b].id = i
  /\ heap[b].id <= nextId

LEMMA HoldsOne ==
  ASSUME Shape, BufInv, NEW t \in Threads, Has(t)
  PROVE  \E b \in Bufs : Holds(t, b)
BY Mine DEF Holds, Carries, BufInv, IdsGiven

USE DEF Holds

LEMMA BufAllocs ==
  ASSUME Shape, Shape', IdInv, IdsLast, ClaimInv, BufInv, NEW t \in Threads,
         Takes(t) \/ Accounts(t) \/ Registers(t) \/ Maps(t)
  PROVE  BufInv'
<1>0. /\ table \in [Ids -> Bufs \cup {NoBuf}] /\ nextId \in Nat /\ 0 <= nextId
      /\ \A i \in Ids : i \in Nat /\ i # 0
  BY IdsAreNat, BoundsAreNat DEF Shape, Typed
<1>1. CASE Takes(t)
  <2>1. PICK b \in Bufs : b = req'[t].buf
    BY <1>1 DEF Takes
  <2>2. /\ heap[b] = NoBuf /\ heap'[b] \in Buffer /\ heap'[b].id = 0 /\ ~heap'[b].active
        /\ \A c \in Bufs : c # b => heap'[c] = heap[c]
        /\ Rest(t) /\ req[t].pc \in Starting /\ req'[t].pc = "account"
        /\ UNCHANGED <<table, nextId, lru, owned, loaded>>
    BY <1>1, <2>1 DEF Takes, Moves, tableVars, fileVars
  <2>3. b \notin Live /\ b \in Live' /\ ~Has(t)
    BY <2>2, NoBufApart DEF Live, Has
  <2>4. b \notin lru /\ \A i \in Ids : table[i] # b
    BY <2>3, NoBufApart DEF BufInv, LruLive, SlotsLead
  <2>5. \A u \in Threads : Has(u) => req[u].buf # b
    BY <2>3, Mine DEF Carries
  <2>6. loaded /\ req'[t].op # "unload"
    BY <2>2, MyCall, <1>1 DEF Takes, SameCall, WellFormed, Shape, Alone, Quiet
  <2>7. About(t, b)
    BY <1>0, <2>2, <2>3, <2>5, <2>6 DEF About
  <2>8. After(t, b)'
    BY <1>0, <2>1, <2>2, <2>3, <2>4, <2>6 DEF After, Carries, Has, Swept
  <2> QED
    BY <2>7, <2>8, OwnStep
<1>2. CASE Accounts(t)
  <2>1. Has(t)
    BY <1>2 DEF Accounts, Moves, Has
  <2>2. PICK b \in Bufs : Holds(t, b)
    BY <2>1, HoldsOne
  <2>3. /\ Rest(t) /\ req[t].pc = "account" /\ req'[t].pc = "register"
        /\ req'[t].buf = b /\ req'[t].op = req[t].op /\ req[t].op # "unload"
        /\ UNCHANGED <<heap, table, nextId, owned, loaded>>
        /\ lru' \in {lru, lru \cup {b}}
    BY <1>2, <2>2, MyCall DEF Accounts, Moves, Keeps, SameCall, tableVars, fileVars, WellFormed
  <2>4. b \in Live /\ b \in Live' /\ heap[b].id = 0 /\ ~heap[b].active
    BY <2>2, <2>3 DEF Carries, Live
  <2>5. About(t, b)
    BY <1>0, <2>2, <2>3 DEF About
  <2>6. After(t, b)'
    BY <1>0, <2>2, <2>3, <2>4 DEF After, Carries, Has, Swept
  <2> QED
    BY <2>5, <2>6, OwnStep
<1>3. CASE Registers(t)
  <2>1. Has(t)
    BY <1>3 DEF Registers, Moves, Has
  <2>2. PICK b \in Bufs : Holds(t, b)
    BY <2>1, HoldsOne
  <2>3. PICK n \in Ids : n = nextId + 1 /\ nextId' = n /\ req'[t].id = n
    BY <1>3, NewId
  <2>4. /\ Rest(t) /\ req[t].pc = "register" /\ req'[t].pc = "map"
        /\ req'[t].buf = b /\ req'[t].op = req[t].op /\ req[t].op # "unload"
        /\ UNCHANGED <<owned, loaded, lru>>
        /\ table' = [table EXCEPT ![n] = b]
        /\ heap'[b] \in Buffer /\ heap'[b].id = n /\ heap'[b].active = TRUE
        /\ \A c \in Bufs : c # b => heap'[c] = heap[c]
    BY <1>3, <2>2, <2>3, MyCall DEF Registers, Moves, fileVars, Alters, WellFormed
  <2>5. b \in Live /\ b \in Live' /\ heap[b].id = 0
    BY <2>2, <2>4, NoBufApart DEF Carries, Live
  <2>6. ~(n <= nextId) /\ nextId < n /\ nextId <= n /\ n <= n
    BY <1>0, <2>3
  <2>7. table[n] = NoBuf
    BY <2>6 DEF ClaimInv, SlotsGiven
  <2>8. \A i \in Ids : table'[i] = (IF i = n THEN b ELSE table[i])
    BY <1>0, <2>4
  <2>9. \A i \in Ids : table[i] # b
    BY <1>0, <2>2, <2>5
  <2>10. About(t, b)
    BY <1>0, <2>2, <2>3, <2>4, <2>6, <2>7, <2>8 DEF About
  <2>11. Carries(t, b)'
    BY <2>3, <2>4, <2>5, <2>8 DEF Carries
  <2>12. After(t, b)'
    BY <2>3, <2>4, <2>5, <2>6, <2>8, <2>9, <2>11 DEF After, Has, Swept
  <2> QED
    BY <2>10, <2>12, OwnStep
<1>4. CASE Maps(t)
  <2>1. Has(t)
    BY <1>4 DEF Maps, Moves, Has
  <2>2. PICK b \in Bufs : Holds(t, b)
    BY <2>1, HoldsOne
  <2>3. /\ Rest(t) /\ req[t].pc = "map" /\ req'[t].pc \in {"own", "unlink"}
        /\ req'[t].buf = b /\ req'[t].op = req[t].op /\ req[t].op \in Allocs
        /\ req'[t].id = req[t].id
        /\ UNCHANGED <<heap, table, nextId, owned, loaded, lru>>
    BY <1>4, <2>2, MyCall DEF Maps, Moves, Keeps, SameCall, others, tableVars, fileVars, WellFormed
  <2>4. b \in Live /\ b \in Live' /\ heap[b].id = req[t].id /\ heap[b].active /\ table[req[t].id] = b
    BY <2>2, <2>3 DEF Carries, Live
  <2>5. About(t, b)
    BY <1>0, <2>2, <2>3 DEF About
  <2>6. Carries(t, b)'
    BY <2>3, <2>4 DEF Carries
  <2>7. After(t, b)'
    BY <2>2, <2>3, <2>4, <2>6 DEF After, Has, Swept, BufInv, IdsGiven
  <2> QED
    BY <2>5, <2>7, OwnStep
<1> QED
  BY <1>1, <1>2, <1>3, <1>4

LEMMA BufOwned ==
  ASSUME Shape, Shape', IdInv, IdsLast, ClaimInv, BufInv, NEW t \in Threads,
         ReadsOwned(t) \/ SetsOwned(t) \/ ClearsOwned(t)
  PROVE  BufInv'
<1>1. Has(t) /\ req[t].pc \in {"own", "owned"}
  BY DEF ReadsOwned, SetsOwned, ClearsOwned, Moves, Has
<1>2. PICK b \in Bufs : Holds(t, b)
  BY <1>1, HoldsOne
<1>3. /\ Rest(t) /\ UNCHANGED <<heap, table, nextId, lru, loaded>>
      /\ req'[t].pc \in {"owned", "idle", "unlink"}
      /\ req'[t].pc # "idle" => req'[t].buf = b /\ req'[t].op = req[t].op /\ req'[t].id = req[t].id
      /\ req'[t].pc = "unlink" => req[t].op = "free"
      /\ \A g \in Handles : g # req[t].h => owned'[g] = owned[g]
  BY <1>2 DEF ReadsOwned, SetsOwned, ClearsOwned, Moves, Keeps, SameCall, others, tableVars, fileVars,
              Shape, Typed
<1>4. req'[t].op # "unload"
  BY <1>1, <1>3, MyCall, IdlesNext DEF WellFormed
<1>5. /\ b \in Live /\ b \in Live' /\ heap[b].id = req[t].id /\ heap[b].active
      /\ table[req[t].id] = b /\ req[t].id \in Ids
  BY <1>1, <1>2, <1>3, MyCall DEF Carries, Live, WellFormed
<1>6. nextId <= nextId
  BY BoundsAreNat DEF Shape, Typed
<1>7. About(t, b)
  BY <1>2, <1>3, <1>6 DEF About
<1>8. req'[t].pc # "idle" => Carries(t, b)'
  BY <1>3, <1>5 DEF Carries
<1>9. After(t, b)'
  BY <1>2, <1>3, <1>4, <1>5, <1>8 DEF After, Has, Swept, Loose
<1> QED
  BY <1>7, <1>9, OwnStep

LEMMA BufUses ==
  ASSUME Shape, Shape', IdInv, IdsLast, ClaimInv, BufInv, NEW t \in Threads,
         Advises(t) \/ Relabels(t) \/ Leaves(t) \/ Delists(t)
  PROVE  BufInv'
<1>1. Has(t) /\ req[t].pc \in {"advise", "relabel", "delist"}
  BY DEF Advises, Relabels, Leaves, Delists, Moves, Has
<1>2. PICK b \in Bufs : Holds(t, b)
  BY <1>1, HoldsOne
<1>3. /\ Rest(t) /\ UNCHANGED <<table, nextId, owned, loaded>>
      /\ req'[t].pc \in {"delist", "idle"}
      /\ req'[t].pc # "idle" => req'[t].buf = b /\ req'[t].op = req[t].op /\ req'[t].id = req[t].id
      /\ lru' \in {lru, lru \cup {b}, lru \ {b}}
  BY <1>2 DEF Advises, Relabels, Leaves, Delists, Moves, Keeps, SameCall, tableVars, fileVars
<1>4. /\ heap'[b].id = heap[b].id /\ heap'[b].active = heap[b].active /\ heap'[b] # NoBuf
      /\ \A c \in Bufs : c # b => heap'[c] = heap[c]
  BY <1>2, NoBufApart DEF Advises, Relabels, Leaves, Delists, Alters
<1>5. req'[t].op # "unload"
  BY <1>1, <1>3, MyCall, IdlesNext DEF WellFormed
<1>6. /\ b \in Live /\ b \in Live' /\ heap[b].id = req[t].id /\ heap[b].active
      /\ table[req[t].id] = b /\ req[t].id \in Ids
  BY <1>1, <1>2, <1>4, MyCall DEF Carries, Live, WellFormed
<1>7. nextId <= nextId
  BY BoundsAreNat DEF Shape, Typed
<1>8. About(t, b)
  BY <1>2, <1>3, <1>4, <1>7 DEF About
<1>9. req'[t].pc # "idle" => Carries(t, b)'
  BY <1>3, <1>4, <1>6 DEF Carries
<1>10. After(t, b)'
  BY <1>2, <1>3, <1>4, <1>5, <1>6, <1>9 DEF After, Has, Swept, Loose
<1> QED
  BY <1>8, <1>10, OwnStep

LEMMA BufFinds ==
  ASSUME Shape, Shape', IdInv, IdsLast, ClaimInv, BufInv, NEW t \in Threads, Finds(t)
  PROVE  BufInv'
<1>1. /\ Rest(t) /\ req[t].pc = "lookup" /\ req'[t].pc \in {"own", "advise", "relabel"}
      /\ req'[t].id = req[t].id /\ req'[t].op = req[t].op /\ UNCHANGED others
      /\ req'[t].buf = table[req[t].id] /\ Active(table[req[t].id])
  BY DEF Finds, Moves, SameCall
<1>2. req[t].id \in Ids /\ req[t].op \in Named /\ req[t].h \in Handles
  BY <1>1, MyCall DEF WellFormed, Placed, Shape, Typed
<1>3. PICK b \in Bufs : b = table[req[t].id]
  BY <1>1, <1>2, FoundIs
<1>4. b \in Live /\ heap[b].id = req[t].id /\ heap[b].active /\ table[req[t].id] # NoBuf
  BY <1>1, <1>2, <1>3, FoundIs, NoBufApart
<1>5. \A u \in Threads : u # t /\ Has(u) => req[u].buf # b
  BY <1>2, <1>3, <1>4, FoundAlone, MyClaims
<1>6. loaded /\ nextId <= nextId
  BY <1>1, BoundsAreNat DEF Shape, Typed, Alone, Quiet
<1>7. About(t, b)
  BY <1>1, <1>5, <1>6 DEF About, others, tableVars, fileVars, Has
<1>8. b \in Live' /\ UNCHANGED <<heap, table, nextId, lru>>
  BY <1>1, <1>4 DEF others, tableVars, Live
<1>9. Carries(t, b)'
  BY <1>1, <1>3, <1>4, <1>8 DEF Carries
<1>10. After(t, b)'
  BY <1>1, <1>2, <1>3, <1>4, <1>8, <1>9 DEF After, Has, Swept, BufInv, SlotsLead, IdsGiven, LruLive
<1> QED
  BY <1>7, <1>10, OwnStep

LEMMA BufFrees ==
  ASSUME Shape, Shape', IdInv, IdsLast, ClaimInv, BufInv, NEW t \in Threads,
         Unlinks(t) \/ Unregisters(t) \/ Releases(t)
  PROVE  BufInv'
<1>0. /\ table \in [Ids -> Bufs \cup {NoBuf}] /\ nextId <= nextId
      /\ 0 \notin Ids /\ NoBuf \notin Bufs
  BY IdsAreNat, BoundsAreNat, NoBufApart DEF Shape, Typed
<1>1. Has(t) /\ req[t].pc \in Freeing
  BY DEF Unlinks, Unregisters, Releases, Moves, Has
<1>2. PICK b \in Bufs : Holds(t, b)
  BY <1>1, HoldsOne
<1>3. /\ Rest(t) /\ UNCHANGED <<nextId, owned, loaded>>
  BY DEF Unlinks, Unregisters, Releases, Moves, tableVars, fileVars
<1>4. Swept(t)
  BY DEF BufInv, AllSwept
<1>5. b \in Live
  BY <1>2 DEF Carries
<1>6. CASE Unlinks(t)
  <2>1. /\ req[t].pc = "unlink" /\ req'[t].pc = "unregister" /\ lru' = lru \ {b}
        /\ req'[t].buf = b /\ req'[t].op = req[t].op /\ req'[t].id = req[t].id
        /\ req'[t].h = req[t].h /\ req'[t].idx = req[t].idx
        /\ heap'[b].id = heap[b].id /\ heap'[b] # NoBuf
        /\ \A c \in Bufs : c # b => heap'[c] = heap[c]
        /\ UNCHANGED table
    BY <1>2, <1>6, NoBufApart DEF Unlinks, Moves, Keeps, SameCall, Alters, tableVars
  <2>2. About(t, b)
    BY <1>0, <1>2, <1>3, <2>1 DEF About
  <2>3. Carries(t, b)'
    BY <1>2, <1>3, <1>5, <2>1 DEF Carries, Live
  <2>4. After(t, b)'
    BY <1>2, <1>3, <1>4, <1>5, <2>1, <2>3 DEF After, Has, Swept, Live
  <2> QED
    BY <2>2, <2>4, OwnStep
<1>7. CASE Unregisters(t)
  <2>1. /\ req[t].pc = "unregister" /\ req'[t].pc = "release" /\ UNCHANGED <<heap, lru>>
        /\ req'[t].buf = b /\ req'[t].op = req[t].op /\ req'[t].id = req[t].id
        /\ req'[t].h = req[t].h /\ req'[t].idx = req[t].idx
    BY <1>2, <1>7 DEF Unregisters, Moves, Keeps, SameCall
  <2>2. \/ heap[b].id \in Ids /\ table' = [table EXCEPT ![heap[b].id] = NoBuf]
        \/ heap[b].id = 0 /\ table' = table
    BY <1>2, <1>7 DEF Unregisters
  <2>3. heap[b].id \in Ids => table[heap[b].id] \in {b, NoBuf}
    BY <1>2, <2>1 DEF Carries
  <2>4. \A i \in Ids : table'[i] = table[i] \/ (table[i] = b /\ table'[i] = NoBuf)
    BY <1>0, <2>2, <2>3
  <2>5. \A i \in Ids : table'[i] # b
    BY <1>0, <1>2, <2>2
  <2>6. About(t, b)
    BY <1>0, <1>2, <1>3, <2>1, <2>4 DEF About
  <2>7. Carries(t, b)'
    BY <1>2, <1>3, <1>5, <2>1, <2>5 DEF Carries, Live
  <2>8. Swept(t)'
    BY <1>4, <2>1, <2>4 DEF Swept
  <2>9. After(t, b)'
    BY <1>2, <1>3, <1>5, <2>1, <2>5, <2>7, <2>8 DEF After, Has, Live
  <2> QED
    BY <2>6, <2>9, OwnStep
<1>8. CASE Releases(t)
  <2>1. /\ req[t].pc = "release" /\ req'[t].pc \in {"idle", "scan"} /\ UNCHANGED <<table, lru>>
        /\ req'[t].pc = "scan" => req'[t].op = req[t].op /\ req'[t].idx = req[t].idx
        /\ heap'[b] = NoBuf
        /\ \A c \in Bufs : c # b => heap'[c] = heap[c]
    BY <1>2, <1>8 DEF Releases, Moves, SameCall, tableVars
  <2>2. b \notin lru /\ \A i \in Ids : table[i] # b
    BY <1>2, <2>1 DEF Carries
  <2>3. About(t, b)
    BY <1>0, <1>2, <1>3, <2>1 DEF About
  <2>4. Swept(t)'
    BY <1>4, <2>1, IdlesNext DEF Swept
  <2>5. After(t, b)'
    BY <2>1, <2>2, <2>4 DEF After, Has, Live
  <2> QED
    BY <2>3, <2>5, OwnStep
<1> QED
  BY <1>6, <1>7, <1>8

LEMMA BufScans ==
  ASSUME Shape, Shape', IdInv, IdsLast, ClaimInv, BufInv, NEW t \in Threads,
         ResetsEntry(t) \/ UnloadsEntry(t) \/ CleansEntry(t)
  PROVE  BufInv'
<1>0. /\ table \in [Ids -> Bufs \cup {NoBuf}] /\ heap \in [Bufs -> Buffer \cup {NoBuf}]
      /\ nextId <= nextId /\ 0 <= nextId
      /\ 0 \notin Ids /\ NoBuf \notin Bufs
  BY IdsAreNat, BoundsAreNat, NoBufApart DEF Shape, Typed
<1>1. PICK i \in Ids : i = req[t].idx
  BY DEF ResetsEntry, UnloadsEntry, CleansEntry, Comes
<1>2. /\ Rest(t) /\ req[t].pc = "scan" /\ req'[t].pc = "unlink" /\ SameCall(t)
      /\ req'[t].idx = i + 1 /\ Active(table[i]) /\ req'[t].buf = table[i]
      /\ UNCHANGED <<nextId, owned, loaded, lru>>
  BY <1>1 DEF ResetsEntry, UnloadsEntry, CleansEntry, Comes, Moves, others, tableVars, fileVars
<1>3. PICK b \in Bufs : b = table[i]
  BY <1>2, FoundIs
<1>4. b \in Live /\ heap[b] \in Buffer /\ heap[b].id = i /\ heap[b].active /\ table[i] # NoBuf
  BY <1>2, <1>3, FoundIs, NoBufApart
<1>5. /\ ~Has(t) /\ loaded /\ (b \in lru => b \in Live)
      /\ heap[b].id <= nextId
      /\ \A j \in Ids : table[j] = b => j = i
  BY <1>0, <1>2, <1>3, <1>4 DEF Has, BufInv, IdsGiven, SlotsLead, Shape, Alone, Quiet
<1>6. CASE ResetsEntry(t)
  <2>1. /\ req[t].op = "reset" /\ table' = [table EXCEPT ![i] = NoBuf]
        /\ heap' = [heap EXCEPT ![b].id = 0]
    BY <1>1, <1>3, <1>4, <1>6 DEF ResetsEntry, Comes, WithoutId
  <2>2. /\ heap'[b] = [heap[b] EXCEPT !.id = 0]
        /\ \A c \in Bufs : c # b => heap'[c] = heap[c]
    BY <1>0, <2>1
  <2>3. heap'[b].id = 0 /\ heap'[b] # NoBuf
    <3>1. [heap[b] EXCEPT !.id = 0] \in Buffer /\ [heap[b] EXCEPT !.id = 0].id = 0
      BY <1>4, WinDriverAssumption DEF Buffer
    <3> QED
      BY <2>2, <3>1, NoBufApart
  <2>4. \A u \in Threads : u # t => ~Has(u)
    BY <2>1, AloneHas
  <2>5. \A j \in Ids : table'[j] = (IF j = i THEN NoBuf ELSE table[j])
    BY <1>0, <2>1
  <2>6. About(t, b)
    BY <1>0, <1>2, <1>3, <1>5, <2>2, <2>4, <2>5 DEF About
  <2>7. \A j \in Ids : table'[j] # b
    BY <1>0, <1>5, <2>5
  <2>8. Carries(t, b)'
    BY <1>0, <1>2, <2>1, <2>3 DEF Carries, Live, SameCall
  <2>9. After(t, b)'
    BY <1>0, <1>2, <1>3, <2>1, <2>3, <2>7, <2>8 DEF After, Has, Swept, SameCall, Live
  <2> QED
    BY <2>6, <2>9, OwnStep
<1>7. CASE UnloadsEntry(t)
  <2>1. req[t].op = "unload" /\ table' = [table EXCEPT ![i] = NoBuf] /\ heap' = heap
    BY <1>1, <1>7 DEF UnloadsEntry, Comes
  <2>2. \A u \in Threads : u # t => ~Has(u)
    BY <2>1, AloneHas
  <2>3. \A j \in Ids : table'[j] = (IF j = i THEN NoBuf ELSE table[j])
    BY <1>0, <2>1
  <2>4. About(t, b)
    BY <1>0, <1>2, <1>3, <1>5, <2>1, <2>2, <2>3 DEF About
  <2>5. \A j \in Ids : table'[j] # b
    BY <1>0, <1>5, <2>3
  <2>6. Carries(t, b)'
    BY <1>2, <1>4, <2>1, <2>3 DEF Carries, Live, SameCall
  <2>7. Swept(t)'
    <3>1. \A j \in Ids : j < i => table[j] = NoBuf
      BY <1>1, <2>1 DEF BufInv, AllSwept, Swept
    <3>2. \A j \in Ids : j < i + 1 => j < i \/ j = i
      BY IdsAreNat
    <3> QED
      BY <1>2, <2>3, <3>1, <3>2 DEF Swept
  <2>8. After(t, b)'
    BY <1>2, <1>3, <1>4, <1>5, <2>1, <2>5, <2>6, <2>7 DEF After, Has, Live
  <2> QED
    BY <2>4, <2>8, OwnStep
<1>8. CASE CleansEntry(t)
  <2>1. req[t].op = "close" /\ i \in owned[req[t].h] /\ UNCHANGED <<heap, table>>
    BY <1>1, <1>8 DEF CleansEntry, Comes, others, tableVars
  <2>2. req[t].h \in Handles
    BY <2>1, MyCall, WinDriverAssumption DEF Placed
  <2>3. Claims(req[t].h, i)
    BY <2>1, <2>2, MyClaims
  <2>4. \A u \in Threads : u # t /\ Has(u) => req[u].buf # b
    BY <1>3, <1>4, <2>1, <2>2, <2>3, FoundAlone
  <2>5. About(t, b)
    BY <1>0, <1>2, <1>5, <2>1, <2>4 DEF About
  <2>6. Carries(t, b)'
    BY <1>2, <1>3, <1>4, <2>1 DEF Carries, Live, SameCall
  <2>7. After(t, b)'
    BY <1>2, <1>3, <1>4, <1>5, <2>1, <2>6 DEF After, Has, Swept, SameCall, Live
  <2> QED
    BY <2>5, <2>7, OwnStep
<1> QED
  BY <1>6, <1>7, <1>8

(* The slot a scan passes over is empty, if the scan runs alone *)
LEMMA SkippedIsEmpty ==
  ASSUME Shape, BufInv, NEW t \in Threads, req[t].op \in {"reset", "unload"}, ~Has(t),
         NEW i \in Ids, ~Active(table[i])
  PROVE  table[i] = NoBuf
<1> SUFFICES ASSUME table[i] # NoBuf PROVE FALSE
  OBVIOUS
<1>1. table[i] \in Live
  BY DEF BufInv, SlotsLead
<1>2. Loose(table[i])
  BY <1>1, AloneHas DEF BufInv, RestLoose
<1> QED
  BY <1>2 DEF Loose, Active

LEMMA BufSkips ==
  ASSUME Shape, Shape', IdInv, IdsLast, ClaimInv, BufInv, NEW t \in Threads, Skips(t)
  PROVE  BufInv'
<1>1. /\ Rest(t) /\ req[t].pc = "scan" /\ req'[t].pc = "scan" /\ req'[t].op = req[t].op
      /\ UNCHANGED others /\ req[t].idx \in Ids /\ req'[t].idx = req[t].idx + 1
      /\ req[t].op = "close" \/ ~Active(table[req[t].idx])
  BY DEF Skips, Moves, SameCall
<1>2. Swept(t)'
  <2> SUFFICES ASSUME req[t].op = "unload", NEW j \in Ids, j < req[t].idx + 1 PROVE table[j] = NoBuf
    BY <1>1 DEF Swept, others, tableVars
  <2>1. j < req[t].idx \/ j = req[t].idx
    BY <1>1, IdsAreNat
  <2>2. j = req[t].idx => table[j] = NoBuf
    BY <1>1, SkippedIsEmpty DEF Has
  <2> QED
    BY <2>1, <2>2 DEF BufInv, AllSwept, Swept
<1>3. loaded' = loaded /\ Live' = Live
  BY <1>1 DEF others, fileVars, Live
<1> QED
  BY <1>1, <1>2, <1>3, PlainStep DEF others, tableVars, fileVars, Has, BufInv, GoneEmpty

LEMMA BufPlain ==
  ASSUME Shape, Shape', BufInv, NEW t \in Threads, Tries(t) \/ GivesUp(t) \/ ClientKinds(t)
  PROVE  BufInv'
<1>1. /\ Rest(t) /\ ~Has(t) /\ ~Has(t)' /\ UNCHANGED <<heap, table, nextId, lru, owned, loaded>>
  BY DEF Tries, GivesUp, ClientKinds, AsksMemory, AsksBuffer, AsksReset, Closes, Unloads, Moves, Has,
         others, tableVars, fileVars
<1>2. req'[t].op = "unload" => req'[t].idx = 1
  <2>1. Tries(t) => req'[t].op = "alloc"
    BY MyCall DEF Tries, Moves, Keeps, SameCall, WellFormed
  <2>2. GivesUp(t) => req'[t].op = "none"
    BY IdlesNext DEF GivesUp, Moves
  <2>3. WellFormed(req'[t])
    BY DEF Shape
  <2>4. AsksMemory(t) \/ AsksBuffer(t) => req'[t].op # "unload"
    BY <2>3 DEF AsksMemory, AsksBuffer, Moves, WellFormed
  <2> QED
    BY <2>1, <2>2, <2>4 DEF ClientKinds, AsksReset, Closes, Unloads
<1>3. Swept(t)'
  BY <1>2, IdsAreNat DEF Swept
<1>4. GoneEmpty'
  BY <1>1 DEF BufInv, GoneEmpty, Live
<1> QED
  BY <1>1, <1>3, <1>4, PlainStep

LEMMA BufEnds ==
  ASSUME Shape, Shape', BufInv, NEW t \in Threads, Ends(t)
  PROVE  BufInv'
<1>1. /\ Rest(t) /\ req[t].pc = "scan" /\ req'[t].pc = "idle"
      /\ UNCHANGED <<heap, table, nextId, lru, owned>>
      /\ loaded' = (req[t].op # "unload")
      /\ req[t].op # "close" => req[t].idx = MaxBufs
  BY DEF Ends, Moves, tableVars
<1>2. Swept(t)'
  BY <1>1, IdlesNext DEF Swept
<1>3. ASSUME req[t].op = "unload" PROVE Live = {}
  <2>1. \A i \in Ids : table[i] = NoBuf
    BY <1>1, <1>3, IdsAreNat DEF BufInv, AllSwept, Swept
  <2>2. \A u \in Threads : ~Has(u)
    BY <1>1, <1>3, AloneHas DEF Has
  <2>3. \A b \in Live : Loose(b) /\ b \in Bufs
    BY <2>2 DEF BufInv, RestLoose, Live
  <2> QED
    BY <2>1, <2>3, NoBufApart DEF Loose
<1>4. GoneEmpty'
  BY <1>1, <1>3 DEF GoneEmpty, Live
<1> QED
  BY <1>1, <1>2, <1>4, PlainStep DEF Has

LEMMA BufRest ==
  ASSUME Shape, Shape', BufInv, UNCHANGED vars \/ Load \/ \E h \in Handles : Open(h)
  PROVE  BufInv'
<1>1. CASE UNCHANGED vars
  BY <1>1 DEF vars, tableVars, fileVars, BufInv, LruLive, IdsGiven, SlotsLead, CallsCarry, CallsDiffer,
              RestLoose, AllSwept, GoneEmpty, Has, Carries, Loose, Swept, Live
<1>2. CASE Load
  <2>1. /\ Live' = {} /\ lru' = {} /\ loaded' /\ \A i \in Ids : table'[i] = NoBuf
        /\ \A u \in Threads : ~Has(u)'
    BY <1>2 DEF Load, BufInv, GoneEmpty, Live, Shape, Alone, Quiet, Has
  <2> QED
    BY <2>1 DEF BufInv, LruLive, IdsGiven, SlotsLead, CallsCarry, CallsDiffer,
                RestLoose, AllSwept, GoneEmpty, Swept
<1>3. ASSUME NEW h \in Handles, Open(h) PROVE BufInv'
  <2>1. /\ UNCHANGED <<heap, table, nextId, lru, loaded, req>>
        /\ \A u \in Threads : req[u].h # h
        /\ \A g \in Handles : g # h => owned'[g] = owned[g]
    BY <1>3 DEF Open, tableVars, Shape, Typed
  <2>2. \A u \in Threads : req[u].op = "close" => owned'[req[u].h] = owned[req[u].h]
    BY <2>1, MyCall, WinDriverAssumption DEF Placed
  <2>3. \A u \in Threads, b \in Bufs : Carries(u, b) => Carries(u, b)'
    BY <2>1, <2>2 DEF Carries, Live
  <2> QED
    BY <2>1, <2>3 DEF BufInv, LruLive, IdsGiven, SlotsLead, CallsCarry, CallsDiffer,
                RestLoose, AllSwept, GoneEmpty, Has, Loose, Swept, Live
<1> QED
  BY <1>1, <1>2, <1>3

LEMMA BufStep ==
  ASSUME Shape, Shape', IdInv, IdsLast, ClaimInv, BufInv, [Next]_vars
  PROVE  BufInv'
<1>1. ASSUME NEW t \in Threads, StepKinds(t) PROVE BufInv'
  BY <1>1, NewId, BufAllocs, BufOwned, BufUses, BufFinds, BufFrees, BufScans, BufSkips, BufPlain, BufEnds
     DEF StepKinds
<1> QED
  BY <1>1, BufPlain, BufRest, Kinds

LEMMA BufInvariant ==
  ASSUME Careful, IdsLast
  PROVE  Spec => [](Shape /\ IdInv /\ ClaimInv /\ BufInv)
<1>1. Init => BufInv
  BY NoRequestIs DEF Init, BufInv, LruLive, IdsGiven, SlotsLead, CallsCarry, CallsDiffer,
                RestLoose, AllSwept, GoneEmpty, Has, Swept, Live
<1> QED
  BY <1>1, ShapeNext, BufStep, ClaimInvariant, PTL DEF Spec

(* With ids to spare, LruList links no freed buffer.                        *)
THEOREM LinkedBuffersLive ==
  ASSUME Careful, IdsLast
  PROVE  Spec => []LruNodesLive
<1>1. BufInv => LruNodesLive
  BY DEF BufInv, LruLive, LruNodesLive
<1> QED
  BY <1>1, BufInvariant, PTL

-----------------------------------------------------------------------------
(* What the ids of a client lead to *)

HeldInv == \A h \in open : \A i \in held[h] : table[i] # NoBuf

(* A slot that a step clears is not held *)
LEMMA ClearedIsFree ==
  ASSUME Shape, ClaimInv, BufInv, NEW t \in Threads, Unregisters(t),
         NEW i \in Ids, table[i] # NoBuf, table'[i] = NoBuf, NEW h \in open, i \in held[h]
  PROVE  FALSE
<1>1. Has(t) /\ req[t].pc = "unregister"
  BY DEF Unregisters, Moves, Has
<1>2. PICK b \in Bufs : Holds(t, b)
  BY <1>1, HoldsOne
<1>3. heap[b].id = i /\ i # 0
  BY <1>2, IdsAreNat DEF Unregisters, Shape, Typed
<1>4. h \in Handles /\ Claims(h, i)
  BY DEF Shape, Typed, Claims, InUse, Possess
<1>5. req[t].op \in Allocs \cup {"free"} => req[t].id = i
  BY <1>1, <1>2, <1>3 DEF Carries
<1>6. req[t].op = "close" => FALSE
  <2> SUFFICES ASSUME req[t].op = "close" PROVE FALSE
    OBVIOUS
  <2>1. i \in owned[req[t].h] /\ req[t].h \in Handles /\ req[t].h \notin open
    BY <1>1, <1>2, <1>3, MyCall, WinDriverAssumption DEF Carries, Placed
  <2> QED
    BY <1>4, <2>1, MyClaims DEF ClaimInv, ClaimsApart
<1>7. req[t].op = "reset" => FALSE
  BY <1>1, <1>2, <1>3 DEF Carries
<1>8. req[t].op = "unload" => FALSE
  BY DEF Shape, Alone
<1> QED
  BY <1>1, <1>5, <1>6, <1>7, <1>8, MyCall DEF WellFormed, ClaimInv, CallsHold

LEMMA HeldStep ==
  ASSUME Shape, Shape', IdInv, IdsLast, ClaimInv, BufInv, HeldInv, [Next]_vars, "reset" \notin Ops
  PROVE  HeldInv'
<1>0. open \subseteq Handles /\ held \in [Handles -> SUBSET Ids] /\ table \in [Ids -> Bufs \cup {NoBuf}]
  BY DEF Shape, Typed
<1>1. CASE UNCHANGED table /\ open' \subseteq open /\ \A h \in open : held'[h] \subseteq held[h]
  BY <1>1 DEF HeldInv
<1>2. ASSUME NEW t \in Threads, Registers(t) PROVE HeldInv'
  <2>1. Has(t)
    BY <1>2 DEF Registers, Moves, Has
  <2>2. PICK b \in Bufs : Holds(t, b)
    BY <2>1, HoldsOne
  <2>3. UNCHANGED <<open, held>> /\ \A i \in Ids : table'[i] = table[i] \/ table'[i] = b
    BY <1>0, <1>2, <2>2 DEF Registers, fileVars
  <2> QED
    BY <1>0, <2>3, NoBufApart DEF HeldInv
<1>3. ASSUME NEW t \in Threads, SetsOwned(t) \/ Advises(t) \/ Leaves(t) \/ Delists(t) PROVE HeldInv'
  <2>1. Has(t) /\ req[t].pc \in Registered
    BY <1>3 DEF SetsOwned, Advises, Leaves, Delists, Moves, Has
  <2>2. PICK b \in Bufs : Holds(t, b)
    BY <2>1, HoldsOne
  <2>3. table[req[t].id] # NoBuf
    BY <2>1, <2>2, NoBufApart DEF Carries
  <2>4. UNCHANGED <<open, table>> /\ held' = [held EXCEPT ![req[t].h] = @ \cup {req[t].id}]
    BY <1>3 DEF SetsOwned, Advises, Leaves, Delists, GiveBack, tableVars
  <2> QED
    BY <1>0, <2>3, <2>4 DEF HeldInv
<1>4. ASSUME NEW t \in Threads, Unregisters(t) PROVE HeldInv'
  <2>1. UNCHANGED <<open, held>>
    BY <1>4 DEF Unregisters, fileVars
  <2> QED
    BY <1>0, <1>4, <2>1, ClearedIsFree DEF HeldInv
<1>5. ASSUME NEW t \in Threads, ResetsEntry(t) PROVE FALSE
  BY <1>5, MyCall DEF ResetsEntry, Comes, Moves, WellFormed
<1>6. ASSUME NEW t \in Threads, UnloadsEntry(t) PROVE HeldInv'
  <2>1. open' = {}
    BY <1>6 DEF UnloadsEntry, Comes, fileVars, Shape, Alone
  <2> QED
    BY <2>1 DEF HeldInv
<1>7. ASSUME NEW t \in Threads, StepKinds(t) PROVE HeldInv'
  BY <1>1, <1>2, <1>3, <1>4, <1>5, <1>6, <1>7, NewId
     DEF StepKinds, Tries, GivesUp, Takes, Accounts, Maps, ReadsOwned, ClearsOwned, Finds, Relabels,
         Unlinks, Releases, CleansEntry, Skips, Ends, others, tableVars, fileVars
<1>8. ASSUME NEW t \in Threads, ClientKinds(t) PROVE HeldInv'
  BY <1>0, <1>1, <1>8
     DEF ClientKinds, AsksMemory, AsksBuffer, AsksReset, Closes, Unloads, others, tableVars, fileVars
<1>9. ASSUME NEW g \in Handles, Open(g) PROVE HeldInv'
  <2>1. open' = open \cup {g} /\ held[g] = {} /\ UNCHANGED <<table, held>>
    BY <1>9 DEF Open, Shape, Typed, tableVars
  <2> QED
    BY <2>1 DEF HeldInv
<1>10. CASE Load
  BY <1>10 DEF Load, Shape, Alone, HeldInv
<1> QED
  BY <1>1, <1>7, <1>8, <1>9, <1>10, Kinds DEF vars, tableVars, fileVars

(* With ids to spare and no RESET, the ids a client holds are active        *)
(* buffers of their own.                                                    *)
THEOREM HeldIdsLead ==
  ASSUME Careful, IdsLast, "reset" \notin Ops
  PROVE  Spec => []HeldIdsWork
<1>1. Init => HeldInv
  BY DEF Init, HeldInv
<1>2. Shape /\ ClaimInv /\ BufInv /\ HeldInv => HeldIdsWork
  <2> SUFFICES ASSUME Shape, ClaimInv, BufInv, HeldInv, NEW h \in open, NEW i \in held[h]
               PROVE  /\ table[i] \in Live /\ heap[table[i]].active /\ heap[table[i]].id = i
                      /\ \A g \in open \ {h} : i \notin held[g]
    BY DEF HeldIdsWork
  <2>1. i \in Ids /\ h \in Handles /\ open \subseteq Handles /\ 0 \notin Ids
    BY IdsAreNat DEF Shape, Typed
  <2>2. Claims(h, i)
    BY DEF Claims, InUse, Possess
  <2>3. ASSUME NEW g \in open \ {h}, i \in held[g] PROVE FALSE
    <3>1. Claims(g, i) /\ g \in Handles
      BY <2>1, <2>3 DEF Claims, InUse, Possess
    <3> QED
      BY <2>1, <2>2, <2>3, <3>1 DEF ClaimInv, ClaimsApart
  <2>4. PICK b \in Bufs : b = table[i] /\ b \in Live /\ heap[b].id = i
    BY <2>1 DEF HeldInv, BufInv, SlotsLead, Live
  <2>5. ASSUME NEW u \in Threads, Has(u), req[u].buf = b, ~heap[b].active PROVE FALSE
    <3>1. Carries(u, b) /\ req[u].id # i
      BY <2>4, <2>5 DEF BufInv, CallsCarry, ClaimInv, CallsHold
    <3>2. req[u].pc \in Freeing /\ req[u].op \notin Allocs \cup {"free"}
      BY <2>1, <2>4, <2>5, <3>1 DEF Carries, Has
    <3>3. req[u].op # "reset"
      BY <2>1, <2>4, <3>1, <3>2 DEF Carries
    <3>4. req[u].op # "unload"
      BY DEF Shape, Alone
    <3>5. req[u].op = "close"
      BY <3>2, <3>3, <3>4, MyCall DEF WellFormed
    <3>6. i \in owned[req[u].h] /\ req[u].h \in Handles /\ req[u].h \notin open
      BY <2>4, <3>1, <3>2, <3>5, MyCall, WinDriverAssumption DEF Carries, Placed
    <3> QED
      BY <2>1, <2>2, <3>6, MyClaims DEF ClaimInv, ClaimsApart
  <2>6. heap[b].active
    BY <2>4, <2>5 DEF BufInv, RestLoose, Loose
  <2> QED
    BY <2>3, <2>4, <2>6
<1> QED
  BY <1>1, <1>2, BufInvariant, HeldStep, PTL DEF Spec

-----------------------------------------------------------------------------
(* What has been accounted                                                  *)

(* The pages of the buffers of a set, in a heap                             *)
Extent(H, B) == UNION {{b} \X (1 .. H[b].size) : b \in B}

LEMMA AddExtent ==
  ASSUME NEW H, NEW B, NEW b, b \notin B, H[b].size \in Nat, IsFiniteSet(Extent(H, B))
  PROVE  /\ IsFiniteSet(Extent(H, B \cup {b}))
         /\ Cardinality(Extent(H, B \cup {b})) = Cardinality(Extent(H, B)) + H[b].size
<1>1. PICK n \in Nat : n = H[b].size
  OBVIOUS
<1>2. IsFiniteSet(1 .. n) /\ Cardinality(1 .. n) = n
  BY FS_Interval
<1>3. IsFiniteSet({b}) /\ Cardinality({b}) = 1
  BY FS_Singleton
<1>4. IsFiniteSet({b} \X (1 .. n)) /\ Cardinality({b} \X (1 .. n)) = Cardinality({b}) * Cardinality(1 .. n)
  BY <1>2, <1>3, FS_Product
<1>5. PICK mine : mine = {b} \X (1 .. n)
  OBVIOUS
<1>6. IsFiniteSet(mine) /\ Cardinality(mine) = n
  BY <1>2, <1>3, <1>4, <1>5
<1>7. PICK old : old = Extent(H, B)
  OBVIOUS
<1>8. Extent(H, B \cup {b}) = old \cup mine
  BY <1>1, <1>5, <1>7 DEF Extent
<1>9. old \cap mine = {}
  BY <1>5, <1>7 DEF Extent
<1>10. Cardinality(old \cap mine) = 0 /\ Cardinality(old) \in Nat
  BY <1>7, <1>9, FS_EmptySet, FS_CardinalityType
<1>11. /\ IsFiniteSet(old \cup mine)
       /\ Cardinality(old \cup mine) = Cardinality(old) + Cardinality(mine) - Cardinality(old \cap mine)
  BY <1>6, <1>7, FS_Union
<1>12. Cardinality(old \cup mine) = Cardinality(old) + n
  BY <1>6, <1>10, <1>11
<1> QED
  BY <1>1, <1>7, <1>8, <1>11, <1>12

LEMMA PartOfExtent ==
  ASSUME NEW H, NEW B, IsFiniteSet(Extent(H, B)), NEW A \in SUBSET B
  PROVE  IsFiniteSet(Extent(H, A)) /\ Cardinality(Extent(H, A)) \in Nat
<1>1. Extent(H, A) \subseteq Extent(H, B)
  BY DEF Extent
<1> QED
  BY <1>1, FS_Subset, FS_CardinalityType

LEMMA RemoveExtent ==
  ASSUME NEW H, NEW B, NEW b \in B, H[b].size \in Nat, IsFiniteSet(Extent(H, B))
  PROVE  Cardinality(Extent(H, B \ {b})) = Cardinality(Extent(H, B)) - H[b].size
<1>1. IsFiniteSet(Extent(H, B \ {b})) /\ Cardinality(Extent(H, B \ {b})) \in Nat
  BY PartOfExtent
<1>2. (B \ {b}) \cup {b} = B
  OBVIOUS
<1>3. Cardinality(Extent(H, B)) = Cardinality(Extent(H, B \ {b})) + H[b].size
  BY <1>1, <1>2, AddExtent
<1> QED
  BY <1>1, <1>3

LEMMA SameExtent ==
  ASSUME NEW G, NEW H, NEW B, \A b \in B : G[b].size = H[b].size
  PROVE  Extent(G, B) = Extent(H, B)
BY DEF Extent

LEMMA NoExtent ==
  ASSUME NEW H
  PROVE  IsFiniteSet(Extent(H, {})) /\ Cardinality(Extent(H, {})) = 0
<1>1. Extent(H, {}) = {}
  BY DEF Extent
<1> QED
  BY <1>1, FS_EmptySet

(* One buffer joins or leaves a set of buffers with their sizes             *)
LEMMA OneMore ==
  ASSUME NEW G, NEW H, NEW A, NEW B, NEW b, b \notin A, B = A \cup {b},
         \A c \in A : H[c].size = G[c].size, H[b].size \in Nat, IsFiniteSet(Extent(G, A))
  PROVE  /\ IsFiniteSet(Extent(H, B))
         /\ Cardinality(Extent(H, B)) = Cardinality(Extent(G, A)) + H[b].size
<1>1. Extent(H, A) = Extent(G, A)
  BY SameExtent
<1> QED
  BY <1>1, AddExtent

LEMMA OneLess ==
  ASSUME NEW G, NEW H, NEW A, NEW B, NEW b, b \in A, B = A \ {b},
         \A c \in B : H[c].size = G[c].size, G[b].size \in Nat, IsFiniteSet(Extent(G, A))
  PROVE  /\ IsFiniteSet(Extent(H, B))
         /\ Cardinality(Extent(H, B)) = Cardinality(Extent(G, A)) - G[b].size
<1>1. Extent(H, B) = Extent(G, B)
  BY SameExtent
<1>2. B \in SUBSET A
  OBVIOUS
<1>3. IsFiniteSet(Extent(G, B))
  BY <1>2, PartOfExtent
<1>4. Cardinality(Extent(G, A \ {b})) = Cardinality(Extent(G, A)) - G[b].size
  BY RemoveExtent
<1> QED
  BY <1>1, <1>3, <1>4

LEMMA AllSame ==
  ASSUME NEW G, NEW H, NEW A, NEW B, B = A,
         \A c \in A : H[c].size = G[c].size, IsFiniteSet(Extent(G, A))
  PROVE  IsFiniteSet(Extent(H, B)) /\ Cardinality(Extent(H, B)) = Cardinality(Extent(G, A))
BY SameExtent

(* A buffer's bytes are in the counters once its allocation has added them, *)
(* and it is in ActiveBufs from its registration to the end of it           *)
Charged(K) == {b \in Live : heap[b].backing \in K /\ \A t \in Threads : At(t, "account") => req[t].buf # b}
Counted == {b \in Live : heap[b].id # 0 /\ \A t \in Threads : At(t, "release") => req[t].buf # b}
Sum(K) == Cardinality(Extent(heap, Charged(K)))

Backings == {"contiguous", "mdl", "paged", "user"}
Resident == Backings \ {"paged"}

FiniteInv == IsFiniteSet(Extent(heap, Live))
CountInv == activeBufs = Cardinality(Counted) /\ pool + nvme = Sum(Backings)
ExactInv == pool = Sum(Resident) /\ nvme = Sum({"paged"})

(* A step of the request that has b                                         *)
Turns(t, b) ==
  /\ Rest(t)
  /\ Has(t) => req[t].buf = b
  /\ req'[t].pc \in HasBuf => req'[t].buf = b
  /\ \A u \in Threads : u # t /\ Has(u) => req[u].buf # b
  /\ \A c \in Bufs : c # b => heap'[c] = heap[c]
  /\ b \in Live /\ b \in Live' => heap'[b].size = heap[b].size /\ heap'[b].backing = heap[b].backing
IsIn(t, b) == b \in Live /\ req[t].pc # "account"
IsOn(t, b) == b \in Live /\ heap[b].id # 0 /\ req[t].pc # "release"

LEMMA Turned ==
  ASSUME NEW t \in Threads, NEW b \in Bufs, Turns(t, b), NEW K
  PROVE  /\ b \in Charged(K) <=> IsIn(t, b) /\ heap[b].backing \in K
         /\ b \in Charged(K)' <=> IsIn(t, b)' /\ heap'[b].backing \in K
         /\ b \in Counted <=> IsOn(t, b)
         /\ b \in Counted' <=> IsOn(t, b)'
         /\ \A c \in Bufs : c # b => /\ c \in Charged(K) <=> c \in Charged(K)'
                                     /\ c \in Counted <=> c \in Counted'
<1>1. \A u \in Threads : u # t => req'[u] = req[u]
  BY DEF Turns, Rest
<1>2. \A u \in Threads : u # t => /\ At(u, "account") => req[u].buf # b
                                  /\ At(u, "release") => req[u].buf # b
                                  /\ req'[u].pc \in {"account", "release"} => req'[u].buf # b
  BY <1>1 DEF Turns, Has
<1>3. /\ req[t].pc \in {"account", "release"} => req[t].buf = b
      /\ req'[t].pc \in {"account", "release"} => req'[t].buf = b
  BY DEF Turns, Has
<1>4. b \in Charged(K) <=> IsIn(t, b) /\ heap[b].backing \in K
  BY <1>2, <1>3 DEF Charged, IsIn
<1>5. b \in Charged(K)' <=> IsIn(t, b)' /\ heap'[b].backing \in K
  BY <1>2, <1>3 DEF Charged, IsIn
<1>6. b \in Counted <=> IsOn(t, b)
  BY <1>2, <1>3 DEF Counted, IsOn
<1>7. b \in Counted' <=> IsOn(t, b)'
  BY <1>2, <1>3 DEF Counted, IsOn
<1>8. ASSUME NEW c \in Bufs, c # b
      PROVE  (c \in Charged(K) <=> c \in Charged(K)') /\ (c \in Counted <=> c \in Counted')
  <2>1. heap'[c] = heap[c] /\ (c \in Live' <=> c \in Live)
    BY <1>8 DEF Turns, Live
  <2>2. \A u \in Threads : /\ (At(u, "account") => req[u].buf # c) <=> (req'[u].pc = "account" => req'[u].buf # c)
                           /\ (At(u, "release") => req[u].buf # c) <=> (req'[u].pc = "release" => req'[u].buf # c)
    BY <1>1, <1>3, <1>8
  <2> QED
    BY <2>1, <2>2 DEF Charged, Counted
<1> QED
  BY <1>4, <1>5, <1>6, <1>7, <1>8

LEMMA SumIsNat ==
  ASSUME FiniteInv, NEW K
  PROVE  /\ Charged(K) \in SUBSET Live /\ IsFiniteSet(Extent(heap, Charged(K))) /\ Sum(K) \in Nat
<1>1. Charged(K) \in SUBSET Live
  BY DEF Charged
<1> QED
  BY <1>1, PartOfExtent DEF FiniteInv, Sum

LEMMA CountedIsNat == IsFiniteSet(Counted) /\ Cardinality(Counted) \in Nat
<1>1. Counted \subseteq Bufs
  BY DEF Counted, Live
<1> QED
  BY <1>1, WinDriverAssumption, FS_Subset, FS_CardinalityType

LEMMA FiniteStep ==
  ASSUME Shape, Shape', FiniteInv, NEW t \in Threads, NEW b \in Bufs, Turns(t, b)
  PROVE  FiniteInv'
<1>1. PICK G, H, A, B : G = heap /\ H = heap' /\ A = Live /\ B = Live'
  OBVIOUS
<1>2. \A c \in Bufs : c # b => (c \in B <=> c \in A) /\ H[c] = G[c]
  BY <1>1 DEF Turns, Live
<1>3. A \subseteq Bufs /\ B \subseteq Bufs
  BY <1>1 DEF Live
<1>4. b \in A => G[b].size \in Nat
  BY <1>1, LiveIs
<1>5. b \in B => H[b].size \in Nat
  BY <1>1 DEF Shape, Typed, Live, Buffer
<1>6. IsFiniteSet(Extent(G, A))
  BY <1>1 DEF FiniteInv
<1>7. IsFiniteSet(Extent(H, B))
  <2>1. CASE b \in A /\ b \in B
    <3>1. B = A /\ \A c \in A : H[c].size = G[c].size
      BY <1>1, <1>2, <1>3, <2>1 DEF Turns
    <3> QED
      BY <1>6, <3>1, AllSame
  <2>2. CASE b \notin A /\ b \in B
    <3>1. B = A \cup {b} /\ \A c \in A : H[c].size = G[c].size
      BY <1>2, <1>3, <2>2
    <3> QED
      BY <1>5, <1>6, <2>2, <3>1, OneMore
  <2>3. CASE b \in A /\ b \notin B
    <3>1. B = A \ {b} /\ \A c \in B : H[c].size = G[c].size
      BY <1>2, <1>3, <2>3
    <3> QED
      BY <1>4, <1>6, <2>3, <3>1, OneLess
  <2>4. CASE b \notin A /\ b \notin B
    <3>1. B = A /\ \A c \in A : H[c].size = G[c].size
      BY <1>2, <1>3, <2>4
    <3> QED
      BY <1>6, <3>1, AllSame
  <2> QED
    BY <2>1, <2>2, <2>3, <2>4
<1> QED
  BY <1>1, <1>7 DEF FiniteInv

(* What a step does to the sums *)
LEMMA SumStep ==
  ASSUME Shape, Shape', FiniteInv, NEW t \in Threads, NEW b \in Bufs, Turns(t, b), NEW K
  PROVE  /\ (IsIn(t, b)' <=> IsIn(t, b)) => Sum(K)' = Sum(K)
         /\ ~IsIn(t, b) /\ IsIn(t, b)' =>
              Sum(K)' = (IF heap'[b].backing \in K THEN Sum(K) + heap'[b].size ELSE Sum(K))
         /\ IsIn(t, b) /\ ~IsIn(t, b)' =>
              Sum(K)' = (IF heap[b].backing \in K THEN Sum(K) - heap[b].size ELSE Sum(K))
<1>1. PICK G, H, A, B : G = heap /\ H = heap' /\ A = Charged(K) /\ B = Charged(K)'
  OBVIOUS
<1>2. \A c \in Bufs : c # b => (c \in B <=> c \in A) /\ H[c] = G[c]
  BY <1>1, Turned DEF Turns
<1>3. A \subseteq Bufs /\ B \subseteq Bufs
  BY <1>1 DEF Charged, Live
<1>4. /\ b \in A <=> IsIn(t, b) /\ G[b].backing \in K
      /\ b \in B <=> IsIn(t, b)' /\ H[b].backing \in K
  BY <1>1, Turned
<1>5. /\ b \in A => G[b].size \in Nat
      /\ b \in B => H[b].size \in Nat
  <2>1. b \in A => b \in Live
    BY <1>1 DEF Charged
  <2>2. b \in B => b \in Live'
    BY <1>1 DEF Charged
  <2>3. b \in Live' => H[b].size \in Nat
    BY <1>1 DEF Shape, Typed, Live, Buffer
  <2> QED
    BY <1>1, <2>1, <2>2, <2>3, LiveIs
<1>6. IsFiniteSet(Extent(G, A)) /\ Sum(K) = Cardinality(Extent(G, A)) /\ Sum(K)' = Cardinality(Extent(H, B))
  BY <1>1, SumIsNat DEF Sum
<1>7. b \in Live /\ b \in Live' => H[b].size = G[b].size /\ H[b].backing = G[b].backing
  BY <1>1 DEF Turns
<1>8. CASE b \in A /\ b \in B
  <2>1. B = A /\ \A c \in A : H[c].size = G[c].size
    BY <1>2, <1>3, <1>4, <1>7, <1>8 DEF IsIn
  <2> QED
    BY <1>4, <1>6, <1>8, <2>1, AllSame
<1>9. CASE b \notin A /\ b \notin B
  <2>1. B = A /\ \A c \in A : H[c].size = G[c].size
    BY <1>2, <1>3, <1>9
  <2>2. Sum(K)' = Sum(K)
    BY <1>6, <2>1, AllSame
  <2> QED
    BY <1>1, <1>4, <1>9, <2>2
<1>10. CASE b \notin A /\ b \in B
  <2>1. B = A \cup {b} /\ \A c \in A : H[c].size = G[c].size
    BY <1>2, <1>3, <1>10
  <2>2. Sum(K)' = Sum(K) + H[b].size
    <3>1. H[b].size \in Nat /\ b \notin A /\ IsFiniteSet(Extent(G, A))
      BY <1>5, <1>6, <1>10
    <3>2. Extent(H, A) = Extent(G, A)
      BY <2>1, SameExtent
    <3>3. Cardinality(Extent(H, A \cup {b})) = Cardinality(Extent(H, A)) + H[b].size
      BY <3>1, <3>2, AddExtent
    <3> QED
      BY <1>6, <2>1, <3>2, <3>3
  <2>3. ~IsIn(t, b) /\ IsIn(t, b)' /\ H[b].backing \in K
    BY <1>4, <1>7, <1>10 DEF IsIn
  <2> QED
    BY <1>1, <2>2, <2>3
<1>11. CASE b \in A /\ b \notin B
  <2>1. B = A \ {b} /\ \A c \in B : H[c].size = G[c].size
    BY <1>2, <1>3, <1>11
  <2>2. Sum(K)' = Sum(K) - G[b].size
    BY <1>5, <1>6, <1>11, <2>1, OneLess
  <2>3. IsIn(t, b) /\ ~IsIn(t, b)' /\ G[b].backing \in K
    BY <1>4, <1>7, <1>11 DEF IsIn
  <2> QED
    BY <1>1, <2>2, <2>3
<1> QED
  BY <1>8, <1>9, <1>10, <1>11

LEMMA CountedStep ==
  ASSUME NEW t \in Threads, NEW b \in Bufs, Turns(t, b)
  PROVE  /\ (IsOn(t, b)' <=> IsOn(t, b)) => Cardinality(Counted') = Cardinality(Counted)
         /\ ~IsOn(t, b) /\ IsOn(t, b)' => Cardinality(Counted') = Cardinality(Counted) + 1
         /\ IsOn(t, b) /\ ~IsOn(t, b)' => Cardinality(Counted') = Cardinality(Counted) - 1
<1>1. PICK A, B : A = Counted /\ B = Counted'
  OBVIOUS
<1>2. A \subseteq Bufs /\ B \subseteq Bufs /\ IsFiniteSet(A)
  BY <1>1, CountedIsNat DEF Counted, Live
<1>3. /\ \A c \in Bufs : c # b => (c \in B <=> c \in A)
      /\ b \in A <=> IsOn(t, b)
      /\ b \in B <=> IsOn(t, b)'
  BY <1>1, Turned
<1>4. (IsOn(t, b)' <=> IsOn(t, b)) => B = A
  BY <1>2, <1>3
<1>5. ~IsOn(t, b) /\ IsOn(t, b)' => Cardinality(B) = Cardinality(A) + 1
  <2> SUFFICES ASSUME ~IsOn(t, b), IsOn(t, b)' PROVE Cardinality(B) = Cardinality(A) + 1
    OBVIOUS
  <2>1. B = A \cup {b} /\ b \notin A
    BY <1>2, <1>3
  <2> QED
    BY <1>2, <2>1, FS_AddElement
<1>6. IsOn(t, b) /\ ~IsOn(t, b)' => Cardinality(B) = Cardinality(A) - 1
  <2> SUFFICES ASSUME IsOn(t, b), ~IsOn(t, b)' PROVE Cardinality(B) = Cardinality(A) - 1
    OBVIOUS
  <2>1. B = A \ {b} /\ b \in A
    BY <1>2, <1>3
  <2> QED
    BY <1>2, <2>1, FS_RemoveElement
<1> QED
  BY <1>1, <1>4, <1>5, <1>6

(* What a step about a buffer writes in the books                           *)
Adds(b) == \/ heap[b].tier = 2 /\ pool' = pool + heap[b].size /\ nvme' = nvme
           \/ heap[b].tier = 3 /\ nvme' = nvme + heap[b].size /\ pool' = pool
Subtracts(b) == \/ heap[b].tier = 2 /\ pool' = pool - heap[b].size /\ nvme' = nvme
                \/ heap[b].tier = 3 /\ nvme' = nvme - heap[b].size /\ pool' = pool
Books(t, b) ==
  /\ Turns(t, b)
  /\ \/ (IsIn(t, b)' <=> IsIn(t, b)) /\ pool' = pool /\ nvme' = nvme
     \/ ~IsIn(t, b) /\ IsIn(t, b)' /\ b \in Live /\ Adds(b)
     \/ IsIn(t, b) /\ ~IsIn(t, b)' /\ Subtracts(b)
  /\ \/ (IsOn(t, b)' <=> IsOn(t, b)) /\ activeBufs' = activeBufs
     \/ ~IsOn(t, b) /\ IsOn(t, b)' /\ activeBufs' = activeBufs + 1
     \/ IsOn(t, b) /\ ~IsOn(t, b)' /\ activeBufs' = activeBufs - 1
NoBooks(t) == Rest(t) /\ ~Has(t) /\ ~Has(t)' /\ UNCHANGED <<heap, poolVars, activeBufs>>

(* The books each step keeps *)
LEMMA BookKinds ==
  ASSUME Shape, Shape', IdInv, IdsLast, ClaimInv, BufInv, BufInv', NEW t \in Threads,
         StepKinds(t) \/ ClientKinds(t)
  PROVE  NoBooks(t) \/ \E b \in Bufs : Books(t, b)
<1>0. 0 \notin Ids /\ NoBuf \notin Bufs /\ heap \in [Bufs -> Buffer \cup {NoBuf}]
  BY IdsAreNat, NoBufApart DEF Shape, Typed
<1>1. CASE Tries(t) \/ GivesUp(t) \/ ClientKinds(t) \/ Skips(t) \/ Ends(t)
  BY <1>1 DEF NoBooks, Tries, GivesUp, Skips, Ends, ClientKinds, AsksMemory, AsksBuffer, AsksReset,
              Closes, Unloads, Moves, Has, others, tableVars, poolVars
<1>2. CASE Takes(t)
  <2>1. PICK b \in Bufs : b = req'[t].buf
    BY <1>2 DEF Takes
  <2>2. /\ heap[b] = NoBuf /\ heap'[b] # NoBuf /\ heap'[b].id = 0
        /\ \A c \in Bufs : c # b => heap'[c] = heap[c]
        /\ Rest(t) /\ req[t].pc \in Starting /\ req'[t].pc = "account"
        /\ UNCHANGED <<activeBufs, pool, nvme>>
    BY <1>2, <2>1, NoBufApart DEF Takes, Moves, tableVars, poolVars
  <2>3. b \notin Live /\ ~Has(t)
    BY <2>2 DEF Live, Has
  <2>4. \A u \in Threads : Has(u) => req[u].buf # b
    BY <2>3, Mine DEF Carries
  <2>5. Turns(t, b)
    BY <2>1, <2>2, <2>3, <2>4 DEF Turns
  <2>6. Books(t, b)
    BY <2>2, <2>3, <2>5 DEF Books, IsIn, IsOn
  <2> QED
    BY <2>6
<1>3. ASSUME Has(t), NEW b \in Bufs, Holds(t, b), Rest(t),
             req'[t].pc \in HasBuf => req'[t].buf = b,
             \A c \in Bufs : c # b => heap'[c] = heap[c],
             b \in Live' => heap'[b].size = heap[b].size /\ heap'[b].backing = heap[b].backing
      PROVE  Turns(t, b) /\ b \in Live
  BY <1>3 DEF Turns, Carries
<1>4. CASE Accounts(t)
  <2>1. Has(t)
    BY <1>4 DEF Accounts, Moves, Has
  <2>2. PICK b \in Bufs : Holds(t, b)
    BY <2>1, HoldsOne
  <2>3. /\ Rest(t) /\ req[t].pc = "account" /\ req'[t].pc = "register" /\ req'[t].buf = b
        /\ UNCHANGED <<heap, activeBufs>> /\ Adds(b)
    BY <1>4, <2>2 DEF Accounts, Moves, Keeps, tableVars, Adds
  <2>4. Turns(t, b) /\ b \in Live /\ b \in Live'
    BY <1>3, <2>1, <2>2, <2>3 DEF Live
  <2>5. Books(t, b)
    BY <2>3, <2>4 DEF Books, IsIn, IsOn
  <2> QED
    BY <2>5
<1>5. CASE Registers(t)
  <2>1. Has(t)
    BY <1>5 DEF Registers, Moves, Has
  <2>2. PICK b \in Bufs : Holds(t, b)
    BY <2>1, HoldsOne
  <2>3. /\ Rest(t) /\ req[t].pc = "register" /\ req'[t].pc = "map" /\ req'[t].buf = b
        /\ activeBufs' = activeBufs + 1 /\ UNCHANGED <<pool, nvme>>
        /\ heap'[b].size = heap[b].size /\ heap'[b].backing = heap[b].backing
        /\ heap'[b] # NoBuf /\ heap'[b].id \in Ids
        /\ \A c \in Bufs : c # b => heap'[c] = heap[c]
    BY <1>5, <2>2, NoBufApart DEF Registers, Moves, Alters, poolVars
  <2>4. Turns(t, b) /\ b \in Live /\ b \in Live' /\ heap[b].id = 0 /\ heap'[b].id # 0
    BY <1>0, <1>3, <2>1, <2>2, <2>3 DEF Live, Carries
  <2>5. Books(t, b)
    BY <2>3, <2>4 DEF Books, IsIn, IsOn
  <2> QED
    BY <2>5
<1>6. CASE \/ Maps(t) \/ ReadsOwned(t) \/ SetsOwned(t) \/ ClearsOwned(t)
           \/ Advises(t) \/ Relabels(t) \/ Leaves(t) \/ Delists(t) \/ Unlinks(t)
  <2>1. /\ Has(t) /\ Rest(t) /\ req[t].pc \notin {"account", "release"}
        /\ req'[t].pc \notin {"account", "release"}
    BY <1>6 DEF Maps, ReadsOwned, SetsOwned, ClearsOwned, Advises, Relabels, Leaves, Delists, Unlinks,
                Moves, Has
  <2>2. PICK b \in Bufs : Holds(t, b)
    BY <2>1, HoldsOne
  <2>3. /\ req'[t].pc \in HasBuf => req'[t].buf = b
        /\ UNCHANGED <<activeBufs, pool, nvme>>
    BY <1>6, <2>2 DEF Maps, ReadsOwned, SetsOwned, ClearsOwned, Advises, Relabels, Leaves, Delists,
                      Unlinks, Moves, Keeps, others, tableVars, poolVars
  <2>4. /\ heap'[b].size = heap[b].size /\ heap'[b].backing = heap[b].backing
        /\ heap'[b].id = heap[b].id /\ heap'[b] # NoBuf
        /\ \A c \in Bufs : c # b => heap'[c] = heap[c]
    BY <1>6, <2>2, NoBufApart DEF Maps, ReadsOwned, SetsOwned, ClearsOwned, Advises, Relabels, Leaves,
                      Delists, Unlinks, Alters, others
  <2>5. Turns(t, b) /\ b \in Live /\ b \in Live'
    BY <1>3, <2>1, <2>2, <2>3, <2>4 DEF Live
  <2>6. Books(t, b)
    BY <2>1, <2>3, <2>4, <2>5 DEF Books, IsIn, IsOn
  <2> QED
    BY <2>6
<1>7. CASE Unregisters(t)
  <2>1. Has(t)
    BY <1>7 DEF Unregisters, Moves, Has
  <2>2. PICK b \in Bufs : Holds(t, b)
    BY <2>1, HoldsOne
  <2>3. /\ Rest(t) /\ req[t].pc = "unregister" /\ req'[t].pc = "release" /\ req'[t].buf = b
        /\ UNCHANGED <<heap, pool, nvme>>
        /\ \/ heap[b].id # 0 /\ activeBufs' = activeBufs - 1
           \/ heap[b].id = 0 /\ activeBufs' = activeBufs
    BY <1>0, <1>7, <2>2 DEF Unregisters, Moves, Keeps, poolVars
  <2>4. Turns(t, b) /\ b \in Live /\ b \in Live'
    BY <1>3, <2>1, <2>2, <2>3 DEF Live
  <2>5. Books(t, b)
    BY <2>3, <2>4 DEF Books, IsIn, IsOn
  <2> QED
    BY <2>5
<1>8. CASE Releases(t)
  <2>1. Has(t)
    BY <1>8 DEF Releases, Moves, Has
  <2>2. PICK b \in Bufs : Holds(t, b)
    BY <2>1, HoldsOne
  <2>3. /\ Rest(t) /\ req[t].pc = "release" /\ req'[t].pc \in {"idle", "scan"}
        /\ heap'[b] = NoBuf /\ \A c \in Bufs : c # b => heap'[c] = heap[c]
        /\ Subtracts(b) /\ activeBufs' = activeBufs
    BY <1>8, <2>2 DEF Releases, Moves, tableVars, Subtracts
  <2>4. Turns(t, b) /\ b \in Live /\ b \notin Live'
    BY <1>3, <2>1, <2>2, <2>3 DEF Live
  <2>5. Books(t, b)
    BY <2>3, <2>4 DEF Books, IsIn, IsOn
  <2> QED
    BY <2>5
<1>9. CASE Finds(t) \/ ResetsEntry(t) \/ UnloadsEntry(t) \/ CleansEntry(t)
  <2>1. PICK i \in Ids : /\ req'[t].buf = table[i] /\ Active(table[i])
                         /\ heap' = heap \/ (ResetsEntry(t) /\ heap' = WithoutId(table[i]) /\ activeBufs' = activeBufs - 1)
    <3>1. Finds(t) => req[t].id \in Ids
      BY MyCall DEF Finds, Moves, WellFormed
    <3> QED
      BY <1>9, <3>1 DEF Finds, ResetsEntry, UnloadsEntry, CleansEntry, Comes, others
  <2>2. PICK b \in Bufs : b = table[i] /\ b \in Live /\ heap[b] \in Buffer /\ heap[b].id = i
    <3>1. Active(table[i])
      BY <2>1
    <3>2. table[i] \in Bufs /\ table[i] \in Live /\ heap[table[i]] \in Buffer /\ heap[table[i]].id = i
      BY <3>1, FoundIs
    <3> QED
      BY <3>2
  <2>3. /\ Rest(t) /\ ~Has(t) /\ req'[t].pc \in Registered \cup {"unlink"} /\ req[t].pc \in {"lookup", "scan"}
        /\ UNCHANGED <<pool, nvme>> /\ req'[t].buf = b
    <3>1. req'[t].buf = b
      BY <2>1, <2>2
    <3> QED
      BY <1>9, <3>1 DEF Finds, ResetsEntry, UnloadsEntry, CleansEntry, Comes, Moves, Has, others, poolVars
  <2>4. \A u \in Threads : u # t /\ Has(u) => req[u].buf # b
    BY <2>3 DEF BufInv, CallsDiffer, Has, Rest
  <2>5. CASE heap' = heap /\ ~ResetsEntry(t)
    <3>1. Turns(t, b) /\ b \in Live'
      BY <2>2, <2>3, <2>4, <2>5 DEF Turns, Live
    <3>2. activeBufs' = activeBufs
      BY <1>9, <2>5 DEF Finds, UnloadsEntry, CleansEntry, others, tableVars
    <3>3. Books(t, b)
      BY <2>2, <2>3, <2>5, <3>1, <3>2 DEF Books, IsIn, IsOn
    <3> QED
      BY <3>3
  <2>6. CASE ResetsEntry(t)
    <3>1. heap' = [heap EXCEPT ![b].id = 0] /\ activeBufs' = activeBufs - 1
      <4>1. b = table[req[t].idx]
        BY <2>1, <2>2, <2>6 DEF ResetsEntry, Comes
      <4> QED
        BY <2>2, <2>6, <4>1 DEF ResetsEntry, WithoutId
    <3>2. heap'[b] = [heap[b] EXCEPT !.id = 0] /\ \A c \in Bufs : c # b => heap'[c] = heap[c]
      BY <1>0, <3>1
    <3>3. /\ heap'[b].id = 0 /\ heap'[b] # NoBuf
          /\ heap'[b].size = heap[b].size /\ heap'[b].backing = heap[b].backing
      <4>1. [heap[b] EXCEPT !.id = 0] \in Buffer
        BY <2>2, WinDriverAssumption DEF Buffer
      <4> QED
        BY <2>2, <3>2, <4>1, NoBufApart DEF Buffer
    <3>4. Turns(t, b) /\ b \in Live'
      BY <2>2, <2>3, <2>4, <3>2, <3>3 DEF Turns, Live
    <3>5. Books(t, b)
      BY <1>0, <2>2, <2>3, <3>1, <3>3, <3>4 DEF Books, IsIn, IsOn
    <3> QED
      BY <3>5
  <2> QED
    BY <2>1, <2>5, <2>6
<1> QED
  BY <1>1, <1>2, <1>4, <1>5, <1>6, <1>7, <1>8, <1>9, NewId DEF StepKinds

LEMMA NoBooksStep ==
  ASSUME NEW K, UNCHANGED <<heap, poolVars, activeBufs>>,
         UNCHANGED req \/ \E t \in Threads : NoBooks(t)
  PROVE  /\ Sum(K)' = Sum(K) /\ Counted' = Counted /\ Live' = Live
         /\ FiniteInv => FiniteInv'
<1>1. heap' = heap /\ Live' = Live
  BY DEF Live
<1>2. \A u \in Threads : \/ req'[u] = req[u]
                         \/ req[u].pc \notin {"account", "release"} /\ req'[u].pc \notin {"account", "release"}
  BY DEF NoBooks, Rest, Has
<1>3. Charged(K)' = Charged(K) /\ Counted' = Counted
  BY <1>1, <1>2 DEF Charged, Counted
<1> QED
  BY <1>1, <1>3 DEF Sum, FiniteInv

LEMMA CountLoad ==
  ASSUME Shape, BufInv, Load
  PROVE  FiniteInv' /\ CountInv' /\ ExactInv'
<1>1. Live' = {} /\ pool' = 0 /\ nvme' = 0 /\ activeBufs' = 0
  BY DEF Load, BufInv, GoneEmpty, Live
<1>2. Counted' = {} /\ \A K : Charged(K)' = {}
  BY <1>1 DEF Counted, Charged
<1>3. Cardinality(Counted') = 0
  BY <1>2, FS_EmptySet
<1>4. IsFiniteSet(Extent(heap', {})) /\ Cardinality(Extent(heap', {})) = 0
  BY NoExtent
<1>5. \A K : Sum(K)' = 0
  BY <1>2, <1>4 DEF Sum
<1>6. FiniteInv'
  BY <1>1, <1>4 DEF FiniteInv
<1> QED
  BY <1>1, <1>3, <1>5, <1>6 DEF CountInv, ExactInv

LEMMA CountBooks ==
  ASSUME Shape, Shape', FiniteInv, CountInv, NEW t \in Threads, NEW b \in Bufs, Books(t, b)
  PROVE  CountInv'
<1>1. PICK x, y, c, n, m : x = pool /\ y = nvme /\ c = activeBufs /\ n = Cardinality(Counted) /\ m = Sum(Backings)
  OBVIOUS
<1>2. x \in Int /\ y \in Int /\ c \in Int /\ n \in Nat /\ m \in Nat /\ c = n /\ x + y = m
  BY <1>1, CountedIsNat, SumIsNat DEF Shape, Typed, CountInv
<1>3. activeBufs' = Cardinality(Counted')
  BY <1>1, <1>2, CountedStep DEF Books
<1>4. b \in Live => heap[b].size \in Nat /\ heap[b].backing \in Backings
  BY LiveIs DEF Buffer, Backings
<1>5. b \in Live /\ b \in Live' => heap'[b].size = heap[b].size /\ heap'[b].backing = heap[b].backing
  BY DEF Books, Turns
<1>6. CASE (IsIn(t, b)' <=> IsIn(t, b)) /\ pool' = pool /\ nvme' = nvme
  BY <1>1, <1>2, <1>3, <1>6, SumStep DEF Books, CountInv
<1>7. CASE ~IsIn(t, b) /\ IsIn(t, b)' /\ b \in Live /\ Adds(b)
  <2>1. Sum(Backings)' = m + heap[b].size
    BY <1>1, <1>4, <1>5, <1>7, SumStep DEF Books, IsIn
  <2> QED
    BY <1>1, <1>2, <1>3, <1>4, <1>7, <2>1 DEF Adds, CountInv
<1>8. CASE IsIn(t, b) /\ ~IsIn(t, b)' /\ Subtracts(b)
  <2>1. Sum(Backings)' = m - heap[b].size /\ b \in Live
    BY <1>1, <1>4, <1>8, SumStep DEF Books, IsIn
  <2> QED
    BY <1>1, <1>2, <1>3, <1>4, <1>8, <2>1 DEF Subtracts, CountInv
<1> QED
  BY <1>6, <1>7, <1>8 DEF Books

LEMMA ExactBooks ==
  ASSUME Shape, Shape', FiniteInv, ExactInv, NEW t \in Threads, NEW b \in Bufs, Books(t, b), Tagged(b)
  PROVE  ExactInv'
<1>1. PICK x, y : x = Sum(Resident) /\ y = Sum({"paged"})
  OBVIOUS
<1>2. x \in Nat /\ y \in Nat /\ pool = x /\ nvme = y
  BY <1>1, SumIsNat DEF ExactInv
<1>3. b \in Live => /\ heap[b].size \in Nat
                    /\ \/ heap[b].tier = 2 /\ heap[b].backing \in Resident /\ heap[b].backing \notin {"paged"}
                       \/ heap[b].tier = 3 /\ heap[b].backing \notin Resident /\ heap[b].backing \in {"paged"}
  BY LiveIs DEF Live, Tagged, Resident, Backings
<1>4. b \in Live /\ b \in Live' => heap'[b].size = heap[b].size /\ heap'[b].backing = heap[b].backing
  BY DEF Books, Turns
<1>5. CASE (IsIn(t, b)' <=> IsIn(t, b)) /\ pool' = pool /\ nvme' = nvme
  BY <1>1, <1>2, <1>5, SumStep DEF Books, ExactInv
<1>6. CASE ~IsIn(t, b) /\ IsIn(t, b)' /\ b \in Live /\ Adds(b)
  <2>1. b \in Live'
    BY <1>6 DEF IsIn
  <2>2. /\ Sum(Resident)' = (IF heap[b].backing \in Resident THEN x + heap[b].size ELSE x)
        /\ Sum({"paged"})' = (IF heap[b].backing \in {"paged"} THEN y + heap[b].size ELSE y)
    BY <1>1, <1>4, <1>6, <2>1, SumStep DEF Books
  <2> QED
    BY <1>2, <1>3, <1>6, <2>2 DEF Adds, ExactInv
<1>7. CASE IsIn(t, b) /\ ~IsIn(t, b)' /\ Subtracts(b)
  <2>1. b \in Live
    BY <1>7 DEF IsIn
  <2>2. /\ Sum(Resident)' = (IF heap[b].backing \in Resident THEN x - heap[b].size ELSE x)
        /\ Sum({"paged"})' = (IF heap[b].backing \in {"paged"} THEN y - heap[b].size ELSE y)
    BY <1>1, <1>7, SumStep DEF Books
  <2> QED
    BY <1>2, <1>3, <1>7, <2>1, <2>2 DEF Subtracts, ExactInv
<1> QED
  BY <1>5, <1>6, <1>7 DEF Books

LEMMA BooksStep ==
  ASSUME Shape, Shape', IdInv, IdsLast, ClaimInv, BufInv, BufInv', FiniteInv, [Next]_vars
  PROVE  /\ FiniteInv'
         /\ CountInv => CountInv'
         /\ ExactInv /\ (\A b \in Bufs : Tagged(b)) => ExactInv'
<1>1. CASE UNCHANGED vars \/ \E h \in Handles : Open(h)
  <2>1. UNCHANGED <<heap, poolVars, activeBufs>> /\ UNCHANGED req
    BY <1>1 DEF vars, Open, tableVars
  <2>2. \A K : Sum(K)' = Sum(K) /\ Counted' = Counted /\ (FiniteInv => FiniteInv')
    BY <2>1, NoBooksStep
  <2> QED
    BY <2>1, <2>2 DEF CountInv, ExactInv, poolVars
<1>2. CASE Load
  BY <1>2, CountLoad
<1>3. ASSUME NEW t \in Threads, NoBooks(t)
      PROVE  FiniteInv' /\ (CountInv => CountInv') /\ (ExactInv => ExactInv')
  <2>1. UNCHANGED <<heap, poolVars, activeBufs>>
    BY <1>3 DEF NoBooks
  <2>2. \A K : Sum(K)' = Sum(K) /\ Counted' = Counted /\ (FiniteInv => FiniteInv')
    BY <1>3, <2>1, NoBooksStep
  <2> QED
    BY <2>1, <2>2 DEF CountInv, ExactInv, poolVars
<1>4. ASSUME NEW t \in Threads, NEW b \in Bufs, Books(t, b)
      PROVE  FiniteInv' /\ (CountInv => CountInv') /\ (ExactInv /\ Tagged(b) => ExactInv')
  BY <1>4, FiniteStep, CountBooks, ExactBooks DEF Books
<1> QED
  BY <1>1, <1>2, <1>3, <1>4, BookKinds, Kinds

LEMMA CountInit == Init => FiniteInv /\ CountInv /\ ExactInv
<1> SUFFICES ASSUME Init PROVE FiniteInv /\ CountInv /\ ExactInv
  OBVIOUS
<1>1. Live = {} /\ pool = 0 /\ nvme = 0 /\ activeBufs = 0
  BY DEF Init, Live
<1>2. Counted = {} /\ \A K : Charged(K) = {}
  BY <1>1 DEF Counted, Charged
<1>3. Cardinality(Counted) = 0
  BY <1>2, FS_EmptySet
<1>4. \A K : Sum(K) = 0
  BY <1>2, NoExtent DEF Sum
<1>5. FiniteInv
  BY <1>1, NoExtent DEF FiniteInv
<1> QED
  BY <1>1, <1>3, <1>4, <1>5 DEF CountInv, ExactInv

AllTagged == \A b \in Bufs : Tagged(b)

LEMMA CountInvariant ==
  ASSUME Careful, IdsLast
  PROVE  Spec => [](FiniteInv /\ CountInv)
<1>1. Init => FiniteInv /\ CountInv
  BY CountInit
<1>2. ASSUME Shape, Shape', IdInv, BufInv, BufInv', ClaimInv, FiniteInv, CountInv, [Next]_vars
      PROVE  FiniteInv' /\ CountInv'
  BY <1>2, BooksStep
<1> QED
  BY <1>1, <1>2, BufInvariant, PTL DEF Spec

LEMMA ExactInvariant ==
  ASSUME Careful, IdsLast, "evict" \notin Ops
  PROVE  Spec => [](FiniteInv /\ ExactInv)
<1>1. Init => FiniteInv /\ ExactInv
  BY CountInit
<1>2. ASSUME Shape, Shape', IdInv, BufInv, BufInv', ClaimInv, FiniteInv, ExactInv, AllTagged, [Next]_vars
      PROVE  FiniteInv' /\ ExactInv'
  BY <1>2, BooksStep DEF AllTagged
<1>3. Spec => []AllTagged
  BY TagInvariant, PTL DEF AllTagged
<1> QED
  BY <1>1, <1>2, <1>3, BufInvariant, PTL DEF Spec

(* With ids to spare, nothing is left when the driver is unloaded.          *)
THEOREM UnloadingFreesAll ==
  ASSUME Careful, IdsLast
  PROVE  Spec => []UnloadFreesAll
<1>1. BufInv /\ CountInv => UnloadFreesAll
  <2> SUFFICES ASSUME BufInv, CountInv, ~loaded PROVE Live = {} /\ pool + nvme = 0 /\ activeBufs = 0
    BY DEF UnloadFreesAll
  <2>1. Live = {}
    BY DEF BufInv, GoneEmpty
  <2>2. Counted = {} /\ Charged(Backings) = {}
    BY <2>1 DEF Counted, Charged
  <2>3. Cardinality(Counted) = 0 /\ Sum(Backings) = 0
    BY <2>2, NoExtent, FS_EmptySet DEF Sum
  <2> QED
    BY <2>1, <2>3 DEF CountInv
<1> QED
  BY <1>1, BufInvariant, CountInvariant, PTL

(* With ids to spare, the two tiers together are charged for exactly the    *)
(* memory the driver holds whenever no request is in progress, whatever     *)
(* EVICT has done in between; only how it is divided may be wrong.          *)
THEOREM TotalExact ==
  ASSUME Careful, IdsLast
  PROVE  Spec => []TotalIsExact
<1>1. Shape /\ BufInv /\ CountInv => TotalIsExact
  <2> SUFFICES ASSUME Shape, BufInv, CountInv, Quiet, loaded
               PROVE  pool + nvme = Bytes(Live) /\ activeBufs = Cardinality(Live)
    BY DEF TotalIsExact
  <2>1. \A u \in Threads : req[u].pc = "idle"
    BY DEF Quiet
  <2>2. \A b \in Live : heap[b].backing \in Backings
    BY LiveIs DEF Buffer, Backings
  <2>3. Charged(Backings) = Live
    BY <2>1, <2>2 DEF Charged
  <2>4. \A b \in Live : heap[b].id # 0
    BY <2>1, IdsAreNat DEF BufInv, RestLoose, Loose, Has
  <2>5. Counted = Live
    BY <2>1, <2>4 DEF Counted
  <2> QED
    BY <2>3, <2>5 DEF CountInv, Sum, Extent, Bytes
<1> QED
  BY <1>1, ShapeInvariant, BufInvariant, CountInvariant, PTL

(* With ids to spare and no EVICT, the counters GET_INFO reports are the    *)
(* memory the driver holds whenever no request is in progress.              *)
THEOREM CountersExact ==
  ASSUME Careful, IdsLast, "evict" \notin Ops
  PROVE  Spec => []CountersAreExact
<1>1. Shape /\ BufInv /\ CountInv /\ ExactInv => CountersAreExact
  <2> SUFFICES ASSUME Shape, BufInv, CountInv, ExactInv, Quiet, loaded
               PROVE  /\ pool = Bytes(Pinned) /\ nvme = Bytes(Live \ Pinned)
                      /\ activeBufs = Cardinality(Live)
    BY DEF CountersAreExact
  <2>1. \A u \in Threads : req[u].pc = "idle"
    BY DEF Quiet
  <2>2. \A b \in Live : heap[b].backing \in Backings
    BY LiveIs DEF Buffer, Backings
  <2>3. Charged(Resident) = Pinned /\ Charged({"paged"}) = Live \ Pinned
    BY <2>1, <2>2 DEF Charged, Pinned, Resident
  <2>4. \A b \in Live : heap[b].id # 0
    BY <2>1, IdsAreNat DEF BufInv, RestLoose, Loose, Has
  <2>5. Counted = Live
    BY <2>1, <2>4 DEF Counted
  <2> QED
    BY <2>3, <2>5 DEF CountInv, ExactInv, Sum, Extent, Bytes
<1> QED
  BY <1>1, ShapeInvariant, BufInvariant, CountInvariant, ExactInvariant, PTL

-----------------------------------------------------------------------------
(* The bits and the count of a handle.  The bitmap is read and written back *)
(* without a lock, so they can be relied on only while a handle has one     *)
(* request at a time.                                                       *)

OneThreadPerHandle == \A t, u \in Threads : t # u => Uses[t] \cap Uses[u] = {}

Tallied(h) == ownedCount[h] = Cardinality(owned[h]) /\ held[h] \subseteq owned[h]
(* What a request knows of the bits of its handle *)
Marked(t) ==
  /\ req[t].pc = "owned" => req[t].word = owned[req[t].h]
  /\ req[t].pc \in {"map", "own", "owned"} /\ req[t].op \in Allocs => req[t].id \notin owned[req[t].h]
  /\ req[t].pc \in {"lookup"} \cup Registered /\ req[t].op \in Named => req[t].id \in owned[req[t].h]
MarkInv == (\A h \in Handles : Tallied(h)) /\ (\A t \in Threads : Marked(t))

CallsOwn == \A t, u \in Threads : t # u /\ req[t].h \in Handles => req[u].h # req[t].h

LEMMA OwnCalls ==
  ASSUME OneThreadPerHandle
  PROVE  (Shape => CallsOwn) /\ (Shape' => CallsOwn')
<1>1. Shape => \A v \in Threads : req[v].h \in Handles => req[v].h \in Uses[v]
  BY NoRequestIs, NoBufApart DEF Shape, WellFormed, Placed
<1>2. Shape' => (\A v \in Threads : req[v].h \in Handles => req[v].h \in Uses[v])'
  BY NoRequestIs, NoBufApart DEF Shape, WellFormed, Placed
<1> QED
  BY <1>1, <1>2 DEF OneThreadPerHandle, CallsOwn

LEMMA OwnedIsFinite ==
  ASSUME Shape, NEW h \in Handles
  PROVE  IsFiniteSet(owned[h]) /\ Cardinality(owned[h]) \in Nat /\ owned[h] \subseteq Ids
<1>1. owned[h] \subseteq 1 .. MaxBufs - 1
  BY DEF Shape, Typed, Ids
<1>2. IsFiniteSet(1 .. MaxBufs - 1)
  BY BoundsAreNat, FS_Interval
<1>3. IsFiniteSet(owned[h])
  BY <1>1, <1>2, FS_Subset
<1> QED
  BY <1>1, <1>3, FS_CardinalityType DEF Ids

(* A step of one request, at its handle only *)
LEMMA MarkStep ==
  ASSUME Shape, Shape', OneThreadPerHandle, MarkInv, NEW t \in Threads, Rest(t), NEW h,
         h = req[t].h \/ h = req'[t].h,
         \A g \in Handles : g # h => owned'[g] = owned[g] /\ ownedCount'[g] = ownedCount[g] /\ held'[g] = held[g],
         h \in Handles => Tallied(h)', Marked(t)'
  PROVE  MarkInv'
<1>1. ASSUME NEW g \in Handles PROVE Tallied(g)'
  BY DEF MarkInv, Tallied
<1>2. ASSUME NEW u \in Threads PROVE Marked(u)'
  <2>1. CASE u = t
    BY <2>1
  <2>2. CASE u # t
    <3>1. req'[u] = req[u] /\ Marked(u)
      BY <2>2 DEF Rest, MarkInv
    <3>2. CASE req[u].h \in Handles
      <4>1. req[u].h # req[t].h /\ req'[u].h # req'[t].h
        BY <2>2, <3>1, <3>2, OwnCalls DEF CallsOwn
      <4>2. owned'[req[u].h] = owned[req[u].h]
        BY <3>1, <3>2, <4>1
      <4> QED
        BY <3>1, <4>2 DEF Marked
    <3>3. CASE req[u].h \notin Handles
      <4>1. req[u].op \notin Allocs \cup Named /\ req[u].pc \notin {"own", "owned", "map", "lookup"}
        BY <3>3, MyCall DEF Placed, WellFormed, Shape, Typed
      <4> QED
        BY <3>1, <4>1 DEF Marked
    <3> QED
      BY <3>2, <3>3
  <2> QED
    BY <2>1, <2>2
<1> QED
  BY <1>1, <1>2 DEF MarkInv

(* Most steps leave the bits alone *)
LEMMA MarkKept ==
  ASSUME Shape, Shape', OneThreadPerHandle, MarkInv, NEW t \in Threads, Rest(t),
         UNCHANGED <<owned, ownedCount, held>>,
         \/ req'[t].pc \notin {"lookup"} \cup Registered
         \/ SameCall(t) /\ req'[t].pc # "owned" /\ req[t].pc \in {"map", "lookup", "relabel"}
  PROVE  MarkInv'
<1>1. ASSUME req'[t].pc \notin {"lookup"} \cup Registered PROVE Marked(t)'
  BY <1>1 DEF Marked
<1>2. ASSUME SameCall(t) /\ req'[t].pc # "owned" /\ req[t].pc \in {"map", "lookup", "relabel"}
      PROVE  Marked(t)'
  <2>1. /\ req[t].pc = "map" => req[t].op \in Allocs
        /\ req[t].pc \in {"lookup", "relabel"} => req[t].op \in Named
    BY <1>2, MyCall DEF WellFormed
  <2> QED
    BY <1>2, <2>1 DEF MarkInv, Marked, SameCall
<1>3. Marked(t)'
  BY <1>1, <1>2
<1>4. PICK h : h = req[t].h
  OBVIOUS
<1>5. h \in Handles => Tallied(h)'
  BY DEF MarkInv, Tallied
<1> QED
  BY <1>3, <1>4, <1>5, MarkStep

LEMMA MarkHandlers ==
  ASSUME Shape, Shape', IdInv, IdsLast, ClaimInv, OneThreadPerHandle, MarkInv,
         NEW t \in Threads, StepKinds(t)
  PROVE  MarkInv'
<1>0. /\ owned \in [Handles -> SUBSET Ids] /\ held \in [Handles -> SUBSET Ids]
      /\ ownedCount \in [Handles -> Int]
  BY DEF Shape, Typed
<1>1. PICK h, i : h = req[t].h /\ i = req[t].id
  OBVIOUS
<1>2. CASE Tries(t) \/ GivesUp(t) \/ Takes(t) \/ Accounts(t) \/ Unlinks(t) \/ Unregisters(t)
           \/ Releases(t) \/ ResetsEntry(t) \/ UnloadsEntry(t) \/ CleansEntry(t) \/ Skips(t) \/ Ends(t)
  BY <1>2, MarkKept
     DEF Tries, GivesUp, Takes, Accounts, Unlinks, Unregisters, Releases, ResetsEntry, UnloadsEntry,
         CleansEntry, Skips, Ends, Comes, Moves, others, fileVars
<1>3. CASE Maps(t) \/ Finds(t) \/ Relabels(t)
  BY <1>3, MarkKept DEF Maps, Finds, Relabels, Moves, Keeps, others, fileVars
<1>4. ASSUME h \in Handles
      PROVE  /\ Tallied(h) /\ IsFiniteSet(owned[h]) /\ Cardinality(owned[h]) \in Nat
             /\ owned[h] \subseteq Ids
  BY <1>4, OwnedIsFinite DEF MarkInv
<1>5. CASE Registers(t)
  <2>1. /\ Rest(t) /\ req'[t].pc = "map" /\ req'[t].op = req[t].op /\ req'[t].h = h
        /\ UNCHANGED <<owned, ownedCount, held>> /\ req[t].op \in Allocs /\ h \in open /\ h \in Handles
    BY <1>1, <1>5, MyCall DEF Registers, Moves, WellFormed, Placed, fileVars, Shape, Typed
  <2>2. PICK n \in Ids : n = nextId + 1 /\ req'[t].id = n
    BY <1>5, NewId
  <2>3. ~(n <= nextId)
    BY <2>2, BoundsAreNat DEF Shape, Typed
  <2>4. n \notin owned[h]
    BY <1>1, <2>1, <2>3, MyClaims DEF ClaimInv, ClaimsGiven
  <2>5. Marked(t)'
    BY <2>1, <2>2, <2>4 DEF Marked
  <2>6. Tallied(h)'
    BY <1>4, <2>1 DEF Tallied
  <2> QED
    BY <1>1, <2>1, <2>5, <2>6, MarkStep
<1>6. CASE ReadsOwned(t)
  <2>1. /\ Rest(t) /\ req[t].pc = "own" /\ req'[t].pc = "owned" /\ req'[t].op = req[t].op /\ req'[t].h = h
        /\ req'[t].id = i /\ UNCHANGED <<owned, ownedCount, held>> /\ req'[t].word = owned[h]
    BY <1>1, <1>6 DEF ReadsOwned, Moves, Keeps, SameCall, others, fileVars
  <2>2. Marked(t)'
    BY <1>1, <2>1 DEF MarkInv, Marked
  <2>3. h \in Handles => Tallied(h)'
    BY <1>4, <2>1 DEF Tallied
  <2> QED
    BY <1>1, <2>1, <2>2, <2>3, MarkStep
<1>7. CASE SetsOwned(t)
  <2>1. /\ Rest(t) /\ req[t].pc = "owned" /\ req'[t].pc = "idle" /\ h \in Handles /\ h \in open
        /\ owned' = [owned EXCEPT ![h] = req[t].word \cup {i}]
        /\ ownedCount' = [ownedCount EXCEPT ![h] = @ + 1]
        /\ held' = [held EXCEPT ![h] = @ \cup {i}]
        /\ req[t].op \in Allocs
    BY <1>1, <1>7, MyCall DEF SetsOwned, Moves, Placed, Shape, Typed
  <2>2. req[t].word = owned[h] /\ i \notin owned[h]
    BY <1>1, <2>1 DEF MarkInv, Marked
  <2>3. owned'[h] = owned[h] \cup {i} /\ ownedCount'[h] = ownedCount[h] + 1 /\ held'[h] = held[h] \cup {i}
    BY <1>0, <2>1, <2>2
  <2>4. Cardinality(owned[h] \cup {i}) = Cardinality(owned[h]) + 1
    BY <1>4, <2>1, <2>2, FS_AddElement
  <2>5. Tallied(h)'
    BY <1>4, <2>1, <2>3, <2>4 DEF Tallied
  <2>6. Marked(t)'
    BY <2>1 DEF Marked
  <2> QED
    BY <1>0, <1>1, <2>1, <2>5, <2>6, MarkStep
<1>8. CASE ClearsOwned(t)
  <2>1. /\ Rest(t) /\ req[t].pc = "owned" /\ req'[t].pc = "unlink" /\ h \in Handles /\ h \in open
        /\ owned' = [owned EXCEPT ![h] = req[t].word \ {i}]
        /\ ownedCount' = [ownedCount EXCEPT ![h] = @ - 1]
        /\ held' = held /\ req[t].op = "free"
    BY <1>1, <1>8, MyCall DEF ClearsOwned, Moves, Placed, Shape, Typed
  <2>2. req[t].word = owned[h] /\ i \in owned[h]
    BY <1>1, <2>1 DEF MarkInv, Marked
  <2>3. owned'[h] = owned[h] \ {i} /\ ownedCount'[h] = ownedCount[h] - 1
    BY <1>0, <2>1, <2>2
  <2>4. Cardinality(owned[h] \ {i}) = Cardinality(owned[h]) - 1
    BY <1>4, <2>1, <2>2, FS_RemoveElement
  <2>5. i \notin held[h]
    BY <1>1, <2>1 DEF ClaimInv, CallsHold
  <2>6. Tallied(h)'
    BY <1>4, <2>1, <2>3, <2>4, <2>5 DEF Tallied
  <2>7. Marked(t)'
    BY <2>1 DEF Marked
  <2> QED
    BY <1>0, <1>1, <2>1, <2>6, <2>7, MarkStep
<1>9. CASE Advises(t) \/ Leaves(t) \/ Delists(t)
  <2>1. /\ Rest(t) /\ req[t].pc \in Registered /\ req'[t].pc = "idle" /\ h \in Handles
        /\ held' = [held EXCEPT ![h] = @ \cup {i}] /\ UNCHANGED <<owned, ownedCount>>
        /\ req[t].op \in Named
    BY <1>1, <1>9, MyCall
       DEF Advises, Leaves, Delists, GiveBack, Moves, WellFormed, Placed, Shape, Typed
  <2>2. i \in owned[h]
    BY <1>1, <2>1 DEF MarkInv, Marked
  <2>3. Tallied(h)'
    BY <1>0, <1>4, <2>1, <2>2 DEF Tallied
  <2>4. Marked(t)'
    BY <2>1 DEF Marked
  <2> QED
    BY <1>0, <1>1, <2>1, <2>3, <2>4, MarkStep
<1> QED
  BY <1>2, <1>3, <1>5, <1>6, <1>7, <1>8, <1>9, NewId DEF StepKinds

LEMMA MarkClients ==
  ASSUME Shape, Shape', OneThreadPerHandle, MarkInv, NEW t \in Threads, ClientKinds(t)
  PROVE  MarkInv'
<1>0. held \in [Handles -> SUBSET Ids] /\ open \subseteq Handles
  BY DEF Shape, Typed
<1>1. CASE AsksMemory(t) \/ AsksReset(t) \/ Unloads(t)
  BY <1>1, MarkKept DEF AsksMemory, AsksReset, Unloads, Moves, others, fileVars
<1>2. CASE AsksBuffer(t) \/ Closes(t)
  <2>1. PICK h \in Handles : h = req'[t].h
    BY <1>0, <1>2 DEF AsksBuffer, Closes
  <2>2. /\ Rest(t) /\ UNCHANGED <<owned, ownedCount>>
        /\ \A g \in Handles : g # h => held'[g] = held[g]
        /\ held'[h] \subseteq held[h]
    BY <1>0, <1>2, <2>1 DEF AsksBuffer, Closes, Moves
  <2>3. Tallied(h)'
    BY <2>2 DEF MarkInv, Tallied
  <2>4. req'[t].pc = "lookup" => req'[t].id \in owned[h]
    BY <1>2, <2>1 DEF AsksBuffer, Closes, Moves, MarkInv, Tallied
  <2>5. Marked(t)'
    BY <1>2, <2>1, <2>2, <2>4 DEF AsksBuffer, Closes, Moves, Marked
  <2> QED
    BY <2>1, <2>2, <2>3, <2>5, MarkStep
<1> QED
  BY <1>1, <1>2 DEF ClientKinds

LEMMA NextMarks ==
  ASSUME Shape, Shape', IdInv, IdsLast, ClaimInv, OneThreadPerHandle, MarkInv, [Next]_vars
  PROVE  MarkInv'
<1>1. CASE UNCHANGED vars \/ Load
  BY <1>1 DEF vars, fileVars, Load, MarkInv, Tallied, Marked
<1>2. ASSUME NEW h \in Handles, Open(h) PROVE MarkInv'
  <2>1. /\ owned' = [owned EXCEPT ![h] = {}] /\ ownedCount' = [ownedCount EXCEPT ![h] = 0]
        /\ held'[h] = {} /\ UNCHANGED <<held, req>> /\ \A u \in Threads : req[u].h # h
    BY <1>2 DEF Open, Shape, Typed
  <2>2. /\ owned'[h] = {} /\ ownedCount'[h] = 0
        /\ \A g \in Handles : g # h => owned'[g] = owned[g] /\ ownedCount'[g] = ownedCount[g]
    BY <2>1 DEF Shape, Typed
  <2>3. \A g \in Handles : Tallied(g)'
    BY <2>1, <2>2, FS_EmptySet DEF MarkInv, Tallied
  <2>4. \A u \in Threads : Marked(u)'
    <3> SUFFICES ASSUME NEW u \in Threads PROVE Marked(u)'
      OBVIOUS
    <3>1. Marked(u) /\ (req[u].h \in Handles => owned'[req[u].h] = owned[req[u].h])
      BY <2>1, <2>2 DEF MarkInv
    <3>2. req[u].h \notin Handles => req[u].op \notin Allocs \cup Named /\ req[u].pc # "owned"
      BY MyCall DEF Placed, WellFormed, Shape, Typed
    <3> QED
      BY <2>1, <3>1, <3>2 DEF Marked
  <2> QED
    BY <2>3, <2>4 DEF MarkInv
<1> QED
  BY <1>1, <1>2, MarkHandlers, MarkClients, Kinds

LEMMA MarkInvariant ==
  ASSUME Careful, IdsLast, OneThreadPerHandle
  PROVE  Spec => []MarkInv
<1>1. Init => MarkInv
  BY NoRequestIs, FS_EmptySet DEF Init, MarkInv, Tallied, Marked
<1> QED
  BY <1>1, ShapeNext, NextMarks, ClaimInvariant, PTL DEF Spec

-----------------------------------------------------------------------------
(* Which handle frees what: a buffer that no request has belongs to a       *)
(* handle in use, and a handle being closed has emptied the slots of its    *)
(* bits as far as it has come.                                              *)

Untouched(b) == b \in Live /\ \A t \in Threads : Has(t) => req[t].buf # b
Kept(b) == \E h \in Handles : InUse(h) /\ heap[b].id \in owned[h]
Passed(t) == {i \in owned[req[t].h] : i < req[t].idx}
OwnSwept(t) ==
  req[t].op = "close" => /\ \A i \in Passed(t) : table[i] \in {NoBuf, req[t].buf}
                         /\ req[t].freed = Cardinality(Passed(t))
OwnerInv == (\A t \in Threads : OwnSwept(t)) /\ (\A b \in Bufs : Untouched(b) => Kept(b))

LEMMA ClosesOwn ==
  ASSUME Shape, NEW t \in Threads, req[t].op = "close"
  PROVE  /\ req[t].h \in Handles /\ req[t].h \notin open
         /\ \A u \in Threads : u # t => req[u].h # req[t].h
BY MyCall, WinDriverAssumption DEF Placed

(* What one request does to the slots and the bits of another's handle      *)
LEMMA ElsewhereStep ==
  ASSUME Shape, IdInv, IdsLast, NEW t \in Threads, StepKinds(t) \/ ClientKinds(t)
  PROVE  /\ Rest(t)
         /\ \A g \in Handles : g # req[t].h => owned'[g] = owned[g]
         /\ \A i \in Ids : table'[i] \in {table[i], NoBuf} \/ nextId < i
<1>0. /\ owned \in [Handles -> SUBSET Ids] /\ table \in [Ids -> Bufs \cup {NoBuf}]
      /\ nextId \in Nat
  BY BoundsAreNat DEF Shape, Typed
<1>1. Rest(t)
  BY NewId
     DEF StepKinds, Tries, GivesUp, Takes, Accounts, Registers, Maps, ReadsOwned, SetsOwned,
         ClearsOwned, Finds, Advises, Relabels, Leaves, Delists, Unlinks, Unregisters, Releases,
         ResetsEntry, UnloadsEntry, CleansEntry, Skips, Ends, Comes, Moves,
         ClientKinds, AsksMemory, AsksBuffer, AsksReset, Closes, Unloads
<1>2. ASSUME NEW g \in Handles, g # req[t].h PROVE owned'[g] = owned[g]
  BY <1>0, <1>2, NewId
     DEF StepKinds, Tries, GivesUp, Takes, Accounts, Registers, Maps, ReadsOwned, SetsOwned,
         ClearsOwned, Finds, Advises, Relabels, Leaves, Delists, Unlinks, Unregisters, Releases,
         ResetsEntry, UnloadsEntry, CleansEntry, Skips, Ends, others, fileVars,
         ClientKinds, AsksMemory, AsksBuffer, AsksReset, Closes, Unloads
<1>3. ASSUME NEW i \in Ids PROVE table'[i] \in {table[i], NoBuf} \/ nextId < i
  <2>1. CASE Registers(t)
    <3>1. PICK n \in Ids : n = nextId + 1 /\ req'[t].id = n
      BY <2>1, NewId
    <3>2. nextId < n
      BY <1>0, <3>1
    <3> QED
      BY <1>0, <2>1, <3>1, <3>2 DEF Registers
  <2>2. CASE ~Registers(t)
    BY <1>0, <2>2, NewId
       DEF StepKinds, Tries, GivesUp, Takes, Accounts, Maps, ReadsOwned, SetsOwned,
           ClearsOwned, Finds, Advises, Relabels, Leaves, Delists, Unlinks, Unregisters, Releases,
           ResetsEntry, UnloadsEntry, CleansEntry, Skips, Ends, others, tableVars,
           ClientKinds, AsksMemory, AsksBuffer, AsksReset, Closes, Unloads
  <2> QED
    BY <2>1, <2>2
<1> QED
  BY <1>1, <1>2, <1>3

LEMMA SweptOther ==
  ASSUME Shape, IdInv, IdsLast, ClaimInv, NEW t \in Threads, StepKinds(t) \/ ClientKinds(t),
         NEW u \in Threads, u # t, OwnSwept(u)
  PROVE  OwnSwept(u)'
<1> SUFFICES ASSUME req'[u].op = "close"
             PROVE  /\ \A i \in Passed(u)' : table'[i] \in {NoBuf, req'[u].buf}
                    /\ req'[u].freed = Cardinality(Passed(u)')
  BY DEF OwnSwept
<1>1. req'[u] = req[u] /\ req[u].op = "close"
  BY ElsewhereStep DEF Rest
<1>2. req[u].h \in Handles /\ req[u].h # req[t].h
  BY <1>1, ClosesOwn
<1>3. Passed(u)' = Passed(u)
  BY <1>1, <1>2, ElsewhereStep DEF Passed
<1>4. ASSUME NEW i \in Passed(u) PROVE table'[i] \in {NoBuf, req[u].buf}
  <2>1. i \in Ids /\ i \in owned[req[u].h] /\ table[i] \in {NoBuf, req[u].buf}
    BY <1>1, <1>2 DEF OwnSwept, Passed, Shape, Typed
  <2>2. i <= nextId
    BY <1>2, <2>1, MyClaims DEF ClaimInv, ClaimsGiven
  <2>3. ~(nextId < i)
    BY <2>1, <2>2, IdsAreNat, BoundsAreNat DEF Shape, Typed
  <2> QED
    BY <2>1, <2>3, ElsewhereStep
<1> QED
  BY <1>1, <1>3, <1>4 DEF OwnSwept

(* The slot a closing handle passes over is empty *)
LEMMA PassedIsEmpty ==
  ASSUME Shape, ClaimInv, BufInv, NEW t \in Threads, req[t].op = "close", ~Has(t),
         NEW i \in Ids, i \in owned[req[t].h], ~Active(table[i])
  PROVE  table[i] = NoBuf
<1> SUFFICES ASSUME table[i] # NoBuf PROVE FALSE
  OBVIOUS
<1>1. table[i] \in Live
  BY DEF BufInv, SlotsLead
<1>2. req[t].h \in Handles
  BY ClosesOwn
<1>3. Claims(req[t].h, i)
  BY <1>2, MyClaims
<1>4. \A u \in Threads : u # t /\ Has(u) => req[u].buf # table[i]
  BY <1>2, <1>3, FoundAlone
<1>5. Loose(table[i])
  BY <1>1, <1>4 DEF BufInv, RestLoose
<1> QED
  BY <1>5 DEF Loose, Active

LEMMA SweptOwn ==
  ASSUME Shape, Shape', IdInv, IdsLast, ClaimInv, BufInv, NEW t \in Threads, StepKinds(t) \/ ClientKinds(t),
         OwnSwept(t)
  PROVE  OwnSwept(t)'
<1> SUFFICES ASSUME req'[t].op = "close" PROVE OwnSwept(t)'
  BY DEF OwnSwept
<1>0. req'[t].pc # "idle" /\ NoBuf \notin Bufs
  BY IdlesNext, NoBufApart
<1>1. ASSUME StepKinds(t), ~Registers(t)
      PROVE  SameCall(t) /\ req[t].op = "close"
  BY <1>0, <1>1, NoClaims DEF Claimless, SameCall
<1>2. CASE Closes(t)
  <2>1. PICK h \in Handles : h = req'[t].h
    BY <1>2 DEF Closes, Shape, Typed
  <2>2. req'[t].idx = 1 /\ req'[t].freed = 0 /\ owned' = owned /\ owned[h] \subseteq Ids
    BY <1>2 DEF Closes, Shape, Typed
  <2>3. Passed(t)' = {}
    BY <2>1, <2>2, IdsAreNat DEF Passed
  <2> QED
    BY <2>2, <2>3, FS_EmptySet DEF OwnSwept
<1>3. ASSUME ClientKinds(t), ~Closes(t) PROVE FALSE
  <2>1. WellFormed(req'[t])
    BY DEF Shape
  <2> QED
    BY <1>3, <2>1 DEF ClientKinds, AsksMemory, AsksBuffer, AsksReset, Unloads, Moves, WellFormed
<1>4. ASSUME Registers(t) PROVE FALSE
  BY <1>4, MyCall DEF Registers, Moves, WellFormed
<1>5. ASSUME StepKinds(t), req[t].op = "close", SameCall(t), ~Registers(t)
      PROVE  OwnSwept(t)'
  <2>0. req[t].pc \in Freeing \cup {"scan"} /\ req[t].h \in Handles
    BY <1>5, MyCall, ClosesOwn, NoRequestIs DEF WellFormed, Request
  <2>1. PICK h, O : h = req[t].h /\ O = owned[h]
    OBVIOUS
  <2>2. owned' = owned /\ req'[t].h = h /\ O \subseteq Ids
    BY <1>5, <2>0, <2>1, NewId
       DEF StepKinds, Tries, GivesUp, Takes, Accounts, Maps, ReadsOwned, SetsOwned, SameCall,
           ClearsOwned, Finds, Advises, Relabels, Leaves, Delists, Unlinks, Unregisters, Releases,
           ResetsEntry, UnloadsEntry, CleansEntry, Skips, Ends, others, fileVars, Shape, Typed
  <2>3. /\ \A i \in O : i < req[t].idx => table[i] \in {NoBuf, req[t].buf}
        /\ req[t].freed = Cardinality({i \in O : i < req[t].idx})
    BY <1>5, <2>1 DEF OwnSwept, Passed
  <2>4. Passed(t)' = {i \in O : i < req'[t].idx}
    BY <2>1, <2>2 DEF Passed
  <2>5. CASE Unlinks(t) \/ Unregisters(t) \/ Releases(t)
    <3>1. /\ req'[t].idx = req[t].idx /\ req'[t].freed = req[t].freed
          /\ \A i \in Ids : table'[i] \in {table[i], NoBuf}
      BY <1>0, <2>5 DEF Unlinks, Unregisters, Releases, Keeps, tableVars, Shape, Typed
    <3>2. CASE req'[t].buf = req[t].buf
      BY <2>2, <2>3, <2>4, <3>1, <3>2 DEF OwnSwept
    <3>3. CASE Releases(t)
      <4>1. \A i \in Ids : table[i] # req[t].buf
        <5>1. PICK b \in Bufs : Holds(t, b)
          BY <3>3, HoldsOne DEF Releases, Moves, Has
        <5> QED
          BY <3>3, <5>1 DEF Releases, Moves, Carries
      <4> QED
        BY <2>2, <2>3, <2>4, <3>1, <4>1 DEF OwnSwept
    <3> QED
      BY <2>5, <3>2, <3>3 DEF Unlinks, Unregisters, Keeps
  <2>6. CASE CleansEntry(t) \/ Skips(t)
    <3>1. PICK k \in Ids : k = req[t].idx /\ req'[t].idx = k + 1
      BY <2>6 DEF CleansEntry, Comes, Skips
    <3>2. req[t].pc = "scan" /\ req[t].buf = NoBuf /\ table' = table
      BY <2>6, MyCall DEF CleansEntry, Comes, Skips, Moves, others, tableVars, WellFormed, Request
    <3>3. \A i \in O : i < k + 1 <=> i < k \/ i = k
      BY <2>2, IdsAreNat
    <3>4. k \in O => table[k] \in {NoBuf, req'[t].buf}
      BY <1>5, <2>1, <2>6, <3>1, <3>2, PassedIsEmpty DEF CleansEntry, Comes, Skips, Has
    <3>5. \A i \in Passed(t)' : table'[i] \in {NoBuf, req'[t].buf}
      BY <2>3, <2>4, <3>1, <3>2, <3>3, <3>4
    <3>6. PICK P : P = {i \in O : i < k}
      OBVIOUS
    <3>7. IsFiniteSet(P) /\ Cardinality(P) \in Nat /\ k \notin P /\ req[t].freed = Cardinality(P)
      <4>1. IsFiniteSet(O)
        BY <2>0, <2>1, OwnedIsFinite
      <4>2. P \subseteq O
        BY <3>6
      <4>3. IsFiniteSet(P)
        BY <4>1, <4>2, FS_Subset
      <4> QED
        BY <2>3, <3>1, <3>6, <4>3, FS_CardinalityType, IdsAreNat
    <3>8. CASE k \in O
      <4>1. Passed(t)' = P \cup {k}
        BY <2>4, <3>1, <3>3, <3>6, <3>8
      <4>2. Cardinality(P \cup {k}) = Cardinality(P) + 1
        BY <3>7, FS_AddElement
      <4>3. req'[t].freed = req[t].freed + 1
        BY <1>5, <2>1, <2>6, <3>1, <3>8 DEF CleansEntry, Skips
      <4> QED
        BY <3>5, <3>7, <4>1, <4>2, <4>3 DEF OwnSwept
    <3>9. CASE k \notin O
      <4>1. Passed(t)' = P
        BY <2>4, <3>1, <3>3, <3>6, <3>9
      <4>2. req'[t].freed = req[t].freed
        BY <1>5, <2>1, <2>6, <3>1, <3>9 DEF CleansEntry, Skips
      <4> QED
        BY <3>5, <3>7, <4>1, <4>2 DEF OwnSwept
    <3> QED
      BY <3>8, <3>9
  <2> QED
    BY <1>0, <1>5, <2>0, <2>5, <2>6, NewId
       DEF StepKinds, Tries, GivesUp, Takes, Accounts, Maps, ReadsOwned, SetsOwned,
           ClearsOwned, Finds, Advises, Relabels, Leaves, Delists, ResetsEntry, UnloadsEntry, Comes,
           Ends, Moves
<1> QED
  BY <1>1, <1>2, <1>3, <1>4, <1>5

(* A buffer is let go only by a request that leaves it with its handle      *)
LetsGo(t) == SetsOwned(t) \/ Advises(t) \/ Leaves(t) \/ Delists(t)

LEMMA UntouchedBefore ==
  ASSUME Shape, Shape', IdInv, IdsLast, BufInv, NEW t \in Threads, StepKinds(t) \/ ClientKinds(t),
         NEW c \in Bufs, Untouched(c)', Has(t) => req[t].buf # c
  PROVE  Untouched(c) /\ heap'[c] = heap[c]
<1>0. heap \in [Bufs -> Buffer \cup {NoBuf}] /\ NoBuf \notin Bufs
  BY NoBufApart DEF Shape, Typed
<1>1. Has(t)' => req'[t].buf # c
  BY DEF Untouched
<1>2. heap'[c] = heap[c]
  <2>1. CASE Takes(t)
    BY <1>1, <2>1 DEF Takes, Moves, Has
  <2>2. CASE ResetsEntry(t)
    BY <1>0, <1>1, <2>2 DEF ResetsEntry, Comes, Moves, Has, WithoutId
  <2> QED
    BY <1>1, <2>1, <2>2, NewId
       DEF StepKinds, Tries, GivesUp, Accounts, Registers, Maps, ReadsOwned, SetsOwned,
           ClearsOwned, Finds, Advises, Relabels, Leaves, Delists, Unlinks, Unregisters, Releases,
           UnloadsEntry, CleansEntry, Skips, Ends, Alters, Moves, Has, others,
           ClientKinds, AsksMemory, AsksBuffer, AsksReset, Closes, Unloads
<1>3. c \in Live
  BY <1>2 DEF Untouched, Live
<1>4. \A u \in Threads : Has(u) => req[u].buf # c
  BY ElsewhereStep DEF Untouched, Rest, Has
<1> QED
  BY <1>2, <1>3, <1>4 DEF Untouched

LEMMA LetGo ==
  ASSUME Shape, Shape', IdInv, IdsLast, BufInv, MarkInv, NEW t \in Threads, StepKinds(t) \/ ClientKinds(t),
         NEW c \in Bufs, Untouched(c)', Has(t), req[t].buf = c
  PROVE  Kept(c)'
<1>0. /\ heap \in [Bufs -> Buffer \cup {NoBuf}] /\ owned \in [Handles -> SUBSET Ids]
      /\ open \subseteq Handles
  BY DEF Shape, Typed
<1>1. Has(t)' => req'[t].buf # c
  BY DEF Untouched
<1>2. c \in Live'
  BY DEF Untouched
<1>3. LetsGo(t)
  BY <1>1, <1>2, NewId
     DEF StepKinds, Tries, GivesUp, Takes, Accounts, Registers, Maps, ReadsOwned, SetsOwned,
         ClearsOwned, Finds, Advises, Relabels, Leaves, Delists, Unlinks, Unregisters, Releases,
         ResetsEntry, UnloadsEntry, CleansEntry, Skips, Ends, Comes, Keeps, Moves, Has, LetsGo, Live,
         ClientKinds, AsksMemory, AsksBuffer, AsksReset, Closes, Unloads
<1>4. PICK b \in Bufs : Holds(t, b)
  BY HoldsOne
<1>5. PICK h, i : h = req[t].h /\ i = req[t].id
  OBVIOUS
<1>6. b = c /\ heap[c].id = i /\ heap'[c].id = heap[c].id
  <2>1. req[t].pc \in Registered
    BY <1>3 DEF LetsGo, SetsOwned, Advises, Leaves, Delists, Moves
  <2>2. b = c /\ heap[c].id = i
    BY <1>4, <1>5, <2>1 DEF Carries
  <2> QED
    BY <1>3, <2>2 DEF LetsGo, SetsOwned, Advises, Leaves, Delists, Alters
<1>7. h \in open /\ open' = open
  <2>1. req[t].op \in Allocs \cup Named
    BY <1>3, MyCall DEF LetsGo, SetsOwned, Advises, Leaves, Delists, Moves, WellFormed
  <2> QED
    BY <1>3, <1>5, <2>1, MyCall DEF LetsGo, SetsOwned, Advises, Leaves, Delists, Placed
<1>8. i \in owned'[h]
  <2>1. CASE SetsOwned(t)
    BY <1>0, <1>5, <1>7, <2>1 DEF SetsOwned
  <2>2. CASE Advises(t) \/ Leaves(t) \/ Delists(t)
    <3>1. req[t].op \in Named /\ req[t].pc \in Registered /\ owned' = owned
      BY <2>2, MyCall DEF Advises, Leaves, Delists, Moves, WellFormed
    <3> QED
      BY <1>5, <3>1 DEF MarkInv, Marked
  <2> QED
    BY <1>3, <2>1, <2>2 DEF LetsGo
<1> QED
  BY <1>0, <1>6, <1>7, <1>8 DEF Kept, InUse

(* A handle stays in use and keeps its bits, but for the id that is freed   *)
(* and the handle that is gone                                              *)
LEMMA StaysKept ==
  ASSUME Shape, Shape', IdInv, IdsLast, MarkInv, NEW t \in Threads, StepKinds(t) \/ ClientKinds(t),
         NEW h \in Handles, InUse(h), NEW i \in owned[h],
         ClearsOwned(t) => h # req[t].h \/ i # req[t].id,
         Ends(t) /\ req[t].op = "close" => h # req[t].h
  PROVE  InUse(h)' /\ i \in owned'[h]
<1>0. owned \in [Handles -> SUBSET Ids] /\ open \subseteq Handles
  BY DEF Shape, Typed
<1>1. Rest(t)
  BY ElsewhereStep
<1>2. CASE ClientKinds(t)
  <2>1. owned' = owned /\ (open' = open \/ open' = open \ {req'[t].h}) /\ req[t].h = NoBuf
    BY <1>2, NoRequestIs
       DEF ClientKinds, AsksMemory, AsksBuffer, AsksReset, Closes, Unloads, others, fileVars
  <2> QED
    BY <1>1, <2>1, NoBufApart DEF InUse, Rest
<1>3. CASE StepKinds(t)
  <2>1. open' = open
    BY <1>3, NewId
       DEF StepKinds, Tries, GivesUp, Takes, Accounts, Registers, Maps, ReadsOwned, SetsOwned,
           ClearsOwned, Finds, Advises, Relabels, Leaves, Delists, Unlinks, Unregisters, Releases,
           ResetsEntry, UnloadsEntry, CleansEntry, Skips, Ends, others, fileVars
  <2>2. ASSUME h = req[t].h PROVE InUse(h)'
    <3>1. h \in open \/ req[t].op = "close"
      BY <2>2, MyCall, NoRequestIs, NoBufApart DEF WellFormed, Placed
    <3>2. req[t].op = "close" => req'[t].h = req[t].h
      <4> SUFFICES ASSUME req[t].op = "close" PROVE req'[t].h = req[t].h
        OBVIOUS
      <4>1. req[t].pc \in Freeing \cup {"scan"}
        BY MyCall, NoRequestIs DEF WellFormed, Request
      <4> QED
        BY <1>3, <2>2, <4>1, NewId
           DEF StepKinds, Tries, GivesUp, Takes, Accounts, Registers, Maps, ReadsOwned, SetsOwned,
               ClearsOwned, Finds, Advises, Relabels, Leaves, Delists, Unlinks, Unregisters, Releases,
               ResetsEntry, UnloadsEntry, CleansEntry, Skips, Ends, Comes, Moves, Keeps, SameCall
    <3> QED
      BY <2>1, <2>2, <3>1, <3>2 DEF InUse
  <2>3. ASSUME h # req[t].h PROVE InUse(h)'
    BY <1>1, <2>1, <2>3 DEF InUse, Rest
  <2>4. CASE SetsOwned(t)
    <3>1. req[t].word = owned[req[t].h]
      BY <2>4 DEF SetsOwned, Moves, MarkInv, Marked
    <3> QED
      BY <1>0, <2>2, <2>3, <2>4, <3>1 DEF SetsOwned
  <2>5. CASE ClearsOwned(t)
    <3>1. req[t].word = owned[req[t].h]
      BY <2>5 DEF ClearsOwned, Moves, MarkInv, Marked
    <3> QED
      BY <1>0, <2>2, <2>3, <2>5, <3>1 DEF ClearsOwned
  <2>6. CASE ~SetsOwned(t) /\ ~ClearsOwned(t)
    <3>1. owned' = owned
      BY <1>3, <2>6, NewId
         DEF StepKinds, Tries, GivesUp, Takes, Accounts, Registers, Maps, ReadsOwned,
             Finds, Advises, Relabels, Leaves, Delists, Unlinks, Unregisters, Releases,
             ResetsEntry, UnloadsEntry, CleansEntry, Skips, Ends, others, fileVars
    <3> QED
      BY <2>2, <2>3, <3>1
  <2> QED
    BY <2>4, <2>5, <2>6
<1> QED
  BY <1>2, <1>3

LEMMA OwnerHandlers ==
  ASSUME Shape, Shape', IdInv, IdsLast, ClaimInv, BufInv, MarkInv, OwnerInv,
         NEW t \in Threads, StepKinds(t) \/ ClientKinds(t)
  PROVE  OwnerInv'
<1>1. \A u \in Threads : OwnSwept(u)'
  BY SweptOther, SweptOwn DEF OwnerInv
<1>2. ASSUME NEW c \in Bufs, Untouched(c)', Has(t) => req[t].buf # c
      PROVE  Kept(c)'
  <2>1. Untouched(c) /\ heap'[c] = heap[c] /\ Loose(c)
    BY <1>2, UntouchedBefore DEF BufInv, RestLoose, Untouched
  <2>2. PICK i \in Ids : i = heap[c].id /\ table[i] = c
    BY <2>1 DEF Loose
  <2>3. PICK h \in Handles : InUse(h) /\ i \in owned[h]
    BY <2>1, <2>2 DEF OwnerInv, Kept
  <2>4. ASSUME ClearsOwned(t), h = req[t].h, i = req[t].id PROVE FALSE
    <3>1. Has(t) /\ req[t].pc = "owned"
      BY <2>4 DEF ClearsOwned, Moves, Has
    <3>2. PICK b \in Bufs : Holds(t, b)
      BY <3>1, HoldsOne
    <3> QED
      BY <1>2, <2>2, <2>4, <3>1, <3>2 DEF Carries
  <2>5. ASSUME Ends(t), req[t].op = "close", h = req[t].h PROVE FALSE
    <3>1. ~More(t) /\ req[t].pc = "scan" /\ req[t].buf = NoBuf /\ OwnSwept(t)
      BY <2>5, MyCall DEF Ends, Moves, WellFormed, Request, OwnerInv
    <3>2. IsFiniteSet(owned[h]) /\ Cardinality(owned[h]) \in Nat /\ ownedCount[h] = Cardinality(owned[h])
      BY OwnedIsFinite DEF MarkInv, Tallied
    <3>3. Passed(t) \subseteq owned[h] /\ Cardinality(Passed(t)) = req[t].freed
      BY <2>5, <3>1 DEF Passed, OwnSwept
    <3>4. req[t].idx \in 1 .. MaxBufs /\ req[t].freed \in Nat
      BY <2>5, MyCall DEF WellFormed, Request
    <3>5. ASSUME ~(req[t].idx < MaxBufs) PROVE i \in Passed(t)
      <4>1. i < req[t].idx
        BY <3>4, <3>5, IdsAreNat
      <4> QED
        BY <2>3, <2>5, <4>1 DEF Passed
    <3>6. ASSUME ~(req[t].freed < ownedCount[h]) PROVE i \in Passed(t)
      <4>1. Cardinality(Passed(t)) <= Cardinality(owned[h])
        BY <3>2, <3>3, FS_Subset
      <4>2. Cardinality(Passed(t)) = Cardinality(owned[h])
        BY <3>2, <3>3, <3>4, <3>6, <4>1
      <4>3. Passed(t) = owned[h]
        BY <3>2, <3>3, <4>2, FS_Subset
      <4> QED
        BY <2>3, <4>3
    <3>7. i \in Passed(t)
      BY <2>5, <3>1, <3>5, <3>6 DEF More
    <3> QED
      BY <2>2, <2>5, <3>1, <3>7, NoBufApart DEF OwnSwept
  <2>6. InUse(h)' /\ i \in owned'[h]
    BY <2>3, <2>4, <2>5, StaysKept
  <2> QED
    BY <2>1, <2>2, <2>6 DEF Kept
<1>3. ASSUME NEW c \in Bufs, Untouched(c)' PROVE Kept(c)'
  BY <1>2, <1>3, LetGo
<1> QED
  BY <1>1, <1>3 DEF OwnerInv

LEMMA OwnerStep ==
  ASSUME Shape, Shape', IdInv, IdsLast, ClaimInv, BufInv, MarkInv, OwnerInv, [Next]_vars
  PROVE  OwnerInv'
<1>1. CASE UNCHANGED vars
  BY <1>1 DEF vars, tableVars, fileVars, OwnerInv, OwnSwept, Passed, Untouched, Kept, InUse, Has, Live
<1>2. CASE Load
  <2>1. Live' = {} /\ \A u \in Threads : req'[u] = NoRequest
    BY <1>2, Idles DEF Load, BufInv, GoneEmpty, Live, Shape, Alone, Quiet
  <2> QED
    BY <2>1, NoRequestIs DEF OwnerInv, OwnSwept, Untouched
<1>3. ASSUME NEW h \in Handles, Open(h) PROVE OwnerInv'
  <2>1. /\ h \notin open /\ open' = open \cup {h} /\ UNCHANGED <<heap, table, req>>
        /\ \A u \in Threads : req[u].h # h
        /\ \A g \in Handles : g # h => owned'[g] = owned[g]
    BY <1>3 DEF Open, tableVars, Shape, Typed
  <2>2. ASSUME NEW u \in Threads PROVE OwnSwept(u)'
    <3>1. req[u].op = "close" => owned'[req[u].h] = owned[req[u].h]
      BY <2>1, ClosesOwn
    <3>2. OwnSwept(u)
      BY DEF OwnerInv
    <3>3. req[u].op = "close" => Passed(u)' = Passed(u)
      BY <2>1, <3>1 DEF Passed
    <3> QED
      BY <2>1, <3>2, <3>3 DEF OwnSwept
  <2>3. ASSUME NEW b \in Bufs, Untouched(b)' PROVE Kept(b)'
    <3>1. Untouched(b) /\ heap'[b] = heap[b]
      BY <2>1, <2>3 DEF Untouched, Live, Has
    <3>2. PICK g \in Handles : InUse(g) /\ heap[b].id \in owned[g]
      BY <3>1 DEF OwnerInv, Kept
    <3>3. g # h
      BY <2>1, <3>2 DEF InUse
    <3>4. InUse(g)' /\ heap'[b].id \in owned'[g]
      BY <2>1, <3>1, <3>2, <3>3 DEF InUse
    <3> QED
      BY <3>4 DEF Kept
  <2> QED
    BY <2>2, <2>3 DEF OwnerInv
<1> QED
  BY <1>1, <1>2, <1>3, OwnerHandlers, Kinds

LEMMA OwnerInvariant ==
  ASSUME Careful, IdsLast, OneThreadPerHandle
  PROVE  Spec => []OwnerInv
<1>1. Init => OwnerInv
  BY NoRequestIs DEF Init, OwnerInv, OwnSwept, Untouched, Live
<1> QED
  BY <1>1, ShapeNext, OwnerStep, BufInvariant, MarkInvariant, PTL DEF Spec

(* With ids to spare, and one thread on a handle, every live buffer can     *)
(* still be released: its id leads to it, and an open handle owns it.       *)
THEOREM NothingIsOrphaned ==
  ASSUME Careful, IdsLast, OneThreadPerHandle
  PROVE  Spec => []NoOrphans
<1>1. Shape /\ BufInv /\ OwnerInv => NoOrphans
  <2> SUFFICES ASSUME Shape, BufInv, OwnerInv, Quiet, NEW b \in Live
               PROVE  /\ heap[b].id \in Ids /\ table[heap[b].id] = b
                      /\ \E h \in open : heap[b].id \in owned[h]
    BY DEF NoOrphans
  <2>1. \A t \in Threads : ~Has(t) /\ req[t].h = NoBuf
    BY Idles DEF Quiet, Has
  <2>2. b \in Bufs /\ Loose(b)
    BY <2>1 DEF BufInv, RestLoose, Live
  <2>3. Kept(b)
    BY <2>1, <2>2 DEF OwnerInv, Untouched
  <2> QED
    BY <2>1, <2>2, <2>3, NoBufApart DEF Loose, Kept, InUse
<1> QED
  BY <1>1, BufInvariant, OwnerInvariant, PTL

(* With ids to spare, one thread on a handle and no EVICT, the counters are *)
(* natural numbers and every variable has its type.                         *)
THEOREM TypeCorrect ==
  ASSUME Careful, IdsLast, OneThreadPerHandle, "evict" \notin Ops
  PROVE  Spec => []TypeOK
<1>1. Shape /\ FiniteInv /\ CountInv /\ ExactInv /\ MarkInv => TypeOK
  <2> SUFFICES ASSUME Shape, FiniteInv, CountInv, ExactInv, MarkInv PROVE TypeOK
    OBVIOUS
  <2>1. activeBufs \in Nat /\ pool \in Nat /\ nvme \in Nat
    BY CountedIsNat, SumIsNat DEF CountInv, ExactInv
  <2>2. \A h \in Handles : ownedCount[h] \in Nat
    BY OwnedIsFinite DEF MarkInv, Tallied
  <2>3. \A b \in Live : heap[b] \in Buffer
    BY LiveIs
  <2> QED
    BY <2>1, <2>2, <2>3 DEF TypeOK, Shape, Typed
<1> QED
  BY <1>1, ShapeInvariant, CountInvariant, ExactInvariant, MarkInvariant, PTL
=============================================================================
