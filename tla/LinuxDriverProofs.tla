--------------------------- MODULE LinuxDriverProofs ---------------------------
(***************************************************************************)
(* What LinuxDriver guarantees for any tasks, buffers, sizes and caps.     *)
(*                                                                         *)
(* The invariant is built in three layers, each inductive relative to      *)
(* those before it: the shape of the state, who may touch a buffer at each *)
(* point of a call, and what has been accounted.                           *)
(***************************************************************************)
EXTENDS LinuxDriver, FiniteSetTheorems, TLAPS

Creating == {"account", "export", "register", "name", "install", "unname"}
Closing == {"unlink", "unregister", "free"}
Using == {"advise", "move", "relabel", "delist"}
Polling == {"get", "put", "set", "stop"}
Labels == {"idle", "take", "report", "lookup", "fault"}
            \cup Creating \cup Closing \cup Using \cup Polling

Call == [op : {"none", "alloc", "pin", "madvise", "evict", "close", "poll", "exit"},
         pc : Labels, buf : Bufs \cup {NoBuf}, id : Ids \cup {0}, size : Nat,
         event : Events \cup {NoEvent}]

(* Which call can be at a label, and what it carries there                  *)
WellFormed(c) ==
  /\ c.pc = "idle" => c = NoCall
  /\ c.pc \in {"take", "report", "fault"} \cup Creating => c.op \in {"alloc", "pin"}
  /\ c.pc \in Closing => c.op \in {"alloc", "pin", "close"}
  /\ c.pc \in {"lookup"} \cup Using => c.op \in {"madvise", "evict"} /\ c.id \in Ids
  /\ c.pc \notin {"lookup"} \cup Using => c.id = 0
  /\ c.pc \in {"take", "lookup"} \cup Polling => c.buf = NoBuf
  /\ c.pc \in Creating \cup Closing \cup Using \cup {"report"} => c.buf \in Bufs
  /\ c.pc \in Polling <=> c.op \in {"poll", "exit"}
  /\ c.pc = "get" => c.op = "poll"
  /\ c.pc = "stop" => c.op = "exit"
  /\ c.op = "poll" => c.event \in Events
  /\ c.op = "exit" => c.event = NoEvent

(* gb_exit runs alone, and nothing runs while the module is not loaded      *)
Alone ==
  /\ \A t, u \in Threads : call[t].op = "exit" /\ u # t => At(u, "idle")
  /\ (\E t \in Threads : call[t].op = "exit") => loaded
  /\ ~loaded => Quiet

Typed ==
  /\ heap \in [Bufs -> Buffer \cup {NoBuf}]
  /\ idr \in [Ids -> Bufs \cup {NoBuf}]
  /\ lru \subseteq Bufs
  /\ refs \in [Bufs -> Nat] /\ \A b \in Bufs : refs[b] <= MaxRefs
  /\ call \in [Threads -> Call]
  /\ loaded \in BOOLEAN /\ pressure \in BOOLEAN
  /\ event \in Events \cup {NoEvent} /\ taken \in [Events -> Int] /\ exists \subseteq Events
  /\ watchdog \in {"sleep", "test", "signal"} /\ target \in Events \cup {NoEvent}

Shape == Typed /\ (\A t \in Threads : WellFormed(call[t])) /\ Alone
-----------------------------------------------------------------------------
(* The shape of the state *)

LEMMA PagesAreNat ==
  ASSUME NEW n \in Nat, NEW kind
  PROVE  Pages(n, kind) \in Nat
<1>1. \A h \in Nat \ {0} : ((n + h - 1) \div h) \in Nat
  OBVIOUS
<1>2. \A x, y \in Nat : x * y \in Nat
  OBVIOUS
<1> QED
  BY <1>1, <1>2, LinuxDriverAssumption DEF Pages

LEMMA Updates ==
  /\ \A c \in Call : \A l \in Labels : [c EXCEPT !.pc = l] \in Call
  /\ \A c \in Call : \A l \in Labels : \A b \in Bufs : [c EXCEPT !.buf = b, !.pc = l] \in Call
  /\ \A h \in Buffer : [h EXCEPT !.tier = 3] \in Buffer
  /\ \A h \in Buffer : \A i \in Ids \cup {0} : [h EXCEPT !.id = i] \in Buffer
BY DEF Call, Buffer

(* The bound on a call that starts or goes on: the call a task is in is     *)
(* replaced by a well formed one, and no gb_exit is started beside others.  *)
LEMMA CallStep ==
  ASSUME Shape, NEW t \in Threads, NEW c \in Call, call' = [call EXCEPT ![t] = c],
         WellFormed(c), UNCHANGED loaded,
         At(t, "idle") => Idle(t), c.op = "exit" => call[t].op = "exit" \/ Quiet
  PROVE  /\ call' \in [Threads -> Call]
         /\ \A u \in Threads : WellFormed(call'[u])
         /\ Alone'
<1>1. call' \in [Threads -> Call] /\ call'[t] = c /\ \A u \in Threads : u # t => call'[u] = call[u]
  BY DEF Shape, Typed
<1>2. \A u \in Threads : WellFormed(call'[u])
  BY <1>1 DEF Shape
<1>3. ASSUME NEW u \in Threads, NEW v \in Threads, call'[u].op = "exit", v # u
      PROVE  At(v, "idle")' /\ loaded
  <2>1. CASE u = t
    BY <1>1, <1>3, <2>1 DEF Shape, Alone, Quiet, At, Idle
  <2>2. CASE u # t
    <3>1. At(t, "idle")
      BY <1>1, <1>3, <2>2 DEF Shape, Alone
    <3> QED
      BY <1>1, <1>3, <2>2, <3>1 DEF Idle
  <2> QED
    BY <2>1, <2>2
<1>4. (\E u \in Threads : call'[u].op = "exit") => loaded
  <2>1. CASE call'[t].op = "exit"
    BY <1>1, <2>1 DEF Shape, Alone, Quiet, Idle
  <2> QED
    BY <1>1, <2>1 DEF Shape, Alone
<1>5. loaded
  BY DEF Shape, Alone, Quiet, Idle
<1> QED
  BY <1>1, <1>2, <1>3, <1>4, <1>5 DEF Alone

(* A step of one call: its variables are typed and the call goes on *)
LEMMA ShapeStep ==
  ASSUME Shape, NEW t \in Threads, NEW c \in Call, call' = [call EXCEPT ![t] = c],
         WellFormed(c), UNCHANGED loaded,
         At(t, "idle") => Idle(t), c.op = "exit" => call[t].op = "exit" \/ Quiet,
         call' \in [Threads -> Call] => Typed'
  PROVE  Shape'
BY CallStep DEF Shape

USE DEF Labels, Creating, Closing, Using, Polling

LEMMA ShapeAsk ==
  ASSUME Shape, NEW t \in Threads,
         AskMemory(t) \/ AskBuffer(t) \/ AskPoll(t) \/ Exit(t)
           \/ \E b \in Bufs : Drop(t, b)
  PROVE  Shape'
<1> USE DEF Ask, Typed, Shape, Call, WellFormed
<1>1. CASE AskMemory(t)
  <2>1. PICK op \in OpsOf[t] \cap {"alloc", "pin"}, n \in Sizes :
          Ask(t, op, "take", NoBuf, 0, n, NoEvent)
    BY <1>1 DEF AskMemory
  <2> DEFINE c == [op |-> op, pc |-> "take", buf |-> NoBuf, id |-> 0, size |-> n, event |-> NoEvent]
  <2>2. c \in Call /\ WellFormed(c) /\ n \in Nat
    BY LinuxDriverAssumption
  <2> QED
    BY <1>1, <2>1, <2>2, ShapeStep
       DEF AskMemory, bufVars, eventVars, watchVars
<1>2. CASE AskBuffer(t)
  <2>1. PICK op \in OpsOf[t] \cap {"madvise", "evict"}, id \in Ids :
          Ask(t, op, "lookup", NoBuf, id, 0, NoEvent)
    BY <1>2 DEF AskBuffer
  <2> DEFINE c == [op |-> op, pc |-> "lookup", buf |-> NoBuf, id |-> id, size |-> 0, event |-> NoEvent]
  <2>2. c \in Call /\ WellFormed(c)
    OBVIOUS
  <2> QED
    BY <1>2, <2>1, <2>2, ShapeStep DEF AskBuffer, bufVars, eventVars, watchVars
<1>3. CASE AskPoll(t)
  <2>1. PICK e \in exists : Ask(t, "poll", "get", NoBuf, 0, 0, e)
    BY <1>3 DEF AskPoll
  <2> DEFINE c == [op |-> "poll", pc |-> "get", buf |-> NoBuf, id |-> 0, size |-> 0, event |-> e]
  <2>2. c \in Call /\ WellFormed(c)
    OBVIOUS
  <2> QED
    BY <1>3, <2>1, <2>2, ShapeStep DEF AskPoll, bufVars, eventVars, watchVars
<1>4. CASE Exit(t)
  <2> DEFINE c == [op |-> "exit", pc |-> "put", buf |-> NoBuf, id |-> 0, size |-> 0, event |-> NoEvent]
  <2>2. c \in Call /\ WellFormed(c)
    OBVIOUS
  <2> QED
    BY <1>4, <2>2, ShapeStep DEF Exit, bufVars, eventVars, watchVars
<1>5. ASSUME NEW b \in Bufs, Drop(t, b) PROVE Shape'
  <2> DEFINE c == [op |-> "close", pc |-> "unlink", buf |-> b, id |-> 0, size |-> 0, event |-> NoEvent]
  <2>1. c \in Call /\ WellFormed(c)
    OBVIOUS
  <2>2. refs' \in [Bufs -> Nat] /\ \A d \in Bufs : refs'[d] <= MaxRefs
    BY <1>5, LinuxDriverAssumption DEF Drop
  <2>3. CASE refs[b] = 1
    BY <1>5, <2>1, <2>2, <2>3, ShapeStep DEF Drop, eventVars, watchVars
  <2>4. CASE refs[b] # 1
    BY <1>5, <2>2, <2>4 DEF Drop, eventVars, watchVars, Alone, Quiet, At
  <2> QED
    BY <2>3, <2>4
<1> QED
  BY <1>1, <1>2, <1>3, <1>4, <1>5

(* A call that only moves on *)
LEMMA ShapeMoves ==
  ASSUME Shape, NEW t \in Threads, NEW label, call' = [call EXCEPT ![t].pc = label],
         [call[t] EXCEPT !.pc = label] \in Call, WellFormed([call[t] EXCEPT !.pc = label]),
         ~At(t, "idle"), UNCHANGED loaded, call' \in [Threads -> Call] => Typed'
  PROVE  Shape'
<1>1. call' = [call EXCEPT ![t] = [call[t] EXCEPT !.pc = label]]
  BY DEF Shape, Typed, Call
<1> QED
  BY <1>1, ShapeStep DEF Call, Shape, Typed

LEMMA ShapeEnds ==
  ASSUME Shape, NEW t \in Threads, Done(t),
         ~At(t, "idle"), UNCHANGED loaded, call' \in [Threads -> Call] => Typed'
  PROVE  Shape'
<1>1. NoCall \in Call /\ WellFormed(NoCall)
  BY DEF NoCall, Call, WellFormed
<1> QED
  BY <1>1, ShapeStep DEF Done, NoCall

LEMMA ShapeAllocates ==
  ASSUME Shape, NEW t \in Threads,
         \/ Take(t) \/ Account(t) \/ Export(t) \/ Register(t) \/ Name(t) \/ Install(t)
         \/ Unname(t) \/ Report(t)
  PROVE  Shape'
<1> USE DEF Typed, Call, WellFormed, At, Goto, bufVars, counters, eventVars, watchVars
<1>0. Typed /\ call[t] \in Call /\ WellFormed(call[t])
  BY DEF Shape
<1> HIDE DEF Typed, Call, WellFormed
<1>a. \A b \in Live : heap[b] \in Buffer
  BY <1>0 DEF Live, Typed
<1>b. call[t].pc \in {"report"} \cup Creating => call[t].buf \in Bufs
  BY <1>0 DEF WellFormed
<1>c. ASSUME NEW label \in {"export", "register", "name", "install", "unname", "report", "unlink", "fault"},
             call[t].pc \in Creating, call[t].pc = "install" => label # "fault"
      PROVE  [call[t] EXCEPT !.pc = label] \in Call /\ WellFormed([call[t] EXCEPT !.pc = label])
  BY <1>0, <1>c DEF Call, WellFormed
<1>1. CASE Take(t)
  <2>1. CASE Done(t) /\ UNCHANGED heap
    BY <1>0, <1>1, <2>1, ShapeEnds DEF Take, Typed
  <2>2. CASE ~(Done(t) /\ UNCHANGED heap)
    <3>1. PICK b \in Bufs \ Live, tier \in {2, 3}, kind \in {"huge", "small", "user"} :
            /\ heap' = [heap EXCEPT ![b] = [tier |-> tier, kind |-> kind, id |-> 0,
                                            size |-> Pages(call[t].size, kind)]]
            /\ call' = [call EXCEPT ![t].buf = b, ![t].pc = "account"]
      BY <1>1, <2>2 DEF Take
    <3>2. [tier |-> tier, kind |-> kind, id |-> 0, size |-> Pages(call[t].size, kind)] \in Buffer
      BY <1>0, PagesAreNat DEF Buffer, Call
    <3> DEFINE c == [call[t] EXCEPT !.buf = b, !.pc = "account"]
    <3>3. c \in Call /\ WellFormed(c)
      BY <1>0, <1>1 DEF Take, Call, WellFormed
    <3>4. call' = [call EXCEPT ![t] = c]
      BY <1>0, <3>1 DEF Typed, Call
    <3>5. heap' \in [Bufs -> Buffer \cup {NoBuf}] /\ call' \in [Threads -> Call]
      BY <1>0, <3>1, <3>2, <3>3, <3>4 DEF Typed
    <3>6. UNCHANGED <<idr, lru, refs, loaded, event, taken, exists, pressure, watchdog, target>>
      BY <1>1 DEF Take
    <3>7. Typed'
      BY <1>0, <3>5, <3>6 DEF Typed
    <3>8. c.op # "exit" /\ ~At(t, "idle")
      BY <1>0, <1>1 DEF Take, Call, WellFormed
    <3> QED
      BY <3>3, <3>4, <3>6, <3>7, <3>8, ShapeStep
  <2> QED
    BY <2>1, <2>2
<1>2. CASE Account(t)
  <2>1. lru' \subseteq Bufs
    <3>1. lru' = lru \cup {call[t].buf} /\ call[t].pc = "account"
      BY <1>2 DEF Account, Reaches
    <3> QED
      BY <1>0, <1>b, <3>1 DEF Typed
  <2> QED
    BY <1>0, <1>2, <1>c, <2>1, ShapeMoves DEF Account, Typed, Reaches
<1>3. CASE Export(t)
  <2>1. heap' \in [Bufs -> Buffer \cup {NoBuf}] /\ UNCHANGED <<idr, lru, refs, loaded, eventVars, watchVars>>
    BY <1>0, <1>3 DEF Export, Typed
  <2>2. CASE Done(t)
    BY <1>0, <1>3, <2>1, <2>2, ShapeEnds DEF Export, Typed, Reaches
  <2>3. CASE Goto(t, "register")
    BY <1>0, <1>3, <1>c, <2>1, <2>3, ShapeMoves DEF Export, Typed, Reaches
  <2>4. CASE Goto(t, "fault")
    BY <1>0, <1>3, <1>c, <2>1, <2>4, ShapeMoves DEF Export, Typed, Reaches
  <2> QED
    BY <1>3, <2>2, <2>3, <2>4 DEF Export
<1>4. CASE Register(t)
  <2>1. idr' \in [Ids -> Bufs \cup {NoBuf}]
    BY <1>0, <1>b, <1>4 DEF Register, Reaches, Typed
  <2>2. CASE Goto(t, "name")
    BY <1>0, <1>4, <1>c, <2>1, <2>2, ShapeMoves DEF Register, Typed, Reaches
  <2>3. CASE Goto(t, "unlink")
    BY <1>0, <1>4, <1>c, <2>1, <2>3, ShapeMoves DEF Register, Typed, Reaches
  <2> QED
    BY <1>4, <2>2, <2>3 DEF Register
<1>5. CASE Install(t)
  <2>1. /\ idr' \in [Ids -> Bufs \cup {NoBuf}]
        /\ refs' \in [Bufs -> Nat] /\ \A b \in Bufs : refs'[b] <= MaxRefs
    BY <1>0, <1>a, <1>5, LinuxDriverAssumption DEF Install, Reaches, Typed, Buffer, Live
  <2>2. CASE Goto(t, "report")
    BY <1>0, <1>5, <1>c, <2>1, <2>2, ShapeMoves DEF Install, Typed, Reaches
  <2>3. CASE Goto(t, "unname")
    BY <1>0, <1>5, <1>c, <2>1, <2>3, ShapeMoves DEF Install, Typed, Reaches
  <2> QED
    BY <1>5, <2>2, <2>3 DEF Install
<1>7. CASE Name(t) \/ Unname(t)
  <2>0. PICK id \in Ids \cup {0} : heap' = [heap EXCEPT ![call[t].buf].id = id]
    BY <1>7 DEF Name, Unname
  <2>1. heap' \in [Bufs -> Buffer \cup {NoBuf}]
    <3>1. heap[call[t].buf] \in Buffer /\ call[t].buf \in Bufs
      BY <1>a, <1>b, <1>7 DEF Name, Unname, Reaches
    <3>2. [heap[call[t].buf] EXCEPT !.id = id] \in Buffer
      BY <3>1 DEF Buffer
    <3> QED
      BY <1>0, <2>0, <3>1, <3>2 DEF Typed
  <2>2. CASE Name(t)
    BY <1>0, <2>2, <1>c, <2>1, ShapeMoves DEF Name, Typed, Reaches
  <2>3. CASE Unname(t)
    BY <1>0, <2>3, <1>c, <2>1, ShapeMoves DEF Unname, Typed, Reaches
  <2> QED
    BY <1>7, <2>2, <2>3
<1>6. CASE Report(t)
  BY <1>0, <1>6, ShapeEnds DEF Report, Typed, Reaches
<1> QED
  BY <1>1, <1>2, <1>3, <1>4, <1>5, <1>6, <1>7

LEMMA ShapeFrees ==
  ASSUME Shape, NEW t \in Threads,
         Unlink(t) \/ Unregister(t) \/ Free(t)
  PROVE  Shape'
<1> USE DEF At, Goto, bufVars, counters, eventVars, watchVars, Reaches
<1>0. Typed /\ call[t] \in Call /\ WellFormed(call[t])
  BY DEF Shape, Typed
<1>a. ASSUME NEW label \in Closing, call[t].pc \in Closing
      PROVE  [call[t] EXCEPT !.pc = label] \in Call /\ WellFormed([call[t] EXCEPT !.pc = label])
  BY <1>0, <1>a DEF Call, WellFormed
<1>1. CASE Unlink(t)
  BY <1>0, <1>1, <1>a, ShapeMoves DEF Unlink, Unlinked, Typed
<1>2. CASE Unregister(t)
  <2>1. idr' \in [Ids -> Bufs \cup {NoBuf}]
    <3>1. Buf(t) \in Buffer
      BY <1>0, <1>2 DEF Unregister, Typed, Live, Buf
    <3> QED
      BY <1>0, <1>2, <3>1 DEF Unregister, Typed, Buffer
  <2> QED
    BY <1>0, <1>2, <1>a, <2>1, ShapeMoves DEF Unregister, Typed
<1>3. CASE Free(t)
  <2>1. heap' \in [Bufs -> Buffer \cup {NoBuf}]
    BY <1>0, <1>3 DEF Free, Typed
  <2> QED
    BY <1>0, <1>3, <2>1, ShapeEnds DEF Free, Typed
<1> QED
  BY <1>1, <1>2, <1>3

LEMMA ShapeUses ==
  ASSUME Shape, NEW t \in Threads,
         Lookup(t) \/ Advise(t) \/ Move(t) \/ Relabel(t) \/ Delist(t)
  PROVE  Shape'
<1> USE DEF At, Goto, bufVars, counters, eventVars, watchVars, Reaches
<1>0. Typed /\ call[t] \in Call /\ WellFormed(call[t])
  BY DEF Shape, Typed
<1>1. CASE Lookup(t)
  <2>1. CASE Done(t)
    BY <1>0, <1>1, <2>1, ShapeEnds DEF Lookup, Typed
  <2>2. CASE ~Done(t)
    <3> DEFINE b == idr[call[t].id]
               c == [call[t] EXCEPT !.buf = b, !.pc = IF call[t].op = "evict" THEN "move" ELSE "advise"]
    <3>1. b \in Bufs /\ call' = [call EXCEPT ![t] = c]
      BY <1>0, <1>1, <2>2 DEF Lookup, Typed, Call, WellFormed
    <3>2. c \in Call /\ WellFormed(c)
      <4>1. call[t].op \in {"madvise", "evict"} /\ call[t].id \in Ids /\ call[t].pc = "lookup"
        BY <1>0, <1>1 DEF Lookup, WellFormed
      <4>2. c.op = call[t].op /\ c.id = call[t].id /\ c.buf = b /\ c.pc \in {"move", "advise"}
        BY <1>0 DEF Call
      <4>3. c \in Call
        BY <1>0, <3>1, Updates
      <4> HIDE DEF c
      <4> QED
        BY <3>1, <4>1, <4>2, <4>3 DEF WellFormed
    <3> QED
      <4>1. ~At(t, "idle") /\ c.op # "exit"
        BY <1>0, <1>1 DEF Lookup, Call, WellFormed
      <4> HIDE DEF c
      <4> QED
        BY <1>0, <1>1, <3>1, <3>2, <4>1, ShapeStep DEF Lookup, Typed
  <2> QED
    BY <2>1, <2>2
<1>2. CASE Advise(t)
  BY <1>0, <1>2, ShapeEnds DEF Advise, Typed, Live
<1>3. CASE Move(t)
  <2>1. CASE Done(t)
    BY <1>0, <1>3, <2>1, ShapeEnds DEF Move, Typed
  <2>2. CASE Goto(t, "relabel")
    BY <1>0, <1>3, <2>2, ShapeMoves DEF Move, Typed, Call, WellFormed
  <2> QED
    BY <1>3, <2>1, <2>2 DEF Move
<1>4. CASE Relabel(t)
  <2>1. heap' \in [Bufs -> Buffer \cup {NoBuf}]
    <3>1. Buf(t) \in Buffer /\ call[t].buf \in Bufs
      BY <1>0, <1>4 DEF Relabel, Typed, Live, Buf
    <3>2. [Buf(t) EXCEPT !.tier = 3] \in Buffer
      BY <3>1, Updates
    <3> QED
      BY <1>0, <1>4, <3>1, <3>2 DEF Relabel, Typed, Buf
  <2> QED
    <3>1. [call[t] EXCEPT !.pc = "delist"] \in Call /\ WellFormed([call[t] EXCEPT !.pc = "delist"])
      BY <1>0, <1>4 DEF Relabel, Call, WellFormed
    <3> QED
      BY <1>0, <1>4, <2>1, <3>1, ShapeMoves DEF Relabel, Typed
<1>5. CASE Delist(t)
  BY <1>0, <1>5, ShapeEnds DEF Delist, Typed, Live
<1> QED
  BY <1>1, <1>2, <1>3, <1>4, <1>5

LEMMA ShapeEvents ==
  ASSUME Shape, NEW t \in Threads,
         GetEvent(t) \/ PutEvent(t) \/ SetEvent(t)
  PROVE  Shape'
<1> USE DEF At, Goto, bufVars, counters, watchVars, Reaches
<1>0. Typed /\ call[t] \in Call /\ WellFormed(call[t])
  BY DEF Shape, Typed
<1>1. CASE GetEvent(t)
  <2>1. taken' \in [Events -> Int]
    BY <1>0, <1>1 DEF GetEvent, Typed
  <2>2. CASE Done(t)
    BY <1>0, <1>1, <2>1, <2>2, ShapeEnds DEF GetEvent, Typed
  <2>3. CASE Goto(t, "put")
    BY <1>0, <1>1, <2>1, <2>3, ShapeMoves DEF GetEvent, Typed, Call, WellFormed
  <2> QED
    BY <1>1, <2>2, <2>3 DEF GetEvent
<1>2. CASE PutEvent(t)
  <2>1. taken' \in [Events -> Int]
    BY <1>0, <1>2 DEF PutEvent, Typed, Released
  <2> QED
    BY <1>0, <1>2, <2>1, ShapeMoves DEF PutEvent, Typed, Call, WellFormed
<1>3. CASE SetEvent(t)
  <2>1. event' \in Events \cup {NoEvent}
    BY <1>0, <1>3 DEF SetEvent, Typed, Call
  <2>2. CASE Done(t)
    BY <1>0, <1>3, <2>1, <2>2, ShapeEnds DEF SetEvent, Typed
  <2>3. CASE ~Done(t)
    <3>1. [call[t] EXCEPT !.pc = "stop"] \in Call /\ WellFormed([call[t] EXCEPT !.pc = "stop"])
      BY <1>0, <1>3, <2>3 DEF SetEvent, Call, WellFormed
    <3> QED
      BY <1>0, <1>3, <2>1, <2>3, <3>1, ShapeMoves DEF SetEvent, Typed
  <2> QED
    BY <2>2, <2>3
<1> QED
  BY <1>1, <1>2, <1>3

(* The module is unloaded with nobody in it, and loaded again *)
LEMMA ShapeModule ==
  ASSUME Shape, (\E t \in Threads : StopWatchdog(t)) \/ Load
  PROVE  Shape'
<1>1. ASSUME NEW t \in Threads, StopWatchdog(t) PROVE Shape'
  <2>0. call[t].op = "exit"
    BY <1>1 DEF Shape, WellFormed, StopWatchdog, At
  <2>1. NoCall \in Call /\ WellFormed(NoCall)
    BY DEF NoCall, Call, WellFormed
  <2>2. call' \in [Threads -> Call] /\ call'[t] = NoCall /\ \A u \in Threads : u # t => call'[u] = call[u]
    BY <1>1, <2>1 DEF StopWatchdog, Done, Shape, Typed
  <2>3. \A u \in Threads : WellFormed(call'[u])
    BY <2>1, <2>2 DEF Shape
  <2>4. \A u \in Threads : call'[u] = NoCall
    <3> SUFFICES ASSUME NEW u \in Threads, u # t PROVE call'[u] = NoCall
      BY <2>2
    <3>1. Alone /\ WellFormed(call[u])
      BY DEF Shape
    <3>2. call[u].pc = "idle"
      BY <2>0, <3>1 DEF Alone, At
    <3> QED
      BY <2>2, <3>1, <3>2 DEF WellFormed
  <2> QED
    <3>1. UNCHANGED <<heap, idr, lru, refs, event, taken, exists, pressure, watchdog, target>>
          /\ loaded' = FALSE
      BY <1>1 DEF StopWatchdog, bufVars, eventVars, watchVars
    <3>2. Typed'
      BY <2>2, <3>1 DEF Shape, Typed
    <3>3. Alone'
      BY <2>4 DEF Alone, Quiet, At, NoCall
    <3> QED
      BY <2>3, <3>2, <3>3 DEF Shape
<1>2. CASE Load
  BY <1>2 DEF Load, Shape, Typed, Alone, Quiet, At
<1> QED
  BY <1>1, <1>2

LEMMA ShapeRest ==
  ASSUME Shape, \/ \E b \in Bufs : Share(b)
                \/ \E e \in Events : CloseEvent(e)
                \/ Watch \/ TestEvent \/ SignalEvent
                \/ UNCHANGED vars
  PROVE  Shape'
<1> USE DEF bufVars, counters, eventVars, watchVars, Shape, Typed, Alone, Quiet, At
<1>1. ASSUME NEW b \in Bufs, Share(b) PROVE Shape'
  <2>1. refs' \in [Bufs -> Nat] /\ \A d \in Bufs : refs'[d] <= MaxRefs
    BY <1>1, LinuxDriverAssumption DEF Share
  <2> QED
    BY <1>1, <2>1 DEF Share
<1>2. ASSUME NEW e \in Events, CloseEvent(e) PROVE Shape'
  BY <1>2 DEF CloseEvent
<1>3. CASE Watch \/ TestEvent \/ SignalEvent
  BY <1>3 DEF Watch, TestEvent, SignalEvent
<1>4. CASE UNCHANGED vars
  BY <1>4 DEF vars
<1> QED
  BY <1>1, <1>2, <1>3, <1>4

LEMMA ShapeInvariant == Spec => []Shape
<1>1. Init => Shape
  <2> SUFFICES ASSUME Init PROVE Shape
    OBVIOUS
  <2>1. NoCall \in Call /\ WellFormed(NoCall)
    BY DEF NoCall, Call, WellFormed
  <2>2. \A t \in Threads : call[t] = NoCall
    BY DEF Init
  <2>3. refs \in [Bufs -> Nat] /\ \A b \in Bufs : refs[b] <= MaxRefs
    BY LinuxDriverAssumption DEF Init
  <2>4. Alone
    BY <2>2 DEF Init, Alone, NoCall
  <2>5. Typed
    <3>1. /\ heap \in [Bufs -> Buffer \cup {NoBuf}] /\ idr \in [Ids -> Bufs \cup {NoBuf}]
          /\ call \in [Threads -> Call] /\ taken \in [Events -> Int]
      BY <2>1 DEF Init
    <3> QED
      BY <2>3, <3>1 DEF Init, Typed
  <2> QED
    BY <2>1, <2>2, <2>4, <2>5 DEF Shape
<1>2. Shape /\ [Next]_vars => Shape'
  BY ShapeAsk, ShapeAllocates, ShapeFrees, ShapeUses, ShapeEvents, ShapeModule, ShapeRest
     DEF Next, System
<1> QED
  BY <1>1, <1>2, PTL DEF Spec

-----------------------------------------------------------------------------
(* Who may touch a buffer                                                   *)

(* Clients name a buffer only while they hold it, and no export fails:      *)
(* LinuxDriver_race and LinuxDriver_export show what happens otherwise      *)
Orderly == Careful /\ ~ExportFails

Owning == Creating \cup Closing

(* The id has been taken back, and the buffer does not know *)
Undone == {"unname", "free"}

(* The buffer a call works on, from the lookup of its id on *)
Named(t) == IF call[t].id # 0 THEN idr[call[t].id] ELSE call[t].buf

(* A call that makes or frees a buffer has it for itself; any other finds   *)
(* it through its id while a client holds it                                *)
Holds(t) ==
  /\ call[t].pc # "fault"
  /\ call[t].pc \in Owning => call[t].buf \in Live /\ refs[call[t].buf] = 0
  /\ call[t].pc = "report" => call[t].buf \in Live /\ refs[call[t].buf] > 0
  /\ call[t].pc \in {"lookup"} \cup Using =>
       idr[call[t].id] \in Live /\ refs[idr[call[t].id]] > 0
  /\ call[t].pc \in Using => call[t].buf = idr[call[t].id]
  /\ call[t].pc \in {"account", "export", "register", "name"} => heap[call[t].buf].id = 0
  /\ call[t].pc = "install" => heap[call[t].buf].id \in Ids
  /\ call[t].pc = "relabel" => heap[call[t].buf].tier = 2
  /\ call[t].pc \in {"unregister", "free"} => call[t].buf \notin lru
  /\ call[t].pc \in {"account", "export", "register", "unname", "free"} =>
       \A i \in Ids : idr[i] # call[t].buf

(* A live buffer is held by a client, who finds it under its id, or is in   *)
(* the hands of the call that makes or frees it                             *)
Reachable(b) ==
  /\ refs[b] > 0 => b \in Live /\ heap[b].id \in Ids
  /\ b \in Live /\ heap[b].id \in Ids =>
       idr[heap[b].id] = b \/ \E t \in Threads : call[t].pc \in Undone /\ call[t].buf = b
  /\ \A i \in Ids : idr[i] = b => b \in Live /\ heap[b].id \in {0, i}
  /\ (\E i \in Ids : idr[i] = b /\ heap[b].id = 0) =>
       \E t \in Threads : call[t].pc = "name" /\ call[t].buf = b
  /\ \A i, j \in Ids : idr[i] = b /\ idr[j] = b => i = j
  /\ b \in Live /\ refs[b] = 0 =>
       \E t \in Threads : call[t].pc \in Owning /\ call[t].buf = b
  /\ b \in lru => b \in Live

OneCallPerBuffer ==
  \A t, u \in Threads : t # u /\ Named(t) # NoBuf => Named(t) # Named(u)

NobodyHolds ==
  ~loaded \/ (\E t \in Threads : call[t].op = "exit") => \A b \in Bufs : refs[b] = 0

BufInv ==
  /\ \A t \in Threads : Holds(t)
  /\ \A b \in Bufs : Reachable(b)
  /\ OneCallPerBuffer
  /\ NobodyHolds

LEMMA IdsFromOne == 0 \notin Ids /\ \A i \in Ids : i \in Nat /\ i > 0
BY LinuxDriverAssumption, FS_CardinalityType DEF Ids

LEMMA NamedIsLive ==
  ASSUME Shape, NEW t \in Threads, Holds(t)
  PROVE  /\ Named(t) # NoBuf => Named(t) \in Live
         /\ call[t].pc \in Owning \cup {"report"} => Named(t) = call[t].buf
         /\ call[t].pc \in {"lookup"} \cup Using => Named(t) = idr[call[t].id]
         /\ Named(t) # NoBuf => call[t].pc \in Owning \cup Using \cup {"report", "lookup"}
<1>1. WellFormed(call[t]) /\ call[t] \in Call
  BY DEF Shape, Typed
<1>2. CASE call[t].pc \in Owning \cup {"report"}
  BY <1>1, <1>2, IdsFromOne DEF WellFormed, Holds, Named, Owning
<1>3. CASE call[t].pc \in {"lookup"} \cup Using
  BY <1>1, <1>3, IdsFromOne DEF WellFormed, Holds, Named, Owning
<1>4. CASE call[t].pc \notin Owning \cup Using \cup {"report", "lookup"}
  <2>1. call[t].pc \in {"idle", "take"} \cup Polling
    BY <1>1, <1>4 DEF Holds, Call, Owning
  <2>2. call[t].buf = NoBuf /\ call[t].id = 0
    BY <1>1, <2>1 DEF WellFormed, NoCall
  <2> QED
    BY <1>4, <2>2 DEF Named, Owning
<1> QED
  BY <1>2, <1>3, <1>4

(* A step of thread t that touches one buffer, which no other call names,   *)
(* and leaves it as it must be                                              *)
LEMMA OwnStep ==
  ASSUME Shape, Shape', BufInv, NEW t \in Threads, NEW b \in Bufs,
         \A u \in Threads : u # t => call'[u] = call[u] /\ Named(u) # b,
         Named(t) \in {b, NoBuf}, call[t].buf \in {b, NoBuf}, call'[t].buf \in {b, NoBuf},
         call'[t].id # 0 => idr'[call'[t].id] = b,
         \A d \in Bufs : d # b => heap'[d] = heap[d] /\ refs'[d] = refs[d] /\ (d \in lru' <=> d \in lru),
         \A i \in Ids : idr'[i] = idr[i] \/ (idr[i] \in {b, NoBuf} /\ idr'[i] \in {b, NoBuf}),
         loaded', \A u \in Threads : call'[u].op # "exit",
         Holds(t)', Reachable(b)'
  PROVE  BufInv'
<1>0. b # NoBuf /\ \A u \in Threads : WellFormed(call[u]) /\ Holds(u)
  BY LinuxDriverAssumption DEF Shape, BufInv
<1>1. ASSUME NEW d \in Bufs, d # b
      PROVE  d \in Live' <=> d \in Live
  BY <1>1 DEF Live
<1>2. ASSUME NEW u \in Threads, u # t, Named(u) # NoBuf
      PROVE  /\ Named(u)' = Named(u) /\ Named(u) \in Live \ {b}
             /\ call[u].id # 0 => call[u].id \in Ids /\ idr'[call[u].id] = idr[call[u].id]
  <2>1. Named(u) \in Live
    BY <1>0, <1>2, NamedIsLive
  <2>2. call'[u] = call[u] /\ Named(u) # b
    BY <1>2
  <2>3. call[u].id # 0 => call[u].id \in Ids
    BY <1>0 DEF WellFormed
  <2> QED
    BY <1>2, <2>1, <2>2, <2>3 DEF Named
<1>3. ASSUME NEW u \in Threads, u # t, Named(u) = NoBuf
      PROVE  Named(u)' = NoBuf /\ call[u].pc \notin Owning \cup Using \cup {"report", "lookup"}
  <2>1. call'[u] = call[u]
    BY <1>3
  <2>2. call[u].pc \notin Owning \cup Using \cup {"report", "lookup"}
    <3>1. NoBuf \notin Live
      BY LinuxDriverAssumption DEF Live
    <3>2. call[u].pc \in Owning \cup {"report"} => call[u].buf \in Live
      BY <1>0 DEF Holds
    <3>3. call[u].pc \in {"lookup"} \cup Using => idr[call[u].id] \in Live
      BY <1>0 DEF Holds
    <3> QED
      BY <1>0, <1>3, <3>1, <3>2, <3>3, NamedIsLive
  <2>3. call[u].id = 0
    BY <1>0, <2>2 DEF WellFormed
  <2> QED
    BY <1>3, <2>1, <2>2, <2>3 DEF Named
<1>4. ASSUME NEW u \in Threads, u # t PROVE Holds(u)'
  <2>1. call'[u] = call[u] /\ Holds(u) /\ WellFormed(call[u])
    BY <1>0, <1>4
  <2>2. CASE Named(u) = NoBuf
    BY <1>3, <1>4, <2>1, <2>2 DEF Holds, Owning
  <2>3. CASE Named(u) # NoBuf
    <3> DEFINE d == Named(u)
    <3>1. d \in Live /\ d \in Live' /\ d # b /\ d \in Bufs
      BY <1>1, <1>2, <1>4, <2>3 DEF Live
    <3>2. heap'[d] = heap[d] /\ refs'[d] = refs[d] /\ (d \in lru' <=> d \in lru)
      BY <3>1
    <3>3. call[u].pc \in Owning \cup {"report"} => call[u].buf = d
      BY <2>1 DEF WellFormed, Named, Owning
    <3>4. call[u].pc \in {"lookup"} \cup Using =>
            idr[call[u].id] = d /\ idr'[call[u].id] = d /\ call[u].id \in Ids
      BY <1>2, <1>4, <2>1, <2>3, NamedIsLive, IdsFromOne DEF WellFormed
    <3>5. call[u].pc \in {"account", "export", "register", "unname", "free"} => \A i \in Ids : idr'[i] # d
      BY <2>1, <3>1, <3>3, LinuxDriverAssumption DEF Holds, Owning
    <3> HIDE DEF d
    <3> QED
      BY <2>1, <3>1, <3>2, <3>3, <3>4, <3>5 DEF Holds, Owning
  <2> QED
    BY <2>2, <2>3
<1>5. ASSUME NEW d \in Bufs, d # b PROVE Reachable(d)'
  <2>1. /\ heap'[d] = heap[d] /\ refs'[d] = refs[d] /\ (d \in lru' <=> d \in lru)
        /\ d \in Live' <=> d \in Live
    BY <1>1, <1>5
  <2>2. \A i \in Ids : idr'[i] = d <=> idr[i] = d
    BY <1>5, LinuxDriverAssumption
  <2>3. ASSUME NEW u \in Threads, call[u].buf = d PROVE call'[u] = call[u]
    BY <1>5, <2>3, LinuxDriverAssumption
  <2>4. Reachable(d)
    BY DEF BufInv
  <2> QED
    BY <2>1, <2>2, <2>3, <2>4 DEF Reachable, Undone
<1>6. OneCallPerBuffer'
  <2>1. Named(t)' \in {b, NoBuf}
    BY DEF Named
  <2>2. \A u \in Threads : u # t => Named(u)' = Named(u) /\ Named(u) # b
    BY <1>2, <1>3
  <2> QED
    BY <1>0, <2>1, <2>2 DEF OneCallPerBuffer, BufInv
<1>7. NobodyHolds'
  BY DEF NobodyHolds
<1> QED
  BY <1>4, <1>5, <1>6, <1>7 DEF BufInv

(* A step of thread t that touches no buffer *)
LEMMA CallOnly ==
  ASSUME Shape, BufInv, NEW t \in Threads,
         UNCHANGED <<heap, idr, refs, lru>>, call[t].pc \notin Owning,
         \A u \in Threads : u # t =>
           call'[u] = call[u] /\ (Named(t)' = NoBuf \/ Named(t)' # Named(u)),
         Holds(t)', NobodyHolds'
  PROVE  BufInv'
<1>1. ASSUME NEW u \in Threads, u # t PROVE Holds(u)' /\ Named(u)' = Named(u)
  BY <1>1 DEF BufInv, Holds, Owning, Live, Named
<1>2. ASSUME NEW b \in Bufs PROVE Reachable(b)'
  <2>1. \A u \in Threads : call[u].pc \in Owning => call'[u] = call[u]
    OBVIOUS
  <2>2. \A u \in Threads : call[u].pc \in Undone \cup {"name"} => call'[u] = call[u]
    BY <2>1 DEF Undone, Owning
  <2>3. Reachable(b)
    BY DEF BufInv
  <2> QED
    BY <2>1, <2>2, <2>3 DEF Reachable, Live, Undone
<1>3. OneCallPerBuffer'
  BY <1>1 DEF BufInv, OneCallPerBuffer
<1> QED
  BY <1>1, <1>2, <1>3 DEF BufInv

LEMMA InCall ==
  ASSUME Shape, NEW t \in Threads, call[t].pc # "idle", call[t].op # "exit"
  PROVE  loaded /\ \A u \in Threads : call[u].op # "exit"
BY DEF Shape, Alone, Quiet, At

LEMMA Mine ==
  ASSUME Shape, BufInv, NEW t \in Threads,
         call[t].pc \in Owning \cup Using \cup {"report"}
  PROVE  /\ call[t].buf \in Live /\ call[t].buf \in Bufs /\ call[t].buf # NoBuf
         /\ Named(t) = call[t].buf
         /\ \A u \in Threads : u # t => Named(u) # call[t].buf
         /\ loaded /\ \A u \in Threads : call[u].op # "exit"
<1>1. Holds(t) /\ WellFormed(call[t])
  BY DEF BufInv, Shape
<1>2. call[t].buf \in Live /\ Named(t) = call[t].buf
  BY <1>1, NamedIsLive DEF Holds, Owning
<1>3. call[t].buf \in Bufs /\ call[t].buf # NoBuf
  BY <1>2, LinuxDriverAssumption DEF Live
<1>4. call[t].op # "exit" /\ call[t].pc # "idle"
  BY <1>1 DEF WellFormed, Owning
<1> QED
  BY <1>2, <1>3, <1>4, InCall DEF BufInv, OneCallPerBuffer

(* Steps that only read: the calls that start, fail, look up, or are done   *)
LEMMA BufReads ==
  ASSUME Orderly, Shape, Shape', BufInv, NEW t \in Threads,
         \/ AskMemory(t) \/ AskBuffer(t) \/ AskPoll(t) \/ Exit(t)
         \/ Lookup(t) \/ Move(t) \/ Report(t)
         \/ GetEvent(t) \/ PutEvent(t) \/ SetEvent(t) \/ StopWatchdog(t)
         \/ (Take(t) /\ Done(t) /\ UNCHANGED heap)
  PROVE  BufInv'
<1>0. /\ call \in [Threads -> Call] /\ call[t] \in Call /\ WellFormed(call[t]) /\ WellFormed(call'[t])
      /\ Holds(t) /\ NobodyHolds /\ Alone /\ NoBuf \notin Bufs
  BY LinuxDriverAssumption DEF Shape, Typed, BufInv
<1> USE DEF At, Goto, Done, Ask, bufVars
<1>1. CASE AskMemory(t)
  <2>1. PICK op \in {"alloc", "pin"}, n \in Sizes :
          call' = [call EXCEPT ![t] = [op |-> op, pc |-> "take", buf |-> NoBuf, id |-> 0,
                                       size |-> n, event |-> NoEvent]]
    BY <1>1 DEF AskMemory
  <2>2. UNCHANGED <<heap, idr, refs, lru, loaded>> /\ call[t].pc = "idle" /\ loaded
    BY <1>1 DEF AskMemory, Idle
  <2>3. call'[t].pc = "take" /\ call'[t].op = op /\ Named(t)' = NoBuf
    BY <1>0, <2>1 DEF Named
  <2>4. Holds(t)' /\ NobodyHolds'
    BY <1>0, <2>1, <2>2, <2>3 DEF Holds, NobodyHolds, Owning
  <2> QED
    BY <1>0, <2>1, <2>2, <2>3, <2>4, CallOnly DEF Owning
<1>2. CASE AskBuffer(t)
  <2>1. PICK op \in {"madvise", "evict"}, id \in Ids :
          /\ idr[id] # NoBuf /\ refs[idr[id]] > 0 /\ Unused(idr[id])
          /\ call' = [call EXCEPT ![t] = [op |-> op, pc |-> "lookup", buf |-> NoBuf, id |-> id,
                                          size |-> 0, event |-> NoEvent]]
    BY <1>2 DEF AskBuffer, Orderly
  <2>2. UNCHANGED <<heap, idr, refs, lru, loaded>> /\ call[t].pc = "idle" /\ loaded
    BY <1>2 DEF AskBuffer, Idle
  <2>3. /\ call'[t].pc = "lookup" /\ call'[t].op = op /\ call'[t].id = id
        /\ Named(t)' = idr[id] /\ idr[id] \in Bufs
    BY <1>0, <2>1, <2>2, IdsFromOne DEF Named, Shape, Typed
  <2>4. idr[id] \in Live
    BY <2>1, <2>3 DEF BufInv, Reachable
  <2>5. Holds(t)' /\ NobodyHolds'
    BY <1>0, <2>1, <2>2, <2>3, <2>4 DEF Holds, NobodyHolds, Owning, Live
  <2>6. \A u \in Threads : Named(u) # idr[id]
    BY <2>1 DEF Unused, Named
  <2> QED
    BY <1>0, <2>1, <2>2, <2>3, <2>5, <2>6, CallOnly DEF Owning
<1>3. CASE AskPoll(t) \/ Exit(t)
  <2>1. PICK op \in {"poll", "exit"}, label \in {"get", "put"}, e \in exists \cup {NoEvent} :
          /\ call' = [call EXCEPT ![t] = [op |-> op, pc |-> label, buf |-> NoBuf, id |-> 0,
                                          size |-> 0, event |-> e]]
          /\ op = "exit" => \A b \in Bufs : refs[b] = 0
    BY <1>3 DEF AskPoll, Exit
  <2>2. UNCHANGED <<heap, idr, refs, lru, loaded>> /\ call[t].pc = "idle" /\ loaded
    BY <1>3 DEF AskPoll, Exit, Idle
  <2>3. call'[t].pc = label /\ call'[t].op = op /\ Named(t)' = NoBuf
    BY <1>0, <2>1 DEF Named
  <2>4. Holds(t)' /\ NobodyHolds'
    BY <1>0, <2>1, <2>2, <2>3 DEF Holds, NobodyHolds, Owning
  <2> QED
    BY <1>0, <2>1, <2>2, <2>3, <2>4, CallOnly DEF Owning
<1>4. CASE Lookup(t)
  <2>1. /\ UNCHANGED <<heap, idr, refs, lru, loaded>> /\ call[t].pc = "lookup"
        /\ idr[call[t].id] \in Live /\ refs[idr[call[t].id]] > 0
        /\ call[t].id \in Ids /\ Named(t) = idr[call[t].id] /\ Named(t) # NoBuf
    BY <1>0, <1>4, NamedIsLive DEF Lookup, Holds, WellFormed, Live
  <2>2. PICK label \in {"move", "advise"} :
          call' = [call EXCEPT ![t].buf = idr[call[t].id], ![t].pc = label]
    BY <1>4, <2>1 DEF Lookup, Live
  <2>3. /\ call'[t].pc = label /\ call'[t].buf = idr[call[t].id] /\ call'[t].id = call[t].id
        /\ call'[t].op = call[t].op
    BY <1>0, <2>2 DEF Call
  <2>4. Named(t)' = Named(t)
    BY <2>1, <2>3 DEF Named
  <2>5. Holds(t)' /\ NobodyHolds'
    BY <1>0, <2>1, <2>2, <2>3 DEF Holds, NobodyHolds, Owning, Live
  <2> QED
    BY <1>0, <2>1, <2>2, <2>4, <2>5, CallOnly DEF Owning, BufInv, OneCallPerBuffer
<1>5. CASE Move(t) /\ ~Done(t)
  <2>1. /\ UNCHANGED <<heap, idr, refs, lru, loaded>> /\ call[t].pc = "move" /\ heap[call[t].buf].tier = 2
        /\ call' = [call EXCEPT ![t].pc = "relabel"]
    BY <1>5 DEF Move, Reaches, Buf
  <2>2. call'[t] = [call[t] EXCEPT !.pc = "relabel"]
    BY <1>0, <2>1
  <2>3. /\ call'[t].pc = "relabel" /\ call'[t].buf = call[t].buf /\ call'[t].id = call[t].id
        /\ call'[t].op = call[t].op
    BY <1>0, <2>2 DEF Call
  <2>4. Named(t)' = Named(t) /\ Named(t) # NoBuf
    BY <2>1, <2>3, Mine DEF Named
  <2>5. Holds(t)' /\ NobodyHolds'
    BY <1>0, <2>1, <2>3 DEF Holds, NobodyHolds, Owning, Live
  <2> QED
    BY <1>0, <2>1, <2>4, <2>5, CallOnly DEF Owning, BufInv, OneCallPerBuffer
<1>6. CASE /\ Done(t)
           /\ Move(t) \/ Report(t) \/ GetEvent(t) \/ SetEvent(t) \/ StopWatchdog(t) \/ (Take(t) /\ UNCHANGED heap)
  <2>1. UNCHANGED <<heap, idr, refs, lru>> /\ call[t].pc \in {"move", "report", "get", "set", "stop", "take"}
    BY <1>6 DEF Move, Report, GetEvent, SetEvent, StopWatchdog, Take, Reaches
  <2>2. call'[t] = NoCall /\ Named(t)' = NoBuf
    BY <1>0, <1>6 DEF Named, NoCall
  <2>3. Holds(t)'
    BY <2>2 DEF Holds, NoCall, Owning
  <2>4. NobodyHolds'
    <3>1. \/ UNCHANGED loaded
          \/ StopWatchdog(t) /\ call[t].op = "exit"
      BY <1>0, <1>6 DEF Move, Report, GetEvent, SetEvent, StopWatchdog, Take, WellFormed
    <3>2. \A u \in Threads : call'[u].op = "exit" => call[u].op = "exit"
      BY <1>0, <1>6, <2>2 DEF NoCall
    <3> QED
      BY <1>0, <2>1, <3>1, <3>2 DEF NobodyHolds
  <2> QED
    BY <1>0, <1>6, <2>1, <2>2, <2>3, <2>4, CallOnly DEF Owning
<1>7. CASE PutEvent(t) \/ ((GetEvent(t) \/ SetEvent(t)) /\ ~Done(t))
  <2>1. PICK label \in {"put", "set", "stop"} : call' = [call EXCEPT ![t].pc = label]
    BY <1>7 DEF GetEvent, PutEvent, SetEvent
  <2>2. UNCHANGED <<heap, idr, refs, lru, loaded>> /\ call[t].pc \in {"get", "put", "set"}
    BY <1>7 DEF GetEvent, PutEvent, SetEvent
  <2>3. /\ call'[t].pc = label /\ call'[t].buf = call[t].buf /\ call'[t].id = call[t].id
        /\ call'[t].op = call[t].op
    BY <1>0, <2>1 DEF Call
  <2>4. Named(t)' = NoBuf
    BY <1>0, <2>2, <2>3 DEF Named, WellFormed
  <2>5. Holds(t)' /\ NobodyHolds'
    BY <1>0, <2>1, <2>2, <2>3 DEF Holds, NobodyHolds, Owning
  <2> QED
    BY <1>0, <2>1, <2>2, <2>4, <2>5, CallOnly DEF Owning
<1>8. Report(t) \/ StopWatchdog(t) => Done(t)
  BY DEF Report, StopWatchdog
<1> HIDE DEF Done
<1> QED
  BY <1>1, <1>2, <1>3, <1>4, <1>5, <1>6, <1>7, <1>8

(* gb_alloc_buf and the error paths of the two allocating calls: the buffer *)
(* is the call's own until its descriptor is installed                      *)
LEMMA BufMakes ==
  ASSUME Orderly, Shape, Shape', BufInv, NEW t \in Threads,
         \/ (Take(t) /\ ~(Done(t) /\ UNCHANGED heap))
         \/ Account(t) \/ Export(t) \/ Register(t) \/ Name(t) \/ Install(t) \/ Unname(t)
  PROVE  BufInv'
<1>0. /\ call \in [Threads -> Call] /\ call[t] \in Call /\ WellFormed(call[t])
      /\ Holds(t) /\ NoBuf \notin Bufs
      /\ heap \in [Bufs -> Buffer \cup {NoBuf}] /\ idr \in [Ids -> Bufs \cup {NoBuf}]
      /\ refs \in [Bufs -> Nat]
  BY LinuxDriverAssumption DEF Shape, Typed, BufInv
<1>a. \A h \in Buffer : h # NoBuf
  BY LinuxDriverAssumption
<1>b. \A b \in Live : heap[b] \in Buffer
  BY <1>0 DEF Live
<1>c. ASSUME NEW l, Goto(t, l) PROVE call'[t].pc = l
  BY <1>0, <1>c DEF Goto, Call
<1> USE DEF At, Reaches, Buf
<1>1. CASE Take(t) /\ ~(Done(t) /\ UNCHANGED heap)
  <2>1. PICK b \in Bufs \ Live, tier \in {2, 3}, kind \in {"huge", "small", "user"} :
          /\ heap' = [heap EXCEPT ![b] = [tier |-> tier, kind |-> kind, id |-> 0,
                                          size |-> Pages(call[t].size, kind)]]
          /\ call' = [call EXCEPT ![t].buf = b, ![t].pc = "account"]
    BY <1>1 DEF Take
  <2>2. UNCHANGED <<idr, refs, lru, loaded>> /\ call[t].pc = "take" /\ call[t].op # "exit"
    BY <1>0, <1>1 DEF Take, WellFormed
  <2>3. /\ call'[t].pc = "account" /\ call'[t].buf = b /\ call'[t].id = 0 /\ call[t].id = 0
        /\ call'[t].op = call[t].op /\ call[t].buf = NoBuf
    BY <1>0, <2>1, <2>2 DEF Call, WellFormed
  <2>4. heap'[b].id = 0 /\ b \in Live'
    <3>1. [tier |-> tier, kind |-> kind, id |-> 0, size |-> Pages(call[t].size, kind)] \in Buffer
      BY <1>0, PagesAreNat DEF Buffer, Call
    <3>2. heap'[b] = [tier |-> tier, kind |-> kind, id |-> 0, size |-> Pages(call[t].size, kind)]
      BY <1>0, <2>1
    <3> QED
      BY <1>a, <3>1, <3>2 DEF Live
  <2>5. refs[b] = 0 /\ b \notin lru /\ \A i \in Ids : idr[i] # b
    BY <1>0, <2>1 DEF BufInv, Reachable
  <2>6. \A u \in Threads : Named(u) # b
    BY <1>0, <2>1, NamedIsLive DEF BufInv
  <2>7. Holds(t)' /\ Named(t) = NoBuf
    BY <2>2, <2>3, <2>4, <2>5 DEF Holds, Named, Owning
  <2>8. Reachable(b)'
    BY <2>2, <2>3, <2>4, <2>5, IdsFromOne DEF Reachable, Owning
  <2>9. \A d \in Bufs : d # b => heap'[d] = heap[d]
    BY <1>0, <2>1
  <2>10. loaded /\ \A u \in Threads : call'[u].op # "exit"
    BY <1>0, <2>1, <2>2, <2>3, InCall
  <2>11. \A u \in Threads : u # t => call'[u] = call[u]
    BY <1>0, <2>1
  <2> QED
    BY <2>2, <2>3, <2>6, <2>7, <2>8, <2>9, <2>10, <2>11, OwnStep
<1>2. CASE Account(t) \/ Export(t) \/ Register(t) \/ Name(t) \/ Install(t) \/ Unname(t)
  <2>1. call[t].pc \in Creating /\ call[t].pc \in Owning
    BY <1>2 DEF Account, Export, Register, Name, Install, Unname, Owning
  <2>0. PICK b : b = call[t].buf
    OBVIOUS
  <2>2. /\ b \in Live /\ b \in Bufs /\ b # NoBuf /\ heap[b] \in Buffer /\ Named(t) = b
        /\ \A u \in Threads : u # t => Named(u) # b
        /\ loaded /\ \A u \in Threads : call[u].op # "exit"
    BY <1>b, <2>0, <2>1, Mine
  <2>3. PICK label \in {"export", "register", "name", "install", "unname", "report", "unlink"} :
          call' = [call EXCEPT ![t].pc = label]
    BY <1>2 DEF Account, Export, Register, Name, Install, Unname, Orderly, Goto
  <2>4. /\ call'[t].pc = label /\ call'[t].buf = b /\ call'[t].id = 0 /\ call[t].id = 0
        /\ call'[t].op = call[t].op
    BY <1>0, <2>0, <2>1, <2>3 DEF Call, WellFormed
  <2>5. \A u \in Threads : (u # t => call'[u] = call[u]) /\ call'[u].op # "exit"
    BY <1>0, <2>2, <2>3, <2>4
  <2>6. /\ loaded' = loaded
        /\ refs[b] = 0 /\ (call[t].pc \notin {"install", "unname"} => heap[b].id = 0)
        /\ call[t].pc \notin {"name", "install"} => \A i \in Ids : idr[i] # b
    BY <1>0, <1>2, <2>0, <2>1 DEF Account, Export, Register, Name, Install, Unname, Holds
  <2>a. label \in Owning => \E u \in Threads : call'[u].pc \in Owning /\ call'[u].buf = b
    BY <2>4
  <2>b. /\ Reachable(b)
        /\ \A u \in Threads : u # t => ~(call[u].pc \in Undone \cup {"name"} /\ call[u].buf = b)
    <3>1. ASSUME NEW u \in Threads, u # t, call[u].pc \in Undone \cup {"name"} PROVE call[u].buf # b
      BY <1>0, <2>1, <2>2, <3>1, NamedIsLive DEF BufInv, Owning, Undone
    <3> QED
      BY <2>2, <3>1 DEF BufInv
  <2> SUFFICES
        /\ \A d \in Bufs : d # b => heap'[d] = heap[d] /\ refs'[d] = refs[d] /\ (d \in lru' <=> d \in lru)
        /\ \A i \in Ids : idr'[i] = idr[i] \/ (idr[i] \in {b, NoBuf} /\ idr'[i] \in {b, NoBuf})
        /\ Holds(t)' /\ Reachable(b)'
    BY <2>0, <2>2, <2>4, <2>5, <2>6, OwnStep
  <2>7. CASE Account(t) \/ Export(t)
    <3>1. /\ UNCHANGED <<heap, idr, refs>> /\ lru' \in {lru, lru \cup {b}}
          /\ label \in {"export", "register"} /\ call[t].pc \in {"account", "export"}
      <4>1. CASE Account(t)
        BY <2>0, <1>c, <2>4, <4>1 DEF Account
      <4>2. CASE Export(t)
        BY <1>c, <2>4, <4>2 DEF Export, Orderly
      <4> QED
        BY <2>7, <4>1, <4>2
    <3>2. Holds(t)'
      BY <2>2, <2>4, <2>6, <3>1 DEF Holds, Owning, Live
    <3>3. heap[b].id = 0 /\ label \in Owning
      BY <2>6, <3>1 DEF Owning
    <3>4. Reachable(b)'
      BY <2>2, <2>6, <2>a, <2>b, <3>1, <3>3, IdsFromOne DEF Reachable, Live
    <3> QED
      BY <3>1, <3>2, <3>4
  <2>8. CASE Register(t)
    <3>0. UNCHANGED <<heap, lru, refs>> /\ call[t].pc = "register" /\ heap[b].id = 0 /\ \A i \in Ids : idr[i] # b
      BY <2>6, <2>8 DEF Register
    <3>1. CASE label = "name"
      <4>1. PICK id \in Ids : idr[id] = NoBuf /\ idr' = [idr EXCEPT ![id] = b]
        BY <2>0, <1>c, <2>4, <2>8, <3>1 DEF Register
      <4>2. idr'[id] = b /\ \A i \in Ids : i # id => idr'[i] = idr[i]
        BY <1>0, <4>1
      <4>3. Holds(t)'
        BY <2>2, <2>4, <2>6, <3>0, <3>1 DEF Holds, Owning, Live
      <4>4. Reachable(b)'
        BY <2>2, <2>4, <2>6, <2>a, <2>b, <3>0, <3>1, <4>2, IdsFromOne DEF Reachable, Owning, Live
      <4> QED
        BY <1>0, <2>2, <3>0, <4>1, <4>2, <4>3, <4>4
    <3>2. CASE label # "name"
      <4>1. UNCHANGED idr /\ label = "unlink"
        BY <1>c, <2>4, <2>8, <3>2 DEF Register
      <4>2. Holds(t)'
        BY <2>2, <2>4, <2>6, <3>0, <4>1 DEF Holds, Owning, Live
      <4>3. Reachable(b)'
        BY <2>6, <2>a, <2>b, <3>0, <4>1, IdsFromOne DEF Reachable, Owning, Live
      <4> QED
        BY <3>0, <4>1, <4>2, <4>3
    <3> QED
      BY <3>1, <3>2
  <2>9. CASE Install(t)
    <3>0. UNCHANGED <<heap, lru>> /\ call[t].pc = "install" /\ heap[b].id \in Ids /\ heap[b].id # 0
      BY <1>0, <2>0, <2>9, IdsFromOne DEF Install, Holds
    <3>a. idr[heap[b].id] = b /\ \A i \in Ids : idr[i] = b => i = heap[b].id
      BY <2>2, <2>b, <3>0 DEF Reachable, Undone
    <3>1. CASE label = "report"
      <4>1. refs' = [refs EXCEPT ![b] = 1] /\ UNCHANGED idr
        BY <2>0, <1>c, <2>4, <2>9, <3>1 DEF Install
      <4>2. refs'[b] = 1 /\ \A d \in Bufs : d # b => refs'[d] = refs[d]
        BY <1>0, <2>2, <4>1
      <4>3. Holds(t)'
        BY <2>2, <2>4, <3>0, <3>1, <4>1, <4>2 DEF Holds, Owning, Live
      <4>4. Reachable(b)'
        BY <2>2, <2>b, <3>0, <3>a, <4>1, <4>2 DEF Reachable, Live
      <4> QED
        BY <3>0, <4>1, <4>2, <4>3, <4>4
    <3>2. CASE label # "report"
      <4>1. idr' = [idr EXCEPT ![heap[b].id] = NoBuf] /\ UNCHANGED refs /\ label = "unname"
        BY <2>0, <1>c, <2>4, <2>9, <3>2 DEF Install, Reaches, Buf
      <4>2. \A i \in Ids : idr'[i] # b /\ (i # heap[b].id => idr'[i] = idr[i])
        BY <1>0, <2>2, <3>0, <3>a, <4>1
      <4>3. Holds(t)'
        BY <2>2, <2>4, <2>6, <3>0, <3>2, <4>1, <4>2 DEF Holds, Owning, Live
      <4>4. Reachable(b)'
        BY <2>2, <2>4, <2>6, <2>a, <2>b, <3>0, <4>1, <4>2 DEF Reachable, Owning, Undone, Live
      <4> QED
        BY <1>0, <2>2, <3>0, <3>a, <4>1, <4>2, <4>3, <4>4
    <3> QED
      BY <3>1, <3>2
  <2>10. CASE Name(t) \/ Unname(t)
    <3>0. /\ UNCHANGED <<idr, lru, refs>> /\ call[t].pc \in {"name", "unname"}
          /\ label = IF call[t].pc = "name" THEN "install" ELSE "unlink"
      BY <1>c, <2>4, <2>10 DEF Name, Unname
    <3>1. PICK id \in Ids \cup {0} :
            /\ heap' = [heap EXCEPT ![b].id = id]
            /\ call[t].pc = "name" => id \in Ids /\ idr[id] = b
            /\ call[t].pc = "unname" => id = 0
      BY <2>0, <2>10 DEF Name, Unname
    <3>2. heap'[b] = [heap[b] EXCEPT !.id = id] /\ [heap[b] EXCEPT !.id = id] \in Buffer
      BY <1>0, <2>2, <3>1, Updates
    <3>3. heap'[b].id = id /\ b \in Live' /\ \A d \in Bufs : d # b => heap'[d] = heap[d]
      BY <1>0, <1>a, <2>2, <3>1, <3>2 DEF Live, Buffer
    <3>4. Holds(t)'
      BY <2>4, <2>6, <3>0, <3>1, <3>3 DEF Holds, Owning
    <3>5. Reachable(b)'
      BY <2>4, <2>6, <2>a, <2>b, <3>0, <3>1, <3>3, IdsFromOne DEF Reachable, Owning
    <3> QED
      BY <3>0, <3>3, <3>4, <3>5
  <2> QED
    BY <1>2, <2>7, <2>8, <2>9, <2>10
<1> QED
  BY <1>1, <1>2

(* gb_release: nobody holds the buffer any more *)
LEMMA BufFrees ==
  ASSUME Orderly, Shape, Shape', BufInv, NEW t \in Threads,
         Unlink(t) \/ Unregister(t) \/ Free(t)
  PROVE  BufInv'
<1>0. /\ call \in [Threads -> Call] /\ call[t] \in Call /\ WellFormed(call[t])
      /\ Holds(t) /\ NoBuf \notin Bufs
      /\ heap \in [Bufs -> Buffer \cup {NoBuf}] /\ idr \in [Ids -> Bufs \cup {NoBuf}]
  BY LinuxDriverAssumption DEF Shape, Typed, BufInv
<1>1. call[t].pc \in Closing /\ call[t].pc \in Owning
  BY DEF Unlink, Unregister, Free, Reaches, At, Owning
<1>2. PICK b : b = call[t].buf
  OBVIOUS
<1>3. /\ b \in Live /\ b \in Bufs /\ b # NoBuf /\ heap[b] \in Buffer /\ Named(t) = b
      /\ \A u \in Threads : u # t => Named(u) # b
      /\ loaded /\ \A u \in Threads : call[u].op # "exit"
  BY <1>0, <1>1, <1>2, Mine DEF Live
<1>4. Reachable(b) /\ refs[b] = 0
  BY <1>0, <1>1, <1>2, <1>3 DEF BufInv, Holds
<1>5. \A u \in Threads : u # t => ~(call[u].pc \in Undone \cup {"name"} /\ call[u].buf = b)
  <2>1. ASSUME NEW u \in Threads, u # t, call[u].pc \in Undone \cup {"name"} PROVE call[u].buf # b
    BY <1>3, <2>1, NamedIsLive DEF BufInv, Owning, Undone
  <2> QED
    BY <2>1
<1>6. CASE Unlink(t) \/ Unregister(t)
  <2>1. PICK label \in {"unregister", "free"} : call' = [call EXCEPT ![t].pc = label]
    BY <1>6 DEF Unlink, Unregister, Goto
  <2>2. /\ call'[t].pc = label /\ call'[t].buf = b /\ call'[t].id = 0
        /\ call'[t].op = call[t].op
    BY <1>0, <1>1, <1>2, <2>1 DEF Call, WellFormed
  <2>3. \A u \in Threads : (u # t => call'[u] = call[u]) /\ call'[u].op # "exit"
    BY <1>0, <1>3, <2>1, <2>2
  <2>4. \E u \in Threads : call'[u].pc \in Owning /\ call'[u].buf = b
    BY <2>2 DEF Owning
  <2>5. UNCHANGED <<heap, refs, loaded>>
    BY <1>6 DEF Unlink, Unregister
  <2> SUFFICES
        /\ \A d \in Bufs : d # b => (d \in lru' <=> d \in lru)
        /\ \A i \in Ids : idr'[i] = idr[i] \/ (idr[i] \in {b, NoBuf} /\ idr'[i] \in {b, NoBuf})
        /\ Holds(t)' /\ Reachable(b)'
    BY <1>2, <1>3, <2>2, <2>3, <2>5, OwnStep
  <2>6. CASE Unlink(t)
    <3>1. label = "unregister" /\ lru' = lru \ {b} /\ UNCHANGED idr /\ call[t].pc = "unlink"
      BY <1>0, <1>2, <2>2, <2>6 DEF Unlink, Unlinked, Goto, Call, Reaches, At
    <3>2. Holds(t)'
      BY <1>3, <1>4, <2>2, <2>5, <3>1 DEF Holds, Owning, Live
    <3>3. Reachable(b)'
      <4>1. \A u \in Threads : ~(call[u].pc \in Undone \cup {"name"} /\ call[u].buf = b)
        BY <1>5, <3>1 DEF Undone
      <4> QED
        BY <1>3, <1>4, <2>4, <2>5, <3>1, <4>1 DEF Reachable, Live
    <3> QED
      BY <3>1, <3>2, <3>3
  <2>7. CASE Unregister(t)
    <3>1. /\ label = "free" /\ UNCHANGED lru /\ b \notin lru /\ call[t].pc = "unregister"
          /\ idr' = IF heap[b].id > 0 THEN [idr EXCEPT ![heap[b].id] = NoBuf] ELSE idr
      BY <1>0, <1>2, <2>2, <2>7 DEF Unregister, Goto, Call, Reaches, At, Buf, Holds
    <3>2. heap[b].id \in Ids => idr[heap[b].id] = b
      BY <1>3, <1>4, <1>5, <3>1 DEF Reachable, Undone
    <3>3. \A i \in Ids : idr'[i] # b /\ (idr[i] # b => idr'[i] = idr[i])
      <4>1. heap[b].id \in Ids \cup {0}
        BY <1>3 DEF Buffer
      <4>2. heap[b].id \in Ids => heap[b].id > 0
        BY IdsFromOne
      <4> QED
        BY <1>0, <1>3, <1>4, <1>5, <3>1, <3>2, <4>1, <4>2 DEF Reachable
    <3>4. \A i \in Ids : idr'[i] = idr[i] \/ (idr[i] = b /\ idr'[i] = NoBuf)
      BY <1>0, <3>1, <3>2, <3>3
    <3>5. Holds(t)'
      BY <1>3, <1>4, <2>2, <2>5, <3>1, <3>3 DEF Holds, Owning, Live
    <3>6. Reachable(b)'
      <4>1. \E u \in Threads : call'[u].pc \in Undone /\ call'[u].buf = b
        BY <2>2, <3>1 DEF Undone
      <4> QED
        BY <1>3, <1>4, <2>4, <2>5, <3>1, <3>3, <4>1 DEF Reachable, Live
    <3> QED
      BY <3>1, <3>4, <3>5, <3>6
  <2> QED
    BY <1>6, <2>6, <2>7
<1>7. CASE Free(t)
  <2>1. /\ call' = [call EXCEPT ![t] = NoCall] /\ call[t].pc = "free"
        /\ heap' = [heap EXCEPT ![b] = NoBuf]
        /\ UNCHANGED <<idr, lru, refs, loaded>>
    BY <1>2, <1>7 DEF Free, Reaches, At, Done
  <2>2. call'[t] = NoCall /\ \A u \in Threads : u # t => call'[u] = call[u]
    BY <1>0, <2>1
  <2>3. Holds(t)'
    BY <2>2 DEF Holds, NoCall, Owning
  <2>4. b \notin lru /\ \A i \in Ids : idr[i] # b
    BY <1>0, <1>2, <2>1 DEF Holds
  <2>5. heap'[b] = NoBuf /\ \A d \in Bufs : d # b => heap'[d] = heap[d]
    BY <1>0, <1>3, <2>1
  <2>6. Reachable(b)'
    BY <1>4, <2>1, <2>4, <2>5 DEF Reachable, Live
  <2>7. \A u \in Threads : call'[u].op # "exit"
    BY <1>3, <2>2 DEF NoCall
  <2>8. call'[t].buf = NoBuf /\ call'[t].id = 0
    BY <2>2 DEF NoCall
  <2> QED
    BY <1>2, <1>3, <2>1, <2>2, <2>3, <2>5, <2>6, <2>7, <2>8, OwnStep
<1> QED
  BY <1>6, <1>7

(* MADVISE and EVICT, after the lookup *)
LEMMA BufUses ==
  ASSUME Orderly, Shape, Shape', BufInv, NEW t \in Threads,
         Advise(t) \/ Relabel(t) \/ Delist(t)
  PROVE  BufInv'
<1>0. /\ call \in [Threads -> Call] /\ call[t] \in Call /\ WellFormed(call[t])
      /\ Holds(t) /\ NoBuf \notin Bufs
      /\ heap \in [Bufs -> Buffer \cup {NoBuf}] /\ \A h \in Buffer : h # NoBuf
  BY LinuxDriverAssumption DEF Shape, Typed, BufInv
<1>1. call[t].pc \in Using
  BY DEF Advise, Relabel, Delist, Reaches, At
<1>2. PICK b : b = call[t].buf
  OBVIOUS
<1>3. /\ b \in Live /\ b \in Bufs /\ b # NoBuf /\ heap[b] \in Buffer /\ Named(t) = b
      /\ \A u \in Threads : u # t => Named(u) # b
      /\ loaded /\ \A u \in Threads : call[u].op # "exit"
      /\ idr[call[t].id] = b
  BY <1>0, <1>1, <1>2, Mine DEF Live, Holds
<1>4. Reachable(b) /\ refs[b] > 0
  BY <1>0, <1>1, <1>2, <1>3 DEF BufInv, Holds
<1>5. \A u \in Threads : call[u].pc \in Owning => call[u].buf # b
  <2>1. ASSUME NEW u \in Threads, call[u].pc \in Owning PROVE call[u].buf # b
    BY <1>4, <2>1 DEF BufInv, Holds, Shape, Typed
  <2> QED
    BY <2>1
<1>6. /\ UNCHANGED <<idr, refs, loaded>>
      /\ \A d \in Bufs : d # b => (d \in lru' <=> d \in lru)
      /\ \A d \in Bufs : d # b => heap'[d] = heap[d]
      /\ heap[b].id = heap'[b].id /\ b \in Live'
      /\ At(t, "relabel") => heap'[b].tier = 3
  <2>1. CASE Advise(t) \/ Delist(t)
    BY <1>2, <1>3, <2>1 DEF Advise, Delist, Reaches, At, Live
  <2>2. CASE Relabel(t)
    <3>1. heap' = [heap EXCEPT ![b].tier = 3] /\ UNCHANGED <<idr, refs, lru, loaded>>
      BY <1>2, <2>2 DEF Relabel
    <3>2. heap'[b] = [heap[b] EXCEPT !.tier = 3] /\ [heap[b] EXCEPT !.tier = 3] \in Buffer
      BY <1>0, <1>3, <3>1, Updates
    <3>3. heap'[b].id = heap[b].id /\ heap'[b].tier = 3 /\ b \in Live'
      BY <1>0, <1>3, <3>2 DEF Live, Buffer
    <3> QED
      BY <1>0, <1>3, <3>1, <3>3
  <2> QED
    BY <2>1, <2>2
<1>7. \A u \in Threads : u # t => call'[u] = call[u]
  BY <1>0 DEF Advise, Relabel, Delist, Done, Goto
<1>8. \/ call'[t] = NoCall
      \/ /\ call'[t].pc = "delist" /\ call'[t].op = call[t].op
         /\ call'[t].id = call[t].id /\ call'[t].buf = b
  BY <1>0, <1>2 DEF Advise, Relabel, Delist, Done, Goto, Call
<1>9. Holds(t)' /\ call'[t].buf \in {b, NoBuf} /\ call'[t].op # "exit"
      /\ (call'[t].id # 0 => idr'[call'[t].id] = b)
  <2>1. CASE call'[t] = NoCall
    BY <2>1 DEF NoCall, Holds, Owning
  <2>2. CASE call'[t] # NoCall
    BY <1>3, <1>4, <1>6, <1>8, <2>2 DEF Holds, Owning
  <2> QED
    BY <2>1, <2>2
<1>10. Reachable(b)'
  <2>1. heap[b].id \in Ids /\ heap[b].id # 0 /\ idr[heap[b].id] = b
    <3>1. \A u \in Threads : call[u].pc \in Undone => call[u].buf # b
      BY <1>5 DEF Undone, Owning
    <3> QED
      BY <1>3, <1>4, <3>1, IdsFromOne DEF Reachable
  <2> QED
    BY <1>3, <1>4, <1>6, <2>1 DEF Reachable
<1> QED
  BY <1>2, <1>3, <1>6, <1>7, <1>9, <1>10, OwnStep

(* The references that clients take and drop *)
LEMMA BufRefs ==
  ASSUME Orderly, Shape, Shape', BufInv,
         (\E t \in Threads, b \in Bufs : Drop(t, b)) \/ (\E b \in Bufs : Share(b))
  PROVE  BufInv'
<1>0. /\ call \in [Threads -> Call] /\ refs \in [Bufs -> Nat] /\ NoBuf \notin Bufs
      /\ \A u \in Threads : Holds(u) /\ WellFormed(call[u])
  BY LinuxDriverAssumption DEF Shape, Typed, BufInv
<1>a. ASSUME NEW b \in Bufs, refs[b] > 0, refs' = [refs EXCEPT ![b] = refs'[b]], refs'[b] > 0, refs'[b] \in Nat,
             UNCHANGED <<heap, idr, lru, call, loaded>>,
             ~(~loaded \/ \E t \in Threads : call[t].op = "exit")
      PROVE  BufInv'
  <2>1. \A d \in Bufs : (refs'[d] > 0 <=> refs[d] > 0) /\ (refs'[d] = 0 <=> refs[d] = 0)
    BY <1>0, <1>a
  <2>2. \A u \in Threads : Holds(u)'
    <3> SUFFICES ASSUME NEW u \in Threads PROVE Holds(u)'
      OBVIOUS
    <3>1. \A d \in Live : (refs'[d] > 0 <=> refs[d] > 0) /\ (refs'[d] = 0 <=> refs[d] = 0)
      BY <2>1 DEF Live
    <3> QED
      BY <1>0, <1>a, <3>1 DEF Holds, Live
  <2>3. \A d \in Bufs : Reachable(d)'
    BY <1>a, <2>1 DEF BufInv, Reachable, Live, At
  <2> QED
    BY <1>a, <2>2, <2>3 DEF BufInv, OneCallPerBuffer, Named, NobodyHolds
<1>1. ASSUME NEW b \in Bufs, Share(b) PROVE BufInv'
  <2>1. /\ refs' = [refs EXCEPT ![b] = refs[b] + 1] /\ refs[b] > 0
        /\ UNCHANGED <<heap, idr, lru, call, loaded>>
    BY <1>0, <1>1, LinuxDriverAssumption DEF Share
  <2>2. refs'[b] = refs[b] + 1 /\ refs'[b] > 0 /\ refs'[b] \in Nat
    BY <1>0, <2>1
  <2>3. ~(~loaded \/ \E t \in Threads : call[t].op = "exit")
    BY <1>0, <2>1 DEF BufInv, NobodyHolds
  <2> QED
    BY <1>a, <2>1, <2>2, <2>3
<1>2. ASSUME NEW t \in Threads, NEW b \in Bufs, Drop(t, b) PROVE BufInv'
  <2>1. /\ At(t, "idle") /\ loaded /\ \A u \in Threads : call[u].op # "exit"
        /\ refs[b] > 0 /\ Unused(b)
        /\ refs' = [refs EXCEPT ![b] = refs[b] - 1]
        /\ UNCHANGED <<heap, idr, lru, loaded>>
    BY <1>2 DEF Drop, Idle, Orderly
  <2>2. refs'[b] = refs[b] - 1 /\ \A d \in Bufs : d # b => refs'[d] = refs[d]
    BY <1>0, <2>1
  <2>3. CASE refs[b] # 1
    <3>1. refs'[b] > 0 /\ refs'[b] \in Nat /\ UNCHANGED call
      BY <1>0, <1>2, <2>1, <2>2, <2>3 DEF Drop
    <3> QED
      BY <1>a, <2>1, <2>2, <2>3, <3>1
  <2>4. CASE refs[b] = 1
    <3>1. call' = [call EXCEPT ![t] = [op |-> "close", pc |-> "unlink", buf |-> b, id |-> 0,
                                       size |-> 0, event |-> NoEvent]]
      BY <1>2, <2>4 DEF Drop, Ask
    <3>2. /\ call'[t].pc = "unlink" /\ call'[t].buf = b /\ call'[t].id = 0 /\ call'[t].op = "close"
          /\ \A u \in Threads : u # t => call'[u] = call[u]
      BY <1>0, <3>1
    <3>3. \A u \in Threads : Named(u) # b
      BY <1>0, <2>1 DEF Unused, Named
    <3>4. b \in Live /\ heap[b].id \in Ids /\ Reachable(b)
      BY <2>1 DEF BufInv, Reachable
    <3>5. idr[heap[b].id] = b
      <4>1. \A u \in Threads : call[u].buf # b
        BY <2>1 DEF Unused
      <4> QED
        BY <3>4, <4>1 DEF Reachable
    <3>6. Holds(t)'
      BY <2>1, <2>2, <2>4, <3>2, <3>4 DEF Holds, Owning, Live
    <3>7. \E u \in Threads : call'[u].pc \in Owning /\ call'[u].buf = b
      BY <3>2 DEF Owning
    <3>8. Reachable(b)'
      BY <2>1, <2>2, <2>4, <3>4, <3>5, <3>7, IdsFromOne DEF Reachable, Live
    <3>9. Named(t) = NoBuf /\ call[t].buf = NoBuf
      BY <1>0, <2>1 DEF Named, WellFormed, NoCall, At
    <3>10. \A u \in Threads : call'[u].op # "exit"
      BY <2>1, <3>2
    <3> QED
      BY <2>1, <2>2, <3>2, <3>3, <3>6, <3>8, <3>9, <3>10, OwnStep
  <2> QED
    BY <2>3, <2>4
<1> QED
  BY <1>1, <1>2

(* With nobody in the module no buffer is left *)
LEMMA NothingLeft ==
  ASSUME Shape, BufInv, ~loaded
  PROVE  Live = {}
<1>1. \A t \in Threads : call[t].pc = "idle"
  BY DEF Shape, Alone, Quiet, At
<1>2. \A b \in Bufs : refs[b] = 0
  BY DEF BufInv, NobodyHolds
<1> QED
  BY <1>1, <1>2 DEF BufInv, Reachable, Live, Owning

LEMMA BufModule ==
  ASSUME Orderly, Shape, BufInv,
         \/ Load \/ (\E e \in Events : CloseEvent(e))
         \/ Watch \/ TestEvent \/ SignalEvent \/ UNCHANGED vars
  PROVE  BufInv'
<1>1. CASE Load
  <2>1. Live = {} /\ \A t \in Threads : call[t] = NoCall
    BY <1>1, NothingLeft DEF Load, Shape, Alone, Quiet, At, WellFormed
  <2>2. Live' = {} /\ UNCHANGED <<refs, call>> /\ lru' = {} /\ \A i \in Ids : idr'[i] = NoBuf
    BY <1>1, <2>1 DEF Load, Live
  <2>3. \A b \in Bufs : refs[b] = 0
    BY <1>1 DEF Load, BufInv, NobodyHolds
  <2>4. \A t \in Threads : Holds(t)' /\ Named(t)' = NoBuf
    BY <2>1, <2>2 DEF Holds, NoCall, Owning, Named
  <2>5. \A b \in Bufs : Reachable(b)'
    BY <2>2, <2>3, LinuxDriverAssumption DEF Reachable
  <2> QED
    BY <2>2, <2>3, <2>4, <2>5 DEF BufInv, OneCallPerBuffer, NobodyHolds
<1>2. CASE UNCHANGED <<heap, idr, refs, lru, call, loaded>>
  <2>1. \A t \in Threads : Holds(t)' /\ Named(t)' = Named(t)
    BY <1>2 DEF BufInv, Holds, Live, Named
  <2>2. \A b \in Bufs : Reachable(b)'
    BY <1>2 DEF BufInv, Reachable, Live, At
  <2> QED
    BY <1>2, <2>1, <2>2 DEF BufInv, OneCallPerBuffer, NobodyHolds
<1> QED
  BY <1>1, <1>2 DEF CloseEvent, Watch, TestEvent, SignalEvent, vars, bufVars

LEMMA BufInvariant ==
  ASSUME Orderly
  PROVE  Spec => []BufInv
<1>1. Init => BufInv
  <2> SUFFICES ASSUME Init PROVE BufInv
    OBVIOUS
  <2>1. Live = {} /\ \A t \in Threads : call[t] = NoCall
    BY DEF Init, Live
  <2>2. \A t \in Threads : Holds(t) /\ Named(t) = NoBuf
    BY <2>1 DEF Holds, NoCall, Owning, Named
  <2>3. \A b \in Bufs : Reachable(b)
    BY <2>1, LinuxDriverAssumption DEF Init, Reachable
  <2> QED
    BY <2>2, <2>3 DEF Init, BufInv, OneCallPerBuffer, NobodyHolds
<1>2. ASSUME Shape, Shape', BufInv, [Next]_vars, Orderly PROVE BufInv'
  <2>1. ASSUME NEW t \in Threads, Take(t) PROVE BufInv'
    BY <1>2, <2>1, BufReads, BufMakes
  <2> QED
    BY <1>2, <2>1, BufReads, BufMakes, BufFrees, BufUses, BufRefs, BufModule DEF Next, System
<1> QED
  BY <1>1, <1>2, ShapeInvariant, PTL DEF Spec

(* lru_list links no freed buffer, whatever advice, eviction, failure and   *)
(* close did to it (greenboost.c:275-278, 582-584).                         *)
THEOREM LinkedBuffersLive ==
  ASSUME Orderly
  PROVE  Spec => []LruNodesLive
<1>1. Shape /\ BufInv => LruNodesLive
  BY DEF Shape, Typed, BufInv, Reachable, LruNodesLive
<1> QED
  BY <1>1, BufInvariant, ShapeInvariant, PTL

(* The IDR never leads to a freed buffer, and a buffer somebody holds is    *)
(* found under its id until the last reference goes (greenboost.c:280-285,  *)
(* 636-660).                                                                *)
THEOREM IdsLeadToBuffers ==
  ASSUME Orderly
  PROVE  Spec => []IdsFindBuffers
<1>1. Shape /\ BufInv => IdsFindBuffers
  <2> SUFFICES ASSUME Shape, BufInv PROVE IdsFindBuffers
    OBVIOUS
  <2>1. \A i \in Ids : idr[i] # NoBuf => idr[i] \in Live /\ heap[idr[i]].id \in {0, i}
    BY DEF Shape, Typed, BufInv, Reachable
  <2>2. ASSUME NEW b \in Bufs, refs[b] > 0
        PROVE  b \in Live /\ heap[b].id \in Ids /\ idr[heap[b].id] = b
    <3>1. \A t \in Threads : call[t].pc \in Undone => call[t].buf # b
      BY <2>2 DEF BufInv, Holds, Undone, Owning
    <3> QED
      BY <2>2, <3>1 DEF BufInv, Reachable
  <2> QED
    BY <2>1, <2>2 DEF IdsFindBuffers
<1> QED
  BY <1>1, BufInvariant, ShapeInvariant, PTL

-----------------------------------------------------------------------------
(* What has been accounted                                                  *)

(* The pages of the buffers of a set, in a heap                             *)
Extent(H, B) == UNION {{b} \X (1 .. H[b].size) : b \in B}

LEMMA AddExtent ==
  ASSUME NEW H, NEW B, NEW b, b \notin B, H[b].size \in Nat, IsFiniteSet(Extent(H, B))
  PROVE  /\ IsFiniteSet(Extent(H, B \cup {b}))
         /\ Cardinality(Extent(H, B \cup {b})) = Cardinality(Extent(H, B)) + H[b].size
<1>1. PICK n \in Nat : n = H[b].size
  OBVIOUS
<1>2. IsFiniteSet(1 .. n) /\ Cardinality(1 .. n) = n
  BY FS_Interval
<1>3. IsFiniteSet({b}) /\ Cardinality({b}) = 1
  BY FS_Singleton
<1>4. IsFiniteSet({b} \X (1 .. n)) /\ Cardinality({b} \X (1 .. n)) = Cardinality({b}) * Cardinality(1 .. n)
  BY <1>2, <1>3, FS_Product
<1>5. PICK mine : mine = {b} \X (1 .. n)
  OBVIOUS
<1>6. IsFiniteSet(mine) /\ Cardinality(mine) = n
  BY <1>2, <1>3, <1>4, <1>5
<1>7. PICK old : old = Extent(H, B)
  OBVIOUS
<1>8. Extent(H, B \cup {b}) = old \cup mine
  BY <1>1, <1>5, <1>7 DEF Extent
<1>9. old \cap mine = {}
  BY <1>5, <1>7 DEF Extent
<1>10. Cardinality(old \cap mine) = 0 /\ Cardinality(old) \in Nat
  BY <1>7, <1>9, FS_EmptySet, FS_CardinalityType
<1>11. /\ IsFiniteSet(old \cup mine)
       /\ Cardinality(old \cup mine) = Cardinality(old) + Cardinality(mine) - Cardinality(old \cap mine)
  BY <1>6, <1>7, FS_Union
<1>12. Cardinality(old \cup mine) = Cardinality(old) + n
  BY <1>6, <1>10, <1>11
<1> QED
  BY <1>1, <1>7, <1>8, <1>11, <1>12

LEMMA PartOfExtent ==
  ASSUME NEW H, NEW B, IsFiniteSet(Extent(H, B)), NEW A \in SUBSET B
  PROVE  IsFiniteSet(Extent(H, A)) /\ Cardinality(Extent(H, A)) \in Nat
<1>1. Extent(H, A) \subseteq Extent(H, B)
  BY DEF Extent
<1> QED
  BY <1>1, FS_Subset, FS_CardinalityType

LEMMA RemoveExtent ==
  ASSUME NEW H, NEW B, NEW b \in B, H[b].size \in Nat, IsFiniteSet(Extent(H, B))
  PROVE  Cardinality(Extent(H, B \ {b})) = Cardinality(Extent(H, B)) - H[b].size
<1>1. IsFiniteSet(Extent(H, B \ {b})) /\ Cardinality(Extent(H, B \ {b})) \in Nat
  BY PartOfExtent
<1>2. (B \ {b}) \cup {b} = B
  OBVIOUS
<1>3. Cardinality(Extent(H, B)) = Cardinality(Extent(H, B \ {b})) + H[b].size
  BY <1>1, <1>2, AddExtent
<1> QED
  BY <1>1, <1>3

LEMMA SameExtent ==
  ASSUME NEW G, NEW H, NEW B, \A b \in B : G[b].size = H[b].size
  PROVE  Extent(G, B) = Extent(H, B)
BY DEF Extent

LEMMA NoExtent ==
  ASSUME NEW H
  PROVE  IsFiniteSet(Extent(H, {})) /\ Cardinality(Extent(H, {})) = 0
<1>1. Extent(H, {}) = {}
  BY DEF Extent
<1> QED
  BY <1>1, FS_EmptySet

(* Buffers in the hands of a call at a label *)
InHand(label) == {b \in Bufs : \E t \in Threads : call[t].pc = label /\ call[t].buf = b}

(* A new buffer is accounted after it is made, an evicted one before it is  *)
(* relabelled                                                               *)
Accounted == Live \ InHand("account")
InPool == {b \in Accounted : heap[b].tier = 2} \ InHand("relabel")
InNvme == {b \in Accounted : heap[b].tier = 3} \cup InHand("relabel")

CountInv ==
  /\ IsFiniteSet(Extent(heap, Live))
  /\ pool = Cardinality(Extent(heap, InPool))
  /\ nvme = Cardinality(Extent(heap, InNvme))
  /\ active = Cardinality(Accounted)

LEMMA CountFacts ==
  ASSUME Shape, BufInv, CountInv
  PROVE  /\ InPool \subseteq Live /\ InNvme \subseteq Live /\ Live \subseteq Bufs
         /\ IsFiniteSet(Live) /\ IsFiniteSet(Accounted)
         /\ IsFiniteSet(Extent(heap, InPool)) /\ IsFiniteSet(Extent(heap, InNvme))
         /\ pool \in Nat /\ nvme \in Nat /\ active \in Nat
         /\ \A b \in Live : heap[b].size \in Nat /\ heap[b].tier \in {2, 3}
<1>1. InPool \subseteq Live /\ InNvme \subseteq Live /\ Live \subseteq Bufs
  BY DEF InPool, InNvme, Accounted, InHand, Live, BufInv, Holds, Owning
<1>2. IsFiniteSet(Live)
  BY <1>1, LinuxDriverAssumption, FS_Subset
<1>3. Accounted \subseteq Live
  BY DEF Accounted
<1>4. IsFiniteSet(Accounted) /\ active \in Nat
  BY <1>2, <1>3, FS_Subset, FS_CardinalityType DEF CountInv
<1>5. \A b \in Live : heap[b] \in Buffer
  BY DEF Shape, Typed, Live
<1> QED
  BY <1>1, <1>2, <1>4, <1>5, PartOfExtent DEF CountInv, Buffer

(* Steps that account nothing *)
LEMMA CountKept ==
  ASSUME Shape, BufInv, CountInv, UNCHANGED counters, Live' = Live,
         \A b \in Live : heap'[b].size = heap[b].size /\ heap'[b].tier = heap[b].tier,
         \A u \in Threads : \/ call'[u] = call[u]
                            \/ /\ call[u].pc \notin {"account", "relabel"}
                               /\ call'[u].pc \notin {"account", "relabel"}
  PROVE  CountInv'
<1>1. InHand("account")' = InHand("account") /\ InHand("relabel")' = InHand("relabel")
  BY DEF InHand
<1>2. Accounted' = Accounted /\ InPool' = InPool /\ InNvme' = InNvme
  BY <1>1 DEF Accounted, InPool, InNvme
<1>3. InPool \subseteq Live /\ InNvme \subseteq Live
  BY CountFacts
<1>4. /\ Extent(heap', Live) = Extent(heap, Live)
      /\ Extent(heap', InPool) = Extent(heap, InPool)
      /\ Extent(heap', InNvme) = Extent(heap, InNvme)
  BY <1>3, SameExtent
<1> QED
  BY <1>2, <1>4 DEF CountInv, counters

LEMMA CountTake ==
  ASSUME Shape, BufInv, CountInv, NEW t \in Threads, Take(t)
  PROVE  CountInv'
<1>0. call \in [Threads -> Call] /\ call[t] \in Call /\ heap \in [Bufs -> Buffer \cup {NoBuf}]
  BY DEF Shape, Typed
<1>1. CASE Done(t) /\ UNCHANGED heap
  <2>1. call[t].pc = "take" /\ call'[t].pc = "idle" /\ \A u \in Threads : u # t => call'[u] = call[u]
    BY <1>0, <1>1 DEF Take, At, Done, NoCall
  <2> QED
    BY <1>1, <2>1, CountKept DEF Take, Live
<1>2. CASE ~(Done(t) /\ UNCHANGED heap)
  <2>1. PICK b \in Bufs \ Live, tier \in {2, 3}, kind \in {"huge", "small", "user"} :
          /\ heap' = [heap EXCEPT ![b] = [tier |-> tier, kind |-> kind, id |-> 0,
                                          size |-> Pages(call[t].size, kind)]]
          /\ call' = [call EXCEPT ![t].buf = b, ![t].pc = "account"]
    BY <1>2 DEF Take
  <2>2. call[t].pc = "take" /\ call'[t].pc = "account" /\ call'[t].buf = b
    BY <1>0, <2>1 DEF Call, Take, At
  <2>3. \A u \in Threads : u # t => call'[u] = call[u]
    BY <1>0, <2>1
  <2>4. heap'[b] \in Buffer /\ \A d \in Bufs : d # b => heap'[d] = heap[d]
    <3>1. [tier |-> tier, kind |-> kind, id |-> 0, size |-> Pages(call[t].size, kind)] \in Buffer
      BY <1>0, PagesAreNat DEF Buffer, Call
    <3> QED
      BY <1>0, <2>1, <3>1
  <2>5. b \in Live' /\ \A d \in Bufs : d # b => (d \in Live' <=> d \in Live)
    BY <2>4, LinuxDriverAssumption DEF Live
  <2>6. Live' = Live \cup {b}
    BY <2>1, <2>5 DEF Live
  <2>7. InHand("account")' = InHand("account") \cup {b} /\ InHand("relabel")' = InHand("relabel")
    BY <2>1, <2>2, <2>3 DEF InHand
  <2>8. InPool \subseteq Live /\ InNvme \subseteq Live /\ Live \subseteq Bufs
    BY CountFacts
  <2>9. Accounted' = Accounted /\ InPool' = InPool /\ InNvme' = InNvme
    <3>1. Accounted' = Accounted
      BY <2>1, <2>6, <2>7 DEF Accounted
    <3>2. \A d \in Accounted : heap'[d] = heap[d]
      BY <2>1, <2>4, <2>8 DEF Accounted
    <3> QED
      BY <2>7, <3>1, <3>2 DEF InPool, InNvme
  <2>10. /\ Extent(heap', Live) = Extent(heap, Live)
         /\ Extent(heap', InPool) = Extent(heap, InPool)
         /\ Extent(heap', InNvme) = Extent(heap, InNvme)
    <3>1. \A d \in Live : heap'[d] = heap[d]
      BY <2>1, <2>4, <2>8
    <3>2. \A S : S \subseteq Live => Extent(heap', S) = Extent(heap, S)
      BY <3>1, SameExtent
    <3> QED
      BY <2>8, <3>2
  <2>11. IsFiniteSet(Extent(heap', Live'))
    <3>1. heap'[b].size \in Nat
      BY <2>4 DEF Buffer
    <3> QED
      BY <2>1, <2>6, <2>10, <3>1, AddExtent DEF CountInv
  <2> QED
    BY <1>2, <2>9, <2>10, <2>11 DEF Take, CountInv, counters
<1> QED
  BY <1>1, <1>2

LEMMA CountAccount ==
  ASSUME Shape, BufInv, CountInv, NEW t \in Threads, Account(t)
  PROVE  CountInv'
<1>0. call \in [Threads -> Call] /\ call[t] \in Call
  BY DEF Shape, Typed
<1>1. PICK b : b = call[t].buf
  OBVIOUS
<1>2. /\ call[t].pc = "account" /\ call'[t].pc = "export" /\ UNCHANGED heap
      /\ \A u \in Threads : u # t => call'[u] = call[u]
  BY <1>0 DEF Account, Reaches, At, Goto, Call
<1>3. /\ b \in Live /\ b \in Bufs /\ heap[b].size \in Nat /\ heap[b].tier \in {2, 3}
      /\ \A u \in Threads : u # t /\ call[u].pc \in {"account", "relabel"} => call[u].buf # b
  <2>1. b \in Live /\ b \in Bufs /\ \A u \in Threads : u # t => Named(u) # b
    BY <1>1, <1>2, Mine DEF Owning
  <2>2. ASSUME NEW u \in Threads, u # t, call[u].pc \in {"account", "relabel"} PROVE call[u].buf # b
    BY <2>1, <2>2, Mine DEF Owning
  <2> QED
    BY <2>1, <2>2, CountFacts
<1>4. InHand("account")' = InHand("account") \ {b} /\ InHand("relabel")' = InHand("relabel")
      /\ b \in InHand("account") /\ b \notin InHand("relabel")
  <2>1. \A d : (\E u \in Threads : call'[u].pc = "account" /\ call'[u].buf = d)
                 <=> d # b /\ (\E u \in Threads : call[u].pc = "account" /\ call[u].buf = d)
    BY <1>1, <1>2, <1>3
  <2>2. \A d : (\E u \in Threads : call'[u].pc = "relabel" /\ call'[u].buf = d)
                 <=> (\E u \in Threads : call[u].pc = "relabel" /\ call[u].buf = d)
    BY <1>2
  <2> QED
    BY <1>1, <1>2, <1>3, <2>1, <2>2 DEF InHand
<1>5. Live' = Live /\ Accounted' = Accounted \cup {b} /\ b \notin Accounted
  BY <1>2, <1>3, <1>4 DEF Accounted, Live
<1>6. b \notin InPool /\ b \notin InNvme
  BY <1>4, <1>5 DEF InPool, InNvme
<1>7. active' = Cardinality(Accounted')
  BY <1>5, CountFacts, FS_AddElement DEF Account, CountInv
<1>8. CASE heap[b].tier = 2
  <2>1. InPool' = InPool \cup {b} /\ InNvme' = InNvme
    BY <1>2, <1>3, <1>4, <1>5, <1>8 DEF InPool, InNvme
  <2>2. pool' = pool + heap[b].size /\ UNCHANGED nvme
    BY <1>1, <1>8 DEF Account, Buf
  <2>3. Cardinality(Extent(heap, InPool \cup {b})) = Cardinality(Extent(heap, InPool)) + heap[b].size
    BY <1>3, <1>6, AddExtent, CountFacts
  <2> QED
    BY <1>2, <1>5, <1>7, <2>1, <2>2, <2>3 DEF CountInv
<1>9. CASE heap[b].tier = 3
  <2>1. InNvme' = InNvme \cup {b} /\ InPool' = InPool
    BY <1>2, <1>3, <1>4, <1>5, <1>9 DEF InPool, InNvme
  <2>2. nvme' = nvme + heap[b].size /\ UNCHANGED pool
    BY <1>1, <1>9 DEF Account, Buf
  <2>3. Cardinality(Extent(heap, InNvme \cup {b})) = Cardinality(Extent(heap, InNvme)) + heap[b].size
    BY <1>3, <1>6, AddExtent, CountFacts
  <2> QED
    BY <1>2, <1>5, <1>7, <2>1, <2>2, <2>3 DEF CountInv
<1> QED
  BY <1>3, <1>8, <1>9

LEMMA CountFree ==
  ASSUME Shape, BufInv, CountInv, NEW t \in Threads, Free(t)
  PROVE  CountInv'
<1>0. call \in [Threads -> Call] /\ call[t] \in Call /\ heap \in [Bufs -> Buffer \cup {NoBuf}]
  BY DEF Shape, Typed
<1>1. PICK b : b = call[t].buf
  OBVIOUS
<1>2. /\ call[t].pc = "free" /\ call'[t] = NoCall /\ heap' = [heap EXCEPT ![b] = NoBuf]
      /\ \A u \in Threads : u # t => call'[u] = call[u]
  BY <1>0, <1>1 DEF Free, Reaches, At, Done
<1>3. /\ b \in Live /\ b \in Bufs /\ heap[b].size \in Nat /\ heap[b].tier \in {2, 3}
      /\ \A u \in Threads : call[u].pc \in {"account", "relabel"} => call[u].buf # b
  <2>1. b \in Live /\ b \in Bufs /\ \A u \in Threads : u # t => Named(u) # b
    BY <1>1, <1>2, Mine DEF Owning
  <2>2. ASSUME NEW u \in Threads, call[u].pc \in {"account", "relabel"} PROVE call[u].buf # b
    BY <1>2, <2>1, <2>2, Mine DEF Owning
  <2> QED
    BY <2>1, <2>2, CountFacts
<1>4. InHand("account")' = InHand("account") /\ InHand("relabel")' = InHand("relabel")
      /\ b \notin InHand("account") /\ b \notin InHand("relabel")
  BY <1>2, <1>3 DEF InHand, NoCall
<1>5. heap'[b] = NoBuf /\ \A d \in Bufs : d # b => heap'[d] = heap[d]
  BY <1>0, <1>2, <1>3
<1>6. Live' = Live \ {b} /\ Accounted' = Accounted \ {b} /\ b \in Accounted
  BY <1>3, <1>4, <1>5 DEF Accounted, Live
<1>7. active' = Cardinality(Accounted')
  BY <1>6, CountFacts, FS_RemoveElement DEF Free, CountInv
<1>8. \A S : S \subseteq Live \ {b} => Extent(heap', S) = Extent(heap, S)
  BY <1>5, SameExtent DEF Live
<1>9. IsFiniteSet(Extent(heap', Live'))
  BY <1>6, <1>8, PartOfExtent DEF CountInv
<1>10. InPool \subseteq Live /\ InNvme \subseteq Live
  BY CountFacts
<1>11. InPool' = InPool \ {b} /\ InNvme' = InNvme \ {b}
  BY <1>4, <1>5, <1>6, <1>10 DEF InPool, InNvme, Accounted, Live
<1>12. CASE heap[b].tier = 2
  <2>1. b \in InPool /\ b \notin InNvme
    BY <1>4, <1>6, <1>12 DEF InPool, InNvme
  <2>2. pool' = pool - heap[b].size /\ UNCHANGED nvme
    BY <1>1, <1>12 DEF Free, Buf
  <2>3. Cardinality(Extent(heap, InPool \ {b})) = Cardinality(Extent(heap, InPool)) - heap[b].size
    BY <1>3, <2>1, RemoveExtent, CountFacts
  <2>4. InPool \ {b} \subseteq Live \ {b} /\ InNvme \ {b} = InNvme /\ InNvme \subseteq Live \ {b}
    BY <1>10, <2>1
  <2>5. Extent(heap', InPool') = Extent(heap, InPool \ {b}) /\ Extent(heap', InNvme') = Extent(heap, InNvme)
    BY <1>8, <1>11, <2>4
  <2> QED
    BY <1>7, <1>9, <2>2, <2>3, <2>5 DEF CountInv
<1>13. CASE heap[b].tier = 3
  <2>1. b \in InNvme /\ b \notin InPool
    BY <1>4, <1>6, <1>13 DEF InPool, InNvme
  <2>2. nvme' = nvme - heap[b].size /\ UNCHANGED pool
    BY <1>1, <1>13 DEF Free, Buf
  <2>3. Cardinality(Extent(heap, InNvme \ {b})) = Cardinality(Extent(heap, InNvme)) - heap[b].size
    BY <1>3, <2>1, RemoveExtent, CountFacts
  <2>4. InNvme \ {b} \subseteq Live \ {b} /\ InPool \ {b} = InPool /\ InPool \subseteq Live \ {b}
    BY <1>10, <2>1
  <2>5. Extent(heap', InNvme') = Extent(heap, InNvme \ {b}) /\ Extent(heap', InPool') = Extent(heap, InPool)
    BY <1>8, <1>11, <2>4
  <2> QED
    BY <1>7, <1>9, <2>2, <2>3, <2>5 DEF CountInv
<1> QED
  BY <1>3, <1>12, <1>13

(* EVICT moves the bytes of a buffer of tier 2 before it relabels it *)
LEMMA CountMove ==
  ASSUME Shape, BufInv, CountInv, NEW t \in Threads, Move(t)
  PROVE  CountInv'
<1>0. call \in [Threads -> Call] /\ call[t] \in Call
  BY DEF Shape, Typed
<1>1. PICK b : b = call[t].buf
  OBVIOUS
<1>2. call[t].pc = "move" /\ UNCHANGED <<heap, active>>
  BY DEF Move, Reaches, At, bufVars
<1>3. /\ b \in Live /\ b \in Bufs /\ heap[b].size \in Nat /\ heap[b].tier \in {2, 3}
      /\ \A u \in Threads : call[u].pc \in {"account", "relabel"} => call[u].buf # b
  <2>1. b \in Live /\ b \in Bufs /\ \A u \in Threads : u # t => Named(u) # b
    BY <1>1, <1>2, Mine
  <2>2. ASSUME NEW u \in Threads, call[u].pc \in {"account", "relabel"} PROVE call[u].buf # b
    BY <1>2, <2>1, <2>2, Mine DEF Owning
  <2> QED
    BY <2>1, <2>2, CountFacts
<1>4. CASE heap[b].tier = 3
  <2>1. call' = [call EXCEPT ![t] = NoCall] /\ UNCHANGED <<pool, nvme>>
    BY <1>1, <1>4 DEF Move, Buf, Done
  <2>2. call'[t].pc = "idle" /\ \A u \in Threads : u # t => call'[u] = call[u]
    BY <1>0, <2>1 DEF NoCall
  <2> QED
    BY <1>2, <2>1, <2>2, CountKept DEF Live, counters
<1>5. CASE heap[b].tier = 2
  <2>1. /\ pool' = pool - heap[b].size /\ nvme' = nvme + heap[b].size
        /\ call' = [call EXCEPT ![t].pc = "relabel"]
    BY <1>1, <1>5 DEF Move, Buf, Goto
  <2>2. /\ call'[t].pc = "relabel" /\ call'[t].buf = b
        /\ \A u \in Threads : u # t => call'[u] = call[u]
    BY <1>0, <1>1, <2>1 DEF Call
  <2>3. /\ b \notin InHand("account") /\ b \notin InHand("relabel")
        /\ InHand("account")' = InHand("account") /\ InHand("relabel")' = InHand("relabel") \cup {b}
    BY <1>2, <1>3, <2>2 DEF InHand
  <2>4. Live' = Live /\ Accounted' = Accounted /\ b \in Accounted
    BY <1>2, <1>3, <2>3 DEF Live, Accounted
  <2>5. /\ InPool' = InPool \ {b} /\ InNvme' = InNvme \cup {b}
        /\ b \in InPool /\ b \notin InNvme
    BY <1>2, <1>5, <2>3, <2>4 DEF InPool, InNvme
  <2>6. Cardinality(Extent(heap, InPool \ {b})) = Cardinality(Extent(heap, InPool)) - heap[b].size
    BY <1>3, <2>5, RemoveExtent, CountFacts
  <2>7. Cardinality(Extent(heap, InNvme \cup {b})) = Cardinality(Extent(heap, InNvme)) + heap[b].size
    BY <1>3, <2>5, AddExtent, CountFacts
  <2> QED
    BY <1>2, <2>1, <2>4, <2>5, <2>6, <2>7 DEF CountInv
<1> QED
  BY <1>3, <1>4, <1>5

LEMMA CountRelabel ==
  ASSUME Shape, BufInv, CountInv, NEW t \in Threads, Relabel(t)
  PROVE  CountInv'
<1>0. /\ call \in [Threads -> Call] /\ call[t] \in Call
      /\ heap \in [Bufs -> Buffer \cup {NoBuf}] /\ \A h \in Buffer : h # NoBuf
  BY LinuxDriverAssumption DEF Shape, Typed
<1>1. PICK b : b = call[t].buf
  OBVIOUS
<1>2. /\ call[t].pc = "relabel" /\ call'[t].pc = "delist" /\ UNCHANGED counters
      /\ heap' = [heap EXCEPT ![b].tier = 3]
      /\ \A u \in Threads : u # t => call'[u] = call[u]
  BY <1>0, <1>1 DEF Relabel, Reaches, At, Goto, Call
<1>3. /\ b \in Live /\ b \in Bufs /\ heap[b] \in Buffer
      /\ \A u \in Threads : u # t /\ call[u].pc \in {"account", "relabel"} => call[u].buf # b
  <2>1. b \in Live /\ b \in Bufs /\ \A u \in Threads : u # t => Named(u) # b
    BY <1>1, <1>2, Mine
  <2>2. ASSUME NEW u \in Threads, u # t, call[u].pc \in {"account", "relabel"} PROVE call[u].buf # b
    BY <2>1, <2>2, Mine DEF Owning
  <2> QED
    BY <1>0, <2>1, <2>2 DEF Live
<1>4. /\ heap'[b] \in Buffer /\ heap'[b].tier = 3 /\ heap'[b].size = heap[b].size
      /\ \A d \in Bufs : d # b => heap'[d] = heap[d]
  BY <1>0, <1>2, <1>3 DEF Buffer
<1>5. InHand("account")' = InHand("account") /\ InHand("relabel")' = InHand("relabel") \ {b}
      /\ b \notin InHand("account") /\ b \in InHand("relabel")
  <2>1. \A d : (\E u \in Threads : call'[u].pc = "relabel" /\ call'[u].buf = d)
                 <=> d # b /\ (\E u \in Threads : call[u].pc = "relabel" /\ call[u].buf = d)
    BY <1>1, <1>2, <1>3
  <2>2. \A d : (\E u \in Threads : call'[u].pc = "account" /\ call'[u].buf = d)
                 <=> (\E u \in Threads : call[u].pc = "account" /\ call[u].buf = d)
    BY <1>2
  <2> QED
    BY <1>1, <1>2, <1>3, <2>1, <2>2 DEF InHand
<1>6. Live' = Live
  BY <1>0, <1>3, <1>4 DEF Live
<1>7. Accounted' = Accounted /\ b \in Accounted
  BY <1>3, <1>5, <1>6 DEF Accounted
<1>8. InPool \subseteq Live /\ InNvme \subseteq Live /\ Live \subseteq Bufs
  BY CountFacts
<1>9. Accounted \subseteq Live
  BY DEF Accounted
<1>10. InPool' = InPool /\ InNvme' = InNvme
  <2>1. ASSUME NEW d \in Accounted, d # b
        PROVE  /\ heap'[d] = heap[d]
               /\ d \in InHand("relabel")' <=> d \in InHand("relabel")
    BY <1>4, <1>5, <1>8, <1>9, <2>1
  <2>2. \A d : d \in InPool' <=> d \in InPool
    BY <1>4, <1>5, <1>7, <2>1 DEF InPool
  <2>3. \A d : d \in InNvme' <=> d \in InNvme
    BY <1>4, <1>5, <1>7, <2>1 DEF InNvme
  <2> QED
    BY <2>2, <2>3
<1>11. /\ Extent(heap', Live) = Extent(heap, Live)
       /\ Extent(heap', InPool) = Extent(heap, InPool)
       /\ Extent(heap', InNvme) = Extent(heap, InNvme)
  <2>1. \A d \in Live : heap'[d].size = heap[d].size
    BY <1>4, <1>8
  <2>2. \A S : S \subseteq Live => Extent(heap', S) = Extent(heap, S)
    BY <2>1, SameExtent
  <2> QED
    BY <1>8, <2>2
<1> QED
  BY <1>2, <1>6, <1>7, <1>10, <1>11 DEF CountInv, counters

(* gb_init, with no buffer left *)
LEMMA CountLoad ==
  ASSUME Shape, BufInv, CountInv, Load
  PROVE  CountInv'
<1>1. Live = {} /\ Live' = {} /\ UNCHANGED <<heap, call>> /\ active' = 0 /\ pool' = 0 /\ nvme' = 0
  BY NothingLeft DEF Load, Live
<1>2. InHand("relabel") = {} /\ InHand("relabel")' = {}
  BY <1>1 DEF Load, InHand, Shape, Alone, Quiet, At
<1>3. Accounted' = {} /\ InPool' = {} /\ InNvme' = {}
  BY <1>1, <1>2 DEF Accounted, InPool, InNvme
<1> QED
  BY <1>1, <1>3, NoExtent, FS_EmptySet DEF CountInv

(* The steps of a call that account nothing *)
LEMMA CountOthers ==
  ASSUME Orderly, Shape, BufInv, CountInv, NEW t \in Threads,
         \/ AskMemory(t) \/ AskBuffer(t) \/ AskPoll(t) \/ Exit(t) \/ (\E b \in Bufs : Drop(t, b))
         \/ Export(t) \/ Register(t) \/ Name(t) \/ Install(t) \/ Unname(t) \/ Report(t)
         \/ Unlink(t) \/ Unregister(t) \/ Lookup(t) \/ Advise(t) \/ Delist(t)
         \/ GetEvent(t) \/ PutEvent(t) \/ SetEvent(t) \/ StopWatchdog(t)
  PROVE  CountInv'
<1>0. /\ call \in [Threads -> Call] /\ call[t] \in Call
      /\ heap \in [Bufs -> Buffer \cup {NoBuf}] /\ \A h \in Buffer : h # NoBuf
  BY LinuxDriverAssumption DEF Shape, Typed
<1>1. UNCHANGED counters
  BY DEF Orderly, AskMemory, AskBuffer, AskPoll, Exit, Drop, Export, Register, Name, Install, Unname, Report,
         Unlink, Unregister, Lookup, Advise, Delist, GetEvent, PutEvent, SetEvent, StopWatchdog,
         counters
<1>2. \/ call' = call
      \/ /\ call[t].pc \notin {"account", "relabel"} /\ call'[t].pc \notin {"account", "relabel"}
         /\ \A u \in Threads : u # t => call'[u] = call[u]
  <2> USE <1>0 DEF At, Reaches, Goto, Done, Ask, NoCall, Call, Idle
  <2>1. CASE AskMemory(t) \/ AskBuffer(t) \/ AskPoll(t) \/ Exit(t) \/ (\E b \in Bufs : Drop(t, b))
    BY <2>1 DEF AskMemory, AskBuffer, AskPoll, Exit, Drop
  <2>2. CASE Export(t) \/ Register(t) \/ Name(t) \/ Install(t) \/ Unname(t) \/ Report(t)
    BY <2>2 DEF Orderly, Export, Register, Name, Install, Unname, Report
  <2>3. CASE Unlink(t) \/ Unregister(t)
    BY <2>3 DEF Unlink, Unregister
  <2>4. CASE Lookup(t) \/ Advise(t) \/ Delist(t)
    BY <2>4 DEF Lookup, Advise, Delist
  <2>5. CASE GetEvent(t) \/ PutEvent(t) \/ SetEvent(t) \/ StopWatchdog(t)
    BY <2>5 DEF GetEvent, PutEvent, SetEvent, StopWatchdog
  <2> QED
    BY <2>1, <2>2, <2>3, <2>4, <2>5
<1>3. \A b \in Bufs : \/ heap'[b] = heap[b]
                      \/ \E i \in Ids \cup {0} : heap[b] \in Buffer /\ heap'[b] = [heap[b] EXCEPT !.id = i]
  <2>1. CASE Name(t) \/ Unname(t)
    <3>1. call[t].buf \in Live /\ call[t].buf \in Bufs
      BY <2>1 DEF Name, Unname, Reaches, Live
    <3>2. heap[call[t].buf] \in Buffer
      BY <1>0, <3>1 DEF Live
    <3>3. \/ heap' = heap
          \/ \E i \in Ids \cup {0} : heap' = [heap EXCEPT ![call[t].buf].id = i]
      BY <2>1 DEF Name, Unname
    <3> QED
      BY <1>0, <3>1, <3>2, <3>3
  <2>2. CASE ~(Name(t) \/ Unname(t))
    BY <2>2 DEF Orderly, AskMemory, AskBuffer, AskPoll, Exit, Drop, Export, Register, Install, Report,
         Unlink, Unregister, Lookup, Advise, Delist, GetEvent, PutEvent, SetEvent, StopWatchdog, bufVars
  <2> QED
    BY <2>1, <2>2
<1>4. \A b \in Bufs : \/ heap'[b] = heap[b]
                      \/ /\ heap[b] \in Buffer /\ heap'[b] \in Buffer
                         /\ heap'[b].size = heap[b].size /\ heap'[b].tier = heap[b].tier
  BY <1>3 DEF Buffer
<1>5. Live' = Live /\ \A b \in Live : heap'[b].size = heap[b].size /\ heap'[b].tier = heap[b].tier
  BY <1>0, <1>4 DEF Live
<1> QED
  BY <1>1, <1>2, <1>5, CountKept

LEMMA CountInvariant ==
  ASSUME Orderly
  PROVE  Spec => []CountInv
<1>1. Init => CountInv
  <2> SUFFICES ASSUME Init PROVE CountInv
    OBVIOUS
  <2>1. Live = {} /\ InHand("relabel") = {}
    BY DEF Init, Live, InHand, NoCall
  <2>2. Accounted = {} /\ InPool = {} /\ InNvme = {}
    BY <2>1 DEF Accounted, InPool, InNvme
  <2> QED
    BY <2>1, <2>2, NoExtent, FS_EmptySet DEF Init, CountInv
<1>2. ASSUME Shape, BufInv, CountInv, [Next]_vars, Orderly PROVE CountInv'
  <2>1. CASE \/ \E b \in Bufs : Share(b)
             \/ \E e \in Events : CloseEvent(e)
             \/ Watch \/ TestEvent \/ SignalEvent \/ UNCHANGED vars
    <3>1. UNCHANGED counters /\ UNCHANGED heap /\ UNCHANGED call
      BY <2>1 DEF Share, CloseEvent, Watch, TestEvent, SignalEvent, vars, bufVars
    <3> QED
      BY <1>2, <3>1, CountKept DEF Live
  <2> QED
    BY <1>2, <2>1, CountTake, CountAccount, CountFree, CountMove, CountRelabel, CountLoad, CountOthers
       DEF Next, System
<1> QED
  BY <1>1, <1>2, ShapeInvariant, BufInvariant, PTL DEF Spec

(* Between calls the counters that GET_INFO and sysfs report add up to the  *)
(* live buffers of each tier (greenboost.c:186-192), through every failed   *)
(* allocation, eviction and release, whichever of them run in parallel.     *)
THEOREM CountersExact ==
  ASSUME Orderly
  PROVE  Spec => []CountersAreExact
<1>1. Shape /\ BufInv /\ CountInv => CountersAreExact
  <2> SUFFICES ASSUME Shape, BufInv, CountInv, Quiet
               PROVE  /\ pool = Bytes(InTier(2)) /\ nvme = Bytes(InTier(3))
                      /\ active = Cardinality(Live)
    BY DEF CountersAreExact
  <2>1. InHand("account") = {} /\ InHand("relabel") = {}
    BY DEF InHand, Quiet, At
  <2>2. Accounted = Live /\ InPool = InTier(2) /\ InNvme = InTier(3)
    BY <2>1 DEF Accounted, InPool, InNvme, InTier
  <2> QED
    BY <2>2 DEF CountInv, Bytes, Extent
<1> QED
  BY <1>1, ShapeInvariant, BufInvariant, CountInvariant, PTL

(* The state stays typed.  That no counter goes below zero is the work of   *)
(* all three layers.                                                        *)
THEOREM TypeCorrect ==
  ASSUME Orderly
  PROVE  Spec => []TypeOK
<1>1. Shape /\ BufInv /\ CountInv => TypeOK
  <2> SUFFICES ASSUME Shape, BufInv, CountInv PROVE TypeOK
    OBVIOUS
  <2>1. pool \in Nat /\ nvme \in Nat /\ active \in Nat
    BY CountFacts
  <2>2. refs \in [Bufs -> 0 .. MaxRefs]
    BY LinuxDriverAssumption DEF Shape, Typed
  <2> QED
    BY <2>1, <2>2 DEF Shape, Typed, TypeOK
<1> QED
  BY <1>1, ShapeInvariant, BufInvariant, CountInvariant, PTL
=============================================================================
