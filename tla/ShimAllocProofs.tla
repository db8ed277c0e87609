---------------------------- MODULE ShimAllocProofs ----------------------------
(***************************************************************************)
(* What ShimAlloc guarantees for any threads, addresses, buffers, sizes    *)
(* and table.                                                              *)
(*                                                                         *)
(* The invariant is built in layers, each inductive relative to those      *)
(* before it: the shape of the state, who owns an address or a buffer,     *)
(* the slots that frees keep, what has been charged, and what stays in     *)
(* reach.  A layer assumes only what it needs.                             *)
(***************************************************************************)
EXTENDS ShimAlloc, FiniteSetTheorems, TLAPS

Allocating == {"native", "last", "capable", "managed", "track", "untrack", "charge",
               "open", "create", "ioctl", "alloc", "register", "pointer", "unpin", "undo",
               "trackmapped"}
Labels == {"idle", "freenative", "freemanaged", "discharge", "unregister", "freebuf"}
            \cup Allocating

(* Where a hook has an address that nobody else has, and a driver buffer    *)
HasAddr == {"track", "untrack", "charge", "pointer", "unpin", "trackmapped", "freenative",
            "freemanaged", "unregister"}
HasBuf == {"register", "pointer", "unpin", "undo", "trackmapped", "unregister", "freebuf"}

Request == [pc : Labels, size : Sizes \cup {0}, addr : Addrs \cup {None},
            buf : Bufs \cup {None}, via : Handles \cup {None}, managed : BOOLEAN]

(* What a hook carries at a label                                           *)
WellFormed(r) ==
  /\ r.pc = "idle" => r = NoReq
  /\ r.pc \in Allocating \cup {"freemanaged", "discharge", "unregister"} => r.size \in Sizes
  /\ r.pc \in HasAddr => r.addr \in Addrs
  /\ r.pc \in {"register", "pointer", "unpin", "undo", "trackmapped"} => r.buf \in Bufs
  /\ r.pc \in Allocating \ {"last", "register", "pointer", "unpin", "undo", "trackmapped"} => r.buf = None
  /\ r.pc = "freemanaged" => r.managed
  /\ r.pc = "unregister" => ~r.managed
  /\ r.pc = "alloc" => r.via \in Handles

Typed ==
  /\ mem \in [Addrs -> Kinds] /\ app \subseteq Addrs
  /\ entry \in [Addrs -> Entry \cup {None}]
  /\ uvm \in Int /\ up \in BOOLEAN /\ policy \in Policies
  /\ opened \subseteq Handles /\ handle \in opened \cup {None}
  /\ bufs \in [Bufs -> Handles \cup {None}]
  /\ req \in [Threads -> Request] /\ gone \subseteq Addrs \cup Bufs

Shape ==
  /\ Typed
  /\ \A t \in Threads : WellFormed(req[t])
  /\ ~up => Quiet

Rest(t) == \A u \in Threads : u # t => req'[u] = req[u]
-----------------------------------------------------------------------------
(* The shape of the state                                                   *)

LEMMA SizesAreNat == \A n \in Sizes : n \in Nat /\ n \in Int /\ n > 0
BY ShimAllocAssumption

LEMMA GotoStep ==
  ASSUME Shape, NEW t \in Threads, NEW l \in Labels, Goto(t, l)
  PROVE  /\ req' \in [Threads -> Request] /\ Rest(t) /\ req'[t] \in Request
         /\ req'[t].pc = l /\ req'[t].size = req[t].size /\ req'[t].addr = req[t].addr
         /\ req'[t].buf = req[t].buf /\ req'[t].via = req[t].via /\ req'[t].managed = req[t].managed
<1>1. req[t] \in Request /\ req \in [Threads -> Request]
  BY DEF Shape, Typed
<1>2. \A r \in Request : [r EXCEPT !.pc = l] \in Request
  BY DEF Request
<1>3. req' = [req EXCEPT ![t] = [req[t] EXCEPT !.pc = l]]
  BY DEF Goto
<1>4. req'[t] = [req[t] EXCEPT !.pc = l]
  BY <1>1, <1>3
<1> QED
  BY <1>1, <1>2, <1>3, <1>4 DEF Request, Rest

LEMMA DoneStep ==
  ASSUME Shape, NEW t \in Threads, Done(t)
  PROVE  /\ req' \in [Threads -> Request] /\ Rest(t) /\ req'[t] = NoReq /\ req'[t].pc = "idle"
         /\ req'[t] \in Request
<1>1. NoReq \in Request /\ NoReq.pc = "idle"
  BY DEF NoReq, Request, Labels
<1> QED
  BY <1>1 DEF Shape, Typed, Done, Rest

(* Where an attempt that failed goes on *)
Onward(t) ==
  \/ req'[t] = NoReq /\ req'[t].pc = "idle"
  \/ /\ req'[t].pc \in {"last", "open"} /\ req'[t].size = req[t].size
     /\ req'[t].buf = req[t].buf

LEMMA FallbackStep ==
  ASSUME Shape, NEW t \in Threads, Fallback(t)
  PROVE  /\ req' \in [Threads -> Request] /\ Rest(t) /\ Onward(t) /\ req'[t].pc # "open"
         /\ req'[t] \in Request
<1>1. "last" \in Labels
  BY DEF Labels, Allocating
<1> QED
  BY <1>1, GotoStep, DoneStep DEF Fallback, Onward

LEMMA AfterManagedStep ==
  ASSUME Shape, NEW t \in Threads, AfterManaged(t)
  PROVE  req' \in [Threads -> Request] /\ Rest(t) /\ Onward(t) /\ req'[t] \in Request
<1>1. "open" \in Labels
  BY DEF Labels, Allocating
<1> QED
  BY <1>1, GotoStep, FallbackStep DEF AfterManaged, Onward

(* A hook that is given an address *)
LEMMA GivenStep ==
  ASSUME Shape, NEW t \in Threads, NEW a \in Addrs, NEW kind, NEW l \in Labels, Given(t, a, kind, l)
  PROVE  /\ req' \in [Threads -> Request] /\ Rest(t) /\ req'[t] \in Request
         /\ req'[t].pc = l /\ req'[t].size = req[t].size /\ req'[t].addr = a
         /\ req'[t].buf = req[t].buf
         /\ mem[a] = "free" /\ mem'[a] = kind /\ \A d \in Addrs : d # a => mem'[d] = mem[d]
<1>1. req[t] \in Request /\ req \in [Threads -> Request] /\ mem \in [Addrs -> Kinds]
  BY DEF Shape, Typed
<1>2. \A r \in Request : [r EXCEPT !.addr = a, !.pc = l] \in Request
  BY DEF Request
<1>3. req' = [req EXCEPT ![t] = [req[t] EXCEPT !.addr = a, !.pc = l]]
  BY DEF Given
<1>4. req'[t] = [req[t] EXCEPT !.addr = a, !.pc = l]
  BY <1>1, <1>3
<1> QED
  BY <1>1, <1>2, <1>3, <1>4 DEF Request, Rest, Given

USE DEF Labels, Allocating, HasAddr, HasBuf, At

LEMMA ShapeAlloc ==
  ASSUME Shape, NEW t \in Threads, NEW n \in Sizes, Alloc(t, n)
  PROVE  Shape' /\ Rest(t) /\ req'[t].pc \in {"capable", "native"}
<1>1. /\ req[t] = NoReq /\ up /\ UNCHANGED <<mem, app, entry, uvm, handle, up, policy, opened, bufs, gone>>
      /\ req' = [req EXCEPT ![t] = [NoReq EXCEPT !.size = n,
                              !.pc = IF policy.managedFirst THEN "capable" ELSE "native"]]
  BY DEF Alloc, Shape, WellFormed, cudaVars, shimVars, driverVars
<1>2. \A l \in {"capable", "native"} :
        LET r == [NoReq EXCEPT !.size = n, !.pc = l] IN r \in Request /\ WellFormed(r) /\ r.pc = l
  BY DEF NoReq, Request, WellFormed
<1>3. PICK l \in {"capable", "native"} : req' = [req EXCEPT ![t] = [NoReq EXCEPT !.size = n, !.pc = l]]
  BY <1>1
<1>4. req' \in [Threads -> Request] /\ Rest(t) /\ WellFormed(req'[t]) /\ req'[t].pc = l
  BY <1>2, <1>3 DEF Shape, Typed, Rest
<1> QED
  BY <1>1, <1>4 DEF Shape, Typed, Rest, Entries

(* The steps that reach CUDA or the table for new memory *)
LEMMA ShapeNative ==
  ASSUME Shape, NEW t \in Threads, Native(t) \/ NativeLast(t) \/ Capable(t)
  PROVE  Shape' /\ Rest(t)
<1>0. /\ req[t] \in Request /\ WellFormed(req[t]) /\ mem \in [Addrs -> Kinds] /\ up
  BY DEF Shape, Typed, Quiet, Native, NativeLast, Capable
<1>1. UNCHANGED <<entry, uvm, handle, up, policy, opened, bufs, gone>>
  BY DEF Native, NativeLast, Capable, shimVars, driverVars
<1>2. mem' \in [Addrs -> Kinds] /\ app' \subseteq Addrs
  BY DEF Shape, Typed, Native, NativeLast, Capable, cudaVars, Gives, Kinds
<1>3. \/ Done(t)
      \/ \E l \in {"capable", "managed", "last"} : Goto(t, l) /\ req[t].pc \in {"native", "capable"}
  BY DEF Native, NativeLast, Capable, Gives
<1>4. CASE Done(t)
  <2>1. WellFormed(NoReq)
    BY DEF NoReq, WellFormed
  <2> QED
    BY <1>0, <1>1, <1>2, <1>4, <2>1, DoneStep DEF Shape, Typed, Rest, Entries
<1>5. CASE \E l \in {"capable", "managed", "last"} : Goto(t, l) /\ req[t].pc \in {"native", "capable"}
  <2>1. PICK l \in {"capable", "managed", "last"} : Goto(t, l) /\ req[t].pc \in {"native", "capable"}
    BY <1>5
  <2>2. WellFormed(req'[t]) /\ Rest(t) /\ req' \in [Threads -> Request]
    BY <1>0, <2>1, GotoStep DEF WellFormed
  <2> QED
    BY <1>0, <1>1, <1>2, <2>2 DEF Shape, Typed, Rest, Entries
<1> QED
  BY <1>3, <1>4, <1>5

LEMMA ShapeStep ==
  ASSUME Shape, up, NEW t \in Threads, Rest(t), req' \in [Threads -> Request], WellFormed(req'[t]),
         UNCHANGED <<up, policy>>, mem' \in [Addrs -> Kinds], app' \subseteq Addrs,
         entry' \in [Addrs -> Entry \cup {None}], uvm' \in Int,
         opened' \subseteq Handles, handle' \in opened' \cup {None},
         bufs' \in [Bufs -> Handles \cup {None}], gone' \subseteq Addrs \cup Bufs
  PROVE  Shape' /\ Rest(t)
BY DEF Shape, Typed, Rest

(* An attempt that ends or goes on elsewhere is well formed *)
LEMMA OnwardIsWell ==
  ASSUME Shape, NEW t \in Threads, Onward(t), req'[t] \in Request, req[t].pc \in Allocating,
         req'[t].pc = "open" => req[t].buf = None
  PROVE  WellFormed(req'[t])
BY DEF Onward, NoReq, WellFormed, Shape

LEMMA NoReqIsWell == WellFormed(NoReq)
BY DEF NoReq, WellFormed

LEMMA Working ==
  ASSUME Shape, NEW t \in Threads, ~At(t, "idle")
  PROVE  up /\ req[t] \in Request /\ WellFormed(req[t])
BY DEF Shape, Typed, Quiet

(* Managed memory *)
LEMMA ShapeManaged ==
  ASSUME Shape, NEW t \in Threads, Managed(t) \/ Track(t) \/ Untrack(t) \/ Charge(t)
  PROVE  Shape' /\ Rest(t)
<1>0. /\ up /\ req[t] \in Request /\ WellFormed(req[t]) /\ Typed
      /\ req[t].size \in Sizes /\ req[t].buf = None /\ req[t].pc \in Allocating
      /\ ~At(t, "managed") => req[t].addr \in Addrs
  <2>1. req[t].pc \in {"managed", "track", "untrack", "charge"}
    BY DEF Managed, Track, Untrack, Charge
  <2> QED
    BY <2>1, Working DEF WellFormed, Shape
<1> USE DEF Typed
<1>1. CASE Managed(t)
  <2>1. UNCHANGED <<app, entry, uvm, handle, up, policy, opened, bufs, gone>>
    BY <1>1 DEF Managed, shimVars, driverVars
  <2>2. CASE \E a \in Addrs : Given(t, a, "managed", "track")
    <3>1. PICK a \in Addrs : Given(t, a, "managed", "track")
      BY <2>2
    <3>2. /\ req' \in [Threads -> Request] /\ Rest(t) /\ WellFormed(req'[t])
      BY <1>0, <3>1, GivenStep DEF WellFormed
    <3>3. mem' \in [Addrs -> Kinds]
      BY <1>0, <3>1 DEF Given, Kinds
    <3> QED
      BY <1>0, <2>1, <3>2, <3>3, ShapeStep
  <2>3. CASE (AfterManaged(t) \/ Done(t)) /\ UNCHANGED mem
    <3>1. req' \in [Threads -> Request] /\ Rest(t) /\ WellFormed(req'[t])
      BY <1>0, <2>3, AfterManagedStep, DoneStep, OnwardIsWell, NoReqIsWell
    <3> QED
      BY <1>0, <2>1, <2>3, <3>1, ShapeStep
  <2> QED
    BY <1>1, <2>2, <2>3 DEF Managed
<1>2. CASE Track(t)
  <2>1. UNCHANGED <<mem, app, uvm, handle, up, policy, opened, bufs, gone>> /\ req[t].pc = "track"
    BY <1>2 DEF Track, cudaVars, driverVars
  <2>2. NewEntry(t) \in Entry
    BY <1>0 DEF NewEntry, Entry
  <2>3. entry' \in [Addrs -> Entry \cup {None}]
    BY <1>0, <1>2, <2>2 DEF Track
  <2>4. \E l \in {"charge", "untrack"} : Goto(t, l)
    BY <1>2 DEF Track
  <2>5. req' \in [Threads -> Request] /\ Rest(t) /\ WellFormed(req'[t])
    BY <1>0, <2>1, <2>4, GotoStep DEF WellFormed
  <2> QED
    BY <1>0, <2>1, <2>3, <2>5, ShapeStep
<1>3. CASE Untrack(t)
  <2>1. UNCHANGED <<app, entry, uvm, handle, up, policy, opened, bufs>>
        /\ mem' \in [Addrs -> Kinds] /\ gone' \subseteq Addrs \cup Bufs
    BY <1>0, <1>3 DEF Untrack, ReleaseAddr, shimVars, driverVars, Kinds
  <2>2. req' \in [Threads -> Request] /\ Rest(t) /\ WellFormed(req'[t])
    BY <1>0, <1>3, AfterManagedStep, OnwardIsWell DEF Untrack
  <2> QED
    BY <1>0, <2>1, <2>2, ShapeStep
<1>4. CASE Charge(t)
  <2>1. UNCHANGED <<mem, entry, handle, up, policy, opened, bufs, gone>> /\ app' \subseteq Addrs
        /\ uvm' = uvm + req[t].size
    BY <1>0, <1>4 DEF Charge, driverVars, Gives
  <2>2. uvm' \in Int
    <3>1. req[t].size \in Int /\ uvm \in Int
      BY <1>0, SizesAreNat
    <3> QED
      BY <2>1, <3>1
  <2>3. req' \in [Threads -> Request] /\ Rest(t) /\ WellFormed(req'[t])
    BY <1>0, <1>4, DoneStep, NoReqIsWell DEF Charge, Gives
  <2> QED
    BY <1>0, <2>1, <2>2, <2>3, ShapeStep
<1> QED
  BY <1>1, <1>2, <1>3, <1>4

(* The driver's buffers *)
LEMMA ShapeDriver ==
  ASSUME Shape, NEW t \in Threads,
         OpenDevice(t) \/ CreateFile(t) \/ UseHandle(t) \/ DriverAlloc(t)
           \/ Register(t) \/ GetPointer(t) \/ Unpin(t) \/ Undo(t) \/ TrackMapped(t)
  PROVE  Shape' /\ Rest(t)
<1>0. /\ up /\ req[t] \in Request /\ WellFormed(req[t]) /\ Typed /\ req \in [Threads -> Request]
      /\ req[t].size \in Sizes /\ req[t].pc \in Allocating
  <2>1. req[t].pc \in {"open", "create", "ioctl", "alloc", "register", "pointer", "unpin", "undo", "trackmapped"}
    BY DEF OpenDevice, CreateFile, UseHandle, DriverAlloc, Register, GetPointer, Unpin, Undo, TrackMapped
  <2> QED
    BY <2>1, Working DEF WellFormed, Shape, Typed
<1>1. CASE OpenDevice(t) \/ CreateFile(t)
  <2>1. UNCHANGED <<mem, app, entry, uvm, up, policy, bufs, gone>>
    BY <1>1 DEF OpenDevice, CreateFile, cudaVars, shimVars, driverVars
  <2>2. opened' \subseteq Handles /\ handle' \in opened' \cup {None}
    BY <1>0, <1>1 DEF OpenDevice, CreateFile, shimVars, driverVars, Typed
  <2>3. \E l \in {"create", "ioctl"} : Goto(t, l) /\ req[t].pc \in {"open", "create"}
    BY <1>1 DEF OpenDevice, CreateFile
  <2>4. req' \in [Threads -> Request] /\ Rest(t) /\ WellFormed(req'[t])
    BY <1>0, <2>3, GotoStep DEF WellFormed
  <2> QED
    BY <1>0, <2>1, <2>2, <2>4, ShapeStep DEF Typed
<1>2. CASE UseHandle(t)
  <2>1. UNCHANGED <<mem, app, entry, uvm, handle, up, policy, opened, bufs, gone>> /\ req[t].pc = "ioctl"
    BY <1>2 DEF UseHandle, cudaVars, shimVars, driverVars
  <2>2. req' \in [Threads -> Request] /\ Rest(t) /\ WellFormed(req'[t])
    <3>1. CASE handle = None
      BY <1>0, <1>2, <3>1, FallbackStep, OnwardIsWell DEF UseHandle
    <3>2. CASE handle # None
      <4>1. req' = [req EXCEPT ![t].via = handle, ![t].pc = "alloc"] /\ handle \in Handles
        BY <1>0, <1>2, <3>2 DEF UseHandle, Typed
      <4>2. /\ req'[t] \in Request /\ req'[t].pc = "alloc" /\ req'[t].size = req[t].size
            /\ req'[t].buf = req[t].buf /\ req'[t].via = handle /\ Rest(t)
        BY <1>0, <4>1 DEF Request, Rest
      <4>3. req' \in [Threads -> Request]
        BY <1>0, <4>1, <4>2 DEF Rest
      <4> QED
        BY <1>0, <2>1, <4>1, <4>2, <4>3 DEF WellFormed
    <3> QED
      BY <3>1, <3>2
  <2> QED
    BY <1>0, <2>1, <2>2, ShapeStep DEF Typed
<1>3. CASE DriverAlloc(t)
  <2>1. UNCHANGED <<mem, app, entry, uvm, handle, up, policy, opened, gone>> /\ req[t].pc = "alloc"
    BY <1>3 DEF DriverAlloc, cudaVars, shimVars
  <2>2. CASE Fallback(t) /\ UNCHANGED bufs
    <3>1. req' \in [Threads -> Request] /\ Rest(t) /\ WellFormed(req'[t])
      BY <1>0, <2>2, FallbackStep, OnwardIsWell
    <3> QED
      BY <1>0, <2>1, <2>2, <3>1, ShapeStep DEF Typed
  <2>3. CASE ~(Fallback(t) /\ UNCHANGED bufs)
    <3>1. PICK b \in Bufs : bufs' = [bufs EXCEPT ![b] = req[t].via]
                            /\ req' = [req EXCEPT ![t].buf = b, ![t].pc = "register"]
      BY <1>3, <2>3 DEF DriverAlloc
    <3>2. /\ req'[t] \in Request /\ req'[t].pc = "register" /\ req'[t].size = req[t].size
          /\ req'[t].buf = b /\ Rest(t)
      BY <1>0, <3>1 DEF Request, Rest
    <3>3. req' \in [Threads -> Request] /\ WellFormed(req'[t])
      BY <1>0, <3>1, <3>2 DEF Rest, WellFormed
    <3>4. bufs' \in [Bufs -> Handles \cup {None}]
      BY <1>0, <2>1, <3>1 DEF Typed, WellFormed
    <3> QED
      BY <1>0, <2>1, <3>2, <3>3, <3>4, ShapeStep DEF Typed
  <2> QED
    BY <2>2, <2>3
<1>4. CASE Register(t)
  <2>1. UNCHANGED <<app, entry, uvm, handle, up, policy, opened, bufs, gone>> /\ req[t].pc = "register"
        /\ req[t].buf \in Bufs
    BY <1>0, <1>4 DEF Register, shimVars, driverVars, WellFormed
  <2>2. CASE \E a \in Addrs : Given(t, a, "mapped", "pointer")
    <3>1. PICK a \in Addrs : Given(t, a, "mapped", "pointer")
      BY <2>2
    <3>2. req' \in [Threads -> Request] /\ Rest(t) /\ WellFormed(req'[t])
      BY <1>0, <2>1, <3>1, GivenStep DEF WellFormed
    <3>3. mem' \in [Addrs -> Kinds]
      BY <1>0, <3>1 DEF Given, Kinds, Typed
    <3> QED
      BY <1>0, <2>1, <3>2, <3>3, ShapeStep DEF Typed
  <2>3. CASE Goto(t, "undo") /\ UNCHANGED mem
    <3>1. req' \in [Threads -> Request] /\ Rest(t) /\ WellFormed(req'[t])
      BY <1>0, <2>1, <2>3, GotoStep DEF WellFormed
    <3> QED
      BY <1>0, <2>1, <2>3, <3>1, ShapeStep DEF Typed
  <2> QED
    BY <1>4, <2>2, <2>3 DEF Register
<1>7. CASE GetPointer(t) \/ Unpin(t)
  <2>1. /\ UNCHANGED <<app, entry, uvm, handle, up, policy, opened, bufs>>
        /\ req[t].pc \in {"pointer", "unpin"}
        /\ req[t].buf \in Bufs /\ req[t].addr \in Addrs
    BY <1>0, <1>7 DEF GetPointer, Unpin, cudaVars, shimVars, driverVars, WellFormed
  <2>2. mem' \in [Addrs -> Kinds] /\ gone' \subseteq Addrs \cup Bufs
    BY <1>0, <1>7, <2>1 DEF GetPointer, Unpin, ReleaseAddr, cudaVars, Kinds, Typed
  <2>3. \/ \E l \in {"trackmapped", "unpin"} : Goto(t, l) /\ req[t].pc = "pointer"
        \/ Goto(t, "undo")
    BY <1>7 DEF GetPointer, Unpin
  <2>4. req' \in [Threads -> Request] /\ Rest(t) /\ WellFormed(req'[t])
    BY <1>0, <2>1, <2>3, GotoStep DEF WellFormed
  <2> QED
    BY <1>0, <2>1, <2>2, <2>4, ShapeStep DEF Typed
<1>5. CASE Undo(t)
  <2>1. UNCHANGED <<mem, app, entry, uvm, handle, up, policy, opened>>
        /\ bufs' \in [Bufs -> Handles \cup {None}] /\ gone' \subseteq Addrs \cup Bufs
    BY <1>0, <1>5 DEF Undo, cudaVars, shimVars, FreeDriverBuf, Typed, WellFormed
  <2>2. req' \in [Threads -> Request] /\ Rest(t) /\ WellFormed(req'[t])
    BY <1>0, <1>5, FallbackStep, OnwardIsWell DEF Undo
  <2> QED
    BY <1>0, <2>1, <2>2, ShapeStep DEF Typed
<1>6. CASE TrackMapped(t)
  <2>1. UNCHANGED <<mem, uvm, handle, up, policy, opened, bufs>> /\ req[t].addr \in Addrs
        /\ req[t].buf \in Bufs /\ app' \subseteq Addrs
    BY <1>0, <1>6 DEF TrackMapped, driverVars, Gives, WellFormed, Typed
  <2>2. NewEntry(t) \in Entry
    BY <1>0 DEF NewEntry, Entry, Request
  <2>3. entry' \in [Addrs -> Entry \cup {None}] /\ gone' \subseteq Addrs \cup Bufs
    BY <1>0, <1>6, <2>1, <2>2 DEF TrackMapped, Typed
  <2>4. req' \in [Threads -> Request] /\ Rest(t) /\ WellFormed(req'[t])
    BY <1>0, <1>6, DoneStep, NoReqIsWell DEF TrackMapped, Gives
  <2> QED
    BY <1>0, <2>1, <2>3, <2>4, ShapeStep DEF Typed
<1> QED
  BY <1>1, <1>2, <1>3, <1>4, <1>5, <1>6, <1>7

(* What a free takes out of the table *)
LEMMA FreeStep ==
  ASSUME Shape, NEW t \in Threads, NEW a \in Addrs, Free(t, a)
  PROVE  /\ up /\ req[t] = NoReq /\ req' \in [Threads -> Request] /\ Rest(t) /\ WellFormed(req'[t])
         /\ req'[t].addr = a /\ a \in app /\ app' = app \ {a}
         /\ entry'[a] = None /\ \A d \in Addrs : d # a => entry'[d] = entry[d]
         /\ entry' \in [Addrs -> Entry \cup {None}]
         /\ UNCHANGED <<mem, uvm, handle, up, policy, opened, bufs, gone>>
         /\ \/ entry[a] = None /\ req'[t].pc = "freenative" /\ req'[t].buf = None
            \/ /\ entry[a] # None /\ req'[t].size = entry[a].size /\ req'[t].buf = entry[a].buf
               /\ req'[t].managed = entry[a].managed
               /\ req'[t].pc = IF entry[a].managed THEN "freemanaged" ELSE "unregister"
<1>1. /\ up /\ req[t] = NoReq /\ a \in app /\ app' = app \ {a} /\ entry \in [Addrs -> Entry \cup {None}]
      /\ entry' = [entry EXCEPT ![a] = None]
      /\ UNCHANGED <<mem, uvm, handle, up, policy, opened, bufs, gone>>
      /\ req \in [Threads -> Request]
  BY DEF Free, driverVars, Shape, Typed, WellFormed
<1>2. CASE entry[a] = None
  <2> DEFINE r == [NoReq EXCEPT !.addr = a, !.pc = "freenative"]
  <2>1. req' = [req EXCEPT ![t] = r]
    BY <1>1, <1>2 DEF Free
  <2>2. r \in Request /\ WellFormed(r) /\ r.pc = "freenative" /\ r.addr = a /\ r.buf = None
    BY DEF NoReq, Request, WellFormed
  <2> QED
    BY <1>1, <1>2, <2>1, <2>2 DEF Rest
<1>3. CASE entry[a] # None
  <2>1. entry[a] \in Entry
    BY <1>1, <1>3
  <2>2. PICK e \in Entry : e = entry[a]
    BY <2>1
  <2>3. PICK l \in {"freemanaged", "unregister"} : l = IF e.managed THEN "freemanaged" ELSE "unregister"
    OBVIOUS
  <2> DEFINE r == [NoReq EXCEPT !.addr = a, !.size = e.size, !.buf = e.buf,
                                !.managed = e.managed, !.pc = l]
  <2>4. req' = [req EXCEPT ![t] = r]
    BY <1>1, <1>3, <2>2, <2>3 DEF Free
  <2>5. r \in Request /\ r.pc = l /\ r.addr = a /\ r.size = e.size /\ r.buf = e.buf /\ r.managed = e.managed
    BY <2>2, <2>3 DEF NoReq, Request, Entry
  <2>6. WellFormed(r)
    BY <2>2, <2>3, <2>5 DEF WellFormed, Entry
  <2> HIDE DEF r
  <2> QED
    BY <1>1, <1>3, <2>2, <2>3, <2>4, <2>5, <2>6 DEF Rest
<1> QED
  BY <1>2, <1>3

(* A free that CUDA refuses *)
LEMMA RefusedStep ==
  ASSUME Shape, NEW t \in Threads, Refused(t), req[t].pc \in {"freemanaged", "unregister"}
  PROVE  /\ req' \in [Threads -> Request] /\ Rest(t) /\ req'[t] = NoReq /\ WellFormed(req'[t])
         /\ req[t].addr \in Addrs /\ app' = app \cup {req[t].addr}
         /\ entry' \in [Addrs -> Entry \cup {None}]
         /\ \/ /\ Cardinality(Entries) >= Capacity /\ entry' = entry
               /\ gone' = gone \cup ({req[t].addr, req[t].buf} \ {None})
            \/ /\ entry'[req[t].addr] \in Entry /\ gone' = gone
               /\ entry'[req[t].addr].managed = req[t].managed
               /\ entry'[req[t].addr].size = req[t].size
               /\ entry'[req[t].addr].buf = req[t].buf
               /\ \A d \in Addrs : d # req[t].addr => entry'[d] = entry[d]
<1>1. req[t] \in Request /\ WellFormed(req[t]) /\ entry \in [Addrs -> Entry \cup {None}]
  BY DEF Shape, Typed
<1>2. req[t].addr \in Addrs /\ req[t].size \in Sizes
  BY <1>1 DEF WellFormed
<1>3. [managed |-> req[t].managed, size |-> req[t].size, buf |-> req[t].buf] \in Entry
  BY <1>1, <1>2 DEF Entry, Request
<1>4. req' \in [Threads -> Request] /\ Rest(t) /\ req'[t] = NoReq /\ WellFormed(req'[t])
  BY DoneStep, NoReqIsWell DEF Refused, Gives
<1>5. app' = app \cup {req[t].addr}
  BY DEF Refused, Gives
<1>6. CASE Cardinality(Entries) >= Capacity /\ entry' = entry
           /\ gone' = gone \cup ({req[t].addr, req[t].buf} \ {None})
  BY <1>1, <1>2, <1>4, <1>5, <1>6
<1>7. CASE /\ entry' = [entry EXCEPT ![req[t].addr] =
                       [managed |-> req[t].managed, size |-> req[t].size, buf |-> req[t].buf]]
           /\ gone' = gone
  BY <1>1, <1>2, <1>3, <1>4, <1>5, <1>7
<1> QED
  BY <1>6, <1>7 DEF Refused

LEMMA ShapeFrees ==
  ASSUME Shape, NEW t \in Threads,
         \/ \E a \in Addrs : Free(t, a)
         \/ FreeNative(t) \/ FreeManaged(t) \/ Discharge(t) \/ Unregister(t) \/ FreeBuf(t)
  PROVE  Shape' /\ Rest(t)
<1>1. CASE \E a \in Addrs : Free(t, a)
  <2>1. PICK a \in Addrs : Free(t, a)
    BY <1>1
  <2>2. Typed
    BY DEF Shape
  <2> QED
    BY <2>1, <2>2, FreeStep, ShapeStep DEF Typed
<1>0. /\ ~At(t, "idle") => up /\ req[t] \in Request /\ WellFormed(req[t])
      /\ Typed
  BY Working DEF Shape
<1>2. CASE FreeNative(t)
  <2>1. UNCHANGED <<entry, uvm, handle, up, policy, opened, bufs>> /\ req[t].pc = "freenative"
    BY <1>2 DEF FreeNative, shimVars, driverVars
  <2>2. up /\ req[t].addr \in Addrs
    BY <1>0, <2>1 DEF WellFormed
  <2>3. mem' \in [Addrs -> Kinds] /\ app' \subseteq Addrs /\ gone' \subseteq Addrs \cup Bufs
    BY <1>0, <1>2, <2>2 DEF FreeNative, Gives, Kinds, Typed
  <2>4. req' \in [Threads -> Request] /\ Rest(t) /\ WellFormed(req'[t])
    BY <1>2, DoneStep, NoReqIsWell DEF FreeNative, Gives
  <2> QED
    BY <1>0, <2>1, <2>2, <2>3, <2>4, ShapeStep DEF Typed
<1>3. CASE FreeManaged(t) \/ Unregister(t)
  <2>1. /\ UNCHANGED <<uvm, handle, up, policy, opened, bufs>>
        /\ req[t].pc \in {"freemanaged", "unregister"}
    BY <1>3 DEF FreeManaged, Unregister, driverVars
  <2>2. up /\ req[t].addr \in Addrs
    BY <1>0, <2>1 DEF WellFormed
  <2>3. CASE Refused(t) /\ UNCHANGED mem
    <3>1. app' \subseteq Addrs /\ gone' \subseteq Addrs \cup Bufs
      <4>1. req[t].buf \in Bufs \cup {None}
        BY <1>0, <2>1 DEF Request
      <4> QED
        BY <1>0, <2>1, <2>2, <2>3, <4>1, RefusedStep DEF Typed
    <3> QED
      BY <1>0, <2>1, <2>2, <2>3, <3>1, RefusedStep, ShapeStep DEF Typed
  <2>4. CASE ~(Refused(t) /\ UNCHANGED mem)
    <3>1. /\ mem' = [mem EXCEPT ![req[t].addr] = "free"] /\ UNCHANGED <<app, entry, gone>>
          /\ \E l \in {"discharge", "freebuf"} :
               Goto(t, l) /\ (l = "discharge" => req[t].pc = "freemanaged")
      BY <1>3, <2>1, <2>4 DEF FreeManaged, Unregister
    <3>2. req' \in [Threads -> Request] /\ Rest(t) /\ WellFormed(req'[t])
      BY <1>0, <2>1, <3>1, GotoStep DEF WellFormed
    <3>3. mem' \in [Addrs -> Kinds]
      BY <1>0, <3>1 DEF Typed, Kinds
    <3> QED
      BY <1>0, <2>1, <2>2, <3>1, <3>2, <3>3, ShapeStep DEF Typed
  <2> QED
    BY <2>3, <2>4
<1>4. CASE Discharge(t)
  <2>1. UNCHANGED <<mem, app, entry, handle, up, policy, opened, bufs, gone>> /\ uvm' = uvm - req[t].size
        /\ req[t].pc = "discharge" /\ Done(t)
    BY <1>4 DEF Discharge, cudaVars, driverVars
  <2>2. req[t].size \in Int /\ uvm \in Int /\ up
    BY <1>0, <2>1, SizesAreNat DEF WellFormed, Typed
  <2>3. uvm' \in Int
    BY <2>1, <2>2
  <2> QED
    BY <1>0, <2>1, <2>2, <2>3, DoneStep, NoReqIsWell, ShapeStep DEF Typed
<1>5. CASE FreeBuf(t)
  <2>1. UNCHANGED <<mem, app, entry, uvm, handle, up, policy, opened>> /\ up
        /\ bufs' \in [Bufs -> Handles \cup {None}] /\ Done(t) /\ gone' \subseteq Addrs \cup Bufs
    <3>1. req[t].pc = "freebuf" /\ req[t].buf \in Bufs \cup {None}
      BY <1>0, <1>5 DEF FreeBuf, Request
    <3> QED
      BY <1>0, <1>5, <3>1 DEF FreeBuf, cudaVars, shimVars, FreeDriverBuf, Typed
  <2> QED
    BY <1>0, <2>1, DoneStep, NoReqIsWell, ShapeStep DEF Typed
<1> QED
  BY <1>1, <1>2, <1>3, <1>4, <1>5

LEMMA ShapeCleanup ==
  ASSUME Shape, Cleanup
  PROVE  Shape'
<1>1. /\ mem' \in [Addrs -> Kinds] /\ bufs' \in [Bufs -> Handles \cup {None}]
      /\ opened' \subseteq Handles /\ handle' = None
      /\ UNCHANGED <<app, entry, uvm, policy, req, gone>> /\ up' = FALSE /\ Quiet
  BY DEF Cleanup, Shape, Typed, Kinds
<1> QED
  BY <1>1 DEF Shape, Typed, Quiet

LEMMA ShapeInvariant == Spec => []Shape
<1>1. Init => Shape
  <2> SUFFICES ASSUME Init PROVE Shape
    OBVIOUS
  <2>1. NoReq \in Request /\ WellFormed(NoReq)
    BY DEF NoReq, Request, WellFormed
  <2>2. Typed
    BY <2>1, ShimAllocAssumption DEF Init, Typed, Kinds
  <2> QED
    BY <2>1, <2>2 DEF Init, Shape
<1>2. ASSUME Shape, [Next]_vars PROVE Shape'
  <2>1. CASE UNCHANGED vars
    BY <1>2, <2>1 DEF vars, cudaVars, shimVars, driverVars, Shape, Typed, Quiet
  <2> QED
    BY <1>2, <2>1, ShapeAlloc, ShapeNative, ShapeManaged, ShapeDriver, ShapeFrees, ShapeCleanup
       DEF Next, Hook
<1> QED
  BY <1>1, <1>2, PTL DEF Spec

-----------------------------------------------------------------------------
(* Who owns an address or a buffer                                          *)

(* What a hook has taken is allocated, in nobody else's hands, and tracked  *)
(* only between its insertion and its charge                                *)
Owns(t) ==
  /\ req[t].pc \in HasAddr => req[t].addr \notin app /\ mem[req[t].addr] # "free"
  /\ req[t].pc \in HasAddr \ {"charge"} => req[t].addr \notin Entries
  /\ req[t].pc \in {"track", "untrack", "charge", "freemanaged"} => mem[req[t].addr] = "managed"
  /\ req[t].pc \in {"pointer", "unpin", "trackmapped", "unregister"} => mem[req[t].addr] = "mapped"
  /\ req[t].pc = "charge" => /\ req[t].addr \in Entries /\ entry[req[t].addr].managed
                             /\ entry[req[t].addr].size = req[t].size
  /\ req[t].pc = "freemanaged" => req[t].buf = None
  /\ req[t].pc \in HasBuf => /\ req[t].buf \in Bufs /\ bufs[req[t].buf] # None
                             /\ \A d \in Entries : entry[d].buf # req[t].buf

(* What the application holds is allocated, and an entry describes the      *)
(* memory at its address and the one driver buffer behind it                *)
Sound(a) ==
  /\ a \in app => mem[a] # "free"
  /\ a \in Entries => mem[a] = IF entry[a].managed THEN "managed" ELSE "mapped"
  /\ a \in Entries /\ entry[a].managed => entry[a].buf = None
  /\ a \in Entries /\ ~entry[a].managed =>
       /\ entry[a].buf \in Bufs /\ bufs[entry[a].buf] # None
       /\ \A d \in Entries : d # a => entry[d].buf # entry[a].buf

Apart ==
  \A t, u \in Threads : t # u =>
    /\ req[t].pc \in HasAddr /\ req[u].pc \in HasAddr => req[t].addr # req[u].addr
    /\ req[t].pc \in HasBuf /\ req[u].pc \in HasBuf => req[t].buf # req[u].buf

OwnInv == up =>
  /\ \A t \in Threads : Owns(t)
  /\ \A a \in Addrs : Sound(a)
  /\ Apart

(* A step of a hook about one address and one buffer                        *)
About(t, a, b) ==
  /\ Rest(t)
  /\ \A d \in Addrs : d # a =>
       mem'[d] = mem[d] /\ entry'[d] = entry[d] /\ (d \in app' <=> d \in app)
  /\ \A c \in Bufs : c # b => bufs'[c] = bufs[c]
  /\ req[t].pc \in HasAddr => req[t].addr = a
  /\ req'[t].pc \in HasAddr => req'[t].addr = a
  /\ req'[t].pc \in HasBuf => req'[t].buf = b

OwnedByNobodyElse(t, a, b) ==
  /\ \A u \in Threads : u # t /\ req[u].pc \in HasAddr => req[u].addr # a
  /\ \A u \in Threads : u # t /\ req[u].pc \in HasBuf => req[u].buf # b
  /\ \A d \in Entries : d # a /\ entry[d].buf = b => b = None

LEMMA OwnStep ==
  ASSUME Shape, Shape', OwnInv, up, NEW t \in Threads, NEW a, NEW b,
         About(t, a, b), OwnedByNobodyElse(t, a, b),
         a \in Entries' => entry'[a].buf \in {b, None},
         Owns(t)', a \in Addrs => Sound(a)'
  PROVE  OwnInv'
<1>1. \A u \in Threads : u # t => req'[u] = req[u]
  BY DEF About, Rest
<1>2. \A d \in Addrs : d # a => mem'[d] = mem[d] /\ (d \in app' <=> d \in app)
                                /\ entry'[d] = entry[d] /\ (d \in Entries' <=> d \in Entries)
  BY DEF About, Entries
<1>3. \A c \in Bufs : c # b => bufs'[c] = bufs[c]
  BY DEF About
<1>4. Entries \subseteq Addrs /\ Entries' \subseteq Addrs /\ None \notin Bufs
  BY ShimAllocAssumption DEF Entries
<1>5. ASSUME NEW u \in Threads, u # t PROVE Owns(u)'
  <2>1. Owns(u) /\ WellFormed(req[u])
    BY DEF OwnInv, Shape
  <2>2. CASE req[u].pc \in HasAddr
    <3>1. req[u].addr \in Addrs /\ req[u].addr # a
      BY <1>5, <2>1, <2>2 DEF WellFormed, OwnedByNobodyElse
    <3>2. req[u].pc \in HasBuf => /\ req[u].buf \in Bufs /\ bufs'[req[u].buf] # None
                                  /\ \A d \in Entries' : entry'[d].buf # req[u].buf
      BY <1>2, <1>3, <1>4, <1>5, <2>1 DEF Owns, OwnedByNobodyElse
    <3> QED
      BY <1>1, <1>2, <1>5, <2>1, <3>1, <3>2 DEF Owns
  <2>3. CASE req[u].pc \notin HasAddr
    <3>1. req[u].pc \in HasBuf => /\ req[u].buf \in Bufs /\ bufs'[req[u].buf] # None
                                  /\ \A d \in Entries' : entry'[d].buf # req[u].buf
      BY <1>2, <1>3, <1>4, <1>5, <2>1 DEF Owns, OwnedByNobodyElse
    <3> QED
      BY <1>1, <1>5, <2>3, <3>1 DEF Owns
  <2> QED
    BY <2>2, <2>3
<1>6. ASSUME NEW d \in Addrs PROVE Sound(d)'
  <2>1. CASE d # a
    <3>1. Sound(d)
      BY DEF OwnInv
    <3>2. ASSUME d \in Entries, ~entry[d].managed
          PROVE  /\ entry[d].buf \in Bufs /\ bufs'[entry[d].buf] # None
                 /\ \A x \in Entries' : x # d => entry'[x].buf # entry[d].buf
      <4>1. entry[d].buf \in Bufs /\ entry[d].buf # b /\ bufs[entry[d].buf] # None
        BY <1>4, <2>1, <3>1, <3>2 DEF Sound, OwnedByNobodyElse
      <4> QED
        BY <1>2, <1>3, <1>4, <3>1, <3>2, <4>1 DEF Sound
    <3> QED
      BY <1>2, <2>1, <3>1, <3>2 DEF Sound
  <2> QED
    BY <2>1
<1>7. Apart'
  <2>1. Apart
    BY DEF OwnInv
  <2> QED
    BY <1>1, <2>1 DEF Apart, About, OwnedByNobodyElse
<1> QED
  BY <1>5, <1>6, <1>7 DEF OwnInv

(* A step that takes nothing new *)
LEMMA OwnPlain ==
  ASSUME Shape, Shape', OwnInv, up, NEW t \in Threads, Rest(t),
         UNCHANGED <<mem, app, entry, bufs>>, Owns(t)',
         req'[t].pc \in HasAddr => req[t].pc \in HasAddr /\ req'[t].addr = req[t].addr,
         req'[t].pc \in HasBuf => req[t].pc \in HasBuf /\ req'[t].buf = req[t].buf
  PROVE  OwnInv'
<1>1. ASSUME NEW u \in Threads PROVE Owns(u)'
  <2>1. CASE u # t
    BY <2>1 DEF OwnInv, Owns, Entries, Rest
  <2> QED
    BY <2>1
<1>2. \A a \in Addrs : Sound(a)'
  BY DEF OwnInv, Sound, Entries
<1>3. Apart'
  BY DEF OwnInv, Apart, Rest
<1> QED
  BY <1>1, <1>2, <1>3 DEF OwnInv

(* What is free is in nobody's hands, and what a hook has is in no other's  *)
LEMMA FreshAddr ==
  ASSUME Shape, OwnInv, up, NEW a \in Addrs, mem[a] = "free"
  PROVE  /\ a \notin app /\ a \notin Entries
         /\ \A u \in Threads : req[u].pc \in HasAddr => req[u].addr # a
BY DEF OwnInv, Sound, Owns

LEMMA MyAddr ==
  ASSUME Shape, OwnInv, up, NEW t \in Threads, req[t].pc \in HasAddr
  PROVE  /\ req[t].addr \in Addrs
         /\ \A u \in Threads : u # t /\ req[u].pc \in HasAddr => req[u].addr # req[t].addr
BY DEF OwnInv, Apart, Shape, WellFormed

LEMMA MyBuf ==
  ASSUME Shape, OwnInv, up, NEW t \in Threads, req[t].pc \in HasBuf
  PROVE  /\ req[t].buf \in Bufs /\ \A d \in Entries : entry[d].buf # req[t].buf
         /\ \A u \in Threads : u # t /\ req[u].pc \in HasBuf => req[u].buf # req[t].buf
BY DEF OwnInv, Apart, Owns

LEMMA OwnQuiet ==
  ASSUME Shape, Shape', OwnInv, up, NEW t \in Threads, Rest(t),
         UNCHANGED <<mem, app, entry, bufs>>, req'[t].pc \notin HasAddr \cup HasBuf
  PROVE  OwnInv'
<1>1. Owns(t)'
  BY DEF Owns
<1> QED
  BY <1>1, OwnPlain

LEMMA OnwardOwnsNothing ==
  ASSUME NEW t \in Threads, Onward(t)
  PROVE  req'[t].pc \notin HasAddr \cup HasBuf
BY DEF Onward

(* A step about an address and no buffer *)
LEMMA AddrOnly ==
  ASSUME Shape, OwnInv, up, NEW t \in Threads, NEW a \in Addrs,
         \A u \in Threads : u # t /\ req[u].pc \in HasAddr => req[u].addr # a
  PROVE  OwnedByNobodyElse(t, a, None)
<1>1. None \notin Bufs
  BY ShimAllocAssumption
<1> QED
  BY <1>1, MyBuf DEF OwnedByNobodyElse

LEMMA OwnMoves ==
  ASSUME Shape, Shape', OwnInv, NEW t \in Threads,
         \/ \E n \in Sizes : Alloc(t, n)
         \/ Capable(t) \/ OpenDevice(t) \/ CreateFile(t) \/ UseHandle(t) \/ Discharge(t)
  PROVE  OwnInv'
<1>1. UNCHANGED <<mem, app, entry, bufs>>
  BY DEF Alloc, Capable, OpenDevice, CreateFile, UseHandle, Discharge, cudaVars, shimVars, driverVars
<1>2. up
  BY Working DEF Alloc, Capable, OpenDevice, CreateFile, UseHandle, Discharge
<1>3. Rest(t) /\ req'[t].pc \notin HasAddr \cup HasBuf
  <2>1. CASE \E n \in Sizes : Alloc(t, n)
    BY <2>1, ShapeAlloc
  <2>2. CASE Capable(t) \/ OpenDevice(t) \/ CreateFile(t)
    <3>1. \E l \in {"managed", "last", "create", "ioctl"} : Goto(t, l)
      BY <2>2 DEF Capable, OpenDevice, CreateFile
    <3> QED
      BY <3>1, GotoStep
  <2>3. CASE UseHandle(t)
    <3>1. CASE handle = None
      BY <2>3, <3>1, FallbackStep, OnwardOwnsNothing DEF UseHandle
    <3>2. CASE handle # None
      <4>1. req' = [req EXCEPT ![t].via = handle, ![t].pc = "alloc"]
        BY <2>3, <3>2 DEF UseHandle
      <4>2. req \in [Threads -> Request] /\ req[t] \in Request
        BY DEF Shape, Typed
      <4> QED
        BY <4>1, <4>2 DEF Request, Rest
    <3> QED
      BY <3>1, <3>2
  <2>4. CASE Discharge(t)
    BY <2>4, DoneStep DEF Discharge
  <2> QED
    BY <2>1, <2>2, <2>3, <2>4
<1> QED
  BY <1>1, <1>2, <1>3, OwnQuiet

(* Native memory goes to the application at once *)
LEMMA OwnNative ==
  ASSUME Shape, Shape', OwnInv, NEW t \in Threads, Native(t) \/ NativeLast(t)
  PROVE  OwnInv'
<1>0. up /\ UNCHANGED <<entry, bufs>> /\ mem \in [Addrs -> Kinds] /\ req[t].pc \notin HasAddr
  BY Working DEF Native, NativeLast, shimVars, driverVars, Shape, Typed
<1>1. CASE \E a \in Addrs : mem[a] = "free" /\ mem' = [mem EXCEPT ![a] = "native"] /\ Gives(t, a)
  <2>1. PICK a \in Addrs : mem[a] = "free" /\ mem' = [mem EXCEPT ![a] = "native"] /\ Gives(t, a)
    BY <1>1
  <2>2. Rest(t) /\ req'[t] = NoReq /\ req'[t].pc = "idle" /\ app' = app \cup {a}
    BY <2>1, DoneStep DEF Gives
  <2>3. mem'[a] = "native" /\ \A d \in Addrs : d # a => mem'[d] = mem[d]
    BY <1>0, <2>1
  <2>4. About(t, a, None)
    BY <1>0, <2>2, <2>3 DEF About
  <2>5. OwnedByNobodyElse(t, a, None) /\ a \notin Entries
    BY <1>0, <2>1, FreshAddr, AddrOnly
  <2>6. Owns(t)' /\ Sound(a)' /\ a \notin Entries'
    BY <1>0, <2>2, <2>3, <2>5 DEF Owns, Sound, Entries
  <2> QED
    BY <1>0, <2>4, <2>5, <2>6, OwnStep
<1>2. CASE ~\E a \in Addrs : mem[a] = "free" /\ mem' = [mem EXCEPT ![a] = "native"] /\ Gives(t, a)
  <2>1. UNCHANGED <<mem, app>> /\ (Done(t) \/ Goto(t, "capable"))
    BY <1>2 DEF Native, NativeLast, cudaVars
  <2>2. Rest(t) /\ req'[t].pc \in {"idle", "capable"}
    BY <2>1, DoneStep, GotoStep
  <2> QED
    BY <1>0, <2>1, <2>2, OwnQuiet
<1> QED
  BY <1>1, <1>2

LEMMA OwnManaged ==
  ASSUME Shape, Shape', OwnInv, NEW t \in Threads, Managed(t) \/ Track(t) \/ Untrack(t) \/ Charge(t)
  PROVE  OwnInv'
<1>0. up /\ req[t] \in Request /\ WellFormed(req[t]) /\ Owns(t) /\ Typed /\ None \notin Bufs
  BY Working, ShimAllocAssumption DEF Managed, Track, Untrack, Charge, OwnInv, Shape
<1> USE DEF Typed
<1>1. CASE Managed(t)
  <2>0. UNCHANGED <<app, entry, bufs>> /\ req[t].pc = "managed"
    BY <1>1 DEF Managed, shimVars, driverVars
  <2>1. CASE \E a \in Addrs : Given(t, a, "managed", "track")
    <3>1. PICK a \in Addrs : Given(t, a, "managed", "track")
      BY <2>1
    <3>2. /\ Rest(t) /\ req'[t].pc = "track" /\ req'[t].addr = a
          /\ mem[a] = "free" /\ mem'[a] = "managed" /\ \A d \in Addrs : d # a => mem'[d] = mem[d]
      BY <3>1, GivenStep
    <3>3. /\ a \notin app /\ a \notin Entries
          /\ \A u \in Threads : req[u].pc \in HasAddr => req[u].addr # a
      BY <1>0, <3>2, FreshAddr
    <3>4. About(t, a, None) /\ OwnedByNobodyElse(t, a, None)
      BY <1>0, <2>0, <3>2, <3>3, AddrOnly DEF About
    <3>5. Owns(t)' /\ Sound(a)' /\ a \notin Entries'
      BY <2>0, <3>2, <3>3 DEF Owns, Sound, Entries
    <3> QED
      BY <1>0, <3>4, <3>5, OwnStep
  <2>2. CASE (AfterManaged(t) \/ Done(t)) /\ UNCHANGED mem
    <3>1. Rest(t) /\ req'[t].pc \notin HasAddr \cup HasBuf
      BY <2>2, AfterManagedStep, DoneStep, OnwardOwnsNothing
    <3> QED
      BY <1>0, <2>0, <2>2, <3>1, OwnQuiet
  <2> QED
    BY <1>1, <2>1, <2>2 DEF Managed
<1>b. PICK a : a = req[t].addr
  OBVIOUS
<1>c. ~At(t, "managed") => /\ a \in Addrs /\ OwnedByNobodyElse(t, a, None)
                           /\ mem[a] = "managed" /\ a \notin app
  <2>1. req[t].pc \in {"managed", "track", "untrack", "charge"}
    BY DEF Managed, Track, Untrack, Charge
  <2> QED
    BY <1>0, <1>b, <2>1, MyAddr, AddrOnly DEF Owns
<1>2. CASE Track(t)
  <2>0. UNCHANGED <<mem, app, bufs>> /\ req[t].pc = "track" /\ req[t].buf = None
    BY <1>0, <1>2 DEF Track, cudaVars, driverVars, WellFormed
  <2>1. CASE ~Full /\ entry' = [entry EXCEPT ![a] = NewEntry(t)] /\ Goto(t, "charge")
    <3>1. /\ Rest(t) /\ req'[t].pc = "charge" /\ req'[t].addr = a /\ req'[t].size = req[t].size
      BY <1>b, <2>1, GotoStep
    <3>2. /\ entry'[a].managed /\ entry'[a].buf = None /\ entry'[a].size = req[t].size
          /\ entry'[a] # None /\ \A d \in Addrs : d # a => entry'[d] = entry[d]
      <4>1. NewEntry(t) \in Entry
        BY <1>0, <2>0 DEF NewEntry, Entry, WellFormed
      <4> QED
        BY <1>0, <1>b, <1>c, <2>0, <2>1, <4>1, ShimAllocAssumption DEF NewEntry
    <3>3. About(t, a, None)
      BY <1>b, <2>0, <3>1, <3>2 DEF About
    <3>4. Owns(t)' /\ Sound(a)' /\ a \in Entries'
      BY <1>c, <2>0, <3>1, <3>2 DEF Owns, Sound, Entries
    <3> QED
      BY <1>0, <1>c, <2>0, <3>2, <3>3, <3>4, OwnStep
  <2>2. CASE Goto(t, "untrack") /\ UNCHANGED entry
    <3>1. Rest(t) /\ req'[t].pc = "untrack" /\ req'[t].addr = req[t].addr
      BY <2>2, GotoStep
    <3>2. Owns(t)'
      BY <1>0, <2>0, <2>2, <3>1 DEF Owns, Entries
    <3> QED
      BY <1>0, <2>0, <2>2, <3>1, <3>2, OwnPlain
  <2> QED
    BY <1>2, <1>b, <2>1, <2>2 DEF Track
<1>3. CASE Untrack(t)
  <2>0. /\ UNCHANGED <<app, entry, bufs>> /\ req[t].pc = "untrack"
        /\ mem' = [mem EXCEPT ![a] = "free"] \/ mem' = mem
    BY <1>3, <1>b DEF Untrack, ReleaseAddr, shimVars, driverVars
  <2>1. Rest(t) /\ req'[t].pc \notin HasAddr \cup HasBuf
    BY <1>3, AfterManagedStep, OnwardOwnsNothing DEF Untrack
  <2>2. a \notin Entries /\ a \notin app /\ \A d \in Addrs : d # a => mem'[d] = mem[d]
    BY <1>0, <1>b, <1>c, <2>0 DEF Owns
  <2>3. About(t, a, None) /\ Owns(t)' /\ Sound(a)' /\ a \notin Entries'
    BY <1>b, <2>0, <2>1, <2>2 DEF About, Owns, Sound, Entries
  <2> QED
    BY <1>0, <1>c, <2>0, <2>3, OwnStep
<1>4. CASE Charge(t)
  <2>0. UNCHANGED <<mem, entry, bufs>> /\ req[t].pc = "charge" /\ app' = app \cup {a}
    BY <1>4, <1>b DEF Charge, driverVars, Gives
  <2>1. Rest(t) /\ req'[t].pc \notin HasAddr \cup HasBuf
    BY <1>4, DoneStep DEF Charge, Gives
  <2>2. a \in Entries /\ entry[a].managed /\ entry[a].buf = None
    BY <1>0, <1>b, <1>c, <2>0 DEF Owns, OwnInv, Sound
  <2>3. About(t, a, None) /\ Owns(t)' /\ Sound(a)'
    BY <1>b, <1>c, <2>0, <2>1, <2>2 DEF About, Owns, Sound, Entries
  <2> QED
    BY <1>0, <1>c, <2>0, <2>2, <2>3, OwnStep
<1> QED
  BY <1>1, <1>2, <1>3, <1>4

LEMMA OwnDriver ==
  ASSUME Shape, Shape', OwnInv, NEW t \in Threads,
         \/ DriverAlloc(t) \/ Register(t) \/ GetPointer(t) \/ Unpin(t) \/ Undo(t)
         \/ TrackMapped(t) \/ FreeBuf(t)
  PROVE  OwnInv'
<1>0. up /\ req[t] \in Request /\ WellFormed(req[t]) /\ Owns(t) /\ Typed /\ None \notin Bufs \cup Addrs \cup Handles
  BY Working, ShimAllocAssumption
     DEF DriverAlloc, Register, GetPointer, Unpin, Undo, TrackMapped, FreeBuf, OwnInv, Shape
<1> USE DEF Typed
<1>b. PICK b : b = req[t].buf
  OBVIOUS
<1>1. CASE DriverAlloc(t)
  <2>0. UNCHANGED <<mem, app, entry>> /\ req[t].pc = "alloc"
    BY <1>1 DEF DriverAlloc, cudaVars, shimVars
  <2>1. CASE Fallback(t) /\ UNCHANGED bufs
    BY <1>0, <2>0, <2>1, FallbackStep, OnwardOwnsNothing, OwnQuiet
  <2>2. CASE ~(Fallback(t) /\ UNCHANGED bufs)
    <3>1. PICK c \in Bufs : /\ bufs[c] = None /\ bufs' = [bufs EXCEPT ![c] = req[t].via]
                            /\ req' = [req EXCEPT ![t].buf = c, ![t].pc = "register"]
      BY <1>1, <2>2 DEF DriverAlloc
    <3>2. /\ req'[t].pc = "register" /\ req'[t].buf = c /\ Rest(t)
          /\ bufs'[c] # None /\ \A x \in Bufs : x # c => bufs'[x] = bufs[x]
      BY <1>0, <2>0, <3>1 DEF Request, Rest, WellFormed
    <3>3. OwnedByNobodyElse(t, None, c) /\ \A d \in Entries : entry[d].buf # c
      <4>1. \A u \in Threads : req[u].pc \in HasBuf => req[u].buf # c
        BY <1>0, <3>1 DEF OwnInv, Owns
      <4>2. \A d \in Entries : entry[d].buf # c
        BY <1>0, <3>1 DEF OwnInv, Sound, Entries
      <4>3. \A u \in Threads : req[u].pc \in HasAddr => req[u].addr # None
        BY <1>0, MyAddr
      <4> QED
        BY <4>1, <4>2, <4>3 DEF OwnedByNobodyElse
    <3>4. About(t, None, c) /\ Owns(t)' /\ None \notin Entries'
      BY <1>0, <2>0, <3>2, <3>3 DEF About, Owns, Entries
    <3> QED
      BY <1>0, <3>3, <3>4, OwnStep
  <2> QED
    BY <2>1, <2>2
<1>c. CASE Undo(t) \/ FreeBuf(t)
  <2>0. /\ UNCHANGED <<mem, app, entry>> /\ req[t].pc \in HasBuf \ HasAddr
        /\ bufs' = [bufs EXCEPT ![b] = None] \/ bufs' = bufs
    BY <1>b, <1>c DEF Undo, FreeBuf, FreeDriverBuf, cudaVars, shimVars
  <2>1. Rest(t) /\ req'[t].pc \notin HasAddr \cup HasBuf
    BY <1>c, FallbackStep, DoneStep, OnwardOwnsNothing DEF Undo, FreeBuf
  <2>2. \A c \in Bufs : c # b => bufs'[c] = bufs[c]
    BY <1>0, <2>0
  <2>3. About(t, None, b) /\ Owns(t)' /\ None \notin Entries'
    BY <1>0, <2>0, <2>1, <2>2 DEF About, Owns, Entries
  <2>4. OwnedByNobodyElse(t, None, b)
    BY <1>0, <1>b, <2>0, MyBuf, MyAddr DEF OwnedByNobodyElse
  <2> QED
    BY <1>0, <2>3, <2>4, OwnStep
<1>2. CASE Register(t)
  <2>0. UNCHANGED <<app, entry, bufs>> /\ req[t].pc = "register"
    BY <1>2 DEF Register, shimVars, driverVars
  <2>1. CASE \E a \in Addrs : Given(t, a, "mapped", "pointer")
    <3>1. PICK a \in Addrs : Given(t, a, "mapped", "pointer")
      BY <2>1
    <3>2. /\ Rest(t) /\ req'[t].pc = "pointer" /\ req'[t].addr = a /\ req'[t].buf = b
          /\ mem[a] = "free" /\ mem'[a] = "mapped" /\ \A d \in Addrs : d # a => mem'[d] = mem[d]
      BY <1>b, <3>1, GivenStep
    <3>3. /\ a \notin app /\ a \notin Entries
          /\ \A u \in Threads : req[u].pc \in HasAddr => req[u].addr # a
      BY <1>0, <3>2, FreshAddr
    <3>4. /\ About(t, a, b)
          /\ b \in Bufs /\ bufs[b] # None /\ \A d \in Entries : entry[d].buf # b
          /\ \A u \in Threads : u # t /\ req[u].pc \in HasBuf => req[u].buf # b
      BY <1>0, <1>b, <2>0, <3>2, MyBuf DEF About, Owns
    <3>5. OwnedByNobodyElse(t, a, b)
      BY <3>3, <3>4 DEF OwnedByNobodyElse
    <3>6. Owns(t)' /\ Sound(a)' /\ a \notin Entries'
      BY <1>b, <2>0, <3>2, <3>3, <3>4 DEF Owns, Sound, Entries
    <3> QED
      BY <1>0, <3>4, <3>5, <3>6, OwnStep
  <2>2. CASE Goto(t, "undo") /\ UNCHANGED mem
    <3>1. Rest(t) /\ req'[t].pc = "undo" /\ req'[t].buf = req[t].buf
      BY <2>2, GotoStep
    <3>2. Owns(t)'
      BY <1>0, <2>0, <2>2, <3>1 DEF Owns, Entries
    <3> QED
      BY <1>0, <2>0, <2>2, <3>1, <3>2, OwnPlain
  <2> QED
    BY <1>2, <2>1, <2>2 DEF Register
<1>4. CASE GetPointer(t)
  <2>0. UNCHANGED <<mem, app, entry, bufs>> /\ req[t].pc = "pointer"
        /\ \E l \in {"trackmapped", "unpin"} : Goto(t, l)
    BY <1>4 DEF GetPointer, cudaVars, shimVars, driverVars
  <2>1. /\ Rest(t) /\ req'[t].pc \in {"trackmapped", "unpin"} /\ req'[t].addr = req[t].addr
        /\ req'[t].buf = req[t].buf
    BY <2>0, GotoStep
  <2>2. Owns(t)'
    BY <1>0, <2>0, <2>1 DEF Owns, Entries
  <2> QED
    BY <1>0, <2>0, <2>1, <2>2, OwnPlain
<1>5. CASE Unpin(t)
  <2>a. PICK a : a = req[t].addr
    OBVIOUS
  <2>0. /\ UNCHANGED <<app, entry, bufs>> /\ req[t].pc = "unpin" /\ Goto(t, "undo")
        /\ mem' = [mem EXCEPT ![a] = "free"] \/ mem' = mem
    BY <1>5, <2>a DEF Unpin, ReleaseAddr, shimVars, driverVars
  <2>1. a \in Addrs /\ a \notin app /\ a \notin Entries
    BY <1>0, <2>a, <2>0 DEF WellFormed, Owns
  <2>2. Rest(t) /\ req'[t].pc = "undo" /\ req'[t].buf = b
    BY <1>b, <2>0, GotoStep
  <2>3. \A d \in Addrs : d # a => mem'[d] = mem[d]
    BY <1>0, <2>0
  <2>4. About(t, a, b) /\ Sound(a)' /\ a \notin Entries'
    BY <1>b, <2>a, <2>0, <2>1, <2>2, <2>3 DEF About, Sound, Entries
  <2>5. OwnedByNobodyElse(t, a, b) /\ Owns(t)'
    <3>1. /\ b \in Bufs /\ bufs[b] # None /\ \A d \in Entries : entry[d].buf # b
          /\ \A u \in Threads : u # t /\ req[u].pc \in HasBuf => req[u].buf # b
      BY <1>0, <1>b, <2>0, MyBuf DEF Owns
    <3>2. \A u \in Threads : u # t /\ req[u].pc \in HasAddr => req[u].addr # a
      BY <1>0, <2>a, <2>0, MyAddr
    <3> QED
      BY <2>0, <2>2, <3>1, <3>2 DEF OwnedByNobodyElse, Owns, Entries
  <2> QED
    BY <1>0, <2>4, <2>5, OwnStep
<1>3. CASE TrackMapped(t)
  <2>a. PICK a : a = req[t].addr
    OBVIOUS
  <2>0. UNCHANGED <<mem, bufs>> /\ req[t].pc = "trackmapped" /\ app' = app \cup {a} /\ a \in Addrs
        /\ mem[a] = "mapped" /\ a \notin Entries
    BY <1>0, <1>3, <2>a DEF TrackMapped, driverVars, Gives, WellFormed, Owns
  <2>1. Rest(t) /\ req'[t].pc \notin HasAddr \cup HasBuf
    BY <1>3, DoneStep DEF TrackMapped, Gives
  <2>2. /\ OwnedByNobodyElse(t, a, b) /\ b \in Bufs /\ bufs[b] # None
        /\ \A d \in Entries : entry[d].buf # b
    BY <1>0, <1>b, <2>a, <2>0, MyAddr, MyBuf DEF OwnedByNobodyElse, Owns
  <2>3. CASE ~Full /\ entry' = [entry EXCEPT ![a] = NewEntry(t)]
    <3>1. /\ ~entry'[a].managed /\ entry'[a].buf = b /\ entry'[a] # None
          /\ \A d \in Addrs : d # a => entry'[d] = entry[d]
      <4>1. NewEntry(t) \in Entry
        BY <1>0, <2>0 DEF NewEntry, Entry, WellFormed, Request
      <4> QED
        BY <1>0, <1>b, <2>a, <2>0, <2>3, <4>1, ShimAllocAssumption DEF NewEntry
    <3>2. About(t, a, b)
      BY <2>a, <2>0, <2>1, <2>3, <3>1 DEF About
    <3>3. \A d \in Entries' : d # a => d \in Entries /\ entry'[d] = entry[d]
      BY <3>1 DEF Entries
    <3>4. Owns(t)' /\ Sound(a)'
      BY <2>0, <2>1, <2>2, <2>3, <3>1, <3>3 DEF Owns, Sound
    <3> QED
      BY <1>0, <2>2, <3>1, <3>2, <3>4, OwnStep
  <2>4. CASE UNCHANGED entry
    <3>1. About(t, a, b)
      BY <2>a, <2>0, <2>1, <2>4 DEF About
    <3>2. Owns(t)' /\ Sound(a)' /\ a \notin Entries'
      BY <2>0, <2>1, <2>4 DEF Owns, Sound, Entries
    <3> QED
      BY <1>0, <2>2, <3>1, <3>2, OwnStep
  <2> QED
    BY <1>3, <2>a, <2>3, <2>4 DEF TrackMapped
<1> QED
  BY <1>1, <1>c, <1>2, <1>3, <1>4, <1>5

LEMMA OwnFrees ==
  ASSUME Shape, Shape', OwnInv, NEW t \in Threads,
         (\E a \in Addrs : Free(t, a)) \/ FreeNative(t)
  PROVE  OwnInv'
<1>0. up /\ Typed /\ None \notin Bufs
  BY Working, FreeStep, ShimAllocAssumption DEF FreeNative, Shape
<1>1. CASE \E a \in Addrs : Free(t, a)
  <2>1. PICK a \in Addrs : Free(t, a)
    BY <1>1
  <2>2. /\ req[t].pc = "idle" /\ Rest(t) /\ req'[t].addr = a /\ a \in app /\ app' = app \ {a}
        /\ entry'[a] = None /\ \A d \in Addrs : d # a => entry'[d] = entry[d]
        /\ UNCHANGED <<mem, bufs>> /\ mem[a] # "free"
    <3>1. a \in app => mem[a] # "free"
      BY <1>0, <2>1 DEF OwnInv, Sound
    <3>2. NoReq.pc = "idle"
      BY DEF NoReq
    <3> QED
      BY <2>1, <3>1, <3>2, FreeStep
  <2>3. \A u \in Threads : u # t /\ req[u].pc \in HasAddr => req[u].addr # a
    BY <1>0, <2>2 DEF OwnInv, Owns
  <2>4. a \notin Entries' /\ Sound(a)' /\ \A d \in Entries' : d # a /\ d \in Entries /\ entry'[d] = entry[d]
    BY <2>2 DEF Sound, Entries
  <2>5. CASE entry[a] = None
    <3>1. req'[t].pc = "freenative"
      BY <2>1, <2>5, FreeStep
    <3>2. About(t, a, None) /\ Owns(t)'
      BY <2>2, <2>4, <3>1 DEF About, Owns
    <3> QED
      BY <1>0, <2>3, <2>4, <3>2, AddrOnly, OwnStep
  <2>6. CASE entry[a] # None /\ entry[a].managed
    <3>1. req'[t].pc = "freemanaged" /\ req'[t].buf = None /\ mem[a] = "managed"
      <4>1. a \in Entries /\ Sound(a)
        BY <1>0, <2>1, <2>6 DEF OwnInv, Entries
      <4>2. entry[a].buf = None /\ mem[a] = "managed"
        BY <2>6, <4>1 DEF Sound
      <4> QED
        BY <2>1, <2>6, <4>2, FreeStep
    <3>2. About(t, a, None) /\ Owns(t)'
      BY <2>2, <2>4, <3>1 DEF About, Owns
    <3> QED
      BY <1>0, <2>3, <2>4, <3>2, AddrOnly, OwnStep
  <2>7. CASE entry[a] # None /\ ~entry[a].managed
    <3>1. PICK b : b = entry[a].buf
      OBVIOUS
    <3>2. req'[t].pc = "unregister" /\ req'[t].buf = b
      BY <2>1, <2>7, <3>1, FreeStep
    <3>3. /\ mem[a] = "mapped" /\ b \in Bufs /\ bufs[b] # None
          /\ \A d \in Entries : d # a => entry[d].buf # b
      BY <1>0, <2>7, <3>1 DEF OwnInv, Sound, Entries
    <3>4. a \in Entries
      BY <2>7 DEF Entries
    <3>5. OwnedByNobodyElse(t, a, b)
      BY <1>0, <2>3, <3>1, <3>3, <3>4, MyBuf DEF OwnedByNobodyElse
    <3>6. About(t, a, b) /\ Owns(t)'
      BY <2>2, <2>4, <3>2, <3>3 DEF About, Owns
    <3> QED
      BY <1>0, <2>4, <3>5, <3>6, OwnStep
  <2> QED
    BY <2>5, <2>6, <2>7
<1>2. CASE FreeNative(t)
  <2>a. PICK a : a = req[t].addr
    OBVIOUS
  <2>0. UNCHANGED <<entry, bufs>> /\ req[t].pc = "freenative"
    BY <1>2 DEF FreeNative, shimVars, driverVars
  <2>1. /\ a \in Addrs /\ a \notin Entries /\ a \notin app /\ mem[a] # "free"
        /\ \A u \in Threads : u # t /\ req[u].pc \in HasAddr => req[u].addr # a
    BY <1>0, <2>a, <2>0, MyAddr DEF OwnInv, Owns
  <2>2. Rest(t) /\ req'[t].pc \notin HasAddr \cup HasBuf
    BY <1>2, DoneStep DEF FreeNative, Gives
  <2>3. \/ mem' = [mem EXCEPT ![a] = "free"] /\ UNCHANGED app
        \/ app' = app \cup {a} /\ UNCHANGED mem
    BY <1>2, <2>a DEF FreeNative, Gives
  <2>4. \A d \in Addrs : d # a => mem'[d] = mem[d] /\ (d \in app' <=> d \in app)
    BY <1>0, <2>1, <2>3 DEF Typed
  <2>5. About(t, a, None) /\ Owns(t)' /\ a \notin Entries' /\ Sound(a)'
    BY <1>0, <2>a, <2>0, <2>1, <2>2, <2>3, <2>4 DEF About, Owns, Sound, Entries, Typed
  <2> QED
    BY <1>0, <2>1, <2>5, AddrOnly, OwnStep
<1> QED
  BY <1>1, <1>2

LEMMA OwnRefusals ==
  ASSUME Shape, Shape', OwnInv, NEW t \in Threads, FreeManaged(t) \/ Unregister(t)
  PROVE  OwnInv'
<1>0. up /\ Typed /\ WellFormed(req[t]) /\ Owns(t) /\ None \notin Bufs \cup Entry
  BY Working, ShimAllocAssumption DEF FreeManaged, Unregister, Shape, OwnInv
<1>1. req[t].pc \in {"freemanaged", "unregister"} /\ UNCHANGED bufs
  BY DEF FreeManaged, Unregister, driverVars
<1>2. PICK a, b : a = req[t].addr /\ b = req[t].buf
  OBVIOUS
<1>3. /\ a \in Addrs /\ a \notin app /\ a \notin Entries /\ mem[a] # "free"
      /\ \A u \in Threads : u # t /\ req[u].pc \in HasAddr => req[u].addr # a
  BY <1>0, <1>1, <1>2, MyAddr DEF Owns
<1>4. OwnedByNobodyElse(t, a, b)
  <2>1. CASE req[t].pc = "freemanaged"
    BY <1>0, <1>2, <1>3, <2>1, AddrOnly DEF Owns
  <2>2. CASE req[t].pc = "unregister"
    BY <1>0, <1>2, <1>3, <2>2, MyBuf DEF OwnedByNobodyElse
  <2> QED
    BY <1>1, <2>1, <2>2
<1>5. CASE Refused(t) /\ UNCHANGED mem
  <2>1. /\ Rest(t) /\ req'[t].pc = "idle" /\ app' = app \cup {a}
        /\ \/ entry' = entry
           \/ /\ entry'[a] \in Entry /\ entry'[a].managed = req[t].managed /\ entry'[a].buf = b
              /\ \A d \in Addrs : d # a => entry'[d] = entry[d]
    BY <1>1, <1>2, <1>5, RefusedStep DEF NoReq
  <2>2. About(t, a, b)
    BY <1>1, <1>2, <1>5, <2>1 DEF About
  <2>3. \A d \in Entries' : d # a => d \in Entries /\ entry'[d] = entry[d]
    BY <2>1 DEF Entries
  <2>4. a \in Entries' => entry'[a].buf = b /\ entry'[a].managed = req[t].managed
    BY <1>3, <2>1 DEF Entries
  <2>5. CASE req[t].pc = "freemanaged"
    <3>1. req[t].managed /\ b = None /\ mem'[a] = "managed"
      BY <1>0, <1>2, <1>5, <2>5 DEF WellFormed, Owns
    <3>2. Owns(t)' /\ Sound(a)'
      BY <2>1, <2>4, <3>1 DEF Owns, Sound
    <3> QED
      BY <1>0, <1>4, <2>2, <2>4, <3>2, OwnStep
  <2>6. CASE req[t].pc = "unregister"
    <3>1. ~req[t].managed /\ b \in Bufs /\ bufs'[b] # None /\ mem'[a] = "mapped"
          /\ \A d \in Entries : entry[d].buf # b
      BY <1>0, <1>1, <1>2, <1>5, <2>6 DEF WellFormed, Owns
    <3>2. Owns(t)' /\ Sound(a)'
      BY <2>1, <2>3, <2>4, <3>1 DEF Owns, Sound
    <3> QED
      BY <1>0, <1>4, <2>2, <2>4, <3>2, OwnStep
  <2> QED
    BY <1>1, <2>5, <2>6
<1>6. CASE ~(Refused(t) /\ UNCHANGED mem)
  <2>1. /\ mem' = [mem EXCEPT ![a] = "free"] /\ UNCHANGED <<app, entry>>
        /\ \/ req[t].pc = "freemanaged" /\ Goto(t, "discharge")
           \/ req[t].pc = "unregister" /\ Goto(t, "freebuf")
    BY <1>1, <1>2, <1>6 DEF FreeManaged, Unregister
  <2>2. /\ Rest(t) /\ req'[t].buf = b
        /\ \/ req[t].pc = "freemanaged" /\ req'[t].pc = "discharge"
           \/ req[t].pc = "unregister" /\ req'[t].pc = "freebuf"
    BY <1>2, <2>1, GotoStep
  <2>3. \A d \in Addrs : d # a => mem'[d] = mem[d]
    BY <1>0, <2>1 DEF Typed
  <2>4. About(t, a, b) /\ Owns(t)' /\ Sound(a)' /\ a \notin Entries'
    BY <1>0, <1>1, <1>2, <1>3, <2>1, <2>2, <2>3 DEF About, Owns, Sound, Entries
  <2> QED
    BY <1>0, <1>4, <2>4, OwnStep
<1> QED
  BY <1>5, <1>6

LEMMA OwnInvariant == Spec => []OwnInv
<1>1. Init => OwnInv
  BY DEF Init, OwnInv, Owns, Sound, Apart, Entries, NoReq
<1>2. ASSUME Shape, Shape', OwnInv, [Next]_vars PROVE OwnInv'
  <2>1. CASE Cleanup
    BY <2>1 DEF Cleanup, OwnInv
  <2>2. CASE UNCHANGED vars
    BY <1>2, <2>2 DEF vars, cudaVars, shimVars, driverVars, OwnInv, Owns, Sound, Apart, Entries
  <2> QED
    BY <1>2, <2>1, <2>2, OwnMoves, OwnNative, OwnManaged, OwnDriver, OwnFrees, OwnRefusals
       DEF Next, Hook
<1> QED
  BY <1>1, <1>2, ShapeInvariant, PTL DEF Spec

(* An entry describes the memory that is at its address now, not an earlier *)
(* allocation there, whatever two threads, CUDA and a full table do between *)
(* the removal of an entry and its free                                     *)
(* (greenboost_cuda_shim_win.c:557-567).                                    *)
THEOREM EntriesStayCurrent == Spec => []EntriesAreCurrent
<1>1. OwnInv => EntriesAreCurrent
  BY DEF OwnInv, Sound, EntriesAreCurrent, Entries
<1> QED
  BY <1>1, OwnInvariant, PTL

-----------------------------------------------------------------------------
(* What a step changes                                                      *)

Plain == {"idle", "native", "last", "capable", "managed", "open", "create", "ioctl", "alloc"}

(* The steps of a hook, but for the call of a free: the labels before and   *)
(* after, and the variables that change                                     *)
Moves(t, from, to) == Rest(t) /\ req[t].pc \in from /\ req'[t].pc \in to
Keeps(t) == req'[t].addr = req[t].addr /\ req'[t].size = req[t].size /\ req'[t].buf = req[t].buf

Idles(t) == Moves(t, Plain, Plain) /\ UNCHANGED <<mem, app, entry, uvm, bufs, gone>>

TakesNative(t) ==
  /\ Moves(t, Plain, Plain) /\ UNCHANGED <<entry, uvm, bufs, gone>>
  /\ \E a \in Addrs : mem[a] = "free" /\ mem' = [mem EXCEPT ![a] = "native"] /\ app' = app \cup {a}

TakesManaged(t) ==
  /\ Moves(t, Plain, {"track"}) /\ UNCHANGED <<app, entry, uvm, bufs, gone>>
  /\ mem[req'[t].addr] = "free" /\ mem' = [mem EXCEPT ![req'[t].addr] = "managed"]
  /\ req'[t].addr \in Addrs

Tracks(t) ==
  /\ Moves(t, {"track"}, {"charge"}) /\ Keeps(t) /\ UNCHANGED <<mem, app, uvm, bufs, gone>>
  /\ ~Full /\ entry' = [entry EXCEPT ![req[t].addr] = NewEntry(t)]

NotTracked(t) ==
  Moves(t, {"track"}, {"untrack"}) /\ Keeps(t) /\ UNCHANGED <<mem, app, entry, uvm, bufs, gone>>

Untracks(t) ==
  /\ Moves(t, {"untrack"}, Plain) /\ UNCHANGED <<app, entry, uvm, bufs>>
  /\ ReleaseAddr(t)

Charges(t) ==
  /\ Moves(t, {"charge"}, Plain) /\ UNCHANGED <<mem, entry, bufs, gone>>
  /\ app' = app \cup {req[t].addr} /\ uvm' = uvm + req[t].size

TakesBuffer(t) ==
  /\ Moves(t, {"alloc"}, {"register"}) /\ UNCHANGED <<mem, app, entry, uvm, gone>>
  /\ req'[t].buf \in Bufs /\ bufs[req'[t].buf] = None
  /\ bufs' = [bufs EXCEPT ![req'[t].buf] = req[t].via]

Maps(t) ==
  /\ Moves(t, {"register"}, {"pointer"}) /\ UNCHANGED <<app, entry, uvm, bufs, gone>>
  /\ mem[req'[t].addr] = "free" /\ mem' = [mem EXCEPT ![req'[t].addr] = "mapped"]
  /\ req'[t].addr \in Addrs /\ req'[t].buf = req[t].buf

NotMapped(t) ==
  Moves(t, {"register"}, {"undo"}) /\ Keeps(t) /\ UNCHANGED <<mem, app, entry, uvm, bufs, gone>>

Points(t) ==
  /\ Moves(t, {"pointer"}, {"trackmapped", "unpin"}) /\ Keeps(t)
  /\ UNCHANGED <<mem, app, entry, uvm, bufs, gone>>

Unpins(t) ==
  Moves(t, {"unpin"}, {"undo"}) /\ Keeps(t) /\ UNCHANGED <<app, entry, uvm, bufs>> /\ ReleaseAddr(t)

GivesBack(t) ==
  /\ Moves(t, {"undo", "freebuf"}, Plain) /\ UNCHANGED <<mem, app, entry, uvm>>
  /\ FreeDriverBuf(req[t].buf)

TracksMapped(t) ==
  /\ Moves(t, {"trackmapped"}, Plain) /\ UNCHANGED <<mem, uvm, bufs, gone>>
  /\ app' = app \cup {req[t].addr}
  /\ ~Full /\ entry' = [entry EXCEPT ![req[t].addr] = NewEntry(t)]

Leaks(t) ==
  /\ Moves(t, {"trackmapped"}, Plain) /\ UNCHANGED <<mem, entry, uvm, bufs>>
  /\ app' = app \cup {req[t].addr} /\ gone' = gone \cup {req[t].addr, req[t].buf}

FreesNative(t) ==
  /\ Moves(t, {"freenative"}, Plain) /\ UNCHANGED <<app, entry, uvm, bufs>>
  /\ mem[req[t].addr] \in {"native", "managed"} /\ mem' = [mem EXCEPT ![req[t].addr] = "free"]
  /\ gone' = gone \ {req[t].addr}

KeepsNative(t) ==
  /\ Moves(t, {"freenative"}, Plain) /\ UNCHANGED <<mem, entry, uvm, bufs, gone>>
  /\ app' = app \cup {req[t].addr}

FreesOwn(t) ==
  /\ \/ Moves(t, {"freemanaged"}, {"discharge"})
     \/ Moves(t, {"unregister"}, {"freebuf"})
  /\ Keeps(t) /\ UNCHANGED <<app, entry, uvm, bufs, gone>>
  /\ mem' = [mem EXCEPT ![req[t].addr] = "free"]

IsRefused(t) ==
  Moves(t, {"freemanaged", "unregister"}, Plain) /\ Refused(t) /\ UNCHANGED <<mem, uvm, bufs>>

Discharges(t) ==
  /\ Moves(t, {"discharge"}, Plain) /\ UNCHANGED <<mem, app, entry, bufs, gone>>
  /\ uvm' = uvm - req[t].size

StepKinds(t) ==
  \/ Idles(t) \/ TakesNative(t) \/ TakesManaged(t) \/ Tracks(t) \/ NotTracked(t) \/ Untracks(t)
  \/ Charges(t) \/ TakesBuffer(t) \/ Maps(t) \/ NotMapped(t) \/ Points(t) \/ Unpins(t)
  \/ GivesBack(t) \/ TracksMapped(t)
  \/ Leaks(t) \/ FreesNative(t) \/ KeepsNative(t) \/ FreesOwn(t) \/ IsRefused(t) \/ Discharges(t)

USE DEF Plain

LEMMA OnwardIsPlain ==
  ASSUME NEW t \in Threads, Onward(t)
  PROVE  req'[t].pc \in Plain
BY DEF Onward

LEMMA HookKinds ==
  ASSUME Shape, NEW t \in Threads, Hook(t) \/ \E n \in Sizes : Alloc(t, n)
  PROVE  StepKinds(t)
<1> USE DEF Moves, Keeps
<1>0. req[t] \in Request /\ req \in [Threads -> Request]
  BY DEF Shape, Typed
<1>1. CASE (\E n \in Sizes : Alloc(t, n)) \/ Capable(t) \/ OpenDevice(t) \/ CreateFile(t)
  <2>1. UNCHANGED <<mem, app, entry, uvm, bufs, gone>> /\ req[t].pc \in Plain
    BY <1>1 DEF Alloc, Capable, OpenDevice, CreateFile, cudaVars, shimVars, driverVars
  <2>2. \/ \E n \in Sizes : Alloc(t, n)
        \/ \E l \in {"managed", "last", "create", "ioctl"} : Goto(t, l)
    BY <1>1 DEF Capable, OpenDevice, CreateFile
  <2>3. Rest(t) /\ req'[t].pc \in Plain
    BY <2>2, ShapeAlloc, GotoStep
  <2> QED
    BY <2>1, <2>3 DEF Idles, StepKinds
<1>2. CASE Native(t) \/ NativeLast(t)
  <2>1. UNCHANGED <<entry, uvm, bufs, gone>> /\ req[t].pc \in Plain
    BY <1>2 DEF Native, NativeLast, shimVars, driverVars
  <2>2. CASE \E a \in Addrs : mem[a] = "free" /\ mem' = [mem EXCEPT ![a] = "native"] /\ Gives(t, a)
    BY <2>1, <2>2, DoneStep DEF Gives, TakesNative, StepKinds
  <2>3. CASE UNCHANGED <<mem, app>> /\ (Done(t) \/ Goto(t, "capable"))
    BY <2>1, <2>3, DoneStep, GotoStep DEF Idles, StepKinds
  <2> QED
    BY <1>2, <2>2, <2>3 DEF Native, NativeLast, cudaVars
<1>3. CASE Managed(t)
  <2>1. UNCHANGED <<app, entry, uvm, bufs, gone>> /\ req[t].pc \in Plain
    BY <1>3 DEF Managed, shimVars, driverVars
  <2>2. CASE \E a \in Addrs : Given(t, a, "managed", "track")
    <3>1. PICK a \in Addrs : Given(t, a, "managed", "track")
      BY <2>2
    <3>2. Rest(t) /\ req'[t].pc = "track" /\ req'[t].addr = a
      BY <3>1, GivenStep
    <3> QED
      BY <2>1, <3>1, <3>2 DEF Given, TakesManaged, StepKinds
  <2>3. CASE UNCHANGED mem /\ (Done(t) \/ AfterManaged(t))
    BY <2>1, <2>3, DoneStep, AfterManagedStep, OnwardIsPlain DEF Idles, StepKinds
  <2> QED
    BY <1>3, <2>2, <2>3 DEF Managed
<1>4. CASE Track(t)
  <2>1. UNCHANGED <<mem, app, uvm, bufs, gone>> /\ req[t].pc = "track"
    BY <1>4 DEF Track, cudaVars, driverVars
  <2>2. CASE ~Full /\ entry' = [entry EXCEPT ![req[t].addr] = NewEntry(t)] /\ Goto(t, "charge")
    BY <2>1, <2>2, GotoStep DEF Tracks, StepKinds
  <2>3. CASE Goto(t, "untrack") /\ UNCHANGED entry
    BY <2>1, <2>3, GotoStep DEF NotTracked, StepKinds
  <2> QED
    BY <1>4, <2>2, <2>3 DEF Track
<1>5. CASE Untrack(t)
  <2>1. Rest(t) /\ req'[t].pc \in Plain
    BY <1>5, AfterManagedStep, OnwardIsPlain DEF Untrack
  <2> QED
    BY <1>5, <2>1 DEF Untrack, shimVars, driverVars, Untracks, StepKinds
<1>6. CASE Charge(t)
  <2>1. Rest(t) /\ req'[t].pc \in Plain
    BY <1>6, DoneStep DEF Charge, Gives
  <2> QED
    BY <1>6, <2>1 DEF Charge, Gives, driverVars, Charges, StepKinds
<1>7. CASE UseHandle(t)
  <2>1. Rest(t) /\ req'[t].pc \in Plain
    <3>1. CASE handle = None
      BY <1>7, <3>1, FallbackStep, OnwardIsPlain DEF UseHandle
    <3>2. CASE handle # None
      <4>1. req' = [req EXCEPT ![t].via = handle, ![t].pc = "alloc"]
        BY <1>7, <3>2 DEF UseHandle
      <4> QED
        BY <1>0, <4>1 DEF Request, Rest
    <3> QED
      BY <3>1, <3>2
  <2> QED
    BY <1>7, <2>1 DEF UseHandle, cudaVars, shimVars, driverVars, Idles, StepKinds
<1>8. CASE DriverAlloc(t)
  <2>1. UNCHANGED <<mem, app, entry, uvm, gone>> /\ req[t].pc = "alloc"
    BY <1>8 DEF DriverAlloc, cudaVars, shimVars
  <2>2. CASE Fallback(t) /\ UNCHANGED bufs
    BY <2>1, <2>2, FallbackStep, OnwardIsPlain DEF Idles, StepKinds
  <2>3. CASE ~(Fallback(t) /\ UNCHANGED bufs)
    <3>1. PICK b \in Bufs : /\ bufs[b] = None /\ bufs' = [bufs EXCEPT ![b] = req[t].via]
                            /\ req' = [req EXCEPT ![t].buf = b, ![t].pc = "register"]
      BY <1>8, <2>3 DEF DriverAlloc
    <3>2. req'[t].pc = "register" /\ req'[t].buf = b /\ Rest(t)
      BY <1>0, <3>1 DEF Request, Rest
    <3> QED
      BY <2>1, <3>1, <3>2 DEF TakesBuffer, StepKinds
  <2> QED
    BY <2>2, <2>3
<1>9. CASE Register(t)
  <2>1. UNCHANGED <<app, entry, uvm, bufs, gone>> /\ req[t].pc = "register"
    BY <1>9 DEF Register, shimVars, driverVars
  <2>2. CASE \E a \in Addrs : Given(t, a, "mapped", "pointer")
    <3>1. PICK a \in Addrs : Given(t, a, "mapped", "pointer")
      BY <2>2
    <3>2. Rest(t) /\ req'[t].pc = "pointer" /\ req'[t].addr = a /\ req'[t].buf = req[t].buf
      BY <3>1, GivenStep
    <3> QED
      BY <2>1, <3>1, <3>2 DEF Given, Maps, StepKinds
  <2>3. CASE Goto(t, "undo") /\ UNCHANGED mem
    BY <2>1, <2>3, GotoStep DEF NotMapped, StepKinds
  <2> QED
    BY <1>9, <2>2, <2>3 DEF Register
<1>15. CASE GetPointer(t)
  <2>1. UNCHANGED <<mem, app, entry, uvm, bufs, gone>> /\ req[t].pc = "pointer"
        /\ \E l \in {"trackmapped", "unpin"} : Goto(t, l)
    BY <1>15 DEF GetPointer, cudaVars, shimVars, driverVars
  <2> QED
    BY <2>1, GotoStep DEF Points, StepKinds
<1>16. CASE Unpin(t)
  <2>1. UNCHANGED <<app, entry, uvm, bufs>> /\ req[t].pc = "unpin" /\ Goto(t, "undo") /\ ReleaseAddr(t)
    BY <1>16 DEF Unpin, shimVars, driverVars
  <2> QED
    BY <2>1, GotoStep DEF Unpins, StepKinds
<1>10. CASE Undo(t) \/ FreeBuf(t)
  <2>1. Rest(t) /\ req'[t].pc \in Plain
    BY <1>10, FallbackStep, DoneStep, OnwardIsPlain DEF Undo, FreeBuf
  <2> QED
    BY <1>10, <2>1 DEF Undo, FreeBuf, cudaVars, shimVars, GivesBack, StepKinds
<1>11. CASE TrackMapped(t)
  <2>1. Rest(t) /\ req'[t].pc \in Plain
    BY <1>11, DoneStep DEF TrackMapped, Gives
  <2> QED
    BY <1>11, <2>1 DEF TrackMapped, Gives, driverVars, TracksMapped, Leaks, StepKinds
<1>12. CASE FreeNative(t)
  <2>1. Rest(t) /\ req'[t].pc \in Plain
    BY <1>12, DoneStep DEF FreeNative, Gives
  <2> QED
    BY <1>12, <2>1 DEF FreeNative, Gives, shimVars, driverVars, FreesNative, KeepsNative, StepKinds
<1>13. CASE FreeManaged(t) \/ Unregister(t)
  <2>1. UNCHANGED <<uvm, bufs>> /\ req[t].pc \in {"freemanaged", "unregister"}
    BY <1>13 DEF FreeManaged, Unregister, driverVars
  <2>2. CASE Refused(t) /\ UNCHANGED mem
    <3>1. Rest(t) /\ req'[t].pc \in Plain
      BY <2>2, DoneStep DEF Refused, Gives
    <3> QED
      BY <2>1, <2>2, <3>1 DEF IsRefused, StepKinds
  <2>3. CASE ~(Refused(t) /\ UNCHANGED mem)
    <3>1. /\ mem' = [mem EXCEPT ![req[t].addr] = "free"] /\ UNCHANGED <<app, entry, gone>>
          /\ \/ req[t].pc = "freemanaged" /\ Goto(t, "discharge")
             \/ req[t].pc = "unregister" /\ Goto(t, "freebuf")
      BY <1>13, <2>3 DEF FreeManaged, Unregister
    <3> QED
      BY <2>1, <3>1, GotoStep DEF FreesOwn, StepKinds
  <2> QED
    BY <2>2, <2>3
<1>14. CASE Discharge(t)
  <2>1. Rest(t) /\ req'[t].pc \in Plain
    BY <1>14, DoneStep DEF Discharge
  <2> QED
    BY <1>14, <2>1 DEF Discharge, cudaVars, driverVars, Discharges, StepKinds
<1> QED
  BY <1>1, <1>2, <1>3, <1>4, <1>5, <1>6, <1>7, <1>8, <1>9, <1>10, <1>11, <1>12, <1>13, <1>14, <1>15, <1>16 DEF Hook

-----------------------------------------------------------------------------
(* The slots that frees keep                                                *)

(* A slot whose entry a free took out is not given to another insertion:    *)
(* ShimAlloc_refused shows what happens otherwise                           *)
SlotsKept == ~SlotsRace

SlotInv == Cardinality(Entries) + Cardinality(Freeing) <= Capacity

LEMMA FiniteTables ==
  ASSUME Shape
  PROVE  /\ IsFiniteSet(Entries) /\ IsFiniteSet(Freeing)
         /\ Cardinality(Entries) \in Nat /\ Cardinality(Freeing) \in Nat /\ Capacity \in Nat
<1>1. Entries \subseteq Addrs /\ Freeing \subseteq Threads
  BY DEF Entries, Freeing
<1> QED
  BY <1>1, ShimAllocAssumption, FS_Subset, FS_CardinalityType

LEMMA FreeingSame ==
  ASSUME NEW t \in Threads, Rest(t),
         req[t].pc \in {"freemanaged", "unregister"} <=> req'[t].pc \in {"freemanaged", "unregister"}
  PROVE  Freeing' = Freeing
BY DEF Freeing, Rest

LEMMA FreeingDone ==
  ASSUME NEW t \in Threads, Rest(t),
         req[t].pc \in {"freemanaged", "unregister"}, req'[t].pc \notin {"freemanaged", "unregister"}
  PROVE  Freeing' = Freeing \ {t} /\ t \in Freeing
BY DEF Freeing, Rest

LEMMA AddOne ==
  ASSUME NEW S, IsFiniteSet(S), NEW x
  PROVE  /\ IsFiniteSet(S \cup {x}) /\ Cardinality(S \cup {x}) \in Nat
         /\ Cardinality(S \cup {x}) <= Cardinality(S) + 1
<1>1. /\ IsFiniteSet(S \cup {x}) /\ Cardinality(S) \in Nat
      /\ Cardinality(S \cup {x}) = IF x \in S THEN Cardinality(S) ELSE Cardinality(S) + 1
  BY FS_AddElement, FS_CardinalityType
<1> QED
  BY <1>1

(* Hooks run while the shim is loaded *)
LEMMA HookIsUp ==
  ASSUME Shape, NEW t \in Threads, Hook(t) \/ \E n \in Sizes : Alloc(t, n)
  PROVE  up
<1>1. CASE \E n \in Sizes : Alloc(t, n)
  BY <1>1 DEF Alloc
<1>2. CASE Hook(t)
  <2>1. ~At(t, "idle")
    BY <1>2 DEF Hook, Native, NativeLast, Capable, Managed, Track, Untrack, Charge, OpenDevice,
                CreateFile, UseHandle, DriverAlloc, Register, GetPointer, Unpin, Undo, TrackMapped,
                FreeNative, FreeManaged, Discharge, Unregister, FreeBuf
  <2> QED
    BY <2>1, Working
<1> QED
  BY <1>1, <1>2

LEMMA SlotStep ==
  ASSUME Shape, OwnInv, SlotInv, SlotsKept, NEW t \in Threads, StepKinds(t), up
  PROVE  SlotInv'
<1> USE DEF Moves, Keeps
<1>1. CASE \/ Idles(t) \/ TakesNative(t) \/ TakesManaged(t) \/ NotTracked(t) \/ Untracks(t)
           \/ Charges(t) \/ TakesBuffer(t) \/ Maps(t) \/ NotMapped(t) \/ Points(t) \/ Unpins(t)
           \/ GivesBack(t) \/ Leaks(t) \/ FreesNative(t) \/ KeepsNative(t) \/ Discharges(t)
  <2>1. Freeing' = Freeing
    BY <1>1, FreeingSame
       DEF Idles, TakesNative, TakesManaged, NotTracked, Untracks, Charges, TakesBuffer, Maps,
           NotMapped, Points, Unpins, GivesBack, Leaks, FreesNative, KeepsNative, Discharges
  <2>2. Entries' = Entries
    BY <1>1
       DEF Idles, TakesNative, TakesManaged, NotTracked, Untracks, Charges, TakesBuffer, Maps,
           NotMapped, Points, Unpins, GivesBack, Leaks, FreesNative, KeepsNative, Discharges, Entries
  <2> QED
    BY <2>1, <2>2 DEF SlotInv
<1>2. CASE Tracks(t) \/ TracksMapped(t)
  <2>1. Freeing' = Freeing
    BY <1>2, FreeingSame DEF Tracks, TracksMapped
  <2>2. Cardinality(Entries) + Cardinality(Freeing) < Capacity
    BY <1>2, FiniteTables DEF Tracks, TracksMapped, Full, SlotsKept
  <2>3. req[t].addr \in Addrs /\ req[t].addr \notin Entries
    BY <1>2, MyAddr DEF Tracks, TracksMapped, OwnInv, Owns
  <2>4. entry' = [entry EXCEPT ![req[t].addr] = NewEntry(t)] /\ NewEntry(t) # None
    <3>1. req[t] \in Request /\ WellFormed(req[t])
      BY DEF Shape, Typed
    <3>2. NewEntry(t) \in Entry
      BY <1>2, <3>1 DEF Tracks, TracksMapped, NewEntry, Entry, Request, WellFormed
    <3> QED
      BY <1>2, <3>2, ShimAllocAssumption DEF Tracks, TracksMapped
  <2>5. Entries' = Entries \cup {req[t].addr}
    BY <2>3, <2>4 DEF Entries, Shape, Typed
  <2>6. Cardinality(Entries') = Cardinality(Entries) + 1
    BY <2>3, <2>5, FiniteTables, FS_AddElement
  <2> QED
    BY <2>1, <2>2, <2>6, FiniteTables DEF SlotInv
<1>3. CASE FreesOwn(t)
  <2>1. Freeing' = Freeing \ {t} /\ t \in Freeing /\ Entries' = Entries
    BY <1>3, FreeingDone DEF FreesOwn, Entries
  <2>2. Cardinality(Freeing') = Cardinality(Freeing) - 1
    BY <2>1, FiniteTables, FS_RemoveElement
  <2> QED
    BY <2>1, <2>2, FiniteTables DEF SlotInv
<1>4. CASE IsRefused(t)
  <2>1. Freeing' = Freeing \ {t} /\ t \in Freeing
    BY <1>4, FreeingDone DEF IsRefused
  <2>2. Cardinality(Freeing') = Cardinality(Freeing) - 1
    BY <2>1, FiniteTables, FS_RemoveElement
  <2>3. /\ req[t].addr \in Addrs
        /\ \/ entry' = entry
           \/ entry'[req[t].addr] \in Entry /\ \A d \in Addrs : d # req[t].addr => entry'[d] = entry[d]
    BY <1>4, RefusedStep DEF IsRefused
  <2>4. Entries' = Entries \/ Entries' = Entries \cup {req[t].addr}
    BY <2>3, ShimAllocAssumption DEF Entries
  <2>5. Cardinality(Entries') <= Cardinality(Entries) + 1 /\ Cardinality(Entries') \in Nat
    <3>1. CASE Entries' = Entries
      BY <3>1, FiniteTables
    <3>2. CASE Entries' = Entries \cup {req[t].addr}
      BY <3>2, FiniteTables, AddOne
    <3> QED
      BY <2>4, <3>1, <3>2
  <2> QED
    BY <2>2, <2>5, FiniteTables DEF SlotInv
<1> QED
  BY <1>1, <1>2, <1>3, <1>4 DEF StepKinds

LEMMA SlotFree ==
  ASSUME Shape, SlotInv, NEW t \in Threads, NEW a \in Addrs, Free(t, a)
  PROVE  SlotInv'
<1>1. /\ req[t] = NoReq /\ Rest(t) /\ entry'[a] = None /\ \A d \in Addrs : d # a => entry'[d] = entry[d]
      /\ entry[a] = None => req'[t].pc = "freenative"
  BY FreeStep
<1>2. req[t].pc = "idle"
  BY <1>1 DEF NoReq
<1>3. Entries' = Entries \ {a}
  BY <1>1 DEF Entries
<1>4. CASE entry[a] = None
  <2>1. Freeing' = Freeing /\ Entries' = Entries
    BY <1>1, <1>2, <1>3, <1>4, FreeingSame DEF Entries
  <2> QED
    BY <2>1 DEF SlotInv
<1>5. CASE entry[a] # None
  <2>1. a \in Entries
    BY <1>5 DEF Entries
  <2>2. Cardinality(Entries') = Cardinality(Entries) - 1
    BY <1>3, <2>1, FiniteTables, FS_RemoveElement
  <2>3. Freeing' \subseteq Freeing \cup {t}
    BY <1>1 DEF Freeing, Rest
  <2>4. /\ IsFiniteSet(Freeing \cup {t})
        /\ Cardinality(Freeing \cup {t}) <= Cardinality(Freeing) + 1
        /\ Cardinality(Freeing \cup {t}) \in Nat
    BY FiniteTables, AddOne
  <2>5. Cardinality(Freeing') <= Cardinality(Freeing \cup {t}) /\ Cardinality(Freeing') \in Nat
    BY <2>3, <2>4, FS_Subset, FS_CardinalityType
  <2> QED
    BY <2>2, <2>4, <2>5, FiniteTables DEF SlotInv
<1> QED
  BY <1>4, <1>5

LEMMA SlotInvariant ==
  ASSUME SlotsKept
  PROVE  Spec => []SlotInv
<1>1. Init => SlotInv
  <2> SUFFICES ASSUME Init PROVE SlotInv
    OBVIOUS
  <2>1. Entries = {} /\ Freeing = {}
    BY DEF Init, Entries, Freeing, NoReq
  <2> QED
    BY <2>1, FS_EmptySet, ShimAllocAssumption DEF SlotInv
<1>2. ASSUME Shape, OwnInv, SlotInv, [Next]_vars, SlotsKept PROVE SlotInv'
  <2>1. CASE Cleanup \/ UNCHANGED vars
    <3>1. Entries' = Entries /\ Freeing' = Freeing
      BY <2>1 DEF Cleanup, vars, cudaVars, shimVars, driverVars, Entries, Freeing
    <3> QED
      BY <1>2, <3>1 DEF SlotInv
  <2>2. CASE \E t \in Threads : Hook(t) \/ \E n \in Sizes : Alloc(t, n)
    <3>1. PICK t \in Threads : Hook(t) \/ \E n \in Sizes : Alloc(t, n)
      BY <2>2
    <3>2. up
      BY <1>2, <3>1, HookIsUp
    <3> QED
      BY <1>2, <3>1, <3>2, HookKinds, SlotStep
  <2> QED
    BY <1>2, <2>1, <2>2, SlotFree DEF Next
<1> QED
  BY <1>1, <1>2, ShapeInvariant, OwnInvariant, PTL DEF Spec

-----------------------------------------------------------------------------
(* What has been charged                                                    *)

(* The pages of what the members of a set have, one element for each         *)
Extent(H, B) == UNION {{b} \X (1 .. H[b].size) : b \in B}

LEMMA AddExtent ==
  ASSUME NEW H, NEW B, NEW b, b \notin B, H[b].size \in Nat, IsFiniteSet(Extent(H, B))
  PROVE  /\ IsFiniteSet(Extent(H, B \cup {b}))
         /\ Cardinality(Extent(H, B \cup {b})) = Cardinality(Extent(H, B)) + H[b].size
<1>1. PICK n \in Nat : n = H[b].size
  OBVIOUS
<1>2. IsFiniteSet(1 .. n) /\ Cardinality(1 .. n) = n
  BY FS_Interval
<1>3. IsFiniteSet({b}) /\ Cardinality({b}) = 1
  BY FS_Singleton
<1>4. IsFiniteSet({b} \X (1 .. n)) /\ Cardinality({b} \X (1 .. n)) = Cardinality({b}) * Cardinality(1 .. n)
  BY <1>2, <1>3, FS_Product
<1>5. PICK mine : mine = {b} \X (1 .. n)
  OBVIOUS
<1>6. IsFiniteSet(mine) /\ Cardinality(mine) = n
  BY <1>2, <1>3, <1>4, <1>5
<1>7. PICK old : old = Extent(H, B)
  OBVIOUS
<1>8. Extent(H, B \cup {b}) = old \cup mine
  BY <1>1, <1>5, <1>7 DEF Extent
<1>9. old \cap mine = {}
  BY <1>5, <1>7 DEF Extent
<1>10. Cardinality(old \cap mine) = 0 /\ Cardinality(old) \in Nat
  BY <1>7, <1>9, FS_EmptySet, FS_CardinalityType
<1>11. /\ IsFiniteSet(old \cup mine)
       /\ Cardinality(old \cup mine) = Cardinality(old) + Cardinality(mine) - Cardinality(old \cap mine)
  BY <1>6, <1>7, FS_Union
<1>12. Cardinality(old \cup mine) = Cardinality(old) + n
  BY <1>6, <1>10, <1>11
<1> QED
  BY <1>1, <1>7, <1>8, <1>11, <1>12

LEMMA PartOfExtent ==
  ASSUME NEW H, NEW B, IsFiniteSet(Extent(H, B)), NEW A \in SUBSET B
  PROVE  IsFiniteSet(Extent(H, A)) /\ Cardinality(Extent(H, A)) \in Nat
<1>1. Extent(H, A) \subseteq Extent(H, B)
  BY DEF Extent
<1> QED
  BY <1>1, FS_Subset, FS_CardinalityType

LEMMA RemoveExtent ==
  ASSUME NEW H, NEW B, NEW b \in B, H[b].size \in Nat, IsFiniteSet(Extent(H, B))
  PROVE  Cardinality(Extent(H, B \ {b})) = Cardinality(Extent(H, B)) - H[b].size
<1>1. IsFiniteSet(Extent(H, B \ {b})) /\ Cardinality(Extent(H, B \ {b})) \in Nat
  BY PartOfExtent
<1>2. (B \ {b}) \cup {b} = B
  OBVIOUS
<1>3. Cardinality(Extent(H, B)) = Cardinality(Extent(H, B \ {b})) + H[b].size
  BY <1>1, <1>2, AddExtent
<1> QED
  BY <1>1, <1>3

LEMMA SameExtent ==
  ASSUME NEW G, NEW H, NEW B, \A b \in B : G[b].size = H[b].size
  PROVE  Extent(G, B) = Extent(H, B)
BY DEF Extent

LEMMA NoExtent ==
  ASSUME NEW H
  PROVE  IsFiniteSet(Extent(H, {})) /\ Cardinality(Extent(H, {})) = 0
<1>1. Extent(H, {}) = {}
  BY DEF Extent
<1> QED
  BY <1>1, FS_EmptySet

(* Managed memory is charged after it is tracked, and discharged after it   *)
(* is freed                                                                 *)
Charged == {a \in Entries : /\ entry[a].managed
                            /\ \A t \in Threads : req[t].pc = "charge" => req[t].addr # a}
Paying == {t \in Threads : req[t].pc \in {"freemanaged", "discharge"}}

UvmInv == up =>
  /\ IsFiniteSet(Extent(entry, Charged)) /\ IsFiniteSet(Extent(req, Paying))
  /\ uvm = Cardinality(Extent(entry, Charged)) + Cardinality(Extent(req, Paying))

LEMMA UvmSame ==
  ASSUME UvmInv, up, Charged' = Charged, Paying' = Paying, UNCHANGED uvm,
         \A a \in Charged : entry'[a].size = entry[a].size,
         \A t \in Paying : req'[t].size = req[t].size
  PROVE  UvmInv'
<1>1. /\ Extent(entry', Charged) = Extent(entry, Charged)
      /\ Extent(req', Paying) = Extent(req, Paying)
  BY SameExtent
<1> QED
  BY <1>1 DEF UvmInv

(* The threads at the labels that count *)
LEMMA PayingSame ==
  ASSUME NEW t \in Threads, Rest(t),
         \/ req[t].pc \notin {"freemanaged", "discharge"} /\ req'[t].pc \notin {"freemanaged", "discharge"}
         \/ /\ req[t].pc \in {"freemanaged", "discharge"} /\ req'[t].pc \in {"freemanaged", "discharge"}
            /\ req'[t].size = req[t].size
  PROVE  Paying' = Paying /\ \A u \in Paying : req'[u].size = req[u].size
BY DEF Paying, Rest

LEMMA ChargedSame ==
  ASSUME NEW t \in Threads, Rest(t), UNCHANGED entry, req[t].pc # "charge", req'[t].pc # "charge"
  PROVE  Charged' = Charged /\ \A a \in Charged : entry'[a].size = entry[a].size
BY DEF Charged, Rest, Entries

(* A table slot is kept for every free under way *)
LEMMA SlotLeft ==
  ASSUME Shape, SlotInv, NEW t \in Freeing
  PROVE  ~(Cardinality(Entries) >= Capacity)
<1>1. Cardinality(Freeing \ {t}) = Cardinality(Freeing) - 1 /\ Cardinality(Freeing \ {t}) \in Nat
  BY FiniteTables, FS_RemoveElement, FS_CardinalityType
<1> QED
  BY <1>1, FiniteTables DEF SlotInv

LEMMA UvmKinds ==
  ASSUME Shape, OwnInv, SlotInv, UvmInv, NEW t \in Threads, StepKinds(t), up
  PROVE  UvmInv'
<1> USE DEF Moves, Keeps
<1>0. /\ None \notin Entry /\ entry \in [Addrs -> Entry \cup {None}] /\ Entries \subseteq Addrs
      /\ req[t] \in Request /\ WellFormed(req[t]) /\ Owns(t)
  BY ShimAllocAssumption DEF Shape, Typed, Entries, OwnInv
<1>1. CASE \/ Idles(t) \/ TakesNative(t) \/ TakesManaged(t) \/ NotTracked(t) \/ Untracks(t)
           \/ TakesBuffer(t) \/ Maps(t) \/ NotMapped(t) \/ Points(t) \/ Unpins(t) \/ GivesBack(t)
           \/ Leaks(t) \/ FreesNative(t) \/ KeepsNative(t) \/ FreesOwn(t)
  <2>1. /\ Rest(t) /\ UNCHANGED <<entry, uvm>> /\ req[t].pc # "charge" /\ req'[t].pc # "charge"
        /\ \/ /\ req[t].pc \notin {"freemanaged", "discharge"}
              /\ req'[t].pc \notin {"freemanaged", "discharge"}
           \/ /\ req[t].pc \in {"freemanaged", "discharge"}
              /\ req'[t].pc \in {"freemanaged", "discharge"} /\ req'[t].size = req[t].size
    BY <1>1 DEF Idles, TakesNative, TakesManaged, NotTracked, Untracks, TakesBuffer, Maps,
                NotMapped, Points, Unpins, GivesBack, Leaks, FreesNative, KeepsNative, FreesOwn
  <2> QED
    BY <2>1, ChargedSame, PayingSame, UvmSame
<1>a. PICK a : a = req[t].addr
  OBVIOUS
<1>b. req[t].pc \in HasAddr =>
        /\ a \in Addrs
        /\ \A u \in Threads : u # t /\ req[u].pc = "charge" => req[u].addr # a
  BY <1>a, MyAddr
<1>2. CASE Tracks(t) \/ TracksMapped(t)
  <2>1. /\ Rest(t) /\ UNCHANGED uvm /\ entry' = [entry EXCEPT ![a] = NewEntry(t)]
        /\ req[t].pc \in {"track", "trackmapped"}
        /\ req[t].pc = "track" => req'[t].pc = "charge" /\ req'[t].addr = a
        /\ req'[t].pc \notin {"freemanaged", "discharge"}
    BY <1>2, <1>a DEF Tracks, TracksMapped
  <2>2. a \in Addrs /\ a \notin Entries
    BY <1>0, <1>a, <1>b, <2>1 DEF Owns
  <2>3. NewEntry(t) \in Entry /\ (req[t].pc = "trackmapped" => ~NewEntry(t).managed)
    BY <1>0, <2>1 DEF NewEntry, Entry, Request, WellFormed, Owns
  <2>4. entry'[a] = NewEntry(t) /\ \A d \in Addrs : d # a => entry'[d] = entry[d]
    BY <1>0, <2>1, <2>2
  <2>5. \A d \in Addrs : d \in Charged' <=> d \in Charged
    <3>1. ASSUME NEW d \in Addrs, d # a PROVE d \in Charged' <=> d \in Charged
      <4>1. d \in Entries' <=> d \in Entries
        BY <2>4, <3>1 DEF Entries
      <4>2. (\A u \in Threads : req'[u].pc = "charge" => req'[u].addr # d)
              <=> \A u \in Threads : req[u].pc = "charge" => req[u].addr # d
        <5>1. ASSUME NEW u \in Threads
              PROVE  (req'[u].pc = "charge" => req'[u].addr # d) <=> (req[u].pc = "charge" => req[u].addr # d)
          <6>1. CASE u = t /\ req[t].pc = "track"
            BY <2>1, <3>1, <6>1
          <6>2. CASE u = t /\ req[t].pc = "trackmapped"
            BY <1>2, <2>1, <6>2 DEF Tracks, TracksMapped
          <6>3. CASE u # t
            BY <2>1, <6>3 DEF Rest
          <6> QED
            BY <2>1, <6>1, <6>2, <6>3
        <5> QED
          BY <5>1
      <4> QED
        BY <2>4, <3>1, <4>1, <4>2 DEF Charged
    <3>2. a \notin Charged /\ a \notin Charged'
      BY <2>1, <2>2, <2>3, <2>4 DEF Charged
    <3> QED
      BY <3>1, <3>2
  <2>6. Charged' = Charged /\ \A d \in Charged : entry'[d].size = entry[d].size
    <3>1. Charged \subseteq Addrs /\ Charged' \subseteq Addrs /\ a \notin Charged
      BY <2>2 DEF Charged, Entries
    <3> QED
      BY <2>4, <2>5, <3>1
  <2> QED
    BY <2>1, <2>6, PayingSame, UvmSame
<1>3. CASE Charges(t)
  <2>1. /\ Rest(t) /\ UNCHANGED entry /\ uvm' = uvm + req[t].size
        /\ req[t].pc = "charge" /\ req'[t].pc \in Plain
    BY <1>3 DEF Charges
  <2>2. a \in Entries /\ entry[a].managed /\ entry[a].size = req[t].size
    BY <1>0, <1>a, <2>1 DEF Owns
  <2>3. Charged' = Charged \cup {a} /\ a \notin Charged
    <3>1. \A d : (\A u \in Threads : req'[u].pc = "charge" => req'[u].addr # d)
                   <=> d = a \/ \A u \in Threads : req[u].pc = "charge" => req[u].addr # d
      BY <1>a, <1>b, <2>1 DEF Rest
    <3> QED
      BY <1>a, <2>1, <2>2, <3>1 DEF Charged, Entries
  <2>4. Paying' = Paying /\ \A u \in Paying : req'[u].size = req[u].size
    BY <2>1, PayingSame
  <2>5. entry[a].size \in Nat
    BY <1>0, <2>2, SizesAreNat DEF Entry, Entries
  <2>6. /\ IsFiniteSet(Extent(entry, Charged \cup {a}))
        /\ Cardinality(Extent(entry, Charged \cup {a})) = Cardinality(Extent(entry, Charged)) + entry[a].size
    BY <2>3, <2>5, AddExtent DEF UvmInv
  <2>7. Extent(req', Paying) = Extent(req, Paying)
    BY <2>4, SameExtent
  <2>8. Cardinality(Extent(req, Paying)) \in Nat /\ Cardinality(Extent(entry, Charged)) \in Nat
    BY FS_CardinalityType DEF UvmInv
  <2>9. uvm' = Cardinality(Extent(entry, Charged \cup {a})) + Cardinality(Extent(req, Paying))
    BY <2>1, <2>2, <2>5, <2>6, <2>8 DEF UvmInv
  <2> QED
    BY <2>1, <2>3, <2>4, <2>6, <2>7, <2>9 DEF UvmInv
<1>4. CASE Discharges(t)
  <2>1. /\ Rest(t) /\ UNCHANGED entry /\ uvm' = uvm - req[t].size
        /\ req[t].pc = "discharge" /\ req'[t].pc \in Plain
    BY <1>4 DEF Discharges
  <2>2. Charged' = Charged
    BY <2>1, ChargedSame
  <2>3. t \in Paying /\ Paying' = Paying \ {t} /\ \A u \in Paying \ {t} : req'[u] = req[u]
    BY <2>1 DEF Paying, Rest
  <2>4. req[t].size \in Nat
    BY <1>0, <2>1, SizesAreNat DEF WellFormed
  <2>5. /\ IsFiniteSet(Extent(req, Paying \ {t}))
        /\ Cardinality(Extent(req, Paying \ {t})) = Cardinality(Extent(req, Paying)) - req[t].size
    BY <2>3, <2>4, RemoveExtent, PartOfExtent DEF UvmInv
  <2>6. Extent(req', Paying \ {t}) = Extent(req, Paying \ {t})
    BY <2>3, SameExtent
  <2>7. Cardinality(Extent(req, Paying)) \in Nat /\ Cardinality(Extent(entry, Charged)) \in Nat
    BY FS_CardinalityType DEF UvmInv
  <2>8. uvm' = Cardinality(Extent(entry, Charged)) + Cardinality(Extent(req, Paying \ {t}))
    BY <2>1, <2>4, <2>5, <2>7 DEF UvmInv
  <2> QED
    BY <2>1, <2>2, <2>3, <2>5, <2>6, <2>8 DEF UvmInv
<1>5. CASE IsRefused(t)
  <2>1. t \in Freeing
    BY <1>5 DEF IsRefused, Freeing
  <2>2. /\ Rest(t) /\ UNCHANGED uvm /\ a \in Addrs /\ entry'[a] \in Entry
        /\ entry'[a].managed = req[t].managed /\ entry'[a].size = req[t].size
        /\ \A d \in Addrs : d # a => entry'[d] = entry[d]
        /\ req[t].pc \in {"freemanaged", "unregister"} /\ req'[t].pc \in Plain
    BY <1>5, <1>a, <2>1, SlotLeft, RefusedStep DEF IsRefused
  <2>3. a \notin Entries
    BY <1>0, <1>a, <2>2 DEF Owns
  <2>4. \A d : (\A u \in Threads : req'[u].pc = "charge" => req'[u].addr # d)
                 <=> \A u \in Threads : req[u].pc = "charge" => req[u].addr # d
    BY <2>2 DEF Rest
  <2>5. /\ \A d \in Addrs : d # a => (d \in Charged' <=> d \in Charged)
        /\ a \notin Charged /\ (a \in Charged' <=> req[t].managed)
        /\ \A d \in Charged : d \in Addrs /\ d # a
        /\ Charged \subseteq Addrs /\ Charged' \subseteq Addrs
    <3>1. a \in Entries' /\ \A d \in Addrs : d # a => (d \in Entries' <=> d \in Entries)
      BY <1>0, <2>2 DEF Entries
    <3>2. \A u \in Threads : req[u].pc = "charge" => req[u].addr # a
      BY <1>b, <2>2
    <3>3. Entries \subseteq Addrs /\ Entries' \subseteq Addrs
      BY DEF Entries
    <3> QED
      BY <2>2, <2>3, <2>4, <3>1, <3>2, <3>3 DEF Charged
  <2>6. CASE req[t].pc = "unregister"
    <3>1. ~req[t].managed /\ Charged' = Charged /\ \A d \in Charged : entry'[d].size = entry[d].size
      BY <1>0, <2>2, <2>5, <2>6 DEF WellFormed
    <3> QED
      BY <2>2, <2>6, <3>1, PayingSame, UvmSame
  <2>7. CASE req[t].pc = "freemanaged"
    <3>1. Charged' = Charged \cup {a}
      BY <1>0, <2>2, <2>5, <2>7 DEF WellFormed
    <3>2. t \in Paying /\ Paying' = Paying \ {t} /\ \A u \in Paying \ {t} : req'[u] = req[u]
      BY <2>2, <2>7 DEF Paying, Rest
    <3>3. req[t].size \in Nat
      BY <1>0, <2>7, SizesAreNat DEF WellFormed
    <3>4. /\ Extent(entry', Charged) = Extent(entry, Charged)
          /\ Extent(req', Paying \ {t}) = Extent(req, Paying \ {t})
      <4>1. \A d \in Charged : entry'[d].size = entry[d].size
        BY <2>2, <2>5
      <4> QED
        BY <3>2, <4>1, SameExtent
    <3>5. /\ IsFiniteSet(Extent(entry', Charged \cup {a}))
          /\ Cardinality(Extent(entry', Charged \cup {a})) = Cardinality(Extent(entry, Charged)) + req[t].size
      <4>1. /\ IsFiniteSet(Extent(entry', Charged)) /\ a \notin Charged
            /\ entry'[a].size = req[t].size /\ entry'[a].size \in Nat
        BY <2>2, <2>5, <3>3, <3>4 DEF UvmInv
      <4>2. PICK G : G = entry'
        OBVIOUS
      <4>3. /\ IsFiniteSet(Extent(G, Charged \cup {a}))
            /\ Cardinality(Extent(G, Charged \cup {a})) = Cardinality(Extent(G, Charged)) + G[a].size
        BY <4>1, <4>2, AddExtent
      <4> QED
        BY <3>4, <4>1, <4>2, <4>3
    <3>6. /\ IsFiniteSet(Extent(req, Paying \ {t}))
          /\ Cardinality(Extent(req, Paying \ {t})) = Cardinality(Extent(req, Paying)) - req[t].size
      BY <3>2, <3>3, RemoveExtent, PartOfExtent DEF UvmInv
    <3>7. Cardinality(Extent(req, Paying)) \in Nat /\ Cardinality(Extent(entry, Charged)) \in Nat
      BY FS_CardinalityType DEF UvmInv
    <3>8. uvm' = Cardinality(Extent(entry', Charged \cup {a})) + Cardinality(Extent(req, Paying \ {t}))
      BY <2>2, <3>3, <3>5, <3>6, <3>7 DEF UvmInv
    <3> QED
      BY <3>1, <3>2, <3>4, <3>5, <3>6, <3>8 DEF UvmInv
  <2> QED
    BY <2>2, <2>6, <2>7
<1> QED
  BY <1>1, <1>2, <1>3, <1>4, <1>5 DEF StepKinds

LEMMA UvmFree ==
  ASSUME Shape, OwnInv, UvmInv, NEW t \in Threads, NEW a \in Addrs, Free(t, a)
  PROVE  UvmInv'
<1>1. /\ up /\ req[t].pc = "idle" /\ Rest(t) /\ a \in app /\ UNCHANGED uvm
      /\ entry'[a] = None /\ \A d \in Addrs : d # a => entry'[d] = entry[d]
      /\ \/ entry[a] = None /\ req'[t].pc = "freenative"
         \/ /\ entry[a] # None /\ req'[t].size = entry[a].size
            /\ req'[t].pc = IF entry[a].managed THEN "freemanaged" ELSE "unregister"
  <2>1. NoReq.pc = "idle"
    BY DEF NoReq
  <2> QED
    BY <2>1, FreeStep
<1>2. \A d : (\A u \in Threads : req'[u].pc = "charge" => req'[u].addr # d)
               <=> \A u \in Threads : req[u].pc = "charge" => req[u].addr # d
  BY <1>1 DEF Rest
<1>3. \A u \in Threads : req[u].pc = "charge" => req[u].addr # a
  BY <1>1 DEF OwnInv, Owns
<1>4. /\ Charged' = Charged \ {a} /\ (a \in Charged <=> entry[a] # None /\ entry[a].managed)
      /\ \A d \in Charged \ {a} : entry'[d].size = entry[d].size
  BY <1>1, <1>2, <1>3 DEF Charged, Entries
<1>5. CASE entry[a] # None /\ entry[a].managed
  <2>1. Paying' = Paying \cup {t} /\ t \notin Paying /\ \A u \in Paying : req'[u] = req[u]
    BY <1>1, <1>5 DEF Paying, Rest
  <2>2. a \in Charged
    BY <1>4, <1>5
  <2>3. entry[a].size \in Nat /\ req'[t].size = entry[a].size
    BY <1>1, <1>5, SizesAreNat DEF Shape, Typed, Entry
  <2>4. Extent(entry', Charged \ {a}) = Extent(entry, Charged \ {a})
        /\ Extent(req', Paying) = Extent(req, Paying)
    BY <1>4, <2>1, SameExtent
  <2>5. /\ IsFiniteSet(Extent(entry, Charged \ {a}))
        /\ Cardinality(Extent(entry, Charged \ {a})) = Cardinality(Extent(entry, Charged)) - entry[a].size
    BY <1>1, <2>2, <2>3, RemoveExtent, PartOfExtent DEF UvmInv
  <2>6. /\ IsFiniteSet(Extent(req', Paying \cup {t}))
        /\ Cardinality(Extent(req', Paying \cup {t})) = Cardinality(Extent(req, Paying)) + entry[a].size
    <3>1. /\ IsFiniteSet(Extent(req', Paying)) /\ t \notin Paying /\ req'[t].size \in Nat
      BY <1>1, <2>1, <2>3, <2>4 DEF UvmInv
    <3>2. PICK G : G = req'
      OBVIOUS
    <3>3. /\ IsFiniteSet(Extent(G, Paying \cup {t}))
          /\ Cardinality(Extent(G, Paying \cup {t})) = Cardinality(Extent(G, Paying)) + G[t].size
      BY <3>1, <3>2, AddExtent
    <3> QED
      BY <2>3, <2>4, <3>2, <3>3
  <2>7. Cardinality(Extent(req, Paying)) \in Nat /\ Cardinality(Extent(entry, Charged)) \in Nat
    BY <1>1, FS_CardinalityType DEF UvmInv
  <2>8. uvm' = Cardinality(Extent(entry, Charged \ {a})) + Cardinality(Extent(req', Paying \cup {t}))
    BY <1>1, <2>3, <2>5, <2>6, <2>7 DEF UvmInv
  <2> QED
    BY <1>4, <2>1, <2>4, <2>5, <2>6, <2>8 DEF UvmInv
<1>6. CASE ~(entry[a] # None /\ entry[a].managed)
  <2>1. Charged' = Charged /\ \A d \in Charged : entry'[d].size = entry[d].size
    BY <1>4, <1>6
  <2>2. req'[t].pc \notin {"freemanaged", "discharge"}
    BY <1>1, <1>6
  <2> QED
    BY <1>1, <2>1, <2>2, PayingSame, UvmSame
<1> QED
  BY <1>5, <1>6

LEMMA UvmInvariant ==
  ASSUME SlotsKept
  PROVE  Spec => []UvmInv
<1>1. Init => UvmInv
  <2> SUFFICES ASSUME Init PROVE UvmInv
    OBVIOUS
  <2>1. Charged = {} /\ Paying = {} /\ uvm = 0
    BY DEF Init, Charged, Paying, Entries, NoReq
  <2> QED
    BY <2>1, NoExtent DEF UvmInv
<1>2. ASSUME Shape, OwnInv, SlotInv, UvmInv, [Next]_vars PROVE UvmInv'
  <2>1. CASE Cleanup
    BY <2>1 DEF Cleanup, UvmInv
  <2>2. CASE UNCHANGED vars
    BY <1>2, <2>2 DEF vars, cudaVars, shimVars, driverVars, UvmInv, Charged, Paying, Entries
  <2>3. CASE \E t \in Threads : Hook(t) \/ \E n \in Sizes : Alloc(t, n)
    BY <1>2, <2>3, HookIsUp, HookKinds, UvmKinds
  <2> QED
    BY <1>2, <2>1, <2>2, <2>3, UvmFree DEF Next
<1> QED
  BY <1>1, <1>2, ShapeInvariant, OwnInvariant, SlotInvariant, PTL DEF Spec

(* UvmAllocatedBytes, from which cuMemGetInfo derives the free memory it    *)
(* reports (greenboost_cuda_shim_win.c:729-730), is what managed            *)
(* allocations hold, whichever attempts, frees and refusals run in parallel.*)
THEOREM UvmStaysExact ==
  ASSUME SlotsKept
  PROVE  Spec => []UvmIsExact
<1>1. UvmInv => UvmIsExact
  <2> SUFFICES ASSUME UvmInv, Quiet, up PROVE uvm = ManagedBytes
    BY DEF UvmIsExact
  <2>1. Paying = {} /\ Charged = {d \in Entries : entry[d].managed}
    BY DEF Quiet, Paying, Charged
  <2>2. Cardinality(Extent(req, Paying)) = 0 /\ Cardinality(Extent(entry, Charged)) \in Nat
    BY <2>1, NoExtent, FS_CardinalityType DEF UvmInv
  <2>3. Extent(entry, Charged) = UNION {{a} \X (1 .. entry[a].size) : a \in {d \in Entries : entry[d].managed}}
    BY <2>1 DEF Extent
  <2> QED
    BY <2>2, <2>3 DEF UvmInv, ManagedBytes
<1> QED
  BY <1>1, UvmInvariant, PTL

-----------------------------------------------------------------------------
(* What stays in reach                                                      *)

(* Managed and mapped memory is tracked and the application's, or in the    *)
(* hands of a hook, or gone; what the application holds untracked is CUDA's *)
(* alone, or gone                                                           *)
InReach(a) ==
  /\ mem[a] \in {"managed", "mapped"} =>
       \/ a \in gone
       \/ a \in Entries /\ a \in app
       \/ \E t \in Threads : req[t].pc \in HasAddr /\ req[t].addr = a
  /\ a \in app /\ a \notin Entries => mem[a] = "native" \/ a \in gone

FreesNatively(t) ==
  req[t].pc = "freenative" => mem[req[t].addr] = "native" \/ req[t].addr \in gone

KeptInv == up =>
  /\ \A a \in Addrs : InReach(a)
  /\ \A t \in Threads : FreesNatively(t)

LEMMA KeptStep ==
  ASSUME Shape, KeptInv, up, NEW t \in Threads, NEW a, Rest(t),
         \A d \in Addrs : d # a =>
           /\ mem'[d] = mem[d] /\ (d \in Entries' <=> d \in Entries)
           /\ (d \in app' <=> d \in app) /\ (d \in gone' <=> d \in gone),
         req[t].pc \in HasAddr => req[t].addr = a,
         \A u \in Threads : u # t /\ req[u].pc \in HasAddr => req[u].addr # a,
         FreesNatively(t)', a \in Addrs => InReach(a)'
  PROVE  KeptInv'
<1>1. ASSUME NEW d \in Addrs PROVE InReach(d)'
  <2>1. CASE d # a
    <3>1. InReach(d)
      BY DEF KeptInv
    <3>2. (\E u \in Threads : req[u].pc \in HasAddr /\ req[u].addr = d) =>
             \E u \in Threads : req'[u].pc \in HasAddr /\ req'[u].addr = d
      BY <2>1 DEF Rest
    <3> QED
      BY <2>1, <3>1, <3>2 DEF InReach
  <2> QED
    BY <2>1
<1>2. ASSUME NEW u \in Threads PROVE FreesNatively(u)'
  <2>1. CASE u # t
    <3>1. FreesNatively(u) /\ req'[u] = req[u] /\ WellFormed(req[u])
      BY <2>1 DEF KeptInv, Rest, Shape
    <3>2. req[u].pc = "freenative" =>
            /\ mem'[req[u].addr] = mem[req[u].addr]
            /\ req[u].addr \in gone' <=> req[u].addr \in gone
      BY <2>1, <3>1 DEF WellFormed
    <3> QED
      BY <3>1, <3>2 DEF FreesNatively
  <2> QED
    BY <2>1
<1> QED
  BY <1>1, <1>2 DEF KeptInv

LEMMA KeptKinds ==
  ASSUME Shape, OwnInv, KeptInv, NEW t \in Threads, StepKinds(t), up
  PROVE  KeptInv'
<1> USE DEF Moves, Keeps
<1>0. /\ None \notin Addrs /\ mem \in [Addrs -> Kinds] /\ entry \in [Addrs -> Entry \cup {None}]
      /\ None \notin Entry /\ Addrs \cap Bufs = {} /\ req[t] \in Request
  BY ShimAllocAssumption DEF Shape, Typed
<1>1. CASE \/ Idles(t) \/ TakesBuffer(t) \/ NotMapped(t) \/ GivesBack(t) \/ Discharges(t)
  <2>1. /\ Rest(t) /\ UNCHANGED <<mem, app, entry>>
        /\ req[t].pc \notin HasAddr /\ req'[t].pc \notin HasAddr
    BY <1>1 DEF Idles, TakesBuffer, NotMapped, GivesBack, Discharges
  <2>2. FreesNatively(t)' /\ \A u \in Threads : req[u].pc \in HasAddr => req[u].addr # None
    BY <1>0, <2>1, MyAddr DEF FreesNatively
  <2>3. \A d \in Addrs : d \in gone' <=> d \in gone
    <3>1. gone' = gone \/ gone' = gone \cup ({req[t].buf} \ {None})
      BY <1>1 DEF Idles, TakesBuffer, NotMapped, GivesBack, Discharges, FreeDriverBuf
    <3>2. req[t].buf \in Bufs \cup {None}
      BY <1>0 DEF Request
    <3> QED
      BY <1>0, <3>1, <3>2
  <2> QED
    BY <1>0, <2>1, <2>2, <2>3, KeptStep DEF Entries
<1>2. CASE TakesNative(t) \/ TakesManaged(t) \/ Maps(t)
  <2>1. PICK a \in Addrs, kind \in {"native", "managed", "mapped"} :
          /\ mem[a] = "free" /\ mem' = [mem EXCEPT ![a] = kind] /\ UNCHANGED <<entry, gone>>
          /\ \/ kind = "native" /\ app' = app \cup {a} /\ req'[t].pc \in Plain
             \/ app' = app /\ req'[t].pc \in {"track", "pointer"} /\ req'[t].addr = a
    BY <1>2 DEF TakesNative, TakesManaged, Maps
  <2>2. Rest(t) /\ req[t].pc \notin HasAddr
    BY <1>2 DEF TakesNative, TakesManaged, Maps
  <2>3. /\ a \notin app /\ a \notin Entries
        /\ \A u \in Threads : req[u].pc \in HasAddr => req[u].addr # a
    BY <2>1, FreshAddr
  <2>4. mem'[a] = kind /\ \A d \in Addrs : d # a => mem'[d] = mem[d]
    BY <1>0, <2>1
  <2>5. InReach(a)' /\ FreesNatively(t)'
    BY <2>1, <2>3, <2>4 DEF InReach, FreesNatively, Entries
  <2> QED
    BY <2>1, <2>2, <2>3, <2>4, <2>5, KeptStep DEF Entries
<1>3. ASSUME req[t].pc \in HasAddr, NEW a, a = req[t].addr, Rest(t),
             \A d \in Addrs : d # a =>
               /\ mem'[d] = mem[d] /\ (d \in Entries' <=> d \in Entries)
               /\ (d \in app' <=> d \in app) /\ (d \in gone' <=> d \in gone),
             req'[t].pc # "freenative",
             a \in Addrs /\ Owns(t) => InReach(a)'
      PROVE  KeptInv'
  <2>1. /\ a \in Addrs /\ Owns(t) /\ FreesNatively(t)'
        /\ \A u \in Threads : u # t /\ req[u].pc \in HasAddr => req[u].addr # a
    BY <1>3, MyAddr DEF OwnInv, FreesNatively
  <2> QED
    BY <1>3, <2>1, KeptStep
<1>a. PICK a : a = req[t].addr
  OBVIOUS
<1>4. CASE NotTracked(t) \/ Points(t)
  <2>1. /\ req[t].pc \in {"track", "pointer"} /\ Rest(t) /\ UNCHANGED <<mem, app, entry, gone>>
        /\ req'[t].pc \in {"untrack", "trackmapped", "unpin"} /\ req'[t].addr = a
    BY <1>4, <1>a DEF NotTracked, Points
  <2>2. a \in Addrs /\ Owns(t) => InReach(a)'
    BY <1>a, <2>1 DEF InReach, Owns
  <2> QED
    BY <1>3, <1>a, <2>1, <2>2 DEF Entries
<1>5. CASE Tracks(t)
  <2>1. a \in Addrs => \A d \in Addrs : d # a => entry'[d] = entry[d]
    BY <1>0, <1>5, <1>a DEF Tracks
  <2>2. a \in Addrs
    BY <1>5, <1>a, MyAddr DEF Tracks
  <2>3. a \in Addrs /\ Owns(t) => InReach(a)'
    BY <1>5, <1>a DEF Tracks, InReach, Owns
  <2> QED
    BY <1>3, <1>5, <1>a, <2>1, <2>2, <2>3 DEF Tracks, Entries
<1>6. CASE FreesNative(t) \/ FreesOwn(t)
  <2>1. /\ req[t].pc \in HasAddr /\ Rest(t) /\ UNCHANGED <<app, entry>> /\ req'[t].pc # "freenative"
        /\ mem' = [mem EXCEPT ![a] = "free"] /\ (gone' = gone \/ gone' = gone \ {a})
    BY <1>6, <1>a DEF FreesNative, FreesOwn
  <2>2. a \in Addrs => mem'[a] = "free" /\ \A d \in Addrs : d # a => mem'[d] = mem[d]
    BY <1>0, <2>1
  <2>3. a \in Addrs /\ \A d \in Addrs : d # a => (d \in gone' <=> d \in gone)
    BY <1>a, <2>1, MyAddr
  <2>4. a \in Addrs /\ Owns(t) => InReach(a)'
    BY <1>a, <2>1, <2>2 DEF InReach, Owns
  <2> QED
    BY <1>3, <1>a, <2>1, <2>2, <2>3, <2>4 DEF Entries
<1>11. CASE Untracks(t) \/ Unpins(t)
  <2>1. /\ req[t].pc \in {"untrack", "unpin"} /\ Rest(t) /\ UNCHANGED <<app, entry>>
        /\ req'[t].pc # "freenative"
        /\ \/ mem' = [mem EXCEPT ![a] = "free"] /\ gone' = gone
           \/ gone' = gone \cup {a} /\ mem' = mem
    BY <1>11, <1>a DEF Untracks, Unpins, ReleaseAddr
  <2>2. a \in Addrs
    BY <1>a, <2>1, MyAddr
  <2>3. /\ mem'[a] = "free" \/ a \in gone'
        /\ \A d \in Addrs : d # a => mem'[d] = mem[d] /\ (d \in gone' <=> d \in gone)
    BY <1>0, <2>1, <2>2
  <2>4. a \in Addrs /\ Owns(t) => InReach(a)'
    BY <1>a, <2>1, <2>3 DEF InReach, Owns
  <2> QED
    BY <1>3, <1>a, <2>1, <2>3, <2>4 DEF Entries
<1>7. CASE Charges(t) \/ KeepsNative(t)
  <2>1. /\ req[t].pc \in {"charge", "freenative"} /\ Rest(t) /\ UNCHANGED <<mem, entry, gone>>
        /\ req'[t].pc # "freenative" /\ app' = app \cup {a}
    BY <1>7, <1>a DEF Charges, KeepsNative
  <2>2. req[t].pc = "freenative" => mem[a] = "native" \/ a \in gone
    BY <1>a DEF KeptInv, FreesNatively
  <2>3. a \in Addrs /\ Owns(t) => InReach(a)'
    BY <1>a, <2>1, <2>2 DEF InReach, Owns, Entries
  <2> QED
    BY <1>3, <1>a, <2>1, <2>3 DEF Entries
<1>8. CASE TracksMapped(t)
  <2>1. a \in Addrs /\ WellFormed(req[t]) /\ req[t] \in Request
    BY <1>8, <1>a, MyAddr DEF TracksMapped, Shape, Typed
  <2>2. NewEntry(t) \in Entry
    BY <1>8, <2>1 DEF TracksMapped, NewEntry, Entry, Request, WellFormed
  <2>3. entry'[a] # None /\ \A d \in Addrs : d # a => entry'[d] = entry[d]
    BY <1>0, <1>8, <1>a, <2>1, <2>2 DEF TracksMapped
  <2>4. InReach(a)'
    BY <1>8, <1>a, <2>1, <2>3 DEF TracksMapped, InReach, Entries
  <2> QED
    BY <1>3, <1>8, <1>a, <2>3, <2>4 DEF TracksMapped, Entries
<1>9. CASE Leaks(t)
  <2>1. /\ req[t].pc = "trackmapped" /\ req[t].buf \in Bufs /\ Rest(t) /\ UNCHANGED <<mem, entry>>
        /\ req'[t].pc # "freenative" /\ app' = app \cup {a} /\ gone' = gone \cup {a, req[t].buf}
    BY <1>9, <1>a, MyBuf DEF Leaks
  <2>2. InReach(a)' /\ \A d \in Addrs : d # a => (d \in gone' <=> d \in gone)
    BY <1>0, <2>1 DEF InReach
  <2> QED
    BY <1>3, <1>a, <2>1, <2>2 DEF Entries
<1>10. CASE IsRefused(t)
  <2>1. /\ req[t].pc \in {"freemanaged", "unregister"} /\ Rest(t) /\ UNCHANGED mem
        /\ req'[t].pc # "freenative"
        /\ a \in Addrs /\ app' = app \cup {a}
        /\ \/ entry' = entry /\ gone' = gone \cup ({a, req[t].buf} \ {None})
           \/ /\ entry'[a] \in Entry /\ gone' = gone
              /\ \A d \in Addrs : d # a => entry'[d] = entry[d]
    BY <1>10, <1>a, RefusedStep DEF IsRefused
  <2>2. req[t].buf \in Bufs \cup {None}
    BY <1>0 DEF Request
  <2>3. /\ InReach(a)'
        /\ \A d \in Addrs : d # a => (d \in gone' <=> d \in gone) /\ entry'[d] = entry[d]
    BY <1>0, <2>1, <2>2 DEF InReach, Entries
  <2> QED
    BY <1>3, <1>a, <2>1, <2>3 DEF Entries
<1> QED
  BY <1>1, <1>2, <1>4, <1>5, <1>6, <1>7, <1>8, <1>9, <1>10, <1>11 DEF StepKinds

LEMMA KeptFree ==
  ASSUME Shape, OwnInv, KeptInv, NEW t \in Threads, NEW a \in Addrs, Free(t, a)
  PROVE  KeptInv'
<1>1. /\ up /\ req[t] = NoReq /\ Rest(t) /\ req'[t].addr = a /\ a \in app /\ app' = app \ {a}
      /\ entry'[a] = None /\ \A d \in Addrs : d # a => entry'[d] = entry[d]
      /\ UNCHANGED <<mem, gone>>
      /\ req'[t].pc \in {"freenative", "freemanaged", "unregister"}
      /\ req'[t].pc = "freenative" => entry[a] = None
  BY FreeStep
<1>2. req[t].pc = "idle" /\ \A d \in Addrs : d # a => (d \in Entries' <=> d \in Entries)
  BY <1>1 DEF NoReq, Entries
<1>3. \A u \in Threads : u # t /\ req[u].pc \in HasAddr => req[u].addr # a
  BY <1>1 DEF OwnInv, Owns
<1>4. FreesNatively(t)' /\ InReach(a)'
  <2>1. InReach(a)
    BY <1>1 DEF KeptInv
  <2> QED
    BY <1>1, <2>1 DEF InReach, FreesNatively, Entries
<1> QED
  BY <1>1, <1>2, <1>3, <1>4, KeptStep

LEMMA KeptInvariant == Spec => []KeptInv
<1>1. Init => KeptInv
  BY DEF Init, KeptInv, InReach, FreesNatively, NoReq
<1>2. ASSUME Shape, OwnInv, KeptInv, [Next]_vars PROVE KeptInv'
  <2>1. CASE Cleanup
    BY <2>1 DEF Cleanup, KeptInv
  <2>2. CASE UNCHANGED vars
    BY <1>2, <2>2 DEF vars, cudaVars, shimVars, driverVars, KeptInv, InReach, FreesNatively, Entries
  <2>3. CASE \E t \in Threads : Hook(t) \/ \E n \in Sizes : Alloc(t, n)
    BY <1>2, <2>3, HookIsUp, HookKinds, KeptKinds
  <2> QED
    BY <1>2, <2>1, <2>2, <2>3, KeptFree DEF Next
<1> QED
  BY <1>1, <1>2, ShapeInvariant, OwnInvariant, PTL DEF Spec

(* A driver buffer is behind an entry, or in the hands of a hook, or gone   *)
Holds(t, b) == req[t].pc \in HasBuf /\ req[t].buf = b
Behind(a, b) == a \in Entries /\ entry[a].buf = b

BufInv == up =>
  \A b \in Bufs : bufs[b] # None =>
    b \in gone \/ (\E a \in Addrs : Behind(a, b)) \/ (\E t \in Threads : Holds(t, b))

LEMMA BufStep ==
  ASSUME BufInv, up, NEW t \in Threads, Rest(t),
         \A c \in Bufs : bufs'[c] # None => bufs[c] # None \/ Holds(t, c)',
         \A c \in Bufs : c \in gone => c \in gone',
         \A a \in Addrs, c \in Bufs : Behind(a, c) => Behind(a, c)' \/ Holds(t, c)',
         \A c \in Bufs : Holds(t, c) =>
           Holds(t, c)' \/ c \in gone' \/ bufs'[c] = None \/ \E a \in Addrs : Behind(a, c)'
  PROVE  BufInv'
<1> SUFFICES ASSUME NEW b \in Bufs, bufs'[b] # None
             PROVE  b \in gone' \/ (\E a \in Addrs : Behind(a, b)') \/ (\E u \in Threads : Holds(u, b)')
  BY DEF BufInv
<1>1. \A u \in Threads : u # t /\ Holds(u, b) => Holds(u, b)'
  BY DEF Holds, Rest
<1>2. CASE bufs[b] # None
  BY <1>1, <1>2 DEF BufInv
<1> QED
  BY <1>2

LEMMA BufKinds ==
  ASSUME Shape, OwnInv, BufInv, NEW t \in Threads, StepKinds(t), up
  PROVE  BufInv'
<1> USE DEF Moves, Keeps
<1>0. /\ None \notin Bufs /\ None \notin Entry /\ Addrs \cap Bufs = {}
      /\ entry \in [Addrs -> Entry \cup {None}] /\ bufs \in [Bufs -> Handles \cup {None}]
      /\ WellFormed(req[t]) /\ req[t] \in Request /\ Owns(t)
  BY ShimAllocAssumption DEF Shape, Typed, OwnInv
<1>1. CASE \/ Idles(t) \/ TakesNative(t) \/ TakesManaged(t) \/ NotTracked(t) \/ Untracks(t)
           \/ Charges(t) \/ FreesNative(t) \/ KeepsNative(t) \/ Discharges(t)
           \/ Maps(t) \/ NotMapped(t) \/ Points(t) \/ Unpins(t) \/ FreesOwn(t)
  <2>1. /\ Rest(t) /\ UNCHANGED <<entry, bufs>>
        /\ req[t].pc \in HasBuf => req'[t].pc \in HasBuf /\ req'[t].buf = req[t].buf
    BY <1>1 DEF Idles, TakesNative, TakesManaged, NotTracked, Untracks, Charges, FreesNative,
                KeepsNative, Discharges, Maps, NotMapped, Points, Unpins, FreesOwn
  <2>2. \A c \in Bufs : c \in gone => c \in gone'
    <3>1. req[t].pc = "freenative" => req[t].addr \in Addrs
      BY <1>0 DEF WellFormed
    <3> QED
      BY <1>0, <1>1, <3>1 DEF Idles, TakesNative, TakesManaged, NotTracked, Untracks, Charges,
              FreesNative, KeepsNative, Discharges, Maps, NotMapped, Points, Unpins, FreesOwn, ReleaseAddr
  <2> QED
    BY <2>1, <2>2, BufStep DEF Holds, Behind, Entries
<1>2. CASE TakesBuffer(t)
  <2>1. /\ Rest(t) /\ UNCHANGED <<entry, gone>> /\ req[t].pc \notin HasBuf /\ req'[t].pc \in HasBuf
        /\ \A c \in Bufs : c # req'[t].buf => bufs'[c] = bufs[c]
    BY <1>0, <1>2 DEF TakesBuffer
  <2> QED
    BY <2>1, BufStep DEF Holds, Behind, Entries
<1>b. PICK b : b = req[t].buf
  OBVIOUS
<1>3. CASE GivesBack(t)
  <2>1. /\ Rest(t) /\ UNCHANGED entry /\ req[t].pc \in HasBuf
        /\ \/ bufs' = [bufs EXCEPT ![b] = None] /\ gone' = gone
           \/ gone' = gone \cup ({b} \ {None}) /\ bufs' = bufs
    BY <1>3, <1>b DEF GivesBack, FreeDriverBuf
  <2>2. b \in Bufs
    BY <1>0, <1>b, <2>1 DEF Owns
  <2>3. /\ b \in gone' \/ bufs'[b] = None
        /\ \A c \in Bufs : (bufs'[c] # None => bufs[c] # None) /\ (c \in gone => c \in gone')
    BY <1>0, <2>1, <2>2
  <2> QED
    BY <1>b, <2>1, <2>3, BufStep DEF Holds, Behind, Entries
<1>4. CASE Leaks(t)
  <2>1. Rest(t) /\ UNCHANGED <<entry, bufs>> /\ gone' = gone \cup {req[t].addr, b}
    BY <1>4, <1>b DEF Leaks
  <2> QED
    BY <1>b, <2>1, BufStep DEF Holds, Behind, Entries
<1>5. ASSUME NEW a \in Addrs, a \notin Entries, Rest(t), UNCHANGED bufs, gone' = gone,
             entry'[a] # None, entry'[a].buf = b,
             \A d \in Addrs : d # a => entry'[d] = entry[d]
      PROVE  BufInv'
  <2>1. Behind(a, b)'
    BY <1>5 DEF Behind, Entries
  <2>2. \A d \in Addrs, c \in Bufs : Behind(d, c) => Behind(d, c)'
    BY <1>5 DEF Behind, Entries
  <2>3. \A c \in Bufs : Holds(t, c) => c = b
    BY <1>b DEF Holds
  <2> QED
    BY <1>5, <2>1, <2>2, <2>3, BufStep
<1>6. CASE Tracks(t) \/ TracksMapped(t)
  <2>1. PICK a : a = req[t].addr
    OBVIOUS
  <2>2. /\ Rest(t) /\ UNCHANGED <<bufs, gone>> /\ entry' = [entry EXCEPT ![a] = NewEntry(t)]
        /\ req[t].pc \in {"track", "trackmapped"}
    BY <1>6, <2>1 DEF Tracks, TracksMapped
  <2>3. a \in Addrs /\ a \notin Entries
    BY <1>0, <2>1, <2>2 DEF Owns, WellFormed
  <2>4. NewEntry(t) \in Entry /\ NewEntry(t).buf = b
    BY <1>0, <1>b, <2>2 DEF NewEntry, Entry, Request, WellFormed
  <2>5. entry'[a] # None /\ entry'[a].buf = b /\ \A d \in Addrs : d # a => entry'[d] = entry[d]
    BY <1>0, <2>2, <2>3, <2>4
  <2> QED
    BY <1>5, <2>2, <2>3, <2>5
<1>7. CASE IsRefused(t)
  <2>1. PICK a : a = req[t].addr
    OBVIOUS
  <2>2. /\ Rest(t) /\ a \in Addrs /\ UNCHANGED bufs /\ req[t].pc \in {"freemanaged", "unregister"}
        /\ \/ entry' = entry /\ gone' = gone \cup ({a, b} \ {None})
           \/ /\ entry'[a] \in Entry /\ entry'[a].buf = b /\ gone' = gone
              /\ \A d \in Addrs : d # a => entry'[d] = entry[d]
    BY <1>7, <1>b, <2>1, RefusedStep DEF IsRefused
  <2>3. a \notin Entries
    BY <1>0, <2>1, <2>2 DEF Owns
  <2>4. CASE entry' = entry /\ gone' = gone \cup ({a, b} \ {None})
    <3>1. \A c \in Bufs : (Holds(t, c) => c \in gone') /\ (c \in gone => c \in gone')
      BY <1>0, <1>b, <2>4 DEF Holds
    <3>2. \A d \in Addrs, c \in Bufs : Behind(d, c) => Behind(d, c)'
      BY <2>4 DEF Behind, Entries
    <3> QED
      BY <2>2, <3>1, <3>2, BufStep
  <2>5. CASE /\ entry'[a] \in Entry /\ entry'[a].buf = b /\ gone' = gone
             /\ \A d \in Addrs : d # a => entry'[d] = entry[d]
    BY <1>0, <1>5, <2>2, <2>3, <2>5
  <2> QED
    BY <2>2, <2>4, <2>5
<1> QED
  BY <1>1, <1>2, <1>3, <1>4, <1>6, <1>7 DEF StepKinds

LEMMA BufFree ==
  ASSUME Shape, OwnInv, BufInv, NEW t \in Threads, NEW a \in Addrs, Free(t, a)
  PROVE  BufInv'
<1>1. /\ up /\ req[t].pc = "idle" /\ Rest(t) /\ entry'[a] = None
      /\ \A d \in Addrs : d # a => entry'[d] = entry[d]
      /\ UNCHANGED <<bufs, gone>> /\ None \notin Bufs
      /\ entry[a] # None /\ ~entry[a].managed =>
           req'[t].pc = "unregister" /\ req'[t].buf = entry[a].buf
  <2>1. NoReq.pc = "idle"
    BY DEF NoReq
  <2> QED
    BY <2>1, FreeStep, ShimAllocAssumption
<1>2. \A c \in Bufs : Behind(a, c) => Holds(t, c)'
  BY <1>1 DEF Behind, Holds, OwnInv, Sound, Entries
<1>3. \A d \in Addrs, c \in Bufs : Behind(d, c) => Behind(d, c)' \/ Holds(t, c)'
  BY <1>1, <1>2 DEF Behind, Entries
<1> QED
  BY <1>1, <1>3, BufStep DEF Holds

LEMMA BufInvariant == Spec => []BufInv
<1>1. Init => BufInv
  BY DEF Init, BufInv
<1>2. ASSUME Shape, OwnInv, BufInv, [Next]_vars PROVE BufInv'
  <2>1. CASE Cleanup
    BY <2>1 DEF Cleanup, BufInv
  <2>2. CASE UNCHANGED vars
    BY <1>2, <2>2 DEF vars, cudaVars, shimVars, driverVars, BufInv, Holds, Behind, Entries
  <2>3. CASE \E t \in Threads : Hook(t) \/ \E n \in Sizes : Alloc(t, n)
    BY <1>2, <2>3, HookIsUp, HookKinds, BufKinds
  <2> QED
    BY <1>2, <2>1, <2>2, <2>3, BufFree DEF Next
<1> QED
  BY <1>1, <1>2, ShapeInvariant, OwnInvariant, PTL DEF Spec

(* Between calls everything the hooks took can still be freed, also after a *)
(* free that CUDA refused (tests/test_free_error.c): managed and mapped     *)
(* memory is held and tracked, and each driver buffer is reached from an    *)
(* entry, but for what the table had no slot for and what CUDA or the       *)
(* driver did not take back.  Whichever threads open the device first and   *)
(* whoever takes the slot of a refused free.                                *)
THEOREM NothingIsLost == Spec => []NothingLost
<1>1. KeptInv /\ BufInv => NothingLost
  BY DEF KeptInv, InReach, BufInv, Holds, Behind, Quiet, NothingLost, Entries
<1> QED
  BY <1>1, KeptInvariant, BufInvariant, PTL

LEMMA HookStaysUp ==
  ASSUME NEW t \in Threads, Hook(t) \/ \E n \in Sizes : Alloc(t, n)
  PROVE  UNCHANGED up
BY DEF Hook, Alloc, Native, NativeLast, Capable, Managed, Track, Untrack, Charge, OpenDevice,
       CreateFile, UseHandle, DriverAlloc, Register, GetPointer, Unpin, Undo, TrackMapped, FreeNative,
       FreeManaged, Discharge, Unregister, FreeBuf, shimVars

(* The variables keep their types; the bytes of managed memory never go     *)
(* below zero, the unsigned counter does not wrap.                          *)
THEOREM TypeCorrect ==
  ASSUME SlotsKept
  PROVE  Spec => []TypeOK
<1>1. Init => uvm \in Nat
  BY DEF Init
<1>2. ASSUME Shape, UvmInv, UvmInv', uvm \in Nat, [Next]_vars PROVE (uvm \in Nat)'
  <2>1. CASE up'
    <3>1. Cardinality(Extent(entry, Charged))' \in Nat /\ Cardinality(Extent(req, Paying))' \in Nat
      BY <1>2, <2>1, FS_CardinalityType DEF UvmInv
    <3> QED
      BY <1>2, <2>1, <3>1 DEF UvmInv
  <2>2. CASE Cleanup \/ UNCHANGED vars
    BY <1>2, <2>2 DEF Cleanup, vars, shimVars
  <2>3. CASE \E t \in Threads : Hook(t) \/ \E n \in Sizes : Alloc(t, n)
    BY <1>2, <2>1, <2>3, HookIsUp, HookStaysUp
  <2> QED
    BY <1>2, <2>1, <2>2, <2>3, FreeStep DEF Next
<1>3. Shape /\ uvm \in Nat => TypeOK
  BY DEF Shape, Typed, TypeOK
<1> QED
  BY <1>1, <1>2, <1>3, ShapeInvariant, UvmInvariant, PTL DEF Spec
=============================================================================
