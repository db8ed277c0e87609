------------------------------- MODULE ShimAlloc -------------------------------
(***************************************************************************)
(* The allocation hooks of windows-port/shim/greenboost_cuda_shim_win.c:   *)
(* native memory first, managed memory when it runs out, and with          *)
(* GREENBOOST_LEGACY_DRIVER the driver's pinned pages after that.  CUDA    *)
(* and the driver are called one step at a time, and every call may fail,  *)
(* also the frees whose result the code does not look at.  The pointer     *)
(* table is the atomic map of PtrMap.  What a free is refused for stays    *)
(* allocated.                                                              *)
(***************************************************************************)
EXTENDS Integers, FiniteSets

CONSTANTS
  Threads,      \* application threads
  Addrs,        \* device addresses
  Bufs,         \* driver buffers
  Handles,      \* handles CreateFileW can return
  None,         \* INVALID_HANDLE_VALUE, no buffer, no entry
  Sizes,        \* sizes above the threshold
  Capacity,     \* HT_SIZE
  SlotsRace     \* an insertion may take the slot of a free that CUDA then refuses

Entry == [managed : BOOLEAN, size : Sizes, buf : Bufs \cup {None}]

ASSUME ShimAllocAssumption ==
  /\ IsFiniteSet(Threads) /\ IsFiniteSet(Addrs) /\ IsFiniteSet(Bufs)
  /\ Sizes \subseteq Nat \ {0} /\ Capacity \in Nat
  /\ SlotsRace \in BOOLEAN
  /\ None \notin Addrs \cup Bufs \cup Handles \cup Entry
  /\ Addrs \cap Bufs = {}

VARIABLES
  mem,    \* what CUDA has at each address
  entry,  \* gb_htable, as a map
  uvm,    \* UvmAllocatedBytes
  handle, \* DeviceHandle
  opened, \* handles of the device this process has open
  bufs,   \* the driver's buffers: the handle each was allocated through
  app,    \* addresses the application holds
  up,     \* the shim is loaded
  policy, \* gb_managed_first and gb_legacy_driver
  req,    \* the hook each thread is in
  gone    \* history: the addresses and buffers the shim let go of while allocated

cudaVars == <<mem, app>>
shimVars == <<entry, uvm, handle, up, policy>>
driverVars == <<opened, bufs>>
vars == <<cudaVars, shimVars, driverVars, req, gone>>

NoReq == [pc |-> "idle", size |-> 0, addr |-> None, buf |-> None, via |-> None,
          managed |-> FALSE]
Kinds == {"free", "native", "managed", "mapped"}
Entries == {a \in Addrs : entry[a] # None}
Quiet == \A t \in Threads : req[t].pc = "idle"

(* gb_read_config takes both settings from the environment *)
Policies == [managedFirst : BOOLEAN, legacy : BOOLEAN]

Init ==
  /\ mem = [a \in Addrs |-> "free"] /\ app = {}
  /\ entry = [a \in Addrs |-> None] /\ uvm = 0 /\ handle = None /\ up = TRUE
  /\ policy \in Policies
  /\ opened = {} /\ bufs = [b \in Bufs |-> None]
  /\ req = [t \in Threads |-> NoReq] /\ gone = {}

At(t, pc) == req[t].pc = pc
Goto(t, pc) == req' = [req EXCEPT ![t].pc = pc]
Done(t) == req' = [req EXCEPT ![t] = NoReq]

(* Memory of a kind comes from CUDA at an address that is free *)
Given(t, a, kind, pc) ==
  /\ mem[a] = "free"
  /\ mem' = [mem EXCEPT ![a] = kind]
  /\ req' = [req EXCEPT ![t].addr = a, ![t].pc = pc]

Gives(t, a) == app' = app \cup {a} /\ Done(t)

-----------------------------------------------------------------------------
(* hooked_cuMemAlloc_v2 *)

Alloc(t, n) ==
  /\ up /\ At(t, "idle")
  /\ req' = [req EXCEPT ![t].size = n, ![t].pc = IF policy.managedFirst THEN "capable" ELSE "native"]
  /\ UNCHANGED <<cudaVars, shimVars, driverVars, gone>>

(* Only an out-of-memory result goes on to managed memory *)
Native(t) ==
  /\ At(t, "native")
  /\ \/ \E a \in Addrs : mem[a] = "free" /\ mem' = [mem EXCEPT ![a] = "native"] /\ Gives(t, a)
     \/ Goto(t, "capable") /\ UNCHANGED cudaVars
     \/ Done(t) /\ UNCHANGED cudaVars
  /\ UNCHANGED <<shimVars, driverVars, gone>>

(* The result of this native attempt is the caller's *)
NativeLast(t) ==
  /\ At(t, "last")
  /\ \/ \E a \in Addrs : mem[a] = "free" /\ mem' = [mem EXCEPT ![a] = "native"] /\ Gives(t, a)
     \/ Done(t) /\ UNCHANGED cudaVars
  /\ UNCHANGED <<shimVars, driverVars, gone>>

(* The context's device has managed memory, or it has not *)
Capable(t) ==
  /\ At(t, "capable")
  /\ Goto(t, "managed") \/ Goto(t, "last")
  /\ UNCHANGED <<cudaVars, shimVars, driverVars, gone>>

(* Where a failed managed attempt, and a failed driver attempt, go on *)
Fallback(t) == IF policy.managedFirst THEN Goto(t, "last") ELSE Done(t)
AfterManaged(t) == IF policy.legacy THEN Goto(t, "open") ELSE Fallback(t)

(* gb_alloc_uvm *)
Managed(t) ==
  /\ At(t, "managed")
  /\ \/ \E a \in Addrs : Given(t, a, "managed", "track")
     \/ AfterManaged(t) /\ UNCHANGED mem
     \/ Done(t) /\ UNCHANGED mem
  /\ UNCHANGED <<app, shimVars, driverVars, gone>>

NewEntry(t) == [managed |-> mem[req[t].addr] = "managed", size |-> req[t].size, buf |-> req[t].buf]
Freeing == {t \in Threads : At(t, "freemanaged") \/ At(t, "unregister")}
Full == Cardinality(Entries) + (IF SlotsRace THEN 0 ELSE Cardinality(Freeing)) >= Capacity

(* ht_insert of managed memory *)
Track(t) ==
  /\ At(t, "track")
  /\ \/ ~Full /\ entry' = [entry EXCEPT ![req[t].addr] = NewEntry(t)] /\ Goto(t, "charge")
     \/ Full /\ Goto(t, "untrack") /\ UNCHANGED entry
  /\ UNCHANGED <<cudaVars, uvm, handle, up, policy, driverVars, gone>>

(* CUDA gives the address of a hook back, or refuses and nobody asks *)
ReleaseAddr(t) ==
  \/ mem' = [mem EXCEPT ![req[t].addr] = "free"] /\ UNCHANGED gone
  \/ gone' = gone \cup {req[t].addr} /\ UNCHANGED mem

(* No slot: the memory is freed and the attempt counts as out of memory *)
Untrack(t) ==
  /\ At(t, "untrack")
  /\ ReleaseAddr(t)
  /\ AfterManaged(t)
  /\ UNCHANGED <<app, shimVars, driverVars>>

Charge(t) ==
  /\ At(t, "charge")
  /\ uvm' = uvm + req[t].size
  /\ Gives(t, req[t].addr)
  /\ UNCHANGED <<mem, entry, handle, up, policy, driverVars, gone>>

-----------------------------------------------------------------------------
(* gb_alloc_from_driver *)

(* gb_open_device: the handle is tested, opened and read again unlocked *)
OpenDevice(t) ==
  /\ At(t, "open")
  /\ Goto(t, IF handle = None THEN "create" ELSE "ioctl")
  /\ UNCHANGED <<cudaVars, shimVars, driverVars, gone>>

CreateFile(t) ==
  /\ At(t, "create")
  /\ \/ \E h \in Handles \ opened : opened' = opened \cup {h} /\ handle' = h
     \/ handle' = None /\ UNCHANGED opened
  /\ Goto(t, "ioctl")
  /\ UNCHANGED <<cudaVars, entry, uvm, up, policy, bufs, gone>>

UseHandle(t) ==
  /\ At(t, "ioctl")
  /\ IF handle = None THEN Fallback(t)
     ELSE req' = [req EXCEPT ![t].via = handle, ![t].pc = "alloc"]
  /\ UNCHANGED <<cudaVars, shimVars, driverVars, gone>>

(* GB_IOCTL_ALLOC *)
DriverAlloc(t) ==
  /\ At(t, "alloc")
  /\ \/ \E b \in Bufs : /\ bufs[b] = None
                        /\ bufs' = [bufs EXCEPT ![b] = req[t].via]
                        /\ req' = [req EXCEPT ![t].buf = b, ![t].pc = "register"]
     \/ Fallback(t) /\ UNCHANGED bufs
  /\ UNCHANGED <<cudaVars, shimVars, opened, gone>>

(* cuMemHostRegister maps the buffer at a device address *)
Register(t) ==
  /\ At(t, "register")
  /\ \/ \E a \in Addrs : Given(t, a, "mapped", "pointer")
     \/ Goto(t, "undo") /\ UNCHANGED mem
  /\ UNCHANGED <<app, shimVars, driverVars, gone>>

(* cuMemHostGetDevicePointer, and cuMemHostUnregister when it fails *)
GetPointer(t) ==
  /\ At(t, "pointer")
  /\ Goto(t, "trackmapped") \/ Goto(t, "unpin")
  /\ UNCHANGED <<cudaVars, shimVars, driverVars, gone>>

(* mutant: the buffer is not given back when CUDA refuses it *)
UnpinLeaks(t) ==
  /\ At(t, "unpin")
  /\ ReleaseAddr(t)
  /\ Fallback(t)
  /\ UNCHANGED <<app, shimVars, driverVars>>

Unpin(t) ==
  /\ At(t, "unpin")
  /\ ReleaseAddr(t)
  /\ Goto(t, "undo")
  /\ UNCHANGED <<app, shimVars, driverVars>>

(* gb_free_driver_buf: without a handle nothing is sent, and the result of *)
(* GB_IOCTL_FREE is not looked at                                          *)
FreeDriverBuf(b) ==
  \/ handle # None /\ bufs' = [bufs EXCEPT ![b] = None] /\ UNCHANGED gone
  \/ gone' = gone \cup ({b} \ {None}) /\ UNCHANGED bufs

Undo(t) ==
  /\ At(t, "undo")
  /\ FreeDriverBuf(req[t].buf)
  /\ Fallback(t)
  /\ UNCHANGED <<cudaVars, shimVars, opened>>

(* A full table leaves the allocation untracked, "leaking allocation" *)
TrackMapped(t) ==
  /\ At(t, "trackmapped")
  /\ \/ ~Full /\ entry' = [entry EXCEPT ![req[t].addr] = NewEntry(t)] /\ UNCHANGED gone
     \/ Full /\ gone' = gone \cup {req[t].addr, req[t].buf} /\ UNCHANGED entry
  /\ Gives(t, req[t].addr)
  /\ UNCHANGED <<mem, uvm, handle, up, policy, driverVars>>

-----------------------------------------------------------------------------
(* hooked_cuMemFree_v2 *)

(* mutant: the entry is looked up and stays *)
FreeLooksUp(t, a) ==
  /\ up /\ At(t, "idle") /\ a \in app
  /\ app' = app \ {a}
  /\ req' = [req EXCEPT ![t].addr = a,
               ![t].size = IF entry[a] = None THEN 0 ELSE entry[a].size,
               ![t].buf = IF entry[a] = None THEN None ELSE entry[a].buf,
               ![t].managed = entry[a] # None /\ entry[a].managed,
               ![t].pc = IF entry[a] = None THEN "freenative"
                         ELSE IF entry[a].managed THEN "freemanaged" ELSE "unregister"]
  /\ UNCHANGED <<mem, shimVars, driverVars, gone>>

(* ht_remove decides whose the memory is *)
Free(t, a) ==
  /\ up /\ At(t, "idle") /\ a \in app
  /\ app' = app \ {a}
  /\ \/ /\ entry[a] = None
        /\ req' = [req EXCEPT ![t].addr = a, ![t].pc = "freenative"]
     \/ /\ entry[a] # None
        /\ req' = [req EXCEPT ![t].addr = a, ![t].size = entry[a].size, ![t].buf = entry[a].buf,
                     ![t].managed = entry[a].managed,
                     ![t].pc = IF entry[a].managed THEN "freemanaged" ELSE "unregister"]
  /\ entry' = [entry EXCEPT ![a] = None]
  /\ UNCHANGED <<mem, uvm, handle, up, policy, driverVars, gone>>

(* CUDA frees what it allocated itself; the caller keeps what it refuses *)
FreeNative(t) ==
  /\ At(t, "freenative")
  /\ \/ /\ mem[req[t].addr] \in {"native", "managed"}
        /\ mem' = [mem EXCEPT ![req[t].addr] = "free"]
        /\ gone' = gone \ {req[t].addr}
        /\ Done(t)
        /\ UNCHANGED app
     \/ Gives(t, req[t].addr) /\ UNCHANGED <<mem, gone>>
  /\ UNCHANGED <<shimVars, driverVars>>

(* A refused free puts the entry back, if there is a slot, and reports the *)
(* error                                                                   *)
Refused(t) ==
  /\ \/ /\ Cardinality(Entries) < Capacity
        /\ entry' = [entry EXCEPT ![req[t].addr] =
                       [managed |-> req[t].managed, size |-> req[t].size, buf |-> req[t].buf]]
        /\ UNCHANGED gone
     \/ /\ Cardinality(Entries) >= Capacity
        /\ gone' = gone \cup ({req[t].addr, req[t].buf} \ {None})
        /\ UNCHANGED entry
  /\ Gives(t, req[t].addr)

FreeManaged(t) ==
  /\ At(t, "freemanaged")
  /\ \/ /\ mem' = [mem EXCEPT ![req[t].addr] = "free"]
        /\ Goto(t, "discharge")
        /\ UNCHANGED <<app, entry, gone>>
     \/ Refused(t) /\ UNCHANGED mem
  /\ UNCHANGED <<uvm, handle, up, policy, driverVars>>

(* mutant: the bytes of a freed allocation stay charged *)
DischargeSkipped(t) ==
  /\ At(t, "discharge")
  /\ Done(t)
  /\ UNCHANGED <<cudaVars, shimVars, driverVars, gone>>

Discharge(t) ==
  /\ At(t, "discharge")
  /\ uvm' = uvm - req[t].size
  /\ Done(t)
  /\ UNCHANGED <<cudaVars, entry, handle, up, policy, driverVars, gone>>

Unregister(t) ==
  /\ At(t, "unregister")
  /\ \/ /\ mem' = [mem EXCEPT ![req[t].addr] = "free"]
        /\ Goto(t, "freebuf")
        /\ UNCHANGED <<app, entry, gone>>
     \/ Refused(t) /\ UNCHANGED mem
  /\ UNCHANGED <<uvm, handle, up, policy, driverVars>>

FreeBuf(t) ==
  /\ At(t, "freebuf")
  /\ FreeDriverBuf(req[t].buf)
  /\ Done(t)
  /\ UNCHANGED <<cudaVars, shimVars, opened>>

-----------------------------------------------------------------------------
(* gb_shim_cleanup, when the library is unloaded between the hooks' calls. *)
(* CUDA and GB_IOCTL_FREE give back what they will, and closing the handle *)
(* has the driver free the buffers allocated through it                    *)
Cleanup ==
  /\ up /\ Quiet
  /\ \E back \in SUBSET Entries : mem' = [a \in Addrs |-> IF a \in back THEN "free" ELSE mem[a]]
  /\ \E back \in SUBSET {b \in Bufs : handle # None /\ \E a \in Entries : entry[a].buf = b} :
       bufs' = [b \in Bufs |-> IF b \in back \/ bufs[b] = handle THEN None ELSE bufs[b]]
  /\ handle' = None /\ opened' = opened \ {handle}
  /\ up' = FALSE
  /\ UNCHANGED <<app, entry, uvm, policy, req, gone>>

Hook(t) ==
  \/ Native(t) \/ NativeLast(t) \/ Capable(t)
  \/ Managed(t) \/ Track(t) \/ Untrack(t) \/ Charge(t)
  \/ OpenDevice(t) \/ CreateFile(t) \/ UseHandle(t) \/ DriverAlloc(t)
  \/ Register(t) \/ GetPointer(t) \/ Unpin(t) \/ Undo(t) \/ TrackMapped(t)
  \/ FreeNative(t) \/ FreeManaged(t) \/ Discharge(t) \/ Unregister(t) \/ FreeBuf(t)

Next ==
  \/ Cleanup
  \/ \E t \in Threads :
       \/ Hook(t)
       \/ \E n \in Sizes : Alloc(t, n)
       \/ \E a \in Addrs : Free(t, a)

Spec == Init /\ [][Next]_vars
-----------------------------------------------------------------------------
(* Properties *)

TypeOK ==
  /\ mem \in [Addrs -> Kinds] /\ app \subseteq Addrs
  /\ entry \in [Addrs -> Entry \cup {None}]
  /\ uvm \in Nat /\ up \in BOOLEAN
  /\ opened \subseteq Handles /\ handle \in opened \cup {None}
  /\ bufs \in [Bufs -> Handles \cup {None}] /\ gone \subseteq Addrs \cup Bufs

(* What managed allocations take up, one element for each page *)
ManagedBytes ==
  Cardinality(UNION {{a} \X (1 .. entry[a].size) : a \in {d \in Entries : entry[d].managed}})

(* UvmAllocatedBytes, from which cuMemGetInfo derives the free memory it    *)
(* reports (lines 729-730), is what managed allocations hold.               *)
UvmIsExact == (Quiet /\ up) => uvm = ManagedBytes

(* An entry describes the memory that is at its address now, not an earlier *)
(* allocation there: a free takes the entry out before CUDA can give the    *)
(* address to another thread (lines 557-567).                               *)
EntriesAreCurrent ==
  \A a \in Entries : up =>
    /\ mem[a] = (IF entry[a].managed THEN "managed" ELSE "mapped")
    /\ ~entry[a].managed => bufs[entry[a].buf] # None

(* Between calls everything the hooks took can still be freed: managed and  *)
(* mapped memory is held and tracked, also after a free that CUDA refused   *)
(* (tests/test_free_error.c), and each driver buffer is reached from an     *)
(* entry.  The exceptions are `gone', one by one: what the table had no     *)
(* slot for, and what CUDA or the driver, its result ignored, did not take  *)
(* back (lines 525, 534, 569, 634 and 444).                                 *)
NothingLost ==
  (Quiet /\ up) =>
    /\ \A a \in Addrs : mem[a] \in {"managed", "mapped"} => a \in gone \/ a \in app \cap Entries
    /\ \A b \in Bufs : bufs[b] # None => b \in gone \/ \E a \in Entries : entry[a].buf = b

(* driver/greenboost_win.h:256-259: buffers are accounted to the handle     *)
(* they were allocated through.  The handle that is open is that handle.    *)
BuffersBelongToTheHandle == \A b \in Bufs : bufs[b] # None => bufs[b] = handle
=============================================================================
