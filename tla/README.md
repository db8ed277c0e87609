# A TLA+ development of GreenBoost

GreenBoost lets CUDA programs use more memory than the GPU has. On Windows a KMDF driver
(`windows-port/driver`) pins system memory and maps it into the process, a shim
(`windows-port/shim`) intercepts CUDA allocations, and a storage class
(`windows-port/storage`) pages a read-only model file through a bounded pool of VRAM. On Linux
a kernel module (`greenboost.c`) exports DMA-BUFs and an `LD_PRELOAD` shim
(`greenboost_cuda_shim.c`) imports them. This directory holds models of these parts, the
configurations that model-check them, and proofs. Paths and line numbers below are relative to
the repository root.

## Inventory

| Component | State | Operations | Hard behaviour |
|---|---|---|---|
| **FileTensor**, `storage/file_tensor.cpp` | slots (page, mapping, LRU clock), lanes (pinned buffer, page, pending read, event), stream, `poisoned` | constructor, `acquire_many`, `record_use`, destructor | overlapped reads, asynchronous copies and consumer kernels on several streams against eviction; lanes reused inside one call; every CUDA or file call may fail; teardown with work in flight |
| **Windows driver**, `driver/greenboost_win.c` | `BufTable`, `NextBufId`, `PoolAllocated`, `NvmeAllocated`, `ActiveBufs`, `LruList`; per handle `OwnedBufs`, `OwnedCount` | ALLOC, FREE, PIN_USER_PTR, MADVISE, EVICT, RESET, GET_INFO, close, unload | a parallel queue, two locks and an unlocked bitmap; lookup and use under different holds of a lock; handlers that undo half-done work; ids that wrap; processes that die |
| **Driver watchdog**, same file 611-761, 1372-1510 | `OomActive`, `SwapPressure`, the named event, the thread | `GbEvtDeviceAdd`, `GbWatchdogThread`, `GbEvtDeviceCleanup` | a thread against the device that goes and comes back; an exchange and a signal against a client that asks between them; a guard that two parties set |
| **Shim pointer table**, `shim/greenboost_cuda_shim_win.c` 219-391 | 131072 slots, 64 locks, a tombstone count | `ht_insert`, `ht_remove`, `ht_reclaim_tombstones` | probe chains walked one lock at a time |
| **Shim hooks**, same file 393-706, 996-1114 | the table, `UvmAllocatedBytes`, `DeviceHandle` | `cuMemAlloc_v2`, `cuMemFree_v2`, load, unload | chains of calls that fail half way; a free that CUDA refuses; address reuse between threads; a lazily opened device |
| **Shim prefetch worker**, same file 126-213, 1020-1076 | ring of 256 requests, condition variable, `prefetch_running` | `enqueue_prefetch`, `prefetch_worker`, its start and its shutdown | a full ring; a flag read and written outside of the lock; a wait for a thread that cannot end before the wait does |
| Shim symbols, Detours, environment | pointers set once | `gb_resolve_symbols`, `gb_install_hooks`, `gb_read_config` | none that a state model reaches |
| **Linux driver**, `greenboost.c` | IDR, tier counters, `lru_list`, DMA-BUF references, `pressure_efd` | ALLOC, PIN_USER_PTR, MADVISE, EVICT, POLL_FD, `gb_release`, watchdog, load, unload | DMA-BUF life time against IDR, list and counters; a buffer used after the mutex is released; an event put without a lock |
| **Linux shim**, `greenboost_cuda_shim.c` | table that zeroes deleted slots, prefetch ring | allocation, free and prefetch overrides, worker | broken probe chains, failures between mmap, pin and registration, addresses reused before the free has ended |
| llama.cpp integration, `integrations/llama` | one FileTensor per tensor | `gb_expert_use` | acquiring, using and recording the use |
| ExLlamaV3 layer, launcher, scripts, tests | – | – | sequential or tooling |

How they interact: the shim's hooks call CUDA, keep the pointer table, and call the driver by
ioctl; the Windows driver keeps what each handle owns and frees it when the handle closes, the
Linux module frees a buffer when the last reference to its DMA-BUF goes. FileTensor
calls CUDA's virtual memory API and the file system, and the llama.cpp integration is its
client. The two halves (allocation hooks, file residency) share no state.

What makes each part correct:

- FileTensor: a kernel never sees a page leave, or a chunk change, under it; what `acquire_many`
  returned holds the file's bytes; a copy never reads a buffer that a read is filling; calls end.
- Driver: counters equal the memory held; every live buffer can still be released by its owner;
  the list leads to live buffers only; unloading leaves nothing. That no handler touches freed
  memory, and that a close takes nothing of others, is up to the clients: no lock sees to it (see
  the divergences).
- Pointer tables: an atomic map; where the Linux one is not, no mapping is given back twice.
- Hooks: memory is native, or tracked and charged, or given back, on every path.
- Threads of their own (watchdog, prefetch worker): they are gone before what they use, nothing is
  lost or slept through on the way to them, and stopping them ends.

## Modules

| Module | Models | Checked by | Proved in |
|---|---|---|---|
| `Residency` | the abstract promise of FileTensor: whole sets become resident, pages leave only while no consumer runs | through the refinement | `FileTensorProofs` |
| `FileTensor` | `file_tensor.cpp`, one step per call that blocks or fails | `MCFileTensor` | `FileTensorInv` (invariant), `FileTensorProofs` |
| `FileTensorHistory` | FileTensor with history variables for the replacement policy | `MCFileTensorHistory` | `FileTensorProofs` |
| `WinDriver` | `greenboost_win.c`, a step per hold of `BufLock` or `DevLock` and per unlocked access | `MCWinDriver` | `WinDriverProofs` |
| `WinWatchdog` | the watchdog, its device and the clients of its event, a step per access to what they share, with time | `MCWinWatchdog` | `WinWatchdogProofs` |
| `PtrMap` | the abstract map from pointers to entries | through the refinement | `ShimTableProofs` |
| `ShimTable` | the hash table, a step per slot lock | `MCShimTable` | `ShimTableProofs` |
| `ShimAlloc` | the allocation hooks, a step per call of CUDA or the driver, over the atomic map that `ShimTableProofs` justifies | `MCShimAlloc` | `ShimAllocProofs` |
| `RequestQueue` | the abstract bounded queue the prefetch ring promises | through the refinement | `PrefetchQueueProofs` |
| `PrefetchQueue` | the prefetch ring, its worker and the library's load and unload, with time | `MCPrefetchQueue` | `PrefetchQueueProofs` |
| `LinuxDriver` | `greenboost.c`, a step per hold of a lock or unlocked access | `MCLinuxDriver` | `LinuxDriverProofs` |
| `LinuxShim` | the overrides, table and prefetch ring of `greenboost_cuda_shim.c`, a step per call or slot lock | `MCLinuxShim` | `LinuxShimProofs` |

### FileTensor

`map`, `access`, `data` and `slotAge` are the slots; `lanePage`, `buffer`, `io`, `target` and
`laneAge` the lanes; `copies` and `jobs` what the GPU still has to do; `pc` and the variables
after it the locals of `acquire_many`. `Acquire` is its entry, `Owner` its steps in program
order, `Device` the completions of the disk and the GPU, `Submit`/`RecordUse`/`Destroy` the
client. Abstractions:

- a request is the set of pages its spans cover, visited in any order; rejected calls (range,
  thread, too many pages) change nothing and are left out;
- `++clock` stamps are kept as ranks, which is all the comparisons read;
- the stream's order is over-approximated: pending copies and kernels finish in any order;
- zeroing the tail of the last chunk is part of its copy; byte counters are left out;
- a call that fails is `CallFails` and the like; `Refused` says where one cannot succeed, because
  the context is lost or the read it waited for failed. The constructor's failures leave no object;
- the destructor waits for the reads in any case, but where the context cannot be pushed (lines 61,
  76) it neither waits for the stream nor frees anything: `Abandon`;
- the client submits kernels only on pages it acquired and uses the object from one thread, which
  `file_tensor.h:10-13` requires and `gb_expert_use` does.

### WinDriver

`heap` is the buffers with their label (`tier`), the way their memory was obtained (`backing`)
and their id; `table` is `BufTable`; `pool`, `nvme`, `activeBufs` are the counters; `owned` and
`ownedCount` belong to a handle; `req` is what each thread's request has done so far; `held` the
ids a client believes it holds. Abstractions:

- `LruList` is a set: nothing reads its order;
- adding the bytes and linking the buffer (`Account`), and `Register` with `ActiveBufs`, are one
  step each, as is clearing `Active` with unlinking (`Unlink`);
- `GbLookupBuf` takes any id from anybody, and no lock orders what follows it with a FREE, a RESET
  or a close. With `Careful`, clients use the ids they were given, one request per id at a time,
  reset beside no other request and close a handle when its requests have ended; the runs take
  clients to be careful. `WinDriver_race.cfg` takes them as they come: a handler then uses a freed
  buffer, after which it is not followed;
- EVICT's new label decides which counter a free lowers, which is modelled; which routine gives the
  memory back (566-602) is not, so with EVICT only the sum of the counters is checked;
- GET_INFO, POLL_FD and rejected requests change nothing; `OomActive` belongs to `WinWatchdog`;
- bounds: `IdLimit` stops allocations after that many ids, `OwnLimit` bounds `OwnedCount`;
  `MaxBufs`, sizes and caps are small numbers of blocks.

### WinWatchdog

`phase` is where `GbEvtDeviceAdd` and `GbEvtDeviceCleanup` are, `pc` where each system thread is;
`created` is the handle between `PsCreateSystemThread` and `ObReferenceObjectByHandle`, `thread`,
`running`, `event`, `oom` and `swap` the fields of the global device. `World` changes the memory
available and the pagefile's charge at any time. The device can be removed and added again, and the
image unloaded and loaded, any number of times; a failed addition is cleaned up by the framework as
well. Abstractions:

- time: `Tick` lets a unit pass, only while no thread of the driver can run, so that a thread's
  steps take none and `KeDelayExecutionThread` lasts `Nap` units;
- `PressureEvent` is tested and read again for `KeSetEvent` in two steps;
- clients are external: by `greenboost_ioctl_win.h:127-135` they open the event by its name, ask
  GET_INFO and wait; they hold a handle of the device as long, so it is removed after they closed;
- of `GbAllocTier2` only the refusal that trips the guard (`Refuse`) is here, the rest is in
  `WinDriver`; the buffers freed by the cleanup are `WinDriver`'s `Unload`.

### ShimTable and PtrMap

A thread's probe looks at one slot per step, under that slot's lock. `ht_reclaim_tombstones` holds
all 64 locks and is one step: no other thread holds more than one lock, and none is held between
two slots. The threshold is tested on an unlocked count, after which the thread still has to take
the locks: others come in between. `ReclaimsAlone` assumes that no other probe has begun when the
locks are taken, which the code does not ensure; `ShimTable_moved.cfg` drops it. The run's hash has
no chain that runs over the end of the table; `ShimTable_wrap.cfg` has. Payload fields are left
out, since an entry is written and read under one hold of a lock. A pointer is in one call at a
time, as for any allocator's client. `ht_lookup` has no caller.

### ShimAlloc

`mem` is what CUDA has at an address, `entry` the table, `bufs` which handle each driver buffer
was allocated through, `policy` the two settings read from the environment at load, all four
combinations of which the run starts from. CUDA and the driver may refuse any call, every free
included: what a free is refused for stays allocated. `gone` is a history of what the shim lets go
of all the same: memory the full table has no slot for (the code logs it as "leaking allocation"),
and memory whose free was refused where the code does not look at the result (444, 525, 634) or
cannot put the entry back (569). `Register` and `GetPointer` are the two calls that map a driver
buffer, `Unpin` the undo of the first. `gb_open_device` tests, opens and stores the handle without
a lock, in steps of their own; the run has one handle, `ShimAlloc_handles.cfg` two.
`Cleanup` frees what the table has, each free taken or refused, and closes the handle, whereupon the
driver frees the buffers that are left (`greenboost_win.c:1340-1363`). Values below the threshold, a
zero allowance and missing symbols go straight to CUDA and are left out. Unloading happens between
calls: whether Detours lets it happen inside one is not in the source. The run assumes that no other
insertion takes the last slot while CUDA refuses a free (`SlotsRace`); `ShimAlloc_refused.cfg` drops
this.

### PrefetchQueue and RequestQueue

`ring`, `head` and `tail` are the ring, `cs` and `owner` the critical section, `phase` is where
`DllMain` is between attach and the unmapping of the image, `worker` where the thread is, `call`
the request each hook is enqueuing. `prefetch_running` is read by the hooks before they take the
lock, by the worker inside and outside of it, and cleared by the unload without it: each is a step.
Time is modelled as in `WinWatchdog`. A thread is started and ended by the loader, which holds its
lock while `DllMain` runs: `Begin` and `Exit` wait for it (`LoaderLockFree`), so that the wait of
the cleanup for its worker always ends by the timeout of 5 s. Abstractions:

- a request is a model value; which of the two prefetch functions serves it makes no difference;
- hooks may be under way at the unload. `QuietUnload` assumes that the worker has begun by then or,
  where none could be created and so nothing is waited for, that no hook is under way; the code
  ensures neither, and `PrefetchQueue_hasty.cfg` drops it;
- a prefetch call lasts at most `Busy` units: assumed shorter than the wait.

`LibraryOutlivesItsUsers` has two parts: nobody uses the critical section after it was deleted
(`SectionOutlivesItsUsers`), or the code after it was unmapped (`CodeOutlivesItsUsers`).

`RequestQueue` has a queue, what is being served, and a reply to each caller: kept, or dropped only
when the queue is full or closed. The critical section, the indices and the worker's sleep are
hidden.

### LinuxDriver

`heap` is the buffers with the tier and kind of their pages, `idr` and `lru` what points at them
without holding them, `refs` the descriptors, mappings and attachments that do; `call` is the
system call each task is in. `gb_release` is the steps `Unlink`, `Unregister`, `Free`, entered by
the last `Drop` or by an error of ALLOC. The IDR changes under its mutex (`Register`, and the undo
in `Install`) while the buffer's own id is written outside of it (`Name`, `Unname`). `event` is
`pressure_efd`, `taken` the references the module holds on each context, `watchdog` and `target`
the watchdog between reading and signalling it. Abstractions:

- the list is a set (nothing reads its order); the reserve check depends on the machine's free
  memory and may fail at any time, like every allocation;
- sizes are pages, huge pages round up to `Huge`; the flags FREEZE sets are read by nobody;
- the watchdog reads `pressure_efd` once for its test and its signal, as the compiler may;
- `Careful` clients name a buffer only while they hold it and in one call at a time. The run
  assumes it, `LinuxDriver_race` drops it; `ExportFails` lets
  `dma_buf_export` run out of memory;
- what follows a use of freed memory is not modelled: a step on a freed buffer is disabled;
- bound: `MaxRefs` references outside of the module.

### LinuxShim

`host` is what the shim has made of each address it mapped (mapped, pinned, registered), `cuda`
what CUDA has at an address, `table` the slots, `held` the pointers the application has, `queue`
and `job` the prefetch ring and its worker. `gb_overflow_alloc` is `Map` to `Managed`, in the order
of its calls with each failure's undo; `ht_remove` takes two steps per slot, since it reads the
slot once more after releasing its lock. Nobody looks at whether `cuMemHostUnregister` (603, 683)
worked or whether there is one, so that a registration may outlive its mapping and be found by the
next one at that address (`Leftover`). `FreeAsync` is the application freeing through
`cuMemFreeAsync` or `cudaFreeAsync`, which nobody overrides: the entry that the asynchronous
allocation made stays in the table. Abstractions: the device pointer of a registered mapping is its
address, as under unified addressing; the decision `gb_needs_overflow` may go either way; a pointer
is in one call at a time; the asynchronous and runtime allocations end in another CUDA function and
are otherwise the same.

## Runs

All runs take under three minutes. Bounds are the constants of the configurations.

| Run | Instance | Shows |
|---|---|---|
| `filetensor_staging` | 4 pages, 3 slots, 2 staging lanes, 1 consumer | safety of eviction, of lane reuse inside a call and of teardown |
| `filetensor_cached` | 4 pages, 2 slots, 2 cache lanes, 1 consumer | host cache, replacement, refinement of `Residency`, liveness |
| `windriver_processes` | 2 handles on 2 threads, 2 buffers, rounding to blocks of 2 | exact counters and no orphans, over failures of every allocation step, resets and closes |
| `windriver_advice` | 2 threads on 1 handle, pinned user memory, advice, eviction, no RESET | under the unlocked bitmap ids keep working, the LRU list has live buffers only, the counters sum to the memory held, unloading frees all |
| `windriver_evict` | 1 process with EVICT | **violated**: freeing an evicted buffer charges the wrong counter |
| `winwatchdog_pressure` | 2 system threads, 1 client, charges of 74, 75 and 90 %, memory below and at the reserve, nap 1, wait 10 | the watchdog ends before what it uses goes, over restarts; no change of pressure is slept through, and a lasting one arrives; the guard clears |
| `shimtable_threads` | 3 threads, 3 pointers, 3 slots, reclaim above 1 tombstone while no probe has begun, no chain over the end | the table implements the atomic map, such compactions included |
| `shimalloc_policies` | 2 threads, 3 addresses, 2 entries, 2 buffers, 1 handle, sizes 1 and 2, every policy; a refused free keeps its slot | entries describe the memory at their address, charges are exact, what the hooks took is tracked or was refused |
| `prefetch_worker` | 2 threads, a ring of 3, nap 1, calls of up to 2, wait 3, hooks under way at the unload | the library outlives its users under `QuietUnload`, the worker never sleeps on a request, the ring is a bounded queue, requests are served, unloading ends |
| `linuxdriver_buffers` | 2 careful tasks, 2 buffers, 2 eventfds, the watchdog, exports that succeed | exact counters, IDR and list lead to live buffers |
| `linuxshim_calls` | 2 threads, 2 mappings, 1 CUDA address other than these, 3 slots, all colliding | no mapping is given back twice or under its holder |
| `linuxshim_chain` | the same | **violated**: a zeroed slot hides an entry, whose mapping is never given back |

Why these bounds: FileTensor's hazards need a slot to be taken from a consumer, a lane to be used
twice in one call (three pages over two lanes), and a page to come back after eviction; all happen
with four pages. The driver's need two requests in flight; the table's a chain
of three colliding pointers with a deletion in it, and a reclaim after two; the hooks' two threads
between which an address moves, and a table that two entries fill. The prefetch ring is full with
two requests, wraps, and is filled by two hooks against the worker; its times keep the order of the
code's (a nap of 1 s and, as assumed, a prefetch call are shorter than the wait of 5 s) and leave a
unit between any two. The watchdog's charges are the two edges of its levels and a value below, and
a second system thread is what a restart could wrongly leave behind. The Linux driver's need a
buffer that one task releases while another advises or evicts the one next to it; the Linux shim's
a chain of three with a hole and two threads on it.

Deadlock is checked except where the process ends (`ShimAlloc`, after unloading).

Fairness. FileTensor (`FairHSpec`): the owner thread takes the steps that carry its call on
(`Progress`), and a call ends in an error where it cannot succeed (`Refused`); reads that were
issued complete or fail, and the GPU executes copies and ends kernels. The code waits without a
timeout for exactly these (`GetOverlappedResult` with `TRUE`, `cuEventSynchronize`,
`cuStreamSynchronize`), so it relies on them. No call is assumed to fail that could succeed: a wait
ends because what it waits for comes, and `CallsEnd` is violated as soon as reads need not
complete. `PrefetchQueue`: every thread that can run runs, entering the critical section is
strongly fair (Windows' lock is free again and again while others use it), and time passes.
`WinWatchdog`: threads run, a woken client asks, time passes, and the pagefile query, which may
fail at any time, does not fail for ever (strong fairness of `Exchange`). Nothing is assumed of who
calls: no hook, client, load or unload is forced.

Every module states its type invariant, which is proved (`TypeCorrect`, or a conjunct of `IInv`)
and listed in no run.

### Divergences that have no run

Beside the runs, these configurations have TLC refute what a comment or document says, or show what
an assumption of a run excludes; each is one invariant or action property of the module named by
the file. Where a row names changes, it is the configuration with these changes, and the property in
the place of those it lists.

| Configuration | Property | Divergence |
|---|---|---|
| `FileTensor_fifo.cfg` | `FifoSlotReuse` | `EXPERIMENTAL.md:81` says FIFO, the code is least recently used |
| `WinDriver_unique.cfg` | `UniqueIds` | after `NextBufId` wraps, the increment walks into ids in use (`greenboost_win.c:156`) |
| `WinDriver_stale.cfg` | `CloseFreesItsOwn` | RESET leaves ownership bits; a later close frees another handle's buffer (1021) |
| `WinDriver_race.cfg` | `NoUseOfFreed` | between `GbLookupBuf`'s unlock (194) and the use, another request frees the buffer |
| `WinDriver_bitmap.cfg` | `NoOrphans` | two requests of one handle lose a bit of `OwnedBufs` (`greenboost_win.h:273`) |
| `WinDriver_cap.cfg` | `PoolWithinCap` | the cap is tested before rounding, without a lock (334) |
| `WinDriver_evict.cfg`, `Flags = {TRUE}` | `FrozenStaysInT2` (PROPERTY) | EVICT does not read `Frozen` (1114) |
| `WinDriver_evict.cfg`, `Ops = {"alloc", "madvise", "evict"}` | `EvictedStaysUnlinked` | advice links an evicted buffer again (1057) |
| `WinWatchdog_pressure.cfg`, `RefFails = TRUE` | `WatchdogEndsFirst` | a thread that could not be referenced is not waited for (722) |
| `WinWatchdog_pressure.cfg`, `Clients = {c1, c2}` | `NoMissedPressure` | the event resets when it lets one client go (671); the event per process of `greenboost_ioctl_win.h:132` is not implemented |
| `ShimTable_wrap.cfg` | `EntriesReachable` | compaction of a chain that runs over the end leaves an entry behind an empty slot, against 362-366, "Re-insert all live entries to fix probe chains" |
| `ShimTable_moved.cfg` | `NoMiss` | a reclaim moves an entry behind a probe in progress (352) |
| `ShimAlloc_handles.cfg` | `BuffersBelongToTheHandle` | two threads open the device twice (399) |
| `ShimAlloc_refused.cfg` | `UvmIsExact` | CUDA refuses a free whose entry was removed, and the slot is taken meanwhile (569): the charge of memory no longer tracked stays |
| `PrefetchQueue_hasty.cfg` | `LibraryOutlivesItsUsers` | a hook under way where no worker is waited for, or a worker that has not begun, meets what the unload deleted (199, 1076) |
| `PrefetchQueue_worker.cfg`, `Busy = 3` | `LibraryOutlivesItsUsers` | a prefetch call as long as the wait outlives it (1072) |
| `PrefetchQueue_worker.cfg` | `DeletesWhatExists` | without the CUDA symbols `prefetch_cs` is deleted without having been initialised (1076) |
| `LinuxDriver_export.cfg` | `LruNodesLive` | when `dma_buf_export` fails, the buffer is freed and stays in `lru_list` (`greenboost.c:625`) |
| `LinuxDriver_export.cfg` | `NoFault` | the same path frees a huge-page buffer through the page array it does not have |
| `LinuxDriver_race.cfg` | `NoUseOfFreed` | MADVISE and EVICT use the buffer after the mutex is released (800) |
| `LinuxDriver_race.cfg` | `CountersAreExact` | two EVICTs of one buffer both move its bytes (833-844) |
| `LinuxDriver_buffers.cfg`, `OpsOf <- BufferCalls` | `LruHoldsTier2` | T3 buffers are linked, and evicted ones again (196, 845) |
| `LinuxDriver_buffers.cfg` | `SignalsALiveEvent` | the watchdog signals a context that is being put (1074) |
| `LinuxDriver_pollers.cfg` | `EventsBalanced` | two POLL_FDs put one context twice (866-869) |
| `LinuxShim_nodevice.cfg` | `NothingLost` | without `/dev/greenboost` the fresh mapping stays behind (`greenboost_cuda_shim.c:573`) |
| `LinuxShim_calls.cfg` | `AdvisesMappings` | the worker advises memory freed since (121) |
| `LinuxShim_reuse.cfg` | `FreesItsOwn` | the address goes back before CUDA is asked to free it (684, 691) |

One divergence is not a matter of states: `patches/exllamav3/.../greenboost.py:53` packs ALLOC's
request as 24 bytes where `greenboost_ioctl.h:35` has 16, so its ioctl number is not the driver's
and the layer always falls back to ordinary memory.

## Proofs

TLAPS checks these for every value of the constants that satisfies the modules' assumptions
(finite budgets at least one, special values distinct from data): any number of threads, handles,
buffers, pages and slots, where a run has two or three. Every invariant and every safety property
of a step that a passing run checks is stated by a theorem. Where a theorem assumes more, the
assumption is named below. The runs satisfy each; the last column says whether the code ensures it
and what shows the behaviour without it.

| Assumption | Means | Without it |
|---|---|---|
| `Careful` (`WinDriver`) | clients order what no lock in the driver orders | the code does not ensure it: `WinDriver_race.cfg` |
| `IdsLast` (`WinDriver`) | every allocation that can start gets an id that was never used | `NextBufId` walks into ids in use (`WinDriver_unique.cfg`), and a stale bit of a RESET names another's buffer (`WinDriver_stale.cfg`) |
| `OneThreadPerHandle` (`WinDriver`), of `NothingIsOrphaned` and `TypeCorrect` | no two requests race on one handle's bitmap | a bit of `OwnedBufs` is lost (`WinDriver_bitmap.cfg`) |
| no EVICT (`WinDriver`), of `CountersExact` and `TypeCorrect` | no buffer is relabelled | `WinDriver_evict.cfg`; `TotalExact` is what remains |
| no RESET (`WinDriver`), of `HeldIdsLead` | nobody frees what others hold | RESET is there to do so |
| `Orderly` (`LinuxDriver`) | clients name a buffer in one call at a time, while they hold it; `dma_buf_export` does not fail | the code ensures neither: `LinuxDriver_race.cfg`, `LinuxDriver_export.cfg` |
| `SlotsKept` (`ShimAlloc`), of `UvmStaysExact` and `TypeCorrect` | no insertion takes the slot of a free that CUDA then refuses | `ShimAlloc_refused.cfg` |
| `SeparateAddresses` (`LinuxShim`), of `HeldMemoryKept` | `mmap` and CUDA do not return the same address | `LinuxShim_reuse.cfg` |
| `[][CompactsWell]_vars` (`ShimTable`) | every reclaim meets no probe that has begun, drops no entry and leaves all reachable, as the comments of 341-366 say of it | the code does not ensure it: `ShimTable_moved.cfg`, `ShimTable_wrap.cfg` |
| `Nap < StopWait` (`PrefetchQueue`) | 1 s and 5 s | – |
| `Busy < StopWait` (`PrefetchQueue`), of `LibraryStays` | a prefetch call takes less than 5 s | CUDA does not promise it: `Busy = 3` |
| `[][HooksLeave]_vars`, of `SectionStays`; `[][QuietDetach]_vars`, of `LibraryStays` | without a worker no hook is under way at the unload; and with one it has begun | the code ensures neither: `PrefetchQueue_hasty.cfg` |
| `Prompt`, `OneClient` (`WinWatchdog`) | the thread can be referenced and naps for less than the wait; one client of the event | `RefFails = TRUE`, two clients |

### The arguments

- `FileTensorProofs`, `Invariant`: `IInv` is inductive. The safety properties alone are not: that
  a returned page holds the file needs what `data`, `buffer` and the pending `copies` of its slot
  are at every point of the call. `FileTensorInv` states it in named parts: `CallInv` (the locals
  at each `pc`), the pages still on their way (a slot's content or a copy or a batch entry that
  will bring it), lanes (what a buffer holds in each state of its read), and the pool (no page
  twice). One lemma per action of `Next` preserves it.
  - From it, all the safety properties the runs check, among them that a victim slot and a free
    lane always exist (a counting argument over the request, the slots and the batch) and, as an
    action property, that a call keeps the pages it was asked for.
  - `Refinement`: `Spec => ImplementsResidency`. The mapping takes `resident` to the pages whose
    slot holds them readable, `inUse` to the pages of unfinished consumers, `phase` to the point
    of the call. Each action maps to one abstract action or a stutter. `PromiseKept` is the
    abstract promise itself.
  - `WorkingSetKept`, of `FileTensorHistory`: what the latest two requests touched is younger than
    every other mapped page (`RecentInv`), and a full pool that lacks a page of two requests that
    fit it has a slot with a page of neither (`Spare`, by counting), so the oldest slot is such a
    one. The ages differ, which `++clock` gives and `TouchOrder` keeps.
- `WinDriverProofs`: the actions of `WinDriver` are first reduced to twenty-odd kinds of steps
  (`StepKinds`, `ClientKinds`), which say what each changes and leave its cause out; the layers of
  the invariant are proved over these.
  - `Shape`: what a request carries at each `pc`.
  - `IdInv`: ids are left for all allocations under way.
  - `ClaimInv`: an id is claimed by at most one handle, by its bits, its client or a request of
    it.
  - `BufInv`: a request that has a buffer has it alone, and what its label says of the buffer
    holds until its next step, though `BufLock` is released between any two; a buffer that no
    request has is in the slot of its id. It gives `LinkedBuffersLive` and, with
    `CountInv`, `UnloadingFreesAll`.
  - Side by side above it: `HeldInv` (`HeldIdsLead`); `CountInv` and `ExactInv` (`CountersExact`),
    where the bytes of a set of buffers are the cardinality of a set of their blocks (`Extent`), so
    that adding and freeing are facts about finite sets, and `CountInv` alone shows that with EVICT
    too the sum of the two tiers is right (`TotalExact`); `MarkInv` and `OwnerInv`
    (`NothingIsOrphaned`), that a handle's bits are its buffers and a close has emptied the slots
    it has passed. `TypeCorrect` comes last: that `OwnedCount` and the counters do not go below
    zero needs all of them.
- `LinuxDriverProofs`: three layers. `Shape` is what a call carries at each `pc`; `BufInv` says
  where each live buffer can be found, by its id, its references or the one call that is making or
  releasing it, and who may touch it at each `pc`; `CountInv` corrects the counters by the buffers
  between two tiers (`InHand`). The link in `lru_list`, which holds no reference, is safe because
  `Unlink` comes before `Free` on every path but one, the failed export that `Orderly` leaves out.
- `ShimAllocProofs`: `OwnInv`, an address is one entry's, one call's or the application's, gives
  `EntriesStayCurrent` with nothing assumed: even where accounts are lost, no entry describes memory
  that moved. `KeptInv` and `BufInv`, what is allocated is in reach of an entry or a call, or is
  `gone`, give `NothingIsLost`, with nothing assumed either: every free may be refused, the device
  opened by several threads, the slot of a refused free taken. `SlotInv` (an entry that a free may
  put back has its slot) and `UvmInv` (the charge is the entries' and the calls' on their way) give
  `UvmStaysExact`.
- `LinuxShimProofs`: each mapping has one owner and is given back once, whatever the hash, the
  table's size and the failures (`MappingsOwned`). The strengthening says what entry a call can
  carry at each `pc` and how far its mapping has come there, maybe under a registration that an
  earlier one left (`Staged`). It says nothing of chains: an entry lost behind a zeroed slot stays
  lost, but is never given back twice. `UInv` adds whose an address is: a pointer is the
  application's or one call's, except that of a free that has given its mapping back, which finds
  nothing of CUDA's there (`HeldMemoryKept`).
- `ShimTableProofs`, `TableCorrect` and `AtomicMap`: every entry is reachable from its hash over
  non-empty slots, there once, found by its removal, and the table implements `PtrMap`. The
  strengthening says that the part of a chain a thread has already passed stays free of empty
  slots: insertions and removals never empty one, a reclaim does. The theorems take the whole
  specification, reclaims included, and hold of the behaviours in which each reclaim does what its
  comments promise (`CompactsWell`): what they show is that this is all the table needs.
- `PrefetchQueueProofs`: three layers. `IInv` holds of every behaviour: `PhaseInv` says who may be
  where in each phase of the library, `LockInv` ties the owner of the critical section to where the
  threads are; it gives `WakesForWork` and `RingIsAQueue` with nothing assumed. The safety of the
  unload is a matter of time only, so the other two count it: while the cleanup waits, whatever the
  worker still does before it has left the critical section for good (`SectionInv`, for
  `SectionStays`) or the code (`CodeInv`, for `LibraryStays`) ends before the wait does. A worker
  that is late, or in a long prefetch call, still finds its critical section: of the two
  assumptions only that of the hooks concerns it. For the refinement, `head` and `tail` map to the
  sequence between them; a lemma each for appending and taking over the end of the ring.
- `WinWatchdogProofs`: `WatchdogReturns` and `NothingMissed`. The invariant says that whoever runs
  is `created` or `thread` (so a restart cannot leave a second watchdog), that its delay ends before
  the wait, and that the event exists as long as it is signalled or waited for.

Only model-checked: liveness (`CallsEnd`, `TeardownEnds`, `OomClears`, `PressureReachesClient`,
`RequestsServed`, `UnloadEnds`), which rests on fairness and so on `ENABLED`, out of the prover's
reach; and that the reclaims of the run's table, with its hash and no probe begun, are such as
`CompactsWell` asks.

## Not modelled

- **Windows shim, symbols, hooks, environment**; **Linux shim, constructor and reported sizes**:
  pointers and settings that are written once before the hooks can run, the child processes'
  injection (`CreateProcess` with the same library), and the overrides of `cuDeviceTotalMem` and
  `cuMemGetInfo`, which add to what CUDA answers an allowance, on Windows less what
  `UvmAllocatedBytes` (exact by `UvmIsExact`) and the machine's free memory leave of it. They change
  no state.
- **Registry and `GbReadConfig`**: read once before the device exists; they are the constants.
- **ExLlamaV3 layer**: sequential Python; its ioctl never reaches the driver (above), so the only
  path is the fallback to ordinary tensors.
- **llama.cpp integration**: `gb_expert_use` is FileTensor's client; which experts a token selects
  is data.
- **Launcher, scripts, build, measurement**: text, installation and tooling. **Tests** exercise the
  parts above; properties and findings cite them.
- GET_INFO, the sysfs file and the byte counters of `gb_file_stats` only report.

## Plan

1. FileTensor with its promise, invariant, theorems and refinement. Done, replacement included.
2. The Windows driver. Modelled, checked, its safety proved.
3. The pointer table of the Windows shim with its refinement. Done; left: that a reclaim that meets
   no probe, on a table without chains over the end, is such as `CompactsWell` asks, as a theorem.
4. The hooks. Modelled, checked and proved.
5. The Linux driver. Modelled, checked and proved for orderly clients. Left: what still holds when
   `dma_buf_export` fails.
6. The Linux shim. Modelled, checked and proved.
7. `PrefetchQueue` and `WinWatchdog` with their theorems. Done.
