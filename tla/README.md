# A TLA+ model of the eXokernel Development Kit (XDK)

XDK lets unprivileged Linux processes drive PCI devices. A kernel module,
*parasite*, hands out device memory, DMA memory and interrupts. The device
drivers, their data structures and their clients live in user space. This
directory holds TLA+ modules for the parts where several threads, the kernel
and a device share state and for the algorithms they rest on, TLC
configurations that check them on small instances, and TLAPS proofs about the
most delicate of them.

## 1. The parts and their modules

| Part of the system | Source | Modules |
|---|---|---|
| NVMe batch manager | `drivers/nvme-ssd/nvme_batch_manager.h`, `nvme_queue.h`, issue path of `nvme_queue.cc` | `BatchManager` |
| NVMe I/O queue pair, CQ thread | `nvme_queue.cc`, `cq_thread.cc` | `QueuePair` |
| the two together | the same, `nvme_drv_component.cc` | `NVMeIO`, contract `AsyncIO` |
| NVMe admin queue | `nvme_queue.cc`, `nvme_command_admin.*` | `AdminQueue` |
| NVMe bring-up and shutdown | `nvme_device.cc` | `NVMeDevice` |
| NVMe test programs | `blast_test.cc`, `mt_tests.cc` | `NVMeTests` |
| nvme-cli | `tools/nvme-cli` | `NvmeCli` |
| parasite: devices, vectors | `kernel/modules/parasite` | `PkDevice` |
| parasite: DMA memory | same, `lib/libexo/sysfs.cc` | `Parasite` |
| shadow block device | `kernel/modules/shadow_bd` | `ShadowBlock` |
| AHCI driver | `drivers/ahci` | `AhciPort` |
| e1000 driver | `drivers/e1000` | `E1000` |
| x540 driver | `drivers/x540-nic` | `X540`, `NicStartup` |
| the two network drivers | | `Drivers` |
| ext2 server, block cache | `fs/ext2fs` | `Ext2Fs`, `BlockCache` |
| channels | `lib/libexo/channel`, `numa_channel` | `SpmcBuffer`, `NumaSpmcBuffer`, `SharedMemory`, contract `Fifo` |
| slabs | `private/__sym_nbb.h`, `exo/fast_slab.h`, `exo/numa_slab.h` | `FastSlab`, `SlabLayout` |
| bitmap allocators | `private/__span.h`, `exo/bitmap.h` | `Spans` |
| metadata pages | `exo/numa_memory.h` | `MetadataAllocator` |
| lock-free queue, ticket lock | `exo/lockfree_queue.h`, `exo/spinlocks.h` | `LockFreeQueue`, `TicketLock` |
| tree, list, shared table | `private/__avl_tree.h`, `common/list.h`, `exo/shm_table.h` | `AvlTree`, `ListChain`, `SharedMemory` |
| threads, events | `exo/thread.h`, `common/sync.h` | `Threads` |
| components | `lib/libcomponent` | `Components` |
| lock, buffer, threads, components together | | `Libexo` |
| core masks | `exo/irq_affinity.h`, `cpu.cc`, `libcommon` | `Topology` |

`PROJECT.json` lists every part with its status, and the hazards of the code at
the line where they bite.

```
            AsyncIO                 what a client is promised
           /       \
  BatchManager     QueuePair        refine AsyncIO
           \       /
            NVMeIO                  the two composed; refines AsyncIO
        AdminQueue <- NVMeDevice    bring-up runs its commands through the queue

             Fifo                   a bounded queue of items
    /         |        \      \
 SpmcBuffer   |     FastSlab  LockFreeQueue    refine Fifo (FastSlab: its free list)
      NumaSpmcBuffer

 PkDevice <- Parasite               detaching frees the DMA areas
 E1000, X540 <- Drivers             the network drivers side by side
 TicketLock, SpmcBuffer, Threads, Components <- Libexo

 MCNVMeDevice  MCDrivers  MCExt2  MCLibexo      the instances TLC runs

 BatchManagerProofs <- NVMeIOProofs             BatchManager; QueuePair, NVMeIO
 NVMeDeviceProofs                               AdminQueue, NVMeDevice
 BlockCacheProofs                               BlockCache with its allocator
 SyncProofs <- LibexoProofs                     SpmcBuffer, Threads; TicketLock,
                                                Components, Libexo
 DriverProofs                                   E1000, X540, Drivers
 PlatformProofs                                 NicStartup, PkDevice, Parasite
```

An `MC` module puts several parts that share no state into one run: a variable
chosen in the initial state (`kind`, `program`) says which part moves. The checks
are those of the parts run one by one.

## 2. What is modelled

### AsyncIO

The contract: a submitted command is outstanding until it completes, once,
commands complete in any order, and a wait returns only when nothing is
outstanding.

### BatchManager

`issue_async_io_batch`, `wait_io_completion`, the id arithmetic of
`nvme_queue.h` and `NVME_batch_manager`.

* State: `cmdid_counter` (`_cmdid_counter`), `last_available_cmdid`, the ring
  `array`, `head`, `tail`; `pc` and `bi` are the producer's position and its
  local record; `cqpc`, `cqtail`, `popped` are the CQ thread's position, its copy
  of `tail` and the record it popped; `inflight` stands for the device.
* Producer actions, one per access to shared state: `BeginBatch` reserves a
  range, `ResetCmdid` restarts the ids when the range would wrap,
  `CheckAvailable`, `PushBatch`, `IssueCommand` (a turn of the issue loop),
  `BeginWait` and `EndWait`. `Spin` is a turn of an `NVME_LOOP` whose condition
  does not hold.
* CQ thread actions: `Update(c)` counts a completion in the first record whose
  range holds its id; `PopBatch` and `StoreAvailable` are the two stores of a
  turn of the pop loop, which the producer can come between.
* `IssueUnrecorded` is `issue_flush`, and the single reads and writes of
  `nvme_device.h`, which take an id without a record. It is part of
  `MixedNext` only.

A command carries the slot of its batch as a history value; the code has only
the id. `ready` is always true when a record is pushed and is left out, and
`notify`, which no caller of
`issue_async_io_batch` fills in, too.

`issue_async_io_batch` takes any length below 0xffff. `last_available_cmdid`
starts at 0, which is no id, so until the first release `is_available` accepts
every range, also one that starts over at 1 with batches in flight. The history
variable `lapped` records that this has happened. The properties are
about `IdsKept`: it has not, or it does no harm because the ring has
no more commands in flight than there are ids (`WindowFits`: 256 records and
65535 ids, batches of up to 256).

### QueuePair

The submission and completion rings, the controller (external: it fetches in
order, completes in any order, posts with the phase of its lap, and raises the
interrupt with the entry or ahead of it, `DevInterrupt`), the kernel's wait queue in non-masking mode, and the CQ thread. `NextSubSlot`
is `next_sub_slot` with `increment_submission_tail`; `FillSlot` writes the
command; `RingSubmission` is the doorbell. `IrqHandler`, `WaitIrq` and
`ClearSignal` are `msi_threaded_irq_handler` and the two halves of
`msi_proc_read`. `GetNextCompletion`, `UpdateSqHead`, `RingCompletion` and
`DrainEnds` are the loop of `CQ_thread::entry`.

A completion with an error status aborts the process in `get_next_completion`
(`assert(false)`), so the controller of the model only succeeds.

### NVMeIO

Extends both. Issuing a command is one command of the batch manager and a
submission slot of the queue pair; a completion taken from the ring is handed to
`update` before the doorbell, as in `CQ_thread::entry`. The CQ thread does not
look at the ring again before the pop loop ends.

### AdminQueue

One synchronous command at a time: `Submit` builds it and rings the doorbell,
`WaitIrq` sleeps, `PollAgain` and `GetResult` are the loop and the end of
`check_command_completion` and the read of the result word,
`RingSingleCompletion` acknowledges, `GetStatus` is the check of
`create_io_completion_queue` and `create_io_submission_queue`. The interrupt may
come before the entry is visible, which the comment at `nvme_queue.cc:441` says
happens.

### Fifo

What every buffer of libexo promises: an item that is put in is taken once, by
one consumer, in order, and the buffer never holds more than its capacity. It
may start with items in it, as the free list of the slab does. An
item is taken when the consumer claims it; the copy and the return of the call
come later.

### SpmcBuffer and NumaSpmcBuffer

The two `SPMC_circular_buffer` templates, one access to shared memory per
action. In `SpmcBuffer` `consume` is `ReadTail` (into an `unsigned int`),
`CheckEmpty`, `CompareAndSwap`, `TakeItem` and `ClearSlot`, and `produce` is
`CheckFull`, `FillSlot` and `Publish`; `Word` is the range of the `unsigned int`.
In `NumaSpmcBuffer` consumers claim (`CompareAndSwap`) and hand back
(`HandBack`) in order, and `Init` lets the four wrapping counters start anywhere.
A failed call is repeated by its caller, as in `testing/channel`.

### FastSlab

`insert_item` and `read_item` of `Symmetric_nbb` with their odd and even
counters, `count_limit` and differences modulo `Word`, and the slab over it: `ReadStep` runs
under the consumer's lock and `InsertStep` under the producer's; `LoadAvail` and
`StoreAvail` are the update of `__num_avail` after the lock is released. Clients
free only blocks they have.

### TicketLock

`TakeTicket` and `Enter` are `lock`, `Unlock` is `unlock`, `TryRead` and `TrySwap` are
`trylock`; `UShort` stands for 2^16.

### BlockCache

First `Simple_allocator`, the chunk allocator of the ext2 block cache, for clients
that have at most one chunk each: `CallAlloc`, `Pass` (the chunk looked at is taken),
`TakeChunk`, `FreeChunk`. Then the cache over it, with the silo entries as
clients: `do_silo_read` with `find_best_silo`
and `allocate_silo`: `Probe` tests the pointer, `Look` reads under the lock,
`Scan` and `Evict` choose an entry, `NewSilo`, `AllocChunk`, `Load` and `ReadNew`
fill it. The spin lock of an entry is `lock`; a chunk's lock covers one turn of
a loop and is the atomicity of `AllocChunk`. `content` is the offset from which a chunk was
loaded. A write goes to the device and touches nothing modelled.

### ShadowBlock

One segment of a request at a time: `SetCommand`, `SeeReader` (the poll of the
wait queue), `WakeReader`, `PresetAck` (writes only), `WaitAck`; one user process that
writes INIT, sleeps in `read`, and writes an acknowledgement for each command.
Signals are left out.

### NVMeDevice

Extends `AdminQueue`. `stage` is the place in `init_device` and
`shutdown_device`; every admin command of bring-up (identify, set features,
create and delete queues) goes through the admin queue, with its data page and
the rings alive or freed. The controller is external: it may refuse a command,
grants as many queues as it likes, says in its identify page (`Pages`) which entry
sizes and how many name spaces it has, and takes `CC.EN` and `CSTS.RDY` through `hw_reset` with its time-outs.

### NVMeTests and NvmeCli

`NVMeTests` has the programs of `blast_test.cc` and the throughput test of
`mt_tests.cc` as clients of the asynchronous interface: threads that submit,
wait and free, and a main thread that stops them. `NvmeCli` is the command line
tool: `argconfig_parse` stores options into the bytes of a config struct by the
option's type; a sub-command then checks the config and packs the command.

### PkDevice and Parasite

`PkDevice` has the devices and their vectors, `Parasite` adds the DMA areas.
Actions are writes to and reads of sysfs and proc files: grant, attach, detach,
unload, allocation of vectors, `irq_mode`, the read of an interrupt file
(with the wait and the clearing of the signal apart), DMA allocation, ownership,
`mmap`, free and process exit. `alloc_dma_huge_pages` maps anonymous memory, which the
module does not see; the flag that `grant_dma_access` sets is zero; the destructor of
`Device_sysfs` frees one allocation after the other. A failed `BUG_ON` or a null dereference kills the
thread in the kernel and leaves the device as it is (`dead`); the self-deadlock of
masking mode is a state (`hung`).

### AhciPort, E1000, X540, Drivers, NicStartup

Each has the driver's threads and the device as processes. `AhciPort` brings a
port up, identifies the disk and runs first-party DMA commands, with frames in a
slab and the adapter fetching them. `E1000` has the interrupt handler walking the receive ring, `send` and
the service thread; `e_burst` records that the card has lapped the ring before the
handler first moved RDT, which `rx_init` leaves one past the ring. `X540` receives, scanning status bits backwards in groups as the code does,
and sends: `multi_send` with `xmit_cleanup`, and `send` with `tx_free_bufs`, on buffers the
stack kept. `Drivers` runs both network drivers, with the receive queue, the stack and the
two transmit paths of the x540 sharing its packet buffers. `NicStartup` is the start of the process: configuration, memory
thread, NIC thread, receive threads and their flags while packets arrive. The file gives
any positive number of frames (`Frame_nums`); the assertion of `MemComponent::alloc` ends
the process (`no_memory`).

### Ext2Fs

The main thread reads partition table and superblock; each session looks up
paths, opens, lists, seeks and reads through direct and indirect lists. All
sessions share the buffer of the block device behind a lock. A disk maps offsets
to the object stored there; using bytes as something else ends the thread, and so do the
assertions of the server: `get_inode_ref` on an unused entry, `locate_file` on an indexed
directory, a listing larger than the shared memory.

### LockFreeQueue, Threads, Components

`LockFreeQueue` takes one access to shared memory per step; a deleted node may
be handed out again, and an empty heap ends the process. `Threads` is `Base_thread` and `Event`: a section under the lock is
one step, a wait gives the lock up and may return without a wake; the `entry` of an interrupt thread
(`Polling`) asks `thread_should_exit`, then waits for an interrupt that may never come. `Components` is loading, binding and reference
counts, with the components of the x540 driver and of block devices. `Libexo` puts these two
beside the ticket lock and the buffer; a step is one of a single part.

### Spans, MetadataAllocator, SlabLayout

Spans are initialised by the winner of a compare-and-swap, and blocks are bits of
words swapped by compare-and-swap; the slots of `Bitmap_tracker_threadsafe`, in the same
module, are too. `span_free` panics after `MaxRetries` lost swaps. `SlabLayout` cuts an area into partitions per
core, aligned blocks and headers with physical addresses, then allocates and frees
across cores.

### AvlTree, ListChain, SharedMemory, Topology

Data structures against the set, sequence or table they stand for. `AvlTree` keeps
balance factors and passes changes of height up as the code does; `ListChain`
keeps the pointers that removal leaves behind; in `SharedMemory` writers and readers of the lookup table
hold its lock while the stores of a row become visible in any order, and a channel creates its
areas over what a previous process left; `Topology` takes core sets through words and back, those of
the NUMA wrapper included, with a `thread_siblings` file of as many words as the machine has.

## 3. Runs

| Run | Instance | What it shows |
|---|---|---|
| `batch_manager` | 3 slots, 5 ids, batches up to 3 | until the ids start over with nothing released: unique ids, completions credited to their own batch, no early release, no spinning on an idle device, calls end, `AsyncIO` implemented |
| `batch_flush` | 3 slots, 9 ids, batches up to 2, unrecorded commands | **violation**: the counter assertion fails |
| `nvme_io` | 3 slots, 2 ids, single commands, rings of 3 | batch manager and rings agree on what is in flight; a command is in one place; phases right on every lap; no wake-up lost but for entries visible after their interrupt; `AsyncIO` implemented; batches and waits end |
| `nvme_device` | 1 or 2 queues, lengths below, at and above the limit, 3 identify pages | driver: polls find their reply, memory lives while the controller uses it, commands are legal, bring-up ends; `ProgramsSound`: the test programs and a queue pair of 2 slots; the command line tool |
| `admin_status` | rings of 3, 3 ids | **violation**: a refused creation is taken for a success |
| `ext2` | 2 sessions, 4 disks with all kinds of lists, an unused entry, an indexed directory; 2 silos, 2 readers, 4 reads | answers are true, files that exist open (but for `disk.hidden`) and no others, silos hold their data, the search finds a chunk, calls return |
| `ext2_free` | same | **violation**: an inode is deleted twice |
| `drivers` | rings of 3 to 6, 4 packets for the e1000; 1 card with 2 channels and 1 to 3 frames; transfers of 0, 3 and 5 sectors where 4 fit; 2 PCI devices, 2 threads, 2 pages | packets in order, reclaim only what is done, safe start, no stray handler, DMA mapped by its owner, progress |
| `libexo` | 3 threads, range 5; buffers of 2 slots, 2 consumers, 5 items over a tail of range 4; 3 nodes, 1 pusher, 1 popper | exclusion, first come first served, buffers are FIFOs (the channel's until its tail wraps), objects are used while alive, waiting ends |
| `libexo_data` | 2 blocks, 2 threads, 8 keys, words of 2 to 4 bits, 1 retry | allocators keep blocks apart, structures and masks read back what was put in, the slab's free list is a FIFO |
| `lfq_aba` | 2 poppers, 3 nodes | **violation**: a compare-and-swap succeeds with a stale peek |
| `shadow_ack` | 3 read commands | **violation**: done before acknowledged |

### Why the bounds are enough

The id space wraps after a few batches, so the NVMe runs go through several
restarts of the ids with old batches in flight; a ring of 3 records has an
empty, a partly filled and a full state and wraps too. Rings of 3 entries hold
two commands and change phase every third completion. In `nvme_io` the batch manager
never lets more commands out than the ring holds; the spin on a full
ring is in `nvme_device`, where a queue pair of 2 slots takes 2 commands. Symmetry
is used only where values are compared and never told apart, and never with
liveness.

The buffers go round their slots more than twice with consumers stopped at any
step, so a consumer meets the producer and another consumer a lap later.
Wrapping counters start at every value, so the wrap falls
at every point of a call. The slab has no bound on its length: its counters come
back to where they were. The block cache has more places to read than
silos, so entries are evicted while another reader scans or waits for them. Descriptor rings of 5 and 6 with
groups of 2 and thresholds of 2 and 3 make groups and thresholds fall on every
place of the ring. `AvlTree` inserts and removes 8 keys in every order, enough for every
rotation on the way up; the disks of `ext2` reach singly, doubly and triply
indirect lists with a few blocks. Runs whose clients may stop are checked without
deadlock.

In the driver the batch ring has 256 records and ids run to 65535, so `WindowFits`,
`RingSize * MaxBatch <= MaxCmdId + 1`, is met by batches of up to 256 commands, which
`blast_test.cc` uses. The constants of `nvme_io` and `batch_flush` meet it; those of
`batch_manager` do not, and its batches of 3 of 5 ids reach every exception the
properties name: ids that start over before the first release, and a range of more than
half of the ids. `libexo` makes one item more than the range of the channel's tail, the
e1000 gets a packet more than its ring has descriptors, and `Frame_nums` has
numbers of frames on both sides of what a core needs: the conditions of
`BuffersAreFifo`, `PacketsInOrder` and `NicStartsSafely` are false in states of
the runs, not by the constants.

### Fairness

The producer's loops retry without a limit and the CQ thread is never stopped,
so a step of theirs that stays enabled is taken: weak fairness of each. The
controller is weakly fair in fetching, and completes each command it
has fetched; the interrupt handler is a kernel thread. No fairness is assumed of
the client starting a call.

Producers and consumers of the buffers call again until they succeed and their
threads are scheduled: weak fairness of each. In
`TicketLock` a spinning thread runs and a holder leaves its critical section.
In `BlockCache` a thread inside `read` runs on; a spin lock is not fair, and
`CallsReturn` holds because the other reader's calls are bounded. In the drivers
the handler threads, the service loops and the device's answers are weakly fair,
arriving packets and new calls are not. Threads of `Threads` run; a thread whose `entry` never
returns is not assumed to, and no device owes an interrupt thread an interrupt.

### What the violations mean

* `batch_flush`: a flush takes an id but no record. If it is in flight when the
  ids come round, its completion is credited to the batch that covers its id.
* `admin_status`: the completion head has moved on before the status is read,
  so the check looks at an empty slot.
* `ext2_free`: `find_local_directory` deletes the directory it was given, and so
  does `locate_directory`, which called it.
* `lfq_aba`: with two poppers the head node can be deleted, handed out again
  and become head before the first popper swaps. `libexo` shows the queue sound with
  one pusher and one popper. With two pushers a pusher can still read the `_next` of a
  node the popper has deleted.
* `shadow_ack`: the acknowledgement flag is never cleared, so the second read
  completes with the answer to the first. The write path sets the flag itself
  before it waits.

### Limits of the code the runs stay within

These follow from the source and bound what the passing runs may be read to
say. Where a property has an exception for one of them, the model reaches it and the
property names it.

* `_last_available_cmdid` starts at 0, which is no id, so until the first
  release `is_available` accepts every range (`lapped`). With batches of more than 256
  commands ids in use are then given out again.
* After a restart of the ids a range of more than half of them can contain the
  last released id, and `is_available` stays false (`TooLong`).
* A completion that becomes visible after its own interrupt, which the comment at
  `nvme_queue.cc:441` describes, stays unread until the next interrupt if the CQ thread
  has gone back to sleep (`NoLostWakeup`, `IOCallsEnd`). The admin queue polls.
* `get_result` reads the result word after the slot has been cleared.
* `consume` of `channel/spmc_circbuffer.h` computes the new tail in 32 bits; when it
  wraps, the 64-bit head goes on and the buffer is a FIFO no longer (`wrapped`).
* `insert_item` takes the difference of counters that restart at
  `count_limit` modulo 2^32, so a full buffer is not seen as full around the
  restart. The slab has as many slots as blocks and never inserts into a full one.
* `__num_avail` is updated outside the locks. `LoadAvail` and `StoreAvail` model
  this; nothing but statistics reads the count.
* A request of nearly a whole silo that starts inside a block ends beyond the
  silo loaded for it. The requests of `ext2` are shorter.
* `find_best_silo` keeps the greatest `_age`, the time of loading, so the silo
  evicted is the one loaded last. No property depends on the choice.
* NVMe: the number of queues granted is computed and dropped, so queues the controller
  did not grant are asked for (`CommandsLegal`); a refused create
  or delete goes unnoticed; `check_controller_result` asserts the entry sizes and
  `nvme_init_device` fewer than 64 queues, so bring-up may end there (`BringUpEnds`); `set_irq_coal` passes the system vector
  (`nvme_device.cc:234`), the completion queue uses the logical one; at shutdown
  the controller stays enabled while the admin rings are freed; `sync_io` waits for a semaphore nobody
  posts; `mt_tests` updates `total_ops` without its lock.
* nvme-cli: `fw-download` with the default piece size never advances, though
  `nvme-fw-download.txt` speaks of 4k; the buffers of firmware download and
  security-send are not filled; a log of less than 4 bytes wraps the dword count;
  `passthru` fills dwords 2, 3 and 10 to 12 from `--cdw13` (`nvme.c:2248-2252`), while
  the example at `nvme-admin-passthru.txt:96-100` uses `--cdw10`; an option of one
  or two bytes is stored as four, over an option given before it (`SpillsInto`):
  `fw-activate` loses an action given before the slot; `list` assumes at most 256
  nodes.
* parasite: pages of DMA areas are never freed; `DMA_AREA_FLAG_SHARED_ALL` is 0, so
  granting access shares nothing; the handler of a legacy interrupt is never
  freed and wakes nobody; masking mode waits for its own handler; the device list has no
  lock. `DriversProgress` promises service of a vector in non-masking mode that is enabled.
* AHCI: two callers on one port would share the SDBS bit; errors are ignored; a transfer of
  more sectors than one descriptor holds is cut short, and a write of none is the largest
  (`AhciReturnsWhenDone`). e1000: on a second lap `send` meets the done bit of the first;
  `rx_init` leaves RDT one past the ring, so a card that gets more packets than the ring holds
  before the handler takes its first writes over them (`e_burst`). x540:
  `frame_num_per_core` is compared with 0 only, and too few frames end the process in an
  assertion (`NicStartsSafely`); `tx_free_bufs` frees one window of
  `tx_rs_thresh` buffers whatever was sent; a queue is marked ready before its ring
  is enabled; `send` and `multi_send` on one queue disagree about indices.
* ext2: zero block addresses end a list, so sparse files are misread; directory
  entries with inode 0 are listed, and hide a directory of the same name behind
  them (the inode number fails an assertion); files of an indexed directory cannot be
  opened (`disk.hidden`); `start_lba * 512` is 32 bits wide; handles are never reused; the size
  check of `read_file` and of `read_from_offset` differ.
* libexo: `Base_thread` leaves `_exit` unset, `join` before `start` hangs; `IRQ_thread`
  looks at `thread_should_exit` only after an interrupt, so deleting one may not
  return (`LibexoProgress`); cancelling a thread in a wait leaves the event's mutex locked; `reset_and_wait` by two
  waiters can lose a wake; `add_range` refuses a range of one core; hyper-thread
  partners are wrong across 32-bit words, and on machines whose `thread_siblings` has
  fewer than eight words, the rest being read from the stack; slab asserts look at one
  partition only, so small partitions may straddle huge pages, and where alignment has cost a block
  physical addresses past the first page are wrong (`PhysKnown`); `span_free` panics after
  256 lost swaps; `tail` and `Stack::pop` return the element taken out last of an emptied list;
  a process attached to a `Shm_table` maps it read-only and cannot take the lock the class asks its
  readers for; `Reentrant_spin_lock` never clears its owner;
  `NUMA_basic_allocator::alloc` never records what `free` asserts.

## 4. Proofs

Eight modules hold theorems. Each is about the specification the runs check, for
every value of its constants within the assumptions named, and each rests on an
inductive invariant. TLC checks `IInv` of `BatchManager`, `QPInv`, `DeviceInv`, `LockInv`,
`SpmcInv`, `ThreadsInv` and `CompInv` on small instances too: they are properties of runs, or
conjuncts of `QueueInv`, `QueuesSound` and `LibexoInv`. The invariants of the drivers and of the
parasite are defined in the proof modules, `NicInv` in `NicStartup`.

| Module | Theorem | Statement |
|---|---|---|
| `BatchManagerProofs` | `Invariance` | `Spec => []IInv` |
| | `TypeCorrect` | `Spec => []TypeOK` |
| | `IdsAreUnique` | `Spec => []UniqueIds` |
| | `CompletionsAreCounted` | `Spec => [](CountsOwn /\ (IdsKept => AssertCounter))` |
| | `ReleaseIsSafe` | `Spec => []NoEarlyRelease` |
| | `IdleDeviceNeverBlocks` | `Spec => []BlockedOnlyByWork` |
| | `ImplementsAsyncIO` | `Spec => ClientSpec` |
| | `RingBoundsIds` | `ASSUME WindowFits PROVE Spec => Client!Spec` |
| `NVMeIOProofs` | `QueuePairInvariance` | `QPSpec => []QPInv` |
| | `QueuePairSafety` | `QPSpec => [](OnePlace /\ PhaseTellsNew /\ HeadLags /\ NoLostWakeup)` |
| | `QueuePairService` | `QPSpec => ServiceSpec` |
| | `IOInvariance` | `IOSpec => []IOInv` |
| | `PathRunsItsParts` | `IOSpec => Parts` |
| | `NoCommandIsLost` | `IOSpec => [](IdsKept => SameCommands)` |
| | `RingsAreSafe` | `IOSpec => [](IdsKept => QueueInv)` |
| | `PhaseBitIsRight` | `IOSpec => [](IdsKept => PhaseTellsNew)` |
| | `WakeupsAreKept` | `IOSpec => [](IdsKept => NoLostWakeup)` |
| | `PathImplementsAsyncIO` | `IOSpec => Implements` |
| `NVMeDeviceProofs` | `AdminQueueSafety` | `Spec => [](PollFindsReply /\ InStep /\ NeverFull /\ pc # "aborted")` |
| | `DeviceInvariance` | `NVMeSpec => []DeviceInv` |
| | `AdminStaysInStep` | `NVMeSpec => []QueuesSound` |
| | `ControllerMemoryIsLive` | `NVMeSpec => []ControllerMemoryLive` |
| | `CommandsAreLegal` | `NVMeSpec => []CommandsLegal` |
| `BlockCacheProofs` | `Invariance` | `Spec => []IInv` |
| | `AllocFindsChunk` | `Spec => []NoPanic` |
| | `ChunksAreApart` | `Spec => []OneOwner` |
| | `CacheInvariance` | `CacheSpec => []CacheInv` |
| | `CacheReadsTrue` | `CacheSpec => []CacheSound` |
| | `CacheNeverPanics` | `CacheSpec => []NoPanic` |
| `SyncProofs` | `BufferInvariance` | `SpmcSpec => []SpmcInv` |
| | `SlotsStayApart` | `SpmcSpec => [](wrapped \/ SlotsApart)` |
| | `BufferIsFifo` | `SpmcSpec => FifoSpec` |
| `LibexoProofs` | `LockInvariance` | `LockSpec => []LockInv` |
| | `Exclusion` | `LockSpec => []MutualExclusion` |
| | `Fair` | `LockSpec => FirstComeFirstServed` |
| | `PartsAgree` | `LibexoSpec => []LibexoInv` |
| | `LifetimesKept` | `LibexoSpec => []ObjectLifetimes` |
| `DriverProofs` | `RingsKeepOrder` | `DriversSpec => []PacketsInOrder` |
| `PlatformProofs` | `StartUpIsSafe` | `NicSpec => []NicStartsSafely` |
| | `HandlersDetached` | `PkSpec => []NoStrayHandler` |
| | `DmaIsMapped` | `PkSpec => []DmaMapped` |

### Batch manager

Assumed: `ConstantsAssumption` only, so batches of any length below the number of ids.
`UniqueIds` needs the ranges of the live records to be disjoint, and a new range to be
disjoint from the live ones. There are two reasons why it is, and `IInv` has both.

* With `WindowFits` the size of the ring alone keeps ids apart (`WindowInv`): the ids
  from the start of a record of age `k` (the last pushed has age 1) to the last reserved
  id, going round at most once, number at most `k * MaxBatch`, plus less than one batch of ids
  skipped when the counter was restarted. A push makes every age grow by one, and
  the ring holds at most `RingSize - 1` records.
* Otherwise it is `last_available_cmdid`, once that is an id (`ReleaseInv`). Counted from
  it, the live ranges lie in the order of the ring, the one the pop loop is about to release first
  and the new one last, and none reaches round to it: `is_available` and
  `can_reset_cmdid` are what keeps it so.

Neither holds once the ids have started over before the first release (`lapped`) without
`WindowFits`, and nothing is claimed from then on (`IdsKept`).
The other conjuncts say where the producer is in its range (`ProducerInv`), that a command
in flight has an id of its own batch that has been given out (`FlightInv`), that
the pop loop stays within the records it saw (`ConsumerInv`), and that a
record's counter, its commands in flight and its commands to be issued add up to
its length (`AllCounted`). `ProducerInv` also says that the end of the newest batch,
wherever it is (in the ring, in the hand of the pop loop, or stored), is the counter,
or was when the ids restarted: with no batch left, `last_available_cmdid` is that id and
the tests of the spin loops succeed (`IdleDeviceNeverBlocks`), `TooLong` ranges excepted.

One lemma per action (`BeginBatchIInv`, `ResetCmdidIInv`,
`PushBatchIInv`, `IssueCommandIInv`, `UpdateIInv`, `PopBatchIInv`, ...); lemmas for
the 16-bit arithmetic (`IdArith`, `AllocId`), the ring (`LiveAge`, `PushLive`,
`PopLive`), the window (`WindowArith`) and the search of
`_update_single_iteration` (`MatchIsOwner`: it finds the record the completion
belongs to and no other).

### Queue pair and I/O path

Assumed for the queue pair: `QueueAssumption` (rings of at least two entries). The hard
part is `update_sq_head`: completions come in any order, yet each carries the
controller's submission head, and the host takes it as its own. `QPInv` keeps
everything in order on the circle: the host's head, the heads of the completions not yet
seen (older ones further behind), the controller's head, the doorbell, the tail.
`InOrder` says this with distances modulo the ring length. `CompRing` places the change
of phase at the controller's tail, from which `PhaseTellsNew` follows; `OnePlace`
counts a command once over slot, controller, completion and hand.

`NVMeIO` runs both. `IOInv` is the two invariants and `SameCommands`, which ties the
commands the batch manager has in flight to those in the rings, the last two while `IdsKept`; assumed
besides: `CommandAssumption` (the commands are the ids of batches). `PathRunsItsParts`
shows that every step of the path is a step, or none, of each part (of the queue pair while
`IdsKept`). The refinement and the
phase and wake-up theorems then follow from those of the parts.

### Admin queue and device

Assumed: `AdminAssumption` (rings of at least three entries and at least as many
ids; 0 is a result and a status), `DeviceAssumption`. `AdminInv` follows the one command of
`AdminQueue`: sent, with the controller, or answered, with the rings blank elsewhere,
the doorbell and `sq_head` a step behind the head, and the phase right for the
next entry. That `sq_head` lags by one never fills a ring of three (`NeverFull`).

`DeviceInv` adds the life of the device: how `CC.EN` and `CSTS.RDY` go with the stage
(`EnableInv`), that the rings are in step unless the controller is off between two sessions
(`RingsInv`), which command a stage may have and what memory it has (`CmdInv`), and exactly which
queues a controller that refused nothing has in each stage, before and after it
fetched the command (`QueuesInv`). A controller may refuse any command; then
only the first three are known, and `ControllerMemoryLive` and `CommandsLegal` promise
no more. `result = 0` and `pc # "aborted"` are in the invariant because
`get_result` reads a slot that has been cleared; `admin_status` shows what that costs.

### Chunk allocator and block cache

Assumed: `AllocatorAssumption` (finitely many clients, at most as many as
chunks) and `CacheAssumption` (the clients are the cache entries). That alloc finds a chunk is not
obvious: it looks at one chunk after the other while chunks behind it are freed
and chunks before it are taken. The invariant counts: at most
`NUM_CHUNKS - k` clients hold or look at something beyond chunk `k`. A client passes
chunk `k` only when it is taken, and its owner is not beyond it, so the set of those
beyond `k` is smaller than the set beyond `k - 1`.

Every step of the cache is a step or a stutter of its allocator. `CacheInv` adds who may hold an entry's lock (`LockInv`) and, by the phase of the holder, what
the entry has of age, silo and chunk (`EntryInv`). With it an entry's pointer that was seen
without the lock is still a silo under the lock, and an entry frees its chunk before it
asks for another.

### Ticket lock and buffer

Assumed for the lock: `TicketAssumption`, fewer threads than numbers. The invariant: threads that wait or hold have
different numbers, all less than `users - ticket` after `ticket` (modulo the range),
the holder has `ticket`, and there are exactly `users - ticket` of them. The count
is what keeps `users` from catching up with `ticket` from behind, and makes a
successful `trylock` mean that nobody waits.

Assumed for `SpmcBuffer`: `BufferAssumption`. `SpmcInv`, until the tail has gone past the range of
the `unsigned int` (`wrapped`): the published items, those being emptied and the one filled in but not
published lie in slots of their own (`Live`), a consumer about to swap has not seen a tail
ahead of the real one (`CountsInv`), and slots being emptied are apart. The refinement maps `Publish`
to a put and a successful `CompareAndSwap` to a take; the lost races are stutters.

### Threads and components

Threads: no step changes both a thread object and the shared event, so `ThreadsInv` is proved in two
halves, `BaseInv` and `EventInv`. That no wake lets two `wait_and_reset` calls out is not
inductive: a set event must have a wake nobody has used yet (`consumed < wakes`), and while it is
set every `reset_and_wait` under way must have seen a wake.

Components: `release_ref` decrements and then tests the value it got, so between the two a count of zero
belongs to one client (`Last`). `CountInv` says that a count is the number of references the
clients hold, counted one by one (`Tokens`); `LifeInv` that a loaded component with count
zero has exactly one client about to unload it. Then no two clients unload, and none is left that should.

`LibexoInv` is the conjunction for the parts; `PartSteps` shows that a step of `Libexo` is a step or a
stutter of each.

### Network drivers

Assumed: `E1000Assumption` (two descriptors), `RxAssumption` (the burst is a multiple of the
look-ahead and smaller than the ring), `TxAssumption` (thresholds divide the ring).

`E1000Inv`: the card's head is as many descriptors ahead of `rx_buf_pos` as packets wait; once
the handler has moved RDT the head stops one short of a lap; until then it may go over descriptors
not yet read, from when on nothing is claimed (`e_burst`); exactly the waiting descriptors are done and carry the next packets in order.

`RxInv` for the x540: the handler reads status bits backwards in groups and gives
descriptors back only at the end of a burst, so `rx_tail` lags behind by `Taken`. That those and the
waiting ones together are fewer than the ring keeps the card off descriptors still to be read.
Reading backwards, a done bit means that all before it are done too (`RxLooked`), so the
sum of the bits is the number of packets that can be taken, although the card goes on in between.

`BufInv`: a buffer is in a receive descriptor, free, with the stack, or in the software ring of
one transmit queue, and there once. Both clean-ups (`xmit_cleanup`, `tx_free_bufs`)
give back what they take out of the ring.

### Start-up of the x540 process

Assumed: `NicAssumption` (at most five channels, as there are five flow signatures; any positive number
of frames). `NicInv` says for each card what is set up
when the NIC thread is at a given stage with it: `StageOf` reads the stage off the thread's position, `Set` collects flows, filters, queues,
rings, vectors and threads, `Stock` what each allocator must still have for what is to come, where the file gives `Enough` frames. A step of
the NIC thread is a step for one card (`SetupStep`); the memory thread, the
receive and transmit threads and the card leave the stages alone (`KeepStep`). Any of the waits for
the hardware may end in a panic, and any allocation in a failed assertion; either stops the process, perhaps with a ring half configured:
`NicInv` holds only until then, and the last step is shown to be safe by itself (`GivesUp`,
`RingGivesUp`). `StartUpIsSafe` therefore rests on `NicStartsSafely /\ (NicAlive => NicInv)`.

### Parasite

Assumed: `PkAssumption`, `DmaAssumption`. `HandlerInv`: a handler belongs to a device with a minor
number, to a vector that has a `/proc` entry, and to a device that counts its vectors;
without the last two, `pk_device_cleanup` could leave a handler behind and `msi_alloc_store`
attach one twice.

`DmaInv`: a page has at most one thread that has mapped it or has an area for it (`OneHolder`), and
between the write and the read of `dma_page_alloc` the first area of the caller on the list
is the one just written (`ReadsBack`). Others add areas in front and take areas away, but none of the
caller's: `list_add`, `list_del` and the filter by owner keep the first of its own.

### Only model-checked

* Liveness (`CallsEnd`, `IOCallsEnd`, `BringUpEnds`, `CallsReturn`, `LibexoProgress`, `DriversProgress`): TLAPS
  reasons neither about fairness nor about ENABLED.
* What is defined by recursion or computed from bits: `StructuresReadTrue` (the tree, the list),
  `MasksReadTrue` (words and bits), `AnswersAreTrue` and `OpensWhatExists` (path lookup and
  indirect lists), `OptionsAndImage` (parsing of options). The provers have no induction over data.
* `ReclaimsDone`: for the transmit paths it would need an invariant on which descriptors of a batch carry
  the report bit, with indices modulo both the ring and the threshold; for AHCI one about the digits of
  the block number, which the model takes by division. Neither has been proved.
* `AllocationsApart` and `FreeListIsFifo`: the words of the bitmap allocators are sets of bits changed
  by compare-and-swap, and the slab's counters restart at a multiple of its length; no proof was attempted.
* `BuffersAreFifo` is proved for one of its three queues (`BufferIsFifo`); `NumaSpmcBuffer` and
  `LockFreeQueue` are checked by TLC.
* `ProgramsSound`: its queue pair is proved (`QueuePairInvariance`, `QueuePairSafety`), the test
  programs are not.

## 5. Not modelled

* NVMe synchronous I/O: there is no hand-shake to model (see the limits above).
* The single-threaded tests, the examples and the small tools make one call
  after the other. `tools/fio` and `tools/qemu` are other projects' patches.
* The RAM disk of `shadow_bd` (`sbd.c`, `partition.c`), and signals that interrupt
  the waits of the shadow device.
* Writes through the ext2 block cache go to the device and leave the silos as
  they are; the server never writes.
* Concurrent attaching and detaching in parasite: the list has no lock and the
  outcome would be undefined.
* Contents of identify data, register and structure layouts, PCI configuration
  access, ACPI tables, the PHY of the x540, and logging.
