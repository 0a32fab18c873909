------------------------------ MODULE AhciPort ------------------------------
(***************************************************************************)
(* One SATA port of the AHCI driver: bringing the port up (scan_ports,     *)
(* init, identify_device) and the synchronous first-party DMA commands     *)
(* (sync_fpdma).  One thread drives a port; the host bus adapter and the   *)
(* disk run beside it and are modelled from the registers the driver       *)
(* polls.  A command frame is what is written into it: the digits of the   *)
(* block number and of the sector count, in base Base where the code has   *)
(* bytes, and the transfer length of the physical region descriptor,       *)
(* counted in sectors, which holds PrdSectors different values.            *)
(***************************************************************************)
EXTENDS Integers, FiniteSets, FiniteSetsExt, Functions

CONSTANTS
    Slot,         \* command slots the callers name (0 .. 31 in the code)
    Frame,        \* command frames of the port's slab (10 in the code)
    Block, Count, \* block numbers and sector counts the callers pass
    Base,         \* 256 in the code
    PrdSectors,   \* sectors a descriptor's byte count can tell apart: 2^22 / 512
    Emulated,     \* the device is the one of VirtualBox or QEMU
    None

AhciAssumption ==
    /\ 0 \in Slot
    /\ \A b \in Block : b \in 0 .. Base^6 - 1
    /\ Count \subseteq Nat /\ PrdSectors < Base^2

VARIABLES
    phase,        \* where the driver's thread is
    initialized,  \* _initialized
    cur,          \* the request of the running call and its frame
    free,         \* frames in _cmd_frame_allocator
    frame,        \* contents of the command frames
    hdr,          \* command list: the frame each slot's header points to
    pxci, pxsact, \* slots issued, slots with a queued command outstanding
    pxis,         \* interrupt status bits, cleared by writing ones
    bsy,          \* BSY of the task file
    disk,         \* what the disk is doing
    identity,     \* the identify data has been copied
    done          \* the last command the disk carried out

ahciVars == <<phase, initialized, cur, free, frame, hdr, pxci, pxsact, pxis, bsy,
              disk, identity, done>>

Identify == [op |-> "identify"]

\* ata_port is the disk behind the port: absent, a packet device, or an ATA disk
AhciInit ==
    /\ phase = "init" /\ initialized = FALSE /\ cur = None
    /\ free = Frame /\ frame = [f \in Frame |-> None] /\ hdr = [s \in Slot |-> None]
    /\ pxci = {} /\ pxsact = {} /\ bsy = FALSE /\ identity = FALSE /\ done = None
    /\ pxis \in SUBSET {"DHRS", "SDBS"}
    /\ disk \in {[kind |-> k, fetched |-> None, queue |-> {}] : k \in {"none", "atapi", "ata"}}

-----------------------------------------------------------------------------
\* The frame of a request, and what the disk makes of it.
Digit(n, i) == (n \div Base^i) % Base
Number(d) == MapThenSumSet(LAMBDA i : d[i] * Base^i, DOMAIN d)

setup_fpdma_cmd(r) ==
    [op |-> r.op, tag |-> r.slot,
     lba |-> [i \in 0 .. 5 |-> Digit(r.block, i)],
     sector_count |-> [i \in 0 .. 1 |-> Digit(r.count, i)],
     dbc |-> (r.count - 1) % PrdSectors]

\* to the disk a count of 0 is the largest one
Decoded(f) ==
    LET n == Number(f.sector_count)
    IN  IF f.op = "identify" THEN Identify
        ELSE [op |-> f.op, slot |-> f.tag, block |-> Number(f.lba),
              count |-> IF n = 0 THEN Base^2 ELSE n, moved |-> f.dbc + 1]

Asked(r) == [op |-> r.op, slot |-> r.slot, block |-> r.block,
             count |-> r.count, moved |-> r.count]

\* alloc a frame, fill it in, point the slot's header at it
Fill(s, contents) ==
    \E f \in free :
        /\ free' = free \ {f}
        /\ frame' = [frame EXCEPT ![f] = contents]
        /\ hdr' = [hdr EXCEPT ![s] = f]

\* back to the slab; what a free frame holds is nobody's any more
Release(f) == free' = free \cup {f} /\ frame' = [frame EXCEPT ![f] = None]

UnchangedHw == UNCHANGED <<pxci, pxsact, bsy, disk, done>>
UnchangedMem == UNCHANGED <<free, frame, hdr>>

-----------------------------------------------------------------------------
\* Bring-up.  A port without a disk, or with a packet device, stays uninitialized.
Init_absent ==
    /\ phase = "init" /\ disk.kind # "ata"
    /\ phase' = "idle"
    /\ UNCHANGED <<initialized, cur, pxis, identity>> /\ UnchangedHw /\ UnchangedMem

\* the receiver and the command list go off and on, the status is cleared
hw_start == pxis' = {}

\* setup_memory, hw_start, setup_irq_thread
Init_start ==
    /\ phase = "init" /\ disk.kind = "ata"
    /\ phase' = "id_wait" /\ hw_start
    /\ UNCHANGED <<initialized, cur, identity>> /\ UnchangedHw /\ UnchangedMem

\* WAIT_FOR_NOT_BUSY, identify_device_cmd on slot 0, command issued without PxSACT
Identify_issue ==
    /\ phase = "id_wait" /\ ~bsy
    /\ Fill(0, Identify)
    /\ cur' = [slot |-> 0]
    /\ pxci' = pxci \cup {0} /\ phase' = "id_poll"
    /\ UNCHANGED <<initialized, pxsact, pxis, bsy, disk, identity, done>>

Identify_poll ==
    /\ phase = "id_poll"
    /\ (IF Emulated THEN "DHRS" ELSE "PSS") \in pxis
    /\ pxis' = {} /\ phase' = "id_busy"
    /\ UNCHANGED <<initialized, cur, identity>> /\ UnchangedHw /\ UnchangedMem

\* results copied, frame freed, a task-file error panics
Identify_done ==
    /\ phase = "id_busy" /\ ~bsy
    /\ identity' = (done = Identify)
    /\ Release(hdr[0])
    /\ phase' = IF "TFES" \in pxis THEN "panic" ELSE "id_done"
    /\ cur' = None
    /\ UNCHANGED <<initialized, hdr, pxis>> /\ UnchangedHw

Init_done ==
    /\ phase = "id_done"
    /\ pxis' = {} /\ initialized' = TRUE /\ phase' = "idle"
    /\ UNCHANGED <<cur, identity>> /\ UnchangedHw /\ UnchangedMem

-----------------------------------------------------------------------------
\* sync_fpdma_read and sync_fpdma_write: a call before initialization panics, and
\* a read of no sectors fails an assertion.
Fpdma_call(r) ==
    /\ phase = "idle"
    /\ IF initialized /\ ~(r.op = "read" /\ r.count = 0)
       THEN Fill(r.slot, setup_fpdma_cmd(r)) /\ cur' = r /\ phase' = "not_busy"
       ELSE phase' = "panic" /\ UNCHANGED cur /\ UnchangedMem
    /\ UNCHANGED <<initialized, pxis, identity>> /\ UnchangedHw

Fpdma_issue ==
    /\ phase = "not_busy" /\ ~bsy
    /\ pxsact' = pxsact \cup {cur.slot} /\ phase' = "issue"
    /\ UNCHANGED <<initialized, cur, pxci, pxis, bsy, disk, identity, done>> /\ UnchangedMem

Fpdma_ci ==
    /\ phase = "issue"
    /\ pxci' = pxci \cup {cur.slot} /\ phase' = "issued"
    /\ UNCHANGED <<initialized, cur, pxsact, pxis, bsy, disk, identity, done>> /\ UnchangedMem

Fpdma_accepted ==
    /\ phase = "issued" /\ ~bsy
    /\ phase' = "poll"
    /\ UNCHANGED <<initialized, cur, pxis, identity>> /\ UnchangedHw /\ UnchangedMem

\* poll_for_port_interrupt(3)
Fpdma_poll ==
    /\ phase = "poll" /\ "SDBS" \in pxis
    /\ phase' = "clear"
    /\ UNCHANGED <<initialized, cur, pxis, identity>> /\ UnchangedHw /\ UnchangedMem

\* set_pxis(0x8), the frame freed, return
Fpdma_return_unclear ==
    /\ phase = "clear"
    /\ Release(hdr[cur.slot])
    /\ phase' = "idle" /\ cur' = None
    /\ UNCHANGED <<initialized, hdr, pxis, identity>> /\ UnchangedHw

Fpdma_return ==
    /\ phase = "clear"
    /\ pxis' = pxis \ {"SDBS"}
    /\ Release(hdr[cur.slot])
    /\ phase' = "idle" /\ cur' = None
    /\ UNCHANGED <<initialized, hdr, identity>> /\ UnchangedHw

Driver ==
    \/ Init_absent \/ Init_start \/ Identify_issue \/ Identify_poll \/ Identify_done
    \/ Init_done \/ Fpdma_issue \/ Fpdma_ci \/ Fpdma_accepted \/ Fpdma_poll \/ Fpdma_return

Call == \E r \in [op : {"read", "write"}, slot : Slot, block : Block, count : Count] :
            Fpdma_call(r)

-----------------------------------------------------------------------------
\* The adapter takes an issued command to the disk; the disk accepts it, which
\* clears BSY and the issue bit.
Hba_fetch(s) ==
    /\ s \in pxci /\ ~bsy /\ disk.kind = "ata" /\ disk.fetched = None
    /\ bsy' = TRUE
    /\ disk' = [disk EXCEPT !.fetched = s]
    /\ UNCHANGED <<phase, initialized, cur, pxci, pxsact, pxis, identity, done>> /\ UnchangedMem

Disk_accept(s) ==
    /\ disk.fetched = s
    /\ bsy' = FALSE /\ pxci' = pxci \ {s}
    /\ disk' = [disk EXCEPT !.fetched = None, !.queue = @ \cup {s}]
    /\ UNCHANGED <<phase, initialized, cur, pxsact, pxis, identity, done>> /\ UnchangedMem

\* Completion: identify data and its FIS, or the transfer and a Set Device Bits FIS.
Disk_complete(s) ==
    /\ s \in disk.queue /\ disk.kind = "ata"
    /\ done' = Decoded(frame[hdr[s]])
    /\ pxsact' = pxsact \ {s}
    /\ pxis' = pxis \cup (IF done' # Identify THEN {"SDBS"}
                          ELSE IF Emulated THEN {"DHRS"} ELSE {"PSS"})
    /\ disk' = [disk EXCEPT !.queue = @ \ {s}]
    /\ UNCHANGED <<phase, initialized, cur, pxci, bsy, identity>> /\ UnchangedMem

\* A task-file error: the command is not carried out and the port stops.
Disk_error(s) ==
    /\ s \in disk.queue /\ disk.kind = "ata"
    /\ pxis' = pxis \cup {"TFES"}
    /\ disk' = [disk EXCEPT !.kind = "failed"]
    /\ UNCHANGED <<phase, initialized, cur, pxci, pxsact, bsy, identity, done>> /\ UnchangedMem

Hw == \E s \in Slot : Hba_fetch(s) \/ Disk_accept(s) \/ Disk_complete(s)

AhciNext == Driver \/ Call \/ Hw \/ \E s \in Slot : Disk_error(s)

-----------------------------------------------------------------------------
\* When a call is about to return, the disk has carried out this call's command at
\* its block, and nothing is left outstanding; it has moved exactly the sectors
\* asked for when they fit the descriptor, which no caller and no assertion makes
\* sure of (a write of no sectors is the largest one); and an initialized port has
\* the disk's identity (sync_fpdma, identify_device).
AhciReturnsWhenDone ==
    /\ phase = "clear" =>
          /\ <<done.op, done.slot, done.block>> = <<cur.op, cur.slot, cur.block>>
          /\ cur.count \in 1 .. PrdSectors => done = Asked(cur)
          /\ pxsact = {} /\ pxci = {}
    /\ initialized => identity

\* The frame of a command the adapter may still fetch or the disk is still
\* carrying out is not back in the slab (free in sync_fpdma and identify_device).
AhciFramesHeld ==
    \A s \in pxci \cup disk.queue : hdr[s] # None /\ (hdr[s] \in free => disk.kind = "failed")

\* A call is under way; it is owed its end unless the disk has failed, for an error
\* bit ends no poll.
AhciBusy == phase \notin {"idle", "panic"} /\ disk.kind # "failed"
=============================================================================
