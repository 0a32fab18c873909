----------------------------- MODULE NVMeTests -----------------------------
(* The NVMe driver's test programs, as clients of the asynchronous block     *)
(* interface: read_blast() and verify_blast() of blast_test.cc and the       *)
(* throughput test of mt_tests.cc.  Each starts one thread per I/O queue,    *)
(* the threads keep their queues busy, and the main thread joins them.       *)
(*                                                                           *)
(* The device is the client's view of it: a batch is accepted when the queue *)
(* has room for the command and the batch ring for the batch; commands       *)
(* complete in any order, and move their data when they do.                  *)
EXTENDS Integers, Sequences, FiniteSets

CONSTANTS Programs,    \* which of "read", "verify", "throughput" may run
          NumQueues,   \* threads, each with the I/O queue of its number
          QueueLen,    \* commands a queue holds
          Window,      \* batches from the oldest outstanding one to the newest
          BatchSize,   \* reads of one batch of read_blast()
          MaxBatches,  \* batches of one read_blast() thread that are followed
          Stride, Span,\* LBA ranges of verify_blast() and their length
          Steps,       \* the random increments of the offset
          Writes,      \* writes of one verify_blast() thread
          SlabSize,    \* buffers of the throughput test, per queue
          Count        \* reads of one throughput thread

VARIABLES prog, main,  \* the program and where its main thread is
          blast_exit,  \* the flag that ends read_blast()
          thr,         \* the threads: pc, counter, offset, offsets written
          live,        \* DMA buffers that are allocated
          mem,         \* their first words, by buffer
          disk,        \* the blocks
          pending      \* outstanding requests, by queue

testVars == <<prog, main, blast_exit, thr, live, mem, disk, pending>>

Threads == 1 .. NumQueues
Slab == {<<t, j>> : t \in Threads, j \in 0 .. SlabSize - 1}
Buffers == Slab \cup {<<t, j>> : t \in Threads, j \in {0, 1}}
wb(t) == <<t, 0>>
rb(t) == <<t, 1>>
start_lba(t) == (t - 1) * Stride
end_lba(t) == start_lba(t) + Span
Junk == <<0, 0>>

TestInit ==
  /\ prog \in Programs
  /\ main = [pc |-> IF prog = "throughput" THEN "alloc" ELSE "start", k |-> 1]
  /\ blast_exit = FALSE
  /\ thr = [t \in Threads |-> [pc |-> "new", i |-> 0, b |-> 0, off |-> 0, offs |-> << >>]]
  /\ live = {}
  /\ mem = [b \in Buffers |-> Junk]
  /\ disk = [l \in 0 .. end_lba(NumQueues) |-> Junk]
  /\ pending = [t \in Threads |-> {}]

---------------------------------------------------------------------------
(* The device.                                                             *)

(* async_io_batch() for request number b of batch n: it waits for room.     *)
async_io(t, n, b, op, lba, buf) ==
  /\ Cardinality(pending[t]) < QueueLen
  /\ \A r \in pending[t] : n - r.n < Window
  /\ pending' = [pending EXCEPT ![t] =
       @ \cup {[n |-> n, b |-> b, op |-> op, lba |-> lba, buf |-> buf]}]

wait_io_completion(t) == pending[t] = {}

Complete(t) ==
  /\ \E r \in pending[t] :
       /\ pending' = [pending EXCEPT ![t] = @ \ {r}]
       /\ IF r.op = "write"
          THEN disk' = [disk EXCEPT ![r.lba] = mem[r.buf]] /\ UNCHANGED mem
          ELSE mem' = [mem EXCEPT ![r.buf] = disk[r.lba]] /\ UNCHANGED disk
  /\ UNCHANGED <<prog, main, blast_exit, thr, live>>

Goto(t, pc) == thr' = [thr EXCEPT ![t].pc = pc]

---------------------------------------------------------------------------
(* ReadBlasterThread::blast_loop(): all reads go to the same buffer.         *)

Read_alloc(t) ==
  /\ prog = "read" /\ thr[t].pc = "begin"
  /\ live' = live \cup {rb(t)} /\ Goto(t, "loop")
  /\ UNCHANGED <<main, blast_exit, mem, disk, pending>>

Read_turn(t) ==
  /\ prog = "read" /\ thr[t].pc = "loop"
  /\ IF blast_exit THEN Goto(t, "wait")
     ELSE /\ thr[t].i < MaxBatches
          /\ thr' = [thr EXCEPT ![t].pc = "batch", ![t].b = 0, ![t].i = @ + 1]
  /\ UNCHANGED <<main, blast_exit, live, mem, disk, pending>>

Read_submit(t) ==
  /\ prog = "read" /\ thr[t].pc = "batch"
  /\ \E lba \in {0, 1} : async_io(t, thr[t].i, thr[t].b, "read", lba, rb(t))
  /\ thr' = [thr EXCEPT ![t].b = @ + 1,
                        ![t].pc = IF thr[t].b + 1 = BatchSize THEN "loop" ELSE @]
  /\ UNCHANGED <<main, blast_exit, live, mem, disk>>

Read_free(t) ==
  /\ prog = "read" /\ thr[t].pc = "wait" /\ wait_io_completion(t)
  /\ live' = live \ {rb(t)} /\ Goto(t, "end")
  /\ UNCHANGED <<main, blast_exit, mem, disk, pending>>

ReadBlast(t) == Read_alloc(t) \/ Read_turn(t) \/ Read_submit(t) \/ Read_free(t)

---------------------------------------------------------------------------
(* VerifyBlasterThread::blast_loop(): distinct offsets of the thread's range *)
(* are written, each with its own value, and then read back.                 *)

Verify_alloc(t) ==
  /\ prog = "verify" /\ thr[t].pc = "begin"
  /\ live' = live \cup {wb(t), rb(t)}
  /\ thr' = [thr EXCEPT ![t].pc = "pick", ![t].off = start_lba(t)]
  /\ UNCHANGED <<main, blast_exit, mem, disk, pending>>

(* The next offset: a step s on or, past the range, another step w from its  *)
(* start.                                                                    *)
NextOffset(t, off, s, w) ==
  IF off + s > end_lba(t) THEN start_lba(t) + w ELSE off + s

Fresh(t, off) == \A k \in DOMAIN thr[t].offs : thr[t].offs[k] # off

(* One turn of the loop that looks for an offset not yet written.            *)
Verify_pick(t) ==
  /\ prog = "verify" /\ thr[t].pc = "pick"
  /\ \E s, w \in Steps :
       LET off == NextOffset(t, thr[t].off, s, w)
       IN  thr' = [thr EXCEPT ![t].off = off,
                     ![t].pc = IF Fresh(t, off) THEN "write" ELSE "pick",
                     ![t].offs = IF Fresh(t, off) THEN Append(@, off) ELSE @]
  /\ UNCHANGED <<main, blast_exit, live, mem, disk, pending>>

Verify_write(t) ==
  /\ prog = "verify" /\ thr[t].pc = "write"
  /\ mem' = [mem EXCEPT ![wb(t)] = <<t, thr[t].i>>]
  /\ async_io(t, thr[t].i, 0, "write", thr[t].off, wb(t))
  /\ Goto(t, "written")
  /\ UNCHANGED <<main, blast_exit, live, disk>>

Verify_written(t) ==
  /\ prog = "verify" /\ thr[t].pc = "written" /\ wait_io_completion(t)
  /\ thr' = IF thr[t].i + 1 < Writes
            THEN [thr EXCEPT ![t].pc = "pick", ![t].i = @ + 1]
            ELSE [thr EXCEPT ![t].pc = "read", ![t].i = 0]
  /\ UNCHANGED <<main, blast_exit, live, mem, disk, pending>>

Verify_read(t) ==
  /\ prog = "verify" /\ thr[t].pc = "read"
  /\ mem' = [mem EXCEPT ![rb(t)] = Junk]
  /\ async_io(t, Writes + thr[t].i, 0, "read", thr[t].offs[thr[t].i + 1], rb(t))
  /\ Goto(t, "check")
  /\ UNCHANGED <<main, blast_exit, live, disk>>

(* A wrong value ends the whole program.                                     *)
Verify_check(t) ==
  /\ prog = "verify" /\ thr[t].pc = "check" /\ wait_io_completion(t)
  /\ thr' = CASE mem[rb(t)] # <<t, thr[t].i>> -> [thr EXCEPT ![t].pc = "error"]
              [] thr[t].i + 1 < Writes -> [thr EXCEPT ![t].pc = "read", ![t].i = @ + 1]
              [] OTHER -> [thr EXCEPT ![t].pc = "free"]
  /\ UNCHANGED <<main, blast_exit, live, mem, disk, pending>>

Verify_free(t) ==
  /\ prog = "verify" /\ thr[t].pc = "free"
  /\ live' = live \ {wb(t), rb(t)} /\ Goto(t, "end")
  /\ UNCHANGED <<main, blast_exit, mem, disk, pending>>

VerifyBlast(t) ==
  \/ Verify_alloc(t) \/ Verify_pick(t) \/ Verify_write(t) \/ Verify_written(t)
  \/ Verify_read(t) \/ Verify_check(t) \/ Verify_free(t)

---------------------------------------------------------------------------
(* IO_thread::io_throughput_test(): a ring of descriptors and buffers.       *)

\* A slip in Slot: as many buffers as the queue has entries.
Slot_queue(idx) == idx % QueueLen

Slot(idx) == idx % SlabSize

Throughput_submit(t) ==
  /\ prog = "throughput" /\ thr[t].pc = "begin" /\ thr[t].i < Count
  /\ async_io(t, thr[t].i, 0, "read", 0, <<t, Slot(thr[t].i)>>)
  /\ thr' = [thr EXCEPT ![t].i = @ + 1]
  /\ UNCHANGED <<main, blast_exit, live, mem, disk>>

Throughput_end(t) ==
  /\ prog = "throughput" /\ thr[t].pc = "begin" /\ thr[t].i = Count
  /\ wait_io_completion(t)
  /\ Goto(t, "end")
  /\ UNCHANGED <<main, blast_exit, live, mem, disk, pending>>

io_throughput_test(t) == Throughput_submit(t) \/ Throughput_end(t)

---------------------------------------------------------------------------
(* The main threads.                                                        *)

(* allocMem() cuts the buffers of every queue from a few large allocations,  *)
(* before any thread runs; freeMem() gives those back.                       *)
allocMem ==
  /\ main.pc = "alloc"
  /\ live' = Slab /\ main' = [main EXCEPT !.pc = "start"]
  /\ UNCHANGED <<blast_exit, thr, mem, disk, pending>>

freeMem ==
  /\ main.pc = "free"
  /\ live' = {} /\ main' = [main EXCEPT !.pc = "end"]
  /\ UNCHANGED <<blast_exit, thr, mem, disk, pending>>

Start ==
  /\ main.pc = "start"
  /\ thr' = [thr EXCEPT ![main.k].pc = "begin"]
  /\ main' = IF main.k < NumQueues THEN [main EXCEPT !.k = @ + 1]
             ELSE [pc |-> IF prog = "read" THEN "sleep" ELSE "join", k |-> 1]
  /\ UNCHANGED <<blast_exit, live, mem, disk, pending>>

Join ==
  /\ main.pc = "join" /\ thr[main.k].pc = "end"
  /\ main' = IF main.k < NumQueues THEN [main EXCEPT !.k = @ + 1]
             ELSE [main EXCEPT !.pc = IF prog = "throughput" THEN "free" ELSE "end"]
  /\ UNCHANGED <<blast_exit, thr, live, mem, disk, pending>>

Sleep ==
  /\ main.pc = "sleep"
  /\ blast_exit' = TRUE /\ main' = [main EXCEPT !.pc = "join"]
  /\ UNCHANGED <<thr, live, mem, disk, pending>>

read_blast == prog = "read" /\ (Start \/ Sleep \/ Join)
verify_blast == prog = "verify" /\ (Start \/ Join)
runTest == prog = "throughput" /\ (allocMem \/ Start \/ Join \/ freeMem)

TestNext ==
  \/ /\ \/ read_blast \/ verify_blast \/ runTest
        \/ \E t \in Threads : ReadBlast(t) \/ VerifyBlast(t) \/ io_throughput_test(t)
     /\ UNCHANGED prog
  \/ \E t \in Threads : Complete(t)

---------------------------------------------------------------------------
(* No buffer is given back while a request that names it is outstanding:     *)
(* blast_loop() and the throughput test wait before they free.               *)
BuffersOutliveRequests ==
  \A t \in Threads : \A r \in pending[t] : r.buf \in live

(* "slab size should be large enough, so that there is no overlap"           *)
(* (mt_tests.cc): a buffer of the slab is not handed out again before its    *)
(* request is complete, however late that is.                                *)
SlabNotReusedEarly ==
  prog = "throughput" =>
    \A t \in Threads : \A r, s \in pending[t] : r.buf = s.buf => r = s

(* verify_blast() never reads a value it did not write there, with all the   *)
(* queues writing at once: an ERROR it prints is the device's.               *)
VerifyFindsItsData == \A t \in Threads : thr[t].pc # "error"

(* What the test programs rely on, whichever of them runs.                   *)
TestsSound == BuffersOutliveRequests /\ SlabNotReusedEarly /\ VerifyFindsItsData
===========================================================================
