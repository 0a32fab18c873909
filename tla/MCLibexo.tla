------------------------------ MODULE MCLibexo ------------------------------
(***************************************************************************)
(* The libraries libexo, libcommon and libcomponent.  Their parts share no *)
(* state: a behaviour is one of a single part (kind, out of Kinds), while  *)
(* the others stay in an initial state.  The parts of Libexo are extended, *)
(* the other ones are instances.                                           *)
(***************************************************************************)
EXTENDS Libexo, TLC

CONSTANTS
    Kinds,
    Block, Worker, None,    \* blocks and threads of the slab allocator
    Node                    \* the heap of the lock-free queue

VARIABLES
    kind,
    prod_head, prod_tail, cons_head, cons_tail, n_buffer, produced, n_ppc, n_cpc, n_next, n_item,
    Q_Head, Q_Tail, q_next, data, heap, pushed, q_ppc, node, ptail, pnext,
    q_cpc, q_head, q_tail, cnext, res,
    uc, last_uc, ac, last_ac, f_buffer, ipc, iitem, ires, rpc, ritem, rres,
    tpc, consLock, prodLock, owned, numAvail, f_temp, delta,
    elem, stage, bitmap, th, held,
    map, call, slots,
    pages, created, readers, writer, md, pieces,
    arg, allocs, free_blocks, taken,
    root, members,
    l_head, l_tail, l_next, prev, listed, l_last,
    flavour, area, object, end, gone,
    locked, next_row, row, wr, rd,
    cores, affinity, asked, siblings, nwords, ids,
    mask, meant, translation

Numa == INSTANCE NumaSpmcBuffer WITH
    SIZE <- 8, Distance <- 2, Consumer <- {"c", "d"}, Word <- 16, MaxItems <- 5,
    buffer <- n_buffer, ppc <- n_ppc, cpc <- n_cpc, next <- n_next, item <- n_item
Queue == INSTANCE LockFreeQueue WITH
    Null <- None, Pusher <- {"p"}, Popper <- {"c"}, MaxItems <- 4,
    next <- q_next, ppc <- q_ppc, cpc <- q_cpc, head <- q_head, tail <- q_tail
Slab == INSTANCE FastSlab WITH
    Item <- Block, Size <- 2, Word <- 20, MaxCount <- 20, Thread <- Worker,
    buffer <- f_buffer, temp <- f_temp
Span == INSTANCE Spans WITH
    Threads <- {"t", "u"}, MaxSpanCount <- 2, SpanSize <- 8, BITS <- 2, ElemSizes <- {1, 2, 3},
    MaxHeld <- 2, MaxRetries <- 1, MaxSlot <- 3
Metadata == INSTANCE MetadataAllocator WITH
    Threads <- {"t", "u"}, PageSize <- 4, Sizes <- {1, 2, 3}, MaxPages <- 2
Layout == INSTANCE SlabLayout WITH
    Header <- 2, HugePage <- 12, BlockLens <- 1 .. 4, Alignments <- {0, 2, 4}, Quotas <- 1 .. 3,
    CpuMasks <- {{1}, {1, 2}}, Frame <- <<5, 2, 9>>, MaxTaken <- 2
Avl == INSTANCE AvlTree WITH Keys <- 1 .. 8
List == INSTANCE ListChain WITH
    Elements <- {"x", "y", "z"}, NULL <- "null",
    head <- l_head, tail <- l_tail, next <- l_next, last <- l_last
Shm == INSTANCE SharedMemory WITH
    Capacity <- 2, MaxSent <- 3,
    Writers <- {"w", "x"}, Readers <- {"r"}, ENTRIES <- 2, Types <- {"a", "b"}
Topo == INSTANCE Topology WITH
    Width <- 2, Words <- 3,
    Siblings <- {[c \in 0 .. 5 |-> IF c % 2 = 0 THEN c + 1 ELSE c - 1],
                 [c \in 0 .. 5 |-> (c + 3) % 6]},
    Long <- 4, Masks <- {"a", "b"}, Sizes <- {2, 6}, Ncpus <- 5

ASSUME LibexoConstants == Numa!BufferAssumption /\ Slab!NbbAssumption

numaPart == <<prod_head, prod_tail, cons_head, cons_tail, n_buffer, produced, n_ppc, n_cpc,
              n_next, n_item>>
queuePart == <<Q_Head, Q_Tail, q_next, data, heap, pushed, q_ppc, node, ptail, pnext,
               q_cpc, q_head, q_tail, cnext, res>>
slabPart == <<uc, last_uc, ac, last_ac, f_buffer, ipc, iitem, ires, rpc, ritem, rres,
              tpc, consLock, prodLock, owned, numAvail, f_temp, delta>>
spanPart == <<elem, stage, bitmap, th, held>>
trackerPart == <<map, call, slots>>
metadataPart == <<pages, created, readers, writer, md, pieces>>
layoutPart == <<arg, allocs, free_blocks, taken>>
avlPart == <<root, members>>
listPart == <<l_head, l_tail, l_next, prev, listed, l_last>>
channelPart == <<flavour, area, object, end, gone>>
tablePart == <<locked, next_row, row, wr, rd>>
topoPart == <<cores, affinity, asked, siblings, nwords, ids>>
maskPart == <<mask, meant, translation>>

mcVars == <<kind, lockVars, spmcVars, numaPart, queuePart, slabPart, spanPart, trackerPart,
            metadataPart, layoutPart, avlPart, listPart, channelPart, tablePart, topoPart, maskPart,
            baseVars, eventVars, compVars>>

\* A part that does not move starts in one of its initial states.
MCInit ==
    /\ kind \in Kinds
    /\ LockInit /\ (kind # "ticket" => users = 0)
    /\ SpmcInit
    /\ Numa!Init /\ (kind # "numa" => cons_head = 0)
    /\ Queue!Init /\ (kind # "queue" => Q_Head = CHOOSE n \in Node : TRUE)
    /\ Slab!SlabInit /\ (kind # "slab" => f_buffer[0] = CHOOSE b \in Block : TRUE)
    /\ Span!SpanInit /\ (kind # "span" => elem = 1)
    /\ Span!TrackerInit
    /\ Metadata!MdInit
    /\ Layout!SlabInit /\ (kind # "layout" => arg = [len |-> 1, alignment |-> 0, quota |-> 1, cpus |-> {1},
                                                         needs_phys |-> FALSE])
    /\ Avl!AvlInit
    /\ List!ListInit
    /\ Shm!ChanInit /\ (kind # "channel" => flavour = "posix" /\ object = <<>>)
    /\ Shm!TableInit
    /\ Topo!TopoInit /\ (kind # "topology" => siblings[0] = 1 /\ nwords = 1)
    /\ Topo!MaskInit
    /\ ThreadsInit /\ (kind # "threads" => \A t \in DOMAIN exit : exit[t] = FALSE)
    /\ CompInit

\* Only the part of the behaviour's kind moves.
Only(k) ==
    /\ kind = k /\ UNCHANGED kind
    /\ k # "ticket" => UNCHANGED lockVars
    /\ k # "spmc" => UNCHANGED spmcVars
    /\ k # "numa" => UNCHANGED numaPart
    /\ k # "queue" => UNCHANGED queuePart
    /\ k # "slab" => UNCHANGED slabPart
    /\ k # "span" => UNCHANGED spanPart
    /\ k # "tracker" => UNCHANGED trackerPart
    /\ k # "metadata" => UNCHANGED metadataPart
    /\ k # "layout" => UNCHANGED layoutPart
    /\ k # "avl" => UNCHANGED avlPart
    /\ k # "list" => UNCHANGED listPart
    /\ k # "channel" => UNCHANGED channelPart
    /\ k # "table" => UNCHANGED tablePart
    /\ k # "topology" => UNCHANGED topoPart
    /\ k # "masks" => UNCHANGED maskPart
    /\ k # "threads" => UNCHANGED baseVars
    /\ k # "events" => UNCHANGED eventVars
    /\ k # "components" => UNCHANGED compVars

MCNext ==
    \/ Only("ticket") /\ LockNext
    \/ Only("spmc") /\ SpmcNext
    \/ Only("numa") /\ Numa!Next
    \/ Only("queue") /\ Queue!Next
    \/ Only("slab") /\ Slab!SlabNext
    \/ Only("span") /\ Span!SpanNext
    \/ Only("tracker") /\ Span!TrackerNext
    \/ Only("metadata") /\ Metadata!MdNext
    \/ Only("layout") /\ Layout!SlabNext
    \/ Only("avl") /\ Avl!AvlNext
    \/ Only("list") /\ List!ListNext
    \/ Only("channel") /\ Shm!ChanNext
    \/ Only("table") /\ Shm!TableNext
    \/ Only("topology") /\ Topo!TopoNext
    \/ Only("masks") /\ Topo!MaskNext
    \/ Only("threads") /\ ThreadsNext
    \/ Only("events") /\ ThreadsNext
    \/ Only("components") /\ CompNext

\* Threads run: a spinning or woken one goes on, a caller finishes its call, and the
\* holder of a lock leaves its critical section.
MCFairness ==
    /\ (\A t \in Thread : WF_lockVars(kind = "ticket" /\ Enter(t)))
    /\ (\A t \in Thread : WF_lockVars(kind = "ticket" /\ Unlock(t)))
    /\ WF_spmcVars(kind = "spmc" /\ Produce)
    /\ (\A c \in Consumer : WF_spmcVars(kind = "spmc" /\ Consume(c)))
    /\ WF_numaPart(kind = "numa" /\ Numa!Produce)
    /\ (\A c \in {"c", "d"} : WF_numaPart(kind = "numa" /\ Numa!Consume(c)))
    /\ WF_queuePart(kind = "queue" /\ Queue!Push("p"))
    /\ WF_queuePart(kind = "queue" /\ Queue!Pop("c"))
    /\ (\A t \in ThreadObject :
          WF_<<baseVars, eventVars>>(kind = "threads" /\ ThreadStep(t)))
    /\ (\A w \in Waiter :
          WF_<<baseVars, eventVars>>(kind = "events" /\ WaiterStep(w)))

MCSafeSpec == MCInit /\ [][MCNext]_mcVars
MCSpec == MCSafeSpec /\ MCFairness

\* Sound for invariants: blocks, slab threads and queue nodes are only compared.
Symmetry == Permutations(Block) \cup Permutations(Worker)

-----------------------------------------------------------------------------
\* The three shared-memory queues are FIFOs, under any interleaving of their loads, stores and
\* compare-and-swaps: the SPMC_circular_buffer of a channel with two consumers until its 32-bit
\* tail wraps, that of a NUMA channel with two consumers and across the wrap of its counters, and
\* Lockfree::Queue with one pusher and one popper, which use no node after it has been deleted.
BuffersAreFifo ==
    /\ FifoSpec /\ Numa!FifoSpec /\ Queue!FifoSpec
    /\ [](Numa!TypeOK /\ Queue!TypeOK /\ Queue!NoUseAfterDelete /\ Queue!PeekStillValid)

\* What a structure of the libraries reads back is what was put into it: AVL_tree, List (but for
\* the tail of an emptied one), Shm_table to readers that hold its lock, and both directions of a
\* Shm_channel.
StructuresReadTrue ==
    /\ kind = "avl" => Avl!TreeHoldsMembers
    /\ kind = "list" => List!ListReadsBothWays
    /\ kind = "table" => Shm!ReadersSeeWholeRows
    /\ kind = "channel" => Shm!ChannelDelivers /\ Shm!ChannelUsable

\* Core masks keep their meaning on the way to the kernel and back: route_interrupt_mask,
\* get_ht_partner (of a machine that prints all eight words), get_apic_id, the bit masks of the
\* NUMA wrapper, get_actual_affinities.
MasksReadTrue ==
    /\ kind = "topology" => Topo!RoutedAsAsked
    /\ kind = "masks" => Topo!MasksAreSets

\* Waiting ends: every number of the ticket lock comes up, all items of the buffers (those before
\* the channel's tail wraps) and of the queue (while there is memory) are consumed, deleting a
\* thread returns unless its entry() is endless or waits for an interrupt, as IRQ_thread does
\* before it asks thread_should_exit, and a set Event lets its waiter out.  Threads and waiters
\* are alike, so one of each is followed.
Owing ==
    \/ kind = "ticket" /\ lpc[CHOOSE t \in Thread : TRUE] = "wait"
    \/ kind = "spmc" /\ Unfinished
    \/ kind = "numa" /\ Numa!Unfinished
    \/ kind = "queue" /\ Queue!Unfinished
    \/ kind = "threads" /\ Deleting
    \/ kind = "events" /\ Leaving("v")

LibexoProgress == Owing ~> ~Owing

\* The free list of Fast_slab_allocator is a FIFO of blocks: alloc and free run at the same time
\* and never write the slot the other one is in, across the restart of the counters at count_limit.
FreeListIsFifo == Slab!FifoSpec

\* Allocators give nothing to two clients and lose nothing: blocks of Fast_slab_allocator (whose
\* free never reaches its panic), of spans, bitmap slots, pieces of metadata pages, and the blocks
\* of per-core slabs laid out over huge pages; freeing a block of a span finds it, and panics only
\* after MaxRetries lost compare-and-swaps.
AllocationsApart ==
    /\ kind = "slab" => Slab!SlabTypeOK /\ Slab!BlocksApart /\ Slab!NoPanic
    /\ kind = "span" => Span!BlocksHaveOneOwner /\ Span!FreeFindsItsBlock
    /\ kind = "tracker" => Span!SlotsHaveOneHolder
    /\ kind = "metadata" => Metadata!PiecesApart
    /\ kind = "layout" => Layout!BlocksLaidOut /\ Layout!BlocksComeHome
=============================================================================
