----------------------------- MODULE SlabLayout -----------------------------
(***************************************************************************)
(* How the slab allocators of lib/libexo lay out their memory:             *)
(* Numa_slab_allocator (exo/numa_slab.h) cuts an area into one partition   *)
(* per core, and Fast_slab_allocator (exo/fast_slab.h) cuts a partition    *)
(* into blocks, each with a header that names its core and its physical    *)
(* address.  Then blocks are taken on any core and freed on any other.     *)
(* The queue of free blocks is the subject of FastSlab; here it is a       *)
(* sequence.  Addresses count in units of which a huge page has few; the   *)
(* area begins on a huge page, and its frames are anywhere.                *)
(***************************************************************************)
EXTENDS Integers, Sequences, FiniteSets, FiniteSetsExt, SequencesExt

CONSTANTS
    Header,     \* size of Block_header
    HugePage,   \* MB(2)
    BlockLens, Alignments, Quotas, CpuMasks,   \* arguments of the constructor
    Frame,      \* Frame[n]: the physical frame of the n-th huge page of the area
    MaxTaken    \* bound: blocks in use

VARIABLES
    arg,        \* arguments of the Numa_slab_allocator, needs_phys_addr included
    allocs,     \* _per_cpu_allocs: the blocks of each core's allocator
    free_blocks,\* the free blocks of each
    taken       \* blocks in use

slabVars == <<arg, allocs, free_blocks, taken>>

actual_block_size(len) == Header + len
per_cpu_total_size(a) == a.quota * actual_block_size(a.len)

check_aligned(p, n) == p % n = 0
align_pointer(p, n) == (p \div n + 1) * n
virt_to_phys(v) == Frame[v \div HugePage + 1] * HugePage + (v % HugePage)

\* A slip in DataAt: the data is aligned, its header is not counted
DataAt_header(cur, n) ==
    IF n # 0 /\ ~check_aligned(cur, n) THEN align_pointer(cur, n) ELSE cur

(* Where the data of the block begins whose space starts at cur *)
DataAt(cur, n) ==
    LET d == cur + Header IN IF n # 0 /\ ~check_aligned(d, n) THEN align_pointer(d, n) ELSE d

(* The data of the blocks that fit between cur and end *)
Fill(a, begin, end) ==
    LET Rest[cur \in begin .. end + Header + a.len + a.alignment] ==
            IF cur >= end THEN <<>>
            ELSE LET d == DataAt(cur, a.alignment) IN
                 IF d + a.len <= end THEN <<d>> \o Rest[d + a.len] ELSE <<>>
    IN  Rest[begin]

(***************************************************************************)
(* The physical address: the base of the partition, until a header lies on *)
(* a huge page boundary; then that page's.                                 *)
(***************************************************************************)
block_phys_addr(data, begin, k) ==
    LET onPage == {j \in 1 .. k : (data[j] - Header) % HugePage = 0}
        aggregated == IF onPage = {} THEN 0
                      ELSE data[CHOOSE j \in onPage : \A i \in onPage : i <= j] - Header - begin
    IN  virt_to_phys(begin + aggregated) + (data[k] - begin - aggregated)

num_of_blocks(a, begin) ==
    LET end == begin + per_cpu_total_size(a) IN
    IF a.alignment = 0 THEN per_cpu_total_size(a) \div actual_block_size(a.len)
    ELSE Len(Fill(a, begin, end))

(* Fast_slab_allocator: the constructor; it panics without room for a block *)
Fast_slab_allocator(a, begin, cpu) ==
    LET data == Fill(a, begin, begin + per_cpu_total_size(a)) IN
    [k \in 1 .. Len(data) |->
        [data |-> data[k], id |-> cpu,
         phys |-> IF a.needs_phys THEN block_phys_addr(data, begin, k) ELSE 0]]

(* Its assertions, which look at the length of one partition, and its panic *)
Constructible(a, begin) ==
    /\ a.needs_phys =>
          /\ actual_block_size(a.len) <= HugePage
          /\ HugePage % actual_block_size(a.len) = 0 \/ per_cpu_total_size(a) <= HugePage
    /\ num_of_blocks(a, begin) > 0

\* A slip in Begin: the partitions are as long as their blocks' data
Begin_short(a, cpu) == Cardinality({c \in a.cpus : c < cpu}) * a.quota * a.len

Begin(a, cpu) == Cardinality({c \in a.cpus : c < cpu}) * per_cpu_total_size(a)

(* Numa_slab_allocator: the constructor, for every argument *)
Numa_slab_allocator(a) ==
    [c \in a.cpus |-> Fast_slab_allocator(a, Begin(a, c), c)]

SlabInit ==
    /\ \E l \in BlockLens, n \in Alignments, q \in Quotas, m \in CpuMasks, p \in BOOLEAN :
          /\ arg = [len |-> l, alignment |-> n, quota |-> q, cpus |-> m, needs_phys |-> p]
          /\ Begin(arg, Max(m)) + per_cpu_total_size(arg) <= Len(Frame) * HugePage
          /\ \A c \in m : Constructible(arg, Begin(arg, c))
    /\ allocs = Numa_slab_allocator(arg)
    /\ free_blocks = allocs
    /\ taken = {}

alloc(core) ==
    /\ free_blocks[core] # <<>>
    /\ Cardinality(taken) < MaxTaken
    /\ taken' = taken \cup {Head(free_blocks[core])}
    /\ free_blocks' = [free_blocks EXCEPT ![core] = Tail(@)]
    /\ UNCHANGED <<arg, allocs>>

(* free, on any core: the block goes to the allocator its header names *)
free(b) ==
    /\ b \in taken
    /\ taken' = taken \ {b}
    /\ free_blocks' = [free_blocks EXCEPT ![b.id] = Append(@, b)]
    /\ UNCHANGED <<arg, allocs>>

SlabNext == (\E c \in arg.cpus : alloc(c)) \/ (\E b \in taken : free(b))

-----------------------------------------------------------------------------
Space(b) == (b.data - Header) .. (b.data + arg.len - 1)
All == UNION {Range(allocs[c]) : c \in arg.cpus}

(***************************************************************************)
(* The WARNING above the constructor asks that blocks divide a huge page,  *)
(* or that the memory is less than one: here all of it, because partitions *)
(* that are each smaller pass the assertion and may still straddle a page. *)
(* And no block may be lost to alignment: past the first page, headers     *)
(* that the alignment moved do not meet the page boundary.                 *)
(***************************************************************************)
PhysKnown ==
    /\ arg.needs_phys
    /\ \/ per_cpu_total_size(arg) * Cardinality(arg.cpus) <= HugePage
       \/ /\ HugePage % actual_block_size(arg.len) = 0
          /\ \A c \in arg.cpus : Len(allocs[c]) = arg.quota

(***************************************************************************)
(* The blocks of all cores, headers included, lie apart and inside the     *)
(* area, as many as the constructor counted; the data is aligned; and when *)
(* the arguments keep to the warning the stored physical address is the    *)
(* right one over the whole of the block, wherever the frames are.         *)
(***************************************************************************)
BlocksLaidOut ==
    /\ \A b, c \in All : b # c => Space(b) \cap Space(c) = {}
    /\ \A b \in All : /\ b.data - Header >= 0
                      /\ b.data + arg.len <= per_cpu_total_size(arg) * Cardinality(arg.cpus)
                      /\ arg.alignment # 0 => check_aligned(b.data, arg.alignment)
                      /\ PhysKnown =>
                            \A i \in 0 .. arg.len - 1 : virt_to_phys(b.data + i) = b.phys + i
    /\ \A c \in arg.cpus : Len(allocs[c]) = num_of_blocks(arg, Begin(arg, c))

(***************************************************************************)
(* Wherever blocks are freed, each is in use once or free once, and on the *)
(* list of the allocator it came from.                                     *)
(***************************************************************************)
BlocksComeHome ==
    \A c \in arg.cpus :
        /\ Range(free_blocks[c]) \cup {b \in taken : b.id = c} = Range(allocs[c])
        /\ Len(free_blocks[c]) + Cardinality({b \in taken : b.id = c}) = Len(allocs[c])
=============================================================================
