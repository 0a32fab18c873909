------------------------------ MODULE Topology ------------------------------
(***************************************************************************)
(* Core masks and topology: Cpu_mask, route_interrupt_mask                 *)
(* (lib/libexo/exo/irq_affinity.h) and the readers of /proc/cpuinfo and    *)
(* thread_siblings (lib/libexo/cpu.cc).  A mask goes to the kernel as      *)
(* words, the highest first, and the kernel reads it back as a set.        *)
(***************************************************************************)
EXTENDS Integers, Sequences, FiniteSets, FiniteSetsExt, SequencesExt

CONSTANTS
    Width,      \* bits of a word: 32
    Words,      \* words of cpu_mask in get_ht_partner: 8
    Siblings    \* possible pairings: functions from a core to its partner

Core == 0 .. Width * Words - 1

VARIABLES
    cores,      \* _cores of a Cpu_mask
    affinity,   \* cores the interrupt goes to; the initial ones are all
    asked,      \* cores of the mask routed last
    siblings,   \* the machine's pairing
    nwords,     \* words the kernel prints for its cores
    ids         \* the core asked about last, and the answers

topoVars == <<cores, affinity, asked, siblings, nwords, ids>>

(* The cores of the machine *)
Present == 0 .. Width * nwords - 1

TopoInit ==
    /\ cores = {}
    /\ affinity = Core /\ asked = Core
    /\ siblings \in Siblings /\ nwords \in 1 .. Words
    /\ \A c \in Present : siblings[c] \in Present
    /\ ids = [core |-> -1, partner |-> -1, apic |-> -1]

-----------------------------------------------------------------------------
add_core(c) ==
    /\ cores' = cores \cup {c}
    /\ UNCHANGED <<affinity, asked, siblings, nwords, ids>>

(* add_range refuses a range of one core *)
add_range(a, b) ==
    /\ b > a
    /\ cores' = cores \cup (a .. b)
    /\ UNCHANGED <<affinity, asked, siblings, nwords, ids>>

max_core(S) == IF S = {} THEN 0 ELSE Max(S)

\* A slip in mask_dword: the core is not taken relative to its word
mask_dword_abs(S, k) == SumSet({2 ^ c : c \in {x \in S : x \div Width = k}})

mask_dword(S, k) == SumSet({2 ^ (c - k * Width) : c \in {x \in S : x \div Width = k}})

(* The words of the string, most significant first *)
mask_string(S) ==
    LET n == max_core(S) \div Width IN [i \in 1 .. n + 1 |-> mask_dword(S, n + 1 - i)]

(* bitmap_parse of the kernel *)
Parse(string) ==
    {c \in Core : LET i == Len(string) - (c \div Width) IN
                  i >= 1 /\ (string[i] \div 2 ^ (c % Width)) % 2 = 1}

(* The kernel refuses an empty mask, and nobody looks at the write's result *)
route_interrupt_mask(S) ==
    /\ asked' = S
    /\ affinity' = LET parsed == Parse(mask_string(S)) IN
                   IF parsed = {} THEN affinity ELSE parsed
    /\ UNCHANGED <<cores, siblings, nwords, ids>>

route_interrupt(c) == route_interrupt_mask({c})

-----------------------------------------------------------------------------
(* thread_siblings, printed by the kernel with as many words as the machine needs *)
Printed(S) == [i \in 1 .. nwords |-> mask_dword(S, nwords - i)]

(* __builtin_ffs: the lowest bit set counts from 1, and none gives 0 *)
ffs(w) == LET bits == {b \in 0 .. Width - 1 : (w \div 2 ^ b) % 2 = 1} IN
          IF bits = {} THEN 0 ELSE Min(bits) + 1

(* w &= ~(1 << b): the processor takes the shift modulo the width *)
ClearBit(w, b) ==
    LET bit == b % Width IN IF (w \div 2 ^ bit) % 2 = 1 THEN w - 2 ^ bit ELSE w

\* A slip in ReadMask: the words are taken in the order of the file
ReadMask_order(core, stack) ==
    LET file == Printed({core, siblings[core]})
    IN  [j \in 0 .. Words - 1 |-> IF j + 1 \in DOMAIN file THEN file[j + 1] ELSE stack[Words - 1 - j]]

(***************************************************************************)
(* The reading loop: the first word of the file goes to the last of        *)
(* cpu_mask.  With fewer words in the file the stream fails, and the rest  *)
(* of cpu_mask stays as it was on the stack.                               *)
(***************************************************************************)
ReadMask(core, stack) ==
    LET file == Printed({core, siblings[core]})
    IN  [j \in 0 .. Words - 1 |-> IF Words - j \in DOMAIN file THEN file[Words - j] ELSE stack[j]]

(* Clears the own bit in the first word that is not zero, and takes the lowest *)
get_ht_partner(core, stack) ==
    LET cpu_mask == ReadMask(core, stack)
        first == Min({j \in DOMAIN cpu_mask : cpu_mask[j] # 0})
        offset == first * Width
    IN  ffs(ClearBit(cpu_mask[first], core - offset)) - 1 + offset

(* /proc/cpuinfo: a line "processor" before each "apicid"; the ids are the kernel's *)
Apic(c) == 2 * c + 1
cpuinfo == [i \in 1 .. 2 * Cardinality(Core) |->
              LET c == (i - 1) \div 2 IN
              IF i % 2 = 1 THEN [key |-> "processor", n |-> c] ELSE [key |-> "apicid", n |-> Apic(c)]]

(* The first apicid line whose last processor line names the core *)
get_apic_id(core) ==
    LET curr_cpu(i) == cpuinfo[Max({j \in 1 .. i : cpuinfo[j].key = "processor"})].n
    IN  cpuinfo[Min({i \in DOMAIN cpuinfo : cpuinfo[i].key = "apicid" /\ curr_cpu(i) = core})].n

Ask(c) ==
    /\ cores = {} /\ affinity = Core
    /\ \E stack \in [0 .. Words - nwords - 1 -> 0 .. 2 ^ Width - 1] :
          ids' = [core |-> c, partner |-> get_ht_partner(c, stack), apic |-> get_apic_id(c)]
    /\ UNCHANGED <<cores, affinity, asked, siblings, nwords>>

Route ==
    \/ \E c \in Core : add_core(c) \/ route_interrupt(c)
    \/ \E a, b \in Core : add_range(a, b)
    \/ route_interrupt_mask(cores)

TopoNext == (ids.core = -1 /\ Route) \/ \E c \in Present : Ask(c)

-----------------------------------------------------------------------------
(***************************************************************************)
(* An interrupt goes to exactly the cores of the mask routed last, however *)
(* many words its string has; an empty mask changes nothing.  The partner  *)
(* that was read is the machine's on a machine whose thread_siblings has   *)
(* all Words words, where a core and its partner are in one of them; with  *)
(* fewer words get_ht_partner reads what was on its stack.  The APIC id    *)
(* that was read is always the machine's.                                  *)
(***************************************************************************)
RoutedAsAsked ==
    /\ asked # {} => affinity = asked
    /\ ids.core # -1 =>
          /\ ids.apic = Apic(ids.core)
          /\ LET s == siblings[ids.core] IN
             nwords = Words /\ s \div Width = ids.core \div Width => ids.partner = s

-----------------------------------------------------------------------------
(***************************************************************************)
(* CPU masks: the bit masks of lib/libcommon/xdk_numa_wrapper.cc, and      *)
(* get_actual_affinities of lib/libcommon/utils.cc, which turns the        *)
(* logical CPUs of a NUMA node into real ones.  A long of a mask is the    *)
(* set of its bits; the last one may have more bits than the mask's size.  *)
(***************************************************************************)
CONSTANTS
    Long,       \* bits of a long
    Masks,      \* the masks of the clients
    Sizes,      \* sizes they are allocated with
    Ncpus       \* processors online

VARIABLES
    mask,           \* each mask: its size (0 when not allocated) and its longs
    meant,          \* history: the CPUs the calls so far put into each
    translation     \* the last translation: CPUs of the node, logical and actual ones

maskVars == <<mask, meant, translation>>

longsperbits(n) == (n + Long - 1) \div Long
numa_bitmask_alloc(n) == [size |-> n, maskp |-> [k \in 0 .. longsperbits(n) - 1 |-> {}]]
numa_bitmask_nbits(b) == Long * longsperbits(b.size)

MaskInit ==
    /\ mask = [m \in Masks |-> numa_bitmask_alloc(0)]
    /\ meant = [m \in Masks |-> {}]
    /\ translation = [node |-> {}, logical |-> {}, actual |-> {}]

-----------------------------------------------------------------------------
\* A slip in getbit: the size is not looked at
getbit_any(b, n) == n < numa_bitmask_nbits(b) /\ n % Long \in b.maskp[n \div Long]

getbit(b, n) == n < b.size /\ n % Long \in b.maskp[n \div Long]

setbit(b, n, v) ==
    IF n < b.size
    THEN [b EXCEPT !.maskp[n \div Long] = IF v THEN @ \cup {n % Long} ELSE @ \ {n % Long}]
    ELSE b

numa_bitmask_setall(b) == FoldSet(LAMBDA i, m : setbit(m, i, TRUE), b, 0 .. b.size - 1)
numa_bitmask_clearall(b) == FoldSet(LAMBDA i, m : setbit(m, i, FALSE), b, 0 .. b.size - 1)
numa_bitmask_equal(a, b) == \A i \in 0 .. Max({a.size, b.size}) - 1 : getbit(a, i) = getbit(b, i)
numa_bitmask_weight(b) == Cardinality({i \in 0 .. b.size - 1 : getbit(b, i)})

(* Whole longs are copied; a larger destination is filled with zeroes *)
copy_bitmask_to_bitmask(from, to) ==
    [to EXCEPT !.maskp = [k \in DOMAIN @ |-> IF k \in DOMAIN from.maskp THEN from.maskp[k] ELSE {}]]

numa_allocate_cpumask == numa_bitmask_alloc(Ncpus)

(* All processors, whatever the node *)
numa_node_to_cpus(buffer) ==
    copy_bitmask_to_bitmask(numa_bitmask_setall(numa_allocate_cpumask), numa_bitmask_clearall(buffer))

-----------------------------------------------------------------------------
(* The scan goes on from bit a of the mask, the c-th CPU of the node, with
   the logical CPUs from l *)
RECURSIVE Scan(_, _, _, _, _, _)
Scan(node, logical, l, a, c, found) ==
    IF (\A x \in logical : x < l) \/ a >= numa_bitmask_nbits(node) THEN found
    ELSE LET next == Min({x \in logical : x >= l}) IN
         IF ~getbit(node, a) THEN Scan(node, logical, next, a + 1, c, found)
         ELSE IF next = c THEN Scan(node, logical, next + 1, a + 1, c + 1, found \cup {a})
         ELSE Scan(node, logical, next, a + 1, c + 1, found)

get_actual_affinities(logical, node) == Scan(node, logical, 0, 0, 0, {})

(* libnuma's numa_node_to_cpus gives the node's own processors *)
NodeMask(S) == FoldSet(LAMBDA i, b : setbit(b, i, TRUE), numa_allocate_cpumask, S)

-----------------------------------------------------------------------------
Set(m, b, S) ==
    /\ mask' = [mask EXCEPT ![m] = b] /\ meant' = [meant EXCEPT ![m] = S]
    /\ UNCHANGED translation

MaskCall(m) ==
    IF mask[m].size = 0
    THEN \E n \in Sizes : Set(m, numa_bitmask_alloc(n), {})
    ELSE \/ Set(m, numa_bitmask_alloc(0), {})      \* numa_bitmask_free
         \/ Set(m, numa_bitmask_setall(mask[m]), 0 .. mask[m].size - 1)
         \/ Set(m, numa_bitmask_clearall(mask[m]), {})
         \/ Set(m, numa_node_to_cpus(mask[m]), 0 .. Min({mask[m].size, Ncpus}) - 1)
         \/ \E i \in 0 .. Max(Sizes) :
              \/ Set(m, setbit(mask[m], i, TRUE), meant[m] \cup ({i} \cap 0 .. mask[m].size - 1))
              \/ Set(m, setbit(mask[m], i, FALSE), meant[m] \ {i})

(* The assertion: no more logical CPUs than the node has *)
Translate ==
    /\ translation.node = {} /\ \A m \in Masks : mask[m].size = 0
    /\ \E node, logical \in SUBSET (0 .. Ncpus - 1) :
        /\ node # {} /\ numa_bitmask_weight(NodeMask(node)) >= Cardinality(logical)
        /\ translation' = [node |-> node, logical |-> logical,
                           actual |-> get_actual_affinities(logical, NodeMask(node))]
    /\ UNCHANGED <<mask, meant>>

MaskNext == (translation.node = {} /\ \E m \in Masks : MaskCall(m)) \/ Translate

-----------------------------------------------------------------------------
(***************************************************************************)
(* A mask reads as the set its calls made of it: bits beyond its size,     *)
(* which copying whole longs leaves behind, are seen by no test, count or  *)
(* comparison, also with a mask of another size.  Logical CPU l is the     *)
(* CPU of the node with l of the node's CPUs below it.                     *)
(***************************************************************************)
MasksAreSets ==
    /\ \A m \in Masks :
        /\ {i \in 0 .. numa_bitmask_nbits(mask[m]) - 1 : getbit(mask[m], i)} = meant[m]
        /\ numa_bitmask_weight(mask[m]) = Cardinality(meant[m])
        /\ \A k \in Masks : mask[m].size > 0 /\ mask[k].size > 0 =>
              (numa_bitmask_equal(mask[m], mask[k]) <=> meant[m] = meant[k])
    /\ translation.actual = {a \in translation.node :
          Cardinality({x \in translation.node : x < a}) \in translation.logical}
=============================================================================
