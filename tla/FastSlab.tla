------------------------------ MODULE FastSlab ------------------------------
(***************************************************************************)
(* Symmetric_nbb (lib/libexo/private/__sym_nbb.h): a non-blocking buffer   *)
(* for one producer and one consumer.  Each side announces with an odd     *)
(* counter that it is inside the buffer; the counters start again at       *)
(* count_limit, while their difference is taken in an unsigned int.        *)
(***************************************************************************)
EXTENDS Integers, Sequences, FiniteSets

CONSTANTS
    Item, None,
    Size,           \* _buffer_size
    Word,           \* range of unsigned, 2^32
    MaxCount        \* bound: insertions start below this value of last_uc

(* The constructor's: k * _buffer_size with k even *)
CountLimit == 2 * ((Word - 1) \div (4 * Size)) * Size

(* The constructor asserts k >= 2.  With k = 2 a full buffer would look    *)
(* empty, which takes a buffer of more than 2^28 slots.                    *)
NbbAssumption ==
    /\ Size \in Nat \ {0} /\ Word \in Nat /\ CountLimit > 2 * Size
    /\ None \notin Item

VARIABLES
    uc, last_uc,            \* update counter, the producer's copy
    ac, last_ac,            \* acknowledge counter, the consumer's copy
    buffer,
    ipc, iitem, ires,       \* insert_item: position, argument, result
    rpc, ritem, rres        \* read_item: position, item read, result

insertVars == <<uc, last_uc, ipc, iitem, ires>>
readVars == <<ac, last_ac, rpc, ritem, rres>>
nbbVars == <<insertVars, readVars, buffer>>

Slots == 0 .. Size - 1
Slot(count) == (count \div 2) % Size

(* Mutant: the counters run on past the limit *)
Advance_unlimited(count) == (count + 2) % Word

Advance(count) == IF count + 2 = CountLimit THEN 0 ELSE count + 2

InitWith(items) ==
    /\ uc = 2 * Len(items) /\ last_uc = 2 * Len(items)
    /\ ac = 0 /\ last_ac = 0
    /\ buffer = [s \in Slots |-> IF s < Len(items) THEN items[s + 1] ELSE None]
    /\ ipc = "idle" /\ iitem = None /\ ires = "ok"
    /\ rpc = "idle" /\ ritem = None /\ rres = "ok"

-----------------------------------------------------------------------------
(* insert_item, by the one producer *)

InsertCall(i) ==
    /\ ipc = "idle"
    /\ last_uc < MaxCount
    /\ ipc' = "check" /\ iitem' = i
    /\ UNCHANGED <<uc, last_uc, ires, buffer, readVars>>

(* Mutant: full as soon as the last slot is claimed *)
InsertCheck_early ==
    /\ ipc = "check"
    /\ IF (last_uc - ac) % Word >= 2 * Size - 2
       THEN ipc' = "return" /\ ires' = "full"
       ELSE ipc' = "mark" /\ UNCHANGED ires
    /\ UNCHANGED <<uc, last_uc, iitem, buffer, readVars>>

InsertCheck ==
    /\ ipc = "check"
    /\ LET gap == (last_uc - ac) % Word
       IN  IF gap \in {2 * Size, 2 * Size - 1}
           THEN /\ ipc' = "return"
                /\ ires' = IF gap = 2 * Size THEN "full" ELSE "full_reading"
           ELSE ipc' = "mark" /\ UNCHANGED ires
    /\ UNCHANGED <<uc, last_uc, iitem, buffer, readVars>>

InsertMark ==
    /\ ipc = "mark"
    /\ uc' = last_uc + 1
    /\ ipc' = "store"
    /\ UNCHANGED <<last_uc, iitem, ires, buffer, readVars>>

InsertStore ==
    /\ ipc = "store"
    /\ buffer' = [buffer EXCEPT ![Slot(last_uc)] = iitem]
    /\ ipc' = "publish"
    /\ UNCHANGED <<uc, last_uc, iitem, ires, readVars>>

InsertPublish ==
    /\ ipc = "publish"
    /\ uc' = Advance(last_uc) /\ last_uc' = Advance(last_uc)
    /\ ires' = "ok"
    /\ ipc' = "return"
    /\ UNCHANGED <<iitem, buffer, readVars>>

InsertReturn ==
    /\ ipc = "return"
    /\ ipc' = "idle" /\ iitem' = None
    /\ UNCHANGED <<uc, last_uc, ires, buffer, readVars>>

InsertStep == InsertCheck \/ InsertMark \/ InsertStore \/ InsertPublish

-----------------------------------------------------------------------------
(* read_item, by the one consumer *)

ReadCall ==
    /\ rpc = "idle"
    /\ rpc' = "check"
    /\ UNCHANGED <<ac, last_ac, ritem, rres, buffer, insertVars>>

(* Mutant: an insertion in progress counts as an item *)
ReadCheck_hasty ==
    /\ rpc = "check"
    /\ IF uc = last_ac
       THEN rpc' = "return" /\ rres' = "empty"
       ELSE rpc' = "mark" /\ UNCHANGED rres
    /\ UNCHANGED <<ac, last_ac, ritem, buffer, insertVars>>

ReadCheck ==
    /\ rpc = "check"
    /\ LET gap == (uc - last_ac) % Word
       IN  IF gap \in {0, 1}
           THEN /\ rpc' = "return"
                /\ rres' = IF gap = 0 THEN "empty" ELSE "empty_inserting"
           ELSE rpc' = "mark" /\ UNCHANGED rres
    /\ UNCHANGED <<ac, last_ac, ritem, buffer, insertVars>>

ReadMark ==
    /\ rpc = "mark"
    /\ ac' = last_ac + 1
    /\ rpc' = "copy"
    /\ UNCHANGED <<last_ac, ritem, rres, buffer, insertVars>>

ReadCopy ==
    /\ rpc = "copy"
    /\ ritem' = buffer[Slot(last_ac)]
    /\ rpc' = "publish"
    /\ UNCHANGED <<ac, last_ac, rres, buffer, insertVars>>

ReadPublish ==
    /\ rpc = "publish"
    /\ ac' = Advance(last_ac) /\ last_ac' = Advance(last_ac)
    /\ rres' = "ok"
    /\ rpc' = "return"
    /\ UNCHANGED <<ritem, buffer, insertVars>>

ReadReturn ==
    /\ rpc = "return"
    /\ rpc' = "idle" /\ ritem' = None
    /\ UNCHANGED <<ac, last_ac, rres, buffer, insertVars>>

ReadStep == ReadCheck \/ ReadMark \/ ReadCopy \/ ReadPublish

-----------------------------------------------------------------------------
NbbTypeOK ==
    /\ {uc, ac} \subseteq 0 .. CountLimit - 1
    /\ {last_uc, last_ac} \subseteq {2 * n : n \in 0 .. CountLimit \div 2 - 1}
    /\ buffer \in [Slots -> Item \cup {None}]
    /\ {iitem, ritem} \subseteq Item \cup {None}
    /\ ipc \in {"idle", "check", "mark", "store", "publish", "return"}
    /\ rpc \in {"idle", "check", "mark", "copy", "publish", "return"}
    /\ ires \in {"ok", "full", "full_reading"}
    /\ rres \in {"ok", "empty", "empty_inserting"}

(* Items published and not claimed by the consumer *)
Unread == LET taken == IF rpc \in {"copy", "publish"} THEN 1 ELSE 0
          IN  ((last_uc - last_ac) % CountLimit) \div 2 - taken

(* The buffer is a FIFO of Size items between a producer and a consumer    *)
(* that never wait for each other: an item is taken when the consumer      *)
(* claims its slot, and the producer stays out of that slot until the      *)
(* consumer has copied it.                                                 *)
Abstract == INSTANCE Fifo WITH
    Consumer <- {"consumer"}, Capacity <- Size,
    queue <- LET first == last_ac \div 2 +
                          IF rpc \in {"copy", "publish"} THEN 1 ELSE 0
             IN  [n \in 1 .. Unread |-> buffer[(first + n - 1) % Size]],
    held <- [c \in {"consumer"} |-> IF rpc = "copy" THEN buffer[Slot(last_ac)]
                                    ELSE ritem]
FifoSpec == Abstract!Spec

-----------------------------------------------------------------------------
(***************************************************************************)
(* Fast_slab_allocator_T (lib/libexo/exo/fast_slab.h): a pool of blocks    *)
(* whose free list is a Symmetric_nbb with one slot per block.  Threads    *)
(* allocate under a lock on the consumer's access point and free under     *)
(* another one on the producer's; an allocation and a release run at the   *)
(* same time.  __num_avail is updated outside both locks.                  *)
(***************************************************************************)
CONSTANT Thread

VARIABLES
    tpc,                    \* position in alloc or free
    consLock, prodLock,     \* holder of each lock, or None
    owned,                  \* blocks the client of each thread has
    numAvail,               \* __num_avail
    temp, delta             \* the thread's copy of it, and what it adds

slabVars == <<tpc, consLock, prodLock, owned, numAvail, temp, delta>>
vars == <<nbbVars, slabVars>>

(* The constructor has put every block into the buffer *)
SlabInit ==
    /\ \E order \in [1 .. Size -> Item] :
          /\ \A m, n \in 1 .. Size : m # n => order[m] # order[n]
          /\ InitWith(order)
    /\ tpc = [t \in Thread |-> "idle"]
    /\ consLock = None /\ prodLock = None
    /\ owned = [t \in Thread |-> {}]
    /\ numAvail = Size
    /\ temp = [t \in Thread |-> 0] /\ delta = [t \in Thread |-> 0]

-----------------------------------------------------------------------------
AllocLock(t) ==
    /\ tpc[t] = "idle"
    /\ consLock = None
    /\ consLock' = t
    /\ tpc' = [tpc EXCEPT ![t] = "alloc"]
    /\ ReadCall
    /\ UNCHANGED <<prodLock, owned, numAvail, temp, delta>>

AllocRead(t) ==
    /\ tpc[t] = "alloc"
    /\ ReadStep
    /\ UNCHANGED slabVars

(* read_item returns and the lock is released; NULL when there is no block *)
AllocUnlock(t) ==
    /\ tpc[t] = "alloc"
    /\ consLock' = None
    /\ IF rres = "ok"
       THEN /\ owned' = [owned EXCEPT ![t] = @ \cup {ritem}]
            /\ tpc' = [tpc EXCEPT ![t] = "load"]
            /\ delta' = [delta EXCEPT ![t] = -1]
       ELSE tpc' = [tpc EXCEPT ![t] = "idle"] /\ UNCHANGED <<owned, delta>>
    /\ ReadReturn
    /\ UNCHANGED <<prodLock, numAvail, temp>>

-----------------------------------------------------------------------------
(* Mutant: the client keeps using the block *)
FreeLock_keep(t, i) ==
    /\ tpc[t] = "idle"
    /\ i \in owned[t]
    /\ prodLock = None
    /\ prodLock' = t
    /\ tpc' = [tpc EXCEPT ![t] = "free"]
    /\ InsertCall(i)
    /\ UNCHANGED <<consLock, owned, numAvail, temp, delta>>

FreeLock(t, i) ==
    /\ tpc[t] = "idle"
    /\ i \in owned[t]
    /\ prodLock = None
    /\ prodLock' = t
    /\ owned' = [owned EXCEPT ![t] = @ \ {i}]
    /\ tpc' = [tpc EXCEPT ![t] = "free"]
    /\ InsertCall(i)
    /\ UNCHANGED <<consLock, numAvail, temp, delta>>

FreeInsert(t) ==
    /\ tpc[t] = "free"
    /\ InsertStep
    /\ UNCHANGED slabVars

(* A failed insertion is a panic *)
FreeUnlock(t) ==
    /\ tpc[t] = "free"
    /\ prodLock' = None
    /\ tpc' = [tpc EXCEPT ![t] = IF ires = "ok" THEN "load" ELSE "panic"]
    /\ delta' = [delta EXCEPT ![t] = 1]
    /\ InsertReturn
    /\ UNCHANGED <<consLock, owned, numAvail, temp>>

-----------------------------------------------------------------------------
(* __num_avail is read, changed and written back without a lock *)

LoadAvail(t) ==
    /\ tpc[t] = "load"
    /\ temp' = [temp EXCEPT ![t] = numAvail]
    /\ tpc' = [tpc EXCEPT ![t] = "store"]
    /\ UNCHANGED <<consLock, prodLock, owned, numAvail, delta, nbbVars>>

StoreAvail(t) ==
    /\ tpc[t] = "store"
    /\ numAvail' = (temp[t] + delta[t]) % Word
    /\ tpc' = [tpc EXCEPT ![t] = "idle"]
    /\ temp' = [temp EXCEPT ![t] = 0]
    /\ delta' = [delta EXCEPT ![t] = 0]
    /\ UNCHANGED <<consLock, prodLock, owned, nbbVars>>

-----------------------------------------------------------------------------
Alloc(t) == AllocLock(t) \/ AllocRead(t) \/ AllocUnlock(t)

Free(t) == \/ \E i \in Item : FreeLock(t, i)
           \/ FreeInsert(t) \/ FreeUnlock(t)

SlabNext == \E t \in Thread : \/ Alloc(t) \/ Free(t)
                              \/ LoadAvail(t) \/ StoreAvail(t)

SlabSpec == SlabInit /\ [][SlabNext]_vars

-----------------------------------------------------------------------------
SlabTypeOK ==
    /\ NbbTypeOK
    /\ tpc \in [Thread -> {"idle", "alloc", "free", "load", "store", "panic"}]
    /\ consLock \in Thread \cup {None} /\ prodLock \in Thread \cup {None}
    /\ owned \in [Thread -> SUBSET Item]
    /\ numAvail \in 0 .. Word - 1

(* Blocks on the free list, from the one being read to the one inserted *)
FreeBlocks == {buffer[Slot((last_ac + 2 * n) % CountLimit)] :
                  n \in {m \in 0 .. Size - 1 :
                           2 * m < (last_uc - last_ac) % CountLimit}}

(* A block that one call still has in its hands alone *)
Moving == {ritem, IF ipc = "return" THEN None ELSE iitem} \ {None}

Users(i) == {t \in Thread : i \in owned[t]}

(* No block is given to two clients, or to one while it is free, and none  *)
(* is lost: alloc and free running at the same time, over counters that    *)
(* start again at count_limit, keep every block in one place.              *)
BlocksApart == \A i \in Item :
    /\ Cardinality(Users(i)) <= 1
    /\ Users(i) # {} => i \notin FreeBlocks \cup Moving
    /\ Users(i) = {} => i \in FreeBlocks \cup Moving

(* free never finds the buffer full, so its panic is not reached, although *)
(* the difference of the counters is wrong once one has started again.     *)
NoPanic == \A t \in Thread : tpc[t] # "panic"
=============================================================================
