----------------------------- MODULE BlockCache -----------------------------
(***************************************************************************)
(* Block_cache of fs/ext2fs/block_cache.h: a few silos, each a run of      *)
(* contiguous blocks in one chunk of memory.  Readers lock one entry at a  *)
(* time and look at a silo pointer before they lock; a miss takes a free   *)
(* entry or evicts one, and loads the silo under the entry's lock.  The    *)
(* memory is that of Simple_allocator, with the entries as its clients.    *)
(***************************************************************************)
EXTENDS Integers, FiniteSets

(***************************************************************************)
(* Simple_allocator: chunks with a lock each.  alloc looks at one chunk    *)
(* after the other, so that chunks it has passed are freed, and chunks it  *)
(* has not reached are taken, while it looks.  It panics when it has       *)
(* passed them all.                                                        *)
(***************************************************************************)

CONSTANTS
    NUM_CHUNKS,
    Client          \* each has at most one chunk at a time

ASSUME AllocatorAssumption ==
    /\ NUM_CHUNKS \in Nat
    /\ IsFiniteSet(Client) /\ Cardinality(Client) <= NUM_CHUNKS

VARIABLES
    taken,      \* _chunks[k]._taken
    has,        \* the chunk each client has, or 0
    at          \* the chunk each client's alloc looks at, or 0

vars == <<taken, has, at>>

Chunks == 1 .. NUM_CHUNKS

Init ==
    /\ taken = [k \in Chunks |-> FALSE]
    /\ has = [c \in Client |-> 0]
    /\ at = [c \in Client |-> 0]

CallAlloc(c) ==
    /\ has[c] = 0 /\ at[c] = 0
    /\ at' = [at EXCEPT ![c] = 1]
    /\ UNCHANGED <<taken, has>>

Pass(c) ==
    /\ at[c] \in Chunks
    /\ taken[at[c]]
    /\ at' = [at EXCEPT ![c] = @ + 1]
    /\ UNCHANGED <<taken, has>>

(* Mutant: the chunk is left unmarked *)
TakeChunk_unmarked(c) ==
    /\ at[c] \in Chunks
    /\ ~ taken[at[c]]
    /\ has' = [has EXCEPT ![c] = at[c]]
    /\ at' = [at EXCEPT ![c] = 0]
    /\ UNCHANGED taken

TakeChunk(c) ==
    /\ at[c] \in Chunks
    /\ ~ taken[at[c]]
    /\ taken' = [taken EXCEPT ![at[c]] = TRUE]
    /\ has' = [has EXCEPT ![c] = at[c]]
    /\ at' = [at EXCEPT ![c] = 0]

(* Mutant: the chunk stays marked *)
FreeChunk_leak(c) ==
    /\ has[c] # 0
    /\ has' = [has EXCEPT ![c] = 0]
    /\ UNCHANGED <<taken, at>>

FreeChunk(c) ==
    /\ has[c] # 0
    /\ taken' = [taken EXCEPT ![has[c]] = FALSE]
    /\ has' = [has EXCEPT ![c] = 0]
    /\ UNCHANGED at

Next == \E c \in Client :
    CallAlloc(c) \/ Pass(c) \/ TakeChunk(c) \/ FreeChunk(c)

Spec == Init /\ [][Next]_vars

-----------------------------------------------------------------------------
TypeOK ==
    /\ taken \in [Chunks -> BOOLEAN]
    /\ has \in [Client -> 0 .. NUM_CHUNKS]
    /\ at \in [Client -> 0 .. NUM_CHUNKS + 1]

(* A chunk is given to one client at a time.                               *)
OneOwner == \A c, d \in Client : has[c] = has[d] /\ has[c] # 0 => c = d

(* alloc finds a chunk: with no more clients than chunks its search does   *)
(* not run past the last one, whatever is taken and freed meanwhile.       *)
NoPanic == \A c \in Client : at[c] <= NUM_CHUNKS

(* The clients that are beyond chunk k, holding or looking *)
Beyond(k) == {c \in Client : has[c] > k \/ at[c] > k}

(* The inductive invariant: only NUM_CHUNKS - k clients are beyond chunk   *)
(* k, because whoever goes past chunk k leaves its owner behind.           *)
IInv ==
    /\ TypeOK
    /\ \A c \in Client : has[c] = 0 \/ at[c] = 0
    /\ \A k \in Chunks : taken[k] <=> \E c \in Client : has[c] = k
    /\ OneOwner
    /\ \A k \in 0 .. NUM_CHUNKS : Cardinality(Beyond(k)) <= NUM_CHUNKS - k

-----------------------------------------------------------------------------
(* Block_cache *)

CONSTANTS
    Reader, None,
    BLOCK_SIZE, BLOCKS_PER_SILO,
    Request,        \* the (offset, byte count) pairs readers ask for
    MaxReads        \* bound: calls of read

VARIABLES
    silo, age, lock,    \* _silo_entries: a silo is given by its start offset
    content,            \* what was loaded into each chunk
    cycles,             \* read_cycles
    reads,              \* calls of read so far
    pc, req, i, best    \* each reader's position, request, index and choice

entryVars == <<silo, age, lock>>
memVars == <<vars, content>>
cacheVars == <<entryVars, memVars, cycles, reads, pc, req, i, best>>

(* Simple_allocator<MAX_SILOS, ...> _mem_allocator *)
MAX_SILOS == NUM_CHUNKS
Entries == 1 .. MAX_SILOS

SiloBytes == BLOCK_SIZE * BLOCKS_PER_SILO
Start(r) == r[1] - (r[1] % BLOCK_SIZE)

ASSUME CacheAssumption ==
    /\ Client = Entries /\ NUM_CHUNKS > 0
    /\ None \notin Reader /\ \A r \in Request : Start(r) # None

Covers(start, r) == r[1] >= start /\ r[1] + r[2] <= start + SiloBytes

CacheInit ==
    /\ Init
    /\ silo = [e \in Entries |-> None] /\ age = [e \in Entries |-> 0]
    /\ lock = [e \in Entries |-> None]
    /\ content = [k \in Chunks |-> None]
    /\ cycles = 1 /\ reads = 0
    /\ pc = [t \in Reader |-> "idle"]
    /\ req = [t \in Reader |-> None]
    /\ i = [t \in Reader |-> 1] /\ best = [t \in Reader |-> 1]

Goto(t, label) == pc' = [pc EXCEPT ![t] = label]

-----------------------------------------------------------------------------
(* A read larger than a silo goes to the device *)
Read(t) ==
    /\ pc[t] = "idle" /\ reads < MaxReads
    /\ reads' = reads + 1
    /\ \E r \in Request :
          /\ req' = [req EXCEPT ![t] = r]
          /\ Goto(t, IF r[2] > SiloBytes THEN "idle" ELSE "probe")
    /\ i' = [i EXCEPT ![t] = 1]
    /\ UNCHANGED <<entryVars, memVars, cycles, best>>

(* The pointer is tested before the lock is taken *)
Probe(t) ==
    /\ pc[t] = "probe"
    /\ IF i[t] > MAX_SILOS
       THEN /\ Goto(t, "scan")
            /\ i' = [i EXCEPT ![t] = 1] /\ best' = [best EXCEPT ![t] = 1]
       ELSE IF silo[i[t]] = None
       THEN i' = [i EXCEPT ![t] = @ + 1] /\ UNCHANGED <<pc, best>>
       ELSE Goto(t, "look") /\ UNCHANGED <<i, best>>
    /\ UNCHANGED <<entryVars, memVars, cycles, reads, req>>

(* Lock, read from the silo if it has the range, unlock *)
Look(t) ==
    /\ pc[t] = "look"
    /\ lock[i[t]] = None
    /\ silo[i[t]] # None
    /\ IF Covers(silo[i[t]], req[t])
       THEN Goto(t, "idle") /\ UNCHANGED i
       ELSE Goto(t, "probe") /\ i' = [i EXCEPT ![t] = @ + 1]
    /\ UNCHANGED <<entryVars, memVars, cycles, reads, req, best>>

(* A turn of the loop of find_best_silo; an unused entry stays locked *)
Scan(t) ==
    /\ pc[t] = "scan"
    /\ IF i[t] > MAX_SILOS
       THEN Goto(t, "evict") /\ UNCHANGED <<lock, i, best>>
       ELSE /\ lock[i[t]] = None
            /\ IF age[i[t]] = 0
               THEN /\ lock' = [lock EXCEPT ![i[t]] = t]
                    /\ best' = [best EXCEPT ![t] = i[t]]
                    /\ Goto(t, "new")
                    /\ UNCHANGED i
               ELSE /\ best' = [best EXCEPT ![t] =
                                  IF age[i[t]] > age[@] THEN i[t] ELSE @]
                    /\ i' = [i EXCEPT ![t] = @ + 1]
                    /\ UNCHANGED <<lock, pc>>
    /\ UNCHANGED <<silo, age, memVars, cycles, reads, req>>

(* ~Silo of an entry, whose pointer may be NULL *)
DeleteSilo(e) == IF silo[e] = None THEN UNCHANGED vars ELSE FreeChunk(e)

(* Mutant: the chosen entry is not locked again *)
Evict_unlocked(t) ==
    /\ pc[t] = "evict"
    /\ DeleteSilo(best[t])
    /\ silo' = [silo EXCEPT ![best[t]] = None]
    /\ age' = [age EXCEPT ![best[t]] = 0]
    /\ Goto(t, "new")
    /\ UNCHANGED <<lock, content, cycles, reads, req, i, best>>

(* The chosen entry is locked again and its silo deleted *)
Evict(t) ==
    /\ pc[t] = "evict"
    /\ lock[best[t]] = None
    /\ lock' = [lock EXCEPT ![best[t]] = t]
    /\ DeleteSilo(best[t])
    /\ silo' = [silo EXCEPT ![best[t]] = None]
    /\ age' = [age EXCEPT ![best[t]] = 0]
    /\ Goto(t, "new")
    /\ UNCHANGED <<content, cycles, reads, req, i, best>>

(* allocate_silo: assert(s->_age == 0); the silo's constructor calls alloc *)
NewSilo(t) ==
    /\ pc[t] = "new"
    /\ age[best[t]] = 0
    /\ CallAlloc(best[t])
    /\ Goto(t, "alloc")
    /\ UNCHANGED <<entryVars, content, cycles, reads, req, i, best>>

(* A turn of the loop of Simple_allocator::alloc *)
AllocChunk(t) ==
    /\ pc[t] = "alloc"
    /\ \/ Pass(best[t]) /\ UNCHANGED pc
       \/ TakeChunk(best[t]) /\ Goto(t, "load")
    /\ UNCHANGED <<entryVars, content, cycles, reads, req, i, best>>

(* The silo's constructor reads the device; then the pointer is stored *)
Load(t) ==
    /\ pc[t] = "load"
    /\ content' = [content EXCEPT ![has[best[t]]] = Start(req[t])]
    /\ silo' = [silo EXCEPT ![best[t]] = Start(req[t])]
    /\ Goto(t, "read")
    /\ UNCHANGED <<age, lock, vars, cycles, reads, req, i, best>>

(* Mutant: the entry stays locked *)
ReadNew_locked(t) ==
    /\ pc[t] = "read"
    /\ age' = [age EXCEPT ![best[t]] = cycles]
    /\ cycles' = cycles + 1
    /\ Goto(t, "idle")
    /\ UNCHANGED <<silo, lock, memVars, reads, req, i, best>>

(* The age is set; read, assert(err == S_OK) and unlock *)
ReadNew(t) ==
    /\ pc[t] = "read"
    /\ age' = [age EXCEPT ![best[t]] = cycles]
    /\ cycles' = cycles + 1
    /\ lock' = [lock EXCEPT ![best[t]] = None]
    /\ Goto(t, "idle")
    /\ UNCHANGED <<silo, memVars, reads, req, i, best>>

-----------------------------------------------------------------------------
Step(t) == \/ Probe(t) \/ Look(t) \/ Scan(t) \/ Evict(t) \/ NewSilo(t)
           \/ AllocChunk(t) \/ Load(t) \/ ReadNew(t)

CacheNext == \E t \in Reader : Read(t) \/ Step(t)

CacheSpec == CacheInit /\ [][CacheNext]_cacheVars

-----------------------------------------------------------------------------
(* A silo that can be read holds the blocks it stands for: no other silo   *)
(* is loaded into its memory, however evictions and loads interleave.      *)
SiloHoldsItsData == \A e \in Entries : silo[e] # None =>
    content[has[e]] = silo[e]

(* The pointer tested before the lock was taken is not NULL after it: an   *)
(* entry that is being replaced stays locked until it has a silo again.    *)
NoNullSilo == \A t \in Reader :
    pc[t] = "look" /\ lock[i[t]] = None => silo[i[t]] # None

(* Both: a reader finds a silo, and in it the blocks it asked for *)
CacheSound == NoNullSilo /\ SiloHoldsItsData

-----------------------------------------------------------------------------
(***************************************************************************)
(* The inductive invariant (proved in BlockCacheProofs).                   *)
(***************************************************************************)

(* The steps at which a reader has its chosen entry locked, and what the   *)
(* reader that has entry e locked is about to do with it                   *)
Holding == {"new", "alloc", "load", "read"}
Phase(e) == IF lock[e] = None THEN "free" ELSE pc[lock[e]]

Offsets == {Start(r) : r \in Request}

CacheTypeOK ==
    /\ age \in [Entries -> Nat] /\ lock \in [Entries -> Reader \cup {None}]
    /\ silo \in [Entries -> Offsets \cup {None}]
    /\ content \in [Chunks -> Offsets \cup {None}]
    /\ cycles \in Nat \ {0}
    /\ pc \in [Reader -> {"idle", "probe", "look", "scan", "evict"} \cup Holding]
    /\ req \in [Reader -> Request \cup {None}]
    /\ i \in [Reader -> 1 .. MAX_SILOS + 1] /\ best \in [Reader -> Entries]

LockInv ==
    /\ \A e \in Entries : lock[e] # None =>
          best[lock[e]] = e /\ pc[lock[e]] \in Holding
    /\ \A t \in Reader : pc[t] \in Holding => lock[best[t]] = t
    /\ \A t \in Reader : pc[t] = "look" => i[t] \in Entries
    /\ \A t \in Reader : pc[t] # "idle" => req[t] \in Request

(* An entry in use has a silo and a chunk; one that is being replaced has  *)
(* neither, then asks for a chunk, has it, and has its silo                *)
EntryInv == \A e \in Entries :
    /\ at[e] # 0 <=> Phase(e) = "alloc"
    /\ has[e] # 0 <=> silo[e] # None \/ Phase(e) = "load"
    /\ Phase(e) \in {"new", "alloc", "load"} => silo[e] = None
    /\ Phase(e) = "new" => age[e] = 0
    /\ Phase(e) = "read" => silo[e] # None
    /\ Phase(e) = "free" => (silo[e] = None <=> age[e] = 0)

CacheInv == IInv /\ CacheTypeOK /\ LockInv /\ EntryInv /\ CacheSound
=============================================================================
