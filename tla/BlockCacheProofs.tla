-------------------------- MODULE BlockCacheProofs --------------------------
(***************************************************************************)
(* Proofs about Simple_allocator and Block_cache, for any number of chunks,*)
(* of clients up to it, of silos, of readers and of reads: alloc never     *)
(* panics or gives a chunk away twice, a silo that can be read holds its   *)
(* blocks, and its pointer is not NULL under its lock.                     *)
(***************************************************************************)
EXTENDS BlockCache, FiniteSetTheorems, TLAPS

-----------------------------------------------------------------------------
(* The allocator.  The clients beyond a chunk are a finite set.            *)
LEMMA BeyondFinite == ASSUME NEW k \in Int
                      PROVE  /\ IsFiniteSet(Beyond(k))
                             /\ Cardinality(Beyond(k)) \in Nat
  <1>1. Beyond(k) \subseteq Client
    BY Zenon DEF Beyond
  <1>2. IsFiniteSet(Beyond(k))
    BY <1>1, AllocatorAssumption, FS_Subset, Zenon
  <1> QED
    BY <1>2, FS_CardinalityType, Zenon

(* Nobody is beyond any chunk before the first call of alloc.              *)
LEMMA InitIInv == Init => IInv
  <1> SUFFICES ASSUME Init PROVE IInv
    BY Zenon
  <1> USE AllocatorAssumption
  <1>1. TypeOK /\ OneOwner
    BY DEF Init, TypeOK, OneOwner, Chunks
  <1>2. \A k \in Chunks : taken[k] <=> \E c \in Client : has[c] = k
    BY DEF Init, Chunks
  <1>3. ASSUME NEW k \in 0 .. NUM_CHUNKS
        PROVE  Cardinality(Beyond(k)) <= NUM_CHUNKS - k
    <2>1. Beyond(k) = {}
      BY DEF Beyond, Init
    <2> QED
      BY <2>1, FS_EmptySet
  <1> QED
    BY <1>1, <1>2, <1>3, Zenon DEF IInv, Init

(* A call of alloc puts its client beyond chunk 0 only, where there is     *)
(* room for every client.                                                  *)
LEMMA CallAllocIInv == ASSUME NEW c \in Client, IInv, CallAlloc(c) PROVE IInv'
  <1> USE AllocatorAssumption
  <1>1. TypeOK' /\ OneOwner'
    BY DEF IInv, TypeOK, OneOwner, CallAlloc, Chunks
  <1>2. \A k \in Chunks : taken'[k] <=> \E d \in Client : has'[d] = k
    BY Zenon DEF IInv, CallAlloc
  <1>3. \A d \in Client : has'[d] = 0 \/ at'[d] = 0
    BY Zenon DEF IInv, TypeOK, CallAlloc
  <1>4. ASSUME NEW k \in 0 .. NUM_CHUNKS
        PROVE  Cardinality(Beyond(k)') <= NUM_CHUNKS - k
    <2>1. CASE k = 0
      <3>1. Beyond(k)' \subseteq Client
        BY Zenon DEF Beyond
      <3>2. /\ Cardinality(Beyond(k)') <= Cardinality(Client)
            /\ Cardinality(Beyond(k)') \in Nat /\ Cardinality(Client) \in Nat
        BY <3>1, FS_Subset, FS_CardinalityType, Zenon
      <3> QED
        BY <2>1, <3>2
    <2>2. CASE k # 0
      <3>1. Beyond(k)' = Beyond(k)
        BY <2>2 DEF Beyond, CallAlloc, IInv, TypeOK
      <3> QED
        BY <3>1, Zenon DEF IInv
    <2> QED
      BY <2>1, <2>2, Zenon
  <1> QED
    BY <1>1, <1>2, <1>3, <1>4, Zenon DEF IInv

(* Going past a taken chunk leaves the chunk's owner behind: one client    *)
(* fewer than were beyond the chunk before it.                             *)
LEMMA PassIInv == ASSUME NEW c \in Client, IInv, Pass(c) PROVE IInv'
  <1> USE AllocatorAssumption
  <1>1. TypeOK' /\ OneOwner'
    BY DEF IInv, TypeOK, OneOwner, Pass, Chunks
  <1>2. \A k \in Chunks : taken'[k] <=> \E d \in Client : has'[d] = k
    BY Zenon DEF IInv, Pass
  <1>3. \A d \in Client : has'[d] = 0 \/ at'[d] = 0
    BY DEF IInv, TypeOK, Pass, Chunks
  <1>4. ASSUME NEW k \in 0 .. NUM_CHUNKS
        PROVE  Cardinality(Beyond(k)') <= NUM_CHUNKS - k
    <2>1. CASE k = at[c]
      <3>1. PICK d \in Client : has[d] = k
        BY <2>1, Zenon DEF IInv, Pass
      <3>2. /\ Beyond(k)' \subseteq Beyond(k - 1) \ {d}
            /\ d \in Beyond(k - 1)
        BY <2>1, <3>1 DEF IInv, TypeOK, Beyond, Pass, Chunks
      <3>3. k - 1 \in 0 .. NUM_CHUNKS
        BY <2>1 DEF Pass, Chunks
      <3>4. /\ IsFiniteSet(Beyond(k - 1) \ {d})
            /\ Cardinality(Beyond(k - 1) \ {d}) = Cardinality(Beyond(k - 1)) - 1
        <4>1. IsFiniteSet(Beyond(k - 1))
          BY <3>3, BeyondFinite
        <4> QED
          BY <3>2, <4>1, FS_RemoveElement, Zenon
      <3>5. /\ Cardinality(Beyond(k)') <= Cardinality(Beyond(k - 1) \ {d})
            /\ Cardinality(Beyond(k)') \in Nat
        BY <3>2, <3>4, FS_Subset, FS_CardinalityType, Zenon
      <3>6. /\ Cardinality(Beyond(k - 1)) <= NUM_CHUNKS - (k - 1)
            /\ Cardinality(Beyond(k - 1)) \in Nat
        BY <3>3, BeyondFinite DEF IInv
      <3> QED
        BY <3>4, <3>5, <3>6
    <2>2. CASE k # at[c]
      <3>1. Beyond(k)' = Beyond(k)
        BY <2>2 DEF Beyond, Pass, IInv, TypeOK, Chunks
      <3> QED
        BY <3>1, Zenon DEF IInv
    <2> QED
      BY <2>1, <2>2, Zenon
  <1> QED
    BY <1>1, <1>2, <1>3, <1>4, Zenon DEF IInv

(* Taking a chunk changes where no client is.                              *)
LEMMA TakeChunkIInv == ASSUME NEW c \in Client, IInv, TakeChunk(c) PROVE IInv'
  <1> USE AllocatorAssumption
  <1>1. TypeOK'
    BY DEF IInv, TypeOK, TakeChunk, Chunks
  <1>2. has[c] = 0 /\ \A d \in Client : has[d] # at[c]
    BY DEF IInv, TypeOK, TakeChunk, Chunks
  <1>3. OneOwner'
    BY <1>2, Zenon DEF IInv, TypeOK, OneOwner, TakeChunk, Chunks
  <1>4. \A k \in Chunks : taken'[k] <=> \E d \in Client : has'[d] = k
    BY <1>2 DEF IInv, TypeOK, TakeChunk, Chunks
  <1>5. \A d \in Client : has'[d] = 0 \/ at'[d] = 0
    BY Zenon DEF IInv, TypeOK, TakeChunk
  <1>6. ASSUME NEW k \in 0 .. NUM_CHUNKS
        PROVE  Cardinality(Beyond(k)') <= NUM_CHUNKS - k
    <2>1. Beyond(k)' = Beyond(k)
      BY <1>2, Zenon DEF Beyond, TakeChunk, IInv, TypeOK, Chunks
    <2> QED
      BY <2>1, Zenon DEF IInv
  <1> QED
    BY <1>1, <1>3, <1>4, <1>5, <1>6, Zenon DEF IInv

(* Freeing a chunk takes its client back before all chunks.                *)
LEMMA FreeChunkIInv == ASSUME NEW c \in Client, IInv, FreeChunk(c) PROVE IInv'
  <1> USE AllocatorAssumption
  <1>1. TypeOK' /\ OneOwner'
    BY DEF IInv, TypeOK, OneOwner, FreeChunk, Chunks
  <1>2. has[c] \in Chunks /\ \A d \in Client : d # c => has[d] # has[c]
    BY DEF IInv, TypeOK, OneOwner, FreeChunk, Chunks
  <1>3. \A k \in Chunks : taken'[k] <=> \E d \in Client : has'[d] = k
    BY <1>2 DEF IInv, TypeOK, FreeChunk, Chunks
  <1>4. \A d \in Client : has'[d] = 0 \/ at'[d] = 0
    BY Zenon DEF IInv, TypeOK, FreeChunk
  <1>5. ASSUME NEW k \in 0 .. NUM_CHUNKS
        PROVE  Cardinality(Beyond(k)') <= NUM_CHUNKS - k
    <2>1. Beyond(k)' \subseteq Beyond(k)
      BY Zenon DEF Beyond, FreeChunk, IInv, TypeOK
    <2>2. IsFiniteSet(Beyond(k)) /\ Cardinality(Beyond(k)) \in Nat
      BY BeyondFinite
    <2>3. /\ Cardinality(Beyond(k)') <= Cardinality(Beyond(k))
          /\ Cardinality(Beyond(k)') \in Nat
      BY <2>1, <2>2, FS_Subset, FS_CardinalityType, Zenon
    <2> QED
      BY <2>2, <2>3 DEF IInv
  <1> QED
    BY <1>1, <1>3, <1>4, <1>5, Zenon DEF IInv

(* IInv is an invariant of Simple_allocator.                               *)
THEOREM Invariance == Spec => []IInv
  <1>1. IInv /\ [Next]_vars => IInv'
    <2> SUFFICES ASSUME IInv, [Next]_vars PROVE IInv'
      BY Zenon
    <2>1. ASSUME NEW c \in Client,
                 CallAlloc(c) \/ Pass(c) \/ TakeChunk(c) \/ FreeChunk(c)
          PROVE  IInv'
      BY <2>1, CallAllocIInv, PassIInv, TakeChunkIInv, FreeChunkIInv, Zenon
    <2>2. CASE UNCHANGED vars
      BY <2>2, Zenon DEF vars, IInv, TypeOK, OneOwner, Beyond
    <2> QED
      BY <2>1, <2>2, Zenon DEF Next
  <1> QED
    BY <1>1, InitIInv, PTL DEF Spec

(* Nobody is beyond the last chunk.                                        *)
LEMMA NobodyBeyond == ASSUME IInv PROVE NoPanic
  <1> SUFFICES ASSUME NEW c \in Client PROVE at[c] <= NUM_CHUNKS
    BY Zenon DEF NoPanic
  <1>1. Cardinality(Beyond(NUM_CHUNKS)) <= 0
    BY AllocatorAssumption DEF IInv
  <1>2. Beyond(NUM_CHUNKS) = {}
    BY <1>1, AllocatorAssumption, BeyondFinite, FS_EmptySet
  <1> QED
    BY <1>2, AllocatorAssumption DEF Beyond, IInv, TypeOK

(* With no more clients than chunks, alloc never reaches its panic, though *)
(* it looks at one chunk at a time while others are taken and freed.       *)
THEOREM AllocFindsChunk == Spec => []NoPanic
  <1>1. IInv => NoPanic
    BY NobodyBeyond, Zenon
  <1> QED
    BY <1>1, Invariance, PTL

(* A chunk has one owner at a time.                                        *)
THEOREM ChunksAreApart == Spec => []OneOwner
  <1>1. IInv => OneOwner
    BY Zenon DEF IInv
  <1> QED
    BY <1>1, Invariance, PTL

-----------------------------------------------------------------------------
(* The cache on top of it.                                                 *)
LEMMA InitCacheInv == CacheInit => CacheInv
  <1> SUFFICES ASSUME CacheInit PROVE CacheInv
    BY Zenon
  <1>. USE AllocatorAssumption, CacheAssumption DEF CacheInit
  <1>1. IInv
    BY InitIInv, Zenon
  <1>2. CacheTypeOK
    BY DEF CacheTypeOK, Holding, Entries, MAX_SILOS
  <1>3. LockInv /\ CacheSound
    BY Zenon DEF LockInv, Holding, CacheSound, NoNullSilo, SiloHoldsItsData
  <1>4. EntryInv
    BY Zenon DEF EntryInv, Phase, Init
  <1> QED
    BY <1>1, <1>2, <1>3, <1>4, Zenon DEF CacheInv

(* The index of a reader's loop (Probe, Look, Scan) stays in bounds.       *)
LEMMA NextEntry ==
    ASSUME CacheTypeOK, NEW t \in Reader
    PROVE  /\ i[t] > MAX_SILOS \/ i[t] \in Entries
           /\ i[t] \in Entries => i[t] + 1 \in 1 .. MAX_SILOS + 1 /\ ~ (i[t] > MAX_SILOS)
           /\ 1 \in 1 .. MAX_SILOS + 1 /\ 1 \in Entries
  BY AllocatorAssumption, CacheAssumption DEF CacheTypeOK, Entries, MAX_SILOS

(* A reader that moves on without a lock leaves every entry as it is; when *)
(* it goes to lock an entry it has seen a silo there.                      *)
LEMMA WalkCacheInv ==
    ASSUME CacheInv, NEW t \in Reader, pc[t] \notin Holding,
           pc'[t] \notin Holding, CacheTypeOK',
           \A u \in Reader \ {t} : /\ pc'[u] = pc[u] /\ req'[u] = req[u]
                                   /\ i'[u] = i[u] /\ best'[u] = best[u],
           UNCHANGED <<entryVars, memVars>>,
           pc'[t] = "look" => i'[t] \in Entries /\ silo[i'[t]] # None,
           pc'[t] # "idle" => req'[t] \in Request
    PROVE  CacheInv'
  <1>. USE CacheAssumption DEF CacheInv, entryVars, memVars, vars
  <1>1. IInv'
    BY DEF IInv, TypeOK, OneOwner, Beyond
  <1>2. \A e \in Entries : lock[e] # t
    BY DEF LockInv
  <1>3. \A e \in Entries : Phase(e)' = Phase(e)
    BY <1>2 DEF Phase, CacheTypeOK
  <1>4. LockInv'
    BY <1>2 DEF LockInv, CacheTypeOK
  <1>5. EntryInv'
    BY <1>3 DEF EntryInv
  <1>6. CacheSound'
    BY DEF CacheSound, NoNullSilo, SiloHoldsItsData
  <1> QED
    BY <1>1, <1>4, <1>5, <1>6, Zenon

LEMMA ReadCacheInv == ASSUME CacheInv, NEW t \in Reader, Read(t) PROVE CacheInv'
  <1>. USE CacheAssumption DEF Read, Goto
  <1>1. CacheTypeOK
    BY Zenon DEF CacheInv
  <1>2. CacheTypeOK'
    BY <1>1, AllocatorAssumption DEF CacheTypeOK, entryVars, memVars, MAX_SILOS
  <1>3. pc[t] \notin Holding /\ pc'[t] \notin Holding /\ pc'[t] # "look"
        /\ req'[t] \in Request
    BY <1>1, Zenon DEF CacheTypeOK, Holding
  <1> QED
    BY <1>1, <1>2, <1>3, WalkCacheInv, Zenon DEF CacheTypeOK

LEMMA ProbeCacheInv == ASSUME CacheInv, NEW t \in Reader, Probe(t) PROVE CacheInv'
  <1>. USE CacheAssumption DEF Probe, Goto
  <1>1. CacheTypeOK /\ req[t] \in Request
    BY Zenon DEF CacheInv, LockInv
  <1>2. CacheTypeOK'
    BY <1>1, NextEntry DEF CacheTypeOK, entryVars, memVars
  <1>3. /\ pc[t] \notin Holding /\ pc'[t] \notin Holding /\ req'[t] = req[t]
        /\ pc'[t] = "look" => i'[t] \in Entries /\ silo[i'[t]] # None
    BY <1>1, NextEntry DEF CacheTypeOK, Holding
  <1> QED
    BY <1>1, <1>2, <1>3, WalkCacheInv, Zenon DEF CacheTypeOK

LEMMA LookCacheInv == ASSUME CacheInv, NEW t \in Reader, Look(t) PROVE CacheInv'
  <1>. USE CacheAssumption DEF Look, Goto
  <1>1. CacheTypeOK /\ req[t] \in Request /\ i[t] \in Entries
    BY Zenon DEF CacheInv, LockInv
  <1>2. CacheTypeOK'
    BY <1>1, NextEntry DEF CacheTypeOK, entryVars, memVars
  <1>3. /\ pc[t] \notin Holding /\ pc'[t] \notin Holding /\ req'[t] = req[t]
        /\ pc'[t] # "look"
    BY <1>1, Zenon DEF CacheTypeOK, Holding
  <1> QED
    BY <1>1, <1>2, <1>3, WalkCacheInv DEF CacheTypeOK

(* find_best_silo takes an entry that was never used, or moves on.         *)
LEMMA ScanCacheInv == ASSUME CacheInv, NEW t \in Reader, Scan(t) PROVE CacheInv'
  <1>. USE CacheAssumption DEF Scan, Goto
  <1>0. CacheTypeOK /\ req[t] \in Request /\ pc[t] \notin Holding
    BY Zenon DEF CacheInv, LockInv, CacheTypeOK, Holding
  <1>1. CASE i[t] > MAX_SILOS \/ age[i[t]] # 0
    <2>1. CacheTypeOK'
      BY <1>0, <1>1, NextEntry DEF CacheTypeOK, entryVars, memVars
    <2>2. /\ pc'[t] \notin Holding /\ req'[t] = req[t] /\ pc'[t] # "look"
          /\ UNCHANGED entryVars
      BY <1>0, <1>1, Zenon DEF CacheTypeOK, Holding, entryVars
    <2> QED
      BY <1>0, <2>1, <2>2, WalkCacheInv DEF CacheTypeOK
  <1>2. CASE ~ (i[t] > MAX_SILOS) /\ age[i[t]] = 0
    <2>n. PICK n \in Entries : n = i[t]
      BY <1>0, <1>2, NextEntry, Zenon
    <2>0. /\ lock[n] = None /\ pc' = [pc EXCEPT ![t] = "new"]
          /\ lock' = [lock EXCEPT ![n] = t] /\ best' = [best EXCEPT ![t] = n]
          /\ UNCHANGED <<silo, age, memVars, cycles, req, i>>
      BY <1>2, <2>n, Zenon
    <2>. HIDE DEF Scan
    <2>1. CacheTypeOK'
      BY <1>0, <2>0, Zenon DEF CacheTypeOK, memVars, Holding
    <2>2. IInv'
      BY <2>0, Zenon DEF CacheInv, memVars, vars, IInv, TypeOK, OneOwner, Beyond
    <2>3. \A e \in Entries : lock[e] # t
      BY <1>0 DEF CacheInv, LockInv
    <2>4. LockInv'
      BY <1>0, <2>0, <2>3 DEF CacheInv, LockInv, CacheTypeOK, Holding
    <2>5. /\ Phase(n) = "free" /\ Phase(n)' = "new"
          /\ \A e \in Entries \ {n} : Phase(e)' = Phase(e)
      BY <1>0, <2>0, <2>3, Zenon DEF Phase, CacheTypeOK
    <2>6. silo[n] = None /\ age[n] = 0
      BY <1>2, <2>n, <2>5, Zenon DEF CacheInv, EntryInv
    <2>7. EntryInv'
      BY <2>0, <2>5, <2>6 DEF CacheInv, EntryInv, memVars, vars
    <2>8. CacheSound'
      BY <1>0, <2>0 DEF CacheInv, CacheSound, NoNullSilo, SiloHoldsItsData,
         CacheTypeOK, memVars, vars, LockInv
    <2> QED
      BY <2>1, <2>2, <2>4, <2>7, <2>8, Zenon DEF CacheInv
  <1> QED
    BY <1>1, <1>2, Zenon

(* What a reader does to the entry it has locked changes the phase of that *)
(* entry and of no other.                                                  *)
LEMMA PhaseOfOthers ==
    ASSUME CacheTypeOK, LockInv, NEW t \in Reader, NEW b \in Entries, b = best[t],
           \A u \in Reader \ {t} : pc'[u] = pc[u],
           \A e \in Entries \ {b} : lock'[e] = lock[e]
    PROVE  \A e \in Entries \ {b} : Phase(e)' = Phase(e)
  <1>1. \A e \in Entries \ {b} : lock[e] # t /\ lock[e] \in Reader \cup {None}
    BY CacheAssumption DEF LockInv, CacheTypeOK
  <1> QED
    BY <1>1, Zenon DEF Phase

(* The evicted entry is locked before its silo and chunk go.               *)
LEMMA EvictCacheInv == ASSUME CacheInv, NEW t \in Reader, Evict(t) PROVE CacheInv'
  <1>. USE CacheAssumption DEF CacheInv
  <1>b. PICK b \in Entries : b = best[t]
    BY Zenon DEF CacheTypeOK
  <1>0. /\ pc[t] = "evict" /\ lock[b] = None /\ req[t] \in Request
        /\ lock' = [lock EXCEPT ![b] = t] /\ DeleteSilo(b)
        /\ silo' = [silo EXCEPT ![b] = None] /\ age' = [age EXCEPT ![b] = 0]
        /\ pc' = [pc EXCEPT ![t] = "new"]
        /\ UNCHANGED <<content, cycles, req, i, best>>
    BY <1>b, Zenon DEF Evict, Goto, LockInv
  <1>1. CacheTypeOK'
    BY <1>0, Zenon DEF CacheTypeOK, Holding
  <1>2. /\ \A e \in Entries : lock[e] # t
        /\ Phase(b) = "free" /\ Phase(b)' = "new"
    BY <1>0 DEF LockInv, Holding, Phase, CacheTypeOK
  <1>3. \A e \in Entries \ {b} : Phase(e)' = Phase(e)
    BY <1>0, <1>b, PhaseOfOthers, Zenon DEF CacheTypeOK
  <1>4. /\ IInv' /\ has'[b] = 0 /\ at'[b] = 0
        /\ \A e \in Entries \ {b} : has'[e] = has[e] /\ at'[e] = at[e]
    <2>1. CASE silo[b] = None
      <3>1. UNCHANGED vars
        BY <1>0, <2>1, Zenon DEF DeleteSilo
      <3>2. IInv'
        BY <3>1, Zenon DEF vars, IInv, TypeOK, OneOwner, Beyond
      <3> QED
        BY <1>2, <2>1, <3>1, <3>2, Zenon DEF vars, EntryInv
    <2>2. CASE silo[b] # None
      <3>1. FreeChunk(b)
        BY <1>0, <2>2, Zenon DEF DeleteSilo
      <3>2. IInv'
        BY <3>1, FreeChunkIInv, Zenon
      <3>3. at[b] = 0
        BY <1>2, Zenon DEF EntryInv
      <3> QED
        BY <3>1, <3>2, <3>3 DEF FreeChunk, IInv, TypeOK
    <2> QED
      BY <2>1, <2>2, Zenon
  <1>5. LockInv'
    BY <1>0, <1>b, <1>2 DEF LockInv, CacheTypeOK, Holding
  <1>6. EntryInv'
    BY <1>0, <1>2, <1>3, <1>4 DEF EntryInv, CacheTypeOK
  <1>7. CacheSound'
    BY <1>0, <1>4 DEF CacheSound, NoNullSilo, SiloHoldsItsData, CacheTypeOK, LockInv
  <1> QED
    BY <1>1, <1>4, <1>5, <1>6, <1>7, Zenon

(* The facts a reader that holds its chosen entry starts from.             *)
LEMMA HeldEntry ==
    ASSUME CacheInv, NEW t \in Reader, pc[t] \in Holding
    PROVE  /\ best[t] \in Entries /\ lock[best[t]] = t
           /\ Phase(best[t]) = pc[t] /\ req[t] \in Request
  BY CacheAssumption DEF CacheInv, CacheTypeOK, LockInv, Phase, Holding

(* A step inside allocate_silo: only the reader's place and its entry's    *)
(* chunk change.                                                           *)
LEMMA AllocStepCacheInv ==
    ASSUME CacheInv, NEW t \in Reader, NEW b \in Entries, b = best[t],
           pc[t] \in {"new", "alloc"}, NEW q \in {"alloc", "load"},
           pc' = [pc EXCEPT ![t] = q], IInv',
           UNCHANGED <<entryVars, content, cycles, req, i, best>>,
           \A e \in Entries \ {b} : has'[e] = has[e] /\ at'[e] = at[e],
           at'[b] # 0 <=> q = "alloc", has'[b] # 0 <=> q = "load"
    PROVE  CacheInv'
  <1>. USE CacheAssumption DEF CacheInv, entryVars
  <1>0. /\ lock[b] = t /\ Phase(b) = pc[t] /\ req[t] \in Request
        /\ silo[b] = None
    BY HeldEntry, Zenon DEF Holding, EntryInv
  <1>1. CacheTypeOK'
    BY Zenon DEF CacheTypeOK, Holding
  <1>2. Phase(b)' = q
    BY <1>0 DEF Phase, CacheTypeOK
  <1>3. \A e \in Entries \ {b} : Phase(e)' = Phase(e)
    BY PhaseOfOthers DEF CacheTypeOK
  <1>4. LockInv'
    BY <1>0 DEF LockInv, CacheTypeOK, Holding
  <1>5. EntryInv'
    BY <1>0, <1>2, <1>3 DEF EntryInv
  <1>6. CacheSound'
    BY <1>0 DEF CacheSound, NoNullSilo, SiloHoldsItsData, CacheTypeOK
  <1> QED
    BY <1>1, <1>4, <1>5, <1>6, Zenon

LEMMA NewSiloCacheInv == ASSUME CacheInv, NEW t \in Reader, NewSilo(t) PROVE CacheInv'
  <1>b. PICK b \in Entries : b = best[t]
    BY Zenon DEF CacheInv, CacheTypeOK
  <1>1. CallAlloc(b) /\ pc' = [pc EXCEPT ![t] = "alloc"]
        /\ UNCHANGED <<entryVars, content, cycles, req, i, best>> /\ pc[t] = "new"
    BY <1>b, Zenon DEF NewSilo, Goto
  <1>2. IInv'
    BY <1>1, CacheAssumption, CallAllocIInv, Zenon DEF CacheInv
  <1>3. /\ at'[b] # 0 /\ has'[b] = 0
        /\ \A e \in Entries \ {b} : has'[e] = has[e] /\ at'[e] = at[e]
    BY <1>1, CacheAssumption DEF CallAlloc, CacheInv, IInv, TypeOK
  <1> QED
    BY <1>b, <1>1, <1>2, <1>3, AllocStepCacheInv, Zenon

LEMMA AllocChunkCacheInv ==
    ASSUME CacheInv, NEW t \in Reader, AllocChunk(t) PROVE CacheInv'
  <1>. USE CacheAssumption
  <1>b. PICK b \in Entries : b = best[t]
    BY Zenon DEF CacheInv, CacheTypeOK
  <1>0. /\ UNCHANGED <<entryVars, content, cycles, req, i, best>> /\ pc[t] = "alloc"
        /\ pc \in [Reader -> {"idle", "probe", "look", "scan", "evict"} \cup Holding]
        /\ has[b] = 0 /\ at[b] # 0
    BY <1>b, HeldEntry, Zenon DEF AllocChunk, CacheInv, CacheTypeOK, EntryInv, Holding
  <1>1. CASE Pass(b) /\ UNCHANGED pc
    <2>1. IInv'
      BY <1>1, PassIInv, Zenon DEF CacheInv
    <2>2. pc' = [pc EXCEPT ![t] = "alloc"]
      BY <1>0, <1>1, Zenon
    <2>3. /\ at'[b] # 0 /\ has'[b] = 0
          /\ \A e \in Entries \ {b} : has'[e] = has[e] /\ at'[e] = at[e]
      BY <1>0, <1>1, AllocatorAssumption DEF Pass, CacheInv, IInv, TypeOK, Chunks
    <2> QED
      BY <1>b, <1>0, <2>1, <2>2, <2>3, AllocStepCacheInv, Zenon
  <1>2. CASE TakeChunk(b) /\ pc' = [pc EXCEPT ![t] = "load"]
    <2>1. IInv'
      BY <1>2, TakeChunkIInv, Zenon DEF CacheInv
    <2>2. /\ at'[b] = 0 /\ has'[b] # 0
          /\ \A e \in Entries \ {b} : has'[e] = has[e] /\ at'[e] = at[e]
      BY <1>0, <1>2, AllocatorAssumption DEF TakeChunk, CacheInv, IInv, TypeOK, Chunks
    <2> QED
      BY <1>b, <1>0, <1>2, <2>1, <2>2, AllocStepCacheInv, Zenon
  <1> QED
    BY <1>b, <1>1, <1>2, Zenon DEF AllocChunk, Goto

(* The new silo is read into a chunk no other entry has.                   *)
LEMMA LoadCacheInv == ASSUME CacheInv, NEW t \in Reader, Load(t) PROVE CacheInv'
  <1>. USE CacheAssumption DEF CacheInv
  <1>b. PICK b \in Entries : b = best[t]
    BY Zenon DEF CacheTypeOK
  <1>s. PICK s \in Offsets : s = Start(req[t])
    BY HeldEntry, Zenon DEF Load, Holding, Offsets
  <1>0. /\ pc[t] = "load" /\ lock[b] = t /\ Phase(b) = "load" /\ req[t] \in Request
        /\ content' = [content EXCEPT ![has[b]] = s]
        /\ silo' = [silo EXCEPT ![b] = s] /\ s # None
        /\ pc' = [pc EXCEPT ![t] = "read"]
        /\ UNCHANGED <<age, lock, vars, cycles, req, i, best>>
    BY <1>b, <1>s, HeldEntry, Zenon DEF Load, Goto, Holding, Offsets
  <1>1. has[b] # 0 /\ has[b] \in Chunks /\ silo[b] = None
    BY <1>0, AllocatorAssumption DEF EntryInv, IInv, TypeOK, Chunks
  <1>2. CacheTypeOK'
    BY <1>0, <1>1, Zenon DEF CacheTypeOK, Holding
  <1>3. IInv'
    BY <1>0, Zenon DEF vars, IInv, TypeOK, OneOwner, Beyond
  <1>4. Phase(b)' = "read" /\ \A e \in Entries \ {b} : Phase(e)' = Phase(e)
    <2>1. Phase(b)' = "read"
      BY <1>0, Zenon DEF Phase, CacheTypeOK
    <2> QED
      BY <1>0, <1>b, <2>1, PhaseOfOthers, Zenon DEF CacheTypeOK
  <1>5. LockInv'
    BY <1>0, <1>b DEF LockInv, CacheTypeOK, Holding
  <1>6. EntryInv'
    BY <1>0, <1>1, <1>4 DEF EntryInv, CacheTypeOK, vars
  <1>7. SiloHoldsItsData'
    <2> SUFFICES ASSUME NEW e \in Entries, silo'[e] # None
                 PROVE  content'[has[e]] = silo'[e]
      BY <1>0, Zenon DEF SiloHoldsItsData, vars
    <2>1. CASE e = b
      BY <1>0, <1>1, <2>1 DEF CacheTypeOK
    <2>2. CASE e # b
      <3>1. silo'[e] = silo[e] /\ content[has[e]] = silo[e]
        BY <1>0, <2>2 DEF CacheTypeOK, CacheSound, SiloHoldsItsData
      <3>2. has[e] # has[b]
        BY <1>1, <2>2 DEF IInv, OneOwner
      <3>3. has[e] \in Chunks
        BY <3>1, AllocatorAssumption DEF EntryInv, IInv, TypeOK, Chunks
      <3> QED
        BY <1>0, <3>1, <3>2, <3>3 DEF CacheTypeOK
    <2> QED
      BY <2>1, <2>2, Zenon
  <1>8. NoNullSilo'
    BY <1>0 DEF CacheSound, NoNullSilo, CacheTypeOK, LockInv
  <1> QED
    BY <1>2, <1>3, <1>5, <1>6, <1>7, <1>8 DEF CacheSound

(* The entry is unlocked with a silo and an age.                           *)
LEMMA ReadNewCacheInv == ASSUME CacheInv, NEW t \in Reader, ReadNew(t) PROVE CacheInv'
  <1>. USE CacheAssumption DEF CacheInv
  <1>b. PICK b \in Entries : b = best[t]
    BY Zenon DEF CacheTypeOK
  <1>0. /\ pc[t] = "read" /\ lock[b] = t /\ Phase(b) = "read"
        /\ age' = [age EXCEPT ![b] = cycles] /\ cycles' = cycles + 1
        /\ lock' = [lock EXCEPT ![b] = None] /\ pc' = [pc EXCEPT ![t] = "idle"]
        /\ UNCHANGED <<silo, memVars, req, i, best>>
    BY <1>b, HeldEntry, Zenon DEF ReadNew, Goto, Holding
  <1>1. silo[b] # None
    BY <1>0, Zenon DEF EntryInv
  <1>2. CacheTypeOK'
    BY <1>0 DEF CacheTypeOK, memVars
  <1>3. IInv'
    BY <1>0, Zenon DEF memVars, vars, IInv, TypeOK, OneOwner, Beyond
  <1>4. Phase(b)' = "free" /\ \A e \in Entries \ {b} : Phase(e)' = Phase(e)
    <2>1. Phase(b)' = "free"
      BY <1>0, Zenon DEF Phase, CacheTypeOK
    <2> QED
      BY <1>0, <1>b, <2>1, PhaseOfOthers, Zenon DEF CacheTypeOK
  <1>5. LockInv'
    BY <1>0, <1>b DEF LockInv, CacheTypeOK, Holding
  <1>6. EntryInv'
    BY <1>0, <1>1, <1>4, Zenon DEF EntryInv, CacheTypeOK, memVars, vars
  <1>7. CacheSound'
    BY <1>0, <1>1 DEF CacheSound, NoNullSilo, SiloHoldsItsData, CacheTypeOK, LockInv,
                      memVars, vars
  <1> QED
    BY <1>2, <1>3, <1>5, <1>6, <1>7, Zenon

-----------------------------------------------------------------------------
(* Whatever readers of Block_cache replace entries at the same time, each  *)
(* entry's age, lock, silo and chunk agree.                                *)
THEOREM CacheInvariance == CacheSpec => []CacheInv
  <1>1. CacheInv /\ [CacheNext]_cacheVars => CacheInv'
    <2> SUFFICES ASSUME CacheInv, [CacheNext]_cacheVars PROVE CacheInv'
      BY Zenon
    <2>1. ASSUME NEW t \in Reader, Read(t) \/ Step(t) PROVE CacheInv'
      BY <2>1, ReadCacheInv, ProbeCacheInv, LookCacheInv, ScanCacheInv, EvictCacheInv,
         NewSiloCacheInv, AllocChunkCacheInv, LoadCacheInv, ReadNewCacheInv, Zenon
         DEF Step
    <2>2. CASE UNCHANGED cacheVars
      <3>. USE DEF cacheVars, entryVars, memVars, vars
      <3>1. IInv'
        BY <2>2, Zenon DEF CacheInv, IInv, TypeOK, OneOwner, Beyond
      <3>2. CacheTypeOK' /\ LockInv'
        BY <2>2, Zenon DEF CacheInv, CacheTypeOK, LockInv
      <3>3. CacheSound'
        BY <2>2, Zenon DEF CacheInv, CacheSound, NoNullSilo, SiloHoldsItsData
      <3>4. \A e : Phase(e)' = Phase(e)
        BY <2>2, Zenon DEF Phase
      <3>5. EntryInv'
        BY <2>2, <3>4, Zenon DEF CacheInv, EntryInv
      <3> QED
        BY <3>1, <3>2, <3>3, <3>5, Zenon DEF CacheInv
    <2> QED
      BY <2>1, <2>2, Zenon DEF CacheNext
  <1> QED
    BY InitCacheInv, <1>1, PTL DEF CacheSpec

(* A reader finds a silo where it saw one before it took the lock, and the *)
(* silo's blocks in its memory, however evictions and loads interleave.    *)
THEOREM CacheReadsTrue == CacheSpec => []CacheSound
  <1>1. CacheInv => CacheSound
    BY Zenon DEF CacheInv
  <1> QED
    BY <1>1, CacheInvariance, PTL

(* Evictions and loads of any number of readers never make the allocator   *)
(* panic: a chunk is freed before its entry asks for the next.             *)
THEOREM CacheNeverPanics == CacheSpec => []NoPanic
  <1>1. CacheInv => NoPanic
    BY NobodyBeyond, Zenon DEF CacheInv
  <1> QED
    BY <1>1, CacheInvariance, PTL
=============================================================================
