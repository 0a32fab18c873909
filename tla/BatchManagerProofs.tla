------------------------- MODULE BatchManagerProofs -------------------------
(***************************************************************************)
(* Proofs about BatchManager for any ring size, id range and batch length. *)
(***************************************************************************)
EXTENDS BatchManager, FiniteSetTheorems, TLAPS

-----------------------------------------------------------------------------
(* Live slots are slots other than the one push fills next, and their age  *)
(* is less than the ring size (scan of _update_single_iteration).          *)
LEMMA LiveAge ==
    ASSUME head \in Slots, tail \in Slots, NEW i \in LiveSlots
    PROVE  i \in Slots /\ i # tail /\ Age(i) \in 1 .. RingSize - 1
  BY ConstantsAssumption DEF Slots, LiveSlots, Age

(* The 16-bit arithmetic of alloc_cmdid, next_cmdid() and                  *)
(* next_cmdid(length): id 0 is skipped, and the end id is below the start  *)
(* id exactly when the range would wrap.                                   *)
LEMMA IdArith ==
    ASSUME cmdid_counter \in CmdIds, NEW length \in 1 .. MaxBatch
    PROVE  /\ alloc_cmdid \in 1 .. MaxCmdId
           /\ alloc_cmdid = IF cmdid_counter = MaxCmdId THEN 1
                                                       ELSE cmdid_counter + 1
           /\ next_cmdid_at(length) \in 1 .. MaxCmdId
           /\ cmdid_counter = MaxCmdId => next_cmdid_at(length) = length
           /\ cmdid_counter + length <= MaxCmdId
                 => next_cmdid_at(length) = cmdid_counter + length
           /\ cmdid_counter # MaxCmdId /\ cmdid_counter + length > MaxCmdId
                 => next_cmdid_at(length) < alloc_cmdid
  BY ConstantsAssumption DEF CmdIds, alloc_cmdid, next_cmdid_at, uint16

LEMMA AllocId ==
    ASSUME cmdid_counter \in CmdIds
    PROVE  /\ alloc_cmdid \in 1 .. MaxCmdId
           /\ alloc_cmdid = IF cmdid_counter = MaxCmdId THEN 1
                                                       ELSE cmdid_counter + 1
  BY ConstantsAssumption DEF CmdIds, alloc_cmdid, uint16

(* The ring is empty exactly when head meets tail, and then holds no       *)
(* record; otherwise the batch pushed last is the last in scan order.      *)
LEMMA NewestSlot ==
    ASSUME head \in Slots, tail \in Slots
    PROVE  /\ LastSlot \in Slots
           /\ wasEmpty <=> LiveSlots = {}
           /\ ~wasEmpty => LastSlot \in LiveSlots
           /\ \A i \in LiveSlots : i # LastSlot => ScanPos(i) < ScanPos(LastSlot)
  <1>. USE ConstantsAssumption DEF Slots
  <1>1. LastSlot \in Slots
    BY DEF LastSlot
  <1>2. wasEmpty <=> LiveSlots = {}
    BY DEF wasEmpty, LiveSlots
  <1>3. ~wasEmpty => LastSlot \in LiveSlots
    BY DEF wasEmpty, LiveSlots, LastSlot
  <1>4. \A i \in LiveSlots : i # LastSlot => ScanPos(i) < ScanPos(LastSlot)
    BY DEF LiveSlots, LastSlot, ScanPos
  <1> QED
    BY <1>1, <1>2, <1>3, <1>4, Zenon

(* A push into a ring with room adds one live slot, the youngest, and      *)
(* every other live slot grows older by one.                               *)
LEMMA PushLive ==
    ASSUME head \in Slots, tail \in Slots, increment(tail) # head,
           tail' = increment(tail), head' = head,
           NEW t \in Slots, t = tail
    PROVE  /\ LiveSlots' = LiveSlots \cup {t}
           /\ t \notin LiveSlots
           /\ LastSlot' = t /\ ~wasEmpty'
           /\ Age(t)' = 1
           /\ ScanPos(tail)' = ScanPos(tail) + 1
           /\ \A i \in LiveSlots : /\ Age(i)' = Age(i) + 1
                                   /\ Age(i) + 1 \in 2 .. RingSize - 1
                                   /\ ScanPos(i) < ScanPos(t)
  <1>. USE ConstantsAssumption DEF Slots, increment
  <1>1. LiveSlots' = LiveSlots \cup {t} /\ t \notin LiveSlots
    BY DEF LiveSlots
  <1>2. LastSlot' = t /\ ~wasEmpty'
    BY DEF LastSlot, wasEmpty
  <1>3. Age(t)' = 1
    BY DEF Age
  <1>4. \A i \in LiveSlots : Age(i)' = Age(i) + 1 /\ Age(i) + 1 \in 2 .. RingSize - 1
    BY DEF LiveSlots, Age
  <1>5. ScanPos(tail)' = ScanPos(tail) + 1
    BY DEF ScanPos
  <1>6. \A i \in LiveSlots : ScanPos(i) < ScanPos(t)
    BY DEF LiveSlots, ScanPos
  <1> QED
    BY <1>1, <1>2, <1>3, <1>4, <1>5, <1>6, Zenon

(* A pop takes the head record out of the live ones and leaves the others  *)
(* where they are.                                                         *)
LEMMA PopLive ==
    ASSUME head \in Slots, tail \in Slots, cqtail \in Slots, head # cqtail,
           ScanPos(cqtail) <= ScanPos(tail),
           head' = increment(head), tail' = tail, cqtail' = cqtail,
           NEW h \in Slots, h = head
    PROVE  /\ h \in LiveSlots
           /\ LiveSlots' = LiveSlots \ {h}
           /\ (ScanPos(cqtail) <= ScanPos(tail))'
           /\ head' \in Slots
           /\ ~wasEmpty /\ (wasEmpty' => h = LastSlot)
           /\ \A i \in LiveSlots : i # h => /\ ScanPos(h) < ScanPos(i)
                                            /\ ScanPos(i)' = ScanPos(i) - 1
  <1>. USE ConstantsAssumption DEF Slots, increment
  <1>1. head # tail
    BY DEF ScanPos
  <1>2. h \in LiveSlots /\ head' \in Slots
    BY <1>1 DEF LiveSlots
  <1>3. LiveSlots' = LiveSlots \ {h}
    BY <1>1 DEF LiveSlots
  <1>4. (ScanPos(cqtail) <= ScanPos(tail))'
    BY <1>1 DEF ScanPos
  <1>5. ~wasEmpty /\ (wasEmpty' => h = LastSlot)
    BY <1>1 DEF wasEmpty, LastSlot
  <1>6. \A i \in LiveSlots : i # h => /\ ScanPos(h) < ScanPos(i)
                                      /\ ScanPos(i)' = ScanPos(i) - 1
    BY <1>1 DEF LiveSlots, ScanPos
  <1> QED
    BY <1>2, <1>3, <1>4, <1>5, <1>6, Zenon

-----------------------------------------------------------------------------
(* What update does to the records: one counter goes up by one, 16 bits    *)
(* wide, and the ids of every record stay (_process_update_batch_info).    *)
LEMMA Counted ==
    ASSUME array \in [Slots -> BatchInfo], NEW k \in Slots, CountCompletion(k)
    PROVE  /\ array' \in [Slots -> BatchInfo]
           /\ array'[k].counter = uint16(array[k].counter + 1)
           /\ \A i \in Slots : /\ array'[i].start_cmdid = array[i].start_cmdid
                               /\ array'[i].end_cmdid = array[i].end_cmdid
                               /\ array'[i].total = array[i].total
                               /\ i # k => array'[i] = array[i]
           /\ cqpc' \in {"pop", "idle"}
           /\ cqpc' = "pop" => k = head /\ is_complete(array'[k])
  <1>. DEFINE counted == [array[k] EXCEPT !.counter = uint16(@ + 1)]
              done == is_complete(counted)
  <1>1. array[k] \in BatchInfo
    BY Zenon
  <1>2. PICK n \in CmdIds : n = uint16(array[k].counter + 1)
    BY <1>1, ConstantsAssumption DEF BatchInfo, CmdIds, uint16
  <1>3. PICK s \in BatchInfo :
           /\ s = counted
           /\ s.start_cmdid = array[k].start_cmdid
           /\ s.end_cmdid = array[k].end_cmdid
           /\ s.total = array[k].total /\ s.counter = n
    <2>1. counted = [array[k] EXCEPT !.counter = n]
      BY <1>2, Zenon
    <2>2. ASSUME NEW b \in BatchInfo, NEW m \in CmdIds
          PROVE  LET r == [b EXCEPT !.counter = m]
                 IN  /\ r \in BatchInfo
                     /\ r.start_cmdid = b.start_cmdid
                     /\ r.end_cmdid = b.end_cmdid
                     /\ r.total = b.total /\ r.counter = m
      BY Zenon DEF BatchInfo
    <2> QED
      BY <1>1, <2>1, <2>2, Zenon
  <1>4. PICK d \in BOOLEAN : d = done
    BY Zenon DEF is_complete
  <1>5. PICK e \in BOOLEAN : e = (s.complete \/ d)
    BY Zenon
  <1>6. PICK r \in BatchInfo :
           /\ r = [s EXCEPT !.complete = e]
           /\ r.start_cmdid = s.start_cmdid /\ r.end_cmdid = s.end_cmdid
           /\ r.total = s.total /\ r.counter = s.counter
    <2>1. ASSUME NEW b \in BatchInfo, NEW f \in BOOLEAN
          PROVE  LET q == [b EXCEPT !.complete = f]
                 IN  /\ q \in BatchInfo
                     /\ q.start_cmdid = b.start_cmdid
                     /\ q.end_cmdid = b.end_cmdid
                     /\ q.total = b.total /\ q.counter = b.counter
      BY Zenon DEF BatchInfo
    <2> QED
      BY <2>1, Zenon
  <1>7. /\ array' = [array EXCEPT ![k] = r]
        /\ cqpc' = IF d /\ k = head THEN "pop" ELSE "idle"
    <2>1. /\ array' = [array EXCEPT ![k] = [counted EXCEPT !.complete = @ \/ done]]
          /\ cqpc' = IF done /\ k = head THEN "pop" ELSE "idle"
      BY Zenon DEF CountCompletion
    <2>2. r = [counted EXCEPT !.complete = @ \/ done]
      BY <1>3, <1>4, <1>5, <1>6, Zenon
    <2> QED
      BY <1>4, <2>1, <2>2, Zenon
  <1>8. d => is_complete(r)
    BY <1>3, <1>4, <1>6, Zenon DEF is_complete
  <1>. HIDE DEF counted, done
  <1> QED
    BY <1>2, <1>3, <1>6, <1>7, <1>8

LEMMA Updated ==
    ASSUME TypeOK, NEW c, Update(c)
    PROVE  /\ array' \in [Slots -> BatchInfo]
           /\ \A i \in Slots : /\ array'[i].start_cmdid = array[i].start_cmdid
                               /\ array'[i].end_cmdid = array[i].end_cmdid
                               /\ array'[i].total = array[i].total
           /\ cqpc = "idle" /\ cqpc' \in {"pop", "idle"}
           /\ UNCHANGED <<last_available_cmdid, head, popped>>
           /\ UNCHANGED <<cmdid_counter, tail, pc, bi, lapped>>
           /\ cqtail' = tail /\ inflight' = inflight \ {c}
  <1>1. /\ cqpc = "idle" /\ cqtail' = tail /\ inflight' = inflight \ {c}
        /\ UNCHANGED <<last_available_cmdid, head, popped>>
        /\ UNCHANGED <<cmdid_counter, tail, pc, bi, lapped>>
        /\ \/ UNCHANGED <<array, cqpc>>
           \/ \E idx \in Slots : CountCompletion(idx)
    BY Zenon DEF Update, producer
  <1>2. array \in [Slots -> BatchInfo]
    BY Zenon DEF TypeOK
  <1>3. CASE UNCHANGED <<array, cqpc>>
    BY <1>1, <1>2, <1>3, Zenon
  <1>4. ASSUME NEW idx \in Slots, CountCompletion(idx)
        PROVE  /\ array' \in [Slots -> BatchInfo]
               /\ \A i \in Slots : /\ array'[i].start_cmdid = array[i].start_cmdid
                                   /\ array'[i].end_cmdid = array[i].end_cmdid
                                   /\ array'[i].total = array[i].total
               /\ cqpc' \in {"pop", "idle"}
    BY <1>2, <1>4, Counted, Zenon
  <1> QED
    BY <1>1, <1>3, <1>4, Zenon

(* Types are kept whatever the lengths: no index leaves the ring and no id *)
(* its 16 bits.                                                            *)
LEMMA NextTypeOK ==
    ASSUME TypeOK, IsFiniteSet(inflight), [Next]_vars
    PROVE  TypeOK' /\ IsFiniteSet(inflight')
  <1>. USE ConstantsAssumption
  <1>0. /\ cmdid_counter \in CmdIds /\ bi \in BatchInfo
        /\ head \in Slots /\ tail \in Slots /\ array \in [Slots -> BatchInfo]
    BY Zenon DEF TypeOK
  <1>1. ASSUME NEW length \in 1 .. MaxBatch, BeginBatch(length)
        PROVE  TypeOK' /\ IsFiniteSet(inflight')
    <2>1. bi' \in BatchInfo
      BY <1>0, <1>1, IdArith DEF BeginBatch, NewBatch, BatchInfo, CmdIds, next_cmdid
    <2> QED
      BY <1>1, <2>1, Zenon DEF BeginBatch, TypeOK, consumer
  <1>2. CASE ResetCmdid
    <2>1. bi' \in BatchInfo /\ cmdid_counter' \in CmdIds
      BY <1>0, <1>2 DEF ResetCmdid, NewBatch, BatchInfo, CmdIds
    <2> QED
      BY <1>2, <2>1, Zenon DEF ResetCmdid, TypeOK, consumer
  <1>3. CASE CheckAvailable \/ BeginWait \/ EndWait
    BY <1>3, Zenon DEF CheckAvailable, BeginWait, EndWait, TypeOK, consumer
  <1>4. CASE PushBatch
    <2>1. tail' \in Slots
      BY <1>0, <1>4 DEF PushBatch, increment, Slots
    <2> QED
      BY <1>0, <1>4, <2>1, Zenon DEF PushBatch, TypeOK, consumer
  <1>5. CASE IssueCommand
    <2>1. alloc_cmdid \in CmdIds /\ LastSlot \in Slots
      BY <1>0, AllocId, NewestSlot DEF CmdIds
    <2>2. IsFiniteSet(inflight')
      BY <1>5, FS_AddElement, Zenon DEF IssueCommand
    <2>3. inflight' \in SUBSET ((Slots \cup {NoOwner}) \X CmdIds)
      BY <1>5, <2>1 DEF IssueCommand, TypeOK
    <2> QED
      BY <1>5, <2>1, <2>2, <2>3, Zenon DEF IssueCommand, TypeOK, consumer
  <1>6. CASE Spin \/ UNCHANGED vars
    BY <1>6, Zenon DEF Spin, vars, TypeOK
  <1>7. ASSUME NEW c \in inflight, Update(c)
        PROVE  TypeOK' /\ IsFiniteSet(inflight')
    <2>1. /\ array' \in [Slots -> BatchInfo] /\ cqpc' \in {"pop", "idle"}
          /\ UNCHANGED <<last_available_cmdid, head, popped>>
          /\ UNCHANGED <<cmdid_counter, tail, pc, bi, lapped>>
          /\ cqtail' = tail /\ inflight' = inflight \ {c}
      BY <1>7, Updated, Zenon
    <2>2. IsFiniteSet(inflight')
      BY <2>1, FS_RemoveElement, Zenon
    <2> QED
      BY <2>1, <2>2, Zenon DEF TypeOK
  <1>8. CASE PopBatch
    <2>1. head' \in Slots /\ popped' \in CmdIds
      BY <1>0, <1>8 DEF PopBatch, increment, Slots, BatchInfo
    <2> QED
      BY <1>8, <2>1, Zenon DEF PopBatch, TypeOK, producer
  <1>9. CASE StoreAvailable
    BY <1>9, Zenon DEF StoreAvailable, TypeOK, producer
  <1> QED
    BY <1>1, <1>2, <1>3, <1>4, <1>5, <1>6, <1>7, <1>8, <1>9 DEF Next, Produce, Consume

-----------------------------------------------------------------------------
(* The last id of the newest batch changes only when a batch is pushed:    *)
(* pop and store hand it on to last_available_cmdid.                       *)
LEMMA SameEnd ==
    ASSUME UNCHANGED <<array, tail, consumer>>
    PROVE  LastEnd' = LastEnd
  BY Zenon DEF consumer, LastEnd, wasEmpty, LastSlot

LEMMA UpdateEnd ==
    ASSUME TypeOK, NEW c, Update(c)
    PROVE  LastEnd' = LastEnd
  <1>1. LastSlot \in Slots
    BY NewestSlot, Zenon DEF TypeOK
  <1>2. /\ array'[LastSlot].end_cmdid = array[LastSlot].end_cmdid
        /\ cqpc # "store" /\ cqpc' # "store"
        /\ UNCHANGED <<last_available_cmdid, head, tail>>
    BY <1>1, Updated, Zenon
  <1>3. wasEmpty' = wasEmpty /\ LastSlot' = LastSlot
    BY <1>2, Zenon DEF wasEmpty, LastSlot
  <1> QED
    BY <1>2, <1>3, Zenon DEF LastEnd

LEMMA PopEnd ==
    ASSUME TypeOK, ConsumerInv, PopBatch
    PROVE  LastEnd' = LastEnd
  <1>1. /\ UNCHANGED <<array, tail, cqtail>> /\ head' = increment(head)
        /\ cqpc' = "store" /\ popped' = array[head].end_cmdid
        /\ head # cqtail /\ ScanPos(cqtail) <= ScanPos(tail)
    BY Zenon DEF PopBatch, producer, ConsumerInv
  <1>2. ~wasEmpty /\ (wasEmpty' => head = LastSlot)
    BY <1>1, PopLive, Zenon DEF TypeOK
  <1>3. LastSlot' = LastSlot
    BY <1>1, Zenon DEF LastSlot
  <1> QED
    BY <1>1, <1>2, <1>3, Zenon DEF LastEnd

LEMMA StoreEnd == ASSUME StoreAvailable PROVE LastEnd' = LastEnd
  BY DEF StoreAvailable, producer, LastEnd, wasEmpty, LastSlot

-----------------------------------------------------------------------------
(* BeginBatch only fills in the producer's private record. *)
LEMMA BeginBatchInv ==
    ASSUME TypeOK, BatchInv, NEW length \in 1 .. MaxBatch, BeginBatch(length)
    PROVE  BatchInv'
  <1>. USE ConstantsAssumption DEF BatchInv, BeginBatch, consumer
  <1>0. cmdid_counter \in CmdIds
    BY Zenon DEF TypeOK
  <1>1. LastEnd' = LastEnd /\ LastEnd = cmdid_counter
    BY SameEnd, Zenon DEF ProducerInv
  <1>2. RecordsInv'
    BY Zenon DEF RecordsInv, LiveSlots, RangeOK, Apart
  <1>3. ProducerInv'
    BY <1>0, <1>1, IdArith DEF ProducerInv, NewBatch, RangeOK, next_cmdid, CmdIds,
                         alloc_cmdid
  <1>4. FlightInv'
    BY Zenon DEF FlightInv, LiveSlots
  <1>5. ConsumerInv'
    BY Zenon DEF ConsumerInv, ScanPos, is_complete
  <1>6. AllCounted'
    BY Zenon DEF AllCounted, LiveSlots, Own, Unissued
  <1> QED
    BY <1>2, <1>3, <1>4, <1>5, <1>6, Zenon

(* Restarting the ids changes the private record and the counter. *)
LEMMA ResetCmdidInv ==
    ASSUME TypeOK, BatchInv, ResetCmdid
    PROVE  BatchInv'
  <1>. USE ConstantsAssumption DEF BatchInv, ResetCmdid, consumer
  <1>0. /\ cmdid_counter \in CmdIds /\ bi.total \in 1 .. MaxBatch
        /\ cmdid_counter + bi.total > MaxCmdId /\ LastEnd = cmdid_counter
    BY DEF TypeOK, ProducerInv, BatchInfo
  <1>1. LastEnd' = LastEnd
    BY SameEnd, Zenon
  <1>2. RecordsInv'
    BY Zenon DEF RecordsInv, LiveSlots, RangeOK, Apart
  <1>3. ProducerInv'
    BY <1>0, <1>1 DEF ProducerInv, NewBatch, RangeOK, alloc_cmdid, uint16
  <1>4. FlightInv'
    BY Zenon DEF FlightInv, LiveSlots
  <1>5. ConsumerInv'
    BY Zenon DEF ConsumerInv, ScanPos, is_complete
  <1>6. AllCounted'
    BY Zenon DEF AllCounted, LiveSlots, Own, Unissued
  <1> QED
    BY <1>2, <1>3, <1>4, <1>5, <1>6, Zenon

(* Steps that move the producer on and change nothing else. *)
LEMMA ProducerMoveInv ==
    ASSUME TypeOK, BatchInv, CheckAvailable \/ BeginWait \/ EndWait
    PROVE  BatchInv'
  <1>. USE DEF BatchInv
  <1>0. /\ UNCHANGED <<cmdid_counter, array, tail, bi, inflight>>
        /\ UNCHANGED <<last_available_cmdid, head, cqpc, cqtail, popped>>
        /\ \/ pc = "avail" /\ pc' = "push"
           \/ pc = "idle" /\ pc' = "wait"
           \/ pc = "wait" /\ pc' = "idle"
    BY Zenon DEF CheckAvailable, BeginWait, EndWait, consumer
  <1>1. LastEnd' = LastEnd /\ LiveSlots' = LiveSlots
    BY <1>0, SameEnd, Zenon DEF consumer, LiveSlots
  <1>2. RecordsInv'
    BY <1>0, <1>1, Zenon DEF RecordsInv, RangeOK, Apart
  <1>3. ProducerInv'
    BY <1>0, <1>1, Zenon DEF ProducerInv, RangeOK, alloc_cmdid
  <1>4. FlightInv'
    BY <1>0, <1>1, Zenon DEF FlightInv
  <1>5. ConsumerInv'
    BY <1>0, Zenon DEF ConsumerInv, ScanPos, is_complete
  <1>6. AllCounted'
    <2>1. \A i : Own(i)' = Own(i) /\ Unissued(i)' = Unissued(i)
      BY <1>0, Zenon DEF Own, Unissued
    <2> QED
      BY <1>0, <1>1, <2>1, Zenon DEF AllCounted
  <1> QED
    BY <1>2, <1>3, <1>4, <1>5, <1>6, Zenon

(* A push, once the new range is known to be apart from every live one.    *)
LEMMA PushBatchInv ==
    ASSUME TypeOK, BatchInv, PushBatch,
           \A i \in LiveSlots : Apart(array[i], bi)
    PROVE  BatchInv'
  <1>. USE ConstantsAssumption DEF BatchInv, PushBatch, consumer
  <1>0. /\ cmdid_counter \in CmdIds /\ bi \in BatchInfo
        /\ head \in Slots /\ tail \in Slots
        /\ RangeOK(bi) /\ bi.counter = 0 /\ bi.start_cmdid = alloc_cmdid
    BY Zenon DEF TypeOK, ProducerInv
  <1>t. PICK t \in Slots : t = tail
    BY <1>0, Zenon
  <1>1. /\ LiveSlots' = LiveSlots \cup {t} /\ t \notin LiveSlots
        /\ LastSlot' = t /\ ScanPos(tail)' = ScanPos(tail) + 1
    BY <1>0, <1>t, PushLive, Zenon
  <1>2. /\ array'[t] = bi
        /\ \A i \in LiveSlots : i \in Slots /\ array'[i] = array[i]
    BY <1>0, <1>t, <1>1, LiveAge, Zenon DEF TypeOK
  <1>3. RecordsInv'
    <2>1. ASSUME NEW i \in LiveSlots' PROVE RangeOK(array[i])'
      BY <1>0, <1>1, <1>2 DEF RecordsInv, RangeOK
    <2>2. ASSUME NEW i \in LiveSlots', NEW j \in LiveSlots', i # j
          PROVE  Apart(array[i], array[j])'
      BY <1>1, <1>2, <2>2, Zenon DEF RecordsInv, Apart
    <2> QED
      BY <2>1, <2>2, Zenon DEF RecordsInv
  <1>4. ProducerInv'
    BY <1>0, <1>1, <1>2, AllocId DEF ProducerInv, RangeOK, alloc_cmdid
  <1>5. FlightInv'
    BY <1>1, <1>2, Zenon DEF FlightInv
  <1>6. ConsumerInv'
    <2>1. cqpc # "idle" => (ScanPos(cqtail) <= ScanPos(tail))'
      <3>1. ScanPos(tail) \in Int /\ ScanPos(cqtail) \in Int
        BY <1>0 DEF ScanPos, Slots, TypeOK
      <3>2. ScanPos(cqtail)' = ScanPos(cqtail)
        BY Zenon DEF ScanPos
      <3> QED
        BY <1>1, <3>1, <3>2 DEF ConsumerInv
    <2>2. cqpc = "pop" => (head # cqtail /\ is_complete(array[head]))'
      <3>1. cqpc = "pop" => head # tail
        BY <1>0 DEF ConsumerInv, ScanPos, Slots, TypeOK
      <3> QED
        BY <1>0, <3>1, Zenon DEF ConsumerInv, TypeOK, is_complete
    <2> QED
      BY <2>1, <2>2, Zenon DEF ConsumerInv
  <1>7. AllCounted'
    <2>1. \A i : Own(i)' = Own(i)
      BY Zenon DEF Own
    <2>2. Own(t) = {}
      BY <1>1, Zenon DEF Own, FlightInv
    <2>3. Unissued(t)' = bi.total
      BY <1>0, <1>1, <1>t, Zenon DEF Unissued, alloc_cmdid, RangeOK, BatchInfo, CmdIds
    <2>4. \A i \in LiveSlots : Unissued(i)' = 0 /\ Unissued(i) = 0
      BY <1>1, Zenon DEF Unissued
    <2>5. Cardinality({}) = 0
      BY FS_EmptySet, Zenon
    <2>6. bi.total \in Int
      BY <1>0 DEF BatchInfo
    <2>7. (array[t].counter + Cardinality(Own(t)) + Unissued(t) = array[t].total)'
      <3>1. /\ array'[t].counter = 0 /\ array'[t].total = bi.total
            /\ Cardinality(Own(t)') = 0
        BY <1>0, <1>2, <2>1, <2>2, <2>5, Zenon
      <3> QED
        BY <2>3, <2>6, <3>1
    <2>8. ASSUME NEW i \in LiveSlots
          PROVE  (array[i].counter + Cardinality(Own(i)) + Unissued(i)
                     = array[i].total)'
      BY <1>2, <2>1, <2>4, Zenon DEF AllCounted
    <2> QED
      BY <1>1, <2>7, <2>8, Zenon DEF AllCounted
  <1> QED
    BY <1>3, <1>4, <1>5, <1>6, <1>7, Zenon

(* One turn of the issue loop: the id is fresh in its batch, and moves     *)
(* from the ones to be issued to the ones in flight.                       *)
LEMMA IssueCommandInv ==
    ASSUME TypeOK, IsFiniteSet(inflight), BatchInv, IssueCommand
    PROVE  BatchInv'
  <1>. USE ConstantsAssumption DEF BatchInv, IssueCommand, consumer
  <1>0. /\ cmdid_counter \in CmdIds /\ bi \in BatchInfo
        /\ head \in Slots /\ tail \in Slots
        /\ alloc_cmdid \in 1 .. MaxCmdId
        /\ bi.end_cmdid \in CmdIds
        /\ bi.start_cmdid <= alloc_cmdid /\ alloc_cmdid <= bi.end_cmdid
        /\ LastSlot \in LiveSlots
    BY AllocId, Zenon DEF TypeOK, ProducerInv, BatchInfo
  <1>t. PICK t \in Slots, a \in 1 .. MaxCmdId : t = LastSlot /\ a = alloc_cmdid
    BY <1>0, LiveAge, Zenon
  <1>1. /\ LiveSlots' = LiveSlots /\ LastSlot' = t
        /\ inflight' = inflight \cup {<<t, a>>} /\ <<t, a>> \notin inflight
        /\ <<t, a>>[1] = t /\ <<t, a>>[2] = a
    BY <1>t DEF LiveSlots, LastSlot, FlightInv
  <1>2. pc' = "issue" => alloc_cmdid' = a + 1 /\ a + 1 <= bi.end_cmdid
    BY <1>0, <1>t DEF alloc_cmdid, uint16, CmdIds
  <1>3. LastEnd' = LastEnd /\ LastEnd = bi.end_cmdid
    <2>1. ~wasEmpty
      BY <1>0, NewestSlot, Zenon
    <2> QED
      BY <2>1, SameEnd, Zenon DEF LastEnd, ProducerInv
  <1>6. RecordsInv'
    BY <1>1, Zenon DEF RecordsInv
  <1>7. ProducerInv'
    BY <1>0, <1>1, <1>2, <1>3, <1>t DEF ProducerInv, CmdIds, BatchInfo
  <1>8. FlightInv'
    <2>1. ASSUME NEW c \in inflight'
          PROVE  (/\ c[1] \in LiveSlots
                  /\ array[c[1]].start_cmdid <= c[2]
                  /\ c[2] <= array[c[1]].end_cmdid
                  /\ pc = "issue" /\ c[1] = LastSlot => c[2] < alloc_cmdid)'
      <3>1. CASE c = <<t, a>>
        BY <3>1, <1>0, <1>1, <1>2, <1>t DEF ProducerInv
      <3>2. CASE c \in inflight
        <4>1. c[2] \in Int
          BY <3>2 DEF TypeOK, CmdIds
        <4> QED
          BY <3>2, <4>1, <1>1, <1>2, <1>t DEF FlightInv
      <3> QED
        BY <3>1, <3>2, <1>1, Zenon
    <2> QED
      BY <2>1, Zenon DEF FlightInv
  <1>9. ConsumerInv'
    BY Zenon DEF ConsumerInv, ScanPos, is_complete
  <1>10. AllCounted'
    <2>1. ASSUME NEW i \in LiveSlots
          PROVE  (array[i].counter + Cardinality(Own(i)) + Unissued(i)
                     = array[i].total)'
      <3>1. CASE i = t
        <4>1. Own(i)' = Own(i) \cup {<<t, a>>} /\ <<t, a>> \notin Own(i)
          BY <3>1, <1>1, Zenon DEF Own
        <4>2. IsFiniteSet(Own(i))
          BY FS_Subset, Zenon DEF Own
        <4>3. /\ Cardinality(Own(i)') = Cardinality(Own(i)) + 1
              /\ Cardinality(Own(i)) \in Nat
          BY <4>1, <4>2, FS_AddElement, FS_CardinalityType, Zenon
        <4>4. Unissued(i) = bi.end_cmdid - a + 1
          BY <3>1, <1>t, Zenon DEF Unissued
        <4>5. Unissued(i)' = bi.end_cmdid - a
          BY <3>1, <1>0, <1>1, <1>2, <1>t DEF Unissued, CmdIds
        <4>6. array[i].counter \in Int /\ bi.end_cmdid \in Int
          BY <3>1, <1>0 DEF TypeOK, BatchInfo, CmdIds
        <4>7. array[i].counter + Cardinality(Own(i)) + Unissued(i)
                 = array[i].total
          BY Zenon DEF AllCounted
        <4> QED
          BY <4>3, <4>4, <4>5, <4>6, <4>7
      <3>2. CASE i # t
        <4>1. Own(i)' = Own(i)
          BY <3>2, <1>1, Zenon DEF Own
        <4>2. Unissued(i)' = Unissued(i)
          BY <3>2, <1>1, <1>t, Zenon DEF Unissued
        <4> QED
          BY <4>1, <4>2, Zenon DEF AllCounted
      <3> QED
        BY <3>1, <3>2, Zenon
    <2> QED
      BY <2>1, <1>1, Zenon DEF AllCounted
  <1> QED
    BY <1>6, <1>7, <1>8, <1>9, <1>10, Zenon

(* The scan of _update_single_iteration finds the record of the batch a    *)
(* completion belongs to, and only that one.                               *)
LEMMA MatchIsOwner ==
    ASSUME TypeOK, BatchInv, NEW c \in inflight
    PROVE  c[1] \in LiveSlots /\ Matches(c[2]) = {c[1]}
  <1>. USE DEF BatchInv
  <1>1. /\ c[1] \in LiveSlots
        /\ array[c[1]].start_cmdid <= c[2] /\ c[2] <= array[c[1]].end_cmdid
    BY Zenon DEF FlightInv
  <1>2. head \in Slots /\ tail \in Slots /\ c[2] \in Int
    BY DEF TypeOK, CmdIds
  <1>3. \A i \in LiveSlots : /\ array[i].start_cmdid \in Int
                            /\ array[i].end_cmdid \in Int
    BY <1>2, LiveAge DEF TypeOK, BatchInfo, CmdIds
  <1>4. \A i \in LiveSlots : i # c[1] => Apart(array[i], array[c[1]])
    BY <1>1, Zenon DEF RecordsInv
  <1> QED
    BY <1>1, <1>2, <1>3, <1>4 DEF Matches, Apart

(* What the issue loop has left to issue is a number, not yet zero inside  *)
(* the loop.                                                               *)
LEMMA UnissuedCount ==
    ASSUME TypeOK, ProducerInv, NEW i
    PROVE  Unissued(i) \in Nat /\ (pc = "issue" /\ LastSlot = i => Unissued(i) > 0)
  <1>1. bi.end_cmdid \in Int /\ alloc_cmdid \in Int
    BY ConstantsAssumption, AllocId DEF TypeOK, BatchInfo, CmdIds
  <1>2. pc = "issue" => alloc_cmdid <= bi.end_cmdid
    BY Zenon DEF ProducerInv
  <1> QED
    BY <1>1, <1>2 DEF Unissued

(* A completion is counted once, in the record of its own batch.           *)
LEMMA UpdateInv ==
    ASSUME TypeOK, IsFiniteSet(inflight), BatchInv, NEW c \in inflight, Update(c)
    PROVE  BatchInv'
  <1>. USE ConstantsAssumption DEF BatchInv
  <1>. DEFINE k == c[1]
  <1>0. head \in Slots /\ tail \in Slots /\ k \in LiveSlots /\ k \in Slots
    BY MatchIsOwner, LiveAge, Zenon DEF TypeOK
  <1>1. CountCompletion(k)
    BY MatchIsOwner, Zenon DEF Update, FirstMatch
  <1>2. /\ UNCHANGED <<last_available_cmdid, head, popped>>
        /\ UNCHANGED <<cmdid_counter, tail, pc, bi, lapped>>
        /\ cqtail' = tail /\ inflight' = inflight \ {c}
        /\ array \in [Slots -> BatchInfo] /\ LastEnd' = LastEnd
    BY Updated, UpdateEnd, Zenon DEF TypeOK
  <1>3. /\ array'[k].counter = uint16(array[k].counter + 1)
        /\ \A i \in Slots : /\ array'[i].start_cmdid = array[i].start_cmdid
                            /\ array'[i].end_cmdid = array[i].end_cmdid
                            /\ array'[i].total = array[i].total
                            /\ i # k => array'[i] = array[i]
        /\ cqpc' \in {"pop", "idle"}
        /\ cqpc' = "pop" => k = head /\ is_complete(array'[k])
    BY <1>0, <1>1, <1>2, Counted, Zenon
  <1>4. /\ IsFiniteSet(Own(k)) /\ c \in Own(k)
        /\ Own(k)' = Own(k) \ {c}
        /\ \A i : i # k => Own(i)' = Own(i)
    <2>1. IsFiniteSet(Own(k))
      BY FS_Subset, Zenon DEF Own
    <2> QED
      BY <1>2, <2>1, Zenon DEF Own
  <1>. HIDE DEF k
  <1>5. /\ LiveSlots' = LiveSlots /\ LastSlot' = LastSlot
        /\ alloc_cmdid' = alloc_cmdid
        /\ \A i : ScanPos(i)' = ScanPos(i)
        /\ \A i : Unissued(i)' = Unissued(i)
    BY <1>2, Zenon DEF LiveSlots, LastSlot, alloc_cmdid, ScanPos, Unissued
  <1>6. /\ Cardinality(Own(k)) \in Nat /\ Cardinality(Own(k)) >= 1
        /\ Cardinality(Own(k)') = Cardinality(Own(k)) - 1
    <2>1. /\ Cardinality(Own(k)) \in Nat
          /\ Cardinality(Own(k)') = Cardinality(Own(k)) - 1
          /\ Cardinality(Own(k)') \in Nat
      BY <1>4, FS_RemoveElement, FS_CardinalityType
    <2> QED
      BY <2>1
  <1>7. Unissued(k) \in Nat
    BY Zenon, UnissuedCount
  <1>8. /\ array[k].counter \in Nat /\ array[k].total \in Nat
        /\ array[k].total <= MaxBatch
    BY <1>0, <1>2 DEF BatchInfo, CmdIds
  <1>9. array[k].counter + Cardinality(Own(k)) + Unissued(k) = array[k].total
    BY <1>0, Zenon DEF AllCounted
  <1>10. array'[k].counter = array[k].counter + 1
    BY <1>3, <1>6, <1>7, <1>8, <1>9 DEF uint16
  <1>11. \A i \in LiveSlots : i \in Slots
    BY <1>0, LiveAge, Zenon
  <1>12. RecordsInv'
    BY <1>3, <1>5, <1>11 DEF RecordsInv, RangeOK, Apart
  <1>13. ProducerInv'
    BY <1>2, <1>3, <1>5, <1>11, Zenon DEF ProducerInv, RangeOK
  <1>14. FlightInv'
    BY <1>2, <1>3, <1>5, <1>11 DEF FlightInv
  <1>15. ConsumerInv'
    <2>1. head # tail
      BY <1>0 DEF LiveSlots, Slots
    <2>2. ScanPos(tail) <= ScanPos(tail)
      BY <1>0 DEF ScanPos, Slots
    <2> QED
      BY <1>2, <1>3, <1>5, <2>1, <2>2, Zenon DEF ConsumerInv
  <1>16. AllCounted'
    <2>1. (array[k].counter + Cardinality(Own(k)) + Unissued(k) = array[k].total)'
      BY <1>0, <1>3, <1>5, <1>6, <1>7, <1>8, <1>9, <1>10
    <2>2. ASSUME NEW i \in LiveSlots, i # k
          PROVE  (array[i].counter + Cardinality(Own(i)) + Unissued(i)
                     = array[i].total)'
      BY <2>2, <1>3, <1>4, <1>5, <1>11 DEF AllCounted
    <2> QED
      BY <2>1, <2>2, <1>5, Zenon DEF AllCounted
  <1> QED
    BY <1>12, <1>13, <1>14, <1>15, <1>16, Zenon

(* The pop loop only releases a batch that has nothing in flight and       *)
(* nothing left to issue.                                                  *)
LEMMA PopBatchInv ==
    ASSUME TypeOK, IsFiniteSet(inflight), BatchInv, PopBatch
    PROVE  BatchInv'
  <1>1. /\ RecordsInv /\ ProducerInv /\ FlightInv /\ ConsumerInv /\ AllCounted
    BY Zenon DEF BatchInv
  <1>2. /\ UNCHANGED <<last_available_cmdid, array, inflight, cqtail>>
        /\ UNCHANGED <<cmdid_counter, tail, pc, bi>>
        /\ head' = increment(head) /\ cqpc' = "store"
        /\ popped' = array[head].end_cmdid /\ LastEnd' = LastEnd
    BY <1>1, PopEnd, Zenon DEF PopBatch, producer
  <1>3. head \in Slots /\ tail \in Slots /\ cqtail \in Slots
    BY Zenon DEF TypeOK
  <1>4. /\ head # cqtail /\ ScanPos(cqtail) <= ScanPos(tail)
        /\ array[head].counter = array[head].total
    BY <1>1, Zenon DEF PopBatch, ConsumerInv, is_complete
  <1>5. PICK h \in Slots : h = head
    BY <1>3, Zenon
  <1>6. /\ h \in LiveSlots /\ LiveSlots' = LiveSlots \ {h}
        /\ (ScanPos(cqtail) <= ScanPos(tail))'
    BY <1>2, <1>3, <1>4, <1>5, PopLive, Zenon
  <1>7. /\ LastSlot' = LastSlot /\ alloc_cmdid' = alloc_cmdid
        /\ \A i : Unissued(i)' = Unissued(i) /\ Own(i)' = Own(i)
    BY <1>2, Zenon DEF LastSlot, alloc_cmdid, Unissued, Own
  <1>8. Own(h) = {} /\ ~(pc = "issue" /\ LastSlot = h)
    <2>1. array[h].counter \in Int /\ array[h].counter = array[h].total
      BY <1>4, <1>5 DEF TypeOK, BatchInfo, CmdIds
    <2>2. IsFiniteSet(Own(h)) /\ Cardinality(Own(h)) \in Nat
      BY FS_Subset, FS_CardinalityType, Zenon DEF Own
    <2>3. Unissued(h) \in Nat /\ (pc = "issue" /\ LastSlot = h => Unissued(h) > 0)
      BY <1>1, UnissuedCount, Zenon
    <2>4. array[h].counter + Cardinality(Own(h)) + Unissued(h) = array[h].total
      BY <1>1, <1>6, Zenon DEF AllCounted
    <2>5. Cardinality(Own(h)) = 0 /\ Unissued(h) = 0
      BY <2>1, <2>2, <2>3, <2>4
    <2> QED
      BY <2>2, <2>3, <2>5, FS_EmptySet
  <1>10. RecordsInv'
    BY Zenon, <1>1, <1>2, <1>6 DEF RecordsInv
  <1>11. ProducerInv'
    BY <1>1, <1>2, <1>6, <1>7, <1>8, Zenon DEF ProducerInv
  <1>12. FlightInv'
    BY Zenon, <1>1, <1>2, <1>6, <1>7, <1>8 DEF FlightInv, Own
  <1>13. ConsumerInv'
    BY <1>2, <1>6, Zenon DEF ConsumerInv
  <1>14. AllCounted'
    BY <1>1, <1>2, <1>6, <1>7, Zenon DEF AllCounted
  <1> QED
    BY <1>10, <1>11, <1>12, <1>13, <1>14, Zenon DEF BatchInv

(* What depends on the records, the producer, the newest id and the        *)
(* commands in flight only.                                                *)
LEMMA SameRecords ==
    ASSUME UNCHANGED <<array, head, inflight, cmdid_counter, tail, pc, bi>>,
           LastEnd' = LastEnd
    PROVE  /\ RecordsInv => RecordsInv'
           /\ ProducerInv => ProducerInv'
           /\ FlightInv => FlightInv'
           /\ AllCounted => AllCounted'
  <1>1. /\ LiveSlots' = LiveSlots /\ LastSlot' = LastSlot
        /\ alloc_cmdid' = alloc_cmdid
    BY Zenon DEF LiveSlots, LastSlot, alloc_cmdid
  <1>2. \A i : Unissued(i)' = Unissued(i) /\ Own(i)' = Own(i)
    BY <1>1, Zenon DEF Unissued, Own
  <1>3. RecordsInv => RecordsInv'
    BY <1>1, Zenon DEF RecordsInv
  <1>4. ProducerInv => ProducerInv'
    BY <1>1, Zenon DEF ProducerInv
  <1>5. (FlightInv => FlightInv') /\ (AllCounted => AllCounted')
    BY <1>1, <1>2, Zenon DEF FlightInv, AllCounted
  <1> QED
    BY <1>3, <1>4, <1>5, Zenon

LEMMA StoreAvailableInv ==
    ASSUME BatchInv, StoreAvailable
    PROVE  BatchInv'
  <1>1. /\ UNCHANGED <<array, head, inflight, cqtail, popped>>
        /\ UNCHANGED <<cmdid_counter, tail, pc, bi>> /\ cqpc = "store"
        /\ cqpc' = IF head # cqtail /\ is_complete(array[head])
                   THEN "pop" ELSE "idle"
    BY Zenon DEF StoreAvailable, producer
  <1>2. ConsumerInv'
    BY <1>1, Zenon DEF BatchInv, ConsumerInv, ScanPos, is_complete
  <1> QED
    BY <1>1, <1>2, SameRecords, StoreEnd, Zenon DEF BatchInv

LEMMA StutterInv ==
    ASSUME BatchInv, UNCHANGED vars
    PROVE  BatchInv'
  <1>1. ConsumerInv'
    BY Zenon DEF BatchInv, ConsumerInv, ScanPos, is_complete, vars
  <1>2. LastEnd' = LastEnd
    BY SameEnd, Zenon DEF vars, consumer
  <1> QED
    BY <1>1, <1>2, SameRecords, Zenon DEF BatchInv, vars

(* Every step keeps BatchInv, provided a push is of a range apart from the *)
(* live ones.                                                              *)
LEMMA NextBatchInv ==
    ASSUME TypeOK, IsFiniteSet(inflight), BatchInv, [Next]_vars,
           PushBatch => \A i \in LiveSlots : Apart(array[i], bi)
    PROVE  BatchInv'
  <1>1. ASSUME NEW length \in 1 .. MaxBatch, BeginBatch(length) PROVE BatchInv'
    BY <1>1, BeginBatchInv, Zenon
  <1>2. CASE ResetCmdid
    BY <1>2, ResetCmdidInv, Zenon
  <1>3. CASE CheckAvailable \/ BeginWait \/ EndWait
    BY <1>3, ProducerMoveInv, Zenon
  <1>4. CASE PushBatch
    BY <1>4, PushBatchInv, Zenon
  <1>5. CASE IssueCommand
    BY <1>5, IssueCommandInv, Zenon
  <1>6. CASE Spin \/ UNCHANGED vars
    BY <1>6, StutterInv, Zenon DEF Spin
  <1>7. ASSUME NEW c \in inflight, Update(c) PROVE BatchInv'
    BY <1>7, UpdateInv, Zenon
  <1>8. CASE PopBatch
    BY <1>8, PopBatchInv, Zenon
  <1>9. CASE StoreAvailable
    BY <1>9, StoreAvailableInv, Zenon
  <1> QED
    BY <1>1, <1>2, <1>3, <1>4, <1>5, <1>6, <1>7, <1>8, <1>9 DEF Next, Produce, Consume

-----------------------------------------------------------------------------
(* First reason for a new range to be apart: the ring is smaller than the  *)
(* id space.  k batches of a ring with room, and two more, fit into it.    *)
LEMMA WindowArith ==
    ASSUME WindowFits, NEW k \in 1 .. RingSize - 2
    PROVE  /\ k * MaxBatch \in Nat
           /\ k * MaxBatch + 2 * MaxBatch <= MaxCmdId + 1
           /\ (k + 1) * MaxBatch = k * MaxBatch + MaxBatch
  <1>. USE ConstantsAssumption
  <1>1. k \in Int /\ 1 <= k /\ k <= RingSize - 2 /\ MaxBatch \in Int /\ 0 < MaxBatch
    OBVIOUS
  <1>2. (k + 1) * MaxBatch = k * MaxBatch + MaxBatch
    BY <1>1
  <1>3. k * MaxBatch <= (RingSize - 2) * MaxBatch
    BY <1>1
  <1>4. RingSize * MaxBatch = (RingSize - 2) * MaxBatch + 2 * MaxBatch
    BY <1>1
  <1>5. k * MaxBatch \in Nat
    BY <1>1
  <1> QED
    BY <1>1, <1>2, <1>3, <1>4, <1>5 DEF WindowFits

(* A push: the new range follows the last reserved id, or starts over at 1 *)
(* where that id is within a batch of the largest.                         *)
LEMMA PushWindow ==
    ASSUME WindowFits, TypeOK, BatchInv, WindowInv, PushBatch
    PROVE  WindowInv' /\ \A i \in LiveSlots : Apart(array[i], bi)
  <1>. USE ConstantsAssumption DEF PushBatch, consumer
  <1>0. /\ cmdid_counter \in CmdIds /\ bi \in BatchInfo
        /\ head \in Slots /\ tail \in Slots
        /\ RangeOK(bi) /\ bi.start_cmdid = alloc_cmdid
        /\ \/ LastEnd = cmdid_counter
           \/ cmdid_counter = 0 /\ LastEnd + bi.total > MaxCmdId
    BY Zenon DEF TypeOK, BatchInv, ProducerInv
  <1>t. PICK t \in Slots : t = tail
    BY <1>0, Zenon
  <1>1. /\ LiveSlots' = LiveSlots \cup {t} /\ t \notin LiveSlots
        /\ LastSlot' = t /\ ~wasEmpty' /\ Age(t)' = 1
        /\ \A i \in LiveSlots : /\ Age(i)' = Age(i) + 1
                                /\ Age(i) + 1 \in 2 .. RingSize - 1
    BY <1>0, <1>t, PushLive, Zenon
  <1>2. /\ array'[t] = bi
        /\ \A i \in LiveSlots : i \in Slots /\ array'[i] = array[i]
    BY <1>0, <1>t, <1>1, LiveAge, Zenon DEF TypeOK
  <1>3. LastEnd' = bi.end_cmdid
    BY <1>1, <1>2, Zenon DEF LastEnd
  <1>4. /\ bi.start_cmdid \in CmdIds /\ bi.end_cmdid \in CmdIds
        /\ bi.total \in 0 .. MaxBatch
    BY <1>0, Zenon DEF BatchInfo
  <1>5. ASSUME NEW i \in LiveSlots
        PROVE  InWindow(array[i], Age(i))' /\ Apart(array[i], bi)
    <2>1. Age(i) \in 1 .. RingSize - 2
      <3>1. Age(i) \in 1 .. RingSize - 1
        BY <1>0, LiveAge, Zenon
      <3> QED
        BY <1>1, <3>1
    <2>. DEFINE K == Age(i) * MaxBatch
    <2>2. /\ K \in Nat /\ K + 2 * MaxBatch <= MaxCmdId + 1
          /\ (Age(i) + 1) * MaxBatch = K + MaxBatch
      BY <2>1, WindowArith, Zenon
    <2>3. InWindow(array[i], Age(i)) /\ RangeOK(array[i])
      BY Zenon DEF WindowInv, BatchInv, RecordsInv
    <2>4. array[i].start_cmdid \in CmdIds /\ array[i].end_cmdid \in CmdIds
      BY <1>2, Zenon DEF TypeOK, BatchInfo
    <2>5. /\ InWindow(array[i], Age(i))'
             <=> \/ /\ array[i].end_cmdid <= bi.end_cmdid
                    /\ bi.end_cmdid - array[i].start_cmdid + 1 <= K + MaxBatch
                 \/ /\ array[i].start_cmdid > bi.end_cmdid
                    /\ bi.end_cmdid + MaxCmdId - array[i].start_cmdid + 1
                          < K + MaxBatch + MaxBatch
      BY <1>1, <1>2, <1>3, <2>2, Zenon DEF InWindow
    <2>6. PICK e \in CmdIds :
             /\ e = LastEnd
             /\ \/ /\ array[i].end_cmdid <= e
                   /\ e - array[i].start_cmdid + 1 <= K
                \/ /\ array[i].start_cmdid > e
                   /\ e + MaxCmdId - array[i].start_cmdid + 1 < K + MaxBatch
      <3>1. LastEnd \in CmdIds
        <4>1. LastSlot \in Slots /\ ~wasEmpty
          BY <1>0, NewestSlot, Zenon
        <4> QED
          BY <4>1, Zenon DEF LastEnd, TypeOK, BatchInfo
      <3> QED
        BY <3>1, <2>3, Zenon DEF InWindow
    <2>. HIDE DEF K
    <2>7. CASE e = cmdid_counter /\ e # MaxCmdId
      BY <2>7, <1>0, <1>4, <2>2, <2>3, <2>4, <2>5, <2>6, AllocId
         DEF CmdIds, RangeOK, Apart
    <2>8. CASE (e = MaxCmdId \/ e + bi.total > MaxCmdId) /\ bi.start_cmdid = 1
      BY <2>8, <1>0, <1>4, <2>2, <2>3, <2>4, <2>5, <2>6 DEF CmdIds, RangeOK, Apart
    <2> QED
      BY <1>0, <2>6, <2>7, <2>8, AllocId
  <1>6. InWindow(array[t], Age(t))'
    BY <1>0, <1>1, <1>2, <1>3, <1>4 DEF InWindow, RangeOK, CmdIds
  <1> QED
    BY <1>1, <1>5, <1>6, Zenon DEF WindowInv

LEMMA NextWindow ==
    ASSUME WindowFits, TypeOK, BatchInv, WindowInv, [Next]_vars
    PROVE  WindowInv'
  <1>1. CASE PushBatch
    BY <1>1, PushWindow, Zenon
  <1>2. ASSUME LastEnd' = LastEnd, tail' = tail, LiveSlots' \subseteq LiveSlots,
               \A i \in Slots : /\ array'[i].start_cmdid = array[i].start_cmdid
                                /\ array'[i].end_cmdid = array[i].end_cmdid
        PROVE  WindowInv'
    <2>1. \A i \in LiveSlots : i \in Slots
      BY LiveAge, Zenon DEF TypeOK
    <2>2. \A i : Age(i)' = Age(i)
      BY <1>2, Zenon DEF Age
    <2> QED
      BY <1>2, <2>1, <2>2, Zenon DEF WindowInv, InWindow
  <1>3. CASE UNCHANGED <<array, tail, consumer>>
    <2>1. LastEnd' = LastEnd /\ LiveSlots' = LiveSlots
      BY <1>3, SameEnd, Zenon DEF LiveSlots, consumer
    <2> QED
      BY <1>2, <1>3, <2>1, Zenon
  <1>4. ASSUME NEW c \in inflight, Update(c) PROVE WindowInv'
    <2>1. LastEnd' = LastEnd /\ LiveSlots' = LiveSlots /\ tail' = tail
      BY <1>4, Updated, UpdateEnd, Zenon DEF LiveSlots
    <2> QED
      BY <1>2, <1>4, <2>1, Updated, Zenon
  <1>5. CASE PopBatch
    <2>1. /\ UNCHANGED <<array, tail, cqtail>> /\ head' = increment(head)
          /\ head # cqtail /\ ScanPos(cqtail) <= ScanPos(tail)
          /\ ConsumerInv
      BY <1>5, Zenon DEF PopBatch, producer, ConsumerInv, BatchInv
    <2>2. LiveSlots' = LiveSlots \ {head}
      BY <2>1, PopLive, Zenon DEF TypeOK
    <2> QED
      BY <1>2, <1>5, <2>1, <2>2, PopEnd, Zenon
  <1>6. CASE StoreAvailable
    <2>1. LiveSlots' = LiveSlots /\ UNCHANGED <<array, tail>>
      BY <1>6, Zenon DEF StoreAvailable, producer, LiveSlots
    <2> QED
      BY <1>2, <1>6, <2>1, StoreEnd, Zenon
  <1> QED
    BY <1>1, <1>3, <1>4, <1>5, <1>6, Zenon DEF Next, Produce, Consume, vars, consumer,
       BeginBatch, ResetCmdid, CheckAvailable, IssueCommand, BeginWait, EndWait, Spin

-----------------------------------------------------------------------------
(* Second reason: last_available_cmdid.  No live batch, nor the one being  *)
(* released, ends beyond the newest one.                                   *)
LEMMA EndIsLast ==
    ASSUME TypeOK, RecordsInv, RingOrder
    PROVE  /\ LastEnd \in CmdIds
           /\ \A i \in LiveSlots :
                 /\ Pos(array[i].end_cmdid) <= Pos(LastEnd)
                 /\ LastEnd # last_available_cmdid /\ LastEnd >= 1
           /\ cqpc = "store" =>
                 /\ Pos(popped) <= Pos(LastEnd)
                 /\ LastEnd # last_available_cmdid /\ LastEnd >= 1
  <1>. USE ConstantsAssumption
  <1>0. /\ head \in Slots /\ tail \in Slots /\ LastSlot \in Slots
        /\ array[LastSlot] \in BatchInfo
        /\ last_available_cmdid \in CmdIds /\ popped \in CmdIds
    BY NewestSlot, Zenon DEF TypeOK
  <1>1. LastEnd \in CmdIds
    BY <1>0, Zenon DEF LastEnd, BatchInfo
  <1>2. ASSUME ~wasEmpty
        PROVE  /\ LastSlot \in LiveSlots /\ LastEnd = array[LastSlot].end_cmdid
               /\ Pos(array[LastSlot].start_cmdid) <= Pos(LastEnd)
               /\ LastEnd # last_available_cmdid /\ LastEnd >= 1
    <2>1. LastSlot \in LiveSlots /\ LastEnd = array[LastSlot].end_cmdid
      BY <1>0, <1>2, NewestSlot, Zenon DEF LastEnd
    <2>2. Ahead(array[LastSlot]) /\ RangeOK(array[LastSlot])
      BY <2>1, Zenon DEF RingOrder, RecordsInv
    <2>3. LastEnd >= 1
      BY <1>0, <2>1, <2>2 DEF RangeOK, BatchInfo, CmdIds
    <2> QED
      BY <2>1, <2>2, <2>3, Zenon DEF Ahead
  <1>3. \A n \in CmdIds : Pos(n) \in Int
    BY <1>0 DEF Pos, CmdIds
  <1>4. ASSUME NEW i \in LiveSlots
        PROVE  Pos(array[i].end_cmdid) <= Pos(LastEnd) /\ ~wasEmpty
    <2>1. ~wasEmpty /\ i \in Slots /\ array[i].end_cmdid \in CmdIds
      BY <1>0, NewestSlot, LiveAge, Zenon DEF TypeOK, BatchInfo
    <2>2. CASE i = LastSlot
      BY <1>1, <1>2, <1>3, <2>1, <2>2
    <2>3. CASE i # LastSlot
      <3>1. Pos(array[i].end_cmdid) < Pos(array[LastSlot].start_cmdid)
        BY <1>0, <1>2, <2>1, <2>3, NewestSlot, Zenon DEF RingOrder
      <3>2. array[LastSlot].start_cmdid \in CmdIds
        BY <1>0, Zenon DEF BatchInfo
      <3> QED
        BY <1>1, <1>2, <1>3, <2>1, <3>1, <3>2
    <2> QED
      BY <2>2, <2>3, Zenon
  <1>5. ASSUME cqpc = "store"
        PROVE  /\ Pos(popped) <= Pos(LastEnd)
               /\ LastEnd # last_available_cmdid /\ LastEnd >= 1
    <2>1. CASE wasEmpty
      BY <1>0, <1>3, <1>5, <2>1 DEF LastEnd, RingOrder
    <2>2. CASE ~wasEmpty
      <3>1. Pos(popped) < Pos(array[LastSlot].start_cmdid)
        BY <1>2, <1>5, <2>2, Zenon DEF RingOrder
      <3>2. array[LastSlot].start_cmdid \in CmdIds
        BY <1>0, Zenon DEF BatchInfo
      <3> QED
        BY <1>0, <1>1, <1>2, <1>3, <2>2, <3>1, <3>2
    <2> QED
      BY <2>1, <2>2, Zenon
  <1> QED
    BY <1>1, <1>2, <1>4, <1>5, Zenon

(* The two tests of is_available: a range that does not reach round to the *)
(* id released last comes after every range in use.                        *)
LEMMA AvailableIsFree ==
    ASSUME TypeOK, BatchInv, ReleaseInv, CheckAvailable, ~lapped'
    PROVE  ReleaseInv'
  <1>. USE ConstantsAssumption
  <1>1. /\ RingOrder /\ RecordsInv
        /\ UNCHANGED <<cmdid_counter, array, tail, bi, inflight>>
        /\ UNCHANGED <<last_available_cmdid, head, cqpc, cqtail, popped>>
        /\ pc = "avail" /\ pc' = "push"
        /\ is_available(bi.start_cmdid, bi.end_cmdid)
        /\ ~(/\ bi.start_cmdid = 1 /\ last_available_cmdid = 0
             /\ LastEnd # 0)
    BY Zenon DEF CheckAvailable, BatchInv, ReleaseInv, consumer
  <1>2. PICK L \in CmdIds, E \in CmdIds, s \in 1 .. MaxCmdId, e \in 1 .. MaxCmdId :
           /\ L = last_available_cmdid /\ E = LastEnd
           /\ s = bi.start_cmdid /\ e = bi.end_cmdid
           /\ s <= e
           /\ (s < L /\ e < L) \/ (s > L /\ e > L)
           /\ ~(s = 1 /\ L = 0 /\ E # 0)
           /\ s = 1 /\ E # 0 => L <= E
           /\ \/ E = s - 1
              \/ s = 1 /\ E # 0
    <2>1. LastEnd \in CmdIds /\ last_available_cmdid \in CmdIds
      BY <1>1, EndIsLast, Zenon DEF TypeOK
    <2>2. bi.start_cmdid \in CmdIds /\ bi.end_cmdid \in CmdIds /\ cmdid_counter \in CmdIds
          /\ bi.total \in 0 .. MaxBatch
      BY Zenon DEF TypeOK, BatchInfo
    <2>3. /\ RangeOK(bi) /\ bi.start_cmdid = alloc_cmdid
          /\ \/ LastEnd = cmdid_counter
             \/ cmdid_counter = 0 /\ LastEnd + bi.total > MaxCmdId
      BY <1>1, Zenon DEF BatchInv, ProducerInv
    <2>4. bi.start_cmdid = 1 /\ LastEnd # 0 => last_available_cmdid <= LastEnd
      BY <1>1, Zenon DEF ReleaseInv
    <2>5. /\ bi.start_cmdid \in 1 .. MaxCmdId /\ bi.end_cmdid \in 1 .. MaxCmdId
          /\ bi.start_cmdid <= bi.end_cmdid
          /\ \/ LastEnd = bi.start_cmdid - 1
             \/ bi.start_cmdid = 1 /\ LastEnd # 0
      BY <2>1, <2>2, <2>3, AllocId DEF RangeOK, CmdIds
    <2> QED
      BY <1>1, <2>1, <2>4, <2>5, Zenon DEF is_available
  <1>3. \A n \in CmdIds : Pos(n) = IF n > L THEN n - L ELSE n - L + MaxCmdId
    BY <1>2, Zenon DEF Pos
  <1>4. Ahead(bi)
    BY <1>2, <1>3 DEF Ahead, CmdIds
  <1>5. ASSUME NEW n \in 1 .. MaxCmdId, Pos(n) <= Pos(E), E # L, E >= 1
        PROVE  Pos(n) < Pos(s)
    BY <1>2, <1>3, <1>5 DEF CmdIds
  <1>6. ASSUME NEW i \in LiveSlots
        PROVE  Pos(array[i].end_cmdid) < Pos(bi.start_cmdid)
    <2>1. /\ Pos(array[i].end_cmdid) <= Pos(E) /\ E # L /\ E >= 1
      BY <1>1, <1>2, EndIsLast, Zenon
    <2>2. i \in Slots /\ RangeOK(array[i])
      BY <1>1, LiveAge, Zenon DEF RecordsInv, TypeOK
    <2>3. array[i].end_cmdid \in 1 .. MaxCmdId
      BY <2>2 DEF TypeOK, BatchInfo, RangeOK, CmdIds
    <2> QED
      BY <1>2, <1>5, <2>1, <2>3, Zenon
  <1>7. ASSUME cqpc = "store" PROVE Pos(popped) < Pos(bi.start_cmdid)
    <2>1. /\ Pos(popped) <= Pos(E) /\ E # L /\ E >= 1
      BY <1>1, <1>2, <1>7, EndIsLast, Zenon
    <2>2. popped \in 1 .. MaxCmdId
      BY <1>1, <1>7 DEF RingOrder, TypeOK, CmdIds
    <2> QED
      BY <1>2, <1>5, <2>1, <2>2, Zenon
  <1>8. /\ LiveSlots' = LiveSlots
        /\ \A n : Pos(n)' = Pos(n) /\ ScanPos(n)' = ScanPos(n)
    BY <1>1, Zenon DEF LiveSlots, Pos, ScanPos
  <1>9. RingOrder'
    BY <1>1, <1>8, Zenon DEF RingOrder, Ahead
  <1>10. Ahead(bi)'
    BY <1>1, <1>4, <1>8, Zenon DEF Ahead
  <1> QED
    BY <1>1, <1>6, <1>7, <1>8, <1>9, <1>10, Zenon DEF ReleaseInv

(* A push in order keeps the order, and its range is apart from the others. *)
LEMMA PushOrder ==
    ASSUME TypeOK, BatchInv, ReleaseInv, PushBatch
    PROVE  ReleaseInv' /\ \A i \in LiveSlots : Apart(array[i], bi)
  <1>. USE ConstantsAssumption
  <1>0. /\ RingOrder /\ Ahead(bi) /\ RangeOK(bi) /\ bi \in BatchInfo
        /\ head \in Slots /\ tail \in Slots /\ array \in [Slots -> BatchInfo]
        /\ \A i \in LiveSlots : Pos(array[i].end_cmdid) < Pos(bi.start_cmdid)
        /\ cqpc = "store" => Pos(popped) < Pos(bi.start_cmdid)
        /\ UNCHANGED <<last_available_cmdid, head, cqpc, popped>>
        /\ tail' = increment(tail) /\ increment(tail) # head
        /\ array' = [array EXCEPT ![tail] = bi] /\ pc' = "issue"
    BY Zenon DEF PushBatch, ReleaseInv, BatchInv, ProducerInv, TypeOK, consumer
  <1>t. PICK t \in Slots : t = tail
    BY <1>0, Zenon
  <1>1. /\ LiveSlots' = LiveSlots \cup {t} /\ t \notin LiveSlots
        /\ \A i \in LiveSlots : ScanPos(i) < ScanPos(t)
    BY <1>0, <1>t, PushLive, Zenon
  <1>2. /\ array'[t] = bi
        /\ \A i \in LiveSlots : i \in Slots /\ array'[i] = array[i]
    BY <1>0, <1>t, <1>1, LiveAge, Zenon
  <1>3. \A n : Pos(n)' = Pos(n) /\ ScanPos(n)' = ScanPos(n)
    BY <1>0, Zenon DEF Pos, ScanPos
  <1>4. \A i \in LiveSlots \cup {t} : ScanPos(i) \in Int
    BY <1>0, <1>2 DEF ScanPos, Slots
  <1>5. RingOrder'
    <2>1. \A i \in LiveSlots' : Ahead(array[i])'
      BY <1>0, <1>1, <1>2, <1>3, Zenon DEF RingOrder, Ahead
    <2>2. ASSUME NEW i \in LiveSlots', NEW j \in LiveSlots', ScanPos(i) < ScanPos(j)
          PROVE  Pos(array'[i].end_cmdid) < Pos(array'[j].start_cmdid)
      <3>1. CASE i \in LiveSlots /\ j \in LiveSlots
        BY <3>1, <1>0, <1>2, <2>2, Zenon DEF RingOrder
      <3>2. CASE i \in LiveSlots /\ j = t
        BY <3>2, <1>0, <1>2, Zenon
      <3>3. CASE i = t
        BY <3>3, <1>1, <1>4, <2>2
      <3> QED
        BY <3>1, <3>2, <3>3, <1>1, Zenon
    <2>3. cqpc = "store" =>
             /\ 1 <= popped /\ popped # last_available_cmdid
             /\ \A i \in LiveSlots' : Pos(popped) < Pos(array'[i].start_cmdid)
      BY <1>0, <1>1, <1>2, Zenon DEF RingOrder
    <2> QED
      BY <1>0, <1>3, <2>1, <2>2, <2>3, Zenon DEF RingOrder
  <1>6. ASSUME NEW i \in LiveSlots PROVE Apart(array[i], bi)
    <2>1. Ahead(array[i]) /\ RangeOK(array[i]) /\ array[i] \in BatchInfo
      BY <1>0, <1>2, Zenon DEF RingOrder, BatchInv, RecordsInv
    <2>2. last_available_cmdid \in CmdIds
      BY Zenon DEF TypeOK
    <2> QED
      BY <1>0, <2>1, <2>2 DEF Ahead, RangeOK, Apart, Pos, BatchInfo, CmdIds
  <1> QED
    BY <1>0, <1>5, <1>6, Zenon DEF ReleaseInv

LEMMA PopOrder ==
    ASSUME TypeOK, BatchInv, ReleaseInv, PopBatch
    PROVE  ReleaseInv'
  <1>. USE ConstantsAssumption
  <1>0. /\ RingOrder /\ ConsumerInv
        /\ head \in Slots /\ tail \in Slots /\ cqtail \in Slots
        /\ array \in [Slots -> BatchInfo]
        /\ UNCHANGED <<last_available_cmdid, array, cqtail>>
        /\ UNCHANGED <<cmdid_counter, tail, pc, bi>>
        /\ head' = increment(head) /\ cqpc' = "store"
        /\ popped' = array[head].end_cmdid
        /\ head # cqtail /\ ScanPos(cqtail) <= ScanPos(tail)
    BY Zenon DEF PopBatch, ReleaseInv, BatchInv, ConsumerInv, TypeOK, producer
  <1>h. PICK h \in Slots : h = head
    BY <1>0, Zenon
  <1>1. /\ h \in LiveSlots /\ LiveSlots' = LiveSlots \ {h}
        /\ \A i \in LiveSlots : i # h => /\ ScanPos(h) < ScanPos(i)
                                         /\ ScanPos(i)' = ScanPos(i) - 1
    BY <1>0, <1>h, PopLive, Zenon
  <1>2. \A n : Pos(n)' = Pos(n)
    BY <1>0, Zenon DEF Pos
  <1>3. \A i \in LiveSlots : ScanPos(i) \in Int
    BY <1>0, LiveAge DEF ScanPos, Slots
  <1>4. RangeOK(array[h]) /\ Ahead(array[h]) /\ array[h] \in BatchInfo
    BY <1>0, <1>1, Zenon DEF BatchInv, RecordsInv, RingOrder
  <1>5. RingOrder'
    <2>1. \A i \in LiveSlots' : Ahead(array[i])'
      BY <1>0, <1>1, <1>2, Zenon DEF RingOrder, Ahead
    <2>2. ASSUME NEW i \in LiveSlots', NEW j \in LiveSlots', (ScanPos(i) < ScanPos(j))'
          PROVE  Pos(array[i].end_cmdid) < Pos(array[j].start_cmdid)
      <3>1. ScanPos(i) < ScanPos(j)
        BY <1>1, <1>3, <2>2
      <3> QED
        BY <1>0, <1>1, <3>1, Zenon DEF RingOrder
    <2>3. /\ 1 <= popped' /\ popped' # last_available_cmdid
          /\ \A i \in LiveSlots' : Pos(popped') < Pos(array[i].start_cmdid)
      <3>1. 1 <= popped'
        BY <1>0, <1>h, <1>4 DEF RangeOK, BatchInfo, CmdIds
      <3> QED
        BY <1>0, <1>h, <1>1, <1>4, <3>1, Zenon DEF RingOrder, Ahead
    <2> QED
      BY <1>0, <1>2, <2>1, <2>2, <2>3, Zenon DEF RingOrder
  <1>6. LastEnd' = LastEnd
    BY <1>0, PopEnd, Zenon
  <1>7. pc = "push" => Ahead(bi)'
    BY <1>0, <1>2, Zenon DEF ReleaseInv, Ahead
  <1> QED
    BY <1>0, <1>h, <1>1, <1>2, <1>5, <1>6, <1>7, Zenon DEF ReleaseInv

(* Positions counted from the id released next. *)
LEMMA PosShift ==
    ASSUME last_available_cmdid \in CmdIds, last_available_cmdid' = popped,
           popped \in 1 .. MaxCmdId, popped # last_available_cmdid,
           NEW n \in CmdIds, Pos(popped) < Pos(n), n # 0
    PROVE  Pos(n)' = Pos(n) - Pos(popped) /\ n # popped
  BY ConstantsAssumption DEF Pos, CmdIds

LEMMA StoreOrder ==
    ASSUME TypeOK, BatchInv, ReleaseInv, StoreAvailable
    PROVE  ReleaseInv'
  <1>. USE ConstantsAssumption
  <1>0. /\ RingOrder /\ RecordsInv
        /\ head \in Slots /\ tail \in Slots /\ array \in [Slots -> BatchInfo]
        /\ UNCHANGED <<array, head, popped, tail, pc, bi>>
        /\ cqpc = "store" /\ cqpc' # "store" /\ last_available_cmdid' = popped
        /\ last_available_cmdid \in CmdIds /\ bi \in BatchInfo
    BY Zenon DEF StoreAvailable, ReleaseInv, BatchInv, TypeOK, producer
  <1>1. popped \in 1 .. MaxCmdId /\ popped # last_available_cmdid
    BY <1>0 DEF RingOrder, TypeOK, CmdIds
  <1>2. /\ LiveSlots' = LiveSlots /\ LastEnd' = LastEnd
        /\ \A i : ScanPos(i)' = ScanPos(i)
    BY <1>0, StoreEnd, Zenon DEF LiveSlots, ScanPos
  <1>3. ASSUME NEW b \in BatchInfo, RangeOK(b), Ahead(b),
               Pos(popped) < Pos(b.start_cmdid)
        PROVE  /\ Pos(b.start_cmdid)' = Pos(b.start_cmdid) - Pos(popped)
               /\ Pos(b.end_cmdid)' = Pos(b.end_cmdid) - Pos(popped)
               /\ b.end_cmdid # popped
               /\ Pos(b.start_cmdid) \in Int /\ Pos(b.end_cmdid) \in Int
               /\ Pos(popped) \in Int
               /\ Pos(b.start_cmdid) <= Pos(b.end_cmdid)
    <2>1. /\ b.start_cmdid \in CmdIds /\ b.start_cmdid # 0
          /\ b.end_cmdid \in CmdIds /\ b.end_cmdid # 0
      BY <1>3 DEF BatchInfo, RangeOK, CmdIds
    <2>2. /\ Pos(b.start_cmdid) \in Int /\ Pos(b.end_cmdid) \in Int
          /\ Pos(popped) \in Int
      BY <1>0, <1>1, <2>1 DEF Pos, CmdIds
    <2>3. Pos(popped) < Pos(b.end_cmdid) /\ Pos(b.start_cmdid) <= Pos(b.end_cmdid)
      BY <1>3, <2>2 DEF Ahead
    <2> QED
      BY <1>0, <1>1, <1>3, <2>1, <2>2, <2>3, PosShift, Zenon
  <1>4. ASSUME NEW i \in LiveSlots
        PROVE  /\ array[i] \in BatchInfo /\ RangeOK(array[i]) /\ Ahead(array[i])
               /\ Pos(popped) < Pos(array[i].start_cmdid)
    BY <1>0, LiveAge, Zenon DEF RingOrder, RecordsInv
  <1>5. RingOrder'
    <2>1. ASSUME NEW i \in LiveSlots PROVE Ahead(array[i])'
      BY <1>0, <1>3, <1>4 DEF Ahead
    <2>2. ASSUME NEW i \in LiveSlots, NEW j \in LiveSlots, ScanPos(i) < ScanPos(j)
          PROVE  (Pos(array[i].end_cmdid) < Pos(array[j].start_cmdid))'
      <3>1. Pos(array[i].end_cmdid) < Pos(array[j].start_cmdid)
        BY <1>0, <2>2, Zenon DEF RingOrder
      <3> QED
        BY <1>0, <1>3, <1>4, <3>1
    <2> QED
      BY <1>0, <1>2, <2>1, <2>2, Zenon DEF RingOrder
  <1>6. ASSUME pc = "avail", bi.start_cmdid = 1, LastEnd # 0
        PROVE  popped <= LastEnd
    <2>1. last_available_cmdid <= LastEnd
      BY <1>6, Zenon DEF ReleaseInv
    <2>2. Pos(popped) <= Pos(LastEnd) /\ LastEnd \in CmdIds
          /\ LastEnd # last_available_cmdid
      BY <1>0, EndIsLast, Zenon
    <2> QED
      BY <1>0, <1>1, <2>1, <2>2 DEF Pos, CmdIds
  <1>7. ASSUME pc = "push"
        PROVE  /\ Ahead(bi)'
               /\ \A i \in LiveSlots :
                     (Pos(array[i].end_cmdid) < Pos(bi.start_cmdid))'
    <2>1. /\ RangeOK(bi) /\ Ahead(bi) /\ Pos(popped) < Pos(bi.start_cmdid)
          /\ \A i \in LiveSlots : Pos(array[i].end_cmdid) < Pos(bi.start_cmdid)
      BY <1>0, <1>7, Zenon DEF ReleaseInv, BatchInv, ProducerInv
    <2>2. Ahead(bi)'
      BY <1>0, <1>3, <2>1 DEF Ahead
    <2>3. ASSUME NEW i \in LiveSlots
          PROVE  (Pos(array[i].end_cmdid) < Pos(bi.start_cmdid))'
      BY <1>0, <1>3, <1>4, <2>1
    <2> QED
      BY <2>2, <2>3, Zenon
  <1> QED
    BY <1>0, <1>2, <1>5, <1>6, <1>7, Zenon DEF ReleaseInv

(* The order only depends on the ids of the records, the ring indices and  *)
(* what the pop loop holds.                                                *)
LEMMA SameOrder ==
    ASSUME TypeOK, ReleaseInv, LastEnd' = LastEnd,
           UNCHANGED <<last_available_cmdid, head, tail, popped>>,
           \A i \in Slots : /\ array'[i].start_cmdid = array[i].start_cmdid
                            /\ array'[i].end_cmdid = array[i].end_cmdid,
           cqpc' = "store" => cqpc = "store",
           \/ pc' = pc /\ bi' = bi
           \/ pc' \notin {"avail", "push"}
           \/ /\ pc' = "avail"
              /\ bi'.start_cmdid = 1 /\ LastEnd # 0 => last_available_cmdid <= LastEnd
    PROVE  ReleaseInv'
  <1>1. /\ LiveSlots' = LiveSlots
        /\ \A n : Pos(n)' = Pos(n) /\ ScanPos(n)' = ScanPos(n)
    BY Zenon DEF LiveSlots, Pos, ScanPos
  <1>2. \A i \in LiveSlots : i \in Slots
    BY LiveAge, Zenon DEF TypeOK
  <1>3. RingOrder'
    BY <1>1, <1>2, Zenon DEF ReleaseInv, RingOrder, Ahead
  <1>4. CASE pc' = pc /\ bi' = bi
    <2>1. pc = "push" => Ahead(bi)'
      BY <1>1, <1>4, Zenon DEF ReleaseInv, Ahead
    <2> QED
      BY <1>1, <1>2, <1>3, <1>4, <2>1, Zenon DEF ReleaseInv
  <1>5. CASE pc' \notin {"avail", "push"}
    BY <1>3, <1>5, Zenon DEF ReleaseInv
  <1>6. CASE /\ pc' = "avail"
             /\ bi'.start_cmdid = 1 /\ LastEnd # 0 => last_available_cmdid <= LastEnd
    BY <1>3, <1>6, Zenon DEF ReleaseInv
  <1> QED
    BY <1>4, <1>5, <1>6, Zenon

LEMMA NextRelease ==
    ASSUME TypeOK, BatchInv, ReleaseInv, [Next]_vars, ~lapped'
    PROVE  ReleaseInv'
  <1>. USE ConstantsAssumption
  <1>0. /\ LastEnd \in CmdIds /\ last_available_cmdid \in CmdIds
        /\ cmdid_counter \in CmdIds
    BY EndIsLast, Zenon DEF BatchInv, ReleaseInv, TypeOK
  <1>1. ASSUME NEW length \in 1 .. MaxBatch, BeginBatch(length) PROVE ReleaseInv'
    <2>1. LastEnd' = LastEnd /\ LastEnd = cmdid_counter
      BY <1>1, SameEnd, Zenon DEF BeginBatch, BatchInv, ProducerInv
    <2>2. bi'.start_cmdid = alloc_cmdid
      BY <1>1, Zenon DEF BeginBatch, NewBatch, next_cmdid
    <2>3. alloc_cmdid = 1 /\ LastEnd # 0 => last_available_cmdid <= LastEnd
      BY <1>0, <2>1, AllocId DEF CmdIds
    <2>4. /\ UNCHANGED <<array, tail>>
          /\ UNCHANGED <<last_available_cmdid, head, popped, cqpc>>
          /\ pc' = "avail" \/ pc' = "reset"
      BY <1>1, Zenon DEF BeginBatch, consumer
    <2> QED
      BY <2>1, <2>2, <2>3, <2>4, SameOrder, Zenon
  <1>2. CASE ResetCmdid
    <2>1. LastEnd' = LastEnd /\ LastEnd = cmdid_counter
      BY <1>2, SameEnd, Zenon DEF ResetCmdid, BatchInv, ProducerInv
    <2> QED
      BY <1>2, <2>1, SameOrder, Zenon DEF ResetCmdid, can_reset_cmdid, consumer
  <1>3. CASE CheckAvailable
    BY <1>3, AvailableIsFree, Zenon
  <1>4. CASE PushBatch
    BY <1>4, PushOrder, Zenon
  <1>5. CASE IssueCommand
    <2>1. /\ UNCHANGED <<array, tail>> /\ LastEnd' = LastEnd
          /\ UNCHANGED <<last_available_cmdid, head, popped, cqpc>>
          /\ pc' = "idle" \/ pc' = "issue"
      BY <1>5, SameEnd, Zenon DEF IssueCommand, consumer
    <2> QED
      BY <2>1, SameOrder, Zenon
  <1>6. CASE BeginWait \/ EndWait \/ Spin \/ UNCHANGED vars
    <2>1. /\ UNCHANGED <<array, tail>> /\ LastEnd' = LastEnd
          /\ UNCHANGED <<last_available_cmdid, head, popped, cqpc>>
          /\ \/ pc' = pc /\ bi' = bi
             \/ pc' = "idle" \/ pc' = "wait"
      BY <1>6, SameEnd, Zenon DEF BeginWait, EndWait, Spin, vars, consumer
    <2> QED
      BY <2>1, SameOrder, Zenon
  <1>7. ASSUME NEW c \in inflight, Update(c) PROVE ReleaseInv'
    <2>1. LastEnd' = LastEnd
      BY <1>7, UpdateEnd, Zenon
    <2> QED
      BY <1>7, <2>1, Updated, SameOrder, Zenon
  <1>8. CASE PopBatch
    BY <1>8, PopOrder, Zenon
  <1>9. CASE StoreAvailable
    BY <1>9, StoreOrder, Zenon
  <1> QED
    BY <1>1, <1>2, <1>3, <1>4, <1>5, <1>6, <1>7, <1>8, <1>9 DEF Next, Produce, Consume

-----------------------------------------------------------------------------
(* The inductive invariant holds in the initial state (the constructors).  *)
LEMMA InitIInv == Init => IInv
  <1> SUFFICES ASSUME Init PROVE IInv
    BY Zenon
  <1>. USE ConstantsAssumption DEF Init
  <1>1. TypeOK
    <2>1. ZeroInfo \in BatchInfo /\ 0 \in Slots /\ 0 \in CmdIds
      BY DEF Slots, CmdIds, BatchInfo, ZeroInfo
    <2> QED
      BY <2>1, Zenon DEF TypeOK
  <1>2. LiveSlots = {} /\ LastEnd = 0
    BY DEF LiveSlots, LastEnd, wasEmpty
  <1>3. IsFiniteSet(inflight)
    BY FS_EmptySet, Zenon
  <1>4. BatchInv
    BY <1>2, Zenon DEF BatchInv, RecordsInv, ProducerInv, FlightInv, ConsumerInv,
       AllCounted
  <1>5. WindowInv /\ ReleaseInv
    BY <1>2, Zenon DEF WindowInv, ReleaseInv, RingOrder
  <1> QED
    BY <1>1, <1>3, <1>4, <1>5, Zenon DEF IInv

LEMMA LappedStays == ASSUME [Next]_vars, lapped PROVE lapped'
  BY Zenon DEF Next, Produce, Consume, vars, BeginBatch, ResetCmdid, CheckAvailable,
     PushBatch, IssueCommand, BeginWait, EndWait, Spin, Update, PopBatch,
     StoreAvailable, producer

LEMMA NextIInv ==
    ASSUME IInv, [Next]_vars
    PROVE  IInv'
  <1>1. TypeOK /\ IsFiniteSet(inflight)
    BY Zenon DEF IInv
  <1>2. TypeOK' /\ IsFiniteSet(inflight')
    BY <1>1, NextTypeOK, Zenon
  <1>3. ASSUME WindowFits PROVE BatchInv' /\ WindowInv'
    <2>1. BatchInv /\ WindowInv
      BY <1>3, Zenon DEF IInv, IdsKept
    <2> QED
      BY <1>1, <1>3, <2>1, PushWindow, NextWindow, NextBatchInv, Zenon
  <1>4. ASSUME ~lapped' PROVE BatchInv' /\ ReleaseInv'
    <2>1. BatchInv /\ ReleaseInv
      BY <1>4, LappedStays, Zenon DEF IInv, IdsKept
    <2> QED
      BY <1>1, <1>4, <2>1, PushOrder, NextRelease, NextBatchInv, Zenon
  <1> QED
    BY <1>2, <1>3, <1>4, Zenon DEF IInv, IdsKept, WindowFits

(* The invariant holds in every reachable state, for batches of any        *)
(* length: ids that keep apart because the ring is small, or because of    *)
(* last_available_cmdid.                                                   *)
THEOREM Invariance == Spec => []IInv
  <1>1. IInv /\ [Next]_vars => IInv'
    BY NextIInv, Zenon
  <1> QED
    BY <1>1, InitIInv, PTL DEF Spec

(* Type correctness: no index leaves the ring and no id its 16 bits,       *)
(* whatever the interleaving and however long the batches.                 *)
THEOREM TypeCorrect == Spec => []TypeOK
  BY Invariance, PTL DEF IInv

(* Command ids in flight are never reused, through every wrap-around of    *)
(* the 16-bit counter in next_cmdid / reset_cmdid, unless the ids start    *)
(* over before anything was released (IdsKept).                            *)
THEOREM IdsAreUnique == Spec => []UniqueIds
  <1>1. IInv => UniqueIds
    <2> SUFFICES ASSUME IInv, IdsKept,
                        NEW c \in inflight, NEW d \in inflight, c[2] = d[2]
                 PROVE  c = d
      BY Zenon DEF UniqueIds
    <2>1. TypeOK /\ BatchInv
      BY Zenon DEF IInv
    <2>2. Matches(c[2]) = {c[1]} /\ Matches(d[2]) = {d[1]}
      BY <2>1, MatchIsOwner, Zenon
    <2>3. c = <<c[1], c[2]>> /\ d = <<d[1], d[2]>>
      BY <2>1 DEF TypeOK
    <2> QED
      BY <2>2, <2>3, Zenon
  <1> QED
    BY <1>1, Invariance, PTL

(* While IdsKept, update() credits every completion to the batch that      *)
(* issued it, and the asserts of _process_update_batch_info never fire.    *)
THEOREM CompletionsAreCounted ==
    Spec => [](CountsOwn /\ (IdsKept => AssertCounter))
  <1>1. IInv => CountsOwn /\ (IdsKept => AssertCounter)
    <2> SUFFICES ASSUME IInv, IdsKept, NEW i \in LiveSlots
                 PROVE  array[i].counter <= array[i].total
      BY Zenon DEF IInv, BatchInv, AssertCounter, CountsOwn
    <2>. USE DEF IInv, BatchInv
    <2>1. i \in Slots /\ array[i].counter \in Int /\ array[i].total \in Int
      BY LiveAge DEF TypeOK, BatchInfo, CmdIds
    <2>2. IsFiniteSet(Own(i))
      BY FS_Subset, Zenon DEF Own
    <2>3. Cardinality(Own(i)) \in Nat
      BY <2>2, FS_CardinalityType, Zenon
    <2>4. Unissued(i) \in Nat
      BY UnissuedCount, Zenon
    <2>5. array[i].counter + Cardinality(Own(i)) + Unissued(i) = array[i].total
      BY Zenon DEF AllCounted
    <2> QED
      BY <2>1, <2>3, <2>4, <2>5
  <1> QED
    BY <1>1, Invariance, PTL

(* While IdsKept, the pop loop never releases a batch the device works on. *)
THEOREM ReleaseIsSafe == Spec => []NoEarlyRelease
  <1>1. IInv => NoEarlyRelease
    BY Zenon DEF IInv, BatchInv, FlightInv, NoEarlyRelease
  <1> QED
    BY <1>1, Invariance, PTL

(* The id the issue loop is about to give out is not in flight. *)
LEMMA FreshId ==
    ASSUME TypeOK, BatchInv, pc = "issue", NEW c \in inflight
    PROVE  c[2] # alloc_cmdid
  <1>. USE DEF BatchInv
  <1>1. SUFFICES ASSUME c[2] = alloc_cmdid PROVE FALSE
    BY Zenon
  <1>2. LastSlot \in Matches(c[2])
    BY <1>1, Zenon DEF Matches, ProducerInv
  <1>3. c[1] = LastSlot
    BY <1>2, MatchIsOwner, Zenon
  <1>4. c[2] < alloc_cmdid /\ alloc_cmdid \in Int
    BY <1>3, AllocId DEF FlightInv, TypeOK
  <1> QED
    BY <1>1, <1>4

(* Every step of the batch manager is a step of AsyncIO or changes nothing *)
(* a client sees.                                                          *)
LEMMA StepRefines ==
    ASSUME TypeOK, BatchInv, [Next]_vars
    PROVE  [Client!Next]_clientVars
  <1>. DEFINE ids == {c[2] : c \in inflight}
              waiting == pc = "wait"
  <1>1. ASSUME inflight' = inflight, (pc' = "wait") <=> (pc = "wait")
        PROVE  UNCHANGED clientVars
    BY <1>1, Zenon DEF clientVars
  <1>2. CASE IssueCommand
    <2>1. PICK a \in CmdIds : a = alloc_cmdid
      BY AllocId DEF TypeOK, CmdIds
    <2>2. a \notin ids
      BY <1>2, <2>1, FreshId, Zenon DEF IssueCommand
    <2>3. ids' = ids \cup {a}
      <3>1. PICK e : e = <<LastSlot, a>>
        BY Zenon
      <3>2. inflight' = inflight \cup {e} /\ e[2] = a
        BY <1>2, <2>1, <3>1, Zenon DEF IssueCommand
      <3> QED
        BY <3>2, Zenon
    <2>4. pc # "wait" /\ pc' # "wait"
      BY <1>2, Zenon DEF IssueCommand
    <2>5. Client!Submit(a)
      BY <2>2, <2>3, <2>4, Zenon DEF Client!Submit
    <2> QED
      BY <2>1, <2>5, Zenon DEF Client!Next
  <1>3. ASSUME NEW c \in inflight, Update(c) PROVE Client!Next
    <2>1. c[2] \in CmdIds /\ c[2] \in ids
      BY Zenon DEF TypeOK
    <2>2. \A d \in inflight : d # c => d[2] # c[2]
      <3> SUFFICES ASSUME NEW d \in inflight, d[2] = c[2] PROVE d = c
        BY Zenon
      <3>1. Matches(c[2]) = {c[1]} /\ Matches(d[2]) = {d[1]}
        BY MatchIsOwner, Zenon
      <3>2. c = <<c[1], c[2]>> /\ d = <<d[1], d[2]>>
        BY DEF TypeOK
      <3> QED
        BY <3>1, <3>2, Zenon
    <2>3. ids' = ids \ {c[2]}
      BY <1>3, <2>2, Zenon DEF Update
    <2>4. UNCHANGED waiting
      BY <1>3, Zenon DEF Update, producer
    <2>5. Client!Complete(c[2])
      BY <2>1, <2>3, <2>4, Zenon DEF Client!Complete
    <2> QED
      BY <2>1, <2>5, Zenon DEF Client!Next
  <1>4. CASE BeginWait
    BY <1>4, Zenon DEF BeginWait, Client!Next, Client!Wait
  <1>5. CASE EndWait
    <2>1. LiveSlots = {}
      BY <1>5, ConstantsAssumption DEF EndWait, wasEmpty, LiveSlots, TypeOK,
         Slots
    <2>2. inflight = {}
      BY <2>1, Zenon DEF BatchInv, FlightInv
    <2> QED
      BY <1>5, <2>2, Zenon DEF EndWait, Client!Next, Client!Return
  <1>6. ASSUME NEW length \in 1 .. MaxBatch, BeginBatch(length)
        PROVE  UNCHANGED clientVars
    BY <1>1, <1>6, Zenon DEF BeginBatch
  <1>7. CASE ResetCmdid \/ CheckAvailable \/ PushBatch
    <2>1. inflight' = inflight /\ pc # "wait" /\ pc' # "wait"
      BY <1>7, Zenon DEF ResetCmdid, CheckAvailable, PushBatch
    <2> QED
      BY <1>1, <2>1, Zenon
  <1>8. CASE Spin \/ PopBatch \/ StoreAvailable \/ UNCHANGED vars
    BY <1>1, <1>8, Zenon DEF Spin, PopBatch, StoreAvailable, producer, vars
  <1> QED
    BY <1>2, <1>3, <1>4, <1>5, <1>6, <1>7, <1>8, Zenon DEF Next, Produce, Consume

(* The batch manager implements AsyncIO, until ids start over before the   *)
(* first release: an id is submitted only when it is free, completes once, *)
(* and wait_io_completion returns only when no command is outstanding.     *)
THEOREM ImplementsAsyncIO == Spec => ClientSpec
  <1>1. Init => Client!Init
    BY Zenon DEF Init, Client!Init
  <1>2. IInv /\ IInv' /\ [Next]_vars => [Client!Next \/ ~IdsKept']_clientVars
    <2>1. lapped => (lapped' \/ ~[Next]_vars)
      BY LappedStays, Zenon
    <2> QED
      BY <2>1, StepRefines, Zenon DEF IInv, IdsKept, WindowFits
  <1> QED
    BY <1>1, <1>2, Invariance, PTL DEF Spec, ClientSpec

(* With ids enough for the ring there is no exception: for 256 records and *)
(* 65535 ids, batches of up to 256 commands.                               *)
THEOREM RingBoundsIds ==
    ASSUME WindowFits
    PROVE  Spec => Client!Spec
  <1>1. Init => Client!Init
    BY Zenon DEF Init, Client!Init
  <1>2. IInv /\ [Next]_vars => [Client!Next]_clientVars
    BY StepRefines, Zenon DEF IInv, IdsKept
  <1> QED
    BY <1>1, <1>2, Invariance, PTL DEF Spec, Client!Spec, clientVars

-----------------------------------------------------------------------------
(* With no batch in the ring and the pop loop at rest every spin loop of   *)
(* issue_async_io_batch finds its condition true at once, unless the range *)
(* is of more than half of the ids.                                        *)
LEMMA IdleNeverBlocks == ASSUME IInv PROVE BlockedOnlyByWork
  <1>. USE ConstantsAssumption
  <1> SUFFICES ASSUME IdsKept, wasEmpty, cqpc = "idle", ~TooLong
               PROVE  /\ pc = "reset" => can_reset_cmdid
                      /\ pc = "avail" => is_available(bi.start_cmdid, bi.end_cmdid)
                      /\ increment(tail) # head
    BY Zenon DEF BlockedOnlyByWork
  <1>0. /\ TypeOK /\ ProducerInv
        /\ LastEnd = last_available_cmdid /\ cmdid_counter \in CmdIds
        /\ last_available_cmdid \in CmdIds
    BY Zenon DEF IInv, BatchInv, LastEnd, TypeOK
  <1>1. pc = "reset" => can_reset_cmdid
    BY <1>0 DEF ProducerInv, can_reset_cmdid, CmdIds
  <1>2. ASSUME pc = "avail" PROVE is_available(bi.start_cmdid, bi.end_cmdid)
    <2>1. /\ bi.start_cmdid \in 1 .. MaxCmdId /\ bi.total \in 1 .. MaxBatch
          /\ bi.end_cmdid = bi.start_cmdid + bi.total - 1
          /\ bi.start_cmdid = IF cmdid_counter = MaxCmdId THEN 1
                                                        ELSE cmdid_counter + 1
      BY <1>0, <1>2, AllocId DEF ProducerInv, RangeOK, TypeOK, BatchInfo, CmdIds
    <2>2. CASE LastEnd = cmdid_counter
      BY <1>0, <2>1, <2>2 DEF is_available, CmdIds
    <2>3. CASE cmdid_counter = 0 /\ LastEnd + bi.total > MaxCmdId
      BY <1>0, <1>2, <2>1, <2>3 DEF is_available, CmdIds, TooLong
    <2> QED
      BY <1>0, <1>2, <2>2, <2>3 DEF ProducerInv
  <1>3. increment(tail) # head
    BY <1>0 DEF TypeOK, wasEmpty, increment, Slots
  <1> QED
    BY <1>1, <1>2, <1>3, Zenon

(* The producer spins in reset_cmdid, in the availability check or in push *)
(* only while a batch is still to be completed or released, unless with a  *)
(* batch of more than half of the ids.                                     *)
THEOREM IdleDeviceNeverBlocks == Spec => []BlockedOnlyByWork
  <1>1. IInv => BlockedOnlyByWork
    BY IdleNeverBlocks, Zenon
  <1> QED
    BY <1>1, Invariance, PTL
=============================================================================
