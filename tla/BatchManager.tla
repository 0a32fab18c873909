---------------------------- MODULE BatchManager ----------------------------
(***************************************************************************)
(* Command identifiers and batch records of one NVMe I/O queue             *)
(* (drivers/nvme-ssd: nvme_batch_manager.h, nvme_queue.h and the issue     *)
(* path of nvme_queue.cc).                                                 *)
(*                                                                         *)
(* Two threads share this state.  The producer issues batches: it reserves *)
(* a range of contiguous 16-bit command ids, pushes a batch record into a  *)
(* ring and issues one command per id.  The CQ thread takes completions:   *)
(* it finds the record whose range holds the id, counts it, and pops every *)
(* finished record at the head of the ring, publishing the last released   *)
(* id.  The submission and completion queues between the two are           *)
(* abstracted to the set of commands in flight, completed in any order;    *)
(* QueuePair models them and NVMeIO puts the two together.                 *)
(*                                                                         *)
(* A command is <<owner, cmdid>>.  The owner is the ring slot of its batch *)
(* and is a history value the code does not have: it tells which batch a   *)
(* completion really belongs to.                                           *)
(***************************************************************************)
EXTENDS Integers, FiniteSets

CONSTANTS
    RingSize,     \* BATCH_INFO_BUFFER_SIZE (256)
    MaxCmdId,     \* largest command id, 2^16 - 1
    MaxBatch      \* longest batch a client submits; the code asserts < 0xffff

ASSUME ConstantsAssumption ==
    /\ RingSize \in Nat /\ RingSize > 1
    /\ MaxCmdId \in Nat
    /\ MaxBatch \in Nat /\ MaxBatch > 0 /\ MaxBatch < MaxCmdId

VARIABLES
    cmdid_counter,          \* last id allocated; written by the producer only
    last_available_cmdid,   \* published by the CQ thread, read by the producer
    array, head, tail,      \* the ring of batch records
    pc,                     \* where the producer is in its call
    bi,                     \* the producer's batch record under construction
    inflight,               \* commands issued and not yet seen by the CQ thread
    lapped,                 \* history: ids started over before the first release
    cqpc, cqtail, popped    \* CQ thread: position, its copy of tail, popped end

vars == <<cmdid_counter, last_available_cmdid, array, head, tail, pc, bi,
          inflight, lapped, cqpc, cqtail, popped>>

producer == <<cmdid_counter, tail, pc, bi, lapped>>
consumer == <<last_available_cmdid, head, cqpc, cqtail, popped>>

Slots == 0 .. RingSize - 1
CmdIds == 0 .. MaxCmdId
NoOwner == RingSize     \* owner of a command no batch record stands for

BatchInfo == [start_cmdid: CmdIds, end_cmdid: CmdIds, total: 0 .. MaxBatch,
              counter: CmdIds, complete: BOOLEAN]

ZeroInfo == [start_cmdid |-> 0, end_cmdid |-> 0, total |-> 0, counter |-> 0,
             complete |-> FALSE]

-----------------------------------------------------------------------------
(* Ring arithmetic *)

(* Mutant: no wrap-around *)
increment_nowrap(i) == i + 1

increment(i) == IF i + 1 = RingSize THEN 0 ELSE i + 1

(* Mutant: compares with the CQ thread's copy of tail *)
wasEmpty_stale == head = cqtail

wasEmpty == head = tail

(* The slots a scan from head to tail visits *)
LiveSlots == IF head <= tail THEN head .. tail - 1
                             ELSE Slots \ (tail .. head - 1)

(* Position of slot i in such a scan *)
ScanPos(i) == IF i >= head THEN i - head ELSE i + RingSize - head

-----------------------------------------------------------------------------
(* 16-bit command id arithmetic; id 0 is never handed out *)

uint16(n) == IF n > MaxCmdId THEN n - (MaxCmdId + 1) ELSE n

alloc_cmdid == LET n == uint16(cmdid_counter + 1)
               IN  IF n = 0 THEN 1 ELSE n

(* next_cmdid(): the id alloc_cmdid would return, not allocated yet *)
next_cmdid == alloc_cmdid

(* next_cmdid(length): the id of the last of length commands *)
next_cmdid_at(length) ==
    LET n == uint16(cmdid_counter + length)
    IN  IF n = 0 \/ n < cmdid_counter THEN n + 1 ELSE n

(* Mutant: only the first id of the range is tested *)
is_available_first(first, last) == first # last_available_cmdid

is_available(first, last) ==
    \/ first < last_available_cmdid /\ last < last_available_cmdid
    \/ first > last_available_cmdid /\ last > last_available_cmdid

(* Mutant: a bound off by one *)
can_reset_strict == last_available_cmdid < cmdid_counter

can_reset_cmdid == last_available_cmdid <= cmdid_counter

(* The slot of the batch pushed last *)
LastSlot == IF tail = 0 THEN RingSize - 1 ELSE tail - 1

(* The last id of that batch, as the ring or the pop loop has it: 0 until  *)
(* a batch has been pushed                                                 *)
LastEnd == IF ~wasEmpty THEN array[LastSlot].end_cmdid
           ELSE IF cqpc = "store" THEN popped ELSE last_available_cmdid

-----------------------------------------------------------------------------
Init ==
    /\ cmdid_counter = 0
    /\ last_available_cmdid = 0
    /\ array = [i \in Slots |-> ZeroInfo]
    /\ head = 0 /\ tail = 0
    /\ pc = "idle" /\ bi = ZeroInfo
    /\ inflight = {} /\ lapped = FALSE
    /\ cqpc = "idle" /\ cqtail = 0 /\ popped = 0

(***************************************************************************)
(* The producer: issue_async_io_batch, one action per access to shared     *)
(* state.                                                                  *)
(***************************************************************************)

NewBatch(first, last, length) ==
    [start_cmdid |-> first, end_cmdid |-> last, total |-> length,
     counter |-> 0, complete |-> FALSE]

(* Reserve the range; a range that wraps must restart the ids first *)
BeginBatch(length) ==
    /\ pc = "idle"
    /\ bi' = NewBatch(next_cmdid, next_cmdid_at(length), length)
    /\ pc' = IF next_cmdid_at(length) < next_cmdid THEN "reset" ELSE "avail"
    /\ UNCHANGED <<cmdid_counter, array, tail, inflight, lapped, consumer>>

(* reset_cmdid, then next_cmdid() and next_cmdid(length) from counter 0 *)
ResetCmdid ==
    /\ pc = "reset"
    /\ can_reset_cmdid
    /\ cmdid_counter' = 0
    /\ bi' = NewBatch(1, bi.total, bi.total)
    /\ pc' = "avail"
    /\ UNCHANGED <<array, tail, inflight, lapped, consumer>>

(* Until the first release last_available_cmdid is 0, which is no id, and  *)
(* every range passes, also one that starts over at 1                      *)
CheckAvailable ==
    /\ pc = "avail"
    /\ is_available(bi.start_cmdid, bi.end_cmdid)
    /\ pc' = "push"
    /\ lapped' = (\/ lapped
                  \/ /\ bi.start_cmdid = 1 /\ last_available_cmdid = 0
                     /\ LastEnd # 0)
    /\ UNCHANGED <<cmdid_counter, array, tail, bi, inflight, consumer>>

PushBatch ==
    /\ pc = "push"
    /\ increment(tail) # head
    /\ array' = [array EXCEPT ![tail] = bi]
    /\ tail' = increment(tail)
    /\ pc' = "issue"
    /\ UNCHANGED <<cmdid_counter, bi, inflight, lapped, consumer>>

(* One turn of the issue loop: issue_async_read or issue_async_write *)
IssueCommand ==
    /\ pc = "issue"
    /\ cmdid_counter' = alloc_cmdid
    /\ inflight' = inflight \cup {<<LastSlot, alloc_cmdid>>}
    /\ pc' = IF alloc_cmdid = bi.end_cmdid THEN "idle" ELSE "issue"
    /\ UNCHANGED <<array, tail, bi, lapped, consumer>>

(* wait_io_completion: spin until the ring of batches is empty *)
BeginWait ==
    /\ pc = "idle"
    /\ pc' = "wait"
    /\ UNCHANGED <<cmdid_counter, array, tail, bi, inflight, lapped, consumer>>

EndWait ==
    /\ pc = "wait"
    /\ wasEmpty
    /\ pc' = "idle"
    /\ UNCHANGED <<cmdid_counter, array, tail, bi, inflight, lapped, consumer>>

(* One more turn of the loop the producer is in (NVME_LOOP) *)
Spin ==
    /\ \/ pc = "reset" /\ ~can_reset_cmdid
       \/ pc = "avail" /\ ~is_available(bi.start_cmdid, bi.end_cmdid)
       \/ pc = "push" /\ increment(tail) = head
       \/ pc = "wait" /\ ~wasEmpty
    /\ UNCHANGED vars

(* issue_flush, and block_async_read/write called on their own: a command  *)
(* that takes an id without a check and that no batch record covers        *)
IssueUnrecorded ==
    /\ pc = "idle"
    /\ cmdid_counter' = alloc_cmdid
    /\ inflight' = inflight \cup {<<NoOwner, alloc_cmdid>>}
    /\ UNCHANGED <<array, tail, pc, bi, lapped, consumer>>

(***************************************************************************)
(* The CQ thread: update(cmdid) for one completion.                        *)
(***************************************************************************)

(* Mutant: off by one *)
is_complete_early(b) == b.counter + 1 >= b.total

is_complete(b) == b.counter = b.total

(* Mutant: the first id of a batch is not matched *)
Matches_open(cmdid) == {i \in LiveSlots : /\ cmdid > array[i].start_cmdid
                                          /\ cmdid <= array[i].end_cmdid}

(* The records whose range holds cmdid; the scan takes the first of them *)
Matches(cmdid) == {i \in LiveSlots : /\ cmdid >= array[i].start_cmdid
                                     /\ cmdid <= array[i].end_cmdid}

FirstMatch(cmdid, i) ==
    /\ i \in Matches(cmdid)
    /\ \A j \in Matches(cmdid) : ScanPos(i) <= ScanPos(j)

(* _process_update_batch_info up to the pop loop *)
CountCompletion(idx) ==
    LET counted == [array[idx] EXCEPT !.counter = uint16(@ + 1)]
        done    == is_complete(counted)
    IN  /\ array' = [array EXCEPT ![idx] =
                        [counted EXCEPT !.complete = @ \/ done]]
        /\ cqpc' = IF done /\ idx = head THEN "pop" ELSE "idle"

(* A completion no record covers (a flush) is dropped *)
Update(c) ==
    /\ cqpc = "idle"
    /\ c \in inflight
    /\ inflight' = inflight \ {c}
    /\ cqtail' = tail
    /\ \/ Matches(c[2]) = {} /\ UNCHANGED <<array, cqpc>>
       \/ \E idx \in Slots : FirstMatch(c[2], idx) /\ CountCompletion(idx)
    /\ UNCHANGED <<last_available_cmdid, head, popped, producer>>

(* One turn of the pop loop is two stores the producer can come between *)
PopBatch ==
    /\ cqpc = "pop"
    /\ popped' = array[head].end_cmdid
    /\ head' = increment(head)
    /\ cqpc' = "store"
    /\ UNCHANGED <<last_available_cmdid, array, inflight, cqtail, producer>>

(* Mutant: pops a single batch where the code loops *)
StoreAvailable_once ==
    /\ cqpc = "store"
    /\ last_available_cmdid' = popped
    /\ cqpc' = "idle"
    /\ UNCHANGED <<array, head, inflight, cqtail, popped, producer>>

StoreAvailable ==
    /\ cqpc = "store"
    /\ last_available_cmdid' = popped
    /\ cqpc' = IF head # cqtail /\ is_complete(array[head])
               THEN "pop" ELSE "idle"
    /\ UNCHANGED <<array, head, inflight, cqtail, popped, producer>>

-----------------------------------------------------------------------------
Produce ==
    \/ \E length \in 1 .. MaxBatch : BeginBatch(length)
    \/ ResetCmdid \/ CheckAvailable \/ PushBatch \/ IssueCommand
    \/ BeginWait \/ EndWait \/ Spin

Consume == (\E c \in inflight : Update(c)) \/ PopBatch \/ StoreAvailable

Next == Produce \/ Consume

Spec == Init /\ [][Next]_vars

(* The producer's loops retry for ever and the CQ thread is never stopped, *)
(* so a step that stays enabled is taken; a new call is the client's choice*)
Fairness ==
    /\ WF_vars(ResetCmdid) /\ WF_vars(CheckAvailable) /\ WF_vars(PushBatch)
    /\ WF_vars(IssueCommand) /\ WF_vars(EndWait)
    /\ WF_vars(Consume)

FairSpec == Spec /\ Fairness

(* The same with clients that also issue commands outside any batch *)
MixedNext == Next \/ IssueUnrecorded

MixedSpec == Init /\ [][MixedNext]_vars

-----------------------------------------------------------------------------
(***************************************************************************)
(* Properties.                                                             *)
(*                                                                         *)
(* issue_async_io_batch asserts a length below 0xffff.  If a batch is      *)
(* long enough for the ids to start over before anything was released,     *)
(* is_available lets ids through that are in use (see CheckAvailable).     *)
(* Until that happens the properties hold for every length; and where      *)
(* WindowFits it may happen and does no harm.                              *)
(***************************************************************************)

(* Ids enough for the ring: with 256 records and 65535 ids, batches of up  *)
(* to 256 commands                                                         *)
WindowFits == RingSize * MaxBatch <= MaxCmdId + 1

IdsKept == WindowFits \/ ~lapped

TypeOK ==
    /\ cmdid_counter \in CmdIds
    /\ last_available_cmdid \in CmdIds
    /\ array \in [Slots -> BatchInfo]
    /\ head \in Slots /\ tail \in Slots
    /\ pc \in {"idle", "reset", "avail", "push", "issue", "wait"}
    /\ bi \in BatchInfo
    /\ inflight \in SUBSET ((Slots \cup {NoOwner}) \X CmdIds)
    /\ lapped \in BOOLEAN
    /\ cqpc \in {"idle", "pop", "store"}
    /\ cqtail \in Slots /\ popped \in CmdIds

Own(i) == {c \in inflight : c[1] = i}

(* Commands of the batch in slot i that the issue loop has still to issue *)
Unissued(i) == IF pc = "issue" /\ i = LastSlot
               THEN bi.end_cmdid - alloc_cmdid + 1 ELSE 0

(* No two commands in flight carry the same command id, across every       *)
(* wrap-around of the 16-bit counter: what is_available and                *)
(* can_reset_cmdid are there for.                                          *)
UniqueIds == IdsKept => \A c, d \in inflight : c[2] = d[2] => c = d

AllCounted == \A i \in LiveSlots :
    array[i].counter + Cardinality(Own(i)) + Unissued(i) = array[i].total

(* The counter of a batch record counts completions of that batch and of   *)
(* no other: with the commands in flight and the ones to be issued it      *)
(* always adds up to the batch length, so update never credits a           *)
(* completion to the wrong record and its asserts never fire.              *)
CountsOwn == IdsKept => AllCounted

(* A record leaves the ring only when every command of its batch has       *)
(* completed: the pop loop never releases ids the device still uses.       *)
NoEarlyRelease == IdsKept => \A c \in inflight : c[1] \in LiveSlots

(* A range of more than half of the ids, just started over, can contain    *)
(* the id released last; is_available then never accepts it                *)
TooLong == pc = "avail" /\ cmdid_counter = 0 /\ 2 * bi.total > MaxCmdId

(* The producer spins in reset_cmdid, in the availability check or in push *)
(* only while a batch is still to be completed or released; an idle device *)
(* never blocks it, unless with a batch of more than half of the ids.      *)
BlockedOnlyByWork ==
    IdsKept /\ (\/ pc = "reset" /\ ~can_reset_cmdid
                \/ pc = "avail" /\ ~is_available(bi.start_cmdid, bi.end_cmdid)
                \/ pc = "push" /\ increment(tail) = head)
    => ~wasEmpty \/ cqpc # "idle" \/ TooLong

(* Every call of issue_async_io_batch and of wait_io_completion returns:    *)
(* no spin loop of the producer waits for something that only the spinning *)
(* thread would do, but for the two cases above.                           *)
CallsEnd == (pc # "idle") ~> (pc = "idle" \/ ~IdsKept \/ TooLong)

(* The batch interface implements AsyncIO over command ids: an id is never *)
(* submitted while outstanding, completes once, and wait_io_completion     *)
(* returns only when nothing is outstanding.                               *)
Client == INSTANCE AsyncIO WITH Cmd <- CmdIds,
                                outstanding <- {c[2] : c \in inflight},
                                waiting <- (pc = "wait")
clientVars == <<{c[2] : c \in inflight}, pc = "wait">>
ClientSpec == Client!Init /\ [][Client!Next \/ ~IdsKept']_clientVars

(* assert(bi.counter <= bi.total) in _process_update_batch_info.           *)
AssertCounter == \A i \in LiveSlots : array[i].counter <= array[i].total

-----------------------------------------------------------------------------
(***************************************************************************)
(* The inductive invariant (proved in BatchManagerProofs).                 *)
(***************************************************************************)

RangeOK(b) ==
    /\ 1 <= b.start_cmdid /\ b.start_cmdid <= b.end_cmdid
    /\ b.total = b.end_cmdid - b.start_cmdid + 1

Apart(b, d) == b.end_cmdid < d.start_cmdid \/ d.end_cmdid < b.start_cmdid

RecordsInv ==
    /\ \A i \in LiveSlots : RangeOK(array[i])
    /\ \A i, j \in LiveSlots : i # j => Apart(array[i], array[j])

(* The record under construction, or being issued.  Between batches the    *)
(* last id of the newest batch is the counter, or was when the ids started *)
(* over: what the spin loops wait for is last_available_cmdid to catch up  *)
ProducerInv ==
    /\ pc \in {"idle", "reset", "wait"} => LastEnd = cmdid_counter
    /\ pc = "reset" => /\ bi.total >= 1 /\ bi.counter = 0
                       /\ cmdid_counter + bi.total > MaxCmdId
    /\ pc \in {"avail", "push"} =>
          /\ RangeOK(bi) /\ bi.counter = 0
          /\ bi.start_cmdid = alloc_cmdid
          /\ \/ LastEnd = cmdid_counter
             \/ cmdid_counter = 0 /\ LastEnd + bi.total > MaxCmdId
    /\ pc = "issue" =>
          /\ LastSlot \in LiveSlots
          /\ array[LastSlot].start_cmdid = bi.start_cmdid
          /\ array[LastSlot].end_cmdid = bi.end_cmdid
          /\ bi.start_cmdid <= alloc_cmdid /\ alloc_cmdid <= bi.end_cmdid

(* A command in flight belongs to a live batch and has an id of its range, *)
(* one the issue loop has already given out                                *)
FlightInv == \A c \in inflight :
    /\ c[1] \in LiveSlots
    /\ array[c[1]].start_cmdid <= c[2] /\ c[2] <= array[c[1]].end_cmdid
    /\ pc = "issue" /\ c[1] = LastSlot => c[2] < alloc_cmdid

(* The pop loop stays within the records it saw, and pops finished ones *)
ConsumerInv ==
    /\ cqpc # "idle" => ScanPos(cqtail) <= ScanPos(tail)
    /\ cqpc = "pop" => head # cqtail /\ is_complete(array[head])

(* The live records have ranges apart; the record being reserved or        *)
(* issued, the commands in flight and the pop loop agree with them, and    *)
(* every completion is counted where it belongs                            *)
BatchInv == /\ RecordsInv /\ ProducerInv /\ FlightInv /\ ConsumerInv
            /\ AllCounted

(* That a new range is apart from the live ones has two reasons.  One is   *)
(* the size of the ring.  How many batches ago was the record in slot i    *)
(* pushed, the last being 1?                                               *)
Age(i) == IF i < tail THEN tail - i ELSE tail + RingSize - i

(* The ids from the start of a batch of age k up to the last id reserved,  *)
(* going round at most once, are at most k batches and one restart         *)
InWindow(b, k) ==
    \/ /\ b.end_cmdid <= LastEnd
       /\ LastEnd - b.start_cmdid + 1 <= k * MaxBatch
    \/ /\ b.start_cmdid > LastEnd
       /\ LastEnd + MaxCmdId - b.start_cmdid + 1 < k * MaxBatch + MaxBatch

WindowInv == \A i \in LiveSlots : InWindow(array[i], Age(i))

(* The other is last_available_cmdid, once it is an id.  Counted from it,  *)
(* id n is the Pos(n)th; the batches lie in the order of the ring, the one *)
(* whose end the pop loop is about to store first, the new one last, and   *)
(* none reaches round to last_available_cmdid                              *)
Pos(n) == IF n > last_available_cmdid THEN n - last_available_cmdid
                                      ELSE n - last_available_cmdid + MaxCmdId

Ahead(b) == /\ Pos(b.start_cmdid) <= Pos(b.end_cmdid)
            /\ b.end_cmdid # last_available_cmdid

RingOrder ==
    /\ \A i \in LiveSlots : Ahead(array[i])
    /\ \A i, j \in LiveSlots : ScanPos(i) < ScanPos(j) =>
          Pos(array[i].end_cmdid) < Pos(array[j].start_cmdid)
    /\ cqpc = "store" =>
          /\ 1 <= popped /\ popped # last_available_cmdid
          /\ \A i \in LiveSlots : Pos(popped) < Pos(array[i].start_cmdid)

ReleaseInv ==
    /\ RingOrder
    /\ pc = "avail" /\ bi.start_cmdid = 1 /\ LastEnd # 0 =>
          last_available_cmdid <= LastEnd
    /\ pc = "push" =>
          /\ Ahead(bi)
          /\ \A i \in LiveSlots : Pos(array[i].end_cmdid) < Pos(bi.start_cmdid)
          /\ cqpc = "store" => Pos(popped) < Pos(bi.start_cmdid)

IInv == /\ TypeOK /\ IsFiniteSet(inflight)
        /\ IdsKept => BatchInv
        /\ WindowFits => WindowInv
        /\ ~lapped => ReleaseInv
=============================================================================
