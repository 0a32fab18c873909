------------------------------- MODULE NVMeIO -------------------------------
(***************************************************************************)
(* The I/O path of one NVMe queue: the batch manager of BatchManager on    *)
(* top of the queue pair of QueuePair, as NVME_IO_queue and CQ_thread put  *)
(* them together.  The producer thread runs issue_async_io_batch and       *)
(* wait_io_completion; each turn of its issue loop takes a command id and  *)
(* a submission slot, writes the command and rings the doorbell.  The CQ   *)
(* thread passes each completion it reads to the batch manager before it   *)
(* rings the completion doorbell.                                          *)
(***************************************************************************)
EXTENDS BatchManager, QueuePair

(* A queue entry carries the 16-bit id; the ring slot is the history value *)
(* of BatchManager and nothing the queue pair does depends on it           *)
AllCmds == Slots \X CmdIds
NullCmd == <<NoOwner, 0>>

ASSUME CommandAssumption == Cmd = AllCmds /\ NoCmd = NullCmd

ioVars == <<vars, qpVars>>

-----------------------------------------------------------------------------
IOInit == Init /\ QPInit

(* A step of the batch code that leaves the queues alone *)
Call ==
    /\ subpc = "none"
    /\ \/ \E length \in 1 .. MaxBatch : BeginBatch(length)
       \/ ResetCmdid \/ CheckAvailable \/ PushBatch \/ BeginWait \/ EndWait \/ Spin
    /\ UNCHANGED qpVars

(* issue_async_read and issue_async_write: id and slot, then Host steps *)
IssueIO == IssueCommand /\ NextSubSlot(<<LastSlot, alloc_cmdid>>)

(* update_sq_head, then update_batch_manager up to its pop loop *)
CompleteIO == UpdateSqHead /\ Update(comp_cmd[ccs].cmd)

ReleaseBatch == (PopBatch \/ StoreAvailable) /\ UNCHANGED qpVars

CqOther ==
    /\ cqpc = "idle"
    /\ \/ WaitIrq \/ ClearSignal \/ GetNextCompletion \/ DrainEnds
       \/ RingCompletion
    /\ UNCHANGED vars

HostIO   == Host /\ UNCHANGED vars
DeviceIO == Device /\ UNCHANGED vars
IrqIO    == IrqHandler /\ UNCHANGED vars

IONext == Call \/ IssueIO \/ HostIO \/ CompleteIO \/ ReleaseBatch \/ CqOther
             \/ DeviceIO \/ IrqIO

IOSpec == IOInit /\ [][IONext]_ioVars

CqThread == CompleteIO \/ ReleaseBatch \/ CqOther

(* As for the parts: every loop of the producer retries, the CQ thread     *)
(* runs, the controller serves what it is given, interrupts arrive.        *)
IOFairness ==
    /\ WF_ioVars(subpc = "none" /\ ResetCmdid /\ UNCHANGED qpVars)
    /\ WF_ioVars(subpc = "none" /\ CheckAvailable /\ UNCHANGED qpVars)
    /\ WF_ioVars(subpc = "none" /\ PushBatch /\ UNCHANGED qpVars)
    /\ WF_ioVars(subpc = "none" /\ EndWait /\ UNCHANGED qpVars)
    /\ WF_ioVars(IssueIO) /\ WF_ioVars(HostIO)
    /\ WF_ioVars(CqThread)
    /\ WF_ioVars(DeviceIO) /\ WF_ioVars(IrqIO)

IOFairSpec == IOSpec /\ IOFairness

-----------------------------------------------------------------------------
(***************************************************************************)
(* Properties.                                                             *)
(***************************************************************************)

(* The batch manager's idea of what is in flight is what the queues and    *)
(* the controller really hold: no command is lost or completed twice       *)
(* between the issue loop and update_batch_manager.  With it, ClientSpec   *)
(* of BatchManager says that the whole path implements AsyncIO.            *)
SameCommands == inflight = Outstanding

(* The rings under the batch manager keep every command in one place, with *)
(* their indices and the heads that completions carry in order, and the    *)
(* host's head behind the controller's (QPInv, HeadLags).                  *)
QueueInv == QPInv /\ HeadLags

(* The I/O path implements the asynchronous command service twice over: as *)
(* its client sees it through the batch manager, and the queue pair as the *)
(* batch manager sees it.                                                  *)
Implements ==
    /\ ClientSpec
    /\ Service!Init /\ [][Service!Next \/ ~IdsKept']_<<Outstanding, FALSE>>

(* What the path runs: the batch manager, and the queue pair as QueuePair  *)
(* has it for as long as ids are kept apart                                *)
Parts == Spec /\ QPInit /\ [][QPNext \/ ~IdsKept']_qpVars

(* Every call on the path returns: neither the spin on command ids, nor    *)
(* the ones on the batch ring and the submission ring wait for ever.  The  *)
(* exceptions are those of CallsEnd, and a CQ thread asleep on completions *)
(* that came after their interrupt; the next interrupt wakes it.           *)
IOCallsEnd == (pc # "idle") ~> \/ pc = "idle" \/ ~IdsKept \/ TooLong
                               \/ Asleep /\ InComp # {}

(* The inductive invariant of the two parts together (NVMeIOProofs) *)
IOInv == IInv /\ (IdsKept => QPInv /\ SameCommands)
=============================================================================
