----------------------------- MODULE AdminQueue -----------------------------
(***************************************************************************)
(* The NVMe admin queue (drivers/nvme-ssd: NVME_admin_queue and            *)
(* Command_admin_base).  Commands are issued one at a time: submit, wait   *)
(* for the interrupt, poll the completion slot at cq_head for the command  *)
(* id, take the result, ring the completion doorbell, and for the commands *)
(* that create a queue look at the status.                                 *)
(*                                                                         *)
(* The controller is external.  As the note in check_command_completion    *)
(* says, its interrupt may come before the completion entry is visible.    *)
(***************************************************************************)
EXTENDS Integers

CONSTANTS
    QueueLen,     \* Admin_queue_len (64)
    MaxCmdId,     \* largest command id, 2^16 - 1
    Word,         \* result words and status codes; 0 is a member
    Kind          \* "create": create_io_*_queue; "plain": any other command

ASSUME AdminAssumption ==
    /\ QueueLen \in Nat /\ QueueLen > 2
    /\ MaxCmdId \in Nat /\ MaxCmdId >= QueueLen
    /\ Word \subseteq Nat /\ 0 \in Word
    /\ Kind \subseteq {"create", "plain"}

VARIABLES
    cmdid_counter,
    sub_cmd, sq_tail, sq_head, sq_db,      \* submission ring of command ids
    comp_cmd, cq_head, cq_phase, cq_db,    \* completion ring
    pc, kind, cid,                         \* the host and its command
    result, status,                        \* what the host has read of it
    signalled,                             \* interrupt flag in the kernel
    dev, dev_sqhd, dev_cqtail, dev_phase,  \* the controller
    reply                                  \* its last reply (history)

hostVars == <<cmdid_counter, sub_cmd, sq_tail, sq_head, sq_db, cq_head,
              cq_phase, cq_db, pc, kind, cid, result, status>>
devVars  == <<dev, dev_sqhd, dev_cqtail, dev_phase, reply>>
vars     == <<hostVars, comp_cmd, signalled, devVars>>

Index   == 0 .. QueueLen - 1
CmdIds  == 0 .. MaxCmdId
Entry   == [command_id: CmdIds, result: Word, status: Word, phase_tag: 0 .. 1]
Cleared == [command_id |-> 0, result |-> 0, status |-> 0, phase_tag |-> 0]

inc(i) == IF i + 1 = QueueLen THEN 0 ELSE i + 1

alloc_cmdid == IF cmdid_counter = MaxCmdId THEN 1 ELSE cmdid_counter + 1

-----------------------------------------------------------------------------
Init ==
    /\ cmdid_counter = 0
    /\ sub_cmd = [i \in Index |-> 0]
    /\ sq_tail = 0 /\ sq_head = 0 /\ sq_db = 0
    /\ comp_cmd = [i \in Index |-> Cleared]
    /\ cq_head = 0 /\ cq_phase = 1 /\ cq_db = 0
    /\ pc = "idle" /\ kind \in Kind /\ cid = 0 /\ result = 0 /\ status = 0
    /\ signalled = FALSE
    /\ dev = {} /\ dev_sqhd = 0 /\ dev_cqtail = 0 /\ dev_phase = 1
    /\ reply = Cleared

(* The command constructor (next_sub_slot spins while the ring is full)    *)
(* and ring_submission_doorbell                                            *)
Submit(k) ==
    /\ pc = "idle"
    /\ inc(sq_tail) # sq_head
    /\ cmdid_counter' = alloc_cmdid
    /\ kind' = k
    /\ cid' = alloc_cmdid
    /\ sub_cmd' = [sub_cmd EXCEPT ![sq_tail] = alloc_cmdid]
    /\ sq_tail' = inc(sq_tail)
    /\ sq_db' = inc(sq_tail)
    /\ pc' = "irq"
    /\ UNCHANGED <<sq_head, cq_head, cq_phase, cq_db, result, status, comp_cmd,
                   signalled, devVars>>

(* Mutant: the interrupt flag stays set *)
WaitIrq_noclear ==
    /\ pc = "irq"
    /\ signalled
    /\ pc' = "poll"
    /\ UNCHANGED <<cmdid_counter, sub_cmd, sq_tail, sq_head, sq_db, cq_head,
                   cq_phase, cq_db, kind, cid, result, status, comp_cmd,
                   signalled, devVars>>

(* wait_for_msix_irq *)
WaitIrq ==
    /\ pc = "irq"
    /\ signalled
    /\ signalled' = FALSE
    /\ pc' = "poll"
    /\ UNCHANGED <<cmdid_counter, sub_cmd, sq_tail, sq_head, sq_db, cq_head,
                   cq_phase, cq_db, kind, cid, result, status, comp_cmd,
                   devVars>>

(* One turn of the polling loop of check_command_completion *)
PollAgain ==
    /\ pc = "poll"
    /\ comp_cmd[cq_head].command_id # cid
    /\ UNCHANGED vars

(* The loop is over.  A wrong phase makes the check return E_FAIL with the *)
(* slot as it is                                                           *)
PhaseOK == comp_cmd[cq_head].phase_tag = cq_phase

check_command_completion ==
    [comp_cmd EXCEPT ![cq_head] = IF PhaseOK THEN Cleared ELSE @]

(* get_result: the check, whose return value is not looked at, and then    *)
(* the result word of the slot at cq_head                                  *)
GetResult ==
    /\ pc = "poll"
    /\ comp_cmd[cq_head].command_id = cid
    /\ comp_cmd' = check_command_completion
    /\ result' = check_command_completion[cq_head].result
    /\ pc' = "ring"
    /\ UNCHANGED <<cmdid_counter, sub_cmd, sq_tail, sq_head, sq_db, cq_head,
                   cq_phase, cq_db, kind, cid, status, signalled, devVars>>

(* Mutant: the head stays where it is *)
RingSingleCompletion_nohead ==
    /\ pc = "ring"
    /\ sq_head' = cq_head
    /\ cq_db' = cq_head
    /\ pc' = IF kind = "create" THEN "status" ELSE "idle"
    /\ UNCHANGED <<cmdid_counter, sub_cmd, sq_tail, sq_db, cq_head, cq_phase,
                   kind, cid, result, status, comp_cmd, signalled, devVars>>

(* Mutant: the expected phase never changes *)
RingSingleCompletion_nophase ==
    /\ pc = "ring"
    /\ sq_head' = cq_head
    /\ cq_db' = cq_head
    /\ cq_head' = inc(cq_head)
    /\ pc' = IF kind = "create" THEN "status" ELSE "idle"
    /\ UNCHANGED <<cmdid_counter, sub_cmd, sq_tail, sq_db, cq_phase, kind, cid,
                   result, status, comp_cmd, signalled, devVars>>

(* ring_doorbell_single_completion: the doorbell gets the old head *)
RingSingleCompletion ==
    /\ pc = "ring"
    /\ sq_head' = cq_head
    /\ cq_db' = cq_head
    /\ cq_head' = inc(cq_head)
    /\ cq_phase' = IF inc(cq_head) = 0 THEN 1 - cq_phase ELSE cq_phase
    /\ pc' = IF kind = "create" THEN "status" ELSE "idle"
    /\ UNCHANGED <<cmdid_counter, sub_cmd, sq_tail, sq_db, kind, cid, result,
                   status, comp_cmd, signalled, devVars>>

(* The status check of create_io_completion_queue and                      *)
(* create_io_submission_queue; a bad result or status stops the program.   *)
(* The word get_status reads is the status with the phase bit below it     *)
GetStatus ==
    /\ pc = "status"
    /\ status' = 2 * comp_cmd[cq_head].status + comp_cmd[cq_head].phase_tag
    /\ pc' = IF result = 0 /\ status' = 0 THEN "idle" ELSE "aborted"
    /\ UNCHANGED <<cmdid_counter, sub_cmd, sq_tail, sq_head, sq_db, cq_head,
                   cq_phase, cq_db, kind, cid, result, comp_cmd, signalled,
                   devVars>>

(***************************************************************************)
(* The controller: dev is what it still has to do for its command.         *)
(***************************************************************************)

DevFetch ==
    /\ dev = {} /\ dev_sqhd # sq_db
    /\ dev' = {"interrupt", "post"}
    /\ dev_sqhd' = inc(dev_sqhd)
    /\ \E r, s \in Word :
          reply' = [command_id |-> sub_cmd[dev_sqhd], result |-> r,
                    status |-> s, phase_tag |-> dev_phase]
    /\ UNCHANGED <<dev_cqtail, dev_phase, hostVars, comp_cmd, signalled>>

(* There must be room for the entry before anything is done about it *)
DevInterrupt ==
    /\ "interrupt" \in dev
    /\ "post" \in dev => inc(dev_cqtail) # cq_db
    /\ dev' = dev \ {"interrupt"}
    /\ signalled' = TRUE
    /\ UNCHANGED <<dev_sqhd, dev_cqtail, dev_phase, reply, hostVars, comp_cmd>>

DevPost ==
    /\ "post" \in dev
    /\ inc(dev_cqtail) # cq_db
    /\ dev' = dev \ {"post"}
    /\ comp_cmd' = [comp_cmd EXCEPT ![dev_cqtail] = reply]
    /\ dev_cqtail' = inc(dev_cqtail)
    /\ dev_phase' = IF inc(dev_cqtail) = 0 THEN 1 - dev_phase ELSE dev_phase
    /\ UNCHANGED <<dev_sqhd, reply, hostVars, signalled>>

-----------------------------------------------------------------------------
Host == WaitIrq \/ PollAgain \/ GetResult \/ RingSingleCompletion \/ GetStatus
Device == DevFetch \/ DevInterrupt \/ DevPost

Next == (\E k \in Kind : Submit(k)) \/ Host \/ Device

Spec == Init /\ [][Next]_vars

(* The host waits and polls without giving up (its poll times out after    *)
(* days) and the controller serves each command                            *)
FairSpec == Spec /\ WF_vars(Host) /\ WF_vars(Device)

-----------------------------------------------------------------------------
(***************************************************************************)
(* Properties.                                                             *)
(***************************************************************************)

TypeOK ==
    /\ cmdid_counter \in CmdIds /\ cid \in CmdIds
    /\ sub_cmd \in [Index -> CmdIds] /\ comp_cmd \in [Index -> Entry]
    /\ sq_tail \in Index /\ sq_head \in Index /\ sq_db \in Index
    /\ cq_head \in Index /\ cq_phase \in 0 .. 1 /\ cq_db \in Index
    /\ pc \in {"idle", "irq", "poll", "ring", "status", "aborted"}
    /\ kind \in Kind /\ result \in Word /\ status \in Nat
    /\ signalled \in BOOLEAN
    /\ dev \subseteq {"interrupt", "post"} /\ reply \in Entry
    /\ dev_sqhd \in Index /\ dev_cqtail \in Index /\ dev_phase \in 0 .. 1

(* The poll on the command id ends on the reply to that very command, with *)
(* the phase the host expects, however often the ring and the ids have     *)
(* wrapped and although the interrupt may be early: an old entry is never  *)
(* taken for the new one and check_command_completion never fails.         *)
PollFindsReply ==
    pc = "poll" /\ comp_cmd[cq_head].command_id = cid
       => comp_cmd[cq_head] = reply /\ PhaseOK

(* Between commands the rings are in step: the host and the controller     *)
(* agree on both positions, no interrupt is left over for the next wait,   *)
(* and no slot holds an entry that a later poll could match.               *)
InStep ==
    pc = "idle" => /\ dev = {} /\ ~signalled
                   /\ dev_sqhd = sq_tail /\ dev_cqtail = cq_head
                   /\ dev_phase = cq_phase
                   /\ \A i \in Index : comp_cmd[i] = Cleared

(* "verify result" (create_io_completion_queue): a queue is reported       *)
(* created only if the controller's status says so.                        *)
CreateVerified == [][GetStatus /\ pc' = "idle" => reply.status = 0]_vars

(* next_sub_slot never finds the ring full, and the controller always has  *)
(* room for its completion, although the doorbell gets the old head.       *)
NeverFull ==
    /\ pc = "idle" => inc(sq_tail) # sq_head
    /\ "post" \in dev => inc(dev_cqtail) # cq_db

-----------------------------------------------------------------------------
(***************************************************************************)
(* The inductive invariant (proved in NVMeDeviceProofs).  From Submit to   *)
(* the doorbell there is one command, in one of three places.              *)
(***************************************************************************)
Blank == [i \in Index |-> Cleared]
NextPhase == IF inc(cq_head) = 0 THEN 1 - cq_phase ELSE cq_phase

Before == dev_cqtail = cq_head /\ dev_phase = cq_phase /\ comp_cmd = Blank
Answering ==
    dev_sqhd = sq_tail /\ reply.command_id = cid /\ reply.phase_tag = cq_phase

Sent ==       \* in the submission ring
    /\ dev = {} /\ ~signalled /\ Before
    /\ inc(dev_sqhd) = sq_tail /\ sub_cmd[dev_sqhd] = cid
Working ==    \* with the controller
    "post" \in dev /\ Answering /\ Before
Answered ==   \* in the completion ring
    /\ "post" \notin dev /\ Answering
    /\ dev_cqtail = inc(cq_head) /\ dev_phase = NextPhase
    /\ comp_cmd = [Blank EXCEPT ![cq_head] = reply]

Rest == dev = {} /\ ~signalled /\ dev_sqhd = sq_tail /\ comp_cmd = Blank

(* The completion doorbell and sq_head are a step behind the head          *)
Lag ==
    /\ sq_db = sq_tail /\ sq_head = cq_db
    /\ cq_db = cq_head \/ inc(cq_db) = cq_head
    /\ sq_tail = IF pc \in {"irq", "poll", "ring"} THEN inc(cq_head) ELSE cq_head

AdminInv ==
    /\ TypeOK /\ Lag
    /\ pc # "aborted" /\ result = 0
    /\ pc \in {"irq", "poll"} => cid # 0
    /\ pc = "irq" => \/ Sent
                     \/ /\ Working \/ Answered
                        /\ signalled <=> "interrupt" \notin dev
    /\ pc = "poll" => (Working \/ Answered) /\ "interrupt" \notin dev /\ ~signalled
    /\ pc = "ring" => Rest /\ dev_cqtail = inc(cq_head) /\ dev_phase = NextPhase
    /\ pc \in {"idle", "status"} => Rest /\ Before
=============================================================================
