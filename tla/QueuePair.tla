----------------------------- MODULE QueuePair ------------------------------
(***************************************************************************)
(* One NVMe I/O queue pair: the submission ring filled by the producer,    *)
(* the controller, the completion ring drained by the CQ thread, and the   *)
(* interrupt that wakes that thread through the parasite kernel module.    *)
(* Sources: drivers/nvme-ssd nvme_queue.h, nvme_queue.cc, cq_thread.cc;    *)
(* kernel/modules/parasite pk_class.c.                                     *)
(*                                                                         *)
(* The controller is not part of the repository.  It fetches the entries   *)
(* up to the submission doorbell in order, executes them in any order, and *)
(* posts a completion with its phase bit and fetch pointer whenever the    *)
(* completion ring, as it knows it from the completion doorbell, has room. *)
(* The interrupt of a completion comes with its entry, or ahead of it: "an *)
(* issue with the interrupt triggering before the CQ registers have been   *)
(* updated" (nvme_queue.cc, check_command_completion).                     *)
(* A completion with an error status aborts the process                    *)
(* (get_next_completion asserts), so completions here are successful.      *)
(***************************************************************************)
EXTENDS Integers, FiniteSets

CONSTANTS
    QueueLen,     \* _queue_max_items, the same for both rings
    Cmd,          \* commands
    NoCmd         \* contents of a cleared submission slot

ASSUME QueueAssumption ==
    /\ QueueLen \in Nat /\ QueueLen > 1
    /\ NoCmd \notin Cmd

VARIABLES
    sub_cmd, sq_tail, sq_head, sq_db,            \* submission ring, doorbell
    comp_cmd, cq_head, cq_phase, cq_db,          \* completion ring, doorbell
    subpc, sub,                                  \* producer: step, command
    dev_sqhd, dev_cmds, dev_cqtail, dev_phase,   \* the controller
    irq, signalled,                              \* MSI-X message, kernel flag
    early,          \* commands whose interrupt came ahead of their completion
    cqt, ccs                                     \* CQ thread: step, slot index

subVars  == <<sub_cmd, sq_tail, sq_db, subpc, sub>>
devVars  == <<comp_cmd, dev_sqhd, dev_cmds, dev_cqtail, dev_phase>>
cqVars   == <<sq_head, cq_head, cq_phase, cq_db, cqt, ccs>>
kernVars == <<irq, signalled, early>>
qpVars   == <<subVars, devVars, cqVars, kernVars>>

Index == 0 .. QueueLen - 1
Entry == [cmd: Cmd \cup {NoCmd}, phase: 0 .. 1, sq_head: Index]

inc(i) == IF i + 1 = QueueLen THEN 0 ELSE i + 1

(* The indices a ring holds from index i up to, not including, index j *)
Window(i, j) == IF i <= j THEN i .. j - 1 ELSE Index \ (j .. i - 1)

-----------------------------------------------------------------------------
QPInit ==
    /\ sub_cmd = [i \in Index |-> NoCmd]
    /\ sq_tail = 0 /\ sq_head = 0 /\ sq_db = 0
    /\ comp_cmd = [i \in Index |-> [cmd |-> NoCmd, phase |-> 0, sq_head |-> 0]]
    /\ cq_head = 0 /\ cq_phase = 1 /\ cq_db = 0
    /\ subpc = "none" /\ sub = NoCmd
    /\ dev_sqhd = 0 /\ dev_cmds = {} /\ dev_cqtail = 0 /\ dev_phase = 1
    /\ irq = FALSE /\ signalled = FALSE /\ early = {}
    /\ cqt = "wait" /\ ccs = 0

(***************************************************************************)
(* The producer: next_sub_slot, the command constructor, the doorbell.     *)
(***************************************************************************)

(* Mutant: the doorbell announces a slot that is not written yet *)
NextSubSlot_rings(c) ==
    /\ subpc = "none"
    /\ inc(sq_tail) # sq_head
    /\ sub_cmd' = [sub_cmd EXCEPT ![sq_tail] = NoCmd]
    /\ sq_tail' = inc(sq_tail)
    /\ sq_db' = inc(sq_tail)
    /\ sub' = c
    /\ subpc' = "fill"
    /\ UNCHANGED <<devVars, cqVars, kernVars>>

(* Mutant: no check for a full ring *)
NextSubSlot_unguarded(c) ==
    /\ subpc = "none"
    /\ sub_cmd' = [sub_cmd EXCEPT ![sq_tail] = NoCmd]
    /\ sq_tail' = inc(sq_tail)
    /\ sub' = c
    /\ subpc' = "fill"
    /\ UNCHANGED <<sq_db, devVars, cqVars, kernVars>>

(* next_sub_slot has its command id; it spins while the ring is full *)
NextSubSlot(c) ==
    /\ subpc = "none"
    /\ inc(sq_tail) # sq_head
    /\ sub_cmd' = [sub_cmd EXCEPT ![sq_tail] = NoCmd]
    /\ sq_tail' = inc(sq_tail)
    /\ sub' = c
    /\ subpc' = "fill"
    /\ UNCHANGED <<sq_db, devVars, cqVars, kernVars>>

(* The slot next_sub_slot returned *)
SubSlot == IF sq_tail = 0 THEN QueueLen - 1 ELSE sq_tail - 1

FillSlot ==
    /\ subpc = "fill"
    /\ sub_cmd' = [sub_cmd EXCEPT ![SubSlot] = sub]
    /\ subpc' = "ring"
    /\ UNCHANGED <<sq_tail, sq_db, sub, devVars, cqVars, kernVars>>

RingSubmission ==
    /\ subpc = "ring"
    /\ sq_db' = sq_tail
    /\ subpc' = "none"
    /\ UNCHANGED <<sub_cmd, sq_tail, sub, devVars, cqVars, kernVars>>

(***************************************************************************)
(* The controller (external).                                              *)
(***************************************************************************)

DevFetch ==
    /\ dev_sqhd # sq_db
    /\ dev_cmds' = dev_cmds \cup {sub_cmd[dev_sqhd]}
    /\ dev_sqhd' = inc(dev_sqhd)
    /\ UNCHANGED <<comp_cmd, dev_cqtail, dev_phase, subVars, cqVars, kernVars>>

DevInterrupt(c) ==
    /\ c \in dev_cmds \ early
    /\ inc(dev_cqtail) # cq_db
    /\ irq' = TRUE
    /\ early' = early \cup {c}
    /\ UNCHANGED <<signalled, subVars, devVars, cqVars>>

DevPost(c) ==
    /\ c \in dev_cmds
    /\ inc(dev_cqtail) # cq_db
    /\ dev_cmds' = dev_cmds \ {c}
    /\ comp_cmd' = [comp_cmd EXCEPT ![dev_cqtail] =
                       [cmd |-> c, phase |-> dev_phase, sq_head |-> dev_sqhd]]
    /\ dev_cqtail' = inc(dev_cqtail)
    /\ dev_phase' = IF inc(dev_cqtail) = 0 THEN 1 - dev_phase ELSE dev_phase
    /\ irq' = (irq \/ c \notin early)
    /\ UNCHANGED <<dev_sqhd, signalled, early, subVars, cqVars>>

(***************************************************************************)
(* The kernel module and the CQ thread.                                    *)
(***************************************************************************)

(* msi_threaded_irq_handler, non-masking mode *)
IrqHandler ==
    /\ irq
    /\ irq' = FALSE
    /\ signalled' = TRUE
    /\ UNCHANGED <<early, subVars, devVars, cqVars>>

(* msi_proc_read: the wait is over ... *)
WaitIrq ==
    /\ cqt = "wait"
    /\ signalled
    /\ cqt' = "woken"
    /\ UNCHANGED <<sq_head, cq_head, cq_phase, cq_db, ccs, subVars, devVars,
                   kernVars>>

(* ... and the flag is cleared, in a later step *)
ClearSignal ==
    /\ cqt = "woken"
    /\ signalled' = FALSE
    /\ cqt' = "drain"
    /\ UNCHANGED <<irq, early, sq_head, cq_head, cq_phase, cq_db, ccs, subVars,
                   devVars>>

HasCompletion == comp_cmd[cq_head].phase = cq_phase

(* Mutant: the expected phase never changes *)
GetNextCompletion_nophase ==
    /\ cqt = "drain"
    /\ HasCompletion
    /\ ccs' = cq_head
    /\ cq_head' = inc(cq_head)
    /\ cqt' = "update"
    /\ UNCHANGED <<sq_head, cq_phase, cq_db, subVars, devVars, kernVars>>

(* get_next_completion, and increment_completion_head when there is one *)
GetNextCompletion ==
    /\ cqt = "drain"
    /\ HasCompletion
    /\ ccs' = cq_head
    /\ cq_head' = inc(cq_head)
    /\ cq_phase' = IF inc(cq_head) = 0 THEN 1 - cq_phase ELSE cq_phase
    /\ early' = early \ {comp_cmd[cq_head].cmd}
    /\ cqt' = "update"
    /\ UNCHANGED <<irq, signalled, sq_head, cq_db, subVars, devVars>>

(* No completion left: the doorbell is rung once more if one was found     *)
(* (cq_head is unchanged since, so ringing again writes the same value)    *)
DrainEnds ==
    /\ cqt = "drain"
    /\ ~HasCompletion
    /\ cq_db' = cq_head
    /\ cqt' = "wait"
    /\ UNCHANGED <<sq_head, cq_head, cq_phase, ccs, subVars, devVars, kernVars>>

(* Mutant: takes the last doorbell value for the controller's head *)
UpdateSqHead_doorbell ==
    /\ cqt = "update"
    /\ sq_head' = sq_db
    /\ cqt' = "ring"
    /\ UNCHANGED <<cq_head, cq_phase, cq_db, ccs, subVars, devVars, kernVars>>

(* update_sq_head(ccs); update_batch_manager is conjoined by NVMeIO *)
UpdateSqHead ==
    /\ cqt = "update"
    /\ sq_head' = comp_cmd[ccs].sq_head
    /\ cqt' = "ring"
    /\ UNCHANGED <<cq_head, cq_phase, cq_db, ccs, subVars, devVars, kernVars>>

(* Mutant: one completion per interrupt *)
RingCompletion_single ==
    /\ cqt = "ring"
    /\ cq_db' = cq_head
    /\ cqt' = "wait"
    /\ UNCHANGED <<sq_head, cq_head, cq_phase, ccs, subVars, devVars, kernVars>>

RingCompletion ==
    /\ cqt = "ring"
    /\ cq_db' = cq_head
    /\ cqt' = "drain"
    /\ UNCHANGED <<sq_head, cq_head, cq_phase, ccs, subVars, devVars, kernVars>>

-----------------------------------------------------------------------------
(* Where a command can be after next_sub_slot took it *)

InProducer == IF subpc = "none" THEN {} ELSE {sub}
SubWindow  == Window(dev_sqhd, sq_db)
CompWindow == Window(cq_head, dev_cqtail)
InSub      == {sub_cmd[i] : i \in SubWindow}
InComp     == {comp_cmd[i].cmd : i \in CompWindow}
InCq       == IF cqt = "update" THEN {comp_cmd[ccs].cmd} ELSE {}

Outstanding == InProducer \cup InSub \cup dev_cmds \cup InComp \cup InCq

Submit(c) == c \notin Outstanding /\ NextSubSlot(c)

Host   == FillSlot \/ RingSubmission
Device == DevFetch \/ \E c \in dev_cmds : DevPost(c) \/ DevInterrupt(c)
CqStep == WaitIrq \/ ClearSignal \/ GetNextCompletion \/ DrainEnds
             \/ UpdateSqHead \/ RingCompletion

QPNext == (\E c \in Cmd : Submit(c)) \/ Host \/ Device \/ IrqHandler \/ CqStep

QPSpec == QPInit /\ [][QPNext]_qpVars

-----------------------------------------------------------------------------
(***************************************************************************)
(* Properties.                                                             *)
(***************************************************************************)

QPTypeOK ==
    /\ sub_cmd \in [Index -> Cmd \cup {NoCmd}]
    /\ comp_cmd \in [Index -> Entry]
    /\ sq_tail \in Index /\ sq_head \in Index /\ sq_db \in Index
    /\ cq_head \in Index /\ cq_phase \in 0 .. 1 /\ cq_db \in Index
    /\ subpc \in {"none", "fill", "ring"} /\ sub \in Cmd \cup {NoCmd}
    /\ dev_sqhd \in Index /\ dev_cmds \in SUBSET Cmd
    /\ dev_cqtail \in Index /\ dev_phase \in 0 .. 1
    /\ irq \in BOOLEAN /\ signalled \in BOOLEAN /\ early \in SUBSET Cmd
    /\ cqt \in {"wait", "woken", "drain", "update", "ring"}
    /\ ccs \in Index

Places == <<InProducer, InSub, dev_cmds, InComp, InCq>>

(* Every command under way is in exactly one place: with the producer, in  *)
(* one submission slot, in the controller, in one unread completion slot   *)
(* or with the CQ thread.  Neither ring holds a command twice, and no      *)
(* cleared or half-written slot is ever announced by a doorbell.           *)
OnePlace ==
    /\ \A p, q \in 1 .. 5 : p # q => Places[p] \cap Places[q] = {}
    /\ \A k, l \in SubWindow : sub_cmd[k] = sub_cmd[l] => k = l
    /\ \A k, l \in CompWindow : comp_cmd[k].cmd = comp_cmd[l].cmd => k = l
    /\ Outstanding \subseteq Cmd

(* The phase bit alone tells the CQ thread whether the slot at cq_head     *)
(* holds a completion it has not read: get_next_completion neither skips a *)
(* completion nor reads one a second time, whatever the number of laps.    *)
PhaseTellsNew == HasCompletion <=> CompWindow # {}

(* The CQ thread is in msi_proc_read, and nothing is on its way to wake it *)
Asleep == cqt = "wait" /\ ~irq /\ ~signalled

(* A CQ thread asleep leaves no completion unread but the ones that became *)
(* visible after their own interrupt, which the CQ thread, unlike the      *)
(* admin queue, does not wait for: clearing the signal after the wait      *)
(* never loses a wake-up.                                                  *)
NoLostWakeup == Asleep => InComp \subseteq early

(* The submission slots between the head the host knows and the tail are   *)
(* the ones the controller may still read; the host's head never runs      *)
(* ahead of the controller's, so a slot is rewritten only once fetched.    *)
HeadLags == SubWindow \subseteq Window(sq_head, sq_tail)

(* The queue pair, seen from above, is the asynchronous command service of *)
(* AsyncIO: a command enters once and leaves when the CQ thread takes it.  *)
Service == INSTANCE AsyncIO WITH outstanding <- Outstanding,
                                 waiting <- FALSE
ServiceSpec == Service!Spec

-----------------------------------------------------------------------------
(***************************************************************************)
(* The inductive invariant (proved in NVMeIOProofs).                       *)
(***************************************************************************)

(* Steps from index i forward to index j, and what it means to meet j on   *)
(* the way from i to k                                                     *)
Dist(i, j) == IF i <= j THEN j - i ELSE j - i + QueueLen
InOrder(i, j, k) == Dist(i, j) + Dist(j, k) = Dist(i, k)

(* Going round the submission ring: the head the host knows, the           *)
(* controller's, the doorbell, the tail                                    *)
SubRing ==
    /\ InOrder(sq_head, dev_sqhd, sq_db) /\ InOrder(sq_head, sq_db, sq_tail)
    /\ subpc = "none" => sq_db = sq_tail
    /\ subpc # "none" => sq_tail = inc(sq_db) /\ sub \in Cmd
    /\ subpc = "ring" => sub_cmd[sq_db] = sub

(* The CQ thread's head is one past its doorbell while it has a completion *)
(* in hand, and the phases of the ring change at the controller's tail     *)
CompRing ==
    /\ cqt \in {"wait", "woken", "drain"} => cq_db = cq_head
    /\ cqt \in {"update", "ring"} =>
          cq_db = ccs /\ cq_head = inc(ccs) /\ dev_cqtail # ccs
    /\ cq_phase = IF cq_head <= dev_cqtail THEN dev_phase ELSE 1 - dev_phase
    /\ \A k \in Index : comp_cmd[k].phase =
                           IF k < dev_cqtail THEN dev_phase ELSE 1 - dev_phase

(* The completions update_sq_head has still to see carry submission heads  *)
(* between the host's and the controller's, the older the further behind   *)
UnseenFrom == IF cqt = "update" THEN ccs ELSE cq_head
Unseen == Window(UnseenFrom, dev_cqtail)

HeadsInOrder ==
    /\ \A k \in Unseen : InOrder(sq_head, comp_cmd[k].sq_head, dev_sqhd)
    /\ \A k, l \in Unseen : Dist(UnseenFrom, k) <= Dist(UnseenFrom, l) =>
          InOrder(sq_head, comp_cmd[k].sq_head, comp_cmd[l].sq_head)

QPInv == QPTypeOK /\ OnePlace /\ SubRing /\ CompRing /\ HeadsInOrder /\ NoLostWakeup
=============================================================================
