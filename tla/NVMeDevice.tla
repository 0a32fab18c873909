----------------------------- MODULE NVMeDevice -----------------------------
(***************************************************************************)
(* The life of an NVMe device on top of its admin queue: reset, bring-up,  *)
(* the admin commands that create the I/O queues, and shutdown             *)
(* (drivers/nvme-ssd: nvme_device, nvme_queue, nvme_command_admin, config, *)
(* nvme_drv_component).  The commands run through AdminQueue.              *)
(*                                                                         *)
(* stage is the place in init_device and shutdown_device.  cmd is the      *)
(* admin command under way; its data page lives as long as the command.    *)
(* The controller (ctl) is external; it acts on a command when it answers  *)
(* it with status 0.                                                       *)
(***************************************************************************)
EXTENDS AdminQueue

CONSTANTS
    Configs,      \* configuration files: number and length of the I/O queues
    MQES,         \* CAP.MQES, the largest queue length less one
    Pages,        \* what controllers say of themselves (nvme_id_ctrl)
    Timeout       \* polls for CSTS.RDY before hw_reset gives up

ASSUME DeviceAssumption ==
    /\ Configs \subseteq [num: Nat \ {0}, len: Nat \ {0}]
    /\ MQES \in Nat \ {0} /\ Timeout \in Nat
    /\ Pages \subseteq [sqes: 0 .. 255, cqes: 0 .. 255, nn: Nat]
    /\ Kind = {"create", "plain"}

VARIABLES
    stage,        \* where the driver is
    config,       \* the configuration read
    queue,        \* the I/O queue (or name space) being dealt with
    attempts,     \* polls left in hw_reset
    nn,           \* _ident._nn
    cmd,          \* the admin command under way
    memory,       \* DMA memory of the device object: rings, by name
    thread,       \* the completion thread of each queue
    ctl,          \* the controller
    refused       \* it has refused a command (history)

deviceVars == <<stage, config, queue, attempts, nn, cmd, memory, thread, ctl, refused>>
nvmeVars == <<vars, deviceVars>>

Queues == 1 .. config.num
NoCmd == [op |-> "none", q |-> 0, size |-> 0]
BlankPage == [sqes |-> 0, cqes |-> 0, nn |-> 0]
Off == [enabled |-> FALSE, ready |-> FALSE, granted |-> 0, cq |-> <<>>, sq |-> {}]

Adopted(q) == q \in DOMAIN ctl.cq

NVMeInit ==
    /\ Init
    /\ stage = "down" /\ config \in Configs /\ queue = 0 /\ attempts = 0
    /\ nn = 0 /\ cmd = NoCmd /\ memory = {} /\ thread = <<>>
    /\ ctl = Off /\ refused = FALSE

-----------------------------------------------------------------------------
(***************************************************************************)
(* init_device up to the admin queues.                                     *)
(***************************************************************************)

(* Config::parse_config gives the queues; vector 0 is for the admin queue  *)
(* and vector i for I/O queue i.  The device object is new                 *)
init_device ==
    /\ stage = "down"
    /\ stage' = "disable"
    /\ config' \in Configs
    /\ nn' = 0
    /\ thread' = [q \in 1 .. config'.num |-> "none"]
    /\ UNCHANGED <<queue, attempts, cmd, memory, ctl, refused, vars>>

cc_disable ==
    /\ stage = "disable"
    /\ stage' = "disabled"
    /\ ctl' = [ctl EXCEPT !.enabled = FALSE]
    /\ UNCHANGED <<config, queue, attempts, nn, cmd, memory, thread, refused, vars>>

(* The loop on csts_ready ends, and the admin queues are made: rings and   *)
(* counters as new                                                         *)
create_admin_queues ==
    /\ stage = "disabled" /\ ~ctl.ready
    /\ stage' = "enable"
    /\ memory' = memory \cup {<<"sq", 0>>, <<"cq", 0>>}
    /\ cmdid_counter' = 0
    /\ sub_cmd' = [i \in Index |-> 0]
    /\ sq_tail' = 0 /\ sq_head' = 0 /\ sq_db' = 0
    /\ comp_cmd' = [i \in Index |-> Cleared]
    /\ cq_head' = 0 /\ cq_phase' = 1 /\ cq_db' = 0
    /\ UNCHANGED <<config, queue, attempts, nn, cmd, thread, ctl, refused, pc,
                   kind, cid, result, status, signalled, devVars>>

cc_enable ==
    /\ stage = "enable"
    /\ stage' = "wait"
    /\ ctl' = [ctl EXCEPT !.enabled = TRUE]
    /\ attempts' = Timeout
    /\ UNCHANGED <<config, queue, nn, cmd, memory, thread, refused, vars>>

(* One poll.  The last look at csts_ready comes after the loop; if it      *)
(* fails the exception ends init_device in a trap                          *)
poll_ready ==
    /\ stage = "wait"
    /\ \/ ctl.ready /\ stage' = "set_queue_num" /\ UNCHANGED attempts
       \/ ~ctl.ready /\ attempts > 0 /\ attempts' = attempts - 1 /\ UNCHANGED stage
       \/ ~ctl.ready /\ attempts = 0 /\ stage' = "failed" /\ UNCHANGED attempts
    /\ UNCHANGED <<config, queue, nn, cmd, memory, thread, ctl, refused, vars>>

hw_reset == cc_disable \/ create_admin_queues \/ cc_enable \/ poll_ready

-----------------------------------------------------------------------------
(***************************************************************************)
(* The admin commands.  One is made and submitted; when it has ended, the  *)
(* driver takes what it needs from it and goes to the next stage.          *)
(***************************************************************************)
(* Mutant: the length is only limited when it is above MQES by two *)
io_queue_len_over == IF config.len > MQES + 2 THEN MQES + 1 ELSE config.len

(* "limited IO queue length" *)
io_queue_len == IF config.len >= MQES THEN MQES + 1 ELSE config.len

Rings(s) == IF s = "create_cq" THEN {<<"cq", queue>>}
            ELSE IF s = "create_sq" THEN {<<"sq", queue>>} ELSE {}

Issue(op, k, size) ==
    /\ stage = op
    /\ cmd = NoCmd
    /\ cmd' = [op |-> op, q |-> queue, size |-> size]
    /\ memory' = memory \cup Rings(op)
    /\ Submit(k)
    /\ UNCHANGED <<stage, config, queue, attempts, nn, thread, ctl, refused>>

Ended(op) == stage = op /\ cmd.op = op /\ pc = "idle"

Done(s, q) ==
    /\ stage' = s
    /\ queue' = q
    /\ cmd' = NoCmd
    /\ UNCHANGED <<config, attempts, memory, ctl, refused, vars>>

(* What is granted is computed and dropped: every queue configured is      *)
(* created below, also where the controller has granted fewer              *)
set_queue_num ==
    \/ Issue("set_queue_num", "plain", 0)
    \/ Ended("set_queue_num") /\ Done("identify", 0) /\ UNCHANGED <<nn, thread>>

Command_admin_identify == Issue("identify", "plain", 0)

(* 64 bytes for a submission, 16 for a completion, least and most *)
EntrySizes(page) == page.sqes = 6 * 16 + 6 /\ page.cqes = 4 * 16 + 4

(* The page is zeroed before the command and a refused one leaves it so;   *)
(* other entry sizes fail an assertion                                     *)
check_controller_result ==
    /\ Ended("identify")
    /\ \E page \in Pages \cup {BlankPage} :
          /\ (page = BlankPage) = (reply.status # 0)
          /\ nn' = page.nn
          /\ Done(CASE ~EntrySizes(page) -> "failed"
                    [] EntrySizes(page) /\ nn' > 0 -> "identify_ns"
                    [] OTHER -> "set_irq_coal_options", 1)
    /\ UNCHANGED thread

check_ns_result ==
    /\ Ended("identify_ns")
    /\ IF queue < nn THEN Done("identify_ns", queue + 1)
       ELSE Done("set_irq_coal_options", 1)
    /\ UNCHANGED <<nn, thread>>

issue_identify_device ==
    \/ Command_admin_identify
    \/ check_controller_result
    \/ Issue("identify_ns", "plain", 0)
    \/ check_ns_result

(* 64 queues or more fail an assertion *)
MaxQueues == 64

set_irq_coal_options ==
    \/ Issue("set_irq_coal_options", "plain", 0)
    \/ /\ Ended("set_irq_coal_options")
       /\ Done(IF config.num < MaxQueues THEN "create_cq" ELSE "failed", 1)
       /\ UNCHANGED <<nn, thread>>

create_io_completion_queue ==
    \/ Issue("create_cq", "create", io_queue_len)
    \/ Ended("create_cq") /\ Done("create_sq", queue) /\ UNCHANGED <<nn, thread>>

(* The end of the NVME_IO_queue constructor, setup_doorbells and           *)
(* start_cq_thread follow the creation of the submission queue             *)
create_io_submission_queue ==
    \/ Issue("create_sq", "create", io_queue_len)
    \/ /\ Ended("create_sq")
       /\ thread' = [thread EXCEPT ![queue] = "started"]
       /\ Done("set_irq_coal", queue)
       /\ UNCHANGED nn

set_irq_coal ==
    \/ Issue("set_irq_coal", "plain", 0)
    \/ /\ Ended("set_irq_coal")
       /\ IF queue < config.num THEN Done("create_cq", queue + 1) ELSE Done("up", 1)
       /\ UNCHANGED <<nn, thread>>

NVME_IO_queue ==
    create_io_completion_queue \/ create_io_submission_queue \/ set_irq_coal

nvme_init_device ==
    hw_reset \/ set_queue_num \/ issue_identify_device \/ set_irq_coal_options \/ NVME_IO_queue

-----------------------------------------------------------------------------
(***************************************************************************)
(* shutdown_device: destroy deletes the I/O queues one by one, then the    *)
(* object goes and with it all its DMA memory.  The controller is left     *)
(* enabled.                                                                *)
(***************************************************************************)
(* Mutant: the device is deleted without destroy *)
shutdown_device_now ==
    /\ stage = "up"
    /\ stage' = "delete"
    /\ UNCHANGED <<config, queue, attempts, nn, cmd, memory, thread, ctl, refused, vars>>

shutdown_device ==
    /\ stage = "up"
    /\ stage' = "cancel"
    /\ UNCHANGED <<config, queue, attempts, nn, cmd, memory, thread, ctl, refused, vars>>

(* cancel, and the delete that joins *)
cancel_cq_thread ==
    /\ stage = "cancel"
    /\ thread' = [thread EXCEPT ![queue] = "none"]
    /\ stage' = "delete_sq"
    /\ UNCHANGED <<config, queue, attempts, nn, cmd, memory, ctl, refused, vars>>

(* A result other than 0 would fail the assertion *)
delete_io_queue ==
    \/ Issue("delete_sq", "plain", 0)
    \/ Issue("delete_cq", "plain", 0)
    \/ /\ result = 0
       /\ \/ Ended("delete_sq") /\ Done("delete_cq", queue)
          \/ /\ Ended("delete_cq")
             /\ IF queue < config.num THEN Done("cancel", queue + 1) ELSE Done("delete", 0)
       /\ UNCHANGED <<nn, thread>>

destroy == cancel_cq_thread \/ delete_io_queue

delete_device ==
    /\ stage = "delete"
    /\ memory' = {}
    /\ stage' = "down" /\ queue' = 0
    /\ UNCHANGED <<config, attempts, nn, cmd, thread, ctl, refused, vars>>

-----------------------------------------------------------------------------
(***************************************************************************)
(* The controller.                                                         *)
(***************************************************************************)

(* It grants as many queues as it likes of those asked for *)
Obey(num) ==
    CASE cmd.op = "set_queue_num" -> [ctl EXCEPT !.granted = num]
      [] cmd.op = "create_cq" -> [ctl EXCEPT !.cq =
              [q \in DOMAIN @ \cup {cmd.q} |-> IF q = cmd.q THEN cmd.size ELSE @[q]]]
      [] cmd.op = "create_sq" -> [ctl EXCEPT !.sq = @ \cup {cmd.q}]
      [] cmd.op = "delete_sq" -> [ctl EXCEPT !.sq = @ \ {cmd.q}]
      [] cmd.op = "delete_cq" -> [ctl EXCEPT !.cq = [q \in DOMAIN @ \ {cmd.q} |-> @[q]]]
      [] OTHER -> ctl

(* A queue that it has not granted is refused *)
CtlFetch ==
    /\ ctl.ready
    /\ DevFetch
    /\ cmd.op = "create_cq" /\ cmd.q > ctl.granted => reply'.status # 0
    /\ \E num \in Queues : ctl' = IF reply'.status = 0 THEN Obey(num) ELSE ctl
    /\ refused' = (refused \/ reply'.status # 0)
    /\ UNCHANGED <<stage, config, queue, attempts, nn, cmd, memory, thread>>

(* CSTS.RDY follows CC.EN, either way.  A disabled controller forgets its  *)
(* queues and the positions in the admin rings                             *)
CtlReady ==
    /\ ctl.ready # ctl.enabled
    /\ IF ctl.enabled
       THEN /\ ctl' = [ctl EXCEPT !.ready = TRUE]
            /\ UNCHANGED <<devVars, refused>>
       ELSE /\ ctl' = Off
            /\ dev' = {} /\ dev_sqhd' = 0 /\ dev_cqtail' = 0 /\ dev_phase' = 1
            /\ refused' = FALSE
            /\ UNCHANGED reply
    /\ UNCHANGED <<stage, config, queue, attempts, nn, cmd, memory, thread,
                   hostVars, comp_cmd, signalled>>

-----------------------------------------------------------------------------
Driver == nvme_init_device \/ destroy \/ delete_device

NVMeNext ==
    \/ init_device \/ shutdown_device
    \/ Driver
    \/ Host /\ UNCHANGED deviceVars
    \/ (DevInterrupt \/ DevPost) /\ UNCHANGED deviceVars
    \/ CtlFetch \/ CtlReady

NVMeSpec == NVMeInit /\ [][NVMeNext]_nvmeVars

(* The driver and the controller go on; start and shutdown are the user's *)
NVMeFairness ==
    /\ WF_nvmeVars(Driver)
    /\ WF_nvmeVars(Host /\ UNCHANGED deviceVars)
    /\ WF_nvmeVars((DevInterrupt \/ DevPost) /\ UNCHANGED deviceVars)
    /\ WF_nvmeVars(CtlFetch)
    /\ WF_nvmeVars(CtlReady)

-----------------------------------------------------------------------------
(***************************************************************************)
(* Properties.                                                             *)
(***************************************************************************)

(* Whatever the controller may write or read is memory the driver still    *)
(* holds (Single_page_command, ~NVME_IO_queue, ~NVME_device): a command it *)
(* is working on has its data page and the admin rings, and an I/O queue   *)
(* it has, if it refused nothing, has its ring.  In particular             *)
(* shutdown_device gives the rings back after the queues are deleted.      *)
ControllerMemoryLive ==
    /\ dev # {} => cmd # NoCmd /\ {<<"sq", 0>>, <<"cq", 0>>} \subseteq memory
    /\ ~refused => /\ \A q \in DOMAIN ctl.cq : <<"cq", q>> \in memory
                   /\ \A q \in ctl.sq : <<"sq", q>> \in memory

(* Unless the controller has refused something before, every admin command *)
(* is one it must accept, but for queues beyond those it granted           *)
(* (set_queue_num does not return the number): create_io_completion_queue  *)
(* for a queue it does not have, within MQES; create_io_submission_queue   *)
(* on a completion queue that exists; delete_io_queue on a queue that      *)
(* exists, the submission queue first and with its completion thread gone. *)
CommandsLegal ==
    cmd # NoCmd /\ pc = "irq" /\ dev = {} /\ dev_sqhd # sq_db /\ ~refused =>
       CASE cmd.op = "create_cq" ->
              cmd.q \in Queues /\ ~Adopted(cmd.q) /\ cmd.size - 1 <= MQES
         [] cmd.op = "create_sq" -> Adopted(cmd.q) /\ cmd.q \notin ctl.sq
         [] cmd.op = "delete_sq" -> cmd.q \in ctl.sq /\ thread[cmd.q] = "none"
         [] cmd.op = "delete_cq" -> Adopted(cmd.q) /\ cmd.q \notin ctl.sq
         [] OTHER -> ctl.ready

(* While the controller is enabled the admin rings are in step with it     *)
(* between commands, also after a shutdown and a new hw_reset: the rings   *)
(* and counters of the new NVME_admin_queue meet a controller that has     *)
(* forgotten the old ones.                                                 *)
AdminInStep == ctl.enabled => InStep

(* init_device ends with the device up, with the exception of hw_reset or  *)
(* with an assertion of check_controller_result or nvme_init_device, and   *)
(* shutdown_device ends, whatever the controller grants and answers.       *)
BringUpEnds == /\ (stage = "disable") ~> (stage \in {"up", "failed"})
               /\ (stage = "cancel") ~> (stage = "down")

-----------------------------------------------------------------------------
(***************************************************************************)
(* The inductive invariant (proved in NVMeDeviceProofs).                   *)
(***************************************************************************)
Ops == {"set_queue_num", "identify", "identify_ns", "set_irq_coal_options",
        "create_cq", "create_sq", "set_irq_coal", "delete_sq", "delete_cq"}
PerQueue == {"create_cq", "create_sq", "set_irq_coal", "cancel", "delete_sq", "delete_cq"}
Stages == Ops \cup {"down", "disable", "disabled", "enable", "wait", "failed",
                    "up", "cancel", "delete"}

NVMeTypeOK ==
    /\ stage \in Stages /\ config \in Configs /\ queue \in Nat
    /\ cmd \in [op: Ops \cup {"none"}, q: Nat, size: Nat]
    /\ stage # "down" => thread \in [Queues -> {"none", "started"}]
    /\ ctl = [enabled |-> ctl.enabled, ready |-> ctl.ready, granted |-> ctl.granted,
              cq |-> ctl.cq, sq |-> ctl.sq]
    /\ ctl.enabled \in BOOLEAN /\ ctl.ready \in BOOLEAN /\ refused \in BOOLEAN

(* CC.EN and CSTS.RDY over the stages                                      *)
EnableInv ==
    /\ stage \in {"down", "disable"} => ctl.enabled = ctl.ready
    /\ stage \in {"disabled", "enable"} => ~ctl.enabled
    /\ stage = "enable" => ~ctl.ready
    /\ stage \in {"wait", "failed"} => ctl.enabled
    /\ stage \in Ops \cup {"up", "cancel", "delete"} => ctl.enabled /\ ctl.ready
    /\ ~ctl.ready => dev = {} /\ dev_sqhd = 0 /\ dev_cqtail = 0 /\ dev_phase = 1

(* A controller that is off has left the rings of the last session         *)
Unplugged == stage = "disabled" /\ ~ctl.ready

RingsInv ==
    IF Unplugged
    THEN TypeOK /\ pc = "idle" /\ ~signalled /\ result = 0 /\ inc(sq_tail) # sq_head
    ELSE AdminInv

CmdInv ==
    /\ pc # "idle" => cmd # NoCmd
    /\ cmd # NoCmd => cmd.op = stage /\ stage \in Ops /\ cmd.q = queue
    /\ cmd.op = "create_cq" => cmd.size <= MQES + 1 /\ <<"cq", queue>> \in memory
    /\ cmd.op = "create_sq" => <<"sq", queue>> \in memory
    /\ stage \notin {"down", "disable", "disabled"}
          => {<<"sq", 0>>, <<"cq", 0>>} \subseteq memory

(* The controller has fetched the command                                  *)
Obeyed == cmd # NoCmd /\ (pc = "irq" => dev_sqhd = sq_tail)

(* The queues a controller has that has refused nothing                    *)
HasCq ==
    CASE stage = "create_cq" -> 1 .. (IF Obeyed THEN queue ELSE queue - 1)
      [] stage \in {"create_sq", "set_irq_coal"} -> 1 .. queue
      [] stage \in {"up", "cancel", "delete_sq"} -> queue .. config.num
      [] stage = "delete_cq" -> (IF Obeyed THEN queue + 1 ELSE queue) .. config.num
      [] OTHER -> {}

HasSq ==
    CASE stage = "create_cq" -> 1 .. queue - 1
      [] stage = "create_sq" -> 1 .. (IF Obeyed THEN queue ELSE queue - 1)
      [] stage = "set_irq_coal" -> 1 .. queue
      [] stage \in {"up", "cancel"} -> queue .. config.num
      [] stage = "delete_sq" -> (IF Obeyed THEN queue + 1 ELSE queue) .. config.num
      [] stage = "delete_cq" -> queue + 1 .. config.num
      [] OTHER -> {}

QueuesInv ==
    /\ stage \in PerQueue => queue \in Queues
    /\ stage = "up" => queue = 1
    /\ stage = "delete_sq" => thread[queue] = "none"
    /\ ~refused =>
          /\ DOMAIN ctl.cq = HasCq /\ ctl.sq = HasSq
          /\ \A q \in HasCq : <<"cq", q>> \in memory
          /\ \A q \in HasSq : <<"sq", q>> \in memory

DeviceInv == NVMeTypeOK /\ EnableInv /\ RingsInv /\ CmdInv /\ QueuesInv

-----------------------------------------------------------------------------
(* A poll that follows an interrupt finds the reply                        *)
(* (ring_single_completion), and while the controller is enabled the rings *)
(* stay in step with it, also after a new hw_reset; neither ring is full,  *)
(* and stage, command, controller and memory agree.                        *)
QueuesSound == PollFindsReply /\ AdminInStep /\ NeverFull /\ DeviceInv
=============================================================================
