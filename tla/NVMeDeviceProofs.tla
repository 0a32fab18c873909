-------------------------- MODULE NVMeDeviceProofs --------------------------
(***************************************************************************)
(* The admin rings stay in step with the controller over every bring-up,   *)
(* command and shutdown of the device, for every ring size, id range and   *)
(* configuration; the commands of the driver are legal and the controller  *)
(* is never left with memory that is gone.                                 *)
(***************************************************************************)
EXTENDS NVMeDevice, TLAPS

-----------------------------------------------------------------------------
(* The admin queue alone.                                                  *)

(* Positions in a ring of more than two entries.                           *)
LEMMA IncArith ==
    /\ 0 \in Index
    /\ \A i \in Index : inc(i) \in Index /\ inc(i) # i /\ inc(inc(i)) # i
    /\ \A i, j \in Index : inc(i) = inc(j) => i = j
  BY AdminAssumption DEF Index, inc

LEMMA AllocCmdid == ASSUME TypeOK PROVE alloc_cmdid \in CmdIds /\ alloc_cmdid # 0
  BY AdminAssumption DEF TypeOK, CmdIds, alloc_cmdid

LEMMA ClearedEntry ==
    /\ Cleared \in Entry /\ Blank \in [Index -> Entry]
    /\ Cleared.command_id = 0 /\ Cleared.result = 0 /\ Cleared.status = 0
    /\ Cleared.phase_tag = 0
  BY AdminAssumption DEF Cleared, Entry, Blank, CmdIds

-----------------------------------------------------------------------------
(* New rings, and a controller that has been reset.                        *)
LEMMA NewRings ==
    ASSUME cmdid_counter = 0, sub_cmd = [i \in Index |-> 0],
           sq_tail = 0, sq_head = 0, sq_db = 0, comp_cmd = Blank,
           cq_head = 0, cq_phase = 1, cq_db = 0, pc = "idle", result = 0,
           cid \in CmdIds, kind \in Kind, status \in Nat, reply \in Entry,
           signalled = FALSE, dev = {}, dev_sqhd = 0, dev_cqtail = 0, dev_phase = 1
    PROVE  AdminInv
  <1>1. TypeOK
    <2>1. 0 \in CmdIds /\ 0 \in Index /\ 0 \in Word /\ 1 \in 0 .. 1
      BY AdminAssumption DEF CmdIds, Index
    <2>2. sub_cmd \in [Index -> CmdIds] /\ comp_cmd \in [Index -> Entry]
      BY <2>1, ClearedEntry
    <2>3. signalled \in BOOLEAN /\ dev \subseteq {"interrupt", "post"}
      BY Zenon
    <2> QED
      BY <2>1, <2>2, <2>3 DEF TypeOK
  <1>2. Lag /\ Rest /\ Before
    BY DEF Lag, Rest, Before
  <1> QED
    BY <1>1, <1>2 DEF AdminInv

LEMMA InitAdminInv == Init => AdminInv
  <1>1. Cleared \in Entry /\ 0 \in CmdIds /\ 0 \in Nat
    BY ClearedEntry, AdminAssumption DEF CmdIds
  <1> QED
    BY <1>1, NewRings, Zenon DEF Init, Blank

(* Submit: the controller has nothing to do yet.                           *)
LEMMA SubmitAdminInv ==
    ASSUME AdminInv, NEW k \in Kind, Submit(k)
    PROVE  AdminInv'
  <1>. USE DEF AdminInv
  <1>0. /\ sq_tail \in Index /\ sub_cmd \in [Index -> CmdIds] /\ cq_head \in Index
        /\ pc = "idle" /\ pc' = "irq" /\ Rest /\ Before
        /\ alloc_cmdid \in CmdIds /\ alloc_cmdid # 0
    BY AllocCmdid DEF TypeOK, Submit
  <1>1. TypeOK'
    BY <1>0, IncArith DEF TypeOK, Submit, devVars
  <1>2. Lag'
    BY <1>0 DEF Lag, Submit
  <1>3. Sent'
    BY <1>0 DEF Sent, Rest, Before, Submit, devVars, Blank
  <1>4. pc' = "irq" /\ cid' # 0 /\ result' = 0
    BY <1>0 DEF Submit
  <1> QED
    BY <1>1, <1>2, <1>3, <1>4

LEMMA WaitIrqAdminInv == ASSUME AdminInv, WaitIrq PROVE AdminInv'
  <1>. USE DEF AdminInv
  <1>0. /\ UNCHANGED <<cmdid_counter, sub_cmd, sq_tail, sq_head, sq_db, cq_head, cq_phase,
                       cq_db, kind, cid, result, status, comp_cmd, dev, dev_sqhd,
                       dev_cqtail, dev_phase, reply>>
        /\ pc = "irq" /\ pc' = "poll" /\ signalled = TRUE /\ signalled' = FALSE
    BY DEF WaitIrq, devVars, TypeOK
  <1>1. TypeOK' /\ Lag'
    BY <1>0, Zenon DEF TypeOK, Lag
  <1>2. (Working \/ Answered) /\ "interrupt" \notin dev
    BY <1>0 DEF Sent
  <1>3. (Working \/ Answered)' /\ "interrupt" \notin dev'
    BY <1>0, <1>2 DEF Working, Answered, Answering, Before, NextPhase, Blank
  <1> QED
    BY <1>0, <1>1, <1>3

(* The poll ends only on the answer: the slot was blank before.            *)
LEMMA PollIsAnswered ==
    ASSUME AdminInv, pc = "poll", comp_cmd[cq_head].command_id = cid
    PROVE  Answered /\ comp_cmd[cq_head] = reply /\ PhaseOK
  <1>1. cq_head \in Index /\ cid # 0 /\ reply \in Entry
    BY DEF AdminInv, TypeOK
  <1>2. ~Working
    BY <1>1, ClearedEntry DEF Working, Before, Blank
  <1>3. Answered
    BY <1>2 DEF AdminInv
  <1>4. comp_cmd[cq_head] = reply
    BY <1>1, <1>3 DEF Answered, Blank
  <1> QED
    BY <1>3, <1>4 DEF Answered, Answering, PhaseOK

LEMMA GetResultAdminInv == ASSUME AdminInv, GetResult PROVE AdminInv'
  <1>. USE DEF AdminInv
  <1>0. /\ UNCHANGED <<cmdid_counter, sub_cmd, sq_tail, sq_head, sq_db, cq_head, cq_phase,
                       cq_db, kind, cid, status, signalled, dev, dev_sqhd,
                       dev_cqtail, dev_phase, reply>>
        /\ pc = "poll" /\ pc' = "ring" /\ comp_cmd[cq_head].command_id = cid
        /\ comp_cmd' = check_command_completion
        /\ result' = check_command_completion[cq_head].result
    BY DEF GetResult, devVars
  <1>1. Answered /\ PhaseOK /\ cq_head \in Index /\ dev \subseteq {"interrupt", "post"}
    BY <1>0, PollIsAnswered DEF TypeOK
  <1>2. check_command_completion = Blank
    BY <1>1 DEF check_command_completion, Answered, Blank
  <1>3. comp_cmd' = Blank /\ result' = 0
    BY <1>0, <1>1, <1>2, ClearedEntry DEF Blank
  <1>4. TypeOK'
    BY <1>0, <1>3, ClearedEntry, AdminAssumption DEF TypeOK
  <1>5. Lag'
    BY <1>0 DEF Lag
  <1>6. dev = {} /\ ~signalled
    BY <1>0, <1>1 DEF Answered
  <1>7. Rest' /\ dev_cqtail' = inc(cq_head') /\ dev_phase' = NextPhase'
    BY <1>0, <1>1, <1>3, <1>6 DEF Rest, Answered, Answering, NextPhase, Blank
  <1> QED
    BY <1>0, <1>3, <1>4, <1>5, <1>7

LEMMA RingAdminInv == ASSUME AdminInv, RingSingleCompletion PROVE AdminInv'
  <1>. USE DEF AdminInv
  <1>0. /\ UNCHANGED <<cmdid_counter, sub_cmd, sq_tail, sq_db, kind, cid, result, status,
                       comp_cmd, signalled, dev, dev_sqhd, dev_cqtail, dev_phase, reply>>
        /\ pc = "ring" /\ pc' \in {"idle", "status"}
        /\ sq_head' = cq_head /\ cq_db' = cq_head /\ cq_head' = inc(cq_head)
        /\ cq_phase' = NextPhase
        /\ cq_head \in Index /\ cq_phase \in 0 .. 1
    BY DEF RingSingleCompletion, devVars, TypeOK, NextPhase
  <1>1. cq_phase' \in 0 .. 1 /\ inc(cq_head) \in Index
    BY <1>0, IncArith DEF NextPhase
  <1>2. TypeOK'
    BY <1>0, <1>1 DEF TypeOK
  <1>3. Lag'
    BY <1>0 DEF Lag
  <1>4. Rest' /\ Before'
    BY <1>0 DEF Rest, Before, Blank
  <1> QED
    BY <1>0, <1>2, <1>3, <1>4

(* The status is read from the next slot, which is blank: the check        *)
(* cannot fail.                                                            *)
LEMMA GetStatusAdminInv == ASSUME AdminInv, GetStatus PROVE AdminInv'
  <1>. USE DEF AdminInv
  <1>0. /\ UNCHANGED <<cmdid_counter, sub_cmd, sq_tail, sq_head, sq_db, cq_head, cq_phase,
                       cq_db, kind, cid, result, comp_cmd, signalled, dev, dev_sqhd,
                       dev_cqtail, dev_phase, reply>>
        /\ pc = "status" /\ cq_head \in Index /\ comp_cmd = Blank
        /\ status' = 2 * comp_cmd[cq_head].status + comp_cmd[cq_head].phase_tag
        /\ pc' = IF result = 0 /\ status' = 0 THEN "idle" ELSE "aborted"
    BY DEF GetStatus, devVars, TypeOK, Rest
  <1>1. status' = 0
    BY <1>0, ClearedEntry DEF Blank
  <1>2. pc' = "idle"
    BY <1>0, <1>1
  <1>3. TypeOK' /\ Lag'
    BY <1>0, <1>1, <1>2 DEF TypeOK, Lag
  <1>4. Rest' /\ Before'
    BY <1>0 DEF Rest, Before, Blank
  <1> QED
    BY <1>0, <1>2, <1>3, <1>4

LEMMA FetchAdminInv == ASSUME AdminInv, DevFetch PROVE AdminInv'
  <1>. USE DEF AdminInv
  <1>0. /\ UNCHANGED <<cmdid_counter, sub_cmd, sq_tail, sq_head, sq_db, cq_head, cq_phase,
                       cq_db, pc, kind, cid, result, status, comp_cmd, signalled,
                       dev_cqtail, dev_phase>>
        /\ dev = {} /\ dev_sqhd # sq_tail /\ dev' = {"interrupt", "post"}
        /\ dev_sqhd' = inc(dev_sqhd)
    BY DEF DevFetch, hostVars, Lag
  <1>1. PICK r \in Word, s \in Word :
           reply' = [command_id |-> sub_cmd[dev_sqhd], result |-> r,
                     status |-> s, phase_tag |-> dev_phase]
    BY DEF DevFetch
  <1>2. pc = "irq" /\ Sent
    BY <1>0 DEF Rest, Working, Answered, Answering, TypeOK
  <1>3. /\ dev_sqhd \in Index /\ dev_phase \in 0 .. 1 /\ sub_cmd[dev_sqhd] \in CmdIds
    BY DEF TypeOK
  <1>4. reply' \in Entry /\ reply'.command_id = cid /\ reply'.phase_tag = cq_phase
    BY <1>1, <1>2, <1>3 DEF Entry, Sent, Before
  <1>5. TypeOK' /\ Lag'
    BY <1>0, <1>3, <1>4, IncArith DEF TypeOK, Lag
  <1>6. Working'
    BY <1>0, <1>2, <1>4 DEF Working, Answering, Before, Sent, Blank
  <1>7. signalled' <=> "interrupt" \notin dev'
    BY <1>0, <1>2 DEF Sent
  <1> QED
    BY <1>0, <1>2, <1>5, <1>6, <1>7

(* The interrupt, before or after the completion.                          *)
LEMMA InterruptAdminInv == ASSUME AdminInv, DevInterrupt PROVE AdminInv'
  <1>. USE DEF AdminInv
  <1>0. /\ UNCHANGED <<cmdid_counter, sub_cmd, sq_tail, sq_head, sq_db, cq_head, cq_phase,
                       cq_db, pc, kind, cid, result, status, comp_cmd,
                       dev_sqhd, dev_cqtail, dev_phase, reply>>
        /\ "interrupt" \in dev /\ dev' = dev \ {"interrupt"} /\ signalled' = TRUE
    BY DEF DevInterrupt, hostVars
  <1>1. pc = "irq" /\ (Working \/ Answered)
    BY <1>0 DEF Rest, Sent, TypeOK
  <1>2. TypeOK' /\ Lag'
    BY <1>0 DEF TypeOK, Lag
  <1>3. (Working \/ Answered)'
    BY <1>0, <1>1 DEF Working, Answered, Answering, Before, NextPhase, Blank
  <1> QED
    BY <1>0, <1>1, <1>2, <1>3

LEMMA PostAdminInv == ASSUME AdminInv, DevPost PROVE AdminInv'
  <1>. USE DEF AdminInv
  <1>0. /\ UNCHANGED <<cmdid_counter, sub_cmd, sq_tail, sq_head, sq_db, cq_head, cq_phase,
                       cq_db, pc, kind, cid, result, status, signalled, dev_sqhd, reply>>
        /\ "post" \in dev /\ dev' = dev \ {"post"}
        /\ comp_cmd' = [comp_cmd EXCEPT ![dev_cqtail] = reply]
        /\ dev_cqtail' = inc(dev_cqtail)
        /\ dev_phase' = IF inc(dev_cqtail) = 0 THEN 1 - dev_phase ELSE dev_phase
    BY DEF DevPost, hostVars
  <1>1. pc \in {"irq", "poll"} /\ Working
    BY <1>0 DEF Rest, Sent, Answered, TypeOK
  <1>2. /\ cq_head \in Index /\ cq_phase \in 0 .. 1 /\ comp_cmd \in [Index -> Entry]
        /\ reply \in Entry
    BY DEF TypeOK
  <1>3. /\ comp_cmd' = [Blank EXCEPT ![cq_head] = reply]
        /\ dev_cqtail' = inc(cq_head) /\ dev_phase' = NextPhase
    BY <1>0, <1>1 DEF Working, Before, NextPhase
  <1>4. inc(cq_head) \in Index /\ NextPhase \in 0 .. 1
    BY <1>2, IncArith DEF NextPhase
  <1>5. comp_cmd' \in [Index -> Entry]
    BY <1>2, <1>3, ClearedEntry
  <1>6. TypeOK' /\ Lag'
    BY <1>0, <1>3, <1>4, <1>5 DEF TypeOK, Lag
  <1>7. Answered'
    BY <1>0, <1>1, <1>3, Zenon DEF Answered, Working, Answering, NextPhase, Blank
  <1> QED
    BY <1>0, <1>1, <1>6, <1>7 DEF Sent

LEMMA StutterAdminInv == ASSUME AdminInv, UNCHANGED vars PROVE AdminInv'
  <1>1. TypeOK' /\ Lag' /\ (Sent' <=> Sent) /\ (Working' <=> Working)
        /\ (Answered' <=> Answered) /\ (Rest' <=> Rest) /\ (Before' <=> Before)
    BY DEF AdminInv, TypeOK, Lag, Sent, Working, Answered, Answering, Rest, Before,
           NextPhase, Blank, vars, hostVars, devVars
  <1> QED
    BY <1>1 DEF AdminInv, NextPhase, vars, hostVars, devVars

LEMMA HostAdminInv == ASSUME AdminInv, Host PROVE AdminInv'
  <1>1. CASE PollAgain
    BY <1>1, StutterAdminInv DEF PollAgain
  <1> QED
    BY <1>1, WaitIrqAdminInv, GetResultAdminInv, RingAdminInv, GetStatusAdminInv DEF Host

LEMMA NextAdminInv == ASSUME AdminInv, [Next]_vars PROVE AdminInv'
  BY SubmitAdminInv, HostAdminInv, FetchAdminInv, InterruptAdminInv, PostAdminInv,
     StutterAdminInv DEF Next, Device

(* What the invariant says of the poll, of the rings between commands, and *)
(* of their room.                                                          *)
LEMMA AdminInvSafe == ASSUME AdminInv PROVE PollFindsReply /\ InStep /\ NeverFull
  <1>1. PollFindsReply
    BY PollIsAnswered DEF PollFindsReply
  <1>2. InStep
    BY DEF AdminInv, InStep, Rest, Before, Blank
  <1>3. NeverFull
    <2>1. cq_head \in Index /\ cq_db \in Index /\ sq_tail \in Index
      BY DEF AdminInv, TypeOK
    <2>2. pc = "idle" => inc(sq_tail) # sq_head
      BY <2>1, IncArith DEF AdminInv, Lag
    <2>3. "post" \in dev => dev_cqtail = cq_head
      BY DEF AdminInv, Sent, Working, Answered, Rest, Before, TypeOK
    <2>4. inc(cq_head) # cq_db
      BY <2>1, IncArith DEF AdminInv, Lag
    <2> QED
      BY <2>2, <2>3, <2>4 DEF NeverFull
  <1> QED
    BY <1>1, <1>2, <1>3

(* The admin queue on its own: the poll of check_command_completion ends   *)
(* on the reply to its command, the rings are in step between commands,    *)
(* neither ring is ever full, and the driver never stops on a bad result.  *)
THEOREM AdminQueueSafety ==
    Spec => [](PollFindsReply /\ InStep /\ NeverFull /\ pc # "aborted")
  <1>1. AdminInv /\ [Next]_vars => AdminInv'
    BY NextAdminInv
  <1>2. AdminInv => PollFindsReply /\ InStep /\ NeverFull /\ pc # "aborted"
    BY AdminInvSafe DEF AdminInv
  <1> QED
    BY <1>1, <1>2, InitAdminInv, PTL DEF Spec

-----------------------------------------------------------------------------
(* The device.  Between two commands the host waits for nothing.           *)
LEMMA NoCmdQuiet ==
    ASSUME DeviceInv, cmd = NoCmd
    PROVE  /\ TypeOK /\ pc = "idle" /\ ~signalled /\ dev = {} /\ result = 0 /\ ~Obeyed
           /\ inc(sq_tail) # sq_head
  <1>1. pc = "idle" /\ ~Obeyed
    BY Zenon DEF DeviceInv, CmdInv, Obeyed
  <1>2. CASE Unplugged
    BY <1>1, <1>2, Zenon DEF DeviceInv, RingsInv, EnableInv, Unplugged
  <1>3. CASE ~Unplugged
    <2>1. AdminInv
      BY <1>3, Zenon DEF DeviceInv, RingsInv
    <2>2. inc(sq_tail) # sq_head
      BY <1>1, <2>1, AdminInvSafe, Zenon DEF NeverFull
    <2> QED
      BY <1>1, <2>1, <2>2, Zenon DEF AdminInv, Rest
  <1> QED
    BY <1>1, <1>2, <1>3, Zenon

(* A command is under way only with a controller that is ready.            *)
LEMMA CmdReady ==
    ASSUME DeviceInv, cmd # NoCmd
    PROVE  /\ AdminInv /\ stage = cmd.op /\ stage \in Ops /\ queue = cmd.q
           /\ ctl.ready /\ ctl.enabled /\ ~Unplugged
  BY Zenon DEF DeviceInv, CmdInv, EnableInv, RingsInv, Unplugged, Ops

LEMMA InitDeviceInv == NVMeInit => DeviceInv
  <1> SUFFICES ASSUME NVMeInit PROVE DeviceInv
    BY Zenon
  <1>. USE DEF NVMeInit
  <1>1. NVMeTypeOK
    BY Zenon DEF NVMeTypeOK, Stages, Ops, NoCmd, Off
  <1>2. AdminInv
    BY InitAdminInv, Zenon
  <1>3. EnableInv
    BY Zenon DEF EnableInv, Off, Ops, Init
  <1>4. CmdInv
    BY Zenon DEF CmdInv, NoCmd, Init
  <1>5. QueuesInv
    BY DEF QueuesInv, HasCq, HasSq, Off, PerQueue
  <1> QED
    BY <1>1, <1>2, <1>3, <1>4, <1>5, Zenon DEF DeviceInv, RingsInv, Unplugged

(* Steps between commands that leave the admin queue alone: the rings stay *)
(* in step unless the controller is off.                                   *)
LEMMA RingsKept ==
    ASSUME DeviceInv, cmd = NoCmd, UNCHANGED vars, Unplugged => Unplugged'
    PROVE  RingsInv'
  <1>1. TypeOK /\ pc = "idle" /\ ~signalled /\ result = 0 /\ inc(sq_tail) # sq_head
    BY NoCmdQuiet, Zenon
  <1>2. CASE Unplugged'
    BY <1>1, <1>2, Zenon DEF RingsInv, TypeOK, inc, vars, hostVars, devVars
  <1>3. CASE ~Unplugged'
    BY <1>3, StutterAdminInv, Zenon DEF DeviceInv, RingsInv
  <1> QED
    BY <1>2, <1>3, Zenon

LEMMA InitDeviceStep == ASSUME DeviceInv, init_device PROVE DeviceInv'
  <1>. USE DEF init_device
  <1>1. cmd = NoCmd
    BY Zenon DEF DeviceInv, CmdInv, Ops
  <1>2. NVMeTypeOK'
    BY Zenon DEF DeviceInv, NVMeTypeOK, Stages, Queues
  <1>3. RingsInv'
    BY <1>1, RingsKept, Zenon DEF Unplugged
  <1>4. EnableInv'
    BY Zenon DEF DeviceInv, EnableInv, Ops, vars, devVars
  <1>5. CmdInv'
    BY <1>1, NoCmdQuiet, Zenon DEF CmdInv, NoCmd, vars, hostVars
  <1>6. QueuesInv'
    BY Zenon DEF DeviceInv, QueuesInv, HasCq, HasSq, PerQueue
  <1> QED
    BY <1>2, <1>3, <1>4, <1>5, <1>6, Zenon DEF DeviceInv

LEMMA CcDisableStep == ASSUME DeviceInv, cc_disable PROVE DeviceInv'
  <1>. USE DEF cc_disable
  <1>1. cmd = NoCmd
    BY Zenon DEF DeviceInv, CmdInv, Ops
  <1>2. NVMeTypeOK'
    BY Zenon DEF DeviceInv, NVMeTypeOK, Stages, Queues
  <1>3. RingsInv'
    BY <1>1, RingsKept, Zenon DEF Unplugged
  <1>4. EnableInv'
    BY Zenon DEF DeviceInv, EnableInv, NVMeTypeOK, Ops, vars, devVars
  <1>5. CmdInv'
    BY <1>1, NoCmdQuiet, Zenon DEF CmdInv, NoCmd, vars, hostVars
  <1>6. QueuesInv'
    BY Zenon DEF DeviceInv, QueuesInv, NVMeTypeOK, HasCq, HasSq, PerQueue
  <1> QED
    BY <1>2, <1>3, <1>4, <1>5, <1>6, Zenon DEF DeviceInv

(* The new rings meet a controller that has forgotten the old ones.        *)
LEMMA CreateAdminStep == ASSUME DeviceInv, create_admin_queues PROVE DeviceInv'
  <1>. USE DEF create_admin_queues
  <1>1. cmd = NoCmd /\ ~ctl.ready
    BY Zenon DEF DeviceInv, CmdInv, Ops
  <1>2. NVMeTypeOK'
    BY Zenon DEF DeviceInv, NVMeTypeOK, Stages, Queues
  <1>3. /\ TypeOK /\ pc = "idle" /\ signalled = FALSE /\ dev = {} /\ result = 0
        /\ dev_sqhd = 0 /\ dev_cqtail = 0 /\ dev_phase = 1
    BY <1>1, NoCmdQuiet, Zenon DEF DeviceInv, EnableInv, TypeOK
  <1>4. AdminInv'
    <2>1. TypeOK'
      <3>1. 0 \in CmdIds /\ 0 \in Index /\ 1 \in 0 .. 1
        BY AdminAssumption DEF CmdIds, Index
      <3>2. comp_cmd' \in [Index -> Entry] /\ sub_cmd' \in [Index -> CmdIds]
        BY <3>1, ClearedEntry, Zenon
      <3> QED
        BY <1>3, <3>1, <3>2, Zenon DEF TypeOK, devVars
    <2>2. Lag' /\ Rest' /\ Before'
      BY <1>3, Zenon DEF Lag, Rest, Before, Blank, devVars
    <2> QED
      BY <1>3, <2>1, <2>2, Zenon DEF AdminInv
  <1>5. RingsInv' /\ EnableInv'
    BY <1>1, <1>3, <1>4, Zenon DEF RingsInv, Unplugged, DeviceInv, EnableInv, Ops,
       devVars
  <1>6. CmdInv'
    BY <1>1, <1>3, Zenon DEF CmdInv, NoCmd
  <1>7. QueuesInv'
    BY Zenon DEF DeviceInv, QueuesInv, HasCq, HasSq, PerQueue
  <1> QED
    BY <1>2, <1>5, <1>6, <1>7, Zenon DEF DeviceInv

LEMMA CcEnableStep == ASSUME DeviceInv, cc_enable PROVE DeviceInv'
  <1>. USE DEF cc_enable
  <1>1. cmd = NoCmd
    BY Zenon DEF DeviceInv, CmdInv, Ops
  <1>2. NVMeTypeOK'
    BY Zenon DEF DeviceInv, NVMeTypeOK, Stages, Queues
  <1>3. RingsInv'
    BY <1>1, RingsKept, Zenon DEF Unplugged
  <1>4. EnableInv'
    BY Zenon DEF DeviceInv, EnableInv, NVMeTypeOK, Ops, vars, devVars
  <1>5. CmdInv'
    BY <1>1, NoCmdQuiet, Zenon DEF DeviceInv, CmdInv, NoCmd, vars, hostVars
  <1>6. QueuesInv'
    BY Zenon DEF DeviceInv, QueuesInv, NVMeTypeOK, HasCq, HasSq, PerQueue
  <1> QED
    BY <1>2, <1>3, <1>4, <1>5, <1>6, Zenon DEF DeviceInv

LEMMA PollReadyStep == ASSUME DeviceInv, poll_ready PROVE DeviceInv'
  <1>. USE DEF poll_ready
  <1>0. /\ stage = "wait" /\ stage' \in {"set_queue_num", "wait", "failed"}
        /\ stage' = "set_queue_num" => ctl.ready
        /\ UNCHANGED <<config, queue, nn, cmd, memory, thread, ctl, refused, vars>>
    BY Zenon
  <1>1. cmd = NoCmd
    BY Zenon DEF DeviceInv, CmdInv, Ops
  <1>2. NVMeTypeOK'
    BY <1>0, Zenon DEF DeviceInv, NVMeTypeOK, Stages, Ops, Queues
  <1>3. RingsInv'
    BY <1>0, <1>1, RingsKept, Zenon DEF Unplugged
  <1>4. EnableInv'
    BY <1>0, Zenon DEF DeviceInv, EnableInv, Ops, vars, devVars
  <1>5. CmdInv'
    BY <1>0, <1>1, NoCmdQuiet, Zenon DEF DeviceInv, CmdInv, NoCmd, vars, hostVars
  <1>6. QueuesInv'
    <2>1. HasCq = {} /\ HasSq = {} /\ HasCq' = {} /\ HasSq' = {}
      BY <1>0, Zenon DEF HasCq, HasSq
    <2>2. ~Obeyed' /\ stage' \notin PerQueue
      BY <1>0, <1>1, Zenon DEF Obeyed, PerQueue
    <2> QED
      BY <1>0, <2>1, <2>2 DEF DeviceInv, QueuesInv
  <1> QED
    BY <1>2, <1>3, <1>4, <1>5, <1>6, Zenon DEF DeviceInv

LEMMA ShutdownStep == ASSUME DeviceInv, shutdown_device PROVE DeviceInv'
  <1>. USE DEF shutdown_device
  <1>1. cmd = NoCmd
    BY Zenon DEF DeviceInv, CmdInv, Ops
  <1>2. NVMeTypeOK'
    BY Zenon DEF DeviceInv, NVMeTypeOK, Stages, Queues
  <1>3. RingsInv'
    BY <1>1, RingsKept, Zenon DEF Unplugged
  <1>4. EnableInv'
    BY Zenon DEF DeviceInv, EnableInv, Ops, vars, devVars
  <1>5. CmdInv'
    BY <1>1, NoCmdQuiet, Zenon DEF DeviceInv, CmdInv, NoCmd, vars, hostVars
  <1>6. QueuesInv'
    <2>1. queue' \in Queues'
      BY DeviceAssumption DEF DeviceInv, QueuesInv, NVMeTypeOK, Queues
    <2>2. HasCq' = HasCq /\ HasSq' = HasSq
      BY Zenon DEF HasCq, HasSq
    <2> QED
      BY <2>1, <2>2, Zenon DEF DeviceInv, QueuesInv
  <1> QED
    BY <1>2, <1>3, <1>4, <1>5, <1>6, Zenon DEF DeviceInv

LEMMA CancelStep == ASSUME DeviceInv, cancel_cq_thread PROVE DeviceInv'
  <1>. USE DEF cancel_cq_thread
  <1>1. cmd = NoCmd
    BY Zenon DEF DeviceInv, CmdInv, Ops
  <1>2. queue \in Queues /\ thread \in [Queues -> {"none", "started"}]
    BY Zenon DEF DeviceInv, NVMeTypeOK, QueuesInv, PerQueue
  <1>3. NVMeTypeOK'
    BY <1>2 DEF DeviceInv, NVMeTypeOK, Stages, Ops, Queues
  <1>4. RingsInv'
    BY <1>1, RingsKept, Zenon DEF Unplugged
  <1>5. EnableInv'
    BY Zenon DEF DeviceInv, EnableInv, Ops, vars, devVars
  <1>6. CmdInv'
    BY <1>1, NoCmdQuiet, Zenon DEF DeviceInv, CmdInv, NoCmd, vars, hostVars
  <1>7. QueuesInv'
    <2>1. queue' \in Queues' /\ thread'[queue'] = "none"
      BY <1>2, Zenon DEF Queues
    <2>2. HasCq' = HasCq /\ HasSq' = HasSq
      BY <1>1, Zenon DEF HasCq, HasSq, Obeyed
    <2> QED
      BY <2>1, <2>2, Zenon DEF DeviceInv, QueuesInv
  <1> QED
    BY <1>3, <1>4, <1>5, <1>6, <1>7, Zenon DEF DeviceInv

(* The device's memory goes when the controller has no queue left.         *)
LEMMA DeleteStep == ASSUME DeviceInv, delete_device PROVE DeviceInv'
  <1>. USE DEF delete_device
  <1>1. cmd = NoCmd
    BY Zenon DEF DeviceInv, CmdInv, Ops
  <1>2. NVMeTypeOK'
    BY Zenon DEF DeviceInv, NVMeTypeOK, Stages, Queues
  <1>3. RingsInv'
    BY <1>1, RingsKept, Zenon DEF Unplugged
  <1>4. EnableInv'
    BY Zenon DEF DeviceInv, EnableInv, Ops, vars, devVars
  <1>5. CmdInv'
    BY <1>1, NoCmdQuiet, Zenon DEF CmdInv, NoCmd, vars, hostVars
  <1>6. QueuesInv'
    BY Zenon DEF DeviceInv, QueuesInv, HasCq, HasSq, PerQueue
  <1> QED
    BY <1>2, <1>3, <1>4, <1>5, <1>6, Zenon DEF DeviceInv

(* A command is issued: the controller has not fetched it.                 *)
LEMMA IssueStep ==
    ASSUME DeviceInv, NEW op \in Ops, NEW k \in Kind, NEW size \in Nat,
           op = "create_cq" => size <= MQES + 1, Issue(op, k, size)
    PROVE  DeviceInv'
  <1>0. /\ stage = op /\ cmd = NoCmd /\ cmd' = [op |-> op, q |-> queue, size |-> size]
        /\ memory' = memory \cup Rings(op) /\ Submit(k)
        /\ UNCHANGED <<stage, config, queue, attempts, nn, thread, ctl, refused>>
    BY Zenon DEF Issue
  <1>1. ctl.ready /\ AdminInv /\ queue \in Nat
    BY <1>0, Zenon DEF DeviceInv, EnableInv, RingsInv, Unplugged, Ops, NVMeTypeOK
  <1>2. cmd' # NoCmd
    BY <1>0, Zenon DEF NoCmd, Ops
  <1>3. NVMeTypeOK'
    BY <1>0, <1>1, Zenon DEF DeviceInv, NVMeTypeOK, Queues
  <1>4. RingsInv'
    BY <1>0, <1>1, SubmitAdminInv, Zenon DEF RingsInv, Unplugged
  <1>5. EnableInv'
    BY <1>0, <1>1, Zenon DEF DeviceInv, EnableInv
  <1>6. CmdInv'
    BY <1>0, <1>2, Zenon DEF DeviceInv, CmdInv, Rings, Ops
  <1>7. QueuesInv'
    <2>1. dev_sqhd' # sq_tail' /\ pc' = "irq"
      BY <1>0, <1>1, IncArith, Zenon DEF Submit, AdminInv, Rest, TypeOK, devVars
    <2>2. ~Obeyed /\ ~Obeyed'
      BY <1>0, <2>1, Zenon DEF Obeyed
    <2>3. HasCq' = HasCq /\ HasSq' = HasSq
      BY <1>0, <2>2, Zenon DEF HasCq, HasSq
    <2> QED
      BY <1>0, <2>2, <2>3, Zenon DEF DeviceInv, QueuesInv, Queues
  <1> QED
    BY <1>3, <1>4, <1>5, <1>6, <1>7, Zenon DEF DeviceInv

(* A command has ended: the controller has obeyed or refused it.  What is  *)
(* left to see is that the next stage has the queues it should.            *)
LEMMA DoneStep ==
    ASSUME DeviceInv, cmd # NoCmd, pc = "idle",
           NEW s \in Ops \cup {"up", "cancel", "delete", "failed"},
           NEW q \in Nat, Done(s, q), thread' \in [Queues -> {"none", "started"}], QueuesInv'
    PROVE  DeviceInv'
  <1>. USE DEF Done
  <1>0. AdminInv /\ stage \in Ops /\ ctl.ready /\ ctl.enabled
    BY CmdReady, Zenon
  <1>1. NVMeTypeOK'
    BY Zenon DEF DeviceInv, NVMeTypeOK, Stages, Queues, NoCmd
  <1>2. RingsInv'
    BY <1>0, StutterAdminInv, Zenon DEF RingsInv, Unplugged
  <1>3. EnableInv'
    BY <1>0, Zenon DEF EnableInv, Ops
  <1>4. CmdInv'
    BY <1>0, Zenon DEF DeviceInv, CmdInv, NoCmd, Ops, vars, hostVars
  <1> QED
    BY <1>1, <1>2, <1>3, <1>4, Zenon DEF DeviceInv

LEMMA EndedObeyed ==
    ASSUME DeviceInv, NEW op \in Ops, Ended(op)
    PROVE  /\ cmd # NoCmd /\ stage = op /\ pc = "idle" /\ Obeyed
           /\ config.num \in Nat \ {0} /\ queue \in Nat
           /\ thread \in [Queues -> {"none", "started"}]
  BY DeviceAssumption DEF Ended, NoCmd, Ops, Obeyed, DeviceInv, NVMeTypeOK

LEMMA ExamineStep ==
    ASSUME DeviceInv,
           \/ Ended("set_queue_num") /\ Done("identify", 0) /\ UNCHANGED <<nn, thread>>
           \/ check_controller_result \/ check_ns_result
           \/ /\ Ended("set_irq_coal_options")
              /\ Done(IF config.num < MaxQueues THEN "create_cq" ELSE "failed", 1)
              /\ UNCHANGED <<nn, thread>>
    PROVE  DeviceInv'
  <1>1. PICK op \in {"set_queue_num", "identify", "identify_ns", "set_irq_coal_options"},
             s \in {"identify", "identify_ns", "set_irq_coal_options", "create_cq", "failed"},
             q \in Nat : /\ Ended(op) /\ Done(s, q) /\ thread' = thread
                         /\ s = "create_cq" => q = 1
    <2>1. CASE check_controller_result
      BY <2>1, Zenon DEF check_controller_result
    <2>2. CASE check_ns_result
      BY <2>2 DEF check_ns_result, DeviceInv, NVMeTypeOK
    <2>3. CASE /\ Ended("set_irq_coal_options")
               /\ Done(IF config.num < MaxQueues THEN "create_cq" ELSE "failed", 1)
               /\ UNCHANGED <<nn, thread>>
      BY <2>3, Zenon
    <2> QED
      BY <2>1, <2>2, <2>3, Zenon
  <1>2. /\ cmd # NoCmd /\ stage = op /\ pc = "idle" /\ Obeyed /\ config.num \in Nat \ {0}
        /\ thread \in [Queues -> {"none", "started"}]
    BY <1>1, EndedObeyed, Zenon DEF Ops
  <1>3. QueuesInv'
    <2>1. ~Obeyed' /\ stage' = s /\ queue' = q /\ UNCHANGED <<ctl, memory, refused, config>>
      BY <1>1, Zenon DEF Done, Obeyed
    <2>2. HasCq = {} /\ HasSq = {} /\ HasCq' = {} /\ HasSq' = {}
      BY <1>1, <1>2, <2>1 DEF HasCq, HasSq
    <2>3. s = "create_cq" => queue' \in Queues'
      BY <1>1, <1>2, <2>1 DEF Queues
    <2> QED
      BY <1>2, <2>1, <2>2, <2>3, Zenon DEF DeviceInv, QueuesInv, PerQueue
  <1> QED
    BY <1>1, <1>2, <1>3, DoneStep, Zenon DEF Ops

(* The I/O queues are created one by one, the completion queue first.      *)
LEMMA CreateDoneStep ==
    ASSUME DeviceInv,
           \/ Ended("create_cq") /\ Done("create_sq", queue) /\ UNCHANGED <<nn, thread>>
           \/ /\ Ended("create_sq")
              /\ thread' = [thread EXCEPT ![queue] = "started"]
              /\ Done("set_irq_coal", queue)
           \/ /\ Ended("set_irq_coal")
              /\ IF queue < config.num THEN Done("create_cq", queue + 1) ELSE Done("up", 1)
              /\ UNCHANGED <<nn, thread>>
    PROVE  DeviceInv'
  <1>1. CASE Ended("create_cq") /\ Done("create_sq", queue) /\ UNCHANGED <<nn, thread>>
    <2>1. /\ cmd # NoCmd /\ stage = "create_cq" /\ pc = "idle" /\ Obeyed
          /\ queue \in Nat /\ thread \in [Queues -> {"none", "started"}]
      BY <1>1, EndedObeyed, Zenon DEF Ops
    <2>2. /\ ~Obeyed' /\ stage' = "create_sq" /\ queue' = queue
          /\ UNCHANGED <<ctl, memory, refused, config>>
      BY <1>1, Zenon DEF Done, Obeyed
    <2>3. HasCq' = HasCq /\ HasSq' = HasSq
      BY <2>1, <2>2, Zenon DEF HasCq, HasSq
    <2>4. QueuesInv'
      BY <2>1, <2>2, <2>3, Zenon DEF DeviceInv, QueuesInv, PerQueue, Queues
    <2> QED
      BY <1>1, <2>1, <2>4, DoneStep, Zenon DEF Ops
  <1>2. CASE /\ Ended("create_sq") /\ thread' = [thread EXCEPT ![queue] = "started"]
             /\ Done("set_irq_coal", queue)
    <2>1. /\ cmd # NoCmd /\ stage = "create_sq" /\ pc = "idle" /\ Obeyed
          /\ queue \in Nat /\ thread \in [Queues -> {"none", "started"}]
      BY <1>2, EndedObeyed, Zenon DEF Ops
    <2>2. /\ ~Obeyed' /\ stage' = "set_irq_coal" /\ queue' = queue
          /\ UNCHANGED <<ctl, memory, refused, config>>
      BY <1>2, Zenon DEF Done, Obeyed
    <2>3. HasCq' = HasCq /\ HasSq' = HasSq
      BY <2>1, <2>2, Zenon DEF HasCq, HasSq
    <2>4. QueuesInv'
      BY <2>1, <2>2, <2>3, Zenon DEF DeviceInv, QueuesInv, PerQueue, Queues
    <2>5. thread' \in [Queues -> {"none", "started"}]
      BY <1>2, <2>1, Zenon
    <2> QED
      BY <1>2, <2>1, <2>4, <2>5, DoneStep, Zenon DEF Ops
  <1>3. CASE /\ Ended("set_irq_coal") /\ UNCHANGED <<nn, thread>>
             /\ IF queue < config.num THEN Done("create_cq", queue + 1) ELSE Done("up", 1)
    <2>1. /\ cmd # NoCmd /\ stage = "set_irq_coal" /\ pc = "idle" /\ Obeyed
          /\ queue \in Nat /\ thread \in [Queues -> {"none", "started"}]
          /\ config.num \in Nat \ {0}
      BY <1>3, EndedObeyed, Zenon DEF Ops
    <2>2. queue \in 1 .. config.num
      BY <2>1, Zenon DEF DeviceInv, QueuesInv, PerQueue, Queues
    <2>3. PICK s \in {"create_cq", "up"}, q \in Nat :
               /\ Done(s, q)
               /\ s = "create_cq" => q = queue + 1 /\ q \in 1 .. config.num
               /\ s = "up" => q = 1 /\ queue = config.num
      BY <1>3, <2>1, <2>2
    <2>4. /\ ~Obeyed' /\ stage' = s /\ queue' = q
          /\ UNCHANGED <<ctl, memory, refused, config>>
      BY <2>3, Zenon DEF Done, Obeyed
    <2>5. HasCq = 1 .. queue /\ HasSq = 1 .. queue
      BY <2>1, Zenon DEF HasCq, HasSq
    <2>6. HasCq' = HasCq /\ HasSq' = HasSq
      <3>1. CASE s = "create_cq"
        <4>1. HasCq' = 1 .. q - 1 /\ HasSq' = 1 .. q - 1
          BY <2>4, <3>1, Zenon DEF HasCq, HasSq
        <4> QED
          BY <2>1, <2>3, <2>5, <3>1, <4>1
      <3>2. CASE s = "up"
        <4>1. HasCq' = q .. config.num /\ HasSq' = q .. config.num
          BY <2>4, <3>2, Zenon DEF HasCq, HasSq
        <4> QED
          BY <2>3, <2>5, <3>2, <4>1, Zenon
      <3> QED
        BY <3>1, <3>2, Zenon
    <2>7. QueuesInv'
      BY <2>1, <2>3, <2>4, <2>6, Zenon DEF DeviceInv, QueuesInv, PerQueue, Queues
    <2> QED
      BY <1>3, <2>1, <2>3, <2>7, DoneStep, Zenon DEF Ops
  <1> QED
    BY <1>1, <1>2, <1>3, Zenon

(* And deleted one by one, the submission queue first.                     *)
LEMMA DeleteDoneStep ==
    ASSUME DeviceInv, UNCHANGED thread,
           \/ Ended("delete_sq") /\ Done("delete_cq", queue)
           \/ /\ Ended("delete_cq")
              /\ IF queue < config.num THEN Done("cancel", queue + 1) ELSE Done("delete", 0)
    PROVE  DeviceInv'
  <1>1. CASE Ended("delete_sq") /\ Done("delete_cq", queue)
    <2>1. /\ cmd # NoCmd /\ stage = "delete_sq" /\ pc = "idle" /\ Obeyed
          /\ queue \in Nat /\ thread \in [Queues -> {"none", "started"}]
      BY <1>1, EndedObeyed, Zenon DEF Ops
    <2>2. /\ ~Obeyed' /\ stage' = "delete_cq" /\ queue' = queue
          /\ UNCHANGED <<ctl, memory, refused, config>>
      BY <1>1, Zenon DEF Done, Obeyed
    <2>3. HasCq' = HasCq /\ HasSq' = HasSq
      BY <2>1, <2>2, Zenon DEF HasCq, HasSq
    <2>4. QueuesInv'
      BY <2>1, <2>2, <2>3, Zenon DEF DeviceInv, QueuesInv, PerQueue, Queues
    <2> QED
      BY <1>1, <2>1, <2>4, DoneStep, Zenon DEF Ops
  <1>2. CASE /\ Ended("delete_cq")
             /\ IF queue < config.num THEN Done("cancel", queue + 1) ELSE Done("delete", 0)
    <2>1. /\ cmd # NoCmd /\ stage = "delete_cq" /\ pc = "idle" /\ Obeyed
          /\ queue \in Nat /\ thread \in [Queues -> {"none", "started"}]
          /\ config.num \in Nat \ {0}
      BY <1>2, EndedObeyed, Zenon DEF Ops
    <2>2. queue \in 1 .. config.num
      BY <2>1, Zenon DEF DeviceInv, QueuesInv, PerQueue, Queues
    <2>3. PICK s \in {"cancel", "delete"}, q \in Nat :
               /\ Done(s, q)
               /\ s = "cancel" => q = queue + 1 /\ q \in 1 .. config.num
               /\ s = "delete" => queue = config.num
      BY <1>2, <2>1, <2>2
    <2>4. /\ ~Obeyed' /\ stage' = s /\ queue' = q
          /\ UNCHANGED <<ctl, memory, refused, config>>
      BY <2>3, Zenon DEF Done, Obeyed
    <2>5. HasCq = queue + 1 .. config.num /\ HasSq = queue + 1 .. config.num
      BY <2>1, Zenon DEF HasCq, HasSq
    <2>6. HasCq' = HasCq /\ HasSq' = HasSq
      <3>1. CASE s = "cancel"
        BY <2>3, <2>4, <2>5, <3>1, Zenon DEF HasCq, HasSq
      <3>2. CASE s = "delete"
        <4>1. HasCq' = {} /\ HasSq' = {}
          BY <2>4, <3>2, Zenon DEF HasCq, HasSq
        <4> QED
          BY <2>1, <2>3, <2>5, <3>2, <4>1
      <3> QED
        BY <3>1, <3>2, Zenon
    <2>7. QueuesInv'
      BY <2>1, <2>3, <2>4, <2>6, Zenon DEF DeviceInv, QueuesInv, PerQueue, Queues
    <2> QED
      BY <1>2, <2>1, <2>3, <2>7, DoneStep, Zenon DEF Ops
  <1> QED
    BY <1>1, <1>2, Zenon

(* Steps of the admin queue that neither send a command nor fetch one.     *)
LEMMA QueueStep ==
    ASSUME DeviceInv, AdminInv', ~Unplugged, ctl.ready, UNCHANGED deviceVars,
           Obeyed' <=> Obeyed, pc' # "idle" => cmd # NoCmd
    PROVE  DeviceInv'
  <1>. USE DEF deviceVars
  <1>1. NVMeTypeOK'
    BY Zenon DEF DeviceInv, NVMeTypeOK, Queues
  <1>2. EnableInv'
    BY Zenon DEF DeviceInv, EnableInv
  <1>3. RingsInv'
    BY Zenon DEF RingsInv, Unplugged
  <1>4. CmdInv'
    BY Zenon DEF DeviceInv, CmdInv, NoCmd
  <1>5. QueuesInv'
    <2>1. HasCq' = HasCq /\ HasSq' = HasSq
      BY Zenon DEF HasCq, HasSq
    <2> QED
      BY <2>1, Zenon DEF DeviceInv, QueuesInv, Queues
  <1> QED
    BY <1>1, <1>2, <1>3, <1>4, <1>5, Zenon DEF DeviceInv

LEMMA HostStep == ASSUME DeviceInv, Host, UNCHANGED deviceVars PROVE DeviceInv'
  <1>1. pc # "idle"
    BY Zenon DEF Host, WaitIrq, PollAgain, GetResult, RingSingleCompletion, GetStatus
  <1>2. cmd # NoCmd
    BY <1>1, Zenon DEF DeviceInv, CmdInv
  <1>3. AdminInv /\ ctl.ready /\ ~Unplugged
    BY <1>2, CmdReady, Zenon
  <1>4. Obeyed' <=> Obeyed
    <2>1. cmd' # NoCmd
      BY <1>2, Zenon DEF deviceVars, NoCmd
    <2>2. CASE WaitIrq
      <3>1. pc = "irq" /\ signalled /\ pc' = "poll"
        BY <2>2, Zenon DEF WaitIrq
      <3>2. dev_sqhd = sq_tail
        BY <1>3, <3>1, Zenon DEF AdminInv, Sent, Working, Answered, Answering
      <3> QED
        BY <1>2, <2>1, <3>1, <3>2, Zenon DEF Obeyed
    <2>3. CASE PollAgain \/ GetResult \/ RingSingleCompletion \/ GetStatus
      <3>1. pc # "irq" /\ pc' # "irq"
        BY <2>3, Zenon DEF PollAgain, GetResult, RingSingleCompletion, GetStatus, vars,
           hostVars
      <3> QED
        BY <1>2, <2>1, <3>1, Zenon DEF Obeyed
    <2> QED
      BY <2>2, <2>3, Zenon DEF Host
  <1> QED
    BY <1>2, <1>3, <1>4, HostAdminInv, QueueStep, Zenon

LEMMA AnswerStep ==
    ASSUME DeviceInv, DevInterrupt \/ DevPost, UNCHANGED deviceVars
    PROVE  DeviceInv'
  <1>1. /\ dev # {} /\ UNCHANGED <<pc, dev_sqhd, sq_tail>>
    BY Zenon DEF DevInterrupt, DevPost, hostVars
  <1>2. ctl.ready
    BY <1>1, Zenon DEF DeviceInv, EnableInv
  <1>3. AdminInv /\ ~Unplugged
    BY <1>2, Zenon DEF DeviceInv, RingsInv, Unplugged
  <1>4. Obeyed' <=> Obeyed
    BY <1>1, Zenon DEF Obeyed, deviceVars, NoCmd
  <1>5. pc' # "idle" => cmd # NoCmd
    BY <1>1, Zenon DEF DeviceInv, CmdInv
  <1> QED
    BY <1>2, <1>3, <1>4, <1>5, InterruptAdminInv, PostAdminInv, QueueStep, Zenon

(* What a controller that has refused nothing has, once it has obeyed.     *)
LEMMA ObeyHas ==
    ASSUME DeviceInv, ~refused, cmd # NoCmd, ~Obeyed, Obeyed',
           NEW num \in Queues, ctl' = Obey(num), UNCHANGED <<stage, config, queue, cmd, memory>>
    PROVE  /\ DOMAIN ctl'.cq = HasCq' /\ ctl'.sq = HasSq'
           /\ \A q \in HasCq' : <<"cq", q>> \in memory
           /\ \A q \in HasSq' : <<"sq", q>> \in memory
  <1>1. cmd.op = stage /\ stage \in Ops /\ cmd.q = queue /\ queue \in Nat
    BY CmdReady, Zenon DEF DeviceInv, NVMeTypeOK
  <1>2. ctl = [enabled |-> ctl.enabled, ready |-> ctl.ready, granted |-> ctl.granted,
               cq |-> ctl.cq, sq |-> ctl.sq]
    BY Zenon DEF DeviceInv, NVMeTypeOK
  <1>3. /\ DOMAIN ctl.cq = HasCq /\ ctl.sq = HasSq
        /\ \A q \in HasCq : <<"cq", q>> \in memory
        /\ \A q \in HasSq : <<"sq", q>> \in memory
    BY Zenon DEF DeviceInv, QueuesInv
  <1>4. stage \in PerQueue => queue \in 1 .. config.num /\ config.num \in Nat
    BY DeviceAssumption, Zenon DEF DeviceInv, NVMeTypeOK, QueuesInv, Queues
  <1>5. CASE stage = "create_cq"
    <2>1. ctl' = [ctl EXCEPT !.cq =
                   [q \in DOMAIN @ \cup {cmd.q} |-> IF q = cmd.q THEN cmd.size ELSE @[q]]]
      BY <1>1, <1>5, Zenon DEF Obey
    <2>2. /\ DOMAIN ctl'.cq = DOMAIN ctl.cq \cup {queue} /\ ctl'.sq = ctl.sq
      BY <1>1, <1>2, <2>1, Zenon
    <2>3. /\ HasCq = 1 .. queue - 1 /\ HasCq' = 1 .. queue
          /\ HasSq = 1 .. queue - 1 /\ HasSq' = 1 .. queue - 1
      BY <1>5, Zenon DEF HasCq, HasSq
    <2>4. <<"cq", queue>> \in memory
      BY <1>1, <1>5, Zenon DEF DeviceInv, CmdInv
    <2>5. HasCq' = HasCq \cup {queue} /\ HasSq' = HasSq
      BY <1>4, <1>5, <2>3 DEF PerQueue
    <2> QED
      BY <1>3, <1>5, <2>2, <2>4, <2>5, Zenon
  <1>6. CASE stage = "create_sq"
    <2>1. ctl' = [ctl EXCEPT !.sq = @ \cup {cmd.q}]
      BY <1>1, <1>6, Zenon DEF Obey
    <2>2. /\ ctl'.sq = ctl.sq \cup {queue} /\ ctl'.cq = ctl.cq
      BY <1>1, <1>2, <2>1, Zenon
    <2>3. /\ HasCq = 1 .. queue /\ HasCq' = 1 .. queue
          /\ HasSq = 1 .. queue - 1 /\ HasSq' = 1 .. queue
      BY <1>6, Zenon DEF HasCq, HasSq
    <2>4. <<"sq", queue>> \in memory
      BY <1>1, <1>6, Zenon DEF DeviceInv, CmdInv
    <2>5. HasSq' = HasSq \cup {queue} /\ HasCq' = HasCq
      BY <1>4, <1>6, <2>3 DEF PerQueue
    <2> QED
      BY <1>3, <1>6, <2>2, <2>4, <2>5, Zenon
  <1>7. CASE stage = "delete_sq"
    <2>1. ctl' = [ctl EXCEPT !.sq = @ \ {cmd.q}]
      BY <1>1, <1>7, Zenon DEF Obey
    <2>2. /\ ctl'.sq = ctl.sq \ {queue} /\ ctl'.cq = ctl.cq
      BY <1>1, <1>2, <2>1, Zenon
    <2>3. /\ HasCq = queue .. config.num /\ HasCq' = queue .. config.num
          /\ HasSq = queue .. config.num /\ HasSq' = queue + 1 .. config.num
      BY <1>7, Zenon DEF HasCq, HasSq
    <2>4. HasSq' = HasSq \ {queue} /\ HasCq' = HasCq
      BY <1>4, <1>7, <2>3 DEF PerQueue
    <2> QED
      BY <1>3, <1>7, <2>2, <2>4, Zenon
  <1>8. CASE stage = "delete_cq"
    <2>1. ctl' = [ctl EXCEPT !.cq = [q \in DOMAIN @ \ {cmd.q} |-> @[q]]]
      BY <1>1, <1>8, Zenon DEF Obey
    <2>2. /\ DOMAIN ctl'.cq = DOMAIN ctl.cq \ {queue} /\ ctl'.sq = ctl.sq
      BY <1>1, <1>2, <2>1, Zenon
    <2>3. /\ HasCq = queue .. config.num /\ HasCq' = queue + 1 .. config.num
          /\ HasSq = queue + 1 .. config.num /\ HasSq' = queue + 1 .. config.num
      BY <1>8, Zenon DEF HasCq, HasSq
    <2>4. HasCq' = HasCq \ {queue} /\ HasSq' = HasSq
      BY <1>4, <1>8, <2>3 DEF PerQueue
    <2> QED
      BY <1>3, <1>8, <2>2, <2>4, Zenon
  <1>9. CASE stage \notin {"create_cq", "create_sq", "delete_sq", "delete_cq"}
    <2>1. ctl' = IF stage = "set_queue_num" THEN [ctl EXCEPT !.granted = num] ELSE ctl
      BY <1>1, <1>9, Zenon DEF Obey, Ops
    <2>2. ctl'.cq = ctl.cq /\ ctl'.sq = ctl.sq
      BY <1>2, <2>1, Zenon
    <2>3. HasCq' = HasCq /\ HasSq' = HasSq
      BY <1>9, Zenon DEF HasCq, HasSq
    <2> QED
      BY <1>3, <2>2, <2>3, Zenon
  <1> QED
    BY <1>5, <1>6, <1>7, <1>8, <1>9, Zenon

(* Whatever the command, CC.EN and CSTS.RDY stay.                          *)
LEMMA ObeyType ==
    ASSUME NVMeTypeOK, NEW num \in Queues, ctl' = Obey(num)
    PROVE  /\ ctl'.enabled = ctl.enabled /\ ctl'.ready = ctl.ready
           /\ ctl' = [enabled |-> ctl'.enabled, ready |-> ctl'.ready,
                      granted |-> ctl'.granted, cq |-> ctl'.cq, sq |-> ctl'.sq]
  <1>1. ctl = [enabled |-> ctl.enabled, ready |-> ctl.ready, granted |-> ctl.granted,
               cq |-> ctl.cq, sq |-> ctl.sq]
    BY Zenon DEF NVMeTypeOK
  <1>2. \/ \E g : ctl' = [ctl EXCEPT !.granted = g]
        \/ \E f : ctl' = [ctl EXCEPT !.cq = f]
        \/ \E s : ctl' = [ctl EXCEPT !.sq = s]
        \/ ctl' = ctl
    BY Zenon DEF Obey
  <1> QED
    BY <1>1, <1>2, Zenon

(* The controller fetches the one command that was sent.                   *)
LEMMA FetchStep == ASSUME DeviceInv, CtlFetch PROVE DeviceInv'
  <1>0. /\ ctl.ready /\ DevFetch
        /\ \E num \in Queues : ctl' = (IF reply'.status = 0 THEN Obey(num) ELSE ctl)
        /\ refused' = (refused \/ reply'.status # 0)
        /\ UNCHANGED <<stage, config, queue, attempts, nn, cmd, memory, thread>>
    BY Zenon DEF CtlFetch
  <1>1. AdminInv /\ ~Unplugged
    BY <1>0, Zenon DEF DeviceInv, RingsInv, Unplugged
  <1>2. /\ dev = {} /\ dev_sqhd # sq_db /\ dev_sqhd' = inc(dev_sqhd)
        /\ UNCHANGED <<pc, sq_tail>>
    BY <1>0, Zenon DEF DevFetch, hostVars
  <1>3. dev_sqhd # sq_tail /\ pc = "irq" /\ Sent
    <2>1. dev_sqhd # sq_tail /\ pc \in {"idle", "irq", "poll", "ring", "status", "aborted"}
      BY <1>1, <1>2, Zenon DEF AdminInv, Lag, TypeOK
    <2> QED
      BY <1>1, <1>2, <2>1 DEF AdminInv, Rest, Working, Answered, Answering
  <1>4. cmd # NoCmd /\ ~Obeyed /\ Obeyed'
    <2>1. cmd # NoCmd /\ cmd' # NoCmd
      BY <1>0, <1>3, Zenon DEF DeviceInv, CmdInv, NoCmd
    <2> QED
      BY <1>2, <1>3, <2>1, Zenon DEF Obeyed, Sent
  <1>5. /\ ctl'.enabled = ctl.enabled /\ ctl'.ready = ctl.ready
        /\ ctl' = [enabled |-> ctl'.enabled, ready |-> ctl'.ready,
                   granted |-> ctl'.granted, cq |-> ctl'.cq, sq |-> ctl'.sq]
    BY <1>0, ObeyType, Zenon DEF DeviceInv, NVMeTypeOK
  <1>6. NVMeTypeOK'
    BY <1>0, <1>5, Zenon DEF DeviceInv, NVMeTypeOK, Queues
  <1>7. EnableInv'
    BY <1>0, <1>5, Zenon DEF DeviceInv, EnableInv
  <1>8. RingsInv'
    BY <1>0, <1>1, <1>5, FetchAdminInv, Zenon DEF RingsInv, Unplugged
  <1>9. CmdInv'
    BY <1>0, <1>2, <1>4, Zenon DEF DeviceInv, CmdInv, NoCmd
  <1>10. QueuesInv'
    <2>1. CASE refused'
      BY <1>0, <2>1, Zenon DEF DeviceInv, QueuesInv, Queues
    <2>2. CASE ~refused'
      <3>1. ~refused /\ \E num \in Queues : ctl' = Obey(num)
        BY <1>0, <2>2, Zenon DEF DeviceInv, NVMeTypeOK
      <3>2. /\ DOMAIN ctl'.cq = HasCq' /\ ctl'.sq = HasSq'
            /\ \A q \in HasCq' : <<"cq", q>> \in memory
            /\ \A q \in HasSq' : <<"sq", q>> \in memory
        BY <1>0, <1>4, <3>1, ObeyHas, Zenon
      <3> QED
        BY <1>0, <1>4, <3>1, <3>2, Zenon DEF DeviceInv, QueuesInv, Queues
    <2> QED
      BY <2>1, <2>2, Zenon
  <1> QED
    BY <1>6, <1>7, <1>8, <1>9, <1>10, Zenon DEF DeviceInv

(* The controller comes up with new rings before it, or goes down and      *)
(* forgets the old ones.                                                   *)
LEMMA ReadyStep == ASSUME DeviceInv, CtlReady PROVE DeviceInv'
  <1>0. /\ ctl.ready # ctl.enabled /\ ctl.ready \in BOOLEAN /\ ctl.enabled \in BOOLEAN
        /\ UNCHANGED <<stage, config, queue, attempts, nn, cmd, memory, thread,
                       hostVars, comp_cmd, signalled>>
    BY Zenon DEF CtlReady, DeviceInv, NVMeTypeOK
  <1>1. stage \notin Ops
    BY <1>0, Zenon DEF DeviceInv, EnableInv
  <1>2. cmd = NoCmd /\ cmd' = NoCmd
    BY <1>0, <1>1, Zenon DEF DeviceInv, CmdInv, NoCmd
  <1>3. /\ TypeOK /\ pc = "idle" /\ ~signalled /\ dev = {} /\ result = 0 /\ ~Obeyed
        /\ inc(sq_tail) # sq_head
    BY <1>2, NoCmdQuiet, Zenon
  <1>4. UNCHANGED <<pc, result, signalled>>
    BY <1>0, Zenon DEF hostVars
  <1>5. CmdInv'
    BY <1>0, <1>2, <1>3, <1>4, Zenon DEF DeviceInv, CmdInv, NoCmd
  <1>6. ~Obeyed'
    BY <1>2, Zenon DEF Obeyed
  <1>7. CASE ctl.enabled
    <2>1. /\ ~ctl.ready /\ ctl' = [ctl EXCEPT !.ready = TRUE]
          /\ UNCHANGED <<devVars, refused>>
      BY <1>0, <1>7, Zenon DEF CtlReady
    <2>2. stage \in {"wait", "failed"}
      BY <1>0, <1>1, <1>7, Zenon DEF DeviceInv, EnableInv, NVMeTypeOK, Stages
    <2>3. /\ ctl'.ready /\ ctl'.enabled
          /\ UNCHANGED <<ctl.granted, ctl.cq, ctl.sq>>
          /\ ctl' = [enabled |-> ctl'.enabled, ready |-> ctl'.ready,
                     granted |-> ctl'.granted, cq |-> ctl'.cq, sq |-> ctl'.sq]
          /\ ctl'.ready \in BOOLEAN /\ ctl'.enabled \in BOOLEAN
      BY <1>7, <2>1, Zenon DEF DeviceInv, NVMeTypeOK
    <2>4. NVMeTypeOK'
      BY <1>0, <2>1, <2>3, Zenon DEF DeviceInv, NVMeTypeOK, Queues
    <2>5. EnableInv'
      BY <1>0, <2>2, <2>3, Zenon DEF EnableInv
    <2>6. RingsInv'
      BY <1>0, <2>1, <2>2, StutterAdminInv, Zenon DEF DeviceInv, RingsInv, Unplugged,
         vars
    <2>7. QueuesInv'
      <3>1. HasCq = {} /\ HasSq = {} /\ HasCq' = {} /\ HasSq' = {}
        BY <1>0, <2>2, Zenon DEF HasCq, HasSq
      <3> QED
        BY <1>0, <1>6, <2>1, <2>2, <2>3, <3>1, Zenon DEF DeviceInv, QueuesInv,
           PerQueue
    <2> QED
      BY <1>5, <2>4, <2>5, <2>6, <2>7, Zenon DEF DeviceInv
  <1>8. CASE ~ctl.enabled
    <2>1. /\ ctl.ready /\ ctl' = Off /\ dev' = {} /\ dev_sqhd' = 0 /\ dev_cqtail' = 0
          /\ dev_phase' = 1 /\ refused' = FALSE /\ UNCHANGED reply
      BY <1>0, <1>8, Zenon DEF CtlReady
    <2>2. stage = "disabled"
      BY <1>0, <1>1, <1>8 DEF DeviceInv, EnableInv, NVMeTypeOK, Stages
    <2>3. NVMeTypeOK'
      BY <1>0, <2>1, Zenon DEF DeviceInv, NVMeTypeOK, Queues, Off
    <2>4. EnableInv'
      BY <1>0, <2>1, <2>2, Zenon DEF EnableInv, Off, Ops
    <2>5. RingsInv'
      <3>1. TypeOK'
        <4>1. 0 \in Index /\ 1 \in 0 .. 1
          BY IncArith
        <4> QED
          BY <1>0, <1>3, <2>1, <4>1, Zenon DEF TypeOK, hostVars
      <3>2. inc(sq_tail)' # sq_head'
        BY <1>0, <1>3, Zenon DEF inc, hostVars
      <3> QED
        BY <1>0, <1>3, <1>4, <2>1, <2>2, <3>1, <3>2 DEF RingsInv, Unplugged, Off
    <2>6. QueuesInv'
      <3>1. HasCq' = {} /\ HasSq' = {}
        BY <1>0, <2>2, Zenon DEF HasCq, HasSq
      <3> QED
        BY <1>0, <2>1, <2>2, <3>1 DEF QueuesInv, PerQueue, Off
    <2> QED
      BY <1>5, <2>3, <2>4, <2>5, <2>6, Zenon DEF DeviceInv
  <1> QED
    BY <1>7, <1>8, Zenon

LEMMA StutterDeviceInv == ASSUME DeviceInv, UNCHANGED nvmeVars PROVE DeviceInv'
  <1>. USE DEF nvmeVars, deviceVars
  <1>1. UNCHANGED <<vars, pc, dev, dev_sqhd, dev_cqtail, dev_phase, signalled, result, sq_tail>>
    BY Zenon DEF vars, hostVars, devVars
  <1>2. (Obeyed' <=> Obeyed) /\ (Unplugged' <=> Unplugged)
    BY <1>1, Zenon DEF Obeyed, Unplugged, NoCmd
  <1>3. HasCq' = HasCq /\ HasSq' = HasSq
    BY <1>2, Zenon DEF HasCq, HasSq
  <1>4. NVMeTypeOK' /\ EnableInv' /\ CmdInv'
    <2>1. NVMeTypeOK'
      BY Zenon DEF DeviceInv, NVMeTypeOK, Queues
    <2>2. EnableInv'
      BY <1>1, Zenon DEF DeviceInv, EnableInv
    <2>3. CmdInv'
      BY <1>1, Zenon DEF DeviceInv, CmdInv, NoCmd
    <2> QED
      BY <2>1, <2>2, <2>3, Zenon
  <1>5. QueuesInv'
    BY <1>2, <1>3, Zenon DEF DeviceInv, QueuesInv, Queues
  <1>6. RingsInv'
    <2>1. Unplugged => TypeOK'
      BY <1>1, Zenon DEF DeviceInv, RingsInv, TypeOK, vars, hostVars, devVars
    <2>2. Unplugged => inc(sq_tail)' # sq_head'
      BY <1>1, Zenon DEF DeviceInv, RingsInv, inc, vars, hostVars
    <2> QED
      BY <1>1, <1>2, <2>1, <2>2, StutterAdminInv, Zenon DEF DeviceInv, RingsInv
  <1> QED
    BY <1>4, <1>5, <1>6, Zenon DEF DeviceInv

(* The commands that are issued; the length of a completion queue is       *)
(* limited by MQES.                                                        *)
LEMMA IssueSteps ==
    ASSUME DeviceInv, NEW op \in Ops, NEW k \in Kind, NEW size \in {0, io_queue_len},
           Issue(op, k, size)
    PROVE  DeviceInv'
  <1>1. io_queue_len \in Nat /\ io_queue_len <= MQES + 1
    BY DeviceAssumption DEF io_queue_len, DeviceInv, NVMeTypeOK
  <1> QED
    BY <1>1, DeviceAssumption, IssueStep

LEMMA NextDeviceInv == ASSUME DeviceInv, [NVMeNext]_nvmeVars PROVE DeviceInv'
  <1>1. CASE nvme_init_device
    <2>1. CASE hw_reset
      BY <2>1, CcDisableStep, CreateAdminStep, CcEnableStep, PollReadyStep, Zenon
         DEF hw_reset
    <2>2. CASE set_queue_num \/ issue_identify_device \/ set_irq_coal_options
      BY <2>2, IssueSteps, ExamineStep, DeviceAssumption, Zenon DEF set_queue_num,
         issue_identify_device, Command_admin_identify, set_irq_coal_options, Ops
    <2>3. CASE NVME_IO_queue
      BY <2>3, IssueSteps, CreateDoneStep, DeviceAssumption, Zenon DEF NVME_IO_queue,
         create_io_completion_queue, create_io_submission_queue, set_irq_coal, Ops
    <2> QED
      BY <1>1, <2>1, <2>2, <2>3, Zenon DEF nvme_init_device
  <1>2. CASE destroy
    BY <1>2, CancelStep, IssueSteps, DeleteDoneStep, DeviceAssumption, Zenon
       DEF destroy, delete_io_queue, Ops
  <1>3. CASE UNCHANGED nvmeVars
    BY <1>3, StutterDeviceInv, Zenon
  <1> QED
    BY <1>1, <1>2, <1>3, InitDeviceStep, ShutdownStep, DeleteStep, HostStep,
       AnswerStep, FetchStep, ReadyStep, Zenon DEF NVMeNext, Driver

(* DeviceInv holds over init_device, shutdown_device and every answer the  *)
(* controller may give, for any number of bring-ups.                       *)
THEOREM DeviceInvariance == NVMeSpec => []DeviceInv
  BY InitDeviceInv, NextDeviceInv, PTL DEF NVMeSpec

(* The poll of check_command_completion ends on the reply to its command,  *)
(* the admin rings are in step with an enabled controller between          *)
(* commands, since hw_reset makes the new rings while the controller is    *)
(* off, and neither ring is ever full.                                     *)
THEOREM AdminStaysInStep == NVMeSpec => []QueuesSound
  <1>1. DeviceInv => QueuesSound
    <2> SUFFICES ASSUME DeviceInv PROVE PollFindsReply /\ AdminInStep /\ NeverFull
      BY Zenon DEF QueuesSound
    <2>1. CASE Unplugged
      BY <2>1, Zenon DEF DeviceInv, RingsInv, EnableInv, Unplugged, AdminInStep,
         PollFindsReply, NeverFull
    <2>2. CASE ~Unplugged
      BY <2>2, AdminInvSafe, Zenon DEF DeviceInv, RingsInv, AdminInStep
    <2> QED
      BY <2>1, <2>2, Zenon
  <1> QED
    BY <1>1, DeviceInvariance, PTL

(* The controller never works on a command without its data page and the   *)
(* admin rings, and has no I/O queue whose ring is gone: destroy deletes   *)
(* every queue before ~NVME_device gives the memory back.                  *)
THEOREM ControllerMemoryIsLive == NVMeSpec => []ControllerMemoryLive
  <1>1. DeviceInv => ControllerMemoryLive
    <2> SUFFICES ASSUME DeviceInv PROVE ControllerMemoryLive
      BY Zenon
    <2>1. dev # {} => cmd # NoCmd
      BY NoCmdQuiet, Zenon
    <2>2. cmd # NoCmd => {<<"sq", 0>>, <<"cq", 0>>} \subseteq memory
      BY CmdReady, Zenon DEF DeviceInv, CmdInv, Ops
    <2> QED
      BY <2>1, <2>2, Zenon DEF ControllerMemoryLive, DeviceInv, QueuesInv
  <1> QED
    BY <1>1, DeviceInvariance, PTL

(* A controller that has refused nothing gets only commands it must        *)
(* accept, or the creation of a queue beyond its grant:                    *)
(* create_io_completion_queue within MQES and the number asked for,        *)
(* create_io_submission_queue on a completion queue it has,                *)
(* delete_io_queue in the order the queues need.                           *)
THEOREM CommandsAreLegal == NVMeSpec => []CommandsLegal
  <1>1. DeviceInv => CommandsLegal
    <2> SUFFICES ASSUME DeviceInv, cmd # NoCmd, pc = "irq", dev = {}, dev_sqhd # sq_db, ~refused
                 PROVE  CASE cmd.op = "create_cq" ->
                               cmd.q \in Queues /\ ~Adopted(cmd.q) /\ cmd.size - 1 <= MQES
                          [] cmd.op = "create_sq" -> Adopted(cmd.q) /\ cmd.q \notin ctl.sq
                          [] cmd.op = "delete_sq" -> cmd.q \in ctl.sq /\ thread[cmd.q] = "none"
                          [] cmd.op = "delete_cq" -> Adopted(cmd.q) /\ cmd.q \notin ctl.sq
                          [] OTHER -> ctl.ready
      BY Zenon DEF CommandsLegal
    <2>1. /\ AdminInv /\ stage = cmd.op /\ stage \in Ops /\ queue = cmd.q /\ ctl.ready
      BY CmdReady, Zenon
    <2>2. ~Obeyed
      BY <2>1, Zenon DEF AdminInv, Lag, Obeyed
    <2>3. /\ DOMAIN ctl.cq = HasCq /\ ctl.sq = HasSq
          /\ stage \in PerQueue => queue \in 1 .. config.num
          /\ config.num \in Nat /\ queue \in Nat
      BY DeviceAssumption, Zenon DEF DeviceInv, QueuesInv, NVMeTypeOK, Queues
    <2>4. CASE stage = "create_cq"
      <3>1. HasCq = 1 .. queue - 1 /\ queue \in 1 .. config.num
        BY <2>2, <2>3, <2>4, Zenon DEF HasCq, PerQueue
      <3>2. cmd.size <= MQES + 1
        BY <2>1, <2>4, Zenon DEF DeviceInv, QueuesInv, CmdInv
      <3>3. cmd.size \in Nat
        BY Zenon DEF DeviceInv, NVMeTypeOK
      <3> QED
        BY <2>1, <2>3, <2>4, <3>1, <3>2, <3>3, DeviceAssumption DEF Adopted, Queues
    <2>5. CASE stage = "create_sq"
      <3>1. HasCq = 1 .. queue /\ HasSq = 1 .. queue - 1 /\ queue \in 1 .. config.num
        BY <2>2, <2>3, <2>5, Zenon DEF HasCq, HasSq, PerQueue
      <3> QED
        BY <2>1, <2>3, <2>5, <3>1 DEF Adopted
    <2>6. CASE stage = "delete_sq"
      <3>1. HasSq = queue .. config.num /\ queue \in 1 .. config.num
        BY <2>2, <2>3, <2>6, Zenon DEF HasSq, PerQueue
      <3> QED
        BY <2>1, <2>3, <2>6, <3>1 DEF DeviceInv, QueuesInv
    <2>7. CASE stage = "delete_cq"
      <3>1. /\ HasCq = queue .. config.num /\ HasSq = queue + 1 .. config.num
            /\ queue \in 1 .. config.num
        BY <2>2, <2>3, <2>7, Zenon DEF HasCq, HasSq, PerQueue
      <3> QED
        BY <2>1, <2>3, <2>7, <3>1 DEF Adopted
    <2> QED
      BY <2>1, <2>4, <2>5, <2>6, <2>7, Zenon
  <1> QED
    BY <1>1, DeviceInvariance, PTL
=============================================================================
