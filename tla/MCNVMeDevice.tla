---------------------------- MODULE MCNVMeDevice ----------------------------
(***************************************************************************)
(* The NVMe driver's device object, with the programs beside it (the       *)
(* command line tool and the test programs) and an I/O queue pair with     *)
(* more commands than slots.  They share no state; a behaviour is one of   *)
(* them (program).  There are one or two I/O queues, shorter than, as long *)
(* as and longer than the controller allows.                               *)
(***************************************************************************)
EXTENDS NVMeDevice, NvmeCli

VARIABLES
    program,
    prog, test_main, blast_exit, thr, live, mem, disk, pending,
    q_sub_cmd, q_sq_tail, q_sq_head, q_sq_db, q_comp_cmd, q_cq_head, q_cq_phase, q_cq_db, subpc, sub,
    q_dev_sqhd, dev_cmds, q_dev_cqtail, q_dev_phase, irq, q_signalled, early, cqt, ccs

MCConfigs == [num: {1, 2}, len: {2, 3, 5}]
MCPages == [sqes: {102}, cqes: {68}, nn: {0, 2}] \cup {[sqes |-> 102, cqes |-> 84, nn |-> 1]}

T == INSTANCE NVMeTests WITH
        Programs <- {"read", "verify", "throughput"}, NumQueues <- 2, QueueLen <- 2, Window <- 3,
        BatchSize <- 3, MaxBatches <- 2, Stride <- 6, Span <- 4, Steps <- {1, 2}, Writes <- 3,
        SlabSize <- 4, Count <- 6, main <- test_main
Q == INSTANCE QueuePair WITH
        QueueLen <- 2, Cmd <- {"a", "b"}, NoCmd <- "none",
        sub_cmd <- q_sub_cmd, sq_tail <- q_sq_tail, sq_head <- q_sq_head, sq_db <- q_sq_db,
        comp_cmd <- q_comp_cmd, cq_head <- q_cq_head, cq_phase <- q_cq_phase, cq_db <- q_cq_db,
        dev_sqhd <- q_dev_sqhd, dev_cqtail <- q_dev_cqtail, dev_phase <- q_dev_phase,
        signalled <- q_signalled

testPart == <<prog, test_main, blast_exit, thr, live, mem, disk, pending>>
queuePart == <<q_sub_cmd, q_sq_tail, q_sq_head, q_sq_db, q_comp_cmd, q_cq_head, q_cq_phase, q_cq_db,
               subpc, sub, q_dev_sqhd, dev_cmds, q_dev_cqtail, q_dev_phase, irq, q_signalled,
               early, cqt, ccs>>
mcVars == <<program, nvmeVars, cliVars, testPart, queuePart>>

MCInit ==
    /\ program \in {"driver", "cli", "tests", "queue"}
    /\ NVMeInit /\ (program # "driver" => kind = "plain" /\ config = [num |-> 1, len |-> 2])
    /\ CliInit
    /\ T!TestInit /\ (program # "tests" => prog = "read")
    /\ Q!QPInit

MCNext ==
    \/ program = "driver" /\ NVMeNext /\ UNCHANGED <<program, cliVars, testPart, queuePart>>
    \/ program = "cli" /\ CliNext /\ UNCHANGED <<program, nvmeVars, testPart, queuePart>>
    \/ program = "tests" /\ T!TestNext /\ UNCHANGED <<program, nvmeVars, cliVars, queuePart>>
    \/ program = "queue" /\ Q!QPNext /\ UNCHANGED <<program, nvmeVars, cliVars, testPart>>

MCSpec == MCInit /\ [][MCNext]_mcVars /\ NVMeFairness

-----------------------------------------------------------------------------
\* Beside the driver.  Test programs: buffers live while requests use them, and what is verified
\* was written.  I/O queue with a full submission ring (next_sub_slot spins): every command stays
\* in one place, the phase tells new completions, and the CQ thread sleeps on no unread one but
\* those whose interrupt came ahead of them.
ProgramsSound ==
    /\ program = "tests" => T!TestsSound
    /\ program = "queue" => Q!QPInv /\ Q!PhaseTellsNew /\ Q!HeadLags
=============================================================================
