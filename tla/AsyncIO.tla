------------------------------ MODULE AsyncIO -------------------------------
(***************************************************************************)
(* What the asynchronous block interface of the NVMe driver promises its   *)
(* client, without queues, ids, rings or interrupts (nvme_device.h:        *)
(* async_io_batch, wait_io_completion).  A submitted command is            *)
(* outstanding until it completes, once; commands complete in any order;   *)
(* a wait returns when nothing is outstanding.                             *)
(***************************************************************************)
CONSTANT Cmd

VARIABLES
    outstanding,    \* commands submitted and not completed
    waiting         \* the client is in wait_io_completion

Init == outstanding = {} /\ waiting = FALSE

Submit(c) ==
    /\ ~waiting
    /\ c \notin outstanding
    /\ outstanding' = outstanding \cup {c}
    /\ UNCHANGED waiting

Complete(c) ==
    /\ c \in outstanding
    /\ outstanding' = outstanding \ {c}
    /\ UNCHANGED waiting

Wait ==
    /\ ~waiting
    /\ waiting' = TRUE
    /\ UNCHANGED outstanding

Return ==
    /\ waiting
    /\ outstanding = {}
    /\ waiting' = FALSE
    /\ UNCHANGED outstanding

Next == (\E c \in Cmd : Submit(c) \/ Complete(c)) \/ Wait \/ Return

Spec == Init /\ [][Next]_<<outstanding, waiting>>
=============================================================================
