---------------------------- MODULE ShadowBlock -----------------------------
(***************************************************************************)
(* The shadow block device (kernel/modules/shadow_bd/shadow_block.c): the  *)
(* kernel hands each segment of a request to a user process that sleeps in *)
(* read on /dev/shadow_ctl, and waits for the process to write an          *)
(* acknowledgement.  Command n is the n-th segment.                        *)
(***************************************************************************)
EXTENDS Integers

CONSTANTS
    Direction,      \* a subset of {"read", "write"}
    MaxCommands     \* bound: segments handed over

VARIABLES
    live,               \* INIT has been written, and the disk exists
    pending, dir,       \* pending_command: which one, and its direction
    request_queue_flag, ack_queue_flag,
    kpc,                \* position in shadow_perform_request
    done,               \* commands the kernel has completed
    upc, cmd,           \* the user process: position, command it read
    acked               \* commands it has acknowledged

vars == <<live, pending, dir, request_queue_flag, ack_queue_flag, kpc, done,
          upc, cmd, acked>>
kernelVars == <<pending, dir, kpc, done>>
userVars == <<upc, cmd, acked>>

Init ==
    /\ live = FALSE
    /\ pending = 0 /\ dir = "read"
    /\ request_queue_flag = 0 /\ ack_queue_flag = 0
    /\ kpc = "idle" /\ done = {}
    /\ upc = "init" /\ cmd = 0 /\ acked = {}

-----------------------------------------------------------------------------
(* The kernel: one segment *)

SetCommand ==
    /\ kpc = "idle" /\ live /\ pending < MaxCommands
    /\ pending' = pending + 1
    /\ dir' \in Direction
    /\ kpc' = "poll"
    /\ UNCHANGED <<live, request_queue_flag, ack_queue_flag, done, userVars>>

(* msleep until somebody is on the wait queue *)
SeeReader ==
    /\ kpc = "poll"
    /\ upc = "asleep"
    /\ kpc' = "wake"
    /\ UNCHANGED <<live, pending, dir, request_queue_flag, ack_queue_flag, done,
                   userVars>>

(* The flag is set and the sleeper taken off the queue.  A write sets the  *)
(* acknowledgement flag itself before it waits.                            *)
WakeReader ==
    /\ kpc = "wake"
    /\ request_queue_flag' = 1
    /\ upc' = IF upc = "asleep" THEN "clear" ELSE upc
    /\ kpc' = IF dir = "write" THEN "preset" ELSE "wait"
    /\ UNCHANGED <<live, pending, dir, ack_queue_flag, done, cmd, acked>>

PresetAck ==
    /\ kpc = "preset"
    /\ ack_queue_flag' = 1
    /\ kpc' = "wait"
    /\ UNCHANGED <<live, pending, dir, request_queue_flag, done, userVars>>

WaitAck ==
    /\ kpc = "wait"
    /\ ack_queue_flag # 0
    /\ done' = done \cup {pending}
    /\ kpc' = "idle"
    /\ UNCHANGED <<live, pending, dir, request_queue_flag, ack_queue_flag,
                   userVars>>

-----------------------------------------------------------------------------
(* The user process: fops_misc_write and fops_misc_read *)

(* Major number, request queue and disk are made one after the other; when *)
(* one cannot be had, those before it are given back, and there is no disk *)
init_block_device == \E made \in 0 .. 3 : live' = (made = 3)

(* The write returns its size, whatever became of the disk *)
WriteInit ==
    /\ upc = "init"
    /\ init_block_device
    /\ upc' = "read"
    /\ UNCHANGED <<kernelVars, request_queue_flag, ack_queue_flag, cmd, acked>>

(* wait_event_interruptible: on the queue unless the flag is set already *)
EnterRead ==
    /\ upc = "read"
    /\ upc' = IF request_queue_flag = 0 THEN "asleep" ELSE "clear"
    /\ UNCHANGED <<live, kernelVars, request_queue_flag, ack_queue_flag, cmd,
                   acked>>

ClearRequest ==
    /\ upc = "clear"
    /\ request_queue_flag' = 0
    /\ upc' = "copy"
    /\ UNCHANGED <<live, kernelVars, ack_queue_flag, cmd, acked>>

CopyCommand ==
    /\ upc = "copy"
    /\ cmd' = pending
    /\ upc' = "serve"
    /\ UNCHANGED <<live, kernelVars, request_queue_flag, ack_queue_flag, acked>>

WriteAck ==
    /\ upc = "serve"
    /\ ack_queue_flag' = 1
    /\ acked' = acked \cup {cmd}
    /\ cmd' = 0
    /\ upc' = "read"
    /\ UNCHANGED <<live, kernelVars, request_queue_flag>>

-----------------------------------------------------------------------------
Kernel == SetCommand \/ SeeReader \/ WakeReader \/ PresetAck \/ WaitAck

User == \/ WriteInit \/ EnterRead \/ ClearRequest \/ CopyCommand \/ WriteAck

Next == Kernel \/ User

Spec == Init /\ [][Next]_vars

-----------------------------------------------------------------------------
(* A command is complete only when user space has acknowledged it.         *)
AckedBeforeDone == done \subseteq acked
=============================================================================
