------------------------------- MODULE Threads ------------------------------
(***************************************************************************)
(* Base_thread (lib/libexo/exo/thread.h) and Event                         *)
(* (lib/libcommon/common/sync.h).  An owner makes thread objects, starts,  *)
(* cancels and deletes them; each thread waits for its start event and     *)
(* runs entry().  Beside them, waiters and wakers use one Event by all of  *)
(* its calls.                                                              *)
(*                                                                         *)
(* A section under _var_lock is one step; pthread_cond_wait gives the lock *)
(* up and sleeps in one step, and may return without a wake.               *)
(***************************************************************************)
EXTENDS Integers, FiniteSets

CONSTANTS
    Polling,    \* threads whose entry() waits for an interrupt and then asks
                \* thread_should_exit (IRQ_thread)
    Ending,     \* threads whose entry() returns by itself
    Endless,    \* threads whose entry() never returns (CQ_thread)
    Waiter,     \* callers of one shared Event
    MaxWakes    \* bound: wakes of that Event

ThreadObject == Polling \cup Ending \cup Endless

VARIABLES
    obj,        \* the thread object: "none", "alive" or "gone"
    exit,       \* _exit, which the constructor leaves as it is
    start_event,\* _var of _start_event, and whether its lock was left locked
    pc,         \* the pthread
    cancelled,  \* pthread_cancel was called
    owner,      \* the call the owner is in
    var,        \* _var of the shared Event
    waiter,     \* the call each waiter is in
    wakes, consumed  \* calls of wake, and returns of wait_and_reset

baseVars == <<obj, exit, start_event, pc, cancelled, owner>>
eventVars == <<var, waiter, wakes, consumed>>
threadVars == <<baseVars, eventVars>>

NoCall == [call |-> "none", thread |-> "none"]
Idle == [call |-> "none", at |-> "idle", woken |-> FALSE]

ThreadsInit ==
    /\ obj = [t \in ThreadObject |-> "none"]
    /\ exit \in [ThreadObject -> BOOLEAN]
    /\ start_event = [t \in ThreadObject |-> [var |-> FALSE, locked |-> FALSE]]
    /\ pc = [t \in ThreadObject |-> "none"]
    /\ cancelled = [t \in ThreadObject |-> FALSE]
    /\ owner = NoCall
    /\ var = FALSE
    /\ waiter = [w \in Waiter |-> Idle]
    /\ wakes = 0 /\ consumed = 0

-----------------------------------------------------------------------------
(* The owner's calls *)

(* The constructor creates the pthread at once *)
Base_thread(t) ==
    /\ owner = NoCall /\ obj[t] = "none"
    /\ obj' = [obj EXCEPT ![t] = "alive"]
    /\ pc' = [pc EXCEPT ![t] = "wait"]
    /\ UNCHANGED <<exit, start_event, cancelled, owner, eventVars>>

Wakened(t) == IF pc[t] = "asleep" THEN [pc EXCEPT ![t] = "wait"] ELSE pc

\* A slip in start: the event is set, nobody is woken
start_silent(t) ==
    /\ owner = NoCall /\ obj[t] = "alive"
    /\ ~start_event[t].locked
    /\ start_event' = [start_event EXCEPT ![t].var = TRUE]
    /\ UNCHANGED <<obj, exit, pc, cancelled, owner, eventVars>>

(* start calls wake_all of the start event *)
start(t) ==
    /\ owner = NoCall /\ obj[t] = "alive"
    /\ ~start_event[t].locked
    /\ start_event' = [start_event EXCEPT ![t].var = TRUE]
    /\ pc' = Wakened(t)
    /\ UNCHANGED <<obj, exit, cancelled, owner, eventVars>>

cancel(t) ==
    /\ owner = NoCall /\ obj[t] = "alive"
    /\ cancelled' = [cancelled EXCEPT ![t] = TRUE]
    /\ UNCHANGED <<obj, exit, start_event, pc, owner, eventVars>>

(***************************************************************************)
(* delete: the derived destructor joins by exit_thread, and ~Base_thread   *)
(* joins again, which returns an error.  join sets _exit and waits.        *)
(***************************************************************************)
join(t) ==
    /\ owner = NoCall /\ obj[t] = "alive"
    /\ exit' = [exit EXCEPT ![t] = TRUE]
    /\ owner' = [call |-> "join", thread |-> t]
    /\ UNCHANGED <<obj, start_event, pc, cancelled, eventVars>>

\* A slip in Joined: the object goes without waiting for its thread
Joined_detached(t) ==
    /\ owner = [call |-> "join", thread |-> t]
    /\ obj' = [obj EXCEPT ![t] = "gone"]
    /\ owner' = NoCall
    /\ UNCHANGED <<exit, start_event, pc, cancelled, eventVars>>

Joined(t) ==
    /\ owner = [call |-> "join", thread |-> t]
    /\ pc[t] = "ended"
    /\ obj' = [obj EXCEPT ![t] = "gone"]
    /\ owner' = NoCall
    /\ UNCHANGED <<exit, start_event, pc, cancelled, eventVars>>

-----------------------------------------------------------------------------
(* The thread *)

(* Event::wait of the start event *)
trampoline_wait(t) ==
    /\ pc[t] = "wait" /\ ~start_event[t].locked
    /\ pc' = [pc EXCEPT ![t] = IF start_event[t].var THEN "entry" ELSE "asleep"]
    /\ UNCHANGED <<obj, exit, start_event, cancelled, owner, eventVars>>

\* A slip in Spurious_start: `if' for `while' around pthread_cond_wait
Spurious_start_if(t) ==
    /\ pc[t] = "asleep"
    /\ pc' = [pc EXCEPT ![t] = "entry"]
    /\ UNCHANGED <<obj, exit, start_event, cancelled, owner, eventVars>>

(* A sleeper may wake without a reason, and looks again *)
Spurious_start(t) ==
    /\ pc[t] = "asleep"
    /\ pc' = [pc EXCEPT ![t] = "wait"]
    /\ UNCHANGED <<obj, exit, start_event, cancelled, owner, eventVars>>

(* entry() returns when it is done, or when it asks thread_should_exit:    *)
(* before it waits for an interrupt, and again only after one              *)
entry(t) ==
    /\ pc[t] = "entry"
    /\ t \notin Endless
    /\ pc' = [pc EXCEPT ![t] = IF t \in Polling /\ ~exit[t] THEN "irq" ELSE "ended"]
    /\ UNCHANGED <<obj, exit, start_event, cancelled, owner, eventVars>>

(* An interrupt; none may ever come *)
wait_for_msi_irq(t) ==
    /\ pc[t] = "irq"
    /\ pc' = [pc EXCEPT ![t] = "entry"]
    /\ UNCHANGED <<obj, exit, start_event, cancelled, owner, eventVars>>

(***************************************************************************)
(* A cancelled thread ends at its next cancellation point.  In             *)
(* pthread_cond_wait it takes the lock first and no handler gives it back. *)
(***************************************************************************)
cancel_point(t) ==
    /\ cancelled[t]
    /\ pc[t] \in {"asleep", "entry", "irq"}
    /\ ~start_event[t].locked
    /\ start_event' = [start_event EXCEPT ![t].locked = pc[t] = "asleep"]
    /\ pc' = [pc EXCEPT ![t] = "ended"]
    /\ UNCHANGED <<obj, exit, cancelled, owner, eventVars>>

(* __entry: the wait, then entry *)
__entry(t) == trampoline_wait(t) \/ entry(t) \/ cancel_point(t)

-----------------------------------------------------------------------------
(* The shared Event *)

Waits(w, c) ==
    /\ waiter[w].at = "idle"
    /\ waiter' = [waiter EXCEPT ![w] = [call |-> c, at |-> "wait", woken |-> FALSE]]
    /\ var' = IF c = "reset_and_wait" THEN FALSE ELSE var
    /\ UNCHANGED <<wakes, consumed, baseVars>>

\* A slip in Wait_loop: the event stays set after the wait
Wait_loop_keep(w) ==
    /\ waiter[w].at = "wait"
    /\ waiter' = [waiter EXCEPT ![w].at = IF var THEN "done" ELSE "asleep"]
    /\ consumed' = IF var /\ waiter[w].call = "wait_and_reset" THEN consumed + 1 ELSE consumed
    /\ UNCHANGED <<var, wakes, baseVars>>

(* while(!_var) pthread_cond_wait; wait_and_reset resets on its way out *)
Wait_loop(w) ==
    /\ waiter[w].at = "wait"
    /\ waiter' = [waiter EXCEPT ![w].at = IF var THEN "done" ELSE "asleep"]
    /\ LET reset == var /\ waiter[w].call = "wait_and_reset" IN
           /\ var' = IF reset THEN FALSE ELSE var
           /\ consumed' = IF reset THEN consumed + 1 ELSE consumed
    /\ UNCHANGED <<wakes, baseVars>>

Spurious(w) ==
    /\ waiter[w].at = "asleep"
    /\ waiter' = [waiter EXCEPT ![w].at = "wait"]
    /\ UNCHANGED <<var, wakes, consumed, baseVars>>

Returns(w) ==
    /\ waiter[w].at = "done"
    /\ waiter' = [waiter EXCEPT ![w] = Idle]
    /\ UNCHANGED <<var, wakes, consumed, baseVars>>

(* The three waits differ in what they do to _var before and after *)
wait(w) == Waits(w, "wait")
wait_and_reset(w) == Waits(w, "wait_and_reset")
reset_and_wait(w) == Waits(w, "reset_and_wait")

Wake(S) ==
    /\ wakes < MaxWakes
    /\ wakes' = wakes + 1
    /\ var' = TRUE
    /\ waiter' = [w \in Waiter |->
                    IF waiter[w].at = "idle" THEN waiter[w]
                    ELSE [waiter[w] EXCEPT !.woken = TRUE,
                                           !.at = IF w \in S THEN "wait" ELSE @]]
    /\ UNCHANGED <<consumed, baseVars>>

Asleep == {w \in Waiter : waiter[w].at = "asleep"}

wake_one == IF Asleep = {} THEN Wake({}) ELSE \E w \in Asleep : Wake({w})

wake_all == Wake(Asleep)

reset ==
    /\ var' = FALSE
    /\ UNCHANGED <<waiter, wakes, consumed, baseVars>>

-----------------------------------------------------------------------------
Owner == \E t \in ThreadObject :
    Base_thread(t) \/ start(t) \/ cancel(t) \/ join(t) \/ Joined(t)

Event(w) ==
    \/ wait(w) \/ wait_and_reset(w) \/ reset_and_wait(w)
    \/ Wait_loop(w) \/ Spurious(w) \/ Returns(w)

ThreadsNext ==
    \/ Owner
    \/ \E t \in ThreadObject : __entry(t) \/ Spurious_start(t) \/ wait_for_msi_irq(t)
    \/ \E w \in Waiter : Event(w)
    \/ wake_one \/ wake_all \/ reset

ThreadsSpec == ThreadsInit /\ [][ThreadsNext]_threadVars

(***************************************************************************)
(* The kernel schedules every thread that can run.  A blocked owner goes   *)
(* on when its join returns.  No device owes an interrupt.                 *)
(***************************************************************************)
ThreadStep(t) == Joined(t) \/ __entry(t)
WaiterStep(w) == Wait_loop(w) \/ Returns(w)

-----------------------------------------------------------------------------
(***************************************************************************)
(* No thread runs on a deleted object, and no entry() before start, though *)
(* sleeps end without a wake and starts race the thread's first test.      *)
(***************************************************************************)
ThreadsUseLiveObjects ==
    \A t \in ThreadObject :
        /\ obj[t] = "gone" => pc[t] = "ended"
        /\ pc[t] \in {"entry", "irq"} => start_event[t].var

(***************************************************************************)
(* An Event is binary: no wake lets two wait_and_reset calls return, and   *)
(* reset_and_wait returns only after a wake made since it was called.      *)
(***************************************************************************)
WaitsAreWoken ==
    /\ consumed <= wakes
    /\ \A w \in Waiter : waiter[w].at = "done" /\ waiter[w].call = "reset_and_wait"
                            => waiter[w].woken

(***************************************************************************)
(* The owner waits for a started thread to end, which must end unless the  *)
(* thread was not cancelled and its entry() never returns or is waiting    *)
(* for an interrupt, which no signal of join ends.                         *)
(***************************************************************************)
Deleting == \E t \in ThreadObject :
    /\ owner = [call |-> "join", thread |-> t]
    /\ start_event[t].var
    /\ t \in Endless \/ pc[t] = "irq" => cancelled[t]

(* A waiter that a set event lets out, unless it is reset under it *)
Leaving(w) == waiter[w].at = "wait" /\ var

(***************************************************************************)
(* The inductive invariant (proved in SyncProofs): besides, a thread       *)
(* runs only after its object was made, a set event has a wake that no     *)
(* wait_and_reset has consumed, and while it is set every reset_and_wait   *)
(* under way has seen a wake.                                              *)
(***************************************************************************)
ThreadsTypeOK ==
    /\ obj \in [ThreadObject -> {"none", "alive", "gone"}]
    /\ start_event \in [ThreadObject -> [var : BOOLEAN, locked : BOOLEAN]]
    /\ pc \in [ThreadObject -> {"none", "wait", "asleep", "entry", "irq", "ended"}]
    /\ var \in BOOLEAN /\ wakes \in Nat /\ consumed \in Nat
    /\ waiter \in [Waiter -> [call : {"none", "wait", "wait_and_reset", "reset_and_wait"},
                              at : {"idle", "wait", "asleep", "done"}, woken : BOOLEAN]]

ThreadsInv ==
    /\ ThreadsTypeOK /\ ThreadsUseLiveObjects /\ WaitsAreWoken
    /\ \A t \in ThreadObject : obj[t] = "none" => pc[t] = "none"
    /\ var => consumed < wakes
    /\ \A w \in Waiter :
          var /\ waiter[w].call = "reset_and_wait" /\ waiter[w].at # "idle" => waiter[w].woken
=============================================================================
