----------------------------- MODULE TicketLock -----------------------------
(***************************************************************************)
(* Ticket_lock (lib/libexo/exo/spinlocks.h): lock takes the next of the    *)
(* 16-bit users numbers and spins until ticket shows it; unlock shows the  *)
(* next one.  trylock compares and swaps both halves at once.              *)
(***************************************************************************)
EXTENDS Integers, FiniteSets

CONSTANTS
    Thread,
    UShort        \* range of unsigned short, 2^16

(* More waiters than numbers would share one *)
ASSUME TicketAssumption ==
    UShort \in Nat /\ IsFiniteSet(Thread) /\ Cardinality(Thread) < UShort

VARIABLES
    users, ticket,
    lpc,         \* "out", "wait", "in", or "try" inside trylock
    me          \* the number each thread has drawn or read

lockVars == <<users, ticket, lpc, me>>

Numbers == 0 .. UShort - 1

(* The numbers have gone round any number of times *)
LockInit ==
    /\ users \in Numbers /\ ticket = users
    /\ lpc = [t \in Thread |-> "out"]
    /\ me = [t \in Thread |-> 0]

-----------------------------------------------------------------------------
TakeTicket(t) ==
    /\ lpc[t] = "out"
    /\ me' = [me EXCEPT ![t] = users]
    /\ users' = (users + 1) % UShort
    /\ lpc' = [lpc EXCEPT ![t] = "wait"]
    /\ UNCHANGED ticket

(* Mutant: any number up to the one shown will do *)
Enter_upto(t) ==
    /\ lpc[t] = "wait"
    /\ me[t] <= ticket
    /\ lpc' = [lpc EXCEPT ![t] = "in"]
    /\ UNCHANGED <<users, ticket, me>>

Enter(t) ==
    /\ lpc[t] = "wait"
    /\ ticket = me[t]
    /\ lpc' = [lpc EXCEPT ![t] = "in"]
    /\ UNCHANGED <<users, ticket, me>>

(* Mutant: the number does not wrap with users *)
Unlock_saturate(t) ==
    /\ lpc[t] = "in"
    /\ ticket' = IF ticket = UShort - 1 THEN ticket ELSE ticket + 1
    /\ lpc' = [lpc EXCEPT ![t] = "out"]
    /\ UNCHANGED <<users, me>>

(* Mutant: shows the number of the next thread to come *)
Unlock_last(t) ==
    /\ lpc[t] = "in"
    /\ ticket' = users
    /\ lpc' = [lpc EXCEPT ![t] = "out"]
    /\ UNCHANGED <<users, me>>

Unlock(t) ==
    /\ lpc[t] = "in"
    /\ ticket' = (ticket + 1) % UShort
    /\ lpc' = [lpc EXCEPT ![t] = "out"]
    /\ UNCHANGED <<users, me>>

TryRead(t) ==
    /\ lpc[t] = "out"
    /\ me' = [me EXCEPT ![t] = users]
    /\ lpc' = [lpc EXCEPT ![t] = "try"]
    /\ UNCHANGED <<users, ticket>>

(* Mutant: compares users only *)
TrySwap_half(t) ==
    /\ lpc[t] = "try"
    /\ IF users = me[t]
       THEN /\ users' = (me[t] + 1) % UShort
            /\ lpc' = [lpc EXCEPT ![t] = "in"]
       ELSE lpc' = [lpc EXCEPT ![t] = "out"] /\ UNCHANGED users
    /\ UNCHANGED <<ticket, me>>

(* Both halves must hold the number read; otherwise E_BUSY *)
TrySwap(t) ==
    /\ lpc[t] = "try"
    /\ IF users = me[t] /\ ticket = me[t]
       THEN /\ users' = (me[t] + 1) % UShort
            /\ lpc' = [lpc EXCEPT ![t] = "in"]
       ELSE lpc' = [lpc EXCEPT ![t] = "out"] /\ UNCHANGED users
    /\ UNCHANGED <<ticket, me>>

-----------------------------------------------------------------------------
LockNext == \E t \in Thread :
    TakeTicket(t) \/ Enter(t) \/ Unlock(t) \/ TryRead(t) \/ TrySwap(t)

LockSpec == LockInit /\ [][LockNext]_lockVars

(* A spinning thread runs, and a holder leaves its critical section *)
LockFairness == \A t \in Thread : WF_lockVars(Enter(t)) /\ WF_lockVars(Unlock(t))

LockFairSpec == LockSpec /\ LockFairness

-----------------------------------------------------------------------------
LockTypeOK ==
    /\ users \in Numbers /\ ticket \in Numbers
    /\ lpc \in [Thread -> {"out", "wait", "in", "try"}]
    /\ me \in [Thread -> Numbers]

(* Threads that hold a number: in the lock or waiting for it *)
Queued == {t \in Thread : lpc[t] \in {"wait", "in"}}

(* How many numbers a is after b; how many are shown before t's *)
Gap(a, b) == (a - b) % UShort
Ahead(t) == Gap(me[t], ticket)

(* No two threads hold the lock, through lock or trylock, also after the   *)
(* numbers have wrapped.                                                   *)
MutualExclusion == \A t, u \in Thread : lpc[t] = "in" /\ lpc[u] = "in" => t = u

(* The lock is fair: a thread that waits is not overtaken by one that drew *)
(* its number later, nor by a trylock.                                     *)
FirstComeFirstServed ==
    [][\A t, u \in Thread :
          lpc[t] = "wait" /\ lpc'[u] = "in" /\ lpc[u] # "in" /\ t # u =>
              lpc[u] = "wait" /\ Ahead(u) < Ahead(t)]_lockVars

(* The inductive invariant: the numbers from ticket up to users are drawn, *)
(* each by one thread, and the holder has the first.                       *)
LockInv ==
    /\ LockTypeOK
    /\ \A t \in Queued : Ahead(t) < Gap(users, ticket)
    /\ \A t, u \in Queued : me[t] = me[u] => t = u
    /\ \A t \in Thread : lpc[t] = "in" => me[t] = ticket
    /\ Cardinality(Queued) = Gap(users, ticket)
=============================================================================
