------------------------------- MODULE Libexo -------------------------------
(***************************************************************************)
(* What the threads of a program share through libexo, libcommon and       *)
(* libcomponent: the ticket lock, the circular buffer of a channel, thread *)
(* objects with their events, and reference-counted components.  A step is *)
(* one of a single part.                                                   *)
(***************************************************************************)
EXTENDS TicketLock, SpmcBuffer, Threads, Components

libexoVars == <<lockVars, spmcVars, threadVars, compVars>>

LibexoInit == LockInit /\ SpmcInit /\ ThreadsInit /\ CompInit

LibexoNext ==
    \/ LockNext /\ UNCHANGED <<spmcVars, threadVars, compVars>>
    \/ SpmcNext /\ UNCHANGED <<lockVars, threadVars, compVars>>
    \/ ThreadsNext /\ UNCHANGED <<lockVars, spmcVars, compVars>>
    \/ CompNext /\ UNCHANGED <<lockVars, spmcVars, threadVars>>

LibexoSpec == LibexoInit /\ [][LibexoNext]_libexoVars

-----------------------------------------------------------------------------
(* The numbers drawn from the ticket lock, the counts, slots and claims of *)
(* the circular buffer, the states of threads and waiters, and the         *)
(* references of components agree with each other: what the proofs are by  *)
(* induction on.                                                           *)
LibexoInv == LockInv /\ SpmcInv /\ ThreadsInv /\ CompInv

(* Nothing is used after it is gone or before it is there: thread objects  *)
(* and their start events (Base_thread), wakes of an Event, components and *)
(* their references (release_ref).                                         *)
ObjectLifetimes ==
    /\ ThreadsUseLiveObjects /\ WaitsAreWoken
    /\ UnloadedWithLastReference
=============================================================================
