-------------------------------- MODULE Fifo --------------------------------
(***************************************************************************)
(* What the shared-memory buffers of libexo promise: a bounded FIFO.  Put  *)
(* adds an item at the end, Take gives the first item to one consumer,     *)
(* which holds it until its call returns.                                  *)
(***************************************************************************)
EXTENDS Naturals, Sequences

CONSTANTS Item, Consumer, None, Capacity

VARIABLES
    queue,      \* items put and not taken
    held        \* the item each consumer is returning, or None

(* It may be set up with items in it *)
Init ==
    /\ queue \in Seq(Item) /\ Len(queue) <= Capacity
    /\ held = [c \in Consumer |-> None]

Put(i) ==
    /\ Len(queue) < Capacity
    /\ queue' = Append(queue, i)
    /\ UNCHANGED held

Take(c) ==
    /\ held[c] = None
    /\ queue # <<>>
    /\ held' = [held EXCEPT ![c] = Head(queue)]
    /\ queue' = Tail(queue)

Return(c) ==
    /\ held[c] # None
    /\ held' = [held EXCEPT ![c] = None]
    /\ UNCHANGED queue

Next == \/ \E i \in Item : Put(i)
        \/ \E c \in Consumer : Take(c) \/ Return(c)

Spec == Init /\ [][Next]_<<queue, held>>
=============================================================================
