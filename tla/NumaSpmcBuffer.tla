--------------------------- MODULE NumaSpmcBuffer ---------------------------
(***************************************************************************)
(* SPMC_circular_buffer of lib/libexo/numa_channel.  Four uint32_t         *)
(* counters that wrap; they advance by Distance (HEAD_TAIL_DISTANCE, a     *)
(* cache line of pointers), so only every Distance-th slot is used.        *)
(* Consumers claim a slot with a compare-and-swap on _cons_head and hand   *)
(* it back through _cons_tail in the order of their claims.                *)
(***************************************************************************)
EXTENDS Integers, Sequences

CONSTANTS
    SIZE, Distance, Consumer,
    Word,       \* range of uint32_t, 2^32
    MaxItems    \* bound: items produced in a behaviour

BufferAssumption ==
    /\ SIZE \in Nat \ {0} /\ Distance \in Nat \ {0} /\ Word \in Nat \ {0}
    /\ Word % SIZE = 0 /\ SIZE % Distance = 0 /\ SIZE > Distance
    /\ MaxItems \in Nat /\ MaxItems * Distance < Word

VARIABLES
    prod_head, prod_tail, cons_head, cons_tail, buffer,
    produced,       \* how many items; item n is the n-th one
    ppc, cpc,       \* positions in produce and consume
    next,           \* consume's copy of _cons_head
    item            \* what consume read

vars == <<prod_head, prod_tail, cons_head, cons_tail, buffer, produced,
          ppc, cpc, next, item>>

NoItem == 0           \* NULL, or an item of an earlier lap
Slots == 0 .. SIZE - 1
Item == 1 .. MaxItems
Counter == {d * Distance : d \in 0 .. (Word \div Distance) - 1}

(* After any number of items, with the buffer empty; 0 is the constructor *)
Init ==
    \E s \in Counter :
        /\ prod_head = s /\ prod_tail = s /\ cons_head = s /\ cons_tail = s
        /\ buffer = [i \in Slots |-> NoItem]
        /\ produced = 0
        /\ ppc = "idle"
        /\ cpc = [c \in Consumer |-> "idle"]
        /\ next = [c \in Consumer |-> 0]
        /\ item = [c \in Consumer |-> NoItem]

-----------------------------------------------------------------------------
(* The - 1 is _mask: a full buffer is told from an empty one by one slot *)
FreeEntries == (SIZE - 1 + cons_tail - prod_head) % Word

Reserve ==
    /\ ppc = "idle"
    /\ produced < MaxItems
    /\ FreeEntries >= Distance
    /\ prod_head' = (prod_head + Distance) % Word
    /\ ppc' = "fill"
    /\ UNCHANGED <<prod_tail, cons_head, cons_tail, buffer, produced, cpc,
                   next, item>>

(* prod_tail is the prod_head the call has read: there is one producer *)
Fill ==
    /\ ppc = "fill"
    /\ buffer' = [buffer EXCEPT ![prod_tail % SIZE] = produced + 1]
    /\ ppc' = "publish"
    /\ UNCHANGED <<prod_head, prod_tail, cons_head, cons_tail, produced, cpc,
                   next, item>>

(* Mutant: the consumers are not told *)
Publish_none ==
    /\ ppc = "publish"
    /\ produced' = produced + 1
    /\ ppc' = "idle"
    /\ UNCHANGED <<prod_head, prod_tail, cons_head, cons_tail, buffer, cpc,
                   next, item>>

Publish ==
    /\ ppc = "publish"
    /\ prod_tail' = prod_head
    /\ produced' = produced + 1
    /\ ppc' = "idle"
    /\ UNCHANGED <<prod_head, cons_head, cons_tail, buffer, cpc, next, item>>

-----------------------------------------------------------------------------
ReadHead(c) ==
    /\ cpc[c] = "idle"
    /\ next' = [next EXCEPT ![c] = cons_head]
    /\ cpc' = [cpc EXCEPT ![c] = "check"]
    /\ UNCHANGED <<prod_head, prod_tail, cons_head, cons_tail, buffer,
                   produced, ppc, item>>

CheckEmpty(c) ==
    /\ cpc[c] = "check"
    /\ cpc' = [cpc EXCEPT ![c] =
                 IF (prod_tail - next[c]) % Word < Distance
                 THEN "idle" ELSE "swap"]
    /\ UNCHANGED <<prod_head, prod_tail, cons_head, cons_tail, buffer,
                   produced, ppc, next, item>>

CompareAndSwap(c) ==
    /\ cpc[c] = "swap"
    /\ IF cons_head = next[c]
       THEN /\ cons_head' = (next[c] + Distance) % Word
            /\ cpc' = [cpc EXCEPT ![c] = "take"]
       ELSE cpc' = [cpc EXCEPT ![c] = "idle"] /\ UNCHANGED cons_head
    /\ UNCHANGED <<prod_head, prod_tail, cons_tail, buffer, produced, ppc,
                   next, item>>

TakeItem(c) ==
    /\ cpc[c] = "take"
    /\ item' = [item EXCEPT ![c] = buffer[next[c] % SIZE]]
    /\ cpc' = [cpc EXCEPT ![c] = "turn"]
    /\ UNCHANGED <<prod_head, prod_tail, cons_head, cons_tail, buffer,
                   produced, ppc, next>>

(* Mutant: does not wait for the consumers that claimed earlier slots *)
HandBack_eager(c) ==
    /\ cpc[c] = "turn"
    /\ cons_tail' = (next[c] + Distance) % Word
    /\ cpc' = [cpc EXCEPT ![c] = "idle"]
    /\ item' = [item EXCEPT ![c] = NoItem]
    /\ UNCHANGED <<prod_head, prod_tail, cons_head, buffer, produced, ppc,
                   next>>

(* The call ends; item is local to it *)
HandBack(c) ==
    /\ cpc[c] = "turn"
    /\ cons_tail = next[c]
    /\ cons_tail' = (next[c] + Distance) % Word
    /\ cpc' = [cpc EXCEPT ![c] = "idle"]
    /\ item' = [item EXCEPT ![c] = NoItem]
    /\ UNCHANGED <<prod_head, prod_tail, cons_head, buffer, produced, ppc,
                   next>>

-----------------------------------------------------------------------------
Produce == Reserve \/ Fill \/ Publish

Consume(c) == \/ ReadHead(c) \/ CheckEmpty(c) \/ CompareAndSwap(c)
              \/ TakeItem(c) \/ HandBack(c)

Next == Produce \/ \E c \in Consumer : Consume(c)

Spec == Init /\ [][Next]_vars

Fairness == WF_vars(Produce) /\ \A c \in Consumer : WF_vars(Consume(c))

FairSpec == Spec /\ Fairness

-----------------------------------------------------------------------------
TypeOK ==
    /\ {prod_head, prod_tail, cons_head, cons_tail} \subseteq Counter
    /\ buffer \in [Slots -> {NoItem} \cup Item]
    /\ produced \in 0 .. MaxItems
    /\ ppc \in {"idle", "fill", "publish"}
    /\ cpc \in [Consumer -> {"idle", "check", "swap", "take", "turn"}]
    /\ next \in [Consumer -> Counter]
    /\ item \in [Consumer -> {NoItem} \cup Item]

(* The buffer is a FIFO although its counters wrap and although a consumer *)
(* may be overtaken between its claim and its read of the slot.  It holds  *)
(* (SIZE - 1) / HEAD_TAIL_DISTANCE items, not SIZE.                        *)
Abstract == INSTANCE Fifo WITH
    None <- NoItem, Capacity <- (SIZE - 1) \div Distance,
    queue <- [i \in 1 .. ((prod_tail - cons_head) % Word) \div Distance |->
                buffer[(cons_head + (i - 1) * Distance) % SIZE]],
    held <- [c \in Consumer |-> IF cpc[c] = "take" THEN buffer[next[c] % SIZE]
                                ELSE item[c]]
FifoSpec == Abstract!Spec

(* Items are still to be produced or consumed, or a slot to be handed      *)
(* back.  That must end: the chain of waits in consume has no cycle and    *)
(* every link is released.                                                 *)
Unfinished == ~(produced = MaxItems /\ cons_tail = prod_head)
=============================================================================
