----------------------------- MODULE SpmcBuffer -----------------------------
(***************************************************************************)
(* SPMC_circular_buffer of lib/libexo/channel: one producer, several       *)
(* consumers, no locks.  _head and _tail count items since the start (64   *)
(* bits); consume works on a copy of _tail in an unsigned int of range     *)
(* Word.  Item n is the n-th one produced: a client repeats produce with   *)
(* the same item until it is accepted.                                     *)
(***************************************************************************)
EXTENDS Integers, Sequences

CONSTANTS
    SIZE,       \* slots, a power of two
    Consumer,
    Word,       \* range of unsigned int, 2^32
    MaxItems    \* bound: items produced in a behaviour

(* SIZE is a power of two *)
SizeDivides == Word % SIZE = 0

ASSUME BufferAssumption ==
    /\ SIZE \in Nat \ {0} /\ Word \in Nat \ {0} /\ MaxItems \in Nat
    /\ SizeDivides

VARIABLES
    head, tail,     \* _head, _tail
    buffer,         \* _buffer
    ppc,            \* producer: position in produce
    cpc,            \* consumers: position in consume
    temp,           \* consume's copy of _tail
    item,           \* what consume read from the slot
    wrapped         \* history: _tail has restarted at Word, which _head does not

spmcVars == <<head, tail, buffer, ppc, cpc, temp, item, wrapped>>

Dummy == 0          \* __dummy_addr: an empty slot
Slots == 0 .. SIZE - 1
Item == 1 .. MaxItems

SpmcInit ==
    /\ head = 0 /\ tail = 0
    /\ buffer = [s \in Slots |-> Dummy]
    /\ ppc = "idle"
    /\ cpc = [c \in Consumer |-> "idle"]
    /\ temp = [c \in Consumer |-> 0]
    /\ item = [c \in Consumer |-> Dummy]
    /\ wrapped = FALSE

-----------------------------------------------------------------------------
(* produce: a full buffer, or a slot still being emptied, ends the call *)

CheckFull ==
    /\ ppc = "idle"
    /\ head < MaxItems
    /\ head - tail # SIZE
    /\ ppc' = "fill"
    /\ UNCHANGED <<head, tail, buffer, cpc, temp, item, wrapped>>

(* Mutant: takes the slot without looking whether it has been emptied *)
FillSlot_blind ==
    /\ ppc = "fill"
    /\ buffer' = [buffer EXCEPT ![head % SIZE] = head + 1]
    /\ ppc' = "publish"
    /\ UNCHANGED <<head, tail, cpc, temp, item, wrapped>>

FillSlot ==
    /\ ppc = "fill"
    /\ IF buffer[head % SIZE] = Dummy
       THEN /\ buffer' = [buffer EXCEPT ![head % SIZE] = head + 1]
            /\ ppc' = "publish"
       ELSE ppc' = "idle" /\ UNCHANGED buffer
    /\ UNCHANGED <<head, tail, cpc, temp, item, wrapped>>

Publish ==
    /\ ppc = "publish"
    /\ head' = head + 1
    /\ ppc' = "idle"
    /\ UNCHANGED <<tail, buffer, cpc, temp, item, wrapped>>

-----------------------------------------------------------------------------
(* consume *)

ReadTail(c) ==
    /\ cpc[c] = "idle"
    /\ temp' = [temp EXCEPT ![c] = tail % Word]
    /\ cpc' = [cpc EXCEPT ![c] = "check"]
    /\ UNCHANGED <<head, tail, buffer, ppc, item, wrapped>>

CheckEmpty(c) ==
    /\ cpc[c] = "check"
    /\ cpc' = [cpc EXCEPT ![c] = IF head = temp[c] THEN "idle" ELSE "swap"]
    /\ UNCHANGED <<head, tail, buffer, ppc, temp, item, wrapped>>

(* The new value is computed in an unsigned int, where _tail restarts at   *)
(* Word; a lost race ends the call                                         *)
CompareAndSwap(c) ==
    /\ cpc[c] = "swap"
    /\ IF tail = temp[c]
       THEN /\ tail' = (temp[c] + 1) % Word
            /\ wrapped' = (wrapped \/ tail' = 0)
            /\ cpc' = [cpc EXCEPT ![c] = "take"]
       ELSE cpc' = [cpc EXCEPT ![c] = "idle"] /\ UNCHANGED <<tail, wrapped>>
    /\ UNCHANGED <<head, buffer, ppc, temp, item>>

TakeItem(c) ==
    /\ cpc[c] = "take"
    /\ item' = [item EXCEPT ![c] = buffer[temp[c] % SIZE]]
    /\ cpc' = [cpc EXCEPT ![c] = "clear"]
    /\ UNCHANGED <<head, tail, buffer, ppc, temp, wrapped>>

(* Mutant: the slot keeps its item *)
ClearSlot_keep(c) ==
    /\ cpc[c] = "clear"
    /\ cpc' = [cpc EXCEPT ![c] = "idle"]
    /\ item' = [item EXCEPT ![c] = Dummy]
    /\ UNCHANGED <<head, tail, buffer, ppc, temp, wrapped>>

(* The call ends; item is local to it *)
ClearSlot(c) ==
    /\ cpc[c] = "clear"
    /\ buffer' = [buffer EXCEPT ![temp[c] % SIZE] = Dummy]
    /\ cpc' = [cpc EXCEPT ![c] = "idle"]
    /\ item' = [item EXCEPT ![c] = Dummy]
    /\ UNCHANGED <<head, tail, ppc, temp, wrapped>>

-----------------------------------------------------------------------------
Produce == CheckFull \/ FillSlot \/ Publish

Consume(c) == \/ ReadTail(c) \/ CheckEmpty(c) \/ CompareAndSwap(c)
              \/ TakeItem(c) \/ ClearSlot(c)

SpmcNext == Produce \/ \E c \in Consumer : Consume(c)

SpmcSpec == SpmcInit /\ [][SpmcNext]_spmcVars

(* Producer and consumers call again until they succeed *)
SpmcFairness == WF_spmcVars(Produce) /\ \A c \in Consumer : WF_spmcVars(Consume(c))

SpmcFairSpec == SpmcSpec /\ SpmcFairness

-----------------------------------------------------------------------------
SpmcTypeOK ==
    /\ head \in 0 .. MaxItems /\ tail \in 0 .. MaxItems
    /\ buffer \in [Slots -> {Dummy} \cup Item]
    /\ ppc \in {"idle", "fill", "publish"}
    /\ cpc \in [Consumer -> {"idle", "check", "swap", "take", "clear"}]
    /\ temp \in [Consumer -> 0 .. Word - 1]
    /\ item \in [Consumer -> {Dummy} \cup Item]

(* The buffer is a FIFO of SIZE items: every item is consumed once, in     *)
(* order, by one consumer, which gets it from the slot although it has     *)
(* moved _tail before reading the slot.  That ends when the 32-bit copy of *)
(* _tail wraps: consume then takes an empty buffer for a full one.         *)
Contents == [i \in 1 .. head - tail |-> buffer[(tail + i - 1) % SIZE]]
Returning == [c \in Consumer |-> IF cpc[c] = "take" THEN buffer[temp[c] % SIZE]
                                 ELSE item[c]]
Abstract == INSTANCE Fifo WITH
    None <- Dummy, Capacity <- SIZE, queue <- Contents, held <- Returning
FifoSpec == Abstract!Init /\ [][Abstract!Next \/ wrapped']_<<Contents, Returning>>

(* A slot a consumer is emptying is neither refilled nor given to another  *)
(* consumer, even a lap later: what the dummy value is there for.          *)
SlotsApart == \A c, d \in Consumer :
    cpc[c] \in {"take", "clear"} =>
        /\ (IF ppc = "publish" THEN head + 1 ELSE head) <= temp[c] + SIZE
        /\ c # d /\ cpc[d] \in {"take", "clear"} =>
              temp[c] % SIZE # temp[d] % SIZE

(* Items are still to be produced, consumed or returned.  That must end,   *)
(* with the items or with the range of _tail: a lost compare-and-swap or a *)
(* slot not yet emptied only delays the callers                            *)
Unfinished == ~wrapped /\ ~(tail = MaxItems /\ \A c \in Consumer : item[c] = Dummy)

-----------------------------------------------------------------------------
(***************************************************************************)
(* The inductive invariant (proved in SyncProofs), until _tail restarts.   *)
(***************************************************************************)
Emptying == {c \in Consumer : cpc[c] \in {"take", "clear"}}

(* The items in the buffer, each in its slot: published, being emptied, or *)
(* filled in but not published                                             *)
Live == (tail .. head - 1) \cup {temp[c] : c \in Emptying}
           \cup (IF ppc = "publish" THEN {head} ELSE {})

CountsInv ==
    /\ tail < Word /\ tail <= head /\ head <= tail + SIZE
    /\ ppc # "idle" => head < tail + SIZE /\ head < MaxItems
    /\ \A c \in Consumer :
          /\ cpc[c] # "idle" => temp[c] <= tail
          /\ cpc[c] = "swap" => temp[c] < head
          /\ c \in Emptying => temp[c] < tail
          /\ item[c] = IF cpc[c] = "clear" THEN temp[c] + 1 ELSE Dummy

SpmcKept ==
    /\ SpmcTypeOK /\ CountsInv /\ SlotsApart
    /\ \A n \in Live : buffer[n % SIZE] = n + 1

SpmcInv == wrapped \/ SpmcKept
=============================================================================
