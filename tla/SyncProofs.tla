----------------------------- MODULE SyncProofs -----------------------------
(***************************************************************************)
(* Proofs about SpmcBuffer, for every size, every number of consumers and  *)
(* any number of items, until the 32-bit tail of consume wraps, and about  *)
(* Threads, for any threads and waiters.                                   *)
(***************************************************************************)
EXTENDS SpmcBuffer, Threads, TLAPS

-----------------------------------------------------------------------------
(* _head & _mask and _tail & _mask: a slot index is below SIZE, and comes  *)
(* again SIZE items later.                                                 *)
LEMMA SlotIndex ==
    ASSUME NEW S \in Nat \ {0}, NEW n \in Nat
    PROVE  n % S \in 0 .. S - 1 /\ (n + S) % S = n % S
  <1>1. n % S \in 0 .. S - 1
    OBVIOUS
  <1>2. (n + S) % S = n % S
    <2>. DEFINE q == n \div S
                p == (n + S) \div S
                a == n % S
                b == (n + S) % S
    <2>1. q \in Int /\ a \in 0 .. S - 1 /\ n = S * q + a
      OBVIOUS
    <2>2. p \in Int /\ b \in 0 .. S - 1 /\ n + S = S * p + b
      OBVIOUS
    <2>. HIDE DEF q, p, a, b
    <2>3. PICK d \in Int : d = p - (q + 1)
      BY <2>1, <2>2
    <2>4. S * d = a - b
      BY <2>1, <2>2, <2>3
    <2>5. ~ (d >= 1) /\ ~ (d <= -1)
      <3>1. ASSUME d >= 1 PROVE FALSE
        <4>1. S * d >= S
          BY <3>1
        <4> QED
          BY <4>1, <2>1, <2>2, <2>4
      <3>2. ASSUME d <= -1 PROVE FALSE
        <4>1. S * d <= -S
          BY <3>2
        <4> QED
          BY <4>1, <2>1, <2>2, <2>4
      <3> QED
        BY <3>1, <3>2, Zenon
    <2>6. a = b
      BY <2>1, <2>2, <2>4, <2>5
    <2> QED
      BY <2>6, Zenon DEF a, b
  <1> QED
    BY <1>1, <1>2, Zenon

LEMMA Below == ASSUME NEW a \in Nat, NEW b \in Nat, a # b, a <= b PROVE a + 1 <= b
  OBVIOUS

LEMMA NoWrap == ASSUME NEW W \in Nat \ {0}, NEW n \in 0 .. W - 1 PROVE n % W = n
  OBVIOUS

-----------------------------------------------------------------------------
(* An item is one above its number, so two items in the buffer are never   *)
(* in one slot and none looks like the dummy.                              *)
LEMMA LiveItems ==
    ASSUME SpmcKept
    PROVE  /\ Live \subseteq Nat
           /\ \A n \in Live : n % SIZE \in Slots /\ buffer[n % SIZE] # Dummy
           /\ \A n, m \in Live : n % SIZE = m % SIZE => n = m
           /\ head % SIZE \in Slots
  <1>1. Live \subseteq Nat /\ head \in Nat
    BY BufferAssumption DEF SpmcKept, SpmcTypeOK, Live, Emptying
  <1>2. \A n \in Nat : n % SIZE \in Slots
    BY SlotIndex, BufferAssumption, Zenon DEF Slots
  <1>3. \A n \in Live : buffer[n % SIZE] = n + 1
    BY Zenon DEF SpmcKept
  <1> QED
    BY <1>1, <1>2, <1>3 DEF Dummy

LEMMA InitSpmcInv == SpmcInit => SpmcKept
  <1> SUFFICES ASSUME SpmcInit PROVE SpmcKept
    BY Zenon
  <1>. USE BufferAssumption DEF SpmcInit
  <1>1. Emptying = {}
    BY Zenon DEF Emptying
  <1>2. Live = {}
    BY <1>1 DEF Live
  <1>3. SpmcTypeOK
    BY DEF SpmcTypeOK, Dummy
  <1>4. CountsInv /\ SlotsApart
    BY <1>1 DEF CountsInv, SlotsApart, Emptying
  <1> QED
    BY <1>2, <1>3, <1>4, Zenon DEF SpmcKept

(* produce: the slot is filled only when it holds the dummy, so it is the  *)
(* slot of no item in the buffer and of none that is being emptied.        *)
LEMMA ProduceSpmcInv ==
    ASSUME SpmcKept, Produce
    PROVE  SpmcKept'
  <1>. USE BufferAssumption DEF SpmcKept
  <1>0. /\ head \in 0 .. MaxItems /\ tail \in 0 .. MaxItems
        /\ temp \in [Consumer -> 0 .. Word - 1] /\ buffer \in [Slots -> {Dummy} \cup Item]
        /\ tail <= head /\ head <= tail + SIZE
    BY Zenon DEF SpmcTypeOK, CountsInv
  <1>1. CASE CheckFull
    <2>1. Live' = Live
      BY <1>1, Zenon DEF CheckFull, Live, Emptying
    <2>2. SpmcTypeOK' /\ CountsInv' /\ SlotsApart'
      BY <1>0, <1>1 DEF CheckFull, SpmcTypeOK, CountsInv, SlotsApart, Emptying
    <2> QED
      BY <1>1, <2>1, <2>2, Zenon DEF CheckFull
  <1>2. CASE FillSlot /\ buffer[head % SIZE] = Dummy
    <2>0. /\ ppc = "fill" /\ ppc' = "publish"
          /\ buffer' = [buffer EXCEPT ![head % SIZE] = head + 1]
          /\ UNCHANGED <<head, tail, cpc, temp, item>>
      BY <1>2, Zenon DEF FillSlot
    <2>1. Live' = Live \cup {head}
      BY <2>0, Zenon DEF Live, Emptying
    <2>2. SpmcTypeOK'
      <3>1. head + 1 \in Item
        BY <1>0, <2>0 DEF CountsInv, Item
      <3>2. buffer' \in [Slots -> {Dummy} \cup Item]
        BY <1>0, <2>0, <3>1, Zenon
      <3> QED
        BY <2>0, <3>2, Zenon DEF SpmcTypeOK
    <2>3. CountsInv'
      BY <2>0, Zenon DEF CountsInv, Emptying
    <2>4. \A n \in Live' : buffer'[n % SIZE] = n + 1
      BY <1>0, <1>2, <2>0, <2>1, LiveItems, Zenon
    <2>5. SlotsApart'
      <3>1. ASSUME NEW c \in Emptying PROVE head + 1 <= temp[c] + SIZE
        <4>1. temp[c] \in Live /\ temp[c] \in Nat
          BY <1>0 DEF Live, Emptying
        <4>2. head % SIZE # temp[c] % SIZE
          BY <1>2, <4>1, LiveItems, Zenon
        <4>3. (temp[c] + SIZE) % SIZE = temp[c] % SIZE
          BY <4>1, SlotIndex, Zenon
        <4>4. head # temp[c] + SIZE
          BY <4>2, <4>3, Zenon
        <4>5. head <= temp[c] + SIZE
          BY <2>0, Zenon DEF SlotsApart, Emptying
        <4>6. head \in Nat /\ temp[c] + SIZE \in Nat
          BY <1>0, <4>1
        <4> QED
          BY Zenon, <4>4, <4>5, <4>6, Below
      <3> QED
        BY <2>0, <3>1, Zenon DEF SlotsApart, Emptying
    <2> QED
      BY <2>2, <2>3, <2>4, <2>5, Zenon
  <1>3. CASE FillSlot /\ buffer[head % SIZE] # Dummy
    <2>0. ppc' = "idle" /\ ppc = "fill" /\ UNCHANGED <<head, tail, buffer, cpc, temp, item>>
      BY <1>3, Zenon DEF FillSlot
    <2>1. Live' = Live
      BY <2>0, Zenon DEF Live, Emptying
    <2>2. SpmcTypeOK' /\ CountsInv' /\ SlotsApart'
      BY <2>0, Zenon DEF SpmcTypeOK, CountsInv, SlotsApart, Emptying
    <2> QED
      BY <2>0, <2>1, <2>2, Zenon
  <1>4. CASE Publish
    <2>1. Live' = Live
      BY <1>0, <1>4 DEF Publish, Live, Emptying
    <2>2. SpmcTypeOK' /\ CountsInv'
      BY <1>0, <1>4 DEF Publish, SpmcTypeOK, CountsInv, Emptying
    <2>3. SlotsApart'
      BY <1>0, <1>4, Zenon DEF Publish, SlotsApart
    <2> QED
      BY <1>4, <2>1, <2>2, <2>3, Zenon DEF Publish
  <1> QED
    BY <1>1, <1>2, <1>3, <1>4, Zenon DEF Produce

(* consume until it has taken a slot: a consumer that fails its test or    *)
(* its compare-and-swap has touched nothing.                               *)
LEMMA TrySpmcInv ==
    ASSUME SpmcKept, NEW c \in Consumer,
           \/ ReadTail(c) \/ CheckEmpty(c)
           \/ CompareAndSwap(c) /\ tail # temp[c]
    PROVE  /\ SpmcKept' /\ Emptying' = Emptying
           /\ UNCHANGED <<head, tail, buffer, item>>
           /\ \A d \in Emptying : temp'[d] = temp[d] /\ cpc'[d] = cpc[d]
  <1>. USE BufferAssumption DEF SpmcKept
  <1>0. /\ head \in 0 .. MaxItems /\ tail \in 0 .. MaxItems
        /\ temp \in [Consumer -> 0 .. Word - 1]
        /\ cpc \in [Consumer -> {"idle", "check", "swap", "take", "clear"}]
        /\ tail <= head /\ tail < Word
    BY Zenon DEF SpmcTypeOK, CountsInv
  <1>1. UNCHANGED <<head, tail, buffer, ppc, item>>
    BY Zenon DEF ReadTail, CheckEmpty, CompareAndSwap
  <1>2. \A d \in Consumer \ {c} : temp'[d] = temp[d] /\ cpc'[d] = cpc[d]
    BY <1>0, Zenon DEF ReadTail, CheckEmpty, CompareAndSwap
  <1>3. /\ cpc[c] \in {"idle", "check", "swap"} /\ cpc'[c] \in {"idle", "check", "swap"}
        /\ temp' \in [Consumer -> 0 .. Word - 1]
        /\ cpc' \in [Consumer -> {"idle", "check", "swap", "take", "clear"}]
        /\ cpc'[c] # "idle" => temp'[c] <= tail
        /\ cpc'[c] = "swap" => temp'[c] < head
    <2>1. CASE ReadTail(c)
      <3>1. tail % Word = tail
        <4>1. tail \in 0 .. Word - 1
          BY <1>0
        <4> QED
          BY <4>1, NoWrap, Zenon
      <3> QED
        BY <1>0, <2>1, <3>1 DEF ReadTail
    <2>2. CASE CheckEmpty(c)
      BY <1>0, <2>2 DEF CheckEmpty, CountsInv
    <2>3. CASE CompareAndSwap(c) /\ tail # temp[c]
      BY <1>0, <2>3, Zenon DEF CompareAndSwap
    <2> QED
      BY <2>1, <2>2, <2>3, Zenon
  <1>4. Emptying' = Emptying /\ c \notin Emptying
    BY <1>2, <1>3, Zenon DEF Emptying
  <1>5. \A d \in Emptying : temp'[d] = temp[d] /\ cpc'[d] = cpc[d]
    BY <1>2, <1>4, Zenon DEF Emptying
  <1>6. Live' = Live
    BY <1>1, <1>4, <1>5 DEF Live
  <1>7. SpmcTypeOK'
    BY <1>1, <1>3, Zenon DEF SpmcTypeOK
  <1>8. CountsInv'
    BY <1>1, <1>2, <1>3, <1>4 DEF CountsInv
  <1>9. SlotsApart'
    BY <1>1, <1>4, <1>5 DEF SlotsApart, Emptying
  <1> QED
    BY <1>1, <1>4, <1>5, <1>6, <1>7, <1>8, <1>9, Zenon

(* The compare-and-swap that succeeds takes the slot of item tail.         *)
LEMMA SwapSpmcInv ==
    ASSUME SpmcKept, NEW c \in Consumer,
           CompareAndSwap(c), tail = temp[c], ~wrapped'
    PROVE  /\ SpmcKept' /\ tail < head /\ tail' = tail + 1 /\ c \notin Emptying
           /\ cpc' = [cpc EXCEPT ![c] = "take"]
           /\ UNCHANGED <<head, buffer, temp, item>>
  <1>. USE BufferAssumption DEF SpmcKept
  <1>0. /\ head \in 0 .. MaxItems /\ tail \in 0 .. MaxItems
        /\ temp \in [Consumer -> 0 .. Word - 1]
        /\ cpc \in [Consumer -> {"idle", "check", "swap", "take", "clear"}]
        /\ tail < head /\ tail < Word /\ head <= tail + SIZE
    BY Zenon DEF SpmcTypeOK, CountsInv, CompareAndSwap
  <1>1. /\ tail' = tail + 1 /\ tail' < Word /\ cpc' = [cpc EXCEPT ![c] = "take"]
        /\ UNCHANGED <<head, buffer, ppc, temp, item>>
    <2>1. (tail + 1) % Word # 0
      BY Zenon DEF CompareAndSwap
    <2>2. tail + 1 # Word
      <3>1. Word % Word = 0
        OBVIOUS
      <3> QED
        BY <2>1, <3>1, Zenon
    <2>3. tail + 1 \in 0 .. Word - 1
      BY <1>0, <2>2
    <2>4. (tail + 1) % Word = tail + 1 /\ tail + 1 < Word
      BY <2>3, NoWrap
    <2> QED
      BY <2>4, Zenon DEF CompareAndSwap
  <1>2. Emptying' = Emptying \cup {c} /\ c \notin Emptying
    BY <1>0, <1>1, Zenon DEF Emptying, CompareAndSwap
  <1>3. Live' = Live
    <2>1. {temp[d] : d \in Emptying \cup {c}} = {temp[d] : d \in Emptying} \cup {tail}
      BY Zenon
    <2>2. tail .. head - 1 = (tail + 1 .. head - 1) \cup {tail}
      BY <1>0
    <2> QED
      BY <1>1, <1>2, <2>1, <2>2 DEF Live
  <1>4. SpmcTypeOK'
    BY <1>0, <1>1 DEF SpmcTypeOK
  <1>5. CountsInv'
    BY <1>0, <1>1, <1>2 DEF CountsInv, CompareAndSwap
  <1>6. SlotsApart'
    <2>1. ASSUME NEW d \in Emptying PROVE temp[d] % SIZE # tail % SIZE
      <3>1. temp[d] \in Live /\ tail \in Live
        BY <1>0 DEF Live
      <3>2. temp[d] < tail /\ temp[d] \in Int
        BY <1>0 DEF CountsInv, Emptying
      <3> QED
        BY <1>0, <3>1, <3>2, LiveItems
    <2>2. (IF ppc = "publish" THEN head + 1 ELSE head) <= tail + SIZE
      BY <1>0 DEF CountsInv
    <2>3. \A d \in Emptying : (IF ppc = "publish" THEN head + 1 ELSE head) <= temp[d] + SIZE
      BY Zenon DEF SlotsApart, Emptying
    <2>4. \A d \in Consumer : cpc'[d] \in {"take", "clear"} <=> d \in Emptying \cup {c}
      BY <1>0, <1>1, Zenon DEF Emptying
    <2>5. \A d, e \in Emptying : d # e => temp[d] % SIZE # temp[e] % SIZE
      BY Zenon DEF SlotsApart, Emptying
    <2> QED
      BY <1>1, <2>1, <2>2, <2>3, <2>4, <2>5 DEF SlotsApart
  <1> QED
    BY <1>0, <1>1, <1>2, <1>3, <1>4, <1>5, <1>6, Zenon

(* The item is read from the slot taken: nobody has written it since.      *)
LEMMA TakeSpmcInv ==
    ASSUME SpmcKept, NEW c \in Consumer, TakeItem(c)
    PROVE  /\ SpmcKept' /\ Emptying' = Emptying
           /\ item' = [item EXCEPT ![c] = temp[c] + 1]
           /\ buffer[temp[c] % SIZE] = temp[c] + 1
           /\ UNCHANGED <<head, tail, buffer, temp>>
  <1>. USE BufferAssumption DEF SpmcKept, TakeItem
  <1>0. /\ temp \in [Consumer -> 0 .. Word - 1] /\ tail \in 0 .. MaxItems
        /\ item \in [Consumer -> {Dummy} \cup Item]
        /\ cpc \in [Consumer -> {"idle", "check", "swap", "take", "clear"}]
        /\ c \in Emptying /\ temp[c] < tail
    BY Zenon DEF SpmcTypeOK, Emptying, CountsInv
  <1>1. Emptying' = Emptying /\ Live' = Live
    BY <1>0, Zenon DEF Emptying, Live
  <1>2. buffer[temp[c] % SIZE] = temp[c] + 1
    BY <1>0, Zenon DEF Live
  <1>3. SpmcTypeOK'
    BY <1>0, <1>2 DEF SpmcTypeOK, Item
  <1>4. CountsInv'
    BY <1>0, <1>1, <1>2, Zenon DEF CountsInv
  <1>5. SlotsApart'
    BY <1>0, <1>1 DEF SlotsApart, Emptying
  <1> QED
    BY <1>1, <1>2, <1>3, <1>4, <1>5, Zenon

(* The slot is emptied; it was the slot of no other item.                  *)
LEMMA ClearSpmcInv ==
    ASSUME SpmcKept, NEW c \in Consumer, ClearSlot(c)
    PROVE  /\ SpmcKept' /\ Emptying' = Emptying \ {c}
           /\ \A n \in Live \ {temp[c]} : buffer'[n % SIZE] = buffer[n % SIZE]
  <1>. USE BufferAssumption DEF SpmcKept, ClearSlot
  <1>0. /\ temp \in [Consumer -> 0 .. Word - 1] /\ head \in 0 .. MaxItems
        /\ tail \in 0 .. MaxItems
        /\ item \in [Consumer -> {Dummy} \cup Item]
        /\ buffer \in [Slots -> {Dummy} \cup Item]
        /\ cpc \in [Consumer -> {"idle", "check", "swap", "take", "clear"}]
        /\ c \in Emptying /\ temp[c] < tail /\ temp[c] \in Live /\ tail <= head
    BY Zenon DEF SpmcTypeOK, Emptying, CountsInv, Live
  <1>1. Emptying' = Emptying \ {c}
    BY <1>0, Zenon DEF Emptying
  <1>2. \A n \in Live \ {temp[c]} : buffer'[n % SIZE] = buffer[n % SIZE]
    BY <1>0, LiveItems, Zenon
  <1>3. Live' \subseteq Live \ {temp[c]}
    <2>1. \A d \in Emptying \ {c} : temp[d] # temp[c]
      BY <1>0, Zenon DEF SlotsApart, Emptying
    <2> QED
      BY <1>0, <1>1, <2>1 DEF Live
  <1>4. SpmcTypeOK'
    BY <1>0, Zenon DEF SpmcTypeOK
  <1>5. CountsInv'
    BY <1>0, <1>1, Zenon DEF CountsInv
  <1>6. SlotsApart'
    BY <1>0, <1>1, Zenon DEF SlotsApart, Emptying
  <1> QED
    BY <1>1, <1>2, <1>3, <1>4, <1>5, <1>6, Zenon

LEMMA StutterSpmcInv == ASSUME SpmcKept, UNCHANGED spmcVars PROVE SpmcKept'
  <1>. USE DEF spmcVars, SpmcKept
  <1>1. Live' = Live
    BY Zenon DEF Live, Emptying
  <1>2. SpmcTypeOK' /\ CountsInv' /\ SlotsApart'
    BY Zenon DEF SpmcTypeOK, CountsInv, SlotsApart, Emptying
  <1> QED
    BY <1>1, <1>2, Zenon

LEMMA NextSpmcKept ==
    ASSUME SpmcKept, ~wrapped', [SpmcNext]_spmcVars
    PROVE  SpmcKept'
  <1>1. CASE Produce
    BY <1>1, ProduceSpmcInv, Zenon
  <1>2. ASSUME NEW c \in Consumer, Consume(c) PROVE SpmcKept'
    BY <1>2, TrySpmcInv, SwapSpmcInv, TakeSpmcInv, ClearSpmcInv, Zenon DEF Consume
  <1>3. CASE UNCHANGED spmcVars
    BY <1>3, StutterSpmcInv, Zenon
  <1> QED
    BY <1>1, <1>2, <1>3, Zenon DEF SpmcNext

-----------------------------------------------------------------------------
(* The wrap is final. *)
LEMMA StaysWrapped == ASSUME wrapped, [SpmcNext]_spmcVars PROVE wrapped'
  BY Zenon DEF SpmcNext, Produce, Consume, CheckFull, FillSlot, Publish, ReadTail, CheckEmpty,
     CompareAndSwap, TakeItem, ClearSlot, spmcVars

LEMMA StartSpmcInv == SpmcInit => SpmcInv
  BY InitSpmcInv, Zenon DEF SpmcInv

LEMMA NextSpmcInv == ASSUME SpmcInv, [SpmcNext]_spmcVars PROVE SpmcInv'
  BY NextSpmcKept, StaysWrapped, Zenon DEF SpmcInv

(* The counts, the slots and the items of produce and consume stay in      *)
(* step, until _tail wraps.                                                *)
THEOREM BufferInvariance == SpmcSpec => []SpmcInv
  <1>1. SpmcInit => SpmcInv
    BY StartSpmcInv, Zenon
  <1>2. SpmcInv /\ [SpmcNext]_spmcVars => SpmcInv'
    BY NextSpmcInv, Zenon
  <1> QED
    BY <1>1, <1>2, PTL DEF SpmcSpec

(* A slot a consumer is emptying is not refilled and not given to another  *)
(* consumer, a lap later included, until _tail wraps.                      *)
THEOREM SlotsStayApart == SpmcSpec => [](wrapped \/ SlotsApart)
  <1>1. SpmcInv => wrapped \/ SlotsApart
    BY Zenon DEF SpmcInv, SpmcKept
  <1> QED
    BY <1>1, BufferInvariance, PTL

-----------------------------------------------------------------------------
(* The numbers of the items from t up to h as a sequence of items.         *)
Items(t, h) == [k \in 1 .. h - t |-> t + k]

LEMMA ItemsSeq ==
    ASSUME NEW t \in Nat, NEW h \in Nat, t <= h
    PROVE  /\ Items(t, h) \in Seq(t + 1 .. h) /\ Len(Items(t, h)) = h - t
           /\ Append(Items(t, h), h + 1) = Items(t, h + 1)
           /\ t < h => /\ Items(t, h) # <<>> /\ Head(Items(t, h)) = t + 1
                       /\ Tail(Items(t, h)) = Items(t + 1, h)
  <1>1. Items(t, h) \in Seq(t + 1 .. h) /\ Len(Items(t, h)) = h - t
    BY DEF Items
  <1>2. Append(Items(t, h), h + 1) = Items(t, h + 1)
    BY DEF Items
  <1>3. ASSUME t < h PROVE Items(t, h) # <<>> /\ Head(Items(t, h)) = t + 1
    BY <1>3 DEF Items
  <1>4. ASSUME t < h PROVE Tail(Items(t, h)) = Items(t + 1, h)
    BY <1>4 DEF Items
  <1> QED
    BY <1>1, <1>2, <1>3, <1>4, Zenon

(* The slots from tail to head, which the refinement mapping reads.        *)
InBuffer(b, t, h) == [i \in 1 .. h - t |-> b[(t + i - 1) % SIZE]]

LEMMA QueueIsItems ==
    ASSUME NEW b, NEW t \in Nat, NEW h \in Nat,
           \A n \in t .. h - 1 : b[n % SIZE] = n + 1
    PROVE  InBuffer(b, t, h) = Items(t, h)
  <1>1. ASSUME NEW k \in 1 .. h - t PROVE b[(t + k - 1) % SIZE] = t + k
    <2>1. t + k - 1 \in t .. h - 1 /\ (t + k - 1) + 1 = t + k
      OBVIOUS
    <2>2. PICK n \in t .. h - 1 : n = t + k - 1
      BY <2>1, Zenon
    <2> QED
      BY <2>1, <2>2, Zenon
  <1> QED
    BY <1>1, Zenon DEF Items, InBuffer

(* They, and what the consumers are returning, as item numbers. *)
InOrder == Items(tail, head)

Held == [c \in Consumer |-> IF c \in Emptying THEN temp[c] + 1 ELSE Dummy]

LEMMA Mapped ==
    ASSUME SpmcKept
    PROVE  Contents = InOrder /\ Returning = Held
  <1>1. tail \in Nat /\ head \in Nat
    BY BufferAssumption DEF SpmcKept, SpmcTypeOK
  <1>2. \A n \in tail .. head - 1 : buffer[n % SIZE] = n + 1
    BY Zenon DEF SpmcKept, Live
  <1>3. ASSUME NEW c \in Consumer
        PROVE  (IF cpc[c] = "take" THEN buffer[temp[c] % SIZE] ELSE item[c])
                  = IF c \in Emptying THEN temp[c] + 1 ELSE Dummy
    <2>1. CASE cpc[c] = "take"
      <3>1. temp[c] \in Live
        BY <2>1, Zenon DEF Live, Emptying
      <3> QED
        BY <2>1, <3>1, Zenon DEF Emptying, SpmcKept
    <2>2. CASE cpc[c] # "take"
      BY <2>2, Zenon DEF Emptying, SpmcKept, CountsInv
    <2> QED
      BY <2>1, <2>2, Zenon
  <1>4. InBuffer(buffer, tail, head) = InOrder
    BY <1>1, <1>2, QueueIsItems, Zenon DEF InOrder
  <1>5. Contents = InBuffer(buffer, tail, head)
    BY Zenon DEF Contents, InBuffer
  <1> QED
    BY <1>3, <1>4, <1>5, Zenon DEF Returning, Held

(* Publishing puts an item, ...                                            *)
PutStep(n) ==
    Len(InOrder) < SIZE /\ InOrder' = Append(InOrder, n) /\ Held' = Held

(* ... a compare-and-swap that succeeds takes one, ...                     *)
TakeStep(c) ==
    /\ Held[c] = Dummy /\ InOrder # <<>>
    /\ Held' = [Held EXCEPT ![c] = Head(InOrder)] /\ InOrder' = Tail(InOrder)

(* ... emptying the slot returns it; no other step shows.                  *)
ReturnStep(c) ==
    Held[c] # Dummy /\ Held' = [Held EXCEPT ![c] = Dummy] /\ InOrder' = InOrder

LEMMA FifoStep ==
    ASSUME SpmcKept, ~wrapped', [SpmcNext]_spmcVars
    PROVE  \/ \E n \in Item : PutStep(n)
           \/ \E c \in Consumer : TakeStep(c) \/ ReturnStep(c)
           \/ InOrder' = InOrder /\ Held' = Held
  <1>0. /\ tail \in Nat /\ head \in Nat /\ tail <= head /\ head <= tail + SIZE
        /\ temp \in [Consumer -> 0 .. Word - 1] /\ Word \in Nat /\ SIZE \in Nat
        /\ cpc \in [Consumer -> {"idle", "check", "swap", "take", "clear"}]
    BY BufferAssumption DEF SpmcKept, SpmcTypeOK, CountsInv
  <1>1. CASE CheckFull \/ FillSlot \/ UNCHANGED spmcVars
    BY <1>1, Zenon DEF CheckFull, FillSlot, spmcVars, Held, Emptying, InOrder
  <1>2. CASE Publish
    <2>1. head < tail + SIZE /\ head + 1 \in Item
      BY <1>0, <1>2, BufferAssumption DEF Publish, SpmcKept, CountsInv, Item
    <2>2. Held' = Held /\ head' = head + 1 /\ tail' = tail
      BY <1>2, Zenon DEF Publish, Held, Emptying
    <2>3. Len(InOrder) < SIZE
      <3>1. Len(InOrder) = head - tail
        BY <1>0, ItemsSeq, Zenon DEF InOrder
      <3> QED
        BY <1>0, <2>1, <3>1
    <2>4. InOrder' = Append(InOrder, head + 1)
      BY <1>0, <2>2, ItemsSeq, Zenon DEF InOrder
    <2>5. PutStep(head + 1)
      BY <2>2, <2>3, <2>4, Zenon DEF PutStep
    <2> QED
      BY <2>1, <2>5, Zenon
  <1>3. ASSUME NEW c \in Consumer, Consume(c)
        PROVE  TakeStep(c) \/ ReturnStep(c) \/ (InOrder' = InOrder /\ Held' = Held)
    <2>1. CASE ReadTail(c) \/ CheckEmpty(c) \/ (CompareAndSwap(c) /\ tail # temp[c])
      BY <2>1, TrySpmcInv, Zenon DEF Held, InOrder
    <2>2. CASE CompareAndSwap(c) /\ tail = temp[c]
      <3>1. /\ tail < head /\ tail' = tail + 1 /\ c \notin Emptying
            /\ cpc' = [cpc EXCEPT ![c] = "take"] /\ UNCHANGED <<head, buffer, temp, item>>
        BY <2>2, SwapSpmcInv, Zenon
      <3>2. Emptying' = Emptying \cup {c}
        BY <1>0, <3>1, Zenon DEF Emptying
      <3>3. Held[c] = Dummy /\ Held' = [Held EXCEPT ![c] = tail + 1]
        BY <2>2, <3>1, <3>2, Zenon DEF Held
      <3>4. InOrder # <<>> /\ Head(InOrder) = tail + 1 /\ InOrder' = Tail(InOrder)
        BY <1>0, <3>1, ItemsSeq, Zenon DEF InOrder
      <3> QED
        BY <3>3, <3>4, Zenon DEF TakeStep
    <2>3. CASE TakeItem(c)
      BY <2>3, TakeSpmcInv, Zenon DEF Held, InOrder
    <2>4. CASE ClearSlot(c)
      <3>1. Emptying' = Emptying \ {c} /\ c \in Emptying
        BY <2>4, ClearSpmcInv, Zenon DEF ClearSlot, Emptying
      <3>2. head' = head /\ tail' = tail /\ temp' = temp
        BY <2>4, Zenon DEF ClearSlot
      <3>3. Held[c] # Dummy
        BY <1>0, <3>1 DEF Held, Dummy
      <3>4. Held' = [Held EXCEPT ![c] = Dummy]
        BY <3>1, <3>2, Zenon DEF Held
      <3> QED
        BY <3>2, <3>3, <3>4, Zenon DEF InOrder, ReturnStep
    <2> QED
      BY <1>3, <2>1, <2>2, <2>3, <2>4, Zenon DEF Consume
  <1> QED
    BY <1>1, <1>2, <1>3, Zenon DEF SpmcNext, Produce

(* The buffer is a FIFO of SIZE items for any number of consumers, until   *)
(* _tail wraps: what produce accepts, consume returns once and in order,   *)
(* whoever wins the races for _tail.                                       *)
THEOREM BufferIsFifo == SpmcSpec => FifoSpec
  <1>1. SpmcInit => Abstract!Init
    <2> SUFFICES ASSUME SpmcInit PROVE Abstract!Init
      BY Zenon
    <2>1. Contents = <<>> /\ Returning = [c \in Consumer |-> Dummy]
      BY DEF SpmcInit, Contents, Returning
    <2>2. Contents \in Seq(Item) /\ Len(Contents) <= SIZE
      BY <2>1, BufferAssumption
    <2> QED
      BY <2>1, <2>2, Zenon DEF Abstract!Init
  <1>2. SpmcKept => Contents = InOrder /\ Returning = Held
    BY Mapped, Zenon
  <1>3. (SpmcKept => Contents = InOrder /\ Returning = Held)'
    BY <1>2, PTL
  <1>4. SpmcInv /\ SpmcInv' /\ [SpmcNext]_spmcVars
           => [Abstract!Next \/ wrapped']_<<Contents, Returning>>
    <2> SUFFICES ASSUME SpmcInv, SpmcInv', [SpmcNext]_spmcVars, ~wrapped'
                 PROVE  [Abstract!Next]_<<Contents, Returning>>
      BY Zenon
    <2>0. SpmcKept /\ SpmcKept'
      BY StaysWrapped, Zenon DEF SpmcInv
    <2>1. /\ Contents = InOrder /\ Returning = Held
          /\ Contents' = InOrder' /\ Returning' = Held'
      BY <1>2, <1>3, <2>0, Zenon
    <2>2. CASE \E n \in Item : PutStep(n)
      <3>1. PICK n \in Item : PutStep(n)
        BY <2>2, Zenon
      <3>2. Abstract!Put(n)
        BY <2>1, <3>1, Zenon DEF PutStep, Abstract!Put
      <3> QED
        BY <3>2, Zenon DEF Abstract!Next
    <2>3. CASE \E c \in Consumer : TakeStep(c) \/ ReturnStep(c)
      <3>1. PICK c \in Consumer : TakeStep(c) \/ ReturnStep(c)
        BY <2>3, Zenon
      <3>2. Abstract!Take(c) \/ Abstract!Return(c)
        BY <2>1, <3>1, Zenon DEF TakeStep, ReturnStep, Abstract!Take, Abstract!Return
      <3> QED
        BY <3>2, Zenon DEF Abstract!Next
    <2> QED
      BY <2>0, <2>1, <2>2, <2>3, FifoStep, Zenon
  <1> QED
    BY <1>1, <1>4, BufferInvariance, PTL DEF SpmcSpec, FifoSpec

-----------------------------------------------------------------------------
(* Base_thread and Event.  No step changes both the thread objects and the *)
(* shared event, so that the invariant is kept in two halves.              *)
BaseInv ==
    /\ obj \in [ThreadObject -> {"none", "alive", "gone"}]
    /\ start_event \in [ThreadObject -> [var : BOOLEAN, locked : BOOLEAN]]
    /\ pc \in [ThreadObject -> {"none", "wait", "asleep", "entry", "irq", "ended"}]
    /\ ThreadsUseLiveObjects
    /\ \A t \in ThreadObject : obj[t] = "none" => pc[t] = "none"

Call == {"none", "wait", "wait_and_reset", "reset_and_wait"}
WaiterType == [call : Call, at : {"idle", "wait", "asleep", "done"}, woken : BOOLEAN]

(* A reset_and_wait, of a waiter in state r, that the event's _var = v lets *)
(* out or has let out was woken                                            *)
Woken(v, r) ==
    r.call = "reset_and_wait" /\ (r.at = "done" \/ (v /\ r.at # "idle")) => r.woken

EventInv ==
    /\ var \in BOOLEAN /\ wakes \in Nat /\ consumed \in Nat
    /\ waiter \in [Waiter -> WaiterType]
    /\ consumed <= wakes /\ (var => consumed < wakes)
    /\ \A w \in Waiter : Woken(var, waiter[w])

LEMMA Halves ==
    /\ ThreadsInv <=> BaseInv /\ EventInv
    /\ ThreadsInv' <=> BaseInv' /\ EventInv'
  BY Zenon DEF ThreadsInv, ThreadsTypeOK, WaitsAreWoken, BaseInv, EventInv, Woken, WaiterType, Call

LEMMA BaseStarts == ThreadsInit => BaseInv
  BY DEF ThreadsInit, BaseInv, ThreadsUseLiveObjects

LEMMA EventStarts == ThreadsInit => EventInv
  <1>. SUFFICES ASSUME ThreadsInit PROVE EventInv
    BY Zenon
  <1>1. Idle \in WaiterType /\ \A v \in BOOLEAN : Woken(v, Idle)
    BY Zenon DEF Idle, WaiterType, Call, Woken
  <1>2. waiter \in [Waiter -> WaiterType] /\ \A w \in Waiter : Woken(FALSE, waiter[w])
    BY Zenon, <1>1 DEF ThreadsInit
  <1>3. var = FALSE /\ wakes = 0 /\ consumed = 0
    BY Zenon DEF ThreadsInit
  <1>4. wakes \in Nat /\ consumed \in Nat /\ consumed <= wakes
    BY <1>3
  <1> QED
    BY Zenon, <1>2, <1>3, <1>4 DEF EventInv

LEMMA BaseUnchanged == BaseInv /\ UNCHANGED baseVars => BaseInv'
  BY Zenon DEF BaseInv, baseVars, ThreadsUseLiveObjects

LEMMA EventUnchanged == EventInv /\ UNCHANGED eventVars => EventInv'
  <1> SUFFICES ASSUME EventInv, UNCHANGED eventVars PROVE EventInv'
    BY Zenon
  <1>1. var' = var /\ wakes' = wakes /\ consumed' = consumed /\ waiter' = waiter
    BY Zenon DEF eventVars
  <1>2. \A w \in Waiter : Woken(var', waiter'[w])
    BY Zenon, <1>1 DEF EventInv
  <1> QED
    BY Zenon, <1>1, <1>2 DEF EventInv

(* A step of thread t's object *)
LEMMA OneThread ==
    ASSUME BaseInv, NEW t \in ThreadObject,
           NEW o \in {"none", "alive", "gone"}, obj' = [obj EXCEPT ![t] = o],
           NEW e \in [var : BOOLEAN, locked : BOOLEAN],
           start_event' = [start_event EXCEPT ![t] = e],
           NEW p \in {"none", "wait", "asleep", "entry", "irq", "ended"},
           pc' = [pc EXCEPT ![t] = p],
           o = "gone" => p = "ended", p \in {"entry", "irq"} => e.var, o = "none" => p = "none"
    PROVE  BaseInv'
  BY DEF BaseInv, ThreadsUseLiveObjects

LEMMA Same ==
    ASSUME NEW S, NEW f, NEW T, f \in [S -> T], NEW x \in S
    PROVE  f = [f EXCEPT ![x] = f[x]] /\ f[x] \in T
  BY Zenon

LEMMA OwnerStep ==
    ASSUME BaseInv, NEW t \in ThreadObject,
           Base_thread(t) \/ start(t) \/ cancel(t) \/ join(t) \/ Joined(t)
    PROVE  BaseInv'
  <1>1. CASE Base_thread(t)
    <2>1. start_event = [start_event EXCEPT ![t] = start_event[t]] /\
              start_event[t] \in [var : BOOLEAN, locked : BOOLEAN]
      BY Zenon, Same DEF BaseInv
    <2> QED
      BY <1>1, <2>1, OneThread, Zenon DEF Base_thread
  <1>2. CASE start(t)
    <2>1. /\ obj = [obj EXCEPT ![t] = obj[t]] /\ obj[t] = "alive"
          /\ pc = [pc EXCEPT ![t] = pc[t]] /\ pc[t] \in {"none", "wait", "asleep", "entry", "irq", "ended"}
          /\ start_event[t] \in [var : BOOLEAN, locked : BOOLEAN]
      BY Zenon, <1>2, Same DEF BaseInv, start
    <2> DEFINE e == [start_event[t] EXCEPT !.var = TRUE]
               p == IF pc[t] = "asleep" THEN "wait" ELSE pc[t]
    <2>2. e \in [var : BOOLEAN, locked : BOOLEAN] /\ e.var = TRUE
      BY <2>1, Zenon
    <2>3. p \in {"none", "wait", "asleep", "entry", "irq", "ended"}
      BY <2>1, Zenon
    <2>4. pc' = [pc EXCEPT ![t] = p]
      BY Zenon, <1>2, <2>1 DEF start, Wakened
    <2>5. start_event' = [start_event EXCEPT ![t] = e] /\ obj' = obj
      BY <1>2, Zenon DEF start, BaseInv
    <2> HIDE DEF e, p
    <2> QED
      BY <2>1, <2>2, <2>3, <2>4, <2>5, OneThread, Zenon
  <1>3. CASE cancel(t)
    BY Zenon, <1>3, BaseUnchanged DEF cancel, baseVars, BaseInv, ThreadsUseLiveObjects
  <1>4. CASE join(t)
    BY Zenon, <1>4 DEF join, BaseInv, ThreadsUseLiveObjects
  <1>5. CASE Joined(t)
    <2>1. start_event = [start_event EXCEPT ![t] = start_event[t]] /\
              start_event[t] \in [var : BOOLEAN, locked : BOOLEAN]
      BY Zenon, Same DEF BaseInv
    <2>2. pc = [pc EXCEPT ![t] = pc[t]]
      BY Zenon, Same DEF BaseInv
    <2> QED
      BY <1>5, <2>1, <2>2, OneThread, Zenon DEF Joined
  <1> QED
    BY Zenon, <1>1, <1>2, <1>3, <1>4, <1>5

LEMMA ThreadKeeps ==
    ASSUME BaseInv, NEW t \in ThreadObject,
           __entry(t) \/ Spurious_start(t) \/ wait_for_msi_irq(t)
    PROVE  BaseInv'
  <1>1. /\ obj = [obj EXCEPT ![t] = obj[t]] /\ obj[t] \in {"none", "alive", "gone"}
        /\ start_event = [start_event EXCEPT ![t] = start_event[t]]
        /\ start_event[t] \in [var : BOOLEAN, locked : BOOLEAN]
    BY Zenon, Same DEF BaseInv
  <1>2. /\ obj[t] = "gone" => pc[t] = "ended"
        /\ obj[t] = "none" => pc[t] = "none"
        /\ pc[t] \in {"entry", "irq"} => start_event[t].var
    BY Zenon DEF BaseInv, ThreadsUseLiveObjects
  <1>3. CASE trampoline_wait(t)
    <2> DEFINE p == IF start_event[t].var THEN "entry" ELSE "asleep"
    <2>1. pc' = [pc EXCEPT ![t] = p] /\ pc[t] = "wait"
      BY <1>3, Zenon DEF trampoline_wait
    <2>2. p \in {"none", "wait", "asleep", "entry", "irq", "ended"}
             /\ (p \in {"entry", "irq"} => start_event[t].var)
      BY Zenon
    <2>3. obj' = obj /\ start_event' = start_event
      BY <1>3, Zenon DEF trampoline_wait
    <2> HIDE DEF p
    <2> QED
      BY <1>1, <1>2, <2>1, <2>2, <2>3, OneThread, Zenon
  <1>4. CASE entry(t)
    <2> DEFINE p == IF t \in Polling /\ ~exit[t] THEN "irq" ELSE "ended"
    <2>1. pc' = [pc EXCEPT ![t] = p] /\ pc[t] = "entry" /\ obj' = obj /\ start_event' = start_event
      BY <1>4, Zenon DEF entry
    <2>2. p \in {"none", "wait", "asleep", "entry", "irq", "ended"}
      BY Zenon
    <2> HIDE DEF p
    <2> QED
      BY <1>1, <1>2, <2>1, <2>2, OneThread, Zenon
  <1>6. CASE Spurious_start(t)
    BY <1>1, <1>2, <1>6, OneThread, Zenon DEF Spurious_start
  <1>7. CASE wait_for_msi_irq(t)
    BY <1>1, <1>2, <1>7, OneThread, Zenon DEF wait_for_msi_irq
  <1>5. CASE cancel_point(t)
    <2> DEFINE e == [start_event[t] EXCEPT !.locked = pc[t] = "asleep"]
    <2>1. e \in [var : BOOLEAN, locked : BOOLEAN]
      BY <1>1, Zenon
    <2>2. start_event' = [start_event EXCEPT ![t] = e]
      BY <1>5, Zenon DEF cancel_point, BaseInv
    <2>3. pc' = [pc EXCEPT ![t] = "ended"] /\ obj' = obj /\ pc[t] \in {"asleep", "entry", "irq"}
      BY <1>5, Zenon DEF cancel_point
    <2> HIDE DEF e
    <2> QED
      BY <1>1, <1>2, <2>1, <2>2, <2>3, OneThread, Zenon
  <1> QED
    BY Zenon, <1>3, <1>4, <1>5, <1>6, <1>7 DEF __entry

(* A step of waiter w, to state r, that leaves _var at v *)
LEMMA OneWaiter ==
    ASSUME EventInv, NEW w \in Waiter,
           NEW r \in WaiterType, waiter' = [waiter EXCEPT ![w] = r],
           NEW v \in BOOLEAN, var' = v, v => var, Woken(v, r),
           NEW n \in Nat, consumed' = n, n <= wakes, v => n < wakes, wakes' = wakes
    PROVE  EventInv'
  <1>1. waiter' \in [Waiter -> WaiterType]
    BY Zenon DEF EventInv
  <1>2. ASSUME NEW u \in Waiter PROVE Woken(var', waiter'[u])
    <2>1. CASE u = w
      BY <2>1, Zenon DEF EventInv
    <2>2. CASE u # w
      <3>1. waiter'[u] = waiter[u] /\ Woken(var, waiter[u])
        BY <2>2, Zenon DEF EventInv
      <3> QED
        BY Zenon, <3>1 DEF Woken
    <2> QED
      BY <2>1, <2>2, Zenon
  <1>3. var' \in BOOLEAN /\ wakes' \in Nat /\ consumed' \in Nat
    BY Zenon DEF EventInv
  <1> QED
    BY Zenon, <1>1, <1>2, <1>3 DEF EventInv

LEMMA EventStep ==
    ASSUME EventInv, NEW w \in Waiter, Event(w)
    PROVE  EventInv'
  <1>0. /\ waiter[w] \in WaiterType /\ var \in BOOLEAN /\ consumed \in Nat /\ wakes \in Nat
        /\ consumed <= wakes /\ (var => consumed < wakes) /\ Woken(var, waiter[w])
    BY Zenon DEF EventInv
  <1>1. ASSUME NEW c \in {"wait", "wait_and_reset", "reset_and_wait"}, Waits(w, c)
        PROVE  EventInv'
    <2> DEFINE r == [call |-> c, at |-> "wait", woken |-> FALSE]
               v == IF c = "reset_and_wait" THEN FALSE ELSE var
    <2>1. r \in WaiterType
      BY Zenon DEF WaiterType, Call
    <2>2. v \in BOOLEAN /\ (v => var) /\ Woken(v, r)
      BY <1>0, Zenon DEF Woken
    <2>3. waiter' = [waiter EXCEPT ![w] = r] /\ var' = v /\ wakes' = wakes /\ consumed' = consumed
      BY <1>1, Zenon DEF Waits
    <2> HIDE DEF r, v
    <2> QED
      BY <1>0, <2>1, <2>2, <2>3, OneWaiter, Zenon
  <1>2. CASE Wait_loop(w)
    <2> DEFINE r == [waiter[w] EXCEPT !.at = IF var THEN "done" ELSE "asleep"]
               out == var /\ waiter[w].call = "wait_and_reset"
               v == IF out THEN FALSE ELSE var
               n == IF out THEN consumed + 1 ELSE consumed
    <2>1. r \in WaiterType /\ r.call = waiter[w].call /\ r.woken = waiter[w].woken
              /\ r.at = IF var THEN "done" ELSE "asleep"
      BY <1>0, Zenon DEF WaiterType
    <2>2. waiter[w].at = "wait"
      BY <1>2, Zenon DEF Wait_loop
    <2>3. Woken(v, r)
      BY <1>0, <2>1, <2>2 DEF Woken
    <2>4. v \in BOOLEAN /\ (v => var)
      BY Zenon, <1>0
    <2>6. n \in Nat /\ n <= wakes /\ (v => n < wakes)
      <3>1. CASE out
        BY <1>0, <3>1
      <3>2. CASE ~out
        BY <1>0, <3>2, Zenon
      <3> QED
        BY Zenon, <3>1, <3>2
    <2>5. waiter' = [waiter EXCEPT ![w] = r] /\ var' = v /\ wakes' = wakes /\ consumed' = n
      BY <1>2, Zenon DEF Wait_loop, EventInv
    <2> HIDE DEF r, v, n
    <2> QED
      BY <1>0, <2>1, <2>3, <2>4, <2>5, <2>6, OneWaiter, Zenon
  <1>3. CASE Spurious(w)
    <2> DEFINE r == [waiter[w] EXCEPT !.at = "wait"]
    <2>1. r \in WaiterType /\ r.call = waiter[w].call /\ r.woken = waiter[w].woken
              /\ r.at = "wait"
      BY <1>0, Zenon DEF WaiterType
    <2>2. waiter[w].at = "asleep"
      BY <1>3, Zenon DEF Spurious
    <2>3. Woken(var, r)
      BY <1>0, <2>1, <2>2, Zenon DEF Woken
    <2>4. waiter' = [waiter EXCEPT ![w] = r] /\ UNCHANGED <<var, wakes, consumed>>
      BY <1>3, Zenon DEF Spurious, EventInv
    <2> HIDE DEF r
    <2> QED
      BY <1>0, <2>1, <2>3, <2>4, OneWaiter, Zenon
  <1>4. CASE Returns(w)
    <2>1. Idle \in WaiterType /\ Woken(var, Idle)
      BY Zenon DEF Idle, WaiterType, Call, Woken
    <2>2. waiter' = [waiter EXCEPT ![w] = Idle] /\ UNCHANGED <<var, wakes, consumed>>
      BY Zenon, <1>4 DEF Returns
    <2> QED
      BY <1>0, <2>1, <2>2, OneWaiter, Zenon
  <1> QED
    BY Zenon, <1>1, <1>2, <1>3, <1>4 DEF Event, wait, wait_and_reset, reset_and_wait

LEMMA WakeStep ==
    ASSUME EventInv, NEW S, Wake(S)
    PROVE  EventInv'
  <1>0. wakes \in Nat /\ consumed \in Nat /\ consumed <= wakes
    BY Zenon DEF EventInv
  <1>6. var' = TRUE /\ wakes' = wakes + 1 /\ consumed' = consumed
    BY Zenon DEF Wake
  <1>1. wakes' \in Nat /\ consumed' \in Nat /\ consumed' < wakes'
    BY <1>0, <1>6
  <1>2. ASSUME NEW w \in Waiter
        PROVE  waiter'[w] \in WaiterType /\ Woken(TRUE, waiter'[w])
    <2>1. waiter[w] \in WaiterType
      BY Zenon DEF EventInv
    <2>2. CASE waiter[w].at = "idle"
      <3>1. waiter'[w] = waiter[w]
        BY <2>2, Zenon DEF Wake
      <3> QED
        BY Zenon, <2>1, <2>2, <3>1 DEF Woken
    <2>3. CASE waiter[w].at # "idle"
      <3>1. waiter'[w] = [waiter[w] EXCEPT !.woken = TRUE, !.at = IF w \in S THEN "wait" ELSE @]
        BY <2>3, Zenon DEF Wake
      <3> QED
        BY <2>1, <3>1, Zenon DEF WaiterType, Woken
    <2> QED
      BY Zenon, <2>2, <2>3
  <1>3. waiter' \in [Waiter -> WaiterType]
    BY <1>2, Zenon DEF Wake
  <1>4. \A w \in Waiter : Woken(var', waiter'[w])
    BY Zenon, <1>6, <1>2
  <1>5. consumed' <= wakes'
    BY <1>1
  <1> QED
    BY Zenon, <1>1, <1>3, <1>4, <1>5, <1>6 DEF EventInv

LEMMA ThreadsStep == ASSUME ThreadsInv, [ThreadsNext]_threadVars PROVE ThreadsInv'
  <1>0. BaseInv /\ EventInv
    BY Zenon, Halves
  <1>1. CASE Owner
    <2>1. PICK t \in ThreadObject :
              Base_thread(t) \/ start(t) \/ cancel(t) \/ join(t) \/ Joined(t)
      BY Zenon, <1>1 DEF Owner
    <2>2. UNCHANGED eventVars
      BY Zenon, <2>1 DEF Base_thread, start, cancel, join, Joined
    <2> QED
      BY Zenon, <1>0, <2>1, <2>2, OwnerStep, EventUnchanged, Halves
  <1>2. CASE \E t \in ThreadObject : __entry(t) \/ Spurious_start(t) \/ wait_for_msi_irq(t)
    <2>1. PICK t \in ThreadObject : __entry(t) \/ Spurious_start(t) \/ wait_for_msi_irq(t)
      BY Zenon, <1>2
    <2>2. UNCHANGED eventVars
      BY Zenon, <2>1 DEF __entry, trampoline_wait, entry, cancel_point, Spurious_start,
         wait_for_msi_irq
    <2> QED
      BY Zenon, <1>0, <2>1, <2>2, ThreadKeeps, EventUnchanged, Halves
  <1>3. CASE \E w \in Waiter : Event(w)
    <2>1. PICK w \in Waiter : Event(w)
      BY Zenon, <1>3
    <2>2. UNCHANGED baseVars
      BY Zenon, <2>1 DEF Event, wait, wait_and_reset, reset_and_wait, Waits, Wait_loop, Spurious, Returns
    <2> QED
      BY Zenon, <1>0, <2>1, <2>2, EventStep, BaseUnchanged, Halves
  <1>4. CASE wake_one \/ wake_all
    <2>1. PICK S : Wake(S)
      BY Zenon, <1>4 DEF wake_one, wake_all
    <2>2. UNCHANGED baseVars
      BY Zenon, <2>1 DEF Wake
    <2> QED
      BY Zenon, <1>0, <2>1, <2>2, WakeStep, BaseUnchanged, Halves
  <1>5. CASE reset
    <2>1. UNCHANGED baseVars /\ UNCHANGED <<waiter, wakes, consumed>> /\ var' = FALSE
      BY Zenon, <1>5 DEF reset
    <2>2. EventInv'
      BY Zenon, <1>0, <2>1 DEF EventInv, Woken
    <2> QED
      BY Zenon, <1>0, <2>1, <2>2, BaseUnchanged, Halves
  <1>6. CASE UNCHANGED threadVars
    <2>1. UNCHANGED baseVars /\ UNCHANGED eventVars
      BY Zenon, <1>6 DEF threadVars
    <2> QED
      BY Zenon, <1>0, <2>1, BaseUnchanged, EventUnchanged, Halves
  <1> QED
    BY Zenon, <1>1, <1>2, <1>3, <1>4, <1>5, <1>6 DEF ThreadsNext

LEMMA ThreadsStart == ThreadsInit => ThreadsInv
  BY Zenon, BaseStarts, EventStarts, Halves
=============================================================================
