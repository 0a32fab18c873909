------------------------------- MODULE Spans -------------------------------
(***************************************************************************)
(* The bitmap allocators of libexo.                                        *)
(*                                                                         *)
(* Base_object_allocator (private/__base_slab_allocator.h) works over its  *)
(* spans, Slab_metadata_allocator (private/__span.h).  Threads             *)
(* allocate and free without a lock: a span is initialised by the thread   *)
(* that wins a compare-and-swap while the others spin, and a block is      *)
(* taken and given back by a compare-and-swap on its word of the bitmap.   *)
(*                                                                         *)
(* Addresses and sizes are counted in machine words (BASE_ALIGNMENT = 8    *)
(* bytes, and __check_bitmap_word asserts that blocks keep it), so a       *)
(* bitmap word and the span header are one word each.  BITS is the number  *)
(* of bits of a word, 64 in the code.                                      *)
(*                                                                         *)
(* Bitmap_tracker_threadsafe (exo/bitmap.h): threads take                  *)
(* the next free slot and release slots by compare-and-swap on the words   *)
(* of a bitmap (of 32 bits in the code).  The bits of the last word beyond *)
(* _max_slot can be set too; the call that sets one reports that nothing   *)
(* is left.                                                                *)
(***************************************************************************)
EXTENDS Integers, FiniteSets, FiniteSetsExt, Functions

CONSTANTS Threads,
          MaxSpanCount,      \* Max_span_count
          SpanSize,          \* SPAN_SIZE
          BITS,              \* BITS_PER_MWORD, BITS_PER_WORD
          ElemSizes,         \* the block sizes explored
          MaxHeld,           \* bound: blocks a thread keeps at a time
          MaxRetries,        \* lost compare-and-swaps span_free puts up with: 256
          MaxSlot            \* _max_slot of the tracker

VARIABLES elem,              \* _block_size / _elem_size_bytes
          stage,             \* _initialized of every span: 0, 1 or 2
          bitmap,            \* _bitmap: the set bits of every word
          th,                \* the call each thread is in
          held,              \* the blocks each thread owns
          map,               \* _bitmap of the tracker: the set bits of every word
          call,              \* the call of the tracker each thread is in
          slots              \* the slots each thread has been given

spanVars == <<elem, stage, bitmap, th, held>>
trackerVars == <<map, call, slots>>

SpanIds == 0..MaxSpanCount - 1

\* The loop of init: the size of the bitmap when n blocks have been counted.
BitmapWords(n) == 1 + (n + BITS - 1) \div BITS

Overshoots(n, e) == \/ n * e + BitmapWords(n) >= SpanSize - 1
                    \/ n * e + BitmapWords(n + 1) > SpanSize

\* A slip in the loop: the last block counted is kept although it did not fit.
Layout_keep(e) ==
  LET n == CHOOSE m \in 0..SpanSize : Overshoots(m, e) /\ \A k \in 0..m - 1 : ~Overshoots(k, e)
  IN [blocks |-> n, words |-> BitmapWords(n), first |-> 1 + BitmapWords(n)]

\* The layout init solves: the number of blocks, the words of the bitmap and the
\* offset of the first block behind header and bitmap.
Layout(e) ==
  LET n == CHOOSE m \in 0..SpanSize : Overshoots(m, e) /\ \A k \in 0..m - 1 : ~Overshoots(k, e)
      words == IF n * e + BitmapWords(n) >= SpanSize - 1 THEN BitmapWords(n)
                                                         ELSE BitmapWords(n + 1)
  IN [blocks |-> n - 1, words |-> words, first |-> 1 + words]

\* Every span is a malloc of its own of SpanSize + 1 words; here they are neighbours.
MemoryOf(i) == i * (SpanSize + 1)
Address(i, b) == MemoryOf(i) + Layout(elem).first + b * elem
LastAddress(i) == Address(i, Layout(elem).blocks)

Idle == [pc |-> "idle", i |-> 0, w |-> 0, seen |-> {}, ptr |-> 0, retries |-> 0]

SpanInit ==
  /\ elem \in ElemSizes
  /\ stage = [i \in SpanIds |-> IF i = 0 THEN 2 ELSE 0]
  /\ bitmap = [i \in SpanIds |-> [w \in 0..SpanSize |-> {}]]
  /\ th = [t \in Threads |-> Idle]
  /\ held = [t \in Threads |-> {}]

Goto(t, r) == th' = [th EXCEPT ![t] = r]

\* The next word of the span, or the next span, or the panic "no more spans".
Advance(t) ==
  LET c == th[t]
  IN Goto(t, CASE c.w + 1 < Layout(elem).words -> [c EXCEPT !.pc = "word", !.w = @ + 1]
               [] c.w + 1 >= Layout(elem).words /\ c.i + 1 < MaxSpanCount ->
                    [c EXCEPT !.pc = "span", !.w = 0, !.i = @ + 1]
               [] OTHER -> [c EXCEPT !.pc = "exhausted"])

alloc(t) ==
  /\ th[t].pc = "idle"
  /\ Cardinality(held[t]) < MaxHeld
  /\ Goto(t, [Idle EXCEPT !.pc = "span"])
  /\ UNCHANGED <<elem, stage, bitmap, held>>

\* A slip in span_next_free: the spin ends as soon as another thread started init.
init_begin_nowait(t) ==
  LET i == th[t].i
  IN /\ th[t].pc = "span"
     /\ \/ /\ stage[i] = 0
           /\ stage' = [stage EXCEPT ![i] = 1]
           /\ Goto(t, [th[t] EXCEPT !.pc = "init"])
        \/ /\ stage[i] > 0
           /\ Goto(t, [th[t] EXCEPT !.pc = "word"])
           /\ UNCHANGED stage
     /\ UNCHANGED <<elem, bitmap, held>>

\* init: one thread wins the compare-and-swap; the others fall through to the spin.
init_begin(t) ==
  LET i == th[t].i
  IN /\ th[t].pc = "span"
     /\ \/ /\ stage[i] = 0
           /\ stage' = [stage EXCEPT ![i] = 1]
           /\ Goto(t, [th[t] EXCEPT !.pc = "init"])
        \/ /\ stage[i] = 2
           /\ Goto(t, [th[t] EXCEPT !.pc = "word"])
           /\ UNCHANGED stage
     /\ UNCHANGED <<elem, bitmap, held>>

init_end(t) ==
  LET i == th[t].i
  IN /\ th[t].pc = "init"
     /\ bitmap' = [bitmap EXCEPT ![i] = [w \in 0..SpanSize |-> {}]]
     /\ stage' = [stage EXCEPT ![i] = 2]
     /\ Goto(t, [th[t] EXCEPT !.pc = "word"])
     /\ UNCHANGED <<elem, held>>

FreeBits(word) == (0..BITS - 1) \ word

\* __check_bitmap_word up to the compare-and-swap.
check_bitmap_word(t) ==
  LET c == th[t]
      word == bitmap[c.i][c.w]
  IN /\ c.pc = "word"
     /\ IF FreeBits(word) # {} /\ c.w * BITS + Min(FreeBits(word)) < Layout(elem).blocks
        THEN Goto(t, [c EXCEPT !.pc = "take", !.seen = word])
        ELSE Advance(t)
     /\ UNCHANGED <<elem, stage, bitmap, held>>

\* The compare-and-swap; a lost race counts as "no space in this word".
take_block(t) ==
  LET c == th[t]
      bit == Min(FreeBits(c.seen))
  IN /\ c.pc = "take"
     /\ IF bitmap[c.i][c.w] = c.seen
        THEN /\ bitmap' = [bitmap EXCEPT ![c.i][c.w] = @ \cup {bit}]
             /\ held' = [held EXCEPT ![t] = @ \cup {Address(c.i, c.w * BITS + bit)}]
             /\ Goto(t, Idle)
        ELSE /\ Advance(t)
             /\ UNCHANGED <<bitmap, held>>
     /\ UNCHANGED <<elem, stage>>

\* free and _free: the owner gives up the block, the spans are tried in order.
free(t) ==
  \E p \in held[t] :
    /\ th[t].pc = "idle"
    /\ held' = [held EXCEPT ![t] = @ \ {p}]
    /\ Goto(t, [Idle EXCEPT !.pc = "free", !.ptr = p])
    /\ UNCHANGED <<elem, stage, bitmap>>

\* span_free up to the compare-and-swap, its panics and its assertions included.
span_free(t) ==
  LET c == th[t]
      slot == (c.ptr - Address(c.i, 0)) \div elem
      word == bitmap[c.i][slot \div BITS]
  IN /\ c.pc = "free"
     /\ Goto(t, CASE stage[c.i] < 2 -> [c EXCEPT !.pc = "panic"]
                  [] stage[c.i] = 2 /\ c.ptr \notin Address(c.i, 0)..LastAddress(c.i) ->
                       IF c.i + 1 < MaxSpanCount THEN [c EXCEPT !.i = @ + 1]
                                                 ELSE [c EXCEPT !.pc = "panic"]
                  [] OTHER ->
                       IF /\ slot < Layout(elem).blocks /\ slot % BITS \in word
                          /\ c.retries <= MaxRetries
                       THEN [c EXCEPT !.pc = "give", !.w = slot, !.seen = word]
                       ELSE [c EXCEPT !.pc = "panic"])
     /\ UNCHANGED <<elem, stage, bitmap, held>>

\* A slip in span_free: the word that was read is stored without comparing it.
give_block_store(t) ==
  LET c == th[t]
  IN /\ c.pc = "give"
     /\ bitmap' = [bitmap EXCEPT ![c.i][c.w \div BITS] = c.seen \ {c.w % BITS}]
     /\ Goto(t, Idle)
     /\ UNCHANGED <<elem, stage, held>>

\* The compare-and-swap of span_free; a lost race is counted and retries.
give_block(t) ==
  LET c == th[t]
  IN /\ c.pc = "give"
     /\ IF bitmap[c.i][c.w \div BITS] = c.seen
        THEN /\ bitmap' = [bitmap EXCEPT ![c.i][c.w \div BITS] = @ \ {c.w % BITS}]
             /\ Goto(t, Idle)
        ELSE /\ Goto(t, [c EXCEPT !.pc = "free", !.retries = @ + 1])
             /\ UNCHANGED bitmap
     /\ UNCHANGED <<elem, stage, held>>

span_next_free(t) == init_begin(t) \/ init_end(t) \/ check_bitmap_word(t) \/ take_block(t)

\* A panic ends the process.
Alive == \A t \in Threads : th[t].pc \notin {"exhausted", "panic"}

SpanNext == Alive /\ \E t \in Threads :
              alloc(t) \/ span_next_free(t) \/ free(t) \/ span_free(t) \/ give_block(t)

Taken == UNION {{Address(i, w * BITS + b) : b \in bitmap[i][w]} :
                  i \in SpanIds, w \in 0..SpanSize}

\* A set bit of a bitmap is a block that exactly one thread owns or is giving back, and a clear
\* bit is nobody's, whatever the races of init and of the compare-and-swaps (the class warns that
\* it "is not ABA safe"); and a block lies inside the memory init obtained for its span.
BlocksHaveOneOwner ==
  LET givingBack(t) == IF th[t].pc \in {"free", "give", "panic"} THEN {th[t].ptr} ELSE {}
      mine(t) == held[t] \cup givingBack(t)
  IN /\ UNION {mine(t) : t \in Threads} = Taken
     /\ SumFunction([t \in Threads |-> Cardinality(mine(t))]) = Cardinality(Taken)
     /\ \A p \in Taken : \E i \in SpanIds :
          MemoryOf(i) < p /\ p + elem <= MemoryOf(i) + SpanSize + 1

\* Freeing a block that was allocated panics only when the call has lost its compare-and-swap more
\* than MaxRetries times ("free retry livelock?"): not on a span that another thread is still
\* initialising, not on the bound that includes the address behind the last block, not on a bit
\* another thread changed.
FreeFindsItsBlock == \A t \in Threads : th[t].pc = "panic" => th[t].retries > MaxRetries

-----------------------------------------------------------------------------
\* Bitmap_tracker_threadsafe.
Words == (MaxSlot + BITS - 1) \div BITS          \* _words_for_bitmap
NoCall == [pc |-> "idle", w |-> 0, checked |-> 0, seen |-> {}, slot |-> 0]

TrackerInit ==
  /\ map = [w \in 0..Words - 1 |-> {}]
  /\ call = [t \in Threads |-> NoCall]
  /\ slots = [t \in Threads |-> {}]

Step(t, c) == call' = [call EXCEPT ![t] = c]

\* next_free: a full word is skipped; when all were full the call gives up.
next_free_scan(t) ==
  LET c == call[t]
      skip == [c EXCEPT !.pc = "scan", !.w = (@ + 1) % Words, !.checked = @ + 1]
  IN /\ c.pc \in {"idle", "scan"}
     /\ Step(t, CASE FreeBits(map[c.w]) # {} -> [c EXCEPT !.pc = "swap", !.seen = map[c.w]]
                  [] FreeBits(map[c.w]) = {} /\ skip.checked < Words -> skip
                  [] OTHER -> NoCall)
     /\ UNCHANGED <<map, slots>>

\* A slip in next_free: the word is stored without comparing it.
next_free_swap_store(t) ==
  LET c == call[t]
      bit == Min(FreeBits(c.seen))
      idx == bit + c.w * BITS
  IN /\ c.pc = "swap"
     /\ map' = [map EXCEPT ![c.w] = c.seen \cup {bit}]
     /\ slots' = [slots EXCEPT ![t] = IF idx < MaxSlot THEN @ \cup {idx} ELSE @]
     /\ Step(t, NoCall)

next_free_swap(t) ==
  LET c == call[t]
      bit == Min(FreeBits(c.seen))
      idx == bit + c.w * BITS
  IN /\ c.pc = "swap"
     /\ IF map[c.w] # c.seen
        THEN Step(t, [c EXCEPT !.pc = "scan"]) /\ UNCHANGED <<map, slots>>
        ELSE /\ map' = [map EXCEPT ![c.w] = @ \cup {bit}]
             /\ slots' = [slots EXCEPT ![t] = IF idx < MaxSlot THEN @ \cup {idx} ELSE @]
             /\ Step(t, NoCall)

next_free(t) == next_free_scan(t) \/ next_free_swap(t)

mark_free_read(t) ==
  \/ \E s \in slots[t] :
       /\ call[t].pc = "idle"
       /\ slots' = [slots EXCEPT ![t] = @ \ {s}]
       /\ Step(t, [NoCall EXCEPT !.pc = "clear", !.slot = s, !.seen = map[s \div BITS]])
       /\ UNCHANGED map
  \/ /\ call[t].pc = "again"
     /\ Step(t, [call[t] EXCEPT !.pc = "clear", !.seen = map[call[t].slot \div BITS]])
     /\ UNCHANGED <<map, slots>>

mark_free_swap(t) ==
  LET c == call[t]
      w == c.slot \div BITS
  IN /\ c.pc = "clear"
     /\ IF map[w] # c.seen
        THEN Step(t, [c EXCEPT !.pc = "again"]) /\ UNCHANGED map
        ELSE map' = [map EXCEPT ![w] = @ \ {c.slot % BITS}] /\ Step(t, NoCall)
     /\ UNCHANGED slots

mark_free(t) == mark_free_read(t) \/ mark_free_swap(t)

TrackerNext == \E t \in Threads : next_free(t) \/ mark_free(t)

\* The bits of the real slots are set exactly for the slots that one thread holds or is
\* releasing: no slot is handed out twice and none is lost, also when a failing next_free has
\* set a bit beyond the last slot.
SlotsHaveOneHolder ==
  LET releasing(t) == IF call[t].pc \in {"clear", "again"} THEN {call[t].slot} ELSE {}
      mine(t) == slots[t] \cup releasing(t)
      set == {s \in 0..MaxSlot - 1 : s % BITS \in map[s \div BITS]}
  IN /\ UNION {mine(t) : t \in Threads} = set
     /\ SumFunction([t \in Threads |-> Cardinality(mine(t))]) = Cardinality(set)
=============================================================================
