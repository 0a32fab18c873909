-------------------------------- MODULE X540 --------------------------------
(***************************************************************************)
(* One receive queue of the x540 driver: the interrupt handler that scans  *)
(* the descriptor ring in look-ahead groups, hands packets to the stack    *)
(* and gives the descriptors back, beside the card that fills the ring and *)
(* raises the queue's vector.  Packets are numbered in order of arrival,   *)
(* modulo Wrap.  Packet buffers are interchangeable, so an allocation may  *)
(* take the least one.                                                     *)
(***************************************************************************)
EXTENDS Integers, Sequences, FiniteSets

CONSTANTS
    NUM_RX,      \* descriptors of the queue (512)
    LOOK_AHEAD,  \* descriptors scanned at a time (8)
    RX_BURST,    \* descriptors per round, IXGBE_RX_MAX_BURST (64)
    Buffers      \* packet buffers of the queue's core, numbers

ASSUME RxAssumption ==
    /\ LOOK_AHEAD \in Nat \ {0} /\ RX_BURST \in Nat \ {0} /\ NUM_RX \in Nat
    /\ RX_BURST % LOOK_AHEAD = 0 /\ LOOK_AHEAD <= RX_BURST /\ RX_BURST < NUM_RX
    /\ 0 .. NUM_RX - 1 \subseteq Buffers /\ Buffers \subseteq Nat

VARIABLES
    rx_desc,     \* [dd, pkt] of each descriptor
    rx_buf,      \* the buffer of each descriptor
    rx_tail,     \* next descriptor the handler looks at
    rdh, rdt,    \* head and tail registers
    rx,          \* the handler: pc, group base, index, statuses read, counts
    eims, eicr, irq,    \* vector enabled, cause latched, interrupt delivered
    received, handled,  \* modulo Wrap
    pool,        \* free buffers of the packet allocator
    kept         \* buffers the stack holds

rxRegs == <<rdh, rdt, eims, eicr, irq, received>>
rxVars == <<rx_desc, rx_buf, rx_tail, rx, rxRegs, handled, pool, kept>>

Wrap == 2 * NUM_RX
At(i) == i % NUM_RX
Waiting == (received - handled) % Wrap
Least(b, S) == b \in S /\ \A c \in S : b <= c
RxIdle == [pc |-> "wait", base |-> 0, i |-> 0, j |-> 0, nb_dd |-> 0, nb_rx |-> 0]

\* configure_rx and activate: every descriptor has a buffer, all but one are the card's
RxInit ==
    /\ rx_desc = [i \in 0 .. NUM_RX - 1 |-> [dd |-> FALSE, pkt |-> 0]]
    /\ rx_buf = [i \in 0 .. NUM_RX - 1 |-> i]
    /\ rx_tail = 0 /\ rdh = 0 /\ rdt = NUM_RX - 1
    /\ rx = RxIdle /\ eims = TRUE /\ eicr = FALSE /\ irq = FALSE
    /\ received = 0 /\ handled = 0
    /\ pool = Buffers \ (0 .. NUM_RX - 1) /\ kept = {}

-----------------------------------------------------------------------------
Rx_enter ==
    /\ rx.pc = "wait" /\ irq
    /\ irq' = FALSE /\ rx' = [rx EXCEPT !.pc = "check"]
    /\ UNCHANGED <<rx_desc, rx_buf, rx_tail, rdh, rdt, eims, eicr, received, handled, pool, kept>>

\* while (status & DD): a new round, or the end
Rx_check ==
    /\ rx.pc = "check"
    /\ rx' = IF rx_desc[rx_tail].dd
             THEN [RxIdle EXCEPT !.pc = "read", !.base = rx_tail, !.j = LOOK_AHEAD - 1]
             ELSE [RxIdle EXCEPT !.pc = "unmask"]
    /\ UNCHANGED <<rx_desc, rx_buf, rx_tail, rxRegs, handled, pool, kept>>

Rx_read_last ==
    /\ rx.pc = "read"
    /\ LET nb_dd == IF rx_desc[At(rx.base + rx.j)].dd THEN rx.nb_dd + 1 ELSE rx.nb_dd IN
       rx' = IF rx.j > 0 THEN [rx EXCEPT !.nb_dd = nb_dd, !.j = @ - 1]
             ELSE [rx EXCEPT !.pc = "take", !.nb_dd = nb_dd, !.j = 0, !.nb_rx = nb_dd]
    /\ UNCHANGED <<rx_desc, rx_buf, rx_tail, rxRegs, handled, pool, kept>>

\* statuses are read backwards, one descriptor at a time; nb_dd is their sum so far
Rx_read ==
    /\ rx.pc = "read"
    /\ LET nb_dd == IF rx_desc[At(rx.base + rx.j)].dd THEN rx.nb_dd + 1 ELSE rx.nb_dd IN
       rx' = IF rx.j > 0 THEN [rx EXCEPT !.nb_dd = nb_dd, !.j = @ - 1]
             ELSE [rx EXCEPT !.pc = "take", !.nb_dd = nb_dd, !.j = 0, !.nb_rx = @ + nb_dd]
    /\ UNCHANGED <<rx_desc, rx_buf, rx_tail, rxRegs, handled, pool, kept>>

\* reset_rx_desc: a new buffer if the stack keeps the packet; writing the buffer's
\* address, which is aligned, clears the status that lies under it
reset_rx_desc(i, new_pkt) ==
    /\ rx_desc' = [rx_desc EXCEPT ![i] = [dd |-> FALSE, pkt |-> 0]]
    /\ IF new_pkt
       THEN \E b \in pool : /\ Least(b, pool)
                            /\ rx_buf' = [rx_buf EXCEPT ![i] = b]
                            /\ pool' = pool \ {b} /\ kept' = kept \cup {rx_buf[i]}
       ELSE UNCHANGED <<rx_buf, pool, kept>>

\* receive_packet answers KEEP or REUSE; the stack keeps a packet only while the
\* allocator has a buffer left for the ring (it would panic)
Rx_packet ==
    /\ rx.pc = "take" /\ rx.j < rx.nb_dd
    /\ \E new_pkt \in BOOLEAN : reset_rx_desc(At(rx.base + rx.j), new_pkt)
    /\ handled' = (handled + 1) % Wrap
    /\ rx' = [rx EXCEPT !.j = @ + 1]
    /\ UNCHANGED <<rx_tail, rxRegs>>

\* the next group after a full one, up to the burst
Rx_group ==
    /\ rx.pc = "take" /\ rx.j = rx.nb_dd
    /\ rx' = IF rx.j # LOOK_AHEAD \/ rx.i + LOOK_AHEAD >= RX_BURST
             THEN [rx EXCEPT !.pc = "tail"]
             ELSE [rx EXCEPT !.pc = "read", !.base = At(@ + LOOK_AHEAD), !.i = @ + LOOK_AHEAD,
                             !.j = LOOK_AHEAD - 1, !.nb_dd = 0]
    /\ UNCHANGED <<rx_desc, rx_buf, rx_tail, rxRegs, handled, pool, kept>>

Rx_tail ==
    /\ rx.pc = "tail"
    /\ rdt' = At(rx_tail + rx.nb_rx - 1)
    /\ rx_tail' = At(rx_tail + rx.nb_rx)
    /\ rx' = [rx EXCEPT !.pc = "check"]
    /\ UNCHANGED <<rx_desc, rx_buf, rdh, eims, eicr, irq, received, handled, pool, kept>>

\* EIMS written: the vector may fire again
Rx_unmask ==
    /\ rx.pc = "unmask"
    /\ eims' = TRUE /\ rx' = RxIdle
    /\ UNCHANGED <<rx_desc, rx_buf, rx_tail, rdh, rdt, eicr, irq, received, handled, pool, kept>>

-----------------------------------------------------------------------------
\* The card fills the head's descriptor, and delivers the vector, which clears the
\* cause and masks the vector (EIAC and EIAM as set by configure_msix, up_complete).
Nic_receive ==
    /\ rdh # rdt
    /\ received' = (received + 1) % Wrap
    /\ rx_desc' = [rx_desc EXCEPT ![rdh] = [dd |-> TRUE, pkt |-> received]]
    /\ rdh' = At(rdh + 1) /\ eicr' = TRUE
    /\ UNCHANGED <<rx_buf, rx_tail, rx, rdt, eims, irq, handled, pool, kept>>

Nic_interrupt ==
    /\ eicr /\ eims
    /\ irq' = TRUE /\ eicr' = FALSE /\ eims' = FALSE
    /\ UNCHANGED <<rx_desc, rx_buf, rx_tail, rx, rdh, rdt, received, handled, pool, kept>>

\* The stack allocates a packet to send.
Stack_alloc ==
    /\ \E b \in pool : Least(b, pool) /\ pool' = pool \ {b} /\ kept' = kept \cup {b}
    /\ UNCHANGED <<rx_desc, rx_buf, rx_tail, rx, rxRegs, handled>>

RxHandler == Rx_enter \/ Rx_check \/ Rx_read \/ Rx_packet \/ Rx_group \/ Rx_tail \/ Rx_unmask
RxCard == Nic_receive \/ Nic_interrupt
RxNext == RxHandler \/ RxCard

-----------------------------------------------------------------------------
\* The descriptors with DD set are those of the packets received and not handled,
\* in order from the one handled next: whatever the look-ahead saw while the card
\* kept writing, no packet is skipped, handled twice or overwritten; at the start
\* of a round rx_tail is that descriptor (interrupt_handler).
RxInOrder ==
    /\ Waiting < NUM_RX
    /\ \A i \in 0 .. NUM_RX - 1 :
        LET d == rx_desc[At(handled + i)] IN
        IF i < Waiting THEN d.dd /\ d.pkt = (handled + i) % Wrap ELSE ~d.dd
    /\ rx.pc \in {"wait", "check", "unmask"} => rx_tail = At(handled)
    /\ rx.pc = "take" => At(rx.base + rx.j) = At(handled)

\* A buffer is in one descriptor, or with the stack, or free (reset_rx_desc).
RxBuffersApart ==
    /\ \A i, j \in DOMAIN rx_buf : rx_buf[i] = rx_buf[j] => i = j
    /\ {rx_buf[i] : i \in DOMAIN rx_buf} \cap (pool \cup kept) = {} /\ pool \cap kept = {}

\* What the handler owes: an interrupt masked while it ran, or a packet that arrived after
\* its last look, is not lost.  (A packet comes to descriptor 0 in every lap.)
RxOwes == rx_desc[0].dd

-----------------------------------------------------------------------------
(***************************************************************************)
(* The two transmit paths of the x540 driver on a queue of its own each:   *)
(* multi_send with xmit_cleanup (a context descriptor and up to three      *)
(* segments a packet, completion reported on threshold packets), and the   *)
(* simple send with tx_free_bufs (a descriptor a packet, completion        *)
(* reported every tx_rs_thresh descriptors).  The stack hands over buffers *)
(* it kept from the receive queue with FREE_OK, or buffers it keeps        *)
(* (NoBuf here: the driver never frees them).  Descriptors become the       *)
(* card's only when TDT is written, so filling them is one step.           *)
(***************************************************************************)
CONSTANTS
    NUM_TX,          \* descriptors of a transmit queue, NUM_TX_DESCRIPTORS_PER_QUEUE
    TX_FREE_THRESH, TX_RS_THRESH,   \* 64, 64
    TX_BURST,        \* packets per call
    Segments,        \* values of nb_segment
    NoBuf

ASSUME TxAssumption ==
    /\ NUM_TX \in Nat \ {0} /\ TX_RS_THRESH \in Nat \ {0} /\ TX_BURST \in Nat
    /\ TX_BURST <= TX_RS_THRESH /\ TX_RS_THRESH <= NUM_TX /\ NUM_TX % TX_RS_THRESH = 0
    /\ Segments \subseteq Nat /\ (\A n \in Segments : n + 1 <= TX_RS_THRESH) /\ NoBuf \notin Buffers

VARIABLES tx,  \* the queue multi_send fills
          sx   \* the queue send fills

txVars == <<tx, sx>>

TxAt(i) == i % NUM_TX
TxIds == 0 .. NUM_TX - 1
\* descriptors after a up to b
Span(a, b) == {TxAt(a + k) : k \in 1 .. (b - a) % NUM_TX}
Desc == [rs |-> FALSE, dd |-> FALSE, buf |-> NoBuf]

\* configure_tx: one descriptor is never used, to tell a full ring from an empty one
TxInit ==
    /\ tx = [tail |-> 0, nb_tx_free |-> NUM_TX - 1, desc |-> [i \in TxIds |-> Desc], tdh |-> 0, tdt |-> 0,
             pc |-> "idle", left |-> 0, id |-> 0, nb_tx_used |-> 0, last_desc_cleaned |-> NUM_TX - 1,
             sw |-> [i \in TxIds |-> [last_id |-> i, buf |-> NoBuf]]]
    /\ sx = [tail |-> 0, nb_tx_free |-> NUM_TX - 1, desc |-> [i \in TxIds |-> Desc], tdh |-> 0, tdt |-> 0,
             next_dd |-> TX_RS_THRESH - 1, next_rs |-> TX_RS_THRESH - 1,
             sw |-> [i \in TxIds |-> NoBuf]]

-----------------------------------------------------------------------------
(* Full-feature transmission. *)

\* the descriptor whose completion shows that a batch is done
desc_to_clean_to(t) == t.sw[TxAt(t.last_desc_cleaned + TX_RS_THRESH)].last_id

Cleanable(t) == t.desc[desc_to_clean_to(t)].dd

\* the buffers of the batch are freed, its entries reset, its completion cleared
xmit_cleanup(t) ==
    LET to == desc_to_clean_to(t)
        batch == Span(t.last_desc_cleaned, to)
    IN [t EXCEPT !.sw = [i \in TxIds |-> IF i \in batch THEN [last_id |-> i, buf |-> NoBuf] ELSE @[i]],
                 !.desc[to].dd = FALSE,
                 !.last_desc_cleaned = to,
                 !.nb_tx_free = @ + ((to - t.last_desc_cleaned) % NUM_TX)]

Freed(t) == {t.sw[i].buf : i \in Span(t.last_desc_cleaned, desc_to_clean_to(t))} \ {NoBuf}

\* tx' = f(tx), after a clean-up when one is wanted and possible
Cleaned(wanted, f(_)) ==
    IF wanted /\ Cleanable(tx)
    THEN (\E t \in {xmit_cleanup(tx)} : tx' = f(t)) /\ pool' = pool \cup Freed(tx)
    ELSE tx' = f(tx) /\ UNCHANGED pool

Multi_call ==
    /\ tx.pc = "idle"
    /\ \E n \in 1 .. TX_BURST :
        Cleaned(NUM_TX - tx.nb_tx_free > TX_FREE_THRESH,
                LAMBDA t : [t EXCEPT !.pc = "loop", !.left = n, !.id = t.tail])
    /\ UNCHANGED <<sx, kept, rx_desc, rx_buf, rx_tail, rx, rxRegs, handled>>

\* RS on the last descriptor of the packet that reaches the threshold
RsDue_above(used) == used > TX_RS_THRESH
RsDue(used) == used >= TX_RS_THRESH

\* A packet of n segments and buffer b: the context descriptor and the first
\* segment's are written whole; the others keep their status word.
put(t, n, b) ==
    LET last == TxAt(t.id + n)
        used == t.nb_tx_used + n + 1
        here == Span(t.id - 1, last)
    IN [t EXCEPT
        !.sw = [i \in TxIds |-> IF i \in here THEN [last_id |-> last,
                                     buf |-> IF i = TxAt(t.id + 1) THEN b ELSE @[i].buf]
                                ELSE @[i]],
        !.desc = [i \in TxIds |->
            IF i \in here THEN [rs |-> i = last /\ RsDue(used),
                                dd |-> @[i].dd /\ i \notin {t.id, TxAt(t.id + 1)},
                                buf |-> b]
            ELSE @[i]],
        !.nb_tx_used = IF RsDue(used) THEN 0 ELSE used,
        !.nb_tx_free = @ - (n + 1),
        !.id = TxAt(last + 1), !.left = @ - 1]

\* no room and nothing to clean: the call ends, with what it has put so far
Multi_packet ==
    /\ tx.pc = "loop" /\ tx.left > 0
    /\ \E n \in Segments, b \in {NoBuf} \cup {c \in kept : Least(c, kept)} :
        LET short == n + 1 > tx.nb_tx_free IN
        IF short /\ ~Cleanable(tx)
        THEN tx' = [tx EXCEPT !.pc = "end"] /\ UNCHANGED <<pool, kept>>
        ELSE Cleaned(short, LAMBDA t : put(t, n, b)) /\ kept' = kept \ {b}
    /\ UNCHANGED <<sx, rx_desc, rx_buf, rx_tail, rx, rxRegs, handled>>

\* end_of_tx: TDT (the early return 0 leaves both as they are)
Multi_end ==
    /\ tx.pc = "end" \/ (tx.pc = "loop" /\ tx.left = 0)
    /\ tx' = [tx EXCEPT !.pc = "idle", !.left = 0, !.tail = tx.id, !.tdt = tx.id]
    /\ UNCHANGED <<sx, kept, pool, rx_desc, rx_buf, rx_tail, rx, rxRegs, handled>>

-----------------------------------------------------------------------------
(* Simple transmission: n packets with buffers bs. *)

Next_batch(i) == IF i + TX_RS_THRESH >= NUM_TX THEN TX_RS_THRESH - 1 ELSE i + TX_RS_THRESH

\* tx_free_bufs frees the entries from the batch's first up to TX_RS_THRESH - 1
Batch(s) == (s.next_dd - (TX_RS_THRESH - 1)) .. TX_RS_THRESH - 1

FreeDue(s) == s.nb_tx_free < TX_FREE_THRESH /\ s.desc[s.next_dd].dd

tx_free_bufs(s) ==
    [s EXCEPT !.sw = [i \in TxIds |-> IF i \in Batch(s) THEN NoBuf ELSE @[i]],
              !.nb_tx_free = @ + TX_RS_THRESH, !.next_dd = Next_batch(@)]

\* tx_fill_hw_ring with tx1 and tx4: n descriptors from the tail, RS and DD cleared
tx_fill_hw_ring_keep(s, bs) ==
    LET pos(i) == i - s.tail + 1 IN
    [s EXCEPT !.sw = [i \in TxIds |-> IF pos(i) \in DOMAIN bs THEN bs[pos(i)] ELSE @[i]],
              !.desc = [i \in TxIds |-> IF pos(i) \in DOMAIN bs
                                        THEN [@[i] EXCEPT !.rs = FALSE, !.buf = bs[pos(i)]]
                                        ELSE @[i]]]

tx_fill_hw_ring(s, bs) ==
    LET pos(i) == i - s.tail + 1 IN
    [s EXCEPT !.sw = [i \in TxIds |-> IF pos(i) \in DOMAIN bs THEN bs[pos(i)] ELSE @[i]],
              !.desc = [i \in TxIds |-> IF pos(i) \in DOMAIN bs
                                        THEN [rs |-> FALSE, dd |-> FALSE, buf |-> bs[pos(i)]]
                                        ELSE @[i]]]

SetRS(s) == [s EXCEPT !.desc[s.next_rs].rs = TRUE, !.next_rs = Next_batch(@)]

\* the top of the ring, when the packets do not fit below it
Top(s, bs) ==
    IF s.tail + Len(bs) > NUM_TX
    THEN [SetRS(tx_fill_hw_ring(s, SubSeq(bs, 1, NUM_TX - s.tail))) EXCEPT !.tail = 0]
    ELSE s

\* the rest below; RS when the tail passed its place
Low(s, bs) == [tx_fill_hw_ring(s, bs) EXCEPT !.tail = @ + Len(bs)]
Marked(s) == [(IF s.tail > s.next_rs THEN SetRS(s) ELSE s) EXCEPT !.tail = TxAt(@)]

\* the buffers of m packets: with FREE_OK those the stack holds, the least first
Packets(m, free_ok) ==
    {bs \in [1 .. m -> kept \cup {NoBuf}] : \A i \in 1 .. m :
        IF free_ok /\ i <= Cardinality(kept)
        THEN bs[i] \in kept /\ Cardinality({c \in kept : c < bs[i]}) = i - 1
        ELSE bs[i] = NoBuf}

Simple_send ==
    /\ \E n \in 1 .. TX_BURST, free_ok \in BOOLEAN,
          s \in {IF FreeDue(sx) THEN tx_free_bufs(sx) ELSE sx} :
       \E bs \in Packets(IF n < s.nb_tx_free THEN n ELSE s.nb_tx_free, free_ok) :
       \E top \in {Top(s, bs)} :
       \E low \in {Low(top, IF s.tail + Len(bs) > NUM_TX
                            THEN SubSeq(bs, NUM_TX - s.tail + 1, Len(bs)) ELSE bs)} :
       \E done \in {Marked(low)} :
        /\ sx' = IF bs = <<>> THEN s
                 ELSE [done EXCEPT !.nb_tx_free = @ - Len(bs), !.tdt = done.tail]
        /\ kept' = kept \ {bs[i] : i \in DOMAIN bs}
    /\ pool' = pool \cup (IF FreeDue(sx) THEN {sx.sw[i] : i \in Batch(sx)} \ {NoBuf} ELSE {})
    /\ UNCHANGED <<tx, rx_desc, rx_buf, rx_tail, rx, rxRegs, handled>>

-----------------------------------------------------------------------------
\* The card sends the head's packet and reports it where RS asks for that.
Transmitted(t) ==
    [t EXCEPT !.desc[t.tdh].dd = @ \/ t.desc[t.tdh].rs, !.tdh = TxAt(@ + 1)]

Nic_transmit ==
    /\ \/ tx.tdh # tx.tdt /\ tx' = Transmitted(tx) /\ UNCHANGED sx
       \/ sx.tdh # sx.tdt /\ sx' = Transmitted(sx) /\ UNCHANGED tx
    /\ UNCHANGED rxVars

Multi == Multi_call \/ Multi_packet \/ Multi_end
-----------------------------------------------------------------------------
Pending(t) == Span(t.tdh - 1, t.tdt - 1)
InRing(t) == {t.desc[i].buf : i \in Pending(t)} \ {NoBuf}

\* nb_tx_free counts no descriptor the card may still read, and no buffer the card may
\* still read is free: xmit_cleanup and tx_free_bufs take the completion of the
\* threshold descriptor for that of the whole batch, and never an old one's.
TxReclaimsDone ==
    /\ \A t \in {tx, sx} : Cardinality(Pending(t)) + t.nb_tx_free < NUM_TX
    /\ (tx.pc = "loop" \/ tx.pc = "idle") =>
        tx.nb_tx_free = NUM_TX - 1 - Cardinality(Span(tx.last_desc_cleaned, tx.id - 1))
    /\ tx.nb_tx_free >= 0
    /\ pool \cap (InRing(tx) \cup InRing(sx)) = {}

\* A full ring, which is reclaimed in the end: the threshold packet of every batch
\* carries RS, so there is a completion to wait for.
TxFull == tx.nb_tx_free < TX_RS_THRESH /\ ~Cleanable(tx)
SimpleFull == sx.nb_tx_free = 0
=============================================================================
