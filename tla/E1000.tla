------------------------------- MODULE E1000 --------------------------------
(***************************************************************************)
(* The e1000 Ethernet driver: bring-up (init, activate), the receive ring  *)
(* and its interrupt handler, the transmit ring (send) and the service     *)
(* thread that takes requests by IPC.  The handler thread, the service     *)
(* thread and the card interleave.  A packet is its number in order of     *)
(* arrival and what the driver looks at in it (Kind).                      *)
(*                                                                         *)
(* rx_init leaves RDT one past the ring, which the head never meets: until *)
(* the handler first moves RDT the card may lap it (e_burst).              *)
(***************************************************************************)
EXTENDS Integers, Sequences

CONSTANTS
    NUM_DESCRIPTORS,  \* 1024 in the code, for both rings
    Kind,             \* of {"mine", "arp_me", "arp_any", "other", "error"}
    is_x8254,         \* the card reports receive errors the driver checks
    MaxPackets, MaxSends, MaxLink   \* bounds: packets received, sent, cable events

ASSUME E1000Assumption == NUM_DESCRIPTORS \in Nat \ {0, 1}

VARIABLES
    hpc,              \* handler thread
    ready, is_up,     \* flags of E1000_card
    ims, icr, e_irq,  \* interrupts enabled, causes latched, message sent
    link, links,      \* the cable, and how often it changed
    e_rx_desc, e_rdh, e_rdt, rx_buf_pos,
    e_received, e_handled, chan,
    e_burst,          \* history: a packet went over one the handler's first scan had not read
    spc, ip,          \* service thread, and the configured address
    tx_desc, tdh, tdt, tx_buf_pos, sends, transmitted

e_rxVars == <<e_rx_desc, e_rdh, e_rdt, rx_buf_pos, e_received, e_handled, chan, e_burst>>
e_txVars == <<spc, ip, tx_desc, tdh, tdt, tx_buf_pos, sends, transmitted>>
ctlVars == <<hpc, ready, is_up, ims, icr, e_irq, link, links>>
e1000Vars == <<ctlVars, e_rxVars, e_txVars>>

N == NUM_DESCRIPTORS
Empty == [dd |-> FALSE, pkt |-> 0, kind |-> "none"]

\* init: tx_init, rx_init and the flags; the rings are zeroed memory
E1000Init ==
    /\ hpc = "start" /\ ready = FALSE /\ is_up = FALSE /\ ims = FALSE /\ icr = {}
    /\ e_irq = FALSE /\ link = TRUE /\ links = 0
    /\ e_rx_desc = [i \in 0 .. N - 1 |-> Empty] /\ e_rdh = 0 /\ e_rdt = N /\ rx_buf_pos = 0
    /\ e_received = 0 /\ e_handled = 0 /\ chan = <<>> /\ e_burst = FALSE
    /\ spc = "wait" /\ ip = "unset"
    /\ tx_desc = [i \in 0 .. N - 1 |-> [sta |-> FALSE, pkt |-> 0]]
    /\ tdh = 0 /\ tdt = 0 /\ tx_buf_pos = 0 /\ sends = 0 /\ transmitted = 0

-----------------------------------------------------------------------------
\* A cause: latched; a message is sent when the first one is latched unmasked.
Latch(c) == /\ icr' = icr \cup {c}
            /\ e_irq' = (e_irq \/ (ims /\ icr = {}))

Activate_ims ==
    /\ hpc = "start"
    /\ is_up' = TRUE /\ ims' = TRUE /\ hpc' = "activate"
    /\ e_irq' = (e_irq \/ icr # {})
    /\ UNCHANGED <<ready, icr, link, links, e_rxVars, e_txVars>>

\* ICR read, transmitter and receiver enabled
Activate_rx ==
    /\ hpc = "activate"
    /\ icr' = {} /\ ready' = TRUE /\ hpc' = "wait"
    /\ UNCHANGED <<is_up, ims, e_irq, link, links, e_rxVars, e_txVars>>

-----------------------------------------------------------------------------
\* interrupt_handler: reading ICR clears it
Handler_enter ==
    /\ hpc = "wait" /\ e_irq
    /\ e_irq' = FALSE /\ icr' = {}
    /\ IF "rx" \in icr THEN hpc' = "scan" /\ UNCHANGED is_up
       ELSE UNCHANGED hpc /\ is_up' = IF "lsc" \in icr THEN ~is_up ELSE is_up
    /\ UNCHANGED <<ready, ims, link, links, e_rxVars, e_txVars>>

\* is_arp compares the sender's target with ip only once ip[0] is set
is_arp(k) == k \in {"arp_me", "arp_any"} /\ (ip = "unset" \/ (ip = "set" /\ k = "arp_me"))
Wanted(k) == is_arp(k) \/ k = "mine"

e_reset_rx_desc(i) == e_rx_desc' = [e_rx_desc EXCEPT ![i] = Empty]

\* one turn of the loop: the packet taken, the descriptor given back
Handler_packet ==
    LET d == e_rx_desc[rx_buf_pos] IN
    /\ hpc = "scan" /\ d.dd
    /\ IF is_x8254 /\ d.kind = "error" THEN hpc' = "panic" /\ UNCHANGED e_rxVars
       ELSE /\ chan' = IF Wanted(d.kind) THEN Append(chan, d.pkt) ELSE chan
            /\ e_handled' = e_handled + 1
            /\ e_reset_rx_desc(rx_buf_pos)
            /\ e_rdt' = rx_buf_pos
            /\ rx_buf_pos' = (rx_buf_pos + 1) % N
            /\ UNCHANGED <<hpc, e_rdh, e_received, e_burst>>
    /\ UNCHANGED <<ready, is_up, ims, icr, e_irq, link, links, e_txVars>>

Handler_done ==
    /\ hpc = "scan" /\ ~e_rx_desc[rx_buf_pos].dd
    /\ hpc' = "wait"
    /\ UNCHANGED <<ready, is_up, ims, icr, e_irq, link, links, e_rxVars, e_txVars>>

-----------------------------------------------------------------------------
\* service_request: the address is set word by word, or a packet is sent
Ip_first ==
    /\ ready /\ spc = "wait" /\ ip = "unset"
    /\ ip' = "partly" /\ spc' = "ip"
    /\ UNCHANGED <<ctlVars, e_rxVars, tx_desc, tdh, tdt, tx_buf_pos, sends, transmitted>>

Ip_rest ==
    /\ spc = "ip"
    /\ ip' = "set" /\ spc' = "wait"
    /\ UNCHANGED <<ctlVars, e_rxVars, tx_desc, tdh, tdt, tx_buf_pos, sends, transmitted>>

\* send: the descriptor's status field is not written
Send ==
    /\ ready /\ spc = "wait" /\ sends < MaxSends
    /\ sends' = sends + 1
    /\ tx_desc' = [tx_desc EXCEPT ![tx_buf_pos].pkt = sends + 1]
    /\ tx_buf_pos' = (tx_buf_pos + 1) % N
    /\ tdt' = tx_buf_pos'
    /\ spc' = "sending"
    /\ UNCHANGED <<ctlVars, e_rxVars, ip, tdh, transmitted>>

\* the wait on the status of the descriptor just filled, then the reply
Sent ==
    /\ spc = "sending" /\ tx_desc[(tx_buf_pos - 1) % N].sta
    /\ spc' = "sent"
    /\ UNCHANGED <<ctlVars, e_rxVars, ip, tx_desc, tdh, tdt, tx_buf_pos, sends, transmitted>>

Send_return ==
    /\ spc = "sent" /\ spc' = "wait"
    /\ UNCHANGED <<ctlVars, e_rxVars, ip, tx_desc, tdh, tdt, tx_buf_pos, sends, transmitted>>

-----------------------------------------------------------------------------
\* The card: receives into the head's descriptor, transmits, reports the cable.
Card_receive(k) ==
    /\ ready /\ e_received < MaxPackets /\ e_rdh # e_rdt
    /\ e_received' = e_received + 1
    /\ e_rx_desc' = [e_rx_desc EXCEPT ![e_rdh] = [dd |-> TRUE, pkt |-> e_received', kind |-> k]]
    /\ e_rdh' = (e_rdh + 1) % N
    /\ e_burst' = (e_burst \/ (e_rdt = N /\ e_rx_desc[e_rdh].dd))
    /\ Latch("rx")
    /\ UNCHANGED <<hpc, ready, is_up, ims, link, links, e_rdt, rx_buf_pos, e_handled, chan, e_txVars>>

Card_transmit ==
    /\ ready /\ tdh # tdt
    /\ tx_desc' = [tx_desc EXCEPT ![tdh].sta = TRUE]
    /\ transmitted' = tx_desc[tdh].pkt
    /\ tdh' = (tdh + 1) % N
    /\ UNCHANGED <<ctlVars, e_rxVars, spc, ip, tdt, tx_buf_pos, sends>>

Card_link ==
    /\ links < MaxLink
    /\ links' = links + 1 /\ link' = ~link
    /\ Latch("lsc")
    /\ UNCHANGED <<hpc, ready, is_up, ims, e_rxVars, e_txVars>>

Handler == Activate_ims \/ Activate_rx \/ Handler_enter \/ Handler_packet \/ Handler_done
Service == Ip_first \/ Ip_rest \/ Send \/ Sent \/ Send_return
E1000Next == Handler \/ Service \/ Card_transmit \/ Card_link \/ \E k \in Kind : Card_receive(k)

-----------------------------------------------------------------------------
\* The descriptors with DD set are exactly those of the packets received and not
\* yet handled, in order from rx_buf_pos: none is overwritten, skipped or handled
\* twice; what the channel got is in order (interrupt_handler).  The one way out is
\* the RDT of rx_init: a card that gets more packets than the ring holds before the
\* handler takes its first writes over the oldest ones.
E1000Ring ==
    LET waiting == e_received - e_handled IN
    e_burst \/
    /\ waiting \in 0 .. N
    /\ \A i \in 0 .. N - 1 :
        LET d == e_rx_desc[(rx_buf_pos + i) % N] IN
        IF i < waiting THEN d.dd /\ d.pkt = e_handled + 1 + i ELSE ~d.dd
    /\ \A i \in 1 .. Len(chan) - 1 : chan[i] < chan[i + 1]

\* What the handler owes, unless it panicked on a receive error or the card lapped
\* the ring at the start: packets received.
E1000Owes == e_handled < e_received /\ hpc # "panic" /\ ~e_burst
=============================================================================
