----------------------------- MODULE DriverProofs -----------------------------
(***************************************************************************)
(* Theorems about the network drivers.                                     *)
(***************************************************************************)
EXTENDS Drivers, TLAPS

-----------------------------------------------------------------------------
(***************************************************************************)
(* The receive ring of the e1000.  Besides what E1000Ring says of the      *)
(* descriptors, the head is as many packets ahead of rx_buf_pos as are     *)
(* waiting, and the tail register stops it one short of a full lap once    *)
(* the handler has moved it.                                               *)
(***************************************************************************)
Idx == 0 .. N - 1
EWaiting == e_received - e_handled
\* how far descriptor s is ahead of descriptor p
Ahead(s, p) == (s - p) % N

RingPtrs ==
    /\ e_received \in Nat /\ e_handled \in Nat /\ EWaiting \in 0 .. N
    /\ rx_buf_pos \in Idx /\ e_rdh \in Idx
    /\ e_rdh = (rx_buf_pos + EWaiting) % N
    /\ \/ e_rdt = N /\ rx_buf_pos = 0 /\ e_handled = 0
       \/ e_rdt = (rx_buf_pos - 1) % N /\ EWaiting < N

RingDescs ==
    /\ e_rx_desc \in [Idx -> [dd : BOOLEAN, pkt : Nat, kind : Kind \cup {"none"}]]
    /\ \A s \in Idx : IF Ahead(s, rx_buf_pos) < EWaiting
                      THEN e_rx_desc[s].dd /\ e_rx_desc[s].pkt = e_handled + 1 + Ahead(s, rx_buf_pos)
                      ELSE ~e_rx_desc[s].dd

ChanOrdered ==
    /\ chan \in Seq(Nat)
    /\ \A i \in 1 .. Len(chan) : chan[i] <= e_handled
    /\ \A i \in 1 .. Len(chan) - 1 : chan[i] < chan[i + 1]

E1000Inv == RingPtrs /\ RingDescs /\ ChanOrdered

\* until the card laps the handler's first scan
E1000Kept == e_burst \/ E1000Inv

\* Ring arithmetic: no value is more than a lap away.
LEMMA RingArith ==
    ASSUME NEW p \in Idx, NEW s \in Idx
    PROVE  /\ Ahead(s, p) = IF s >= p THEN s - p ELSE s - p + N
           /\ Ahead(s, p) \in Idx
           /\ (p + 1) % N = IF p = N - 1 THEN 0 ELSE p + 1
           /\ (p - 1) % N = IF p = 0 THEN N - 1 ELSE p - 1
  BY E1000Assumption DEF Idx, Ahead, N

LEMMA RingAdd ==
    ASSUME NEW p \in Idx, NEW i \in 0 .. N
    PROVE  /\ (p + i) % N = IF p + i < N THEN p + i ELSE p + i - N
           /\ (p + i) % N \in Idx
  BY E1000Assumption DEF Idx, N

\* What the invariant says of the descriptors is what E1000Ring says of them.
LEMMA E1000InvRing == ASSUME E1000Kept PROVE E1000Ring
<1> SUFFICES ASSUME E1000Inv PROVE E1000Ring
  BY Zenon DEF E1000Kept, E1000Ring
<1>1. N \in Nat \ {0, 1}
  BY E1000Assumption, Zenon DEF N
<1>2. ASSUME NEW i \in 0 .. N - 1
      PROVE  (rx_buf_pos + i) % N \in Idx /\ Ahead((rx_buf_pos + i) % N, rx_buf_pos) = i
  <2>1. i \in 0 .. N /\ rx_buf_pos \in Idx
    BY <1>1 DEF E1000Inv, RingPtrs
  <2>2. /\ (rx_buf_pos + i) % N = IF rx_buf_pos + i < N THEN rx_buf_pos + i ELSE rx_buf_pos + i - N
        /\ (rx_buf_pos + i) % N \in Idx
    BY <2>1, RingAdd, Zenon
  <2>3. Ahead((rx_buf_pos + i) % N, rx_buf_pos)
           = IF (rx_buf_pos + i) % N >= rx_buf_pos THEN ((rx_buf_pos + i) % N) - rx_buf_pos
             ELSE ((rx_buf_pos + i) % N) - rx_buf_pos + N
    BY <2>1, <2>2, RingArith, Zenon
  <2> QED
    BY <1>1, <2>1, <2>2, <2>3 DEF Idx
<1> QED
  BY <1>2, Zenon DEF E1000Inv, RingPtrs, RingDescs, ChanOrdered, E1000Ring, EWaiting

LEMMA E1000InvInit == ASSUME E1000Init PROVE E1000Inv
<1>1. N \in Nat \ {0, 1}
  BY E1000Assumption, Zenon DEF N
<1>2. \A s \in Idx : Ahead(s, 0) \in Idx
  BY <1>1, RingArith DEF Idx
<1>3. 0 % N = 0
  BY <1>1
<1> QED
  BY <1>1, <1>2, <1>3 DEF E1000Init, E1000Inv, RingPtrs, RingDescs, ChanOrdered, EWaiting, Idx, Empty

\* Steps that leave the ring and the channel alone.
LEMMA E1000Unchanged == ASSUME E1000Inv, UNCHANGED e_rxVars PROVE E1000Inv'
  BY Zenon DEF E1000Inv, RingPtrs, RingDescs, ChanOrdered, e_rxVars, EWaiting

\* The card: the head's descriptor is the first free one.
LEMMA CardReceives ==
    ASSUME E1000Inv, NEW k \in Kind, Card_receive(k), ~e_burst'
    PROVE  E1000Inv'
<1> DEFINE w == EWaiting
           p == rx_buf_pos
<1>1. N \in Nat \ {0, 1} /\ w \in 0 .. N /\ p \in Idx /\ e_rdh \in Idx /\ e_received = e_handled + w
  BY E1000Assumption DEF E1000Inv, RingPtrs, N, EWaiting
<1>2. /\ e_received' = e_received + 1 /\ e_rdh' = (e_rdh + 1) % N
      /\ e_rx_desc' = [e_rx_desc EXCEPT ![e_rdh] = [dd |-> TRUE, pkt |-> e_received', kind |-> k]]
      /\ UNCHANGED <<e_rdt, rx_buf_pos, e_handled, chan>>
      /\ e_rdh # e_rdt /\ (e_rdt = N => ~e_rx_desc[e_rdh].dd)
  BY Zenon DEF Card_receive
<1>3. w' = w + 1
  BY <1>1, <1>2 DEF EWaiting, E1000Inv, RingPtrs
<1>4. e_rdh = IF p + w < N THEN p + w ELSE p + w - N
  BY <1>1, RingAdd, Zenon DEF E1000Inv, RingPtrs
<1>5. w < N /\ (e_rdt # N => w + 1 < N)
  <2>1. CASE e_rdt = N
    <3>1. ~(Ahead(e_rdh, p) < w)
      BY <1>1, <1>2, <2>1, Zenon DEF E1000Inv, RingDescs
    <3>2. Ahead(e_rdh, p) = (IF e_rdh >= p THEN e_rdh - p ELSE e_rdh - p + N)
      BY <1>1, RingArith, Zenon
    <3> QED
      BY <1>1, <1>4, <2>1, <3>1, <3>2 DEF Idx
  <2>2. CASE e_rdt # N
    <3>1. w < N /\ e_rdt = IF p = 0 THEN N - 1 ELSE p - 1
      BY <1>1, <2>2, RingArith, Zenon DEF E1000Inv, RingPtrs
    <3> QED
      BY <1>1, <1>2, <1>4, <3>1 DEF Idx
  <2> QED
    BY <2>1, <2>2, Zenon
<1>6. e_rdh' = (p + (w + 1)) % N
  <2>1. e_rdh' = IF e_rdh = N - 1 THEN 0 ELSE e_rdh + 1
    BY <1>1, <1>2, RingArith, Zenon
  <2>2. (p + (w + 1)) % N = IF p + (w + 1) < N THEN p + (w + 1) ELSE p + (w + 1) - N
    BY <1>1, <1>5, RingAdd
  <2> QED
    BY <1>1, <1>4, <2>1, <2>2, <1>5 DEF Idx
<1>7. e_rdh' \in Idx
  BY <1>1, <1>2, RingAdd
<1>8. \A s \in Idx : Ahead(s, p) \in Idx /\ (Ahead(s, p) = w <=> s = e_rdh)
  <2>1. \A s \in Idx : Ahead(s, p) \in Idx /\ Ahead(s, p) = IF s >= p THEN s - p ELSE s - p + N
    BY <1>1, RingArith, Zenon
  <2> QED
    BY <1>1, <1>4, <1>5, <2>1 DEF Idx
<1>9. /\ e_rx_desc' \in [Idx -> [dd : BOOLEAN, pkt : Nat, kind : Kind \cup {"none"}]]
      /\ e_rx_desc'[e_rdh].dd /\ e_rx_desc'[e_rdh].pkt = e_handled + 1 + w
      /\ \A s \in Idx : s # e_rdh => e_rx_desc'[s] = e_rx_desc[s]
  BY <1>1, <1>2 DEF E1000Inv, RingPtrs, RingDescs
<1>10. ASSUME NEW s \in Idx
       PROVE  IF Ahead(s, p) < w + 1
              THEN e_rx_desc'[s].dd /\ e_rx_desc'[s].pkt = e_handled + 1 + Ahead(s, p)
              ELSE ~e_rx_desc'[s].dd
  <2>1. CASE s = e_rdh
    BY <1>1, <1>8, <1>9, <2>1
  <2>2. CASE s # e_rdh
    <3>1. Ahead(s, p) < w + 1 <=> Ahead(s, p) < w
      BY <1>1, <1>8, <2>2 DEF Idx
    <3>2. IF Ahead(s, p) < w THEN e_rx_desc[s].dd /\ e_rx_desc[s].pkt = e_handled + 1 + Ahead(s, p)
          ELSE ~e_rx_desc[s].dd
      BY Zenon DEF E1000Inv, RingDescs
    <3> QED
      BY <1>9, <2>2, <3>1, <3>2, Zenon
  <2> QED
    BY <2>1, <2>2, Zenon
<1>11. e_received' \in Nat /\ w' \in 0 .. N
  BY <1>1, <1>2, <1>3, <1>5 DEF E1000Inv, RingPtrs
<1>12. p' = p /\ e_handled' = e_handled /\ chan' = chan /\ e_rdt' = e_rdt
  BY <1>2, Zenon
<1> HIDE DEF w, p
<1>13. RingPtrs'
  <2>1. /\ EWaiting' = w + 1 /\ EWaiting' \in 0 .. N /\ e_rdh' = (rx_buf_pos' + EWaiting') % N
        /\ rx_buf_pos' \in Idx /\ e_handled' \in Nat
    BY <1>1, <1>3, <1>6, <1>11, <1>12, Zenon DEF E1000Inv, RingPtrs, w, p
  <2>2. \/ e_rdt' = N /\ rx_buf_pos' = 0 /\ e_handled' = 0
        \/ e_rdt' = (rx_buf_pos' - 1) % N /\ EWaiting' < N
    <3>1. CASE e_rdt = N
      <4>1. ~(e_rdt = (rx_buf_pos - 1) % N)
        BY <1>1, <3>1, RingArith DEF p, Idx
      <4> QED
        BY <1>12, <3>1, <4>1, Zenon DEF E1000Inv, RingPtrs, p
    <3>2. CASE e_rdt # N
      BY <1>5, <1>12, <2>1, <3>2, Zenon DEF E1000Inv, RingPtrs, p
    <3> QED
      BY <3>1, <3>2, Zenon
  <2> QED
    BY <1>7, <1>11, <2>1, <2>2, Zenon DEF RingPtrs
<1>14. RingDescs'
  BY <1>3, <1>9, <1>10, <1>12, Zenon DEF RingDescs, w, p
<1>15. ChanOrdered'
  BY <1>12, Zenon DEF E1000Inv, ChanOrdered
<1> QED
  BY <1>13, <1>14, <1>15, Zenon DEF E1000Inv

\* The handler: the descriptor at rx_buf_pos holds the oldest packet.
LEMMA HandlerTakes ==
    ASSUME E1000Inv, Handler_packet
    PROVE  E1000Inv'
<1> DEFINE w == EWaiting
           p == rx_buf_pos
           d == e_rx_desc[p]
<1>1. N \in Nat \ {0, 1} /\ w \in 0 .. N /\ p \in Idx /\ e_rdh \in Idx /\ e_received = e_handled + w
  BY E1000Assumption DEF E1000Inv, RingPtrs, N, EWaiting
<1>2. Ahead(p, p) = 0
  BY <1>1, RingArith DEF Idx
<1>3. w > 0 /\ d.pkt = e_handled + 1
  <2>1. d.dd
    BY Zenon DEF Handler_packet
  <2>2. IF 0 < w THEN d.pkt = e_handled + 1 + 0 ELSE ~d.dd
    BY <1>1, <1>2, Zenon DEF E1000Inv, RingDescs
  <2>3. e_handled \in Nat
    BY Zenon DEF E1000Inv, RingPtrs
  <2> QED
    BY <1>1, <2>1, <2>2, <2>3
<1>4. CASE UNCHANGED e_rxVars
  BY <1>4, E1000Unchanged, Zenon
<1>5. ASSUME chan' = (IF Wanted(d.kind) THEN Append(chan, d.pkt) ELSE chan),
             e_handled' = e_handled + 1, e_reset_rx_desc(p), e_rdt' = p,
             rx_buf_pos' = (p + 1) % N, UNCHANGED <<e_rdh, e_received>>
      PROVE  E1000Inv'
  <2>1. w' = w - 1 /\ w' \in 0 .. N /\ w' < N
    BY <1>1, <1>3, <1>5 DEF EWaiting, E1000Inv, RingPtrs
  <2>2. p' \in Idx /\ p' = IF p = N - 1 THEN 0 ELSE p + 1
    <3>1. p' = IF p = N - 1 THEN 0 ELSE p + 1
      BY <1>1, <1>5, RingArith, Zenon
    <3> QED
      BY <1>1, <3>1 DEF Idx
  <2>3. e_rdh = (p' + w') % N
    <3>1. e_rdh = IF p + w < N THEN p + w ELSE p + w - N
      BY <1>1, RingAdd, Zenon DEF E1000Inv, RingPtrs
    <3>2. (p' + w') % N = IF p' + w' < N THEN p' + w' ELSE p' + w' - N
      BY <2>1, <2>2, RingAdd, Zenon
    <3> QED
      BY <1>1, <1>3, <2>1, <2>2, <3>1, <3>2 DEF Idx
  <2>4. e_rdt' = (p' - 1) % N
    <3>1. (p' - 1) % N = IF p' = 0 THEN N - 1 ELSE p' - 1
      BY <2>2, RingArith, Zenon
    <3> QED
      BY <1>1, <1>5, <2>2, <3>1 DEF Idx
  <2>5. \A s \in Idx : Ahead(s, p') = IF s = p THEN N - 1 ELSE Ahead(s, p) - 1
    <3>1. \A s \in Idx : /\ Ahead(s, p) = IF s >= p THEN s - p ELSE s - p + N
                         /\ Ahead(s, p') = IF s >= p' THEN s - p' ELSE s - p' + N
      BY <1>1, <2>2, RingArith, Zenon
    <3>2. ASSUME NEW s \in Idx
          PROVE  Ahead(s, p') = IF s = p THEN N - 1 ELSE Ahead(s, p) - 1
      <4>1. /\ s \in 0 .. N - 1 /\ p \in 0 .. N - 1 /\ p' = (IF p = N - 1 THEN 0 ELSE p + 1)
            /\ Ahead(s, p) = (IF s >= p THEN s - p ELSE s - p + N)
            /\ Ahead(s, p') = (IF s >= p' THEN s - p' ELSE s - p' + N)
        BY <1>1, <2>2, <3>1, Zenon DEF Idx
      <4> HIDE DEF p
      <4>2. CASE p = N - 1
        BY <1>1, <4>1, <4>2
      <4>3. CASE p # N - 1
        BY <1>1, <4>1, <4>3
      <4> QED
        BY <4>2, <4>3, Zenon
    <3> QED
      BY <3>2, Zenon
  <2>6. /\ e_rx_desc' \in [Idx -> [dd : BOOLEAN, pkt : Nat, kind : Kind \cup {"none"}]]
        /\ ~e_rx_desc'[p].dd /\ \A s \in Idx : s # p => e_rx_desc'[s] = e_rx_desc[s]
    BY <1>1, <1>5, Zenon DEF e_reset_rx_desc, Empty, E1000Inv, RingDescs
  <2>7. ASSUME NEW s \in Idx
        PROVE  IF Ahead(s, p') < w'
               THEN e_rx_desc'[s].dd /\ e_rx_desc'[s].pkt = e_handled' + 1 + Ahead(s, p')
               ELSE ~e_rx_desc'[s].dd
    <3>1. CASE s = p
      BY <1>1, <2>1, <2>5, <2>6, <3>1
    <3>2. CASE s # p
      <4>1. Ahead(s, p) \in Int
        BY <1>1, RingArith DEF Idx
      <4>2. IF Ahead(s, p) < w THEN e_rx_desc[s].dd /\ e_rx_desc[s].pkt = e_handled + 1 + Ahead(s, p)
            ELSE ~e_rx_desc[s].dd
        BY Zenon DEF E1000Inv, RingDescs
      <4>3. /\ Ahead(s, p') < w' <=> Ahead(s, p) < w
            /\ e_handled' + 1 + Ahead(s, p') = e_handled + 1 + Ahead(s, p)
        <5>1. Ahead(s, p') = Ahead(s, p) - 1 /\ w' = w - 1 /\ w \in Int
          BY <1>1, <2>1, <2>5, <3>2
        <5>2. e_handled' = e_handled + 1 /\ e_handled \in Int
          BY <1>5 DEF E1000Inv, RingPtrs
        <5> QED
          BY <4>1, <5>1, <5>2
      <4> QED
        BY <2>6, <3>2, <4>2, <4>3, Zenon
    <3> QED
      BY <3>1, <3>2, Zenon
  <2>8. /\ chan' \in Seq(Nat) /\ \A i \in 1 .. Len(chan') : chan'[i] <= e_handled'
        /\ \A i \in 1 .. Len(chan') - 1 : chan'[i] < chan'[i + 1]
    <3>1. /\ chan \in Seq(Nat) /\ e_handled \in Nat /\ \A i \in 1 .. Len(chan) : chan[i] <= e_handled
          /\ \A i \in 1 .. Len(chan) - 1 : chan[i] < chan[i + 1]
      BY Zenon DEF E1000Inv, RingPtrs, ChanOrdered
    <3>2. CASE chan' = chan
      BY <1>5, <3>1, <3>2
    <3>3. CASE chan' = Append(chan, e_handled + 1)
      <4>1. /\ chan' \in Seq(Nat) /\ Len(chan') = Len(chan) + 1 /\ chan'[Len(chan) + 1] = e_handled + 1
            /\ \A i \in 1 .. Len(chan) : chan'[i] = chan[i]
        BY <3>1, <3>3
      <4>2. Len(chan) \in Nat /\ e_handled' = e_handled + 1
        BY <1>5, <3>1
      <4>3. ASSUME NEW i \in 1 .. Len(chan') PROVE chan'[i] <= e_handled'
        <5>1. CASE i = Len(chan) + 1
          BY <3>1, <4>1, <4>2, <5>1
        <5>2. CASE i \in 1 .. Len(chan)
          <6>1. chan'[i] = chan[i] /\ chan[i] \in Nat /\ chan[i] <= e_handled
            BY <3>1, <4>1, <5>2
          <6> QED
            BY <3>1, <4>2, <6>1
        <5> QED
          BY <4>1, <4>2, <5>1, <5>2
      <4>4. ASSUME NEW i \in 1 .. Len(chan') - 1 PROVE chan'[i] < chan'[i + 1]
        <5>1. i \in 1 .. Len(chan) /\ chan'[i] = chan[i]
          BY <4>1, <4>2
        <5>2. CASE i = Len(chan)
          <6>1. chan[i] <= e_handled /\ chan[i] \in Nat /\ chan'[i + 1] = e_handled + 1
            BY <3>1, <4>1, <5>1, <5>2
          <6> QED
            BY <3>1, <5>1, <6>1
        <5>3. CASE i \in 1 .. Len(chan) - 1
          <6>1. i + 1 \in 1 .. Len(chan)
            BY <4>2, <5>3
          <6>2. chan[i] < chan[i + 1] /\ chan'[i + 1] = chan[i + 1]
            BY <3>1, <4>1, <5>3, <6>1, Zenon
          <6> QED
            BY <5>1, <6>2, Zenon
        <5> QED
          BY <4>2, <5>1, <5>2, <5>3
      <4> QED
        BY <4>1, <4>3, <4>4, Zenon
    <3> QED
      BY <1>3, <1>5, <3>2, <3>3, Zenon
  <2>9. e_handled' \in Nat /\ e_received' \in Nat
    BY <1>5 DEF E1000Inv, RingPtrs
  <2> HIDE DEF w, p
  <2>10. RingPtrs'
    BY <1>1, <1>5, <2>1, <2>2, <2>3, <2>4, <2>9, Zenon DEF RingPtrs, w, p
  <2>11. RingDescs'
    BY <2>6, <2>7, Zenon DEF RingDescs, w, p
  <2> QED
    BY <2>8, <2>10, <2>11, Zenon DEF E1000Inv, ChanOrdered
<1> QED
  BY <1>4, <1>5, Zenon DEF Handler_packet

LEMMA E1000Step ==
    ASSUME E1000Kept, [E1000Next]_e1000Vars
    PROVE  E1000Kept'
<1>1. CASE e_burst
  <2>1. UNCHANGED e1000Vars => e_burst'
    BY <1>1, Zenon DEF e1000Vars, e_rxVars
  <2>2. Handler => e_burst'
    BY <1>1, Zenon DEF Handler, Activate_ims, Activate_rx, Handler_enter, Handler_packet,
       Handler_done, e_rxVars
  <2>3. Service => e_burst'
    BY <1>1, Zenon DEF Service, Ip_first, Ip_rest, Send, Sent, Send_return, e_rxVars
  <2>4. Card_transmit \/ Card_link \/ (\E k \in Kind : Card_receive(k)) => e_burst'
    BY <1>1, Zenon DEF Card_transmit, Card_link, Card_receive, e_rxVars
  <2> QED
    BY <2>1, <2>2, <2>3, <2>4, Zenon DEF E1000Next, E1000Kept
<1>2. CASE E1000Inv /\ ~e_burst'
  <2>1. CASE UNCHANGED e1000Vars
    BY <1>2, <2>1, E1000Unchanged, Zenon DEF e1000Vars, E1000Kept
  <2>2. CASE Handler
    BY <1>2, <2>2, E1000Unchanged, HandlerTakes, Zenon DEF Handler, Activate_ims, Activate_rx,
       Handler_enter, Handler_done, E1000Kept
  <2>3. CASE Service
    BY <1>2, <2>3, E1000Unchanged, Zenon DEF Service, Ip_first, Ip_rest, Send, Sent,
       Send_return, E1000Kept
  <2>4. CASE Card_transmit \/ Card_link
    BY <1>2, <2>4, E1000Unchanged, Zenon DEF Card_transmit, Card_link, E1000Kept
  <2> QED
    BY <1>2, <2>1, <2>2, <2>3, <2>4, CardReceives, Zenon DEF E1000Next, E1000Kept
<1> QED
  BY <1>1, <1>2, Zenon DEF E1000Kept

-----------------------------------------------------------------------------
(***************************************************************************)
(* The receive queue of the x540.  Taken counts the packets handled since  *)
(* rx_tail and RDT were last written: the card cannot pass the tail        *)
(* register, so they and those waiting leave a descriptor free, and what   *)
(* the look-ahead saw is still there when it is taken.                     *)
(***************************************************************************)
RxPc == {"wait", "check", "read", "take", "tail", "unmask"}
RxIdx == 0 .. NUM_RX - 1
RxNumbers == 0 .. Wrap - 1
RxAhead(s, p) == (s - p) % NUM_RX

Taken == IF rx.pc \in {"read", "tail"} THEN rx.nb_rx
         ELSE IF rx.pc = "take" THEN rx.nb_rx - rx.nb_dd + rx.j
         ELSE 0

RxTypes ==
    /\ received \in RxNumbers /\ handled \in RxNumbers
    /\ rx \in [pc : RxPc, base : RxIdx, i : Nat, j : Nat, nb_dd : Nat, nb_rx : Nat]

RxPtrs ==
    /\ Taken \in Nat /\ Waiting \in Nat /\ Waiting + Taken < NUM_RX
    /\ rdh = At(At(handled) + Waiting)
    /\ rx_tail = At(At(handled) - Taken)
    /\ rdt = At(rx_tail - 1)

RxDescs ==
    /\ rx_desc \in [RxIdx -> [dd : BOOLEAN, pkt : RxNumbers]]
    /\ \A s \in RxIdx : IF RxAhead(s, At(handled)) < Waiting
                        THEN /\ rx_desc[s].dd
                             /\ rx_desc[s].pkt = (handled + RxAhead(s, At(handled))) % Wrap
                        ELSE ~rx_desc[s].dd

RxLooked ==
    /\ rx.pc = "read" =>
          /\ rx.base = At(handled) /\ rx.j < LOOK_AHEAD
          /\ rx.nb_dd > 0 => rx.j + rx.nb_dd < Waiting
    /\ rx.pc = "take" =>
          /\ rx.j <= rx.nb_dd /\ rx.nb_dd <= rx.nb_rx /\ rx.nb_dd - rx.j <= Waiting
          /\ At(rx.base + rx.j) = At(handled)

RxInv == RxTypes /\ RxPtrs /\ RxDescs /\ RxLooked

\* Numbers are modulo two laps, descriptors modulo one.
LEMMA RxSizes ==
    NUM_RX \in Nat \ {0, 1} /\ Wrap = 2 * NUM_RX /\ LOOK_AHEAD \in Nat \ {0} /\ LOOK_AHEAD < NUM_RX
  BY RxAssumption DEF Wrap

LEMMA RxNumber ==
    ASSUME NEW h \in RxNumbers
    PROVE  /\ At(h) = (IF h < NUM_RX THEN h ELSE h - NUM_RX) /\ At(h) \in RxIdx
           /\ (h + 1) % Wrap = (IF h = Wrap - 1 THEN 0 ELSE h + 1) /\ (h + 1) % Wrap \in RxNumbers
  BY RxSizes DEF RxNumbers, RxIdx, At

LEMMA RxBetween ==
    ASSUME NEW a \in RxNumbers, NEW h \in RxNumbers
    PROVE  (a - h) % Wrap = IF a >= h THEN a - h ELSE a - h + Wrap
  BY RxSizes DEF RxNumbers

LEMMA RxNear ==
    ASSUME NEW p \in RxIdx, NEW i \in 0 .. NUM_RX
    PROVE  /\ At(p + i) = (IF p + i < NUM_RX THEN p + i ELSE p + i - NUM_RX) /\ At(p + i) \in RxIdx
           /\ At(p - i) = (IF p >= i THEN p - i ELSE p - i + NUM_RX) /\ At(p - i) \in RxIdx
  BY RxSizes DEF RxIdx, At

LEMMA RxAheadOf ==
    ASSUME NEW p \in RxIdx, NEW s \in RxIdx
    PROVE  RxAhead(s, p) = (IF s >= p THEN s - p ELSE s - p + NUM_RX) /\ RxAhead(s, p) \in RxIdx
  BY RxSizes DEF RxIdx, RxAhead

LEMMA RxNumbersArith ==
    ASSUME NEW h \in RxNumbers, NEW k \in 0 .. NUM_RX
    PROVE  /\ (h + k) % Wrap = (IF h + k < Wrap THEN h + k ELSE h + k - Wrap)
           /\ (h + k) % Wrap \in RxNumbers
           /\ At(h + k) = At(At(h) + k)
           /\ At((h + k) % Wrap) = At(At(h) + k)
<1>1. NUM_RX \in Nat \ {0, 1} /\ Wrap = 2 * NUM_RX
  BY RxSizes, Zenon
<1>2. /\ (h + k) % Wrap = (IF h + k < Wrap THEN h + k ELSE h + k - Wrap)
      /\ (h + k) % Wrap \in RxNumbers
  BY <1>1 DEF RxNumbers
<1>3. At(h) = (IF h < NUM_RX THEN h ELSE h - NUM_RX) /\ At(h) \in RxIdx
  BY RxNumber, Zenon
<1>4. At(At(h) + k) = IF At(h) + k < NUM_RX THEN At(h) + k ELSE At(h) + k - NUM_RX
  BY <1>3, RxNear, Zenon
<1>5. At(h + k) = At(At(h) + k)
  BY <1>1, <1>3, <1>4 DEF RxNumbers, At
<1>6. At((h + k) % Wrap) = IF (h + k) % Wrap < NUM_RX THEN (h + k) % Wrap ELSE ((h + k) % Wrap) - NUM_RX
  BY <1>2, RxNumber, Zenon
<1> QED
  BY <1>1, <1>2, <1>3, <1>4, <1>5, <1>6 DEF RxNumbers

LEMMA RxInvInOrder == ASSUME RxInv PROVE RxInOrder
<1>1. NUM_RX \in Nat \ {0, 1} /\ handled \in RxNumbers /\ At(handled) \in RxIdx
  BY RxSizes, RxNumber, Zenon DEF RxInv, RxTypes
<1>2. Waiting < NUM_RX
  BY <1>1 DEF RxInv, RxPtrs
<1>3. ASSUME NEW i \in 0 .. NUM_RX - 1
      PROVE  At(handled + i) \in RxIdx /\ RxAhead(At(handled + i), At(handled)) = i
  <2>1. i \in 0 .. NUM_RX
    BY <1>1
  <2>2. At(handled + i) = At(At(handled) + i)
    BY <1>1, <2>1, RxNumbersArith, Zenon
  <2>3. /\ At(handled + i) = IF At(handled) + i < NUM_RX THEN At(handled) + i ELSE At(handled) + i - NUM_RX
        /\ At(handled + i) \in RxIdx
    BY <1>1, <2>1, <2>2, RxNear, Zenon
  <2>4. RxAhead(At(handled + i), At(handled))
           = IF At(handled + i) >= At(handled) THEN At(handled + i) - At(handled)
             ELSE At(handled + i) - At(handled) + NUM_RX
    BY <1>1, <2>3, RxAheadOf, Zenon
  <2> QED
    BY <1>1, <2>3, <2>4 DEF RxIdx
<1>4. rx.pc \in {"wait", "check", "unmask"} => rx_tail = At(handled)
  <2>1. SUFFICES ASSUME rx.pc \in {"wait", "check", "unmask"} PROVE rx_tail = At(handled)
    BY Zenon
  <2>2. Taken = 0
    BY <2>1, Zenon DEF Taken
  <2>3. \A k \in RxIdx : At(k - 0) = k
    BY <1>1 DEF RxIdx, At
  <2> QED
    BY <1>1, <2>2, <2>3, Zenon DEF RxInv, RxPtrs
<1> QED
  BY <1>2, <1>3, <1>4 DEF RxInv, RxDescs, RxLooked, RxInOrder

LEMMA RxInvInit == ASSUME RxInit PROVE RxInv
<1>1. NUM_RX \in Nat \ {0, 1} /\ Wrap = 2 * NUM_RX /\ 0 \in RxNumbers /\ 0 \in RxIdx
  BY RxSizes DEF RxNumbers, RxIdx
<1>2. Waiting = 0 /\ Taken = 0 /\ At(handled) = 0
  BY <1>1 DEF RxInit, RxIdle, Waiting, Taken, At
<1>3. At(0 + 0) = 0 /\ At(0 - 0) = 0 /\ At(0 - 1) = NUM_RX - 1
  BY <1>1 DEF At
<1>4. RxTypes
  BY <1>1, Zenon DEF RxTypes, RxInit, RxIdle, RxPc
<1>5. RxPtrs
  BY <1>1, <1>2, <1>3 DEF RxPtrs, RxInit
<1>6. RxDescs
  <2>1. \A s \in RxIdx : RxAhead(s, 0) \in RxIdx
    BY <1>1, RxAheadOf, Zenon
  <2> QED
    BY <1>1, <1>2, <2>1 DEF RxDescs, RxInit, RxIdx
<1>7. RxLooked
  BY Zenon DEF RxLooked, RxInit, RxIdle
<1> QED
  BY <1>4, <1>5, <1>6, <1>7, Zenon DEF RxInv

rxRing == <<rx_desc, rx_tail, rdh, rdt, rx, received, handled>>

LEMMA RxUnchanged == ASSUME RxInv, UNCHANGED rxRing PROVE RxInv'
  BY Zenon DEF rxRing, RxInv, RxTypes, RxPtrs, RxDescs, RxLooked, Taken, Waiting

\* The card fills the descriptor behind the waiting ones, which is free.
LEMMA RxReceives == ASSUME RxInv, Nic_receive PROVE RxInv'
<1> DEFINE p == At(handled)
<1>1. /\ NUM_RX \in Nat \ {0, 1} /\ Wrap = 2 * NUM_RX
      /\ handled \in RxNumbers /\ received \in RxNumbers /\ p \in RxIdx
      /\ Waiting \in Nat /\ Taken \in Nat /\ Waiting + Taken < NUM_RX
  BY RxSizes, RxNumber, Zenon DEF RxInv, RxTypes, RxPtrs
<1>2. /\ handled' = handled /\ rx' = rx /\ rx_tail' = rx_tail /\ rdt' = rdt
      /\ received' = (received + 1) % Wrap /\ rdh' = At(rdh + 1) /\ rdh # rdt
      /\ rx_desc' = [rx_desc EXCEPT ![rdh] = [dd |-> TRUE, pkt |-> received]]
      /\ p' = p /\ Taken' = Taken
  BY Zenon DEF Nic_receive, Taken
<1>3. Waiting = IF received >= handled THEN received - handled ELSE received - handled + Wrap
  BY <1>1, RxBetween, Zenon DEF Waiting
<1>4. /\ rdh = (IF p + Waiting < NUM_RX THEN p + Waiting ELSE p + Waiting - NUM_RX) /\ rdh \in RxIdx
      /\ rx_tail = (IF p >= Taken THEN p - Taken ELSE p - Taken + NUM_RX) /\ rx_tail \in RxIdx
  <2>1. Waiting \in 0 .. NUM_RX /\ Taken \in 0 .. NUM_RX
    BY <1>1
  <2> QED
    BY <1>1, <2>1, RxNear, Zenon DEF RxInv, RxPtrs
<1>5. rdt = IF rx_tail >= 1 THEN rx_tail - 1 ELSE rx_tail - 1 + NUM_RX
  <2>1. 1 \in 0 .. NUM_RX
    BY <1>1
  <2> QED
    BY <1>4, <2>1, RxNear, Zenon DEF RxInv, RxPtrs
<1>6. Waiting + Taken < NUM_RX - 1
  BY <1>1, <1>2, <1>4, <1>5 DEF RxIdx
<1>7. received' \in RxNumbers /\ Waiting' = Waiting + 1
  <2>1. received' = (IF received = Wrap - 1 THEN 0 ELSE received + 1) /\ received' \in RxNumbers
    BY <1>1, <1>2, RxNumber, Zenon
  <2>2. Waiting' = IF received' >= handled THEN received' - handled ELSE received' - handled + Wrap
    BY <1>1, <1>2, <2>1, RxBetween, Zenon DEF Waiting
  <2> QED
    BY <1>1, <1>3, <1>6, <2>1, <2>2 DEF RxNumbers
<1>8. RxAhead(rdh, p) = Waiting /\ received = (handled + Waiting) % Wrap
  <2>1. RxAhead(rdh, p) = IF rdh >= p THEN rdh - p ELSE rdh - p + NUM_RX
    BY <1>1, <1>4, RxAheadOf, Zenon
  <2>2. RxAhead(rdh, p) = Waiting
    BY <1>1, <1>4, <2>1 DEF RxIdx
  <2>3. Waiting \in 0 .. NUM_RX
    BY <1>1
  <2>4. (handled + Waiting) % Wrap = IF handled + Waiting < Wrap THEN handled + Waiting ELSE handled + Waiting - Wrap
    BY <1>1, <2>3, RxNumbersArith, Zenon
  <2> QED
    BY <1>1, <1>3, <2>2, <2>4 DEF RxNumbers
<1>9. RxTypes'
  BY <1>2, <1>7, Zenon DEF RxInv, RxTypes
<1>10. RxPtrs'
  <2>1. Waiting \in 0 .. NUM_RX /\ Waiting + 1 \in 0 .. NUM_RX /\ 1 \in 0 .. NUM_RX
    BY <1>1
  <2>2. At(rdh + 1) = IF rdh + 1 < NUM_RX THEN rdh + 1 ELSE rdh + 1 - NUM_RX
    BY <1>4, <2>1, RxNear, Zenon
  <2>3. At(p + (Waiting + 1)) = IF p + (Waiting + 1) < NUM_RX THEN p + (Waiting + 1) ELSE p + (Waiting + 1) - NUM_RX
    BY <1>1, <2>1, RxNear, Zenon
  <2>4. At(rdh + 1) = At(p + (Waiting + 1))
    BY <1>1, <1>4, <2>2, <2>3 DEF RxIdx
  <2> QED
    BY <1>1, <1>2, <1>6, <1>7, <2>4 DEF RxInv, RxPtrs
<1>11. RxDescs'
  <2>1. rx_desc' \in [RxIdx -> [dd : BOOLEAN, pkt : RxNumbers]]
    BY <1>1, <1>2, Zenon DEF RxInv, RxDescs
  <2>2. ASSUME NEW s \in RxIdx, s # rdh
        PROVE  RxAhead(s, p) \in Nat /\ RxAhead(s, p) # Waiting
    <3>1. RxAhead(s, p) = (IF s >= p THEN s - p ELSE s - p + NUM_RX) /\ RxAhead(s, p) \in RxIdx
      BY <1>1, RxAheadOf, Zenon
    <3> QED
      BY <1>1, <1>4, <2>2, <3>1 DEF RxIdx
  <2>3. ASSUME NEW s \in RxIdx
        PROVE  IF RxAhead(s, p) < Waiting + 1
               THEN rx_desc'[s].dd /\ rx_desc'[s].pkt = (handled + RxAhead(s, p)) % Wrap
               ELSE ~rx_desc'[s].dd
    <3>1. CASE s = rdh
      BY <1>1, <1>2, <1>8, <3>1 DEF RxInv, RxDescs
    <3>2. CASE s # rdh
      <4>1. RxAhead(s, p) \in Nat /\ RxAhead(s, p) # Waiting /\ rx_desc'[s] = rx_desc[s]
        BY <1>2, <2>2, <3>2, Zenon DEF RxInv, RxDescs
      <4>2. (RxAhead(s, p) < Waiting + 1) <=> (RxAhead(s, p) < Waiting)
        BY <1>1, <4>1
      <4> QED
        BY <4>1, <4>2, Zenon DEF RxInv, RxDescs
    <3> QED
      BY <3>1, <3>2, Zenon
  <2> QED
    BY <1>2, <1>7, <2>1, <2>3, Zenon DEF RxDescs
<1>12. RxLooked'
  <2>1. rx.nb_dd \in Nat /\ rx.j \in Nat
    BY Zenon DEF RxInv, RxTypes
  <2> QED
    BY <1>1, <1>2, <1>7, <2>1 DEF RxInv, RxLooked
<1> QED
  BY <1>9, <1>10, <1>11, <1>12, Zenon DEF RxInv

\* The handler moves on without touching the ring.
LEMMA RxMoves ==
    ASSUME RxInv, UNCHANGED <<rx_desc, rx_tail, rdh, rdt, received, handled>>,
           rx' \in [pc : RxPc, base : RxIdx, i : Nat, j : Nat, nb_dd : Nat, nb_rx : Nat],
           Taken' = Taken, RxLooked'
    PROVE  RxInv'
<1>1. Waiting' = Waiting
  BY Zenon DEF Waiting
<1>2. RxTypes'
  BY Zenon DEF RxInv, RxTypes
<1>3. RxPtrs'
  BY <1>1, Zenon DEF RxInv, RxPtrs
<1>4. RxDescs'
  BY <1>1, Zenon DEF RxInv, RxDescs
<1> QED
  BY <1>2, <1>3, <1>4, Zenon DEF RxInv

\* A round starts at the packet handled next.
LEMMA RxChecks == ASSUME RxInv, Rx_check PROVE RxInv'
<1>1. /\ NUM_RX \in Nat \ {0, 1} /\ LOOK_AHEAD \in Nat \ {0} /\ handled \in RxNumbers /\ At(handled) \in RxIdx
      /\ rx \in [pc : RxPc, base : RxIdx, i : Nat, j : Nat, nb_dd : Nat, nb_rx : Nat]
  BY RxSizes, RxNumber, Zenon DEF RxInv, RxTypes
<1>2. rx_tail = At(handled)
  BY RxInvInOrder, Zenon DEF Rx_check, RxInOrder
<1>3. 0 \in RxIdx
  BY <1>1 DEF RxIdx
<1>4. UNCHANGED <<rx_desc, rx_tail, rdh, rdt, received, handled>>
  BY Zenon DEF Rx_check, rxRegs
<1>5. CASE rx' = [RxIdle EXCEPT !.pc = "read", !.base = rx_tail, !.j = LOOK_AHEAD - 1]
  <2>1. rx' = [pc |-> "read", base |-> At(handled), i |-> 0, j |-> LOOK_AHEAD - 1, nb_dd |-> 0, nb_rx |-> 0]
    BY <1>2, <1>5, Zenon DEF RxIdle
  <2>2. Taken' = Taken
    <3>1. rx.pc = "check"
      BY Zenon DEF Rx_check
    <3>2. rx'.pc = "read" /\ rx'.nb_rx = 0
      BY <2>1, Zenon
    <3> QED
      BY <3>1, <3>2, Zenon DEF Taken
  <2>3. RxLooked'
    BY <1>1, <1>4, <2>1 DEF RxLooked
  <2> QED
    BY <1>1, <1>4, <2>1, <2>2, <2>3, RxMoves DEF RxPc
<1>6. CASE rx' = [RxIdle EXCEPT !.pc = "unmask"]
  <2>1. rx' = [pc |-> "unmask", base |-> 0, i |-> 0, j |-> 0, nb_dd |-> 0, nb_rx |-> 0]
    BY <1>6, Zenon DEF RxIdle
  <2>2. Taken' = Taken
    <3>1. rx.pc = "check"
      BY Zenon DEF Rx_check
    <3>2. rx'.pc = "unmask"
      BY <2>1, Zenon
    <3> QED
      BY <3>1, <3>2, Zenon DEF Taken
  <2>3. RxLooked'
    BY <2>1, Zenon DEF RxLooked
  <2> QED
    BY <1>3, <1>4, <2>1, <2>2, <2>3, RxMoves, Zenon DEF RxPc
<1> QED
  BY <1>5, <1>6, Zenon DEF Rx_check

\* The statuses read so far are those of packets that lie in a row behind the one at hand.
LEMMA RxReads == ASSUME RxInv, Rx_read PROVE RxInv'
<1> DEFINE p == At(handled)
           s == At(rx.base + rx.j)
           nb_dd == IF rx_desc[s].dd THEN rx.nb_dd + 1 ELSE rx.nb_dd
<1>1. /\ NUM_RX \in Nat \ {0, 1} /\ LOOK_AHEAD \in Nat /\ LOOK_AHEAD < NUM_RX /\ p \in RxIdx
      /\ rx \in [pc : RxPc, base : RxIdx, i : Nat, j : Nat, nb_dd : Nat, nb_rx : Nat]
      /\ Waiting \in Nat
  BY RxSizes, RxNumber, Zenon DEF RxInv, RxTypes, RxPtrs
<1>2. /\ rx.pc = "read" /\ rx.base = p /\ rx.j < LOOK_AHEAD
      /\ rx.nb_dd > 0 => rx.j + rx.nb_dd < Waiting
      /\ rx.j \in Nat /\ rx.nb_dd \in Nat /\ rx.nb_rx \in Nat
  BY <1>1, Zenon DEF Rx_read, RxInv, RxLooked
<1>3. s \in RxIdx /\ RxAhead(s, p) = rx.j
  <2>1. rx.j \in 0 .. NUM_RX
    BY <1>1, <1>2
  <2>2. s = (IF p + rx.j < NUM_RX THEN p + rx.j ELSE p + rx.j - NUM_RX) /\ s \in RxIdx
    <3>1. s = At(p + rx.j)
      BY <1>2, Zenon
    <3> HIDE DEF s
    <3> QED
      BY <1>1, <2>1, <3>1, RxNear, Zenon
  <2>3. RxAhead(s, p) = IF s >= p THEN s - p ELSE s - p + NUM_RX
    BY <1>1, <2>2, RxAheadOf, Zenon
  <2> QED
    BY <1>1, <1>2, <2>2, <2>3 DEF RxIdx
<1>4. rx_desc[s].dd <=> rx.j < Waiting
  BY <1>1, <1>3, Zenon DEF RxInv, RxDescs
<1>5. nb_dd \in Nat /\ (nb_dd > 0 => rx.j + nb_dd <= Waiting)
  BY <1>1, <1>2, <1>4
<1>6. UNCHANGED <<rx_desc, rx_tail, rdh, rdt, received, handled>>
  BY Zenon DEF Rx_read, rxRegs
<1>7. Waiting' = Waiting
  BY <1>6, Zenon DEF Waiting
<1> HIDE DEF nb_dd
<1>8. CASE rx.j > 0
  <2>1. rx' = [rx EXCEPT !.nb_dd = nb_dd, !.j = @ - 1]
    BY <1>8, Zenon DEF Rx_read, nb_dd
  <2>2. rx.j - 1 \in Nat
    BY <1>2, <1>8
  <2>3. /\ rx' \in [pc : RxPc, base : RxIdx, i : Nat, j : Nat, nb_dd : Nat, nb_rx : Nat]
        /\ rx'.pc = "read" /\ rx'.base = p /\ rx'.j = rx.j - 1 /\ rx'.nb_dd = nb_dd /\ rx'.nb_rx = rx.nb_rx
    BY <1>1, <1>2, <1>5, <2>1, <2>2, Zenon
  <2>4. Taken' = Taken
    BY <1>2, <2>3, Zenon DEF Taken
  <2>5. RxLooked'
    BY <1>1, <1>2, <1>5, <1>6, <1>7, <2>3 DEF RxLooked
  <2> QED
    BY <1>6, <2>3, <2>4, <2>5, RxMoves, Zenon
<1>9. CASE ~(rx.j > 0)
  <2>1. rx' = [rx EXCEPT !.pc = "take", !.nb_dd = nb_dd, !.j = 0, !.nb_rx = @ + nb_dd]
    BY <1>9, Zenon DEF Rx_read, nb_dd
  <2>2. rx.nb_rx + nb_dd \in Nat /\ rx.j = 0
    BY <1>2, <1>5, <1>9
  <2>3. /\ rx' \in [pc : RxPc, base : RxIdx, i : Nat, j : Nat, nb_dd : Nat, nb_rx : Nat]
        /\ rx'.pc = "take" /\ rx'.base = p /\ rx'.j = 0 /\ rx'.nb_dd = nb_dd /\ rx'.nb_rx = rx.nb_rx + nb_dd
    BY <1>1, <1>2, <1>5, <2>1, <2>2, Zenon DEF RxPc
  <2>4. Taken' = Taken
    BY <1>2, <1>5, <2>3 DEF Taken
  <2>5. At(p + 0) = p
    <3>1. \A k \in RxIdx : At(k + 0) = k
      BY <1>1 DEF RxIdx, At
    <3> QED
      BY <1>1, <3>1, Zenon
  <2>6. RxLooked'
    BY <1>1, <1>2, <1>5, <1>6, <1>7, <2>2, <2>3, <2>5 DEF RxLooked
  <2> QED
    BY <1>6, <2>3, <2>4, <2>6, RxMoves, Zenon
<1> QED
  BY <1>8, <1>9, Zenon

\* The next group starts where a full one ended.
LEMMA RxGroups == ASSUME RxInv, Rx_group PROVE RxInv'
<1>1. /\ NUM_RX \in Nat \ {0, 1} /\ LOOK_AHEAD \in Nat \ {0} /\ At(handled) \in RxIdx
      /\ rx \in [pc : RxPc, base : RxIdx, i : Nat, j : Nat, nb_dd : Nat, nb_rx : Nat]
  BY RxSizes, RxNumber, Zenon DEF RxInv, RxTypes
<1>2. /\ rx.pc = "take" /\ rx.j = rx.nb_dd /\ At(rx.base + rx.j) = At(handled)
      /\ rx.i \in Nat /\ rx.nb_rx \in Nat /\ rx.nb_dd \in Nat
  BY <1>1, Zenon DEF Rx_group, RxInv, RxLooked
<1>3. UNCHANGED <<rx_desc, rx_tail, rdh, rdt, received, handled>>
  BY Zenon DEF Rx_group, rxRegs
<1>4. CASE rx' = [rx EXCEPT !.pc = "tail"]
  <2>1. /\ rx' \in [pc : RxPc, base : RxIdx, i : Nat, j : Nat, nb_dd : Nat, nb_rx : Nat]
        /\ rx'.pc = "tail" /\ rx'.nb_rx = rx.nb_rx
    BY <1>1, <1>4, Zenon DEF RxPc
  <2>2. Taken' = Taken
    BY <1>2, <2>1 DEF Taken
  <2>3. RxLooked'
    BY <2>1, Zenon DEF RxLooked
  <2> QED
    BY <1>3, <2>1, <2>2, <2>3, RxMoves, Zenon
<1>5. CASE /\ rx.j = LOOK_AHEAD
           /\ rx' = [rx EXCEPT !.pc = "read", !.base = At(@ + LOOK_AHEAD), !.i = @ + LOOK_AHEAD,
                               !.j = LOOK_AHEAD - 1, !.nb_dd = 0]
  <2>1. rx.i + LOOK_AHEAD \in Nat /\ LOOK_AHEAD - 1 \in Nat /\ At(rx.base + LOOK_AHEAD) = At(handled)
    BY <1>1, <1>2, <1>5
  <2>2. /\ rx' \in [pc : RxPc, base : RxIdx, i : Nat, j : Nat, nb_dd : Nat, nb_rx : Nat]
        /\ rx'.pc = "read" /\ rx'.base = At(handled) /\ rx'.j = LOOK_AHEAD - 1 /\ rx'.nb_dd = 0
        /\ rx'.nb_rx = rx.nb_rx
    <3>1. rx' = [rx EXCEPT !.pc = "read", !.base = At(handled), !.i = rx.i + LOOK_AHEAD,
                           !.j = LOOK_AHEAD - 1, !.nb_dd = 0]
      BY <1>1, <1>5, <2>1, Zenon
    <3> QED
      BY <1>1, <2>1, <3>1, Zenon DEF RxPc
  <2>3. Taken' = Taken
    BY <1>2, <2>2 DEF Taken
  <2>4. RxLooked'
    BY <1>1, <1>3, <2>2 DEF RxLooked
  <2> QED
    BY <1>3, <2>2, <2>3, <2>4, RxMoves, Zenon
<1> QED
  BY <1>4, <1>5, Zenon DEF Rx_group

\* The packet taken is the one handled next, and its descriptor is cleared.
LEMMA RxTakes == ASSUME RxInv, Rx_packet PROVE RxInv'
<1> DEFINE p == At(handled)
<1>1. /\ NUM_RX \in Nat \ {0, 1} /\ Wrap = 2 * NUM_RX
      /\ handled \in RxNumbers /\ received \in RxNumbers /\ p \in RxIdx
      /\ rx \in [pc : RxPc, base : RxIdx, i : Nat, j : Nat, nb_dd : Nat, nb_rx : Nat]
      /\ Waiting \in Nat /\ Taken \in Nat /\ Waiting + Taken < NUM_RX
  BY RxSizes, RxNumber, Zenon DEF RxInv, RxTypes, RxPtrs
<1>2. /\ rx.pc = "take" /\ rx.j < rx.nb_dd /\ rx.nb_dd <= rx.nb_rx /\ rx.nb_dd - rx.j <= Waiting
      /\ At(rx.base + rx.j) = p
      /\ rx.j \in Nat /\ rx.nb_dd \in Nat /\ rx.nb_rx \in Nat /\ rx.base \in RxIdx
  BY <1>1, Zenon DEF Rx_packet, RxInv, RxLooked
<1>3. /\ received' = received /\ rx_tail' = rx_tail /\ rdh' = rdh /\ rdt' = rdt
      /\ handled' = (handled + 1) % Wrap
      /\ rx' = [rx EXCEPT !.j = @ + 1]
      /\ rx_desc' = [rx_desc EXCEPT ![p] = [dd |-> FALSE, pkt |-> 0]]
  BY <1>2, Zenon DEF Rx_packet, reset_rx_desc, rxRegs
<1>4. /\ rx' \in [pc : RxPc, base : RxIdx, i : Nat, j : Nat, nb_dd : Nat, nb_rx : Nat]
      /\ rx'.pc = "take" /\ rx'.base = rx.base /\ rx'.j = rx.j + 1
      /\ rx'.nb_dd = rx.nb_dd /\ rx'.nb_rx = rx.nb_rx
  <2>1. rx.j + 1 \in Nat
    BY <1>2
  <2> QED
    BY <1>1, <1>2, <1>3, <2>1, Zenon
<1>5. Taken = rx.nb_rx - rx.nb_dd + rx.j /\ Taken' = Taken + 1 /\ Waiting > 0
  BY <1>1, <1>2, <1>4 DEF Taken
<1>6. /\ handled' = (IF handled = Wrap - 1 THEN 0 ELSE handled + 1) /\ handled' \in RxNumbers
      /\ p' = (IF p + 1 < NUM_RX THEN p + 1 ELSE p + 1 - NUM_RX) /\ p' \in RxIdx
  <2>1. handled' = (IF handled = Wrap - 1 THEN 0 ELSE handled + 1) /\ handled' \in RxNumbers
    BY <1>1, <1>3, RxNumber, Zenon
  <2>2. 1 \in 0 .. NUM_RX
    BY <1>1
  <2>3. p' = At(p + 1)
    BY <1>1, <1>3, <2>2, RxNumbersArith, Zenon
  <2> QED
    BY <1>1, <2>1, <2>2, <2>3, RxNear, Zenon
<1>7. Waiting' = Waiting - 1
  <2>1. Waiting = IF received >= handled THEN received - handled ELSE received - handled + Wrap
    BY <1>1, RxBetween, Zenon DEF Waiting
  <2>2. Waiting' = IF received >= handled' THEN received - handled' ELSE received - handled' + Wrap
    BY <1>1, <1>3, <1>6, RxBetween, Zenon DEF Waiting
  <2> QED
    BY <1>1, <1>5, <1>6, <2>1, <2>2 DEF RxNumbers
<1> HIDE DEF p
<1>8. RxTypes'
  BY <1>1, <1>3, <1>4, <1>6, Zenon DEF RxTypes
<1>9. RxPtrs'
  <2>1. Waiting \in 0 .. NUM_RX /\ Waiting - 1 \in 0 .. NUM_RX /\ Taken \in 0 .. NUM_RX /\ Taken + 1 \in 0 .. NUM_RX
    BY <1>1, <1>5
  <2>2. /\ At(p + Waiting) = (IF p + Waiting < NUM_RX THEN p + Waiting ELSE p + Waiting - NUM_RX)
        /\ At(p' + (Waiting - 1)) = (IF p' + (Waiting - 1) < NUM_RX THEN p' + (Waiting - 1)
                                     ELSE p' + (Waiting - 1) - NUM_RX)
    <3>1. At(p + Waiting) = IF p + Waiting < NUM_RX THEN p + Waiting ELSE p + Waiting - NUM_RX
      BY <1>1, <2>1, RxNear, Zenon
    <3>2. \A w \in 0 .. NUM_RX : At(p' + w) = IF p' + w < NUM_RX THEN p' + w ELSE p' + w - NUM_RX
      BY <1>6, RxNear, Zenon
    <3> QED
      BY <2>1, <3>1, <3>2, Zenon
  <2>3. At(p' + (Waiting - 1)) = At(p + Waiting)
    BY <1>1, <1>5, <1>6, <2>2 DEF RxIdx
  <2>4. /\ At(p - Taken) = (IF p >= Taken THEN p - Taken ELSE p - Taken + NUM_RX)
        /\ At(p' - (Taken + 1)) = (IF p' >= Taken + 1 THEN p' - (Taken + 1) ELSE p' - (Taken + 1) + NUM_RX)
    <3>1. At(p - Taken) = IF p >= Taken THEN p - Taken ELSE p - Taken + NUM_RX
      BY <1>1, <2>1, RxNear, Zenon
    <3>2. At(p' - (Taken + 1)) = IF p' >= Taken + 1 THEN p' - (Taken + 1) ELSE p' - (Taken + 1) + NUM_RX
      BY <1>6, <2>1, RxNear, Zenon
    <3> QED
      BY <3>1, <3>2, Zenon
  <2>5. At(p' - (Taken + 1)) = At(p - Taken)
    BY <1>1, <1>5, <1>6, <2>4 DEF RxIdx
  <2>6. (Taken + 1) \in Nat /\ (Waiting - 1) \in Nat /\ (Waiting - 1) + (Taken + 1) < NUM_RX
    BY <1>1, <1>5
  <2> QED
    BY <1>3, <1>5, <1>7, <2>3, <2>5, <2>6, Zenon DEF RxInv, RxPtrs, p
<1>10. RxDescs'
  <2>1. rx_desc' \in [RxIdx -> [dd : BOOLEAN, pkt : RxNumbers]]
    <3>1. 0 \in RxNumbers
      BY <1>1 DEF RxNumbers
    <3> QED
      BY <1>1, <1>3, <3>1, Zenon DEF RxInv, RxDescs
  <2>2. ASSUME NEW s \in RxIdx
        PROVE  IF RxAhead(s, p') < Waiting - 1
               THEN rx_desc'[s].dd /\ rx_desc'[s].pkt = (handled' + RxAhead(s, p')) % Wrap
               ELSE ~rx_desc'[s].dd
    <3>1. /\ RxAhead(s, p) = (IF s >= p THEN s - p ELSE s - p + NUM_RX) /\ RxAhead(s, p) \in RxIdx
          /\ RxAhead(s, p') = (IF s >= p' THEN s - p' ELSE s - p' + NUM_RX) /\ RxAhead(s, p') \in RxIdx
      BY <1>1, <1>6, RxAheadOf, Zenon
    <3>2. CASE s = p
      <4>1. RxAhead(s, p') = NUM_RX - 1
        BY <1>1, <1>6, <3>1, <3>2 DEF RxIdx
      <4>2. ~(RxAhead(s, p') < Waiting - 1)
        BY <1>1, <1>5, <4>1
      <4>3. ~rx_desc'[s].dd
        BY <1>1, <1>3, <3>2, Zenon DEF RxInv, RxDescs
      <4> QED
        BY <4>2, <4>3, Zenon
    <3>3. CASE s # p
      <4>1. RxAhead(s, p') = RxAhead(s, p) - 1 /\ RxAhead(s, p) > 0
        BY <1>1, <1>6, <3>1, <3>3 DEF RxIdx
      <4>2. (RxAhead(s, p') < Waiting - 1) <=> (RxAhead(s, p) < Waiting)
        BY <1>1, <3>1, <4>1 DEF RxIdx
      <4>3. (handled' + RxAhead(s, p')) % Wrap = (handled + RxAhead(s, p)) % Wrap
        <5>1. RxAhead(s, p) \in 0 .. NUM_RX /\ RxAhead(s, p') \in 0 .. NUM_RX
          BY <1>1, <3>1 DEF RxIdx
        <5>2. /\ (handled + RxAhead(s, p)) % Wrap
                    = (IF handled + RxAhead(s, p) < Wrap THEN handled + RxAhead(s, p)
                       ELSE handled + RxAhead(s, p) - Wrap)
              /\ (handled' + RxAhead(s, p')) % Wrap
                    = (IF handled' + RxAhead(s, p') < Wrap THEN handled' + RxAhead(s, p')
                       ELSE handled' + RxAhead(s, p') - Wrap)
          BY <1>1, <1>6, <5>1, RxNumbersArith, Zenon
        <5> QED
          BY <1>1, <1>6, <4>1, <5>1, <5>2 DEF RxNumbers
      <4>4. rx_desc'[s] = rx_desc[s]
        BY <1>3, <3>3, Zenon DEF RxInv, RxDescs
      <4>5. IF RxAhead(s, p) < Waiting
            THEN rx_desc[s].dd /\ rx_desc[s].pkt = (handled + RxAhead(s, p)) % Wrap
            ELSE ~rx_desc[s].dd
        BY Zenon DEF RxInv, RxDescs, p
      <4> QED
        BY <4>2, <4>3, <4>4, <4>5, Zenon
    <3> QED
      BY <3>2, <3>3, Zenon
  <2> QED
    BY <1>7, <2>1, <2>2, Zenon DEF RxDescs, p
<1>11. RxLooked'
  <2>1. rx.j \in 0 .. NUM_RX /\ rx.j + 1 \in 0 .. NUM_RX
    BY <1>1, <1>2, <1>5
  <2>2. /\ p = (IF rx.base + rx.j < NUM_RX THEN rx.base + rx.j ELSE rx.base + rx.j - NUM_RX)
        /\ At(rx.base + (rx.j + 1)) = (IF rx.base + (rx.j + 1) < NUM_RX THEN rx.base + (rx.j + 1)
                                       ELSE rx.base + (rx.j + 1) - NUM_RX)
    BY <1>2, <2>1, RxNear, Zenon
  <2>3. At(rx.base + (rx.j + 1)) = p'
    BY <1>1, <1>2, <1>6, <2>1, <2>2 DEF RxIdx
  <2>4. rx.j + 1 <= rx.nb_dd /\ rx.nb_dd - (rx.j + 1) <= Waiting - 1
    BY <1>1, <1>2
  <2> QED
    BY <1>2, <1>4, <1>7, <2>3, <2>4, Zenon DEF RxLooked, p
<1> QED
  BY <1>8, <1>9, <1>10, <1>11, Zenon DEF RxInv

\* The descriptors taken go back to the card.
LEMMA RxGivesBack == ASSUME RxInv, Rx_tail PROVE RxInv'
<1> DEFINE p == At(handled)
<1>1. /\ NUM_RX \in Nat \ {0, 1} /\ handled \in RxNumbers /\ p \in RxIdx
      /\ rx \in [pc : RxPc, base : RxIdx, i : Nat, j : Nat, nb_dd : Nat, nb_rx : Nat]
      /\ Waiting \in Nat /\ Taken \in Nat /\ Waiting + Taken < NUM_RX
  BY RxSizes, RxNumber, Zenon DEF RxInv, RxTypes, RxPtrs
<1>2. /\ rx.pc = "tail" /\ rdt' = At(rx_tail + rx.nb_rx - 1) /\ rx_tail' = At(rx_tail + rx.nb_rx)
      /\ rx' = [rx EXCEPT !.pc = "check"]
      /\ UNCHANGED <<rx_desc, rdh, received, handled>>
  BY Zenon DEF Rx_tail
<1>3. /\ rx' \in [pc : RxPc, base : RxIdx, i : Nat, j : Nat, nb_dd : Nat, nb_rx : Nat]
      /\ rx'.pc = "check"
  BY <1>1, <1>2, Zenon DEF RxPc
<1>4. Taken = rx.nb_rx /\ Taken' = 0 /\ Waiting' = Waiting
  BY <1>2, <1>3, Zenon DEF Taken, Waiting
<1>5. rx_tail = (IF p >= Taken THEN p - Taken ELSE p - Taken + NUM_RX) /\ rx_tail \in RxIdx
  <2>1. Taken \in 0 .. NUM_RX
    BY <1>1
  <2> QED
    BY <1>1, <2>1, RxNear, Zenon DEF RxInv, RxPtrs
<1> HIDE DEF p
<1>6. rx_tail' = p
  <2>1. Taken \in 0 .. NUM_RX
    BY <1>1
  <2>2. At(rx_tail + Taken) = IF rx_tail + Taken < NUM_RX THEN rx_tail + Taken ELSE rx_tail + Taken - NUM_RX
    BY <1>5, <2>1, RxNear, Zenon
  <2> QED
    BY <1>1, <1>2, <1>4, <1>5, <2>2 DEF RxIdx
<1>7. At(p - 0) = p
  BY <1>1 DEF RxIdx, At
<1>8. At(rx_tail + Taken - 1) = At(p - 1)
  <2>1. \A t, k \in RxIdx : t = (IF p >= k THEN p - k ELSE p - k + NUM_RX) => At(t + k - 1) = At(p - 1)
    BY <1>1 DEF RxIdx, At
  <2>2. Taken \in RxIdx
    BY <1>1 DEF RxIdx
  <2> QED
    BY <1>5, <2>1, <2>2, Zenon
<1>9. RxTypes'
  BY <1>2, <1>3, Zenon DEF RxInv, RxTypes
<1>10. RxPtrs'
  BY <1>1, <1>2, <1>4, <1>6, <1>7, <1>8 DEF RxInv, RxPtrs, p
<1>11. RxDescs'
  BY <1>2, <1>4, Zenon DEF RxInv, RxDescs
<1>12. RxLooked'
  BY <1>3, Zenon DEF RxLooked
<1> QED
  BY <1>9, <1>10, <1>11, <1>12, Zenon DEF RxInv

\* Every step of the receive queue keeps the invariant.
LEMMA RxStep == ASSUME RxInv, RxNext PROVE RxInv'
<1>1. /\ rx \in [pc : RxPc, base : RxIdx, i : Nat, j : Nat, nb_dd : Nat, nb_rx : Nat]
      /\ 0 \in RxIdx
  BY RxSizes DEF RxInv, RxTypes, RxIdx
<1>2. CASE Rx_enter
  <2>1. rx.pc = "wait" /\ rx' = [rx EXCEPT !.pc = "check"]
        /\ UNCHANGED <<rx_desc, rx_tail, rdh, rdt, received, handled>>
    BY <1>2, Zenon DEF Rx_enter
  <2>2. /\ rx' \in [pc : RxPc, base : RxIdx, i : Nat, j : Nat, nb_dd : Nat, nb_rx : Nat]
        /\ rx'.pc = "check"
    BY <1>1, <2>1, Zenon DEF RxPc
  <2> QED
    BY <2>1, <2>2, RxMoves, Zenon DEF Taken, RxLooked
<1>3. CASE Rx_unmask
  <2>1. rx.pc = "unmask" /\ rx' = RxIdle
        /\ UNCHANGED <<rx_desc, rx_tail, rdh, rdt, received, handled>>
    BY <1>3, Zenon DEF Rx_unmask
  <2>2. /\ rx' \in [pc : RxPc, base : RxIdx, i : Nat, j : Nat, nb_dd : Nat, nb_rx : Nat]
        /\ rx'.pc = "wait"
    BY <1>1, <2>1, Zenon DEF RxPc, RxIdle
  <2> QED
    BY <2>1, <2>2, RxMoves, Zenon DEF Taken, RxLooked
<1>4. CASE Nic_interrupt
  BY <1>4, RxUnchanged, Zenon DEF Nic_interrupt, rxRing
<1> QED
  BY <1>2, <1>3, <1>4, RxChecks, RxReads, RxTakes, RxGroups, RxGivesBack, RxReceives,
     Zenon DEF RxNext, RxHandler, RxCard

-----------------------------------------------------------------------------
(***************************************************************************)
(* Packet buffers: one is in a receive descriptor, free, with the stack,   *)
(* or in the software ring of a transmit queue, and there once.            *)
(***************************************************************************)
Once(sw) == \A i, j \in TxIds : sw[i] = sw[j] /\ sw[i] # NoBuf => i = j
Bufs(sw) == {sw[i] : i \in TxIds} \ {NoBuf}
Sw(t) == [i \in TxIds |-> t.sw[i].buf]
RxBufs == {rx_buf[i] : i \in RxIdx}
Apart(R, P, K, M, S) ==
    /\ R \cap (P \cup K \cup M \cup S) = {} /\ P \cap (K \cup M \cup S) = {}
    /\ K \cap (M \cup S) = {} /\ M \cap S = {}

AnyBuf == Buffers \cup {NoBuf}
TxDesc == [rs : BOOLEAN, dd : BOOLEAN, buf : AnyBuf]
MultiQueue == [tail : TxIds, nb_tx_free : Int, desc : [TxIds -> TxDesc], tdh : TxIds, tdt : TxIds,
               pc : {"idle", "loop", "end"}, left : Int, id : TxIds, nb_tx_used : Nat,
               last_desc_cleaned : TxIds, sw : [TxIds -> [last_id : TxIds, buf : AnyBuf]]]
Marks == TX_RS_THRESH - 1 .. NUM_TX - 1
\* the tail may stand at the end of the ring while a call is under way
SimpleQueue(Pos) == [tail : Pos, nb_tx_free : Nat, desc : [TxIds -> TxDesc], tdh : TxIds, tdt : TxIds,
                      next_dd : Marks, next_rs : Marks, sw : [TxIds -> AnyBuf]]

BufTypes ==
    /\ rx_buf \in [RxIdx -> Buffers] /\ pool \subseteq Buffers /\ kept \subseteq Buffers
    /\ tx \in MultiQueue /\ sx \in SimpleQueue(TxIds)

BufInv ==
    /\ BufTypes
    /\ \A i, j \in RxIdx : rx_buf[i] = rx_buf[j] => i = j
    /\ Once(Sw(tx)) /\ Once(sx.sw)
    /\ Apart(RxBufs, pool, kept, Bufs(Sw(tx)), Bufs(sx.sw))

LEMMA TxArith ==
    /\ NUM_TX \in Nat \ {0} /\ TX_RS_THRESH \in Nat \ {0} /\ TX_RS_THRESH <= NUM_TX /\ TX_BURST \in Nat
    /\ TX_BURST <= NUM_TX /\ 0 \in TxIds /\ NoBuf \notin Buffers /\ Segments \subseteq Nat
    /\ \A i \in Int : TxAt(i) \in TxIds
    /\ Marks \subseteq TxIds /\ TX_RS_THRESH - 1 \in Marks
    /\ \A i \in Marks : Next_batch(i) \in Marks
<1>1. /\ NUM_TX \in Nat \ {0} /\ TX_RS_THRESH \in Nat \ {0} /\ TX_RS_THRESH <= NUM_TX /\ TX_BURST \in Nat
      /\ TX_BURST <= NUM_TX /\ 0 \in TxIds /\ NoBuf \notin Buffers /\ Segments \subseteq Nat
  BY TxAssumption DEF TxIds
<1>2. \A i \in Int : TxAt(i) \in TxIds
  BY <1>1 DEF TxAt, TxIds
<1>3. Marks \subseteq TxIds /\ TX_RS_THRESH - 1 \in Marks
  BY <1>1 DEF Marks, TxIds
<1>4. \A i \in Marks : Next_batch(i) \in Marks
  BY <1>1 DEF Marks, Next_batch
<1> QED
  BY <1>1, <1>2, <1>3, <1>4, Zenon

LEMMA SpanInRing == ASSUME NEW a \in Int, NEW b \in Int PROVE Span(a, b) \subseteq TxIds
<1>1. (b - a) % NUM_TX \in Int
  BY TxArith
<1>2. ASSUME NEW k \in 1 .. (b - a) % NUM_TX PROVE TxAt(a + k) \in TxIds
  BY <1>1, TxArith
<1> QED
  BY <1>2, Zenon DEF Span

LEMMA BufInvApart == ASSUME BufInv PROVE RxBuffersApart
<1>1. DOMAIN rx_buf = RxIdx
  BY Zenon DEF BufInv, BufTypes
<1>2. RxBufs \cap (pool \cup kept) = {} /\ pool \cap kept = {}
  BY Zenon DEF BufInv, Apart
<1> QED
  BY <1>1, <1>2, Zenon DEF BufInv, RxBuffersApart, RxBufs

LEMMA BufInvInit == ASSUME RxInit, TxInit PROVE BufInv
<1>1. NUM_RX \in Nat \ {0, 1} /\ RxIdx \subseteq Buffers /\ Buffers \subseteq Nat
  BY RxSizes, RxAssumption, Zenon DEF RxIdx
<1>2. rx_buf = [i \in RxIdx |-> i] /\ pool = Buffers \ RxIdx /\ kept = {}
  BY Zenon DEF RxInit, RxIdx
<1>3. NUM_TX - 1 \in TxIds /\ NUM_TX - 1 \in Nat /\ TxIds \subseteq Int
  BY TxArith DEF TxIds
<1>4. [i \in TxIds |-> Desc] \in [TxIds -> TxDesc]
  BY Zenon DEF Desc, TxDesc, AnyBuf
<1>5. tx \in MultiQueue /\ sx \in SimpleQueue(TxIds)
  BY <1>3, <1>4, TxArith, Zenon DEF TxInit, MultiQueue, SimpleQueue, AnyBuf
<1>6. \A i \in TxIds : Sw(tx)[i] = NoBuf /\ sx.sw[i] = NoBuf
  BY Zenon DEF TxInit, Sw
<1>7. Bufs(Sw(tx)) = {} /\ Bufs(sx.sw) = {} /\ Once(Sw(tx)) /\ Once(sx.sw)
  BY <1>6, Zenon DEF Bufs, Once
<1>8. RxBufs = RxIdx
  BY <1>2, Zenon DEF RxBufs
<1>9. Apart(RxBufs, pool, kept, Bufs(Sw(tx)), Bufs(sx.sw))
  BY <1>2, <1>7, <1>8, Zenon DEF Apart
<1> QED
  BY <1>1, <1>2, <1>5, <1>7, <1>9, Zenon DEF BufInv, BufTypes

\* What a clean-up frees was in the software ring and is no longer.
LEMMA CleanupFrees ==
    ASSUME NEW t \in MultiQueue, Once(Sw(t))
    PROVE  /\ xmit_cleanup(t) \in MultiQueue /\ Once(Sw(xmit_cleanup(t)))
           /\ xmit_cleanup(t).tail = t.tail /\ xmit_cleanup(t).id = t.id
           /\ Bufs(Sw(xmit_cleanup(t))) \subseteq Bufs(Sw(t))
           /\ Freed(t) \subseteq Bufs(Sw(t)) /\ Freed(t) \subseteq Buffers
           /\ Bufs(Sw(xmit_cleanup(t))) \cap Freed(t) = {}
<1> DEFINE to == desc_to_clean_to(t)
           batch == Span(t.last_desc_cleaned, to)
           c == xmit_cleanup(t)
<1>1. /\ t.last_desc_cleaned \in TxIds /\ t.nb_tx_free \in Int
      /\ t.sw \in [TxIds -> [last_id : TxIds, buf : AnyBuf]] /\ t.desc \in [TxIds -> TxDesc]
  BY Zenon DEF MultiQueue
<1>2. to \in TxIds
  <2>1. t.last_desc_cleaned + TX_RS_THRESH \in Int
    BY <1>1, TxAssumption DEF TxIds
  <2>2. TxAt(t.last_desc_cleaned + TX_RS_THRESH) \in TxIds
    BY <2>1, TxArith, Zenon
  <2> QED
    BY <1>1, <2>2, Zenon DEF desc_to_clean_to
<1> HIDE DEF to
<1>3. batch \subseteq TxIds /\ t.nb_tx_free + ((to - t.last_desc_cleaned) % NUM_TX) \in Int
  <2>1. to \in Int /\ t.last_desc_cleaned \in Int
    BY <1>1, <1>2 DEF TxIds
  <2>2. NUM_TX \in Nat \ {0}
    BY TxArith, Zenon
  <2> QED
    BY <1>1, <2>1, <2>2, SpanInRing
<1>5. c = [t EXCEPT !.sw = [i \in TxIds |-> IF i \in batch THEN [last_id |-> i, buf |-> NoBuf] ELSE t.sw[i]],
                    !.desc = [t.desc EXCEPT ![to].dd = FALSE],
                    !.last_desc_cleaned = to,
                    !.nb_tx_free = t.nb_tx_free + ((to - t.last_desc_cleaned) % NUM_TX)]
  BY Zenon DEF xmit_cleanup, to, MultiQueue
<1> HIDE DEF c, batch
<1>6. [t.desc EXCEPT ![to].dd = FALSE] \in [TxIds -> TxDesc]
  BY <1>1, <1>2, Zenon DEF TxDesc
<1>7. [i \in TxIds |-> IF i \in batch THEN [last_id |-> i, buf |-> NoBuf] ELSE t.sw[i]]
         \in [TxIds -> [last_id : TxIds, buf : AnyBuf]]
  BY <1>1, Zenon DEF AnyBuf
<1>8. c \in MultiQueue /\ c.tail = t.tail /\ c.id = t.id
  BY <1>2, <1>3, <1>5, <1>6, <1>7, Zenon DEF MultiQueue
<1>9. \A i \in TxIds : Sw(c)[i] = IF i \in batch THEN NoBuf ELSE Sw(t)[i]
  BY <1>5, Zenon DEF Sw, MultiQueue
<1>10. Once(Sw(c)) /\ Bufs(Sw(c)) \subseteq Bufs(Sw(t))
  BY <1>9, Zenon DEF Once, Bufs
<1>11. Freed(t) = {Sw(t)[i] : i \in batch} \ {NoBuf}
  BY <1>3, Zenon DEF Freed, Sw, batch, to
<1>12. \A i \in TxIds : Sw(t)[i] \in AnyBuf
  BY <1>1, Zenon DEF Sw
<1>13. Freed(t) \subseteq Bufs(Sw(t)) /\ Freed(t) \subseteq Buffers
  BY <1>3, <1>11, <1>12, Zenon DEF Bufs, AnyBuf
<1>14. Bufs(Sw(c)) \cap Freed(t) = {}
  BY <1>3, <1>9, <1>11, Zenon DEF Bufs, Once
<1> QED
  BY <1>8, <1>10, <1>13, <1>14, Zenon DEF c

\* A packet's buffer enters the software ring in one entry.
LEMMA PutAdds ==
    ASSUME NEW t \in MultiQueue, Once(Sw(t)), NEW n \in Segments, NEW b \in AnyBuf, b \notin Bufs(Sw(t))
    PROVE  /\ put(t, n, b) \in MultiQueue /\ Once(Sw(put(t, n, b)))
           /\ Bufs(Sw(put(t, n, b))) \subseteq Bufs(Sw(t)) \cup ({b} \ {NoBuf})
<1> DEFINE last == TxAt(t.id + n)
           used == t.nb_tx_used + n + 1
           here == Span(t.id - 1, last)
           first == TxAt(t.id + 1)
           c == put(t, n, b)
           sw == [i \in TxIds |-> IF i \in here THEN [last_id |-> last, buf |-> IF i = first THEN b ELSE t.sw[i].buf]
                                  ELSE t.sw[i]]
           desc == [i \in TxIds |-> IF i \in here THEN [rs |-> i = last /\ RsDue(used),
                                                        dd |-> t.desc[i].dd /\ i \notin {t.id, first},
                                                        buf |-> b]
                                    ELSE t.desc[i]]
<1>1. /\ t.id \in TxIds /\ t.nb_tx_free \in Int /\ t.left \in Int /\ t.nb_tx_used \in Nat /\ n \in Nat
      /\ t.sw \in [TxIds -> [last_id : TxIds, buf : AnyBuf]] /\ t.desc \in [TxIds -> TxDesc]
  BY TxArith, Zenon DEF MultiQueue
<1>2. last \in TxIds /\ used \in Nat /\ TxAt(last + 1) \in TxIds
      /\ t.nb_tx_free - (n + 1) \in Int /\ t.left - 1 \in Int
  <2>1. t.id + n \in Int /\ \A i \in TxIds : i + 1 \in Int
    BY <1>1 DEF TxIds
  <2>2. last \in TxIds
    BY <2>1, TxArith, Zenon
  <2> HIDE DEF last
  <2>3. TxAt(last + 1) \in TxIds
    BY <2>1, <2>2, TxArith, Zenon
  <2> QED
    BY <1>1, <2>2, <2>3
<1>3. c = [t EXCEPT !.sw = sw, !.desc = desc, !.nb_tx_used = IF RsDue(used) THEN 0 ELSE used,
                    !.nb_tx_free = t.nb_tx_free - (n + 1), !.id = TxAt(last + 1), !.left = t.left - 1]
  BY Zenon DEF put, MultiQueue
<1> HIDE DEF last, used, here, first, c
<1>4. sw \in [TxIds -> [last_id : TxIds, buf : AnyBuf]]
  BY <1>1, <1>2, Zenon
<1>5. desc \in [TxIds -> TxDesc]
  BY <1>1, Zenon DEF TxDesc, RsDue
<1> HIDE DEF desc
<1>6. (IF RsDue(used) THEN 0 ELSE used) \in Nat
  BY <1>2, Zenon
<1>7. c \in MultiQueue /\ c.sw = sw
  <2> HIDE DEF sw
  <2> QED
    BY <1>2, <1>3, <1>4, <1>5, <1>6, Zenon DEF MultiQueue
<1>8. \A i \in TxIds : Sw(c)[i] = IF i \in here /\ i = first THEN b ELSE Sw(t)[i]
  BY <1>7 DEF Sw
<1>9. Once(Sw(c)) /\ Bufs(Sw(c)) \subseteq Bufs(Sw(t)) \cup ({b} \ {NoBuf})
  BY <1>8, Zenon DEF Once, Bufs
<1> QED
  BY <1>7, <1>9, Zenon DEF c

\* Buffers leave the multi_send ring for the pool, and enter it from the stack.
LEMMA MultiMoves ==
    ASSUME BufInv, tx' \in MultiQueue, Once(Sw(tx')), UNCHANGED <<rx_buf, sx>>,
           pool' \subseteq pool \cup (Bufs(Sw(tx)) \ Bufs(Sw(tx'))), pool' \subseteq Buffers,
           kept' \subseteq kept, Bufs(Sw(tx')) \ Bufs(Sw(tx)) \subseteq kept \ kept'
    PROVE  BufInv'
<1>1. BufTypes'
  BY Zenon DEF BufInv, BufTypes
<1>2. RxBufs' = RxBufs
  BY Zenon DEF RxBufs
<1>3. Apart(RxBufs, pool', kept', Bufs(Sw(tx')), Bufs(sx.sw))
  BY Zenon DEF BufInv, Apart
<1> QED
  BY <1>1, <1>2, <1>3, Zenon DEF BufInv

LEMMA SimpleMoves ==
    ASSUME BufInv, sx' \in SimpleQueue(TxIds), Once(sx'.sw), UNCHANGED <<rx_buf, tx>>,
           pool' \subseteq pool \cup (Bufs(sx.sw) \ Bufs(sx'.sw)), pool' \subseteq Buffers,
           kept' \subseteq kept, Bufs(sx'.sw) \ Bufs(sx.sw) \subseteq kept \ kept'
    PROVE  BufInv'
<1>1. BufTypes'
  BY Zenon DEF BufInv, BufTypes
<1>2. RxBufs' = RxBufs
  BY Zenon DEF RxBufs
<1>3. Apart(RxBufs, pool', kept', Bufs(Sw(tx)), Bufs(sx'.sw))
  BY Zenon DEF BufInv, Apart
<1> QED
  BY <1>1, <1>2, <1>3, Zenon DEF BufInv

\* The receive queue swaps a buffer for a free one, or the stack takes a free one.
LEMMA BufReceive == ASSUME BufInv, RxInv, RxNext \/ Stack_alloc, UNCHANGED txVars PROVE BufInv'
<1>1. UNCHANGED <<tx, sx>>
  BY Zenon DEF txVars
<1>2. CASE UNCHANGED <<rx_buf, pool, kept>>
  BY <1>1, <1>2 DEF BufInv, BufTypes, RxBufs, Apart
<1>3. CASE Stack_alloc
  <2>1. PICK b \in pool : pool' = pool \ {b} /\ kept' = kept \cup {b}
    BY <1>3, Zenon DEF Stack_alloc
  <2>2. rx_buf' = rx_buf /\ RxBufs' = RxBufs
    BY <1>3, Zenon DEF Stack_alloc, RxBufs
  <2>3. BufTypes'
    BY <1>1, <2>1, <2>2, Zenon DEF BufInv, BufTypes
  <2>4. Apart(RxBufs, pool', kept', Bufs(Sw(tx)), Bufs(sx.sw))
    BY <2>1 DEF BufInv, Apart
  <2> QED
    BY <1>1, <2>2, <2>3, <2>4, Zenon DEF BufInv
<1>4. CASE Rx_packet /\ ~UNCHANGED <<rx_buf, pool, kept>>
  <2> DEFINE i == At(handled)
  <2>1. At(rx.base + rx.j) = i /\ i \in RxIdx
    BY <1>4, RxNumber, Zenon DEF Rx_packet, RxInv, RxLooked, RxTypes
  <2> HIDE DEF i
  <2>2. PICK b \in pool : /\ rx_buf' = [rx_buf EXCEPT ![i] = b]
                          /\ pool' = pool \ {b} /\ kept' = kept \cup {rx_buf[i]}
    BY <1>4, <2>1, Zenon DEF Rx_packet, reset_rx_desc
  <2>3. rx_buf \in [RxIdx -> Buffers] /\ b \in Buffers
    BY Zenon DEF BufInv, BufTypes
  <2>4. rx_buf' \in [RxIdx -> Buffers] /\ \A k \in RxIdx : rx_buf'[k] = IF k = i THEN b ELSE rx_buf[k]
    BY <2>1, <2>2, <2>3, Zenon
  <2>5. b \notin RxBufs
    BY Zenon DEF BufInv, Apart
  <2>6. \A k \in RxIdx : rx_buf[k] # b
    BY <2>5, Zenon DEF RxBufs
  <2>7. \A j, k \in RxIdx : rx_buf'[j] = rx_buf'[k] => j = k
    BY <2>4, <2>6, Zenon DEF BufInv
  <2>8. RxBufs' = (RxBufs \ {rx_buf[i]}) \cup {b} /\ rx_buf[i] \in RxBufs
    BY <2>1, <2>4 DEF RxBufs, BufInv
  <2>9. Apart(RxBufs', pool', kept', Bufs(Sw(tx)), Bufs(sx.sw))
    BY <2>2, <2>8 DEF BufInv, Apart
  <2>10. BufTypes'
    BY <1>1, <2>1, <2>2, <2>3, <2>4 DEF BufInv, BufTypes
  <2> QED
    BY <1>1, <2>7, <2>9, <2>10, Zenon DEF BufInv
<1> QED
  BY <1>2, <1>3, <1>4, Zenon DEF RxNext, RxHandler, RxCard, Rx_enter, Rx_check,
     Rx_read, Rx_group, Rx_tail, Rx_unmask, Nic_receive, Nic_interrupt

\* multi_send frees what a clean-up found done, and takes a buffer of the stack.
LEMMA BufMulti == ASSUME BufInv, Multi PROVE BufInv'
<1>1. tx \in MultiQueue /\ Once(Sw(tx)) /\ pool \subseteq Buffers /\ kept \subseteq Buffers
  BY Zenon DEF BufInv, BufTypes
<1>2. UNCHANGED <<rx_buf, sx>>
  BY Zenon DEF Multi, Multi_call, Multi_packet, Multi_end
<1>3. CASE Multi_call
  <2>1. PICK n \in 1 .. TX_BURST :
          Cleaned(NUM_TX - tx.nb_tx_free > TX_FREE_THRESH,
                  LAMBDA t : [t EXCEPT !.pc = "loop", !.left = n, !.id = t.tail])
    BY <1>3, Zenon DEF Multi_call
  <2>2. n \in Int
    BY TxArith
  <2>3. ASSUME NEW t \in MultiQueue, Once(Sw(t)), tx' = [t EXCEPT !.pc = "loop", !.left = n, !.id = t.tail]
        PROVE  tx' \in MultiQueue /\ Sw(tx') = Sw(t)
    BY <2>2, <2>3, Zenon DEF MultiQueue, Sw
  <2>4. CASE /\ tx' = [xmit_cleanup(tx) EXCEPT !.pc = "loop", !.left = n, !.id = xmit_cleanup(tx).tail]
             /\ pool' = pool \cup Freed(tx)
    <3>1. tx' \in MultiQueue /\ Sw(tx') = Sw(xmit_cleanup(tx))
      BY <1>1, <2>3, <2>4, CleanupFrees, Zenon
    <3> QED
      BY <1>1, <1>2, <1>3, <2>4, <3>1, CleanupFrees, MultiMoves, Zenon DEF Multi_call
  <2>5. CASE tx' = [tx EXCEPT !.pc = "loop", !.left = n, !.id = tx.tail] /\ pool' = pool
    <3>1. tx' \in MultiQueue /\ Sw(tx') = Sw(tx)
      BY <1>1, <2>3, <2>5, Zenon
    <3> QED
      BY <1>1, <1>2, <1>3, <2>5, <3>1, MultiMoves, Zenon DEF Multi_call
  <2> QED
    BY <2>1, <2>4, <2>5, Zenon DEF Cleaned
<1>4. CASE Multi_end
  <2>1. tx' = [tx EXCEPT !.pc = "idle", !.left = 0, !.tail = tx.id, !.tdt = tx.id]
    BY <1>4, Zenon DEF Multi_end
  <2>2. tx' \in MultiQueue /\ Sw(tx') = Sw(tx)
    <3>1. tx.id \in TxIds /\ 0 \in Int
      BY <1>1 DEF MultiQueue
    <3>2. tx' \in MultiQueue /\ tx'.sw = tx.sw
      BY <1>1, <2>1, <3>1, Zenon DEF MultiQueue
    <3> QED
      BY <3>2, Zenon DEF Sw
  <2> QED
    BY <1>1, <1>2, <1>4, <2>2, MultiMoves, Zenon DEF Multi_end
<1>5. CASE Multi_packet
  <2>1. PICK n \in Segments, b \in {NoBuf} \cup kept :
          \/ tx' = [tx EXCEPT !.pc = "end"] /\ UNCHANGED <<pool, kept>>
          \/ Cleaned(n + 1 > tx.nb_tx_free, LAMBDA t : put(t, n, b)) /\ kept' = kept \ {b}
    BY <1>5, Zenon DEF Multi_packet
  <2>2. b \in AnyBuf /\ b \notin Bufs(Sw(tx))
    BY <1>1, Zenon DEF AnyBuf, BufInv, Apart, Bufs
  <2>3. CASE tx' = [tx EXCEPT !.pc = "end"] /\ UNCHANGED <<pool, kept>>
    <3>1. tx' \in MultiQueue /\ Sw(tx') = Sw(tx)
      BY <1>1, <2>3, Zenon DEF MultiQueue, Sw
    <3> QED
      BY <1>1, <1>2, <2>3, <3>1, MultiMoves, Zenon
  <2>4. CASE tx' = put(xmit_cleanup(tx), n, b) /\ pool' = pool \cup Freed(tx) /\ kept' = kept \ {b}
    <3>1. /\ xmit_cleanup(tx) \in MultiQueue /\ Once(Sw(xmit_cleanup(tx)))
          /\ Bufs(Sw(xmit_cleanup(tx))) \subseteq Bufs(Sw(tx))
          /\ Freed(tx) \subseteq Bufs(Sw(tx)) /\ Freed(tx) \subseteq Buffers
          /\ Bufs(Sw(xmit_cleanup(tx))) \cap Freed(tx) = {}
      BY <1>1, CleanupFrees, Zenon
    <3>2. tx' \in MultiQueue /\ Once(Sw(tx')) /\ Bufs(Sw(tx')) \subseteq Bufs(Sw(xmit_cleanup(tx))) \cup ({b} \ {NoBuf})
      BY <2>2, <2>4, <3>1, PutAdds, Zenon
    <3>3. pool' \subseteq pool \cup (Bufs(Sw(tx)) \ Bufs(Sw(tx'))) /\ pool' \subseteq Buffers
      BY <1>1, <2>2, <2>4, <3>1, <3>2, Zenon
    <3>4. kept' \subseteq kept /\ Bufs(Sw(tx')) \ Bufs(Sw(tx)) \subseteq kept \ kept'
      BY <2>1, <2>4, <3>1, <3>2, Zenon
    <3> QED
      BY <1>2, <3>2, <3>3, <3>4, MultiMoves, Zenon
  <2>5. CASE tx' = put(tx, n, b) /\ pool' = pool /\ kept' = kept \ {b}
    <3>1. tx' \in MultiQueue /\ Once(Sw(tx')) /\ Bufs(Sw(tx')) \subseteq Bufs(Sw(tx)) \cup ({b} \ {NoBuf})
      BY <1>1, <2>2, <2>5, PutAdds, Zenon
    <3>2. kept' \subseteq kept /\ Bufs(Sw(tx')) \ Bufs(Sw(tx)) \subseteq kept \ kept'
      BY <2>1, <2>5, <3>1, Zenon
    <3> QED
      BY <1>1, <1>2, <2>5, <3>1, <3>2, MultiMoves, Zenon
  <2> QED
    BY <2>1, <2>3, <2>4, <2>5, Zenon DEF Cleaned
<1> QED
  BY <1>3, <1>4, <1>5, Zenon DEF Multi

LEMMA BufTransmit == ASSUME BufInv, Nic_transmit PROVE BufInv'
<1>1. tx \in MultiQueue /\ sx \in SimpleQueue(TxIds) /\ Once(Sw(tx)) /\ Once(sx.sw)
  BY Zenon DEF BufInv, BufTypes
<1>2. UNCHANGED <<rx_buf, pool, kept>> /\ pool \subseteq Buffers
  BY Zenon DEF Nic_transmit, rxVars, BufInv, BufTypes
<1>3. \A i \in TxIds : TxAt(i + 1) \in TxIds
  <2>1. \A i \in TxIds : i + 1 \in Int
    BY DEF TxIds
  <2> QED
    BY <2>1, TxArith, Zenon
<1>4. ASSUME NEW d \in [TxIds -> TxDesc], NEW h \in TxIds
      PROVE  [d EXCEPT ![h].dd = @ \/ d[h].rs] \in [TxIds -> TxDesc]
  BY Zenon DEF TxDesc
<1>5. CASE tx' = Transmitted(tx) /\ UNCHANGED sx
  <2>1. tx' \in MultiQueue /\ Sw(tx') = Sw(tx)
    BY <1>1, <1>3, <1>4, <1>5, Zenon DEF Transmitted, MultiQueue, Sw
  <2> QED
    BY <1>1, <1>2, <1>5, <2>1, MultiMoves, Zenon
<1>6. CASE sx' = Transmitted(sx) /\ UNCHANGED tx
  <2>1. sx' \in SimpleQueue(TxIds) /\ sx'.sw = sx.sw
    BY <1>1, <1>3, <1>4, <1>6, Zenon DEF Transmitted, SimpleQueue
  <2> QED
    BY <1>1, <1>2, <1>6, <2>1, SimpleMoves, Zenon
<1> QED
  BY <1>5, <1>6, Zenon DEF Nic_transmit

\* tx_free_bufs: what is freed leaves the software ring.
LEMMA FreeFrees ==
    ASSUME NEW q \in SimpleQueue(TxIds), Once(q.sw)
    PROVE  /\ tx_free_bufs(q) \in SimpleQueue(TxIds) /\ Once(tx_free_bufs(q).sw)
           /\ Bufs(tx_free_bufs(q).sw) \subseteq Bufs(q.sw)
           /\ {q.sw[i] : i \in Batch(q)} \ {NoBuf} \subseteq Bufs(q.sw) \ Bufs(tx_free_bufs(q).sw)
<1>1. q.sw \in [TxIds -> AnyBuf] /\ q.nb_tx_free \in Nat /\ q.next_dd \in Marks
  BY Zenon DEF SimpleQueue
<1>2. Next_batch(q.next_dd) \in Marks /\ q.nb_tx_free + TX_RS_THRESH \in Nat
  BY <1>1, TxArith
<1>3. Batch(q) \subseteq TxIds
  BY <1>1, TxAssumption DEF Batch, Marks, TxIds
<1> DEFINE f == tx_free_bufs(q)
           batch == Batch(q)
           sw == [i \in TxIds |-> IF i \in batch THEN NoBuf ELSE q.sw[i]]
<1>4. f = [q EXCEPT !.sw = sw, !.nb_tx_free = q.nb_tx_free + TX_RS_THRESH, !.next_dd = Next_batch(q.next_dd)]
  BY Zenon DEF tx_free_bufs, SimpleQueue
<1> HIDE DEF f, batch
<1>5. sw \in [TxIds -> AnyBuf]
  BY <1>1, Zenon DEF AnyBuf
<1>6. f \in SimpleQueue(TxIds) /\ f.sw = sw
  <2> HIDE DEF sw
  <2> QED
    BY <1>2, <1>4, <1>5, Zenon DEF SimpleQueue
<1>7. \A i \in TxIds : f.sw[i] = IF i \in batch THEN NoBuf ELSE q.sw[i]
  BY <1>6, Zenon
<1>8. Once(f.sw) /\ Bufs(f.sw) \subseteq Bufs(q.sw)
  BY <1>7, Zenon DEF Once, Bufs
<1>9. {q.sw[i] : i \in batch} \ {NoBuf} \subseteq Bufs(q.sw) \ Bufs(f.sw)
  BY <1>3, <1>7 DEF Once, Bufs, batch
<1> QED
  BY <1>6, <1>8, <1>9, Zenon DEF f, batch

Distinct(bs) == \A i, j \in 1 .. Len(bs) : bs[i] = bs[j] /\ bs[i] # NoBuf => i = j
Rng(bs) == {bs[i] : i \in 1 .. Len(bs)}

\* tx_fill_hw_ring puts new buffers into entries of their own.
LEMMA FillAdds ==
    ASSUME NEW q \in SimpleQueue(TxIds), Once(q.sw), NEW bs \in Seq(AnyBuf), Distinct(bs), Rng(bs) \cap Bufs(q.sw) = {}
    PROVE  /\ tx_fill_hw_ring(q, bs) \in SimpleQueue(TxIds) /\ Once(tx_fill_hw_ring(q, bs).sw)
           /\ tx_fill_hw_ring(q, bs).tail = q.tail /\ tx_fill_hw_ring(q, bs).nb_tx_free = q.nb_tx_free
           /\ Bufs(tx_fill_hw_ring(q, bs).sw) \subseteq Bufs(q.sw) \cup Rng(bs)
<1>1. q.sw \in [TxIds -> AnyBuf] /\ q.desc \in [TxIds -> TxDesc] /\ q.tail \in Int
  BY DEF SimpleQueue, TxIds
<1> DEFINE f == tx_fill_hw_ring(q, bs)
           pos(i) == i - q.tail + 1
           sw == [i \in TxIds |-> IF pos(i) \in DOMAIN bs THEN bs[pos(i)] ELSE q.sw[i]]
           desc == [i \in TxIds |-> IF pos(i) \in DOMAIN bs THEN [rs |-> FALSE, dd |-> FALSE, buf |-> bs[pos(i)]]
                                    ELSE q.desc[i]]
<1>2. f = [q EXCEPT !.sw = sw, !.desc = desc]
  BY Zenon DEF tx_fill_hw_ring, SimpleQueue
<1>3. \A i, j \in TxIds : pos(i) = pos(j) => i = j
  BY <1>1 DEF TxIds
<1>4. DOMAIN bs = 1 .. Len(bs) /\ \A k \in DOMAIN bs : bs[k] \in AnyBuf
  OBVIOUS
<1> HIDE DEF f, pos
<1>5. sw \in [TxIds -> AnyBuf]
  BY <1>1, <1>4, Zenon
<1>6. desc \in [TxIds -> TxDesc]
  <2>1. \A b \in AnyBuf : [rs |-> FALSE, dd |-> FALSE, buf |-> b] \in TxDesc
    BY DEF TxDesc
  <2> QED
    BY <1>1, <1>4, <2>1, Zenon
<1>7. f \in SimpleQueue(TxIds) /\ f.sw = sw /\ f.tail = q.tail /\ f.nb_tx_free = q.nb_tx_free
  <2> HIDE DEF sw, desc
  <2> QED
    BY <1>2, <1>5, <1>6, Zenon DEF SimpleQueue
<1>8. \A i \in TxIds : f.sw[i] = IF pos(i) \in 1 .. Len(bs) THEN bs[pos(i)] ELSE q.sw[i]
  BY <1>4, <1>7, Zenon
<1>9. Once(f.sw)
  <2>1. SUFFICES ASSUME NEW i \in TxIds, NEW j \in TxIds, f.sw[i] = f.sw[j], f.sw[i] # NoBuf PROVE i = j
    BY Zenon DEF Once
  <2>2. ASSUME NEW k \in TxIds, NEW l \in 1 .. Len(bs), bs[l] # NoBuf PROVE q.sw[k] # bs[l]
    BY <2>2, Zenon DEF Bufs, Rng
  <2>3. CASE pos(i) \in 1 .. Len(bs) /\ pos(j) \in 1 .. Len(bs)
    BY <1>3, <1>8, <2>1, <2>3, Zenon DEF Distinct
  <2>4. CASE pos(i) \in 1 .. Len(bs) /\ pos(j) \notin 1 .. Len(bs)
    BY <1>8, <2>1, <2>2, <2>4, Zenon
  <2>5. CASE pos(i) \notin 1 .. Len(bs) /\ pos(j) \in 1 .. Len(bs)
    BY <1>8, <2>1, <2>2, <2>5, Zenon
  <2>6. CASE pos(i) \notin 1 .. Len(bs) /\ pos(j) \notin 1 .. Len(bs)
    BY <1>8, <2>1, <2>6, Zenon DEF Once
  <2> QED
    BY <2>3, <2>4, <2>5, <2>6, Zenon
<1>10. Bufs(f.sw) \subseteq Bufs(q.sw) \cup Rng(bs)
  BY <1>8, Zenon DEF Bufs, Rng
<1> QED
  BY <1>7, <1>9, <1>10, Zenon DEF f

LEMMA SetRSKeeps ==
    ASSUME NEW Pos, NEW q \in SimpleQueue(Pos)
    PROVE  SetRS(q) \in SimpleQueue(Pos) /\ SetRS(q).sw = q.sw /\ SetRS(q).nb_tx_free = q.nb_tx_free
           /\ SetRS(q).tail = q.tail
<1>1. q.desc \in [TxIds -> TxDesc] /\ q.next_rs \in Marks /\ q.next_rs \in TxIds
  BY TxArith, Zenon DEF SimpleQueue
<1>2. [q.desc EXCEPT ![q.next_rs].rs = TRUE] \in [TxIds -> TxDesc]
  BY <1>1, Zenon DEF TxDesc
<1>3. Next_batch(q.next_rs) \in Marks
  BY <1>1, TxArith, Zenon
<1>4. SetRS(q) = [q EXCEPT !.desc = [q.desc EXCEPT ![q.next_rs].rs = TRUE], !.next_rs = Next_batch(q.next_rs)]
  BY Zenon DEF SetRS, SimpleQueue
<1> QED
  BY <1>2, <1>3, <1>4, Zenon DEF SimpleQueue

\* The two halves of a sequence of packets, when the ring wraps in between.
LEMMA Halves ==
    ASSUME NEW bs \in Seq(AnyBuf), Distinct(bs), NEW k \in 0 .. Len(bs)
    PROVE  LET b1 == SubSeq(bs, 1, k)
               b2 == SubSeq(bs, k + 1, Len(bs))
           IN  /\ b1 \in Seq(AnyBuf) /\ Distinct(b1) /\ Rng(b1) \subseteq Rng(bs)
               /\ b2 \in Seq(AnyBuf) /\ Distinct(b2) /\ Rng(b2) \subseteq Rng(bs)
               /\ Len(b2) = Len(bs) - k /\ Rng(b1) \cap Rng(b2) \subseteq {NoBuf}
<1> DEFINE b1 == SubSeq(bs, 1, k)
           b2 == SubSeq(bs, k + 1, Len(bs))
<1>1. Len(bs) \in Nat /\ k \in Nat /\ k <= Len(bs)
  OBVIOUS
<1>2. b1 \in Seq(AnyBuf) /\ Len(b1) = k /\ \A i \in 1 .. Len(b1) : b1[i] = bs[i]
  BY <1>1
<1>3. b2 \in Seq(AnyBuf) /\ Len(b2) = Len(bs) - k /\ \A i \in 1 .. Len(b2) : b2[i] = bs[k + i]
  BY <1>1
<1> HIDE DEF b1, b2
<1>4. \A i \in 1 .. Len(b1) : i \in 1 .. Len(bs)
  BY <1>1, <1>2
<1>5. /\ \A i \in 1 .. Len(b2) : k + i \in 1 .. Len(bs)
      /\ \A i, j \in 1 .. Len(b2) : k + i = k + j => i = j
      /\ \A i \in 1 .. Len(b1) : \A j \in 1 .. Len(b2) : i # k + j
  BY <1>1, <1>2, <1>3
<1>6. Distinct(b1) /\ Rng(b1) \subseteq Rng(bs)
  BY <1>2, <1>4, Zenon DEF Distinct, Rng
<1>7. Distinct(b2) /\ Rng(b2) \subseteq Rng(bs)
  <2>1. ASSUME NEW i \in 1 .. Len(b2), NEW j \in 1 .. Len(b2), b2[i] = b2[j], b2[i] # NoBuf PROVE i = j
    <3>1. k + i \in 1 .. Len(bs) /\ k + j \in 1 .. Len(bs) /\ bs[k + i] = bs[k + j] /\ bs[k + i] # NoBuf
      BY <1>3, <1>5, <2>1, Zenon
    <3>2. k + i = k + j
      BY <3>1, Zenon DEF Distinct
    <3> QED
      BY <1>5, <3>2, Zenon
  <2>2. \A i \in 1 .. Len(b2) : b2[i] \in Rng(bs)
    BY <1>3, <1>5, Zenon DEF Rng
  <2>3. Rng(b2) \subseteq Rng(bs)
    BY <2>2, Zenon DEF Rng
  <2> QED
    BY <2>1, <2>3, Zenon DEF Distinct
<1>8. Rng(b1) \cap Rng(b2) \subseteq {NoBuf}
  <2>1. SUFFICES ASSUME NEW i \in 1 .. Len(b1), NEW j \in 1 .. Len(b2), b1[i] = b2[j], b1[i] # NoBuf PROVE FALSE
    BY Zenon DEF Rng
  <2>2. i \in 1 .. Len(bs) /\ k + j \in 1 .. Len(bs) /\ bs[i] = bs[k + j] /\ bs[i] # NoBuf /\ i # k + j
    BY <1>2, <1>3, <1>4, <1>5, <2>1, Zenon
  <2> QED
    BY <2>2, Zenon DEF Distinct
<1> QED
  BY <1>2, <1>3, <1>6, <1>7, <1>8, Zenon DEF b1, b2

\* The packets of one call, in the ring from the tail on.
LEMMA FillsRing ==
    ASSUME NEW q \in SimpleQueue(TxIds), Once(q.sw), NEW bs \in Seq(AnyBuf), Distinct(bs), Len(bs) <= NUM_TX,
           Rng(bs) \cap Bufs(q.sw) = {}
    PROVE  LET low == Low(Top(q, bs), IF q.tail + Len(bs) > NUM_TX
                                      THEN SubSeq(bs, NUM_TX - q.tail + 1, Len(bs)) ELSE bs)
           IN  /\ low \in SimpleQueue(0 .. NUM_TX) /\ Once(low.sw) /\ low.nb_tx_free = q.nb_tx_free
               /\ Bufs(low.sw) \subseteq Bufs(q.sw) \cup Rng(bs)
<1> DEFINE low == Low(Top(q, bs), IF q.tail + Len(bs) > NUM_TX
                                  THEN SubSeq(bs, NUM_TX - q.tail + 1, Len(bs)) ELSE bs)
<1> HIDE DEF low
<1> SUFFICES /\ low \in SimpleQueue(0 .. NUM_TX) /\ Once(low.sw) /\ low.nb_tx_free = q.nb_tx_free
             /\ Bufs(low.sw) \subseteq Bufs(q.sw) \cup Rng(bs)
  BY Zenon DEF low
<1>1. NUM_TX \in Nat \ {0} /\ Len(bs) \in Nat /\ q.tail \in Nat /\ q.tail < NUM_TX
  BY TxAssumption DEF SimpleQueue, TxIds
<1>2. ASSUME NEW r \in SimpleQueue(TxIds), NEW n \in Nat, r.tail + n <= NUM_TX, low = [r EXCEPT !.tail = @ + n]
      PROVE  low \in SimpleQueue(0 .. NUM_TX) /\ low.sw = r.sw /\ low.nb_tx_free = r.nb_tx_free
  <2>1. r.tail \in Nat
    BY DEF SimpleQueue, TxIds
  <2>2. r.tail + n \in 0 .. NUM_TX
    BY <1>1, <1>2, <2>1
  <2> QED
    BY <1>2, <2>2, Zenon DEF SimpleQueue
<1>3. CASE ~(q.tail + Len(bs) > NUM_TX)
  <2> DEFINE f == tx_fill_hw_ring(q, bs)
  <2>1. low = [f EXCEPT !.tail = @ + Len(bs)]
    BY <1>3, Zenon DEF Low, Top, low
  <2>2. /\ f \in SimpleQueue(TxIds) /\ Once(f.sw) /\ f.tail = q.tail /\ f.nb_tx_free = q.nb_tx_free
        /\ Bufs(f.sw) \subseteq Bufs(q.sw) \cup Rng(bs)
    BY FillAdds, Zenon
  <2> HIDE DEF f
  <2>3. f.tail + Len(bs) <= NUM_TX
    BY <1>1, <1>3, <2>2
  <2>4. low \in SimpleQueue(0 .. NUM_TX) /\ low.sw = f.sw /\ low.nb_tx_free = f.nb_tx_free
    BY <1>1, <1>2, <2>1, <2>2, <2>3, Zenon
  <2> QED
    BY <2>2, <2>4, Zenon
<1>4. CASE q.tail + Len(bs) > NUM_TX
  <2> DEFINE k == NUM_TX - q.tail
             b1 == SubSeq(bs, 1, k)
             b2 == SubSeq(bs, k + 1, Len(bs))
             f == tx_fill_hw_ring(q, b1)
             top == [SetRS(f) EXCEPT !.tail = 0]
             g == tx_fill_hw_ring(top, b2)
  <2>1. k \in 0 .. Len(bs) /\ k \in Nat
    BY <1>1, <1>4
  <2>2. low = [g EXCEPT !.tail = @ + Len(b2)]
    BY <1>4, Zenon DEF Low, Top, low
  <2> HIDE DEF k
  <2>3. /\ b1 \in Seq(AnyBuf) /\ Distinct(b1) /\ Rng(b1) \subseteq Rng(bs)
        /\ b2 \in Seq(AnyBuf) /\ Distinct(b2) /\ Rng(b2) \subseteq Rng(bs)
        /\ Len(b2) = Len(bs) - k /\ Rng(b1) \cap Rng(b2) \subseteq {NoBuf}
    BY <2>1, Halves, Zenon
  <2> HIDE DEF b1, b2
  <2>4. Rng(b1) \cap Bufs(q.sw) = {}
    BY <2>3, Zenon
  <2>5. /\ f \in SimpleQueue(TxIds) /\ Once(f.sw) /\ f.nb_tx_free = q.nb_tx_free
        /\ Bufs(f.sw) \subseteq Bufs(q.sw) \cup Rng(b1)
    BY <2>3, <2>4, FillAdds, Zenon
  <2> HIDE DEF f
  <2>6. top \in SimpleQueue(TxIds) /\ top.sw = f.sw /\ top.nb_tx_free = f.nb_tx_free /\ top.tail = 0
    <3>1. SetRS(f) \in SimpleQueue(TxIds) /\ SetRS(f).sw = f.sw /\ SetRS(f).nb_tx_free = f.nb_tx_free
      BY <2>5, SetRSKeeps, Zenon
    <3>2. 0 \in TxIds
      BY TxArith, Zenon
    <3> QED
      BY <3>1, <3>2, Zenon DEF SimpleQueue
  <2> HIDE DEF top
  <2>7. Rng(b2) \cap Bufs(top.sw) = {}
    <3>1. NoBuf \notin Bufs(f.sw)
      BY Zenon DEF Bufs
    <3> QED
      BY <2>3, <2>5, <2>6, <3>1, Zenon
  <2>8. /\ g \in SimpleQueue(TxIds) /\ Once(g.sw) /\ g.tail = 0 /\ g.nb_tx_free = top.nb_tx_free
        /\ Bufs(g.sw) \subseteq Bufs(top.sw) \cup Rng(b2)
    BY <2>3, <2>5, <2>6, <2>7, FillAdds, Zenon
  <2> HIDE DEF g
  <2>9. Len(b2) \in Nat /\ Len(b2) <= NUM_TX
    BY <1>1, <2>1, <2>3
  <2>10. g.tail + Len(b2) <= NUM_TX
    BY <2>8, <2>9
  <2>11. low \in SimpleQueue(0 .. NUM_TX) /\ low.sw = g.sw /\ low.nb_tx_free = g.nb_tx_free
    BY <1>2, <2>2, <2>8, <2>9, <2>10, Zenon
  <2>12. Bufs(g.sw) \subseteq Bufs(q.sw) \cup Rng(bs)
    BY <2>3, <2>5, <2>6, <2>8, Zenon
  <2> QED
    BY <2>5, <2>6, <2>8, <2>11, <2>12, Zenon
<1> QED
  BY <1>3, <1>4, Zenon

\* send takes packets of the stack, and frees a batch the card is done with.
LEMMA BufSimple == ASSUME BufInv, Simple_send PROVE BufInv'
<1>1. /\ sx \in SimpleQueue(TxIds) /\ Once(sx.sw) /\ pool \subseteq Buffers /\ kept \subseteq Buffers
      /\ UNCHANGED <<rx_buf, tx>>
  BY Zenon DEF BufInv, BufTypes, Simple_send
<1> DEFINE freed == IF FreeDue(sx) THEN {sx.sw[i] : i \in Batch(sx)} \ {NoBuf} ELSE {}
<1>2. PICK n \in 1 .. TX_BURST, free_ok \in BOOLEAN, q \in {IF FreeDue(sx) THEN tx_free_bufs(sx) ELSE sx} :
      \E bs \in Packets(IF n < q.nb_tx_free THEN n ELSE q.nb_tx_free, free_ok) :
      \E top \in {Top(q, bs)} :
      \E low \in {Low(top, IF q.tail + Len(bs) > NUM_TX
                           THEN SubSeq(bs, NUM_TX - q.tail + 1, Len(bs)) ELSE bs)} :
      \E done \in {Marked(low)} :
        /\ sx' = IF bs = <<>> THEN q ELSE [done EXCEPT !.nb_tx_free = @ - Len(bs), !.tdt = done.tail]
        /\ kept' = kept \ {bs[i] : i \in DOMAIN bs}
  BY Zenon DEF Simple_send
<1>3. /\ q \in SimpleQueue(TxIds) /\ Once(q.sw) /\ Bufs(q.sw) \subseteq Bufs(sx.sw)
      /\ freed \subseteq Bufs(sx.sw) \ Bufs(q.sw)
  <2>1. CASE FreeDue(sx)
    <3>1. q = tx_free_bufs(sx) /\ freed = {sx.sw[i] : i \in Batch(sx)} \ {NoBuf}
      BY <2>1
    <3> HIDE DEF freed
    <3> QED
      BY <1>1, <3>1, FreeFrees, Zenon
  <2>2. CASE ~FreeDue(sx)
    <3>1. q = sx /\ freed = {}
      BY <2>2
    <3> HIDE DEF freed
    <3> QED
      BY <1>1, <3>1
  <2> QED
    BY <2>1, <2>2, Zenon
<1> DEFINE m == IF n < q.nb_tx_free THEN n ELSE q.nb_tx_free
           low(bs) == Low(Top(q, bs), IF q.tail + Len(bs) > NUM_TX
                                      THEN SubSeq(bs, NUM_TX - q.tail + 1, Len(bs)) ELSE bs)
           done(bs) == Marked(low(bs))
<1>4. PICK bs \in Packets(m, free_ok) :
        /\ sx' = IF bs = <<>> THEN q
                 ELSE [done(bs) EXCEPT !.nb_tx_free = @ - Len(bs), !.tdt = done(bs).tail]
        /\ kept' = kept \ {bs[i] : i \in DOMAIN bs}
  BY <1>2, Zenon
<1> HIDE DEF freed
<1>5. m \in Nat /\ m <= NUM_TX /\ m <= q.nb_tx_free /\ q.nb_tx_free \in Nat
  <2>1. q.nb_tx_free \in Nat
    BY <1>3, Zenon DEF SimpleQueue
  <2> QED
    BY <1>2, <2>1, TxAssumption
<1> HIDE DEF m
<1>6. bs \in [1 .. m -> kept \cup {NoBuf}]
  BY <1>4, Zenon DEF Packets
<1>7. bs \in Seq(AnyBuf) /\ Len(bs) = m /\ DOMAIN bs = 1 .. m
  <2>1. kept \cup {NoBuf} \subseteq AnyBuf
    BY <1>1, Zenon DEF AnyBuf
  <2> QED
    BY <1>5, <1>6, <2>1
<1>8. Distinct(bs)
  <2>1. SUFFICES ASSUME NEW i \in 1 .. m, NEW j \in 1 .. m, bs[i] = bs[j], bs[i] # NoBuf PROVE i = j
    BY <1>7, Zenon DEF Distinct
  <2>2. /\ Cardinality({c \in kept : c < bs[i]}) = i - 1
        /\ Cardinality({c \in kept : c < bs[j]}) = j - 1
    BY <1>4, <2>1, Zenon DEF Packets
  <2> QED
    BY <1>5, <2>1, <2>2
<1>9. Rng(bs) \subseteq kept \cup {NoBuf}
  BY <1>6, <1>7, Zenon DEF Rng
<1>10. kept \cap Bufs(sx.sw) = {} /\ NoBuf \notin Bufs(sx.sw)
  BY Zenon DEF BufInv, Apart, Bufs
<1>11. Rng(bs) \cap Bufs(q.sw) = {}
  BY <1>3, <1>9, <1>10, Zenon
<1>12. /\ low(bs) \in SimpleQueue(0 .. NUM_TX) /\ Once(low(bs).sw) /\ low(bs).nb_tx_free = q.nb_tx_free
       /\ Bufs(low(bs).sw) \subseteq Bufs(q.sw) \cup Rng(bs)
  <2>1. Len(bs) <= NUM_TX
    BY <1>5, <1>7, Zenon
  <2> QED
    BY <1>3, <1>7, <1>8, <1>11, <2>1, FillsRing, Zenon
<1> HIDE DEF low
<1>13. /\ done(bs) \in SimpleQueue(TxIds) /\ done(bs).sw = low(bs).sw /\ done(bs).nb_tx_free = q.nb_tx_free
  <2> DEFINE r == IF low(bs).tail > low(bs).next_rs THEN SetRS(low(bs)) ELSE low(bs)
  <2>1. r \in SimpleQueue(0 .. NUM_TX) /\ r.sw = low(bs).sw /\ r.nb_tx_free = q.nb_tx_free
    <3>1. CASE low(bs).tail > low(bs).next_rs
      BY <1>12, <3>1, SetRSKeeps, Zenon
    <3>2. CASE ~(low(bs).tail > low(bs).next_rs)
      BY <1>12, <3>2, Zenon
    <3> QED
      BY <3>1, <3>2, Zenon
  <2>2. done(bs) = [r EXCEPT !.tail = TxAt(@)]
    BY Zenon DEF Marked
  <2> HIDE DEF r
  <2>3. r.tail \in Int
    BY <2>1 DEF SimpleQueue
  <2>4. TxAt(r.tail) \in TxIds
    BY <2>3, TxArith, Zenon
  <2> HIDE DEF done
  <2> QED
    BY <2>1, <2>2, <2>4, Zenon DEF SimpleQueue
<1> HIDE DEF done
<1>14. sx' \in SimpleQueue(TxIds) /\ Once(sx'.sw) /\ Bufs(sx'.sw) \subseteq Bufs(q.sw) \cup Rng(bs)
  <2>1. CASE bs = <<>>
    BY <1>3, <1>4, <2>1, Zenon
  <2>2. CASE bs # <<>>
    <3>1. q.nb_tx_free - Len(bs) \in Nat
      <4>1. q.nb_tx_free \in Nat /\ Len(bs) \in Nat /\ Len(bs) <= q.nb_tx_free
        BY <1>5, <1>7, Zenon
      <4> QED
        BY <4>1
    <3>2. done(bs).tail \in TxIds
      BY <1>13, Zenon DEF SimpleQueue
    <3>3. sx' = [done(bs) EXCEPT !.nb_tx_free = q.nb_tx_free - Len(bs), !.tdt = done(bs).tail]
      BY <1>4, <1>13, <2>2, Zenon DEF SimpleQueue
    <3>4. sx' \in SimpleQueue(TxIds) /\ sx'.sw = low(bs).sw
      BY <1>13, <3>1, <3>2, <3>3, Zenon DEF SimpleQueue
    <3> QED
      BY <1>12, <3>4, Zenon
  <2> QED
    BY <2>1, <2>2, Zenon
<1>15. pool' = pool \cup freed /\ kept' = kept \ Rng(bs)
  <2>1. pool' = pool \cup freed
    BY Zenon DEF Simple_send, freed
  <2>2. {bs[i] : i \in DOMAIN bs} = Rng(bs)
    BY <1>7, Zenon DEF Rng
  <2> QED
    BY <1>4, <2>1, <2>2, Zenon
<1>16. NoBuf \notin Bufs(sx'.sw)
  BY Zenon DEF Bufs
<1>17. kept' \subseteq kept /\ Bufs(sx'.sw) \ Bufs(sx.sw) \subseteq kept \ kept'
  BY <1>3, <1>9, <1>14, <1>15, <1>16, Zenon
<1>18. pool' \subseteq pool \cup (Bufs(sx.sw) \ Bufs(sx'.sw))
  BY <1>3, <1>9, <1>10, <1>14, <1>15, Zenon
<1>19. Bufs(sx.sw) \subseteq Buffers
  BY <1>1, Zenon DEF Bufs, SimpleQueue, AnyBuf
<1>20. pool' \subseteq Buffers
  BY <1>1, <1>3, <1>15, <1>19, Zenon
<1> QED
  BY <1>1, <1>14, <1>17, <1>18, <1>20, SimpleMoves, Zenon

-----------------------------------------------------------------------------
\* Both receive rings keep the packets in order, and every packet buffer of the x540
\* driver is in one place, for every size of the rings, burst and pool, whatever the
\* interleaving of cards, handlers, stack and senders.
THEOREM RingsKeepOrder == DriversSpec => []PacketsInOrder
<1> DEFINE Inv == E1000Kept /\ RxInv /\ BufInv
<1>1. DriversInit => Inv
  BY E1000InvInit, RxInvInit, BufInvInit, Zenon DEF DriversInit, X540Init, E1000Kept
<1>2. Inv /\ [DriversNext]_driverVars => Inv'
  <2>1. SUFFICES ASSUME Inv, [DriversNext]_driverVars PROVE Inv'
    BY Zenon
  <2>2. E1000Kept'
    <3>1. [E1000Next]_e1000Vars
      BY <2>1, Zenon DEF DriversNext, driverVars
    <3> QED
      BY <2>1, <3>1, E1000Step, Zenon
  <2>3. CASE UNCHANGED x540Vars
    <3>1. UNCHANGED rxRing /\ UNCHANGED <<rx_buf, pool, kept>> /\ UNCHANGED txVars
      BY <2>3, Zenon DEF x540Vars, rxVars, rxRegs, rxRing
    <3>2. RxInv'
      BY <2>1, <3>1, RxUnchanged, Zenon
    <3>3. BufInv'
      BY <2>1, <3>1 DEF txVars, BufInv, BufTypes, RxBufs, Apart
    <3> QED
      BY <2>2, <3>2, <3>3, Zenon
  <2>4. CASE RxNext /\ UNCHANGED txVars
    BY <2>1, <2>2, <2>4, RxStep, BufReceive, Zenon
  <2>5. CASE Stack_alloc /\ UNCHANGED txVars
    <3>1. UNCHANGED rxRing
      BY <2>5, Zenon DEF Stack_alloc, rxRegs, rxRing
    <3> QED
      BY <2>1, <2>2, <2>5, <3>1, RxUnchanged, BufReceive, Zenon
  <2>6. CASE Multi \/ Simple_send \/ Nic_transmit
    <3>1. UNCHANGED rxRing
      <4>1. Multi => UNCHANGED rxRing
        BY Zenon DEF Multi, Multi_call, Multi_packet, Multi_end, rxRegs, rxRing
      <4>2. Simple_send => UNCHANGED rxRing
        BY Zenon DEF Simple_send, rxRegs, rxRing
      <4>3. Nic_transmit => UNCHANGED rxRing
        BY Zenon DEF Nic_transmit, rxVars, rxRegs, rxRing
      <4> QED
        BY <2>6, <4>1, <4>2, <4>3, Zenon
    <3> QED
      BY <2>1, <2>2, <2>6, <3>1, RxUnchanged, BufMulti, BufSimple, BufTransmit, Zenon
  <2> QED
    BY <2>1, <2>3, <2>4, <2>5, <2>6, Zenon DEF DriversNext, X540Next, driverVars
<1>3. Inv => PacketsInOrder
  BY E1000InvRing, RxInvInOrder, BufInvApart, Zenon DEF PacketsInOrder
<1> QED
  BY <1>1, <1>2, <1>3, PTL DEF DriversSpec
=============================================================================
