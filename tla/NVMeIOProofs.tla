---------------------------- MODULE NVMeIOProofs ----------------------------
(***************************************************************************)
(* Proofs about QueuePair, for every length of the rings and every set of  *)
(* commands, and about NVMeIO: the batch manager and the queue pair, each  *)
(* proved by itself, keep in step when NVME_IO_queue and CQ_thread put     *)
(* them together.  A step of the whole is a step of each part, so what is  *)
(* proved of the parts holds of the whole.                                 *)
(***************************************************************************)
EXTENDS NVMeIO, BatchManagerProofs

-----------------------------------------------------------------------------
(* Index arithmetic of both rings (increment_submission_tail,              *)
(* increment_completion_head): an index is in a window when it is met      *)
(* before the window's end.                                                *)
LEMMA WindowMembers ==
    ASSUME NEW i \in Index, NEW j \in Index
    PROVE  /\ Window(i, j) \subseteq Index
           /\ \A k \in Index : k \in Window(i, j) <=> Dist(i, k) < Dist(i, j)
           /\ Window(i, j) = {} <=> i = j
           /\ j \notin Window(i, j)
  BY QueueAssumption DEF Index, Window, Dist

LEMMA IncIndex == ASSUME NEW i \in Index PROVE inc(i) \in Index /\ inc(i) # i
  BY QueueAssumption DEF Index, inc

(* A ring that is not full takes one more entry at its end ... *)
LEMMA WindowGrows ==
    ASSUME NEW i \in Index, NEW j \in Index, inc(j) # i
    PROVE  /\ Window(i, inc(j)) = Window(i, j) \cup {j}
           /\ j \notin Window(i, j)
           /\ Dist(i, inc(j)) = Dist(i, j) + 1
  BY QueueAssumption DEF Index, Window, inc, Dist

(* ... and one that is not empty loses the entry at its start. *)
LEMMA WindowShrinks ==
    ASSUME NEW i \in Index, NEW j \in Index, i # j
    PROVE  /\ Window(i, j) = Window(inc(i), j) \cup {i}
           /\ i \in Window(i, j) /\ i \notin Window(inc(i), j)
           /\ \A k \in Window(inc(i), j) : Dist(i, k) = Dist(inc(i), k) + 1
  BY QueueAssumption DEF Index, Window, inc, Dist

LEMMA DistArith ==
    ASSUME NEW i \in Index, NEW j \in Index
    PROVE  /\ Dist(i, j) \in 0 .. QueueLen - 1
           /\ Dist(i, j) = 0 <=> i = j
           /\ InOrder(i, i, j) /\ InOrder(i, j, j)
  BY QueueAssumption DEF Index, Dist, InOrder

(* Of four indices met in the order i, j, k, l the first can be left out.  *)
LEMMA OrderTail ==
    ASSUME NEW i \in Index, NEW j \in Index, NEW k \in Index, NEW l \in Index,
           InOrder(i, j, k), InOrder(i, k, l)
    PROVE  InOrder(j, k, l) /\ InOrder(i, j, l)
  BY QueueAssumption DEF Index, Dist, InOrder

(* Five sets given as a tuple are apart when every pair is. *)
AllApart(A, B, C, D, E) ==
    /\ A \cap B = {} /\ A \cap C = {} /\ A \cap D = {} /\ A \cap E = {}
    /\ B \cap C = {} /\ B \cap D = {} /\ B \cap E = {}
    /\ C \cap D = {} /\ C \cap E = {} /\ D \cap E = {}

LEMMA ApartTuple ==
    ASSUME NEW A, NEW B, NEW C, NEW D, NEW E
    PROVE  (\A p, q \in 1 .. 5 : p # q =>
               <<A, B, C, D, E>>[p] \cap <<A, B, C, D, E>>[q] = {})
           <=> AllApart(A, B, C, D, E)
  <1>. DEFINE T == <<A, B, C, D, E>>
  <1>1. T[1] = A /\ T[2] = B /\ T[3] = C /\ T[4] = D /\ T[5] = E
    BY Zenon
  <1>. HIDE DEF T
  <1>2. 1 .. 5 = {1, 2, 3, 4, 5}
    OBVIOUS
  <1>3. ASSUME AllApart(A, B, C, D, E), NEW p \in 1 .. 5, NEW q \in 1 .. 5, p # q
        PROVE  T[p] \cap T[q] = {}
    BY <1>1, <1>2, <1>3 DEF AllApart
  <1>4. ASSUME \A p, q \in 1 .. 5 : p # q => T[p] \cap T[q] = {}
        PROVE  AllApart(A, B, C, D, E)
    <2>1. /\ T[1] \cap T[2] = {} /\ T[1] \cap T[3] = {}
          /\ T[1] \cap T[4] = {} /\ T[1] \cap T[5] = {}
          /\ T[2] \cap T[3] = {} /\ T[2] \cap T[4] = {} /\ T[2] \cap T[5] = {}
          /\ T[3] \cap T[4] = {} /\ T[3] \cap T[5] = {} /\ T[4] \cap T[5] = {}
      BY <1>4
    <2> QED
      BY <2>1, <1>1, Zenon DEF AllApart
  <1> QED
    BY <1>3, <1>4, Zenon DEF T

-----------------------------------------------------------------------------
(* The invariant, with the places of a command as sets that are apart.     *)
LEMMA OnePlaceApart ==
    OnePlace <=> /\ AllApart(InProducer, InSub, dev_cmds, InComp, InCq)
                 /\ \A k, l \in SubWindow : sub_cmd[k] = sub_cmd[l] => k = l
                 /\ \A k, l \in CompWindow :
                       comp_cmd[k].cmd = comp_cmd[l].cmd => k = l
                 /\ Outstanding \subseteq Cmd
  BY ApartTuple, Zenon DEF OnePlace, Places

LEMMA InitQPInv == QPInit => QPInv /\ Outstanding = {}
  <1> SUFFICES ASSUME QPInit PROVE QPInv /\ Outstanding = {}
    BY Zenon
  <1>. USE QueueAssumption DEF QPInit
  <1>1. QPTypeOK
    <2>1. 0 \in Index
      BY DEF Index
    <2>2. [cmd |-> NoCmd, phase |-> 0, sq_head |-> 0] \in Entry
      BY <2>1 DEF Entry
    <2>3. comp_cmd \in [Index -> Entry] /\ sub_cmd \in [Index -> Cmd \cup {NoCmd}]
      BY <2>2, Zenon
    <2>4. cq_phase \in 0 .. 1 /\ dev_phase \in 0 .. 1
      OBVIOUS
    <2> QED
      BY <2>1, <2>3, <2>4, Zenon DEF QPTypeOK
  <1>2. SubWindow = {} /\ CompWindow = {} /\ Unseen = {}
    BY DEF SubWindow, CompWindow, Unseen, UnseenFrom, Window
  <1>3. InProducer = {} /\ InSub = {} /\ dev_cmds = {} /\ InComp = {} /\ InCq = {}
    BY <1>2, Zenon DEF InProducer, InSub, InComp, InCq
  <1>4. OnePlace /\ Outstanding = {}
    BY <1>2, <1>3, OnePlaceApart, Zenon DEF AllApart, Outstanding
  <1>5. SubRing
    BY DEF SubRing, InOrder, Dist
  <1>6. CompRing
    BY DEF CompRing, Index
  <1> QED
    BY <1>1, <1>2, <1>3, <1>4, <1>5, <1>6, Zenon DEF QPInv, HeadsInOrder, NoLostWakeup

(* next_sub_slot clears and takes a slot the controller has fetched.       *)
LEMMA SubmitQPInv ==
    ASSUME QPInv, NEW c \in Cmd, Submit(c)
    PROVE  QPInv' /\ Outstanding' = Outstanding \cup {c}
  <1>. USE QueueAssumption DEF QPInv, Submit, NextSubSlot, devVars, cqVars, kernVars
  <1>0. /\ sq_tail \in Index /\ sq_head \in Index /\ dev_sqhd \in Index
        /\ sub_cmd \in [Index -> Cmd \cup {NoCmd}]
        /\ sq_db = sq_tail /\ inc(sq_tail) \in Index
    BY IncIndex, Zenon DEF QPTypeOK, SubRing
  <1>1. QPTypeOK'
    BY <1>0, Zenon DEF QPTypeOK
  <1>2. SubWindow' = SubWindow /\ CompWindow' = CompWindow /\ Unseen' = Unseen
    BY Zenon DEF SubWindow, CompWindow, Unseen, UnseenFrom
  <1>3. \A k \in SubWindow : sub_cmd'[k] = sub_cmd[k]
    <2>1. SubWindow \subseteq Index /\ sq_tail \notin SubWindow
      BY <1>0, WindowMembers, Zenon DEF SubWindow
    <2> QED
      BY <2>1, <1>0, Zenon
  <1>4. /\ InProducer = {} /\ InProducer' = {c} /\ InSub' = InSub
        /\ InComp' = InComp /\ InCq' = InCq /\ dev_cmds' = dev_cmds
    BY <1>2, <1>3, Zenon DEF InProducer, InSub, InComp, InCq
  <1>5. Outstanding' = Outstanding \cup {c}
    BY <1>4, Zenon DEF Outstanding
  <1>6. OnePlace'
    <2>1. AllApart(InProducer, InSub, dev_cmds, InComp, InCq)'
      BY <1>4, OnePlaceApart DEF AllApart, Outstanding
    <2> QED
      BY <1>2, <1>3, <1>5, <2>1, ApartTuple DEF OnePlace, Places
  <1>7. SubRing'
    <2>1. InOrder(sq_head, sq_tail, inc(sq_tail))
      BY <1>0, WindowGrows, DistArith DEF InOrder, Dist, inc, Index
    <2> QED
      BY <1>0, <2>1, Zenon DEF SubRing
  <1>8. CompRing' /\ HeadsInOrder' /\ NoLostWakeup'
    BY <1>2, <1>4, Zenon DEF CompRing, HeadsInOrder, NoLostWakeup, Asleep, UnseenFrom
  <1> QED
    BY <1>1, <1>5, <1>6, <1>7, <1>8, Zenon

(* The command is written into its slot, which no doorbell has announced.  *)
LEMMA FillSlotQPInv == ASSUME QPInv, FillSlot PROVE QPInv' /\ Outstanding' = Outstanding
  <1>. USE QueueAssumption DEF QPInv, FillSlot, devVars, cqVars, kernVars
  <1>0. /\ sq_tail \in Index /\ sq_db \in Index /\ dev_sqhd \in Index
        /\ sub_cmd \in [Index -> Cmd \cup {NoCmd}]
        /\ sub \in Cmd /\ sq_tail = inc(sq_db) /\ SubSlot = sq_db
    BY DEF QPTypeOK, SubRing, SubSlot, inc, Index
  <1>1. QPTypeOK'
    BY <1>0, Zenon DEF QPTypeOK
  <1>2. SubWindow' = SubWindow /\ CompWindow' = CompWindow /\ Unseen' = Unseen
    BY Zenon DEF SubWindow, CompWindow, Unseen, UnseenFrom
  <1>3. \A k \in SubWindow : sub_cmd'[k] = sub_cmd[k]
    <2>1. SubWindow \subseteq Index /\ sq_db \notin SubWindow
      BY <1>0, WindowMembers, Zenon DEF SubWindow
    <2> QED
      BY <2>1, <1>0, Zenon
  <1>4. /\ InProducer' = InProducer /\ InSub' = InSub
        /\ InComp' = InComp /\ InCq' = InCq /\ dev_cmds' = dev_cmds
    BY <1>2, <1>3, Zenon DEF InProducer, InSub, InComp, InCq
  <1>5. Outstanding' = Outstanding
    BY <1>4, Zenon DEF Outstanding
  <1>6. OnePlace'
    BY <1>2, <1>3, <1>4, <1>5 DEF OnePlace, Places
  <1>7. SubRing'
    BY <1>0, Zenon DEF SubRing
  <1>8. CompRing' /\ HeadsInOrder' /\ NoLostWakeup'
    BY <1>2, <1>4, Zenon DEF CompRing, HeadsInOrder, NoLostWakeup, Asleep, UnseenFrom
  <1> QED
    BY <1>1, <1>5, <1>6, <1>7, <1>8, Zenon

(* The doorbell announces the slot just written: the command goes from the *)
(* producer to the ring.                                                   *)
LEMMA RingSubmissionQPInv ==
    ASSUME QPInv, RingSubmission PROVE QPInv' /\ Outstanding' = Outstanding
  <1>. USE QueueAssumption DEF QPInv, RingSubmission, devVars, cqVars, kernVars
  <1>0. /\ sq_tail \in Index /\ sq_db \in Index /\ dev_sqhd \in Index
        /\ sq_head \in Index /\ sub \in Cmd /\ sq_tail = inc(sq_db)
        /\ sub_cmd[sq_db] = sub
    BY Zenon DEF QPTypeOK, SubRing
  <1>1. QPTypeOK'
    BY Zenon DEF QPTypeOK
  <1>2. CompWindow' = CompWindow /\ Unseen' = Unseen
    BY Zenon DEF CompWindow, Unseen, UnseenFrom
  <1>3. SubWindow' = SubWindow \cup {sq_db} /\ sq_db \notin SubWindow
    <2>1. inc(sq_db) # dev_sqhd
      BY <1>0 DEF SubRing, InOrder, Dist, Index, inc
    <2> QED
      BY <1>0, <2>1, WindowGrows, Zenon DEF SubWindow
  <1>4. /\ InProducer = {sub} /\ InProducer' = {} /\ InSub' = InSub \cup {sub}
        /\ InComp' = InComp /\ InCq' = InCq /\ dev_cmds' = dev_cmds
    BY <1>0, <1>2, <1>3, Zenon DEF InProducer, InSub, InComp, InCq
  <1>5. Outstanding' = Outstanding
    BY <1>4, Zenon DEF Outstanding
  <1>6. OnePlace'
    <2>1. AllApart(InProducer, InSub, dev_cmds, InComp, InCq)
      BY OnePlaceApart, Zenon
    <2>2. AllApart(InProducer, InSub, dev_cmds, InComp, InCq)'
      BY <2>1, <1>4, Zenon DEF AllApart
    <2>3. \A k \in SubWindow : sub_cmd[k] # sub
      BY <2>1, <1>4, Zenon DEF AllApart, InSub
    <2>4. \A k, l \in SubWindow' : sub_cmd'[k] = sub_cmd'[l] => k = l
      BY <2>3, <1>0, <1>3 DEF OnePlace
    <2> QED
      BY <1>2, <1>5, <2>2, <2>4, ApartTuple DEF OnePlace, Places
  <1>7. SubRing'
    BY <1>0, DistArith, OrderTail, Zenon DEF SubRing
  <1>8. CompRing' /\ HeadsInOrder' /\ NoLostWakeup'
    BY <1>2, <1>4, Zenon DEF CompRing, HeadsInOrder, NoLostWakeup, Asleep, UnseenFrom
  <1> QED
    BY <1>1, <1>5, <1>6, <1>7, <1>8, Zenon

(* The controller fetches the entry at its head. *)
LEMMA DevFetchQPInv == ASSUME QPInv, DevFetch PROVE QPInv' /\ Outstanding' = Outstanding
  <1>. USE QueueAssumption DEF QPInv, DevFetch, subVars, cqVars, kernVars
  <1>. DEFINE c == sub_cmd[dev_sqhd]
  <1>0. /\ sq_db \in Index /\ dev_sqhd \in Index /\ sq_head \in Index
        /\ dev_cmds \in SUBSET Cmd /\ inc(dev_sqhd) \in Index
        /\ comp_cmd \in [Index -> Entry] /\ cq_head \in Index /\ ccs \in Index
        /\ dev_cqtail \in Index
    BY IncIndex, Zenon DEF QPTypeOK
  <1>2. CompWindow' = CompWindow /\ Unseen' = Unseen
    BY Zenon DEF CompWindow, Unseen, UnseenFrom
  <1>3. SubWindow = SubWindow' \cup {dev_sqhd} /\ dev_sqhd \notin SubWindow'
    BY <1>0, WindowShrinks, Zenon DEF SubWindow
  <1>4. /\ InProducer' = InProducer /\ InSub = InSub' \cup {c}
        /\ InComp' = InComp /\ InCq' = InCq /\ dev_cmds' = dev_cmds \cup {c}
    BY <1>2, <1>3, Zenon DEF InProducer, InSub, InComp, InCq
  <1>5. Outstanding' = Outstanding
    BY <1>4, Zenon DEF Outstanding
  <1>1. c \in Cmd
    BY <1>4, Zenon DEF OnePlace, Outstanding
  <1>6. OnePlace'
    <2>1. AllApart(InProducer, InSub, dev_cmds, InComp, InCq)
      BY OnePlaceApart, Zenon
    <2>2. c \notin InSub'
      BY <1>3, Zenon DEF InSub, OnePlace
    <2>3. AllApart(InProducer, InSub, dev_cmds, InComp, InCq)'
      BY <2>1, <2>2, <1>4, Zenon DEF AllApart
    <2> QED
      BY <1>2, <1>3, <1>5, <2>3, ApartTuple DEF OnePlace, Places
  <1>7. QPTypeOK'
    BY <1>0, <1>1, Zenon DEF QPTypeOK
  <1>8. SubRing' /\ InOrder(sq_head, dev_sqhd, inc(dev_sqhd))
    BY <1>0 DEF SubRing, InOrder, Dist, inc, Index
  <1>9. HeadsInOrder'
    <2>1. ASSUME NEW k \in Unseen
          PROVE  InOrder(sq_head, comp_cmd[k].sq_head, inc(dev_sqhd))
      <3>1. k \in Index /\ comp_cmd[k].sq_head \in Index
        BY <1>0, WindowMembers DEF Unseen, UnseenFrom, Entry
      <3> QED
        BY <1>0, <1>8, <3>1, OrderTail, Zenon DEF HeadsInOrder
    <2> QED
      BY <1>2, <2>1, Zenon DEF HeadsInOrder, UnseenFrom
  <1>10. CompRing' /\ NoLostWakeup'
    BY <1>2, <1>4, Zenon DEF CompRing, NoLostWakeup, Asleep
  <1> QED
    BY <1>5, <1>6, <1>7, <1>8, <1>9, <1>10, Zenon

(* An interrupt ahead of its completion. *)
LEMMA DevInterruptQPInv ==
    ASSUME QPInv, NEW c \in dev_cmds, DevInterrupt(c)
    PROVE  QPInv' /\ Outstanding' = Outstanding
  <1>. USE DEF QPInv, DevInterrupt, subVars, devVars, cqVars
  <1>1. QPTypeOK'
    BY Zenon DEF QPTypeOK
  <1>2. /\ SubWindow' = SubWindow /\ CompWindow' = CompWindow
        /\ UnseenFrom' = UnseenFrom /\ Unseen' = Unseen
    BY Zenon DEF SubWindow, CompWindow, Unseen, UnseenFrom
  <1>3. /\ InProducer' = InProducer /\ InSub' = InSub
        /\ InComp' = InComp /\ InCq' = InCq /\ dev_cmds' = dev_cmds
    BY <1>2, Zenon DEF InProducer, InSub, InComp, InCq
  <1>4. OnePlace' /\ Outstanding' = Outstanding
    BY <1>2, <1>3 DEF OnePlace, Places, Outstanding
  <1>5. SubRing' /\ CompRing' /\ HeadsInOrder'
    BY <1>2 DEF SubRing, CompRing, HeadsInOrder
  <1>6. NoLostWakeup'
    BY Zenon DEF NoLostWakeup, Asleep
  <1> QED
    BY <1>1, <1>4, <1>5, <1>6, Zenon

(* The controller posts a completion with the phase of its lap and its     *)
(* head, and raises the interrupt unless that has come already.            *)
LEMMA DevPostQPInv ==
    ASSUME QPInv, NEW c \in dev_cmds, DevPost(c)
    PROVE  QPInv' /\ Outstanding' = Outstanding
  <1>. USE QueueAssumption DEF QPInv, DevPost, subVars, cqVars
  <1>0. /\ cq_db \in Index /\ dev_cqtail \in Index /\ inc(dev_cqtail) \in Index
        /\ cq_head \in Index /\ ccs \in Index /\ dev_sqhd \in Index
        /\ sq_head \in Index /\ comp_cmd \in [Index -> Entry]
        /\ dev_phase \in 0 .. 1 /\ c \in Cmd
        /\ cqt \in {"wait", "woken", "drain", "update", "ring"}
    BY IncIndex, Zenon DEF QPTypeOK
  <1>1. QPTypeOK'
    <2>1. [cmd |-> c, phase |-> dev_phase, sq_head |-> dev_sqhd] \in Entry
      BY <1>0, Zenon DEF Entry
    <2>2. comp_cmd' \in [Index -> Entry] /\ dev_phase' \in 0 .. 1
      BY <2>1, <1>0
    <2>3. irq' \in BOOLEAN
      BY Zenon
    <2> QED
      BY <1>0, <2>2, <2>3, Zenon DEF QPTypeOK
  <1>2. SubWindow' = SubWindow
    BY Zenon DEF SubWindow
  <1>3. /\ inc(dev_cqtail) # cq_head
        /\ cqt = "update" => inc(dev_cqtail) # ccs
    BY <1>0 DEF CompRing, inc, Index
  <1>4. /\ CompWindow' = CompWindow \cup {dev_cqtail}
        /\ dev_cqtail \notin CompWindow /\ CompWindow \subseteq Index
        /\ Unseen' = Unseen \cup {dev_cqtail}
        /\ dev_cqtail \notin Unseen /\ Unseen \subseteq Index
    BY <1>0, <1>3, WindowGrows, WindowMembers, Zenon DEF CompWindow, Unseen,
       UnseenFrom
  <1>5. /\ comp_cmd'[dev_cqtail] =
             [cmd |-> c, phase |-> dev_phase, sq_head |-> dev_sqhd]
        /\ \A k \in Index \ {dev_cqtail} : comp_cmd'[k] = comp_cmd[k]
    BY <1>0, Zenon
  <1>6. InComp' = InComp \cup {c}
    <2>1. \A k \in CompWindow : comp_cmd'[k] = comp_cmd[k]
      BY <1>4, <1>5, Zenon
    <2> QED
      BY <2>1, <1>4, <1>5 DEF InComp
  <1>7. /\ InProducer' = InProducer /\ InSub' = InSub /\ InCq' = InCq
        /\ dev_cmds' = dev_cmds \ {c}
    BY <1>0, <1>2, <1>5, Zenon DEF InProducer, InSub, InCq, CompRing
  <1>8. Outstanding' = Outstanding
    BY <1>6, <1>7, Zenon DEF Outstanding
  <1>9. OnePlace'
    <2>1. AllApart(InProducer, InSub, dev_cmds, InComp, InCq)
      BY OnePlaceApart, Zenon
    <2>2. AllApart(InProducer, InSub, dev_cmds, InComp, InCq)'
      BY <2>1, <1>6, <1>7 DEF AllApart
    <2>3. \A k \in CompWindow : comp_cmd'[k].cmd = comp_cmd[k].cmd /\ comp_cmd[k].cmd # c
      BY <2>1, <1>4, <1>5 DEF AllApart, InComp
    <2>4. \A k, l \in CompWindow' : comp_cmd'[k].cmd = comp_cmd'[l].cmd => k = l
      BY <2>3, <1>4, <1>5 DEF OnePlace
    <2> QED
      BY <1>2, <1>8, <2>2, <2>4, ApartTuple DEF OnePlace, Places
  <1>10. CompRing'
    <2>1. \A k \in Index : comp_cmd'[k].phase =
             IF k < dev_cqtail' THEN dev_phase' ELSE 1 - dev_phase'
      BY <1>0, <1>5 DEF CompRing, inc, Index
    <2>2. cq_phase' = IF cq_head' <= dev_cqtail' THEN dev_phase' ELSE 1 - dev_phase'
      BY <1>0, <1>3 DEF CompRing, inc, Index
    <2> QED
      BY <1>0, <2>1, <2>2, Zenon DEF CompRing
  <1>11. HeadsInOrder'
    <2>1. ASSUME NEW k \in Unseen
          PROVE  /\ InOrder(sq_head, comp_cmd'[k].sq_head, dev_sqhd)
                 /\ comp_cmd'[k] = comp_cmd[k]
                 /\ Dist(UnseenFrom, k) < Dist(UnseenFrom, dev_cqtail)
      BY <1>0, <1>4, <1>5, WindowMembers, Zenon DEF HeadsInOrder, Unseen, UnseenFrom
    <2>2. InOrder(sq_head, dev_sqhd, dev_sqhd)
      BY <1>0, DistArith, Zenon
    <2>3. UnseenFrom' = UnseenFrom /\ UnseenFrom \in Index
      BY <1>0, Zenon DEF UnseenFrom
    <2>4. ASSUME NEW k \in Unseen', NEW l \in Unseen',
                 Dist(UnseenFrom, k) <= Dist(UnseenFrom, l)
          PROVE  InOrder(sq_head, comp_cmd'[k].sq_head, comp_cmd'[l].sq_head)
      <3>1. CASE l = dev_cqtail
        BY <3>1, <1>4, <1>5, <2>1, <2>2
      <3>2. CASE l # dev_cqtail
        <4>1. k \in Unseen /\ l \in Unseen
          BY <3>2, <2>4, <1>0, <1>4, <2>1, <2>3, DistArith
        <4> QED
          BY <4>1, <2>1, <2>4, Zenon DEF HeadsInOrder
      <3> QED
        BY <3>1, <3>2, Zenon
    <2> QED
      BY <1>4, <1>5, <2>1, <2>2, <2>3, <2>4 DEF HeadsInOrder
  <1>12. SubRing' /\ NoLostWakeup'
    <2>1. Asleep' => Asleep /\ c \in early
      BY Zenon DEF Asleep
    <2> QED
      BY <1>6, <2>1, Zenon DEF SubRing, NoLostWakeup
  <1> QED
    BY <1>1, <1>8, <1>9, <1>10, <1>11, <1>12, Zenon

(* The phases change only at the controller's tail, so the phase at        *)
(* cq_head tells the CQ thread whether it is behind that tail.             *)
LEMMA PhaseOfHead == ASSUME QPInv PROVE PhaseTellsNew /\ HeadLags
  <1>1. PhaseTellsNew
    <2>1. HasCompletion <=> cq_head # dev_cqtail
      <3>1. /\ cq_head \in Index /\ dev_cqtail \in Index
            /\ cq_phase \in 0 .. 1 /\ dev_phase \in 0 .. 1
        BY Zenon DEF QPInv, QPTypeOK
      <3> QED
        BY <3>1, QueueAssumption DEF QPInv, CompRing, HasCompletion, Index
    <2> QED
      BY <2>1, WindowMembers DEF QPInv, QPTypeOK, CompWindow, PhaseTellsNew
  <1>2. HeadLags
    BY QueueAssumption DEF QPInv, QPTypeOK, SubRing, HeadLags, SubWindow, Window,
       InOrder, Dist, Index
  <1> QED
    BY <1>1, <1>2, Zenon

(* The steps that leave commands and rings alone: the interrupt handler,   *)
(* the two halves of msi_proc_read and the completion doorbell.  The CQ    *)
(* thread goes back to sleep only with every completion read.              *)
LEMMA WakeupQPInv ==
    ASSUME QPInv,
           IrqHandler \/ WaitIrq \/ ClearSignal \/ DrainEnds \/ RingCompletion
    PROVE  QPInv' /\ Outstanding' = Outstanding
  <1>. USE DEF QPInv, IrqHandler, WaitIrq, ClearSignal, DrainEnds, RingCompletion,
               subVars, devVars, cqVars, kernVars
  <1>1. QPTypeOK'
    BY Zenon DEF QPTypeOK
  <1>2. /\ SubWindow' = SubWindow /\ CompWindow' = CompWindow
        /\ UnseenFrom' = UnseenFrom /\ Unseen' = Unseen
    BY Zenon DEF SubWindow, CompWindow, Unseen, UnseenFrom
  <1>3. /\ InProducer' = InProducer /\ InSub' = InSub
        /\ InComp' = InComp /\ InCq' = InCq /\ dev_cmds' = dev_cmds
    BY <1>2, Zenon DEF InProducer, InSub, InComp, InCq
  <1>4. OnePlace' /\ Outstanding' = Outstanding
    BY <1>2, <1>3 DEF OnePlace, Places, Outstanding
  <1>5. SubRing' /\ CompRing' /\ HeadsInOrder'
    BY <1>2 DEF SubRing, CompRing, HeadsInOrder
  <1>6. NoLostWakeup'
    <2>1. DrainEnds => InComp = {}
      BY PhaseOfHead, Zenon DEF PhaseTellsNew, InComp
    <2>2. Asleep' /\ ~DrainEnds => Asleep
      BY Zenon DEF Asleep
    <2> QED
      BY <1>3, <2>1, <2>2, Zenon DEF NoLostWakeup
  <1> QED
    BY <1>1, <1>4, <1>5, <1>6, Zenon

(* get_next_completion takes the oldest unread completion. *)
LEMMA GetNextCompletionQPInv ==
    ASSUME QPInv, GetNextCompletion PROVE QPInv' /\ Outstanding' = Outstanding
  <1>. USE QueueAssumption DEF QPInv, GetNextCompletion, subVars, devVars, kernVars
  <1>. DEFINE c == comp_cmd[cq_head].cmd
  <1>0. /\ cq_head \in Index /\ dev_cqtail \in Index /\ inc(cq_head) \in Index
        /\ cq_head # dev_cqtail /\ cq_db = cq_head
        /\ cq_phase \in 0 .. 1 /\ dev_phase \in 0 .. 1
    BY IncIndex, PhaseOfHead, WindowMembers, Zenon DEF QPTypeOK, PhaseTellsNew,
       CompWindow, CompRing
  <1>1. QPTypeOK'
    <2>1. cq_phase' \in 0 .. 1
      BY <1>0
    <2> QED
      BY <1>0, <2>1, Zenon DEF QPTypeOK
  <1>2. /\ SubWindow' = SubWindow /\ UnseenFrom' = UnseenFrom /\ Unseen' = Unseen
        /\ CompWindow = CompWindow' \cup {cq_head} /\ cq_head \notin CompWindow'
    BY <1>0, WindowShrinks, Zenon DEF SubWindow, CompWindow, Unseen, UnseenFrom
  <1>3. /\ InProducer' = InProducer /\ InSub' = InSub /\ dev_cmds' = dev_cmds
        /\ InComp = InComp' \cup {c} /\ InCq = {} /\ InCq' = {c}
    BY <1>2, Zenon DEF InProducer, InSub, InComp, InCq
  <1>4. Outstanding' = Outstanding
    BY <1>3, Zenon DEF Outstanding
  <1>5. OnePlace'
    <2>1. AllApart(InProducer, InSub, dev_cmds, InComp, InCq)
      BY OnePlaceApart, Zenon
    <2>2. c \notin InComp'
      BY <1>2, Zenon DEF InComp, OnePlace
    <2>3. AllApart(InProducer, InSub, dev_cmds, InComp, InCq)'
      BY <2>1, <2>2, <1>3 DEF AllApart
    <2> QED
      BY <1>2, <1>4, <2>3, ApartTuple DEF OnePlace, Places
  <1>6. CompRing'
    <2>1. cq_phase' = IF cq_head' <= dev_cqtail' THEN dev_phase' ELSE 1 - dev_phase'
      BY <1>0 DEF CompRing, inc, Index
    <2> QED
      BY <1>0, <2>1, Zenon DEF CompRing
  <1>7. SubRing' /\ HeadsInOrder' /\ NoLostWakeup'
    BY <1>2, Zenon DEF SubRing, HeadsInOrder, NoLostWakeup, Asleep
  <1> QED
    BY <1>1, <1>4, <1>5, <1>6, <1>7, Zenon

(* update_sq_head moves the host's head to the one the completion carries, *)
(* which is not past the controller's; the command is no longer under way. *)
LEMMA UpdateSqHeadQPInv ==
    ASSUME QPInv, UpdateSqHead
    PROVE  /\ QPInv' /\ comp_cmd[ccs].cmd \in Outstanding
           /\ Outstanding' = Outstanding \ {comp_cmd[ccs].cmd}
  <1>. USE QueueAssumption DEF QPInv, UpdateSqHead, subVars, devVars, kernVars
  <1>. DEFINE c == comp_cmd[ccs].cmd
              h == comp_cmd[ccs].sq_head
  <1>0. /\ ccs \in Index /\ dev_cqtail \in Index /\ cq_head \in Index
        /\ cq_head = inc(ccs) /\ ccs # dev_cqtail
        /\ sq_head \in Index /\ dev_sqhd \in Index /\ sq_db \in Index
        /\ sq_tail \in Index /\ h \in Index
        /\ \A k \in Index : comp_cmd[k].sq_head \in Index
    BY Zenon DEF QPTypeOK, CompRing, Entry
  <1>1. QPTypeOK'
    BY <1>0, Zenon DEF QPTypeOK
  <1>2. /\ SubWindow' = SubWindow /\ CompWindow' = CompWindow
        /\ UnseenFrom = ccs /\ UnseenFrom' = inc(ccs)
        /\ Unseen = Unseen' \cup {ccs} /\ ccs \in Unseen /\ Unseen \subseteq Index
    BY <1>0, WindowShrinks, WindowMembers, Zenon DEF SubWindow, CompWindow, Unseen,
       UnseenFrom
  <1>3. /\ InProducer' = InProducer /\ InSub' = InSub /\ dev_cmds' = dev_cmds
        /\ InComp' = InComp /\ InCq = {c} /\ InCq' = {}
    BY <1>2, Zenon DEF InProducer, InSub, InComp, InCq
  <1>4. AllApart(InProducer, InSub, dev_cmds, InComp, InCq)
    BY OnePlaceApart, Zenon
  <1>5. c \in Outstanding /\ Outstanding' = Outstanding \ {c}
    BY <1>3, <1>4, Zenon DEF Outstanding, AllApart
  <1>6. OnePlace'
    <2>1. AllApart(InProducer, InSub, dev_cmds, InComp, InCq)'
      BY <1>3, <1>4, Zenon DEF AllApart
    <2> QED
      BY <1>2, <1>5, <2>1, ApartTuple DEF OnePlace, Places
  <1>7. SubRing'
    <2>1. InOrder(sq_head, h, dev_sqhd) /\ InOrder(sq_head, dev_sqhd, sq_db)
          /\ InOrder(sq_head, sq_db, sq_tail)
      BY <1>2, Zenon DEF HeadsInOrder, SubRing
    <2>2. InOrder(h, dev_sqhd, sq_db) /\ InOrder(sq_head, h, sq_db)
      BY <1>0, <2>1, OrderTail, Zenon
    <2>3. InOrder(h, sq_db, sq_tail)
      BY <1>0, <2>1, <2>2, OrderTail
    <2> QED
      BY <2>2, <2>3, Zenon DEF SubRing
  <1>8. HeadsInOrder'
    <2>1. ASSUME NEW k \in Unseen'
          PROVE  /\ InOrder(sq_head, h, comp_cmd[k].sq_head)
                 /\ InOrder(h, comp_cmd[k].sq_head, dev_sqhd)
                 /\ Dist(ccs, k) = Dist(inc(ccs), k) + 1
                 /\ k \in Unseen
      <3>1. k \in Unseen /\ k \in Index
        BY <1>2, Zenon
      <3>2. Dist(ccs, ccs) <= Dist(ccs, k)
        BY <1>0, <3>1, DistArith
      <3>3. InOrder(sq_head, h, comp_cmd[k].sq_head)
        BY <1>2, <3>1, <3>2, Zenon DEF HeadsInOrder
      <3>4. InOrder(sq_head, comp_cmd[k].sq_head, dev_sqhd)
        BY <3>1, Zenon DEF HeadsInOrder
      <3>5. Dist(ccs, k) = Dist(inc(ccs), k) + 1
        BY <1>0, <1>2, WindowShrinks, Zenon DEF Unseen
      <3> QED
        BY <1>0, <3>1, <3>3, <3>4, <3>5, OrderTail
    <2>2. ASSUME NEW k \in Unseen', NEW l \in Unseen',
                 Dist(inc(ccs), k) <= Dist(inc(ccs), l)
          PROVE  InOrder(h, comp_cmd[k].sq_head, comp_cmd[l].sq_head)
      <3>1. k \in Index /\ l \in Index /\ inc(ccs) \in Index
        BY <1>0, <1>2, Zenon
      <3>4. /\ Dist(inc(ccs), k) \in Int /\ Dist(inc(ccs), l) \in Int
            /\ Dist(ccs, k) = Dist(inc(ccs), k) + 1
            /\ Dist(ccs, l) = Dist(inc(ccs), l) + 1
        BY <2>1, <3>1, DistArith
      <3>2. Dist(ccs, k) <= Dist(ccs, l)
        BY <2>2, <3>4
      <3>3. InOrder(sq_head, comp_cmd[k].sq_head, comp_cmd[l].sq_head)
        BY <1>2, <2>1, <3>2, Zenon DEF HeadsInOrder
      <3> QED
        BY <1>0, <2>1, <3>1, <3>3, OrderTail
    <2> QED
      BY <1>2, <2>1, <2>2, Zenon DEF HeadsInOrder
  <1>9. CompRing' /\ NoLostWakeup'
    BY Zenon DEF CompRing, NoLostWakeup, Asleep
  <1> QED
    BY <1>1, <1>5, <1>6, <1>7, <1>8, <1>9, Zenon

LEMMA StutterQPInv ==
    ASSUME QPInv, UNCHANGED qpVars PROVE QPInv' /\ Outstanding' = Outstanding
  <1>. USE DEF QPInv, qpVars, subVars, devVars, cqVars, kernVars
  <1>1. QPTypeOK' /\ SubRing'
    BY DEF QPTypeOK, SubRing
  <1>2. /\ SubWindow' = SubWindow /\ CompWindow' = CompWindow
        /\ UnseenFrom' = UnseenFrom /\ Unseen' = Unseen
    BY Zenon DEF SubWindow, CompWindow, Unseen, UnseenFrom
  <1>3. /\ InProducer' = InProducer /\ InSub' = InSub
        /\ InComp' = InComp /\ InCq' = InCq /\ dev_cmds' = dev_cmds
    BY <1>2, Zenon DEF InProducer, InSub, InComp, InCq
  <1>4. OnePlace' /\ Outstanding' = Outstanding
    BY <1>2, <1>3 DEF OnePlace, Places, Outstanding
  <1>5. CompRing' /\ HeadsInOrder' /\ NoLostWakeup'
    BY <1>2, <1>3, Zenon DEF CompRing, HeadsInOrder, NoLostWakeup, Asleep
  <1> QED
    BY <1>1, <1>4, <1>5, Zenon

(* Every step keeps the invariant, and changes the set of commands under   *)
(* way only by next_sub_slot and update_sq_head.                           *)
LEMMA NextQPInv ==
    ASSUME QPInv, [QPNext]_qpVars
    PROVE  /\ QPInv'
           /\ \/ Outstanding' = Outstanding
              \/ \E c \in Cmd : c \notin Outstanding /\ Outstanding' = Outstanding \cup {c}
              \/ \E c \in Cmd : c \in Outstanding /\ Outstanding' = Outstanding \ {c}
  <1>1. CASE \E c \in Cmd : Submit(c)
    BY <1>1, SubmitQPInv, Zenon DEF Submit
  <1>2. CASE Host
    BY <1>2, FillSlotQPInv, RingSubmissionQPInv, Zenon DEF Host
  <1>3. CASE Device
    BY <1>3, DevFetchQPInv, DevPostQPInv, DevInterruptQPInv, Zenon DEF Device
  <1>4. CASE IrqHandler
    BY <1>4, WakeupQPInv, Zenon
  <1>5. CASE CqStep
    <2>1. CASE WaitIrq \/ ClearSignal \/ DrainEnds \/ RingCompletion
      BY <2>1, WakeupQPInv, Zenon
    <2>2. CASE GetNextCompletion
      BY <2>2, GetNextCompletionQPInv, Zenon
    <2>3. CASE UpdateSqHead
      BY <2>3, UpdateSqHeadQPInv, Zenon DEF QPInv, OnePlace
    <2> QED
      BY <1>5, <2>1, <2>2, <2>3, Zenon DEF CqStep
  <1>6. CASE UNCHANGED qpVars
    BY <1>6, StutterQPInv, Zenon
  <1> QED
    BY <1>1, <1>2, <1>3, <1>4, <1>5, <1>6, Zenon DEF QPNext

-----------------------------------------------------------------------------
(* The queue pair keeps its invariant: a command is in one place, the      *)
(* rings' indices stay in order, the heads completions carry do too.       *)
THEOREM QueuePairInvariance == QPSpec => []QPInv
  <1>1. QPInv /\ [QPNext]_qpVars => QPInv'
    BY NextQPInv, Zenon
  <1> QED
    BY InitQPInv, <1>1, PTL DEF QPSpec

(* The phase bit tells new completions from old ones, the CQ thread sleeps *)
(* on none but those that came after their interrupt, and a slot is        *)
(* rewritten only once fetched.                                            *)
THEOREM QueuePairSafety == QPSpec => [](OnePlace /\ PhaseTellsNew /\ HeadLags /\ NoLostWakeup)
  <1>1. QPInv => OnePlace /\ PhaseTellsNew /\ HeadLags /\ NoLostWakeup
    BY PhaseOfHead, Zenon DEF QPInv
  <1> QED
    BY <1>1, QueuePairInvariance, PTL

(* The queue pair implements the command service of AsyncIO: a command     *)
(* enters with next_sub_slot and leaves, once, with update_sq_head.        *)
THEOREM QueuePairService == QPSpec => ServiceSpec
  <1>1. QPInit => Service!Init
    BY InitQPInv, Zenon DEF Service!Init
  <1>2. QPInv /\ [QPNext]_qpVars => [Service!Next]_<<Outstanding, FALSE>>
    BY NextQPInv, Zenon DEF Service!Next, Service!Submit, Service!Complete
  <1> QED
    BY <1>1, <1>2, QueuePairInvariance, PTL DEF QPSpec, ServiceSpec, Service!Spec


-----------------------------------------------------------------------------
(* The command the issue loop puts into the submission ring is one the     *)
(* queue pair does not hold: its id is not in flight.                      *)
LEMMA IssuedIsFresh ==
    ASSUME TypeOK, BatchInv, SameCommands, pc = "issue"
    PROVE  <<LastSlot, alloc_cmdid>> \in Cmd \ Outstanding
  <1>1. LastSlot \in Slots
    BY NewestSlot, Zenon DEF TypeOK
  <1>2. alloc_cmdid \in CmdIds
    BY AllocId DEF TypeOK, CmdIds
  <1>3. <<LastSlot, alloc_cmdid>> \in Cmd
    BY <1>1, <1>2, CommandAssumption, Zenon DEF AllCmds
  <1>4. <<LastSlot, alloc_cmdid>> \notin inflight
    <2> SUFFICES ASSUME <<LastSlot, alloc_cmdid>> \in inflight PROVE FALSE
      BY Zenon
    <2>1. <<LastSlot, alloc_cmdid>>[2] # alloc_cmdid
      BY FreshId, Zenon
    <2> QED
      BY <2>1, Zenon
  <1> QED
    BY <1>3, <1>4, Zenon DEF SameCommands

(* Every step of the I/O path is a step of the batch manager ...           *)
LEMMA BatchStep == ASSUME [IONext]_ioVars PROVE [Next]_vars
  BY Zenon DEF IONext, ioVars, Call, IssueIO, HostIO, CompleteIO, ReleaseBatch, CqOther,
     DeviceIO, IrqIO, Next, Produce, Consume, Update, Spin

(* ... and of the queue pair, or leaves the one it is not about alone; the *)
(* two keep the same set of commands.                                      *)
LEMMA QueueStep ==
    ASSUME TypeOK, BatchInv, QPInv, SameCommands, [IONext]_ioVars
    PROVE  QPInv' /\ SameCommands' /\ [QPNext]_qpVars
  <1>. USE DEF SameCommands
  <1>1. CASE Call
    <2>1. inflight' = inflight
      BY <1>1, Zenon DEF Call, BeginBatch, ResetCmdid, CheckAvailable, PushBatch,
         BeginWait, EndWait, Spin, vars
    <2>2. UNCHANGED qpVars
      BY <1>1, Zenon DEF Call
    <2> QED
      BY <2>1, <2>2, StutterQPInv, Zenon
  <1>2. CASE IssueIO
    <2>1. PICK c : c = <<LastSlot, alloc_cmdid>>
      BY Zenon
    <2>2. inflight' = inflight \cup {c} /\ pc = "issue"
      BY <1>2, <2>1, Zenon DEF IssueIO, IssueCommand
    <2>3. c \in Cmd /\ Submit(c)
      BY <1>2, <2>1, <2>2, IssuedIsFresh DEF IssueIO, Submit
    <2>4. QPInv' /\ Outstanding' = Outstanding \cup {c}
      BY <2>3, SubmitQPInv, Zenon
    <2> QED
      BY <2>2, <2>3, <2>4, Zenon DEF QPNext
  <1>3. CASE CompleteIO
    <2>1. PICK c : c = comp_cmd[ccs].cmd
      BY Zenon
    <2>2. inflight' = inflight \ {c}
      BY <1>3, <2>1, Zenon DEF CompleteIO, Update
    <2>3. QPInv' /\ Outstanding' = Outstanding \ {c}
      BY <1>3, <2>1, UpdateSqHeadQPInv, Zenon DEF CompleteIO
    <2>4. QPNext
      BY <1>3, Zenon DEF CompleteIO, QPNext, CqStep
    <2> QED
      BY <2>2, <2>3, <2>4, Zenon
  <1>4. CASE ReleaseBatch
    <2>1. inflight' = inflight /\ UNCHANGED qpVars
      BY <1>4, Zenon DEF ReleaseBatch, PopBatch, StoreAvailable
    <2> QED
      BY <2>1, StutterQPInv, Zenon
  <1>5. CASE HostIO
    <2>1. QPInv' /\ Outstanding' = Outstanding /\ QPNext
      BY <1>5, FillSlotQPInv, RingSubmissionQPInv DEF HostIO, Host, QPNext
    <2>2. inflight' = inflight
      BY <1>5 DEF HostIO, vars
    <2> QED
      BY <2>1, <2>2, Zenon
  <1>6. CASE DeviceIO
    <2>1. QPInv' /\ Outstanding' = Outstanding /\ QPNext
      BY <1>6, DevFetchQPInv, DevPostQPInv, DevInterruptQPInv DEF DeviceIO, Device, QPNext
    <2>2. inflight' = inflight
      BY <1>6, Zenon DEF DeviceIO, vars
    <2> QED
      BY <2>1, <2>2, Zenon
  <1>7. CASE CqOther \/ IrqIO
    <2>1. QPInv' /\ Outstanding' = Outstanding /\ QPNext
      BY <1>7, WakeupQPInv, GetNextCompletionQPInv DEF CqOther, IrqIO, QPNext, CqStep
    <2>2. inflight' = inflight
      BY <1>7, Zenon DEF CqOther, IrqIO, vars
    <2> QED
      BY <2>1, <2>2, Zenon
  <1>8. CASE UNCHANGED ioVars
    <2>1. UNCHANGED qpVars /\ inflight' = inflight
      BY <1>8, Zenon DEF ioVars, vars
    <2> QED
      BY <2>1, StutterQPInv, Zenon
  <1> QED
    BY <1>1, <1>2, <1>3, <1>4, <1>5, <1>6, <1>7, <1>8 DEF IONext

LEMMA NextIOInv ==
    ASSUME IOInv, [IONext]_ioVars
    PROVE  /\ IOInv' /\ [Next]_vars
           /\ IdsKept => [QPNext]_qpVars
           /\ IdsKept' => IdsKept
  <1>1. IInv' /\ [Next]_vars
    BY BatchStep, NextIInv, Zenon DEF IOInv
  <1>2. IdsKept' => IdsKept
    BY <1>1, LappedStays, Zenon DEF IdsKept, WindowFits
  <1>3. ASSUME IdsKept PROVE QPInv' /\ SameCommands' /\ [QPNext]_qpVars
    BY <1>3, QueueStep, Zenon DEF IOInv, IInv
  <1> QED
    BY <1>1, <1>2, <1>3, Zenon DEF IOInv

LEMMA InitIOInv == IOInit => IOInv
  BY InitIInv, InitQPInv, Zenon DEF IOInit, IOInv, SameCommands, Init

-----------------------------------------------------------------------------
(* Over send_async_command, the CQ thread and the controller: the batch    *)
(* manager and the queue pair keep their invariants, and the batch manager *)
(* has in flight what the rings hold.                                      *)
THEOREM IOInvariance == IOSpec => []IOInv
  <1>1. IOInv /\ [IONext]_ioVars => IOInv'
    BY NextIOInv, Zenon
  <1> QED
    BY InitIOInv, <1>1, PTL DEF IOSpec

(* Composition: the I/O path runs the batch manager and, while IdsKept, the *)
(* queue pair as their own specifications allow.                           *)
THEOREM PathRunsItsParts == IOSpec => Parts
  <1>1. IOInit => Init /\ QPInit
    BY Zenon DEF IOInit
  <1>2. IOInv /\ [IONext]_ioVars => [Next]_vars /\ [QPNext \/ ~IdsKept']_qpVars
    BY NextIOInv, Zenon
  <1> QED
    BY <1>1, <1>2, IOInvariance, PTL DEF IOSpec, Spec, Parts

(* While IdsKept (always, where WindowFits), no command is lost or completed *)
(* twice between the issue loop and update_batch_manager.                  *)
THEOREM NoCommandIsLost == IOSpec => [](IdsKept => SameCommands)
  <1>1. IOInv => (IdsKept => SameCommands)
    BY Zenon DEF IOInv
  <1> QED
    BY <1>1, IOInvariance, PTL

(* The rings under the batch manager keep every command in one place, and  *)
(* no submission slot is rewritten before the controller has fetched it.   *)
THEOREM RingsAreSafe == IOSpec => [](IdsKept => QueueInv)
  <1>1. IOInv => (IdsKept => QueueInv)
    BY PhaseOfHead, Zenon DEF IOInv, QueueInv
  <1> QED
    BY <1>1, IOInvariance, PTL

(* get_next_completion neither skips a completion nor reads one twice.     *)
THEOREM PhaseBitIsRight == IOSpec => [](IdsKept => PhaseTellsNew)
  <1>1. IOInv => (IdsKept => PhaseTellsNew)
    BY PhaseOfHead DEF IOInv
  <1> QED
    BY <1>1, IOInvariance, PTL

(* The CQ thread never sleeps in msi_proc_read on a completion nothing     *)
(* will wake it for, unless it came after its interrupt.                   *)
THEOREM WakeupsAreKept == IOSpec => [](IdsKept => NoLostWakeup)
  <1>1. IOInv => (IdsKept => NoLostWakeup)
    BY Zenon DEF IOInv, QPInv
  <1> QED
    BY <1>1, IOInvariance, PTL

(* The I/O path implements AsyncIO, for its client and under the batch     *)
(* manager.                                                                *)
THEOREM PathImplementsAsyncIO == IOSpec => Implements
  <1>1. IOSpec => ClientSpec
    BY PathRunsItsParts, ImplementsAsyncIO, PTL DEF Parts
  <1>2. IOInit => Service!Init
    BY InitQPInv, Zenon DEF IOInit, Service!Init
  <1>3. IOInv /\ [IONext]_ioVars => [Service!Next \/ ~IdsKept']_<<Outstanding, FALSE>>
    <2> SUFFICES ASSUME IOInv, [IONext]_ioVars, IdsKept'
                 PROVE  [Service!Next]_<<Outstanding, FALSE>>
      BY Zenon
    <2>1. QPInv /\ [QPNext]_qpVars
      BY NextIOInv, Zenon DEF IOInv
    <2> QED
      BY <2>1, NextQPInv, Zenon DEF Service!Next, Service!Submit, Service!Complete
  <1> QED
    BY <1>1, <1>2, <1>3, IOInvariance, PTL DEF IOSpec, Implements
=============================================================================
