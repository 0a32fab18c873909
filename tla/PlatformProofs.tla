--------------------------- MODULE PlatformProofs ---------------------------
(***************************************************************************)
(* Theorems about the start-up of the x540 driver process, and about the   *)
(* parasite kernel module it stands on: the handlers of interrupt vectors, *)
(* and the DMA memory.                                                     *)
(***************************************************************************)
EXTENDS NicStartup, Parasite, TLAPS

-----------------------------------------------------------------------------
(***************************************************************************)
(* Start-up of the x540 driver.  NicInv says, for each device, what has    *)
(* been set up when the NIC thread is at a given stage with it.  A step of *)
(* that thread is a step for one device (SetupStep); the other threads,    *)
(* the memory component and the card leave every stage and what it relies  *)
(* on as they are (KeepStep).  A process that panics takes no more steps:  *)
(* its last one only has to be safe itself (GivesUp, RingGivesUp).         *)
(***************************************************************************)

(* A write to registers that start-up does not rely on.                    *)
View(r, c) ==
    /\ r \in CardType
    /\ r.txq = c.txq /\ r.ring = c.ring /\ r.rdt = c.rdt /\ r.fdir = c.fdir /\ r.ivar = c.ivar

LEMMA Writes ==
    ASSUME NEW c \in CardType
    PROVE  /\ View(c, c)
           /\ View([c EXCEPT !.lpbk = TRUE], c)
           /\ View([c EXCEPT !.lpbk = FALSE], c)
           /\ View([c EXCEPT !.counted = FALSE], c)
           /\ View([c EXCEPT !.secdis = TRUE], c)
           /\ View([c EXCEPT !.secdis = FALSE], c)
           /\ View([c EXCEPT !.rxen = TRUE], c)
           /\ View([c EXCEPT !.rxen = FALSE], c)
  BY Zenon DEF View, CardType

(* The NIC thread is setting up a device; it goes on from a to b without   *)
(* having more to show for it.                                             *)
InSetup == {"wait_mem"} \cup (Known \ {"done"})

Follows(a, b) ==
    /\ a \in InSetup /\ b \in InSetup /\ a # "wait_mem"
    /\ b \in Known => a \in Known
    /\ b \in Filtered => a \in Filtered
    /\ b \in Transmits => a \in Transmits
    /\ b \in Rings <=> a \in Rings
    /\ b \in Mapped => a \in Mapped
    /\ a \notin {"tx_ring", "rx_ring", "rx", "txthreads", "rxthreads"}
    /\ b \notin {"tx_ring", "rx_ring", "rx", "txthreads", "rxthreads"}

LEMMA QuietSet ==
    ASSUME NEW a, NEW b, Follows(a, b), NEW q, NEW c, NEW r, View(r, c), NEW e, NEW rx, NEW tx,
           Set(a, q, c, e, rx, tx)
    PROVE  Set(b, 0, r, e, rx, tx)
  <1>1. a # "done" /\ b # "done" /\ b \notin Vectors
    BY Zenon DEF Follows, InSetup, Vectors
  <1> QED
    BY Zenon, <1>1 DEF Set, Follows, View

LEMMA QuietStock ==
    ASSUME NEW a, NEW b, Follows(a, b), NEW q, NEW tx, NEW n, NEW pk, NEW fr,
           Stock(a, q, tx, n, pk, fr)
    PROVE  Stock(b, 0, tx, n, pk, fr)
  BY Zenon DEF Stock, Follows, Rx_left

LEMMA Followed ==
    /\ Follows("txpending", "txcleared") /\ Follows("txcleared", "reset")
    /\ Follows("stop", "txpending") /\ Follows("reset", "counters")
    /\ Follows("counters", "pb") /\ Follows("pb", "sec_off") /\ Follows("sec_off", "fdir")
    /\ Follows("fdir", "filters")
    /\ Follows("sec_on", "tx") /\ Follows("rxen", "up")
  BY Zenon DEF Follows, InSetup, Known, Filtered, Transmits, Rings, Mapped, Vectors

(* A device the NIC thread is not at is set up, or still to come.          *)
LEMMA OtherStage ==
    ASSUME NEW n \in PlaceType, n.pc \in InSetup, NEW d \in Nics, d # n.d
    PROVE  StageOf(n, d) = IF d < n.d THEN "done" ELSE "wait_mem"
  BY Zenon DEF StageOf, InSetup, Known, Filtered, Transmits, Rings, Mapped, Vectors,
     Later

LEMMA ThisStage ==
    ASSUME NEW n \in PlaceType, n.pc \in InSetup
    PROVE  StageOf(n, n.d) = n.pc
  BY NicAssumption
     DEF PlaceType, Nics, StageOf, InSetup, Known, Filtered, Transmits, Rings, Mapped, Vectors, Later

LEMMA Settled ==
    ASSUME NEW s \in {"done", "wait_mem"}, NEW p, NEW q, NEW c, NEW e, NEW rx, NEW tx, NEW n, NEW pk, NEW fr
    PROVE  /\ Set(s, p, c, e, rx, tx) => Set(s, q, c, e, rx, tx)
           /\ Stock(s, p, tx, n, pk, fr) => Stock(s, q, tx, n, pk, fr)
  BY Zenon DEF Set, Stock, Rx_left

(* A step that sets up device nic.d: it is enough to look at that device.  *)
LEMMA SetupStep ==
    ASSUME NicInv, NicTypeOK', mem.state = "MEM_READY_STATE",
           nic.pc \in InSetup, NEW b \in InSetup, NEW q, nic' = [nic EXCEPT !.pc = b, !.q = q],
           b \in {"tx_ring", "rx_ring"} => q \in Queues,
           b \in {"txthreads", "rxthreads"} => q \in Threads,
           mem'.state = mem.state, mem'.keys = mem.keys, mem'.frames = mem.frames, main' = main,
           \A d \in Nics : d # nic.d =>
              /\ card'[d] = card[d] /\ dev'[d] = dev[d] /\ rxt'[d] = rxt[d] /\ txt'[d] = txt[d]
              /\ mem'.desc[d] = mem.desc[d] /\ mem'.packet[d] = mem.packet[d],
           Set(b, q, card'[nic.d], dev'[nic.d], rxt'[nic.d], txt'[nic.d]),
           Stock(b, q, txt'[nic.d], mem'.desc[nic.d], mem'.packet[nic.d], mem'.frames)
    PROVE  NicInv'
  <1>0. nic'.pc = b /\ nic'.q = q /\ nic'.d = nic.d /\ nic.d \in Nics
    BY Zenon DEF NicInv, NicTypeOK, PlaceType
  <1>1. "start" \notin InSetup /\ "ctor" \notin InSetup
    BY Zenon DEF InSetup, Known, Filtered, Transmits, Rings, Mapped, Vectors
  <1>2. MemInv'
    <2>1. main' = "sleep"
      BY Zenon, <1>1 DEF NicInv, MemInv
    <2>2. \A x \in Nics \X Allocators : mem'.keys[x] \in {0, key(x[1], x[2])}
      BY Zenon DEF NicInv, MemInv
    <2> QED
      BY Zenon, <2>1, <2>2 DEF MemInv
  <1>3. PlaceInv'
    BY Zenon, <1>0, <1>1 DEF PlaceInv
  <1>4. nic \in PlaceType /\ nic' \in PlaceType
    BY Zenon DEF NicInv, NicTypeOK
  <1>5. ASSUME NEW d \in Nics PROVE DevInv(d)'
    <2>1. CASE d = nic.d
      <3>1. StageOf(nic', nic'.d) = b
        BY Zenon, <1>0, <1>4, ThisStage
      <3>2. StageOf(nic', d) = b
        BY Zenon, <1>0, <2>1, <3>1
      <3> QED
        BY Zenon, <1>0, <2>1, <3>2 DEF DevInv
    <2>2. CASE d # nic.d
      <3>1. StageOf(nic, d) = IF d < nic.d THEN "done" ELSE "wait_mem"
        BY Zenon, <1>4, <2>2, OtherStage
      <3>2. StageOf(nic', d) = StageOf(nic, d)
        BY Zenon, <1>0, <1>4, <2>2, <3>1, OtherStage
      <3>3. StageOf(nic, d) \in {"done", "wait_mem"}
        BY Zenon, <3>1
      <3>4. /\ Set(StageOf(nic, d), nic.q, card[d], dev[d], rxt[d], txt[d])
            /\ Stock(StageOf(nic, d), nic.q, txt[d], mem.desc[d], mem.packet[d], mem.frames)
        BY Zenon DEF NicInv, DevInv
      <3>5. /\ Set(StageOf(nic, d), q, card[d], dev[d], rxt[d], txt[d])
            /\ Stock(StageOf(nic, d), q, txt[d], mem.desc[d], mem.packet[d], mem.frames)
        BY Zenon, <3>3, <3>4, Settled
      <3> QED
        BY Zenon, <1>0, <2>2, <3>2, <3>5 DEF DevInv
    <2> QED
      BY Zenon, <2>1, <2>2
  <1> QED
    BY Zenon, <1>2, <1>3, <1>5 DEF NicInv

LEMMA Here ==
    ASSUME NicInv, nic.pc \in InSetup \ {"wait_mem"}
    PROVE  /\ mem.state = "MEM_READY_STATE" /\ nic.d \in Nics /\ card[nic.d] \in CardType
           /\ Set(nic.pc, nic.q, card[nic.d], dev[nic.d], rxt[nic.d], txt[nic.d])
           /\ Stock(nic.pc, nic.q, txt[nic.d], mem.desc[nic.d], mem.packet[nic.d], mem.frames)
  <1>1. mem.state = "MEM_READY_STATE"
    BY Zenon DEF NicInv, MemInv, InSetup, Known, Filtered, Transmits, Rings, Mapped,
       Vectors
  <1>2. nic \in PlaceType /\ nic.d \in Nics /\ card[nic.d] \in CardType
    BY Zenon DEF NicInv, NicTypeOK, PlaceType
  <1>3. StageOf(nic, nic.d) = nic.pc
    BY Zenon, <1>2, ThisStage
  <1> QED
    BY Zenon, <1>1, <1>2, <1>3 DEF NicInv, DevInv

(* A step of the NIC thread by Step, from a to b.                          *)
LEMMA StepTypes ==
    ASSUME NicInv, NEW a, NEW b \in InSetup, NEW r \in CardType, Step(a, b, r)
    PROVE  /\ card' \in [Nics -> CardType] /\ nic' \in PlaceType
           /\ nic' = [nic EXCEPT !.pc = b, !.q = 0] /\ nic.pc = a
           /\ card'[nic.d] = r /\ \A d \in Nics : d # nic.d => card'[d] = card[d]
  <1>1. nic \in PlaceType /\ card \in [Nics -> CardType] /\ nic.d \in Nics
    BY Zenon DEF NicInv, NicTypeOK, PlaceType
  <1>2. nic' = [nic EXCEPT !.pc = b, !.q = 0] /\ nic.pc = a /\ card' = [card EXCEPT ![nic.d] = r]
    BY Zenon DEF Step, d0
  <1>3. nic' \in PlaceType
    BY <1>1, <1>2, Zenon DEF PlaceType, InSetup
  <1> QED
    BY <1>1, <1>2, <1>3, Zenon

LEMMA QuietStep ==
    ASSUME NicInv, NEW a, NEW b, NEW r, Step(a, b, r), Follows(a, b), View(r, card[nic.d]),
           UNCHANGED <<main, mem, dev, rxt, txt>>
    PROVE  NicInv'
  <1>1. a \in InSetup \ {"wait_mem"} /\ b \in InSetup /\ r \in CardType
        /\ b \notin {"tx_ring", "rx_ring", "rx", "txthreads", "rxthreads"}
    BY Zenon DEF Follows, View
  <1>2. /\ card' \in [Nics -> CardType] /\ nic' \in PlaceType
        /\ nic' = [nic EXCEPT !.pc = b, !.q = 0] /\ nic.pc = a
        /\ card'[nic.d] = r /\ \A d \in Nics : d # nic.d => card'[d] = card[d]
    BY Zenon, <1>1, StepTypes
  <1>3. /\ mem.state = "MEM_READY_STATE"
        /\ Set(a, nic.q, card[nic.d], dev[nic.d], rxt[nic.d], txt[nic.d])
        /\ Stock(a, nic.q, txt[nic.d], mem.desc[nic.d], mem.packet[nic.d], mem.frames)
    BY Zenon, <1>1, <1>2, Here
  <1>4. Set(b, 0, r, dev[nic.d], rxt[nic.d], txt[nic.d])
    BY <1>3, QuietSet
  <1>5. Stock(b, 0, txt[nic.d], mem.desc[nic.d], mem.packet[nic.d], mem.frames)
    BY <1>3, QuietStock
  <1>6. NicTypeOK'
    BY Zenon, <1>2 DEF NicInv, NicTypeOK
  <1> QED
    BY Zenon, <1>1, <1>2, <1>3, <1>4, <1>5, <1>6, SetupStep

LEMMA QuietSteps ==
    ASSUME NicInv,
           \/ Clear_tx_pending \/ Clear_hw_counters \/ Disable_sec_rx_path
           \/ Enable_sec_rx_path \/ Enable_rx
    PROVE  NicInv'
  <1>0. card[nic.d] \in CardType
    BY Zenon DEF NicInv, NicTypeOK, PlaceType
  <1>1. CASE Clear_tx_pending
    BY Zenon, <1>0, <1>1, Followed, Writes, QuietStep DEF Clear_tx_pending, d0
  <1>2. CASE Clear_hw_counters
    BY Zenon, <1>0, <1>2, Followed, Writes, QuietStep DEF Clear_hw_counters, d0
  <1>3. CASE Disable_sec_rx_path
    BY Zenon, <1>0, <1>3, Followed, Writes, QuietStep DEF Disable_sec_rx_path, d0
  <1>4. CASE Enable_sec_rx_path
    BY Zenon, <1>0, <1>4, Followed, Writes, QuietStep DEF Enable_sec_rx_path, d0
  <1>5. CASE Enable_rx
    BY Zenon, <1>0, <1>5, Followed, Writes, QuietStep DEF Enable_rx, d0
  <1> QED
    BY Zenon, <1>1, <1>2, <1>3, <1>4, <1>5

(* Before the filters are set, a card only has to keep rdt within its      *)
(* rings.                                                                  *)
LEMMA EarlyStep ==
    ASSUME NicInv, NEW a, NEW b, NEW r \in CardType, Step(a, b, r), Follows(a, b),
           b \notin Filtered, r.rdt \subseteq r.ring, UNCHANGED <<main, mem, dev, rxt, txt>>
    PROVE  NicInv'
  <1>1. a \in InSetup \ {"wait_mem"} /\ b \in InSetup
        /\ b \notin {"tx_ring", "rx_ring", "rx", "txthreads", "rxthreads"}
        /\ a \notin {"tx_ring", "rx_ring", "rx", "txthreads", "rxthreads"}
    BY Zenon DEF Follows
  <1>2. /\ card' \in [Nics -> CardType] /\ nic' \in PlaceType
        /\ nic' = [nic EXCEPT !.pc = b, !.q = 0] /\ nic.pc = a
        /\ card'[nic.d] = r /\ \A d \in Nics : d # nic.d => card'[d] = card[d]
    BY Zenon, <1>1, StepTypes
  <1>3. /\ mem.state = "MEM_READY_STATE"
        /\ Set(a, nic.q, card[nic.d], dev[nic.d], rxt[nic.d], txt[nic.d])
        /\ Stock(a, nic.q, txt[nic.d], mem.desc[nic.d], mem.packet[nic.d], mem.frames)
    BY Zenon, <1>1, <1>2, Here
  <1>4. Set(b, 0, r, dev[nic.d], rxt[nic.d], txt[nic.d])
    <2>1. b \notin Transmits /\ b \notin Rings /\ b \notin Mapped /\ b \notin Vectors
      BY Zenon DEF Filtered, Transmits, Rings, Mapped
    <2>2. a # "done" /\ a \in Known
      BY Zenon, <1>1 DEF InSetup
    <2> QED
      BY Zenon, <1>1, <1>3, <2>1, <2>2 DEF Set
  <1>5. Stock(b, 0, txt[nic.d], mem.desc[nic.d], mem.packet[nic.d], mem.frames)
    BY <1>3, QuietStock
  <1>6. NicTypeOK'
    BY Zenon, <1>2 DEF NicInv, NicTypeOK
  <1> QED
    BY Zenon, <1>1, <1>2, <1>3, <1>4, <1>5, <1>6, SetupStep

LEMMA EarlyStages ==
    \A b \in {"txpending", "counters", "sec_off", "filters"} : b \notin Filtered
  BY Zenon DEF Filtered, Transmits, Rings, Mapped, Vectors

LEMMA EarlySteps ==
    ASSUME NicInv,
           \/ Stop_adapter \/ Setup_rxpba
           \/ Reset_hw /\ nic'.pc # "panic"
           \/ Init_fdir_perfect /\ nic'.pc # "panic"
    PROVE  NicInv'
  <1>0. card[nic.d] \in CardType /\ card[nic.d].rdt \subseteq card[nic.d].ring /\ nic \in PlaceType
    BY Zenon DEF NicInv, NicTypeOK, PlaceType, DevInv, Set
  <1>1. CASE Stop_adapter
    <2> DEFINE r == [card[d0] EXCEPT !.rxen = FALSE, !.eims = {}, !.eicr = {}, !.txq = {}, !.rxq = {}]
    <2>1. r \in CardType /\ r.rdt \subseteq r.ring
      BY <1>0, Zenon DEF CardType, d0
    <2>2. Step("stop", "txpending", r) /\ UNCHANGED <<main, mem, dev, rxt, txt>>
      BY Zenon, <1>1 DEF Stop_adapter
    <2> HIDE DEF r
    <2> QED
      BY Zenon, <2>1, <2>2, Followed, EarlyStages, EarlyStep
  <1>2. CASE Setup_rxpba
    <2> DEFINE r == [card[d0] EXCEPT !.pb = @ - hdrm]
    <2>1. r \in CardType /\ r.rdt \subseteq r.ring
      BY <1>0 DEF CardType, d0, hdrm
    <2>2. Step("pb", "sec_off", r) /\ UNCHANGED <<main, mem, dev, rxt, txt>>
      BY Zenon, <1>2 DEF Setup_rxpba
    <2> HIDE DEF r
    <2> QED
      BY Zenon, <2>1, <2>2, Followed, EarlyStages, EarlyStep
  <1>3. CASE Reset_hw /\ nic'.pc # "panic"
    <2>1. Reset \in CardType /\ Reset.rdt \subseteq Reset.ring
      BY DEF CardType, Reset
    <2>2. Step("reset", "panic", card[d0]) => nic'.pc = "panic"
      BY <1>0, Zenon DEF Step, PlaceType
    <2>3. Step("reset", "counters", Reset) /\ UNCHANGED <<main, mem, dev, rxt, txt>>
      BY Zenon, <1>3, <2>2 DEF Reset_hw, StepOrPanic
    <2> QED
      BY Zenon, <2>1, <2>3, Followed, EarlyStages, EarlyStep
  <1>4. CASE Init_fdir_perfect /\ nic'.pc # "panic"
    <2> DEFINE r == [card[d0] EXCEPT !.fdir = {}]
    <2>1. r \in CardType /\ r.rdt \subseteq r.ring
      BY <1>0, Zenon DEF CardType, d0
    <2>2. Step("fdir", "panic", card[d0]) => nic'.pc = "panic"
      BY <1>0, Zenon DEF Step, PlaceType
    <2>3. Step("fdir", "filters", r) /\ UNCHANGED <<main, mem, dev, rxt, txt>>
      BY Zenon, <1>4, <2>2 DEF Init_fdir_perfect, StepOrPanic
    <2> HIDE DEF r
    <2> QED
      BY Zenon, <2>1, <2>3, Followed, EarlyStages, EarlyStep
  <1> QED
    BY Zenon, <1>1, <1>2, <1>3, <1>4

(* Taking blocks from the allocators of device d.                          *)
LEMMA TakeDesc ==
    ASSUME mem \in MemType, NEW d \in Nics, mem.desc[d] > 0, mem' = [mem EXCEPT !.desc[d] = @ - 1]
    PROVE  /\ mem' \in MemType /\ mem'.state = mem.state /\ mem'.keys = mem.keys /\ mem'.frames = mem.frames
           /\ mem'.packet = mem.packet
           /\ mem'.desc[d] = mem.desc[d] - 1 /\ \A x \in Nics : x # d => mem'.desc[x] = mem.desc[x]
  <1> DEFINE g == [mem.desc EXCEPT ![d] = @ - 1]
  <1>1. mem.desc \in [Nics -> Nat]
    BY Zenon DEF MemType
  <1>2. g \in [Nics -> Nat] /\ g[d] = mem.desc[d] - 1 /\ \A x \in Nics : x # d => g[x] = mem.desc[x]
    BY <1>1
  <1>3. mem' = [mem EXCEPT !.desc = g]
    BY Zenon DEF MemType
  <1> HIDE DEF g
  <1>4. /\ mem' \in MemType /\ mem'.state = mem.state /\ mem'.keys = mem.keys /\ mem'.frames = mem.frames
        /\ mem'.packet = mem.packet /\ mem'.desc = g
    BY <1>1, <1>2, <1>3, Zenon DEF MemType
  <1> QED
    BY Zenon, <1>2, <1>4

LEMMA TakePackets ==
    ASSUME mem \in MemType, NEW d \in Nics, NEW t \in Threads, NEW k \in Nat, mem.packet[d][t] >= k,
           mem' = [mem EXCEPT !.packet[d][t] = @ - k]
    PROVE  /\ mem' \in MemType /\ mem'.state = mem.state /\ mem'.keys = mem.keys /\ mem'.frames = mem.frames
           /\ mem'.desc = mem.desc
           /\ mem'.packet[d][t] = mem.packet[d][t] - k
           /\ \A u \in Threads : u # t => mem'.packet[d][u] = mem.packet[d][u]
           /\ \A x \in Nics : x # d => mem'.packet[x] = mem.packet[x]
  <1>1. mem.packet[d] \in [Threads -> Nat] /\ mem.packet \in [Nics -> [Threads -> Nat]]
    BY Zenon DEF MemType
  <1> DEFINE f == [mem.packet[d] EXCEPT ![t] = @ - k]
             g == [mem.packet EXCEPT ![d] = f]
  <1>2. f \in [Threads -> Nat] /\ f[t] = mem.packet[d][t] - k
        /\ \A u \in Threads : u # t => f[u] = mem.packet[d][u]
    BY <1>1
  <1>3. mem' = [mem EXCEPT !.packet = g]
    BY Zenon DEF MemType
  <1> HIDE DEF f
  <1>4. g \in [Nics -> [Threads -> Nat]] /\ g[d] = f /\ \A x \in Nics : x # d => g[x] = mem.packet[x]
    BY <1>1, <1>2, Zenon
  <1> HIDE DEF g
  <1>5. /\ mem' \in MemType /\ mem'.state = mem.state /\ mem'.keys = mem.keys /\ mem'.frames = mem.frames
        /\ mem'.desc = mem.desc /\ mem'.packet = g
    BY <1>3, <1>4, Zenon DEF MemType
  <1> QED
    BY Zenon, <1>2, <1>4, <1>5

(* The NIC thread goes on to the next queue or thread.                     *)
LEMMA NextPlace ==
    ASSUME NEW n \in PlaceType, n.q + 1 \in Nat
    PROVE  /\ [n EXCEPT !.q = @ + 1] = [n EXCEPT !.pc = n.pc, !.q = n.q + 1]
           /\ [n EXCEPT !.q = @ + 1] \in PlaceType
  BY Zenon DEF PlaceType

LEMMA ParamStep == ASSUME NicInv, Init_nic_param PROVE NicInv'
  <1>0. nic \in PlaceType /\ nic.d \in Nics /\ card[nic.d] \in CardType /\ dev \in [Nics -> DevType]
        /\ dev[nic.d] \in DevType
    BY Zenon DEF NicInv, NicTypeOK, PlaceType
  <1>1. Step("wait_mem", "stop", card[nic.d]) /\ mem.state = "MEM_READY_STATE"
        /\ UNCHANGED <<main, mem, rxt, txt>>
    BY Zenon DEF Init_nic_param, d0
  <1>2. "wait_mem" \in InSetup /\ "stop" \in InSetup
    BY Zenon DEF InSetup, Known
  <1>3. /\ card' \in [Nics -> CardType] /\ nic' \in PlaceType
        /\ nic' = [nic EXCEPT !.pc = "stop", !.q = 0] /\ nic.pc = "wait_mem"
        /\ card'[nic.d] = card[nic.d] /\ \A d \in Nics : d # nic.d => card'[d] = card[d]
    BY Zenon, <1>0, <1>1, <1>2, StepTypes
  <1>4. StageOf(nic, nic.d) = "wait_mem"
    BY Zenon, <1>0, <1>2, <1>3, ThisStage
  <1>5. /\ Set("wait_mem", nic.q, card[nic.d], dev[nic.d], rxt[nic.d], txt[nic.d])
        /\ Stock("wait_mem", nic.q, txt[nic.d], mem.desc[nic.d], mem.packet[nic.d], mem.frames)
    BY Zenon, <1>0, <1>1, <1>4 DEF NicInv, DevInv
  <1>6. dev' = [dev EXCEPT ![nic.d].flow = Own]
    BY Zenon DEF Init_nic_param, d0, Own
  <1>7. Own \in [Threads -> Int]
    BY NicAssumption DEF Own, Threads
  <1>8. /\ dev' \in [Nics -> DevType] /\ dev'[nic.d].flow = Own
        /\ \A d \in Nics : d # nic.d => dev'[d] = dev[d]
    BY <1>0, <1>6, <1>7, Zenon DEF DevType
  <1>9. Set("stop", 0, card[nic.d], dev'[nic.d], rxt[nic.d], txt[nic.d])
    <2>1. "stop" \notin Filtered /\ "stop" \notin Transmits /\ "stop" \notin Rings /\ "stop" \notin Mapped
          /\ "stop" \notin Vectors
      BY Zenon DEF Filtered, Transmits, Rings, Mapped, Vectors
    <2> QED
      BY Zenon, <1>5, <1>8, <2>1 DEF Set
  <1>10. Stock("stop", 0, txt[nic.d], mem.desc[nic.d], mem.packet[nic.d], mem.frames)
    BY <1>5, Zenon DEF Stock, Rx_left, Rings, Mapped, Vectors
  <1>11. NicTypeOK'
    BY Zenon, <1>1, <1>3, <1>8 DEF NicInv, NicTypeOK
  <1> QED
    BY Zenon, <1>1, <1>2, <1>3, <1>8, <1>9, <1>10, <1>11, SetupStep

LEMMA FilterStep == ASSUME NicInv, Filter_setup PROVE NicInv'
  <1>0. nic \in PlaceType /\ nic.d \in Nics /\ card[nic.d] \in CardType
    BY Zenon DEF NicInv, NicTypeOK, PlaceType
  <1> DEFINE F == {setup_fdir_filter(dev[d0].flow[t], t) : t \in Threads}
             r == [card[nic.d] EXCEPT !.fdir = F]
  <1>1. Step("filters", "sec_on", r) /\ UNCHANGED <<main, mem, dev, rxt, txt>>
    BY Zenon DEF Filter_setup, d0
  <1>2. "filters" \in InSetup \ {"wait_mem"} /\ "sec_on" \in InSetup
    BY Zenon DEF InSetup, Known, Filtered
  <1>3. nic.pc = "filters"
    BY Zenon, <1>1 DEF Step
  <1>4. /\ mem.state = "MEM_READY_STATE"
        /\ Set("filters", nic.q, card[nic.d], dev[nic.d], rxt[nic.d], txt[nic.d])
        /\ Stock("filters", nic.q, txt[nic.d], mem.desc[nic.d], mem.packet[nic.d], mem.frames)
    BY Zenon, <1>2, <1>3, Here
  <1>5. dev[nic.d].flow = Own
    BY Zenon, <1>4 DEF Set, Known
  <1>6. F = Filters
    BY <1>5, Zenon DEF Filters, setup_fdir_filter, d0, Own
  <1>7. Filters \subseteq Int \X Int
    BY NicAssumption DEF Filters, Threads
  <1> HIDE DEF F
  <1>8. r \in CardType /\ r.fdir = Filters /\ r.rdt = card[nic.d].rdt /\ r.ring = card[nic.d].ring
    BY <1>0, <1>6, <1>7, Zenon DEF CardType
  <1> HIDE DEF r
  <1>9. /\ card' \in [Nics -> CardType] /\ nic' \in PlaceType
        /\ nic' = [nic EXCEPT !.pc = "sec_on", !.q = 0] /\ nic.pc = "filters"
        /\ card'[nic.d] = r /\ \A d \in Nics : d # nic.d => card'[d] = card[d]
    BY Zenon, <1>1, <1>2, <1>8, StepTypes
  <1>10. Set("sec_on", 0, r, dev[nic.d], rxt[nic.d], txt[nic.d])
    <2>1. "sec_on" \notin Transmits /\ "sec_on" \notin Rings /\ "sec_on" \notin Mapped /\ "sec_on" \notin Vectors
      BY Zenon DEF Transmits, Rings, Mapped, Vectors
    <2> QED
      BY Zenon, <1>4, <1>5, <1>8, <2>1 DEF Set
  <1>11. Stock("sec_on", 0, txt[nic.d], mem.desc[nic.d], mem.packet[nic.d], mem.frames)
    BY <1>4, Zenon DEF Stock, Rx_left, Rings, Mapped, Vectors
  <1>12. NicTypeOK'
    BY Zenon, <1>1, <1>9 DEF NicInv, NicTypeOK
  <1> QED
    BY Zenon, <1>1, <1>2, <1>4, <1>9, <1>10, <1>11, <1>12, SetupStep

LEMMA TxStep == ASSUME NicInv, Configure_tx PROVE NicInv'
  <1>0. nic \in PlaceType /\ nic.d \in Nics /\ card[nic.d] \in CardType /\ mem \in MemType
    BY Zenon DEF NicInv, NicTypeOK, PlaceType
  <1>1. /\ Step("tx", "tx_ring", card[nic.d]) /\ mem' = [mem EXCEPT !.desc[nic.d] = @ - 1]
        /\ UNCHANGED <<main, dev, rxt, txt>>
    BY Zenon DEF Configure_tx, d0
  <1>2. "tx" \in InSetup \ {"wait_mem"} /\ "tx_ring" \in InSetup
    BY Zenon DEF InSetup, Known, Filtered
  <1>3. /\ card' \in [Nics -> CardType] /\ nic' \in PlaceType
        /\ nic' = [nic EXCEPT !.pc = "tx_ring", !.q = 0] /\ nic.pc = "tx"
        /\ card'[nic.d] = card[nic.d] /\ \A d \in Nics : d # nic.d => card'[d] = card[d]
    BY Zenon, <1>0, <1>1, <1>2, StepTypes
  <1>4. /\ mem.state = "MEM_READY_STATE"
        /\ Set("tx", nic.q, card[nic.d], dev[nic.d], rxt[nic.d], txt[nic.d])
        /\ Stock("tx", nic.q, txt[nic.d], mem.desc[nic.d], mem.packet[nic.d], mem.frames)
    BY Zenon, <1>2, <1>3, Here
  <1>5. mem.desc[nic.d] = 2
    BY <1>4, Zenon DEF Stock, Rings, Mapped, Vectors
  <1>6. /\ mem' \in MemType /\ mem'.state = mem.state /\ mem'.keys = mem.keys /\ mem'.frames = mem.frames /\ mem'.packet = mem.packet
        /\ mem'.desc[nic.d] = mem.desc[nic.d] - 1
        /\ \A x \in Nics : x # nic.d => mem'.desc[x] = mem.desc[x]
    <2>1. mem.desc[nic.d] > 0
      BY <1>5
    <2> QED
      BY <1>0, <1>1, <2>1, TakeDesc, Zenon
  <1>7. mem'.desc[nic.d] = 1
    BY <1>5, <1>6
  <1>8. Set("tx_ring", 0, card[nic.d], dev[nic.d], rxt[nic.d], txt[nic.d])
    <2>1. /\ "tx_ring" \notin Transmits /\ "tx_ring" \notin Rings /\ "tx_ring" \notin Mapped
          /\ "tx_ring" \notin Vectors /\ "tx" \in Known /\ "tx" \in Filtered
      BY Zenon DEF Transmits, Rings, Mapped, Vectors, Known, Filtered
    <2>2. 0 .. 0 - 1 \subseteq card[nic.d].txq
      OBVIOUS
    <2> QED
      BY Zenon, <1>4, <2>1, <2>2 DEF Set
  <1>9. Stock("tx_ring", 0, txt[nic.d], mem'.desc[nic.d], mem'.packet[nic.d], mem'.frames)
    BY <1>4, <1>6, <1>7, Zenon DEF Stock, Rx_left, Rings, Mapped, Vectors
  <1>10. NicTypeOK'
    BY Zenon, <1>1, <1>3, <1>6 DEF NicInv, NicTypeOK
  <1>11. 0 \in Queues
    BY NicAssumption DEF Queues
  <1> QED
    BY Zenon, <1>1, <1>2, <1>3, <1>4, <1>6, <1>8, <1>9, <1>10, <1>11, SetupStep

LEMMA TxRingStep == ASSUME NicInv, Configure_tx_ring, nic'.pc # "panic" PROVE NicInv'
  <1>0. nic \in PlaceType /\ nic.d \in Nics /\ card \in [Nics -> CardType] /\ card[nic.d] \in CardType
        /\ nic.pc = "tx_ring" /\ nic.q \in Queues
    BY Zenon DEF NicInv, NicTypeOK, PlaceType, PlaceInv, Configure_tx_ring
  <1>1. [nic EXCEPT !.pc = "panic"].pc = "panic"
    BY <1>0, Zenon DEF PlaceType
  <1>2. /\ card' = [card EXCEPT ![nic.d].txq = @ \cup {nic.q}]
        /\ nic' = IF nic.q + 1 \in Queues THEN [nic EXCEPT !.q = @ + 1]
                  ELSE [nic EXCEPT !.pc = "rx", !.q = 0]
        /\ UNCHANGED <<main, mem, dev, rxt, txt>>
    BY Zenon, <1>1 DEF Configure_tx_ring, d0
  <1>3. "tx_ring" \in InSetup \ {"wait_mem"} /\ "rx" \in InSetup
    BY Zenon DEF InSetup, Known, Filtered, Transmits
  <1>4. /\ mem.state = "MEM_READY_STATE"
        /\ Set("tx_ring", nic.q, card[nic.d], dev[nic.d], rxt[nic.d], txt[nic.d])
        /\ Stock("tx_ring", nic.q, txt[nic.d], mem.desc[nic.d], mem.packet[nic.d], mem.frames)
    BY Zenon, <1>0, <1>3, Here
  <1>5. nic.q \in Int
    BY <1>0, NicAssumption DEF Queues
  <1>6. /\ card' \in [Nics -> CardType] /\ \A d \in Nics : d # nic.d => card'[d] = card[d]
        /\ card'[nic.d] = [card[nic.d] EXCEPT !.txq = @ \cup {nic.q}]
    BY Zenon, <1>0, <1>2, <1>5 DEF CardType
  <1>7. /\ card'[nic.d].fdir = card[nic.d].fdir
        /\ card'[nic.d].ring = card[nic.d].ring /\ card'[nic.d].rdt = card[nic.d].rdt
    BY <1>0, <1>6, Zenon DEF CardType
  <1>8. 0 .. nic.q - 1 \subseteq card[nic.d].txq
    BY Zenon, <1>4 DEF Set
  <1>9. 0 .. nic.q + 1 - 1 \subseteq card'[nic.d].txq
    <2>1. card'[nic.d].txq = card[nic.d].txq \cup {nic.q}
      BY <1>0, <1>6, Zenon DEF CardType
    <2> QED
      BY <1>5, <1>8, <2>1
  <1>10. CASE nic.q + 1 \in Queues
    <2>0. nic.q + 1 \in Nat
      BY <1>10 DEF Queues
    <2>1. nic' = [nic EXCEPT !.pc = "tx_ring", !.q = nic.q + 1] /\ nic' \in PlaceType
      BY <1>0, <1>2, <1>10, <2>0, NextPlace, Zenon
    <2>2. Set("tx_ring", nic.q + 1, card'[nic.d], dev[nic.d], rxt[nic.d], txt[nic.d])
      <3>1. /\ "tx_ring" \notin Transmits /\ "tx_ring" \notin Rings /\ "tx_ring" \notin Mapped
            /\ "tx_ring" \notin Vectors
        BY Zenon DEF Transmits, Rings, Mapped, Vectors
      <3>2. \A t \in Threads : txt[nic.d][t] = "none" /\ rxt[nic.d][t] = "none"
        BY Zenon, <1>4 DEF Set
      <3>3. PICK k \in Nat : k = nic.q + 1
        BY <2>0, Zenon
      <3>4. 0 .. k - 1 \subseteq card'[nic.d].txq
        BY <1>5, <1>9, <3>3
      <3>5. Set("tx_ring", k, card'[nic.d], dev[nic.d], rxt[nic.d], txt[nic.d])
        <4>1. Set("tx_ring", nic.q, card[nic.d], dev[nic.d], rxt[nic.d], txt[nic.d])
          BY Zenon, <1>4
        <4> QED
          BY Zenon, <4>1, <1>7, <3>1, <3>2, <3>4 DEF Set
      <3> QED
        BY Zenon, <3>3, <3>5
    <2>3. Stock("tx_ring", nic.q + 1, txt[nic.d], mem.desc[nic.d], mem.packet[nic.d], mem.frames)
      BY Zenon, <1>4 DEF Stock, Rx_left
    <2>4. NicTypeOK'
      BY Zenon, <1>2, <1>6, <2>1 DEF NicInv, NicTypeOK
    <2> QED
      BY Zenon, <1>0, <1>2, <1>3, <1>4, <1>6, <1>10, <2>1, <2>2, <2>3, <2>4, SetupStep
  <1>11. CASE nic.q + 1 \notin Queues
    <2>1. nic' = [nic EXCEPT !.pc = "rx", !.q = 0] /\ nic' \in PlaceType
      BY <1>0, <1>2, <1>11, Zenon DEF PlaceType, Known, Filtered, Transmits
    <2>2. Queues \subseteq card'[nic.d].txq
      BY <1>0, <1>9, <1>11, NicAssumption DEF Queues
    <2>3. Set("rx", 0, card'[nic.d], dev[nic.d], rxt[nic.d], txt[nic.d])
      <3>1. "rx" \notin Rings /\ "rx" \notin Mapped /\ "rx" \notin Vectors
            /\ "tx_ring" \in Known /\ "tx_ring" \in Filtered
        BY Zenon DEF Transmits, Rings, Mapped, Vectors, Known, Filtered
      <3> QED
        BY Zenon, <1>4, <1>7, <2>2, <3>1 DEF Set
    <2>4. Stock("rx", 0, txt[nic.d], mem.desc[nic.d], mem.packet[nic.d], mem.frames)
      BY <1>4, Zenon DEF Stock, Rx_left, Rings, Mapped, Vectors
    <2>5. NicTypeOK'
      BY Zenon, <1>2, <1>6, <2>1 DEF NicInv, NicTypeOK
    <2>6. nic.pc \in InSetup
      BY Zenon, <1>0, <1>3
    <2>7. mem'.state = mem.state /\ mem'.keys = mem.keys /\ mem'.frames = mem.frames /\ main' = main
      BY Zenon, <1>2
    <2>8. Set("rx", 0, card'[nic.d], dev'[nic.d], rxt'[nic.d], txt'[nic.d])
      BY Zenon, <1>2, <2>3
    <2>9. Stock("rx", 0, txt'[nic.d], mem'.desc[nic.d], mem'.packet[nic.d], mem'.frames)
      BY Zenon, <1>2, <2>4
    <2>10. \A d \in Nics : d # nic.d =>
              /\ card'[d] = card[d] /\ dev'[d] = dev[d] /\ rxt'[d] = rxt[d] /\ txt'[d] = txt[d]
              /\ mem'.desc[d] = mem.desc[d] /\ mem'.packet[d] = mem.packet[d]
      BY Zenon, <1>2, <1>6
    <2> QED
      BY Zenon, <1>3, <1>4, <2>1, <2>5, <2>6, <2>7, <2>8, <2>9, <2>10, SetupStep
  <1> QED
    BY Zenon, <1>10, <1>11

LEMMA RxStep == ASSUME NicInv, Configure_rx PROVE NicInv'
  <1>0. nic \in PlaceType /\ nic.d \in Nics /\ card[nic.d] \in CardType /\ mem \in MemType
    BY Zenon DEF NicInv, NicTypeOK, PlaceType
  <1> DEFINE r == [card[nic.d] EXCEPT !.rxen = FALSE]
  <1>1. /\ Step("rx", "rx_ring", r) /\ mem' = [mem EXCEPT !.desc[nic.d] = @ - 1]
        /\ UNCHANGED <<main, dev, rxt, txt>>
    BY Zenon DEF Configure_rx, d0
  <1>2. "rx" \in InSetup \ {"wait_mem"} /\ "rx_ring" \in InSetup
    BY Zenon DEF InSetup, Known, Filtered, Transmits
  <1>v. View(r, card[nic.d])
    BY Zenon, <1>0, Writes
  <1> HIDE DEF r
  <1>3. /\ card' \in [Nics -> CardType] /\ nic' \in PlaceType
        /\ nic' = [nic EXCEPT !.pc = "rx_ring", !.q = 0] /\ nic.pc = "rx"
        /\ card'[nic.d] = r /\ \A d \in Nics : d # nic.d => card'[d] = card[d]
    BY Zenon, <1>1, <1>2, <1>v, StepTypes DEF View
  <1>4. /\ mem.state = "MEM_READY_STATE"
        /\ Set("rx", nic.q, card[nic.d], dev[nic.d], rxt[nic.d], txt[nic.d])
        /\ Stock("rx", nic.q, txt[nic.d], mem.desc[nic.d], mem.packet[nic.d], mem.frames)
    BY Zenon, <1>2, <1>3, Here
  <1>5. mem.desc[nic.d] = 1
    BY <1>4, Zenon DEF Stock, Rings, Mapped, Vectors
  <1>6. /\ mem' \in MemType /\ mem'.state = mem.state /\ mem'.keys = mem.keys /\ mem'.frames = mem.frames /\ mem'.packet = mem.packet
        /\ mem'.desc[nic.d] = mem.desc[nic.d] - 1
        /\ \A x \in Nics : x # nic.d => mem'.desc[x] = mem.desc[x]
    <2>1. mem.desc[nic.d] > 0
      BY <1>5
    <2> QED
      BY <1>0, <1>1, <2>1, TakeDesc, Zenon
  <1>7. mem'.desc[nic.d] = 0
    BY <1>5, <1>6
  <1>8. Set("rx_ring", 0, r, dev[nic.d], rxt[nic.d], txt[nic.d])
    <2>1. /\ "rx" \in Transmits /\ "rx_ring" \notin Rings /\ "rx_ring" \notin Mapped
          /\ "rx_ring" \notin Vectors /\ "rx" \in Known /\ "rx" \in Filtered
      BY Zenon DEF Transmits, Rings, Mapped, Vectors, Known, Filtered
    <2>2. 0 .. 0 - 1 \subseteq r.ring
      OBVIOUS
    <2> QED
      BY Zenon, <1>4, <1>v, <2>1, <2>2 DEF Set, View
  <1>9. Stock("rx_ring", 0, txt[nic.d], mem'.desc[nic.d], mem'.packet[nic.d], mem'.frames)
    <2>1. \A t \in Threads : 0 <= 2 * t
      BY DEF Threads
    <2> QED
      BY <1>4, <1>6, <1>7, <2>1, Zenon DEF Stock, Rx_left, Rings, Mapped, Vectors
  <1>10. NicTypeOK'
    BY Zenon, <1>1, <1>3, <1>6 DEF NicInv, NicTypeOK
  <1>11. 0 \in Queues
    BY NicAssumption DEF Queues
  <1> QED
    BY Zenon, <1>1, <1>2, <1>3, <1>4, <1>6, <1>8, <1>9, <1>10, <1>11, SetupStep

(* The packet blocks left for the queues from q on.                        *)
LEMMA RxLeft ==
    ASSUME NEW q \in Queues
    PROVE  /\ q \div 2 \in Threads
           /\ \A t \in Threads :
                /\ Rx_left("rx_ring", q, t) \in Nat /\ Rx_left("rx_ring", q + 1, t) \in Nat
                /\ Rx_left("rx_ring", q, t) = Rx_left("rx_ring", q + 1, t)
                                              + (IF t = q \div 2 THEN Rx_blocks ELSE 0)
                /\ q + 1 \notin Queues => Rx_left("rx_ring", q + 1, t) = 0
  <1>0. channels_per_nic \in Nat /\ q \in 0 .. 2 * channels_per_nic - 1 /\ Rx_blocks \in Nat
        /\ "rx_ring" \notin Rings
    BY NicAssumption DEF Queues, Rings, Mapped, Vectors
  <1>1. PICK h \in Nat : h = q \div 2 /\ (q = 2 * h \/ q = 2 * h + 1)
    BY <1>0
  <1>2. h \in Threads
    BY <1>0, <1>1 DEF Threads
  <1>3. ASSUME NEW t \in Threads
        PROVE  /\ Rx_left("rx_ring", q, t) \in Nat /\ Rx_left("rx_ring", q + 1, t) \in Nat
               /\ Rx_left("rx_ring", q, t) = Rx_left("rx_ring", q + 1, t)
                                             + (IF t = h THEN Rx_blocks ELSE 0)
               /\ q + 1 \notin Queues => Rx_left("rx_ring", q + 1, t) = 0
    <2>0. t \in 0 .. channels_per_nic - 1
      BY Zenon DEF Threads
    <2>1. Rx_left("rx_ring", q, t) = IF q <= 2 * t THEN 2 * Rx_blocks
                                     ELSE IF q = 2 * t + 1 THEN Rx_blocks ELSE 0
      BY Zenon, <1>0 DEF Rx_left
    <2>2. Rx_left("rx_ring", q + 1, t) = IF q + 1 <= 2 * t THEN 2 * Rx_blocks
                                         ELSE IF q + 1 = 2 * t + 1 THEN Rx_blocks ELSE 0
      BY Zenon, <1>0 DEF Rx_left
    <2>3. q + 1 \notin Queues => q = 2 * channels_per_nic - 1
      BY <1>0 DEF Queues
    <2> QED
      BY <1>0, <1>1, <2>0, <2>1, <2>2, <2>3
  <1> QED
    BY Zenon, <1>1, <1>2, <1>3

(* What setting up a receive ring does, whether its queue comes on or not. *)
LEMMA RxRing ==
    ASSUME NicInv, Configure_rx_ring
    PROVE  /\ mem.state = "MEM_READY_STATE" /\ nic.pc = "rx_ring" /\ nic.q \in Queues
           /\ mem' \in MemType /\ mem'.state = mem.state /\ mem'.keys = mem.keys /\ mem'.frames = mem.frames
           /\ mem'.desc = mem.desc /\ \A d \in Nics : d # nic.d => mem'.packet[d] = mem.packet[d]
           /\ Enough(mem.frames) =>
               \A t \in Threads : mem'.packet[nic.d][t] >= Rx_left("rx_ring", nic.q + 1, t)
                                  + (IF txt[nic.d][t] = "send" THEN 0 ELSE Tx_blocks)
           /\ card' \in [Nics -> CardType] /\ \A d \in Nics : d # nic.d => card'[d] = card[d]
           /\ card'[nic.d].ring = card[nic.d].ring \cup {nic.q}
           /\ card'[nic.d].rdt \subseteq card[nic.d].rdt
           /\ card'[nic.d].fdir = card[nic.d].fdir /\ card'[nic.d].txq = card[nic.d].txq
           /\ card'[nic.d].ivar = card[nic.d].ivar
  <1>0. nic \in PlaceType /\ nic.d \in Nics /\ card \in [Nics -> CardType] /\ card[nic.d] \in CardType
        /\ nic.pc = "rx_ring" /\ nic.q \in Queues /\ mem \in MemType
    BY Zenon DEF NicInv, NicTypeOK, PlaceType, PlaceInv, Configure_rx_ring
  <1>1. "rx_ring" \in InSetup \ {"wait_mem"}
    BY Zenon DEF InSetup, Known, Filtered, Transmits
  <1>2. /\ mem.state = "MEM_READY_STATE"
        /\ Stock("rx_ring", nic.q, txt[nic.d], mem.desc[nic.d], mem.packet[nic.d], mem.frames)
    BY Zenon, <1>0, <1>1, Here
  <1>3. mem' = [mem EXCEPT !.packet[nic.d][nic.q \div 2] = @ - Rx_blocks]
    BY Zenon DEF Configure_rx_ring, d0
  <1>4. PICK h \in Threads : h = nic.q \div 2
    BY Zenon, <1>0, RxLeft
  <1>5. ASSUME Enough(mem.frames), NEW t \in Threads
        PROVE  mem.packet[nic.d][t] >= Rx_left("rx_ring", nic.q + 1, t) + (IF t = h THEN Rx_blocks ELSE 0)
                                       + (IF txt[nic.d][t] = "send" THEN 0 ELSE Tx_blocks)
    <2>1. mem.packet[nic.d][t] >= Rx_left("rx_ring", nic.q, t)
                                  + (IF txt[nic.d][t] = "send" THEN 0 ELSE Tx_blocks)
      BY Zenon, <1>2, <1>5 DEF Stock
    <2>2. Rx_left("rx_ring", nic.q, t) = Rx_left("rx_ring", nic.q + 1, t) + (IF t = h THEN Rx_blocks ELSE 0)
      BY Zenon, <1>0, <1>4, RxLeft
    <2> QED
      BY <2>1, <2>2, Zenon
  <1>6. ASSUME NEW t \in Threads PROVE Rx_left("rx_ring", nic.q + 1, t) \in Nat
    BY Zenon, <1>0, RxLeft
  <1>7. mem.packet[nic.d][h] \in Nat /\ mem.packet[nic.d][h] >= Rx_blocks
    <2>1. mem.packet[nic.d][h] \in Nat
      BY <1>0, Zenon DEF MemType
    <2> QED
      BY Zenon, <1>4, <2>1 DEF Configure_rx_ring, d0
  <1>8. /\ mem' \in MemType /\ mem'.state = mem.state /\ mem'.keys = mem.keys /\ mem'.frames = mem.frames /\ mem'.desc = mem.desc
        /\ mem'.packet[nic.d][h] = mem.packet[nic.d][h] - Rx_blocks
        /\ \A u \in Threads : u # h => mem'.packet[nic.d][u] = mem.packet[nic.d][u]
        /\ \A d \in Nics : d # nic.d => mem'.packet[d] = mem.packet[d]
    <2>1. mem' = [mem EXCEPT !.packet[nic.d][h] = @ - Rx_blocks]
      BY <1>3, <1>4, Zenon
    <2> QED
      BY Zenon, <1>0, <1>7, <2>1, TakePackets, NicAssumption
  <1>9. ASSUME Enough(mem.frames), NEW t \in Threads
        PROVE  mem'.packet[nic.d][t] >= Rx_left("rx_ring", nic.q + 1, t)
                                        + (IF txt[nic.d][t] = "send" THEN 0 ELSE Tx_blocks)
    <2>1. CASE t = h
      BY <1>5, <1>6, <1>7, <1>8, <1>9, <2>1, NicAssumption
    <2>2. CASE t # h
      BY <1>5, <1>6, <1>8, <1>9, <2>2, NicAssumption
    <2> QED
      BY Zenon, <2>1, <2>2
  <1> DEFINE set == [disable_rx_queue(card[nic.d], nic.q) EXCEPT !.ring = @ \cup {nic.q}, !.rdt = @ \ {nic.q}]
  <1>10. PICK r \in CardType :
            /\ card' = [card EXCEPT ![nic.d] = r]
            /\ r.ring = card[nic.d].ring \cup {nic.q} /\ r.rdt \subseteq card[nic.d].rdt
            /\ r.fdir = card[nic.d].fdir /\ r.txq = card[nic.d].txq /\ r.ivar = card[nic.d].ivar
    <2>0. nic.q \in Int
      BY <1>0, NicAssumption DEF Queues
    <2>1. /\ set \in CardType
          /\ set.ring = card[nic.d].ring \cup {nic.q} /\ set.rdt \subseteq card[nic.d].rdt
          /\ set.fdir = card[nic.d].fdir /\ set.txq = card[nic.d].txq /\ set.ivar = card[nic.d].ivar
      BY Zenon, <1>0, <2>0 DEF CardType, disable_rx_queue
    <2>2. \/ card' = [card EXCEPT ![nic.d] = rx_desc_queue_enable(set, nic.q)]
          \/ card' = [card EXCEPT ![nic.d] = set]
      BY Zenon DEF Configure_rx_ring, d0
    <2> HIDE DEF set
    <2> DEFINE on == rx_desc_queue_enable(set, nic.q)
    <2>3. /\ on \in CardType
          /\ on.ring = set.ring /\ on.rdt = set.rdt
          /\ on.fdir = set.fdir /\ on.txq = set.txq /\ on.ivar = set.ivar
      BY <2>0, <2>1, Zenon DEF CardType, rx_desc_queue_enable
    <2> HIDE DEF on
    <2>4. CASE card' = [card EXCEPT ![nic.d] = on]
      BY <2>1, <2>3, <2>4, Zenon
    <2>5. CASE card' = [card EXCEPT ![nic.d] = set]
      BY <2>1, <2>5, Zenon
    <2> QED
      BY Zenon, <2>2, <2>4, <2>5 DEF on
  <1>11. /\ card' \in [Nics -> CardType] /\ card'[nic.d] = r
         /\ \A d \in Nics : d # nic.d => card'[d] = card[d]
    BY <1>0, <1>10, Zenon
  <1> QED
    BY Zenon, <1>0, <1>2, <1>8, <1>9, <1>10, <1>11

LEMMA RxRingStep == ASSUME NicInv, Configure_rx_ring, nic'.pc # "panic" PROVE NicInv'
  <1>0. nic \in PlaceType /\ nic.d \in Nics
    BY Zenon DEF NicInv, NicTypeOK, PlaceType
  <1>1. [nic EXCEPT !.pc = "panic"].pc = "panic"
    BY <1>0, Zenon DEF PlaceType
  <1>2. /\ nic' = IF nic.q + 1 \in Queues THEN [nic EXCEPT !.q = @ + 1]
                  ELSE [nic EXCEPT !.pc = "rxen", !.q = 0]
        /\ UNCHANGED <<main, dev, rxt, txt>>
    BY Zenon, <1>1 DEF Configure_rx_ring
  <1>3. /\ mem.state = "MEM_READY_STATE" /\ nic.pc = "rx_ring" /\ nic.q \in Queues
        /\ mem' \in MemType /\ mem'.state = mem.state /\ mem'.keys = mem.keys /\ mem'.frames = mem.frames
        /\ mem'.desc = mem.desc /\ \A d \in Nics : d # nic.d => mem'.packet[d] = mem.packet[d]
        /\ Enough(mem.frames) =>
            \A t \in Threads : mem'.packet[nic.d][t] >= Rx_left("rx_ring", nic.q + 1, t)
                               + (IF txt[nic.d][t] = "send" THEN 0 ELSE Tx_blocks)
        /\ card' \in [Nics -> CardType] /\ \A d \in Nics : d # nic.d => card'[d] = card[d]
    BY Zenon, RxRing
  <1>4. /\ card'[nic.d].ring = card[nic.d].ring \cup {nic.q}
        /\ card'[nic.d].rdt \subseteq card[nic.d].rdt
        /\ card'[nic.d].fdir = card[nic.d].fdir /\ card'[nic.d].txq = card[nic.d].txq
    BY Zenon, RxRing
  <1>5. "rx_ring" \in InSetup \ {"wait_mem"} /\ "rxen" \in InSetup
    BY Zenon DEF InSetup, Known, Filtered, Transmits, Rings
  <1>6. /\ Set("rx_ring", nic.q, card[nic.d], dev[nic.d], rxt[nic.d], txt[nic.d])
        /\ Stock("rx_ring", nic.q, txt[nic.d], mem.desc[nic.d], mem.packet[nic.d], mem.frames)
    BY Zenon, <1>3, <1>5, Here
  <1>7. card'[nic.d].rdt \subseteq card'[nic.d].ring
    <2>1. card[nic.d].rdt \subseteq card[nic.d].ring
      BY Zenon, <1>6 DEF Set
    <2> QED
      BY Zenon, <1>4, <2>1
  <1>8. PICK k \in Nat : k = nic.q + 1 /\ 0 .. k - 1 \subseteq card'[nic.d].ring
    <2>1. 0 .. nic.q - 1 \subseteq card[nic.d].ring
      BY Zenon, <1>6 DEF Set
    <2>2. nic.q \in Nat
      BY <1>3, NicAssumption DEF Queues
    <2> QED
      BY <1>4, <2>1, <2>2
  <1>9. /\ "rx_ring" \in Transmits /\ "rx_ring" \in Known /\ "rx_ring" \in Filtered
        /\ "rx_ring" \notin Rings /\ "rx_ring" \notin Mapped /\ "rx_ring" \notin Vectors
        /\ "rxen" \in Rings /\ "rxen" \notin Mapped /\ "rxen" \notin Vectors
    BY Zenon DEF Transmits, Rings, Mapped, Vectors, Known, Filtered
  <1>10. /\ dev[nic.d].flow = Own /\ card'[nic.d].fdir = Filters /\ Queues \subseteq card'[nic.d].txq
         /\ \A t \in Threads : txt[nic.d][t] = "none" /\ rxt[nic.d][t] = "none"
    BY Zenon, <1>4, <1>6, <1>9 DEF Set
  <1>11. mem'.desc[nic.d] = 0
    BY <1>3, <1>6, Zenon DEF Stock
  <1>12. CASE k \in Queues
    <2>1. nic' = [nic EXCEPT !.pc = "rx_ring", !.q = k] /\ nic' \in PlaceType
      BY <1>0, <1>2, <1>3, <1>8, <1>12, NextPlace, Zenon
    <2>2. Set("rx_ring", k, card'[nic.d], dev[nic.d], rxt[nic.d], txt[nic.d])
      BY Zenon, <1>7, <1>8, <1>9, <1>10 DEF Set
    <2>3. Stock("rx_ring", k, txt[nic.d], mem'.desc[nic.d], mem'.packet[nic.d], mem'.frames)
      BY Zenon, <1>3, <1>8, <1>11 DEF Stock
    <2>4. NicTypeOK'
      BY Zenon, <1>2, <1>3, <2>1 DEF NicInv, NicTypeOK
    <2> QED
      BY Zenon, <1>2, <1>3, <1>5, <1>12, <2>1, <2>2, <2>3, <2>4, SetupStep
  <1>13. CASE k \notin Queues
    <2>1. nic' = [nic EXCEPT !.pc = "rxen", !.q = 0] /\ nic' \in PlaceType
      BY <1>0, <1>2, <1>8, <1>13, Zenon DEF PlaceType, Known, Filtered, Transmits,
         Rings
    <2>2. Queues \subseteq card'[nic.d].ring
      BY <1>3, <1>8, <1>13, NicAssumption DEF Queues
    <2>3. Set("rxen", 0, card'[nic.d], dev[nic.d], rxt[nic.d], txt[nic.d])
      BY Zenon, <1>7, <1>9, <1>10, <2>2 DEF Set
    <2>4. Stock("rxen", 0, txt[nic.d], mem'.desc[nic.d], mem'.packet[nic.d], mem'.frames)
      <3>1. \A t \in Threads : Rx_left("rx_ring", k, t) = 0 /\ Rx_left("rxen", 0, t) = 0
        BY Zenon, <1>3, <1>8, <1>9, <1>13, RxLeft DEF Rx_left
      <3> QED
        BY Zenon, <1>3, <1>8, <1>9, <1>11, <3>1 DEF Stock
    <2>5. NicTypeOK'
      BY Zenon, <1>2, <1>3, <2>1 DEF NicInv, NicTypeOK
    <2> QED
      <3>1. nic.pc \in InSetup /\ "rxen" \notin {"tx_ring", "rx_ring", "txthreads", "rxthreads"}
        BY Zenon, <1>3, <1>5
      <3>2. /\ mem'.state = mem.state /\ mem'.keys = mem.keys /\ mem'.frames = mem.frames /\ main' = main
            /\ \A d \in Nics : d # nic.d =>
                 /\ card'[d] = card[d] /\ dev'[d] = dev[d] /\ rxt'[d] = rxt[d] /\ txt'[d] = txt[d]
                 /\ mem'.desc[d] = mem.desc[d] /\ mem'.packet[d] = mem.packet[d]
        BY Zenon, <1>2, <1>3
      <3>3. /\ Set("rxen", 0, card'[nic.d], dev'[nic.d], rxt'[nic.d], txt'[nic.d])
            /\ Stock("rxen", 0, txt'[nic.d], mem'.desc[nic.d], mem'.packet[nic.d], mem'.frames)
        BY Zenon, <1>2, <2>3, <2>4
      <3>4. mem.state = "MEM_READY_STATE"
        BY Zenon, <1>3
      <3> QED
        BY Zenon, <1>5, <2>1, <2>5, <3>1, <3>2, <3>3, <3>4, SetupStep
  <1> QED
    BY Zenon, <1>12, <1>13

LEMMA UpStep == ASSUME NicInv, Up_complete PROVE NicInv'
  <1>0. nic \in PlaceType /\ nic.d \in Nics /\ card[nic.d] \in CardType /\ dev \in [Nics -> DevType]
        /\ dev[nic.d] \in DevType
    BY Zenon DEF NicInv, NicTypeOK, PlaceType
  <1> DEFINE r == up_complete(card[nic.d])
             e == [dev[nic.d] EXCEPT !.ready = {}, !.all_setup_done = FALSE, !.rx_start_ok = FALSE]
  <1>1. Step("up", "msi", r) /\ UNCHANGED <<main, mem, rxt, txt>>
    BY Zenon DEF Up_complete, d0
  <1>2. dev' = [dev EXCEPT ![nic.d] = e]
    BY Zenon DEF Up_complete, d0
  <1>3. "up" \in InSetup \ {"wait_mem"} /\ "msi" \in InSetup
    BY Zenon DEF InSetup, Known, Filtered, Transmits, Rings, Mapped
  <1>4. configure_msix \in [Queues -> Int]
    BY NicAssumption DEF configure_msix, set_ivar, Queues
  <1>5. Threads \in SUBSET Int
    BY NicAssumption DEF Threads
  <1>6. /\ r \in CardType /\ r.ivar = configure_msix /\ r.txq = card[nic.d].txq /\ r.fdir = card[nic.d].fdir
        /\ r.ring = card[nic.d].ring /\ r.rdt = card[nic.d].rdt
    BY <1>0, <1>4, <1>5, Zenon DEF CardType, up_complete, irq_enable
  <1>7. e \in DevType /\ e.flow = dev[nic.d].flow
    BY <1>0, Zenon DEF DevType
  <1> HIDE DEF r, e
  <1>8. dev' \in [Nics -> DevType] /\ dev'[nic.d] = e /\ \A d \in Nics : d # nic.d => dev'[d] = dev[d]
    BY <1>0, <1>2, <1>7, Zenon
  <1>9. /\ card' \in [Nics -> CardType] /\ nic' \in PlaceType
        /\ nic' = [nic EXCEPT !.pc = "msi", !.q = 0] /\ nic.pc = "up"
        /\ card'[nic.d] = r /\ \A d \in Nics : d # nic.d => card'[d] = card[d]
    BY Zenon, <1>1, <1>3, <1>6, StepTypes
  <1>10. /\ mem.state = "MEM_READY_STATE"
         /\ Set("up", nic.q, card[nic.d], dev[nic.d], rxt[nic.d], txt[nic.d])
         /\ Stock("up", nic.q, txt[nic.d], mem.desc[nic.d], mem.packet[nic.d], mem.frames)
    BY Zenon, <1>3, <1>9, Here
  <1>11. Set("msi", 0, r, e, rxt[nic.d], txt[nic.d])
    <2>1. "msi" \notin Vectors /\ "up" \in Known /\ "up" \in Filtered /\ "up" \in Transmits /\ "up" \in Rings
      BY Zenon DEF Vectors, Known, Filtered, Transmits, Rings
    <2> QED
      BY Zenon, <1>6, <1>7, <1>10, <2>1 DEF Set
  <1>12. Stock("msi", 0, txt[nic.d], mem.desc[nic.d], mem.packet[nic.d], mem.frames)
    <2>1. "up" \in Rings /\ "msi" \in Rings
      BY Zenon DEF Rings, Mapped
    <2> QED
      BY Zenon, <1>10, <2>1 DEF Stock, Rx_left
  <1>13. NicTypeOK'
    BY Zenon, <1>1, <1>8, <1>9 DEF NicInv, NicTypeOK
  <1> QED
    BY Zenon, <1>1, <1>3, <1>8, <1>9, <1>10, <1>11, <1>12, <1>13, SetupStep

LEMMA MsiStep == ASSUME NicInv, Setup_msi_interrupt PROVE NicInv'
  <1>0. nic \in PlaceType /\ nic.d \in Nics /\ card[nic.d] \in CardType /\ dev \in [Nics -> DevType]
        /\ dev[nic.d] \in DevType
    BY Zenon DEF NicInv, NicTypeOK, PlaceType
  <1> DEFINE e == [dev[nic.d] EXCEPT !.vector = Own]
  <1>1. Step("msi", "txthreads", card[nic.d]) /\ UNCHANGED <<main, mem, rxt, txt>>
    BY Zenon DEF Setup_msi_interrupt, d0
  <1>2. dev' = [dev EXCEPT ![nic.d] = e]
    BY Zenon DEF Setup_msi_interrupt, d0, Own
  <1>3. "msi" \in InSetup \ {"wait_mem"} /\ "txthreads" \in InSetup
    BY Zenon DEF InSetup, Known, Filtered, Transmits, Rings, Mapped, Vectors
  <1>4. Own \in [Threads -> Int]
    BY NicAssumption DEF Own, Threads
  <1>5. e \in DevType /\ e.flow = dev[nic.d].flow /\ e.vector = Own
    BY <1>0, <1>4, Zenon DEF DevType
  <1> HIDE DEF e
  <1>6. dev' \in [Nics -> DevType] /\ dev'[nic.d] = e /\ \A d \in Nics : d # nic.d => dev'[d] = dev[d]
    BY <1>0, <1>2, <1>5, Zenon
  <1>7. /\ card' \in [Nics -> CardType] /\ nic' \in PlaceType
        /\ nic' = [nic EXCEPT !.pc = "txthreads", !.q = 0] /\ nic.pc = "msi"
        /\ card'[nic.d] = card[nic.d] /\ \A d \in Nics : d # nic.d => card'[d] = card[d]
    BY Zenon, <1>0, <1>1, <1>3, StepTypes
  <1>8. /\ mem.state = "MEM_READY_STATE"
        /\ Set("msi", nic.q, card[nic.d], dev[nic.d], rxt[nic.d], txt[nic.d])
        /\ Stock("msi", nic.q, txt[nic.d], mem.desc[nic.d], mem.packet[nic.d], mem.frames)
    BY Zenon, <1>3, <1>7, Here
  <1>9. Set("txthreads", 0, card[nic.d], e, rxt[nic.d], txt[nic.d])
    <2>1. "msi" \in Known /\ "msi" \in Filtered /\ "msi" \in Transmits /\ "msi" \in Rings /\ "msi" \in Mapped
      BY Zenon DEF Known, Filtered, Transmits, Rings, Mapped
    <2> QED
      BY Zenon, <1>5, <1>8, <2>1 DEF Set
  <1>10. Stock("txthreads", 0, txt[nic.d], mem.desc[nic.d], mem.packet[nic.d], mem.frames)
    <2>1. "msi" \in Rings /\ "txthreads" \in Rings
      BY Zenon DEF Rings, Mapped, Vectors
    <2> QED
      BY Zenon, <1>8, <2>1 DEF Stock, Rx_left
  <1>11. NicTypeOK'
    BY Zenon, <1>1, <1>6, <1>7 DEF NicInv, NicTypeOK
  <1>12. 0 \in Threads
    BY NicAssumption DEF Threads
  <1> QED
    BY Zenon, <1>1, <1>3, <1>6, <1>7, <1>8, <1>9, <1>10, <1>11, <1>12, SetupStep

(* A thread of a device is started.                                        *)
TxStates == {"none", "start", "send"}
RxStates == {"none", "start", "ready", "active", "wait", "handle"}

LEMMA Threaded ==
    ASSUME NEW q \in Threads
    PROVE  /\ q + 1 \in Nat
           /\ \A t \in Threads : t < q \/ t = q => t < q + 1
           /\ q + 1 \notin Threads => \A t \in Threads : t < q \/ t = q
           /\ ~ (q < q)
  BY NicAssumption DEF Threads

LEMMA ThreadStages ==
    \A s \in {"txthreads", "rxthreads", "done"} :
        s \in Known /\ s \in Filtered /\ s \in Transmits /\ s \in Rings /\ s \in Mapped /\ s \in Vectors
  BY DEF Known, Filtered, Transmits, Rings, Mapped, Vectors

LEMMA TxThreadsStep == ASSUME NicInv, Setup_tx_threads PROVE NicInv'
  <1>0. nic \in PlaceType /\ nic.d \in Nics /\ txt \in [Nics -> [Threads -> TxStates]]
        /\ nic.q \in Threads /\ nic.pc = "txthreads"
    BY Zenon DEF NicInv, NicTypeOK, PlaceInv, PlaceType, TxStates, Setup_tx_threads
  <1>1. /\ txt' = [txt EXCEPT ![nic.d][nic.q] = "start"]
        /\ nic' = IF nic.q + 1 \in Threads THEN [nic EXCEPT !.q = @ + 1]
                  ELSE [nic EXCEPT !.pc = "rxthreads", !.q = 0]
        /\ UNCHANGED <<main, mem, card, dev, rxt>>
    BY Zenon DEF Setup_tx_threads, d0
  <1>2. /\ txt' \in [Nics -> [Threads -> TxStates]] /\ \A x \in Nics : x # nic.d => txt'[x] = txt[x]
        /\ txt'[nic.d][nic.q] = "start"
        /\ \A t \in Threads : t # nic.q => txt'[nic.d][t] = txt[nic.d][t]
    BY <1>0, <1>1, Zenon DEF TxStates
  <1>3. "txthreads" \in InSetup \ {"wait_mem"} /\ "rxthreads" \in InSetup
    BY Zenon DEF InSetup, Known, Filtered, Transmits, Rings, Mapped, Vectors
  <1>4. /\ mem.state = "MEM_READY_STATE"
        /\ Set("txthreads", nic.q, card[nic.d], dev[nic.d], rxt[nic.d], txt[nic.d])
        /\ Stock("txthreads", nic.q, txt[nic.d], mem.desc[nic.d], mem.packet[nic.d], mem.frames)
    BY Zenon, <1>0, <1>3, Here
  <1>5. PICK k \in Nat : k = nic.q + 1
    BY Zenon, <1>0, Threaded
  <1>6. /\ \A t \in Threads : rxt[nic.d][t] = "none" /\ (txt[nic.d][t] # "none" => t < nic.q)
        /\ dev[nic.d].flow = Own /\ card[nic.d].fdir = Filters /\ Queues \subseteq card[nic.d].txq
        /\ Queues \subseteq card[nic.d].ring /\ card[nic.d].ivar = configure_msix
        /\ dev[nic.d].vector = Own /\ card[nic.d].rdt \subseteq card[nic.d].ring
    BY Zenon, <1>4, ThreadStages DEF Set
  <1>7. \A t \in Threads : txt'[nic.d][t] # "none" => t < k
    BY Zenon, <1>0, <1>2, <1>5, <1>6, Threaded
  <1>8. txt[nic.d][nic.q] # "send"
    BY Zenon, <1>0, <1>6, Threaded
  <1>9. \A t \in Threads : txt'[nic.d][t] = "send" <=> txt[nic.d][t] = "send"
    BY Zenon, <1>2, <1>8
  <1>10. ASSUME NEW s \in {"txthreads", "rxthreads"}, NEW n
         PROVE  Stock(s, n, txt'[nic.d], mem.desc[nic.d], mem.packet[nic.d], mem.frames)
    BY Zenon, <1>4, <1>9, ThreadStages DEF Stock, Rx_left
  <1>11. CASE k \in Threads
    <2>1. nic' = [nic EXCEPT !.pc = "txthreads", !.q = k] /\ nic' \in PlaceType
      BY <1>0, <1>1, <1>5, <1>11, NextPlace, Zenon
    <2>2. Set("txthreads", k, card[nic.d], dev[nic.d], rxt[nic.d], txt'[nic.d])
      BY Zenon, <1>6, <1>7 DEF Set
    <2>3. NicTypeOK'
      BY Zenon, <1>1, <1>2, <2>1 DEF NicInv, NicTypeOK, TxStates
    <2>4. Stock("txthreads", k, txt'[nic.d], mem.desc[nic.d], mem.packet[nic.d], mem.frames)
      BY Zenon, <1>10
    <2> QED
      BY Zenon, <1>0, <1>1, <1>2, <1>3, <1>4, <1>11, <2>1, <2>2, <2>3, <2>4, SetupStep
  <1>12. CASE k \notin Threads
    <2>1. nic' = [nic EXCEPT !.pc = "rxthreads", !.q = 0] /\ nic' \in PlaceType
      BY Zenon, <1>0, <1>1, <1>5, <1>12 DEF PlaceType, Known, Filtered, Transmits, Rings, Mapped, Vectors
    <2>2. Set("rxthreads", 0, card[nic.d], dev[nic.d], rxt[nic.d], txt'[nic.d])
      BY Zenon, <1>6 DEF Set
    <2>3. NicTypeOK'
      BY Zenon, <1>1, <1>2, <2>1 DEF NicInv, NicTypeOK, TxStates
    <2>4. Stock("rxthreads", 0, txt'[nic.d], mem.desc[nic.d], mem.packet[nic.d], mem.frames)
      BY Zenon, <1>10
    <2>5. 0 \in Threads
      BY NicAssumption DEF Threads
    <2> QED
      BY Zenon, <1>0, <1>1, <1>2, <1>3, <1>4, <2>1, <2>2, <2>3, <2>4, <2>5, SetupStep
  <1> QED
    BY Zenon, <1>11, <1>12

(* The last receive thread of a device: on to the next device, or all are  *)
(* done.                                                                   *)
LEMMA MovedStage ==
    ASSUME nic \in PlaceType, nic.pc = "rxthreads",
           nic' = IF nic.d + 1 \in Nics THEN [pc |-> "wait_mem", d |-> nic.d + 1, q |-> 0]
               ELSE [pc |-> "activate", d |-> 0, q |-> 0]
    PROVE  /\ nic' \in PlaceType /\ nic'.q = 0 /\ nic'.pc \in {"wait_mem", "activate"}
           /\ \A d \in Nics : StageOf(nic', d) = IF d <= nic.d THEN "done" ELSE "wait_mem"
  <1>1. nic.d \in Nics /\ nic.d \in Nat /\ 0 \in Nics
    BY NicAssumption DEF PlaceType, Nics
  <1>2. CASE nic.d + 1 \in Nics
    <2>1. nic' = [pc |-> "wait_mem", d |-> nic.d + 1, q |-> 0]
      BY Zenon, <1>2
    <2>2. nic' \in PlaceType /\ nic'.q = 0 /\ nic'.pc = "wait_mem" /\ nic'.d = nic.d + 1
      BY <1>2, <2>1 DEF PlaceType
    <2>3. \A d \in Nics : StageOf(nic', d) = IF d < nic'.d THEN "done" ELSE "wait_mem"
      <3>1. "wait_mem" \notin Later /\ "wait_mem" \notin Known
        BY Zenon DEF Later, Known, Filtered, Transmits, Rings, Mapped, Vectors
      <3> QED
        BY Zenon, <2>2, <3>1 DEF StageOf
    <2>4. \A d \in Nics : d < nic.d + 1 <=> d <= nic.d
      BY <1>1 DEF Nics
    <2> QED
      BY Zenon, <2>2, <2>3, <2>4
  <1>3. CASE nic.d + 1 \notin Nics
    <2>1. nic' = [pc |-> "activate", d |-> 0, q |-> 0]
      BY Zenon, <1>3
    <2>2. nic' \in PlaceType /\ nic'.q = 0 /\ nic'.pc = "activate"
      BY <1>1, <2>1 DEF PlaceType, Later
    <2>3. \A d \in Nics : d <= nic.d
      BY <1>1, <1>3, NicAssumption DEF Nics
    <2>4. "activate" \in Later
      BY Zenon DEF Later
    <2> QED
      BY Zenon, <2>2, <2>3, <2>4 DEF StageOf
  <1> QED
    BY Zenon, <1>2, <1>3

LEMMA RxThreadsStep == ASSUME NicInv, Setup_rx_threads PROVE NicInv'
  <1>0. nic \in PlaceType /\ nic.d \in Nics /\ rxt \in [Nics -> [Threads -> RxStates]]
        /\ nic.q \in Threads /\ nic.pc = "rxthreads"
    BY Zenon DEF NicInv, NicTypeOK, PlaceInv, PlaceType, RxStates, Setup_rx_threads
  <1> DEFINE on == IF nic.d + 1 \in Nics THEN [pc |-> "wait_mem", d |-> nic.d + 1, q |-> 0]
                   ELSE [pc |-> "activate", d |-> 0, q |-> 0]
  <1>1. /\ rxt' = [rxt EXCEPT ![nic.d][nic.q] = "start"]
        /\ nic' = IF nic.q + 1 \in Threads THEN [nic EXCEPT !.q = @ + 1] ELSE on
        /\ UNCHANGED <<main, mem, card, dev, txt>>
    BY Zenon DEF Setup_rx_threads, d0
  <1>2. /\ rxt' \in [Nics -> [Threads -> RxStates]] /\ \A x \in Nics : x # nic.d => rxt'[x] = rxt[x]
        /\ \A t \in Threads : t # nic.q => rxt'[nic.d][t] = rxt[nic.d][t]
    <2>1. "start" \in RxStates
      BY Zenon DEF RxStates
    <2> QED
      BY <1>0, <1>1, <2>1, Zenon
  <1>3. "rxthreads" \in InSetup \ {"wait_mem"}
    BY Zenon DEF InSetup, Known, Filtered, Transmits, Rings, Mapped, Vectors
  <1>4. /\ mem.state = "MEM_READY_STATE"
        /\ Set("rxthreads", nic.q, card[nic.d], dev[nic.d], rxt[nic.d], txt[nic.d])
        /\ Stock("rxthreads", nic.q, txt[nic.d], mem.desc[nic.d], mem.packet[nic.d], mem.frames)
    BY Zenon, <1>0, <1>3, Here
  <1>5. PICK k \in Nat : k = nic.q + 1
    BY Zenon, <1>0, Threaded
  <1>6. /\ \A t \in Threads : rxt[nic.d][t] # "none" => t < nic.q
        /\ dev[nic.d].flow = Own /\ card[nic.d].fdir = Filters /\ Queues \subseteq card[nic.d].txq
        /\ Queues \subseteq card[nic.d].ring /\ card[nic.d].ivar = configure_msix
        /\ dev[nic.d].vector = Own /\ card[nic.d].rdt \subseteq card[nic.d].ring
    BY Zenon, <1>4, ThreadStages DEF Set
  <1>7. \A t \in Threads : rxt'[nic.d][t] # "none" => t < k
    BY Zenon, <1>0, <1>2, <1>5, <1>6, Threaded
  <1>8. ASSUME NEW s \in {"rxthreads", "done"}, NEW n
        PROVE  Stock(s, n, txt[nic.d], mem.desc[nic.d], mem.packet[nic.d], mem.frames)
    BY Zenon, <1>4, ThreadStages DEF Stock, Rx_left
  <1>9. CASE k \in Threads
    <2>1. nic' = [nic EXCEPT !.pc = "rxthreads", !.q = k] /\ nic' \in PlaceType
      BY <1>0, <1>1, <1>5, <1>9, NextPlace, Zenon
    <2>2. Set("rxthreads", k, card[nic.d], dev[nic.d], rxt'[nic.d], txt[nic.d])
      BY Zenon, <1>6, <1>7 DEF Set
    <2>3. NicTypeOK'
      BY Zenon, <1>1, <1>2, <2>1 DEF NicInv, NicTypeOK, RxStates
    <2>4. Stock("rxthreads", k, txt[nic.d], mem.desc[nic.d], mem.packet[nic.d], mem.frames)
      BY Zenon, <1>8
    <2> QED
      BY Zenon, <1>0, <1>1, <1>2, <1>3, <1>4, <1>9, <2>1, <2>2, <2>3, <2>4, SetupStep
  <1>10. CASE k \notin Threads
    <2>1. nic' = on
      BY Zenon, <1>1, <1>5, <1>10
    <2>2. /\ nic' \in PlaceType /\ nic'.q = 0 /\ nic'.pc \in {"wait_mem", "activate"}
          /\ \A d \in Nics : StageOf(nic', d) = IF d <= nic.d THEN "done" ELSE "wait_mem"
      BY Zenon, <1>0, <2>1, MovedStage
    <2> HIDE DEF on
    <2>3. NicTypeOK'
      BY Zenon, <1>1, <1>2, <2>2 DEF NicInv, NicTypeOK, RxStates
    <2>4. MemInv'
      <3>1. main = "sleep"
        BY Zenon, <1>0 DEF NicInv, MemInv
      <3> QED
        BY Zenon, <1>1, <1>4, <3>1 DEF NicInv, MemInv
    <2>5. PlaceInv'
      BY Zenon, <2>2 DEF PlaceInv
    <2>6. ASSUME NEW d \in Nics PROVE DevInv(d)'
      <3>0. d \in Int /\ nic.d \in Int
        BY <1>0 DEF Nics
      <3>1. CASE d = nic.d
        <4>1. StageOf(nic', d) = "done"
          BY <2>2, <3>0, <3>1
        <4>2. Set("done", nic'.q, card[nic.d], dev[nic.d], rxt'[nic.d], txt[nic.d])
          BY Zenon, <1>6 DEF Set
        <4>3. Stock("done", nic'.q, txt[nic.d], mem.desc[nic.d], mem.packet[nic.d], mem.frames)
          BY Zenon, <1>8
        <4> QED
          BY Zenon, <1>1, <3>1, <4>1, <4>2, <4>3 DEF DevInv
      <3>2. CASE d # nic.d
        <4>1. d <= nic.d <=> d < nic.d
          BY <3>0, <3>2
        <4>2. StageOf(nic, d) = IF d < nic.d THEN "done" ELSE "wait_mem"
          BY Zenon, <1>0, <1>3, <3>2, OtherStage
        <4>3. StageOf(nic', d) = StageOf(nic, d) /\ StageOf(nic, d) \in {"done", "wait_mem"}
          BY Zenon, <2>2, <4>1, <4>2
        <4>4. /\ Set(StageOf(nic, d), nic.q, card[d], dev[d], rxt[d], txt[d])
              /\ Stock(StageOf(nic, d), nic.q, txt[d], mem.desc[d], mem.packet[d], mem.frames)
          BY Zenon, <1>4 DEF NicInv, DevInv
        <4>5. /\ Set(StageOf(nic, d), nic'.q, card[d], dev[d], rxt[d], txt[d])
              /\ Stock(StageOf(nic, d), nic'.q, txt[d], mem.desc[d], mem.packet[d], mem.frames)
          BY Zenon, <4>3, <4>4, Settled
        <4> QED
          BY Zenon, <1>1, <1>2, <3>2, <4>3, <4>5 DEF DevInv
      <3> QED
        BY Zenon, <3>1, <3>2
    <2> QED
      BY Zenon, <2>3, <2>4, <2>5, <2>6 DEF NicInv
  <1> QED
    BY Zenon, <1>9, <1>10

(* The other steps: no device comes further, and what is set up stays so.  *)
Kept(r, c) == r.txq = c.txq /\ r.ring = c.ring /\ r.fdir = c.fdir /\ r.ivar = c.ivar /\ r.rdt \subseteq r.ring

LEMMA KeptStock ==
    ASSUME NEW s, NEW p, NEW q, p = q \/ s \in {"done", "wait_mem"}, NEW tx, NEW n, NEW pk, NEW fr,
           Stock(s, p, tx, n, pk, fr)
    PROVE  Stock(s, q, tx, n, pk, fr)
  BY Zenon, Settled

LEMMA KeepStep ==
    ASSUME NicInv, NicTypeOK', MemInv', PlaceInv',
           \A d \in Nics : StageOf(nic', d) = StageOf(nic, d)
                           /\ (nic.q = nic'.q \/ StageOf(nic, d) \in {"done", "wait_mem"}),
           \A d \in Nics :
              /\ Kept(card'[d], card[d]) /\ dev'[d].flow = dev[d].flow /\ dev'[d].vector = dev[d].vector
              /\ \A t \in Threads : /\ rxt'[d][t] # "none" => rxt[d][t] # "none"
                                    /\ txt'[d][t] # "none" => txt[d][t] # "none"
              /\ mem'.state = "MEM_READY_STATE" =>
                    Stock(StageOf(nic, d), nic.q, txt'[d], mem'.desc[d], mem'.packet[d], mem'.frames)
    PROVE  NicInv'
  <1>1. ASSUME NEW d \in Nics PROVE DevInv(d)'
    <2>1. Set(StageOf(nic, d), nic.q, card[d], dev[d], rxt[d], txt[d])
      BY Zenon DEF NicInv, DevInv
    <2>2. Set(StageOf(nic, d), nic'.q, card'[d], dev'[d], rxt'[d], txt'[d])
      <3>1. Set(StageOf(nic, d), nic'.q, card[d], dev[d], rxt[d], txt[d])
        BY Zenon, <2>1, Settled
      <3>2. \A t \in Threads : /\ rxt'[d][t] # "none" => rxt[d][t] # "none"
                               /\ txt'[d][t] # "none" => txt[d][t] # "none"
        BY Zenon
      <3>3. /\ Kept(card'[d], card[d]) /\ dev'[d].flow = dev[d].flow /\ dev'[d].vector = dev[d].vector
        BY Zenon
      <3> QED
        BY Zenon, <3>1, <3>2, <3>3 DEF Set, Kept
    <2>3. mem'.state = "MEM_READY_STATE" =>
            Stock(StageOf(nic, d), nic'.q, txt'[d], mem'.desc[d], mem'.packet[d], mem'.frames)
      BY Zenon, KeptStock
    <2> QED
      BY Zenon, <2>2, <2>3 DEF DevInv
  <1> QED
    BY Zenon, <1>1 DEF NicInv

LEMMA Same == ASSUME NicInv, NEW d \in Nics PROVE card[d] \in CardType /\ Kept(card[d], card[d])
  <1>1. card[d].rdt \subseteq card[d].ring
    BY Zenon DEF NicInv, DevInv, Set
  <1> QED
    BY <1>1, Zenon DEF Kept, NicInv, NicTypeOK

(* A step that takes no memory and leaves the NIC thread alone.            *)
LEMMA AsideStep ==
    ASSUME NicInv, UNCHANGED <<main, mem, nic, txt>>, card' \in [Nics -> CardType], dev' \in [Nics -> DevType],
           rxt' \in [Nics -> [Threads -> RxStates]],
           \A d \in Nics :
              /\ Kept(card'[d], card[d]) /\ dev'[d].flow = dev[d].flow /\ dev'[d].vector = dev[d].vector
              /\ \A t \in Threads : rxt'[d][t] # "none" => rxt[d][t] # "none"
    PROVE  NicInv'
  <1>1. NicTypeOK'
    BY Zenon DEF NicInv, NicTypeOK, RxStates
  <1>2. MemInv' /\ PlaceInv'
    BY Zenon DEF NicInv, MemInv, PlaceInv
  <1>3. \A d \in Nics : mem'.state = "MEM_READY_STATE" =>
            Stock(StageOf(nic, d), nic.q, txt'[d], mem'.desc[d], mem'.packet[d], mem'.frames)
    BY Zenon DEF NicInv, DevInv
  <1> QED
    BY Zenon, <1>1, <1>2, <1>3, KeepStep

LEMMA NicTypes ==
    ASSUME NicInv
    PROVE  /\ card \in [Nics -> CardType] /\ dev \in [Nics -> DevType] /\ mem \in MemType /\ nic \in PlaceType
           /\ rxt \in [Nics -> [Threads -> RxStates]] /\ txt \in [Nics -> [Threads -> TxStates]]
  BY Zenon DEF NicInv, NicTypeOK, RxStates, TxStates

LEMMA ReadyStep == ASSUME NicInv, NEW d \in Nics, NEW t \in Threads, Irq_ready(d, t) PROVE NicInv'
  <1>1. UNCHANGED <<main, mem, nic, txt, card>> /\ rxt[d][t] = "start" /\ rxt' = [rxt EXCEPT ![d][t] = "ready"]
        /\ dev' = [dev EXCEPT ![d].ready = @ \cup {t}]
    BY Zenon DEF Irq_ready
  <1>2. /\ rxt' \in [Nics -> [Threads -> RxStates]]
        /\ \A x \in Nics : \A u \in Threads : rxt'[x][u] # "none" => rxt[x][u] # "none"
    BY <1>1, NicTypes, Zenon DEF RxStates
  <1>3. /\ dev' \in [Nics -> DevType]
        /\ \A x \in Nics : dev'[x].flow = dev[x].flow /\ dev'[x].vector = dev[x].vector
    <2> DEFINE e == [dev[d] EXCEPT !.ready = @ \cup {t}]
    <2>1. dev[d] \in DevType
      BY NicTypes, Zenon
    <2>2. e \in DevType /\ e.flow = dev[d].flow /\ e.vector = dev[d].vector
      BY <2>1, Zenon DEF DevType
    <2>3. dev' = [dev EXCEPT ![d] = e]
      BY <1>1, Zenon
    <2> HIDE DEF e
    <2> QED
      BY <2>2, <2>3, NicTypes, Zenon
  <1>4. card' \in [Nics -> CardType] /\ \A x \in Nics : Kept(card'[x], card[x])
    BY Zenon, <1>1, NicTypes, Same
  <1> QED
    BY Zenon, <1>1, <1>2, <1>3, <1>4, AsideStep

LEMMA StartStep == ASSUME NicInv, NEW d \in Nics, NEW t \in Threads, Irq_start(d, t) PROVE NicInv'
  <1>1. UNCHANGED <<main, mem, nic, txt, card, dev>> /\ rxt[d][t] = "active"
        /\ rxt' = [rxt EXCEPT ![d][t] = "wait"]
    BY Zenon DEF Irq_start
  <1>2. /\ rxt' \in [Nics -> [Threads -> RxStates]]
        /\ \A x \in Nics : \A u \in Threads : rxt'[x][u] # "none" => rxt[x][u] # "none"
    BY <1>1, NicTypes, Zenon DEF RxStates
  <1>3. card' \in [Nics -> CardType] /\ dev' \in [Nics -> DevType] /\ \A x \in Nics : Kept(card'[x], card[x])
    BY Zenon, <1>1, NicTypes, Same
  <1> QED
    BY Zenon, <1>1, <1>2, <1>3, AsideStep

LEMMA InterruptStep == ASSUME NicInv, NEW d \in Nics, NEW t \in Threads, Interrupt(d, t) PROVE NicInv'
  <1>1. UNCHANGED <<main, mem, nic, txt, card, dev>> /\ rxt[d][t] = "wait"
        /\ rxt' = [rxt EXCEPT ![d][t] = "handle"]
    BY Zenon DEF Interrupt
  <1>2. /\ rxt' \in [Nics -> [Threads -> RxStates]]
        /\ \A x \in Nics : \A u \in Threads : rxt'[x][u] # "none" => rxt[x][u] # "none"
    BY <1>1, NicTypes DEF RxStates
  <1>3. card' \in [Nics -> CardType] /\ dev' \in [Nics -> DevType] /\ \A x \in Nics : Kept(card'[x], card[x])
    BY Zenon, <1>1, NicTypes, Same
  <1> QED
    BY Zenon, <1>1, <1>2, <1>3, AsideStep

LEMMA ActivateStep == ASSUME NicInv, NEW d \in Nics, NEW t \in Threads, Activate(d, t) PROVE NicInv'
  <1>1. UNCHANGED <<main, mem, nic, txt, dev>> /\ rxt[d][t] = "ready" /\ rxt' = [rxt EXCEPT ![d][t] = "active"]
        /\ card' = [card EXCEPT ![d].rdt = @ \cup {2 * t, 2 * t + 1}]
    BY Zenon DEF Activate
  <1>2. /\ rxt' \in [Nics -> [Threads -> RxStates]]
        /\ \A x \in Nics : \A u \in Threads : rxt'[x][u] # "none" => rxt[x][u] # "none"
    BY <1>1, NicTypes, Zenon DEF RxStates
  <1>3. {2 * t, 2 * t + 1} \subseteq Queues
    BY NicAssumption DEF Queues, Threads
  <1>4. Queues \subseteq card[d].ring /\ card[d].rdt \subseteq card[d].ring
    <2>1. Set(StageOf(nic, d), nic.q, card[d], dev[d], rxt[d], txt[d])
      BY Zenon DEF NicInv, DevInv
    <2>2. StageOf(nic, d) \in Rings
      BY Zenon, <1>1, <2>1, ThreadStages DEF Set
    <2> QED
      BY Zenon, <2>1, <2>2 DEF Set
  <1> DEFINE r == [card[d] EXCEPT !.rdt = @ \cup {2 * t, 2 * t + 1}]
  <1>5. r \in CardType /\ r.txq = card[d].txq /\ r.ring = card[d].ring /\ r.fdir = card[d].fdir
        /\ r.ivar = card[d].ivar /\ r.rdt = card[d].rdt \cup {2 * t, 2 * t + 1}
    BY <1>3, Same DEF CardType
  <1>6. card' = [card EXCEPT ![d] = r]
    BY <1>1, Zenon
  <1> HIDE DEF r
  <1>7. Kept(r, card[d])
    BY Zenon, <1>3, <1>4, <1>5 DEF Kept
  <1>8. card' \in [Nics -> CardType] /\ card'[d] = r /\ \A x \in Nics : x # d => card'[x] = card[x]
    BY <1>5, <1>6, NicTypes, Zenon
  <1>9. \A x \in Nics : Kept(card'[x], card[x])
    <2>1. ASSUME NEW x \in Nics, x # d PROVE Kept(card'[x], card[x])
      BY Zenon, <1>8, <2>1, Same
    <2>2. Kept(card'[d], card[d])
      BY Zenon, <1>7, <1>8
    <2> QED
      BY Zenon, <2>1, <2>2
  <1> QED
    BY Zenon, <1>1, <1>2, <1>8, <1>9, NicTypes, AsideStep

(* Writes to the registers start-up does not rely on.                      *)
LEMMA Put ==
    ASSUME card \in [Nics -> CardType], NEW d \in Nics, NEW r \in CardType, card' = [card EXCEPT ![d] = r]
    PROVE  card' \in [Nics -> CardType] /\ card'[d] = r /\ \A x \in Nics : x # d => card'[x] = card[x]
  BY Zenon

LEMMA Touched ==
    ASSUME NicInv, NEW d \in Nics, NEW a \in SUBSET Int, NEW b \in SUBSET Int, NEW p \in SUBSET Int,
           card' = [card EXCEPT ![d].eims = a, ![d].eicr = b, ![d].pkt = p]
    PROVE  card' \in [Nics -> CardType] /\ \A x \in Nics : Kept(card'[x], card[x])
  <1> DEFINE r == [card[d] EXCEPT !.eims = a, !.eicr = b, !.pkt = p]
  <1>1. /\ r \in CardType /\ r.txq = card[d].txq /\ r.ring = card[d].ring /\ r.fdir = card[d].fdir
        /\ r.ivar = card[d].ivar /\ r.rdt = card[d].rdt
    BY Zenon, Same DEF CardType
  <1>2. card' = [card EXCEPT ![d] = r]
    BY NicTypes, Zenon
  <1> HIDE DEF r
  <1>3. Kept(r, card[d])
    BY Zenon, <1>1, Same DEF Kept
  <1>4. card' \in [Nics -> CardType] /\ card'[d] = r /\ \A x \in Nics : x # d => card'[x] = card[x]
    BY Zenon, <1>1, <1>2, NicTypes, Put
  <1>5. ASSUME NEW x \in Nics, x # d PROVE Kept(card'[x], card[x])
    BY Zenon, <1>4, <1>5, Same
  <1>6. Kept(card'[d], card[d])
    BY Zenon, <1>3, <1>4
  <1> QED
    BY Zenon, <1>4, <1>5, <1>6

LEMMA Unmasked ==
    ASSUME NicInv, NEW d \in Nics, NEW vs \in SUBSET Int, Unmask(d, vs)
    PROVE  card' \in [Nics -> CardType] /\ \A x \in Nics : Kept(card'[x], card[x])
  <1> DEFINE fire == card[d].eicr \cap vs
             a == (card[d].eims \cup vs) \ fire
             b == card[d].eicr \ fire
  <1>1. card[d] \in CardType
    BY Same, Zenon
  <1>2. a \in SUBSET Int /\ b \in SUBSET Int /\ card[d].pkt \in SUBSET Int
    BY <1>1, Zenon DEF CardType
  <1>3. card' = [card EXCEPT ![d].eims = a, ![d].eicr = b]
    BY Zenon DEF Unmask
  <1> HIDE DEF a, b
  <1>4. card' = [card EXCEPT ![d].eims = a, ![d].eicr = b, ![d].pkt = card[d].pkt]
    BY Zenon, <1>1, <1>3, NicTypes DEF CardType
  <1> QED
    BY <1>2, <1>4, Touched, Zenon

LEMMA HandleStep == ASSUME NicInv, NEW d \in Nics, NEW t \in Threads, Handle(d, t) PROVE NicInv'
  <1>0. UNCHANGED <<main, mem, nic, txt, dev>> /\ rxt[d][t] = "handle"
    BY Zenon DEF Handle
  <1>1. CASE 2 * t \in card[d].pkt
    <2>1. rxt' = rxt /\ card' = [card EXCEPT ![d].pkt = @ \ {2 * t}]
      BY Zenon, <1>1 DEF Handle
    <2>2. PICK p \in SUBSET Int : p = card[d].pkt \ {2 * t}
      BY Same, Zenon DEF CardType
    <2>3. card[d].eims \in SUBSET Int /\ card[d].eicr \in SUBSET Int
      BY Same, Zenon DEF CardType
    <2>4. card' = [card EXCEPT ![d].eims = card[d].eims, ![d].eicr = card[d].eicr, ![d].pkt = p]
      BY <2>1, <2>2, NicTypes, Zenon DEF CardType
    <2>5. card' \in [Nics -> CardType] /\ \A x \in Nics : Kept(card'[x], card[x])
      BY Zenon, <2>2, <2>3, <2>4, Touched
    <2> QED
      BY Zenon, <1>0, <2>1, <2>5, NicTypes, AsideStep
  <1>2. CASE 2 * t \notin card[d].pkt
    <2>1. Unmask(d, {t}) /\ rxt' = [rxt EXCEPT ![d][t] = "wait"]
      BY Zenon, <1>2 DEF Handle
    <2>2. /\ rxt' \in [Nics -> [Threads -> RxStates]]
          /\ \A x \in Nics : \A u \in Threads : rxt'[x][u] # "none" => rxt[x][u] # "none"
      BY <1>0, <2>1, NicTypes, Zenon DEF RxStates
    <2>3. {t} \in SUBSET Int
      BY DEF Threads
    <2>4. card' \in [Nics -> CardType] /\ \A x \in Nics : Kept(card'[x], card[x])
      BY Zenon, <2>1, <2>3, Unmasked
    <2> QED
      BY Zenon, <1>0, <2>2, <2>4, NicTypes, AsideStep
  <1> QED
    BY Zenon, <1>1, <1>2

LEMMA PacketStep == ASSUME NicInv, NEW d \in Nics, Card_packet(d) PROVE NicInv'
  <1>0. card[d] \in CardType
    BY Zenon, Same
  <1>1. PICK f \in card[d].fdir :
          LET q == f[2]
              v == card[d].ivar[q]
              fires == v \in card[d].eims
          IN /\ q \in card[d].rdt
             /\ card' = [card EXCEPT ![d].pkt = @ \cup {q},
                                     ![d].eims = @ \ {v},
                                     ![d].eicr = IF fires THEN @ ELSE @ \cup {v}]
             /\ UNCHANGED <<main, mem, nic, dev, rxt, txt>>
    BY Zenon DEF Card_packet
  <1>2. PICK q \in Queues : q = f[2]
    BY <1>0, <1>1, Zenon DEF CardType
  <1>3. PICK v \in Int : v = card[d].ivar[q]
    BY <1>0, Zenon DEF CardType
  <1>4. PICK p \in SUBSET Int : p = card[d].pkt \cup {q}
    <2>1. q \in Int
      BY NicAssumption DEF Queues
    <2> QED
      BY <1>0, <2>1, Zenon DEF CardType
  <1>5. PICK a \in SUBSET Int : a = card[d].eims \ {v}
    BY <1>0, Zenon DEF CardType
  <1>6. PICK b \in SUBSET Int : b = IF v \in card[d].eims THEN card[d].eicr ELSE card[d].eicr \cup {v}
    BY <1>0, Zenon DEF CardType
  <1>7. card' = [card EXCEPT ![d].pkt = p, ![d].eims = a, ![d].eicr = b]
    BY <1>1, <1>2, <1>3, <1>4, <1>5, <1>6, Zenon
  <1>8. card' = [card EXCEPT ![d].eims = a, ![d].eicr = b, ![d].pkt = p]
    BY Zenon, <1>0, <1>7, NicTypes DEF CardType
  <1>9. card' \in [Nics -> CardType] /\ \A x \in Nics : Kept(card'[x], card[x])
    BY Zenon, <1>4, <1>5, <1>6, <1>8, Touched
  <1> QED
    BY Zenon, <1>1, <1>9, NicTypes, AsideStep

(* What a transmit thread that has started finds in its allocator.         *)
LEMMA Sender ==
    ASSUME NicInv, NEW d \in Nics, NEW t \in Threads, txt[d][t] = "start",
           NEW s, s = StageOf(nic, d)
    PROVE  /\ mem.state = "MEM_READY_STATE" /\ \A u \in Threads : Rx_left(s, nic.q, u) = 0
           /\ Stock(s, nic.q, txt[d], mem.desc[d], mem.packet[d], mem.frames)
           /\ Enough(mem.frames) =>
               \A u \in Threads : mem.packet[d][u] >= 0 + (IF txt[d][u] = "send" THEN 0 ELSE Tx_blocks)
  <1>1. Set(s, nic.q, card[d], dev[d], rxt[d], txt[d])
    BY Zenon DEF NicInv, DevInv
  <1>2. s \in Vectors /\ s \in Rings
    BY Zenon, <1>1, ThreadStages DEF Set
  <1>3. mem.state = "MEM_READY_STATE"
    <2>1. CASE mem.state # "MEM_READY_STATE"
      <3>1. nic.pc \in {"start", "ctor", "wait_mem"} /\ nic.d = 0
        BY Zenon, <2>1 DEF NicInv, MemInv
      <3>2. s = "wait_mem"
        BY <3>1 DEF StageOf, Nics, Later, Known, Filtered, Transmits, Rings, Mapped, Vectors
      <3> QED
        BY <1>2, <3>2 DEF Vectors
    <2> QED
      BY Zenon, <2>1
  <1>4. Stock(s, nic.q, txt[d], mem.desc[d], mem.packet[d], mem.frames)
    BY Zenon, <1>3 DEF NicInv, DevInv
  <1>5. \A u \in Threads : Rx_left(s, nic.q, u) = 0
    BY Zenon, <1>2 DEF Rx_left
  <1> QED
    BY Zenon, <1>3, <1>4, <1>5 DEF Stock

LEMMA SendStep == ASSUME NicInv, NEW d \in Nics, NEW t \in Threads, TxThread(d, t) PROVE NicInv'
  <1>0. UNCHANGED <<main, nic, card, dev, rxt>> /\ txt[d][t] = "start"
        /\ txt' = [txt EXCEPT ![d][t] = "send"] /\ mem' = [mem EXCEPT !.packet[d][t] = @ - Tx_blocks]
    BY Zenon DEF TxThread
  <1>1. /\ txt' \in [Nics -> [Threads -> TxStates]]
        /\ \A x \in Nics : \A u \in Threads : txt'[x][u] # "none" => txt[x][u] # "none"
    BY <1>0, NicTypes, Zenon DEF TxStates
  <1>2. /\ txt'[d][t] = "send" /\ \A u \in Threads : u # t => txt'[d][u] = txt[d][u]
        /\ \A x \in Nics : x # d => txt'[x] = txt[x]
    BY <1>0, NicTypes, Zenon DEF TxStates
  <1>3. PICK s : s = StageOf(nic, d) /\ Set(s, nic.q, card[d], dev[d], rxt[d], txt[d])
    BY Zenon DEF NicInv, DevInv
  <1>4. /\ mem.state = "MEM_READY_STATE" /\ \A u \in Threads : Rx_left(s, nic.q, u) = 0
        /\ Stock(s, nic.q, txt[d], mem.desc[d], mem.packet[d], mem.frames)
        /\ Enough(mem.frames) =>
            \A u \in Threads : mem.packet[d][u] >= 0 + (IF txt[d][u] = "send" THEN 0 ELSE Tx_blocks)
    BY Zenon, <1>0, <1>3, Sender
  <1>9. mem.packet[d][t] >= Tx_blocks
    BY Zenon DEF TxThread
  <1>10. /\ mem' \in MemType /\ mem'.state = mem.state /\ mem'.keys = mem.keys /\ mem'.frames = mem.frames /\ mem'.desc = mem.desc
         /\ mem'.packet[d][t] = mem.packet[d][t] - Tx_blocks
         /\ \A u \in Threads : u # t => mem'.packet[d][u] = mem.packet[d][u]
         /\ \A x \in Nics : x # d => mem'.packet[x] = mem.packet[x]
    BY Zenon, <1>0, <1>9, NicTypes, TakePackets, NicAssumption
  <1>11. Enough(mem.frames) => \A u \in Threads : mem'.packet[d][u] >= 0 + (IF txt'[d][u] = "send" THEN 0 ELSE Tx_blocks)
    <2>1. mem.packet[d][t] \in Nat
      BY NicTypes DEF MemType
    <2>2. mem'.packet[d][t] >= 0 + 0
      BY <1>9, <1>10, <2>1, NicAssumption
    <2> QED
      BY Zenon, <1>2, <1>4, <1>10, <2>2
  <1>12. Stock(s, nic.q, txt'[d], mem'.desc[d], mem'.packet[d], mem'.frames)
    BY Zenon, <1>4, <1>10, <1>11 DEF Stock
  <1>13. ASSUME NEW x \in Nics PROVE Stock(StageOf(nic, x), nic.q, txt'[x], mem'.desc[x], mem'.packet[x], mem'.frames)
    <2>1. CASE x = d
      BY Zenon, <1>3, <1>12, <2>1
    <2>2. CASE x # d
      <3>1. Stock(StageOf(nic, x), nic.q, txt[x], mem.desc[x], mem.packet[x], mem.frames)
        BY Zenon, <1>4 DEF NicInv, DevInv
      <3>2. /\ txt'[x] = txt[x] /\ mem'.desc[x] = mem.desc[x]
            /\ mem'.packet[x] = mem.packet[x] /\ mem'.frames = mem.frames
        BY Zenon, <1>2, <1>10, <2>2
      <3> QED
        BY Zenon, <3>1, <3>2
    <2> QED
      BY Zenon, <2>1, <2>2
  <1>14. NicTypeOK'
    BY Zenon, <1>0, <1>1, <1>10 DEF NicInv, NicTypeOK, TxStates
  <1>15. MemInv' /\ PlaceInv'
    BY Zenon, <1>0, <1>4, <1>10 DEF NicInv, MemInv, PlaceInv
  <1>16. \A x \in Nics : Kept(card'[x], card[x])
    BY Zenon, <1>0, Same
  <1>17. \A x \in Nics : StageOf(nic', x) = StageOf(nic, x) /\ nic.q = nic'.q
    BY Zenon, <1>0
  <1>18. \A x \in Nics :
              /\ Kept(card'[x], card[x]) /\ dev'[x].flow = dev[x].flow /\ dev'[x].vector = dev[x].vector
              /\ \A u \in Threads : /\ rxt'[x][u] # "none" => rxt[x][u] # "none"
                                    /\ txt'[x][u] # "none" => txt[x][u] # "none"
              /\ Stock(StageOf(nic, x), nic.q, txt'[x], mem'.desc[x], mem'.packet[x], mem'.frames)
    BY Zenon, <1>0, <1>1, <1>13, <1>16
  <1> QED
    BY Zenon, <1>14, <1>15, <1>17, <1>18, KeepStep

(* The NIC thread before and after it sets devices up.                     *)
LEMMA NicSteps ==
    ASSUME NicInv, UNCHANGED <<main, mem, rxt, txt>>, nic' \in PlaceType,
           \/ nic.pc = "ctor" /\ nic'.pc = "wait_mem" /\ nic'.d = nic.d
           \/ nic.pc \in Later /\ nic'.pc \in Later,
           card' \in [Nics -> CardType], \A d \in Nics : Kept(card'[d], card[d]),
           dev' \in [Nics -> DevType],
           \A d \in Nics : dev'[d].flow = dev[d].flow /\ dev'[d].vector = dev[d].vector
    PROVE  NicInv'
  <1>1. NicTypeOK'
    BY Zenon DEF NicInv, NicTypeOK
  <1>2. "ctor" \notin Later /\ "ctor" \notin Known /\ "wait_mem" \notin Later /\ "wait_mem" \notin Known
        /\ "start" \notin Later
        /\ \A s \in {"tx_ring", "rx_ring", "txthreads", "rxthreads"} : s \notin Later
    BY Zenon DEF Later, Known, Filtered, Transmits, Rings, Mapped, Vectors
  <1>3. PlaceInv'
    BY Zenon, <1>2 DEF PlaceInv
  <1>4. MemInv'
    BY Zenon, <1>2 DEF NicInv, MemInv, PlaceInv
  <1>5. \A d \in Nics : StageOf(nic', d) = StageOf(nic, d) /\ StageOf(nic, d) \in {"done", "wait_mem"}
    BY Zenon, <1>2 DEF StageOf
  <1>6. \A d \in Nics : mem'.state = "MEM_READY_STATE" =>
            Stock(StageOf(nic, d), nic.q, txt'[d], mem'.desc[d], mem'.packet[d], mem'.frames)
    BY Zenon DEF NicInv, DevInv
  <1> QED
    BY Zenon, <1>1, <1>3, <1>4, <1>5, <1>6, KeepStep

LEMMA CtorStep == ASSUME NicInv, Nic_ctor PROVE NicInv'
  <1>1. UNCHANGED <<main, mem, rxt, txt, card, dev>> /\ nic.pc = "ctor" /\ nic' = [nic EXCEPT !.pc = "wait_mem"]
    BY Zenon DEF Nic_ctor
  <1>2. nic' \in PlaceType /\ nic'.pc = "wait_mem" /\ nic'.d = nic.d
    BY <1>1, NicTypes, Zenon DEF PlaceType
  <1> QED
    BY Zenon, <1>1, <1>2, NicTypes, Same, NicSteps

LEMMA WaitStep == ASSUME NicInv, Wait_for_activate PROVE NicInv'
  <1>0. nic.d \in Nics /\ nic \in PlaceType
    BY NicTypes, Zenon DEF PlaceType
  <1>1. UNCHANGED <<main, mem, rxt, txt, dev>> /\ nic.pc = "activate" /\ nic' = [nic EXCEPT !.pc = "eims"]
        /\ card' = [card EXCEPT ![nic.d].eicr = {}]
    BY Zenon DEF Wait_for_activate, d0
  <1>2. nic' \in PlaceType /\ nic'.pc = "eims" /\ "eims" \in Later /\ "activate" \in Later
    BY <1>0, <1>1, Zenon DEF PlaceType, Later
  <1>3. card[nic.d] \in CardType /\ card[nic.d].eims \in SUBSET Int /\ card[nic.d].pkt \in SUBSET Int
    BY <1>0, Same DEF CardType
  <1>4. PICK b \in SUBSET Int : b = {}
    BY Zenon
  <1>5. card' = [card EXCEPT ![nic.d].eims = card[nic.d].eims, ![nic.d].eicr = b,
                             ![nic.d].pkt = card[nic.d].pkt]
    BY Zenon, <1>1, <1>3, <1>4, NicTypes DEF CardType
  <1>6. card' \in [Nics -> CardType] /\ \A x \in Nics : Kept(card'[x], card[x])
    BY <1>0, <1>3, <1>4, <1>5, Touched, Zenon
  <1> QED
    BY Zenon, <1>1, <1>2, <1>6, NicTypes, NicSteps

LEMMA Flagged ==
    ASSUME dev \in [Nics -> DevType], NEW d \in Nics,
           \/ dev' = [dev EXCEPT ![d].all_setup_done = TRUE]
           \/ dev' = [dev EXCEPT ![d].rx_start_ok = TRUE]
    PROVE  /\ dev' \in [Nics -> DevType]
           /\ \A x \in Nics : dev'[x].flow = dev[x].flow /\ dev'[x].vector = dev[x].vector
  <1> DEFINE e == [dev[d] EXCEPT !.all_setup_done = TRUE]
             f == [dev[d] EXCEPT !.rx_start_ok = TRUE]
  <1>1. /\ e \in DevType /\ e.flow = dev[d].flow /\ e.vector = dev[d].vector
        /\ f \in DevType /\ f.flow = dev[d].flow /\ f.vector = dev[d].vector
    BY Zenon DEF DevType
  <1>2. dev' = [dev EXCEPT ![d] = e] \/ dev' = [dev EXCEPT ![d] = f]
    BY Zenon
  <1> HIDE DEF e, f
  <1> QED
    BY <1>1, <1>2

LEMMA ActivatedStep == ASSUME NicInv, Activated PROVE NicInv'
  <1>0. nic.d \in Nics /\ nic \in PlaceType /\ 0 \in Nics
    BY NicTypes, NicAssumption DEF PlaceType, Nics
  <1>1. UNCHANGED <<main, mem, rxt, txt>> /\ nic.pc = "eims" /\ Unmask(nic.d, Threads)
        /\ dev' = [dev EXCEPT ![nic.d].all_setup_done = TRUE]
        /\ nic' = IF nic.d + 1 \in Nics THEN [pc |-> "activate", d |-> nic.d + 1, q |-> 0]
                  ELSE [pc |-> "run", d |-> 0, q |-> 0]
    BY Zenon DEF Activated, d0
  <1>2. nic' \in PlaceType /\ nic'.pc \in Later /\ nic.pc \in Later
    BY <1>0, <1>1, Zenon DEF PlaceType, Later
  <1>3. Threads \in SUBSET Int
    BY DEF Threads
  <1>4. card' \in [Nics -> CardType] /\ \A x \in Nics : Kept(card'[x], card[x])
    BY Zenon, <1>0, <1>1, <1>3, Unmasked
  <1>5. /\ dev' \in [Nics -> DevType]
        /\ \A x \in Nics : dev'[x].flow = dev[x].flow /\ dev'[x].vector = dev[x].vector
    BY Zenon, <1>0, <1>1, NicTypes, Flagged
  <1> QED
    BY Zenon, <1>1, <1>2, <1>4, <1>5, NicSteps

LEMMA RunStep == ASSUME NicInv, Run PROVE NicInv'
  <1>0. nic.d \in Nics /\ nic \in PlaceType
    BY NicTypes, Zenon DEF PlaceType
  <1>1. UNCHANGED <<main, mem, rxt, txt, card>> /\ nic.pc = "run"
        /\ dev' = [dev EXCEPT ![nic.d].rx_start_ok = TRUE]
        /\ nic' = IF nic.d + 1 \in Nics THEN [nic EXCEPT !.d = @ + 1] ELSE [nic EXCEPT !.pc = "done"]
    BY Zenon DEF Run, d0
  <1>2. nic' \in PlaceType /\ nic'.pc \in Later /\ nic.pc \in Later
    BY <1>0, <1>1, Zenon DEF PlaceType, Later
  <1>3. /\ dev' \in [Nics -> DevType]
        /\ \A x \in Nics : dev'[x].flow = dev[x].flow /\ dev'[x].vector = dev[x].vector
    BY Zenon, <1>0, <1>1, NicTypes, Flagged
  <1>4. card' \in [Nics -> CardType] /\ \A x \in Nics : Kept(card'[x], card[x])
    BY Zenon, <1>1, NicTypes, Same
  <1> QED
    BY Zenon, <1>1, <1>2, <1>3, <1>4, NicSteps

(* The memory component creates allocator id of device j.                  *)
LEMMA Slot ==
    ASSUME NEW k \in Nat, k < ALLOCATORS * nic_num
    PROVE  \E j \in Nics, id \in Allocators : j = k \div ALLOCATORS /\ id = k % ALLOCATORS /\ k = 5 * j + id
  BY NicAssumption DEF ALLOCATORS, Nics, Allocators

LEMMA CreateStep == ASSUME NicInv, Mem_create PROVE NicInv'
  <1>0. /\ mem.state = "create" /\ mem.next < ALLOCATORS * nic_num
        /\ UNCHANGED <<main, nic, card, dev, rxt, txt>> /\ mem \in MemType /\ mem.next \in Nat
    BY NicTypes, Zenon DEF Mem_create, MemType
  <1>1. PICK j \in Nics, id \in Allocators :
            j = mem.next \div ALLOCATORS /\ id = mem.next % ALLOCATORS /\ mem.next = 5 * j + id
    BY Zenon, <1>0, Slot
  <1>2. mem' = [mem EXCEPT !.next = @ + 1,
                    !.keys[<<j, id>>] = key(j, id),
                    !.desc[j] = IF id = DESC THEN 2 ELSE @,
                    !.packet[j] = IF id = PACKET THEN [t \in Threads |-> mem.frames] ELSE @]
    BY <1>1, Zenon DEF Mem_create
  <1> DEFINE K == [mem.keys EXCEPT ![<<j, id>>] = key(j, id)]
             D == [mem.desc EXCEPT ![j] = IF id = DESC THEN 2 ELSE @]
             P == [mem.packet EXCEPT ![j] = IF id = PACKET THEN [t \in Threads |-> mem.frames] ELSE @]
  <1>3. mem' = [mem EXCEPT !.next = mem.next + 1, !.keys = K, !.desc = D, !.packet = P]
    BY <1>0, <1>2, Zenon DEF MemType
  <1>4. key(j, id) \in Nat
    BY DEF key, ALLOCATORS, Nics, Allocators
  <1>5. /\ mem.frames \in Nat /\ mem.keys \in [Nics \X Allocators -> Nat] /\ mem.desc \in [Nics -> Nat]
        /\ mem.packet \in [Nics -> [Threads -> Nat]]
    BY <1>0, Zenon DEF MemType
  <1>6. /\ K \in [Nics \X Allocators -> Nat] /\ D \in [Nics -> Nat] /\ P \in [Nics -> [Threads -> Nat]]
        /\ K[<<j, id>>] = key(j, id) /\ \A x \in Nics \X Allocators : x # <<j, id>> => K[x] = mem.keys[x]
        /\ \A d \in Nics : D[d] = IF d = j /\ id = DESC THEN 2 ELSE mem.desc[d]
        /\ \A d \in Nics : P[d] = IF d = j /\ id = PACKET THEN [t \in Threads |-> mem.frames]
                                  ELSE mem.packet[d]
    <2>1. K \in [Nics \X Allocators -> Nat] /\ K[<<j, id>>] = key(j, id)
          /\ \A x \in Nics \X Allocators : x # <<j, id>> => K[x] = mem.keys[x]
      BY <1>4, <1>5, Zenon
    <2>2. D \in [Nics -> Nat] /\ \A d \in Nics : D[d] = IF d = j /\ id = DESC THEN 2 ELSE mem.desc[d]
      BY <1>5, Zenon
    <2>3. /\ P \in [Nics -> [Threads -> Nat]]
          /\ \A d \in Nics : P[d] = IF d = j /\ id = PACKET THEN [t \in Threads |-> mem.frames]
                                    ELSE mem.packet[d]
      BY <1>5, Zenon
    <2> QED
      BY Zenon, <2>1, <2>2, <2>3
  <1> HIDE DEF K, D, P
  <1>7. mem' \in MemType /\ mem'.state = "create" /\ mem'.next = mem.next + 1
        /\ mem'.frames = mem.frames /\ mem'.keys = K /\ mem'.desc = D /\ mem'.packet = P
    <2>1. K \in [Nics \X Allocators -> Nat] /\ D \in [Nics -> Nat] /\ P \in [Nics -> [Threads -> Nat]]
      BY Zenon, <1>6
    <2>2. mem \in MemType /\ mem.state = "create" /\ mem.next + 1 \in Nat
      BY <1>0
    <2>3. mem'.state = "create" /\ mem'.next = mem.next + 1
          /\ mem'.frames = mem.frames /\ mem'.keys = K /\ mem'.desc = D /\ mem'.packet = P
      BY <1>3, <2>2, Zenon DEF MemType
    <2>4. mem' \in MemType
      BY Zenon, <1>3, <2>1, <2>2 DEF MemType
    <2> QED
      BY Zenon, <2>3, <2>4
  <1>8. NicTypeOK'
    BY Zenon, <1>0, <1>7 DEF NicInv, NicTypeOK
  <1>9. MemInv'
    <2>1. ASSUME NEW x \in Nics \X Allocators PROVE mem'.keys[x] \in {0, key(x[1], x[2])}
      <3>1. CASE x = <<j, id>>
        BY <1>6, <1>7, <3>1
      <3>2. CASE x # <<j, id>>
        BY Zenon, <1>6, <1>7, <3>2 DEF NicInv, MemInv
      <3> QED
        BY Zenon, <3>1, <3>2
    <2>2. /\ nic.pc \in {"start", "ctor", "wait_mem"} /\ nic.d = 0
          /\ \A d \in Nics :
              /\ mem.next > ALLOCATORS * d + DESC => mem.desc[d] = 2
              /\ mem.next > ALLOCATORS * d + PACKET =>
                    \A t \in Threads : mem.packet[d][t] = mem.frames
      BY Zenon, <1>0 DEF NicInv, MemInv
    <2>3. ASSUME NEW d \in Nics
          PROVE  /\ mem'.next > ALLOCATORS * d + DESC => D[d] = 2
                 /\ mem'.next > ALLOCATORS * d + PACKET => \A t \in Threads : P[d][t] = mem.frames
      <3>1. /\ mem'.next > ALLOCATORS * d + DESC => mem.next > ALLOCATORS * d + DESC \/ (d = j /\ id = DESC)
            /\ mem'.next > ALLOCATORS * d + PACKET =>
                   mem.next > ALLOCATORS * d + PACKET \/ (d = j /\ id = PACKET)
        BY <1>1, <1>7 DEF ALLOCATORS, DESC, PACKET, Nics, Allocators
      <3>2. mem'.next > ALLOCATORS * d + DESC => D[d] = 2
        BY Zenon, <1>6, <2>2, <3>1
      <3>3. ASSUME mem'.next > ALLOCATORS * d + PACKET, NEW t \in Threads PROVE P[d][t] = mem.frames
        <4>1. CASE d = j /\ id = PACKET
          <5>1. P[d] = [u \in Threads |-> mem.frames]
            BY Zenon, <1>6, <4>1
          <5> QED
            BY Zenon, <5>1
        <4>2. CASE ~ (d = j /\ id = PACKET)
          <5>1. P[d] = mem.packet[d]
            BY Zenon, <1>6, <4>2
          <5> QED
            BY Zenon, <2>2, <3>1, <3>3, <4>2, <5>1
        <4> QED
          BY Zenon, <4>1, <4>2
      <3> QED
        BY Zenon, <3>2, <3>3
    <2>4. main' = "sleep"
      BY Zenon, <1>0 DEF NicInv, MemInv
    <2> QED
      BY Zenon, <1>0, <1>7, <2>1, <2>2, <2>3, <2>4 DEF MemInv
  <1>10. PlaceInv'
    BY Zenon, <1>0 DEF NicInv, PlaceInv
  <1>11. \A d \in Nics : Kept(card'[d], card[d])
    BY Zenon, <1>0, Same
  <1> QED
    BY Zenon, <1>0, <1>7, <1>8, <1>9, <1>10, <1>11, KeepStep

LEMMA MemReadyStep == ASSUME NicInv, Mem_ready PROVE NicInv'
  <1>0. /\ mem.state = "create" /\ mem.next = ALLOCATORS * nic_num
        /\ UNCHANGED <<main, nic, card, dev, rxt, txt>> /\ mem \in MemType
        /\ mem' = [mem EXCEPT !.state = "MEM_READY_STATE"]
    BY NicTypes, Zenon DEF Mem_ready
  <1>1. /\ mem' \in MemType /\ mem'.state = "MEM_READY_STATE" /\ mem'.keys = mem.keys /\ mem'.frames = mem.frames
        /\ mem'.desc = mem.desc /\ mem'.packet = mem.packet
    BY <1>0 DEF MemType
  <1>2. /\ nic.pc \in {"start", "ctor", "wait_mem"} /\ nic.d = 0
        /\ \A d \in Nics :
            /\ mem.next > ALLOCATORS * d + DESC => mem.desc[d] = 2
            /\ mem.next > ALLOCATORS * d + PACKET =>
                  \A t \in Threads : mem.packet[d][t] = mem.frames
    BY Zenon, <1>0 DEF NicInv, MemInv
  <1>3. \A d \in Nics : mem.next > ALLOCATORS * d + DESC /\ mem.next > ALLOCATORS * d + PACKET
    BY <1>0, NicAssumption DEF ALLOCATORS, DESC, PACKET, Nics
  <1>4. ASSUME NEW d \in Nics PROVE Stock(StageOf(nic, d), nic.q, txt'[d], mem'.desc[d], mem'.packet[d], mem'.frames)
    <2>1. StageOf(nic, d) = "wait_mem"
      BY <1>2 DEF StageOf, Nics, Later, Known, Filtered, Transmits, Rings, Mapped, Vectors
    <2>2. mem'.desc[d] = 2 /\ \A t \in Threads : mem'.packet[d][t] = mem.frames
      BY Zenon, <1>1, <1>2, <1>3
    <2>3. \A t \in Threads : Rx_left("wait_mem", nic.q, t) = 2 * Rx_blocks
      BY Zenon DEF Rx_left, Rings, Mapped, Vectors
    <2>4. "wait_mem" \notin {"rx_ring"} \cup Rings /\ "wait_mem" \notin {"tx_ring", "rx"}
      BY Zenon DEF Rings, Mapped, Vectors
    <2>5. ASSUME Enough(mem.frames), NEW t \in Threads
          PROVE  mem.frames >= 2 * Rx_blocks + (IF txt'[d][t] = "send" THEN 0 ELSE Tx_blocks)
      <3>1. mem.frames \in Nat
        BY <1>0, Zenon DEF MemType
      <3> QED
        BY <2>5, <3>1, NicAssumption DEF Enough
    <2> QED
      BY Zenon, <1>1, <2>1, <2>2, <2>3, <2>4, <2>5 DEF Stock
  <1>5. NicTypeOK'
    BY Zenon, <1>0, <1>1 DEF NicInv, NicTypeOK
  <1>6. MemInv'
    <2>1. main' = "sleep"
      BY Zenon, <1>0 DEF NicInv, MemInv
    <2>2. \A x \in Nics \X Allocators : mem'.keys[x] \in {0, key(x[1], x[2])}
      BY Zenon, <1>1 DEF NicInv, MemInv
    <2> QED
      BY Zenon, <1>1, <2>1, <2>2 DEF MemInv
  <1>7. PlaceInv' /\ \A d \in Nics : Kept(card'[d], card[d])
    BY Zenon, <1>0, Same DEF NicInv, PlaceInv
  <1> QED
    BY Zenon, <1>0, <1>4, <1>5, <1>6, <1>7, KeepStep

LEMMA ThreadsCreated == ASSUME NicInv, Create_threads PROVE NicInv'
  <1>0. /\ main = "bind" /\ main' = "sleep" /\ nic' = [nic EXCEPT !.pc = "ctor"]
        /\ mem' = [mem EXCEPT !.state = "create"] /\ UNCHANGED <<card, dev, rxt, txt>>
        /\ mem \in MemType /\ nic \in PlaceType
    BY NicTypes, Zenon DEF Create_threads
  <1>1. /\ nic.pc = "start" /\ nic.d = 0 /\ mem.state = "init"
    BY Zenon, <1>0 DEF NicInv, MemInv, PlaceInv
  <1>2. /\ mem' \in MemType /\ mem'.state = "create" /\ mem'.keys = mem.keys /\ mem'.frames = mem.frames /\ mem'.next = mem.next
        /\ mem'.desc = mem.desc /\ mem'.packet = mem.packet
    BY <1>0, Zenon DEF MemType
  <1>3. nic' \in PlaceType /\ nic'.pc = "ctor" /\ nic'.d = 0 /\ nic'.q = nic.q
    BY <1>0, <1>1, Zenon DEF PlaceType
  <1>4. NicTypeOK'
    BY Zenon, <1>0, <1>2, <1>3 DEF NicInv, NicTypeOK
  <1>5. MemInv'
    <2>1. /\ \A x \in Nics \X Allocators : mem'.keys[x] \in {0, key(x[1], x[2])}
          /\ \A d \in Nics :
              /\ mem'.next > ALLOCATORS * d + DESC => mem'.desc[d] = 2
              /\ mem'.next > ALLOCATORS * d + PACKET =>
                    \A t \in Threads : mem'.packet[d][t] = mem.frames
      BY Zenon, <1>1, <1>2 DEF NicInv, MemInv
    <2> QED
      BY Zenon, <1>0, <1>2, <1>3, <2>1 DEF MemInv
  <1>6. PlaceInv'
    BY Zenon, <1>3 DEF PlaceInv
  <1>7. \A d \in Nics : StageOf(nic', d) = StageOf(nic, d)
    BY <1>1, <1>3 DEF StageOf, Later, Known, Filtered, Transmits, Rings, Mapped, Vectors
  <1>8. \A d \in Nics : Kept(card'[d], card[d])
    BY Zenon, <1>0, Same
  <1> QED
    BY Zenon, <1>0, <1>2, <1>3, <1>4, <1>5, <1>6, <1>7, <1>8, KeepStep

LEMMA ParseStep ==
    ASSUME NicInv, main # "sleep", main' # "sleep" \/ main' = main, UNCHANGED <<mem, nic, card, dev, rxt, txt>>
    PROVE  NicInv'
  <1>1. NicTypeOK' /\ PlaceInv' /\ \A d \in Nics : DevInv(d)'
    BY Zenon DEF NicInv, NicTypeOK, PlaceInv, DevInv
  <1>2. MemInv'
    BY Zenon DEF NicInv, MemInv
  <1> QED
    BY Zenon, <1>1, <1>2 DEF NicInv

LEMMA NicStutter == ASSUME NicInv, UNCHANGED nicVars PROVE NicInv'
  BY Zenon DEF nicVars, NicInv, NicTypeOK, MemInv, PlaceInv, DevInv

LEMMA NicStart == ASSUME NicInit PROVE NicInv
  <1>0. 0 \in Nics /\ Threads \in SUBSET Int /\ Queues \in SUBSET Int
    BY NicAssumption DEF Nics, Threads, Queues
  <1>1. nic \in PlaceType /\ nic.pc = "start" /\ nic.d = 0
    BY <1>0, Zenon DEF NicInit, PlaceType
  <1>2. /\ mem \in MemType /\ mem.state = "init" /\ mem.next = 0
        /\ \A x \in Nics \X Allocators : mem.keys[x] = 0
    BY NicAssumption DEF NicInit, MemType
  <1>3. /\ card \in [Nics -> CardType] /\ \A d \in Nics : card[d].rdt = {}
    <2> DEFINE r == [Reset EXCEPT !.rxen = TRUE, !.eims = Threads, !.txq = Queues, !.rxq = Queues]
    <2>0. Reset \in CardType /\ Reset.rdt = {}
      BY DEF CardType, Reset
    <2>1. r \in CardType /\ r.rdt = {}
      BY <1>0, <2>0, Zenon DEF CardType
    <2>2. card \in [Nics -> {r}]
      BY Zenon DEF NicInit
    <2> HIDE DEF r
    <2> QED
      BY <2>1, <2>2, Zenon
  <1>4. dev \in [Nics -> DevType]
    BY DEF NicInit, DevType
  <1>5. rxt \in [Nics -> [Threads -> RxStates]] /\ \A d \in Nics : \A t \in Threads : rxt[d][t] = "none"
    BY Zenon DEF NicInit, RxStates
  <1>6. txt \in [Nics -> [Threads -> TxStates]] /\ \A d \in Nics : \A t \in Threads : txt[d][t] = "none"
    BY Zenon DEF NicInit, TxStates
  <1>7. NicTypeOK
    BY Zenon, <1>1, <1>2, <1>3, <1>4, <1>5, <1>6 DEF NicTypeOK, RxStates, TxStates
  <1>8. MemInv
    <2>1. \A d \in Nics : ~ (mem.next > ALLOCATORS * d + DESC) /\ ~ (mem.next > ALLOCATORS * d + PACKET)
      BY <1>2 DEF ALLOCATORS, DESC, PACKET, Nics
    <2> QED
      BY Zenon, <1>1, <1>2, <2>1 DEF MemInv
  <1>9. PlaceInv
    BY Zenon, <1>1 DEF PlaceInv
  <1>10. ASSUME NEW d \in Nics PROVE DevInv(d)
    <2>1. StageOf(nic, d) = "wait_mem"
      BY <1>1 DEF StageOf, Nics, Later, Known, Filtered, Transmits, Rings, Mapped, Vectors
    <2>2. "wait_mem" \notin Known /\ "wait_mem" \notin Filtered /\ "wait_mem" \notin Transmits
          /\ "wait_mem" \notin Rings /\ "wait_mem" \notin Mapped /\ "wait_mem" \notin Vectors
      BY Zenon DEF Known, Filtered, Transmits, Rings, Mapped, Vectors
    <2>3. card[d].rdt \subseteq card[d].ring
      BY Zenon, <1>3
    <2>4. Set("wait_mem", nic.q, card[d], dev[d], rxt[d], txt[d])
      BY Zenon, <1>5, <1>6, <2>2, <2>3 DEF Set
    <2> QED
      BY Zenon, <1>2, <2>1, <2>4 DEF DevInv
  <1> QED
    BY Zenon, <1>7, <1>8, <1>9, <1>10 DEF NicInv

(* What the invariant says of a reachable state.                           *)
LEMMA KeysDiffer ==
    ASSUME NEW x \in Nics \X Allocators, NEW y \in Nics \X Allocators, key(x[1], x[2]) = key(y[1], y[2])
    PROVE  x = y
  <1>1. x[1] \in Nat /\ y[1] \in Nat /\ x[2] \in 0 .. 4 /\ y[2] \in 0 .. 4
    BY DEF Nics, Allocators, ALLOCATORS
  <1>2. x[1] * 5 + x[2] + 100 = y[1] * 5 + y[2] + 100
    BY DEF key, ALLOCATORS
  <1>3. x[1] = y[1] /\ x[2] = y[2]
    BY <1>1, <1>2
  <1> QED
    BY <1>3

LEMMA KeysApart ==
    ASSUME NEW keys, \A x \in Nics \X Allocators : keys[x] \in {0, key(x[1], x[2])}
    PROVE  \A x, y \in Nics \X Allocators : keys[x] = keys[y] /\ keys[x] # 0 => x = y
  <1>1. ASSUME NEW x \in Nics \X Allocators, NEW y \in Nics \X Allocators, keys[x] = keys[y], keys[x] # 0
        PROVE  x = y
    <2>1. keys[x] = key(x[1], x[2]) /\ keys[y] = key(y[1], y[2])
      BY Zenon, <1>1
    <2>2. key(x[1], x[2]) = key(y[1], y[2])
      BY Zenon, <1>1, <2>1
    <2> QED
      BY Zenon, <2>2, KeysDiffer
  <1> QED
    BY Zenon, <1>1

LEMMA VectorOfFilter ==
    ASSUME NEW f \in Filters, NEW t \in Threads, f[1] = t
    PROVE  f[2] = 2 * t /\ configure_msix[f[2]] = Own[t]
  <1>1. PICK u \in Threads : f = <<u, 2 * u>>
    BY Zenon DEF Filters
  <1>2. u = t /\ f[2] = 2 * t
    BY <1>1, Zenon
  <1>3. t \in Nat /\ 2 * t \in Queues /\ (2 * t) \div 2 = t
    BY NicAssumption DEF Threads, Queues
  <1> QED
    BY <1>2, <1>3, Zenon DEF configure_msix, set_ivar, Own

(* What a card that is set up so far has to show.                          *)
LEMMA SetSafe ==
    ASSUME NEW s, NEW q, NEW c, NEW e, NEW rx, NEW tx, Set(s, q, c, e, rx, tx)
    PROVE  /\ c.rdt \subseteq c.ring
           /\ \A t \in Threads : tx[t] = "send" => 2 * t \in c.txq
           /\ rx[0] # "none" => \A t \in Threads : \A f \in c.fdir :
               f[1] = t => f[2] = 2 * t /\ c.ivar[f[2]] = e.vector[t]
  <1>0. 0 \in Threads /\ \A t \in Threads : 2 * t \in Queues
    BY NicAssumption DEF Threads, Queues
  <1>1. \A t \in Threads : tx[t] = "send" => 2 * t \in c.txq
    <2>1. \A t \in Threads : tx[t] = "send" => s \in Transmits
      BY Zenon, ThreadStages DEF Set
    <2>2. s \in Transmits => Queues \subseteq c.txq
      BY Zenon DEF Set
    <2> QED
      BY Zenon, <1>0, <2>1, <2>2
  <1>2. ASSUME rx[0] # "none", NEW t \in Threads, NEW f \in c.fdir, f[1] = t
        PROVE  f[2] = 2 * t /\ c.ivar[f[2]] = e.vector[t]
    <2>1. s \in Filtered /\ s \in Mapped /\ s \in Vectors
      BY Zenon, <1>0, <1>2, ThreadStages DEF Set
    <2>2. c.fdir = Filters /\ c.ivar = configure_msix /\ e.vector = Own
      BY Zenon, <2>1 DEF Set
    <2>3. f \in Filters
      BY Zenon, <2>2
    <2>4. f[2] = 2 * t /\ configure_msix[f[2]] = Own[t]
      BY Zenon, <1>2, <2>3, VectorOfFilter
    <2> QED
      BY Zenon, <2>2, <2>4
  <1>3. c.rdt \subseteq c.ring
    BY Zenon DEF Set
  <1> QED
    BY Zenon, <1>1, <1>2, <1>3

LEMMA NicSafe == ASSUME NicInv PROVE NicStartsSafely
  <1>1. \A d \in Nics : mem.desc[d] >= 0
    <2>1. mem.desc \in [Nics -> Nat]
      BY NicTypes, Zenon DEF MemType
    <2> QED
      BY <2>1
  <1>0. nic.pc # "no_memory"
    BY NicTypes, Zenon DEF PlaceType, Known, Filtered, Transmits, Rings, Mapped, Vectors, Later
  <1>2. nic.pc \notin {"start", "ctor", "wait_mem"} => mem.state = "MEM_READY_STATE"
    BY Zenon DEF NicInv, MemInv
  <1>3. \A x, y \in Nics \X Allocators : mem.keys[x] = mem.keys[y] /\ mem.keys[x] # 0 => x = y
    BY Zenon, KeysApart DEF NicInv, MemInv
  <1>4. ASSUME NEW d \in Nics
        PROVE  /\ card[d].rdt \subseteq card[d].ring
               /\ \A t \in Threads : txt[d][t] = "send" => 2 * t \in card[d].txq
               /\ rxt[d][0] # "none" => \A t \in Threads : \A f \in card[d].fdir :
                   f[1] = t => f[2] = 2 * t /\ card[d].ivar[f[2]] = dev[d].vector[t]
    <2>1. Set(StageOf(nic, d), nic.q, card[d], dev[d], rxt[d], txt[d])
      BY Zenon DEF NicInv, DevInv
    <2> QED
      BY <2>1, SetSafe
  <1> QED
    BY Zenon, <1>0, <1>1, <1>2, <1>3, <1>4 DEF NicStartsSafely

(* A poll, or the memory, runs out: the process gives up and leaves the    *)
(* cards as they are - or with a ring whose queue did not come on.         *)
LEMMA GivesUp ==
    ASSUME NicInv, nic.pc \in InSetup \ {"wait_mem"}, UNCHANGED <<mem, card, dev, rxt, txt>>,
           nic'.pc = "no_memory" => ~Enough(mem.frames)
    PROVE  NicStartsSafely'
  <1>1. mem'.state = "MEM_READY_STATE"
    BY Zenon, Here
  <1>2. NicStartsSafely
    BY Zenon, NicSafe
  <1> QED
    BY Zenon, <1>1, <1>2 DEF NicStartsSafely

LEMMA RingGivesUp == ASSUME NicInv, Configure_rx_ring, nic'.pc = "panic" PROVE NicStartsSafely'
  <1>0. UNCHANGED <<dev, rxt, txt>> /\ nic.d \in Nics
    BY NicTypes, Zenon DEF Configure_rx_ring, PlaceType
  <1>1. /\ mem.state = "MEM_READY_STATE" /\ nic.pc = "rx_ring"
        /\ mem' \in MemType /\ mem'.state = mem.state /\ mem'.keys = mem.keys /\ mem'.frames = mem.frames
        /\ \A d \in Nics : d # nic.d => card'[d] = card[d]
        /\ card'[nic.d].ring = card[nic.d].ring \cup {nic.q}
        /\ card'[nic.d].rdt \subseteq card[nic.d].rdt
    BY Zenon, RxRing
  <1>2. NicStartsSafely
    BY Zenon, NicSafe
  <1>3. \A d \in Nics : mem'.desc[d] >= 0
    <2>1. mem'.desc \in [Nics -> Nat]
      BY <1>1, Zenon DEF MemType
    <2> QED
      BY <2>1
  <1>4. \A x, y \in Nics \X Allocators : mem'.keys[x] = mem'.keys[y] /\ mem'.keys[x] # 0 => x = y
    BY Zenon, <1>1, <1>2 DEF NicStartsSafely
  <1>5. ASSUME NEW d \in Nics
        PROVE  /\ card'[d].rdt \subseteq card'[d].ring
               /\ \A t \in Threads : txt'[d][t] = "send" => 2 * t \in card'[d].txq
               /\ rxt'[d][0] # "none" => \A t \in Threads : \A f \in card'[d].fdir :
                   f[1] = t => f[2] = 2 * t /\ card'[d].ivar[f[2]] = dev'[d].vector[t]
    <2>1. CASE d # nic.d
      <3>1. /\ card[d].rdt \subseteq card[d].ring
            /\ \A t \in Threads : txt[d][t] = "send" => 2 * t \in card[d].txq
            /\ rxt[d][0] # "none" => \A t \in Threads : \A f \in card[d].fdir :
                f[1] = t => f[2] = 2 * t /\ card[d].ivar[f[2]] = dev[d].vector[t]
        BY Zenon, <1>2 DEF NicStartsSafely
      <3>2. card'[d] = card[d] /\ dev' = dev /\ rxt' = rxt /\ txt' = txt
        BY Zenon, <1>0, <1>1, <2>1
      <3> QED
        BY <3>1, <3>2
    <2>2. CASE d = nic.d
      <3>1. "rx_ring" \in InSetup \ {"wait_mem"} /\ 0 \in Threads
        BY NicAssumption DEF InSetup, Known, Filtered, Transmits, Threads
      <3>2. Set("rx_ring", nic.q, card[nic.d], dev[nic.d], rxt[nic.d], txt[nic.d])
        BY Zenon, <1>1, <3>1, Here
      <3>3. \A t \in Threads : txt[nic.d][t] = "none" /\ rxt[nic.d][t] = "none"
        BY Zenon, <3>2 DEF Set
      <3>4. card[nic.d].rdt \subseteq card[nic.d].ring
        BY Zenon, <3>2 DEF Set
      <3>5. card'[nic.d].rdt \subseteq card'[nic.d].ring
        BY Zenon, <1>1, <3>4
      <3> QED
        BY Zenon, <1>0, <2>2, <3>1, <3>3, <3>5
    <2> QED
      BY Zenon, <2>1, <2>2
  <1> QED
    BY Zenon, <1>1, <1>3, <1>4, <1>5 DEF NicStartsSafely

LEMMA PanicSteps ==
    ASSUME NicInv, nic'.pc = "panic",
           Reset_hw \/ Init_fdir_perfect \/ Configure_tx_ring \/ Configure_rx_ring
    PROVE  NicStartsSafely'
  <1>0. nic \in PlaceType /\ card \in [Nics -> CardType] /\ nic.d \in Nics
    BY NicTypes DEF PlaceType
  <1>1. \A s \in {"reset", "fdir", "tx_ring"} : s \in InSetup \ {"wait_mem"}
    BY Zenon DEF InSetup, Known, Filtered
  <1>2. /\ \A r : Step("reset", "counters", r) => nic'.pc # "panic"
        /\ \A r : Step("fdir", "filters", r) => nic'.pc # "panic"
        /\ \A a, b : Step(a, b, card[d0]) => nic.pc = a /\ card' = card
    BY <1>0, Zenon DEF Step, PlaceType, d0
  <1>3. CASE Reset_hw
    BY Zenon, <1>1, <1>2, <1>3, GivesUp DEF Reset_hw, StepOrPanic
  <1>4. CASE Init_fdir_perfect
    BY Zenon, <1>1, <1>2, <1>4, GivesUp DEF Init_fdir_perfect, StepOrPanic
  <1>5. CASE Configure_tx_ring
    <2>1. nic.pc = "tx_ring" /\ UNCHANGED <<mem, dev, rxt, txt>>
      BY Zenon, <1>5 DEF Configure_tx_ring
    <2>2. [nic EXCEPT !.q = @ + 1].pc # "panic" /\ [nic EXCEPT !.pc = "rx", !.q = 0].pc # "panic"
      BY <1>0, <2>1, Zenon DEF PlaceType
    <2>3. card' = card
      BY Zenon, <1>5, <2>2 DEF Configure_tx_ring
    <2> QED
      BY Zenon, <1>1, <2>1, <2>3, GivesUp
  <1>6. CASE Configure_rx_ring
    BY Zenon, <1>6, RingGivesUp
  <1> QED
    BY Zenon, <1>3, <1>4, <1>5, <1>6

(* There are no packet blocks left: the file gave a core too few.          *)
LEMMA NoRxBlocks == ASSUME NicInv, No_rx_blocks PROVE NicStartsSafely' /\ ~NicAlive'
  <1>0. /\ nic \in PlaceType /\ nic.d \in Nics /\ nic.pc = "rx_ring" /\ nic.q \in Queues /\ mem \in MemType
        /\ nic' = [nic EXCEPT !.pc = "no_memory"] /\ UNCHANGED <<mem, card, dev, rxt, txt>>
        /\ mem.packet[nic.d][nic.q \div 2] < Rx_blocks
    BY NicTypes, Zenon DEF No_rx_blocks, NicInv, PlaceInv, PlaceType, d0
  <1>1. nic'.pc = "no_memory"
    BY <1>0, Zenon DEF PlaceType
  <1>2. nic.pc \in InSetup \ {"wait_mem"}
    BY Zenon, <1>0 DEF InSetup, Known, Filtered, Transmits
  <1>3. PICK h \in Threads : h = nic.q \div 2
    BY Zenon, <1>0, RxLeft
  <1>4. ASSUME Enough(mem.frames) PROVE FALSE
    <2>1. mem.packet[nic.d][h] >= Rx_left("rx_ring", nic.q, h)
                                  + (IF txt[nic.d][h] = "send" THEN 0 ELSE Tx_blocks)
      BY Zenon, <1>0, <1>2, <1>4, Here DEF Stock
    <2>2. /\ Rx_left("rx_ring", nic.q, h) = Rx_left("rx_ring", nic.q + 1, h) + Rx_blocks
          /\ Rx_left("rx_ring", nic.q + 1, h) \in Nat
      BY Zenon, <1>0, <1>3, RxLeft
    <2>3. mem.packet[nic.d][h] \in Nat /\ mem.packet[nic.d][h] < Rx_blocks
      BY <1>0, <1>3, Zenon DEF MemType
    <2> QED
      BY <2>1, <2>2, <2>3, NicAssumption
  <1>5. NicStartsSafely'
    BY Zenon, <1>0, <1>2, <1>4, GivesUp
  <1> QED
    BY Zenon, <1>1, <1>5 DEF NicAlive

LEMMA NoTxBlocks ==
    ASSUME NicInv, NEW d \in Nics, NEW t \in Threads, No_tx_blocks(d, t)
    PROVE  NicStartsSafely' /\ ~NicAlive'
  <1>0. /\ txt[d][t] = "start" /\ mem.packet[d][t] < Tx_blocks /\ nic \in PlaceType /\ mem \in MemType
        /\ nic' = [nic EXCEPT !.pc = "no_memory"] /\ UNCHANGED <<mem, card, dev, rxt, txt>>
    BY NicTypes, Zenon DEF No_tx_blocks
  <1>1. nic'.pc = "no_memory"
    BY <1>0, Zenon DEF PlaceType
  <1>2. mem.state = "MEM_READY_STATE"
    BY Zenon, <1>0, Sender
  <1>3. ASSUME Enough(mem.frames) PROVE FALSE
    <2>1. txt[d][t] # "send"
      BY Zenon, <1>0
    <2>2. mem.packet[d][t] >= 0 + Tx_blocks
      BY Zenon, <1>0, <1>3, <2>1, Sender
    <2>3. mem.packet[d][t] \in Nat
      BY <1>0, Zenon DEF MemType
    <2> QED
      BY <1>0, <2>2, <2>3, NicAssumption
  <1>4. NicStartsSafely
    BY Zenon, NicSafe
  <1>5. NicStartsSafely'
    BY Zenon, <1>0, <1>2, <1>3, <1>4 DEF NicStartsSafely
  <1> QED
    BY Zenon, <1>1, <1>5 DEF NicAlive

(* Start-up is safe: for any number of cards, up to five channels on each  *)
(* and any numbers of frames and blocks, memory is taken only from         *)
(* allocators that exist, out of segments of their own, and runs out only  *)
(* when the file gives a core fewer frames than its rings and its sender   *)
(* take; rings have their descriptors before the card may write to them;   *)
(* queues are on before they are sent on; and a flow's queue raises the    *)
(* vector of the thread that reads it.                                     *)
THEOREM StartUpIsSafe == NicSpec => []NicStartsSafely
  <1> DEFINE J == NicStartsSafely /\ (NicAlive => NicInv)
  <1>1. NicInit => J
    BY Zenon, NicStart, NicSafe
  <1>2. ASSUME J, [NicNext]_nicVars PROVE J'
    <2>1. CASE UNCHANGED nicVars
      <3>1. NicAlive' => NicInv'
        BY Zenon, <1>2, <2>1, NicStutter DEF NicAlive, nicVars
      <3>2. NicStartsSafely'
        BY Zenon, <1>2, <2>1 DEF NicStartsSafely, nicVars
      <3> QED
        BY Zenon, <3>1, <3>2
    <2>2. CASE NicNext
      <3>1. NicInv
        BY Zenon, <1>2, <2>2 DEF NicNext
      <3>2. NicInv' => J'
        <4>1. ASSUME NicInv' PROVE NicStartsSafely'
          BY <4>1, NicSafe, PTL
        <4> QED
          BY Zenon, <4>1
      <3>3. CASE Parse_positive \/ Parse_plain
        <4>1. main # "sleep" /\ main' # "sleep" /\ UNCHANGED <<mem, nic, card, dev, rxt, txt>>
          BY Zenon, <3>3 DEF Parse_positive, Parse_plain, Parse
        <4> QED
          BY Zenon, <3>1, <3>2, <4>1, ParseStep
      <3>4. CASE Create_threads
        BY Zenon, <3>1, <3>2, <3>4, ThreadsCreated
      <3>5. CASE Mem_create \/ Mem_ready
        BY Zenon, <3>1, <3>2, <3>5, CreateStep, MemReadyStep
      <3>6. CASE NicThread
        <4>0. CASE No_rx_blocks
          BY Zenon, <3>1, <4>0, NoRxBlocks
        <4>1. CASE nic'.pc # "panic" /\ ~No_rx_blocks
          BY Zenon, <3>1, <3>2, <3>6, <4>1, CtorStep, ParamStep, QuietSteps, EarlySteps, FilterStep,
             TxStep, TxRingStep, RxStep, RxRingStep, UpStep, MsiStep, TxThreadsStep, RxThreadsStep,
             WaitStep, ActivatedStep, RunStep
             DEF NicThread
        <4>2. CASE nic'.pc = "panic" /\ ~No_rx_blocks
          <5>1. CASE Reset_hw \/ Init_fdir_perfect \/ Configure_tx_ring \/ Configure_rx_ring
            BY Zenon, <3>1, <4>2, <5>1, PanicSteps DEF NicAlive
          <5>2. CASE ~ (Reset_hw \/ Init_fdir_perfect \/ Configure_tx_ring \/ Configure_rx_ring)
            BY Zenon, <3>1, <3>2, <3>6, <4>2, <5>2, CtorStep, ParamStep, QuietSteps, EarlySteps, FilterStep,
               TxStep, RxStep, UpStep, MsiStep, TxThreadsStep, RxThreadsStep,
               WaitStep, ActivatedStep, RunStep
               DEF NicThread
          <5> QED
            BY Zenon, <5>1, <5>2
        <4> QED
          BY Zenon, <4>0, <4>1, <4>2
      <3>7. CASE \E d \in Nics : Card_packet(d) \/ \E t \in Threads :
                                   RxThread(d, t) \/ TxThread(d, t) \/ No_tx_blocks(d, t)
        <4>1. PICK d \in Nics : Card_packet(d) \/ \E t \in Threads :
                                   RxThread(d, t) \/ TxThread(d, t) \/ No_tx_blocks(d, t)
          BY Zenon, <3>7
        <4>2. CASE Card_packet(d)
          BY Zenon, <3>1, <3>2, <4>2, PacketStep
        <4>3. ASSUME NEW t \in Threads, RxThread(d, t) \/ TxThread(d, t) PROVE J'
          BY Zenon, <3>1, <3>2, <4>3, ReadyStep, ActivateStep, StartStep, InterruptStep, HandleStep, SendStep
             DEF RxThread
        <4>4. ASSUME NEW t \in Threads, No_tx_blocks(d, t) PROVE J'
          BY Zenon, <3>1, <4>4, NoTxBlocks
        <4> QED
          BY Zenon, <4>1, <4>2, <4>3, <4>4
      <3> QED
        BY Zenon, <2>2, <3>3, <3>4, <3>5, <3>6, <3>7 DEF NicNext, NicProcess
    <2> QED
      BY Zenon, <1>2, <2>1, <2>2
  <1> QED
    BY <1>1, <1>2, PTL DEF NicSpec

-----------------------------------------------------------------------------
(***************************************************************************)
(* Vectors of the parasite module.  NoStrayHandler is not inductive: that  *)
(* pk_device_cleanup frees every handler of a device rests on the count of *)
(* /proc entries, and that msi_alloc_store finds no handler of the device  *)
(* rests on the number of vectors it looks at.                             *)
(***************************************************************************)
HandlerInv ==
    /\ minor \in [Dev -> Minor \cup {None}]
    /\ entry_num \in [Dev -> Int] /\ proc_num \in [Dev -> Int]
    /\ handlers \subseteq Dev \X Vec
    /\ \A v \in handlers : /\ minor[v[1]] # None
                           /\ v[2] <= proc_num[v[1]]
                           /\ entry_num[v[1]] # 0

vectorVars == <<minor, entry_num, proc_num, handlers>>

\* sysfs_class_register_device: a device that is not registered has no handlers.
LEMMA ProbeKeepsHandlers ==
    ASSUME HandlerInv, NEW d \in Dev, ~registered(d), sysfs_class_register_device(d),
           handlers' = handlers
    PROVE  HandlerInv'
<1> USE PkAssumption DEF HandlerInv, registered
<1>1. PICK n \in Minor : minor' = [minor EXCEPT ![d] = n]
  BY Zenon DEF sysfs_class_register_device
<1>2. /\ entry_num' = [entry_num EXCEPT ![d] = 0]
      /\ proc_num' = [proc_num EXCEPT ![d] = 0]
  BY Zenon DEF sysfs_class_register_device
<1>3. \A v \in handlers : v[1] \in Dev /\ v[1] # d
  BY Zenon
<1> QED
  BY <1>1, <1>2, <1>3

\* msi_alloc_store: whatever handler request fails, the handlers are those of the /proc entries.
LEMMA AllocKeepsHandlers ==
    ASSUME HandlerInv, NEW d \in Dev, NEW n \in Vec, entry_num[d] = 0, Alive(d),
           entry_num' = [entry_num EXCEPT ![d] = n], minor' = minor,
           AllocRefused(d) \/ setup_msix_handlers(d, n) \/ setup_msi_handlers(d, n)
    PROVE  HandlerInv'
<1> USE PkAssumption DEF HandlerInv, Vec
<1>1. \A v \in handlers : v[1] \in Dev /\ v[1] # d
  BY Zenon
<1>2. minor[d] # None
  BY Zenon DEF Alive, registered
<1>3. CASE handlers' = handlers /\ proc_num' = proc_num
  BY <1>1, <1>3
<1>4. ASSUME NEW k \in 0 .. n, AttachHandlers(d, n, k)
      PROVE  HandlerInv'
  <2>1. /\ handlers' = handlers \cup {<<d, v>> : v \in 1 .. k}
        /\ proc_num' = [proc_num EXCEPT ![d] = k]
    BY <1>4, Zenon DEF AttachHandlers
  <2>2. ASSUME NEW v \in handlers'
        PROVE  /\ v \in Dev \X Vec /\ minor'[v[1]] # None
               /\ v[2] <= proc_num'[v[1]] /\ entry_num'[v[1]] # 0
    <3>1. CASE v \in handlers
      BY <1>1, <2>1, <3>1, Zenon
    <3>2. CASE v \notin handlers
      <4>1. PICK m \in 1 .. k : v = <<d, m>>
        BY <2>1, <2>2, <3>2, Zenon
      <4> QED
        BY <1>2, <2>1, <4>1
    <3> QED
      BY <3>1, <3>2, Zenon
  <2> QED
    BY <2>1, <2>2
<1> QED
  BY <1>3, <1>4, Zenon DEF AllocRefused, setup_msix_handlers, setup_msi_handlers

\* pk_device_cleanup: it frees as many handlers as there are /proc entries, which is all.
LEMMA CleanupKeepsHandlers ==
    ASSUME HandlerInv, NEW S, Detached(S)
    PROVE  HandlerInv'
<1> USE PkAssumption DEF HandlerInv, Vec
<1>1. /\ minor' = [d \in Dev |-> IF d \in S THEN None ELSE minor[d]]
      /\ entry_num' = [d \in Dev |-> IF d \in S THEN 0 ELSE entry_num[d]]
      /\ handlers' = {v \in handlers : v[1] \in S => v[2] > proc_num[v[1]]}
      /\ proc_num' = [d \in Dev |-> IF d \in S THEN 0 ELSE proc_num[d]]
  BY Zenon DEF Detached
<1>2. ASSUME NEW v \in handlers'
      PROVE  v \in handlers /\ v[1] \in Dev /\ v[1] \notin S
  BY <1>1, <1>2
<1> QED
  BY <1>1, <1>2

\* Requests that leave the vectors alone.
LEMMA VectorsUnchanged ==
    ASSUME HandlerInv, UNCHANGED vectorVars
    PROVE  HandlerInv'
  BY Zenon DEF HandlerInv, vectorVars

\* Every step of the module keeps the handlers in step with the /proc entries.
LEMMA HandlerStep ==
    ASSUME HandlerInv, [PkNext]_pkVars
    PROVE  HandlerInv'
<1>1. CASE UNCHANGED pkVars
  BY <1>1, VectorsUnchanged, Zenon DEF pkVars, pkDevVars, vectorVars
<1>2. ASSUME NEW p \in Proc, DeviceRequest(p)
      PROVE  HandlerInv'
  <2>1. ASSUME NEW d \in Dev, GrantDevice(p, d)
        PROVE  HandlerInv'
    BY <2>1, VectorsUnchanged, Zenon DEF GrantDevice, vectorVars
  <2>2. ASSUME NEW d \in Dev, locate_device(p, d)
        PROVE  HandlerInv'
    <3>1. ~registered(d) /\ handlers' = handlers
      BY <2>2, Zenon DEF locate_device, NewId, Probe
    <3>2. CASE sysfs_class_register_device(d)
      BY <3>1, <3>2, ProbeKeepsHandlers, Zenon
    <3>3. CASE ~sysfs_class_register_device(d)
      BY <2>2, <3>3, VectorsUnchanged, Zenon DEF locate_device, NewId, Probe,
         vectorVars
    <3> QED
      BY <3>2, <3>3, Zenon
  <2>3. ASSUME NEW d \in Dev, NEW n \in Vec, allocate_msi_vectors(p, d, n)
        PROVE  HandlerInv'
    BY <2>3, AllocKeepsHandlers, Zenon DEF allocate_msi_vectors, MsiAlloc
  <2>4. ASSUME NEW d \in Dev, NEW m \in BOOLEAN, irq_set_masking_mode(p, d, m)
        PROVE  HandlerInv'
    BY <2>4, VectorsUnchanged, Zenon DEF irq_set_masking_mode, IrqModeStore,
       vectorVars
  <2>5. ASSUME NEW v \in Dev \X Vec, ProcRead(p, v) \/ ProcWrite(p, v)
        PROVE  HandlerInv'
    BY <2>5, VectorsUnchanged, Zenon DEF ProcRead, ProcWrite, vectorVars
  <2>6. CASE ProcWakes(p) \/ ProcReturns(p)
    BY <2>6, VectorsUnchanged, Zenon DEF ProcWakes, ProcReturns, vectorVars
  <2> QED
    BY <1>2, <2>1, <2>2, <2>3, <2>4, <2>5, <2>6, Zenon DEF DeviceRequest
<1>3. CASE UNCHANGED pkDevVars
  BY <1>3, VectorsUnchanged, Zenon DEF pkDevVars, vectorVars
<1>4. ASSUME NEW v \in Dev \X Vec, RaiseIrq(v) \/ IrqHandler(v)
      PROVE  HandlerInv'
  BY <1>4, VectorsUnchanged, Zenon DEF RaiseIrq, IrqHandler, vectorVars
<1>5. ASSUME NEW d \in Dev, DetachDevice(d)
      PROVE  HandlerInv'
  <2>1. Detached({d}) \/ UNCHANGED vectorVars
    BY <1>5, Zenon DEF DetachDevice, Detach, vectorVars
  <2> QED
    BY <2>1, VectorsUnchanged, CleanupKeepsHandlers, Zenon
<1>6. CASE ReloadModule
  BY <1>6, CleanupKeepsHandlers, Zenon DEF ReloadModule, Reload
<1> QED
  BY <1>1, <1>2, <1>3, <1>4, <1>5, <1>6, Zenon DEF PkNext

\* No step of the module, its clients or its devices leaves a vector's handler attached
\* when pk_device_cleanup has freed the device.
THEOREM HandlersDetached == PkSpec => []NoStrayHandler
<1>1. PkInit => HandlerInv
  BY PkAssumption DEF PkInit, PkDevInit, HandlerInv
<1>2. HandlerInv => NoStrayHandler
  BY Zenon DEF HandlerInv, NoStrayHandler, registered
<1> QED
  BY <1>1, <1>2, HandlerStep, PTL DEF PkSpec

-----------------------------------------------------------------------------
(***************************************************************************)
(* DMA memory.  Of a page that a thread has mapped or has an area for,     *)
(* each page has one such thread; and the area a thread has just written   *)
(* stays the first of its own on the list, whatever others add and remove. *)
(***************************************************************************)
CallPc == {"idle", "read", "mmap", "walk", "dead", "free", "destroy"}
CallType == [pc : CallPc, dev : DmaDev \cup {0}, page : Page \cup {0}, want : Page \cup {0},
             ok : BOOLEAN, huge : BOOLEAN, walk : SUBSET Areas]

Holds(t, p) == p \in mapped[t] \/ Area(p, t) \in Listed

\* The first area of t on the list is that of page p.
ReadsBack(t, list, p) == \A i \in DOMAIN list : First(i, Owned(t, list)) => list[i].page = p

DmaTypes ==
    /\ areas \in [DmaDev -> Seq(Areas)]
    /\ pages \in 0 .. MaxPages
    /\ mapped \in [Task -> SUBSET Page]
    /\ allocations \in [Task -> SUBSET (DmaDev \X Page)]
    /\ call \in [Task -> CallType]

CallSound(t, c, lists) ==
    /\ c.pc \in {"read", "mmap", "walk", "free"} => c.dev \in DmaDev
    /\ c.pc \in {"mmap", "walk"} => c.page \in Page /\ (c.ok => c.page = c.want)
    /\ c.pc = "read" /\ c.ok => ReadsBack(t, lists[c.dev], c.want)

OneHolder ==
    /\ \A t \in Task : \A p \in Page : Holds(t, p) => p <= pages
    /\ \A t, u \in Task : \A p \in Page : Holds(t, p) /\ Holds(u, p) => t = u

DmaInv == DmaTypes /\ (\A t \in Task : CallSound(t, call[t], areas)) /\ OneHolder

\* list_add: the new area is the first, the others move up by one.
LEMMA ListAddFacts ==
    ASSUME NEW list \in Seq(Areas), NEW a \in Areas
    PROVE  /\ ListAdd(list, a) \in Seq(Areas)
           /\ Len(ListAdd(list, a)) = Len(list) + 1
           /\ ListAdd(list, a)[1] = a
           /\ \A i \in 1 .. Len(list) : ListAdd(list, a)[i + 1] = list[i]
  BY DEF ListAdd

\* list_del: the areas behind the deleted one move down by one.
LEMMA ListDelFacts ==
    ASSUME NEW list \in Seq(Areas), NEW k \in 1 .. Len(list)
    PROVE  /\ ListDel(list, k) \in Seq(Areas)
           /\ Len(ListDel(list, k)) = Len(list) - 1
           /\ \A i \in 1 .. k - 1 : ListDel(list, k)[i] = list[i]
           /\ \A i \in k .. Len(list) - 1 : ListDel(list, k)[i] = list[i + 1]
<1>1. Len(list) - 1 \in Nat
  OBVIOUS
<1>2. \A i \in 1 .. Len(list) - 1 : (IF i < k THEN list[i] ELSE list[i + 1]) \in Areas
  OBVIOUS
<1>3. ListDel(list, k) \in Seq(Areas) /\ Len(ListDel(list, k)) = Len(list) - 1
  BY <1>1, <1>2 DEF ListDel
<1>4. \A i \in 1 .. k - 1 : ListDel(list, k)[i] = list[i]
  BY DEF ListDel
<1>5. \A i \in k .. Len(list) - 1 : ListDel(list, k)[i] = list[i + 1]
  BY DEF ListDel
<1> QED
  BY <1>3, <1>4, <1>5, Zenon

\* The area a thread adds is the first of its own.
LEMMA AddedIsFirst ==
    ASSUME NEW list \in Seq(Areas), NEW t \in Task, NEW p \in Page
    PROVE  ReadsBack(t, ListAdd(list, Area(p, t)), p)
<1> DEFINE l == ListAdd(list, Area(p, t))
<1>1. l \in Seq(Areas) /\ Len(l) = Len(list) + 1 /\ l[1] = Area(p, t)
  <2>1. Area(p, t) \in Areas
    BY Zenon DEF Area, Areas
  <2> QED
    BY <2>1, ListAddFacts, Zenon
<1> HIDE DEF l
<1>2. 1 \in Owned(t, l)
  BY <1>1 DEF Owned, Area
<1>3. \A i \in DOMAIN l : First(i, Owned(t, l)) => i = 1
  BY <1>1, <1>2 DEF First
<1> QED
  BY <1>1, <1>3 DEF ReadsBack, Area, l

\* An area of another thread in front does not change which of its own a thread reads.
LEMMA AddByOther ==
    ASSUME NEW list \in Seq(Areas), NEW t \in Task, NEW a \in Areas, a.owner # t,
           NEW p, ReadsBack(t, list, p)
    PROVE  ReadsBack(t, ListAdd(list, a), p)
<1> DEFINE l == ListAdd(list, a)
<1>1. /\ l \in Seq(Areas) /\ Len(l) = Len(list) + 1 /\ l[1] = a
      /\ \A i \in 1 .. Len(list) : l[i + 1] = list[i]
  BY ListAddFacts, Zenon
<1> HIDE DEF l
<1>2. SUFFICES ASSUME NEW i \in DOMAIN l, First(i, Owned(t, l))
               PROVE  l[i].page = p
  BY Zenon DEF ReadsBack, l
<1>3. i \in Int /\ i - 1 \in 1 .. Len(list) /\ l[i] = list[i - 1] /\ l[i].owner = t
  BY <1>1, <1>2 DEF First, Owned
<1>4. ASSUME NEW j \in Owned(t, list)
      PROVE  i - 1 <= j
  <2>1. j \in 1 .. Len(list) /\ list[j].owner = t
    BY <1>4 DEF Owned
  <2>2. j + 1 \in Owned(t, l)
    BY <1>1, <2>1 DEF Owned
  <2> QED
    BY <1>2, <1>3, <2>1, <2>2 DEF First
<1>5. First(i - 1, Owned(t, list))
  BY <1>3, <1>4 DEF First, Owned
<1> QED
  BY <1>3, <1>5 DEF ReadsBack

\* Nor does taking an area of another thread off the list.
LEMMA DelByOther ==
    ASSUME NEW list \in Seq(Areas), NEW t \in Task, NEW k \in 1 .. Len(list),
           list[k].owner # t, NEW p, ReadsBack(t, list, p)
    PROVE  ReadsBack(t, ListDel(list, k), p)
<1> DEFINE l == ListDel(list, k)
<1>1. /\ l \in Seq(Areas) /\ Len(l) = Len(list) - 1
      /\ \A i \in 1 .. k - 1 : l[i] = list[i]
      /\ \A i \in k .. Len(list) - 1 : l[i] = list[i + 1]
  BY ListDelFacts, Zenon
<1> HIDE DEF l
<1>2. SUFFICES ASSUME NEW i \in DOMAIN l, First(i, Owned(t, l))
               PROVE  l[i].page = p
  BY Zenon DEF ReadsBack, l
<1>3. i \in 1 .. Len(list) - 1 /\ l[i].owner = t
  BY <1>1, <1>2 DEF First, Owned
<1>4. ASSUME NEW j \in 1 .. Len(list), list[j].owner = t
      PROVE  (j < k => i <= j) /\ (j > k => i <= j - 1) /\ j # k
  <2>1. j < k => j \in Owned(t, l)
    BY <1>1, <1>4 DEF Owned
  <2>2. ASSUME j > k
        PROVE  j - 1 \in Owned(t, l)
    <3>1. j - 1 \in 1 .. Len(l) /\ j - 1 \in k .. Len(list) - 1 /\ (j - 1) + 1 = j
      BY <1>1, <2>2
    <3>2. l[j - 1] = list[j]
      BY <1>1, <3>1, Zenon
    <3> QED
      BY <1>1, <1>4, <3>1, <3>2 DEF Owned
  <2> QED
    BY <1>2, <1>4, <2>1, <2>2, Zenon DEF First
<1>5. CASE i < k
  <2>1. First(i, Owned(t, list)) /\ l[i] = list[i]
    BY <1>1, <1>3, <1>4, <1>5 DEF First, Owned
  <2> QED
    BY <1>3, <2>1 DEF ReadsBack
<1>6. CASE i >= k
  <2>1. l[i] = list[i + 1] /\ i + 1 \in 1 .. Len(list)
    BY <1>1, <1>3, <1>6
  <2>2. First(i + 1, Owned(t, list))
    BY <1>3, <1>4, <1>6, <2>1 DEF First, Owned
  <2> QED
    BY <2>1, <2>2 DEF ReadsBack
<1> QED
  BY <1>3, <1>5, <1>6

\* What pk_device_cleanup leaves of a list: nothing to read.
LEMMA NothingToRead == \A t, p : ReadsBack(t, <<>>, p)
  BY DEF ReadsBack
\* A call that moves on without touching the lists: the conjuncts about other threads hold
\* as before, so what is left to show is about the caller.
LEMMA CallMovesOn ==
    ASSUME DmaInv, NEW t \in Task, NEW c \in CallType, call' = [call EXCEPT ![t] = c],
           areas' = areas, pages' = pages,
           mapped' \in [Task -> SUBSET Page],
           \A u \in Task : \A p \in mapped'[u] : Holds(u, p),
           allocations' \in [Task -> SUBSET (DmaDev \X Page)],
           CallSound(t, c, areas)
    PROVE  DmaInv'
<1>1. Listed' = Listed
  BY Zenon DEF Listed
<1>2. \A u \in Task : \A p \in Page : Holds(u, p)' => Holds(u, p)
  BY <1>1, Zenon DEF Holds, Area
<1>3. \A u \in Task : call'[u] = IF u = t THEN c ELSE call[u]
  BY Zenon DEF DmaInv, DmaTypes
<1>4. \A u \in Task : CallSound(u, call'[u], areas')
  BY <1>3, Zenon DEF DmaInv
<1>5. DmaTypes'
  BY Zenon DEF DmaInv, DmaTypes
<1>6. OneHolder'
  BY <1>2, Zenon DEF DmaInv, OneHolder
<1> QED
  BY <1>4, <1>5, <1>6, Zenon DEF DmaInv

\* The lists only lose areas, and none but of the caller's or of whole devices.
Shrinks(T) ==
    /\ areas' \in [DmaDev -> Seq(Areas)]
    /\ Listed' \subseteq Listed
    /\ \A u \in T : \A d \in DmaDev : \A p \in Page \cup {0} :
          ReadsBack(u, areas[d], p) => ReadsBack(u, areas'[d], p)

\* dma_free_store takes at most one area, the caller's, off one list.
LEMMA FreeShrinks ==
    ASSUME DmaInv, NEW t \in Task, NEW d \in DmaDev, NEW p, dma_free_store(t, d, p)
    PROVE  Shrinks(Task \ {t})
<1>1. CASE areas' = areas
  BY <1>1, Zenon DEF Shrinks, Listed, DmaInv, DmaTypes
<1>2. ASSUME NEW k \in DOMAIN areas[d], areas[d][k] = Area(p, t),
             areas' = [areas EXCEPT ![d] = ListDel(@, k)]
      PROVE  Shrinks(Task \ {t})
  <2>1. areas[d] \in Seq(Areas) /\ k \in 1 .. Len(areas[d]) /\ areas[d][k].owner = t
    BY <1>2 DEF DmaInv, DmaTypes, Area
  <2>2. /\ ListDel(areas[d], k) \in Seq(Areas)
        /\ \A i \in DOMAIN ListDel(areas[d], k) :
              \E j \in DOMAIN areas[d] : ListDel(areas[d], k)[i] = areas[d][j]
    <3>1. /\ ListDel(areas[d], k) \in Seq(Areas)
          /\ Len(ListDel(areas[d], k)) = Len(areas[d]) - 1
          /\ \A i \in 1 .. k - 1 : ListDel(areas[d], k)[i] = areas[d][i]
          /\ \A i \in k .. Len(areas[d]) - 1 : ListDel(areas[d], k)[i] = areas[d][i + 1]
      BY <2>1, ListDelFacts, Zenon
    <3>2. ASSUME NEW i \in 1 .. Len(areas[d]) - 1
          PROVE  \E j \in 1 .. Len(areas[d]) : ListDel(areas[d], k)[i] = areas[d][j]
      <4>1. CASE i < k
        <5>1. i \in 1 .. Len(areas[d]) /\ i \in 1 .. k - 1
          BY <2>1, <4>1
        <5> QED
          BY <3>1, <5>1, Zenon
      <4>2. CASE i >= k
        <5>1. i + 1 \in 1 .. Len(areas[d]) /\ i \in k .. Len(areas[d]) - 1
          BY <2>1, <4>2
        <5> QED
          BY <3>1, <5>1, Zenon
      <4> QED
        BY <2>1, <4>1, <4>2
    <3>3. DOMAIN areas[d] = 1 .. Len(areas[d]) /\ DOMAIN ListDel(areas[d], k) = 1 .. Len(areas[d]) - 1
      BY <2>1, <3>1
    <3> QED
      BY <3>1, <3>2, <3>3, Zenon
  <2>3. /\ areas' \in [DmaDev -> Seq(Areas)]
        /\ areas'[d] = ListDel(areas[d], k)
        /\ \A e \in DmaDev : e # d => areas'[e] = areas[e]
    BY <1>2, <2>2, Zenon DEF DmaInv, DmaTypes
  <2>4. Listed' \subseteq Listed
    <3>1. ASSUME NEW e \in DmaDev, NEW i \in DOMAIN areas'[e]
          PROVE  \E j \in DOMAIN areas[e] : areas'[e][i] = areas[e][j]
      BY <2>2, <2>3, <3>1
    <3>2. SUFFICES ASSUME NEW a \in Listed'
                   PROVE  a \in Listed
      BY Zenon
    <3>3. PICK e \in DmaDev : \E i \in DOMAIN areas'[e] : areas'[e][i] = a
      BY <3>2, Zenon DEF Listed
    <3>4. a \in Areas /\ \E j \in DOMAIN areas[e] : areas[e][j] = a
      BY <3>1, <3>2, <3>3 DEF Listed
    <3> QED
      BY <3>4, Zenon DEF Listed
  <2>5. ASSUME NEW u \in Task \ {t}, NEW e \in DmaDev, NEW q, ReadsBack(u, areas[e], q)
        PROVE  ReadsBack(u, areas'[e], q)
    BY <2>1, <2>3, <2>5, DelByOther, Zenon
  <2> QED
    BY <2>3, <2>4, <2>5, Zenon DEF Shrinks
<1> QED
  BY <1>1, <1>2, Zenon DEF dma_free_store

\* pk_device_cleanup empties lists.
LEMMA CleanupShrinks ==
    ASSUME DmaInv, NEW S, FreeAreas(S)
    PROVE  Shrinks(Task)
<1>1. \A d \in DmaDev : areas'[d] = areas[d] \/ areas'[d] = <<>>
  BY Zenon DEF FreeAreas
<1>2. areas' \in [DmaDev -> Seq(Areas)]
  BY DEF FreeAreas, DmaInv, DmaTypes
<1>3. \A d \in DmaDev : \A i \in DOMAIN areas'[d] : i \in DOMAIN areas[d] /\ areas'[d][i] = areas[d][i]
  BY <1>1
<1>4. Listed' \subseteq Listed
  BY <1>3, Zenon DEF Listed
<1> QED
  BY <1>1, <1>2, <1>4, NothingToRead, Zenon DEF Shrinks

\* When the lists shrink, the invariant is kept if the call does not read back what is gone.
LEMMA ShrinkingKeeps ==
    ASSUME DmaInv, NEW T \in SUBSET Task, Shrinks(T), pages' = pages,
           mapped' \in [Task -> SUBSET Page], \A u \in Task : mapped'[u] \subseteq mapped[u],
           allocations' \in [Task -> SUBSET (DmaDev \X Page)],
           call' \in [Task -> CallType],
           \A u \in T : call'[u] = call[u],
           \A u \in Task \ T : call'[u].pc \in {"idle", "destroy"}
    PROVE  DmaInv'
<1>1. \A u \in Task : \A p \in Page : Holds(u, p)' => Holds(u, p)
  BY Zenon DEF Holds, Area, Shrinks
<1>2. ASSUME NEW u \in T
      PROVE  CallSound(u, call'[u], areas')
  <2>1. call'[u] = call[u] /\ CallSound(u, call[u], areas) /\ call[u] \in CallType
    BY Zenon DEF DmaInv, DmaTypes
  <2>2. call[u].want \in Page \cup {0}
    BY <2>1, Zenon DEF CallType
  <2>3. call[u].dev \in DmaDev =>
           (ReadsBack(u, areas[call[u].dev], call[u].want) => ReadsBack(u, areas'[call[u].dev], call[u].want))
    BY <2>2, Zenon DEF Shrinks
  <2> QED
    BY <2>1, <2>3, Zenon DEF CallSound
<1>3. ASSUME NEW u \in Task \ T
      PROVE  CallSound(u, call'[u], areas')
  BY <1>3, Zenon DEF CallSound
<1>4. DmaTypes'
  BY Zenon DEF DmaInv, DmaTypes, Shrinks
<1>5. OneHolder'
  BY <1>1, Zenon DEF DmaInv, OneHolder
<1> QED
  BY <1>2, <1>3, <1>4, <1>5, Zenon DEF DmaInv

\* dma_alloc_store: the new area is of a page nobody holds, and the first its owner reads.
LEMMA AllocAdds ==
    ASSUME DmaInv, NEW t \in Task, NEW d \in DmaDev, NEW c \in CallType,
           c.pc = "read", c.dev = d, c.want = pages + 1,
           pages + 1 \in Page, pages' = pages + 1, pages' \in 0 .. MaxPages,
           areas' = [areas EXCEPT ![d] = ListAdd(@, Area(pages + 1, t))],
           call' = [call EXCEPT ![t] = c], UNCHANGED <<mapped, allocations>>
    PROVE  DmaInv'
<1> DEFINE new == Area(pages + 1, t)
<1>1. areas[d] \in Seq(Areas) /\ new \in Areas /\ new.owner = t
  BY Zenon DEF DmaInv, DmaTypes, Area, Areas
<1>2. /\ ListAdd(areas[d], new) \in Seq(Areas)
      /\ Len(ListAdd(areas[d], new)) = Len(areas[d]) + 1
      /\ ListAdd(areas[d], new)[1] = new
      /\ \A i \in 1 .. Len(areas[d]) : ListAdd(areas[d], new)[i + 1] = areas[d][i]
  BY <1>1, ListAddFacts, Zenon
<1>3. /\ areas' \in [DmaDev -> Seq(Areas)]
      /\ areas'[d] = ListAdd(areas[d], new)
      /\ \A e \in DmaDev : e # d => areas'[e] = areas[e]
  BY <1>2, Zenon DEF DmaInv, DmaTypes
<1>4. ReadsBack(t, areas'[d], pages + 1)
  BY <1>1, <1>3, AddedIsFirst, Zenon
<1>5. ASSUME NEW u \in Task \ {t}, NEW e \in DmaDev, NEW q, ReadsBack(u, areas[e], q)
      PROVE  ReadsBack(u, areas'[e], q)
  BY <1>1, <1>3, <1>5, AddByOther, Zenon
<1> HIDE DEF new
<1>6. ASSUME NEW a \in Listed'
      PROVE  a \in Listed \/ a = new
  <2>1. PICK e \in DmaDev : \E i \in DOMAIN areas'[e] : areas'[e][i] = a
    BY <1>6, Zenon DEF Listed
  <2>2. PICK i \in DOMAIN areas'[e] : areas'[e][i] = a
    BY <2>1, Zenon
  <2>3. a \in Areas
    BY <1>6, Zenon DEF Listed
  <2>4. CASE e # d
    BY <1>3, <2>2, <2>3, <2>4, Zenon DEF Listed
  <2>5. CASE e = d /\ i # 1
    <3>1. i - 1 \in 1 .. Len(areas[d]) /\ (i - 1) + 1 = i /\ i \in 1 .. Len(areas[d]) + 1
      BY <1>1, <1>2, <1>3, <2>2, <2>5
    <3>2. areas[d][i - 1] = a /\ i - 1 \in DOMAIN areas[d]
      BY <1>1, <1>2, <1>3, <2>2, <2>5, <3>1
    <3> QED
      BY <2>3, <3>2, Zenon DEF Listed
  <2>6. CASE e = d /\ i = 1
    BY <1>2, <1>3, <2>2, <2>6, Zenon
  <2> QED
    BY <2>4, <2>5, <2>6, Zenon
<1>7. ASSUME NEW u \in Task, NEW p \in Page, Holds(u, p)'
      PROVE  Holds(u, p) \/ (u = t /\ p = pages + 1)
  BY <1>6, <1>7, Zenon DEF Holds, Area, new
<1>8. pages \in Nat /\ \A u \in Task : \A p \in Page : Holds(u, p) => p <= pages
  BY DEF DmaInv, DmaTypes, OneHolder
<1>9. ~(pages + 1 <= pages) /\ \A p \in Page : p <= pages => p <= pages + 1
  BY <1>8 DEF Page
<1>10. OneHolder'
  <2>1. \A u \in Task : \A p \in Page : Holds(u, p)' => p <= pages'
    BY <1>7, <1>8, <1>9 DEF Page
  <2>2. ASSUME NEW u \in Task, NEW v \in Task, NEW p \in Page, Holds(u, p)', Holds(v, p)'
        PROVE  u = v
    BY <1>7, <1>8, <1>9, <2>2 DEF DmaInv, OneHolder
  <2> QED
    BY <2>1, <2>2, Zenon DEF OneHolder
<1>11. call'[t] = c /\ \A u \in Task \ {t} : call'[u] = call[u]
  BY Zenon DEF DmaInv, DmaTypes
<1>12. CallSound(t, call'[t], areas')
  BY <1>4, <1>11, Zenon DEF CallSound
<1>13. ASSUME NEW u \in Task \ {t}
       PROVE  CallSound(u, call'[u], areas')
  <2>1. call'[u] = call[u] /\ CallSound(u, call[u], areas)
    BY <1>11, Zenon DEF DmaInv
  <2> QED
    BY <1>5, <2>1, Zenon DEF CallSound
<1>14. DmaTypes'
  BY <1>3, Zenon DEF DmaInv, DmaTypes
<1> QED
  BY <1>10, <1>12, <1>13, <1>14, Zenon DEF DmaInv

\* dma_alloc_show: after a write that succeeded the first line is the new area.
LEMMA AllocReadStep ==
    ASSUME DmaInv, NEW t \in Task, AllocRead(t)
    PROVE  DmaInv'
<1> DEFINE list == areas[call[t].dev]
<1>1. /\ call[t] \in CallType /\ CallSound(t, call[t], areas) /\ call[t].pc = "read"
      /\ call[t].dev \in DmaDev /\ list \in Seq(Areas)
  BY Zenon DEF DmaInv, DmaTypes, AllocRead, CallSound
<1>2. \A u \in Task : \A p \in mapped[u] : Holds(u, p)
  BY Zenon DEF Holds
<1>3. UNCHANGED <<areas, pages, mapped, allocations>>
  BY Zenon DEF AllocRead
<1>4. ASSUME NEW c \in CallType, call' = [call EXCEPT ![t] = c],
             c.pc \in {"idle", "mmap"}, c.dev = call[t].dev \/ c.pc = "idle", c.ok => c.page = c.want,
             c.pc = "mmap" => c.page \in Page
      PROVE  DmaInv'
  <2>1. CallSound(t, c, areas)
    BY <1>1, <1>4, Zenon DEF CallSound
  <2> QED
    BY <1>2, <1>3, <1>4, <2>1, CallMovesOn, Zenon DEF DmaInv, DmaTypes
<1>5. ASSUME NEW i \in DOMAIN list, call[t].ok, First(i, Owned(t, list)),
             call' = [call EXCEPT ![t].pc = "mmap", ![t].page = list[i].page]
      PROVE  DmaInv'
  <2> DEFINE c == [call[t] EXCEPT !.pc = "mmap", !.page = list[i].page]
  <2>1. list[i].page = call[t].want
    BY <1>1, <1>5, Zenon DEF CallSound, ReadsBack
  <2>2. list[i].page \in Page
    <3>1. list[i] \in Areas
      BY <1>1
    <3> QED
      BY <3>1, Zenon DEF Areas
  <2>3. call' = [call EXCEPT ![t] = c]
    BY <1>5, Zenon DEF DmaInv, DmaTypes
  <2>4. c \in CallType /\ c.pc = "mmap" /\ c.dev = call[t].dev /\ c.page = c.want /\ c.page \in Page
    BY <1>1, <2>1, <2>2, Zenon DEF CallType, CallPc
  <2> QED
    BY <1>4, <2>3, <2>4, Zenon
<1>6. ASSUME NEW g \in Page \cup {0},
             call' = [call EXCEPT ![t] = IF g = 0 THEN NoCall
                                         ELSE [@ EXCEPT !.pc = "mmap", !.page = g, !.ok = FALSE]]
      PROVE  DmaInv'
  <2> DEFINE c == IF g = 0 THEN NoCall ELSE [call[t] EXCEPT !.pc = "mmap", !.page = g, !.ok = FALSE]
  <2>1. call' = [call EXCEPT ![t] = c]
    BY <1>6, Zenon
  <2>2. /\ c \in CallType /\ c.pc \in {"idle", "mmap"} /\ (c.dev = call[t].dev \/ c.pc = "idle") /\ ~c.ok
        /\ (c.pc = "mmap" => c.page \in Page)
    BY <1>1, Zenon DEF NoCall, CallType, CallPc
  <2> QED
    BY <1>4, <2>1, <2>2, Zenon
<1> QED
  BY <1>5, <1>6, Zenon DEF AllocRead

\* fops_mmap maps a page only for the owner of an area of it.
LEMMA MmapStep ==
    ASSUME DmaInv, NEW t \in Task,
           MmapWalk(t) \/ MmapOops(t) \/ MmapReturns(t) \/ MmapHuge(t)
    PROVE  DmaInv'
<1> USE DEF CallPc
<1>1. call[t] \in CallType
  BY Zenon DEF DmaInv, DmaTypes
<1>2. \A u \in Task : \A p \in mapped[u] : Holds(u, p)
  BY Zenon DEF Holds
<1>3. NoCall \in CallType /\ CallSound(t, NoCall, areas)
  BY Zenon DEF NoCall, CallType, CallSound
<1>4. CASE MmapWalk(t)
  <2> DEFINE c == [call[t] EXCEPT !.pc = "walk", !.walk = Listed]
  <2>1. call' = [call EXCEPT ![t] = c] /\ UNCHANGED <<areas, pages, mapped, allocations>>
    BY <1>4, Zenon DEF MmapWalk, DmaInv, DmaTypes
  <2>2. /\ c \in CallType /\ c.pc = "walk"
        /\ c.dev = call[t].dev /\ c.ok = call[t].ok /\ c.page = call[t].page /\ c.want = call[t].want
    BY <1>1, Zenon DEF CallType, Listed
  <2> HIDE DEF c
  <2>3. CallSound(t, c, areas)
    BY <1>4, <2>2, Zenon DEF MmapWalk, DmaInv, CallSound
  <2> QED
    BY <1>2, <2>1, <2>2, <2>3, CallMovesOn, Zenon DEF DmaInv, DmaTypes
<1>5. CASE MmapOops(t)
  <2> DEFINE c == [NoCall EXCEPT !.pc = "dead"]
  <2>1. call' = [call EXCEPT ![t] = c] /\ UNCHANGED <<areas, pages, mapped, allocations>>
    BY <1>5, Zenon DEF MmapOops
  <2>2. c \in CallType /\ CallSound(t, c, areas)
    BY Zenon DEF NoCall, CallType, CallSound
  <2> HIDE DEF c
  <2> QED
    BY <1>2, <2>1, <2>2, CallMovesOn, Zenon DEF DmaInv, DmaTypes
<1>6. ASSUME call[t].pc \in {"mmap", "walk"}, call' = [call EXCEPT ![t] = NoCall],
             UNCHANGED <<areas, pages>>, mapped' \in [Task -> SUBSET Page],
             \A u \in Task : \A p \in mapped'[u] : Holds(u, p),
             allocations' \in [Task -> SUBSET (DmaDev \X Page)]
      PROVE  DmaInv'
  BY <1>3, <1>6, CallMovesOn, Zenon
<1>7. CASE MmapReturns(t) /\ get_owned_dma_area(t, call[t].page)
  <2>1. call[t].page \in Page /\ call[t].dev \in DmaDev
    BY <1>7, Zenon DEF MmapReturns, DmaInv, CallSound
  <2>2. /\ call[t].pc = "walk" /\ call' = [call EXCEPT ![t] = NoCall] /\ UNCHANGED <<areas, pages>>
        /\ mapped' = [mapped EXCEPT ![t] = @ \cup {call[t].page}]
        /\ allocations' = [allocations EXCEPT ![t] = @ \cup {<<call[t].dev, call[t].page>>}]
    BY <1>7, Zenon DEF MmapReturns
  <2>3. mapped' \in [Task -> SUBSET Page] /\ allocations' \in [Task -> SUBSET (DmaDev \X Page)]
    BY <2>1, <2>2 DEF DmaInv, DmaTypes
  <2>4. \A u \in Task : mapped'[u] \subseteq mapped[u] \cup (IF u = t THEN {call[t].page} ELSE {})
    BY <2>2, Zenon DEF DmaInv, DmaTypes
  <2>5. \A u \in Task : \A p \in mapped'[u] : Holds(u, p)
    BY <1>2, <1>7, <2>4, Zenon DEF get_owned_dma_area, Holds
  <2> QED
    BY <1>6, <2>2, <2>3, <2>5, Zenon
<1>8. CASE MmapReturns(t) /\ ~get_owned_dma_area(t, call[t].page)
  <2>1. call[t].pc = "walk" /\ call' = [call EXCEPT ![t] = NoCall] /\ UNCHANGED <<areas, pages, mapped, allocations>>
    BY <1>8, Zenon DEF MmapReturns
  <2> QED
    BY <1>2, <1>6, <2>1, Zenon DEF DmaInv, DmaTypes
<1>9. CASE MmapHuge(t)
  <2>1. /\ call[t].pc = "mmap" /\ call' = [call EXCEPT ![t] = NoCall] /\ UNCHANGED <<areas, pages, mapped>>
        /\ \/ allocations' = [allocations EXCEPT ![t] = @ \cup {<<call[t].dev, call[t].page>>}]
           \/ UNCHANGED allocations
    BY <1>9, Zenon DEF MmapHuge
  <2>2. call[t].dev \in DmaDev /\ call[t].page \in Page
    BY <2>1, Zenon DEF DmaInv, CallSound
  <2>3. allocations' \in [Task -> SUBSET (DmaDev \X Page)]
    BY <2>1, <2>2 DEF DmaInv, DmaTypes
  <2> QED
    BY <1>2, <1>6, <2>1, <2>3, Zenon DEF DmaInv, DmaTypes
<1> QED
  BY <1>4, <1>5, <1>7, <1>8, <1>9, Zenon

\* The steps of a call of Device_sysfs.
LEMMA DmaRequestStep ==
    ASSUME DmaInv, NEW t \in Task, DmaRequest(t)
    PROVE  DmaInv'
<1> USE DEF CallPc
<1>1. call[t] \in CallType /\ call \in [Task -> CallType]
  BY Zenon DEF DmaInv, DmaTypes
<1>2. NoCall \in CallType
  BY Zenon DEF NoCall, CallType
<1>3. \A u \in Task : \A p \in mapped[u] : Holds(u, p)
  BY Zenon DEF Holds
<1>4. ASSUME NEW d \in DmaDev, NEW h \in BOOLEAN, AllocWrite(t, d, h)
      PROVE  DmaInv'
  <2>1. CASE UNCHANGED <<areas, pages>>
    <3>1. CASE call' = [call EXCEPT ![t] = [NoCall EXCEPT !.pc = "read", !.dev = d, !.huge = h]]
      <4> DEFINE c == [NoCall EXCEPT !.pc = "read", !.dev = d, !.huge = h]
      <4>1. c \in CallType /\ CallSound(t, c, areas)
        BY Zenon DEF NoCall, CallType, CallSound
      <4> HIDE DEF c
      <4>2. UNCHANGED <<mapped, allocations>>
        BY <1>4, Zenon DEF AllocWrite
      <4> QED
        BY <1>3, <2>1, <3>1, <4>1, <4>2, CallMovesOn, Zenon DEF DmaInv, DmaTypes, c
    <3>2. QED
      BY <1>4, <2>1, <3>1 DEF AllocWrite, DmaInv, DmaTypes
  <2>2. CASE pages' = pages + 1
    <3> DEFINE c == [NoCall EXCEPT !.pc = "read", !.dev = d, !.huge = h, !.want = pages + 1, !.ok = TRUE]
    <3>1. /\ pages < MaxPages /\ areas' = [areas EXCEPT ![d] = ListAdd(@, Area(pages + 1, t))]
          /\ call' = [call EXCEPT ![t] = c] /\ UNCHANGED <<mapped, allocations>>
      BY <1>4, <2>2 DEF AllocWrite, DmaInv, DmaTypes
    <3>2. pages + 1 \in Page /\ pages' \in 0 .. MaxPages
      <4>1. pages \in 0 .. MaxPages
        BY Zenon DEF DmaInv, DmaTypes
      <4> QED
        BY <2>2, <3>1, <4>1, DmaAssumption DEF Page
    <3>3. c \in CallType /\ c.pc = "read" /\ c.dev = d /\ c.want = pages + 1
      BY <3>2, Zenon DEF NoCall, CallType
    <3> HIDE DEF c
    <3> QED
      BY <2>2, <3>1, <3>2, <3>3, AllocAdds, Zenon
  <2> QED
    BY <1>4, <2>1, <2>2, Zenon DEF AllocWrite
<1>5. CASE alloc_dma_pages(t)
  BY <1>5, AllocReadStep, MmapStep, Zenon DEF alloc_dma_pages
<1>6. ASSUME NEW a \in allocations[t], grant_dma_access(t, a[2])
      PROVE  DmaInv'
  <2>1. call' = [call EXCEPT ![t] = call[t]] /\ UNCHANGED <<areas, pages, mapped, allocations>>
    BY <1>1, <1>6, Zenon DEF grant_dma_access
  <2> QED
    BY <1>1, <1>3, <2>1, CallMovesOn, Zenon DEF DmaInv, DmaTypes
<1>7. ASSUME NEW a \in allocations[t], FreeUnmap(t, a[1], a[2])
      PROVE  DmaInv'
  <2> DEFINE c == [NoCall EXCEPT !.pc = "free", !.dev = a[1], !.page = a[2]]
  <2>1. a[1] \in DmaDev /\ a[2] \in Page
    BY DEF DmaInv, DmaTypes
  <2>2. c \in CallType /\ CallSound(t, c, areas)
    BY <2>1, Zenon DEF NoCall, CallType, CallSound
  <2>3. /\ call' = [call EXCEPT ![t] = c] /\ UNCHANGED <<areas, pages, allocations>>
        /\ mapped' = [mapped EXCEPT ![t] = @ \ {a[2]}]
    BY <1>7, Zenon DEF FreeUnmap
  <2> HIDE DEF c
  <2>4. mapped' \in [Task -> SUBSET Page] /\ \A u \in Task : mapped'[u] \subseteq mapped[u]
    BY <2>3, Zenon DEF DmaInv, DmaTypes
  <2> QED
    BY <1>3, <2>1, <2>2, <2>3, <2>4, CallMovesOn, Zenon DEF DmaInv, DmaTypes
<1>8. ASSUME NEW a \in allocations[t], Destroy(t, a[1], a[2])
      PROVE  DmaInv'
  <2> DEFINE c == IF allocations'[t] = {} THEN NoCall ELSE [NoCall EXCEPT !.pc = "destroy"]
  <2>1. a[1] \in DmaDev
    BY DEF DmaInv, DmaTypes
  <2>2. Shrinks(Task \ {t})
    BY <1>8, <2>1, FreeShrinks, Zenon DEF Destroy
  <2>3. c \in CallType /\ c.pc \in {"idle", "destroy"}
    BY Zenon DEF NoCall, CallType
  <2>4. /\ call' = [call EXCEPT ![t] = c] /\ pages' = pages
        /\ mapped' = [mapped EXCEPT ![t] = @ \ {a[2]}]
        /\ allocations' = [allocations EXCEPT ![t] = @ \ {<<a[1], a[2]>>}]
    BY <1>8, Zenon DEF Destroy
  <2> HIDE DEF c
  <2>5. mapped' \in [Task -> SUBSET Page] /\ \A u \in Task : mapped'[u] \subseteq mapped[u]
    BY <2>4, Zenon DEF DmaInv, DmaTypes
  <2>6. allocations' \in [Task -> SUBSET (DmaDev \X Page)]
    BY <2>4, Zenon DEF DmaInv, DmaTypes
  <2>7. /\ call' \in [Task -> CallType] /\ \A u \in Task \ {t} : call'[u] = call[u]
        /\ call'[t] = c
    BY <1>1, <2>3, <2>4, Zenon
  <2> QED
    BY <2>2, <2>3, <2>4, <2>5, <2>6, <2>7, ShrinkingKeeps, Zenon
<1>9. CASE FreeWrite(t)
  <2>1. Shrinks(Task \ {t})
    BY <1>9, FreeShrinks, Zenon DEF FreeWrite, DmaInv, CallSound
  <2>2. call' = [call EXCEPT ![t] = NoCall] /\ UNCHANGED <<pages, mapped, allocations>>
    BY <1>9, Zenon DEF FreeWrite
  <2>3. /\ call' \in [Task -> CallType] /\ \A u \in Task \ {t} : call'[u] = call[u]
        /\ call'[t].pc = "idle"
    BY <1>1, <1>2, <2>2, Zenon DEF NoCall
  <2>4. mapped' \in [Task -> SUBSET Page] /\ allocations' \in [Task -> SUBSET (DmaDev \X Page)]
    BY <2>2, Zenon DEF DmaInv, DmaTypes
  <2> QED
    BY <2>1, <2>2, <2>3, <2>4, ShrinkingKeeps, Zenon
<1>10. CASE Exit(t)
  <2>1. /\ call' = [call EXCEPT ![t] = NoCall] /\ UNCHANGED <<areas, pages>>
        /\ mapped' = [mapped EXCEPT ![t] = {}]
        /\ allocations' = [allocations EXCEPT ![t] = {}]
    BY <1>10, Zenon DEF Exit
  <2>2. /\ mapped' \in [Task -> SUBSET Page] /\ \A u \in Task : mapped'[u] \subseteq mapped[u]
        /\ allocations' \in [Task -> SUBSET (DmaDev \X Page)]
    BY <2>1, Zenon DEF DmaInv, DmaTypes
  <2>3. CallSound(t, NoCall, areas)
    BY Zenon DEF NoCall, CallSound
  <2> QED
    BY <1>2, <1>3, <2>1, <2>2, <2>3, CallMovesOn, Zenon
<1> QED
  BY <1>4, <1>5, <1>6, <1>7, <1>8, <1>9, <1>10, Zenon
     DEF DmaRequest
\* Every step of the module and its clients.
LEMMA DmaStep ==
    ASSUME DmaInv, [PkNext]_pkVars
    PROVE  DmaInv'
<1>1. CASE UNCHANGED dmaVars
  <2>1. Listed' = Listed /\ UNCHANGED <<areas, pages, mapped, allocations, call>>
    BY <1>1, Zenon DEF dmaVars, Listed
  <2> QED
    BY <2>1, Zenon DEF DmaInv, DmaTypes, OneHolder, Holds
<1>2. ASSUME NEW S, FreeAreas(S)
      PROVE  DmaInv'
  <2>1. UNCHANGED <<pages, mapped, allocations, call>>
    BY <1>2, Zenon DEF FreeAreas
  <2> QED
    BY <1>2, <2>1, CleanupShrinks, ShrinkingKeeps, Zenon DEF DmaInv, DmaTypes
<1>3. ASSUME NEW d \in Dev, DetachDevice(d)
      PROVE  DmaInv'
  BY <1>1, <1>2, <1>3, Zenon DEF DetachDevice
<1>4. CASE ReloadModule
  BY <1>2, <1>4, Zenon DEF ReloadModule
<1> QED
  BY <1>1, <1>3, <1>4, DmaRequestStep, Zenon DEF PkNext, pkVars

\* Whatever other clients allocate, free, map and share, and whichever devices are detached
\* meanwhile, alloc_dma_pages maps the area its own write made, and no two threads come to
\* have a page in common.
THEOREM DmaIsMapped == PkSpec => []DmaMapped
<1>1. PkInit => DmaInv
  <2> SUFFICES ASSUME PkInit PROVE DmaInv
    BY Zenon
  <2>1. /\ areas = [d \in DmaDev |-> <<>>] /\ pages = 0 /\ mapped = [t \in Task |-> {}]
        /\ allocations = [t \in Task |-> {}] /\ call = [t \in Task |-> NoCall]
    BY Zenon DEF PkInit, DmaInit
  <2>2. NoCall \in CallType /\ NoCall.pc = "idle"
    BY Zenon DEF NoCall, CallType, CallPc
  <2>3. Listed = {}
    BY <2>1 DEF Listed
  <2>4. \A t \in Task : \A p \in Page : ~Holds(t, p)
    BY <2>1, <2>3, Zenon DEF Holds
  <2>5. \A t \in Task : CallSound(t, call[t], areas)
    BY <2>1, <2>2, Zenon DEF CallSound
  <2>6. DmaTypes
    BY <2>1, <2>2, DmaAssumption DEF DmaTypes
  <2> QED
    BY <2>4, <2>5, <2>6, Zenon DEF DmaInv, OneHolder
<1>2. ASSUME DmaInv
      PROVE  DmaMapped
  <2>1. ASSUME NEW t \in Task, NEW u \in Task, t # u
        PROVE  /\ mapped[t] \cap mapped[u] = {}
               /\ \A a \in Listed : a.owner = t => a.page \notin mapped[u]
    <3>1. \A p \in mapped[t] \cup mapped[u] : p \in Page
      BY <1>2, Zenon DEF DmaInv, DmaTypes
    <3>2. ASSUME NEW a \in Listed, a.owner = t
          PROVE  a.page \in Page /\ Holds(t, a.page)
      BY <3>2, Zenon DEF Holds, Listed, Area, Areas
    <3>3. \A p \in Page : ~(Holds(t, p) /\ Holds(u, p))
      BY <1>2, <2>1, Zenon DEF DmaInv, OneHolder
    <3> QED
      BY <3>1, <3>2, <3>3, Zenon DEF Holds
  <2> QED
    BY <1>2, <2>1, Zenon DEF DmaInv, CallSound, DmaMapped
<1> QED
  BY <1>1, <1>2, DmaStep, PTL DEF PkSpec
=============================================================================
