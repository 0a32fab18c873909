----------------------------- MODULE NicStartup -----------------------------
(***************************************************************************)
(* Start-up of the x540 driver process: the configuration is parsed, the   *)
(* memory component creates its allocators, the NIC component configures   *)
(* every card and starts its threads, and the receive threads open their   *)
(* rings while packets already arrive.  The NIC thread, the memory thread, *)
(* the receive and transmit threads and the card interleave.               *)
(*                                                                         *)
(* Thread t of a card owns receive queues 2t and 2t+1, vector t and        *)
(* transmit queue 2t.  A vector that is unmasked fires at once             *)
(* (EITR of the queue vectors stays 0).                                    *)
(***************************************************************************)
EXTENDS Integers

CONSTANTS
    nic_num, channels_per_nic,
    Frame_nums,          \* packet blocks of a core: what the file may give as frame_num_per_core
    Rx_blocks,           \* packet blocks of a receive queue (rx_desc_per_queue)
    Tx_blocks,           \* packet blocks a transmit thread allocates
    PositiveFields, PlainFields   \* configuration elements checked for <= 0, and not

Nics == 0 .. nic_num - 1
Threads == 0 .. channels_per_nic - 1
Queues == 0 .. 2 * channels_per_nic - 1
ALLOCATORS == 5
Allocators == 0 .. ALLOCATORS - 1
DESC == 0
PACKET == 1

\* init_nic_param has five flow signatures.  The parser takes any positive number of frames.
ASSUME NicAssumption ==
    /\ nic_num \in Nat \ {0} /\ channels_per_nic \in 1 .. 5
    /\ Frame_nums \subseteq Nat \ {0} /\ Rx_blocks \in Nat /\ Tx_blocks \in Nat

VARIABLES
    config,    \* the element of the file that is wrong, and how
    main,      \* the main thread
    mem,       \* memory component: frames of a core, ready, next allocator, keys and blocks left
    nic,       \* NIC thread: device and place
    nic_state, \* component state of each device
    card,      \* registers of each card
    dev,       \* flags of each device object
    rxt, txt,  \* the threads of each device
    latched    \* vectors the kernel has latched

nicVars == <<config, main, mem, nic, nic_state, card, dev, rxt, txt, latched>>

Reset == [rxen |-> FALSE, eims |-> {}, eicr |-> {}, lpbk |-> FALSE, counted |-> TRUE, secdis |-> FALSE,
          fdir |-> {}, ivar |-> [q \in Queues |-> -1], pb |-> 384,
          txq |-> {}, rxq |-> {}, ring |-> {}, rdt |-> {}, pkt |-> {}]

NicInit ==
    /\ config \in ((PositiveFields \cup PlainFields) \X {"missing", "text"})
                  \cup (PositiveFields \X {"zero"}) \cup {<<"none", "ok">>}
    /\ main = "parse"
    /\ mem \in [frames : Frame_nums, state : {"init"}, next : {0},
               keys : {[x \in Nics \X Allocators |-> 0]}, desc : {[d \in Nics |-> 0]},
               packet : {[d \in Nics |-> [t \in Threads |-> 0]]}]
    /\ nic = [pc |-> "start", d |-> 0, q |-> 0]
    /\ nic_state = [d \in Nics |-> "NIC_INIT_STATE"]
    /\ card \in [Nics -> {[Reset EXCEPT !.rxen = TRUE, !.eims = Threads, !.txq = Queues, !.rxq = Queues]}]
    /\ dev = [d \in Nics |-> [flow |-> [t \in Threads |-> -1], vector |-> [t \in Threads |-> -1],
                              ready |-> {}, all_setup_done |-> FALSE, rx_start_ok |-> FALSE]]
    /\ rxt = [d \in Nics |-> [t \in Threads |-> "none"]]
    /\ txt = [d \in Nics |-> [t \in Threads |-> "none"]]
    /\ latched = [d \in Nics |-> {}]

-----------------------------------------------------------------------------
(* main: parse the file, then create both component threads. *)

parse_ok(fields) == config[1] \notin fields \/ config[2] = "ok"

Parse(fields, from, to) ==
    /\ main = from
    /\ main' = IF parse_ok(fields) THEN to ELSE "exit"
    /\ UNCHANGED <<config, mem, nic, nic_state, card, dev, rxt, txt, latched>>

\* numbers that must be there and not zero, then the elements only looked up
Parse_positive == Parse(PositiveFields, "parse", "plain")
Parse_plain == Parse(PlainFields, "plain", "bind")

Create_threads ==
    /\ main = "bind"
    /\ main' = "sleep" /\ nic' = [nic EXCEPT !.pc = "ctor"]
    /\ mem' = [mem EXCEPT !.state = "create"]
    /\ UNCHANGED <<config, nic_state, card, dev, rxt, txt, latched>>

-----------------------------------------------------------------------------
(* The memory component: five allocators for each device, each in a shared
   memory segment of its own key; then the other components may allocate. *)

key(j, id) == j * ALLOCATORS + id + 100

Mem_create ==
    LET n == ALLOCATORS
        j == mem.next \div n
        id == mem.next % n
    IN /\ mem.state = "create" /\ mem.next < n * nic_num
       /\ mem' = [mem EXCEPT !.next = @ + 1,
                    !.keys[<<j, id>>] = key(j, id),
                    !.desc[j] = IF id = DESC THEN 2 ELSE @,
                    !.packet[j] = IF id = PACKET THEN [t \in Threads |-> mem.frames] ELSE @]
       /\ UNCHANGED <<config, main, nic, nic_state, card, dev, rxt, txt, latched>>

Mem_ready ==
    /\ mem.state = "create" /\ mem.next = ALLOCATORS * nic_num
    /\ mem' = [mem EXCEPT !.state = "MEM_READY_STATE"]
    /\ UNCHANGED <<config, main, nic, nic_state, card, dev, rxt, txt, latched>>

-----------------------------------------------------------------------------
(* The NIC thread: NicComponent::init and, for each device, init_device. *)

d0 == nic.d

\* the NIC thread goes from a to b; on the way it gives d0's card the registers r
Step(a, b, r) ==
    /\ nic.pc = a /\ nic' = [nic EXCEPT !.pc = b, !.q = 0]
    /\ card' = [card EXCEPT ![d0] = r]

\* a bounded poll may run out: the process panics
StepOrPanic(a, b, r) == Step(a, b, r) \/ Step(a, "panic", card[d0])

Nic_ctor ==
    /\ nic.pc = "ctor"
    /\ nic' = [nic EXCEPT !.pc = "wait_mem"]
    /\ nic_state' = [d \in Nics |-> "NIC_CREATED_STATE"]
    /\ UNCHANGED <<config, main, mem, card, dev, rxt, txt, latched>>

\* init_nic_param: one flow signature per receive thread
Init_nic_param ==
    /\ Step("wait_mem", "stop", card[d0]) /\ mem.state = "MEM_READY_STATE"
    /\ dev' = [dev EXCEPT ![d0].flow = [t \in Threads |-> t]]
    /\ UNCHANGED <<config, main, mem, nic_state, rxt, txt, latched>>

Stop_adapter ==
    /\ Step("stop", "txpending", [card[d0] EXCEPT !.rxen = FALSE, !.eims = {}, !.eicr = {},
                                                   !.txq = {}, !.rxq = {}])
    /\ UNCHANGED <<config, main, mem, nic_state, dev, rxt, txt, latched>>

\* loopback keeps pending transmissions in while the buffers are cleared
Clear_tx_pending ==
    /\ \/ Step("txpending", "txcleared", [card[d0] EXCEPT !.lpbk = TRUE])
       \/ Step("txcleared", "reset", [card[d0] EXCEPT !.lpbk = FALSE])
    /\ UNCHANGED <<config, main, mem, nic_state, dev, rxt, txt, latched>>

Reset_hw ==
    /\ StepOrPanic("reset", "counters", Reset)
    /\ UNCHANGED <<config, main, mem, nic_state, dev, rxt, txt, latched>>

\* reading a statistics register clears it
Clear_hw_counters ==
    /\ Step("counters", "pb", [card[d0] EXCEPT !.counted = FALSE])
    /\ UNCHANGED <<config, main, mem, nic_state, dev, rxt, txt, latched>>

hdrm == 64      \* 32 << fdir_pballoc
\* setup_rxpba: what the flow director's filters leave of the packet buffer
Setup_rxpba ==
    /\ Step("pb", "sec_off", [card[d0] EXCEPT !.pb = @ - hdrm])
    /\ UNCHANGED <<config, main, mem, nic_state, dev, rxt, txt, latched>>

Disable_sec_rx_path ==
    /\ Step("sec_off", "fdir", [card[d0] EXCEPT !.secdis = TRUE])
    /\ UNCHANGED <<config, main, mem, nic_state, dev, rxt, txt, latched>>

\* the flow director: initialised with a poll, then one filter per receive thread
Init_fdir_perfect ==
    /\ StepOrPanic("fdir", "filters", [card[d0] EXCEPT !.fdir = {}])
    /\ UNCHANGED <<config, main, mem, nic_state, dev, rxt, txt, latched>>

setup_fdir_filter_thread(sig, t) == <<sig, t>>
setup_fdir_filter(sig, t) == <<sig, 2 * t>>

Filter_setup ==
    /\ Step("filters", "sec_on",
            [card[d0] EXCEPT !.fdir = {setup_fdir_filter(dev[d0].flow[t], t) : t \in Threads}])
    /\ UNCHANGED <<config, main, mem, nic_state, dev, rxt, txt, latched>>

Enable_sec_rx_path ==
    /\ Step("sec_on", "tx", [card[d0] EXCEPT !.secdis = FALSE])
    /\ UNCHANGED <<config, main, mem, nic_state, dev, rxt, txt, latched>>

\* configure_tx: a block for the descriptors, then each ring
Configure_tx ==
    /\ Step("tx", "tx_ring", card[d0])
    /\ mem' = [mem EXCEPT !.desc[d0] = @ - 1]
    /\ UNCHANGED <<config, main, nic_state, dev, rxt, txt, latched>>

Configure_tx_ring ==
    /\ nic.pc = "tx_ring"
    /\ \/ /\ card' = [card EXCEPT ![d0].txq = @ \cup {nic.q}]
          /\ nic' = IF nic.q + 1 \in Queues THEN [nic EXCEPT !.q = @ + 1]
                    ELSE [nic EXCEPT !.pc = "rx", !.q = 0]
          /\ nic_state' = IF nic.q + 1 \in Queues THEN nic_state
                          ELSE [nic_state EXCEPT ![d0] = "NIC_TX_DONE_STATE"]
       \/ nic' = [nic EXCEPT !.pc = "panic"] /\ UNCHANGED <<card, nic_state>>
    /\ UNCHANGED <<config, main, mem, dev, rxt, txt, latched>>

\* configure_rx: receives off, a block for the descriptors, then each queue
Configure_rx ==
    /\ Step("rx", "rx_ring", [card[d0] EXCEPT !.rxen = FALSE])
    /\ mem' = [mem EXCEPT !.desc[d0] = @ - 1]
    /\ UNCHANGED <<config, main, nic_state, dev, rxt, txt, latched>>

\* a queue is off while its ring is set up; the poll for it may only warn
disable_rx_queue(r, q) == [r EXCEPT !.rxq = @ \ {q}]
\* the queue is on when the card says so; it may never do, and the process panics
rx_desc_queue_enable(r, q) == [r EXCEPT !.rxq = @ \cup {q}]

\* its packet blocks, from the core of its thread; the ring, with an empty tail
Configure_rx_ring ==
    LET off == disable_rx_queue(card[d0], nic.q)
        set == [off EXCEPT !.ring = @ \cup {nic.q}, !.rdt = @ \ {nic.q}]
    IN
    /\ nic.pc = "rx_ring" /\ mem.packet[d0][nic.q \div 2] >= Rx_blocks
    /\ mem' = [mem EXCEPT !.packet[d0][nic.q \div 2] = @ - Rx_blocks]
    /\ \/ /\ nic' = IF nic.q + 1 \in Queues THEN [nic EXCEPT !.q = @ + 1]
                    ELSE [nic EXCEPT !.pc = "rxen", !.q = 0]
          /\ card' = [card EXCEPT ![d0] = rx_desc_queue_enable(set, nic.q)]
       \/ nic' = [nic EXCEPT !.pc = "panic"] /\ card' = [card EXCEPT ![d0] = set]
    /\ UNCHANGED <<config, main, nic_state, dev, rxt, txt, latched>>

\* MemComponent::alloc asserts that there is a block
No_rx_blocks ==
    /\ nic.pc = "rx_ring" /\ mem.packet[d0][nic.q \div 2] < Rx_blocks
    /\ nic' = [nic EXCEPT !.pc = "no_memory"]
    /\ UNCHANGED <<config, main, mem, nic_state, card, dev, rxt, txt, latched>>

Enable_rx ==
    /\ Step("rxen", "up", [card[d0] EXCEPT !.rxen = TRUE])
    /\ nic_state' = [nic_state EXCEPT ![d0] = "NIC_RX_DONE_STATE"]
    /\ UNCHANGED <<config, main, mem, dev, rxt, txt, latched>>

set_ivar(q) == q \div 2
configure_msix == [q \in Queues |-> set_ivar(q)]
irq_enable(r) == [r EXCEPT !.eims = Threads]

\* up_complete: queues to vectors, pending causes cleared, all vectors enabled
up_complete(r) == irq_enable([r EXCEPT !.ivar = configure_msix, !.eicr = {}])

\* the end of nic_configure, which then resets the flags
Up_complete ==
    /\ Step("up", "msi", up_complete(card[d0]))
    /\ dev' = [dev EXCEPT ![d0].ready = {}, ![d0].all_setup_done = FALSE, ![d0].rx_start_ok = FALSE]
    /\ UNCHANGED <<config, main, mem, nic_state, rxt, txt, latched>>

Setup_msi_interrupt ==
    /\ Step("msi", "txthreads", card[d0])
    /\ dev' = [dev EXCEPT ![d0].vector = [t \in Threads |-> t]]
    /\ UNCHANGED <<config, main, mem, nic_state, rxt, txt, latched>>

Setup_tx_threads ==
    /\ nic.pc = "txthreads"
    /\ txt' = [txt EXCEPT ![d0][nic.q] = "start"]
    /\ nic' = IF nic.q + 1 \in Threads THEN [nic EXCEPT !.q = @ + 1]
              ELSE [nic EXCEPT !.pc = "rxthreads", !.q = 0]
    /\ UNCHANGED <<config, main, mem, nic_state, card, dev, rxt, latched>>

\* after the last thread of a device, the next device; after the last, wait for all
Setup_rx_threads ==
    /\ nic.pc = "rxthreads"
    /\ rxt' = [rxt EXCEPT ![d0][nic.q] = "start"]
    /\ nic' = IF nic.q + 1 \in Threads THEN [nic EXCEPT !.q = @ + 1]
              ELSE IF d0 + 1 \in Nics THEN [pc |-> "wait_mem", d |-> d0 + 1, q |-> 0]
              ELSE [pc |-> "activate", d |-> 0, q |-> 0]
    /\ UNCHANGED <<config, main, mem, nic_state, card, dev, txt, latched>>

-----------------------------------------------------------------------------
\* Writing EIMS fires the vectors whose causes are latched.
Unmask(d, vs) ==
    LET fire == card[d].eicr \cap vs IN
    /\ card' = [card EXCEPT ![d].eims = (@ \cup vs) \ fire, ![d].eicr = @ \ fire]
    /\ latched' = [latched EXCEPT ![d] = @ \cup fire]

\* wait_for_activate: all threads ready; EICR is read and cleared, EIMS written, and
\* only then may the threads go on
Wait_for_activate ==
    /\ nic.pc = "activate" /\ dev[d0].ready = Threads
    /\ nic' = [nic EXCEPT !.pc = "eims"]
    /\ card' = [card EXCEPT ![d0].eicr = {}]
    /\ UNCHANGED <<config, main, mem, nic_state, dev, rxt, txt, latched>>

Activated ==
    /\ nic.pc = "eims"
    /\ Unmask(d0, Threads)
    /\ dev' = [dev EXCEPT ![d0].all_setup_done = TRUE]
    /\ nic' = IF d0 + 1 \in Nics THEN [pc |-> "activate", d |-> d0 + 1, q |-> 0]
              ELSE [pc |-> "run", d |-> 0, q |-> 0]
    /\ UNCHANGED <<config, main, mem, nic_state, rxt, txt>>

Run ==
    /\ nic.pc = "run"
    /\ dev' = [dev EXCEPT ![d0].rx_start_ok = TRUE]
    /\ nic' = IF d0 + 1 \in Nics THEN [nic EXCEPT !.d = @ + 1] ELSE [nic EXCEPT !.pc = "done"]
    /\ UNCHANGED <<config, main, mem, nic_state, card, rxt, txt, latched>>

NicThread ==
    \/ Nic_ctor \/ Init_nic_param \/ Stop_adapter \/ Clear_tx_pending \/ Reset_hw
    \/ Clear_hw_counters \/ Setup_rxpba \/ Disable_sec_rx_path \/ Init_fdir_perfect
    \/ Filter_setup \/ Enable_sec_rx_path \/ Configure_tx \/ Configure_tx_ring
    \/ Configure_rx \/ Configure_rx_ring \/ No_rx_blocks \/ Enable_rx \/ Up_complete
    \/ Setup_msi_interrupt \/ Setup_tx_threads \/ Setup_rx_threads \/ Wait_for_activate \/ Activated \/ Run

-----------------------------------------------------------------------------
(* Receive thread t of device d. *)

Irq_ready(d, t) ==
    /\ rxt[d][t] = "start"
    /\ rxt' = [rxt EXCEPT ![d][t] = "ready"] /\ dev' = [dev EXCEPT ![d].ready = @ \cup {t}]
    /\ UNCHANGED <<config, main, mem, nic, nic_state, card, txt, latched>>

\* activate, after its sleep: the tails of both rings
Activate(d, t) ==
    /\ rxt[d][t] = "ready"
    /\ rxt' = [rxt EXCEPT ![d][t] = "active"]
    /\ card' = [card EXCEPT ![d].rdt = @ \cup {2 * t, 2 * t + 1}]
    /\ UNCHANGED <<config, main, mem, nic, nic_state, dev, txt, latched>>

\* the last thread reports that the component is up
Irq_start(d, t) ==
    /\ rxt[d][t] = "active" /\ dev[d].all_setup_done /\ dev[d].rx_start_ok
    /\ rxt' = [rxt EXCEPT ![d][t] = "wait"]
    /\ nic_state' = IF t + 1 \in Threads THEN nic_state
                    ELSE [nic_state EXCEPT ![d] = "NIC_READY_STATE"]
    /\ UNCHANGED <<config, main, mem, nic, card, dev, txt, latched>>

\* wait_for_msix_irq returns, and the handler empties the queue of its thread
Interrupt(d, t) ==
    /\ rxt[d][t] = "wait" /\ dev[d].vector[t] \in latched[d]
    /\ latched' = [latched EXCEPT ![d] = @ \ {dev[d].vector[t]}]
    /\ rxt' = [rxt EXCEPT ![d][t] = "handle"]
    /\ UNCHANGED <<config, main, mem, nic, nic_state, card, dev, txt>>

Handle_masked(d, t) ==
    /\ rxt[d][t] = "handle"
    /\ IF 2 * t \in card[d].pkt
       THEN card' = [card EXCEPT ![d].pkt = @ \ {2 * t}] /\ UNCHANGED rxt
       ELSE rxt' = [rxt EXCEPT ![d][t] = "wait"] /\ UNCHANGED card
    /\ UNCHANGED <<config, main, mem, nic, nic_state, dev, txt, latched>>

Handle(d, t) ==
    /\ rxt[d][t] = "handle"
    /\ IF 2 * t \in card[d].pkt
       THEN /\ card' = [card EXCEPT ![d].pkt = @ \ {2 * t}]
            /\ UNCHANGED <<rxt, latched>>
       ELSE Unmask(d, {t}) /\ rxt' = [rxt EXCEPT ![d][t] = "wait"]
    /\ UNCHANGED <<config, main, mem, nic, nic_state, dev, txt>>

RxThread(d, t) == Irq_ready(d, t) \/ Activate(d, t) \/ Irq_start(d, t) \/ Interrupt(d, t) \/ Handle(d, t)

\* send_pkt_test: its packets, then sends on queue 2t
TxThread(d, t) ==
    /\ txt[d][t] = "start" /\ mem.packet[d][t] >= Tx_blocks
    /\ txt' = [txt EXCEPT ![d][t] = "send"]
    /\ mem' = [mem EXCEPT !.packet[d][t] = @ - Tx_blocks]
    /\ UNCHANGED <<config, main, nic, nic_state, card, dev, rxt, latched>>

No_tx_blocks(d, t) ==
    /\ txt[d][t] = "start" /\ mem.packet[d][t] < Tx_blocks
    /\ nic' = [nic EXCEPT !.pc = "no_memory"]
    /\ UNCHANGED <<config, main, mem, nic_state, card, dev, rxt, txt, latched>>

\* The card: a packet of a flow goes to the queue of its filter; an unmasked vector
\* fires and is masked, a masked one is latched.
Card_packet(d) ==
    \E f \in card[d].fdir :
        LET q == f[2]
            v == card[d].ivar[q]
            fires == v \in card[d].eims
        IN /\ card[d].rxen /\ q \in card[d].rxq \cap card[d].rdt /\ q \notin card[d].pkt
           /\ card' = [card EXCEPT ![d].pkt = @ \cup {q},
                                   ![d].eims = @ \ {v},
                                   ![d].eicr = IF fires THEN @ ELSE @ \cup {v}]
           /\ latched' = IF fires THEN [latched EXCEPT ![d] = @ \cup {v}] ELSE latched
           /\ UNCHANGED <<config, main, mem, nic, nic_state, dev, rxt, txt>>

NicAlive == nic.pc \notin {"panic", "no_memory"}
NicProcess == NicThread \/ Mem_create \/ Mem_ready
NicNext ==
    /\ NicAlive
    /\ \/ Parse_positive \/ Parse_plain \/ Create_threads \/ NicProcess
       \/ \E d \in Nics : Card_packet(d) \/ \E t \in Threads :
                         RxThread(d, t) \/ TxThread(d, t) \/ No_tx_blocks(d, t)

NicSpec == NicInit /\ [][NicNext]_nicVars

-----------------------------------------------------------------------------
\* the packet blocks of a core are shared by two receive queues and a sender
Enough(frames) == frames >= 2 * Rx_blocks + Tx_blocks

\* What start-up relies on but no single function shows.  Memory is taken only from
\* allocators that exist, out of segments of their own (init_device waits for
\* MEM_READY_STATE); the descriptor blocks suffice, and the assertion in
\* MemComponent::alloc stops the process only when the file gives a core fewer frames
\* than its rings and its sender take, which the parser does not compare.  A ring has
\* its descriptors and buffers before the card may write to it; nothing is sent on a
\* queue that is off.  The queue a flow is directed to raises the vector of the thread
\* that reads that queue.
NicStartsSafely ==
    /\ \A d \in Nics : mem.desc[d] >= 0
    /\ nic.pc = "no_memory" => ~Enough(mem.frames)
    /\ nic.pc \notin {"start", "ctor", "wait_mem"} => mem.state = "MEM_READY_STATE"
    /\ \A x, y \in Nics \X Allocators : mem.keys[x] = mem.keys[y] /\ mem.keys[x] # 0 => x = y
    /\ \A d \in Nics :
        /\ card[d].rdt \subseteq card[d].ring
        /\ \A t \in Threads : txt[d][t] = "send" => 2 * t \in card[d].txq
        /\ rxt[d][0] # "none" => \A t \in Threads : \A f \in card[d].fdir :
            f[1] = t => f[2] = 2 * t /\ card[d].ivar[f[2]] = dev[d].vector[t]

(***************************************************************************)
(* The inductive invariant (proved in PlatformProofs), while the process   *)
(* is alive.  StageOf is how far the NIC thread is with a device; Set      *)
(* collects what it has set up by then, Stock what may still be taken from *)
(* the device's allocators.                                                *)
(***************************************************************************)
Later == {"activate", "eims", "run", "done"}
Vectors == {"txthreads", "rxthreads", "done"}
Mapped == {"msi"} \cup Vectors
Rings == {"rxen", "up"} \cup Mapped
Transmits == {"rx", "rx_ring"} \cup Rings
Filtered == {"sec_on", "tx", "tx_ring"} \cup Transmits
Known == {"stop", "txpending", "txcleared", "reset", "counters", "pb", "sec_off", "fdir", "filters"}
         \cup Filtered

StageOf(n, d) == IF n.pc \in Later \/ d < n.d THEN "done"
                 ELSE IF d = n.d /\ n.pc \in Known THEN n.pc ELSE "wait_mem"

Own == [t \in Threads |-> t]
Filters == {<<t, 2 * t>> : t \in Threads}

Set(s, q, c, e, rx, tx) ==
    /\ s \in Known => e.flow = Own
    /\ s \in Filtered => c.fdir = Filters
    /\ s = "tx_ring" => 0 .. q - 1 \subseteq c.txq
    /\ s \in Transmits => Queues \subseteq c.txq
    /\ s = "rx_ring" => 0 .. q - 1 \subseteq c.ring
    /\ s \in Rings => Queues \subseteq c.ring
    /\ s \in Mapped => c.ivar = configure_msix
    /\ s \in Vectors => e.vector = Own
    /\ \A t \in Threads :
        /\ tx[t] # "none" => s \in {"rxthreads", "done"} \/ (s = "txthreads" /\ t < q)
        /\ rx[t] # "none" => s = "done" \/ (s = "rxthreads" /\ t < q)
    /\ c.rdt \subseteq c.ring

Rx_left(s, q, t) ==
    IF s \in Rings THEN 0
    ELSE IF s # "rx_ring" \/ q <= 2 * t THEN 2 * Rx_blocks
    ELSE IF q = 2 * t + 1 THEN Rx_blocks ELSE 0

Stock(s, q, tx, desc, packet, frames) ==
    /\ desc = IF s \in {"rx_ring"} \cup Rings THEN 0 ELSE IF s \in {"tx_ring", "rx"} THEN 1 ELSE 2
    /\ Enough(frames) => \A t \in Threads :
        packet[t] >= Rx_left(s, q, t) + (IF tx[t] = "send" THEN 0 ELSE Tx_blocks)

CardType == [rxen : BOOLEAN, eims : SUBSET Int, eicr : SUBSET Int, lpbk : BOOLEAN, counted : BOOLEAN,
             secdis : BOOLEAN, fdir : SUBSET (Int \X Int), ivar : [Queues -> Int], pb : Int,
             txq : SUBSET Int, rxq : SUBSET Int, ring : SUBSET Int, rdt : SUBSET Queues, pkt : SUBSET Int]
DevType == [flow : [Threads -> Int], vector : [Threads -> Int], ready : SUBSET Threads,
            all_setup_done : BOOLEAN, rx_start_ok : BOOLEAN]
MemType == [frames : Nat, state : {"init", "create", "MEM_READY_STATE"}, next : Nat,
            keys : [Nics \X Allocators -> Nat], desc : [Nics -> Nat], packet : [Nics -> [Threads -> Nat]]]
PlaceType == [pc : {"start", "ctor", "wait_mem"} \cup Known \cup Later, d : Nics, q : Nat]

NicTypeOK ==
    /\ card \in [Nics -> CardType] /\ dev \in [Nics -> DevType] /\ mem \in MemType
    /\ nic \in PlaceType
    /\ rxt \in [Nics -> [Threads -> {"none", "start", "ready", "active", "wait", "handle"}]]
    /\ txt \in [Nics -> [Threads -> {"none", "start", "send"}]]

MemInv ==
    /\ \A x \in Nics \X Allocators : mem.keys[x] \in {0, key(x[1], x[2])}
    /\ mem.state # "MEM_READY_STATE" =>
        /\ nic.pc \in {"start", "ctor", "wait_mem"} /\ nic.d = 0
        /\ \A d \in Nics :
            /\ mem.next > ALLOCATORS * d + DESC => mem.desc[d] = 2
            /\ mem.next > ALLOCATORS * d + PACKET =>
                  \A t \in Threads : mem.packet[d][t] = mem.frames
    /\ main # "sleep" => nic.pc = "start" /\ mem.state = "init"

PlaceInv ==
    /\ nic.pc \in {"start", "ctor"} => nic.d = 0
    /\ nic.pc \in {"tx_ring", "rx_ring"} => nic.q \in Queues
    /\ nic.pc \in {"txthreads", "rxthreads"} => nic.q \in Threads

DevInv(d) ==
    /\ Set(StageOf(nic, d), nic.q, card[d], dev[d], rxt[d], txt[d])
    /\ mem.state = "MEM_READY_STATE" =>
          Stock(StageOf(nic, d), nic.q, txt[d], mem.desc[d], mem.packet[d], mem.frames)

NicInv == NicTypeOK /\ MemInv /\ PlaceInv /\ \A d \in Nics : DevInv(d)

\* What a process that has not given up owes: to bring every card up, and to handle every
\* packet, also one that came between activate and wait_for_activate.
NicStarting == main = "sleep" /\ NicAlive /\ \E d \in Nics : nic_state[d] # "NIC_READY_STATE"
NicOwes == NicAlive /\ 0 \in card[0].pkt
=============================================================================
