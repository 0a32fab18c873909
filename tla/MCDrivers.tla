----------------------------- MODULE MCDrivers ------------------------------
(***************************************************************************)
(* The network and disk drivers, and the parasite kernel module that gives *)
(* them their devices.  A behaviour is one of a single component (kind);   *)
(* the others stay in an initial state.  Within parasite, interrupts and   *)
(* DMA memory meet only where a device is attached and detached: a         *)
(* behaviour has, besides attaching, detaching and reloading, the          *)
(* interrupts of two devices with a vector each, those of one device with  *)
(* two vectors, or the DMA memory of one device.                           *)
(***************************************************************************)
EXTENDS Drivers, Parasite, NicStartup

CONSTANTS d1, d2     \* PCI devices

VARIABLES
    kind,
    phase, initialized, cur, free, frame, hdr, pxci, pxsact, pxis, bsy, disk, identity, done

A == INSTANCE AhciPort WITH
        Slot <- {0, 1}, Frame <- {1, 2}, Block <- {26, 37}, Count <- {0, 3, 5},
        Base <- 4, PrdSectors <- 4, Emulated <- FALSE
Q == INSTANCE AhciPort WITH
        Slot <- {0, 1}, Frame <- {1, 2}, Block <- {1}, Count <- {1},
        Base <- 4, PrdSectors <- 4, Emulated <- TRUE
ASSUME DriverConstants == A!AhciAssumption /\ Q!AhciAssumption

\* Both threads run as root; d1 has MSI-X, d2 MSI.
MCUser == [p \in Proc |-> "root"]
MCSupport == [d \in Dev |-> IF d = d1 THEN 2 ELSE 1]

ahci == <<phase, initialized, cur, free, frame, hdr, pxci, pxsact, pxis, bsy, disk, identity, done>>
mcVars == <<kind, ahci, nicVars, driverVars, pkVars>>

Ahci == {"ahci", "ahci emulated"}
Receiving == {"x540 receive"}
Sending == {"x540 multi_send", "x540 send"}
Starting == {"x540 start"}
Kernel == {"parasite devices", "parasite vectors", "parasite dma"}

MCInit ==
    /\ kind \in Ahci \cup {"e1000"} \cup Receiving \cup Sending \cup Starting \cup Kernel
    /\ A!AhciInit /\ (kind \notin Ahci => disk.kind = "none" /\ pxis = {})
    /\ DriversInit /\ PkInit
    /\ NicInit /\ (kind \notin Starting => config[2] = "ok" /\ mem.frames = 3)

\* Only the component of the behaviour's kind moves.
Only(K) ==
    /\ kind \in K /\ UNCHANGED kind
    /\ K # Ahci => UNCHANGED ahci
    /\ K # {"e1000"} => UNCHANGED e1000Vars
    /\ K \notin {Receiving, Sending} => UNCHANGED rxVars
    /\ K # Sending => UNCHANGED txVars
    /\ K # Starting => UNCHANGED nicVars
    /\ K # Kernel => UNCHANGED pkVars

ParasiteNext ==
    /\ PkNext
    /\ kind # "parasite dma" => UNCHANGED dmaVars
    /\ kind # "parasite devices" => grants' \subseteq {d1} \X {"root"}
    /\ kind = "parasite devices" => \A d \in {d1, d2} : entry_num'[d] <= 1
    /\ kind = "parasite dma" => UNCHANGED <<handlers, depth, pending, reader, entry_num, dead>>
                                /\ ~call'["q"].huge /\ (call'["p"].huge => call'["p"].ok)

MCNext ==
    \/ Only(Ahci) /\ ((kind = "ahci" /\ A!AhciNext) \/ (kind = "ahci emulated" /\ Q!AhciNext))
    \/ Only({"e1000"}) /\ E1000Next
    \/ Only(Receiving) /\ RxNext
    \/ Only(Sending) /\ \/ kind = "x540 multi_send" /\ (Multi \/ Nic_transmit)
                        \/ kind = "x540 send" /\ (Simple_send \/ Nic_transmit)
                        \/ Stack_alloc /\ UNCHANGED txVars
    \/ Only(Starting) /\ NicNext
    \/ Only(Kernel) /\ ParasiteNext

\* Threads and interrupt threads run, and the devices answer.
MCFairness ==
    /\ WF_ahci(kind = "ahci" /\ (A!Driver \/ A!Hw))
    /\ WF_ahci(kind = "ahci emulated" /\ (Q!Driver \/ Q!Hw))
    /\ WF_e1000Vars(kind = "e1000" /\ Handler)
    /\ WF_rxVars(kind \in Receiving /\ RxHandler)
    /\ WF_rxVars(kind \in Receiving /\ Nic_interrupt)
    /\ WF_x540Vars(kind = "x540 multi_send" /\ Multi)
    /\ WF_x540Vars(kind = "x540 send" /\ Simple_send)
    /\ WF_x540Vars(kind \in Sending /\ Nic_transmit)
    /\ WF_nicVars(kind \in Starting /\ (Parse_positive \/ Parse_plain \/ Create_threads))
    /\ WF_nicVars(kind \in Starting /\ NicAlive /\ NicProcess)
    /\ (\A t \in {0, 1} : WF_nicVars(kind \in Starting /\ NicAlive /\ RxThread(0, t)))
    /\ PkFairness

MCSpec == MCInit /\ [][MCNext]_mcVars /\ MCFairness

-----------------------------------------------------------------------------
\* What the device has not finished with stays: an AHCI call returns only when the disk has
\* carried out exactly the transfer asked for, if one descriptor can hold it, and no frame the
\* adapter may still read is back in the slab (sync_fpdma); x540 transmit descriptors and buffers
\* are reclaimed only when the card is done with them (xmit_cleanup, tx_free_bufs).
ReclaimsDone ==
    /\ kind \in Ahci => A!AhciReturnsWhenDone /\ A!AhciFramesHeld
    /\ kind \in Sending => TxReclaimsDone

\* Every call ends, every packet is handled, every full transmit ring drains and every card comes
\* up, unless the device has failed.  No interrupt is lost: a packet that came to a card of the
\* x540 is handled, also one that raised its interrupt between activate and the handler's first
\* wait; and a thread that reads a vector's file of the parasite module returns after an interrupt
\* (both threads are alike).
Owing ==
    \/ kind \in Ahci /\ A!AhciBusy
    \/ kind = "e1000" /\ E1000Owes
    \/ kind \in Receiving /\ RxOwes
    \/ kind = "x540 multi_send" /\ TxFull
    \/ kind = "x540 send" /\ SimpleFull
    \/ kind \in Starting /\ (NicStarting \/ NicOwes)
    \/ kind \in Kernel /\ ReaderOwed("p")

Served == IF kind \in Kernel THEN ReaderServed("p") ELSE ~Owing

DriversProgress == Owing ~> Served
=============================================================================
