------------------------------ MODULE Drivers -------------------------------
(***************************************************************************)
(* The two network drivers side by side.  They share no memory: a step is  *)
(* one of the e1000 driver and its card, or of the x540 driver with the    *)
(* stack and its card.  Within the x540 driver the two transmit paths and  *)
(* the receive queue meet in the packet buffers.                           *)
(***************************************************************************)
EXTENDS E1000, X540

x540Vars == <<rxVars, txVars>>
driverVars == <<e1000Vars, x540Vars>>

X540Init == RxInit /\ TxInit

X540Next ==
    \/ (RxNext \/ Stack_alloc) /\ UNCHANGED txVars
    \/ Multi \/ Simple_send \/ Nic_transmit

DriversInit == E1000Init /\ X540Init

DriversNext ==
    \/ E1000Next /\ UNCHANGED x540Vars
    \/ X540Next /\ UNCHANGED e1000Vars

DriversSpec == DriversInit /\ [][DriversNext]_driverVars

-----------------------------------------------------------------------------
\* e1000 and x540 receive rings: no packet is overwritten, skipped, handled twice or
\* out of order (both interrupt_handlers), and no x540 buffer is in two places.  The
\* e1000's promise ends when its card fills more than the ring before the handler has
\* taken a packet (e_burst: rx_init leaves RDT out of the head's reach).
PacketsInOrder == E1000Ring /\ RxInOrder /\ RxBuffersApart
=============================================================================
