------------------------------- MODULE E1000 -------------------------------
(***************************************************************************)
(* The descriptor rings of the e1000 network adapter (e1000.c). A transmit *)
(* ring is [desc, tail, head]: desc[i] is the frame handed to the adapter, *)
(* or NoFrame once the adapter has set the descriptor-done bit; tail is    *)
(* the TDT register, head the adapter's own position. A receive ring is    *)
(* [desc, tail, head]: desc[i] is the frame the adapter stored, or NoFrame *)
(* while the bit is clear; tail is rx_tail and the RDT register.           *)
(***************************************************************************)
EXTENDS Naturals

CONSTANTS
    E1000_TX_RING_COUNT, E1000_RX_RING_COUNT,   \* at least 2; 16 and 32 in e1000.c
    NoFrame

TxSlots == 0..E1000_TX_RING_COUNT - 1
RxSlots == 0..E1000_RX_RING_COUNT - 1
AfterTx(i) == (i + 1) % E1000_TX_RING_COUNT
AfterRx(i) == (i + 1) % E1000_RX_RING_COUNT

\* e1000_init: the adapter is found, has a memory window that can be mapped, comes out of
\* its reset within the polls, and there is a page for each ring and each descriptor.
PagesNeeded == 2 + E1000_TX_RING_COUNT + E1000_RX_RING_COUNT
ResetCompletes(adapter) == adapter.resets
E1000Init(adapter) ==
    adapter.found /\ adapter.memory_bar /\ ResetCompletes(adapter) /\ adapter.pages >= PagesNeeded

\* e1000_program_tx and e1000_program_rx, on the rings of e1000_alloc_rings.
TxProgrammed == [desc |-> [i \in TxSlots |-> NoFrame], tail |-> 0, head |-> 0]
RxProgrammed == [desc |-> [i \in RxSlots |-> NoFrame], tail |-> E1000_RX_RING_COUNT - 1, head |-> 0]

\* e1000_transmit looks at one descriptor only, the one at the tail.
CanTransmit(tx) == tx.desc[tx.tail] = NoFrame
Transmit(tx, frame) == [tx EXCEPT !.desc[tx.tail] = frame, !.tail = AfterTx(tx.tail)]

\* e1000_receive: the descriptor after the tail, which it gives back to the adapter.
NextRx(rx) == AfterRx(rx.tail)
CanReceive(rx) == rx.desc[NextRx(rx)] # NoFrame
Received(rx) == rx.desc[NextRx(rx)]

\* Mutant: the tail moves on by two descriptors.
RecycleTwo(rx) == [rx EXCEPT !.desc[NextRx(rx)] = NoFrame, !.tail = AfterRx(NextRx(rx))]

Recycle(rx) == [rx EXCEPT !.desc[NextRx(rx)] = NoFrame, !.tail = NextRx(rx)]

\* External: the adapter sends the frame at its head, and stops where head and tail
\* meet; it stores a frame at its head, and stops where head and tail meet.
Sending(tx) == tx.head # tx.tail
Sent(tx) == [tx EXCEPT !.desc[tx.head] = NoFrame, !.head = AfterTx(tx.head)]
Storing(rx) == rx.head # rx.tail
Stored(rx, frame) == [rx EXCEPT !.desc[rx.head] = frame, !.head = AfterRx(rx.head)]

-----------------------------------------------------------------------------
(* Where the adapter and the driver agree *)

Ahead(i, j, n) == (j + n - i) % n      \* slots from i up to j on a ring of n

\* The descriptors the adapter still has to send lie from its head to the tail.
TxAgrees(tx) == \A i \in TxSlots : tx.desc[i] # NoFrame <=>
                   Ahead(tx.head, i, E1000_TX_RING_COUNT) < Ahead(tx.head, tx.tail, E1000_TX_RING_COUNT)
\* Every descriptor holds a frame, so head and tail meet and the adapter has stopped.
TxStalled(tx) == tx.head = tx.tail /\ \A i \in TxSlots : tx.desc[i] # NoFrame

\* The frames to be read lie from the driver's next slot to the adapter's head.
RxAgrees(rx) == \A i \in RxSlots : rx.desc[i] # NoFrame <=>
                   Ahead(NextRx(rx), i, E1000_RX_RING_COUNT) < Ahead(NextRx(rx), rx.head, E1000_RX_RING_COUNT)
=============================================================================
