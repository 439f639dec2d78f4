------------------------------- MODULE Genet --------------------------------
(***************************************************************************)
(* The Ethernet driver of bsp/rpi4/genet.c under the lwIP glue of          *)
(* flint_netif.c: the two descriptor rings shared with the DMA engine, the *)
(* interrupt that stamps received frames, and the network task that drains *)
(* one ring and fills the other.                                           *)
(*                                                                         *)
(* A frame is the number of its arrival (or of its sending), so that a     *)
(* slot's contents and a stamp tell which frame they belong to. The ring   *)
(* registers hold INDEX low bits of those counts, as the hardware's 16 do. *)
(***************************************************************************)
EXTENDS Integers

CONSTANTS
  RX_DESCS, TX_DESCS,   \* slots of the rings
  TX_BUFS,              \* s_tx_buf: fewer than TX_DESCS
  INDEX,                \* the registers count modulo INDEX
  PORT_MAX_IRQS,        \* slots of port.c's table of handlers
  MaxFrames, MaxSends   \* bounds on what arrives and what is sent

ASSUME GenetAssumption ==
  /\ RX_DESCS \in Nat \ {0} /\ TX_DESCS \in Nat \ {0}
  /\ TX_BUFS \in 1..TX_DESCS /\ INDEX \in Nat \ {0}
  /\ INDEX % RX_DESCS = 0 /\ INDEX % TX_DESCS = 0
  /\ RX_DESCS < INDEX /\ TX_DESCS < INDEX /\ PORT_MAX_IRQS \in Nat

VARIABLES
  prod, cons_reg,               \* RDMA_PROD_INDEX, RDMA_CONS_INDEX
  s_rx_buf, bad,                \* per slot: the frame, and whether flagged
  done, isr, s_irq_ok,          \* RXDMA_MBDONE latched, the handler running
  s_rx_ts, s_rx_ts_seen, s_rx_cons,
  pc, slot, got,                \* genet_recv's progress, the frame given lwIP
  s_tx_buf, tx_desc, s_tx_prod, tx_reg, tx_cons

rxhw == <<prod, cons_reg, s_rx_buf, bad, done>>
rxsw == <<s_rx_ts, s_rx_ts_seen, s_rx_cons, slot, got>>
tx == <<s_tx_buf, tx_desc, s_tx_prod, tx_reg, tx_cons>>
vars == <<rxhw, isr, s_irq_ok, rxsw, pc, tx>>

None == -1
NoSlot == [frame |-> None, stamp |-> None, bad |-> FALSE]
Slots == 0..(RX_DESCS - 1)

-----------------------------------------------------------------------------
(* The receive ring.                                                       *)

\* The DMA engine fills the next slot unless the ring, as the consumer index
\* tells it, is full; then the frame is lost in the MAC.
DmaReceives ==
  /\ prod < MaxFrames /\ prod - cons_reg < RX_DESCS
  /\ s_rx_buf' = [s_rx_buf EXCEPT ![prod % RX_DESCS] = prod]
  /\ \E b \in BOOLEAN : bad' = [bad EXCEPT ![prod % RX_DESCS] = b]
  /\ prod' = prod + 1 /\ done' = TRUE
  /\ UNCHANGED <<cons_reg, isr, s_irq_ok, rxsw, pc, tx>>

\* The loop of rx_stamp_new: it stops at the producer index, or after a lap.
NewlyDone ==
  LET n == (prod - s_rx_ts_seen) % INDEX IN IF n < RX_DESCS THEN n ELSE RX_DESCS

Stamped ==
  [i \in Slots |->
     LET mine == {k \in s_rx_ts_seen..(s_rx_ts_seen + NewlyDone - 1) :
                    k % RX_DESCS = i}
     IN  IF mine = {} THEN s_rx_ts[i] ELSE CHOOSE k \in mine : TRUE]

rx_stamp_new == s_rx_ts' = Stamped /\ s_rx_ts_seen' = s_rx_ts_seen + NewlyDone

\* The interrupt preempts the task; a frame may be done while it runs.
IsrClears ==
  /\ isr = "idle" /\ done /\ s_irq_ok
  /\ isr' = "stamps" /\ done' = FALSE
  /\ UNCHANGED <<prod, cons_reg, s_rx_buf, bad, s_irq_ok, rxsw, pc, tx>>

IsrStamps ==
  /\ isr = "stamps" /\ isr' = "idle"
  /\ rx_stamp_new
  /\ UNCHANGED <<rxhw, s_irq_ok, s_rx_cons, slot, got, pc, tx>>

\* Mutant: only one of the counts is masked.
EmptyUnmasked == s_rx_cons = prod % INDEX
\* Mutant: slots are compared, not counts.
EmptyByRing == s_rx_cons % RX_DESCS = prod % RX_DESCS

Empty == s_rx_cons % INDEX = prod % INDEX

\* flint_netif_poll drains: it calls genet_recv until that returns false.
RecvBegins ==
  /\ isr = "idle" /\ pc = "idle"
  /\ ~ Empty
  /\ slot' = [NoSlot EXCEPT !.bad = bad[s_rx_cons % RX_DESCS]]
  /\ pc' = "stamp"
  /\ UNCHANGED <<rxhw, isr, s_irq_ok, s_rx_ts, s_rx_ts_seen, s_rx_cons, got, tx>>

\* Mutant: the interrupt is taken to have stamped the frame.
RecvTrustsIsr ==
  /\ isr = "idle" /\ pc = "stamp" /\ pc' = "release"
  /\ slot' = [slot EXCEPT !.stamp = s_rx_ts[s_rx_cons % RX_DESCS]]
  /\ UNCHANGED <<rxhw, isr, s_irq_ok, s_rx_ts, s_rx_ts_seen, s_rx_cons, got, tx>>

\* With IRQs masked: no interrupt between the test, the stamp and the read.
RecvStamps ==
  /\ isr = "idle" /\ pc = "stamp" /\ pc' = "release"
  /\ IF s_rx_ts_seen = s_rx_cons THEN rx_stamp_new
                                 ELSE UNCHANGED <<s_rx_ts, s_rx_ts_seen>>
  /\ slot' = [slot EXCEPT !.stamp = s_rx_ts'[s_rx_cons % RX_DESCS]]
  /\ UNCHANGED <<rxhw, isr, s_irq_ok, s_rx_cons, got, tx>>

RecvReleases ==
  /\ isr = "idle" /\ pc = "release"
  /\ slot' = [slot EXCEPT !.frame = s_rx_cons]
  /\ s_rx_cons' = s_rx_cons + 1 /\ cons_reg' = s_rx_cons + 1
  /\ pc' = IF slot.bad THEN "idle" ELSE "copy"
  /\ UNCHANGED <<prod, s_rx_buf, bad, done, isr, s_irq_ok, s_rx_ts,
                 s_rx_ts_seen, got, tx>>

\* The copy, then a pbuf for it if there is one; "frame" is what was copied,
\* "index" the frame whose descriptor gave the length and the stamp.
RecvCopies ==
  /\ isr = "idle" /\ pc = "copy" /\ pc' = "idle"
  /\ \/ got' = [frame |-> s_rx_buf[slot.frame % RX_DESCS],
                index |-> slot.frame, stamp |-> slot.stamp]
     \/ UNCHANGED got
  /\ slot' = NoSlot
  /\ UNCHANGED <<rxhw, isr, s_irq_ok, s_rx_ts, s_rx_ts_seen, s_rx_cons, tx>>

-----------------------------------------------------------------------------
(* The transmit ring.                                                      *)

\* Mutant: one buffer of the pool is never used.
BufferOfShort(k) == k % (TX_BUFS - 1)

BufferOf(k) == k % TX_BUFS

\* genet_send up to the doorbell, which is then a step of its own.
SendFills ==
  /\ isr = "idle" /\ pc = "idle" /\ s_tx_prod < MaxSends
  /\ s_tx_buf' = [s_tx_buf EXCEPT ![BufferOf(s_tx_prod)] = s_tx_prod]
  /\ tx_desc' = [tx_desc EXCEPT ![s_tx_prod % TX_DESCS] = BufferOf(s_tx_prod)]
  /\ pc' = "kick"
  /\ UNCHANGED <<rxhw, isr, s_irq_ok, rxsw, s_tx_prod, tx_reg, tx_cons>>

SendKicks ==
  /\ isr = "idle" /\ pc = "kick" /\ pc' = "idle"
  /\ s_tx_prod' = s_tx_prod + 1
  /\ tx_reg' = s_tx_prod' % INDEX
  /\ UNCHANGED <<rxhw, isr, s_irq_ok, rxsw, s_tx_buf, tx_desc, tx_cons>>

\* lwIP's frame, gathered from its pbufs, is queued and the DMA told.
flint_low_level_output == SendFills \/ SendKicks

DmaSends ==
  /\ tx_cons % INDEX # tx_reg
  /\ tx_cons' = tx_cons + 1
  /\ UNCHANGED <<rxhw, isr, s_irq_ok, rxsw, pc, s_tx_buf, tx_desc, s_tx_prod,
                 tx_reg>>

-----------------------------------------------------------------------------
rx_ring_init ==
  /\ prod = 0 /\ cons_reg = 0 /\ s_rx_cons = 0
  /\ s_rx_buf = [i \in Slots |-> None] /\ bad = [i \in Slots |-> FALSE]

tx_ring_init ==
  /\ s_tx_prod = 0 /\ tx_reg = 0 /\ tx_cons = 0
  /\ s_tx_buf = [b \in 0..(TX_BUFS - 1) |-> None]
  /\ tx_desc = [i \in 0..(TX_DESCS - 1) |-> 0]

\* The handler gets a slot of the table, and the GIC is told of it, if one is
\* left.
xPortInstallIrq(uxIrqSlots) == uxIrqSlots < PORT_MAX_IRQS

\* genet_init. No frame arrives in it: it has just restarted the negotiation
\* of the link.
Init ==
  /\ rx_ring_init /\ tx_ring_init
  /\ done = FALSE /\ s_rx_ts_seen = prod
  /\ \E used \in 0..PORT_MAX_IRQS : s_irq_ok = xPortInstallIrq(used)
  /\ s_rx_ts = [i \in Slots |-> None] /\ isr = "idle"
  /\ pc = "idle" /\ slot = NoSlot
  /\ got = [frame |-> None, index |-> None, stamp |-> None]

Recv == RecvBegins \/ RecvStamps \/ RecvReleases \/ RecvCopies
Isr == IsrClears \/ IsrStamps
Next == DmaReceives \/ Isr \/ Recv \/ flint_low_level_output \/ DmaSends

Spec == Init /\ [][Next]_vars /\ WF_vars(Recv) /\ WF_vars(Isr)
             /\ WF_vars(SendKicks)

-----------------------------------------------------------------------------
(* The driver's counts never overtake the hardware's, across the wrap of   *)
(* the index registers: no descriptor is read before the DMA filled it, no *)
(* frame is stamped before it came, none is read unstamped, and the stamps *)
(* are at most a lap ahead of the reader whose slots they go in.           *)
IndicesOrdered ==
  /\ s_rx_cons <= s_rx_ts_seen /\ s_rx_ts_seen <= prod
  /\ prod - s_rx_cons <= RX_DESCS
  /\ pc = "release" => s_rx_cons < s_rx_ts_seen

(* The stamp given to lwIP with a frame, which PTP takes for t2, was taken *)
(* for that frame: not for the one a lap before in the same slot, nor for  *)
(* a neighbour, whether the interrupt, a late interrupt or the poll        *)
(* stamped it.                                                             *)
StampIsOwn == got.stamp = got.index

(* Of the frames genet_send has queued and the DMA has not yet sent, the   *)
(* last TX_BUFS are still as they were queued (the pool of buffers is      *)
(* smaller than the ring, so no more than those are).                      *)
LatestSendsIntact ==
  LET last == IF pc = "kick" THEN s_tx_prod ELSE s_tx_prod - 1
  IN  \A k \in tx_cons..last :
        k > last - TX_BUFS => s_tx_buf[tx_desc[k % TX_DESCS]] = k

(* The ring is drained again and again: a full ring is not taken for an    *)
(* empty one, and no interrupt or stamp leaves the reader behind.          *)
Drains == []<>(s_rx_cons = prod)

(* "copies up to *len bytes into buf" (genet.h): what genet_recv copies is *)
(* the frame whose descriptor it read.                                     *)
CopiesItsFrame == got.frame = got.index
=============================================================================
