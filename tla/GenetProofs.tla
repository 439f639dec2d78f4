---------------------------- MODULE GenetProofs -----------------------------
(***************************************************************************)
(* Proofs about Genet for rings of every size: the receive indices stay    *)
(* ordered, each frame is given its own stamp, and the latest frames sent  *)
(* are intact.                                                             *)
(***************************************************************************)
EXTENDS Genet, Arithmetic

-----------------------------------------------------------------------------
(* The receive ring.                                                       *)

RxTypeOK ==
  /\ prod \in Nat /\ cons_reg \in Nat /\ s_rx_cons \in Nat /\ s_rx_ts_seen \in Nat
  /\ s_rx_ts \in [Slots -> Int]
  /\ isr \in {"idle", "stamps"} /\ pc \in {"idle", "stamp", "release", "copy", "kick"}
  /\ slot \in [frame : Int, stamp : Int, bad : BOOLEAN]
  /\ bad \in [Slots -> BOOLEAN]

\* Each frame between the consumer and the stamper has its stamp in its slot.
StampsInPlace ==
  \A k \in s_rx_cons..(s_rx_ts_seen - 1) : s_rx_ts[k % RX_DESCS] = k

\* What genet_recv knows at each of its steps.
RecvInv ==
  /\ pc = "stamp" => s_rx_cons < prod
  /\ pc = "release" => slot.stamp = s_rx_cons
  /\ pc = "copy" => slot.stamp = slot.frame

RxInv ==
  /\ RxTypeOK /\ IndicesOrdered /\ cons_reg = s_rx_cons
  /\ StampsInPlace /\ RecvInv /\ StampIsOwn

\* A count has a slot.
LEMMA SlotOf == \A k \in Int : k % RX_DESCS \in Slots
BY DivMod, GenetAssumption DEF Slots

\* rx_stamp_new reaches the producer index: the registers' low bits tell how
\* many frames are new, because there are never more than the ring holds.
LEMMA NewlyDoneExact ==
  ASSUME RxTypeOK, IndicesOrdered
  PROVE  NewlyDone = prod - s_rx_ts_seen
<1>1. prod - s_rx_ts_seen \in 0..RX_DESCS
  BY GenetAssumption DEF RxTypeOK, IndicesOrdered
<1>2. (prod - s_rx_ts_seen) % INDEX = prod - s_rx_ts_seen
  BY <1>1, SmallMod, GenetAssumption
<1> QED BY <1>1, <1>2, GenetAssumption DEF NewlyDone

\* After it, every frame in the ring has its own stamp.
LEMMA StampedExact ==
  ASSUME RxTypeOK, IndicesOrdered, StampsInPlace
  PROVE  /\ Stamped \in [Slots -> Int]
         /\ \A k \in s_rx_cons..(prod - 1) : Stamped[k % RX_DESCS] = k
<1> DEFINE mine(i) == {k \in s_rx_ts_seen..(s_rx_ts_seen + NewlyDone - 1) :
                         k % RX_DESCS = i}
<1>1. s_rx_ts_seen + NewlyDone - 1 = prod - 1
  BY NewlyDoneExact DEF RxTypeOK
<1>2. Stamped = [i \in Slots |-> IF mine(i) = {} THEN s_rx_ts[i]
                                 ELSE CHOOSE k \in mine(i) : TRUE]
  BY DEF Stamped
<1>3. \A i \in Slots : mine(i) # {} => (CHOOSE k \in mine(i) : TRUE) \in mine(i)
  OBVIOUS
<1>4. \A i : mine(i) \subseteq Int
  BY <1>1 DEF RxTypeOK
<1>5. Stamped \in [Slots -> Int]
  BY <1>2, <1>3, <1>4 DEF RxTypeOK
<1>6. ASSUME NEW k \in s_rx_cons..(prod - 1), NEW l \in mine(k % RX_DESCS)
      PROVE  l = k
  <2>1. k \in Int /\ l \in Int /\ l - k < RX_DESCS /\ k - l < RX_DESCS
    BY <1>1, <1>6, GenetAssumption DEF RxTypeOK, IndicesOrdered
  <2>2. l % RX_DESCS = k % RX_DESCS
    BY <1>6
  <2> QED BY <2>1, <2>2, SameSlot, GenetAssumption
<1>7. ASSUME NEW k \in s_rx_cons..(prod - 1)
      PROVE  Stamped[k % RX_DESCS] = k
  <2> DEFINE i == k % RX_DESCS
  <2>1. i \in Slots /\ k \in Int
    BY <1>7, SlotOf DEF RxTypeOK
  <2>2. CASE mine(i) = {}
    <3>1. k \in s_rx_cons..(s_rx_ts_seen - 1)
      BY <1>1, <1>7, <2>2 DEF RxTypeOK, IndicesOrdered
    <3> QED BY <1>2, <2>1, <2>2, <3>1 DEF StampsInPlace
  <2>3. CASE mine(i) # {}
    <3>1. (CHOOSE l \in mine(i) : TRUE) = k
      BY <1>3, <1>6, <2>1, <2>3
    <3> HIDE DEF mine
    <3> QED BY <1>2, <2>1, <2>3, <3>1
  <2> QED BY <2>2, <2>3
<1> QED BY <1>5, <1>7

\* The rings as genet_init leaves them.
LEMMA RxStart == Init => RxInv
<1> SUFFICES ASSUME Init PROVE RxInv
  OBVIOUS
<1>1. RxTypeOK
  BY DEF Init, rx_ring_init, RxTypeOK, NoSlot, None
<1>2. IndicesOrdered /\ cons_reg = s_rx_cons
  BY GenetAssumption DEF Init, rx_ring_init, IndicesOrdered
<1>3. StampsInPlace
  BY DEF Init, rx_ring_init, StampsInPlace
<1>4. RecvInv /\ StampIsOwn
  BY DEF Init, RecvInv, StampIsOwn
<1> QED BY <1>1, <1>2, <1>3, <1>4 DEF RxInv

\* Every step of the device, the interrupt and the task keeps them so.
LEMMA RxStep == RxInv /\ [Next]_vars => RxInv'
<1> SUFFICES ASSUME RxInv, [Next]_vars PROVE RxInv'
  OBVIOUS
<1> USE DEF RxInv
<1>1. ASSUME DmaReceives PROVE RxInv'
  <2>1. bad' \in [Slots -> BOOLEAN]
    BY <1>1 DEF DmaReceives, RxTypeOK
  <2>2. RxTypeOK' /\ cons_reg' = s_rx_cons'
    BY <1>1, <2>1 DEF DmaReceives, RxTypeOK, rxsw
  <2>3. IndicesOrdered'
    BY <1>1, GenetAssumption DEF DmaReceives, RxTypeOK, IndicesOrdered, rxsw
  <2>4. StampsInPlace' /\ RecvInv' /\ StampIsOwn'
    BY <1>1 DEF DmaReceives, RxTypeOK, StampsInPlace, RecvInv, StampIsOwn, rxsw
  <2> QED BY <2>2, <2>3, <2>4
<1>2. ASSUME IsrClears PROVE RxInv'
  BY <1>2 DEF IsrClears, RxTypeOK, IndicesOrdered, StampsInPlace, RecvInv, StampIsOwn, rxsw
<1>3. ASSUME s_rx_ts' = Stamped, s_rx_ts_seen' = s_rx_ts_seen + NewlyDone,
             UNCHANGED <<prod, s_rx_cons>>
      PROVE  s_rx_ts_seen' = prod' /\ s_rx_ts' \in [Slots -> Int] /\ StampsInPlace'
  BY <1>3, NewlyDoneExact, StampedExact DEF StampsInPlace, RxTypeOK
<1>4. ASSUME IsrStamps PROVE RxInv'
  <2>1. s_rx_ts_seen' = prod' /\ s_rx_ts' \in [Slots -> Int] /\ StampsInPlace'
    BY <1>3, <1>4 DEF IsrStamps, rx_stamp_new, rxhw
  <2>2. RxTypeOK' /\ cons_reg' = s_rx_cons'
    BY <1>4, <2>1 DEF IsrStamps, RxTypeOK, rxhw
  <2>3. IndicesOrdered'
    BY <1>4, <2>1 DEF IsrStamps, RxTypeOK, IndicesOrdered, rxhw
  <2>4. RecvInv' /\ StampIsOwn'
    BY <1>4 DEF IsrStamps, RecvInv, StampIsOwn, rxhw
  <2> QED BY <2>1, <2>2, <2>3, <2>4
<1>5. ASSUME RecvBegins PROVE RxInv'
  <2>1. s_rx_cons % RX_DESCS \in Slots
    BY SlotOf DEF RxTypeOK
  <2>2. RxTypeOK' /\ cons_reg' = s_rx_cons' /\ pc' = "stamp"
    BY <1>5, <2>1 DEF RecvBegins, RxTypeOK, rxhw, NoSlot, None
  <2>3. s_rx_cons # prod
    BY <1>5 DEF RecvBegins, Empty
  <2>4. IndicesOrdered' /\ s_rx_cons' < prod'
    BY <1>5, <2>3 DEF RecvBegins, RxTypeOK, IndicesOrdered, rxhw
  <2>5. StampsInPlace' /\ RecvInv' /\ StampIsOwn'
    BY <1>5, <2>2, <2>4 DEF RecvBegins, StampsInPlace, RecvInv, StampIsOwn
  <2> QED BY <2>2, <2>4, <2>5
<1>6. ASSUME RecvStamps PROVE RxInv'
  <2>1. /\ s_rx_cons < prod /\ s_rx_cons' = s_rx_cons /\ prod' = prod
        /\ pc' = "release" /\ cons_reg' = s_rx_cons'
    BY <1>6 DEF RecvStamps, RecvInv, rxhw
  <2>2. /\ s_rx_ts' \in [Slots -> Int] /\ StampsInPlace' /\ s_rx_ts_seen' \in Nat
        /\ s_rx_cons < s_rx_ts_seen' /\ s_rx_ts_seen' <= prod
    <3>1. CASE s_rx_ts_seen = s_rx_cons
      BY <1>3, <1>6, <2>1, <3>1 DEF RecvStamps, rx_stamp_new, RxTypeOK
    <3>2. CASE s_rx_ts_seen # s_rx_cons
      <4>1. UNCHANGED <<s_rx_ts, s_rx_ts_seen>>
        BY <1>6, <3>2 DEF RecvStamps
      <4> QED BY <2>1, <3>2, <4>1 DEF RxTypeOK, IndicesOrdered, StampsInPlace
    <3> QED BY <3>1, <3>2
  <2>3. s_rx_ts'[s_rx_cons % RX_DESCS] = s_rx_cons
    <3>1. s_rx_cons \in Nat /\ s_rx_ts_seen' \in Nat /\ s_rx_cons < s_rx_ts_seen'
      BY <2>2 DEF RxTypeOK
    <3>2. \A a, b \in Nat : a < b => a \in a..(b - 1)
      OBVIOUS
    <3>3. s_rx_cons' \in s_rx_cons'..(s_rx_ts_seen' - 1)
      BY <2>1, <3>1, <3>2, Zenon
    <3> QED BY <2>1, <2>2, <3>3 DEF StampsInPlace
  <2>4. RxTypeOK' /\ slot'.stamp = s_rx_cons'
    BY <1>6, <2>1, <2>2, <2>3 DEF RecvStamps, RxTypeOK, rxhw
  <2>5. IndicesOrdered'
    BY <2>1, <2>2 DEF RxTypeOK, IndicesOrdered
  <2>6. RecvInv' /\ StampIsOwn'
    BY <1>6, <2>1, <2>4 DEF RecvStamps, RecvInv, StampIsOwn
  <2> QED BY <2>1, <2>2, <2>4, <2>5, <2>6
<1>7. ASSUME RecvReleases PROVE RxInv'
  <2>1. RxTypeOK' /\ cons_reg' = s_rx_cons'
    BY <1>7 DEF RecvReleases, RxTypeOK
  <2>2. IndicesOrdered'
    BY <1>7, GenetAssumption DEF RecvReleases, RxTypeOK, IndicesOrdered
  <2>3. StampsInPlace'
    BY <1>7 DEF RecvReleases, RxTypeOK, StampsInPlace
  <2>4. RecvInv' /\ StampIsOwn'
    BY <1>7 DEF RecvReleases, RxTypeOK, RecvInv, StampIsOwn
  <2> QED BY <2>1, <2>2, <2>3, <2>4
<1>8. ASSUME RecvCopies PROVE RxInv'
  <2>1. RxTypeOK' /\ cons_reg' = s_rx_cons'
    BY <1>8 DEF RecvCopies, RxTypeOK, rxhw, NoSlot, None
  <2>2. IndicesOrdered' /\ StampsInPlace' /\ RecvInv'
    BY <1>8 DEF RecvCopies, IndicesOrdered, StampsInPlace, RecvInv, rxhw
  <2>3. StampIsOwn'
    BY <1>8 DEF RecvCopies, RecvInv, StampIsOwn
  <2> QED BY <2>1, <2>2, <2>3
<1>9. ASSUME flint_low_level_output PROVE RxInv'
  BY <1>9 DEF flint_low_level_output, SendFills, SendKicks, RxTypeOK, IndicesOrdered,
              StampsInPlace, RecvInv, StampIsOwn, rxhw, rxsw
<1>10. ASSUME DmaSends PROVE RxInv'
  BY <1>10 DEF DmaSends, RxTypeOK, IndicesOrdered, StampsInPlace, RecvInv, StampIsOwn,
               rxhw, rxsw
<1>11. ASSUME UNCHANGED vars PROVE RxInv'
  BY <1>11 DEF vars, RxTypeOK, IndicesOrdered, StampsInPlace, RecvInv, StampIsOwn, rxhw, rxsw
<1> QED
  BY <1>1, <1>2, <1>4, <1>5, <1>6, <1>7, <1>8, <1>9, <1>10, <1>11 DEF Next, Isr, Recv

\* The driver's counts never overtake the hardware's, across the wrap of the
\* index registers, for every size of the ring.
THEOREM RxOrdered == Spec => []IndicesOrdered
<1>1. RxInv => IndicesOrdered
  BY DEF RxInv
<1> QED BY <1>1, RxStart, RxStep, PTL DEF Spec

\* The stamp genet_recv returns with a frame was taken for that frame, whether
\* the interrupt or the poll saw it first.
THEOREM StampsMatchFrames == Spec => []StampIsOwn
<1>1. RxInv => StampIsOwn
  BY DEF RxInv
<1> QED BY <1>1, RxStart, RxStep, PTL DEF Spec

-----------------------------------------------------------------------------
(* The transmit ring.                                                      *)

\* The last frame written to a buffer.
LastFilled == IF pc = "kick" THEN s_tx_prod ELSE s_tx_prod - 1

TxTypeOK ==
  /\ s_tx_prod \in Nat /\ tx_cons \in Nat
  /\ s_tx_buf \in [0..(TX_BUFS - 1) -> Int]
  /\ tx_desc \in [0..(TX_DESCS - 1) -> 0..(TX_BUFS - 1)]

\* The last TX_BUFS frames are each in their buffer, and their descriptors
\* point to it.
FilledInPlace ==
  \A k \in Nat :
    k <= LastFilled /\ k > LastFilled - TX_BUFS =>
      tx_desc[k % TX_DESCS] = BufferOf(k) /\ s_tx_buf[BufferOf(k)] = k

TxInv == TxTypeOK /\ FilledInPlace

\* genet_send fills the buffer and the descriptor of a frame TX_BUFS before,
\* or of none.
LEMMA FillsNext ==
  ASSUME TxInv, SendFills PROVE TxInv'
<1> DEFINE p == s_tx_prod
<1>1. /\ p \in Nat /\ LastFilled = p - 1 /\ LastFilled' = p
      /\ s_tx_prod' = p /\ tx_cons' \in Nat
  BY DEF SendFills, TxInv, TxTypeOK, LastFilled
<1>2. TX_BUFS \in Nat \ {0} /\ TX_DESCS \in Nat \ {0} /\ TX_BUFS <= TX_DESCS
  BY GenetAssumption
<1>3. \A k \in Nat : k % TX_DESCS \in 0..(TX_DESCS - 1) /\ BufferOf(k) \in 0..(TX_BUFS - 1)
  BY <1>2, DivMod DEF BufferOf
<1>4. /\ s_tx_buf' = [s_tx_buf EXCEPT ![BufferOf(p)] = p]
      /\ tx_desc' = [tx_desc EXCEPT ![p % TX_DESCS] = BufferOf(p)]
  BY DEF SendFills
<1>5. TxTypeOK'
  <2>1. s_tx_buf' \in [0..(TX_BUFS - 1) -> Int]
    <3>1. s_tx_buf \in [0..(TX_BUFS - 1) -> Int] /\ p \in Int
      BY DEF TxInv, TxTypeOK
    <3> QED BY <1>4, <3>1, Zenon
  <2>2. BufferOf(p) \in 0..(TX_BUFS - 1)
    BY <1>1, <1>3
  <2>3. tx_desc' \in [0..(TX_DESCS - 1) -> 0..(TX_BUFS - 1)]
    BY <1>4, <2>2 DEF TxInv, TxTypeOK
  <2> QED BY <1>1, <2>1, <2>3 DEF TxTypeOK
<1>6. ASSUME NEW k \in Nat, k <= p, k > p - TX_BUFS
      PROVE  tx_desc'[k % TX_DESCS] = BufferOf(k) /\ s_tx_buf'[BufferOf(k)] = k
  <2>1. CASE k = p
    BY <1>1, <1>3, <1>4, <2>1 DEF TxInv, TxTypeOK
  <2>2. CASE k # p
    <3>1. k \in Int /\ p \in Int /\ k - p < TX_BUFS /\ p - k < TX_BUFS
      BY <1>1, <1>2, <1>6
    <3>2. BufferOf(k) # BufferOf(p)
      BY <1>2, <2>2, <3>1, SameSlot DEF BufferOf
    <3>3. k - p < TX_DESCS /\ p - k < TX_DESCS
      BY <1>2, <3>1
    <3>4. k % TX_DESCS # p % TX_DESCS
      BY <1>2, <2>2, <3>1, <3>3, SameSlot
    <3>5. k <= LastFilled /\ k > LastFilled - TX_BUFS
      BY <1>1, <1>2, <1>6, <2>2
    <3>6. tx_desc[k % TX_DESCS] = BufferOf(k) /\ s_tx_buf[BufferOf(k)] = k
      BY <1>6, <3>5 DEF TxInv, FilledInPlace
    <3> QED BY <1>3, <1>4, <1>6, <3>2, <3>4, <3>6 DEF TxInv, TxTypeOK
  <2> QED BY <2>1, <2>2
<1>7. FilledInPlace'
  BY <1>1, <1>6 DEF FilledInPlace, BufferOf
<1> QED BY <1>5, <1>7 DEF TxInv

\* Every step keeps the frames in their buffers.
LEMMA TxStep == TxInv /\ [Next]_vars => TxInv'
<1> SUFFICES ASSUME TxInv, [Next]_vars PROVE TxInv'
  OBVIOUS
<1> USE DEF TxInv
<1>1. ASSUME UNCHANGED <<s_tx_buf, tx_desc, LastFilled>>, s_tx_prod' \in Nat, tx_cons' \in Nat
      PROVE  TxInv'
  BY <1>1 DEF TxTypeOK, FilledInPlace, BufferOf
<1>2. ASSUME UNCHANGED tx, pc' = pc \/ (pc # "kick" /\ pc' # "kick")
      PROVE  TxInv'
  <2>1. UNCHANGED <<s_tx_buf, tx_desc, LastFilled>> /\ s_tx_prod' \in Nat /\ tx_cons' \in Nat
    BY <1>2 DEF tx, TxTypeOK, LastFilled
  <2> QED BY <1>1, <2>1
<1>3. CASE DmaReceives \/ Isr \/ UNCHANGED vars
  BY <1>2, <1>3 DEF DmaReceives, Isr, IsrClears, IsrStamps, vars
<1>4. CASE Recv
  BY <1>2, <1>4 DEF Recv, RecvBegins, RecvStamps, RecvReleases, RecvCopies
<1>5. CASE SendFills
  BY <1>5, FillsNext
<1>6. CASE SendKicks
  <2>1. UNCHANGED <<s_tx_buf, tx_desc, LastFilled>> /\ s_tx_prod' \in Nat /\ tx_cons' \in Nat
    BY <1>6 DEF SendKicks, TxTypeOK, LastFilled
  <2> QED BY <1>1, <2>1
<1>7. CASE DmaSends
  <2>1. UNCHANGED <<s_tx_buf, tx_desc, LastFilled>> /\ s_tx_prod' \in Nat /\ tx_cons' \in Nat
    BY <1>7 DEF DmaSends, TxTypeOK, LastFilled
  <2> QED BY <1>1, <2>1
<1> QED BY <1>3, <1>4, <1>5, <1>6, <1>7 DEF Next, flint_low_level_output

\* Of the frames queued and not yet sent the last TX_BUFS are as genet_send
\* was given them, for every size of the ring and of the pool of buffers.
THEOREM SendsIntact == Spec => []LatestSendsIntact
<1>1. Init => TxInv
  <2> SUFFICES ASSUME Init PROVE TxInv
    OBVIOUS
  <2>1. TxTypeOK
    BY GenetAssumption DEF Init, tx_ring_init, TxTypeOK, None
  <2>2. LastFilled = -1
    BY DEF Init, tx_ring_init, LastFilled
  <2>3. FilledInPlace
    BY <2>2 DEF FilledInPlace
  <2> QED BY <2>1, <2>3 DEF TxInv
<1>2. TxInv => LatestSendsIntact
  <2> SUFFICES ASSUME TxInv, NEW k \in tx_cons..LastFilled, k > LastFilled - TX_BUFS
               PROVE  s_tx_buf[tx_desc[k % TX_DESCS]] = k
    BY DEF LatestSendsIntact, LastFilled
  <2>1. k \in Nat /\ k <= LastFilled
    BY DEF TxInv, TxTypeOK, LastFilled
  <2> QED BY <2>1 DEF TxInv, FilledInPlace
<1> QED BY <1>1, <1>2, TxStep, PTL DEF Spec
=============================================================================
