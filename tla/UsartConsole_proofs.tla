------------------------ MODULE UsartConsole_proofs ------------------------
(***************************************************************************)
(* UsartConsole for buffers of every size and every input: the ring        *)
(* arithmetic and types first, then each direction.                        *)
(***************************************************************************)
EXTENDS UsartConsole, TLAPS

(* Facts about the ring arithmetic of ByteFifo, for every size that fits the
   uint16_t indices.                                                        *)

(* An index difference is not changed by its conversion to uint16_t. *)
LEMMA U16Id ==
  ASSUME NEW x \in Nat, x < 65536 PROVE U16(x) = x
  BY DEF U16

(* The wrap brings the index one past the end back into the buffer. *)
LEMMA WrapRange ==
  ASSUME NEW n \in Nat, 3 <= n, NEW i \in 0 .. n
  PROVE  /\ Wrap(i, n) \in 0 .. n - 1
         /\ i < n => Wrap(i, n) = i
         /\ i = n => Wrap(i, n) = 0
         /\ Wrap(Wrap(i, n), n) = Wrap(i, n)
  BY DEF Wrap

LEMMA DistRange ==
  ASSUME NEW n \in Nat, 3 <= n, NEW a \in 0 .. n - 1, NEW b \in 0 .. n - 1
  PROVE  /\ Dist(a, b, n) \in 0 .. n - 1
         /\ Dist(a, b, n) = 0 <=> a = b
  BY DEF Dist

LEMMA DistFrom ==
  ASSUME NEW n \in Nat, 3 <= n, NEW a \in 0 .. n - 1
  PROVE  \A s \in 0 .. n - 1 : Dist(a, s, n) \in 0 .. n - 1
  BY DEF Dist

(* Moving the tail on takes one slot from the front of the queue and renumbers
   the others.                                                              *)
LEMMA DistPop ==
  ASSUME NEW n \in Nat, 3 <= n,
         NEW a \in 0 .. n - 1, NEW b \in 0 .. n - 1, a # b
  PROVE  Dist(Wrap(a + 1, n), b, n) = Dist(a, b, n) - 1
  BY DEF Dist, Wrap

(* Moving the head on adds one slot at the back, if one was free beside the
   gap, and the slot added is the one the head was at.                      *)
LEMMA DistPush ==
  ASSUME NEW n \in Nat, 3 <= n,
         NEW a \in 0 .. n - 1, NEW b \in 0 .. n - 1, Dist(a, b, n) < n - 1
  PROVE  Dist(a, Wrap(b + 1, n), n) = Dist(a, b, n) + 1
  BY DEF Dist, Wrap

(* The youngest slot of a queue that is not empty is its length less one from
   the tail.                                                                *)
LEMMA DistLast ==
  ASSUME NEW n \in Nat, 3 <= n,
         NEW a \in 0 .. n - 1, NEW b \in 0 .. n - 1, Dist(a, Wrap(b + 1, n), n) > 0
  PROVE  Dist(a, b, n) = Dist(a, Wrap(b + 1, n), n) - 1
  BY DEF Dist, Wrap

(* Distances from the same slot tell slots apart. *)
LEMMA DistInjective ==
  ASSUME NEW n \in Nat, 3 <= n, NEW a \in 0 .. n - 1,
         NEW b \in 0 .. n - 1, NEW c \in 0 .. n - 1, Dist(a, b, n) = Dist(a, c, n)
  PROVE  b = c
  BY DEF Dist

(* A non-zero bf_space_avail leaves a free slot beside the gap, even when it
   reads a tail that has not been wrapped yet.                              *)
LEMMA SpaceMeansRoom ==
  ASSUME NEW n \in Nat, 3 <= n, n < 65536,
         NEW h \in 0 .. n - 1, NEW t \in 0 .. n, SpaceAvail(h, t, n) # 0
  PROVE  Dist(Wrap(t, n), h, n) < n - 1 /\ h + 1 # t
  <1>1. CASE h = t
    BY <1>1 DEF Dist, Wrap
  <1>2. CASE h > t
    <2>1. SpaceAvail(h, t, n) = n - 1 - (h - t)
      BY <1>2, U16Id, n - 1 - (h - t) \in Nat, n - 1 - (h - t) < 65536
      DEF SpaceAvail, SpaceAhead
    <2>2. QED
      BY <1>2, <2>1 DEF Dist, Wrap
  <1>3. CASE h < t
    <2>1. SpaceAvail(h, t, n) = t - h - 1
      BY <1>3, U16Id, t - h - 1 \in Nat, t - h - 1 < 65536
      DEF SpaceAvail, SpaceBehind
    <2>2. QED
      BY <1>3, <2>1 DEF Dist, Wrap
  <1>4. QED
    BY <1>1, <1>2, <1>3

(* bf_data_avail is zero exactly when the buffer is empty or holds one byte in
   its last slot with the head wrapped to zero.                             *)
LEMMA NoDataMeans ==
  ASSUME NEW n \in Nat, 3 <= n, n < 65536,
         NEW h \in 0 .. n, NEW t \in 0 .. n - 1
  PROVE  DataAvail(h, t, n) = 0 <=> h = t \/ (h = 0 /\ t = n - 1)
  <1>1. CASE h = t
    BY <1>1 DEF DataAvail
  <1>2. CASE h > t
    <2>1. DataAvail(h, t, n) = h - t
      BY <1>2, U16Id, h - t \in Nat, h - t < 65536 DEF DataAvail, DataAhead
    <2>2. QED
      BY <1>2, <2>1
  <1>3. CASE h < t
    <2>1. DataAvail(h, t, n) = n - 1 - (t - h)
      BY <1>3, U16Id, n - 1 - (t - h) \in Nat, n - 1 - (t - h) < 65536
      DEF DataAvail, DataBehind
    <2>2. QED
      BY <1>3, <2>1
  <1>4. QED
    BY <1>1, <1>2, <1>3

(* bf_space_avail is zero only when all slots but the gap are taken. *)
LEMMA NoSpaceMeansFull ==
  ASSUME NEW n \in Nat, 3 <= n, n < 65536,
         NEW h \in 0 .. n - 1, NEW t \in 0 .. n, SpaceAvail(h, t, n) = 0
  PROVE  Dist(Wrap(t, n), h, n) = n - 1
  <1>1. CASE h = t
    BY <1>1 DEF SpaceAvail
  <1>2. CASE h > t
    <2>1. SpaceAvail(h, t, n) = n - 1 - (h - t)
      BY <1>2, U16Id, n - 1 - (h - t) \in Nat, n - 1 - (h - t) < 65536
      DEF SpaceAvail, SpaceAhead
    <2>2. QED
      BY <1>2, <2>1 DEF Dist, Wrap
  <1>3. CASE h < t
    <2>1. SpaceAvail(h, t, n) = t - h - 1
      BY <1>3, U16Id, t - h - 1 \in Nat, t - h - 1 < 65536
      DEF SpaceAvail, SpaceBehind
    <2>2. QED
      BY <1>3, <2>1 DEF Dist, Wrap
  <1>4. QED
    BY <1>1, <1>2, <1>3

-----------------------------------------------------------------------------

LEMMA Bytes == 0 \in Byte /\ NoByte \notin Byte
  BY DEF Byte, NoByte

LEMMA DataBytes ==
  /\ Len(TxData) \in Nat /\ \A i \in 1 .. Len(TxData) : TxData[i] \in Byte
  /\ Len(RxData) \in Nat /\ \A i \in 1 .. Len(RxData) : RxData[i] \in Byte
  BY DataAssumption

-----------------------------------------------------------------------------
(* Types.                                                                  *)

LEMMA TypeInit == Init => TypeOK
  BY SizeAssumption, DataBytes, Bytes DEF Init, TypeOK, PC, Snapshot, Bit, Flags, PutSpace

LEMMA TypePut == TypeOK /\ Put => TypeOK'
  <1> SUFFICES ASSUME TypeOK, Put PROVE TypeOK'
    OBVIOUS
  <1> USE SizeAssumption, DataBytes
      DEF TypeOK, PC, PutSpace, PutStores, GetTests, GetLoads, Bit,
          At, Goto, txFifo, rxFifo, isr, usart, line, history
  <1>1. CASE PutCall       BY <1>1 DEF PutCall
  <1>2. CASE PutEq         BY <1>2 DEF PutEq
  <1>3. CASE PutGt         BY <1>3 DEF PutGt
  <1>4. CASE PutAhead      BY <1>4 DEF PutAhead
  <1>5. CASE PutBehind     BY <1>5 DEF PutBehind
  <1>6. CASE PutIndexFirst BY <1>6 DEF PutIndexFirst
  <1>7. CASE PutByte       BY <1>7 DEF PutByte
  <1>8. CASE PutByteFirst  BY <1>8 DEF PutByteFirst
  <1>9. CASE PutIndex      BY <1>9 DEF PutIndex
  <1>10. CASE PutWrap      BY <1>10 DEF PutWrap, Wrap
  <1>11. CASE PutIrq       BY <1>11 DEF PutIrq
  <1> HIDE DEF TypeOK
  <1>12. QED
    BY <1>1, <1>2, <1>3, <1>4, <1>5, <1>6, <1>7, <1>8, <1>9, <1>10, <1>11 DEF Put

LEMMA TypeGet == TypeOK /\ Get => TypeOK'
  <1> SUFFICES ASSUME TypeOK, Get PROVE TypeOK'
    OBVIOUS
  <1> USE SizeAssumption, DataBytes
      DEF TypeOK, PC, PutSpace, PutStores, GetTests, GetLoads, Bit,
          At, Goto, txFifo, rxFifo, isr, usart, line, history
  <1>1. CASE GetCall       BY <1>1 DEF GetCall
  <1>2. CASE GetEq         BY <1>2 DEF GetEq
  <1>3. CASE GetGt         BY <1>3 DEF GetGt
  <1>4. CASE GetAhead      BY <1>4 DEF GetAhead
  <1>5. CASE GetBehind     BY <1>5 DEF GetBehind
  <1>6. CASE GetIndexFirst BY <1>6 DEF GetIndexFirst
  <1>7. CASE GetByte       BY <1>7 DEF GetByte
  <1>8. CASE GetByteFirst  BY <1>8 DEF GetByteFirst
  <1>9. CASE GetIndex      BY <1>9 DEF GetIndex
  <1>10. CASE GetWrap      BY <1>10 DEF GetWrap, Wrap
  <1> HIDE DEF TypeOK
  <1>11. QED
    BY <1>1, <1>2, <1>3, <1>4, <1>5, <1>6, <1>7, <1>8, <1>9, <1>10 DEF Get

LEMMA TypeIsrEnter == TypeOK /\ IsrEnter => TypeOK'
  BY SizeAssumption, Bytes
  DEF TypeOK, IsrEnter, Snapshot, Bit, txFifo, rxFifo, usart, line, history

LEMMA TypeUsart == TypeOK /\ (TxDone \/ LineByte) => TypeOK'
  <1> SUFFICES ASSUME TypeOK, TxDone \/ LineByte PROVE TypeOK'
    OBVIOUS
  <1>1. CASE TxDone
    BY <1>1, SizeAssumption
    DEF TypeOK, TxDone, Bit, txFifo, rxFifo, isr, line, history
  <1>2. CASE LineByte
    <2>1. RxData[arrived + 1] \in Byte /\ arrived' \in 0 .. Len(RxData)
      BY <1>2, DataBytes DEF LineByte, TypeOK
    <2>2. rdr' \in Byte \cup {NoByte} /\ (rdr # NoByte => rdr' # NoByte)
      BY <1>2, <2>1, Bytes DEF LineByte, TypeOK
    <2>3. errs' \in SUBSET Flags
      BY <1>2, LineAssumption DEF LineByte, TypeOK, Flags
    <2>4. QED
      BY <1>2, <2>1, <2>2, <2>3 DEF TypeOK, LineByte, txFifo, rxFifo, isr, history
  <1>3. QED
    BY <1>1, <1>2

LEMMA TypeIsrTransfer == TypeOK /\ IsrTransfer => TypeOK'
  <1> SUFFICES ASSUME TypeOK, IsrTransfer PROVE TypeOK'
    OBVIOUS
  <1>1. /\ rdr' \in Byte \cup {NoByte}
        /\ rxHead' \in 0 .. RxSize - 1 /\ rxBuf' \in [0 .. RxSize - 1 -> Byte]
        /\ rxAccepted' \in Seq(Byte)
    <2>1. CASE snap.rxne = 1 /\ SpaceAvail(rxHead, rxTail, RxSize) # 0
      <3>1. rdr \in Byte
        BY <2>1 DEF TypeOK, IsrTransfer
      <3>2. Wrap(rxHead + 1, RxSize) \in 0 .. RxSize - 1
        BY SizeAssumption DEF TypeOK, Wrap
      <3>3. /\ rdr' = NoByte
            /\ rxBuf' = [rxBuf EXCEPT ![rxHead] = rdr]
            /\ rxHead' = Wrap(rxHead + 1, RxSize)
            /\ rxAccepted' = Append(rxAccepted, rdr)
        BY <2>1 DEF IsrTransfer, Receive, RxWrite
      <3>4. QED
        BY <3>1, <3>2, <3>3 DEF TypeOK
    <2>2. CASE ~(snap.rxne = 1 /\ SpaceAvail(rxHead, rxTail, RxSize) # 0)
      BY <2>2 DEF TypeOK, IsrTransfer, Receive
    <2>3. QED
      BY <2>1, <2>2
  <1>2. /\ txTail' \in 0 .. TxSize - 1
        /\ txOut' \in Seq(Byte)
        /\ txe' \in Bit /\ txeie' \in Bit /\ txHit' \in Bit
    <2>1. Wrap(txTail + 1, TxSize) \in 0 .. TxSize - 1
      BY SizeAssumption DEF TypeOK, Wrap
    <2>2. CASE TransmitDue /\ DataAvail(txHead, txTail, TxSize) # 0
      <3>1. /\ txOut' = Append(txOut, txBuf[txTail])
            /\ txe' = 0
            /\ txTail' = Wrap(txTail + 1, TxSize)
            /\ txHit' = 1 \/ txHit' = txHit
            /\ txeie' = txeie
        BY <2>2 DEF IsrTransfer, Transmit, TxRead
      <3>2. QED
        BY <2>1, <3>1 DEF TypeOK, Bit
    <2>3. CASE ~(TransmitDue /\ DataAvail(txHead, txTail, TxSize) # 0)
      BY <2>3 DEF TypeOK, IsrTransfer, Transmit, Bit
    <2>4. QED
      BY <2>2, <2>3
  <1>3. isrPc' \in {"idle", "entry"}
    BY DEF IsrTransfer, IsrReturn
  <1>4. UNCHANGED <<txHead, txBuf, rxTail, pc, slot, snap, errs, arrived, stored,
                    rxDelivered>>
    BY DEF IsrTransfer
  <1>5. QED
    BY <1>1, <1>2, <1>3, <1>4 DEF TypeOK

LEMMA TypeIsrError == TypeOK /\ IsrError => TypeOK'
  <1> SUFFICES ASSUME TypeOK, IsrError PROVE TypeOK'
    OBVIOUS
  <1>1. errs' \in SUBSET Flags
    BY DEF TypeOK, IsrError
  <1>2. isrPc' \in {"idle", "entry"}
    BY DEF IsrError, IsrReturn
  <1>3. QED
    BY <1>1, <1>2 DEF TypeOK, IsrError, txFifo, rxFifo, line, history

(* Every step keeps the types; so no access of the two fifos is outside its
   buffer, whatever the handler interrupts.                                 *)
LEMMA TypeNext == TypeOK /\ [Next]_vars => TypeOK'
  <1>1. TypeOK /\ UNCHANGED vars => TypeOK'
    BY DEF TypeOK, vars, txFifo, rxFifo, isr, usart, line, history
  <1>2. QED
    BY <1>1, TypePut, TypeGet, TypeIsrEnter, TypeUsart, TypeIsrTransfer, TypeIsrError
    DEF Next, Main, IsrBody

THEOREM TypeCorrect == Spec => []TypeOK
  BY TypeInit, TypeNext, PTL DEF Spec

-----------------------------------------------------------------------------
(* The receive side: micro_getc hands out the accepted bytes in order,      *)
(* however the handler's bf_write and the accesses of micro_getc            *)
(* interleave, and so implements BytePipe.                                  *)

rxSide == <<rxHead, rxTail, rxBuf, rxAccepted, rxDelivered>>

LEMMA RxInit == Init => RxInv
  <1> SUFFICES ASSUME Init PROVE RxInv
    OBVIOUS
  <1>1. RxQueued = 0
    BY SizeAssumption DEF Init, RxQueued, Dist, Wrap
  <1>2. RxContent
    <2> SUFFICES ASSUME NEW s \in 0 .. RxSize - 1
                 PROVE  ~(Dist(Wrap(rxTail, RxSize), s, RxSize) < RxQueued)
      BY DEF RxContent
    <2>1. Wrap(rxTail, RxSize) = 0
      BY SizeAssumption DEF Init, Wrap
    <2>2. QED
      BY <1>1, <2>1, SizeAssumption DEF Dist
  <1>3. QED
    BY <1>1, <1>2 DEF Init, RxInv, RxTested, RxCount, RxInFlight, RxPrefix

(* The invariant does not change with steps that leave the fifo alone. *)
LEMMA RxFrame ==
  ASSUME RxInv, UNCHANGED rxSide,
         pc \notin {"get_byte", "get_index"}, pc' \notin {"get_byte", "get_index"},
         RxTested'
  PROVE  RxInv'
  <1>1. RxQueued' = RxQueued
    BY DEF rxSide, RxQueued
  <1>2. RxContent'
    BY <1>1 DEF RxInv, RxContent, rxSide
  <1>3. QED
    BY <1>1, <1>2 DEF RxInv, RxCount, RxInFlight, RxPrefix, rxSide

(* What the type invariant says of the fifo. *)
LEMMA RxTypes ==
  ASSUME TypeOK
  PROVE  /\ rxHead \in 0 .. RxSize - 1
         /\ rxTail \in 0 .. RxSize
         /\ rxTail = RxSize => pc \in {"get_byte", "get_wrap"}
         /\ Wrap(rxTail, RxSize) \in 0 .. RxSize - 1
         /\ RxQueued \in 0 .. RxSize - 1
         /\ RxQueued = 0 <=> Wrap(rxTail, RxSize) = rxHead
         /\ rxBuf \in [0 .. RxSize - 1 -> Byte]
         /\ rxAccepted \in Seq(Byte) /\ Len(rxAccepted) \in Nat
         /\ rxDelivered \in Seq(Byte) /\ Len(rxDelivered) \in Nat
  <1>1. /\ rxHead \in 0 .. RxSize - 1 /\ rxTail \in 0 .. RxSize
        /\ rxTail = RxSize => pc \in {"get_byte", "get_wrap"}
        /\ rxBuf \in [0 .. RxSize - 1 -> Byte]
        /\ rxAccepted \in Seq(Byte) /\ rxDelivered \in Seq(Byte)
    BY DEF TypeOK
  <1>2. Wrap(rxTail, RxSize) \in 0 .. RxSize - 1
    BY <1>1, WrapRange, SizeAssumption
  <1>3. RxQueued \in 0 .. RxSize - 1 /\ (RxQueued = 0 <=> Wrap(rxTail, RxSize) = rxHead)
    <2> DEFINE t == Wrap(rxTail, RxSize)
    <2>1. t \in 0 .. RxSize - 1 /\ rxHead \in 0 .. RxSize - 1 /\ RxSize \in Nat /\ 3 <= RxSize
      BY <1>1, <1>2, SizeAssumption
    <2>2. RxQueued = Dist(t, rxHead, RxSize)
      BY DEF RxQueued
    <2> HIDE DEF t
    <2>3. RxQueued \in 0 .. RxSize - 1 /\ (RxQueued = 0 <=> t = rxHead)
      BY <2>1, <2>2, DistRange
    <2>4. QED
      BY <2>3 DEF t
  <1>4. QED
    BY <1>1, <1>2, <1>3

(* The oldest queued byte is the next one to hand out. *)
LEMMA RxOldest ==
  ASSUME TypeOK, RxInv, pc \in {"get_store", "get_index"}
  PROVE  /\ rxTail \in 0 .. RxSize - 1 /\ Wrap(rxTail, RxSize) = rxTail
         /\ RxQueued > 0
         /\ rxBuf[rxTail] = rxAccepted[Len(rxAccepted) - RxQueued + 1]
  <1>1. rxTail \in 0 .. RxSize - 1 /\ Wrap(rxTail, RxSize) = rxTail
    BY RxTypes, WrapRange, SizeAssumption
  <1>2. RxQueued > 0
    BY <1>1, RxTypes DEF RxInv, RxTested
  <1>3. Dist(rxTail, rxTail, RxSize) = 0
    BY <1>1, SizeAssumption DEF Dist
  <1>4. rxBuf[rxTail] = rxAccepted[Len(rxAccepted) - RxQueued + 1 + 0]
    BY <1>1, <1>2, <1>3 DEF RxInv, RxContent
  <1>5. QED
    BY <1>1, <1>2, <1>4, RxTypes

LEMMA RxLengths ==
  ASSUME TypeOK, RxInv
  PROVE  Len(rxDelivered) <= Len(rxAccepted) /\ RxQueued <= Len(rxAccepted)
  <1>1. CASE pc = "get_index"
    <2>1. RxQueued > 0 /\ Len(rxDelivered) > 0
      BY <1>1, RxOldest DEF RxInv, RxInFlight
    <2>2. QED
      BY <1>1, <2>1, RxTypes DEF RxInv, RxCount
  <1>2. CASE pc # "get_index"
    BY <1>2, RxTypes DEF RxInv, RxCount
  <1>3. QED
    BY <1>1, <1>2

(* Moving the tail on takes the oldest byte off the queue. *)
LEMMA RxTailMoves ==
  ASSUME TypeOK, RxInv, pc \in {"get_store", "get_index"},
         rxTail' = rxTail + 1, UNCHANGED <<rxHead, rxBuf, rxAccepted>>
  PROVE  RxQueued' = RxQueued - 1 /\ RxContent'
  <1> USE SizeAssumption
  <1>1. /\ rxTail \in 0 .. RxSize - 1 /\ Wrap(rxTail, RxSize) = rxTail
        /\ RxQueued = Dist(rxTail, rxHead, RxSize)
        /\ RxQueued > 0 /\ rxHead \in 0 .. RxSize - 1
    BY RxOldest, RxTypes DEF RxQueued
  <1>2. rxTail # rxHead
    BY <1>1, DistRange
  <1>3. RxQueued' = RxQueued - 1
    BY <1>1, <1>2, DistPop DEF RxQueued
  <1>4. ASSUME NEW s \in 0 .. RxSize - 1,
               Dist(Wrap(rxTail + 1, RxSize), s, RxSize) < RxQueued - 1
        PROVE  rxBuf[s] = rxAccepted[Len(rxAccepted) - (RxQueued - 1) + 1
                                       + Dist(Wrap(rxTail + 1, RxSize), s, RxSize)]
    <2>1. CASE s = rxTail
      BY <1>1, <1>4, <2>1, RxTypes DEF Dist, Wrap
    <2>2. CASE s # rxTail
      <3>1. Dist(Wrap(rxTail + 1, RxSize), s, RxSize) = Dist(rxTail, s, RxSize) - 1
        BY <1>1, <2>2, DistPop
      <3>2. Dist(rxTail, s, RxSize) \in 0 .. RxSize - 1
        BY <1>1, DistRange
      <3>3. rxBuf[s] = rxAccepted[Len(rxAccepted) - RxQueued + 1 + Dist(rxTail, s, RxSize)]
        BY <1>1, <1>4, <3>1, <3>2, RxTypes DEF RxInv, RxContent
      <3>4. QED
        BY <3>1, <3>2, <3>3, RxTypes
    <2>3. QED
      BY <2>1, <2>2
  <1>5. RxContent'
    BY <1>3, <1>4 DEF RxContent
  <1>6. QED
    BY <1>3, <1>5

LEMMA RxGet == TypeOK /\ RxInv /\ Get => RxInv'
  <1> SUFFICES ASSUME TypeOK, RxInv, Get PROVE RxInv'
    OBVIOUS
  <1>1. CASE GetCall \/ GetEq \/ GetGt \/ GetAhead \/ GetBehind
    <2>1. UNCHANGED rxSide
      BY <1>1
      DEF GetCall, GetEq, GetGt, GetAhead, GetBehind, rxSide, rxFifo, history
    <2>2. pc \notin {"get_byte", "get_index"} /\ pc' \notin {"get_byte", "get_index"}
      BY <1>1 DEF GetCall, GetEq, GetGt, GetAhead, GetBehind, At, Goto
    <2>3. RxTested'
      BY <1>1
      DEF GetCall, GetEq, GetGt, GetAhead, GetBehind, At, Goto, RxInv, RxTested, rxFifo
    <2>4. QED
      BY <2>1, <2>2, <2>3, RxFrame
  <1>2. CASE GetIndexFirst
    <2>1. /\ pc = "get_store" /\ pc' = "get_byte"
          /\ slot' = rxTail /\ rxTail' = rxTail + 1
          /\ UNCHANGED <<rxHead, rxBuf, rxAccepted, rxDelivered>>
      BY <1>2 DEF GetIndexFirst, At, Goto, history
    <2>2. RxQueued' = RxQueued - 1 /\ RxContent'
      BY <2>1, RxTailMoves
    <2>3. RxCount'
      BY <2>1, <2>2, RxTypes DEF RxInv, RxCount
    <2>4. rxBuf[rxTail] = rxAccepted[Len(rxDelivered) + 1]
      BY <2>1, RxOldest, RxTypes DEF RxInv, RxCount
    <2>5. QED
      BY <2>1, <2>2, <2>3, <2>4 DEF RxInv, RxTested, RxInFlight, RxPrefix
  <1>3. CASE GetByte
    <2>1. /\ pc = "get_byte" /\ pc' = "get_wrap"
          /\ rxDelivered' = Append(rxDelivered, rxBuf[slot])
          /\ UNCHANGED <<rxHead, rxTail, rxBuf, rxAccepted>>
      BY <1>3 DEF GetByte, At, Goto, rxFifo
    <2>2. rxBuf[slot] = rxAccepted[Len(rxDelivered) + 1]
      BY <2>1 DEF RxInv, RxInFlight
    <2>3. RxQueued' = RxQueued /\ RxContent'
      BY <2>1 DEF RxInv, RxContent, RxQueued
    <2>4. Len(rxDelivered') = Len(rxDelivered) + 1 /\ RxPrefix'
      BY <2>1, <2>2, RxTypes DEF RxInv, RxPrefix
    <2>5. RxCount'
      BY <2>1, <2>3, <2>4, RxTypes DEF RxInv, RxCount
    <2>6. QED
      BY <2>1, <2>3, <2>4, <2>5 DEF RxInv, RxTested, RxInFlight
  <1>4. CASE GetByteFirst
    <2>1. /\ pc = "get_store" /\ pc' = "get_index"
          /\ rxDelivered' = Append(rxDelivered, rxBuf[rxTail])
          /\ UNCHANGED <<rxHead, rxTail, rxBuf, rxAccepted>>
      BY <1>4 DEF GetByteFirst, At, Goto, rxFifo
    <2>2. rxBuf[rxTail] = rxAccepted[Len(rxDelivered) + 1]
      BY <2>1, RxOldest, RxTypes DEF RxInv, RxCount
    <2>3. RxQueued' = RxQueued /\ RxContent'
      BY <2>1 DEF RxInv, RxContent, RxQueued
    <2>4. Len(rxDelivered') = Len(rxDelivered) + 1 /\ RxPrefix'
      BY <2>1, <2>2, RxTypes DEF RxInv, RxPrefix
    <2>5. RxCount'
      BY <2>1, <2>3, <2>4, RxTypes DEF RxInv, RxCount
    <2>6. QED
      BY <2>1, <2>3, <2>4, <2>5, RxTypes DEF RxInv, RxTested, RxInFlight
  <1>5. CASE GetIndex
    <2>1. /\ pc = "get_index" /\ pc' = "get_wrap"
          /\ rxTail' = rxTail + 1
          /\ UNCHANGED <<rxHead, rxBuf, rxAccepted, rxDelivered>>
      BY <1>5 DEF GetIndex, At, Goto, history
    <2>2. RxQueued' = RxQueued - 1 /\ RxContent'
      BY <2>1, RxTailMoves
    <2>3. RxCount'
      BY <2>1, <2>2, RxTypes DEF RxInv, RxCount
    <2>4. QED
      BY <2>1, <2>2, <2>3 DEF RxInv, RxTested, RxInFlight, RxPrefix
  <1>6. CASE GetWrap
    <2>1. /\ pc = "get_wrap" /\ pc' = "loop"
          /\ rxTail' = Wrap(rxTail, RxSize)
          /\ UNCHANGED <<rxHead, rxBuf, rxAccepted, rxDelivered>>
      BY <1>6 DEF GetWrap, At, Goto, history
    <2>2. Wrap(rxTail', RxSize) = Wrap(rxTail, RxSize)
      BY <2>1, RxTypes, WrapRange, SizeAssumption
    <2>3. RxQueued' = RxQueued /\ RxContent'
      BY <2>1, <2>2 DEF RxInv, RxContent, RxQueued
    <2>4. QED
      BY <2>1, <2>3 DEF RxInv, RxTested, RxCount, RxInFlight, RxPrefix
  <1>7. QED
    BY <1>1, <1>2, <1>3, <1>4, <1>5, <1>6 DEF Get

(* The handler adds a byte behind the queue, never on the byte micro_getc is
   still loading: bf_space_avail keeps the slot before the tail free.       *)
LEMMA RxReceive ==
  ASSUME TypeOK, RxInv, rdr \in Byte, SpaceAvail(rxHead, rxTail, RxSize) # 0,
         RxWrite, UNCHANGED <<rxTail, rxDelivered, pc, slot>>
  PROVE  RxInv'
  <1> USE SizeAssumption
  <1>1. /\ Wrap(rxTail, RxSize) \in 0 .. RxSize - 1
        /\ rxHead \in 0 .. RxSize - 1 /\ rxTail \in 0 .. RxSize
        /\ RxQueued = Dist(Wrap(rxTail, RxSize), rxHead, RxSize)
        /\ RxQueued \in 0 .. RxSize - 1
    BY RxTypes DEF RxQueued
  <1>2. RxQueued < RxSize - 1 /\ rxHead + 1 # rxTail
    BY <1>1, SpaceMeansRoom
  <1>3. RxQueued' = RxQueued + 1
    BY <1>1, <1>2, DistPush DEF RxQueued, RxWrite
  <1>4. /\ Len(rxAccepted') = Len(rxAccepted) + 1
        /\ rxAccepted'[Len(rxAccepted) + 1] = rdr
        /\ \A i \in 1 .. Len(rxAccepted) : rxAccepted'[i] = rxAccepted[i]
        /\ Len(rxAccepted) \in Nat
    BY RxTypes DEF RxWrite
  <1>5. /\ rxBuf'[rxHead] = rdr
        /\ \A s \in 0 .. RxSize - 1 : s # rxHead => rxBuf'[s] = rxBuf[s]
    BY <1>1, RxTypes DEF RxWrite
  <1>6. RxTested'
    <2>1. rxTail # RxSize => rxHead' # rxTail
      BY <1>1, <1>2 DEF Dist, Wrap, RxWrite
    <2>2. QED
      BY <2>1, RxTypes DEF RxTested
  <1>7. RxCount'
    <2>1. RxCount /\ Len(rxDelivered) \in Nat
      BY RxTypes DEF RxInv
    <2>2. QED
      BY <1>1, <1>3, <1>4, <2>1 DEF RxCount
  <1>8. ASSUME NEW s \in 0 .. RxSize - 1,
               Dist(Wrap(rxTail, RxSize), s, RxSize) < RxQueued + 1
        PROVE  rxBuf'[s] = rxAccepted'[Len(rxAccepted) - RxQueued + 1
                                         + Dist(Wrap(rxTail, RxSize), s, RxSize)]
    <2>1. Dist(Wrap(rxTail, RxSize), s, RxSize) \in 0 .. RxSize - 1
      BY <1>1, DistRange
    <2>2. CASE s = rxHead
      BY <1>1, <1>4, <1>5, <2>1, <2>2
    <2>3. CASE s # rxHead
      <3>1. Dist(Wrap(rxTail, RxSize), s, RxSize) < RxQueued
        BY <1>1, <1>8, <2>1, <2>3, DistInjective
      <3>2. rxBuf[s] = rxAccepted[Len(rxAccepted) - RxQueued + 1
                                    + Dist(Wrap(rxTail, RxSize), s, RxSize)]
        BY <3>1 DEF RxInv, RxContent
      <3>3. Len(rxAccepted) - RxQueued + 1 + Dist(Wrap(rxTail, RxSize), s, RxSize)
              \in 1 .. Len(rxAccepted)
        BY <1>1, <2>1, <3>1, RxLengths, RxTypes
      <3>4. QED
        BY <1>4, <1>5, <2>3, <3>2, <3>3
    <2>4. QED
      BY <2>2, <2>3
  <1>9. RxContent'
    <2>1. Len(rxAccepted') - RxQueued' = Len(rxAccepted) - RxQueued
      BY <1>1, <1>3, <1>4
    <2>2. QED
      BY <1>3, <1>8, <2>1 DEF RxContent
  <1>10. RxInFlight'
    <2>1. CASE pc = "get_byte"
      <3>1. rxTail = slot + 1 /\ rxBuf[slot] = rxAccepted[Len(rxDelivered) + 1]
        BY <2>1 DEF RxInv, RxInFlight
      <3>2. slot # rxHead /\ slot \in 0 .. RxSize - 1
        BY <1>1, <1>2, <2>1, <3>1 DEF TypeOK
      <3>3. Len(rxDelivered) + 1 \in 1 .. Len(rxAccepted)
        BY <1>1, <2>1, RxTypes DEF RxInv, RxCount
      <3>4. QED
        BY <1>4, <1>5, <2>1, <3>1, <3>2, <3>3 DEF RxInFlight
    <2>2. CASE pc # "get_byte"
      BY <2>2 DEF RxInv, RxInFlight
    <2>3. QED
      BY <2>1, <2>2
  <1>11. RxPrefix'
    BY <1>4, RxLengths, RxTypes DEF RxInv, RxPrefix
  <1>12. QED
    BY <1>6, <1>7, <1>9, <1>10, <1>11 DEF RxInv
LEMMA RxIsr == TypeOK /\ RxInv /\ IsrTransfer => RxInv'
  <1> SUFFICES ASSUME TypeOK, RxInv, IsrTransfer PROVE RxInv'
    OBVIOUS
  <1>1. UNCHANGED <<rxTail, rxDelivered, pc, slot>>
    BY DEF IsrTransfer
  <1>2. CASE snap.rxne = 1 /\ SpaceAvail(rxHead, rxTail, RxSize) # 0
    <2>1. RxWrite
      BY <1>2 DEF IsrTransfer, Receive
    <2>2. rdr \in Byte
      BY <1>2 DEF TypeOK, IsrTransfer
    <2>3. QED
      BY <1>1, <1>2, <2>1, <2>2, RxReceive
  <1>3. CASE ~(snap.rxne = 1 /\ SpaceAvail(rxHead, rxTail, RxSize) # 0)
    <2>1. UNCHANGED <<rxBuf, rxHead, rxAccepted>>
      BY <1>3 DEF IsrTransfer, Receive
    <2>2. RxQueued' = RxQueued /\ RxContent'
      BY <1>1, <2>1 DEF RxInv, RxContent, RxQueued
    <2>3. QED
      BY <1>1, <2>1, <2>2 DEF RxInv, RxTested, RxCount, RxInFlight, RxPrefix
  <1>4. QED
    BY <1>2, <1>3

(* Everything else leaves the receive fifo alone. *)
Elsewhere == Put \/ IsrEnter \/ IsrError \/ TxDone \/ LineByte \/ UNCHANGED vars

LEMMA RxElsewhere ==
  TypeOK /\ Elsewhere =>
    \/ pc' = pc /\ UNCHANGED <<rxSide, slot>>
    \/ /\ UNCHANGED rxSide
       /\ pc \notin GetTests \cup GetLoads \cup {"get_store"}
       /\ pc' \notin GetTests \cup GetLoads \cup {"get_store"}
  <1> USE DEF rxSide, rxFifo, txFifo, isr, usart, line, history
  <1>1. CASE Put
    <2>1. UNCHANGED rxSide
      BY <1>1
      DEF Put, PutCall, PutEq, PutGt, PutAhead, PutBehind, PutIndexFirst, PutByte,
          PutByteFirst, PutIndex, PutWrap, PutIrq
    <2>2. /\ pc \notin GetTests \cup GetLoads \cup {"get_store"}
          /\ pc' \notin GetTests \cup GetLoads \cup {"get_store"}
      BY <1>1
      DEF Put, PutCall, PutEq, PutGt, PutAhead, PutBehind, PutIndexFirst, PutByte,
          PutByteFirst, PutIndex, PutWrap, PutIrq, At, Goto, GetTests, GetLoads
    <2>3. QED
      BY <1>1, <2>1, <2>2
  <1>2. CASE IsrEnter \/ IsrError \/ TxDone \/ LineByte \/ UNCHANGED vars
    BY <1>2 DEF IsrEnter, IsrError, TxDone, LineByte, vars
  <1>3. QED
    BY <1>1, <1>2 DEF Elsewhere

LEMMA RxNext == TypeOK /\ RxInv /\ [Next]_vars => RxInv'
  <1> SUFFICES ASSUME TypeOK, RxInv, [Next]_vars PROVE RxInv'
    OBVIOUS
  <1>1. CASE Elsewhere
    <2>1. CASE pc' = pc /\ UNCHANGED <<rxSide, slot>>
      <3>1. RxQueued' = RxQueued /\ RxContent'
        BY <2>1 DEF RxInv, RxContent, RxQueued, rxSide
      <3>2. QED
        BY <2>1, <3>1 DEF RxInv, RxTested, RxCount, RxInFlight, RxPrefix, rxSide
    <2>2. CASE ~(pc' = pc /\ UNCHANGED <<rxSide, slot>>)
      <3>1. /\ UNCHANGED rxSide
            /\ pc \notin GetTests \cup GetLoads \cup {"get_store"}
            /\ pc' \notin GetTests \cup GetLoads \cup {"get_store"}
        BY <1>1, <2>2, RxElsewhere
      <3>2. RxTested'
        BY <3>1 DEF RxTested, GetTests, GetLoads
      <3>3. pc \notin {"get_byte", "get_index"} /\ pc' \notin {"get_byte", "get_index"}
        BY <3>1 DEF GetLoads
      <3>4. QED
        BY <3>1, <3>2, <3>3, RxFrame
    <2>3. QED
      BY <2>1, <2>2
  <1>2. QED
    BY <1>1, RxGet, RxIsr DEF Next, Main, IsrBody, Elsewhere

THEOREM RxInvariant == Spec => [](TypeOK /\ RxInv)
  BY TypeInit, TypeNext, RxInit, RxNext, PTL DEF Spec

(* micro_getc returns the bytes the handler accepted, in order, each once. *)
THEOREM RxOrdered == Spec => []RxFifo
  <1>1. TypeOK /\ RxInv => RxFifo
    BY RxLengths, RxTypes DEF RxInv, RxPrefix, RxFifo, IsPrefix
  <1>2. QED
    BY <1>1, RxInvariant, PTL
(* The handler drops a received byte only when every slot but the gap is taken
   by bytes micro_getc has still to return.                                 *)
THEOREM RxDrops == Spec => RxDropsOnlyWhenFull
  <1>1. ASSUME TypeOK, RxInv, Next, rdr # NoByte, rdr' = NoByte, rxAccepted' = rxAccepted
        PROVE  Len(rxAccepted) - Len(rxDelivered) + (IF pc = "get_index" THEN 1 ELSE 0)
                 >= RxSize - 1
    <2>1. IsrTransfer
      <3>1. ASSUME Put \/ Get \/ IsrEnter \/ IsrError \/ TxDone PROVE rdr' = rdr
        <4> USE DEF rxFifo, txFifo, isr, usart, line, history
        <4>1. CASE Put
          BY <4>1
          DEF Put, PutCall, PutEq, PutGt, PutAhead, PutBehind, PutIndexFirst, PutByte,
              PutByteFirst, PutIndex, PutWrap, PutIrq
        <4>2. CASE Get
          BY <4>2
          DEF Get, GetCall, GetEq, GetGt, GetAhead, GetBehind, GetIndexFirst, GetByte,
              GetByteFirst, GetIndex, GetWrap
        <4>3. CASE IsrEnter \/ IsrError \/ TxDone
          BY <4>3 DEF IsrEnter, IsrError, TxDone
        <4>4. QED
          BY <3>1, <4>1, <4>2, <4>3
      <3>2. ~LineByte
        BY <1>1 DEF LineByte
      <3>3. QED
        BY <1>1, <3>1, <3>2 DEF Next, Main, IsrBody
    <2>2. SpaceAvail(rxHead, rxTail, RxSize) = 0
      <3>1. SpaceAvail(rxHead, rxTail, RxSize) # 0 =>
              rxAccepted' = Append(rxAccepted, rdr)
        BY <1>1, <2>1 DEF IsrTransfer, Receive, RxWrite
      <3>2. Append(rxAccepted, rdr) # rxAccepted
        <4>1. Len(Append(rxAccepted, rdr)) = Len(rxAccepted) + 1
          BY <1>1, RxTypes
        <4>2. QED
          BY <1>1, <4>1, RxTypes
      <3>3. QED
        BY <1>1, <3>1, <3>2
    <2>3. RxQueued = RxSize - 1
      BY <1>1, <2>2, RxTypes, NoSpaceMeansFull, SizeAssumption DEF RxQueued
    <2>4. QED
      BY <1>1, <2>3, RxTypes, SizeAssumption DEF RxInv, RxCount
  <1>2. ASSUME TypeOK, RxInv, [Next]_vars
        PROVE  [(rdr # NoByte /\ rdr' = NoByte /\ rxAccepted' = rxAccepted) =>
                  Len(rxAccepted) - Len(rxDelivered) + (IF pc = "get_index" THEN 1 ELSE 0)
                    >= RxSize - 1]_vars
    BY <1>1, <1>2
  <1>3. QED
    BY <1>2, RxInvariant, PTL DEF RxDropsOnlyWhenFull, Spec

-----------------------------------------------------------------------------
(* The receive side implements BytePipe.                                   *)

LEMMA PipeDeliver ==
  ASSUME TypeOK, RxInv, GetByte \/ GetByteFirst PROVE RxPipe!Deliver
  <1>1. CASE GetByte
    <2>1. /\ pc = "get_byte" /\ UNCHANGED rxAccepted
          /\ rxDelivered' = Append(rxDelivered, rxBuf[slot])
      BY <1>1 DEF GetByte, At
    <2>2. rxBuf[slot] = rxAccepted[Len(rxDelivered) + 1]
      BY <2>1 DEF RxInv, RxInFlight
    <2>3. Len(rxDelivered) < Len(rxAccepted)
      BY <2>1, RxTypes DEF RxInv, RxCount
    <2>4. QED
      BY <2>1, <2>2, <2>3 DEF RxPipe!Deliver
  <1>2. CASE GetByteFirst
    <2>1. /\ pc = "get_store" /\ UNCHANGED rxAccepted
          /\ rxDelivered' = Append(rxDelivered, rxBuf[rxTail])
      BY <1>2 DEF GetByteFirst, At
    <2>2. RxQueued > 0 /\ rxBuf[rxTail] = rxAccepted[Len(rxAccepted) - RxQueued + 1]
      BY <2>1, RxOldest
    <2>3. Len(rxAccepted) = Len(rxDelivered) + RxQueued
      BY <2>1, RxTypes DEF RxInv, RxCount
    <2>4. rxBuf[rxTail] = rxAccepted[Len(rxDelivered) + 1]
          /\ Len(rxDelivered) < Len(rxAccepted)
      BY <2>2, <2>3, RxTypes
    <2>5. QED
      BY <2>1, <2>4 DEF RxPipe!Deliver
  <1>3. QED
    BY <1>1, <1>2

LEMMA PipeAccept ==
  ASSUME TypeOK, RxInv, IsrTransfer PROVE [RxPipe!Next]_(RxPipe!vars)
  <1>1. CASE snap.rxne = 1 /\ SpaceAvail(rxHead, rxTail, RxSize) # 0
    <2>1. rdr \in Byte
      BY <1>1 DEF TypeOK, IsrTransfer
    <2>2. rxAccepted' = Append(rxAccepted, rdr) /\ UNCHANGED rxDelivered
      BY <1>1 DEF IsrTransfer, Receive, RxWrite
    <2>3. RxQueued < RxSize - 1
      BY <1>1, RxTypes, SpaceMeansRoom, SizeAssumption DEF RxQueued
    <2>4. Len(rxAccepted) - Len(rxDelivered) < RxSize
      BY <2>3, RxTypes, SizeAssumption DEF RxInv, RxCount
    <2>5. RxPipe!Accept(rdr)
      BY <2>2, <2>4 DEF RxPipe!Accept
    <2>6. QED
      BY <2>1, <2>5 DEF RxPipe!Next
  <1>2. CASE ~(snap.rxne = 1 /\ SpaceAvail(rxHead, rxTail, RxSize) # 0)
    BY <1>2 DEF IsrTransfer, Receive, RxPipe!vars
  <1>3. QED
    BY <1>1, <1>2

(* The handler, micro_getc and the buffer between them are a pipe of at most
   RxSize bytes.                                                            *)
THEOREM RxImplementsPipe == Spec => RxPipeSpec
  <1>1. Init => RxPipe!Init
    BY DEF Init, RxPipe!Init
  <1>2. ASSUME TypeOK, RxInv, [Next]_vars PROVE [RxPipe!Next]_(RxPipe!vars)
    <2>1. CASE Elsewhere
      BY <1>2, <2>1, RxElsewhere DEF RxPipe!vars, rxSide
    <2>2. CASE Get
      <3>1. CASE GetByte \/ GetByteFirst
        BY <1>2, <3>1, PipeDeliver DEF RxPipe!Next
      <3>2. CASE ~(GetByte \/ GetByteFirst)
        BY <2>2, <3>2
        DEF Get, GetCall, GetEq, GetGt, GetAhead, GetBehind, GetIndexFirst, GetIndex,
            GetWrap, history, RxPipe!vars
      <3>3. QED
        BY <3>1, <3>2
    <2>3. CASE IsrTransfer
      BY <1>2, <2>3, PipeAccept
    <2>4. QED
      BY <1>2, <2>1, <2>2, <2>3 DEF Next, Main, IsrBody, Elsewhere
  <1>3. QED
    BY <1>1, <1>2, RxInvariant, PTL DEF Spec, RxPipeSpec, RxPipe!Spec

-----------------------------------------------------------------------------
(* The transmit side: the bytes leave in the order they were stored until   *)
(* the handler first falls inside a bf_write, and the transmitter is never  *)
(* left off with bytes waiting, but for the one that bf_data_avail does     *)
(* not count.                                                               *)

txSide == <<txHead, txTail, txBuf, txOut, stored, txHit>>

LEMMA TxInit == Init => TxInv
  <1> SUFFICES ASSUME Init PROVE TxIntact
    BY DEF TxInv
  <1>1. TxQueued = 0
    BY SizeAssumption DEF Init, TxQueued, Dist, Wrap
  <1>2. TxContent
    <2>1. \A s \in 0 .. TxSize - 1 : ~(Dist(txTail, s, TxSize) < TxQueued)
      BY <1>1, SizeAssumption DEF Init, Dist
    <2>2. QED
      BY <2>1 DEF TxContent
  <1>3. QED
    BY <1>1, <1>2 DEF Init, TxIntact, TxTested, TxCount, TxInFlight, TxPrefix

(* What the type invariant says of the fifo. *)
LEMMA TxTypes ==
  ASSUME TypeOK
  PROVE  /\ txHead \in 0 .. TxSize /\ txTail \in 0 .. TxSize - 1
         /\ pc \notin {"put_byte", "put_wrap"} => txHead \in 0 .. TxSize - 1
         /\ Wrap(txHead, TxSize) \in 0 .. TxSize - 1
         /\ txHead # TxSize => Wrap(txHead, TxSize) = txHead
         /\ TxQueued = Dist(txTail, Wrap(txHead, TxSize), TxSize)
         /\ TxQueued \in 0 .. TxSize - 1
         /\ TxQueued = 0 <=> txTail = Wrap(txHead, TxSize)
         /\ txBuf \in [0 .. TxSize - 1 -> Byte]
         /\ txOut \in Seq(Byte) /\ Len(txOut) \in Nat
         /\ stored \in Nat
  <1>1. /\ txHead \in 0 .. TxSize /\ txTail \in 0 .. TxSize - 1
        /\ pc \notin {"put_byte", "put_wrap"} => txHead \in 0 .. TxSize - 1
        /\ txBuf \in [0 .. TxSize - 1 -> Byte]
        /\ txOut \in Seq(Byte) /\ Len(txOut) \in Nat
        /\ stored \in Nat
    BY DataBytes, SizeAssumption DEF TypeOK
  <1>2. /\ Wrap(txHead, TxSize) \in 0 .. TxSize - 1
        /\ txHead # TxSize => Wrap(txHead, TxSize) = txHead
    BY <1>1, WrapRange, SizeAssumption
  <1>3. /\ Dist(txTail, Wrap(txHead, TxSize), TxSize) \in 0 .. TxSize - 1
        /\ Dist(txTail, Wrap(txHead, TxSize), TxSize) = 0 <=> txTail = Wrap(txHead, TxSize)
    <2> DEFINE h == Wrap(txHead, TxSize)
    <2>1. h \in 0 .. TxSize - 1 /\ txTail \in 0 .. TxSize - 1 /\ TxSize \in Nat /\ 3 <= TxSize
      BY <1>1, <1>2, SizeAssumption
    <2> HIDE DEF h
    <2>2. Dist(txTail, h, TxSize) \in 0 .. TxSize - 1 /\ (Dist(txTail, h, TxSize) = 0 <=> txTail = h)
      BY <2>1, DistRange
    <2>3. QED
      BY <2>2 DEF h
  <1>4. QED
    BY <1>1, <1>2, <1>3 DEF TxQueued

LEMMA TxDistances ==
  ASSUME TypeOK
  PROVE  \A s \in 0 .. TxSize - 1 : Dist(txTail, s, TxSize) \in 0 .. TxSize - 1
  <1>1. txTail \in 0 .. TxSize - 1
    BY TxTypes
  <1>2. QED
    BY <1>1, DistFrom, SizeAssumption

(* The invariant does not change with steps that leave the fifo alone. *)
LEMMA TxFrame ==
  ASSUME TxIntact, UNCHANGED txSide,
         pc \notin {"put_byte", "put_index"}, pc' \notin {"put_byte", "put_index"},
         TxTested'
  PROVE  TxIntact'
  <1>1. TxQueued' = TxQueued
    BY DEF txSide, TxQueued
  <1>2. TxContent'
    BY <1>1 DEF TxIntact, TxContent, txSide
  <1>3. QED
    BY <1>1, <1>2 DEF TxIntact, TxCount, TxInFlight, TxPrefix, txSide

(* bf_space_avail is right although the handler moves the tail between its
   reads: it says there is space only when there is.                        *)
LEMMA TxSpace ==
  ASSUME TypeOK, TxIntact,
         \/ pc = "put_eq" /\ txHead = txTail
         \/ pc = "put_ahead" /\ SpaceAhead(txHead, txTail, TxSize) # 0
         \/ pc = "put_behind" /\ SpaceBehind(txHead, txTail) # 0
  PROVE  TxQueued < TxSize - 1
  <1> USE SizeAssumption
  <1>1. /\ txHead \in 0 .. TxSize - 1 /\ txTail \in 0 .. TxSize - 1
        /\ TxQueued = Dist(txTail, txHead, TxSize)
    BY TxTypes
  <1>2. CASE txHead = txTail
    BY <1>1, <1>2 DEF Dist
  <1>3. CASE pc = "put_ahead" /\ SpaceAhead(txHead, txTail, TxSize) # 0
    <2>1. txTail <= txHead
      BY <1>3 DEF TxIntact, TxTested
    <2>2. SpaceAhead(txHead, txTail, TxSize) = TxSize - 1 - (txHead - txTail)
      BY <1>1, <2>1, U16Id, TxSize - 1 - (txHead - txTail) \in Nat,
         TxSize - 1 - (txHead - txTail) < 65536
      DEF SpaceAhead
    <2>3. QED
      BY <1>1, <1>3, <2>1, <2>2 DEF Dist
  <1>4. CASE /\ pc = "put_behind" /\ SpaceBehind(txHead, txTail) # 0
             /\ txHead # txTail
    <2>1. ~(txHead = TxSize - 1 /\ txTail = 0)
      BY <1>4 DEF TxIntact, TxTested
    <2>2. CASE txHead < txTail
      <3>1. SpaceBehind(txHead, txTail) = txTail - txHead - 1
        BY <1>1, <2>2, U16Id, txTail - txHead - 1 \in Nat, txTail - txHead - 1 < 65536
        DEF SpaceBehind
      <3>2. QED
        BY <1>1, <1>4, <2>2, <3>1 DEF Dist
    <2>3. CASE txHead > txTail
      BY <1>1, <2>1, <2>3 DEF Dist
    <2>4. QED
      BY <1>1, <1>4, <2>2, <2>3
  <1>5. QED
    BY <1>2, <1>3, <1>4

LEMMA TxPutTests ==
  ASSUME TypeOK, TxIntact,
         PutCall \/ PutEq \/ PutGt \/ PutAhead \/ PutBehind \/ PutIrq
  PROVE  TxIntact'
  <1>1. UNCHANGED txSide
    BY DEF PutCall, PutEq, PutGt, PutAhead, PutBehind, PutIrq, txSide, txFifo, line, history
  <1>2. pc \notin {"put_byte", "put_index"} /\ pc' \notin {"put_byte", "put_index"}
    BY DEF PutCall, PutEq, PutGt, PutAhead, PutBehind, PutIrq, At, Goto
  <1>3. TxTested'
    <2>1. TxQueued' = TxQueued /\ txHead' = txHead /\ txTail' = txTail
      BY <1>1 DEF txSide, TxQueued
    <2>2. CASE PutCall \/ PutIrq
      BY <2>2 DEF PutCall, PutIrq, Goto, TxTested
    <2>3. CASE PutEq
      <3>1. pc = "put_eq" /\ pc' = IF txHead = txTail THEN "put_store" ELSE "put_gt"
        BY <2>3 DEF PutEq, At, Goto
      <3>2. QED
        BY <2>1, <3>1, TxSpace DEF TxTested
    <2>4. CASE PutGt
      BY <2>1, <2>4, TxTypes, SizeAssumption DEF PutGt, At, Goto, TxTested
    <2>5. CASE PutAhead \/ PutBehind
      <3>1. pc' = "put_eq" \/ (pc' = "put_store" /\ TxQueued < TxSize - 1)
        BY <2>5, TxSpace DEF PutAhead, PutBehind, At, Goto
      <3>2. QED
        BY <2>1, <3>1 DEF TxTested
    <2>6. QED
      BY <2>2, <2>3, <2>4, <2>5
  <1>4. QED
    BY <1>1, <1>2, <1>3, TxFrame
(* The head moves over the slot bf_write fills. *)
LEMMA TxHeadMoves ==
  ASSUME TypeOK, TxIntact, pc \in {"put_store", "put_index"}, txHead' = txHead + 1,
         UNCHANGED txTail
  PROVE  /\ TxQueued' = TxQueued + 1
         /\ txHead \in 0 .. TxSize - 1
         /\ Dist(txTail, txHead, TxSize) = TxQueued
         /\ \A s \in 0 .. TxSize - 1 :
              Dist(txTail, s, TxSize) < TxQueued + 1 =>
                s = txHead \/ Dist(txTail, s, TxSize) < TxQueued
  <1> USE SizeAssumption
  <1>1. /\ txHead \in 0 .. TxSize - 1 /\ txTail \in 0 .. TxSize - 1
        /\ Dist(txTail, txHead, TxSize) = TxQueued
        /\ TxQueued \in 0 .. TxSize - 1
    BY TxTypes
  <1>2. TxQueued < TxSize - 1
    BY DEF TxIntact, TxTested
  <1>3. TxQueued' = TxQueued + 1
    BY <1>1, <1>2, DistPush DEF TxQueued
  <1>4. ASSUME NEW s \in 0 .. TxSize - 1, Dist(txTail, s, TxSize) < TxQueued + 1
        PROVE  s = txHead \/ Dist(txTail, s, TxSize) < TxQueued
    <2>1. Dist(txTail, s, TxSize) \in 0 .. TxSize - 1
      BY <1>1, DistRange
    <2>2. Dist(txTail, s, TxSize) = TxQueued => s = txHead
      BY <1>1, DistInjective
    <2>3. QED
      BY <1>1, <1>4, <2>1, <2>2
  <1>5. QED
    BY <1>1, <1>3, <1>4

LEMMA TxPutStores ==
  ASSUME TypeOK, TxIntact,
         PutIndexFirst \/ PutByte \/ PutByteFirst \/ PutIndex \/ PutWrap
  PROVE  TxIntact'
  <1>1. CASE PutIndexFirst
    <2>1. /\ pc = "put_store" /\ pc' = "put_byte"
          /\ slot' = txHead /\ txHead' = txHead + 1
          /\ UNCHANGED <<txTail, txBuf, txOut, stored>>
      BY <1>1 DEF PutIndexFirst, At, Goto, line, history
    <2>2. /\ TxQueued' = TxQueued + 1 /\ TxQueued \in Nat
          /\ \A s \in 0 .. TxSize - 1 : Dist(txTail, s, TxSize) < TxQueued + 1 =>
               s = txHead \/ Dist(txTail, s, TxSize) < TxQueued
      BY <2>1, TxHeadMoves, TxTypes
    <2>3. TxContent'
      BY <2>1, <2>2 DEF TxIntact, TxContent
    <2>4. TxCount'
      BY <2>1, <2>2, TxTypes DEF TxIntact, TxCount
    <2>5. QED
      BY <2>1, <2>2, <2>3, <2>4 DEF TxIntact, TxTested, TxInFlight, TxPrefix
  <1>2. CASE PutByte
    <2>1. /\ pc = "put_byte" /\ pc' = "put_wrap"
          /\ txBuf' = [txBuf EXCEPT ![slot] = TxData[stored + 1]]
          /\ stored' = stored + 1
          /\ UNCHANGED <<txHead, txTail, txOut, slot>>
      BY <1>2 DEF PutByte, At, Goto, line
    <2>2. TxQueued' = TxQueued /\ TxQueued \in Nat
      BY <2>1, TxTypes DEF TxQueued
    <2>3. /\ txHead = slot + 1 /\ TxQueued > 0 /\ slot \in 0 .. TxSize - 1
          /\ stored = Len(txOut) + TxQueued - 1
      <3>1. txHead = slot + 1 /\ TxQueued > 0
        BY <2>1 DEF TxIntact, TxInFlight
      <3>2. slot \in 0 .. TxSize - 1
        BY <2>1, SizeAssumption DEF TypeOK
      <3>3. stored = Len(txOut) + TxQueued - 1
        BY <2>1, TxTypes DEF TxIntact, TxCount
      <3>4. QED
        BY <3>1, <3>2, <3>3
    <2>4. Dist(txTail, slot, TxSize) = TxQueued - 1
      BY <2>3, TxTypes, DistLast, SizeAssumption DEF TxQueued
    <2>5. txBuf'[slot] = TxData[stored + 1]
          /\ \A s \in 0 .. TxSize - 1 : s # slot => txBuf'[s] = txBuf[s]
      BY <2>1, <2>3, TxTypes
    <2>6. Len(txOut) + 1 + Dist(txTail, slot, TxSize) = stored + 1
      BY <2>3, <2>4, TxTypes
    <2>7. TxContent'
      BY <2>1, <2>2, <2>5, <2>6 DEF TxIntact, TxContent
    <2>8. TxCount'
      BY <2>1, <2>2, <2>3, TxTypes DEF TxCount
    <2>9. QED
      BY <2>1, <2>7, <2>8 DEF TxIntact, TxTested, TxInFlight, TxPrefix
  <1>3. CASE PutByteFirst
    <2>1. /\ pc = "put_store" /\ pc' = "put_index"
          /\ txBuf' = [txBuf EXCEPT ![txHead] = TxData[stored + 1]]
          /\ stored' = stored + 1
          /\ UNCHANGED <<txHead, txTail, txOut>>
      BY <1>3 DEF PutByteFirst, At, Goto, line
    <2>2. TxQueued' = TxQueued /\ TxQueued < TxSize - 1 /\ TxQueued \in Nat
      BY <2>1, TxTypes DEF TxQueued, TxIntact, TxTested
    <2>3. /\ txBuf'[txHead] = TxData[stored + 1] /\ txHead \in 0 .. TxSize - 1
          /\ \A s \in 0 .. TxSize - 1 : s # txHead => txBuf'[s] = txBuf[s]
      BY <2>1, TxTypes
    <2>4. Dist(txTail, txHead, TxSize) = TxQueued
      BY <2>1, <2>3, TxTypes
    <2>5. TxContent'
      BY <2>1, <2>2, <2>3, <2>4 DEF TxIntact, TxContent
    <2>6. TxCount'
      BY <2>1, <2>2, TxTypes DEF TxIntact, TxCount
    <2>7. QED
      BY <2>1, <2>2, <2>3, <2>5, <2>6 DEF TxIntact, TxTested, TxInFlight, TxPrefix
  <1>4. CASE PutIndex
    <2>1. /\ pc = "put_index" /\ pc' = "put_wrap"
          /\ txHead' = txHead + 1
          /\ UNCHANGED <<txTail, txBuf, txOut, stored>>
      BY <1>4 DEF PutIndex, At, Goto, line, history
    <2>2. /\ TxQueued' = TxQueued + 1 /\ TxQueued \in Nat
          /\ Dist(txTail, txHead, TxSize) = TxQueued
          /\ \A s \in 0 .. TxSize - 1 : Dist(txTail, s, TxSize) < TxQueued + 1 =>
               s = txHead \/ Dist(txTail, s, TxSize) < TxQueued
      BY <2>1, TxHeadMoves, TxTypes
    <2>3. txBuf[txHead] = TxData[Len(txOut) + 1 + Dist(txTail, txHead, TxSize)]
      <3>1. stored = Len(txOut) + 1 + Dist(txTail, txHead, TxSize)
        BY <2>1, <2>2, TxTypes DEF TxIntact, TxCount
      <3>2. QED
        BY <2>1, <3>1 DEF TxIntact, TxInFlight
    <2>4. TxContent'
      BY <2>1, <2>2, <2>3 DEF TxIntact, TxContent
    <2>5. TxCount'
      BY <2>1, <2>2, TxTypes DEF TxIntact, TxCount
    <2>6. QED
      BY <2>1, <2>4, <2>5 DEF TxIntact, TxTested, TxInFlight, TxPrefix
  <1>5. CASE PutWrap
    <2>1. /\ pc = "put_wrap" /\ pc' = "put_irq"
          /\ txHead' = Wrap(txHead, TxSize)
          /\ UNCHANGED <<txTail, txBuf, txOut, stored>>
      BY <1>5 DEF PutWrap, At, Goto, line, history
    <2>2. Wrap(txHead', TxSize) = Wrap(txHead, TxSize)
      BY <2>1, TxTypes, WrapRange, SizeAssumption
    <2>3. TxQueued' = TxQueued /\ TxContent'
      BY <2>1, <2>2 DEF TxIntact, TxContent, TxQueued
    <2>4. QED
      BY <2>1, <2>3 DEF TxIntact, TxTested, TxCount, TxInFlight, TxPrefix
  <1>6. QED
    BY <1>1, <1>2, <1>3, <1>4, <1>5
(* The handler takes the oldest byte; if it does not fall inside a bf_write,
   that byte is in its slot.                                                *)
LEMMA TxReadKeeps ==
  ASSUME TypeOK, TxIntact, ~Hit, DataAvail(txHead, txTail, TxSize) # 0,
         TxRead, UNCHANGED <<txHead, txBuf, stored, pc, slot>>
  PROVE  TxIntact'
  <1> USE SizeAssumption
  <1>1. /\ txTail \in 0 .. TxSize - 1 /\ txHead \in 0 .. TxSize
        /\ Wrap(txHead, TxSize) \in 0 .. TxSize - 1
        /\ TxQueued = Dist(txTail, Wrap(txHead, TxSize), TxSize)
        /\ TxQueued \in 0 .. TxSize - 1
        /\ Len(txOut) \in Nat /\ stored \in Nat
    BY TxTypes
  <1>2. txTail # Wrap(txHead, TxSize) /\ txTail # txHead
    BY <1>1, NoDataMeans, TxTypes DEF Hit, Wrap
  <1>3. TxQueued > 0
    BY <1>1, <1>2, TxTypes
  <1>4. TxQueued' = TxQueued - 1
    BY <1>1, <1>2, DistPop DEF TxQueued, TxRead
  <1>5. txBuf[txTail] = TxData[Len(txOut) + 1]
    <2>1. Dist(txTail, txTail, TxSize) = 0
      BY <1>1 DEF Dist
    <2>2. ~(pc = "put_byte" /\ txTail = slot)
      BY DEF Hit
    <2>3. txBuf[txTail] = TxData[Len(txOut) + 1 + 0]
      BY <1>1, <1>3, <2>1, <2>2 DEF TxIntact, TxContent
    <2>4. QED
      BY <1>1, <2>3
  <1>6. /\ Len(txOut') = Len(txOut) + 1
        /\ txOut'[Len(txOut) + 1] = txBuf[txTail]
        /\ \A i \in 1 .. Len(txOut) : txOut'[i] = txOut[i]
    BY TxTypes DEF TxRead
  <1>7. TxPrefix'
    BY <1>1, <1>5, <1>6 DEF TxIntact, TxPrefix
  <1>8. TxTested'
    <2>1. pc = "put_ahead" => txTail' <= txHead
      BY <1>1, <1>2, TxTypes DEF TxIntact, TxTested, TxRead, Wrap
    <2>2. pc = "put_behind" => ~(txHead = TxSize - 1 /\ txTail' = 0)
      BY <1>1, <1>2 DEF TxIntact, TxTested, TxRead, Wrap
    <2>3. pc \in {"put_store", "put_index"} => TxQueued' < TxSize - 1
      BY <1>1, <1>4 DEF TxIntact, TxTested
    <2>4. QED
      BY <2>1, <2>2, <2>3 DEF TxTested
  <1>9. TxCount'
    <2>1. TxCount /\ stored' = stored /\ pc' = pc
      BY DEF TxIntact
    <2>2. CASE pc = "put_byte"
      BY <1>1, <1>4, <1>6, <2>1, <2>2 DEF TxCount
    <2>3. CASE pc = "put_index"
      BY <1>1, <1>4, <1>6, <2>1, <2>3 DEF TxCount
    <2>4. CASE pc \notin {"put_byte", "put_index"}
      BY <1>1, <1>4, <1>6, <2>1, <2>4 DEF TxCount
    <2>5. QED
      BY <2>2, <2>3, <2>4
  <1>10. \A s \in 0 .. TxSize - 1 : Dist(txTail, s, TxSize) \in 0 .. TxSize - 1
    BY TxDistances
  <1>11. ASSUME NEW s \in 0 .. TxSize - 1,
                Dist(txTail', s, TxSize) < TxQueued - 1, ~(pc = "put_byte" /\ s = slot)
         PROVE  txBuf[s] = TxData[Len(txOut) + 1 + 1 + Dist(txTail', s, TxSize)]
    <2>1. txTail' = Wrap(txTail + 1, TxSize)
      BY DEF TxRead
    <2>2. s # txTail
      BY <1>1, <1>11, <2>1 DEF Dist, Wrap
    <2>3. Dist(txTail', s, TxSize) = Dist(txTail, s, TxSize) - 1
      BY <1>1, <2>1, <2>2, DistPop
    <2>4. Dist(txTail, s, TxSize) \in 0 .. TxSize - 1
      BY <1>10
    <2>5. txBuf[s] = TxData[Len(txOut) + 1 + Dist(txTail, s, TxSize)]
      BY <1>1, <1>11, <2>3, <2>4 DEF TxIntact, TxContent
    <2>6. QED
      BY <1>1, <2>3, <2>4, <2>5
  <1>12. TxContent'
    BY <1>4, <1>6, <1>11 DEF TxContent
  <1>13. TxInFlight'
    <2>1. CASE pc = "put_byte"
      <3>1. txHead = slot + 1 /\ slot \in 0 .. TxSize - 1
        BY <2>1 DEF TxIntact, TxInFlight, TypeOK
      <3>2. Dist(txTail, slot, TxSize) = TxQueued - 1
        BY <1>1, <1>3, <3>1, DistLast
      <3>3. TxQueued - 1 # 0
        BY <1>1, <2>1, <3>1, <3>2, DistRange DEF Hit
      <3>4. TxQueued' > 0
        BY <1>1, <1>3, <1>4, <3>3
      <3>5. QED
        BY <2>1, <3>1, <3>4 DEF TxInFlight
    <2>2. CASE pc # "put_byte"
      BY <2>2 DEF TxIntact, TxInFlight
    <2>3. QED
      BY <2>1, <2>2
  <1>14. QED
    BY <1>7, <1>8, <1>9, <1>12, <1>13 DEF TxIntact

(* A step that moves neither the program nor the transmit fifo. *)
LEMMA TxStutter ==
  ASSUME TxInv, UNCHANGED <<txSide, pc, slot>> PROVE TxInv'
  <1>1. TxQueued' = TxQueued
    BY DEF txSide, TxQueued
  <1>2. TxContent => TxContent'
    BY <1>1 DEF TxContent, txSide
  <1>3. QED
    BY <1>1, <1>2
    DEF TxInv, TxIntact, TxTested, TxCount, TxInFlight, TxPrefix, txSide

LEMMA TxGetFrame ==
  ASSUME Get
  PROVE  /\ UNCHANGED txSide
         /\ pc \notin PutSpace \cup PutStores \cup {"put_store", "put_irq"}
         /\ pc' \notin PutSpace \cup PutStores \cup {"put_store", "put_irq"}
  <1> USE DEF Get, GetCall, GetEq, GetGt, GetAhead, GetBehind, GetIndexFirst, GetByte,
        GetByteFirst, GetIndex, GetWrap
  <1>1. UNCHANGED txSide
    BY DEF txSide, txFifo, line, history
  <1>2. /\ pc \notin PutSpace \cup PutStores \cup {"put_store", "put_irq"}
        /\ pc' \notin PutSpace \cup PutStores \cup {"put_store", "put_irq"}
    BY DEF At, Goto, PutSpace, PutStores
  <1>3. QED
    BY <1>1, <1>2

LEMMA TxIsr == TypeOK /\ TxInv /\ IsrTransfer => TxInv'
  <1> SUFFICES ASSUME TypeOK, TxInv, IsrTransfer PROVE TxInv'
    OBVIOUS
  <1>1. UNCHANGED <<txHead, txBuf, stored, pc, slot>>
    BY DEF IsrTransfer
  <1>2. CASE TransmitDue /\ DataAvail(txHead, txTail, TxSize) # 0
    <2>1. TxRead
      BY <1>2 DEF IsrTransfer, Transmit
    <2>2. CASE Hit
      BY <2>1, <2>2 DEF TxRead, TxInv
    <2>3. CASE ~Hit
      <3>1. txHit' = txHit
        BY <2>1, <2>3 DEF TxRead
      <3>2. TxIntact => TxIntact'
        BY <1>1, <1>2, <2>1, <2>3, TxReadKeeps
      <3>3. QED
        BY <3>1, <3>2 DEF TxInv
    <2>4. QED
      BY <2>2, <2>3
  <1>3. CASE ~(TransmitDue /\ DataAvail(txHead, txTail, TxSize) # 0)
    <2>1. UNCHANGED <<txSide, pc, slot>>
      BY <1>1, <1>3 DEF IsrTransfer, Transmit, txSide
    <2>2. QED
      BY <2>1, TxStutter
  <1>4. QED
    BY <1>2, <1>3

LEMMA TxNext == TypeOK /\ TxInv /\ [Next]_vars => TxInv'
  <1> SUFFICES ASSUME TypeOK, TxInv, [Next]_vars PROVE TxInv'
    OBVIOUS
  <1>1. CASE Put
    <2>1. txHit' = txHit
      BY <1>1
      DEF Put, PutCall, PutEq, PutGt, PutAhead, PutBehind, PutIndexFirst, PutByte,
          PutByteFirst, PutIndex, PutWrap, PutIrq, history
    <2>2. TxIntact => TxIntact'
      BY <1>1, TxPutTests, TxPutStores DEF Put
    <2>3. QED
      BY <2>1, <2>2 DEF TxInv
  <1>2. CASE Get
    <2>1. /\ UNCHANGED txSide
          /\ pc \notin PutSpace \cup PutStores \cup {"put_store", "put_irq"}
          /\ pc' \notin PutSpace \cup PutStores \cup {"put_store", "put_irq"}
      BY <1>2, TxGetFrame
    <2>2. /\ pc \notin {"put_byte", "put_index"} /\ pc' \notin {"put_byte", "put_index"}
          /\ TxTested'
      BY <2>1 DEF PutSpace, PutStores, TxTested
    <2>3. TxIntact => TxIntact'
      BY <2>1, <2>2, TxFrame
    <2>4. QED
      BY <2>1, <2>3 DEF TxInv, txSide
  <1>3. CASE IsrEnter \/ IsrError \/ TxDone \/ LineByte \/ UNCHANGED vars
    <2>1. UNCHANGED <<txSide, pc, slot>>
      BY <1>3
      DEF IsrEnter, IsrError, TxDone, LineByte, vars, txSide, txFifo, line, history
    <2>2. QED
      BY <2>1, TxStutter
  <1>4. QED
    BY <1>1, <1>2, <1>3, TxIsr DEF Next, Main, IsrBody

THEOREM TxInvariant == Spec => [](TypeOK /\ TxInv)
  BY TypeInit, TypeNext, TxInit, TxNext, PTL DEF Spec

(* Up to the first hit, what is transmitted is what was stored, in order. *)
THEOREM TxOrdered == Spec => []TxFifoUnlessHit
  <1>1. ASSUME TypeOK, TxInv PROVE TxFifoUnlessHit
    <2> SUFFICES ASSUME txHit = 0 PROVE TxFifo
      BY DEF TxFifoUnlessHit
    <2>1. TxPrefix /\ TxCount /\ TxInFlight
      BY <1>1 DEF TxInv, TxIntact
    <2>2. Len(txOut) <= stored
      BY <1>1, <2>1, TxTypes DEF TxCount, TxInFlight
    <2>3. /\ stored \in 0 .. Len(TxData) /\ Len(TxData) \in Nat
          /\ txOut \in Seq(Byte) /\ TxData \in Seq(Byte)
      BY <1>1, DataAssumption, DataBytes DEF TypeOK
    <2>4. /\ Len(SubSeq(TxData, 1, stored)) = stored
          /\ \A i \in 1 .. stored : SubSeq(TxData, 1, stored)[i] = TxData[i]
          /\ SubSeq(TxData, 1, stored) \in Seq(Byte)
      BY <2>3
    <2>5. SubSeq(txOut, 1, Len(txOut))
            = SubSeq(SubSeq(TxData, 1, stored), 1, Len(txOut))
      BY <2>1, <2>2, <2>3, <2>4 DEF TxPrefix
    <2>6. QED
      BY <2>2, <2>4, <2>5 DEF TxFifo, IsPrefix
  <1>2. QED
    BY <1>1, TxInvariant, PTL
-----------------------------------------------------------------------------
(* Restarting the transmitter.                                             *)

LEMMA RestartNext == TypeOK /\ NoLostWakeup /\ [Next]_vars => NoLostWakeup'
  <1> SUFFICES ASSUME TypeOK, NoLostWakeup, [Next]_vars PROVE NoLostWakeup'
    OBVIOUS
  <1>1. CASE Put
    <2>1. CASE PutCall \/ PutEq \/ PutGt \/ PutAhead \/ PutBehind
      BY <2>1
      DEF PutCall, PutEq, PutGt, PutAhead, PutBehind, At, Goto, txFifo, PutStores,
          NoLostWakeup
    <2>2. CASE PutIndexFirst \/ PutByte \/ PutByteFirst \/ PutIndex \/ PutWrap
      BY <2>2
      DEF PutIndexFirst, PutByte, PutByteFirst, PutIndex, PutWrap, Goto, PutStores,
          NoLostWakeup
    <2>3. CASE PutIrq
      BY <2>3 DEF PutIrq, NoLostWakeup
    <2>4. QED
      BY <1>1, <2>1, <2>2, <2>3 DEF Put
  <1>2. CASE Get
    <2>1. /\ UNCHANGED <<txHead, txTail, txeie>>
          /\ pc \notin PutStores \cup {"put_irq"}
      BY <1>2
      DEF Get, GetCall, GetEq, GetGt, GetAhead, GetBehind, GetIndexFirst, GetByte,
          GetByteFirst, GetIndex, GetWrap, At, txFifo, PutStores
    <2>2. QED
      BY <2>1 DEF NoLostWakeup
  <1>3. CASE IsrEnter \/ IsrError \/ TxDone \/ LineByte \/ UNCHANGED vars
    BY <1>3
    DEF IsrEnter, IsrError, TxDone, LineByte, vars, txFifo, NoLostWakeup
  <1>4. CASE IsrTransfer
    <2>1. UNCHANGED <<txHead, pc>>
      BY <1>4 DEF IsrTransfer
    <2>2. DataAvail(txHead, txTail, TxSize) = 0 <=>
            txHead = txTail \/ (txHead = 0 /\ txTail = TxSize - 1)
      BY TxTypes, NoDataMeans, SizeAssumption
    <2>3. \/ DataAvail(txHead, txTail, TxSize) # 0 /\ txeie' = txeie
          \/ DataAvail(txHead, txTail, TxSize) = 0 /\ UNCHANGED txTail
          \/ UNCHANGED <<txTail, txeie>>
      BY <1>4 DEF IsrTransfer, Transmit
    <2>4. QED
      BY <2>1, <2>2, <2>3 DEF NoLostWakeup, TypeOK, Bit
  <1>5. QED
    BY <1>1, <1>2, <1>3, <1>4 DEF Next, Main, IsrBody

(* The handler never leaves the transmitter off with bytes in the buffer and no
   micro_putc about to turn it on, but for the byte in the last slot.       *)
THEOREM TxRestarts == Spec => []NoLostWakeup
  <1>1. Init => NoLostWakeup
    BY DEF Init, NoLostWakeup
  <1>2. QED
    BY <1>1, RestartNext, TypeCorrect, PTL DEF Spec
=============================================================================
