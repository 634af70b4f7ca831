---------------------------- MODULE UsartConsole ----------------------------
(***************************************************************************)
(* The serial console: micro_stdio.c on the two byte fifos of byte_fifo.c, *)
(* the program's side (micro_putc, micro_getc) interleaved with the USART1 *)
(* interrupt handler and with the line.                                    *)
(*                                                                         *)
(* The program runs one memory access per step and only while no handler   *)
(* is active; the handler preempts it between any two accesses.  The       *)
(* handler itself is one step after it has read the status registers:      *)
(* nothing on this core preempts it, and only the USART moves meanwhile.   *)
(***************************************************************************)
EXTENDS ByteFifo, Sequences, SequencesExt

CONSTANTS
  TxSize,      \* USART1_TX_BUF_SIZE
  RxSize,      \* USART1_RX_BUF_SIZE
  TxData,      \* the bytes the program prints
  RxData,      \* the bytes that arrive on the line
  MaxTx,       \* bound: bytes the transmitter sends
  LineErrors,  \* the errors a byte may arrive with, of PE, FE and NE
  EIE, PEIE,   \* the error interrupts enabled in CR3 and CR1
  Handler      \* the file whose handler is linked in

Byte   == 0 .. 255
NoByte == -1

ASSUME SizeAssumption  == /\ TxSize \in Nat /\ 3 <= TxSize /\ TxSize < 65536
                          /\ RxSize \in Nat /\ 3 <= RxSize /\ RxSize < 65536
ASSUME DataAssumption  == TxData \in Seq(Byte) /\ RxData \in Seq(Byte)
ASSUME BoundAssumption == MaxTx \in Nat
ASSUME LineAssumption  == LineErrors \subseteq {"PE", "FE", "NE"}
ASSUME BuildAssumption == /\ EIE \in BOOLEAN /\ PEIE \in BOOLEAN
                          /\ Handler \in {"micro_stdio", "stm32f3xx_it"}

VARIABLES
  txHead, txTail, txBuf,   \* usart1_tx_fifo
  rxHead, rxTail, rxBuf,   \* usart1_rx_fifo
  pc,                      \* the program's next memory access
  slot,                    \* the index a "++" has fetched
  isrPc,                   \* the handler: idle, entry, body
  snap,                    \* isrflags and cr1its
  txeie,                   \* CR1.TXEIE
  txe,                     \* ISR.TXE: the transmitter takes a byte
  rdr,                     \* the received byte in RDR, if ISR.RXNE
  errs,                    \* PE, FE, NE, ORE of ISR
  arrived,                 \* bytes of RxData the line has delivered
  stored,                  \* bytes of TxData put into the buffer
  txOut,                   \* bytes written to TDR
  rxAccepted,              \* bytes the handler put into the rx fifo
  rxDelivered,             \* bytes micro_getc returned
  txHit                    \* the handler fell inside a bf_write (see Hit)

txFifo   == <<txHead, txTail, txBuf>>
rxFifo   == <<rxHead, rxTail, rxBuf>>
isr      == <<isrPc, snap>>
usart    == <<txe, rdr, errs>>
line     == <<arrived, txOut>>
history  == <<stored, rxAccepted, rxDelivered, txHit>>
vars     == <<txFifo, rxFifo, pc, slot, isr, txeie, usart, line, history>>

PutSpace  == {"put_eq", "put_gt", "put_ahead", "put_behind"}
PutStores == {"put_byte", "put_index", "put_wrap"}
GetTests  == {"get_eq", "get_gt", "get_ahead", "get_behind"}
GetLoads  == {"get_byte", "get_index", "get_wrap"}
PC == {"loop", "put_store", "put_irq", "get_store"}
        \cup PutSpace \cup PutStores \cup GetTests \cup GetLoads

Bit   == {0, 1}
Flags == {"PE", "FE", "NE", "ORE"}
Snapshot == [rxne : Bit, txe : Bit, txeie : Bit, errs : SUBSET Flags]

Init ==
  /\ txHead = 0 /\ txTail = 0 /\ txBuf = [s \in 0 .. TxSize - 1 |-> 0]
  /\ rxHead = 0 /\ rxTail = 0 /\ rxBuf = [s \in 0 .. RxSize - 1 |-> 0]
  /\ pc = "loop" /\ slot = 0
  /\ isrPc = "idle"
  /\ snap = [rxne |-> 0, txe |-> 0, txeie |-> 0, errs |-> {}]
  /\ txeie = 0 /\ txe = 1 /\ rdr = NoByte /\ errs = {}
  /\ arrived = 0 /\ stored = 0
  /\ txOut = <<>> /\ rxAccepted = <<>> /\ rxDelivered = <<>>
  /\ txHit = 0

-----------------------------------------------------------------------------
(* The program.  It runs only when no handler is active.                   *)

At(p)   == isrPc = "idle" /\ pc = p
Goto(p) == pc' = p

(* micro_putc, and one round of the loops of _write and micro_puts. *)
PutCall ==
  /\ At("loop") /\ stored < Len(TxData)
  /\ Goto("put_eq")
  /\ UNCHANGED <<txFifo, rxFifo, slot, isr, txeie, usart, line, history>>

(* bf_space_avail reads the handler's index up to three times.  Only zero or
   non-zero matters to the caller, which tries again on zero.               *)
PutEq ==
  /\ At("put_eq")
  /\ Goto(IF txHead = txTail THEN "put_store" ELSE "put_gt")
  /\ UNCHANGED <<txFifo, rxFifo, slot, isr, txeie, usart, line, history>>

PutGt ==
  /\ At("put_gt")
  /\ Goto(IF txHead > txTail THEN "put_ahead" ELSE "put_behind")
  /\ UNCHANGED <<txFifo, rxFifo, slot, isr, txeie, usart, line, history>>

PutAhead ==
  /\ At("put_ahead")
  /\ Goto(IF SpaceAhead(txHead, txTail, TxSize) # 0 THEN "put_store" ELSE "put_eq")
  /\ UNCHANGED <<txFifo, rxFifo, slot, isr, txeie, usart, line, history>>

PutBehind ==
  /\ At("put_behind")
  /\ Goto(IF SpaceBehind(txHead, txTail) # 0 THEN "put_store" ELSE "put_eq")
  /\ UNCHANGED <<txFifo, rxFifo, slot, isr, txeie, usart, line, history>>

(* bf_write.  C leaves the order of the two stores of buf[head++] = val to
   the compiler; both are modelled.                                         *)
PutIndexFirst ==
  /\ At("put_store")
  /\ slot' = txHead /\ txHead' = txHead + 1
  /\ Goto("put_byte")
  /\ UNCHANGED <<txTail, txBuf, rxFifo, isr, txeie, usart, line, history>>

PutByte ==
  /\ At("put_byte")
  /\ txBuf' = [txBuf EXCEPT ![slot] = TxData[stored + 1]]
  /\ stored' = stored + 1
  /\ Goto("put_wrap")
  /\ UNCHANGED <<txHead, txTail, rxFifo, slot, isr, txeie, usart, line,
                 rxAccepted, rxDelivered, txHit>>

PutByteFirst ==
  /\ At("put_store")
  /\ txBuf' = [txBuf EXCEPT ![txHead] = TxData[stored + 1]]
  /\ stored' = stored + 1
  /\ Goto("put_index")
  /\ UNCHANGED <<txHead, txTail, rxFifo, slot, isr, txeie, usart, line,
                 rxAccepted, rxDelivered, txHit>>

PutIndex ==
  /\ At("put_index")
  /\ txHead' = txHead + 1
  /\ Goto("put_wrap")
  /\ UNCHANGED <<txTail, txBuf, rxFifo, slot, isr, txeie, usart, line, history>>

PutWrap ==
  /\ At("put_wrap")
  /\ txHead' = Wrap(txHead, TxSize)
  /\ Goto("put_irq")
  /\ UNCHANGED <<txTail, txBuf, rxFifo, slot, isr, txeie, usart, line, history>>

(* usart1_transmit_interrupt_enable: a read-modify-write of CR1, of which the
   handler changes no bit but TXEIE, so the outcome is that TXEIE is set.   *)
PutIrq ==
  /\ At("put_irq")
  /\ txeie' = 1
  /\ Goto("loop")
  /\ UNCHANGED <<txFifo, rxFifo, slot, isr, usart, line, history>>

(* micro_getc. *)
GetCall ==
  /\ At("loop")
  /\ Goto("get_eq")
  /\ UNCHANGED <<txFifo, rxFifo, slot, isr, txeie, usart, line, history>>

GetEq ==
  /\ At("get_eq")
  /\ Goto(IF rxTail = rxHead THEN "loop" ELSE "get_gt")
  /\ UNCHANGED <<txFifo, rxFifo, slot, isr, txeie, usart, line, history>>

GetGt ==
  /\ At("get_gt")
  /\ Goto(IF rxHead > rxTail THEN "get_ahead" ELSE "get_behind")
  /\ UNCHANGED <<txFifo, rxFifo, slot, isr, txeie, usart, line, history>>

GetAhead ==
  /\ At("get_ahead")
  /\ Goto(IF DataAhead(rxHead, rxTail) # 0 THEN "get_store" ELSE "loop")
  /\ UNCHANGED <<txFifo, rxFifo, slot, isr, txeie, usart, line, history>>

GetBehind ==
  /\ At("get_behind")
  /\ Goto(IF DataBehind(rxHead, rxTail, RxSize) # 0 THEN "get_store" ELSE "loop")
  /\ UNCHANGED <<txFifo, rxFifo, slot, isr, txeie, usart, line, history>>

(* bf_read, its two accesses in either order. *)
GetIndexFirst ==
  /\ At("get_store")
  /\ slot' = rxTail /\ rxTail' = rxTail + 1
  /\ Goto("get_byte")
  /\ UNCHANGED <<txFifo, rxHead, rxBuf, isr, txeie, usart, line, history>>

GetByte ==
  /\ At("get_byte")
  /\ rxDelivered' = Append(rxDelivered, rxBuf[slot])
  /\ Goto("get_wrap")
  /\ UNCHANGED <<txFifo, rxFifo, slot, isr, txeie, usart, line,
                 stored, rxAccepted, txHit>>

GetByteFirst ==
  /\ At("get_store")
  /\ rxDelivered' = Append(rxDelivered, rxBuf[rxTail])
  /\ Goto("get_index")
  /\ UNCHANGED <<txFifo, rxFifo, slot, isr, txeie, usart, line,
                 stored, rxAccepted, txHit>>

GetIndex ==
  /\ At("get_index")
  /\ rxTail' = rxTail + 1
  /\ Goto("get_wrap")
  /\ UNCHANGED <<txFifo, rxHead, rxBuf, slot, isr, txeie, usart, line, history>>

GetWrap ==
  /\ At("get_wrap")
  /\ rxTail' = Wrap(rxTail, RxSize)
  /\ Goto("loop")
  /\ UNCHANGED <<txFifo, rxHead, rxBuf, slot, isr, txeie, usart, line, history>>

Put == \/ PutCall \/ PutEq \/ PutGt \/ PutAhead \/ PutBehind
       \/ PutIndexFirst \/ PutByte \/ PutByteFirst \/ PutIndex
       \/ PutWrap \/ PutIrq
Get == \/ GetCall \/ GetEq \/ GetGt \/ GetAhead \/ GetBehind
       \/ GetIndexFirst \/ GetByte \/ GetByteFirst \/ GetIndex \/ GetWrap
Main == Put \/ Get

-----------------------------------------------------------------------------
(* The interrupt handler.                                                  *)

(* The interrupt request of USART1, RXNEIE being set by the board's set-up:
   RXNE and ORE under RXNEIE, TXE, PE and the errors under their enables.   *)
IrqLine ==
  \/ rdr # NoByte
  \/ txe = 1 /\ txeie = 1
  \/ "ORE" \in errs
  \/ PEIE /\ "PE" \in errs
  \/ EIE /\ errs \cap {"FE", "NE", "ORE"} # {}

(* The handler starts when the request is up; while the request stays up a
   handler that returns is entered again before the program runs.           *)
IsrEnter ==
  /\ \/ isrPc = "idle" /\ IrqLine
     \/ isrPc = "entry"
  /\ snap' = [rxne |-> IF rdr = NoByte THEN 0 ELSE 1, txe |-> txe, txeie |-> txeie, errs |-> errs]
  /\ isrPc' = "body"
  /\ UNCHANGED <<txFifo, rxFifo, pc, slot, txeie, usart, line, history>>

(* The handler's bf_write and bf_read. *)
RxWritePreIncrement ==
  /\ rxHead' = Wrap(rxHead + 1, RxSize)
  /\ rxBuf' = [rxBuf EXCEPT ![Wrap(rxHead + 1, RxSize)] = rdr]
  /\ rxAccepted' = Append(rxAccepted, rdr)

RxWrite ==
  /\ rxBuf' = [rxBuf EXCEPT ![rxHead] = rdr]
  /\ rxHead' = Wrap(rxHead + 1, RxSize)
  /\ rxAccepted' = Append(rxAccepted, rdr)

(* The program is inside a bf_write and the handler takes the slot it has not
   filled yet, or reads the index the program has not wrapped yet.          *)
Hit == \/ pc = "put_byte" /\ txTail = slot
       \/ txHead = TxSize /\ txTail = 0

TxRead ==
  /\ txOut' = Append(txOut, txBuf[txTail])
  /\ txTail' = Wrap(txTail + 1, TxSize)
  /\ txHit' = IF Hit THEN 1 ELSE txHit

(* The receive branch: the byte leaves RDR whether there is space or not. *)
ReceiveUnchecked ==
  IF snap.rxne = 1
    THEN rdr' = NoByte /\ RxWrite
    ELSE UNCHANGED <<rdr, rxBuf, rxHead, rxAccepted>>

Receive ==
  IF snap.rxne = 1
    THEN /\ rdr' = NoByte
         /\ IF SpaceAvail(rxHead, rxTail, RxSize) # 0
              THEN RxWrite
              ELSE UNCHANGED <<rxBuf, rxHead, rxAccepted>>
    ELSE UNCHANGED <<rdr, rxBuf, rxHead, rxAccepted>>

(* The test before the transmit branch.  In stm32f3xx_it.c "!=" binds before
   "&": it tests bit 0 of each register, ISR.PE and CR1.UE.                 *)
TransmitDuePrecedence == "PE" \in snap.errs

TransmitDue ==
  IF Handler = "micro_stdio" THEN snap.txe = 1 /\ snap.txeie = 1 ELSE "PE" \in snap.errs

TransmitEager ==
  IF TransmitDue
    THEN IF DataAvail(txHead, txTail, TxSize) # 0
           THEN /\ TxRead /\ txe' = 0
                /\ txeie' = IF DataAvail(txHead, txTail, TxSize) = 1 THEN 0 ELSE 1
           ELSE txeie' = 0 /\ UNCHANGED <<txOut, txe, txTail, txHit>>
    ELSE UNCHANGED <<txOut, txe, txTail, txHit, txeie>>

Transmit ==
  IF TransmitDue
    THEN IF DataAvail(txHead, txTail, TxSize) # 0
           THEN TxRead /\ txe' = 0 /\ UNCHANGED txeie
           ELSE txeie' = 0 /\ UNCHANGED <<txOut, txe, txTail, txHit>>
    ELSE UNCHANGED <<txOut, txe, txTail, txHit, txeie>>

(* The error branch, RXNEIE being set: with EIE it clears the error flags it
   saw; without, nothing.  The received byte stays in RDR either way.       *)
ClearedButOverrun == IF EIE THEN snap.errs \ {"ORE"} ELSE {}

Cleared == IF EIE THEN snap.errs \ (IF PEIE THEN {} ELSE {"PE"}) ELSE {}

IsrReturn == isrPc' = IF IrqLine' THEN "entry" ELSE "idle"

IsrTransfer ==
  /\ isrPc = "body" /\ snap.errs = {}
  /\ Receive
  /\ Transmit
  /\ UNCHANGED <<txHead, txBuf, rxTail, pc, slot, snap, errs, arrived, stored,
                 rxDelivered>>
  /\ IsrReturn

IsrError ==
  /\ isrPc = "body" /\ snap.errs # {}
  /\ errs' = errs \ Cleared
  /\ UNCHANGED <<txFifo, rxFifo, pc, slot, snap, txeie, txe, rdr, line, history>>
  /\ IsrReturn

IsrBody == IsrTransfer \/ IsrError

-----------------------------------------------------------------------------
(* The USART and the line: external, as the code relies on them.           *)

(* The transmitter has moved the byte on and can take another. *)
TxDone ==
  /\ txe = 0 /\ Len(txOut) < MaxTx
  /\ txe' = 1
  /\ UNCHANGED <<txFifo, rxFifo, pc, slot, isr, txeie, rdr, errs, line, history>>

(* A byte arrives, possibly damaged; if RDR has not been read, it is lost and
   the overrun is flagged.                                                  *)
LineByte ==
  /\ arrived < Len(RxData)
  /\ arrived' = arrived + 1
  /\ IF rdr = NoByte
       THEN /\ rdr' = RxData[arrived + 1]
            /\ \E e \in {{}} \cup {{x} : x \in LineErrors} : errs' = errs \cup e
       ELSE errs' = errs \cup {"ORE"} /\ UNCHANGED rdr
  /\ UNCHANGED <<txFifo, rxFifo, pc, slot, isr, txeie, txe, txOut, history>>

Next == Main \/ IsrEnter \/ IsrBody \/ TxDone \/ LineByte

Spec == Init /\ [][Next]_vars

(* The processor runs the program when no handler is active and takes a
   request that is up; the transmitter finishes a byte.  The line owes
   nothing.                                                                 *)
Fairness == /\ WF_vars(Main) /\ WF_vars(IsrEnter) /\ WF_vars(IsrBody)
            /\ WF_vars(TxDone)

FairSpec == Spec /\ Fairness
-----------------------------------------------------------------------------
(* Properties.                                                             *)

(* Every variable keeps its type; in particular an index lies outside the
   buffer only between the "++" and the wrap of its own bf_write or bf_read,
   so no store or load of the fifos is out of bounds.                       *)
TypeOK ==
  /\ txHead \in 0 .. TxSize /\ txTail \in 0 .. TxSize - 1
  /\ txHead = TxSize => pc \in {"put_byte", "put_wrap"}
  /\ txBuf \in [0 .. TxSize - 1 -> Byte]
  /\ rxHead \in 0 .. RxSize - 1 /\ rxTail \in 0 .. RxSize
  /\ rxTail = RxSize => pc \in {"get_byte", "get_wrap"}
  /\ rxBuf \in [0 .. RxSize - 1 -> Byte]
  /\ pc \in PC
  /\ slot \in Nat
  /\ pc = "put_byte" => slot < TxSize
  /\ pc = "get_byte" => slot < RxSize
  /\ isrPc \in {"idle", "entry", "body"}
  /\ snap \in Snapshot
  /\ txeie \in Bit /\ txe \in Bit
  /\ rdr \in Byte \cup {NoByte}
  /\ (isrPc = "body" /\ snap.rxne = 1) => rdr # NoByte
  /\ errs \in SUBSET Flags
  /\ arrived \in 0 .. Len(RxData)
  /\ stored \in 0 .. Len(TxData)
  /\ (pc \in PutSpace \cup {"put_store", "put_byte"}) => stored < Len(TxData)
  /\ txOut \in Seq(Byte)
  /\ rxAccepted \in Seq(Byte) /\ rxDelivered \in Seq(Byte)
  /\ txHit \in Bit

(* What reaches the transmitter is what the program stored, in order and each
   byte once.                                                               *)
TxFifo == IsPrefix(txOut, SubSeq(TxData, 1, stored))

(* The same, up to the first time the handler falls inside a bf_write: nothing
   else in the interplay of micro_putc and the handler breaks the order.    *)
TxFifoUnlessHit == txHit = 0 => TxFifo

(* The handler and the program agree on who restarts the transmitter: with
   TXEIE off and no micro_putc on its way to set it, the buffer is empty, up
   to the one byte bf_data_avail does not count.                            *)
NoLostWakeup ==
  (txeie = 0 /\ pc \notin PutStores \cup {"put_irq"}) =>
    \/ txHead = txTail
    \/ txHead = 0 /\ txTail = TxSize - 1

(* micro_getc returns the accepted bytes, in order and each once, wherever the
   handler's bf_write falls between the accesses of bf_data_avail and bf_read. *)
RxFifo == IsPrefix(rxDelivered, rxAccepted)

(* The handler throws a received byte away only when all the buffer but the
   free slot holds bytes micro_getc has not taken yet.                      *)
RxDropsOnlyWhenFull ==
  [][(rdr # NoByte /\ rdr' = NoByte /\ rxAccepted' = rxAccepted) =>
       Len(rxAccepted) - Len(rxDelivered) + (IF pc = "get_index" THEN 1 ELSE 0)
         >= RxSize - 1]_vars

(* The receive side implements a pipe of at most RxSize bytes. *)
RxPipe == INSTANCE BytePipe
            WITH Cap <- RxSize, accepted <- rxAccepted, delivered <- rxDelivered
RxPipeSpec == RxPipe!Spec

(* micro_putc never spins for ever: a full buffer is always drained (MaxTx, if
   above Len(TxData), is reached only by bytes sent twice after a hit).     *)
PutReturns == (pc = "put_eq") ~> (pc = "loop" \/ Len(txOut) = MaxTx)

(* All that was stored is transmitted in the end, but for at most one byte. *)
TxDrains == <>[](txHit = 1 \/ stored - Len(txOut) <= 1)

(* All that was accepted is read in the end, but for at most one byte. *)
RxDrains == <>[](Len(rxAccepted) - Len(rxDelivered) <= 1)

(* The handler never holds the processor for good: line errors and overruns do
   not keep the request up ("I really don't care", micro_stdio.c).          *)
ProgramRuns == []<>(isrPc = "idle")

-----------------------------------------------------------------------------
(* Inductive invariants (proved in UsartConsole_proofs).  The slots from the
   tail up to the head hold the youngest accepted bytes; a bf_read that has
   moved the tail and not yet loaded its byte still finds it in its slot.   *)

RxQueued == Dist(Wrap(rxTail, RxSize), rxHead, RxSize)

RxTested ==
  pc \in {"get_gt", "get_ahead", "get_behind", "get_store", "get_index"} =>
    rxHead # rxTail

RxCount ==
  Len(rxAccepted) = Len(rxDelivered) + RxQueued
                      + (IF pc = "get_byte" THEN 1 ELSE 0)
                      - (IF pc = "get_index" THEN 1 ELSE 0)

RxContent ==
  \A s \in 0 .. RxSize - 1 :
    LET d == Dist(Wrap(rxTail, RxSize), s, RxSize)
    IN  d < RxQueued => rxBuf[s] = rxAccepted[Len(rxAccepted) - RxQueued + 1 + d]

RxInFlight ==
  /\ pc = "get_byte" => /\ rxTail = slot + 1
                        /\ rxBuf[slot] = rxAccepted[Len(rxDelivered) + 1]
  /\ pc = "get_index" => Len(rxDelivered) > 0

RxPrefix == \A i \in 1 .. Len(rxDelivered) : rxDelivered[i] = rxAccepted[i]

RxInv == RxTested /\ RxCount /\ RxContent /\ RxInFlight /\ RxPrefix

(* Until the first hit, the slots of the transmit buffer from the tail up to
   the head hold the stored bytes not yet sent, but for the one bf_write has
   moved the head over and not stored.                                      *)
TxQueued == Dist(txTail, Wrap(txHead, TxSize), TxSize)

TxTested ==
  /\ pc = "put_ahead" => txTail <= txHead
  /\ pc = "put_behind" => ~(txHead = TxSize - 1 /\ txTail = 0)
  /\ pc \in {"put_store", "put_index"} => TxQueued < TxSize - 1

TxCount ==
  stored = Len(txOut) + TxQueued - (IF pc = "put_byte" THEN 1 ELSE 0)
                                 + (IF pc = "put_index" THEN 1 ELSE 0)

TxContent ==
  \A s \in 0 .. TxSize - 1 :
    LET d == Dist(txTail, s, TxSize)
    IN  (d < TxQueued /\ ~(pc = "put_byte" /\ s = slot)) =>
           txBuf[s] = TxData[Len(txOut) + 1 + d]

TxInFlight ==
  /\ pc = "put_byte" => txHead = slot + 1 /\ TxQueued > 0
  /\ pc = "put_index" => txBuf[txHead] = TxData[stored]

TxPrefix == \A i \in 1 .. Len(txOut) : txOut[i] = TxData[i]

TxIntact == TxTested /\ TxCount /\ TxContent /\ TxInFlight /\ TxPrefix

TxInv == txHit = 0 => TxIntact
=============================================================================
