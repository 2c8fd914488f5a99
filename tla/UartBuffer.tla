----------------------------- MODULE UartBuffer -----------------------------
(***************************************************************************)
(* The buffered build of the serial driver (driver/uart.c, UART_BUFF_EN    *)
(* and UART_SELFTEST): a ring between the receive FIFO and the program, a  *)
(* ring between the program and the transmit FIFO, and uart_test_rx, the   *)
(* timer that copies what came in to what goes out.                        *)
(*                                                                         *)
(* The bytes are numbered as they arrive, so that an order can be seen.    *)
(***************************************************************************)
EXTENDS Integers, Sequences, SequencesExt

CONSTANTS
    FifoLen,      \* UART_FIFO_LEN
    RingSize,     \* UART_TX_BUFFER_SIZE and UART_RX_BUFFER_SIZE
    TestLen,      \* the bytes uart_test_rx asks for
    MaxReceived   \* bound: bytes received

UartBufferAssumption ==
    /\ FifoLen \in Nat \ {0} /\ RingSize \in Nat /\ RingSize >= FifoLen
    /\ TestLen \in Nat \ {0} /\ MaxReceived \in Nat

VARIABLES
    rxFifo, txFifo,      \* the FIFOs
    rxEnabled, rxStatus, \* the receive interrupts: enabled, raised
    txEnabled,           \* the transmit interrupt: enabled
    posted,              \* is uart_recvTask due?
    rx, tx,              \* pRxBuffer and pTxBuffer
    received,            \* how many bytes arrived
    sent                 \* the bytes on the wire
vars == <<rxFifo, txFifo, rxEnabled, rxStatus, txEnabled, posted, rx, tx, received, sent>>

Byte == 1 .. MaxReceived
Cell == 0 .. RingSize - 1
Ring == [cells : [Cell -> Byte \cup {0}], pInPos : Cell, pOutPos : Cell \cup {RingSize},
         Space : 0 .. RingSize]

\* Uart_Buf_Init, with memory enough
Uart_Buf_Init == [cells |-> [i \in Cell |-> 0], pInPos |-> 0, pOutPos |-> 0, Space |-> RingSize]

\* The bytes of a ring, in the order they leave.
Contents(ring) ==
    [n \in 1 .. RingSize - ring.Space |-> ring.cells[(ring.pOutPos + n - 1) % RingSize]]

Init ==
    /\ rxFifo = <<>> /\ txFifo = <<>>
    /\ rxEnabled = TRUE /\ rxStatus = FALSE /\ txEnabled = FALSE /\ posted = FALSE
    /\ rx = Uart_Buf_Init /\ tx = Uart_Buf_Init
    /\ received = 0 /\ sent = <<>>

-----------------------------------------------------------------------------
(* Rings.                                                                  *)

\* os_memcpy to the cells from position p on, which must not pass the end.
CopyIn(cells, p, bytes) ==
    [i \in Cell |-> IF i - p + 1 \in DOMAIN bytes THEN bytes[i - p + 1] ELSE cells[i]]

\* Uart_Buf_Cpy, in one piece or in two.
Uart_Buf_Cpy(ring, bytes) ==
    LET tail == RingSize - ring.pInPos
        upToEnd == CopyIn(ring.cells, ring.pInPos, bytes)
        fromStart == IF tail >= Len(bytes) THEN upToEnd
                     ELSE CopyIn(upToEnd, 0, SubSeq(bytes, tail + 1, Len(bytes)))
    IN  [ring EXCEPT !.cells = fromStart,
                     !.pInPos = (@ + Len(bytes)) % RingSize,
                     !.Space = @ - Len(bytes)]

\* What rx_buff_deq copies out, and the ring after it.  In its first case
\* the position is not brought back from the end to the start.
DeqLen(ring, n) == IF n > RingSize - ring.Space THEN RingSize - ring.Space ELSE n

\* Mutated: the end of the ring is not taken into account.
DeqNoWrap(ring, n) ==
    [ring EXCEPT !.pOutPos = IF @ + DeqLen(ring, n) > RingSize THEN RingSize ELSE @ + DeqLen(ring, n),
                 !.Space = @ + DeqLen(ring, n)]

Deq(ring, n) ==
    [ring EXCEPT !.pOutPos = IF @ <= ring.pInPos THEN @ + DeqLen(ring, n)
                             ELSE (@ + DeqLen(ring, n)) % RingSize,
                 !.Space = @ + DeqLen(ring, n)]

-----------------------------------------------------------------------------
(* Receiving.                                                              *)

Receive ==
    /\ received < MaxReceived
    /\ received' = received + 1
    /\ rxFifo' = IF Len(rxFifo) < FifoLen THEN Append(rxFifo, received') ELSE rxFifo
    /\ UNCHANGED <<txFifo, rxEnabled, rxStatus, txEnabled, posted, rx, tx, sent>>

Raise ==
    /\ rxFifo # <<>> /\ ~rxStatus
    /\ rxStatus' = TRUE
    /\ UNCHANGED <<rxFifo, txFifo, rxEnabled, txEnabled, posted, rx, tx, received, sent>>

\* uart0_rx_intr_handler, RXFIFO_FULL or RXFIFO_TOUT
RxInterrupt ==
    /\ rxEnabled /\ rxStatus
    /\ rxEnabled' = FALSE /\ rxStatus' = FALSE /\ posted' = TRUE
    /\ UNCHANGED <<rxFifo, txFifo, txEnabled, rx, tx, received, sent>>

\* Room for what is in the FIFO, and a cell to spare.
RoomForFifo == Len(rxFifo) < rx.Space

\* uart_recvTask: Uart_rx_buff_enq.  Without room the FIFO stays as it is
\* and its interrupts disabled.
RxTask ==
    /\ posted /\ posted' = FALSE
    /\ IF RoomForFifo
       THEN /\ rx' = Uart_Buf_Cpy(rx, rxFifo)
            /\ rxFifo' = <<>>
            /\ rxEnabled' = (rxEnabled \/ rx'.Space >= FifoLen)
       ELSE UNCHANGED <<rx, rxFifo, rxEnabled>>
    /\ UNCHANGED <<txFifo, rxStatus, txEnabled, tx, received, sent>>

-----------------------------------------------------------------------------
(* The program and sending.                                                *)

\* Mutated: the receive interrupts are left to uart_recvTask.
DeqEnables(ring) == FALSE

\* rx_buff_deq enables the receive interrupts once the FIFO would fit.
EnoughSpace(ring) == ring.Space >= FifoLen

\* tx_buff_enq drops all of what does not fit.
TxRoom(bytes) == Len(bytes) <= tx.Space

\* uart_test_rx: rx_buff_deq, and tx_buff_enq of what it got.
TestRx ==
    LET bytes == SubSeq(Contents(rx), 1, DeqLen(rx, TestLen)) IN
    /\ rx' = Deq(rx, TestLen)
    /\ rxEnabled' = (rxEnabled \/ EnoughSpace(rx'))
    /\ tx' = IF TxRoom(bytes) THEN Uart_Buf_Cpy(tx, bytes) ELSE tx
    /\ txEnabled' = TRUE
    /\ UNCHANGED <<rxFifo, txFifo, rxStatus, posted, received, sent>>

\* There is more in the ring than the n bytes that fit into the FIFO.
MoreToSend(n) == RingSize - tx.Space > n

\* uart0_rx_intr_handler, TXFIFO_EMPTY: tx_start_uart_buffer and
\* tx_fifo_insert.  The FIFO is below its threshold.
TxInterrupt ==
    LET remain == FifoLen - Len(txFifo)
        n == IF RingSize - tx.Space > remain THEN remain ELSE RingSize - tx.Space IN
    /\ txEnabled /\ Len(txFifo) < FifoLen
    /\ txFifo' = txFifo \o SubSeq(Contents(tx), 1, n)
    /\ tx' = [tx EXCEPT !.pOutPos = (@ + n) % RingSize, !.Space = @ + n]
    /\ txEnabled' = MoreToSend(n)
    /\ UNCHANGED <<rxFifo, rxEnabled, rxStatus, posted, rx, received, sent>>

Wire ==
    /\ txFifo # <<>>
    /\ sent' = Append(sent, Head(txFifo))
    /\ txFifo' = Tail(txFifo)
    /\ UNCHANGED <<rxFifo, rxEnabled, rxStatus, txEnabled, posted, rx, tx, received>>

Next == Receive \/ Raise \/ RxInterrupt \/ RxTask \/ TestRx \/ TxInterrupt \/ Wire

Spec == Init /\ [][Next]_vars

FairSpec ==
    /\ Spec
    /\ WF_vars(Raise) /\ WF_vars(RxInterrupt) /\ WF_vars(RxTask)
    /\ WF_vars(TestRx) /\ WF_vars(TxInterrupt) /\ WF_vars(Wire)

-----------------------------------------------------------------------------
TypeOK ==
    /\ rxFifo \in Seq(Byte) /\ Len(rxFifo) <= FifoLen
    /\ txFifo \in Seq(Byte) /\ Len(txFifo) <= FifoLen
    /\ rx \in Ring /\ tx \in Ring
    /\ rxEnabled \in BOOLEAN /\ rxStatus \in BOOLEAN /\ txEnabled \in BOOLEAN
    /\ posted \in BOOLEAN /\ received \in 0 .. MaxReceived

\* The positions of a ring are as far apart as it is full, the one to read from
\* is never left behind the end, and what lies between them was received.
InStep(ring) ==
    /\ ring.pOutPos \in Cell
    /\ ring.pInPos = (ring.pOutPos + RingSize - ring.Space) % RingSize
    /\ \A n \in 1 .. RingSize - ring.Space : Contents(ring)[n] \in Byte

\* Inductive: the receive ring keeps a cell to spare, so that its positions
\* tell how rx_buff_deq is to go round the end.
BufferInv == TypeOK /\ InStep(rx) /\ InStep(tx) /\ rx.Space > 0

\* All that is under way, from the wire back to the receive FIFO, is in the
\* order it was received, within each stage and from stage to stage.
Increasing(s) == \A i, j \in 1 .. Len(s) : i < j => s[i] < s[j]
Before(s, t) == \A i \in 1 .. Len(s), j \in 1 .. Len(t) : s[i] < t[j]
Stages == <<sent, txFifo, Contents(tx), Contents(rx), rxFifo>>
StagesInOrder ==
    /\ sent \in Seq(Byte)
    /\ \A a \in 1 .. 5 :
        /\ Increasing(Stages[a])
        /\ \A i \in 1 .. Len(Stages[a]) : Stages[a][i] <= received
        /\ \A b \in a + 1 .. 5 : Before(Stages[a], Stages[b])

\* What is sent was received, in that order and each byte once, although
\* it passes two rings and may be dropped before either.
EchoInOrder == \A i \in 1 .. Len(sent) - 1 : sent[i] < sent[i + 1]

\* Both rings are queues: wherever their positions are, nothing that was
\* accepted is lost, repeated or overtaken.
RxQueue == INSTANCE ByteQueue WITH queue <- Contents(rx), Size <- RingSize - 1
TxQueue == INSTANCE ByteQueue WITH queue <- Contents(tx), Size <- RingSize
RxIsQueue == RxQueue!Spec
TxIsQueue == TxQueue!Spec

=============================================================================
