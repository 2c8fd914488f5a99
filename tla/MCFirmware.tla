----------------------------- MODULE MCFirmware -----------------------------
(***************************************************************************)
(* Instances of what stands below the application of the ESP8266: the       *)
(* update of its firmware (Ota), the writer of ROMs (RomWriter), the shell  *)
(* behind the UART (Console), and the buffered UART driver (UartBuffer).    *)
(* They share no state, so one behaviour is about one of them: part names   *)
(* it, and the others stay in their initial states.                         *)
(*                                                                         *)
(* The update is the module extended here, with failing lookups and updates *)
(* that overlap, and a second instance without them, in which the shell     *)
(* switches ROMs and every update ends.                                     *)
(***************************************************************************)
EXTENDS Ota, Sequences

CONSTANTS
    SectorSize, Sectors, RomStart, MaxLength, MaxChunk, Downloads,  \* of RomWriter
    BUFF_LEN, IndexMax, ConsoleFifoLen, FullThreshold, CMD_LENGTH, Letters, MaxTyped, \* of Console
    UartFifoLen, RingSize, TestLen, MaxReceived                     \* of UartBuffer

VARIABLES
    part,
    started2, flag2, upgrade2, ota_timer2, conn2, rom2, bootconf2, chosen2, at2,
    flash, download, received, status, outcome,
    fifo, enabled, full, tout, posts, task, left, shellBuffer, sbi, line, ahead, ran, typed,
    rxFifo, txFifo, rxEnabled, rxStatus, txEnabled, posted, rx, tx, echoed, sent

patientVars == <<started2, flag2, upgrade2, ota_timer2, conn2, rom2, bootconf2, chosen2, at2>>
writerVars == <<flash, download, received, status, outcome>>
consoleVars == <<fifo, enabled, full, tout, posts, task, left, shellBuffer, sbi, line, ahead, ran, typed>>
uartVars == <<rxFifo, txFifo, rxEnabled, rxStatus, txEnabled, posted, rx, tx, echoed, sent>>

Patient == INSTANCE Ota WITH
    LookupErrors <- FALSE, Impatient <- FALSE, Switches <- TRUE,
    started <- started2, flag <- flag2, upgrade <- upgrade2, ota_timer <- ota_timer2,
    conn <- conn2, rom <- rom2, bootconf <- bootconf2, chosen <- chosen2, at <- at2
\* Two downloads of up to two sectors in chunks that straddle words and sectors.
Writer == INSTANCE RomWriter WITH Start <- RomStart
\* Lines that outgrow the buffer, and more than fits in the FIFO.
Shell == INSTANCE Console WITH FifoLen <- ConsoleFifoLen
\* Both rings fill up and wrap.
Uart == INSTANCE UartBuffer WITH FifoLen <- UartFifoLen, received <- echoed

ASSUME RomAssumption == Writer!WriterAssumption
ASSUME ShellAssumption == Shell!ConsoleAssumption
ASSUME RingAssumption == Uart!UartBufferAssumption

FirmwareInit ==
    /\ part \in {"update", "patient update", "writer", "shell", "uart"}
    /\ Init /\ Patient!Init /\ Writer!Init /\ Shell!Init /\ Uart!Init

FirmwareNext ==
    \/ /\ part = "update" /\ Next
       /\ UNCHANGED <<part, patientVars, writerVars, consoleVars, uartVars>>
    \/ /\ part = "patient update" /\ Patient!Next
       /\ UNCHANGED <<part, vars, writerVars, consoleVars, uartVars>>
    \/ /\ part = "writer" /\ Writer!Next
       /\ UNCHANGED <<part, vars, patientVars, consoleVars, uartVars>>
    \/ /\ part = "shell" /\ Shell!Next
       /\ UNCHANGED <<part, vars, patientVars, writerVars, uartVars>>
    \/ /\ part = "uart" /\ Uart!Next
       /\ UNCHANGED <<part, vars, patientVars, writerVars, consoleVars>>

\* The SDK delivers its callbacks and timers, the hardware its interrupts, and tasks run; the
\* server of an update need do nothing.
FirmwareSpec ==
    /\ FirmwareInit
    /\ [][FirmwareNext]_<<part, vars, patientVars, writerVars, consoleVars, uartVars>>
    /\ \A i \in Attempt :
        /\ WF_patientVars(part = "patient update" /\ Patient!Resolved(i))
        /\ WF_patientVars(part = "patient update" /\ conn2[i] = "closing" /\ Patient!Disconnected(i))
    /\ WF_patientVars(part = "patient update" /\ Patient!TimerExpires)
    /\ WF_patientVars(part = "patient update" /\ Patient!FinishSetRom)
    /\ WF_consoleVars(part = "shell" /\ Shell!Quiet)
    /\ WF_consoleVars(part = "shell" /\ Shell!Interrupt)
    /\ WF_consoleVars(part = "shell" /\ Shell!TaskStart)
    /\ WF_consoleVars(part = "shell" /\ Shell!TaskTake)
    /\ WF_consoleVars(part = "shell" /\ Shell!TaskEnd)
    /\ WF_uartVars(part = "uart" /\ Uart!Raise)
    /\ WF_uartVars(part = "uart" /\ Uart!RxInterrupt)
    /\ WF_uartVars(part = "uart" /\ Uart!RxTask)
    /\ WF_uartVars(part = "uart" /\ Uart!TestRx)
    /\ WF_uartVars(part = "uart" /\ Uart!TxInterrupt)
    /\ WF_uartVars(part = "uart" /\ Uart!Wire)

-----------------------------------------------------------------------------
(* The properties of the parts, which their modules explain. *)

\* Each part keeps to its types, and the update, the writer, the shell and the buffered driver
\* to their inductive invariants.
PartsTypeOK ==
    /\ OtaInv
    /\ part = "patient update" =>
          /\ Patient!TypeOK /\ Patient!CallbacksFindUpgrade
          /\ Patient!OneUpdate /\ Patient!RunsConfigured /\ Patient!OtherSlot
    /\ part = "writer" => Writer!WriterInv
    /\ part = "shell" => Shell!ConsoleInv
    /\ part = "uart" => Uart!BufferInv /\ Uart!StagesInOrder

\* No update writes the slot the device runs from, however updates overlap, and also when the
\* shell switches ROMs while one is under way (rboot_ota_start takes the slot from the boot
\* configuration).
RunningRomStays == RunningRomUntouched /\ Patient!RunningRomUntouched

\* Every update ends, whatever the server does and also if the shell switches ROMs: each wait
\* but that for the lookup has its timer (rboot-ota.c, ota_timer).
EveryUpdateEnds == part = "patient update" => Patient!UpdateEnds

\* What was handed over is in flash in order, address and rest account for every byte, the rest
\* follows at the end, and the other slot stays as it is, however a ROM is cut into chunks and
\* whatever an earlier download left (rboot_write_flash, rboot_write_end).
WriterInOrder ==
    part = "writer" =>
        /\ Writer!WrittenInOrder /\ Writer!NothingLost
        /\ Writer!CompleteAtEnd /\ Writer!OthersUntouched

\* The command that runs is the line as it was typed, and never more than one event waits for
\* the task that reads it (uart0_rx_intr_handler, uart_recvTask, shellCircleBuffer,
\* ProcessCommand); behind the buffered driver, what is sent was received in that order, each
\* byte once, although it passes two rings and may be dropped before either (rx_buff_deq,
\* tx_buff_enq).
SerialInOrder ==
    /\ part = "shell" => Shell!CommandAsTyped /\ Shell!OnePost
    /\ part = "uart" => Uart!EchoInOrder

\* Both rings of the buffered driver are queues (Uart_Buf_Cpy, rx_buff_deq,
\* tx_start_uart_buffer).
RingsAreQueues == Uart!RxIsQueue /\ Uart!TxIsQueue

\* The shell gets everything that is typed, and what the buffered driver received is sent; no
\* stage waits for an interrupt that its neighbour has disabled (uart_recvTask,
\* uart0_rx_intr_handler, rx_buff_deq).
SerialDrains ==
    <>[](/\ part = "shell" => fifo = <<>>
         /\ part = "uart" => rxFifo = <<>> /\ rx.Space = RingSize /\ tx.Space = RingSize /\ txFifo = <<>>)
=============================================================================
