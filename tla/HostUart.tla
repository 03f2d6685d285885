------------------------------ MODULE HostUart ------------------------------
(***************************************************************************)
(* The modem's side of the serial line to its host: the byte rings         *)
(* (cfifo.h), uart.c, the handlers of app_hostif.c and what they use of    *)
(* the HAL's interrupt driver (stm32l0xx_hal_uart.c).                      *)
(*                                                                         *)
(* Three parties interleave: the main loop, which polls for the end of a   *)
(* frame and sends messages; the interrupt, which runs whenever one is     *)
(* pending and the main loop then does not; and the line.  The interrupt   *)
(* is one step but for its wait for TC, during which bytes may arrive.     *)
(*                                                                         *)
(* Bytes are numbered, those of the host and those of the modem.           *)
(***************************************************************************)
EXTENDS Integers, Sequences, FiniteSets, SequencesExt

CONSTANTS
    RxSize, TxSize,        \* capacities of the rings (128 and 128)
    LengthMod,             \* a length is an uint8 (256)
    TickMod, Half,         \* so is a time out (256 and 128)
    u8RxInterval,          \* in ticks
    MaxRx, MaxTx           \* bounds: bytes of the host, of the modem

ASSUME HostUartAssumption ==
    /\ RxSize \in 2..LengthMod /\ TxSize \in Nat \ {0, 1}
    /\ LengthMod \in Nat \ {0} /\ Half \in Nat \ {0} /\ TickMod = 2 * Half
    /\ u8RxInterval \in 1..(Half - 1)
    /\ MaxRx \in Nat /\ MaxTx \in Nat

VARIABLES
    huart,                 \* the HAL's handle and the registers of the UART
    rdr, gs_u8SendByte,    \* the byte in RDR, and the one to be sent
    shifter,               \* the byte on the line to the host
    isr,                   \* "waits" for TC, or "none"
    rx, tx,                \* the rings
    bRxMonitorTmo, u8RxTimeout,
    pc, evt, u8Length, au8Buf,   \* uart_Poll() and hostIf_UartEvent__()
    message, bTxRestart,         \* uart_SendBytes()
    seen,                        \* what HAL_UART_Transmit_IT() has read
    now,                         \* the tick
    arrived, sent, wire,         \* history: bytes of the host, of messages, on the line
    handed, lost,                \* ... given to the dispatcher; lost in a way the code knows of
    silence, ended,              \* ... ticks since the last byte; whether they were enough, and
                                 \* not too many, when the end of the frame was looked for last
    frame, torn,                 \* ... the bytes of the ring when its size was read; whether the
                                 \* tail wrapped between the two reads of it
    cut, refused                 \* ... an error of the line came in mid-transmission;
                                 \* reception was not started again, as the handle was locked

receiver == <<bRxMonitorTmo, u8RxTimeout, silence>>
poll     == <<evt, u8Length, au8Buf, handed, ended, frame, torn>>
sender   == <<message, bTxRestart, seen, sent>>
line     == <<shifter, wire>>
vars     == <<huart, rdr, gs_u8SendByte, line, isr, rx, tx, receiver, pc, poll, sender, now,
              arrived, lost, cut, refused>>

Nothing == 0    \* no byte; also what an uninitialised byte holds
Rings(size) == [buf : [0..(size - 1) -> Nat], head : 0..(size - 1), tail : 0..(size - 1)]

States == {"READY", "BUSY_RX", "BUSY_TX", "BUSY_TX_RX"}
Handles == [State : States, Lock : BOOLEAN, TxXferCount : 0..1,
            RXNEIE : BOOLEAN, TXEIE : BOOLEAN, EIE : BOOLEAN,
            RXNE : BOOLEAN, ORE : BOOLEAN, FE : BOOLEAN]

----------------------------------------------------------------------------
(* cfifo.h                                                                *)

\* No place is kept free, as a mutant.
NeverFull(r, size) == FALSE

fifo_isEmpty(r) == r.head = r.tail
fifo_isFull(r, size) == r.head = (r.tail + 1) % size

\* The tail runs over the end, as a mutant.
PushWithoutWrap(r, size, byte) ==
    IF fifo_isFull(r, size) THEN r
    ELSE [r EXCEPT !.buf[r.tail] = byte, !.tail = IF r.tail = size THEN 0 ELSE r.tail + 1]

fifo_BasePush(r, size, byte) ==
    IF fifo_isFull(r, size) THEN r
    ELSE [r EXCEPT !.buf[r.tail] = byte, !.tail = (r.tail + 1) % size]

\* Without the second branch, as a mutant.
SizeWithoutWrap(branch, r, size) == r.tail - r.head

\* The branches of fifo_Size().
Size(branch, r, size) == IF branch = "ahead" THEN r.tail - r.head ELSE size - r.head + r.tail

Dropped(r, size) == [r EXCEPT !.head = (r.head + 1) % size]

\* The bytes in a ring.
Held(r, size) == [i \in 1..((r.tail - r.head) % size) |-> r.buf[(r.head + i - 1) % size]]

EmptyRing(size) == [buf |-> [i \in 0..(size - 1) |-> Nothing], head |-> 0, tail |-> 0]

----------------------------------------------------------------------------
(* stm32l0xx_hal_uart.c, the parts that run in the interrupt              *)

Receiving == {"BUSY_RX", "BUSY_TX_RX"}
Transmitting == {"BUSY_TX", "BUSY_TX_RX"}

\* Not while the other direction is active, as mutants.
ReceivesWhenReady(u) ==
    IF u.State # "READY" \/ u.Lock THEN u
    ELSE [u EXCEPT !.State = "BUSY_RX", !.EIE = TRUE, !.RXNEIE = TRUE]
TransmitsWhenReady(u) ==
    IF u.State # "READY" \/ u.Lock THEN u
    ELSE [u EXCEPT !.State = "BUSY_TX", !.TxXferCount = 1, !.EIE = TRUE, !.TXEIE = TRUE]

HAL_UART_Receive_IT(u) ==
    IF u.State \in Receiving \/ u.Lock THEN u
    ELSE [u EXCEPT !.State = IF u.State = "BUSY_TX" THEN "BUSY_TX_RX" ELSE "BUSY_RX",
                   !.EIE = TRUE, !.RXNEIE = TRUE]

HAL_UART_Transmit_IT(u) ==
    IF u.State \in Transmitting \/ u.Lock THEN u
    ELSE [u EXCEPT !.State = IF u.State = "BUSY_RX" THEN "BUSY_TX_RX" ELSE "BUSY_TX",
                   !.TxXferCount = 1, !.EIE = TRUE, !.TXEIE = TRUE]

Init ==
    /\ huart = HAL_UART_Receive_IT(
                   [State |-> "READY", Lock |-> FALSE, TxXferCount |-> 0, RXNEIE |-> FALSE,
                    TXEIE |-> FALSE, EIE |-> FALSE, RXNE |-> FALSE, ORE |-> FALSE, FE |-> FALSE])
    /\ rdr = Nothing /\ gs_u8SendByte = Nothing /\ shifter = Nothing /\ isr = "none"
    /\ rx = EmptyRing(RxSize) /\ tx = EmptyRing(TxSize)
    /\ bRxMonitorTmo = FALSE /\ u8RxTimeout = 0
    /\ pc = "idle" /\ evt = {} /\ u8Length = 0 /\ au8Buf = <<>>
    /\ message = <<>> /\ bTxRestart = FALSE /\ seen = FALSE
    /\ now = 0
    /\ arrived = 0 /\ sent = 0 /\ wire = <<>> /\ handed = <<>> /\ lost = {}
    /\ silence = 0 /\ ended = FALSE
    /\ frame = <<>> /\ torn = FALSE /\ cut = FALSE /\ refused = FALSE

\* TXE is always set: nothing is written to TDR before TC.
Pending ==
    \/ huart.RXNE /\ huart.RXNEIE
    \/ huart.ORE /\ (huart.EIE \/ huart.RXNEIE)
    \/ huart.FE /\ huart.EIE
    \/ huart.TXEIE

\* FE stands for framing error and noise.  PE is never set: the line has no
\* parity bit (app_hostif.c:807).
Fails(u) == (u.ORE \/ u.FE) /\ u.EIE

\* The flag of noise is not cleared, as a mutant.
HandledButSet(u) ==
    IF Fails(u) THEN HAL_UART_Receive_IT([u EXCEPT !.ORE = FALSE, !.State = "READY"]) ELSE u

\* An error ends whatever goes on, and HAL_UART_ErrorCallback() starts
\* reception again.  Nothing starts the transmission again.
ErrorHandled(u) ==
    IF Fails(u)
    THEN HAL_UART_Receive_IT([u EXCEPT !.ORE = FALSE, !.FE = FALSE, !.State = "READY"])
    ELSE u

Takes(u) == u.RXNE /\ u.RXNEIE /\ u.State \in Receiving

\* UART_Receive_IT(), and HAL_UART_RxCpltCallback() starts reception again.
Received(u) ==
    IF ~ Takes(u) THEN u
    ELSE HAL_UART_Receive_IT(
             IF u.State = "BUSY_TX_RX"
             THEN [u EXCEPT !.RXNE = FALSE, !.RXNEIE = FALSE, !.State = "BUSY_TX"]
             ELSE [u EXCEPT !.RXNE = FALSE, !.RXNEIE = FALSE, !.State = "READY", !.EIE = FALSE])

uart_SetReceiveByte ==
    /\ bRxMonitorTmo' = TRUE
    /\ u8RxTimeout' = (now + u8RxInterval) % TickMod
    /\ rx' = fifo_BasePush(rx, RxSize, rdr)
    /\ lost' = IF fifo_isFull(rx, RxSize) THEN lost \cup {rdr} ELSE lost
    /\ silence' = 0

\* UART_Transmit_IT(): the byte goes out, or its transmission ends, or the
\* state is not one in which it transmits.
Sends(u) == u.TXEIE /\ u.State \in Transmitting /\ u.TxXferCount = 1
Ends(u)  == u.TXEIE /\ u.State \in Transmitting /\ u.TxXferCount = 0

Transmitted(u) ==
    CASE Sends(u) -> [u EXCEPT !.TxXferCount = 0]
      [] Ends(u) -> IF u.State = "BUSY_TX_RX"
                    THEN [u EXCEPT !.TXEIE = FALSE, !.State = "BUSY_RX"]
                    ELSE [u EXCEPT !.TXEIE = FALSE, !.State = "READY", !.EIE = FALSE]
      [] OTHER -> u

HAL_UART_IRQHandler ==
    LET u == ErrorHandled(huart)
        w == Received(u)
    IN  /\ isr = "none" /\ Pending
        /\ huart' = Transmitted(w)
        /\ IF Takes(u) THEN uart_SetReceiveByte ELSE UNCHANGED <<rx, receiver, lost>>
        /\ refused' = (refused \/ ((Fails(huart) \/ Takes(u)) /\ u.Lock))
        /\ cut' = (cut \/ (Fails(huart) /\ huart.State \in Transmitting))
        /\ shifter' = IF Sends(w) THEN gs_u8SendByte ELSE shifter
        /\ isr' = IF Ends(w) THEN "waits" ELSE "none"
        /\ UNCHANGED <<rdr, gs_u8SendByte, wire, tx, pc, poll, sender, now, arrived>>

\* The end of the wait: HAL_UART_TxCpltCallback() sends the next byte.
HAL_UART_TxCpltCallback ==
    /\ isr = "waits" /\ shifter = Nothing
    /\ isr' = "none"
    /\ IF fifo_isEmpty(tx) THEN UNCHANGED <<huart, tx, gs_u8SendByte>>
       ELSE /\ gs_u8SendByte' = tx.buf[tx.head]
            /\ tx' = Dropped(tx, TxSize)
            /\ huart' = HAL_UART_Transmit_IT(huart)
    /\ UNCHANGED <<rdr, line, rx, receiver, pc, poll, sender, now, arrived, lost, cut, refused>>

----------------------------------------------------------------------------
(* The line, and time                                                     *)

\* An interrupt is taken before the next byte is complete, but not while the
\* last one waits.  A byte that is disturbed on the line is received like others.
ByteArrives(disturbed) ==
    /\ arrived < MaxRx
    /\ isr = "waits" \/ ~ Pending
    /\ arrived' = arrived + 1
    /\ IF huart.RXNE
       THEN /\ huart' = [huart EXCEPT !.ORE = TRUE, !.FE = @ \/ disturbed]
            /\ lost' = lost \cup {arrived'} /\ UNCHANGED rdr
       ELSE /\ huart' = [huart EXCEPT !.RXNE = TRUE, !.FE = @ \/ disturbed]
            /\ rdr' = arrived' /\ UNCHANGED lost
    /\ UNCHANGED <<gs_u8SendByte, line, isr, rx, tx, receiver, pc, poll, sender, now, cut, refused>>

ByteLeaves ==
    /\ shifter # Nothing
    /\ wire' = Append(wire, shifter) /\ shifter' = Nothing
    /\ UNCHANGED <<huart, rdr, gs_u8SendByte, isr, rx, tx, receiver, pc, poll, sender, now,
                   arrived, lost, cut, refused>>

Tick ==
    /\ now' = (now + 1) % TickMod
    /\ silence' = IF silence < TickMod THEN silence + 1 ELSE silence
    /\ UNCHANGED <<huart, rdr, gs_u8SendByte, line, isr, rx, tx, bRxMonitorTmo, u8RxTimeout, pc, poll,
                   sender, arrived, lost, cut, refused>>

----------------------------------------------------------------------------
(* The main loop: uart_Poll() and hostIf_UartEvent__()                    *)

Main(from, to) == isr = "none" /\ ~ Pending /\ pc = from /\ pc' = to

InPoll == UNCHANGED <<huart, rdr, gs_u8SendByte, line, isr, tx, u8RxTimeout, silence, sender, now,
                      arrived, cut, refused>>

\* At any time: the polls are 100 ms apart, which is long beside the interval.
PollBegins ==
    /\ Main("idle", "monitor")
    /\ evt' = IF fifo_isFull(rx, RxSize) THEN {"RX_FIFO_FULL"} ELSE {}
    /\ UNCHANGED <<rx, bRxMonitorTmo, u8Length, au8Buf, handed, ended, frame, torn, lost>>
    /\ InPoll

Monitors ==
    /\ Main("monitor", IF bRxMonitorTmo THEN "timeout" ELSE "event")
    /\ bRxMonitorTmo' = FALSE
    /\ UNCHANGED <<rx, poll, lost>>
    /\ InPoll

\* Without the wrap of the tick, as a mutant.
PlainDifference(timeout, tick) == timeout - tick

\* A signed difference of two uint8.
uart_TimeToTimeout__(timeout, tick) ==
    LET difference == IF timeout >= tick THEN timeout - tick ELSE tick - timeout
        i8(v) == IF v >= Half THEN v - TickMod ELSE v
    IN  IF difference < Half
        THEN IF timeout >= tick THEN difference ELSE - difference
        ELSE IF timeout > tick THEN - (TickMod - difference) ELSE i8(TickMod - difference)

ChecksTimeout ==
    /\ Main("timeout", "event")
    /\ evt' = IF 0 >= uart_TimeToTimeout__(u8RxTimeout, now) THEN evt \cup {"RX_TIMEOUT"} ELSE evt
    /\ ended' = (silence \in u8RxInterval..(u8RxInterval + Half))
    /\ UNCHANGED <<rx, bRxMonitorTmo, u8Length, au8Buf, handed, frame, torn, lost>>
    /\ InPoll

\* fifo_Size() compares tail with head, and then reads them again.
LooksForEvents ==
    /\ Main("event", IF evt = {} THEN "idle" ELSE IF rx.tail >= rx.head THEN "ahead" ELSE "around")
    /\ UNCHANGED <<rx, bRxMonitorTmo, poll, lost>>
    /\ InPoll

ReadsLength ==
    \E branch \in {"ahead", "around"} :
        /\ Main(branch, "receive")
        /\ u8Length' = Size(branch, rx, RxSize) % LengthMod
        /\ frame' = Held(rx, RxSize)
        /\ torn' = (branch = "ahead" /\ rx.tail < rx.head)
        /\ UNCHANGED <<rx, bRxMonitorTmo, evt, au8Buf, handed, ended, lost>>
        /\ InPoll

\* uart_ReceiveBytes(): fifo_BasePop() reads the byte and then advances head.
ReadsByte ==
    /\ Main("receive", "advance")
    /\ Len(au8Buf) < u8Length /\ ~ fifo_isEmpty(rx)
    /\ au8Buf' = Append(au8Buf, rx.buf[rx.head])
    /\ UNCHANGED <<rx, bRxMonitorTmo, evt, u8Length, handed, ended, frame, torn, lost>>
    /\ InPoll

AdvancesHead ==
    /\ Main("advance", "receive")
    /\ rx' = Dropped(rx, RxSize)
    /\ UNCHANGED <<bRxMonitorTmo, poll, lost>>
    /\ InPoll

\* The frame goes to the dispatcher with the length that was read, or is
\* thrown away when it has filled the ring before its end.
HandsOver ==
    /\ Main("receive", "idle")
    /\ Len(au8Buf) = u8Length \/ fifo_isEmpty(rx)
    /\ IF "RX_TIMEOUT" \in evt
       THEN handed' = handed \o au8Buf /\ UNCHANGED lost
       ELSE lost' = lost \cup ToSet(au8Buf) /\ UNCHANGED handed
    /\ evt' = {} /\ u8Length' = 0 /\ au8Buf' = <<>> /\ frame' = <<>> /\ torn' = FALSE
    /\ UNCHANGED <<rx, bRxMonitorTmo, ended>>
    /\ InPoll

----------------------------------------------------------------------------
(* The main loop: hostIf_SendToHost() and uart_SendBytes()                *)

InSend == UNCHANGED <<rdr, line, isr, rx, receiver, poll, now, arrived, lost, cut, refused>>

\* hostIf_SendToHost() sends less than HOSTIF_UART_TX_MSG_MAXLEN bytes.
uart_SendBytes(n) ==
    /\ Main("idle", "push")
    /\ sent + n <= MaxTx
    /\ message' = [i \in 1..n |-> sent + i] /\ sent' = sent + n
    /\ bTxRestart' = fifo_isEmpty(tx)
    /\ UNCHANGED <<huart, gs_u8SendByte, tx, seen>>
    /\ InSend

PushesByte ==
    /\ message # <<>>
    /\ Main("push", "push")
    /\ tx' = fifo_BasePush(tx, TxSize, Head(message))
    /\ message' = Tail(message)
    /\ UNCHANGED <<huart, gs_u8SendByte, bTxRestart, seen, sent>>
    /\ InSend

\* uart_GetSendByte(), whose result is not looked at, and
\* hostIf_SendByteWithIt__().
Restarts ==
    /\ message = <<>>
    /\ Main("push", IF bTxRestart THEN "lock" ELSE "idle")
    /\ IF bTxRestart
       THEN /\ gs_u8SendByte' = IF fifo_isEmpty(tx) THEN Nothing ELSE tx.buf[tx.head]
            /\ tx' = IF fifo_isEmpty(tx) THEN tx ELSE Dropped(tx, TxSize)
       ELSE UNCHANGED <<gs_u8SendByte, tx>>
    /\ UNCHANGED <<huart, sender>>
    /\ InSend

\* HAL_UART_Transmit_IT() in the main loop, where interrupts come between any
\* two of its steps.
InTransmit == UNCHANGED <<gs_u8SendByte, tx, message, bTxRestart, sent>> /\ InSend

Locks ==
    /\ Main("lock", IF huart.State \in Transmitting THEN "idle" ELSE "state")
    /\ huart' = IF huart.State \in Transmitting THEN huart ELSE [huart EXCEPT !.Lock = TRUE]
    /\ UNCHANGED seen
    /\ InTransmit

ReadsState ==
    /\ Main("state", "assign")
    /\ seen' = (huart.State = "BUSY_RX")
    /\ huart' = [huart EXCEPT !.TxXferCount = 1]
    /\ InTransmit

AssignsState ==
    /\ Main("assign", "read_cr1")
    /\ huart' = [huart EXCEPT !.State = IF seen THEN "BUSY_TX_RX" ELSE "BUSY_TX"]
    /\ UNCHANGED seen
    /\ InTransmit

\* PEIE is set in a register that holds RXNEIE too.
ReadsCR1 ==
    /\ Main("read_cr1", "write_cr1")
    /\ seen' = huart.RXNEIE
    /\ UNCHANGED huart
    /\ InTransmit

WritesCR1 ==
    /\ Main("write_cr1", "unlock")
    /\ huart' = [huart EXCEPT !.RXNEIE = seen]
    /\ UNCHANGED seen
    /\ InTransmit

Unlocks ==
    /\ Main("unlock", "txe")
    /\ huart' = [huart EXCEPT !.EIE = TRUE, !.Lock = FALSE]
    /\ UNCHANGED seen
    /\ InTransmit

EnablesTXE ==
    /\ Main("txe", "idle")
    /\ huart' = [huart EXCEPT !.TXEIE = TRUE]
    /\ seen' = FALSE
    /\ InTransmit

----------------------------------------------------------------------------
Transmits == Locks \/ ReadsState \/ AssignsState \/ ReadsCR1 \/ WritesCR1 \/ Unlocks \/ EnablesTXE

Polls == PollBegins \/ Monitors \/ ChecksTimeout \/ LooksForEvents \/ ReadsLength
         \/ ReadsByte \/ AdvancesHead \/ HandsOver

Loop == Polls \/ PushesByte \/ Restarts \/ Transmits

Interrupt == HAL_UART_IRQHandler \/ HAL_UART_TxCpltCallback

Next ==
    \/ Interrupt
    \/ \E disturbed \in BOOLEAN : ByteArrives(disturbed)
    \/ ByteLeaves \/ Tick
    \/ Loop
    \/ \E n \in 1..(TxSize - 1) : uart_SendBytes(n)

Spec == Init /\ [][Next]_vars

\* The processor goes on, in the interrupt and in the main loop, the line
\* carries its byte, and time passes.  The host need not send anything.
FairSpec ==
    /\ Spec
    /\ WF_vars(Interrupt) /\ WF_vars(Loop) /\ WF_vars(ByteLeaves) /\ WF_vars(Tick)

----------------------------------------------------------------------------
Steps == {"idle", "monitor", "timeout", "event", "ahead", "around", "receive", "advance",
          "push", "lock", "state", "assign", "read_cr1", "write_cr1", "unlock", "txe"}

TypeOK ==
    /\ huart \in Handles
    /\ rdr \in 0..MaxRx /\ gs_u8SendByte \in 0..MaxTx /\ shifter \in 0..MaxTx
    /\ isr \in {"none", "waits"}
    /\ rx \in Rings(RxSize) /\ tx \in Rings(TxSize)
    /\ bRxMonitorTmo \in BOOLEAN /\ u8RxTimeout \in 0..(TickMod - 1)
    /\ pc \in Steps /\ evt \subseteq {"RX_FIFO_FULL", "RX_TIMEOUT"}
    /\ u8Length \in 0..(LengthMod - 1) /\ au8Buf \in Seq(1..MaxRx)
    /\ message \in Seq(1..MaxTx) /\ bTxRestart \in BOOLEAN /\ seen \in BOOLEAN
    /\ now \in 0..(TickMod - 1)
    /\ arrived \in 0..MaxRx /\ sent \in 0..MaxTx
    /\ wire \in Seq(0..MaxTx) /\ handed \in Seq(1..MaxRx) /\ lost \subseteq 1..MaxRx
    /\ silence \in 0..TickMod
    /\ frame \in Seq(1..MaxRx)
    /\ {ended, torn, cut, refused} \subseteq BOOLEAN

Idle == pc = "idle" /\ isr = "none" /\ ~ Pending

\* The ring as the main loop has left it: at "advance" its first byte is read.
Ring == Held(IF pc = "advance" THEN Dropped(rx, RxSize) ELSE rx, RxSize)

\* The bytes that wait for the main loop, in their order: those that it has
\* read, those of the ring and the one in the register.
Waiting == au8Buf \o Ring \o (IF huart.RXNE THEN <<rdr>> ELSE <<>>)

\* No byte of the host vanishes, is read twice or overtakes another while the
\* interrupt fills the ring that the main loop empties: it was handed over,
\* waits, or was lost to a full ring or to an overrun (cfifo.h:52-73).
BytesAccountedFor ==
    LET bytes == handed \o Waiting
    IN  /\ ToSet(bytes) \cup lost = 1..arrived
        /\ ToSet(bytes) \cap lost = {}
        /\ \A i \in 1..(Len(bytes) - 1) : bytes[i] < bytes[i + 1]

\* When the main loop is at rest again the bytes of all messages have gone out,
\* once and in order: no message finds the transmitter busy with the last one
\* (uart.c:314).
MessagesComplete == Idle => wire = [i \in 1..sent |-> i]

\* Reception is started whenever the main loop runs, through transmissions and
\* errors of the line, unless a byte came while the loop held the lock of the
\* handle (stm32l0xx_hal_uart.c:835).
Listens == ~ refused => huart.RXNEIE /\ huart.State \in Receiving

\* The length that is read for a frame is the number of bytes that are in the
\* ring then, and these are the ones that follow, whatever the interrupt adds
\* meanwhile.  When the tail wraps between its two reads the length is too large,
\* by LengthMod - RxSize, and never too small (cfifo.h:78).
LengthIsBytes ==
    pc \in {"receive", "advance"} =>
        /\ u8Length = Len(frame) + (IF torn THEN LengthMod - RxSize ELSE 0)
        /\ IsPrefix(frame, au8Buf \o Ring)

\* When a poll has looked for the end of a frame within reach of the tick's
\* eight bits, no byte of the frame stays behind unwatched (uart.c:162-167).
EndIsSeen == pc = "idle" /\ ~ bRxMonitorTmo /\ ended => fifo_isEmpty(rx)

\* Interrupts keep the processor for themselves only after an error of the line
\* in mid-transmission, which leaves TXE enabled for good, or when reception was
\* not started again.  Errors at all other times are got over, those of a byte
\* that overran while the interrupt waited too (stm32l0xx_hal_uart.c:1117-1161).
MainLoopGoesOn == []<>(Idle \/ cut \/ refused)

\* What the host has sent is handed over when the line stays silent: "when rx
\* stop time is bigger than it, we think a fram end" (uart.h:80).
FrameHandedOver == (~ fifo_isEmpty(rx)) ~> fifo_isEmpty(rx)
=============================================================================
