---------------------------- MODULE UartPrograms ----------------------------
(***************************************************************************)
(* Programs on the serial port, with Uart and Plic on one clock:           *)
(*   "tx"    board_tests/03_uart_tx_irq/main.c sends a string, a character *)
(*           for each interrupt,                                           *)
(*   "rx"    board_tests/04_uart_rx_irq/main.c echoes what arrives,        *)
(*   "poll"  CoreMark's uart_puts (core_portme.c) sends a string and       *)
(*           watches the status register.                                  *)
(*                                                                         *)
(* In a cycle the program makes a bus access or another step, or is        *)
(* stalled.  A bit lasts 1520 cycles, far more than any path of these      *)
(* programs between two places where they wait: on such a path at most one *)
(* bit ends on each side.                                                   *)
(***************************************************************************)
EXTENDS Integers, Sequences, FiniteSets, SequencesExt

CONSTANTS
  Messages,    (* for each program the strings it may send or be sent      *)
  FIFO_DEPTH, BITS, Chars,
  NumIrqs, MaxPrio, OtherData

VARIABLES
  priority_regs, pending_regs, enable_regs, threshold_reg, in_service_regs,
  claim_id_r, claim_valid_r, plic_irq, plic_rdata,
  uart_ctrl, tx, rx, flags, overflow_error, uart_rdata,
  line,       (* the character on the line to the receiver, or 0           *)
  arriving,   (* what the other side has still to send                     *)
  program, message,
  pc, ret,    (* the next step, and where the handler returns to           *)
  ch,         (* the character to be sent next                             *)
  idx,        (* how many the program takes to be sent: g_tx_idx           *)
  done,       (* g_tx_done                                                  *)
  ticked,     (* whose bit has ended since the program last waited         *)
  written, sent, arrived, taken  (* ghosts: the characters that the        *)
              (* transmitter took in and has sent, that have reached the   *)
              (* receiver, and that the program got from it                *)

P == INSTANCE Plic
U == INSTANCE Uart

plicVars == <<priority_regs, pending_regs, enable_regs, threshold_reg,
              in_service_regs, claim_id_r, claim_valid_r, plic_irq, plic_rdata>>
uartVars == <<uart_ctrl, tx, rx, flags, overflow_error, uart_rdata>>
progVars == <<program, message, ret, ch, idx, done>>
vars == <<plicVars, uartVars, line, arriving, progVars, pc, ticked, written,
          sent, arrived, taken>>

CR == 13
NL == 10

ASSUME UartAssumption == U!Parameters
ASSUME CharsAssumption == {CR, NL} \subseteq Chars
(* Every text is that of a C string.  The interrupt driven one has more    *)
(* than one character (main.c:10): a request made before main has sent the *)
(* first would otherwise set g_tx_done while that one is on the line.      *)
ASSUME MessagesAssumption ==
  /\ DOMAIN Messages = {"tx", "rx", "poll"}
  /\ \A p \in DOMAIN Messages : \A m \in Messages[p] :
       m # <<>> /\ m \in Seq(Chars \ {0, CR})
  /\ \A m \in Messages["tx"] : Len(m) > 1

UART_RX_INT_ID == 2
UART_TX_INT_ID == 3

(* The controller has these sources, and a priority above the threshold 0. *)
ASSUME PlicAssumption ==
  NumIrqs \in Nat /\ UART_TX_INT_ID < NumIrqs /\ MaxPrio \in Nat \ {0}

Lines(shown) ==
  {i \in {UART_RX_INT_ID, UART_TX_INT_ID} :
     IF i = UART_RX_INT_ID THEN shown.rx_int ELSE shown.tx_int}
peripheral_interrupts == Lines(flags)

-----------------------------------------------------------------------------
(* A cycle, with the program's accesses to the two.                        *)
Goto(from, to) == pc = from /\ pc' = to

(* The program waits: in its last loop while no interrupt is on its way,   *)
(* or for the transmitter's buffer.                                         *)
Called ==
  \/ (Lines(U!Status) \cup Lines(flags)) \ in_service_regs # {}
  \/ pending_regs # {} \/ plic_irq
Waiting == (pc' = pc /\ ~ Called) \/ (pc = "check" /\ pc' = "poll")

(* A frame from outside begins when the last one is over, and none before  *)
(* the port is on.                                                          *)
Line(falling) ==
  /\ falling => rx.state = "IDLE" /\ uart_ctrl.uart_en
  /\ arriving' = IF falling THEN Tail(arriving) ELSE arriving
  /\ line' = IF falling THEN Head(arriving) ELSE line

Cycle(uartBus, plicBus) ==
  \E bits \in SUBSET {"tx", "rx"} :
    \E falling \in {f \in BOOLEAN : f => arriving # <<>>} :
      /\ bits \cap ticked = {}
      /\ "rx" \in bits => rx.state # "IDLE"
      /\ "tx" \in bits => tx.state # "IDLE" \/ tx.count # 0
      /\ ticked' = IF Waiting THEN {} ELSE ticked \cup bits
      /\ P!Clock(peripheral_interrupts, plicBus)
      /\ U!Clock(uartBus, "tx" \in bits, "rx" \in bits, falling, line)
      /\ Line(falling)
      /\ written' = IF U!tx_push(uartBus) THEN Append(written, uartBus.char)
                                          ELSE written
      /\ sent' = IF U!FrameSent("tx" \in bits) THEN Append(sent, tx.shift)
                                               ELSE sent
      /\ arrived' = IF U!rx_push("rx" \in bits) THEN Append(arrived, rx.shift)
                                                ELSE arrived
      /\ taken' = IF uartBus.op = "read_data" THEN Append(taken, uart_rdata')
                                              ELSE taken

Uart(bus) == Cycle(bus, P!Idle)
Plic(bus) == Cycle(U!Idle, bus)
NoAccess == Cycle(U!Idle, P!Idle)

-----------------------------------------------------------------------------
(* What main does before it sends.                                         *)
On(tx_int, rx_int) == U!WriteCtrl(U!Control(TRUE, tx_int, rx_int))
Id == IF program = "tx" THEN UART_TX_INT_ID ELSE UART_RX_INT_ID

EnableUart ==
  Goto("reset", IF program = "poll" THEN "char" ELSE "int_en")
  /\ Uart(On(FALSE, FALSE)) /\ UNCHANGED progVars
EnableUartInt ==
  Goto("int_en", "priority")
  /\ Uart(On(program = "tx", program = "rx")) /\ UNCHANGED progVars
SetPriority ==
  Goto("priority", "enable") /\ Plic(P!WritePriority(Id, 1)) /\ UNCHANGED progVars
EnableSource ==
  Goto("enable", "threshold") /\ Plic(P!WriteEnable({Id})) /\ UNCHANGED progVars
SetThreshold ==
  Goto("threshold", "csr") /\ Plic(P!WriteThreshold(0)) /\ UNCHANGED progVars
EnableInterrupts ==
  Goto("csr", IF program = "tx" THEN "first" ELSE "wfi")
  /\ NoAccess /\ UNCHANGED progVars

(* 03: the first character, and the handler's count of it.                 *)
SendFirst ==
  Goto("first", "index") /\ Uart(U!WriteData(message[1])) /\ UNCHANGED progVars
SetIndex ==
  /\ Goto("index", "wfi") /\ NoAccess
  /\ idx' = 1 /\ UNCHANGED <<program, message, ret, ch, done>>

(* main waits for g_tx_done in 03, for ever in 04.                         *)
LeaveLoop == Goto("wfi", "end") /\ done /\ NoAccess /\ UNCHANGED progVars

-----------------------------------------------------------------------------
(* trap_handler()                                                           *)
TakeInterrupt ==
  /\ pc \in {"first", "index", "wfi", "end"} /\ program # "poll" /\ plic_irq
  /\ pc' = "claim" /\ ret' = pc
  /\ NoAccess /\ UNCHANGED <<program, message, ch, idx, done>>
Claim == Goto("claim", "dispatch") /\ Plic(P!ReadClaim) /\ UNCHANGED progVars
Dispatch ==
  /\ Goto("dispatch", IF plic_rdata # Id THEN "complete"
                      ELSE IF program = "rx" THEN "read"
                      ELSE IF idx < Len(message) THEN "poll" ELSE "last")
  /\ NoAccess
  /\ ch' = IF program = "tx" /\ idx < Len(message) THEN message[idx + 1] ELSE ch
  /\ UNCHANGED <<program, message, ret, idx, done>>

(* 03 at the end of its string; 04 with a character.                       *)
AllSent ==
  /\ Goto("last", "complete") /\ Uart(On(FALSE, FALSE))
  /\ done' = TRUE /\ UNCHANGED <<program, message, ret, ch, idx>>
ReadChar == Goto("read", "got") /\ Uart(U!ReadData) /\ UNCHANGED progVars
GotChar ==
  /\ Goto("got", "poll") /\ NoAccess
  /\ ch' = uart_rdata /\ UNCHANGED <<program, message, ret, idx, done>>

MutComplete == Goto("complete", "mret") /\ NoAccess /\ UNCHANGED progVars
Complete ==
  Goto("complete", "mret") /\ Plic(P!WriteClaim(plic_rdata)) /\ UNCHANGED progVars
Return == pc = "mret" /\ pc' = ret /\ NoAccess /\ UNCHANGED progVars

-----------------------------------------------------------------------------
(* Sending ch, in all three: wait while the buffer is full, then write.    *)
PollStatus == Goto("poll", "check") /\ Uart(U!ReadStatus) /\ UNCHANGED progVars
tx_full == (uart_rdata \div 4) % 2 = 1
MutCheckStatus == Goto("check", "write") /\ NoAccess /\ UNCHANGED progVars
CheckStatus ==
  Goto("check", IF tx_full THEN "poll" ELSE "write")
  /\ NoAccess /\ UNCHANGED progVars
MutWriteChar ==
  /\ Goto("write", IF program = "poll" THEN "char" ELSE "complete")
  /\ Uart(U!WriteData(ch))
  /\ UNCHANGED progVars
WriteChar ==
  /\ Goto("write", IF program = "poll" THEN "char" ELSE "complete")
  /\ Uart(U!WriteData(ch))
  /\ idx' = IF program = "tx" THEN idx + 1 ELSE idx
  /\ UNCHANGED <<program, message, ret, ch, done>>

(* uart_puts and uart_putc: the next character, a carriage return before   *)
(* each newline.  An instruction, the loop's jump, is always between the   *)
(* write of a character and the next look at the status register.          *)
NextChar ==
  /\ Goto("char", IF idx = Len(message) THEN "end" ELSE "poll") /\ NoAccess
  /\ IF idx = Len(message) THEN UNCHANGED <<ch, idx>>
     ELSE IF message[idx + 1] = NL /\ ch # CR THEN ch' = CR /\ UNCHANGED idx
     ELSE ch' = message[idx + 1] /\ idx' = idx + 1
  /\ UNCHANGED <<program, message, ret, done>>

-----------------------------------------------------------------------------
Program ==
  \/ EnableUart \/ EnableUartInt \/ SetPriority \/ EnableSource
  \/ SetThreshold \/ EnableInterrupts \/ SendFirst \/ SetIndex \/ LeaveLoop
  \/ TakeInterrupt \/ Claim \/ Dispatch \/ AllSent \/ ReadChar \/ GotChar
  \/ Complete \/ Return \/ PollStatus \/ CheckStatus \/ WriteChar \/ NextChar

(* The program waits for an interrupt, or is at its end.                   *)
Stall ==
  pc \in {"wfi", "end"} /\ UNCHANGED pc /\ NoAccess /\ UNCHANGED progVars

Init ==
  /\ P!Init /\ U!Init
  /\ program \in DOMAIN Messages /\ message \in Messages[program]
  /\ arriving = IF program = "rx" THEN message ELSE <<>>
  /\ line = 0
  /\ pc = "reset" /\ ret = "wfi" /\ ch = 0 /\ idx = 0 /\ done = FALSE
  /\ ticked = {}
  /\ written = <<>> /\ sent = <<>> /\ arrived = <<>> /\ taken = <<>>

Next == Program \/ Stall

(* The clock runs on, the program is not stalled for ever, bits end, and   *)
(* the other side sends all that it has.                                   *)
TxBit == Next /\ tx' # tx
RxBit == Next /\ rx' # rx
Spec ==
  /\ Init /\ [][Next]_vars
  /\ WF_vars(Next) /\ WF_vars(Program) /\ WF_vars(TxBit) /\ WF_vars(RxBit)

-----------------------------------------------------------------------------
(* Properties.                                                              *)

(* Types; the ring's count and pointers agree (U!TypeOK, UART.sv:295-310), *)
(* and the handler never counts past the end of its string (03 main.c:33). *)
TypeOK ==
  /\ P!TypeOK /\ U!TypeOK
  /\ line \in Chars /\ ch \in Chars /\ idx \in 0 .. Len(message)
  /\ ticked \subseteq {"tx", "rx"} /\ done \in BOOLEAN

(* What the transmitter took in is on the line, in its frame or in its     *)
(* buffer, in that order; and as long as no overflow is flagged what has   *)
(* arrived has been read or is in the receiver's buffer: no character is   *)
(* lost or doubled without a sign, none is read that was not there.        *)
InFrame == IF tx.state = "IDLE" THEN <<>> ELSE <<tx.shift>>
Conserved ==
  /\ written = sent \o InFrame \o U!Buffered(tx)
  /\ ~ overflow_error => arrived = taken \o U!Buffered(rx)

(* The status register is a cycle late, and is read some cycles before     *)
(* what it allows is done: still no program writes into a full buffer.     *)
WriteFits == pc = "write" => tx.count < FIFO_DEPTH

(* CoreMark's text comes out whole, each newline with its carriage return. *)
(* The first i characters are Shown(text, i) on the line; a place there    *)
(* belongs to the first i that reaches it, whose last is the character.    *)
Shown(text, i) == i + Cardinality({j \in 1 .. i : text[j] = NL})
Origin(text, n) ==
  CHOOSE i \in 1 .. Len(text) : Shown(text, i - 1) < n /\ n <= Shown(text, i)
Expand(text) ==
  [n \in 1 .. Shown(text, Len(text)) |->
     IF n = Shown(text, Origin(text, n)) THEN text[Origin(text, n)] ELSE CR]
Printed ==
  program = "poll" =>
    /\ IsPrefix(written, Expand(message))
    /\ pc = "end" => written = Expand(message)

(* The handler echoes each character once and in order, whatever the flags *)
(* and the controller show of characters already read.                     *)
Echoed ==
  program = "rx" =>
    IsPrefix(written, taken) /\ Len(taken) <= Len(written) + 1

(* A burst of up to two buffers and the handler's own character arrives    *)
(* whole, however slow the transmitter is, and it is what comes back.       *)
BurstFits ==
  program = "rx" /\ Len(message) <= 2 * FIFO_DEPTH + 1 =>
    ~ overflow_error /\ IsPrefix(sent, message)

(* The interrupt driven string comes out whole, apart from a repeated      *)
(* first character, and g_tx_done says that it is all on the line.         *)
Transmitted ==
  program = "tx" =>
    /\ \/ IsPrefix(written, message)
       \/ IsPrefix(written, <<message[1]>> \o message)
    /\ done => IsSuffix(message, sent) /\ sent = written

(* All three get their text onto the line: no program waits for an         *)
(* interrupt or a flag that does not come.                                  *)
Finishes ==
  /\ program = "poll" ~> sent = Expand(message)
  /\ program = "tx" ~> pc = "end"
  /\ program = "rx" ~> overflow_error \/ sent = message
=============================================================================
