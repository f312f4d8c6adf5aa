-------------------------------- MODULE Uart --------------------------------
(***************************************************************************)
(* The serial port, rtl/my_cpu/UART.sv.  One step is one rising clock edge *)
(* with at most one bus access, perhaps the end of a bit time of the       *)
(* transmitter or of the receiver, and perhaps a falling edge of the line. *)
(*                                                                         *)
(* Characters are not split into bits: a frame carries one, and takes as   *)
(* many bit times as it does in the code.  The baud counters are the       *)
(* nondeterminism of the ticks.                                             *)
(***************************************************************************)
EXTENDS Naturals, Sequences

CONSTANTS
  FIFO_DEPTH,  (* 8 in the code                                             *)
  BITS,        (* data bits of a frame, 8 in the code                       *)
  Chars        (* the characters, 0 among them                              *)

(* What is required of them.                                                *)
Parameters ==
  /\ FIFO_DEPTH \in Nat \ {0} /\ BITS \in Nat \ {0}
  /\ Chars \subseteq 0 .. 255 /\ 0 \in Chars

VARIABLES
  uart_ctrl,   (* uart_en, tx_int_en, rx_int_en                             *)
  tx, rx,      (* the two halves: buffer, head, tail, count, state,         *)
               (* bit_idx, shift                                            *)
  flags,       (* tx_empty, rx_ready, tx_full, rx_full, tx_int, rx_int      *)
  overflow_error,
  uart_rdata

vars == <<uart_ctrl, tx, rx, flags, overflow_error, uart_rdata>>

States == {"IDLE", "START", "DATA", "STOP"}
Controls == [uart_en : BOOLEAN, tx_int_en : BOOLEAN, rx_int_en : BOOLEAN]
Control(en, tx_int, rx_int) ==
  [uart_en |-> en, tx_int_en |-> tx_int, rx_int_en |-> rx_int]

(* A bus access, with the character or the control word it writes.         *)
Access(op, char, ctrl) == [op |-> op, char |-> char, ctrl |-> ctrl]
Off == Control(FALSE, FALSE, FALSE)
Idle == Access("none", 0, Off)
ReadData == Access("read_data", 0, Off)
ReadStatus == Access("read_status", 0, Off)
ClearOverflow == Access("clear_overflow", 0, Off)
WriteData(char) == Access("write_data", char, Off)
WriteCtrl(ctrl) == Access("write_ctrl", 0, ctrl)
SoftReset(ctrl) == Access("soft_reset", 0, ctrl)

-----------------------------------------------------------------------------
(* The ring buffers.                                                        *)
Empty == [buffer |-> [i \in 0 .. FIFO_DEPTH - 1 |-> 0], head |-> 0, tail |-> 0,
          count |-> 0, state |-> "IDLE", bit_idx |-> 0, shift |-> 0]
Reset(half) == [Empty EXCEPT !.buffer = half.buffer]
Incr(pointer) == (pointer + 1) % FIFO_DEPTH

MutRing(half, push, pop, char) ==
  [half EXCEPT !.buffer = IF push THEN [@ EXCEPT ![half.tail] = char] ELSE @,
               !.tail = IF push THEN Incr(@) ELSE @,
               !.head = IF pop THEN Incr(@) ELSE @,
               !.count = IF push THEN @ + 1 ELSE IF pop THEN @ - 1 ELSE @]
Ring(half, push, pop, char) ==
  [half EXCEPT !.buffer = IF push THEN [@ EXCEPT ![half.tail] = char] ELSE @,
               !.tail = IF push THEN Incr(@) ELSE @,
               !.head = IF pop THEN Incr(@) ELSE @,
               !.count = IF push /\ ~ pop THEN @ + 1
                         ELSE IF pop /\ ~ push THEN @ - 1 ELSE @]

(* The bits of a frame, counted in both halves alike: one bit time each    *)
(* for the start bit, the data bits and the stop bit.                      *)
NextBit(half, last) ==
  CASE half.state = "START" -> [half EXCEPT !.state = "DATA", !.bit_idx = 0]
    [] half.state = "DATA" /\ half.bit_idx = BITS - 1 ->
         [last EXCEPT !.state = "STOP"]
    [] half.state = "DATA" /\ half.bit_idx # BITS - 1 ->
         [half EXCEPT !.bit_idx = @ + 1]
    [] half.state = "STOP" -> [half EXCEPT !.state = "IDLE"]
    [] half.state = "IDLE" -> half

tx_push(bus) ==
  uart_ctrl.uart_en /\ bus.op = "write_data" /\ tx.count < FIFO_DEPTH
tx_pop(tick) ==
  uart_ctrl.uart_en /\ tick /\ tx.state = "IDLE" /\ tx.count # 0
rx_pop(bus) == uart_ctrl.uart_en /\ bus.op = "read_data" /\ rx.count # 0
rx_push(tick) == uart_ctrl.uart_en /\ tick /\ rx.state = "STOP"
MutKept(tick) == rx_push(tick)
Kept(tick) == rx_push(tick) /\ rx.count < FIFO_DEPTH
FrameSent(tick) == uart_ctrl.uart_en /\ tick /\ tx.state = "STOP"

(* The transmitter.  A character leaves the buffer at a tick of its own,   *)
(* so that frames back to back are one bit time apart.                     *)
Transmit(bus, tick) ==
  LET ring == Ring(tx, tx_push(bus), tx_pop(tick), bus.char)
  IN  IF tx_pop(tick)
        THEN [ring EXCEPT !.state = "START", !.bit_idx = 0,
                          !.shift = tx.buffer[tx.head]]
      ELSE IF tick /\ uart_ctrl.uart_en THEN NextBit(ring, ring) ELSE ring

(* The receiver, which the falling edge of a start bit wakes; line is the  *)
(* character being sent, or 0 for a pulse that is no start bit.            *)
Receive(bus, tick, falling, line) ==
  LET ring == Ring(rx, Kept(tick), rx_pop(bus), rx.shift)
  IN  IF rx.state = "IDLE"
        THEN IF falling /\ uart_ctrl.uart_en
               THEN [ring EXCEPT !.state = "START"] ELSE ring
      ELSE IF ~ (tick /\ uart_ctrl.uart_en) THEN ring
      ELSE IF rx.state = "START" /\ line = 0 THEN [ring EXCEPT !.state = "IDLE"]
      ELSE NextBit(ring, [ring EXCEPT !.shift = line])

Bit(b) == IF b THEN 1 ELSE 0
uart_status ==
  Bit(flags.tx_empty) + 2 * Bit(flags.rx_ready) + 4 * Bit(flags.tx_full)
  + 8 * Bit(flags.rx_full) + 32 * Bit(overflow_error)
  + 64 * Bit(flags.tx_int) + 128 * Bit(flags.rx_int)

(* What the flags become: they show the cycle before.                      *)
MutStatus ==
  LET idle == tx.state = "IDLE"
  IN  [tx_empty |-> tx.count = 0 /\ idle, rx_ready |-> rx.count # 0,
       tx_full |-> tx.count > FIFO_DEPTH, rx_full |-> rx.count = FIFO_DEPTH,
       tx_int |-> uart_ctrl.tx_int_en /\ tx.count = 0 /\ idle,
       rx_int |-> uart_ctrl.rx_int_en /\ rx.count # 0]
Status ==
  LET idle == tx.state = "IDLE"
  IN  [tx_empty |-> tx.count = 0 /\ idle, rx_ready |-> rx.count # 0,
       tx_full |-> tx.count = FIFO_DEPTH, rx_full |-> rx.count = FIFO_DEPTH,
       tx_int |-> uart_ctrl.tx_int_en /\ tx.count = 0 /\ idle,
       rx_int |-> uart_ctrl.rx_int_en /\ rx.count # 0]

Clock(bus, tx_tick, rx_tick, falling, line) ==
  /\ flags' = Status
  /\ uart_ctrl' =
       IF bus.op \in {"write_ctrl", "soft_reset"} THEN bus.ctrl ELSE uart_ctrl
  /\ IF bus.op = "soft_reset"
       THEN /\ tx' = Reset(tx) /\ rx' = Reset(rx)
            /\ overflow_error' = FALSE /\ uart_rdata' = 0
       ELSE /\ tx' = Transmit(bus, tx_tick)
            /\ rx' = Receive(bus, rx_tick, falling, line)
            /\ overflow_error' =
                 \/ overflow_error /\ bus.op # "clear_overflow"
                 \/ bus.op = "write_data" /\ uart_ctrl.uart_en /\ ~ tx_push(bus)
                 \/ rx_push(rx_tick) /\ ~ Kept(rx_tick)
            /\ uart_rdata' =
                 CASE bus.op = "read_data" ->
                        IF rx.count # 0 THEN rx.buffer[rx.head] ELSE 0
                   [] bus.op = "read_status" -> uart_status
                   [] OTHER -> uart_rdata

Init ==
  /\ uart_ctrl = Off
  /\ tx = Empty /\ rx = Empty
  /\ flags = [tx_empty |-> TRUE, rx_ready |-> FALSE, tx_full |-> FALSE,
              rx_full |-> FALSE, tx_int |-> FALSE, rx_int |-> FALSE]
  /\ overflow_error = FALSE
  /\ uart_rdata = 0

Accesses ==
  {Idle, ReadData, ReadStatus, ClearOverflow}
  \cup {WriteData(c) : c \in Chars}
  \cup {WriteCtrl(ctrl) : ctrl \in Controls}
  \cup {SoftReset(ctrl) : ctrl \in Controls}

Next ==
  \E bus \in Accesses, tx_tick, rx_tick, falling \in BOOLEAN, line \in Chars :
    Clock(bus, tx_tick, rx_tick, falling, line)

Spec == Init /\ [][Next]_vars

-----------------------------------------------------------------------------
(* Properties.                                                              *)

(* Types, and the ring buffers' arithmetic: the two pointers and the count *)
(* agree, also when a character enters and another leaves in one cycle.    *)
Halves ==
  [buffer : [0 .. FIFO_DEPTH - 1 -> Chars], head : 0 .. FIFO_DEPTH - 1,
   tail : 0 .. FIFO_DEPTH - 1, count : 0 .. FIFO_DEPTH, state : States,
   bit_idx : 0 .. BITS - 1, shift : Chars]
HalfOK(half) ==
  half \in Halves /\ half.tail = (half.head + half.count) % FIFO_DEPTH
Flags == [tx_empty : BOOLEAN, rx_ready : BOOLEAN, tx_full : BOOLEAN,
          rx_full : BOOLEAN, tx_int : BOOLEAN, rx_int : BOOLEAN]
TypeOK ==
  /\ uart_ctrl \in Controls
  /\ HalfOK(tx) /\ HalfOK(rx) /\ flags \in Flags
  /\ overflow_error \in BOOLEAN /\ uart_rdata \in 0 .. 255

(* The characters in a ring buffer, oldest first.                          *)
Buffered(half) ==
  [i \in 1 .. half.count |-> half.buffer[(half.head + i - 1) % FIFO_DEPTH]]
=============================================================================
