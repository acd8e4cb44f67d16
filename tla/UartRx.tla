------------------------------- MODULE UartRx -------------------------------
(***************************************************************************)
(* The receiver of the serial port, system_0_uart_0.v, clock by clock,     *)
(* with a sender of its own clock at the other end of the line and the     *)
(* program at the bus.  An edge on the line comes up to Drift clocks       *)
(* before or after its time, counted from the start bit: this stands for   *)
(* the difference of the two clocks and for the synchroniser's choice.     *)
(***************************************************************************)
EXTENDS Naturals, Sequences

CONSTANTS
  DataBits,   \* bits of a character: 8
  Divisor,    \* baud_divisor: 5208
  Drift,      \* how far an edge may be off its time
  MaxLine     \* bound: characters begun and not received

Bit == {0, 1}
Char == [1 .. DataBits -> Bit]
NoChar == <<>>
Slots == DataBits + 2             \* start bit, data, stop bit
BitTime == Divisor + 1
Ones == [i \in 1 .. Slots |-> 1]

VARIABLES
  \* The sender.
  rxd,                 \* the line
  frame,               \* the frame it sends, or <<>>
  slot, clocks,        \* the bit of it on the line, the clocks since its start
  line,                \* history: characters not received yet
  \* The receiver.
  sync1, sync_rxd,     \* altera_std_synchronizer
  last_rxd,            \* delayed_unxsync_rxdxx1 and xx2, which are the same
  baud_rate_counter, baud_clk_en,
  do_start_rx,
  shift,               \* rxd_shift_reg, start bit first
  was_in_process,      \* delayed_unxrx_in_processxx3
  rx_data, rx_char_ready, rx_overrun

sender == <<rxd, frame, slot, clocks>>
port == <<rx_data, rx_char_ready, rx_overrun>>
vars == <<sender, line, sync1, sync_rxd, last_rxd,
          baud_rate_counter, baud_clk_en, do_start_rx, shift,
          was_in_process, port>>

TypeOK ==
  /\ rxd \in Bit /\ frame \in Seq(Bit) /\ line \in Seq(Char)
  /\ slot \in 0 .. Slots /\ clocks \in 0 .. Slots * BitTime + Drift
  /\ {sync1, sync_rxd, last_rxd, baud_clk_en, do_start_rx, was_in_process,
      rx_char_ready, rx_overrun} \subseteq Bit
  /\ baud_rate_counter \in 0 .. Divisor
  /\ shift \in [1 .. Slots -> Bit] /\ rx_data \in Char

Init ==
  /\ rxd = 1 /\ frame = <<>> /\ slot = 0 /\ clocks = 0
  /\ line = <<>>
  /\ sync1 = 0 /\ sync_rxd = 0 /\ last_rxd = 0
  /\ baud_rate_counter = 0 /\ baud_clk_en = 0 /\ do_start_rx = 0
  /\ shift = [i \in 1 .. Slots |-> 0] /\ was_in_process = 0
  /\ rx_data = [i \in 1 .. DataBits |-> 0]
  /\ rx_char_ready = 0 /\ rx_overrun = 0

-----------------------------------------------------------------------------
(* The sender: one of these happens between two clocks of the receiver.    *)
SendIdle ==
  /\ frame = <<>>
  /\ rxd' = 1
  /\ UNCHANGED <<frame, slot, clocks>>

SendStart(c) ==
  /\ frame = <<>>
  /\ frame' = <<0>> \o c \o <<1>> /\ slot' = 1 /\ clocks' = 1
  /\ rxd' = 0

SendHold ==
  /\ frame # <<>> /\ clocks < slot * BitTime + Drift
  /\ clocks' = clocks + 1
  /\ UNCHANGED <<rxd, frame, slot>>

SendNext ==
  /\ frame # <<>> /\ slot < Slots /\ clocks >= slot * BitTime - Drift
  /\ slot' = slot + 1 /\ clocks' = clocks + 1
  /\ rxd' = frame[slot + 1]
  /\ UNCHANGED <<frame>>

SendEnd ==
  /\ slot = Slots /\ clocks >= Slots * BitTime - Drift
  /\ frame' = <<>> /\ slot' = 0 /\ clocks' = 0
  /\ UNCHANGED <<rxd>>

-----------------------------------------------------------------------------
rxd_falling == sync_rxd = 0 /\ last_rxd = 1
rxd_edge == sync_rxd # last_rxd
rx_in_process == shift[1]
sample_enable == baud_clk_en = 1 /\ rx_in_process = 1
got_new_char == rx_in_process = 0 /\ was_in_process = 1

(* Plausible mistakes, for the mutation runs: an edge does not restart the *)
(* bit clock; the shift register is not filled with ones before a start    *)
(* bit.                                                                    *)
BaudFreeRunning ==
  /\ baud_rate_counter' =
       IF baud_rate_counter = 0 THEN Divisor ELSE baud_rate_counter - 1
  /\ baud_clk_en' = IF baud_rate_counter = 0 THEN 1 ELSE 0

ShifterNotFilled ==
  /\ shift' = IF sample_enable THEN Append(Tail(shift), sync_rxd) ELSE shift
  /\ was_in_process' = rx_in_process

(* The always-blocks; op is what the bus does on this edge. *)
Synchronise == sync1' = rxd /\ sync_rxd' = sync1 /\ last_rxd' = sync_rxd

Baud ==
  /\ baud_rate_counter' =
       IF rxd_edge THEN Divisor \div 2
       ELSE IF baud_rate_counter = 0 THEN Divisor ELSE baud_rate_counter - 1
  /\ baud_clk_en' = IF ~rxd_edge /\ baud_rate_counter = 0 THEN 1 ELSE 0

StartRx ==
  do_start_rx' = IF rx_in_process = 0 /\ rxd_falling THEN 1 ELSE 0

Shifter ==
  /\ shift' = IF do_start_rx = 1 THEN Ones
              ELSE IF sample_enable THEN Append(Tail(shift), sync_rxd)
              ELSE shift
  /\ was_in_process' = rx_in_process

RxData ==
  rx_data' = IF got_new_char THEN SubSeq(shift, 2, Slots - 1) ELSE rx_data

Overrun(op) ==
  rx_overrun' = IF op = "clear" THEN 0
                ELSE IF got_new_char /\ rx_char_ready = 1 THEN 1
                ELSE rx_overrun

CharReady(op) ==
  rx_char_ready' = IF op = "read" THEN 0
                   ELSE IF got_new_char THEN 1 ELSE rx_char_ready

Receiver(op) ==
  /\ Synchronise /\ Baud /\ StartRx /\ Shifter
  /\ RxData /\ Overrun(op) /\ CharReady(op)

(* A character is on the line from its start bit until it is received. *)
OnTheLine == IF got_new_char /\ line # <<>> THEN Tail(line) ELSE line

Bus == {"idle", "read", "clear"}

Tick(op) ==
  /\ Receiver(op)
  /\ SendIdle \/ SendHold \/ SendNext \/ SendEnd
  /\ line' = OnTheLine

TickStart(op, c) ==
  /\ Receiver(op)
  /\ Len(line) < MaxLine
  /\ SendStart(c)
  /\ line' = Append(OnTheLine, c)

Next == \E op \in Bus : Tick(op) \/ \E c \in Char : TickStart(op, c)

Spec == Init /\ [][Next]_vars

-----------------------------------------------------------------------------
(***************************************************************************)
(* The receiver is a port with one character of room: whatever the drift   *)
(* of the sender's clock and the moment at which the program reads, every  *)
(* character sent arrives as it was sent, once, and none arrives that was  *)
(* not sent (system_0_uart_0.v:375-531).                                   *)
(***************************************************************************)
Port == INSTANCE RxPort
          WITH rxdata <- rx_data, rrdy <- rx_char_ready, roe <- rx_overrun

ImplementsRxPort == Port!Spec

(***************************************************************************)
(* Every start bit is followed by the announcement of its character, also  *)
(* when another has just been read or is still waiting (440-456).          *)
(***************************************************************************)
FramesArrive == slot = 1 ~> got_new_char
=============================================================================
