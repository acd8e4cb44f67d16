------------------------------- MODULE UartTx -------------------------------
(***************************************************************************)
(* The transmitter of the serial port, system_0_uart_0.v, clock by clock,  *)
(* with the TXDATA register that feeds it and an ideal receiver on its     *)
(* pin, which knows the bit time and nothing else.                         *)
(***************************************************************************)
EXTENDS Naturals, Sequences

CONSTANTS
  DataBits,   \* bits of a character: 8
  Divisor,    \* baud_divisor: 5208 in the FPGA, 4 in the vendor's simulation
  MaxWrites   \* bound: characters the program writes

Bit == {0, 1}
Char == [1 .. DataBits -> Bit]
NoChar == <<>>
Slots == DataBits + 2             \* start bit, data, stop bit
BitTime == Divisor + 1            \* clocks of one bit on the line
FrameTime == Slots * BitTime

VARIABLES
  tx_data,             \* the TXDATA register
  tx_ready,            \* TRDY
  do_load_shifter,
  shift,               \* tx_shift_register_contents, lowest bit first
  baud_rate_counter, baud_clk_en,
  pre_txd, txd,
  \* The ideal receiver and history.
  ear,                 \* clocks since the start edge it saw last, saturating
  bits,                \* the samples it has taken since
  sending,             \* the character loaded last, until it is heard
  heard,               \* the characters it has received
  writes               \* how often the program has written

regs == <<tx_data, tx_ready, do_load_shifter, shift, baud_rate_counter,
          baud_clk_en, pre_txd, txd>>
vars == <<regs, ear, bits, sending, heard, writes>>

TypeOK ==
  /\ tx_data \in Char
  /\ tx_ready \in Bit /\ do_load_shifter \in Bit
  /\ shift \in [1 .. Slots -> Bit]
  /\ baud_rate_counter \in 0 .. Divisor /\ baud_clk_en \in Bit
  /\ pre_txd \in Bit /\ txd \in Bit
  /\ ear \in 0 .. FrameTime /\ bits \in Seq(Bit)
  /\ sending \in Char \cup {NoChar} /\ heard \in Seq(Char)
  /\ writes \in 0 .. MaxWrites

Init ==
  /\ tx_data = [i \in 1 .. DataBits |-> 0]
  /\ tx_ready = 1 /\ do_load_shifter = 0
  /\ shift = [i \in 1 .. Slots |-> 0]
  /\ baud_rate_counter = 0 /\ baud_clk_en = 0
  /\ pre_txd = 1 /\ txd = 1
  /\ ear = FrameTime /\ bits = <<>> /\ sending = NoChar /\ heard = <<>>
  /\ writes = 0

-----------------------------------------------------------------------------
shift_done == \A i \in 1 .. Slots : shift[i] = 0

do_shift == baud_clk_en = 1 /\ ~shift_done /\ do_load_shifter = 0

tx_load_val == <<0>> \o tx_data \o <<1>>

(* Plausible mistakes, for the mutation runs: the baud counter keeps       *)
(* running when a character is loaded; the ready flag follows the load     *)
(* even if the program is writing at that clock; nothing is shifted out.   *)
BaudFreeRunning ==
  /\ baud_rate_counter' =
       IF baud_rate_counter = 0 THEN Divisor ELSE baud_rate_counter - 1
  /\ baud_clk_en' = IF baud_rate_counter = 0 THEN 1 ELSE 0

ReadyLoadFirst(w) ==
  tx_ready' = IF do_load_shifter = 1 THEN 1
              ELSE IF w # NoChar THEN 0 ELSE tx_ready

ShifterWide ==
  shift' = IF do_load_shifter = 1 THEN tx_load_val
           ELSE IF do_shift THEN Append(shift, 0) ELSE shift

(* The always-blocks, in the order of the source.  w is the character that *)
(* the bus writes to TXDATA on this edge, or NoChar.                       *)
LoadShifter ==
  do_load_shifter' = IF tx_ready = 0 /\ shift_done THEN 1 ELSE 0

Ready(w) ==
  tx_ready' = IF w # NoChar THEN 0
              ELSE IF do_load_shifter = 1 THEN 1 ELSE tx_ready

Baud ==
  /\ baud_rate_counter' =
       IF baud_rate_counter = 0 \/ do_load_shifter = 1
         THEN Divisor ELSE baud_rate_counter - 1
  /\ baud_clk_en' = IF baud_rate_counter = 0 THEN 1 ELSE 0

Line ==
  /\ pre_txd' = IF shift_done THEN pre_txd ELSE shift[1]
  /\ txd' = pre_txd

Shifter ==
  shift' = IF do_load_shifter = 1 THEN tx_load_val
           ELSE IF do_shift THEN Append(Tail(shift), 0) ELSE shift

TxData(w) == tx_data' = IF w # NoChar THEN w ELSE tx_data

-----------------------------------------------------------------------------
(* The ideal receiver samples the middle of every bit after a falling edge *)
(* that does not belong to the frame it is in.                             *)
SampleAt(n) == n * BitTime + BitTime \div 2
Listening == Len(bits) < Slots /\ ear < FrameTime
StartEdge == txd = 1 /\ txd' = 0 /\ ~Listening

Complete == Len(bits') = Slots /\ Len(bits) < Slots

Listen ==
  /\ ear' = IF StartEdge THEN 0 ELSE IF ear < FrameTime THEN ear + 1 ELSE ear
  /\ bits' = IF StartEdge THEN <<>>
             ELSE IF Listening /\ ear' = SampleAt(Len(bits))
                    THEN Append(bits, txd') ELSE bits
  /\ heard' = IF Complete THEN Append(heard, SubSeq(bits', 2, Slots - 1))
              ELSE heard
  /\ sending' = IF do_load_shifter = 1 THEN tx_data
                ELSE IF Complete THEN NoChar ELSE sending

Tick(w) ==
  /\ LoadShifter /\ Ready(w) /\ Baud /\ Line /\ Shifter /\ TxData(w)
  /\ Listen
  /\ writes' = IF w # NoChar THEN writes + 1 ELSE writes

Quiet == Tick(NoChar)
WriteTxData == writes < MaxWrites /\ \E w \in Char : Tick(w)

Next == Quiet \/ WriteTxData

Spec == Init /\ [][Next]_vars

-----------------------------------------------------------------------------
(***************************************************************************)
(* The transmitter is a port with one waiting character.  A write at any   *)
(* clock, the two clocks of the load included, either replaces a character *)
(* of which nothing was sent or waits behind one which is then sent whole  *)
(* (system_0_uart_0.v:72-180).                                             *)
(***************************************************************************)
Waiting == IF tx_ready = 0 THEN tx_data ELSE NoChar

OnTheLine ==
  IF do_load_shifter = 1 /\ tx_ready = 0 THEN NoChar ELSE sending

Port == INSTANCE TxPort WITH hold <- Waiting, sending <- OnTheLine

ImplementsTxPort == Port!Spec

(***************************************************************************)
(* The stop bit is never cut short: from one start edge to the next there  *)
(* are at least the clocks of a whole frame.                               *)
(***************************************************************************)
FramesSpaced == [][StartEdge => ear = FrameTime]_vars
=============================================================================
