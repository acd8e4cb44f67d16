-------------------------------- MODULE Uart --------------------------------
(***************************************************************************)
(* The two halves of the serial port, system_0_uart_0.v.  They share the   *)
(* clock and the divisor, and no register: a behaviour has traffic in one  *)
(* of them, and the other at rest.                                         *)
(***************************************************************************)
EXTENDS Naturals, Sequences

CONSTANTS
  TxBits, TxDivisor, MaxWrites,          \* sizes and bound of UartTx
  RxBits, RxDivisor, Drift, MaxLine      \* and of UartRx

ASSUME SizesAssumption ==
  /\ {TxBits, TxDivisor, RxBits, RxDivisor} \subseteq Nat \ {0}
  /\ TxDivisor >= 3
  /\ Drift \in Nat /\ 2 * Drift + 2 <= RxDivisor - RxDivisor \div 2
  /\ MaxWrites \in Nat /\ MaxLine \in Nat

VARIABLES
  busy,     \* the half with traffic
  tx_data, tx_ready, do_load_shifter, tx_shift, tx_baud_rate_counter,
  tx_baud_clk_en, pre_txd, txd, ear, bits, sending, heard, writes,
  rxd, frame, slot, clocks, line, sync1, sync_rxd, last_rxd,
  rx_baud_rate_counter, rx_baud_clk_en, do_start_rx, rx_shift,
  was_in_process, rx_data, rx_char_ready, rx_overrun

transmitter ==
  <<tx_data, tx_ready, do_load_shifter, tx_shift, tx_baud_rate_counter,
    tx_baud_clk_en, pre_txd, txd, ear, bits, sending, heard, writes>>
receiver ==
  <<rxd, frame, slot, clocks, line, sync1, sync_rxd, last_rxd,
    rx_baud_rate_counter, rx_baud_clk_en, do_start_rx, rx_shift,
    was_in_process, rx_data, rx_char_ready, rx_overrun>>
vars == <<busy, transmitter, receiver>>

Tx == INSTANCE UartTx
        WITH DataBits <- TxBits, Divisor <- TxDivisor, shift <- tx_shift,
             baud_rate_counter <- tx_baud_rate_counter,
             baud_clk_en <- tx_baud_clk_en

Rx == INSTANCE UartRx
        WITH DataBits <- RxBits, Divisor <- RxDivisor, shift <- rx_shift,
             baud_rate_counter <- rx_baud_rate_counter,
             baud_clk_en <- rx_baud_clk_en

TypeOK == busy \in {"tx", "rx"} /\ Tx!TypeOK /\ Rx!TypeOK

Init == busy \in {"tx", "rx"} /\ Tx!Init /\ Rx!Init

Transmit == busy = "tx" /\ Tx!Next /\ UNCHANGED <<busy, receiver>>
Receive == busy = "rx" /\ Rx!Next /\ UNCHANGED <<busy, transmitter>>

Next == Transmit \/ Receive

Spec == Init /\ [][Next]_vars

(* The clocks do not stop; nothing is owed by the program. *)
FairSpec == Spec /\ WF_vars(Transmit) /\ WF_vars(Receive)

-----------------------------------------------------------------------------
(* What the two halves promise is stated where they are defined.           *)
ImplementsTxPort == Tx!ImplementsTxPort
FramesSpaced == Tx!FramesSpaced
ImplementsRxPort == Rx!ImplementsRxPort
FramesArrive == Rx!FramesArrive
=============================================================================
