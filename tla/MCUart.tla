------------------------------- MODULE MCUart -------------------------------
(* The transmitter with two data bits at the vendor's simulation divisor;  *)
(* the receiver with three data bits of twelve clocks each and edges up to *)
(* two clocks off.                                                         *)
EXTENDS Uart
=============================================================================
