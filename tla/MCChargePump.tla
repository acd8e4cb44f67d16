---------------------------- MODULE MCChargePump ----------------------------
(* A 4-bit watchdog: it bites after 5 idle clocks and wraps after 16; a    *)
(* pump cycle takes 5 clocks, 2 of them high.                              *)
EXTENDS ChargePump
=============================================================================
