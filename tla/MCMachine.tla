----------------------------- MODULE MCMachine -----------------------------
(* 3-bit registers: the watchdog bites after 2 idle clocks and wraps after *)
(* 8, a pump cycle takes 3 clocks; the host may write every value of the   *)
(* spindle's registers at any clock, those of nine speeds at three         *)
(* frequencies among them.                                                 *)
EXTENDS Machine
=============================================================================
