----------------------------- MODULE MCPendant -----------------------------
(* Two buttons, LEDs on or off, the display updated every second pass.     *)
(* Keys and frames together when main keeps up with them, and three keys   *)
(* at any pace.                                                            *)
EXTENDS Pendant
CONSTANTS b1, b2
MCButton == {b1, b2}
MCKeys == [p \in Paces |-> IF p THEN 2 ELSE 3]
MCFrames == [p \in Paces |-> IF p THEN 2 ELSE 0]
=============================================================================
