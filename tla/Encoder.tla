------------------------------ MODULE Encoder ------------------------------
(***************************************************************************)
(* One quadrature encoder input of the FPGA (encoder_x1.v): two            *)
(* synchronisers, a latch of the previous state, and a counter that counts *)
(* one of the four transitions of a line in each direction.                *)
(*                                                                         *)
(* One step is one positive edge of clk50.  The shaft is not synchronous   *)
(* with it: a signal that changes at the edge may be sampled as it was or  *)
(* as it will be.                                                          *)
(***************************************************************************)
EXTENDS Integers

CONSTANTS
  Half,       \* half the range of the counter: 2^31
  MaxTravel   \* bound: transitions the shaft turns away from its start

ASSUME HalfAssumption == Half \in Nat \ {0}
ASSUME MaxTravelAssumption == MaxTravel \in Nat

Word == 2 * Half
Bit == {0, 1}
Settled == 4    \* clocks from the pins to the counter, one for the sampling

VARIABLES
  pos,             \* the shaft, in transitions: four to the line
  rest,            \* clocks since the shaft moved, saturating at Settled
  a1, b1,          \* first latch of the synchronisers
  a, b,            \* second latch
  last_a, last_b,  \* the second latch one clock ago
  count            \* the register the host reads

sync == <<a1, b1, a, b, last_a, last_b>>
vars == <<pos, rest, sync, count>>

TypeOK ==
  /\ pos \in Int /\ rest \in 0 .. Settled
  /\ a1 \in Bit /\ b1 \in Bit /\ a \in Bit /\ b \in Bit
  /\ last_a \in Bit /\ last_b \in Bit
  /\ count \in 0 .. Word - 1

(* The encoder's signals at position p: 00, 10, 11, 01 and again. *)
enc_a(p) == IF p % 4 \in {1, 2} THEN 1 ELSE 0
enc_b(p) == IF p % 4 \in {2, 3} THEN 1 ELSE 0

(* Lines between the start and p: those from 00 to 10 are counted. *)
Lines(p) == (p + 3) \div 4

Origin == Half - 1    \* 32'h7FFFFFFF

(***************************************************************************)
(* The state after reset_n, which Reset_Delay.v holds low for 2^24 clocks: *)
(* the latches, which it does not clear, show the pins.  The start is      *)
(* wherever the shaft is, within the line numbered 0.                      *)
(***************************************************************************)
Init ==
  /\ pos \in -3 .. 0 /\ rest = Settled
  /\ a1 = enc_a(pos) /\ a = a1 /\ last_a = a
  /\ b1 = enc_b(pos) /\ b = b1 /\ last_b = b
  /\ count = Origin

-----------------------------------------------------------------------------
(* A quadrature state lasts at least two clocks: the shaft moves at most   *)
(* one transition at a time, and not at two edges in succession.           *)
Turn ==
  /\ rest >= 1
  /\ pos' \in {pos - 1, pos + 1} \cap (-MaxTravel .. MaxTravel)
  /\ rest' = 0

Stay ==
  /\ rest' = IF rest < Settled THEN rest + 1 ELSE rest
  /\ UNCHANGED pos

(* Plausible mistakes, for the mutation runs: every entry of state 0 is    *)
(* counted down, the counter is a bit too wide.                            *)
DownFromAny == a = 0 /\ b = 0 /\ (last_a = 1 \/ last_b = 1)

CountWide(up, down) ==
  count' = IF up THEN count + 1 ELSE IF down THEN count - 1 ELSE count

-----------------------------------------------------------------------------
(* Latch it twice, and once more. *)
Latch ==
  /\ a1' \in {enc_a(pos), enc_a(pos')} /\ b1' \in {enc_b(pos), enc_b(pos')}
  /\ a' = a1 /\ b' = b1
  /\ last_a' = a /\ last_b' = b

(* State 0 to 1, and state 1 to 0. *)
Up == a = 1 /\ b = 0 /\ last_a = 0 /\ last_b = 0
Down == a = 0 /\ b = 0 /\ last_a = 1 /\ last_b = 0

Count(up, down) ==
  count' = IF up THEN (count + 1) % Word
           ELSE IF down THEN (count - 1) % Word ELSE count

Tick ==
  /\ Turn \/ Stay
  /\ Latch
  /\ Count(Up, Down)

Reset ==
  /\ pos' \in -3 .. 0 /\ rest' = Settled
  /\ a1' = enc_a(pos') /\ a' = a1' /\ last_a' = a'
  /\ b1' = enc_b(pos') /\ b' = b1' /\ last_b' = b'
  /\ count' = Origin

Next == Tick \/ Reset

Spec == Init /\ [][Next]_vars

-----------------------------------------------------------------------------
(***************************************************************************)
(* Once the shaft rests, the register is its position in lines, modulo the *)
(* register, however it got there: reversals on a line, dithering on one   *)
(* edge, wraps and samples that were taken in mid-transition cancel out    *)
(* and nothing drifts (encoder_x1.v:29-52).                                *)
(***************************************************************************)
CountSettles == rest = Settled => count = (Origin + Lines(pos)) % Word

(***************************************************************************)
(* While the shaft turns as fast as it may, the register is at most one    *)
(* line away from it.  In a register as small as a run's that leaves out   *)
(* one value in four: it is proved for every width instead.                *)
(***************************************************************************)
CountNearShaft ==
  \E d \in {-1, 0, 1} : count = (Origin + Lines(pos) + d) % Word
=============================================================================
