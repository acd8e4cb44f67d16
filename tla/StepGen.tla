------------------------------ MODULE StepGen ------------------------------
(***************************************************************************)
(* One axis of the FPGA: the step generator of step_gen.v together with    *)
(* the three registers of cnc_module.v that drive it (the half period, the *)
(* direction bit and the enable bit of the axis).                          *)
(*                                                                         *)
(* One step of this specification is one positive edge of clk50.  All the  *)
(* always-blocks of the Verilog run on that edge and read the values from  *)
(* before it (nonblocking assignment), so a step is the conjunction of     *)
(* what each block does.  On the same edge the Avalon bus may write one    *)
(* register; the Nios II writes the period and the direction/enable        *)
(* register in separate bus cycles.                                        *)
(***************************************************************************)
EXTENDS Integers

CONSTANTS
  Half,       \* half the range of a register: 2^31 in the hardware
  Periods,    \* half periods the host may command
  MaxTravel   \* bound: clk50 stops once the axis is further than this from 0

Word == 2 * Half                 \* registers count modulo Word: 2^32
Unsigned == 0 .. Word - 1
Bit == {0, 1}

ASSUME HalfAssumption == Half \in Nat \ {0}
ASSUME PeriodsAssumption == Periods \subseteq Unsigned
ASSUME MaxTravelAssumption == MaxTravel \in Nat

VARIABLES
  period, dir, en,      \* sgN_per, sg_dirs[N], sg_ens[N] of cnc_module.v
  counter,              \* clocks since the last edge of step_out
  step_out,             \* the pin that drives the motor
  last_step_out,        \* step_out one clock ago
  location,             \* the accumulator the host reads back
  \* History variables; no action of the code depends on them.
  motor,                \* net steps the motor has been given
  sinceRise,            \* clocks since step_out last rose, saturating
  fastest,              \* shortest period in force since step_out last rose
  runt                  \* 1: the latest pulse was cut short by a disable

regs == <<period, dir, en>>
vars == <<period, dir, en, counter, step_out, last_step_out, location,
          motor, sinceRise, fastest, runt>>

Horizon == 2 * Word + 2    \* where sinceRise saturates: beyond every period
Origin == Half             \* 32'h80000000, the accumulator's zero

Delta(d) == IF d = 1 THEN 1 ELSE -1
Smaller(x, y) == IF x < y THEN x ELSE y

TypeOK ==
  /\ period \in Unsigned /\ dir \in Bit /\ en \in Bit
  /\ counter \in Unsigned
  /\ step_out \in Bit /\ last_step_out \in Bit
  /\ location \in Unsigned
  /\ motor \in Int
  /\ sinceRise \in 0 .. Horizon
  /\ fastest \in Unsigned
  /\ runt \in Bit

(***************************************************************************)
(* The state after reset_n.  last_step_out has no reset of its own, but    *)
(* Reset_Delay.v holds reset_n low for 2^24 clocks, in which it follows    *)
(* step_out to 0.                                                          *)
(***************************************************************************)
Init ==
  /\ period = 0 /\ dir = 0 /\ en = 0
  /\ counter = 0 /\ step_out = 0 /\ last_step_out = 0
  /\ location = Origin
  /\ motor = 0
  /\ sinceRise = Horizon /\ fastest = 0 /\ runt = 0

-----------------------------------------------------------------------------
(* The pulse seen one clock after it rose, not counted yet. *)
Stepped == step_out = 1 /\ last_step_out = 0

(* A plausible mistake in the code, substituted by the mutation runs: the  *)
(* accumulator samples the direction that the bus is writing.              *)
AccumulateNewDir ==
  location' = IF Stepped THEN (location + Delta(dir')) % Word ELSE location

-----------------------------------------------------------------------------
(* The step generator block: what the edge does to counter and step_out.   *)

Toggle ==
  /\ en = 1 /\ counter > period
  /\ counter' = 0
  /\ step_out' = 1 - step_out

Count ==
  /\ en = 1 /\ counter <= period
  /\ counter' = (counter + 1) % Word
  /\ UNCHANGED step_out

Halt ==
  /\ en = 0
  /\ counter' = 0
  /\ step_out' = 0

(* Plausible mistakes, for the mutation runs: the generator toggles a      *)
(* clock early, or only when the counter meets the period exactly.         *)
ToggleIf(elapsed) ==
  /\ counter' = IF elapsed THEN 0 ELSE (counter + 1) % Word
  /\ step_out' = IF elapsed THEN 1 - step_out ELSE step_out

GenerateEarly == (en = 1 /\ ToggleIf(counter >= period)) \/ Halt

GenerateAtEquality == (en = 1 /\ ToggleIf(counter = period + 1)) \/ Halt

Generate == Toggle \/ Count \/ Halt

(* The latch and the accumulator: a pulse seen one clock late is counted   *)
(* in the direction the pin shows at that clock.                           *)
Latch == last_step_out' = step_out

Accumulate ==
  location' = IF Stepped THEN (location + Delta(dir)) % Word ELSE location

(* The bus cycle that coincides with the edge. *)
NoWrite == UNCHANGED regs

WritePeriod == period' \in Periods /\ UNCHANGED <<dir, en>>

WriteDirEnable == dir' \in Bit /\ en' \in Bit /\ UNCHANGED period

BusCycle == NoWrite \/ WritePeriod \/ WriteDirEnable

-----------------------------------------------------------------------------
(* What an observer of the pins records.  The motor driver acts on the     *)
(* rising edge of step_out with the direction pin as it is then.           *)
Rise == step_out = 0 /\ step_out' = 1

Observe ==
  /\ motor' = IF Rise THEN motor + Delta(dir') ELSE motor
  /\ sinceRise' = IF Rise THEN 0 ELSE Smaller(sinceRise + 1, Horizon)
  /\ fastest' = IF Rise THEN period' ELSE Smaller(fastest, period')
  /\ runt' = IF Rise THEN 0 ELSE IF en = 0 /\ step_out = 1 THEN 1 ELSE runt

(* One clock of the axis, whatever the bus does to its registers; *)
Edge ==
  /\ motor \in -MaxTravel .. MaxTravel
  /\ Generate /\ Latch /\ Accumulate
  /\ Observe

Tick == BusCycle /\ Edge

(* reset_n: every register of the axis returns to its initial value. *)
Reset ==
  /\ period' = 0 /\ dir' = 0 /\ en' = 0
  /\ counter' = 0 /\ step_out' = 0 /\ last_step_out' = 0
  /\ location' = Origin
  /\ motor' = 0
  /\ sinceRise' = Horizon /\ fastest' = 0 /\ runt' = 0

Next == Tick \/ Reset

Spec == Init /\ [][Next]_vars

-----------------------------------------------------------------------------
(* What the accumulator has still to add. *)
Owed == IF Stepped THEN Delta(dir) ELSE 0

(***************************************************************************)
(* The accumulator the host reads is the motor's position, modulo the      *)
(* register: no pulse, however short, in whatever direction it was given   *)
(* and wherever a register write fell between its edge and its count, is   *)
(* lost, counted twice or counted the wrong way (step_gen.v:51-69).        *)
(***************************************************************************)
LocationTracksMotor ==
  (location + Owed) % Word = (Origin + motor) % Word

(***************************************************************************)
(* The motor is never stepped faster than the shortest half period that    *)
(* was in force since the previous step: 2 * (period + 2) clocks pass from *)
(* one rise to the next, or, when a disable cut the pulse itself short,    *)
(* the one clock of the cut and a full half period (step_gen.v:23-44).     *)
(* Changing the period, the direction and the enable in any order does not *)
(* produce an early step.                                                  *)
(***************************************************************************)
StepRateBounded ==
  [][Rise => sinceRise + 1 >= IF runt = 1 THEN fastest + 3
                                          ELSE 2 * (fastest + 2)]_vars

(***************************************************************************)
(* An axis that stays enabled, whatever periods below the top of the       *)
(* register it is given, keeps stepping: shortening the period below the   *)
(* counter does not make the generator wait for a wrap (the comparison of  *)
(* step_gen.v:30), and the longest of those periods does still elapse.     *)
(* The travel bound excuses an axis that has reached the end of the model. *)
(***************************************************************************)
EnabledAxisSteps ==
  <>[](en = 1 /\ period < Word - 1)
    => \/ []<>(step_out = 1) /\ []<>(step_out = 0)
       \/ <>(motor \notin -MaxTravel .. MaxTravel)

=============================================================================
