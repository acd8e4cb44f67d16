---------------------------- MODULE SpindleSpeed ----------------------------
(***************************************************************************)
(* What the HAL driver makes of a commanded spindle speed (de2.c:510-526)  *)
(* and what the generator makes of that.  The speed is a fraction of full  *)
(* speed, in units of 1 / Full; its sign goes to another pin.  The driver  *)
(* multiplies floats: the product here is the exact one, so what a float   *)
(* may round up to the next clock is not in it.                            *)
(***************************************************************************)
EXTENDS Spindle

CONSTANTS
  ClockHz,       \* 50e6
  Full,          \* full speed, the commanded 1.0
  Frequencies    \* values of the parameter pwm_freq

Magnitude(rpm) == IF rpm < 0 THEN -rpm ELSE rpm

(* A plausible mistake, for the mutation runs: the product is rounded up.  *)
CaptureRoundedUp(rpm, freq) ==
  (Magnitude(rpm) * (ClockHz \div freq) + Full) \div Full

(* Both conversions drop the fraction. *)
CounterOf(freq) == ClockHz \div freq
CaptureOf(rpm, freq) == (Magnitude(rpm) * CounterOf(freq)) \div Full

(* How much of an undisturbed cycle of this many clocks the pin has been   *)
(* short of the commanded fraction, in units of 1 / Full clock.            *)
Lack(rpm, clocks, highClocks) == Magnitude(rpm) * clocks - Full * highClocks

(***************************************************************************)
(* The spindle never gets more than the commanded fraction of a cycle, and *)
(* less by no more than the two clocks by which the generator's cycle is   *)
(* longer than the driver takes it to be, and the fraction of a clock that *)
(* the conversion drops (de2.c:510, 526; pwm_gen.v:22-32).  Full speed is  *)
(* two clocks per cycle short of it.                                       *)
(***************************************************************************)
SpeedAsCommanded ==
  [][CycleEnds /\ steady = 1 /\ Tick =>
       \A freq \in Frequencies, rpm \in -Full .. Full :
         pwm_counter = CounterOf(freq) /\ pwm_capture = CaptureOf(rpm, freq)
           => Lack(rpm, count + 1, high + ospindle_pwm)
                \in 0 .. 2 * Magnitude(rpm) + Full - 1]_vars
=============================================================================
