------------------------------- MODULE PwmGen -------------------------------
(***************************************************************************)
(* The counter-compare generator of pwm_gen.v as operators on its one      *)
(* register, count.  cnc_module.v instantiates it twice: for the spindle   *)
(* (pwm1) and for the charge pump (cp1); the module that owns an instance  *)
(* declares the register and applies these operators to it.                *)
(***************************************************************************)
EXTENDS Integers

CONSTANT Word    \* registers count modulo Word: 2^32 in the hardware

ASSUME WordAssumption == Word \in Nat \ {0, 1}

Unsigned == 0 .. Word - 1
Smaller(x, y) == IF x < y THEN x ELSE y

(* count after reset_n: all ones, so that the first clock restarts it. *)
ResetCount == Word - 1

(* Plausible mistakes, for the mutation runs: the count waits at the end   *)
(* of the cycle, or the compare includes the capture.                      *)
NextCountStuck(count, pwm_counter) ==
  IF count > pwm_counter THEN count ELSE (count + 1) % Word

OutInclusive(count, pwm_capture) == IF count <= pwm_capture THEN 1 ELSE 0

(* count at the next clock; a cycle takes pwm_counter + 2 clocks. *)
NextCount(count, pwm_counter) ==
  IF count > pwm_counter THEN 0 ELSE (count + 1) % Word

(* The output pin: high while count is below the capture register. *)
Out(count, pwm_capture) == IF count < pwm_capture THEN 1 ELSE 0
=============================================================================
