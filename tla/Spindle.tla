------------------------------ MODULE Spindle ------------------------------
(***************************************************************************)
(* The spindle speed output: the generator pwm1 of cnc_module.v with the   *)
(* two registers the host drives it with.  They are written in separate    *)
(* bus cycles (registers 6 and 7), at any point of the PWM cycle.          *)
(* One step is one positive edge of clk.                                   *)
(***************************************************************************)
EXTENDS PwmGen

VARIABLES
  pwm_counter,   \* register 6: length of the cycle, less 2
  pwm_capture,   \* register 7: clocks of the cycle the pin is high
  count,         \* the generator's register
  \* History variables.
  high,          \* clocks the pin was high so far in this cycle
  steady         \* 1: no register has changed since the cycle began

vars == <<pwm_counter, pwm_capture, count, high, steady>>

TypeOK ==
  /\ pwm_counter \in Unsigned /\ pwm_capture \in Unsigned
  /\ count \in Unsigned
  /\ high \in Unsigned
  /\ steady \in {0, 1}

Init ==
  /\ pwm_counter = 0 /\ pwm_capture = 0
  /\ count = ResetCount
  /\ high = 0 /\ steady = 0

-----------------------------------------------------------------------------
NoWrite == UNCHANGED <<pwm_counter, pwm_capture>>
WriteCounter == pwm_counter' \in Unsigned /\ UNCHANGED pwm_capture
WriteCapture == pwm_capture' \in Unsigned /\ UNCHANGED pwm_counter

(* The pin during this clock. *)
ospindle_pwm == Out(count, pwm_capture)

CycleEnds == count' = 0

Observe ==
  /\ high' = IF CycleEnds THEN 0 ELSE high + ospindle_pwm
  /\ steady' = IF CycleEnds \/ (steady = 1 /\ NoWrite) THEN 1 ELSE 0

Tick ==
  /\ NoWrite \/ WriteCounter \/ WriteCapture
  /\ count' = NextCount(count, pwm_counter)
  /\ Observe

Reset ==
  /\ pwm_counter' = 0 /\ pwm_capture' = 0
  /\ count' = ResetCount
  /\ high' = 0 /\ steady' = 0

Next == Tick \/ Reset

Spec == Init /\ [][Next]_vars

-----------------------------------------------------------------------------
(***************************************************************************)
(* A cycle in which no register changed is high for pwm_capture of its     *)
(* pwm_counter + 2 clocks, or throughout when the capture is longer: a     *)
(* register write in an earlier cycle, a shortened counter that ended it   *)
(* early or a counter at the top of its range leave nothing behind         *)
(* (pwm_gen.v:18-32).                                                      *)
(***************************************************************************)
DutyAsCommanded ==
  [][Tick /\ CycleEnds /\ steady = 1
       => high + ospindle_pwm
            = Smaller(pwm_capture, Smaller(pwm_counter + 2, Word))]_vars

(***************************************************************************)
(* Shortening the cycle below the running count, or growing it, never      *)
(* stalls the output: a new cycle begins again and again.                  *)
(***************************************************************************)
CyclesRecur == []<>(count = 0)
=============================================================================
