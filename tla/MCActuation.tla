---------------------------- MODULE MCActuation ----------------------------
(* A clock of 16 per second and 3-bit registers: velocities below the      *)
(* threshold, slow, fast, beyond the generator's limit, in both            *)
(* directions; far enough for the accumulator to wrap either way.          *)
EXTENDS Actuation
MCVelocities == {1, 2, -3, 9}
MCPeriods == {PeriodOf(v) : v \in MCVelocities}
=============================================================================
