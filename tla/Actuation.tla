----------------------------- MODULE Actuation -----------------------------
(***************************************************************************)
(* From a velocity on a HAL pin to steps of one motor and back to a        *)
(* position: do_work turns the velocity into a half period and a direction *)
(* (de2.c:391-504), the Ethernet handler writes the two into registers in  *)
(* separate bus cycles (hello_led.c:128-134), the step generator runs on   *)
(* whatever the registers hold at each clock, and do_work turns the        *)
(* accumulator into a signed number of steps (de2.c:570-571).              *)
(*                                                                         *)
(* Velocities are integers in some small unit and Scale is in steps per    *)
(* that unit, so that their product is a rate in steps per second.         *)
(***************************************************************************)
EXTENDS StepGen

CONSTANTS
  Clock,       \* clocks per second: 50e6
  Scale,       \* sgN_scale
  Threshold,   \* the velocity below which an axis is told to stop: 0.01
  Velocities,  \* velocities commanded
  MaxGap       \* bound: clocks between the two register writes

ASSUME ClockAssumption == Clock \in Nat \ {0}
ASSUME ScaleAssumption == Scale \in Int \ {0}
ASSUME ThresholdAssumption == Threshold \in Nat \ {0}
ASSUME VelocitiesAssumption == Velocities \subseteq Int

(* The velocity, less its sign, that a command is treated as. *)
Abs(v) == IF v > 0 THEN v ELSE -v
Speed(v) == IF Abs(v) < Threshold THEN 0 ELSE Abs(v)
Rate(v) == Speed(v) * Scale

(* A plausible mistake, for the mutation runs: the sign is sent. *)
DirSigned(v) == IF Speed(v) = 0 THEN 0 ELSE IF v > 0 THEN 1 ELSE -1

DirOf(v) == IF v > 0 /\ Speed(v) # 0 THEN 1 ELSE 0

(* Plausible mistakes, for the mutation runs: the quotient is not reduced  *)
(* by one; the division by zero gives zero, and a negative quotient loses  *)
(* its sign.                                                               *)
Quotient(r) == Clock \div (2 * Abs(r))

PeriodNotReduced(v) ==
  LET r == Rate(v) IN
    IF r = 0 THEN Half
    ELSE IF r > 0 THEN Smaller(Half, Quotient(r))
    ELSE Word - Smaller(Half, Quotient(r) + 1)

PeriodOfZero(v) ==
  LET r == Rate(v) IN
    IF r = 0 \/ Quotient(r) = 0 THEN 0
    ELSE IF r > 0 THEN Smaller(Half, Quotient(r) - 1)
    ELSE Smaller(Half, Quotient(r) - 1)

(***************************************************************************)
(* 50e6 / (velocity * scale * 2) - 1 as an int: the fraction is dropped    *)
(* towards zero, a negative number is its two's complement, and a quotient *)
(* which does not fit, the one by zero included, becomes 80000000 (what    *)
(* the conversion instruction of the x86 gives; C leaves it open).         *)
(***************************************************************************)
PeriodOf(v) ==
  LET r == Rate(v) IN
    IF r = 0 THEN Half
    ELSE IF r < 0 THEN Word - Smaller(Half, Quotient(r) + 1)
    ELSE IF Quotient(r) = 0 THEN 0
    ELSE Smaller(Half, Quotient(r) - 1)

ASSUME PeriodsAreOf == Periods = {PeriodOf(v) : v \in Velocities}

ASSUME MaxGapAssumption == MaxGap \in Nat

VARIABLES
  velocity,    \* velocity of the command being written, or written last
  enable,      \* and its enable bit
  writing,     \* 1 between the two register writes of a command
  \* History.
  gap,         \* clocks since the first of them, 0 after the second
  strays,      \* steps given since the first of them, 0 after the second
  settled      \* 1: since step_out rose, nothing has changed its rate

hist == <<gap, strays, settled>>
avars == <<vars, velocity, enable, writing, hist>>

ATypeOK ==
  /\ TypeOK
  /\ velocity \in Int /\ enable \in Bit
  /\ writing \in Bit /\ gap \in 0 .. MaxGap
  /\ strays \in Nat /\ settled \in Bit

AInit ==
  /\ Init
  /\ velocity = 0 /\ enable = 0 /\ writing = 0 /\ gap = 0
  /\ strays = 0 /\ settled = 0

-----------------------------------------------------------------------------
Settle ==
  settled' = IF Rise THEN 1
             ELSE IF en = 0 \/ period' # period THEN 0 ELSE settled

(* The handler writes the period of a new command, *)
WriteRate(v, e) ==
  /\ writing = 0
  /\ period' = PeriodOf(v) /\ UNCHANGED <<dir, en>>
  /\ Edge
  /\ velocity' = v /\ enable' = e
  /\ writing' = 1 /\ gap' = 0 /\ strays' = 0
  /\ Settle

(* the next clocks pass, with the other axes' periods on the bus, *)
Between ==
  /\ writing = 1 /\ gap < MaxGap
  /\ NoWrite /\ Edge
  /\ gap' = gap + 1
  /\ strays' = IF Rise THEN strays + 1 ELSE strays
  /\ Settle
  /\ UNCHANGED <<velocity, enable, writing>>

(* and the directions and enables of all axes are written at once.         *)
WriteDirs ==
  /\ writing = 1
  /\ dir' = DirOf(velocity) /\ en' = enable /\ UNCHANGED period
  /\ Edge
  /\ writing' = 0 /\ gap' = 0 /\ strays' = 0
  /\ Settle
  /\ UNCHANGED <<velocity, enable>>

Run ==
  /\ writing = 0
  /\ NoWrite /\ Edge
  /\ Settle
  /\ UNCHANGED <<velocity, enable, writing, gap, strays>>

AReset ==
  /\ Reset
  /\ velocity' = 0 /\ enable' = 0 /\ writing' = 0 /\ gap' = 0
  /\ strays' = 0 /\ settled' = 0

ANext ==
  \/ \E v \in Velocities, e \in Bit : WriteRate(v, e)
  \/ Between \/ WriteDirs \/ Run \/ AReset

ASpec == AInit /\ [][ANext]_avars

(* The clock never stops within the axis's travel; no command is owed, but *)
(* one that has begun is finished.                                         *)
AFairSpec == ASpec /\ WF_avars(Between \/ WriteDirs \/ Run)

-----------------------------------------------------------------------------
(***************************************************************************)
(* While a velocity is in force its steps come no faster than commanded,   *)
(* and each at most two clocks late: the register's period is rounded down *)
(* and taken for 2 * (per + 1) clocks (de2.c:473), the generator takes     *)
(* 2 * (per + 2) (step_gen.v:30), and the two together stay within one     *)
(* clock per half period, up to the rate of one step per four clocks.      *)
(***************************************************************************)
SteadyRate ==
  [][Rise /\ settled = 1 /\ Rate(velocity) > 0 /\ PeriodOf(velocity) < Half
       => LET steps == Rate(velocity) * (sinceRise + 1) IN
            /\ steps > Clock
            /\ 2 * Rate(velocity) <= Clock
                 => steps <= Clock + 2 * Rate(velocity)]_avars

(***************************************************************************)
(* An enabled axis that is told to stop does not stand still: the division *)
(* by zero makes it creep, by no more than a step per 2 * (2^31 + 2)       *)
(* clocks.  So does any axis with a negative scale, at every velocity      *)
(* (de2.c:402-404, 473).                                                   *)
(***************************************************************************)
CreepBounded ==
  [][Rise /\ settled = 1 /\ Rate(velocity) <= 0
       => sinceRise + 1 >= 2 * (Half + 2)]_avars

(***************************************************************************)
(* Between the two writes of a command (hello_led.c:128-134), however long *)
(* that takes, the motor goes on in its old direction at the new rate: one *)
(* step in each 2 * (period + 2) clocks, and at most one more or one less, *)
(* whatever the generator was doing when the period came.  So it takes     *)
(* many steps if the gap is long, but it neither hurries one nor waits     *)
(* with one; and it takes none if the axis was disabled, though the        *)
(* command enables it.  A period at the top of the register never elapses. *)
(***************************************************************************)
Cycle == 2 * (period + 2)

StraysAtNewRate ==
  writing = 1
    => /\ en = 0 => strays = 0
       /\ Cycle * strays < gap + Cycle
       /\ en = 1 /\ period < Word - 1 => gap < Cycle * (strays + 1)

(***************************************************************************)
(* Within the range of the accumulator the steps from which the host       *)
(* computes its position are the motor's, but for one not counted yet, in  *)
(* sign and size (de2.c:570-571, "steps - 0x80000000" as an int).  Their   *)
(* division by the scale (de2.c:572), in floating point, is left out.      *)
(***************************************************************************)
Signed(w) == IF w >= Half THEN w - Word ELSE w
Loc == Signed((location - Half) % Word)

PositionTrue ==
  motor \in -Half + 1 .. Half - 2 => Loc + Owed = motor
=============================================================================
