------------------------------ MODULE Machine ------------------------------
(***************************************************************************)
(* The outputs of cnc_module.v that share one bus and one clock without    *)
(* sharing a register: the watchdog with its charge pump (ChargePump) and  *)
(* the spindle's PWM (Spindle), and outside the FPGA the circuit that the  *)
(* charge pump holds enabled.  What the bite stops is the pump alone: the  *)
(* spindle and the axes go on with their last command until that circuit   *)
(* takes the drives' power away.                                           *)
(***************************************************************************)
EXTENDS ChargePump

CONSTANTS
  Hold,    \* clocks without an edge that the external circuit tolerates
  ClockHz, Full, Frequencies    \* as in SpindleSpeed

ASSUME HoldAssumption == Hold \in Nat
ASSUME SpeedAssumption ==
  /\ ClockHz \in Nat /\ Full \in Nat \ {0}
  /\ Frequencies \subseteq Nat \ {0}
  /\ \A freq \in Frequencies : ClockHz \div freq \in 0 .. Word - 2

VARIABLES
  pwm_counter, pwm_capture, spindle_count,  \* the spindle's registers
  high, steady,                             \* and history, as in Spindle
  quiet      \* clocks since an edge of the pump line, saturating past Hold

spindle == <<pwm_counter, pwm_capture, spindle_count, high, steady>>
mvars == <<vars, spindle, quiet>>

Spin == INSTANCE SpindleSpeed WITH count <- spindle_count

DrivesEnabled == quiet <= Hold

MTypeOK == TypeOK /\ Spin!TypeOK /\ quiet \in 0 .. Hold + 1

MInit == Init /\ Spin!Init /\ quiet = Hold + 1

-----------------------------------------------------------------------------
(* The external circuit sees the pump line and nothing else. *)
Sense ==
  quiet' = IF cp' # cp THEN 0 ELSE Smaller(quiet + 1, Hold + 1)

(* The bus cycles of one clock: of the writes, some are to the spindle. *)
Write == WriteCycle /\ Spin!Tick
Read == ReadCycle /\ Spin!NoWrite /\ Spin!Tick
Idle == IdleCycle /\ Spin!NoWrite /\ Spin!Tick

Clock ==
  /\ Write \/ Read \/ Idle
  /\ Bite
  /\ count' = NextCount(count, PumpCounter)
  /\ Sense

MReset == Reset /\ Spin!Reset /\ Sense

MNext == Clock \/ MReset

MSpec == MInit /\ [][MNext]_mvars

(* The 50 MHz clock never stops. *)
MFairSpec == MSpec /\ WF_mvars(Clock)

-----------------------------------------------------------------------------
(***************************************************************************)
(* With the host gone, whatever the registers hold and whatever is written *)
(* to them, the drives are disabled from Hold clocks after the pump stops  *)
(* until the watchdog's counter wraps.                                     *)
(***************************************************************************)
DrivesOff == unfed \in BiteLimit + 2 + Hold + 1 .. Word - 1 => ~DrivesEnabled

(***************************************************************************)
(* A host that keeps reading within the limit gets the drives enabled for  *)
(* good, unless the board is reset again and again: wherever in a pump     *)
(* cycle the bite is lifted, the edges come often enough for the external  *)
(* circuit (cnc_module.v:225, "CP generates clock while watchdog is        *)
(* happy").                                                                *)
(***************************************************************************)
DrivesStayOn ==
  <>[](unfed <= BiteLimit) /\ <>[][~MReset]_mvars => <>[]DrivesEnabled

(***************************************************************************)
(* The spindle's pin keeps its commanded duty and goes on turning out      *)
(* cycles, fed or bitten (cnc_module.v:203-210 is not gated): what the     *)
(* promise of DrivesOff leaves running.                                    *)
(***************************************************************************)
DutyAsCommanded == Spin!DutyAsCommanded
SpeedAsCommanded == Spin!SpeedAsCommanded
CyclesRecur == Spin!CyclesRecur
=============================================================================
