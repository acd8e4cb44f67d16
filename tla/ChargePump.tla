----------------------------- MODULE ChargePump -----------------------------
(***************************************************************************)
(* The watchdog of cnc_module.v and the charge pump it silences.  The      *)
(* charge pump feeds an external circuit that holds the machine enabled    *)
(* only while its input keeps toggling.  A register read by the Nios II    *)
(* strokes the watchdog; the Ethernet interrupt handler reads registers    *)
(* only when the host has sent a frame, so the pump should run only while  *)
(* the host is alive.                                                      *)
(*                                                                         *)
(* One step is one positive edge of clk, with at most one bus cycle.       *)
(***************************************************************************)
EXTENDS PwmGen

CONSTANTS
  BiteLimit,    \* idle clocks the watchdog tolerates: 50000000, one second
  PumpCounter,  \* pwm_counter of cp1: 5000
  PumpCapture   \* cp_capture while the watchdog is happy: 2500

VARIABLES
  wd_counter,   \* the watchdog
  cp_capture,   \* capture register of cp1
  count,        \* count register of cp1
  unfed         \* history: idle clocks since the last read, saturating at Word

vars == <<wd_counter, cp_capture, count, unfed>>

ASSUME PumpAssumption ==
  /\ BiteLimit \in Nat /\ PumpCounter \in Nat /\ PumpCapture \in Nat
  /\ BiteLimit + 2 < Word
  /\ PumpCounter + 2 < Word
  /\ 0 < PumpCapture /\ PumpCapture <= PumpCounter

Never == Word - 1    \* 32'hFFFFFFFF: above every value count takes

TypeOK ==
  /\ wd_counter \in Unsigned
  /\ cp_capture \in Unsigned
  /\ count \in Unsigned
  /\ unfed \in 0 .. Word

(* The pin that drives the external charge pump. *)
cp == Out(count, cp_capture)

(* cp_capture has no reset; it settles while reset_n is held.  *)
Init ==
  /\ wd_counter = 0
  /\ cp_capture = PumpCapture
  /\ count = ResetCount
  /\ unfed = 0

-----------------------------------------------------------------------------
(* Plausible mistakes, for the mutation runs: a write strokes the watchdog *)
(* too, the watchdog is wider than its register, it bites while fed, or a  *)
(* clock late.                                                             *)
WriteCycleStrokes == wd_counter' = 0 /\ UNCHANGED unfed

IdleCycleWide ==
  /\ wd_counter' = wd_counter + 1
  /\ unfed' = IF unfed = Word THEN Word ELSE unfed + 1

BiteInverted ==
  cp_capture' = IF wd_counter < BiteLimit THEN Never ELSE PumpCapture

BiteLate ==
  cp_capture' = IF wd_counter > BiteLimit + 1 THEN Never ELSE PumpCapture

-----------------------------------------------------------------------------
(* The bus cycle of this clock and what it does to the watchdog. *)
WriteCycle == UNCHANGED <<wd_counter, unfed>>

ReadCycle == wd_counter' = 0 /\ unfed' = 0

IdleCycle ==
  /\ wd_counter' = (wd_counter + 1) % Word
  /\ unfed' = IF unfed = Word THEN Word ELSE unfed + 1

(* The watchdog bites by raising the capture register beyond the count. *)
Bite ==
  cp_capture' = IF wd_counter > BiteLimit THEN Never ELSE PumpCapture

Tick ==
  /\ WriteCycle \/ ReadCycle \/ IdleCycle
  /\ Bite
  /\ count' = NextCount(count, PumpCounter)

Reset ==
  /\ wd_counter' = 0
  /\ cp_capture' = PumpCapture
  /\ count' = ResetCount
  /\ unfed' = 0

Next == Tick \/ Reset

Spec == Init /\ [][Next]_vars

-----------------------------------------------------------------------------
(***************************************************************************)
(* From two clocks after the bite until the watchdog counter wraps, the    *)
(* pump line stands still, whatever registers the processor writes in the  *)
(* meantime: writes do not stroke the watchdog and no write reaches        *)
(* cp_capture (cnc_module.v:63-64, 215-222).                               *)
(***************************************************************************)
PumpHeld == unfed \in BiteLimit + 2 .. Word - 1 => cp = 1

(***************************************************************************)
(* What the comments promise: the watchdog "is reset during read only"     *)
(* (cnc_module.v:64), so that once it has bitten the pump stands still     *)
(* until a read.                                                           *)
(***************************************************************************)
PumpHeldUntilRead == unfed >= BiteLimit + 2 => cp = 1
=============================================================================
