--------------------------- MODULE MachineProofs ---------------------------
(***************************************************************************)
(* Proofs about Machine for every register size, bite limit, pump cycle    *)
(* and tolerance of the external circuit, from what is proved of the       *)
(* watchdog and of the spindle by themselves.                              *)
(***************************************************************************)
EXTENDS Machine, ModularLemmas

-----------------------------------------------------------------------------
(* The watchdog and its pump, for every value that PumpAssumption allows;  *)
(* the hardware's satisfy it.                                              *)
LEMMA PumpFacts ==
  /\ Word \in Nat \ {0} /\ BiteLimit \in Nat /\ PumpCounter \in Nat
  /\ PumpCapture \in Unsigned /\ Never \in Unsigned /\ 0 \in Unsigned
  /\ BiteLimit + 2 < Word /\ PumpCounter + 2 < Word
  BY PumpAssumption, WordAssumption DEF Unsigned, Never

(***************************************************************************)
(* PumpHeld is not inductive: it says nothing of the clocks before the     *)
(* bite.  Until it wraps the watchdog register is the number of unfed      *)
(* clocks; the capture register is one clock behind it, and the pump's     *)
(* count is below Never except right after a reset.                        *)
(***************************************************************************)
WatchdogCounts == unfed < Word => wd_counter = unfed

CaptureRaised == unfed \in BiteLimit + 2 .. Word - 1 => cp_capture = Never

CountBelowNever == count = Never => unfed <= 1

IInv == TypeOK /\ WatchdogCounts /\ CaptureRaised /\ CountBelowNever

LEMMA InitIInv == Init => IInv
<1> SUFFICES ASSUME Init PROVE IInv
  OBVIOUS
<1> USE PumpFacts DEF Init, ResetCount
<1>1. TypeOK
  BY DEF TypeOK, Unsigned
<1>2. WatchdogCounts /\ CaptureRaised /\ CountBelowNever
  BY DEF WatchdogCounts, CaptureRaised, CountBelowNever
<1>3. QED
  BY <1>1, <1>2 DEF IInv

LEMMA CountStep ==
  ASSUME NEW c \in Unsigned
  PROVE  /\ NextCount(c, PumpCounter) \in Unsigned
         /\ NextCount(c, PumpCounter) # Never
<1>1. c \in Nat /\ c <= Word - 1
  BY PumpFacts DEF Unsigned
<1>2. CASE c > PumpCounter
  BY <1>2, PumpFacts DEF NextCount, Never
<1>3. CASE c <= PumpCounter
  <2>1. c + 1 \in 0 .. Word - 1 /\ c + 1 < Word - 1
    BY <1>1, <1>3, PumpFacts
  <2>2. (c + 1) % Word = c + 1
    BY <2>1, ModIdentity, PumpFacts
  <2>3. NextCount(c, PumpCounter) = c + 1
    BY <1>1, <1>3, <2>2, PumpFacts DEF NextCount
  <2>4. QED
    BY <2>1, <2>3 DEF Unsigned, Never
<1>4. QED
  BY <1>1, <1>2, <1>3, PumpFacts

(* One idle clock, as facts about plain numbers. *)
LEMMA IdleStep ==
  ASSUME NEW w \in Unsigned, NEW u \in 0 .. Word
  PROVE  LET u2 == IF u = Word THEN Word ELSE u + 1
         IN  /\ u2 \in 0 .. Word /\ u <= u2 /\ u2 <= u + 1
             /\ (w + 1) % Word \in Unsigned
             /\ u2 < Word /\ w = u => (w + 1) % Word = u2
             /\ u2 < Word => u < Word
<1> DEFINE u2 == IF u = Word THEN Word ELSE u + 1
<1>1. /\ u2 \in 0 .. Word /\ u <= u2 /\ u2 <= u + 1
      /\ u2 < Word => u < Word
  BY PumpFacts
<1>2. (w + 1) % Word \in Unsigned
  BY ModRange, PumpFacts DEF Unsigned
<1>3. ASSUME u2 < Word, w = u PROVE (w + 1) % Word = u2
  <2>1. w + 1 = u2 /\ u2 \in 0 .. Word - 1
    BY <1>1, <1>3, PumpFacts
  <2>2. QED
    BY <2>1, ModIdentity, PumpFacts
<1>4. QED
  BY <1>1, <1>2, <1>3

LEMMA NextIInv == IInv /\ [Next]_vars => IInv'
<1> SUFFICES ASSUME IInv, [Next]_vars PROVE IInv'
  OBVIOUS
<1> USE DEF IInv
<1>1. ASSUME Tick PROVE IInv'
  <2>1. count' \in Unsigned /\ count' # Never
    BY <1>1, CountStep DEF Tick, TypeOK
  <2>2. cp_capture' = IF wd_counter > BiteLimit THEN Never ELSE PumpCapture
    BY <1>1 DEF Tick, Bite
  <2>3. cp_capture' \in Unsigned
    BY <2>2, PumpFacts
  <2>4. CASE WriteCycle
    <3>1. wd_counter' = wd_counter /\ unfed' = unfed
      BY <2>4 DEF WriteCycle
    <3>2. unfed \in BiteLimit + 2 .. Word - 1 => wd_counter > BiteLimit
      BY PumpFacts DEF WatchdogCounts, TypeOK
    <3>3. QED
      BY <2>1, <2>2, <2>3, <3>1, <3>2
      DEF TypeOK, WatchdogCounts, CaptureRaised, CountBelowNever
  <2>5. CASE ReadCycle
    <3>1. wd_counter' = 0 /\ unfed' = 0
      BY <2>5 DEF ReadCycle
    <3>2. 0 \notin BiteLimit + 2 .. Word - 1 /\ 0 \in 0 .. Word
      BY PumpFacts
    <3>3. QED
      BY <2>1, <2>3, <3>1, <3>2, PumpFacts
      DEF TypeOK, WatchdogCounts, CaptureRaised, CountBelowNever
  <2>6. CASE IdleCycle
    <3> DEFINE u2 == IF unfed = Word THEN Word ELSE unfed + 1
    <3>1. wd_counter' = (wd_counter + 1) % Word /\ unfed' = u2
      BY <2>6 DEF IdleCycle
    <3>2. wd_counter \in Unsigned /\ unfed \in 0 .. Word
      BY DEF TypeOK
    <3>3. /\ u2 \in 0 .. Word /\ u2 <= unfed + 1
          /\ (wd_counter + 1) % Word \in Unsigned
          /\ u2 < Word /\ wd_counter = unfed => (wd_counter + 1) % Word = u2
          /\ u2 < Word => unfed < Word
      BY <3>2, IdleStep
    <3>4. TypeOK'
      BY <2>1, <2>3, <3>1, <3>3 DEF TypeOK
    <3>5. WatchdogCounts'
      BY <3>1, <3>3 DEF WatchdogCounts
    <3>6. CaptureRaised'
      <4>1. SUFFICES ASSUME u2 \in BiteLimit + 2 .. Word - 1
                     PROVE  cp_capture' = Never
        BY <3>1 DEF CaptureRaised
      <4>2. wd_counter = unfed /\ unfed > BiteLimit
        BY <3>2, <3>3, <4>1, PumpFacts DEF WatchdogCounts
      <4>3. QED
        BY <2>2, <4>2
    <3>7. CountBelowNever'
      BY <2>1 DEF CountBelowNever, Never
    <3>8. QED
      BY <3>4, <3>5, <3>6, <3>7
  <2>7. QED
    BY <1>1, <2>4, <2>5, <2>6 DEF Tick
<1>2. ASSUME Reset PROVE IInv'
  <2>1. /\ wd_counter' = 0 /\ cp_capture' = PumpCapture
        /\ count' = Never /\ unfed' = 0
    BY <1>2 DEF Reset, ResetCount, Never
  <2>2. 0 \notin BiteLimit + 2 .. Word - 1 /\ 0 \in 0 .. Word /\ 0 <= 1
    BY PumpFacts
  <2>3. QED
    BY <2>1, <2>2, PumpFacts
    DEF TypeOK, WatchdogCounts, CaptureRaised, CountBelowNever
<1>3. ASSUME UNCHANGED vars PROVE IInv'
  BY <1>3
  DEF vars, TypeOK, WatchdogCounts, CaptureRaised, CountBelowNever
<1>4. QED
  BY <1>1, <1>2, <1>3 DEF Next

LEMMA IInvAlways == Spec => []IInv
  BY InitIInv, NextIInv, PTL DEF Spec

(* The watchdog, the pump and the history keep their types. *)
THEOREM TypeCorrect == Spec => []TypeOK
<1>1. IInv => TypeOK
  BY DEF IInv
<1>2. QED
  BY <1>1, IInvAlways, PTL

(* The pin in a bitten state. *)
LEMMA HeldWhenBitten == IInv => PumpHeld
<1> SUFFICES ASSUME IInv, unfed \in BiteLimit + 2 .. Word - 1
             PROVE  cp = 1
  BY DEF PumpHeld
<1>1. cp_capture = Never
  BY DEF IInv, CaptureRaised
<1>2. unfed > 1
  BY PumpFacts
<1>3. count \in Unsigned /\ count # Never
  BY <1>2, PumpFacts DEF IInv, CountBelowNever, TypeOK
<1>4. count < Never
  BY <1>3, PumpFacts DEF Unsigned, Never
<1>5. QED
  BY <1>1, <1>4 DEF cp, Out

(* For every bite limit below the register's range, a host that stops      *)
(* stroking the watchdog stops the charge pump, whatever is written        *)
(* meanwhile, until the watchdog register wraps.                           *)
THEOREM PumpHeldCorrect == Spec => []PumpHeld
  BY HeldWhenBitten, IInvAlways, PTL

-----------------------------------------------------------------------------
(* The spindle, for every register size of at least two values.            *)
(***************************************************************************)
(* What DutyAsCommanded says at the end of a cycle is the sum of what each *)
(* clock added; the invariant keeps that sum as a function of count.       *)
(***************************************************************************)
HighSoFar ==
  /\ high <= spindle_count
  /\ steady = 1 => /\ high = Spin!Smaller(spindle_count, pwm_capture)
                   /\ spindle_count <= pwm_counter + 1

SpinInv == Spin!TypeOK /\ HighSoFar

LEMMA SpinFacts ==
  Word \in Nat \ {0} /\ 0 \in Spin!Unsigned /\ Spin!ResetCount \in Spin!Unsigned
  BY WordAssumption DEF Spin!Unsigned, Spin!ResetCount

(* One clock of the generator, as a fact about plain numbers. *)
LEMMA SpinCountStep ==
  ASSUME NEW c \in Spin!Unsigned, NEW pc \in Spin!Unsigned
  PROVE  /\ Spin!NextCount(c, pc) \in Spin!Unsigned
         /\ Spin!NextCount(c, pc) # 0
              => /\ Spin!NextCount(c, pc) = c + 1 /\ c <= pc
                 /\ c + 1 \in Spin!Unsigned
         /\ Spin!NextCount(c, pc) = 0 /\ c <= pc + 1
              => c + 1 = Spin!Smaller(pc + 2, Word)
<1>1. c \in Nat /\ c <= Word - 1 /\ pc \in Nat /\ pc <= Word - 1
  BY SpinFacts DEF Spin!Unsigned
<1>2. CASE c > pc
  <2>1. Spin!NextCount(c, pc) = 0
    BY <1>2 DEF Spin!NextCount
  <2>2. QED
    BY <1>1, <1>2, <2>1, SpinFacts DEF Spin!Smaller
<1>3. CASE c <= pc /\ c < Word - 1
  <2>1. c + 1 \in 0 .. Word - 1 /\ c + 1 # 0
    BY <1>1, <1>3, SpinFacts
  <2>2. Spin!NextCount(c, pc) = c + 1
    BY <1>1, <1>3, <2>1, ModIdentity, SpinFacts DEF Spin!NextCount
  <2>3. QED
    BY <1>3, <2>1, <2>2 DEF Spin!Unsigned
<1>4. CASE c <= pc /\ c = Word - 1
  <2>1. Word = 1 * Word + 0 /\ 0 \in 0 .. Word - 1
    BY SpinFacts
  <2>2. Word % Word = 0
    BY <2>1, ModUnique, SpinFacts
  <2>3. Spin!NextCount(c, pc) = 0
    BY <1>1, <1>4, <2>2, SpinFacts DEF Spin!NextCount
  <2>4. QED
    BY <1>1, <1>4, <2>3, SpinFacts DEF Spin!Smaller
<1>5. QED
  BY <1>1, <1>2, <1>3, <1>4, SpinFacts

(* The pin adds the current clock to the minimum. *)
LEMMA HighStep ==
  ASSUME NEW c \in Spin!Unsigned, NEW cap \in Spin!Unsigned,
         NEW h \in Spin!Unsigned, h <= c
  PROVE  /\ h + Spin!Out(c, cap) \in Nat /\ h + Spin!Out(c, cap) <= c + 1
         /\ h = Spin!Smaller(c, cap)
              => h + Spin!Out(c, cap) = Spin!Smaller(c + 1, cap)
  BY SpinFacts DEF Spin!Unsigned, Spin!Out, Spin!Smaller

LEMMA NextSpinInv == SpinInv /\ [Spin!Next]_(Spin!vars) => SpinInv'
<1> SUFFICES ASSUME SpinInv, [Spin!Next]_(Spin!vars) PROVE SpinInv'
  OBVIOUS
<1> USE SpinFacts DEF SpinInv
<1>1. ASSUME Spin!Tick PROVE SpinInv'
  <2>1. /\ Spin!NoWrite \/ Spin!WriteCounter \/ Spin!WriteCapture
        /\ spindle_count' = Spin!NextCount(spindle_count, pwm_counter)
        /\ high' = IF spindle_count' = 0 THEN 0
                   ELSE high + Spin!Out(spindle_count, pwm_capture)
        /\ steady' = IF spindle_count' = 0 \/ (steady = 1 /\ Spin!NoWrite)
                       THEN 1 ELSE 0
    BY <1>1 DEF Spin!Tick, Spin!Observe, Spin!CycleEnds, Spin!ospindle_pwm
  <2>2. /\ spindle_count \in Spin!Unsigned /\ pwm_counter \in Spin!Unsigned
        /\ pwm_capture \in Spin!Unsigned
        /\ high \in Spin!Unsigned /\ high <= spindle_count
    BY DEF Spin!TypeOK, HighSoFar
  <2>3. pwm_counter' \in Spin!Unsigned /\ pwm_capture' \in Spin!Unsigned
    BY <2>1, <2>2 DEF Spin!NoWrite, Spin!WriteCounter, Spin!WriteCapture
  <2>4. spindle_count' \in Spin!Unsigned
    BY <2>1, <2>2, SpinCountStep
  <2>5. CASE spindle_count' = 0
    <3>1. high' = 0 /\ steady' = 1
      BY <2>1, <2>5
    <3>2. \A cap, pc \in Spin!Unsigned : 0 = Spin!Smaller(0, cap) /\ 0 <= pc + 1
      BY DEF Spin!Smaller, Spin!Unsigned
    <3>3. HighSoFar'
      BY <2>3, <2>5, <3>1, <3>2 DEF HighSoFar
    <3>4. QED
      BY <2>3, <2>4, <3>1, <3>3 DEF Spin!TypeOK
  <2>6. CASE spindle_count' # 0
    <3>1. /\ spindle_count' = spindle_count + 1 /\ spindle_count <= pwm_counter
          /\ spindle_count + 1 \in Spin!Unsigned
      BY <2>1, <2>2, <2>6, SpinCountStep
    <3>2. high' = high + Spin!Out(spindle_count, pwm_capture)
      BY <2>1, <2>6
    <3>3. /\ high + Spin!Out(spindle_count, pwm_capture) \in Nat
          /\ high + Spin!Out(spindle_count, pwm_capture) <= spindle_count + 1
          /\ high = Spin!Smaller(spindle_count, pwm_capture)
               => high + Spin!Out(spindle_count, pwm_capture)
                    = Spin!Smaller(spindle_count + 1, pwm_capture)
      BY <2>2, HighStep
    <3>4. \A h \in Nat, c \in Spin!Unsigned : h <= c => h \in Spin!Unsigned
      BY DEF Spin!Unsigned
    <3>5. high' \in Spin!Unsigned /\ high' <= spindle_count'
      BY <3>1, <3>2, <3>3, <3>4
    <3>6. steady' = 1 => steady = 1 /\ Spin!NoWrite
      BY <2>1, <2>6
    <3>7. \A c, pc \in Spin!Unsigned : c <= pc => c + 1 <= pc + 1
      BY DEF Spin!Unsigned
    <3>8. steady' = 1 => /\ high' = Spin!Smaller(spindle_count', pwm_capture')
                         /\ spindle_count' <= pwm_counter' + 1
      BY <2>2, <3>1, <3>2, <3>3, <3>6, <3>7 DEF HighSoFar, Spin!NoWrite
    <3>9. steady' \in {0, 1}
      BY <2>1
    <3>10. QED
      BY <2>3, <2>4, <3>5, <3>8, <3>9 DEF Spin!TypeOK, HighSoFar
  <2>7. QED
    BY <2>5, <2>6
<1>2. ASSUME Spin!Reset PROVE SpinInv'
  <2>1. 0 <= Spin!ResetCount
    BY DEF Spin!ResetCount
  <2>2. QED
    BY <1>2, <2>1 DEF Spin!Reset, Spin!TypeOK, HighSoFar
<1>3. ASSUME UNCHANGED Spin!vars PROVE SpinInv'
  BY <1>3 DEF Spin!vars, Spin!TypeOK, HighSoFar
<1>4. QED
  BY <1>1, <1>2, <1>3 DEF Spin!Next

LEMMA InitSpinInv == Spin!Init => SpinInv
  BY SpinFacts DEF Spin!Init, SpinInv, Spin!TypeOK, HighSoFar, Spin!ResetCount

(* One clock: what the last clock of an undisturbed cycle adds up to. *)
LEMMA DutyStep ==
  SpinInv /\ [Spin!Next]_(Spin!vars)
    => [Spin!Tick /\ Spin!CycleEnds /\ steady = 1
          => high + Spin!ospindle_pwm
               = Spin!Smaller(pwm_capture, Spin!Smaller(pwm_counter + 2, Word))
       ]_(Spin!vars)
<1>1. ASSUME SpinInv, Spin!Tick, Spin!CycleEnds, steady = 1
      PROVE  high + Spin!ospindle_pwm
               = Spin!Smaller(pwm_capture, Spin!Smaller(pwm_counter + 2, Word))
  <2>1. /\ spindle_count \in Spin!Unsigned /\ pwm_counter \in Spin!Unsigned
        /\ pwm_capture \in Spin!Unsigned
        /\ high \in Spin!Unsigned /\ high <= spindle_count
        /\ high = Spin!Smaller(spindle_count, pwm_capture)
        /\ spindle_count <= pwm_counter + 1
    BY <1>1 DEF SpinInv, Spin!TypeOK, HighSoFar
  <2>2. Spin!NextCount(spindle_count, pwm_counter) = 0
    BY <1>1 DEF Spin!Tick, Spin!CycleEnds
  <2>3. spindle_count + 1 = Spin!Smaller(pwm_counter + 2, Word)
    BY <2>1, <2>2, SpinCountStep
  <2>4. high + Spin!ospindle_pwm = Spin!Smaller(spindle_count + 1, pwm_capture)
    BY <2>1, HighStep DEF Spin!ospindle_pwm
  <2>5. Spin!Smaller(spindle_count + 1, pwm_capture)
          = Spin!Smaller(pwm_capture, spindle_count + 1)
    BY <2>1, SpinFacts DEF Spin!Smaller, Spin!Unsigned
  <2>6. QED
    BY <2>3, <2>4, <2>5
<1>2. QED
  BY <1>1
-----------------------------------------------------------------------------
(* The watchdog and its pump are those of ChargePump: nothing the spindle  *)
(* or the external circuit does reaches them (cnc_module.v:46-127).        *)
THEOREM ImplementsPump == MSpec => Spec
<1>1. MInit => Init
  BY DEF MInit
<1>2. [MNext]_mvars => [Next]_vars
  BY DEF MNext, Clock, Write, Read, Idle, MReset, Next, Tick, mvars
<1>3. QED
  BY <1>1, <1>2, PTL DEF MSpec, Spec

(* And the spindle is that of Spindle: neither the bite nor a read         *)
(* disturbs it (cnc_module.v:203-210).                                     *)
LEMMA SpindleStep == [MNext]_mvars => [Spin!Next]_(Spin!vars)
<1>1. Clock => Spin!Tick
  BY DEF Clock, Write, Read, Idle
<1>2. MReset => Spin!Reset
  BY DEF MReset
<1>3. UNCHANGED mvars => UNCHANGED Spin!vars
  BY DEF mvars, spindle, Spin!vars
<1>4. QED
  BY <1>1, <1>2, <1>3 DEF MNext, Spin!Next

LEMMA SpindleInvariant == MSpec => []SpinInv
<1>1. MInit => SpinInv
  BY InitSpinInv DEF MInit
<1>2. SpinInv /\ [MNext]_mvars => SpinInv'
  BY SpindleStep, NextSpinInv
<1>3. QED
  BY <1>1, <1>2, PTL DEF MSpec

(* The spindle's duty survives the composition, bitten or fed: for         *)
(* registers of any size an undisturbed cycle has exactly the high time    *)
(* that the host wrote, whatever it wrote in earlier cycles.               *)
THEOREM DutyHolds == MSpec => DutyAsCommanded
<1>1. SpinInv /\ [MNext]_mvars
        => [Spin!Tick /\ Spin!CycleEnds /\ steady = 1
              => high + Spin!ospindle_pwm
                   = Spin!Smaller(pwm_capture,
                                  Spin!Smaller(pwm_counter + 2, Word))
           ]_(Spin!vars)
  BY SpindleStep, DutyStep
<1>2. QED
  BY <1>1, SpindleInvariant, PTL
  DEF MSpec, DutyAsCommanded, Spin!DutyAsCommanded

-----------------------------------------------------------------------------
(* What the driver's two conversions lose, as a fact about plain numbers.  *)
LEMMA SpeedArithmetic ==
  ASSUME NEW c \in Nat, NEW s \in Nat, NEW F \in Nat \ {0}, s <= F
  PROVE  /\ (s * c) \div F \in 0 .. c
         /\ s * (c + 2) - F * ((s * c) \div F) \in 0 .. 2 * s + F - 1
<1> DEFINE p == s * c
           k == p \div F
<1>1. p \in Nat /\ p <= F * c
  OBVIOUS
<1>2. k \in Nat /\ F * k <= p /\ p < F * k + F
  BY <1>1, DivFacts
<1>3. k <= c
  BY <1>1, <1>2
<1>4. s * (c + 2) = p + 2 * s
  OBVIOUS
<1>5. F * k \in Nat
  BY <1>2
<1> HIDE DEF p, k
<1>6. p + 2 * s - F * k \in 0 .. 2 * s + F - 1
  BY <1>1, <1>2, <1>5
<1>7. QED
  BY <1>2, <1>3, <1>4, <1>6 DEF p, k

(* The length of an undisturbed cycle and its high clocks. *)
LEMMA CycleFacts ==
  ASSUME SpinInv, Spin!Tick, Spin!CycleEnds, steady = 1
  PROVE  /\ spindle_count + 1 = Smaller(pwm_counter + 2, Word)
         /\ high + Spin!ospindle_pwm
              = Smaller(pwm_capture, Smaller(pwm_counter + 2, Word))
<1>1. /\ spindle_count \in Spin!Unsigned /\ pwm_counter \in Spin!Unsigned
      /\ spindle_count <= pwm_counter + 1
  BY DEF SpinInv, Spin!TypeOK, HighSoFar
<1>2. Spin!NextCount(spindle_count, pwm_counter) = 0
  BY DEF Spin!Tick, Spin!CycleEnds
<1>3. spindle_count + 1 = Spin!Smaller(pwm_counter + 2, Word)
  BY <1>1, <1>2, SpinCountStep
<1>4. Spin!vars' # Spin!vars
  <2>1. spindle_count # 0
    BY <1>1, <1>3, WordAssumption DEF Spin!Smaller, Spin!Unsigned
  <2>2. QED
    BY <2>1 DEF Spin!CycleEnds, Spin!vars
<1>5. high + Spin!ospindle_pwm
        = Spin!Smaller(pwm_capture, Spin!Smaller(pwm_counter + 2, Word))
  BY <1>4, DutyStep DEF Spin!Next
<1>6. QED
  BY <1>3, <1>5 DEF Smaller, Spin!Smaller

(* Every speed at every frequency that fits the registers is given exactly *)
(* or a little less.                                                       *)
THEOREM SpeedHolds == MSpec => SpeedAsCommanded
<1>1. ASSUME SpinInv, Spin!CycleEnds, steady = 1, Spin!Tick,
             NEW freq \in Frequencies, NEW rpm \in -Full .. Full,
             pwm_counter = Spin!CounterOf(freq),
             pwm_capture = Spin!CaptureOf(rpm, freq)
      PROVE  Spin!Lack(rpm, spindle_count + 1, high + Spin!ospindle_pwm)
               \in 0 .. 2 * Spin!Magnitude(rpm) + Full - 1
  <2> DEFINE s == Spin!Magnitude(rpm)
             c == ClockHz \div freq
             k == (s * c) \div Full
  <2>1. s \in Nat /\ s <= Full /\ Full \in Nat \ {0}
    BY SpeedAssumption DEF Spin!Magnitude
  <2>2. c \in Nat /\ c + 2 <= Word
    BY SpeedAssumption, WordAssumption
  <2>3. pwm_counter = c /\ pwm_capture = k
    BY <1>1 DEF Spin!CounterOf, Spin!CaptureOf
  <2> HIDE DEF s, c
  <2>4. k \in 0 .. c /\ s * (c + 2) - Full * k \in 0 .. 2 * s + Full - 1
    BY <2>1, <2>2, SpeedArithmetic
  <2> HIDE DEF k
  <2>5. spindle_count + 1 = c + 2 /\ high + Spin!ospindle_pwm = k
    BY <1>1, <2>2, <2>3, <2>4, CycleFacts, WordAssumption DEF Smaller
  <2>6. QED
    BY <2>4, <2>5 DEF s, Spin!Lack
<1>2. SpinInv /\ [MNext]_mvars
        => [Spin!CycleEnds /\ steady = 1 /\ Spin!Tick =>
              \A freq \in Frequencies, rpm \in -Full .. Full :
                pwm_counter = Spin!CounterOf(freq)
                  /\ pwm_capture = Spin!CaptureOf(rpm, freq)
                => Spin!Lack(rpm, spindle_count + 1, high + Spin!ospindle_pwm)
                     \in 0 .. 2 * Spin!Magnitude(rpm) + Full - 1]_(Spin!vars)
  BY <1>1
<1>3. QED
  BY <1>2, SpindleInvariant, PTL
  DEF MSpec, SpeedAsCommanded, Spin!SpeedAsCommanded

-----------------------------------------------------------------------------
(***************************************************************************)
(* DrivesOff is not inductive: in the state in which it starts to hold the *)
(* external circuit must already have been without an edge for Hold + 1    *)
(* clocks.  From two clocks after the bite on, which is where the line is  *)
(* known to stand still, quiet keeps up with the unfed clocks.             *)
(***************************************************************************)
QuietKeepsUp ==
  unfed \in BiteLimit + 2 .. Word - 1
    => quiet >= Smaller(unfed - (BiteLimit + 2), Hold + 1)

MInv == quiet \in 0 .. Hold + 1 /\ QuietKeepsUp

LEMMA MInitInv == MInit => MInv
<1> SUFFICES ASSUME MInit PROVE MInv
  OBVIOUS
<1>1. quiet = Hold + 1 /\ unfed = 0
  BY DEF MInit, Init
<1>2. QED
  BY <1>1, PumpAssumption, HoldAssumption DEF MInv, QuietKeepsUp

(* What one clock or a reset does to quiet and to the unfed clocks. *)
LEMMA UnfedStep ==
  ASSUME TypeOK, MNext
  PROVE  unfed' \in BiteLimit + 2 .. Word - 1
           => unfed \in Nat /\ unfed' \in {unfed, unfed + 1}
<1>1. unfed \in 0 .. Word /\ unfed \in Nat
  BY PumpFacts DEF TypeOK
<1>2. CASE MReset
  BY <1>2, PumpFacts DEF MReset, Reset
<1>3. CASE Write
  BY <1>1, <1>3 DEF Write, WriteCycle
<1>4. CASE Read
  BY <1>4, PumpFacts DEF Read, ReadCycle
<1>5. CASE Idle
  BY <1>1, <1>5 DEF Idle, IdleCycle
<1>6. QED
  BY <1>2, <1>3, <1>4, <1>5 DEF MNext, Clock

(* One clock without an edge, as a fact about plain numbers. *)
LEMMA KeepUp ==
  ASSUME NEW u \in Nat, NEW v \in {u, u + 1}, NEW b \in Nat, u >= b,
         NEW q \in 0 .. Hold + 1, q >= Smaller(u - b, Hold + 1)
  PROVE  Smaller(q + 1, Hold + 1) >= Smaller(v - b, Hold + 1)
  BY HoldAssumption DEF Smaller

LEMMA MNextInv ==
  TypeOK /\ PumpHeld /\ PumpHeld' /\ MInv /\ [MNext]_mvars => MInv'
<1> SUFFICES ASSUME TypeOK, PumpHeld, PumpHeld', MInv, [MNext]_mvars
             PROVE  MInv'
  OBVIOUS
<1>1. ASSUME MNext PROVE MInv'
  <2>1. quiet' = IF cp' # cp THEN 0 ELSE Smaller(quiet + 1, Hold + 1)
    BY <1>1 DEF MNext, Clock, MReset, Sense
  <2>2. quiet' \in 0 .. Hold + 1
    BY <2>1, HoldAssumption DEF MInv, Smaller
  <2>3. ASSUME unfed' \in BiteLimit + 2 .. Word - 1
        PROVE  quiet' >= Smaller(unfed' - (BiteLimit + 2), Hold + 1)
    <3>1. unfed \in Nat /\ unfed' \in {unfed, unfed + 1}
      BY <1>1, <2>3, UnfedStep
    <3>2. CASE unfed \in BiteLimit + 2 .. Word - 1
      <4>1. cp' = cp
        BY <2>3, <3>2 DEF PumpHeld
      <4>2. quiet >= Smaller(unfed - (BiteLimit + 2), Hold + 1)
        BY <3>2 DEF MInv, QuietKeepsUp
      <4>3. QED
        <5>1. /\ unfed >= BiteLimit + 2 /\ BiteLimit + 2 \in Nat
              /\ quiet \in 0 .. Hold + 1
          BY <3>1, <3>2, PumpFacts DEF MInv
        <5>2. quiet' = Smaller(quiet + 1, Hold + 1)
          BY <2>1, <4>1
        <5>3. QED
          BY <3>1, <4>2, <5>1, <5>2, KeepUp
    <3>3. CASE unfed \notin BiteLimit + 2 .. Word - 1
      <4>1. unfed' = BiteLimit + 2
        BY <2>3, <3>1, <3>3, PumpFacts
      <4>2. QED
        BY <2>2, <4>1, HoldAssumption, PumpFacts DEF Smaller
    <3>4. QED
      BY <3>2, <3>3
  <2>4. QED
    BY <2>2, <2>3 DEF MInv, QuietKeepsUp
<1>2. ASSUME UNCHANGED mvars PROVE MInv'
  BY <1>2 DEF mvars, vars, MInv, QuietKeepsUp
<1>3. QED
  BY <1>1, <1>2

(* For every tolerance of the external circuit that fits between the bite  *)
(* and the wrap, a host that stops stroking the watchdog loses the drives. *)
THEOREM DrivesOffCorrect == MSpec => []DrivesOff
<1>1. MSpec => [](TypeOK /\ PumpHeld)
  BY ImplementsPump, TypeCorrect, PumpHeldCorrect, PTL
<1>2. MSpec => []MInv
  BY <1>1, MInitInv, MNextInv, PTL DEF MSpec
<1>3. MInv => DrivesOff
  <2> SUFFICES ASSUME MInv,
                      unfed \in BiteLimit + 2 + Hold + 1 .. Word - 1
               PROVE  ~DrivesEnabled
    BY DEF DrivesOff
  <2>1. unfed \in BiteLimit + 2 .. Word - 1 /\ unfed - (BiteLimit + 2) >= Hold + 1
    BY HoldAssumption, PumpFacts
  <2>2. quiet >= Smaller(unfed - (BiteLimit + 2), Hold + 1) /\ quiet \in Nat
    BY <2>1, HoldAssumption DEF MInv, QuietKeepsUp
  <2>3. QED
    BY <2>1, <2>2, HoldAssumption, PumpFacts DEF Smaller, DrivesEnabled
<1>4. QED
  BY <1>2, <1>3, PTL

(* Every register of the two generators keeps its width.                   *)
THEOREM MTypeCorrect == MSpec => []MTypeOK
<1>1. MSpec => [](TypeOK /\ PumpHeld)
  BY ImplementsPump, TypeCorrect, PumpHeldCorrect, PTL
<1>2. MSpec => []MInv
  BY <1>1, MInitInv, MNextInv, PTL DEF MSpec
<1>3. TypeOK /\ MInv /\ SpinInv => MTypeOK
  BY DEF MTypeOK, MInv, SpinInv
<1>4. QED
  BY <1>1, <1>2, <1>3, SpindleInvariant, PTL
=============================================================================
