--------------------------- MODULE ActuationProofs ---------------------------
(***************************************************************************)
(* Proofs about Actuation for every clock, scale, threshold, register size *)
(* and set of velocities.                                                  *)
(***************************************************************************)
EXTENDS Actuation, ModularLemmas

-----------------------------------------------------------------------------
(* The step generator, for every register size, every set of periods and   *)
(* every travel.  MaxTravel only narrows Edge; no proof uses it.           *)
LEMMA WordIsPositive == Word \in Nat \ {0} /\ Word = 2 * Half /\ Half \in Nat
  BY HalfAssumption DEF Word

LEMMA DeltaInt == \A d \in Bit : Delta(d) \in Int
  BY DEF Bit, Delta

LEMMA ResetValues ==
  0 \in Unsigned /\ Origin \in Unsigned /\ Horizon \in 0 .. Horizon /\ 0 \in Int
  BY HalfAssumption DEF Unsigned, Origin, Horizon, Word

(* Every action keeps every variable in its type. *)
LEMMA TypeInductive == TypeOK /\ [Next]_vars => TypeOK'
<1> SUFFICES ASSUME TypeOK, [Next]_vars PROVE TypeOK'
  OBVIOUS
<1> USE DEF TypeOK, Bit
<1>1. ASSUME Tick PROVE TypeOK'
  <2> USE DEF Unsigned
  <2>1. Generate /\ Latch /\ Accumulate /\ BusCycle /\ Observe
    BY <1>1 DEF Tick, Edge
  <2>2. counter' \in Unsigned /\ step_out' \in Bit
    <3>1. CASE Toggle
      BY <3>1, WordIsPositive DEF Toggle
    <3>2. CASE Count
      <4>1. counter' = (counter + 1) % Word /\ step_out' = step_out
        BY <3>2 DEF Count
      <4>2. counter + 1 \in Int
        OBVIOUS
      <4>3. QED
        BY <4>1, <4>2, ModRange, WordIsPositive
    <3>3. CASE Halt
      BY <3>3, WordIsPositive DEF Halt
    <3>4. QED
      BY <2>1, <3>1, <3>2, <3>3 DEF Generate
  <2>3. last_step_out' \in Bit
    BY <2>1 DEF Latch
  <2>4. location' \in Unsigned
    <3>1. location + Delta(dir) \in Int
      BY DeltaInt
    <3>2. (location + Delta(dir)) % Word \in Unsigned
      BY <3>1, ModRange, WordIsPositive
    <3>3. QED
      BY <2>1, <3>2 DEF Accumulate
  <2>5. period' \in Unsigned /\ dir' \in Bit /\ en' \in Bit
    BY <2>1, PeriodsAssumption
    DEF BusCycle, NoWrite, WritePeriod, WriteDirEnable, regs
  <2>6. motor' \in Int
    BY <2>1, <2>5, DeltaInt DEF Observe
  <2>7. sinceRise' \in 0 .. Horizon
    BY <2>1, WordIsPositive DEF Observe, Horizon, Smaller
  <2>8. fastest' \in Unsigned
    BY <2>1, <2>5 DEF Observe, Smaller
  <2>9. runt' \in Bit
    BY <2>1 DEF Observe
  <2>10. QED
    BY <2>2, <2>3, <2>4, <2>5, <2>6, <2>7, <2>8, <2>9
<1>2. ASSUME Reset PROVE TypeOK'
  <2> USE <1>2, ResetValues DEF Reset
  <2>1. period' \in Unsigned /\ dir' \in Bit /\ en' \in Bit
    BY Zenon
  <2>2. counter' \in Unsigned /\ step_out' \in Bit /\ last_step_out' \in Bit
    BY Zenon
  <2>3. location' \in Unsigned /\ motor' \in Int
    BY Zenon
  <2>4. sinceRise' \in 0 .. Horizon /\ fastest' \in Unsigned /\ runt' \in Bit
    BY Zenon
  <2>5. QED
    BY <2>1, <2>2, <2>3, <2>4
<1>3. ASSUME UNCHANGED vars PROVE TypeOK'
  BY <1>3 DEF vars
<1>4. QED
  BY <1>1, <1>2, <1>3 DEF Next

LEMMA TypeInitial == Init => TypeOK
  BY ResetValues, Zenon DEF Init, TypeOK, Bit

(* The registers, the pins and the observer's counters keep their types    *)
(* along every behaviour, resets included.                                 *)
THEOREM TypeCorrect == Spec => []TypeOK
  BY TypeInitial, TypeInductive, PTL DEF Spec

-----------------------------------------------------------------------------
(* The accumulator, with the pulse it has yet to count, stays congruent to *)
(* the motor's position.                                                   *)
LEMMA LocationInductive ==
  TypeOK /\ TypeOK' /\ LocationTracksMotor /\ [Next]_vars
    => LocationTracksMotor'
<1> SUFFICES ASSUME TypeOK, TypeOK', LocationTracksMotor, [Next]_vars
             PROVE  LocationTracksMotor'
  OBVIOUS
<1> USE DEF LocationTracksMotor
<1>1. ASSUME Tick PROVE LocationTracksMotor'
  <2>1. Generate /\ Latch /\ Accumulate /\ Observe
    BY <1>1 DEF Tick, Edge
  <2>2. last_step_out' = step_out
    BY <2>1 DEF Latch
  <2>3. Delta(dir) \in Int /\ Delta(dir') \in Int
    BY DeltaInt DEF TypeOK
  <2>4. location' = (location + Owed) % Word
    <3>1. CASE Stepped
      BY <2>1, <3>1 DEF Accumulate, Owed
    <3>2. CASE ~Stepped
      <4>1. Owed = 0 /\ location' = location
        BY <2>1, <3>2 DEF Accumulate, Owed
      <4>2. location % Word = location
        BY ModIdentity, WordIsPositive DEF TypeOK, Unsigned
      <4>3. location + 0 = location
        BY DEF TypeOK, Unsigned
      <4>4. QED
        BY <4>1, <4>2, <4>3
    <3>3. QED
      BY <3>1, <3>2
  <2>5. motor' = motor + Owed'
    <3>1. Stepped' <=> Rise
      BY <2>2 DEF Stepped, Rise, TypeOK, Bit
    <3>2. CASE Rise
      BY <2>1, <3>1, <3>2 DEF Observe, Owed
    <3>3. CASE ~Rise
      BY <2>1, <3>1, <3>3 DEF Observe, Owed, TypeOK
    <3>4. QED
      BY <3>2, <3>3
  <2>6. Owed \in Int /\ Owed' \in Int
    BY <2>3 DEF Owed
  <2>7. Origin + motor \in Int /\ location + Owed \in Int
    BY <2>6, WordIsPositive DEF Origin, TypeOK, Unsigned
  <2>8. location' = (Origin + motor) % Word
    BY <2>4
  <2>9. (location' + Owed') % Word = (Origin + motor + Owed') % Word
    BY <2>6, <2>7, <2>8, ModAdd, WordIsPositive
  <2>10. Origin + motor + Owed' = Origin + motor'
    BY <2>5, <2>6, WordIsPositive DEF Origin, TypeOK
  <2>11. QED
    BY <2>9, <2>10 DEF Origin
<1>2. ASSUME Reset PROVE LocationTracksMotor'
  <2>1. location' = Origin /\ motor' = 0 /\ ~Stepped'
    BY <1>2 DEF Reset, Stepped
  <2>2. QED
    BY <2>1 DEF Owed, Origin
<1>3. ASSUME UNCHANGED vars PROVE LocationTracksMotor'
  BY <1>3 DEF vars, Owed, Stepped
<1>4. QED
  BY <1>1, <1>2, <1>3 DEF Next

(* What the host reads as the axis's position is where the motor is,       *)
(* modulo the register, at every clock of every behaviour.                 *)
THEOREM LocationCorrect == Spec => []LocationTracksMotor
<1>1. Init => LocationTracksMotor
  BY DEF Init, LocationTracksMotor, Owed, Stepped, Origin
<1>2. QED
  BY <1>1, TypeCorrect, LocationInductive, PTL DEF Spec

-----------------------------------------------------------------------------
(***************************************************************************)
(* StepRateBounded compares two instants far apart, so its proof needs to  *)
(* know how much time the counter stands for.  While the pulse is high the *)
(* counter cannot have run for longer than the pulse; once it is low, the  *)
(* time since the rise also covers the high half, or the clock of the cut. *)
(***************************************************************************)
HighPart(f, r) == IF r = 1 THEN 1 ELSE f + 2

ElapsedCoversCounter ==
  /\ fastest <= period
  /\ step_out = 1 => sinceRise >= counter /\ runt = 0
  /\ step_out = 0 => sinceRise >= counter + HighPart(fastest, runt)

(* A saturating counter stays above every bound it has passed. *)
LEMMA SaturatingStep ==
  ASSUME NEW s \in 0 .. Horizon, NEW b \in Nat, b <= s + 1, b <= Horizon
  PROVE  b <= Smaller(s + 1, Horizon)
  BY WordIsPositive DEF Smaller, Horizon

(* The high half is a part of the time that sinceRise can hold. *)
LEMMA HighPartFits ==
  ASSUME NEW f \in Unsigned, NEW r \in Bit
  PROVE  /\ HighPart(f, r) \in Nat
         /\ \A c \in Unsigned : c + HighPart(f, r) <= Horizon
  BY WordIsPositive DEF HighPart, Unsigned, Horizon, Bit

(* The arithmetic of a fall, of a clock and of a shorter period. *)
LEMMA FallIsLate ==
  \A f, f2, p, c, c2, s \in Int :
    f2 <= f /\ f <= p /\ c > p /\ s >= c /\ c2 = 0 => c2 + (f2 + 2) <= s + 1
  BY SMT

LEMMA HighPartMonotone ==
  \A f, f2, r \in Int : f2 <= f => HighPart(f2, r) <= HighPart(f, r)
  BY SMT DEF HighPart

LEMMA WrappedIncrement ==
  \A c \in Unsigned : (c + 1) % Word <= c + 1 /\ (c + 1) % Word \in Int
<1> SUFFICES ASSUME NEW c \in Unsigned
             PROVE  (c + 1) % Word <= c + 1 /\ (c + 1) % Word \in Int
  OBVIOUS
<1>1. c \in Nat /\ c <= Word - 1
  BY WordIsPositive DEF Unsigned
<1>2. (c + 1) % Word \in 0 .. Word - 1
  BY <1>1, ModRange, WordIsPositive
<1>3. CASE c + 1 <= Word - 1
  BY <1>1, <1>3, ModIdentity, WordIsPositive
<1>4. CASE c + 1 > Word - 1
  BY <1>1, <1>2, <1>4, WordIsPositive
<1>5. QED
  BY <1>1, <1>3, <1>4, WordIsPositive

LEMMA ElapsedInductive ==
  TypeOK /\ TypeOK' /\ ElapsedCoversCounter /\ [Next]_vars
    => ElapsedCoversCounter'
<1> SUFFICES ASSUME TypeOK, TypeOK', ElapsedCoversCounter, [Next]_vars
             PROVE  ElapsedCoversCounter'
  OBVIOUS
<1> DEFINE high == HighPart(fastest, runt)
           high2 == HighPart(fastest', runt')
<1>1. ASSUME Tick PROVE ElapsedCoversCounter'
  <2>1. Generate /\ Observe
    BY <1>1 DEF Tick, Edge
  <2>2. /\ counter \in Unsigned /\ counter' \in Unsigned
        /\ period \in Unsigned /\ period' \in Unsigned
        /\ fastest \in Unsigned /\ fastest' \in Unsigned
        /\ sinceRise \in 0 .. Horizon
        /\ step_out \in Bit /\ step_out' \in Bit /\ runt \in Bit /\ runt' \in Bit
    BY DEF TypeOK
  <2> /\ counter \in Int /\ counter' \in Int /\ period \in Int /\ period' \in Int
      /\ fastest \in Int /\ fastest' \in Int /\ sinceRise \in Int
    BY <2>2, WordIsPositive DEF Unsigned, Horizon
  <2>3. CASE Rise
    <3>1. sinceRise' = 0 /\ fastest' = period' /\ runt' = 0 /\ step_out' = 1
      BY <2>1, <2>3 DEF Observe, Rise
    <3>2. counter' = 0
      BY <2>1, <2>3 DEF Generate, Toggle, Count, Halt, Rise
    <3>3. QED
      BY <2>2, <3>1, <3>2 DEF ElapsedCoversCounter, Unsigned
  <2>4. CASE ~Rise
    <3>1. /\ sinceRise' = Smaller(sinceRise + 1, Horizon)
          /\ fastest' = Smaller(fastest, period')
          /\ runt' = IF en = 0 /\ step_out = 1 THEN 1 ELSE runt
      BY <2>1, <2>4 DEF Observe
    <3>2. fastest' <= period' /\ fastest' <= fastest
      BY <2>2, <3>1 DEF Smaller, Unsigned
    <3>3. /\ high \in Nat /\ high2 \in Nat
          /\ counter' + high2 \in Nat /\ counter' + high2 <= Horizon
      BY <2>2, HighPartFits DEF Unsigned
    <3>4. ASSUME counter' + high2 <= sinceRise + 1
          PROVE  counter' + high2 <= sinceRise'
      BY <2>2, <3>1, <3>3, <3>4, SaturatingStep
    <3>5. CASE Toggle
      <4>1. step_out = 1 /\ step_out' = 0 /\ counter' = 0 /\ counter > period
            /\ en = 1
        BY <2>2, <2>4, <3>5 DEF Toggle, Rise, Bit
      <4>2. high2 = fastest' + 2
        BY <3>1, <4>1 DEF ElapsedCoversCounter, HighPart
      <4>3. sinceRise >= counter /\ fastest <= period
        BY <4>1 DEF ElapsedCoversCounter
      <4>5. counter' + high2 <= sinceRise + 1
        BY <3>2, <4>1, <4>2, <4>3, FallIsLate
      <4>6. QED
        BY <3>2, <3>4, <4>1, <4>5 DEF ElapsedCoversCounter
    <3>6. CASE Count
      <4>1. step_out' = step_out /\ en = 1 /\ counter' = (counter + 1) % Word
        BY <3>6 DEF Count
      <4>2. counter' <= counter + 1
        BY <2>2, <4>1, WrappedIncrement
      <4>3. runt' = runt
        BY <3>1, <4>1
      <4>4. high2 <= high
        BY <2>2, <3>2, <4>3, HighPartMonotone, WordIsPositive DEF Unsigned, Bit
      <4>5. CASE step_out = 1
        <5>1. counter' <= sinceRise + 1 /\ counter' <= Horizon /\ counter' \in Nat
          BY <2>2, <4>2, <4>5, WordIsPositive
          DEF ElapsedCoversCounter, Unsigned, Horizon
        <5>2. counter' <= sinceRise'
          BY <2>2, <3>1, <5>1, SaturatingStep
        <5>3. QED
          BY <3>2, <4>1, <4>3, <4>5, <5>2 DEF ElapsedCoversCounter
      <4>6. CASE step_out = 0
        <5>1. counter' + high2 <= sinceRise + 1
          BY <2>2, <3>3, <4>2, <4>4, <4>6 DEF ElapsedCoversCounter, Unsigned
        <5>2. QED
          BY <3>2, <3>4, <4>1, <4>6, <5>1 DEF ElapsedCoversCounter
      <4>7. QED
        BY <2>2, <4>5, <4>6 DEF Bit
    <3>7. CASE Halt
      <4>1. counter' = 0 /\ step_out' = 0 /\ en = 0
        BY <3>7 DEF Halt
      <4>2. counter' + high2 <= sinceRise + 1
        <5>1. CASE step_out = 1
          <6>1. high2 = 1
            BY <3>1, <4>1, <5>1 DEF HighPart
          <6>2. QED
            BY <2>2, <4>1, <6>1, WordIsPositive DEF Horizon
        <5>2. CASE step_out = 0
          <6>1. high2 <= high
            BY <2>2, <3>1, <3>2, <3>3, <5>2 DEF HighPart, Unsigned
          <6>2. QED
            BY <2>2, <3>3, <4>1, <5>2, <6>1, WordIsPositive
            DEF ElapsedCoversCounter, Unsigned, Horizon
        <5>3. QED
          BY <2>2, <5>1, <5>2 DEF Bit
      <4>3. QED
        BY <3>2, <3>4, <4>1, <4>2 DEF ElapsedCoversCounter
    <3>8. QED
      BY <2>1, <3>5, <3>6, <3>7 DEF Generate
  <2>5. QED
    BY <2>3, <2>4
<1>2. ASSUME Reset PROVE ElapsedCoversCounter'
  <2>1. runt' = 0 /\ step_out' = 0 /\ counter' = 0
        /\ fastest' = 0 /\ period' = 0 /\ sinceRise' = Horizon
    BY <1>2 DEF Reset
  <2>2. QED
    BY <2>1, WordIsPositive DEF ElapsedCoversCounter, HighPart, Horizon
<1>3. ASSUME UNCHANGED vars PROVE ElapsedCoversCounter'
  BY <1>3 DEF vars, ElapsedCoversCounter, HighPart
<1>4. QED
  BY <1>1, <1>2, <1>3 DEF Next

(* A rise needs the counter past the period, so the time the counter       *)
(* stands for is at least the bound.                                       *)
LEMMA RiseIsLate ==
  TypeOK /\ ElapsedCoversCounter /\ [Next]_vars
    => [Rise => sinceRise + 1 >= IF runt = 1 THEN fastest + 3
                                             ELSE 2 * (fastest + 2)]_vars
<1> SUFFICES ASSUME TypeOK, ElapsedCoversCounter, Next, Rise
             PROVE  sinceRise + 1 >= IF runt = 1 THEN fastest + 3
                                                 ELSE 2 * (fastest + 2)
  BY DEF vars, Rise
<1>1. Toggle
  BY DEF Next, Tick, Edge, Reset, Generate, Toggle, Count, Halt, Rise
<1>2. counter >= period + 1 /\ step_out = 0
  BY <1>1 DEF Toggle, Rise, TypeOK, Unsigned, Word
<1>3. sinceRise >= counter + HighPart(fastest, runt) /\ fastest <= period
  BY <1>2 DEF ElapsedCoversCounter
<1>4. sinceRise + 1 >= fastest + 2 + HighPart(fastest, runt)
  BY <1>2, <1>3, WordIsPositive DEF HighPart, TypeOK, Unsigned
<1>5. QED
  BY <1>4, WordIsPositive DEF HighPart, TypeOK, Unsigned, Horizon

(* For every register size and whatever the host commands in between, two  *)
(* steps of the motor are never closer than the commanded rate allows.     *)
THEOREM RateCorrect == Spec => StepRateBounded
<1>1. Init => ElapsedCoversCounter
  BY WordIsPositive
  DEF Init, ElapsedCoversCounter, HighPart, Horizon
<1>2. QED
  BY <1>1, TypeCorrect, ElapsedInductive, RiseIsLate, PTL
  DEF Spec, StepRateBounded

-----------------------------------------------------------------------------
(***************************************************************************)
(* The registers that the handler writes one after the other are written   *)
(* by bus cycles that StepGen allows, so that all that is proved of        *)
(* StepGen holds here.                                                     *)
(***************************************************************************)
AuxType ==
  /\ velocity \in Int /\ enable \in Bit /\ writing \in Bit
  /\ gap \in 0 .. MaxGap /\ strays \in Nat /\ settled \in Bit
  /\ writing = 1 => velocity \in Velocities

LEMMA DirIsBit == \A v \in Int : DirOf(v) \in Bit
  BY DEF DirOf, Bit

LEMMA PeriodAllowed == \A v \in Velocities : PeriodOf(v) \in Periods
  BY PeriodsAreOf

LEMMA AuxInductive == AuxType /\ [ANext]_avars => AuxType'
<1> SUFFICES ASSUME AuxType, [ANext]_avars PROVE AuxType'
  OBVIOUS
<1> USE MaxGapAssumption DEF AuxType, Settle, Bit
<1>1. CASE \E v \in Velocities, e \in Bit : WriteRate(v, e)
  BY <1>1, VelocitiesAssumption DEF WriteRate
<1>2. CASE Between
  BY <1>2 DEF Between
<1>3. CASE WriteDirs
  BY <1>3 DEF WriteDirs
<1>4. CASE Run
  BY <1>4 DEF Run
<1>5. CASE AReset
  BY <1>5 DEF AReset
<1>6. CASE UNCHANGED avars
  BY <1>6 DEF avars, hist
<1>7. QED
  BY <1>1, <1>2, <1>3, <1>4, <1>5, <1>6 DEF ANext

LEMMA StepIsStep == AuxType /\ [ANext]_avars => [Next]_vars
<1> SUFFICES ASSUME AuxType, [ANext]_avars PROVE [Next]_vars
  OBVIOUS
<1> USE DEF Next, Tick, BusCycle, WritePeriod, WriteDirEnable, AuxType
<1>1. ASSUME NEW v \in Velocities, NEW e \in Bit, WriteRate(v, e)
      PROVE  Next
  BY <1>1, PeriodAllowed DEF WriteRate
<1>2. CASE Between
  BY <1>2 DEF Between
<1>3. CASE WriteDirs
  BY <1>3, DirIsBit DEF WriteDirs
<1>4. CASE Run
  BY <1>4 DEF Run
<1>5. CASE AReset
  BY <1>5 DEF AReset
<1>6. CASE UNCHANGED avars
  BY <1>6 DEF avars
<1>7. QED
  BY <1>1, <1>2, <1>3, <1>4, <1>5, <1>6 DEF ANext

LEMMA InitIsInit == AInit => Init /\ AuxType
  BY MaxGapAssumption DEF AInit, AuxType, Bit

THEOREM ActuatesStepGen == ASpec => Spec /\ []AuxType
<1>1. AInit => Init /\ AuxType
  BY InitIsInit
<1>2. QED
  BY <1>1, AuxInductive, StepIsStep, PTL DEF ASpec, Spec

-----------------------------------------------------------------------------
(***************************************************************************)
(* The position.                                                           *)
(***************************************************************************)
LEMMA PositionFollows == TypeOK /\ LocationTracksMotor => PositionTrue
<1> SUFFICES ASSUME TypeOK, LocationTracksMotor,
                    motor \in -Half + 1 .. Half - 2
             PROVE  Loc + Owed = motor
  BY DEF PositionTrue
<1>1. location \in 0 .. Word - 1 /\ Owed \in {-1, 0, 1} /\ motor \in Int
  BY DEF TypeOK, Unsigned, Owed, Delta
<1>2. (location + Owed) % Word = Half + motor
  <2>1. Half + motor \in 0 .. Word - 1
    BY WordIsPositive
  <2>2. QED
    BY <2>1, ModIdentity, WordIsPositive DEF LocationTracksMotor, Origin
<1>3. location + Owed \in 0 .. Word - 1
  <2>1. CASE location + Owed = Word
    <3>1. (location + Owed) % Word = 0
      BY <2>1, ModUnique, WordIsPositive
    <3>2. QED
      BY <1>1, <1>2, <3>1, WordIsPositive
  <2>2. CASE location + Owed = -1
    <3>1. location + Owed = (-1) * Word + (Word - 1)
      BY <2>2, WordIsPositive
    <3>2. (location + Owed) % Word = Word - 1
      BY <1>1, <3>1, ModUnique, WordIsPositive
    <3>3. QED
      BY <1>1, <1>2, <3>2, WordIsPositive
  <2>3. QED
    BY <1>1, <2>1, <2>2, WordIsPositive
<1>4. location + Owed = Half + motor
  BY <1>2, <1>3, ModIdentity, WordIsPositive
<1>5. Loc = location - Half
  <2>1. CASE location >= Half
    <3>1. (location - Half) % Word = location - Half
      BY <1>1, <2>1, ModIdentity, WordIsPositive
    <3>2. QED
      BY <1>1, <3>1, WordIsPositive DEF Loc, Signed
  <2>2. CASE location < Half
    <3>1. location - Half = (-1) * Word + (location + Half)
      BY <1>1, WordIsPositive
    <3>2. (location - Half) % Word = location + Half
      BY <1>1, <2>2, <3>1, ModUnique, WordIsPositive
    <3>3. QED
      BY <1>1, <3>2, WordIsPositive DEF Loc, Signed
  <2>3. QED
    BY <1>1, <2>1, <2>2, WordIsPositive
<1>6. QED
  BY <1>1, <1>4, <1>5, WordIsPositive

(* The position that do_work computes is the motor's, for every register   *)
(* size and however commands, clocks and resets are interleaved.           *)
THEOREM PositionCorrect == ASpec => []PositionTrue
  BY ActuatesStepGen, TypeCorrect, LocationCorrect, PositionFollows, PTL

-----------------------------------------------------------------------------
(***************************************************************************)
(* StraysAtNewRate.  Phase is how far the generator is into a cycle of the *)
(* period in force, 0 at a rise and less than Cycle: it moves by one each  *)
(* clock, back by a cycle at a rise.  So strays cycles and the phase are   *)
(* as long as the gap and the phase at the first write, which was          *)
(* somewhere in a cycle.  A counter beyond the new period toggles at once, *)
(* as if it were just past it.                                             *)
(***************************************************************************)
Phase ==
  Smaller(counter, period + 1) + IF step_out = 1 THEN 0 ELSE period + 2

StrayInv ==
  writing = 1
    => /\ en = 0 => strays = 0
       /\ Cycle * strays + Phase < gap + Cycle
       /\ en = 1 /\ period < Word - 1 => gap <= Cycle * strays + Phase

InCycle ==
  /\ period \in Nat /\ Cycle \in Nat /\ Cycle = 2 * (period + 2)
  /\ Phase \in Nat /\ Phase < Cycle

LEMMA PhaseInCycle == TypeOK => InCycle
<1> SUFFICES ASSUME TypeOK PROVE InCycle
  OBVIOUS
<1>1. period \in Nat /\ counter \in Nat
  BY WordIsPositive DEF TypeOK, Unsigned
<1>2. QED
  BY <1>1 DEF InCycle, Cycle, Phase, Smaller

LEMMA PhaseInNextCycle == TypeOK' => InCycle'
  BY PhaseInCycle, PTL

(* What a clock without a write to the axis does to the phase.             *)
LEMMA PhaseMoves ==
  ASSUME TypeOK, TypeOK', Edge, UNCHANGED period
  PROVE  /\ en = 1 /\ Rise => Phase' = 0 /\ Phase = Cycle - 1
         /\ en = 1 /\ ~Rise => Phase' <= Phase + 1
         /\ en = 1 /\ ~Rise /\ period < Word - 1 => Phase' = Phase + 1
         /\ en = 0 => ~Rise
<1>1. /\ counter \in 0 .. Word - 1 /\ period \in 0 .. Word - 1
      /\ step_out \in {0, 1} /\ Word \in Nat \ {0}
  BY WordIsPositive DEF TypeOK, Unsigned, Bit
<1>2. Generate /\ period' = period
  BY DEF Edge
<1>3. CASE Toggle
  <2>1. en = 1 /\ counter >= period + 1 /\ counter' = 0
        /\ step_out' = 1 - step_out
    BY <1>1, <1>3 DEF Toggle
  <2>2. Smaller(counter, period + 1) = period + 1
        /\ Smaller(counter', period' + 1) = 0
    BY <1>1, <1>2, <2>1 DEF Smaller
  <2>3. QED
    BY <1>1, <1>2, <2>1, <2>2 DEF Phase, Cycle, Rise
<1>4. CASE Count
  <2>1. en = 1 /\ counter <= period /\ counter' = (counter + 1) % Word
        /\ step_out' = step_out
    BY <1>4 DEF Count
  <2>2. Smaller(counter, period + 1) = counter /\ ~Rise
    BY <1>1, <2>1 DEF Smaller, Rise
  <2>3. CASE counter + 1 = Word
    <3>1. counter' = 0
      BY <1>1, <2>1, <2>3, ModUnique
    <3>2. Smaller(counter', period' + 1) = 0 /\ ~(period < Word - 1)
      BY <1>1, <1>2, <2>1, <2>3, <3>1 DEF Smaller
    <3>3. QED
      BY <1>1, <1>2, <2>1, <2>2, <3>2 DEF Phase
  <2>4. CASE counter + 1 # Word
    <3>1. counter' = counter + 1
      BY <1>1, <2>1, <2>4, ModIdentity
    <3>2. Smaller(counter', period' + 1) = counter + 1
      BY <1>1, <1>2, <2>1, <3>1 DEF Smaller
    <3>3. QED
      BY <1>1, <1>2, <2>1, <2>2, <3>2 DEF Phase
  <2>5. QED
    BY <2>3, <2>4
<1>5. CASE Halt
  BY <1>5 DEF Halt, Rise
<1>6. QED
  BY <1>2, <1>3, <1>4, <1>5 DEF Generate

LEMMA OneMore ==
  ASSUME NEW n \in Nat, NEW k \in Nat
  PROVE  n * k \in Nat /\ n * (k + 1) = n * k + n /\ n * 0 = 0
  OBVIOUS

StrayAssumed == TypeOK /\ TypeOK' /\ AuxType /\ StrayInv

LEMMA StrayBetween == StrayAssumed /\ Between => StrayInv'
<1> SUFFICES ASSUME StrayAssumed, Between PROVE StrayInv'
  OBVIOUS
<1>1. /\ writing = 1 /\ period' = period /\ en' = en /\ gap' = gap + 1
      /\ strays' = IF Rise THEN strays + 1 ELSE strays
      /\ Edge /\ Cycle' = Cycle
  BY DEF Between, NoWrite, regs, Cycle
<1>2. /\ InCycle /\ InCycle'
      /\ gap \in Nat /\ strays \in Nat /\ en \in {0, 1}
  BY PhaseInCycle, PhaseInNextCycle, MaxGapAssumption
  DEF StrayAssumed, AuxType, TypeOK, Bit
<1>3. /\ en = 1 /\ Rise => Phase' = 0 /\ Phase = Cycle - 1
      /\ en = 1 /\ ~Rise => Phase' <= Phase + 1
      /\ en = 1 /\ ~Rise /\ period < Word - 1 => Phase' = Phase + 1
      /\ en = 0 => ~Rise
  BY <1>1, PhaseMoves DEF StrayAssumed
<1>4. PICK t \in Nat : t = Cycle * strays
  BY <1>2, OneMore DEF InCycle
<1>5. PICK u \in Nat : u = Cycle' * strays' /\ u = IF Rise THEN t + Cycle ELSE t
  BY <1>1, <1>2, <1>4, OneMore DEF InCycle
<1>6. /\ en = 0 => strays = 0 /\ t = 0
      /\ t + Phase < gap + Cycle
      /\ en = 1 /\ period < Word - 1 => gap <= t + Phase
  BY <1>1, <1>2, <1>4, OneMore DEF StrayAssumed, StrayInv, InCycle
<1>7. PICK c \in Nat, p \in Nat, q \in Nat :
        /\ c = Cycle /\ c = Cycle' /\ p = Phase /\ q = Phase' /\ q < c
  BY <1>1, <1>2 DEF InCycle
<1>8. /\ u + q < gap' + c
      /\ en = 1 /\ period < Word - 1 => gap' <= u + q
  <2>0. /\ u = IF Rise THEN t + c ELSE t
        /\ gap \in Nat /\ gap' = gap + 1 /\ t + p < gap + c /\ q < c
        /\ en = 1 /\ period < Word - 1 => gap <= t + p
    BY <1>1, <1>2, <1>5, <1>6, <1>7
  <2>1. CASE en = 1 /\ Rise
    <3>1. q = 0 /\ p = c - 1 /\ u = t + c
      BY <1>3, <1>7, <2>0, <2>1
    <3>2. QED
      BY <2>0, <2>1, <3>1
  <2>2. CASE en = 1 /\ ~Rise
    <3>1. /\ q <= p + 1 /\ u = t
          /\ period < Word - 1 => q = p + 1
      BY <1>3, <1>7, <2>0, <2>2
    <3>2. QED
      BY <2>0, <2>2, <3>1
  <2>3. CASE en = 0
    <3>1. u = 0
      BY <1>3, <1>6, <2>0, <2>3
    <3>2. QED
      BY <2>0, <2>3, <3>1
  <2>4. QED
    BY <1>2, <2>1, <2>2, <2>3
<1>9. en' = 0 => strays' = 0
  BY <1>1, <1>3, <1>6
<1>10. QED
  BY <1>1, <1>5, <1>7, <1>8, <1>9 DEF StrayInv

LEMMA StrayInductive == StrayAssumed /\ [ANext]_avars => StrayInv'
<1> SUFFICES ASSUME StrayAssumed, [ANext]_avars PROVE StrayInv'
  OBVIOUS
<1>1. ASSUME NEW v \in Velocities, NEW e \in Bit, WriteRate(v, e)
      PROVE  StrayInv'
  <2>1. gap' = 0 /\ strays' = 0
    BY <1>1 DEF WriteRate
  <2>2. InCycle'
    BY PhaseInNextCycle DEF StrayAssumed
  <2>3. Cycle' * strays' = 0
    BY <2>1, <2>2, OneMore DEF InCycle
  <2>4. \A c, p \in Nat : p < c => 0 + p < 0 + c /\ 0 <= 0 + p
    OBVIOUS
  <2>5. 0 + Phase' < 0 + Cycle' /\ 0 <= 0 + Phase'
    BY <2>2, <2>4 DEF InCycle
  <2>6. /\ Cycle' * strays' + Phase' < gap' + Cycle'
        /\ gap' <= Cycle' * strays' + Phase'
    BY <2>1, <2>3, <2>5, Zenon
  <2>7. QED
    BY <2>1, <2>6 DEF StrayInv
<1>2. CASE Between
  BY <1>2, StrayBetween
<1>3. CASE WriteDirs
  BY <1>3 DEF WriteDirs, StrayInv
<1>4. CASE Run
  BY <1>4 DEF Run, StrayInv
<1>5. CASE AReset
  BY <1>5 DEF AReset, StrayInv
<1>6. CASE UNCHANGED avars
  BY <1>6 DEF avars, vars, hist, StrayInv, StrayAssumed, Cycle, Phase
<1>7. QED
  BY <1>1, <1>2, <1>3, <1>4, <1>5, <1>6 DEF ANext

(* Between the two writes of a command the motor takes the steps of the    *)
(* new rate, to one, for every register, velocity and length of the gap.   *)
THEOREM StrayCorrect == ASpec => []StraysAtNewRate
<1>1. AInit => StrayInv
  BY DEF AInit, StrayInv
<1>2. TypeOK /\ TypeOK' /\ AuxType /\ StrayInv /\ [ANext]_avars => StrayInv'
  BY StrayInductive DEF StrayAssumed
<1>3. TypeOK /\ AuxType /\ StrayInv => StraysAtNewRate
  <2> SUFFICES ASSUME TypeOK, AuxType, StrayInv, writing = 1
               PROVE  /\ en = 0 => strays = 0
                      /\ Cycle * strays < gap + Cycle
                      /\ en = 1 /\ period < Word - 1
                           => gap < Cycle * (strays + 1)
    BY DEF StraysAtNewRate
  <2>1. /\ Cycle \in Nat /\ Phase \in Nat /\ Phase < Cycle
        /\ gap \in Nat /\ strays \in Nat
    BY PhaseInCycle, MaxGapAssumption DEF AuxType, InCycle
  <2>2. PICK t \in Nat : t = Cycle * strays /\ Cycle * (strays + 1) = t + Cycle
    BY <2>1, OneMore
  <2>3. /\ en = 0 => strays = 0
        /\ t + Phase < gap + Cycle
        /\ en = 1 /\ period < Word - 1 => gap <= t + Phase
    BY <2>2 DEF StrayInv
  <2>4. QED
    BY <2>1, <2>2, <2>3
<1>4. QED
  BY <1>1, <1>2, <1>3, ActuatesStepGen, TypeCorrect, PTL DEF ASpec

(* The axis's registers and the handler's variables keep their types.      *)
THEOREM ATypeCorrect == ASpec => []ATypeOK
<1>1. TypeOK /\ AuxType => ATypeOK
  BY DEF AuxType, ATypeOK
<1>2. QED
  BY <1>1, ActuatesStepGen, TypeCorrect, PTL

-----------------------------------------------------------------------------
(***************************************************************************)
(* SteadyRate: while the rate is settled the counter stands for the exact  *)
(* time since the rise, so that the next one comes at 2 * (period + 2);    *)
(* and the period is that of the velocity, or the axis is disabled.        *)
(***************************************************************************)
RateInv == period = PeriodOf(velocity) \/ (en = 0 /\ writing = 0)

CounterIsTime ==
  settled = 1 /\ period < Word - 1
    => /\ counter <= period + 1
       /\ sinceRise = IF step_out = 1 THEN counter ELSE period + 2 + counter

LEMMA RateInductive == RateInv /\ [ANext]_avars => RateInv'
<1> SUFFICES ASSUME RateInv, [ANext]_avars PROVE RateInv'
  OBVIOUS
<1> USE DEF RateInv, NoWrite, regs
<1>1. CASE \E v \in Velocities, e \in Bit : WriteRate(v, e)
  BY <1>1 DEF WriteRate
<1>2. CASE Between
  BY <1>2 DEF Between
<1>3. CASE WriteDirs
  BY <1>3 DEF WriteDirs
<1>4. CASE Run
  BY <1>4 DEF Run
<1>5. CASE AReset
  BY <1>5 DEF AReset, Reset
<1>6. CASE UNCHANGED avars
  BY <1>6 DEF avars, vars
<1>7. QED
  BY <1>1, <1>2, <1>3, <1>4, <1>5, <1>6 DEF ANext

LEMMA AStepShape ==
  ASSUME [ANext]_avars
  PROVE  \/ Edge /\ Settle
         \/ settled' = 0
         \/ UNCHANGED <<vars, settled>>
  BY DEF ANext, WriteRate, Between, WriteDirs, Run, AReset, avars, hist

LEMMA CounterIsTimeInductive ==
  TypeOK /\ TypeOK' /\ CounterIsTime /\ [ANext]_avars => CounterIsTime'
<1> SUFFICES ASSUME TypeOK, TypeOK', CounterIsTime, [ANext]_avars,
                    settled' = 1, period' < Word - 1
             PROVE  /\ counter' <= period' + 1
                    /\ sinceRise' = IF step_out' = 1 THEN counter'
                                    ELSE period' + 2 + counter'
  BY DEF CounterIsTime
<1>1. /\ counter \in Nat /\ counter' \in Nat /\ period \in Nat
      /\ period' \in Nat /\ sinceRise \in Nat
      /\ step_out \in {0, 1} /\ step_out' \in {0, 1}
  BY WordIsPositive DEF TypeOK, Unsigned, Bit, Horizon
<1>2. CASE UNCHANGED <<vars, settled>>
  BY <1>2 DEF vars, CounterIsTime
<1>3. CASE Edge /\ Settle
  <2>1. Generate /\ Observe
    BY <1>3 DEF Edge
  <2>2. CASE Rise
    <3>1. step_out' = 1 /\ sinceRise' = 0
      BY <2>1, <2>2 DEF Rise, Observe
    <3>2. counter' = 0
      BY <2>1, <2>2 DEF Generate, Toggle, Count, Halt, Rise
    <3>3. counter' <= period' + 1
      <4>1. \A p \in Nat : 0 <= p + 1
        OBVIOUS
      <4>2. period' \in Nat
        BY <1>1
      <4>3. 0 <= period' + 1
        BY <4>1, <4>2
      <4>4. QED
        BY <3>2, <4>3
    <3>4. QED
      BY <3>1, <3>2, <3>3
  <2>3. CASE ~Rise
    <3>1. en # 0 /\ period' = period /\ settled = 1
      BY <1>3, <2>3 DEF Settle
    <3>2. /\ counter <= period + 1
          /\ sinceRise = IF step_out = 1 THEN counter ELSE period + 2 + counter
      BY <3>1 DEF CounterIsTime
    <3>3. sinceRise' = Smaller(sinceRise + 1, Horizon)
      BY <2>1, <2>3 DEF Observe
    <3>4. CASE Toggle
      <4>1. step_out = 1 /\ step_out' = 0 /\ counter' = 0 /\ counter > period
        BY <1>1, <2>3, <3>4 DEF Toggle, Rise
      <4>2. sinceRise + 1 = period + 2
        BY <1>1, <3>2, <4>1
      <4>3. sinceRise' = period + 2
        BY <1>1, <3>1, <3>3, <4>2, WordIsPositive DEF Smaller, Horizon
      <4>4. QED
        BY <1>1, <3>1, <4>1, <4>3
    <3>5. CASE Count
      <4>1. step_out' = step_out /\ counter <= period
            /\ counter' = (counter + 1) % Word
        BY <3>5 DEF Count
      <4>2. counter' = counter + 1
        <5>1. counter + 1 \in 0 .. Word - 1
          BY <1>1, <3>1, <4>1, WordIsPositive
        <5>2. QED
          BY <4>1, <5>1, ModIdentity, WordIsPositive
      <4>3. sinceRise + 1 <= Horizon
        BY <1>1, <3>1, <3>2, <4>1, WordIsPositive DEF Horizon
      <4>4. sinceRise' = sinceRise + 1
        BY <1>1, <3>3, <4>3, WordIsPositive DEF Smaller, Horizon
      <4>5. QED
        BY <1>1, <3>1, <3>2, <4>1, <4>2, <4>4
    <3>6. CASE Halt
      BY <3>1, <3>6 DEF Halt
    <3>7. QED
      BY <2>1, <3>4, <3>5, <3>6 DEF Generate
  <2>4. QED
    BY <2>2, <2>3
<1>4. QED
  BY <1>2, <1>3, AStepShape

(* The quotient of de2.c:473. *)
LEMMA DivisionBounds ==
  ASSUME NEW c \in Nat, NEW d \in Nat \ {0}
  PROVE  /\ c \div d \in Nat
         /\ d * (c \div d) <= c
         /\ c < d * (c \div d) + d
  BY SMT

(* A period that fits makes a step take no less than the commanded time    *)
(* and at most two clocks more.                                            *)
LEMMA PeriodMeetsRate ==
  ASSUME NEW v \in Int, Rate(v) > 0, PeriodOf(v) < Half
  PROVE  /\ PeriodOf(v) \in Nat
         /\ Rate(v) * (2 * (PeriodOf(v) + 2)) > Clock
         /\ 2 * Rate(v) <= Clock
              => Rate(v) * (2 * (PeriodOf(v) + 2)) <= Clock + 2 * Rate(v)
<1> DEFINE r == Rate(v)
           q == Quotient(r)
<1>1. r \in Nat \ {0}
  <2>1. Abs(v) \in Int
    BY DEF Abs
  <2>2. Speed(v) \in Int
    BY <2>1 DEF Speed
  <2>3. QED
    BY <2>2, ScaleAssumption DEF Rate
<1>2. Abs(r) = r
  BY <1>1 DEF Abs
<1>3. 2 * r \in Nat \ {0} /\ q = Clock \div (2 * r)
  BY <1>1, <1>2 DEF Quotient
<1> HIDE DEF r
<1>4. q \in Nat /\ (2 * r) * q <= Clock /\ Clock < (2 * r) * q + 2 * r
  BY <1>3, DivisionBounds, ClockAssumption
<1>5. PeriodOf(v) = IF q = 0 THEN 0 ELSE Smaller(Half, q - 1)
  BY <1>1 DEF PeriodOf, r
<1> HIDE DEF q
<1>6. CASE q = 0
  <2>1. PeriodOf(v) = 0 /\ Clock < 2 * r
    BY <1>1, <1>4, <1>5, <1>6
  <2>2. QED
    BY <1>1, <2>1, ClockAssumption DEF r
<1>7. CASE q # 0
  <2>1. PeriodOf(v) = q - 1
    BY <1>4, <1>5, <1>7, WordIsPositive DEF Smaller
  <2>2. r * (2 * (PeriodOf(v) + 2)) = (2 * r) * q + 2 * r
    BY <1>1, <1>4, <2>1
  <2>3. (2 * r) * q \in Int /\ 2 * r \in Int
    BY <1>1, <1>4
  <2>4. QED
    BY <1>4, <1>7, <2>1, <2>2, <2>3, ClockAssumption DEF r
<1>8. QED
  BY <1>6, <1>7

LEMMA RiseOnTime ==
  TypeOK /\ CounterIsTime /\ RateInv /\ AuxType /\ [ANext]_avars
    => [Rise /\ settled = 1 /\ Rate(velocity) > 0 /\ PeriodOf(velocity) < Half
          => LET steps == Rate(velocity) * (sinceRise + 1) IN
               /\ steps > Clock
               /\ 2 * Rate(velocity) <= Clock
                    => steps <= Clock + 2 * Rate(velocity)]_avars
<1> SUFFICES ASSUME TypeOK, CounterIsTime, RateInv, AuxType, [ANext]_avars,
                    Rise, settled = 1, Rate(velocity) > 0,
                    PeriodOf(velocity) < Half
             PROVE  /\ Rate(velocity) * (sinceRise + 1) > Clock
                    /\ 2 * Rate(velocity) <= Clock
                         => Rate(velocity) * (sinceRise + 1)
                              <= Clock + 2 * Rate(velocity)
  OBVIOUS
<1>1. Toggle
  <2>1. Next
    BY StepIsStep DEF Rise, vars
  <2>2. QED
    BY <2>1 DEF Next, Tick, Edge, Reset, Generate, Toggle, Count, Halt, Rise
<1>2. en = 1 /\ counter > period /\ step_out = 0
  BY <1>1 DEF Toggle, Rise, TypeOK, Bit
<1>3. period = PeriodOf(velocity)
  BY <1>2 DEF RateInv
<1>4. period \in Nat /\ counter \in Nat /\ sinceRise \in Nat
  BY WordIsPositive DEF TypeOK, Unsigned, Horizon
<1>5. period < Word - 1
  BY <1>3, <1>4, WordIsPositive
<1>6. sinceRise + 1 = 2 * (period + 2)
  BY <1>2, <1>4, <1>5 DEF CounterIsTime
<1>7. velocity \in Int
  BY DEF AuxType
<1>8. QED
  BY <1>3, <1>6, <1>7, PeriodMeetsRate

(* For every clock, scale and velocity whose period the register can hold, *)
(* the motor runs at the commanded rate, never faster, and slower by at    *)
(* most two clocks a step.                                                 *)
THEOREM SteadyRateCorrect == ASpec => SteadyRate
<1>1. AInit => RateInv /\ CounterIsTime
  BY DEF AInit, Init, RateInv, CounterIsTime
<1>2. QED
  BY <1>1, ActuatesStepGen, TypeCorrect, RateInductive,
     CounterIsTimeInductive, RiseOnTime, PTL
  DEF ASpec, SteadyRate

-----------------------------------------------------------------------------
(* A rate of zero or below makes a period of at least half the register. *)
LEMMA StopPeriod ==
  ASSUME NEW v \in Int, Rate(v) <= 0
  PROVE  PeriodOf(v) \in Nat /\ PeriodOf(v) >= Half
<1> DEFINE r == Rate(v)
           q == Quotient(r)
<1>1. r \in Int /\ r <= 0
  <2>1. Abs(v) \in Int
    BY DEF Abs
  <2>2. Speed(v) \in Int
    BY <2>1 DEF Speed
  <2>3. QED
    BY <2>2, ScaleAssumption DEF Rate
<1>2. CASE r = 0
  BY <1>2, WordIsPositive DEF PeriodOf
<1>3. CASE r < 0
  <2>1. 2 * Abs(r) \in Nat \ {0}
    BY <1>1, <1>3 DEF Abs
  <2>2. q \in Nat
    BY <2>1, DivisionBounds, ClockAssumption DEF Quotient
  <2>3. PeriodOf(v) = Word - Smaller(Half, q + 1)
    BY <1>1, <1>3 DEF PeriodOf
  <2> HIDE DEF q
  <2>4. Smaller(Half, q + 1) \in 0 .. Half
    BY <2>2, WordIsPositive DEF Smaller
  <2>5. QED
    BY <2>3, <2>4, WordIsPositive
<1>4. QED
  BY <1>1, <1>2, <1>3

LEMMA CreepIsSlow ==
  TypeOK /\ CounterIsTime /\ RateInv /\ AuxType /\ [ANext]_avars
    => [Rise /\ settled = 1 /\ Rate(velocity) <= 0
          => sinceRise + 1 >= 2 * (Half + 2)]_avars
<1> SUFFICES ASSUME TypeOK, CounterIsTime, RateInv, AuxType, [ANext]_avars,
                    Rise, settled = 1, Rate(velocity) <= 0
             PROVE  sinceRise + 1 >= 2 * (Half + 2)
  OBVIOUS
<1>1. Toggle
  <2>1. Next
    BY StepIsStep DEF Rise, vars
  <2>2. QED
    BY <2>1 DEF Next, Tick, Edge, Reset, Generate, Toggle, Count, Halt, Rise
<1>2. en = 1 /\ counter > period /\ step_out = 0
  BY <1>1 DEF Toggle, Rise, TypeOK, Bit
<1>3. period = PeriodOf(velocity) /\ velocity \in Int
  BY <1>2 DEF RateInv, AuxType
<1>4. period \in Nat /\ counter \in 0 .. Word - 1 /\ sinceRise \in Nat
  BY WordIsPositive DEF TypeOK, Unsigned, Horizon
<1>5. period < Word - 1
  BY <1>2, <1>4, WordIsPositive
<1>6. sinceRise = period + 2 + counter
  BY <1>2, <1>5 DEF CounterIsTime
<1>7. period >= Half
  BY <1>3, StopPeriod
<1>8. QED
  BY <1>2, <1>4, <1>6, <1>7, WordIsPositive

(* For every clock and scale, an axis told to stop, and one with a         *)
(* negative scale, creeps no faster than the top half of the register.     *)
THEOREM CreepCorrect == ASpec => CreepBounded
<1>1. AInit => RateInv /\ CounterIsTime
  BY DEF AInit, Init, RateInv, CounterIsTime
<1>2. QED
  BY <1>1, ActuatesStepGen, TypeCorrect, RateInductive,
     CounterIsTimeInductive, CreepIsSlow, PTL
  DEF ASpec, CreepBounded
=============================================================================
