---------------------------- MODULE EncoderProofs ----------------------------
(***************************************************************************)
(* Proofs about Encoder for every width of the counter and any travel.     *)
(*                                                                         *)
(* The latches hold what the pins were some clocks ago, but the positions  *)
(* of those moments are no variables of the specification, and the         *)
(* signals give them modulo four only.  The invariant says that there are  *)
(* positions behind the latches which explain the count.                   *)
(***************************************************************************)
EXTENDS Encoder, ModularLemmas

Near(p, q) == p \in {q - 1, q, q + 1}

Shows(x, y, p) == x = enc_a(p) /\ y = enc_b(p)

(* The positions q1, q2, q3 behind the three pairs of latches. *)
Explains(q1, q2, q3) ==
  /\ Shows(a1, b1, q1) /\ Shows(a, b, q2) /\ Shows(last_a, last_b, q3)
  /\ Near(pos, q1) /\ Near(q1, q2) /\ Near(q2, q3)
  /\ rest >= 1 => q1 = pos
  /\ rest >= 2 => q2 = pos
  /\ rest >= 3 => q3 = pos
  /\ count = (Origin + Lines(q3)) % Word

Explained == \E q1, q2, q3 \in Int : Explains(q1, q2, q3)

IInv == pos \in Int /\ rest \in 0 .. Settled /\ Explained

LEMMA WordFacts == Word \in Nat \ {0} /\ Origin \in Int
  BY HalfAssumption DEF Word, Origin

LEMMA LinesInt == \A p \in Int : Lines(p) \in Int
  BY DEF Lines

-----------------------------------------------------------------------------
(* Where the shaft is in its line. *)
LEMMA Quarters ==
  ASSUME NEW p \in Int
  PROVE  \E k \in Int, r \in 0 .. 3 : p = 4 * k + r /\ p % 4 = r
<1> DEFINE W == 4
<1>0. W \in Nat \ {0}
  OBVIOUS
<1> HIDE DEF W
<1>1. p % W \in 0 .. W - 1
  BY <1>0, ModRange
<1>2. PICK k \in Int : p = k * W + (p % W)
  BY <1>0, ModDecompose
<1> USE DEF W
<1>3. p = 4 * k + (p % 4)
  BY <1>1, <1>2
<1>4. QED
  BY <1>1, <1>3

LEMMA QuarterMod ==
  ASSUME NEW k \in Int, NEW r \in 0 .. 3
  PROVE  (4 * k + r) % 4 = r
<1>1. 4 * k + r \in Int /\ 4 * k + r = k * 4 + r /\ 4 \in Nat \ {0}
  OBVIOUS
<1>2. QED
  BY <1>1, ModUnique

LEMMA QuarterLines ==
  ASSUME NEW k \in Int, NEW r \in 0 .. 3
  PROVE  Lines(4 * k + r) = IF r = 0 THEN k ELSE k + 1
  BY SMT DEF Lines

LEMMA Quadrature ==
  ASSUME NEW k \in Int, NEW r \in 0 .. 3
  PROVE  /\ enc_a(4 * k + r) = IF r \in {1, 2} THEN 1 ELSE 0
         /\ enc_b(4 * k + r) = IF r \in {2, 3} THEN 1 ELSE 0
  BY QuarterMod DEF enc_a, enc_b

(* The counter's two conditions tell exactly by how much the number of     *)
(* lines differs between neighbouring positions.                           *)
LEMMA CountedLine ==
  ASSUME NEW q \in Int, NEW p \in Int, Near(q, p),
         Shows(a, b, q), Shows(last_a, last_b, p)
  PROVE  Lines(q) = Lines(p) + (IF Up THEN 1 ELSE IF Down THEN -1 ELSE 0)
<1>1. PICK k \in Int, r \in 0 .. 3 : p = 4 * k + r
  BY Quarters
<1>2. PICK j \in Int, s \in 0 .. 3 : q = 4 * j + s
  BY Quarters
<1>3. /\ Lines(p) = (IF r = 0 THEN k ELSE k + 1)
      /\ last_a = (IF r \in {1, 2} THEN 1 ELSE 0)
      /\ last_b = (IF r \in {2, 3} THEN 1 ELSE 0)
  BY <1>1, QuarterLines, Quadrature DEF Shows
<1>4. /\ Lines(q) = (IF s = 0 THEN j ELSE j + 1)
      /\ a = (IF s \in {1, 2} THEN 1 ELSE 0)
      /\ b = (IF s \in {2, 3} THEN 1 ELSE 0)
  BY <1>2, QuarterLines, Quadrature DEF Shows
<1>5. \/ j = k /\ s \in {r - 1, r, r + 1}
      \/ j = k + 1 /\ s = 0 /\ r = 3
      \/ j = k - 1 /\ s = 3 /\ r = 0
  BY <1>1, <1>2 DEF Near
<1>6. r \in {0, 1, 2, 3} /\ s \in {0, 1, 2, 3}
  OBVIOUS
<1>7. QED
  BY <1>3, <1>4, <1>5, <1>6 DEF Up, Down

(* A signal sampled while it changes shows one of two positions, and since *)
(* only one of the two signals changes, so do the samples together.        *)
LEMMA Sampled ==
  ASSUME NEW p \in Int, NEW q \in Int, Near(q, p),
         NEW x \in {enc_a(p), enc_a(q)}, NEW y \in {enc_b(p), enc_b(q)}
  PROVE  Shows(x, y, p) \/ Shows(x, y, q)
<1>1. PICK k \in Int, r \in 0 .. 3 : p = 4 * k + r
  BY Quarters
<1>2. PICK j \in Int, s \in 0 .. 3 : q = 4 * j + s
  BY Quarters
<1>3. /\ enc_a(p) = (IF r \in {1, 2} THEN 1 ELSE 0)
      /\ enc_b(p) = (IF r \in {2, 3} THEN 1 ELSE 0)
      /\ enc_a(q) = (IF s \in {1, 2} THEN 1 ELSE 0)
      /\ enc_b(q) = (IF s \in {2, 3} THEN 1 ELSE 0)
  BY <1>1, <1>2, Quadrature
<1>4. \/ s \in {r - 1, r, r + 1}
      \/ s = 0 /\ r = 3
      \/ s = 3 /\ r = 0
  BY <1>1, <1>2 DEF Near
<1>5. r \in {0, 1, 2, 3} /\ s \in {0, 1, 2, 3}
  OBVIOUS
<1>6. QED
  BY <1>3, <1>4, <1>5 DEF Shows

-----------------------------------------------------------------------------
(* One clock moves what is behind the latches on by one. *)
LEMMA ExplainedStep == IInv /\ Tick => IInv'
<1> SUFFICES ASSUME IInv, Tick PROVE IInv'
  OBVIOUS
<1>1. PICK q1 \in Int, q2 \in Int, q3 \in Int : Explains(q1, q2, q3)
  BY DEF IInv, Explained
<1>2. /\ pos \in Int /\ pos' \in Int /\ Near(pos', pos)
      /\ rest \in 0 .. 4 /\ rest' \in 0 .. 4
      /\ \/ rest' = 0 /\ rest >= 1
         \/ rest' = (IF rest < 4 THEN rest + 1 ELSE rest) /\ pos' = pos
  BY DEF Tick, Turn, Stay, IInv, Settled, Near
<1>3. PICK q0 \in {pos, pos'} : Shows(a1', b1', q0)
  <2>1. /\ a1' \in {enc_a(pos), enc_a(pos')}
        /\ b1' \in {enc_b(pos), enc_b(pos')}
    BY DEF Tick, Latch
  <2>2. QED
    BY <1>2, <2>1, Sampled
<1>4. /\ Shows(a', b', q1) /\ Shows(last_a', last_b', q2)
  BY <1>1 DEF Tick, Latch, Explains, Shows
<1>5. /\ Near(pos', q0) /\ Near(q0, q1) /\ Near(q1, q2)
      /\ rest' >= 1 => q0 = pos'
      /\ rest' >= 2 => q1 = pos'
      /\ rest' >= 3 => q2 = pos'
  BY <1>1, <1>2, <1>3 DEF Explains, Near
<1>6. count' = (Origin + Lines(q2)) % Word
  <2> DEFINE d == IF Up THEN 1 ELSE IF Down THEN -1 ELSE 0
  <2>1. Lines(q2) = Lines(q3) + d
    BY <1>1, CountedLine DEF Explains
  <2>2. count = (Origin + Lines(q3)) % Word /\ count \in Int
    BY <1>1, WordFacts, LinesInt, ModRange DEF Explains
  <2>3. count' = (count + d) % Word
    <3>1. CASE Up \/ Down
      BY <2>2, <3>1 DEF Tick, Count, Up, Down
    <3>2. CASE ~Up /\ ~Down
      <4>1. count' = count /\ d = 0
        BY <3>2 DEF Tick, Count
      <4>2. count \in 0 .. Word - 1
        BY <2>2, WordFacts, LinesInt, ModRange
      <4>3. QED
        BY <4>1, <4>2, WordFacts, ModIdentity
    <3>3. QED
      BY <3>1, <3>2
  <2>4. d \in Int /\ Origin + Lines(q3) \in Int
    BY WordFacts, LinesInt
  <2> HIDE DEF d
  <2>5. count' = (Origin + Lines(q3) + d) % Word
    BY <2>2, <2>3, <2>4, ModAdd, WordFacts
  <2>6. Origin + Lines(q3) + d = Origin + Lines(q2)
    BY <2>1, <2>4, WordFacts, LinesInt
  <2>7. QED
    BY <2>5, <2>6
<1>7. Explains(q0, q1, q2)'
  BY <1>3, <1>4, <1>5, <1>6 DEF Explains, Shows, enc_a, enc_b, Near, Lines
<1>8. QED
  BY <1>2, <1>3, <1>7 DEF IInv, Explained, Settled

LEMMA ExplainedInitially ==
  ASSUME NEW p \in -3 .. 0
  PROVE  Near(p, p) /\ (Origin + Lines(p)) % Word = Origin
<1>1. Lines(p) = 0
  BY DEF Lines
<1>2. Origin \in 0 .. Word - 1
  BY HalfAssumption DEF Origin, Word
<1>3. QED
  BY <1>1, <1>2, WordFacts, ModIdentity DEF Near

LEMMA InitIInv == Init => IInv
<1> SUFFICES ASSUME Init PROVE IInv
  OBVIOUS
<1>1. pos \in -3 .. 0 /\ pos \in Int /\ rest \in 0 .. Settled
  BY DEF Init, Settled
<1>2. Explains(pos, pos, pos)
  BY <1>1, ExplainedInitially DEF Init, Explains, Shows
<1>3. QED
  BY <1>1, <1>2 DEF IInv, Explained

LEMMA NextIInv == IInv /\ [Next]_vars => IInv'
<1> SUFFICES ASSUME IInv, [Next]_vars PROVE IInv'
  OBVIOUS
<1>1. CASE Tick
  BY <1>1, ExplainedStep
<1>2. CASE Reset
  <2>1. pos' \in -3 .. 0 /\ pos' \in Int /\ rest' \in 0 .. Settled
    BY <1>2 DEF Reset, Settled
  <2>2. Near(pos', pos') /\ count' = (Origin + Lines(pos')) % Word
    BY <1>2, <2>1, ExplainedInitially DEF Reset
  <2>3. /\ Shows(a1', b1', pos') /\ Shows(a', b', pos')
        /\ Shows(last_a', last_b', pos')
    BY <1>2 DEF Reset, Shows
  <2>4. Explains(pos, pos, pos)'
    BY <2>2, <2>3 DEF Explains, Shows, enc_a, enc_b, Near, Lines
  <2>5. QED
    BY <2>1, <2>4 DEF IInv, Explained, Settled
<1>3. CASE UNCHANGED vars
  BY <1>3 DEF vars, sync, IInv, Explained, Explains, Shows
<1>4. QED
  BY <1>1, <1>2, <1>3 DEF Next

LEMMA IInvAlways == Spec => []IInv
  BY InitIInv, NextIInv, PTL DEF Spec

-----------------------------------------------------------------------------
(* The latches hold bits and the counter keeps its width. *)
THEOREM TypeCorrect == Spec => []TypeOK
<1>1. IInv => TypeOK
  BY WordFacts, LinesInt, ModRange
  DEF IInv, Explained, Explains, Shows, TypeOK, enc_a, enc_b, Bit
<1>2. QED
  BY <1>1, IInvAlways, PTL

(* The register of a shaft at rest is its position, however it got there.  *)
THEOREM SettlesCorrect == Spec => []CountSettles
<1>1. IInv => CountSettles
  BY DEF IInv, Explained, Explains, CountSettles, Settled
<1>2. QED
  BY <1>1, IInvAlways, PTL

(* Positions no more than four transitions apart are no more than one line *)
(* apart.                                                                  *)
LEMMA LinesNear ==
  ASSUME NEW p \in Int, NEW q \in Int, q - 4 <= p, p <= q + 4
  PROVE  Lines(q) - Lines(p) \in {-1, 0, 1}
  BY DEF Lines

(* At any speed of the shaft the register is within a line of it. *)
THEOREM NearCorrect == Spec => []CountNearShaft
<1>1. ASSUME IInv PROVE CountNearShaft
  <2>1. PICK q1 \in Int, q2 \in Int, q3 \in Int : Explains(q1, q2, q3)
    BY <1>1 DEF IInv, Explained
  <2>2. pos \in Int /\ q3 - 4 <= pos /\ pos <= q3 + 4
    BY <1>1, <2>1 DEF IInv, Explains, Near
  <2>3. PICK d \in {-1, 0, 1} : Lines(q3) = Lines(pos) + d
    BY <2>2, LinesNear, LinesInt
  <2>4. Origin + Lines(q3) = Origin + Lines(pos) + d
    BY <2>2, <2>3, LinesInt, WordFacts
  <2>5. QED
    BY <2>1, <2>3, <2>4 DEF CountNearShaft, Explains
<1>2. QED
  BY <1>1, IInvAlways, PTL
=============================================================================
