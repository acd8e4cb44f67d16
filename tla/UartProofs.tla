----------------------------- MODULE UartProofs -----------------------------
(***************************************************************************)
(* Proofs about the serial port for every number of data bits, every       *)
(* divisor and drift that SizesAssumption allows, and any traffic.         *)
(***************************************************************************)
EXTENDS Uart, Integers, SequenceTheorems, TLAPS

-----------------------------------------------------------------------------
(* A character between its start and its stop bit. *)
Framed(c) == <<0>> \o c \o <<1>>

LEMMA FramedFacts ==
  ASSUME NEW n \in Nat \ {0}, NEW c \in [1 .. n -> {0, 1}]
  PROVE  /\ Framed(c) \in Seq({0, 1}) /\ Len(Framed(c)) = n + 2
         /\ Framed(c) \in [1 .. n + 2 -> {0, 1}]
         /\ Framed(c)[1] = 0 /\ Framed(c)[n + 2] = 1
         /\ \A i \in 1 .. n : Framed(c)[i + 1] = c[i]
<1>1. c \in Seq({0, 1}) /\ Len(c) = n
  OBVIOUS
<1>2. /\ Framed(c) \in Seq({0, 1}) /\ Len(Framed(c)) = n + 2
      /\ Framed(c)[1] = 0 /\ Framed(c)[n + 2] = 1
      /\ \A i \in 1 .. n : Framed(c)[i + 1] = c[i]
  BY <1>1 DEF Framed
<1>3. QED
  BY <1>2

(* What the ideal receiver cuts out of a frame it has heard. *)
LEMMA CharOfFrame ==
  ASSUME NEW n \in Nat \ {0}, NEW c \in [1 .. n -> {0, 1}],
         NEW s \in Seq({0, 1}), Len(s) = n + 2,
         \A i \in 1 .. n + 2 : s[i] = Framed(c)[i]
  PROVE  SubSeq(s, 2, n + 1) = c
<1> DEFINE t == SubSeq(s, 2, n + 1)
<1>1. t \in Seq({0, 1}) /\ Len(t) = n /\ \A i \in 1 .. n : t[i] = s[i + 1]
  OBVIOUS
<1>2. \A i \in 1 .. n : i + 1 \in 1 .. n + 2 /\ Framed(c)[i + 1] = c[i]
  BY FramedFacts
<1> HIDE DEF t
<1>3. t \in [1 .. n -> {0, 1}]
  BY <1>1
<1>4. \A i \in 1 .. n : t[i] = c[i]
  BY <1>1, <1>2
<1>5. t = c
  BY <1>3, <1>4
<1>6. QED
  BY <1>5 DEF t

-----------------------------------------------------------------------------
(***************************************************************************)
(* The transmitter.  Between two frames it rests, loads the shift register *)
(* on two clocks, and starts; on the air it is at clock j of bit k, and    *)
(* all of its registers follow from that and from the character.           *)
(***************************************************************************)
S == Tx!Slots
BT == Tx!BitTime
FT == Tx!FrameTime
Half == BT \div 2

AtRest ==
  /\ Tx!shift_done /\ sending = Tx!NoChar
  /\ ear = FT /\ pre_txd = 1 /\ txd = 1
  /\ do_load_shifter = 1 => tx_ready = 0

Loading(c) ==
  /\ do_load_shifter = 1
  /\ tx_shift = Framed(c) /\ sending = c
  /\ tx_ready = 1 => tx_data = c
  /\ tx_baud_rate_counter = TxDivisor
  /\ ear = FT /\ pre_txd = 1 /\ txd = 1

Starting(c) ==
  /\ do_load_shifter = 0
  /\ tx_shift = Framed(c) /\ sending = c
  /\ tx_baud_rate_counter = TxDivisor /\ tx_baud_clk_en = 0
  /\ ear = FT /\ pre_txd = 0 /\ txd = 1

(* How many bits the ideal receiver has by then. *)
Sampled(k, j) == IF j < Half THEN k ELSE k + 1

OnAir(c, k, j) ==
  /\ do_load_shifter = 0
  /\ ear = k * BT + j
  /\ tx_baud_rate_counter =
       IF j < TxDivisor THEN TxDivisor - 1 - j ELSE TxDivisor
  /\ tx_baud_clk_en = IF j < TxDivisor THEN 0 ELSE 1
  /\ \A i \in 1 .. S :
       tx_shift[i] = IF i + k <= S THEN Framed(c)[i + k] ELSE 0
  /\ pre_txd = IF j = 0 /\ k # 0 THEN Framed(c)[k] ELSE Framed(c)[k + 1]
  /\ txd = IF j < 2 /\ k # 0 THEN Framed(c)[k] ELSE Framed(c)[k + 1]
  /\ Len(bits) = Sampled(k, j)
  /\ \A i \in 1 .. Len(bits) : bits[i] = Framed(c)[i]
  /\ sending = IF Len(bits) < S THEN c ELSE Tx!NoChar

TxPhase ==
  \/ AtRest
  \/ \E c \in Tx!Char :
       \/ Loading(c) \/ Starting(c)
       \/ \E k \in 0 .. S - 1, j \in 0 .. TxDivisor : OnAir(c, k, j)

TxInv == Tx!TypeOK /\ TxPhase

-----------------------------------------------------------------------------
LEMMA TxSizes ==
  /\ TxBits \in Nat \ {0} /\ TxDivisor \in Nat /\ TxDivisor >= 3
  /\ S \in Nat /\ S = TxBits + 2
  /\ BT \in Nat /\ BT = TxDivisor + 1
  /\ Half \in Nat /\ 2 <= Half /\ Half <= TxDivisor
  /\ FT \in Nat /\ FT = S * BT
  /\ Tx!NoChar \notin Tx!Char
<1>1. /\ TxBits \in Nat \ {0} /\ TxDivisor \in Nat /\ TxDivisor >= 3
      /\ MaxWrites \in Nat
  BY SizesAssumption
<1>2. S \in Nat /\ S = TxBits + 2 /\ BT \in Nat /\ BT = TxDivisor + 1
  BY <1>1 DEF S, BT, Tx!Slots, Tx!BitTime
<1>3. Half \in Nat /\ 2 <= Half /\ Half <= TxDivisor
  BY <1>1, <1>2 DEF Half
<1>4. FT \in Nat /\ FT = S * BT
  BY <1>2 DEF S, BT, FT, Tx!FrameTime
<1>5. Tx!NoChar \notin Tx!Char
  <2>1. ASSUME NEW c \in [1 .. TxBits -> Tx!Bit], c = <<>> PROVE FALSE
    <3>1. DOMAIN c = 1 .. TxBits /\ 1 \in 1 .. TxBits
      BY <1>1
    <3>2. DOMAIN c = {}
      BY <2>1
    <3>3. QED
      BY <3>1, <3>2
  <2>2. QED
    BY <2>1 DEF Tx!Char, Tx!NoChar
<1>6. QED
  BY <1>1, <1>2, <1>3, <1>4, <1>5

LEMMA TxFrame ==
  ASSUME NEW c \in Tx!Char
  PROVE  /\ Framed(c) \in Seq({0, 1}) /\ Len(Framed(c)) = S
         /\ Framed(c) \in [1 .. S -> {0, 1}]
         /\ Framed(c)[1] = 0 /\ Framed(c)[S] = 1
  BY FramedFacts, TxSizes DEF Tx!Char, Tx!Bit

(* One clock of the transmitter, register by register. *)
TxClock(w) ==
  /\ do_load_shifter' = IF tx_ready = 0 /\ Tx!shift_done THEN 1 ELSE 0
  /\ tx_ready' = IF w # Tx!NoChar THEN 0
                 ELSE IF do_load_shifter = 1 THEN 1 ELSE tx_ready
  /\ tx_baud_rate_counter' =
       IF tx_baud_rate_counter = 0 \/ do_load_shifter = 1
         THEN TxDivisor ELSE tx_baud_rate_counter - 1
  /\ tx_baud_clk_en' = IF tx_baud_rate_counter = 0 THEN 1 ELSE 0
  /\ pre_txd' = IF Tx!shift_done THEN pre_txd ELSE tx_shift[1]
  /\ txd' = pre_txd
  /\ tx_data' = IF w # Tx!NoChar THEN w ELSE tx_data
  /\ writes' = IF w # Tx!NoChar THEN writes + 1 ELSE writes

LEMMA TxClockFacts ==
  ASSUME NEW w, Tx!TypeOK, Tx!Tick(w)
  PROVE  /\ TxClock(w)
         /\ tx_shift' = IF do_load_shifter = 1 THEN Framed(tx_data)
                        ELSE IF tx_baud_clk_en = 1 /\ ~Tx!shift_done
                               THEN Append(Tail(tx_shift), 0) ELSE tx_shift
<1>1. TxClock(w)
  BY DEF TxClock, Tx!Tick, Tx!LoadShifter, Tx!Ready, Tx!Baud, Tx!Line, Tx!TxData
<1>2. tx_shift' = IF do_load_shifter = 1 THEN Tx!tx_load_val
                  ELSE IF Tx!do_shift THEN Append(Tail(tx_shift), 0)
                  ELSE tx_shift
  BY DEF Tx!Tick, Tx!Shifter
<1>3. Tx!tx_load_val = Framed(tx_data)
  BY DEF Framed, Tx!tx_load_val
<1>4. do_load_shifter # 1 => do_load_shifter = 0
  BY DEF Tx!TypeOK, Tx!Bit
<1>5. QED
  BY <1>1, <1>2, <1>3, <1>4 DEF Tx!do_shift

(* The ideal receiver between two frames. *)
LEMMA EarRests ==
  ASSUME NEW w, Tx!Tick(w), ear = FT, txd # 1 \/ pre_txd # 0
  PROVE  /\ ~Tx!StartEdge
         /\ ear' = ear /\ bits' = bits /\ heard' = heard
         /\ sending' = IF do_load_shifter = 1 THEN tx_data ELSE sending
<1>1. txd' = pre_txd
  BY DEF Tx!Tick, Tx!Line
<1>2. ~Tx!StartEdge /\ ~(ear < FT)
  BY <1>1, TxSizes DEF Tx!StartEdge
<1>3. ear' = ear /\ bits' = bits
  BY <1>2 DEF Tx!Tick, Tx!Listen, Tx!Listening, FT
<1>4. ~Tx!Complete
  BY <1>3 DEF Tx!Complete
<1>5. QED
  BY <1>2, <1>3, <1>4 DEF Tx!Tick, Tx!Listen

(* And within one. *)
LEMMA EarListens ==
  ASSUME NEW w, Tx!Tick(w), ear \in Nat, ear < FT, do_load_shifter = 0,
         Len(bits) < S \/ txd # 1 \/ pre_txd # 0
  PROVE  /\ ~Tx!StartEdge
         /\ ear' = ear + 1
         /\ bits' = IF Len(bits) < S /\ ear + 1 = Len(bits) * BT + Half
                      THEN Append(bits, pre_txd) ELSE bits
         /\ heard' = IF Tx!Complete THEN Append(heard, SubSeq(bits', 2, S - 1))
                     ELSE heard
         /\ sending' = IF Tx!Complete THEN Tx!NoChar ELSE sending
<1>1. txd' = pre_txd
  BY DEF Tx!Tick, Tx!Line
<1>2. Tx!Listening <=> Len(bits) < S
  BY DEF Tx!Listening, S, FT
<1>3. ~Tx!StartEdge
  BY <1>1, <1>2 DEF Tx!StartEdge
<1>4. ear' = ear + 1
  BY <1>3 DEF Tx!Tick, Tx!Listen, FT
<1>5. Tx!SampleAt(Len(bits)) = Len(bits) * BT + Half
  BY DEF Tx!SampleAt, BT, Half
<1>6. bits' = IF Len(bits) < S /\ ear + 1 = Len(bits) * BT + Half
                THEN Append(bits, pre_txd) ELSE bits
  BY <1>1, <1>2, <1>3, <1>4, <1>5 DEF Tx!Tick, Tx!Listen
<1>7. QED
  BY <1>3, <1>4, <1>6 DEF Tx!Tick, Tx!Listen, S

(* A shift register, one bit on. *)
LEMMA ShiftIn ==
  ASSUME NEW n \in Nat \ {0}, NEW s \in [1 .. n -> {0, 1}], NEW b \in {0, 1}
  PROVE  /\ Append(Tail(s), b) \in [1 .. n -> {0, 1}]
         /\ \A i \in 1 .. n - 1 : Append(Tail(s), b)[i] = s[i + 1]
         /\ Append(Tail(s), b)[n] = b
<1>1. s \in Seq({0, 1}) /\ Len(s) = n /\ s # <<>>
  OBVIOUS
<1>2. Tail(s) \in Seq({0, 1}) /\ Len(Tail(s)) = n - 1
  BY <1>1
<1>3. \A i \in 1 .. n - 1 : Tail(s)[i] = s[i + 1]
  BY <1>1
<1> DEFINE t == Tail(s)
<1> HIDE DEF t
<1>4. /\ Append(t, b) \in Seq({0, 1}) /\ Len(Append(t, b)) = n
      /\ \A i \in 1 .. n - 1 : Append(t, b)[i] = t[i]
      /\ Append(t, b)[n] = b
  BY <1>2 DEF t
<1>5. \A i \in 1 .. n - 1 : Append(t, b)[i] = s[i + 1]
  BY <1>3, <1>4 DEF t
<1> DEFINE u == Append(t, b)
<1>6. u \in Seq({0, 1}) /\ Len(u) = n
  BY <1>4
<1> HIDE DEF u
<1>7. u \in [1 .. n -> {0, 1}]
  BY <1>6
<1>8. QED
  BY <1>4, <1>5, <1>7 DEF t, u

-----------------------------------------------------------------------------
(* From each phase to the next.  d is the character in TXDATA before the   *)
(* clock.                                                                  *)
LEMMA AtRestStep ==
  ASSUME Tx!TypeOK, AtRest, NEW w \in Tx!Char \cup {Tx!NoChar}, Tx!Tick(w),
         NEW d, d = tx_data
  PROVE  /\ heard' = heard
         /\ IF do_load_shifter = 1 THEN Loading(d)' ELSE AtRest'
<1>1. /\ ear' = FT /\ pre_txd' = 1 /\ txd' = 1 /\ heard' = heard
      /\ sending' = IF do_load_shifter = 1 THEN d ELSE sending
  BY EarRests, TxClockFacts DEF AtRest, TxClock
<1>2. CASE do_load_shifter = 1
  <2>1. tx_shift' = Framed(d) /\ sending' = d
    BY <1>1, <1>2, TxClockFacts
  <2>2. do_load_shifter' = 1 /\ tx_baud_rate_counter' = TxDivisor
    BY <1>2, TxClockFacts DEF AtRest, TxClock
  <2>3. tx_ready' = 1 => tx_data' = d
    BY TxClockFacts DEF TxClock
  <2>4. QED
    BY <1>1, <1>2, <2>1, <2>2, <2>3 DEF Loading
<1>3. CASE do_load_shifter # 1
  <2>1. tx_shift' = tx_shift /\ sending' = sending
    BY <1>1, <1>3, TxClockFacts DEF AtRest
  <2>2. do_load_shifter' = 1 => tx_ready' = 0
    BY <1>3, TxClockFacts DEF TxClock
  <2>3. QED
    BY <1>1, <1>3, <2>1, <2>2 DEF AtRest, Tx!shift_done
<1>4. QED
  BY <1>2, <1>3

LEMMA NotDone ==
  ASSUME NEW i \in 1 .. S, tx_shift[i] = 1
  PROVE  ~Tx!shift_done
  BY DEF Tx!shift_done, S

LEMMA LoadingStep ==
  ASSUME Tx!TypeOK, NEW c \in Tx!Char, Loading(c),
         NEW w \in Tx!Char \cup {Tx!NoChar}, Tx!Tick(w),
         NEW d, d = tx_data
  PROVE  Starting(d)' /\ heard' = heard
<1>1. S \in 1 .. S /\ tx_shift[1] = 0 /\ tx_shift[S] = 1
  BY TxFrame, TxSizes DEF Loading
<1>2. ~Tx!shift_done
  BY <1>1, NotDone
<1>3. ear' = FT /\ sending' = d /\ heard' = heard
  BY EarRests DEF Loading
<1>4. /\ do_load_shifter' = 0 /\ pre_txd' = 0 /\ txd' = 1
      /\ tx_baud_rate_counter' = TxDivisor /\ tx_baud_clk_en' = 0
  BY <1>1, <1>2, TxClockFacts, TxSizes DEF Loading, TxClock
<1>5. tx_shift' = Framed(d)
  BY TxClockFacts DEF Loading
<1>6. QED
  BY <1>3, <1>4, <1>5 DEF Starting

LEMMA StartingStep ==
  ASSUME Tx!TypeOK, NEW c \in Tx!Char, Starting(c),
         NEW w \in Tx!Char \cup {Tx!NoChar}, Tx!Tick(w)
  PROVE  OnAir(c, 0, 0)' /\ Tx!StartEdge /\ heard' = heard
<1>1. S \in 1 .. S /\ tx_shift[1] = 0 /\ tx_shift[S] = 1
  BY TxFrame, TxSizes DEF Starting
<1>2. ~Tx!shift_done
  BY <1>1, NotDone
<1>3. /\ do_load_shifter' = 0 /\ pre_txd' = 0 /\ txd' = 0
      /\ tx_baud_rate_counter' = TxDivisor - 1 /\ tx_baud_clk_en' = 0
  BY <1>1, <1>2, TxClockFacts, TxSizes DEF Starting, TxClock
<1>4. tx_shift' = Framed(c)
  BY TxClockFacts DEF Starting
<1>5. Tx!StartEdge
  BY <1>3, TxSizes DEF Starting, Tx!StartEdge, Tx!Listening, FT
<1>6. ear' = 0 /\ bits' = <<>>
  BY <1>5 DEF Tx!Tick, Tx!Listen
<1>7. ~Tx!Complete
  BY <1>6, TxSizes DEF Tx!Complete, S
<1>8. heard' = heard /\ sending' = c
  BY <1>7 DEF Tx!Tick, Tx!Listen, Starting
<1>9. Len(bits') = 0 /\ Sampled(0, 0) = 0
  BY <1>6, TxSizes DEF Sampled
<1>10. \A i \in 1 .. S : i + 0 = i
  OBVIOUS
<1>11. 0 * BT + 0 = 0 /\ 0 < TxDivisor /\ TxDivisor - 1 - 0 = TxDivisor - 1
  BY TxSizes
<1>12. QED
  BY <1>1, <1>3, <1>4, <1>5, <1>6, <1>8, <1>9, <1>10, <1>11, TxSizes, TxFrame
  DEF OnAir

-----------------------------------------------------------------------------
(* The clocks of a frame. *)
LEMMA Products ==
  ASSUME NEW n \in Nat, NEW m \in Nat, NEW k \in 0 .. m - 1
  PROVE  /\ k * n \in Nat /\ (k + 1) * n = k * n + n /\ k * n + n <= m * n
<1>1. m - (k + 1) \in Nat /\ k \in Nat
  OBVIOUS
<1>2. (m - (k + 1)) * n \in Nat /\ k * n \in Nat
  BY <1>1
<1>3. m * n = (m - (k + 1)) * n + (k + 1) * n /\ (k + 1) * n = k * n + n
  BY <1>1
<1>4. QED
  BY <1>2, <1>3

LEMMA OnAirClock ==
  ASSUME Tx!TypeOK, NEW c \in Tx!Char,
         NEW k \in 0 .. S - 1, NEW j \in 0 .. TxDivisor, OnAir(c, k, j),
         NEW w \in Tx!Char \cup {Tx!NoChar}, Tx!Tick(w)
  PROVE  /\ ~Tx!shift_done /\ do_load_shifter' = 0 /\ ~Tx!StartEdge
         /\ ear' = k * BT + j + 1
         /\ pre_txd' = Framed(c)[k + 1] /\ txd' = pre_txd
         /\ bits' = IF Len(bits) < S /\ ear + 1 = Len(bits) * BT + Half
                      THEN Append(bits, pre_txd) ELSE bits
         /\ heard' = IF Tx!Complete THEN Append(heard, SubSeq(bits', 2, S - 1))
                     ELSE heard
         /\ sending' = IF Tx!Complete THEN Tx!NoChar ELSE sending
<1>1. tx_shift[1] = Framed(c)[k + 1]
  <2>1. 1 \in 1 .. S /\ 1 + k <= S /\ 1 + k = k + 1
    BY TxSizes
  <2>2. QED
    BY <2>1 DEF OnAir
<1>2. ~Tx!shift_done
  <2>1. S - k \in 1 .. S /\ (S - k) + k <= S /\ (S - k) + k = S
    BY TxSizes
  <2>2. tx_shift[S - k] = Framed(c)[S]
    BY <2>1 DEF OnAir
  <2>3. QED
    BY <2>1, <2>2, TxFrame, NotDone
<1>3. ear \in Nat /\ ear < FT
  <2>1. k * BT \in Nat /\ k * BT + BT <= S * BT
    BY TxSizes, Products
  <2>2. QED
    BY <2>1, TxSizes DEF OnAir
<1>4. Len(bits) < S \/ pre_txd # 0
  <2>1. CASE j < Half
    BY <2>1, TxSizes DEF OnAir, Sampled
  <2>2. CASE k < S - 1
    BY <2>2, TxSizes DEF OnAir, Sampled
  <2>3. CASE ~(j < Half) /\ k = S - 1
    <3>1. j # 0 /\ k + 1 = S
      BY <2>3, TxSizes
    <3>2. QED
      BY <3>1, TxFrame DEF OnAir
  <2>4. QED
    BY <2>1, <2>2, <2>3, TxSizes
<1>5. do_load_shifter' = 0 /\ pre_txd' = Framed(c)[k + 1] /\ txd' = pre_txd
  BY <1>1, <1>2, TxClockFacts DEF TxClock
<1>6. do_load_shifter = 0 /\ ear = k * BT + j
  BY DEF OnAir
<1>7. QED
  BY <1>2, <1>3, <1>4, <1>5, <1>6, EarListens

(* One clock within a bit; in its middle the ideal receiver takes it. *)
LEMMA WithinBit ==
  ASSUME Tx!TypeOK, NEW c \in Tx!Char,
         NEW k \in 0 .. S - 1, NEW j \in 0 .. TxDivisor - 1, OnAir(c, k, j),
         NEW w \in Tx!Char \cup {Tx!NoChar}, Tx!Tick(w)
  PROVE  /\ OnAir(c, k, j + 1)'
         /\ Tx!Complete => sending = c /\ SubSeq(bits', 2, S - 1) = c
<1>0. j \in 0 .. TxDivisor /\ j < TxDivisor
  BY TxSizes
<1> DEFINE F == Framed(c)
<1>1. /\ do_load_shifter' = 0 /\ ear' = k * BT + (j + 1)
      /\ pre_txd' = F[k + 1] /\ txd' = pre_txd
  BY <1>0, OnAirClock, Products, TxSizes
<1>2. tx_shift' = tx_shift
  BY <1>0, TxClockFacts DEF OnAir
<1>3. /\ tx_baud_rate_counter' = IF j + 1 < TxDivisor THEN TxDivisor - 1 - (j + 1)
                                 ELSE TxDivisor
      /\ tx_baud_clk_en' = IF j + 1 < TxDivisor THEN 0 ELSE 1
  <2>1. tx_baud_rate_counter = TxDivisor - 1 - j
    BY <1>0 DEF OnAir
  <2>2. /\ tx_baud_rate_counter' = IF tx_baud_rate_counter = 0 THEN TxDivisor
                                   ELSE tx_baud_rate_counter - 1
        /\ tx_baud_clk_en' = IF tx_baud_rate_counter = 0 THEN 1 ELSE 0
    BY TxClockFacts DEF TxClock, OnAir
  <2>3. tx_baud_rate_counter = 0 <=> ~(j + 1 < TxDivisor)
    BY <2>1, TxSizes
  <2>4. QED
    BY <2>1, <2>2, <2>3, TxSizes
<1>4. pre_txd = IF j = 0 /\ k # 0 THEN F[k] ELSE F[k + 1]
  BY DEF OnAir
<1>5. /\ txd' = IF j + 1 < 2 /\ k # 0 THEN F[k] ELSE F[k + 1]
      /\ j + 1 # 0
  BY <1>1, <1>4
<1>6. bits \in Seq({0, 1}) /\ pre_txd \in {0, 1}
  BY DEF Tx!TypeOK, Tx!Bit
<1>7. /\ Len(bits) = Sampled(k, j)
      /\ \A i \in 1 .. Len(bits) : bits[i] = F[i]
      /\ sending = IF Len(bits) < S THEN c ELSE Tx!NoChar
  BY DEF OnAir
<1>8. bits' = IF j + 1 = Half THEN Append(bits, F[k + 1]) ELSE bits
  <2>1. bits' = IF Len(bits) < S /\ k * BT + j + 1 = Len(bits) * BT + Half
                  THEN Append(bits, pre_txd) ELSE bits
    BY <1>0, OnAirClock DEF OnAir
  <2>2. k * BT \in Nat /\ (k + 1) * BT = k * BT + BT
    BY TxSizes, Products
  <2>3. CASE j + 1 = Half
    <3>1. Len(bits) = k /\ k < S /\ j # 0
      <4>1. j < Half /\ j # 0 /\ k < S
        BY ONLY <2>3, TxSizes, j \in 0 .. TxDivisor - 1, k \in 0 .. S - 1
      <4>2. Sampled(k, j) = k
        BY <4>1 DEF Sampled
      <4>3. QED
        BY ONLY <1>7, <4>1, <4>2
    <3>2. k * BT + j + 1 = k * BT + Half
      BY <2>2, <2>3, TxSizes
    <3>3. QED
      BY <2>1, <2>3, <3>1, <3>2, <1>4
  <2>4. CASE j + 1 # Half
    <3>1. CASE j < Half
      <4>1. Len(bits) = k /\ k * BT + j + 1 # k * BT + Half
        BY <2>2, <2>4, <3>1, <1>7, TxSizes DEF Sampled
      <4>2. QED
        BY <2>1, <2>4, <4>1
    <3>2. CASE ~(j < Half)
      <4>1. Len(bits) = k + 1
        BY <3>2, <1>7 DEF Sampled
      <4>2. k * BT + j + 1 # (k + 1) * BT + Half
        BY <2>2, <1>0, TxSizes
      <4>3. QED
        BY <2>1, <2>4, <4>1, <4>2
    <3>3. QED
      BY <3>1, <3>2
  <2>5. QED
    BY <2>3, <2>4
<1>9. Sampled(k, j + 1) = IF j + 1 = Half THEN Sampled(k, j) + 1
                          ELSE Sampled(k, j)
  BY TxSizes DEF Sampled
<1>10. F \in Seq({0, 1}) /\ Len(F) = S /\ F \in [1 .. S -> {0, 1}]
  BY TxFrame
<1>11. j + 1 = Half => Len(bits) = k
  BY <1>7, TxSizes DEF Sampled
<1> HIDE DEF F
<1>12. /\ bits' \in Seq({0, 1}) /\ Len(bits') = Sampled(k, j + 1)
       /\ \A i \in 1 .. Len(bits') : bits'[i] = F[i]
  <2>1. CASE j + 1 = Half
    <3>1. F[k + 1] \in {0, 1}
      BY <1>10, TxSizes
    <3>2. bits' = Append(bits, F[k + 1]) /\ Len(bits) = k
      BY <2>1, <1>8, <1>11
    <3>3. /\ bits' \in Seq({0, 1}) /\ Len(bits') = k + 1
          /\ \A i \in 1 .. k : bits'[i] = bits[i]
          /\ bits'[k + 1] = F[k + 1]
      BY <1>6, <3>1, <3>2
    <3>4. \A i \in 1 .. k + 1 : i \in 1 .. k \/ i = k + 1
      OBVIOUS
    <3>5. QED
      BY <2>1, <1>7, <1>9, <3>2, <3>3, <3>4
  <2>2. CASE j + 1 # Half
    BY <2>2, <1>6, <1>7, <1>8, <1>9
  <2>3. QED
    BY <2>1, <2>2
<1>13. /\ Tx!Complete <=> Len(bits') = S /\ Len(bits) < S
       /\ sending' = IF Tx!Complete THEN Tx!NoChar ELSE sending
  BY <1>0, OnAirClock DEF Tx!Complete, S
<1>14. Len(bits') <= S /\ Len(bits) <= Len(bits') /\ Len(bits) \in Nat
  BY <1>6, <1>7, <1>9, <1>12, TxSizes DEF Sampled
<1>15. sending' = IF Len(bits') < S THEN c ELSE Tx!NoChar
  BY <1>7, <1>13, <1>14, TxSizes
<1>16. OnAir(c, k, j + 1)'
  BY <1>1, <1>2, <1>3, <1>5, <1>12, <1>15 DEF OnAir, F
<1>17. Tx!Complete => sending = c /\ SubSeq(bits', 2, S - 1) = c
  <2> SUFFICES ASSUME Tx!Complete
               PROVE  sending = c /\ SubSeq(bits', 2, S - 1) = c
    OBVIOUS
  <2>1. c \in [1 .. TxBits -> {0, 1}] /\ S = TxBits + 2 /\ S - 1 = TxBits + 1
    BY TxSizes DEF Tx!Char, Tx!Bit
  <2>2. /\ bits' \in Seq({0, 1}) /\ Len(bits') = TxBits + 2
        /\ \A i \in 1 .. TxBits + 2 : bits'[i] = Framed(c)[i]
    BY <1>12, <1>13, <2>1 DEF F
  <2>3. SubSeq(bits', 2, TxBits + 1) = c
    BY <2>1, <2>2, CharOfFrame, TxSizes
  <2>4. QED
    BY <1>7, <1>13, <2>1, <2>3
<1>18. QED
  BY <1>16, <1>17

(* The last clock of a bit: the shift register moves on. *)
LEMMA EndOfBit ==
  ASSUME Tx!TypeOK, NEW c \in Tx!Char, NEW k \in 0 .. S - 1,
         OnAir(c, k, TxDivisor),
         NEW w \in Tx!Char \cup {Tx!NoChar}, Tx!Tick(w)
  PROVE  /\ do_load_shifter' = 0 /\ ear' = (k + 1) * BT
         /\ pre_txd' = Framed(c)[k + 1] /\ txd' = Framed(c)[k + 1]
         /\ tx_baud_rate_counter' = TxDivisor - 1 /\ tx_baud_clk_en' = 0
         /\ \A i \in 1 .. S : tx_shift'[i] = IF i + (k + 1) <= S
                                THEN Framed(c)[i + (k + 1)] ELSE 0
         /\ Len(bits) = k + 1 /\ bits' = bits
         /\ heard' = heard /\ sending' = sending /\ ~Tx!Complete
<1>0. TxDivisor \in 0 .. TxDivisor /\ ~(TxDivisor < TxDivisor) /\ TxDivisor # 0
  BY TxSizes
<1>1. /\ ~Tx!shift_done /\ do_load_shifter' = 0
      /\ ear' = k * BT + TxDivisor + 1
      /\ pre_txd' = Framed(c)[k + 1] /\ txd' = pre_txd
      /\ bits' = IF Len(bits) < S /\ ear + 1 = Len(bits) * BT + Half
                   THEN Append(bits, pre_txd) ELSE bits
      /\ heard' = IF Tx!Complete THEN Append(heard, SubSeq(bits', 2, S - 1))
                  ELSE heard
      /\ sending' = IF Tx!Complete THEN Tx!NoChar ELSE sending
  BY <1>0, OnAirClock
<1>2. k * BT \in Nat /\ (k + 1) * BT = k * BT + BT
  BY TxSizes, Products
<1>3. ear' = (k + 1) * BT
  BY <1>1, <1>2, TxSizes
<1>4. pre_txd = Framed(c)[k + 1]
  BY <1>0 DEF OnAir
<1>5. tx_baud_rate_counter' = TxDivisor - 1 /\ tx_baud_clk_en' = 0
  BY <1>0, TxClockFacts, TxSizes DEF OnAir, TxClock
<1>6. tx_shift' = Append(Tail(tx_shift), 0)
  BY <1>0, <1>1, TxClockFacts DEF OnAir
<1>7. \A i \in 1 .. S : tx_shift'[i] = IF i + (k + 1) <= S
                          THEN Framed(c)[i + (k + 1)] ELSE 0
  <2>1. tx_shift \in [1 .. S -> {0, 1}] /\ S \in Nat \ {0}
    BY TxSizes DEF Tx!TypeOK, Tx!Bit, S
  <2>2. /\ \A i \in 1 .. S - 1 : tx_shift'[i] = tx_shift[i + 1]
        /\ tx_shift'[S] = 0
    BY <1>6, <2>1, ShiftIn
  <2>3. \A i \in 1 .. S :
          tx_shift[i] = IF i + k <= S THEN Framed(c)[i + k] ELSE 0
    BY DEF OnAir
  <2>4. ASSUME NEW i \in 1 .. S - 1
        PROVE  tx_shift'[i] = IF i + (k + 1) <= S
                                THEN Framed(c)[i + (k + 1)] ELSE 0
    <3>1. i + 1 \in 1 .. S /\ (i + 1) + k = i + (k + 1)
      BY TxSizes
    <3>2. QED
      BY <2>2, <2>3, <3>1
  <2>5. ~(S + (k + 1) <= S)
    BY TxSizes
  <2>6. \A i \in 1 .. S : i \in 1 .. S - 1 \/ i = S
    BY TxSizes
  <2>7. QED
    BY <2>2, <2>4, <2>5, <2>6
<1>8. Len(bits) = k + 1
  BY TxSizes DEF OnAir, Sampled
<1>9. ear + 1 # Len(bits) * BT + Half
  <2>1. ear + 1 = (k + 1) * BT
    BY <1>2, TxSizes DEF OnAir
  <2>2. QED
    BY <1>2, <1>8, <2>1, TxSizes
<1>10. bits' = bits
  BY <1>1, <1>9
<1>11. ~Tx!Complete
  BY <1>10 DEF Tx!Complete
<1>12. QED
  BY <1>1, <1>3, <1>4, <1>5, <1>7, <1>8, <1>10, <1>11

LEMMA NextBit ==
  ASSUME Tx!TypeOK, NEW c \in Tx!Char, NEW k \in 0 .. S - 2,
         OnAir(c, k, TxDivisor),
         NEW w \in Tx!Char \cup {Tx!NoChar}, Tx!Tick(w)
  PROVE  OnAir(c, k + 1, 0)' /\ ~Tx!Complete
<1>1. k \in 0 .. S - 1 /\ k + 1 # 0 /\ 0 < Half /\ 0 < TxDivisor
      /\ (k + 1) * BT \in Nat /\ k + 1 < S
  BY TxSizes, Products
<1>2. (k + 1) * BT + 0 = (k + 1) * BT /\ TxDivisor - 1 - 0 = TxDivisor - 1
  BY <1>1, TxSizes
<1>3. /\ \A i \in 1 .. Len(bits) : bits[i] = Framed(c)[i]
      /\ sending = IF Len(bits) < S THEN c ELSE Tx!NoChar
  BY DEF OnAir
<1>4. /\ do_load_shifter' = 0 /\ ear' = (k + 1) * BT
      /\ pre_txd' = Framed(c)[k + 1] /\ txd' = Framed(c)[k + 1]
      /\ tx_baud_rate_counter' = TxDivisor - 1 /\ tx_baud_clk_en' = 0
      /\ \A i \in 1 .. S : tx_shift'[i] = IF i + (k + 1) <= S
                             THEN Framed(c)[i + (k + 1)] ELSE 0
      /\ Len(bits) = k + 1 /\ bits' = bits
      /\ sending' = sending /\ ~Tx!Complete
  BY <1>1, EndOfBit
<1>5. Sampled(k + 1, 0) = k + 1
  BY <1>1 DEF Sampled
<1> DEFINE m == k + 1
<1>6. /\ m \in Nat /\ m # 0 /\ m < S /\ m * BT + 0 = m * BT
      /\ TxDivisor \in Nat /\ 0 < TxDivisor
      /\ TxDivisor - 1 - 0 = TxDivisor - 1 /\ Sampled(m, 0) = m
  BY <1>1, <1>2, <1>5, TxSizes
<1>7. /\ do_load_shifter' = 0 /\ ear' = m * BT
      /\ pre_txd' = Framed(c)[m] /\ txd' = Framed(c)[m]
      /\ tx_baud_rate_counter' = TxDivisor - 1 /\ tx_baud_clk_en' = 0
      /\ \A i \in 1 .. S : tx_shift'[i] = IF i + m <= S
                             THEN Framed(c)[i + m] ELSE 0
      /\ Len(bits) = m /\ bits' = bits /\ sending' = sending
  BY <1>4
<1> HIDE DEF m
<1>8. OnAir(c, m, 0)'
  <2>1. /\ do_load_shifter' = 0 /\ ear' = m * BT + 0
        /\ tx_baud_rate_counter' = IF 0 < TxDivisor THEN TxDivisor - 1 - 0
                                   ELSE TxDivisor
        /\ tx_baud_clk_en' = IF 0 < TxDivisor THEN 0 ELSE 1
        /\ pre_txd' = IF 0 = 0 /\ m # 0 THEN Framed(c)[m] ELSE Framed(c)[m + 1]
        /\ txd' = IF 0 < 2 /\ m # 0 THEN Framed(c)[m] ELSE Framed(c)[m + 1]
    BY <1>6, <1>7
  <2>2. Len(bits') = Sampled(m, 0)
    BY <1>6, <1>7
  <2>3. \A i \in 1 .. Len(bits') : bits'[i] = Framed(c)[i]
    BY <1>3, <1>7
  <2>4. sending' = IF Len(bits') < S THEN c ELSE Tx!NoChar
    BY <1>3, <1>7
  <2>5. QED
    BY <1>7, <2>1, <2>2, <2>3, <2>4 DEF OnAir
<1>9. QED
  BY <1>4, <1>8 DEF m

LEMMA EndOfFrame ==
  ASSUME Tx!TypeOK, NEW c \in Tx!Char, OnAir(c, S - 1, TxDivisor),
         NEW w \in Tx!Char \cup {Tx!NoChar}, Tx!Tick(w)
  PROVE  AtRest' /\ ~Tx!Complete
<1>1. S - 1 \in 0 .. S - 1 /\ (S - 1) + 1 = S
  BY TxSizes
<1>2. /\ do_load_shifter' = 0 /\ ear' = S * BT
      /\ pre_txd' = Framed(c)[S] /\ txd' = Framed(c)[S]
      /\ \A i \in 1 .. S : tx_shift'[i] = IF i + S <= S
                             THEN Framed(c)[i + S] ELSE 0
      /\ Len(bits) = S /\ sending' = sending /\ ~Tx!Complete
  <2> DEFINE k == S - 1
  <2>1. k \in 0 .. S - 1 /\ k + 1 = S /\ OnAir(c, k, TxDivisor)
    BY <1>1
  <2> HIDE DEF k
  <2>2. QED
    BY <2>1, EndOfBit
<1>3. sending = Tx!NoChar
  BY <1>2 DEF OnAir
<1>4. \A i \in 1 .. S : tx_shift'[i] = 0
  <2>1. \A i \in 1 .. S : ~(i + S <= S)
    BY TxSizes
  <2>2. QED
    BY <1>2, <2>1
<1>5. QED
  BY <1>2, <1>3, <1>4, TxFrame, TxSizes DEF AtRest, Tx!shift_done, S

-----------------------------------------------------------------------------
(* A clock keeps the phase, and a frame that is heard is the character     *)
(* that was loaded last.                                                   *)
LEMMA PhaseStep ==
  ASSUME TxInv, NEW w \in Tx!Char \cup {Tx!NoChar}, Tx!Tick(w)
  PROVE  /\ TxPhase'
         /\ IF Tx!Complete
              THEN /\ sending \in Tx!Char /\ do_load_shifter = 0
                   /\ heard' = Append(heard, sending)
              ELSE heard' = heard
         /\ Tx!StartEdge => ear = FT
<1> USE DEF TxInv
<1>0. tx_data \in Tx!Char
  BY DEF Tx!TypeOK
<1>c. (~Tx!Complete => heard' = heard) /\ (ear = FT => ~Tx!Complete)
  <2>1. ~Tx!Complete => heard' = heard
    BY DEF Tx!Tick, Tx!Listen
  <2>2. ASSUME ear = FT, Tx!Complete PROVE FALSE
    <3>1. Len(bits') = S /\ Len(bits) < S
      BY <2>2 DEF Tx!Complete, S
    <3>2. ~Tx!Listening
      BY <2>2, TxSizes DEF Tx!Listening, FT
    <3>3. bits' = IF Tx!StartEdge THEN <<>> ELSE bits
      BY <3>2 DEF Tx!Tick, Tx!Listen
    <3>4. QED
      BY <3>1, <3>3, TxSizes
  <2>3. QED
    BY <2>1, <2>2
<1>1. CASE AtRest
  <2>1. IF do_load_shifter = 1 THEN \E d \in Tx!Char : Loading(d)' ELSE AtRest'
    BY <1>0, <1>1, AtRestStep
  <2>2. ear = FT
    BY <1>1 DEF AtRest
  <2>3. QED
    BY <1>c, <2>1, <2>2 DEF TxPhase
<1>2. ASSUME NEW c \in Tx!Char, Loading(c)
      PROVE  TxPhase' /\ ear = FT
  <2>1. \E d \in Tx!Char : Starting(d)'
    BY <1>0, <1>2, LoadingStep
  <2>2. QED
    BY <1>2, <2>1 DEF TxPhase, Loading
<1>3. ASSUME NEW c \in Tx!Char, Starting(c)
      PROVE  TxPhase' /\ ear = FT
  <2>1. OnAir(c, 0, 0)'
    BY <1>3, StartingStep
  <2>2. 0 \in 0 .. S - 1 /\ 0 \in 0 .. TxDivisor
    BY TxSizes
  <2>3. QED
    BY <1>3, <2>1, <2>2 DEF TxPhase, Starting
<1>4. ASSUME NEW c \in Tx!Char, NEW k \in 0 .. S - 1, NEW j \in 0 .. TxDivisor,
             OnAir(c, k, j)
      PROVE  /\ TxPhase' /\ ~Tx!StartEdge
             /\ Tx!Complete => /\ sending \in Tx!Char /\ do_load_shifter = 0
                               /\ heard' = Append(heard, sending)
  <2>1. /\ ~Tx!StartEdge
        /\ Tx!Complete => heard' = Append(heard, SubSeq(bits', 2, S - 1))
    BY <1>4, OnAirClock
  <2>2. CASE j < TxDivisor
    <3>1. j \in 0 .. TxDivisor - 1 /\ j + 1 \in 0 .. TxDivisor
      BY <2>2, TxSizes
    <3>2. /\ OnAir(c, k, j + 1)'
          /\ Tx!Complete => sending = c /\ SubSeq(bits', 2, S - 1) = c
      BY <1>4, <3>1, WithinBit
    <3>3. TxPhase'
      <4> DEFINE i == j + 1
      <4>1. i \in 0 .. TxDivisor /\ OnAir(c, k, i)'
        BY <3>1, <3>2
      <4> HIDE DEF i
      <4>2. QED
        BY <4>1 DEF TxPhase
    <3>4. do_load_shifter = 0
      BY <1>4 DEF OnAir
    <3>5. QED
      BY <2>1, <3>2, <3>3, <3>4
  <2>3. CASE j = TxDivisor /\ k < S - 1
    <3>1. k \in 0 .. S - 2 /\ k + 1 \in 0 .. S - 1 /\ 0 \in 0 .. TxDivisor
      BY <2>3, TxSizes
    <3>2. OnAir(c, k + 1, 0)' /\ ~Tx!Complete
      BY <1>4, <2>3, <3>1, NextBit
    <3>3. TxPhase'
      <4> DEFINE m == k + 1
      <4>1. m \in 0 .. S - 1 /\ OnAir(c, m, 0)'
        BY <3>1, <3>2
      <4> HIDE DEF m
      <4>2. QED
        BY <3>1, <4>1 DEF TxPhase
    <3>4. QED
      BY <2>1, <3>2, <3>3
  <2>4. CASE j = TxDivisor /\ k = S - 1
    <3>1. OnAir(c, S - 1, TxDivisor)
      BY <1>4, <2>4
    <3>2. AtRest' /\ ~Tx!Complete
      BY <3>1, EndOfFrame
    <3>3. QED
      BY <2>1, <3>2 DEF TxPhase
  <2>5. QED
    BY <2>2, <2>3, <2>4, TxSizes
<1>5. QED
  BY <1>c, <1>1, <1>2, <1>3, <1>4 DEF TxPhase

LEMMA TxTypeStep ==
  ASSUME TxInv, NEW w \in Tx!Char \cup {Tx!NoChar}, Tx!Tick(w),
         w # Tx!NoChar => writes < MaxWrites
  PROVE  Tx!TypeOK'
<1> USE DEF TxInv
<1>1. TxClock(w)
  BY TxClockFacts
<1>2. Tx!Bit = {0, 1} /\ Tx!FrameTime = FT /\ Tx!Slots = S
  BY DEF Tx!Bit, FT, S
<1>3. tx_data' \in Tx!Char
  BY <1>1 DEF TxClock, Tx!TypeOK
<1>4. tx_ready' \in {0, 1} /\ do_load_shifter' \in {0, 1}
  BY <1>1, <1>2 DEF TxClock, Tx!TypeOK
<1>5. tx_shift' \in [1 .. S -> {0, 1}]
  <2>1. tx_shift \in [1 .. S -> {0, 1}] /\ tx_data \in Tx!Char
    BY <1>2 DEF Tx!TypeOK
  <2>2. /\ Append(Tail(tx_shift), 0) \in [1 .. S -> {0, 1}]
        /\ Framed(tx_data) \in [1 .. S -> {0, 1}]
    BY <2>1, ShiftIn, TxFrame, TxSizes
  <2>3. QED
    BY <2>1, <2>2, TxClockFacts
<1>6. tx_baud_rate_counter' \in 0 .. TxDivisor /\ tx_baud_clk_en' \in {0, 1}
  BY <1>1, TxSizes DEF TxClock, Tx!TypeOK
<1>7. pre_txd' \in {0, 1} /\ txd' \in {0, 1}
  <2>1. tx_shift[1] \in {0, 1}
    BY <1>2, TxSizes DEF Tx!TypeOK
  <2>2. QED
    BY <1>1, <1>2, <2>1 DEF TxClock, Tx!TypeOK
<1>8. ear' \in 0 .. FT
  BY <1>2, TxSizes DEF Tx!TypeOK, Tx!Tick, Tx!Listen
<1>9. bits' \in Seq({0, 1})
  BY <1>2, <1>7 DEF Tx!TypeOK, Tx!Tick, Tx!Listen
<1>10. heard' \in Seq(Tx!Char)
  BY PhaseStep DEF Tx!TypeOK
<1>11. sending' \in Tx!Char \cup {Tx!NoChar}
  BY DEF Tx!TypeOK, Tx!Tick, Tx!Listen
<1>12. writes' \in 0 .. MaxWrites
  BY <1>1, SizesAssumption DEF TxClock, Tx!TypeOK
<1>13. QED
  BY <1>2, <1>3, <1>4, <1>5, <1>6, <1>7, <1>8, <1>9, <1>10, <1>11, <1>12
  DEF Tx!TypeOK

LEMMA TxNextInv == TxInv /\ [Next]_vars => TxInv'
<1> SUFFICES ASSUME TxInv, [Next]_vars PROVE TxInv'
  OBVIOUS
<1>1. CASE Transmit
  <2>1. PICK w \in Tx!Char \cup {Tx!NoChar} :
          Tx!Tick(w) /\ (w # Tx!NoChar => writes < MaxWrites)
    BY <1>1 DEF Transmit, Tx!Next, Tx!Quiet, Tx!WriteTxData
  <2>2. TxPhase' /\ Tx!TypeOK'
    BY <2>1, PhaseStep, TxTypeStep
  <2>3. QED
    BY <2>2 DEF TxInv
<1>2. CASE UNCHANGED transmitter
  BY <1>2 DEF transmitter, TxInv, Tx!TypeOK, TxPhase, AtRest, Loading, Starting,
              OnAir, Tx!shift_done
<1>3. QED
  BY <1>1, <1>2 DEF Next, Receive, vars

LEMMA TxInitInv == Init => TxInv
<1> SUFFICES ASSUME Init PROVE TxInv
  OBVIOUS
<1>1. Tx!TypeOK
  BY TxSizes, SizesAssumption
  DEF Init, Tx!Init, Tx!TypeOK, Tx!Bit, Tx!Char, Tx!NoChar, S, FT
<1>2. AtRest
  BY TxSizes DEF Init, Tx!Init, AtRest, Tx!shift_done, Tx!NoChar, FT
<1>3. QED
  BY <1>1, <1>2 DEF TxInv, TxPhase

-----------------------------------------------------------------------------
(* The stop bit is whole: a frame begins when the last one is over.  The   *)
(* load waits for the shift register to be empty, and it is emptied with   *)
(* the last clock of the stop bit (system_0_uart_0.v:107-180).             *)
THEOREM FramesSpacedCorrect == Spec => FramesSpaced
<1>1. TxInv /\ [Next]_vars => [Tx!StartEdge => ear = FT]_(Tx!vars)
  <2> SUFFICES ASSUME TxInv, [Next]_vars, Tx!StartEdge PROVE
                 ear = FT \/ UNCHANGED Tx!vars
    OBVIOUS
  <2>1. CASE Transmit
    <3>1. PICK w \in Tx!Char \cup {Tx!NoChar} : Tx!Tick(w)
      BY <2>1 DEF Transmit, Tx!Next, Tx!Quiet, Tx!WriteTxData
    <3>2. QED
      BY <3>1, PhaseStep
  <2>2. CASE UNCHANGED transmitter
    BY <2>2 DEF transmitter, Tx!vars, Tx!regs
  <2>3. QED
    BY <2>1, <2>2 DEF Next, Receive, vars
<1>2. QED
  BY <1>1, TxInitInv, TxNextInv, PTL DEF Spec, FramesSpaced, Tx!FramesSpaced, FT

-----------------------------------------------------------------------------
(* The transmitter implements the port with one waiting character.         *)
LEMMA PhaseFacts ==
  ASSUME TxInv
  PROVE  /\ Tx!shift_done =>
              /\ sending = Tx!NoChar
              /\ do_load_shifter = 1 => tx_ready = 0
         /\ do_load_shifter = 1 /\ ~Tx!shift_done /\ tx_ready = 1
              => sending = tx_data
<1>1. CASE AtRest
  BY <1>1 DEF AtRest
<1>2. ASSUME NEW c \in Tx!Char, Loading(c) \/ Starting(c)
      PROVE  ~Tx!shift_done
  <2>1. S \in 1 .. S /\ tx_shift[S] = 1
    BY <1>2, TxFrame, TxSizes DEF Loading, Starting
  <2>2. QED
    BY <2>1, NotDone
<1>3. ASSUME NEW c \in Tx!Char, NEW k \in 0 .. S - 1, NEW j \in 0 .. TxDivisor,
             OnAir(c, k, j)
      PROVE  ~Tx!shift_done /\ do_load_shifter = 0
  <2>1. S - k \in 1 .. S /\ (S - k) + k <= S /\ (S - k) + k = S
    BY TxSizes
  <2>2. tx_shift[S - k] = Framed(c)[S]
    BY <1>3, <2>1 DEF OnAir
  <2>3. do_load_shifter = 0
    BY <1>3 DEF OnAir
  <2>4. QED
    BY <2>1, <2>2, <2>3, TxFrame, NotDone
<1>4. QED
  BY <1>1, <1>2, <1>3 DEF TxInv, TxPhase, Loading, Starting

LEMMA TxPortStep ==
  ASSUME TxInv, NEW w \in Tx!Char \cup {Tx!NoChar}, Tx!Tick(w)
  PROVE  [Tx!Port!Next]_(Tx!Port!vars)
<1> USE DEF Tx!Waiting, Tx!OnTheLine
<1>1. /\ do_load_shifter' = IF tx_ready = 0 /\ Tx!shift_done THEN 1 ELSE 0
      /\ tx_ready' = IF w # Tx!NoChar THEN 0
                     ELSE IF do_load_shifter = 1 THEN 1 ELSE tx_ready
      /\ tx_data' = IF w # Tx!NoChar THEN w ELSE tx_data
  BY TxClockFacts DEF TxInv, TxClock
<1>2. sending' = IF do_load_shifter = 1 THEN tx_data
                 ELSE IF Tx!Complete THEN Tx!NoChar ELSE sending
  BY DEF Tx!Tick, Tx!Listen
<1>3. /\ tx_data \in Tx!Char /\ tx_data # Tx!NoChar
      /\ tx_ready \in {0, 1} /\ do_load_shifter \in {0, 1}
  BY TxSizes DEF TxInv, Tx!TypeOK, Tx!Bit
<1>4. IF Tx!Complete
        THEN /\ sending \in Tx!Char /\ do_load_shifter = 0
             /\ heard' = Append(heard, sending)
        ELSE heard' = heard
  BY PhaseStep
<1>5. CASE Tx!Complete
  <2>1. /\ Tx!OnTheLine = sending /\ sending # Tx!NoChar
        /\ Tx!OnTheLine' = Tx!NoChar
        /\ heard' = Append(heard, sending)
    BY <1>2, <1>4, <1>5, TxSizes
  <2>2. Tx!Waiting' = IF w # Tx!NoChar THEN w ELSE Tx!Waiting
    BY <1>1, <1>4, <1>5
  <2>3. Tx!Port!Deliver(w)
    BY <2>1, <2>2 DEF Tx!Port!Deliver, Tx!Port!Or
  <2>4. QED
    BY <2>3 DEF Tx!Port!Next
<1>6. CASE ~Tx!Complete /\ do_load_shifter = 0
  <2>1. /\ heard' = heard /\ Tx!OnTheLine = sending
        /\ Tx!OnTheLine' = sending
    BY <1>1, <1>2, <1>4, <1>6, PhaseFacts
  <2>2. Tx!Waiting' = IF w # Tx!NoChar THEN w ELSE Tx!Waiting
    BY <1>1, <1>6
  <2>3. w # Tx!NoChar => Tx!Port!Write(w)
    BY <2>1, <2>2 DEF Tx!Port!Write
  <2>4. w = Tx!NoChar => UNCHANGED Tx!Port!vars
    BY <2>1, <2>2 DEF Tx!Port!vars
  <2>5. QED
    BY <2>3, <2>4 DEF Tx!Port!Next
<1>7. CASE do_load_shifter = 1 /\ tx_ready = 1
  <2>1. ~Tx!shift_done /\ sending = tx_data
    BY <1>7, PhaseFacts
  <2>2. /\ heard' = heard /\ Tx!OnTheLine = tx_data
        /\ Tx!OnTheLine' = tx_data /\ Tx!Waiting = Tx!NoChar
        /\ Tx!Waiting' = w
    BY <1>1, <1>2, <1>4, <1>7, <2>1
  <2>3. w # Tx!NoChar => Tx!Port!Write(w)
    BY <2>2 DEF Tx!Port!Write
  <2>4. w = Tx!NoChar => UNCHANGED Tx!Port!vars
    BY <2>2 DEF Tx!Port!vars
  <2>5. QED
    BY <2>3, <2>4 DEF Tx!Port!Next
<1>8. CASE do_load_shifter = 1 /\ tx_ready = 0
  <2>1. /\ heard' = heard /\ sending' = tx_data
        /\ Tx!OnTheLine = Tx!NoChar /\ Tx!Waiting = tx_data
        /\ Tx!Waiting' = w
    BY <1>1, <1>2, <1>4, <1>8
  <2>2. CASE w # Tx!NoChar /\ Tx!shift_done
    <3>1. Tx!OnTheLine' = Tx!NoChar
      BY <1>1, <1>8, <2>2
    <3>2. Tx!Port!Write(w)
      BY <2>1, <2>2, <3>1 DEF Tx!Port!Write
    <3>3. QED
      BY <3>2 DEF Tx!Port!Next
  <2>3. CASE w = Tx!NoChar \/ ~Tx!shift_done
    <3>1. Tx!OnTheLine' = tx_data
      BY <1>1, <1>8, <2>1, <2>3
    <3>2. Tx!Port!Load(w)
      BY <1>3, <2>1, <3>1 DEF Tx!Port!Load
    <3>3. QED
      BY <3>2 DEF Tx!Port!Next
  <2>4. QED
    BY <2>2, <2>3
<1>9. QED
  BY <1>3, <1>5, <1>6, <1>7, <1>8

(* The steps that ImplementsTxPort allows are the only ones: a write at    *)
(* any clock, those of the load included, replaces the waiting character   *)
(* or waits behind the one that is sent, and that one is heard as it was   *)
(* loaded, once, and in order (system_0_uart_0.v:72-180).                  *)
THEOREM TxPortSafe == Spec => Tx!Port!Init /\ [][Tx!Port!Next]_(Tx!Port!vars)
<1>1. Init => Tx!Port!Init
  BY DEF Init, Tx!Init, Tx!Port!Init, Tx!Waiting, Tx!OnTheLine, Tx!NoChar
<1>2. TxInv /\ [Next]_vars => [Tx!Port!Next]_(Tx!Port!vars)
  <2> SUFFICES ASSUME TxInv, [Next]_vars
               PROVE  [Tx!Port!Next]_(Tx!Port!vars)
    OBVIOUS
  <2>1. CASE Transmit
    <3>1. PICK w \in Tx!Char \cup {Tx!NoChar} : Tx!Tick(w)
      BY <2>1 DEF Transmit, Tx!Next, Tx!Quiet, Tx!WriteTxData
    <3>2. QED
      BY <3>1, TxPortStep
  <2>2. CASE UNCHANGED transmitter
    BY <2>2 DEF transmitter, Tx!Port!vars, Tx!Waiting, Tx!OnTheLine
  <2>3. QED
    BY <2>1, <2>2 DEF Next, Receive, vars
<1>3. QED
  BY <1>1, <1>2, TxInitInv, TxNextInv, PTL DEF Spec

-----------------------------------------------------------------------------
(***************************************************************************)
(* The receiver.  Its registers follow from where the sender is: the line  *)
(* is idle, a start bit is on its way through the synchroniser, it is      *)
(* seen, or bit slot of c is a clocks old.  The next sample of the n + 1st *)
(* bit is due ToGo clocks from now, and that is in the middle of the bit   *)
(* up to Drift clocks.                                                     *)
(***************************************************************************)
RS == Rx!Slots
RT == Rx!BitTime
Mid == RxDivisor \div 2

ToGo == IF rx_baud_clk_en = 1 THEN 0 ELSE rx_baud_rate_counter + 1

(* The characters of l, one at most, are not announced yet: the last will  *)
(* be within t clocks.                                                     *)
Owed(l, t) ==
  \/ l = <<>> /\ rx_shift[1] = 0 /\ was_in_process = 0
  \/ /\ last_rxd = 1
     /\ \E p \in Rx!Char :
          /\ l = <<p>>
          /\ \/ rx_shift = Framed(p) /\ was_in_process = 1 /\ 0 <= t
             \/ /\ rx_shift[1] = 1 /\ ToGo + 1 <= t
                /\ \A i \in 1 .. RS - 1 : rx_shift[i + 1] = Framed(p)[i]

LineIdle ==
  /\ frame = <<>> /\ slot = 0 /\ clocks = 0
  /\ rxd = 1 /\ last_rxd <= sync_rxd /\ sync_rxd <= sync1
  /\ do_start_rx = 0 /\ Owed(line, 2)

StartSent(c, l) ==
  /\ frame = Framed(c) /\ slot = 1 /\ line = Append(l, c)
  /\ rxd = 0 /\ do_start_rx = 0 /\ Owed(l, 2 - clocks)
  /\ \/ clocks = 1 /\ sync1 = 1 /\ last_rxd <= sync_rxd
     \/ clocks = 2 /\ sync1 = 0 /\ sync_rxd = 1
     \/ clocks = 3 /\ sync1 = 0 /\ sync_rxd = 0 /\ last_rxd = 1

StartSeen(c) ==
  /\ frame = Framed(c) /\ slot = 1 /\ line = <<c>> /\ clocks = 4
  /\ rxd = 0 /\ sync1 = 0 /\ sync_rxd = 0 /\ last_rxd = 0
  /\ rx_shift[1] = 0 /\ was_in_process = 0
  /\ do_start_rx = 1 /\ ToGo = Mid + 1

(* The bit that is in sync_rxd. *)
Seen(a) == IF a >= 2 THEN slot ELSE slot - 1

Sending(c, a) ==
  /\ frame = Framed(c) /\ slot \in 1 .. RS
  /\ (slot - 1) * RT + 1 - Drift <= clocks - a
  /\ clocks - a <= (slot - 1) * RT + 1 + Drift
  /\ clocks <= slot * RT + Drift
  /\ slot = 1 => a >= 4
  /\ rxd = Framed(c)[slot]
  /\ sync1 = Framed(c)[IF a >= 1 THEN slot ELSE slot - 1]
  /\ sync_rxd = Framed(c)[Seen(a)]
  /\ last_rxd = Framed(c)[IF a >= 3 THEN slot ELSE slot - 1]
  /\ do_start_rx = 0

Receiving(c, a, n) ==
  /\ line = <<c>>
  /\ n = Seen(a) \/ n + 1 = Seen(a)
  /\ \A i \in 1 .. RS :
       rx_shift[i] = IF i + n <= RS THEN 1 ELSE Framed(c)[(i + n) - RS]
  /\ n * RT + Mid + 5 - Drift <= clocks + ToGo
  /\ clocks + ToGo <= n * RT + Mid + 5 + Drift

Received(a) == slot = RS /\ a >= 3 /\ Owed(line, 0)

RxPhase ==
  \/ LineIdle
  \/ \E c \in Rx!Char :
       \/ \E l \in Seq(Rx!Char) : StartSent(c, l)
       \/ StartSeen(c)
       \/ \E a \in Nat :
            /\ Sending(c, a)
            /\ Received(a) \/ \E n \in 0 .. RS - 1 : Receiving(c, a, n)

(* The baud counter is at the top when the clock enable is given. *)
Counting ==
  /\ Rx!TypeOK
  /\ rx_baud_clk_en = 1 => rx_baud_rate_counter = RxDivisor

RxInv == Counting /\ RxPhase

-----------------------------------------------------------------------------
LEMMA RxSizes ==
  /\ RxBits \in Nat \ {0} /\ RxDivisor \in Nat /\ Drift \in Nat
  /\ Mid \in Nat /\ 2 * Drift + 2 <= RxDivisor - Mid /\ 2 * Drift + 1 <= Mid
  /\ RS \in Nat /\ RS = RxBits + 2
  /\ RT \in Nat /\ RT = RxDivisor + 1
<1>1. /\ RxBits \in Nat \ {0} /\ RxDivisor \in Nat \ {0} /\ Drift \in Nat
      /\ 2 * Drift + 2 <= RxDivisor - RxDivisor \div 2
  BY SizesAssumption
<1>2. Mid \in Nat /\ RxDivisor - Mid <= Mid + 1
  BY <1>1 DEF Mid
<1>3. RS \in Nat /\ RS = RxBits + 2 /\ RT \in Nat /\ RT = RxDivisor + 1
  BY <1>1 DEF RS, RT, Rx!Slots, Rx!BitTime
<1>4. QED
  BY <1>1, <1>2, <1>3 DEF Mid

LEMMA RxFrame ==
  ASSUME NEW c \in Rx!Char
  PROVE  /\ Framed(c) \in Seq({0, 1}) /\ Len(Framed(c)) = RS
         /\ Framed(c) \in [1 .. RS -> {0, 1}]
         /\ Framed(c)[1] = 0 /\ Framed(c)[RS] = 1
         /\ Framed(c) # <<>> /\ SubSeq(Framed(c), 2, RS - 1) = c
<1>1. c \in [1 .. RxBits -> {0, 1}] /\ RS - 1 = RxBits + 1
  BY RxSizes DEF Rx!Char, Rx!Bit
<1>2. /\ Framed(c) \in Seq({0, 1}) /\ Len(Framed(c)) = RS
      /\ Framed(c) \in [1 .. RS -> {0, 1}]
      /\ Framed(c)[1] = 0 /\ Framed(c)[RS] = 1
  BY <1>1, FramedFacts, RxSizes
<1>3. SubSeq(Framed(c), 2, RxBits + 1) = c
  BY <1>1, <1>2, CharOfFrame, RxSizes
<1>4. Framed(c) # <<>>
  BY <1>2, RxSizes
<1>5. QED
  BY <1>1, <1>2, <1>3, <1>4

(* One clock of the receiver, register by register. *)
RxClock ==
  /\ sync1' = rxd /\ sync_rxd' = sync1 /\ last_rxd' = sync_rxd
  /\ do_start_rx' = IF rx_shift[1] = 0 /\ sync_rxd = 0 /\ last_rxd = 1
                     THEN 1 ELSE 0
  /\ was_in_process' = rx_shift[1]
  /\ rx_shift' = IF do_start_rx = 1 THEN Rx!Ones
                 ELSE IF ToGo = 0 /\ rx_shift[1] = 1
                        THEN Append(Tail(rx_shift), sync_rxd)
                 ELSE rx_shift
  /\ ToGo' = IF sync_rxd # last_rxd THEN Mid + 1
             ELSE IF ToGo = 0 THEN RxDivisor ELSE ToGo - 1
  /\ rx_baud_rate_counter' \in 0 .. RxDivisor
  /\ rx_baud_clk_en' = 1 => rx_baud_rate_counter' = RxDivisor

LEMMA RxTyped ==
  ASSUME Counting
  PROVE  /\ {rxd, sync1, sync_rxd, last_rxd, rx_baud_clk_en, do_start_rx,
             was_in_process, rx_shift[1]} \subseteq {0, 1}
         /\ rx_shift \in [1 .. RS -> {0, 1}]
         /\ ToGo \in 0 .. RT
<1>1. rx_shift \in [1 .. RS -> {0, 1}] /\ 1 \in 1 .. RS
  BY RxSizes DEF Counting, Rx!TypeOK, Rx!Bit, RS
<1>2. ToGo \in 0 .. RT
  BY RxSizes DEF Counting, Rx!TypeOK, ToGo
<1>3. QED
  BY <1>1, <1>2 DEF Counting, Rx!TypeOK, Rx!Bit

LEMMA RxClockFacts ==
  ASSUME Counting, NEW op, Rx!Receiver(op)
  PROVE  RxClock
<1>1. ToGo = 0 <=> rx_baud_clk_en = 1
  BY RxSizes DEF Counting, Rx!TypeOK, ToGo
<1>2. /\ rx_baud_rate_counter' =
           IF sync_rxd # last_rxd THEN Mid
           ELSE IF rx_baud_rate_counter = 0 THEN RxDivisor
           ELSE rx_baud_rate_counter - 1
      /\ rx_baud_clk_en' =
           IF ~(sync_rxd # last_rxd) /\ rx_baud_rate_counter = 0 THEN 1 ELSE 0
  BY DEF Rx!Receiver, Rx!Baud, Rx!rxd_edge, Mid
<1>3. /\ rx_baud_rate_counter \in 0 .. RxDivisor
      /\ rx_baud_clk_en = 1 => rx_baud_rate_counter = RxDivisor
      /\ Mid \in 0 .. RxDivisor /\ RxDivisor \in Nat \ {0}
  BY RxSizes DEF Counting, Rx!TypeOK
<1>4. ToGo' = IF rx_baud_clk_en' = 1 THEN 0 ELSE rx_baud_rate_counter' + 1
  BY DEF ToGo
<1>5. /\ ToGo' = IF sync_rxd # last_rxd THEN Mid + 1
                 ELSE IF ToGo = 0 THEN RxDivisor ELSE ToGo - 1
      /\ rx_baud_rate_counter' \in 0 .. RxDivisor
      /\ rx_baud_clk_en' = 1 => rx_baud_rate_counter' = RxDivisor
  <2>1. CASE sync_rxd # last_rxd
    BY <1>2, <1>3, <1>4, <2>1
  <2>2. CASE sync_rxd = last_rxd /\ rx_baud_clk_en = 1
    BY <1>1, <1>2, <1>3, <1>4, <2>2
  <2>3. CASE sync_rxd = last_rxd /\ rx_baud_clk_en # 1
    <3>1. ToGo = rx_baud_rate_counter + 1
      BY <2>3 DEF ToGo
    <3>2. QED
      BY <1>1, <1>2, <1>3, <1>4, <2>3, <3>1
  <2>4. QED
    BY <2>1, <2>2, <2>3
<1>6. /\ sync1' = rxd /\ sync_rxd' = sync1 /\ last_rxd' = sync_rxd
      /\ do_start_rx' = IF rx_shift[1] = 0 /\ sync_rxd = 0 /\ last_rxd = 1
                         THEN 1 ELSE 0
      /\ was_in_process' = rx_shift[1]
  BY DEF Rx!Receiver, Rx!Synchronise, Rx!StartRx, Rx!Shifter,
         Rx!rx_in_process, Rx!rxd_falling
<1>7. rx_shift' = IF do_start_rx = 1 THEN Rx!Ones
                  ELSE IF ToGo = 0 /\ rx_shift[1] = 1
                         THEN Append(Tail(rx_shift), sync_rxd)
                  ELSE rx_shift
  BY <1>1 DEF Rx!Receiver, Rx!Shifter, Rx!sample_enable, Rx!rx_in_process
<1>8. QED
  BY <1>5, <1>6, <1>7 DEF RxClock

-----------------------------------------------------------------------------
(* What is owed comes one clock nearer. *)
LEMMA OwedStep ==
  ASSUME Counting, do_start_rx = 0, last_rxd <= sync_rxd,
         NEW l, NEW t \in Int, Owed(l, t),
         NEW op, Rx!Receiver(op),
         NEW m, m = IF Rx!got_new_char THEN <<>> ELSE l,
         NEW u \in Int, t - 1 <= u
  PROVE  /\ Owed(m, u)'
         /\ do_start_rx' = IF rx_shift[1] = 0 /\ sync_rxd = 0 /\ last_rxd = 1
                            THEN 1 ELSE 0
<1>1. RxClock
  BY RxClockFacts
<1>2. /\ {rxd, sync1, sync_rxd, last_rxd, do_start_rx,
          was_in_process, rx_shift[1]} \subseteq {0, 1}
      /\ rx_shift \in [1 .. RS -> {0, 1}] /\ ToGo \in Nat
  BY RxTyped
<1>3. Rx!got_new_char <=> rx_shift[1] = 0 /\ was_in_process = 1
  BY DEF Rx!got_new_char, Rx!rx_in_process
<1>4. CASE l = <<>> /\ rx_shift[1] = 0 /\ was_in_process = 0
  <2>1. m = <<>> /\ rx_shift' = rx_shift /\ was_in_process' = 0
    BY <1>1, <1>3, <1>4 DEF RxClock
  <2>2. QED
    BY <1>1, <1>4, <2>1 DEF Owed, RxClock
<1>5. ASSUME NEW p \in Rx!Char, l = <<p>>, last_rxd = 1,
             rx_shift = Framed(p), was_in_process = 1, 0 <= t
      PROVE  Owed(m, u)'
  <2>1. rx_shift[1] = 0
    BY <1>5, RxFrame
  <2>2. m = <<>> /\ rx_shift' = rx_shift /\ was_in_process' = 0
    BY <1>1, <1>3, <1>5, <2>1 DEF RxClock
  <2>3. QED
    BY <1>5, <2>1, <2>2 DEF Owed
<1>6. ASSUME NEW p \in Rx!Char, l = <<p>>, last_rxd = 1,
             rx_shift[1] = 1, ToGo + 1 <= t,
             \A i \in 1 .. RS - 1 : rx_shift[i + 1] = Framed(p)[i]
      PROVE  Owed(m, u)'
  <2>1. sync_rxd = 1 /\ last_rxd' = 1
    BY <1>1, <1>2, <1>6 DEF RxClock
  <2>2. m = <<p>>
    BY <1>3, <1>6
  <2>3. CASE ToGo = 0
    <3>1. rx_shift' = Append(Tail(rx_shift), 1)
      BY <1>1, <1>6, <2>1, <2>3 DEF RxClock
    <3>2. /\ rx_shift' \in [1 .. RS -> {0, 1}]
          /\ \A i \in 1 .. RS - 1 : rx_shift'[i] = rx_shift[i + 1]
          /\ rx_shift'[RS] = 1
      BY <1>2, <3>1, ShiftIn, RxSizes
    <3>3. \A i \in 1 .. RS : rx_shift'[i] = Framed(p)[i]
      <4>1. \A i \in 1 .. RS : i \in 1 .. RS - 1 \/ i = RS
        BY RxSizes
      <4>2. QED
        BY <1>6, <3>2, <4>1, RxFrame
    <3>4. rx_shift' = Framed(p)
      BY <3>2, <3>3, RxFrame
    <3>5. was_in_process' = 1 /\ 0 <= u
      BY <1>1, <1>6, <2>3 DEF RxClock
    <3>6. QED
      BY <2>1, <2>2, <3>4, <3>5 DEF Owed
  <2>4. CASE ToGo # 0
    <3>1. rx_shift' = rx_shift /\ ToGo' = ToGo - 1
      BY <1>1, <1>6, <2>1, <2>4 DEF RxClock
    <3>2. ToGo' + 1 <= u
      <4>1. (ToGo - 1) + 1 <= u
        BY <1>2, <1>6
      <4>2. QED
        BY <3>1, <4>1
    <3>3. QED
      BY <1>6, <2>1, <2>2, <3>1, <3>2 DEF Owed
  <2>5. QED
    BY <2>3, <2>4
<1>7. do_start_rx' = IF rx_shift[1] = 0 /\ sync_rxd = 0 /\ last_rxd = 1
                     THEN 1 ELSE 0
  BY <1>1 DEF RxClock
<1>8. QED
  BY <1>4, <1>5, <1>6, <1>7 DEF Owed

LEMMA OneOf ==
  ASSUME NEW T, NEW p \in T, NEW q \in T
  PROVE  /\ <<p>> \in Seq(T) /\ <<p>> # <<>>
         /\ Head(<<p>>) = p /\ Tail(<<p>>) = <<>>
         /\ Append(<<>>, q) = <<q>> /\ Append(<<p>>, q) # <<>>
         /\ Head(Append(<<p>>, q)) = p /\ Tail(Append(<<p>>, q)) = <<q>>
<1>1. /\ <<p>> \in Seq(T) /\ <<p>> # <<>>
      /\ Head(<<p>>) = p /\ Tail(<<p>>) = <<>>
      /\ Append(<<>>, q) = <<q>>
  OBVIOUS
<1> DEFINE s == <<p>>
<1> HIDE DEF s
<1>2. s \in Seq(T) /\ s # <<>> /\ Head(s) = p /\ Tail(s) = <<>>
  BY <1>1 DEF s
<1>3. /\ Head(Append(s, q)) = Head(s) /\ Append(s, q) # <<>>
      /\ Tail(Append(s, q)) = Append(Tail(s), q)
  BY <1>2, HeadTailAppend, AppendProperties
<1>4. QED
  BY <1>1, <1>2, <1>3 DEF s

(* What is owed at most once is on the line, and the announcement takes it. *)
LEMMA OwedLine ==
  ASSUME NEW l, NEW t, Owed(l, t)
  PROVE  /\ l \in Seq(Rx!Char)
         /\ l # <<>> => Tail(l) = <<>>
         /\ Rx!got_new_char => \E p \in Rx!Char : l = <<p>> /\ rx_shift = Framed(p)
<1>1. l = <<>> \/ \E p \in Rx!Char : l = <<p>>
  BY DEF Owed
<1>2. l \in Seq(Rx!Char) /\ (l # <<>> => Tail(l) = <<>>)
  <2>1. ASSUME NEW p \in Rx!Char, l = <<p>>
        PROVE  l \in Seq(Rx!Char) /\ Tail(l) = <<>>
    BY <2>1, OneOf
  <2>2. <<>> \in Seq(Rx!Char)
    OBVIOUS
  <2>3. QED
    BY <1>1, <2>1, <2>2
<1>3. Rx!got_new_char => \E p \in Rx!Char : l = <<p>> /\ rx_shift = Framed(p)
  BY DEF Owed, Rx!got_new_char, Rx!rx_in_process
<1>4. QED
  BY <1>2, <1>3

(* The line stays idle. *)
LEMMA IdleStep ==
  ASSUME Counting, LineIdle, NEW op, Rx!Receiver(op), Rx!SendIdle,
         line' = Rx!OnTheLine
  PROVE  LineIdle'
<1>1. RxClock
  BY RxClockFacts
<1>2. {rxd, sync1, sync_rxd, last_rxd} \subseteq {0, 1}
  BY RxTyped
<1>3. Owed(line, 2) /\ 2 - 1 <= 2 /\ do_start_rx = 0 /\ last_rxd <= sync_rxd
  BY DEF LineIdle
<1>4. PICK m : m = line'
  OBVIOUS
<1>5. m = IF Rx!got_new_char THEN <<>> ELSE line
  BY <1>3, <1>4, OwedLine, OneOf DEF Rx!OnTheLine
<1>6. /\ Owed(m, 2)'
      /\ do_start_rx' = IF rx_shift[1] = 0 /\ sync_rxd = 0 /\ last_rxd = 1
                         THEN 1 ELSE 0
  BY <1>3, <1>5, OwedStep
<1>7. Owed(line, 2)'
  BY <1>4, <1>6 DEF Owed
<1>8. do_start_rx' = 0
  BY <1>2, <1>3, <1>6
<1>9. last_rxd' <= sync_rxd' /\ sync_rxd' <= sync1'
  BY <1>1, <1>2 DEF LineIdle, RxClock
<1>10. QED
  BY <1>7, <1>8, <1>9 DEF LineIdle, Rx!SendIdle

(* A character begins. *)
LEMMA IdleStart ==
  ASSUME Counting, LineIdle, NEW op, Rx!Receiver(op), NEW c \in Rx!Char,
         Rx!SendStart(c), line' = Append(Rx!OnTheLine, c)
  PROVE  \E l \in Seq(Rx!Char) : StartSent(c, l)'
<1>1. RxClock
  BY RxClockFacts
<1>2. {rxd, sync1, sync_rxd, last_rxd} \subseteq {0, 1}
  BY RxTyped
<1>3. Owed(line, 2) /\ 2 - 1 <= 1 /\ do_start_rx = 0 /\ last_rxd <= sync_rxd
  BY DEF LineIdle
<1>4. PICK m : m = Rx!OnTheLine
  OBVIOUS
<1>5. m = IF Rx!got_new_char THEN <<>> ELSE line
  BY <1>3, <1>4, OwedLine, OneOf DEF Rx!OnTheLine
<1>6. m \in Seq(Rx!Char)
  BY <1>3, <1>5, OwedLine
<1>7. /\ Owed(m, 1)'
      /\ do_start_rx' = IF rx_shift[1] = 0 /\ sync_rxd = 0 /\ last_rxd = 1
                         THEN 1 ELSE 0
  BY <1>3, <1>5, OwedStep
<1>8. do_start_rx' = 0
  BY <1>2, <1>3, <1>7
<1>9. line' = Append(m, c)
  BY <1>4
<1>10. /\ clocks' = 1 /\ sync1' = 1 /\ last_rxd' <= sync_rxd'
       /\ frame' = Framed(c) /\ slot' = 1 /\ rxd' = 0
  BY <1>1, <1>2 DEF LineIdle, RxClock, Rx!SendStart, Framed
<1>11. Owed(m, 2 - clocks)'
  BY <1>7, <1>10 DEF Owed
<1>12. StartSent(c, m)'
  BY <1>8, <1>9, <1>10, <1>11 DEF StartSent
<1>13. QED
  BY <1>6, <1>12

(* The start bit passes the synchroniser. *)
LEMMA StartSentStep ==
  ASSUME Counting, NEW c \in Rx!Char, NEW l \in Seq(Rx!Char), StartSent(c, l),
         NEW op, Rx!Receiver(op), Rx!SendHold, line' = Rx!OnTheLine
  PROVE  StartSeen(c)' \/ \E m \in Seq(Rx!Char) : StartSent(c, m)'
<1>1. RxClock
  BY RxClockFacts
<1>2. /\ {rxd, sync1, sync_rxd, last_rxd, rx_shift[1]} \subseteq {0, 1}
      /\ RxBits \in Nat
  BY RxTyped, RxSizes
<1>3. /\ clocks \in {1, 2, 3} /\ do_start_rx = 0 /\ (last_rxd <= sync_rxd \/ clocks = 3)
      /\ line = Append(l, c)
  BY <1>2 DEF StartSent
<1>4. /\ frame' = Framed(c) /\ slot' = 1 /\ rxd' = 0 /\ clocks' = clocks + 1
  BY DEF StartSent, Rx!SendHold
<1>5. CASE clocks = 3
  <2>1. l = <<>> /\ rx_shift[1] = 0 /\ was_in_process = 0
    <3>1. Owed(l, -1)
      BY <1>5 DEF StartSent
    <3>2. ToGo \in Nat
      BY RxTyped
    <3>3. QED
      BY <3>1, <3>2 DEF Owed
  <2>2. ~Rx!got_new_char
    BY <2>1 DEF Rx!got_new_char
  <2>3. line' = <<c>>
    BY <1>3, <2>1, <2>2, OneOf DEF Rx!OnTheLine
  <2>4. /\ sync1' = 0 /\ sync_rxd' = 0 /\ last_rxd' = 0 /\ do_start_rx' = 1
        /\ rx_shift' = rx_shift /\ was_in_process' = 0 /\ ToGo' = Mid + 1
    BY <1>1, <1>5, <2>1 DEF StartSent, RxClock
  <2>5. QED
    BY <1>4, <1>5, <2>1, <2>3, <2>4 DEF StartSeen
<1>6. CASE clocks \in {1, 2}
  <2>1. PICK t \in {0, 1} : t = 2 - clocks
    BY <1>6
  <2>2. Owed(l, t) /\ last_rxd <= sync_rxd
    BY <1>2, <1>6, <2>1 DEF StartSent
  <2>3. PICK m : m = IF Rx!got_new_char THEN <<>> ELSE l
    OBVIOUS
  <2>4. PICK u \in {-1, 0} : u = t - 1
    BY <2>1
  <2>5. /\ Owed(m, u)'
        /\ do_start_rx' = IF rx_shift[1] = 0 /\ sync_rxd = 0 /\ last_rxd = 1
                           THEN 1 ELSE 0
    BY <1>3, <1>6, <2>1, <2>2, <2>3, <2>4, OwedStep
  <2>6. do_start_rx' = 0
    BY <1>2, <2>2, <2>5
  <2>7. m \in Seq(Rx!Char) /\ line' = Append(m, c)
    <3>1. CASE Rx!got_new_char
      <4>1. PICK p \in Rx!Char : l = <<p>>
        BY <2>2, <3>1, OwedLine
      <4>2. Tail(line) = <<c>> /\ line # <<>> /\ m = <<>>
        BY <1>3, <2>3, <3>1, <4>1, OneOf
      <4>3. line' = <<c>> /\ Append(<<>>, c) = <<c>> /\ <<>> \in Seq(Rx!Char)
        BY <3>1, <4>2, OneOf DEF Rx!OnTheLine
      <4>4. QED
        BY <4>2, <4>3
    <3>2. CASE ~Rx!got_new_char
      BY <1>3, <2>3, <3>2 DEF Rx!OnTheLine
    <3>3. QED
      BY <3>1, <3>2
  <2>8. Owed(m, 2 - clocks)'
    BY <1>4, <1>6, <2>1, <2>4, <2>5 DEF Owed
  <2>9. /\ clocks' \in {2, 3} /\ sync1' = 0
        /\ clocks' = 2 => sync_rxd' = 1
        /\ clocks' = 3 => sync_rxd' = 0 /\ last_rxd' = 1
    BY <1>1, <1>4, <1>6 DEF StartSent, RxClock
  <2>10. StartSent(c, m)'
    BY <1>4, <2>6, <2>7, <2>8, <2>9 DEF StartSent
  <2>11. QED
    BY <2>7, <2>10
<1>7. QED
  BY <1>3, <1>5, <1>6

-----------------------------------------------------------------------------
(* The sender's side of a bit. *)
LEMMA SlotTimes ==
  ASSUME NEW s \in 1 .. RS
  PROVE  /\ (s - 1) * RT \in Nat /\ s * RT = (s - 1) * RT + RT
         /\ (s + 1) * RT = (s - 1) * RT + RT + RT
         /\ s * RT <= RS * RT
<1> DEFINE k == s - 1
<1>1. k \in 0 .. RS - 1 /\ k + 1 = s /\ k \in Nat
  BY RxSizes
<1> HIDE DEF k
<1>2. k * RT \in Nat /\ (k + 1) * RT = k * RT + RT /\ k * RT + RT <= RS * RT
  BY <1>1, Products, RxSizes
<1>3. (s + 1) * RT = s * RT + RT
  BY RxSizes
<1>4. QED
  BY <1>1, <1>2, <1>3 DEF k

LEMMA HoldStep ==
  ASSUME Counting, NEW c \in Rx!Char, NEW a \in Nat, Sending(c, a),
         RxClock, do_start_rx' = 0, Rx!SendHold
  PROVE  Sending(c, a + 1)' /\ slot' = slot
<1>1. /\ frame' = frame /\ slot' = slot /\ rxd' = rxd /\ clocks' = clocks + 1
      /\ clocks < slot * RT + Drift
  BY DEF Rx!SendHold, RT
<1>2. clocks \in Nat /\ slot \in 1 .. RS
  BY RxSizes DEF Counting, Rx!TypeOK, Sending
<1>3. (slot - 1) * RT \in Nat /\ slot * RT = (slot - 1) * RT + RT
  BY <1>2, SlotTimes
<1>4. /\ (clocks + 1) - (a + 1) = clocks - a
      /\ clocks + 1 <= slot * RT + Drift
  BY <1>1, <1>2, <1>3, RxSizes
<1> DEFINE b == a + 1
<1>5. /\ b \in Nat /\ (a >= 4 => b >= 4) /\ b >= 1
      /\ (b >= 2 <=> a >= 1) /\ (b >= 3 <=> a >= 2)
      /\ clocks' - b = clocks - a /\ clocks' <= slot * RT + Drift
  BY <1>1, <1>4
<1>6. /\ sync1' = Framed(c)[slot]
      /\ sync_rxd' = Framed(c)[IF a >= 1 THEN slot ELSE slot - 1]
      /\ last_rxd' = Framed(c)[IF a >= 2 THEN slot ELSE slot - 1]
  BY DEF Sending, Seen, RxClock
<1> HIDE DEF b
<1>7. Sending(c, b)'
  BY <1>1, <1>5, <1>6 DEF Sending, Seen
<1>8. QED
  BY <1>1, <1>7 DEF b

(* No bit ends before it is seen. *)
LEMMA BitSeen ==
  ASSUME Counting, NEW c \in Rx!Char, NEW a \in Nat, Sending(c, a),
         clocks >= slot * RT - Drift
  PROVE  a >= 3
<1>1. clocks \in Nat /\ slot \in 1 .. RS
  BY RxSizes DEF Counting, Rx!TypeOK, Sending
<1>2. (slot - 1) * RT \in Nat /\ slot * RT = (slot - 1) * RT + RT
  BY <1>1, SlotTimes
<1>3. clocks - a <= (slot - 1) * RT + 1 + Drift
  BY DEF Sending
<1>4. QED
  BY <1>1, <1>2, <1>3, RxSizes

LEMMA NextStep ==
  ASSUME Counting, NEW c \in Rx!Char, NEW a \in Nat, Sending(c, a),
         RxClock, do_start_rx' = 0, Rx!SendNext
  PROVE  Sending(c, 0)' /\ slot' = slot + 1 /\ slot < RS
<1>1. /\ frame' = frame /\ slot' = slot + 1 /\ rxd' = frame[slot + 1]
      /\ clocks' = clocks + 1 /\ slot < RS /\ clocks >= slot * RT - Drift
  BY DEF Rx!SendNext, RT, RS
<1>2. clocks \in Nat /\ slot \in 1 .. RS
  BY RxSizes DEF Counting, Rx!TypeOK, Sending
<1>3. /\ (slot - 1) * RT \in Nat /\ slot * RT = (slot - 1) * RT + RT
      /\ (slot + 1) * RT = (slot - 1) * RT + RT + RT
  BY <1>2, SlotTimes
<1>4. clocks <= slot * RT + Drift
  BY DEF Sending
<1>5. a >= 3
  BY <1>1, BitSeen
<1>6. /\ sync1' = Framed(c)[slot] /\ sync_rxd' = Framed(c)[slot]
      /\ last_rxd' = Framed(c)[slot] /\ frame = Framed(c)
  BY <1>5 DEF Sending, Seen, RxClock
<1> DEFINE s == slot + 1
<1>7. /\ s \in 1 .. RS /\ s # 1 /\ s - 1 = slot
      /\ slot * RT + 1 - Drift <= clocks'
      /\ clocks' <= slot * RT + 1 + Drift /\ clocks' <= s * RT + Drift
      /\ clocks' - 0 = clocks'
  BY <1>1, <1>2, <1>3, <1>4, RxSizes
<1>8. slot' = s /\ rxd' = Framed(c)[s] /\ frame' = Framed(c)
  BY <1>1, <1>6
<1> HIDE DEF s
<1>9. Sending(c, 0)'
  BY <1>6, <1>7, <1>8 DEF Sending, Seen
<1>10. QED
  BY <1>1, <1>9

(* The receiver's: an edge comes when the bits before it are in, and a     *)
(* sample is taken of the bit that is due.                                 *)
LEMMA Due ==
  ASSUME Counting, NEW c \in Rx!Char, NEW a \in Nat, Sending(c, a),
         NEW n \in 0 .. RS - 1, Receiving(c, a, n)
  PROVE  /\ ToGo = 0 => n + 1 = Seen(a)
         /\ sync_rxd # last_rxd => a = 2 /\ n = slot - 1 /\ ToGo # 0
<1>1. clocks \in Nat /\ slot \in 1 .. RS /\ ToGo \in 0 .. RT
  BY RxTyped, RxSizes DEF Counting, Rx!TypeOK, Sending
<1> DEFINE p == (slot - 1) * RT
           w == n * RT
<1>2. /\ p \in Nat /\ slot * RT = p + RT
      /\ n = slot => w = p + RT
      /\ n = slot - 1 => w = p
      /\ n + 1 = slot - 1 => w = p - RT
  <2>1. p \in Nat /\ slot * RT = p + RT
    BY <1>1, SlotTimes
  <2>2. n + 1 = slot - 1 => w = p - RT
    <3>1. (n + 1) * RT = n * RT + RT /\ n * RT \in Nat
      BY RxSizes
    <3>2. QED
      BY <3>1, RxSizes
  <2>3. QED
    BY <2>1, <2>2
<1> HIDE DEF p, w
<1>3. /\ p + 1 - Drift <= clocks - a /\ clocks - a <= p + 1 + Drift
      /\ clocks <= p + RT + Drift /\ (slot = 1 => a >= 4)
      /\ w + Mid + 5 - Drift <= clocks + ToGo
      /\ clocks + ToGo <= w + Mid + 5 + Drift
      /\ n = Seen(a) \/ n + 1 = Seen(a)
  BY <1>2 DEF Sending, Receiving, p, w
<1>4. ToGo = 0 => n + 1 = Seen(a)
  <2>1. CASE a >= 2 /\ n = slot
    BY <1>1, <1>2, <1>3, <2>1, RxSizes
  <2>2. CASE a < 2 /\ n = slot - 1
    BY <1>1, <1>2, <1>3, <2>2, RxSizes
  <2>3. QED
    BY <1>1, <1>3, <2>1, <2>2 DEF Seen
<1>5. ASSUME sync_rxd # last_rxd PROVE a = 2 /\ n = slot - 1 /\ ToGo # 0
  <2>1. a = 2
    BY <1>5 DEF Sending, Seen
  <2>2. n = slot \/ n = slot - 1
    BY <1>1, <1>3, <2>1 DEF Seen
  <2>3. n # slot
    BY <1>1, <1>2, <1>3, <2>1, RxSizes
  <2>4. ToGo # 0
    BY <1>1, <1>2, <1>3, <2>1, <2>2, <2>3, RxSizes
  <2>5. QED
    BY <2>1, <2>2, <2>3, <2>4
<1>6. QED
  BY <1>4, <1>5

(* One clock of the receiver within a frame: m bits are in after it. *)
LEMMA ReceiveStep ==
  ASSUME Counting, NEW c \in Rx!Char, NEW a \in Nat, Sending(c, a),
         NEW n \in 0 .. RS - 1, Receiving(c, a, n), NEW op, Rx!Receiver(op),
         NEW m, m = IF ToGo = 0 THEN n + 1 ELSE n, NEW g, g = ToGo'
  PROVE  /\ ~Rx!got_new_char /\ do_start_rx' = 0 /\ was_in_process' = 1
         /\ rx_shift' \in [1 .. RS -> {0, 1}]
         /\ \A i \in 1 .. RS : rx_shift'[i] =
              IF i + m <= RS THEN 1 ELSE Framed(c)[(i + m) - RS]
         /\ m * RT + Mid + 5 - Drift <= clocks + 1 + g
         /\ clocks + 1 + g <= m * RT + Mid + 5 + Drift
         /\ ToGo # 0 /\ a # 2 => g = ToGo - 1
<1>1. RxClock
  BY RxClockFacts
<1>2. /\ clocks \in Nat /\ slot \in 1 .. RS /\ ToGo \in 0 .. RT
      /\ rx_shift \in [1 .. RS -> {0, 1}] /\ sync_rxd \in {0, 1}
  BY RxTyped, RxSizes DEF Counting, Rx!TypeOK, Sending
<1>3. do_start_rx = 0
  BY DEF Sending
<1>4. \A i \in 1 .. RS :
        rx_shift[i] = IF i + n <= RS THEN 1 ELSE Framed(c)[(i + n) - RS]
  BY DEF Receiving
<1>5. rx_shift[1] = 1
  <2>1. 1 \in 1 .. RS /\ 1 + n <= RS
    BY RxSizes
  <2>2. QED
    BY <1>4, <2>1
<1>6. ~Rx!got_new_char /\ do_start_rx' = 0 /\ was_in_process' = 1
  BY <1>1, <1>5 DEF Rx!got_new_char, Rx!rx_in_process, RxClock
<1>7. /\ ToGo = 0 => n + 1 = Seen(a)
      /\ sync_rxd # last_rxd => a = 2 /\ n = slot - 1 /\ ToGo # 0
  BY Due
<1>8. /\ rx_shift' \in [1 .. RS -> {0, 1}]
      /\ \A i \in 1 .. RS : rx_shift'[i] =
           IF i + m <= RS THEN 1 ELSE Framed(c)[(i + m) - RS]
  <2>1. CASE ToGo = 0
    <3>1. rx_shift' = Append(Tail(rx_shift), sync_rxd)
      BY <1>1, <1>3, <1>5, <2>1 DEF RxClock
    <3>2. /\ rx_shift' \in [1 .. RS -> {0, 1}]
          /\ \A i \in 1 .. RS - 1 : rx_shift'[i] = rx_shift[i + 1]
          /\ rx_shift'[RS] = sync_rxd
      <4>1. /\ Append(Tail(rx_shift), sync_rxd) \in [1 .. RS -> {0, 1}]
            /\ \A i \in 1 .. RS - 1 :
                 Append(Tail(rx_shift), sync_rxd)[i] = rx_shift[i + 1]
            /\ Append(Tail(rx_shift), sync_rxd)[RS] = sync_rxd
        <5>1. RS \in Nat \ {0}
          BY RxSizes
        <5>2. QED
          BY ONLY <1>2, <5>1, ShiftIn
      <4>2. QED
        BY <3>1, <4>1
    <3>3. sync_rxd = Framed(c)[n + 1]
      BY <1>7, <2>1 DEF Sending
    <3>4. ASSUME NEW i \in 1 .. RS - 1
          PROVE  rx_shift'[i] =
                   IF i + (n + 1) <= RS THEN 1 ELSE Framed(c)[(i + (n + 1)) - RS]
      <4> DEFINE j == i + 1
                 k == i + (n + 1)
      <4>1. j \in 1 .. RS /\ j + n = k
        BY RxSizes
      <4> HIDE DEF j, k
      <4>2. rx_shift[j] = IF k <= RS THEN 1 ELSE Framed(c)[k - RS]
        BY <1>4, <4>1
      <4>3. rx_shift'[i] = rx_shift[j]
        BY <3>2 DEF j
      <4>4. QED
        BY <4>2, <4>3 DEF k
    <3>5. ~(RS + (n + 1) <= RS) /\ (RS + (n + 1)) - RS = n + 1
      BY RxSizes
    <3>6. \A i \in 1 .. RS : i \in 1 .. RS - 1 \/ i = RS
      BY RxSizes
    <3>7. QED
      BY <2>1, <3>2, <3>3, <3>4, <3>5, <3>6
  <2>2. CASE ToGo # 0
    BY <1>1, <1>2, <1>3, <1>4, <2>2 DEF RxClock
  <2>3. QED
    BY <2>1, <2>2
<1>9. g = IF sync_rxd # last_rxd THEN Mid + 1
          ELSE IF ToGo = 0 THEN RxDivisor ELSE ToGo - 1
  BY <1>1 DEF RxClock
<1> DEFINE w == n * RT
<1>10. /\ w \in Nat /\ (n + 1) * RT = w + RT
       /\ w + Mid + 5 - Drift <= clocks + ToGo
       /\ clocks + ToGo <= w + Mid + 5 + Drift
  BY RxSizes DEF Receiving
<1> HIDE DEF w
<1>11. /\ m * RT + Mid + 5 - Drift <= clocks + 1 + g
       /\ clocks + 1 + g <= m * RT + Mid + 5 + Drift
  <2>1. CASE sync_rxd # last_rxd
    <3>1. a = 2 /\ n = slot - 1 /\ m = n /\ g = Mid + 1
      BY <1>7, <1>9, <2>1
    <3>2. w + 1 - Drift <= clocks - a /\ clocks - a <= w + 1 + Drift
      BY <3>1 DEF Sending, w
    <3>3. m * RT = w
      BY <3>1 DEF w
    <3>4. QED
      BY <1>2, <1>10, <3>1, <3>2, <3>3, RxSizes
  <2>2. CASE sync_rxd = last_rxd /\ ToGo = 0
    <3>1. m * RT = w + RT /\ g = RxDivisor
      BY <1>9, <1>10, <2>2
    <3>2. QED
      BY <1>2, <1>10, <2>2, <3>1, RxSizes
  <2>3. CASE sync_rxd = last_rxd /\ ToGo # 0
    <3>1. m * RT = w /\ g = ToGo - 1
      BY <1>9, <2>3 DEF w
    <3>2. QED
      BY <1>2, <1>10, <2>3, <3>1, RxSizes
  <2>4. QED
    BY <2>1, <2>2, <2>3
<1>12. QED
  BY <1>6, <1>7, <1>8, <1>9, <1>11

(* Between two clocks the sender holds the bit, goes on to the next, or    *)
(* ends the frame.                                                         *)
LEMMA BitStep ==
  ASSUME Counting, NEW c \in Rx!Char, NEW a \in Nat, Sending(c, a),
         NEW n \in 0 .. RS - 1, Receiving(c, a, n), NEW op, Rx!Receiver(op),
         line' = Rx!OnTheLine, Rx!SendHold \/ Rx!SendNext \/ Rx!SendEnd
  PROVE  RxPhase'
<1>1. PICK m : m = IF ToGo = 0 THEN n + 1 ELSE n
  OBVIOUS
<1>2. PICK g : g = ToGo'
  OBVIOUS
<1>3. /\ ~Rx!got_new_char /\ do_start_rx' = 0 /\ was_in_process' = 1
      /\ rx_shift' \in [1 .. RS -> {0, 1}]
      /\ \A i \in 1 .. RS : rx_shift'[i] =
           IF i + m <= RS THEN 1 ELSE Framed(c)[(i + m) - RS]
      /\ m * RT + Mid + 5 - Drift <= clocks + 1 + g
      /\ clocks + 1 + g <= m * RT + Mid + 5 + Drift
      /\ ToGo # 0 /\ a # 2 => g = ToGo - 1
  BY <1>1, <1>2, ReceiveStep
<1>4. line' = <<c>>
  BY <1>3 DEF Receiving, Rx!OnTheLine
<1>5. RxClock
  BY RxClockFacts
<1>6. /\ clocks \in Nat /\ slot \in 1 .. RS /\ ToGo \in 0 .. RT
  BY RxTyped, RxSizes DEF Counting, Rx!TypeOK, Sending
<1>7. /\ ToGo = 0 => n + 1 = Seen(a)
      /\ n = Seen(a) \/ n + 1 = Seen(a)
  BY Due DEF Receiving
<1>8. m \in 0 .. RS /\ (m = RS => Seen(a) = RS /\ n = RS - 1)
  BY <1>1, <1>7, RxSizes
<1>9. m = RS => rx_shift' = Framed(c)
  <2> SUFFICES ASSUME m = RS PROVE rx_shift' = Framed(c)
    OBVIOUS
  <2>1. ASSUME NEW i \in 1 .. RS PROVE rx_shift'[i] = Framed(c)[i]
    <3>1. ~(i + RS <= RS) /\ (i + RS) - RS = i
      BY RxSizes
    <3>2. QED
      BY <1>3, <3>1
  <2>2. QED
    BY <1>3, <2>1, RxFrame
<1>10. CASE Rx!SendHold
  <2>1. Sending(c, a + 1)' /\ slot' = slot /\ clocks' = clocks + 1
    BY <1>3, <1>5, <1>10, HoldStep DEF Rx!SendHold
  <2> DEFINE b == a + 1
  <2>2. b \in Nat /\ Sending(c, b)'
    BY <2>1
  <2>3. CASE m = RS
    <3>1. slot' = RS /\ b >= 3
      BY <1>6, <1>8, <2>1, <2>3 DEF Seen
    <3>2. last_rxd' = 1
      BY <1>5, <1>8, <2>3, RxFrame DEF Sending, RxClock
    <3>3. Owed(line, 0)'
      BY <1>3, <1>4, <1>9, <2>3, <3>2 DEF Owed
    <3> HIDE DEF b
    <3>4. Received(b)'
      BY <3>1, <3>3 DEF Received
    <3>5. QED
      BY <2>2, <3>4 DEF RxPhase
  <2>4. CASE m # RS
    <3>1. m \in 0 .. RS - 1
      BY <1>8, <2>4, RxSizes
    <3>2. LET q == IF b >= 2 THEN slot ELSE slot - 1 IN m = q \/ m + 1 = q
      <4>1. CASE a # 1
        <5>1. Seen(a) = IF b >= 2 THEN slot ELSE slot - 1
          BY <4>1 DEF Seen
        <5>2. QED
          BY <1>1, <1>7, <5>1
      <4>2. CASE a = 1
        <5> DEFINE p == (slot - 1) * RT
        <5>1. p \in Nat /\ p + 1 - Drift <= clocks - a
          BY <1>6, SlotTimes DEF Sending
        <5>2. ASSUME n + 1 = slot - 1, ToGo # 0 PROVE FALSE
          <6>1. (n + 1) * RT = n * RT + RT /\ n * RT \in Nat
            BY RxSizes
          <6>2. n * RT = p - RT
            BY <5>2, <6>1, RxSizes
          <6>3. clocks + ToGo <= n * RT + Mid + 5 + Drift
            BY DEF Receiving
          <6> HIDE DEF p
          <6>4. QED
            BY <1>6, <4>2, <5>1, <5>2, <6>2, <6>3, RxSizes
        <5>3. m = slot \/ m + 1 = slot
          BY <1>1, <1>6, <1>7, <4>2, <5>2 DEF Seen
        <5>4. QED
          BY <4>2, <5>3
      <4>3. QED
        BY <4>1, <4>2
    <3> HIDE DEF b
    <3>3. m = Seen(b)' \/ m + 1 = Seen(b)'
      BY <2>1, <3>2 DEF Seen
    <3>4. Receiving(c, b, m)'
      BY <1>2, <1>3, <1>4, <2>1, <3>3 DEF Receiving
    <3>5. QED
      BY <2>2, <3>1, <3>4 DEF RxPhase
  <2>5. QED
    BY <2>3, <2>4
<1>11. CASE Rx!SendNext
  <2>1. Sending(c, 0)' /\ slot' = slot + 1 /\ clocks' = clocks + 1 /\ slot < RS
    BY <1>3, <1>5, <1>11, NextStep DEF Rx!SendNext
  <2>2. a >= 3
    BY <1>11, BitSeen DEF Rx!SendNext, RT
  <2>3. m = slot \/ m + 1 = slot
    BY <1>1, <1>7, <2>2 DEF Seen
  <2>4. m \in 0 .. RS - 1
    BY <1>6, <1>8, <2>1, <2>3, RxSizes
  <2>5. m = Seen(0)' \/ m + 1 = Seen(0)'
    BY <1>6, <2>1, <2>3 DEF Seen
  <2>6. Receiving(c, 0, m)'
    BY <1>2, <1>3, <1>4, <2>1, <2>5 DEF Receiving
  <2>7. QED
    BY <2>1, <2>4, <2>6 DEF RxPhase
<1>12. CASE Rx!SendEnd
  <2>1. slot = RS /\ a >= 3
    BY <1>12, BitSeen DEF Rx!SendEnd, RT, RS
  <2>2. /\ frame' = <<>> /\ slot' = 0 /\ clocks' = 0 /\ rxd' = rxd
        /\ clocks >= RS * RT - Drift
    BY <1>12 DEF Rx!SendEnd, RT, RS
  <2>3. rxd = 1 /\ sync1 = 1 /\ sync_rxd = 1
    BY <2>1, RxFrame DEF Sending, Seen
  <2>4. Owed(line, 2)'
    <3>1. CASE ToGo = 0
      <4>1. m = RS
        BY <1>1, <1>7, <2>1, <3>1 DEF Seen
      <4>2. QED
        BY <1>3, <1>4, <1>5, <1>9, <2>3, <4>1 DEF Owed, RxClock
    <3>2. CASE ToGo # 0
      <4>1. m = n /\ n = RS - 1 /\ g = ToGo - 1
        BY <1>1, <1>3, <1>7, <2>1, <3>2, RxSizes DEF Seen
      <4>2. ToGo <= 2
        <5> DEFINE p == (RS - 1) * RT
        <5>1. p \in Nat /\ RS * RT = p + RT
          BY <1>6, <2>1, SlotTimes
        <5>2. clocks + ToGo <= p + Mid + 5 + Drift
          BY <4>1 DEF Receiving
        <5> HIDE DEF p
        <5>3. QED
          BY <1>6, <2>2, <5>1, <5>2, RxSizes
      <4>3. ToGo' + 1 <= 2
        BY <1>2, <1>6, <4>1, <4>2
      <4>4. rx_shift'[1] = 1
        BY <1>3, <4>1, RxSizes
      <4>5. ASSUME NEW i \in 1 .. RS - 1
            PROVE  rx_shift'[i + 1] = Framed(c)[i]
        <5>1. /\ i + 1 \in 1 .. RS /\ ~((i + 1) + (RS - 1) <= RS)
              /\ ((i + 1) + (RS - 1)) - RS = i
          BY RxSizes
        <5>2. QED
          BY <1>3, <4>1, <5>1
      <4>6. last_rxd' = 1
        BY <1>5, <2>3 DEF RxClock
      <4>7. QED
        BY <1>4, <4>3, <4>4, <4>5, <4>6 DEF Owed
    <3>3. QED
      BY <3>1, <3>2
  <2>5. LineIdle'
    BY <1>3, <1>5, <2>2, <2>3, <2>4 DEF LineIdle, RxClock
  <2>6. QED
    BY <2>5 DEF RxPhase
<1>13. QED
  BY <1>10, <1>11, <1>12

(* The start bit is seen, and the shift register filled with ones. *)
LEMMA StartSeenStep ==
  ASSUME Counting, NEW c \in Rx!Char, StartSeen(c), NEW op, Rx!Receiver(op),
         line' = Rx!OnTheLine, Rx!SendHold \/ Rx!SendNext
  PROVE  RxPhase'
<1>1. RxClock
  BY RxClockFacts
<1>2. 0 \in 0 .. RS - 1 /\ 1 \in 1 .. RS /\ 2 \in 1 .. RS /\ RS \in Nat
  BY RxSizes
<1>3. /\ sync1' = 0 /\ sync_rxd' = 0 /\ last_rxd' = 0 /\ do_start_rx' = 0
      /\ rx_shift' = Rx!Ones /\ ToGo' = Mid
  <2>1. ToGo' = (Mid + 1) - 1 /\ (Mid + 1) # 0
    BY <1>1, RxSizes DEF StartSeen, RxClock
  <2>2. QED
    BY <1>1, <2>1, RxSizes DEF StartSeen, RxClock
<1>4. \A i \in 1 .. RS :
        rx_shift'[i] = IF i + 0 <= RS THEN 1 ELSE Framed(c)[(i + 0) - RS]
  BY <1>2, <1>3 DEF Rx!Ones, RS
<1>5. line' = <<c>>
  BY DEF StartSeen, Rx!OnTheLine, Rx!got_new_char
<1>6. 0 * RT = 0 /\ 1 * RT = RT /\ 2 * RT = RT + RT /\ RT >= 4
  BY RxSizes
<1>7. CASE Rx!SendHold
  <2>1. /\ frame' = Framed(c) /\ slot' = 1 /\ rxd' = 0 /\ clocks' = 5
        /\ 4 < RT + Drift
    BY <1>6, <1>7 DEF StartSeen, Rx!SendHold, RT
  <2>2. Sending(c, 4)'
    <3>1. /\ (1 - 1) * RT + 1 - Drift <= 5 - 4 /\ 5 - 4 <= (1 - 1) * RT + 1 + Drift
          /\ 5 <= 1 * RT + Drift
      BY <1>6, <2>1, RxSizes
    <3>2. QED
      BY <1>2, <1>3, <2>1, <3>1, RxFrame DEF Sending, Seen
  <2>3. Receiving(c, 4, 0)'
    <3>1. 0 + 1 = Seen(4)'
      BY <2>1 DEF Seen
    <3>2. /\ 0 * RT + Mid + 5 - Drift <= 5 + Mid
          /\ 5 + Mid <= 0 * RT + Mid + 5 + Drift
      BY <1>6, RxSizes
    <3>3. QED
      BY <1>3, <1>4, <1>5, <2>1, <3>1, <3>2 DEF Receiving
  <2>4. QED
    BY <1>2, <2>2, <2>3 DEF RxPhase
<1>8. CASE Rx!SendNext
  <2>1. /\ frame' = Framed(c) /\ slot' = 2 /\ rxd' = Framed(c)[2] /\ clocks' = 5
        /\ 4 >= RT - Drift
    BY <1>6, <1>8 DEF StartSeen, Rx!SendNext, RT
  <2>2. Sending(c, 0)'
    <3>1. /\ (2 - 1) * RT + 1 - Drift <= 5 - 0 /\ 5 - 0 <= (2 - 1) * RT + 1 + Drift
          /\ 5 <= 2 * RT + Drift
      BY <1>6, <2>1, RxSizes
    <3>2. QED
      BY <1>2, <1>3, <2>1, <3>1, RxFrame DEF Sending, Seen
  <2>3. Receiving(c, 0, 0)'
    <3>1. 0 + 1 = Seen(0)'
      BY <2>1 DEF Seen
    <3>2. /\ 0 * RT + Mid + 5 - Drift <= 5 + Mid
          /\ 5 + Mid <= 0 * RT + Mid + 5 + Drift
      BY <1>6, RxSizes
    <3>3. QED
      BY <1>3, <1>4, <1>5, <2>1, <3>1, <3>2 DEF Receiving
  <2>4. QED
    BY <1>2, <2>2, <2>3 DEF RxPhase
<1>9. QED
  BY <1>7, <1>8

(* The character is in; the stop bit runs to its end. *)
LEMMA ReceivedStep ==
  ASSUME Counting, NEW c \in Rx!Char, NEW a \in Nat, Sending(c, a), Received(a),
         NEW op, Rx!Receiver(op), line' = Rx!OnTheLine,
         Rx!SendHold \/ Rx!SendEnd
  PROVE  RxPhase'
<1>1. RxClock
  BY RxClockFacts
<1>2. /\ Owed(line, 0) /\ do_start_rx = 0 /\ slot = RS /\ a >= 3
      /\ rxd = 1 /\ sync1 = 1 /\ sync_rxd = 1 /\ last_rxd = 1
  BY RxFrame DEF Received, Sending, Seen
<1>3. PICK m : m = line'
  OBVIOUS
<1>4. m = IF Rx!got_new_char THEN <<>> ELSE line
  BY <1>2, <1>3, OwedLine, OneOf DEF Rx!OnTheLine
<1>5. \A u \in {0, 2} : Owed(m, u)'
  BY <1>2, <1>4, OwedStep
<1>6. /\ do_start_rx' = 0 /\ sync1' = 1 /\ sync_rxd' = 1 /\ last_rxd' = 1
  BY <1>1, <1>2 DEF RxClock
<1>7. CASE Rx!SendHold
  <2>1. Sending(c, a + 1)' /\ slot' = RS
    BY <1>1, <1>2, <1>6, <1>7, HoldStep
  <2> DEFINE b == a + 1
  <2>2. b \in Nat /\ b >= 3 /\ Sending(c, b)'
    BY <1>2, <2>1
  <2> HIDE DEF b
  <2>3. Owed(line, 0)'
    BY <1>3, <1>5 DEF Owed
  <2>4. QED
    BY <2>1, <2>2, <2>3 DEF RxPhase, Received
<1>8. CASE Rx!SendEnd
  <2>1. Owed(line, 2)'
    BY <1>3, <1>5 DEF Owed
  <2>2. LineIdle'
    BY <1>2, <1>6, <1>8, <2>1 DEF LineIdle, Rx!SendEnd
  <2>3. QED
    BY <2>2 DEF RxPhase
<1>9. QED
  BY <1>7, <1>8

-----------------------------------------------------------------------------
(* The sender's step: it goes on with what it does, or begins c. *)
GoesOn ==
  /\ Rx!SendIdle \/ Rx!SendHold \/ Rx!SendNext \/ Rx!SendEnd
  /\ line' = Rx!OnTheLine

Begins(c) == Rx!SendStart(c) /\ line' = Append(Rx!OnTheLine, c)

LEMMA RxPhaseStep ==
  ASSUME RxInv, NEW op, Rx!Receiver(op),
         GoesOn \/ \E c \in Rx!Char : Begins(c)
  PROVE  RxPhase'
<1>1. Counting /\ RS >= 3 /\ RT - Drift >= 4
  BY RxSizes DEF RxInv
<1>2. /\ Rx!SendHold \/ Rx!SendNext => frame # <<>>
      /\ Rx!SendEnd => slot = RS
      /\ Rx!SendIdle \/ (\E c \in Rx!Char : Begins(c)) => frame = <<>>
  BY DEF Rx!SendHold, Rx!SendNext, Rx!SendEnd, Rx!SendIdle, Begins,
         Rx!SendStart, RS
<1>3. CASE LineIdle
  <2>1. frame = <<>> /\ slot = 0
    BY <1>3 DEF LineIdle
  <2>2. (Rx!SendIdle /\ line' = Rx!OnTheLine) \/ \E c \in Rx!Char : Begins(c)
    BY <1>1, <1>2, <2>1 DEF GoesOn
  <2>3. LineIdle' \/ \E c \in Rx!Char, l \in Seq(Rx!Char) : StartSent(c, l)'
    BY <1>1, <1>3, <2>2, IdleStep, IdleStart DEF Begins
  <2>4. QED
    BY <2>3 DEF RxPhase
<1>4. ASSUME NEW c \in Rx!Char, frame = Framed(c)
      PROVE  /\ line' = Rx!OnTheLine
             /\ Rx!SendHold \/ Rx!SendNext \/ Rx!SendEnd
  BY <1>2, <1>4, RxFrame DEF GoesOn
<1>5. ASSUME NEW c \in Rx!Char, NEW l \in Seq(Rx!Char), StartSent(c, l)
      PROVE  RxPhase'
  <2>1. /\ line' = Rx!OnTheLine
        /\ Rx!SendHold \/ Rx!SendNext \/ Rx!SendEnd
    BY <1>4, <1>5 DEF StartSent
  <2>2. ~Rx!SendEnd
    BY <1>1, <1>2, <1>5 DEF StartSent
  <2>3. ~Rx!SendNext
    <3>1. slot = 1 /\ clocks <= 3 /\ 1 * RT = RT
      BY <1>5, RxSizes DEF StartSent
    <3>2. Rx!SendNext => clocks >= RT - Drift
      BY <3>1 DEF Rx!SendNext, RT
    <3>3. clocks \in Nat
      BY <1>1, RxSizes DEF Counting, Rx!TypeOK
    <3>4. QED
      BY <1>1, <3>1, <3>2, <3>3, RxSizes
  <2>4. StartSeen(c)' \/ \E m \in Seq(Rx!Char) : StartSent(c, m)'
    BY <1>1, <1>5, <2>1, <2>2, <2>3, StartSentStep
  <2>5. QED
    BY <2>4 DEF RxPhase
<1>6. ASSUME NEW c \in Rx!Char, StartSeen(c) PROVE RxPhase'
  <2>1. line' = Rx!OnTheLine /\ (Rx!SendHold \/ Rx!SendNext)
    BY <1>1, <1>2, <1>4, <1>6 DEF StartSeen
  <2>2. QED
    BY <1>1, <1>6, <2>1, StartSeenStep
<1>7. ASSUME NEW c \in Rx!Char, NEW a \in Nat, Sending(c, a), Received(a)
      PROVE  RxPhase'
  <2>1. /\ line' = Rx!OnTheLine
        /\ Rx!SendHold \/ Rx!SendNext \/ Rx!SendEnd
    BY <1>4, <1>7 DEF Sending
  <2>2. ~Rx!SendNext
    BY <1>1, <1>7, RxSizes DEF Received, Rx!SendNext, RS
  <2>3. QED
    BY <1>1, <1>7, <2>1, <2>2, ReceivedStep
<1>8. ASSUME NEW c \in Rx!Char, NEW a \in Nat, Sending(c, a),
             NEW n \in 0 .. RS - 1, Receiving(c, a, n)
      PROVE  RxPhase'
  <2>1. /\ line' = Rx!OnTheLine
        /\ Rx!SendHold \/ Rx!SendNext \/ Rx!SendEnd
    BY <1>4, <1>8 DEF Sending
  <2>2. QED
    BY <1>1, <1>8, <2>1, BitStep
<1>9. QED
  BY <1>3, <1>5, <1>6, <1>7, <1>8 DEF RxInv, RxPhase

(* What is announced is the character that has been on the line longest.   *)
LEMMA Announced ==
  ASSUME RxInv, Rx!got_new_char
  PROVE  /\ line # <<>> /\ Head(line) \in Rx!Char
         /\ SubSeq(rx_shift, 2, RS - 1) = Head(line)
<1>1. rx_shift[1] = 0 /\ was_in_process = 1
  BY DEF Rx!got_new_char, Rx!rx_in_process
<1>2. \E p \in Rx!Char : line # <<>> /\ Head(line) = p /\ rx_shift = Framed(p)
  <2>1. ASSUME NEW t, Owed(line, t)
        PROVE  \E p \in Rx!Char :
                 line # <<>> /\ Head(line) = p /\ rx_shift = Framed(p)
    BY <2>1, OwedLine, OneOf
  <2>2. ASSUME NEW c \in Rx!Char, NEW l \in Seq(Rx!Char), StartSent(c, l)
        PROVE  \E p \in Rx!Char :
                 line # <<>> /\ Head(line) = p /\ rx_shift = Framed(p)
    <3>1. line = Append(l, c) /\ Owed(l, 2 - clocks)
      BY <2>2 DEF StartSent
    <3>2. PICK p \in Rx!Char : l = <<p>> /\ rx_shift = Framed(p)
      BY <3>1, OwedLine
    <3>3. QED
      BY <3>1, <3>2, OneOf
  <2>3. ASSUME NEW c \in Rx!Char, StartSeen(c) PROVE FALSE
    BY <1>1, <2>3 DEF StartSeen
  <2>4. ASSUME NEW c \in Rx!Char, NEW a \in Nat, NEW n \in 0 .. RS - 1,
               Receiving(c, a, n)
        PROVE  FALSE
    <3>1. 1 \in 1 .. RS /\ 1 + n <= RS
      BY RxSizes
    <3>2. QED
      BY <1>1, <2>4, <3>1 DEF Receiving
  <2>5. QED
    BY <2>1, <2>2, <2>3, <2>4 DEF RxInv, RxPhase, LineIdle, Received
<1>3. QED
  BY <1>2, RxFrame

(* The sender's types, from the phase. *)
LEMMA PhaseTyped ==
  RxPhase /\ clocks \in Nat =>
    /\ rxd \in {0, 1} /\ frame \in Seq({0, 1}) /\ line \in Seq(Rx!Char)
    /\ slot \in 0 .. RS /\ clocks <= RS * RT + Drift
<1> SUFFICES ASSUME RxPhase, clocks \in Nat
             PROVE  /\ rxd \in {0, 1} /\ frame \in Seq({0, 1})
                    /\ line \in Seq(Rx!Char)
                    /\ slot \in 0 .. RS /\ clocks <= RS * RT + Drift
  OBVIOUS
<1>1. /\ RS \in Nat /\ 1 \in 1 .. RS /\ RT >= 4 /\ Drift \in Nat /\ RT \in Nat
      /\ RS * RT \in Nat /\ RT <= RS * RT
  <2>1. 1 \in 1 .. RS /\ 1 * RT = RT
    BY RxSizes
  <2>2. QED
    BY <2>1, SlotTimes, RxSizes
<1>2. CASE LineIdle
  <2>1. line \in Seq(Rx!Char)
    BY <1>2, OwedLine DEF LineIdle
  <2>2. QED
    BY <1>1, <1>2, <2>1 DEF LineIdle
<1>3. ASSUME NEW c \in Rx!Char, NEW l \in Seq(Rx!Char), StartSent(c, l)
      PROVE  /\ rxd \in {0, 1} /\ frame \in Seq({0, 1})
             /\ line \in Seq(Rx!Char)
             /\ slot \in 0 .. RS /\ clocks <= RS * RT + Drift
  <2>1. frame \in Seq({0, 1}) /\ rxd = 0 /\ slot = 1 /\ clocks <= 3
    BY <1>3, RxFrame DEF StartSent
  <2>2. line \in Seq(Rx!Char)
    BY <1>3 DEF StartSent
  <2>3. clocks <= RS * RT + Drift /\ slot \in 0 .. RS
    BY ONLY <1>1, <2>1, clocks \in Nat
  <2>4. QED
    BY <2>1, <2>2, <2>3
<1>4. ASSUME NEW c \in Rx!Char, StartSeen(c)
      PROVE  /\ rxd \in {0, 1} /\ frame \in Seq({0, 1})
             /\ line \in Seq(Rx!Char)
             /\ slot \in 0 .. RS /\ clocks <= RS * RT + Drift
  <2>1. frame \in Seq({0, 1}) /\ rxd = 0 /\ slot = 1 /\ clocks = 4
    BY <1>4, RxFrame DEF StartSeen
  <2>2. line \in Seq(Rx!Char)
    BY <1>4 DEF StartSeen
  <2>3. clocks <= RS * RT + Drift /\ slot \in 0 .. RS
    BY ONLY <1>1, <2>1
  <2>4. QED
    BY <2>1, <2>2, <2>3
<1>5. ASSUME NEW c \in Rx!Char, NEW a \in Nat, Sending(c, a),
             line \in Seq(Rx!Char)
      PROVE  /\ rxd \in {0, 1} /\ frame \in Seq({0, 1})
             /\ line \in Seq(Rx!Char)
             /\ slot \in 0 .. RS /\ clocks <= RS * RT + Drift
  <2>1. slot \in 1 .. RS /\ clocks <= slot * RT + Drift /\ frame = Framed(c)
        /\ rxd = Framed(c)[slot]
    BY <1>5 DEF Sending
  <2>2. slot * RT <= RS * RT /\ slot * RT \in Nat
    BY <2>1, SlotTimes, RxSizes
  <2>3. clocks <= RS * RT + Drift /\ slot \in 0 .. RS
    BY ONLY <1>1, <2>1, <2>2, clocks \in Nat
  <2>4. frame \in Seq({0, 1}) /\ rxd \in {0, 1}
    BY <2>1, RxFrame
  <2>5. QED
    BY <1>5, <2>3, <2>4
<1>6. ASSUME NEW a \in Nat, Received(a) PROVE line \in Seq(Rx!Char)
  BY <1>6, OwedLine DEF Received
<1>7. ASSUME NEW c \in Rx!Char, NEW a \in Nat, NEW n \in 0 .. RS - 1,
             Receiving(c, a, n)
      PROVE  line \in Seq(Rx!Char)
  BY <1>7, OneOf DEF Receiving
<1>8. QED
  BY <1>2, <1>3, <1>4, <1>5, <1>6, <1>7 DEF RxPhase

LEMMA RxTypeStep ==
  ASSUME RxInv, NEW op, Rx!Receiver(op),
         GoesOn \/ \E c \in Rx!Char : Begins(c)
  PROVE  Counting'
<1>1. RxClock /\ Counting
  BY RxClockFacts DEF RxInv
<1>2. Rx!Bit = {0, 1} /\ Rx!Slots = RS /\ Rx!BitTime = RT
  BY DEF Rx!Bit, RS, RT
<1>3. clocks' \in Nat
  BY <1>1, RxSizes
  DEF Counting, Rx!TypeOK, GoesOn, Begins, Rx!SendIdle, Rx!SendHold,
      Rx!SendNext, Rx!SendEnd, Rx!SendStart
<1>4. /\ rxd' \in {0, 1} /\ frame' \in Seq({0, 1}) /\ line' \in Seq(Rx!Char)
      /\ slot' \in 0 .. RS /\ clocks' <= RS * RT + Drift
  <2>1. RxPhase'
    BY RxPhaseStep
  <2>2. (RxPhase /\ clocks \in Nat =>
          /\ rxd \in {0, 1} /\ frame \in Seq({0, 1}) /\ line \in Seq(Rx!Char)
          /\ slot \in 0 .. RS /\ clocks <= RS * RT + Drift)'
    BY PhaseTyped, PTL
  <2>3. QED
    BY <1>3, <2>1, <2>2
<1>5. clocks' \in 0 .. RS * RT + Drift
  BY <1>3, <1>4, RxSizes
<1>6. {rxd, sync1, sync_rxd, last_rxd, rx_baud_clk_en, do_start_rx,
       was_in_process, rx_shift[1]} \subseteq {0, 1}
      /\ rx_shift \in [1 .. RS -> {0, 1}]
  BY <1>1, RxTyped
<1>7. /\ sync1' \in {0, 1} /\ sync_rxd' \in {0, 1} /\ last_rxd' \in {0, 1}
      /\ do_start_rx' \in {0, 1} /\ was_in_process' \in {0, 1}
  BY <1>1, <1>6 DEF RxClock
<1>8. rx_baud_clk_en' \in {0, 1} /\ rx_baud_rate_counter' \in 0 .. RxDivisor
  BY <1>1 DEF RxClock, Rx!Receiver, Rx!Baud
<1>9. rx_shift' \in [1 .. RS -> {0, 1}]
  <2>1. Rx!Ones \in [1 .. RS -> {0, 1}]
    BY DEF Rx!Ones, RS
  <2>2. Append(Tail(rx_shift), sync_rxd) \in [1 .. RS -> {0, 1}]
    <3>1. RS \in Nat \ {0} /\ sync_rxd \in {0, 1}
      BY <1>6, RxSizes
    <3>2. QED
      BY ONLY <1>6, <3>1, ShiftIn
  <2>3. QED
    BY <1>1, <1>6, <2>1, <2>2 DEF RxClock
<1>10. rx_data' \in Rx!Char
  <2>1. rx_data' = IF Rx!got_new_char THEN SubSeq(rx_shift, 2, RS - 1) ELSE rx_data
    BY DEF Rx!Receiver, Rx!RxData, RS
  <2>2. QED
    BY <1>1, <2>1, Announced DEF Counting, Rx!TypeOK
<1>11. rx_char_ready' \in {0, 1} /\ rx_overrun' \in {0, 1}
  BY <1>1, <1>2
  DEF Counting, Rx!TypeOK, Rx!Receiver, Rx!Overrun, Rx!CharReady
<1>12. Rx!TypeOK'
  BY <1>2, <1>4, <1>5, <1>7, <1>8, <1>9, <1>10, <1>11 DEF Rx!TypeOK
<1>13. QED
  BY <1>1, <1>12 DEF Counting, RxClock

LEMMA RxNextInv == RxInv /\ [Next]_vars => RxInv'
<1> SUFFICES ASSUME RxInv, [Next]_vars PROVE RxInv'
  OBVIOUS
<1>1. CASE Receive
  <2>1. PICK op : Rx!Receiver(op) /\ (GoesOn \/ \E c \in Rx!Char : Begins(c))
    BY <1>1 DEF Receive, Rx!Next, Rx!Tick, Rx!TickStart, GoesOn, Begins
  <2>2. QED
    BY <2>1, RxPhaseStep, RxTypeStep DEF RxInv
<1>2. CASE UNCHANGED receiver
  BY <1>2 DEF receiver, RxInv, Counting, Rx!TypeOK, RxPhase, LineIdle, StartSent,
              StartSeen, Sending, Receiving, Received, Owed, Seen, ToGo
<1>3. QED
  BY <1>1, <1>2 DEF Next, Transmit, vars

LEMMA RxInitInv == Init => RxInv
<1> SUFFICES ASSUME Init PROVE RxInv
  OBVIOUS
<1>1. /\ RS \in Nat /\ RT \in Nat /\ Drift \in Nat /\ RxDivisor \in Nat
      /\ RS * RT \in Nat /\ 1 \in 1 .. RS
  BY RxSizes
<1>2. Rx!TypeOK
  <2>1. 0 \in 0 .. RS /\ 0 \in 0 .. RS * RT + Drift /\ 0 \in 0 .. RxDivisor
    BY <1>1
  <2>2. QED
    BY <2>1 DEF Init, Rx!Init, Rx!TypeOK, Rx!Bit, Rx!Char, RS, RT
<1>3. LineIdle
  BY <1>1 DEF Init, Rx!Init, LineIdle, Owed, RS
<1>4. QED
  BY <1>2, <1>3 DEF RxInv, Counting, RxPhase, Init, Rx!Init

-----------------------------------------------------------------------------
LEMMA BusyStep ==
  busy \in {"tx", "rx"} /\ [Next]_vars => (busy \in {"tx", "rx"})'
  BY DEF Next, Transmit, Receive, vars

(* Every register keeps within its width, and the histories hold           *)
(* characters.                                                             *)
THEOREM TypeCorrect == Spec => []TypeOK
<1>1. Init => busy \in {"tx", "rx"}
  BY DEF Init
<1>2. busy \in {"tx", "rx"} /\ TxInv /\ RxInv => TypeOK
  BY DEF TypeOK, TxInv, RxInv, Counting
<1>3. QED
  BY <1>1, <1>2, BusyStep, TxInitInv, TxNextInv, RxInitInv, RxNextInv, PTL
  DEF Spec

-----------------------------------------------------------------------------
(* The receiver implements the port with one character of room. *)
LEMMA RxPortStep ==
  ASSUME RxInv, NEW op \in Rx!Bus, Rx!Receiver(op),
         GoesOn \/ \E c \in Rx!Char : Begins(c)
  PROVE  Rx!Port!Next
<1>1. /\ rx_data' = IF Rx!got_new_char THEN SubSeq(rx_shift, 2, RS - 1) ELSE rx_data
      /\ rx_overrun' = IF op = "clear" THEN 0
                       ELSE IF Rx!got_new_char /\ rx_char_ready = 1 THEN 1
                       ELSE rx_overrun
      /\ rx_char_ready' = IF op = "read" THEN 0
                          ELSE IF Rx!got_new_char THEN 1 ELSE rx_char_ready
  BY DEF Rx!Receiver, Rx!RxData, Rx!Overrun, Rx!CharReady, RS
<1>2. line \in Seq(Rx!Char)
  BY DEF RxInv, Counting, Rx!TypeOK
<1>3. Rx!got_new_char => /\ line # <<>> /\ Tail(line) \in Seq(Rx!Char)
                        /\ SubSeq(rx_shift, 2, RS - 1) = Head(line)
  BY <1>2, Announced
<1>4. Rx!OnTheLine \in Seq(Rx!Char)
  BY <1>2, <1>3 DEF Rx!OnTheLine
<1>5. PICK s \in Rx!Port!Sent : line' = Rx!OnTheLine \o s
  <2>1. CASE GoesOn
    <3>1. line' = Rx!OnTheLine /\ Rx!OnTheLine \o <<>> = Rx!OnTheLine
      BY <1>4, <2>1, ConcatEmptySeq DEF GoesOn
    <3>2. QED
      BY <3>1 DEF Rx!Port!Sent
  <2>2. ASSUME NEW c \in Rx!Char, Begins(c)
        PROVE  line' = Rx!OnTheLine \o <<c>>
    BY <1>4, <2>2, AppendIsConcat DEF Begins
  <2>3. QED
    BY <2>1, <2>2 DEF Rx!Port!Sent
<1>6. op \in Rx!Port!Bus
  BY DEF Rx!Bus, Rx!Port!Bus
<1>7. CASE Rx!got_new_char
  <2>1. Rx!OnTheLine = Tail(line)
    BY <1>3, <1>7 DEF Rx!OnTheLine
  <2>2. Rx!Port!Arrive(op, s)
    BY <1>1, <1>3, <1>5, <1>7, <2>1 DEF Rx!Port!Arrive
  <2>3. QED
    BY <1>5, <1>6, <2>2 DEF Rx!Port!Next
<1>8. CASE ~Rx!got_new_char
  <2>1. Rx!OnTheLine = line
    BY <1>8 DEF Rx!OnTheLine
  <2>2. Rx!Port!Wait(op, s)
    BY <1>1, <1>5, <1>8, <2>1 DEF Rx!Port!Wait
  <2>3. QED
    BY <1>5, <1>6, <2>2 DEF Rx!Port!Next
<1>9. QED
  BY <1>7, <1>8

(* Whatever the drift of the other end's clock, within SizesAssumption, at *)
(* whatever clock the program reads, and however close on its predecessor  *)
(* it comes: every character that is sent arrives as it was sent, once,    *)
(* and none arrives that was not sent (system_0_uart_0.v:375-531).         *)
THEOREM RxPortCorrect == Spec => ImplementsRxPort
<1>1. Init => Rx!Port!Init
  <2> SUFFICES ASSUME Init PROVE Rx!Port!Init
    OBVIOUS
  <2>1. rx_data \in Rx!Char
    BY RxInitInv DEF RxInv, Counting, Rx!TypeOK
  <2>2. QED
    BY <2>1 DEF Init, Rx!Init, Rx!Port!Init
<1>2. RxInv /\ [Next]_vars => [Rx!Port!Next]_(Rx!Port!vars)
  <2> SUFFICES ASSUME RxInv, [Next]_vars
               PROVE  [Rx!Port!Next]_(Rx!Port!vars)
    OBVIOUS
  <2>1. CASE Receive
    <3>1. PICK op \in Rx!Bus :
            Rx!Receiver(op) /\ (GoesOn \/ \E c \in Rx!Char : Begins(c))
      BY <2>1 DEF Receive, Rx!Next, Rx!Tick, Rx!TickStart, GoesOn, Begins
    <3>2. QED
      BY <3>1, RxPortStep
  <2>2. CASE UNCHANGED receiver
    BY <2>2 DEF receiver, Rx!Port!vars
  <2>3. QED
    BY <2>1, <2>2 DEF Next, Transmit, vars
<1>3. QED
  BY <1>1, <1>2, RxInitInv, RxNextInv, PTL
  DEF Spec, ImplementsRxPort, Rx!ImplementsRxPort, Rx!Port!Spec
====
