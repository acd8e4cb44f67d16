---------------------------- MODULE CodecProofs ----------------------------
(***************************************************************************)
(* Proofs about Codec for every sequence of commands and every input: the  *)
(* runs try words of one bit and of all bits, the proofs any.              *)
(***************************************************************************)
EXTENDS Codec, TLAPS

(* A word is put together from its four bytes. *)
LEMMA InWord ==
  ASSUME NEW f, NEW o
  PROVE  \A x : x \in WordAt(f, o) <=>
           \E k \in 0 .. 3 : \E b \in f[o + k] : x = 8 * k + b
  BY DEF WordAt

LEMMA InByte ==
  ASSUME NEW w, NEW k
  PROVE  \A x : x \in Byte(w, k) <=>
           \E b \in w : b \in 8 * k .. 8 * k + 7 /\ x = b - 8 * k
  BY DEF Byte

LEMMA ByteIsByte ==
  ASSUME NEW w \in SUBSET Words, NEW k \in 0 .. 3
  PROVE  Byte(w, k) \subseteq Bits(8)
  BY InByte DEF Bits, Words

LEMMA WordOfBytes ==
  ASSUME NEW w \in SUBSET Words, NEW f, NEW o \in Nat,
         \A k \in 0 .. 3 : f[o + k] = Byte(w, k)
  PROVE  WordAt(f, o) = w
<1>1. ASSUME NEW x \in w PROVE x \in WordAt(f, o)
  <2>1. x \in 0 .. 31
    BY DEF Words
  <2>2. PICK k \in 0 .. 3 : x \in 8 * k .. 8 * k + 7
    <3>1. \/ x \in 8 * 0 .. 8 * 0 + 7 \/ x \in 8 * 1 .. 8 * 1 + 7
          \/ x \in 8 * 2 .. 8 * 2 + 7 \/ x \in 8 * 3 .. 8 * 3 + 7
      BY <2>1
    <3>2. QED
      BY <3>1
  <2>3. x - 8 * k \in f[o + k] /\ x = 8 * k + (x - 8 * k)
    BY <2>1, <2>2, InByte
  <2>4. QED
    BY <2>3, InWord
<1>2. ASSUME NEW x \in WordAt(f, o) PROVE x \in w
  <2>1. PICK k \in 0 .. 3 : \E b \in Byte(w, k) : x = 8 * k + b
    BY <1>2, InWord
  <2>2. PICK b \in Byte(w, k) : x = 8 * k + b
    BY <2>1
  <2>3. PICK c \in w : c \in 8 * k .. 8 * k + 7 /\ b = c - 8 * k
    BY InByte
  <2>4. x = c
    BY <2>2, <2>3 DEF Words
  <2>5. QED
    BY <2>4
<1>3. QED
  BY <1>1, <1>2

-----------------------------------------------------------------------------
(* The word and the byte that an offset belongs to. *)
LEMMA Offset ==
  ASSUME NEW n \in Nat, NEW k \in 0 .. 3
  PROVE  (4 * n + k) \div 4 = n /\ (4 * n + k) % 4 = k
  OBVIOUS

LEMMA PackBytes ==
  ASSUME NEW c \in Command
  PROVE  /\ \A n \in Axis, k \in 0 .. 3 :
              Pack(c)[14 + 4 * n + k] = Byte(c.per[n], k)
         /\ \A k \in 0 .. 3 : /\ Pack(c)[38 + k] = Byte(c.counter, k)
                              /\ Pack(c)[42 + k] = Byte(c.capture, k)
                              /\ Pack(c)[46 + k] = Byte(c.gpio, k)
         /\ Pack(c)[34] = c.dir \cup Shifted(c.en \cap (0 .. 2), 5)
         /\ Pack(c)[35] = Shifted(c.en \cap (3 .. 4), -3)
         /\ Pack(c)[36] = {} /\ Pack(c)[37] = {}
<1>1. ASSUME NEW n \in Axis, NEW k \in 0 .. 3
      PROVE  Pack(c)[14 + 4 * n + k] = Byte(c.per[n], k)
  <2> DEFINE o == 14 + 4 * n + k
  <2>1. o \in 14 .. 33 /\ o - 14 = 4 * n + k /\ n \in Nat
    BY DEF Axis
  <2>2. (o - 14) \div 4 = n /\ (o - 14) % 4 = k
    BY <2>1, Offset
  <2> HIDE DEF o
  <2>3. \A x \in 14 .. 33 : Pack(c)[x] = ByteOf(c.per, x - 14)
    BY DEF Pack
  <2>4. Pack(c)[o] = ByteOf(c.per, o - 14)
    BY <2>1, <2>3
  <2>5. QED
    BY <2>2, <2>4 DEF o, ByteOf
<1>2. ASSUME NEW k \in 0 .. 3
      PROVE  /\ Pack(c)[38 + k] = Byte(c.counter, k)
             /\ Pack(c)[42 + k] = Byte(c.capture, k)
             /\ Pack(c)[46 + k] = Byte(c.gpio, k)
  <2> DEFINE o(b) == b + k
  <2>1. /\ o(38) \in 38 .. 41 /\ o(38) - 38 = k
        /\ o(42) \in 42 .. 45 /\ o(42) - 42 = k
        /\ o(46) \in 46 .. 49 /\ o(46) - 46 = k
    OBVIOUS
  <2> HIDE DEF o
  <2>2. \A x \in 38 .. 41 : Pack(c)[x] = Byte(c.counter, x - 38)
    BY DEF Pack
  <2>3. \A x \in 42 .. 45 : Pack(c)[x] = Byte(c.capture, x - 42)
    BY DEF Pack
  <2>4. \A x \in 46 .. 49 : Pack(c)[x] = Byte(c.gpio, x - 46)
    BY DEF Pack
  <2>5. QED
    BY <2>1, <2>2, <2>3, <2>4 DEF o
<1>3. /\ Pack(c)[34] = c.dir \cup Shifted(c.en \cap (0 .. 2), 5)
      /\ Pack(c)[35] = Shifted(c.en \cap (3 .. 4), -3)
      /\ Pack(c)[36] = {} /\ Pack(c)[37] = {}
  BY DEF Pack
<1>4. QED
  BY <1>1, <1>2, <1>3

(* Directions and enables share a word, the enables in two of its bytes. *)
LEMMA FieldsPacked ==
  ASSUME NEW c \in Command
  PROVE  /\ Fields(WordAt(Pack(c), 34)).dir = c.dir
         /\ Fields(WordAt(Pack(c), 34)).en = c.en
<1> DEFINE w == WordAt(Pack(c), 34)
<1>0. c.dir \subseteq 0 .. 4 /\ c.en \subseteq 0 .. 4
  BY DEF Command, Axis
<1>1. \A x : x \in w <=> \/ \E b \in Pack(c)[34] : x = b
                         \/ \E b \in Pack(c)[35] : x = 8 + b
  <2>1. \A x : x \in w <=>
          \/ \E b \in Pack(c)[34 + 0] : x = 8 * 0 + b
          \/ \E b \in Pack(c)[34 + 1] : x = 8 * 1 + b
          \/ \E b \in Pack(c)[34 + 2] : x = 8 * 2 + b
          \/ \E b \in Pack(c)[34 + 3] : x = 8 * 3 + b
    <3>1. 0 .. 3 = {0, 1, 2, 3}
      OBVIOUS
    <3>2. QED
      BY <3>1, InWord
  <2>2. Pack(c)[34] \subseteq Int /\ Pack(c)[35] \subseteq Int
    BY <1>0, PackBytes DEF Shifted
  <2>3. Pack(c)[36] = {} /\ Pack(c)[37] = {}
    BY PackBytes
  <2>4. 34 + 0 = 34 /\ 34 + 1 = 35 /\ 34 + 2 = 36 /\ 34 + 3 = 37
    OBVIOUS
  <2>5. \A b \in Int : 8 * 0 + b = b /\ 8 * 1 + b = 8 + b
    OBVIOUS
  <2> HIDE DEF w
  <2>6. \A x : x \in w <=> \/ \E b \in Pack(c)[34] : x = 8 * 0 + b
                           \/ \E b \in Pack(c)[35] : x = 8 * 1 + b
    BY <2>1, <2>3, <2>4
  <2>7. QED
    BY <2>2, <2>5, <2>6
<1> HIDE DEF w
<1>2. \A x : x \in w <=> \/ x \in c.dir
                         \/ \E e \in c.en : e \in 0 .. 2 /\ x = e + 5
                         \/ \E e \in c.en : e \in 3 .. 4 /\ x = 8 + (e - 3)
  BY <1>1, <1>0, PackBytes DEF Shifted
<1>3. \A x : x \in w <=> x \in c.dir \/ \E e \in c.en : x = e + 5
  BY <1>0, <1>2
<1>4. w \cap Axis = c.dir
  BY <1>0, <1>3 DEF Axis
<1>5. Shifted(w \cap (5 .. 9), -5) = c.en
  <2>1. w \cap (5 .. 9) = {e + 5 : e \in c.en}
    BY <1>0, <1>3
  <2>2. \A e \in c.en : e + 5 + -5 = e
    BY <1>0
  <2>3. QED
    BY <2>1, <2>2 DEF Shifted
<1>6. QED
  BY <1>4, <1>5 DEF Fields, w

(* What the handler writes to register n of a command's nine. *)
LEMMA WordsPacked ==
  ASSUME NEW c \in Command
  PROVE  /\ \A n \in Axis : WordAt(Pack(c), 14 + 4 * n) = c.per[n]
         /\ WordAt(Pack(c), 38) = c.counter
         /\ WordAt(Pack(c), 42) = c.capture
         /\ WordAt(Pack(c), 46) = c.gpio
<1>1. ASSUME NEW n \in Axis PROVE WordAt(Pack(c), 14 + 4 * n) = c.per[n]
  <2>1. c.per[n] \in SUBSET Words
    BY DEF Command
  <2> DEFINE o == 14 + 4 * n
             f == Pack(c)
             w == c.per[n]
  <2>2. o \in Nat
    BY DEF Axis
  <2>3. \A k \in 0 .. 3 : f[o + k] = Byte(w, k)
    BY PackBytes, Zenon
  <2> HIDE DEF o, f, w
  <2>4. WordAt(f, o) = w
    BY <2>1, <2>2, <2>3, WordOfBytes DEF w
  <2>5. QED
    BY <2>4 DEF o, f, w
<1>2. /\ c.counter \in SUBSET Words /\ c.capture \in SUBSET Words
      /\ c.gpio \in SUBSET Words
  BY DEF Command
<1> DEFINE f == Pack(c)
<1>3. \A k \in 0 .. 3 : /\ f[38 + k] = Byte(c.counter, k)
                        /\ f[42 + k] = Byte(c.capture, k)
                        /\ f[46 + k] = Byte(c.gpio, k)
  BY PackBytes
<1> HIDE DEF f
<1>4. /\ WordAt(f, 38) = c.counter
      /\ WordAt(f, 42) = c.capture
      /\ WordAt(f, 46) = c.gpio
  BY <1>2, <1>3, WordOfBytes
<1>5. QED
  BY <1>1, <1>4 DEF f

-----------------------------------------------------------------------------
LEMMA ReplyBytes ==
  ASSUME NEW r \in Input
  PROVE  /\ \A k \in 0 .. 1 : /\ Reply(r)[14 + k] = Byte(r.igpio, k)
                              /\ Reply(r)[16 + k] = Byte(r.keys, k)
         /\ \A a \in Axis, k \in 0 .. 3 :
              Reply(r)[18 + 4 * a + k] = Byte(r.loc[a], k)
         /\ \A e \in 0 .. 1, k \in 0 .. 3 :
              Reply(r)[38 + 4 * e + k] = Byte(r.enc[e], k)
<1>1. ASSUME NEW k \in 0 .. 1
      PROVE  /\ Reply(r)[14 + k] = Byte(r.igpio, k)
             /\ Reply(r)[16 + k] = Byte(r.keys, k)
  <2> DEFINE o(b) == b + k
  <2>1. /\ o(14) \in 14 .. 15 /\ o(14) - 14 = k
        /\ o(16) \in 16 .. 17 /\ o(16) - 16 = k
    OBVIOUS
  <2> HIDE DEF o
  <2>2. \A x \in 14 .. 15 : Reply(r)[x] = Byte(r.igpio, x - 14)
    BY DEF Reply
  <2>3. \A x \in 16 .. 17 : Reply(r)[x] = Byte(r.keys, x - 16)
    BY DEF Reply
  <2>4. QED
    BY <2>1, <2>2, <2>3 DEF o
<1>2. ASSUME NEW a \in Axis, NEW k \in 0 .. 3
      PROVE  Reply(r)[18 + 4 * a + k] = Byte(r.loc[a], k)
  <2> DEFINE o == 18 + 4 * a + k
  <2>1. o \in 18 .. 37 /\ o - 18 = 4 * a + k /\ a \in Nat
    BY DEF Axis
  <2>2. (o - 18) \div 4 = a /\ (o - 18) % 4 = k
    BY <2>1, Offset
  <2> HIDE DEF o
  <2>3. \A x \in 18 .. 37 : Reply(r)[x] = ByteOf(r.loc, x - 18)
    BY DEF Reply
  <2>4. Reply(r)[o] = ByteOf(r.loc, o - 18)
    BY <2>1, <2>3
  <2>5. QED
    BY <2>2, <2>4 DEF o, ByteOf
<1>3. ASSUME NEW e \in 0 .. 1, NEW k \in 0 .. 3
      PROVE  Reply(r)[38 + 4 * e + k] = Byte(r.enc[e], k)
  <2> DEFINE o == 38 + 4 * e + k
  <2>1. o \in 38 .. 45 /\ o - 38 = 4 * e + k /\ e \in Nat
    OBVIOUS
  <2>2. (o - 38) \div 4 = e /\ (o - 38) % 4 = k
    BY <2>1, Offset
  <2> HIDE DEF o
  <2>3. \A x \in 38 .. 45 : Reply(r)[x] = ByteOf(r.enc, x - 38)
    BY DEF Reply
  <2>4. Reply(r)[o] = ByteOf(r.enc, o - 38)
    BY <2>1, <2>3
  <2>5. QED
    BY <2>2, <2>4 DEF o, ByteOf
<1>4. QED
  BY <1>1, <1>2, <1>3

(* What do_work reads back: sixteen inputs under the pendant's sixteen     *)
(* bits, and each location.                                                *)
LEMMA WordsReplied ==
  ASSUME NEW r \in Input
  PROVE  /\ WordAt(Reply(r), 14)
              = (r.igpio \cap (0 .. 15)) \cup Shifted(r.keys, 16)
         /\ \A a \in Axis : LocationAt(Reply(r), a) = r.loc[a]
<1>1. ASSUME NEW a \in Axis PROVE LocationAt(Reply(r), a) = r.loc[a]
  <2> DEFINE o == 18 + 4 * a
             f == Reply(r)
             w == r.loc[a]
  <2>1. w \in SUBSET Words /\ o \in Nat
    BY DEF Input, Axis
  <2>2. \A k \in 0 .. 3 : f[o + k] = Byte(w, k)
    BY ReplyBytes, Zenon
  <2> HIDE DEF o, f, w
  <2>3. WordAt(f, o) = w
    BY <2>1, <2>2, WordOfBytes
  <2>4. QED
    BY <2>3 DEF LocationAt, o, f, w
<1> DEFINE w == WordAt(Reply(r), 14)
<1>2. \A x : x \in w <=>
        \/ \E b \in Byte(r.igpio, 0) : x = 8 * 0 + b
        \/ \E b \in Byte(r.igpio, 1) : x = 8 * 1 + b
        \/ \E b \in Byte(r.keys, 0) : x = 8 * 2 + b
        \/ \E b \in Byte(r.keys, 1) : x = 8 * 3 + b
  <2>1. \A x : x \in w <=>
          \/ \E b \in Reply(r)[14 + 0] : x = 8 * 0 + b
          \/ \E b \in Reply(r)[14 + 1] : x = 8 * 1 + b
          \/ \E b \in Reply(r)[14 + 2] : x = 8 * 2 + b
          \/ \E b \in Reply(r)[14 + 3] : x = 8 * 3 + b
    <3>1. 0 .. 3 = {0, 1, 2, 3}
      OBVIOUS
    <3>2. QED
      BY <3>1, InWord
  <2>2. 14 + 2 = 16 + 0 /\ 14 + 3 = 16 + 1 /\ 0 \in 0 .. 1 /\ 1 \in 0 .. 1
    OBVIOUS
  <2>3. /\ Reply(r)[14 + 0] = Byte(r.igpio, 0)
        /\ Reply(r)[14 + 1] = Byte(r.igpio, 1)
        /\ Reply(r)[14 + 2] = Byte(r.keys, 0)
        /\ Reply(r)[14 + 3] = Byte(r.keys, 1)
    BY <2>2, ReplyBytes
  <2> HIDE DEF w
  <2>4. QED
    BY <2>1, <2>3
<1> HIDE DEF w
<1>3. r.igpio \subseteq 0 .. 31 /\ r.keys \subseteq 0 .. 15
  BY DEF Input, Words, Bits
<1>4. \A x : x \in w <=> \/ \E b \in r.igpio : b \in 0 .. 7 /\ x = b
                         \/ \E b \in r.igpio : b \in 8 .. 15 /\ x = b
                         \/ \E b \in r.keys : b \in 0 .. 7 /\ x = b + 16
                         \/ \E b \in r.keys : b \in 8 .. 15 /\ x = b + 16
  <2>1. ASSUME NEW S, S \subseteq 0 .. 31
        PROVE  /\ Byte(S, 0) = {b \in S : b \in 0 .. 7}
               /\ Byte(S, 1) = {b - 8 : b \in {c \in S : c \in 8 .. 15}}
    <3>1. \A b \in Int : b - 8 * 0 = b /\ b - 8 * 1 = b - 8
      OBVIOUS
    <3>2. 8 * 0 .. 8 * 0 + 7 = 0 .. 7 /\ 8 * 1 .. 8 * 1 + 7 = 8 .. 15
      OBVIOUS
    <3>3. QED
      BY <2>1, <3>1, <3>2 DEF Byte
  <2>2. /\ Byte(r.igpio, 0) = {b \in r.igpio : b \in 0 .. 7}
        /\ Byte(r.igpio, 1) = {b - 8 : b \in {c \in r.igpio : c \in 8 .. 15}}
        /\ Byte(r.keys, 0) = {b \in r.keys : b \in 0 .. 7}
        /\ Byte(r.keys, 1) = {b - 8 : b \in {c \in r.keys : c \in 8 .. 15}}
    <3>1. r.keys \subseteq 0 .. 31
      BY <1>3
    <3>2. QED
      BY <1>3, <2>1, <3>1
  <2>3. \A b \in Int : /\ 8 * 0 + b = b /\ 8 * 1 + (b - 8) = b
                        /\ 8 * 2 + b = b + 16 /\ 8 * 3 + (b - 8) = b + 16
    OBVIOUS
  <2>4. \A x : /\ (\E b \in Byte(r.igpio, 0) : x = 8 * 0 + b)
                    <=> \E b \in r.igpio : b \in 0 .. 7 /\ x = b
               /\ (\E b \in Byte(r.igpio, 1) : x = 8 * 1 + b)
                    <=> \E b \in r.igpio : b \in 8 .. 15 /\ x = b
               /\ (\E b \in Byte(r.keys, 0) : x = 8 * 2 + b)
                    <=> \E b \in r.keys : b \in 0 .. 7 /\ x = b + 16
               /\ (\E b \in Byte(r.keys, 1) : x = 8 * 3 + b)
                    <=> \E b \in r.keys : b \in 8 .. 15 /\ x = b + 16
    <3>1. \A x : (\E b \in Byte(r.igpio, 0) : x = 8 * 0 + b)
                   <=> \E b \in r.igpio : b \in 0 .. 7 /\ x = b
      BY <1>3, <2>2, <2>3
    <3>2. \A x : (\E b \in Byte(r.igpio, 1) : x = 8 * 1 + b)
                   <=> \E b \in r.igpio : b \in 8 .. 15 /\ x = b
      BY <1>3, <2>2, <2>3
    <3>3. \A x : (\E b \in Byte(r.keys, 0) : x = 8 * 2 + b)
                   <=> \E b \in r.keys : b \in 0 .. 7 /\ x = b + 16
      BY <1>3, <2>2, <2>3
    <3>4. \A x : (\E b \in Byte(r.keys, 1) : x = 8 * 3 + b)
                   <=> \E b \in r.keys : b \in 8 .. 15 /\ x = b + 16
      BY <1>3, <2>2, <2>3
    <3>5. QED
      BY <3>1, <3>2, <3>3, <3>4
  <2>5. QED
    BY <1>2, <2>4
<1>5. w = (r.igpio \cap (0 .. 15)) \cup {b + 16 : b \in r.keys}
  BY <1>3, <1>4
<1>6. QED
  BY <1>1, <1>5 DEF Shifted, w

(* Bytes are bytes. *)
LEMMA ByteOfRow ==
  ASSUME NEW m \in Nat, NEW words \in [0 .. m -> SUBSET Words],
         NEW o \in 0 .. 4 * m + 3
  PROVE  ByteOf(words, o) \subseteq Bits(8)
<1>1. o \div 4 \in 0 .. m /\ o % 4 \in 0 .. 3
  OBVIOUS
<1>2. words[o \div 4] \in SUBSET Words
  BY <1>1
<1>3. QED
  BY <1>1, <1>2, ByteIsByte DEF ByteOf

LEMMA PackIsBytes ==
  ASSUME NEW c \in Command
  PROVE  /\ DOMAIN Pack(c) = 14 .. 49
         /\ \A o \in 14 .. 49 : Pack(c)[o] \subseteq Bits(8)
<1>1. DOMAIN Pack(c) = 14 .. 49
  BY DEF Pack
<1>2. \A o \in 14 .. 33 : Pack(c)[o] \subseteq Bits(8)
  <2>1. \A o \in 14 .. 33 : Pack(c)[o] = ByteOf(c.per, o - 14)
    BY DEF Pack
  <2>2. c.per \in [0 .. 4 -> SUBSET Words] /\ 4 \in Nat
    BY DEF Command, Axis
  <2>3. \A x \in 0 .. 4 * 4 + 3 : ByteOf(c.per, x) \subseteq Bits(8)
    BY <2>2, ByteOfRow, Zenon
  <2>4. \A o \in 14 .. 33 : o - 14 \in 0 .. 4 * 4 + 3
    OBVIOUS
  <2>5. QED
    BY <2>1, <2>3, <2>4
<1>3. \A o \in 34 .. 37 : Pack(c)[o] \subseteq Bits(8)
  <2>1. Pack(c)[34] \subseteq Bits(8) /\ Pack(c)[35] \subseteq Bits(8)
    BY PackBytes DEF Command, Axis, Shifted, Bits
  <2>2. Pack(c)[36] \subseteq Bits(8) /\ Pack(c)[37] \subseteq Bits(8)
    BY PackBytes
  <2>3. 34 .. 37 = {34, 35, 36, 37}
    OBVIOUS
  <2>4. QED
    BY <2>1, <2>2, <2>3
<1>4. \A o \in 38 .. 49 : Pack(c)[o] \subseteq Bits(8)
  <2>1. \A w \in SUBSET Words : \A k \in 0 .. 3 : Byte(w, k) \subseteq Bits(8)
    BY ByteIsByte
  <2>2. /\ c.counter \in SUBSET Words /\ c.capture \in SUBSET Words
        /\ c.gpio \in SUBSET Words
    BY DEF Command
  <2>3. /\ \A o \in 38 .. 41 : Pack(c)[o] = Byte(c.counter, o - 38)
        /\ \A o \in 42 .. 45 : Pack(c)[o] = Byte(c.capture, o - 42)
        /\ \A o \in 46 .. 49 : Pack(c)[o] = Byte(c.gpio, o - 46)
    BY DEF Pack
  <2>4. /\ \A o \in 38 .. 41 : o - 38 \in 0 .. 3
        /\ \A o \in 42 .. 45 : o - 42 \in 0 .. 3
        /\ \A o \in 46 .. 49 : o - 46 \in 0 .. 3
    OBVIOUS
  <2>5. 38 .. 49 = (38 .. 41) \cup (42 .. 45) \cup (46 .. 49)
    OBVIOUS
  <2>6. QED
    BY <2>1, <2>2, <2>3, <2>4, <2>5
<1>5. 14 .. 49 = (14 .. 33) \cup (34 .. 37) \cup (38 .. 49)
  OBVIOUS
<1>6. QED
  BY <1>1, <1>2, <1>3, <1>4, <1>5

LEMMA ReplyIsBytes ==
  ASSUME NEW r \in Input
  PROVE  /\ DOMAIN Reply(r) = 14 .. 45
         /\ \A o \in 14 .. 45 : Reply(r)[o] \subseteq Bits(8)
<1>1. DOMAIN Reply(r) = 14 .. 45
  BY DEF Reply
<1>2. \A o \in 14 .. 17 : Reply(r)[o] \subseteq Bits(8)
  <2>1. \A w \in SUBSET Words : \A k \in 0 .. 3 : Byte(w, k) \subseteq Bits(8)
    BY ByteIsByte
  <2>2. r.igpio \in SUBSET Words /\ r.keys \in SUBSET Words
    BY DEF Input, Bits, Words
  <2>3. /\ \A o \in 14 .. 15 : Reply(r)[o] = Byte(r.igpio, o - 14)
        /\ \A o \in 16 .. 17 : Reply(r)[o] = Byte(r.keys, o - 16)
    BY DEF Reply
  <2>4. /\ \A o \in 14 .. 15 : o - 14 \in 0 .. 3
        /\ \A o \in 16 .. 17 : o - 16 \in 0 .. 3
        /\ 14 .. 17 = (14 .. 15) \cup (16 .. 17)
    OBVIOUS
  <2>5. QED
    BY <2>1, <2>2, <2>3, <2>4
<1>3. \A o \in 18 .. 37 : Reply(r)[o] \subseteq Bits(8)
  <2>1. \A o \in 18 .. 37 : Reply(r)[o] = ByteOf(r.loc, o - 18)
    BY DEF Reply
  <2>2. r.loc \in [0 .. 4 -> SUBSET Words] /\ 4 \in Nat
    BY DEF Input, Axis
  <2>3. \A x \in 0 .. 4 * 4 + 3 : ByteOf(r.loc, x) \subseteq Bits(8)
    BY <2>2, ByteOfRow, Zenon
  <2>4. \A o \in 18 .. 37 : o - 18 \in 0 .. 4 * 4 + 3
    OBVIOUS
  <2>5. QED
    BY <2>1, <2>3, <2>4
<1>4. \A o \in 38 .. 45 : Reply(r)[o] \subseteq Bits(8)
  <2>1. \A o \in 38 .. 45 : Reply(r)[o] = ByteOf(r.enc, o - 38)
    BY DEF Reply
  <2>2. r.enc \in [0 .. 1 -> SUBSET Words] /\ 1 \in Nat
    BY DEF Input
  <2>3. \A x \in 0 .. 4 * 1 + 3 : ByteOf(r.enc, x) \subseteq Bits(8)
    BY <2>2, ByteOfRow, Zenon
  <2>4. \A o \in 38 .. 45 : o - 38 \in 0 .. 4 * 1 + 3
    OBVIOUS
  <2>5. QED
    BY <2>1, <2>3, <2>4
<1>5. 14 .. 45 = (14 .. 17) \cup (18 .. 37) \cup (38 .. 45)
  OBVIOUS
<1>6. QED
  BY <1>1, <1>2, <1>3, <1>4, <1>5

-----------------------------------------------------------------------------
(***************************************************************************)
(* The inductive invariant: the board works on the frame that was sent,    *)
(* the registers below the next one hold the command already, and the      *)
(* reply is the input.                                                     *)
(***************************************************************************)
RegistersBelow(n) ==
  /\ \A a \in Axis : a < n => regs.per[a] = cmd.per[a]
  /\ 5 < n => regs.dir = cmd.dir /\ regs.en = cmd.en
  /\ 6 < n => regs.counter = cmd.counter
  /\ 7 < n => regs.capture = cmd.capture
  /\ 8 < n => regs.gpio = cmd.gpio

CodecInv ==
  /\ stage = "packed" => buf = Pack(cmd)
  /\ stage \in {"received", "answered", "writing"} => rxt = Pack(cmd)
  /\ stage = "answered" => next = 0
  /\ stage = "writing" => next \in 1 .. 8
  /\ stage = "written" => next = 9
  /\ stage \in {"answered", "writing", "written"} =>
       txt = Reply(input) /\ RegistersBelow(next)

Inv == TypeOK /\ CodecInv

LEMMA InitInv == Init => Inv
<1> SUFFICES ASSUME Init PROVE Inv
  OBVIOUS
<1>1. NoCommand \in Command
  BY DEF NoCommand, Command
<1>2. input \in Input
  BY InputsAssumption DEF Init
<1>3. TypeOK
  BY <1>1, <1>2 DEF Init, TypeOK, Stages
<1>4. CodecInv
  BY DEF Init, CodecInv
<1>5. QED
  BY <1>3, <1>4 DEF Inv

(* One register's write: the word the handler puts together is the field   *)
(* of the command.                                                         *)
LEMMA WritesInv == Inv /\ BoardWrites => Inv'
<1> SUFFICES ASSUME Inv, BoardWrites PROVE Inv'
  OBVIOUS
<1> DEFINE w == WordAt(rxt, 14 + 4 * next)
<1>0. /\ regs \in Command /\ cmd \in Command /\ next \in 0 .. 8
      /\ rxt = Pack(cmd) /\ txt = Reply(input) /\ RegistersBelow(next)
      /\ UNCHANGED <<cmd, input, buf, rxt, txt, gpio_in, loc>>
      /\ next' = next + 1
      /\ stage' = IF next = 8 THEN "written" ELSE "writing"
  BY DEF Inv, TypeOK, CodecInv, BoardWrites
<1> DEFINE d == Fields(w).dir
           e == Fields(w).en
           r == [[regs EXCEPT !.dir = d] EXCEPT !.en = e]
<1>1. regs' = CASE next <= 4 -> [regs EXCEPT !.per[next] = w]
                [] next = 5  -> r
                [] next = 6  -> [regs EXCEPT !.counter = w]
                [] next = 7  -> [regs EXCEPT !.capture = w]
                [] OTHER     -> [regs EXCEPT !.gpio = w]
  BY DEF BoardWrites
<1>2. /\ \A n \in Axis : next = n => w = cmd.per[n]
      /\ next = 5 => d = cmd.dir /\ e = cmd.en
      /\ next = 6 => w = cmd.counter
      /\ next = 7 => w = cmd.capture
      /\ next = 8 => w = cmd.gpio
  <2>1. 14 + 4 * 5 = 34 /\ 14 + 4 * 6 = 38 /\ 14 + 4 * 7 = 42 /\ 14 + 4 * 8 = 46
    OBVIOUS
  <2>2. QED
    BY <1>0, <2>1, WordsPacked, FieldsPacked
<1> HIDE DEF w, d, e, r
<1>3. regs' \in Command /\ RegistersBelow(next)'
  <2>0. cmd' = cmd
    BY <1>0
  <2>1. CASE next \in Axis
    <3>1. regs' = [regs EXCEPT !.per[next] = cmd.per[next]]
      BY <2>1, <1>1, <1>2 DEF Axis
    <3>2. QED
      BY <2>0, <2>1, <3>1, <1>0 DEF RegistersBelow, Command, Axis
  <2>2. CASE next = 5
    <3> DEFINE q == [regs EXCEPT !.dir = d]
    <3>1. d = cmd.dir /\ e = cmd.en
      BY <2>2, <1>2
    <3>2. regs' = r
      BY <2>2, <1>1
    <3>3. q \in Command /\ q.dir = d /\ q.per = regs.per
      BY <1>0, <3>1 DEF Command
    <3>4. r = [q EXCEPT !.en = e]
      BY DEF r
    <3> HIDE DEF q
    <3>5. /\ r \in Command
          /\ r.dir = d /\ r.en = e /\ r.per = regs.per
      BY <1>0, <3>1, <3>3, <3>4 DEF Command
    <3>6. QED
      BY <2>0, <2>2, <3>1, <3>2, <3>5, <1>0 DEF RegistersBelow, Axis
  <2>3. CASE next = 6
    <3>1. regs' = [regs EXCEPT !.counter = cmd.counter]
      BY <2>3, <1>1, <1>2
    <3>2. QED
      BY <2>0, <2>3, <3>1, <1>0 DEF RegistersBelow, Command, Axis
  <2>4. CASE next = 7
    <3>1. regs' = [regs EXCEPT !.capture = cmd.capture]
      BY <2>4, <1>1, <1>2
    <3>2. QED
      BY <2>0, <2>4, <3>1, <1>0 DEF RegistersBelow, Command, Axis
  <2>5. CASE next = 8
    <3>1. regs' = [regs EXCEPT !.gpio = cmd.gpio]
      BY <2>5, <1>1, <1>2
    <3>2. QED
      BY <2>0, <2>5, <3>1, <1>0 DEF RegistersBelow, Command, Axis
  <2>6. QED
    BY <1>0, <2>1, <2>2, <2>3, <2>4, <2>5 DEF Axis
<1>4. TypeOK'
  BY <1>0, <1>3 DEF Inv, TypeOK, Stages
<1>5. CodecInv'
  BY <1>0, <1>3 DEF CodecInv
<1>6. QED
  BY <1>4, <1>5 DEF Inv

LEMMA NextInv == Inv /\ [Next]_vars => Inv'
<1> SUFFICES ASSUME Inv, [Next]_vars PROVE Inv'
  OBVIOUS
<1>1. ASSUME NEW c \in Commands, HostPacks(c) PROVE Inv'
  <2>1. c \in Command
    BY CommandsAssumption
  <2>2. /\ DOMAIN Pack(c) = 14 .. 49
        /\ \A o \in 14 .. 49 : Pack(c)[o] \subseteq Bits(8)
    BY <2>1, PackIsBytes
  <2>3. TypeOK'
    BY <1>1, <2>1, <2>2 DEF Inv, TypeOK, HostPacks, Stages
  <2>4. CodecInv'
    BY <1>1 DEF CodecInv, HostPacks
  <2>5. QED
    BY <2>3, <2>4 DEF Inv
<1>2. CASE BoardReceives
  BY <1>2 DEF Inv, TypeOK, CodecInv, BoardReceives, Stages
<1>3. CASE BoardAnswers
  <2>1. /\ DOMAIN Reply(input) = 14 .. 45
        /\ \A o \in 14 .. 45 : Reply(input)[o] \subseteq Bits(8)
    BY ReplyIsBytes DEF Inv, TypeOK
  <2>2. TypeOK'
    BY <1>3, <2>1 DEF Inv, TypeOK, BoardAnswers, Stages
  <2>3. RegistersBelow(0)'
    BY DEF RegistersBelow, Axis
  <2>4. CodecInv'
    BY <1>3, <2>3 DEF Inv, CodecInv, BoardAnswers
  <2>5. QED
    BY <2>2, <2>4 DEF Inv
<1>4. CASE BoardWrites
  BY <1>4, WritesInv
<1>5. CASE HostUnpacks
  <2>0. /\ input \in Input /\ txt = Reply(input)
        /\ input.igpio \subseteq Words /\ input.keys \subseteq Bits(16)
        /\ \A a \in Axis : input.loc[a] \subseteq Words
    BY <1>5 DEF Inv, TypeOK, CodecInv, HostUnpacks, Input
  <2>1. WordAt(txt, 14) \subseteq Words
    <3>1. Shifted(input.keys, 16) \subseteq Words
      BY <2>0 DEF Shifted, Words, Bits
    <3>2. WordAt(txt, 14)
            = (input.igpio \cap (0 .. 15)) \cup Shifted(input.keys, 16)
      BY <2>0, WordsReplied
    <3>3. QED
      BY <2>0, <3>1, <3>2
  <2>2. \A a \in Axis : Flip(LocationAt(txt, a)) \subseteq Words
    <3>1. \A a \in Axis : LocationAt(txt, a) = input.loc[a]
      BY <2>0, WordsReplied
    <3>2. QED
      BY <2>0, <3>1 DEF Flip, Words
  <2>3. TypeOK'
    BY <1>5, <2>1, <2>2 DEF Inv, TypeOK, HostUnpacks, Stages
  <2>4. CodecInv'
    BY <1>5 DEF CodecInv, HostUnpacks
  <2>5. QED
    BY <2>3, <2>4 DEF Inv
<1>6. CASE UNCHANGED vars
  BY <1>6 DEF Inv, TypeOK, CodecInv, RegistersBelow, vars
<1>7. QED
  BY <1>1, <1>2, <1>3, <1>4, <1>5, <1>6 DEF Next

LEMMA SpecInv == Spec => []Inv
  BY InitInv, NextInv, PTL DEF Spec

(* Bytes stay bytes and words stay words on the way there and back         *)
(* (de2.c:472-597, hello_led.c:70-137).                                    *)
THEOREM TypeCorrect == Spec => []TypeOK
<1>1. Inv => TypeOK
  BY DEF Inv
<1>2. QED
  BY <1>1, SpecInv, PTL

(* Whatever was commanded before, and whatever the command: after the      *)
(* ninth write the registers are the command bit for bit                   *)
(* (de2.c:474-543, hello_led.c:128-137, cnc_module.v:66-80).               *)
THEOREM RegistersCorrect == Spec => []RegistersAsCommanded
<1>1. Inv => RegistersAsCommanded
  <2> SUFFICES ASSUME Inv, stage = "written" PROVE regs = cmd
    BY DEF RegistersAsCommanded
  <2>1. /\ regs \in Command /\ cmd \in Command
        /\ next = 9 /\ RegistersBelow(next)
    BY DEF Inv, TypeOK, CodecInv
  <2>2. /\ \A a \in Axis : regs.per[a] = cmd.per[a]
        /\ regs.dir = cmd.dir /\ regs.en = cmd.en
        /\ regs.counter = cmd.counter /\ regs.capture = cmd.capture
        /\ regs.gpio = cmd.gpio
    BY <2>1 DEF RegistersBelow, Axis
  <2>3. regs.per = cmd.per
    BY <2>1, <2>2 DEF Command
  <2>4. QED
    BY <2>1, <2>2, <2>3 DEF Command
<1>2. QED
  BY <1>1, SpecInv, PTL

(* For every input, do_work's pins are what the board read: sixteen        *)
(* inputs, sixteen bits of the pendant, and every axis's location with     *)
(* its top bit flipped (hello_led.c:70-114, de2.c:562-597).                *)
THEOREM PinsCorrect == Spec => PinsAsRead
<1> DEFINE Pins ==
      /\ gpio_in' = (input.igpio \cap (0 .. 15)) \cup Shifted(input.keys, 16)
      /\ \A a \in Axis : 31 \in loc'[a] <=> 31 \notin input.loc[a]
      /\ \A a \in Axis : loc'[a] \ {31} = input.loc[a] \ {31}
<1>1. Inv /\ [Next]_vars => [HostUnpacks => Pins]_vars
  <2> SUFFICES ASSUME Inv, HostUnpacks PROVE Pins
    OBVIOUS
  <2>1. input \in Input /\ txt = Reply(input)
    BY DEF Inv, TypeOK, CodecInv, HostUnpacks
  <2>2. gpio_in' = (input.igpio \cap (0 .. 15)) \cup Shifted(input.keys, 16)
    BY <2>1, WordsReplied DEF HostUnpacks
  <2>3. \A a \in Axis : loc'[a] = Flip(input.loc[a])
    BY <2>1, WordsReplied DEF HostUnpacks
  <2>4. QED
    BY <2>2, <2>3 DEF Flip
<1>2. QED
  BY <1>1, SpecInv, PTL DEF Spec, PinsAsRead
====
