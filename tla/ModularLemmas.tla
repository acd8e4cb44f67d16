--------------------------- MODULE ModularLemmas ---------------------------
(***************************************************************************)
(* Facts about x % W for a symbolic register size W, cited by the proofs   *)
(* about the counters of the FPGA.                                         *)
(***************************************************************************)
EXTENDS Integers, TLAPS

(* A residue is an unsigned register value. *)
LEMMA ModRange ==
  ASSUME NEW W \in Nat \ {0}, NEW x \in Int
  PROVE  x % W \in 0 .. W - 1
  BY SMT

(* A register value is its own residue. *)
LEMMA ModIdentity ==
  ASSUME NEW W \in Nat \ {0}, NEW x \in 0 .. W - 1
  PROVE  x % W = x
  BY SMT

(* The residue is the only register value at a multiple of W. *)
LEMMA ModUnique ==
  ASSUME NEW W \in Nat \ {0}, NEW x \in Int, NEW q \in Int,
         NEW y \in 0 .. W - 1, x = q * W + y
  PROVE  x % W = y
  BY SMT

(* Every integer is its residue plus a multiple of W. *)
LEMMA ModDecompose ==
  ASSUME NEW W \in Nat \ {0}, NEW x \in Int
  PROVE  \E q \in Int : x = q * W + (x % W)
<1>1. /\ x \div W \in Int
      /\ x = W * (x \div W) + (x % W)
  BY SMT
<1>2. x = (x \div W) * W + (x % W)
  BY <1>1, SMT
<1>3. QED
  BY <1>1, <1>2

(* Adding to a register and adding to the quantity it represents agree. *)
LEMMA ModAdd ==
  ASSUME NEW W \in Nat \ {0}, NEW x \in Int, NEW k \in Int
  PROVE  ((x % W) + k) % W = (x + k) % W
<1> DEFINE r == x % W
           y == (x + k) % W
<1>1. r \in Int /\ y \in 0 .. W - 1
  BY ModRange
<1>2. PICK q \in Int : x = q * W + r
  BY ModDecompose
<1>3. PICK p \in Int : x + k = p * W + y
  <2>1. x + k \in Int
    OBVIOUS
  <2>2. QED
    BY <2>1, ModDecompose
<1> HIDE DEF r, y
<1>4. r + k = (p - q) * W + y
  BY <1>1, <1>2, <1>3, SMT
<1>5. p - q \in Int /\ r + k \in Int
  BY <1>1, <1>2, <1>3
<1>6. (r + k) % W = y
  BY <1>1, <1>4, <1>5, ModUnique
<1>7. QED
  BY <1>6 DEF r, y

(* A quotient, without the fraction. *)
LEMMA DivFacts ==
  ASSUME NEW p \in Nat, NEW F \in Nat \ {0}
  PROVE  /\ p \div F \in Nat
         /\ F * (p \div F) <= p /\ p < F * (p \div F) + F
  OBVIOUS
=============================================================================
