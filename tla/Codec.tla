------------------------------- MODULE Codec -------------------------------
(***************************************************************************)
(* What the bytes of a command and of a reply mean on either side of the   *)
(* wire: do_work packs a command into buf (de2.c:472-543), the Ethernet    *)
(* handler puts RXT together again and writes nine registers               *)
(* (hello_led.c:127-137), of which cnc_module.v cuts its fields; on the    *)
(* way back cnc_module.v's status words go through TXT                     *)
(* (hello_led.c:70-120) into HAL pins (de2.c:562-597).                     *)
(*                                                                         *)
(* A word is the set of its bits that are 1, so that a shift is an         *)
(* addition and a mask an intersection.  No byte depends on two bits of    *)
(* one word, hence words of at most one bit, and of all bits, tell every   *)
(* two layouts apart.                                                      *)
(***************************************************************************)
EXTENDS Integers

CONSTANTS
  Commands, Inputs,     \* what the host commands, what the board sees
  MayFollow(_, _, _)    \* bound: may it command c after d, with input in?

Axis == 0 .. 4
Words == 0 .. 31              \* the bits of a word
Bits(n) == 0 .. n - 1

(* Byte k of word w, byte o of a row of words, and the word whose first    *)
(* byte is f[o].                                                           *)
Byte(w, k) == {b - 8 * k : b \in w \cap (8 * k .. 8 * k + 7)}
ByteOf(words, o) == Byte(words[o \div 4], o % 4)
WordAt(f, o) == UNION {{8 * k + b : b \in f[o + k]} : k \in 0 .. 3}
Shifted(w, n) == {b + n : b \in w}

Command ==
  [per : [Axis -> SUBSET Words], dir : SUBSET Axis, en : SUBSET Axis,
   counter : SUBSET Words, capture : SUBSET Words, gpio : SUBSET Words]

Input ==
  [igpio : SUBSET Words, keys : SUBSET Bits(16),
   loc : [Axis -> SUBSET Words], enc : [0 .. 1 -> SUBSET Words]]

ASSUME CommandsAssumption == Commands \subseteq Command
ASSUME InputsAssumption == Inputs \subseteq Input

NoCommand ==
  [per |-> [a \in Axis |-> {}], dir |-> {}, en |-> {},
   counter |-> {}, capture |-> {}, gpio |-> {}]

NoInput ==
  [igpio |-> {}, keys |-> {}, loc |-> [a \in Axis |-> {}],
   enc |-> [e \in 0 .. 1 |-> {}]]

VARIABLES
  cmd, input,       \* what do_work sends, what the handler reads
  stage,            \* how far the exchange is
  buf,              \* bytes 14 to 49 of the host's buffer
  rxt,              \* and of the board's
  txt,              \* bytes 14 to 45 of the reply
  next,             \* the register the handler writes next
  regs,             \* sg_per, sg_dirs, sg_ens, pwm_counter, pwm_capture, ogpio
  gpio_in, loc      \* bits that do_work sets its pins from

vars == <<cmd, input, stage, buf, rxt, txt, next, regs, gpio_in, loc>>

Stages == {"idle", "packed", "received", "answered", "writing", "written"}

TypeOK ==
  /\ cmd \in Command /\ input \in Input
  /\ stage \in Stages /\ next \in 0 .. 9
  /\ \A f \in {buf, rxt} :
       DOMAIN f = 14 .. 49 /\ \A o \in 14 .. 49 : f[o] \subseteq Bits(8)
  /\ DOMAIN txt = 14 .. 45 /\ \A o \in 14 .. 45 : txt[o] \subseteq Bits(8)
  /\ regs \in Command
  /\ gpio_in \subseteq Words /\ \A a \in Axis : loc[a] \subseteq Words

Init ==
  /\ cmd = NoCommand /\ input \in Inputs
  /\ stage = "idle" /\ next = 0
  /\ buf = [o \in 14 .. 49 |-> {}] /\ rxt = buf
  /\ txt = [o \in 14 .. 45 |-> {}]
  /\ regs = NoCommand
  /\ gpio_in = {} /\ loc = [a \in Axis |-> {}]

-----------------------------------------------------------------------------
(* Plausible mistakes, for the mutation runs: the enables of axes 3 and 4  *)
(* are left in byte 34, which has no room for them; the enables are cut    *)
(* from the wrong place; the pendant's bytes are swapped.                  *)
PackWide(c) ==
  [o \in 14 .. 49 |->
     CASE o <= 33        -> ByteOf(c.per, o - 14)
       [] o = 34         -> c.dir \cup Shifted(c.en, 5)
       [] o \in 38 .. 41 -> Byte(c.counter, o - 38)
       [] o \in 42 .. 45 -> Byte(c.capture, o - 42)
       [] o \in 46 .. 49 -> Byte(c.gpio, o - 46)
       [] OTHER          -> {}]

FieldsOfByte(w) == [dir |-> w \cap Axis, en |-> Shifted(w \cap (4 .. 8), -4)]

AnswerSwapped(r) ==
  [o \in 14 .. 45 |->
     CASE o \in 14 .. 15 -> Byte(r.igpio, o - 14)
       [] o \in 16 .. 17 -> Byte(r.keys, 17 - o)
       [] o \in 18 .. 37 -> ByteOf(r.loc, o - 18)
       [] OTHER          -> ByteOf(r.enc, o - 38)]

(* do_work: five periods, directions and enables in two bytes, two spare   *)
(* bytes that stay 0, pulse width and outputs.                             *)
Pack(c) ==
  [o \in 14 .. 49 |->
     CASE o <= 33        -> ByteOf(c.per, o - 14)
       [] o = 34         -> c.dir \cup Shifted(c.en \cap (0 .. 2), 5)
       [] o = 35         -> Shifted(c.en \cap (3 .. 4), -3)
       [] o \in 38 .. 41 -> Byte(c.counter, o - 38)
       [] o \in 42 .. 45 -> Byte(c.capture, o - 42)
       [] o \in 46 .. 49 -> Byte(c.gpio, o - 46)
       [] OTHER          -> {}]

(* cnc_module.v's fields of register 5. *)
Fields(w) == [dir |-> w \cap Axis, en |-> Shifted(w \cap (5 .. 9), -5)]

(* The handler's reply: the low half of igpio, the two bytes of the        *)
(* pendant, five locations and two counts.                                 *)
Reply(r) ==
  [o \in 14 .. 45 |->
     CASE o \in 14 .. 15 -> Byte(r.igpio, o - 14)
       [] o \in 16 .. 17 -> Byte(r.keys, o - 16)
       [] o \in 18 .. 37 -> ByteOf(r.loc, o - 18)
       [] OTHER          -> ByteOf(r.enc, o - 38)]

(* do_work's reading of it; subtracting 80000000 flips the top bit.        *)
LocationAt(f, a) == WordAt(f, 18 + 4 * a)
Flip(w) == (w \ {31}) \cup ({31} \ w)

-----------------------------------------------------------------------------
HostPacks(c) ==
  /\ stage = "idle"
  /\ cmd' = c /\ buf' = Pack(c)
  /\ stage' = "packed"
  /\ UNCHANGED <<input, rxt, txt, next, regs, gpio_in, loc>>

BoardReceives ==
  /\ stage = "packed"
  /\ rxt' = buf
  /\ stage' = "received"
  /\ UNCHANGED <<cmd, input, buf, txt, next, regs, gpio_in, loc>>

BoardAnswers ==
  /\ stage = "received"
  /\ txt' = Reply(input)
  /\ next' = 0
  /\ stage' = "answered"
  /\ UNCHANGED <<cmd, input, buf, rxt, regs, gpio_in, loc>>

(* The word for register n, and what cnc_module.v does with it. *)
BoardWrites ==
  LET w == WordAt(rxt, 14 + 4 * next) IN
  /\ stage \in {"answered", "writing"} /\ next <= 8
  /\ regs' = CASE next <= 4 -> [regs EXCEPT !.per[next] = w]
               [] next = 5  -> [regs EXCEPT !.dir = Fields(w).dir,
                                            !.en = Fields(w).en]
               [] next = 6  -> [regs EXCEPT !.counter = w]
               [] next = 7  -> [regs EXCEPT !.capture = w]
               [] OTHER     -> [regs EXCEPT !.gpio = w]
  /\ next' = next + 1
  /\ stage' = IF next = 8 THEN "written" ELSE "writing"
  /\ UNCHANGED <<cmd, input, buf, rxt, txt, gpio_in, loc>>

HostUnpacks ==
  /\ stage = "written"
  /\ gpio_in' = WordAt(txt, 14)
  /\ loc' = [a \in Axis |-> Flip(LocationAt(txt, a))]
  /\ stage' = "idle"
  /\ UNCHANGED <<cmd, input, buf, rxt, txt, next, regs>>

Next ==
  \/ \E c \in Commands : MayFollow(c, cmd, input) /\ HostPacks(c)
  \/ BoardReceives \/ BoardAnswers \/ BoardWrites \/ HostUnpacks

Spec == Init /\ [][Next]_vars

-----------------------------------------------------------------------------
(***************************************************************************)
(* Once the last register is written the registers are the command, bit    *)
(* for bit and whatever they held before: the offsets, shifts and masks of *)
(* three files in two languages agree (de2.c:474-543, hello_led.c:128-137, *)
(* cnc_module.v:66-80).                                                    *)
(***************************************************************************)
RegistersAsCommanded == stage = "written" => regs = cmd

(***************************************************************************)
(* The host's pins are the board's inputs: sixteen of igpio, sixteen of    *)
(* the pendant, and each axis's location as a two's complement number      *)
(* (hello_led.c:70-114, de2.c:562-597).                                    *)
(***************************************************************************)
PinsAsRead ==
  [][HostUnpacks =>
       /\ gpio_in' = (input.igpio \cap (0 .. 15)) \cup Shifted(input.keys, 16)
       /\ \A a \in Axis : 31 \in loc'[a] <=> 31 \notin input.loc[a]
       /\ \A a \in Axis : loc'[a] \ {31} = input.loc[a] \ {31}]_vars
=============================================================================
