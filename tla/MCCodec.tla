------------------------------ MODULE MCCodec ------------------------------
(* Commands and inputs of at most one bit, and those of all bits.  A       *)
(* command of one bit follows one of all bits or of none, and meets a      *)
(* board whose inputs are all 0.                                           *)
EXTENDS Codec

OneWord(f) == {[f EXCEPT ![a] = {b}] : a \in DOMAIN f, b \in Words}

Full ==
  [per |-> [a \in Axis |-> Words], dir |-> Axis, en |-> Axis,
   counter |-> Words, capture |-> Words, gpio |-> Words]

MCMayFollow(c, d, in) ==
  \/ c \in {NoCommand, Full}
  \/ d \in {NoCommand, Full} /\ in = NoInput

MCCommands ==
  {NoCommand, Full}
    \cup {[NoCommand EXCEPT !.per = p] : p \in OneWord(NoCommand.per)}
    \cup {[NoCommand EXCEPT !.dir = {a}] : a \in Axis}
    \cup {[NoCommand EXCEPT !.en = {a}] : a \in Axis}
    \cup {[NoCommand EXCEPT !.counter = {b}] : b \in Words}
    \cup {[NoCommand EXCEPT !.capture = {b}] : b \in Words}
    \cup {[NoCommand EXCEPT !.gpio = {b}] : b \in Words}

MCInputs ==
  {NoInput}
    \cup {[NoInput EXCEPT !.igpio = {b}] : b \in Words}
    \cup {[NoInput EXCEPT !.keys = {b}] : b \in Bits(16)}
    \cup {[NoInput EXCEPT !.loc = l] : l \in OneWord(NoInput.loc)}
    \cup {[NoInput EXCEPT !.enc = l] : l \in OneWord(NoInput.enc)}
=============================================================================
