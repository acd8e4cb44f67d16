------------------------------- MODULE TxPort -------------------------------
(***************************************************************************)
(* What the transmitting half of the serial port promises the program: one *)
(* character waits in a holding register while another is on the line.  A  *)
(* character written while one waits takes its place; the one on the line  *)
(* is not disturbed.  Every character that leaves the holding register for *)
(* the line is heard at the other end, in order.                           *)
(***************************************************************************)
EXTENDS Sequences

CONSTANTS
  Char,
  NoChar  \* no element of Char

VARIABLES
  hold,     \* the character that waits, or NoChar
  sending,  \* the character on the line, or NoChar
  heard     \* what the other end has received

vars == <<hold, sending, heard>>

TypeOK ==
  /\ hold \in Char \cup {NoChar} /\ sending \in Char \cup {NoChar}
  /\ heard \in Seq(Char)

Init == hold = NoChar /\ sending = NoChar /\ heard = <<>>

(* In each action w is what the program writes meanwhile, or NoChar.       *)
Or(w, c) == IF w # NoChar THEN w ELSE c

Write(w) ==
  /\ w # NoChar
  /\ hold' = w
  /\ UNCHANGED <<sending, heard>>

Load(w) ==
  /\ hold # NoChar /\ sending = NoChar
  /\ sending' = hold
  /\ hold' = w
  /\ UNCHANGED heard

Deliver(w) ==
  /\ sending # NoChar
  /\ heard' = Append(heard, sending)
  /\ sending' = NoChar
  /\ hold' = Or(w, hold)

Next == \E w \in Char \cup {NoChar} : Write(w) \/ Load(w) \/ Deliver(w)

(* The line moves on by itself; the program owes nothing. *)
Loaded == \E w \in Char \cup {NoChar} : Load(w)
Delivered == \E w \in Char \cup {NoChar} : Deliver(w)

Spec == Init /\ [][Next]_vars /\ WF_vars(Loaded) /\ WF_vars(Delivered)
=============================================================================
