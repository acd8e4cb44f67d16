------------------------------- MODULE RxPort -------------------------------
(***************************************************************************)
(* What the receiving half of the serial port promises the program: each   *)
(* character that the line carries appears in RXDATA, with RRDY set, until *)
(* the program reads it or the next one replaces it.  A character that     *)
(* arrives on the very clock of a read is in RXDATA but not announced.     *)
(***************************************************************************)
EXTENDS Sequences

CONSTANT Char

VARIABLES
  line,    \* characters being sent
  rxdata,  \* RXDATA
  rrdy,    \* RRDY
  roe      \* ROE, the overrun bit

vars == <<line, rxdata, rrdy, roe>>

TypeOK ==
  /\ line \in Seq(Char) /\ rxdata \in Char
  /\ rrdy \in {0, 1} /\ roe \in {0, 1}

Init == line = <<>> /\ rxdata \in Char /\ rrdy = 0 /\ roe = 0

(* In each step the program may read RXDATA or clear the status bits, and  *)
(* the other end may begin to send: s is <<>> or <<c>>.                    *)
Bus == {"idle", "read", "clear"}
Sent == {<<>>} \cup {<<c>> : c \in Char}

Arrive(op, s) ==
  /\ line # <<>>
  /\ rxdata' = Head(line)
  /\ line' = Tail(line) \o s
  /\ rrdy' = IF op = "read" THEN 0 ELSE 1
  /\ roe' = IF op = "clear" THEN 0 ELSE IF rrdy = 1 THEN 1 ELSE roe

Wait(op, s) ==
  /\ line' = line \o s
  /\ rrdy' = IF op = "read" THEN 0 ELSE rrdy
  /\ roe' = IF op = "clear" THEN 0 ELSE roe
  /\ UNCHANGED rxdata

Next == \E op \in Bus, s \in Sent : Arrive(op, s) \/ Wait(op, s)

Spec == Init /\ [][Next]_vars
=============================================================================
