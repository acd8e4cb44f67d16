------------------------------ MODULE ServoLoop ------------------------------
(***************************************************************************)
(* What an undisturbed servo link promises, without frames, queues or      *)
(* interrupts: a lockstep.  A command is issued, answered from the         *)
(* registers as the previous command left them, observed by the host and   *)
(* applied to the registers; the host issues the next one only when it     *)
(* has observed the answer to this one, and the board answers the next     *)
(* one only when it has applied this one.                                  *)
(***************************************************************************)
EXTENDS Naturals

CONSTANT MaxSent    \* bound: commands issued

VARIABLES
  issued,     \* the last command the host has sent
  answered,   \* the last command the board has answered
  observed,   \* the last command whose answer the HAL pins show
  applied     \* the last command written to the registers

vars == <<issued, answered, observed, applied>>

Init == issued = 0 /\ answered = 0 /\ observed = 0 /\ applied = 0

Issue ==
  /\ observed = issued /\ issued < MaxSent
  /\ issued' = issued + 1
  /\ UNCHANGED <<answered, observed, applied>>

Answer ==
  /\ answered < issued /\ applied = answered
  /\ answered' = answered + 1
  /\ UNCHANGED <<issued, observed, applied>>

Observe ==
  /\ observed < answered
  /\ observed' = answered
  /\ UNCHANGED <<issued, answered, applied>>

Apply ==
  /\ applied < answered
  /\ applied' = answered
  /\ UNCHANGED <<issued, answered, observed>>

Next == Issue \/ Answer \/ Observe \/ Apply

Spec ==
  /\ Init /\ [][Next]_vars
  /\ WF_vars(Issue) /\ WF_vars(Answer) /\ WF_vars(Observe) /\ WF_vars(Apply)
=============================================================================
