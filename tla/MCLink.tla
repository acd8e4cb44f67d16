------------------------------- MODULE MCLink -------------------------------
(* Small instances of Link: the fault budgets of the runs. *)
EXTENDS Link

Budgeted(kinds, n) == [k \in FaultKinds |-> IF k \in kinds THEN n ELSE 0]

(* No fault at all: the lockstep exchange. *)
Clean == {Budgeted({}, 0)}

(* Damaged packets only. *)
Damaged == {Budgeted({"badPacket"}, 1)}

(* Everything that disturbs the exchange without losing a frame. *)
Noisy ==
  Budgeted({"recvFail", "foreignToHost", "foreignToBoard", "badPacket",
            "busError"}, 2)

(* Losses, crashes and restarts, with damage, and enough garbage to find   *)
(* the chip's queue empty after a chip reset.                              *)
Losses ==
  [Budgeted(FaultKinds \ {"foreignToHost", "recvFail"}, 1)
     EXCEPT !["foreignToBoard"] = 2]

(* Losses and board resets, and a driver that is loaded again after them.  *)
Recovery ==
  [Budgeted({"loss", "sendFail", "boardReset"}, 1)
     EXCEPT !["hostRestart"] = 2]

(* Each of the three, on its own. *)
Faulty == {Noisy, Losses, Recovery}
=============================================================================
