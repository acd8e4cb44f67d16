-------------------------------- MODULE Link --------------------------------
(***************************************************************************)
(* The servo link: do_work of the HAL driver (de2.c), the Ethernet, the    *)
(* DM9000A network chip and the Ethernet interrupt handler of the Nios II  *)
(* (hello_led.c, DM9000A.C).                                               *)
(*                                                                         *)
(* Every servo period the host sends one command frame and then waits for  *)
(* one frame, without a timeout.  The chip queues what it receives, sets   *)
(* its PRS bit and interrupts the processor; the handler takes ONE frame   *)
(* from the queue, answers it and writes the command into the registers.   *)
(* No frame carries a number: the numbers below are history, and nothing   *)
(* in the code can compare them.                                           *)
(*                                                                         *)
(* What the wire and the chip can do wrong is an action each, with a       *)
(* budget: the specification with a zero budget is the undisturbed link.   *)
(***************************************************************************)
EXTENDS Naturals, Sequences

FaultKinds ==
  {"loss",           \* a frame is lost, in either direction
   "sendFail",       \* send() fails
   "recvFail",       \* recvfrom() fails, say interrupted by a signal
   "foreignToHost",  \* the host's socket receives somebody else's frame
   "foreignToBoard", \* so does the board
   "badPacket",      \* a frame reaches the chip damaged
   "busError",       \* the chip's ready byte is neither 0 nor 1
   "hostRestart",    \* the driver is unloaded and loaded again
   "boardReset"}     \* the board is reset

CONSTANTS
  MaxSent,  \* bound: commands the host sends
  Budgets   \* bound: the sets of faults that may happen together, as counts

ASSUME MaxSentAssumption == MaxSent \in Nat
ASSUME BudgetsAssumption == Budgets \subseteq [FaultKinds -> Nat]

(***************************************************************************)
(* A frame to the board is the number of the command in it, or Foreign if  *)
(* its type is not 80ab.  A frame to the host answers a command and        *)
(* carries what the registers held when it was made: the number of the     *)
(* last command written to them.  Its type is 08ab if seq # 0; Garbage is  *)
(* a 08aa reject or somebody else's frame.                                 *)
(***************************************************************************)
Foreign == 0
Garbage == [seq |-> 0, applied |-> 0]
HostFrame == [seq : Nat, applied : Nat]

VARIABLES
  hostPc,    \* "idle" between calls of do_work, "waiting" in recvfrom
  sent,      \* commands sent
  feedback,  \* the reply the HAL pins show
  sock,      \* frames in the host's socket
  wire,      \* frames on the way to the board
  rxFifo,    \* frames in the chip's receive memory
  prs, imr,  \* the chip's "packet received" bit and its interrupt mask
  cpu,       \* where the Nios II is
  rxt,       \* RXT: the frame received last
  aaa,       \* aaa: 1 if the last ReceivePacket succeeded
  tx,        \* TXT: the frame being transmitted
  applied,   \* the command in the registers, 0 if the axes are disabled
  strokes,   \* history: how often the handler has read the registers
  faults,    \* history: how often each fault has happened
  lost       \* history: 1 if a frame was lost since the driver was loaded

host == <<hostPc, sent, feedback>>
chip == <<rxFifo, prs, imr>>
nios == <<cpu, rxt, aaa, tx, applied, strokes>>
history == <<faults, lost>>
vars == <<hostPc, sent, feedback, sock, wire, rxFifo, prs, imr,
          cpu, rxt, aaa, tx, applied, strokes, faults, lost>>

TypeOK ==
  /\ hostPc \in {"idle", "waiting"}
  /\ sent \in Nat
  /\ feedback \in HostFrame
  /\ sock \in Seq(HostFrame)
  /\ wire \in Seq(Nat)
  /\ rxFifo \in Seq(Nat)
  /\ prs \in {0, 1} /\ imr \in {0, 1}
  /\ cpu \in {"boot", "main", "receive", "check", "transmit", "write"}
  /\ rxt \in Nat
  /\ aaa \in {0, 1}
  /\ tx \in HostFrame
  /\ applied \in Nat
  /\ strokes \in Nat
  /\ faults \in [FaultKinds -> Nat]
  /\ lost \in {0, 1}

(* The board has booted and the driver is loaded. *)
Init ==
  /\ hostPc = "idle" /\ sent = 0 /\ feedback = Garbage /\ sock = <<>>
  /\ wire = <<>>
  /\ rxFifo = <<>> /\ prs = 0 /\ imr = 1
  /\ cpu = "main" /\ rxt = Foreign /\ aaa = 0 /\ tx = Garbage
  /\ applied = 0
  /\ strokes = 0
  /\ faults = [k \in FaultKinds |-> 0] /\ lost = 0

(* Faults that take a frame out of the exchange without an answer. *)
Losing == {"loss", "sendFail", "boardReset"}

(* Fault k happens once more.  A driver that is loaded again starts afresh *)
Fault(k) ==
  /\ faults' = [faults EXCEPT ![k] = @ + 1]
  /\ \E budget \in Budgets : \A j \in FaultKinds : faults'[j] <= budget[j]
  /\ lost' = IF k \in Losing THEN 1 ELSE IF k = "hostRestart" THEN 0 ELSE lost

-----------------------------------------------------------------------------
(* The host: one call of do_work is a send and a receive.                  *)

HostSend ==
  /\ hostPc = "idle" /\ sent < MaxSent
  /\ sent' = sent + 1
  /\ wire' = Append(wire, sent + 1)
  /\ hostPc' = "waiting"
  /\ UNCHANGED <<feedback, sock, chip, nios, history>>

(* send() fails: do_work prints the error and waits for a frame anyway. *)
HostSendFails ==
  /\ hostPc = "idle"
  /\ Fault("sendFail")
  /\ hostPc' = "waiting"
  /\ UNCHANGED <<sent, feedback, sock, wire, chip, nios>>

(* A plausible mistake, for the mutation runs: the frame is looked at but  *)
(* left in the socket.                                                     *)
HostRecvPeek ==
  /\ hostPc = "waiting" /\ sock # <<>>
  /\ feedback' = IF Head(sock).seq # 0 THEN Head(sock) ELSE feedback
  /\ hostPc' = "idle"
  /\ UNCHANGED <<sent, sock, wire, chip, nios, history>>

(* A frame with another type is dropped and do_work returns, without       *)
(* looking for the reply it came before; a reply is taken as the reply.    *)
HostRecv ==
  /\ hostPc = "waiting" /\ sock # <<>>
  /\ sock' = Tail(sock)
  /\ feedback' = IF Head(sock).seq # 0 THEN Head(sock) ELSE feedback
  /\ hostPc' = "idle"
  /\ UNCHANGED <<sent, wire, chip, nios, history>>

HostRecvFails ==
  /\ hostPc = "waiting"
  /\ Fault("recvFail")
  /\ hostPc' = "idle"
  /\ UNCHANGED <<sent, feedback, sock, wire, chip, nios>>

(* A new socket, empty, and new pins. *)
HostRestart ==
  /\ Fault("hostRestart")
  /\ hostPc' = "idle" /\ feedback' = Garbage /\ sock' = <<>>
  /\ UNCHANGED <<sent, wire, chip, nios>>

-----------------------------------------------------------------------------
(* The wire and the receiving side of the chip.                            *)

(* The chip is deaf until the board has booted. *)
Arrive(frame) ==
  IF cpu = "boot" THEN UNCHANGED chip
  ELSE /\ rxFifo' = Append(rxFifo, frame)
       /\ prs' = 1
       /\ UNCHANGED imr

Deliver ==
  /\ wire # <<>>
  /\ wire' = Tail(wire)
  /\ Arrive(Head(wire))
  /\ lost' = IF cpu = "boot" THEN 1 ELSE lost
  /\ UNCHANGED <<host, sock, nios, faults>>

LoseCommand ==
  /\ wire # <<>>
  /\ Fault("loss")
  /\ wire' = Tail(wire)
  /\ UNCHANGED <<host, sock, chip, nios>>

ForeignToBoard ==
  /\ Fault("foreignToBoard")
  /\ Arrive(Foreign)
  /\ UNCHANGED <<host, sock, wire, nios>>

ForeignToHost ==
  /\ Fault("foreignToHost")
  /\ sock' = Append(sock, Garbage)
  /\ UNCHANGED <<host, wire, chip, nios>>

-----------------------------------------------------------------------------
(* The Ethernet interrupt handler.  It runs with interrupts disabled, so   *)
(* nothing else of the Nios II is interleaved with it; the host and the    *)
(* chip are.                                                               *)

(* Read the chip's interrupt status and clear what was read. *)
IsrEnter ==
  /\ cpu = "main" /\ prs = 1 /\ imr = 1
  /\ prs' = 0
  /\ cpu' = "receive"
  /\ UNCHANGED <<host, sock, wire, rxFifo, imr, rxt, aaa, tx, applied,
                 strokes, history>>

(* Plausible mistakes, for the mutation runs: the newest frame is taken    *)
(* instead of the oldest; the handler returns as soon as it finds the      *)
(* packet damaged, with the chip masked, or with it unmasked; a reply      *)
(* leaves the chip masked; garbage is answered with the registers; the     *)
(* reply shows the registers before last, or after the command.            *)
ReceiveNewest ==
  /\ cpu = "receive" /\ rxFifo # <<>>
  /\ rxt' = rxFifo[Len(rxFifo)]
  /\ rxFifo' = SubSeq(rxFifo, 1, Len(rxFifo) - 1)
  /\ aaa' = 1 /\ imr' = 0
  /\ cpu' = "check"
  /\ UNCHANGED <<host, sock, wire, prs, tx, applied, strokes, history>>

ReceiveBadMasked ==
  /\ cpu = "receive" /\ rxFifo # <<>>
  /\ Fault("badPacket")
  /\ rxFifo' = Tail(rxFifo)
  /\ aaa' = 0 /\ imr' = 0
  /\ cpu' = "main"
  /\ UNCHANGED <<host, sock, wire, prs, rxt, tx, applied, strokes>>

ReceiveBadSilent ==
  /\ cpu = "receive" /\ rxFifo # <<>>
  /\ Fault("badPacket")
  /\ rxFifo' = Tail(rxFifo)
  /\ aaa' = 0 /\ imr' = 1
  /\ cpu' = "main"
  /\ UNCHANGED <<host, sock, wire, prs, rxt, tx, applied, strokes>>

RejectReads ==
  /\ cpu = "check" /\ rxt = Foreign
  /\ tx' = Garbage
  /\ strokes' = strokes + 1
  /\ imr' = 0
  /\ cpu' = "transmit"
  /\ UNCHANGED <<host, sock, wire, rxFifo, prs, rxt, aaa, applied, history>>

AnswerBeforeLast ==
  /\ cpu = "check" /\ rxt # Foreign
  /\ tx' = [seq |-> rxt, applied |-> applied - 1]
  /\ strokes' = strokes + 1
  /\ imr' = 0
  /\ cpu' = "transmit"
  /\ UNCHANGED <<host, sock, wire, rxFifo, prs, rxt, aaa, applied, history>>

AnswerAfterWrite ==
  /\ cpu = "check" /\ rxt # Foreign
  /\ tx' = [seq |-> rxt, applied |-> rxt]
  /\ strokes' = strokes + 1
  /\ imr' = 0
  /\ cpu' = "transmit"
  /\ UNCHANGED <<host, sock, wire, rxFifo, prs, rxt, aaa, applied, history>>

TransmittedMasked ==
  /\ cpu = "transmit"
  /\ cpu' = IF tx.seq = 0 THEN "main" ELSE "write"
  /\ UNCHANGED <<host, wire, chip, rxt, aaa, tx, applied, strokes>>

(* ReceivePacket masks the chip, and copies a good packet into RXT; *)
ReceiveGood ==
  /\ cpu = "receive" /\ rxFifo # <<>>
  /\ rxt' = Head(rxFifo)
  /\ rxFifo' = Tail(rxFifo)
  /\ aaa' = 1 /\ imr' = 0
  /\ cpu' = "check"
  /\ UNCHANGED <<host, sock, wire, prs, tx, applied, strokes, history>>

(* dumps a damaged one, leaving RXT as it was; *)
ReceiveBad ==
  /\ cpu = "receive" /\ rxFifo # <<>>
  /\ Fault("badPacket")
  /\ rxFifo' = Tail(rxFifo)
  /\ aaa' = 0 /\ imr' = 0
  /\ cpu' = "check"
  /\ UNCHANGED <<host, sock, wire, prs, rxt, tx, applied, strokes>>

(* finds no packet ready; *)
ReceiveNone ==
  /\ cpu = "receive" /\ rxFifo = <<>>
  /\ aaa' = 0 /\ imr' = 0
  /\ cpu' = "check"
  /\ UNCHANGED <<host, sock, wire, rxFifo, prs, rxt, tx, applied, strokes,
                 history>>

(* or resets the chip, whose receive memory is lost and which is left      *)
(* unmasked.  Whether the chip's reset clears PRS is not for the code to   *)
(* say.  In all four cases the handler goes on: it never looks at aaa.     *)
ReceiveBusError ==
  /\ cpu = "receive"
  /\ Fault("busError")
  /\ rxFifo' = <<>>
  /\ prs' \in {0, prs}
  /\ aaa' = 0 /\ imr' = 1
  /\ cpu' = "check"
  /\ UNCHANGED <<host, sock, wire, rxt, tx, applied, strokes>>

(* RXT does not hold a command: a 14-byte frame of type 08aa. *)
Reject ==
  /\ cpu = "check" /\ rxt = Foreign
  /\ tx' = Garbage
  /\ imr' = 0
  /\ cpu' = "transmit"
  /\ UNCHANGED <<host, sock, wire, rxFifo, prs, rxt, aaa, applied, strokes,
                 history>>

(* RXT holds a command: read the registers, which strokes the watchdog,    *)
(* into TXT; the command itself has not been written yet.                  *)
Answer ==
  /\ cpu = "check" /\ rxt # Foreign
  /\ tx' = [seq |-> rxt, applied |-> applied]
  /\ strokes' = strokes + 1
  /\ imr' = 0
  /\ cpu' = "transmit"
  /\ UNCHANGED <<host, sock, wire, rxFifo, prs, rxt, aaa, applied, history>>

(* TransmitPacket returns, unmasking the chip, when the frame is out; a    *)
(* reply is followed by the register writes, a reject by the return.       *)
Transmitted ==
  /\ cpu = "transmit"
  /\ imr' = 1
  /\ cpu' = IF tx.seq = 0 THEN "main" ELSE "write"
  /\ UNCHANGED <<host, wire, rxFifo, prs, rxt, aaa, tx, applied, strokes>>

TxDone ==
  /\ Transmitted
  /\ sock' = Append(sock, tx)
  /\ UNCHANGED history

TxLost ==
  /\ Transmitted
  /\ Fault("loss")
  /\ UNCHANGED sock

(* Registers 0 to 8 take the command in RXT; the handler returns. *)
WriteRegs ==
  /\ cpu = "write"
  /\ applied' = rxt
  /\ cpu' = "main"
  /\ UNCHANGED <<host, sock, wire, chip, rxt, aaa, tx, strokes, history>>

-----------------------------------------------------------------------------
(* The reset key, and main up to its loop: disable the step generators,    *)
(* initialise the chip, install the handler.                               *)
BoardReset ==
  /\ Fault("boardReset")
  /\ rxFifo' = <<>> /\ prs' = 0 /\ imr' = 0
  /\ cpu' = "boot" /\ rxt' = Foreign /\ aaa' = 0 /\ tx' = Garbage
  /\ applied' = 0
  /\ UNCHANGED <<host, sock, wire, strokes>>

(* A plausible mistake, for the mutation runs: the mask is not set again.  *)
BootMasked ==
  /\ cpu = "boot"
  /\ cpu' = "main"
  /\ UNCHANGED <<host, sock, wire, chip, rxt, aaa, tx, applied, strokes, history>>

Boot ==
  /\ cpu = "boot"
  /\ imr' = 1
  /\ cpu' = "main"
  /\ UNCHANGED <<host, sock, wire, rxFifo, prs, rxt, aaa, tx, applied,
                 strokes, history>>

-----------------------------------------------------------------------------
HostStep == HostSend \/ HostSendFails \/ HostRecv \/ HostRecvFails \/ HostRestart
WireStep == Deliver \/ LoseCommand \/ ForeignToBoard \/ ForeignToHost
Receive == ReceiveGood \/ ReceiveBad \/ ReceiveNone \/ ReceiveBusError
Handler == IsrEnter \/ Receive \/ Reject \/ Answer \/ TxDone \/ TxLost \/ WriteRegs

Next == HostStep \/ WireStep \/ Handler \/ BoardReset \/ Boot

Spec == Init /\ [][Next]_vars

(* The servo thread runs do_work every period, frames on the wire arrive   *)
(* or are lost, the chip finishes its transmissions and the processor      *)
(* runs.  No fault is owed.                                                *)
Fairness ==
  /\ WF_vars(HostSend) /\ WF_vars(HostRecv) /\ WF_vars(Deliver)
  /\ WF_vars(IsrEnter) /\ WF_vars(ReceiveGood \/ ReceiveNone)
  /\ WF_vars(Reject) /\ WF_vars(Answer) /\ WF_vars(TxDone)
  /\ WF_vars(WriteRegs) /\ WF_vars(Boot)

FairSpec == Spec /\ Fairness

-----------------------------------------------------------------------------
Happened(kinds) == \E k \in kinds : faults[k] > 0

(* The last command answered, until a reset: the handler answers a command *)
(* before it writes it.                                                    *)
Answered == IF cpu = "write" THEN rxt ELSE applied

(***************************************************************************)
(* Outside the handler the chip may interrupt: ReceivePacket masks it and  *)
(* leaves it to TransmitPacket to unmask it (DM9000A.C:151, 134, 226-227), *)
(* so every path through the handler must transmit, the paths of a bad     *)
(* packet and of garbage included.                                         *)
(***************************************************************************)
InterruptsReenabled == cpu = "main" => imr = 1

(***************************************************************************)
(* A host in recvfrom, which has no timeout (de2.c:549), has a frame       *)
(* coming to it, unless one was lost since the driver was loaded: a frame  *)
(* is in its socket, or its command is on the wire, or the chip has an     *)
(* interrupt pending, or the handler has yet to transmit.  Damaged and     *)
(* foreign frames, frames left behind in the chip's queue, chip resets and *)
(* interrupted receives do not break this, and loading the driver again    *)
(* repairs it, whatever is still under way from its former life.           *)
(***************************************************************************)
NoOrphanWait ==
  hostPc = "waiting" /\ lost = 0
    => \/ sock # <<>> \/ wire # <<>> \/ prs = 1
       \/ cpu \in {"receive", "check", "transmit"}

(* The same as a promise: the servo thread gets out of recvfrom, whatever  *)
(* was lost before the driver was loaded (de2.c:545-554).                  *)
HostUnblocks ==
  (hostPc = "waiting" /\ lost = 0) ~> (hostPc = "idle" \/ lost = 1)

(***************************************************************************)
(* The registers never go back to an older command, whatever was damaged,  *)
(* left in the queue or answered twice, until the board is reset.          *)
(***************************************************************************)
AppliedMonotone == [][applied' >= applied \/ cpu' = "boot"]_vars

(***************************************************************************)
(* Once the host has seen a command answered, the registers never hold an  *)
(* older one: that command or a later, or the zeros of a board reset.  A   *)
(* reset in the middle of an exchange, after which replies from before it  *)
(* still reach the host and nobody tells it of the zeros, does not bring a *)
(* command from before it back; nor does a driver that is loaded again, a  *)
(* lost frame or a chip reset.                                             *)
(***************************************************************************)
RegistersNotBehind == Answered = 0 \/ Answered >= feedback.seq

(***************************************************************************)
(* The pins never go back to an older reply, nor to an older state of the  *)
(* registers, within a life of the driver and of the board.                *)
(***************************************************************************)
FeedbackMonotone ==
  [][~Happened({"hostRestart", "boardReset"})'
       => /\ feedback'.seq >= feedback.seq
          /\ feedback'.applied >= feedback.applied]_vars

(***************************************************************************)
(* Replies carry no number, so a frame too many in the socket makes every  *)
(* later reply late for good.  The pins are never further behind the       *)
(* commands than the faults that can cause it have happened; the answer to *)
(* a command of the driver's former life counts as one.                    *)
(***************************************************************************)
Delays ==
  faults["recvFail"] + faults["foreignToHost"] + faults["foreignToBoard"]
    + faults["badPacket"] + faults["hostRestart"]

LagBounded ==
  /\ hostPc = "idle" /\ ~Happened({"busError", "boardReset"})
  /\ feedback.seq # 0 \/ ~Happened({"hostRestart"})
  => sent <= feedback.seq + Delays

(***************************************************************************)
(* Only commands keep the watchdog happy.  Garbage does not; but every     *)
(* damaged packet repeats the last command, and strokes the watchdog, on   *)
(* behalf of a host that may be gone.  So does every chip reset, and once  *)
(* more if the interrupt of a frame it dropped is still pending.           *)
(***************************************************************************)
WatchdogNeedsHost ==
  strokes <= sent + faults["badPacket"] + 2 * faults["busError"]

(***************************************************************************)
(* "write regs if this is correct" (hello_led.c:124): the registers are    *)
(* written only with a packet that was received correctly.                 *)
(***************************************************************************)
WrittenIfCorrect == [][WriteRegs => aaa = 1]_vars

-----------------------------------------------------------------------------
(***************************************************************************)
(* Without faults the link is the lockstep of ServoLoop: one command per   *)
(* period, answered, observed and applied in order, none skipped, and the  *)
(* position the host reads is the one before the command it answers.       *)
(***************************************************************************)
Lockstep == INSTANCE ServoLoop
              WITH issued <- sent, answered <- Answered,
                   observed <- feedback.seq

ImplementsServoLoop == Lockstep!Spec

(* The pins show the registers as the command before the answered one left *)
(* them: the handler transmits before it writes (hello_led.c:122, 128).    *)
FeedbackOneBehind ==
  feedback.seq > 0 => feedback.applied = feedback.seq - 1
=============================================================================
