----------------------------- MODULE LinkProofs -----------------------------
(***************************************************************************)
(* Proofs about Link for every bound on the commands and every fault       *)
(* budget: any number of any faults, in any order.                         *)
(***************************************************************************)
EXTENDS Link, Integers, SequenceTheorems, TLAPS

(* The queue operations used by the actions, on frames of any type. *)
LEMMA QueueOps ==
  ASSUME NEW S, NEW q \in Seq(S)
  PROVE  /\ \A e \in S : Append(q, e) \in Seq(S) /\ Append(q, e) # <<>>
         /\ q # <<>> => Head(q) \in S /\ Tail(q) \in Seq(S)
  BY AppendProperties, HeadTailProperties

LEMMA FaultType ==
  ASSUME TypeOK, NEW k \in FaultKinds, Fault(k)
  PROVE  /\ faults' \in [FaultKinds -> Nat]
         /\ lost' \in {0, 1} /\ (k \in Losing => lost' = 1)
  BY DEF TypeOK, Fault

LEMMA TypeInductive == TypeOK /\ [Next]_vars => TypeOK'
<1> SUFFICES ASSUME TypeOK, [Next]_vars PROVE TypeOK'
  OBVIOUS
<1>0. Garbage \in HostFrame /\ Foreign \in Nat
  BY DEF Garbage, Foreign, HostFrame
<1>k. \A k \in FaultKinds :
        Fault(k) => faults' \in [FaultKinds -> Nat] /\ lost' \in {0, 1}
  BY FaultType
<1> USE <1>0 DEF TypeOK, host, chip, nios, history
<1>1. CASE HostSend
  BY <1>1, QueueOps DEF HostSend
<1>2. CASE HostSendFails
  BY <1>2, <1>k DEF HostSendFails, FaultKinds
<1>3. CASE HostRecv
  BY <1>3, QueueOps DEF HostRecv
<1>4. CASE HostRecvFails
  BY <1>4, <1>k DEF HostRecvFails, FaultKinds
<1>5. CASE HostRestart
  BY <1>5, <1>k DEF HostRestart, FaultKinds
<1>6. CASE Deliver
  BY <1>6, QueueOps DEF Deliver, Arrive
<1>7. CASE LoseCommand
  BY <1>7, <1>k, QueueOps DEF LoseCommand, FaultKinds
<1>8. CASE ForeignToBoard
  <2>1. faults' \in [FaultKinds -> Nat] /\ lost' \in {0, 1}
    BY <1>8, <1>k DEF ForeignToBoard, FaultKinds
  <2>2. rxFifo' \in Seq(Nat) /\ prs' \in {0, 1} /\ imr' = imr
    BY <1>8, QueueOps DEF ForeignToBoard, Arrive
  <2>3. QED
    BY <1>8, <2>1, <2>2 DEF ForeignToBoard
<1>9. CASE ForeignToHost
  BY <1>9, <1>k, QueueOps DEF ForeignToHost, FaultKinds
<1>10. CASE IsrEnter
  BY <1>10 DEF IsrEnter
<1>11. CASE ReceiveGood
  BY <1>11, QueueOps DEF ReceiveGood
<1>12. CASE ReceiveBad
  BY <1>12, <1>k, QueueOps DEF ReceiveBad, FaultKinds
<1>13. CASE ReceiveNone
  BY <1>13 DEF ReceiveNone
<1>14. CASE ReceiveBusError
  BY <1>14, <1>k DEF ReceiveBusError, FaultKinds
<1>15. CASE Reject
  BY <1>15 DEF Reject
<1>16. CASE Answer
  BY <1>16 DEF Answer, HostFrame
<1>17. CASE TxDone
  BY <1>17, QueueOps DEF TxDone, Transmitted
<1>18. CASE TxLost
  BY <1>18, <1>k DEF TxLost, Transmitted, FaultKinds
<1>19. CASE WriteRegs
  BY <1>19 DEF WriteRegs
<1>20. CASE BoardReset
  BY <1>20, <1>k DEF BoardReset, FaultKinds
<1>21. CASE Boot
  BY <1>21 DEF Boot
<1>22. CASE UNCHANGED vars
  BY <1>22 DEF vars
<1>23. QED
  BY <1>1, <1>2, <1>3, <1>4, <1>5, <1>6, <1>7, <1>8, <1>9, <1>10, <1>11,
     <1>12, <1>13, <1>14, <1>15, <1>16, <1>17, <1>18, <1>19, <1>20, <1>21,
     <1>22
  DEF Next, HostStep, WireStep, Receive, Handler

(* The queues hold frames, the chip's bits are bits and the counts are     *)
(* naturals, along every behaviour.                                        *)
THEOREM TypeCorrect == Spec => []TypeOK
<1>1. Init => TypeOK
  BY DEF Init, TypeOK, Garbage, Foreign, HostFrame
<1>2. QED
  BY <1>1, TypeInductive, PTL DEF Spec

-----------------------------------------------------------------------------
(***************************************************************************)
(* InterruptsReenabled is not inductive: the handler returns to main from  *)
(* "write", which must have found the chip unmasked already.               *)
(***************************************************************************)
Unmasked == cpu \in {"main", "write"} => imr = 1

LEMMA UnmaskedInductive == Unmasked /\ [Next]_vars => Unmasked'
<1> SUFFICES ASSUME Unmasked, [Next]_vars PROVE Unmasked'
  OBVIOUS
<1> USE DEF Unmasked, host, chip, nios, history
<1>1. CASE HostStep
  BY <1>1 DEF HostStep, HostSend, HostSendFails, HostRecv, HostRecvFails,
              HostRestart
<1>2. CASE WireStep
  BY <1>2 DEF WireStep, Deliver, LoseCommand, ForeignToBoard, ForeignToHost,
              Arrive
<1>3. CASE IsrEnter
  BY <1>3 DEF IsrEnter
<1>4. CASE Receive
  BY <1>4 DEF Receive, ReceiveGood, ReceiveBad, ReceiveNone, ReceiveBusError
<1>5. CASE Reject \/ Answer
  BY <1>5 DEF Reject, Answer
<1>6. CASE TxDone \/ TxLost
  BY <1>6 DEF TxDone, TxLost, Transmitted
<1>7. CASE WriteRegs
  BY <1>7 DEF WriteRegs
<1>8. CASE BoardReset \/ Boot
  BY <1>8 DEF BoardReset, Boot
<1>9. CASE UNCHANGED vars
  BY <1>9 DEF vars
<1>10. QED
  BY <1>1, <1>2, <1>3, <1>4, <1>5, <1>6, <1>7, <1>8, <1>9 DEF Next, Handler

(* No sequence of frames, good, damaged or foreign, and no chip reset      *)
(* leaves the processor in its main loop with the chip masked.             *)
THEOREM InterruptsCorrect == Spec => []InterruptsReenabled
<1>1. Init => Unmasked
  BY DEF Init, Unmasked
<1>2. Unmasked => InterruptsReenabled
  BY DEF Unmasked, InterruptsReenabled
<1>3. QED
  BY <1>1, <1>2, UnmaskedInductive, PTL DEF Spec

-----------------------------------------------------------------------------
(***************************************************************************)
(* NoOrphanWait is inductive next to the types, for the reason the link    *)
(* survives so much: each run of the handler sends exactly one frame,      *)
(* whatever it received, and the host wants exactly one frame, whatever it *)
(* is.  The two queues may be out of step, yet none of them dries up.      *)
(***************************************************************************)
LinkInv == TypeOK /\ NoOrphanWait

LEMMA NoOrphanInductive == LinkInv /\ [Next]_vars => NoOrphanWait'
<1> SUFFICES ASSUME LinkInv, [Next]_vars, hostPc' = "waiting", lost' = 0
             PROVE  \/ sock' # <<>> \/ wire' # <<>> \/ prs' = 1
                    \/ cpu' \in {"receive", "check", "transmit"}
  BY DEF NoOrphanWait
<1>0. TypeOK /\ TypeOK'
  BY TypeInductive DEF LinkInv
<1>1. Losing \subseteq FaultKinds
  BY DEF Losing, FaultKinds
<1>2. ASSUME NEW k \in Losing PROVE ~Fault(k)
  BY <1>0, <1>1, <1>2, FaultType
<1>3. \A k \in FaultKinds : Fault(k) /\ k # "hostRestart" => lost = 0
  BY DEF Fault, Losing
<1> USE DEF host, chip, nios, history
<1>5. CASE HostSend
  BY <1>0, <1>5, QueueOps DEF HostSend, TypeOK
<1>6. CASE HostSendFails \/ LoseCommand \/ TxLost \/ BoardReset
  BY <1>2, <1>6 DEF HostSendFails, LoseCommand, TxLost, BoardReset, Losing
<1>7. CASE HostRecv \/ HostRecvFails \/ HostRestart
  BY <1>7 DEF HostRecv, HostRecvFails, HostRestart
<1>8. CASE Deliver
  <2>1. cpu # "boot"
    BY <1>8 DEF Deliver
  <2>2. QED
    BY <1>8, <2>1 DEF Deliver, Arrive
<1>9. CASE ForeignToBoard
  <2>1. lost = 0
    BY <1>3, <1>9 DEF ForeignToBoard, FaultKinds
  <2>2. CASE cpu = "boot"
    BY <1>9, <2>1, <2>2 DEF ForeignToBoard, Arrive, LinkInv, NoOrphanWait
  <2>3. CASE cpu # "boot"
    BY <1>9, <2>3 DEF ForeignToBoard, Arrive
  <2>4. QED
    BY <2>2, <2>3
<1>10. CASE ForeignToHost \/ TxDone
  <2>1. Garbage \in HostFrame /\ tx \in HostFrame /\ sock \in Seq(HostFrame)
    BY <1>0 DEF TypeOK, Garbage, HostFrame
  <2>2. sock' # <<>>
    BY <1>10, <2>1, QueueOps DEF ForeignToHost, TxDone
  <2>3. QED
    BY <2>2
<1>11. CASE IsrEnter \/ Receive \/ Reject \/ Answer
  BY <1>11 DEF IsrEnter, Receive, ReceiveGood, ReceiveBad, ReceiveNone,
               ReceiveBusError, Reject, Answer
<1>12. CASE WriteRegs
  BY <1>12 DEF WriteRegs, LinkInv, NoOrphanWait
<1>13. CASE Boot
  BY <1>13 DEF Boot, LinkInv, NoOrphanWait
<1>14. CASE UNCHANGED vars
  BY <1>14 DEF vars, LinkInv, NoOrphanWait
<1>15. QED
  BY <1>5, <1>6, <1>7, <1>8, <1>9, <1>10, <1>11, <1>12, <1>13, <1>14
  DEF Next, HostStep, WireStep, Handler

(* However many frames are damaged, foreign or left behind, a servo thread *)
(* that waits has an answer on its way until a frame is really lost, and   *)
(* has one again once the driver has been loaded again.                    *)
THEOREM NoOrphanCorrect == Spec => []NoOrphanWait
<1>1. Init => LinkInv
  BY DEF Init, LinkInv, TypeOK, NoOrphanWait, Garbage, Foreign, HostFrame
<1>2. LinkInv /\ [Next]_vars => LinkInv'
  BY TypeInductive, NoOrphanInductive DEF LinkInv
<1>3. LinkInv => NoOrphanWait
  BY DEF LinkInv
<1>4. QED
  BY <1>1, <1>2, <1>3, PTL DEF Spec

-----------------------------------------------------------------------------
(***************************************************************************)
(* No frame carries a number and nothing compares them, and yet commands   *)
(* are applied, and replies observed, in order.  The invariant lays the    *)
(* queues end to end: behind the registers and RXT come the frames in the  *)
(* chip and then those on the wire, in the order in which they were sent;  *)
(* foreign frames may stand anywhere.  top is the last command the handler *)
(* took: no variable holds it once a foreign frame is in RXT.              *)
(***************************************************************************)
Ascending(q) ==
  \A i, j \in 1 .. Len(q) : i < j /\ q[j] # Foreign => q[i] < q[j]

Before(q, r) ==
  \A i \in 1 .. Len(q), j \in 1 .. Len(r) : r[j] # Foreign => q[i] < r[j]

Above(q, x) == \A i \in 1 .. Len(q) : q[i] # Foreign => x < q[i]

UpTo(q, x) == \A i \in 1 .. Len(q) : q[i] <= x

Queued(top) ==
  /\ Ascending(rxFifo) /\ Ascending(wire) /\ Before(rxFifo, wire)
  /\ Above(rxFifo, top) /\ Above(wire, top)
  /\ UpTo(rxFifo, sent) /\ UpTo(wire, sent)
  /\ top <= sent

(* Interrupts that will find the chip empty: those pending or under way    *)
(* that no frame in the chip stands for.  Only a chip reset makes one.     *)
Phantoms ==
  LET n == prs + (IF cpu = "receive" THEN 1 ELSE 0) - Len(rxFifo) IN
    IF n > 0 THEN n ELSE 0

Stroking == IF cpu = "check" /\ rxt # Foreign THEN 1 ELSE 0

Excuses == faults["badPacket"] + 2 * faults["busError"]

InHand(top) ==
  /\ rxt # Foreign => rxt = top
  /\ applied <= top
  /\ cpu = "transmit" => tx.seq = rxt
  /\ cpu = "write" => rxt # Foreign

Accounted(top) == strokes + Stroking + Phantoms <= top + Excuses

-----------------------------------------------------------------------------
(* What Append and Tail do to an index. *)
LEMMA AppendAt ==
  ASSUME NEW S, NEW q \in Seq(S), NEW e \in S
  PROVE  /\ Len(q) \in Nat /\ Len(Append(q, e)) = Len(q) + 1
         /\ \A i \in 1 .. Len(q) + 1 :
              /\ i \in 1 .. Len(q) => Append(q, e)[i] = q[i] /\ q[i] \in S
              /\ i \notin 1 .. Len(q) => Append(q, e)[i] = e
<1>1. Len(q) \in Nat
  BY LenProperties
<1>2. /\ Len(Append(q, e)) = Len(q) + 1
      /\ \A i \in 1 .. Len(q) : Append(q, e)[i] = q[i]
      /\ Append(q, e)[Len(q) + 1] = e
  BY AppendProperties
<1>3. \A i \in 1 .. Len(q) : q[i] \in S
  BY ElementOfSeq
<1>4. \A i \in 1 .. Len(q) + 1 : i \notin 1 .. Len(q) => i = Len(q) + 1
  BY <1>1
<1>5. QED
  BY <1>1, <1>2, <1>3, <1>4

LEMMA TailAt ==
  ASSUME NEW S, NEW q \in Seq(S), q # <<>>
  PROVE  /\ Len(q) \in Nat \ {0} /\ Len(Tail(q)) = Len(q) - 1
         /\ Head(q) = q[1] /\ q[1] \in S
         /\ \A i \in 1 .. Len(q) - 1 :
              /\ Tail(q)[i] = q[i + 1] /\ q[i + 1] \in S
              /\ i + 1 \in 1 .. Len(q)
<1>1. Len(q) \in Nat \ {0}
  BY EmptySeq
<1>2. /\ Len(Tail(q)) = Len(q) - 1
      /\ \A i \in 1 .. Len(Tail(q)) : Tail(q)[i] = q[i + 1]
  BY HeadTailProperties
<1>3. \A i \in 1 .. Len(q) : q[i] \in S
  BY ElementOfSeq
<1>4. Head(q) = q[1] /\ 1 \in 1 .. Len(q)
  BY <1>1
<1>5. \A i \in 1 .. Len(q) - 1 : i + 1 \in 1 .. Len(q)
  BY <1>1
<1>6. QED
  BY <1>1, <1>2, <1>3, <1>4, <1>5

(* A frame joins a queue. *)
LEMMA Joined ==
  ASSUME NEW q \in Seq(Nat), NEW e \in Nat, NEW x \in Nat
  PROVE  /\ Ascending(q) /\ (e # Foreign => \A i \in 1 .. Len(q) : q[i] < e)
              => Ascending(Append(q, e))
         /\ Above(q, x) /\ (e # Foreign => x < e) => Above(Append(q, e), x)
         /\ UpTo(q, x) /\ e <= x => UpTo(Append(q, e), x)
  BY AppendAt DEF Ascending, Above, UpTo, Foreign

LEMMA JoinedBefore ==
  ASSUME NEW q \in Seq(Nat), NEW r \in Seq(Nat), NEW e \in Nat, Before(q, r)
  PROVE  /\ Above(r, e) => Before(Append(q, e), r)
         /\ (e # Foreign => \A i \in 1 .. Len(q) : q[i] < e)
              => Before(q, Append(r, e))
<1>1. ASSUME Above(r, e) PROVE Before(Append(q, e), r)
  BY <1>1, AppendAt DEF Before, Above
<1>2. ASSUME e # Foreign => \A i \in 1 .. Len(q) : q[i] < e
      PROVE  Before(q, Append(r, e))
  BY <1>2, AppendAt DEF Before
<1>3. QED
  BY <1>1, <1>2

(* A frame leaves a queue. *)
LEMMA Left ==
  ASSUME NEW q \in Seq(Nat), q # <<>>, NEW x \in Nat
  PROVE  /\ Ascending(q) => Ascending(Tail(q)) /\ Above(Tail(q), Head(q))
         /\ Above(q, x) => Above(Tail(q), x)
         /\ UpTo(q, x) => UpTo(Tail(q), x) /\ Head(q) <= x
<1> USE TailAt
<1>1. Ascending(q) => Ascending(Tail(q))
  BY DEF Ascending
<1>2. Ascending(q) => Above(Tail(q), Head(q))
  BY DEF Ascending, Above
<1>3. QED
  BY <1>1, <1>2 DEF Above, UpTo

LEMMA LeftBefore ==
  ASSUME NEW q \in Seq(Nat), NEW r \in Seq(Nat), Before(q, r)
  PROVE  /\ q # <<>> => Before(Tail(q), r) /\ Above(r, Head(q))
         /\ r # <<>> => /\ Before(q, Tail(r))
                        /\ Head(r) # Foreign
                             => \A i \in 1 .. Len(q) : q[i] < Head(r)
<1>1. ASSUME q # <<>> PROVE Before(Tail(q), r) /\ Above(r, Head(q))
  BY <1>1, TailAt DEF Before, Above
<1>2. ASSUME r # <<>> PROVE Before(q, Tail(r))
  BY <1>2, TailAt DEF Before
<1>3. ASSUME r # <<>>, Head(r) # Foreign
      PROVE  \A i \in 1 .. Len(q) : q[i] < Head(r)
  BY <1>3, TailAt DEF Before
<1>4. QED
  BY <1>1, <1>2, <1>3

LEMMA NoFrames ==
  ASSUME NEW q, NEW x
  PROVE  /\ Ascending(<<>>) /\ Above(<<>>, x) /\ UpTo(<<>>, x)
         /\ Before(<<>>, q) /\ Before(q, <<>>)
<1>1. Len(<<>>) = 0 /\ \A i : i \notin 1 .. 0
  BY EmptySeq
<1>2. QED
  BY <1>1 DEF Ascending, Above, UpTo, Before

-----------------------------------------------------------------------------
(* Every step but the receipt of a good packet leaves top where it is.     *)
LEMMA QueuedKept ==
  ASSUME TypeOK, NEW top \in Nat, Queued(top), [Next]_vars, ~ReceiveGood
  PROVE  Queued(top)'
<1> USE DEF host, chip, nios, history
<1>1. /\ rxFifo \in Seq(Nat) /\ wire \in Seq(Nat) /\ sent \in Nat
      /\ Foreign \in Nat
  BY DEF TypeOK, Foreign
<1>2. CASE UNCHANGED <<rxFifo, wire, sent>>
  BY <1>2 DEF Queued, Ascending, Before, Above, UpTo
<1>3. CASE HostSend
  <2>1. sent + 1 \in Nat /\ wire' = Append(wire, sent + 1)
        /\ sent' = sent + 1 /\ rxFifo' = rxFifo
    BY <1>1, <1>3 DEF HostSend
  <2>2. /\ \A i \in 1 .. Len(rxFifo) : rxFifo[i] < sent + 1
        /\ \A i \in 1 .. Len(wire) : wire[i] < sent + 1
        /\ top < sent + 1
    BY <1>1, AppendAt DEF Queued, UpTo
  <2>3. UpTo(wire, sent + 1) /\ UpTo(rxFifo, sent + 1)
    BY <1>1, AppendAt DEF Queued, UpTo
  <2> DEFINE w == Append(wire, sent + 1)
  <2>4. /\ Ascending(w) /\ Above(w, top) /\ Before(rxFifo, w)
    BY <1>1, <2>1, <2>2, Joined, JoinedBefore DEF Queued
  <2>5. UpTo(w, sent + 1)
    BY <1>1, <2>1, <2>3, Joined
  <2> HIDE DEF w
  <2>6. wire' = w
    BY <2>1 DEF w
  <2>7. QED
    BY <2>1, <2>2, <2>3, <2>4, <2>5, <2>6
    DEF Queued, Ascending, Before, Above, UpTo
<1>4. CASE Deliver
  <2>1. /\ wire # <<>> /\ wire' = Tail(wire) /\ sent' = sent
        /\ rxFifo' = rxFifo \/ rxFifo' = Append(rxFifo, Head(wire))
    BY <1>4 DEF Deliver, Arrive
  <2>2. Head(wire) \in Nat /\ Tail(wire) \in Seq(Nat)
    BY <1>1, <2>1, QueueOps
  <2>3. /\ Ascending(Tail(wire)) /\ Above(Tail(wire), top)
        /\ UpTo(Tail(wire), sent) /\ Before(rxFifo, Tail(wire))
        /\ Above(Tail(wire), Head(wire)) /\ Head(wire) <= sent
        /\ Head(wire) # Foreign
             => /\ \A i \in 1 .. Len(rxFifo) : rxFifo[i] < Head(wire)
                /\ top < Head(wire)
    BY <1>1, <2>1, Left, LeftBefore, TailAt DEF Queued, Above
  <2>4. CASE rxFifo' = rxFifo
    BY <2>1, <2>3, <2>4
    DEF Queued, Ascending, Before, Above, UpTo
  <2>5. CASE rxFifo' = Append(rxFifo, Head(wire))
    <3> DEFINE r == Append(rxFifo, Head(wire))
    <3>1. /\ Ascending(r) /\ Above(r, top) /\ UpTo(r, sent)
          /\ Before(r, Tail(wire))
      BY <1>1, <2>2, <2>3, Joined, JoinedBefore DEF Queued
    <3> HIDE DEF r
    <3>2. rxFifo' = r
      BY <2>5 DEF r
    <3>3. QED
      BY <2>1, <2>3, <3>1, <3>2 DEF Queued, Ascending, Before, Above, UpTo
  <2>6. QED
    BY <2>1, <2>4, <2>5
<1>5. CASE LoseCommand
  <2>1. /\ wire # <<>> /\ wire' = Tail(wire) /\ sent' = sent
        /\ rxFifo' = rxFifo
    BY <1>5 DEF LoseCommand
  <2>2. /\ Ascending(Tail(wire)) /\ Above(Tail(wire), top)
        /\ UpTo(Tail(wire), sent) /\ Before(rxFifo, Tail(wire))
    BY <1>1, <2>1, Left, LeftBefore DEF Queued
  <2>3. QED
    BY <2>1, <2>2 DEF Queued, Ascending, Before, Above, UpTo
<1>6. CASE ForeignToBoard
  <2>1. /\ wire' = wire /\ sent' = sent
        /\ rxFifo' = rxFifo \/ rxFifo' = Append(rxFifo, Foreign)
    BY <1>6 DEF ForeignToBoard, Arrive
  <2>2. CASE rxFifo' = Append(rxFifo, Foreign)
    <3> DEFINE r == Append(rxFifo, Foreign)
    <3>1. Above(wire, Foreign) /\ Foreign <= sent
      BY <1>1, AppendAt DEF Above, Foreign
    <3>2. /\ Ascending(r) /\ Above(r, top) /\ UpTo(r, sent)
          /\ Before(r, wire)
      BY <1>1, <3>1, Joined, JoinedBefore DEF Queued
    <3> HIDE DEF r
    <3>3. rxFifo' = r
      BY <2>2 DEF r
    <3>4. QED
      BY <2>1, <3>2, <3>3 DEF Queued, Ascending, Before, Above, UpTo
  <2>3. QED
    BY <1>2, <2>1, <2>2
<1>7. CASE ReceiveBad
  <2>1. /\ rxFifo # <<>> /\ rxFifo' = Tail(rxFifo) /\ sent' = sent
        /\ wire' = wire
    BY <1>7 DEF ReceiveBad
  <2>2. /\ Ascending(Tail(rxFifo)) /\ Above(Tail(rxFifo), top)
        /\ UpTo(Tail(rxFifo), sent) /\ Before(Tail(rxFifo), wire)
    BY <1>1, <2>1, Left, LeftBefore DEF Queued
  <2>3. QED
    BY <2>1, <2>2 DEF Queued, Ascending, Before, Above, UpTo
<1>8. CASE ReceiveBusError \/ BoardReset
  <2>1. rxFifo' = <<>> /\ wire' = wire /\ sent' = sent
    BY <1>8 DEF ReceiveBusError, BoardReset
  <2>2. /\ Ascending(<<>>) /\ Above(<<>>, top) /\ UpTo(<<>>, sent)
        /\ Before(<<>>, wire)
    BY NoFrames
  <2>3. QED
    BY <2>1, <2>2 DEF Queued, Ascending, Before, Above, UpTo
<1>9. CASE HostSendFails \/ HostRecv \/ HostRecvFails \/ HostRestart
  BY <1>2, <1>9 DEF HostSendFails, HostRecv, HostRecvFails, HostRestart
<1>10. CASE ForeignToHost \/ IsrEnter \/ ReceiveNone \/ Reject \/ Answer
  BY <1>2, <1>10 DEF ForeignToHost, IsrEnter, ReceiveNone, Reject, Answer
<1>11. CASE TxDone \/ TxLost \/ WriteRegs \/ Boot
  BY <1>2, <1>11 DEF TxDone, TxLost, Transmitted, WriteRegs, Boot
<1>12. CASE UNCHANGED vars
  BY <1>2, <1>12 DEF vars
<1>13. QED
  BY <1>3, <1>4, <1>5, <1>6, <1>7, <1>8, <1>9, <1>10, <1>11, <1>12
  DEF Next, HostStep, WireStep, Handler, Receive

(* A good packet, if it is a command, becomes the last one taken. *)
LEMMA QueuedTaken ==
  ASSUME TypeOK, NEW top \in Nat, Queued(top), ReceiveGood,
         NEW c \in Nat,
         c = IF Head(rxFifo) # Foreign THEN Head(rxFifo) ELSE top
  PROVE  Queued(c)' /\ top <= c
<1>1. /\ rxFifo \in Seq(Nat) /\ wire \in Seq(Nat) /\ sent \in Nat
      /\ rxFifo # <<>> /\ rxFifo' = Tail(rxFifo)
      /\ wire' = wire /\ sent' = sent
  BY DEF TypeOK, ReceiveGood, host
<1>2. /\ Ascending(Tail(rxFifo)) /\ Above(Tail(rxFifo), top)
      /\ UpTo(Tail(rxFifo), sent) /\ Before(Tail(rxFifo), wire)
      /\ Above(Tail(rxFifo), Head(rxFifo)) /\ Above(wire, Head(rxFifo))
      /\ Head(rxFifo) <= sent
      /\ Head(rxFifo) # Foreign => top < Head(rxFifo)
  BY <1>1, Left, LeftBefore, TailAt DEF Queued, Above
<1>3. /\ Above(Tail(rxFifo), c) /\ Above(wire, c) /\ c <= sent /\ top <= c
  BY <1>1, <1>2, TailAt DEF Queued
<1>4. QED
  BY <1>1, <1>2, <1>3 DEF Queued, Ascending, Before, Above, UpTo

-----------------------------------------------------------------------------
(* What the handler has in hand stays in step with top: at most one stroke *)
(* for each command taken, damaged packet and, twice, chip reset.          *)
FaultCounts(k) ==
  \A j \in FaultKinds : faults'[j] = faults[j] + (IF j = k THEN 1 ELSE 0)

LEMMA FaultCounted ==
  ASSUME TypeOK, NEW k \in FaultKinds, Fault(k)
  PROVE  FaultCounts(k)
  BY DEF TypeOK, Fault, FaultCounts

LEMMA HandledTypes ==
  ASSUME TypeOK
  PROVE  /\ Len(rxFifo) \in Nat /\ prs \in 0 .. 1 /\ strokes \in Nat
         /\ faults["badPacket"] \in Nat /\ faults["busError"] \in Nat
         /\ Stroking \in 0 .. 1 /\ Phantoms \in Nat
         /\ "badPacket" \in FaultKinds /\ "busError" \in FaultKinds
<1>1. /\ Len(rxFifo) \in Nat /\ prs \in 0 .. 1 /\ strokes \in Nat
      /\ faults["badPacket"] \in Nat /\ faults["busError"] \in Nat
      /\ "badPacket" \in FaultKinds /\ "busError" \in FaultKinds
  BY LenProperties DEF TypeOK, FaultKinds
<1>2. QED
  BY <1>1 DEF Stroking, Phantoms

(* A step is one fault, or no fault. *)
LEMMA FaultOrNot ==
  ASSUME [Next]_vars
  PROVE  (\E k \in FaultKinds : Fault(k)) \/ faults' = faults
<1> USE DEF history
<1> USE DEF FaultKinds
<1>1. HostStep => (\E k \in FaultKinds : Fault(k)) \/ faults' = faults
  BY DEF HostStep, HostSend, HostSendFails, HostRecv, HostRecvFails,
         HostRestart
<1>2. WireStep => (\E k \in FaultKinds : Fault(k)) \/ faults' = faults
  BY DEF WireStep, Deliver, LoseCommand, ForeignToBoard, ForeignToHost
<1>3. Receive => (\E k \in FaultKinds : Fault(k)) \/ faults' = faults
  BY DEF Receive, ReceiveGood, ReceiveBad, ReceiveNone, ReceiveBusError
<1>4. Handler /\ ~Receive
        => (\E k \in FaultKinds : Fault(k)) \/ faults' = faults
  BY DEF Handler, IsrEnter, Reject, Answer, TxDone, TxLost, WriteRegs
<1>5. BoardReset \/ Boot
        => (\E k \in FaultKinds : Fault(k)) \/ faults' = faults
  BY DEF BoardReset, Boot
<1>6. UNCHANGED vars => faults' = faults
  BY DEF vars
<1>7. QED
  BY <1>1, <1>2, <1>3, <1>4, <1>5, <1>6 DEF Next

(* No fault makes the number of excuses smaller. *)
LEMMA ExcusesGrow ==
  ASSUME TypeOK, [Next]_vars
  PROVE  /\ faults'["badPacket"] >= faults["badPacket"]
         /\ faults'["busError"] >= faults["busError"]
<1> USE HandledTypes DEF history
<1>1. ASSUME NEW k \in FaultKinds, Fault(k)
      PROVE  /\ faults'["badPacket"] >= faults["badPacket"]
             /\ faults'["busError"] >= faults["busError"]
  BY <1>1, FaultCounted DEF FaultCounts
<1>2. QED
  BY <1>1, FaultOrNot

LEMMA InHandKept ==
  ASSUME TypeOK, NEW top \in Nat, InHand(top), [Next]_vars, ~ReceiveGood
  PROVE  InHand(top)'
<1> USE DEF host, chip, nios, InHand, Foreign
<1>1. CASE HostStep \/ WireStep
  BY <1>1 DEF HostStep, HostSend, HostSendFails, HostRecv, HostRecvFails,
     HostRestart, WireStep, Deliver, LoseCommand, ForeignToBoard,
     ForeignToHost
<1>2. CASE IsrEnter \/ ReceiveBad \/ ReceiveNone \/ ReceiveBusError
  BY <1>2 DEF IsrEnter, ReceiveBad, ReceiveNone, ReceiveBusError
<1>3. CASE Reject \/ Answer
  BY <1>3 DEF Reject, Answer, Garbage
<1>4. CASE TxDone \/ TxLost
  BY <1>4 DEF TxDone, TxLost, Transmitted
<1>5. CASE WriteRegs
  BY <1>5 DEF WriteRegs, TypeOK
<1>6. CASE BoardReset \/ Boot
  BY <1>6 DEF BoardReset, Boot
<1>7. CASE UNCHANGED vars
  BY <1>7 DEF vars
<1>8. QED
  BY <1>1, <1>2, <1>3, <1>4, <1>5, <1>6, <1>7 DEF Next, Handler, Receive

(* The faults of each kind, before and after, as what the proof counts. *)
LEMMA ExcusesCounted ==
  ASSUME TypeOK, TypeOK', [Next]_vars
  PROVE  /\ Excuses \in Nat /\ Excuses' \in Nat
         /\ Excuses' >= Excuses
         /\ Fault("badPacket") => Excuses' = Excuses + 1
         /\ Fault("busError") => Excuses' = Excuses + 2
<1>1. PICK b \in Nat, c \in Nat, b2 \in Nat, c2 \in Nat :
        /\ b = faults["badPacket"] /\ c = faults["busError"]
        /\ b2 = faults'["badPacket"] /\ c2 = faults'["busError"]
  BY DEF TypeOK, FaultKinds
<1>2. Excuses = b + 2 * c /\ Excuses' = b2 + 2 * c2
  BY <1>1 DEF Excuses
<1>3. b2 >= b /\ c2 >= c
  BY <1>1, ExcusesGrow
<1>4. Fault("badPacket") => b2 = b + 1 /\ c2 = c
  BY <1>1 DEF Fault, TypeOK, FaultKinds
<1>5. Fault("busError") => b2 = b /\ c2 = c + 1
  BY <1>1 DEF Fault, TypeOK, FaultKinds
<1>6. QED
  BY <1>2, <1>3, <1>4, <1>5

LEMMA AccountedKept ==
  ASSUME TypeOK, TypeOK', NEW top \in Nat, Accounted(top), [Next]_vars,
         ~ReceiveGood
  PROVE  Accounted(top)'
<1> USE DEF host, chip, nios
<1>1. rxFifo \in Seq(Nat) /\ wire \in Seq(Nat) /\ Foreign = 0
  BY DEF TypeOK, Foreign
<1>2. /\ Len(rxFifo) \in Nat /\ prs \in 0 .. 1
      /\ Len(rxFifo') \in Nat /\ prs' \in 0 .. 1
  BY LenProperties DEF TypeOK
<1>3. PICK s \in Nat, s2 \in Nat, e \in Nat, e2 \in Nat :
        s = strokes /\ s2 = strokes' /\ e = Excuses /\ e2 = Excuses'
  BY ExcusesCounted DEF TypeOK
<1>4. PICK k \in 0 .. 1, k2 \in 0 .. 1 : k = Stroking /\ k2 = Stroking'
  BY DEF Stroking
<1>5. PICK p \in Nat, p2 \in Nat : p = Phantoms /\ p2 = Phantoms'
  <2>1. Phantoms \in Nat
    BY <1>2 DEF Phantoms
  <2>2. Phantoms' \in Nat
    BY <1>2 DEF Phantoms
  <2>3. QED
    BY <2>1, <2>2
<1>6. e2 >= e
  BY <1>3, ExcusesCounted
<1>7. s + k + p <= top + e
  BY <1>3, <1>4, <1>5 DEF Accounted
<1> SUFFICES s2 + k2 + p2 <= top + e2
  BY <1>3, <1>4, <1>5 DEF Accounted
<1>8. ASSUME s2 + k2 + p2 <= s + k + p
      PROVE  s2 + k2 + p2 <= top + e2
  BY <1>6, <1>7, <1>8
<1>9. CASE UNCHANGED <<rxFifo, prs, cpu, rxt, strokes>>
  <2>1. k2 = k /\ p2 = p /\ s2 = s
    BY <1>3, <1>4, <1>5, <1>9 DEF Stroking, Phantoms
  <2>2. QED
    BY <1>8, <2>1
<1>10. CASE Deliver \/ ForeignToBoard
  <2>1. UNCHANGED <<cpu, rxt, strokes>>
    BY <1>10 DEF Deliver, ForeignToBoard
  <2>2. CASE UNCHANGED <<rxFifo, prs>>
    BY <1>9, <2>1, <2>2
  <2>3. CASE ~UNCHANGED <<rxFifo, prs>>
    <3>1. Foreign \in Nat /\ (wire # <<>> => Head(wire) \in Nat)
      BY <1>1, QueueOps
    <3>2. PICK f \in Nat : rxFifo' = Append(rxFifo, f) /\ prs' = 1
      BY <1>10, <2>3, <3>1 DEF Deliver, ForeignToBoard, Arrive
    <3>3. Len(rxFifo') = Len(rxFifo) + 1
      BY <1>1, <3>2, AppendProperties
    <3>4. k2 = k /\ p2 <= p /\ s2 = s
      BY <1>2, <1>3, <1>4, <1>5, <2>1, <3>2, <3>3 DEF Stroking, Phantoms
    <3>5. QED
      BY <1>8, <3>4
  <2>4. QED
    BY <2>2, <2>3
<1>11. CASE IsrEnter
  <2>1. /\ cpu = "main" /\ cpu' = "receive" /\ prs = 1 /\ prs' = 0
        /\ UNCHANGED <<rxFifo, strokes>>
    BY <1>11 DEF IsrEnter
  <2>2. k2 = 0 /\ p2 = p /\ s2 = s
    BY <1>2, <1>3, <1>4, <1>5, <2>1 DEF Stroking, Phantoms
  <2>3. QED
    BY <1>8, <2>2
<1>12. CASE ReceiveBad
  <2>1. /\ Len(rxFifo) >= 1 /\ Len(rxFifo') = Len(rxFifo) - 1
        /\ cpu = "receive" /\ cpu' = "check" /\ UNCHANGED <<prs, strokes>>
        /\ Fault("badPacket")
    BY <1>1, <1>12, HeadTailProperties, EmptySeq DEF ReceiveBad
  <2>2. e2 = e + 1
    BY <1>3, <2>1, ExcusesCounted
  <2>3. k = 0 /\ p2 = p /\ s2 = s
    BY <1>2, <1>3, <1>4, <1>5, <2>1 DEF Stroking, Phantoms
  <2>4. QED
    BY <1>7, <2>2, <2>3
<1>13. CASE ReceiveNone
  <2>1. /\ Len(rxFifo) = 0 /\ cpu = "receive" /\ cpu' = "check"
        /\ UNCHANGED <<rxFifo, prs, strokes>>
    BY <1>1, <1>13, EmptySeq DEF ReceiveNone
  <2>2. k = 0 /\ p2 = p - 1 /\ s2 = s
    BY <1>2, <1>3, <1>4, <1>5, <2>1 DEF Stroking, Phantoms
  <2>3. QED
    BY <1>8, <2>2
<1>14. CASE ReceiveBusError
  <2>1. /\ Len(rxFifo') = 0 /\ cpu = "receive" /\ cpu' = "check"
        /\ UNCHANGED strokes /\ Fault("busError")
    <3>1. rxFifo' = <<>>
      BY <1>14 DEF ReceiveBusError
    <3>2. Len(<<>>) = 0
      BY EmptySeq
    <3>3. QED
      BY <1>14, <3>1, <3>2 DEF ReceiveBusError
  <2>2. e2 = e + 2
    BY <1>3, <2>1, ExcusesCounted
  <2>3. k = 0 /\ s2 = s
    BY <1>3, <1>4, <2>1 DEF Stroking
  <2>4. p2 <= 1
    <3>1. CASE prs' = 0
      BY <1>5, <2>1, <3>1 DEF Phantoms
    <3>2. CASE prs' = 1
      BY <1>5, <2>1, <3>2 DEF Phantoms
    <3>3. QED
      BY <1>2, <3>1, <3>2
  <2>5. QED
    BY <1>7, <2>2, <2>3, <2>4
<1>15. CASE Answer
  <2>1. /\ cpu = "check" /\ rxt # Foreign /\ cpu' = "transmit"
        /\ UNCHANGED <<rxFifo, prs>> /\ strokes' = strokes + 1
    BY <1>15 DEF Answer
  <2>2. k = 1 /\ k2 = 0 /\ p2 = p /\ s2 = s + 1
    BY <1>3, <1>4, <1>5, <2>1 DEF Stroking, Phantoms
  <2>3. QED
    BY <1>8, <2>2
<1>16. CASE Reject \/ TxDone \/ TxLost \/ WriteRegs \/ Boot
  <2>1. /\ cpu' \notin {"check", "receive"} /\ cpu # "receive"
        /\ UNCHANGED <<rxFifo, prs, strokes>>
    BY <1>16 DEF Reject, TxDone, TxLost, Transmitted, WriteRegs, Boot
  <2>2. k2 = 0 /\ p2 = p /\ s2 = s
    BY <1>3, <1>4, <1>5, <2>1 DEF Stroking, Phantoms
  <2>3. QED
    BY <1>8, <2>2
<1>17. CASE BoardReset
  <2>1. /\ Len(rxFifo') = 0 /\ prs' = 0 /\ cpu' = "boot"
        /\ UNCHANGED strokes
    BY <1>17, EmptySeq DEF BoardReset
  <2>2. k2 = 0 /\ p2 = 0 /\ s2 = s
    BY <1>2, <1>3, <1>4, <1>5, <2>1 DEF Stroking, Phantoms
  <2>3. QED
    BY <1>8, <2>2
<1>18. CASE HostStep \/ LoseCommand \/ ForeignToHost \/ UNCHANGED vars
  BY <1>9, <1>18 DEF HostStep, HostSend, HostSendFails, HostRecv,
     HostRecvFails, HostRestart, LoseCommand, ForeignToHost, vars
<1>19. QED
  BY <1>10, <1>11, <1>12, <1>13, <1>14, <1>15, <1>16, <1>17, <1>18
  DEF Next, WireStep, Handler, Receive

LEMMA CommandTaken ==
  ASSUME TypeOK, NEW top \in Nat, InHand(top), Accounted(top), ReceiveGood,
         NEW c \in Nat, top <= c, Head(rxFifo) # Foreign => top < c,
         c = IF Head(rxFifo) # Foreign THEN Head(rxFifo) ELSE top
  PROVE  InHand(c)' /\ Accounted(c)'
<1>1. /\ rxFifo \in Seq(Nat) /\ Foreign = 0 /\ applied \in Nat
      /\ Len(rxFifo) \in Nat /\ prs \in 0 .. 1 /\ strokes \in Nat
      /\ faults["badPacket"] \in Nat /\ faults["busError"] \in Nat
  BY HandledTypes DEF TypeOK, Foreign
<1>2. /\ Len(rxFifo) >= 1 /\ Len(rxFifo') = Len(rxFifo) - 1
      /\ cpu = "receive" /\ cpu' = "check" /\ rxt' = Head(rxFifo)
      /\ UNCHANGED <<prs, tx, applied, strokes, faults>>
  BY <1>1, HeadTailProperties, EmptySeq DEF ReceiveGood, history
<1>3. InHand(c)'
  BY <1>1, <1>2 DEF InHand
<1>4. /\ Stroking = 0 /\ Phantoms' = Phantoms /\ Excuses' = Excuses
      /\ Phantoms \in Int /\ Excuses \in Int
      /\ Stroking' = IF Head(rxFifo) # Foreign THEN 1 ELSE 0
  BY <1>1, <1>2 DEF Stroking, Phantoms, Excuses
<1>5. strokes + Stroking + Phantoms <= top + Excuses
  BY DEF Accounted
<1>6. strokes' + Stroking' + Phantoms' <= c + Excuses'
  BY <1>1, <1>2, <1>4, <1>5
<1>7. QED
  BY <1>3, <1>6 DEF Accounted

-----------------------------------------------------------------------------
(* The way back.  Replies in the socket are in order behind what the pins  *)
(* show, and the one being transmitted comes last; a frame of another type *)
(* is no reply and may stand anywhere.  A new socket, or registers that    *)
(* were reset, begin a new order.                                          *)
Restarts == {"hostRestart", "boardReset"}

NotAfter(f, g) == g.seq # 0 => f.seq <= g.seq /\ f.applied <= g.applied

InOrder(q) == \A i, j \in 1 .. Len(q) : i < j => NotAfter(q[i], q[j])

Observable(f, top, reg) == f.seq <= top /\ f.applied <= reg

Replies(top) ==
  /\ \A i \in 1 .. Len(sock) : Observable(sock[i], top, applied)
  /\ \A i \in 1 .. Len(sock) : NotAfter(feedback, sock[i])
  /\ InOrder(sock)
  /\ Observable(feedback, top, applied)
  /\ cpu = "transmit" => /\ tx.applied <= applied
                         /\ tx.seq # 0 => tx.applied = applied

LEMMA AppendedReply ==
  ASSUME TypeOK, TypeOK', NEW top \in Nat, Replies(top),
         NEW f \in HostFrame, f.seq \in {0, top},
         f.applied <= applied, f.seq # 0 => f.applied = applied,
         sock' = Append(sock, f),
         UNCHANGED <<feedback, applied>>,
         cpu' = "transmit" => UNCHANGED <<tx, cpu>>
  PROVE  Replies(top)'
<1>1. /\ sock \in Seq(HostFrame) /\ feedback \in HostFrame /\ applied \in Nat
      /\ \A g \in HostFrame : g.seq \in Nat /\ g.applied \in Nat
  BY DEF TypeOK, HostFrame
<1>2. /\ Len(sock) \in Nat /\ Len(sock') = Len(sock) + 1
      /\ \A i \in 1 .. Len(sock') :
           /\ i \in 1 .. Len(sock)
                => sock'[i] = sock[i] /\ sock[i] \in HostFrame
           /\ i \notin 1 .. Len(sock) => sock'[i] = f
  BY <1>1, AppendAt
<1>3. Observable(f, top, applied)
  BY <1>1 DEF Observable
<1>4. \A g \in HostFrame : Observable(g, top, applied) => NotAfter(g, f)
  BY <1>1 DEF Observable, NotAfter
<1>5. \A i \in 1 .. Len(sock') : Observable(sock'[i], top, applied')
  BY <1>2, <1>3 DEF Replies, Observable
<1>6. \A i \in 1 .. Len(sock') : NotAfter(feedback, sock'[i])
  BY <1>1, <1>2, <1>4 DEF Replies
<1>7. \A i, j \in 1 .. Len(sock') : i < j => NotAfter(sock'[i], sock'[j])
  <2> SUFFICES ASSUME NEW i \in 1 .. Len(sock'), NEW j \in 1 .. Len(sock'),
                      i < j
               PROVE  NotAfter(sock'[i], sock'[j])
    OBVIOUS
  <2>1. i \in 1 .. Len(sock)
    BY <1>2
  <2>2. CASE j \in 1 .. Len(sock)
    BY <1>2, <2>1, <2>2 DEF Replies, InOrder
  <2>3. CASE j \notin 1 .. Len(sock)
    BY <1>2, <1>4, <2>1, <2>3 DEF Replies
  <2>4. QED
    BY <2>2, <2>3
<1>8. QED
  BY <1>5, <1>6, <1>7 DEF Replies, InOrder, Observable, NotAfter

LEMMA ObservedReply ==
  ASSUME TypeOK, NEW top \in Nat, Replies(top), HostRecv
  PROVE  /\ Replies(top)'
         /\ feedback'.seq >= feedback.seq
         /\ feedback'.applied >= feedback.applied
<1>1. /\ sock \in Seq(HostFrame) /\ feedback \in HostFrame /\ applied \in Nat
      /\ sock # <<>>
      /\ \A g \in HostFrame : g.seq \in Nat /\ g.applied \in Nat
  BY DEF TypeOK, HostFrame, HostRecv
<1>2. /\ Len(sock) \in Nat \ {0} /\ Head(sock) = sock[1]
      /\ sock[1] \in HostFrame
      /\ Len(sock') = Len(sock) - 1
      /\ \A i \in 1 .. Len(sock') :
           /\ i + 1 \in 1 .. Len(sock) /\ sock'[i] = sock[i + 1]
           /\ sock[i + 1] \in HostFrame
  BY <1>1, TailAt DEF HostRecv
<1>3. /\ feedback' = IF sock[1].seq # 0 THEN sock[1] ELSE feedback
      /\ UNCHANGED <<cpu, tx, applied>>
  BY <1>2 DEF HostRecv, chip, nios
<1>4. 1 \in 1 .. Len(sock) /\ \A i \in 1 .. Len(sock') : 1 < i + 1
  BY <1>2
<1>5. feedback'.seq >= feedback.seq /\ feedback'.applied >= feedback.applied
  BY <1>1, <1>2, <1>3, <1>4 DEF Replies, NotAfter
<1>6. \A i \in 1 .. Len(sock') : Observable(sock'[i], top, applied')
  BY <1>2, <1>3 DEF Replies, Observable
<1>7. \A i \in 1 .. Len(sock') : NotAfter(feedback', sock'[i])
  BY <1>2, <1>3, <1>4 DEF Replies, InOrder
<1>8. \A i, j \in 1 .. Len(sock') : i < j => NotAfter(sock'[i], sock'[j])
  <2> SUFFICES ASSUME NEW i \in 1 .. Len(sock'), NEW j \in 1 .. Len(sock'),
                      i < j
               PROVE  NotAfter(sock'[i], sock'[j])
    OBVIOUS
  <2>1. i + 1 < j + 1
    BY <1>2
  <2>2. QED
    BY <1>2, <2>1 DEF Replies, InOrder
<1>9. Observable(feedback', top, applied')
  BY <1>2, <1>3, <1>4 DEF Replies, Observable
<1>10. QED
  BY <1>3, <1>5, <1>6, <1>7, <1>8, <1>9
  DEF Replies, InOrder, Observable, NotAfter

(* Without a new reply in the socket, a command taken or applied leaves    *)
(* the order as it is.                                                     *)
LEMMA OtherReply ==
  ASSUME TypeOK, TypeOK', NEW top \in Nat, NEW c \in Nat, top <= c,
         Replies(top),
         UNCHANGED <<sock, feedback>>, applied <= applied',
         cpu' = "transmit" => /\ tx'.applied <= applied'
                              /\ tx'.seq # 0 => tx'.applied = applied'
  PROVE  Replies(c)'
<1>1. /\ applied \in Nat /\ applied' \in Nat /\ feedback \in HostFrame
      /\ \A i \in 1 .. Len(sock) : sock[i] \in HostFrame
      /\ \A g \in HostFrame : g.seq \in Nat /\ g.applied \in Nat
  BY LenProperties, ElementOfSeq DEF TypeOK, HostFrame
<1>2. \A g \in HostFrame :
        Observable(g, top, applied) => Observable(g, c, applied')
  BY <1>1 DEF Observable
<1>3. (\A i \in 1 .. Len(sock) : Observable(sock[i], c, applied'))
      /\ Observable(feedback, c, applied')
  BY <1>1, <1>2 DEF Replies, Observable
<1>4. QED
  BY <1>3 DEF Replies, Observable

LEMMA RestartHappens ==
  ASSUME TypeOK, NEW k \in Restarts, Fault(k)
  PROVE  Happened(Restarts)'
  BY DEF Fault, Happened, Restarts, TypeOK, FaultKinds

LEMMA RestartStays ==
  ASSUME TypeOK, [Next]_vars, ~Happened(Restarts)'
  PROVE  ~Happened(Restarts) /\ ~HostRestart /\ ~BoardReset
<1>1. ~HostRestart /\ ~BoardReset
  BY RestartHappens DEF HostRestart, BoardReset, Restarts
<1>2. ASSUME NEW k \in FaultKinds, Fault(k), Happened(Restarts)
      PROVE  FALSE
  BY <1>2 DEF Fault, Happened, Restarts, TypeOK, FaultKinds
<1>3. (\E k \in FaultKinds : Fault(k)) \/ faults' = faults
  BY FaultOrNot
<1>4. QED
  BY <1>1, <1>2, <1>3 DEF Happened

LEMMA RepliesKept ==
  ASSUME TypeOK, TypeOK', NEW top \in Nat, InHand(top), Replies(top),
         [Next]_vars, ~ReceiveGood, ~HostRestart, ~BoardReset
  PROVE  Replies(top)'
<1> USE DEF host, chip, nios
<1>1. /\ applied \in Nat /\ rxt \in Nat /\ tx \in HostFrame
      /\ Garbage \in HostFrame /\ Garbage.seq = 0 /\ Garbage.applied = 0
      /\ Foreign = 0 /\ tx.applied \in Nat
  BY DEF TypeOK, HostFrame, Garbage, Foreign
<1>2. CASE HostRecv
  BY <1>2, ObservedReply
<1>3. CASE ForeignToHost
  BY <1>1, <1>3, AppendedReply DEF ForeignToHost
<1>4. CASE TxDone
  <2>1. /\ sock' = Append(sock, tx) /\ cpu = "transmit" /\ cpu' # "transmit"
        /\ UNCHANGED <<feedback, applied>>
    BY <1>4 DEF TxDone, Transmitted
  <2>2. /\ tx.seq \in {0, top} /\ tx.applied <= applied
        /\ tx.seq # 0 => tx.applied = applied
    BY <1>1, <2>1 DEF InHand, Replies
  <2>3. QED
    BY <1>1, <2>1, <2>2, AppendedReply
<1>5. CASE Answer \/ Reject
  <2>1. /\ UNCHANGED <<sock, feedback, applied>>
        /\ tx'.applied <= applied /\ (tx'.seq # 0 => tx'.applied = applied)
    BY <1>1, <1>5 DEF Answer, Reject
  <2>2. QED
    BY <1>1, <2>1, OtherReply
<1>6. CASE WriteRegs
  <2>1. /\ UNCHANGED <<sock, feedback>> /\ cpu' # "transmit"
        /\ applied <= applied'
    BY <1>1, <1>6 DEF WriteRegs, InHand
  <2>2. QED
    BY <2>1, OtherReply
<1>7. CASE HostSend \/ HostSendFails \/ HostRecvFails \/ Deliver
             \/ LoseCommand \/ ForeignToBoard \/ UNCHANGED vars
  <2>1. UNCHANGED <<sock, feedback, cpu, tx, applied>>
    BY <1>7 DEF HostSend, HostSendFails, HostRecvFails, Deliver,
       LoseCommand, ForeignToBoard, vars
  <2>2. QED
    BY <1>1, <2>1, OtherReply DEF Replies
<1>8. CASE IsrEnter \/ ReceiveBad \/ ReceiveNone \/ ReceiveBusError
             \/ TxLost \/ Boot
  <2>1. UNCHANGED <<sock, feedback, applied>> /\ cpu' # "transmit"
    BY <1>8 DEF IsrEnter, ReceiveBad, ReceiveNone, ReceiveBusError, TxLost,
       Transmitted, Boot
  <2>2. QED
    BY <1>1, <2>1, OtherReply
<1>9. QED
  BY <1>2, <1>3, <1>4, <1>5, <1>6, <1>7, <1>8
  DEF Next, HostStep, WireStep, Handler, Receive

-----------------------------------------------------------------------------
OrderInv ==
  \E top \in Nat : /\ Queued(top) /\ InHand(top) /\ Accounted(top)
                   /\ Happened(Restarts) \/ Replies(top)

LEMMA OrderInductive == TypeOK /\ OrderInv /\ [Next]_vars => OrderInv'
<1> SUFFICES ASSUME TypeOK, OrderInv, [Next]_vars PROVE OrderInv'
  OBVIOUS
<1>1. PICK top \in Nat : /\ Queued(top) /\ InHand(top) /\ Accounted(top)
                         /\ Happened(Restarts) \/ Replies(top)
  BY DEF OrderInv
<1>2. TypeOK'
  BY TypeInductive
<1>3. CASE ReceiveGood
  <2>1. rxFifo \in Seq(Nat) /\ rxFifo # <<>> /\ Head(rxFifo) \in Nat
    BY <1>3, QueueOps DEF ReceiveGood, TypeOK
  <2>2. PICK c \in Nat :
          c = IF Head(rxFifo) # Foreign THEN Head(rxFifo) ELSE top
    BY <2>1
  <2>3. Head(rxFifo) # Foreign => top < c
    BY <1>1, <2>1, <2>2, TailAt DEF Queued, Above
  <2>4. Queued(c)' /\ top <= c
    BY <1>1, <1>3, <2>2, QueuedTaken
  <2>5. InHand(c)' /\ Accounted(c)'
    BY <1>1, <1>3, <2>2, <2>3, <2>4, CommandTaken
  <2>6. ASSUME Replies(top) PROVE Replies(c)'
    <3>1. /\ UNCHANGED <<sock, feedback, applied>> /\ cpu' # "transmit"
          /\ applied \in Nat
      BY <1>3 DEF ReceiveGood, host, TypeOK
    <3>2. QED
      BY <1>2, <2>4, <2>6, <3>1, OtherReply
  <2>7. Happened(Restarts)' \/ Replies(c)'
    BY <1>1, <2>6, RestartStays
  <2>8. QED
    BY <2>4, <2>5, <2>7 DEF OrderInv
<1>4. CASE ~ReceiveGood
  <2>1. Queued(top)' /\ InHand(top)' /\ Accounted(top)'
    BY <1>1, <1>2, <1>4, QueuedKept, InHandKept, AccountedKept
  <2>2. Happened(Restarts)' \/ Replies(top)'
    BY <1>1, <1>2, <1>4, RepliesKept, RestartStays
  <2>3. QED
    BY <2>1, <2>2 DEF OrderInv
<1>5. QED
  BY <1>3, <1>4

(* Nothing has been taken, seen or counted. *)
LEMMA InitInOrder ==
  Init => Queued(0) /\ InHand(0) /\ Accounted(0) /\ Replies(0)
<1> SUFFICES ASSUME Init
             PROVE  Queued(0) /\ InHand(0) /\ Accounted(0) /\ Replies(0)
  OBVIOUS
<1>1. Len(<<>>) = 0 /\ Ascending(<<>>) /\ Above(<<>>, 0) /\ UpTo(<<>>, 0)
      /\ Before(<<>>, <<>>)
  BY NoFrames, EmptySeq
<1>2. Queued(0)
  BY <1>1 DEF Init, Queued
<1>3. InHand(0)
  BY DEF Init, InHand, Foreign
<1>4. Stroking = 0 /\ Phantoms = 0 /\ Excuses = 0
  BY <1>1 DEF Init, Stroking, Phantoms, Excuses, FaultKinds
<1>5. Accounted(0)
  BY <1>4 DEF Init, Accounted
<1>6. Replies(0)
  BY <1>1, EmptySeq DEF Init, Replies, InOrder, Observable, Garbage
<1>7. QED
  BY <1>2, <1>3, <1>5, <1>6

LEMMA OrderAlways == Spec => [](TypeOK /\ OrderInv)
<1>1. Init => OrderInv
  BY InitInOrder DEF OrderInv
<1>2. QED
  BY <1>1, TypeCorrect, OrderInductive, PTL DEF Spec

(* The watchdog is stroked once for each command taken, and otherwise only *)
(* on behalf of a fault, in whatever order frames and faults come.         *)
THEOREM WatchdogCorrect == Spec => []WatchdogNeedsHost
<1>1. TypeOK /\ OrderInv => WatchdogNeedsHost
  <2> SUFFICES ASSUME TypeOK, OrderInv PROVE WatchdogNeedsHost
    OBVIOUS
  <2>1. PICK top \in Nat : Queued(top) /\ Accounted(top)
    BY DEF OrderInv
  <2>2. /\ sent \in Nat /\ strokes \in Nat /\ Stroking \in Nat
        /\ Phantoms \in Nat /\ Excuses \in Nat
    BY HandledTypes DEF TypeOK, Excuses
  <2>3. strokes <= sent + Excuses
    BY <2>1, <2>2 DEF Queued, Accounted
  <2>4. QED
    BY <2>2, <2>3, HandledTypes DEF Excuses, WatchdogNeedsHost, TypeOK
<1>2. QED
  BY <1>1, OrderAlways, PTL

(* No fault makes the registers go back to an older command. *)
THEOREM AppliedCorrect == Spec => AppliedMonotone
<1>1. TypeOK /\ OrderInv /\ [Next]_vars
        => [applied' >= applied \/ cpu' = "boot"]_vars
  <2> SUFFICES ASSUME TypeOK, OrderInv, [Next]_vars
               PROVE  applied' >= applied \/ cpu' = "boot"
    OBVIOUS
  <2>1. PICK top \in Nat : InHand(top)
    BY DEF OrderInv
  <2>2. applied \in Nat
    BY DEF TypeOK
  <2>3. CASE WriteRegs
    BY <2>1, <2>2, <2>3 DEF WriteRegs, InHand
  <2>4. CASE BoardReset
    BY <2>4 DEF BoardReset
  <2>5. CASE ~WriteRegs /\ ~BoardReset
    <3>1. applied' = applied
      <4> USE DEF nios
      <4>1. HostStep => applied' = applied
        BY DEF HostStep, HostSend, HostSendFails, HostRecv, HostRecvFails,
               HostRestart
      <4>2. WireStep => applied' = applied
        BY DEF WireStep, Deliver, LoseCommand, ForeignToBoard, ForeignToHost
      <4>3. Handler => applied' = applied
        BY <2>5 DEF Handler, IsrEnter, Receive, ReceiveGood, ReceiveBad,
           ReceiveNone, ReceiveBusError, Reject, Answer, TxDone, TxLost,
           Transmitted
      <4>4. Boot \/ UNCHANGED vars => applied' = applied
        BY DEF Boot, vars
      <4>5. QED
        BY <2>5, <4>1, <4>2, <4>3, <4>4 DEF Next
    <3>2. QED
      BY <2>2, <3>1
  <2>6. QED
    BY <2>3, <2>4, <2>5
<1>2. QED
  BY <1>1, OrderAlways, PTL DEF Spec, AppliedMonotone

(* The pins never show an older reply, or an older state of the registers, *)
(* than they did, as long as neither end is started again.                 *)
THEOREM FeedbackCorrect == Spec => FeedbackMonotone
<1>1. TypeOK /\ OrderInv /\ [Next]_vars
        => [~Happened({"hostRestart", "boardReset"})'
              => /\ feedback'.seq >= feedback.seq
                 /\ feedback'.applied >= feedback.applied]_vars
  <2> SUFFICES ASSUME TypeOK, OrderInv, [Next]_vars, ~Happened(Restarts)'
               PROVE  /\ feedback'.seq >= feedback.seq
                      /\ feedback'.applied >= feedback.applied
    BY DEF Restarts
  <2>1. ~Happened(Restarts) /\ ~HostRestart
    BY RestartStays
  <2>2. PICK top \in Nat : Replies(top)
    BY <2>1 DEF OrderInv
  <2>3. CASE HostRecv
    BY <2>2, <2>3, ObservedReply
  <2>4. CASE ~HostRecv
    <3>1. feedback' = feedback
      <4> USE DEF host
      <4>1. HostStep => feedback' = feedback
        BY <2>1, <2>4 DEF HostStep, HostSend, HostSendFails, HostRecvFails
      <4>2. WireStep => feedback' = feedback
        BY DEF WireStep, Deliver, LoseCommand, ForeignToBoard, ForeignToHost
      <4>3. Handler => feedback' = feedback
        BY DEF Handler, IsrEnter, Receive, ReceiveGood, ReceiveBad,
           ReceiveNone, ReceiveBusError, Reject, Answer, TxDone, TxLost,
           Transmitted, WriteRegs
      <4>4. BoardReset \/ Boot \/ UNCHANGED vars => feedback' = feedback
        BY DEF BoardReset, Boot, vars
      <4>5. QED
        BY <4>1, <4>2, <4>3, <4>4 DEF Next
    <3>2. feedback.seq \in Nat /\ feedback.applied \in Nat
      BY DEF TypeOK, HostFrame
    <3>3. QED
      BY <3>1, <3>2
  <2>5. QED
    BY <2>3, <2>4
<1>2. QED
  BY <1>1, OrderAlways, PTL DEF Spec, FeedbackMonotone

-----------------------------------------------------------------------------
(***************************************************************************)
(* What the host has seen.  A number x bounds what it has seen or is about *)
(* to see if no reply in its hands answers a later command.  The newest    *)
(* command the handler took is such a number, and so is the last one it    *)
(* answered, unless a reset took that away: then nothing but a newer       *)
(* command, which the host cannot have seen answered, fills the registers  *)
(* again, and a reply that is still under way is none the wiser.           *)
(***************************************************************************)
Seen(x) ==
  feedback.seq <= x /\ \A i \in 1 .. Len(sock) : sock[i].seq <= x

SeenInv ==
  \E top \in Nat : /\ Queued(top) /\ InHand(top) /\ Accounted(top)
                   /\ Seen(top)
                   /\ Answered # 0 => Seen(Answered)

(* More is seen only when a reply is transmitted. *)
LEMMA SeenKept ==
  ASSUME TypeOK, NEW x \in Nat, Seen(x), [Next]_vars,
         TxDone => tx.seq <= x
  PROVE  Seen(x)'
<1> USE DEF host
<1>1. /\ sock \in Seq(HostFrame) /\ tx \in HostFrame
      /\ Garbage \in HostFrame /\ Garbage.seq = 0
  BY DEF TypeOK, HostFrame, Garbage
<1>2. ASSUME NEW f \in HostFrame, f.seq <= x, sock' = Append(sock, f),
             UNCHANGED feedback
      PROVE  Seen(x)'
  <2>1. /\ Len(sock) \in Nat /\ Len(sock') = Len(sock) + 1
        /\ \A i \in 1 .. Len(sock') :
             /\ i \in 1 .. Len(sock) => sock'[i] = sock[i]
             /\ i \notin 1 .. Len(sock) => sock'[i] = f
    BY <1>1, <1>2, AppendAt
  <2>2. QED
    BY <1>2, <2>1 DEF Seen
<1>3. CASE HostRecv
  <2>1. /\ Head(sock) = sock[1] /\ 1 \in 1 .. Len(sock)
        /\ \A i \in 1 .. Len(sock') :
             sock'[i] = sock[i + 1] /\ i + 1 \in 1 .. Len(sock)
    BY <1>1, <1>3, TailAt DEF HostRecv
  <2>2. feedback' = sock[1] \/ feedback' = feedback
    BY <1>3, <2>1 DEF HostRecv
  <2>3. QED
    BY <2>1, <2>2 DEF Seen
<1>4. CASE ForeignToHost
  BY <1>1, <1>2, <1>4 DEF ForeignToHost
<1>5. CASE TxDone
  BY <1>1, <1>2, <1>5 DEF TxDone, Transmitted
<1>6. CASE HostRestart
  <2>1. Len(<<>>) = 0
    BY NoFrames
  <2>2. feedback'.seq = 0 /\ Len(sock') = 0
    BY <1>1, <1>6, <2>1 DEF HostRestart
  <2>3. QED
    BY <2>2 DEF Seen
<1>7. CASE UNCHANGED <<sock, feedback>>
  BY <1>7 DEF Seen
<1>8. HostStep => HostRecv \/ HostRestart \/ UNCHANGED <<sock, feedback>>
  BY DEF HostStep, HostSend, HostSendFails, HostRecvFails
<1>9. WireStep => ForeignToHost \/ UNCHANGED <<sock, feedback>>
  BY DEF WireStep, Deliver, LoseCommand, ForeignToBoard
<1>10. Handler => TxDone \/ UNCHANGED <<sock, feedback>>
  BY DEF Handler, IsrEnter, Receive, ReceiveGood, ReceiveBad, ReceiveNone,
     ReceiveBusError, Reject, Answer, TxLost, Transmitted, WriteRegs
<1>11. BoardReset \/ Boot \/ UNCHANGED vars => UNCHANGED <<sock, feedback>>
  BY DEF BoardReset, Boot, vars
<1>12. QED
  BY <1>3, <1>4, <1>5, <1>6, <1>7, <1>8, <1>9, <1>10, <1>11 DEF Next

(* The last command answered is the same until the handler answers the one *)
(* in its hands, or a reset.                                               *)
LEMMA AnsweredMoves ==
  ASSUME TypeOK, NEW top \in Nat, InHand(top), [Next]_vars
  PROVE  \/ Answered' = Answered
         \/ Answered' = 0
         \/ cpu = "transmit" /\ tx.seq = top /\ Answered' = top
<1> USE DEF nios, Answered, InHand, Foreign
<1>1. CASE HostStep \/ WireStep
  BY <1>1 DEF HostStep, HostSend, HostSendFails, HostRecv, HostRecvFails,
     HostRestart, WireStep, Deliver, LoseCommand, ForeignToBoard,
     ForeignToHost
<1>2. CASE IsrEnter \/ Receive \/ Reject \/ Answer
  BY <1>2 DEF IsrEnter, Receive, ReceiveGood, ReceiveBad, ReceiveNone,
     ReceiveBusError, Reject, Answer
<1>3. CASE TxDone \/ TxLost
  BY <1>3 DEF TxDone, TxLost, Transmitted
<1>4. CASE WriteRegs
  BY <1>4 DEF WriteRegs
<1>5. CASE BoardReset
  BY <1>5 DEF BoardReset
<1>6. CASE Boot \/ UNCHANGED vars
  BY <1>6 DEF Boot, vars
<1>7. QED
  BY <1>1, <1>2, <1>3, <1>4, <1>5, <1>6 DEF Next, Handler

LEMMA SeenInductive == TypeOK /\ SeenInv /\ [Next]_vars => SeenInv'
<1> SUFFICES ASSUME TypeOK, SeenInv, [Next]_vars PROVE SeenInv'
  OBVIOUS
<1>1. PICK top \in Nat : /\ Queued(top) /\ InHand(top) /\ Accounted(top)
                         /\ Seen(top)
                         /\ Answered # 0 => Seen(Answered)
  BY DEF SeenInv
<1>2. TypeOK'
  BY TypeInductive
<1>3. CASE ReceiveGood
  <2>1. rxFifo \in Seq(Nat) /\ rxFifo # <<>> /\ Head(rxFifo) \in Nat
    BY <1>3, QueueOps DEF ReceiveGood, TypeOK
  <2>2. PICK c \in Nat :
          c = IF Head(rxFifo) # Foreign THEN Head(rxFifo) ELSE top
    BY <2>1
  <2>3. Head(rxFifo) # Foreign => top < c
    BY <1>1, <2>1, <2>2, TailAt DEF Queued, Above
  <2>4. Queued(c)' /\ top <= c
    BY <1>1, <1>3, <2>2, QueuedTaken
  <2>5. InHand(c)' /\ Accounted(c)'
    BY <1>1, <1>3, <2>2, <2>3, <2>4, CommandTaken
  <2>6. UNCHANGED <<sock, feedback, applied>> /\ cpu = "receive"
        /\ cpu' = "check"
    BY <1>3 DEF ReceiveGood, host
  <2>7. /\ feedback.seq \in Nat
        /\ \A i \in 1 .. Len(sock) : sock[i].seq \in Nat
    <3>1. sock \in Seq(HostFrame) /\ feedback \in HostFrame
      BY DEF TypeOK
    <3>2. \A i \in 1 .. Len(sock) : sock[i] \in HostFrame
      BY <3>1, ElementOfSeq
    <3>3. QED
      BY <3>1, <3>2 DEF HostFrame
  <2>8. Seen(c)'
    BY <1>1, <2>4, <2>6, <2>7 DEF Seen
  <2>9. Answered' = Answered /\ (Seen(Answered) => Seen(Answered)')
    BY <2>6 DEF Answered, Seen
  <2>10. QED
    BY <1>1, <2>4, <2>5, <2>8, <2>9 DEF SeenInv
<1>4. CASE ~ReceiveGood
  <2>1. Queued(top)' /\ InHand(top)' /\ Accounted(top)'
    BY <1>1, <1>2, <1>4, QueuedKept, InHandKept, AccountedKept
  <2>2. TxDone => cpu = "transmit" /\ tx.seq = rxt /\ rxt \in {0, top}
    BY <1>1 DEF TxDone, Transmitted, InHand, Foreign
  <2>3. Seen(top)'
    BY <1>1, <2>2, SeenKept
  <2>4. ASSUME Answered' # 0 PROVE Seen(Answered)'
    <3>1. CASE Answered' = Answered
      <4>1. Answered \in Nat
        BY DEF Answered, TypeOK
      <4>2. TxDone => tx.seq <= Answered
        BY <1>1, <2>2, <2>4, <3>1, <4>1
        DEF TxDone, Transmitted, Answered, Foreign
      <4>3. QED
        BY <1>1, <2>4, <3>1, <4>1, <4>2, SeenKept DEF Seen
    <3>2. CASE Answered' = top
      BY <2>3, <3>2 DEF Seen
    <3>3. QED
      BY <1>1, <2>4, <3>1, <3>2, AnsweredMoves
  <2>5. QED
    BY <2>1, <2>3, <2>4 DEF SeenInv
<1>5. QED
  BY <1>3, <1>4

(* Once the host has seen a command answered, the registers hold it, a     *)
(* later one or the zeros of a reset, in whatever order resets of the      *)
(* board, new lives of the driver, losses and replies come.                *)
THEOREM RegistersCorrect == Spec => []RegistersNotBehind
<1>1. Init => SeenInv
  <2> SUFFICES ASSUME Init
               PROVE  Seen(0) /\ (Answered # 0 => Seen(Answered))
    BY InitInOrder DEF SeenInv
  <2>1. feedback.seq = 0 /\ Len(sock) = 0
    BY NoFrames DEF Init, Garbage
  <2>2. QED
    BY <2>1 DEF Init, Seen, Answered
<1>2. TypeOK /\ SeenInv => RegistersNotBehind
  BY DEF SeenInv, Seen, RegistersNotBehind, TypeOK, HostFrame, Answered
<1>3. QED
  BY <1>1, <1>2, TypeCorrect, SeenInductive, PTL DEF Spec

-----------------------------------------------------------------------------
(***************************************************************************)
(* The undisturbed link.  With no fault in the budget exactly one frame is *)
(* under way while the host waits, and none while it does not; only the    *)
(* writes of the last command may lag behind, as far as the next frame's   *)
(* arrival in the chip.                                                    *)
(***************************************************************************)
Undisturbed == \A budget \in Budgets, k \in FaultKinds : budget[k] = 0

Settled(n) == cpu \in {"main", "write"} /\ Answered = n

Quiet == wire = <<>> /\ rxFifo = <<>> /\ sock = <<>> /\ prs = 0

OneUnderWay ==
  \/ /\ wire = <<sent>> /\ rxFifo = <<>> /\ sock = <<>> /\ prs = 0
     /\ Settled(sent - 1)
  \/ /\ wire = <<>> /\ rxFifo = <<sent>> /\ sock = <<>>
     /\ \/ prs = 1 /\ Settled(sent - 1)
        \/ prs = 0 /\ cpu = "receive" /\ applied = sent - 1
  \/ /\ Quiet /\ rxt = sent /\ applied = sent - 1
     /\ \/ cpu = "check"
        \/ cpu = "transmit" /\ tx = [seq |-> sent, applied |-> sent - 1]
  \/ /\ wire = <<>> /\ rxFifo = <<>> /\ prs = 0
     /\ sock = <<[seq |-> sent, applied |-> sent - 1]>>
     /\ Settled(sent)

InStep ==
  /\ hostPc = "idle" => Quiet /\ Settled(sent) /\ feedback.seq = sent
  /\ hostPc = "waiting" => /\ OneUnderWay
                           /\ sent > 0 /\ feedback.seq = sent - 1
  /\ cpu = "write" => rxt = applied + 1
  /\ FeedbackOneBehind

LEMMA OneFrame ==
  ASSUME NEW f
  PROVE  /\ <<f>> # <<>> /\ Append(<<>>, f) = <<f>>
         /\ Head(<<f>>) = f /\ Tail(<<f>>) = <<>>
  OBVIOUS

LEMMA NoFault ==
  ASSUME Undisturbed, TypeOK, NEW k \in FaultKinds
  PROVE  ~Fault(k)
<1> SUFFICES ASSUME Fault(k) PROVE FALSE
  OBVIOUS
<1>1. PICK budget \in Budgets : faults'[k] <= budget[k]
  BY DEF Fault
<1>2. faults'[k] = faults[k] + 1 /\ faults[k] \in Nat
  BY DEF Fault, TypeOK
<1>3. QED
  BY <1>1, <1>2 DEF Undisturbed

(* What is left of Next without faults. *)
LEMMA FaultlessStep ==
  ASSUME Undisturbed, TypeOK, [Next]_vars
  PROVE  \/ HostSend \/ HostRecv \/ Deliver
         \/ IsrEnter \/ ReceiveGood \/ ReceiveNone \/ Reject \/ Answer
         \/ TxDone \/ WriteRegs \/ Boot \/ UNCHANGED vars
<1>1. /\ ~HostSendFails /\ ~HostRecvFails /\ ~HostRestart
      /\ ~LoseCommand /\ ~ForeignToBoard /\ ~ForeignToHost
      /\ ~ReceiveBad /\ ~ReceiveBusError /\ ~TxLost /\ ~BoardReset
  BY NoFault DEF HostSendFails, HostRecvFails, HostRestart, LoseCommand,
     ForeignToBoard, ForeignToHost, ReceiveBad, ReceiveBusError, TxLost,
     BoardReset, FaultKinds
<1>2. QED
  BY <1>1 DEF Next, HostStep, WireStep, Handler, Receive

(* Each step keeps the two ends in step, and is a step of ServoLoop or     *)
(* none.                                                                   *)
LEMMA LockstepInductive ==
  ASSUME Undisturbed, TypeOK, InStep, [Next]_vars
  PROVE  InStep' /\ [Lockstep!Next]_(Lockstep!vars)
<1> USE OneFrame DEF host, chip, nios, Foreign
<1>1. /\ sent \in Nat /\ applied \in Nat /\ rxt \in Nat
      /\ feedback.seq \in Nat /\ feedback.applied \in Nat
      /\ hostPc \in {"idle", "waiting"}
  BY DEF TypeOK, HostFrame
<1> USE DEF InStep, Quiet, Settled, Answered, FeedbackOneBehind,
            Lockstep!Next, Lockstep!vars
<1>2. CASE HostSend
  <2>1. /\ hostPc = "idle" /\ hostPc' = "waiting"
        /\ sent' = sent + 1 /\ wire' = <<sent'>> /\ sent < MaxSent
        /\ UNCHANGED <<feedback, sock, rxFifo, prs, cpu, rxt, applied>>
    BY <1>2 DEF HostSend
  <2>2. InStep'
    BY <1>1, <2>1 DEF OneUnderWay
  <2>3. Lockstep!Issue
    BY <1>1, <2>1 DEF Lockstep!Issue
  <2>4. QED
    BY <2>2, <2>3
<1>3. CASE HostRecv
  <2>0. /\ hostPc = "waiting" /\ sock # <<>> /\ OneUnderWay /\ sent > 0
    BY <1>3 DEF HostRecv
  <2>1. /\ hostPc = "waiting" /\ hostPc' = "idle"
        /\ sock = <<[seq |-> sent, applied |-> sent - 1]>>
        /\ wire = <<>> /\ rxFifo = <<>> /\ prs = 0 /\ Settled(sent)
        /\ sent > 0
        /\ sock' = <<>> /\ feedback' = [seq |-> sent, applied |-> sent - 1]
        /\ UNCHANGED <<sent, wire, rxFifo, prs, cpu, rxt, applied>>
    <3>1. /\ sock = <<[seq |-> sent, applied |-> sent - 1]>>
          /\ wire = <<>> /\ rxFifo = <<>> /\ prs = 0 /\ Settled(sent)
      BY <2>0 DEF OneUnderWay
    <3>2. /\ Head(sock) = [seq |-> sent, applied |-> sent - 1]
          /\ Tail(sock) = <<>>
      BY <3>1
    <3>3. Head(sock).seq # 0
      BY <1>1, <2>0, <3>2
    <3>4. QED
      BY <1>3, <2>0, <3>1, <3>2, <3>3 DEF HostRecv
  <2>2. InStep'
    BY <1>1, <2>1
  <2>3. Lockstep!Observe
    BY <1>1, <2>1 DEF Lockstep!Observe
  <2>4. QED
    BY <2>2, <2>3
<1>4. CASE Deliver
  <2>1. /\ hostPc = "waiting" /\ wire = <<sent>> /\ rxFifo = <<>>
        /\ sock = <<>> /\ Settled(sent - 1)
        /\ wire' = <<>> /\ rxFifo' = <<sent>> /\ prs' = 1
        /\ UNCHANGED <<hostPc, sent, feedback, sock, cpu, rxt, applied>>
    BY <1>1, <1>4 DEF Deliver, Arrive, OneUnderWay
  <2>2. QED
    BY <1>1, <2>1 DEF OneUnderWay
<1>5. CASE IsrEnter
  <2>1. /\ hostPc = "waiting" /\ rxFifo = <<sent>> /\ wire = <<>>
        /\ sock = <<>> /\ applied = sent - 1
        /\ cpu = "main" /\ cpu' = "receive" /\ prs' = 0
        /\ UNCHANGED <<hostPc, sent, feedback, sock, wire, rxFifo, rxt,
                       applied>>
    BY <1>1, <1>5 DEF IsrEnter, OneUnderWay
  <2>2. QED
    BY <1>1, <2>1 DEF OneUnderWay
<1>6. CASE ReceiveGood
  <2>1. /\ hostPc = "waiting" /\ rxFifo = <<sent>> /\ wire = <<>>
        /\ sock = <<>> /\ prs = 0 /\ applied = sent - 1
        /\ cpu = "receive" /\ cpu' = "check" /\ rxFifo' = <<>>
        /\ rxt' = sent
        /\ UNCHANGED <<hostPc, sent, feedback, sock, wire, prs, applied>>
    BY <1>1, <1>6 DEF ReceiveGood, OneUnderWay
  <2>2. QED
    BY <1>1, <2>1 DEF OneUnderWay
<1>7. CASE ReceiveNone \/ Reject
  <2>1. cpu \in {"receive", "check"}
    BY <1>7 DEF ReceiveNone, Reject
  <2>2. OneUnderWay /\ sent > 0
    BY <1>1, <2>1
  <2>3. /\ cpu = "receive" => rxFifo = <<sent>>
        /\ cpu = "check" => rxt = sent
    BY <2>1, <2>2 DEF OneUnderWay
  <2>4. ~ReceiveNone
    BY <2>3 DEF ReceiveNone
  <2>5. ~Reject
    BY <1>1, <2>2, <2>3 DEF Reject
  <2>6. QED
    BY <1>7, <2>4, <2>5
<1>8. CASE Answer
  <2>1. /\ hostPc = "waiting" /\ Quiet /\ rxt = sent /\ applied = sent - 1
        /\ cpu = "check" /\ cpu' = "transmit"
        /\ tx' = [seq |-> sent, applied |-> sent - 1]
        /\ UNCHANGED <<hostPc, sent, feedback, sock, wire, rxFifo, prs, rxt,
                       applied>>
    BY <1>1, <1>8 DEF Answer, OneUnderWay
  <2>2. QED
    BY <1>1, <2>1 DEF OneUnderWay
<1>9. CASE TxDone
  <2>1. /\ hostPc = "waiting" /\ Quiet /\ rxt = sent /\ applied = sent - 1
        /\ cpu = "transmit" /\ tx = [seq |-> sent, applied |-> sent - 1]
        /\ sent > 0
    BY <1>1, <1>9 DEF TxDone, Transmitted, OneUnderWay
  <2>2. /\ cpu' = "write" /\ sock' = <<[seq |-> sent, applied |-> sent - 1]>>
        /\ UNCHANGED <<hostPc, sent, feedback, wire, rxFifo, prs, rxt,
                       applied>>
    BY <1>1, <1>9, <2>1 DEF TxDone, Transmitted
  <2>3. InStep'
    BY <1>1, <2>1, <2>2 DEF OneUnderWay
  <2>4. Lockstep!Answer
    BY <1>1, <2>1, <2>2 DEF Lockstep!Answer
  <2>5. QED
    BY <2>3, <2>4
<1>10. CASE WriteRegs
  <2>1. /\ cpu = "write" /\ cpu' = "main" /\ rxt = applied + 1
        /\ applied' = rxt
        /\ UNCHANGED <<hostPc, sent, feedback, sock, wire, rxFifo, prs, rxt,
                       tx>>
    BY <1>10 DEF WriteRegs
  <2>2. InStep'
    BY <1>1, <2>1 DEF OneUnderWay
  <2>3. Lockstep!Apply
    BY <1>1, <2>1 DEF Lockstep!Apply
  <2>4. QED
    BY <2>2, <2>3
<1>11. CASE Boot
  <2>1. cpu = "boot" /\ (OneUnderWay \/ Settled(sent))
    BY <1>1, <1>11 DEF Boot
  <2>2. QED
    BY <2>1 DEF OneUnderWay
<1>12. CASE UNCHANGED vars
  BY <1>12 DEF vars, OneUnderWay
<1>13. QED
  BY <1>2, <1>3, <1>4, <1>5, <1>6, <1>7, <1>8, <1>9, <1>10, <1>11, <1>12,
     FaultlessStep

LEMMA InitInStep == Init => InStep /\ Lockstep!Init
  BY DEF Init, InStep, Quiet, Settled, Answered, FeedbackOneBehind, Garbage,
         Lockstep!Init

(* Without faults the link takes the steps of the lockstep and no others,  *)
(* for any number of commands.                                             *)
THEOREM LockstepCorrect ==
  ASSUME Undisturbed
  PROVE  Spec => Lockstep!Init /\ [][Lockstep!Next]_(Lockstep!vars)
<1>1. TypeOK /\ InStep /\ [Next]_vars
        => InStep' /\ [Lockstep!Next]_(Lockstep!vars)
  BY LockstepInductive
<1>2. QED
  BY <1>1, InitInStep, TypeCorrect, PTL DEF Spec

(* And the pins always show the state before the command they answer.      *)
THEOREM FeedbackOneBehindCorrect ==
  ASSUME Undisturbed
  PROVE  Spec => []FeedbackOneBehind
<1>1. TypeOK /\ InStep /\ [Next]_vars => InStep'
  BY LockstepInductive
<1>2. InStep => FeedbackOneBehind
  BY DEF InStep
<1>3. QED
  BY <1>1, <1>2, InitInStep, TypeCorrect, PTL DEF Spec

-----------------------------------------------------------------------------
(***************************************************************************)
(* The lag of the pins.  The frames that will reach the host stand in one  *)
(* line: those in its socket, the one the handler has in hand, those in    *)
(* the chip and those on the wire.  The i-th frame of a queue will be      *)
(* taken when the host has sent as many commands more as frames stand      *)
(* before it, so the lag it will cause is known already.  It must stay     *)
(* within the delays, less one for each frame behind it that will not be a *)
(* reply: taking that one makes the pins older by a command.  Instead of   *)
(* counting those, the invariant asks for a ladder, a bound for each frame *)
(* that rises at every such frame: Line(q, lo, hi, t) says that there is   *)
(* one from lo to hi along q, when the host takes the frame before q at    *)
(* its command t.                                                          *)
(***************************************************************************)
Junk(f) == IF f = Foreign THEN 1 ELSE 0

Rungs(q, lo, hi, g) ==
  \A j \in 1 .. Len(q) :
    /\ lo + Junk(q[j]) <= g[j] /\ g[j] <= hi
    /\ \A i \in 1 .. j - 1 : g[i] + Junk(q[j]) <= g[j]

Below(q, t, g) == \A i \in 1 .. Len(q) : q[i] # Foreign => t + i - q[i] <= g[i]

Line(q, lo, hi, t) ==
  /\ lo <= hi
  /\ \E g \in [1 .. Len(q) -> Int] : Rungs(q, lo, hi, g) /\ Below(q, t, g)

LEMMA JunkIsBit ==
  /\ \A f : Junk(f) \in {0, 1} /\ (f # Foreign => Junk(f) = 0)
  /\ Junk(Foreign) = 1
  BY DEF Junk

(* The whole ladder may be raised, and its ends moved apart. *)
LEMMA LineRaised ==
  ASSUME NEW q \in Seq(Nat), NEW lo \in Int, NEW hi \in Int, NEW t \in Int,
         NEW d \in Int, NEW lo1 \in Int, NEW hi1 \in Int, NEW t1 \in Int,
         Line(q, lo, hi, t), lo1 <= lo + d, hi + d <= hi1, t1 <= t + d
  PROVE  Line(q, lo1, hi1, t1)
<1>0. Len(q) \in Nat /\ \A i \in 1 .. Len(q) : q[i] \in Nat
  BY LenProperties, ElementOfSeq
<1>1. PICK g \in [1 .. Len(q) -> Int] : Rungs(q, lo, hi, g) /\ Below(q, t, g)
  BY DEF Line
<1> DEFINE e == [i \in 1 .. Len(q) |-> g[i] + d]
<1>2. /\ e \in [1 .. Len(q) -> Int]
      /\ \A i \in 1 .. Len(q) : e[i] = g[i] + d /\ g[i] \in Int
  OBVIOUS
<1> HIDE DEF e
<1>3. Rungs(q, lo1, hi1, e)
  <2> SUFFICES ASSUME NEW j \in 1 .. Len(q)
               PROVE  /\ lo1 + Junk(q[j]) <= e[j] /\ e[j] <= hi1
                      /\ \A i \in 1 .. j - 1 : e[i] + Junk(q[j]) <= e[j]
    BY DEF Rungs
  <2>1. /\ lo + Junk(q[j]) <= g[j] /\ g[j] <= hi
        /\ \A i \in 1 .. j - 1 : g[i] + Junk(q[j]) <= g[j]
    BY <1>1 DEF Rungs
  <2>2. Junk(q[j]) \in {0, 1} /\ e[j] = g[j] + d /\ g[j] \in Int
    BY <1>2, JunkIsBit
  <2>3. ASSUME NEW i \in 1 .. j - 1 PROVE e[i] + Junk(q[j]) <= e[j]
    <3>1. i \in 1 .. Len(q)
      BY <1>0
    <3>2. e[i] = g[i] + d /\ g[i] \in Int /\ g[i] + Junk(q[j]) <= g[j]
      BY <1>2, <2>1, <3>1
    <3>3. QED
      BY <2>2, <3>2
  <2>4. QED
    BY <2>1, <2>2, <2>3
<1>4. Below(q, t1, e)
  BY <1>0, <1>1, <1>2 DEF Below
<1>5. QED
  BY <1>1, <1>2, <1>3, <1>4 DEF Line

LEMMA LineEmpty ==
  ASSUME NEW lo \in Int, NEW hi \in Int, lo <= hi, NEW t
  PROVE  Line(<<>>, lo, hi, t)
<1>1. Len(<<>>) = 0 /\ \A i : i \notin 1 .. 0
  BY EmptySeq
<1>2. [i \in 1 .. 0 |-> 0] \in [1 .. 0 -> Int]
  OBVIOUS
<1>3. QED
  BY <1>1, <1>2 DEF Line, Rungs, Below

(* A frame that is within the top joins the line; any other raises the top. *)
LEMMA LineJoined ==
  ASSUME NEW q \in Seq(Nat), NEW lo \in Int, NEW hi \in Int, NEW t \in Int,
         Line(q, lo, hi, t), NEW f \in Nat, NEW hi1 \in Int,
         hi + Junk(f) <= hi1, f # Foreign => t + Len(q) + 1 - f <= hi1
  PROVE  Line(Append(q, f), lo, hi1, t)
<1>0. /\ Len(q) \in Nat /\ \A i \in 1 .. Len(q) : q[i] \in Nat
      /\ Junk(f) \in {0, 1}
  BY LenProperties, ElementOfSeq, JunkIsBit
<1>1. PICK g \in [1 .. Len(q) -> Int] : Rungs(q, lo, hi, g) /\ Below(q, t, g)
  BY DEF Line
<1> DEFINE n == Len(q) + 1
           e == [i \in 1 .. n |-> IF i = n THEN hi1 ELSE g[i]]
           r == Append(q, f)
<1>2. /\ e \in [1 .. n -> Int] /\ e[n] = hi1
      /\ \A i \in 1 .. Len(q) : e[i] = g[i] /\ g[i] \in Int
  <2>1. /\ n \in 1 .. n
        /\ \A i \in 1 .. Len(q) : i \in 1 .. n /\ i # n
        /\ \A i \in 1 .. n : i # n => i \in 1 .. Len(q)
    BY <1>0
  <2> HIDE DEF n
  <2>2. \A i \in 1 .. Len(q) : g[i] \in Int
    OBVIOUS
  <2>3. /\ e \in [1 .. n -> Int] /\ e[n] = hi1
        /\ \A i \in 1 .. Len(q) : e[i] = g[i]
    BY <2>1, <2>2
  <2>4. QED
    BY <2>2, <2>3
<1>3. /\ Len(r) = n /\ r[n] = f
      /\ \A i \in 1 .. Len(q) : r[i] = q[i]
  BY AppendProperties
<1>4. \A i \in 1 .. n : i \in 1 .. Len(q) \/ i = n
  BY <1>0
<1> HIDE DEF e, r
<1>5. Rungs(r, lo, hi1, e)
  <2> SUFFICES ASSUME NEW j \in 1 .. n
               PROVE  /\ lo + Junk(r[j]) <= e[j] /\ e[j] <= hi1
                      /\ \A i \in 1 .. j - 1 : e[i] + Junk(r[j]) <= e[j]
    BY <1>3 DEF Rungs
  <2>0. lo <= hi
    BY DEF Line
  <2>1. CASE j \in 1 .. Len(q)
    <3>1. /\ lo + Junk(q[j]) <= g[j] /\ g[j] <= hi
          /\ \A i \in 1 .. j - 1 : g[i] + Junk(q[j]) <= g[j]
      BY <1>1, <2>1 DEF Rungs
    <3>2. \A i \in 1 .. j - 1 : i \in 1 .. Len(q)
      BY <1>0, <2>1
    <3>3. e[j] = g[j] /\ r[j] = q[j] /\ \A i \in 1 .. j - 1 : e[i] = g[i]
      BY <1>2, <1>3, <2>1, <3>2
    <3>4. g[j] \in Int /\ g[j] <= hi1
      BY <1>0, <1>2, <2>1, <3>1
    <3>5. QED
      BY <3>1, <3>3, <3>4
  <2>2. CASE j = n
    <3>1. ASSUME NEW i \in 1 .. j - 1 PROVE e[i] + Junk(r[j]) <= e[j]
      <4>1. i \in 1 .. Len(q)
        BY <1>0, <2>2
      <4>2. e[i] = g[i] /\ g[i] \in Int /\ g[i] <= hi
        BY <1>1, <1>2, <4>1 DEF Rungs
      <4>3. QED
        BY <1>0, <1>2, <1>3, <2>2, <4>2
    <3>2. QED
      BY <1>0, <1>2, <1>3, <2>0, <2>2, <3>1
  <2>3. QED
    BY <1>4, <2>1, <2>2
<1>6. Below(r, t, e)
  BY <1>0, <1>1, <1>2, <1>3, <1>4 DEF Below
<1>7. lo <= hi1
  BY <1>0 DEF Line
<1>8. Line(r, lo, hi1, t)
  BY <1>2, <1>3, <1>5, <1>6, <1>7 DEF Line
<1>9. QED
  BY <1>8 DEF r

(* The first frame leaves the line, at its own rung. *)
LEMMA LineLeft ==
  ASSUME NEW q \in Seq(Nat), q # <<>>,
         NEW lo \in Int, NEW hi \in Int, NEW t \in Int, Line(q, lo, hi, t)
  PROVE  \E m \in Int : /\ lo + Junk(Head(q)) <= m /\ m <= hi
                        /\ Head(q) # Foreign => t + 1 - Head(q) <= m
                        /\ Line(Tail(q), m, hi, t + 1)
<1>0. /\ Len(q) \in Nat \ {0} /\ \A i \in 1 .. Len(q) : q[i] \in Nat
      /\ Head(q) = q[1] /\ 1 \in 1 .. Len(q)
  BY TailAt
<1>1. PICK g \in [1 .. Len(q) -> Int] : Rungs(q, lo, hi, g) /\ Below(q, t, g)
  BY DEF Line
<1> DEFINE r == Tail(q)
           e == [i \in 1 .. Len(r) |-> g[i + 1]]
<1>2. /\ Len(r) = Len(q) - 1
      /\ \A i \in 1 .. Len(r) : r[i] = q[i + 1] /\ i + 1 \in 1 .. Len(q)
  BY TailAt
<1>3. /\ e \in [1 .. Len(r) -> Int]
      /\ \A i \in 1 .. Len(r) : e[i] = g[i + 1] /\ g[i + 1] \in Int
  BY <1>2
<1> HIDE DEF r, e
<1>4. /\ lo + Junk(q[1]) <= g[1] /\ g[1] <= hi /\ g[1] \in Int
      /\ q[1] # Foreign => t + 1 - q[1] <= g[1]
  BY <1>0, <1>1 DEF Rungs, Below
<1>5. Rungs(r, g[1], hi, e)
  <2> SUFFICES ASSUME NEW j \in 1 .. Len(r)
               PROVE  /\ g[1] + Junk(r[j]) <= e[j] /\ e[j] <= hi
                      /\ \A i \in 1 .. j - 1 : e[i] + Junk(r[j]) <= e[j]
    BY DEF Rungs
  <2>1. /\ g[j + 1] <= hi
        /\ \A i \in 1 .. j : g[i] + Junk(q[j + 1]) <= g[j + 1]
    <3>1. j + 1 \in 1 .. Len(q) /\ (j + 1) - 1 = j
      BY <1>2
    <3>2. QED
      BY <1>1, <3>1 DEF Rungs
  <2>2. 1 \in 1 .. j /\ \A i \in 1 .. j - 1 : i + 1 \in 1 .. j /\ i \in 1 .. Len(r)
    BY <1>0, <1>2
  <2>3. e[j] = g[j + 1] /\ r[j] = q[j + 1]
    BY <1>2, <1>3
  <2>4. \A i \in 1 .. j - 1 : e[i] + Junk(r[j]) <= e[j]
    BY <1>3, <2>1, <2>2, <2>3
  <2>5. QED
    BY <2>1, <2>2, <2>3, <2>4
<1>6. Below(r, t + 1, e)
  <2> SUFFICES ASSUME NEW i \in 1 .. Len(r), r[i] # Foreign
               PROVE  t + 1 + i - r[i] <= e[i]
    BY DEF Below
  <2>1. i + 1 \in 1 .. Len(q) /\ r[i] = q[i + 1] /\ e[i] = g[i + 1]
        /\ q[i + 1] \in Nat /\ g[i + 1] \in Int
    BY <1>0, <1>2, <1>3
  <2>2. t + (i + 1) - q[i + 1] <= g[i + 1]
    BY <1>1, <2>1 DEF Below
  <2>3. i \in Int
    BY <1>2
  <2>4. \A x, y \in Int : t + (i + 1) - x <= y => t + 1 + i - x <= y
    BY <2>3
  <2>5. q[i + 1] \in Int
    BY <2>1
  <2>6. t + 1 + i - q[i + 1] <= g[i + 1]
    BY <2>1, <2>2, <2>4, <2>5, Zenon
  <2>7. QED
    BY <2>1, <2>6, Zenon
<1>7. Line(r, g[1], hi, t + 1)
  BY <1>3, <1>4, <1>5, <1>6 DEF Line
<1>8. QED
  BY <1>0, <1>4, <1>7 DEF r

-----------------------------------------------------------------------------
Seqs == [i \in 1 .. Len(sock) |-> sock[i].seq]

Hand == IF cpu \in {"check", "transmit"} THEN 1 ELSE 0

HandJunk == IF Hand = 1 THEN Junk(rxt) ELSE 0

(* The commands that will have been sent when the host takes a frame.      *)
Turn == IF hostPc = "idle" THEN sent + 1 ELSE sent

(* The same for the frames before the first in the chip and on the wire.   *)
ChipTurn == Turn + Len(sock) + Hand - 1
WireTurn == ChipTurn + Len(rxFifo)

(* The line, from the pins to the end of the wire, where no junk is.       *)
PinsLag(at) ==
  feedback.seq # 0 \/ ~Happened({"hostRestart"})
    => Turn - 1 - feedback.seq <= at

SockLag(at, top) == Line(Seqs, at, top, Turn - 1)

HandLag(top, h) ==
  /\ top + HandJunk <= h
  /\ rxt # Foreign => ChipTurn - rxt <= h

ChipLag(h) == Line(rxFifo, h, Delays, ChipTurn)

WireLag == Line(wire, Delays, Delays, WireTurn)

LagLadder ==
  \E at, top, h \in Int :
    PinsLag(at) /\ SockLag(at, top) /\ HandLag(top, h) /\ ChipLag(h)

(* There are never more frames under way than the faults made, and one. *)
FewFrames ==
  WireTurn + Len(wire) <= sent + Delays

(* Without a chip reset every interrupt finds a frame. *)
NoPhantoms == prs + (IF cpu = "receive" THEN 1 ELSE 0) <= Len(rxFifo)

LagInv ==
  /\ LagLadder /\ WireLag /\ FewFrames
  /\ NoPhantoms
  /\ cpu # "boot"
  /\ cpu = "transmit" => tx.seq = rxt

Resets == {"busError", "boardReset"}

LEMMA LagTypes ==
  ASSUME TypeOK
  PROVE  /\ sent \in Nat /\ feedback.seq \in Nat /\ rxt \in Nat
         /\ prs \in {0, 1} /\ Hand \in {0, 1} /\ HandJunk \in {0, 1}
         /\ Turn \in Nat /\ Turn \in {sent, sent + 1}
         /\ ChipTurn \in Int /\ WireTurn \in Int /\ Delays \in Nat
         /\ Len(sock) \in Nat /\ Len(rxFifo) \in Nat /\ Len(wire) \in Nat
         /\ rxFifo \in Seq(Nat) /\ wire \in Seq(Nat) /\ sock \in Seq(HostFrame)
         /\ Seqs \in Seq(Nat) /\ Len(Seqs) = Len(sock)
<1>1. \A i \in 1 .. Len(sock) : sock[i].seq \in Nat
  <2>1. \A i \in 1 .. Len(sock) : sock[i] \in HostFrame
    BY ElementOfSeq DEF TypeOK
  <2>2. QED
    BY <2>1 DEF HostFrame
<1>2. Len(sock) \in Nat /\ Len(rxFifo) \in Nat /\ Len(wire) \in Nat
  BY LenProperties DEF TypeOK
<1>3. Seqs \in Seq(Nat) /\ Len(Seqs) = Len(sock)
  <2>1. Seqs \in [1 .. Len(sock) -> Nat]
    BY <1>1 DEF Seqs
  <2>2. \A n \in Nat : \A q \in [1 .. n -> Nat] : q \in Seq(Nat) /\ Len(q) = n
    OBVIOUS
  <2>3. QED
    BY <1>2, <2>1, <2>2, Zenon
<1>4. Delays \in Nat
  BY DEF Delays, TypeOK, FaultKinds
<1>5. Hand \in {0, 1} /\ HandJunk \in {0, 1}
  BY JunkIsBit DEF Hand, HandJunk
<1>6. Turn \in Nat /\ Turn \in {sent, sent + 1}
  BY DEF TypeOK, Turn
<1>7. ChipTurn \in Int /\ WireTurn \in Int
  BY <1>2, <1>5, <1>6 DEF ChipTurn, WireTurn
<1>8. QED
  BY <1>2, <1>3, <1>4, <1>5, <1>6, <1>7 DEF TypeOK, HostFrame

(* The numbers in the host's socket move as its frames do. *)
LEMMA SeqsMoved ==
  ASSUME TypeOK
  PROVE  /\ \A f \in HostFrame :
              sock' = Append(sock, f) => Seqs' = Append(Seqs, f.seq)
         /\ sock # <<>> /\ sock' = Tail(sock)
              => /\ Seqs # <<>> /\ Seqs' = Tail(Seqs)
                 /\ Head(Seqs) = Head(sock).seq
<1>0. sock \in Seq(HostFrame) /\ Seqs \in Seq(Nat) /\ Len(Seqs) = Len(sock)
      /\ Len(sock) \in Nat
      /\ \A i \in 1 .. Len(sock) : Seqs[i] = sock[i].seq
  BY LagTypes DEF Seqs
<1>1. ASSUME NEW f \in HostFrame, sock' = Append(sock, f)
      PROVE  Seqs' = Append(Seqs, f.seq)
  <2>0. f.seq \in Nat
    BY DEF HostFrame
  <2> DEFINE n == Len(sock) + 1
             r == Append(Seqs, f.seq)
  <2>1. /\ Len(sock') = n /\ sock'[n] = f
        /\ \A i \in 1 .. Len(sock) : sock'[i] = sock[i]
    BY <1>0, <1>1, AppendAt
  <2>2. /\ Len(r) = n /\ r[n] = f.seq /\ r \in Seq(Nat)
        /\ \A i \in 1 .. Len(sock) : r[i] = sock[i].seq
    BY <1>0, <2>0, AppendProperties
  <2>3. Seqs' = [i \in 1 .. n |-> sock'[i].seq]
    BY <2>1 DEF Seqs
  <2>4. \A i \in 1 .. n : r[i] = sock'[i].seq
    <3>1. \A i \in 1 .. n : i \in 1 .. Len(sock) \/ i = n
      BY <1>0
    <3>2. QED
      BY <2>1, <2>2, <3>1
  <2>5. r = [i \in 1 .. n |-> r[i]]
    BY <2>2, LenProperties
  <2>6. QED
    BY <2>3, <2>4, <2>5
<1>2. ASSUME sock # <<>>, sock' = Tail(sock)
      PROVE  /\ Seqs # <<>> /\ Seqs' = Tail(Seqs)
             /\ Head(Seqs) = Head(sock).seq
  <2>1. /\ Len(sock) \in Nat \ {0} /\ Len(sock') = Len(sock) - 1
        /\ Head(sock) = sock[1]
        /\ \A i \in 1 .. Len(sock) - 1 :
             sock'[i] = sock[i + 1] /\ i + 1 \in 1 .. Len(sock)
    BY <1>0, <1>2, TailAt
  <2>2. Seqs # <<>>
    BY <1>0, <2>1, EmptySeq
  <2> DEFINE r == Tail(Seqs)
  <2>3. /\ Len(r) = Len(sock) - 1 /\ Head(Seqs) = Seqs[1] /\ r \in Seq(Nat)
        /\ \A i \in 1 .. Len(sock) - 1 : r[i] = Seqs[i + 1]
    BY <1>0, <2>2, TailAt, QueueOps
  <2>4. Seqs' = [i \in 1 .. Len(sock) - 1 |-> sock'[i].seq]
    BY <2>1 DEF Seqs
  <2>5. \A i \in 1 .. Len(sock) - 1 : r[i] = sock'[i].seq
    BY <1>0, <2>1, <2>3
  <2>6. r = [i \in 1 .. Len(sock) - 1 |-> r[i]]
    BY <2>3, LenProperties
  <2>7. Head(Seqs) = Head(sock).seq
    BY <1>0, <2>1, <2>3
  <2>8. QED
    BY <2>2, <2>4, <2>5, <2>6, <2>7
<1>3. QED
  BY <1>1, <1>2

(* How a fault moves the number of delays. *)
Delaying ==
  {"recvFail", "foreignToHost", "foreignToBoard", "badPacket", "hostRestart"}

LEMMA DelaysMoved ==
  ASSUME TypeOK, NEW k \in FaultKinds, Fault(k)
  PROVE  /\ Delays' = Delays + (IF k \in Delaying THEN 1 ELSE 0)
         /\ Happened({"hostRestart"}) => Happened({"hostRestart"})'
         /\ Happened({k})'
<1>1. faults \in [FaultKinds -> Nat] /\ faults' = [faults EXCEPT ![k] = @ + 1]
  BY DEF TypeOK, Fault
<1>2. \A j \in FaultKinds :
        /\ faults'[j] = IF j = k THEN faults[j] + 1 ELSE faults[j]
        /\ faults[j] \in Nat
  BY <1>1
<1>3. Delaying \subseteq FaultKinds
  BY DEF FaultKinds, Delaying
<1>4. QED
  BY <1>1, <1>2, <1>3 DEF Delays, Delaying, FaultKinds, Happened

-----------------------------------------------------------------------------
(* Nothing moves before the wire, the host's turn comes by d later at most *)
(* and there are d delays more.                                            *)
LEMMA LadderKept ==
  ASSUME TypeOK, LagLadder, NEW d \in Nat, NEW t1 \in Nat, NEW c1 \in Int,
         NEW k1 \in {0, 1}, NEW d1 \in Nat,
         Turn' = t1, ChipTurn' = c1, Hand' = k1, Delays' = d1,
         t1 <= Turn + d, c1 <= ChipTurn + d, k1 <= Hand, Delays + d <= d1,
         UNCHANGED <<feedback, sock, rxFifo, rxt>>,
         Happened({"hostRestart"}) => Happened({"hostRestart"})'
  PROVE  LagLadder'
<1>0. /\ feedback.seq \in Nat /\ rxt \in Nat
      /\ HandJunk \in {0, 1} /\ Turn \in Nat /\ ChipTurn \in Int
      /\ Delays \in Nat /\ rxFifo \in Seq(Nat) /\ Seqs \in Seq(Nat)
      /\ Hand \in {0, 1}
  BY LagTypes
<1>1. PICK at \in Int, top \in Int, h \in Int :
        PinsLag(at) /\ SockLag(at, top) /\ HandLag(top, h) /\ ChipLag(h)
  BY DEF LagLadder
<1>2. Seqs' = Seqs /\ \E j1 \in {0, 1} : HandJunk' = j1 /\ j1 <= HandJunk
  BY <1>0, JunkIsBit DEF HandJunk, Seqs
<1>3. PinsLag(at + d)'
  <2>1. Turn - 1 - feedback.seq <= at => t1 - 1 - feedback.seq <= at + d
    BY <1>0
  <2>2. QED
    BY <1>1, <2>1 DEF PinsLag
<1>4. SockLag(at + d, top + d)'
  <2> DEFINE lo1 == at + d
             hi1 == top + d
             t == Turn - 1
             u == t1 - 1
  <2>1. /\ lo1 \in Int /\ hi1 \in Int /\ t \in Int /\ u \in Int /\ d \in Int
        /\ lo1 <= at + d /\ top + d <= hi1 /\ u <= t + d
    BY <1>0
  <2>2. Line(Seqs, at, top, t)
    BY <1>1 DEF SockLag
  <2> HIDE DEF lo1, hi1, t, u
  <2>3. Line(Seqs, lo1, hi1, u)
    BY <1>0, <2>1, <2>2, LineRaised, Zenon
  <2>4. QED
    BY <1>2, <2>3 DEF SockLag, lo1, hi1, u
<1>5. HandLag(top + d, h + d)'
  <2>1. \A j1 \in {0, 1} : j1 <= HandJunk => top + d + j1 <= h + d
    BY <1>0, <1>1 DEF HandLag
  <2>2. rxt # Foreign => c1 - rxt <= h + d
    BY <1>0, <1>1 DEF HandLag
  <2>3. QED
    BY <1>2, <2>1, <2>2 DEF HandLag
<1>6. ChipLag(h + d)'
  <2> DEFINE lo1 == h + d
  <2>1. /\ lo1 \in Int /\ d \in Int /\ Delays \in Int /\ d1 \in Int
        /\ lo1 <= h + d /\ Delays + d <= d1
    BY <1>0
  <2>2. Line(rxFifo, h, Delays, ChipTurn)
    BY <1>1 DEF ChipLag
  <2> HIDE DEF lo1
  <2>3. Line(rxFifo, lo1, d1, c1)
    BY <1>0, <2>1, <2>2, LineRaised, Zenon
  <2>4. QED
    BY <2>3 DEF ChipLag, lo1
<1>7. at + d \in Int /\ top + d \in Int /\ h + d \in Int
  OBVIOUS
<1>8. QED
  BY <1>3, <1>4, <1>5, <1>6, <1>7 DEF LagLadder

(* The same for the wire, at whose end no frame joins. *)
LEMMA WireKept ==
  ASSUME TypeOK, WireLag, NEW d \in Nat, NEW d1 \in Nat, NEW w1 \in Int,
         wire' = wire, Delays' = d1, WireTurn' = w1,
         d1 = Delays + d, w1 <= WireTurn + d
  PROVE  WireLag'
<1>0. WireTurn \in Int /\ Delays \in Int /\ wire \in Seq(Nat) /\ d \in Int
      /\ d1 \in Int /\ d1 <= Delays + d /\ Delays + d <= d1
  BY LagTypes
<1>1. Line(wire, d1, d1, w1)
  BY <1>0, LineRaised, Zenon DEF WireLag
<1>2. QED
  BY <1>1 DEF WireLag

(* Steps that move neither the frames before the wire nor the turns. *)
LEMMA LadderSame ==
  ASSUME TypeOK, LagLadder,
         Turn' = Turn, ChipTurn' = ChipTurn, Hand' = Hand, Delays' = Delays,
         UNCHANGED <<feedback, sock, rxFifo, rxt>>,
         Happened({"hostRestart"}) => Happened({"hostRestart"})'
  PROVE  LagLadder'
<1>1. /\ Turn \in Nat /\ ChipTurn \in Int /\ Hand \in {0, 1} /\ Delays \in Nat
      /\ 0 \in Nat
  BY LagTypes
<1>2. /\ Turn <= Turn + 0 /\ ChipTurn <= ChipTurn + 0 /\ Hand <= Hand
      /\ Delays + 0 <= Delays
  BY <1>1
<1>3. QED
  BY <1>1, <1>2, LadderKept, Zenon

-----------------------------------------------------------------------------
LEMMA LagSend ==
  ASSUME TypeOK, LagInv, HostSend
  PROVE  LagInv'
<1> USE DEF host, chip, nios, history
<1>0. /\ sent \in Nat /\ Len(wire) \in Nat /\ Delays \in Nat
      /\ WireTurn \in Int /\ wire \in Seq(Nat)
  BY LagTypes
<1>1. /\ UNCHANGED <<feedback, sock, rxFifo, prs, cpu, tx, rxt, faults>>
      /\ Turn' = Turn /\ Turn = sent + 1 /\ sent' = sent + 1
      /\ wire' = Append(wire, sent + 1)
  BY DEF HostSend, Turn
<1>2. /\ Hand' = Hand /\ Delays' = Delays
      /\ Happened({"hostRestart"})' <=> Happened({"hostRestart"})
  BY <1>1 DEF Hand, Delays, Happened
<1>3. ChipTurn' = ChipTurn /\ WireTurn' = WireTurn
  BY <1>1, <1>2 DEF ChipTurn, WireTurn
<1>4. LagLadder'
  BY <1>1, <1>2, <1>3, LadderSame DEF LagInv
<1>5. WireLag'
  <2> DEFINE f == sent + 1
  <2>1. /\ f \in Nat /\ f # Foreign /\ Junk(f) = 0 /\ Delays \in Int
        /\ Delays + Junk(f) <= Delays
        /\ WireTurn + Len(wire) + 1 - f <= Delays
    BY <1>0, <1>1, JunkIsBit DEF LagInv, FewFrames, Foreign
  <2> HIDE DEF f
  <2>2. Line(Append(wire, f), Delays, Delays, WireTurn)
    BY <1>0, <2>1, LineJoined, Zenon DEF LagInv, WireLag
  <2>3. QED
    BY <1>1, <1>2, <1>3, <2>2 DEF WireLag, f
<1>6. FewFrames'
  <2>1. Len(wire') = Len(wire) + 1
    BY <1>0, <1>1, AppendAt
  <2>2. QED
    BY <1>0, <1>1, <1>2, <1>3, <2>1 DEF LagInv, FewFrames
<1>7. QED
  BY <1>1, <1>4, <1>5, <1>6 DEF LagInv, NoPhantoms

LEMMA LagWait ==
  ASSUME TypeOK, LagInv, HostSendFails \/ HostRecvFails
  PROVE  LagInv'
<1> USE DEF host, chip, nios, history
<1>0. /\ sent \in Nat /\ Turn \in Nat /\ Len(wire) \in Nat /\ Delays \in Nat
      /\ ChipTurn \in Int /\ WireTurn \in Int /\ Hand \in {0, 1}
      /\ Len(sock) \in Nat /\ Len(rxFifo) \in Nat
  BY LagTypes
<1>1. PICK d \in {0, 1} :
        /\ Delays' = Delays + d /\ Turn' = Turn + 2 * d - 1
        /\ Turn + 2 * d - 1 \in Nat
        /\ Happened({"hostRestart"}) => Happened({"hostRestart"})'
  <2>1. CASE HostSendFails
    <3>1. /\ Delays' = Delays + 0
          /\ Happened({"hostRestart"}) => Happened({"hostRestart"})'
      BY <2>1, DelaysMoved DEF HostSendFails, FaultKinds, Delaying
    <3>2. Turn' = sent /\ Turn = sent + 1
      BY <2>1 DEF HostSendFails, Turn
    <3>3. QED
      BY <1>0, <3>1, <3>2
  <2>2. CASE HostRecvFails
    <3>1. /\ Delays' = Delays + 1
          /\ Happened({"hostRestart"}) => Happened({"hostRestart"})'
      BY <2>2, DelaysMoved DEF HostRecvFails, FaultKinds, Delaying
    <3>2. Turn' = sent + 1 /\ Turn = sent
      BY <2>2 DEF HostRecvFails, Turn
    <3>3. QED
      BY <1>0, <3>1, <3>2
  <2>3. QED
    BY <2>1, <2>2
<1>2. UNCHANGED <<sent, feedback, sock, rxFifo, prs, cpu, tx, rxt, wire>>
  BY DEF HostSendFails, HostRecvFails
<1> DEFINE t1 == Turn + 2 * d - 1
           c1 == ChipTurn + 2 * d - 1
           w1 == WireTurn + 2 * d - 1
           d1 == Delays + d
<1>3. /\ Turn' = t1 /\ Hand' = Hand /\ Delays' = d1
      /\ ChipTurn' = c1 /\ WireTurn' = w1
  <2>1. Hand' = Hand
    BY <1>2 DEF Hand
  <2>2. /\ ChipTurn' = t1 + Len(sock) + Hand - 1
        /\ WireTurn' = t1 + Len(sock) + Hand - 1 + Len(rxFifo)
    BY <1>1, <1>2, <2>1 DEF ChipTurn, WireTurn
  <2>3. QED
    BY <1>0, <1>1, <2>1, <2>2 DEF ChipTurn, WireTurn
<1>4. /\ d \in Nat /\ t1 \in Nat /\ c1 \in Int /\ w1 \in Int /\ d1 \in Nat
      /\ t1 <= Turn + d /\ c1 <= ChipTurn + d /\ Delays + d <= d1
      /\ Hand <= Hand /\ w1 <= WireTurn + d /\ d1 = Delays + d
  BY <1>0, <1>1
<1>5. w1 + Len(wire) <= sent + d1
  BY <1>0, <1>1 DEF LagInv, FewFrames
<1> HIDE DEF t1, c1, w1, d1
<1>6. LagLadder'
  BY <1>0, <1>1, <1>2, <1>3, <1>4, LadderKept, Zenon DEF LagInv
<1>7. WireLag'
  BY <1>2, <1>3, <1>4, WireKept, Zenon DEF LagInv
<1>8. FewFrames'
  BY <1>2, <1>3, <1>5 DEF FewFrames
<1>9. QED
  BY <1>2, <1>6, <1>7, <1>8 DEF LagInv, NoPhantoms

(* HostRecv: the pins take the place, in the ladder, of the frame taken. *)
LEMMA LagTake ==
  ASSUME TypeOK, LagInv, HostRecv
  PROVE  LagInv'
<1> USE DEF host, chip, nios, history
<1>0. /\ sent \in Nat /\ Turn \in Nat /\ Len(wire) \in Nat /\ Delays \in Nat
      /\ ChipTurn \in Int /\ WireTurn \in Int /\ feedback.seq \in Nat
      /\ Len(sock) \in Nat /\ Seqs \in Seq(Nat)
  BY LagTypes
<1>1. /\ UNCHANGED <<sent, rxFifo, prs, cpu, tx, rxt, faults, wire>>
      /\ Turn' = Turn + 1 /\ sock # <<>> /\ sock' = Tail(sock)
      /\ feedback' = IF Head(sock).seq # 0 THEN Head(sock) ELSE feedback
  BY DEF HostRecv, Turn
<1>2. Len(sock') = Len(sock) - 1 /\ Len(sock) \in Nat \ {0}
  BY <1>1, TailAt DEF TypeOK
<1>3. /\ Hand' = Hand /\ HandJunk' = HandJunk /\ Delays' = Delays
      /\ Happened({"hostRestart"})' <=> Happened({"hostRestart"})
  BY <1>1 DEF Hand, HandJunk, Delays, Happened
<1>4. ChipTurn' = ChipTurn /\ WireTurn' = WireTurn
  <2>1. /\ ChipTurn' = Turn + 1 + (Len(sock) - 1) + Hand - 1
        /\ WireTurn' = Turn + 1 + (Len(sock) - 1) + Hand - 1 + Len(rxFifo)
    BY <1>1, <1>2, <1>3 DEF ChipTurn, WireTurn
  <2>2. Hand \in {0, 1} /\ Len(rxFifo) \in Nat
    BY LagTypes
  <2>3. QED
    BY <1>0, <2>1, <2>2 DEF ChipTurn, WireTurn
<1>t. PICK n \in Nat : Turn' = n /\ n = Turn + 1
  BY <1>0, <1>1
<1>5. LagLadder'
  <2>1. PICK at \in Int, top \in Int, h \in Int :
          PinsLag(at) /\ SockLag(at, top) /\ HandLag(top, h) /\ ChipLag(h)
    BY DEF LagInv, LagLadder
  <2> DEFINE s == Head(Seqs)
             t == Turn - 1
             u == t + 1
  <2>2. Seqs # <<>> /\ Seqs' = Tail(Seqs) /\ s = Head(sock).seq /\ s \in Nat
    BY <1>0, <1>1, SeqsMoved, QueueOps
  <2>3. t \in Int /\ u = Turn /\ Line(Seqs, at, top, t)
    BY <1>0, <2>1 DEF SockLag
  <2> HIDE DEF t
  <2>4. PICK m \in Int : /\ at + Junk(s) <= m /\ m <= top
                         /\ s # Foreign => t + 1 - s <= m
                         /\ Line(Tail(Seqs), m, top, u)
    BY <1>0, <2>2, <2>3, LineLeft, Zenon
  <2> HIDE DEF s
  <2>5. PinsLag(m)'
    <3>1. CASE s = 0
      <4>1. feedback' = feedback /\ at + 1 <= m
        BY <1>1, <2>2, <2>4, <3>1, JunkIsBit DEF Foreign
      <4>2. Turn - 1 - feedback.seq <= at
              => n - 1 - feedback.seq <= m
        BY <1>0, <1>t, <4>1
      <4>3. QED
        BY <1>3, <1>t, <2>1, <4>1, <4>2 DEF PinsLag
    <3>2. CASE s # 0
      <4>1. feedback' = Head(sock) /\ feedback'.seq = s
        BY <1>1, <2>2, <3>2
      <4>2. n - 1 - s <= m
        BY <1>0, <1>t, <2>2, <2>3, <2>4, <3>2 DEF Foreign
      <4>3. QED
        BY <1>t, <4>1, <4>2 DEF PinsLag
    <3>3. QED
      BY <3>1, <3>2
  <2>6. SockLag(m, top)'
    <3>1. n - 1 = u
      BY <1>0, <1>t, <2>3
    <3>2. QED
      BY <1>t, <2>2, <2>4, <3>1 DEF SockLag
  <2>7. HandLag(top, h)' /\ ChipLag(h)'
    BY <1>1, <1>3, <1>4, <2>1 DEF HandLag, ChipLag
  <2>8. QED
    BY <2>5, <2>6, <2>7 DEF LagLadder
<1>6. WireLag' /\ FewFrames'
  BY <1>1, <1>3, <1>4 DEF LagInv, WireLag, FewFrames
<1>7. QED
  BY <1>1, <1>5, <1>6 DEF LagInv, NoPhantoms

(* The frames in the chip keep their ladder as the others did. *)
LEMMA ChipKept ==
  ASSUME TypeOK, NEW h \in Int, ChipLag(h), NEW d \in Nat, NEW c1 \in Int,
         NEW d1 \in Nat, ChipTurn' = c1, Delays' = d1, rxFifo' = rxFifo,
         c1 <= ChipTurn + d, Delays + d <= d1
  PROVE  ChipLag(h + d)'
<1> DEFINE lo1 == h + d
<1>1. /\ lo1 \in Int /\ d \in Int /\ Delays \in Int /\ d1 \in Int
      /\ lo1 <= h + d /\ ChipTurn \in Int /\ rxFifo \in Seq(Nat)
  BY LagTypes
<1> HIDE DEF lo1
<1>2. Line(rxFifo, lo1, d1, c1)
  BY <1>1, LineRaised, Zenon DEF ChipLag
<1>3. QED
  BY <1>2 DEF ChipLag, lo1

(* HostRestart: a new socket and new pins, which the invariant says        *)
(* nothing about until they show a reply.                                  *)
LEMMA LagRestart ==
  ASSUME TypeOK, LagInv, HostRestart
  PROVE  LagInv'
<1> USE DEF host, chip, nios, history
<1>0. /\ sent \in Nat /\ Turn \in {sent, sent + 1} /\ Len(wire) \in Nat
      /\ Delays \in Nat /\ ChipTurn \in Int /\ WireTurn \in Int
      /\ Len(sock) \in Nat /\ Hand \in {0, 1} /\ Len(rxFifo) \in Nat
      /\ HandJunk \in {0, 1} /\ rxt \in Nat
  BY LagTypes
<1>1. /\ UNCHANGED <<sent, rxFifo, prs, cpu, tx, rxt, wire>>
      /\ Turn' = sent + 1 /\ sock' = <<>> /\ feedback' = Garbage
  BY DEF HostRestart, Turn
<1>2. Delays' = Delays + 1 /\ Happened({"hostRestart"})'
  BY DelaysMoved DEF HostRestart, FaultKinds, Delaying
<1>3. Hand' = Hand /\ HandJunk' = HandJunk
  BY <1>1 DEF Hand, HandJunk
<1> DEFINE c1 == sent + Hand
           w1 == sent + Hand + Len(rxFifo)
           d1 == Delays + 1
<1>4. ChipTurn' = c1 /\ WireTurn' = w1
  <2>1. Len(sock') = 0
    BY <1>1, EmptySeq
  <2>2. /\ ChipTurn' = sent + 1 + 0 + Hand - 1
        /\ WireTurn' = sent + 1 + 0 + Hand - 1 + Len(rxFifo)
    BY <1>1, <1>3, <2>1 DEF ChipTurn, WireTurn
  <2>3. QED
    BY <1>0, <2>2
<1>5. /\ c1 \in Int /\ w1 \in Int /\ d1 \in Nat /\ 1 \in Nat
      /\ c1 <= ChipTurn + 1 /\ w1 <= WireTurn + 1 /\ Delays + 1 <= d1
      /\ d1 = Delays + 1 /\ Delays' = d1
  BY <1>0, <1>2 DEF ChipTurn, WireTurn
<1>6. w1 + Len(wire) <= sent + d1
  BY <1>0 DEF LagInv, FewFrames, WireTurn, ChipTurn
<1> HIDE DEF c1, w1, d1
<1>7. LagLadder'
  <2>1. PICK at \in Int, top \in Int, h \in Int :
          PinsLag(at) /\ SockLag(at, top) /\ HandLag(top, h) /\ ChipLag(h)
    BY DEF LagInv, LagLadder
  <2>2. PinsLag(top + 1)'
    BY <1>1, <1>2 DEF PinsLag, Garbage
  <2>3. SockLag(top + 1, top + 1)'
    <3>1. Seqs' = <<>>
      <4>1. Len(sock') = 0
        BY <1>1, EmptySeq
      <4>2. QED
        BY <4>1 DEF Seqs
    <3>2. top + 1 \in Int /\ top + 1 <= top + 1
      OBVIOUS
    <3>3. QED
      BY <3>1, <3>2, LineEmpty, Zenon DEF SockLag
  <2>4. HandLag(top + 1, h + 1)'
    <3>1. top + 1 + HandJunk <= h + 1
      BY <1>0, <2>1 DEF HandLag
    <3>2. rxt # Foreign => c1 - rxt <= h + 1
      BY <1>0, <1>5, <2>1 DEF HandLag
    <3>3. QED
      BY <1>1, <1>3, <1>4, <3>1, <3>2 DEF HandLag
  <2>5. ChipLag(h + 1)'
    BY <1>1, <1>4, <1>5, <2>1, ChipKept, Zenon
  <2>6. top + 1 \in Int /\ h + 1 \in Int
    OBVIOUS
  <2>7. QED
    BY <2>2, <2>3, <2>4, <2>5, <2>6 DEF LagLadder
<1>8. WireLag'
  BY <1>1, <1>4, <1>5, WireKept, Zenon DEF LagInv
<1>9. FewFrames'
  BY <1>1, <1>4, <1>5, <1>6 DEF FewFrames
<1>10. QED
  BY <1>1, <1>7, <1>8, <1>9 DEF LagInv, NoPhantoms

-----------------------------------------------------------------------------
(* A frame that joins the chip's queue, good or foreign, makes the line    *)
(* to the host longer by one.                                              *)
LEMMA Arrived ==
  ASSUME TypeOK, cpu # "boot", NEW f \in Nat, Arrive(f),
         UNCHANGED <<hostPc, sent, sock, cpu>>
  PROVE  /\ rxFifo' = Append(rxFifo, f) /\ prs' = 1
         /\ Len(rxFifo') = Len(rxFifo) + 1
         /\ Turn' = Turn /\ Hand' = Hand
         /\ ChipTurn' = ChipTurn /\ WireTurn' = WireTurn + 1
<1>0. /\ Len(rxFifo) \in Nat /\ rxFifo \in Seq(Nat)
      /\ ChipTurn \in Int /\ WireTurn \in Int
  BY LagTypes
<1>1. rxFifo' = Append(rxFifo, f) /\ prs' = 1
  BY DEF Arrive
<1>2. Len(rxFifo') = Len(rxFifo) + 1
  BY <1>0, <1>1, AppendAt
<1>3. Turn' = Turn /\ Hand' = Hand
  BY DEF Turn, Hand
<1>4. ChipTurn' = ChipTurn
  BY <1>3 DEF ChipTurn
<1>5. WireTurn' = WireTurn + 1
  <2>1. WireTurn' = ChipTurn + (Len(rxFifo) + 1)
    BY <1>2, <1>4 DEF WireTurn
  <2>2. QED
    BY <1>0, <2>1 DEF WireTurn
<1>6. QED
  BY <1>1, <1>2, <1>3, <1>4, <1>5

(* ... and the rest of the ladder is as it was. *)
LEMMA LadderJoined ==
  ASSUME TypeOK, LagLadder, cpu # "boot", NEW f \in Nat, Arrive(f),
         NEW d1 \in Nat, Delays' = d1, Delays + Junk(f) <= d1,
         f # Foreign => WireTurn + 1 - f <= d1,
         UNCHANGED <<hostPc, sent, feedback, sock, cpu, rxt>>,
         Happened({"hostRestart"}) => Happened({"hostRestart"})'
  PROVE  LagLadder'
<1>0. /\ rxFifo \in Seq(Nat) /\ Len(rxFifo) \in Nat /\ ChipTurn \in Int
      /\ Delays \in Int /\ d1 \in Int
  BY LagTypes
<1>1. PICK at \in Int, top \in Int, h \in Int :
        PinsLag(at) /\ SockLag(at, top) /\ HandLag(top, h) /\ ChipLag(h)
  BY DEF LagLadder
<1>2. Turn' = Turn /\ ChipTurn' = ChipTurn /\ rxFifo' = Append(rxFifo, f)
  BY Arrived
<1>3. PinsLag(at)' /\ SockLag(at, top)' /\ HandLag(top, h)'
  BY <1>1, <1>2 DEF PinsLag, SockLag, Seqs, HandLag, HandJunk, Hand
<1>4. f # Foreign => ChipTurn + Len(rxFifo) + 1 - f <= d1
  BY DEF WireTurn
<1>5. Line(Append(rxFifo, f), h, d1, ChipTurn)
  BY <1>0, <1>1, <1>4, LineJoined, Zenon DEF ChipLag
<1>6. ChipLag(h)'
  BY <1>2, <1>5 DEF ChipLag
<1>7. QED
  BY <1>3, <1>6 DEF LagLadder

(* The first frame on the wire is a command, and never too old to join. *)
LEMMA WireLeft ==
  ASSUME TypeOK, WireLag, wire # <<>>
  PROVE  /\ Head(wire) \in Nat /\ Head(wire) # Foreign
         /\ WireTurn + 1 - Head(wire) <= Delays
         /\ Tail(wire) \in Seq(Nat) /\ Len(Tail(wire)) = Len(wire) - 1
         /\ Line(Tail(wire), Delays, Delays, WireTurn + 1)
<1>0. wire \in Seq(Nat) /\ WireTurn \in Int /\ Delays \in Int
  BY LagTypes
<1>1. PICK m \in Int : /\ Delays + Junk(Head(wire)) <= m /\ m <= Delays
                       /\ Head(wire) # Foreign
                            => WireTurn + 1 - Head(wire) <= m
                       /\ Line(Tail(wire), m, Delays, WireTurn + 1)
  BY <1>0, LineLeft, Zenon DEF WireLag
<1>2. Head(wire) \in Nat /\ Tail(wire) \in Seq(Nat)
      /\ Len(Tail(wire)) = Len(wire) - 1
  BY <1>0, QueueOps, TailAt
<1>3. m = Delays /\ Head(wire) # Foreign
  BY <1>0, <1>1, JunkIsBit
<1>4. QED
  BY <1>1, <1>2, <1>3

LEMMA LagDeliver ==
  ASSUME TypeOK, LagInv, Deliver
  PROVE  LagInv'
<1> USE DEF host, chip, nios, history
<1>0. /\ sent \in Nat /\ Len(wire) \in Nat /\ Delays \in Nat
      /\ WireTurn \in Int /\ Len(rxFifo) \in Nat /\ prs \in {0, 1}
  BY LagTypes
<1> DEFINE f == Head(wire)
<1>1. /\ UNCHANGED <<hostPc, sent, feedback, sock, cpu, rxt, tx, faults>>
      /\ cpu # "boot" /\ wire # <<>> /\ wire' = Tail(wire) /\ Arrive(f)
  BY DEF Deliver, LagInv
<1>2. /\ f \in Nat /\ f # Foreign /\ WireTurn + 1 - f <= Delays
      /\ Len(wire') = Len(wire) - 1
      /\ Line(wire', Delays, Delays, WireTurn + 1)
  BY <1>1, WireLeft DEF LagInv
<1>3. /\ Delays' = Delays
      /\ Happened({"hostRestart"}) => Happened({"hostRestart"})'
  BY <1>1 DEF Delays, Happened
<1>4. Delays + Junk(f) <= Delays
  BY <1>0, <1>2, JunkIsBit
<1> HIDE DEF f
<1>5. Len(rxFifo') = Len(rxFifo) + 1 /\ WireTurn' = WireTurn + 1 /\ prs' = 1
  BY <1>1, <1>2, Arrived
<1>6. LagLadder'
  BY <1>0, <1>1, <1>2, <1>3, <1>4, LadderJoined, Zenon DEF LagInv
<1>7. WireLag'
  BY <1>2, <1>3, <1>5 DEF WireLag
<1>8. FewFrames'
  <2>1. WireTurn + 1 + (Len(wire) - 1) <= sent + Delays
    BY <1>0 DEF LagInv, FewFrames
  <2>2. QED
    BY <1>1, <1>2, <1>3, <1>5, <2>1 DEF FewFrames
<1>9. NoPhantoms'
  BY <1>0, <1>1, <1>5 DEF NoPhantoms, LagInv
<1>10. QED
  BY <1>1, <1>6, <1>7, <1>8, <1>9 DEF LagInv

LEMMA LagLose ==
  ASSUME TypeOK, LagInv, LoseCommand
  PROVE  LagInv'
<1> USE DEF host, chip, nios, history
<1>0. /\ sent \in Nat /\ Len(wire) \in Nat /\ Delays \in Nat
      /\ WireTurn \in Int
  BY LagTypes
<1>1. /\ UNCHANGED <<hostPc, sent, feedback, sock, rxFifo, prs, cpu, rxt, tx>>
      /\ wire # <<>> /\ wire' = Tail(wire)
  BY DEF LoseCommand
<1>2. /\ Delays' = Delays
      /\ Happened({"hostRestart"}) => Happened({"hostRestart"})'
  BY <1>0, DelaysMoved DEF LoseCommand, FaultKinds, Delaying
<1>3. /\ Turn' = Turn /\ ChipTurn' = ChipTurn /\ WireTurn' = WireTurn
      /\ Hand' = Hand
  BY <1>1 DEF Turn, Hand, ChipTurn, WireTurn
<1>4. LagLadder'
  BY <1>1, <1>2, <1>3, LadderSame DEF LagInv
<1> DEFINE t == WireTurn + 1
           q == Tail(wire)
<1>5. /\ Len(q) = Len(wire) - 1 /\ q \in Seq(Nat)
      /\ Line(q, Delays, Delays, t)
  BY <1>1, WireLeft DEF LagInv
<1>6. /\ 0 \in Int /\ t \in Int /\ WireTurn <= t + 0 /\ Delays \in Int
      /\ Delays <= Delays + 0 /\ Delays + 0 <= Delays
  BY <1>0
<1> HIDE DEF t, q
<1>7. Line(q, Delays, Delays, WireTurn)
  BY <1>0, <1>5, <1>6, LineRaised, Zenon
<1>8. WireLag'
  BY <1>1, <1>2, <1>3, <1>7 DEF WireLag, q
<1>9. FewFrames'
  <2>1. WireTurn + (Len(wire) - 1) <= sent + Delays
    BY <1>0 DEF LagInv, FewFrames
  <2>2. QED
    BY <1>1, <1>2, <1>3, <1>5, <2>1 DEF FewFrames, q
<1>10. QED
  BY <1>1, <1>4, <1>8, <1>9 DEF LagInv, NoPhantoms

LEMMA LagForeignToBoard ==
  ASSUME TypeOK, LagInv, ForeignToBoard
  PROVE  LagInv'
<1> USE DEF host, chip, nios, history
<1>0. /\ sent \in Nat /\ Len(wire) \in Nat /\ Delays \in Nat
      /\ WireTurn \in Int /\ Len(rxFifo) \in Nat /\ prs \in {0, 1}
  BY LagTypes
<1> DEFINE d1 == Delays + 1
           w1 == WireTurn + 1
<1>1. /\ UNCHANGED <<hostPc, sent, feedback, sock, cpu, rxt, tx, wire>>
      /\ cpu # "boot" /\ Arrive(Foreign)
  BY DEF ForeignToBoard, LagInv
<1>2. /\ Delays' = d1
      /\ Happened({"hostRestart"}) => Happened({"hostRestart"})'
  BY DelaysMoved DEF ForeignToBoard, FaultKinds, Delaying
<1>3. Foreign \in Nat /\ Delays + Junk(Foreign) <= d1
  BY <1>0, JunkIsBit DEF Foreign
<1>4. /\ d1 \in Nat /\ w1 \in Int /\ 1 \in Nat /\ d1 = Delays + 1
      /\ w1 <= WireTurn + 1
  BY <1>0
<1>5. w1 + Len(wire) <= sent + d1
  BY <1>0 DEF LagInv, FewFrames
<1>6. Len(rxFifo') = Len(rxFifo) + 1 /\ WireTurn' = w1 /\ prs' = 1
  BY <1>1, <1>3, Arrived
<1> HIDE DEF d1, w1
<1>7. LagLadder'
  BY <1>1, <1>2, <1>3, <1>4, LadderJoined, Zenon DEF LagInv
<1>8. WireLag'
  BY <1>1, <1>2, <1>4, <1>6, WireKept, Zenon DEF LagInv
<1>9. FewFrames'
  BY <1>1, <1>2, <1>5, <1>6 DEF FewFrames
<1>10. NoPhantoms'
  BY <1>0, <1>1, <1>6 DEF NoPhantoms, LagInv
<1>11. QED
  BY <1>1, <1>7, <1>8, <1>9, <1>10 DEF LagInv

LEMMA LagForeignToHost ==
  ASSUME TypeOK, LagInv, ForeignToHost
  PROVE  LagInv'
<1> USE DEF host, chip, nios, history
<1>0. /\ sent \in Nat /\ Turn \in Nat /\ Len(wire) \in Nat /\ Delays \in Nat
      /\ ChipTurn \in Int /\ WireTurn \in Int /\ Len(rxFifo) \in Nat
      /\ Len(sock) \in Nat /\ Hand \in {0, 1} /\ HandJunk \in {0, 1}
      /\ Seqs \in Seq(Nat) /\ rxt \in Nat
  BY LagTypes
<1> DEFINE d1 == Delays + 1
           c1 == ChipTurn + 1
           w1 == WireTurn + 1
<1>1. /\ UNCHANGED <<hostPc, sent, feedback, rxFifo, prs, cpu, rxt, tx, wire>>
      /\ sock' = Append(sock, Garbage)
  BY DEF ForeignToHost
<1>2. /\ Delays' = d1
      /\ Happened({"hostRestart"}) => Happened({"hostRestart"})'
  BY DelaysMoved DEF ForeignToHost, FaultKinds, Delaying
<1>3. /\ Turn' = Turn /\ Hand' = Hand /\ HandJunk' = HandJunk
      /\ Seqs' = Append(Seqs, Foreign)
  <2>1. Garbage \in HostFrame /\ Garbage.seq = Foreign
    BY DEF Garbage, HostFrame, Foreign
  <2>2. Seqs' = Append(Seqs, Foreign)
    BY <1>1, <2>1, SeqsMoved
  <2>3. QED
    BY <1>1, <2>2 DEF Turn, Hand, HandJunk
<1>4. ChipTurn' = c1 /\ WireTurn' = w1
  <2>1. Len(sock') = Len(sock) + 1
    BY <1>1, AppendAt DEF TypeOK, Garbage, HostFrame
  <2>2. /\ ChipTurn' = Turn + (Len(sock) + 1) + Hand - 1
        /\ WireTurn' = Turn + (Len(sock) + 1) + Hand - 1 + Len(rxFifo)
    BY <1>1, <1>3, <2>1 DEF ChipTurn, WireTurn
  <2>3. QED
    BY <1>0, <2>2 DEF ChipTurn, WireTurn
<1>5. /\ d1 \in Nat /\ c1 \in Int /\ w1 \in Int /\ 1 \in Nat
      /\ d1 = Delays + 1 /\ Delays + 1 <= d1 /\ c1 <= ChipTurn + 1
      /\ w1 <= WireTurn + 1
  BY <1>0
<1>6. w1 + Len(wire) <= sent + d1
  BY <1>0 DEF LagInv, FewFrames
<1>7. LagLadder'
  <2>1. PICK at \in Int, top \in Int, h \in Int :
          PinsLag(at) /\ SockLag(at, top) /\ HandLag(top, h) /\ ChipLag(h)
    BY DEF LagInv, LagLadder
  <2>2. PinsLag(at)'
    BY <1>1, <1>2, <1>3, <2>1 DEF PinsLag
  <2>3. HandLag(top + 1, h + 1)'
    <3>1. /\ top + 1 + HandJunk <= h + 1
          /\ rxt # Foreign => c1 - rxt <= h + 1
      BY <1>0, <2>1 DEF HandLag
    <3>2. QED
      BY <1>1, <1>3, <1>4, <3>1 DEF HandLag
  <2>4. SockLag(at, top + 1)'
    <3> DEFINE hi1 == top + 1
               t == Turn - 1
    <3>1. hi1 \in Int /\ t \in Int /\ Foreign \in Nat /\ top + Junk(Foreign) <= hi1
      BY <1>0, JunkIsBit DEF Foreign
    <3>2. Line(Seqs, at, top, t)
      BY <2>1 DEF SockLag
    <3> HIDE DEF hi1, t
    <3>3. Line(Append(Seqs, Foreign), at, hi1, t)
      BY <1>0, <3>1, <3>2, LineJoined, Zenon
    <3>4. QED
      BY <1>3, <3>3 DEF SockLag, hi1, t
  <2>5. ChipLag(h + 1)'
    <3> HIDE DEF c1, d1
    <3>1. QED
      BY <1>1, <1>2, <1>4, <1>5, <2>1, ChipKept, Zenon
  <2>6. top + 1 \in Int /\ h + 1 \in Int
    OBVIOUS
  <2>7. QED
    BY <2>2, <2>3, <2>4, <2>5, <2>6 DEF LagLadder
<1> HIDE DEF c1, w1, d1
<1>8. WireLag'
  BY <1>1, <1>2, <1>4, <1>5, WireKept, Zenon DEF LagInv
<1>9. FewFrames'
  BY <1>1, <1>2, <1>4, <1>6 DEF FewFrames
<1>10. QED
  BY <1>1, <1>7, <1>8, <1>9 DEF LagInv, NoPhantoms

-----------------------------------------------------------------------------
(* The handler takes the first frame from the chip into its hand: the line *)
(* to the host is as long as before.                                       *)
LEMMA HandFilled ==
  ASSUME TypeOK, cpu = "receive", cpu' = "check", rxFifo # <<>>,
         rxFifo' = Tail(rxFifo), UNCHANGED <<hostPc, sent, sock>>
  PROVE  /\ Turn' = Turn /\ Hand' = 1 /\ HandJunk' = Junk(rxt')
         /\ Hand = 0 /\ HandJunk = 0
         /\ Len(rxFifo') = Len(rxFifo) - 1
         /\ ChipTurn' = ChipTurn + 1 /\ WireTurn' = WireTurn
<1>0. /\ Turn \in Nat /\ Len(sock) \in Nat /\ ChipTurn \in Int
      /\ WireTurn \in Int /\ Len(rxFifo) \in Nat /\ rxFifo \in Seq(Nat)
  BY LagTypes
<1>1. /\ Turn' = Turn /\ Hand' = 1 /\ Hand = 0 /\ HandJunk = 0
      /\ HandJunk' = Junk(rxt')
  BY DEF Turn, Hand, HandJunk
<1>2. Len(rxFifo') = Len(rxFifo) - 1
  BY <1>0, TailAt
<1>3. /\ ChipTurn' = Turn + Len(sock) + 1 - 1
      /\ WireTurn' = Turn + Len(sock) + 1 - 1 + (Len(rxFifo) - 1)
  BY <1>1, <1>2 DEF ChipTurn, WireTurn
<1>4. ChipTurn' = ChipTurn + 1 /\ WireTurn' = WireTurn
  BY <1>0, <1>1, <1>3 DEF ChipTurn, WireTurn
<1>5. QED
  BY <1>1, <1>2, <1>4

(* The first frame in the chip leaves the line at a rung of its own. *)
LEMMA ChipLeft ==
  ASSUME TypeOK, NEW h \in Int, ChipLag(h), rxFifo # <<>>
  PROVE  \E m \in Int : /\ h + Junk(Head(rxFifo)) <= m /\ m <= Delays
                        /\ Head(rxFifo) # Foreign
                             => ChipTurn + 1 - Head(rxFifo) <= m
                        /\ Line(Tail(rxFifo), m, Delays, ChipTurn + 1)
<1>1. rxFifo \in Seq(Nat) /\ ChipTurn \in Int /\ Delays \in Int
  BY LagTypes
<1>2. Line(rxFifo, h, Delays, ChipTurn)
  BY DEF ChipLag
<1>3. QED
  BY <1>1, <1>2, LineLeft, Zenon

LEMMA LagReceiveGood ==
  ASSUME TypeOK, LagInv, ReceiveGood
  PROVE  LagInv'
<1> USE DEF host, chip, nios, history
<1>0. /\ ChipTurn \in Int /\ Delays \in Int /\ rxFifo \in Seq(Nat)
      /\ Len(rxFifo) \in Nat /\ prs \in {0, 1}
  BY LagTypes
<1>1. /\ UNCHANGED <<hostPc, sent, feedback, sock, wire, prs, tx, faults>>
      /\ cpu = "receive" /\ cpu' = "check" /\ rxFifo # <<>>
      /\ rxFifo' = Tail(rxFifo) /\ rxt' = Head(rxFifo)
  BY DEF ReceiveGood
<1>2. /\ Delays' = Delays
      /\ Happened({"hostRestart"}) <=> Happened({"hostRestart"})'
  BY <1>1 DEF Delays, Happened
<1>3. /\ Turn' = Turn /\ HandJunk' = Junk(rxt') /\ HandJunk = 0
      /\ Len(rxFifo') = Len(rxFifo) - 1
      /\ ChipTurn' = ChipTurn + 1 /\ WireTurn' = WireTurn
  BY <1>1, HandFilled
<1>4. LagLadder'
  <2>1. PICK at \in Int, top \in Int, h \in Int :
          PinsLag(at) /\ SockLag(at, top) /\ HandLag(top, h) /\ ChipLag(h)
    BY DEF LagInv, LagLadder
  <2> DEFINE f == Head(rxFifo)
             u == ChipTurn + 1
  <2>2. PICK m \in Int : /\ h + Junk(f) <= m /\ m <= Delays
                         /\ f # Foreign => ChipTurn + 1 - f <= m
                         /\ Line(Tail(rxFifo), m, Delays, u)
    BY <1>1, <2>1, ChipLeft
  <2>3. f \in Nat /\ Junk(f) \in {0, 1}
    BY <1>0, <1>1, QueueOps, JunkIsBit
  <2> HIDE DEF f, u
  <2>4. PinsLag(at)' /\ SockLag(at, top)'
    BY <1>1, <1>2, <1>3, <2>1 DEF PinsLag, SockLag, Seqs
  <2>5. HandLag(top, m)'
    <3>1. top + Junk(f) <= m
      BY <1>3, <2>1, <2>2, <2>3 DEF HandLag
    <3>2. f # Foreign => u - f <= m
      BY <1>0, <2>2, <2>3 DEF u
    <3>3. QED
      BY <1>1, <1>3, <3>1, <3>2 DEF HandLag, f, u
  <2>6. ChipLag(m)'
    BY <1>1, <1>2, <1>3, <2>2 DEF ChipLag, u
  <2>7. QED
    BY <2>4, <2>5, <2>6 DEF LagLadder
<1>5. WireLag' /\ FewFrames'
  BY <1>1, <1>2, <1>3 DEF LagInv, WireLag, FewFrames
<1>6. NoPhantoms'
  BY <1>0, <1>1, <1>3 DEF LagInv, NoPhantoms
<1>7. QED
  BY <1>1, <1>4, <1>5, <1>6 DEF LagInv

(* ReceiveBad: the last frame is answered again, one command older, which  *)
(* is what the fault allows.                                               *)
LEMMA LagReceiveBad ==
  ASSUME TypeOK, LagInv, ReceiveBad
  PROVE  LagInv'
<1> USE DEF host, chip, nios, history
<1>0. /\ ChipTurn \in Int /\ WireTurn \in Int /\ Delays \in Nat
      /\ rxFifo \in Seq(Nat) /\ Tail(rxFifo) \in Seq(Nat)
      /\ Len(rxFifo) \in Nat /\ prs \in {0, 1} /\ rxt \in Nat
      /\ sent \in Nat /\ Len(wire) \in Nat
  BY LagTypes, QueueOps DEF ReceiveBad
<1> DEFINE d1 == Delays + 1
           c1 == ChipTurn + 1
<1>1. /\ UNCHANGED <<hostPc, sent, feedback, sock, wire, prs, rxt, tx>>
      /\ cpu = "receive" /\ cpu' = "check" /\ rxFifo # <<>>
      /\ rxFifo' = Tail(rxFifo)
  BY DEF ReceiveBad
<1>2. /\ Delays' = d1
      /\ Happened({"hostRestart"}) => Happened({"hostRestart"})'
  BY DelaysMoved DEF ReceiveBad, FaultKinds, Delaying
<1>3. /\ Turn' = Turn /\ HandJunk' = Junk(rxt) /\ HandJunk = 0
      /\ Len(rxFifo') = Len(rxFifo) - 1
      /\ ChipTurn' = c1 /\ WireTurn' = WireTurn
  BY <1>1, HandFilled
<1>4. LagLadder'
  <2>1. PICK at \in Int, top \in Int, h \in Int :
          PinsLag(at) /\ SockLag(at, top) /\ HandLag(top, h) /\ ChipLag(h)
    BY DEF LagInv, LagLadder
  <2> DEFINE f == Head(rxFifo)
             h1 == h + 1
  <2>2. Delays \in Int /\ c1 \in Int /\ d1 \in Int /\ h1 \in Int /\ 1 \in Int
    BY <1>0
  <2> HIDE DEF c1
  <2>3. PICK m \in Int : /\ h + Junk(f) <= m /\ m <= Delays
                         /\ Line(Tail(rxFifo), m, Delays, c1)
    BY <1>1, <2>1, ChipLeft DEF c1
  <2>4. Junk(f) \in {0, 1} /\ Junk(rxt) \in {0, 1}
    BY JunkIsBit
  <2>5. h1 <= m + 1 /\ Delays + 1 <= d1 /\ c1 <= c1 + 1
    BY <1>0, <2>2, <2>3, <2>4
  <2> HIDE DEF f, h1, d1
  <2>6. Line(Tail(rxFifo), h1, d1, c1)
    BY <1>0, <2>2, <2>3, <2>5, LineRaised, Zenon
  <2>7. PinsLag(at)' /\ SockLag(at, top)'
    BY <1>1, <1>2, <1>3, <2>1 DEF PinsLag, SockLag, Seqs
  <2>8. HandLag(top, h1)'
    <3>1. top + Junk(rxt) <= h1
      BY <1>3, <2>1, <2>4 DEF HandLag, h1
    <3>2. rxt # Foreign => c1 - rxt <= h1
      BY <1>0, <2>1 DEF HandLag, h1, c1
    <3>3. QED
      BY <1>1, <1>3, <3>1, <3>2 DEF HandLag
  <2>9. ChipLag(h1)'
    BY <1>1, <1>2, <1>3, <2>6 DEF ChipLag
  <2>10. QED
    BY <2>2, <2>7, <2>8, <2>9 DEF LagLadder
<1>5. WireLag'
  <2>1. d1 \in Nat /\ 1 \in Nat /\ WireTurn <= WireTurn + 1 /\ d1 = Delays + 1
    BY <1>0
  <2> HIDE DEF d1
  <2>2. QED
    BY <1>0, <1>1, <1>2, <1>3, <2>1, WireKept, Zenon DEF LagInv
<1>6. FewFrames'
  <2>1. WireTurn + Len(wire) <= sent + d1
    BY <1>0 DEF LagInv, FewFrames
  <2>2. QED
    BY <1>1, <1>2, <1>3, <2>1 DEF FewFrames
<1>7. NoPhantoms'
  BY <1>0, <1>1, <1>3 DEF LagInv, NoPhantoms
<1>8. QED
  BY <1>1, <1>4, <1>5, <1>6, <1>7 DEF LagInv

(* The reply to the frame in hand joins the frames in the socket. *)
LEMMA HandEmptied ==
  ASSUME TypeOK, cpu = "transmit", Transmitted
  PROVE  /\ UNCHANGED <<hostPc, sent, feedback, wire, rxFifo, prs, rxt, tx>>
         /\ cpu' \in {"main", "write"}
         /\ Turn' = Turn /\ Hand = 1 /\ Hand' = 0
         /\ HandJunk = Junk(rxt) /\ HandJunk' = 0
  BY DEF Transmitted, host, Turn, Hand, HandJunk

LEMMA LagTxDone ==
  ASSUME TypeOK, LagInv, TxDone
  PROVE  LagInv'
<1> USE DEF history
<1>0. /\ Turn \in Nat /\ Len(sock) \in Nat /\ Len(rxFifo) \in Nat
      /\ ChipTurn \in Int /\ WireTurn \in Int /\ prs \in {0, 1}
      /\ rxt \in Nat /\ Seqs \in Seq(Nat) /\ Len(Seqs) = Len(sock)
  BY LagTypes
<1>1. /\ UNCHANGED <<sent, feedback, wire, rxFifo, prs, rxt, tx, faults>>
      /\ sock' = Append(sock, tx) /\ tx \in HostFrame /\ tx.seq = rxt
      /\ cpu = "transmit" /\ cpu' \in {"main", "write"}
      /\ Turn' = Turn /\ Hand = 1 /\ Hand' = 0
      /\ HandJunk = Junk(rxt) /\ HandJunk' = 0
  BY HandEmptied DEF TxDone, Transmitted, LagInv, TypeOK
<1>2. /\ Delays' = Delays
      /\ Happened({"hostRestart"}) <=> Happened({"hostRestart"})'
  BY <1>1 DEF Delays, Happened
<1>3. Seqs' = Append(Seqs, rxt)
  BY <1>1, SeqsMoved
<1>4. ChipTurn' = ChipTurn /\ WireTurn' = WireTurn
  <2>1. Len(sock') = Len(sock) + 1
    BY <1>1, AppendAt DEF TypeOK
  <2>2. /\ ChipTurn' = Turn + (Len(sock) + 1) + 0 - 1
        /\ WireTurn' = Turn + (Len(sock) + 1) + 0 - 1 + Len(rxFifo)
    BY <1>1, <2>1 DEF ChipTurn, WireTurn
  <2>3. QED
    BY <1>0, <1>1, <2>2 DEF ChipTurn, WireTurn
<1>5. LagLadder'
  <2>1. PICK at \in Int, top \in Int, h \in Int :
          PinsLag(at) /\ SockLag(at, top) /\ HandLag(top, h) /\ ChipLag(h)
    BY DEF LagInv, LagLadder
  <2> DEFINE t == Turn - 1
  <2>2. /\ t \in Int /\ top + Junk(rxt) <= h
        /\ rxt # Foreign => t + Len(Seqs) + 1 - rxt <= h
    BY <1>0, <1>1, <2>1 DEF HandLag, ChipTurn
  <2>3. Line(Seqs, at, top, t)
    BY <2>1 DEF SockLag
  <2> HIDE DEF t
  <2>4. Line(Append(Seqs, rxt), at, h, t)
    BY <1>0, <2>2, <2>3, LineJoined, Zenon
  <2>5. SockLag(at, h)'
    BY <1>1, <1>3, <2>4 DEF SockLag, t
  <2>6. PinsLag(at)' /\ ChipLag(h)'
    BY <1>1, <1>2, <1>4, <2>1 DEF PinsLag, ChipLag
  <2>7. HandLag(h, h)'
    <3>1. h + 0 <= h
      OBVIOUS
    <3>2. QED
      BY <1>1, <1>4, <2>1, <3>1 DEF HandLag
  <2>8. QED
    BY <2>5, <2>6, <2>7 DEF LagLadder
<1>6. WireLag' /\ FewFrames'
  BY <1>1, <1>2, <1>4 DEF LagInv, WireLag, FewFrames
<1>7. QED
  BY <1>1, <1>5, <1>6 DEF LagInv, NoPhantoms

LEMMA LagTxLost ==
  ASSUME TypeOK, LagInv, TxLost
  PROVE  LagInv'
<1>0. /\ Turn \in Nat /\ Len(sock) \in Nat /\ Len(rxFifo) \in Nat
      /\ ChipTurn \in Int /\ WireTurn \in Int /\ prs \in {0, 1}
      /\ Delays \in Nat /\ sent \in Nat /\ Len(wire) \in Nat
  BY LagTypes
<1>1. /\ UNCHANGED <<sent, feedback, sock, wire, rxFifo, prs, rxt, tx>>
      /\ cpu = "transmit" /\ cpu' \in {"main", "write"}
      /\ Turn' = Turn /\ Hand = 1 /\ Hand' = 0
  BY HandEmptied DEF TxLost, Transmitted
<1>2. /\ Delays' = Delays
      /\ Happened({"hostRestart"}) => Happened({"hostRestart"})'
  BY <1>0, DelaysMoved DEF TxLost, FaultKinds, Delaying
<1> DEFINE c1 == ChipTurn - 1
           w1 == WireTurn - 1
<1>3. ChipTurn' = c1 /\ WireTurn' = w1
  <2>1. /\ ChipTurn' = Turn + Len(sock) + 0 - 1
        /\ WireTurn' = Turn + Len(sock) + 0 - 1 + Len(rxFifo)
    BY <1>1 DEF ChipTurn, WireTurn
  <2>2. QED
    BY <1>0, <1>1, <2>1 DEF ChipTurn, WireTurn
<1>4. /\ 0 \in Nat /\ c1 \in Int /\ w1 \in Int /\ 0 \in {0, 1}
      /\ Turn <= Turn + 0 /\ c1 <= ChipTurn + 0 /\ 0 <= Hand
      /\ Delays + 0 <= Delays /\ w1 <= WireTurn + 0 /\ Delays = Delays + 0
  BY <1>0, <1>1
<1>5. w1 + Len(wire) <= sent + Delays
  BY <1>0 DEF LagInv, FewFrames
<1> HIDE DEF c1, w1
<1>6. LagLadder'
  BY <1>0, <1>1, <1>2, <1>3, <1>4, LadderKept, Zenon DEF LagInv
<1>7. WireLag'
  BY <1>0, <1>1, <1>2, <1>3, <1>4, WireKept, Zenon DEF LagInv
<1>8. FewFrames'
  BY <1>1, <1>2, <1>3, <1>5 DEF FewFrames
<1>9. QED
  BY <1>1, <1>6, <1>7, <1>8 DEF LagInv, NoPhantoms

(* The other steps of the handler move no frame. *)
LEMMA LagStill ==
  ASSUME TypeOK, LagInv,
         IsrEnter \/ Reject \/ Answer \/ WriteRegs \/ UNCHANGED vars
  PROVE  LagInv'
<1> USE DEF host, chip, nios, history
<1>1. /\ UNCHANGED <<hostPc, sent, feedback, sock, wire, rxFifo, rxt, faults>>
      /\ Hand' = Hand /\ cpu' # "boot"
      /\ cpu' = "transmit" => tx'.seq = rxt'
      /\ NoPhantoms'
  <2>1. Garbage.seq = Foreign
    BY DEF Garbage, Foreign
  <2>2. CASE IsrEnter
    BY <2>2 DEF IsrEnter, Hand, NoPhantoms, LagInv
  <2>3. CASE Reject
    BY <2>1, <2>3 DEF Reject, Hand, NoPhantoms, LagInv
  <2>4. CASE Answer
    BY <2>4 DEF Answer, Hand, NoPhantoms, LagInv
  <2>5. CASE WriteRegs
    BY <2>5 DEF WriteRegs, Hand, NoPhantoms, LagInv
  <2>6. CASE UNCHANGED vars
    BY <2>6 DEF vars, Hand, NoPhantoms, LagInv
  <2>7. QED
    BY <2>2, <2>3, <2>4, <2>5, <2>6
<1>2. /\ Delays' = Delays
      /\ Happened({"hostRestart"}) <=> Happened({"hostRestart"})'
  BY <1>1 DEF Delays, Happened
<1>3. /\ Turn' = Turn /\ ChipTurn' = ChipTurn /\ WireTurn' = WireTurn
  BY <1>1 DEF Turn, ChipTurn, WireTurn
<1>4. LagLadder'
  BY <1>1, <1>2, <1>3, LadderSame DEF LagInv
<1>5. WireLag' /\ FewFrames'
  BY <1>1, <1>2, <1>3 DEF LagInv, WireLag, FewFrames
<1>6. QED
  BY <1>1, <1>4, <1>5 DEF LagInv

-----------------------------------------------------------------------------
(* What happened stays happened. *)
LEMMA ResetsStay ==
  ASSUME TypeOK, [Next]_vars, ~Happened(Resets)'
  PROVE  ~Happened(Resets) /\ ~ReceiveBusError /\ ~BoardReset
<1>1. ~ReceiveBusError /\ ~BoardReset
  BY DEF ReceiveBusError, BoardReset, Fault, Happened, Resets, TypeOK,
         FaultKinds
<1>2. ASSUME NEW k \in FaultKinds, Fault(k), Happened(Resets)
      PROVE  FALSE
  BY <1>2 DEF Fault, Happened, Resets, TypeOK, FaultKinds
<1>3. QED
  BY <1>1, <1>2, FaultOrNot DEF Happened

LEMMA LagInductive ==
  ASSUME TypeOK, Happened(Resets) \/ LagInv, [Next]_vars
  PROVE  (Happened(Resets) \/ LagInv)'
<1> SUFFICES ASSUME ~Happened(Resets)' PROVE LagInv'
  OBVIOUS
<1>0. LagInv /\ ~ReceiveBusError /\ ~BoardReset
  BY ResetsStay
<1>1. CASE HostStep
  BY <1>0, <1>1, LagSend, LagWait, LagTake, LagRestart DEF HostStep
<1>2. CASE WireStep
  BY <1>0, <1>2, LagDeliver, LagLose, LagForeignToBoard, LagForeignToHost
  DEF WireStep
<1>3. CASE Receive
  <2>1. ~ReceiveNone
    <3>1. Len(<<>>) = 0 /\ prs \in {0, 1}
      BY EmptySeq DEF TypeOK
    <3>2. QED
      BY <1>0, <3>1 DEF ReceiveNone, LagInv, NoPhantoms
  <2>2. QED
    BY <1>0, <1>3, <2>1, LagReceiveGood, LagReceiveBad DEF Receive
<1>4. CASE TxDone \/ TxLost
  BY <1>0, <1>4, LagTxDone, LagTxLost
<1>5. CASE IsrEnter \/ Reject \/ Answer \/ WriteRegs \/ UNCHANGED vars
  BY <1>0, <1>5, LagStill
<1>6. ~Boot
  BY <1>0 DEF Boot, LagInv
<1>7. QED
  BY <1>0, <1>1, <1>2, <1>3, <1>4, <1>5, <1>6 DEF Next, Handler

LEMMA InitLag == Init => LagInv
<1> SUFFICES ASSUME Init PROVE LagInv
  OBVIOUS
<1>1. /\ sent = 0 /\ feedback.seq = 0 /\ sock = <<>> /\ wire = <<>>
      /\ rxFifo = <<>> /\ prs = 0 /\ cpu = "main" /\ rxt = Foreign
      /\ hostPc = "idle" /\ \A k \in FaultKinds : faults[k] = 0
  BY DEF Init, Garbage
<1>2. Delays = 0 /\ Turn = 1 /\ Hand = 0 /\ HandJunk = 0
  BY <1>1 DEF Delays, FaultKinds, Turn, Hand, HandJunk
<1>3. Len(<<>>) = 0 /\ Seqs = <<>>
  BY <1>1, EmptySeq DEF Seqs
<1>4. ChipTurn = 0 /\ WireTurn = 0
  BY <1>1, <1>2, <1>3 DEF ChipTurn, WireTurn
<1>5. \A t : Line(<<>>, 0, 0, t)
  BY LineEmpty
<1>6. PinsLag(0) /\ SockLag(0, 0) /\ HandLag(0, 0) /\ ChipLag(0)
  BY <1>1, <1>2, <1>3, <1>4, <1>5 DEF PinsLag, SockLag, HandLag, ChipLag
<1>7. LagLadder /\ WireLag
  BY <1>1, <1>2, <1>5, <1>6 DEF LagLadder, WireLag
<1>8. FewFrames /\ NoPhantoms
  BY <1>1, <1>2, <1>3, <1>4 DEF FewFrames, NoPhantoms
<1>9. QED
  BY <1>1, <1>7, <1>8 DEF LagInv

LEMMA LagImplied ==
  ASSUME TypeOK, Happened(Resets) \/ LagInv
  PROVE  LagBounded
<1> SUFFICES ASSUME hostPc = "idle", ~Happened(Resets),
                    feedback.seq # 0 \/ ~Happened({"hostRestart"})
             PROVE  sent <= feedback.seq + Delays
  BY DEF LagBounded, Resets
<1>1. PICK at \in Int, top \in Int, h \in Int :
        PinsLag(at) /\ SockLag(at, top) /\ HandLag(top, h) /\ ChipLag(h)
  BY DEF LagInv, LagLadder
<1>2. sent \in Nat /\ feedback.seq \in Nat /\ Delays \in Nat
      /\ HandJunk \in {0, 1}
  BY LagTypes
<1>3. at <= top /\ top + HandJunk <= h /\ h <= Delays
  BY <1>1 DEF SockLag, HandLag, ChipLag, Line
<1>4. sent - feedback.seq <= at
  <2>1. Turn = sent + 1 /\ Turn - 1 - feedback.seq <= at
    BY <1>1 DEF PinsLag, Turn
  <2>2. QED
    BY <1>2, <2>1
<1>5. QED
  BY <1>2, <1>3, <1>4

(* Until the chip or the board is reset, the pins are never further behind *)
(* the commands than faults that can make them so have happened, in        *)
(* whatever order, and however many frames are under way.                  *)
THEOREM LagCorrect == Spec => []LagBounded
<1>1. Init => LagInv
  BY InitLag
<1>2. TypeOK /\ (Happened(Resets) \/ LagInv) /\ [Next]_vars
        => (Happened(Resets) \/ LagInv)'
  BY LagInductive
<1>3. TypeOK /\ (Happened(Resets) \/ LagInv) => LagBounded
  BY LagImplied
<1>4. QED
  BY <1>1, <1>2, <1>3, TypeCorrect, PTL DEF Spec
=============================================================================
