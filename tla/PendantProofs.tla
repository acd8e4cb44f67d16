--------------------------- MODULE PendantProofs ---------------------------
(***************************************************************************)
(* Proofs about Pendant for every set of buttons and LED values, every     *)
(* display interval and any number of keys and frames.                     *)
(***************************************************************************)
EXTENDS Pendant, Integers, SequenceTheorems, TLAPS

LEMMA OneChar ==
  ASSUME NEW S, NEW c \in S
  PROVE  /\ <<c>> \in Seq(S) /\ <<c>> # <<>>
         /\ Head(<<c>>) = c /\ Tail(<<c>>) = <<>>
         /\ <<>> \in Seq(S) /\ <<>> \o <<c>> = <<c>> /\ <<>> \o <<>> = <<>>
         /\ Len(<<c>>) = 1 /\ Len(<<>>) = 0
<1>1. <<c>> \in Seq(S) /\ Len(<<c>>) = 1 /\ <<c>> # <<>>
  OBVIOUS
<1>2. Head(<<c>>) = c
  OBVIOUS
<1>3. Tail(<<c>>) = <<>>
  <2>1. Tail(<<c>>) \in Seq(S) /\ Len(Tail(<<c>>)) = 1 - 1
    BY <1>1, HeadTailProperties
  <2>2. QED
    BY <2>1, EmptySeq
<1>4. QED
  BY <1>1, <1>2, <1>3, EmptySeq, ConcatEmptySeq

(* What one step of the receiving half of the port leaves behind. *)
LEMMA RxSteps ==
  ASSUME Rx!TypeOK, NEW op, NEW s, s = <<>> \/ \E k \in Key : s = <<k>>
  PROVE  /\ Rx!Arrive(op, s) => Rx!TypeOK'
         /\ Rx!Wait(op, s) => Rx!TypeOK'
<1>1. line \in Seq(Key) /\ rxdata \in Key /\ rrdy \in {0, 1} /\ roe \in {0, 1}
  BY DEF Rx!TypeOK
<1>2. s \in Seq(Key)
  BY OneChar, EmptySeq
<1>3. line # <<>> => Head(line) \in Key /\ Tail(line) \in Seq(Key)
  BY <1>1, HeadTailProperties
<1>4. \A q \in Seq(Key) : q \o s \in Seq(Key)
  BY <1>2, ConcatProperties
<1>5. Rx!Arrive(op, s) => Rx!TypeOK'
  BY <1>1, <1>3, <1>4 DEF Rx!Arrive, Rx!TypeOK
<1>6. Rx!Wait(op, s) => Rx!TypeOK'
  BY <1>1, <1>4 DEF Rx!Wait, Rx!TypeOK
<1>7. QED
  BY <1>5, <1>6

LEMMA TxSteps ==
  ASSUME Tx!TypeOK, NEW w \in Led \cup {NoLed},
         Tx!Write(w) \/ Tx!Load(w) \/ Tx!Deliver(w)
  PROVE  Tx!TypeOK'
<1>1. /\ hold \in Led \cup {NoLed} /\ sending \in Led \cup {NoLed}
      /\ heard \in Seq(Led)
  BY DEF Tx!TypeOK
<1>2. \A v \in Led : Append(heard, v) \in Seq(Led)
  BY <1>1, AppendProperties
<1>3. QED
  BY <1>1, <1>2 DEF Tx!Write, Tx!Load, Tx!Deliver, Tx!Or, Tx!TypeOK

-----------------------------------------------------------------------------
(***************************************************************************)
(* TypeOK bounds the display's byte by the frames there may be; what holds *)
(* it there is that no copy of it is ahead of the frames there were.       *)
(***************************************************************************)
SegsBehind == {i, seven_segs, copy, shown} \subseteq 0 .. frames

KeyTypes ==
  /\ pendant_keys \in Key /\ pendant_pressed \in {0, 1} /\ button \in Button
  /\ igpio \in [Button -> Level]

LedTypes == rxt49 \in Led /\ old_pendant_leds \in Led

SegTypes ==
  /\ frames \in 0 .. MaxFrames[paced]
  /\ SegsBehind
  /\ cached \in BOOLEAN /\ count \in 0 .. DisplayEvery - 1

HistoryTypes ==
  /\ keys \in 0 .. MaxKeys[paced] /\ passes \in 0 .. 2
  /\ latest \in [Button -> Level] /\ taken \in [Button -> Level]

TypeInv ==
  /\ Rx!TypeOK /\ Tx!TypeOK /\ pc \in Places /\ isr \in BOOLEAN
  /\ paced \in Paces
  /\ KeyTypes /\ LedTypes /\ SegTypes /\ HistoryTypes

LEMMA TypeImplied == TypeInv => TypeOK
<1> SUFFICES ASSUME TypeInv PROVE TypeOK
  OBVIOUS
<1>1. MaxFrames[paced] \in Nat
  BY PacesAssumption DEF TypeInv
<1>2. {i, seven_segs, copy, shown} \subseteq 0 .. MaxFrames[paced]
  BY <1>1 DEF TypeInv, SegTypes, SegsBehind
<1>3. QED
  BY <1>2 DEF TypeInv, TypeOK, KeyTypes, LedTypes, SegTypes, HistoryTypes

LEMMA ReceivedTypes ==
  ASSUME TypeInv, NEW v \in Led, Command(v) \/ ForeignFrame(v)
  PROVE  TypeInv'
<1> USE DEF rx, tx, keyVars, sent
<1>1. /\ UNCHANGED <<line, rxdata, rrdy, roe, hold, sending, heard, pc, isr,
                     pendant_keys, pendant_pressed, button, igpio, keys,
                     latest, taken, paced, old_pendant_leds, copy, cached,
                     shown, count>>
      /\ frames < MaxFrames[paced] /\ frames' = frames + 1
      /\ passes' = 0 /\ rxt49' = v
      /\ \/ UNCHANGED <<i, seven_segs>>
         \/ i' = i + 1 /\ seven_segs' = i + 1
  BY DEF Command, ForeignFrame, Received
<1>2. /\ Rx!TypeOK /\ Tx!TypeOK /\ pc \in Places /\ isr \in BOOLEAN
      /\ paced \in Paces /\ KeyTypes /\ LedTypes /\ SegTypes /\ HistoryTypes
  BY DEF TypeInv
<1>3. Rx!TypeOK' /\ Tx!TypeOK'
  BY <1>1, <1>2 DEF Rx!TypeOK, Tx!TypeOK
<1>4. KeyTypes' /\ LedTypes' /\ HistoryTypes'
  BY <1>1, <1>2 DEF KeyTypes, LedTypes, HistoryTypes
<1>5. SegTypes'
  <2>1. MaxFrames[paced] \in Nat
    BY <1>2, PacesAssumption
  <2>2. frames \in Nat /\ i \in 0 .. frames /\ seven_segs \in 0 .. frames
        /\ copy \in 0 .. frames /\ shown \in 0 .. frames
    BY <1>2 DEF SegTypes, SegsBehind
  <2>3. frames + 1 \in 0 .. MaxFrames[paced]
    BY <1>1, <2>1, <2>2
  <2>4. i' \in 0 .. frames + 1 /\ seven_segs' \in 0 .. frames + 1
        /\ copy \in 0 .. frames + 1 /\ shown \in 0 .. frames + 1
    BY <1>1, <2>2
  <2>5. QED
    BY <1>1, <1>2, <2>3, <2>4 DEF SegTypes, SegsBehind
<1>6. QED
  BY <1>1, <1>2, <1>3, <1>4, <1>5 DEF TypeInv

(* The steps of the port, of the pendant and of the UART handler. *)
LEMMA PortTypes ==
  ASSUME TypeInv,
         (\E k \in Key : PendantSends(k)) \/ CharArrives \/ CharLeaves \/ Uart
  PROVE  TypeInv'
<1> USE DEF rx, tx, keyVars, ledVars, segVars, sent, paceVars
<1>0. /\ Rx!TypeOK /\ Tx!TypeOK /\ KeyTypes /\ LedTypes /\ SegTypes
      /\ HistoryTypes
  BY DEF TypeInv
<1>1. UNCHANGED <<ledVars, segVars, paceVars, pc, igpio, button>>
  BY DEF PendantSends, CharArrives, CharLeaves, Uart, UartRead, UartDone
<1>2. LedTypes' /\ SegTypes' /\ pc' \in Places /\ paced' \in Paces
      /\ passes' \in 0 .. 2
  BY <1>0, <1>1 DEF LedTypes, SegTypes, SegsBehind, HistoryTypes, TypeInv
<1>3. ASSUME NEW k \in Key, PendantSends(k)
      PROVE  TypeInv'
  <2>1. Rx!TypeOK'
    BY <1>0, <1>3, RxSteps DEF PendantSends
  <2>2. Tx!TypeOK' /\ KeyTypes' /\ isr' \in BOOLEAN
    BY <1>0, <1>3 DEF PendantSends, KeyTypes, Tx!TypeOK, TypeInv
  <2>3. k[1] \in Button /\ k[2] \in Level
    BY DEF Key
  <2>4. latest' \in [Button -> Level] /\ taken' \in [Button -> Level]
    BY <1>0, <1>3, <2>3 DEF PendantSends, HistoryTypes
  <2>5. keys' \in 0 .. MaxKeys[paced]
    <3>1. MaxKeys[paced] \in Nat
      BY PacesAssumption DEF TypeInv
    <3>2. QED
      BY <1>0, <1>3, <3>1 DEF PendantSends, HistoryTypes
  <2>6. QED
    BY <1>1, <1>2, <2>1, <2>2, <2>4, <2>5 DEF TypeInv, HistoryTypes
<1>4. CASE CharArrives
  <2>1. Rx!TypeOK'
    BY <1>0, <1>4, RxSteps DEF CharArrives
  <2>2. QED
    BY <1>0, <1>1, <1>2, <1>4, <2>1
    DEF CharArrives, KeyTypes, Tx!TypeOK, HistoryTypes, TypeInv
<1>5. CASE CharLeaves
  <2>1. Tx!TypeOK'
    BY <1>0, <1>5, TxSteps DEF CharLeaves
  <2>2. QED
    BY <1>0, <1>1, <1>2, <1>5, <2>1
    DEF CharLeaves, KeyTypes, Rx!TypeOK, HistoryTypes, TypeInv
<1>6. CASE UartRead
  <2>1. Rx!TypeOK'
    BY <1>0, <1>6, RxSteps DEF UartRead
  <2>2. rxdata \in Key /\ rxdata[1] \in Button /\ rxdata[2] \in Level
    BY <1>0 DEF Rx!TypeOK, Key
  <2>3. KeyTypes' /\ taken' \in [Button -> Level] /\ isr' \in BOOLEAN
    BY <1>0, <1>6, <2>2 DEF UartRead, KeyTypes, HistoryTypes
  <2>4. QED
    BY <1>0, <1>1, <1>2, <1>6, <2>1, <2>3
    DEF UartRead, Tx!TypeOK, HistoryTypes, TypeInv
<1>7. CASE UartDone
  <2>1. Rx!TypeOK'
    BY <1>0, <1>7, RxSteps DEF UartDone
  <2>2. QED
    BY <1>0, <1>1, <1>2, <1>7, <2>1
    DEF UartDone, KeyTypes, Tx!TypeOK, HistoryTypes, TypeInv
<1>8. QED
  BY <1>3, <1>4, <1>5, <1>6, <1>7 DEF Uart

(* Main's steps. *)
LEMMA MainTypes ==
  ASSUME TypeInv, Main
  PROVE  TypeInv'
<1> USE DEF rx, tx, keyVars, ledVars, segVars, sent, paceVars
<1>0. /\ Rx!TypeOK /\ Tx!TypeOK /\ KeyTypes /\ LedTypes /\ SegTypes
      /\ HistoryTypes
  BY DEF TypeInv
<1>1. /\ pc' \in Places
      /\ UNCHANGED <<rx, isr, paced, frames, rxt49, cached, i, keys, latest,
                     taken>>
  BY DEF Main, Test, Clear, KeyToSegs, KeyShown, TakeButton, TakeLevel,
         Display, DisplayShown, TestLeds, KeepLeds, SendLeds, At, EndOfPass,
         LoadSegs, StoreSegs, Places, Handling
<1>2. KeyTypes'
  <2>1. pendant_keys[1] \in Button /\ pendant_keys[2] \in Level
    BY <1>0 DEF KeyTypes, Key
  <2>2. CASE TakeLevel
    BY <1>0, <2>1, <2>2 DEF TakeLevel, KeyTypes
  <2>3. CASE TakeButton \/ Clear
    BY <1>0, <2>1, <2>3 DEF TakeButton, Clear, KeyTypes
  <2>4. CASE UNCHANGED keyVars
    BY <1>0, <2>4 DEF KeyTypes
  <2>5. QED
    BY <2>2, <2>3, <2>4
    DEF Main, Test, KeyToSegs, KeyShown, Display, DisplayShown, TestLeds,
        KeepLeds, SendLeds
<1>3. LedTypes'
  BY <1>0
  DEF Main, Test, Clear, KeyToSegs, KeyShown, TakeButton, TakeLevel, Display,
      DisplayShown, TestLeds, KeepLeds, SendLeds, LedTypes
<1>4. SegTypes' /\ passes' \in 0 .. 2
  <2>1. /\ SegsBehind => SegsBehind'
        /\ \/ count' = count /\ passes' = passes
           \/ EndOfPass
    BY <1>1
    DEF Main, Test, Clear, KeyToSegs, KeyShown, TakeButton, TakeLevel, Display,
        DisplayShown, TestLeds, KeepLeds, SendLeds, LoadSegs, StoreSegs,
        EndOfPass, SegsBehind
  <2>2. count' \in 0 .. DisplayEvery - 1
    BY <1>0, <2>1, DisplayAssumption DEF EndOfPass, SegTypes
  <2>3. passes' \in 0 .. 2
    BY <1>0, <2>1 DEF EndOfPass, HistoryTypes
  <2>4. QED
    BY <1>0, <1>1, <2>1, <2>2, <2>3 DEF SegTypes
<1>5. Tx!TypeOK'
  <2>1. CASE SendLeds
    <3>1. rxt49 \in Led \cup {NoLed}
      BY <1>0 DEF LedTypes
    <3>2. QED
      BY <1>0, <2>1, <3>1, TxSteps DEF SendLeds
  <2>2. CASE UNCHANGED tx
    BY <1>0, <2>2 DEF Tx!TypeOK
  <2>3. QED
    BY <2>1, <2>2
    DEF Main, Test, Clear, KeyToSegs, KeyShown, TakeButton, TakeLevel, Display,
        DisplayShown, TestLeds, KeepLeds
<1>6. Rx!TypeOK' /\ HistoryTypes' /\ isr' \in BOOLEAN /\ paced' \in Paces
  BY <1>0, <1>1, <1>4 DEF Rx!TypeOK, HistoryTypes, TypeInv
<1>7. QED
  BY <1>1, <1>2, <1>3, <1>4, <1>5, <1>6 DEF TypeInv

LEMMA TypeInductive == TypeInv /\ [Next]_vars => TypeInv'
<1> SUFFICES ASSUME TypeInv, [Next]_vars PROVE TypeInv'
  OBVIOUS
<1>1. CASE Main
  BY <1>1, MainTypes
<1>2. CASE \E v \in Led : Command(v) \/ ForeignFrame(v)
  BY <1>2, ReceivedTypes
<1>3. CASE (\E k \in Key : PendantSends(k)) \/ CharArrives \/ CharLeaves \/ Uart
  BY <1>3, PortTypes
<1>4. CASE UNCHANGED vars
  BY <1>4
  DEF vars, rx, tx, keyVars, ledVars, segVars, sent, paceVars, TypeInv,
      Rx!TypeOK, Tx!TypeOK, KeyTypes, LedTypes, SegTypes, SegsBehind,
      HistoryTypes
<1>5. QED
  BY <1>1, <1>2, <1>3, <1>4 DEF Next

LEMMA TypeInit == Init => TypeInv
<1> SUFFICES ASSUME Init PROVE TypeInv
  OBVIOUS
<1>1. Rx!TypeOK /\ Tx!TypeOK
  BY EmptySeq DEF Init, Rx!Init, Tx!Init, Rx!TypeOK, Tx!TypeOK
<1>2. pendant_keys \in Key /\ pendant_keys[1] \in Button
  BY DEF Init, Key
<1>3. MaxFrames[paced] \in Nat /\ MaxKeys[paced] \in Nat /\ paced \in Paces
  BY PacesAssumption DEF Init
<1>4. KeyTypes /\ LedTypes
  BY <1>2, LedAssumption DEF Init, KeyTypes, LedTypes, Level
<1>5. SegTypes /\ HistoryTypes
  BY <1>3, DisplayAssumption
  DEF Init, SegTypes, SegsBehind, HistoryTypes, Level
<1>6. QED
  BY <1>1, <1>3, <1>4, <1>5 DEF TypeInv, Init, Places, Handling

(* The variables of main, of its handlers and of the port have their types *)
(* at any pace, and the display's byte is never ahead of the frames.       *)
THEOREM TypeCorrect == Spec => []TypeOK
<1>1. QED
  BY TypeInit, TypeInductive, TypeImplied, PTL DEF Spec

-----------------------------------------------------------------------------
(***************************************************************************)
(* The key taken last, at any pace.  LastKeyTracked says nothing while     *)
(* main handles a key; in between, the key is on its way: the UART handler *)
(* has yet to set the flag, the flag is set, or main has cleared the flag  *)
(* and has yet to read the level, or the button too.  Clearing the flag    *)
(* first is what makes each case lead to the next whenever a key comes.    *)
(***************************************************************************)
OnItsWay ==
  \/ isr
  \/ pendant_pressed = 1
  \/ pc \in {"segs", "show", "button"}
  \/ pc = "level" /\ button = pendant_keys[1]

LastKeyInv ==
  \/ OnItsWay
  \/ pc \notin Handling /\ igpio[pendant_keys[1]] = pendant_keys[2]

LEMMA LastKeyInductive == TypeOK /\ LastKeyInv /\ [Next]_vars => LastKeyInv'
<1> SUFFICES ASSUME TypeOK, LastKeyInv, [Next]_vars PROVE LastKeyInv'
  OBVIOUS
<1> USE DEF keyVars, OnItsWay, LastKeyInv
<1>1. CASE \/ \E k \in Key : PendantSends(k)
           \/ CharArrives
           \/ CharLeaves
           \/ \E v \in Led : Command(v) \/ ForeignFrame(v)
  BY <1>1 DEF PendantSends, CharArrives, CharLeaves, Command, ForeignFrame,
              Received
<1>2. CASE Uart
  BY <1>2 DEF Uart, UartRead, UartDone
<1>3. CASE TakeLevel
  <2>1. /\ igpio' = [igpio EXCEPT ![button] = pendant_keys[2]]
        /\ igpio \in [Button -> Level] /\ button \in Button
    BY <1>3 DEF TakeLevel, TypeOK
  <2>2. igpio'[button] = pendant_keys[2]
    BY <2>1
  <2>3. QED
    BY <1>3, <2>2 DEF TakeLevel, At, Handling
<1>4. CASE Test \/ Clear \/ KeyToSegs \/ KeyShown \/ TakeButton
  BY <1>4 DEF Test, Clear, KeyToSegs, KeyShown, TakeButton, At, Handling
<1>5. CASE Display \/ DisplayShown \/ TestLeds \/ KeepLeds \/ SendLeds
  BY <1>5 DEF Display, DisplayShown, TestLeds, KeepLeds, SendLeds, At, Handling
<1>6. CASE UNCHANGED vars
  BY <1>6 DEF vars
<1>7. QED
  BY <1>1, <1>2, <1>3, <1>4, <1>5, <1>6 DEF Next, Main

(* Wherever main was when the last key was taken, once nothing is under    *)
(* way igpio shows that key's level at that key's bit.                     *)
THEOREM LastKeyCorrect == Spec => []LastKeyTracked
<1>1. Init => LastKeyInv
  BY DEF Init, LastKeyInv, Handling, Key
<1>2. LastKeyInv => LastKeyTracked
  BY DEF LastKeyInv, OnItsWay, LastKeyTracked, Handled, Handling
<1>3. QED
  BY <1>1, <1>2, LastKeyInductive, TypeCorrect, PTL DEF Spec

-----------------------------------------------------------------------------
(***************************************************************************)
(* A pendant that waits for main has one key under way at most, and igpio  *)
(* is what is pressed but for that key.  The stages it goes through: on    *)
(* the line, in RXDATA, taken by the UART handler, announced to main, and  *)
(* in main's hands with the button still to be read, or with the level.    *)
(***************************************************************************)
Owed(k) == latest = [igpio EXCEPT ![k[1]] = k[2]]

Resting == ~isr /\ pendant_pressed = 0 /\ pc \notin Handling

OnTheLine == \E k \in Key : line = <<k>> /\ Owed(k)
InThePort == line = <<>> /\ rrdy = 1 /\ Owed(rxdata)
NothingInThePort == line = <<>> /\ rrdy = 0

Stage ==
  \/ OnTheLine /\ rrdy = 0 /\ Resting
  \/ InThePort /\ Resting
  \/ /\ NothingInThePort
     /\ \/ Resting /\ igpio = latest
        \/ /\ isr /\ pendant_pressed = 0 /\ pc \notin Handling
           /\ Owed(pendant_keys)
        \/ /\ ~isr /\ pendant_pressed = 1 /\ pc \notin Handling \ {"clear"}
           /\ Owed(pendant_keys)
        \/ /\ ~isr /\ pendant_pressed = 0 /\ pc \in {"segs", "show", "button"}
           /\ Owed(pendant_keys)
        \/ /\ ~isr /\ pendant_pressed = 0 /\ pc = "level"
           /\ button = pendant_keys[1] /\ Owed(pendant_keys)

StageInv == paced => Stage

LEMMA StagePort ==
  ASSUME TypeOK, paced, Stage,
         (\E k \in Key : PendantSends(k)) \/ CharArrives \/ CharLeaves \/ Uart
  PROVE  Stage'
<1> USE DEF keyVars, sent, rx, Stage, OnTheLine, InThePort, NothingInThePort,
            Resting
<1>1. ASSUME NEW k \in Key, PendantSends(k) PROVE Stage'
  <2>1. /\ Handled /\ line' = <<>> \o <<k>> /\ rrdy' = 0
        /\ latest' = [latest EXCEPT ![k[1]] = k[2]]
        /\ UNCHANGED <<pc, isr, pendant_pressed, igpio>>
    BY <1>1 DEF PendantSends, Rx!Wait, Handled
  <2>2. igpio = latest /\ Resting
    BY <2>1, OneChar DEF Handled, Handling
  <2>3. line' = <<k>>
    BY <2>1, OneChar
  <2>4. Owed(k)'
    BY <2>1, <2>2 DEF Owed
  <2>5. QED
    BY <2>1, <2>2, <2>3, <2>4
<1>2. CASE CharArrives
  <2>1. /\ line # <<>> /\ rxdata' = Head(line) /\ line' = Tail(line) \o <<>>
        /\ rrdy' = 1
        /\ UNCHANGED <<pc, isr, pendant_pressed, igpio, latest>>
    BY <1>2 DEF CharArrives, Rx!Arrive
  <2>2. PICK k \in Key : line = <<k>> /\ Owed(k) /\ Resting
    BY <2>1
  <2>3. line' = <<>> /\ rxdata' = k
    BY <2>1, <2>2, OneChar
  <2>4. QED
    BY <2>1, <2>2, <2>3 DEF Owed
<1>3. CASE CharLeaves
  BY <1>3 DEF CharLeaves, Owed
<1>4. CASE UartRead
  <2>1. /\ ~isr /\ rrdy = 1 /\ isr' = TRUE /\ pendant_keys' = rxdata
        /\ UNCHANGED <<pc, pendant_pressed, igpio, latest>>
        /\ Rx!Arrive("read", <<>>) \/ Rx!Wait("read", <<>>)
    BY <1>4 DEF UartRead
  <2>2. line = <<>> /\ Owed(rxdata) /\ Resting
    BY <2>1
  <2>3. line' = <<>> /\ rrdy' = 0
    BY <2>1, <2>2, OneChar DEF Rx!Arrive, Rx!Wait
  <2>4. QED
    BY <2>1, <2>2, <2>3 DEF Owed
<1>5. CASE UartDone
  <2>1. /\ isr /\ isr' = FALSE /\ pendant_pressed' = 1
        /\ UNCHANGED <<pc, pendant_keys, igpio, latest>>
        /\ Rx!Arrive("clear", <<>>) \/ Rx!Wait("clear", <<>>)
    BY <1>5 DEF UartDone
  <2>2. NothingInThePort /\ pc \notin Handling /\ Owed(pendant_keys)
    BY <2>1
  <2>3. line' = <<>> /\ rrdy' = 0
    BY <2>1, <2>2, OneChar DEF Rx!Arrive, Rx!Wait
  <2>4. QED
    BY <2>1, <2>2, <2>3 DEF Owed
<1>6. QED
  BY <1>1, <1>2, <1>3, <1>4, <1>5 DEF Uart

LEMMA StageMain ==
  ASSUME TypeOK, paced, Stage, Main
  PROVE  Stage'
<1> USE DEF keyVars, sent, rx, Stage, OnTheLine, InThePort, NothingInThePort,
            Resting, At, Handling, Owed
<1>1. CASE TakeLevel
  <2>1. /\ igpio' = [igpio EXCEPT ![button] = pendant_keys[2]]
        /\ pc = "level" /\ pc' = "display"
        /\ UNCHANGED <<line, rrdy, isr, pendant_pressed, latest>>
    BY <1>1 DEF TakeLevel
  <2>2. /\ NothingInThePort /\ ~isr /\ pendant_pressed = 0
        /\ button = pendant_keys[1] /\ Owed(pendant_keys)
    BY <2>1
  <2>3. QED
    BY <2>1, <2>2
<1>2. CASE Test
  BY <1>2 DEF Test
<1>3. CASE Clear \/ KeyToSegs \/ KeyShown \/ TakeButton
  BY <1>3 DEF Clear, KeyToSegs, KeyShown, TakeButton
<1>4. CASE Display \/ DisplayShown \/ TestLeds \/ KeepLeds \/ SendLeds
  BY <1>4 DEF Display, DisplayShown, TestLeds, KeepLeds, SendLeds
<1>5. QED
  BY <1>1, <1>2, <1>3, <1>4 DEF Main

LEMMA StageInductive == TypeOK /\ StageInv /\ [Next]_vars => StageInv'
<1> SUFFICES ASSUME TypeOK, paced, Stage, [Next]_vars PROVE Stage'
  <2>1. [Next]_vars => paced' = paced
    BY DEF Next, PendantSends, CharArrives, CharLeaves, Uart, UartRead,
           UartDone, Command, ForeignFrame, Received, Main, Test, Clear,
           KeyToSegs, KeyShown, TakeButton, TakeLevel, Display, DisplayShown,
           TestLeds, KeepLeds, SendLeds, EndOfPass, paceVars, vars
  <2>2. QED
    BY <2>1 DEF StageInv
<1>1. CASE (\E k \in Key : PendantSends(k)) \/ CharArrives \/ CharLeaves \/ Uart
  BY <1>1, StagePort
<1>2. CASE Main
  BY <1>2, StageMain
<1>3. CASE UNCHANGED vars \/ \E v \in Led : Command(v) \/ ForeignFrame(v)
  BY <1>3 DEF vars, Command, ForeignFrame, Received, keyVars, sent, rx, Stage,
              OnTheLine, InThePort, NothingInThePort, Resting, Owed
<1>4. QED
  BY <1>1, <1>2, <1>3 DEF Next

(* A pendant that keeps main's pace is never forgotten: when nothing is    *)
(* under way, igpio shows the level every button sent last.                *)
THEOREM KeysCorrect == Spec => []KeysTracked
<1>1. Init => StageInv
  BY DEF Init, Rx!Init, StageInv, Stage, Resting, NothingInThePort, Handling
<1>2. StageInv => KeysTracked
  <2> SUFFICES ASSUME Stage, Handled PROVE igpio = latest
    BY DEF StageInv, KeysTracked
  <2>1. \A k \in Key : <<k>> # <<>>
    BY OneChar
  <2>2. QED
    BY <2>1 DEF Stage, Handled, Resting, OnTheLine, InThePort,
                NothingInThePort, Handling
<1>3. QED
  BY <1>1, <1>2, StageInductive, TypeCorrect, PTL DEF Spec

-----------------------------------------------------------------------------
(***************************************************************************)
(* At any pace a bit may take the level of another button's key: main      *)
(* reads the button and the level apart.  That takes a key that comes      *)
(* between the two, so a pendant that keeps main's pace does not do it.    *)
(***************************************************************************)
TakenLast == taken[pendant_keys[1]] = pendant_keys[2]

LEMMA TakenLastInductive == TypeOK /\ TakenLast /\ [Next]_vars => TakenLast'
<1> SUFFICES ASSUME TypeOK, TakenLast, [Next]_vars PROVE TakenLast'
  OBVIOUS
<1>1. CASE UartRead
  BY <1>1 DEF UartRead, TakenLast, TypeOK, Rx!TypeOK, Key
<1>2. CASE ~UartRead
  <2>1. UNCHANGED <<taken, pendant_keys>>
    BY <1>2
    DEF Next, PendantSends, CharArrives, CharLeaves, Uart, UartDone, Command,
        ForeignFrame, Received, Main, Test, Clear, KeyToSegs, KeyShown,
        TakeButton, TakeLevel, Display, DisplayShown, TestLeds, KeepLeds,
        SendLeds, keyVars, vars
  <2>2. QED
    BY <2>1 DEF TakenLast
<1>3. QED
  BY <1>1, <1>2

(* If keys never come faster than main handles them, a button's bit        *)
(* changes only to a level which that button sent.                         *)
THEOREM OwnLevelIfPaced ==
  ASSUME Paces = {TRUE}
  PROVE  Spec => LevelOfItsOwnKey
<1>1. Init => StageInv /\ TakenLast
  BY DEF Init, Rx!Init, StageInv, Stage, Resting, NothingInThePort, Handling,
         TakenLast, Key
<1>2. TypeOK /\ StageInv /\ TakenLast /\ [Next]_vars
        => [\A b \in Button : igpio'[b] # igpio[b] => igpio'[b] = taken[b]]_vars
  <2> SUFFICES ASSUME TypeOK, StageInv, TakenLast, Next,
                      NEW b \in Button, igpio'[b] # igpio[b]
               PROVE  igpio'[b] = taken[b]
    BY DEF vars
  <2>1. TakeLevel
    BY DEF Next, PendantSends, CharArrives, CharLeaves, Uart, UartRead,
           UartDone, Command, ForeignFrame, Received, Main, Test, Clear,
           KeyToSegs, KeyShown, TakeButton, Display, DisplayShown, TestLeds,
           KeepLeds, SendLeds, keyVars
  <2>2. Stage
    BY DEF StageInv, TypeOK
  <2>3. button = pendant_keys[1]
    BY <2>1, <2>2 DEF TakeLevel, At, Stage, Resting, Handling
  <2>4. igpio' = [igpio EXCEPT ![button] = pendant_keys[2]]
        /\ igpio \in [Button -> Level]
    BY <2>1 DEF TakeLevel, TypeOK
  <2>5. QED
    BY <2>3, <2>4 DEF TakenLast
<1>3. QED
  BY <1>1, <1>2, StageInductive, TakenLastInductive, TypeCorrect, PTL
  DEF Spec, LevelOfItsOwnKey
=============================================================================
