------------------------------- MODULE Pendant -------------------------------
(***************************************************************************)
(* The jog pendant on the serial port: main's loop and the two interrupt   *)
(* handlers of hello_led.c that share its variables, over the two halves   *)
(* of the port.  Interrupt handlers do not interrupt each other, so each   *)
(* is one step for main; the serial port goes on meanwhile, so the UART    *)
(* handler is two steps for the port.                                      *)
(***************************************************************************)
EXTENDS Naturals, Sequences

CONSTANTS
  Button,        \* the pendant's keys: 0 .. 15, in two bytes of eight
  Led,           \* the values of RXT[49], 0 among them
  NoLed,
  DisplayEvery,  \* passes of main between two updates of the display: 1000
  Paces,         \* whether main is faster than its inputs: TRUE, FALSE or both
  MaxKeys,       \* bound, for each pace: characters the pendant sends
  MaxFrames      \* bound, for each pace: frames to the Ethernet handler

ASSUME LedAssumption == 0 \in Led /\ NoLed \notin Led
ASSUME PacesAssumption ==
  /\ Paces \subseteq BOOLEAN
  /\ MaxKeys \in [Paces -> Nat] /\ MaxFrames \in [Paces -> Nat]
ASSUME DisplayAssumption == DisplayEvery \in Nat \ {0}

Level == {0, 1}
Key == Button \X Level      \* bits 7..4 and bit 0 of the character

VARIABLES
  \* The port.
  line, rxdata, rrdy, roe,
  hold, sending, heard,
  \* The program.
  pc,               \* where main is
  isr,              \* is the UART handler between its two port accesses?
  pendant_keys, pendant_pressed, button,
  igpio,            \* igpio_23_16 and igpio_31_24
  rxt49, old_pendant_leds,
  i, seven_segs,    \* foreign frames, and the display's byte for them
  copy, cached,     \* main's register for it; does the build keep it there?
  shown,            \* that byte on the display
  count,
  \* History.
  paced,            \* is main faster than its inputs in this behaviour?
  keys, latest,     \* characters sent; level sent last, per button
  taken,            \* level the UART handler took last, per button
  frames, passes    \* frames so far; passes of main since, up to 2

rx == <<line, rxdata, rrdy, roe>>
tx == <<hold, sending, heard>>
keyVars == <<pendant_keys, pendant_pressed, button, igpio>>
ledVars == <<rxt49, old_pendant_leds>>
segVars == <<i, seven_segs, copy, cached, shown, count>>
sent == <<keys, latest>>
paceVars == <<paced, frames, passes>>
vars == <<rx, tx, pc, isr, keyVars, ledVars, segVars, sent, taken, paceVars>>

Rx == INSTANCE RxPort WITH Char <- Key
Tx == INSTANCE TxPort WITH Char <- Led, NoChar <- NoLed

Handling == {"clear", "segs", "show", "button", "level"}
Places == Handling \cup {"test", "display", "shown", "leds", "keep", "send"}

TypeOK ==
  /\ Rx!TypeOK /\ Tx!TypeOK
  /\ pc \in Places /\ isr \in BOOLEAN
  /\ pendant_keys \in Key /\ pendant_pressed \in {0, 1} /\ button \in Button
  /\ igpio \in [Button -> Level]
  /\ rxt49 \in Led /\ old_pendant_leds \in Led
  /\ paced \in Paces
  /\ {i, seven_segs, copy, shown} \subseteq 0 .. MaxFrames[paced]
  /\ cached \in BOOLEAN /\ count \in 0 .. DisplayEvery - 1
  /\ keys \in 0 .. MaxKeys[paced] /\ frames \in 0 .. MaxFrames[paced]
  /\ passes \in 0 .. 2
  /\ {latest, taken} \subseteq [Button -> Level]

Init ==
  /\ Rx!Init /\ Tx!Init
  /\ pc = "test" /\ isr = FALSE
  /\ pendant_keys \in {k \in Key : k[2] = 0} /\ pendant_pressed = 0
  /\ button = pendant_keys[1]
  /\ igpio = [b \in Button |-> 0]
  /\ rxt49 = 0 /\ old_pendant_leds = 0
  /\ i = 0 /\ seven_segs = 0 /\ copy = 0 /\ cached \in BOOLEAN /\ shown = 0
  /\ count = 0
  /\ keys = 0 /\ latest = igpio /\ taken = igpio
  /\ paced \in Paces /\ frames = 0 /\ passes = 2

-----------------------------------------------------------------------------
(* The pendant and the port, on their own.                                 *)
Handled ==
  line = <<>> /\ rrdy = 0 /\ ~isr /\ pendant_pressed = 0 /\ pc \notin Handling

PendantSends(k) ==
  /\ keys < MaxKeys[paced]
  /\ paced => Handled
  /\ Rx!Wait("idle", <<k>>)
  /\ keys' = keys + 1 /\ latest' = [latest EXCEPT ![k[1]] = k[2]]
  /\ UNCHANGED <<tx, pc, isr, keyVars, ledVars, segVars, taken, paceVars>>

CharArrives ==
  /\ Rx!Arrive("idle", <<>>)
  /\ UNCHANGED <<tx, pc, isr, keyVars, ledVars, segVars, sent, taken, paceVars>>

CharLeaves ==
  /\ Tx!Load(NoLed) \/ Tx!Deliver(NoLed)
  /\ UNCHANGED <<rx, pc, isr, keyVars, ledVars, segVars, sent, taken, paceVars>>

(* The UART handler.  A character may arrive at the clock of its read.     *)
UartRead ==
  /\ ~isr /\ rrdy = 1
  /\ isr' = TRUE
  /\ pendant_keys' = rxdata
  /\ taken' = [taken EXCEPT ![rxdata[1]] = rxdata[2]]
  /\ Rx!Arrive("read", <<>>) \/ Rx!Wait("read", <<>>)
  /\ UNCHANGED <<tx, pc, pendant_pressed, button, igpio, ledVars, segVars, sent,
                 paceVars>>

UartDone ==
  /\ isr
  /\ isr' = FALSE
  /\ pendant_pressed' = 1
  /\ Rx!Arrive("clear", <<>>) \/ Rx!Wait("clear", <<>>)
  /\ UNCHANGED <<tx, pc, pendant_keys, button, igpio, ledVars, segVars, sent,
                 taken, paceVars>>

(* The Ethernet handler, as far as main's variables go: a command or a     *)
(* frame of another sender, whose byte 49, if it has one, lands in RXT too *)
Received(v) ==
  /\ ~isr
  /\ frames < MaxFrames[paced] /\ frames' = frames + 1
  /\ paced => passes = 2
  /\ passes' = 0
  /\ rxt49' = v
  /\ UNCHANGED <<paced, rx, tx, pc, isr, keyVars, old_pendant_leds, copy, cached,
                 shown, count, sent, taken>>

Command(v) == Received(v) /\ UNCHANGED <<i, seven_segs>>
ForeignFrame(v) == Received(v) /\ i' = i + 1 /\ seven_segs' = i + 1

-----------------------------------------------------------------------------
(* Main.  A step of it happens when no handler runs.                       *)
At(here, next) == ~isr /\ pc = here /\ pc' = next

Test ==
  /\ At("test", IF pendant_pressed = 1 THEN "clear" ELSE "display")
  /\ UNCHANGED <<rx, tx, isr, keyVars, ledVars, segVars, sent, taken, paceVars>>

(* Another, for it: the passes are counted without end. *)
EndOfPassOn ==
  /\ count' = count + 1
  /\ passes' = IF passes < 2 THEN passes + 1 ELSE 2
  /\ UNCHANGED <<paced, i, seven_segs, copy, cached, shown, frames>>

EndOfPass ==
  /\ count' = (count + 1) % DisplayEvery
  /\ passes' = IF passes < 2 THEN passes + 1 ELSE 2
  /\ UNCHANGED <<paced, i, seven_segs, copy, cached, shown, frames>>

(* Plausible mistakes, for the mutation runs: the flag is cleared after    *)
(* the key was used; a bit once set stays set; a value is sent only if the *)
(* transmitter is ready, as transmit() does.                               *)
TakeLevelClears ==
  /\ At("level", "display")
  /\ igpio' = [igpio EXCEPT ![button] = pendant_keys[2]]
  /\ pendant_pressed' = 0
  /\ UNCHANGED <<rx, tx, isr, pendant_keys, button, ledVars, segVars, sent,
                 taken, paceVars>>

TakeLevelOr ==
  /\ At("level", "display")
  /\ igpio' = [igpio EXCEPT ![button] = IF @ = 1 THEN 1 ELSE pendant_keys[2]]
  /\ UNCHANGED <<rx, tx, isr, pendant_keys, pendant_pressed, button, ledVars,
                 segVars, sent, taken, paceVars>>

SendIfReady ==
  /\ At("send", "test") /\ EndOfPass
  /\ IF hold = NoLed
       THEN Tx!Write(rxt49) \/ Tx!Load(rxt49) \/ Tx!Deliver(rxt49)
       ELSE UNCHANGED tx
  /\ UNCHANGED <<rx, isr, keyVars, ledVars, sent, taken>>

Clear ==
  /\ At("clear", "segs")
  /\ pendant_pressed' = 0
  /\ UNCHANGED <<rx, tx, isr, pendant_keys, button, igpio, ledVars, segVars,
                 sent, taken, paceVars>>

(* seven_segs is not volatile: a build may load it once and never store it *)
LoadSegs ==
  /\ copy' = IF cached THEN copy ELSE seven_segs
  /\ UNCHANGED <<i, seven_segs, cached, shown, count>>

StoreSegs == seven_segs' = IF cached THEN seven_segs ELSE copy

KeyToSegs ==
  /\ At("segs", "show")
  /\ LoadSegs
  /\ UNCHANGED <<rx, tx, isr, keyVars, ledVars, sent, taken, paceVars>>

KeyShown ==
  /\ At("show", "button")
  /\ StoreSegs
  /\ UNCHANGED <<rx, tx, isr, keyVars, ledVars, i, copy, cached, shown, count,
                 sent, taken, paceVars>>

TakeButton ==
  /\ At("button", "level")
  /\ button' = pendant_keys[1]
  /\ UNCHANGED <<rx, tx, isr, pendant_keys, pendant_pressed, igpio, ledVars,
                 segVars, sent, taken, paceVars>>

TakeLevel ==
  /\ At("level", "display")
  /\ igpio' = [igpio EXCEPT ![button] = pendant_keys[2]]
  /\ UNCHANGED <<rx, tx, isr, pendant_keys, pendant_pressed, button, ledVars,
                 segVars, sent, taken, paceVars>>

Display ==
  /\ At("display", IF count = 0 THEN "shown" ELSE "leds")
  /\ IF count = 0 THEN LoadSegs ELSE UNCHANGED segVars
  /\ UNCHANGED <<rx, tx, isr, keyVars, ledVars, sent, taken, paceVars>>

DisplayShown ==
  /\ At("shown", "leds")
  /\ StoreSegs /\ shown' = copy
  /\ UNCHANGED <<rx, tx, isr, keyVars, ledVars, i, copy, cached, count, sent,
                 taken, paceVars>>

TestLeds ==
  /\ IF rxt49 # old_pendant_leds
       THEN At("leds", "keep") /\ UNCHANGED <<segVars, paceVars>>
       ELSE At("leds", "test") /\ EndOfPass
  /\ UNCHANGED <<rx, tx, isr, keyVars, ledVars, sent, taken>>

KeepLeds ==
  /\ At("keep", "send")
  /\ old_pendant_leds' = rxt49
  /\ UNCHANGED <<rx, tx, isr, keyVars, rxt49, segVars, sent, taken, paceVars>>

(* TXDATA is written whatever TRDY says; the line may move at that clock.  *)
SendLeds ==
  /\ At("send", "test") /\ EndOfPass
  /\ Tx!Write(rxt49) \/ Tx!Load(rxt49) \/ Tx!Deliver(rxt49)
  /\ UNCHANGED <<rx, isr, keyVars, ledVars, sent, taken>>

Main ==
  \/ Test \/ Clear \/ KeyToSegs \/ KeyShown \/ TakeButton \/ TakeLevel
  \/ Display \/ DisplayShown \/ TestLeds \/ KeepLeds \/ SendLeds

Uart == UartRead \/ UartDone

Next ==
  \/ \E k \in Key : PendantSends(k)
  \/ CharArrives \/ CharLeaves \/ Uart
  \/ \E v \in Led : Command(v) \/ ForeignFrame(v)
  \/ Main

Spec == Init /\ [][Next]_vars

(***************************************************************************)
(* The port moves, a pending interrupt is taken, and main runs whenever no *)
(* handler does (alt_irq_handler returns when nothing is pending).         *)
(***************************************************************************)
FairSpec ==
  /\ Spec
  /\ WF_vars(CharArrives) /\ WF_vars(CharLeaves)
  /\ WF_vars(Uart) /\ WF_vars(Main)

-----------------------------------------------------------------------------
(***************************************************************************)
(* If keys come no faster than main handles them, what the Ethernet        *)
(* handler reports is what is pressed (hello_led.c:167-185).               *)
(***************************************************************************)
KeysTracked == paced /\ Handled => igpio = latest

(***************************************************************************)
(* At any pace, the key that the UART handler took last is not forgotten,  *)
(* wherever main was when it came (hello_led.c:169 before :170-182).       *)
(***************************************************************************)
LastKeyTracked ==
  Handled => igpio[pendant_keys[1]] = pendant_keys[2]

(***************************************************************************)
(* A button's bit changes only to a level which that button sent           *)
(* (hello_led.c:15-16 call the bits "inputs from pendant").                *)
(***************************************************************************)
LevelOfItsOwnKey ==
  [][\A b \in Button : igpio'[b] # igpio[b] => igpio'[b] = taken[b]]_vars

(***************************************************************************)
(* Once the byte for the pendant's LEDs no longer changes, the pendant     *)
(* gets it (hello_led.c:195-199 "send data if it has changed"), provided   *)
(* that commands come no faster than main's loop turns.                    *)
(***************************************************************************)
Lit == IF heard = <<>> THEN 0 ELSE heard[Len(heard)]
LedsSettle ==
  paced => \A v \in Led : <>[](rxt49 = v) => <>[](Lit = v)

(***************************************************************************)
(* "lowest byte on seven segs show any ethernet garbage" (hello_led.c:63): *)
(* the display never stays without the count for good.                     *)
(***************************************************************************)
GarbageShown == []<>(shown = i)
=============================================================================
