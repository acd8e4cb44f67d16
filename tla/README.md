# Verification of the LinuxCNC FPGA controller

The system moves a milling machine.  LinuxCNC runs a HAL component on a PC; the
component talks over raw Ethernet to an Altera DE2 board, where a Nios II
program passes each command to registers in the FPGA; Verilog turns the
registers into step pulses, a spindle PWM and a charge pump, and counts steps
and encoder lines for the way back.  A jog pendant hangs on a serial port of
the board.  This directory holds TLA+ specifications of the parts in which
order, timing, width and failure matter, their TLC configurations, and TLAPS
proofs.

Paths are relative to the repository: `de2.c` is
`src/DE2_Driver_HAL_component/de2.c`; `hello_led.c` and `DM9000A.C` are in
`src/DE2_NET/software/cnc/`; the Verilog is in `src/DE2_NET/ip/cnc_modules/`
(the copies in `system_0/synthesis/submodules/` are identical); the serial port
is `src/DE2_NET/system_0/synthesis/submodules/system_0_uart_0.v`.

## Inventory

| part | state | operations | talks to |
|---|---|---|---|
| HAL driver `do_work` (`de2.c:373`) | `buf`, `rx_buf`, HAL pins | once per servo period: encode, `send`, blocking `recvfrom`, decode; three early returns | Ethernet |
| driver load/unload (`de2.c:120-309`) | socket `fd` | export pins, open a promiscuous packet socket | HAL |
| Ethernet and DM9000A | frames, receive memory, ISR, IMR | queue, interrupt | both ends |
| Ethernet handler (`hello_led.c:54`) | `RXT`, `TXT`, `aaa` | on an interrupt: clear the status, receive ONE packet, reject or answer, write the registers | NIC driver, register file, pendant bytes |
| NIC driver (`DM9000A.C`) | the chip's registers | init, `TransmitPacket`, `ReceivePacket` | chip |
| register file (`cnc_module.v:46-127`) | 9 writable registers, `wd_counter` | Avalon write, read, idle | Nios II, generators |
| step generator x5 (`step_gen.v`) | `counter`, `step_out`, `last_step_out`, `location` | every 50 MHz clock | motor driver, register file |
| watchdog and charge pump (`cnc_module.v:213-233`) | `wd_counter`, `cp_capture`, `cp1.count` | every clock; a register read resets it | external enable circuit |
| spindle PWM (`pwm_gen.v`) | `count` | every clock | spindle |
| encoder x2 (`encoder_x1.v`) | synchronisers, `count` | every clock | shaft |
| pendant: UART handler and `main` loop (`hello_led.c:22-52, 165-203`) | `pendant_keys`, `pendant_pressed`, `igpio_*`, `old_pendant_leds`, `seven_segs` | a character per key, a byte of LEDs | Ethernet handler, through `igpio_*`, `RXT[49]` and `seven_segs` |
| serial port (`system_0_uart_0.v`) | shift registers, baud counters, RRDY, TRDY | every clock; reads and writes of its registers | pendant, UART handler, `main` |
| LCD, LEDs, seven-segment display | - | output | - |
| reset (`Reset_Delay.v`), PLL, `DE2_NET.v`, Qsys output | - | wiring | - |

What is hard:

* clocks of very different speed share the registers: the servo thread (1 ms),
  the interrupt handler (tens of microseconds), `main`'s loop and the
  generators (20 ns), with no handshake between any two;
* the protocol has no sequence numbers, no timeout and no retry, and both sides
  count on exactly one reply per frame;
* the handler masks the chip in one function and unmasks it in another, ignores
  whether a packet was received, and answers before it acts;
* `main` and two interrupt handlers share variables without disabling
  interrupts, and one of the variables is not volatile;
* everything in the FPGA is a counter that wraps, compared with registers that
  change while it counts, and the driver computes those registers by divisions
  whose results are rounded, signed and sometimes undefined.

What each part must guarantee is listed per run below; every hazard, with its
line, is in `PROJECT.json`, with the properties that would catch it.

## Modules

| module | models | state and actions |
|---|---|---|
| `StepGen` | `step_gen.v` and its registers in `cnc_module.v` | one step is one clock: `Generate` (`Toggle`, `Count`, `Halt`), `Latch` and `Accumulate` are the three always-blocks, `BusCycle` the write that falls on the same edge; `Reset` is `reset_n` |
| `Actuation` (EXTENDS `StepGen`) | a velocity on its way to the motor and back: `do_work`'s conversions, the handler's two writes | `WriteRate`, `Between`, `WriteDirs`, `Run`, `AReset`; `PeriodOf`, `DirOf`, `Loc` are the conversions |
| `PwmGen` | `pwm_gen.v` | operators on its register, for its two instances |
| `ChargePump` | watchdog, `cp_capture`, `cp1` | `WriteCycle`, `ReadCycle`, `IdleCycle` are the three branches of the bus block; `Bite` the watchdog block |
| `Spindle`, `SpindleSpeed` | `pwm1`; the driver's speed to duty (`de2.c:510-526`) | registers 6 and 7, written at any clock; `CounterOf`, `CaptureOf` |
| `Machine` (EXTENDS `ChargePump`, INSTANCE `SpindleSpeed`) | the outputs of `cnc_module.v` on their shared bus, and the circuit outside that the pump holds enabled | `Write`, `Read`, `Idle` drive all of them at one clock; `Sense` is the circuit |
| `Encoder` | `encoder_x1.v` and a shaft | `Latch`, `Count(Up, Down)`; `Turn` and `Stay` are the shaft |
| `Link` | `do_work`, the wire, the chip, `ethernet_interrupts`, `ReceivePacket`, `TransmitPacket`, resets and restarts | see below |
| `ServoLoop` | abstract: what an undisturbed link promises | `Issue`, `Answer`, `Observe`, `Apply` |
| `Codec` | every byte of a command and of a reply in `de2.c`, `hello_led.c` and the fields of `cnc_module.v` | `HostPacks`, `BoardReceives`, `BoardAnswers`, `BoardWrites` (one register a step), `HostUnpacks` |
| `TxPort`, `RxPort` | abstract: what the two halves of the serial port promise | `Write`, `Load`, `Deliver`; `Arrive`, `Wait` |
| `UartTx`, `UartRx`, `Uart` | the serial port clock by clock, with an ideal receiver and a sender of its own clock at the other end | one step is one clock; `Uart` puts the halves side by side |
| `Pendant` (INSTANCE `TxPort`, `RxPort`) | `main`'s loop, the UART handler and the Ethernet handler as far as they share variables | one action per statement of `main` that reads or writes what a handler may change |
| `ModularLemmas`, `*Proofs` | nothing: theorems | |

`MC*` modules and `.cfg` files are the instances TLC checks.  Some modules hold
operators introduced as "plausible mistakes": no specification uses them; they
replace the definition they resemble in the mutation runs, which check that
each property does notice such a mistake.

### Time and history in the FPGA modules

Nonblocking assignments all read the state before the edge, so a step is the
conjunction of what the blocks do, and the order in which the text lists them
does not matter.  The one blocking assignment, `cp_capture =`
(`cnc_module.v:217`), is read by another block through a continuous compare
only, so that no order between blocks can be seen.  Registers without a reset
(`last_step_out`, `cp_capture`, the encoder's latches) have settled by the time
`reset_n` is released, since `Reset_Delay.v` holds it for 2^24 clocks; `Reset`
is that whole interval.  History variables record what the world outside sees:
`motor`, `sinceRise`, `fastest`, `runt`, `settled`, `gap`, `strays` (motor driver),
`unfed` (clocks since the last read, which stops where `wd_counter` wraps),
`quiet` (clocks since an edge of the pump line), `high` and `steady` (the PWM
cycle so far).

The encoder's shaft is asynchronous.  A sample taken at the edge on which the
shaft moves is the old or the new state, for each signal on its own; a state is
assumed to last two clocks (40 ns).  The assumption is needed: with states of
one clock, a late sample followed by a timely one skips a state, and a
forward and backward turn then leaves the count wrong by one.

### From velocity to steps and back

`Actuation` takes velocities as integers in a small unit and the scale in steps
per unit, so that rates are integers.  `PeriodOf` is `50e6 / (v * scale * 2) - 1`
with C's conversion to a 32-bit register: the fraction is dropped towards zero,
a negative result is its two's complement, and what does not fit (the division
by zero below the threshold included) becomes 0x80000000, as the conversion
instruction of the x86 gives it; C leaves it open.  Between the write of the
period and the write of the directions and enables the handler writes the other
axes' periods, each put together from four volatile bytes: hundreds of clocks on
the board's Nios II, during which the axis runs at its new rate in its old
direction.  At a high rate that is many steps.  They are not lost, since the
accumulator counts what the motor does (`LocationTracksMotor`), and
`StraysAtNewRate` says how many they are: as many as the new rate has in that
time.  `MaxGap` bounds the gap in the run only; the theorem holds for every
value.  One axis stands for the five: their code is the same and they share the
direction/enable register only, which is written for all at once.

On the way back `Loc` is the signed number of steps (`de2.c:570-571`).  The
division by the scale that turns it into the pin's value (`de2.c:572-573`, with
`pos` a C `float`) is left out, and so `PositionTrue` is about steps and says
nothing of rounding.  A
negative scale is in the module and in the theorems (`ScaleAssumption` allows
it); the run has a positive one.

In `SpindleSpeed` the product of speed and counter is exact; what a C `float`
may round up to the next clock is not in it.

### The link

A call of `do_work` is `HostSend` (or `HostSendFails`) and `HostRecv` (or
`HostRecvFails`); the handler is `IsrEnter`, one of `ReceiveGood`,
`ReceiveBad`, `ReceiveNone`, `ReceiveBusError`, then `Reject` or `Answer`,
`TxDone` (or `TxLost`) and `WriteRegs`.  The steps are the points at which the
host or the chip can do something in between.  The handler is not interrupted:
the Nios II runs it with interrupts disabled.

Frames are abstracted to the number of the command in them (`Codec` has their
bytes).  No code sees the numbers.  A reply carries in addition the number of
the command that was in the registers when it was made.  `rxt` stays what it
was when no good packet was read, as `RXT` does.  `prs` and `imr` are the two
bits of the chip on which the handler depends.  Frames are taken to fit `RXT`
(512 bytes); the driver's have 64.  What can go wrong is one action each, and
`Budgets` is the set of combinations that may happen in one behaviour: loss in
either direction, `send` or `recvfrom` failing, foreign frames at either end
(the socket is bound to every protocol and promiscuous, `de2.c:244-290`; the
chip accepts all multicast, `DM9000A.C:94`), a damaged packet, an unreadable
ready byte with the chip reset that follows, a reset of the board, a restart of
the driver.

### The pendant and its port

A character is a button and a level.  `main`'s steps are the places where an
interrupt changes what it does; an interrupt handler does not interrupt another
one, so a handler is one step for `main`, and two for the port, which goes on
meanwhile.  `seven_segs` is not volatile: `cached` chooses, once for a
behaviour, between a build that keeps it in a register (as the committed
`cnc.objdump` does) and one that loads and stores it.  The LED byte may be
overwritten in the holding register, as `TxPort!Write` allows.

`Pendant` uses the ports by their abstract specifications; `UartTx` and
`UartRx` are shown to implement those.  The receiver's sender moves each edge by
up to `Drift` clocks from its time, which stands for two baud clocks that differ
and for the synchroniser's choice.  A behaviour of `Uart` has traffic in one
half only: the halves share no register.

`SizesAssumption` is what the port needs of its two numbers.  A divisor of at
least 3 for the transmitter: the line is two clocks behind the shift register,
so that with less the middle of a bit would come before the bit (5208 in the
FPGA, 4 in the vendor's simulation).  `2 * Drift + 2` clocks in the second half
of a bit for the receiver: the sample in the middle must have been taken, two
clocks behind the line, when the earliest next edge comes after the latest last
one.  That is about a quarter of a bit, 1301 clocks of the 5209.  The run's
receiver stands exactly on this line (11 and 2); with 11 and 3, 12 and 3, 8 and
2, or 4 and 1, TLC finds a character lost or garbled.

## Runs

Every run ends within about two minutes on two cores.

| run | instance | distinct states | shows |
|---|---|---|---|
| `actuation` | 3-bit registers, 16 clocks a second, velocities 1, 2, -3, 9 (below the threshold, slow, backwards, beyond the limit), gap up to 24, travel 5, resets | 297 502 | `LocationTracksMotor`: no pulse is lost or counted the wrong way; `StepRateBounded`: rewriting registers in any order makes no early step; `EnabledAxisSteps`; `SteadyRate`: never faster than commanded and at most two clocks late; `StraysAtNewRate`: between the two writes, the steps of the new rate, neither hurried nor held back; `CreepBounded`: what a stopped axis does; `PositionTrue` |
| `machine` | 3-bit registers, bite at 2, pump cycle of 3 clocks, nine speeds at three frequencies | 183 043 | `PumpHeld`: still from the bite to the wrap; `DrivesOff`, `DrivesStayOn`: what that is worth outside; `DutyAsCommanded`, `SpeedAsCommanded`, `CyclesRecur`: the spindle, fed or bitten |
| `charge_pump_wrap` | 4-bit watchdog, bite at 5 | - | violated: see Findings |
| `encoder` | 2-bit counter, travel 10 transitions | 419 | `CountSettles`: no drift |
| `link_clean` | 12 periods, no fault | 131 | `ImplementsServoLoop` (safety and liveness), `FeedbackOneBehind` |
| `link_faults` | 3 periods; two each of the faults that lose no frame, or one each of losses, resets, restarts and damage with two foreign frames, or losses and two restarts | 1 604 050 | `NoOrphanWait`, `HostUnblocks`, `LagBounded`, `FeedbackMonotone`, `InterruptsReenabled`, `AppliedMonotone`, `RegistersNotBehind` (what the host has seen answered is never followed by something older in the registers, through resets and restarts), `WatchdogNeedsHost` |
| `link_damaged` | 2 periods, 1 damaged packet | - | violated: see Findings |
| `codec` | commands and inputs of one bit or of all, each after a command of none or all | 33 185 | `RegistersAsCommanded`, `PinsAsRead` |
| `uart` | transmitter of 2 bits at divisor 4, three writes at any clock; receiver of 3 bits of 12 clocks, edges up to 2 clocks off | 100 376 | `ImplementsTxPort`, `FramesSpaced`, `ImplementsRxPort`, `FramesArrive` |
| `pendant` | 2 buttons; 2 keys and 2 frames no faster than `main`, or 3 keys at any pace | 584 112 | `KeysTracked`, `LedsSettle` (paced); `LastKeyTracked` |
| `pendant_levels` | 3 keys at any pace | - | violated: see Findings |
| `pendant_display` | paced | - | violated: see Findings |

Why the bounds are enough.  In the FPGA modules the registers are small enough
to wrap in the run, and the periods are the boundary cases of the comparison
with `counter` (0, an ordinary one, the one that never elapses); widths and
periods are constants of the theorems.  `MaxTravel` lets the location wrap both
ways.  A gap of 24 clocks holds six steps of the fastest rate and two of the
slowest.  In `machine` the external circuit tolerates the longest time between two
edges of a fed pump and no more (`Hold`), which is the least that such a circuit
can be dimensioned for; with less, a fed pump would not hold it.  In `Link` three commands are enough for a frame to be left in the
chip while another is handled, for a reply to be taken for the next one's, and
for a later command to overtake; a fault happening twice makes the lag
accumulate and leaves two frames in the queue.  The budgets are separate
because each combination asks one question: what disturbs without loss, what a
crash leaves, what a restart repairs.  The clean run has longer sequences
because it is small.  In `codec` a byte depends on one bit of a word at a time,
so that words of one bit, and of all, tell every two layouts apart; `MayFollow`
bounds which command may come after which (any, in the theorems).  In `uart`
a drift of 2 clocks in 12 is a sixth of a bit, far more than two crystals can
differ by within a character; three bits have every pattern of edges between
neighbours.  In `pendant` a second key or frame may come as soon as the first is
handled, and unpaced keys meet every place of `main`, one while another waits in
the port and a third in the handler.

Where a run ends.  `CHECK_DEADLOCK FALSE` is given where a bound ends the
behaviour: the travel of the axis stops its clock, and the host of `Link` has
sent its last command (or waits for a frame that was lost, as the program
would).  The other systems never stop.

Fairness.

* The clock: `WF` of a clock step in `AFairSpec` (within the travel; a command
  whose first write is done is finished, none is owed), `MFairSpec` and
  `Uart!FairSpec`.  The 50 MHz oscillator does not stop.
* `Link`: the servo thread keeps calling `do_work`, frames on the wire arrive,
  the processor takes interrupts and runs the handler, the chip completes what
  it transmits, and the board boots.  No fault is ever owed, and the reset is
  not.  `HostUnblocks` is therefore a property of the exchange and not of luck:
  it holds under any choice of faults that lose no frame.
* `Pendant`: characters move, a pending interrupt is taken, and `main` runs
  when no handler does.  No key and no frame is owed.

`LedsSettle` holds for commands no faster than `main`'s loop, which turns in
microseconds against a servo period of a millisecond.  With faster ones it
fails: `RXT[49]` is read three times (`hello_led.c:195-198`), and a byte that
changes and changes back in between is remembered as sent and is not.

## Findings

1. `PumpHeldUntilRead` is violated (`charge_pump_wrap`).  `wd_counter`
   (`cnc_module.v:111`) is not stopped at its maximum.  2^32 clocks (86 s) after
   the last read it is 0, the watchdog is "happy", and the charge pump runs
   again for a second, with no host; and so on every 86 s.  The comments say
   that only a read resets it (`cnc_module.v:64`).
2. `WrittenIfCorrect` is violated (`link_damaged`).  The handler stores the
   result of `ReceivePacket` in `aaa` and never reads it (`hello_led.c:59`).
   After a damaged packet `RXT` still holds the last good command, which is
   answered and written again, and strokes the watchdog.  "write regs if this
   is correct" (`hello_led.c:124`) tests the type of the packet only, a second
   time.  `AppliedMonotone` shows that at least no older command returns;
   `WatchdogNeedsHost` bounds the strokes; and, as a benefit, the repeated reply
   is what keeps `NoOrphanWait` true for a damaged command.
3. `LevelOfItsOwnKey` is violated (`pendant_levels`).  `main` reads
   `pendant_keys` for the button (`hello_led.c:172`) and again for the level
   (`:176`, `:182`).  A key that arrives in between gives its level to the
   button of the key before, where it stays until that button is used again.
   `LastKeyTracked` shows that the later key itself is handled correctly.
4. `GarbageShown` is violated (`pendant_display`).  The Ethernet handler counts
   foreign frames into `seven_segs` "to show any ethernet garbage"
   (`hello_led.c:63`); `main` reads, changes and writes the variable, which is
   not volatile, so that the count is overwritten, or never looked at in a
   build that keeps it in a register.

Checked and found to be harmless: the driver computes periods for
`2 * (per + 1)` clocks (`de2.c:473`) while a cycle takes `2 * (period + 2)`, and
the PWM cycle is two clocks longer than `50e6 / pwm_freq` (`de2.c:510`).
`SteadyRate` and `SpeedAsCommanded` say how far this is off: at most two clocks
a step, and two clocks a cycle.  Checked and surprising: an axis told to stop
but enabled creeps by a step every 86 s, and one with a negative scale does
nothing else (`CreepBounded`); and a fast axis that is reversed or stopped takes
steps of its new rate in its old direction while the handler is between two
writes (`StraysAtNewRate`), which the position read back includes.

## Proofs

Each `*Proofs` module proves its theorems for every value of the constants
allowed by the named assumptions of the specification (register width at least
2, a cycle that fits the register, a bite limit below the wrap, the divisors and
the drift of the serial port above; any gap between two writes; any set of velocities, frequencies, commands, inputs and keys; any
number of commands and any set of fault budgets).  Every safety property that a
passing run checks is a theorem.

| theorem | argument |
|---|---|
| `ActuationProofs!TypeCorrect` | `TypeOK` is inductive |
| `ActuationProofs!LocationCorrect` | `LocationTracksMotor` is inductive with `TypeOK`: a rise makes `Owed` what `motor` gained, in the direction of the same edge, and the next edge moves it to `location` before the direction can change; sums modulo the register by `ModularLemmas` |
| `ActuationProofs!RateCorrect` | the inductive invariant relates `sinceRise` to `counter` and the shortest period since the rise, by cases on the level of the pin and on whether the pulse was cut |
| `ActuationProofs!ActuatesStepGen` | every step of `ASpec` is a step of `StepGen!Spec`, since a velocity's period is one of `Periods`; so what is proved of `StepGen` holds of the driven axis |
| `ActuationProofs!ATypeCorrect`, `PositionCorrect` | from the former and `LocationTracksMotor`: within the range of the accumulator the subtraction of 0x80000000 loses no step and no sign |
| `ActuationProofs!StrayCorrect` | `StrayInv`: `Phase` is how far the generator is in its cycle, whatever it was doing when the period came; a clock adds one to it and a step takes a whole cycle off (`PhaseMoves`), so that steps times `Cycle` plus `Phase` keep up with the gap, to one cycle. The property alone is not inductive: it does not know where in the cycle the generator is |
| `ActuationProofs!SteadyRateCorrect`, `CreepCorrect` | `RateInv`: since a settled rise the counter is the time, so that a step comes exactly `2 * (period + 2)` clocks after the last; `DivisionBounds` puts the rounded quotient next to the rate |
| `MachineProofs!TypeCorrect`, `PumpHeldCorrect` | `IInv`: below the saturation `unfed` is `wd_counter` (`WatchdogCounts`); from two clocks after the limit `cp_capture` is the top of the register (`CaptureRaised`), which `count` holds after a reset only (`CountBelowNever`). `PumpHeld` alone is not inductive: it does not say why the capture register is high |
| `MachineProofs!ImplementsPump`, `MTypeCorrect`, `DutyHolds` | the steps of `Machine` are steps of `ChargePump` and of `Spindle`; of the pump all theorems hold in the composition, of the spindle `SpinInv` (`HighSoFar`: in a steady cycle `high` is the smaller of `count` and `pwm_capture`, and `count` has not passed the end) |
| `MachineProofs!SpeedHolds` | the exact duty of a steady cycle against the two roundings of the driver |
| `MachineProofs!DrivesOffCorrect` | while `PumpHeld` applies the line does not move, so `quiet` grows with `unfed` |
| `EncoderProofs!TypeCorrect`, `SettlesCorrect`, `NearCorrect` | `Explained`: there are three positions, each within one transition of the next and the first of the shaft, that the three pairs of latches show, and the count is the number of whole lines up to the oldest; the shaft's position is not in the state of the code, so it is an existential in the invariant. `NearCorrect`: while the shaft turns the count is within a line of it, which a run's small counter can hardly tell |
| `LinkProofs!TypeCorrect` | `TypeOK` is inductive; `SequenceTheorems` for the queues |
| `LinkProofs!InterruptsCorrect` | `Unmasked`: the mask is open in "write" too, since only `TransmitPacket` leaves "transmit" |
| `LinkProofs!NoOrphanCorrect` | `NoOrphanWait` is inductive next to `TypeOK`: each run of the handler sends one frame whatever it received, and the host wants one frame whatever it is, so the queues may be out of step but do not dry up |
| `LinkProofs!AppliedCorrect`, `WatchdogCorrect`, `FeedbackCorrect` | `OrderInv`: some `top`, the last command the handler took, separates what is applied, answered and observed from what is queued in the chip and on the wire, all in ascending order (`Queued`, `InHand`, `Replies`); strokes, the one in hand and the interrupts that will find the chip empty (`Phantoms`) are at most `top` and the excuses the faults give (`Accounted`). None of the three properties is inductive: they do not mention the queues |
| `LinkProofs!RegistersCorrect` | `SeenInv`: the newest command taken bounds what the host has seen or is about to see (`Seen`), and so does the last one answered, or it is 0. A reset takes the second bound away, and the first one brings it back: what is still queued is above `top` (`Queued`), hence above all that has been seen |
| `LinkProofs!LockstepCorrect`, `FeedbackOneBehindCorrect` | `Undisturbed` (no budget has a fault) leaves eleven actions; `InStep`: exactly one frame is under way while the host waits and none while it does not. Each step is then `Issue`, `Answer`, `Observe`, `Apply` or a stutter of `ServoLoop` under the refinement mapping: the safety part of `ImplementsServoLoop` |
| `LinkProofs!LagCorrect` | the frames the host has not taken yet form one line: its socket, the handler's hand, the chip, the wire. The host takes one per command, so how many commands it will have sent when a frame's turn comes is known, and with it the lag the frame will then cause. `Line` says that a ladder of bounds runs along the line, from the lag of the pins up to `Delays`, that rises by one at each foreign frame (`Rungs`), and that each frame's lag is below its own bound (`Below`): a foreign frame adds one to the lag of all behind it, so they must leave room for it. `LagInv` joins the four parts of the line (`LagLadder`), with the wire at the top of the ladder, where no foreign frame is (`WireLag`), the length of the line (`FewFrames`), and that no interrupt finds the chip empty (`NoPhantoms`). It is inductive until the chip or the board is reset, which puts the queues out of step for good |
| `PendantProofs!TypeCorrect` | `TypeOK`, whose bound on the display's byte is inductive because no copy of the byte is ahead of the frames there were (`SegsBehind`) |
| `PendantProofs!LastKeyCorrect` | while `main` handles a key the property says nothing; `OnItsWay` covers that gap: the handler has yet to set the flag, the flag is set, or `main` has cleared the flag and has yet to read the level, or the button too. That the flag is cleared first is what leads each case to the next whenever a key comes |
| `PendantProofs!KeysCorrect` | `StageInv`: at a pace `main` keeps up with there is one key at most on its way, in one of the stages port, handler, `pendant_keys`, `main` |
| `PendantProofs!OwnLevelIfPaced` | the property that finding 3 refutes holds if no key comes between `main`'s two reads |
| `CodecProofs!TypeCorrect`, `RegistersCorrect`, `PinsCorrect` | `PackBytes` and `WordOfBytes`: the four bytes of a word, shifted and added again, are the word; `FieldsPacked` and `WordsReplied` place them in the buffers of the two languages; `CodecInv`: registers below the one written next hold the command, those above the one before |
| `UartProofs!FramesSpacedCorrect`, `TxPortSafe` | `TxPhase`: the transmitter rests, loads, starts, or is at clock j of bit k of character c (`OnAir`), and then all of its registers, and what the ideal receiver has heard, are functions of c, k and j. Each clock of the port is `Write`, `Load`, `Deliver` or a stutter, the load being the clock at which the shift register takes the character unless a write comes between: the safety part of `ImplementsTxPort` |
| `UartProofs!RxPortCorrect`, `TypeCorrect` | `RxPhase`: the line is idle, a start bit passes the synchroniser, or bit `slot` is a clocks old with n bits sampled. The next sample is due `ToGo` clocks from now, which is the middle of bit n + 1 of the ideal time up to `Drift` (an edge restarts the bit clock, so errors do not add up); therefore a sample is of the bit it is meant for, and an edge finds the bits before it sampled (`Due`). A last sample may come after the sender has ended its frame and begun the next one: `Owed` carries the character over, and it is announced before the next start bit is seen |

Only model-checked: liveness and fairness, which the prover cannot treat.
These are `EnabledAxisSteps`, `CyclesRecur`, `DrivesStayOn`, `HostUnblocks`,
`FramesArrive`, `LedsSettle`, and the liveness parts of `ImplementsServoLoop`
and `ImplementsTxPort`, whose safety parts are theorems.

## Not modelled, and why

* `DM9000_init` beyond its effect on the mask, `phy_write`, and the chip's bus
  timing: sequences of writes with delays and no branch.  The loop that waits
  for the transmission (`DM9000A.C:127`) has no exit but the chip's answer,
  which is assumed.
* Of the serial port: `tx_overrun`, `tx_shift_empty`, break and framing flags
  and the interrupt logic, none of which the program reads or sets.
  `receive()` and `transmit()` of `hello_led.c` are never called.
* LCD, LEDs and the digits of the display: output only.  General-purpose pins:
  passed through (`Codec` has their bits).
* The dispatch of interrupts, `alt_tick` and the rest of the board support
  packages: vendor code.  The models assume what it provides: handlers run with
  interrupts disabled, and `main` goes on when they return.
* The PLL, the Nios II, the Qsys/SOPC output, the ISP1362, SRAM and flash cores
  and their drivers, the first test program in `hello_world`: generated or
  vendored, or not used.  They are most of the repository.  The
  controller's own program is `de2.c`, the files of `software/cnc/` and of
  `ip/cnc_modules/`, 1 678 lines with their comments, pin exports and logging;
  of these and of the 916 generated lines of the serial port the definitions
  stand for about 1 200.  Of five axes with the same code one is mapped.
* The LinuxCNC configuration: wiring of pins.

## Plan

Done, in this order: `StepGen`, `ChargePump`, `Spindle`, `Link` with
`ServoLoop`, `Encoder`; then `Actuation`, `Machine` with `SpindleSpeed`,
`Codec`, `Pendant`, `Uart` with its ports; the proofs listed above, which now
cover every safety property of the passing runs.

Next:

1. The NIC at register level (`TransmitPacket`, `ReceivePacket` byte by byte),
   refining the chip of `Link`.
2. Types and invariants of the abstract specifications themselves (`ServoLoop`,
   `TxPort`, `RxPort`), so that what implements them inherits these.
