# Verification of the Quirkbot Arduino hardware package

The Quirkbot is an ATmega32U4 board at 8 MHz.  This package holds what runs on
it: the Arduino core (serial port, USB device stack, timers), the libraries
shipped with the core (Wire, Servo, Keyboard, Mouse, HID, MIDIUSB,
protothreads) and the bootloader with its updater.  There is no operating
system: one sketch runs in a loop, and interrupt handlers run between any two
of its instructions unless it has interrupts off.  Most of what can go wrong
goes wrong there, or between the program and hardware that moves on its own.

Contents: [the parts](#the-parts) · [the modules](#the-modules) ·
[the runs](#the-runs) · [fairness](#fairness) · [proofs](#proofs) ·
[disagreements](#disagreements-between-code-and-comments) ·
[what is left out](#what-is-left-out) · [what remains](#what-remains).

## The parts

All paths are below `src/avr/`.

| part | source | state | operations | what is hard |
|---|---|---|---|---|
| HardwareSerial | `cores/arduino/HardwareSerial*` | two rings, `_written`, UCSRnB | `write`, `flush`, `availableForWrite`, `read`, `peek`, `available`, `begin`, `end`, two interrupts | the handler between two steps of a call, the UART moving on its own, calls with interrupts off |
| Bootloader | `bootloaders/quirkbot/Bootloader` | page buffer and index, address, magic key, reset flags, flash | CDC programmer commands, MIDI upload commands, the check that starts the application | reset and power loss between erase and write, a cable pulled in a command, two protocols sharing one page buffer |
| Bootloader updater | `QuirkbotBootloaderUpdater.ino.template` | flash | replaces the bootloader from a sketch | instruction addresses, cycle counts |
| TWI driver | `libraries/Wire/src/utility/twi.c` | `twi_state`, three buffers with indices, TWCR | `twi_writeTo`, `twi_readFrom`, `twi_transmit`, one interrupt per bus event | other masters, lost arbitration, slave traffic while a call waits |
| Wire | `libraries/Wire/src/Wire.cpp` | transmit and receive buffer, `transmitting` | `beginTransmission`, `write`, `endTransmission`, `requestFrom`, `read`, slave callbacks in the handler | one flag shared by the sketch and its own callbacks |
| USB sending | `USBCore.cpp`, `CDC.cpp`, `MIDIUSB.cpp`, `HID.cpp` | endpoint banks, UENUM, configuration | `USB_Send`, `USB_SendSpace`, `USB_Flush` | two handlers that select other endpoints, bus resets, a host that does not read |
| USB receiving, MIDI input | the same | endpoint banks, MIDI event ring | `USB_Recv`, `Serial.read`, `MidiUSB.read` | zero-length and short packets |
| CDC control | `CDC.cpp` | line coding, line state, magic key | control requests, the 1200 baud reset | a loop in the control handler, a watchdog, a key in RAM the bootloader reads |
| USB enumeration | `USBCore.cpp`, `PluggableUSB.cpp` | configuration, endpoint table | descriptors, standard requests | mostly data |
| Keyboard, Mouse | `libraries/Keyboard`, `libraries/Mouse` | key report, buttons | `press`, `release`, `releaseAll`, `write` | a report that is refused is lost |
| Timers | `cores/arduino/wiring.c` | overflow and millisecond counts | `millis`, `micros`, `delay` | a running timer against its pending interrupt |
| Tone, Servo | `Tone.cpp`, `libraries/Servo/src/avr` | toggle counts, channel table | start, stop, timer interrupts | stopping between two edges, 32-bit products |
| protothreads | `libraries/quirkbot-protothreads` | one continuation per block and event | macros that yield and resume | a block's continuation shared by its callers |
| External interrupts | `WInterrupts.c` | table of callbacks | attach, detach | little |
| Digital and analog I/O, pulses, shifting | `wiring_*.c` | registers | read, write | nothing shared, timing loops |
| Print, Stream, WString, IPAddress, WMath | `cores/arduino` | none shared | formatting, parsing | nothing concurrent |
| LUFA | `bootloaders/quirkbot/LUFA` | vendored | the bootloader's USB stack | external |
| Build | `gulpfile.js` | files | packaging | external |

How they touch each other:

- A sketch calls `Serial1` (HardwareSerial), `Serial` (CDC over USB), `Keyboard`
  and `Mouse` (HID over USB), `MidiUSB`, and `Wire` (over the TWI driver).
- The three USB streams share the endpoint registers behind UENUM and one lock,
  `LockEP`; the start-of-frame and control handlers use the same registers.
- Wire registers callbacks that the TWI handler runs, and shares its buffers
  with them.
- Every time in the package is read from the counts timer 0 keeps: `millis()`,
  `micros()`, `delay()`, and with them the sleep of a protothread.
- Servo (timer 1), Tone (timer 3) and `digitalWrite()` change pins of the same
  port register, from two handlers and the sketch.
- The bootloader and the application share flash, the magic key in RAM, the
  reset flags and the watchdog: the 1200 baud reset in `CDC.cpp` ends in the
  bootloader's start-up check, and the bootloader's exit ends in the
  application.

What makes each part correct: no byte lost, repeated or overtaken on its way
(serial, USB, TWI); room or data that was announced is still there when it is
used; a handler runs only with work to do and is on whenever work waits; every
wait ends; a result that is reported is true (TWI codes, `flush`, a complete
upload); no command reaches the bootloader's own flash; the application starts
only when it is due.  PROJECT.json lists the hazards one by one, with the
source line where each bites and the property that covers it.

## The modules

| module | models | used with |
|---|---|---|
| `ByteChannel` | what a serial transmitter promises: an ordered channel of bounded capacity | refined by `HardwareSerialTx` |
| `HardwareSerialTx` | transmit half of HardwareSerial, with the UART | |
| `HardwareSerialRx` (`MC...`) | receive half | |
| `Bootloader` | start-up check, page writer, both command loops, resets | |
| `CdcControl` | the application's CDC requests and the 1200 baud touch | extends `Bootloader` |
| `BootloaderUpload` (`MC...`) | a MIDI uploader, a second program on the CDC port, hosts that touch the application | extends `CdcControl` |
| `Twi` | TWI driver, its handler, the hardware and the bus | |
| `Wire` (`MC...`) | the calls of a sketch over `Twi`, and the two services its handler calls | extends `Twi` |
| `ReportPipe` | what `HID().SendReport()` promises: whole reports, or a refusal | refined by `UsbSend`, used by `Keyboard` |
| `UsbSend` (`MC...`) | USB_Send and its callers, USB_Flush, the two USB handlers | |
| `UsbReceive` (`MC...`) | USB_Recv and its callers, the MIDI event ring, the same handlers | |
| `Keyboard` | the key report over a `ReportPipe` | |
| `Port` | a port register and `digitalWrite()` | |
| `Servo`, `Tone` | the two libraries with their timers' handlers | extend `Port` |
| `PinHandlers` (`MC...`) | both in one sketch on one port | extends `Servo`, `Tone` |
| `Timers` | timer 0, its handler, `micros()`, `delay()` | |
| `SequentialThreads` | what protothreads promise: events with call stacks of their own | refined by `Threads` |
| `Threads` (`MC...`) | events and blocks, with the C stack and the labels | extends `Timers` |
| `HardwareSerialTxProofs`, `HardwareSerialRxProofs`, `UsbReceiveProofs`, `WireProofs` | the theorems about the module of that name | |
| `BootloaderProofs` | the theorems about `Bootloader`, and those about `BootloaderUpload` | extends `BootloaderUpload` |
| `UsbSendProofs` | the theorems about `UsbSend` and about `Keyboard` | extends both |
| `TimerProofs` | the theorems about what timers drive: those about `Timers` and `Threads`, and those about `PinHandlers` | extends `Threads`, `PinHandlers` |
| `DataLemmas` | lemmas on quotients, remainders, rings and sequences of packets | extended by all of them |

**HardwareSerialTx.**  Three things run.  The *sketch* is `pc`: `CallWrite`
enters `write()`, `WriteTest` and `WriteShortcut` are the test of the empty
ring and the two statements of the shortcut (UDR, then TXC) inside the
ATOMIC_BLOCK, `WriteWait` is the loop on a full ring, which runs the handler
itself while interrupts are off, `WriteStore` and `WritePublish` store the byte
and, in the second ATOMIC_BLOCK, publish head and UDRIE; `FlushTest` and
`FlushPoll` are the loop of `flush()`; `begin()` and `end()` put their four
read-modify-writes of UCSRB into `todo`, and `UpdateUcsrb` does each as a load
and a store.  The *handler* is `irq`: `TxIrq` (or the sketch's own call) takes
the oldest byte, `IrqFinish` clears TXC and, on an empty ring, UDRIE.  The *UART*
is `UartLoad` and `UartComplete`.  `JustWritten` states the one thing taken
from timing: a byte is on the line for ten bit times, so the instruction after
the write of UDR runs before TXC can rise.  `sent` and `wire` are histories,
`room` is what `availableForWrite()` reported less the writes since.

**HardwareSerialRx.**  `Arrive` brings a frame, with or without a parity
error, into the UART's FIFO, which drops what does not fit; `RxIrq` is
`_rx_complete_irq()`; `read()` and `peek()` are split at the load of the byte,
`begin()` and `end()` at the bit that enables the interrupt.  `line` is what the
line brought intact, `behind` that a byte came for which there was no room.

**Bootloader.**  `flash` is what survives; every reset runs `ClearRam` and
`ApplicationJumpCheck`.  `PushFirmwareByte()` is `Push`, `ErasePage`,
`WritePage` and `NextPage`, so a reset or a power failure can fall between
them; it is called from `MidiData` and from `CdcFetch`, and `Resume` says where
it returns to.  SPM acts on the page an address lies in and on the word within
it, so a host that sets an address in the middle of a page is in the model.
`Cable` pulls and plugs the cable; a re-plugged device is enumerated before a
host can send a command (more than 100 ms), so a command the loss of the cable
broke off has run out by then.  Nothing reserves the cell of `MagicBootKey`:
power-on, a brown-out (`BrownOut`) and the running application (`AppUsesRam`) leave
any value there, and `stray` records that a key in it is theirs.  EEPROM, fuse,
signature and LED commands are
`CdcOther`: they only reply.

**CdcControl** adds the application's side of the way back: `SetLineCoding`
sets the rate, `SetControlLineState` does one of three things.  `Touch` writes
the key, starts the watchdog and stays in the control handler (`pc = "touch"`);
`CancelTouch` is the branch that takes the key for a touch under way and
restores `wdtcsr_save`.  This key lies in the middle of the RAM, in a cell the
sketch's own data may use too: `keyHeld` is any value when an application starts,
after `CancelTouch`, and whenever the sketch writes the two cells
(`SketchWrites`).

**BootloaderUpload** restricts the hosts: an uploader that starts over whenever
it likes, at any byte, another program that probes the CDC port and may even
tell the bootloader to exit, and control requests to the application.

**Twi.**  The hardware holds the bus from its interrupt until TWCR is written,
so each branch of the handler is one step; a branch is one action named for
its status (`IsrSlaveNack`, `IsrSlaveStop`...).  `twi_writeTo()` and
`twi_readFrom()` are divided into `WaitReady`, `Claim`, `SetUp`, `Go` and the
return: another master can address the board between any two of them.  `SetUp`
is one step because it fills variables the handler reads in master states
alone, and none is reached before `Go`.  Three things are simplified: a pending
interrupt is served before the sketch goes on, devices refuse or fail at any
point but do not stretch the clock, and a STOP is over at once.

**Wire.**  `EndTransmission` and `RequestFrom` start the driver's calls;
`RegisterSent` is the `endTransmission(false)` inside `requestFrom()` with an
internal address; `RequestCopied`, `RequestIndex` and `RequestLength` are the
copy into `rxBuffer` and the two assignments after it; `Read` and `Advance` are
the two halves of `read()`.  `OnReceiveService` and `OnRequestService` run in
the handler, between any of these.  Both callbacks are registered; what
`user_onReceive()` does is to read all or nothing.  `due` is the history of
what the sketch has still to read.  `beginTransmission()` and `write()` are one
step each: the handler runs between them, not within.

**UsbSend.**  `USB_Send()` is `SendSpace` (under its own lock), `Lock` (the
lock and `SetEP`) and `Fill` (the locked block), so that a start of frame, a
bus reset and a control request fall between them; `USB_Flush()` has no lock
and is three steps.  All registers act on `uenum`, also when it is not the
endpoint the call means.  `HID().SendReport()` is two sends, the second with
TRANSFER_RELEASE.  A handler is one step.  `SetConfiguration` happens only
between calls: no call waits, and an enumeration takes the host many frames.  A
host that selects the configuration again without resetting the bus first, and does
so between the two sends of a report, is therefore not covered.

**UsbReceive.**  `RecvLock`, `RecvTake` and `RecvRelease` are `USB_Recv()`: the
lock with `SetEP`, the bytes, and the release of a bank that is empty.
`CdcRead`, `CdcPeek`, `CdcAvailable` and `CdcBegin` are `Serial_`'s calls with
`peek_buffer`; `MidiRead` runs `accept()` (`Accept`, `AcceptStore`) until the
ring is full or nothing is left, then takes the slot at the tail, whatever it
holds.  `Handler` selects another endpoint.  `BusReset` empties the endpoints at any
moment, inside the lock too, as the hardware does; `Reconfigure` is the handlers of
a reset's end and of SET_CONFIGURATION, which wait for the lock.  `struck` and
`stale` record that a reset struck the call and that `read()` loaded a slot of an
empty ring.  `RecvTake` takes a unit in one step, so a reset among the four bytes
of an event is left out.

**Keyboard.**  `DoPress` and `DoRelease` are `press()` and `release()` with the
report they send; `write()` is both, with other steps between.  The reports go
to an instance of `ReportPipe`, which `UsbSend` implements, and `SendKeys`
ignores whether they were taken, as `sendReport()` does.

**Port, Servo, Tone, PinHandlers.**  A register is read and written in two
steps, so a handler in between is undone unless interrupts are off.
`ServoIrq` and `ServoIrqEnd` are the two halves of the compare handler: up to
the last reading of TCNT1, and the write of OCR1A with the next pin's change.
The timer moves between any two steps (`TimerTick`), also inside the handler,
by at most `HandlerTicks`.  `writeMicroseconds()` stores two bytes, `tone()`
its count in two parts, each a step of its own.  `pulse`, `driven`, `quiet`,
`planned` and `toggled` are histories.

**Timers.**  `Tick` counts TCNT0 and raises TOV0, `TimerIrq` is the overflow
handler.  `micros()` is `CallMicros` (interrupts off, the count), `ReadTimer`
(TCNT0) and the return that looks at TOV0; `delay()` is the loop around it
(`DelayStart`, `DelayPoll`, `DelayTest`, `DelayReturn`).  `now` counts ticks
since the reset.

**Threads.**  `lc` is the label each function stored, `stack` the C stack;
`At(op, byGoto)` tells a statement fallen into from one the `goto` of PT_BEGIN
reached, which is what the macros tell apart.  `Body` is what the macros make
of a sketch's statements.  A statement may read the clock, sleep, or block the
board in `delay()`, with the steps of `Timers` between.  `CallsFrom` rebuilds
from labels and C stack the call stack each event would have: that is the
refinement mapping to `SequentialThreads`.

## The runs

| run | question | instance |
|---|---|---|
| `serial_tx` | is the transmitter right in every interleaving | ring of 3 (two usable slots), two byte values, 5 writes |
| `serial_rx` | the same for the receiver | ring of 3, FIFO of 3, 5 arrivals, intact or not, symmetric bytes |
| `boot_any_host` | can any sequence of commands and failures hurt the bootloader or start the application wrongly | pages of 4 bytes, one application page, one boot page, 12 addresses |
| `boot_upload` | does a complete upload hold and start; does the board come back from a hang and from a touch | two application pages of different bytes |
| `wire_master` | are results and data of a single master true, and do calls return | writes of 0 to 2 bytes and requests of 1 and 3 into buffers of 2, with no register address and one that is longer than allowed |
| `wire_multi_master` | is what the sketch reads as a slave right, at any moment of its own call | messages of up to 2 bytes more than a buffer of 2 holds |
| `twi_slave_stuck` (violated) | do calls return then | the same with writes of one byte |
| `usb_send` | do the streams stay apart and do sends end, whatever the handlers do | two banks of 3 bytes (one for MIDI); a write of two bytes, a MIDI event, a report |
| `usb_receive` | does each interface get its own data, all of it | two banks of two units, a ring of 3, 2 bytes and 4 events |
| `keyboard_reports` | does the host follow the sketch | 2 slots, 3 keys, one modifier, pipe of 2 |
| `pins` | are pulses and tones what was asked for, and pins nobody else's | two servos with pulses of 3 or 4 ticks, a refresh of 10, a counter of 16; tones of 2 toggles or without end |
| `threads` | does the clock tell the time under threads that sleep and wait for each other | a timer of 4 ticks of 4 us, a "millisecond" of 7, words of 20, 36 ticks; two events, two nested blocks |

Why the bounds are enough.  A ring of three is the smallest that is empty,
partly full and full at once different things, with a wrap in every position;
five writes fill it, wrap it and use it again, and the theorems below cover
every other size.  Pages of four bytes are the smallest with an address that
is even and not a page's start; twelve addresses hold application, bootloader,
and one page beyond flash before the address wraps.  TWI buffers of two and
transfers around that reach: fits, exactly full, first byte too many, and the
byte after it.  Endpoint banks of three and three streams of one or two bytes
make a send end within a bank, exactly at its end and in the next one, from
every fill level.  `IndexRange` of 4 plays 256: larger than the buffer, small
enough to wrap.  In `pins` two short pulses leave a part of the refresh interval and
two long ones do not, a byte of a width has two values so that both parts of it
change, and the counter comes round once before the first interrupt, as OCR1A is 0
then.  In `threads` a timer period is no whole number of milliseconds,
36 ticks overflow it nine times, and `micros()` and `millis()` wrap.
`MaxWrites`, `MaxArrivals`, `MaxUnits`, `MaxWritten` and `MaxTicks` bound
histories or what the sketch and the host offer; `Latency`, `OverflowLatency` and
`HandlerTicks` bound how long a handler waits and how long its instructions take.
`wire_multi_master` leaves the sketch's own messages empty: its buffers, not
theirs, are the question there.

What the properties say is written above each of them in its module; in
short:

- *serial_tx*: no byte waits for a disabled interrupt (`NoByteStranded`), order
  and completeness up to the line (`InOrder`), `flush()` returns after the last
  stop bit (`FlushDrains`), refinement of `ByteChannel` (`ImplementsChannel`),
  every call returns (`CallsReturn`) and every byte gets out (`ReachesTheLine`).
- *serial_rx*: order (`ReadsInOrder`), announced bytes stay (`ReadyIsKept`),
  and as long as no byte came to a full UART or while a ring's worth of bytes was
  unread, everything the line brought intact is stored or still in the UART
  (`NothingIsMissed`): a late handler, interrupts that are off and bytes with a
  parity error lose nothing of it.
- *boot_any_host*: `BootSectionIntact` for any address and any protocol mix,
  `StartIsDue` over every combination of reset flags and keys: the check starts the
  application after power-on and when a host asked for it, never after the button,
  and otherwise only if the key is in its cell by chance.
- *boot_upload*: `CompleteUploadIsInFlash`, `UploadedStarts`, `FaultyReturns`,
  `TouchReturns`, the last two unless the power goes or the check finds the key by
  chance.  Without that exception a faulty application need not come back:
  `FaultyAlwaysReturns`, put into `BootUpload.cfg`, is violated.
- *wire_master*: `ResultIsTrue` in both directions, `ReadsAreWhatWasSent`,
  `RegisterThenRead` (the bus is kept between a register's address and the read),
  `BusIsReleased`, `CallsReturn`.
- *wire_multi_master*: `ReadsAreWhatWasSent` for slave messages.
- *usb_send*: `StreamsKeptApart`, `TransfersEnd`, refinement of `ReportPipe`
  (`ImplementsReportPipe`), `SendReturns`, `NothingRests`.
- *usb_receive*: `ReceivedInOrder`, `AvailableIsKept`, `EverythingIsRead`, with
  resets of the bus at any moment.  `ReceivedInOrder` allows one exception, the event
  `MidiUSB.read()` returns when a reset struck it with an empty ring.
  It does happen: `NoHeadNoEvent`, put into `UsbReceive.cfg`, is violated.
- *keyboard_reports*: `HostFollows`.
- *pins*: `PinsAreTheirWriters`, `SilenceIsKept`, `CompareIsAhead`,
  `PulseIsCommanded`, `ToneHasItsLength`.
- *threads*: `MillisIsTrue`, `MicrosIsTrue`, `DelayLongEnough`,
  `SleepsLongEnough`, refinement of `SequentialThreads`
  (`ImplementsSequentialThreads`).

`ByteSymmetry` is used in `serial_rx` only, which checks no liveness.  Deadlock
is checked in every run but `threads`, where watching ends at `MaxTicks`.

Definitions marked "Mutant of" are wrong variants of the definition that
follows, the way a slip in the code would make it: PROJECT.json names, for
every property of a passing run, the mutant that violates it.

## Fairness

- `HardwareSerialTx`: weak fairness of the sketch's steps within a call, of both
  halves of the handler, and of the UART.  The CPU executes, an enabled
  interrupt is taken, and the UART's clock runs.  The sketch need not call
  anything, nor switch interrupts back on; `ReachesTheLine` assumes it does.
- `BootloaderUpload`: weak fairness of the CPU's own steps, of the watchdog, and
  of the hosts' steps as a whole: polling an endpoint finds something or
  nothing, and a host completes the CDC command it began (or the cable is
  pulled).  Nobody has to upload, press the button or keep the power.
- `Wire`: weak fairness of the handler, the hardware and the ends of another
  master's transfers; strong fairness of the sketch's steps and of `HwStart`,
  because traffic of another master interrupts the one and takes the bus from
  the other, again and again but not for ever.  In `twi_slave_stuck` the same
  assumptions do not help: the driver waits for a state nothing restores.
- `UsbSend`: weak fairness of the steps within a call, strong fairness of the two
  handlers, which a lock disables for moments: the interrupt flag stays set
  and is served when the lock is given back.  The host owes nothing.
- `UsbReceive`: weak fairness of the steps within a call, and a sketch that comes
  back to both reads again and again (strong fairness, as other calls come
  between), which is what `loop()` is for.  The host owes nothing.
- The other specifications state none and have safety properties only.

## Proofs

Each theorem holds for every value of the constants that the named ASSUMEs of
its module allow, and assumes nothing else, except, as the table says, that four
theorems of `WireProofs` are about a board that is the only master and
`ThreadsAreSequential` about sketches whose blocks have one caller.

| theorem | module | says |
|---|---|---|
| `TypeCorrect` | `HardwareSerialTxProofs` | `ReopenSpec => []TypeOK`, also with `begin()` on an open port |
| `HandlerHasData` | same | `Spec => []IrqHasData` |
| `NothingStranded` | same | `Spec => []NoByteStranded` |
| `BytesStayInOrder` | same | `Spec => []InOrder` |
| `FlushReturnsDrained` | same | `Spec => FlushDrains` |
| `DriverIsChannel` | same | `Spec => ImplementsChannel` |
| `ReportedRoomIsKept` | same | `Spec => []RoomIsKept` |
| `RxTypeCorrect` | `HardwareSerialRxProofs` | `RxSpec => []RxTypeOK` |
| `BytesAreReadInOrder` | same | `RxSpec => []ReadsInOrder` |
| `ReadyStays` | same | `RxSpec => []ReadyIsKept` |
| `NothingMissed` | same | `RxSpec => []NothingIsMissed` |
| `BootTypeCorrect` | `BootloaderProofs` | `BootSpec => []BootTypeOK` |
| `BootSectionStaysIntact` | same | `BootSpec => []BootSectionIntact` |
| `ApplicationStartIsDue` | same | `BootSpec => StartIsDue` |
| `UploadsAreComplete` | same | `UploadSpec => []CompleteUploadIsInFlash` |
| `UploadedImageStarts` | same | `UploadSpec => UploadedStarts` |
| `TouchedStartIsDue` | same | `UploadSpec => StartIsDue` |
| `TouchedSectionIntact` | same | `UploadSpec => []BootSectionIntact` |
| `UsbTypeCorrect` | `UsbSendProofs` | `Spec => []UsbTypeOK` |
| `StreamsStayApart` | same | `Spec => []StreamsKeptApart` |
| `TransfersAreEnded` | same | `Spec => []TransfersEnd` |
| `SendReportImplementsPipe` | same | `Spec => ImplementsReportPipe` |
| `HostFollowsSketch` | same | `KbSpec => []HostFollows` |
| `UnitsAreReadInOrder` | `UsbReceiveProofs` | `RecvSpec => []ReceivedInOrder` |
| `AvailablePromiseKept` | same | `RecvSpec => []AvailableIsKept` |
| `WireTypeCorrect` | `WireProofs` | `WireSpec => []TypeInv` |
| `WireBusIsReleased` | same | `~ OtherMaster` gives `WireSpec => []BusIsReleased` |
| `WireRegisterThenRead` | same | `~ OtherMaster` gives `WireSpec => []RegisterThenRead` |
| `WireResultIsTrue` | same | `~ OtherMaster` gives `WireSpec => []ResultIsTrue` |
| `WireReadsAreWhatWasSent` | same | `~ OtherMaster`, or `Quantities = {}` on any bus, gives `WireSpec => []ReadsAreWhatWasSent` |
| `PinsKeepTheirWriters` | `TimerProofs` | `PinsSpec => []PinsAreTheirWriters` |
| `SilenceStays` | same | `PinsSpec => []SilenceIsKept` |
| `TonesHaveTheirLength` | same | `PinsSpec => ToneHasItsLength` |
| `CompareStaysAhead` | same | `PinsSpec => []CompareIsAhead` |
| `PulsesAreCommanded` | same | `PinsSpec => PulseIsCommanded` |
| `MillisTellsTime` | same | `ClockSpec => []MillisIsTrue` |
| `MicrosTellsTime` | same | `ClockSpec => []MicrosIsTrue` |
| `DelayIsLongEnough` | same | `ClockSpec => DelayLongEnough` |
| `ThreadsUseTheClock` | same | `ThreadsSpec => ClockSpec` |
| `ThreadsSleep` | same | `ThreadsSpec => SleepsLongEnough` |
| `ThreadsAreSequential` | same | `OneCaller` and `NoRecursion` give `ThreadsSpec => ImplementsSequentialThreads` |

**Transmitter**: every set of bytes, every ring of 2 to 256 slots (256 is where
the code's `uint8_t` indices end) and every number of writes.  `TypeInv` adds to
`TypeOK` that an update under way has something in `todo`.  `IrqHasData` and
`NoByteStranded` are not inductive: that UDRIE is on while bytes are queued, and
until the handler has looked at the ring again (`OnWhileQueued`), needs to know
that it is off where the sketch relies on that, in the shortcut, in `flush()`'s
second loop and while UCSRB is updated by `begin()` and `end()`, whose updates
never set it (`OffWhenQuiet`); that a port which is closed or was not written to
has nothing to send (`OffWhenUnused`); and that a byte about to be stored has a
slot of its own (`SlotIsFree`).  Together they are `EnableInv`.  `OrderInv`
carries `InOrder` over the steps in which a byte is in two places or in none;
the ring lemmas of `DataLemmas` say how the queued bytes, a sequence read off
the ring modulo its size, change when head or tail moves.  `TxcMeansQuiet` says
that a set TXC means an idle UART, which with UDRIE off, and so the ring empty,
gives `FlushDrains`.  The refinement is then step by step: the two ways to accept
a byte (`Accepts`) find room within the channel's capacity, `UartComplete`
delivers its oldest byte (`Delivers`), and everything else moves neither end
(`EndsMove`).  `RoomInv` adds to the room that was reported the byte a call of
`write()` has in its hands.  Every theorem but `TypeCorrect` needs the port closed
when `begin()` is called (see the first disagreement below).

**Receiver**: the same rings, any FIFO.  `RxInv` says that what the handler stored
is what the sketch took followed by what the ring holds, that a byte being read
or peeked at is the one at the tail, and that a port that is closed has an empty
ring.  `LineInv` adds to `NothingIsMissed` that the line is never more than
`RxSize - 1` bytes ahead of what was taken: what still waits in the UART fits into the
ring beside what is in it, so the handler finds room for each of its bytes.

**Bootloader**: any even page size up to 254 bytes, any flash that pages divide,
any address space that holds it.  `BootTypeInv` bounds the page index by what
each step may push; `SectionInv` says that wherever a page is erased or written
the address was tested and has not moved since; `StartInv` relates the cause of a
reset to the flags and the key that the check will see, and a key nobody in the
bootloader wrote to `stray`.

**Upload**: any image of whole pages that fits in front of the boot section and
whose first word is not that of erased flash; the same geometries.  `UploadInv`
follows the bytes: `ProgressInv` says that what the uploader has sent is what the
flash holds up to the current address, then the page buffer, then the byte in
hand, all equal to the image and nothing between them; that needs the address at
the start of a page, which it is because nobody but the uploader pushes bytes
(`QuietInv`: the other program's commands are harmless, no CDC block is open, and
a page is erased and written only when the buffer is full).  `SessionInv` has the
uploader at an even byte of the image: it sends two at a time, so a page is never
passed in the middle of a pair.  `DoneInv` is the result, and that nothing is being
pushed.  `UploadedImageStarts` adds what each cause of a reset leaves in the flags
and the key (`CauseInv`).  `SectionInv` and `StartInv` are kept by the
application's control requests as well (`ControlLeaves`), which is the rest of
`TouchedSectionIntact` and `TouchedStartIsDue`: a touch may write the key at any
moment, and the key of an interrupted touch may be found by the next check.

**USB sending**: any bank size, any numbers of banks, any data, and any reports that
are shorter than a bank with their identifier, as the board's are.
`StreamsKeptApart` and `TransfersEnd` are not inductive.  `UsbSelected`: inside
the lock the endpoint selected is the one the call means, and a flush, which has
no lock, never finds the HID endpoint; `UsbRound`: what a round was allowed to
write fits in the bank at the time it writes, although handlers ran since it was
computed; `UsbBanks`: a bank that fills up is released at once, and an endpoint
without a configuration has none; `UsbFull`: a full packet that was the last is
followed by another unless the call was refused, or is still under way.
`UsbReports` follows one report through its two sends: between them the bank holds
the identifier and nothing else and a bank is free, or the endpoints were taken
away, which is why the second send releases the whole report or nothing.  Then
every step does to the HID queue what `ReportPipe` allows (`PipeStep`).

**USB receiving**: any number of banks, packet size and ring of two slots or more.
`RecvInv` says what is due at every moment of a call: what the call has in hand,
then what the board keeps (the ring, or the byte `peek()` took), then the packets
in the endpoint, end to end (`DueInv`, with `HeldMidi` and `HeldCdc` for the
moments at which a unit is in two places or in none).  It needs the endpoint
selected under the lock (`LockInv`); that no packet in an endpoint is empty but
one that is being read, between its last unit and its release (`BankInv`); that
`accept()` never stores into a full ring and that `read()` finds something in the
ring whenever it loads from it (`MidiInv`); and that `read()` of CDC goes to the
endpoint only without a byte in `peek_buffer` (`CdcInv`).  `PromiseInv` is
`AvailableIsKept` at every step: what was promised is due, and a call that has
looked and found nothing has broken no promise.  A reset changes what is due to what
is in hand (`EmptiedInv`), at whatever step it comes; `StruckInv` says that `read()`
finds its ring empty only in a call that was struck.

**Packets end to end.**  `FlattenSeq` is a recursive function and the provers have
no induction.  `DataLemmas` takes the least counterexample instead: the natural
numbers are well founded, so a set of places at which a formula fails has a least
one (`LeastNat`, `NoCounterexample`), and what the function computes follows place
by place (`FlattenFunction`).  From there `FlattenAppend` and `FlattenHead` say what
a packet at either end adds, which is all the invariants use.

**Wire**: any buffer and register size, any bytes, any register addresses,
quantities and replies, with refusals and failures of the bus wherever the model
has them.  `TypeInv` is proved on any bus; it is inductive with the place of the
sketch in Wire and in the driver (`PlaceInv`) and the two statuses a repeated
start and a slave receiver may meet (`StatusInv`).  None of the four properties is
inductive.  `AloneWireInv` is, for a board that is the only master:

- `BusInv` relates the driver's state to the hardware's.  Without a transfer the
  board holds the bus only for a repeated start (`RestInv`); a transfer is in one
  of four phases, `Starting`, `Addressing`, `Sending` and `Receiving`, each with
  the statuses that can be pending in it (`ActiveInv`); and what `SetUp` left for
  the handler stays what the call asked for (`CallInv`).
- `TransferInv` follows the bytes.  Before the device has answered none has gone
  (`FreshInv`); while sending, the byte in the data register is the last taken
  from the buffer, and what the device took is the buffer up to it or before it,
  as the pending status says (`SendingInv`); while receiving, what the device sent
  is what was stored and the byte about to be, and the acknowledge bit is off
  exactly for the last one (`ReceivingInv`); `DoneInv` is what that leaves in
  `twi_error` and the buffer when the call is to return.
- `SketchInv` carries it through Wire: the driver has a copy of the bytes
  `write()` took (`GivenInv`), a register that was taken keeps the bus until the
  read (`KeepInv`), and the three steps of `requestFrom()` copy what came
  (`CopiedInv`).
- `DueInv` is `ReadsAreWhatWasSent` at every step of `read()` and
  `requestFrom()`.

`ReadsAreWhatWasSent` for messages of other masters needs `HeardInv`, that what a
master has sent is what the handler stored and the byte it is about to store.
`QuietWireInv` is inductive with any other masters if the sketch requests no data
(`QuietInv`: it is never between the copy and the index).  Neither hypothesis can
be dropped.  A message of another master makes a call end whose START was lost or
is still to be sent: with `OtherMaster` TLC finds such a behaviour against each of
the other three properties; and `requestFrom()` mixes its data with a message (see
the disagreements).

**Keyboard**: any number of slots, any keys and modifiers, any depth of the pipe.
`HostFollows` needs only the types besides (`KbInv`): that the last report put in
is the last one out, or with the host.  The pipe it runs on is the `ReportPipe` that
`SendReportImplementsPipe` shows the calls under it to implement.

**Pin handlers**: any number of servos and tone pins of one port; any pulse
widths, refresh interval, counter and latency with
`ServoCount * (LongestPulse + Latency + HandlerTicks) + Margin + Latency < CountSize`,
which 12 servos of 2400 us meet on the board (a tick is 1 us).
`PortInv`: nothing runs between the two halves of a locked write (`LockInv`).
`QuietInv`: the timer of a tone is on only for a pin that is not silent.
`LengthInv`: toggles heard and toggles to come make up the tone's length.
`CompareInv`: a compare value is ahead of the counter by more than the few
instructions that may pass before it counts (`Slack`), no later than its
channel's turn (`InTime`), and not so early that `initISR()`, which sets the
counter back at any moment, reaches it at once (`NotAtOnce`); a handler comes
between the compare value and `Latency` ticks after it.  The bound on `InTime` is
what adds up over the channels, hence the assumption.  `TicksInv`: the handler
reads whole widths only.  `PulseInv`: what has passed of a pulse and what is left
to its compare value make up the width asked for, less the handler's own ticks.

**Clock**: any timer size, tick, fraction unit and word size that divide as
`TimerAssumption` says; any `OverflowLatency` shorter than a timer period.  `ClockInv` has
four parts: ticks since reset are whole periods and TCNT0 (`TimerInv`);
milliseconds and fraction make up exactly the periods served (`CountInv`); the
count a call of `micros()` read is that of an instant within the call, and the
pending flag tells which side of the overflow TCNT0 is on (`CallInv`); `delay()`
has counted no millisecond that has not passed (`DelayInv`).

**Protothreads**: any sketch of the statements `CodeAssumption` lists.
`ControlInv` (every frame is at a statement of its function) lets
`ThreadsUseTheClock` map each step to a step of `Timers` or a stutter, so the
theorems about the clock carry over (`ThreadsMillis`, `ThreadsMicros`,
`ThreadsDelay`); `SleepInv` says that the static of a sleep is the
millisecond count of the moment it was set.

`ThreadsAreSequential` proves the refinement of `SequentialThreads` for sketches
in which every block is spawned by one event or block, in any number of places
(`OneCaller`), and no block spawns itself, directly or through others
(`NoRecursion`).  The argument has two parts.

- What is on the C stack and in the labels belongs together (`NestInv`): each
  frame below the top waits for the function above it, and no function is on
  the stack twice (`StackInv`); a result is for a frame that waits, and a block
  that ended has no label (`RetInv`); a frame the `goto` put at a spawn or a
  sleep is where its label says (`LabelInv`); a block that has a label is waited
  for, by its `_rec` function, and that by a caller (`BlockInv`).  With
  `ControlInv` it is inductive.
- `CallsFrom`, the refinement mapping, is a recursive function over the sketch.
  `AllNodes` says what one event or block adds to a call stack and whether it
  waits for another, and `Chains(AllNodes, CallsFrom)` that the mapping is their
  concatenation.  `NoRecursion` gives each block a depth, and the steps over the
  depth are arguments about a least counterexample (`LeastNat`): the chains
  exist (`ChainsExist`), and where one node changes, the call stacks that begin
  above it change in their ends only (`OneNodeChanges`).  `OneCaller` makes that
  one event (`OneCallChanges`).  Each action then changes at most one node and
  is a step of that event or a stutter, except the exit of a block, where the
  block's node is cut off and its caller's goes on (`BlockEnds`).

Both hypotheses are needed.  With two events that spawn one block TLC finds the
refinement violated, which is the shared label among the disagreements below.
With a block that spawns itself a call stack would hold the block twice and its
one label cannot; `CallsFrom` is then not even defined.  The sketch of the run
satisfies both, with a block two deep that is spawned from two places.

Model-checked only: the liveness properties of every module, as fairness and
ENABLED are out of the prover's reach.  Every other property of a passing run is
stated by a theorem.

## Disagreements between code and comments

One has a run that shows it, and a finding in PROJECT.json: in `twi_slave_stuck`,
after a refused byte in slave receive mode nothing resets `twi_state`, and every
later call waits for ever (`twi.c:513`, 235).

Two more have a property in their module that states what the comment says, and that
TLC violates when it is put into the configuration:

- `FaultyAlwaysReturns` (`BootUpload.cfg`): the comment in
  `QuirkbotBootloader.c:151` says that a faulty application returns to the bootloader.  The key of line 143 is in RAM nothing
  reserves (124); an application whose data leaves 0x7777 there is started again by
  its own watchdog reset, each time.
- `NoHeadNoEvent` (`UsbReceive.cfg`): `MidiUSB.read()` returns the slot at the tail
  without looking whether `accept()` stored anything (`MIDIUSB.cpp:125`, against the comment in
  133).  A reset between `USB_Available()` and `USB_Recv()` makes it return an event
  a second time.

Others were met while modelling.  Some are behaviours of the modules, as the text
says; the rest is in the code only.

- `begin()` on a port whose ring is full switches UDRIE off and leaves the ring:
  the next `write()` waits for ever (`HardwareSerial.cpp:149`, 264).  One of its
  read-modify-writes of UCSRB can also undo the handler's clearing of UDRIE; then
  the handler pops an empty ring (`IrqHasData` under `ReopenSpec`).
- A keyboard report that is refused is lost: a released key stays down for the
  host until another report goes out (`Keyboard.cpp:79`; the comment in 268-269
  says that `release()` "tells the OS the key is no longer pressed").
- A write is reported as a success although another master's transfer dropped
  its START, and a refusal is then not reported (`ResultIsTrue` with
  `OtherMaster = TRUE`; `twi.c:353-361` clears TWSTA in every branch, 220
  documents 0 as success).
- `requestFrom()` copies into `rxBuffer` before it sets index and length
  (`Wire.cpp:113-116`): a slave message in between is mixed with what was read,
  although the handler means to stay away from a buffer "in use by a master
  requestFrom() op" (282).  `ReadsAreWhatWasSent` with both `Quantities` and
  `OtherMaster` finds it.
- `requestFrom()` ignores the refusal of a register address and reads all the
  same (105); with a quantity of 0 the driver's length is 255 (`twi.c:167` against
  the comment in 151).
- A byte that finds the slave buffer full was already acknowledged and is
  dropped (`twi.c:494-495`).  A START asked for while the board transmits as a
  slave sets TWEA again, and the handler is asked for bytes past the reply (275).
- A slave callback between two calls of a sketch that composes a message empties
  the message and puts its reply there, while the other master gets a zero byte:
  both look at `transmitting` (`Wire.cpp:194`; the comment in 308 admits it).
- The bootloader announces auto-increment (`QuirkbotBootloader.c:287`) but
  `BlockRead` does not advance the address (394).
- A cable pulled inside a block makes the rest of the page zeros, which are
  written (421-422 against the comment in 407).
- Both protocols of the bootloader use one address, one page index and one page
  buffer (519): a program that sets the address or writes a block over CDC in the
  middle of a MIDI upload moves and mixes its pages.  `Bootloader` lets it;
  `CompleteUploadIsInFlash` is about uploads with harmless commands beside them.
- The CDC task waits for the next byte of a command (419) and leaves the MIDI
  task without service meanwhile.
- The bootloader has no time-out, though the comment of its timer interrupt
  (666) speaks of one.
- An upload that breaks off after its first page leaves an image the next
  power-on starts: only the first word of flash is looked at (145).
- The touch waits for the watchdog in the control handler, so the request that
  would "eventually cancel if DTR goes back high" (`CDC.cpp:139-142`) cannot be
  served.  The branch that cancels is reached only when the sketch's data in the
  key's cell happens to be 0x7777; it then restores a `wdtcsr_save` of 0 and so
  stops a watchdog the sketch uses.
- `USB_Send()` is called blocking (`USBCore.cpp:264`) and fails at once without a
  free bank (285), possibly after it queued data.
- `MidiUSB.flush()` interrupted after its `SetEP()` flushes another endpoint
  (`USBCore.cpp:650`).
- The bank of an empty OUT packet is never given back (`USBCore.cpp:240` asks for
  `len`), and a packet of less than four bytes makes `MidiUSB.read()` return an old
  event as well.  Neither is in the model.
- A timed tone ends by switching its timer off and leaves `tone_pins`, although
  the comment in `Tone.cpp:551` says the entry has to be reset; `2 * frequency`
  is computed in 16 bits (352).
- `tone()` stores its count while the handler of the tone before may count it down
  (`Tone.cpp:397`): a torn count ends the new tone too early or too late.  `Tone` has
  the two steps; `ToneHasItsLength` leaves such a tone out.
- `detach()` in the middle of a pulse leaves the pin high: the handler skips
  inactive channels (`Servo.cpp:257`).
- `sleep()` may end up to a period of timer 0 early: 2.048 ms, almost all of a
  `sleep(1)`.  `SleepsLongEnough` states what holds.
- Two events that spawn the same block share its label: the second spawn starts
  the first one's block anew.  `Threads` is run with blocks of one caller each, and
  `ThreadsAreSequential` assumes them.

## What is left out

- Baud rate, frequency, address, angle and prescaler arithmetic; LEDs;
  descriptors; EEPROM and fuse commands.
- The TWI driver's `twi_disable()`, addresses, frequency and general call;
  Wire's `begin()`, `end()`, `peek()`, `flush()`; requests of no bytes.
- USB enumeration and remote wakeup; of what the control endpoint carries, only
  that its handler selects endpoint 0, that a configuration resets endpoints,
  and the CDC requests.  Empty and partial MIDI packets, which the host's driver
  does not send.
- Keyboard characters outside the ASCII map, which change nothing.  Mouse is two
  calls of `HID().SendReport()` with the hazard `Keyboard` shows.
- `delay()` called with interrupts off, when the overflow count stands still.
- Semaphores (`pt-sem.h`) and the macros no event or block uses.
- External interrupts: a table of callbacks, one assignment per call.  The
  remaining digital, analog, pulse and shift functions share nothing or are
  timing loops.  Print, Stream, WString, IPAddress and WMath are sequential
  formatting and parsing.
- The bootloader updater, whose correctness is one of instruction addresses and
  cycle counts; packaging; Servo's files for other processors.
- LUFA.  It makes up most of the lines under `src/`, drivers for processors and
  device classes the board does not have among them; the bootloader uses a dozen
  of its endpoint calls, and `Bootloader` models those as the bootloader uses
  them.  The share of all lines that a model of this package can translate is
  small for that reason.

## What remains

- A protothread sketch that spawns a block from two events, as a run of its own
  once someone decides what it ought to do.
- A `Wire` that divides `write()` itself, once `transmitting` is guarded.
