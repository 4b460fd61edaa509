# SkywalkerM4 remote control: specifications, checks and proofs

SkywalkerM4 is an open-source radio control for multicopters. Its own code is
the firmware of the transmitter (`src/software/remoter/Firmware`) and of the
receiver (`src/software/remoter/Receiver`): two CH583 chips that run RT-Thread
threads and the chip vendor's event scheduler TMOS with its RF library. The
kernel (`rt-thread`), CherryUSB and the chip's libraries (`Libraries`) are
vendored; of them only what the firmware's own correctness rests on is
specified here: RT-Thread's ring buffer, which is called from an interrupt
handler and a thread without a lock, and its semaphore and event as the
firmware uses them.

All paths below are relative to `src/software/remoter`.

## 1. The system

### 1.1 Threads and interrupts

Transmitter (`Firmware`), highest priority first:

| thread | priority | what it does |
|---|---|---|
| radio | 3 | every 20 ms: sample the sticks, map them to channels or calibrate, read the knob, run the key state machines, send a joystick report |
| led, ui | 5 | blink, draw |
| tone | 6 | play the requested tune |
| main | 10 | every 1 ms: TMOS (the RF task's event handler) and the CDC port |

Interrupts: RF (`RF_2G4StatusCallBack`), pin A of the knobs, ADC, USB, tick.

Receiver: radio (the failsafe check, every 100 ms), led, and main (TMOS,
every 1 ms). Interrupts: RF, the UART of the flight controller, tick.

### 1.2 Components

| component | state it keeps | operations | talks to |
|---|---|---|---|
| parameters (`params.c`) | `params` in RAM, one record in the data EEPROM | `params_init`, `params_save`, `params_load_default`, `params_is_valid` | radio thread |
| radio thread (`radio_thread.c`) | `radio.channels`, `calibra_step`, `new_mode`, `flight_mode`, `last_update`, the thread's `timeout` | one pass of its loop; key callbacks | writes what the RF task sends |
| keys (`button.c`) | per key: `state`, `ticks`, `repeat`, debounce counter and level | `button_handler` | calls back into the radio thread |
| knobs (`drv_encoder.c`) | the last sample of the pins, position, which edge interrupts | pin interrupt, `encoder_read_pos` | read by the radio thread |
| ring buffer (`ringbuffer.c`) | two indices with mirror bits, bytes | put, get, length | RF interrupt to main loop (`rb_cdc_tx`); UART interrupt to main loop (receiver) |
| RF task, transmitter (`drv_radio.c`) | the packet, the time of the pass it is of, RSSI | every 12.5 ms: send if there was a new pass; callback for the answer | radio thread, receiver, `rb_cdc_tx` |
| RF task, receiver (`Receiver/drivers/drv_radio.c`) | `radio.failsafe`, `radio.last_update`, the reply | RF callback, event handler | UART, radio thread |
| failsafe check (`Receiver/applications/radio_thread.c`) | its `timeout` | compare ticks, raise failsafe | RF callback |
| datalink (`datalink.c`, `drv_usart.c`) | the receive queue, the parser's state and frame | UART interrupt, parse a byte | flight controller, RF task of the receiver |
| USB (`usbd_cdc_acm_hid.c`) | `rb_cdc_tx`, `cdc_tx_sem`, `dtr_enable`, `hid_state` | main loop step, endpoint callbacks, `usbd_hid_send_report` | host |
| ADC sampler (`drv_adc.c`) | conversion chain, semaphore | start, interrupt, read | radio thread, `HAL.c` temperature |
| tones (`tone_play_thread.c`) | one request slot, one event | request, play | radio thread |
| screen (`gui.c`, `ui_thread.c`) | what it has drawn, `mode_reflush`, `mode_last_tick` | one update every 30 ms | reads the radio thread's data |
| battery (`battery.c`), lights | none | voltage to percent (never called), blink | |

### 1.3 What is hard

* **Interrupts between any two accesses.** The ring buffer has no lock. The
  receiver's failsafe flag and time are written by an interrupt and read, and
  written, by a thread in three accesses. The USB interrupt of a report may
  come before the code that marks the report as under way. The temperature
  measurement reprograms the converter under the sampling chain. The knob turns
  and bounces while its handler reads the pins and clears the flag.
* **Threads above others.** The radio thread's pass may fall between two bytes
  of the packet the RF task copies, between two reads of a screen update, and
  between the steps of the tone player.
* **Damaged and lost data.** Packets fade; telemetry bytes are lost or changed
  on the line or by a full queue, and the parser has to find its frame again;
  a length byte it takes by mistake may be more than its buffer holds.
* **Power failures.** The parameters are erased and then written. The power
  may fail in either, and the next start must not steer with what is left.
* **Long sequences of legal inputs.** Key presses restart a calibration in
  any state while the thread's local `timeout` lives on; a four-bit counter
  wraps in a burst of presses; the tick counter wraps after 49.7 days.
* **Progress.** The receiver's radio goes idle after each packet and only the
  event handler makes it listen again; the main loop waits without a time
  limit for the USB host, and with it the RF task.

The hazards are listed one by one, with their lines, in `PROJECT.json`.

### 1.4 What makes each component correct

* Parameters and radio thread: sticks are mapped only with a range that is in
  the EEPROM as a whole; the channels lie in 1000..2000; a calibration
  started by anything ends, and gives the pilot the time to centre the sticks;
  the mode on air is the one the pilot confirmed.
* Keys: one gesture, one verdict, and the right one; the state machine returns
  to idle.
* Knobs: a count goes the way the knob was turned. (That every click is counted,
  as the comments in `drv_encoder.c` say, is not so: see section 3.)
* Ring buffer: it is a queue; no byte is overwritten before it is read.
* Receiver: a lost transmitter raises failsafe in bounded time, nothing else
  does; the radio always listens again; telemetry is in order and not doubled.
* Datalink: a frame that comes whole is delivered; after damage the parser is
  soon in step again, and it never takes more data than the length byte
  announced. (It does write past its buffer when that length is above 32.)
* Control link: the last sticks always go out; nothing is sent before the
  sticks were read; while the air is clear the receiver hears the transmitter
  often enough, through calibrations, delays and restarts.
* Sampler: a pass steers with the readings of that pass; the chain ends.
* Screen and tones: the screen settles on what is flown; a request that comes
  before the player looks at its slot is heard.
* USB: bytes that entered the queue reach the host once and in order; the main
  loop comes round; a report is not changed under the host.

## 2. The modules

| module | models | proofs |
|---|---|---|
| `Normalize` | the arithmetic of `radio_thread.c` that maps a reading to 1000..2000 | in `CalibrationProofs` |
| `Calibration` (extends `Normalize`) | `params.c` and the transmitter's radio thread | `CalibrationProofs` |
| `Button` | one key of `button.c` | `PanelProofs` |
| `Encoder` | the left knob and the mode selection of the radio thread | `InputsProofs` |
| `Fifo` | abstract: what the firmware expects of a byte queue | |
| `RingBuffer` | `ringbuffer.c` between an interrupt and a thread; implements `Fifo` | `RingBufferProofs` |
| `Failsafe` | abstract: what the receiver promises of failsafe | |
| `Receiver` | the receiver's RF callback, event handler and failsafe thread; implements `Failsafe` | `ReceiverProofs` |
| `RfLink` | the transmitter's RF task under its radio thread, and the air; composed with `Failsafe` as the receiver | `RfLinkProofs` |
| `Datalink` | telemetry bytes: the UART interrupt, its queue, the parser | `DatalinkProofs` |
| `Sampler` | `drv_adc.c`, its interrupt and semaphore, and the temperature measurement | `InputsProofs` |
| `UserInterface` | `gui.c` and the tone player beside the radio thread | `PanelProofs` |
| `Usb` | the CDC port, its semaphore, and the joystick reports | `UsbProofs` |

The `MC*` modules instantiate them for TLC. Definitions keep the names of the
functions and fields they model; `PROJECT.json` maps each to its lines.
Definitions introduced by a comment "Mutant:" are not part of any
specification: each is a plausible bug with which one of the properties
fails, and `PROJECT.json` says which.

`InputsProofs` extends both `Sampler` and `Encoder`, and `PanelProofs` both
`Button` and `UserInterface`; so that their names do not meet, the
specification of the knob is `KnobSpec` (`KnobInit`, `KnobNext`) and that of
screen and tones `UiSpec` and, with fairness, `FairUiSpec`.

### 2.1 Normalize and Calibration

A step of `Thread` is one pass of the radio thread's loop: the samples, the
knob's turn and the key callback are chosen with `\E`, and the branch taken is
the action `Steer`, `CollectRange`, `CollectMid` or `BeginSave`.
`params_save` is split: its call, the end of `EEPROM_ERASE` and the end of
`EEPROM_WRITE` are steps, and `PowerFail` may come between any two of them, in
which case the erase or the write may have been done, not begun, or torn. A
torn record may carry any flag and magic number but never the right checksum:
the checksum is the last word of the record, the bytes of an erased word are
0xFF, and no sum of the record's bytes reaches a value whose top byte is 0xFF.

`elapsed` is the thread's local variable `timeout` seen from now, counted in
passes, and `Off` where the code has 0. It is not touched by the long press
that sets `calibra_step`, as in the code. The turns of the knob and the
presses are free inputs here, at most `MaxInputs` of them: an
over-approximation of what `Encoder` and `Button` let through.

### 2.2 Button

One step is one call of `button_handler`, every 20 ms, with the level the pin
has. `button_start` and `button_stop` only build the list at start-up. The
field `event` is left out: nothing reads it but the getter, which nothing calls.
`repeat` wraps at 16 as its four bits do. `presses`, `held`, `verdicts`,
`level` and `steady` are history: the gesture as an observer of the key sees it.
Two facts worth knowing: after power-on any first level is accepted after two
readings, as `key_state` is 0, neither level; and a second press that is held
long never becomes a long press, as state 3 has no time limit.

### 2.3 Encoder

`knob` counts quarter turns, and the pins follow the waveforms drawn in
`drv_encoder.c:6-15`. A step of the knob is a quarter turn or a contact that
bounces; when it makes the armed edge on pin A it sets the interrupt flag, and
nothing else. `GPIOA_IRQHandler` is split at its accesses: it reads pin A,
then pin B, each as it is at that moment, counts, arms the other edge, and
clears the flag twice, in `GPIOA_ITModeCfg` (`CH58x_gpio.c:144`) and at its
end; an edge in between is lost. The knob may move between any two of these
steps, so the handler may be late by any number of quarter turns. The radio
thread reads the position three times (for the threshold, the direction and
`left_last_pos`), and interrupts may come between.

`prompt` is history: no quarter turn came before an interrupt was over. By hand
that is the rule, as a quarter turn takes milliseconds and the handler
microseconds; a bounce breaks it. `now` and `last` are history too: where the
knob was at the last two samples, and whether it stood still between the two
reads of each.

### 2.4 Fifo and RingBuffer

Bytes are numbered as they are accepted. A put, in the interrupt, is one step;
a get is the steps of its accesses: status, indices, one step per byte copied,
and the release of the slots. Index and mirror bit are fields of one halfword;
the release build (`-O2`, `rtconfig.py`) accesses them at once, and that is
`Spec`. The debug build (`-O0`) stores them apart (lines 215, 216), and a put
between the two stores would take a full buffer for an empty one: what is
shown here is about the release build.
`Unread` is the refinement mapping: the slots between the two indices, less
nothing while a get copies, since the slots are given back only at its end.

### 2.5 Usb

The main loop's steps, the interrupt of each endpoint, and the radio thread's
two steps in `usbd_hid_send_report`. The queue `rb_cdc_tx` is a sequence that
takes what fits: what `RingBuffer` is proved to be. The CDC endpoint holds the
packet the host may take; the driver copies packets when they are written and
would overwrite one that is still there. Once configured the device stays so:
bus resets are not modelled. `rb_cdc_rx`, which no code fills, is left out.

### 2.6 Receiver

The tick, the radio thread in three steps (first operand, second operand,
store), the RF callback's modes, the UART and the three steps of
`RF_ProcessEvent` interleave freely; the two operands of the subtraction are
read in either order, as C allows. The RF library is external and in one of the
states its header names (`CH58xBLE_LIB.h:2336-2344`). The checks may be
delayed by up to `MaxDelay` ticks. `bind_ack` is set nowhere and the
start and periodic events are never set in the receiver, so their branches
are left out. Telemetry frames are numbers; their bytes are in `Datalink`.

`IsFailsafe` is the refinement: `silence` and `failsafe` of `Receiver` behave as
`Failsafe` with `Longest` equal to the limit, a period and twice the delay, and
a `Race` of the ticks a check may last.

### 2.7 RfLink

`Failsafe`'s actions are the receiver's part of each step (`INSTANCE`): a packet
that arrives is `Heard`, the tick is `Time`. A pass of the radio thread is one
step, as the RF task (in main, lower priority) does not run in it; the RF task
is a step per statement, and per byte of `memcpy`. Of a byte the model keeps
whether it is of the last pass, an older one, or was never written. The main
loop may be late by `Delay`, the radio thread wakes after 20 ms or a tick more,
and the transmitter may be switched off and on at any moment, calibrated or
not. `usbd_cdc_acm_read` gives nothing, as `rb_cdc_rx` is never filled.

### 2.8 Datalink

A step is a byte: sent by the flight controller, lost, changed or taken by the
UART interrupt, or parsed by the RF task, which stops at a complete frame. The
place a byte had in its frame travels with it as history; no action reads it.
The sum of the payload is kept, the payload is not, but how much of
`payload.data` is full is. `datalink.c:62` stores a byte without a look at the
room; after a length byte above 32 the 32nd data byte goes behind the buffer,
into whatever the linker has put there, and what the firmware does from then
on is not determined by the source. The model stops the RF task at that store
(`Spills`, state "spilled") and claims nothing about what follows. Frames of
the flight controller keep to the size (`IsFrame`); the lengths above it come
from changed bytes and from a parser that is out of step.

### 2.9 Sampler

Readings are the number of the channel they are of, or `Wrong`. The radio thread,
the interrupt and the temperature measurement, which main runs for the RF
library, are steps per register access; main runs only while the radio thread
sleeps or waits. Writing a register spoils a conversion under way. Clearing the
flag writes the converter's start register, so that the conversion under way
may stop or go on. `conver_index` is not volatile, and both readings of line 82
are allowed.

### 2.10 UserInterface

What the radio thread does in one pass (`Steer`, `SelectMode`, `Click`,
`LongPress`) may fall between any two reads of `page0_update` and any two steps of
the tone player. A tune is one step. The screen holds the value a text was made
of. Only page 0 is modelled, as nothing sets `page_index` to another.

## 3. The runs

| run | properties | bounds, and why they are enough |
|---|---|---|
| `MCCalibration` | `TypeOK`, `MappingIsStored`, `RangeCoversNominal`, `OutInRange`, `CentreTimeGiven`, `CalibrationEnds`, `AuxFollowsMode` | one (mirrored) stick, as sticks share nothing but the steps; readings below the lowest valid, in the middle and high, so that valid, invalid and lopsided ranges occur; one pass in STEP2 before the middle and one more before its end; two inputs, so that a calibration is restarted inside a restarted one; two power failures, so that one hits the repair after the other |
| `MCRingBuffer` | `TypeOK`, `UnreadKept`, `LengthExact`, `IsFifo` | four slots, blocks of up to three, 14 bytes: both sides of the mirror three times over, blocks that end at, before and past the end |
| `MCButton` | `TypeOK`, `OneVerdict`, `VerdictFits`, `Debounced`, `GestureEnds` | the thresholds of `button.h`; 18 presses, so that `repeat` wraps; `ticks` wraps at 80 in place of 65536, above both thresholds |
| `MCReceiver` | `TypeOK`, `LossNoticed`, `NoFalseAlarm`, `TelemetryInOrder`, `ListensAgain`, `IsFailsafe` | the counter wraps at 10, the least that keeps the proportions `ConstantsAssumption` asks for plus room; every offset of packets, checks and wrap occurs |
| `MCRfLink` | `AllSent`, `OnlyReadSticks`, `HeardOften` | ticks of 2.5 ms: passes of 8 or 9 ticks, RF events every 5, a delay of up to 4, so that two passes fall between two events of the task and none between two others; three bytes, so that a pass may fall after the first, in the middle and before the last; a receiver limit just above the longest silence of a working link |
| `MCDatalink` | `TypeOK`, `WholeFrameDelivered`, `SyncRegained`, `SpillsOnlyTooLong` | bytes of five values, a payload of at most three bytes, so that every length occurs from none to one too long; frames of each length that fits (payload 1, 2 and 3), the magic inside one of them; a queue of two bytes, shorter than a frame |
| `MCSampler` | `TypeOK`, `OwnReadings`, `ChainEnds` | three channels: a first, a middle and the last one, which nobody reads; any number of measurements and passes |
| `MCUserInterface` | `RequestSounds`, `ScreenSettles` | one line of two values, as the lines share nothing but their order; all three modes; any number of key presses and turns |
| `MCUsb` | `TypeOK`, `NothingLost`, `TransferEnds`, `MainKeepsRunning`, `ReportKept` | packets of two bytes, a queue of three, seven bytes: full, short and empty packets, and a full queue |

In `MCRingBuffer` `CHECK_DEADLOCK FALSE`, as the queue may have had its
`MaxBytes` bytes and be empty, and in `MCEncoder`, as the knob may have had its
`MaxTurns` quarter turns; no other run needs it.

Violations. Each of these runs checks one sentence that a comment or a
name of the source states, and the code does otherwise:

| run | property | what it shows |
|---|---|---|
| `MCCalibrationFlag` | `CalibraedMeansCalibrated` | `params_init` saves the defaults before it clears `calibraed`; the flag read from an empty EEPROM is 0xFF, so a device switched off in its first calibration takes the defaults for calibrated at the next start |
| `MCUsbRace` | `BusyMeansSending` | the interrupt of a report before `hid_state = HID_STATE_BUSY`: busy with nothing under way, and no report is sent again |
| `MCEncoder` | `EveryClickCounts` | interrupts are armed on pin A alone, and from one of its edges to the next both pins have changed: the knob is turned on by two clicks, every interrupt is prompt, and the count stands, though `drv_encoder.c:69` and `:75` say "1 count  per click" |

What the passing runs say beyond their names, where it may surprise:

* `RangeCoversNominal`: calibration starts from 1500..3500 and only widens, so
  the test `max - min < 1200` that should wait for a full stick travel always
  succeeds, and a calibration ends after its time even if no stick was moved.
* `OutInRange` holds for middles on and beyond the ends of the range too,
  since the mapping clamps before it converts.
* `NoFalseAlarm` needs its exception: a packet inside a check can make
  `last_update` later than the tick read before it, the unsigned difference
  is then huge, and failsafe is raised with the transmitter there, until the
  next packet.
* `LossNoticed`: the bound (limit, a period and twice the delay) is tight; TLC
  finds a violation with one tick less.
* `EveryClickCounts` has another side, which is proved (section 4): with prompt
  interrupts a reversal counts one up and the next one down, so that the count
  takes two values by direction. The first interrupt is compared with pins
  that were never read and may count the wrong way; through it the threshold
  of two counts (`radio_thread.c:152`) is reached at most once in a power-on,
  and the knob selects at most one flight mode. What selects more is late
  interrupts.
* `Debounced`: a level counts after two equal readings; `button.c:60` says three.
* `AllSent`: a packet that mixes the sticks of two passes does go out, and is
  followed by a whole one at the next event, because the time of the pass is
  noted before the copy. `HeardOften` is tight: a tick less is violated.
  `OnlyReadSticks` leaves out a transmitter switched on uncalibrated: its passes
  set `last_update` but not the channels, and zeros are sent.
* `SyncRegained` says nothing of a parser that has written past its buffer, and
  `SpillsOnlyTooLong` says when that is: after a length byte above the size,
  and never else. One changed byte on the line is enough for that. With
  payloads of 32 bytes the bound is six frames.
* `WholeFrameDelivered` is about frames with data: after a frame of the type
  alone the parser takes one byte more, which may be the magic of the next
  frame, and that one is lost (`datalink.c:61-65`).
* `OwnReadings`: a measurement of the temperature can spoil the passes
  it overlaps. One in the second before the first pass does
  more: the chain it disturbs has nobody waiting, its token stays, and every
  later pass uses the readings of the pass before (`HAL.c:211` asks for the
  interrupt to be masked; the code does not).
* `RequestSounds` leaves out requests that come between the player's look at
  `tone_id` (`tone_play_thread.c:98`) and its clearing (`:130`): they are lost.
  That is the time a tone plays, and one more moment: the event of a request
  that was lost so is left over, the player is woken by it, finds `TONE_NONE`,
  and goes on to clear the slot without a tone.
* `ScreenSettles` leaves out one interleaving, by its history variable `midway`: a
  mode confirmed between `gui.c:118` and `:121` is drawn, the one before is
  noted, and when that one is confirmed next it is not drawn.

### Fairness

* `Calibration`: `WF(Thread)`. The radio thread has the highest priority, sleeps
  20 ms a pass and in the model waits for nothing (its ADC semaphore has a time
  limit of 50 ms). No fairness for power or inputs; `CalibrationEnds` is about
  behaviours in which they stop, which `MaxInputs` and `MaxFails` bound.
* `Button`: `WF(Next)`: the handler is called in every pass of that thread.
* `Receiver`: `WF(RF_ProcessEvent)`: the main loop runs TMOS every millisecond.
  No fairness for packets or the tick. `LossNoticed` is a safety property:
  time itself cannot pass without the check.
* `Sampler`: `WF(ConversionEnds)` (the converter takes microseconds),
  `WF(ADC_IRQHandler)` and `WF(Thread)`. None for the temperature measurement.
* `UserInterface`: `WF(gui_update)`, `WF(Player)`: the radio thread sleeps 20 ms a
  pass and leaves the processor to both; `WF(FlashTime)`: 500 ticks pass. None
  for the pilot: `ScreenSettles` is about behaviours in which he rests.
* `RfLink` and `Datalink` have only safety properties; in `RfLink` time itself
  cannot pass a due event or pass by more than its delay.
* `Usb`: `WF(Main)` for the main loop, and `WF(HostTakesPacket)`, an assumption
  on the host that the code does not secure: `rt_sem_take` waits for ever, and
  a host that leaves the port open and stops reading stops the main loop, TMOS
  and with them the radio link. `MainKeepsRunning` says what holds while the
  host reads.

## 4. What is proved

TLAPS proves, for all values of the constants that satisfy the assumption
named in each module (`ConstantsAssumption` in most; `Encoder` needs none): sizes
are natural numbers, positive where zero makes no sense, and the tick counter is
wider than the times it measures:

| module | theorems |
|---|---|
| `CalibrationProofs` | `StickOutputInRange` (the output is in 1000..2000 for every reading and range with its middle strictly inside), `TypeCorrect`, `MappingStored`, `NominalCovered`, `OutputInRange`, `CentreTime`, `WidthTestIsVacuous`, `CalibrationRunsDown` |
| `RingBufferProofs` | `TypeCorrect`, `UnreadBytesKept`, `LengthIsExact`, `GetIsOldest`, `RefinesFifo` |
| `PanelProofs` | keys: `TypeCorrect`, `GestureHasOneVerdict`, `GestureHasRightVerdict`, `FollowsKey`, `DebounceWorks`, `GestureRunsDown`; screen and tones: `NotedIsShown`, `NothingPassedOver`, `NoLostWakeup`, `RequestKept` |
| `ReceiverProofs` | `TypeCorrect`, `LossIsNoticed`, `AlarmsAreTrue`, `TelemetryOrdered`, `NeverLeftDeaf`, `RefinesFailsafe` |
| `InputsProofs` | sampler: `SamplerTypeCorrect`, `OwnReadingsUsed`, `NeverStuck`, `WaitRunsDown`; knob: `PromptCountStands`, `PromptSelectsOnce`, `CountGoesRightWay` |
| `UsbProofs` | `TypeCorrect`, `BytesReachHost`, `OneOwnsEndpoint`, `ReportStands`, `ReadCanEnd`, `WaitsOnlyForHost`, `PortIsFifo` |
| `RfLinkProofs` | `LastSticksSent`, `ZerosNeverSent`, `SilenceBounded`, `NoFailsafeOnWorkingLink` |
| `DatalinkProofs` | `TypeCorrect`, `FrameDelivered`, `SpillsAreTooLong`, `MissedBounded` |

Each model has an inductive invariant (`IInv`; where two models share a module,
one is `SamplerInv`, `KnobInv` or `UiInv`), which Init implies and every action
preserves; the theorems follow from it. What it adds to the properties:

* Calibration: an intact record in the EEPROM is one that was written as a
  whole with its ranges (`IntactIsWhole`), and the time in STEP2 is what
  `elapsed` says (`Step2Timed`). Without the first, `params_init` could load
  anything. `CalibrationRunsDown` is the half of `CalibrationEnds` that can be
  proved: `PassesLeft` is the number of steps a calibration has before it, and
  each step lowers it by exactly one, until a long press of the right key or the
  power puts it off. It needs `WideAlways`: were the width of a range a real
  condition, the steps could not be counted.
* RingBuffer: the mirror bits differ exactly while the writer is a lap ahead
  (`MirrorsTell`), and what an interrupted get has counted does not go away
  (`GetStands`): the step that reads the indices after the status relies on
  it. `RefinesFifo` maps every step of put and release to `Put` or `Take`, and
  the others to stutters.
* Button: `repeat` is the number of presses until it wraps, `ticks` the time
  since the last change, and a long press already has its verdict.
  `GestureRunsDown` does for `GestureEnds` what `CalibrationRunsDown` does above:
  `RestLeft` is the debouncing and the rest a gesture has before it, and every
  reading of a key that is let go lowers it.
* UserInterface: what is noted as drawn is what the screen shows
  (`ChannelsNoted`, `ModeNoted`: but while the mode flashes, is being drawn, or
  was confirmed midway), and a request that is owed is in its slot and
  announced (`Announced`). From these `NothingPassedOver`, the safety half of
  `ScreenSettles`, and `RequestKept`, that of `RequestSounds`.
* Receiver: the age of `last_update` is the silence (`Bounded`), and what the
  thread knows in the middle of a check (`Checking`): the age of the operand it
  has read is at most its delay. The arithmetic is modulo `Wrap`; a few lemmas
  turn it into ages. `RefinesFailsafe` maps each step to one of `Failsafe` or a
  stutter: the store of a check to `Raise`, which `Checking` entitles to it.
  `NeverLeftDeaf` is the safety half of `ListensAgain`.
* Usb: who owns the endpoint, by the semaphore and where the main loop stands
  (`OnePacketAtATime`), the packet in it (`PacketOfBytes`), the buffer of
  the main loop, empty outside its write (`EmptyBuffer`), and that an armed report
  is marked busy or about to be (`ReportMarked`). `Framed` adds that a packet
  fits its endpoint and that an empty one stands after a full one. With it
  `PortIsFifo` maps a write to `Put`, the host's taking to `Take` (a stutter for the
  empty packet) and the main loop's steps, which only move bytes, to stutters.
* RfLink: the bytes copied so far are the newest until the next pass
  (`CopiedNewest`), nothing is copied before the first sticks (`NoZeros`), and
  `InTime`: silence, plus the longest time `Rest` until a packet is out, is
  bounded. `Rest` looks at where the task stands, and falls with every tick.
  `NoFailsafeOnWorkingLink` sets `SilenceBounded` against what the receiver
  promises: a silence may raise failsafe only above the limit. It assumes that
  the limit is no less than `Answer`; with the code's 3 s, and the delay of
  10 ms that the run takes, `Answer` is less than 50 ms.
* Datalink: `Stands` says where the parser stands after n bytes of a frame, with
  the sum of that much payload. The sums are given by `IsFrame` as a function
  over the payload, so that no induction over it is needed. For `MissedBounded`
  a second invariant, `SyncInv`: until a byte is stored behind the payload, a
  parser out of step has at most `Left` bytes to take before it waits for a
  frame again or stores one there, every byte lowers that, a plain frame
  it misses costs it six bytes or more, and `BudgetAt` keeps the account at the
  byte that comes next. `Chained` says that the queue holds the line's bytes in
  order, so that this byte is the one after the last.
* Sampler: before `rt_sem_take` the semaphore counts the chain that is over and
  at most one token of an early measurement, after it that chain alone
  (`Tokens`, `NoEarlyToken`); a chain that was started is over or goes on
  (`GoesOn`), from which `NeverStuck` and `WaitRunsDown`; and in a pass without a measurement it
  converts stick after stick (`Chain`, with `Before` for what the pass before
  left), from which `OwnReadingsUsed`.
* Encoder: while interrupts are prompt, which edge is armed and what was
  sampled last follow pin A at every place of the handler (`FollowsPin`);
  `TwoCounts` says that the count, less what the direction adds, stays what the
  first interrupt made it, and `Selected` where that leaves the thread. Without
  promptness only `SampleTells` stays: each sample taken at rest is that of the
  place where the knob was, which is what `CountGoesRightWay` needs. No run
  checks these three statements, as the count they are about is the one that
  `MCEncoder` refutes.

Of the properties the runs check, only the liveness properties
(`CalibrationEnds`, `AuxFollowsMode`, `GestureEnds`, `ListensAgain`, `TransferEnds`,
`MainKeepsRunning`, `ChainEnds`, `RequestSounds`, `ScreenSettles`) are
model-checked alone: fairness and ENABLED are out of the prover's reach. What
each of them needs of safety is proved for all but `AuxFollowsMode`, where it
is the assignment itself: `CalibrationRunsDown`, `GestureRunsDown`,
`NeverLeftDeaf`, `ReadCanEnd`, `WaitsOnlyForHost`, `NeverStuck`, `WaitRunsDown`,
`RequestKept` and `NothingPassedOver`.

## 5. What is not modelled

* Lights: they blink by one flag each; nothing reads them. Battery: the table
  search `battery_get_level` has no caller. The screen's status bar, and its
  pages 1 and 2, which cannot be reached.
* The receiver's parameters: the scheme of the transmitter's with a single
  identifier, which nothing reads.
* Chip support, console, sleep (configured out): registers.
* RT-Thread beyond its ring buffer, semaphore and event, CherryUSB, the chip's
  libraries: third-party, and most of the repository by size; where the
  modelled code meets them they are external actions.
* The receiver's transmit queue to the flight controller: a ring buffer again,
  and what its bytes mean is the flight controller's.
* In `Usb`: bus resets, descriptors, the uplink (which is always empty, as
  nothing fills `rb_cdc_rx`). In `Encoder`: the right knob (same code, no
  reader) and the 16 bits of `pos`, which would overflow after 32767 counts one
  way. In `Datalink`: what the bytes behind `payload.data` hold, and whatever the
  firmware does once they were written over. In `RingBuffer`: the forced variants, peek and
  reset, which the firmware never calls.
* Between models: `Receiver` takes telemetry frames and `Usb` takes telemetry
  bytes as inputs; the callback that carries them from one to the other is an
  input of both. The passes of `Calibration`, the turns of `Encoder` and the
  gestures of `Button` run in one thread and are modelled one at a time.
* Time limits that never expire: `rt_sem_take(&wait_sem, 50)`; `ChainEnds` shows
  that the chain comes to its end without it.

## 6. What is left

The plan of this project is done. A later extension could take `Failsafe`'s
`Limit` and `Longest` in `RfLink` from `Receiver`'s constants and prove the
theorems of the link for the composition of the two.
