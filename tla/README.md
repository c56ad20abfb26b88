# FlightCode: verification development

TLA+ models of the FlightCode flight controller firmware (C, STM32F4/F7/H7 and
AT32), the TLC configurations that model-check them, and proofs that TLAPS
checks. Paths such as `control/flight_control.c` are relative to `src/src/`;
`README.md:241` is the firmware's own README (`src/README.md`).

## 1. The system

The firmware is one endless loop (`app/main.c`) and a few interrupt handlers.
There is no operating system: every component is a file of static variables with
an `init`, an `update` that the loop calls and never blocks in, and setters that
others call. Concurrency is the interleaving of three outside actors (the
pilot's receiver, the host on USB, the hardware that answers or does not) with
the loop, the interrupts that fill rings behind its back, and time.

| Component | State it keeps | Operations | What makes it correct |
|---|---|---|---|
| Flight controller (`control/flight_control.c`, `boot_arm_guard.h`) | calibrated, armed, arm request, calibration count and sum, airmode, PID state, boot guard | update per gyro sample, start calibration, emergency stop, PID reset, setters | arming only after a request with the switch seen off and a finished calibration; the bias averages exactly the accepted samples; the integral stays empty until airmode; a boot with the switch on locks arming |
| Main loop (`app/main.c`) | motor array, IMU ready flag and failure count, task phases | one iteration: receive, menu, host, control, motor test, ESC write, persist, IMU retry | no stale motor values; loss of the IMU stops everything in the same iteration |
| Configuration protocol (`protocol/config_protocol.c`) | motor test, PID simulation, pending restart, line buffer | about 70 text commands | what needs a disarmed craft is refused in flight; a silent host ends its motor test |
| OSD tuning menu (`drivers/osd/osd_tuning_menu.c`) | open or not, entry hold, edited values | update with the sticks, forced close | opens only disarmed with the switch off, never survives receiver loss |
| ESC passthrough (`protocol/esc_passthrough.c`) | active flag, frame buffer, selected ESC | begin, consume bytes, exit | begins only disarmed; no control update and no ESC frame meanwhile |
| Flight log (`storage/flight_log.c`) | recording, inhibited, qualified, ring in RAM, its copy in flash | start, stop, record, persist, read back | recording follows the flight whichever way it ends; what is read back is one flight |
| Blackbox on NOR flash (`storage/blackbox_flash.c`) | driver state, one operation under way, record queue, two banks | update, start, append, stop, clear, two tests, boot, probe | the last committed flight survives every crash; no byte is programmed twice; the driver always comes to rest |
| Blackbox on SD card (`storage/blackbox_sd.c`) | write queue, one DMA write under way, catalog of flights, read cache | update, start, append, stop, clear, probe, three ways to read | what the catalog lists is on the card and is served as recorded, whatever fails or is exchanged |
| Settings (`storage/flight_settings.c`, `protocol/settings_backup_protocol.h`) | current settings, stored page, transfer in progress | init, set, apply, save, backup, restore | a stored page is taken only when whole and of a known version; applying resets what depends on it |
| Receiver (`drivers/receiver/sbus.c`) | DMA/interrupt ring, parser, last frame | update, two interrupts, protocol change | no frame is made of bytes from both sides of a loss; failsafe is confirmed; a silent UART is restarted |
| USB CDC (`drivers/usb/usb_cdc.c`, `usb_cdc_at32.c`) | receive ring, transmit ring, packet under way | read, write, poll, interrupts | what comes is lost visibly or not at all; lines of an answer arrive whole, once and in order |
| VTX and HD OSD (`vtx_smartaudio.c`, `vtx_tramp.c`, `hdzero_msp.h`, `msp_displayport.c`) | request under way, attempts, what the peer was sent | init, update, configure, receive, push | the state reported is the transmitter's; "sent" is true of the settings of now; retries end |
| Loop deadline (`app/loop_deadline.h`) | next deadline | recover after overrun | whole slots are dropped, phase kept, wrap survived |
| Drivers and boards (DShot, IMU, MAX7456, board set-up) | registers | I/O | not a protocol question |

How they interact. `main_loop_step` (main.c:85-213) calls, in this order:
`sbus_update`; on service iterations the OSD menu and `config_protocol_update`,
which may process any number of host lines and call setters, calibration,
recorder commands, passthrough or a processor reset; then, unless a passthrough
is active, an IMU read if one is due, `flight_control_update` (which starts,
feeds and stops the flight log) or the failure branch; the motor test; the ESC
write; the persisting of the log; `blackbox_sd_update`; the IMU retry. Flight
control, log and recorder share no memory but the calls; the host and the menu
change settings that flight control reads.

What is hard. A decision is spread over iterations and actors: arming takes a
request, thousands of samples during which the pilot, the host, the gyro and the
receiver may all do something else, and a decision. The motor array is computed
by one iteration and written by many. The PID simulation cuts the motors off
behind flight control's back. The recorder runs one chip operation at a time
with everything else (stop, start, power loss, bus error) falling in between.
SBUS frames carry no checksum, so only the flags of the interrupts tell where
bytes are missing. The same flight ids and sectors come back after a clear or on
another card. A half-duplex line gives answers that may belong to an earlier
question. A text line, an MSP frame and a 4-way frame share one stream of bytes
from a host that may vanish in the middle of any of them.
`PROJECT.json` lists the hazards that matter most, each at its line. Others are
modelled as the code has them and forbidden by no statement of the repository, so no
property is about them:

- REBOOT is carried out 200 ms after it was accepted, armed or not
  (config_protocol.c:1434); losing the receiver counts as having seen the switch low
  (flight_control.c:404); BYE leaves a motor test's percentages (config_protocol.c:421).
- Settings in flash have one copy (flight_settings.c:1069); a clear of the flash recorder
  cut short brings flights back with records missing (blackbox_flash.c:541).
- Arming again at once records nothing on a card that is still being written
  (blackbox_sd.c:738), and loses the RAM log of the landing (flight_log.c:196).
- A card pulled during a write stays absent until power is cycled (blackbox_sd.c:481).
- Tramp commands a transmitter that does not obey for ever (vtx_tramp.c:125); the release of
  the screen may be dropped (msp_displayport.c:277). HDZero settings taken just before arming
  are pushed up to 500 ms later, or with the answer to a poll, and so in flight
  (hdzero_msp.h:145): what is frozen while armed is what is taken, not what is sent.
  `docs/hdzero-msp.md:17` can be read either way.
- A passthrough session has no time-out and stops everything after line 131 of `main.c`, the
  recorder's update included, for as long as it lasts.
- A bus reset during a transfer leaves `tx_busy` set on the STM32 (usb_cdc.c:112); TEST_ALIVE
  without a device answers OK (esc_passthrough.c:353).

## 2. Modules

| Module | Models | Composes |
|---|---|---|
| `FlightControl` | flight controller, boot guard, the log's recording flags: operators for each function | |
| `MainLoop` | the loop's iteration, host commands, menu, passthrough, motor test, ESC frames, IMU | extends `FlightControl` |
| `MotorInterlock` | abstract: what the loop promises about the motors | refined by `MainLoop` |
| `MCMainLoop` | the specification checked for liveness | extends `MainLoop` |
| `BootInterlock` | history variable: what the first valid frame said | extends `MainLoop` |
| `FlightControl_proofs`, `MainLoop_proofs` | theorems and proofs | extend the above and `TLAPS` |
| `BlackboxFlash` | the flash recorder, its chip, power, and the flights and host commands that call it | |
| `FlightArchive` | abstract: what a recorder that keeps one flight promises | refined by `BlackboxFlash` |
| `BlackboxFlash_proofs` | theorems and proofs | extends `BlackboxFlash` and `TLAPS` |
| `SettingsStore` | settings in RAM and in flash, power, backup and restore transfers, with the host that reads and sends them | |
| `SettingsStore_proofs` | theorems and proofs | extends `SettingsStore` and `TLAPS` |
| `Receiver` | the UART interrupts, the ring, both frame parsers, failsafe, loss and recovery | |
| `VideoLink` | SmartAudio, Tramp and HDZero, the line and the transmitter | |
| `HostLink` | both USB drivers, the line buffer, MSP and 4-way parsers, the passthrough commands, the host | |
| `Links` | the two links as the main loop serves them, armed or not | extends `VideoLink` and `HostLink` |
| `SdRecorder` | the SD recorder, its card, the slot, the reads of a download | |
| `FlightLog` | the flight log, its RAM ring and flash sector, flights, host and power | extends `SdRecorder` |
| `Receiver_proofs` | theorems and proofs | extends `Receiver` and `TLAPS` |
| `VideoLink_proofs`, `HostLink_proofs` | theorems and proofs about each half of `Links` | extend `Links` and `TLAPS` |
| `FlightLog_proofs` | theorems and proofs | extends `FlightLog` and `TLAPS` |

### FlightControl

Variables carry the names of the static variables. Data abstraction: a receiver
frame is `valid`, whether the ARM channel is within its range, and the throttle
as low (at most 5 %), mid (below the 10 % of airmode) or high. The calibration
sum is the number of samples in it. The integral is whether it is non-zero, the
motor array whether it holds zeros, mixer output or bench-test values. Each
branch and early return of `flight_control_update` is one operator
(`UpdateBlocked`, `UpdateWaiting`, `UpdateSampling`, `UpdateCalibrated`,
`UpdateDisarmed`, `UpdateArmRequest`, `UpdateFlying`); their disjunction is
`flight_control_update(rx, stationary)`. Whether a sample is stationary is an
input. The five-second calibration timeout sets a display flag only and is left
out.

### MainLoop

`pc` walks through one iteration: `receive` (a frame, any frame), `menu` and
`config` (service iterations only), `control`, `output`. Host commands are one
action each; any number of them may happen in `config`. `Output` is the whole
tail: motor test, menu override, suppression, ESC write, IMU retry. Holding
times and time-outs are nondeterministic where a hold is only a delay (menu
entry, restart after 200 ms, IMU retry) and counted where a property depends on
them (`motor_test_age`, in iterations).

Deliberate choices:

- An ESC write may be skipped (the ESC task is not due, or DMA is still busy):
  `esc_frame` keeps its value. Passthrough sends no frame at all.
- `SetSettings` stands for every SET_ command and a committed backup: it may run
  the setters, reset the PID state, restart the calibration, and read the
  same frame differently because the ARM channel or channel order changed.
- `LOOPS_PER_SAMPLE` assumes the loop rate is a multiple of the gyro rate.
- The age of a motor test stays at the limit once it is reached; the test is
  cancelled by the iteration that sees it. The 71-minute wrap of the microsecond
  counter is not modelled.

### MotorInterlock

Four variables: `mode` (safe, arming, armed), `locked`, `simulated`, and what the
last ESC frame carried. Mixer output reaches the ESCs only when armed and not
simulated, bench-test output only when not armed, simulation changes only when
not armed, and a lock ends only with a restart. `InterlockSpec` states
that `MainLoop` implements it, with `drive` mapped to the last frame sent.

### BlackboxFlash

One action per branch of `blackbox_sd_update`: first the end (or time-out) of
the operation under way, then, in phase `issue`, the next operation, as
the function does in one call. The chip is part of the state: a cell holds the
number of the slot that was programmed there, blank, or bad; a header is blank,
open, valid or dirty. `Effect(op, length, outcome)` is what an operation does
when it ends, or when power or the bus fails: nothing, everything, or torn. The
flight log's calls and the host's commands are actions, `PowerLoss` is possible in every
state, `PowerUp` is `blackbox_sd_init` (and the probe). A passthrough session
(`esc_passthrough_begin`, `esc_passthrough_end`) suspends the recorder: it may begin between any two
updates while no flight is under way, an erase or a commit or not, because SET_PASSTHROUGH looks only at `armed`, and
until it ends the loop returns before `blackbox_sd_update` (main.c:127-131). In phase
`suspended` nothing but its end and a power loss happens.

Assumptions about the chip: programming clears bits; a torn program of a header
reads as neither blank nor valid; the six bytes of the commit reach the chip in
order, so a torn commit leaves the header open; an interrupted erase leaves its
block undefined, except that a block that was blank stays blank when
`BLANK_ERASE_CAN_TEAR` is FALSE. Assumption about flights: a flight starts only
when the commit of the one before has left its program phase (`commit_over`): arming takes
a calibration of 8000 samples, a commit some page programs. Flights that never
qualify for logging (no throttle) reach the recorder as nothing at all.

`FlightArchive` is the recorder seen from outside: the flight that is kept (`kept`: its
number, its count of records, whether each is in place), whether a flight is under way, and how many
records it has `taken`. It begins, takes records, is committed or discarded; a clear
forgets what is kept. The mapping (`kept_flight`, `records_taken`) reads `kept` off the header and the cells
of the bank that the next power-up would choose, and counts records on the chip and in the queue as taken.
A commit that reaches the chip may still be answered by a time-out or a bus error, so it may leave the
recorder where it was, in `ERROR`.

### SettingsStore

A settings value is a sequence of `SIZE` units; "some field is out of range" is
"some unit is `INVALID`", and a checksum tells any two values apart. The sector
holds nothing usable, a record of version 27 or a current one; older versions
load the defaults (flight_settings.c:644), which makes the migrations after that line
unreachable. `Stored` and `NotStored` are the outcomes of
`flight_settings_save`; `SaveCutShort` is a power loss in the middle of one, after
which RAM, and with it the transfer state, is gone. One action per command of
`settings_backup_process`; since the pilot may move the ARM switch at any
moment, the BUSY answer (`BackupBusy`) is always possible and no switch is kept
in the state. The same holds for a chunk that does not follow the one before.
`announced`, `download` and `heard` are what the host knows: the value whose
checksum it got, the units it has read since, and the units it has sent since BEGIN.
Left out: the UART that one board moves at boot
(flight_settings.c:610-622), and what `apply` programs into other components,
which `MainLoop` covers where flight control is concerned.

### Receiver

`sbus_update` is one action per place where an interrupt may come in between
(`Begin`, `Recover`, `Check`, `Resync`, one `ParseByte` per byte, `Probe`, `Judge`, `Restart`);
`RxCplt`, `ErrorInterrupt` and `Stall` may happen anywhere. Where the code empties ring and frame
and then calls `restart_uart_receive` (sbus.c:222-224, 271-273, 297-300), these are two
actions: a byte received between them stays in the ring, in front of the gap of the restart. A byte is a start, an
end or data; a frame is three of them, which keeps what matters: a frame that
starts in the payload of another, a length out of range, a wrong end, a wrong CRC, a message
that is not RC channels. `gap` marks, as history, a byte before which others
were lost; the code cannot see it. Left out: channel values and the diagnostics counters.

### VideoLink

For SmartAudio and Tramp the line holds one frame each way, loses any, and
delays any past the time-out, so that an answer may come while the next question is
out. The driver's reads and writes are one action each. A channel is one of two
or a forbidden one, a power one of two or one the transmitter lacks. For HDZero
the state is what `hdzero_configure` keeps, the transmit buffer as a queue of
packets, and the last configuration on the wire; DisplayPort packets compete for
the same buffer (`HdScreen`). `VtxSettings` is the menu (which starts
SmartAudio and Tramp afresh) or the host (which only HDZero follows).

### HostLink

The host works in lock-step: it writes a message, waits for the answer, and
gives up when none can come any more. A message is cut into chunks; a USB packet
is a chunk. The STM32 driver drops the packet that does not fit, the AT32 driver
makes it wait (`at32_has_room`). A session's parser takes whatever comes for a frame
until its length has passed. INIT_FLASH finds the ESC or not; `interface_mode`
and `device_info` survive as in the code. The one-wire bootloader
protocol is "each frame is answered or not" (`boot_answers`, `boot_access`), where
an erase may be carried out with its answer lost.

What the device writes are lines (`send_reply`): "get" stands for the commands answered
with several (two here), every other answer is one. `usb_cdc_write` queues a line whole or
drops it whole, and feeds the endpoint. Telemetry (`config_protocol_send_telemetry`) writes
lines of its own to the same ring while a client is active, any number of them between any two steps, which
includes none: the half second after a download in which the code holds it back (config_protocol.c:1474)
is not counted. The host reads as slowly as it likes. `heard` counts the lines of its
answer that came in order. A client becomes active with a line (HELLO), and stops being so after
three seconds without one, or with BYE (`ClientGone`). PING is left out: nobody waits for an answer to it, and
the status line that it sends with HDZero takes room as a line of telemetry does.
Abstracted: a line is a packet (the driver may put several in one, or one in several) and all lines
are of one length; `TX_SIZE` is how many fit. No answer is longer than the empty ring: the longest, HELLO and a chunk of a
download, stay below the 4096 bytes of `TX_RING_SIZE`, hence `TX_SIZE >= 2` in `LinkSizes`.

`damage` is history: the first thing that may have torn the stream from the host (overrun, cable, overlong line, a
message in the wrong mode). In the behaviours after it the properties about the
stream promise nothing; before it they promise everything. A protocol without
resynchronisation cannot do better, and the exact list is the point: any other
cause would violate them. `crowded_out` is history of the way back: a line of the answer found
no room while telemetry was in the ring.

### SdRecorder and FlightLog

`SdRecorder` keeps the driver's static variables in one record `sd`, so that
`start`, `append` and `stop` are functions of it that one sample of the
flight log can compose, as the code does. The card is sectors of data and one
catalog sector; a block carries, as history, which recording (`take`) wrote it and
its first record, so that an id used twice does not hide a stale block.
Each function that reads back is the set of its outcomes: success or
failure and the cache it leaves, since a failed read may have spoilt the buffer.
`FlightLog` adds flights of at most `MAX_SAMPLES` samples with the throttle on or not,
the ring and the flash sector of boards without recorder, the host, the
slot, and power. `storage` is chosen at the start: a board has one or the other.
A sample that is not due changes nothing, so every sample here is due.
A card is not taken out and put back between two updates of the driver, so the driver's
re-initialisation of a card that answers as another (blackbox_sd.c:272) is left out.
A passthrough session (`suspended`) begins only disarmed and stops the flight log and the driver,
not the slot, until it ends. A grouped download (`ReadBinary`) is one state: it says
what the host would be served now, not that a download over several commands stays on one flight.

## 3. Runs

| Run | Bounds | Shows |
|---|---|---|
| `main_loop` | 2 calibration samples, 2 outliers, 2 IMU failures, 2 iterations per sample, test time-out 2; 2.8 million states | the safety properties and the refinement below |
| `main_loop_live` | 2 samples, 1 outlier, 2 failures, 1 iteration per sample, time-out 1; 190 000 states | liveness |
| `blackbox_flash` | records of 2 slots, pages of 3, blocks of 3, banks of 6, queue of 2, 3 flight ids; 194 000 states | recorder safety and settling |
| `settings` | values of 2 units, 2 good units and a bad one, counter wraps at 2, time-out 0; 480 000 states | settings, backup and restore safety |
| `receiver` | frames of 3 bytes, ring of 2, time-outs of 2 and 1 ticks, board with an inverter; 389 000 states | receiver safety and restart |
| `links` | 3 attempts, 2 packets to HDZero, rings of 2 (chunks in, lines out), input lines of 3 chunks, one message after the first damage, 2 ESCs of two families; 524 000 states | the video transmitter and USB host links |
| `flight_log` | 6 sectors, queue of 2 blocks of 2 records, catalog of 2 flights, ring of 2 records, 2 flights of up to 3 samples; 1.0 million states | SD recorder and RAM log |
| `boot_interlock`, `blackbox_erase_start`, `blackbox_torn_erase`, `settings_expiry`, `receiver_stall` | as above | the five disagreements of section 5 |

Why the bounds are enough. Every counter of `MainLoop` is only compared with its
limit, reset or incremented: at 2 it has a first, a middle and a last
step, so a reset in the middle, at the limit and just before it all happen. The
proofs (section 4) cover the other values. With pages of 3 slots and records of
2, programs split records across pages and a page holds the end of one record and the start
of the next; a bank of two blocks has an erase that can be cut before,
within and after the block with the header; three flight ids make both banks
take both roles, twice for one of them. Flight ids past `MAX_FLIGHTS` are not explored.

A settings value of two units is transferred in one chunk or in two, so a transfer
can be broken in the middle, and a value can change in one half; with two good
units the defaults, the value before and the value after differ. A counter that wraps at
2 with a time-out of 0 has a fresh, a late and a wrapped age.

A receiver ring of 2 holds one byte: it overruns whenever the loop is slow by
one byte, and a larger ring only delays that. Three attempts have a first, a middle and a last. Two
lines fit in the transmit ring while one is under way, so an answer of two lines just fits when the ring is
empty, and telemetry can crowd out its first line, its second or both. After the
first damage the host writes one more message, one of a kind for each parser (`Retries`), once telemetry has stopped
and the ring is empty: the properties about the stream promise nothing there, and the bound shows that a parser left
in the middle of something goes on as the code does. Six sectors are
filled exactly by two flights, and another card's flight with them leaves no room for the second,
so a card becomes full at the end of a flight and in its middle; a queue of two blocks overflows within one flight;
a catalog of two flights drops its oldest when two flights follow that of another card; two takes
use one id twice after a clear, and a third comes from another card; a ring of two records wraps
within a flight of three samples. In `links` a behaviour has a video transmitter or a host, not both: they
share only `armed`, which each of them sees change at any time.

Properties of `main_loop`:

- `ArmedIsReady`: an armed craft is calibrated, has no request left over, passed
  the boot guard, has a working IMU, and neither menu nor passthrough is open.
- `BiasIsAverage`: count and sum agree after every abort, restart and stop.
- `LogFollowsFlight`: recording implies armed, and no simulation.
- `NoStaleMotors`: mixer values never outlive arming in the motor array, bench
  values never enter an armed iteration.
- `IntegralNeedsAirmode`: what the comment at flight_control.c:449 says.
- `SuppressionIsStable`, `ArmingDiscipline`: what a step may never do to an armed
  craft, and what a step that arms it has checked.
- `InterlockSpec`: refinement of `MotorInterlock`.

`main_loop_live`: `RxLossDisarms`, `ImuLossStops`, `SilentHostStopsTest`. Each
says "if, from some point on, the receiver (IMU, host) stays silent, then from
some point on the craft is disarmed (test over)".

`blackbox_flash`: `BlankHeaderMeansBlankBank`, `NeverOverprograms`,
`NewestFlightSurvives`, `DeferredStartIsCurrent`, the refinement `ArchiveSpec` of
`FlightArchive` (what is kept changes in one step, to a later flight with every record
that was accepted, or by a clear), and the liveness property `DriverSettles`.

`settings`: `CurrentIsValid` (whatever the sector holds), `SavedIsStored` (what
is reported as saved is what the next boot loads), `BackupIsOneValue` (no torn
backup), `RestoreIsOneTransfer` (a restore stores what one uninterrupted
transfer delivered).

`receiver`: `TornFramesAreCaught` (bytes from both sides of a loss are never taken
for channels, except through three windows which the code leaves open: a report that comes while
the call runs, after its flag was read; a report dropped by the very first frame, sbus.c:75-85; and a
byte received between the discard and the restart, which stays in front of the gap),
`FailsafeIsConfirmed`, and the liveness property `ReceptionRestarts`.

`links`: `AppliedIsTrue` (the driver says "applied" only when the transmitter
is on the channel and power of the settings), `SentMeansQueued`, `SmartAudioSettles`; `LinesAreWhole`,
`ErasesMatchDevice`, and `HostIsAnswered`: a host that waits for an answer gets every line of
it, in order, however slowly it reads. Without the excuse `crowded_out` TLC finds it violated: a host that is
slow to read while it is sent telemetry loses lines of its answers, without any sign but what it misses.
The property says that this needs telemetry: an answer never crowds out itself, and nothing is
lost or overtaken between ring, endpoint and interrupt. An overrun of the STM32's receive ring is excused as
`damage` as soon as it happens, so of that hazard `LinesAreWhole` shows that the AT32 never has one and
that nothing else tears a line.

`flight_log`: `FlightsAreTrue` (each flight the catalog on the card lists is there
block by block, and a grouped download serves record i for record i or
nothing), `RamLogIsWhole`, `RecorderSettles`. `FlightsAreTrue` excuses what
`disowned` names. A good catalog that is not taken at mount (one failed read, or a
card filled to its last sector, blackbox_sd.c:320) stays on the card while the next flight
is written over its sectors, until another catalog is written; that is `"card"`. When that
flight ends in an error instead, the next probe may load the old catalog again, and from then on
the recorder lists flights that were written over, until CLEAR_BLACKBOX or another card; that
is `"ram"`. `FlightsAreTrue` is about grouped reads. In the text download (`ReadText`) a read that
fails may spoil the cached first block while the cache stays marked valid; its metadata
are then not recognised (blackbox_sd.c:590-600), and a record eight earlier than
the one asked for may be served, so nothing is claimed of it.

Fairness. `Fairness` in `MainLoop` is weak fairness of the parts of an
iteration: the loop has no blocking call and the host's lines of one pass are
bounded by the receive ring, so each part ends. Nothing is assumed of the host,
the pilot, the IMU or the retry. `LiveSpec` leaves out the PID simulation and
restarts to keep the graph small: neither adds a way to stay
armed. `FairSpec` of `BlackboxFlash` assumes only that the loop keeps calling
`blackbox_sd_update`, and that the chip answers or the time-out comes, and it does so only while no passthrough session lasts: in phase
`suspended` no update is enabled, so weak fairness asks for none, and nothing asks the session to end.
`DriverSettles` excuses an error, a power loss, another flight and a session. `FairSpec` of `Receiver` assumes that
`sbus_update` keeps being called, which is before the loop looks for a session, and that the microsecond counter counts; no byte, and
no interrupt, need come. `Fairness` of `Links` assumes that the loop serves the links, in a session too,
and that the interrupts of the USB come, each by itself: packets arrive, the endpoint is fed, and what was handed
to the hardware is sent, which means that the host reads, however slowly. The transmitter need not answer; telemetry, a client that goes,
a cable and a host that gives up may come at any time or never. `Spec` of `FlightLog`
assumes that the loop calls `blackbox_sd_update`, where a write ends or meets its deadline, while the board is
`running`, that is powered and not in a session; `RecorderSettles` excuses the session.
Deadlock is checked in every run: none of these programs ever stops.

## 4. Proofs

`FlightControl_proofs` and `MainLoop_proofs` prove, for every number of
calibration samples, outliers, failures, iterations per sample and test time-out
that the `ASSUME`s allow (naturals, positive where the code divides or counts to them):

| Theorem | Result |
|---|---|
| `Invariance` | `Spec => []IInv` |
| `TypeCorrect`, `ArmedSafety`, `LogSafety`, `BiasSafety`, `MotorSafety`, `IntegralSafety` | the invariants of `main_loop` |
| `SuppressionStable`, `Discipline` | its action properties |
| `Refinement` | `Spec => InterlockSpec` |

The argument. `ArmedIsReady` is not inductive: what arms the craft is the end of
a calibration, so the invariant must also speak of craft about to arm. `FcInv`
gathers what `flight_control.c` maintains by itself: an arm request or an armed
craft has passed the boot guard, an uncalibrated one has fewer samples than the
limit (so that the branch that ends the calibration is entered with a fresh last
sample), an armed one is calibrated. `IInv` adds the relations with the loop:
`LogInv` (log inhibition and PID simulation are one thing), `ImuInv` (an IMU in
use has failures to spare), and `TestInv`: a motor test may still be enabled at the
instant the craft arms, but only between `control` and `output` of one
iteration, with the switch on, and the test's own check of the switch
ends it before the ESC write. Without `TestInv` neither `NoStaleMotors` nor
the refinement holds step by step.

Layout: `FlightControl_proofs` has one lemma per operation (what it keeps of
`FcInv`, and when it arms); `MainLoop_proofs` has one lemma per step of the
loop for `IInv`, and for the refinement classes of steps: those that change
neither mode nor drive (`QuietStepKeeps`), host commands, `Output`, the IMU
branch, and the sample, each mapped to a step of `MotorInterlock` or a stutter.

`SettingsStore_proofs` proves, for every size of a settings value, every set of
good units, every time-out and every counter width:

| Theorem | Result |
|---|---|
| `StoreInvariance` | `Spec => []IInv` |
| `StoreTypes`, `CurrentValid`, `SavedStored`, `BackupConsistent` | the invariants of `settings` |
| `RestoreAtomic` | its action property |

The invariant has one part for each owner of state. `StoreInv` adds nothing to
the properties: they are inductive once the types are known. `BackupInv` needs
that the checksum announced is that of the snapshot held, `RestoreInv` that what
was heard since BEGIN is what is staged as long as the restore is active; both
are broken and mended together by HELLO, BYE and power loss. The time-out
appears in no proof: atomicity does not rest on it, which is why the wrap of section 5 does
not endanger it. One lemma per command; `PowerOffKeeps` and `StoredKeeps` gather what saves
and power losses have in common; `AppendChunk` is the bound of the staging area.

`Receiver_proofs` proves, for every ring of at least two bytes, all positive
time-outs, and boards with and without an inverter (`ReceiverAssumption`; the frame of three bytes is
an abstraction, not a bound):

| Theorem | Result |
|---|---|
| `ReceiverInvariance` | `Spec => []IInv` |
| `ReceiverTypes`, `TornCaught`, `FailsafeConfirmed` | the invariants of `receiver` |

`TornFramesAreCaught` speaks of the frame just parsed; whether it is torn depends
on where gaps may lie in what was received before. `StreamInv` says it: unless a loss is
`Reported` - its flag is still to be read by the statements of `sbus_update` that follow, or
history says that it was missed - no byte has a gap before it but the first of everything
held, in ring and frame together. An interrupt that loses bytes raises a flag in
the same step (`LossKeeps`), the parser moves bytes from ring to frame without changing
their order (`NextFrame`, `ParseByteKeeps`), and recovery and resynchronisation empty both
(`UpdateKeeps`). `RestartInv` says what is left between a discard and its restart: no byte joins the
frame there, so that the gap of the restart falls in front of everything held, or behind bytes received since,
in which case history (`late`) says so.

`VideoLink_proofs` and `HostLink_proofs` are about the two halves of `Links`, for every
number of attempts, every size of rings, transmit buffer and line buffer, and
both sets of ESCs that `LinkSizes` allows:

| Theorem | Result |
|---|---|
| `VideoInvariance`, `HostInvariance` | `Spec => []VideoInv`, `Spec => []HostInv` |
| `AppliedSafety`, `SentSafety`, `LineSafety`, `EraseSafety`, `LinkTypes` | the invariants of `links` |

`AppliedIsTrue` needs `LineInv`: a question on the line carries the settings of now,
an answer what the transmitter is set to now, because a change of the settings
starts the driver afresh and a command that reaches the transmitter replaces the answer. The
channel 3, which no transmitter takes, never gets that far. For the host, `LockStep` says what its
waiting is worth: before the first damage, either everything is at rest, or the chunks in the
rings and in the host's hands are the rest of the message it waits for and the parser is as far
into it as they are short (`Reading`), or its answer is on its way (`Answered`). `Carries` says what that means:
among the telemetry, endpoint and ring hold those lines of the answer that the host has not heard, each once and in
order, or have lost some to crowding; when the host is not waited for they hold telemetry only. Besides, the ESC that
the host believes connected is the one selected, in the mode of its family (`SessionInv`). Every
action that could break this either cannot happen in that state or sets `damage`, which
is what shows that the list of damages is complete.

`FlightLog_proofs` proves, for every size of card, queue, block, catalog and ring,
every length of a flight and number of flights (`SdSizes`, `LogSizes`):

| Theorem | Result |
|---|---|
| `FlightLogInvariance` | `Spec => []IInv` |
| `FlightLogTypes`, `RamLogSafety`, `FlightsSafety` | the invariants of `flight_log` |

The argument for the card. A sector is counted where it will be: below `next_sector` on
the card, from there on in the queue (`Placed`). Writing a block then moves no sector, and
appending one adds a sector at the end. Each flight of the catalog in RAM, and the flight
being recorded, lies whole in sectors so counted; each flight of the catalog on the card lies below
`next_sector`, where nothing is written (`RamInv`, `CardInv`, `AboveInv`). An error loses the queue
and with it flights not yet written, but then the state is not one in which they can be read or
committed, and a mount starts from the card's catalog (`MountKeeps`) or from nothing, which is where
`disowned` comes in. The cache is what its sector says or is not valid, or tagged as
spoilt (`ReadInv`, `GetRecords`). The argument for the ring is separate: from `write_index` on it holds
the last records of the flight (`FillingInv`), what was kept at a stop is whole (`KeptInv`), and a copy
to flash that fails leaves either of the two whole. The attempt to prove `FlightsAreTrue` found
the second half of `disowned`: no smaller card or catalog than the
run's has room for the behaviour, and the run's bounds were widened to contain it.

`BlackboxFlash_proofs` proves, for every size of records, pages, blocks, banks
and queue that `GeometryAssumption` allows (blocks of whole pages, banks of whole blocks with room for a record)
and every number of flights:

| Theorem | Result |
|---|---|
| `FlashSound` | `Spec => []Sound` |
| `FlashTypes`, `DeferredSafety` | the invariants `TypeOK` and `DeferredStartIsCurrent` of `blackbox_flash` |
| `BlankBankSafety`, `ProgramSafety`, `ArchiveSafety` | its other invariants, if `~BLANK_ERASE_CAN_TEAR` |
| `ArchiveRefinement` | `Spec => ArchiveSpec`, if `~BLANK_ERASE_CAN_TEAR` |

The hypothesis is a property of the chip, not of the driver: an interrupted erase of a
blank block leaves it blank. The run `blackbox_torn_erase` shows what happens
where it does not.

The argument has three layers. `Sound` needs nothing of what is on the chip: besides the types it says
what the driver may be doing in each state (`ModeInv`), that it neither writes nor erases the
bank of the retained flight (`BankInv`), how a flight ends (`StopInv`), and that the queue holds
the records that follow those on the chip, of which a program takes no more than is
queued and nothing beyond its page (`QueueInv`, `Due`). `DataInv` relates the driver to the chip: a bank with an
erased header is blank, so are the blocks above the one being erased (`EraseInv`), and
the bank being written holds slot s at s up to `record_address` and is blank from there on (`OpenInv`).
`NeverOverprograms` follows from it; that the slot at an address is the one of that number is
`QueuedSlot`, where record and page sizes that do not divide each other meet. `ArchiveInv` orders the
flights on the chip by number (`IdsInv`, `OpenIsNewest`), so that the bank the driver retains is the one the
next boot would choose (`RetainsNewest`). Every step then either leaves the retained bank alone and
makes no header valid (`Spared`), or commits (`Commits`), or is the clear. The refinement adds that what is
committed took at least one record (`KeptInv`): `Quiet` steps are stutters, `CommitStep` is a commit,
whether the driver learns of it or a power loss, time-out or bus error comes first. Each layer
was checked by TLC as an invariant, with the constants of `blackbox_flash`, before it was proved.

Only model-checked: the liveness properties, for which TLAPS has no rule of fairness
(`RxLossDisarms`, `ImuLossStops`, `SilentHostStopsTest`, `DriverSettles`, `ReceptionRestarts`,
`SmartAudioSettles`, `HostIsAnswered`, `RecorderSettles`). Every other property of a passing run is
the statement of a theorem.

None of the modules with theorems, nor any they extend, uses a RECURSIVE operator.

## 5. Where code and documentation disagree

- **Boot guard** (`boot_interlock`). README.md:241 and `boot_arm_guard.h:4` say
  the first valid signal decides. The guard is called from
  `flight_control_update` only: with the IMU not ready at boot, frames pass
  unseen, and a craft powered with the switch on arms once the switch was cycled.
- **Start during an erase** (`blackbox_erase_start`). The comment at
  blackbox_flash.c:580 foresees a flight that starts during an erase. After a
  commit `write_bank` still names the retained bank until the erase is over, so
  the start is rejected with mask 16, nothing is deferred and the flight is not
  recorded. The same holds at boot when bank 0 is retained.
- **Erased header** (`blackbox_torn_erase`). The comment at blackbox_flash.c:221
  holds as long as erasing a blank block is harmless when it is interrupted. `blackbox_sd_clear` erases
  blank banks too; data sheets leave such a block undefined.

- **Expiry of a restore** (`settings_expiry`). README.md:254 says that expired
  transfers never reach application. The age is a 32-bit difference of
  microseconds and looked at only by backup commands, so a transfer continued after 71.6
  silent minutes counts as recent. What is applied is still one whole transfer.
- **Silent UART under failsafe** (`receiver_stall`). The comment at sbus.c:290
  foresees a UART that stops calling back and restarts it after a signal timeout. A
  confirmed failsafe is cleared by a decoded frame only and takes precedence in
  `loss_reason`, so for a UART that falls silent under failsafe the timeout is never
  seen, and the restart never happens.

## 6. Plan

1. Done: `FlightControl`, `MainLoop`, `MotorInterlock`, `BootInterlock`,
   `BlackboxFlash`, `FlightArchive`, `SettingsStore`, `Receiver`, `VideoLink`, `HostLink`, `Links`,
   `SdRecorder`, `FlightLog`; the proofs of all of them but `BootInterlock` (its run refutes a claim), with both refinements.
2. An abstract archive of several flights, which the SD recorder implements up to `disowned`.

## 7. Not modelled

DShot and the bits of the ESC one-wire line, IMU register access, MAX7456 and frame
buffer, board set-up, the SPI command set of the SD card: register programming without
a protocol between actors. The loop deadline (`app/loop_deadline.h`): one expression on
the wrapping counter, with a unit test; time is modelled as ages that stop at their limits.
PID arithmetic, filters and mixer: floating point, only their state resets and
the integral's gate are modelled. The contents of replies and of telemetry, which
appear only as lines that compete for the transmit ring.
