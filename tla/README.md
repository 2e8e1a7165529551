# nanochronometer: specifications, model checking and proofs

This directory holds TLA+ specifications of nanochronometer, the TLC
configurations that check them on small instances, and theorems about them
checked by TLAPS. It describes the code under `src/`; paths below are relative
to `src/crates/` unless they say otherwise.

Contents: [1 the system](#1-the-system) · [2 the hazards](#2-what-is-hard-here)
· [3 modules](#3-modules-and-how-they-correspond-to-the-code) ·
[4 runs](#4-runs-and-bounds) · [5 fairness](#5-fairness) ·
[6 proofs](#6-proofs) · [7 disagreements found](#7-where-code-and-documents-disagree)
· [8 not modelled](#8-not-modelled) · [9 how it grows](#9-how-it-grows)

## 1. The system

nanochronometer reads the processor's own counter, converts it to nanoseconds
and shows it: a library (`nanochrono-core`), a desktop window
(`nanochrono-gui`), a command line, a C interface, benchmarks, kernel modules
for Linux and Windows, and a freestanding x86-64 image that boots into the same
interface with drivers of its own (`nanochrono-baremetal`; in the table, BM).

| Component | State it keeps | Operations | What makes it correct |
|---|---|---|---|
| Protected words, `nanochrono-core/src/redundancy.rs` | a 64-bit value with a SECDED code, two replicas with a value and a code each; process-wide counters | `set`, `get`, `get_checked`, `verify`, `inject_flip` | damage within the specification is never handed out as good, is repaired completely, and what is not repairable is reported |
| Stopwatch, `nanochrono-core/src/stopwatch.rs` | state, total, origin of the live segment, laps, `last_integrity` | start, resume, pause, stop, reset, lap, toggle, verify, reads | time is neither lost nor counted twice, in any order of calls and under repairable damage; a wrong reading leaves a trace |
| Chronometer, `nanochrono-core/src/context.rs` | counter rate, interval origin, drift window, drift, `last_integrity` | calibrate, start, reset, elapsed, verify_calibration, spin | calibration and drift survive preemption; the rate in use is a fresh one; elapsed time survives the wrap |
| Desktop window, `nanochrono-gui/src/main.rs` | a chronometer, a stopwatch, the notice line, results and in-flight flags of background tasks | one handler per message of `update` | results land in the state they were asked for; buttons come back; losses are announced; damage is healed by the tick |
| Counters, routes and backends, `nanochrono-core/src/{cpu,backend,simd,dispatch,clock,perf}.rs`, `arch/` | selections made once; the events of a thread | detect, select, calibrate a route, read | nothing is run that the processor lacks; a rate is never too high; cycles are counted, or estimated as well as the clock is steady |
| Time sources, `nanochrono-core/src/{ntp,kvmclock}.rs` | one socket per query; the host's pairing, cached | query, host_offset_ns | an offset is within the uncertainty it states; the host is asked once |
| Hypervisor detection, `nanochrono-core/src/hypervisor.rs` | a report, cached | detect | a machine that is none is not confirmed; one that says so is |
| Kernel crypto and benchmarks, `nanochrono-core/src/kcrypto.rs`, `nanochrono-bench` | descriptors of a session; the passes of a run | open, digest, encrypt; run | what is opened is closed, once; operations reported are operations run |
| Report descriptors and AML, `nanochrono-core/src/{hid_report,aml}.rs` | none beyond a call | parse, decode; walk, evaluate | fields are read where the descriptor puts them; a table is answered as it says or not at all |
| Loader, firmware and buses, BM `{multiboot,acpi,pci}.rs` | cursors of the walks | find, walk, enable, power off | every walk ends and reports each thing once |
| 8042, BM `input.rs` | controller configuration, pending break prefix, inferred scan code set, packet under collection | init, poll | devices are found and known for what they are; each byte goes to its device's decoder; keys arrive once, in order; a lost byte is recovered from |
| xHCI driver, BM `xhci.rs` | command, event and transfer rings with their cycle bits, device table, buffers shared with the controller | bring-up, enumerate, poll_report | commands and answers stay paired, queued work is not overwritten, a silent controller does not hang the boot |
| I2C controller and touchpad, BM `{i2c,i2c_hid,gpio}.rs` | the controller's queues, the next poll time, the pin gate with strikes and failures, what each pad was seen at | probe, power on, write_read, poll, judge, calibrate | transfers are whole; the device and pad are the declared ones; no gate hides a report for good |
| Bare-metal interface, BM `gui_x86_64.rs` | tab, stopwatch, timer, what has to be painted, run loop, layout | events, frames, power | readings are right or flagged; the countdown spends the time it ran; widgets keep to their boxes and are painted though events never stop |
| Framebuffer and pointer, BM `framebuffer.rs`, `gui_x86_64.rs` | back buffer, box of damage, what is beneath the pointer | draw, present, move | between frames the screen is the scene |
| Counters and clock of the image, BM `{pmu,clock}.rs`, `nanochrono-core/src/pmu_leaf.rs` | programmed counters; rate and start of the clock | enable, measure; start, wall_ns | a counter counts before it is believed; the time told is one that was |
| Boot and abort, BM `{main,selftest,progress,serial,panic,panic_screen,hypervisor}.rs` | phase shown, whether the line takes bytes | kmain, put, panic | a boot that stops shows where |
| Kernel modules, `src/kernel/{linux,windows}`; C interface; command line; wrappers; drawing; formatting; statistics | none that outlives a call | | section 8 |

**Interactions.** The desktop window owns one `Chronometer` and one `Stopwatch`
and lends the first to every call of the second. Both keep their numbers in
`Protected` words, which upsets may hit at any time between two calls; of the
code, only `verify` and the paths through it repair anything. Benchmarks, NTP
queries and calibrations run off the UI thread and come back as messages in any
order; the window's `Tick`, every `FRAME_INTERVAL` (16 ms), is the only scrub of
a stopwatch that nobody operates. The bare-metal image goes through the jobs of
its boot one after the other (loader's tags, counters, buses, hypervisor, ACPI,
clock, devices), each against something that it did not write and that goes on
beside it. Then one loop polls the input stacks (8042, then USB, then I2C),
hands their events to its stopwatch and timer and paints a frame when `FRAME_NS`
has passed.

## 2. What is hard here

The full list, with the line where each one bites and the properties that would
catch it, is `hazards` in `PROJECT.json`. By kind:

- *Silent memory errors at any moment.* The redundancy exists because a test
  cannot place every flip; whether repair comes before damage is folded into a
  new value is a question of order (`stopwatch.rs` `freeze`, `redundancy.rs`
  `verify`).
- *Two machines sharing memory or a queue.* The xHCI driver and its controller
  communicate by cycle bits in rings that wrap; the I2C driver and its
  controller through two queues; waits give up.
- *Preemption between two reads*, of two clocks (calibrations, the pairing with
  a host), of registers of one clock (the clock chip), of a pin and a bus.
- *Answers that arrive late*, double, or for somebody else: messages of the
  window's tasks, datagrams, completion events, bytes of one port shared by
  three devices.
- *Byte streams that lose bytes*, and devices that share one event per poll.
- *A guess that is acted on.* Which wire is the touchpad's is inferred from
  coincidences; whether this is a hypervisor from costs; what a counter is worth
  from watching it.
- *Structures somebody else wrote*: descriptors, tables, bridges, tags. A reader
  that is out of step by one goes on as if nothing had happened.
- *Loops that must get to the other half of their work*, and boots that must end.

## 3. Modules and how they correspond to the code

`EXTENDS` points left to right below; each `MC*` module only gives constants
their values (those of `Desktop`, `StopwatchTruth`, `Chronometer` and `KernelUi` are at
the end of the module).

```
Secded ──> Redundancy ──(implements)──> WordPromise ──> made of ProtectedWord's operators
ProtectedWord + CounterTime ──> Stopwatch ──(implements)──> IdealStopwatch
                                └──> StopwatchTruth
ProtectedWord + CounterTime ──> Chronometer
ProtectedWord ──> Desktop
ProtectedWord ──> KernelUi
Xhci
Ps2Input + I2cHid ──> Input
I2cMaster, CorePmu, CycleRates, CryptoBench,
IsaChoice, HypervisorEvidence ──(INSTANCE)──> Machine ───┐
KernelBoot, TimeSources, WallClock,                      ├──> MCMachine
Canvas, BringUp ──(INSTANCE)────────────────> Display ───┤
Aml, FirmwareTables, HidReport, ScreenLayout,            │
PadProbe ──(INSTANCE)────────────────────────────────────┘
Job ──> Machine, Display
```

The upset-prone word is the seam. `Redundancy` has the code of `redundancy.rs`
bit by bit and is shown to implement `WordPromise`, whose word is *the value
last written and the set of bits flipped since*. Everything above the seam is
written over `ProtectedWord`'s operators, so what the other modules check
rests on the code and not on an assumption about it.

### Protected words
- **`Secded`**: the code. Data bit positions, parity masks, check byte,
  syndrome and `Decode` at any width. `DataPosition`, `ParityMask` and
  `DataIndexAt` are the `const fn`s of the source; `Column` is a bit's position
  seen as a set of parities. `Layout` collects what the two position functions
  must do to each other; TLC evaluates it at the widths of each run and at the
  program's own 64 + 7 (`MCStopwatch`, `ProgramLayout`).
- **`Redundancy`**: `Protected`. State `word` (three copies of value and check
  byte), history `truth`; actions `Set`, `Flip`, `GetChecked`, `Verify` with
  `Examine` (= `get_checked`), `Vote` and `Repair` (= `repair_by_vote`, with
  the write of all three copies). `get_verified` is `Verify`.
- **`WordPromise` / `ProtectedWord`**: the abstract word and its operators.

### Stopwatch
- **`Stopwatch`**: words `accumulated`, `start` (a sequence of at most one
  word, `Option<Protected>`), `laps`, and the rate `hz` lent by the
  chronometer; one action per method. `PrimaryAction` is `toggle`; `Freeze`
  includes the scrub the code does first; `Poll` stands for the reads that
  check and repair nothing. `reported` is the counters of `record()`, kept as
  the set of tiers that were ever counted.
- **`IdealStopwatch`**: the same methods over plain numbers. `KeepsTime` is
  the refinement.
- **`StopwatchTruth`**: `Stopwatch` beside the ticks that really passed while
  it ran; `WrongReadingIsCounted` is stated over this.
- **`CounterTime`**: wrapping difference, the `u128` conversion cut to the
  width, saturating sum, and the external counter.

### Chronometer
- **`Chronometer`**: `hz` and `start` words, the drift window, `drift`,
  `last_integrity`. Reads that the code makes one after the other are `gap`
  nanoseconds apart, any number up to `MaxGap`: preemption. A calibration is
  described by the three distances between its four reads. `Poll` is
  `elapsed_units`/`elapsed_ns` with the once-a-second checkpoint inside;
  `Start` and `Reset` share `Rebase`; `SpinNs` is `spin_ns` with reads of the
  counter as far apart as preemption makes them.

### Desktop window
- **`Desktop`**: `update`, one action per message. Tasks in flight are
  `benches`, `queries`, `calibrations`, each finishing with success or failure
  at any time. Of the words only their condition matters to `update`, so the
  value is 0 and damage is a set of bits. The notice is kept by kind.

### xHCI
- **`Xhci`**: first a ring with a link entry and a cycle bit (`Write`, `Owned`,
  `Queue`; `Around` for the event ring, which wraps without a link). Then the
  driver as a program counter (`step`, `phase`) over the steps
  of `enumerate`, `control_in`/`control_out`, `command`, `wait_*` and
  `poll_report`, with the `scan` over ports of `UsbInput::bring_up`; beside it
  the actions of an external controller (`RunCommand`, `RunControl`,
  `RunReport`), which takes entries whose cycle bit it owns at its own pace and
  may be silent for longer than a wait lasts (`SlowBoards`). What is plugged
  into the ports is chosen from `Boards` at the start. What a controller does
  with a control entry that it finds on an interrupt endpoint's ring
  (`OnForeignTrb`) is not defined by the code: both outcomes are explored.

### Input
- **`Ps2Input`**: a keyboard that sends set 1 or set 2 and a mouse that loses
  bytes, each with a wire to its port of the 8042 (external); `Poll8042` takes
  one byte from either port through `Keystroke` or `Accumulate`.
- **`I2cHid`**: `I2cHid::poll` with its gate. `PollPad` is one poll: given up,
  skipped for a quiet pin, a failed transfer, or a read with its `Judge`.
  While learning, `Learn` files what `Observed` saw and closes the gate when
  `Settled` has one answer. `Level` is the line of the device and of pads that
  move on their own (external); a report may come between the sample of the
  pins and the read of the bus. Strikes and failures are counters of the
  source; `polls` is kept modulo the audit period, which divides its 2^32.
- **`Input`**: `Input::poll`, whole: `Poll8042` while a byte waits, else
  `PollReports`, which reads the USB keyboard and mouse in turn (`Turned`,
  `UsbRead`), and the I2C device if they gave no event and it is due. A report
  is the set of keys held; `KeysChanged` is both `keys_changed` and the loops
  of `poll_keyboard`. Machines differ in what is fitted, what answers its
  probe and how the gate was opened; `UsbUp` and `PadUp` are what `init` makes
  of it.

### Bare-metal interface
- **`KernelUi`**: the loop of `run` with its bound on events per round, the
  handler (`Press`, `Pointer`), `Stopwatch` and `Timer` of the image with every
  method, and the session card with the two reasons it is repainted for. A
  frame looks at the readout's instrument before it paints the card, in the
  order of the source. The stopwatch of this crate is not the one of the core:
  it counts in ticks and folds a damaged total without a scrub of its own, so
  it has its own properties.

### Machine
**`Machine`** and **`Display`** compose the jobs that meet a machine the program
knows nothing of, over the variables of **`Job`**. They share no state and never
overlap in the program, so one is at work at a time: `source` is how things are,
`code` what the job works on and what goes on beside it, `walk` where the job is,
`answers` what it has said. Every job has its module, with one action per function
or step, and a property that holds what was said against `source`. `Machine` has the
jobs `i2c`, `pmu`, `route`, `perf`, `crypto`, `bench`, `isa` and `hyper`, `Display`
those whose outcome somebody watches: `boot`, `ntp`, `host`, `wall`, `canvas` and
`input`. The properties of both are proved: what each of their jobs may meet is the constant
`Inputs`, of which the assumptions say the least the proofs need. `MCMachine` has the
others beside them (`AllSpec`), with an action for each, and enumerates the machines
of all.

| Job | Module | The code, and what is beside it | Property |
|---|---|---|---|
| `aml` | `Aml` | `aml.rs`: skippers, the walk over devices, member search, the interpreter with its budget, presence, resource buffers, on tables as sequences of tokens. Its first part has definitions and statements as trees, how they are assembled to tokens, and what they mean; a reader out of step sees tokens of the wrong kind | `WalkFindsDeclaredDevices`, `AnswersAreTheTables` |
| `loader`, `acpi`, `pci` | `FirmwareTables` | the three walks over the loader's tags; root, tables, checksums, `_S5` and the ports of power-off; enumeration behind bridges that lead anywhere, and `enable` | `BootInfoIsRead`, `TablesAreFound`, `EveryFunctionOnce` |
| `hid` | `HidReport` | `parse` item by item with its global and local state, `find_pointer`, `find_keyboard`, `decode` | `ReportsMeanTheSame` |
| `i2c` | `I2cMaster` | `new`, `configure`, `aim`, `write_read`, `settle`, beside a controller that carries commands when it likes, aborts, or holds the clock | `TransfersAreWhole` |
| `pmu` | `CorePmu` | `detect`, `enable` with its probes, `measure`, over counters that count, pretend to, or hold what firmware left | `MeasuresTheWork` |
| `ntp`, `host` | `TimeSources` | `query` over one socket beside a network that loses, delays and doubles and a clock that is set; the cell that threads race for | `OffsetIsWithinItsUncertainty`, `HostIsAskedOnce` |
| `route`, `perf` | `CycleRates` | both calibrations of a route, preempted and moved between any two reads; one event per kind of core, which the kernel lets wait for a counter, at a clock that may be another in each turn | `FactorIsNeverFast`, `CyclesAreCounted` |
| `crypto`, `bench` | `CryptoBench` | a session from socket to close beside threads that open and close files; passes, repeats and what is divided by | `SessionsAreClean`, `PassesCountWhatRan` |
| `isa` | `IsaChoice` | what CPUID shows and the system saves, the choices with the wishes of the environment, and the instructions each choice, probe and read of the counter is made of | `NothingMissingIsRun` |
| `hyper` | `HypervisorEvidence` | every source of evidence in its order, the kernel module's report, the verdict | `VerdictFollowsTheMachine` |
| `boot` | `KernelBoot` | `kmain`, self test and start of the interface as the order of what they do; phases, the serial line, hypercalls, a panic at any of the work | `BootCanBePlaced` |
| `wall` | `WallClock` | the four sources of the rate, the timer's polling, the two readings of the clock chip beside its update, and the time told from then on | `WallIsTrue` |
| `canvas` | `Canvas` | `fill`, `set`, `outline`, `get`, the box of damage, `present`, the pointer and what it keeps, frame by frame | `ScreenIsTheScene` |
| `layout` | `ScreenLayout` | `for_screen` and every widget's boxes, rows and texts over the widths of the program's own typeface; tabs, panels and precision change between frames | `NothingOverlaps` |
| `input` | `BringUp` | `Input::init` and the functions it talks to the 8042 with, beside a controller, a keyboard and a mouse that answer by one port in their own time; what `source()`, `found()` and `trouble()` then say | `DevicesComeUp` |
| `pad` | `PadProbe` | `probe_nth` from the table's declaration over the controller's `_ADR`, the bus, power-on and reset to the pad of the pin by `gpio.rs`'s tables, beside a device that resets slowly, is touched, or loses a transfer | `PadIsTheDeclared` |

Definitions whose comment begins with "The mistake of" are plausible bugs. No
specification uses them; each is what a property of section 4 was seen to catch
when it takes the place of the definition after it.

## 4. Runs and bounds

Each run asks one question. The largest, `machine`, takes about a minute and a
half on two workers; the others less.

| Run | Question | Bounds, and why they are enough |
|---|---|---|
| `redundancy` | Do the bits keep the promise? `AnswersAreTrue`, `RecoverableIsRecovered`, `RepairIsComplete`, `KeepsPromise` (refinement) | 3 data bits and 3 parities + overall: the smallest width with shortened codewords (positions the syndrome can name that hold nothing). Up to 2 flips in a copy and 4 in the word reach every tier, the vote with damaged voters included. Decoding is linear, so two values suffice. The theorems remove the width. |
| `stopwatch_ideal` | Is it the stopwatch one would write if memory never failed? `OriginOnlyWhileRunning`, `KeepsTime` (refinement) | Counter of 3 bits starting at 6, so that it wraps within two ticks; a rate that rounds (3 ns per 2 units); one lap; 3 flips outstanding over total, origin and laps, two of them in one primary: each repair tier, twice over. |
| `stopwatch_truth` | Can a wrong reading go out without a trace? `WrongReadingIsCounted` | One copy more may be hit (2 flips in primary and replica), the least that is beyond repair, and 4 flips so that two words can be hit in one life. |
| `chronometer` | Calibration, checkpoint, drift, wrap, spin: `RateIsSound`, `ElapsedIsTrueOrCounted`, `DriftBlamesTheRate`, `SpinBelowTheWrapIsLongEnough` | 5-bit counter from 20, 8 units per second of 4 ns: over 6 ns it wraps and a checkpoint falls due; each pair of reads 0 or 1 ns apart. |
| `desktop` | Do results, notices and scrubs come out right in every order? `WindowMatchesTasks`, `WindowComesBack`, `LossesAreAnnounced`, `DamageIsHealed` | Two modes, of which one has a row this machine cannot run; one calibration at a time; a rate and a total of 2 bits with 4 flips outstanding, enough to lose both. |
| `xhci` | Do driver and controller stay in step? `AnswersAreTheRequests`, `EventsAreTakenOnce`, `QueuedWorkIsNotOverwritten`, `BringUpEnds` | Rings of 5 entries wrap several times in one enumeration (with fewer than 4 a transfer of three stages would not fit, `RingLen > 3`); boards of up to 4 ports with every kind of device, among them more HID devices than are read; 4 reports per device, so that a report ring wraps behind a device that is polled; boards with answers later than a wait. |
| `input` | Do keys arrive, is every device read, does the pointer recover, is the right pin found? `KeysArriveAsTyped`, `CalibrationFindsTheWire`, `CursorStopsWandering`, `ReportsAreServed` | Machines: PS/2 only; USB beside a PS/2 keyboard that missed its probe; a USB keyboard beside a touchpad; a touchpad with every way a gate can be opened, right or wrong; an I2C keyboard. Two keys, one of whose set 2 code is in set 1's range of releases; 3 keystrokes (press, release, press: after the first release the scan code set is known); 2 lost bytes; wires of 3 bytes. Two pads, the line and one that moves freely; 2 samples of each class, 2 strikes, an audit every 3 polls, given up on after 2 failures. A deadline is met on time or 1 unit late, over a counter that wraps. |
| `kernel_ui` | Are readings, countdown and card right, and is the screen painted? `WrongTimeIsFlagged`, `TimerSpendsWhatItRan`, `SessionCardIsCurrent`, `ChangesReachTheScreen` | 5 presses that act, enough to start, stop, start, lap and reset or to pause a countdown and resume it; 2 ticks; lap table of 2, target of 1 or 2 steps; an upset of each tier. Presses that do nothing are unbounded. |
| `machine` | What does the program make of a machine it knows nothing of? The 13 properties of section 3's second table, grouped: `TablesAreAnswered`, `MachineIsDescribed`, `ReportsMeanTheSame`, `TransfersAreWhole`, `CountersAreTrue`, `TimesAreTrue`, `WorkIsAccountedFor`, `NothingMissingIsRun`, `VerdictFollowsTheMachine`, `BootCanBePlaced`, `ScreenIsTheScene`, `NothingOverlaps`, `DevicesComeUp` | 2.8 million states over the machines of `MCMachine`: every table of a few definitions, every wiring of two bridges, every order of three tags, every core, screens of the sizes a loader sets, and so on; each job's part of `MCMachine` says which shapes it enumerates. perf's thread runs three turns, at a clock of 2 or 3 in each: the least with which an estimate can be too low, too high or less than the one before. Sizes of the program that a small value stands for (FIFO depth, tracked reports, budget of the interpreter, the counter's width) are constants. The budget is large enough for tables that end and small enough for one that loops. |
| `xhci_ports`, `i2c_stuck`, `boot_stop` | The disagreements of section 7 | |

Every bound is a CONSTANT of its module whose comment says "bound". Deadlock is
checked in all runs: every system here can always take a step (time stops at its
bound, but calls remain; a job of `Machine` that has finished is repeated by the
next one).

## 5. Fairness

- `Desktop`: weak fairness of `Tick` (a subscription of the runtime fires every
  `FRAME_INTERVAL`) and of the end of each kind of task (a kernel runs a
  counted number of passes, a query has a socket timeout, a calibration a
  window). Nothing is assumed of the user or of upsets.
- `Xhci`: weak fairness of the driver's own steps, `BringUp`; *nothing* of the
  controller, which is the point of `BringUpEnds`.
- `Input`: weak fairness of `Poll` (the loop polls without pause), of time and
  of the PS/2 mouse's movement; strong fairness of polling with the 8042 empty,
  since a poll takes microseconds and the 8042's next byte a millisecond -
  `ReportsAreServed` nevertheless names `[]<>Quiet` as its premise; strong
  fairness of a slow packet: a pointer that is moved with large steps only for
  ever may mislead the resynchronisation bit for ever, and the code cannot
  help that. Nothing is assumed of the other devices, the other pads or the
  bus, which may fail any transfer.
- `KernelUi`: weak fairness of the loop, strong fairness of `Frame`, because
  `FRAME_NS` has passed again and again when the loop looks at the clock.
- `Machine`'s `StuckSpec` (`i2c_stuck`): weak fairness of the I2C driver and of
  a controller that leaves reset; nothing of the bus, whose device may hold the
  clock for ever.

## 6. Proofs

| Module | Theorem | Says |
|---|---|---|
| `RedundancyProofs` | `SingleFlipIsCorrected`, `DoubleFlipIsDetected` | the code corrects every single flip and detects every double one, at every width with a sound layout |
| | `TypeCorrect`, `WordAnswersAreTrue`, `RecoverableWordsAreRecovered`, `RepairsAreComplete` | the properties of `redundancy`, for every width and any amount of damage |
| | `CodeKeepsPromise` | `Redundancy` implements `WordPromise` |
| `StopwatchProofs` | `TypeCorrect`, `OriginHeldWhileRunning` | for every counter width, number of laps and damage of at most two bits in a copy |
| | `StopwatchKeepsTime` | with tolerable damage that spares the rate, `Stopwatch` implements `IdealStopwatch` |
| | `StopwatchTellsWrongReadings` | with any damage that spares the rate, a reading or a lap that is not the time the stopwatch ran goes with a counted word beyond repair, in every session that ends before the counter wraps or a duration overflows (`BoundedSession`) |
| `ChronometerProofs` | `DriftIsOfTheRate` | a drift that was measured over a window is the counter's own, up to what two preempted reads are apart, where the window does not overflow (`BoundedWindow`) |
| | `RateStaysSound`, `ElapsedStaysTrue`, `SpinsAreLongEnough` | no calibration leaves a rate faster than the counter's; an elapsed count is true or its word is counted as unrecoverable; a spin below the wrap lasts as long as asked: for every counter width, rate, window and pattern of preemption |
| `XhciProofs` | `EventsReachTheDriverOnce` | no event is taken twice, lost or overwritten, for every length of the event ring, every board and every pace of the controller |
| | `EveryIndexIsInRange` | the type invariant: no cursor of a ring, slot or interface leaves its array |
| | `TheAnswerIsOfTheRequest`, `TheControllerFindsItsWork` | an answer that the driver takes is the one to its last request, and no entry that the controller has yet to see is written over: for every ring of more than 3 entries, number of slots and devices, and board whose devices without a HID interface come last (`OthersComeLast`) |
| `DisplayProofs` | `BootsArePlaced` | a kernel that has stopped has shown where, whatever of its machine fails or panics and at whatever step; a screen with room shows the phase, a line that takes bytes has been told it and the reason; a silent line is waited for once; a host that is not there is called only by an Arm kernel whose counter runs at the frequency of a virtual one (`hypervisor.rs:274-283`, section 7) |
| | `TimesStayTrue` | a sample that the server asked last answered is within its uncertainty, for any number of addresses and whatever the network does to datagrams; one of any number of threads asks the host and all are given its answer; the wall clock starts from what the chip showed at one moment and is not ahead of it afterwards by more than its update, where the rate is known, for every rate, coding and moment of the update |
| | `ScreenStaysTheScene` | between frames the screen is the scene with the pointer over it, but for what was painted under a pointer that was drawn, and nothing right of the screen in a row is written: for every size of the screen, of its rows, of the buffer and of the pointer, and whatever is drawn wherever |
| | `DevicesStayKnown` | where no byte was taken for another, `Input::init` ends with every keyboard and mouse that answers found and known for its kind, the controller set as the decoders need it, nothing of the talk left to be read, and what `source()`, `found()` and `trouble()` say true: for every controller, whatever is plugged into it and onto the other buses, however many keys are typed and whoever is slow |
| | `WindowStaysTrue` | flags match tasks and the log is the selected row's, for every set of modes and rows |
| `InputProofs` | `KeysArrive` | keys arrive as they were typed, by a PS/2 keyboard of either set and by USB and I2C reports, whatever else is plugged in, lost or touched, for every set of keys and codes that a keyboard's bytes can tell apart (`CodesAreTold`) |
| | `TheWireIsFound` | calibration closes on the device's line, for any number of pads that move in any way, any polarity and any thresholds |
| `KernelUiProofs` | `TypeCorrect`, `WrongTimesAreFlagged`, `LapsAreInOrder`, `TimerIsRight`, `SessionCardStaysCurrent` | the invariants of `kernel_ui`, for every bound, calibration and pattern of upsets, and whatever an upset does to a value |
| `MachineProofs` | `TransfersStayWhole` | a transfer over I2C that is reported as done, and began with queues in which no abandoned one had left anything, has told its device all its bytes and brings back the device's, for every depth of the queues, list of transfers, and pace and abort of the controller |
| | `CountersStayTrue` | a measure of the core's counters counts the work that ran, on any core of which a piece of work does not go round a counter, whichever of its counters count; a rate taken for usable is never above the true one, wherever the thread is stopped or moved, where processors' counters agree or the thread is pinned; perf's total has every cycle where every turn of the thread was counted, and on one kind of core then no other, and never goes back; elsewhere it is an estimate, off by no more than the ratio of the fastest clock to the slowest, and by twice that above for a thread that was on two kinds of core: for every range of clocks and pattern of waiting |
| | `WhatIsRunIsThere` | no dispatcher, kernel, read of the counter, probe or wish of the environment runs an instruction that the processor lacks or the system does not save, with two exceptions, both in section 7: the RDTSCP of `read_overhead_cycles`, and SVE's in the probe of a processor that has SME alone; for every consistent processor |
| | `TheVerdictFollows` | without a hypervisor only the kernel module can confirm one, whatever was measured; one that declares itself is confirmed and never native; an emulator's signature is never taken for less: for every guest and bare machine |
| | `WorkStaysAccountedFor` | a session with the kernel's crypto closes what it opened and nothing else, whatever other threads open and close, and returns what was made of the data of its call, all of it if the kernel took it in one piece; a benchmark divides by as many operations as ran, except in a pass over AF_ALG in which a call failed: there by no fewer (`lib.rs:830-835`, section 7) |

**Assumptions.** Widths, rates and bounds are natural numbers; the layout of
the code (`LayoutAssumption`), a finite fact about two integer functions
that TLC evaluates at 64 + 7; what `Upset` does to a value is constrained only
as far as each proof says in its statement. All of them are named ASSUMEs that
TLC evaluates in the runs. Those of `Machine` and `Display` say of their inputs what a bus
(`BusAssumption`), a processor (`ProcessorAssumption`), a guest
(`GuestAssumption`), a session and a benchmark (`WorkAssumption`), a core, a
route and a host of perf's events (`CounterAssumption`), what a kernel is booted
on (`BootAssumption`), a query's addresses and network and a guest's host
(`TimeAssumption`), a chip and the rate of a counter (`ClockAssumption`), a screen and what is drawn on
it (`ScreenAssumption`), and a controller with its keyboard and mouse (`DeviceAssumption`)
can be: sets that the module of the job defines. They
leave the sizes open; what they exclude is a processor
with AVX-512 but without AVX and the like, a counter that one piece of work goes
round, a 32-bit x86 without SSE2 (the one such target that is built is
i686-linux-android, `packaging/android/build.sh:54`, which requires it), a core clock
that leaves the range from `Slowest` to `Fastest`,
a system that has several kinds of core and lists none, a query before
1970 or across the end of the second era, which the protocol's 32 bits cannot
tell apart, and a clock that is started more than an hour after boot or looked at more
than half a day later: `WallIsTrue` compares times of day, of which a day's
difference would be none; a screen whose rows are shorter than it is wide;
and a mouse at a controller that has no port for one. Some theorems have a hypothesis beside them, which is in their
statement: `BoundedSession` and `BoundedWindow` bound how long a stopwatch or a
drift window goes on (products of it fit the counter's width; centuries at
64 bits), `CodesAreTold` says of the codes that no key's release in set 1 is
set 2's break prefix (the code's inference of the set rests on that; the kana
key breaks it, section 7) and that keys with one code in set 2 have one in set 1, and
`OthersComeLast` is the boards of the run `xhci`: without it the properties fail,
which is the finding of `xhci_ports`.

**The code.** Check bits are a linear map: `CheckOf(x + e)` differs from
`CheckOf(x)` by the check bits of `e` (`ParitiesAreLinear`, `CheckContents`).
So the syndrome of a damaged copy is the sum of the columns of its flipped
bits (`SyndromeOfFlips`) and the overall parity their number modulo 2
(`OverallOfFlips`); columns are non-empty and pairwise distinct
(`ColumnsAreDistinct`), which gives the two theorems by cases on where the
flips are.

**The word.** `TypeOK` is inductive by itself. The other invariants are facts
about *every* word of the type rather than about reachable ones, so the
temporal part is a corollary of `TypeCorrect`; the work is in `VoteIs`,
`BallotIs` and `ExamineIs`, which say what a vote among candidates is in
terms of how many bits of each copy are wrong. `StepIsPromised` then maps each
action to the one of the same name in `WordPromise`.

**The stopwatch.** `TypeOK` alone is not inductive: a step's effect on
a word depends on how much damage the word already has, and on the origin being
present exactly while running. `IInv` adds both (`InvariantHolds`). For the
refinement `RInv` adds that the damage is tolerable and the rate is sound;
then every scrub shows the same numbers as before (`ScrubShowsTheSame`), so do
upsets (`UpsetShowsTheSame`), and each action refines the one of the same name
(`…Refines`), with upsets, scrubs and reads as stutters.

Without a bound on the damage nothing can be said of what a check hands out, so
`Told` speaks of the values the words were last *written* with: unless a word
beyond repair was counted, the total written is right for the time before the
live segment (`TotalRight`), and every lap for the time it was taken
(`LapsRight`). A scrub and an upset keep what was written (`ScrubKeepsStored`,
`Steady`), time lets the live segment grow by as much as the stopwatch has run
(`DifferenceFollows`), and a fold adds a segment whose conversion loses less than
a nanosecond (`SegmentIsRight`, `SumIsRight`); if the scrub before it counted
nothing, what it read is what was written (`ScrubFindsNone`). `BoundedSession` is
the hypothesis the arithmetic needs: some centuries at 64 bits.

**The chronometer.** What a calibration computes is a quotient of two distances
of which the code controls neither, so `RateIsSound` is arithmetic
(`QuotientIsNotLow`, `QuotientIsNotHigh`) under the invariant that the rate's
word is the last one written or beyond repair (`RateInv`). An elapsed count is a
difference modulo the width: it is true as long as less than a wrap has passed
since its origin (`RemainderOfDifference`, `RemainderGrows`), which
`OriginInv` keeps over `start`, `reset` and the rebasing of a verification. The
checkpoint in `elapsed_*` makes `WindowInv` necessary: unless it has been
rebased, the drift window is never younger than the last verification.
`ReportInv` and `OutcomeInv` tie the answer and `last_integrity` to the words
they were read from. A drift is the quotient of two distances as well, and
`TogetherInv` is what ties them: the window's origin of the counter was read at
most a preemption before its origin of the clock.

**The event ring.** What the driver sees is one bit of one entry. `EventInv` says
what all of them are: the entries behind the controller's cursor are of its pass,
the others of the one before (`RingIsCurrent`), and the cursors are as far apart,
on the same pass or on two that follow each other, as events were posted and not
taken (`Distance`). A set bit then means a positive distance
(`TakeKeepsRing`), and the entry the controller leaves free before `ERDP` keeps
the distance below the length (`PostKeepsRing`). Every handler on either side
takes one event or posts one or does neither (`StepsTouchOneEnd`).

**The transfer rings.** An entry is the controller's while its cycle bit says so;
between its cursor and the driver's a ring is a queue (`Work`), of which the link entry
is no place. `Sync` says, until a wait gives up (`SyncInv`), what those queues hold: the
command ring the command that is waited for or nothing (`CommandRing`), the
ring of the device being brought up the stages of its request that have not run
(`TransferInv`), and the event ring at most one event other than a port's, which
is the answer (`OneAnswer`). Which ring a slot reads is `OwnersInv`. What keeps a
report ring from overflowing is no check in the code but that the driver asks
for one report at a time: while it polls, each device is `Unarmed`, `Flowing`
(what is queued and what was posted are together fewer than the entries), `Stuck`
on an entry that it does not own, or `Halted` (`PollInv`). `OthersComeLast` is needed
because the index of a device that failed is used again with a ring that still
holds its entries. The proof found that `QueuedWorkIsNotOverwritten`, as it was
stated first, did not hold beyond the reports the run then had: a control
endpoint that was once told to go on reads the report entries that later go to
the same ring. They are nothing to it, so the property now speaks of the stages of
a request (`Stages`), and the run has the reports at which the first form fails.

**The keys.** `ArrivalInv` has a part for every way a key can take. Of a set 1
keyboard each byte on its way is a keystroke not yet told (`Set1Inv`). Of one that
sends set 2 the bytes on their way can be assigned to keystrokes, a release being
a prefix and a code that stay together (`Spells`, `Spelt`), so that the decoder is
between two keystrokes or after a prefix and nowhere else (`Set2Inv`). Of a HID
keyboard the keystrokes told and the changes still to come, one in the report
that waits and one after it, are together the keystrokes made (`Owes`), which
holds because a poll makes at most one report into an event, and a USB device
that gave one leaves the I2C device unread until the next. With changes that
come too fast (`rushed`) they are still no more than were made (`Fewer`), which
keeps the indices of the others in range. `CountsInv` is the gate's part.

**The desktop.** That the log beside the selected row is that row's says nothing
about a run that is still out. `RunIsOfSelectedRow` does: while a run is out, the
row drawn as selected is the one it is of. That is why choosing another mode has
to clear the selection, and choosing a row is refused while a run is out.

**The bare-metal instruments.** The card's invariant is inductive beside
`TypeOK`: every handler either leaves the flag, the tab and the instruments
alone or sets the flag. The others are not. A countdown's `Spent` says nothing
after a step unless `startedAt` is at most `now` (`TimerInv`), and a reading of
the stopwatch says nothing about the words it is computed from: `StopwatchInv`
states that, as long as the verdict kept is not `Unrecoverable`, the total
*stored* is the time banked and the laps stored ascend. Once it is
`Unrecoverable` a total may hold anything an upset made of it and is even
rewritten with a fresh code, so the invariant only says that there is *some* set
its values come from; `TicksAreTrue` closes the gap between stored and read.

**The bus.** The controller moves bytes the driver counts, and neither sees the
other's count. `I2cInv` ties them: `PlaceInv` says what of a transfer has been
pushed and popped at each step of the driver, `QueueInv` that what is queued,
what the device heard and gave and what waits in the receive queue are the
transfer's, in order (`CleanInv`), `AnswersInv` what those that have ended must
keep. What makes it hard is a transfer that ends too early, by an
abort or a device that is not there: what it leaves has room in the receive
queue (`LostInv` with `Room`: of the commands still queued the writes come first,
and the reads behind them are no more than there are places), until the next
transfer finds it and is no longer `clean`.

**The counters.** `MeasuresTheWork` speaks of one moment and of counters nobody
reads then. `PmuInv` says which counter is programmed at each step of `enable`
(`ProbeInv` while one is tried, `FallInv` for the way down when it does not
advance, `InstructionsInv` for the second one), so that at a measure the route is
readable exactly when a counter of cycles counts (`RouteMeasures`), and that a
difference taken at the counter's width is what it counted (`Around`).

**The rates.** `RouteInv` has, for every place between the reads of a
calibration, that the counter has advanced no further than its rate times the
clock's time (`SpanInv`), because its reads lie inside the clock's; a quotient
can be too low but not too high. `PerfInv` is the kernel's
bookkeeping. The clock may change in every turn, so all that is known of an event is
that its value lies between `Slowest` and `Fastest` times the turns it ran
(`EventInv`); scaled, it is that for all the turns it was enabled (`ScaleIs`), rounded down.
What a read has come to and what is still to come are sums over `Opened`, which has
one event or two, and bound the total from below and above. Where no event had
to wait on one kind of core, a value is the cycles themselves and the bounds meet
(`CyclesInv`); a second total is then at least the first (`AgainInv`).

**The choices.** `IsaInv` says that what is detected can be run and that what it
is built on is there too, then the same of each choice (`ChoiceInv`) and of what
was run, less what is run unasked (`RanInv`, `MayRun`). `HyperInv` says of the evidence that it is of this machine
(`Sound`), and that what was looked for and is there has been found (`FoundInv`);
the verdict is then a case distinction.

**The sessions.** A descriptor that was closed may at once be another thread's.
`FilesInv` therefore says that the kernel's descriptors of the session are
exactly those the session still knows, at every step of opening and closing, one
that fails in the middle included; `DataInv` and `ResultsInv` follow the data.
`BenchInv` is about what is due against what has run: they differ only once a call
has failed, which only a pass over AF_ALG goes on from.

**The boots.** What a stop leaves behind was left long before. `MarkInv` says
that the picture on the screen is of the last mark in the script before the place
where the kernel is, from the first mark after the screen was attached; `LineInv`
that bytes are sent only to a line that takes them, and that a line found silent
was waited for once and is not used again; `HostInv` that the one call that ends a
kernel is a question to a host that is not there, asked because the timer has a
virtual one's frequency; the second time it is asked, by the interface, nothing is
written on the line (`Quiet`). The scripts are fixed
sequences, so what each step does to them is found by cases.

**The query.** The answer that is used may have been made for another question,
or be the second copy of one. `NetInv` says of every datagram on its way and in the
socket (`IsSound`) which address it comes from, that its time is the server's at a
moment since the query began, and, if it comes from the address asked last, that the
moment lies after the clock was read for it. The true offset then lies between
the two differences that `Sample` halves (`SampleInv`). Datagrams that are lost,
doubled or moved are again members of the same set, so that no order need be
kept.

**The host.** `AskInv` says that at most one thread is past the claim and that the
cell is busy exactly then, so that the host has not been asked before it asks;
`GivenInv` that the cell's value, once it is full, was a pairing of the two clocks
and is what every thread that is done was given.

**The chip.** One reading takes its registers one by one, beside an update that
may fall between any two of them. `ChipInv` says that there is a moment at
which the whole first reading was the chip's (`FirstIn`), as long as the second
that is being compared with it may still agree (`ReadIn`); two that agree leave
that moment between them, or a tick after where the second reading fell in an update.
From then on (`RunsInv`) the clock's rate is what is left: one that was stated is the
true one, and one taken from a timer whose start was not read late is at least the
true one (`RateInv`), so the clock is ahead by no more than the update and falls
behind by the fraction of a second the chip does not show, the time the start took and
what the rate loses. Times of day wrap at midnight, which is why the arithmetic is
modulo a day (`ModOf`, `DivIs`).

**The screen.** That the screen is the scene between frames follows from what it
will be at every other moment. `Pixel` is what a place of the screen will have once all is
presented: the buffer's there, or the screen's own where there is no buffer. `Synced`
says that the two differ inside the box of what changed and nowhere else, which every
write keeps because it widens the box by what it wrote (`FillIs`, `PutIs`), and
presenting the box makes it empty (`DamageIsPresented`). `SceneHeld` says that
`Pixel` is the scene but under a drawn pointer, and that there it is what the pointer
keeps that is the scene, so that erasing it brings the scene back (`EraseStep`); what was
painted under the pointer by `power_off` is the exception, and that is in the last row,
which is needed because a second notice replaces what the first had made stale. Where a
pixel is in a buffer or in a longer row is division (`PlaceWithin`, `PlaceOf`). The
proof found a mistake of the model: the inside of an outline that hangs over
the right edge was taken to go on in the next row, which TLC's screens are too small to
show; `Covered` now cuts both rectangles to the screen.

**The devices.** Everything comes by one port, so what a read gets was decided by
the commands before it. `InputInv` says that, as long as no byte was taken for another
(`crossed`), the answers that wait in the output buffer, keys typed meanwhile aside,
with those one device still has to give are exactly the ones that the next reads are for
(`Expects`, `Owed`): none from a device that is not there or does not answer. `Comes`
says so at each of the driver's steps, before a read, after it and between talks; `Facts`
says what has been decided by then, of the configuration byte (`ControllerIs`), of the
keyboard (`KeyboardIs`), and of the mouse, whose mode follows the knocks it was sent
(`MouseIs`). A read that takes a key for an answer, or gives up while an answer is
owed, sets `crossed`, and the property promises nothing from then on: the code may then
miss a mouse or take its packets for shorter ones, as its hazard says.

**The pin.** That the gate is on the right pad says nothing while there is no
gate. `LineSeen` is what makes it inductive: as long as no sample was raced, the
line has been seen at one level under reports and at the other without, and
each class that was counted left its mark. So with enough samples of both the
line is among the survivors (`LineSurvives`), and an only survivor can be no
other (`OnlyTheLineSettles`).

**Only model-checked.** Liveness and fairness (`BringUpEnds`,
`WindowComesBack`, `LossesAreAnnounced`, `DamageIsHealed`,
`CursorStopsWandering`, `ReportsAreServed`, `ChangesReachTheScreen`), which the
prover does not treat; and the jobs that `MCMachine` adds (`TablesAreAnswered`,
`MachineIsDescribed`, `ReportsMeanTheSame`, `NothingOverlaps`). The AML reader is
recursive over the data it reads, and what a recursive definition computes on
every input would need induction over data, which is out of the prover's reach;
so would the parser of report descriptors, whose reference reads a descriptor as
a whole. Nothing in principle keeps the others from being proved (section 9).
Operators declared RECURSIVE appear in `Aml` and `MCMachine` only; no module
with a theorem reaches one.

## 7. Where code and documents disagree

Shown by a run (details and quotes in `findings` of `PROJECT.json`):

- `xhci_ports`: a device without a HID interface on an earlier port makes the
  keyboard behind it be missed, because the index of the failed device is used
  again with a ring that still holds its entries.
- `i2c_stuck`: the wait the code calls bounded returns at once while there is
  room in the transmit queue, so a device that holds the clock is waited for
  for ever.
- `boot_stop`: a panic after the back buffer is attached draws its screen in
  memory and never copies it to the screen.

Visible in the models, without a run of their own. Each was met while a
definition was translated; the properties leave out the case by a named
condition where they would otherwise fail.

*Words, stopwatch, chronometer, desktop.*
- `get_checked`'s doc says it "never hands back a value the code says is wrong"
  (`redundancy.rs:407`); without a majority it returns the damaged primary
  beside `Unrecoverable`.
- `freeze`'s comment about damage that would be "baked in" (`stopwatch.rs:226-227`)
  holds for what can be repaired; a total beyond repair is folded and recoded.
- A program that restarts its interval more often than once a second is never
  given the once-a-second check (`context.rs:267`); `with_backend` ignores a
  calibration that fails and keeps a rate of 1 (`context.rs:73`).
- The window's `Recalibrate` computes a rate that its own readings do not use
  (`main.rs:398`).

*Input.*
- `read_data` (`input.rs:1057`) never looks at the controller's "from the
  auxiliary port" bit: a key typed during the talk with the mouse (left shift's
  release is `0xAA`, "reset done") or a slow device's late answer is taken for
  another's. A mouse can be missed, or be taken for one of 3-byte packets while
  it sends 4.
- Without an 8042 every status read is `0xFF`, which looks like a byte waiting
  (`input.rs:633-646`), so USB and I2C are not polled although "both are polled
  every frame". `found` says there is no PS/2 keyboard when a USB one is there
  too; `source` calls a USB keyboard beside a touchpad "ps/2 keyboard".
- A USB device whose role PS/2 fills is "enumerated but not read"
  (`input.rs:449-451`); `poll` reads it whenever USB is up for the other role.
- A key whose set 1 code is `0x70` (kana) has the release `0xF0`, which sets the
  inference to set 2 for good (`input.rs:670`).
- Of several changes in one report one becomes an event and the others never do
  (`input.rs:942`), where the comment speaks of what "has left" a report.
  `KeysArriveAsTyped` is stated for reports that change one key (`rushed`).
- A report buffer may be written while it is copied (`xhci.rs:288-289`) if the
  controller runs the control entries left on the ring.
- A strike is counted for every audit that finds a report, also one the pin
  announced (`i2c_hid.rs:528`, doc `491-492`): a finger that stays down over
  three audits drops a right gate for good. A report that comes between a sample
  and its read rules the right pad out for good, which the comment calls a race
  the gate "does not need" to win (`226-228`).

*Touchpad probe and bus.*
- `gpio.rs` `open` (303-317) leaves out communities that are silent, while
  `resolve` indexes by the table: the pads of those behind are another's.
- `open_gate` looks for the GPIO controller in the DSDT only, and
  `controller_address` first in the DSDT instead of "the table the device was
  found in"; a DSDT that names the controller without `_ADR` is reported as "in
  no acpi table" (838-857). `find_device_nth` subtracts below zero for a device
  listed in two tables (781). A scan accepts any I2C-HID device.
- A device that takes longer than 250 ms to reset (its specification allows 5 s)
  is reported as "report descriptor unreadable". Zeros read while the queue is
  empty pass for the end of the reset.
- The bus timing left by firmware is read before the controller is woken; bytes
  of an abandoned transfer stay in its queue.

*Interface and layout.*
- With three columns a card has room for 10 rows; the input panel with an I2C
  touchpad has 12, the last two of which are drawn into the legend
  (`gui_x86_64.rs:262-276`, `1817-1949`). On 640x480 the rows are not cut to the
  shortened cards. The readout's sample "as wide as any" is a digit short from
  100 hours on. A text cut inside a character is shown as `?`.
- The session card of the timer says "running" under a readout that says
  "elapsed": expiry asks for no repaint, which `SessionCardIsCurrent` leaves
  out. A countdown paused between its deadline and the next frame shows zero
  without having expired (538). The pointer acts on the level of its button
  (1042). `power_off` paints its notice beneath the pointer (1090-1111).
- `wait_for_choice` (`panic_screen.rs:130-135`) takes any byte of the port for a
  key.

*Boot, clock, counters, hypervisor.*
- "Asked for exactly once" (BM `hypervisor.rs:44`): `detect` runs in the self
  test and again in `Machine::probe` (`gui_x86_64.rs:386`). On a bare Arm machine
  with a 1 GHz counter the question is a trap nobody handles.
- `Phase::Input` is never entered; clock, counters and the second question to
  the hypervisor run under the caption of a phase that is done (`progress.rs`).
- The timer the clock's rate is measured by is read late if its start is late:
  the rate is too low (BM `clock.rs`).
- A version 1 unit has no global control register, which `pmu.rs:531` writes.
  `pmu_leaf.rs:124` subtracts counters at 64 bits whatever their width.
- `cpu_before` is read before the thread is pinned (`clock.rs:552`); a route over
  perf's cycles is calibrated over a sleep, in which no cycle is counted; `best`
  may name `rdtscp` on a 32-bit x86 without it.
- `read_overhead_cycles` (`x86.rs:458-462`) runs RDTSCP without asking
  `has_rdtscp`, where `x86.rs:161-171` and `227-231` say that it faults on a
  processor without it and `backend.rs:8-9` that nothing runs what CPUID did not
  confirm.
- perf's scaling (`perf.rs:315-323`) takes the clock of the time an event waited
  to be that of the time it ran. Where the core's clock changes meanwhile a total may
  be less than the cycles the thread had run, and less than the total before; a thread
  that moved between two kinds of core is counted double, because both events are
  scaled to all of its time. `perf.rs:31-33` calls the sum "the thread's true cycle
  count across migrations". `CyclesAreCounted` says by how much it can be off.
- A kernel module's report that says nothing of a hypervisor confirms bare metal
  (`hypervisor.rs:825`, doc `190-198`); an Arm counter at 1 GHz is reported as
  emulation. A backend the code does not recognise is called "detected"
  (`dispatch.rs:294`); SME without SVE is offered (`cpu.rs:315-329`).

*Tables and descriptors.*
- `multiboot.rs:176-188` adds the coarse memory to that of the map;
  `_S5` is looked for in the 32-bit DSDT only, without its sum, and missed at its
  very end or past the first MiB of a table that `dsdt()` reads whole; a damaged root has no fallback; fields of the FADT are read beyond
  the length that was checked.
- AML: an extended statement never reaches `skip_statement`; the member search
  goes out of step at an opcode it does not know (1105); a method's arguments are
  looked up in its own table only (1434); `^` is dropped; a statement before
  `_HID` hides it; recursion is bounded only by the budget.
- `hid_report.rs:324-326` says that a descriptor with more report ids than
  `MAX_REPORTS` "is parsed up to the limit rather than refused": `slot_for` gives
  `None` for the next id (535) and the `?` of its caller (420) refuses the whole
  descriptor, the pointer already found in it included. `complete` never
  asks whether movement is relative; the product of size and count is not checked.

*Network and kernel crypto.*
- A late reply to an earlier address is taken for the present one's
  (`ntp.rs:179`), a refused one ends the query, and the era ends in 2036 (264).
- Short writes and the count of `sendmsg` are not looked at
  (`kcrypto.rs:381`, `478`); a benchmark's loop ends where its comment says it
  goes on (`nanochrono-bench` `lib.rs:830-835`).

## 8. Not modelled

`components` in `PROJECT.json` lists every part with its status. Not modelled:

- *Formatting, statistics and probes*: functions over `f64` and text.
- *Ring 3 counters of another kernel*: single instructions without state.
- *Drawing of text and widgets*: glyphs, shapes and styles. Where widgets are is
  `ScreenLayout`; what reaches the screen is `Canvas`.
- *Assembly entry and loader header*: set-up of modes and stacks, straight on.
- *C interface and wrappers*: each function checks its pointers and forwards to
  the core; the one shared state is a map from names to strings behind a mutex.
- *Command line and crypto library*: sequential programs whose results are
  measurements.
- *Kernel modules*: built by other tools, against interfaces of two kernels. The
  report they render is an input of `HypervisorEvidence`. Reading them along, two
  things are worth a maintainer's look: the Linux one renders its report anew for
  every piece that is read (`nanochrono.rs:183-210`), so that pieces may not fit
  together; the Windows one's `device_control` and `create_close` set a status
  without completing the request (`160-197`).

What the modelled parts abstract is said at the head of each module. In general:
values of measurements, layout of text, which bits of a register select what,
and what an instruction computes. External things - the controller and its
devices, the 8042 and its devices, the counter, the network, the host, the
kernel's crypto, the tables of a firmware - are modelled by what the code relies
on and does with them, and marked external in `map` where they are definitions
of their own.

## 9. How it grows

In the order of their worth:

1. Proofs of the jobs of `MCMachine` that only read fixed structures or talk to
   a device: `NothingOverlaps`, `MachineIsDescribed` (of it the pad first). Each would move
   to `Machine` or `Display` with an assumption on its `Inputs`, as the others did.
2. With the repair of `xhci_ports`, `FirstOfEachKindIsKept` joins the passing run,
   and `OthersComeLast` is no longer needed.
3. The kernel modules: a reader that reads in pieces beside a report that is
   rendered anew.
4. The C interface: lifetimes of handles and the map of strings.

A job of `Machine` costs no run of its own: a new part of this kind needs a
module, its inputs in `MCMachine` and a conjunct of the property it belongs to.
