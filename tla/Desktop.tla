------------------------------- MODULE Desktop -------------------------------
(***************************************************************************)
(* nanochrono-gui/src/main.rs: NanoChrono::update, one message at a time,  *)
(* with the benchmarks, NTP queries and calibrations that run off the UI   *)
(* thread and post their results as messages, in any order.                *)
(*                                                                         *)
(* The window owns a Chronometer and a Stopwatch.  What update tells apart *)
(* of them is the condition of their words, so here a word's value is      *)
(* always 0 and the stopwatch's words are its total; Stopwatch.tla has     *)
(* the rest.  What only selects a panel, a face or a format is left out.   *)
(***************************************************************************)
EXTENDS ProtectedWord, Sequences

CONSTANTS
  Modes,           \* enum BenchMode
  Kernels,         \* BenchKernel: the rows of all modes
  RowsFor(_),      \* BenchKernel::rows_for: the rows of a mode, in order
  Available,       \* kernels this processor can run
  Virtualized,     \* hypervisor::cached().is_virtualized()
  Damages,         \* bound: sets of bits that may be flipped in a copy
  UpsetBudget,     \* bound: flipped bits outstanding
  MaxCalibrations  \* bound: calibrations in flight

ASSUME DesktopAssumption ==
  /\ \A m \in Modes : RowsFor(m) \in Seq(Kernels)
  /\ Available \subseteq Kernels
  /\ Virtualized \in BOOLEAN
  /\ Damages \subseteq SUBSET CopyBits
  /\ UpsetBudget \in Nat /\ MaxCalibrations \in Nat \ {0}

VARIABLES
  hz,             \* chrono.counter_hz
  total,          \* stopwatch.accumulated_ns
  state,          \* stopwatch.state
  notice,         \* "told" for any answer to what the user did
  benchMode, benchSelected, benchRunning, benchReport,
  ntpInFlight,
  \* tasks that have not posted their result
  benches, queries, calibrations

words == <<hz, total, state>>
bench == <<benchMode, benchSelected, benchRunning, benchReport, benches>>
ntp   == <<ntpInFlight, queries>>
windowVars == <<words, notice, bench, ntp, calibrations>>

None   == 0
Nobody == [mode |-> "none", row |-> 0]

Run(mode, row) == [mode |-> mode, row |-> row]

\* The rows there are, of whatever mode is chosen.
Rows == UNION {DOMAIN RowsFor(m) : m \in Modes}

WindowInit ==
  /\ hz = Fresh(0) /\ total = Fresh(0) /\ state = "Reset"
  /\ notice = IF Virtualized THEN "advice" ELSE ""
  /\ benchMode \in Modes
  /\ benchSelected = None /\ benchRunning = FALSE /\ benchReport = Nobody
  /\ ntpInFlight = FALSE
  /\ benches = <<>> /\ queries = 0
  /\ calibrations = 1

-----------------------------------------------------------------------------
(* The tick.                                                               *)

IsUsable(tier)    == tier # "Unrecoverable"
WasRepaired(tier) == tier \in Repairs

\* The mistake of not replacing what stands there.
NoticeIfEmpty(calibration, stopwatch) ==
  IF notice # "" THEN notice
  ELSE IF ~IsUsable(calibration) THEN "calibration unrecoverable"
  ELSE IF ~IsUsable(stopwatch) THEN "stopwatch unrecoverable"
  ELSE IF WasRepaired(stopwatch) THEN "stopwatch repaired"
  ELSE IF WasRepaired(calibration) THEN "calibration repaired"
  ELSE notice

\* What the tick has to say, the worst first, or what was there.
NoticeOfTick(calibration, stopwatch) ==
  IF ~IsUsable(calibration) THEN "calibration unrecoverable"
  ELSE IF ~IsUsable(stopwatch) THEN "stopwatch unrecoverable"
  ELSE IF WasRepaired(stopwatch) THEN "stopwatch repaired"
  ELSE IF WasRepaired(calibration) THEN "calibration repaired"
  ELSE notice

Tick ==
  /\ hz' = Scrubbed(hz)
  /\ total' = Scrubbed(total)
  /\ notice' = NoticeOfTick(Integrity(hz), Integrity(total))
  /\ UNCHANGED <<state, bench, ntp, calibrations>>

-----------------------------------------------------------------------------
(* Benchmarks.                                                             *)

\* The mistake of keeping the selection across modes.
SelectBenchModeOnly(mode) ==
  /\ benchMode' = mode
  /\ UNCHANGED <<words, notice, benchSelected, benchRunning, benchReport, benches, ntp,
                 calibrations>>

SelectBenchMode(mode) ==
  /\ benchMode' = mode
  /\ benchSelected' = None
  /\ UNCHANGED <<words, notice, benchRunning, benchReport, benches, ntp, calibrations>>

\* A click may have been made on rows a SelectBenchMode has since replaced.
RunBench(row) ==
  /\ ~benchRunning
  /\ row \in DOMAIN RowsFor(benchMode)
  /\ IF RowsFor(benchMode)[row] \in Available
       THEN /\ benchSelected' = row
            /\ benchRunning' = TRUE
            /\ benches' = Append(benches, Run(benchMode, row))
       ELSE UNCHANGED <<benchSelected, benchRunning, benches>>
  /\ notice' = "told"
  /\ UNCHANGED <<words, benchMode, benchReport, ntp, calibrations>>

Without(seq, i) ==
  [j \in 1 .. Len(seq) - 1 |-> IF j < i THEN seq[j] ELSE seq[j + 1]]

\* The mistake of a failed run that leaves the rows inert.
BenchFinishedUnlessFailed ==
  \E i \in DOMAIN benches, ok \in BOOLEAN :
    /\ benches' = Without(benches, i)
    /\ benchRunning' = ~ok
    /\ benchReport' = benches[i]
    /\ notice' = "told"
    /\ UNCHANGED <<words, benchMode, benchSelected, ntp, calibrations>>

\* A run ends with a report, of its failure if need be.
BenchFinished ==
  \E i \in DOMAIN benches :
    /\ benches' = Without(benches, i)
    /\ benchRunning' = FALSE
    /\ benchReport' = benches[i]
    /\ notice' = "told"
    /\ UNCHANGED <<words, benchMode, benchSelected, ntp, calibrations>>

SaveLog ==
  /\ notice' = "told"
  /\ UNCHANGED <<words, bench, ntp, calibrations>>

-----------------------------------------------------------------------------
(* NTP and calibration.                                                    *)

\* The mistake of a second query beside the first.
QueryNtpAgain ==
  /\ queries < 3
  /\ ntpInFlight' = TRUE
  /\ queries' = queries + 1
  /\ UNCHANGED <<words, notice, bench, calibrations>>

QueryNtp ==
  /\ ~ntpInFlight
  /\ ntpInFlight' = TRUE
  /\ queries' = queries + 1
  /\ UNCHANGED <<words, notice, bench, calibrations>>

NtpFinished ==
  /\ queries > 0
  /\ queries' = queries - 1
  /\ ntpInFlight' = FALSE
  /\ UNCHANGED <<words, notice, bench, calibrations>>

\* Nothing keeps a second calibration from starting beside the first.
Recalibrate ==
  /\ calibrations < MaxCalibrations
  /\ calibrations' = calibrations + 1
  /\ notice' = "told"
  /\ UNCHANGED <<words, bench, ntp>>

\* The task has measured with a Chronometer of its own; what it found replaces
\* the panel's figures, which nothing computes with.
CalibrationFinished ==
  /\ calibrations > 0
  /\ calibrations' = calibrations - 1
  /\ notice' \in {"", "told"}
  /\ UNCHANGED <<words, bench, ntp>>

-----------------------------------------------------------------------------
(* The stopwatch.                                                          *)

\* What freeze leaves in the total: a sum written afresh, or a scrubbed word.
Frozen == IF state = "Running" THEN Fresh(0) ELSE Scrubbed(total)

StopwatchToggle ==
  /\ \/ state = "Reset" /\ state' = "Running" /\ total' = Fresh(0)
     \/ state = "Running" /\ state' = "Paused" /\ total' = Frozen
     \/ state \in {"Paused", "Stopped"} /\ state' = "Running" /\ total' = Scrubbed(total)
  /\ UNCHANGED <<hz, notice, bench, ntp, calibrations>>

StopwatchStop ==
  /\ state' = "Stopped"
  /\ total' = IF state = "Running" THEN Frozen ELSE total
  /\ UNCHANGED <<hz, notice, bench, ntp, calibrations>>

StopwatchReset ==
  /\ state' = "Reset" /\ total' = Fresh(0)
  /\ UNCHANGED <<hz, notice, bench, ntp, calibrations>>

StopwatchLap ==
  /\ total' = Scrubbed(total)
  /\ notice' = "told"
  /\ UNCHANGED <<hz, state, bench, ntp, calibrations>>

Flips(w) == {u \in Copies \X CopyBits : u[2] \in w.flipped[u[1]]}

\* The second replica is spared: a word is beyond repair without it.
Hit(w) ==
  {u \in {FlipBit(w, c, b) : c \in Copies \ {"replica1"}, b \in CopyBits} :
     \A c \in Copies : u.flipped[c] \in Damages}

UpsetWord ==
  /\ \/ hz' \in Hit(hz) /\ UNCHANGED total
     \/ total' \in Hit(total) /\ UNCHANGED hz
  /\ Cardinality(Flips(hz')) + Cardinality(Flips(total')) <= UpsetBudget
  /\ UNCHANGED <<state, notice, bench, ntp, calibrations>>

User ==
  \/ \E m \in Modes : SelectBenchMode(m)
  \/ \E row \in Rows : RunBench(row)
  \/ SaveLog \/ QueryNtp \/ Recalibrate
  \/ StopwatchToggle \/ StopwatchStop \/ StopwatchReset \/ StopwatchLap

Background == Tick \/ BenchFinished \/ NtpFinished \/ CalibrationFinished

WindowNext ==
  \/ User \/ Background \/ UpsetWord

WindowSpec == WindowInit /\ [][WindowNext]_windowVars

\* The tick comes every FRAME_INTERVAL, and every task ends: a kernel has its
\* number of passes, a query its timeout, a calibration its window.
LiveSpec ==
  /\ WindowSpec
  /\ WF_windowVars(Tick)
  /\ WF_windowVars(BenchFinished) /\ WF_windowVars(NtpFinished)
  /\ WF_windowVars(CalibrationFinished)

-----------------------------------------------------------------------------
(* Properties.                                                             *)

Alarms == {"calibration unrecoverable", "stopwatch unrecoverable",
           "stopwatch repaired", "calibration repaired"}

Notices == Alarms \cup {"", "advice", "told"}

Runs == [mode : Modes, row : Rows]

\* What the window shows is one of the things it can show; the selected row
\* is one of the mode shown.
TypeOK ==
  /\ notice \in Notices
  /\ benchMode \in Modes /\ benchSelected \in {None} \cup DOMAIN RowsFor(benchMode)
  /\ benchReport \in {Nobody} \cup Runs
  /\ benches \in Seq(Runs)
  /\ calibrations \in 0 .. MaxCalibrations

\* The flags that keep the buttons inert say what is in flight, and there is
\* one of each at most: results of two runs never race for the log.
FlagsMatchTasks ==
  /\ Len(benches)  = IF benchRunning THEN 1 ELSE 0
  /\ queries = IF ntpInFlight THEN 1 ELSE 0

\* Whatever is clicked while a run is out, once none is the row drawn as
\* selected is the one the log beside it is about.
LogIsOfSelectedRow ==
  ~benchRunning /\ benchSelected # None => benchReport = Run(benchMode, benchSelected)

\* What the window says of its tasks is so while they run and once they are done.
WindowMatchesTasks == TypeOK /\ FlagsMatchTasks /\ LogIsOfSelectedRow

\* A run or a query that was started ends as far as the window is concerned:
\* the rows and the button come back, if it failed too.
WindowComesBack ==
  /\ benchRunning ~> ~benchRunning
  /\ ntpInFlight ~> ~ntpInFlight

\* A rate beyond repair gets into the notice, whatever else there is to say,
\* unless upsets undo each other first; a lost total does unless it is
\* overwritten first or the rate is lost too (Message::Tick).
LossesAreAnnounced ==
  /\ ~IsUsable(Integrity(hz))
       ~> notice = "calibration unrecoverable" \/ IsUsable(Integrity(hz))
  /\ ~IsUsable(Integrity(total))
       ~> \/ notice \in {"stopwatch unrecoverable", "calibration unrecoverable"}
          \/ IsUsable(Integrity(total))

\* Damage that can be repaired does not stay ("nothing else would look at it
\* until someone pressed resume"): a tick repairs it, an action of the user
\* overwrites it, or more upsets put it beyond repair.
DamageIsHealed ==
  /\ Integrity(total) \in Repairs ~> Integrity(total) \notin Repairs
  /\ Integrity(hz) \in Repairs ~> Integrity(hz) \notin Repairs

-----------------------------------------------------------------------------

\* The instance the run checks: two modes, of which the second has a row this
\* processor cannot run.

TwoModes    == {"isa", "crypto"}
SomeKernels == {"scalar", "avx512", "aes"}

SomeRows(mode) == IF mode = "isa" THEN <<"scalar">> ELSE <<"avx512", "aes">>

NoWidth(v, S) == v

OneValueBit == {0}
OneCodeBit  == {1}

\* How many bits of a copy are flipped is what counts.
OneByOne == {{}, {0}, {0, 1}}
=============================================================================
