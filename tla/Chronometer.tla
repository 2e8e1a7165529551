----------------------------- MODULE Chronometer -----------------------------
(***************************************************************************)
(* nanochrono-core/src/context.rs: the counter rate and the interval       *)
(* origin as protected words, the once-a-second checkpoint that verifies   *)
(* them inside elapsed_units, the drift window, and calibration.           *)
(*                                                                         *)
(* A step of time is one nanosecond, in which the counter advances by      *)
(* Rate.  A handler reads the counter and the monotonic clock one after    *)
(* the other and can be preempted between the two: `gap` is the time it    *)
(* then loses.  Upsets hit the two words at any moment between handlers.   *)
(***************************************************************************)
EXTENDS ProtectedWord, CounterTime

CONSTANTS
  Rate,             \* counter units per nanosecond; the counter is invariant
  DeclaredHz,       \* arch::declared_counter_hz(): no rate, or one
  CalibrationNs,    \* window calibrate measures over
  MaxGap,           \* bound: nanoseconds lost between two reads of a handler
  MaxSpin,          \* bound: nanoseconds asked of spin_ns
  HzFlips,          \* bound: flipped bits outstanding in each copy of the rate
  StartFlips        \* bound: the same for the interval origin

ASSUME ChronometerAssumption ==
  /\ Rate \in Nat \ {0}
  /\ TrueHz = Rate * NanosPerSecond
  /\ DeclaredHz \subseteq {TrueHz}
  /\ CalibrationNs \in Nat \ {0}
  /\ MaxGap \in 0 .. CalibrationNs - 1
  /\ MaxSpin \in Nat
  /\ HzFlips \in [Copies -> 0 .. 2]
  /\ StartFlips \in [Copies -> 0 .. 2]
  /\ IsFiniteSet(CopyBits)

\* What Upset is: no flips change nothing, and a word keeps its width.
ASSUME UpsetAssumption ==
  \A v \in Times :
    /\ Upset(v, {}) = v
    /\ \A S \in SUBSET ValueBits : Upset(v, S) \in Times

VARIABLES
  hz,             \* counter_hz
  start,          \* start_units
  window,         \* window_units and window_ns, the drift window's origin
  drift,          \* drift_ppm: the rate last measured and the one it is held to
  lastIntegrity,  \* last_integrity
  reported,       \* the process-wide counters that are not zero
  now,            \* nanoseconds passed
  origin,         \* history: when start_units was read
  verifiedAt,     \* history: when the rate was last verified or set
  rebased,        \* history: start or reset moved the window since then
  outcome         \* history: what the call just made returned

words   == <<hz, start>>
history == <<origin, verifiedAt, rebased, outcome>>
vars    == <<words, window, drift, lastIntegrity, reported, now, history>>

CounterAt(t) == CounterAfter(t * Rate)

NoDrift   == [instant |-> 0, hz |-> 0]
NoOutcome == [by |-> "none"]

Record(tiers) == reported' = reported \cup (tiers \ {"Clean"})

\* Chronometer::ns_to_units
NsToUnits(ns) == ((ns * Get(hz)) \div NanosPerSecond) % Limit

-----------------------------------------------------------------------------
(* Calibration.  `lead` passes between the first reads of the clock and of *)
(* the counter, `spun` until the counter is read again, `tail` until the   *)
(* clock is.                                                               *)

Spans == [lead : 0 .. MaxGap, tail : 0 .. MaxGap,
          spun : CalibrationNs .. CalibrationNs + MaxGap]

\* The mistake of reading the clock before the counter at the end.
HzOfLateCounterRead(s) == (Rate * (s.spun + s.tail - s.lead) * NanosPerSecond) \div s.spun

MeasuredHz(s) == (Rate * (s.spun - s.lead) * NanosPerSecond) \div (s.spun + s.tail)

AtLeastOne(n) == IF n = 0 THEN 1 ELSE n

\* The rates calibrate can leave and the time each takes.
Calibrations ==
  IF DeclaredHz # {}
    THEN {[hz |-> h, took |-> 0] : h \in DeclaredHz}
    ELSE {[hz |-> AtLeastOne(MeasuredHz(s)), took |-> s.spun + s.tail] : s \in Spans}

-----------------------------------------------------------------------------

\* with_backend: calibrate, then reset.
Init ==
  \E c \in Calibrations :
    /\ hz = Fresh(c.hz)
    /\ start = Fresh(CounterAt(0))
    /\ window = [units |-> CounterAt(0), ns |-> 0]
    /\ drift = NoDrift
    /\ lastIntegrity = "Clean"
    /\ reported = {}
    /\ now = 0 /\ origin = 0 /\ verifiedAt = 0
    /\ rebased = FALSE
    /\ outcome = NoOutcome

Tick ==
  /\ now < MaxTicks
  /\ now' = now + 1
  /\ outcome' = NoOutcome
  /\ UNCHANGED <<words, window, drift, lastIntegrity, reported,
                 origin, verifiedAt, rebased>>

Calibrate ==
  \E c \in Calibrations :
    /\ now + c.took <= MaxTicks
    /\ now' = now + c.took
    /\ hz' = Fresh(c.hz)
    /\ verifiedAt' = now'
    /\ rebased' = FALSE
    /\ outcome' = NoOutcome
    /\ UNCHANGED <<start, window, drift, lastIntegrity, reported, origin>>

\* The mistake of moving the window in time only.
WindowKeepingUnits(read, at) == [units |-> window.units, ns |-> at]

\* The drift window's two origins, the clock read at `at` after the counter.
WindowFrom(read, at) == [units |-> CounterAt(read), ns |-> at]

\* What start and reset share.
Rebase(gap) ==
  /\ now + gap <= MaxTicks
  /\ now' = now + gap
  /\ start' = Fresh(CounterAt(now))
  /\ window' = WindowFrom(now, now')
  /\ origin' = now
  /\ rebased' = TRUE
  /\ outcome' = NoOutcome
  /\ UNCHANGED <<hz, lastIntegrity, reported, verifiedAt>>

Reset(gap) == Rebase(gap) /\ drift' = NoDrift

Start(gap) == Rebase(gap) /\ UNCHANGED drift

\* The mistake of an exclusive bound.
OverdueAt(at) == at - window.ns > NanosPerSecond

\* The drift window is a second old: time for a checkpoint.
DueAt(at) == at - window.ns >= NanosPerSecond

\* elapsed_units and elapsed_ns.  The checkpoint verifies both words before
\* they are used; between checkpoints the rate is a plain load.
Poll(gap) ==
  /\ now + gap <= MaxTicks
  /\ now' = now + gap
  /\ LET due  == DueAt(now')
         rate == IF due THEN Scrubbed(hz) ELSE hz
         from == IF due THEN Scrubbed(start) ELSE start
         units == WrappingSub(CounterAt(now), Checked(from))
         instant == ((WrappingSub(CounterAt(now), window.units) * NanosPerSecond)
                       \div (now' - window.ns)) % Limit
     IN  /\ hz' = rate /\ start' = from
         /\ outcome' = [by |-> "elapsed", units |-> units,
                        ns |-> UnitsToNs(units, Get(rate))]
         /\ \/ /\ due
               /\ lastIntegrity' = Worse(Integrity(hz), Integrity(start))
               /\ Record({Integrity(hz), Integrity(start)})
               /\ window' = WindowFrom(now, now')
               /\ drift' = IF instant # 0 /\ Get(rate) # 0
                             THEN [instant |-> instant, hz |-> Get(rate)] ELSE drift
               /\ verifiedAt' = now'
               /\ rebased' = FALSE
            \/ /\ ~due
               /\ Record({Integrity(start)})
               /\ UNCHANGED <<lastIntegrity, window, drift, verifiedAt, rebased>>
         /\ UNCHANGED origin

VerifyCalibration ==
  /\ hz' = Scrubbed(hz)
  /\ lastIntegrity' = Integrity(hz)
  /\ Record({Integrity(hz)})
  /\ verifiedAt' = now
  /\ rebased' = FALSE
  /\ outcome' = NoOutcome
  /\ UNCHANGED <<start, window, drift, now, origin>>

\* The mistake of leaving the loop one unit early.
ShortOf(at, target) == CounterAt(at) + 1 < target

Below(at, target) == CounterAt(at) < target

\* spin_ns leaves its loop at a read of the counter that is not below the
\* target; the reads are at most MaxGap + 1 nanoseconds apart.
SpinNs(ns, gap, waited) ==
  LET target == (CounterAt(now) + NsToUnits(ns)) % Limit
  IN  /\ now + waited <= MaxTicks
      /\ ~Below(now + waited, target)
      /\ \/ waited = 0
         \/ \E last \in 0 .. waited - 1 :
              Below(now + last, target) /\ waited - last <= gap + 1
      /\ now' = now + waited
      /\ outcome' = [by |-> "spin_ns", asked |-> NsToUnits(ns), waited |-> waited * Rate,
                     wraps |-> CounterAt(now) + NsToUnits(ns) >= Limit]
      /\ UNCHANGED <<words, window, drift, lastIntegrity, reported,
                     origin, verifiedAt, rebased>>

Room(w, c, b, bound) == Cardinality(Toggle(w.flipped[c], b)) <= bound[c]

\* inject_calibration_flip, or an upset.
UpsetWord(c, b) ==
  /\ \/ /\ Room(hz, c, b, HzFlips)
        /\ hz' = FlipBit(hz, c, b)
        /\ UNCHANGED start
     \/ /\ Room(start, c, b, StartFlips)
        /\ start' = FlipBit(start, c, b)
        /\ UNCHANGED hz
  /\ outcome' = NoOutcome
  /\ UNCHANGED <<window, drift, lastIntegrity, reported, now,
                 origin, verifiedAt, rebased>>

Next ==
  \/ Tick \/ Calibrate \/ VerifyCalibration
  \/ \E gap \in 0 .. MaxGap : Reset(gap) \/ Start(gap) \/ Poll(gap)
  \/ \E ns \in 1 .. MaxSpin, gap \in 0 .. MaxGap, waited \in 0 .. MaxTicks :
       SpinNs(ns, gap, waited)
  \/ \E c \in Copies, b \in CopyBits : UpsetWord(c, b)

Spec == Init /\ [][Next]_vars

-----------------------------------------------------------------------------
(* Properties.                                                             *)

Words == [stored : Times, flipped : [Copies -> SUBSET CopyBits]]

\* Rate, origin and drift are 64-bit numbers; a report is a known tier.
TypeOK ==
  /\ hz \in Words /\ start \in Words
  /\ hz.stored # 0
  /\ window \in [units : Times, ns : 0 .. now]
  /\ drift \in [instant : Times, hz : Times]
  /\ lastIntegrity \in Tiers
  /\ reported \subseteq Tiers \ {"Clean"}
  /\ now \in 0 .. MaxTicks /\ origin \in 0 .. now /\ verifiedAt \in 0 .. now

\* However the clock and the counter reads of a calibration are spread out by
\* preemption, the rate it leaves is never too high, and too low by no more
\* than the share of the window that was lost.
CalibrationIsNeverFast ==
  /\ hz.stored <= TrueHz
  /\ (hz.stored + 1) * (CalibrationNs + MaxGap) > TrueHz * (CalibrationNs - MaxGap)

\* An elapsed count that is not the units since the last start or reset goes
\* with a counted unrecoverable word (elapsed_units reads through the code).
ElapsedIsTrueOrCounted ==
  outcome.by = "elapsed" =>
    \/ "Unrecoverable" \in reported
    \/ \E gap \in 0 .. MaxGap :
         outcome.units = ((now - gap - origin) * Rate) % Limit

\* While elapsed time is polled and the interval is not restarted, no reading
\* divides by a rate left unverified for a second ("verified at the
\* once-a-second checkpoint").
PolledRateIsFresh ==
  outcome.by = "elapsed" /\ ~rebased => now - verifiedAt < NanosPerSecond

\* The rate a reading divides by is well formed, measured well enough, and
\* checked of late.
RateIsSound == TypeOK /\ CalibrationIsNeverFast /\ PolledRateIsFresh

\* A drift larger than preemption explains is the fault of the rate it is held
\* against ("a large magnitude means the calibration has gone stale"): the
\* window's two origins are always taken together, so that the rate measured
\* over it is the counter's own but for what preemption took, in a whole second.
DriftBlamesTheRate ==
  drift # NoDrift =>
    drift.instant \in TrueHz - Rate * MaxGap .. TrueHz + Rate * MaxGap

\* "Busy-waits for `ns` nanoseconds" (spin_ns): a spin whose target lies below
\* the wrap of the counter lasts at least the units it asked for, at whatever
\* rate and however the loop is preempted; one whose target wraps may not.
SpinBelowTheWrapIsLongEnough ==
  outcome.by = "spin_ns" /\ ~outcome.wraps => outcome.waited >= outcome.asked

-----------------------------------------------------------------------------

\* The instance the run checks: one bit of a value and one of its check byte.

FlipTwo(v, S) == IF S = {} THEN v ELSE IF (v \div 2) % 2 = 1 THEN v - 2 ELSE v + 2

NoRate      == {}
OneValueBit == {1}
OneCodeBit  == {5}

Single    == [c \in Copies |-> IF c = "primary" THEN 1 ELSE 0]
Excessive == [c \in Copies |-> IF c = "replica1" THEN 0 ELSE 2]
=============================================================================
