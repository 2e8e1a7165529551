---------------------------- MODULE StopwatchTruth ----------------------------
(***************************************************************************)
(* The stopwatch beside the time it ought to show.  History variables      *)
(* count the counter units that passed while the stopwatch ran and the     *)
(* segments they came in, each of which loses less than a nanosecond to    *)
(* rounding; a reading is right when it lies between the two bounds that   *)
(* leaves.                                                                 *)
(***************************************************************************)
EXTENDS Stopwatch, FiniteSetsExt

CONSTANT MaxFolds    \* bound: segments completed in a run

ASSUME MaxFoldsAssumption == MaxFolds \in Nat

VARIABLES
  ran,            \* counter units spent running since the last start or reset
  folds,          \* segments completed since then
  lapTimes        \* ran and folds when each lap was taken

truthVars == <<ran, folds, lapTimes>>

TruthInit == Init /\ ran = 0 /\ folds = 0 /\ lapTimes = <<>>

Passing ==
  /\ Tick
  /\ ran' = IF state = "Running" THEN ran + 1 ELSE ran
  /\ UNCHANGED <<folds, lapTimes>>

StartingOver ==
  /\ Start \/ Reset
  /\ ran' = 0 /\ folds' = 0 /\ lapTimes' = <<>>

Freezing ==
  /\ folds < MaxFolds
  /\ state = "Running"
  /\ Pause \/ Stop
  /\ folds' = folds + 1
  /\ UNCHANGED <<ran, lapTimes>>

Lapping ==
  /\ Lap
  /\ lapTimes' = Append(lapTimes, [ran |-> ran, segments |-> folds + Len(start)])
  /\ UNCHANGED <<ran, folds>>

Aside ==
  /\ \/ Resume \/ (state # "Running" /\ Stop) \/ Verify \/ ReadElapsed
     \/ VerifyCalibration
     \/ \E c \in Copies, b \in CopyBits : UpsetWord(c, b)
  /\ UNCHANGED truthVars

TruthNext == Passing \/ StartingOver \/ Freezing \/ Lapping \/ Aside

TruthSpec == TruthInit /\ [][TruthNext]_<<vars, truthVars>>

-----------------------------------------------------------------------------

\* ns is the duration of `units` units measured in `segments` segments.
Right(ns, units, segments) ==
  /\ ns * TrueHz <= units * NanosPerSecond
  /\ ns * TrueHz >= units * NanosPerSecond - segments * (TrueHz - 1)

ReadingIsRight == Right(ElapsedNs, ran, folds + Len(start))

LapIsRight(i) == Right(Checked(laps[i]), lapTimes[i].ran, lapTimes[i].segments)

TiersOf(ws) == {Integrity(ws[i]) : i \in DOMAIN ws}

\* A wrong reading never goes out unannounced: a reading or a lap that is not
\* the time the stopwatch ran, damaged now or built on a total that was, has
\* had an unrecoverable word counted, at the latest by that very read (README,
\* "detectable rather than silent").  Time is neither lost nor counted twice.
WrongReadingIsCounted ==
  /\ ReadingIsRight \/ "Unrecoverable" \in reported \cup TiersOf(<<accumulated>> \o start)
  /\ \A i \in DOMAIN laps :
       LapIsRight(i) \/ "Unrecoverable" \in reported \cup {Integrity(laps[i])}

-----------------------------------------------------------------------------

\* The instance the run checks.

\* Exclusive or of a number with the bits S.
XorBits(v, S) ==
  FoldSet(LAMBDA b, sum : IF (v \div 2^b) % 2 = 1 THEN sum - 2^b ELSE sum + 2^b, v, S)

OneValueBit == {1}
OneCodeBit  == {3}

RunWords  == {"accumulated", "start"}

\* Two flips in the primary and one replica: the least that is beyond repair.
Excessive == [c \in Copies |-> IF c = "replica1" THEN 0 ELSE 2]
=============================================================================
