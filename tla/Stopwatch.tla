------------------------------ MODULE Stopwatch ------------------------------
(***************************************************************************)
(* nanochrono-core/src/stopwatch.rs: the four-state stopwatch whose total, *)
(* live-segment origin and laps are protected words, together with the     *)
(* calibrated counter rate of the Chronometer every caller passes it.      *)
(*                                                                         *)
(* Upsets hit the stored words at any moment.  The stopwatch checks its    *)
(* words at every transition that folds or records a duration, and on      *)
(* every tick of the GUI (Verify); the rate is read with a plain load and  *)
(* checked on that tick only (VerifyCalibration).                          *)
(***************************************************************************)
EXTENDS ProtectedWord, CounterTime, Sequences

CONSTANTS
  Exposed,        \* bound: which of the stored words upsets reach
  MaxFlips,       \* bound: flipped bits outstanding in each copy
  UpsetBudget,    \* bound: flipped bits outstanding in all words
  MaxLaps         \* bound: laps recorded

Stored == {"accumulated", "start", "laps", "hz"}

ASSUME StopwatchAssumption ==
  /\ Exposed \subseteq Stored
  /\ MaxFlips \in [Copies -> 0 .. 2]
  /\ UpsetBudget \in Nat
  /\ MaxLaps \in Nat
  /\ IsFiniteSet(CopyBits)

\* Flipping bits of a 64-bit value gives a 64-bit value; flipping none, itself.
ASSUME UpsetAssumption ==
  \A v \in Times :
    /\ Upset(v, {}) = v
    /\ \A S \in SUBSET ValueBits : Upset(v, S) \in Times

VARIABLES
  state,          \* enum StopwatchState
  accumulated,    \* accumulated_ns: total of all completed segments
  start,          \* start_units: no word, or the origin of the live segment
  laps,           \* one word for each recorded lap
  lastIntegrity,  \* last_integrity: what the last scrub found
  hz,             \* Chronometer.counter_hz
  reported,       \* the process-wide counters that are not zero
  ticks           \* time passed

words == <<accumulated, start, laps, hz>>
vars  == <<state, words, lastIntegrity, reported, ticks>>

States == {"Reset", "Running", "Paused", "Stopped"}

Counter == CounterAfter(ticks)

-----------------------------------------------------------------------------
(* Checking the words.                                                     *)

\* The worst tier of the words of a sequence: Integrity::max over a loop.
Worst(ws) ==
  CHOOSE worst \in {Integrity(ws[i]) : i \in DOMAIN ws} :
    \A i \in DOMAIN ws : Worse(worst, Integrity(ws[i])) = worst

\* A loop of verify over a sequence of words.
ScrubbedAll(ws) == [i \in DOMAIN ws |-> Scrubbed(ws[i])]

\* The words Stopwatch::verify and Stopwatch::integrity go through.
AllWords == <<accumulated>> \o start \o laps

\* record(): every check that does not find a clean word is counted.
Record(ws) ==
  reported' = reported \cup ({Integrity(ws[i]) : i \in DOMAIN ws} \ {"Clean"})

\* The mistake of a scrub nobody counts.
UncountedScrub == lastIntegrity' = Worst(AllWords) /\ UNCHANGED reported

\* Stopwatch::verify, less what it does to the words.
Scrub == Record(AllWords) /\ lastIntegrity' = Worst(AllWords)

-----------------------------------------------------------------------------
(* Durations.                                                              *)

\* Chronometer::units_to_ns divides by the rate as a plain load finds it.
Live(origin) == UnitsToNs(WrappingSub(Counter, origin), Get(hz))

\* Stopwatch::elapsed_ns
ElapsedNs ==
  IF start = <<>>
    THEN Checked(accumulated)
    ELSE SaturatingAdd(Checked(accumulated), Live(Checked(start[1])))

\* The mistake of reading the words before they are scrubbed.
FoldedUnscrubbed ==
  IF start = <<>>
    THEN Scrubbed(accumulated)
    ELSE Fresh(SaturatingAdd(Get(accumulated), Live(Get(start[1]))))

\* The total freeze computes from the words its scrub has left.
Folded ==
  IF start = <<>>
    THEN Scrubbed(accumulated)
    ELSE Fresh(SaturatingAdd(Get(Scrubbed(accumulated)),
                             Live(Get(Scrubbed(start[1])))))

-----------------------------------------------------------------------------

Init ==
  /\ state = "Reset"
  /\ accumulated = Fresh(0)
  /\ start = <<>>
  /\ laps = <<>>
  /\ lastIntegrity = "Clean"
  /\ hz = Fresh(TrueHz)
  /\ reported = {}
  /\ ticks = 0

Tick ==
  /\ ticks < MaxTicks
  /\ ticks' = ticks + 1
  /\ UNCHANGED <<state, words, lastIntegrity, reported>>

\* Allowed in every state: a running stopwatch starts over.
Start ==
  /\ state' = "Running"
  /\ accumulated' = Fresh(0)
  /\ laps' = <<>>
  /\ lastIntegrity' = "Clean"
  /\ start' = <<Fresh(Counter)>>
  /\ UNCHANGED <<hz, reported, ticks>>

Resume ==
  /\ state # "Running"
  /\ Scrub
  /\ accumulated' = Scrubbed(accumulated)
  /\ laps' = ScrubbedAll(laps)
  /\ start' = <<Fresh(Counter)>>
  /\ state' = "Running"
  /\ UNCHANGED <<hz, ticks>>

\* The mistake of leaving the origin of a finished segment.
FreezeKeepingOrigin ==
  /\ Scrub
  /\ accumulated' = Folded
  /\ laps' = ScrubbedAll(laps)
  /\ start' = ScrubbedAll(start)

\* Scrubs every word, then folds the live segment into the total.
Freeze ==
  /\ Scrub
  /\ accumulated' = Folded
  /\ laps' = ScrubbedAll(laps)
  /\ start' = <<>>

Pause ==
  /\ state = "Running"
  /\ Freeze
  /\ state' = "Paused"
  /\ UNCHANGED <<hz, ticks>>

Stop ==
  /\ \/ state = "Running" /\ Freeze
     \/ state # "Running"
        /\ UNCHANGED <<accumulated, start, laps, lastIntegrity, reported>>
  /\ state' = "Stopped"
  /\ UNCHANGED <<hz, ticks>>

Reset ==
  /\ state' = "Reset"
  /\ accumulated' = Fresh(0)
  /\ start' = <<>>
  /\ laps' = <<>>
  /\ lastIntegrity' = "Clean"
  /\ UNCHANGED <<hz, reported, ticks>>

\* The scrub comes first, so elapsed_ns checks words that are already
\* repaired; what it finds beyond repair it counts again.
Lap ==
  /\ Len(laps) < MaxLaps
  /\ Scrub
  /\ accumulated' = Scrubbed(accumulated)
  /\ start' = ScrubbedAll(start)
  /\ laps' = Append(ScrubbedAll(laps), Fresh(ElapsedNs))
  /\ UNCHANGED <<state, hz, ticks>>

\* The space bar: one of the above, chosen by the state.
PrimaryAction ==
  \/ state = "Reset" /\ Start
  \/ state = "Running" /\ Pause
  \/ state \in {"Paused", "Stopped"} /\ Resume

Verify ==
  /\ Scrub
  /\ accumulated' = Scrubbed(accumulated)
  /\ start' = ScrubbedAll(start)
  /\ laps' = ScrubbedAll(laps)
  /\ UNCHANGED <<state, hz, ticks>>

\* elapsed_ns, integrity() and laps() take a shared borrow: a read counts what
\* it finds and changes nothing else.
ReadElapsed ==
  /\ Record(<<accumulated>> \o start)
  /\ UNCHANGED <<state, words, lastIntegrity, ticks>>

Poll ==
  /\ Record(AllWords)
  /\ UNCHANGED <<state, words, lastIntegrity, ticks>>

\* Chronometer::verify_calibration
VerifyCalibration ==
  /\ Record(<<hz>>)
  /\ hz' = Scrubbed(hz)
  /\ UNCHANGED <<state, accumulated, start, laps, lastIntegrity, ticks>>

\* Bit b of copy c may flip, within the bound on outstanding damage.
Room(w, c, b) == Cardinality(Toggle(w.flipped[c], b)) <= MaxFlips[c]

\* The sequence with one of its words hit.
Struck(ws, c, b) ==
  {[ws EXCEPT ![i] = FlipBit(@, c, b)] : i \in {j \in DOMAIN ws : Room(ws[j], c, b)}}

\* Flipped bits outstanding: a word, a copy and a bit of it.
Outstanding ==
  LET all == AllWords \o <<hz>>
  IN  {p \in (DOMAIN all) \X Copies \X CopyBits : p[3] \in all[p[1]].flipped[p[2]]}

UpsetWord(c, b) ==
  /\ \/ /\ "accumulated" \in Exposed
        /\ Room(accumulated, c, b)
        /\ accumulated' = FlipBit(accumulated, c, b)
        /\ UNCHANGED <<start, laps, hz>>
     \/ /\ "start" \in Exposed
        /\ start' \in Struck(start, c, b)
        /\ UNCHANGED <<accumulated, laps, hz>>
     \/ /\ "laps" \in Exposed
        /\ laps' \in Struck(laps, c, b)
        /\ UNCHANGED <<accumulated, start, hz>>
     \/ /\ "hz" \in Exposed
        /\ Room(hz, c, b)
        /\ hz' = FlipBit(hz, c, b)
        /\ UNCHANGED <<accumulated, start, laps>>
  /\ Cardinality(Outstanding') <= UpsetBudget
  /\ UNCHANGED <<state, lastIntegrity, reported, ticks>>

Next ==
  \/ Tick \/ Start \/ Resume \/ Pause \/ Stop \/ Reset \/ Lap \/ PrimaryAction
  \/ Verify \/ ReadElapsed \/ Poll \/ VerifyCalibration
  \/ \E c \in Copies, b \in CopyBits : UpsetWord(c, b)

Spec == Init /\ [][Next]_vars

-----------------------------------------------------------------------------
(* Properties.                                                             *)

Words == [stored : Times, flipped : [Copies -> SUBSET CopyBits]]

\* Every duration and origin is a 64-bit word in three copies, each within
\* the bound on its damage.
TypeOK ==
  /\ state \in States
  /\ accumulated \in Words /\ hz \in Words
  /\ start \in Seq(Words) /\ laps \in Seq(Words)
  /\ Len(start) <= 1
  /\ lastIntegrity \in Tiers
  /\ reported \subseteq Tiers \ {"Clean"}
  /\ ticks \in 0 .. MaxTicks

\* The accumulated total and the live segment cannot both hold the same time:
\* there is an origin exactly while the stopwatch runs (the module's comment
\* on what the C program got wrong).
OriginOnlyWhileRunning == state = "Running" <=> start # <<>>

\* Transparency: as long as every word can be recovered and the rate is not
\* hit, reads and transitions are those of a stopwatch in memory that never
\* fails, whatever upsets fall between them (elapsed_ns: "the returned
\* duration is correct even if the storage behind it has been damaged").
Ideal == INSTANCE IdealStopwatch WITH
  total <- Checked(accumulated),
  start <- IF start = <<>> THEN -1 ELSE Checked(start[1]),
  laps  <- [i \in DOMAIN laps |-> Checked(laps[i])]

KeepsTime == Ideal!Spec
=============================================================================
