---------------------------- MODULE IdealStopwatch ----------------------------
(***************************************************************************)
(* The stopwatch of nanochrono-core/src/stopwatch.rs with memory that      *)
(* never fails: what a user of the four-state machine is promised.         *)
(* Stopwatch.tla, with its protected words and the upsets that hit them,   *)
(* implements it.                                                          *)
(***************************************************************************)
EXTENDS CounterTime, Sequences

CONSTANT MaxLaps    \* bound: laps recorded

VARIABLES
  state,      \* enum StopwatchState
  total,      \* nanoseconds of all completed segments
  start,      \* counter value the live segment began at, or NotRunning
  laps,       \* elapsed time at each recorded lap
  ticks       \* time passed

vars == <<state, total, start, laps, ticks>>

NotRunning == -1

Counter == CounterAfter(ticks)

Live == UnitsToNs(WrappingSub(Counter, start), TrueHz)

Elapsed == IF start = NotRunning THEN total ELSE SaturatingAdd(total, Live)

Init ==
  /\ state = "Reset"
  /\ total = 0
  /\ start = NotRunning
  /\ laps = <<>>
  /\ ticks = 0

Tick ==
  /\ ticks < MaxTicks
  /\ ticks' = ticks + 1
  /\ UNCHANGED <<state, total, start, laps>>

Start ==
  /\ state' = "Running"
  /\ total' = 0
  /\ start' = Counter
  /\ laps' = <<>>
  /\ UNCHANGED ticks

Resume ==
  /\ state # "Running"
  /\ state' = "Running"
  /\ start' = Counter
  /\ UNCHANGED <<total, laps, ticks>>

\* Folds the live segment into the total, if there is one.
Freeze ==
  /\ total' = Elapsed
  /\ start' = NotRunning
  /\ UNCHANGED <<laps, ticks>>

Pause == state = "Running" /\ Freeze /\ state' = "Paused"

Stop == Freeze /\ state' = "Stopped"

Reset ==
  /\ state' = "Reset"
  /\ total' = 0
  /\ start' = NotRunning
  /\ laps' = <<>>
  /\ UNCHANGED ticks

Lap ==
  /\ Len(laps) < MaxLaps
  /\ laps' = Append(laps, Elapsed)
  /\ UNCHANGED <<state, total, start, ticks>>

Next == Tick \/ Start \/ Resume \/ Pause \/ Stop \/ Reset \/ Lap

Spec == Init /\ [][Next]_vars
=============================================================================
