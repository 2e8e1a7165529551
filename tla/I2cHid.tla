------------------------------- MODULE I2cHid -------------------------------
(***************************************************************************)
(* nanochrono-baremetal/src/i2c_hid.rs and gpio.rs: I2cHid::poll, which    *)
(* reads the bus only when a GPIO pin says that a report waits, and the    *)
(* calibration that finds the pin by correlation.                          *)
(*                                                                         *)
(* The device keeps its line at ActiveLevel while a report waits.  Other   *)
(* watched pads move as they like.  A report may come between the sample   *)
(* of the pins and the read of the bus.                                    *)
(***************************************************************************)
EXTENDS Integers, FiniteSets

CONSTANTS
  Pads,           \* pads that are watched, or that a table may name
  Wire,           \* the pad the device's line is on, watched or not
  ActiveLevel,    \* that line's level while a report waits
  Needed,         \* NEEDED: samples of each class
  AuditEvery,     \* AUDIT_EVERY
  GateStrikes,    \* GATE_STRIKES
  GiveUpAfter     \* GIVE_UP_AFTER

ASSUME I2cHidAssumption ==
  /\ IsFiniteSet(Pads)
  /\ ActiveLevel \in BOOLEAN
  /\ {Needed, AuditEvery, GateStrikes, GiveUpAfter} \subseteq Nat \ {0}

VARIABLES
  levels,     \* of the pads, the line's own aside
  gate,       \* I2cHid.gate
  seen,       \* Calibration.seen: by pad, pairs of report found and level
  found,      \* Calibration.reports and quiet, up to Needed each
  strikes,    \* strikes of a gate
  polls,      \* polls, of which only the audit's turn matters
  failures,   \* failures
  raced       \* history: a report came between a sample and its read

pad == <<levels, gate, seen, found, strikes, polls, failures, raced>>

Blind    == [state |-> "blind"]
Learning == [state |-> "learning"]
Gated(p, asserted, mapping) ==
  [state |-> "gated", pad |-> p, asserted |-> asserted, mapping |-> mapping]

NothingSeen == [p \in Pads |-> {}]
NoneFound   == [had \in BOOLEAN |-> 0]

\* open_gate: no controller, a pad from a table taken for active low, or
\* begin_calibration.
OpenGates ==
  {Blind} \cup {Gated(p, FALSE, "tabled") : p \in Pads}
          \cup (IF Pads = {} THEN {} ELSE {Learning})

PadInit(opened) ==
  /\ gate = opened
  /\ levels \in [Pads -> {FALSE}]
  /\ seen = NothingSeen /\ found = NoneFound
  /\ strikes = 0 /\ polls = 0 /\ failures = 0
  /\ raced = FALSE

\* Controller::level
Level(p, waiting) ==
  IF p = Wire THEN (IF waiting THEN ActiveLevel ELSE ~ActiveLevel) ELSE levels[p]

\* A pad that is not the device's moves, which a blind gate does not see.
Drift(p) ==
  /\ p # Wire /\ gate # Blind
  /\ levels' = [levels EXCEPT ![p] = ~@]
  /\ UNCHANGED <<gate, seen, found, strikes, polls, failures, raced>>

-----------------------------------------------------------------------------
(* I2cHid::poll.                                                           *)

Count(n, bound) == IF n < bound THEN n + 1 ELSE n

Audit == (polls + 1) % AuditEvery = 0

Counted == polls' = (polls + 1) % AuditEvery

\* Calibration::observe
Observed(waiting, had) ==
  [p \in Pads |-> seen[p] \cup {<<had, Level(p, waiting)>>}]

\* A pad that took one level under every report and the other under none.
Survivors(sightings) ==
  {s \in Pads \X BOOLEAN : sightings[s[1]] = {<<TRUE, s[2]>>, <<FALSE, ~s[2]>>}}

\* The mistake of taking the first survivor.
FirstSurvivor(sightings, counts) ==
  IF \A had \in BOOLEAN : counts[had] >= Needed THEN Survivors(sightings) ELSE {}

\* Calibration::settled: the answer, if there is one and only one.
Settled(sightings, counts) ==
  IF /\ \A had \in BOOLEAN : counts[had] >= Needed
     /\ Cardinality(Survivors(sightings)) = 1
    THEN Survivors(sightings) ELSE {}

Learn(waiting, had) ==
  LET sightings == Observed(waiting, had)
      counts    == [found EXCEPT ![had] = Count(@, Needed)]
  IN  /\ raced' = (raced \/ had # waiting)
      /\ UNCHANGED strikes
      /\ \/ \E s \in Settled(sightings, counts) :
              /\ gate' = Gated(s[1], s[2], "calibrated")
              /\ seen' = NothingSeen /\ found' = NoneFound
         \/ /\ Settled(sightings, counts) = {}
            /\ seen' = sightings /\ found' = counts
            /\ UNCHANGED gate

\* A strike is any report an audit finds, announced or not.
Struck(had) == IF ~Audit THEN strikes ELSE IF had THEN strikes + 1 ELSE 0

JudgeGated(had) ==
  /\ \/ /\ Struck(had) >= GateStrikes
        /\ gate' = Blind /\ strikes' = 0
     \/ /\ Struck(had) < GateStrikes
        /\ strikes' = Struck(had) /\ UNCHANGED gate
  /\ UNCHANGED <<seen, found, raced>>

\* judge
Judge(waiting, had) ==
  \/ gate = Blind /\ UNCHANGED <<gate, seen, found, strikes, raced>>
  \/ gate = Learning /\ Learn(waiting, had)
  \/ gate.state = "gated" /\ JudgeGated(had)

\* The pin says that nothing waits, and this is no audit.
Skips(waiting) ==
  gate.state = "gated" /\ ~Audit /\ Level(gate.pad, waiting) # gate.asserted

Abandoned == failures >= GiveUpAfter

\* poll with a report waiting when the pins are sampled, or not; `had` says
\* whether a report was read.
PollPad(waiting, had) ==
  /\ UNCHANGED levels
  /\ \/ /\ Abandoned /\ ~had
        /\ UNCHANGED <<gate, seen, found, strikes, polls, failures, raced>>
     \/ /\ ~Abandoned /\ Skips(waiting) /\ ~had
        /\ Counted
        /\ UNCHANGED <<gate, seen, found, strikes, failures, raced>>
     \/ /\ ~Abandoned /\ ~Skips(waiting) /\ ~had    \* the transfer fails
        /\ Counted
        /\ failures' = failures + 1
        /\ UNCHANGED <<gate, seen, found, strikes, raced>>
     \/ /\ ~Abandoned /\ ~Skips(waiting) /\ (waiting => had)
        /\ Counted
        /\ failures' = 0
        /\ Judge(waiting, had)

-----------------------------------------------------------------------------
(* Properties.                                                             *)

PadTypeOK ==
  /\ gate \in {Blind, Learning} \cup
       {Gated(p, a, m) : p \in Pads, a \in BOOLEAN, m \in {"tabled", "calibrated"}}
  /\ \A p \in Pads : seen[p] \subseteq BOOLEAN \X BOOLEAN
  /\ \A had \in BOOLEAN : found[had] \in 0 .. Needed
  /\ strikes < GateStrikes
  /\ polls < AuditEvery
  /\ failures <= GiveUpAfter

\* "accepted only when exactly one candidate survives" (Calibration): however
\* other pads move, a watched line is the one the gate closes on, with its
\* polarity, unless a report slipped in between a sample and its read.
CalibrationFindsTheWire ==
  gate.state = "gated" /\ gate.mapping = "calibrated" /\ Wire \in Pads /\ ~raced
    => gate.pad = Wire /\ gate.asserted = ActiveLevel
=============================================================================
