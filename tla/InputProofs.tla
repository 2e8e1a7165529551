----------------------------- MODULE InputProofs -----------------------------
(***************************************************************************)
(* The calibration of the pin gate, for any number of pads, any device and *)
(* any thresholds: what it closes on is the device's line.                 *)
(*                                                                         *)
(* And what arrives of the keys, for any number of keys and devices.  Of   *)
(* the 8042 the bytes on the wire spell the keystrokes still to come; of a *)
(* HID keyboard what the driver knows, what was reported and what is held  *)
(* differ by them.                                                         *)
(***************************************************************************)
EXTENDS Input, FiniteSetTheorems, TLAPS

\* The level of the line under a poll that found a report, or none.
LineLevel(had) == (had = ActiveLevel)

Gates == {Blind, Learning} \cup
         {Gated(p, a, m) : p \in Pads, a \in BOOLEAN, m \in {"tabled", "calibrated"}}

PadTypes ==
  /\ gate \in Gates
  /\ seen \in [Pads -> SUBSET (BOOLEAN \X BOOLEAN)]
  /\ found \in [BOOLEAN -> Nat]
  /\ raced \in BOOLEAN
  /\ levels \in [Pads -> BOOLEAN]

\* What has been seen of the line while learning: its level under what was
\* found, each class that was found, and nothing else.
LineSeen ==
  gate = Learning /\ ~raced /\ Wire \in Pads =>
    \A had \in BOOLEAN :
      /\ \A h \in BOOLEAN : <<had, h>> \in seen[Wire] => h = LineLevel(had)
      /\ found[had] > 0 => <<had, LineLevel(had)>> \in seen[Wire]

IInv == PadTypes /\ LineSeen /\ CalibrationFindsTheWire

-----------------------------------------------------------------------------

\* A gate is one thing or the other.
LEMMA GateShapes ==
  /\ Blind # Learning
  /\ \A p, a, m : /\ Gated(p, a, m) # Blind /\ Gated(p, a, m) # Learning
                  /\ Gated(p, a, m).state = "gated" /\ Gated(p, a, m).pad = p
                  /\ Gated(p, a, m).asserted = a /\ Gated(p, a, m).mapping = m
  /\ Blind.state = "blind" /\ Learning.state = "learning"
BY DEF Blind, Learning, Gated

\* The level sampled is the line's under what the poll then finds, if no
\* report slips in between.
LEMMA SampledLevel ==
  ASSUME NEW had \in BOOLEAN
  PROVE  Level(Wire, had) = LineLevel(had)
BY I2cHidAssumption DEF Level, LineLevel

\* A level is high or low.
LEMMA LevelType ==
  ASSUME PadTypes, NEW p \in Pads, NEW waiting \in BOOLEAN
  PROVE  Level(p, waiting) \in BOOLEAN
BY I2cHidAssumption DEF Level, PadTypes

\* What a sample leaves seen has its shape.
LEMMA ObservedTypes ==
  ASSUME PadTypes, NEW waiting \in BOOLEAN, NEW had \in BOOLEAN
  PROVE  Observed(waiting, had) \in [Pads -> SUBSET (BOOLEAN \X BOOLEAN)]
<1>1. \A p \in Pads : seen[p] \cup {<<had, Level(p, waiting)>>} \in SUBSET (BOOLEAN \X BOOLEAN)
  <2> TAKE p \in Pads
  <2>1. seen[p] \in SUBSET (BOOLEAN \X BOOLEAN)  BY DEF PadTypes
  <2>2. Level(p, waiting) \in BOOLEAN  BY LevelType
  <2>3. <<had, Level(p, waiting)>> \in BOOLEAN \X BOOLEAN  BY <2>2
  <2> QED  BY <2>1, <2>3
<1> QED  BY <1>1 DEF Observed

\* What one more sample leaves of LineSeen's two halves.
LEMMA LearningSeesTheLine ==
  ASSUME PadTypes, LineSeen, gate = Learning, ~raced, Wire \in Pads,
         NEW had \in BOOLEAN,
         NEW counts, counts = [found EXCEPT ![had] = Count(@, Needed)],
         NEW sightings, sightings = Observed(had, had)
  PROVE  \A was \in BOOLEAN :
           /\ \A h \in BOOLEAN : <<was, h>> \in sightings[Wire] => h = LineLevel(was)
           /\ counts[was] > 0 => <<was, LineLevel(was)>> \in sightings[Wire]
<1>1. sightings[Wire] = seen[Wire] \cup {<<had, LineLevel(had)>>}
  BY SampledLevel DEF Observed
<1>2. TAKE was \in BOOLEAN
<1>3. \A h \in BOOLEAN : <<was, h>> \in sightings[Wire] => h = LineLevel(was)
  BY <1>1 DEF LineSeen
<1>4. counts[was] > 0 => <<was, LineLevel(was)>> \in sightings[Wire]
  <2>1. CASE was = had
    BY <1>1, <2>1
  <2>2. CASE was # had
    <3>1. counts[was] = found[was]  BY <2>2 DEF PadTypes
    <3> QED  BY <1>1, <3>1 DEF LineSeen
  <2> QED  BY <2>1, <2>2
<1> QED  BY <1>3, <1>4

\* Enough samples of either class leave the line a survivor.
LEMMA LineSurvives ==
  ASSUME NEW sightings \in [Pads -> SUBSET (BOOLEAN \X BOOLEAN)], Wire \in Pads,
         \A was \in BOOLEAN :
           /\ \A h \in BOOLEAN : <<was, h>> \in sightings[Wire] => h = LineLevel(was)
           /\ <<was, LineLevel(was)>> \in sightings[Wire]
  PROVE  <<Wire, ActiveLevel>> \in Survivors(sightings)
<1>1. LineLevel(TRUE) = ActiveLevel /\ LineLevel(FALSE) = ~ActiveLevel
  BY I2cHidAssumption DEF LineLevel
<1>2. sightings[Wire] \in SUBSET (BOOLEAN \X BOOLEAN)  OBVIOUS
<1>3. sightings[Wire] \subseteq {<<TRUE, ActiveLevel>>, <<FALSE, ~ActiveLevel>>}
  <2>1. SUFFICES ASSUME NEW pair \in sightings[Wire]
                 PROVE  pair \in {<<TRUE, ActiveLevel>>, <<FALSE, ~ActiveLevel>>}
    OBVIOUS
  <2>2. pair \in BOOLEAN \X BOOLEAN  BY <1>2, <2>1
  <2>3. PICK was \in BOOLEAN, h \in BOOLEAN : pair = <<was, h>>  BY <2>2
  <2>4. h = LineLevel(was)  BY <2>1, <2>3
  <2>5. CASE was = TRUE
    BY <1>1, <2>3, <2>4, <2>5
  <2>6. CASE was = FALSE
    BY <1>1, <2>3, <2>4, <2>6
  <2> QED  BY <2>5, <2>6
<1>4. {<<TRUE, ActiveLevel>>, <<FALSE, ~ActiveLevel>>} \subseteq sightings[Wire]
  BY <1>1
<1>5. sightings[Wire] = {<<TRUE, ActiveLevel>>, <<FALSE, ~ActiveLevel>>}
  BY <1>3, <1>4
<1> QED  BY <1>5, I2cHidAssumption DEF Survivors

-----------------------------------------------------------------------------
(* The steps.                                                              *)

\* A step that leaves the pads alone.
LEMMA UnchangedKeeps ==
  ASSUME IInv, UNCHANGED pad
  PROVE  IInv'
BY DEF IInv, PadTypes, LineSeen, CalibrationFindsTheWire, pad

\* Another pad moves.
LEMMA DriftKeeps ==
  ASSUME IInv, NEW p \in Pads, Drift(p)
  PROVE  IInv'
<1>1. UNCHANGED <<gate, seen, found, raced>>  BY DEF Drift
<1>2. levels' \in [Pads -> BOOLEAN]  BY DEF Drift, IInv, PadTypes
<1>3. PadTypes'  BY <1>1, <1>2 DEF IInv, PadTypes
<1>4. LineSeen' /\ CalibrationFindsTheWire'
  BY <1>1 DEF IInv, LineSeen, CalibrationFindsTheWire
<1> QED  BY <1>3, <1>4 DEF IInv

\* There are as many candidates as pads and levels at most.
LEMMA SurvivorsAreFinite ==
  ASSUME NEW sightings
  PROVE  IsFiniteSet(Survivors(sightings))
<1>1. IsFiniteSet(BOOLEAN)
  <2>1. IsFiniteSet({TRUE})  BY FS_Singleton
  <2>2. IsFiniteSet({TRUE} \cup {FALSE})  BY <2>1, FS_AddElement
  <2>3. {TRUE} \cup {FALSE} = BOOLEAN  OBVIOUS
  <2> QED  BY <2>2, <2>3
<1>2. IsFiniteSet(Pads \X BOOLEAN)
  BY <1>1, I2cHidAssumption, FS_Product
<1> QED  BY <1>2, FS_Subset DEF Survivors

\* The only survivor is the line.
LEMMA OnlyTheLineSettles ==
  ASSUME NEW sightings, NEW counts, NEW s \in Settled(sightings, counts),
         <<Wire, ActiveLevel>> \in Survivors(sightings)
  PROVE  s = <<Wire, ActiveLevel>>
<1>1. s \in Survivors(sightings) /\ Cardinality(Survivors(sightings)) = 1
  BY DEF Settled
<1>2. PICK x : Survivors(sightings) = {x}
  BY <1>1, SurvivorsAreFinite, FS_Singleton
<1> QED  BY <1>1, <1>2

\* A sample filed while learning, and the gate it may close.
LEMMA LearnKeeps ==
  ASSUME IInv, NEW waiting \in BOOLEAN, NEW had \in BOOLEAN,
         gate = Learning, Learn(waiting, had), UNCHANGED levels
  PROVE  IInv'
<1> DEFINE sightings == Observed(waiting, had)
           counts    == [found EXCEPT ![had] = Count(@, Needed)]
<1>1. PadTypes /\ LineSeen  BY DEF IInv
<1>2. sightings \in [Pads -> SUBSET (BOOLEAN \X BOOLEAN)]  BY <1>1, ObservedTypes
<1>3. counts \in [BOOLEAN -> Nat]
  BY <1>1, I2cHidAssumption DEF PadTypes, Count
<1>4. raced' = (raced \/ had # waiting) /\ raced' \in BOOLEAN
  BY <1>1 DEF Learn, PadTypes
<1>5. ASSUME ~raced', Wire \in Pads
      PROVE  \A was \in BOOLEAN :
               /\ \A h \in BOOLEAN : <<was, h>> \in sightings[Wire] => h = LineLevel(was)
               /\ counts[was] > 0 => <<was, LineLevel(was)>> \in sightings[Wire]
  <2>1. ~raced /\ had = waiting  BY <1>1, <1>4, <1>5 DEF PadTypes
  <2>2. sightings = Observed(had, had)  BY <2>1
  <2> HIDE DEF sightings, counts
  <2>3. counts = [found EXCEPT ![had] = Count(@, Needed)]  BY DEF counts
  <2> QED  BY <1>1, <1>5, <2>1, <2>2, <2>3, LearningSeesTheLine
<1>6. ASSUME NEW s \in Settled(sightings, counts),
             gate' = Gated(s[1], s[2], "calibrated"),
             seen' = NothingSeen, found' = NoneFound
      PROVE  IInv'
  <2>1. s \in Pads \X BOOLEAN  BY <1>6 DEF Settled, Survivors
  <2>2. gate' \in Gates  BY <1>6, <2>1 DEF Gates
  <2>3. seen' \in [Pads -> SUBSET (BOOLEAN \X BOOLEAN)] /\ found' \in [BOOLEAN -> Nat]
    BY <1>6 DEF NothingSeen, NoneFound
  <2>4. PadTypes'  BY <1>1, <1>4, <2>2, <2>3 DEF PadTypes
  <2>5. gate' # Learning  BY <1>6, GateShapes
  <2>6. ASSUME ~raced', Wire \in Pads  PROVE s = <<Wire, ActiveLevel>>
    <3>1. \A was \in BOOLEAN : counts[was] > 0
      BY <1>3, <1>6, I2cHidAssumption DEF Settled
    <3>2. <<Wire, ActiveLevel>> \in Survivors(sightings)
      <4> HIDE DEF sightings, counts
      <4> QED  BY <1>2, <1>5, <2>6, <3>1, LineSurvives
    <3> HIDE DEF sightings, counts
    <3> QED  BY <1>6, <3>2, OnlyTheLineSettles
  <2>7. CalibrationFindsTheWire'
    BY <1>6, <2>6, GateShapes DEF CalibrationFindsTheWire
  <2> QED  BY <2>4, <2>5, <2>7 DEF IInv, LineSeen
<1>7. ASSUME seen' = sightings, found' = counts, gate' = gate
      PROVE  IInv'
  <2>1. PadTypes'  BY <1>1, <1>2, <1>3, <1>4, <1>7 DEF PadTypes
  <2>2. LineSeen'  BY <1>5, <1>7 DEF LineSeen
  <2>3. CalibrationFindsTheWire'  BY <1>7, GateShapes DEF CalibrationFindsTheWire
  <2> QED  BY <2>1, <2>2, <2>3 DEF IInv
<1> QED  BY <1>6, <1>7 DEF Learn

\* Once closed, a gate stays as it is or is dropped.
LEMMA JudgeGatedKeeps ==
  ASSUME IInv, NEW had \in BOOLEAN, gate.state = "gated", JudgeGated(had), UNCHANGED levels
  PROVE  IInv'
<1>1. gate # Learning  BY GateShapes
<1>2. UNCHANGED <<seen, found, raced>>  BY DEF JudgeGated
<1>3. gate' = Blind \/ gate' = gate  BY DEF JudgeGated
<1>4. PadTypes'  BY <1>2, <1>3 DEF IInv, PadTypes, Gates
<1>5. gate' # Learning  BY <1>1, <1>3, GateShapes
<1>6. CalibrationFindsTheWire'
  BY <1>2, <1>3, GateShapes DEF IInv, CalibrationFindsTheWire
<1> QED  BY <1>4, <1>5, <1>6 DEF IInv, LineSeen

\* A poll of the device, whatever becomes of it.
LEMMA PollPadKeeps ==
  ASSUME IInv, NEW waiting \in BOOLEAN, NEW had \in BOOLEAN, PollPad(waiting, had)
  PROVE  IInv'
<1>1. UNCHANGED levels  BY DEF PollPad
<1>2. CASE UNCHANGED <<gate, seen, found, raced>>
  BY <1>1, <1>2 DEF IInv, PadTypes, LineSeen, CalibrationFindsTheWire
<1>3. CASE Judge(waiting, had)
  <2>1. CASE gate = Blind /\ UNCHANGED <<gate, seen, found, strikes, raced>>
    BY <1>2, <2>1
  <2>2. CASE gate = Learning /\ Learn(waiting, had)
    BY <1>1, <2>2, LearnKeeps
  <2>3. CASE gate.state = "gated" /\ JudgeGated(had)
    BY <1>1, <2>3, JudgeGatedKeeps
  <2> QED  BY <1>3, <2>1, <2>2, <2>3 DEF Judge
<1> QED  BY <1>2, <1>3 DEF PollPad

-----------------------------------------------------------------------------
(* The theorems.                                                           *)

\* The gate as it is opened: nothing is calibrated yet.
LEMMA InitHolds == Init => IInv
<1> SUFFICES ASSUME Init PROVE IInv  OBVIOUS
<1>1. machine.gate \in OpenGates /\ PadInit(machine.gate)
  BY InputAssumption DEF Init
<1>2. \/ gate = Blind \/ gate = Learning
      \/ \E p \in Pads, a \in BOOLEAN : gate = Gated(p, a, "tabled")
  <2>1. gate \in OpenGates  BY <1>1 DEF PadInit
  <2>2. ASSUME NEW p \in Pads, gate = Gated(p, FALSE, "tabled")
        PROVE  \E a \in BOOLEAN : gate = Gated(p, a, "tabled")
    <3>1. WITNESS FALSE \in BOOLEAN
    <3> QED  BY <2>2
  <2> QED  BY <2>1, <2>2 DEF OpenGates
<1>3. PadTypes
  <2>1. gate \in Gates  BY <1>2 DEF Gates
  <2> QED  BY <1>1, <2>1 DEF PadInit, PadTypes, NothingSeen, NoneFound
<1>4. LineSeen
  <2>1. seen = NothingSeen /\ found = NoneFound  BY <1>1 DEF PadInit
  <2>2. \A had \in BOOLEAN : ~(found[had] > 0)  BY <2>1 DEF NoneFound
  <2>3. Wire \in Pads => seen[Wire] = {}  BY <2>1 DEF NothingSeen
  <2> QED  BY <2>2, <2>3 DEF LineSeen
<1>5. gate.state = "gated" => gate.mapping = "tabled"
  <2>1. ASSUME NEW p \in Pads, NEW a \in BOOLEAN, gate = Gated(p, a, "tabled")
        PROVE  gate.mapping = "tabled"
    BY <2>1, GateShapes
  <2>2. ASSUME gate = Blind \/ gate = Learning  PROVE gate.state # "gated"
    BY <2>2, GateShapes
  <2> QED  BY <1>2, <2>1, <2>2
<1> QED  BY <1>3, <1>4, <1>5 DEF IInv, CalibrationFindsTheWire

\* A poll with nothing in the 8042.
LEMMA PollReportsKeeps ==
  ASSUME IInv, PollReports
  PROVE  IInv'
<1>1. PICK d \in I2cDevices, had \in BOOLEAN :
        IF UsbYields THEN ~had /\ UNCHANGED <<ahead, pad>> ELSE PollI2c(d, had)
  BY DEF PollReports
<1>2. CASE UNCHANGED pad
  BY <1>2, UnchangedKeeps
<1>3. CASE PollPad(line[d] # {}, had)
  <2>1. (line[d] # {}) \in BOOLEAN  OBVIOUS
  <2> QED  BY <1>3, <2>1, PollPadKeeps
<1> QED  BY <1>1, <1>2, <1>3 DEF PollI2c

\* Every other step leaves the gate alone.
LEMMA StepKeeps == IInv /\ [Next]_vars => IInv'
<1> SUFFICES ASSUME IInv, [Next]_vars PROVE IInv'  OBVIOUS
<1>1. CASE UNCHANGED pad
  BY <1>1, UnchangedKeeps
<1>2. ASSUME NEW p \in Pads, Drift(p)  PROVE IInv'
  BY <1>2, DriftKeeps
<1>3. CASE PollReports
  BY <1>3, PollReportsKeeps
<1>4. CASE UNCHANGED vars
  BY <1>1, <1>4 DEF vars
<1> QED  BY <1>1, <1>2, <1>3, <1>4 DEF Next, TypeOn, Report, Tick, MoveMouse, Poll

\* What the calibration knows is kept by every step of every device.
THEOREM InvariantHolds == Spec => []IInv
BY InitHolds, StepKeeps, PTL DEF Spec

\* Whatever the other pads do, a gate the calibration closes is on the line of
\* the device and has its polarity, unless a report slipped in between a
\* sample and its read.
THEOREM TheWireIsFound == Spec => []CalibrationFindsTheWire
<1>1. IInv => CalibrationFindsTheWire  BY DEF IInv
<1> QED  BY <1>1, InvariantHolds, PTL

-----------------------------------------------------------------------------
(* What arrives of the keys: the 8042.                                     *)

Events  == [scancode : Nat, pressed : BOOLEAN]
Strokes == [scancode : {Set1[k] : k \in Keys}, pressed : BOOLEAN]

KeyBytes == wire["keyboard"]

Ps2Types ==
  /\ scanSet \in {1, 2}
  /\ typed \in Seq(Strokes) /\ delivered \in Seq([key : Events, observed : BOOLEAN])
  /\ mouseAt \in Nat /\ slow \in BOOLEAN
  /\ DOMAIN wire = Ports
  /\ wire["keyboard"] \in Seq(Nat) /\ wire["aux"] \in Seq([index : Nat, bit3 : BOOLEAN])
  /\ packet \in Seq([index : Nat, bit3 : BOOLEAN])
  /\ set2 \in BOOLEAN /\ set2Break \in BOOLEAN

\* The parts of Ps2TypeOK that are not counted in keystrokes.
PacketInv ==
  /\ Len(packet) < PacketLen
  /\ packet # <<>> => packet[1].bit3
  /\ \A port \in Ports : Len(wire[port]) <= LineLen

\* No key of the keyboard has a release that reads as the prefix, and keys
\* that send the same code in set 2 have the same name in set 1.
CodesAreTold ==
  /\ \A k \in Keys : Set1[k] + 128 # SET2_BREAK
  /\ \A k, l \in Keys : Set2[k] = Set2[l] => Set1[k] = Set1[l]

Code1(event) == IF event.pressed THEN event.scancode ELSE event.scancode + 128

\* Of a set 1 keyboard a byte is a keystroke.
Set1Inv ==
  /\ ~set2 /\ ~set2Break
  /\ Len(delivered) + Len(KeyBytes) = Len(typed)
  /\ \A j \in 1 .. Len(KeyBytes) : KeyBytes[j] = Code1(typed[Len(delivered) + j])
  /\ \A i \in 1 .. Len(delivered) : delivered[i].key = typed[i]

IsSet2(byte, event) == \E k \in Keys : byte = Set2[k] /\ event.scancode = Set1[k]

\* Byte j comes after a prefix.
Prefixed(bytes, afterPrefix, j) == IF j = 1 THEN afterPrefix ELSE bytes[j - 1] = SET2_BREAK

\* Of a set 2 keyboard a byte belongs to the keystroke of[j]: a release is a
\* prefix and a code, and its two bytes belong together.
Spells(of, bytes, keys, done, afterPrefix) ==
  /\ bytes = <<>> => done = Len(keys) /\ ~afterPrefix
  /\ bytes # <<>> => /\ of[1] = done + 1 /\ of[Len(bytes)] = Len(keys)
                     /\ bytes[Len(bytes)] # SET2_BREAK
  /\ \A j \in 1 .. Len(bytes) - 1 :
       of[j + 1] = IF bytes[j] = SET2_BREAK THEN of[j] ELSE of[j] + 1
  /\ \A j \in 1 .. Len(bytes) :
       /\ bytes[j] = SET2_BREAK => ~Prefixed(bytes, afterPrefix, j)
       /\ bytes[j] # SET2_BREAK =>
            /\ IsSet2(bytes[j], keys[of[j]])
            /\ keys[of[j]].pressed <=> ~Prefixed(bytes, afterPrefix, j)

Spelt(bytes, keys, done, afterPrefix) ==
  \E of \in [1 .. Len(bytes) -> 1 .. Len(keys)] : Spells(of, bytes, keys, done, afterPrefix)

Set2Inv ==
  /\ set2Break => set2
  /\ Spelt(KeyBytes, typed, Len(delivered), set2Break)
  /\ \A i \in 1 .. Len(delivered) : delivered[i].observed => delivered[i].key = typed[i]

Ps2Inv ==
  /\ Ps2Types /\ PacketInv
  /\ scanSet = 1 => Set1Inv
  /\ scanSet = 2 => Set2Inv

-----------------------------------------------------------------------------
(* And of a HID keyboard.                                                  *)

HidTypes ==
  /\ held \in [Hid -> SUBSET Keys]
  /\ reported \in [Hid -> SUBSET Keys]
  /\ previous \in [Hid -> SUBSET Keys]
  /\ DOMAIN line = Hid
  /\ pressed \in [HidKeyboards -> Seq(Strokes)]
  /\ received \in [HidKeyboards -> Seq(Strokes)]
  /\ rushed \in [HidKeyboards -> BOOLEAN]

\* A report that waits is the last one made, and without one the driver knows
\* it.
LineInv ==
  /\ \A d \in Hid : line[d] \in {{}, {reported[d]}}
  /\ \A d \in HidKeyboards : line[d] = {} => previous[d] = reported[d]

One(condition) == IF condition THEN 1 ELSE 0

\* Of a keyboard that holds h, reported r and is known by p, what is still to
\* come of the keystrokes made, at least: a change that was reported, and one
\* that was not.
Fewer(h, r, p, made, got) ==
  Len(got) + One(r # p) + One(h # r) <= Len(made)

\* Nothing lost: each change is one keystroke, the ones made last.
Owes(h, r, p, made, got) ==
  /\ Len(got) + One(r # p) + One(h # r) = Len(made)
  /\ \A i \in 1 .. Len(got) : got[i] = made[i]
  /\ r # p => KeysChanged(r, p) = {made[Len(got) + 1]}
  /\ h # r => KeysChanged(h, r) = {made[Len(made)]}

KeysInv ==
  \A d \in HidKeyboards :
    /\ Fewer(held[d], reported[d], previous[d], pressed[d], received[d])
    /\ ~rushed[d] => Owes(held[d], reported[d], previous[d], pressed[d], received[d])

HidInv == HidTypes /\ LineInv /\ KeysInv

CountsInv ==
  /\ found \in [BOOLEAN -> 0 .. Needed]
  /\ strikes \in 0 .. GateStrikes - 1
  /\ polls \in 0 .. AuditEvery - 1
  /\ failures \in 0 .. GiveUpAfter

\* What the assumptions say of a key.
LEMMA CodesAre ==
  ASSUME NEW k \in Keys
  PROVE  Set1[k] \in 1 .. 127 /\ Set2[k] \in 1 .. 131
BY Ps2Assumption

\* translate_set2 names a key as set 1 does.
LEMMA TranslatedIs ==
  ASSUME CodesAreTold, NEW k \in Keys
  PROVE  Translated(Set2[k]) = Set1[k]
<1> DEFINE l == CHOOSE l \in Keys : Set2[l] = Set2[k]
<1>1. l \in Keys /\ Set2[l] = Set2[k]
  OBVIOUS
<1>2. Set1[l] = Set1[k]
  BY <1>1 DEF CodesAreTold
<1>3. Translated(Set2[k]) = Set1[l]
  BY DEF Translated
<1> QED  BY <1>2, <1>3

\* And whatever the byte, it returns a byte.
LEMMA TranslatedIsNat ==
  ASSUME NEW byte \in Nat
  PROVE  Translated(byte) \in Nat
<1>1. CASE \E k \in Keys : Set2[k] = byte
  <2> DEFINE l == CHOOSE l \in Keys : Set2[l] = byte
  <2>1. l \in Keys
    BY <1>1
  <2>2. Set1[l] \in Nat
    BY <2>1, CodesAre
  <2>3. Translated(byte) = Set1[l]
    BY <1>1 DEF Translated
  <2> QED  BY <2>2, <2>3
<1>2. CASE ~\E k \in Keys : Set2[k] = byte
  BY <1>2 DEF Translated
<1> QED  BY <1>1, <1>2

\* The event of a keystroke.
LEMMA EventIs ==
  ASSUME NEW k \in Keys, NEW isDown \in BOOLEAN
  PROVE  /\ Key(Set1[k], isDown) \in Strokes
         /\ Key(Set1[k], isDown).scancode = Set1[k] /\ Key(Set1[k], isDown).pressed = isDown
BY CodesAre DEF Key, Strokes

\* One entry and two put last.
LEMMA OneMore ==
  ASSUME NEW S, NEW s \in Seq(S), NEW x \in S
  PROVE  /\ s \o <<x>> \in Seq(S) /\ Len(s \o <<x>>) = Len(s) + 1
         /\ \A j \in 1 .. Len(s) : (s \o <<x>>)[j] = s[j]
         /\ (s \o <<x>>)[Len(s) + 1] = x
OBVIOUS

LEMMA TwoMore ==
  ASSUME NEW S, NEW s \in Seq(S), NEW x \in S, NEW y \in S
  PROVE  /\ s \o <<x, y>> \in Seq(S) /\ Len(s \o <<x, y>>) = Len(s) + 2
         /\ \A j \in 1 .. Len(s) : (s \o <<x, y>>)[j] = s[j]
         /\ (s \o <<x, y>>)[Len(s) + 1] = x /\ (s \o <<x, y>>)[Len(s) + 2] = y
OBVIOUS

LEMMA AppendIs ==
  ASSUME NEW S, NEW s \in Seq(S), NEW x \in S
  PROVE  /\ Append(s, x) \in Seq(S) /\ Len(Append(s, x)) = Len(s) + 1
         /\ \A j \in 1 .. Len(s) : Append(s, x)[j] = s[j]
         /\ Append(s, x)[Len(s) + 1] = x
OBVIOUS

\* The first entry taken.
LEMMA TailIs ==
  ASSUME NEW S, NEW s \in Seq(S), s # <<>>
  PROVE  /\ Tail(s) \in Seq(S) /\ Len(Tail(s)) = Len(s) - 1 /\ Len(s) \in Nat \ {0}
         /\ \A j \in 1 .. Len(s) - 1 : Tail(s)[j] = s[j + 1]
         /\ Head(s) = s[1] /\ Head(s) \in S
OBVIOUS

\* What a keyboard sends for a keystroke.
LEMMA SentIs ==
  ASSUME NEW k \in Keys, NEW isDown \in BOOLEAN, scanSet \in {1, 2}
  PROVE  /\ scanSet = 1 => Sent(k, isDown) = <<Code1(Key(Set1[k], isDown))>>
         /\ scanSet = 2 => Sent(k, isDown) = IF isDown THEN <<Set2[k]>> ELSE <<SET2_BREAK, Set2[k]>>
<1>1. CASE isDown /\ scanSet = 1
  <2>1. Code1(Key(Set1[k], isDown)) = Set1[k]
    BY <1>1, EventIs DEF Code1
  <2>2. Sent(k, isDown) = <<Set1[k]>>
    BY <1>1 DEF Sent
  <2>3. Sent(k, isDown) = <<Code1(Key(Set1[k], isDown))>>
    BY <2>1, <2>2
  <2>4. scanSet # 2
    BY <1>1
  <2> QED  BY <2>3, <2>4
<1>2. CASE ~isDown /\ scanSet = 1
  <2>1. Code1(Key(Set1[k], isDown)) = Set1[k] + 128
    BY <1>2, EventIs DEF Code1
  <2>2. Sent(k, isDown) = <<Set1[k] + 128>>
    BY <1>2 DEF Sent
  <2> QED  BY <1>2, <2>1, <2>2
<1>3. CASE isDown /\ scanSet = 2
  BY <1>3 DEF Sent
<1>4. CASE ~isDown /\ scanSet = 2
  BY <1>4 DEF Sent
<1> QED  BY <1>1, <1>2, <1>3, <1>4

\* A keystroke on the 8042's keyboard.
LEMMA TypeIs ==
  ASSUME NEW k \in Keys, NEW event, Ps2Types, Type(k), event = Key(Set1[k], k \notin down)
  PROVE  /\ event \in Strokes /\ typed' = Append(typed, event)
         /\ KeyBytes' = KeyBytes \o Sent(k, k \notin down)
         /\ wire'["aux"] = wire["aux"] /\ DOMAIN wire' = Ports
         /\ Len(KeyBytes') <= LineLen /\ KeyBytes' \in Seq(Nat)
         /\ UNCHANGED <<scanSet, set2, set2Break, packet, delivered, mouse>>
<1>1. (k \notin down) \in BOOLEAN
  OBVIOUS
<1>2. event \in Strokes
  BY <1>1, EventIs
<1>3. wire' = [wire EXCEPT !["keyboard"] = @ \o Sent(k, k \notin down)]
      /\ Len(KeyBytes) + Len(Sent(k, k \notin down)) <= LineLen
  BY DEF Type, Send, KeyBytes
<1>4. KeyBytes' = KeyBytes \o Sent(k, k \notin down) /\ wire'["aux"] = wire["aux"]
      /\ DOMAIN wire' = Ports
  BY <1>3 DEF Ps2Types, Ports, KeyBytes
<1>5. KeyBytes \in Seq(Nat) /\ Sent(k, k \notin down) \in Seq(Nat)
  <2>1. Set2[k] \in Nat /\ Code1(event) \in Nat /\ SET2_BREAK \in Nat
    BY <1>2, CodesAre DEF Code1, Strokes, SET2_BREAK
  <2>2. scanSet \in {1, 2}
    BY DEF Ps2Types
  <2>3. Sent(k, k \notin down) \in {<<Code1(event)>>, <<Set2[k]>>, <<SET2_BREAK, Set2[k]>>}
    BY <1>1, <2>2, SentIs
  <2>4. <<Code1(event)>> \in Seq(Nat) /\ <<Set2[k]>> \in Seq(Nat)
        /\ <<SET2_BREAK, Set2[k]>> \in Seq(Nat)
    <3> DEFINE a == Code1(event)
               b == Set2[k]
               c == SET2_BREAK
    <3>1. a \in Nat /\ b \in Nat /\ c \in Nat
      BY <2>1
    <3> HIDE DEF a, b, c
    <3>2. <<a>> \in Seq(Nat) /\ <<b>> \in Seq(Nat) /\ <<c, b>> \in Seq(Nat)
      BY <3>1
    <3> QED  BY <3>2 DEF a, b, c
  <2> QED  BY <2>3, <2>4 DEF Ps2Types, KeyBytes
<1>6. Len(KeyBytes') <= LineLen /\ KeyBytes' \in Seq(Nat)
  BY <1>3, <1>4, <1>5
<1> QED  BY <1>2, <1>4, <1>6 DEF Type, decoder, mouse

\* A keystroke adds its byte to those of a set 1 keyboard.
LEMMA TypeSet1 ==
  ASSUME Ps2Types, Set1Inv, scanSet = 1, NEW k \in Keys, Type(k)
  PROVE  Set1Inv'
<1> DEFINE isDown == k \notin down
           event == Key(Set1[k], isDown)
<1>1. /\ event \in Strokes /\ typed' = Append(typed, event)
      /\ KeyBytes' = KeyBytes \o Sent(k, isDown)
      /\ UNCHANGED <<set2, set2Break, delivered>>
  BY TypeIs
<1>2. Sent(k, isDown) = <<Code1(event)>>
  BY SentIs
<1>3. typed \in Seq(Strokes) /\ KeyBytes \in Seq(Nat) /\ Code1(event) \in Nat
      /\ Len(delivered) \in Nat
  <2>1. event.scancode \in Nat /\ event.pressed \in BOOLEAN
    <3>1. event.scancode = Set1[k] /\ event.pressed = (k \notin down)
      BY <1>1, EventIs
    <3>2. Set1[k] \in Nat
      BY CodesAre
    <3> QED  BY <3>1, <3>2
  <2>2. Code1(event) \in Nat
    BY <2>1 DEF Code1
  <2> QED  BY <2>2 DEF Ps2Types, KeyBytes
<1> HIDE DEF event, isDown
<1>4. /\ Len(typed') = Len(typed) + 1 /\ typed'[Len(typed) + 1] = event
      /\ \A j \in 1 .. Len(typed) : typed'[j] = typed[j]
  BY <1>1, <1>3, AppendIs
<1>5. /\ Len(KeyBytes') = Len(KeyBytes) + 1 /\ KeyBytes'[Len(KeyBytes) + 1] = Code1(event)
      /\ \A j \in 1 .. Len(KeyBytes) : KeyBytes'[j] = KeyBytes[j]
  BY <1>1, <1>2, <1>3, OneMore
<1>6. Len(KeyBytes) \in Nat /\ Len(typed) \in Nat
  BY <1>3
<1>7. \A j \in 1 .. Len(KeyBytes') : KeyBytes'[j] = Code1(typed'[Len(delivered) + j])
  <2> TAKE j \in 1 .. Len(KeyBytes')
  <2>1. CASE j = Len(KeyBytes) + 1
    BY <1>3, <1>4, <1>5, <1>6, <2>1 DEF Set1Inv
  <2>2. CASE j # Len(KeyBytes) + 1
    <3>1. j \in 1 .. Len(KeyBytes) /\ Len(delivered) + j \in 1 .. Len(typed)
      BY <1>3, <1>5, <1>6, <2>2 DEF Set1Inv
    <3> QED  BY <1>4, <1>5, <3>1 DEF Set1Inv
  <2> QED  BY <2>1, <2>2
<1>8. \A i \in 1 .. Len(delivered) : delivered[i].key = typed'[i]
  BY <1>3, <1>4, <1>6 DEF Set1Inv
<1>9. Len(delivered) + Len(KeyBytes') = Len(typed')
  <2>1. Len(delivered) + Len(KeyBytes) = Len(typed)
    BY DEF Set1Inv
  <2> QED  BY <1>3, <1>4, <1>5, <1>6, <2>1
<1>10. ~set2' /\ ~set2Break' /\ delivered' = delivered
  BY <1>1 DEF Set1Inv
<1> QED  BY <1>7, <1>8, <1>9, <1>10 DEF Set1Inv

\* A press is one byte more, and a release two.
LEMMA SpellsPress ==
  ASSUME NEW bytes \in Seq(Nat), NEW keys \in Seq(Strokes), NEW done \in Nat,
         NEW afterPrefix \in BOOLEAN, Spelt(bytes, keys, done, afterPrefix),
         NEW c \in Nat, NEW event \in Strokes, c # SET2_BREAK, IsSet2(c, event), event.pressed
  PROVE  Spelt(bytes \o <<c>>, Append(keys, event), done, afterPrefix)
<1>1. PICK of \in [1 .. Len(bytes) -> 1 .. Len(keys)] : Spells(of, bytes, keys, done, afterPrefix)
  BY DEF Spelt
<1> DEFINE more == bytes \o <<c>>
           all  == Append(keys, event)
           n    == Len(bytes)
           m    == Len(keys)
           owner == [j \in 1 .. n + 1 |-> IF j <= n THEN of[j] ELSE m + 1]
<1>0. of \in [1 .. n -> 1 .. m]
  BY <1>1
<1>2. /\ more \in Seq(Nat) /\ Len(more) = n + 1 /\ more[n + 1] = c /\ n \in Nat
      /\ \A j \in 1 .. n : more[j] = bytes[j]
  BY OneMore
<1>3. /\ all \in Seq(Strokes) /\ Len(all) = m + 1 /\ all[m + 1] = event /\ m \in Nat
      /\ \A j \in 1 .. m : all[j] = keys[j]
  BY AppendIs
<1>4. bytes = <<>> <=> n = 0
  OBVIOUS
<1> HIDE DEF more, all
<1>5. /\ n = 0 => done = m /\ ~afterPrefix
      /\ n # 0 => of[1] = done + 1 /\ of[n] = m /\ bytes[n] # SET2_BREAK
  BY <1>1, <1>4 DEF Spells
<1> HIDE DEF n, m
<1>6. owner \in [1 .. Len(more) -> 1 .. Len(all)]
  BY <1>1, <1>2, <1>3 DEF n, m
<1>7. \A j \in 1 .. n : owner[j] = of[j] /\ of[j] \in 1 .. m
  <2> TAKE j \in 1 .. n
  <2>1. of[j] \in 1 .. m
    BY <1>0
  <2>2. j \in 1 .. n + 1 /\ j \in 1 .. n + 2 /\ j <= n
    BY <1>2
  <2>3. owner[j] = of[j]
    BY <2>2
  <2> QED  BY <2>1, <2>3
<1>8. owner[n + 1] = m + 1
  BY <1>2
<1> HIDE DEF owner
<1>9. \A j \in 1 .. Len(more) - 1 :
        owner[j + 1] = IF more[j] = SET2_BREAK THEN owner[j] ELSE owner[j] + 1
  <2> TAKE j \in 1 .. Len(more) - 1
  <2>1. j \in 1 .. n /\ more[j] = bytes[j] /\ owner[j] = of[j]
    BY <1>2, <1>7
  <2>2. CASE j = n
    BY <1>2, <1>5, <1>8, <2>1, <2>2
  <2>3. CASE j # n
    <3>1. j \in 1 .. n - 1 /\ j + 1 \in 1 .. n
      BY <1>2, <2>1, <2>3
    <3> QED  BY <1>1, <1>7, <2>1, <3>1 DEF Spells, n
  <2> QED  BY <2>2, <2>3
<1>10. \A j \in 1 .. Len(more) :
         /\ more[j] = SET2_BREAK => ~Prefixed(more, afterPrefix, j)
         /\ more[j] # SET2_BREAK =>
              /\ IsSet2(more[j], all[owner[j]])
              /\ all[owner[j]].pressed <=> ~Prefixed(more, afterPrefix, j)
  <2> TAKE j \in 1 .. Len(more)
  <2>1. CASE j = n + 1
    <3>1. ~Prefixed(more, afterPrefix, j)
      BY <1>2, <1>5, <2>1 DEF Prefixed
    <3>2. all[owner[j]] = event /\ more[j] = c
      BY <1>2, <1>3, <1>8, <2>1
    <3>3. event.pressed = TRUE
      BY DEF Strokes
    <3> QED  BY <3>1, <3>2, <3>3
  <2>2. CASE j # n + 1
    <3>0. j \in 1 .. n
      BY <1>2, <2>2
    <3>1. j \in 1 .. n /\ more[j] = bytes[j] /\ owner[j] = of[j] /\ all[of[j]] = keys[of[j]]
      BY <1>2, <1>3, <1>7, <3>0
    <3>2. Prefixed(more, afterPrefix, j) = Prefixed(bytes, afterPrefix, j)
      BY <1>2, <3>1 DEF Prefixed
    <3> QED  BY <1>1, <3>1, <3>2 DEF Spells, n
  <2> QED  BY <2>1, <2>2
<1>11. more # <<>> /\ owner[1] = done + 1 /\ owner[Len(more)] = Len(all) /\ more[Len(more)] # SET2_BREAK
  BY <1>2, <1>3, <1>5, <1>7, <1>8
<1>12. Spells(owner, more, all, done, afterPrefix)
  BY <1>9, <1>10, <1>11 DEF Spells
<1>13. Spelt(more, all, done, afterPrefix)
  BY <1>6, <1>12 DEF Spelt
<1> QED  BY <1>13 DEF more, all

\* A release is a prefix and a byte.
LEMMA SpellsRelease ==
  ASSUME NEW bytes \in Seq(Nat), NEW keys \in Seq(Strokes), NEW done \in Nat,
         NEW afterPrefix \in BOOLEAN, Spelt(bytes, keys, done, afterPrefix),
         NEW c \in Nat, NEW event \in Strokes, c # SET2_BREAK, IsSet2(c, event), ~event.pressed
  PROVE  Spelt(bytes \o <<SET2_BREAK, c>>, Append(keys, event), done, afterPrefix)
<1>1. PICK of \in [1 .. Len(bytes) -> 1 .. Len(keys)] : Spells(of, bytes, keys, done, afterPrefix)
  BY DEF Spelt
<1> DEFINE more == bytes \o <<SET2_BREAK, c>>
           all  == Append(keys, event)
           n    == Len(bytes)
           m    == Len(keys)
           owner == [j \in 1 .. n + 2 |-> IF j <= n THEN of[j] ELSE m + 1]
<1>0. of \in [1 .. n -> 1 .. m]
  BY <1>1
<1>2. /\ more \in Seq(Nat) /\ Len(more) = n + 2 /\ n \in Nat
      /\ more[n + 1] = SET2_BREAK /\ more[n + 2] = c
      /\ \A j \in 1 .. n : more[j] = bytes[j]
  BY TwoMore DEF SET2_BREAK
<1>3. /\ all \in Seq(Strokes) /\ Len(all) = m + 1 /\ all[m + 1] = event /\ m \in Nat
      /\ \A j \in 1 .. m : all[j] = keys[j]
  BY AppendIs
<1>4. bytes = <<>> <=> n = 0
  OBVIOUS
<1> HIDE DEF more, all
<1>5. /\ n = 0 => done = m /\ ~afterPrefix
      /\ n # 0 => of[1] = done + 1 /\ of[n] = m /\ bytes[n] # SET2_BREAK
  BY <1>1, <1>4 DEF Spells
<1> HIDE DEF n, m
<1>6. owner \in [1 .. Len(more) -> 1 .. Len(all)]
  BY <1>1, <1>2, <1>3 DEF n, m
<1>7. \A j \in 1 .. n : owner[j] = of[j] /\ of[j] \in 1 .. m
  <2> TAKE j \in 1 .. n
  <2>1. of[j] \in 1 .. m
    BY <1>0
  <2>2. j \in 1 .. n + 1 /\ j \in 1 .. n + 2 /\ j <= n
    BY <1>2
  <2>3. owner[j] = of[j]
    BY <2>2
  <2> QED  BY <2>1, <2>3
<1>8. owner[n + 1] = m + 1 /\ owner[n + 2] = m + 1
  BY <1>2
<1> HIDE DEF owner
<1>9. \A j \in 1 .. Len(more) - 1 :
        owner[j + 1] = IF more[j] = SET2_BREAK THEN owner[j] ELSE owner[j] + 1
  <2> TAKE j \in 1 .. Len(more) - 1
  <2>1. CASE j = n + 1
    BY <1>2, <1>8, <2>1
  <2>2. CASE j = n
    <3>1. n # 0 /\ n \in 1 .. n
      BY <1>2, <2>2
    <3>2. more[n] = bytes[n] /\ owner[n] = of[n]
      BY <1>2, <1>7, <3>1
    <3>3. of[n] = m /\ bytes[n] # SET2_BREAK
      BY <1>5, <3>1
    <3> QED  BY <1>8, <2>2, <3>2, <3>3
  <2>3. CASE j # n /\ j # n + 1
    <3>1. j \in 1 .. n - 1 /\ j + 1 \in 1 .. n /\ j \in 1 .. n
      BY <1>2, <2>3
    <3>2. of[j + 1] = IF bytes[j] = SET2_BREAK THEN of[j] ELSE of[j] + 1
      BY <1>1, <3>1 DEF Spells, n
    <3>3. more[j] = bytes[j] /\ owner[j] = of[j] /\ owner[j + 1] = of[j + 1]
      BY <1>2, <1>7, <3>1
    <3> QED  BY <3>2, <3>3
  <2> QED  BY <2>1, <2>2, <2>3
<1>10. \A j \in 1 .. Len(more) :
         /\ more[j] = SET2_BREAK => ~Prefixed(more, afterPrefix, j)
         /\ more[j] # SET2_BREAK =>
              /\ IsSet2(more[j], all[owner[j]])
              /\ all[owner[j]].pressed <=> ~Prefixed(more, afterPrefix, j)
  <2> TAKE j \in 1 .. Len(more)
  <2>1. CASE j = n + 1
    <3>1. ~Prefixed(more, afterPrefix, j)
      BY <1>2, <1>5, <2>1 DEF Prefixed
    <3> QED  BY <1>2, <2>1, <3>1
  <2>2. CASE j = n + 2
    <3>1. Prefixed(more, afterPrefix, j) = TRUE
      BY <1>2, <2>2 DEF Prefixed
    <3>2. all[owner[j]] = event /\ more[j] = c
      BY <1>2, <1>3, <1>8, <2>2
    <3>3. event.pressed = FALSE
      BY DEF Strokes
    <3> QED  BY <3>1, <3>2, <3>3
  <2>3. CASE j # n + 1 /\ j # n + 2
    <3>0. j \in 1 .. n
      BY <1>2, <2>3
    <3>1. j \in 1 .. n /\ more[j] = bytes[j] /\ owner[j] = of[j] /\ all[of[j]] = keys[of[j]]
      BY <1>2, <1>3, <1>7, <3>0
    <3>2. Prefixed(more, afterPrefix, j) = Prefixed(bytes, afterPrefix, j)
      BY <1>2, <3>1 DEF Prefixed
    <3> QED  BY <1>1, <3>1, <3>2 DEF Spells, n
  <2> QED  BY <2>1, <2>2, <2>3
<1>11. more # <<>> /\ owner[1] = done + 1 /\ owner[Len(more)] = Len(all) /\ more[Len(more)] # SET2_BREAK
  BY <1>2, <1>3, <1>5, <1>7, <1>8
<1>12. Spells(owner, more, all, done, afterPrefix)
  BY <1>9, <1>10, <1>11 DEF Spells
<1>13. Spelt(more, all, done, afterPrefix)
  BY <1>6, <1>12 DEF Spelt
<1> QED  BY <1>13 DEF more, all

\* The first byte taken leaves the rest spelt.
LEMMA SpellsRest ==
  ASSUME NEW bytes \in Seq(Nat), NEW keys \in Seq(Strokes), NEW done \in Nat,
         NEW afterPrefix \in BOOLEAN, bytes # <<>>,
         NEW of \in [1 .. Len(bytes) -> 1 .. Len(keys)],
         Spells(of, bytes, keys, done, afterPrefix),
         NEW upTo \in Nat, upTo = IF Head(bytes) = SET2_BREAK THEN done ELSE done + 1,
         NEW after \in BOOLEAN, after <=> Head(bytes) = SET2_BREAK
  PROVE  Spelt(Tail(bytes), keys, upTo, after)
<1>1. Spells(of, bytes, keys, done, afterPrefix)
  OBVIOUS
<1> DEFINE rest == Tail(bytes)
           n    == Len(bytes)
           m    == Len(keys)
           b    == Head(bytes)
           on   == [j \in 1 .. n - 1 |-> of[j + 1]]
<1>0. upTo = (IF b = SET2_BREAK THEN done ELSE done + 1) /\ (after <=> b = SET2_BREAK)
  OBVIOUS
<1>2. /\ rest \in Seq(Nat) /\ Len(rest) = n - 1 /\ n \in Nat \ {0} /\ b = bytes[1]
      /\ \A j \in 1 .. n - 1 : rest[j] = bytes[j + 1]
  BY TailIs
<1>3. rest = <<>> <=> n = 1
  <2> HIDE DEF rest, n
  <2> QED  BY <1>2
<1> HIDE DEF rest, b
<1>4. of[1] = done + 1 /\ of[n] = m /\ bytes[n] # SET2_BREAK /\ m \in Nat
  BY <1>1 DEF Spells
<1>5. \A j \in 1 .. n - 1 : of[j + 1] = IF bytes[j] = SET2_BREAK THEN of[j] ELSE of[j] + 1
  BY <1>1 DEF Spells
<1>6. \A j \in 1 .. n :
        /\ bytes[j] = SET2_BREAK => ~Prefixed(bytes, afterPrefix, j)
        /\ bytes[j] # SET2_BREAK => /\ IsSet2(bytes[j], keys[of[j]])
                                    /\ keys[of[j]].pressed <=> ~Prefixed(bytes, afterPrefix, j)
  BY <1>1 DEF Spells
<1>7. of \in [1 .. n -> 1 .. m]
  BY <1>1
<1> HIDE DEF n, m
<1>8. Prefixed(bytes, afterPrefix, 1) = afterPrefix /\ 1 \in 1 .. n
  BY <1>2 DEF Prefixed
<1>9. on \in [1 .. Len(rest) -> 1 .. m]
  BY <1>2, <1>7
<1>10. \A j \in 1 .. Len(rest) : on[j] = of[j + 1] /\ rest[j] = bytes[j + 1] /\ j + 1 \in 1 .. n
  <2> TAKE j \in 1 .. Len(rest)
  <2>1. j \in 1 .. n - 1
    BY <1>2
  <2>2. on[j] = of[j + 1]
    BY <2>1
  <2>3. j + 1 \in 1 .. n
    BY <1>2, <2>1
  <2> QED  BY <1>2, <2>1, <2>2, <2>3
<1> HIDE DEF on
<1>11. \A j \in 1 .. Len(rest) - 1 :
         on[j + 1] = IF rest[j] = SET2_BREAK THEN on[j] ELSE on[j] + 1
  <2> TAKE j \in 1 .. Len(rest) - 1
  <2>1. j \in 1 .. Len(rest) /\ j + 1 \in 1 .. Len(rest) /\ j + 1 \in 1 .. n - 1
    BY <1>2
  <2> QED  BY <1>5, <1>10, <2>1
<1>12. \A j \in 1 .. Len(rest) :
         /\ rest[j] = SET2_BREAK => ~Prefixed(rest, after, j)
         /\ rest[j] # SET2_BREAK => /\ IsSet2(rest[j], keys[on[j]])
                                    /\ keys[on[j]].pressed <=> ~Prefixed(rest, after, j)
  <2> TAKE j \in 1 .. Len(rest)
  <2>1. Prefixed(rest, after, j) = Prefixed(bytes, afterPrefix, j + 1)
    <3>1. CASE j = 1
      BY <1>2, <3>1 DEF Prefixed
    <3>2. CASE j # 1
      <4>1. j - 1 \in 1 .. Len(rest) /\ (j - 1) + 1 = j /\ j + 1 # 1 /\ (j + 1) - 1 = j
        BY <1>2, <3>2
      <4>2. rest[j - 1] = bytes[j]
        BY <1>10, <4>1
      <4> QED  BY <3>2, <4>1, <4>2 DEF Prefixed
    <3> QED  BY <3>1, <3>2
  <2>2. on[j] = of[j + 1] /\ rest[j] = bytes[j + 1] /\ j + 1 \in 1 .. n
    BY <1>10
  <2> QED  BY <1>6, <2>1, <2>2
<1>13. rest = <<>> => upTo = m /\ b # SET2_BREAK
  BY <1>2, <1>3, <1>4
<1>14. rest # <<>> => /\ on[1] = upTo + 1 /\ on[Len(rest)] = m
                      /\ rest[Len(rest)] # SET2_BREAK
  <2> SUFFICES ASSUME rest # <<>>
               PROVE  /\ on[1] = upTo + 1 /\ on[Len(rest)] = m
                      /\ rest[Len(rest)] # SET2_BREAK
    OBVIOUS
  <2>1. 1 \in 1 .. Len(rest) /\ Len(rest) \in 1 .. Len(rest) /\ Len(rest) + 1 = n
        /\ 1 \in 1 .. n - 1
    BY <1>2, <1>3
  <2>2. on[Len(rest)] = m /\ rest[Len(rest)] # SET2_BREAK
    BY <1>4, <1>10, <2>1
  <2>3. on[1] = of[2]
    BY <1>10, <2>1
  <2>4. of[2] = upTo + 1
    <3>1. of[1 + 1] = IF bytes[1] = SET2_BREAK THEN of[1] ELSE of[1] + 1
      BY <1>5, <2>1
    <3> QED  BY <1>2, <1>4, <3>1
  <2> QED  BY <2>2, <2>3, <2>4
<1>15. Spells(on, rest, keys, upTo, after)
  BY <1>0, <1>11, <1>12, <1>13, <1>14 DEF Spells, m
<1>16. Spelt(rest, keys, upTo, after)
  BY <1>9, <1>15 DEF Spelt, m
<1> QED  BY <1>16 DEF rest

\* A prefix begins a release, whose byte follows.
LEMMA SpellsPrefix ==
  ASSUME NEW bytes \in Seq(Nat), NEW keys \in Seq(Strokes), NEW done \in Nat,
         NEW afterPrefix \in BOOLEAN, NEW rest,
         Spelt(bytes, keys, done, afterPrefix), bytes # <<>>,
         Head(bytes) = SET2_BREAK, rest = Tail(bytes)
  PROVE  ~afterPrefix /\ Spelt(rest, keys, done, TRUE)
<1>1. PICK of \in [1 .. Len(bytes) -> 1 .. Len(keys)] : Spells(of, bytes, keys, done, afterPrefix)
  BY DEF Spelt
<1> DEFINE after == TRUE
<1>2. after \in BOOLEAN /\ (after <=> Head(bytes) = SET2_BREAK)
  OBVIOUS
<1> HIDE DEF after
<1>3. Spelt(Tail(bytes), keys, done, after)
  BY <1>1, <1>2, SpellsRest
<1>4. ~afterPrefix
  <2>1. 1 \in 1 .. Len(bytes) /\ bytes[1] = SET2_BREAK
    BY TailIs
  <2>2. ~Prefixed(bytes, afterPrefix, 1)
    BY <1>1, <2>1 DEF Spells
  <2> QED  BY <2>2 DEF Prefixed
<1> QED  BY <1>3, <1>4 DEF after

\* A stroke is of a key.
LEMMA StrokeIs ==
  ASSUME NEW event \in Strokes
  PROVE  /\ \E k \in Keys : event.scancode = Set1[k]
         /\ event.scancode \in 1 .. 127 /\ event.pressed \in BOOLEAN
         /\ event = Key(event.scancode, event.pressed)
         /\ CodesAreTold => event.scancode + 128 # SET2_BREAK
<1>1. PICK k \in Keys : event.scancode = Set1[k]
  BY DEF Strokes
<1>2. event.pressed \in BOOLEAN /\ event = Key(event.scancode, event.pressed)
  BY DEF Strokes, Key
<1>3. CodesAreTold => event.scancode + 128 # SET2_BREAK
  BY <1>1 DEF CodesAreTold
<1> QED  BY <1>1, <1>2, <1>3, CodesAre

\* The seven low bits.
LEMMA LowBits ==
  ASSUME NEW n \in 1 .. 127
  PROVE  n \in Nat /\ n % 128 = n /\ (n + 128) % 128 = n /\ n < 128 /\ ~(n + 128 < 128)
OBVIOUS

\* A keystroke adds its byte, or its two, to those of a set 2 keyboard.
LEMMA TypeSet2 ==
  ASSUME Ps2Types, Set2Inv, scanSet = 2, NEW k \in Keys, Type(k)
  PROVE  Set2Inv'
<1> DEFINE isDown == k \notin down
           event == Key(Set1[k], isDown)
<1>1. /\ event \in Strokes /\ typed' = Append(typed, event)
      /\ KeyBytes' = KeyBytes \o Sent(k, isDown)
      /\ UNCHANGED <<set2, set2Break, delivered>>
  BY TypeIs
<1>2. Sent(k, isDown) = IF isDown THEN <<Set2[k]>> ELSE <<SET2_BREAK, Set2[k]>>
  BY SentIs
<1>3. typed \in Seq(Strokes) /\ KeyBytes \in Seq(Nat) /\ set2Break \in BOOLEAN
      /\ Len(delivered) \in Nat
  BY DEF Ps2Types, KeyBytes
<1>4. event.scancode = Set1[k] /\ event.pressed = isDown
  BY EventIs
<1> HIDE DEF event, isDown
<1> DEFINE bytes == KeyBytes
           done  == Len(delivered)
           c     == Set2[k]
<1>5. c \in Nat /\ c # SET2_BREAK
  BY CodesAre DEF SET2_BREAK
<1>6. IsSet2(c, event)
  BY <1>4 DEF IsSet2
<1>7. Spelt(bytes, typed, done, set2Break) /\ bytes \in Seq(Nat) /\ done \in Nat
  BY <1>3 DEF Set2Inv
<1> HIDE DEF bytes, done, c
<1>8. Spelt(bytes \o Sent(k, isDown), Append(typed, event), done, set2Break)
  <2>1. CASE isDown
    <3>1. Spelt(bytes \o <<c>>, Append(typed, event), done, set2Break)
      BY <1>1, <1>3, <1>4, <1>5, <1>6, <1>7, <2>1, SpellsPress
    <3> QED  BY <1>2, <2>1, <3>1 DEF c
  <2>2. CASE ~isDown
    <3>1. Spelt(bytes \o <<SET2_BREAK, c>>, Append(typed, event), done, set2Break)
      BY <1>1, <1>3, <1>4, <1>5, <1>6, <1>7, <2>2, SpellsRelease
    <3> QED  BY <1>2, <2>2, <3>1 DEF c
  <2> QED  BY <2>1, <2>2
<1>9. Spelt(KeyBytes', typed', Len(delivered'), set2Break')
  BY <1>1, <1>8 DEF bytes, done
<1>10. \A i \in 1 .. Len(delivered) : delivered[i].observed => delivered[i].key = typed'[i]
  <2>1. \A i \in 1 .. Len(typed) : typed'[i] = typed[i]
    BY <1>1, <1>3, AppendIs
  <2> TAKE i \in 1 .. Len(delivered)
  <2>2. Len(delivered) <= Len(typed)
    <3>1. bytes = <<>> => done = Len(typed)
      BY <1>7 DEF Spelt, Spells
    <3>2. bytes # <<>> => done <= Len(typed)
      <4> SUFFICES ASSUME bytes # <<>> PROVE done <= Len(typed)
        OBVIOUS
      <4>1. PICK of \in [1 .. Len(bytes) -> 1 .. Len(typed)] :
              Spells(of, bytes, typed, done, set2Break)
        BY <1>7 DEF Spelt
      <4>2. 1 \in 1 .. Len(bytes)
        BY <1>7
      <4>3. of[1] = done + 1 /\ of[1] \in 1 .. Len(typed)
        BY <4>1, <4>2 DEF Spells
      <4> QED  BY <1>3, <1>7, <4>3
    <3> QED  BY <1>3, <3>1, <3>2 DEF done
  <2>3. i \in 1 .. Len(typed)
    BY <1>3, <2>2
  <2> QED  BY <2>1, <2>3 DEF Set2Inv
<1>11. (set2Break => set2)'
  BY <1>1 DEF Set2Inv
<1> QED  BY <1>1, <1>9, <1>10, <1>11 DEF Set2Inv

\* A byte of the keyboard is taken.
LEMMA ByteTaken ==
  ASSUME Ps2Types, KeyBytes # <<>>, wire' = [wire EXCEPT !["keyboard"] = Tail(@)]
  PROVE  /\ KeyBytes' = Tail(KeyBytes) /\ wire'["aux"] = wire["aux"] /\ DOMAIN wire' = Ports
         /\ KeyBytes' \in Seq(Nat) /\ Len(KeyBytes') = Len(KeyBytes) - 1
         /\ Len(KeyBytes) \in Nat \ {0} /\ Head(KeyBytes) = KeyBytes[1] /\ Head(KeyBytes) \in Nat
         /\ \A j \in 1 .. Len(KeyBytes) - 1 : KeyBytes'[j] = KeyBytes[j + 1]
<1>1. KeyBytes' = Tail(KeyBytes) /\ wire'["aux"] = wire["aux"] /\ DOMAIN wire' = Ports
  BY DEF Ps2Types, KeyBytes, Ports
<1>2. KeyBytes \in Seq(Nat)
  BY DEF Ps2Types, KeyBytes
<1> QED  BY <1>1, <1>2, TailIs

\* A byte of a set 1 keyboard is its keystroke's event.
LEMMA KeystrokeSet1 ==
  ASSUME CodesAreTold, Ps2Types, Set1Inv, KeyBytes # <<>>, typed' = typed,
         wire' = [wire EXCEPT !["keyboard"] = Tail(@)], Keystroke(Head(KeyBytes))
  PROVE  Set1Inv' /\ delivered' \in Seq([key : Events, observed : BOOLEAN])
<1> DEFINE byte == Head(KeyBytes)
           done == Len(delivered)
           event == typed[done + 1]
<1>1. /\ Len(KeyBytes') = Len(KeyBytes) - 1 /\ byte = KeyBytes[1] /\ Len(KeyBytes) \in Nat \ {0}
      /\ \A j \in 1 .. Len(KeyBytes) - 1 : KeyBytes'[j] = KeyBytes[j + 1]
  BY ByteTaken
<1>2. /\ typed \in Seq(Strokes) /\ delivered \in Seq([key : Events, observed : BOOLEAN])
      /\ done \in Nat /\ Len(typed) \in Nat
  BY DEF Ps2Types
<1>3. done + 1 \in 1 .. Len(typed) /\ byte = Code1(event)
  BY <1>1, <1>2 DEF Set1Inv
<1>4. event \in Strokes
  BY <1>2, <1>3
<1> HIDE DEF byte, event
<1>5. byte # SET2_BREAK
  <2>1. CASE event.pressed
    <3>1. event.scancode \in 1 .. 127
      BY <1>4, StrokeIs
    <3>2. byte = event.scancode
      BY <1>3, <2>1 DEF Code1
    <3>3. \A n \in 1 .. 127 : n # 240
      OBVIOUS
    <3>4. byte \in 1 .. 127
      BY <3>1, <3>2
    <3> QED  BY <3>3, <3>4, Zenon DEF SET2_BREAK
  <2>2. CASE ~event.pressed
    BY <1>3, <1>4, <2>2, StrokeIs DEF Code1
  <2> QED  BY <2>1, <2>2
<1>6. /\ ~set2Break /\ ~set2 /\ UNCHANGED <<set2, set2Break>>
      /\ delivered' = Append(delivered, [key |-> Key(byte % 128, byte < 128), observed |-> set2])
  BY <1>5 DEF Set1Inv, Keystroke, Deliver, byte
<1>7. Key(byte % 128, byte < 128) = event
  <2>1. event.scancode \in 1 .. 127 /\ event = Key(event.scancode, event.pressed)
        /\ event.pressed \in BOOLEAN
    BY <1>4, StrokeIs
  <2>2. CASE event.pressed = TRUE
    <3>1. byte = event.scancode
      BY <1>3, <2>2 DEF Code1
    <3>2. byte % 128 = event.scancode /\ byte < 128
      BY <2>1, <3>1, LowBits
    <3>3. (byte < 128) = TRUE
      BY <3>2
    <3> QED  BY <2>1, <2>2, <3>2, <3>3
  <2>3. CASE event.pressed = FALSE
    <3>1. byte = event.scancode + 128
      BY <1>3, <2>3 DEF Code1
    <3>2. byte % 128 = event.scancode /\ ~(byte < 128)
      BY <2>1, <3>1, LowBits
    <3>3. (byte < 128) = FALSE
      BY <3>2
    <3> QED  BY <2>1, <2>3, <3>2, <3>3
  <2> QED  BY <2>1, <2>2, <2>3
<1> DEFINE answer == [key |-> event, observed |-> set2]
<1>8. answer \in [key : Events, observed : BOOLEAN] /\ answer.key = event
  <2>1. event \in Events
    <3>0. event.scancode \in 1 .. 127 /\ event.pressed \in BOOLEAN
      BY <1>4, StrokeIs
    <3>1. event.scancode \in Nat /\ event.pressed \in BOOLEAN
      BY <3>0, Zenon, LowBits
    <3>2. event = [scancode |-> event.scancode, pressed |-> event.pressed]
      BY <1>4 DEF Strokes
    <3> QED  BY <3>1, <3>2 DEF Events
  <2>2. set2 \in BOOLEAN
    BY DEF Ps2Types
  <2> QED  BY <2>1, <2>2
<1>9. delivered' = Append(delivered, answer)
  BY <1>6, <1>7
<1> HIDE DEF answer
<1>10. /\ delivered' \in Seq([key : Events, observed : BOOLEAN])
       /\ Len(delivered') = done + 1 /\ delivered'[done + 1] = answer
       /\ \A i \in 1 .. done : delivered'[i] = delivered[i]
  BY <1>2, <1>8, <1>9, AppendIs
<1> HIDE DEF done
<1>11. \A i \in 1 .. Len(delivered') : delivered'[i].key = typed[i]
  <2> TAKE i \in 1 .. Len(delivered')
  <2>1. CASE i = done + 1
    BY <1>8, <1>10, <2>1 DEF event
  <2>2. CASE i # done + 1
    <3>1. i \in 1 .. done
      BY <1>2, <1>10, <2>2
    <3> QED  BY <1>10, <3>1 DEF Set1Inv, done
  <2> QED  BY <2>1, <2>2
<1>12. \A j \in 1 .. Len(KeyBytes') : KeyBytes'[j] = Code1(typed[Len(delivered') + j])
  <2> TAKE j \in 1 .. Len(KeyBytes')
  <2>1. j \in 1 .. Len(KeyBytes) - 1 /\ j + 1 \in 1 .. Len(KeyBytes)
        /\ Len(delivered') + j = done + (j + 1)
    BY <1>1, <1>2, <1>10
  <2>2. KeyBytes'[j] = KeyBytes[j + 1]
    BY <1>1, <2>1
  <2>3. KeyBytes[j + 1] = Code1(typed[done + (j + 1)])
    BY <2>1 DEF Set1Inv, done
  <2> QED  BY <2>1, <2>2, <2>3, Zenon
<1>13. Len(delivered') + Len(KeyBytes') = Len(typed)
  <2>1. done + Len(KeyBytes) = Len(typed)
    BY DEF Set1Inv, done
  <2>2. Len(delivered') = done + 1
    BY <1>10
  <2>3. Len(KeyBytes') = Len(KeyBytes) - 1 /\ Len(KeyBytes) \in Nat
    BY <1>1
  <2>4. \A a, b \in Nat : (a + 1) + (b - 1) = a + b
    OBVIOUS
  <2>5. (done + 1) + (Len(KeyBytes) - 1) = Len(typed)
    BY <1>2, <2>1, <2>3, <2>4
  <2> QED  BY <2>2, <2>3, <2>5
<1> QED  BY <1>6, <1>10, <1>11, <1>12, <1>13 DEF Set1Inv

\* A byte of a set 2 keyboard is a prefix, or its keystroke's event.
LEMMA KeystrokeSet2 ==
  ASSUME CodesAreTold, Ps2Types, Set2Inv, KeyBytes # <<>>, typed' = typed,
         wire' = [wire EXCEPT !["keyboard"] = Tail(@)], Keystroke(Head(KeyBytes))
  PROVE  /\ Set2Inv' /\ delivered' \in Seq([key : Events, observed : BOOLEAN])
         /\ Len(delivered') <= Len(typed)
<1> DEFINE byte == Head(KeyBytes)
           done == Len(delivered)
           bytes == KeyBytes
           event == typed[done + 1]
<1>1. KeyBytes' = Tail(KeyBytes) /\ byte \in Nat
  BY ByteTaken
<1>2. /\ typed \in Seq(Strokes) /\ delivered \in Seq([key : Events, observed : BOOLEAN])
      /\ done \in Nat /\ Len(typed) \in Nat /\ bytes \in Seq(Nat) /\ bytes # <<>>
      /\ set2 \in BOOLEAN /\ set2Break \in BOOLEAN
  BY DEF Ps2Types, KeyBytes
<1>3. Spelt(bytes, typed, done, set2Break) /\ (set2Break => set2)
      /\ \A i \in 1 .. done : delivered[i].observed => delivered[i].key = typed[i]
  BY DEF Set2Inv
<1>4. byte = Head(bytes)
  OBVIOUS
<1>5. Keystroke(byte)
  OBVIOUS
<1> HIDE DEF byte, done, bytes, event
<1> DEFINE rest == Tail(bytes)
<1>6. rest = Tail(bytes) /\ KeyBytes' = rest
  BY <1>1 DEF bytes
<1> HIDE DEF rest
<1>7. CASE byte = SET2_BREAK
  <2>1. ~set2Break /\ Spelt(rest, typed, done, TRUE)
    BY <1>2, <1>3, <1>4, <1>6, <1>7, SpellsPrefix
  <2>2. set2' = TRUE /\ set2Break' = TRUE /\ delivered' = delivered
    BY <1>5, <1>7, <2>1 DEF Keystroke
  <2>3. done <= Len(typed)
    <3>1. PICK of \in [1 .. Len(bytes) -> 1 .. Len(typed)] : Spells(of, bytes, typed, done, set2Break)
      BY <1>3 DEF Spelt
    <3>2. 1 \in 1 .. Len(bytes)
      BY <1>2
    <3>3. of[1] = done + 1 /\ of[1] \in 1 .. Len(typed)
      BY <1>2, <3>1, <3>2 DEF Spells
    <3> QED  BY <1>2, <3>3
  <2>4. Spelt(KeyBytes', typed', Len(delivered'), set2Break')
    BY <1>6, <2>1, <2>2 DEF done
  <2>5. \A i \in 1 .. Len(delivered') : delivered'[i].observed => delivered'[i].key = typed'[i]
    BY <1>3, <2>2 DEF done
  <2>6. Len(delivered') <= Len(typed) /\ delivered' \in Seq([key : Events, observed : BOOLEAN])
    BY <1>2, <2>2, <2>3 DEF done
  <2> QED  BY <2>2, <2>4, <2>5, <2>6 DEF Set2Inv
<1>8. CASE byte # SET2_BREAK
  <2>0. event = typed[done + 1]
    BY DEF event
  <2>1. /\ done + 1 <= Len(typed) /\ IsSet2(byte, event)
        /\ event.pressed <=> ~set2Break
        /\ Spelt(rest, typed, done + 1, FALSE)
    <3>1. PICK of \in [1 .. Len(bytes) -> 1 .. Len(typed)] :
            Spells(of, bytes, typed, done, set2Break)
      BY <1>3 DEF Spelt
    <3> DEFINE after == FALSE
               upTo  == done + 1
    <3>2. /\ after \in BOOLEAN /\ (after <=> Head(bytes) = SET2_BREAK)
          /\ upTo \in Nat /\ upTo = IF Head(bytes) = SET2_BREAK THEN done ELSE done + 1
      BY <1>2, <1>4, <1>8
    <3> HIDE DEF after, upTo
    <3>3. Spelt(Tail(bytes), typed, upTo, after)
      BY <1>2, <3>1, <3>2, SpellsRest
    <3>4. 1 \in 1 .. Len(bytes) /\ bytes[1] = byte
      BY <1>2, <1>4, TailIs
    <3>5. of[1] = done + 1 /\ of[1] \in 1 .. Len(typed)
      BY <1>2, <3>1, <3>4 DEF Spells
    <3>6. IsSet2(byte, event) /\ (event.pressed <=> ~set2Break)
      <4>1. ~Prefixed(bytes, set2Break, 1) <=> ~set2Break
        BY DEF Prefixed
      <4>2. IsSet2(bytes[1], typed[of[1]])
            /\ (typed[of[1]].pressed <=> ~Prefixed(bytes, set2Break, 1))
        BY <1>8, <3>1, <3>4 DEF Spells
      <4> QED  BY <2>0, <3>4, <3>5, <4>1, <4>2
    <3>7. done + 1 <= Len(typed)
      BY <1>2, <3>5
    <3>8. Spelt(rest, typed, done + 1, FALSE)
      BY <1>6, <3>3 DEF after, upTo
    <3> QED  BY <3>6, <3>7, <3>8
  <2>2. event \in Strokes
    <3>1. done + 1 \in 1 .. Len(typed)
      BY <1>2, <2>1
    <3> QED  BY <1>2, <3>1 DEF event
  <2>3. PICK k \in Keys : byte = Set2[k] /\ event.scancode = Set1[k]
    BY <2>1 DEF IsSet2
  <2>4. Translated(byte) = event.scancode
    BY <2>3, TranslatedIs
  <2>5. set2Break' = FALSE /\ set2' = set2
    BY <1>2, <1>5, <1>8 DEF Keystroke
  <2>6. PICK answer \in [key : Events, observed : BOOLEAN] :
          delivered' = Append(delivered, answer) /\ (answer.observed => answer.key = event)
    <3>0. event \in Events
      <4>1. event.scancode \in 1 .. 127 /\ event.pressed \in BOOLEAN
        BY <2>2, StrokeIs
      <4>2. event.scancode \in Nat
        BY <4>1, Zenon, LowBits
      <4>3. event = [scancode |-> event.scancode, pressed |-> event.pressed]
        BY <2>2 DEF Strokes
      <4> QED  BY <4>1, <4>2, <4>3 DEF Events
    <3>1. CASE set2
      <4>1. delivered' = Append(delivered, [key |-> Key(event.scancode, ~set2Break), observed |-> set2])
        BY <1>2, <1>5, <1>8, <2>4, <3>1 DEF Keystroke, Deliver
      <4>2. Key(event.scancode, ~set2Break) = event
        <5>1. event = Key(event.scancode, event.pressed)
          BY <2>2, StrokeIs
        <5>2. event.pressed \in BOOLEAN
          BY <2>2, StrokeIs
        <5>3. event.pressed = ~set2Break
          BY <1>2, <2>1, <5>2
        <5> QED  BY <5>1, <5>3
      <4> DEFINE answer == [key |-> event, observed |-> set2]
      <4>3. answer \in [key : Events, observed : BOOLEAN] /\ answer.key = event
        BY <1>2, <3>0
      <4>4. delivered' = Append(delivered, answer)
        BY <4>1, <4>2
      <4> QED  BY <4>3, <4>4
    <3>2. CASE ~set2
      <4> DEFINE answer == [key |-> Key(byte % 128, byte < 128), observed |-> set2]
      <4>1. ~set2Break
        BY <1>3, <3>2
      <4>2. delivered' = Append(delivered, answer)
        BY <1>2, <1>5, <1>8, <3>2, <4>1 DEF Keystroke, Deliver
      <4>3. byte % 128 \in Nat /\ (byte < 128) \in BOOLEAN
        <5>1. \A n \in Nat : n % 128 \in Nat
          OBVIOUS
        <5> QED  BY <1>1, <5>1
      <4>4. answer \in [key : Events, observed : BOOLEAN] /\ ~answer.observed
        BY <1>2, <3>2, <4>3 DEF Key, Events
      <4> QED  BY <4>2, <4>4
    <3> QED  BY <1>2, <3>1, <3>2
  <2>7. /\ delivered' \in Seq([key : Events, observed : BOOLEAN])
        /\ Len(delivered') = done + 1 /\ delivered'[done + 1] = answer
        /\ \A i \in 1 .. done : delivered'[i] = delivered[i]
    BY <1>2, <2>6, AppendIs DEF done
  <2>8. Spelt(KeyBytes', typed', Len(delivered'), set2Break')
    <3>1. Spelt(rest, typed, done + 1, FALSE)
      BY <2>1
    <3> QED  BY <1>6, <2>5, <2>7, <3>1
  <2>9. \A i \in 1 .. Len(delivered') : delivered'[i].observed => delivered'[i].key = typed'[i]
    <3> TAKE i \in 1 .. Len(delivered')
    <3>1. CASE i = done + 1
      BY <2>6, <2>7, <3>1 DEF event
    <3>2. CASE i # done + 1
      <4>1. i \in 1 .. done
        BY <1>2, <2>7, <3>2
      <4> QED  BY <1>3, <2>7, <4>1
    <3> QED  BY <3>1, <3>2
  <2>10. Len(delivered') <= Len(typed)
    BY <2>1, <2>7
  <2> QED  BY <2>5, <2>7, <2>8, <2>9, <2>10 DEF Set2Inv
<1> QED  BY <1>7, <1>8

PointerBytes == [index : Nat, bit3 : BOOLEAN]

\* A byte of the pointer is collected, or not.
LEMMA AccumulateKeeps ==
  ASSUME Ps2Types, PacketInv, wire["aux"] # <<>>,
         wire' = [wire EXCEPT !["aux"] = Tail(@)], Accumulate(Head(wire["aux"]))
  PROVE  /\ KeyBytes' = KeyBytes /\ DOMAIN wire' = Ports
         /\ wire'["aux"] \in Seq(PointerBytes) /\ Len(wire'["aux"]) <= LineLen
         /\ packet' \in Seq(PointerBytes) /\ Len(packet') < PacketLen
         /\ packet' # <<>> => packet'[1].bit3
<1> DEFINE bytes == wire["aux"]
           byte  == Head(wire["aux"])
<1>1. KeyBytes' = KeyBytes /\ DOMAIN wire' = Ports /\ wire'["aux"] = Tail(bytes)
  BY DEF Ps2Types, KeyBytes, Ports
<1>2. bytes \in Seq(PointerBytes) /\ packet \in Seq(PointerBytes) /\ Len(bytes) <= LineLen
      /\ Len(packet) < PacketLen /\ (packet # <<>> => packet[1].bit3)
      /\ PacketLen \in {3, 4} /\ LineLen \in Nat
  BY Ps2Assumption DEF Ps2Types, PacketInv, PointerBytes, Ports
<1>3. packet' = IF packet = <<>> /\ ~byte.bit3 THEN packet ELSE Collected(byte)
  BY DEF Accumulate
<1> HIDE DEF bytes, byte
<1>4. byte \in PointerBytes /\ Tail(bytes) \in Seq(PointerBytes) /\ Len(Tail(bytes)) = Len(bytes) - 1
      /\ Len(bytes) \in Nat
  BY <1>2, TailIs DEF bytes, byte
<1>5. Len(wire'["aux"]) <= LineLen
  BY <1>1, <1>2, <1>4
<1>6. packet' \in Seq(PointerBytes) /\ Len(packet') < PacketLen /\ (packet' # <<>> => packet'[1].bit3)
  <2>1. CASE packet' = packet
    BY <1>2, <2>1
  <2>2. CASE packet' = <<>>
    <3>1. Len(<<>>) = 0 /\ <<>> \in Seq(PointerBytes)
      OBVIOUS
    <3> QED  BY <1>2, <2>2, <3>1
  <2>3. CASE packet' = Append(packet, byte) /\ Len(packet) # PacketLen - 1 /\ (packet = <<>> => byte.bit3)
    <3>1. packet' \in Seq(PointerBytes) /\ Len(packet') = Len(packet) + 1
          /\ packet'[Len(packet) + 1] = byte
          /\ \A j \in 1 .. Len(packet) : packet'[j] = packet[j]
      BY <1>2, <1>4, <2>3, AppendIs
    <3>2. Len(packet) \in Nat /\ (packet = <<>> <=> Len(packet) = 0)
      BY <1>2
    <3>3. packet'[1].bit3
      <4>1. CASE packet = <<>>
        BY <2>3, <3>1, <3>2, <4>1
      <4>2. CASE packet # <<>>
        <5>1. 1 \in 1 .. Len(packet)
          BY <3>2, <4>2
        <5>2. packet'[1] = packet[1]
          BY <3>1, <5>1
        <5> QED  BY <1>2, <4>2, <5>2
      <4> QED  BY <4>1, <4>2
    <3>4. Len(packet') < PacketLen
      BY <1>2, <2>3, <3>1, <3>2
    <3> QED  BY <3>1, <3>3, <3>4
  <2> QED  BY <1>3, <2>1, <2>2, <2>3 DEF Collected
<1> QED  BY <1>1, <1>4, <1>5, <1>6

\* Input::poll takes a byte of the 8042.
LEMMA Poll8042Keeps ==
  ASSUME CodesAreTold, Ps2Inv, Poll8042
  PROVE  Ps2Inv'
<1>0. Ps2Types /\ PacketInv /\ (scanSet = 1 => Set1Inv) /\ (scanSet = 2 => Set2Inv)
      /\ scanSet \in {1, 2}
  BY DEF Ps2Inv, Ps2Types
<1>1. UNCHANGED <<scanSet, down, typed, mouseAt, slow, lost>>
  BY DEF Poll8042, keyboard, mouse
<1>2. CASE /\ KeyBytes # <<>> /\ wire' = [wire EXCEPT !["keyboard"] = Tail(@)]
           /\ Keystroke(Head(KeyBytes))
  <2>1. /\ KeyBytes' = Tail(KeyBytes) /\ wire'["aux"] = wire["aux"] /\ DOMAIN wire' = Ports
        /\ KeyBytes' \in Seq(Nat) /\ Len(KeyBytes') = Len(KeyBytes) - 1 /\ Len(KeyBytes) \in Nat
    BY <1>0, <1>2, ByteTaken
  <2>2. packet' = packet
    BY <1>2 DEF Keystroke
  <2>3. set2' \in BOOLEAN /\ set2Break' \in BOOLEAN
    BY <1>0, <1>2 DEF Keystroke, Ps2Types
  <2>4. /\ delivered' \in Seq([key : Events, observed : BOOLEAN])
        /\ scanSet = 1 => Set1Inv'
        /\ scanSet = 2 => Set2Inv'
    <3>1. CASE scanSet = 1
      BY <1>0, <1>1, <1>2, <3>1, KeystrokeSet1
    <3>2. CASE scanSet = 2
      BY <1>0, <1>1, <1>2, <3>2, KeystrokeSet2
    <3> QED  BY <1>0, <3>1, <3>2
  <2>5. Ps2Types'
    BY <1>0, <1>1, <2>1, <2>2, <2>3, <2>4 DEF Ps2Types, KeyBytes
  <2>6. PacketInv'
    <3>1. Len(KeyBytes) <= LineLen /\ LineLen \in Nat /\ Len(wire["aux"]) <= LineLen
      BY <1>0, Ps2Assumption DEF PacketInv, KeyBytes, Ports
    <3>2. Len(KeyBytes') <= LineLen
      BY <2>1, <3>1
    <3>3. \A port \in Ports : Len(wire'[port]) <= LineLen
      BY <2>1, <3>1, <3>2 DEF Ports, KeyBytes
    <3> QED  BY <1>0, <2>2, <3>3 DEF PacketInv
  <2> QED  BY <1>1, <2>4, <2>5, <2>6 DEF Ps2Inv
<1>3. CASE /\ wire["aux"] # <<>> /\ wire' = [wire EXCEPT !["aux"] = Tail(@)]
           /\ Accumulate(Head(wire["aux"]))
  <2>1. /\ KeyBytes' = KeyBytes /\ DOMAIN wire' = Ports
        /\ wire'["aux"] \in Seq(PointerBytes) /\ Len(wire'["aux"]) <= LineLen
        /\ packet' \in Seq(PointerBytes) /\ Len(packet') < PacketLen
        /\ packet' # <<>> => packet'[1].bit3
    BY <1>0, <1>3, AccumulateKeeps
  <2>2. UNCHANGED <<set2, set2Break, delivered>>
    BY <1>3 DEF Accumulate
  <2>3. Ps2Types'
    BY <1>0, <1>1, <2>1, <2>2 DEF Ps2Types, KeyBytes, PointerBytes
  <2>4. PacketInv'
    <3>1. \A port \in Ports : Len(wire'[port]) <= LineLen
      BY <1>0, <2>1 DEF PacketInv, KeyBytes, Ports
    <3> QED  BY <2>1, <3>1 DEF PacketInv
  <2>5. scanSet = 1 => Set1Inv'
    BY <1>0, <1>1, <2>1, <2>2 DEF Set1Inv
  <2>6. scanSet = 2 => Set2Inv'
    BY <1>0, <1>1, <2>1, <2>2 DEF Set2Inv
  <2> QED  BY <1>1, <2>3, <2>4, <2>5, <2>6 DEF Ps2Inv
<1> QED  BY <1>2, <1>3 DEF Poll8042, Ports, KeyBytes

\* A key of the 8042's keyboard is pressed or released.
LEMMA TypeKeeps ==
  ASSUME Ps2Inv, NEW k \in Keys, Type(k)
  PROVE  Ps2Inv'
<1> DEFINE event == Key(Set1[k], k \notin down)
<1>0. Ps2Types /\ PacketInv /\ (scanSet = 1 => Set1Inv) /\ (scanSet = 2 => Set2Inv)
  BY DEF Ps2Inv
<1>9. event = Key(Set1[k], k \notin down)
  OBVIOUS
<1> HIDE DEF event
<1>1. /\ event \in Strokes /\ typed' = Append(typed, event)
      /\ KeyBytes' = KeyBytes \o Sent(k, k \notin down)
      /\ wire'["aux"] = wire["aux"] /\ DOMAIN wire' = Ports
      /\ Len(KeyBytes') <= LineLen /\ KeyBytes' \in Seq(Nat)
      /\ UNCHANGED <<scanSet, set2, set2Break, packet, delivered, mouse>>
  BY <1>0, <1>9, TypeIs
<1>2. typed' \in Seq(Strokes)
  <2>1. typed \in Seq(Strokes)
    BY <1>0 DEF Ps2Types
  <2> QED  BY <1>1, <2>1, AppendIs
<1>3. Ps2Types'
  BY <1>0, <1>1, <1>2 DEF Ps2Types, KeyBytes, mouse
<1>4. PacketInv'
  <2>1. \A port \in Ports : Len(wire'[port]) <= LineLen
    BY <1>0, <1>1 DEF PacketInv, KeyBytes, Ports
  <2> QED  BY <1>0, <1>1, <2>1 DEF PacketInv
<1>5. scanSet = 1 => Set1Inv'
  BY <1>0, TypeSet1
<1>6. scanSet = 2 => Set2Inv'
  BY <1>0, TypeSet2
<1> QED  BY <1>1, <1>3, <1>4, <1>5, <1>6 DEF Ps2Inv

\* The mouse sends a byte, or loses one.
LEMMA PointerKeeps ==
  ASSUME Ps2Inv, NEW small \in BOOLEAN, Move(small) \/ Lose
  PROVE  Ps2Inv'
<1>0. Ps2Types /\ PacketInv /\ (scanSet = 1 => Set1Inv) /\ (scanSet = 2 => Set2Inv)
      /\ PacketLen \in {3, 4}
  BY Ps2Assumption DEF Ps2Inv
<1>1. UNCHANGED <<scanSet, typed, set2, set2Break, packet, delivered>>
  BY DEF Move, Lose, keyboard, decoder
<1>2. mouseAt' \in Nat /\ slow' \in BOOLEAN
  <2>1. mouseAt' = (mouseAt % PacketLen) + 1 /\ mouseAt \in Nat /\ slow \in BOOLEAN
    BY <1>0 DEF Move, Lose, NextByte, Ps2Types
  <2>2. slow' = slow \/ slow' = small \/ slow' = FALSE
    BY DEF Move, Lose, Paced
  <2>3. \A n \in Nat, m \in {3, 4} : (n % m) + 1 \in Nat
    OBVIOUS
  <2>4. mouseAt' \in Nat
    BY <1>0, <2>1, <2>3
  <2>5. slow' \in BOOLEAN
    BY <2>1, <2>2
  <2> QED  BY <2>4, <2>5
<1>3. /\ KeyBytes' = KeyBytes /\ DOMAIN wire' = Ports
      /\ wire'["aux"] \in Seq(PointerBytes) /\ Len(wire'["aux"]) <= LineLen
  <2>1. CASE Move(small)
    <3> DEFINE bytes == wire["aux"]
               byte  == MouseByte
    <3>1. wire' = [wire EXCEPT !["aux"] = bytes \o <<byte>>] /\ Len(bytes) + Len(<<byte>>) <= LineLen
      BY <2>1 DEF Move, Send
    <3>2. KeyBytes' = KeyBytes /\ DOMAIN wire' = Ports /\ wire'["aux"] = bytes \o <<byte>>
      BY <1>0, <3>1 DEF Ps2Types, KeyBytes, Ports
    <3>3. bytes \in Seq(PointerBytes) /\ byte \in PointerBytes
      BY <1>0, <1>2 DEF Ps2Types, MouseByte, PointerBytes
    <3> HIDE DEF bytes, byte
    <3>4. bytes \o <<byte>> \in Seq(PointerBytes) /\ Len(bytes \o <<byte>>) = Len(bytes) + 1
      BY <3>3, OneMore
    <3>5. Len(<<byte>>) = 1
      OBVIOUS
    <3> QED  BY <3>1, <3>2, <3>4, <3>5
  <2>2. CASE Lose
    BY <1>0, <2>2 DEF Lose, Ps2Types, PacketInv, KeyBytes, PointerBytes, Ports
  <2> QED  BY <2>1, <2>2
<1>4. Ps2Types'
  BY <1>0, <1>1, <1>2, <1>3 DEF Ps2Types, KeyBytes, PointerBytes
<1>5. PacketInv'
  <2>1. \A port \in Ports : Len(wire'[port]) <= LineLen
    BY <1>0, <1>3 DEF PacketInv, KeyBytes, Ports
  <2> QED  BY <1>0, <1>1, <2>1 DEF PacketInv
<1>6. scanSet = 1 => Set1Inv'
  BY <1>0, <1>1, <1>3 DEF Set1Inv
<1>7. scanSet = 2 => Set2Inv'
  BY <1>0, <1>1, <1>3 DEF Set2Inv
<1> QED  BY <1>1, <1>4, <1>5, <1>6, <1>7 DEF Ps2Inv

\* A step of another device.
LEMMA Ps2Stutters ==
  ASSUME Ps2Inv, UNCHANGED ps2
  PROVE  Ps2Inv'
<1>1. UNCHANGED <<scanSet, typed, mouseAt, slow, wire, set2, set2Break, packet, delivered>>
  BY DEF ps2, keyboard, mouse, decoder
<1>2. KeyBytes' = KeyBytes
  BY <1>1 DEF KeyBytes
<1>3. Ps2Types' /\ PacketInv'
  BY <1>1 DEF Ps2Inv, Ps2Types, PacketInv
<1>4. (scanSet = 1 => Set1Inv)' /\ (scanSet = 2 => Set2Inv)'
  BY <1>1, <1>2 DEF Ps2Inv, Set1Inv, Set2Inv
<1> QED  BY <1>3, <1>4 DEF Ps2Inv

\* Nothing is typed yet.
LEMMA Ps2InitHolds == Ps2Init => Ps2Inv
<1> SUFFICES ASSUME Ps2Init PROVE Ps2Inv
  OBVIOUS
<1>1. /\ scanSet \in {1, 2} /\ typed = <<>> /\ delivered = <<>> /\ mouseAt = 1 /\ slow = FALSE
      /\ wire = [port \in Ports |-> <<>>] /\ set2 = FALSE /\ set2Break = FALSE /\ packet = <<>>
      /\ KeyBytes = <<>> /\ wire["aux"] = <<>>
  BY DEF Ps2Init, KeyBytes, Ports
<1>2. Ps2Types
  <2>1. \A S : <<>> \in Seq(S)
    OBVIOUS
  <2>2. /\ typed \in Seq(Strokes) /\ delivered \in Seq([key : Events, observed : BOOLEAN])
        /\ wire["keyboard"] \in Seq(Nat) /\ wire["aux"] \in Seq([index : Nat, bit3 : BOOLEAN])
        /\ packet \in Seq([index : Nat, bit3 : BOOLEAN])
    BY <1>1, <2>1, Zenon DEF KeyBytes
  <2>3. DOMAIN wire = Ports /\ mouseAt \in Nat
    BY <1>1
  <2> QED  BY <1>1, <2>2, <2>3 DEF Ps2Types
<1>3. PacketInv
  <2>1. PacketLen \in {3, 4} /\ LineLen \in Nat
    BY Ps2Assumption
  <2>2. Len(<<>>) = 0
    OBVIOUS
  <2> QED  BY <1>1, <2>1, <2>2 DEF PacketInv
<1>4. Set1Inv
  BY <1>1 DEF Set1Inv
<1>5. Set2Inv
  <2>1. Len(<<>>) = 0
    OBVIOUS
  <2> DEFINE none == [j \in {} |-> 1]
  <2>2. none \in [1 .. 0 -> 1 .. 0]
    OBVIOUS
  <2>3. Spells(none, <<>>, <<>>, 0, FALSE)
    BY <2>1 DEF Spells
  <2>4. Spelt(<<>>, <<>>, 0, FALSE)
    BY <2>1, <2>2, <2>3 DEF Spelt
  <2>5. Spelt(KeyBytes, typed, Len(delivered), set2Break)
    BY <1>1, <2>1, <2>4
  <2>6. 1 .. Len(delivered) = {}
    BY <1>1, <2>1
  <2> QED  BY <1>1, <2>5, <2>6 DEF Set2Inv
<1> QED  BY <1>1, <1>2, <1>3, <1>4, <1>5 DEF Ps2Inv

\* What the run checks of the 8042.
LEMMA Ps2Follows == Ps2Inv => Ps2TypeOK /\ Ps2KeysArriveAsTyped
<1> SUFFICES ASSUME Ps2Inv PROVE Ps2TypeOK /\ Ps2KeysArriveAsTyped
  OBVIOUS
<1>0. /\ Ps2Types /\ PacketInv /\ scanSet \in {1, 2} /\ (scanSet = 1 => Set1Inv) /\ (scanSet = 2 => Set2Inv)
      /\ typed \in Seq(Strokes) /\ delivered \in Seq([key : Events, observed : BOOLEAN])
      /\ KeyBytes \in Seq(Nat)
  BY DEF Ps2Inv, Ps2Types, KeyBytes
<1>1. Len(delivered) <= Len(typed)
  <2>1. CASE scanSet = 1
    BY <1>0, <2>1 DEF Set1Inv
  <2>2. CASE scanSet = 2
    <3> DEFINE bytes == KeyBytes
               done  == Len(delivered)
    <3>1. PICK of \in [1 .. Len(bytes) -> 1 .. Len(typed)] : Spells(of, bytes, typed, done, set2Break)
      BY <1>0, <2>2 DEF Set2Inv, Spelt
    <3>2. done \in Nat /\ Len(typed) \in Nat /\ bytes \in Seq(Nat)
      BY <1>0
    <3> HIDE DEF bytes, done
    <3>3. CASE bytes = <<>>
      BY <3>1, <3>2, <3>3 DEF Spells, done
    <3>4. CASE bytes # <<>>
      <4>1. 1 \in 1 .. Len(bytes)
        BY <3>2, <3>4
      <4>2. of[1] = done + 1 /\ of[1] \in 1 .. Len(typed)
        BY <3>1, <3>4, <4>1 DEF Spells
      <4> QED  BY <3>2, <4>2 DEF done
    <3> QED  BY <3>3, <3>4
  <2> QED  BY <1>0, <2>1, <2>2
<1>2. Ps2TypeOK
  BY <1>0, <1>1 DEF Ps2TypeOK, PacketInv
<1>3. Ps2KeysArriveAsTyped
  <2> SUFFICES ASSUME NEW i \in 1 .. Len(delivered), scanSet = 1 \/ delivered[i].observed
               PROVE  delivered[i].key = typed[i]
    BY <1>0 DEF Ps2KeysArriveAsTyped
  <2>1. CASE scanSet = 1
    BY <1>0, <2>1 DEF Set1Inv
  <2>2. CASE scanSet = 2
    BY <1>0, <2>2 DEF Set2Inv
  <2> QED  BY <1>0, <2>1, <2>2
<1> QED  BY <1>2, <1>3

\* Two reports differ where an event comes of it.
LEMMA NoChange ==
  ASSUME NEW keys, NEW was
  PROVE  KeysChanged(keys, was) = {} <=> keys = was
<1>1. CASE keys = was
  BY <1>1 DEF KeysChanged, Keystrokes
<1>2. CASE keys \ was # {}
  <2>1. PICK k \in keys \ was : TRUE
    BY <1>2
  <2>2. Key(Set1[k], TRUE) \in KeysChanged(keys, was)
    BY <1>2, <2>1 DEF KeysChanged, Keystrokes
  <2> QED  BY <1>2, <2>2
<1>3. CASE keys \ was = {} /\ keys # was
  <2>1. PICK k \in was \ keys : TRUE
    BY <1>3
  <2>2. Key(Set1[k], FALSE) \in KeysChanged(keys, was)
    BY <1>3, <2>1 DEF KeysChanged, Keystrokes
  <2> QED  BY <1>3, <2>2
<1> QED  BY <1>1, <1>2, <1>3

\* What comes of two reports is a keystroke.
LEMMA ChangesAreStrokes ==
  ASSUME NEW keys \in SUBSET Keys, NEW was \in SUBSET Keys, NEW event \in KeysChanged(keys, was)
  PROVE  event \in Strokes
<1>1. PICK k \in Keys, isDown \in BOOLEAN : event = Key(Set1[k], isDown)
  <2>1. CASE keys \ was # {}
    <3>1. PICK k \in keys \ was : event = Key(Set1[k], TRUE)
      BY <2>1 DEF KeysChanged, Keystrokes
    <3>2. k \in Keys /\ TRUE \in BOOLEAN
      OBVIOUS
    <3> QED  BY <3>1, <3>2
  <2>2. CASE keys \ was = {}
    <3>1. PICK k \in was \ keys : event = Key(Set1[k], FALSE)
      BY <2>2 DEF KeysChanged, Keystrokes
    <3>2. k \in Keys /\ FALSE \in BOOLEAN
      OBVIOUS
    <3> QED  BY <3>1, <3>2
  <2> QED  BY <2>1, <2>2
<1> QED  BY <1>1, EventIs

\* One key more, or one less.
Toggled(was, k) == IF k \in was THEN was \ {k} ELSE was \cup {k}

\* And it makes one event, of that key.
LEMMA ToggleIsOneKey ==
  ASSUME NEW was \in SUBSET Keys, NEW k \in Keys, NEW keys, keys = Toggled(was, k)
  PROVE  /\ keys \in SUBSET Keys /\ keys # was
         /\ KeysChanged(keys, was) = {Key(Set1[k], k \notin was)}
<1>1. CASE k \in was
  <2>1. keys \ was = {} /\ was \ keys = {k} /\ keys \in SUBSET Keys /\ keys # was
    BY <1>1 DEF Toggled
  <2>2. KeysChanged(keys, was) = {Key(Set1[k], FALSE)}
    BY <2>1 DEF KeysChanged, Keystrokes
  <2>3. (k \notin was) = FALSE
    BY <1>1
  <2> QED  BY <2>1, <2>2, <2>3
<1>2. CASE k \notin was
  <2>1. keys \ was = {k} /\ keys \in SUBSET Keys /\ keys # was
    BY <1>2 DEF Toggled
  <2>2. KeysChanged(keys, was) = {Key(Set1[k], TRUE)}
    BY <2>1 DEF KeysChanged, Keystrokes
  <2>3. (k \notin was) = TRUE
    BY <1>2
  <2> QED  BY <2>1, <2>2, <2>3
<1> QED  BY <1>1, <1>2

\* A keystroke is made.
LEMMA MadeOneMore ==
  ASSUME NEW h \in SUBSET Keys, NEW r \in SUBSET Keys, NEW p \in SUBSET Keys,
         NEW made \in Seq(Strokes), NEW got \in Seq(Strokes),
         NEW k \in Keys, NEW keys, NEW event,
         keys = Toggled(h, k), event = Key(Set1[k], k \notin h)
  PROVE  /\ Fewer(h, r, p, made, got) => Fewer(keys, r, p, Append(made, event), got)
         /\ Owes(h, r, p, made, got) /\ h = r => Owes(keys, r, p, Append(made, event), got)
<1> DEFINE all == Append(made, event)
           n   == Len(made)
           m   == Len(got)
<1>0. event \in Strokes
  <2>1. (k \notin h) \in BOOLEAN
    OBVIOUS
  <2> QED  BY <2>1, EventIs
<1>1. /\ all \in Seq(Strokes) /\ Len(all) = n + 1 /\ all[n + 1] = event
      /\ \A j \in 1 .. n : all[j] = made[j]
  BY <1>0, AppendIs
<1>2. n \in Nat /\ m \in Nat
  OBVIOUS
<1>3. keys # h /\ KeysChanged(keys, h) = {event}
  BY ToggleIsOneKey
<1>4. \A c : One(c) \in {0, 1} /\ (c => One(c) = 1) /\ (~c => One(c) = 0)
  BY DEF One
<1> HIDE DEF all
<1>5. ASSUME Fewer(h, r, p, made, got) PROVE Fewer(keys, r, p, all, got)
  <2> DEFINE a == One(r # p)
             b == One(h # r)
             c == One(keys # r)
  <2>1. m + a + b <= n /\ Len(all) = n + 1
    BY <1>1, <1>5 DEF Fewer
  <2>2. a \in {0, 1} /\ b \in {0, 1} /\ c \in {0, 1}
    BY DEF One
  <2> HIDE DEF a, b, c, n, m
  <2>3. m + a + c <= Len(all)
    BY <1>2, <2>1, <2>2
  <2> QED  BY <2>3 DEF Fewer, a, c, m
<1>6. ASSUME Owes(h, r, p, made, got), h = r PROVE Owes(keys, r, p, all, got)
  <2> DEFINE a == One(r # p)
  <2>1. One(h # r) = 0 /\ One(keys # r) = 1 /\ a \in {0, 1} /\ (r # p => a = 1)
    BY <1>3, <1>6 DEF One
  <2>2. m + a + 0 = n
    BY <1>6, <2>1 DEF Owes
  <2>3. m + a + 1 = Len(all)
    <3> HIDE DEF a, n, m
    <3> QED  BY <1>1, <1>2, <2>1, <2>2
  <2>4. \A i \in 1 .. m : got[i] = all[i]
    <3> TAKE i \in 1 .. m
    <3>1. i \in 1 .. n
      <4> HIDE DEF a, n, m
      <4> QED  BY <1>2, <2>1, <2>2
    <3>2. all[i] = made[i]
      BY <1>1, <3>1
    <3> QED  BY <1>6, <3>2 DEF Owes
  <2>5. r # p => KeysChanged(r, p) = {all[m + 1]}
    <3> SUFFICES ASSUME r # p PROVE KeysChanged(r, p) = {all[m + 1]}
      OBVIOUS
    <3>1. m + 1 \in 1 .. n
      <4> HIDE DEF a, n, m
      <4> QED  BY <1>2, <2>1, <2>2
    <3>2. all[m + 1] = made[m + 1]
      BY <1>1, <3>1
    <3> QED  BY <1>6, <3>2 DEF Owes
  <2>6. KeysChanged(keys, r) = {all[Len(all)]}
    BY <1>1, <1>3, <1>6
  <2>7. m + One(r # p) + One(keys # r) = Len(all)
    BY <2>1, <2>3
  <2> QED  BY <2>4, <2>5, <2>6, <2>7 DEF Owes
<1> QED  BY <1>5, <1>6 DEF all

\* All that is held is reported, the driver having had the report before.
LEMMA ReportedWhole ==
  ASSUME NEW h, NEW r, NEW p, NEW made \in Seq(Strokes), NEW got \in Seq(Strokes), r = p
  PROVE  /\ Fewer(h, r, p, made, got) => Fewer(h, h, p, made, got)
         /\ Owes(h, r, p, made, got) => Owes(h, h, p, made, got)
<1>1. One(r # p) = 0 /\ One(h # r) = One(h # p) /\ One(h # h) = 0
      /\ One(h # p) \in {0, 1} /\ (h # p => One(h # p) = 1)
  BY DEF One
<1>2. Len(got) \in Nat /\ Len(made) \in Nat
  OBVIOUS
<1>3. Fewer(h, r, p, made, got) => Fewer(h, h, p, made, got)
  BY <1>1, <1>2 DEF Fewer
<1>4. ASSUME Owes(h, r, p, made, got) PROVE Owes(h, h, p, made, got)
  <2>1. Len(got) + 0 + One(h # p) = Len(made)
    BY <1>1, <1>4 DEF Owes
  <2>2. Len(got) + One(h # p) + 0 = Len(made)
    <3> DEFINE c == One(h # p)
               n == Len(made)
               m == Len(got)
    <3>1. m + 0 + c = n /\ c \in {0, 1} /\ m \in Nat /\ n \in Nat
      BY <1>1, <1>2, <2>1
    <3> HIDE DEF c, n, m
    <3>2. m + c + 0 = n
      BY <3>1
    <3> QED  BY <3>2 DEF c, n, m
  <2>3. h # p => KeysChanged(h, p) = {made[Len(got) + 1]}
    <3> SUFFICES ASSUME h # p PROVE KeysChanged(h, p) = {made[Len(got) + 1]}
      OBVIOUS
    <3>1. Len(got) + 1 = Len(made)
      BY <1>1, <1>2, <2>2
    <3>2. KeysChanged(h, r) = {made[Len(made)]}
      BY <1>4 DEF Owes
    <3> QED  BY <3>1, <3>2
  <2> QED  BY <1>1, <1>4, <2>2, <2>3 DEF Owes
<1> QED  BY <1>3, <1>4

\* And the event of a report is handed on.
LEMMA GotOneMore ==
  ASSUME NEW h, NEW r \in SUBSET Keys, NEW p \in SUBSET Keys,
         NEW made \in Seq(Strokes), NEW got \in Seq(Strokes), NEW event \in KeysChanged(r, p)
  PROVE  /\ Fewer(h, r, p, made, got) => Fewer(h, r, r, made, Append(got, event))
         /\ Owes(h, r, p, made, got) => Owes(h, r, r, made, Append(got, event))
<1> DEFINE all == Append(got, event)
           n   == Len(made)
           m   == Len(got)
           b   == One(h # r)
<1>1. event \in Strokes
  BY ChangesAreStrokes
<1>2. /\ all \in Seq(Strokes) /\ Len(all) = m + 1 /\ all[m + 1] = event
      /\ \A j \in 1 .. m : all[j] = got[j]
  BY <1>1, AppendIs
<1>3. r # p
  BY NoChange
<1>4. One(r # p) = 1 /\ One(r # r) = 0 /\ b \in {0, 1}
  BY <1>3 DEF One
<1>5. n \in Nat /\ m \in Nat
  OBVIOUS
<1> HIDE DEF all
<1>6. ASSUME Fewer(h, r, p, made, got) PROVE Fewer(h, r, r, made, all)
  <2>1. m + 1 + b <= n
    BY <1>4, <1>6 DEF Fewer
  <2> HIDE DEF b, n, m
  <2>2. Len(all) + 0 + b <= n
    BY <1>2, <1>4, <1>5, <2>1
  <2> QED  BY <1>4, <2>2 DEF Fewer, b, n
<1>7. ASSUME Owes(h, r, p, made, got) PROVE Owes(h, r, r, made, all)
  <2>1. m + 1 + b = n
    BY <1>4, <1>7 DEF Owes
  <2>2. Len(all) + 0 + b = n
    <3> HIDE DEF b, n, m
    <3> QED  BY <1>2, <1>4, <1>5, <2>1
  <2>3. \A i \in 1 .. Len(all) : all[i] = made[i]
    <3> TAKE i \in 1 .. Len(all)
    <3>1. CASE i = m + 1
      <4>1. KeysChanged(r, p) = {made[m + 1]}
        BY <1>3, <1>7 DEF Owes
      <4>2. event = made[m + 1]
        BY <4>1
      <4> QED  BY <1>2, <3>1, <4>2
    <3>2. CASE i # m + 1
      <4>1. i \in 1 .. m
        BY <1>2, <1>5, <3>2
      <4> QED  BY <1>2, <1>7, <4>1 DEF Owes
    <3> QED  BY <3>1, <3>2
  <2>4. h # r => KeysChanged(h, r) = {made[n]}
    BY <1>7 DEF Owes
  <2> QED  BY <1>4, <2>2, <2>3, <2>4 DEF Owes
<1> QED  BY <1>6, <1>7 DEF all

\* The two halves of KeysInv, of one keyboard.
KeyboardInv(d) ==
  /\ Fewer(held[d], reported[d], previous[d], pressed[d], received[d])
  /\ ~rushed[d] => Owes(held[d], reported[d], previous[d], pressed[d], received[d])

\* A step of the 8042.
LEMMA HidStutters ==
  ASSUME HidInv, UNCHANGED hid
  PROVE  HidInv'
BY DEF HidInv, HidTypes, LineInv, KeysInv, hid

\* A key of a HID keyboard is pressed or released.
LEMMA TypeOnKeeps ==
  ASSUME HidInv, NEW d \in HidKeyboards, NEW k \in Keys, TypeOn(d, k)
  PROVE  HidInv'
<1> DEFINE h     == held[d]
           r     == reported[d]
           p     == previous[d]
           made  == pressed[d]
           got   == received[d]
           event == Key(Set1[k], k \notin held[d])
           keys  == Toggled(held[d], k)
           all   == Append(pressed[d], event)
<1>1. HidTypes /\ LineInv /\ KeysInv
  BY DEF HidInv
<1>2. /\ held' = [held EXCEPT ![d] = keys]
      /\ pressed' = [pressed EXCEPT ![d] = all]
      /\ rushed' = [rushed EXCEPT ![d] = rushed[d] \/ h # r]
      /\ UNCHANGED <<reported, line, previous, received>>
  BY DEF TypeOn, Toggled
<1>3. d \in Hid /\ HidKeyboards \subseteq Hid
  BY DEF Hid, HidKeyboards, UsbDevices, I2cDevices
<1>4. /\ h \in SUBSET Keys /\ r \in SUBSET Keys /\ p \in SUBSET Keys
      /\ made \in Seq(Strokes) /\ got \in Seq(Strokes)
  BY <1>1, <1>3 DEF HidTypes
<1>5. keys = Toggled(h, k) /\ event = Key(Set1[k], k \notin h) /\ all = Append(made, event)
  OBVIOUS
<1>6. keys \in SUBSET Keys
  <2> HIDE DEF keys, h
  <2> QED  BY <1>4, <1>5 DEF Toggled
<1>7. event \in Strokes
  <2>1. (k \notin h) \in BOOLEAN
    OBVIOUS
  <2> QED  BY <2>1, EventIs
<1>8. Fewer(h, r, p, made, got) /\ (~rushed[d] => Owes(h, r, p, made, got))
  BY <1>1 DEF KeysInv
<1>9. rushed[d] \in BOOLEAN
  BY <1>1 DEF HidTypes
<1> HIDE DEF h, r, p, made, got, event, keys, all
<1>10. all \in Seq(Strokes)
  BY <1>4, <1>5, <1>7, AppendIs
<1>11. Fewer(keys, r, p, all, got)
  BY <1>4, <1>5, <1>8, MadeOneMore
<1>12. ~rushed[d] /\ h = r => Owes(keys, r, p, all, got)
  BY <1>4, <1>5, <1>8, MadeOneMore
<1>13. held'[d] = keys /\ pressed'[d] = all /\ rushed'[d] = (rushed[d] \/ h # r)
  BY <1>1, <1>2, <1>3 DEF HidTypes
<1>14. \A e \in HidKeyboards : e # d =>
         held'[e] = held[e] /\ pressed'[e] = pressed[e] /\ rushed'[e] = rushed[e]
  BY <1>1, <1>2, <1>3 DEF HidTypes
<1>15. HidTypes'
  <2>1. held' \in [Hid -> SUBSET Keys]
    BY <1>1, <1>2, <1>6 DEF HidTypes
  <2>2. pressed' \in [HidKeyboards -> Seq(Strokes)]
    BY <1>1, <1>2, <1>10 DEF HidTypes
  <2>3. rushed' \in [HidKeyboards -> BOOLEAN]
    BY <1>1, <1>2 DEF HidTypes
  <2> QED  BY <1>1, <1>2, <2>1, <2>2, <2>3 DEF HidTypes
<1>16. LineInv'
  BY <1>1, <1>2 DEF LineInv
<1>17. KeysInv'
  <2> SUFFICES ASSUME NEW e \in HidKeyboards
               PROVE  /\ Fewer(held'[e], reported'[e], previous'[e], pressed'[e], received'[e])
                      /\ ~rushed'[e] => Owes(held'[e], reported'[e], previous'[e], pressed'[e], received'[e])
    BY DEF KeysInv
  <2>1. CASE e = d
    <3>1. /\ held'[e] = keys /\ reported'[e] = r /\ previous'[e] = p /\ pressed'[e] = all
          /\ received'[e] = got
      BY <1>2, <1>13, <2>1 DEF r, p, got
    <3>2. ~rushed'[e] => ~rushed[d] /\ h = r
      BY <1>9, <1>13, <2>1
    <3> QED  BY <1>11, <1>12, <3>1, <3>2
  <2>2. CASE e # d
    BY <1>1, <1>2, <1>14, <2>2 DEF KeysInv
  <2> QED  BY <2>1, <2>2
<1> QED  BY <1>15, <1>16, <1>17 DEF HidInv

\* A HID device makes its report.
LEMMA ReportKeeps ==
  ASSUME HidInv, NEW d \in Hid, Report(d)
  PROVE  HidInv'
<1>1. HidTypes /\ LineInv /\ KeysInv
  BY DEF HidInv
<1>2. /\ line[d] = {} /\ line' = [line EXCEPT ![d] = {held[d]}]
      /\ reported' = [reported EXCEPT ![d] = held[d]]
      /\ UNCHANGED <<held, previous, pressed, received, rushed>>
  BY DEF Report
<1>3. HidKeyboards \subseteq Hid
  BY DEF Hid, HidKeyboards, UsbDevices, I2cDevices
<1>4. HidTypes'
  BY <1>1, <1>2 DEF HidTypes
<1>5. /\ line'[d] = {held[d]} /\ reported'[d] = held[d]
      /\ \A e \in Hid : e # d => line'[e] = line[e] /\ reported'[e] = reported[e]
  BY <1>1, <1>2 DEF HidTypes
<1>6. LineInv'
  <2>1. \A e \in Hid : line'[e] \in {{}, {reported'[e]}}
    BY <1>1, <1>5 DEF LineInv
  <2>2. \A e \in HidKeyboards : line'[e] = {} => previous'[e] = reported'[e]
    BY <1>1, <1>2, <1>3, <1>5 DEF LineInv
  <2> QED  BY <2>1, <2>2 DEF LineInv
<1>7. KeysInv'
  <2> SUFFICES ASSUME NEW e \in HidKeyboards
               PROVE  /\ Fewer(held'[e], reported'[e], previous'[e], pressed'[e], received'[e])
                      /\ ~rushed'[e] => Owes(held'[e], reported'[e], previous'[e], pressed'[e], received'[e])
    BY DEF KeysInv
  <2>1. CASE e = d
    <3> DEFINE h    == held[d]
               r    == reported[d]
               p    == previous[d]
               made == pressed[d]
               got  == received[d]
    <3>1. r = p /\ made \in Seq(Strokes) /\ got \in Seq(Strokes)
      BY <1>1, <1>2, <2>1 DEF LineInv, HidTypes
    <3>2. Fewer(h, r, p, made, got) /\ (~rushed[d] => Owes(h, r, p, made, got))
      BY <1>1, <2>1 DEF KeysInv
    <3>3. /\ held'[e] = h /\ reported'[e] = h /\ previous'[e] = p /\ pressed'[e] = made
          /\ received'[e] = got /\ rushed'[e] = rushed[d]
      BY <1>2, <1>5, <2>1
    <3> HIDE DEF h, r, p, made, got
    <3>4. Fewer(h, h, p, made, got)
      BY <3>1, <3>2, ReportedWhole
    <3>5. ~rushed[d] => Owes(h, h, p, made, got)
      BY <3>1, <3>2, ReportedWhole
    <3> QED  BY <3>3, <3>4, <3>5
  <2>2. CASE e # d
    BY <1>1, <1>2, <1>3, <1>5, <2>2 DEF KeysInv
  <2> QED  BY <2>1, <2>2
<1> QED  BY <1>4, <1>6, <1>7 DEF HidInv

\* What a poll finds: of the devices it reads, what they reported, or what
\* they hold when the report comes as it is read.
Reports(all) ==
  [d \in all |-> IF line[d] = {} THEN held[d] ELSE CHOOSE keys \in line[d] : TRUE]

LEMMA ReadsAre ==
  ASSUME NEW all \in SUBSET Hid, NEW read, HidInv, read = Reports(all)
  PROVE  /\ DOMAIN read = all
         /\ \A d \in all : /\ read[d] = IF line[d] = {} THEN held[d] ELSE reported[d]
                           /\ read[d] \in SUBSET Keys
<1>1. DOMAIN read = all
  BY DEF Reports
<1>2. ASSUME NEW d \in all
      PROVE  /\ read[d] = IF line[d] = {} THEN held[d] ELSE reported[d]
             /\ read[d] \in SUBSET Keys
  <2>1. line[d] \in {{}, {reported[d]}} /\ held[d] \in SUBSET Keys /\ reported[d] \in SUBSET Keys
    BY DEF HidInv, HidTypes, LineInv
  <2>2. line[d] # {} => (CHOOSE keys \in line[d] : TRUE) = reported[d]
    BY <2>1
  <2>3. read[d] = IF line[d] = {} THEN held[d] ELSE reported[d]
    BY <2>2 DEF Reports
  <2> QED  BY <2>1, <2>3
<1> QED  BY <1>1, <1>2

\* What one keyboard's report changes of it.
LEMMA OneRead ==
  ASSUME NEW h \in SUBSET Keys, NEW r \in SUBSET Keys, NEW p \in SUBSET Keys,
         NEW made \in Seq(Strokes), NEW got \in Seq(Strokes), NEW q, NEW after, NEW fast \in BOOLEAN,
         Fewer(h, r, p, made, got), ~fast => Owes(h, r, p, made, got),
         q = r \/ (q = h /\ r = p),
         \/ q = p /\ after = got
         \/ \E event \in KeysChanged(q, p) : after = Append(got, event)
  PROVE  Fewer(h, q, q, made, after) /\ (~fast => Owes(h, q, q, made, after))
<1>1. Fewer(h, q, p, made, got) /\ (~fast => Owes(h, q, p, made, got)) /\ q \in SUBSET Keys
  <2>1. CASE q = r
    BY <2>1
  <2>2. CASE q = h /\ r = p
    BY <2>2, ReportedWhole
  <2> QED  BY <2>1, <2>2
<1>2. CASE q = p /\ after = got
  BY <1>1, <1>2
<1>3. ASSUME NEW event \in KeysChanged(q, p), after = Append(got, event)
      PROVE  Fewer(h, q, q, made, after) /\ (~fast => Owes(h, q, q, made, after))
  BY <1>1, <1>3, GotOneMore
<1> QED  BY <1>2, <1>3

\* The reports are taken, of which one has an event at most.
LEMMA TakeKeeps ==
  ASSUME NEW all \in SUBSET Hid, NEW read, HidInv, read = Reports(all),
         \A d, e \in all \cap HidKeyboards :
           d # e => KeysChanged(read[d], previous[d]) = {} \/ KeysChanged(read[e], previous[e]) = {},
         Take(read), UNCHANGED <<held, pressed, rushed>>
  PROVE  HidInv'
<1>1. HidTypes /\ LineInv /\ KeysInv
  BY DEF HidInv
<1>2. /\ DOMAIN read = all
      /\ \A d \in all : /\ read[d] = IF line[d] = {} THEN held[d] ELSE reported[d]
                        /\ read[d] \in SUBSET Keys
  BY ReadsAre
<1>3. /\ \A d \in Hid : /\ line'[d] = IF d \in all THEN {} ELSE line[d]
                        /\ reported'[d] = IF d \in all THEN read[d] ELSE reported[d]
                        /\ previous'[d] = IF d \in all \cap HidKeyboards THEN read[d] ELSE previous[d]
      /\ DOMAIN line' = Hid /\ DOMAIN reported' = Hid /\ DOMAIN previous' = Hid
      /\ reported' = [d \in Hid |-> reported'[d]] /\ previous' = [d \in Hid |-> previous'[d]]
  BY <1>2 DEF Take, Remembered
<1>4. HidKeyboards \subseteq Hid
  BY DEF Hid, HidKeyboards, UsbDevices, I2cDevices
<1>5. \/ \E d \in all \cap HidKeyboards :
           \E key \in KeysChanged(read[d], previous[d]) :
             received' = [received EXCEPT ![d] = Append(received[d], key)]
      \/ /\ \A d \in all \cap HidKeyboards : KeysChanged(read[d], previous[d]) = {}
         /\ received' = received
  BY <1>2 DEF Take
<1>6. /\ received' \in [HidKeyboards -> Seq(Strokes)]
      /\ \A e \in HidKeyboards :
           \/ /\ received'[e] = received[e]
              /\ e \in all => KeysChanged(read[e], previous[e]) = {}
           \/ /\ e \in all
              /\ \E key \in KeysChanged(read[e], previous[e]) : received'[e] = Append(received[e], key)
  <2>1. ASSUME NEW d \in all \cap HidKeyboards, NEW key \in KeysChanged(read[d], previous[d]),
               received' = [received EXCEPT ![d] = Append(received[d], key)]
        PROVE  <1>6
    <3>1. key \in Strokes
      <4>1. read[d] \in SUBSET Keys /\ previous[d] \in SUBSET Keys
        BY <1>1, <1>2, <1>4, <2>1 DEF HidTypes
      <4> QED  BY <2>1, <4>1, ChangesAreStrokes
    <3>2. received[d] \in Seq(Strokes)
      BY <1>1, <2>1 DEF HidTypes
    <3>3. Append(received[d], key) \in Seq(Strokes)
      BY <3>1, <3>2, AppendIs
    <3>4. received' \in [HidKeyboards -> Seq(Strokes)]
      BY <1>1, <2>1, <3>3 DEF HidTypes
    <3>5. /\ received'[d] = Append(received[d], key)
          /\ \A e \in HidKeyboards : e # d => received'[e] = received[e]
      BY <1>1, <2>1 DEF HidTypes
    <3>6. \A e \in HidKeyboards : e # d /\ e \in all => KeysChanged(read[e], previous[e]) = {}
      BY <2>1
    <3> QED  BY <2>1, <3>4, <3>5, <3>6
  <2>2. ASSUME \A d \in all \cap HidKeyboards : KeysChanged(read[d], previous[d]) = {},
               received' = received
        PROVE  <1>6
    BY <1>1, <2>2 DEF HidTypes
  <2> QED  BY <1>5, <2>1, <2>2
<1>7. HidTypes'
  <2>1. \A d \in Hid : reported'[d] \in SUBSET Keys /\ previous'[d] \in SUBSET Keys
    BY <1>1, <1>2, <1>3 DEF HidTypes
  <2>2. reported' \in [Hid -> SUBSET Keys] /\ previous' \in [Hid -> SUBSET Keys]
    BY <1>3, <2>1
  <2> QED  BY <1>1, <1>3, <1>6, <2>2 DEF HidTypes
<1>8. LineInv'
  <2>1. \A d \in Hid : line'[d] \in {{}, {reported'[d]}}
    BY <1>1, <1>3 DEF LineInv
  <2>2. \A d \in HidKeyboards : line'[d] = {} => previous'[d] = reported'[d]
    BY <1>1, <1>3, <1>4 DEF LineInv
  <2> QED  BY <2>1, <2>2 DEF LineInv
<1>9. KeysInv'
  <2> SUFFICES ASSUME NEW e \in HidKeyboards
               PROVE  /\ Fewer(held'[e], reported'[e], previous'[e], pressed'[e], received'[e])
                      /\ ~rushed'[e] => Owes(held'[e], reported'[e], previous'[e], pressed'[e], received'[e])
    BY DEF KeysInv
  <2> DEFINE h    == held[e]
             r    == reported[e]
             p    == previous[e]
             made == pressed[e]
             got  == received[e]
             fast == rushed[e]
             q    == reported'[e]
             after == received'[e]
  <2>0. e \in Hid
    BY <1>4
  <2>1. /\ h \in SUBSET Keys /\ r \in SUBSET Keys /\ p \in SUBSET Keys
        /\ made \in Seq(Strokes) /\ got \in Seq(Strokes) /\ fast \in BOOLEAN
    BY <1>1, <2>0 DEF HidTypes
  <2>2. Fewer(h, r, p, made, got) /\ (~fast => Owes(h, r, p, made, got))
    BY <1>1 DEF KeysInv
  <2>3. held'[e] = h /\ pressed'[e] = made /\ rushed'[e] = fast
    OBVIOUS
  <2>4. CASE e \notin all
    BY <1>3, <1>6, <2>0, <2>2, <2>3, <2>4
  <2>5. CASE e \in all
    <3>1. q = read[e] /\ previous'[e] = q
      BY <1>3, <2>0, <2>5
    <3>2. q = r \/ (q = h /\ r = p)
      BY <1>1, <1>2, <2>5, <3>1 DEF LineInv
    <3>3a. \/ /\ received'[e] = received[e]
             /\ KeysChanged(read[e], previous[e]) = {}
          \/ \E key \in KeysChanged(read[e], previous[e]) : received'[e] = Append(received[e], key)
      BY <1>6, <2>5
    <3>3b. \/ after = got /\ KeysChanged(q, p) = {}
          \/ \E key \in KeysChanged(q, p) : after = Append(got, key)
      BY <3>1, <3>3a
    <3> HIDE DEF h, r, p, made, got, fast, q, after
    <3>3. \/ q = p /\ after = got
          \/ \E event \in KeysChanged(q, p) : after = Append(got, event)
      BY <3>3b, NoChange
    <3>4. Fewer(h, q, q, made, after) /\ (~fast => Owes(h, q, q, made, after))
      BY <2>1, <2>2, <3>2, <3>3, OneRead
    <3> QED  BY <2>3, <3>1, <3>4 DEF q, after
  <2> QED  BY <2>4, <2>5
<1> QED  BY <1>7, <1>8, <1>9 DEF HidInv

\* One report has an event, at most: a device on USB that yields leaves the
\* others unread.
LEMMA PollReportsTakes ==
  ASSUME HidInv, PollReports, next \in UsbDevices
  PROVE  HidInv'
<1>1. PICK d \in I2cDevices, had \in BOOLEAN :
        /\ IF UsbYields THEN ~had /\ UNCHANGED <<ahead, pad>> ELSE PollI2c(d, had)
        /\ LET usb == {u \in UsbRead : line[u] # {}}
               all == IF had THEN usb \cup {d} ELSE usb
           IN  Take([r \in all |-> IF line[r] = {} THEN held[r]
                                                  ELSE CHOOSE keys \in line[r] : TRUE])
  BY DEF PollReports
<1> DEFINE usb  == {u \in UsbRead : line[u] # {}}
           all  == IF had THEN usb \cup {d} ELSE usb
           read == Reports(all)
<1>2. Take(read) /\ UNCHANGED <<held, pressed, rushed>> /\ (UsbYields => ~had)
  BY <1>1 DEF PollReports, Reports
<1>3. usb \subseteq UsbDevices /\ UsbDevices \subseteq Hid /\ I2cDevices \subseteq Hid
  BY DEF UsbRead, Hid
<1>4. all \in SUBSET Hid
  BY <1>3
<1>5. ASSUME "usb_keyboard" \in all, had
      PROVE  KeysChanged(read["usb_keyboard"], previous["usb_keyboard"]) = {}
  <2> DEFINE u == "usb_keyboard"
  <2>1. u \in usb /\ u \in UsbDevices
    BY <1>5 DEF I2cDevices, UsbDevices
  <2>2. UsbUp /\ line[u] # {}
    BY <2>1 DEF UsbRead
  <2>3. ~Yields(u)
    BY <1>2, <1>5, <2>1, <2>2 DEF UsbYields
  <2>4. \A keys \in line[u] : KeysChanged(keys, previous[u]) = {}
    BY <2>2, <2>3 DEF Yields
  <2>5. line[u] = {reported[u]}
    BY <1>3, <2>1, <2>2 DEF HidInv, LineInv
  <2>6. read[u] = reported[u]
    <3> HIDE DEF usb, u
    <3>1. u \in all
      BY <1>5, <2>1
    <3>2. read = Reports(all)
      OBVIOUS
    <3> HIDE DEF all, read
    <3>3. read[u] = IF line[u] = {} THEN held[u] ELSE reported[u]
      BY <1>4, <3>1, <3>2, ReadsAre
    <3> QED  BY <2>2, <3>3
  <2> QED  BY <2>4, <2>5, <2>6
<1>6. ASSUME NEW e \in all \cap HidKeyboards, NEW f \in all \cap HidKeyboards, e # f
      PROVE  KeysChanged(read[e], previous[e]) = {} \/ KeysChanged(read[f], previous[f]) = {}
  <2>1. {e, f} = {"usb_keyboard", "i2c_keyboard"}
    BY <1>6 DEF HidKeyboards
  <2>2. "usb_keyboard" \in all
    BY <1>6, <2>1
  <2>3. "i2c_keyboard" \in all
    BY <1>6, <2>1
  <2>4. had
    BY <1>3, <2>3 DEF UsbDevices
  <2> HIDE DEF all, read
  <2>5. KeysChanged(read["usb_keyboard"], previous["usb_keyboard"]) = {}
    BY <1>5, <2>2, <2>4
  <2> QED  BY <2>1, <2>5
<1>7. read = Reports(all)
  OBVIOUS
<1> HIDE DEF all, read
<1> QED  BY <1>2, <1>4, <1>6, <1>7, TakeKeeps

\* The counts of the pin gate stay within their bounds.
LEMMA CountsStutter ==
  ASSUME CountsInv, UNCHANGED <<found, strikes, polls, failures>>
  PROVE  CountsInv'
BY DEF CountsInv

\* A sample counts up to the number needed.
LEMMA LearnCounts ==
  ASSUME CountsInv, NEW waiting \in BOOLEAN, NEW had \in BOOLEAN, Learn(waiting, had)
  PROVE  found' \in [BOOLEAN -> 0 .. Needed] /\ strikes' = strikes
<1> DEFINE counts == [found EXCEPT ![had] = Count(@, Needed)]
<1>1. Needed \in Nat /\ found \in [BOOLEAN -> 0 .. Needed]
  BY I2cHidAssumption DEF CountsInv
<1>2. found[had] \in 0 .. Needed
  BY <1>1
<1>3. Count(found[had], Needed) \in 0 .. Needed
  <2>1. \A n \in 0 .. Needed : n < Needed => n + 1 \in 0 .. Needed
    BY <1>1
  <2> QED  BY <1>2, <2>1 DEF Count
<1>4. counts \in [BOOLEAN -> 0 .. Needed]
  BY <1>1, <1>3
<1>5. NoneFound \in [BOOLEAN -> 0 .. Needed]
  <2>1. 0 \in 0 .. Needed
    BY <1>1
  <2> QED  BY <2>1 DEF NoneFound
<1>6. (found' = NoneFound \/ found' = counts) /\ strikes' = strikes
  BY DEF Learn
<1> QED  BY <1>4, <1>5, <1>6

\* The gate is dropped before the strikes exceed theirs.
LEMMA JudgeCounts ==
  ASSUME CountsInv, NEW had \in BOOLEAN, JudgeGated(had)
  PROVE  strikes' \in 0 .. GateStrikes - 1 /\ found' = found
<1>1. GateStrikes \in Nat \ {0} /\ strikes \in 0 .. GateStrikes - 1
  BY I2cHidAssumption DEF CountsInv
<1>2. Struck(had) \in Nat
  BY <1>1 DEF Struck
<1>3. strikes' = 0 \/ (strikes' = Struck(had) /\ Struck(had) < GateStrikes)
  BY DEF JudgeGated
<1>4. strikes' \in 0 .. GateStrikes - 1
  BY <1>1, <1>2, <1>3
<1> QED  BY <1>4 DEF JudgeGated

\* A poll counts up to the audit's turn, and failures until it gives up.
LEMMA PollPadCounts ==
  ASSUME CountsInv, NEW waiting \in BOOLEAN, NEW had \in BOOLEAN, PollPad(waiting, had)
  PROVE  CountsInv'
<1>1. /\ AuditEvery \in Nat \ {0} /\ GiveUpAfter \in Nat \ {0} /\ polls \in 0 .. AuditEvery - 1
      /\ failures \in 0 .. GiveUpAfter
  BY I2cHidAssumption DEF CountsInv
<1>2. polls' = polls \/ Counted
  BY DEF PollPad
<1>3. polls' \in 0 .. AuditEvery - 1
  <2>1. \A n \in Nat, m \in Nat \ {0} : n % m \in 0 .. m - 1
    OBVIOUS
  <2>2. polls + 1 \in Nat
    BY <1>1
  <2>3. (polls + 1) % AuditEvery \in 0 .. AuditEvery - 1
    BY <1>1, <2>1, <2>2
  <2> QED  BY <1>1, <1>2, <2>3 DEF Counted
<1>4. failures' = failures \/ failures' = 0 \/ (~Abandoned /\ failures' = failures + 1)
  BY DEF PollPad
<1>5. failures' \in 0 .. GiveUpAfter
  BY <1>1, <1>4 DEF Abandoned
<1>6. found' \in [BOOLEAN -> 0 .. Needed] /\ strikes' \in 0 .. GateStrikes - 1
  <2>1. CASE UNCHANGED <<found, strikes>>
    BY <2>1 DEF CountsInv
  <2>2. CASE Judge(waiting, had)
    <3>1. CASE gate = Learning /\ Learn(waiting, had)
      BY <3>1, LearnCounts DEF CountsInv
    <3>2. CASE gate.state = "gated" /\ JudgeGated(had)
      BY <3>2, JudgeCounts DEF CountsInv
    <3>3. CASE gate = Blind /\ UNCHANGED <<gate, seen, found, strikes, raced>>
      BY <2>1, <3>3
    <3> QED  BY <2>2, <3>1, <3>2, <3>3 DEF Judge
  <2> QED  BY <2>1, <2>2 DEF PollPad
<1> QED  BY <1>3, <1>5, <1>6 DEF CountsInv

-----------------------------------------------------------------------------
(* Every keystroke.                                                        *)

ArrivalInv == Ps2Inv /\ HidInv /\ CountsInv /\ next \in UsbDevices

\* No key is held and none reported.
LEMMA HidInitHolds == Init => HidInv
<1> SUFFICES ASSUME Init PROVE HidInv
  OBVIOUS
<1>1. /\ held = [d \in Hid |-> {}] /\ reported = held /\ previous = held
      /\ line = [d \in Hid |-> {}]
      /\ pressed = [d \in HidKeyboards |-> <<>>] /\ received = pressed
      /\ rushed = [d \in HidKeyboards |-> FALSE]
  BY DEF Init
<1>2. HidKeyboards \subseteq Hid
  BY DEF Hid, HidKeyboards, UsbDevices, I2cDevices
<1>3. <<>> \in Seq(Strokes) /\ Len(<<>>) = 0
  OBVIOUS
<1>4. HidTypes
  <2>1. {} \in SUBSET Keys /\ FALSE \in BOOLEAN
    OBVIOUS
  <2>2. held \in [Hid -> SUBSET Keys]
    BY <1>1, <2>1
  <2>3. pressed \in [HidKeyboards -> Seq(Strokes)]
    BY <1>1, <1>3
  <2>4. rushed \in [HidKeyboards -> BOOLEAN]
    BY <1>1
  <2> QED  BY <1>1, <2>2, <2>3, <2>4 DEF HidTypes
<1>5. LineInv
  BY <1>1, <1>2 DEF LineInv
<1>6. KeysInv
  <2> SUFFICES ASSUME NEW d \in HidKeyboards
               PROVE  /\ Fewer(held[d], reported[d], previous[d], pressed[d], received[d])
                      /\ Owes(held[d], reported[d], previous[d], pressed[d], received[d])
    BY DEF KeysInv
  <2>1. /\ held[d] = {} /\ reported[d] = {} /\ previous[d] = {}
        /\ pressed[d] = <<>> /\ received[d] = <<>>
    BY <1>1, <1>2
  <2>2. One({} # {}) = 0
    BY DEF One
  <2>3. Fewer({}, {}, {}, <<>>, <<>>)
    BY <1>3, <2>2 DEF Fewer
  <2>4. Owes({}, {}, {}, <<>>, <<>>)
    <3>1. 1 .. Len(<<>>) = {}
      BY <1>3
    <3>2. Len(<<>>) + One({} # {}) + One({} # {}) = Len(<<>>)
      BY <1>3, <2>2
    <3> QED  BY <3>1, <3>2 DEF Owes
  <2> QED  BY <2>1, <2>3, <2>4
<1> QED  BY <1>4, <1>5, <1>6 DEF HidInv

\* All of it holds at the start.
LEMMA ArrivalInit == Init => ArrivalInv
<1> SUFFICES ASSUME Init PROVE ArrivalInv
  OBVIOUS
<1>1. Ps2Inv
  BY Ps2InitHolds DEF Init
<1>2. HidInv
  BY HidInitHolds
<1>3. CountsInv
  <2>1. PadInit(machine.gate)
    BY DEF Init
  <2>2. found = NoneFound /\ strikes = 0 /\ polls = 0 /\ failures = 0
    BY <2>1 DEF PadInit
  <2>3. {Needed, AuditEvery, GateStrikes, GiveUpAfter} \subseteq Nat \ {0}
    BY I2cHidAssumption
  <2>4. 0 \in 0 .. Needed /\ 0 \in 0 .. GateStrikes - 1 /\ 0 \in 0 .. AuditEvery - 1
        /\ 0 \in 0 .. GiveUpAfter
    BY <2>3
  <2> QED  BY <2>2, <2>4 DEF CountsInv, NoneFound
<1>4. next \in UsbDevices
  BY DEF Init, UsbDevices
<1> QED  BY <1>1, <1>2, <1>3, <1>4 DEF ArrivalInv

\* The turn goes from one USB device to the other.
LEMMA OtherIs ==
  ASSUME NEW d \in UsbDevices
  PROVE  Turned(d) \in UsbDevices
<1>1. \E u \in UsbDevices : u # d
  BY DEF UsbDevices
<1>2. Other(d) \in UsbDevices
  BY <1>1 DEF Other
<1> QED  BY <1>2 DEF Turned

\* A poll with nothing in the 8042.
LEMMA PollReportsArrive ==
  ASSUME ArrivalInv, PollReports
  PROVE  ArrivalInv'
<1>1. PICK d \in I2cDevices, had \in BOOLEAN :
        IF UsbYields THEN ~had /\ UNCHANGED <<ahead, pad>> ELSE PollI2c(d, had)
  BY DEF PollReports
<1>2. CountsInv'
  <2>1. CASE UNCHANGED pad
    BY <2>1, CountsStutter DEF ArrivalInv, pad
  <2>2. CASE PollPad(line[d] # {}, had)
    <3>1. (line[d] # {}) \in BOOLEAN
      OBVIOUS
    <3> QED  BY <2>2, <3>1, PollPadCounts DEF ArrivalInv
  <2> QED  BY <1>1, <2>1, <2>2 DEF PollI2c
<1>3. HidInv'
  BY PollReportsTakes DEF ArrivalInv
<1>4. Ps2Inv'
  BY Ps2Stutters DEF ArrivalInv, PollReports
<1>5. next' \in UsbDevices
  BY OtherIs DEF ArrivalInv, PollReports
<1> QED  BY <1>2, <1>3, <1>4, <1>5 DEF ArrivalInv

\* A step of the 8042 or of its devices.
LEMMA Ps2Arrives ==
  ASSUME ArrivalInv, Ps2Inv', UNCHANGED <<pad, hid, next>>
  PROVE  ArrivalInv'
BY HidStutters, CountsStutter DEF ArrivalInv, pad

\* And every step of every device keeps it.
LEMMA ArrivalStep == CodesAreTold /\ ArrivalInv /\ [Next]_vars => ArrivalInv'
<1> SUFFICES ASSUME CodesAreTold, ArrivalInv, [Next]_vars PROVE ArrivalInv'
  OBVIOUS
<1>0. Ps2Inv /\ HidInv /\ CountsInv /\ next \in UsbDevices
  BY DEF ArrivalInv
<1>1. ASSUME NEW k \in Keys, Type(k), UNCHANGED <<pad, machine, hid, next, ahead>>
      PROVE  ArrivalInv'
  BY <1>0, <1>1, TypeKeeps, Ps2Arrives
<1>2. ASSUME NEW small \in BOOLEAN, MoveMouse(small)
      PROVE  ArrivalInv'
  BY <1>0, <1>2, PointerKeeps, Ps2Arrives DEF MoveMouse
<1>3. ASSUME Lose, UNCHANGED <<pad, machine, hid, next, ahead>>
      PROVE  ArrivalInv'
  <2>1. TRUE \in BOOLEAN
    OBVIOUS
  <2> QED  BY <1>0, <1>3, <2>1, PointerKeeps, Ps2Arrives
<1>4. ASSUME NEW d \in HidKeyboards, NEW k \in Keys, TypeOn(d, k)
      PROVE  ArrivalInv'
  <2>1. UNCHANGED <<ps2, pad, next>>
    BY <1>4 DEF TypeOn
  <2> QED  BY <1>0, <1>4, <2>1, TypeOnKeeps, Ps2Stutters, CountsStutter DEF ArrivalInv, pad
<1>5. ASSUME NEW d \in Hid, Report(d)
      PROVE  ArrivalInv'
  <2>1. UNCHANGED <<ps2, pad, next>>
    BY <1>5 DEF Report
  <2> QED  BY <1>0, <1>5, <2>1, ReportKeeps, Ps2Stutters, CountsStutter DEF ArrivalInv, pad
<1>6. CASE Tick
  <2>1. UNCHANGED <<ps2, pad, hid, next>>
    BY <1>6 DEF Tick
  <2> QED  BY <1>0, <2>1, Ps2Stutters, Ps2Arrives
<1>7. ASSUME NEW p \in Pads, Drift(p), UNCHANGED <<ps2, machine, hid, next, ahead>>
      PROVE  ArrivalInv'
  <2>1. UNCHANGED <<found, strikes, polls, failures>>
    BY <1>7 DEF Drift
  <2> QED  BY <1>0, <1>7, <2>1, Ps2Stutters, HidStutters, CountsStutter DEF ArrivalInv
<1>8. CASE Poll8042 /\ UNCHANGED <<pad, machine, hid, next, ahead>>
  BY <1>0, <1>8, Poll8042Keeps, Ps2Arrives
<1>9. CASE PollReports
  BY <1>9, PollReportsArrive
<1>10. CASE UNCHANGED vars
  <2>1. UNCHANGED <<ps2, pad, hid, next>>
    BY <1>10 DEF vars
  <2> QED  BY <1>0, <2>1, Ps2Stutters, Ps2Arrives
<1> QED  BY <1>1, <1>2, <1>3, <1>4, <1>5, <1>6, <1>7, <1>8, <1>9, <1>10 DEF Next, Poll

\* The shape of the parts, and what has arrived of what was typed.
LEMMA ArrivalFollows == IInv /\ ArrivalInv => TypeOK /\ KeysArriveAsTyped
<1> SUFFICES ASSUME IInv, ArrivalInv PROVE TypeOK /\ KeysArriveAsTyped
  OBVIOUS
<1>1. Ps2TypeOK /\ Ps2KeysArriveAsTyped
  BY Ps2Follows DEF ArrivalInv
<1>2. PadTypeOK
  <2>1. /\ strikes \in 0 .. GateStrikes - 1 /\ polls \in 0 .. AuditEvery - 1
        /\ failures \in 0 .. GiveUpAfter /\ found \in [BOOLEAN -> 0 .. Needed]
        /\ {Needed, AuditEvery, GateStrikes, GiveUpAfter} \subseteq Nat \ {0}
    BY I2cHidAssumption DEF ArrivalInv, CountsInv
  <2>2. strikes < GateStrikes /\ polls < AuditEvery /\ failures <= GiveUpAfter
    BY <2>1
  <2>3. gate \in Gates /\ seen \in [Pads -> SUBSET (BOOLEAN \X BOOLEAN)]
    BY DEF IInv, PadTypes
  <2> QED  BY <2>1, <2>2, <2>3 DEF PadTypeOK, Gates
<1>3. ASSUME NEW d \in HidKeyboards
      PROVE  /\ Len(received[d]) <= Len(pressed[d])
             /\ ~rushed[d] =>
                  \A i \in DOMAIN received[d] :
                    i \in DOMAIN pressed[d] /\ received[d][i] = pressed[d][i]
  <2> DEFINE n == Len(received[d])
             m == Len(pressed[d])
             a == One(reported[d] # previous[d])
             b == One(held[d] # reported[d])
  <2>1. pressed[d] \in Seq(Strokes) /\ received[d] \in Seq(Strokes)
    BY DEF ArrivalInv, HidInv, HidTypes
  <2>2. n + a + b <= m
    BY DEF ArrivalInv, HidInv, KeysInv, Fewer
  <2>3. n \in Nat /\ m \in Nat /\ a \in {0, 1} /\ b \in {0, 1}
    BY <2>1 DEF One
  <2>4. DOMAIN received[d] = 1 .. n /\ DOMAIN pressed[d] = 1 .. m
    BY <2>1
  <2>5. ~rushed[d] => \A i \in 1 .. n : received[d][i] = pressed[d][i]
    BY DEF ArrivalInv, HidInv, KeysInv, Owes
  <2> HIDE DEF n, m, a, b
  <2>6. n <= m
    BY <2>2, <2>3
  <2>7. \A i \in 1 .. n : i \in 1 .. m
    BY <2>3, <2>6
  <2> QED  BY <2>4, <2>5, <2>6, <2>7 DEF n, m
<1>4. TypeOK
  BY <1>1, <1>2, <1>3 DEF TypeOK
<1> QED  BY <1>1, <1>3, <1>4 DEF KeysArriveAsTyped

\* Input::poll hands on every press and release once, in order and under its
\* set 1 scancode: of the 8042 whatever its scan code set and however bytes of
\* the mouse fall between, and of a HID keyboard as long as two keys did not
\* change between two reports.  For any number of keys and devices, as long as
\* no key's release is the byte that stands for a break.
THEOREM KeysArrive == CodesAreTold => (Spec => []KeysArriveAsTyped)
<1> SUFFICES ASSUME CodesAreTold PROVE Spec => []KeysArriveAsTyped
  OBVIOUS
<1>1. ArrivalInv /\ [Next]_vars => ArrivalInv'
  BY ArrivalStep
<1>2. Spec => []ArrivalInv
  BY <1>1, ArrivalInit, PTL DEF Spec
<1>3. IInv /\ ArrivalInv => KeysArriveAsTyped
  BY ArrivalFollows
<1> QED  BY <1>2, <1>3, InvariantHolds, PTL
=============================================================================
