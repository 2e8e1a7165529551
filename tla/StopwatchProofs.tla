--------------------------- MODULE StopwatchProofs ---------------------------
(***************************************************************************)
(* Theorems about Stopwatch, for every width of the counter, every number  *)
(* of laps and every pattern of upsets within the bounds on a copy:        *)
(*                                                                         *)
(*   - the type invariant;                                                 *)
(*   - an origin is held exactly while the stopwatch runs;                 *)
(*   - as long as the damage of each word is tolerable and spares the      *)
(*     rate, the stopwatch implements one whose memory never fails;        *)
(*   - with any damage, a reading or a lap that is not the time the        *)
(*     stopwatch ran goes with a word counted as beyond repair.            *)
(***************************************************************************)
EXTENDS StopwatchTruth, FiniteSetTheorems, SequenceTheorems, TLAPS

-----------------------------------------------------------------------------
(* Arithmetic stays in the width of the counter.                           *)

\* A remainder is a 64-bit number.
LEMMA RemainderInTimes == \A n \in Int : n % Limit \in Times
BY TimeAssumption DEF Times

\* So is a counter reading, whatever time it is.
LEMMA CounterInTimes ==
  ASSUME NEW t \in Nat
  PROVE  CounterAfter(t) \in Times
<1>1. Boot + t \in Int  BY TimeAssumption DEF Times
<1> QED  BY <1>1, RemainderInTimes DEF CounterAfter

\* So is a wrapping difference.
LEMMA DifferenceInTimes ==
  ASSUME NEW a \in Times, NEW b \in Times
  PROVE  WrappingSub(a, b) \in Times
<1>1. a - b \in Int  BY DEF Times
<1> QED  BY <1>1, RemainderInTimes DEF WrappingSub

\* So is a converted duration, for a damaged rate and for none.
LEMMA NanosInTimes ==
  ASSUME NEW units \in Times, NEW rate \in Times
  PROVE  UnitsToNs(units, rate) \in Times
<1>1. CASE rate = 0
  BY <1>1, TimeAssumption DEF UnitsToNs, Times
<1>2. CASE rate # 0
  <2>1. units * NanosPerSecond \in Nat
    BY TimeAssumption DEF Times
  <2>2. rate \in Nat \ {0}
    BY <1>2 DEF Times
  <2>3. (units * NanosPerSecond) \div rate \in Int
    BY <2>1, <2>2
  <2> QED  BY <1>2, <2>3, RemainderInTimes DEF UnitsToNs
<1> QED  BY <1>1, <1>2

\* So is a saturating sum.
LEMMA SumInTimes ==
  ASSUME NEW a \in Times, NEW b \in Times
  PROVE  SaturatingAdd(a, b) \in Times
BY TimeAssumption DEF SaturatingAdd, Times

-----------------------------------------------------------------------------
(* One protected word.                                                     *)

\* Words within the bounds on the damage of a copy.
SoundWords == {w \in Words : \A c \in Copies : Cardinality(w.flipped[c]) <= MaxFlips[c]}

\* The damage a word recovers from.
Tolerance == \A r \in Replicas : MaxFlips[r] <= 1

\* The damage of a copy is a finite set of at most two bits.
LEMMA DamageIsSmall ==
  ASSUME NEW w \in SoundWords, NEW c \in Copies
  PROVE  /\ w.flipped[c] \subseteq CopyBits
         /\ Cardinality(w.flipped[c]) \in Nat
         /\ Cardinality(w.flipped[c]) <= MaxFlips[c]
<1>1. w.flipped[c] \subseteq CopyBits
  BY DEF SoundWords, Words
<1>2. IsFiniteSet(w.flipped[c])
  BY <1>1, FS_Subset, StopwatchAssumption
<1> QED  BY <1>1, <1>2, FS_CardinalityType DEF SoundWords

\* A word just written is undamaged.
LEMMA FreshIsSound ==
  ASSUME NEW v \in Times
  PROVE  /\ Fresh(v) \in SoundWords
         /\ Fresh(v).stored = v
         /\ Integrity(Fresh(v)) = "Clean"
<1>1. Fresh(v) \in Words /\ Fresh(v).stored = v
  BY DEF Fresh, Words
<1>2. ASSUME NEW c \in Copies PROVE Cardinality(Fresh(v).flipped[c]) = 0
  BY FS_EmptySet DEF Fresh
<1>3. \A c \in Copies : 0 <= MaxFlips[c]
  BY StopwatchAssumption
<1>4. Integrity(Fresh(v)) = "Clean"
  BY <1>2 DEF Integrity, Copies
<1> QED  BY <1>1, <1>2, <1>3, <1>4 DEF SoundWords

\* A check answers with one of the four tiers; a word whose replicas are hit
\* at most once each is never beyond repair.
LEMMA TierOfWord ==
  ASSUME NEW w \in SoundWords
  PROVE  /\ Integrity(w) \in Tiers
         /\ Tolerance => Integrity(w) # "Unrecoverable"
         /\ Integrity(w) = "Clean" => w.flipped["primary"] = {}
<1>1. Cardinality(w.flipped["primary"]) \in Nat
  BY DamageIsSmall DEF Copies
<1>2. Integrity(w) \in Tiers
  BY <1>1 DEF Integrity, Tiers
<1>3. Tolerance => \A r \in Replicas : Cardinality(w.flipped[r]) <= 1
  <2>1. \A r \in Replicas : r \in Copies /\ MaxFlips[r] \in 0 .. 2
    BY StopwatchAssumption DEF Copies, Replicas
  <2> QED  BY <2>1, DamageIsSmall DEF Tolerance
<1>4. Tolerance => Integrity(w) # "Unrecoverable"
  BY <1>1, <1>3 DEF Integrity
<1>5. IsFiniteSet(w.flipped["primary"])
  BY DamageIsSmall, FS_Subset, StopwatchAssumption DEF Copies
<1>6. Integrity(w) = "Clean" => w.flipped["primary"] = {}
  <2>1. Integrity(w) = "Clean" => Cardinality(w.flipped["primary"]) = 0
    BY <1>1 DEF Integrity
  <2> QED  BY <2>1, <1>5, FS_EmptySet
<1> QED  BY <1>2, <1>4, <1>6

\* A plain load gives a 64-bit value, and the stored one if the word is clean.
LEMMA LoadOfWord ==
  ASSUME NEW w \in SoundWords
  PROVE  /\ Get(w) \in Times
         /\ Integrity(w) = "Clean" => Get(w) = w.stored
<1>1. w.stored \in Times
  BY DEF SoundWords, Words
<1>2. Get(w) \in Times
  BY <1>1, UpsetAssumption DEF Get
<1>3. ASSUME Integrity(w) = "Clean" PROVE Get(w) = w.stored
  <2>1. w.flipped["primary"] \cap ValueBits = {}
    BY <1>3, TierOfWord
  <2> QED  BY <1>1, <2>1, UpsetAssumption DEF Get
<1> QED  BY <1>2, <1>3

\* A scrub keeps the value a check hands out, and leaves a word whose plain
\* load is that value.
LEMMA ScrubOfWord ==
  ASSUME NEW w \in SoundWords
  PROVE  /\ Checked(w) \in Times
         /\ Scrubbed(w) \in SoundWords
         /\ Get(Scrubbed(w)) = Checked(w)
         /\ Checked(Scrubbed(w)) = Checked(w)
<1>1. w.stored \in Times
  BY DEF SoundWords, Words
<1>2. Checked(w) \in Times
  BY <1>1, LoadOfWord DEF Checked
<1>3. CASE Integrity(w) \in Repairs
  <2>1. Scrubbed(w) = Fresh(w.stored) /\ Checked(w) = w.stored
    BY <1>3 DEF Scrubbed, Checked, Repairs
  <2>2. /\ Fresh(w.stored) \in SoundWords
        /\ Integrity(Fresh(w.stored)) = "Clean"
        /\ Fresh(w.stored).stored = w.stored
    BY <1>1, FreshIsSound
  <2>3. Get(Fresh(w.stored)) = w.stored
    BY <2>2, LoadOfWord
  <2> QED  BY <1>2, <2>1, <2>2, <2>3 DEF Checked
<1>4. CASE Integrity(w) \notin Repairs
  <2>1. Scrubbed(w) = w
    BY <1>4 DEF Scrubbed
  <2>2. Integrity(w) = "Clean" \/ Integrity(w) = "Unrecoverable"
    BY <1>4, TierOfWord DEF Tiers, Repairs
  <2>3. Get(w) = Checked(w)
    BY <2>2, LoadOfWord DEF Checked
  <2> QED  BY <1>2, <2>1, <2>3
<1> QED  BY <1>3, <1>4

\* An upset within the bounds changes neither; under Tolerance the value a
\* check hands out is the stored one throughout.
LEMMA UpsetOfWord ==
  ASSUME NEW w \in SoundWords, NEW c \in Copies, NEW b \in CopyBits, Room(w, c, b)
  PROVE  /\ FlipBit(w, c, b) \in SoundWords
         /\ FlipBit(w, c, b).stored = w.stored
<1> DEFINE u == FlipBit(w, c, b)
<1>1. w \in Words /\ w.stored \in Times /\ w.flipped \in [Copies -> SUBSET CopyBits]
  BY DEF SoundWords, Words
<1>2. Toggle(w.flipped[c], b) \subseteq CopyBits
  BY <1>1 DEF Toggle
<1>3. /\ u.stored = w.stored
      /\ u.flipped = [w.flipped EXCEPT ![c] = Toggle(@, b)]
      /\ u = [stored |-> u.stored, flipped |-> u.flipped]
  BY <1>1 DEF FlipBit, Words
<1>4. u \in Words
  BY <1>1, <1>2, <1>3 DEF Words
<1>5. ASSUME NEW d \in Copies PROVE Cardinality(u.flipped[d]) <= MaxFlips[d]
  <2>1. CASE d = c
    BY <2>1, <1>1, <1>3 DEF Room
  <2>2. CASE d # c
    <3>1. u.flipped[d] = w.flipped[d]
      BY <2>2, <1>1, <1>3
    <3> QED  BY <3>1, DamageIsSmall
  <2> QED  BY <2>1, <2>2
<1> QED  BY <1>3, <1>4, <1>5 DEF SoundWords

\* The value a check of a recoverable word hands out is the one written last.
LEMMA CheckedIsStored ==
  ASSUME NEW w \in SoundWords, Tolerance
  PROVE  Checked(w) = w.stored
BY TierOfWord DEF Checked

-----------------------------------------------------------------------------
(* Sequences of words.                                                     *)

\* A scrub keeps their number and, of each, the value a check hands out.
LEMMA ScrubOfWords ==
  ASSUME NEW ws \in Seq(SoundWords)
  PROVE  /\ ScrubbedAll(ws) \in Seq(SoundWords)
         /\ Len(ScrubbedAll(ws)) = Len(ws)
         /\ DOMAIN ScrubbedAll(ws) = DOMAIN ws
         /\ \A i \in DOMAIN ws : /\ ScrubbedAll(ws)[i] \in SoundWords
                                 /\ Checked(ScrubbedAll(ws)[i]) = Checked(ws[i])
<1>1. /\ Len(ws) \in Nat
      /\ DOMAIN ws = 1 .. Len(ws)
      /\ \A i \in 1 .. Len(ws) : ws[i] \in SoundWords
  BY LenProperties, ElementOfSeq
<1>2. ScrubbedAll(ws) \in [1 .. Len(ws) -> SoundWords]
  BY <1>1, ScrubOfWord DEF ScrubbedAll
<1>3. ScrubbedAll(ws) \in Seq(SoundWords)
  BY <1>1, <1>2, SeqDef
<1>4. Len(ScrubbedAll(ws)) = Len(ws)
  BY <1>1, <1>2, <1>3, LenProperties
<1> QED  BY <1>1, <1>2, <1>3, <1>4, ScrubOfWord DEF ScrubbedAll

\* One word of a sequence is hit: the others, and the value written to the one,
\* stay.
LEMMA UpsetOfWords ==
  ASSUME NEW ws \in Seq(SoundWords), NEW c \in Copies, NEW b \in CopyBits,
         NEW hit \in Struck(ws, c, b)
  PROVE  /\ hit \in Seq(SoundWords)
         /\ Len(hit) = Len(ws)
         /\ DOMAIN hit = DOMAIN ws
         /\ \A i \in DOMAIN ws : hit[i].stored = ws[i].stored
<1>1. /\ Len(ws) \in Nat
      /\ DOMAIN ws = 1 .. Len(ws)
      /\ ws \in [1 .. Len(ws) -> SoundWords]
  BY LenProperties
<1>2. PICK i \in DOMAIN ws :
        Room(ws[i], c, b) /\ hit = [ws EXCEPT ![i] = FlipBit(ws[i], c, b)]
  BY DEF Struck
<1>3. ws[i] \in SoundWords
  BY <1>1, <1>2
<1>4. FlipBit(ws[i], c, b) \in SoundWords /\ FlipBit(ws[i], c, b).stored = ws[i].stored
  BY <1>2, <1>3, UpsetOfWord
<1>5. hit \in [1 .. Len(ws) -> SoundWords]
  BY <1>1, <1>2, <1>4
<1>6. hit \in Seq(SoundWords)
  BY <1>1, <1>5, SeqDef
<1>7. Len(hit) = Len(ws)
  BY <1>1, <1>5, <1>6, LenProperties
<1> QED  BY <1>1, <1>2, <1>4, <1>5, <1>6, <1>7

\* Severities are totally ordered: among some tiers one is the worst.
LEMMA WorstExists ==
  ASSUME NEW S \in SUBSET Tiers, S # {}
  PROVE  \E worst \in S : \A t \in S : Worse(worst, t) = worst
<1>1. /\ Severity["Clean"] = 0 /\ Severity["CorrectedByEcc"] = 1
      /\ Severity["CorrectedByTmr"] = 2 /\ Severity["Unrecoverable"] = 3
  BY DEF Severity
<1>2. \A t \in Tiers : \/ Severity[t] = 0 /\ t = "Clean"
                       \/ Severity[t] = 1 /\ t = "CorrectedByEcc"
                       \/ Severity[t] = 2 /\ t = "CorrectedByTmr"
                       \/ Severity[t] = 3 /\ t = "Unrecoverable"
  BY <1>1 DEF Tiers
<1>3. ASSUME NEW w \in S, \A t \in S : Severity[t] <= Severity[w]
      PROVE  \E worst \in S : \A t \in S : Worse(worst, t) = worst
  <2>1. \A t \in S : ~(Severity[t] > Severity[w])
    BY <1>2, <1>3
  <2>2. \A t \in S : Worse(w, t) = w
    BY <2>1 DEF Worse
  <2> QED  BY <2>2
<1>4. CASE "Unrecoverable" \in S
  BY <1>1, <1>2, <1>3, <1>4
<1>5. CASE "Unrecoverable" \notin S /\ "CorrectedByTmr" \in S
  <2>1. \A t \in S : Severity[t] <= Severity["CorrectedByTmr"]
    BY <1>1, <1>2, <1>5
  <2> QED  BY <2>1, <1>3, <1>5
<1>6. CASE "Unrecoverable" \notin S /\ "CorrectedByTmr" \notin S /\ "CorrectedByEcc" \in S
  <2>1. \A t \in S : Severity[t] <= Severity["CorrectedByEcc"]
    BY <1>1, <1>2, <1>6
  <2> QED  BY <2>1, <1>3, <1>6
<1>7. CASE "Unrecoverable" \notin S /\ "CorrectedByTmr" \notin S /\ "CorrectedByEcc" \notin S
  <2>1. \A t \in S : t = "Clean"
    BY <1>2, <1>7
  <2>2. "Clean" \in S
    BY <2>1
  <2>3. \A t \in S : Severity[t] <= Severity["Clean"]
    BY <1>1, <2>1
  <2> QED  BY <2>2, <2>3, <1>3
<1> QED  BY <1>4, <1>5, <1>6, <1>7

\* The worst of the tiers found is a tier, and only tiers are counted.
LEMMA WorstIsATier ==
  ASSUME NEW ws \in Seq(SoundWords), ws # <<>>
  PROVE  Worst(ws) \in Tiers
<1> DEFINE found == {Integrity(ws[i]) : i \in DOMAIN ws}
<1>1. DOMAIN ws = 1 .. Len(ws) /\ Len(ws) \in Nat \ {0}
  BY LenProperties, EmptySeq
<1>2. \A i \in DOMAIN ws : Integrity(ws[i]) \in Tiers
  BY <1>1, TierOfWord, ElementOfSeq
<1>3. found \subseteq Tiers /\ Integrity(ws[1]) \in found
  BY <1>1, <1>2
<1>4. \E worst \in found : \A t \in found : Worse(worst, t) = worst
  BY <1>3, WorstExists
<1>5. \E worst \in found : \A i \in DOMAIN ws : Worse(worst, Integrity(ws[i])) = worst
  BY <1>4
<1>6. Worst(ws) \in found
  BY <1>5 DEF Worst
<1> QED  BY <1>3, <1>6

LEMMA RecordedAreTiers ==
  ASSUME NEW ws \in Seq(SoundWords), Record(ws), reported \subseteq Tiers \ {"Clean"}
  PROVE  reported' \subseteq Tiers \ {"Clean"}
<1>1. \A i \in DOMAIN ws : Integrity(ws[i]) \in Tiers
  BY TierOfWord, ElementOfSeq, LenProperties
<1> QED  BY <1>1 DEF Record

-----------------------------------------------------------------------------
(* The inductive invariant.                                                *)

SoundTypes ==
  /\ state \in States
  /\ accumulated \in SoundWords /\ hz \in SoundWords
  /\ start \in Seq(SoundWords) /\ laps \in Seq(SoundWords)
  /\ Len(start) <= 1
  /\ lastIntegrity \in Tiers
  /\ reported \subseteq Tiers \ {"Clean"}
  /\ ticks \in 0 .. MaxTicks

IInv == SoundTypes /\ OriginOnlyWhileRunning

\* What the words of a state within the invariant yield.
LEMMA StoredWords ==
  ASSUME IInv
  PROVE  /\ AllWords \in Seq(SoundWords) /\ AllWords # <<>>
         /\ <<accumulated>> \o start \in Seq(SoundWords)
         /\ <<hz>> \in Seq(SoundWords)
         /\ Counter \in Times
         /\ start # <<>> => Len(start) = 1 /\ start[1] \in SoundWords
<1>1. /\ accumulated \in SoundWords /\ hz \in SoundWords
      /\ start \in Seq(SoundWords) /\ laps \in Seq(SoundWords) /\ Len(start) <= 1
  BY DEF IInv, SoundTypes
<1>2. <<accumulated>> \in Seq(SoundWords) /\ <<hz>> \in Seq(SoundWords)
  BY <1>1
<1>3. <<accumulated>> \o start \in Seq(SoundWords)
  BY <1>1, <1>2, ConcatProperties
<1>4. AllWords \in Seq(SoundWords)
  BY <1>1, <1>3, ConcatProperties DEF AllWords
<1>5. AllWords # <<>>
  <2>1. Len(AllWords) = Len(<<accumulated>> \o start) + Len(laps)
    BY <1>1, <1>3, ConcatProperties DEF AllWords
  <2>2. Len(<<accumulated>> \o start) = 1 + Len(start)
    BY <1>1, <1>2, ConcatProperties
  <2>3. Len(start) \in Nat /\ Len(laps) \in Nat
    BY <1>1, LenProperties
  <2> QED  BY <2>1, <2>2, <2>3
<1>6. Counter \in Times
  BY CounterInTimes DEF Counter, IInv, SoundTypes
<1>7. ASSUME start # <<>> PROVE Len(start) = 1 /\ start[1] \in SoundWords
  <2>1. Len(start) \in Nat \ {0}
    BY <1>1, <1>7, EmptySeq
  <2>2. Len(start) <= 1
    BY <1>1
  <2>3. Len(start) = 1
    <3>1. \A n \in Nat \ {0} : n <= 1 => n = 1
      OBVIOUS
    <3> QED  BY <2>1, <2>2, <3>1, Zenon
  <2>4. 1 \in 1 .. Len(start)
    BY <2>3
  <2> QED  BY <2>3, <2>4, <1>1, ElementOfSeq
<1> QED  BY <1>2, <1>3, <1>4, <1>5, <1>6, <1>7

\* A reading is a 64-bit duration, and so is the total a segment is folded into.
LEMMA DurationsInTimes ==
  ASSUME IInv
  PROVE  /\ ElapsedNs \in Times
         /\ Folded \in SoundWords
<1>1. accumulated \in SoundWords /\ hz \in SoundWords
  BY DEF IInv, SoundTypes
<1>2. Checked(accumulated) \in Times /\ Scrubbed(accumulated) \in SoundWords
      /\ Get(Scrubbed(accumulated)) \in Times
  BY <1>1, ScrubOfWord
<1>3. Get(hz) \in Times
  BY <1>1, LoadOfWord
<1>4. CASE start = <<>>
  BY <1>2, <1>4 DEF ElapsedNs, Folded
<1>5. CASE start # <<>>
  <2>1. start[1] \in SoundWords /\ Counter \in Times
    BY <1>5, StoredWords
  <2>2. Checked(start[1]) \in Times /\ Get(Scrubbed(start[1])) \in Times
    BY <2>1, ScrubOfWord
  <2>3. \A origin \in Times : Live(origin) \in Times
    BY <1>3, <2>1, DifferenceInTimes, NanosInTimes DEF Live
  <2>4. SaturatingAdd(Checked(accumulated), Live(Checked(start[1]))) \in Times
    BY <1>2, <2>2, <2>3, SumInTimes
  <2>5. SaturatingAdd(Get(Scrubbed(accumulated)), Live(Get(Scrubbed(start[1])))) \in Times
    BY <1>2, <2>2, <2>3, SumInTimes
  <2> QED  BY <1>5, <2>4, <2>5, FreshIsSound DEF ElapsedNs, Folded
<1> QED  BY <1>4, <1>5

LEMMA InitSound == Init => IInv
<1> SUFFICES ASSUME Init PROVE IInv
  OBVIOUS
<1>1. 0 \in Times /\ TrueHz \in Times
  BY TimeAssumption DEF Times
<1>2. accumulated \in SoundWords /\ hz \in SoundWords
  BY <1>1, FreshIsSound DEF Init
<1> QED
  BY <1>2, TimeAssumption
  DEF Init, IInv, SoundTypes, OriginOnlyWhileRunning, States, Tiers

\* What a scrub finds is counted, and reported as a tier.
LEMMA ScrubSound ==
  ASSUME IInv, Scrub
  PROVE  lastIntegrity' \in Tiers /\ reported' \subseteq Tiers \ {"Clean"}
<1>1. AllWords \in Seq(SoundWords) /\ AllWords # <<>>
  BY StoredWords
<1>2. lastIntegrity' \in Tiers
  BY <1>1, WorstIsATier DEF Scrub
<1>3. reported' \subseteq Tiers \ {"Clean"}
  BY <1>1, RecordedAreTiers DEF Scrub, IInv, SoundTypes
<1> QED  BY <1>2, <1>3

\* The invariant is preserved, one action at a time.
LEMMA TickSound == IInv /\ Tick => IInv'
<1> SUFFICES ASSUME IInv, Tick PROVE IInv'
  OBVIOUS
<1>1. ticks' \in 0 .. MaxTicks
  BY TimeAssumption DEF Tick, IInv, SoundTypes
<1> QED  BY <1>1 DEF Tick, words, IInv, SoundTypes, OriginOnlyWhileRunning

LEMMA StartSound == IInv /\ Start => IInv'
<1> SUFFICES ASSUME IInv, Start PROVE IInv'
  OBVIOUS
<1>1. Fresh(0) \in SoundWords
  BY FreshIsSound, TimeAssumption DEF Times
<1>2. Fresh(Counter) \in SoundWords
  BY FreshIsSound, StoredWords
<1>3. start' \in Seq(SoundWords) /\ Len(start') = 1 /\ start' # <<>>
  BY <1>2 DEF Start
<1> QED
  BY <1>1, <1>3 DEF Start, IInv, SoundTypes, OriginOnlyWhileRunning, States, Tiers

LEMMA ResumeSound == IInv /\ Resume => IInv'
<1> SUFFICES ASSUME IInv, Resume PROVE IInv'
  OBVIOUS
<1>1. Scrubbed(accumulated) \in SoundWords
  BY ScrubOfWord DEF IInv, SoundTypes
<1>2. ScrubbedAll(laps) \in Seq(SoundWords)
  BY ScrubOfWords DEF IInv, SoundTypes
<1>3. Fresh(Counter) \in SoundWords
  BY FreshIsSound, StoredWords
<1>4. start' \in Seq(SoundWords) /\ Len(start') = 1 /\ start' # <<>>
  BY <1>3 DEF Resume
<1>5. lastIntegrity' \in Tiers /\ reported' \subseteq Tiers \ {"Clean"}
  BY ScrubSound DEF Resume
<1> QED
  BY <1>1, <1>2, <1>4, <1>5
  DEF Resume, IInv, SoundTypes, OriginOnlyWhileRunning, States

\* What pausing and stopping a running stopwatch share.
LEMMA FreezeSound ==
  ASSUME IInv, Freeze
  PROVE  /\ accumulated' \in SoundWords
         /\ laps' \in Seq(SoundWords)
         /\ start' = <<>> /\ start' \in Seq(SoundWords) /\ Len(start') = 0
         /\ lastIntegrity' \in Tiers /\ reported' \subseteq Tiers \ {"Clean"}
<1>1. accumulated' \in SoundWords
  BY DurationsInTimes DEF Freeze
<1>2. laps' \in Seq(SoundWords)
  BY ScrubOfWords DEF Freeze, IInv, SoundTypes
<1>3. lastIntegrity' \in Tiers /\ reported' \subseteq Tiers \ {"Clean"}
  BY ScrubSound DEF Freeze
<1> QED  BY <1>1, <1>2, <1>3, EmptySeq DEF Freeze

LEMMA PauseSound == IInv /\ Pause => IInv'
<1> SUFFICES ASSUME IInv, Pause PROVE IInv'
  OBVIOUS
<1>1. Freeze /\ state' = "Paused" /\ UNCHANGED <<hz, ticks>>
  BY DEF Pause
<1> QED
  BY <1>1, FreezeSound DEF IInv, SoundTypes, OriginOnlyWhileRunning, States

LEMMA StopSound == IInv /\ Stop => IInv'
<1> SUFFICES ASSUME IInv, Stop PROVE IInv'
  OBVIOUS
<1>1. state' = "Stopped" /\ UNCHANGED <<hz, ticks>>
  BY DEF Stop
<1>2. CASE Freeze
  BY <1>1, <1>2, FreezeSound DEF IInv, SoundTypes, OriginOnlyWhileRunning, States
<1>3. CASE state # "Running" /\ UNCHANGED <<accumulated, start, laps, lastIntegrity, reported>>
  BY <1>1, <1>3 DEF IInv, SoundTypes, OriginOnlyWhileRunning, States
<1> QED  BY <1>2, <1>3 DEF Stop

LEMMA ResetSound == IInv /\ Reset => IInv'
<1> SUFFICES ASSUME IInv, Reset PROVE IInv'
  OBVIOUS
<1>1. Fresh(0) \in SoundWords
  BY FreshIsSound, TimeAssumption DEF Times
<1> QED
  BY <1>1, EmptySeq
  DEF Reset, IInv, SoundTypes, OriginOnlyWhileRunning, States, Tiers

\* A scrub of every word, which verify and lap begin with.
LEMMA ScrubbedWordsSound ==
  ASSUME IInv
  PROVE  /\ Scrubbed(accumulated) \in SoundWords
         /\ ScrubbedAll(start) \in Seq(SoundWords)
         /\ Len(ScrubbedAll(start)) <= 1
         /\ start # <<>> <=> ScrubbedAll(start) # <<>>
         /\ ScrubbedAll(laps) \in Seq(SoundWords)
<1>1. accumulated \in SoundWords /\ start \in Seq(SoundWords) /\ laps \in Seq(SoundWords)
      /\ Len(start) <= 1
  BY DEF IInv, SoundTypes
<1>2. ScrubbedAll(start) \in Seq(SoundWords) /\ Len(ScrubbedAll(start)) = Len(start)
  BY <1>1, ScrubOfWords
<1>3. start # <<>> <=> ScrubbedAll(start) # <<>>
  <2>1. \A q \in Seq(SoundWords) : q # <<>> <=> Len(q) # 0
    BY EmptySeq
  <2> QED  BY <2>1, <1>1, <1>2, Zenon
<1> QED  BY <1>1, <1>2, <1>3, ScrubOfWord, ScrubOfWords

LEMMA LapSound == IInv /\ Lap => IInv'
<1> SUFFICES ASSUME IInv, Lap PROVE IInv'
  OBVIOUS
<1>1. Fresh(ElapsedNs) \in SoundWords
  BY FreshIsSound, DurationsInTimes
<1>2. laps' \in Seq(SoundWords)
  BY <1>1, ScrubbedWordsSound, AppendProperties DEF Lap
<1>3. lastIntegrity' \in Tiers /\ reported' \subseteq Tiers \ {"Clean"}
  BY ScrubSound DEF Lap
<1>4. OriginOnlyWhileRunning'
  BY ScrubbedWordsSound DEF Lap, IInv, OriginOnlyWhileRunning
<1> QED
  BY <1>2, <1>3, <1>4, ScrubbedWordsSound DEF Lap, IInv, SoundTypes

LEMMA VerifySound == IInv /\ Verify => IInv'
<1> SUFFICES ASSUME IInv, Verify PROVE IInv'
  OBVIOUS
<1>1. lastIntegrity' \in Tiers /\ reported' \subseteq Tiers \ {"Clean"}
  BY ScrubSound DEF Verify
<1>2. OriginOnlyWhileRunning'
  BY ScrubbedWordsSound DEF Verify, IInv, OriginOnlyWhileRunning
<1> QED
  BY <1>1, <1>2, ScrubbedWordsSound DEF Verify, IInv, SoundTypes

LEMMA ReadsSound == IInv /\ (ReadElapsed \/ Poll) => IInv'
<1> SUFFICES ASSUME IInv, ReadElapsed \/ Poll PROVE IInv'
  OBVIOUS
<1>1. reported' \subseteq Tiers \ {"Clean"}
  BY StoredWords, RecordedAreTiers DEF ReadElapsed, Poll, IInv, SoundTypes
<1> QED
  BY <1>1 DEF ReadElapsed, Poll, words, IInv, SoundTypes, OriginOnlyWhileRunning

LEMMA VerifyCalibrationSound == IInv /\ VerifyCalibration => IInv'
<1> SUFFICES ASSUME IInv, VerifyCalibration PROVE IInv'
  OBVIOUS
<1>1. reported' \subseteq Tiers \ {"Clean"}
  BY StoredWords, RecordedAreTiers DEF VerifyCalibration, IInv, SoundTypes
<1>2. Scrubbed(hz) \in SoundWords
  BY ScrubOfWord DEF IInv, SoundTypes
<1> QED
  BY <1>1, <1>2 DEF VerifyCalibration, IInv, SoundTypes, OriginOnlyWhileRunning

LEMMA UpsetSound ==
  ASSUME IInv, NEW c \in Copies, NEW b \in CopyBits, UpsetWord(c, b)
  PROVE  IInv'
<1>1. /\ accumulated \in SoundWords /\ hz \in SoundWords
      /\ start \in Seq(SoundWords) /\ laps \in Seq(SoundWords)
  BY DEF IInv, SoundTypes
<1>2. accumulated' \in SoundWords /\ hz' \in SoundWords
  BY <1>1, UpsetOfWord DEF UpsetWord
<1>3. /\ start' \in Seq(SoundWords) /\ Len(start') = Len(start)
      /\ laps' \in Seq(SoundWords)
  BY <1>1, UpsetOfWords DEF UpsetWord
<1>4. start # <<>> <=> start' # <<>>
  <2>1. \A q \in Seq(SoundWords) : q # <<>> <=> Len(q) # 0
    BY EmptySeq
  <2> QED  BY <2>1, <1>1, <1>3, Zenon
<1>5. UNCHANGED <<state, lastIntegrity, reported, ticks>>
  BY DEF UpsetWord
<1>6. Len(start') <= 1
  BY <1>3 DEF IInv, SoundTypes
<1>7. OriginOnlyWhileRunning'
  BY <1>4, <1>5 DEF IInv, OriginOnlyWhileRunning
<1> QED
  BY <1>2, <1>3, <1>5, <1>6, <1>7 DEF IInv, SoundTypes

LEMMA NextSound == IInv /\ [Next]_vars => IInv'
<1> SUFFICES ASSUME IInv, [Next]_vars PROVE IInv'
  OBVIOUS
<1>1. CASE UNCHANGED vars
  BY <1>1 DEF vars, words, IInv, SoundTypes, OriginOnlyWhileRunning
<1>2. ASSUME NEW c \in Copies, NEW b \in CopyBits, UpsetWord(c, b) PROVE IInv'
  BY <1>2, UpsetSound
<1>3. CASE PrimaryAction
  BY <1>3, StartSound, PauseSound, ResumeSound DEF PrimaryAction
<1> QED
  BY <1>1, <1>2, <1>3, TickSound, StartSound, ResumeSound, PauseSound, StopSound,
     ResetSound, LapSound, VerifySound, ReadsSound, VerifyCalibrationSound
  DEF Next

THEOREM InvariantHolds == Spec => []IInv
<1> QED  BY InitSound, NextSound, PTL DEF Spec

\* Type correctness, for every width, every bound on the laps and every
\* pattern of upsets of at most two bits in a copy.
THEOREM TypeCorrect == Spec => []TypeOK
<1>1. IInv => TypeOK
  <2> SUFFICES ASSUME IInv PROVE TypeOK
    OBVIOUS
  <2>1. SoundWords \subseteq Words
    BY DEF SoundWords
  <2>2. Seq(SoundWords) \subseteq Seq(Words)
    BY <2>1, SeqMonotonic
  <2> QED  BY <2>1, <2>2 DEF IInv, SoundTypes, TypeOK
<1> QED  BY <1>1, InvariantHolds, PTL

\* The total and a live segment never hold the same time, whatever upsets and
\* calls come in whatever order.
THEOREM OriginHeldWhileRunning == Spec => []OriginOnlyWhileRunning
<1>1. IInv => OriginOnlyWhileRunning
  BY DEF IInv
<1> QED  BY <1>1, InvariantHolds, PTL

-----------------------------------------------------------------------------
(* The refinement: what a check of the words hands out is the state of the *)
(* ideal stopwatch.                                                        *)

ShownStart == IF start = <<>> THEN -1 ELSE Checked(start[1])
ShownLaps  == [i \in DOMAIN laps |-> Checked(laps[i])]

\* The rate is never hit, so it stays as calibrated.
SoundRate == hz = Fresh(TrueHz)

RInv == IInv /\ SoundRate

\* A check of a word just written hands out what was written.
LEMMA CheckedFresh ==
  ASSUME NEW v \in Times
  PROVE  Checked(Fresh(v)) = v
BY FreshIsSound DEF Checked

\* A duration is converted with the calibrated rate.
LEMMA LiveIsTrue ==
  ASSUME RInv, NEW from
  PROVE  Live(from) = UnitsToNs(WrappingSub(Counter, from), TrueHz)
<1>1. TrueHz \in Times
  BY TimeAssumption
<1>2. Get(hz) = TrueHz
  BY <1>1, FreshIsSound, LoadOfWord DEF RInv, SoundRate
<1> QED  BY <1>2 DEF Live

\* An origin shown is a counter value, so it differs from the mark of none.
LEMMA ShownOrigin ==
  ASSUME IInv
  PROVE  /\ ShownStart = -1 <=> start = <<>>
         /\ start # <<>> => ShownStart = Checked(start[1])
<1>1. CASE start = <<>>
  BY <1>1 DEF ShownStart
<1>2. CASE start # <<>>
  <2>1. Checked(start[1]) \in Times
    BY <1>2, StoredWords, ScrubOfWord
  <2>2. \A t \in Times : t # -1
    BY DEF Times
  <2> QED  BY <1>2, <2>1, <2>2 DEF ShownStart
<1> QED  BY <1>1, <1>2

\* A reading is what the ideal stopwatch shows, and a fold leaves it as total.
LEMMA ElapsedAgrees ==
  ASSUME RInv
  PROVE  /\ ElapsedNs = Ideal!Elapsed
         /\ Checked(Folded) = Ideal!Elapsed
<1>1. IInv
  BY DEF RInv
<1>2. Ideal!Elapsed = IF ShownStart = -1 THEN Checked(accumulated)
                      ELSE SaturatingAdd(Checked(accumulated),
                             UnitsToNs(WrappingSub(Counter, ShownStart), TrueHz))
  BY DEF Ideal!Elapsed, Ideal!Live, Ideal!NotRunning, Ideal!Counter, Counter, ShownStart,
         Ideal!SaturatingAdd, SaturatingAdd, Ideal!UnitsToNs, UnitsToNs,
         Ideal!WrappingSub, WrappingSub, Ideal!CounterAfter, CounterAfter,
         Ideal!Limit, Limit
<1>3. ElapsedNs = Ideal!Elapsed
  BY <1>1, <1>2, ShownOrigin, LiveIsTrue DEF ElapsedNs
<1>4. accumulated \in SoundWords
  BY <1>1 DEF IInv, SoundTypes
<1>5. Checked(Folded) = ElapsedNs
  <2>1. CASE start = <<>>
    BY <2>1, <1>4, ScrubOfWord DEF Folded, ElapsedNs
  <2>2. CASE start # <<>>
    <3>1. start[1] \in SoundWords
      BY <2>2, <1>1, StoredWords
    <3>2. Folded = Fresh(ElapsedNs)
      BY <2>2, <3>1, <1>4, ScrubOfWord DEF Folded, ElapsedNs
    <3> QED  BY <3>2, <1>1, DurationsInTimes, CheckedFresh
  <2> QED  BY <2>1, <2>2
<1> QED  BY <1>3, <1>5

\* A scrub changes nothing that is shown.
LEMMA ScrubShowsTheSame ==
  ASSUME IInv
  PROVE  /\ Checked(Scrubbed(accumulated)) = Checked(accumulated)
         /\ [i \in DOMAIN ScrubbedAll(laps) |-> Checked(ScrubbedAll(laps)[i])] = ShownLaps
         /\ start # <<>> => /\ ScrubbedAll(start) # <<>>
                            /\ Checked(ScrubbedAll(start)[1]) = Checked(start[1])
         /\ start = <<>> => ScrubbedAll(start) = <<>>
<1>1. accumulated \in SoundWords /\ start \in Seq(SoundWords) /\ laps \in Seq(SoundWords)
  BY DEF IInv, SoundTypes
<1>2. Checked(Scrubbed(accumulated)) = Checked(accumulated)
  BY <1>1, ScrubOfWord
<1>3. [i \in DOMAIN ScrubbedAll(laps) |-> Checked(ScrubbedAll(laps)[i])] = ShownLaps
  BY <1>1, ScrubOfWords DEF ShownLaps
<1>4. ASSUME start # <<>>
      PROVE  ScrubbedAll(start) # <<>> /\ Checked(ScrubbedAll(start)[1]) = Checked(start[1])
  <2>1. ScrubbedAll(start) # <<>>
    BY <1>4, ScrubbedWordsSound
  <2>2. 1 \in DOMAIN start
    BY <1>1, <1>4, StoredWords, LenProperties
  <2> QED  BY <2>1, <2>2, <1>1, ScrubOfWords
<1>5. start = <<>> => ScrubbedAll(start) = <<>>
  BY ScrubbedWordsSound
<1> QED  BY <1>2, <1>3, <1>4, <1>5

\* Nor does an upset, as long as no word is beyond repair.
LEMMA UpsetShowsTheSame ==
  ASSUME IInv, Tolerance, NEW c \in Copies, NEW b \in CopyBits, UpsetWord(c, b)
  PROVE  /\ Checked(accumulated)' = Checked(accumulated)
         /\ ShownStart' = ShownStart
         /\ ShownLaps' = ShownLaps
<1>1. /\ accumulated \in SoundWords
      /\ start \in Seq(SoundWords) /\ laps \in Seq(SoundWords)
  BY DEF IInv, SoundTypes
<1>2. /\ accumulated' \in SoundWords
      /\ start' \in Seq(SoundWords) /\ laps' \in Seq(SoundWords)
  BY UpsetSound DEF IInv, SoundTypes
<1>3. Checked(accumulated)' = Checked(accumulated)
  <2>1. accumulated'.stored = accumulated.stored
    BY <1>1, UpsetOfWord DEF UpsetWord
  <2>2. Checked(accumulated') = accumulated'.stored
    BY <1>2, CheckedIsStored
  <2>3. Checked(accumulated) = accumulated.stored
    BY <1>1, CheckedIsStored
  <2> QED  BY <2>1, <2>2, <2>3
<1>4. ASSUME NEW ws \in Seq(SoundWords), NEW hit \in Seq(SoundWords),
             hit = ws \/ hit \in Struck(ws, c, b)
      PROVE  /\ DOMAIN hit = DOMAIN ws
             /\ Len(hit) = Len(ws)
             /\ \A i \in DOMAIN ws : Checked(hit[i]) = Checked(ws[i])
  <2>1. /\ DOMAIN hit = DOMAIN ws /\ Len(hit) = Len(ws)
        /\ \A i \in DOMAIN ws : hit[i].stored = ws[i].stored
    BY <1>4, UpsetOfWords
  <2>2. \A i \in DOMAIN ws : ws[i] \in SoundWords /\ hit[i] \in SoundWords
    BY <2>1, ElementOfSeq, LenProperties
  <2> QED  BY <2>1, <2>2, CheckedIsStored
<1>5. ShownLaps' = ShownLaps
  <2>1. laps' = laps \/ laps' \in Struck(laps, c, b)
    BY DEF UpsetWord
  <2> QED  BY <1>1, <1>2, <1>4, <2>1 DEF ShownLaps
<1>6. ShownStart' = ShownStart
  <2>1. start' = start \/ start' \in Struck(start, c, b)
    BY DEF UpsetWord
  <2>2. CASE start = <<>>
    <3>1. Len(start') = 0
      BY <2>1, <2>2, <1>1, <1>2, <1>4, EmptySeq
    <3>2. start' = <<>>
      BY <3>1, <1>2, EmptySeq
    <3> QED  BY <2>2, <3>2 DEF ShownStart
  <2>3. CASE start # <<>>
    <3>1. 1 \in DOMAIN start /\ Len(start) = 1
      BY <2>3, <1>1, StoredWords, LenProperties
    <3>2. Len(start') = 1 /\ Checked(start'[1]) = Checked(start[1])
      BY <3>1, <2>1, <1>1, <1>2, <1>4
    <3>3. start' # <<>>
      <4>1. Len(<<>>) # 1
        OBVIOUS
      <4>2. Len(start') = 1
        BY <3>2
      <4> QED  BY <4>1, <4>2, Zenon
    <3> QED  BY <2>3, <3>2, <3>3 DEF ShownStart
  <2> QED  BY <2>2, <2>3
<1> QED  BY <1>3, <1>5, <1>6

-----------------------------------------------------------------------------
(* Every step is a step of the ideal stopwatch or leaves what it shows.    *)

IdealVars == <<state, Checked(accumulated), ShownStart, ShownLaps, ticks>>

LEMMA RateStaysSound ==
  ASSUME RInv, [Next]_vars, "hz" \notin Exposed
  PROVE  SoundRate'
<1>1. hz = Fresh(TrueHz) /\ Integrity(hz) = "Clean"
  BY FreshIsSound, TimeAssumption DEF RInv, SoundRate
<1>2. Scrubbed(hz) = hz
  BY <1>1 DEF Scrubbed, Repairs
<1>3. hz' = hz
  BY <1>2
  DEF Next, vars, words, Tick, Start, Resume, Pause, Stop, Reset, Lap, PrimaryAction,
      Verify, ReadElapsed, Poll, VerifyCalibration, UpsetWord
<1> QED  BY <1>1, <1>3 DEF SoundRate

LEMMA StartRefines == RInv /\ Start => Ideal!Start
<1> SUFFICES ASSUME RInv, Start PROVE Ideal!Start
  OBVIOUS
<1>1. Counter \in Times /\ 0 \in Times
  BY StoredWords, TimeAssumption DEF RInv, Times
<1>2. Checked(Fresh(0)) = 0 /\ Checked(Fresh(Counter)) = Counter
  BY <1>1, CheckedFresh
<1>3. Checked(accumulated)' = 0 /\ ShownStart' = Counter
  BY <1>2 DEF Start, ShownStart
<1>4. ShownLaps' = <<>>
  BY DEF Start, ShownLaps
<1> QED
  BY <1>3, <1>4
  DEF Start, ShownStart, ShownLaps, Ideal!Start, Ideal!Counter, Counter,
      Ideal!CounterAfter, CounterAfter, Ideal!Limit, Limit

LEMMA ResumeRefines == RInv /\ Resume => Ideal!Resume
<1> SUFFICES ASSUME RInv, Resume PROVE Ideal!Resume
  OBVIOUS
<1>1. Checked(Fresh(Counter)) = Counter
  BY StoredWords, CheckedFresh DEF RInv
<1>2. ShownStart' = Counter
  BY <1>1 DEF Resume, ShownStart
<1>3. Checked(accumulated)' = Checked(accumulated) /\ ShownLaps' = ShownLaps
  BY ScrubShowsTheSame DEF RInv, Resume, ShownLaps
<1> QED
  BY <1>2, <1>3
  DEF Resume, ShownStart, ShownLaps, Ideal!Resume, Ideal!Counter, Counter,
      Ideal!CounterAfter, CounterAfter, Ideal!Limit, Limit

LEMMA FreezeRefines ==
  ASSUME RInv, Freeze, UNCHANGED ticks
  PROVE  Ideal!Freeze
<1>1. Checked(accumulated)' = Ideal!Elapsed
  BY ElapsedAgrees DEF Freeze
<1>2. ShownStart' = -1
  BY DEF Freeze, ShownStart
<1>3. ShownLaps' = ShownLaps
  BY ScrubShowsTheSame DEF RInv, Freeze, ShownLaps
<1> QED
  BY <1>1, <1>2, <1>3 DEF ShownStart, ShownLaps, Ideal!Freeze, Ideal!NotRunning

LEMMA PauseRefines == RInv /\ Pause => Ideal!Pause
BY FreezeRefines DEF Pause, Ideal!Pause

\* Stopping a stopwatch that does not run folds nothing, as the ideal one does.
LEMMA StopRefines == RInv /\ Stop => Ideal!Stop
<1> SUFFICES ASSUME RInv, Stop PROVE Ideal!Stop
  OBVIOUS
<1>1. CASE Freeze
  BY <1>1, FreezeRefines DEF Stop, Ideal!Stop
<1>2. CASE state # "Running" /\ UNCHANGED <<accumulated, start, laps, lastIntegrity, reported>>
  <2>1. start = <<>>
    BY <1>2 DEF RInv, IInv, OriginOnlyWhileRunning
  <2>2. Ideal!Elapsed = Checked(accumulated)
    BY <2>1, ElapsedAgrees DEF ElapsedNs
  <2>3. ShownStart' = -1 /\ ShownLaps' = ShownLaps /\ Checked(accumulated)' = Checked(accumulated)
    BY <1>2, <2>1 DEF ShownStart, ShownLaps
  <2>4. Ideal!Freeze
    BY <2>2, <2>3
    DEF Stop, ShownStart, ShownLaps, Ideal!Freeze, Ideal!NotRunning
  <2> QED  BY <2>4 DEF Stop, Ideal!Stop
<1> QED  BY <1>1, <1>2 DEF Stop

LEMMA ResetRefines == RInv /\ Reset => Ideal!Reset
<1> SUFFICES ASSUME RInv, Reset PROVE Ideal!Reset
  OBVIOUS
<1>1. Checked(Fresh(0)) = 0
  BY CheckedFresh, TimeAssumption DEF Times
<1>2. Checked(accumulated)' = 0 /\ ShownStart' = -1 /\ ShownLaps' = <<>>
  BY <1>1 DEF Reset, ShownStart, ShownLaps
<1> QED
  BY <1>2 DEF Reset, ShownStart, ShownLaps, Ideal!Reset, Ideal!NotRunning

\* A lap is the reading the ideal stopwatch shows, and the earlier ones stay.
LEMMA LapRefines == RInv /\ Lap => Ideal!Lap
<1> SUFFICES ASSUME RInv, Lap PROVE Ideal!Lap
  OBVIOUS
<1> DEFINE old == ScrubbedAll(laps)
           new == Append(old, Fresh(ElapsedNs))
<1>1. laps \in Seq(SoundWords) /\ old \in Seq(SoundWords)
  BY ScrubOfWords DEF RInv, IInv, SoundTypes
<1>2. ElapsedNs \in Times /\ Fresh(ElapsedNs) \in SoundWords
  BY DurationsInTimes, FreshIsSound DEF RInv
<1>3. Checked(Fresh(ElapsedNs)) = Ideal!Elapsed
  BY <1>2, CheckedFresh, ElapsedAgrees
<1>4. /\ Len(old) = Len(laps) /\ Len(laps) \in Nat
      /\ DOMAIN laps = 1 .. Len(laps) /\ DOMAIN old = DOMAIN laps
      /\ \A i \in DOMAIN laps : Checked(old[i]) = Checked(laps[i])
  BY <1>1, ScrubOfWords, LenProperties
<1>5. /\ new \in Seq(SoundWords)
      /\ Len(new) = Len(laps) + 1
      /\ \A i \in 1 .. Len(laps) : new[i] = old[i]
      /\ new[Len(laps) + 1] = Fresh(ElapsedNs)
  BY <1>1, <1>2, <1>4, AppendProperties
<1>6. DOMAIN new = 1 .. Len(laps) + 1
  BY <1>5, LenProperties
<1> HIDE DEF new, old
<1> DEFINE seen == [i \in DOMAIN new |-> Checked(new[i])]
<1>7. ShownLaps \in Seq(Times) /\ Len(ShownLaps) = Len(laps)
  <2>1. \A i \in DOMAIN laps : Checked(laps[i]) \in Times
    BY <1>1, <1>4, ElementOfSeq, ScrubOfWord
  <2>2. ShownLaps \in [1 .. Len(laps) -> Times]
    BY <2>1, <1>4 DEF ShownLaps
  <2>3. ShownLaps \in Seq(Times)
    BY <2>2, <1>4, SeqDef
  <2> QED  BY <2>2, <2>3, <1>4, LenProperties
<1>8. seen = Append(ShownLaps, Ideal!Elapsed)
  <2> DEFINE app == Append(ShownLaps, Ideal!Elapsed)
  <2>1. Ideal!Elapsed \in Times
    BY <1>2, ElapsedAgrees
  <2>2. /\ app \in Seq(Times) /\ Len(app) = Len(laps) + 1
        /\ \A i \in 1 .. Len(laps) : app[i] = ShownLaps[i]
        /\ app[Len(laps) + 1] = Ideal!Elapsed
    BY <2>1, <1>7, AppendProperties
  <2>3. app \in [1 .. Len(laps) + 1 -> Times]
    BY <2>2, LenProperties
  <2>4. ASSUME NEW i \in 1 .. Len(laps) + 1 PROVE seen[i] = app[i]
    <3>1. CASE i \in 1 .. Len(laps)
      <4>1. seen[i] = Checked(old[i])
        BY <3>1, <1>5, <1>6
      <4>2. app[i] = Checked(laps[i])
        BY <3>1, <2>2, <1>4 DEF ShownLaps
      <4> QED  BY <4>1, <4>2, <3>1, <1>4
    <3>2. CASE i = Len(laps) + 1
      BY <3>2, <1>3, <1>5, <1>6, <2>2
    <3>3. i \in 1 .. Len(laps) \/ i = Len(laps) + 1
      <4>1. \A n \in Nat : \A k \in 1 .. n + 1 : k \in 1 .. n \/ k = n + 1
        OBVIOUS
      <4> QED  BY <4>1, <1>4, Zenon
    <3> QED  BY <3>1, <3>2, <3>3
  <2> HIDE DEF app
  <2>5. seen = app
    BY <2>3, <2>4, <1>6
  <2> QED  BY <2>5 DEF app
<1>9. ShownLaps' = Append(ShownLaps, Ideal!Elapsed)
  <2>1. laps' = new
    BY DEF Lap, new, old
  <2>2. ShownLaps' = seen
    BY <2>1 DEF ShownLaps
  <2> QED  BY <2>2, <1>8
<1>10. Len(ShownLaps) < MaxLaps
  BY <1>7 DEF Lap
<1>11. Checked(accumulated)' = Checked(accumulated) /\ ShownStart' = ShownStart
  BY ScrubShowsTheSame DEF RInv, Lap, ShownStart
<1> QED
  BY <1>9, <1>10, <1>11 DEF Lap, ShownStart, ShownLaps, Ideal!Lap

LEMMA StutterRefines ==
  ASSUME RInv, Verify \/ ReadElapsed \/ Poll \/ VerifyCalibration \/ UNCHANGED vars
  PROVE  UNCHANGED IdealVars
<1>1. CASE Verify
  <2>1. Checked(accumulated)' = Checked(accumulated) /\ ShownLaps' = ShownLaps
    BY <1>1, ScrubShowsTheSame DEF RInv, Verify, ShownLaps
  <2>2. ShownStart' = ShownStart
    BY <1>1, ScrubShowsTheSame DEF RInv, Verify, ShownStart
  <2> QED  BY <1>1, <2>1, <2>2 DEF Verify, IdealVars
<1>2. CASE ReadElapsed \/ Poll \/ VerifyCalibration \/ UNCHANGED vars
  <2>1. UNCHANGED <<state, accumulated, start, laps, ticks>>
    BY <1>2 DEF ReadElapsed, Poll, VerifyCalibration, vars, words
  <2> QED  BY <2>1 DEF IdealVars, ShownStart, ShownLaps
<1> QED  BY <1>1, <1>2

LEMMA StepRefines ==
  ASSUME RInv, Tolerance, [Next]_vars
  PROVE  [Ideal!Next]_(Ideal!vars)
<1>1. Ideal!vars = IdealVars
  BY DEF Ideal!vars, IdealVars, ShownStart, ShownLaps
<1>2. (UNCHANGED IdealVars) => UNCHANGED Ideal!vars
  BY DEF Ideal!vars, IdealVars, ShownStart, ShownLaps
<1>3. CASE Tick
  BY <1>3 DEF Tick, words, Ideal!Next, Ideal!Tick
<1>4. CASE Start
  BY <1>4, StartRefines DEF Ideal!Next
<1>5. CASE Resume
  BY <1>5, ResumeRefines DEF Ideal!Next
<1>6. CASE Pause
  BY <1>6, PauseRefines DEF Ideal!Next
<1>7. CASE Stop
  BY <1>7, StopRefines DEF Ideal!Next
<1>8. CASE Reset
  BY <1>8, ResetRefines DEF Ideal!Next
<1>9. CASE Lap
  BY <1>9, LapRefines DEF Ideal!Next
<1>10. CASE PrimaryAction
  BY <1>10, StartRefines, PauseRefines, ResumeRefines DEF PrimaryAction, Ideal!Next
<1>11. CASE Verify \/ ReadElapsed \/ Poll \/ VerifyCalibration \/ UNCHANGED vars
  BY <1>2, <1>11, StutterRefines
<1>12. ASSUME NEW c \in Copies, NEW b \in CopyBits, UpsetWord(c, b)
       PROVE  UNCHANGED IdealVars
  BY <1>12, UpsetShowsTheSame DEF RInv, UpsetWord, IdealVars
<1> QED
  BY <1>2, <1>3, <1>4, <1>5, <1>6, <1>7, <1>8, <1>9, <1>10, <1>11, <1>12 DEF Next

LEMMA InitRefines == Init => Ideal!Init /\ SoundRate
<1> SUFFICES ASSUME Init PROVE Ideal!Init /\ SoundRate
  OBVIOUS
<1>1. Checked(accumulated) = 0
  BY CheckedFresh, TimeAssumption DEF Init, Times
<1>2. [i \in DOMAIN laps |-> Checked(laps[i])] = <<>>
  BY DEF Init
<1> QED  BY <1>1, <1>2 DEF Init, Ideal!Init, Ideal!NotRunning, SoundRate

\* Transparency: whatever upsets fall between the calls, as long as they spare
\* the rate and leave at most two wrong bits in the primary of a word and one
\* in each of its replicas, the stopwatch is one whose memory never fails.
THEOREM StopwatchKeepsTime ==
  ASSUME Tolerance, "hz" \notin Exposed
  PROVE  Spec => KeepsTime
<1>1. Init => RInv /\ Ideal!Init
  BY InitSound, InitRefines DEF RInv
<1>2. RInv /\ [Next]_vars => RInv'
  BY NextSound, RateStaysSound DEF RInv
<1>3. RInv /\ [Next]_vars => [Ideal!Next]_(Ideal!vars)
  BY StepRefines
<1> QED
  BY <1>1, <1>2, <1>3, PTL DEF Spec, KeepsTime, Ideal!Spec

-----------------------------------------------------------------------------
(* The arithmetic of a total beside the time it stands for.                *)

LEMMA ProductIsNat == \A a, b \in Nat : a * b \in Nat
OBVIOUS

LEMMA ProductGrows == \A a, b, c \in Nat : a <= b => a * c <= b * c
OBVIOUS

LEMMA ProductCancels == \A a, b \in Nat, c \in Nat \ {0} : a * c < b * c => a < b
OBVIOUS

\* A quotient is the largest number whose product with the divisor fits.
LEMMA QuotientBounds ==
  \A n \in Nat, d \in Nat \ {0} :
    /\ n \div d \in Nat
    /\ (n \div d) * d <= n
    /\ n <= (n \div d) * d + (d - 1)
OBVIOUS

\* The remainder of a number that is less than one divisor away from zero.
LEMMA NearRemainder ==
  ASSUME NEW d \in Nat \ {0}, NEW x \in Int, -d < x, x < d
  PROVE  x % d = IF x < 0 THEN x + d ELSE x
OBVIOUS

LEMMA RemainderIsNatural == \A n \in Nat, d \in Nat \ {0} : n % d \in 0 .. d - 1
OBVIOUS

LEMMA QuotientAndRemainder ==
  \A n \in Nat, d \in Nat \ {0} :
    \E q \in Nat, r \in 0 .. d - 1 : n = q * d + r /\ n % d = r
<1> TAKE n \in Nat, d \in Nat \ {0}
<1>1. /\ n \div d \in Nat /\ n % d \in 0 .. d - 1
      /\ n = (n \div d) * d + (n % d)
  OBVIOUS
<1> QED  BY <1>1

\* There is one way only to write a number as a multiple and a rest.
LEMMA RemainderIsUnique ==
  ASSUME NEW d \in Nat \ {0}, NEW k \in Nat, NEW s \in Nat, s < d
  PROVE  (k * d + s) % d = s
<1>1. k * d \in Nat /\ k * d + s \in Nat
  BY ProductIsNat
<1>2. PICK q \in Nat, r \in 0 .. d - 1 : k * d + s = q * d + r /\ (k * d + s) % d = r
  BY <1>1, QuotientAndRemainder
<1>3. (k + 1) * d = k * d + d /\ (q + 1) * d = q * d + d /\ q * d \in Nat
  BY <1>2, ProductIsNat
<1>4. k * d < (q + 1) * d /\ q * d < (k + 1) * d
  BY <1>1, <1>2, <1>3
<1>5. k < q + 1 /\ q < k + 1
  BY <1>2, <1>4, ProductCancels
<1>6. q = k
  BY <1>2, <1>5
<1> QED  BY <1>1, <1>2, <1>6

\* The next reading of a counter is one more, or zero.
LEMMA NextRemainder ==
  ASSUME NEW d \in Nat \ {0}, NEW n \in Nat
  PROVE  (n + 1) % d = IF n % d = d - 1 THEN 0 ELSE (n % d) + 1
<1>1. PICK q \in Nat, r \in 0 .. d - 1 : n = q * d + r /\ n % d = r
  BY QuotientAndRemainder
<1>2. CASE r = d - 1
  <2>1. n + 1 = (q + 1) * d + 0
    BY <1>1, <1>2
  <2> QED  BY <2>1, <1>1, <1>2, RemainderIsUnique
<1>3. CASE r # d - 1
  <2>1. n + 1 = q * d + (r + 1) /\ r + 1 \in Nat /\ r + 1 < d
    BY <1>1, <1>3
  <2>2. (n + 1) % d = r + 1
    BY <2>1, RemainderIsUnique
  <2> QED  BY <2>2, <1>1, <1>3
<1> QED  BY <1>2, <1>3

\* A wrapping difference below the wrap follows the counter.
LEMMA DifferenceFollows ==
  ASSUME NEW t \in Nat, NEW from \in Times,
         WrappingSub(CounterAfter(t), from) + 1 < Limit
  PROVE  WrappingSub(CounterAfter(t + 1), from) = WrappingSub(CounterAfter(t), from) + 1
<1> DEFINE n == Boot + t
           r == n % Limit
<1>1. Limit \in Nat \ {0} /\ n \in Nat /\ from \in 0 .. Limit - 1
  BY TimeAssumption DEF Times
<1>2. r \in 0 .. Limit - 1
  BY <1>1, RemainderIsNatural
<1>3. (n + 1) % Limit = IF r = Limit - 1 THEN 0 ELSE r + 1
  BY <1>1, NextRemainder
<1>4. Boot + (t + 1) = n + 1
  BY TimeAssumption DEF Times
<1>5. ((r - from) % Limit) + 1 < Limit
  BY DEF WrappingSub, CounterAfter
<1> SUFFICES (((n + 1) % Limit) - from) % Limit = ((r - from) % Limit) + 1
  BY <1>4 DEF WrappingSub, CounterAfter
<1>6. r - from \in Int /\ -Limit < r - from /\ r - from < Limit
  BY <1>1, <1>2
<1>7. (r - from) % Limit = IF r - from < 0 THEN r - from + Limit ELSE r - from
  BY <1>1, <1>6, NearRemainder
<1> HIDE DEF r, n
<1>8. CASE r = Limit - 1
  <2>1. (n + 1) % Limit = 0 /\ from > 0 /\ (r - from) % Limit = r - from
    BY <1>1, <1>2, <1>3, <1>5, <1>7, <1>8
  <2>2. 0 - from \in Int /\ -Limit < 0 - from /\ 0 - from < Limit /\ 0 - from < 0
    BY <1>1, <2>1
  <2>3. (0 - from) % Limit = 0 - from + Limit
    BY <1>1, <2>2, NearRemainder
  <2> QED  BY <1>1, <1>8, <2>1, <2>3
<1>9. CASE r # Limit - 1
  <2>1. (n + 1) % Limit = r + 1
    BY <1>3, <1>9
  <2>2. r + 1 - from \in Int /\ -Limit < r + 1 - from /\ r + 1 - from < Limit
    BY <1>1, <1>2, <1>9
  <2>3. (r + 1 - from) % Limit
          = IF r + 1 - from < 0 THEN r + 1 - from + Limit ELSE r + 1 - from
    BY <1>1, <2>2, NearRemainder
  <2> QED  BY <1>1, <1>2, <1>5, <1>7, <2>1, <2>3
<1> QED  BY <1>8, <1>9

\* No session lasts until the counter wraps or a duration overflows 64 bits.
BoundedSession == MaxTicks < Limit /\ MaxTicks * NanosPerSecond < Limit * TrueHz

\* The conversion of a segment loses less than a nanosecond.
LEMMA SegmentIsRight ==
  ASSUME BoundedSession, NEW u \in 0 .. MaxTicks
  PROVE  UnitsToNs(u, TrueHz) \in Nat /\ Right(UnitsToNs(u, TrueHz), u, 1)
<1> DEFINE n == u * NanosPerSecond
           q == n \div TrueHz
<1>1. /\ Limit \in Nat \ {0} /\ TrueHz \in Nat \ {0} /\ NanosPerSecond \in Nat
      /\ MaxTicks \in Nat /\ u \in Nat /\ u <= MaxTicks
  BY TimeAssumption DEF Times
<1>2. n \in Nat /\ n <= MaxTicks * NanosPerSecond
  BY <1>1, ProductIsNat, ProductGrows
<1>3. q \in Nat /\ q * TrueHz <= n /\ n <= q * TrueHz + (TrueHz - 1)
  BY <1>1, <1>2, QuotientBounds
<1> HIDE DEF n, q
<1>4. /\ q * TrueHz \in Nat /\ MaxTicks * NanosPerSecond \in Nat
      /\ Limit * TrueHz \in Nat
  BY <1>1, <1>3, ProductIsNat
<1>5. q * TrueHz < Limit * TrueHz
  BY <1>2, <1>3, <1>4 DEF BoundedSession
<1>6. q < Limit
  BY <1>1, <1>3, <1>5, ProductCancels
<1>7. q % Limit = q
  BY <1>1, <1>3, <1>6, NearRemainder
<1>8. UnitsToNs(u, TrueHz) = q
  BY <1>1, <1>7 DEF UnitsToNs, n, q
<1>9. q * TrueHz >= n - 1 * (TrueHz - 1)
  BY <1>1, <1>2, <1>3, <1>4
<1> QED  BY <1>3, <1>8, <1>9 DEF Right, n

\* A total that is right stays so when a segment is added to it.
LEMMA SumIsRight ==
  ASSUME BoundedSession, NEW total \in Times, NEW past \in Nat, NEW u \in Nat,
         past + u <= MaxTicks, NEW segments \in Nat, Right(total, past, segments)
  PROVE  Right(SaturatingAdd(total, UnitsToNs(u, TrueHz)), past + u, segments + 1)
<1> DEFINE e == UnitsToNs(u, TrueHz)
           T == TrueHz
           N == NanosPerSecond
<1>1. /\ Limit \in Nat \ {0} /\ T \in Nat \ {0} /\ N \in Nat /\ total \in Nat
      /\ MaxTicks \in Nat /\ u \in 0 .. MaxTicks
  BY TimeAssumption DEF Times
<1>2. e \in Nat /\ e * T <= u * N /\ e * T >= u * N - 1 * (T - 1)
  BY <1>1, SegmentIsRight DEF Right
<1>3. total * T <= past * N /\ total * T >= past * N - segments * (T - 1)
  BY DEF Right
<1> HIDE DEF e, T, N
<1>4. /\ (total + e) * T = total * T + e * T
      /\ (past + u) * N = past * N + u * N
      /\ (segments + 1) * (T - 1) = segments * (T - 1) + 1 * (T - 1)
  BY <1>1, <1>2
<1>5. /\ total * T \in Nat /\ e * T \in Nat /\ past * N \in Nat /\ u * N \in Nat
      /\ segments * (T - 1) \in Nat /\ 1 * (T - 1) \in Nat
  BY <1>1, <1>2, ProductIsNat
<1>6. /\ (total + e) * T <= (past + u) * N
      /\ (total + e) * T >= (past + u) * N - (segments + 1) * (T - 1)
  BY <1>2, <1>3, <1>4, <1>5
<1>7. (past + u) * N <= MaxTicks * N
  BY <1>1, ProductGrows
<1>8. (total + e) * T < Limit * T
  <2>1. (total + e) * T \in Nat /\ (past + u) * N \in Nat /\ MaxTicks * N \in Nat /\ Limit * T \in Nat
    BY <1>1, <1>2, ProductIsNat
  <2>2. MaxTicks * N < Limit * T
    BY DEF BoundedSession, N, T
  <2> QED  BY <2>1, <2>2, <1>6, <1>7
<1>9. total + e < Limit
  BY <1>1, <1>2, <1>8, ProductCancels
<1>10. SaturatingAdd(total, e) = total + e
  BY <1>9 DEF SaturatingAdd
<1> QED  BY <1>6, <1>10 DEF Right, e, T, N

-----------------------------------------------------------------------------
(* The invariant behind a right reading: the total is right for the time   *)
(* before the live segment, unless what cannot be repaired was counted.    *)

\* Counter units of the live segment.
LiveUnits == IF start = <<>> THEN 0 ELSE WrappingSub(Counter, start[1].stored)

LapRecords == [ran : Nat, segments : Nat]

TotalRight == Right(accumulated.stored, ran - LiveUnits, folds)

LapsRight ==
  \A i \in DOMAIN laps : Right(laps[i].stored, lapTimes[i].ran, lapTimes[i].segments)

Told ==
  /\ ran \in 0 .. ticks /\ folds \in Nat
  /\ LiveUnits \in 0 .. ran
  /\ lapTimes \in Seq(LapRecords) /\ Len(lapTimes) = Len(laps)
  /\ "Unrecoverable" \notin reported => TotalRight /\ LapsRight

TruthInv == RInv /\ Told

\* The value a word was written with outlives a scrub, whatever its damage.
LEMMA ScrubKeepsStored ==
  ASSUME NEW w \in SoundWords
  PROVE  Scrubbed(w) \in SoundWords /\ Scrubbed(w).stored = w.stored
<1>1. w.stored \in Times
  BY DEF SoundWords, Words
<1>2. Fresh(w.stored) \in SoundWords /\ Fresh(w.stored).stored = w.stored
  BY <1>1, FreshIsSound
<1> QED  BY <1>2 DEF Scrubbed

\* What a check hands out of a word that is not beyond repair.
LEMMA CheckedUnlessCounted ==
  ASSUME NEW w \in SoundWords, Integrity(w) # "Unrecoverable"
  PROVE  Checked(w) = w.stored
BY DEF Checked

LEMMA LiveUnitsIsNat == ASSUME IInv PROVE LiveUnits \in Nat
<1>1. CASE start = <<>>
  BY <1>1 DEF LiveUnits
<1>2. CASE start # <<>>
  <2>1. start[1].stored \in Times /\ Counter \in Times
    BY <1>2, StoredWords DEF SoundWords, Words
  <2>2. WrappingSub(Counter, start[1].stored) \in Times
    BY <2>1, DifferenceInTimes
  <2>3. \A n \in Times : n \in Nat
    BY TimeAssumption DEF Times
  <2> QED  BY <1>2, <2>2, <2>3 DEF LiveUnits
<1> QED  BY <1>1, <1>2

\* What a check of a state's words finds when nothing of it is counted as
\* beyond repair: a reading is right, and so are the laps.
LEMMA UncountedIsRight ==
  ASSUME TruthInv, BoundedSession, "Unrecoverable" \notin reported,
         "Unrecoverable" \notin TiersOf(<<accumulated>> \o start)
  PROVE  Right(ElapsedNs, ran, folds + Len(start))
<1>1. /\ IInv /\ TotalRight /\ ran \in Nat /\ ran <= MaxTicks /\ folds \in Nat
      /\ LiveUnits \in 0 .. ran
  BY TimeAssumption DEF TruthInv, RInv, Told, IInv, SoundTypes
<1>2. accumulated \in SoundWords /\ start \in Seq(SoundWords)
  BY <1>1 DEF IInv, SoundTypes
<1> DEFINE ws == <<accumulated>> \o start
<1>3. /\ Len(ws) = 1 + Len(start) /\ DOMAIN ws = 1 .. 1 + Len(start)
      /\ ws[1] = accumulated
      /\ start # <<>> => ws[2] = start[1]
  BY <1>1, <1>2, StoredWords
<1>4. Len(start) \in Nat
  BY <1>2
<1>5. Checked(accumulated) = accumulated.stored /\ accumulated.stored \in Times
  <2>1. Integrity(accumulated) # "Unrecoverable"
    BY <1>3, <1>4 DEF TiersOf
  <2> QED  BY <2>1, <1>2, CheckedUnlessCounted DEF SoundWords, Words
<1>6. CASE start = <<>>
  <2>1. LiveUnits = 0 /\ Len(start) = 0 /\ ElapsedNs = accumulated.stored
    BY <1>5, <1>6 DEF LiveUnits, ElapsedNs
  <2>2. ran - 0 = ran /\ folds + 0 = folds
    BY <1>1
  <2> QED  BY <1>1, <2>1, <2>2 DEF TotalRight
<1>7. CASE start # <<>>
  <2>1. Len(start) = 1 /\ start[1] \in SoundWords
    BY <1>1, <1>7, StoredWords
  <2>2. Integrity(start[1]) # "Unrecoverable"
    BY <1>3, <1>7, <2>1 DEF TiersOf
  <2>3. Checked(start[1]) = start[1].stored
    BY <2>1, <2>2, CheckedUnlessCounted
  <2>4. Live(start[1].stored) = UnitsToNs(LiveUnits, TrueHz)
    BY <1>7, LiveIsTrue DEF TruthInv, LiveUnits
  <2>5. ElapsedNs = SaturatingAdd(accumulated.stored, UnitsToNs(LiveUnits, TrueHz))
    BY <1>5, <1>7, <2>3, <2>4 DEF ElapsedNs
  <2>6. Right(accumulated.stored, ran - LiveUnits, folds)
    BY <1>1 DEF TotalRight
  <2>7. ran - LiveUnits \in Nat /\ (ran - LiveUnits) + LiveUnits = ran /\ LiveUnits \in Nat
    BY <1>1
  <2> HIDE DEF LiveUnits
  <2>8. Right(SaturatingAdd(accumulated.stored, UnitsToNs(LiveUnits, TrueHz)),
              (ran - LiveUnits) + LiveUnits, folds + 1)
    BY <1>1, <1>5, <2>6, <2>7, SumIsRight
  <2> QED  BY <2>1, <2>5, <2>7, <2>8
<1> QED  BY <1>6, <1>7

\* A step that leaves what the words were last written with, and the time.
Steady ==
  /\ UNCHANGED <<ticks, truthVars>>
  /\ accumulated'.stored = accumulated.stored
  /\ LiveUnits' = LiveUnits
  /\ Len(laps') = Len(laps)
  /\ \A i \in DOMAIN laps : laps'[i].stored = laps[i].stored
  /\ reported \subseteq reported'

LEMMA SteadyTells ==
  ASSUME TruthInv, IInv', Steady
  PROVE  Told'
<1>1. DOMAIN laps' = DOMAIN laps
  <2>1. laps \in Seq(SoundWords) /\ laps' \in Seq(SoundWords)
    BY DEF TruthInv, RInv, IInv, SoundTypes
  <2> QED  BY <2>1, LenProperties DEF Steady
<1>2. /\ ran' = ran /\ folds' = folds /\ lapTimes' = lapTimes /\ ticks' = ticks
      /\ LiveUnits' = LiveUnits
  BY DEF Steady, truthVars
<1>3. ASSUME "Unrecoverable" \notin reported' PROVE TotalRight' /\ LapsRight'
  <2>1. TotalRight /\ LapsRight
    BY <1>3 DEF TruthInv, Told, Steady
  <2>2. TotalRight'
    BY <1>2, <2>1 DEF TotalRight, Steady, Right
  <2>3. LapsRight'
    BY <1>1, <1>2, <2>1 DEF LapsRight, Steady, Right
  <2> QED  BY <2>2, <2>3
<1> QED  BY <1>2, <1>3 DEF TruthInv, Told, Steady

\* The words a scrub has left.
LEMMA ScrubIsSteady ==
  ASSUME IInv
  PROVE  /\ Scrubbed(accumulated).stored = accumulated.stored
         /\ Len(ScrubbedAll(laps)) = Len(laps)
         /\ ScrubbedAll(laps) \in Seq(SoundWords)
         /\ \A i \in DOMAIN laps : ScrubbedAll(laps)[i].stored = laps[i].stored
         /\ start = <<>> => ScrubbedAll(start) = <<>>
         /\ start # <<>> => /\ ScrubbedAll(start) # <<>>
                            /\ ScrubbedAll(start)[1].stored = start[1].stored
<1>1. accumulated \in SoundWords /\ start \in Seq(SoundWords) /\ laps \in Seq(SoundWords)
  BY DEF IInv, SoundTypes
<1>2. ASSUME NEW ws \in Seq(SoundWords), NEW i \in DOMAIN ws
      PROVE  ScrubbedAll(ws)[i].stored = ws[i].stored
  <2>1. ws[i] \in SoundWords
    BY LenProperties, ElementOfSeq
  <2> QED  BY <2>1, ScrubKeepsStored DEF ScrubbedAll
<1>3. start # <<>> => 1 \in DOMAIN start
  BY <1>1, StoredWords, LenProperties
<1> QED
  BY <1>1, <1>2, <1>3, ScrubKeepsStored, ScrubOfWords, ScrubbedWordsSound

LEMMA VerifyIsSteady ==
  ASSUME IInv, Verify, UNCHANGED truthVars
  PROVE  Steady
<1>1. /\ accumulated'.stored = accumulated.stored
      /\ Len(laps') = Len(laps)
      /\ \A i \in DOMAIN laps : laps'[i].stored = laps[i].stored
  BY ScrubIsSteady DEF Verify
<1>2. LiveUnits' = LiveUnits
  BY ScrubIsSteady DEF Verify, LiveUnits, Counter
<1> QED  BY <1>1, <1>2 DEF Verify, Scrub, Record, Steady

\* A segment that opens adds nothing yet.
LEMMA NoTimeYet ==
  ASSUME NEW t \in Times
  PROVE  WrappingSub(t, Fresh(t).stored) = 0
<1>1. t - t = 0 /\ 0 % Limit = 0
  BY TimeAssumption DEF Times
<1> QED  BY <1>1 DEF WrappingSub, Fresh

LEMMA ResumeIsSteady ==
  ASSUME IInv, Resume, UNCHANGED truthVars
  PROVE  Steady
<1>1. /\ accumulated'.stored = accumulated.stored
      /\ Len(laps') = Len(laps)
      /\ \A i \in DOMAIN laps : laps'[i].stored = laps[i].stored
  BY ScrubIsSteady DEF Resume
<1>2. LiveUnits = 0
  BY DEF Resume, IInv, OriginOnlyWhileRunning, LiveUnits
<1>3. LiveUnits' = 0
  <2>1. start' # <<>> /\ start'[1] = Fresh(Counter) /\ Counter' = Counter
    BY DEF Resume, Counter
  <2> QED  BY <2>1, StoredWords, NoTimeYet DEF LiveUnits
<1> QED  BY <1>1, <1>2, <1>3 DEF Resume, Scrub, Record, Steady

LEMMA UpsetIsSteady ==
  ASSUME IInv, NEW c \in Copies, NEW b \in CopyBits, UpsetWord(c, b), UNCHANGED truthVars
  PROVE  Steady
<1>1. accumulated \in SoundWords /\ start \in Seq(SoundWords) /\ laps \in Seq(SoundWords)
  BY DEF IInv, SoundTypes
<1>2. accumulated'.stored = accumulated.stored
  BY <1>1, UpsetOfWord DEF UpsetWord
<1>3. /\ Len(laps') = Len(laps)
      /\ \A i \in DOMAIN laps : laps'[i].stored = laps[i].stored
  BY <1>1, UpsetOfWords DEF UpsetWord
<1>4. LiveUnits' = LiveUnits
  <2>1. CASE start' = start
    BY <2>1 DEF UpsetWord, LiveUnits, Counter
  <2>2. CASE start' \in Struck(start, c, b)
    <3>1. /\ start' \in Seq(SoundWords) /\ Len(start') = Len(start)
          /\ \A i \in DOMAIN start : start'[i].stored = start[i].stored
      BY <1>1, <2>2, UpsetOfWords
    <3>2. start' = <<>> <=> start = <<>>
      BY <1>1, <3>1, EmptySeq
    <3>3. start # <<>> => 1 \in DOMAIN start
      BY <1>1, StoredWords, LenProperties
    <3> QED  BY <3>1, <3>2, <3>3 DEF UpsetWord, LiveUnits, Counter
  <2> QED  BY <2>1, <2>2 DEF UpsetWord
<1> QED  BY <1>2, <1>3, <1>4 DEF UpsetWord, Steady

LEMMA ReadsAreSteady ==
  ASSUME IInv, UNCHANGED truthVars,
         \/ ReadElapsed \/ VerifyCalibration \/ UNCHANGED vars
         \/ state # "Running" /\ Stop
  PROVE  Steady
<1>1. UNCHANGED <<accumulated, start, laps, ticks>> /\ reported \subseteq reported'
  BY DEF ReadElapsed, VerifyCalibration, Record, Stop, vars, words
<1> QED  BY <1>1 DEF Steady, LiveUnits, Counter

-----------------------------------------------------------------------------
(* The steps that move the total, the laps or the time.                    *)

LEMMA InitTells == TruthInit => TruthInv
<1> SUFFICES ASSUME TruthInit PROVE TruthInv
  OBVIOUS
<1>1. RInv /\ LiveUnits = 0 /\ laps = <<>> /\ accumulated.stored = 0
  BY InitSound, InitRefines DEF TruthInit, Init, RInv, LiveUnits, Fresh
<1>2. Right(0, 0 - 0, 0)
  BY TimeAssumption DEF Right, Times
<1> QED
  BY <1>1, <1>2
  DEF TruthInit, Init, TruthInv, Told, TotalRight, LapsRight, LapRecords

LEMMA StartingOverTells ==
  ASSUME TruthInv, StartingOver
  PROVE  Told'
<1>1. /\ accumulated'.stored = 0 /\ laps' = <<>> /\ ticks' = ticks
      /\ ran' = 0 /\ folds' = 0 /\ lapTimes' = <<>>
  BY DEF StartingOver, Start, Reset, Fresh
<1>2. LiveUnits' = 0
  <2>1. CASE Reset
    BY <2>1 DEF Reset, LiveUnits
  <2>2. CASE Start
    <3>1. start' # <<>> /\ start'[1] = Fresh(Counter) /\ Counter' = Counter
      BY <2>2 DEF Start, Counter
    <3> QED  BY <3>1, StoredWords, NoTimeYet DEF LiveUnits, TruthInv, RInv
  <2> QED  BY <2>1, <2>2 DEF StartingOver
<1>3. Right(0, 0 - 0, 0)
  BY TimeAssumption DEF Right, Times
<1>4. ticks \in Nat
  BY TimeAssumption DEF TruthInv, RInv, IInv, SoundTypes
<1> QED
  BY <1>1, <1>2, <1>3, <1>4 DEF Told, TotalRight, LapsRight, LapRecords

\* The live segment grows by what passes, so the total stays right.
LEMMA PassingTells ==
  ASSUME TruthInv, BoundedSession, Passing
  PROVE  Told'
<1>1. /\ UNCHANGED <<accumulated, start, laps, reported, folds, lapTimes>>
      /\ ticks' = ticks + 1 /\ ticks < MaxTicks
      /\ ran' = IF state = "Running" THEN ran + 1 ELSE ran
  BY DEF Passing, Tick, words
<1>2. /\ IInv /\ ticks \in Nat /\ MaxTicks \in Nat /\ ran \in 0 .. ticks
      /\ LiveUnits \in 0 .. ran
      /\ state = "Running" <=> start # <<>>
  BY TimeAssumption DEF TruthInv, RInv, IInv, SoundTypes, Told, OriginOnlyWhileRunning
<1>3. CASE start = <<>>
  <2>1. LiveUnits = 0 /\ LiveUnits' = 0 /\ ran' = ran
    BY <1>1, <1>2, <1>3 DEF LiveUnits
  <2> QED
    BY <1>1, <1>2, <2>1 DEF TruthInv, Told, TotalRight, LapsRight
<1>4. CASE start # <<>>
  <2>1. start[1].stored \in Times
    BY <1>2, <1>4, StoredWords DEF SoundWords, Words
  <2>2. LiveUnits = WrappingSub(CounterAfter(ticks), start[1].stored)
    BY <1>4 DEF LiveUnits, Counter
  <2>3. LiveUnits + 1 < Limit
    BY <1>1, <1>2, TimeAssumption DEF BoundedSession
  <2>4. LiveUnits' = LiveUnits + 1
    <3>1. LiveUnits' = WrappingSub(CounterAfter(ticks + 1), start[1].stored)
      BY <1>1, <1>4 DEF LiveUnits, Counter
    <3> QED  BY <1>2, <2>1, <2>2, <2>3, <3>1, DifferenceFollows
  <2>5. ran' = ran + 1 /\ ran' - LiveUnits' = ran - LiveUnits
    BY <1>1, <1>2, <1>4, <2>4
  <2> QED
    BY <1>1, <1>2, <2>4, <2>5 DEF TruthInv, Told, TotalRight, LapsRight
<1> QED  BY <1>3, <1>4

\* A scrub that counts nothing beyond repair found nothing that is.
LEMMA ScrubFindsNone ==
  ASSUME TruthInv, BoundedSession, Scrub, "Unrecoverable" \notin reported'
  PROVE  "Unrecoverable" \notin reported /\ Right(ElapsedNs, ran, folds + Len(start))
<1> DEFINE ws == <<accumulated>> \o start
<1>1. IInv
  BY DEF TruthInv, RInv
<1>2. ws \in Seq(SoundWords) /\ laps \in Seq(SoundWords)
  BY <1>1, StoredWords DEF IInv, SoundTypes
<1>3. "Unrecoverable" \notin reported
  BY DEF Scrub, Record
<1>4. ASSUME NEW i \in DOMAIN ws PROVE i \in DOMAIN AllWords /\ AllWords[i] = ws[i]
  <2> HIDE DEF ws
  <2>1. /\ ws \o laps \in Seq(SoundWords)
        /\ Len(ws \o laps) = Len(ws) + Len(laps)
        /\ \A k \in 1 .. Len(ws) : (ws \o laps)[k] = ws[k]
    BY <1>2, ConcatProperties
  <2>2. Len(ws) \in Nat /\ Len(laps) \in Nat /\ i \in 1 .. Len(ws)
    BY <1>2, <1>4, LenProperties
  <2>3. DOMAIN (ws \o laps) = 1 .. Len(ws) + Len(laps)
    BY <2>1, LenProperties
  <2>4. i \in 1 .. Len(ws) + Len(laps)
    BY <2>2
  <2> QED  BY <2>1, <2>2, <2>3, <2>4 DEF AllWords, ws
<1>5. "Unrecoverable" \notin TiersOf(ws)
  <2>1. \A i \in DOMAIN AllWords : Integrity(AllWords[i]) # "Unrecoverable"
    BY DEF Scrub, Record
  <2> HIDE DEF ws
  <2>2. \A i \in DOMAIN ws : Integrity(ws[i]) # "Unrecoverable"
    BY <2>1, <1>4
  <2> QED  BY <2>2 DEF TiersOf
<1> QED  BY <1>3, <1>5, UncountedIsRight

\* The live segment goes over into the total; nothing is lost or counted twice.
LEMMA FreezingTells ==
  ASSUME TruthInv, BoundedSession, Freezing
  PROVE  Told'
<1>1. /\ IInv /\ start # <<>> /\ accumulated \in SoundWords /\ laps \in Seq(SoundWords)
      /\ folds \in Nat /\ ran \in 0 .. ticks /\ ticks \in Nat
  BY TimeAssumption
  DEF TruthInv, RInv, IInv, SoundTypes, OriginOnlyWhileRunning, Freezing, Told
<1>2. Freeze /\ ticks' = ticks /\ ran' = ran /\ folds' = folds + 1 /\ lapTimes' = lapTimes
  BY DEF Freezing, Pause, Stop
<1>3. LiveUnits' = 0
  BY <1>2 DEF Freeze, LiveUnits
<1>4. Len(start) = 1 /\ start[1] \in SoundWords
  BY <1>1, StoredWords
<1>5. accumulated'.stored = ElapsedNs
  <2>1. Folded = Fresh(ElapsedNs)
    BY <1>1, <1>4, ScrubOfWord DEF Folded, ElapsedNs
  <2>2. accumulated' = Fresh(ElapsedNs)
    BY <1>2, <2>1 DEF Freeze
  <2> QED  BY <2>2 DEF Fresh
<1>6. /\ Len(laps') = Len(laps) /\ DOMAIN laps' = DOMAIN laps
      /\ \A i \in DOMAIN laps : laps'[i].stored = laps[i].stored
  BY <1>1, <1>2, ScrubIsSteady, ScrubOfWords DEF Freeze
<1>7. ASSUME "Unrecoverable" \notin reported' PROVE TotalRight' /\ LapsRight'
  <2>1. "Unrecoverable" \notin reported /\ Right(ElapsedNs, ran, folds + 1)
    BY <1>2, <1>4, <1>7, ScrubFindsNone DEF Freeze
  <2>2. ran - 0 = ran
    BY <1>1
  <2>3. TotalRight'
    BY <1>2, <1>3, <1>5, <2>1, <2>2 DEF TotalRight, Right
  <2>4. LapsRight
    BY <2>1 DEF TruthInv, Told
  <2>5. LapsRight'
    BY <1>2, <1>6, <2>4 DEF LapsRight, Right
  <2> QED  BY <2>3, <2>5
<1>8. ran' \in 0 .. ticks' /\ folds' \in Nat /\ LiveUnits' \in 0 .. ran'
  BY <1>1, <1>2, <1>3
<1>9. lapTimes' \in Seq(LapRecords) /\ Len(lapTimes') = Len(laps')
  BY <1>2, <1>6 DEF TruthInv, Told
<1> QED  BY <1>7, <1>8, <1>9 DEF Told

\* The reading is recorded; the total and the earlier laps stay.
LEMMA LappingTells ==
  ASSUME TruthInv, BoundedSession, Lapping
  PROVE  Told'
<1> DEFINE old  == ScrubbedAll(laps)
           this == [ran |-> ran, segments |-> folds + Len(start)]
<1>1. /\ IInv /\ start \in Seq(SoundWords) /\ laps \in Seq(SoundWords)
      /\ folds \in Nat /\ ran \in 0 .. ticks /\ ticks \in Nat
      /\ lapTimes \in Seq(LapRecords) /\ Len(lapTimes) = Len(laps)
  BY TimeAssumption DEF TruthInv, RInv, IInv, SoundTypes, Told
<1>2. /\ Scrub /\ accumulated' = Scrubbed(accumulated) /\ start' = ScrubbedAll(start)
      /\ laps' = Append(old, Fresh(ElapsedNs))
      /\ lapTimes' = Append(lapTimes, this)
      /\ UNCHANGED <<ticks, ran, folds>>
  BY DEF Lapping, Lap
<1>3. /\ accumulated'.stored = accumulated.stored
      /\ Len(old) = Len(laps) /\ old \in Seq(SoundWords)
      /\ \A i \in DOMAIN laps : old[i].stored = laps[i].stored
  BY <1>1, <1>2, ScrubIsSteady
<1>4. LiveUnits' = LiveUnits
  BY <1>1, <1>2, ScrubIsSteady DEF LiveUnits, Counter
<1>5. this \in LapRecords
  <2>1. Len(start) \in Nat
    BY <1>1, LenProperties
  <2>2. folds + Len(start) \in Nat /\ ran \in Nat
    BY <1>1, <2>1
  <2> QED  BY <2>2 DEF LapRecords
<1>6. Fresh(ElapsedNs) \in SoundWords
  BY <1>1, DurationsInTimes, FreshIsSound
<1> DEFINE n == Len(laps)
<1>7. n \in Nat /\ DOMAIN laps = 1 .. n
  BY <1>1, LenProperties
<1> HIDE DEF old, this, n
<1>8. /\ laps' \in Seq(SoundWords) /\ Len(laps') = n + 1
      /\ laps'[n + 1] = Fresh(ElapsedNs)
      /\ \A i \in 1 .. n : laps'[i] = old[i]
  BY <1>2, <1>3, <1>6, AppendProperties DEF n
<1>9. /\ lapTimes' \in Seq(LapRecords) /\ Len(lapTimes') = n + 1
      /\ lapTimes'[n + 1] = this
      /\ \A i \in 1 .. n : lapTimes'[i] = lapTimes[i]
  BY <1>1, <1>2, <1>5, AppendProperties DEF n
<1>10. ASSUME "Unrecoverable" \notin reported' PROVE TotalRight' /\ LapsRight'
  <2>1. "Unrecoverable" \notin reported /\ Right(ElapsedNs, this.ran, this.segments)
    BY <1>2, <1>10, ScrubFindsNone DEF this
  <2>2. TotalRight /\ LapsRight
    BY <2>1 DEF TruthInv, Told
  <2>3. TotalRight'
    BY <1>2, <1>3, <1>4, <2>2 DEF TotalRight, Right
  <2>4. DOMAIN laps' = 1 .. n + 1
    BY <1>8, LenProperties
  <2>5. ASSUME NEW i \in 1 .. n + 1
        PROVE  Right(laps'[i].stored, lapTimes'[i].ran, lapTimes'[i].segments)
    <3>1. CASE i = n + 1
      <4>1. laps'[i].stored = ElapsedNs
        BY <3>1, <1>8 DEF Fresh
      <4> QED  BY <4>1, <3>1, <1>9, <2>1
    <3>2. CASE i # n + 1
      <4>1. i \in 1 .. n
        BY <3>2, <1>7
      <4> QED  BY <4>1, <1>3, <1>7, <1>8, <1>9, <2>2 DEF LapsRight
    <3> QED  BY <3>1, <3>2
  <2>6. LapsRight'
    BY <2>4, <2>5 DEF LapsRight, Right
  <2> QED  BY <2>3, <2>6
<1>11. LiveUnits \in 0 .. ran
  BY DEF TruthInv, Told
<1> QED  BY <1>1, <1>2, <1>4, <1>8, <1>9, <1>10, <1>11 DEF Told

LEMMA TruthStep ==
  ASSUME TruthInv, BoundedSession, "hz" \notin Exposed, [TruthNext]_<<vars, truthVars>>
  PROVE  TruthInv'
<1>1. [Next]_vars
  BY DEF TruthNext, Passing, StartingOver, Freezing, Lapping, Aside, Next
<1>2. RInv'
  BY <1>1, NextSound, RateStaysSound DEF TruthInv, RInv
<1>3. IInv /\ IInv'
  BY <1>2 DEF TruthInv, RInv
<1> SUFFICES Told'
  BY <1>2 DEF TruthInv
<1>4. CASE Aside
  <2>1. UNCHANGED truthVars
    BY <1>4 DEF Aside
  <2>2. ASSUME NEW c \in Copies, NEW b \in CopyBits, UpsetWord(c, b) PROVE Steady
    BY <1>3, <2>1, <2>2, UpsetIsSteady
  <2>3. ASSUME Resume \/ Verify PROVE Steady
    BY <1>3, <2>1, <2>3, VerifyIsSteady, ResumeIsSteady
  <2>4. ASSUME ReadElapsed \/ VerifyCalibration \/ (state # "Running" /\ Stop) PROVE Steady
    BY <1>3, <2>1, <2>4, ReadsAreSteady
  <2>5. Steady
    BY <1>4, <2>2, <2>3, <2>4 DEF Aside
  <2> QED  BY <1>3, <2>5, SteadyTells
<1>5. CASE UNCHANGED <<vars, truthVars>>
  <2>1. UNCHANGED vars /\ UNCHANGED truthVars
    BY <1>5
  <2>2. Steady
    BY <1>3, <2>1, ReadsAreSteady
  <2> QED  BY <1>3, <2>2, SteadyTells
<1>6. CASE StartingOver
  BY <1>6, StartingOverTells
<1>7. CASE Passing
  BY <1>7, PassingTells
<1>8. CASE Freezing
  BY <1>8, FreezingTells
<1>9. CASE Lapping
  BY <1>9, LappingTells
<1> QED  BY <1>4, <1>5, <1>6, <1>7, <1>8, <1>9 DEF TruthNext

\* Detectable rather than silent: whatever upsets fall on the total, the origin
\* and the laps, however many, a reading or a lap that is not the time the
\* stopwatch ran goes with a counted word beyond repair, as long as the rate is
\* spared and the session ends before a duration overflows 64 bits.
THEOREM StopwatchTellsWrongReadings ==
  ASSUME BoundedSession, "hz" \notin Exposed
  PROVE  TruthSpec => []WrongReadingIsCounted
<1>1. TruthInv /\ [TruthNext]_<<vars, truthVars>> => TruthInv'
  BY TruthStep
<1>2. TruthInv => WrongReadingIsCounted
  <2> SUFFICES ASSUME TruthInv PROVE WrongReadingIsCounted
    OBVIOUS
  <2>1. ReadingIsRight \/ "Unrecoverable" \in reported \cup TiersOf(<<accumulated>> \o start)
    BY UncountedIsRight DEF ReadingIsRight
  <2>2. ASSUME NEW i \in DOMAIN laps,
               "Unrecoverable" \notin reported, Integrity(laps[i]) # "Unrecoverable"
        PROVE  LapIsRight(i)
    <3>1. laps[i] \in SoundWords
      BY LenProperties, ElementOfSeq DEF TruthInv, RInv, IInv, SoundTypes
    <3>2. Checked(laps[i]) = laps[i].stored
      BY <2>2, <3>1, CheckedUnlessCounted
    <3> QED  BY <2>2, <3>2 DEF TruthInv, Told, LapsRight, LapIsRight
  <2> QED  BY <2>1, <2>2 DEF WrongReadingIsCounted
<1> QED  BY <1>1, <1>2, InitTells, PTL DEF TruthSpec
=============================================================================
