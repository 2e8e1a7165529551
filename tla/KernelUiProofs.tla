--------------------------- MODULE KernelUiProofs ---------------------------
(***************************************************************************)
(* Theorems about KernelUi, for every bound on events, laps and frames,    *)
(* every calibration, every pattern of upsets and every effect of one:     *)
(*                                                                         *)
(*   - the type invariant;                                                 *)
(*   - a reading of the stopwatch is the time it ran or is flagged, and    *)
(*     its laps ascend;                                                    *)
(*   - the countdown spends the time it ran;                               *)
(*   - a card nobody asked to repaint is the one of the selected tab.      *)
(*                                                                         *)
(* The last is inductive with the type invariant.  The others need that a  *)
(* run began no later than now and, for the stopwatch, that the total      *)
(* stored is the time banked for as long as nothing was beyond repair:     *)
(* after that its value is whatever upsets made of it, of which nothing is *)
(* assumed.                                                                *)
(***************************************************************************)
EXTENDS KernelUi, SequenceTheorems, FiniteSetTheorems, TLAPS

-----------------------------------------------------------------------------
(* Words.                                                                  *)

\* Words with values in V.
WordsOf(V) == [stored : V, flipped : [Copies -> SUBSET CopyBits]]

\* A check of a word answers with one of the four tiers.
LEMMA TierOfWord ==
  ASSUME NEW V, NEW w \in WordsOf(V)
  PROVE  Integrity(w) \in Tiers
<1>1. w.flipped["primary"] \subseteq CopyBits
  BY DEF WordsOf, Copies
<1>2. Cardinality(w.flipped["primary"]) \in Nat
  BY <1>1, FS_Subset, FS_CardinalityType, KernelUiAssumption
<1> QED  BY <1>2 DEF Integrity, Tiers

\* A word just written holds its value, undamaged.
LEMMA FreshWord ==
  ASSUME NEW V, NEW v \in V
  PROVE  /\ Fresh(v) \in WordsOf(V)
         /\ Fresh(v).stored = v
         /\ Integrity(Fresh(v)) = "Clean"
<1>1. Fresh(v).flipped["primary"] = {}
  BY DEF Fresh, Copies
<1>2. Integrity(Fresh(v)) = "Clean"
  BY <1>1, FS_EmptySet DEF Integrity
<1>3. Fresh(v) \in WordsOf(V) /\ Fresh(v).stored = v
  BY DEF Fresh, WordsOf
<1> QED  BY <1>2, <1>3

\* A scrub keeps the value stored.
LEMMA ScrubOfWord ==
  ASSUME NEW V, NEW w \in WordsOf(V)
  PROVE  Scrubbed(w) \in WordsOf(V) /\ Scrubbed(w).stored = w.stored
<1>1. w.stored \in V
  BY DEF WordsOf
<1> QED  BY <1>1, FreshWord DEF Scrubbed

\* The worse of two tiers is one of them, and recoverable only if both are.
LEMMA WorseOfTiers ==
  ASSUME NEW a \in Tiers, NEW b \in Tiers
  PROVE  /\ Worse(a, b) \in Tiers
         /\ Worse(a, b) # "Unrecoverable" => a # "Unrecoverable" /\ b # "Unrecoverable"
BY DEF Worse, Severity, Tiers

-----------------------------------------------------------------------------
(* The stopwatch.                                                          *)

StopwatchesOf(V, at) ==
  [running : BOOLEAN, accumulated : WordsOf(V), startedAt : 0 .. at,
   laps : Seq(V), integrity : Tiers]

\* Its total and its laps are the time it ran.
TimeIsKept(s, at, ran) ==
  /\ s.accumulated.stored \in Nat
  /\ s.accumulated.stored + (IF s.running THEN at - s.startedAt ELSE 0) = ran
  /\ s.laps \in Seq(Nat)
  /\ \A i \in DOMAIN s.laps : s.laps[i] <= ran
  /\ \A i, j \in DOMAIN s.laps : i < j => s.laps[i] <= s.laps[j]

\* What a stopwatch that ran for `ran` ticks is at time `at`: as good as its
\* total and laps are until the verdict is "Unrecoverable".
StopwatchInv(s, at, ran) ==
  /\ at \in Nat /\ ran \in Nat
  /\ \E V : s \in StopwatchesOf(V, at)
  /\ Len(s.laps) <= MAX_LAPS
  /\ s.integrity # "Unrecoverable" => TimeIsKept(s, at, ran)

\* Verifying changes neither the laps nor whether it runs.
LEMMA VerifiedIs ==
  ASSUME NEW s, NEW at, NEW V, s \in StopwatchesOf(V, at)
  PROVE  /\ Verified(s) \in StopwatchesOf(V, at)
         /\ Verified(s).running = s.running /\ Verified(s).laps = s.laps
         /\ Verified(s).startedAt = s.startedAt
         /\ Verified(s).accumulated.stored = s.accumulated.stored
         /\ Verified(s).integrity # "Unrecoverable" =>
              s.integrity # "Unrecoverable" /\ Integrity(s.accumulated) # "Unrecoverable"
<1>1. s.accumulated \in WordsOf(V) /\ s.integrity \in Tiers
  BY DEF StopwatchesOf
<1>2. Integrity(s.accumulated) \in Tiers
  BY <1>1, TierOfWord
<1>3. Scrubbed(s.accumulated) \in WordsOf(V)
      /\ Scrubbed(s.accumulated).stored = s.accumulated.stored
  BY <1>1, ScrubOfWord
<1>4. /\ Verified(s).integrity = Worse(s.integrity, Integrity(s.accumulated))
      /\ Verified(s).accumulated = Scrubbed(s.accumulated)
      /\ Verified(s).running = s.running /\ Verified(s).laps = s.laps
      /\ Verified(s).startedAt = s.startedAt
  BY DEF Verified, StopwatchesOf
<1>5. Worse(s.integrity, Integrity(s.accumulated)) \in Tiers
  BY <1>1, <1>2, WorseOfTiers
<1>6. Verified(s) \in StopwatchesOf(V, at)
  BY <1>3, <1>5 DEF Verified, StopwatchesOf
<1> QED  BY <1>1, <1>2, <1>3, <1>4, <1>6, WorseOfTiers

LEMMA VerifiedKeeps ==
  ASSUME NEW s, NEW at, NEW ran, StopwatchInv(s, at, ran)
  PROVE  /\ StopwatchInv(Verified(s), at, ran)
         /\ Verified(s).running = s.running /\ Verified(s).laps = s.laps
<1>1. PICK V : s \in StopwatchesOf(V, at)
  BY DEF StopwatchInv
<1> QED  BY <1>1, VerifiedIs DEF StopwatchInv, TimeIsKept

\* A reading whose word was not lost is the time it ran.
LEMMA TicksAreTrue ==
  ASSUME NEW s, NEW at, NEW ran, StopwatchInv(s, at, ran),
         Verified(s).integrity # "Unrecoverable"
  PROVE  TimeIsKept(s, at, ran) /\ Ticks(s, at) = ran
<1>1. PICK V : s \in StopwatchesOf(V, at)
  BY DEF StopwatchInv
<1>2. s.integrity # "Unrecoverable" /\ Integrity(s.accumulated) # "Unrecoverable"
  BY <1>1, VerifiedIs
<1>3. TimeIsKept(s, at, ran) /\ Checked(s.accumulated) = s.accumulated.stored
  BY <1>2 DEF StopwatchInv, Checked
<1> QED  BY <1>3 DEF Ticks, TimeIsKept

\* A larger set of values allows what a smaller one does.
LEMMA MoreValues ==
  ASSUME NEW V, NEW W, V \subseteq W, NEW at, NEW s \in StopwatchesOf(V, at)
  PROVE  s \in StopwatchesOf(W, at)
<1>1. s.laps \in Seq(V) /\ s.accumulated \in WordsOf(V)
  BY DEF StopwatchesOf
<1>2. s.laps \in Seq(W)
  BY <1>1, SeqDef
<1>3. s.accumulated \in WordsOf(W)
  BY <1>1 DEF WordsOf
<1> QED  BY <1>2, <1>3 DEF StopwatchesOf

LEMMA ToggleKeeps ==
  ASSUME NEW s, NEW at, NEW ran, StopwatchInv(s, at, ran)
  PROVE  StopwatchInv(StopwatchToggle(s, at), at, ran)
<1>1. PICK V : s \in StopwatchesOf(V, at)
  BY DEF StopwatchInv
<1>2. CASE s.running
  <2> DEFINE banked == Ticks(s, at)
             t == StopwatchToggle(s, at)
             W == V \cup {banked}
  <2>1. Verified(s) \in StopwatchesOf(W, at)
    BY <1>1, VerifiedIs, MoreValues
  <2>2. Fresh(banked) \in WordsOf(W) /\ Fresh(banked).stored = banked
    BY FreshWord
  <2>3. t = [Verified(s) EXCEPT !.accumulated = Fresh(banked), !.running = FALSE]
    BY <1>2 DEF StopwatchToggle
  <2>4. /\ t \in StopwatchesOf(W, at)
        /\ t.accumulated = Fresh(banked) /\ t.running = FALSE
        /\ t.laps = Verified(s).laps /\ t.integrity = Verified(s).integrity
    <3> HIDE DEF banked, t, W
    <3> QED  BY <2>1, <2>2, <2>3 DEF StopwatchesOf
  <2>5. t.laps = s.laps
    BY <2>4, <1>1, VerifiedIs
  <2>6. t.integrity # "Unrecoverable" => TimeIsKept(s, at, ran) /\ banked = ran
    BY <2>4, TicksAreTrue
  <2>7. t.integrity # "Unrecoverable" => TimeIsKept(t, at, ran)
    <3> HIDE DEF banked, t, W
    <3> QED  BY <2>2, <2>4, <2>5, <2>6 DEF TimeIsKept, StopwatchInv
  <2> HIDE DEF banked, t, W
  <2>8. StopwatchInv(t, at, ran)
    BY <2>4, <2>5, <2>7 DEF StopwatchInv
  <2> QED  BY <2>8 DEF t
<1>3. CASE ~s.running
  <2> DEFINE t == StopwatchToggle(s, at)
  <2>1. t = [s EXCEPT !.startedAt = at, !.running = TRUE]
    BY <1>3 DEF StopwatchToggle
  <2>2. at \in 0 .. at
    BY DEF StopwatchInv
  <2>3. /\ t \in StopwatchesOf(V, at)
        /\ t.running = TRUE /\ t.startedAt = at
        /\ t.accumulated = s.accumulated /\ t.laps = s.laps /\ t.integrity = s.integrity
    BY <1>1, <2>1, <2>2 DEF StopwatchesOf
  <2> HIDE DEF t
  <2>4. StopwatchInv(t, at, ran)
    BY <1>3, <2>2, <2>3 DEF StopwatchInv, TimeIsKept
  <2> QED  BY <2>4 DEF t
<1> QED  BY <1>2, <1>3

LEMMA ResetKeeps ==
  ASSUME NEW s, NEW at, NEW ran, StopwatchInv(s, at, ran)
  PROVE  StopwatchInv(StopwatchReset(s), at, 0)
<1> DEFINE t == StopwatchReset(s)
<1>1. PICK V : s \in StopwatchesOf(V, at)
  BY DEF StopwatchInv
<1>2. Fresh(0) \in WordsOf(V \cup {0}) /\ Fresh(0).stored = 0
  BY FreshWord
<1>3. s \in StopwatchesOf(V \cup {0}, at)
  BY <1>1, MoreValues
<1>4. /\ t \in StopwatchesOf(V \cup {0}, at)
      /\ t.running = FALSE /\ t.accumulated = Fresh(0) /\ t.laps = <<>>
  <2>1. t = [s EXCEPT !.running = FALSE, !.accumulated = Fresh(0), !.laps = <<>>,
                      !.integrity = "Clean"]
    BY DEF StopwatchReset
  <2>2. <<>> \in Seq(V \cup {0}) /\ "Clean" \in Tiers
    BY DEF Tiers
  <2> HIDE DEF t
  <2> QED  BY <1>2, <1>3, <2>1, <2>2 DEF StopwatchesOf
<1>5. Len(t.laps) <= MAX_LAPS
  BY <1>4, KernelUiAssumption
<1> HIDE DEF t
<1>6. StopwatchInv(t, at, 0)
  BY <1>2, <1>4, <1>5 DEF StopwatchInv, TimeIsKept
<1> QED  BY <1>6 DEF t

\* What the lap table becomes.
LEMMA PushedIs ==
  ASSUME NEW V, NEW laps \in Seq(V), NEW ticks \in V, Len(laps) <= MAX_LAPS
  PROVE  LET full == Len(laps) = MAX_LAPS
             len  == IF full THEN Len(laps) ELSE Len(laps) + 1
         IN  /\ Pushed(laps, ticks) \in Seq(V)
             /\ Len(Pushed(laps, ticks)) = len /\ len <= MAX_LAPS
             /\ Pushed(laps, ticks)[len] = ticks
             /\ \A i \in 1 .. len - 1 :
                  Pushed(laps, ticks)[i] = laps[IF full THEN i + 1 ELSE i]
<1>1. MAX_LAPS \in Nat \ {0}
  BY KernelUiAssumption
<1> QED  BY <1>1 DEF Pushed

LEMMA LapKeeps ==
  ASSUME NEW s, NEW at, NEW ran, StopwatchInv(s, at, ran)
  PROVE  StopwatchInv(StopwatchLap(s, at), at, ran)
<1>1. PICK V : s \in StopwatchesOf(V, at)
  BY DEF StopwatchInv
<1> DEFINE ticks == Ticks(s, at)
           t == StopwatchLap(s, at)
           W == V \cup {ticks}
<1>2. /\ Verified(s) \in StopwatchesOf(W, at)
      /\ Verified(s).laps = s.laps /\ Verified(s).running = s.running
      /\ Verified(s).startedAt = s.startedAt
      /\ Verified(s).accumulated.stored = s.accumulated.stored
  BY <1>1, VerifiedIs, MoreValues
<1>3. s.laps \in Seq(W) /\ ticks \in W /\ Len(s.laps) <= MAX_LAPS
  BY <1>2 DEF StopwatchesOf, StopwatchInv
<1>4. Pushed(s.laps, ticks) \in Seq(W) /\ Len(Pushed(s.laps, ticks)) <= MAX_LAPS
  <2> HIDE DEF ticks, t, W
  <2> QED  BY <1>3, PushedIs
<1>5. t = [Verified(s) EXCEPT !.laps = Pushed(s.laps, ticks)]
  BY <1>2 DEF StopwatchLap
<1>6. /\ t \in StopwatchesOf(W, at)
      /\ t.laps = Pushed(s.laps, ticks)
      /\ t.running = s.running /\ t.startedAt = s.startedAt
      /\ t.accumulated.stored = s.accumulated.stored
      /\ t.integrity = Verified(s).integrity
  <2> HIDE DEF ticks, t, W
  <2> QED  BY <1>2, <1>4, <1>5 DEF StopwatchesOf
<1>7. ASSUME t.integrity # "Unrecoverable" PROVE TimeIsKept(t, at, ran)
  <2>1. TimeIsKept(s, at, ran) /\ ticks = ran
    BY <1>6, <1>7, TicksAreTrue
  <2>2. ran \in Nat /\ s.laps \in Seq(Nat)
    BY <2>1 DEF TimeIsKept, StopwatchInv
  <2> HIDE DEF ticks, t, W
  <2> DEFINE full == Len(s.laps) = MAX_LAPS
             len  == IF full THEN Len(s.laps) ELSE Len(s.laps) + 1
  <2>3. /\ t.laps \in Seq(Nat) /\ Len(t.laps) = len
        /\ t.laps[len] = ran
        /\ \A i \in 1 .. len - 1 : t.laps[i] = s.laps[IF full THEN i + 1 ELSE i]
    <3>1. t.laps = Pushed(s.laps, ran)
      BY <1>6, <2>1
    <3>2. Len(s.laps) <= MAX_LAPS
      BY <1>3
    <3> HIDE DEF full, len
    <3>3. LET f == Len(s.laps) = MAX_LAPS
              n == IF f THEN Len(s.laps) ELSE Len(s.laps) + 1
          IN  /\ Pushed(s.laps, ran) \in Seq(Nat)
              /\ Len(Pushed(s.laps, ran)) = n /\ n <= MAX_LAPS
              /\ Pushed(s.laps, ran)[n] = ran
              /\ \A i \in 1 .. n - 1 :
                   Pushed(s.laps, ran)[i] = s.laps[IF f THEN i + 1 ELSE i]
      <4>1. MAX_LAPS \in Nat \ {0}
        BY KernelUiAssumption
      <4> QED  BY <2>2, <3>2, <4>1 DEF Pushed
    <3> QED  BY <3>1, <3>3 DEF full, len
  <2>4. DOMAIN t.laps = 1 .. len /\ DOMAIN s.laps = 1 .. Len(s.laps) /\ Len(s.laps) \in Nat
    BY <2>2, <2>3
  <2>5. \A i \in 1 .. len - 1 : (IF full THEN i + 1 ELSE i) \in DOMAIN s.laps
    BY <2>4
  <2>6. \A i \in 1 .. len : t.laps[i] \in Nat /\ t.laps[i] <= ran
    <3>1. \A k \in DOMAIN s.laps : s.laps[k] \in Nat /\ s.laps[k] <= ran
      BY <2>1, <2>2 DEF TimeIsKept
    <3>2. ASSUME NEW i \in 1 .. len PROVE t.laps[i] \in Nat /\ t.laps[i] <= ran
      <4>1. CASE i = len
        BY <2>2, <2>3, <4>1
      <4>2. CASE i # len
        <5>1. i \in 1 .. len - 1
          BY <2>4, <4>2
        <5>2. t.laps[i] = s.laps[IF full THEN i + 1 ELSE i]
          BY <2>3, <5>1
        <5>3. (IF full THEN i + 1 ELSE i) \in DOMAIN s.laps
          BY <2>5, <5>1
        <5> QED  BY <3>1, <5>2, <5>3
      <4> QED  BY <4>1, <4>2
    <3> QED  BY <3>2
  <2>7. ASSUME NEW i \in 1 .. len, NEW j \in 1 .. len, i < j
        PROVE  t.laps[i] <= t.laps[j]
    <3>1. i \in 1 .. len - 1
      BY <2>4, <2>7
    <3>2. CASE j = len
      BY <2>3, <2>6, <3>2
    <3>3. CASE j # len
      <4>1. j \in 1 .. len - 1
        BY <2>4, <3>3
      <4>2. (IF full THEN i + 1 ELSE i) < (IF full THEN j + 1 ELSE j)
        BY <2>7
      <4> QED  BY <2>1, <2>3, <2>5, <2>7, <3>1, <4>1, <4>2 DEF TimeIsKept
    <3> QED  BY <3>2, <3>3
  <2> QED  BY <1>6, <2>1, <2>3, <2>4, <2>6, <2>7 DEF TimeIsKept
<1> HIDE DEF ticks, t, W
<1>8. StopwatchInv(t, at, ran)
  BY <1>4, <1>6, <1>7 DEF StopwatchInv
<1> QED  BY <1>8 DEF t

LEMMA UpsetKeeps ==
  ASSUME NEW s, NEW at, NEW ran, StopwatchInv(s, at, ran), NEW damage \in Damages
  PROVE  LET t == [s EXCEPT !.accumulated.flipped = damage]
         IN  StopwatchInv(t, at, ran) /\ t.running = s.running /\ t.laps = s.laps
<1> DEFINE t == [s EXCEPT !.accumulated.flipped = damage]
<1>1. PICK V : s \in StopwatchesOf(V, at)
  BY DEF StopwatchInv
<1>2. damage \in [Copies -> SUBSET CopyBits]
  BY KernelUiAssumption
<1>3. /\ t \in StopwatchesOf(V, at)
      /\ t.running = s.running /\ t.laps = s.laps /\ t.startedAt = s.startedAt
      /\ t.integrity = s.integrity /\ t.accumulated.stored = s.accumulated.stored
  BY <1>1, <1>2 DEF StopwatchesOf, WordsOf
<1> HIDE DEF t
<1>4. StopwatchInv(t, at, ran)
  BY <1>3 DEF StopwatchInv, TimeIsKept
<1> QED  BY <1>3, <1>4 DEF t

\* Time passes.
LEMMA TickKeeps ==
  ASSUME NEW s, NEW at, NEW ran, StopwatchInv(s, at, ran)
  PROVE  StopwatchInv(s, at + 1, ran + IF s.running THEN 1 ELSE 0)
<1>1. PICK V : s \in StopwatchesOf(V, at)
  BY DEF StopwatchInv
<1>2. /\ at \in Nat /\ ran \in Nat /\ s.running \in BOOLEAN /\ s.startedAt \in 0 .. at
  BY <1>1 DEF StopwatchInv, StopwatchesOf
<1>3. s \in StopwatchesOf(V, at + 1)
  BY <1>1, <1>2 DEF StopwatchesOf
<1> DEFINE later == ran + IF s.running THEN 1 ELSE 0
<1>4. ASSUME s.integrity # "Unrecoverable"
      PROVE  TimeIsKept(s, at + 1, later)
  <2>1. TimeIsKept(s, at, ran)
    BY <1>4 DEF StopwatchInv
  <2>2. \A i \in DOMAIN s.laps : s.laps[i] \in Nat /\ s.laps[i] <= ran
    BY <2>1 DEF TimeIsKept
  <2>3. \A i \in DOMAIN s.laps : s.laps[i] <= later
    <3>1. \A n \in Nat : n <= ran => n <= later
      BY <1>2
    <3> QED  BY <2>2, <3>1
  <2>4. s.accumulated.stored + (IF s.running THEN (at + 1) - s.startedAt ELSE 0)
          = later
    BY <1>2, <2>1 DEF TimeIsKept
  <2>5. /\ s.accumulated.stored \in Nat /\ s.laps \in Seq(Nat)
        /\ \A i, j \in DOMAIN s.laps : i < j => s.laps[i] <= s.laps[j]
    BY <2>1 DEF TimeIsKept
  <2> HIDE DEF later
  <2> QED  BY <2>3, <2>4, <2>5 DEF TimeIsKept
<1> QED  BY <1>2, <1>3, <1>4 DEF StopwatchInv

-----------------------------------------------------------------------------
(* The countdown.                                                          *)

TimersOf(at) ==
  [running : BOOLEAN, target : STEP_NS .. MaxTarget, spent : Nat,
   startedAt : 0 .. at, expired : BOOLEAN]

TimerInv(t, at, ran) ==
  /\ at \in Nat /\ ran \in Nat
  /\ t \in TimersOf(at)
  /\ ~(t.running /\ t.expired)
  /\ Spent(t, at) = ran
  /\ t.expired => TicksToNs(ran) >= t.target

LEMMA LookedAtKeeps ==
  ASSUME NEW t, NEW at, NEW ran, TimerInv(t, at, ran)
  PROVE  /\ TimerInv(LookedAt(t, at), at, ran)
         /\ LookedAt(t, at).target = t.target
         /\ \/ LookedAt(t, at) = t
            \/ t.running /\ ~t.expired /\ LookedAt(t, at).expired
<1>1. t \in TimersOf(at) /\ Spent(t, at) = ran /\ ran \in Nat
  BY DEF TimerInv
<1>2. CASE ~(t.running /\ Overdue(t, at))
  BY <1>2 DEF LookedAt
<1>3. CASE t.running /\ Overdue(t, at)
  <2> DEFINE u == LookedAt(t, at)
  <2>1. u = [t EXCEPT !.spent = ran, !.running = FALSE, !.expired = TRUE]
    BY <1>1, <1>3 DEF LookedAt
  <2> HIDE DEF u
  <2>2. /\ u \in TimersOf(at) /\ u.target = t.target
        /\ u.spent = ran /\ ~u.running /\ u.expired
    BY <1>1, <2>1 DEF TimersOf
  <2>3. TicksToNs(ran) >= t.target
    BY <1>1, <1>3 DEF Overdue
  <2>4. TimerInv(u, at, ran)
    BY <1>1, <2>2, <2>3 DEF TimerInv, Spent
  <2>5. t.running /\ ~t.expired
    BY <1>3 DEF TimerInv
  <2> QED  BY <2>2, <2>4, <2>5 DEF u
<1> QED  BY <1>2, <1>3

LEMMA TimerToggleKeeps ==
  ASSUME NEW t, NEW at, NEW ran, TimerInv(t, at, ran)
  PROVE  TimerInv(TimerToggle(t, at), at, ran)
<1> DEFINE u == TimerToggle(t, at)
<1>1. t \in TimersOf(at) /\ Spent(t, at) = ran /\ ran \in Nat /\ at \in 0 .. at
  BY DEF TimerInv
<1>2. t.running \in BOOLEAN /\ t.expired \in BOOLEAN
  BY <1>1 DEF TimersOf
<1>3. CASE t.expired
  BY <1>2, <1>3 DEF TimerToggle
<1>4. CASE ~t.expired /\ t.running
  <2>1. u = [t EXCEPT !.spent = ran, !.running = FALSE]
    BY <1>1, <1>2, <1>4 DEF TimerToggle
  <2> HIDE DEF u
  <2>2. u \in TimersOf(at) /\ u.spent = ran /\ ~u.running /\ ~u.expired
    BY <1>1, <1>4, <2>1 DEF TimersOf
  <2>3. TimerInv(u, at, ran)
    BY <1>1, <2>2 DEF TimerInv, Spent
  <2> QED  BY <2>3 DEF u
<1>5. CASE ~t.expired /\ ~t.running
  <2>1. u = [t EXCEPT !.startedAt = at, !.running = TRUE]
    BY <1>2, <1>5 DEF TimerToggle
  <2> HIDE DEF u
  <2>2. /\ u \in TimersOf(at) /\ u.spent = t.spent /\ u.running /\ ~u.expired
        /\ u.startedAt = at
    BY <1>1, <1>5, <2>1 DEF TimersOf
  <2>3. Spent(u, at) = ran
    BY <1>1, <1>5, <2>2 DEF Spent, TimersOf
  <2>4. TimerInv(u, at, ran)
    BY <1>1, <2>2, <2>3 DEF TimerInv
  <2> QED  BY <2>4 DEF u
<1> QED  BY <1>2, <1>3, <1>4, <1>5

LEMMA TimerResetKeeps ==
  ASSUME NEW t, NEW at, NEW ran, TimerInv(t, at, ran)
  PROVE  TimerInv(TimerReset(t), at, 0)
<1> DEFINE u == TimerReset(t)
<1>1. t \in TimersOf(at) /\ at \in Nat
  BY DEF TimerInv
<1>2. u = [t EXCEPT !.running = FALSE, !.spent = 0, !.expired = FALSE]
  BY DEF TimerReset
<1> HIDE DEF u
<1>3. u \in TimersOf(at) /\ ~u.running /\ ~u.expired /\ u.spent = 0
  BY <1>1, <1>2 DEF TimersOf
<1>4. TimerInv(u, at, 0)
  BY <1>1, <1>3 DEF TimerInv, Spent
<1> QED  BY <1>4 DEF u

\* A target stays at a step or more.
LEMMA SteppedIs ==
  ASSUME NEW target \in STEP_NS .. MaxTarget, NEW up \in BOOLEAN,
         up => target + STEP_NS <= MaxTarget
  PROVE  Stepped(target, up) \in STEP_NS .. MaxTarget
BY KernelUiAssumption DEF Stepped

LEMMA TimerAdjustKeeps ==
  ASSUME NEW t, NEW at, NEW ran, TimerInv(t, at, ran), NEW up \in BOOLEAN,
         up => t.target + STEP_NS <= MaxTarget
  PROVE  TimerInv(TimerAdjust(t, up), at, IF t.running THEN ran ELSE 0)
<1>1. t \in TimersOf(at) /\ t.target \in STEP_NS .. MaxTarget
  BY DEF TimerInv, TimersOf
<1>2. Stepped(t.target, up) \in STEP_NS .. MaxTarget
  BY <1>1, SteppedIs
<1> DEFINE u == TimerAdjust(t, up)
<1>3. CASE t.running
  BY <1>3 DEF TimerAdjust
<1>4. CASE ~t.running
  <2>1. u = [t EXCEPT !.target = Stepped(t.target, up), !.expired = FALSE, !.spent = 0]
    BY <1>4 DEF TimerAdjust
  <2> HIDE DEF u
  <2>2. u \in TimersOf(at) /\ ~u.running /\ ~u.expired /\ u.spent = 0
    BY <1>1, <1>2, <1>4, <2>1 DEF TimersOf
  <2>3. TimerInv(u, at, 0)
    BY <2>2 DEF TimerInv, Spent
  <2> QED  BY <1>4, <2>3 DEF u
<1> QED  BY <1>3, <1>4

\* Time passes.
LEMMA TimerTickKeeps ==
  ASSUME NEW t, NEW at, NEW ran, TimerInv(t, at, ran)
  PROVE  TimerInv(t, at + 1, ran + IF t.running THEN 1 ELSE 0)
<1>1. /\ t \in TimersOf(at) /\ at \in Nat /\ ran \in Nat
      /\ t.running \in BOOLEAN /\ t.startedAt \in 0 .. at /\ t.spent \in Nat
      /\ Spent(t, at) = ran
  BY DEF TimerInv, TimersOf
<1>2. t \in TimersOf(at + 1)
  BY <1>1 DEF TimersOf
<1>3. Spent(t, at + 1) = ran + IF t.running THEN 1 ELSE 0
  BY <1>1 DEF Spent
<1>4. t.expired => ~t.running /\ TicksToNs(ran) >= t.target
  BY DEF TimerInv
<1>5. t.expired => ran + (IF t.running THEN 1 ELSE 0) = ran
  BY <1>1, <1>4
<1> QED  BY <1>1, <1>2, <1>3, <1>4, <1>5 DEF TimerInv

-----------------------------------------------------------------------------
(* The inductive invariant.                                                *)

IInv ==
  /\ tab \in Tabs
  /\ cardsFade \in 0 .. CardsFade /\ cardsDirty \in BOOLEAN
  /\ taken \in 0 .. EVENTS_PER_FRAME
  /\ StopwatchInv(stopwatch, now, stopwatchRan)
  /\ TimerInv(timer, now, timerRan)
  /\ SessionCardIsCurrent

LEMMA InitSound == Init => IInv
<1> SUFFICES ASSUME Init PROVE IInv
  OBVIOUS
<1>1. /\ stopwatch.running = FALSE /\ stopwatch.laps = <<>>
      /\ stopwatch.accumulated = Fresh(0) /\ stopwatch.integrity = "Clean"
  BY DEF Init
<1>2. Fresh(0) \in WordsOf({0}) /\ Fresh(0).stored = 0
  BY FreshWord
<1>3. stopwatch \in StopwatchesOf({0}, 0)
  <2>1. <<>> \in Seq({0})
    OBVIOUS
  <2> QED  BY <1>2, <2>1 DEF Init, StopwatchesOf, Tiers
<1>4. StopwatchInv(stopwatch, 0, 0)
  <2>1. Len(<<>>) = 0 /\ 0 <= MAX_LAPS
    BY KernelUiAssumption
  <2> QED  BY <1>1, <1>2, <1>3, <2>1 DEF StopwatchInv, TimeIsKept
<1>5. TimerInv(timer, 0, 0)
  <2>1. DEFAULT_NS \in STEP_NS .. MaxTarget
    BY KernelUiAssumption
  <2> QED  BY <2>1 DEF Init, TimerInv, TimersOf, Spent
<1>6. SessionCardIsCurrent
  BY DEF Init, SessionCardIsCurrent
<1> QED  BY <1>4, <1>5, <1>6, KernelUiAssumption DEF Init, IInv, Tabs

\* What every key and click leaves alone.
Event == taken' \in 0 .. EVENTS_PER_FRAME /\ UNCHANGED <<now, card>>

\* A handler that asks for the card may change what is on it.
LEMMA AskedFor ==
  ASSUME IInv, Event, RefreshCards \/ TransitionCards
  PROVE  /\ cardsFade' \in 0 .. CardsFade /\ cardsDirty' \in BOOLEAN
         /\ SessionCardIsCurrent'
<1>1. CardsFade \in 0 .. CardsFade
  BY KernelUiAssumption
<1>2. cardsDirty' = TRUE
  BY DEF RefreshCards, TransitionCards
<1>3. cardsFade' \in 0 .. CardsFade
  BY <1>1 DEF IInv, RefreshCards, TransitionCards
<1>4. SessionCardIsCurrent'
  BY <1>2, Zenon DEF SessionCardIsCurrent
<1> QED  BY <1>2, <1>3, <1>4

LEMMA UnboundSound == IInv /\ Event /\ Unbound => IInv'
BY DEF IInv, Event, Unbound, KeepCards, KeepBoth, SessionCardIsCurrent

LEMMA SelectTabSound ==
  ASSUME IInv, Event, NEW t \in Tabs, SelectTab(t)
  PROVE  IInv'
<1>1. CASE t = tab
  BY <1>1, UnboundSound DEF SelectTab, Unbound
<1>2. CASE t # tab
  <2>1. TransitionCards
    BY <1>2 DEF SelectTab
  <2> QED  BY <2>1, AskedFor DEF IInv, Event, SelectTab, KeepBoth
<1> QED  BY <1>1, <1>2

LEMMA StartOrStopSound == IInv /\ Event /\ StartOrStop => IInv'
<1> SUFFICES ASSUME IInv, Event, StartOrStop PROVE IInv'
  OBVIOUS
<1>1. StopwatchInv(stopwatch', now, stopwatchRan)
  BY ToggleKeeps DEF IInv, StartOrStop
<1>2. TimerInv(timer', now, timerRan)
  BY TimerToggleKeeps DEF IInv, StartOrStop
<1> QED  BY <1>1, <1>2, AskedFor DEF IInv, Event, StartOrStop

LEMMA LapSound == IInv /\ Event /\ Lap => IInv'
<1> SUFFICES ASSUME IInv, Event, Lap PROVE IInv'
  OBVIOUS
<1>1. StopwatchInv(stopwatch', now, stopwatchRan)
  BY LapKeeps DEF IInv, Lap
<1> QED  BY <1>1, AskedFor DEF IInv, Event, Lap

LEMMA ZeroSound == IInv /\ Event /\ Zero => IInv'
<1> SUFFICES ASSUME IInv, Event, Zero PROVE IInv'
  OBVIOUS
<1>1. CASE tab = "Clock" /\ KeepCards /\ KeepBoth
  BY <1>1, UnboundSound DEF Zero, Unbound
<1>2. CASE RefreshCards \/ TransitionCards
  <2>1. StopwatchInv(stopwatch', now, stopwatchRan')
    BY ResetKeeps DEF IInv, Zero, KeepBoth
  <2>2. TimerInv(timer', now, timerRan')
    BY TimerResetKeeps DEF IInv, Zero, KeepBoth
  <2> QED  BY <1>2, <2>1, <2>2, AskedFor DEF IInv, Event, Zero
<1> QED  BY <1>1, <1>2 DEF Zero

LEMMA AdjustSound ==
  ASSUME IInv, Event, NEW up \in BOOLEAN, Adjust(up)
  PROVE  IInv'
<1>1. TimerInv(timer', now, timerRan')
  BY TimerAdjustKeeps DEF IInv, Adjust
<1> QED  BY <1>1, AskedFor DEF IInv, Event, Adjust

\* A round of the loop takes no more events than it may.
LEMMA TakeIs ==
  ASSUME IInv, Take
  PROVE  Event
<1>1. EVENTS_PER_FRAME \in Nat \ {0} /\ taken \in 0 .. EVENTS_PER_FRAME
  BY KernelUiAssumption DEF IInv
<1>2. taken < EVENTS_PER_FRAME
  BY DEF Take, MoreEvents
<1> QED  BY <1>1, <1>2 DEF Take, Event

LEMMA KeySound == IInv /\ Key => IInv'
<1> SUFFICES ASSUME IInv, Key PROVE IInv'
  OBVIOUS
<1>1. Event
  BY TakeIs DEF Key
<1>2. ASSUME NEW t \in Tabs, Acting(SelectTab(t)) PROVE IInv'
  BY <1>1, <1>2, SelectTabSound DEF Acting
<1>3. CASE Acting(StartOrStop)
  BY <1>1, <1>3, StartOrStopSound DEF Acting
<1>4. CASE Acting(Lap)
  BY <1>1, <1>4, LapSound DEF Acting
<1>5. CASE Acting(Zero)
  BY <1>1, <1>5, ZeroSound DEF Acting
<1>6. ASSUME NEW up \in BOOLEAN, Acting(Adjust(up)) PROVE IInv'
  BY <1>1, <1>6, AdjustSound DEF Acting
<1>7. CASE Idle
  BY <1>1, <1>7, UnboundSound DEF Idle
<1> QED  BY <1>2, <1>3, <1>4, <1>5, <1>6, <1>7 DEF Key, Press

LEMMA MotionSound == IInv /\ Motion => IInv'
<1> SUFFICES ASSUME IInv, NEW over \in Places, NEW left \in BOOLEAN, Report(over, left)
             PROVE  IInv'
  BY DEF Motion
<1>1. Event
  BY TakeIs DEF Report
<1>2. CASE Idle
  BY <1>1, <1>2, UnboundSound DEF Idle
<1>3. CASE over \in Tabs /\ Acting(SelectTab(over))
  BY <1>1, <1>3, SelectTabSound DEF Acting
<1>4. CASE Acting(StartOrStop)
  BY <1>1, <1>4, StartOrStopSound DEF Acting
<1> QED  BY <1>2, <1>3, <1>4 DEF Report, Pointer

LEMMA WaitSound == IInv /\ (Drained \/ Spin) => IInv'
BY KernelUiAssumption DEF IInv, Drained, Spin, ui, SessionCardIsCurrent

LEMMA FrameSound == IInv /\ Frame => IInv'
<1> SUFFICES ASSUME IInv, Frame PROVE IInv'
  OBVIOUS
<1>1. /\ StopwatchInv(stopwatch', now, stopwatchRan)
      /\ stopwatch'.running = stopwatch.running /\ stopwatch'.laps = stopwatch.laps
  BY VerifiedKeeps DEF IInv, Frame
<1>2. /\ TimerInv(timer', now, timerRan)
      /\ timer'.target = timer.target
      /\ timer' = timer \/ (timer.running /\ ~timer.expired /\ timer'.expired)
  BY LookedAtKeeps DEF IInv, Frame
<1>3. SessionCardIsCurrent'
  <2>1. CASE card' = Session(tab, stopwatch', timer')
    BY <2>1 DEF SessionCardIsCurrent, Session, IInv, Tabs, Frame
  <2>2. CASE ~cardsDirty /\ cardsFade = 0 /\ UNCHANGED <<card, cardsDirty, cardsFade>>
    <3>1. card.tab = tab /\ (tab = "Stopwatch" =>
            card.running = stopwatch'.running /\ card.laps = Len(stopwatch'.laps))
      BY <1>1, <2>2 DEF IInv, SessionCardIsCurrent
    <3>2. tab = "Timer" => card.target = timer'.target
      BY <1>2, <2>2 DEF IInv, SessionCardIsCurrent
    <3>3. tab = "Timer" /\ card.state # TimerState(timer') =>
            card.state = "running" /\ timer'.expired
      BY <1>2, <2>2 DEF IInv, SessionCardIsCurrent, TimerState
    <3> QED  BY <2>2, <3>1, <3>2, <3>3 DEF SessionCardIsCurrent, Frame
  <2> QED  BY <2>1, <2>2 DEF Frame
<1>4. cardsFade' \in 0 .. CardsFade /\ cardsDirty' \in BOOLEAN
  <2>1. CardsFade \in Nat
    BY KernelUiAssumption
  <2>2. CASE cardsDirty' = FALSE /\ cardsFade' = IF cardsFade > 0 THEN cardsFade - 1 ELSE 0
    <3>1. cardsFade \in 0 .. CardsFade
      BY DEF IInv
    <3>2. cardsFade' \in 0 .. CardsFade
      BY <2>1, <2>2, <3>1
    <3> QED  BY <2>2, <3>2
  <2>3. CASE UNCHANGED <<cardsDirty, cardsFade>>
    BY <2>3 DEF IInv
  <2> QED  BY <2>2, <2>3 DEF Frame
<1>5. taken' \in 0 .. EVENTS_PER_FRAME
  BY KernelUiAssumption DEF Frame
<1>6. UNCHANGED <<now, tab, stopwatchRan, timerRan>>
  BY DEF Frame
<1> QED  BY <1>1, <1>2, <1>3, <1>4, <1>5, <1>6 DEF IInv

LEMMA TickSound == IInv /\ Tick => IInv'
<1> SUFFICES ASSUME IInv, Tick PROVE IInv'
  OBVIOUS
<1>1. StopwatchInv(stopwatch, now + 1, stopwatchRan + IF stopwatch.running THEN 1 ELSE 0)
  BY TickKeeps DEF IInv
<1>2. TimerInv(timer, now + 1, timerRan + IF timer.running THEN 1 ELSE 0)
  BY TimerTickKeeps DEF IInv
<1>3. SessionCardIsCurrent'
  BY DEF IInv, Tick, ui, SessionCardIsCurrent
<1> QED  BY <1>1, <1>2, <1>3 DEF IInv, Tick, ui, loop

LEMMA UpsetSound == IInv /\ UpsetWord => IInv'
<1> SUFFICES ASSUME IInv, UpsetWord PROVE IInv'
  OBVIOUS
<1>1. PICK damage \in Damages :
        stopwatch' = [stopwatch EXCEPT !.accumulated.flipped = damage]
  BY DEF UpsetWord
<1>2. /\ StopwatchInv(stopwatch', now, stopwatchRan)
      /\ stopwatch'.running = stopwatch.running /\ stopwatch'.laps = stopwatch.laps
  BY <1>1, UpsetKeeps DEF IInv
<1>3. SessionCardIsCurrent'
  BY <1>2 DEF IInv, UpsetWord, ui, SessionCardIsCurrent
<1> QED  BY <1>2, <1>3 DEF IInv, UpsetWord, ui, loop

LEMMA NextSound == IInv /\ [Next]_vars => IInv'
<1> SUFFICES ASSUME IInv, [Next]_vars PROVE IInv'
  OBVIOUS
<1>1. CASE UNCHANGED vars
  BY <1>1 DEF IInv, vars, ui, loop, SessionCardIsCurrent
<1>2. CASE Loop
  BY <1>2, KeySound, MotionSound, WaitSound, FrameSound DEF Loop
<1>3. CASE Tick \/ UpsetWord
  BY <1>3, TickSound, UpsetSound
<1> QED  BY <1>1, <1>2, <1>3 DEF Next

\* Every step of the loop, of time and of an upset keeps the invariant.
THEOREM InvariantHolds == Spec => []IInv
BY InitSound, NextSound, PTL DEF Spec

-----------------------------------------------------------------------------
(* The properties.                                                         *)

\* The indices, counts and times of the interface stay what they are.
THEOREM TypeCorrect == Spec => []TypeOK
<1>1. IInv => TypeOK
  <2> SUFFICES ASSUME IInv PROVE TypeOK
    OBVIOUS
  <2>1. PICK V : stopwatch \in StopwatchesOf(V, now)
    BY DEF IInv, StopwatchInv
  <2>2. stopwatch.integrity \in Tiers /\ Len(stopwatch.laps) <= MAX_LAPS
    BY <2>1 DEF IInv, StopwatchInv, StopwatchesOf
  <2>3. timer.target \in STEP_NS .. MaxTarget /\ ~(timer.running /\ timer.expired)
    BY DEF IInv, TimerInv, TimersOf
  <2> QED  BY <2>2, <2>3 DEF IInv, TypeOK
<1> QED  BY <1>1, InvariantHolds, PTL

\* A reading that is not the time the stopwatch ran is marked unrecoverable
\* until the next reset (Stopwatch::ticks, which verifies as it reads).
THEOREM WrongTimesAreFlagged == Spec => []WrongTimeIsFlagged
<1>1. IInv => WrongTimeIsFlagged
  BY TicksAreTrue DEF IInv, WrongTimeIsFlagged, Verdict
<1> QED  BY <1>1, InvariantHolds, PTL

\* The laps kept are in the order they were taken (Stopwatch::lap).
THEOREM LapsAreInOrder == Spec => []LapsAscend
<1>1. IInv => LapsAscend
  BY TicksAreTrue DEF IInv, LapsAscend, Verdict, TimeIsKept
<1> QED  BY <1>1, InvariantHolds, PTL

\* A countdown spends the time it ran and does not end early (Timer).
THEOREM TimerIsRight == Spec => []TimerSpendsWhatItRan
<1>1. IInv => TimerSpendsWhatItRan
  BY DEF IInv, TimerInv, TimerSpendsWhatItRan
<1> QED  BY <1>1, InvariantHolds, PTL

\* Every handler that changes what the session card says asks for it to be
\* painted (handle, pointer, select_tab).
THEOREM SessionCardStaysCurrent == Spec => []SessionCardIsCurrent
<1>1. IInv => SessionCardIsCurrent
  BY DEF IInv
<1> QED  BY <1>1, InvariantHolds, PTL
=============================================================================
