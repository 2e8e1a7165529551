-------------------------- MODULE ChronometerProofs --------------------------
(***************************************************************************)
(* Theorems about Chronometer, for every rate and width of the counter,    *)
(* every calibration window and every loss to preemption shorter than it,  *)
(* and every pattern of upsets of at most two bits in a copy:              *)
(*                                                                         *)
(*   - the rate a reading divides by is well formed, measured well enough, *)
(*     and checked of late;                                                *)
(*   - an elapsed count that is not the true one goes with a counted       *)
(*     unrecoverable word;                                                 *)
(*   - a spin whose target lies below the wrap is not cut short;           *)
(*   - a drift is that of the rate, in sessions in which the counter does  *)
(*     not run all the way round.                                          *)
(***************************************************************************)
EXTENDS Chronometer, FiniteSetTheorems, TLAPS

-----------------------------------------------------------------------------
(* Products and quotients.                                                 *)

LEMMA ProductIsNat == \A a, b \in Nat : a * b \in Nat
OBVIOUS

LEMMA ProductGrows == \A a, b, c \in Nat : a <= b => a * c <= b * c
OBVIOUS

\* What is smaller times the same number is smaller.
LEMMA ProductCancels == \A a, b \in Nat, c \in Nat \ {0} : a * c < b * c => a < b
OBVIOUS

\* A quotient is the largest number whose product with the divisor fits.
LEMMA QuotientBounds ==
  \A n \in Nat, d \in Nat \ {0} :
    /\ n \div d \in Nat
    /\ (n \div d) * d <= n
    /\ n < ((n \div d) + 1) * d
OBVIOUS

LEMMA QuotientAndRemainder ==
  \A n \in Nat, d \in Nat \ {0} :
    n % d \in Nat /\ n % d < d /\ n = (n \div d) * d + (n % d)
OBVIOUS

\* There is one way only to write a number as a multiple and a rest.
LEMMA RemainderIsUnique ==
  ASSUME NEW d \in Nat \ {0}, NEW k \in Nat, NEW s \in Nat, s < d
  PROVE  (k * d + s) % d = s
<1> DEFINE n == k * d + s
           q == n \div d
<1>1. k * d \in Nat /\ n \in Nat
  BY ProductIsNat
<1>2. q \in Nat /\ n = q * d + (n % d) /\ n % d \in Nat /\ n % d < d
  BY <1>1, QuotientAndRemainder, QuotientBounds
<1>3. (k + 1) * d = k * d + d /\ (q + 1) * d = q * d + d /\ q * d \in Nat
  BY <1>2, ProductIsNat
<1>4. k * d < (q + 1) * d /\ q * d < (k + 1) * d
  BY <1>1, <1>2, <1>3
<1>5. k < q + 1 /\ q < k + 1
  BY <1>2, <1>4, ProductCancels
<1>6. q = k
  BY <1>2, <1>5
<1> QED  BY <1>1, <1>2, <1>6

\* Multiples do not count.
LEMMA RemainderOfMultiple ==
  ASSUME NEW d \in Nat \ {0}, NEW k \in Nat, NEW x \in Nat
  PROVE  (k * d + x) % d = x % d
<1> DEFINE q == x \div d
           r == x % d
<1>1. q \in Nat /\ r \in Nat /\ r < d /\ x = q * d + r
  BY QuotientAndRemainder, QuotientBounds
<1>2. k * d + x = (k + q) * d + r /\ k + q \in Nat
  BY <1>1
<1> QED  BY <1>1, <1>2, RemainderIsUnique

LEMMA RemainderIsLess == \A n \in Nat, d \in Nat \ {0} : n % d <= n
<1> TAKE n \in Nat, d \in Nat \ {0}
<1>1. (n \div d) * d \in Nat /\ n % d \in Nat /\ n = (n \div d) * d + (n % d)
  BY QuotientAndRemainder, QuotientBounds, ProductIsNat
<1> QED  BY <1>1

\* A remainder of a number that grew by b has grown by b at most.
LEMMA RemainderGrows ==
  ASSUME NEW a \in Nat, NEW b \in Nat, NEW d \in Nat \ {0}
  PROVE  (a + b) % d <= (a % d) + b
<1>1. PICK q \in Nat, r \in Nat : a = q * d + r /\ a % d = r
  BY QuotientAndRemainder, QuotientBounds
<1>2. a + b = q * d + (r + b) /\ r + b \in Nat
  BY <1>1
<1>3. (a + b) % d = (r + b) % d
  <2>1. (q * d + (r + b)) % d = (r + b) % d
    BY <1>2, RemainderOfMultiple
  <2> QED  BY <1>2, <2>1, Zenon
<1>4. (r + b) % d <= r + b
  BY <1>2, RemainderIsLess
<1> QED  BY <1>1, <1>3, <1>4

LEMMA DifferenceOfRests ==
  ASSUME NEW d \in Nat \ {0}, NEW k \in Nat, NEW r \in Nat, NEW y \in Nat, r < d, y < d
  PROVE  (((k * d + (r + y)) % d) - r) % d = y
<1>1. (k * d + (r + y)) % d = (r + y) % d
  <2>1. r + y \in Nat
    OBVIOUS
  <2> QED  BY <2>1, RemainderOfMultiple
<1>2. CASE r + y < d
  <2>1. (r + y) % d = r + y
    BY <1>2
  <2>2. (r + y) - r = y /\ y % d = y
    OBVIOUS
  <2> QED  BY <1>1, <2>1, <2>2
<1>3. CASE r + y >= d
  <2> DEFINE s == r + y - d
  <2>1. r + y = 1 * d + s /\ s \in Nat /\ s < d
    BY <1>3
  <2>2. (r + y) % d = s
    BY <2>1, RemainderIsUnique
  <2>3. s - r = y - d /\ (y - d) % d = y
    OBVIOUS
  <2> QED  BY <1>1, <2>2, <2>3
<1> QED  BY <1>2, <1>3

\* A difference of remainders is that of the numbers.
LEMMA RemainderOfDifference ==
  ASSUME NEW a \in Nat, NEW b \in Nat, NEW d \in Nat \ {0}
  PROVE  (((a + b) % d) - (a % d)) % d = b % d
<1>1. PICK i \in Nat, r \in Nat : a = i * d + r /\ r < d /\ a % d = r
  BY QuotientAndRemainder, QuotientBounds
<1>2. PICK j \in Nat, y \in Nat : b = j * d + y /\ y < d /\ b % d = y
  BY QuotientAndRemainder, QuotientBounds
<1>3. a + b = (i + j) * d + (r + y) /\ i + j \in Nat
  BY <1>1, <1>2
<1>4. ((((i + j) * d + (r + y)) % d) - r) % d = y
  BY <1>1, <1>2, <1>3, DifferenceOfRests
<1> QED  BY <1>1, <1>2, <1>3, <1>4
-----------------------------------------------------------------------------
(* Calibration.                                                            *)

LEMMA ProductIsLess == \A a, b \in Nat, c \in Nat \ {0} : a < b => a * c < b * c
OBVIOUS

\* A rate T measured over spans a and b of the clocks, of which b is the
\* longer, is not too high.
LEMMA QuotientIsNotHigh ==
  ASSUME NEW T \in Nat, NEW a \in Nat, NEW b \in Nat \ {0}, a <= b
  PROVE  (T * a) \div b <= T
<1> DEFINE q == (T * a) \div b
<1>1. T * a \in Nat /\ T * b \in Nat /\ T * a <= T * b
  BY ProductIsNat, ProductGrows
<1>2. q \in Nat /\ q * b <= T * a
  BY <1>1, QuotientBounds
<1>3. q * b <= T * b /\ q * b \in Nat
  BY <1>1, <1>2, ProductIsNat
<1> HIDE DEF q
<1>4. ~(T < q)
  BY <1>1, <1>2, <1>3, ProductIsLess
<1> QED  BY <1>2, <1>4 DEF q

\* Spans that lose at most G to preemption are to one another at least as
\* C - G is to C + G.
LEMMA LossIsBounded ==
  ASSUME NEW C \in Nat, NEW G \in Nat, G < C,
         NEW spun \in Nat, C <= spun, NEW lead \in 0 .. G, NEW tail \in 0 .. G
  PROVE  (C - G) * (spun + tail) <= (spun - lead) * (C + G)
<1>1. (C - G) * (spun + tail) <= (C - G) * (spun + G)
  <2>1. C - G \in Nat /\ spun + tail \in Nat /\ spun + G \in Nat /\ spun + tail <= spun + G
    OBVIOUS
  <2> QED  BY <2>1, ProductGrows
<1>2. (spun - G) * (C + G) <= (spun - lead) * (C + G)
  <2>1. spun - G \in Nat /\ spun - lead \in Nat /\ C + G \in Nat /\ spun - G <= spun - lead
    OBVIOUS
  <2> QED  BY <2>1, ProductGrows
<1>3. (C - G) * (spun + G) <= (spun - G) * (C + G)
  <2>1. PICK d \in Nat : spun = C + d
    <3>1. spun - C \in Nat /\ spun = C + (spun - C)
      OBVIOUS
    <3> QED  BY <3>1
  <2>2. (C - G) * (spun + G) = C * C + C * d - G * d - G * G
    BY <2>1
  <2>3. (spun - G) * (C + G) = C * C + C * d + G * d - G * G
    BY <2>1
  <2>4. G * d \in Nat /\ C * C \in Nat /\ C * d \in Nat /\ G * G \in Nat
    BY ProductIsNat
  <2> QED  BY <2>2, <2>3, <2>4
<1> QED  BY <1>1, <1>2, <1>3

\* So it is not too low by more than that share.
LEMMA QuotientIsNotLow ==
  ASSUME NEW T \in Nat, NEW a \in Nat, NEW b \in Nat \ {0}, NEW m \in Nat, NEW n \in Nat \ {0},
         m * b <= a * n
  PROVE  T * m < ((T * a) \div b + 1) * n
<1>1. T * a \in Nat
  BY ProductIsNat
<1>2. PICK q \in Nat : q = (T * a) \div b /\ T * a < (q + 1) * b
  BY <1>1, QuotientBounds
<1>3. (T * a) * n < ((q + 1) * b) * n
  BY <1>1, <1>2, ProductIsNat, ProductIsLess
<1>4. (T * m) * b <= (T * a) * n
  <2>1. m * b \in Nat /\ a * n \in Nat
    BY ProductIsNat
  <2>2. T * (m * b) <= T * (a * n)
    BY <2>1, ProductGrows
  <2>3. T * (m * b) = (T * m) * b /\ T * (a * n) = (T * a) * n
    OBVIOUS
  <2> QED  BY <2>2, <2>3
<1>5. ((q + 1) * b) * n = ((q + 1) * n) * b
  OBVIOUS
<1>6. T * m \in Nat /\ (q + 1) * n \in Nat /\ (T * m) * b \in Nat /\ ((q + 1) * n) * b \in Nat
      /\ (T * a) * n \in Nat
  BY <1>1, ProductIsNat
<1>7. (T * m) * b < ((q + 1) * n) * b
  BY <1>3, <1>4, <1>5, <1>6
<1>8. T * m < (q + 1) * n
  BY <1>6, <1>7, ProductCancels
<1> QED  BY <1>2, <1>8

\* The rates a calibration can leave.
LEMMA CalibrationIsSound ==
  ASSUME NEW c \in Calibrations
  PROVE  /\ c.hz \in Times \ {0} /\ c.took \in Nat
         /\ c.hz <= TrueHz
         /\ (c.hz + 1) * (CalibrationNs + MaxGap) > TrueHz * (CalibrationNs - MaxGap)
<1> DEFINE C == CalibrationNs
           G == MaxGap
<1>1. /\ TrueHz \in Nat \ {0} /\ TrueHz \in Times /\ C \in Nat \ {0} /\ G \in Nat /\ G < C
      /\ Limit \in Nat \ {0} /\ Rate \in Nat \ {0} /\ NanosPerSecond \in Nat \ {0}
      /\ TrueHz = Rate * NanosPerSecond /\ DeclaredHz \subseteq {TrueHz}
  BY TimeAssumption, ChronometerAssumption DEF Times
<1>2. ASSUME NEW h \in Nat \ {0}, h <= TrueHz PROVE h \in Times
  BY <1>1, <1>2 DEF Times
<1>3. CASE DeclaredHz # {}
  <2>1. c.hz = TrueHz /\ c.took = 0
    BY <1>1, <1>3 DEF Calibrations
  <2>2. TrueHz * (C - G) < (TrueHz + 1) * (C + G)
    <3>1. C - G \in Nat /\ C + G \in Nat \ {0} /\ C - G <= C + G
      BY <1>1
    <3>2. TrueHz * (C - G) <= TrueHz * (C + G) /\ TrueHz * (C + G) < (TrueHz + 1) * (C + G)
          /\ TrueHz * (C - G) \in Nat /\ TrueHz * (C + G) \in Nat /\ (TrueHz + 1) * (C + G) \in Nat
      BY <1>1, <3>1, ProductGrows, ProductIsLess, ProductIsNat
    <3> QED  BY <3>2
  <2> QED  BY <1>1, <2>1, <2>2
<1>4. CASE DeclaredHz = {}
  <2>1. PICK s \in Spans : c = [hz |-> AtLeastOne(MeasuredHz(s)), took |-> s.spun + s.tail]
    BY <1>4 DEF Calibrations
  <2>2. /\ s.lead \in 0 .. G /\ s.tail \in 0 .. G /\ s.spun \in Nat /\ C <= s.spun
    BY <1>1 DEF Spans
  <2> DEFINE a == s.spun - s.lead
             b == s.spun + s.tail
             q == (TrueHz * a) \div b
  <2>3. a \in Nat /\ b \in Nat \ {0} /\ a <= b
    BY <1>1, <2>2
  <2>4. Rate * a * NanosPerSecond = TrueHz * a
    BY <1>1, <2>3
  <2>5. MeasuredHz(s) = q
    BY <2>4 DEF MeasuredHz
  <2>6. q \in Nat /\ q <= TrueHz
    BY <1>1, <2>3, QuotientIsNotHigh, QuotientBounds, ProductIsNat
  <2>7. TrueHz * (C - G) < (q + 1) * (C + G)
    <3>1. (C - G) * b <= a * (C + G)
      BY <1>1, <2>2, LossIsBounded
    <3>2. C - G \in Nat /\ C + G \in Nat \ {0}
      BY <1>1
    <3> QED  BY <1>1, <2>3, <3>1, <3>2, QuotientIsNotLow
  <2> HIDE DEF a, b, q
  <2>8. CASE q = 0
    <3>1. c.hz = 1
      BY <2>1, <2>5, <2>8 DEF AtLeastOne
    <3>2. 1 <= TrueHz
      BY <1>1
    <3>3. (0 + 1) * (C + G) <= (1 + 1) * (C + G)
      BY <1>1
    <3>4. TrueHz * (C - G) < (1 + 1) * (C + G)
      BY <1>1, <2>7, <2>8, <3>3
    <3> QED  BY <1>1, <1>2, <2>1, <2>2, <3>1, <3>2, <3>4
  <2>9. CASE q # 0
    <3>1. c.hz = q
      BY <2>1, <2>5, <2>9 DEF AtLeastOne
    <3> QED  BY <1>1, <1>2, <2>1, <2>2, <2>6, <2>7, <2>9, <3>1
  <2> QED  BY <2>8, <2>9
<1> QED  BY <1>3, <1>4
-----------------------------------------------------------------------------
(* One protected word.                                                     *)

LEMMA CounterIsATime == \A t \in Nat : CounterAt(t) \in Times
<1> TAKE t \in Nat
<1>1. Boot + t * Rate \in Nat
  BY TimeAssumption, ChronometerAssumption, ProductIsNat DEF Times
<1> QED  BY <1>1, TimeAssumption, QuotientAndRemainder DEF CounterAt, CounterAfter, Times

LEMMA FreshIsAWord ==
  ASSUME NEW v \in Times
  PROVE  Fresh(v) \in Words /\ Fresh(v).stored = v /\ Integrity(Fresh(v)) = "Clean"
<1>1. Fresh(v) \in Words /\ Fresh(v).stored = v
  BY DEF Fresh, Words
<1>2. Cardinality(Fresh(v).flipped["primary"]) = 0
  BY FS_EmptySet DEF Fresh, Copies
<1> QED  BY <1>1, <1>2 DEF Integrity

LEMMA TierOfWord ==
  ASSUME NEW w \in Words
  PROVE  Integrity(w) \in Tiers /\ Get(w) \in Times /\ w.stored \in Times
<1>1. /\ w.flipped["primary"] \in SUBSET CopyBits
      /\ w.stored \in Times
  BY DEF Words, Copies
<1>2. IsFiniteSet(w.flipped["primary"])
  BY <1>1, FS_Subset, ChronometerAssumption
<1>3. Cardinality(w.flipped["primary"]) \in Nat
  BY <1>2, FS_CardinalityType
<1>4. Integrity(w) \in Tiers
  BY <1>3 DEF Integrity, Tiers
<1> QED  BY <1>1, <1>4, UpsetAssumption DEF Get

\* A scrub leaves the value written, and what it cannot repair as it was.
LEMMA ScrubOfWord ==
  ASSUME NEW w \in Words
  PROVE  /\ Scrubbed(w) \in Words
         /\ Scrubbed(w).stored = w.stored
         /\ Integrity(Scrubbed(w)) = "Unrecoverable" => Integrity(w) = "Unrecoverable"
<1>1. CASE Integrity(w) \in Repairs
  <2>1. Scrubbed(w) = Fresh(w.stored)
    BY <1>1 DEF Scrubbed
  <2> QED  BY <2>1, TierOfWord, FreshIsAWord
<1>2. CASE Integrity(w) \notin Repairs
  BY <1>2 DEF Scrubbed
<1> QED  BY <1>1, <1>2

LEMMA FlipOfWord ==
  ASSUME NEW w \in Words, NEW c \in Copies, NEW b \in CopyBits
  PROVE  FlipBit(w, c, b) \in Words /\ FlipBit(w, c, b).stored = w.stored
<1>1. Toggle(w.flipped[c], b) \in SUBSET CopyBits
  BY DEF Toggle, Words
<1> QED  BY <1>1 DEF FlipBit, Words

LEMMA NothingFlippedWord ==
  ASSUME NEW w \in Words, Integrity(w) # "Unrecoverable"
  PROVE  Checked(w) = w.stored
BY DEF Checked

-----------------------------------------------------------------------------
(* The inductive invariant.                                                *)

\* The rate was measured soundly, whatever has hit the word since.
RateInv ==
  /\ hz \in Words /\ hz.stored # 0
  /\ CalibrationIsNeverFast

\* The origin word was written with the counter at the origin.
OriginInv ==
  /\ start \in Words
  /\ origin \in 0 .. now
  /\ start.stored = CounterAt(origin)

\* The drift window is never younger than the last check of the rate, but for
\* a restart of the interval in between: this is why a window that is not due
\* means a rate checked within the second.
WindowInv ==
  /\ window \in [units : Times, ns : 0 .. now]
  /\ verifiedAt \in 0 .. now
  /\ ~rebased => window.ns <= verifiedAt

ReportInv ==
  /\ drift \in [instant : Times, hz : Times]
  /\ lastIntegrity \in Tiers
  /\ reported \subseteq Tiers \ {"Clean"}
  /\ now \in 0 .. MaxTicks

OutcomeInv ==
  /\ ElapsedIsTrueOrCounted
  /\ PolledRateIsFresh
  /\ SpinBelowTheWrapIsLongEnough

IInv == RateInv /\ OriginInv /\ WindowInv /\ ReportInv /\ OutcomeInv

\* A call that returns neither a reading nor from a spin has no outcome.
LEMMA NoOutcomeSound == outcome' = NoOutcome => OutcomeInv'
BY DEF OutcomeInv, NoOutcome, ElapsedIsTrueOrCounted, PolledRateIsFresh,
       SpinBelowTheWrapIsLongEnough

LEMMA RateKept ==
  RateInv /\ hz' \in Words /\ hz'.stored = hz.stored => RateInv'
BY DEF RateInv, CalibrationIsNeverFast, Words, Times, Limit

LEMMA RateMeasured ==
  ASSUME NEW c \in Calibrations, hz' = Fresh(c.hz)
  PROVE  RateInv'
<1>1. hz' \in Words /\ hz'.stored = c.hz
  BY CalibrationIsSound, FreshIsAWord
<1>2. hz'.stored # 0 /\ CalibrationIsNeverFast'
  BY <1>1, CalibrationIsSound DEF CalibrationIsNeverFast
<1> QED  BY <1>1, <1>2 DEF RateInv, Words, Times, Limit

LEMMA InitSound == Init => IInv
<1> SUFFICES ASSUME NEW c \in Calibrations,
                    /\ hz = Fresh(c.hz)
                    /\ start = Fresh(CounterAt(0))
                    /\ window = [units |-> CounterAt(0), ns |-> 0]
                    /\ drift = NoDrift
                    /\ lastIntegrity = "Clean"
                    /\ reported = {}
                    /\ now = 0 /\ origin = 0 /\ verifiedAt = 0
                    /\ rebased = FALSE
                    /\ outcome = NoOutcome
             PROVE  IInv
  BY DEF Init
<1>1. RateInv
  <2>1. hz \in Words /\ hz.stored = c.hz
    BY CalibrationIsSound, FreshIsAWord
  <2> QED  BY <2>1, CalibrationIsSound DEF RateInv, CalibrationIsNeverFast
<1>2. OriginInv
  BY CounterIsATime, FreshIsAWord DEF OriginInv
<1>3. WindowInv
  BY CounterIsATime DEF WindowInv
<1>4. ReportInv
  BY TimeAssumption DEF ReportInv, NoDrift, Tiers, Times
<1>5. OutcomeInv
  BY DEF OutcomeInv, NoOutcome, ElapsedIsTrueOrCounted, PolledRateIsFresh,
         SpinBelowTheWrapIsLongEnough
<1> QED  BY <1>1, <1>2, <1>3, <1>4, <1>5 DEF IInv
-----------------------------------------------------------------------------
(* Steps.                                                                  *)

\* Time that passes, or a scrub of the word, changes no interval.
LEMMA OriginKept ==
  ASSUME OriginInv, now \in Nat, now' \in Nat, now <= now', origin' = origin,
         start' \in Words, start'.stored = start.stored
  PROVE  OriginInv'
<1>1. origin' \in 0 .. now'
  BY DEF OriginInv
<1>2. start'.stored = CounterAt(origin)
  BY DEF OriginInv
<1> QED  BY <1>1, <1>2 DEF OriginInv, Words, Times, Limit, CounterAt, CounterAfter

LEMMA TickSound == IInv /\ Tick => IInv'
<1> SUFFICES ASSUME IInv, Tick PROVE IInv'
  OBVIOUS
<1>1. /\ RateInv /\ OriginInv /\ WindowInv /\ ReportInv
      /\ now \in Nat /\ MaxTicks \in Nat
  BY TimeAssumption DEF IInv, ReportInv
<1>2. RateInv'
  BY <1>1, RateKept DEF Tick, words, RateInv
<1>3. OriginInv'
  BY <1>1, OriginKept DEF Tick, words, OriginInv
<1>4. WindowInv'
  BY <1>1 DEF Tick, WindowInv, Times, Limit
<1>5. ReportInv'
  BY <1>1 DEF Tick, ReportInv, Times, Limit, Tiers
<1>6. OutcomeInv'
  BY NoOutcomeSound DEF Tick
<1> QED  BY <1>2, <1>3, <1>4, <1>5, <1>6 DEF IInv

LEMMA CalibrateSound == IInv /\ Calibrate => IInv'
<1> SUFFICES ASSUME IInv, NEW c \in Calibrations,
                    now + c.took <= MaxTicks, now' = now + c.took,
                    hz' = Fresh(c.hz), verifiedAt' = now', rebased' = FALSE,
                    outcome' = NoOutcome,
                    UNCHANGED <<start, window, drift, lastIntegrity, reported, origin>>
             PROVE  IInv'
  BY DEF Calibrate
<1>1. /\ OriginInv /\ WindowInv /\ ReportInv
      /\ now \in Nat /\ MaxTicks \in Nat /\ c.took \in Nat
  BY TimeAssumption, CalibrationIsSound DEF IInv, ReportInv
<1>2. RateInv'
  BY RateMeasured
<1>3. OriginInv'
  BY <1>1, OriginKept DEF OriginInv
<1>4. WindowInv'
  BY <1>1 DEF WindowInv, Times, Limit
<1>5. ReportInv'
  BY <1>1 DEF ReportInv, Times, Limit, Tiers
<1>6. OutcomeInv'
  BY NoOutcomeSound
<1> QED  BY <1>2, <1>3, <1>4, <1>5, <1>6 DEF IInv

LEMMA RebaseSound ==
  ASSUME NEW gap \in 0 .. MaxGap, IInv, Rebase(gap), drift' \in {drift, NoDrift}
  PROVE  IInv'
<1>1. /\ RateInv /\ ReportInv /\ WindowInv
      /\ now \in Nat /\ MaxTicks \in Nat /\ gap \in Nat
  BY TimeAssumption, ChronometerAssumption DEF IInv, ReportInv
<1>2. RateInv'
  BY <1>1, RateKept DEF Rebase, RateInv
<1>3. CounterAt(now) \in Times
  BY <1>1, CounterIsATime
<1>4. OriginInv'
  <2>1. start' \in Words /\ start'.stored = CounterAt(now)
    BY <1>3, FreshIsAWord DEF Rebase
  <2>2. origin' = now /\ now' = now + gap
    BY DEF Rebase
  <2> QED  BY <1>1, <2>1, <2>2 DEF OriginInv, Words, Times, Limit, CounterAt, CounterAfter
<1>5. WindowInv'
  BY <1>1, <1>3 DEF Rebase, WindowInv, WindowFrom, Times, Limit
<1>6. ReportInv'
  <2>1. NoDrift \in [instant : Times, hz : Times]
    BY TimeAssumption DEF NoDrift, Times
  <2> QED  BY <1>1, <2>1 DEF Rebase, ReportInv, Times, Limit, Tiers
<1>7. OutcomeInv'
  BY NoOutcomeSound DEF Rebase
<1> QED  BY <1>2, <1>4, <1>5, <1>6, <1>7 DEF IInv

LEMMA VerifyCalibrationSound == IInv /\ VerifyCalibration => IInv'
<1> SUFFICES ASSUME IInv, VerifyCalibration PROVE IInv'
  OBVIOUS
<1>1. /\ RateInv /\ OriginInv /\ WindowInv /\ ReportInv
      /\ now \in Nat /\ hz \in Words
  BY DEF IInv, ReportInv, RateInv
<1>2. RateInv'
  BY <1>1, RateKept, ScrubOfWord DEF VerifyCalibration
<1>3. OriginInv'
  BY <1>1, OriginKept DEF VerifyCalibration, OriginInv
<1>4. WindowInv'
  BY <1>1 DEF VerifyCalibration, WindowInv, Times, Limit
<1>5. ReportInv'
  <2>1. Integrity(hz) \in Tiers
    BY <1>1, TierOfWord
  <2> QED  BY <1>1, <2>1 DEF VerifyCalibration, ReportInv, Record, Times, Limit, Tiers
<1>6. OutcomeInv'
  BY NoOutcomeSound DEF VerifyCalibration
<1> QED  BY <1>2, <1>3, <1>4, <1>5, <1>6 DEF IInv

LEMMA UpsetSound ==
  ASSUME NEW c \in Copies, NEW b \in CopyBits, IInv, UpsetWord(c, b)
  PROVE  IInv'
<1>1. /\ RateInv /\ OriginInv /\ WindowInv /\ ReportInv
      /\ now \in Nat /\ hz \in Words /\ start \in Words
  BY DEF IInv, ReportInv, RateInv, OriginInv
<1>2. /\ hz' \in Words /\ hz'.stored = hz.stored
      /\ start' \in Words /\ start'.stored = start.stored
  BY <1>1, FlipOfWord DEF UpsetWord
<1>3. RateInv'
  BY <1>1, <1>2, RateKept
<1>4. OriginInv'
  BY <1>1, <1>2 DEF UpsetWord, OriginInv, Words, Times, Limit, CounterAt, CounterAfter
<1>5. WindowInv'
  BY <1>1 DEF UpsetWord, WindowInv, Times, Limit
<1>6. ReportInv'
  BY <1>1 DEF UpsetWord, ReportInv, Times, Limit, Tiers
<1>7. OutcomeInv'
  BY NoOutcomeSound DEF UpsetWord
<1> QED  BY <1>3, <1>4, <1>5, <1>6, <1>7 DEF IInv

\* A rate measured over a window of at least a nanosecond is a 64-bit number.
LEMMA MeasurementIsATime ==
  ASSUME NEW x \in Times, NEW y \in Times, NEW d \in Nat \ {0}
  PROVE  ((WrappingSub(x, y) * NanosPerSecond) \div d) % Limit \in Times
<1>1. /\ Limit \in Nat \ {0} /\ NanosPerSecond \in Nat
      /\ x - y \in Int
  BY TimeAssumption DEF Times
<1>2. WrappingSub(x, y) \in Nat
  BY <1>1 DEF WrappingSub
<1>3. WrappingSub(x, y) * NanosPerSecond \in Nat
  BY <1>1, <1>2, ProductIsNat
<1>4. (WrappingSub(x, y) * NanosPerSecond) \div d \in Nat
  BY <1>3, QuotientBounds
<1> QED  BY <1>1, <1>4, QuotientAndRemainder DEF Times

\* The counter's difference is the time passed, whatever has wrapped.
LEMMA ElapsedIsTrue ==
  ASSUME NEW t \in Nat, NEW o \in 0 .. t
  PROVE  WrappingSub(CounterAt(t), CounterAt(o)) = ((t - o) * Rate) % Limit
<1> DEFINE a == Boot + o * Rate
           b == (t - o) * Rate
<1>1. /\ Limit \in Nat \ {0} /\ Boot \in Nat /\ Rate \in Nat
      /\ o \in Nat /\ t - o \in Nat
  BY TimeAssumption, ChronometerAssumption DEF Times
<1>2. a \in Nat /\ b \in Nat
  BY <1>1, ProductIsNat
<1>3. a + b = Boot + t * Rate
  <2>1. PICK n \in Nat : n = t - o
    BY <1>1
  <2>2. t = o + n
    BY <1>1, <2>1
  <2>3. (o + n) * Rate = o * Rate + n * Rate
    BY <1>1
  <2> QED  BY <1>1, <2>1, <2>2, <2>3, ProductIsNat
<1>4. CounterAt(t) = (a + b) % Limit /\ CounterAt(o) = a % Limit
  BY <1>3 DEF CounterAt, CounterAfter
<1> HIDE DEF a, b
<1>5. (((a + b) % Limit) - (a % Limit)) % Limit = b % Limit
  BY <1>1, <1>2, RemainderOfDifference
<1> QED  BY <1>4, <1>5 DEF WrappingSub, b

\* What a reading says is true unless the origin's word was lost, whether or
\* not the checkpoint has scrubbed it first.
LEMMA ReadingIsTrue ==
  ASSUME OriginInv, now \in Nat,
         NEW from \in {start, Scrubbed(start)}, Integrity(start) # "Unrecoverable"
  PROVE  WrappingSub(CounterAt(now), Checked(from)) = ((now - origin) * Rate) % Limit
<1>1. start \in Words /\ origin \in 0 .. now /\ start.stored = CounterAt(origin)
  BY DEF OriginInv
<1>2. from \in Words /\ from.stored = start.stored /\ Integrity(from) # "Unrecoverable"
  BY <1>1, ScrubOfWord
<1>3. Checked(from) = CounterAt(origin)
  BY <1>1, <1>2, NothingFlippedWord
<1> QED  BY <1>1, <1>3, ElapsedIsTrue

LEMMA PollSound ==
  ASSUME NEW gap \in 0 .. MaxGap, IInv, Poll(gap)
  PROVE  IInv'
<1> DEFINE due  == DueAt(now')
           rate == IF due THEN Scrubbed(hz) ELSE hz
           from == IF due THEN Scrubbed(start) ELSE start
           units == WrappingSub(CounterAt(now), Checked(from))
           instant == ((WrappingSub(CounterAt(now), window.units) * NanosPerSecond)
                         \div (now' - window.ns)) % Limit
<1>1. /\ RateInv /\ OriginInv /\ WindowInv /\ ReportInv
      /\ now \in Nat /\ gap \in Nat /\ MaxTicks \in Nat
      /\ hz \in Words /\ start \in Words /\ NanosPerSecond \in Nat \ {0}
  BY TimeAssumption, ChronometerAssumption
     DEF IInv, ReportInv, RateInv, OriginInv
<1>2. /\ now' = now + gap /\ now' \in 0 .. MaxTicks /\ now' \in Nat
      /\ hz' = rate /\ start' = from /\ origin' = origin
  BY <1>1 DEF Poll
<1>3. /\ outcome'.by = "elapsed" /\ outcome'.units = units
  BY DEF Poll
<1>4. \/ /\ due
         /\ lastIntegrity' = Worse(Integrity(hz), Integrity(start))
         /\ reported' = reported \cup ({Integrity(hz), Integrity(start)} \ {"Clean"})
         /\ window' = WindowFrom(now, now')
         /\ drift' = IF instant # 0 /\ Get(rate) # 0
                       THEN [instant |-> instant, hz |-> Get(rate)] ELSE drift
         /\ verifiedAt' = now' /\ rebased' = FALSE
      \/ /\ ~due
         /\ reported' = reported \cup ({Integrity(start)} \ {"Clean"})
         /\ UNCHANGED <<lastIntegrity, window, drift, verifiedAt, rebased>>
  BY DEF Poll, Record
<1>5. /\ rate \in Words /\ rate.stored = hz.stored
      /\ from \in Words /\ from.stored = start.stored
      /\ from \in {start, Scrubbed(start)}
  BY <1>1, ScrubOfWord
<1>6. /\ Integrity(hz) \in Tiers /\ Integrity(start) \in Tiers /\ Get(rate) \in Times
  BY <1>1, <1>5, TierOfWord
<1>7. CounterAt(now) \in Times
  BY <1>1, CounterIsATime
<1>8. window.units \in Times /\ window.ns \in 0 .. now /\ verifiedAt \in 0 .. now
  BY <1>1 DEF WindowInv
<1>9. due => instant \in Times
  <2> SUFFICES ASSUME due PROVE instant \in Times
    OBVIOUS
  <2>1. now' - window.ns \in Nat \ {0}
    BY <1>1, <1>2, <1>8 DEF DueAt
  <2> QED  BY <1>7, <1>8, <2>1, MeasurementIsATime
<1>10. WindowInv'
  <2>1. CASE due
    <3>1. window' = [units |-> CounterAt(now), ns |-> now'] /\ verifiedAt' = now'
      BY <1>4, <2>1 DEF WindowFrom
    <3> QED  BY <1>2, <1>7, <3>1 DEF WindowInv, Times, Limit
  <2>2. CASE ~due
    <3>1. UNCHANGED <<window, verifiedAt, rebased>>
      BY <1>4, <2>2
    <3> QED  BY <1>1, <1>2, <3>1 DEF WindowInv, Times, Limit
  <2> QED  BY <2>1, <2>2
<1>11. PolledRateIsFresh'
  <2>1. CASE due
    <3>1. now' - verifiedAt' = 0
      BY <1>2, <1>4, <2>1
    <3> QED  BY <1>1, <3>1 DEF PolledRateIsFresh
  <2>2. CASE ~due
    <3>1. verifiedAt' = verifiedAt /\ rebased' = rebased
      BY <1>4, <2>2
    <3>2. now' - window.ns < NanosPerSecond
      BY <1>1, <1>2, <1>8, <2>2 DEF DueAt
    <3>3. ~rebased => window.ns <= verifiedAt
      BY <1>1 DEF WindowInv
    <3> QED  BY <1>1, <1>2, <1>8, <3>1, <3>2, <3>3 DEF PolledRateIsFresh
  <2> QED  BY <2>1, <2>2
<1>12. ElapsedIsTrueOrCounted'
  <2>1. CASE Integrity(start) = "Unrecoverable"
    <3>1. "Unrecoverable" \in reported'
      BY <1>4, <2>1
    <3> QED  BY <3>1 DEF ElapsedIsTrueOrCounted
  <2>2. CASE Integrity(start) # "Unrecoverable"
    <3>1. units = ((now - origin) * Rate) % Limit
      BY <1>1, <1>5, <2>2, ReadingIsTrue
    <3>2. now = now' - gap
      BY <1>1, <1>2
    <3>3. outcome'.units = ((now' - gap - origin') * Rate) % Limit
      BY <1>2, <1>3, <3>1, <3>2
    <3> QED  BY <3>3 DEF ElapsedIsTrueOrCounted, Limit
  <2> QED  BY <2>1, <2>2
<1>13. RateInv'
  BY <1>1, <1>2, <1>5, RateKept
<1>14. OriginInv'
  BY <1>1, <1>2, <1>5, OriginKept
<1>15. ReportInv'
  <2>1. drift' \in [instant : Times, hz : Times]
    BY <1>1, <1>4, <1>6, <1>9 DEF ReportInv
  <2>2. lastIntegrity' \in Tiers
    BY <1>1, <1>4, <1>6 DEF ReportInv, Worse
  <2>3. reported' \subseteq Tiers \ {"Clean"}
    BY <1>1, <1>4, <1>6 DEF ReportInv
  <2> QED  BY <1>2, <2>1, <2>2, <2>3 DEF ReportInv, Times, Limit, Tiers
<1>16. SpinBelowTheWrapIsLongEnough'
  BY <1>3 DEF SpinBelowTheWrapIsLongEnough
<1> QED  BY <1>10, <1>11, <1>12, <1>13, <1>14, <1>15, <1>16 DEF IInv, OutcomeInv

\* What spin_ns asks for is a number of units.
LEMMA UnitsAreATime ==
  ASSUME NEW ns \in Nat, hz \in Words
  PROVE  NsToUnits(ns) \in Times
<1>1. Get(hz) \in Nat /\ Limit \in Nat \ {0} /\ NanosPerSecond \in Nat \ {0}
  BY TimeAssumption, TierOfWord DEF Times
<1>2. (ns * Get(hz)) \div NanosPerSecond \in Nat
  BY <1>1, ProductIsNat, QuotientBounds
<1> QED  BY <1>1, <1>2, QuotientAndRemainder DEF NsToUnits, Times

\* A counter that has reached a target that far ahead has run that far.
LEMMA ReachedTargetIsFar ==
  ASSUME NEW t \in Nat, NEW waited \in Nat, NEW asked \in Nat,
         CounterAt(t) + asked < Limit, ~Below(t + waited, (CounterAt(t) + asked) % Limit)
  PROVE  waited * Rate >= asked
<1> DEFINE a == Boot + t * Rate
           b == waited * Rate
<1>1. /\ Limit \in Nat \ {0} /\ Boot \in Nat /\ Rate \in Nat
  BY TimeAssumption, ChronometerAssumption DEF Times
<1>2. a \in Nat /\ b \in Nat
  BY <1>1, ProductIsNat
<1>3. Boot + (t + waited) * Rate = a + b
  <2>1. (t + waited) * Rate = t * Rate + waited * Rate
    BY <1>1
  <2> QED  BY <1>1, <2>1, ProductIsNat
<1>4. CounterAt(t) = a % Limit /\ CounterAt(t + waited) = (a + b) % Limit
  BY <1>3 DEF CounterAt, CounterAfter
<1> HIDE DEF a, b
<1>5. CounterAt(t + waited) <= CounterAt(t) + b
  BY <1>1, <1>2, <1>4, RemainderGrows
<1>6. CounterAt(t) \in Nat /\ CounterAt(t + waited) \in Nat
  BY <1>1, <1>2, <1>4, QuotientAndRemainder
<1>7. (CounterAt(t) + asked) % Limit = CounterAt(t) + asked
  BY <1>1, <1>6
<1>8. CounterAt(t + waited) >= CounterAt(t) + asked
  BY <1>1, <1>6, <1>7 DEF Below
<1>9. b >= asked
  BY <1>2, <1>5, <1>6, <1>8
<1> QED  BY <1>9 DEF b

LEMMA SpinSound ==
  ASSUME NEW ns \in 1 .. MaxSpin, NEW gap \in 0 .. MaxGap, NEW waited \in 0 .. MaxTicks,
         IInv, SpinNs(ns, gap, waited)
  PROVE  IInv'
<1> DEFINE asked == NsToUnits(ns)
<1>1. /\ RateInv /\ OriginInv /\ WindowInv /\ ReportInv
      /\ now \in Nat /\ waited \in Nat /\ MaxTicks \in Nat /\ ns \in Nat
      /\ Limit \in Nat \ {0}
      /\ hz \in Words /\ start \in Words
  BY TimeAssumption, ChronometerAssumption
     DEF IInv, ReportInv, RateInv, OriginInv
<1>2. /\ now' = now + waited /\ now' \in 0 .. MaxTicks /\ now' \in Nat /\ now <= now'
      /\ UNCHANGED <<hz, start, window, drift, lastIntegrity, reported,
                     origin, verifiedAt, rebased>>
      /\ ~Below(now + waited, (CounterAt(now) + asked) % Limit)
      /\ outcome' = [by |-> "spin_ns", asked |-> asked, waited |-> waited * Rate,
                     wraps |-> CounterAt(now) + asked >= Limit]
  BY <1>1 DEF SpinNs, words
<1>3. asked \in Nat /\ CounterAt(now) \in Nat
  BY <1>1, UnitsAreATime, CounterIsATime DEF Times
<1> HIDE DEF asked
<1>4. OutcomeInv'
  <2>1. CASE CounterAt(now) + asked < Limit
    <3>1. waited * Rate >= asked
      BY <1>1, <1>2, <1>3, <2>1, ReachedTargetIsFar
    <3> QED  BY <1>2, <3>1 DEF OutcomeInv, ElapsedIsTrueOrCounted, PolledRateIsFresh,
                               SpinBelowTheWrapIsLongEnough
  <2>2. CASE ~(CounterAt(now) + asked < Limit)
    <3>1. CounterAt(now) + asked >= Limit
      BY <1>1, <1>3, <2>2
    <3>2. outcome'.by = "spin_ns" /\ outcome'.wraps
      BY <1>2, <3>1
    <3> QED  BY <3>2 DEF OutcomeInv, ElapsedIsTrueOrCounted, PolledRateIsFresh,
                         SpinBelowTheWrapIsLongEnough
  <2> QED  BY <2>1, <2>2
<1>5. RateInv'
  BY <1>1, <1>2, RateKept
<1>6. OriginInv'
  BY <1>1, <1>2, OriginKept
<1>7. WindowInv'
  BY <1>1, <1>2 DEF WindowInv, Times, Limit
<1>8. ReportInv'
  BY <1>1, <1>2 DEF ReportInv, Times, Limit, Tiers
<1> QED  BY <1>4, <1>5, <1>6, <1>7, <1>8 DEF IInv

LEMMA StutterSound == IInv /\ UNCHANGED vars => IInv'
BY DEF IInv, RateInv, OriginInv, WindowInv, ReportInv, OutcomeInv, CalibrationIsNeverFast,
       ElapsedIsTrueOrCounted, PolledRateIsFresh, SpinBelowTheWrapIsLongEnough,
       vars, words, history, Words, Times, Limit, Tiers, CounterAt, CounterAfter

LEMMA NextSound == IInv /\ [Next]_vars => IInv'
<1> SUFFICES ASSUME IInv, [Next]_vars PROVE IInv'
  OBVIOUS
<1>1. CASE Tick
  BY <1>1, TickSound
<1>2. CASE Calibrate
  BY <1>2, CalibrateSound
<1>3. CASE VerifyCalibration
  BY <1>3, VerifyCalibrationSound
<1>4. CASE \E gap \in 0 .. MaxGap : Reset(gap)
  BY <1>4, RebaseSound DEF Reset
<1>5. CASE \E gap \in 0 .. MaxGap : Start(gap)
  BY <1>5, RebaseSound DEF Start
<1>6. CASE \E gap \in 0 .. MaxGap : Poll(gap)
  BY <1>6, PollSound
<1>7. CASE \E ns \in 1 .. MaxSpin, gap \in 0 .. MaxGap, waited \in 0 .. MaxTicks :
             SpinNs(ns, gap, waited)
  BY <1>7, SpinSound
<1>8. CASE \E c \in Copies, b \in CopyBits : UpsetWord(c, b)
  BY <1>8, UpsetSound
<1>9. CASE UNCHANGED vars
  BY <1>9, StutterSound
<1> QED  BY <1>1, <1>2, <1>3, <1>4, <1>5, <1>6, <1>7, <1>8, <1>9 DEF Next

LEMMA SpecSound == Spec => []IInv
BY InitSound, NextSound, PTL DEF Spec
-----------------------------------------------------------------------------
(* What follows.                                                           *)

\* The rate a reading divides by is a 64-bit number that is not zero, never
\* above the counter's own rate and below it by no more than the share of the
\* calibration window lost to preemption, and was verified within the second
\* while the interval is polled without a restart.
THEOREM RateStaysSound == Spec => []RateIsSound
<1>1. IInv => RateIsSound
  BY DEF IInv, RateInv, OriginInv, WindowInv, ReportInv, OutcomeInv, RateIsSound, TypeOK
<1> QED  BY <1>1, SpecSound, PTL

\* A count elapsed_units hands out is that of the units since the last start
\* or reset, modulo the width of the counter and however upsets have hit the
\* origin's three copies, or an unrecoverable word has been counted.
THEOREM ElapsedStaysTrue == Spec => []ElapsedIsTrueOrCounted
<1>1. IInv => ElapsedIsTrueOrCounted
  BY DEF IInv, OutcomeInv
<1> QED  BY <1>1, SpecSound, PTL

\* A spin whose target lies below the wrap of the counter waits for all the
\* units it asked for, whatever the rate it converted them with.
THEOREM SpinsAreLongEnough == Spec => []SpinBelowTheWrapIsLongEnough
<1>1. IInv => SpinBelowTheWrapIsLongEnough
  BY DEF IInv, OutcomeInv
<1> QED  BY <1>1, SpecSound, PTL
-----------------------------------------------------------------------------
(* The drift.                                                              *)

\* The counter does not run all the way round in a session, though it may
\* wrap, and a rate measured with all a call can lose is still a 64-bit number.
BoundedWindow == MaxTicks * Rate < Limit /\ TrueHz + Rate * MaxGap < Limit

\* The window's origin of the counter was read at most a preemption before its
\* origin of the clock.
TogetherInv ==
  \E read \in 0 .. now :
    /\ window.units = CounterAt(read)
    /\ read <= window.ns /\ window.ns <= read + MaxGap

DriftInv == TogetherInv /\ DriftBlamesTheRate

\* A rate r measured with n units of time for d, of which neither is more than
\* m off the other and d is at least s, is r a unit up to m times.
LEMMA QuotientIsNear ==
  ASSUME NEW d \in Nat \ {0}, NEW s \in Nat \ {0}, s <= d, NEW r \in Nat, NEW m \in Nat,
         NEW n \in Nat, n <= d + m, d <= n + m
  PROVE  ((n * r) * s) \div d \in r * s - r * m .. r * s + r * m
<1> DEFINE T == r * s
           k == r * m
           q == ((n * r) * s) \div d
<1>1. T \in Nat /\ k \in Nat /\ n * T \in Nat /\ (n * r) * s = n * T
  BY ProductIsNat
<1>2. m * T \in Nat /\ k * d \in Nat /\ k * s \in Nat /\ m * T = k * s /\ k * s <= k * d
  <2>1. m * T = k * s
    OBVIOUS
  <2> HIDE DEF T, k
  <2>2. s * k <= d * k
    BY <1>1, ProductGrows
  <2> QED  BY <1>1, <2>1, <2>2, ProductIsNat
<1>3. q = (n * T) \div d
  BY <1>1
<1> HIDE DEF T, k, q
<1>4. /\ q \in Nat
      /\ q * d <= n * T
      /\ n * T < (q + 1) * d
  BY <1>1, <1>3, QuotientBounds
<1>5. q <= T + k
  <2>1. n * T <= (d + m) * T
    BY <1>1, ProductGrows
  <2>2. (d + m) * T = d * T + m * T /\ (T + k) * d = d * T + k * d
    BY <1>1
  <2>3. d * T \in Nat /\ q * d \in Nat /\ (T + k) * d \in Nat
    BY <1>1, <1>4, ProductIsNat
  <2>4. ~((T + k) * d < q * d)
    BY <1>1, <1>2, <1>4, <2>1, <2>2, <2>3
  <2> QED  BY <1>1, <1>4, <2>4, ProductIsLess
<1>6. T < q + 1 + k
  <2>1. d * T <= (n + m) * T
    BY <1>1, ProductGrows
  <2>2. (n + m) * T = n * T + m * T /\ ((q + 1) + k) * d = (q + 1) * d + k * d
    BY <1>1, <1>4
  <2>3. d * T \in Nat /\ (q + 1) * d \in Nat /\ d * T = T * d
    BY <1>1, <1>4, ProductIsNat
  <2>4. T * d < ((q + 1) + k) * d
    BY <1>1, <1>2, <1>4, <2>1, <2>2, <2>3
  <2> QED  BY <1>1, <1>4, <2>4, ProductCancels
<1>7. q \in T - k .. T + k
  BY <1>1, <1>4, <1>5, <1>6
<1> QED  BY <1>7 DEF T, k, q

\* What the drift window is measured to.
LEMMA InstantIsNear ==
  ASSUME BoundedWindow, NEW read \in Nat, NEW from \in Nat, NEW t \in Nat, NEW at \in Nat,
         read <= t, read <= from, from <= read + MaxGap, t <= at, at <= t + MaxGap,
         t <= MaxTicks, NanosPerSecond <= at - from
  PROVE  ((WrappingSub(CounterAt(t), CounterAt(read)) * NanosPerSecond)
            \div (at - from)) % Limit
           \in TrueHz - Rate * MaxGap .. TrueHz + Rate * MaxGap
<1>1. /\ Limit \in Nat \ {0} /\ Rate \in Nat /\ NanosPerSecond \in Nat \ {0} /\ MaxGap \in Nat
      /\ MaxTicks \in Nat /\ TrueHz = Rate * NanosPerSecond /\ TrueHz \in Nat
  BY TimeAssumption, ChronometerAssumption DEF Times
<1>2. PICK n \in Nat : n = t - read
  BY <1>1
<1>3. PICK d \in Nat \ {0} : d = at - from
  BY <1>1
<1>4. n * Rate \in Nat /\ n * Rate < Limit
  <2>1. n <= MaxTicks
    BY <1>1, <1>2
  <2>2. n * Rate <= MaxTicks * Rate /\ n * Rate \in Nat /\ MaxTicks * Rate \in Nat
    BY <1>1, <2>1, ProductGrows, ProductIsNat
  <2> QED  BY <1>1, <2>2 DEF BoundedWindow
<1>5. WrappingSub(CounterAt(t), CounterAt(read)) = n * Rate
  <2>1. read \in 0 .. t
    OBVIOUS
  <2>2. WrappingSub(CounterAt(t), CounterAt(read)) = (n * Rate) % Limit
    BY <1>2, <2>1, ElapsedIsTrue
  <2> QED  BY <1>1, <1>4, <2>2
<1>6. n <= d + MaxGap /\ d <= n + MaxGap
  BY <1>1, <1>2, <1>3
<1> DEFINE q == ((n * Rate) * NanosPerSecond) \div d
           k == Rate * MaxGap
<1>7. q \in TrueHz - k .. TrueHz + k
  BY <1>1, <1>3, <1>6, QuotientIsNear
<1>8. q \in Nat /\ k \in Nat
  BY <1>1, <1>4, ProductIsNat, QuotientBounds
<1>9. TrueHz + k < Limit
  BY DEF BoundedWindow
<1> HIDE DEF q, k
<1>10. q % Limit = q
  BY <1>1, <1>7, <1>8, <1>9
<1> QED  BY <1>3, <1>5, <1>7, <1>10 DEF q, k

LEMMA DriftInit == Init => DriftInv
<1> SUFFICES ASSUME Init PROVE DriftInv
  OBVIOUS
<1>1. window = [units |-> CounterAt(0), ns |-> 0] /\ now = 0 /\ drift = NoDrift
  BY DEF Init
<1>2. MaxGap \in Nat
  BY ChronometerAssumption
<1> QED  BY <1>1, <1>2 DEF DriftInv, TogetherInv, DriftBlamesTheRate

\* Time that passes changes no window.
LEMMA TogetherKept ==
  ASSUME TogetherInv, window' = window, now \in Nat, now' \in Nat, now <= now'
  PROVE  TogetherInv'
<1>1. PICK read \in 0 .. now : /\ window.units = CounterAt(read)
                               /\ read <= window.ns /\ window.ns <= read + MaxGap
  BY DEF TogetherInv
<1>2. read \in 0 .. now'
  BY <1>1
<1> QED  BY <1>1, <1>2 DEF TogetherInv, CounterAt, CounterAfter, Limit

\* Nor is it together any less when both its origins are taken.
LEMMA TakenTogether ==
  ASSUME NEW gap \in 0 .. MaxGap, now \in Nat, now' = now + gap,
         window' = WindowFrom(now, now')
  PROVE  TogetherInv'
<1>1. gap \in Nat /\ gap <= MaxGap /\ MaxGap \in Nat
  BY ChronometerAssumption
<1>2. now \in 0 .. now' /\ now <= now' /\ now' <= now + MaxGap
  BY <1>1
<1>3. window'.units = CounterAt(now) /\ window'.ns = now'
  BY DEF WindowFrom
<1> QED  BY <1>2, <1>3 DEF TogetherInv, CounterAt, CounterAfter, Limit

LEMMA DriftStep == BoundedWindow /\ IInv /\ DriftInv /\ [Next]_vars => DriftInv'
<1> SUFFICES ASSUME BoundedWindow, IInv, DriftInv, [Next]_vars PROVE DriftInv'
  OBVIOUS
<1>0. /\ now \in Nat /\ MaxTicks \in Nat /\ MaxGap \in Nat /\ TogetherInv /\ DriftBlamesTheRate
      /\ now <= MaxTicks
  BY TimeAssumption, ChronometerAssumption DEF IInv, ReportInv, DriftInv
<1>1. ASSUME UNCHANGED <<window, drift>>, now' \in Nat, now <= now'
      PROVE  DriftInv'
  BY <1>0, <1>1, TogetherKept DEF DriftInv, DriftBlamesTheRate
<1>2. CASE Tick
  BY <1>0, <1>1, <1>2 DEF Tick
<1>3. CASE Calibrate
  <2>1. PICK c \in Calibrations : now' = now + c.took /\ UNCHANGED <<window, drift>>
    BY <1>3 DEF Calibrate
  <2>2. c.took \in Nat
    BY <2>1, CalibrationIsSound
  <2> QED  BY <1>0, <1>1, <2>1, <2>2
<1>4. CASE VerifyCalibration
  BY <1>0, <1>1, <1>4 DEF VerifyCalibration
<1>5. ASSUME NEW gap \in 0 .. MaxGap, Rebase(gap), drift' \in {drift, NoDrift}
      PROVE  DriftInv'
  <2>1. TogetherInv'
    BY <1>0, <1>5, TakenTogether DEF Rebase
  <2>2. DriftBlamesTheRate'
    BY <1>0, <1>5 DEF DriftBlamesTheRate
  <2> QED  BY <2>1, <2>2 DEF DriftInv
<1>6. CASE \E gap \in 0 .. MaxGap : Reset(gap) \/ Start(gap)
  BY <1>5, <1>6 DEF Reset, Start
<1>7. ASSUME NEW gap \in 0 .. MaxGap, Poll(gap)
      PROVE  DriftInv'
  <2> DEFINE due == DueAt(now')
             rate == IF due THEN Scrubbed(hz) ELSE hz
             instant == ((WrappingSub(CounterAt(now), window.units) * NanosPerSecond)
                           \div (now' - window.ns)) % Limit
  <2>1. now' = now + gap /\ gap \in Nat /\ gap <= MaxGap
    BY <1>0, <1>7 DEF Poll
  <2>2. \/ /\ due /\ window' = WindowFrom(now, now')
           /\ drift' = IF instant # 0 /\ Get(rate) # 0
                         THEN [instant |-> instant, hz |-> Get(rate)] ELSE drift
        \/ ~due /\ UNCHANGED <<window, drift>>
    BY <1>7 DEF Poll
  <2>3. CASE ~due
    BY <1>0, <1>1, <2>1, <2>2, <2>3
  <2>4. CASE due
    <3>1. TogetherInv'
      BY <1>0, <1>7, <2>1, <2>2, <2>4, TakenTogether
    <3>2. instant \in TrueHz - Rate * MaxGap .. TrueHz + Rate * MaxGap
      <4>1. PICK read \in 0 .. now : /\ window.units = CounterAt(read)
                                     /\ read <= window.ns /\ window.ns <= read + MaxGap
        BY <1>0 DEF TogetherInv
      <4>2. window.ns \in Nat
        BY DEF IInv, WindowInv
      <4>3. NanosPerSecond <= now' - window.ns
        BY <1>0, <2>1, <2>4, <4>2, TimeAssumption DEF DueAt
      <4>4. PICK from \in Nat : from = window.ns
        BY <4>2
      <4>5. PICK at \in Nat : at = now'
        BY <1>0, <2>1
      <4>6. /\ read \in Nat /\ read <= now /\ read <= from /\ from <= read + MaxGap
            /\ now <= at /\ at <= now + MaxGap /\ NanosPerSecond <= at - from
        BY <1>0, <2>1, <4>1, <4>3, <4>4, <4>5
      <4> QED  BY <1>0, <4>1, <4>4, <4>5, <4>6, InstantIsNear
    <3> HIDE DEF instant, rate
    <3>3. drift' = [instant |-> instant, hz |-> Get(rate)] \/ drift' = drift
      BY <2>2, <2>4
    <3>4. DriftBlamesTheRate'
      BY <1>0, <3>2, <3>3 DEF DriftBlamesTheRate
    <3> QED  BY <3>1, <3>4 DEF DriftInv
  <2> QED  BY <2>3, <2>4
<1>8. CASE \E ns \in 1 .. MaxSpin, gap \in 0 .. MaxGap, waited \in 0 .. MaxTicks :
             SpinNs(ns, gap, waited)
  <2>1. PICK waited \in 0 .. MaxTicks : now' = now + waited /\ UNCHANGED <<window, drift>>
    BY <1>8 DEF SpinNs
  <2> QED  BY <1>0, <1>1, <2>1
<1>9. CASE \E c \in Copies, b \in CopyBits : UpsetWord(c, b)
  BY <1>0, <1>1, <1>9 DEF UpsetWord
<1>10. CASE UNCHANGED vars
  BY <1>0, <1>1, <1>10 DEF vars
<1> QED  BY <1>2, <1>3, <1>4, <1>6, <1>7, <1>8, <1>9, <1>10 DEF Next

\* A rate measured over the drift window is the counter's own within what
\* preemption can take from a second, at whatever rate, width and boot reading,
\* in every session in which the counter does not run all the way round.
THEOREM DriftIsOfTheRate == BoundedWindow => (Spec => []DriftBlamesTheRate)
<1> SUFFICES ASSUME BoundedWindow PROVE Spec => []DriftBlamesTheRate
  OBVIOUS
<1>1. IInv /\ DriftInv /\ [Next]_vars => DriftInv'
  BY DriftStep
<1>2. DriftInv => DriftBlamesTheRate
  BY DEF DriftInv
<1> QED  BY <1>1, <1>2, DriftInit, SpecSound, PTL DEF Spec
=============================================================================
