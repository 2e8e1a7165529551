------------------------------ MODULE WallClock ------------------------------
(***************************************************************************)
(* clock.rs of the kernel: how fast the counter runs, what the time is,    *)
(* and the clock that goes on from there.  The clock chip and the counter  *)
(* go on while the kernel reads them.                                      *)
(***************************************************************************)
EXTENDS Integers, Sequences

CONSTANTS
  Hz, Lowest, Highest,     \* ticks of the counter a second; what is plausible
  AssumedCrystal,          \* of a crystal whose rate is not stated
  UnknownHz,                 \* the rate of a clock of which nothing is known
  Interval,                \* ticks the interval timer is started for
  Half, Minutes, Seconds,  \* hours in half a day, minutes in one, seconds in one
  Base, Nibble,            \* of binary coded decimals
  Tries,
  LongestStart, LongestRun \* bounds: ticks while it starts, and after

VARIABLES
  source,    \* the machine: its leaves, timer and chip, and when it starts
  code,      \* the counter
  walk,      \* what has been read
  answers    \* the clock that was started

wallVars == <<source, code, walk, answers>>

Nothing == <<>>

\* Kernels, where what is stated of the rate is so or not plausible.
Kernels ==
  {s \in [start : Nat, hyper : Seq(Nat), trusted : BOOLEAN, crystal : [hz : Nat, numerator : Nat, denominator : Nat],
          base : Nat, pit : BOOLEAN, chip : BOOLEAN, bcd : BOOLEAN, twelve : BOOLEAN] :
     LET Stated(hz) == hz \in Lowest .. Highest => hz = Hz
         c == s.crystal
     IN /\ s.hyper # Nothing => Stated(s.hyper[1])
        /\ c.hz # 0 /\ c.denominator # 0 => Stated((c.hz * c.numerator) \div c.denominator)}

Day     == 2 * Half * Minutes * Seconds * Hz \* in ticks

(***************************************************************************)
(* The chip counts on from the time it has at the start.  The last tick of *)
(* each second is the update, in which a register may have its new value   *)
(* or its old one.                                                         *)
(***************************************************************************)
Truth     == source.start + code
Updating  == Truth % Hz = Hz - 1
SecondAt(t) == t \div Hz

Field(r, t) ==
  LET s == SecondAt(t)
  IN CASE r = "day"    -> s \div (2 * Half * Minutes * Seconds)
       [] r = "hour"   -> (s \div (Minutes * Seconds)) % (2 * Half)
       [] r = "minute" -> (s \div Seconds) % Minutes
       [] r = "second" -> s % Seconds

Coded(v) == IF source.bcd THEN ((v \div Base) * Nibble) + (v % Base) ELSE v

Register(r, t) ==
  LET v == Field(r, t)
  IN IF r = "hour" /\ source.twelve
     THEN [pm |-> v >= Half, v |-> Coded(IF v % Half = 0 THEN Half ELSE v % Half)]
     ELSE [pm |-> FALSE, v |-> Coded(v)]

Shown(r) == {Register(r, Truth)} \cup (IF Updating THEN {Register(r, Truth + 1)} ELSE {})

Order == <<"day", "hour", "minute", "second">> \* "day" is the year, the month and the day

(***************************************************************************)
(* The rate: what the hypervisor says, the ratio to a crystal, the timer,  *)
(* the base frequency, or none; each if it is plausible.                   *)
(***************************************************************************)
Plausible(hz) == IF hz \in Lowest .. Highest THEN hz ELSE 0

HypervisorHz == IF source.hyper = Nothing THEN 0 ELSE Plausible(source.hyper[1])

CrystalHz ==
  LET c == source.crystal
      crystal == IF c.hz # 0 THEN c.hz ELSE IF source.base = 0 THEN 0 ELSE AssumedCrystal
  IN IF ~source.trusted \/ c.numerator = 0 \/ c.denominator = 0 THEN 0
     ELSE Plausible((crystal * c.numerator) \div c.denominator)

BaseHz == IF source.trusted THEN Plausible(source.base) ELSE 0

WallInit ==
  /\ code = 0
  /\ walk = [pc |-> "rate", hz |-> 0, from |-> "none", restarted |-> 0, start |-> 0, tries |-> 0,
             first |-> Nothing, second |-> Nothing, began |-> 0]
  /\ answers = Nothing

At(pc)   == walk.pc = pc
WallDone == answers # Nothing /\ code >= answers[1].origin + LongestRun

Rated(hz, from) == walk' = [walk EXCEPT !.hz = hz, !.from = from, !.pc = "rtc"]

AfterThePit == IF BaseHz # 0 THEN Rated(BaseHz, "base") ELSE Rated(UnknownHz, "unknown")

MeasureStated ==
  /\ At("rate")
  /\ CASE HypervisorHz # 0 -> Rated(HypervisorHz, "hypervisor")
       [] HypervisorHz = 0 /\ CrystalHz # 0 -> Rated(CrystalHz, "crystal")
       [] OTHER -> walk' = [walk EXCEPT !.pc = "restart"]
  /\ UNCHANGED <<code, answers>>

PitRestart ==
  /\ At("restart")
  /\ walk' = [walk EXCEPT !.pc = "started", !.restarted = code]
  /\ UNCHANGED <<code, answers>>

PitStart ==
  /\ At("started")
  /\ walk' = [walk EXCEPT !.pc = "poll", !.start = code]
  /\ UNCHANGED <<code, answers>>

\* One that is not there never ends, and is given up.
PitEnd ==
  /\ At("poll")
  /\ source.pit => code >= walk.restarted + Interval
  /\ LET hz == IF source.pit THEN Plausible(((code - walk.start) * Hz) \div Interval) ELSE 0
     IN IF hz # 0 THEN Rated(hz, "pit") ELSE AfterThePit
  /\ UNCHANGED <<code, answers>>

(***************************************************************************)
(* read_rtc(): two readings that agree, each begun outside an update.      *)
(***************************************************************************)
Start(date) ==
  /\ answers' = <<[hz |-> walk.hz, from |-> walk.from, origin |-> code, date |-> date]>>
  /\ walk' = [walk EXCEPT !.pc = "runs"]

NoChip == At("rtc") /\ ~source.chip /\ Start(Nothing) /\ UNCHANGED code

WaitForRtc ==
  /\ At("rtc") /\ source.chip /\ ~Updating
  /\ walk' = [walk EXCEPT !.pc = "read"]
  /\ UNCHANGED <<code, answers>>

\* Which of the two readings is being made.
Reading == IF Len(walk.first) < Len(Order) THEN "first" ELSE "second"

RawRtc ==
  /\ At("read")
  /\ \E v \in Shown(Order[Len(walk[Reading]) + 1]) :
       LET got == Append(walk[Reading], v)
       IN walk' = [walk EXCEPT ![Reading] = got,
                               !.began = IF Reading = "first" THEN code ELSE @,
                               !.pc = IF Len(got) < Len(Order) THEN "read"
                                      ELSE IF Reading = "first" THEN "rtc" ELSE "agree"]
  /\ UNCHANGED <<code, answers>>

Decoded(v) == IF source.bcd THEN ((v \div Nibble) * Base) + (v % Nibble) ELSE v

DecodedHour(r) == IF source.twelve THEN (Decoded(r.v) % Half) + (IF r.pm THEN Half ELSE 0) ELSE Decoded(r.v)

Date(read) ==
  [day |-> Decoded(read[1].v), hour |-> DecodedHour(read[2]), minute |-> Decoded(read[3].v), second |-> Decoded(read[4].v)]

IsATime(d) == d.hour < 2 * Half /\ d.minute < Minutes /\ d.second < Seconds

\* The mistake of reading once.
AgreeUnread(first, second) == TRUE

Agree(first, second) == first = second

ReadRtc ==
  /\ At("agree")
  /\ IF Agree(walk.first, walk.second) /\ IsATime(Date(walk.first)) THEN Start(<<Date(walk.first)>>)
     ELSE IF walk.tries + 1 = Tries THEN Start(Nothing)
     ELSE /\ walk' = [walk EXCEPT !.tries = @ + 1, !.first = Nothing, !.second = Nothing, !.pc = "rtc"]
          /\ UNCHANGED answers
  /\ UNCHANGED code

\* The machine goes on while the kernel reads.
Tick ==
  /\ IF answers = Nothing THEN code < LongestStart ELSE TRUE
  /\ code' = code + 1
  /\ UNCHANGED <<walk, answers>>

WallNext ==
  /\ ~WallDone
  /\ \/ MeasureStated \/ PitRestart \/ PitStart \/ PitEnd
     \/ NoChip \/ WaitForRtc \/ RawRtc \/ ReadRtc \/ Tick
  /\ UNCHANGED source

\* A start that is out of time where it needs more.
WallStalled == answers = Nothing /\ code = LongestStart

(***************************************************************************)
(* wall_ns(), where a tick of the counter is a nanosecond.                 *)
(***************************************************************************)
SecondsOfDay(d) == (d.hour * Minutes + d.minute) * Seconds + d.second

ElapsedNs(clock) == IF clock.hz = 0 THEN 0 ELSE ((code - clock.origin) * Hz) \div clock.hz

WallNs(clock) == (SecondsOfDay(clock.date[1]) * Hz + ElapsedNs(clock)) % Day

(***************************************************************************)
(* The clock is not torn: what it starts from is a time that was, between  *)
(* its two readings, or is about to be, where the second was made in an    *)
(* update.  It is not ahead of the chip by more than that update, and      *)
(* behind it by less than a second and the time it took to start - by more *)
(* only where the timer was read late and so the counter seems faster.     *)
(* This is where the rate is one that was stated, or measured by a timer   *)
(* whose start was not read late: the base frequency and the crystal that  *)
(* is assumed may be others than the counter's.                            *)
(***************************************************************************)
RateIsKnown(clock) ==
  \/ clock.from = "hypervisor"
  \/ clock.from = "crystal" /\ source.crystal.hz # 0
  \/ clock.from = "pit" /\ walk.start = walk.restarted

Update        == 1
Behind(clock) == ((Truth + Update) - WallNs(clock)) % Day

WallIsTrue ==
  answers # Nothing /\ answers[1].date # Nothing =>
    LET clock == answers[1]
        date  == clock.date[1]
    IN /\ \E t \in walk.began .. clock.origin + Update : \A r \in DOMAIN date : date[r] = Field(r, source.start + t)
       /\ RateIsKnown(clock) =>
            /\ Behind(clock) < Day \div 2
            /\ clock.hz = Hz => Behind(clock) < Hz + Update + (clock.origin - walk.began)
=============================================================================
