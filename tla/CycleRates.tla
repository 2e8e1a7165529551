----------------------------- MODULE CycleRates -----------------------------
(***************************************************************************)
(* clock.rs: measuring the rate of a route, asleep or by reading it over   *)
(* and over, on a thread that the system moves and stops where it likes.   *)
(*                                                                         *)
(* perf.rs: the cycles of a thread, summed over one event for each kind of *)
(* core, each of which the kernel may share among more events than there   *)
(* are counters.                                                           *)
(***************************************************************************)
EXTENDS Integers, Sequences

CONSTANTS
  Rate,   \* the counter's units in a nanosecond
  Cpus,
  LongestGap,   \* bound: the ticks of the whole measurement, the sleep's own beside
  Slowest, Fastest,   \* the cycles of a turn: a core's clock changes between these as it likes
  Longest   \* bound: the turns that the thread runs

VARIABLES
  source,    \* the machine, and what is asked of it
  code,      \* what the world does beside the reader
  walk,      \* where the reader is
  answers    \* what came of it

routeVars == <<source, code, walk, answers>>

\* A measurement that is asked for, of counters that need not agree.
Routes ==
  [how : {"asleep", "busy"}, route : {"counter", "cycles"}, ahead : [Cpus -> Nat],
   knowsCpu : BOOLEAN, pin : BOOLEAN, canPin : BOOLEAN, target : Cpus]

(***************************************************************************)
(* The order of the reads is all the two calibrations differ in.  The      *)
(* system's clock is read outside of the counter.                          *)
(***************************************************************************)
\* The mistake of reading the clock inside of the counter.
StepsCounterOutside(how) ==
  IF how = "asleep" THEN <<"before", "pin", "raw0", "wall0", "sleep", "wall1", "raw1", "after">>
  ELSE <<"pin", "before", "raw0", "wall0", "work", "wall1", "raw1", "after">>

Steps(how) ==
  IF how = "asleep" THEN <<"before", "pin", "wall0", "raw0", "sleep", "raw1", "wall1", "after">>
  ELSE <<"pin", "before", "wall0", "raw0", "work", "raw1", "wall1", "after">>

\* Nothing read: the CPU that the system does not know is CPU_UNKNOWN.
Unknown == 0

RouteInit ==
  /\ \E cpu \in Cpus : code = [now |-> 0, ran |-> 0, cpu |-> cpu, pinned |-> FALSE]
  /\ walk = [i |-> 1, before |-> Unknown, after |-> Unknown, wall0 |-> 0, wall1 |-> 0, raw0 |-> 0, raw1 |-> 0]
  /\ answers = <<>>

Step      == Steps(source.how)[walk.i]
RouteDone == walk.i > Len(Steps(source.how))

\* The counter of the processor, or the cycles that the thread has run.
ReadRaw ==
  IF source.route = "cycles" THEN Rate * code.ran ELSE Rate * code.now + source.ahead[code.cpu]

CurrentCpu == IF source.knowsCpu THEN code.cpu ELSE Unknown

PinThreadToCpu ==
  /\ Step = "pin"
  /\ code' = IF source.pin /\ source.canPin THEN [code EXCEPT !.cpu = source.target, !.pinned = TRUE] ELSE code
  /\ walk' = [walk EXCEPT !.i = @ + 1]

\* What a read of this step sees.
Seen ==
  IF Step \in {"before", "after"} THEN CurrentCpu ELSE IF Step \in {"wall0", "wall1"} THEN code.now ELSE ReadRaw

Read ==
  /\ Step \notin {"pin", "sleep", "work"}
  /\ walk' = [walk EXCEPT !.i = @ + 1, ![Step] = Seen]
  /\ UNCHANGED code

\* A sleep takes a while; reading for a number of samples need not.
Wait ==
  /\ Step \in {"sleep", "work"}
  /\ walk' = [walk EXCEPT !.i = @ + 1]
  /\ code' = IF Step = "sleep" THEN [code EXCEPT !.now = @ + 1] ELSE code

Tick ==
  /\ code.now < LongestGap
  /\ \E ran \in {0, IF Step = "sleep" THEN 0 ELSE 1} :
       code' = [code EXCEPT !.now = @ + 1, !.ran = @ + ran]
  /\ UNCHANGED walk

Move ==
  /\ ~code.pinned
  /\ \E cpu \in Cpus \ {code.cpu} : code' = [code EXCEPT !.cpu = cpu]
  /\ UNCHANGED walk

RouteNext ==
  /\ ~RouteDone
  /\ PinThreadToCpu \/ Read \/ Wait \/ Tick \/ Move
  /\ UNCHANGED <<source, answers>>

SaturatingSub(a, b) == IF a < b THEN 0 ELSE a - b

Units    == SaturatingSub(walk.raw1, walk.raw0)
Elapsed  == SaturatingSub(walk.wall1, walk.wall0)
Migrated == walk.before # Unknown /\ walk.after # Unknown /\ walk.before # walk.after

\* is_usable(), of a factor that is not zero.
Usable == Elapsed > 0 /\ Units > 0 /\ ~(Migrated /\ ~code.pinned)

(***************************************************************************)
(* A factor that is_usable() is never above the true rate where the        *)
(* counters of the processors agree or the thread is pinned, however it is *)
(* stopped and moved.  A thread that moves away and back between counters  *)
(* that differ is not noticed, and neither is any move where the system    *)
(* does not say where the thread is.                                       *)
(***************************************************************************)
FactorIsNeverFast ==
  (RouteDone /\ Usable /\ (code.pinned \/ \A c, d \in Cpus : source.ahead[c] = source.ahead[d]))
    => Units <= Rate * Elapsed

perfVars == <<source, code, walk, answers>>

\* A machine, of which the system lists the kinds of core if there are several.
Kinds == {"core", "atom"}
Hosts ==
  {m \in [kinds : SUBSET Kinds, listed : SUBSET Kinds, opens : SUBSET (Kinds \cup {"any"}), contended : BOOLEAN] :
     m.listed = {} => \E kind \in Kinds : m.kinds = {kind}}

(***************************************************************************)
(* cycle_event_configs(): an event for each kind that the system lists,    *)
(* else one for the only kind there is.                                    *)
(***************************************************************************)
Configs == IF source.listed = {} THEN {"any"} ELSE source.listed

Opened == {c \in Configs : c \in source.opens}

Counts(config, kind) == config = "any" \/ config = kind

NoEvent == [value |-> 0, enabled |-> 0, running |-> 0]

PerfInit ==
  /\ \E kind \in source.kinds :
       code = [kind |-> kind, seen |-> {}, turns |-> 0, cycles |-> 0, missed |-> FALSE,
               events |-> [c \in Opened |-> NoEvent]]
  /\ walk = [left |-> {}, total |-> 0, ran |-> FALSE, since |-> 0, whole |-> FALSE, reading |-> FALSE]
  /\ answers = <<>>

\* The thread runs, at any clock: every event is enabled, and those that count
\* this kind of core are running, unless they have to wait for a counter.
Run ==
  /\ code.turns < Longest
  /\ \E clock \in Slowest .. Fastest, waiting \in SUBSET (IF source.contended THEN Opened ELSE {}) :
       code' = [code EXCEPT
         !.turns = @ + 1, !.cycles = @ + clock, !.seen = @ \cup {code.kind},
         !.missed = @ \/ waiting # {},
         !.events = [c \in Opened |->
           LET e == code.events[c]
               on == c \notin waiting /\ Counts(c, code.kind)
           IN [value   |-> e.value + IF on THEN clock ELSE 0,
               enabled |-> e.enabled + 1,
               running |-> e.running + IF on THEN 1 ELSE 0]]]
  /\ UNCHANGED <<walk, answers>>

ChangeCore ==
  /\ \E kind \in source.kinds \ {code.kind} : code' = [code EXCEPT !.kind = kind]
  /\ UNCHANGED <<walk, answers>>

\* The mistake of reporting what was counted as it is.
ScaleNothing(e) == e.value

\* scale(): what the event would have counted if it had always been running.
Scale(e) == IF e.running >= e.enabled THEN e.value ELSE (e.value * e.enabled) \div e.running

(***************************************************************************)
(* PerfCycleCounter::read(): one event after the other, the thread running *)
(* on.  An event that never ran counts for nothing.                        *)
(***************************************************************************)
\* Every turn so far was counted, by the event of its kind of core.
Whole == ~code.missed /\ \A kind \in code.seen : \E c \in Opened : Counts(c, kind)

Begin ==
  /\ ~walk.reading /\ Len(answers) < 2 /\ Opened # {}
  /\ walk' = [left |-> Opened, total |-> 0, ran |-> FALSE, since |-> code.cycles, whole |-> Whole, reading |-> TRUE]
  /\ UNCHANGED <<code, answers>>

ReadEvent ==
  /\ walk.reading
  /\ \E c \in walk.left :
       LET e == code.events[c]
       IN walk' = [walk EXCEPT !.left = @ \ {c},
                               !.total = @ + IF e.running > 0 THEN Scale(e) ELSE 0,
                               !.ran = @ \/ e.running > 0]
  /\ UNCHANGED <<code, answers>>

Return ==
  /\ walk.reading /\ walk.left = {}
  /\ answers' = Append(answers,
       [some |-> walk.ran, total |-> walk.total, least |-> walk.since, most |-> code.cycles,
        whole |-> walk.whole, missed |-> code.missed, kinds |-> code.seen])
  /\ walk' = [walk EXCEPT !.reading = FALSE]
  /\ UNCHANGED code

PerfNext == (Run \/ ChangeCore \/ Begin \/ ReadEvent \/ Return) /\ UNCHANGED source

\* The thread goes on after the reads that are looked at.
PerfDone == Len(answers) = 2 \/ Opened = {}

(***************************************************************************)
(* What a thread is told that it ran is an estimate where an event had to  *)
(* wait for a counter, or the thread was on two kinds of core: of the      *)
(* cycles from before the read to after, it is off by no more than the     *)
(* clock changes, and twice that where two kinds are summed.  It is not an *)
(* estimate where every turn was counted: then no cycle is lost, and on    *)
(* one kind of core none is added and the total never goes back.  And what *)
(* has been read once can always be read.                                  *)
(***************************************************************************)
CyclesAreCounted ==
  \A k \in DOMAIN answers :
    LET a     == answers[k]
        twice == a.kinds = Kinds
        exact == ~a.missed /\ ~twice
    IN /\ a.some =>
            /\ Slowest * a.least <= Fastest * a.total
            /\ Slowest * a.total <= (IF twice THEN 2 ELSE 1) * (Fastest * a.most)
            /\ a.whole => a.least <= a.total
            /\ exact => a.total <= a.most
       /\ k > 1 /\ answers[k - 1].some => a.some /\ (exact => answers[k - 1].total <= a.total)
=============================================================================
