------------------------------ MODULE CorePmu -------------------------------
(***************************************************************************)
(* pmu.rs of the kernel and pmu_leaf.rs: the counters of the core.  What a *)
(* core says it has is not taken for what counts: a counter is programmed  *)
(* and watched before it is the route of a measurement.                    *)
(***************************************************************************)
EXTENDS Integers, Sequences

CONSTANTS
  MaxTracked,   \* MAX_TRACKED_COUNTERS
  LegacyCount,  \* K8_COUNTERS
  CoreDefault,  \* CORE_DEFAULT
  Word,         \* the values of a u64
  LongestBody   \* bound: the cycles of one piece of work

VARIABLES
  source,       \* the core: vendor, what its leaves say, and what counts
  code,         \* the counters, and the registers that were written
  walk,         \* where the kernel is
  answers       \* the measurements

pmuVars == <<source, code, walk, answers>>

(***************************************************************************)
(* CorePmu::detect().  A core is told by its vendor, and described by      *)
(* leaves that only later versions define in full.                         *)
(***************************************************************************)
NoPmu == [kind |-> "unknown", version |-> 0, general |-> 0, fixed |-> 0, width |-> 0, noCycles |-> FALSE]

Architectural ==
  IF source.maxLeaf < 10 THEN NoPmu
  ELSE [kind |-> "intel", version |-> source.version, general |-> source.general,
        fixed |-> IF source.version >= 2 THEN source.fixed ELSE 0,
        width |-> source.width, noCycles |-> source.noCycles]

AtMost(a, b) == IF a < b THEN a ELSE b

Amd ==
  IF source.extCore
  THEN [NoPmu EXCEPT !.kind = "amd", !.version = 1, !.width = source.width,
                     !.general = AtMost(IF source.stated # 0 THEN source.stated ELSE CoreDefault, MaxTracked)]
  ELSE IF source.extended
  THEN [NoPmu EXCEPT !.kind = "legacy", !.version = 1, !.width = source.width,
                     !.general = AtMost(LegacyCount, MaxTracked)]
  ELSE NoPmu

Arm == [NoPmu EXCEPT !.kind = "arm", !.version = 1, !.fixed = 1, !.width = source.width]

Leaf ==
  IF source.vendor = "intel" THEN Architectural
  ELSE IF source.vendor = "amd" THEN Amd ELSE IF source.vendor = "arm" THEN Arm ELSE NoPmu

(***************************************************************************)
(* The registers.  A counter counts if it is programmed, switched on, and  *)
(* not merely there for the look of it.                                    *)
(***************************************************************************)
Fixed(n)   == [c |-> "fixed", n |-> n]
General(n) == [c |-> "general", n |-> n]
NoRoute    == [c |-> "none", n |-> 0]
Instructions == Fixed(0)
CoreCycles   == Fixed(1)

Counters == {Fixed(n) : n \in 0 .. 2} \cup {General(n) : n \in 0 .. 1}

\* Any core, of which a piece of work does not go round a counter.
Cores ==
  {m \in [vendor : {"intel", "amd", "arm", "other"}, maxLeaf : Nat, version : Nat, general : Nat, fixed : Nat,
           width : Nat, noCycles : BOOLEAN, extCore : BOOLEAN, extended : BOOLEAN, stated : Nat,
           leftover : Nat, live : SUBSET Counters] :
     2 ^ m.width \in Nat \ (0 .. LongestBody) /\ m.leftover < 2 ^ m.width}

PmuInit ==
  /\ code = [event |-> [c \in Counters |-> "none"], value |-> [c \in Counters |-> source.leftover], written |-> {}]
  /\ walk = [pc |-> "enable", probe |-> NoRoute, route |-> NoRoute, owned |-> FALSE]
  /\ answers = <<>>

At(pc) == walk.pc = pc

CounterLimit == 2 ^ Leaf.width

Grown(c, cycles, instructions) ==
  IF c \notin source.live \/ code.event[c] = "none" THEN code.value[c]
  ELSE (code.value[c] + IF code.event[c] = "cycles" THEN cycles ELSE instructions) % CounterLimit

\* The kernel works for a while: some cycles, and no more instructions.
Worked(cycles, instructions) ==
  [code EXCEPT !.value = [c \in Counters |-> Grown(c, cycles, instructions)]]

Programmed(c, event, registers) ==
  [code EXCEPT !.event[c] = event, !.value[c] = 0, !.written = @ \cup registers]

(***************************************************************************)
(* CorePmu::enable(): each step programs a counter and goes on to watch    *)
(* it.                                                                     *)
(***************************************************************************)
Watch(c) == walk' = [walk EXCEPT !.pc = "probe", !.probe = c]

Settled(route) == walk' = [walk EXCEPT !.pc = "measure", !.route = route]

\* AMD: general counter n, if there is one.
EnableGeneral(n, event) ==
  /\ n < Leaf.general
  /\ code' = Programmed(General(n), event, {"amdEvent", "amdCounter"})
  /\ Watch(General(n))

EnableAmd ==
  /\ At("enable") /\ Leaf.kind \in {"amd", "legacy"}
  /\ \/ EnableGeneral(0, "cycles")
     \/ Leaf.general = 0 /\ Settled(NoRoute) /\ UNCHANGED code

EnableNothing == At("enable") /\ Leaf.kind = "unknown" /\ Settled(NoRoute) /\ UNCHANGED code

EventOf(n) == IF n = 0 THEN "instructions" ELSE IF n = 1 THEN "cycles" ELSE "reference"

\* All fixed counters at once, and whatever general ones are programmed.
EnableFixed ==
  /\ At("enable") /\ Leaf.kind = "intel"
  /\ code' = IF Leaf.fixed = 0 THEN code
             ELSE [code EXCEPT !.event = [c \in Counters |->
                                  IF c.c = "fixed" /\ c.n < Leaf.fixed THEN EventOf(c.n) ELSE @[c]],
                               !.written = @ \cup {"fixedControl", "globalControl", "overflow"}]
  /\ Watch(CoreCycles)

EnableArm ==
  /\ At("enable") /\ Leaf.kind = "arm"
  /\ code' = [code EXCEPT !.event[CoreCycles] = "cycles", !.written = @ \cup {"pmcr", "pmcnten"}]
  /\ Watch(CoreCycles)

\* The architectural event, which a core may say it cannot count.
EnableGeneralCycles ==
  /\ At("fallBack") /\ Leaf.general > 0 /\ ~Leaf.noCycles
  /\ code' = Programmed(General(0), "cycles", {"select", "counter", "globalControl"})
  /\ Watch(General(0))

NoGeneralCycles ==
  /\ At("fallBack") /\ (Leaf.general = 0 \/ Leaf.noCycles)
  /\ Settled(NoRoute) /\ UNCHANGED code

(***************************************************************************)
(* read_route() and counter_advances().                                    *)
(***************************************************************************)
Readable(c) ==
  \/ c.c = "fixed" /\ IF Leaf.kind = "arm" THEN c = CoreCycles ELSE c.n < Leaf.fixed
  \/ c.c = "general" /\ (Leaf.kind \in {"amd", "legacy"} \/ c.n < Leaf.general)

\* The mistake of believing what was programmed.
AdvancesUnwatched(c, before, after) == TRUE

Advances(c, before, after) == after # before

Outcome(c, ok) ==
  IF Leaf.kind \in {"amd", "legacy"} /\ c = General(0) THEN
    IF ok THEN [walk EXCEPT !.pc = "second", !.route = c] ELSE [walk EXCEPT !.pc = "measure"]
  ELSE IF Leaf.kind \in {"amd", "legacy"} THEN [walk EXCEPT !.pc = "measure", !.owned = ok]
  ELSE IF Leaf.kind = "intel" /\ c = CoreCycles /\ ~ok THEN [walk EXCEPT !.pc = "fallBack"]
  ELSE [walk EXCEPT !.pc = "measure", !.route = IF ok THEN c ELSE NoRoute]

CounterAdvances ==
  /\ At("probe")
  /\ \E cycles \in 1 .. LongestBody :
       /\ code' = Worked(cycles, cycles)
       /\ walk' = Outcome(walk.probe, Readable(walk.probe)
                            /\ Advances(walk.probe, code.value[walk.probe], code'.value[walk.probe]))

\* Instructions ride on a second counter where there is one.
EnableInstructions ==
  /\ At("second")
  /\ \/ EnableGeneral(1, "instructions")
     \/ Leaf.general <= 1 /\ Settled(walk.route) /\ UNCHANGED code

Enable ==
  /\ \/ EnableAmd \/ EnableNothing \/ EnableFixed \/ EnableArm
     \/ EnableGeneralCycles \/ NoGeneralCycles
     \/ CounterAdvances \/ EnableInstructions
  /\ UNCHANGED answers

(***************************************************************************)
(* measure(): read, work, read, subtract in 64 bits.  None if nothing      *)
(* counts.                                                                 *)
(***************************************************************************)
ReadInstructions ==
  LET c == IF Leaf.kind \in {"amd", "legacy"} THEN General(1) ELSE Instructions
  IN IF Leaf.kind = "arm" \/ ~Readable(c) \/ (c = General(1) /\ ~walk.owned) THEN NoRoute ELSE c

Measured(cycles, instructions) ==
  LET c == walk.route
      after == Worked(cycles, instructions).value
  IN [cycles |-> cycles, instructions |-> instructions, route |-> c,
      some   |-> Readable(c),
      delta  |-> IF Readable(c) THEN (after[c] - code.value[c]) % Word ELSE 0,
      second |-> ReadInstructions,
      count  |-> IF ReadInstructions = NoRoute THEN 0
                 ELSE (after[ReadInstructions] - code.value[ReadInstructions]) % Word,
      wrapped |-> \E x \in {c, ReadInstructions} \ {NoRoute} : after[x] < code.value[x]]

Measure ==
  /\ At("measure") /\ Len(answers) < 2
  /\ \E cycles \in 1 .. LongestBody : \E instructions \in {0, cycles} :
       /\ answers' = Append(answers, Measured(cycles, instructions))
       /\ code' = Worked(cycles, instructions)
  /\ UNCHANGED walk

PmuNext == (Enable \/ Measure) /\ UNCHANGED source

PmuDone == At("measure") /\ Len(answers) = 2

(***************************************************************************)
(* What is measured is the cycles of the work, whatever firmware left in   *)
(* the counters and whichever of them a hypervisor only pretends to have,  *)
(* and there is a measurement wherever a counter of cycles counts - but    *)
(* for a count that passes the width of its counter, from which the        *)
(* subtraction in 64 bits makes one near 2^64.  Instructions are those of  *)
(* the work where their counter was watched, too.  No register is written  *)
(* that the core does not have, which nothing in this kernel would handle  *)
(* - but for the global control of a core of version 1.                    *)
(***************************************************************************)
CountsCycles(c) ==
  /\ c \in source.live
  /\ \/ c = CoreCycles /\ (Leaf.kind = "arm" \/ (Leaf.kind = "intel" /\ Leaf.fixed > 1))
     \/ c = General(0) /\ Leaf.general > 0 /\ ~Leaf.noCycles

HasRegister(r) ==
  \/ r \in {"select", "counter"} /\ source.vendor = "intel" /\ source.general > 0
  \/ r \in {"fixedControl", "overflow"} /\ source.vendor = "intel" /\ source.version >= 2
  \/ r = "globalControl" /\ source.vendor = "intel"
  \/ r \in {"amdEvent", "amdCounter"} /\ source.vendor = "amd" /\ (source.extended \/ source.extCore)
  \/ r \in {"pmcr", "pmcnten"} /\ source.vendor = "arm"

MeasuresTheWork ==
  /\ \A r \in code.written : HasRegister(r)
  /\ \A k \in DOMAIN answers :
       LET m == answers[k]
       IN /\ m.some <=> \E c \in Counters : CountsCycles(c)
          /\ m.some /\ ~m.wrapped => m.delta = m.cycles
          /\ m.second = General(1) /\ ~m.wrapped => m.count = m.instructions
=============================================================================
