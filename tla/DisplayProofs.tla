---------------------------- MODULE DisplayProofs ----------------------------
(***************************************************************************)
(* Proofs about how a machine comes up, what the time is there, what is    *)
(* drawn and which devices are found (Display, with its modules            *)
(* KernelBoot, TimeSources, WallClock, Canvas and BringUp), and about the  *)
(* window that asks for the time (Desktop).  Each has its own invariant.   *)
(*                                                                         *)
(* Of a boot: what was left last is what shows.  Of a query: where the     *)
(* server asked last answers, it did so after the clock was read.  Of the  *)
(* host: one thread asks, and what it found stays.  Of the chip: the two   *)
(* readings that agree are what it showed at a moment between them.  Of    *)
(* the screen: outside the box of what changed it has what the buffer has, *)
(* and what the pointer keeps is the scene that is beneath it.  Of the     *)
(* devices: what is yet to be read, keys aside, is the answer that the     *)
(* next read is for, and what that answer says has already been decided.   *)
(***************************************************************************)
EXTENDS Display, Desktop, Integers, Sequences, FiniteSets, SequenceTheorems, WellFoundedInduction, TLAPS

(***************************************************************************)
(* Boots (main.rs, selftest.rs, progress.rs).  The screen shows the mark   *)
(* that was left last, from the first after it was attached; a line that   *)
(* was found silent stays unused.                                          *)
(***************************************************************************)
\* What is seen and heard is any picture and any text.
BootTypes ==
  /\ source \in Kernel!Boots
  /\ code = [shadow |-> code.shadow, screen |-> code.screen, heard |-> code.heard, sends |-> code.sends,
             waits |-> code.waits, calls |-> code.calls, alive |-> code.alive]
  /\ code.sends \in BOOLEAN
  /\ walk = [at |-> walk.at, live |-> walk.live, composited |-> walk.composited, stop |-> walk.stop,
             surface |-> walk.surface, pc |-> walk.pc]
  /\ walk.at \in Nat \ {0} /\ walk.live \in BOOLEAN

\* A line that takes bytes is used, and one that does not was waited for once.
LineInv ==
  /\ code.sends => walk.live
  /\ code.waits = 0 \/ (code.waits = 1 /\ ~walk.live /\ ~code.sends)
  /\ walk.pc = "stopped" /\ code.sends => "reason" \in code.heard

\* The last mark of a script up to a place, and what is shown of it.
LastMark(script, k, at) ==
  script[k].op \in {"enter", "leave"} /\ \A j \in k + 1 .. at : script[j].op \notin {"enter", "leave"}

Caption(step) == [kind |-> "boot", phase |-> step.phase, done |-> step.op = "leave"]

\* Between the marks.
MarkInv ==
  /\ walk.pc = "run" /\ source.mode # "none" => walk.at <= Len(Kernel!Script)
  /\ walk.surface => source.arch = "x86" /\ source.mode # "none" /\ walk.at >= 5
  /\ walk.pc = "run" /\ Kernel!Shows /\ walk.at > 5 /\ code.screen.kind # "interface" =>
       \E k \in 1 .. walk.at - 1 : LastMark(Kernel!Script, k, walk.at - 1) /\ code.screen = Caption(Kernel!Script[k])

HostInv == ~code.alive => source.arch = "arm" /\ source.hertz = "virtual" /\ source.host = Kernel!Nothing

BootInv == BootTypes /\ LineInv /\ MarkInv /\ HostInv

\* What the script does before it attaches the screen, and after.
Phases    == {Kernel!Nothing, "Entered", "CpuFeatures", "Pmu", "Counter", "Pci", "Hypervisor", "Acpi", "Interface"}
LateOps   == Kernel!Works \cup {"enter", "leave", "detect", "firstFrame"}
BootSteps     == [op : LateOps \cup {"serial", "backBuffer", "setFramebuffer", "attach"}, phase : Phases]
LateSteps == [op : LateOps, phase : Phases]

LEMMA ListIsSeq ==
  ASSUME NEW S, NEW n \in Nat, NEW f \in [1 .. n -> S]
  PROVE  f \in Seq(S) /\ Len(f) = n
  OBVIOUS

LEMMA BetweenIsLate ==
  ASSUME NEW p \in Phases, NEW works \in Seq(LateOps)
  PROVE  Kernel!Between(p, works) \in Seq(LateSteps)
<1>1. DOMAIN works = 1 .. Len(works) /\ Len(works) \in Nat
  OBVIOUS
<1>2. \A k \in 1 .. Len(works) : works[k] \in LateOps
  OBVIOUS
<1> DEFINE f == [k \in 1 .. Len(works) |-> Kernel!Do(works[k], p)]
<1>3. f \in [1 .. Len(works) -> LateSteps]
  BY <1>2 DEF Kernel!Do, LateSteps
<1>4. Kernel!Between(p, works) = f
  BY <1>1 DEF Kernel!Between
<1> HIDE DEF f
<1>. QED
  BY <1>1, <1>3, <1>4, ListIsSeq

LEMMA OneIsLate ==
  ASSUME NEW p \in Phases, NEW o \in LateOps
  PROVE  <<Kernel!Do(o, p)>> \in Seq(LateSteps)
<1>1. Kernel!Do(o, p) \in LateSteps
  BY DEF Kernel!Do, LateSteps
<1>. QED
  BY <1>1

LEMMA PhaseIsLate ==
  ASSUME NEW p \in Phases, NEW works \in Seq(LateOps)
  PROVE  Kernel!Phase(p, works) \in Seq(LateSteps)
<1>1. [k \in DOMAIN works |-> Kernel!Do(works[k], p)] \in Seq(LateSteps)
  BY BetweenIsLate DEF Kernel!Between
<1>2. <<Kernel!Do("enter", p)>> \in Seq(LateSteps) /\ <<Kernel!Do("leave", p)>> \in Seq(LateSteps)
  BY OneIsLate DEF LateOps
<1>. QED
  BY <1>1, <1>2, ConcatProperties DEF Kernel!Phase

LEMMA SelftestIsLate == Kernel!Selftest \in Seq(LateSteps)
<1>1. /\ <<"cpu">> \in Seq(LateOps) /\ <<"pmu">> \in Seq(LateOps) /\ <<"counter">> \in Seq(LateOps)
      /\ <<"usb", "namespace">> \in Seq(LateOps) /\ <<"detect">> \in Seq(LateOps) /\ <<"integrity">> \in Seq(LateOps)
  BY DEF LateOps, Kernel!Works
<1> DEFINE A == Kernel!Phase("CpuFeatures", <<"cpu">>)
           B == Kernel!Phase("Pmu", <<"pmu">>)
           C == Kernel!Phase("Counter", <<"counter">>)
           D == Kernel!Phase("Pci", <<"usb", "namespace">>)
           E == Kernel!Phase("Hypervisor", <<"detect">>)
           F == Kernel!Between("Hypervisor", <<"integrity">>)
<1>2. A \in Seq(LateSteps) /\ B \in Seq(LateSteps) /\ C \in Seq(LateSteps)
  BY <1>1, PhaseIsLate DEF Phases
<1>3. D \in Seq(LateSteps) /\ E \in Seq(LateSteps) /\ F \in Seq(LateSteps)
  BY <1>1, PhaseIsLate, BetweenIsLate DEF Phases
<1>4. Kernel!Selftest = A \o B \o C \o D \o E \o F
  BY DEF Kernel!Selftest
<1> HIDE DEF A, B, C, D, E, F
<1>. QED
  BY <1>2, <1>3, <1>4, ConcatProperties

LEMMA InterfaceIsLate == Kernel!Interface \in Seq(LateSteps)
<1>1. /\ <<"clock">> \in Seq(LateOps) /\ <<"power">> \in Seq(LateOps)
      /\ <<"pmu", "overhead", "detect">> \in Seq(LateOps)
  BY DEF LateOps, Kernel!Works
<1> DEFINE A == Kernel!Between("Hypervisor", <<"clock">>)
           B == Kernel!Phase("Acpi", <<"power">>)
           C == Kernel!Between("Acpi", <<"pmu", "overhead", "detect">>)
           D == <<Kernel!Do("enter", "Interface"), Kernel!Do("firstFrame", "Interface"), Kernel!Do("input", "Interface")>>
<1>2. A \in Seq(LateSteps) /\ B \in Seq(LateSteps) /\ C \in Seq(LateSteps)
  BY <1>1, PhaseIsLate, BetweenIsLate DEF Phases
<1>3. /\ Kernel!Do("enter", "Interface") \in LateSteps /\ Kernel!Do("firstFrame", "Interface") \in LateSteps
      /\ Kernel!Do("input", "Interface") \in LateSteps
  BY DEF Kernel!Do, LateSteps, LateOps, Kernel!Works, Phases
<1>4. D \in Seq(LateSteps)
  BY <1>3
<1>5. Kernel!Interface = A \o B \o C \o D
  BY DEF Kernel!Interface
<1> HIDE DEF A, B, C, D
<1>. QED
  BY <1>2, <1>4, <1>5, ConcatProperties

\* A kernel with a screen attaches it at its fourth step, says so at its fifth, and never attaches it again.
LEMMA TheScript ==
  ASSUME source \in Kernel!Boots, source.mode # "none"
  PROVE  /\ Len(Kernel!Script) \in Nat /\ Len(Kernel!Script) >= 5
         /\ Kernel!Script[4].op = "attach" /\ Kernel!Script[5].op = "leave"
         /\ \A k \in 1 .. Len(Kernel!Script) : k # 4 => Kernel!Script[k].op # "attach"
<1> DEFINE S == Kernel!Selftest
           I == Kernel!Interface
           P == Kernel!Prologue
<1>1. S \in Seq(LateSteps) /\ I \in Seq(LateSteps)
  BY SelftestIsLate, InterfaceIsLate
<1>2. Kernel!Script = P \o S \o I
  <2>1. source.arch # "arm"
    BY DEF Kernel!Boots
  <2>. QED
    BY <2>1, Zenon DEF Kernel!Script
<1>3. /\ Kernel!Do("serial", "nothing") \in BootSteps /\ Kernel!Do("backBuffer", "nothing") \in BootSteps
      /\ Kernel!Do("setFramebuffer", "nothing") \in BootSteps /\ Kernel!Do("attach", "nothing") \in BootSteps
      /\ Kernel!Do("leave", "Entered") \in BootSteps
  BY DEF Kernel!Do, BootSteps, LateOps, Phases, Kernel!Nothing
<1>4. Len(P) = 5 /\ P \in Seq(BootSteps)
  BY <1>3 DEF Kernel!Prologue, Kernel!Nothing
<1>5. P[4].op = "attach" /\ P[5].op = "leave" /\ P[1].op # "attach" /\ P[2].op # "attach" /\ P[3].op # "attach"
  BY DEF Kernel!Prologue, Kernel!Do, Kernel!Nothing
<1> HIDE DEF S, I, P
<1>6. LateSteps \subseteq BootSteps /\ \A s \in LateSteps : s.op # "attach"
  BY DEF LateSteps, BootSteps, LateOps, Kernel!Works
<1> DEFINE L == S \o I
<1>7. L \in Seq(LateSteps)
  BY <1>1, ConcatProperties
<1>8. S \in Seq(BootSteps) /\ I \in Seq(BootSteps) /\ L \in Seq(BootSteps)
  BY <1>1, <1>6, <1>7, SeqMonotonic
<1>9. Kernel!Script = P \o L
  BY <1>2, <1>4, <1>8, ConcatAssociative
<1> HIDE DEF L
<1>10. /\ Len(Kernel!Script) = 5 + Len(L) /\ Len(L) \in Nat
       /\ \A k \in 1 .. 5 + Len(L) : Kernel!Script[k] = IF k <= 5 THEN P[k] ELSE L[k - 5]
  <2>1. Len(L) \in Nat
    BY <1>8, LenProperties
  <2>2. /\ Len(P \o L) = Len(P) + Len(L)
        /\ \A k \in 1 .. Len(P) + Len(L) : (P \o L)[k] = IF k <= Len(P) THEN P[k] ELSE L[k - Len(P)]
    BY <1>4, <1>8, ConcatProperties
  <2>. QED
    BY <1>4, <1>9, <2>1, <2>2
<1>11. ASSUME NEW k \in 6 .. Len(Kernel!Script) PROVE Kernel!Script[k].op # "attach"
  <2>1. k - 5 \in 1 .. Len(L) /\ Kernel!Script[k] = L[k - 5]
    BY <1>10
  <2>2. L[k - 5] \in LateSteps
    BY <2>1, <1>7, ElementOfSeq
  <2>. QED
    BY <2>1, <2>2, <1>6
<1>12. \A k \in 1 .. Len(Kernel!Script) : k = 1 \/ k = 2 \/ k = 3 \/ k = 4 \/ k = 5 \/ k \in 6 .. Len(Kernel!Script)
  BY <1>10
<1>13. \A k \in 1 .. 5 : Kernel!Script[k] = P[k]
  BY <1>10
<1>. QED
  BY <1>5, <1>10, <1>11, <1>12, <1>13

LEMMA BootStarts == Kernel!BootInit /\ source \in Kernel!Boots => BootInv
<1> SUFFICES ASSUME Kernel!BootInit, source \in Kernel!Boots PROVE BootInv
  OBVIOUS
<1>1. BootTypes
  BY DEF BootTypes, Kernel!BootInit, Kernel!Boots
<1>2. source.mode # "none" => 1 <= Len(Kernel!Script)
  BY TheScript
<1>3. LineInv /\ HostInv
  BY DEF LineInv, HostInv, Kernel!BootInit
<1>4. MarkInv
  BY <1>2 DEF MarkInv, Kernel!BootInit, Kernel!Shows
<1>. QED
  BY <1>1, <1>3, <1>4 DEF BootInv

\* The screen is attached at the fourth step, and what is done at the fifth shows that it is.
LEMMA AttachIsFourth ==
  ASSUME BootInv, walk.pc = "run", source.mode # "none", Kernel!Now.op = "attach"
  PROVE  walk.at = 4
<1>1. walk.at \in 1 .. Len(Kernel!Script)
  BY TheScript DEF BootInv, BootTypes, MarkInv
<1>. QED
  BY <1>1, TheScript DEF Kernel!Now, BootInv, BootTypes

\* What is said leaves all else, and the line is as it was.
LEMMA SaidIs ==
  ASSUME BootTypes, LineInv, NEW text, NEW told, told = Kernel!Said(code, text)
  PROVE  /\ told = [code EXCEPT !.heard = told.heard, !.waits = told.waits]
         /\ told.heard = IF walk.live /\ code.sends THEN code.heard \cup {text} ELSE code.heard
         /\ told.waits = IF walk.live /\ ~code.sends THEN 1 ELSE code.waits
         /\ told.screen = code.screen /\ told.sends = code.sends /\ told.alive = code.alive /\ told.shadow = code.shadow
         /\ told.calls = code.calls
<1>1. CASE ~walk.live
  BY <1>1 DEF BootTypes, Kernel!Said
<1>2. CASE walk.live /\ code.sends
  BY <1>2 DEF BootTypes, Kernel!Said
<1>3. CASE walk.live /\ ~code.sends
  <2>1. told = [code EXCEPT !.waits = @ + 1] /\ code.waits = 0
    BY <1>3 DEF Kernel!Said, LineInv
  <2>2. told = [code EXCEPT !.waits = 1]
    BY <2>1
  <2>. QED
    BY <1>3, <2>2 DEF BootTypes
<1>. QED
  BY <1>1, <1>2, <1>3 DEF BootTypes

\* The script is of the machine.
LEMMA ScriptStays ==
  ASSUME source' = source
  PROVE  Kernel!Script' = Kernel!Script
  BY DEF Kernel!Script, Kernel!Prologue, Kernel!Selftest, Kernel!Interface, Kernel!Phase, Kernel!Between, Kernel!Do, Kernel!Nothing

\* A step that goes on leaves the rest of the place as it was.
LEMMA GoesOn ==
  ASSUME BootInv, source' = source, walk.pc = "run", NEW next, Kernel!Goes(next),
         next = [at |-> walk.at, live |-> next.live, composited |-> next.composited, stop |-> next.stop,
                 surface |-> next.surface, pc |-> next.pc],
         next.live \in BOOLEAN
  PROVE  /\ walk' = [at |-> walk.at + 1, live |-> next.live, composited |-> next.composited, stop |-> next.stop,
                     surface |-> next.surface, pc |-> IF walk.at = Len(Kernel!Script) THEN "end" ELSE "run"]
         /\ walk'.at \in Nat \ {0}
         /\ walk'.pc = "run" /\ source'.mode # "none" => walk'.at <= Len(Kernel!Script')
<1>1. walk.at \in Nat \ {0}
  BY DEF BootInv, BootTypes
<1>2. walk' = [at |-> walk.at + 1, live |-> next.live, composited |-> next.composited, stop |-> next.stop,
               surface |-> next.surface, pc |-> IF walk.at = Len(Kernel!Script) THEN "end" ELSE "run"]
  <2>1. next.at = walk.at
    OBVIOUS
  <2>2. walk' = [next EXCEPT !.at = walk.at + 1, !.pc = IF walk.at = Len(Kernel!Script) THEN "end" ELSE "run"]
    BY <2>1 DEF Kernel!Goes
  <2>. QED
    BY <2>2
<1>3. source.mode # "none" => Len(Kernel!Script) \in Nat /\ walk.at <= Len(Kernel!Script)
  BY TheScript DEF BootInv, BootTypes, MarkInv
<1>4. Kernel!Script' = Kernel!Script
  BY ScriptStays
<1>. QED
  BY <1>1, <1>2, <1>3, <1>4

\* A step that is no mark and draws nothing leaves the last mark on the screen.
LEMMA QuietStep ==
  ASSUME BootInv, source' = source, code'.screen = code.screen, walk.pc = "run",
         Kernel!Now.op \notin {"enter", "leave"}, walk'.at = walk.at + 1, walk'.surface = walk.surface,
         walk'.pc = "run" /\ source'.mode # "none" => walk'.at <= Len(Kernel!Script')
  PROVE  MarkInv'
<1>1. walk.at \in Nat \ {0} /\ source \in Kernel!Boots
  BY DEF BootInv, BootTypes
<1>2. walk.surface => source.arch = "x86" /\ source.mode # "none" /\ walk.at >= 5
  BY DEF BootInv, MarkInv
<1>3. walk.surface => walk.at # 5
  BY <1>1, <1>2, TheScript DEF Kernel!Now
<1>4. ASSUME walk'.pc = "run", Kernel!Shows', walk'.at > 5, code'.screen.kind # "interface"
      PROVE  \E k \in 1 .. walk'.at - 1 : LastMark(Kernel!Script', k, walk'.at - 1) /\ code'.screen = Caption(Kernel!Script'[k])
  <2>1. Kernel!Shows /\ walk.surface
    BY <1>4 DEF Kernel!Shows
  <2>2. PICK k \in 1 .. walk.at - 1 : LastMark(Kernel!Script, k, walk.at - 1) /\ code.screen = Caption(Kernel!Script[k])
    BY <1>1, <1>2, <1>3, <1>4, <2>1 DEF BootInv, MarkInv
  <2>3. LastMark(Kernel!Script, k, walk.at)
    <3>1. \A j \in k + 1 .. walk.at : j = walk.at \/ j \in k + 1 .. walk.at - 1
      BY <1>1
    <3>. QED
      BY <2>2, <3>1 DEF LastMark, Kernel!Now
  <2>4. walk'.at - 1 = walk.at /\ k \in 1 .. walk'.at - 1
    BY <1>1
  <2>. QED
    BY <2>2, <2>3, <2>4, ScriptStays
<1>. QED
  BY <1>1, <1>2, <1>4 DEF MarkInv, LastMark, Caption

\* A mark is shown where there is a surface for it.
LEMMA MarkStep ==
  ASSUME BootInv, source' = source, walk.pc = "run", Kernel!Now.op \in {"enter", "leave"},
         Kernel!Shows => code'.screen = [kind |-> "boot", phase |-> Kernel!Now.phase, done |-> Kernel!Now.op = "leave"],
         walk'.at = walk.at + 1, walk'.surface = walk.surface,
         walk'.pc = "run" /\ source'.mode # "none" => walk'.at <= Len(Kernel!Script')
  PROVE  MarkInv'
<1>1. walk.at \in Nat \ {0} /\ source \in Kernel!Boots
  BY DEF BootInv, BootTypes
<1>2. walk.surface => source.arch = "x86" /\ source.mode # "none" /\ walk.at >= 5
  BY DEF BootInv, MarkInv
<1>3. ASSUME Kernel!Shows'
      PROVE  \E k \in 1 .. walk'.at - 1 : LastMark(Kernel!Script', k, walk'.at - 1) /\ code'.screen = Caption(Kernel!Script'[k])
  <2>1. walk'.at - 1 = walk.at /\ walk.at \in 1 .. walk'.at - 1
    BY <1>1
  <2>2. LastMark(Kernel!Script, walk.at, walk.at)
    BY <1>1 DEF LastMark, Kernel!Now
  <2>3. Kernel!Shows
    BY <1>3 DEF Kernel!Shows
  <2>4. code'.screen = Caption(Kernel!Script[walk.at])
    BY <2>3 DEF Kernel!Now, Caption
  <2>. QED
    BY <2>1, <2>2, <2>4, ScriptStays
<1>. QED
  BY <1>1, <1>2, <1>3 DEF MarkInv, LastMark, Caption
\* What is left as it was is of the right kind.
LEMMA PlaceShape ==
  ASSUME BootTypes
  PROVE  /\ walk = [at |-> walk.at, live |-> walk.live, composited |-> walk.composited, stop |-> walk.stop,
                    surface |-> walk.surface, pc |-> walk.pc]
         /\ walk.live \in BOOLEAN /\ code.sends \in BOOLEAN /\ Kernel!Live(code) \in BOOLEAN
  BY DEF BootTypes, Kernel!Live

\* Saying something, and remembering whether the line takes it.
LEMMA SayingKeeps ==
  ASSUME BootTypes, LineInv, HostInv, source' = source, NEW text, NEW told, told = Kernel!Said(code, text),
         code' = told, walk'.pc = "run" \/ walk'.pc = "end",
         walk'.live = Kernel!Live(code) \/ walk'.live = (walk.live /\ Kernel!Live(code))
  PROVE  LineInv' /\ HostInv'
<1>1. code'.sends = code.sends /\ code'.alive = code.alive /\ code'.waits = IF walk.live /\ ~code.sends THEN 1 ELSE code.waits
  BY SaidIs
<1>2. code.sends \in BOOLEAN /\ walk.live \in BOOLEAN
  BY DEF BootTypes
<1>. QED
  BY <1>1, <1>2 DEF LineInv, HostInv, Kernel!Live

LEMMA ToldShape ==
  ASSUME BootTypes, LineInv, NEW text, NEW told, told = Kernel!Said(code, text)
  PROVE  /\ told = [shadow |-> told.shadow, screen |-> told.screen, heard |-> told.heard, sends |-> told.sends,
                    waits |-> told.waits, calls |-> told.calls, alive |-> told.alive]
         /\ told.sends \in BOOLEAN
<1>1. told = [code EXCEPT !.heard = told.heard, !.waits = told.waits] /\ told.sends = code.sends
  BY SaidIs
<1>. QED
  BY <1>1 DEF BootTypes

\* A step that says something and goes on.
LEMMA SayStep ==
  ASSUME BootInv, source' = source, walk.pc = "run", Kernel!Now.op \notin {"enter", "leave"}, NEW text,
         code' = Kernel!Said(code, text), NEW live, live = Kernel!Live(code) \/ live = (walk.live /\ Kernel!Live(code)),
         Kernel!Goes([walk EXCEPT !.live = live])
  PROVE  BootInv'
<1> DEFINE told == Kernel!Said(code, text)
           next == [walk EXCEPT !.live = live]
<1>1. code' = told /\ Kernel!Goes(next)
  OBVIOUS
<1>2. BootTypes /\ LineInv /\ HostInv
  BY DEF BootInv
<1>3. next = [at |-> walk.at, live |-> live, composited |-> walk.composited, stop |-> walk.stop,
              surface |-> walk.surface, pc |-> walk.pc] /\ live \in BOOLEAN
  BY <1>2, PlaceShape
<1> HIDE DEF next
<1>4. /\ walk' = [at |-> walk.at + 1, live |-> live, composited |-> walk.composited, stop |-> walk.stop,
                  surface |-> walk.surface, pc |-> IF walk.at = Len(Kernel!Script) THEN "end" ELSE "run"]
      /\ walk'.at \in Nat \ {0}
      /\ walk'.pc = "run" /\ source'.mode # "none" => walk'.at <= Len(Kernel!Script')
  BY <1>1, <1>3, GoesOn
<1> HIDE DEF told
<1>5. code'.screen = code.screen
  <2>1. told.screen = code.screen
    BY <1>2, SaidIs DEF told
  <2>. QED
    BY <1>1, <2>1
<1>6. LineInv' /\ HostInv'
  BY <1>1, <1>2, <1>4, SayingKeeps DEF told
<1>7. MarkInv'
  BY <1>1, <1>4, <1>5, QuietStep
<1>8. BootTypes'
  BY <1>1, <1>2, <1>3, <1>4, ToldShape DEF BootTypes, told
<1>. QED
  BY <1>6, <1>7, <1>8 DEF BootInv

LEMMA SerialStep ==
  ASSUME BootInv, source' = source, Kernel!SerialInit
  PROVE  BootInv'
<1>1. walk.pc = "run" /\ Kernel!Now.op = "serial" /\ code' = Kernel!Said(code, "booted")
      /\ Kernel!Goes([walk EXCEPT !.live = Kernel!Live(code)])
  BY DEF Kernel!SerialInit, Kernel!Running, Kernel!At
<1>. QED
  BY <1>1, SayStep

\* A step that changes nothing but what is attached, and is not the attaching of the screen.
LEMMA StillStep ==
  ASSUME BootInv, source' = source, walk.pc = "run", Kernel!Now.op \notin {"enter", "leave"}, UNCHANGED code,
         NEW composited, NEW stop, Kernel!Goes([walk EXCEPT !.composited = composited, !.stop = stop])
  PROVE  BootInv'
<1> DEFINE next == [walk EXCEPT !.composited = composited, !.stop = stop]
<1>2. BootTypes /\ LineInv /\ HostInv
  BY DEF BootInv
<1>3. next = [at |-> walk.at, live |-> walk.live, composited |-> composited, stop |-> stop,
              surface |-> walk.surface, pc |-> walk.pc] /\ walk.live \in BOOLEAN
  <2> DEFINE w == [walk EXCEPT !.composited = composited]
  <2>1. w = [at |-> walk.at, live |-> walk.live, composited |-> composited, stop |-> walk.stop,
              surface |-> walk.surface, pc |-> walk.pc] /\ walk.live \in BOOLEAN
    BY <1>2, PlaceShape
  <2>2. next = [w EXCEPT !.stop = stop]
    OBVIOUS
  <2> HIDE DEF w, next
  <2>. QED
    BY <2>1, <2>2
<1>4. Kernel!Goes(next)
  OBVIOUS
<1> HIDE DEF next
<1>5. /\ walk' = [at |-> walk.at + 1, live |-> walk.live, composited |-> composited, stop |-> stop,
                  surface |-> walk.surface, pc |-> IF walk.at = Len(Kernel!Script) THEN "end" ELSE "run"]
      /\ walk'.at \in Nat \ {0}
      /\ walk'.pc = "run" /\ source'.mode # "none" => walk'.at <= Len(Kernel!Script')
  BY <1>3, <1>4, GoesOn
<1>6. LineInv' /\ HostInv'
  BY <1>2, <1>5 DEF LineInv, HostInv
<1>7. MarkInv'
  BY <1>5, QuietStep
<1>8. BootTypes'
  BY <1>2, <1>5 DEF BootTypes
<1>. QED
  BY <1>6, <1>7, <1>8 DEF BootInv

\* As if both were set to what they are.
LEMMA SameIsSet == BootInv => walk = [walk EXCEPT !.composited = walk.composited, !.stop = walk.stop]
  BY DEF BootInv, BootTypes

LEMMA BufferStep ==
  ASSUME BootInv, source' = source, Kernel!AttachBackBuffer \/ Kernel!SetFramebuffer
  PROVE  BootInv'
<1>1. walk.pc = "run" /\ Kernel!Now.op \in {"backBuffer", "setFramebuffer"} /\ UNCHANGED code
  BY DEF Kernel!AttachBackBuffer, Kernel!SetFramebuffer, Kernel!Running, Kernel!At
<1>2. \E composited, stop : Kernel!Goes([walk EXCEPT !.composited = composited, !.stop = stop])
  <2>1. CASE Kernel!AttachBackBuffer
    <3> DEFINE b == source.mode \in {"fits", "tiny"}
    <3>1. [walk EXCEPT !.composited = b] = [walk EXCEPT !.composited = b, !.stop = walk.stop]
      BY DEF BootInv, BootTypes
    <3>. QED
      BY <2>1, <3>1, Zenon DEF Kernel!AttachBackBuffer
  <2>2. CASE Kernel!SetFramebuffer
    <3> DEFINE b == source.mode # "none"
    <3>1. [walk EXCEPT !.stop = b] = [walk EXCEPT !.composited = walk.composited, !.stop = b]
      BY DEF BootInv, BootTypes
    <3>. QED
      BY <2>2, <3>1, Zenon DEF Kernel!SetFramebuffer
  <2>. QED
    BY <2>1, <2>2
<1>. QED
  BY <1>1, <1>2, StillStep

LEMMA AttachStep ==
  ASSUME BootInv, source' = source, Kernel!AttachProgress
  PROVE  BootInv'
<1> DEFINE b    == source.mode # "none"
           next == [walk EXCEPT !.surface = b]
<1>1. walk.pc = "run" /\ Kernel!Now.op = "attach" /\ UNCHANGED code /\ Kernel!Goes(next)
  BY DEF Kernel!AttachProgress, Kernel!Running, Kernel!At
<1>2. BootTypes /\ LineInv /\ HostInv
  BY DEF BootInv
<1>3. next = [at |-> walk.at, live |-> walk.live, composited |-> walk.composited, stop |-> walk.stop,
              surface |-> b, pc |-> walk.pc] /\ walk.live \in BOOLEAN
  BY <1>2, PlaceShape
<1> HIDE DEF next
<1>5. /\ walk' = [at |-> walk.at + 1, live |-> walk.live, composited |-> walk.composited, stop |-> walk.stop,
                  surface |-> b, pc |-> IF walk.at = Len(Kernel!Script) THEN "end" ELSE "run"]
      /\ walk'.at \in Nat \ {0}
      /\ walk'.pc = "run" /\ source'.mode # "none" => walk'.at <= Len(Kernel!Script')
  BY <1>1, <1>3, GoesOn
<1>6. LineInv' /\ HostInv'
  BY <1>1, <1>2, <1>5 DEF LineInv, HostInv
<1>7. source.mode # "none" => walk'.at = 5 /\ source.arch = "x86"
  BY <1>1, <1>2, <1>5, AttachIsFourth DEF BootTypes, Kernel!Boots
<1>8. MarkInv'
  <2>0. walk'.surface = b
    <3> HIDE DEF b
    <3>. QED
      BY <1>5
  <2>1. walk'.surface => source'.arch = "x86" /\ source'.mode # "none" /\ walk'.at >= 5
    <3>1. CASE source.mode = "none"
      BY <2>0, <3>1, Zenon
    <3>2. CASE source.mode # "none"
      BY <1>7, <3>2
    <3>. QED
      BY <3>1, <3>2
  <2>2. Kernel!Shows' => ~(walk'.at > 5)
    <3>1. CASE source.mode = "none"
      BY <2>0, <3>1, Zenon DEF Kernel!Shows
    <3>2. CASE source.mode # "none"
      BY <1>7, <3>2
    <3>. QED
      BY <3>1, <3>2
  <2>. QED
    BY <1>5, <2>1, <2>2 DEF MarkInv
<1>9. BootTypes'
  BY <1>1, <1>2, <1>5 DEF BootTypes
<1>. QED
  BY <1>6, <1>8, <1>9 DEF BootInv

\* What is presented is what was drawn.
LEMMA UpdateShows ==
  ASSUME BootTypes, NEW phase, NEW done, NEW c, c = Kernel!Update(code, phase, done)
  PROVE  /\ c = [code EXCEPT !.shadow = c.shadow, !.screen = [kind |-> "boot", phase |-> phase, done |-> done]]
  BY DEF BootTypes, Kernel!Update, Kernel!Present, Kernel!Drawn

LEMMA MarksStep ==
  ASSUME BootInv, source' = source, Kernel!Enter \/ Kernel!Leave
  PROVE  BootInv'
<1> DEFINE picture == [kind |-> "boot", phase |-> Kernel!Now.phase, done |-> Kernel!Now.op = "leave"]
<1>1. walk.pc = "run" /\ Kernel!Now.op \in {"enter", "leave"} /\ Kernel!Goes(walk)
  BY DEF Kernel!Enter, Kernel!Leave, Kernel!Running, Kernel!At
<1>2. BootTypes /\ LineInv /\ HostInv
  BY DEF BootInv
<1>3. /\ code' = [code EXCEPT !.shadow = code'.shadow, !.screen = code'.screen]
      /\ Kernel!Shows => code'.screen = picture
  <2>1. CASE Kernel!Shows
    <3>1. CASE Kernel!Enter
      <4>1. code' = Kernel!Update(code, Kernel!Now.phase, FALSE) /\ Kernel!Now.op = "enter"
        BY <2>1, <3>1 DEF Kernel!Enter, Kernel!Running, Kernel!Show
      <4>2. code' = [code EXCEPT !.shadow = code'.shadow, !.screen = [kind |-> "boot", phase |-> Kernel!Now.phase, done |-> FALSE]]
        BY <1>2, <4>1, UpdateShows
      <4>3. code' = [shadow |-> code'.shadow, screen |-> [kind |-> "boot", phase |-> Kernel!Now.phase, done |-> FALSE],
                     heard |-> code.heard, sends |-> code.sends, waits |-> code.waits, calls |-> code.calls, alive |-> code.alive]
        BY <1>2, <4>2 DEF BootTypes
      <4>. QED
        BY <1>2, <4>1, <4>2, <4>3
    <3>2. CASE Kernel!Leave
      <4>1. code' = Kernel!Update(code, Kernel!Now.phase, TRUE) /\ Kernel!Now.op = "leave"
        BY <2>1, <3>2 DEF Kernel!Leave, Kernel!Running, Kernel!Show
      <4>2. code' = [code EXCEPT !.shadow = code'.shadow, !.screen = [kind |-> "boot", phase |-> Kernel!Now.phase, done |-> TRUE]]
        BY <1>2, <4>1, UpdateShows
      <4>3. code' = [shadow |-> code'.shadow, screen |-> [kind |-> "boot", phase |-> Kernel!Now.phase, done |-> TRUE],
                     heard |-> code.heard, sends |-> code.sends, waits |-> code.waits, calls |-> code.calls, alive |-> code.alive]
        BY <1>2, <4>2 DEF BootTypes
      <4>. QED
        BY <1>2, <4>1, <4>2, <4>3
    <3>. QED
      BY <3>1, <3>2
  <2>2. CASE ~Kernel!Shows
    <3>1. code' = code
      BY <2>2 DEF Kernel!Enter, Kernel!Leave, Kernel!Show
    <3>. QED
      BY <1>2, <2>2, <3>1 DEF BootTypes
  <2>. QED
    BY <2>1, <2>2
<1> HIDE DEF picture
<1>4. walk = [at |-> walk.at, live |-> walk.live, composited |-> walk.composited, stop |-> walk.stop,
              surface |-> walk.surface, pc |-> walk.pc] /\ walk.live \in BOOLEAN
  BY <1>2, PlaceShape
<1>5. /\ walk' = [at |-> walk.at + 1, live |-> walk.live, composited |-> walk.composited, stop |-> walk.stop,
                  surface |-> walk.surface, pc |-> IF walk.at = Len(Kernel!Script) THEN "end" ELSE "run"]
      /\ walk'.at \in Nat \ {0}
      /\ walk'.pc = "run" /\ source'.mode # "none" => walk'.at <= Len(Kernel!Script')
  BY <1>1, <1>4, GoesOn
<1>6. MarkInv'
  BY <1>1, <1>3, <1>5, MarkStep DEF picture
<1>7. /\ code' = [shadow |-> code'.shadow, screen |-> code'.screen, heard |-> code.heard, sends |-> code.sends,
                  waits |-> code.waits, calls |-> code.calls, alive |-> code.alive]
  BY <1>2, <1>3 DEF BootTypes
<1>8. LineInv' /\ HostInv'
  BY <1>2, <1>5, <1>7 DEF LineInv, HostInv
<1>9. BootTypes'
  BY <1>2, <1>5, <1>7 DEF BootTypes
<1>. QED
  BY <1>6, <1>8, <1>9 DEF BootInv

LEMMA FrameStep ==
  ASSUME BootInv, source' = source, Kernel!FirstFrame
  PROVE  BootInv'
<1>1. walk.pc = "run" /\ Kernel!Now.op = "firstFrame" /\ Kernel!Goes(walk)
  BY DEF Kernel!FirstFrame, Kernel!Running, Kernel!At
<1>2. BootTypes /\ LineInv /\ HostInv
  BY DEF BootInv
<1>3. /\ code' = [code EXCEPT !.shadow = code'.shadow, !.screen = code'.screen]
      /\ code'.screen.kind = "interface"
  BY <1>2 DEF BootTypes, Kernel!FirstFrame, Kernel!Present, Kernel!Drawn
<1>4. walk = [at |-> walk.at, live |-> walk.live, composited |-> walk.composited, stop |-> walk.stop,
              surface |-> walk.surface, pc |-> walk.pc] /\ walk.live \in BOOLEAN
  BY <1>2, PlaceShape
<1>5. /\ walk' = [at |-> walk.at + 1, live |-> walk.live, composited |-> walk.composited, stop |-> walk.stop,
                  surface |-> walk.surface, pc |-> IF walk.at = Len(Kernel!Script) THEN "end" ELSE "run"]
      /\ walk'.at \in Nat \ {0}
      /\ walk'.pc = "run" /\ source'.mode # "none" => walk'.at <= Len(Kernel!Script')
  BY <1>1, <1>4, GoesOn
<1>6. MarkInv'
  BY <1>2, <1>3, <1>5 DEF BootInv, BootTypes, MarkInv, Kernel!Shows
<1>7. /\ code' = [shadow |-> code'.shadow, screen |-> code'.screen, heard |-> code.heard, sends |-> code.sends,
                  waits |-> code.waits, calls |-> code.calls, alive |-> code.alive]
  BY <1>2, <1>3 DEF BootTypes
<1>8. LineInv' /\ HostInv'
  BY <1>2, <1>5, <1>7 DEF LineInv, HostInv
<1>9. BootTypes'
  BY <1>2, <1>5, <1>7 DEF BootTypes
<1>. QED
  BY <1>6, <1>8, <1>9 DEF BootInv

\* A host is asked where it answers - but for an ARM machine without one.
LEMMA DetectStep ==
  ASSUME BootInv, source' = source, Kernel!Detect
  PROVE  BootInv'
<1> DEFINE said == Kernel!Said(code, "detect")
           told == IF Kernel!Quiet THEN code ELSE said
           live == walk.live /\ (Kernel!Quiet \/ Kernel!Live(code))
           next == [walk EXCEPT !.live = live, !.pc = "run"]
<1>1. walk.pc = "run" /\ Kernel!Now.op = "detect" /\ Kernel!Goes(next)
  BY DEF Kernel!Detect, Kernel!Running, Kernel!At
<1>2. BootTypes /\ LineInv /\ HostInv
  BY DEF BootInv
<1>3. next = [at |-> walk.at, live |-> live, composited |-> walk.composited, stop |-> walk.stop,
              surface |-> walk.surface, pc |-> "run"] /\ live \in BOOLEAN
  <2> HIDE DEF live
  <2> DEFINE w == [walk EXCEPT !.live = live]
  <2>1. w = [at |-> walk.at, live |-> live, composited |-> walk.composited, stop |-> walk.stop,
              surface |-> walk.surface, pc |-> walk.pc]
    BY <1>2, PlaceShape
  <2>2. next = [w EXCEPT !.pc = "run"]
    BY DEF next
  <2>3. live \in BOOLEAN
    BY DEF live
  <2> HIDE DEF w
  <2>. QED
    BY <2>1, <2>2, <2>3
<1> HIDE DEF next
<1>4. /\ walk' = [at |-> walk.at + 1, live |-> live, composited |-> walk.composited, stop |-> walk.stop,
                  surface |-> walk.surface, pc |-> IF walk.at = Len(Kernel!Script) THEN "end" ELSE "run"]
      /\ walk'.at \in Nat \ {0}
      /\ walk'.pc = "run" /\ source'.mode # "none" => walk'.at <= Len(Kernel!Script')
  <2>1. next = [at |-> walk.at, live |-> next.live, composited |-> next.composited, stop |-> next.stop,
                surface |-> next.surface, pc |-> next.pc] /\ next.live \in BOOLEAN
    BY <1>3
  <2>. QED
    BY <1>1, <1>3, <2>1, GoesOn
<1> DEFINE calls == told.calls + Kernel!Hypercalls
           alive == Kernel!Hypercalls > 0 => source.host # Kernel!Nothing
<1>5. code' = [told EXCEPT !.calls = calls, !.alive = alive]
  BY DEF Kernel!Detect
<1>6. ~alive => source.arch = "arm" /\ source.hertz = "virtual" /\ source.host = Kernel!Nothing
  <2>1. ~alive => source.host = Kernel!Nothing /\ Kernel!Hypercalls > 0
    OBVIOUS
  <2>2. Kernel!Hypercalls > 0 => IF source.arch = "arm" THEN source.hertz = "virtual" ELSE source.signature = "kvm"
    BY DEF Kernel!Hypercalls
  <2>3. source.arch # "arm" /\ source.signature = "kvm" => source.host # Kernel!Nothing
    BY <1>2 DEF BootTypes, Kernel!Boots, Kernel!Nothing
  <2>. QED
    BY <2>1, <2>2, <2>3
<1> HIDE DEF calls, alive
<1>7. /\ code' = [shadow |-> told.shadow, screen |-> told.screen, heard |-> told.heard, sends |-> told.sends,
                  waits |-> told.waits, calls |-> calls, alive |-> alive]
      /\ told.sends \in BOOLEAN
  <2>1. /\ told = [shadow |-> told.shadow, screen |-> told.screen, heard |-> told.heard, sends |-> told.sends,
                  waits |-> told.waits, calls |-> told.calls, alive |-> told.alive]
        /\ told.sends \in BOOLEAN
    <3>1. /\ said = [shadow |-> said.shadow, screen |-> said.screen, heard |-> said.heard, sends |-> said.sends,
                    waits |-> said.waits, calls |-> said.calls, alive |-> said.alive]
          /\ said.sends \in BOOLEAN
      BY <1>2, ToldShape
    <3>2. /\ code = [shadow |-> code.shadow, screen |-> code.screen, heard |-> code.heard, sends |-> code.sends,
                    waits |-> code.waits, calls |-> code.calls, alive |-> code.alive]
          /\ code.sends \in BOOLEAN
      BY <1>2 DEF BootTypes
    <3>3. told = said \/ told = code
      OBVIOUS
    <3> HIDE DEF told, said
    <3>. QED
      BY <3>1, <3>2, <3>3
  <2> HIDE DEF told
  <2>. QED
    BY <1>5, <2>1
<1>8. /\ told.screen = code.screen /\ told.sends = code.sends
      /\ IF Kernel!Quiet THEN told.waits = code.waits /\ live = walk.live
         ELSE /\ told.waits = IF walk.live /\ ~code.sends THEN 1 ELSE code.waits
              /\ live = (walk.live /\ Kernel!Live(code))
  <2>1. /\ said.screen = code.screen /\ said.sends = code.sends
        /\ said.waits = IF walk.live /\ ~code.sends THEN 1 ELSE code.waits
    BY <1>2, SaidIs
  <2>2. walk.live \in BOOLEAN /\ Kernel!Live(code) \in BOOLEAN
    BY <1>2, PlaceShape
  <2> HIDE DEF said
  <2>. QED
    BY <2>1, <2>2
<1> HIDE DEF told, said, live
<1>9. LineInv'
  BY <1>2, <1>4, <1>7, <1>8, PlaceShape DEF LineInv, Kernel!Live
<1>10. HostInv'
  BY <1>6, <1>7 DEF HostInv
<1>11. MarkInv'
  BY <1>1, <1>4, <1>7, <1>8, QuietStep
<1>12. BootTypes'
  BY <1>2, <1>3, <1>4, <1>7 DEF BootTypes
<1>. QED
  BY <1>9, <1>10, <1>11, <1>12 DEF BootInv

LEMMA WorkStep ==
  ASSUME BootInv, source' = source, Kernel!Work
  PROVE  BootInv'
<1>1. walk.pc = "run" /\ Kernel!Now.op \notin {"enter", "leave"}
  BY DEF Kernel!Work, Kernel!Works, Kernel!At
<1>2. CASE UNCHANGED code /\ Kernel!Goes(walk)
  <2>1. Kernel!Goes([walk EXCEPT !.composited = walk.composited, !.stop = walk.stop])
    BY <1>2, SameIsSet
  <2>. QED
    BY <1>1, <1>2, <2>1, StillStep
<1>3. CASE code' = Kernel!Said(code, Kernel!Now.op) /\ Kernel!Goes([walk EXCEPT !.live = walk.live /\ Kernel!Live(code)])
  BY <1>1, <1>3, SayStep
<1>. QED
  BY <1>2, <1>3, Zenon DEF Kernel!Work

\* BootSteps that do not go on in the script.
LEMMA StopStep ==
  ASSUME BootInv, source' = source, Kernel!Stop
  PROVE  BootInv'
<1> DEFINE told == Kernel!Said(code, "reason")
<1>1. BootTypes /\ LineInv /\ HostInv
  BY DEF BootInv
<1>2. walk' = [at |-> walk.at, live |-> walk.live /\ Kernel!Live(code), composited |-> walk.composited, stop |-> walk.stop,
               surface |-> walk.surface, pc |-> "stopped"]
  <2>1. walk' = [walk EXCEPT !.pc = "stopped", !.live = walk.live /\ Kernel!Live(code)]
    BY DEF Kernel!Stop
  <2>. QED
    BY <1>1, <2>1 DEF BootTypes
<1>3. code' = told \/ code' = Kernel!Drawn(told, [kind |-> "stop", phase |-> Kernel!Nothing, done |-> FALSE])
  BY DEF Kernel!Stop
<1>4. /\ told = [shadow |-> told.shadow, screen |-> told.screen, heard |-> told.heard, sends |-> told.sends,
                 waits |-> told.waits, calls |-> told.calls, alive |-> told.alive]
  BY <1>1, ToldShape
<1>5. /\ told.sends = code.sends /\ told.alive = code.alive
      /\ told.heard = IF walk.live /\ code.sends THEN code.heard \cup {"reason"} ELSE code.heard
      /\ told.waits = IF walk.live /\ ~code.sends THEN 1 ELSE code.waits
  BY <1>1, SaidIs
<1> HIDE DEF told
<1>6. code' = [shadow |-> code'.shadow, screen |-> code'.screen, heard |-> told.heard, sends |-> told.sends,
               waits |-> told.waits, calls |-> told.calls, alive |-> told.alive]
  BY <1>3, <1>4 DEF Kernel!Drawn
<1>7. walk.live \in BOOLEAN /\ code.sends \in BOOLEAN
  BY <1>1 DEF BootTypes
<1>8. LineInv'
  BY <1>1, <1>2, <1>5, <1>6, <1>7 DEF LineInv, Kernel!Live
<1>9. HostInv'
  BY <1>1, <1>5, <1>6 DEF HostInv
<1>10. MarkInv'
  BY <1>2 DEF BootInv, MarkInv
<1>11. BootTypes'
  BY <1>1, <1>2, <1>5, <1>6, <1>7 DEF BootTypes, Kernel!Live
<1>. QED
  BY <1>8, <1>9, <1>10, <1>11 DEF BootInv

LEMMA WedgeStep ==
  ASSUME BootInv, source' = source, Kernel!Wedge
  PROVE  BootInv'
<1>1. code' = [code EXCEPT !.sends = FALSE] /\ code.sends /\ walk' = walk
  BY DEF Kernel!Wedge
<1>2. code' = [shadow |-> code.shadow, screen |-> code.screen, heard |-> code.heard, sends |-> FALSE,
               waits |-> code.waits, calls |-> code.calls, alive |-> code.alive]
  BY <1>1 DEF BootInv, BootTypes
<1>3. MarkInv'
  BY <1>1, <1>2, ScriptStays DEF BootInv, MarkInv, Kernel!Shows
<1>4. BootTypes' /\ LineInv' /\ HostInv'
  BY <1>1, <1>2 DEF BootInv, BootTypes, LineInv, HostInv
<1>. QED
  BY <1>3, <1>4 DEF BootInv

LEMMA BootStutter == BootInv /\ UNCHANGED <<source, code, walk>> => BootInv'
<1> SUFFICES ASSUME BootInv, UNCHANGED <<source, code, walk>> PROVE BootInv'
  OBVIOUS
<1>1. MarkInv'
  BY ScriptStays DEF BootInv, MarkInv, Kernel!Shows
<1>2. BootTypes' /\ LineInv' /\ HostInv'
  BY DEF BootInv, BootTypes, LineInv, HostInv
<1>. QED
  BY <1>1, <1>2 DEF BootInv

\* Every step keeps it.
LEMMA BootStep == BootInv /\ Kernel!BootNext => BootInv'
<1> SUFFICES ASSUME BootInv, Kernel!BootNext PROVE BootInv'
  OBVIOUS
<1>1. source' = source
  BY DEF Kernel!BootNext
<1>2. Kernel!WaitForChoice \/ Kernel!EndOfScript => UNCHANGED <<source, code, walk>>
  BY <1>1 DEF Kernel!WaitForChoice, Kernel!EndOfScript
<1>. QED
  BY <1>1, <1>2, SerialStep, BufferStep, AttachStep, MarksStep, FrameStep, DetectStep, WorkStep, StopStep, WedgeStep, BootStutter
    DEF Kernel!BootNext

\* By it, a boot can be placed.
LEMMA BootPlaced == BootInv => Kernel!BootCanBePlaced
<1> SUFFICES ASSUME BootInv PROVE Kernel!BootCanBePlaced
  OBVIOUS
<1>1. ASSUME walk.pc = "run", Kernel!Shows, Kernel!Now.op \in Kernel!Works \cup {"detect"}, code.screen.kind # "interface"
      PROVE  \E k \in 1 .. walk.at :
               /\ Kernel!IsTheLastMark(k, walk.at)
               /\ code.screen = [kind |-> "boot", phase |-> Kernel!Script[k].phase, done |-> Kernel!Script[k].op = "leave"]
  <2>1. source.mode # "none" /\ walk.at >= 5 /\ walk.at \in Nat /\ source \in Kernel!Boots
    BY <1>1 DEF BootInv, BootTypes, MarkInv, Kernel!Shows
  <2>2. Kernel!Now.op \notin {"enter", "leave"}
    BY <1>1 DEF Kernel!Works
  <2>3. walk.at > 5
    BY <2>1, <2>2, TheScript DEF Kernel!Now
  <2>4. PICK k \in 1 .. walk.at - 1 : LastMark(Kernel!Script, k, walk.at - 1) /\ code.screen = Caption(Kernel!Script[k])
    BY <1>1, <2>3 DEF BootInv, MarkInv
  <2>5. \A j \in k + 1 .. walk.at : j = walk.at \/ j \in k + 1 .. walk.at - 1
    BY <2>1
  <2>6. Kernel!IsTheLastMark(k, walk.at)
    BY <2>2, <2>4, <2>5 DEF LastMark, Kernel!IsTheLastMark, Kernel!Marks, Kernel!Now
  <2>7. k \in 1 .. walk.at
    BY <2>1
  <2>. QED
    BY <2>4, <2>6, <2>7 DEF Caption
<1>2. code.waits <= 1
  BY DEF BootInv, LineInv
<1>. QED
  BY <1>1, <1>2 DEF BootInv, LineInv, HostInv, Kernel!BootCanBePlaced, Kernel!At

(***************************************************************************)
(* Queries (ntp.rs).  A reply has been made at some moment since its       *)
(* request; one of the server that is asked, since the clock was read.     *)
(***************************************************************************)
Replies == [from : Nat, kind : Times!Kinds, sent : Int, stamp : Int]

Sampled == [ok : {TRUE}, delay : Int, reply : Replies, asked : Int, offset : Int, steady : BOOLEAN, behind : Int]

\* When the clock was read, by a clock that nobody sets.
AskedAt == walk.t1 - walk.step

QueryTypes ==
  /\ source \in Times!Queries
  /\ code = [now |-> code.now, step |-> code.step, asked |-> code.asked, replies |-> code.replies, inbox |-> code.inbox]
  /\ code.now \in Int /\ source.start <= code.now /\ code.now <= source.start + LongestQuery
  /\ code.step \in Int /\ code.asked \subseteq Nat
  /\ code.replies \in Seq(Replies) /\ code.inbox \in Seq(Replies)
  /\ walk = [pc |-> walk.pc, i |-> walk.i, t1 |-> walk.t1, step |-> walk.step, packet |-> walk.packet]
  /\ walk.i \in Nat /\ walk.t1 \in Int /\ walk.step \in Int

Waits == walk.pc = "recv"

\* A reply to a query q that may be read by `now`, where server i is asked, or to be: of whom, and made when.
IsSound(reply, q, i, waits, askedAt, now) ==
  /\ reply.kind # "silent"
  /\ reply.from <= i /\ (reply.from = i => waits)
  /\ \E s \in q.start .. now :
       /\ reply.stamp = Times!NtpTimestamp(s + q.ahead)
       /\ reply.from = i => s >= askedAt

AllSound(queue, q, i, waits, askedAt, now) == \A k \in 1 .. Len(queue) : IsSound(queue[k], q, i, waits, askedAt, now)

NetInv ==
  walk.pc # "done" =>
    /\ walk.pc \in {"send", "recv"} => AskedAt <= code.now /\ AskedAt >= source.start
    /\ \A i \in code.asked : i <= walk.i /\ (i = walk.i => Waits)
    /\ AllSound(code.replies, source, walk.i, Waits, AskedAt, code.now)
    /\ AllSound(code.inbox, source, walk.i, Waits, AskedAt, code.now)

SampleInv ==
  /\ walk.pc # "done" => answers = <<>>
  /\ Times!OffsetIsWithinItsUncertainty

QueryInv == QueryTypes /\ NetInv /\ SampleInv

LEMMA QueryNumbers ==
  ASSUME source \in Times!Queries
  PROVE  /\ source.start \in Nat /\ source.ahead \in Int /\ source.steps \subseteq Int
         /\ source.start + source.ahead >= 0 /\ source.start + LongestQuery + source.ahead < Era
         /\ Era \in Nat /\ Delta \in Nat /\ LongestQuery \in Nat /\ Delta < Era
  BY TimeAssumption DEF Times!Queries

\* A stamp that is a time is the time it was made of.
LEMMA StampIsTime ==
  ASSUME NEW u \in Nat, u < Era, Era \in Nat, Delta \in Nat, Delta < Era,
         Times!NtpTimestampToUnix(Times!NtpTimestamp(u)) # 0
  PROVE  Times!NtpTimestampToUnix(Times!NtpTimestamp(u)) = u
<1>1. CASE u + Delta < Era
  <2>1. (u + Delta) % Era = u + Delta
    BY <1>1
  <2>. QED
    BY <2>1 DEF Times!NtpTimestamp, Times!NtpTimestampToUnix
<1>2. CASE u + Delta >= Era
  <2>1. (u + Delta) % Era = u + Delta - Era
    BY <1>2
  <2>2. u + Delta - Era < Delta
    OBVIOUS
  <2>. QED
    BY <2>1, <2>2 DEF Times!NtpTimestamp, Times!NtpTimestampToUnix
<1>. QED
  BY <1>1, <1>2

\* Half of what a query took.
LEMMA HalfIs ==
  ASSUME NEW d \in Nat
  PROVE  d \div 2 \in Nat /\ 2 * (d \div 2) <= d /\ d <= 2 * (d \div 2) + 1
  OBVIOUS

\* The middle of the query is as near the moment of the reply as half of it.
LEMMA MiddleIsNear ==
  ASSUME NEW asked \in Int, NEW now \in Int, NEW s \in Int, NEW step \in Int, NEW ahead \in Int,
         asked <= s, s <= now
  PROVE  2 * Times!Abs((s + ahead) - Times!Midpoint(asked + step, now + step) - (ahead - step)) <= (now - asked) + 1
<1> DEFINE d == now - asked
           h == d \div 2
<1>1. d \in Nat
  OBVIOUS
<1>2. h \in Nat /\ 2 * h <= d /\ d <= 2 * h + 1
  BY <1>1, HalfIs
<1>3. (now + step) - (asked + step) = d
  OBVIOUS
<1>4. Times!Midpoint(asked + step, now + step) = asked + step + h
  BY <1>3 DEF Times!Midpoint
<1> HIDE DEF h
<1>5. (s + ahead) - (asked + step + h) - (ahead - step) = s - asked - h
  BY <1>2
<1>6. s - asked - h \in Int /\ 2 * (s - asked - h) <= d + 1 /\ 2 * (-(s - asked - h)) <= d + 1
  BY <1>2
<1>. QED
  BY <1>4, <1>5, <1>6 DEF Times!Abs

\* To the next address, all replies are late.
LEMMA AllAreLate ==
  ASSUME NEW q, NEW i \in Nat, NEW waits, NEW askedAt, NEW now, NEW queue \in Seq(Replies), AllSound(queue, q, i, waits, askedAt, now),
         NEW waits2, NEW askedAt2
  PROVE  AllSound(queue, q, i + 1, waits2, askedAt2, now)
<1> SUFFICES ASSUME NEW k \in 1 .. Len(queue) PROVE IsSound(queue[k], q, i + 1, waits2, askedAt2, now)
  BY DEF AllSound
<1>0. queue[k] \in Replies
  BY ElementOfSeq
<1>1. IsSound(queue[k], q, i, waits, askedAt, now) /\ queue[k].from \in Nat
  BY <1>0 DEF AllSound, Replies
<1>2. queue[k].from <= i + 1 /\ queue[k].from # i + 1
  BY <1>1 DEF IsSound
<1>. QED
  BY <1>1, <1>2 DEF IsSound

\* Time goes on while an answer is waited for.
LEMMA AllStaySound ==
  ASSUME NEW q, NEW i \in Nat, NEW waits, NEW askedAt \in Int, NEW now \in Int, NEW now2 \in Int, q.start \in Int,
         NEW queue, AllSound(queue, q, i, waits, askedAt, now),
         now2 >= now
  PROVE  AllSound(queue, q, i, waits, askedAt, now2)
<1> SUFFICES ASSUME NEW k \in 1 .. Len(queue) PROVE IsSound(queue[k], q, i, waits, askedAt, now2)
  BY DEF AllSound
<1>1. IsSound(queue[k], q, i, waits, askedAt, now)
  BY DEF AllSound
<1>2. PICK s \in q.start .. now : queue[k].stamp = Times!NtpTimestamp(s + q.ahead) /\ (queue[k].from = i => s >= askedAt)
  BY <1>1 DEF IsSound
<1>3. s \in q.start .. now2
  BY <1>2
<1>. QED
  BY <1>1, <1>2, <1>3 DEF IsSound

\* As long as none is of the server that is asked, the clock may be read again.
LEMMA AllStayEarlier ==
  ASSUME NEW q, NEW i, NEW askedAt, NEW askedAt2, NEW now, NEW queue, AllSound(queue, q, i, FALSE, askedAt, now), NEW waits2
  PROVE  AllSound(queue, q, i, waits2, askedAt2, now)
  BY DEF AllSound, IsSound

\* One more, and one less.
LEMMA OneMore ==
  ASSUME NEW q, NEW i, NEW waits, NEW askedAt, NEW now, NEW queue \in Seq(Replies), AllSound(queue, q, i, waits, askedAt, now),
         NEW reply \in Replies, IsSound(reply, q, i, waits, askedAt, now)
  PROVE  Append(queue, reply) \in Seq(Replies) /\ AllSound(Append(queue, reply), q, i, waits, askedAt, now)
<1>1. /\ Append(queue, reply) \in Seq(Replies) /\ Len(Append(queue, reply)) = Len(queue) + 1 /\ Len(queue) \in Nat
      /\ \A k \in 1 .. Len(queue) : Append(queue, reply)[k] = queue[k]
      /\ Append(queue, reply)[Len(queue) + 1] = reply
  BY AppendProperties, LenProperties
<1>2. \A k \in 1 .. Len(queue) + 1 : k = Len(queue) + 1 \/ k \in 1 .. Len(queue)
  BY <1>1
<1>. QED
  BY <1>1, <1>2 DEF AllSound

LEMMA OneLess ==
  ASSUME NEW q, NEW i, NEW waits, NEW askedAt, NEW now, NEW queue \in Seq(Replies), AllSound(queue, q, i, waits, askedAt, now),
         queue # <<>>
  PROVE  /\ Tail(queue) \in Seq(Replies) /\ AllSound(Tail(queue), q, i, waits, askedAt, now)
         /\ Head(queue) \in Replies /\ IsSound(Head(queue), q, i, waits, askedAt, now)
<1>1. /\ Tail(queue) \in Seq(Replies) /\ Len(Tail(queue)) = Len(queue) - 1 /\ Len(queue) \in Nat \ {0}
      /\ \A k \in 1 .. Len(Tail(queue)) : Tail(queue)[k] = queue[k + 1]
      /\ Head(queue) = queue[1] /\ Head(queue) \in Replies
  BY HeadTailProperties, EmptySeq
<1>2. \A k \in 1 .. Len(queue) - 1 : k + 1 \in 1 .. Len(queue)
  BY <1>1
<1>3. 1 \in 1 .. Len(queue)
  BY <1>1
<1>. QED
  BY <1>1, <1>2, <1>3 DEF AllSound

\* Delivered once more, a reply says what it said.
LEMMA OneSent ==
  ASSUME NEW q, NEW i, NEW waits, NEW askedAt, NEW now, NEW queue \in Seq(Replies), AllSound(queue, q, i, waits, askedAt, now),
         NEW k \in 1 .. Len(queue), NEW sent \in Int
  PROVE  LET again == [queue EXCEPT ![k].sent = sent]
         IN again \in Seq(Replies) /\ AllSound(again, q, i, waits, askedAt, now)
<1> DEFINE one == [queue[k] EXCEPT !.sent = sent]
           again == [queue EXCEPT ![k] = one]
<1>1. queue[k] \in Replies
  BY ElementOfSeq
<1>2. one \in Replies /\ one.from = queue[k].from /\ one.kind = queue[k].kind /\ one.stamp = queue[k].stamp
  BY <1>1 DEF Replies
<1>3. [queue EXCEPT ![k].sent = sent] = again
  OBVIOUS
<1> HIDE DEF one
<1>4. /\ again \in Seq(Replies) /\ Len(again) = Len(queue)
      /\ \A j \in 1 .. Len(queue) : again[j] = IF j = k THEN one ELSE queue[j]
  BY <1>2, ExceptSeq
<1>5. IsSound(one, q, i, waits, askedAt, now)
  BY <1>2 DEF AllSound, IsSound
<1> HIDE DEF again
<1>6. AllSound(again, q, i, waits, askedAt, now)
  BY <1>4, <1>5 DEF AllSound
<1>. QED
  BY <1>3, <1>4, <1>6

\* What the world does.
LEMMA WorldStep ==
  ASSUME QueryInv, source' = source, Times!World
  PROVE  QueryInv'
<1>1. walk.pc # "done" /\ walk' = walk /\ answers' = answers
  BY DEF Times!World, Times!At
<1>2. /\ QueryTypes /\ source.start \in Nat /\ source.ahead \in Int /\ source.steps \subseteq Int /\ LongestQuery \in Nat
      /\ source.start \in Int
  BY QueryNumbers DEF QueryInv, QueryTypes
<1>3. /\ walk.pc \in {"send", "recv"} => AskedAt <= code.now /\ AskedAt >= source.start
      /\ \A i \in code.asked : i <= walk.i /\ (i = walk.i => Waits)
      /\ AllSound(code.replies, source, walk.i, Waits, AskedAt, code.now)
      /\ AllSound(code.inbox, source, walk.i, Waits, AskedAt, code.now)
  BY <1>1 DEF QueryInv, NetInv
<1>4. /\ code.replies \in Seq(Replies) /\ code.inbox \in Seq(Replies) /\ walk.i \in Nat /\ AskedAt \in Int
      /\ code.now \in Int /\ source.start <= code.now /\ code.asked \subseteq Nat
  BY <1>2 DEF QueryTypes, AskedAt
<1>5. AskedAt' = AskedAt /\ Waits' = Waits
  BY <1>1 DEF AskedAt, Waits
<1>6. SampleInv'
  BY <1>1 DEF QueryInv, SampleInv, Times!OffsetIsWithinItsUncertainty
<1>7. CASE \E i \in DOMAIN source.addresses : Times!Serve(i)
  <2>1. PICK i \in DOMAIN source.addresses : Times!Serve(i)
    BY <1>7
  <2> DEFINE reply == [from |-> i, kind |-> source.addresses[i].kind, sent |-> 0,
                       stamp |-> Times!NtpTimestamp(code.now + source.ahead)]
  <2>2. i \in code.asked /\ source.addresses[i].kind # "silent"
    BY <2>1 DEF Times!Serve
  <2>3. code' = [code EXCEPT !.asked = code.asked \ {i}, !.replies = Append(code.replies, reply)]
    BY <2>1 DEF Times!Serve
  <2>4. source.addresses[i].kind \in Times!Kinds
    <3>1. source.addresses \in Seq([family : {"v4", "v6"}, kind : Times!Kinds])
      BY <1>2 DEF QueryTypes, Times!Queries
    <3>2. i \in 1 .. Len(source.addresses)
      BY <2>1, <3>1, LenProperties
    <3>3. source.addresses[i] \in [family : {"v4", "v6"}, kind : Times!Kinds]
      BY <3>1, <3>2, ElementOfSeq
    <3>. QED
      BY <3>3
  <2>5. Times!NtpTimestamp(code.now + source.ahead) \in Int
    BY <1>2, <1>4, QueryNumbers DEF Times!NtpTimestamp, QueryTypes
  <2>6. reply \in Replies
    BY <1>4, <2>2, <2>4, <2>5 DEF Replies
  <2>7. IsSound(reply, source, walk.i, Waits, AskedAt, code.now)
    <3>1. i <= walk.i /\ (i = walk.i => Waits)
      BY <1>3, <2>2
    <3>2. code.now \in source.start .. code.now
      BY <1>2, <1>4
    <3>3. Waits => code.now >= AskedAt
      BY <1>3, <1>4 DEF Waits
    <3>. QED
      BY <2>2, <3>1, <3>2, <3>3 DEF IsSound
  <2> HIDE DEF reply
  <2>8. Append(code.replies, reply) \in Seq(Replies) /\ AllSound(Append(code.replies, reply), source, walk.i, Waits, AskedAt, code.now)
    BY <1>3, <1>4, <2>6, <2>7, OneMore
  <2>9. code' = [now |-> code.now, step |-> code.step, asked |-> code.asked \ {i}, replies |-> Append(code.replies, reply), inbox |-> code.inbox]
    BY <1>2, <2>3 DEF QueryTypes
  <2>10. QueryTypes'
    BY <1>1, <1>2, <1>4, <2>8, <2>9 DEF QueryTypes
  <2>11. NetInv'
    BY <1>1, <1>3, <1>5, <2>8, <2>9 DEF NetInv
  <2>. QED
    BY <1>6, <2>10, <2>11 DEF QueryInv
<1>8. CASE \E k \in DOMAIN code.replies : Times!Deliver(k)
  <2>1. PICK k \in DOMAIN code.replies : Times!Deliver(k)
    BY <1>8
  <2> DEFINE sent == code.replies[k].sent + 1
             again == [code.replies EXCEPT ![k].sent = sent]
  <2>2. code' = [code EXCEPT !.replies = again, !.inbox = Append(code.inbox, code.replies[k])]
    <3>1. code' = [code EXCEPT !.replies[k].sent = @ + 1, !.inbox = Append(@, code.replies[k])]
      BY <2>1 DEF Times!Deliver
    <3>. QED
      BY <1>2, <3>1 DEF QueryTypes
  <2>3. k \in 1 .. Len(code.replies) /\ code.replies[k] \in Replies
    BY <1>4, <2>1, ElementOfSeq, LenProperties
  <2>4. sent \in Int
    BY <2>3 DEF Replies
  <2>5. again \in Seq(Replies) /\ AllSound(again, source, walk.i, Waits, AskedAt, code.now)
    BY <1>3, <1>4, <2>3, <2>4, OneSent
  <2>6. IsSound(code.replies[k], source, walk.i, Waits, AskedAt, code.now)
    BY <1>3, <2>3 DEF AllSound
  <2>7. /\ Append(code.inbox, code.replies[k]) \in Seq(Replies)
        /\ AllSound(Append(code.inbox, code.replies[k]), source, walk.i, Waits, AskedAt, code.now)
    BY <1>3, <1>4, <2>3, <2>6, OneMore
  <2> HIDE DEF again
  <2>8. code' = [now |-> code.now, step |-> code.step, asked |-> code.asked, replies |-> again,
                 inbox |-> Append(code.inbox, code.replies[k])]
    BY <1>2, <2>2 DEF QueryTypes
  <2>9. QueryTypes'
    BY <1>1, <1>2, <1>4, <2>5, <2>7, <2>8 DEF QueryTypes
  <2>10. NetInv'
    BY <1>1, <1>3, <1>5, <2>5, <2>7, <2>8 DEF NetInv
  <2>. QED
    BY <1>6, <2>9, <2>10 DEF QueryInv
<1>9. CASE Times!Tick
  <2>1. code' = [code EXCEPT !.now = code.now + 1] /\ code.now < source.start + LongestQuery
    BY <1>9 DEF Times!Tick
  <2>2. code' = [now |-> code.now + 1, step |-> code.step, asked |-> code.asked, replies |-> code.replies, inbox |-> code.inbox]
    BY <1>2, <2>1 DEF QueryTypes
  <2>3. QueryTypes'
    <3>1. code.now + 1 \in Int /\ source.start <= code.now + 1 /\ code.now + 1 <= source.start + LongestQuery
      BY <1>2, <1>4, <2>1
    <3>. QED
      BY <1>1, <1>2, <2>2, <3>1 DEF QueryTypes
  <2>4. /\ AllSound(code.replies, source, walk.i, Waits, AskedAt, code.now + 1)
        /\ AllSound(code.inbox, source, walk.i, Waits, AskedAt, code.now + 1)
    <3>1. code.now + 1 \in Int /\ code.now + 1 >= code.now
      BY <1>4
    <3>2. AllSound(code.replies, source, walk.i, Waits, AskedAt, code.now) /\ AllSound(code.inbox, source, walk.i, Waits, AskedAt, code.now)
      BY <1>3
    <3>3. AllSound(code.replies, source, walk.i, Waits, AskedAt, code.now + 1)
      BY <1>2, <1>4, <3>1, <3>2, AllStaySound
    <3>4. AllSound(code.inbox, source, walk.i, Waits, AskedAt, code.now + 1)
      BY <1>2, <1>4, <3>1, <3>2, AllStaySound
    <3>. QED
      BY <3>3, <3>4
  <2>5. walk.pc \in {"send", "recv"} => AskedAt <= code.now + 1 /\ AskedAt >= source.start
    BY <1>3, <1>4
  <2>6. NetInv'
    BY <1>1, <1>3, <1>5, <2>2, <2>4, <2>5 DEF NetInv
  <2>. QED
    BY <1>6, <2>3, <2>6 DEF QueryInv
<1>10. CASE Times!SetClock
  <2>1. PICK step \in source.steps : code' = [code EXCEPT !.step = step]
    BY <1>10 DEF Times!SetClock
  <2>2. code' = [now |-> code.now, step |-> step, asked |-> code.asked, replies |-> code.replies, inbox |-> code.inbox]
    BY <1>2, <2>1 DEF QueryTypes
  <2>3. QueryTypes'
    BY <1>1, <1>2, <1>4, <2>2 DEF QueryTypes
  <2>4. NetInv'
    BY <1>1, <1>3, <1>5, <2>2 DEF NetInv
  <2>. QED
    BY <1>6, <2>3, <2>4 DEF QueryInv
<1>. QED
  BY <1>7, <1>8, <1>9, <1>10 DEF Times!World

\* The query fails.
LEMMA QueryEnds ==
  ASSUME QueryInv, source' = source, walk.pc # "done", NEW answer, Times!End(answer),
         code' = code \/ (\E queue \in Seq(Replies) : code' = [code EXCEPT !.inbox = queue]),
         answer.ok => /\ answer.reply.kind = "honest" /\ answer.reply.from <= answer.asked
                      /\ answer.reply.from = answer.asked /\ answer.steady =>
                           2 * Times!Abs(answer.offset - answer.behind) <= answer.delay + 1
  PROVE  QueryInv'
<1>1. QueryTypes /\ answers = <<>>
  BY DEF QueryInv, SampleInv
<1>2. walk' = [pc |-> "done", i |-> walk.i, t1 |-> walk.t1, step |-> walk.step, packet |-> walk.packet]
  BY <1>1 DEF Times!End, QueryTypes
<1>3. answers' = <<answer>>
  BY <1>1 DEF Times!End
<1>4. QueryTypes'
  <2>1. CASE code' = code
    BY <1>1, <1>2, <2>1 DEF QueryTypes
  <2>2. CASE code' # code
    <3>1. PICK queue \in Seq(Replies) : code' = [code EXCEPT !.inbox = queue]
      BY <2>2
    <3>2. code' = [now |-> code.now, step |-> code.step, asked |-> code.asked, replies |-> code.replies, inbox |-> queue]
      BY <1>1, <3>1 DEF QueryTypes
    <3>3. /\ walk'.i = walk.i /\ walk'.t1 = walk.t1 /\ walk'.step = walk.step
          /\ walk' = [pc |-> walk'.pc, i |-> walk'.i, t1 |-> walk'.t1, step |-> walk'.step, packet |-> walk'.packet]
      BY <1>2
    <3>4. /\ code'.now = code.now /\ code'.step = code.step /\ code'.asked = code.asked /\ code'.replies = code.replies
          /\ code'.inbox = queue
          /\ code' = [now |-> code'.now, step |-> code'.step, asked |-> code'.asked, replies |-> code'.replies, inbox |-> code'.inbox]
      BY <3>2
    <3>. QED
      BY <1>1, <3>1, <3>3, <3>4 DEF QueryTypes
  <2>. QED
    BY <2>1, <2>2
<1>5. NetInv'
  BY <1>2 DEF NetInv
<1>6. \A a \in {answers'[k] : k \in DOMAIN answers'} : a = answer
  BY <1>3
<1>7. SampleInv'
  BY <1>2, <1>6 DEF SampleInv, Times!OffsetIsWithinItsUncertainty
<1>. QED
  BY <1>4, <1>5, <1>7 DEF QueryInv

\* The next address is tried.
LEMMA NextStep ==
  ASSUME QueryInv, source' = source, walk.pc # "done", NEW packet, Times!NextAddress(packet),
         NEW inbox \in Seq(Replies), AllSound(inbox, source, walk.i, Waits, AskedAt, code.now),
         code' = [code EXCEPT !.inbox = inbox]
  PROVE  QueryInv'
<1>1. QueryTypes /\ answers = <<>>
  BY DEF QueryInv, SampleInv
<1>2. walk' = [pc |-> "stamp", i |-> walk.i + 1, t1 |-> walk.t1, step |-> walk.step, packet |-> packet] /\ answers' = answers
  <2>1. walk' = [walk EXCEPT !.pc = "stamp", !.i = walk.i + 1, !.packet = packet] /\ answers' = answers
    BY DEF Times!NextAddress
  <2>. QED
    BY <1>1, <2>1 DEF QueryTypes
<1>3. code' = [now |-> code.now, step |-> code.step, asked |-> code.asked, replies |-> code.replies, inbox |-> inbox]
  BY <1>1 DEF QueryTypes
<1>4. QueryTypes'
  <2>1. /\ walk'.i = walk.i + 1 /\ walk'.t1 = walk.t1 /\ walk'.step = walk.step
        /\ walk' = [pc |-> walk'.pc, i |-> walk'.i, t1 |-> walk'.t1, step |-> walk'.step, packet |-> walk'.packet]
    BY <1>2
  <2>2. /\ code'.now = code.now /\ code'.step = code.step /\ code'.asked = code.asked /\ code'.replies = code.replies
        /\ code'.inbox = inbox
        /\ code' = [now |-> code'.now, step |-> code'.step, asked |-> code'.asked, replies |-> code'.replies, inbox |-> code'.inbox]
    BY <1>3
  <2>3. walk.i + 1 \in Nat
    BY <1>1 DEF QueryTypes
  <2>. QED
    BY <1>1, <2>1, <2>2, <2>3 DEF QueryTypes
<1>5. walk.i \in Nat /\ code.replies \in Seq(Replies) /\ code.asked \subseteq Nat
  BY <1>1 DEF QueryTypes
<1>6. /\ \A i \in code.asked : i <= walk.i
      /\ AllSound(code.replies, source, walk.i, Waits, AskedAt, code.now)
  BY DEF QueryInv, NetInv
<1>7. /\ AllSound(code.replies, source, walk.i + 1, Waits', AskedAt', code.now)
      /\ AllSound(inbox, source, walk.i + 1, Waits', AskedAt', code.now)
  BY <1>5, <1>6, AllAreLate
<1>8. \A i \in code.asked : i <= walk.i + 1 /\ i # walk.i + 1
  BY <1>5, <1>6
<1>9. NetInv'
  BY <1>2, <1>3, <1>7, <1>8 DEF NetInv
<1>10. SampleInv'
  BY <1>2 DEF QueryInv, SampleInv, Times!OffsetIsWithinItsUncertainty
<1>. QED
  BY <1>4, <1>9, <1>10 DEF QueryInv

\* What the query does.
LEMMA OpenStep ==
  ASSUME QueryInv, source' = source, Times!OpenSocket
  PROVE  QueryInv'
<1>1. walk.pc = "open" /\ QueryTypes /\ code' = code
  BY DEF QueryInv, Times!OpenSocket, Times!At
<1>2. CASE source.addresses = <<>>
  <2>1. Times!End(Times!Failed) /\ ~Times!Failed.ok
    BY <1>2 DEF Times!OpenSocket, Times!Failed
  <2>. QED
    BY <1>1, <2>1, QueryEnds
<1>3. CASE source.addresses # <<>>
  <2>1. walk' = [walk EXCEPT !.pc = "stamp"] /\ answers' = answers
    BY <1>3 DEF Times!OpenSocket
  <2>2. walk' = [pc |-> "stamp", i |-> walk.i, t1 |-> walk.t1, step |-> walk.step, packet |-> walk.packet]
    BY <1>1, <2>1 DEF QueryTypes
  <2>3. QueryTypes'
    BY <1>1, <2>2 DEF QueryTypes
  <2>4. AskedAt' = AskedAt /\ ~Waits /\ ~Waits'
    BY <1>1, <2>2 DEF AskedAt, Waits
  <2>5. NetInv'
    BY <1>1, <2>2, <2>4, Zenon DEF QueryInv, NetInv, Waits
  <2>6. SampleInv'
    BY <1>1, <2>1, <2>2 DEF QueryInv, SampleInv, Times!OffsetIsWithinItsUncertainty
  <2>. QED
    BY <2>3, <2>5, <2>6 DEF QueryInv
<1>. QED
  BY <1>2, <1>3

LEMMA StampStep ==
  ASSUME QueryInv, source' = source, Times!Stamp
  PROVE  QueryInv'
<1>1. walk.pc = "stamp" /\ QueryTypes /\ code' = code /\ answers' = answers
  BY DEF QueryInv, Times!Stamp, Times!At
<1>2. walk' = [pc |-> "send", i |-> walk.i, t1 |-> code.now + code.step, step |-> code.step, packet |-> walk.packet]
  <2>1. walk' = [walk EXCEPT !.pc = "send", !.t1 = code.now + code.step, !.step = code.step]
    BY DEF Times!Stamp, Times!Wall
  <2>. QED
    BY <1>1, <2>1 DEF QueryTypes
<1>3. code.now \in Int /\ code.step \in Int
  BY <1>1 DEF QueryTypes
<1>4. QueryTypes'
  BY <1>1, <1>2, <1>3 DEF QueryTypes
<1>5. AskedAt' = code.now /\ Waits = FALSE /\ Waits' = FALSE
  BY <1>1, <1>2, <1>3 DEF AskedAt, Waits
<1>6. /\ \A i \in code.asked : i <= walk.i /\ ~(i = walk.i)
      /\ AllSound(code.replies, source, walk.i, FALSE, AskedAt, code.now)
      /\ AllSound(code.inbox, source, walk.i, FALSE, AskedAt, code.now)
  BY <1>1, <1>5, Zenon DEF QueryInv, NetInv
<1>7. /\ AllSound(code.replies, source, walk.i, Waits', AskedAt', code.now)
      /\ AllSound(code.inbox, source, walk.i, Waits', AskedAt', code.now)
  BY <1>6, AllStayEarlier
<1>8. NetInv'
  BY <1>1, <1>2, <1>3, <1>5, <1>6, <1>7 DEF NetInv, QueryTypes
<1>9. SampleInv'
  BY <1>1, <1>2 DEF QueryInv, SampleInv, Times!OffsetIsWithinItsUncertainty
<1>. QED
  BY <1>4, <1>8, <1>9 DEF QueryInv

LEMMA SendStep ==
  ASSUME QueryInv, source' = source, Times!Send
  PROVE  QueryInv'
<1>1. walk.pc = "send" /\ QueryTypes /\ Waits = FALSE
  BY DEF QueryInv, Times!Send, Times!At, Waits
<1>2. CASE Times!Address.family # source.addresses[1].family
  <2>1. Times!NextAddress(walk.packet) /\ code' = code
    BY <1>2 DEF Times!Send
  <2>2. code' = [code EXCEPT !.inbox = code.inbox] /\ code.inbox \in Seq(Replies)
    BY <1>1, <2>1 DEF QueryTypes
  <2>3. AllSound(code.inbox, source, walk.i, Waits, AskedAt, code.now)
    BY <1>1 DEF QueryInv, NetInv
  <2>. QED
    BY <1>1, <2>1, <2>2, <2>3, NextStep
<1>3. CASE Times!Address.family = source.addresses[1].family
  <2> DEFINE asked == IF walk.packet = "query" THEN code.asked \cup {walk.i} ELSE code.asked
  <2>1. walk' = [walk EXCEPT !.pc = "recv"] /\ answers' = answers /\ code' = [code EXCEPT !.asked = asked]
    BY <1>3 DEF Times!Send
  <2>2. walk' = [pc |-> "recv", i |-> walk.i, t1 |-> walk.t1, step |-> walk.step, packet |-> walk.packet]
    BY <1>1, <2>1 DEF QueryTypes
  <2>3. walk.i \in Nat /\ code.asked \subseteq Nat
    BY <1>1 DEF QueryTypes
  <2>4. asked \subseteq Nat /\ \A i \in asked : i \in code.asked \/ i = walk.i
    BY <2>3
  <2> HIDE DEF asked
  <2>5. code' = [now |-> code.now, step |-> code.step, asked |-> asked, replies |-> code.replies, inbox |-> code.inbox]
    BY <1>1, <2>1 DEF QueryTypes
  <2>6. QueryTypes'
    BY <1>1, <2>2, <2>4, <2>5 DEF QueryTypes
  <2>7. AskedAt' = AskedAt /\ Waits' = TRUE
    BY <2>2 DEF AskedAt, Waits
  <2>8. /\ AskedAt <= code.now /\ AskedAt >= source.start
        /\ \A i \in code.asked : i <= walk.i
        /\ AllSound(code.replies, source, walk.i, FALSE, AskedAt, code.now)
        /\ AllSound(code.inbox, source, walk.i, FALSE, AskedAt, code.now)
    BY <1>1, Zenon DEF QueryInv, NetInv
  <2>9. /\ AllSound(code.replies, source, walk.i, Waits', AskedAt', code.now)
        /\ AllSound(code.inbox, source, walk.i, Waits', AskedAt', code.now)
    BY <2>8, AllStayEarlier
  <2>10. \A i \in asked : i <= walk.i
    <3>1. walk.i <= walk.i
      BY <2>3
    <3>. QED
      BY <2>4, <2>8, <3>1, Zenon
  <2>11. NetInv'
    BY <2>2, <2>5, <2>7, <2>8, <2>9, <2>10 DEF NetInv
  <2>12. SampleInv'
    BY <1>1, <2>1, <2>2 DEF QueryInv, SampleInv, Times!OffsetIsWithinItsUncertainty
  <2>. QED
    BY <2>6, <2>11, <2>12 DEF QueryInv
<1>. QED
  BY <1>2, <1>3

LEMMA SampleIsNear ==
  ASSUME QueryInv, walk.pc = "recv", NEW reply \in Replies, IsSound(reply, source, walk.i, Waits, AskedAt, code.now),
         reply.kind # "short", Times!Acceptable(reply)
  PROVE  LET a == Times!Sample(reply)
         IN /\ a.reply.kind = "honest" /\ a.reply.from <= a.asked
            /\ a.reply.from = a.asked /\ a.steady => 2 * Times!Abs(a.offset - a.behind) <= a.delay + 1
<1>1. QueryTypes /\ source.start \in Nat /\ source.ahead \in Int /\ LongestQuery \in Nat
      /\ source.start + source.ahead >= 0 /\ source.start + LongestQuery + source.ahead < Era
      /\ Era \in Nat /\ Delta \in Nat /\ Delta < Era
  BY QueryNumbers DEF QueryInv, QueryTypes
<1>2. code.now \in Int /\ code.now <= source.start + LongestQuery /\ code.step \in Int /\ walk.t1 \in Int /\ walk.step \in Int
  BY <1>1 DEF QueryTypes
<1>3. reply.kind = "honest"
  BY DEF Times!Acceptable, Replies, Times!Kinds, IsSound
<1>4. reply.from <= walk.i
  BY DEF IsSound
<1>5. ASSUME reply.from = walk.i, walk.step = code.step
      PROVE  2 * Times!Abs(Times!NtpTimestampToUnix(reply.stamp) - Times!Midpoint(walk.t1, Times!Wall) - (source.ahead - code.step))
               <= (Times!Wall - walk.t1) + 1
  <2>1. PICK s \in source.start .. code.now : reply.stamp = Times!NtpTimestamp(s + source.ahead) /\ s >= AskedAt
    BY <1>5 DEF IsSound
  <2>2. s \in Int /\ s + source.ahead \in Nat /\ s + source.ahead < Era
    BY <1>1, <1>2, <2>1
  <2>3. Times!NtpTimestampToUnix(reply.stamp) = s + source.ahead
    BY <1>1, <2>1, <2>2, StampIsTime DEF Times!Acceptable
  <2>4. AskedAt \in Int /\ AskedAt <= s /\ s <= code.now /\ walk.t1 = AskedAt + code.step
    BY <1>2, <1>5, <2>1, <2>2 DEF AskedAt
  <2>5. 2 * Times!Abs((s + source.ahead) - Times!Midpoint(AskedAt + code.step, code.now + code.step) - (source.ahead - code.step))
          <= (code.now - AskedAt) + 1
    BY <1>1, <1>2, <2>2, <2>4, MiddleIsNear
  <2>6. Times!Wall - walk.t1 = code.now - AskedAt
    BY <1>2, <2>4 DEF Times!Wall
  <2>. QED
    BY <2>3, <2>4, <2>5, <2>6 DEF Times!Wall
<1>. QED
  BY <1>3, <1>4, <1>5 DEF Times!Sample

LEMMA ReceiveStep ==
  ASSUME QueryInv, source' = source, Times!Receive
  PROVE  QueryInv'
<1> DEFINE reply == Head(code.inbox)
<1>1. walk.pc = "recv" /\ QueryTypes /\ code.inbox # <<>> /\ code' = [code EXCEPT !.inbox = Tail(code.inbox)]
  BY DEF QueryInv, Times!Receive, Times!At
<1>2. code.inbox \in Seq(Replies) /\ AllSound(code.inbox, source, walk.i, Waits, AskedAt, code.now)
  BY <1>1 DEF QueryInv, NetInv, QueryTypes
<1>3. /\ Tail(code.inbox) \in Seq(Replies) /\ AllSound(Tail(code.inbox), source, walk.i, Waits, AskedAt, code.now)
      /\ reply \in Replies /\ IsSound(reply, source, walk.i, Waits, AskedAt, code.now)
  BY <1>1, <1>2, OneLess
<1>4. CASE reply.kind = "short"
  <2>1. PICK packet \in {walk.packet, "reply"} : Times!NextAddress(packet)
    BY <1>4 DEF Times!Receive
  <2>. QED
    BY <1>1, <1>3, <2>1, NextStep
<1>5. CASE reply.kind # "short"
  <2> DEFINE answer == IF Times!Acceptable(reply) THEN Times!Sample(reply) ELSE Times!Failed
  <2>1. Times!End(answer)
    BY <1>5 DEF Times!Receive
  <2>2. answer.ok => /\ answer.reply.kind = "honest" /\ answer.reply.from <= answer.asked
                     /\ answer.reply.from = answer.asked /\ answer.steady =>
                          2 * Times!Abs(answer.offset - answer.behind) <= answer.delay + 1
    <3>1. CASE Times!Acceptable(reply)
      <4>1. answer = Times!Sample(reply)
        BY <3>1
      <4>. QED
        BY <1>1, <1>3, <1>5, <3>1, <4>1, SampleIsNear
    <3>2. CASE ~Times!Acceptable(reply)
      BY <3>2 DEF Times!Failed
    <3>. QED
      BY <3>1, <3>2
  <2> HIDE DEF answer
  <2>. QED
    BY <1>1, <1>3, <2>1, <2>2, QueryEnds
<1>. QED
  BY <1>4, <1>5

LEMMA QueryStep ==
  ASSUME QueryInv, Times!NtpNext
  PROVE  QueryInv'
<1>1. source' = source
  BY DEF Times!NtpNext
<1>2. CASE Times!Timeout
  <2>1. walk.pc = "recv" /\ Times!NextAddress(walk.packet) /\ code' = code
    BY <1>2 DEF Times!Timeout, Times!At
  <2>2. code' = [code EXCEPT !.inbox = code.inbox] /\ code.inbox \in Seq(Replies)
    BY <2>1 DEF QueryInv, QueryTypes
  <2>3. AllSound(code.inbox, source, walk.i, Waits, AskedAt, code.now)
    BY <2>1 DEF QueryInv, NetInv
  <2>. QED
    BY <1>1, <2>1, <2>2, <2>3, NextStep
<1>3. CASE Times!NobodyAnswered
  <2>1. walk.pc = "stamp" /\ Times!End(Times!Failed) /\ ~Times!Failed.ok /\ code' = code
    BY <1>3 DEF Times!NobodyAnswered, Times!At, Times!Failed
  <2>. QED
    BY <1>1, <2>1, QueryEnds
<1>. QED
  BY <1>1, <1>2, <1>3, OpenStep, StampStep, SendStep, ReceiveStep, WorldStep DEF Times!NtpNext, Times!Program

LEMMA QueryStarts ==
  ASSUME source \in Times!Queries, Times!NtpInit
  PROVE  QueryInv
<1>1. source.start \in Nat /\ LongestQuery \in Nat
  BY QueryNumbers
<1>2. /\ code = [now |-> source.start, step |-> 0, asked |-> {}, replies |-> <<>>, inbox |-> <<>>]
      /\ walk = [pc |-> "open", i |-> 1, t1 |-> 0, step |-> 0, packet |-> "query"] /\ answers = <<>>
  BY DEF Times!NtpInit
<1>3. <<>> \in Seq(Replies) /\ Len(<<>>) = 0
  BY EmptySeq
<1>4. QueryTypes
  BY <1>1, <1>2, <1>3 DEF QueryTypes
<1>5. NetInv
  BY <1>2, <1>3 DEF NetInv, AllSound
<1>6. SampleInv
  BY <1>2 DEF SampleInv, Times!OffsetIsWithinItsUncertainty
<1>. QED
  BY <1>4, <1>5, <1>6 DEF QueryInv

LEMMA QueryStutter ==
  ASSUME QueryInv, UNCHANGED <<source, code, walk, answers>>
  PROVE  QueryInv'
BY DEF QueryInv, QueryTypes, NetInv, SampleInv, Waits, AskedAt, AllSound, IsSound, Times!OffsetIsWithinItsUncertainty

(***************************************************************************)
(* The host (kvmclock.rs).  One thread asks, while the cell is busy; what  *)
(* fills it is a pairing that was true, and stays what it was.             *)
(***************************************************************************)
Asking == {"clocksource", "pair"}

\* A pairing of both clocks, as long as the guest's has gone ahead to `offset`.
IsPairing(value, guest, offset) ==
  \A k \in DOMAIN value[1].pairing :
    /\ guest.opens /\ guest.answers
    /\ Times!Offset(value[1].pairing[k]) \in offset .. guest.ahead

PairTypes ==
  /\ source.ahead \in Int
  /\ code = [host |-> code.host, guest |-> code.guest, queries |-> code.queries, moved |-> code.moved]
  /\ code.host \in Int /\ code.guest \in Int /\ code.queries \in Int
  /\ walk = [cell |-> walk.cell, value |-> walk.value, at |-> walk.at, index |-> walk.index]
  /\ walk.at \in [Threads -> {"idle", "clocksource", "pair", "done"}]
  /\ answers = [t \in Threads |-> answers[t]]

AskInv ==
  /\ \A t, u \in Threads : walk.at[t] \in Asking /\ walk.at[u] \in Asking => t = u
  /\ \A t \in Threads : walk.at[t] \in Asking => walk.cell = "busy"
  /\ code.queries <= 1 /\ (walk.cell = "empty" => code.queries = 0)
  /\ \A t \in Threads : walk.at[t] = "clocksource" => code.queries = 0

GivenInv ==
  /\ Times!Offset(code) <= source.ahead
  /\ walk.cell = "full" => IsPairing(walk.value, source, Times!Offset(code))
  /\ \A t \in Threads : walk.at[t] = "done" => walk.cell = "full" /\ answers[t] = walk.value

PairInv == PairTypes /\ AskInv /\ GivenInv

LEMMA PairStarts ==
  ASSUME source \in Times!Guests, Times!HostInit
  PROVE  PairInv
BY DEF Times!Guests, Times!HostInit, PairInv, PairTypes, AskInv, GivenInv, Asking, Times!Offset

LEMMA PairStutter ==
  ASSUME PairInv, UNCHANGED <<source, code, walk, answers>>
  PROVE  PairInv'
BY DEF PairInv, PairTypes, AskInv, GivenInv, IsPairing, Times!Offset

LEMMA PairImplies ==
  ASSUME PairInv
  PROVE  Times!HostIsAskedOnce
BY DEF PairInv, AskInv, GivenInv, IsPairing, Times!HostIsAskedOnce

\* Where thread t goes on to.
LEMMA ThreadGoes ==
  ASSUME PairTypes, NEW t \in Threads, NEW pc \in {"idle", "clocksource", "pair", "done"}
  PROVE  LET at == [walk.at EXCEPT ![t] = pc]
         IN /\ Times!Goes(t, pc) = [cell |-> walk.cell, value |-> walk.value, at |-> at, index |-> walk.index]
            /\ at \in [Threads -> {"idle", "clocksource", "pair", "done"}]
            /\ at[t] = pc /\ \A u \in Threads : u # t => at[u] = walk.at[u]
<1>1. walk.at \in [Threads -> {"idle", "clocksource", "pair", "done"}]
  BY DEF PairTypes
<1>2. Times!Goes(t, pc) = [walk EXCEPT !.at = [walk.at EXCEPT ![t] = pc]]
  BY DEF Times!Goes, PairTypes
<1> DEFINE at == [walk.at EXCEPT ![t] = pc]
<1>3. at \in [Threads -> {"idle", "clocksource", "pair", "done"}] /\ at[t] = pc /\ \A u \in Threads : u # t => at[u] = walk.at[u]
  BY <1>1
<1> HIDE DEF at
<1>4. [walk EXCEPT !.at = at] = [cell |-> walk.cell, value |-> walk.value, at |-> at, index |-> walk.index]
  BY DEF PairTypes
<1>. QED
  BY <1>2, <1>3, <1>4 DEF at

LEMMA ClaimStep ==
  ASSUME PairInv, source' = source, NEW t \in Threads, Times!GetOrInit(t)
  PROVE  PairInv'
<1> DEFINE at == [walk.at EXCEPT ![t] = "clocksource"]
<1>1. PairTypes /\ walk.cell = "empty" /\ code' = code /\ answers' = answers
  BY DEF PairInv, Times!GetOrInit, Times!Claim
<1>2. /\ Times!Goes(t, "clocksource") = [cell |-> walk.cell, value |-> walk.value, at |-> at, index |-> walk.index]
      /\ at \in [Threads -> {"idle", "clocksource", "pair", "done"}]
      /\ at[t] = "clocksource" /\ \A u \in Threads : u # t => at[u] = walk.at[u]
  BY <1>1, ThreadGoes
<1> HIDE DEF at
<1>3. walk' = [cell |-> "busy", value |-> walk.value, at |-> at, index |-> walk.index]
  BY <1>2 DEF Times!GetOrInit
<1>4. PairTypes'
  BY <1>1, <1>2, <1>3 DEF PairTypes
<1>5. \A u \in Threads : walk.at[u] \notin Asking /\ walk.at[u] # "done"
  BY <1>1 DEF PairInv, AskInv, GivenInv
<1>6. \A u \in Threads : (at[u] \in Asking => u = t) /\ at[u] # "done"
  BY <1>2, <1>5 DEF Asking
<1>7. code.queries = 0
  BY <1>1 DEF PairInv, AskInv
<1>8. AskInv'
  BY <1>1, <1>3, <1>6, <1>7 DEF AskInv
<1>9. GivenInv'
  BY <1>1, <1>3, <1>6 DEF PairInv, GivenInv, Times!Offset
<1>. QED
  BY <1>4, <1>8, <1>9 DEF PairInv

\* The thread that asks fills the cell.
LEMMA FillStep ==
  ASSUME PairInv, source' = source, NEW t \in Threads, walk.at[t] \in Asking, NEW pairing, Times!Fill(t, pairing),
         code' = code, answers' = answers,
         IsPairing(<<[follows |-> source.paravirtual, pairing |-> pairing]>>, source, Times!Offset(code))
  PROVE  PairInv'
<1> DEFINE at == [walk.at EXCEPT ![t] = "idle"]
           value == <<[follows |-> source.paravirtual, pairing |-> pairing]>>
<1>1. PairTypes /\ walk.cell = "busy"
  BY DEF PairInv, AskInv
<1>2. /\ Times!Goes(t, "idle") = [cell |-> walk.cell, value |-> walk.value, at |-> at, index |-> walk.index]
      /\ at \in [Threads -> {"idle", "clocksource", "pair", "done"}]
      /\ at[t] = "idle" /\ \A u \in Threads : u # t => at[u] = walk.at[u]
  BY <1>1, ThreadGoes
<1>3. walk' = [Times!Goes(t, "idle") EXCEPT !.cell = "full", !.value = value] /\ IsPairing(value, source, Times!Offset(code))
  BY DEF Times!Fill
<1> HIDE DEF at, value
<1>4. walk' = [cell |-> "full", value |-> value, at |-> at, index |-> walk.index]
  <2> DEFINE busy == [cell |-> walk.cell, value |-> walk.value, at |-> at, index |-> walk.index]
  <2>1. walk' = [busy EXCEPT !.cell = "full", !.value = value]
    BY <1>2, <1>3
  <2>2. [busy EXCEPT !.cell = "full", !.value = value] = [[busy EXCEPT !.cell = "full"] EXCEPT !.value = value]
    BY Zenon
  <2>3. [busy EXCEPT !.cell = "full"] = [cell |-> "full", value |-> walk.value, at |-> at, index |-> walk.index]
    OBVIOUS
  <2>. QED
    BY <2>1, <2>2, <2>3
<1>5. PairTypes'
  BY <1>1, <1>2, <1>4 DEF PairTypes
<1>6. \A u \in Threads : at[u] \notin Asking /\ at[u] # "done"
  <2>1. \A u \in Threads : walk.at[u] # "done"
    BY <1>1 DEF PairInv, GivenInv
  <2>2. \A u \in Threads : walk.at[u] \in Asking => u = t
    BY DEF PairInv, AskInv
  <2>. QED
    BY <1>2, <2>1, <2>2 DEF Asking
<1>7. AskInv'
  BY <1>4, <1>6 DEF PairInv, AskInv, Asking
<1>8. GivenInv'
  <2>1. Times!Offset(code)' = Times!Offset(code) /\ Times!Offset(code) <= source.ahead
    BY DEF PairInv, GivenInv, Times!Offset
  <2>2. walk'.cell = "full" /\ walk'.value = value /\ walk'.at = at
    BY <1>4
  <2>3. IsPairing(walk'.value, source, Times!Offset(code)')
    BY <1>3, <2>1, <2>2
  <2>. QED
    BY <1>6, <2>1, <2>2, <2>3 DEF GivenInv
<1>. QED
  BY <1>5, <1>7, <1>8 DEF PairInv

LEMMA ClocksourceStep ==
  ASSUME PairInv, source' = source, NEW t \in Threads, Times!ReadClocksource(t)
  PROVE  PairInv'
<1>1. PairTypes /\ walk.at[t] = "clocksource" /\ walk.at[t] \in Asking /\ answers' = answers
  BY DEF PairInv, Times!ReadClocksource, Asking
<1>2. CASE Times!KvmPtpIndex = -1
  <2>1. Times!Fill(t, <<>>) /\ code' = code
    BY <1>2 DEF Times!ReadClocksource, Times!Nothing
  <2>2. IsPairing(<<[follows |-> source.paravirtual, pairing |-> <<>>]>>, source, Times!Offset(code))
    BY DEF IsPairing
  <2>. QED
    BY <1>1, <2>1, <2>2, FillStep
<1>3. CASE Times!KvmPtpIndex # -1
  <2> DEFINE at == [walk.at EXCEPT ![t] = "pair"]
             index == Times!KvmPtpIndex
  <2>1. walk' = [Times!Goes(t, "pair") EXCEPT !.index = index] /\ code' = [code EXCEPT !.queries = code.queries + 1]
    BY <1>3 DEF Times!ReadClocksource
  <2>2. /\ Times!Goes(t, "pair") = [cell |-> walk.cell, value |-> walk.value, at |-> at, index |-> walk.index]
        /\ at \in [Threads -> {"idle", "clocksource", "pair", "done"}]
        /\ at[t] = "pair" /\ \A u \in Threads : u # t => at[u] = walk.at[u]
    BY <1>1, ThreadGoes
  <2> HIDE DEF at, index
  <2>3. walk' = [cell |-> walk.cell, value |-> walk.value, at |-> at, index |-> index]
    BY <2>1, <2>2
  <2>4. code.queries = 0 /\ walk.cell = "busy" /\ \A u \in Threads : walk.at[u] \in Asking => u = t
    BY <1>1 DEF PairInv, AskInv
  <2>5. code' = [host |-> code.host, guest |-> code.guest, queries |-> 1, moved |-> code.moved]
    <3>1. code' = [host |-> code.host, guest |-> code.guest, queries |-> code.queries + 1, moved |-> code.moved]
      BY <1>1, <2>1 DEF PairTypes
    <3>. QED
      BY <2>4, <3>1
  <2>6. PairTypes'
    BY <1>1, <2>2, <2>3, <2>5 DEF PairTypes
  <2>7. \A u \in Threads : at[u] \in Asking => u = t
    BY <2>2, <2>4
  <2>8. \A u \in Threads : at[u] # "clocksource" /\ at[u] # "done"
    <3>1. \A u \in Threads : walk.at[u] # "done"
      BY <2>4 DEF PairInv, GivenInv
    <3>. QED
      BY <2>2, <2>4, <3>1 DEF Asking
  <2>9. AskInv'
    BY <2>3, <2>4, <2>5, <2>7, <2>8 DEF AskInv
  <2>10. GivenInv'
    BY <2>3, <2>4, <2>5, <2>8 DEF PairInv, GivenInv, Times!Offset
  <2>. QED
    BY <2>6, <2>9, <2>10 DEF PairInv
<1>. QED
  BY <1>2, <1>3

LEMMA PairStep ==
  ASSUME PairInv, source' = source, NEW t \in Threads, Times!ReadPreciseOffset(t)
  PROVE  PairInv'
<1> DEFINE pair == [host |-> code.host, guest |-> code.guest]
           pairing == IF source.opens /\ source.answers THEN <<pair>> ELSE <<>>
<1>1. PairTypes /\ walk.at[t] \in Asking /\ answers' = answers /\ code' = code /\ Times!Fill(t, pairing)
  BY DEF PairInv, Times!ReadPreciseOffset, Asking, Times!Nothing
<1>2. Times!Offset(code) \in Int /\ source.ahead \in Int /\ Times!Offset(code) <= source.ahead /\ Times!Offset(pair) = Times!Offset(code)
  BY <1>1 DEF PairInv, PairTypes, GivenInv, Times!Offset
<1>3. Times!Offset(pair) \in Times!Offset(code) .. source.ahead
  BY <1>2
<1> HIDE DEF pair
<1>4. IsPairing(<<[follows |-> source.paravirtual, pairing |-> pairing]>>, source, Times!Offset(code))
  BY <1>3 DEF IsPairing
<1>. QED
  BY <1>1, <1>4, FillStep

LEMMA GivenStep ==
  ASSUME PairInv, source' = source, NEW t \in Threads, Times!Given(t)
  PROVE  PairInv'
<1> DEFINE at == [walk.at EXCEPT ![t] = "done"]
<1>1. PairTypes /\ walk.cell = "full" /\ code' = code /\ walk' = Times!Goes(t, "done")
  BY DEF PairInv, Times!Given
<1>2. /\ walk' = [cell |-> walk.cell, value |-> walk.value, at |-> at, index |-> walk.index]
      /\ at \in [Threads -> {"idle", "clocksource", "pair", "done"}]
      /\ at[t] = "done" /\ \A u \in Threads : u # t => at[u] = walk.at[u]
  BY <1>1, ThreadGoes
<1> HIDE DEF at
<1>3. answers' = [answers EXCEPT ![t] = walk.value]
  BY DEF Times!Given
<1>4. /\ answers' = [u \in Threads |-> answers'[u]] /\ answers'[t] = walk.value
      /\ \A u \in Threads : u # t => answers'[u] = answers[u]
  BY <1>1, <1>3 DEF PairTypes
<1>5. PairTypes'
  BY <1>1, <1>2, <1>4 DEF PairTypes
<1>6. AskInv'
  BY <1>1, <1>2 DEF PairInv, AskInv, Asking
<1>7. GivenInv'
  BY <1>1, <1>2, <1>4 DEF PairInv, GivenInv, Times!Offset
<1>. QED
  BY <1>5, <1>6, <1>7 DEF PairInv

LEMMA ClocksStep ==
  ASSUME PairInv, source' = source, Times!ClocksGoOn
  PROVE  PairInv'
<1>1. PairTypes /\ walk' = walk /\ answers' = answers
  BY DEF PairInv, Times!ClocksGoOn
<1>2. PICK s \in {0, 1} : code' = [code EXCEPT !.host = code.host + 1, !.guest = code.guest + 1 + s, !.moved = code.moved + 1]
  BY DEF Times!ClocksGoOn
<1>3. code' = [host |-> code.host + 1, guest |-> code.guest + 1 + s, queries |-> code.queries, moved |-> code.moved + 1]
  BY <1>1, <1>2 DEF PairTypes
<1>4. code.host \in Int /\ code.guest \in Int /\ source.ahead \in Int
  BY <1>1 DEF PairTypes
<1>5. PairTypes'
  BY <1>1, <1>3, <1>4 DEF PairTypes
<1>6. AskInv'
  BY <1>1, <1>3 DEF PairInv, AskInv
<1>7. Times!Offset(code) \in Int /\ Times!Offset(code)' \in Int /\ Times!Offset(code)' <= Times!Offset(code)
  BY <1>3, <1>4 DEF Times!Offset
<1>8. walk.cell = "full" => IsPairing(walk.value, source, Times!Offset(code)')
  BY <1>4, <1>7 DEF PairInv, GivenInv, IsPairing
<1>9. GivenInv'
  BY <1>1, <1>4, <1>7, <1>8 DEF PairInv, GivenInv, IsPairing
<1>. QED
  BY <1>5, <1>6, <1>9 DEF PairInv

LEMMA HostStep ==
  ASSUME PairInv, Times!HostNext
  PROVE  PairInv'
<1>1. source' = source
  BY DEF Times!HostNext
<1>. QED
  BY <1>1, ClaimStep, ClocksourceStep, PairStep, GivenStep, ClocksStep DEF Times!HostNext

(***************************************************************************)
(* Division.                                                               *)
(***************************************************************************)
LEMMA NoMultipleWithin ==
  ASSUME NEW n \in Nat \ {0}, NEW k \in Int, k * n < n, k * n > -n
  PROVE  k = 0
<1>1. k >= 1 => k * n >= n
  OBVIOUS
<1>2. k <= -1 => k * n <= -n
  OBVIOUS
<1>. QED
  BY <1>1, <1>2

LEMMA DivMod ==
  ASSUME NEW a \in Int, NEW n \in Nat \ {0}
  PROVE  a \div n \in Int /\ a % n \in Nat /\ a % n < n /\ a = (a \div n) * n + (a % n)
OBVIOUS

LEMMA DivIs ==
  ASSUME NEW q \in Int, NEW n \in Nat \ {0}, NEW r \in Nat, r < n
  PROVE  (q * n + r) \div n = q /\ (q * n + r) % n = r
<1> DEFINE a == q * n + r
           p == a \div n
           s == a % n
<1>1. a \in Int
  OBVIOUS
<1>2. p \in Int /\ s \in Nat /\ s < n /\ a = p * n + s
  BY <1>1, DivMod
<1> HIDE DEF p, s
<1>3. (q - p) * n = s - r
  <2>1. q * n - p * n = s - r
    BY <1>2
  <2>2. (q - p) * n = q * n - p * n
    BY <1>2
  <2>. QED
    BY <2>1, <2>2
<1>4. q - p = 0
  BY <1>2, <1>3, NoMultipleWithin
<1>. QED
  BY <1>2, <1>4 DEF p, s

LEMMA DivExact ==
  ASSUME NEW q \in Int, NEW n \in Nat \ {0}
  PROVE  (q * n) \div n = q
<1>1. (q * n + 0) \div n = q
  BY DivIs
<1>2. q * n + 0 = q * n
  OBVIOUS
<1>. QED
  BY <1>1, <1>2, Zenon

LEMMA DivMonotone ==
  ASSUME NEW n \in Nat \ {0}, NEW a \in Int, NEW b \in Int, a <= b
  PROVE  a \div n <= b \div n
<1> DEFINE p == a \div n
           q == b \div n
<1>1. p \in Int /\ q \in Int /\ p * n <= a /\ b < q * n + n
  BY DivMod
<1> HIDE DEF p, q
<1>2. (p - q) * n < n
  <2>1. (p - q) * n = p * n - q * n
    BY <1>1
  <2>2. p * n \in Int /\ q * n \in Int
    BY <1>1
  <2>. QED
    BY <1>1, <2>1, <2>2
<1>3. p - q >= 1 => (p - q) * n >= n
  BY <1>1
<1>4. (p - q) * n \in Int
  BY <1>1
<1>. QED
  BY <1>1, <1>2, <1>3, <1>4 DEF p, q

LEMMA DivFurther ==
  ASSUME NEW n \in Nat \ {0}, NEW a \in Int, NEW k \in Int
  PROVE  (a + k * n) \div n = (a \div n) + k
<1> DEFINE p == a \div n
           r == a % n
<1>1. p \in Int /\ r \in Nat /\ r < n /\ a = p * n + r
  BY DivMod
<1> HIDE DEF p, r
<1>2. a + k * n = (p + k) * n + r
  <2>1. (p + k) * n = p * n + k * n
    BY <1>1
  <2>2. p * n \in Int /\ k * n \in Int
    BY <1>1
  <2>. QED
    BY <1>1, <2>1, <2>2
<1>3. ((p + k) * n + r) \div n = p + k
  BY <1>1, DivIs
<1>. QED
  BY <1>2, <1>3 DEF p

LEMMA DivWithin ==
  ASSUME NEW n \in Nat \ {0}, NEW a \in Int, NEW b \in Int, NEW k \in Int, b <= a + k * n
  PROVE  b \div n <= (a \div n) + k
<1>1. a + k * n \in Int
  OBVIOUS
<1>. QED
  BY <1>1, DivMonotone, DivFurther

LEMMA SameResidue ==
  ASSUME NEW n \in Nat \ {0}, NEW a \in Int, NEW b \in Int, a <= b, b - a < n, a % n = b % n
  PROVE  a = b
<1> DEFINE p == a \div n
           q == b \div n
           r == a % n
<1>1. p \in Int /\ q \in Int /\ r \in Nat /\ a = p * n + r /\ b = q * n + r
  BY DivMod
<1> HIDE DEF p, q, r
<1>2. (q - p) * n = b - a
  <2>1. (q - p) * n = q * n - p * n
    BY <1>1
  <2>2. p * n \in Int /\ q * n \in Int
    BY <1>1
  <2>. QED
    BY <1>1, <2>1, <2>2
<1>3. q - p = 0
  BY <1>1, <1>2, NoMultipleWithin
<1>. QED
  BY <1>2, <1>3

LEMMA DivDiv ==
  ASSUME NEW a \in Int, NEW n \in Nat \ {0}, NEW m \in Nat \ {0}
  PROVE  (a \div n) \div m = a \div (m * n)
<1> DEFINE p == a \div n
           r == a % n
           q == p \div m
           s == p % m
           t == s * n + r
<1>1. p \in Int /\ r \in Nat /\ r < n /\ a = p * n + r
  BY DivMod
<1>2. q \in Int /\ s \in Nat /\ s < m /\ p = q * m + s
  BY <1>1, DivMod
<1> HIDE DEF p, r, q, s
<1>3. m * n \in Nat \ {0} /\ s * n \in Nat
  BY <1>2
<1>4. s * n <= m * n - n
  <2>1. (m - 1 - s) * n >= 0
    BY <1>2
  <2>2. (m - 1 - s) * n = m * n - n - s * n
    BY <1>2
  <2>. QED
    BY <1>2, <1>3, <2>1, <2>2
<1>5. t \in Nat /\ t < m * n
  BY <1>1, <1>3, <1>4
<1>6. a = q * (m * n) + t
  <2>1. p * n = (q * m) * n + s * n
    BY <1>2
  <2>2. (q * m) * n = q * (m * n)
    BY <1>2
  <2> DEFINE x == q * (m * n)
             y == s * n
             z == p * n
  <2>3. x \in Int /\ y \in Int /\ z = x + y /\ a = z + r /\ t = y + r
    BY <1>1, <1>2, <1>3, <2>1, <2>2
  <2> HIDE DEF x, y, z, t
  <2>4. a = x + t
    BY <1>1, <2>3
  <2>. QED
    BY <2>4 DEF x
<1> HIDE DEF t
<1>7. (q * (m * n) + t) \div (m * n) = q
  BY <1>2, <1>3, <1>5, DivIs
<1>. QED
  BY <1>6, <1>7 DEF q, p

LEMMA ModOf ==
  ASSUME NEW a \in Int, NEW n \in Nat \ {0}, a >= 0, a < n
  PROVE  a % n = a
<1>1. (0 * n + a) % n = a
  BY DivIs
<1>. QED
  BY <1>1

(***************************************************************************)
(* The chip.                                                               *)
(***************************************************************************)
LEMMA ClockNumbers ==
  /\ Hz \in Nat \ {0} /\ Lowest \in Nat \ {0} /\ Interval \in Nat \ {0} /\ HalfDay \in Nat \ {0}
  /\ Minutes \in Nat \ {0} /\ Seconds \in Nat \ {0} /\ Base \in Nat \ {0} /\ Nibble \in Nat \ {0}
  /\ Highest \in Nat /\ UnknownHz \in Nat /\ LongestStart \in Nat /\ LongestRun \in Nat
  /\ Base <= Nibble /\ LongestStart < (Minutes - 1) * Seconds * Hz
  /\ Hz + 1 + LongestStart + LongestRun < Wall!Day \div 2
BY ClockAssumption

\* A day has ticks.
LEMMA DayHasTicks == Wall!Day \in Nat \ {0}
<1>1. \A a, b \in Nat \ {0} : a * b \in Nat \ {0}
  OBVIOUS
<1>2. 2 * HalfDay \in Nat \ {0}
  BY ClockNumbers
<1>3. 2 * HalfDay * Minutes \in Nat \ {0}
  BY <1>1, <1>2, ClockNumbers
<1>4. 2 * HalfDay * Minutes * Seconds \in Nat \ {0}
  BY <1>1, <1>3, ClockNumbers
<1> QED  BY <1>1, <1>4, ClockNumbers DEF Wall!Day

Fields == {"day", "hour", "minute", "second"}

\* What a register shows by time t, in the code of the chip of machine s.
InCode(s, v) == IF s.bcd THEN ((v \div Base) * Nibble) + (v % Base) ELSE v

RegisterOf(s, r, t) ==
  LET v == Wall!Field(r, t)
  IN IF r = "hour" /\ s.twelve
     THEN [pm |-> v >= HalfDay, v |-> InCode(s, IF v % HalfDay = 0 THEN HalfDay ELSE v % HalfDay)]
     ELSE [pm |-> FALSE, v |-> InCode(s, v)]

LEMMA RegisterIs ==
  ASSUME NEW r, NEW t
  PROVE  Wall!Register(r, t) = RegisterOf(source, r, t)
BY DEF Wall!Register, Wall!Coded, RegisterOf, InCode

LEMMA FieldIsNat ==
  ASSUME NEW r \in Fields, NEW t \in Nat
  PROVE  Wall!Field(r, t) \in Nat /\ (r = "hour" => Wall!Field(r, t) < 2 * HalfDay)
<1> DEFINE q == t \div Hz
<1>1. q \in Nat
  <2>1. q \in Int /\ 0 \div Hz = 0
    BY DivMod, DivIs, ClockNumbers
  <2>2. q >= 0
    BY <2>1, DivMonotone, ClockNumbers
  <2>. QED
    BY <2>1, <2>2
<1> HIDE DEF q
<1>2. \A n \in Nat \ {0} : q \div n \in Nat
  <2> TAKE n \in Nat \ {0}
  <2>1. q \div n \in Int /\ (0 * n + 0) \div n = 0
    BY <1>1, DivMod, DivIs
  <2>2. 0 \div n <= q \div n
    BY <1>1, DivMonotone
  <2>. QED
    BY <2>1, <2>2
<1>3. /\ Seconds \in Nat \ {0} /\ Minutes * Seconds \in Nat \ {0} /\ 2 * HalfDay * Minutes * Seconds \in Nat \ {0}
      /\ Minutes \in Nat \ {0} /\ 2 * HalfDay \in Nat \ {0}
  BY ClockNumbers
<1>4. \A a \in Nat, n \in Nat \ {0} : a % n \in Nat /\ a % n < n
  BY DivMod
<1>5. CASE r = "day"
  <2>1. Wall!Field(r, t) = q \div (2 * HalfDay * Minutes * Seconds)
    BY <1>5, Zenon DEF Wall!Field, Wall!SecondAt, q
  <2>. QED
    BY <1>2, <1>3, <1>5, <2>1
<1>6. CASE r = "hour"
  <2>1. Wall!Field(r, t) = (q \div (Minutes * Seconds)) % (2 * HalfDay)
    BY <1>6 DEF Wall!Field, Wall!SecondAt, q
  <2>. QED
    BY <1>2, <1>3, <1>4, <1>6, <2>1
<1>7. CASE r = "minute"
  <2>1. Wall!Field(r, t) = (q \div Seconds) % Minutes
    BY <1>7 DEF Wall!Field, Wall!SecondAt, q
  <2>. QED
    BY <1>2, <1>3, <1>4, <1>7, <2>1
<1>8. CASE r = "second"
  <2>1. Wall!Field(r, t) = q % Seconds
    BY <1>8 DEF Wall!Field, Wall!SecondAt, q
  <2>. QED
    BY <1>1, <1>3, <1>4, <1>8, <2>1
<1>. QED
  BY <1>5, <1>6, <1>7, <1>8 DEF Fields

\* What is coded is decoded.
OfCode(s, v) == IF s.bcd THEN ((v \div Nibble) * Base) + (v % Nibble) ELSE v

LEMMA CodeIsRead ==
  ASSUME NEW s, NEW v \in Nat
  PROVE  OfCode(s, InCode(s, v)) = v
<1>1. CASE s.bcd
  <2> DEFINE p == v \div Base
             r == v % Base
  <2>1. p \in Int /\ r \in Nat /\ r < Base /\ v = p * Base + r /\ r < Nibble
    BY DivMod, ClockNumbers
  <2>2. InCode(s, v) = p * Nibble + r
    BY <1>1 DEF InCode
  <2> HIDE DEF p, r
  <2>3. (p * Nibble + r) \div Nibble = p /\ (p * Nibble + r) % Nibble = r
    BY <2>1, DivIs, ClockNumbers
  <2>. QED
    BY <1>1, <2>1, <2>2, <2>3 DEF OfCode
<1>2. CASE ~s.bcd
  BY <1>2 DEF OfCode, InCode
<1>. QED
  BY <1>1, <1>2

FieldOf(s, r, register) ==
  IF r = "hour" /\ s.twelve THEN (OfCode(s, register.v) % HalfDay) + (IF register.pm THEN HalfDay ELSE 0)
  ELSE OfCode(s, register.v)

LEMMA RegisterIsRead ==
  ASSUME NEW s, NEW r \in Fields, NEW t \in Nat
  PROVE  FieldOf(s, r, RegisterOf(s, r, t)) = Wall!Field(r, t)
<1> DEFINE v == Wall!Field(r, t)
<1>1. v \in Nat /\ (r = "hour" => v < 2 * HalfDay)
  BY FieldIsNat
<1> HIDE DEF v
<1>2. CASE r = "hour" /\ s.twelve
  <2> DEFINE h == IF v % HalfDay = 0 THEN HalfDay ELSE v % HalfDay
  <2>1. /\ v < HalfDay => v % HalfDay = v
        /\ v >= HalfDay => v % HalfDay = v - HalfDay
    <3>1. v < HalfDay => v % HalfDay = v
      BY <1>1, ModOf, ClockNumbers
    <3>2. ASSUME v >= HalfDay
          PROVE  v % HalfDay = v - HalfDay
      <4> DEFINE rest == v - HalfDay
      <4>1. rest \in Nat /\ rest < HalfDay /\ v = 1 * HalfDay + rest
        BY <1>1, <1>2, <3>2, ClockNumbers
      <4> HIDE DEF rest
      <4>2. (1 * HalfDay + rest) % HalfDay = rest
        BY <4>1, DivIs, ClockNumbers
      <4>. QED
        BY <4>1, <4>2 DEF rest
    <3>. QED
      BY <3>1, <3>2
  <2>2. v % HalfDay \in Nat /\ v % HalfDay < HalfDay
    BY <1>1, DivMod, ClockNumbers
  <2>3. h \in Nat /\ h % HalfDay = v % HalfDay
    <3>1. (1 * HalfDay + 0) % HalfDay = 0
      BY DivIs, ClockNumbers
    <3>2. HalfDay % HalfDay = 0
      BY <3>1, ClockNumbers
    <3>3. (v % HalfDay) % HalfDay = v % HalfDay
      BY <2>2, ModOf, ClockNumbers
    <3>. QED
      BY <2>2, <3>2, <3>3, ClockNumbers
  <2> HIDE DEF h
  <2>4. OfCode(s, InCode(s, h)) = h
    BY <2>3, CodeIsRead
  <2> DEFINE late == v >= HalfDay
             code2 == InCode(s, h)
  <2>5. RegisterOf(s, r, t) = [pm |-> late, v |-> code2]
    BY <1>2, Zenon DEF RegisterOf, v, h
  <2>6. FieldOf(s, r, RegisterOf(s, r, t)) = (h % HalfDay) + (IF v >= HalfDay THEN HalfDay ELSE 0)
    <3>1. RegisterOf(s, r, t).v = code2 /\ RegisterOf(s, r, t).pm = late
      <4> HIDE DEF late, code2
      <4>. QED
        BY <2>5
    <3>. QED
      BY <1>2, <2>4, <3>1, Zenon DEF FieldOf
  <2>. QED
    BY <1>1, <1>2, <2>1, <2>3, <2>6, ClockNumbers DEF v
<1>3. CASE ~(r = "hour" /\ s.twelve)
  BY <1>1, <1>3, CodeIsRead DEF RegisterOf, FieldOf, v
<1>. QED
  BY <1>2, <1>3

(***************************************************************************)
(* Two readings that agree, with a moment w between them.                  *)
(***************************************************************************)
LEMMA SameMinute ==
  ASSUME NEW a \in Int, NEW b \in Int, a \div Seconds = b \div Seconds
  PROVE  /\ a \div (Minutes * Seconds) = b \div (Minutes * Seconds)
         /\ a \div (2 * HalfDay * Minutes * Seconds) = b \div (2 * HalfDay * Minutes * Seconds)
<1>1. /\ Seconds \in Nat \ {0} /\ Minutes \in Nat \ {0} /\ 2 * HalfDay * Minutes \in Nat \ {0}
  BY ClockNumbers
<1>2. \A c \in Int, m \in Nat \ {0} : (c \div Seconds) \div m = c \div (m * Seconds)
  BY <1>1, DivDiv
<1>. QED
  BY <1>1, <1>2

\* Fields that show the same at times less than an hour apart.
LEMMA TimesAreNear ==
  ASSUME NEW x \in Nat, NEW y \in Nat, y <= x + (Minutes - 1) * Seconds * Hz
  PROVE  /\ y \div Hz <= x \div Hz + (Minutes - 1) * Seconds
         /\ (y \div Hz) \div Seconds <= (x \div Hz) \div Seconds + (Minutes - 1)
         /\ (y \div Hz) \div (Minutes * Seconds) <= (x \div Hz) \div (Minutes * Seconds) + 1
<1> DEFINE p == x \div Hz
           q == y \div Hz
           n == Minutes - 1
<1>1. Hz \in Nat \ {0} /\ Seconds \in Nat \ {0} /\ n \in Nat /\ Minutes \in Nat \ {0} /\ Minutes = n + 1
  BY ClockNumbers
<1>2. p \in Int /\ q \in Int
  BY <1>1, DivMod
<1>3. q <= p + n * Seconds
  BY <1>1, DivWithin
<1> HIDE DEF p, q, n
<1>4. q \div Seconds <= (p \div Seconds) + n
  BY <1>1, <1>2, <1>3, DivWithin
<1>5. q <= p + 1 * (Minutes * Seconds) /\ Minutes * Seconds \in Nat \ {0}
  <2>1. Minutes * Seconds = n * Seconds + Seconds
    BY <1>1
  <2>2. n * Seconds \in Nat
    BY <1>1
  <2>. QED
    BY <1>1, <1>2, <1>3, <2>1, <2>2
<1>6. q \div (Minutes * Seconds) <= (p \div (Minutes * Seconds)) + 1
  BY <1>2, <1>5, DivWithin
<1>. QED
  BY <1>3, <1>4, <1>6 DEF p, q, n

\* A day, an hour or a minute that is the same before and after w is so at w.
LEMMA CountIsStill ==
  ASSUME NEW n \in Nat \ {0}, NEW m \in Nat \ {0}, NEW x \in Nat, NEW w \in Nat, NEW y \in Nat, x <= w, w <= y,
         (y \div Hz) \div n - (x \div Hz) \div n < m, ((x \div Hz) \div n) % m = ((y \div Hz) \div n) % m
  PROVE  (w \div Hz) \div n = (x \div Hz) \div n
<1> DEFINE D(t) == (t \div Hz) \div n
<1>1. \A t \in Nat : t \div Hz \in Int /\ D(t) \in Int
  BY DivMod, ClockNumbers
<1>2. x \div Hz <= w \div Hz /\ w \div Hz <= y \div Hz
  BY DivMonotone, ClockNumbers
<1>3. D(x) <= D(w) /\ D(w) <= D(y)
  BY <1>1, <1>2, DivMonotone
<1>4. D(y) - D(x) < m /\ D(x) % m = D(y) % m
  OBVIOUS
<1> HIDE DEF D
<1>5. D(x) = D(y)
  <2> DEFINE a == D(x)
             b == D(y)
  <2>1. a \in Int /\ D(w) \in Int /\ b \in Int
    BY <1>1
  <2>2. a <= b /\ b - a < m /\ a % m = b % m
    BY <1>3, <1>4, <2>1
  <2> HIDE DEF a, b
  <2>3. a = b
    BY <2>1, <2>2, SameResidue
  <2>. QED
    BY <2>3 DEF a, b
<1>6. D(w) = D(x)
  BY <1>1, <1>3, <1>5
<1>. QED
  BY <1>6 DEF D

\* A moment of the same minute as w, in which the second is as read by x.
IsNear(t, w, x) == (t \div Hz) \div Seconds = (w \div Hz) \div Seconds /\ (t \div Hz) % Seconds = (x \div Hz) % Seconds

LEMMA SecondIsNear ==
  ASSUME NEW b \in Nat, NEW x \in Nat, NEW w \in Nat, NEW y \in Nat, b <= x, x <= w, w <= y,
         (x \div Hz) % Seconds = (y \div Hz) % Seconds
  PROVE  \E t \in b .. y : IsNear(t, w, x)
<1> DEFINE p == x \div Hz
           v == w \div Hz
           q == y \div Hz
           m == v \div Seconds
           r == v % Seconds
           s == p % Seconds
           g == m * Seconds + s
<1>1. Hz \in Nat \ {0} /\ Seconds \in Nat \ {0}
  BY ClockNumbers
<1>2. p \in Int /\ v \in Int /\ q \in Int /\ p <= v /\ v <= q
  BY <1>1, DivMod, DivMonotone
<1>3. m \in Int /\ r \in Nat /\ r < Seconds /\ v = m * Seconds + r /\ s \in Nat /\ s < Seconds
  BY <1>1, <1>2, DivMod
<1>5. q % Seconds = s /\ p % Seconds = s
  OBVIOUS
<1>6. /\ x = p * Hz + (x % Hz) /\ x % Hz \in Nat /\ x % Hz < Hz
      /\ w = v * Hz + (w % Hz) /\ w % Hz \in Nat /\ w % Hz < Hz
      /\ y = q * Hz + (y % Hz) /\ y % Hz \in Nat /\ y % Hz < Hz
  BY <1>1, DivMod
<1>7. ASSUME s = r
      PROVE  \E t \in b .. y : (t \div Hz) \div Seconds = m /\ (t \div Hz) % Seconds = s
  <2>1. w \in b .. y /\ (w \div Hz) \div Seconds = m /\ (w \div Hz) % Seconds = s
    BY <1>7
  <2>. QED
    BY <2>1
<1> HIDE DEF p, v, q, m, r, s
<1>4. g \in Int /\ g \div Seconds = m /\ g % Seconds = s
  BY <1>1, <1>3, DivIs
\* One that is as read later begins by y.
<1>8. ASSUME r < s
      PROVE  \E t \in b .. y : (t \div Hz) \div Seconds = m /\ (t \div Hz) % Seconds = s
  <2>1. g <= q
    <3>1. q = (q \div Seconds) * Seconds + s /\ q \div Seconds \in Int
      BY <1>1, <1>2, <1>5, DivMod
    <3> DEFINE j == q \div Seconds
    <3>2. m <= j
      BY <1>1, <1>2, DivMonotone DEF m
    <3>3. (j - m) * Seconds >= 0
      BY <1>1, <1>3, <3>1, <3>2
    <3>4. j * Seconds - m * Seconds >= 0 /\ j * Seconds \in Int /\ m * Seconds \in Int
      BY <1>1, <1>3, <3>1, <3>3
    <3> DEFINE j2 == j * Seconds
               m2 == m * Seconds
    <3>5. q = j2 + s /\ g = m2 + s /\ j2 >= m2 /\ j2 \in Int /\ m2 \in Int
      BY <3>1, <3>4
    <3> HIDE DEF j2, m2, g
    <3>. QED
      BY <1>3, <3>5
  <2>2. v < g
    BY <1>1, <1>3, <1>8
  <2> DEFINE t == g * Hz + 0
  <2> HIDE DEF g
  <2>3. t \div Hz = g
    BY <1>1, <1>4, DivIs
  <2>4. t \in Int /\ t <= y /\ w < t
    <3>1. (q - g) * Hz >= 0 /\ (g - v - 1) * Hz >= 0
      BY <1>1, <1>2, <1>4, <2>1, <2>2
    <3>2. q * Hz - g * Hz >= 0 /\ g * Hz - v * Hz - Hz >= 0
      BY <1>1, <1>2, <1>4, <3>1
    <3> DEFINE q2 == q * Hz
               g2 == g * Hz
               v2 == v * Hz
    <3>3. /\ q2 \in Int /\ g2 \in Int /\ v2 \in Int /\ q2 >= g2 /\ g2 >= v2 + Hz
          /\ y = q2 + (y % Hz) /\ w = v2 + (w % Hz) /\ t = g2
      BY <1>1, <1>2, <1>4, <1>6, <3>2
    <3> HIDE DEF q2, g2, v2, t
    <3>. QED
      BY <1>1, <1>6, <3>3
  <2>5. t \in b .. y
    BY <2>4
  <2>. QED
    BY <1>4, <2>3, <2>5
\* One that was as read earlier ends by w, and no earlier than x.
<1>9. ASSUME s < r
      PROVE  \E t \in b .. y : (t \div Hz) \div Seconds = m /\ (t \div Hz) % Seconds = s
  <2>1. p <= g
    <3>1. p = (p \div Seconds) * Seconds + s /\ p \div Seconds \in Int
      BY <1>1, <1>2, <1>5, DivMod
    <3> DEFINE j == p \div Seconds
    <3>2. j <= m
      BY <1>1, <1>2, DivMonotone DEF m
    <3>3. (m - j) * Seconds >= 0
      BY <1>1, <1>3, <3>1, <3>2
    <3>4. m * Seconds - j * Seconds >= 0 /\ j * Seconds \in Int /\ m * Seconds \in Int
      BY <1>1, <1>3, <3>1, <3>3
    <3> DEFINE j2 == j * Seconds
               m2 == m * Seconds
    <3>5. p = j2 + s /\ g = m2 + s /\ j2 <= m2 /\ j2 \in Int /\ m2 \in Int
      BY <3>1, <3>4
    <3> HIDE DEF j2, m2, g
    <3>. QED
      BY <1>3, <3>5
  <2>2. g < v
    BY <1>1, <1>3, <1>9
  <2> DEFINE t == g * Hz + (Hz - 1)
  <2> HIDE DEF g
  <2>3. t \div Hz = g
    <3>1. Hz - 1 \in Nat /\ Hz - 1 < Hz
      BY <1>1
    <3>. QED
      BY <1>1, <1>4, <3>1, DivIs
  <2>4. t \in Int /\ x <= t /\ t < w
    <3>1. (g - p) * Hz >= 0 /\ (v - g - 1) * Hz >= 0
      BY <1>1, <1>2, <1>4, <2>1, <2>2
    <3>2. g * Hz - p * Hz >= 0 /\ v * Hz - g * Hz - Hz >= 0
      BY <1>1, <1>2, <1>4, <3>1
    <3> DEFINE p2 == p * Hz
               g2 == g * Hz
               v2 == v * Hz
    <3>3. /\ p2 \in Int /\ g2 \in Int /\ v2 \in Int /\ g2 >= p2 /\ v2 >= g2 + Hz
          /\ x = p2 + (x % Hz) /\ w = v2 + (w % Hz) /\ t = g2 + (Hz - 1)
      BY <1>1, <1>2, <1>4, <1>6, <3>2
    <3> HIDE DEF p2, g2, v2, t
    <3>. QED
      BY <1>1, <1>6, <3>3
  <2>5. t \in b .. y
    BY <2>4
  <2>. QED
    BY <1>4, <2>3, <2>5
<1>10. \E t \in b .. y : (t \div Hz) \div Seconds = m /\ (t \div Hz) % Seconds = s
  BY <1>3, <1>7, <1>8, <1>9
<1>. QED
  BY <1>10 DEF p, v, m, s, IsNear

\* The date that both readings show was the chip's at one moment.
IsRound(r, x, y, a, w, z) == a <= x /\ x <= w /\ w <= y /\ y <= z /\ Wall!Field(r, x) = Wall!Field(r, y)

IsDate(t, x) == \A r \in Fields : Wall!Field(r, t) = Wall!Field(r, x[r])

LEMMA DateWasTrue ==
  ASSUME NEW a \in Nat, NEW b \in Nat, NEW w \in Nat, NEW z \in Nat, a <= b, z <= a + (Minutes - 1) * Seconds * Hz,
         NEW x \in [Fields -> Nat], NEW y \in [Fields -> Nat],
         \A r \in Fields : IsRound(r, x[r], y[r], a, w, z),
         b <= x["second"]
  PROVE  \E t \in b .. z : IsDate(t, x)
<1>0. \A r \in Fields : a <= x[r] /\ x[r] <= w /\ w <= y[r] /\ y[r] <= z /\ Wall!Field(r, x[r]) = Wall!Field(r, y[r])
  BY DEF IsRound
<1>1. /\ Hz \in Nat \ {0} /\ Seconds \in Nat \ {0} /\ Minutes \in Nat \ {0} /\ 2 * HalfDay \in Nat \ {0} /\ HalfDay \in Nat \ {0}
      /\ Minutes * Seconds \in Nat \ {0} /\ 2 * HalfDay * Minutes * Seconds \in Nat \ {0}
      /\ (Minutes - 1) * Seconds * Hz \in Int
  BY ClockNumbers
<1>2. \A t : /\ Wall!Field("day", t) = (t \div Hz) \div (2 * HalfDay * Minutes * Seconds)
             /\ Wall!Field("hour", t) = ((t \div Hz) \div (Minutes * Seconds)) % (2 * HalfDay)
             /\ Wall!Field("minute", t) = ((t \div Hz) \div Seconds) % Minutes
             /\ Wall!Field("second", t) = (t \div Hz) % Seconds
  BY Zenon DEF Wall!Field, Wall!SecondAt
<1>3. \A r \in Fields : y[r] <= x[r] + (Minutes - 1) * Seconds * Hz
  BY <1>0, <1>1
<1>4. \A r \in Fields :
        /\ (y[r] \div Hz) \div Seconds <= (x[r] \div Hz) \div Seconds + (Minutes - 1)
        /\ (y[r] \div Hz) \div (Minutes * Seconds) <= (x[r] \div Hz) \div (Minutes * Seconds) + 1
  BY <1>3, TimesAreNear
<1>5. \A t \in Nat, n \in Nat \ {0} : (t \div Hz) \div n \in Int
  BY <1>1, DivMod
<1>6. (w \div Hz) \div Seconds = (x["minute"] \div Hz) \div Seconds
  <2>1. x["minute"] \in Nat /\ y["minute"] \in Nat /\ x["minute"] <= w /\ w <= y["minute"]
    BY <1>0 DEF Fields
  <2>2. ((x["minute"] \div Hz) \div Seconds) % Minutes = ((y["minute"] \div Hz) \div Seconds) % Minutes
    BY <1>0, <1>2 DEF Fields
  <2>3. (y["minute"] \div Hz) \div Seconds - (x["minute"] \div Hz) \div Seconds < Minutes
    BY <1>1, <1>4, <1>5, <2>1 DEF Fields
  <2>. QED
    <3> DEFINE n == Seconds
               m == Minutes
               u == x["minute"]
               v == y["minute"]
    <3>1. n \in Nat \ {0} /\ m \in Nat \ {0}
      BY <1>1
    <3>2. /\ u \in Nat /\ v \in Nat /\ u <= w /\ w <= v
          /\ (v \div Hz) \div n - (u \div Hz) \div n < m /\ ((u \div Hz) \div n) % m = ((v \div Hz) \div n) % m
      BY <2>1, <2>2, <2>3
    <3> HIDE DEF n, m, u, v
    <3>3. (w \div Hz) \div n = (u \div Hz) \div n
      BY <3>1, <3>2, CountIsStill
    <3>. QED
      BY <3>3 DEF n, u
<1>7. (w \div Hz) \div (Minutes * Seconds) = (x["hour"] \div Hz) \div (Minutes * Seconds)
  <2>1. x["hour"] \in Nat /\ y["hour"] \in Nat /\ x["hour"] <= w /\ w <= y["hour"]
    BY <1>0 DEF Fields
  <2>2. ((x["hour"] \div Hz) \div (Minutes * Seconds)) % (2 * HalfDay) = ((y["hour"] \div Hz) \div (Minutes * Seconds)) % (2 * HalfDay)
    BY <1>0, <1>2 DEF Fields
  <2>3. (y["hour"] \div Hz) \div (Minutes * Seconds) - (x["hour"] \div Hz) \div (Minutes * Seconds) < 2 * HalfDay
    <3>1. (y["hour"] \div Hz) \div (Minutes * Seconds) <= (x["hour"] \div Hz) \div (Minutes * Seconds) + 1
      BY <1>4 DEF Fields
    <3>2. (y["hour"] \div Hz) \div (Minutes * Seconds) \in Int /\ (x["hour"] \div Hz) \div (Minutes * Seconds) \in Int
      BY <1>1, <1>5, <2>1
    <3>. QED
      BY <1>1, <3>1, <3>2
  <2>. QED
    <3> DEFINE n == Minutes * Seconds
               m == 2 * HalfDay
               u == x["hour"]
               v == y["hour"]
    <3>1. n \in Nat \ {0} /\ m \in Nat \ {0}
      BY <1>1
    <3>2. /\ u \in Nat /\ v \in Nat /\ u <= w /\ w <= v
          /\ (v \div Hz) \div n - (u \div Hz) \div n < m /\ ((u \div Hz) \div n) % m = ((v \div Hz) \div n) % m
      BY <2>1, <2>2, <2>3
    <3> HIDE DEF n, m, u, v
    <3>3. (w \div Hz) \div n = (u \div Hz) \div n
      BY <3>1, <3>2, CountIsStill
    <3>. QED
      BY <3>3 DEF n, u
<1>8. (w \div Hz) \div (2 * HalfDay * Minutes * Seconds) = (x["day"] \div Hz) \div (2 * HalfDay * Minutes * Seconds)
  <2> DEFINE n == 2 * HalfDay * Minutes * Seconds
  <2>1. x["day"] \in Nat /\ y["day"] \in Nat /\ x["day"] <= w /\ w <= y["day"]
    BY <1>0 DEF Fields
  <2>2. (x["day"] \div Hz) \div n = (y["day"] \div Hz) \div n
    BY <1>0, <1>2 DEF Fields
  <2>3. n \in Nat \ {0} /\ (x["day"] \div Hz) \div n \in Int
    BY <1>1, <1>5, <2>1
  <2> HIDE DEF n
  <2>4. (y["day"] \div Hz) \div n - (x["day"] \div Hz) \div n < 1
    BY <2>2, <2>3
  <2>5. (w \div Hz) \div n = (x["day"] \div Hz) \div n
    BY <2>1, <2>2, <2>3, <2>4, CountIsStill
  <2>. QED
    BY <2>5 DEF n
<1>9. PICK t \in b .. y["second"] : IsNear(t, w, x["second"])
  <2>1. x["second"] \in Nat /\ y["second"] \in Nat /\ x["second"] <= w /\ w <= y["second"]
    BY <1>0 DEF Fields
  <2>2. (x["second"] \div Hz) % Seconds = (y["second"] \div Hz) % Seconds
    BY <1>0, <1>2 DEF Fields
  <2>. QED
    <3> DEFINE u == x["second"]
               v == y["second"]
    <3>1. u \in Nat /\ v \in Nat /\ u <= w /\ w <= v /\ b <= u /\ (u \div Hz) % Seconds = (v \div Hz) % Seconds
      BY <2>1, <2>2
    <3> HIDE DEF u, v
    <3>2. \E t \in b .. v : IsNear(t, w, u)
      BY <3>1, SecondIsNear
    <3>. QED
      BY <3>2 DEF u, v
<1>10. t \in b .. z
  <2>1. y["second"] \in Nat /\ y["second"] <= z
    BY <1>0 DEF Fields
  <2>. QED
    BY <1>9, <2>1
<1>11. /\ (t \div Hz) \div (Minutes * Seconds) = (w \div Hz) \div (Minutes * Seconds)
       /\ (t \div Hz) \div (2 * HalfDay * Minutes * Seconds) = (w \div Hz) \div (2 * HalfDay * Minutes * Seconds)
  <2>1. t \div Hz \in Int /\ w \div Hz \in Int
    BY <1>1, <1>10, DivMod
  <2>. QED
    BY <1>9, <2>1, SameMinute DEF IsNear
<1>12. /\ Wall!Field("day", t) = Wall!Field("day", x["day"]) /\ Wall!Field("hour", t) = Wall!Field("hour", x["hour"])
       /\ Wall!Field("minute", t) = Wall!Field("minute", x["minute"]) /\ Wall!Field("second", t) = Wall!Field("second", x["second"])
  BY <1>2, <1>6, <1>7, <1>8, <1>9, <1>11, Zenon DEF IsNear
<1>. QED
  BY <1>10, <1>12 DEF Fields, IsDate


(***************************************************************************)
(* The kernel's clock (clock.rs).  Its first reading was made of what the  *)
(* chip showed until a moment between the readings, the second of what it  *)
(* shows since; the date that it starts from was true at such a moment.    *)
(***************************************************************************)
Shows(s) == {RegisterOf(s, r, t) : r \in Fields, t \in Nat}

\* The time of the last value that the chip of machine s may show at tick t.
LatestOf(s, t) == IF (s.start + t) % Hz = Hz - 1 THEN s.start + t + 1 ELSE s.start + t

ReadIn(s, values, from, to) ==
  \A k \in 1 .. Len(values) : \E x \in from .. to : values[k] = RegisterOf(s, Wall!Order[k], x)

\* The seconds come last.
FirstIn(s, values, began, to) ==
  /\ ReadIn(s, values, s.start, to)
  /\ Len(values) = 4 => \E x \in s.start + began .. to : values[4] = RegisterOf(s, "second", x)

DateIn(s, date, began, origin) ==
  /\ date = [day |-> date.day, hour |-> date.hour, minute |-> date.minute, second |-> date.second]
  /\ \E t \in began .. origin + 1 : \A r \in Fields : date[r] = Wall!Field(r, s.start + t)

WallTypes ==
  /\ source \in Wall!Kernels /\ code \in Nat
  /\ walk = [pc |-> walk.pc, hz |-> walk.hz, from |-> walk.from, restarted |-> walk.restarted, start |-> walk.start,
             tries |-> walk.tries, first |-> walk.first, second |-> walk.second, began |-> walk.began]
  /\ walk.hz \in Nat /\ walk.restarted \in Nat /\ walk.start \in Nat /\ walk.began \in Nat
  /\ walk.first \in Seq(Shows(source)) /\ walk.second \in Seq(Shows(source))

RateInv ==
  /\ walk.pc \in {"rate", "restart", "started", "poll"} => walk.from = "none"
  /\ walk.from = "hypervisor" => walk.hz = Hz
  /\ walk.from = "crystal" /\ source.crystal.hz # 0 => walk.hz = Hz
  /\ walk.from = "pit" /\ walk.start = walk.restarted => walk.hz >= Hz

\* Before a clock is started.
ChipInv ==
  /\ code <= LongestStart /\ walk.began <= code /\ walk.pc # "runs"
  /\ Len(walk.first) <= 4 /\ Len(walk.second) <= 4
  /\ walk.pc \notin {"read", "agree"} => walk.second = <<>>
  /\ walk.pc = "read" => IF Len(walk.first) = 4 THEN Len(walk.second) < 4 ELSE walk.second = <<>>
  /\ walk.pc = "agree" => Len(walk.first) = 4 /\ Len(walk.second) = 4
  /\ FirstIn(source, walk.first, walk.began, LatestOf(source, code))
  /\ walk.pc \in {"read", "agree"} /\ Len(walk.first) = 4 =>
       \E w \in walk.began .. code :
         /\ FirstIn(source, walk.first, walk.began, source.start + w)
         /\ ReadIn(source, walk.second, source.start + w, LatestOf(source, code))

\* And after.
RunsInv ==
  LET clock == answers[1]
  IN /\ walk.pc = "runs" /\ answers = <<clock>>
     /\ clock.hz = walk.hz /\ clock.from = walk.from
     /\ clock.origin \in Nat /\ clock.origin <= LongestStart /\ walk.began <= clock.origin
     /\ clock.origin <= code /\ code <= clock.origin + LongestRun
     /\ clock.date # <<>> => DateIn(source, clock.date[1], walk.began, clock.origin)

WallInv == WallTypes /\ RateInv /\ (answers = <<>> => ChipInv) /\ (answers # <<>> => RunsInv)

LEMMA KernelNumbers ==
  ASSUME source \in Wall!Kernels
  PROVE  source.start \in Nat
BY DEF Wall!Kernels

LEMMA WallStarts ==
  ASSUME source \in Wall!Kernels, Wall!WallInit
  PROVE  WallInv
<1>1. /\ code = 0 /\ answers = <<>>
      /\ walk = [pc |-> "rate", hz |-> 0, from |-> "none", restarted |-> 0, start |-> 0, tries |-> 0,
                 first |-> <<>>, second |-> <<>>, began |-> 0]
  BY DEF Wall!WallInit, Wall!Nothing
<1>2. \A S : <<>> \in Seq(S) /\ Len(<<>>) = 0
  BY EmptySeq
<1>3. WallTypes
  BY <1>1, <1>2 DEF WallTypes
<1>4. RateInv
  BY <1>1 DEF RateInv
<1>5. ChipInv
  BY <1>1, <1>2, ClockNumbers DEF ChipInv, FirstIn, ReadIn
<1>. QED
  BY <1>1, <1>3, <1>4, <1>5 DEF WallInv

LEMMA WallStutter ==
  ASSUME WallInv, UNCHANGED <<source, code, walk, answers>>
  PROVE  WallInv'
<1>1. WallTypes'
  BY DEF WallInv, WallTypes, Shows, RegisterOf, InCode
<1>2. RateInv'
  BY DEF WallInv, RateInv
<1>3. (answers = <<>> => ChipInv)'
  BY DEF WallInv, ChipInv
<1>4. (answers # <<>> => RunsInv)'
  BY DEF WallInv, RunsInv
<1>. QED
  BY <1>1, <1>2, <1>3, <1>4 DEF WallInv

\* As long as it is not started, what has been read stays so.
LEMMA LatestIsLater ==
  ASSUME NEW s, s.start \in Nat, NEW t \in Nat
  PROVE  /\ LatestOf(s, t) \in Nat /\ s.start + t <= LatestOf(s, t) /\ LatestOf(s, t) <= s.start + t + 1
         /\ LatestOf(s, t) <= LatestOf(s, t + 1)
BY DEF LatestOf

LEMMA ReadInLonger ==
  ASSUME NEW s, NEW values, NEW from \in Nat, NEW to \in Nat, NEW to2 \in Nat, to <= to2, ReadIn(s, values, from, to)
  PROVE  ReadIn(s, values, from, to2)
<1>1. from .. to \subseteq from .. to2
  OBVIOUS
<1>. QED
  BY <1>1 DEF ReadIn

LEMMA FirstInLonger ==
  ASSUME NEW s, s.start \in Nat, NEW values, NEW began \in Nat, NEW to \in Nat, NEW to2 \in Nat, to <= to2,
         FirstIn(s, values, began, to)
  PROVE  FirstIn(s, values, began, to2)
<1>1. s.start + began .. to \subseteq s.start + began .. to2
  OBVIOUS
<1>2. ReadIn(s, values, s.start, to2)
  BY ReadInLonger DEF FirstIn
<1>. QED
  BY <1>1, <1>2 DEF FirstIn

\* A step before the chip is read, or that is no reading.
LEMMA RateStep ==
  ASSUME WallInv, answers = <<>>, source' = source, code' = code, answers' = answers,
         walk.pc \in {"rate", "restart", "started", "poll"}, walk'.pc \in {"restart", "started", "poll", "rtc"},
         walk' = [pc |-> walk'.pc, hz |-> walk'.hz, from |-> walk'.from, restarted |-> walk'.restarted, start |-> walk'.start,
                  tries |-> walk.tries, first |-> walk.first, second |-> walk.second, began |-> walk.began],
         walk'.hz \in Nat, walk'.restarted \in Nat, walk'.start \in Nat, RateInv'
  PROVE  WallInv'
<1>1. WallTypes /\ ChipInv /\ walk.second = <<>>
  BY DEF WallInv, ChipInv
<1>2. /\ walk'.first = walk.first /\ walk'.second = walk.second /\ walk'.began = walk.began /\ walk'.tries = walk.tries
  OBVIOUS
<1>3. WallTypes'
  BY <1>1, <1>2 DEF WallTypes, Shows, RegisterOf, InCode
<1>4. ChipInv'
  BY <1>1, <1>2 DEF ChipInv
<1>. QED
  BY <1>3, <1>4 DEF WallInv

LEMMA StatedStep ==
  ASSUME WallInv, answers = <<>>, source' = source, Wall!MeasureStated
  PROVE  WallInv'
<1>1. WallTypes /\ walk.pc = "rate" /\ code' = code /\ answers' = answers /\ walk.from = "none"
  BY DEF WallInv, RateInv, Wall!MeasureStated, Wall!At
<1>2. Lowest \in Nat /\ Highest \in Nat
  BY ClockNumbers
<1>3. CASE Wall!HypervisorHz # 0
  <2>1. walk' = [walk EXCEPT !.hz = Wall!HypervisorHz, !.from = "hypervisor", !.pc = "rtc"]
    BY <1>3, Zenon DEF Wall!MeasureStated, Wall!Rated
  <2>2. Wall!HypervisorHz = Hz
    <3>1. source.hyper # <<>> /\ Wall!Plausible(source.hyper[1]) # 0
      BY <1>3 DEF Wall!HypervisorHz, Wall!Nothing
    <3>2. source.hyper[1] \in Lowest .. Highest /\ Wall!HypervisorHz = source.hyper[1]
      BY <3>1 DEF Wall!Plausible, Wall!HypervisorHz, Wall!Nothing
    <3>. QED
      BY <1>1, <3>1, <3>2 DEF WallTypes, Wall!Kernels, Wall!Nothing
  <2>3. walk' = [pc |-> "rtc", hz |-> Hz, from |-> "hypervisor", restarted |-> walk.restarted, start |-> walk.start,
                 tries |-> walk.tries, first |-> walk.first, second |-> walk.second, began |-> walk.began]
    BY <1>1, <2>1, <2>2 DEF WallTypes
  <2>4. RateInv'
    BY <2>3 DEF RateInv
  <2>. QED
    BY <1>1, <2>3, <2>4, RateStep, ClockNumbers DEF WallTypes
<1>4. CASE Wall!HypervisorHz = 0 /\ Wall!CrystalHz # 0
  <2> DEFINE taken == Wall!CrystalHz
  <2>1. walk' = [walk EXCEPT !.hz = taken, !.from = "crystal", !.pc = "rtc"]
    BY <1>4, Zenon DEF Wall!MeasureStated, Wall!Rated
  <2>2. taken \in Lowest .. Highest
    BY <1>4 DEF Wall!CrystalHz, Wall!Plausible
  <2>3. source.crystal.hz # 0 => taken = Hz
    <3> SUFFICES ASSUME source.crystal.hz # 0 PROVE taken = Hz
      OBVIOUS
    <3> DEFINE c == source.crystal
               stated == (c.hz * c.numerator) \div c.denominator
    <3>1. c.denominator # 0 /\ stated \in Lowest .. Highest /\ taken = stated
      BY <1>4 DEF Wall!CrystalHz, Wall!Plausible
    <3>2. c.hz # 0 /\ c.denominator # 0 => (stated \in Lowest .. Highest => taken = Hz)
      BY <1>1, <3>1 DEF WallTypes, Wall!Kernels
    <3>. QED
      BY <3>1, <3>2
  <2> HIDE DEF taken
  <2>4. walk' = [pc |-> "rtc", hz |-> taken, from |-> "crystal", restarted |-> walk.restarted, start |-> walk.start,
                 tries |-> walk.tries, first |-> walk.first, second |-> walk.second, began |-> walk.began]
    BY <1>1, <2>1 DEF WallTypes
  <2>5. RateInv'
    BY <2>3, <2>4 DEF RateInv
  <2>6. taken \in Nat
    BY <1>2, <2>2
  <2>. QED
    BY <1>1, <2>4, <2>5, <2>6, RateStep DEF WallTypes
<1>5. CASE Wall!HypervisorHz = 0 /\ Wall!CrystalHz = 0
  <2>1. walk' = [walk EXCEPT !.pc = "restart"]
    BY <1>5, Zenon DEF Wall!MeasureStated
  <2>2. walk' = [pc |-> "restart", hz |-> walk.hz, from |-> walk.from, restarted |-> walk.restarted, start |-> walk.start,
                 tries |-> walk.tries, first |-> walk.first, second |-> walk.second, began |-> walk.began]
    BY <1>1, <2>1 DEF WallTypes
  <2>3. RateInv'
    BY <1>1, <2>2 DEF RateInv
  <2>. QED
    BY <1>1, <2>2, <2>3, RateStep DEF WallTypes
<1>. QED
  BY <1>3, <1>4, <1>5

LEMMA PitStep ==
  ASSUME WallInv, answers = <<>>, source' = source, Wall!PitRestart \/ Wall!PitStart
  PROVE  WallInv'
<1>1. WallTypes /\ code' = code /\ answers' = answers /\ walk.pc \in {"restart", "started"} /\ walk.from = "none" /\ code \in Nat
  BY DEF WallInv, WallTypes, RateInv, Wall!PitRestart, Wall!PitStart, Wall!At
<1>2. CASE Wall!PitRestart
  <2>1. walk' = [walk EXCEPT !.pc = "started", !.restarted = code]
    BY <1>2 DEF Wall!PitRestart
  <2>2. walk' = [pc |-> "started", hz |-> walk.hz, from |-> walk.from, restarted |-> code, start |-> walk.start,
                 tries |-> walk.tries, first |-> walk.first, second |-> walk.second, began |-> walk.began]
    BY <1>1, <2>1 DEF WallTypes
  <2>3. RateInv'
    BY <1>1, <2>2 DEF RateInv
  <2>. QED
    BY <1>1, <2>2, <2>3, RateStep DEF WallTypes
<1>3. CASE Wall!PitStart
  <2>1. walk' = [walk EXCEPT !.pc = "poll", !.start = code]
    BY <1>3 DEF Wall!PitStart
  <2>2. walk' = [pc |-> "poll", hz |-> walk.hz, from |-> walk.from, restarted |-> walk.restarted, start |-> code,
                 tries |-> walk.tries, first |-> walk.first, second |-> walk.second, began |-> walk.began]
    BY <1>1, <2>1 DEF WallTypes
  <2>3. RateInv'
    BY <1>1, <2>2 DEF RateInv
  <2>. QED
    BY <1>1, <2>2, <2>3, RateStep DEF WallTypes
<1>. QED
  BY <1>2, <1>3

\* A timer that was started when it was read is not measured too slow.
LEMMA PitIsNotSlow ==
  ASSUME NEW n \in Nat, n >= Interval
  PROVE  (n * Hz) \div Interval >= Hz
<1>1. Interval \in Nat \ {0} /\ Hz \in Nat \ {0}
  BY ClockNumbers
<1>2. (n - Interval) * Hz >= 0
  BY <1>1
<1>3. n * Hz - Interval * Hz >= 0 /\ n * Hz \in Int /\ Interval * Hz \in Int /\ Interval * Hz = Hz * Interval
  BY <1>1, <1>2
<1>4. Hz * Interval <= n * Hz
  BY <1>3
<1> DEFINE a == Hz * Interval
           b == n * Hz
<1>6. a \div Interval = Hz
  BY <1>1, DivExact
<1>7. a \in Int /\ b \in Int /\ a <= b
  BY <1>3, <1>4
<1> HIDE DEF a, b
<1>8. a \div Interval <= b \div Interval
  BY <1>1, <1>7, DivMonotone
<1>9. b \div Interval \in Int
  BY <1>1, <1>7, DivMod
<1>. QED
  BY <1>1, <1>6, <1>8, <1>9 DEF b

LEMMA PitEndStep ==
  ASSUME WallInv, answers = <<>>, source' = source, Wall!PitEnd
  PROVE  WallInv'
<1>1. WallTypes /\ code' = code /\ answers' = answers /\ walk.pc = "poll" /\ code \in Nat /\ walk.start \in Nat /\ walk.restarted \in Nat
  BY DEF WallInv, WallTypes, Wall!PitEnd, Wall!At
<1>2. Lowest \in Nat /\ Highest \in Nat /\ UnknownHz \in Nat /\ Interval \in Nat \ {0}
  BY ClockNumbers
<1> DEFINE rate == ((code - walk.start) * Hz) \div Interval
           taken == IF source.pit THEN Wall!Plausible(rate) ELSE 0
<1>3. \A h, from : Wall!Rated(h, from) =>
        walk' = [pc |-> "rtc", hz |-> h, from |-> from, restarted |-> walk.restarted, start |-> walk.start,
                 tries |-> walk.tries, first |-> walk.first, second |-> walk.second, began |-> walk.began]
  <2> TAKE h, from
  <2> SUFFICES ASSUME Wall!Rated(h, from)
               PROVE  walk' = [pc |-> "rtc", hz |-> h, from |-> from, restarted |-> walk.restarted, start |-> walk.start,
                               tries |-> walk.tries, first |-> walk.first, second |-> walk.second, began |-> walk.began]
    OBVIOUS
  <2>1. walk' = [walk EXCEPT !.hz = h, !.from = from, !.pc = "rtc"]
    BY DEF Wall!Rated
  <2>. QED
    BY <1>1, <2>1 DEF WallTypes
<1>4. CASE taken # 0
  <2>1. Wall!Rated(taken, "pit")
    BY <1>4 DEF Wall!PitEnd
  <2>2. source.pit /\ taken = rate /\ rate \in Lowest .. Highest /\ code >= walk.restarted + Interval
    <3>1. source.pit
      BY <1>4
    <3>2. code >= walk.restarted + Interval
      BY <3>1 DEF Wall!PitEnd
    <3> HIDE DEF rate
    <3>3. taken = rate /\ rate \in Lowest .. Highest
      BY <1>4, <3>1 DEF Wall!Plausible
    <3>. QED
      BY <3>1, <3>2, <3>3
  <2>3. walk.start = walk.restarted => taken >= Hz
    <3> SUFFICES ASSUME walk.start = walk.restarted PROVE taken >= Hz
      OBVIOUS
    <3> DEFINE n == code - walk.start
    <3>1. n \in Nat /\ n >= Interval
      BY <1>1, <1>2, <2>2
    <3> HIDE DEF n
    <3>2. (n * Hz) \div Interval >= Hz
      BY <3>1, PitIsNotSlow
    <3>. QED
      BY <2>2, <3>2 DEF n
  <2>4. taken \in Nat
    BY <1>2, <2>2
  <2> HIDE DEF taken
  <2>5. walk' = [pc |-> "rtc", hz |-> taken, from |-> "pit", restarted |-> walk.restarted, start |-> walk.start,
                 tries |-> walk.tries, first |-> walk.first, second |-> walk.second, began |-> walk.began]
    BY <1>3, <2>1
  <2>6. RateInv'
    BY <2>3, <2>5 DEF RateInv
  <2>. QED
    BY <1>1, <2>4, <2>5, <2>6, RateStep
<1>5. CASE taken = 0
  <2>1. Wall!AfterThePit
    BY <1>5 DEF Wall!PitEnd
  <2>2. PICK h \in Nat, from \in {"base", "unknown"} : Wall!Rated(h, from)
    <3>1. Wall!BaseHz \in Nat
      BY <1>2 DEF Wall!BaseHz, Wall!Plausible
    <3>. QED
      BY <1>2, <2>1, <3>1 DEF Wall!AfterThePit
  <2>3. walk' = [pc |-> "rtc", hz |-> h, from |-> from, restarted |-> walk.restarted, start |-> walk.start,
                 tries |-> walk.tries, first |-> walk.first, second |-> walk.second, began |-> walk.began]
    BY <1>3, <2>2
  <2>4. RateInv'
    BY <2>2, <2>3 DEF RateInv
  <2>. QED
    BY <1>1, <2>3, <2>4, RateStep
<1> HIDE DEF taken
<1>. QED
  BY <1>4, <1>5, Zenon

\* A clock is started.
LEMMA StartStep ==
  ASSUME WallInv, answers = <<>>, source' = source, code' = code, NEW date, Wall!Start(date),
         date # <<>> => DateIn(source, date[1], walk.began, code)
  PROVE  WallInv'
<1>1. WallTypes /\ ChipInv /\ RateInv
  BY DEF WallInv
<1> DEFINE clock == [hz |-> walk.hz, from |-> walk.from, origin |-> code, date |-> date]
<1>2. answers' = <<clock>> /\ walk' = [walk EXCEPT !.pc = "runs"]
  BY DEF Wall!Start
<1>3. walk' = [pc |-> "runs", hz |-> walk.hz, from |-> walk.from, restarted |-> walk.restarted, start |-> walk.start,
               tries |-> walk.tries, first |-> walk.first, second |-> walk.second, began |-> walk.began]
  BY <1>1, <1>2 DEF WallTypes
<1>4. WallTypes'
  BY <1>1, <1>3 DEF WallTypes, Shows, RegisterOf, InCode
<1>5. RateInv'
  BY <1>1, <1>3 DEF RateInv
<1>6. /\ clock.hz = walk.hz /\ clock.from = walk.from /\ clock.origin = code /\ clock.date = date
      /\ answers' # <<>> /\ answers'[1] = clock
  BY <1>2
<1> HIDE DEF clock
<1>7. RunsInv'
  <2>1. walk'.pc = "runs" /\ walk'.hz = walk.hz /\ walk'.from = walk.from /\ walk'.began = walk.began
    BY <1>3
  <2>2. code \in Nat /\ code <= LongestStart /\ walk.began <= code /\ code <= code + LongestRun
    <3>1. code \in Nat /\ code <= LongestStart /\ walk.began <= code
      BY <1>1 DEF WallTypes, ChipInv
    <3>2. LongestRun \in Nat
      BY ClockNumbers
    <3>. QED
      BY <3>1, <3>2
  <2>. QED
    BY <1>2, <1>6, <2>1, <2>2 DEF RunsInv
<1>. QED
  BY <1>4, <1>5, <1>6, <1>7 DEF WallInv

\* A reading waits for the chip.
LEMMA WaitStep ==
  ASSUME WallInv, answers = <<>>, source' = source, Wall!WaitForRtc
  PROVE  WallInv'
<1>1. WallTypes /\ ChipInv /\ RateInv /\ walk.pc = "rtc" /\ code' = code /\ answers' = answers /\ ~Wall!Updating
  BY DEF WallInv, Wall!WaitForRtc, Wall!At
<1>2. walk' = [pc |-> "read", hz |-> walk.hz, from |-> walk.from, restarted |-> walk.restarted, start |-> walk.start,
               tries |-> walk.tries, first |-> walk.first, second |-> walk.second, began |-> walk.began]
  <2>1. walk' = [walk EXCEPT !.pc = "read"]
    BY DEF Wall!WaitForRtc
  <2>. QED
    BY <1>1, <2>1 DEF WallTypes
<1>3. WallTypes'
  BY <1>1, <1>2 DEF WallTypes, Shows, RegisterOf, InCode
<1>4. RateInv'
  BY <1>1, <1>2 DEF RateInv
<1>5. LatestOf(source, code) = source.start + code
  BY <1>1 DEF LatestOf, Wall!Updating, Wall!Truth
<1>6. walk.second = <<>> /\ Len(<<>>) = 0 /\ walk.began <= code /\ walk.began \in Nat /\ code \in Nat
  BY <1>1, EmptySeq DEF ChipInv, WallTypes
<1>7. code \in walk.began .. code /\ FirstIn(source, walk.first, walk.began, source.start + code)
  BY <1>1, <1>5, <1>6 DEF ChipInv
<1>8. ReadIn(source, walk.second, source.start + code, LatestOf(source, code))
  BY <1>6 DEF ReadIn
<1>9. ChipInv'
  BY <1>1, <1>2, <1>6, <1>7, <1>8 DEF ChipInv
<1>. QED
  BY <1>1, <1>3, <1>4, <1>9 DEF WallInv

\* A register is read.
LEMMA OneRead ==
  ASSUME NEW s, s.start \in Nat, NEW t \in Nat, NEW values \in Seq(Shows(s)), NEW from \in Nat, from <= s.start + t,
         NEW r \in Fields, Len(values) < 4, r = Wall!Order[Len(values) + 1],
         NEW x \in s.start + t .. LatestOf(s, t),
         ReadIn(s, values, from, LatestOf(s, t))
  PROVE  LET got == Append(values, RegisterOf(s, r, x))
         IN /\ got \in Seq(Shows(s)) /\ Len(got) = Len(values) + 1 /\ got[Len(values) + 1] = RegisterOf(s, r, x)
            /\ ReadIn(s, got, from, LatestOf(s, t))
<1> DEFINE v == RegisterOf(s, r, x)
           got == Append(values, v)
<1>1. LatestOf(s, t) \in Nat /\ x \in Nat /\ x \in from .. LatestOf(s, t)
  <2>1. LatestOf(s, t) \in Nat
    BY LatestIsLater, Zenon
  <2>2. s.start + t \in Nat
    OBVIOUS
  <2>. QED
    BY <2>1, <2>2
<1>2. v \in Shows(s)
  BY <1>1 DEF Shows
<1>3. \E z \in from .. LatestOf(s, t) : v = RegisterOf(s, Wall!Order[Len(values) + 1], z)
  BY <1>1
<1> HIDE DEF v
<1>4. /\ got \in Seq(Shows(s)) /\ Len(got) = Len(values) + 1 /\ Len(values) \in Nat
      /\ \A k \in 1 .. Len(values) : got[k] = values[k]
      /\ got[Len(values) + 1] = v
  BY <1>2, AppendProperties, LenProperties
<1> HIDE DEF got
<1>5. \A k \in 1 .. Len(values) + 1 : k = Len(values) + 1 \/ k \in 1 .. Len(values)
  BY <1>4
<1>6. ReadIn(s, got, from, LatestOf(s, t))
  BY <1>3, <1>4, <1>5 DEF ReadIn
<1>. QED
  BY <1>4, <1>6 DEF v, got

LEMMA RawStep ==
  ASSUME WallInv, answers = <<>>, source' = source, Wall!RawRtc
  PROVE  WallInv'
<1>1. WallTypes /\ ChipInv /\ RateInv /\ walk.pc = "read" /\ code' = code /\ answers' = answers
  BY DEF WallInv, Wall!RawRtc, Wall!At
<1>2. /\ source.start \in Nat /\ code \in Nat /\ walk.began \in Nat
      /\ walk.first \in Seq(Shows(source)) /\ walk.second \in Seq(Shows(source))
      /\ Len(walk.first) \in Nat /\ Len(walk.second) \in Nat
      /\ source.start + code \in Nat /\ source.start <= source.start + code
  BY <1>1, KernelNumbers, LenProperties DEF WallTypes
<1>3. /\ Len(Wall!Order) = 4
      /\ \A k \in 1 .. 4 : Wall!Order[k] \in Fields
      /\ Wall!Order[4] = "second"
  BY DEF Wall!Order, Fields
<1>4. \A r : \A v \in Wall!Shown(r) : \E x \in source.start + code .. LatestOf(source, code) : v = RegisterOf(source, r, x)
  <2> SUFFICES ASSUME NEW r, NEW v \in Wall!Shown(r)
               PROVE  \E x \in source.start + code .. LatestOf(source, code) : v = RegisterOf(source, r, x)
    OBVIOUS
  <2>1. CASE v = RegisterOf(source, r, source.start + code)
    BY <1>2, <2>1, LatestIsLater
  <2>2. CASE Wall!Updating /\ v = RegisterOf(source, r, source.start + code + 1)
    <3>1. LatestOf(source, code) = source.start + code + 1
      BY <2>2 DEF LatestOf, Wall!Updating, Wall!Truth
    <3>. QED
      BY <1>2, <2>2, <3>1
  <2>. QED
    BY <2>1, <2>2, RegisterIs DEF Wall!Shown, Wall!Truth
<1>5. CASE Len(walk.first) = 4
  <2> DEFINE n == Len(walk.second)
             r == Wall!Order[n + 1]
  <2>1. Wall!Reading = "second" /\ n < 4 /\ n \in Nat
    BY <1>1, <1>2, <1>3, <1>5 DEF Wall!Reading, ChipInv
  <2>2. PICK v \in Wall!Shown(r) :
          LET got == Append(walk.second, v)
          IN walk' = [walk EXCEPT !.second = got, !.began = walk.began, !.pc = IF Len(got) < 4 THEN "read" ELSE "agree"]
    <3>1. PICK v \in Wall!Shown(Wall!Order[Len(walk["second"]) + 1]) :
            LET got == Append(walk["second"], v)
            IN walk' = [walk EXCEPT !["second"] = got, !.began = IF "second" = "first" THEN code ELSE walk.began,
                                    !.pc = IF Len(got) < Len(Wall!Order) THEN "read" ELSE IF "second" = "first" THEN "rtc" ELSE "agree"]
      BY <2>1 DEF Wall!RawRtc
    <3>. QED
      BY <1>3, <3>1
  <2>3. PICK x \in source.start + code .. LatestOf(source, code) : v = RegisterOf(source, r, x)
    BY <1>4, <2>2
  <2>4. PICK w \in walk.began .. code : /\ FirstIn(source, walk.first, walk.began, source.start + w)
                                       /\ ReadIn(source, walk.second, source.start + w, LatestOf(source, code))
    BY <1>1, <1>5 DEF ChipInv
  <2> DEFINE got == Append(walk.second, v)
  <2>5. /\ got \in Seq(Shows(source)) /\ Len(got) = n + 1 /\ ReadIn(source, got, source.start + w, LatestOf(source, code))
    <3>1. r \in Fields
      BY <1>3, <2>1
    <3>2. source.start + w \in Nat /\ source.start + w <= source.start + code
      BY <1>2, <2>4
    <3> DEFINE values == walk.second
               from == source.start + w
    <3>3. /\ values \in Seq(Shows(source)) /\ Len(values) < 4 /\ r = Wall!Order[Len(values) + 1] /\ r \in Fields
          /\ from \in Nat /\ from <= source.start + code /\ ReadIn(source, values, from, LatestOf(source, code))
      BY <1>2, <2>1, <2>4, <3>1, <3>2
    <3> HIDE DEF values, from, r
    <3>4. /\ Append(values, v) \in Seq(Shows(source)) /\ Len(Append(values, v)) = Len(values) + 1
          /\ Append(values, v)[Len(values) + 1] = v /\ ReadIn(source, Append(values, v), from, LatestOf(source, code))
      BY <1>2, <2>3, <3>3, OneRead
    <3>. QED
      BY <3>4 DEF values, from
  <2> DEFINE pc == IF Len(got) < 4 THEN "read" ELSE "agree"
  <2>6. walk' = [pc |-> pc, hz |-> walk.hz, from |-> walk.from, restarted |-> walk.restarted, start |-> walk.start,
                 tries |-> walk.tries, first |-> walk.first, second |-> got, began |-> walk.began]
    <3>1. walk' = [walk EXCEPT !.second = got, !.began = walk.began, !.pc = pc]
      BY <2>2
    <3> HIDE DEF got, pc
    <3>. QED
      BY <1>1, <3>1 DEF WallTypes
  <2>7. (pc = "read" => n + 1 < 4) /\ (pc = "agree" => n + 1 = 4) /\ pc \in {"read", "agree"}
    BY <2>1, <2>5
  <2> HIDE DEF got, pc, n
  <2>8. WallTypes'
    BY <1>1, <2>5, <2>6 DEF WallTypes, Shows, RegisterOf, InCode
  <2>9. RateInv'
    BY <1>1, <2>6, <2>7 DEF RateInv
  <2>10. ChipInv'
    <3>1. walk'.pc = pc /\ walk'.first = walk.first /\ walk'.second = got /\ walk'.began = walk.began
      BY <2>6
    <3>2. Len(got) <= 4 /\ (pc = "read" => Len(got) < 4) /\ (pc = "agree" => Len(got) = 4)
      BY <2>1, <2>5, <2>7
    <3>3. /\ code <= LongestStart /\ walk.began <= code /\ Len(walk.first) <= 4
          /\ FirstIn(source, walk.first, walk.began, LatestOf(source, code))
      BY <1>1 DEF ChipInv
    <3>. QED
      BY <1>1, <1>5, <2>4, <2>5, <2>7, <3>1, <3>2, <3>3 DEF ChipInv
  <2>. QED
    BY <1>1, <2>8, <2>9, <2>10 DEF WallInv
<1>6. CASE Len(walk.first) # 4
  <2> DEFINE n == Len(walk.first)
             r == Wall!Order[n + 1]
  <2>1. Wall!Reading = "first" /\ n < 4 /\ n \in Nat /\ walk.second = <<>>
    <3>1. walk.second = <<>> /\ Len(walk.first) <= 4
      BY <1>1, <1>6 DEF ChipInv
    <3>2. n < 4 /\ n \in Nat
      <4>1. n \in Nat /\ n <= 4 /\ n # 4
        BY <1>2, <1>6, <3>1
      <4> HIDE DEF n
      <4>. QED
        BY <4>1
    <3>. QED
      BY <1>3, <3>1, <3>2 DEF Wall!Reading
  <2>2. PICK v \in Wall!Shown(r) :
          LET got == Append(walk.first, v)
          IN walk' = [walk EXCEPT !.first = got, !.began = code, !.pc = IF Len(got) < 4 THEN "read" ELSE "rtc"]
    <3>1. PICK v \in Wall!Shown(Wall!Order[Len(walk["first"]) + 1]) :
            LET got == Append(walk["first"], v)
            IN walk' = [walk EXCEPT !["first"] = got, !.began = IF "first" = "first" THEN code ELSE walk.began,
                                    !.pc = IF Len(got) < Len(Wall!Order) THEN "read" ELSE IF "first" = "first" THEN "rtc" ELSE "agree"]
      BY <2>1 DEF Wall!RawRtc
    <3>. QED
      BY <1>3, <3>1
  <2>3. PICK x \in source.start + code .. LatestOf(source, code) : v = RegisterOf(source, r, x)
    BY <1>4, <2>2
  <2> DEFINE got == Append(walk.first, v)
  <2>4. r \in Fields
    BY <1>3, <2>1
  <2>5. /\ got \in Seq(Shows(source)) /\ Len(got) = n + 1 /\ got[n + 1] = v
        /\ ReadIn(source, got, source.start, LatestOf(source, code))
    <3>1. ReadIn(source, walk.first, source.start, LatestOf(source, code))
      BY <1>1 DEF ChipInv, FirstIn
    <3> DEFINE values == walk.first
               from == source.start
    <3>3. /\ values \in Seq(Shows(source)) /\ Len(values) < 4 /\ r = Wall!Order[Len(values) + 1] /\ r \in Fields
          /\ from \in Nat /\ from <= source.start + code /\ ReadIn(source, values, from, LatestOf(source, code))
      BY <1>2, <2>1, <2>4, <3>1
    <3> HIDE DEF values, from, r
    <3>4. /\ Append(values, v) \in Seq(Shows(source)) /\ Len(Append(values, v)) = Len(values) + 1
          /\ Append(values, v)[Len(values) + 1] = v /\ ReadIn(source, Append(values, v), from, LatestOf(source, code))
      BY <1>2, <2>3, <3>3, OneRead
    <3>. QED
      BY <3>4 DEF values, from
  <2>6. FirstIn(source, got, code, LatestOf(source, code))
    <3>1. ASSUME Len(got) = 4
          PROVE  got[4] = RegisterOf(source, "second", x)
      BY <1>3, <2>1, <2>3, <2>5, <3>1
    <3> HIDE DEF got
    <3>. QED
      BY <2>5, <3>1 DEF FirstIn
  <2> DEFINE pc == IF Len(got) < 4 THEN "read" ELSE "rtc"
  <2>7. walk' = [pc |-> pc, hz |-> walk.hz, from |-> walk.from, restarted |-> walk.restarted, start |-> walk.start,
                 tries |-> walk.tries, first |-> got, second |-> walk.second, began |-> code]
    <3>1. walk' = [walk EXCEPT !.first = got, !.began = code, !.pc = pc]
      BY <2>2
    <3> HIDE DEF got, pc
    <3>. QED
      BY <1>1, <3>1 DEF WallTypes
  <2>8. (pc = "read" => n + 1 < 4) /\ n + 1 <= 4 /\ pc \in {"read", "rtc"}
    BY <2>1, <2>5
  <2> HIDE DEF got, pc, n
  <2>9. WallTypes'
    BY <1>1, <1>2, <2>5, <2>7 DEF WallTypes, Shows, RegisterOf, InCode
  <2>10. RateInv'
    BY <1>1, <2>7, <2>8 DEF RateInv
  <2>11. ChipInv'
    <3>1. /\ walk'.pc = pc /\ walk'.first = got /\ walk'.second = <<>> /\ walk'.began = code
      BY <2>1, <2>7
    <3>2. Len(<<>>) = 0 /\ code <= LongestStart /\ code <= code
      BY <1>1, <1>2 DEF ChipInv
    <3>3. pc = "read" => Len(got) # 4
      BY <2>1, <2>5, <2>8
    <3>. QED
      BY <1>1, <2>1, <2>5, <2>6, <2>8, <3>1, <3>2, <3>3 DEF ChipInv
  <2>. QED
    BY <1>1, <2>9, <2>10, <2>11 DEF WallInv
<1>. QED
  BY <1>5, <1>6

\* What both readings say was so.
LEMMA DateIsRead ==
  ASSUME WallTypes, ChipInv, walk.pc = "agree", Len(walk.first) = 4, walk.first = walk.second
  PROVE  DateIn(source, Wall!Date(walk.first), walk.began, code)
<1> DEFINE f == walk.first
           a == source.start
           b == source.start + walk.began
           z == LatestOf(source, code)
           Near(r, x) == \E k \in 1 .. 4 : Wall!Order[k] = r /\ f[k] = RegisterOf(source, r, x)
<1>1. a \in Nat /\ code \in Nat /\ walk.began \in Nat /\ b \in Nat /\ a <= b
  BY KernelNumbers DEF WallTypes
<1>2. z \in Nat /\ z <= a + code + 1 /\ code + 1 <= (Minutes - 1) * Seconds * Hz /\ (Minutes - 1) * Seconds * Hz \in Int
  <2>1. z \in Nat /\ z <= a + code + 1
    BY <1>1, LatestIsLater
  <2>2. code <= LongestStart /\ LongestStart < (Minutes - 1) * Seconds * Hz /\ LongestStart \in Nat /\ (Minutes - 1) * Seconds * Hz \in Int
    BY ClockNumbers DEF ChipInv
  <2>. QED
    BY <1>1, <2>1, <2>2
<1>3. z <= a + (Minutes - 1) * Seconds * Hz
  <2> DEFINE n == (Minutes - 1) * Seconds * Hz
  <2>1. z <= a + code + 1 /\ code + 1 <= n /\ n \in Int
    BY <1>2
  <2> HIDE DEF n, a, z
  <2>2. z <= a + n
    BY <1>1, <1>2, <2>1
  <2>. QED
    BY <2>2 DEF n
<1>4. PICK w0 \in walk.began .. code : FirstIn(source, f, walk.began, a + w0) /\ ReadIn(source, f, a + w0, z)
  BY DEF ChipInv
<1> DEFINE w == a + w0
<1>5. w \in Nat /\ w0 \in Nat
  BY <1>1, <1>4
<1>6. /\ Wall!Order[1] = "day" /\ Wall!Order[2] = "hour" /\ Wall!Order[3] = "minute" /\ Wall!Order[4] = "second"
  BY DEF Wall!Order
<1>7. \A k \in 1 .. 4 : /\ \E x \in a .. w : f[k] = RegisterOf(source, Wall!Order[k], x)
                        /\ \E y \in w .. z : f[k] = RegisterOf(source, Wall!Order[k], y)
  BY <1>4 DEF FirstIn, ReadIn
<1>8. PICK x1 \in a .. w : f[1] = RegisterOf(source, "day", x1)
  BY <1>6, <1>7
<1>9. PICK x2 \in a .. w : f[2] = RegisterOf(source, "hour", x2)
  BY <1>6, <1>7
<1>10. PICK x3 \in a .. w : f[3] = RegisterOf(source, "minute", x3)
  BY <1>6, <1>7
<1>11. PICK x4 \in b .. w : f[4] = RegisterOf(source, "second", x4)
  BY <1>4 DEF FirstIn
<1>12. PICK y1 \in w .. z : f[1] = RegisterOf(source, "day", y1)
  BY <1>6, <1>7
<1>13. PICK y2 \in w .. z : f[2] = RegisterOf(source, "hour", y2)
  BY <1>6, <1>7
<1>14. PICK y3 \in w .. z : f[3] = RegisterOf(source, "minute", y3)
  BY <1>6, <1>7
<1>15. PICK y4 \in w .. z : f[4] = RegisterOf(source, "second", y4)
  BY <1>6, <1>7
<1> DEFINE x == [r \in Fields |-> IF r = "day" THEN x1 ELSE IF r = "hour" THEN x2 ELSE IF r = "minute" THEN x3 ELSE x4]
           y == [r \in Fields |-> IF r = "day" THEN y1 ELSE IF r = "hour" THEN y2 ELSE IF r = "minute" THEN y3 ELSE y4]
           g == [r \in Fields |-> IF r = "day" THEN f[1] ELSE IF r = "hour" THEN f[2] ELSE IF r = "minute" THEN f[3] ELSE f[4]]
<1> HIDE DEF a, b, z, w
<1>16. /\ x1 \in Nat /\ x2 \in Nat /\ x3 \in Nat /\ x4 \in Nat /\ y1 \in Nat /\ y2 \in Nat /\ y3 \in Nat /\ y4 \in Nat
       /\ a <= x1 /\ a <= x2 /\ a <= x3 /\ a <= x4 /\ b <= x4 /\ x1 <= w /\ x2 <= w /\ x3 <= w /\ x4 <= w
       /\ w <= y1 /\ w <= y2 /\ w <= y3 /\ w <= y4 /\ y1 <= z /\ y2 <= z /\ y3 <= z /\ y4 <= z
  BY <1>1, <1>2, <1>5, <1>8, <1>9, <1>10, <1>11, <1>12, <1>13, <1>14, <1>15
<1>17. x \in [Fields -> Nat] /\ y \in [Fields -> Nat] /\ b <= x["second"]
  BY <1>16 DEF Fields
<1>18. \A r \in Fields : a <= x[r] /\ x[r] <= w /\ w <= y[r] /\ y[r] <= z
  BY <1>16 DEF Fields
<1>19. \A r \in Fields : g[r] = RegisterOf(source, r, x[r]) /\ g[r] = RegisterOf(source, r, y[r])
  BY <1>8, <1>9, <1>10, <1>11, <1>12, <1>13, <1>14, <1>15 DEF Fields
<1>20. g["day"] = f[1] /\ g["hour"] = f[2] /\ g["minute"] = f[3] /\ g["second"] = f[4]
  BY DEF Fields
<1> HIDE DEF x, y, g
<1>21. \A r \in Fields : /\ Wall!Field(r, x[r]) = FieldOf(source, r, g[r])
                            /\ Wall!Field(r, y[r]) = FieldOf(source, r, g[r])
  BY <1>17, <1>19, RegisterIsRead
<1>22. \E t \in b .. z : IsDate(t, x)
  <2>1. \A r \in Fields : IsRound(r, x[r], y[r], a, w, z)
    BY <1>18, <1>21 DEF IsRound
  <2>. QED
    <3>1. w \in Nat /\ z \in Nat /\ b \in Nat /\ a \in Nat /\ a <= b
      BY <1>1, <1>2, <1>5
    <3>. QED
      BY <1>3, <1>17, <2>1, <3>1, DateWasTrue
<1>23. PICK t \in b .. z : \A r \in Fields : Wall!Field(r, t) = FieldOf(source, r, g[r])
  BY <1>21, <1>22 DEF IsDate
<1> DEFINE date == Wall!Date(f)
<1>24. /\ date = [day |-> date.day, hour |-> date.hour, minute |-> date.minute, second |-> date.second]
       /\ date.day = FieldOf(source, "day", g["day"]) /\ date.hour = FieldOf(source, "hour", g["hour"])
       /\ date.minute = FieldOf(source, "minute", g["minute"]) /\ date.second = FieldOf(source, "second", g["second"])
  BY <1>20 DEF Wall!Date, Wall!DecodedHour, Wall!Decoded, FieldOf, OfCode
<1> HIDE DEF date
<1>25. \A r \in Fields : date[r] = Wall!Field(r, t)
  BY <1>23, <1>24 DEF Fields
<1> DEFINE t0 == t - source.start
<1>26. t0 \in walk.began .. code + 1 /\ source.start + t0 = t
  BY <1>1, <1>2, <1>23 DEF a, b
<1>. QED
  BY <1>24, <1>25, <1>26 DEF DateIn, date

\* Both readings have been made.
LEMMA AgreeStep ==
  ASSUME WallInv, answers = <<>>, source' = source, Wall!ReadRtc
  PROVE  WallInv'
<1>1. WallTypes /\ ChipInv /\ RateInv /\ walk.pc = "agree" /\ code' = code
  BY DEF WallInv, Wall!ReadRtc, Wall!At
<1>2. CASE Wall!Agree(walk.first, walk.second) /\ Wall!IsATime(Wall!Date(walk.first))
  <2> DEFINE date == Wall!Date(walk.first)
  <2>1. Wall!Start(<<date>>)
    BY <1>2 DEF Wall!ReadRtc
  <2>2. DateIn(source, date, walk.began, code)
    <3>1. Len(walk.first) = 4 /\ walk.first = walk.second
      BY <1>1, <1>2 DEF ChipInv, Wall!Agree
    <3>. QED
      BY <1>1, <3>1, DateIsRead
  <2> HIDE DEF date
  <2>3. <<date>> # <<>> /\ <<date>>[1] = date
    OBVIOUS
  <2>. QED
    BY <1>1, <2>1, <2>2, <2>3, StartStep
<1>3. CASE ~(Wall!Agree(walk.first, walk.second) /\ Wall!IsATime(Wall!Date(walk.first))) /\ walk.tries + 1 = Tries
  <2>1. Wall!Start(<<>>)
    BY <1>3 DEF Wall!ReadRtc, Wall!Nothing
  <2>. QED
    BY <1>1, <2>1, StartStep
<1>4. CASE ~(Wall!Agree(walk.first, walk.second) /\ Wall!IsATime(Wall!Date(walk.first))) /\ walk.tries + 1 # Tries
  <2>1. /\ walk' = [walk EXCEPT !.tries = walk.tries + 1, !.first = <<>>, !.second = <<>>, !.pc = "rtc"]
        /\ answers' = answers
    BY <1>4 DEF Wall!ReadRtc, Wall!Nothing
  <2>2. walk' = [pc |-> "rtc", hz |-> walk.hz, from |-> walk.from, restarted |-> walk.restarted, start |-> walk.start,
                 tries |-> walk.tries + 1, first |-> <<>>, second |-> <<>>, began |-> walk.began]
    <3> DEFINE tries == walk.tries + 1
    <3>1. walk' = [[[[walk EXCEPT !.tries = tries] EXCEPT !.first = <<>>] EXCEPT !.second = <<>>] EXCEPT !.pc = "rtc"]
      BY <2>1, Zenon
    <3> HIDE DEF tries
    <3>2. [walk EXCEPT !.tries = tries] =
            [pc |-> walk.pc, hz |-> walk.hz, from |-> walk.from, restarted |-> walk.restarted, start |-> walk.start,
             tries |-> tries, first |-> walk.first, second |-> walk.second, began |-> walk.began]
      BY <1>1 DEF WallTypes
    <3>. QED
      BY <3>1, <3>2 DEF tries
  <2>3. \A S : <<>> \in Seq(S) /\ Len(<<>>) = 0
    BY EmptySeq
  <2>4. WallTypes'
    BY <1>1, <2>2, <2>3 DEF WallTypes
  <2>5. RateInv'
    BY <1>1, <2>2 DEF RateInv
  <2>6. ChipInv'
    BY <1>1, <2>2, <2>3 DEF ChipInv, FirstIn, ReadIn
  <2>. QED
    BY <2>1, <2>4, <2>5, <2>6 DEF WallInv
<1>. QED
  BY <1>2, <1>3, <1>4

LEMMA TickStep ==
  ASSUME WallInv, source' = source, Wall!Tick, ~Wall!WallDone
  PROVE  WallInv'
<1>1. WallTypes /\ RateInv /\ code' = code + 1 /\ walk' = walk /\ answers' = answers
  BY DEF WallInv, Wall!Tick
<1>2. source.start \in Nat /\ code \in Nat /\ code + 1 \in Nat /\ walk.began \in Nat /\ walk.first \in Seq(Shows(source))
  BY <1>1, KernelNumbers DEF WallTypes
<1>3. WallTypes'
  BY <1>1, <1>2 DEF WallTypes, Shows, RegisterOf, InCode
<1>4. RateInv'
  BY <1>1 DEF RateInv
<1>5. ASSUME answers = <<>>
      PROVE  ChipInv'
  <2>1. ChipInv /\ code + 1 <= LongestStart
    <3>1. code < LongestStart /\ LongestStart \in Nat
      BY <1>5, ClockNumbers DEF Wall!Tick, Wall!Nothing
    <3>. QED
      BY <1>2, <1>5, <3>1 DEF WallInv
  <2>2. /\ LatestOf(source, code) \in Nat /\ LatestOf(source, code + 1) \in Nat
        /\ LatestOf(source, code) <= LatestOf(source, code + 1)
    BY <1>2, LatestIsLater
  <2>3. FirstIn(source, walk.first, walk.began, LatestOf(source, code + 1))
    BY <1>2, <2>1, <2>2, FirstInLonger DEF ChipInv
  <2>4. walk.pc \in {"read", "agree"} /\ Len(walk.first) = 4 =>
          \E w \in walk.began .. code + 1 :
            /\ FirstIn(source, walk.first, walk.began, source.start + w)
            /\ ReadIn(source, walk.second, source.start + w, LatestOf(source, code + 1))
    <3> SUFFICES ASSUME walk.pc \in {"read", "agree"}, Len(walk.first) = 4
                 PROVE  \E w \in walk.began .. code + 1 :
                          /\ FirstIn(source, walk.first, walk.began, source.start + w)
                          /\ ReadIn(source, walk.second, source.start + w, LatestOf(source, code + 1))
      OBVIOUS
    <3>1. PICK w \in walk.began .. code : /\ FirstIn(source, walk.first, walk.began, source.start + w)
                                         /\ ReadIn(source, walk.second, source.start + w, LatestOf(source, code))
      BY <2>1 DEF ChipInv
    <3>2. w \in walk.began .. code + 1 /\ source.start + w \in Nat
      BY <1>2, <3>1
    <3>3. ReadIn(source, walk.second, source.start + w, LatestOf(source, code + 1))
      BY <2>2, <3>1, <3>2, ReadInLonger
    <3>. QED
      BY <3>1, <3>2, <3>3
  <2>5. walk.began <= code + 1
    BY <1>2, <2>1 DEF ChipInv
  <2>. QED
    BY <1>1, <2>1, <2>3, <2>4, <2>5 DEF ChipInv
<1>6. ASSUME answers # <<>>
      PROVE  RunsInv'
  <2>1. RunsInv
    BY <1>6 DEF WallInv
  <2>2. answers[1].origin \in Nat /\ code < answers[1].origin + LongestRun /\ answers[1].origin <= code /\ LongestRun \in Nat
    <3>1. LongestRun \in Nat
      BY ClockNumbers
    <3>2. answers[1].origin \in Nat /\ answers[1].origin <= code
      BY <2>1 DEF RunsInv
    <3>3. ~(code >= answers[1].origin + LongestRun)
      BY <1>6 DEF Wall!WallDone, Wall!Nothing
    <3>. QED
      BY <1>2, <3>1, <3>2, <3>3
  <2>3. answers[1].origin <= code + 1 /\ code + 1 <= answers[1].origin + LongestRun
    BY <1>2, <2>2
  <2>. QED
    BY <1>1, <2>1, <2>3 DEF RunsInv
<1>. QED
  BY <1>1, <1>3, <1>4, <1>5, <1>6 DEF WallInv

LEMMA WallStep ==
  ASSUME WallInv, Wall!WallNext
  PROVE  WallInv'
<1>1. source' = source /\ ~Wall!WallDone
  BY DEF Wall!WallNext
<1>2. CASE answers # <<>>
  <2>1. walk.pc = "runs"
    BY <1>2 DEF WallInv, RunsInv
  <2>2. Wall!Tick
    BY <2>1 DEF Wall!WallNext, Wall!MeasureStated, Wall!PitRestart, Wall!PitStart, Wall!PitEnd, Wall!NoChip, Wall!WaitForRtc,
      Wall!RawRtc, Wall!ReadRtc, Wall!At
  <2>. QED
    BY <1>1, <2>2, TickStep
<1>3. CASE answers = <<>>
  <2>1. CASE Wall!NoChip
    <3>1. Wall!Start(<<>>) /\ code' = code
      BY <2>1 DEF Wall!NoChip, Wall!Nothing
    <3>. QED
      BY <1>1, <1>3, <3>1, StartStep
  <2>. QED
    BY <1>1, <1>3, <2>1, StatedStep, PitStep, PitEndStep, WaitStep, RawStep, AgreeStep, TickStep DEF Wall!WallNext
<1>. QED
  BY <1>2, <1>3


(***************************************************************************)
(* How far the clock is behind the chip: by the fraction of its first      *)
(* second, the time since that, and what it goes too slowly.               *)
(***************************************************************************)
LEMMA ModIs ==
  ASSUME NEW a \in Int, NEW k \in Int, NEW n \in Nat \ {0}, NEW b \in Nat, b < n, a = k * n + b
  PROVE  a % n = b
BY DivIs

\* The seconds of the day, for the days since.
LEMMA SecondsAreOfTheDay ==
  ASSUME NEW t \in Nat, NEW date, \A r \in Fields : date[r] = Wall!Field(r, t),
         date = [day |-> date.day, hour |-> date.hour, minute |-> date.minute, second |-> date.second]
  PROVE  \E k \in Int : Wall!SecondsOfDay(date) * Hz = t - (t % Hz) - k * Wall!Day
<1>1. /\ Hz \in Nat \ {0} /\ Seconds \in Nat \ {0} /\ Minutes \in Nat \ {0} /\ 2 * HalfDay \in Nat \ {0} /\ HalfDay \in Nat
      /\ Minutes * Seconds \in Nat \ {0}
  BY ClockNumbers
<1> DEFINE q == t \div Hz
           m == q \div Seconds
           h == m \div Minutes
           d == 2 * HalfDay
           k == h \div d
<1>2. q \in Int /\ t % Hz \in Nat /\ t = q * Hz + (t % Hz)
  BY <1>1, DivMod
<1>3. m \in Int /\ q % Seconds \in Nat /\ q = m * Seconds + (q % Seconds)
  BY <1>1, <1>2, DivMod
<1>4. h \in Int /\ m % Minutes \in Nat /\ m = h * Minutes + (m % Minutes)
  BY <1>1, <1>3, DivMod
<1>5. k \in Int /\ h % d \in Nat /\ h = k * d + (h % d)
  BY <1>1, <1>4, DivMod
<1>6. h = q \div (Minutes * Seconds)
  BY <1>1, <1>2, DivDiv
<1>7. date.hour = h % d /\ date.minute = m % Minutes /\ date.second = q % Seconds
  BY <1>6, Zenon DEF Wall!Field, Wall!SecondAt, Fields
<1> DEFINE hour == h % d
           minute == m % Minutes
           second == q % Seconds
           rest == t % Hz
<1>8. Wall!SecondsOfDay(date) = (hour * Minutes + minute) * Seconds + second
  BY <1>7 DEF Wall!SecondsOfDay
<1> HIDE DEF q, m, h, k, d, hour, minute, second, rest
<1>9. m = k * d * Minutes + (hour * Minutes + minute)
  <2>1. h * Minutes = k * d * Minutes + hour * Minutes
    BY <1>1, <1>5 DEF hour, d
  <2>2. m = h * Minutes + minute
    BY <1>4 DEF minute
  <2>3. k * d * Minutes \in Int /\ hour * Minutes \in Int /\ minute \in Int
    BY <1>1, <1>4, <1>5 DEF hour, minute, d
  <2>. QED
    BY <2>1, <2>2, <2>3
<1>10. q = k * d * Minutes * Seconds + Wall!SecondsOfDay(date)
  <2> DEFINE u == hour * Minutes + minute
             v == k * d * Minutes
  <2>1. u \in Int /\ v \in Int /\ m = v + u /\ second \in Int
    BY <1>1, <1>3, <1>4, <1>5, <1>9 DEF hour, minute, second, d
  <2>2. Wall!SecondsOfDay(date) = u * Seconds + second
    BY <1>8
  <2>3. q = m * Seconds + second
    BY <1>3 DEF second
  <2> HIDE DEF u, v
  <2>4. m * Seconds = v * Seconds + u * Seconds
    BY <1>1, <2>1
  <2>5. v * Seconds \in Int /\ u * Seconds \in Int
    BY <1>1, <2>1
  <2>6. q = v * Seconds + Wall!SecondsOfDay(date)
    BY <2>1, <2>2, <2>3, <2>4, <2>5
  <2>. QED
    BY <2>6 DEF v
<1>11. Wall!SecondsOfDay(date) \in Int
  BY <1>1, <1>3, <1>4, <1>5, <1>8 DEF hour, minute, second
<1> DEFINE a == Wall!SecondsOfDay(date)
           v == k * d * Minutes * Seconds
<1>12. v \in Int /\ q = v + a /\ a \in Int
  BY <1>1, <1>5, <1>10, <1>11 DEF d
<1>13. v * Hz = k * Wall!Day
  <2>1. Wall!Day = d * Minutes * Seconds * Hz
    BY DEF Wall!Day, d
  <2>2. d \in Int
    BY <1>1 DEF d
  <2>. QED
    BY <1>1, <1>5, <2>1, <2>2
<1>14. t = q * Hz + rest /\ rest \in Nat
  BY <1>2 DEF rest
<1> HIDE DEF a, v
<1>15. q * Hz = v * Hz + a * Hz /\ v * Hz \in Int /\ a * Hz \in Int /\ q * Hz \in Int
  BY <1>1, <1>2, <1>12
<1>16. a * Hz = t - rest - v * Hz
  BY <1>14, <1>15
<1>17. a * Hz = t - rest - k * Wall!Day
  BY <1>13, <1>16
<1>. QED
  BY <1>5, <1>17 DEF a, rest

\* A clock that goes on no faster than the counter.
LEMMA ElapsedIs ==
  ASSUME NEW n \in Nat, NEW taken \in Nat, taken >= Hz
  PROVE  (n * Hz) \div taken \in Nat /\ (n * Hz) \div taken <= n /\ (taken = Hz => (n * Hz) \div taken = n)
<1>1. Hz \in Nat \ {0} /\ taken \in Nat \ {0}
  BY ClockNumbers
<1> DEFINE e == (n * Hz) \div taken
<1>2. n * Hz \in Int /\ n * taken \in Int /\ n * Hz <= n * taken /\ 0 <= n * Hz
  <2>1. n * (taken - Hz) >= 0
    BY <1>1
  <2>2. n * taken - n * Hz >= 0
    BY <1>1, <2>1
  <2>. QED
    BY <1>1, <2>2
<1>3. e \in Int
  BY <1>1, <1>2, DivMod
<1> DEFINE a == n * Hz
           b == n * taken
<1>4. b \div taken = n
  BY <1>1, DivExact
<1>5. a \in Int /\ b \in Int /\ a <= b /\ 0 <= a
  BY <1>2
<1> HIDE DEF a, b
<1>6. a \div taken <= n
  BY <1>1, <1>4, <1>5, DivMonotone
<1>7. 0 \div taken <= a \div taken
  BY <1>1, <1>5, DivMonotone
<1>8. (0 * taken) \div taken = 0 /\ 0 * taken = 0
  BY <1>1, DivExact
<1>9. e >= 0 /\ e <= n
  BY <1>3, <1>6, <1>7, <1>8 DEF a
<1>10. taken = Hz => e = n
  BY <1>1, DivExact
<1>. QED
  BY <1>3, <1>9, <1>10

LEMMA RateIsNotSlow ==
  ASSUME WallInv, answers # <<>>, Wall!RateIsKnown(answers[1])
  PROVE  walk.hz \in Nat /\ walk.hz >= Hz /\ answers[1].hz = walk.hz
<1>1. answers[1].hz = walk.hz /\ answers[1].from = walk.from /\ walk.hz \in Nat /\ Hz \in Nat
  BY ClockNumbers DEF WallInv, RunsInv, WallTypes
<1>. QED
  BY <1>1 DEF WallInv, RateInv, Wall!RateIsKnown

LEMMA WallImplies ==
  ASSUME WallInv
  PROVE  Wall!WallIsTrue
<1> SUFFICES ASSUME answers # <<>>, answers[1].date # <<>>
             PROVE  LET clock == answers[1]
                        date  == clock.date[1]
                    IN /\ \E t \in walk.began .. clock.origin + Wall!Update : \A r \in DOMAIN date : date[r] = Wall!Field(r, source.start + t)
                       /\ Wall!RateIsKnown(clock) =>
                            /\ Wall!Behind(clock) < Wall!Day \div 2
                            /\ clock.hz = Hz => Wall!Behind(clock) < Hz + Wall!Update + (clock.origin - walk.began)
  BY DEF Wall!WallIsTrue, Wall!Nothing
<1> DEFINE clock == answers[1]
           date  == clock.date[1]
<1>1. /\ DateIn(source, date, walk.began, clock.origin) /\ source.start \in Nat /\ code \in Nat /\ walk.began \in Nat
      /\ clock.origin \in Nat /\ clock.origin <= LongestStart /\ walk.began <= clock.origin
      /\ clock.origin <= code /\ code <= clock.origin + LongestRun
  BY KernelNumbers DEF WallInv, RunsInv, WallTypes
<1>2. DOMAIN date = Fields
  <2>1. date = [day |-> date.day, hour |-> date.hour, minute |-> date.minute, second |-> date.second]
    BY <1>1 DEF DateIn
  <2>. QED
    BY <2>1 DEF Fields
<1>3. PICK t \in walk.began .. clock.origin + 1 : \A r \in Fields : date[r] = Wall!Field(r, source.start + t)
  BY <1>1 DEF DateIn
<1>4. ASSUME Wall!RateIsKnown(clock)
      PROVE  /\ Wall!Behind(clock) < Wall!Day \div 2
             /\ clock.hz = Hz => Wall!Behind(clock) < Hz + 1 + (clock.origin - walk.began)
  <2> DEFINE n == code - clock.origin
             e == (n * Hz) \div clock.hz
             u == source.start + t
             rest == u % Hz
             a == Wall!SecondsOfDay(date) * Hz
             day == Wall!Day
             behind == (code + 1) - t + rest - e
  <2>1. n \in Nat /\ clock.hz \in Nat /\ clock.hz >= Hz /\ Hz \in Nat \ {0} /\ u \in Nat /\ t \in Nat
    <3>1. walk.hz \in Nat /\ walk.hz >= Hz /\ clock.hz = walk.hz
      BY <1>4, RateIsNotSlow
    <3>2. n \in Nat /\ t \in Nat /\ u \in Nat
      BY <1>1, <1>3
    <3>. QED
      BY <3>1, <3>2, ClockNumbers, Zenon
  <2> DEFINE taken == clock.hz
  <2>2. e \in Nat /\ e <= n /\ (clock.hz = Hz => e = n)
    <3>1. taken \in Nat /\ taken >= Hz
      BY <2>1
    <3> HIDE DEF n, taken
    <3>2. (n * Hz) \div taken \in Nat /\ (n * Hz) \div taken <= n /\ (taken = Hz => (n * Hz) \div taken = n)
      BY <2>1, <3>1, ElapsedIs
    <3>. QED
      BY <3>2 DEF taken
  <2>3. Wall!ElapsedNs(clock) = e
    BY <2>1 DEF Wall!ElapsedNs
  <2>4. rest \in Nat /\ rest < Hz
    BY <2>1, DivMod
  <2>5. PICK k \in Int : a = u - rest - k * day
    <3>1. date = [day |-> date.day, hour |-> date.hour, minute |-> date.minute, second |-> date.second]
      BY <1>1 DEF DateIn
    <3>2. u \in Nat /\ \A r \in Fields : date[r] = Wall!Field(r, u)
      BY <1>3, <2>1
    <3> HIDE DEF u, date
    <3>. QED
      BY <3>1, <3>2, SecondsAreOfTheDay
  <2>6. day \in Nat \ {0}
    BY DayHasTicks
  <2>7. /\ behind \in Nat /\ behind < Hz + 1 + LongestStart + LongestRun
        /\ clock.hz = Hz => behind < Hz + 1 + (clock.origin - walk.began)
    <3> DEFINE origin == clock.origin
    <3>1. LongestStart \in Nat /\ LongestRun \in Nat
      BY ClockNumbers
    <3>2. /\ origin \in Nat /\ origin <= LongestStart /\ walk.began <= origin /\ origin <= code /\ code <= origin + LongestRun
          /\ walk.began \in Nat /\ code \in Nat /\ t \in Nat /\ walk.began <= t /\ t <= origin + 1
          /\ n = code - origin
      BY <1>1, <1>3, <2>1
    <3> HIDE DEF e, rest, n, origin
    <3>3. behind \in Nat /\ behind < Hz + 1 + LongestStart + LongestRun
      BY <2>1, <2>2, <2>4, <3>1, <3>2
    <3>4. e = n => behind < Hz + 1 + (origin - walk.began)
      BY <2>1, <2>2, <2>4, <3>1, <3>2
    <3>. QED
      BY <2>2, <3>3, <3>4 DEF origin
  <2>8. behind < day \div 2 /\ behind < day
    <3>1. Hz + 1 + LongestStart + LongestRun < day \div 2 /\ Hz + 1 + LongestStart + LongestRun \in Int
      BY ClockNumbers
    <3>2. day \div 2 \in Int /\ day \div 2 <= day
      <4> HIDE DEF day
      <4>. QED
        BY <2>6
    <3> HIDE DEF day, behind
    <3>. QED
      BY <2>6, <2>7, <3>1, <3>2
  <2> DEFINE shown == a + e
             j == shown \div day
  <2>9. a \in Int /\ shown \in Int /\ j \in Int /\ k * day \in Int
    <3>1. k * day \in Int
      <4> HIDE DEF day
      <4>. QED
        BY <2>6
    <3> DEFINE kday == k * day
    <3>2. kday \in Int
      BY <3>1
    <3> HIDE DEF kday, rest, e, day
    <3>3. a \in Int
      BY <2>1, <2>4, <2>5, <3>2 DEF kday
    <3> HIDE DEF a
    <3>4. shown \in Int
      BY <2>2, <3>3
    <3> HIDE DEF shown
    <3>5. j \in Int
      BY <2>6, <3>4, DivMod
    <3>. QED
      BY <3>2, <3>3, <3>4, <3>5 DEF kday
  <2>10. Wall!WallNs(clock) = shown - j * day /\ j * day \in Int
    <3>1. Wall!WallNs(clock) = shown % day
      BY <2>3 DEF Wall!WallNs
    <3> HIDE DEF shown, day
    <3>2. shown = j * day + (shown % day) /\ shown % day \in Nat
      BY <2>6, <2>9, DivMod
    <3>3. j * day \in Int
      <4> HIDE DEF j
      <4>. QED
        BY <2>6, <2>9
    <3> HIDE DEF j
    <3>. QED
      BY <2>9, <3>1, <3>2, <3>3
  <2>11. Wall!Behind(clock) = ((source.start + code + 1) - Wall!WallNs(clock)) % day
    BY DEF Wall!Behind, Wall!Truth, Wall!Update
  <2>12. (source.start + code + 1) - Wall!WallNs(clock) = (k + j) * day + behind
    <3>1. (k + j) * day = k * day + j * day
      <4> HIDE DEF day, j
      <4>. QED
        BY <2>6, <2>9
    <3> DEFINE kday == k * day
               jday == j * day
    <3>2. kday \in Int /\ jday \in Int /\ (k + j) * day = kday + jday
      BY <2>9, <2>10, <3>1
    <3>3. a = u - rest - kday /\ Wall!WallNs(clock) = (a + e) - jday
      <4>1. Wall!WallNs(clock) = (a + e) - jday
        <5>1. Wall!WallNs(clock) = shown - j * day
          BY <2>10, Zenon
        <5> HIDE DEF a, e, j, day, clock
        <5>. QED
          BY <5>1
      <4>2. a = u - rest - kday
        BY <2>5, Zenon
      <4>. QED
        BY <4>1, <4>2, Zenon
    <3> HIDE DEF kday, jday, rest, e, a, j, day
    <3>4. rest \in Nat /\ e \in Nat /\ source.start \in Nat /\ code \in Nat /\ t \in Nat
      BY <1>1, <2>1, <2>2, <2>4
    <3> DEFINE ns == Wall!WallNs(clock)
               start == source.start
    <3>5. ns = (start + t) - rest - kday + e - jday
      BY <3>2, <3>3, <3>4
    <3> HIDE DEF ns, clock, start
    <3>6. start \in Nat /\ (start + code + 1) - ns = (kday + jday) + behind
      <4>1. start \in Nat
        BY <3>4 DEF start
      <4>. QED
        BY <3>2, <3>4, <3>5, <4>1
    <3>. QED
      BY <3>2, <3>6 DEF ns, start
  <2>13. Wall!Behind(clock) = behind
    <3> DEFINE c == (source.start + code + 1) - Wall!WallNs(clock)
    <3>1. c = (k + j) * day + behind /\ k + j \in Int /\ (k + j) * day \in Int
      <4>1. k + j \in Int
        BY <2>9
      <4>2. (k + j) * day \in Int
        <5> HIDE DEF j, day
        <5>. QED
          BY <2>6, <4>1
      <4>. QED
        BY <2>12, <4>1, <4>2
    <3> HIDE DEF behind, day, j
    <3>2. c \in Int
      <4> HIDE DEF c
      <4>. QED
        BY <2>7, <3>1
    <3>3. Wall!Behind(clock) = c % day
      BY <2>11
    <3> HIDE DEF c
    <3>. QED
      BY <2>6, <2>7, <2>8, <3>1, <3>2, <3>3, ModIs
  <2>. QED
    BY <2>7, <2>8, <2>13
<1>. QED
  BY <1>2, <1>3, <1>4 DEF Wall!Update

(***************************************************************************)
(* The screen (framebuffer.rs, gui_x86_64.rs).  Where there is a buffer,   *)
(* what it holds is on the screen already, but for the pixels in the box.  *)
(***************************************************************************)
Buffer == 0 .. Width * Height - 1
Cells  == 0 .. Pitch * Height - 1
Boxes  == [x0 : Nat, y0 : Nat, x1 : Nat, y1 : Nat]

\* Of a screen s.
Composes(s)     == s.buffer /\ Width <= ShadowWidth /\ Height <= ShadowHeight
Kept(s, colour) == IF s.deep THEN colour ELSE colour - (colour % 2)

\* A canvas, of which nothing but the pixels was written.
Framed(c) ==
  /\ c \in [shadow : [Buffer -> Nat], screen : [Cells -> Nat], dirty : Boxes]
  /\ \A o \in Cells : o % Pitch \notin Screen!Columns => c.screen[o] = 3

InBox(d, x, y) == d.x0 <= x /\ x < d.x1 /\ d.y0 <= y /\ y < d.y1

\* Outside the box the screen is as the buffer.
Synced(s, c) ==
  Composes(s) =>
    \A x \in Screen!Columns, y \in Screen!Rows :
      ~InBox(c.dirty, x, y) => c.screen[Screen!Offset(x, y)] = Kept(s, c.shadow[Screen!Shadow(x, y)])

\* What the screen will have there when all is presented.
Pixel(s, c, x, y) ==
  IF Composes(s) THEN Kept(s, c.shadow[Screen!Shadow(x, y)]) ELSE c.screen[Screen!Offset(x, y)]

\* Canvas e is c with the colour v in the places S.
IsPainted(s, c, e, S, v) ==
  /\ Framed(e)
  /\ Synced(s, c) => Synced(s, e)
  /\ \A x \in Screen!Columns, y \in Screen!Rows :
       Pixel(s, e, x, y) = IF <<x, y>> \in S THEN Kept(s, v) ELSE Pixel(s, c, x, y)

LEMMA ScreenNumbers ==
  /\ Width \in Nat \ {0} /\ Height \in Nat \ {0} /\ Pitch \in Nat \ {0} /\ Size \in Nat \ {0}
  /\ Width <= Pitch /\ Edge \in Nat /\ Title \in Nat
  /\ Width * Height \in Nat \ {0} /\ Pitch * Height \in Nat \ {0}
<1>1. \A a, b \in Nat \ {0} : a * b \in Nat \ {0}
  OBVIOUS
<1>. QED
  BY <1>1, ScreenAssumption

LEMMA KeptIs ==
  ASSUME NEW s, NEW v \in Nat
  PROVE  Kept(s, v) \in Nat /\ Kept(s, Kept(s, v)) = Kept(s, v)
<1>1. v \div 2 \in Nat /\ v % 2 \in Nat /\ v = (v \div 2) * 2 + (v % 2)
  OBVIOUS
<1>2. v - (v % 2) \in Nat /\ (v - (v % 2)) % 2 = 0
  OBVIOUS
<1>. QED
  BY <1>2 DEF Kept

LEMMA PlaceWithin ==
  ASSUME NEW row \in Nat \ {0}, NEW h \in Nat \ {0}, NEW x \in 0 .. row - 1, NEW y \in 0 .. h - 1
  PROVE  /\ (y * row) + x \in 0 .. row * h - 1
         /\ ((y * row) + x) % row = x /\ ((y * row) + x) \div row = y
<1>1. (h - 1 - y) * row >= 0
  OBVIOUS
<1>2. (h - 1 - y) * row = row * h - row - y * row
  OBVIOUS
<1>3. y * row \in Nat /\ row * h \in Nat
  OBVIOUS
<1>. QED
  BY <1>1, <1>2, <1>3, DivIs

LEMMA PlaceOf ==
  ASSUME NEW row \in Nat \ {0}, NEW h \in Nat \ {0}, NEW i \in 0 .. row * h - 1
  PROVE  /\ i % row \in 0 .. row - 1 /\ i \div row \in 0 .. h - 1
         /\ i = ((i \div row) * row) + (i % row)
<1> DEFINE q == i \div row
           r == i % row
<1>1. row * h \in Nat
  OBVIOUS
<1>2. i \in Nat /\ i < row * h
  BY <1>1
<1>3. q \in Int /\ r \in Nat /\ r < row /\ i = q * row + r
  BY <1>2, DivMod
<1> HIDE DEF q, r
<1>4. q >= 0
  <2>1. q <= -1 => q * row <= -row
    BY <1>3
  <2>. QED
    BY <1>2, <1>3, <2>1
<1>5. q < h
  <2>1. q >= h => (q - h) * row >= 0
    BY <1>3
  <2>2. (q - h) * row = q * row - row * h
    BY <1>3
  <2>3. q * row \in Int
    BY <1>3
  <2>. QED
    BY <1>1, <1>2, <1>3, <2>1, <2>2, <2>3
<1>. QED
  BY <1>3, <1>4, <1>5 DEF q, r

\* Where the pixels of a place are.
LEMMA PixelPlaces ==
  ASSUME NEW x \in Screen!Columns, NEW y \in Screen!Rows
  PROVE  /\ x \in Nat /\ x < Width /\ y \in Nat /\ y < Height
         /\ Screen!Shadow(x, y) \in Buffer /\ Screen!Offset(x, y) \in Cells
         /\ Screen!Shadow(x, y) % Width = x /\ Screen!Shadow(x, y) \div Width = y
         /\ Screen!Offset(x, y) % Pitch = x /\ Screen!Offset(x, y) \div Pitch = y
<1>1. x \in 0 .. Width - 1 /\ x \in 0 .. Pitch - 1 /\ y \in 0 .. Height - 1
  BY ScreenNumbers DEF Screen!Columns, Screen!Rows
<1>2. /\ (y * Width) + x \in 0 .. Width * Height - 1
      /\ ((y * Width) + x) % Width = x /\ ((y * Width) + x) \div Width = y
  BY <1>1, ScreenNumbers, PlaceWithin
<1>3. /\ (y * Pitch) + x \in 0 .. Pitch * Height - 1
      /\ ((y * Pitch) + x) % Pitch = x /\ ((y * Pitch) + x) \div Pitch = y
  BY <1>1, ScreenNumbers, PlaceWithin
<1>. QED
  BY <1>1, <1>2, <1>3, ScreenNumbers DEF Screen!Shadow, Screen!Offset, Buffer, Cells

\* The places of a rectangle.
Rect(x, y, w, h) ==
  {p \in Screen!Columns \X Screen!Rows : x <= p[1] /\ p[1] < x + w /\ y <= p[2] /\ p[2] < y + h}

LEMMA RectIs ==
  ASSUME NEW x, NEW y, NEW w, NEW h, NEW px \in Screen!Columns, NEW py \in Screen!Rows
  PROVE  <<px, py>> \in Rect(x, y, w, h) <=> x <= px /\ px < x + w /\ y <= py /\ py < y + h
BY DEF Rect

LEMMA FillIs ==
  ASSUME NEW c, Framed(c), NEW x \in Nat, NEW y \in Nat, NEW w \in Nat, NEW h \in Nat, NEW v \in Nat
  PROVE  IsPainted(source, c, Screen!Fill(c, x, y, w, h, v), Rect(x, y, w, h), v)
<1> DEFINE e      == Screen!Fill(c, x, y, w, h, v)
           right  == Screen!Least(x + w, Width)
           bottom == Screen!Least(y + h, Height)
           Meets(px, py) == x <= px /\ px < x + w /\ y <= py /\ py < y + h
<1>1. right \in Nat /\ bottom \in Nat /\ right <= Width /\ bottom <= Height /\ right <= x + w /\ bottom <= y + h
  BY ScreenNumbers DEF Screen!Least
<1>2. \A px, py \in Nat : px < Width /\ py < Height =>
        (px \in x .. right - 1 /\ py \in y .. bottom - 1 <=> Meets(px, py))
  BY ScreenNumbers DEF Screen!Least
<1>3. CASE ~Screen!Inside(x, y) \/ w = 0 \/ h = 0
  <2>1. e = c
    BY <1>3, Zenon DEF Screen!Fill
  <2>2. \A px \in Screen!Columns, py \in Screen!Rows : <<px, py>> \notin Rect(x, y, w, h)
    <3> TAKE px \in Screen!Columns, py \in Screen!Rows
    <3>1. ~Meets(px, py)
      BY <1>3, ScreenNumbers DEF Screen!Inside, Screen!Columns, Screen!Rows
    <3>. QED
      BY <3>1, RectIs
  <2>. QED
    BY <2>1, <2>2 DEF IsPainted
<1>4. CASE Screen!Inside(x, y) /\ w # 0 /\ h # 0 /\ Screen!Composited
  <2> DEFINE Covers(i) == i % Width \in x .. right - 1 /\ i \div Width \in y .. bottom - 1
             shadow == [i \in Buffer |-> IF Covers(i) THEN v ELSE c.shadow[i]]
             box    == Screen!Mark(c.dirty, x, y, right - x, bottom - y)
  <2>1. DOMAIN c.shadow = Buffer
    BY DEF Framed
  <2>2. e = [c EXCEPT !.shadow = shadow, !.dirty = box]
    BY <1>4, <2>1 DEF Screen!Fill
  <2>3. e = [shadow |-> shadow, screen |-> c.screen, dirty |-> box]
    BY <2>2 DEF Framed
  <2>4. shadow \in [Buffer -> Nat] /\ c.screen \in [Cells -> Nat] /\ c.dirty \in Boxes
    BY DEF Framed
  <2>5. x < right /\ y < bottom
    BY <1>4, ScreenNumbers DEF Screen!Inside, Screen!Columns, Screen!Rows, Screen!Least
  <2>6. /\ box \in Boxes
        /\ \A px, py \in Nat : InBox(c.dirty, px, py) \/ (px \in x .. right - 1 /\ py \in y .. bottom - 1) => InBox(box, px, py)
    <3>1. x + (right - x) = right /\ y + (bottom - y) = bottom
      BY <1>1
    <3>2. box = [x0 |-> Screen!Least(c.dirty.x0, x), y0 |-> Screen!Least(c.dirty.y0, y),
                 x1 |-> Screen!Most(c.dirty.x1, right), y1 |-> Screen!Most(c.dirty.y1, bottom)]
      BY <3>1 DEF Screen!Mark
    <3> HIDE DEF box
    <3>. QED
      BY <3>2, <1>1, <2>4 DEF Boxes, InBox, Screen!Least, Screen!Most
  <2>7. Framed(e)
    BY <2>3, <2>4, <2>6 DEF Framed
  <2> HIDE DEF box
  <2>8. \A px \in Screen!Columns, py \in Screen!Rows :
          /\ e.shadow[Screen!Shadow(px, py)] = IF Meets(px, py) THEN v ELSE c.shadow[Screen!Shadow(px, py)]
          /\ e.screen = c.screen
          /\ InBox(c.dirty, px, py) \/ Meets(px, py) => InBox(e.dirty, px, py)
    <3> TAKE px \in Screen!Columns, py \in Screen!Rows
    <3>1. Screen!Shadow(px, py) \in Buffer /\ Covers(Screen!Shadow(px, py)) <=> Meets(px, py)
      BY <1>2, PixelPlaces
    <3>2. px \in Nat /\ py \in Nat /\ Screen!Shadow(px, py) \in Buffer /\ px < Width /\ py < Height
      BY PixelPlaces
    <3>3. shadow[Screen!Shadow(px, py)] = IF Meets(px, py) THEN v ELSE c.shadow[Screen!Shadow(px, py)]
      BY <3>1, <3>2
    <3>4. InBox(c.dirty, px, py) \/ Meets(px, py) => InBox(box, px, py)
      BY <1>2, <2>6, <3>2
    <3>. QED
      BY <2>3, <3>3, <3>4
  <2> HIDE DEF e, shadow, Meets
  <2>9. \A px \in Screen!Columns, py \in Screen!Rows : <<px, py>> \in Rect(x, y, w, h) <=> Meets(px, py)
    BY RectIs DEF Meets
  <2>10. Composes(source)
    BY <1>4 DEF Composes, Screen!Composited
  <2>11. Synced(source, c) => Synced(source, e)
    BY <2>8 DEF Synced
  <2>. QED
    BY <2>7, <2>8, <2>9, <2>10, <2>11 DEF IsPainted, Pixel, e
<1>5. CASE Screen!Inside(x, y) /\ w # 0 /\ h # 0 /\ ~Screen!Composited
  <2> DEFINE Covers(o) == o % Pitch \in x .. right - 1 /\ o \div Pitch \in y .. bottom - 1
             screen == [o \in Cells |-> IF Covers(o) THEN Screen!Stored(v) ELSE c.screen[o]]
  <2>1. DOMAIN c.screen = Cells
    BY DEF Framed
  <2>2. e = [c EXCEPT !.screen = screen]
    BY <1>5, <2>1 DEF Screen!Fill
  <2>3. e = [shadow |-> c.shadow, screen |-> screen, dirty |-> c.dirty]
    BY <2>2 DEF Framed
  <2>4. Screen!Stored(v) = Kept(source, v) /\ Kept(source, v) \in Nat
    BY KeptIs DEF Screen!Stored, Kept
  <2>5. screen \in [Cells -> Nat] /\ c.shadow \in [Buffer -> Nat] /\ c.dirty \in Boxes
    BY <2>4 DEF Framed
  <2>6. \A o \in Cells : o % Pitch \notin Screen!Columns => screen[o] = 3
    <3> SUFFICES ASSUME NEW o \in Cells, o % Pitch \notin Screen!Columns PROVE screen[o] = 3
      OBVIOUS
    <3>1. ~Covers(o)
      BY <1>1, ScreenNumbers DEF Screen!Columns
    <3>. QED
      BY <3>1 DEF Framed
  <2>7. Framed(e)
    BY <2>3, <2>5, <2>6 DEF Framed
  <2>8. \A px \in Screen!Columns, py \in Screen!Rows :
          e.screen[Screen!Offset(px, py)] = IF Meets(px, py) THEN Kept(source, v) ELSE c.screen[Screen!Offset(px, py)]
    <3> TAKE px \in Screen!Columns, py \in Screen!Rows
    <3>1. Covers(Screen!Offset(px, py)) <=> Meets(px, py)
      BY <1>2, PixelPlaces
    <3>2. Screen!Offset(px, py) \in Cells
      BY PixelPlaces
    <3>3. screen[Screen!Offset(px, py)] = IF Meets(px, py) THEN Kept(source, v) ELSE c.screen[Screen!Offset(px, py)]
      BY <2>4, <3>1, <3>2
    <3>. QED
      BY <2>3, <3>3
  <2> HIDE DEF e, screen, Meets
  <2>9. \A px \in Screen!Columns, py \in Screen!Rows : <<px, py>> \in Rect(x, y, w, h) <=> Meets(px, py)
    BY RectIs DEF Meets
  <2>10. ~Composes(source)
    BY <1>5 DEF Composes, Screen!Composited
  <2>. QED
    BY <2>7, <2>8, <2>9, <2>10 DEF IsPainted, Pixel, Synced, e
<1>. QED
  BY <1>3, <1>4, <1>5

\* What is painted in turn.
LEMMA PaintedTwice ==
  ASSUME NEW s, NEW c, NEW e, NEW g, NEW S, NEW T, NEW v, IsPainted(s, c, e, S, v), IsPainted(s, e, g, T, v)
  PROVE  IsPainted(s, c, g, S \cup T, v)
<1>1. Framed(g) /\ (Synced(s, c) => Synced(s, g))
  BY DEF IsPainted
<1>2. ASSUME NEW x \in Screen!Columns, NEW y \in Screen!Rows
      PROVE  Pixel(s, g, x, y) = IF <<x, y>> \in S \cup T THEN Kept(s, v) ELSE Pixel(s, c, x, y)
  <2>1. Pixel(s, e, x, y) = IF <<x, y>> \in S THEN Kept(s, v) ELSE Pixel(s, c, x, y)
    BY DEF IsPainted
  <2>2. Pixel(s, g, x, y) = IF <<x, y>> \in T THEN Kept(s, v) ELSE Pixel(s, e, x, y)
    BY DEF IsPainted
  <2>. QED
    BY <2>1, <2>2
<1>. QED
  BY <1>1, <1>2 DEF IsPainted

Drawables == [kind : {"fill", "outline"}, x : Nat, y : Nat, w : Nat, h : Nat, colour : Nat]

\* Where a widget draws.
Touches(d, x, y) ==
  /\ d.x <= x /\ x < d.x + d.w /\ d.y <= y /\ y < d.y + d.h
  /\ d.kind = "fill" \/ x <= d.x \/ x >= d.x + d.w - 1 \/ y <= d.y \/ y >= d.y + d.h - 1

Spot(d) == {p \in Screen!Columns \X Screen!Rows : Touches(d, p[1], p[2])}

LEMMA SpotIs ==
  ASSUME NEW d, NEW x \in Screen!Columns, NEW y \in Screen!Rows
  PROVE  <<x, y>> \in Spot(d) <=> Touches(d, x, y)
BY DEF Spot

\* Two sets of places that have the same places.
LEMMA PlacesAre ==
  ASSUME NEW S \in SUBSET (Screen!Columns \X Screen!Rows), NEW T \in SUBSET (Screen!Columns \X Screen!Rows),
         \A x \in Screen!Columns, y \in Screen!Rows : <<x, y>> \in S <=> <<x, y>> \in T
  PROVE  S = T
OBVIOUS

LEMMA PaintIs ==
  ASSUME NEW c, Framed(c), NEW d \in Drawables
  PROVE  IsPainted(source, c, Screen!Paint(c, d), Spot(d), d.colour)
<1>0. d.x \in Nat /\ d.y \in Nat /\ d.w \in Nat /\ d.h \in Nat /\ d.colour \in Nat /\ d.kind \in {"fill", "outline"}
  BY DEF Drawables
<1>1. CASE d.kind = "fill"
  <2>1. Rect(d.x, d.y, d.w, d.h) = Spot(d)
    BY <1>1, Zenon DEF Rect, Spot, Touches
  <2>. QED
    BY <1>0, <1>1, <2>1, FillIs DEF Screen!Paint
<1>2. CASE d.kind = "outline" /\ (d.w = 0 \/ d.h = 0)
  <2>1. Screen!Paint(c, d) = c
    BY <1>2, Zenon DEF Screen!Paint, Screen!Outline
  <2>2. \A x \in Screen!Columns, y \in Screen!Rows : <<x, y>> \notin Spot(d)
    <3> TAKE x \in Screen!Columns, y \in Screen!Rows
    <3>1. ~Touches(d, x, y)
      BY <1>0, <1>2, PixelPlaces DEF Touches
    <3>. QED
      BY <3>1, SpotIs
  <2>. QED
    BY <2>1, <2>2 DEF IsPainted
<1>3. CASE d.kind = "outline" /\ d.w # 0 /\ d.h # 0
  <2> DEFINE right  == d.x + d.w - 1
             below  == d.y + d.h - 1
             top    == Screen!Fill(c, d.x, d.y, d.w, 1, d.colour)
             bottom == Screen!Fill(top, d.x, below, d.w, 1, d.colour)
             left   == Screen!Fill(bottom, d.x, d.y, 1, d.h, d.colour)
             all    == Screen!Fill(left, right, d.y, 1, d.h, d.colour)
             A == Rect(d.x, d.y, d.w, 1)
             B == Rect(d.x, below, d.w, 1)
             C == Rect(d.x, d.y, 1, d.h)
             D == Rect(right, d.y, 1, d.h)
  <2>1. Screen!Paint(c, d) = all
    BY <1>3, Zenon DEF Screen!Paint, Screen!Outline
  <2>2. right \in Nat /\ below \in Nat
    BY <1>0, <1>3
  <2>3. ((A \cup B) \cup C) \cup D = Spot(d)
    <3>1. ASSUME NEW x \in Screen!Columns, NEW y \in Screen!Rows
          PROVE  <<x, y>> \in ((A \cup B) \cup C) \cup D <=> <<x, y>> \in Spot(d)
      <4>1. x \in Nat /\ y \in Nat
        BY PixelPlaces
      <4>2. /\ <<x, y>> \in A <=> d.x <= x /\ x < d.x + d.w /\ y = d.y
            /\ <<x, y>> \in B <=> d.x <= x /\ x < d.x + d.w /\ y = below
            /\ <<x, y>> \in C <=> x = d.x /\ d.y <= y /\ y < d.y + d.h
            /\ <<x, y>> \in D <=> x = right /\ d.y <= y /\ y < d.y + d.h
        <5> HIDE DEF right, below
        <5>1. \A bx, by, w, h : <<x, y>> \in Rect(bx, by, w, h) <=> bx <= x /\ x < bx + w /\ by <= y /\ y < by + h
          BY RectIs
        <5>2. /\ <<x, y>> \in A <=> d.x <= x /\ x < d.x + d.w /\ d.y <= y /\ y < d.y + 1
              /\ <<x, y>> \in B <=> d.x <= x /\ x < d.x + d.w /\ below <= y /\ y < below + 1
              /\ <<x, y>> \in C <=> d.x <= x /\ x < d.x + 1 /\ d.y <= y /\ y < d.y + d.h
              /\ <<x, y>> \in D <=> right <= x /\ x < right + 1 /\ d.y <= y /\ y < d.y + d.h
          BY <5>1
        <5> HIDE DEF A, B, C, D
        <5>. QED
          BY <1>0, <2>2, <4>1, <5>2
      <4>3. Touches(d, x, y) <=> \/ d.x <= x /\ x < d.x + d.w /\ (y = d.y \/ y = below)
                                 \/ (x = d.x \/ x = right) /\ d.y <= y /\ y < d.y + d.h
        BY <1>0, <1>3, <4>1 DEF Touches
      <4>. QED
        BY <4>2, <4>3, SpotIs
    <3>2. ((A \cup B) \cup C) \cup D \subseteq Screen!Columns \X Screen!Rows /\ Spot(d) \subseteq Screen!Columns \X Screen!Rows
      BY DEF Rect, Spot
    <3>. QED
      BY <3>1, <3>2, PlacesAre
  <2> HIDE DEF right, below
  <2>4. IsPainted(source, c, top, A, d.colour)
    BY <1>0, FillIs
  <2> HIDE DEF top
  <2>5. IsPainted(source, top, bottom, B, d.colour)
    <3>1. Framed(top)
      BY <2>4 DEF IsPainted
    <3>. QED
      BY <1>0, <2>2, <3>1, FillIs
  <2> HIDE DEF bottom
  <2>6. IsPainted(source, bottom, left, C, d.colour)
    <3>1. Framed(bottom)
      BY <2>5 DEF IsPainted
    <3>. QED
      BY <1>0, <2>2, <3>1, FillIs
  <2> HIDE DEF left
  <2>7. IsPainted(source, left, all, D, d.colour)
    <3>1. Framed(left)
      BY <2>6 DEF IsPainted
    <3>. QED
      BY <1>0, <2>2, <3>1, FillIs
  <2> HIDE DEF all, A, B, C, D
  <2>8. IsPainted(source, c, bottom, A \cup B, d.colour)
    BY <2>4, <2>5, PaintedTwice
  <2>9. IsPainted(source, c, left, (A \cup B) \cup C, d.colour)
    BY <2>8, <2>6, PaintedTwice
  <2>10. IsPainted(source, c, all, ((A \cup B) \cup C) \cup D, d.colour)
    BY <2>9, <2>7, PaintedTwice
  <2>. QED
    BY <2>1, <2>3, <2>10
<1>. QED
  BY <1>0, <1>1, <1>2, <1>3

\* The scene has it in the same places.
LEMMA CoveredIs ==
  ASSUME NEW d \in Drawables, NEW x \in Screen!Columns, NEW y \in Screen!Rows
  PROVE  Screen!Shadow(x, y) \in Screen!Covered(d) <=> Touches(d, x, y)
<1>0. d.x \in Nat /\ d.y \in Nat /\ d.w \in Nat /\ d.h \in Nat /\ d.kind \in {"fill", "outline"}
  BY DEF Drawables
<1>1. x \in Nat /\ y \in Nat
  BY PixelPlaces
<1>2. ASSUME NEW bx \in Int, NEW by \in Int, NEW w \in Int, NEW h \in Int
      PROVE  Screen!Shadow(x, y) \in Screen!Box(bx, by, w, h) <=> x \in bx .. bx + w - 1 /\ y \in by .. by + h - 1
  <2>1. ASSUME NEW a \in Screen!Columns, NEW b \in Screen!Rows, Screen!Shadow(x, y) = Screen!Shadow(a, b)
        PROVE  x = a /\ y = b
    <3>1. /\ Screen!Shadow(x, y) % Width = x /\ Screen!Shadow(x, y) \div Width = y
          /\ Screen!Shadow(a, b) % Width = a /\ Screen!Shadow(a, b) \div Width = b
      BY PixelPlaces
    <3>. QED
      BY <2>1, <3>1, Zenon
  <2>. QED
    BY <2>1 DEF Screen!Box
<1>3. /\ Screen!Shadow(x, y) \in Screen!Box(d.x, d.y, d.w, d.h) <=> x \in d.x .. d.x + d.w - 1 /\ y \in d.y .. d.y + d.h - 1
      /\ Screen!Shadow(x, y) \in Screen!Box(d.x + 1, d.y + 1, d.w - 2, d.h - 2) <=>
           x \in d.x + 1 .. d.x + 1 + (d.w - 2) - 1 /\ y \in d.y + 1 .. d.y + 1 + (d.h - 2) - 1
  <2>1. /\ d.x \in Int /\ d.y \in Int /\ d.w \in Int /\ d.h \in Int
        /\ d.x + 1 \in Int /\ d.y + 1 \in Int /\ d.w - 2 \in Int /\ d.h - 2 \in Int
    BY <1>0
  <2>. QED
    BY <1>2, <2>1, Zenon
<1>4. Touches(d, x, y) <=>
        /\ x \in d.x .. d.x + d.w - 1 /\ y \in d.y .. d.y + d.h - 1
        /\ d.kind = "fill" \/ ~(x \in d.x + 1 .. d.x + 1 + (d.w - 2) - 1 /\ y \in d.y + 1 .. d.y + 1 + (d.h - 2) - 1)
  BY <1>0, <1>1 DEF Touches
<1>. QED
  BY <1>3, <1>4 DEF Screen!Covered

LEMMA MeantIs ==
  ASSUME NEW d \in Drawables, answers.scene \in [Buffer -> Nat]
  PROVE  /\ Screen!Meant(d) \in [Buffer -> Nat]
         /\ \A x \in Screen!Columns, y \in Screen!Rows :
              Screen!Meant(d)[Screen!Shadow(x, y)] =
                IF <<x, y>> \in Spot(d) THEN d.colour ELSE answers.scene[Screen!Shadow(x, y)]
<1>1. d.colour \in Nat /\ DOMAIN answers.scene = Buffer
  BY DEF Drawables
<1>2. Screen!Meant(d) = [i \in Buffer |-> IF i \in Screen!Covered(d) THEN d.colour ELSE answers.scene[i]]
  BY <1>1, Zenon DEF Screen!Meant
<1>3. Screen!Meant(d) \in [Buffer -> Nat]
  BY <1>1, <1>2
<1>4. ASSUME NEW x \in Screen!Columns, NEW y \in Screen!Rows
      PROVE  Screen!Meant(d)[Screen!Shadow(x, y)] =
               IF <<x, y>> \in Spot(d) THEN d.colour ELSE answers.scene[Screen!Shadow(x, y)]
  <2>1. Screen!Shadow(x, y) \in Buffer
    BY PixelPlaces
  <2>2. Screen!Shadow(x, y) \in Screen!Covered(d) <=> <<x, y>> \in Spot(d)
    BY CoveredIs, SpotIs
  <2>. QED
    BY <1>2, <2>1, <2>2
<1>. QED
  BY <1>3, <1>4

\* A part of the buffer is copied.
IsCopied(s, c, e, x, y, w, h) ==
  /\ Framed(e) /\ e.shadow = c.shadow /\ e.dirty = c.dirty
  /\ \A px \in Screen!Columns, py \in Screen!Rows :
       e.screen[Screen!Offset(px, py)] =
         IF x <= px /\ px < x + w /\ y <= py /\ py < y + h THEN Kept(s, c.shadow[Screen!Shadow(px, py)])
         ELSE c.screen[Screen!Offset(px, py)]

LEMMA PresentIs ==
  ASSUME NEW c, Framed(c), NEW x \in Nat, NEW y \in Nat, NEW w \in Nat, NEW h \in Nat, Screen!Composited
  PROVE  IsCopied(source, c, Screen!Present(c, x, y, w, h), x, y, w, h)
<1> DEFINE e      == Screen!Present(c, x, y, w, h)
           right  == Screen!Least(x + w, Width)
           bottom == Screen!Least(y + h, Height)
           Meets(px, py) == x <= px /\ px < x + w /\ y <= py /\ py < y + h
<1>1. right \in Nat /\ bottom \in Nat /\ right <= Width /\ bottom <= Height
  BY ScreenNumbers DEF Screen!Least
<1>2. \A px, py \in Nat : px < Width /\ py < Height =>
        (px \in x .. right - 1 /\ py \in y .. bottom - 1 <=> Meets(px, py))
  BY ScreenNumbers DEF Screen!Least
<1>3. CASE ~Screen!Inside(x, y) \/ w = 0 \/ h = 0
  <2>1. e = c
    BY <1>3, Zenon DEF Screen!Present
  <2>2. ASSUME NEW px \in Screen!Columns, NEW py \in Screen!Rows
        PROVE  ~Meets(px, py)
    BY <1>3, ScreenNumbers DEF Screen!Inside, Screen!Columns, Screen!Rows
  <2>. QED
    BY <2>1, <2>2 DEF IsCopied
<1>4. CASE Screen!Inside(x, y) /\ w # 0 /\ h # 0
  <2> DEFINE Copied(o) == o % Pitch \in x .. right - 1 /\ o \div Pitch \in y .. bottom - 1
             screen == [o \in Cells |-> IF Copied(o) THEN Screen!Stored(c.shadow[Screen!Shadow(o % Pitch, o \div Pitch)])
                                        ELSE c.screen[o]]
  <2>1. DOMAIN c.screen = Cells
    BY DEF Framed
  <2>2. e = [c EXCEPT !.screen = screen]
    BY <1>4, <2>1 DEF Screen!Present
  <2>3. e = [shadow |-> c.shadow, screen |-> screen, dirty |-> c.dirty]
    BY <2>2 DEF Framed
  <2>4. \A o \in Cells : screen[o] \in Nat /\ (o % Pitch \notin Screen!Columns => screen[o] = 3)
    <3> TAKE o \in Cells
    <3>1. o % Pitch \in Nat /\ o \div Pitch \in 0 .. Height - 1
      <4>1. o \in 0 .. Pitch * Height - 1 /\ Pitch \in Nat \ {0} /\ Height \in Nat \ {0}
        BY ScreenNumbers DEF Cells
      <4>2. o % Pitch \in 0 .. Pitch - 1 /\ o \div Pitch \in 0 .. Height - 1
        BY <4>1, PlaceOf
      <4>. QED
        BY <4>1, <4>2
    <3>2. CASE Copied(o)
      <4>1. o % Pitch \in Screen!Columns /\ o \div Pitch \in Screen!Rows
        BY <1>1, <3>1, <3>2, ScreenNumbers DEF Screen!Columns, Screen!Rows
      <4>2. Screen!Shadow(o % Pitch, o \div Pitch) \in Buffer
        BY <4>1, PixelPlaces
      <4>3. c.shadow[Screen!Shadow(o % Pitch, o \div Pitch)] \in Nat
        BY <4>2 DEF Framed
      <4>4. Screen!Stored(c.shadow[Screen!Shadow(o % Pitch, o \div Pitch)]) \in Nat
        BY <4>3, KeptIs DEF Kept, Screen!Stored
      <4>. QED
        BY <3>2, <4>1, <4>4
    <3>3. CASE ~Copied(o)
      BY <3>3 DEF Framed
    <3>. QED
      BY <3>2, <3>3
  <2>5. Framed(e)
    BY <2>3, <2>4 DEF Framed
  <2>6. ASSUME NEW px \in Screen!Columns, NEW py \in Screen!Rows
        PROVE  screen[Screen!Offset(px, py)] = IF Meets(px, py) THEN Kept(source, c.shadow[Screen!Shadow(px, py)])
                                               ELSE c.screen[Screen!Offset(px, py)]
    <3>1. /\ Screen!Offset(px, py) \in Cells /\ px \in Nat /\ py \in Nat /\ px < Width /\ py < Height
          /\ Screen!Offset(px, py) % Pitch = px /\ Screen!Offset(px, py) \div Pitch = py
      BY PixelPlaces
    <3>2. Copied(Screen!Offset(px, py)) <=> Meets(px, py)
      BY <1>2, <3>1
    <3>3. screen[Screen!Offset(px, py)] =
            IF Copied(Screen!Offset(px, py)) THEN Screen!Stored(c.shadow[Screen!Shadow(px, py)])
            ELSE c.screen[Screen!Offset(px, py)]
      BY <3>1, Zenon
    <3>. QED
      BY <3>2, <3>3, Zenon DEF Screen!Stored, Kept
  <2>7. e.shadow = c.shadow /\ e.dirty = c.dirty /\ e.screen = screen
    BY <2>3
  <2> HIDE DEF e, screen
  <2>. QED
    BY <2>5, <2>6, <2>7, Zenon DEF IsCopied, e
<1>. QED
  BY <1>3, <1>4

\* All that the box has is presented, and the box is clean.
IsPresented(s, c, e) ==
  /\ Framed(e) /\ e.dirty = Screen!Clean /\ Synced(s, e)
  /\ \A x \in Screen!Columns, y \in Screen!Rows : Pixel(s, e, x, y) = Pixel(s, c, x, y)

LEMMA CleanIs ==
  /\ Screen!Clean \in Boxes
  /\ \A x \in Screen!Columns, y \in Screen!Rows : ~InBox(Screen!Clean, x, y)
BY ScreenNumbers DEF Screen!Clean, Boxes, InBox, Screen!Columns, Screen!Rows

LEMMA CleanFrames ==
  ASSUME NEW c, Framed(c)
  PROVE  LET e == [c EXCEPT !.dirty = Screen!Clean]
         IN Framed(e) /\ e.shadow = c.shadow /\ e.screen = c.screen /\ e.dirty = Screen!Clean
BY CleanIs DEF Framed

LEMMA DamageIsPresented ==
  ASSUME NEW c, Framed(c), Synced(source, c)
  PROVE  IsPresented(source, c, Screen!PresentDamage(c))
<1> DEFINE d == c.dirty
           e == Screen!PresentDamage(c)
<1>1. d.x0 \in Nat /\ d.y0 \in Nat /\ d.x1 \in Nat /\ d.y1 \in Nat
  BY DEF Framed, Boxes
<1>2. Screen!Composited <=> Composes(source)
  BY DEF Composes, Screen!Composited
<1>3. CASE ~Screen!Composited
  <2>1. e = [c EXCEPT !.dirty = Screen!Clean]
    BY <1>3, Zenon DEF Screen!PresentDamage, Screen!Present
  <2>2. Framed(e) /\ e.screen = c.screen /\ e.dirty = Screen!Clean
    BY <2>1, CleanFrames
  <2> HIDE DEF e
  <2>. QED
    BY <1>2, <1>3, <2>2 DEF IsPresented, Synced, Pixel, e
<1>4. CASE Screen!Composited /\ (d.x0 >= d.x1 \/ d.y0 >= d.y1)
  <2>1. e = [c EXCEPT !.dirty = Screen!Clean]
    BY <1>4, Zenon DEF Screen!PresentDamage
  <2>2. Framed(e) /\ e.shadow = c.shadow /\ e.screen = c.screen /\ e.dirty = Screen!Clean
    BY <2>1, CleanFrames
  <2>3. \A x \in Screen!Columns, y \in Screen!Rows : ~InBox(d, x, y)
    <3> TAKE x \in Screen!Columns, y \in Screen!Rows
    <3>1. x \in Nat /\ y \in Nat
      BY PixelPlaces
    <3>. QED
      BY <1>1, <1>4, <3>1 DEF InBox
  <2> HIDE DEF e
  <2>. QED
    BY <1>2, <1>4, <2>2, <2>3 DEF IsPresented, Synced, Pixel, e
<1>5. CASE Screen!Composited /\ d.x0 < d.x1 /\ d.y0 < d.y1
  <2> DEFINE w == d.x1 - d.x0
             h == d.y1 - d.y0
             g == Screen!Present(c, d.x0, d.y0, w, h)
  <2>1. e = [g EXCEPT !.dirty = Screen!Clean]
    BY <1>1, <1>5 DEF Screen!PresentDamage
  <2>2. w \in Nat /\ h \in Nat /\ d.x0 + w = d.x1 /\ d.y0 + h = d.y1
    BY <1>1, <1>5
  <2>3. /\ Framed(g) /\ g.shadow = c.shadow
        /\ \A px \in Screen!Columns, py \in Screen!Rows :
             g.screen[Screen!Offset(px, py)] =
               IF InBox(d, px, py) THEN Kept(source, c.shadow[Screen!Shadow(px, py)]) ELSE c.screen[Screen!Offset(px, py)]
    <3> DEFINE Meets(px, py) == d.x0 <= px /\ px < d.x0 + w /\ d.y0 <= py /\ py < d.y0 + h
    <3> HIDE DEF w, h
    <3>1. /\ Framed(g) /\ g.shadow = c.shadow
          /\ \A px \in Screen!Columns, py \in Screen!Rows :
               g.screen[Screen!Offset(px, py)] =
                 IF Meets(px, py) THEN Kept(source, c.shadow[Screen!Shadow(px, py)]) ELSE c.screen[Screen!Offset(px, py)]
      <4>1. IsCopied(source, c, g, d.x0, d.y0, w, h)
        BY <1>1, <1>5, <2>2, PresentIs
      <4> HIDE DEF g
      <4>. QED
        BY <4>1 DEF IsCopied
    <3>2. \A px, py : Meets(px, py) <=> InBox(d, px, py)
      BY <2>2 DEF InBox
    <3>. QED
      BY <3>1, <3>2
  <2> HIDE DEF g
  <2>4. Framed(e) /\ e.shadow = g.shadow /\ e.screen = g.screen /\ e.dirty = Screen!Clean
    BY <2>1, <2>3, CleanFrames
  <2> HIDE DEF e
  <2>5. Synced(source, e)
    BY <1>2, <1>5, <2>3, <2>4 DEF Synced
  <2>6. \A px \in Screen!Columns, py \in Screen!Rows : Pixel(source, e, px, py) = Pixel(source, c, px, py)
    BY <1>2, <1>5, <2>3, <2>4 DEF Pixel
  <2>. QED
    BY <2>4, <2>5, <2>6 DEF IsPresented, e
<1>. QED
  BY <1>1, <1>3, <1>4, <1>5

LEMMA LeastIs ==
  ASSUME NEW S \in SUBSET Nat, S # {}
  PROVE  Screen!Min(S) \in S /\ \A y \in S : Screen!Min(S) <= y
<1>1. \E x \in S : \A y \in S : ~(<<y, x>> \in OpToRel(<, Nat))
  BY NatLessThanWellFounded, WFMin
<1>2. \A x, y \in Nat : <<y, x>> \in OpToRel(<, Nat) <=> y < x
  BY DEF OpToRel
<1>3. \E x \in S : \A y \in S : x <= y
  <2>1. PICK x \in S : \A y \in S : ~(<<y, x>> \in OpToRel(<, Nat))
    BY <1>1
  <2>2. x \in Nat /\ \A y \in S : y \in Nat
    OBVIOUS
  <2>3. \A y \in S : ~(y < x)
    BY <1>2, <2>1, <2>2
  <2>. QED
    BY <2>2, <2>3
<1>. QED
  BY <1>3 DEF Screen!Min

LEMMA MostIs ==
  ASSUME NEW S \in SUBSET Nat, S # {}, NEW b \in Nat, \A y \in S : y <= b
  PROVE  Screen!Max(S) \in S /\ \A y \in S : Screen!Max(S) >= y
<1> DEFINE T == {b - y : y \in S}
<1>1. T \in SUBSET Nat /\ T # {}
  <2>1. \A y \in S : b - y \in Nat
    OBVIOUS
  <2>. QED
    BY <2>1
<1>2. Screen!Min(T) \in T /\ \A t \in T : Screen!Min(T) <= t
  BY <1>1, LeastIs
<1>3. PICK x \in S : Screen!Min(T) = b - x
  BY <1>2
<1>4. \A y \in S : b - x <= b - y
  BY <1>2, <1>3
<1>5. \A y \in S : x >= y
  BY <1>4
<1>. QED
  BY <1>3, <1>5 DEF Screen!Max

\* The places of the pointer on the screen.
PointerPlaces(at) == {<<at[1] + p[1], at[2] + p[2]>> : p \in Screen!Shape} \cap (Screen!Columns \X Screen!Rows)

LEMMA ShapeIs ==
  \A p \in Screen!Shape : p = <<p[1], p[2]>> /\ p[1] \in Nat /\ p[2] \in Nat /\ p[1] < Size /\ p[2] < Size
BY ScreenNumbers DEF Screen!Shape

LEMMA PointerIs ==
  ASSUME NEW at, at[1] \in Nat, at[2] \in Nat, NEW x \in Screen!Columns, NEW y \in Screen!Rows
  PROVE  <<x, y>> \in PointerPlaces(at) <=> <<x - at[1], y - at[2]>> \in Screen!Shape
<1>1. x \in Nat /\ y \in Nat
  BY PixelPlaces
<1>2. ASSUME <<x, y>> \in PointerPlaces(at) PROVE <<x - at[1], y - at[2]>> \in Screen!Shape
  <2>1. PICK p \in Screen!Shape : <<x, y>> = <<at[1] + p[1], at[2] + p[2]>>
    BY <1>2 DEF PointerPlaces
  <2>2. x - at[1] = p[1] /\ y - at[2] = p[2]
    BY <2>1, ShapeIs
  <2>. QED
    BY <2>2, ShapeIs
<1>3. ASSUME <<x - at[1], y - at[2]>> \in Screen!Shape PROVE <<x, y>> \in PointerPlaces(at)
  <2> DEFINE p == <<x - at[1], y - at[2]>>
  <2>1. p \in Screen!Shape /\ at[1] + p[1] = x /\ at[2] + p[2] = y
    BY <1>1, <1>3
  <2>. QED
    BY <2>1 DEF PointerPlaces
<1>. QED
  BY <1>2, <1>3

\* The box that has the places seen and all of box d.
Around(d, seen) ==
  [x0 |-> Screen!Min({d.x0} \cup {q[1] : q \in seen}), y0 |-> Screen!Min({d.y0} \cup {q[2] : q \in seen}),
   x1 |-> Screen!Max({d.x1} \cup {q[1] + 1 : q \in seen}), y1 |-> Screen!Max({d.y1} \cup {q[2] + 1 : q \in seen})]

LEMMA AroundIs ==
  ASSUME NEW d \in Boxes, NEW seen \in SUBSET (Screen!Columns \X Screen!Rows)
  PROVE  /\ Around(d, seen) \in Boxes
         /\ \A x \in Screen!Columns, y \in Screen!Rows :
              InBox(d, x, y) \/ <<x, y>> \in seen => InBox(Around(d, seen), x, y)
<1> DEFINE lefts  == {d.x0} \cup {q[1] : q \in seen}
           tops   == {d.y0} \cup {q[2] : q \in seen}
           rights == {d.x1} \cup {q[1] + 1 : q \in seen}
           ends   == {d.y1} \cup {q[2] + 1 : q \in seen}
           box    == Around(d, seen)
<1>1. d.x0 \in Nat /\ d.y0 \in Nat /\ d.x1 \in Nat /\ d.y1 \in Nat
  BY DEF Boxes
<1>2. \A q \in seen : q[1] \in Nat /\ q[1] < Width /\ q[2] \in Nat /\ q[2] < Height
  BY PixelPlaces
<1>3. /\ lefts \in SUBSET Nat /\ lefts # {} /\ tops \in SUBSET Nat /\ tops # {}
      /\ rights \in SUBSET Nat /\ rights # {} /\ ends \in SUBSET Nat /\ ends # {}
  BY <1>1, <1>2
<1>4. /\ d.x1 + Width \in Nat /\ \A r \in rights : r <= d.x1 + Width
      /\ d.y1 + Height \in Nat /\ \A r \in ends : r <= d.y1 + Height
  BY <1>1, <1>2, ScreenNumbers
<1> HIDE DEF lefts, tops, rights, ends
<1>5. box.x0 \in Nat /\ \A v \in lefts : box.x0 <= v
  BY <1>3, LeastIs DEF Around, lefts
<1>6. box.y0 \in Nat /\ \A v \in tops : box.y0 <= v
  BY <1>3, LeastIs DEF Around, tops
<1>7. box.x1 \in Nat /\ \A v \in rights : box.x1 >= v
  BY <1>3, <1>4, MostIs DEF Around, rights
<1>8. box.y1 \in Nat /\ \A v \in ends : box.y1 >= v
  BY <1>3, <1>4, MostIs DEF Around, ends
<1>9. box = [x0 |-> box.x0, y0 |-> box.y0, x1 |-> box.x1, y1 |-> box.y1]
  BY DEF Around
<1> HIDE DEF box
<1>10. box \in Boxes
  BY <1>5, <1>6, <1>7, <1>8, <1>9 DEF Boxes
<1>11. ASSUME NEW x \in Screen!Columns, NEW y \in Screen!Rows, InBox(d, x, y) \/ <<x, y>> \in seen
       PROVE  InBox(box, x, y)
  <2>1. x \in Nat /\ y \in Nat
    BY PixelPlaces
  <2>2. CASE InBox(d, x, y)
    <3>1. d.x0 \in lefts /\ d.y0 \in tops /\ d.x1 \in rights /\ d.y1 \in ends
      BY DEF lefts, tops, rights, ends
    <3>. QED
      BY <1>1, <1>5, <1>6, <1>7, <1>8, <2>1, <2>2, <3>1 DEF InBox
  <2>3. CASE <<x, y>> \in seen
    <3>1. x \in lefts /\ y \in tops /\ x + 1 \in rights /\ y + 1 \in ends
      BY <2>3 DEF lefts, tops, rights, ends
    <3>. QED
      BY <1>5, <1>6, <1>7, <1>8, <2>1, <3>1 DEF InBox
  <2>. QED
    BY <1>11, <2>2, <2>3
<1>. QED
  BY <1>10, <1>11 DEF box

\* Canvas e is c with a pointer at a place, of these colours.
HasPointer(s, c, e, at, colours) ==
  /\ Framed(e)
  /\ Synced(s, c) => Synced(s, e)
  /\ \A x \in Screen!Columns, y \in Screen!Rows :
       Pixel(s, e, x, y) = IF <<x - at[1], y - at[2]>> \in Screen!Shape THEN Kept(s, colours[<<x - at[1], y - at[2]>>])
                           ELSE Pixel(s, c, x, y)

LEMMA PutIs ==
  ASSUME NEW c, Framed(c), NEW at, at[1] \in Nat, at[2] \in Nat, NEW colours \in [Screen!Shape -> Nat]
  PROVE  HasPointer(source, c, Screen!Put(c, at, colours), at, colours)
<1> DEFINE e       == Screen!Put(c, at, colours)
           seen    == PointerPlaces(at)
           Hue(x, y) == colours[<<x - at[1], y - at[2]>>]
<1>1. seen \in SUBSET (Screen!Columns \X Screen!Rows)
  BY DEF PointerPlaces
<1>2. \A x, y : <<x, y>> \in seen => x \in Screen!Columns /\ y \in Screen!Rows
  BY <1>1
<1>3. \A x, y : <<x, y>> \in seen => Hue(x, y) \in Nat
  <2> SUFFICES ASSUME NEW x, NEW y, <<x, y>> \in seen PROVE Hue(x, y) \in Nat
    OBVIOUS
  <2>1. <<x - at[1], y - at[2]>> \in Screen!Shape
    BY <1>2, PointerIs
  <2>. QED
    BY <2>1
<1> HIDE DEF Hue
<1>4. CASE Screen!Composited
  <2> DEFINE shadow == [i \in Buffer |-> IF <<i % Width, i \div Width>> \notin seen THEN c.shadow[i]
                                         ELSE Hue(i % Width, i \div Width)]
             box == Around(c.dirty, seen)
  <2>1. DOMAIN c.shadow = Buffer
    BY DEF Framed
  <2>2. e = [c EXCEPT !.shadow = shadow, !.dirty = box]
    BY <1>4, <2>1 DEF Screen!Put, PointerPlaces, Hue, Around
  <2>3. e = [shadow |-> shadow, screen |-> c.screen, dirty |-> box]
    BY <2>2 DEF Framed
  <2>4. shadow \in [Buffer -> Nat] /\ c.screen \in [Cells -> Nat] /\ c.dirty \in Boxes
    BY <1>3 DEF Framed
  <2> HIDE DEF seen
  <2>5. /\ box \in Boxes
        /\ \A x \in Screen!Columns, y \in Screen!Rows : InBox(c.dirty, x, y) \/ <<x, y>> \in seen => InBox(box, x, y)
    BY <1>1, <2>4, AroundIs
  <2>6. Framed(e)
    BY <2>3, <2>4, <2>5 DEF Framed
  <2> HIDE DEF box
  <2>7. \A x \in Screen!Columns, y \in Screen!Rows :
          shadow[Screen!Shadow(x, y)] = IF <<x, y>> \in seen THEN Hue(x, y) ELSE c.shadow[Screen!Shadow(x, y)]
    <3> TAKE x \in Screen!Columns, y \in Screen!Rows
    <3>1. Screen!Shadow(x, y) \in Buffer /\ Screen!Shadow(x, y) % Width = x /\ Screen!Shadow(x, y) \div Width = y
      BY PixelPlaces
    <3>. QED
      BY <3>1
  <2>8. e.shadow = shadow /\ e.screen = c.screen /\ e.dirty = box
    BY <2>3
  <2> HIDE DEF e, shadow
  <2>9. \A x \in Screen!Columns, y \in Screen!Rows : <<x, y>> \in seen <=> <<x - at[1], y - at[2]>> \in Screen!Shape
    BY PointerIs DEF seen
  <2>10. Composes(source)
    BY <1>4 DEF Composes, Screen!Composited
  <2>11. Synced(source, c) => Synced(source, e)
    BY <2>5, <2>7, <2>8 DEF Synced
  <2>12. \A x \in Screen!Columns, y \in Screen!Rows :
           Pixel(source, e, x, y) = IF <<x - at[1], y - at[2]>> \in Screen!Shape THEN Kept(source, Hue(x, y))
                                    ELSE Pixel(source, c, x, y)
    BY <2>7, <2>8, <2>9, <2>10 DEF Pixel
  <2>. QED
    BY <2>6, <2>11, <2>12 DEF HasPointer, Hue, e
<1>5. CASE ~Screen!Composited
  <2> DEFINE screen == [o \in Cells |-> IF <<o % Pitch, o \div Pitch>> \notin seen THEN c.screen[o]
                                        ELSE Screen!Stored(Hue(o % Pitch, o \div Pitch))]
  <2>1. DOMAIN c.screen = Cells
    BY DEF Framed
  <2>2. e = [c EXCEPT !.screen = screen]
    BY <1>5, <2>1 DEF Screen!Put, PointerPlaces, Hue
  <2>3. e = [shadow |-> c.shadow, screen |-> screen, dirty |-> c.dirty]
    BY <2>2 DEF Framed
  <2>4. \A x, y : <<x, y>> \in seen => Screen!Stored(Hue(x, y)) \in Nat
    BY <1>3, KeptIs DEF Kept, Screen!Stored
  <2> HIDE DEF seen
  <2>5. \A o \in Cells : screen[o] \in Nat /\ (o % Pitch \notin Screen!Columns => screen[o] = 3)
    BY <1>2, <2>4 DEF Framed
  <2>6. Framed(e)
    BY <2>3, <2>5 DEF Framed
  <2>7. \A x \in Screen!Columns, y \in Screen!Rows :
          screen[Screen!Offset(x, y)] = IF <<x, y>> \in seen THEN Kept(source, Hue(x, y)) ELSE c.screen[Screen!Offset(x, y)]
    <3> TAKE x \in Screen!Columns, y \in Screen!Rows
    <3>1. Screen!Offset(x, y) \in Cells /\ Screen!Offset(x, y) % Pitch = x /\ Screen!Offset(x, y) \div Pitch = y
      BY PixelPlaces
    <3>2. Screen!Stored(Hue(x, y)) = Kept(source, Hue(x, y))
      BY DEF Screen!Stored, Kept
    <3>. QED
      BY <3>1, <3>2
  <2>8. e.screen = screen
    BY <2>3
  <2> HIDE DEF e, screen
  <2>9. \A x \in Screen!Columns, y \in Screen!Rows : <<x, y>> \in seen <=> <<x - at[1], y - at[2]>> \in Screen!Shape
    BY PointerIs DEF seen
  <2>10. ~Composes(source)
    BY <1>5 DEF Composes, Screen!Composited
  <2>11. \A x \in Screen!Columns, y \in Screen!Rows :
           Pixel(source, e, x, y) = IF <<x - at[1], y - at[2]>> \in Screen!Shape THEN Kept(source, Hue(x, y))
                                    ELSE Pixel(source, c, x, y)
    BY <2>7, <2>8, <2>9, <2>10 DEF Pixel
  <2>. QED
    BY <2>6, <2>10, <2>11 DEF HasPointer, Hue, e, Synced
<1>. QED
  BY <1>4, <1>5

(***************************************************************************)
(* Frame by frame.  What the screen will show is the scene, but for the    *)
(* pointer where it is drawn; what it keeps is the scene beneath it.  Only *)
(* what was painted under a pointer is not as it was meant, and that is in *)
(* the last row.                                                           *)
(***************************************************************************)
Hues == [p \in Screen!Shape |-> IF Screen!OnEdge(p) THEN Edge ELSE Title]

IsMeant(s, a, v, x, y) ==
  v = Kept(s, a.scene[Screen!Shadow(x, y)]) \/ (y = Height - 1 /\ Screen!Shadow(x, y) \in a.stale)

CanvasTypes(s, c, w, a) ==
  /\ s \in Screen!Surfaces
  /\ Framed(c) /\ c.dirty = Screen!Clean
  /\ w = [pc |-> w.pc, frames |-> w.frames, x |-> w.x, y |-> w.y, drawn |-> w.drawn, at |-> w.at, under |-> w.under]
  /\ w.x \in Screen!Columns /\ w.y \in Screen!Rows /\ w.drawn \in BOOLEAN
  /\ w.at[1] \in Nat /\ w.at[2] \in Nat /\ w.under \in [Screen!Shape -> Nat]
  /\ a = [scene |-> a.scene, stale |-> a.stale] /\ a.scene \in [Buffer -> Nat]
  /\ w.drawn => s.pointer /\ w.pc \in {"between", "moved", "erase"}

SceneHeld(s, c, w, a) ==
  \A x \in Screen!Columns, y \in Screen!Rows :
    IF w.drawn /\ <<x - w.at[1], y - w.at[2]>> \in Screen!Shape
    THEN /\ w.pc \in {"between", "moved"} => Pixel(s, c, x, y) = Kept(s, Hues[<<x - w.at[1], y - w.at[2]>>])
         /\ IsMeant(s, a, Kept(s, w.under[<<x - w.at[1], y - w.at[2]>>]), x, y)
    ELSE IsMeant(s, a, Pixel(s, c, x, y), x, y)

CanvasHeld(s, c, w, a) ==
  /\ CanvasTypes(s, c, w, a)
  /\ w.pc # "clear" => Synced(s, c) /\ SceneHeld(s, c, w, a)

CanvasInv == CanvasHeld(source, code, walk, answers)

LEMMA CanvasNow ==
  ASSUME CanvasHeld(source', code', walk', answers')
  PROVE  CanvasInv'
BY DEF CanvasInv, CanvasHeld, CanvasTypes, SceneHeld, IsMeant, Pixel, Kept, Composes, Framed, Synced, InBox

LEMMA HuesAre == Hues \in [Screen!Shape -> Nat]
BY ScreenNumbers DEF Hues

LEMMA CanvasStarts ==
  ASSUME Screen!CanvasInit, source \in Screen!Surfaces
  PROVE  CanvasInv
<1>1. code.dirty = Screen!Clean /\ Framed(code)
  <2>1. code = [shadow |-> [i \in Buffer |-> 0], screen |-> [o \in Cells |-> 3], dirty |-> Screen!Clean]
    BY DEF Screen!CanvasInit, Buffer, Cells
  <2>. QED
    BY <2>1, CleanIs DEF Framed
<1>2. walk = [pc |-> "clear", frames |-> 0, x |-> 0, y |-> 0, drawn |-> FALSE, at |-> <<0, 0>>,
              under |-> [p \in Screen!Shape |-> 0]]
  BY DEF Screen!CanvasInit
<1>3. answers = [scene |-> [i \in Buffer |-> 0], stale |-> {}]
  BY DEF Screen!CanvasInit, Buffer
<1>4. 0 \in Screen!Columns /\ 0 \in Screen!Rows
  BY ScreenNumbers DEF Screen!Columns, Screen!Rows
<1>5. CanvasTypes(source, code, walk, answers)
  BY <1>1, <1>2, <1>3, <1>4 DEF CanvasTypes
<1>. QED
  BY <1>2, <1>5 DEF CanvasInv, CanvasHeld

LEMMA CanvasStutter ==
  ASSUME CanvasInv, UNCHANGED <<source, code, walk, answers>>
  PROVE  CanvasInv'
<1>1. CanvasHeld(source', code', walk', answers')
  BY DEF CanvasInv
<1>. QED
  BY <1>1, CanvasNow

\* What a canvas has for certain.
LEMMA CanvasHas ==
  ASSUME CanvasInv
  PROVE  /\ Framed(code) /\ answers.scene \in [Buffer -> Nat] /\ CanvasTypes(source, code, walk, answers)
         /\ walk.pc # "clear" => Synced(source, code) /\ SceneHeld(source, code, walk, answers)
BY DEF CanvasInv, CanvasHeld, CanvasTypes

\* A step that changes where the job is, and nothing drawn.
LEMMA PlaceStep ==
  ASSUME CanvasInv, source' = source, Screen!Move \/ Screen!BeginFrame
  PROVE  CanvasInv'
<1>1. CASE Screen!Move
  <2>1. PICK x \in Screen!Columns, y \in Screen!Rows : walk' = [walk EXCEPT !.x = x, !.y = y, !.pc = "moved"]
    BY <1>1 DEF Screen!Move
  <2>2. walk.pc = "between" /\ code' = code /\ answers' = answers
    BY <1>1 DEF Screen!Move, Screen!At
  <2>3. walk' = [pc |-> "moved", frames |-> walk.frames, x |-> x, y |-> y, drawn |-> walk.drawn, at |-> walk.at,
                 under |-> walk.under]
    BY <2>1, CanvasHas DEF CanvasTypes
  <2>4. CanvasTypes(source', code', walk', answers')
    BY <2>2, <2>3, CanvasHas DEF CanvasTypes
  <2>5. SceneHeld(source', code', walk', answers')
    BY <2>2, <2>3, CanvasHas DEF SceneHeld
  <2>. QED
    BY <2>2, <2>4, <2>5, CanvasHas, CanvasNow DEF CanvasHeld
<1>2. CASE Screen!BeginFrame
  <2>1. walk.pc = "moved" /\ code' = code /\ answers' = answers /\ walk' = [walk EXCEPT !.pc = "erase"]
    BY <1>2 DEF Screen!BeginFrame, Screen!At, Screen!Goes
  <2>2. walk' = [pc |-> "erase", frames |-> walk.frames, x |-> walk.x, y |-> walk.y, drawn |-> walk.drawn, at |-> walk.at,
                 under |-> walk.under]
    BY <2>1, CanvasHas DEF CanvasTypes
  <2>3. CanvasTypes(source', code', walk', answers')
    BY <2>1, <2>2, CanvasHas DEF CanvasTypes
  <2>4. SceneHeld(source', code', walk', answers')
    BY <2>1, <2>2, CanvasHas DEF SceneHeld
  <2>. QED
    BY <2>1, <2>2, <2>3, <2>4, CanvasHas, CanvasNow DEF CanvasHeld
<1>. QED
  BY <1>1, <1>2

LEMMA WholeIs ==
  ASSUME NEW v \in Nat
  PROVE  /\ Screen!Whole(v) \in Drawables /\ Screen!Whole(v).colour = v
         /\ \A x \in Screen!Columns, y \in Screen!Rows : <<x, y>> \in Spot(Screen!Whole(v))
<1>1. Screen!Whole(v) \in Drawables /\ Screen!Whole(v).colour = v
  BY ScreenNumbers DEF Screen!Whole, Drawables
<1>2. ASSUME NEW x \in Screen!Columns, NEW y \in Screen!Rows PROVE <<x, y>> \in Spot(Screen!Whole(v))
  <2>1. x \in Nat /\ y \in Nat /\ x < Width /\ y < Height
    BY PixelPlaces
  <2>2. Touches(Screen!Whole(v), x, y)
    BY <2>1, ScreenNumbers DEF Touches, Screen!Whole
  <2>. QED
    BY <2>2, SpotIs
<1>. QED
  BY <1>1, <1>2

LEMMA FirstScreenStep ==
  ASSUME CanvasInv, source' = source, Screen!FirstScreen
  PROVE  CanvasInv'
<1> DEFINE d == Screen!Whole(Screen!Background)
           e == Screen!Paint(code, d)
           g == Screen!Present(e, 0, 0, Width, Height)
<1>1. walk.pc = "clear" /\ code' = [g EXCEPT !.dirty = Screen!Clean]
      /\ answers' = [answers EXCEPT !.scene = Screen!Meant(d)] /\ walk' = [walk EXCEPT !.pc = "between"]
  BY DEF Screen!FirstScreen, Screen!At, Screen!Goes
<1>2. /\ d \in Drawables /\ d.colour \in Nat
      /\ \A x \in Screen!Columns, y \in Screen!Rows : <<x, y>> \in Spot(d)
  BY WholeIs DEF Screen!Background
<1> HIDE DEF d
<1>3. IsPainted(source, code, e, Spot(d), d.colour)
  BY <1>2, PaintIs, CanvasHas
<1>4. Framed(e) /\ \A x \in Screen!Columns, y \in Screen!Rows : Pixel(source, e, x, y) = Kept(source, d.colour)
  BY <1>2, <1>3 DEF IsPainted
<1> HIDE DEF e
<1>5. /\ Framed(g)
      /\ Composes(source) => \A x \in Screen!Columns, y \in Screen!Rows :
           g.screen[Screen!Offset(x, y)] = Kept(source, g.shadow[Screen!Shadow(x, y)])
      /\ \A x \in Screen!Columns, y \in Screen!Rows : Pixel(source, g, x, y) = Kept(source, d.colour)
  <2>1. CASE ~Screen!Composited
    <3>1. g = e
      BY <2>1, Zenon DEF Screen!Present
    <3>. QED
      BY <1>4, <2>1, <3>1 DEF Composes, Screen!Composited
  <2>2. CASE Screen!Composited
    <3>1. IsCopied(source, e, g, 0, 0, Width, Height)
      BY <1>4, <2>2, ScreenNumbers, PresentIs
    <3> HIDE DEF g
    <3>2. \A x \in Screen!Columns, y \in Screen!Rows : 0 <= x /\ x < 0 + Width /\ 0 <= y /\ y < 0 + Height
      BY ScreenNumbers, PixelPlaces
    <3>3. Framed(g) /\ g.shadow = e.shadow
          /\ \A x \in Screen!Columns, y \in Screen!Rows :
               g.screen[Screen!Offset(x, y)] = Kept(source, e.shadow[Screen!Shadow(x, y)])
      BY <3>1, <3>2 DEF IsCopied
    <3>4. Composes(source)
      BY <2>2 DEF Composes, Screen!Composited
    <3>. QED
      BY <1>4, <3>3, <3>4 DEF Pixel
  <2>. QED
    BY <2>1, <2>2
<1> HIDE DEF g
<1>6. Framed(code') /\ code'.shadow = g.shadow /\ code'.screen = g.screen /\ code'.dirty = Screen!Clean
  BY <1>1, <1>5, CleanFrames
<1>7. Synced(source, code') /\ \A x \in Screen!Columns, y \in Screen!Rows : Pixel(source, code', x, y) = Kept(source, d.colour)
  BY <1>5, <1>6 DEF Synced, Pixel
<1>8. walk' = [pc |-> "between", frames |-> walk.frames, x |-> walk.x, y |-> walk.y, drawn |-> walk.drawn, at |-> walk.at,
               under |-> walk.under]
  BY <1>1, CanvasHas DEF CanvasTypes
<1>9. /\ answers' = [scene |-> Screen!Meant(d), stale |-> answers.stale]
      /\ Screen!Meant(d) \in [Buffer -> Nat]
      /\ \A x \in Screen!Columns, y \in Screen!Rows : Screen!Meant(d)[Screen!Shadow(x, y)] = d.colour
  BY <1>1, <1>2, CanvasHas, MeantIs DEF CanvasTypes
<1>10. CanvasTypes(source', code', walk', answers')
  BY <1>1, <1>6, <1>8, <1>9, CanvasHas DEF CanvasTypes
<1>11. walk.drawn = FALSE
  BY <1>1, CanvasHas DEF CanvasTypes
<1>12. SceneHeld(source', code', walk', answers')
  BY <1>7, <1>8, <1>9, <1>11 DEF SceneHeld, IsMeant
<1>. QED
  BY <1>7, <1>10, <1>12, CanvasNow DEF CanvasHeld

\* Something is drawn, and presented.
LEMMA DrawnIs ==
  ASSUME CanvasInv, walk.pc # "clear", NEW d \in Drawables
  PROVE  LET e == Screen!PresentDamage(Screen!Paint(code, d))
         IN /\ Framed(e) /\ e.dirty = Screen!Clean /\ Synced(source, e)
            /\ \A x \in Screen!Columns, y \in Screen!Rows :
                 Pixel(source, e, x, y) = IF <<x, y>> \in Spot(d) THEN Kept(source, d.colour) ELSE Pixel(source, code, x, y)
<1> DEFINE g == Screen!Paint(code, d)
           e == Screen!PresentDamage(g)
<1>1. IsPainted(source, code, g, Spot(d), d.colour)
  BY CanvasHas, PaintIs
<1>2. Framed(g) /\ Synced(source, g)
  BY <1>1, CanvasHas DEF IsPainted
<1> HIDE DEF g
<1>3. IsPresented(source, g, e)
  BY <1>2, DamageIsPresented
<1> HIDE DEF e
<1>4. /\ Framed(e) /\ e.dirty = Screen!Clean /\ Synced(source, e)
      /\ \A x \in Screen!Columns, y \in Screen!Rows :
           Pixel(source, e, x, y) = IF <<x, y>> \in Spot(d) THEN Kept(source, d.colour) ELSE Pixel(source, code, x, y)
  BY <1>1, <1>3, Zenon DEF IsPainted, IsPresented
<1>. QED
  BY <1>4 DEF e, g

\* The notice of power_off() is the whole of the last row.
LEMMA PowerOffStep ==
  ASSUME CanvasInv, source' = source, Screen!PowerOff
  PROVE  CanvasInv'
<1> DEFINE d == [Screen!Whole(Screen!Background + 1) EXCEPT !.y = Height - 1, !.h = 1]
           e == Screen!PresentDamage(Screen!Paint(code, d))
           Place(x, y) == <<x - walk.at[1], y - walk.at[2]>>
<1>1. /\ walk.pc = "moved" /\ code' = e /\ walk' = [walk EXCEPT !.pc = "erase"]
      /\ answers' = [scene |-> Screen!Meant(d), stale |-> IF walk.drawn THEN Screen!PatchOf(walk.at) ELSE {}]
  BY DEF Screen!PowerOff, Screen!At, Screen!Goes
<1>2. d = [kind |-> "fill", x |-> 0, y |-> Height - 1, w |-> Width, h |-> 1, colour |-> 2]
  <2> DEFINE whole == Screen!Whole(Screen!Background + 1)
             last  == [whole EXCEPT !.y = Height - 1]
  <2>1. whole = [kind |-> "fill", x |-> 0, y |-> 0, w |-> Width, h |-> Height, colour |-> 2]
    BY DEF Screen!Whole, Screen!Background
  <2> HIDE DEF whole
  <2>2. last = [kind |-> "fill", x |-> 0, y |-> Height - 1, w |-> Width, h |-> Height, colour |-> 2]
    BY <2>1
  <2>3. d = [last EXCEPT !.h = 1]
    BY DEF whole, last
  <2> HIDE DEF last, d
  <2>. QED
    BY <2>2, <2>3
<1> HIDE DEF d
<1>3. d \in Drawables /\ d.colour = 2
  BY <1>2, ScreenNumbers DEF Drawables
<1>4. \A x \in Screen!Columns, y \in Screen!Rows : <<x, y>> \in Spot(d) <=> y = Height - 1
  <2> TAKE x \in Screen!Columns, y \in Screen!Rows
  <2>1. x \in Nat /\ y \in Nat /\ x < Width /\ y < Height
    BY PixelPlaces
  <2>2. Touches(d, x, y) <=> y = Height - 1
    BY <1>2, <2>1, ScreenNumbers DEF Touches
  <2>. QED
    BY <2>2, SpotIs
<1>5. /\ Framed(e) /\ e.dirty = Screen!Clean /\ Synced(source, e)
      /\ \A x \in Screen!Columns, y \in Screen!Rows :
           Pixel(source, e, x, y) = IF y = Height - 1 THEN Kept(source, d.colour) ELSE Pixel(source, code, x, y)
  BY <1>1, <1>3, <1>4, DrawnIs
<1> HIDE DEF e
<1>6. /\ answers'.scene = Screen!Meant(d) /\ answers'.stale = (IF walk.drawn THEN Screen!PatchOf(walk.at) ELSE {})
      /\ answers' = [scene |-> answers'.scene, stale |-> answers'.stale]
      /\ answers'.scene \in [Buffer -> Nat]
      /\ \A x \in Screen!Columns, y \in Screen!Rows :
           answers'.scene[Screen!Shadow(x, y)] = IF y = Height - 1 THEN d.colour ELSE answers.scene[Screen!Shadow(x, y)]
  BY <1>1, <1>3, <1>4, MeantIs, CanvasHas
<1>7. walk' = [pc |-> "erase", frames |-> walk.frames, x |-> walk.x, y |-> walk.y, drawn |-> walk.drawn, at |-> walk.at,
               under |-> walk.under]
  BY <1>1, CanvasHas DEF CanvasTypes
<1>8. CanvasTypes(source', code', walk', answers')
  BY <1>1, <1>5, <1>6, <1>7, CanvasHas DEF CanvasTypes
<1>9. walk.at[1] \in Nat /\ walk.at[2] \in Nat /\ SceneHeld(source, code, walk, answers)
  BY <1>1, CanvasHas DEF CanvasTypes
<1>10. \A x \in Screen!Columns, y \in Screen!Rows :
         walk.drawn /\ Place(x, y) \in Screen!Shape => Screen!Shadow(x, y) \in answers'.stale
  <2> SUFFICES ASSUME NEW x \in Screen!Columns, NEW y \in Screen!Rows, walk.drawn, Place(x, y) \in Screen!Shape
               PROVE  Screen!Shadow(x, y) \in Screen!PatchOf(walk.at)
    BY <1>6
  <2> DEFINE q == Place(x, y)
  <2>1. x \in Nat /\ y \in Nat
    BY PixelPlaces
  <2>2. walk.at[1] + q[1] = x /\ walk.at[2] + q[2] = y
    BY <1>9, <2>1
  <2> HIDE DEF q
  <2>3. q \in {r \in Screen!Shape : Screen!Inside(walk.at[1] + r[1], walk.at[2] + r[2])}
    BY <2>2 DEF Screen!Inside, q
  <2>. QED
    BY <2>2, <2>3, Zenon DEF Screen!PatchOf
<1>11. SceneHeld(source', code', walk', answers')
  <2> SUFFICES ASSUME NEW x \in Screen!Columns, NEW y \in Screen!Rows
               PROVE  IF walk.drawn /\ Place(x, y) \in Screen!Shape
                      THEN IsMeant(source, answers', Kept(source, walk.under[Place(x, y)]), x, y)
                      ELSE IsMeant(source, answers', Pixel(source, e, x, y), x, y)
    BY <1>1, <1>7 DEF SceneHeld
  <2>1. IF walk.drawn /\ Place(x, y) \in Screen!Shape
        THEN IsMeant(source, answers, Kept(source, walk.under[Place(x, y)]), x, y)
        ELSE IsMeant(source, answers, Pixel(source, code, x, y), x, y)
    BY <1>9 DEF SceneHeld
  <2>2. CASE y = Height - 1
    BY <1>5, <1>6, <1>10, <2>2 DEF IsMeant
  <2>3. CASE y # Height - 1
    BY <1>5, <1>6, <2>1, <2>3 DEF IsMeant
  <2>. QED
    BY <2>2, <2>3
<1>. QED
  BY <1>1, <1>5, <1>8, <1>11, CanvasNow DEF CanvasHeld

LEMMA EraseStep ==
  ASSUME CanvasInv, source' = source, Screen!Erase
  PROVE  CanvasInv'
<1> DEFINE Place(x, y) == <<x - walk.at[1], y - walk.at[2]>>
<1>1. /\ walk.pc = "erase" /\ answers' = answers
      /\ code' = IF source.pointer /\ walk.drawn THEN Screen!PresentDamage(Screen!CursorErase(code, walk.at, walk.under)) ELSE code
      /\ walk' = [[walk EXCEPT !.pc = "first"] EXCEPT !.drawn = walk.drawn /\ ~source.pointer]
  BY DEF Screen!Erase, Screen!At, Screen!Goes
<1>2. /\ walk.drawn \in BOOLEAN /\ (walk.drawn => source.pointer) /\ source.pointer \in BOOLEAN
      /\ walk.at[1] \in Nat /\ walk.at[2] \in Nat /\ walk.under \in [Screen!Shape -> Nat]
  BY CanvasHas DEF CanvasTypes, Screen!Surfaces
<1>3. walk' = [pc |-> "first", frames |-> walk.frames, x |-> walk.x, y |-> walk.y, drawn |-> FALSE, at |-> walk.at,
               under |-> walk.under]
  BY <1>1, <1>2, CanvasHas DEF CanvasTypes
<1>4. Framed(code) /\ Synced(source, code) /\ SceneHeld(source, code, walk, answers) /\ code.dirty = Screen!Clean
  BY <1>1, CanvasHas DEF CanvasTypes
<1>5. /\ Framed(code') /\ code'.dirty = Screen!Clean /\ Synced(source, code')
      /\ \A x \in Screen!Columns, y \in Screen!Rows : IsMeant(source, answers, Pixel(source, code', x, y), x, y)
  <2>1. CASE ~walk.drawn
    BY <1>1, <1>4, <2>1 DEF SceneHeld
  <2>2. CASE walk.drawn
    <3> DEFINE g == Screen!Put(code, walk.at, walk.under)
               e == Screen!PresentDamage(g)
    <3>1. code' = e
      BY <1>1, <1>2, <2>2 DEF Screen!CursorErase
    <3>2. HasPointer(source, code, g, walk.at, walk.under)
      BY <1>2, <1>4, PutIs
    <3> HIDE DEF g
    <3>3. Framed(g) /\ Synced(source, g)
      BY <1>4, <3>2 DEF HasPointer
    <3>4. IsPresented(source, g, e)
      BY <3>3, DamageIsPresented
    <3> HIDE DEF e
    <3>5. ASSUME NEW x \in Screen!Columns, NEW y \in Screen!Rows
          PROVE  IsMeant(source, answers, Pixel(source, e, x, y), x, y)
      <4>1. Pixel(source, e, x, y) = IF Place(x, y) \in Screen!Shape THEN Kept(source, walk.under[Place(x, y)])
                                     ELSE Pixel(source, code, x, y)
        BY <3>2, <3>4, Zenon DEF HasPointer, IsPresented
      <4>2. IF Place(x, y) \in Screen!Shape THEN IsMeant(source, answers, Kept(source, walk.under[Place(x, y)]), x, y)
            ELSE IsMeant(source, answers, Pixel(source, code, x, y), x, y)
        BY <1>4, <2>2 DEF SceneHeld
      <4>. QED
        BY <4>1, <4>2, Zenon
    <3>. QED
      BY <3>1, <3>4, <3>5 DEF IsPresented
  <2>. QED
    BY <1>2, <2>1, <2>2
<1>6. CanvasTypes(source', code', walk', answers')
  BY <1>1, <1>3, <1>5, CanvasHas DEF CanvasTypes
<1>7. SceneHeld(source', code', walk', answers')
  <2>1. walk'.drawn = FALSE
    BY <1>3
  <2>2. SceneHeld(source, code', walk', answers)
    BY <1>5, <2>1, Zenon DEF SceneHeld
  <2>. QED
    BY <1>1, <2>2
<1>8. walk'.pc # "clear"
  BY <1>3
<1>. QED
  BY <1>5, <1>6, <1>7, <1>8, CanvasNow DEF CanvasHeld

LEMMA WidgetStep ==
  ASSUME CanvasInv, source' = source, Screen!FirstWidget \/ Screen!SecondWidget
  PROVE  CanvasInv'
<1>1. PICK now \in {"first", "second"}, next \in {"second", "draw"} : Screen!Widget(now, next)
  BY DEF Screen!FirstWidget, Screen!SecondWidget
<1>2. walk.pc \in {"first", "second"} /\ walk' = [walk EXCEPT !.pc = next]
  BY <1>1 DEF Screen!Widget, Screen!At, Screen!Goes
<1>3. walk.drawn = FALSE
  BY <1>2, CanvasHas DEF CanvasTypes
<1>4. walk' = [pc |-> next, frames |-> walk.frames, x |-> walk.x, y |-> walk.y, drawn |-> FALSE, at |-> walk.at,
               under |-> walk.under]
  BY <1>2, <1>3, CanvasHas DEF CanvasTypes
<1>5. /\ Framed(code) /\ Synced(source, code)
      /\ \A x \in Screen!Columns, y \in Screen!Rows : IsMeant(source, answers, Pixel(source, code, x, y), x, y)
  BY <1>2, <1>3, CanvasHas DEF SceneHeld
<1> DEFINE Held ==
      /\ Framed(code') /\ code'.dirty = Screen!Clean /\ Synced(source, code')
      /\ answers' = [scene |-> answers'.scene, stale |-> answers'.stale] /\ answers'.scene \in [Buffer -> Nat]
      /\ \A x \in Screen!Columns, y \in Screen!Rows : IsMeant(source, answers', Pixel(source, code', x, y), x, y)
<1>6. Held
  <2>0. \/ code' = Screen!PresentDamage(code) /\ UNCHANGED answers
        \/ \E d \in Draws :
             /\ code' = Screen!PresentDamage(Screen!Paint(code, d))
             /\ answers' = [scene |-> Screen!Meant(d), stale |-> answers.stale \ Screen!Covered(d)]
    BY <1>1 DEF Screen!Widget
  <2>1. CASE code' = Screen!PresentDamage(code) /\ UNCHANGED answers
    <3>1. IsPresented(source, code, code')
      BY <1>5, <2>1, DamageIsPresented
    <3>. QED
      BY <1>5, <2>1, <3>1, CanvasHas DEF IsPresented, CanvasTypes
  <2>2. ASSUME NEW d \in Draws, code' = Screen!PresentDamage(Screen!Paint(code, d)),
               answers' = [scene |-> Screen!Meant(d), stale |-> answers.stale \ Screen!Covered(d)]
        PROVE  Held
    <3>1. d \in Drawables
      BY ScreenAssumption DEF Drawables
    <3>2. /\ Framed(code') /\ code'.dirty = Screen!Clean /\ Synced(source, code')
          /\ \A x \in Screen!Columns, y \in Screen!Rows :
               Pixel(source, code', x, y) = IF <<x, y>> \in Spot(d) THEN Kept(source, d.colour) ELSE Pixel(source, code, x, y)
      BY <1>2, <2>2, <3>1, DrawnIs
    <3>3. /\ answers' = [scene |-> answers'.scene, stale |-> answers'.stale]
          /\ answers'.scene \in [Buffer -> Nat]
          /\ \A x \in Screen!Columns, y \in Screen!Rows :
               answers'.scene[Screen!Shadow(x, y)] = IF <<x, y>> \in Spot(d) THEN d.colour ELSE answers.scene[Screen!Shadow(x, y)]
      BY <2>2, <3>1, MeantIs, CanvasHas
    <3>4. ASSUME NEW x \in Screen!Columns, NEW y \in Screen!Rows
          PROVE  IsMeant(source, answers', Pixel(source, code', x, y), x, y)
      <4>1. CASE <<x, y>> \in Spot(d)
        BY <3>2, <3>3, <4>1 DEF IsMeant
      <4>2. CASE <<x, y>> \notin Spot(d)
        <5>1. Screen!Shadow(x, y) \notin Screen!Covered(d)
          BY <3>1, <4>2, CoveredIs, SpotIs
        <5>2. Screen!Shadow(x, y) \in answers.stale => Screen!Shadow(x, y) \in answers'.stale
          BY <2>2, <5>1
        <5>. QED
          BY <1>5, <3>2, <3>3, <4>2, <5>2 DEF IsMeant
      <4>. QED
        BY <4>1, <4>2
    <3>. QED
      BY <3>2, <3>3, <3>4
  <2>. QED
    <3> HIDE DEF Held
    <3>. QED
      BY <2>0, <2>1, <2>2
<1>7. CanvasTypes(source', code', walk', answers')
  BY <1>4, <1>6, CanvasHas DEF CanvasTypes
<1>8. SceneHeld(source', code', walk', answers')
  <2>1. walk'.drawn = FALSE
    BY <1>4
  <2>2. SceneHeld(source, code', walk', answers')
    BY <1>6, <2>1, Zenon DEF SceneHeld
  <2>. QED
    BY <2>2
<1>. QED
  BY <1>6, <1>7, <1>8, CanvasNow DEF CanvasHeld

\* What is beneath the pointer is kept as it is there.
LEMMA BeneathIs ==
  ASSUME NEW c, Framed(c), NEW at, at[1] \in Nat, at[2] \in Nat
  PROVE  /\ Screen!Beneath(c, at) \in [Screen!Shape -> Nat]
         /\ \A x \in Screen!Columns, y \in Screen!Rows :
              <<x - at[1], y - at[2]>> \in Screen!Shape =>
                Kept(source, Screen!Beneath(c, at)[<<x - at[1], y - at[2]>>]) =
                  Kept(source, IF Composes(source) THEN c.shadow[Screen!Shadow(x, y)] ELSE c.screen[Screen!Offset(x, y)])
<1>1. \A x, y : Screen!Get(c, x, y) \in Nat
  <2> TAKE x, y
  <2>1. CASE ~Screen!Inside(x, y)
    BY <2>1 DEF Screen!Get
  <2>2. CASE Screen!Inside(x, y)
    <3>1. Screen!Shadow(x, y) \in Buffer /\ Screen!Offset(x, y) \in Cells
      BY <2>2, PixelPlaces DEF Screen!Inside
    <3>2. c.shadow[Screen!Shadow(x, y)] \in Nat /\ c.screen[Screen!Offset(x, y)] \in Nat
      BY <3>1 DEF Framed
    <3>. QED
      BY <2>2, <3>2 DEF Screen!Get
  <2>. QED
    BY <2>1, <2>2
<1>2. ASSUME NEW x \in Screen!Columns, NEW y \in Screen!Rows, <<x - at[1], y - at[2]>> \in Screen!Shape
      PROVE  Screen!Beneath(c, at)[<<x - at[1], y - at[2]>>] =
               IF Composes(source) THEN c.shadow[Screen!Shadow(x, y)] ELSE c.screen[Screen!Offset(x, y)]
  <2> DEFINE p == <<x - at[1], y - at[2]>>
  <2>1. x \in Nat /\ y \in Nat
    BY PixelPlaces
  <2>2. at[1] + p[1] = x /\ at[2] + p[2] = y
    BY <2>1
  <2>3. p \in Screen!Shape
    BY <1>2
  <2> HIDE DEF p
  <2>4. Screen!Beneath(c, at)[p] = Screen!Get(c, x, y)
    BY <2>2, <2>3 DEF Screen!Beneath
  <2>5. Screen!Inside(x, y)
    BY DEF Screen!Inside
  <2>6. Composes(source) <=> Screen!Composited
    BY DEF Composes, Screen!Composited
  <2>. QED
    BY <2>4, <2>5, <2>6, Zenon DEF Screen!Get, p
<1>. QED
  BY <1>1, <1>2 DEF Screen!Beneath

LEMMA DrawCursorStep ==
  ASSUME CanvasInv, source' = source, Screen!DrawCursor
  PROVE  CanvasInv'
<1>1. walk.pc = "draw" /\ answers' = answers
  BY DEF Screen!DrawCursor, Screen!At
<1>2. /\ Framed(code) /\ code.dirty = Screen!Clean /\ Synced(source, code) /\ walk.drawn = FALSE
      /\ walk.x \in Screen!Columns /\ walk.y \in Screen!Rows
      /\ \A x \in Screen!Columns, y \in Screen!Rows : IsMeant(source, answers, Pixel(source, code, x, y), x, y)
  <2>1. walk.drawn = FALSE /\ code.dirty = Screen!Clean /\ walk.x \in Screen!Columns /\ walk.y \in Screen!Rows
    BY <1>1, CanvasHas DEF CanvasTypes
  <2>2. SceneHeld(source, code, walk, answers)
    BY <1>1, CanvasHas
  <2>3. \A x \in Screen!Columns, y \in Screen!Rows : IsMeant(source, answers, Pixel(source, code, x, y), x, y)
    BY <2>1, <2>2, Zenon DEF SceneHeld
  <2>. QED
    BY <1>1, <2>1, <2>3, CanvasHas
<1>3. CASE ~source.pointer
  <2>1. code' = code /\ walk' = [[walk EXCEPT !.pc = "between"] EXCEPT !.frames = @ + 1]
    BY <1>3 DEF Screen!DrawCursor, Screen!Goes
  <2>2. walk' = [pc |-> "between", frames |-> walk.frames + 1, x |-> walk.x, y |-> walk.y, drawn |-> FALSE, at |-> walk.at,
                 under |-> walk.under]
    BY <1>2, <2>1, CanvasHas DEF CanvasTypes
  <2>3. CanvasTypes(source', code', walk', answers')
    BY <1>1, <2>1, <2>2, CanvasHas DEF CanvasTypes
  <2>4. walk'.drawn = FALSE
    BY <2>2
  <2>5. SceneHeld(source, code, walk', answers)
    BY <1>2, <2>4, Zenon DEF SceneHeld
  <2>. QED
    BY <1>1, <1>2, <2>1, <2>3, <2>5, CanvasNow DEF CanvasHeld
<1>4. CASE source.pointer
  <2> DEFINE at    == <<walk.x, walk.y>>
             g     == Screen!Put(code, at, Hues)
             e     == Screen!PresentDamage(g)
             under == Screen!Beneath(code, at)
             Place(x, y) == <<x - at[1], y - at[2]>>
  <2>1. /\ code' = e
        /\ walk' = [[walk EXCEPT !.pc = "between"] EXCEPT !.at = at, !.under = under, !.drawn = TRUE, !.frames = @ + 1]
    BY <1>4 DEF Screen!DrawCursor, Screen!Goes, Screen!CursorDraw, Hues
  <2>2. at[1] = walk.x /\ at[2] = walk.y /\ at[1] \in Nat /\ at[2] \in Nat
    BY <1>2, PixelPlaces
  <2> HIDE DEF at
  <2>3. HasPointer(source, code, g, at, Hues)
    BY <1>2, <2>2, HuesAre, PutIs
  <2>4. /\ under \in [Screen!Shape -> Nat]
        /\ \A x \in Screen!Columns, y \in Screen!Rows :
             Place(x, y) \in Screen!Shape =>
               Kept(source, under[Place(x, y)]) =
                 Kept(source, IF Composes(source) THEN code.shadow[Screen!Shadow(x, y)] ELSE code.screen[Screen!Offset(x, y)])
    BY <1>2, <2>2, BeneathIs
  <2> HIDE DEF g, under
  <2>5. Framed(g) /\ Synced(source, g)
    BY <1>2, <2>3 DEF HasPointer
  <2>6. IsPresented(source, g, e)
    BY <2>5, DamageIsPresented
  <2> HIDE DEF e
  <2>7. Framed(e) /\ e.dirty = Screen!Clean /\ Synced(source, e)
    BY <2>6 DEF IsPresented
  <2>8. \A x \in Screen!Columns, y \in Screen!Rows :
          Pixel(source, e, x, y) = IF Place(x, y) \in Screen!Shape THEN Kept(source, Hues[Place(x, y)])
                                   ELSE Pixel(source, code, x, y)
    BY <2>3, <2>6, Zenon DEF HasPointer, IsPresented
  <2>9. walk' = [pc |-> "between", frames |-> walk.frames + 1, x |-> walk.x, y |-> walk.y, drawn |-> TRUE, at |-> at,
                 under |-> under]
    BY <2>1, CanvasHas DEF CanvasTypes
  <2>10. CanvasTypes(source', code', walk', answers')
    BY <1>1, <1>4, <2>1, <2>2, <2>4, <2>7, <2>9, CanvasHas DEF CanvasTypes
  <2>11. \A x \in Screen!Columns, y \in Screen!Rows :
           Place(x, y) \in Screen!Shape => IsMeant(source, answers, Kept(source, under[Place(x, y)]), x, y)
    <3> SUFFICES ASSUME NEW x \in Screen!Columns, NEW y \in Screen!Rows, Place(x, y) \in Screen!Shape
                 PROVE  IsMeant(source, answers, Kept(source, under[Place(x, y)]), x, y)
      OBVIOUS
    <3> DEFINE v == Kept(source, under[Place(x, y)])
               there == IF Composes(source) THEN code.shadow[Screen!Shadow(x, y)] ELSE code.screen[Screen!Offset(x, y)]
    <3>1. v = Kept(source, there)
      BY <2>4
    <3>2. IsMeant(source, answers, Pixel(source, code, x, y), x, y)
      BY <1>2
    <3>3. CASE Composes(source)
      <4>1. v = Pixel(source, code, x, y)
        BY <3>1, <3>3, Zenon DEF Pixel
      <4>. QED
        BY <3>2, <4>1
    <3>4. CASE ~Composes(source)
      <4>1. v = Kept(source, Pixel(source, code, x, y))
        BY <3>1, <3>4, Zenon DEF Pixel
      <4>2. Screen!Shadow(x, y) \in Buffer /\ answers.scene[Screen!Shadow(x, y)] \in Nat
        BY PixelPlaces, CanvasHas
      <4>3. Kept(source, Kept(source, answers.scene[Screen!Shadow(x, y)])) = Kept(source, answers.scene[Screen!Shadow(x, y)])
        BY <4>2, KeptIs
      <4>4. Pixel(source, code, x, y) = Kept(source, answers.scene[Screen!Shadow(x, y)]) =>
              v = Kept(source, answers.scene[Screen!Shadow(x, y)])
        BY <4>1, <4>3
      <4>5. v = Kept(source, answers.scene[Screen!Shadow(x, y)])
            \/ (y = Height - 1 /\ Screen!Shadow(x, y) \in answers.stale)
        BY <3>2, <4>4 DEF IsMeant
      <4>. QED
        BY <4>5 DEF IsMeant
    <3>. QED
      BY <3>3, <3>4
  <2>12. SceneHeld(source', code', walk', answers')
    <3>1. walk'.drawn = TRUE /\ walk'.at = at /\ walk'.under = under
      BY <2>9
    <3> SUFFICES ASSUME NEW x \in Screen!Columns, NEW y \in Screen!Rows
                 PROVE  IF Place(x, y) \in Screen!Shape
                        THEN /\ Pixel(source, e, x, y) = Kept(source, Hues[Place(x, y)])
                             /\ IsMeant(source, answers, Kept(source, under[Place(x, y)]), x, y)
                        ELSE IsMeant(source, answers, Pixel(source, e, x, y), x, y)
      BY <1>1, <2>1, <3>1, Zenon DEF SceneHeld
    <3>2. CASE Place(x, y) \in Screen!Shape
      BY <2>8, <2>11, <3>2, Zenon
    <3>3. CASE Place(x, y) \notin Screen!Shape
      <4>1. Pixel(source, e, x, y) = Pixel(source, code, x, y)
        BY <2>8, <3>3, Zenon
      <4>. QED
        BY <1>2, <3>3, <4>1
    <3>. QED
      BY <3>2, <3>3
  <2>. QED
    BY <2>1, <2>7, <2>10, <2>12, CanvasNow DEF CanvasHeld
<1>. QED
  BY <1>3, <1>4

LEMMA CanvasStep ==
  ASSUME CanvasInv, Screen!CanvasNext
  PROVE  CanvasInv'
<1>1. source' = source
  BY DEF Screen!CanvasNext
<1>2. \/ Screen!FirstScreen \/ Screen!Move \/ Screen!PowerOff \/ Screen!BeginFrame \/ Screen!Erase
      \/ Screen!FirstWidget \/ Screen!SecondWidget \/ Screen!DrawCursor
  BY DEF Screen!CanvasNext
<1>. QED
  BY <1>1, <1>2, FirstScreenStep, PlaceStep, PowerOffStep, EraseStep, WidgetStep, DrawCursorStep

LEMMA CanvasImplies ==
  ASSUME CanvasInv
  PROVE  Screen!ScreenIsTheScene
<1> SUFFICES ASSUME walk.pc = "between"
             PROVE  /\ \A x \in Screen!Columns, y \in Screen!Rows :
                         IF walk.drawn /\ <<x - walk.at[1], y - walk.at[2]>> \in Screen!Shape
                         THEN code.screen[Screen!Offset(x, y)] =
                                Screen!Stored(IF Screen!OnEdge(<<x - walk.at[1], y - walk.at[2]>>) THEN Edge ELSE Title)
                         ELSE Screen!Shadow(x, y) \notin answers.stale =>
                                code.screen[Screen!Offset(x, y)] = Screen!Stored(answers.scene[Screen!Shadow(x, y)])
                    /\ \A o \in DOMAIN code.screen : o % Pitch \notin Screen!Columns => code.screen[o] = 3
  BY Zenon DEF Screen!ScreenIsTheScene, Screen!At
<1>1. Framed(code) /\ Synced(source, code) /\ SceneHeld(source, code, walk, answers) /\ code.dirty = Screen!Clean
  BY CanvasHas DEF CanvasTypes
<1>2. \A v : Screen!Stored(v) = Kept(source, v)
  BY DEF Screen!Stored, Kept
<1>3. \A x \in Screen!Columns, y \in Screen!Rows : code.screen[Screen!Offset(x, y)] = Pixel(source, code, x, y)
  <2> TAKE x \in Screen!Columns, y \in Screen!Rows
  <2>1. ~InBox(code.dirty, x, y)
    BY <1>1, CleanIs
  <2>. QED
    BY <1>1, <2>1 DEF Synced, Pixel
<1>4. \A o \in DOMAIN code.screen : o % Pitch \notin Screen!Columns => code.screen[o] = 3
  BY <1>1 DEF Framed
<1>5. ASSUME NEW x \in Screen!Columns, NEW y \in Screen!Rows
      PROVE  IF walk.drawn /\ <<x - walk.at[1], y - walk.at[2]>> \in Screen!Shape
             THEN code.screen[Screen!Offset(x, y)] =
                    Screen!Stored(IF Screen!OnEdge(<<x - walk.at[1], y - walk.at[2]>>) THEN Edge ELSE Title)
             ELSE Screen!Shadow(x, y) \notin answers.stale =>
                    code.screen[Screen!Offset(x, y)] = Screen!Stored(answers.scene[Screen!Shadow(x, y)])
  <2> DEFINE p == <<x - walk.at[1], y - walk.at[2]>>
  <2>1. IF walk.drawn /\ p \in Screen!Shape
        THEN Pixel(source, code, x, y) = Kept(source, Hues[p])
        ELSE IsMeant(source, answers, Pixel(source, code, x, y), x, y)
    BY <1>1 DEF SceneHeld
  <2>2. code.screen[Screen!Offset(x, y)] = Pixel(source, code, x, y)
    BY <1>3
  <2>3. p \in Screen!Shape => Hues[p] = IF Screen!OnEdge(p) THEN Edge ELSE Title
    BY DEF Hues
  <2> HIDE DEF p
  <2>4. IF walk.drawn /\ p \in Screen!Shape
        THEN code.screen[Screen!Offset(x, y)] = Screen!Stored(IF Screen!OnEdge(p) THEN Edge ELSE Title)
        ELSE Screen!Shadow(x, y) \notin answers.stale =>
               code.screen[Screen!Offset(x, y)] = Screen!Stored(answers.scene[Screen!Shadow(x, y)])
    BY <1>2, <2>1, <2>2, <2>3 DEF IsMeant
  <2>. QED
    BY <2>4 DEF p
<1>. QED
  BY <1>4, <1>5

\* The invariant of a boot, where there is one.
BootJobInv == job = "boot" => BootInv

(***************************************************************************)
(* Wherever the kernel stops (main.rs, selftest.rs, panic.rs), a screen    *)
(* with room for it shows the phase it had come to, and a line that takes  *)
(* bytes has heard why; a line that takes none cost one wait.  A host that *)
(* is not there is called by one kernel alone: ARM's, where the timer has  *)
(* the frequency of a virtual timer (hypervisor.rs).                       *)
(***************************************************************************)
THEOREM BootsArePlaced == DisplaySpec => []BootCanBePlaced
<1>1. DisplayInit => BootJobInv
  <2> SUFFICES ASSUME DisplayInit, job = "boot" PROVE BootInv
    BY DEF BootJobInv
  <2>1. Kernel!BootInit /\ \E m \in Inputs["boot"] : source = m.source
    BY DEF DisplayInit, Appears
  <2>. QED
    BY <2>1, BootStarts, BootAssumption
<1>2. BootJobInv /\ [DisplayNext]_vars => BootJobInv'
  <2> SUFFICES ASSUME BootJobInv, [DisplayNext]_vars, job' = "boot" PROVE BootInv'
    BY DEF BootJobInv
  <2>1. CASE UNCHANGED vars
    <3>1. BootInv /\ UNCHANGED <<source, code, walk>>
      BY <2>1 DEF BootJobInv, vars
    <3>. QED
      BY <3>1, BootStutter
  <2>2. CASE DisplayNext /\ ~UNCHANGED vars
    <3>1. job = "boot" /\ Kernel!BootNext
      BY <2>2 DEF DisplayNext, DisplayWork
    <3>. QED
      BY <3>1, BootStep DEF BootJobInv
  <2>. QED
    BY <2>1, <2>2 DEF vars
<1>3. BootJobInv => BootCanBePlaced
  BY BootPlaced DEF BootJobInv, BootCanBePlaced
<1>. QED
  BY <1>1, <1>2, <1>3, PTL DEF DisplaySpec

\* The invariants of what tells the time, where it is at work.
TimeInv ==
  /\ job = "ntp" => QueryInv
  /\ job = "host" => PairInv
  /\ job = "wall" => WallInv

(***************************************************************************)
(* Whatever the network loses, delays and doubles, a query of ntp.rs whose *)
(* answer comes from the server asked last is as near the true offset as   *)
(* it says; however many threads ask, kvmclock.rs asks the host once and   *)
(* all are given the same; and the date that clock.rs starts from was the  *)
(* chip's at one moment between its readings.  A clock whose rate is known *)
(* is then ahead of it by no more than its update, and behind it by less   *)
(* than a second and the time it took to start, if its rate is the true.   *)
(***************************************************************************)
THEOREM TimesStayTrue == DisplaySpec => []TimesAreTrue
<1>1. DisplayInit => TimeInv
  <2>1. ASSUME DisplayInit, job = "ntp" PROVE QueryInv
    <3>1. Times!NtpInit /\ \E m \in Inputs["ntp"] : source = m.source
      BY <2>1 DEF DisplayInit, Appears
    <3>. QED
      BY <3>1, QueryStarts, TimeAssumption
  <2>2. ASSUME DisplayInit, job = "host" PROVE PairInv
    <3>1. Times!HostInit /\ \E m \in Inputs["host"] : source = m.source
      BY <2>2 DEF DisplayInit, Appears
    <3>. QED
      BY <3>1, PairStarts, TimeAssumption
  <2>3. ASSUME DisplayInit, job = "wall" PROVE WallInv
    <3>1. Wall!WallInit /\ \E m \in Inputs["wall"] : source = m.source
      BY <2>3 DEF DisplayInit, Appears
    <3>. QED
      BY <3>1, WallStarts, ClockAssumption
  <2>. QED
    BY <2>1, <2>2, <2>3 DEF TimeInv
<1>2. TimeInv /\ [DisplayNext]_vars => TimeInv'
  <2> SUFFICES ASSUME TimeInv, [DisplayNext]_vars PROVE TimeInv'
    OBVIOUS
  <2>1. CASE UNCHANGED vars
    <3>1. UNCHANGED <<source, code, walk, answers>> /\ job' = job
      BY <2>1 DEF vars
    <3>2. job = "ntp" => QueryInv'
      BY <3>1, QueryStutter DEF TimeInv
    <3>3. job = "host" => PairInv'
      BY <3>1, PairStutter DEF TimeInv
    <3>4. job = "wall" => WallInv'
      BY <3>1, WallStutter DEF TimeInv
    <3>. QED
      BY <3>1, <3>2, <3>3, <3>4 DEF TimeInv
  <2>2. CASE DisplayNext /\ ~UNCHANGED vars
    <3>1. job' = job /\ (job = "ntp" => Times!NtpNext) /\ (job = "host" => Times!HostNext) /\ (job = "wall" => Wall!WallNext)
      BY <2>2 DEF DisplayNext, DisplayWork
    <3>2. job = "ntp" => QueryInv'
      BY <3>1, QueryStep DEF TimeInv
    <3>3. job = "host" => PairInv'
      BY <3>1, HostStep DEF TimeInv
    <3>4. job = "wall" => WallInv'
      BY <3>1, WallStep DEF TimeInv
    <3>. QED
      BY <3>1, <3>2, <3>3, <3>4 DEF TimeInv
  <2>. QED
    BY <2>1, <2>2 DEF vars
<1>3. TimeInv => TimesAreTrue
  <2>1. QueryInv => Times!OffsetIsWithinItsUncertainty
    BY DEF QueryInv, SampleInv
  <2>. QED
    BY <2>1, PairImplies, WallImplies DEF TimeInv, TimesAreTrue
<1>. QED
  BY <1>1, <1>2, <1>3, PTL DEF DisplaySpec

\* The invariant of what is drawn, where something is.
CanvasJobInv == job = "canvas" => CanvasInv

(***************************************************************************)
(* Whatever the sizes of the screen, of its rows and of the buffer, and    *)
(* whatever is drawn, wherever and in any order (framebuffer.rs, the       *)
(* pointer and power_off() of gui_x86_64.rs): between frames the screen is *)
(* the scene with the pointer over it, but for what was painted under a    *)
(* pointer that was drawn; and what is right of the screen in a row of it  *)
(* is never written.                                                       *)
(***************************************************************************)
THEOREM ScreenStaysTheScene == DisplaySpec => []ScreenIsTheScene
<1>1. DisplayInit => CanvasJobInv
  <2> SUFFICES ASSUME DisplayInit, job = "canvas" PROVE CanvasInv
    BY DEF CanvasJobInv
  <2>1. Screen!CanvasInit /\ \E m \in Inputs["canvas"] : source = m.source
    BY DEF DisplayInit, Appears
  <2>. QED
    BY <2>1, CanvasStarts, ScreenAssumption
<1>2. CanvasJobInv /\ [DisplayNext]_vars => CanvasJobInv'
  <2> SUFFICES ASSUME CanvasJobInv, [DisplayNext]_vars, job' = "canvas" PROVE CanvasInv'
    BY DEF CanvasJobInv
  <2>1. CASE UNCHANGED vars
    <3>1. CanvasInv /\ UNCHANGED <<source, code, walk, answers>>
      BY <2>1 DEF CanvasJobInv, vars
    <3>. QED
      BY <3>1, CanvasStutter
  <2>2. CASE DisplayNext /\ ~UNCHANGED vars
    <3>1. job = "canvas" /\ Screen!CanvasNext
      BY <2>2 DEF DisplayNext, DisplayWork
    <3>. QED
      BY <3>1, CanvasStep DEF CanvasJobInv
  <2>. QED
    BY <2>1, <2>2 DEF vars
<1>3. CanvasJobInv => ScreenIsTheScene
  BY CanvasImplies DEF CanvasJobInv, ScreenIsTheScene
<1>. QED
  BY <1>1, <1>2, <1>3, PTL DEF DisplaySpec

(***************************************************************************)
(* The 8042 (input.rs).  What is owed to the driver is on its way from one *)
(* device, or waits already, in order, with keys among it.                 *)
(***************************************************************************)
Ports   == {"ctl", "kbd", "aux"}
Typings == [says : Devices!Strays, typed : {TRUE}]
Words   == {"nothing", "config", "passed", "zero", "three", "four", "ack", "done", "all ones"}
Flags   == {"system", "interrupts", "translation", "kbd off", "aux off"}
Sayings == [says : Words] \cup [says : Words, flags : SUBSET Flags]
Bytes   == Typings \cup Sayings

\* What waits is D, and keys.
Carries(out, D) ==
  \E f \in [1 .. Len(D) -> 1 .. Len(out)] :
    /\ \A i, j \in 1 .. Len(D) : i < j => f[i] < f[j]
    /\ \A i \in 1 .. Len(D) : out[f[i]] = D[i]
    /\ \A k \in 1 .. Len(out) : out[k] \in Typings \/ \E i \in 1 .. Len(D) : f[i] = k

LEMMA TypingsAre ==
  /\ \A b \in Typings : "typed" \in DOMAIN b /\ b \in Bytes
  /\ \A b \in Sayings : "typed" \notin DOMAIN b /\ b \notin Typings /\ b \in Bytes
<1>1. \A b \in Typings : "typed" \in DOMAIN b
  BY DEF Typings
<1>2. \A b \in Sayings : "typed" \notin DOMAIN b
  BY DEF Sayings
<1>. QED
  BY <1>1, <1>2 DEF Bytes

LEMMA CarriesNothing == Carries(<<>>, <<>>)
<1> DEFINE nil == <<>>
           f   == [i \in 1 .. Len(nil) |-> 0]
<1>1. Len(nil) = 0 /\ \A k \in 1 .. Len(nil) : FALSE
  OBVIOUS
<1> HIDE DEF nil
<1>2. f \in [1 .. Len(nil) -> 1 .. Len(nil)]
  BY <1>1
<1> HIDE DEF f
<1>3. /\ \A i, j \in 1 .. Len(nil) : i < j => f[i] < f[j]
      /\ \A i \in 1 .. Len(nil) : nil[f[i]] = nil[i]
      /\ \A k \in 1 .. Len(nil) : nil[k] \in Typings \/ \E i \in 1 .. Len(nil) : f[i] = k
  BY <1>1
<1>4. Carries(nil, nil)
  BY <1>2, <1>3, Zenon DEF Carries
<1>. QED
  BY <1>4 DEF nil

LEMMA CarriesKey ==
  ASSUME NEW out \in Seq(Bytes), NEW D \in Seq(Sayings), Carries(out, D), NEW b \in Typings
  PROVE  Carries(Append(out, b), D)
<1> DEFINE more == Append(out, b)
<1>1. PICK f \in [1 .. Len(D) -> 1 .. Len(out)] :
        /\ \A i, j \in 1 .. Len(D) : i < j => f[i] < f[j]
        /\ \A i \in 1 .. Len(D) : out[f[i]] = D[i]
        /\ \A k \in 1 .. Len(out) : out[k] \in Typings \/ \E i \in 1 .. Len(D) : f[i] = k
  BY DEF Carries
<1>2. b \in Bytes /\ Len(out) \in Nat /\ Len(D) \in Nat
  BY TypingsAre
<1>3. Len(more) = Len(out) + 1 /\ more[Len(out) + 1] = b /\ \A k \in 1 .. Len(out) : more[k] = out[k]
  BY <1>2
<1> HIDE DEF more
<1>4. f \in [1 .. Len(D) -> 1 .. Len(more)]
  BY <1>2, <1>3
<1>5. \A i \in 1 .. Len(D) : more[f[i]] = D[i]
  BY <1>1, <1>3
<1>6. \A k \in 1 .. Len(more) : more[k] \in Typings \/ \E i \in 1 .. Len(D) : f[i] = k
  <2> TAKE k \in 1 .. Len(more)
  <2>1. k \in 1 .. Len(out) \/ k = Len(out) + 1
    BY <1>2, <1>3
  <2>. QED
    BY <1>1, <1>3, <2>1
<1>. QED
  BY <1>1, <1>4, <1>5, <1>6 DEF Carries, more

LEMMA CarriesAnswer ==
  ASSUME NEW out \in Seq(Bytes), NEW D \in Seq(Sayings), Carries(out, D), NEW b \in Sayings
  PROVE  Carries(Append(out, b), Append(D, b))
<1> DEFINE more == Append(out, b)
           told == Append(D, b)
           n    == Len(out)
           m    == Len(D)
<1>1. PICK f \in [1 .. m -> 1 .. n] :
        /\ \A i, j \in 1 .. m : i < j => f[i] < f[j]
        /\ \A i \in 1 .. m : out[f[i]] = D[i]
        /\ \A k \in 1 .. n : out[k] \in Typings \/ \E i \in 1 .. m : f[i] = k
  BY DEF Carries
<1>2. b \in Bytes /\ n \in Nat /\ m \in Nat
  BY TypingsAre
<1>3. Len(more) = n + 1 /\ more[n + 1] = b /\ \A k \in 1 .. n : more[k] = out[k]
  BY <1>2
<1>4. Len(told) = m + 1 /\ told[m + 1] = b /\ \A i \in 1 .. m : told[i] = D[i]
  BY <1>2
<1> DEFINE g == [i \in 1 .. m + 1 |-> IF i = m + 1 THEN n + 1 ELSE f[i]]
<1> HIDE DEF more, told, n, m
<1>5. g \in [1 .. m + 1 -> 1 .. n + 1]
  BY <1>1, <1>2
<1>6. g[m + 1] = n + 1 /\ \A i \in 1 .. m : g[i] = f[i] /\ f[i] \in 1 .. n
  BY <1>1, <1>2
<1> HIDE DEF g
<1>7. \A i, j \in 1 .. m + 1 : i < j => g[i] < g[j]
  <2> SUFFICES ASSUME NEW i \in 1 .. m + 1, NEW j \in 1 .. m + 1, i < j PROVE g[i] < g[j]
    OBVIOUS
  <2>1. i \in 1 .. m
    BY <1>2
  <2>2. CASE j = m + 1
    BY <1>2, <1>6, <2>1, <2>2
  <2>3. CASE j \in 1 .. m
    BY <1>1, <1>6, <2>1, <2>3
  <2>. QED
    BY <1>2, <2>2, <2>3
<1>8. \A i \in 1 .. m + 1 : more[g[i]] = told[i]
  <2> TAKE i \in 1 .. m + 1
  <2>1. i \in 1 .. m \/ i = m + 1
    BY <1>2
  <2>. QED
    BY <1>1, <1>3, <1>4, <1>6, <2>1
<1>9. \A k \in 1 .. n + 1 : more[k] \in Typings \/ \E i \in 1 .. m + 1 : g[i] = k
  <2> TAKE k \in 1 .. n + 1
  <2>1. CASE k = n + 1
    BY <1>2, <1>6, <2>1
  <2>2. CASE k \in 1 .. n /\ out[k] \notin Typings
    <3>1. PICK i \in 1 .. m : f[i] = k
      BY <1>1, <2>2
    <3>2. i \in 1 .. m + 1
      BY <1>2
    <3>. QED
      BY <1>6, <3>1, <3>2
  <2>3. CASE k \in 1 .. n /\ out[k] \in Typings
    BY <1>3, <2>3
  <2>. QED
    BY <1>2, <2>1, <2>2, <2>3
<1>10. g \in [1 .. Len(told) -> 1 .. Len(more)]
  BY <1>3, <1>4, <1>5
<1>11. /\ \A i, j \in 1 .. Len(told) : i < j => g[i] < g[j]
       /\ \A i \in 1 .. Len(told) : more[g[i]] = told[i]
       /\ \A k \in 1 .. Len(more) : more[k] \in Typings \/ \E i \in 1 .. Len(told) : g[i] = k
  BY <1>3, <1>4, <1>7, <1>8, <1>9
<1>12. Carries(more, told)
  BY <1>10, <1>11, Zenon DEF Carries
<1>. QED
  BY <1>12 DEF more, told

\* What is read of it is the first of D, unless it is a key.
LEMMA CarriesHead ==
  ASSUME NEW out \in Seq(Bytes), NEW D \in Seq(Sayings), Carries(out, D), out # <<>>, Head(out) \notin Typings
  PROVE  D # <<>> /\ Head(out) = Head(D) /\ Carries(Tail(out), Tail(D))
<1> DEFINE less == Tail(out)
           rest == Tail(D)
           n    == Len(out)
           m    == Len(D)
<1>1. PICK f \in [1 .. m -> 1 .. n] :
        /\ \A i, j \in 1 .. m : i < j => f[i] < f[j]
        /\ \A i \in 1 .. m : out[f[i]] = D[i]
        /\ \A k \in 1 .. n : out[k] \in Typings \/ \E i \in 1 .. m : f[i] = k
  BY DEF Carries
<1>2. n \in Nat /\ n >= 1 /\ m \in Nat /\ Head(out) = out[1]
  BY EmptySeq
<1>3. PICK first \in 1 .. m : f[first] = 1
  BY <1>1, <1>2
<1>4. m >= 1 /\ D # <<>> /\ Head(D) = D[1]
  BY <1>2, <1>3
<1>5. f[1] = 1
  BY <1>1, <1>2, <1>3, <1>4
<1>6. Head(out) = Head(D)
  BY <1>1, <1>2, <1>4, <1>5
<1>7. Len(less) = n - 1 /\ \A k \in 1 .. n - 1 : less[k] = out[k + 1]
  BY <1>2
<1>8. Len(rest) = m - 1 /\ \A i \in 1 .. m - 1 : rest[i] = D[i + 1]
  BY <1>4
<1> DEFINE g == [i \in 1 .. m - 1 |-> f[i + 1] - 1]
<1> HIDE DEF less, rest, n, m
<1>9. \A i \in 1 .. m - 1 : f[i + 1] \in 2 .. n
  <2> TAKE i \in 1 .. m - 1
  <2>1. i + 1 \in 1 .. m /\ 1 \in 1 .. m /\ 1 < i + 1
    BY <1>2, <1>4
  <2>2. f[1] < f[i + 1] /\ f[i + 1] \in 1 .. n
    BY <1>1, <2>1
  <2>. QED
    BY <1>2, <1>5, <2>2
<1>10. g \in [1 .. m - 1 -> 1 .. n - 1]
  BY <1>2, <1>9
<1>11. \A i \in 1 .. m - 1 : g[i] + 1 = f[i + 1] /\ g[i] \in 1 .. n - 1
  BY <1>2, <1>9
<1> HIDE DEF g
<1>12. \A i, j \in 1 .. m - 1 : i < j => g[i] < g[j]
  <2> SUFFICES ASSUME NEW i \in 1 .. m - 1, NEW j \in 1 .. m - 1, i < j PROVE g[i] < g[j]
    OBVIOUS
  <2>1. i + 1 \in 1 .. m /\ j + 1 \in 1 .. m /\ i + 1 < j + 1
    BY <1>2
  <2>2. f[i + 1] < f[j + 1]
    BY <1>1, <2>1
  <2>3. g[i] + 1 = f[i + 1] /\ g[j] + 1 = f[j + 1] /\ g[i] \in Int /\ g[j] \in Int
    BY <1>2, <1>11
  <2>. QED
    BY <2>2, <2>3
<1>13. \A i \in 1 .. m - 1 : less[g[i]] = rest[i]
  <2> TAKE i \in 1 .. m - 1
  <2>1. i + 1 \in 1 .. m
    BY <1>2
  <2>2. g[i] \in 1 .. n - 1 /\ g[i] + 1 = f[i + 1]
    BY <1>11
  <2>3. less[g[i]] = out[f[i + 1]]
    BY <1>7, <2>2
  <2>. QED
    BY <1>1, <1>8, <2>1, <2>3
<1>14. \A k \in 1 .. n - 1 : less[k] \in Typings \/ \E i \in 1 .. m - 1 : g[i] = k
  <2> SUFFICES ASSUME NEW k \in 1 .. n - 1, less[k] \notin Typings PROVE \E i \in 1 .. m - 1 : g[i] = k
    OBVIOUS
  <2>1. k + 1 \in 1 .. n /\ out[k + 1] \notin Typings
    BY <1>2, <1>7
  <2>2. PICK i \in 1 .. m : f[i] = k + 1
    BY <1>1, <2>1
  <2>3. i # 1
    BY <1>2, <1>5, <2>2
  <2>4. i - 1 \in 1 .. m - 1 /\ (i - 1) + 1 = i
    BY <1>2, <2>3
  <2>5. g[i - 1] + 1 = k + 1 /\ g[i - 1] \in Int
    BY <1>2, <1>11, <2>2, <2>4
  <2>. QED
    BY <2>4, <2>5
<1>15. g \in [1 .. Len(rest) -> 1 .. Len(less)]
  BY <1>7, <1>8, <1>10
<1>16. /\ \A i, j \in 1 .. Len(rest) : i < j => g[i] < g[j]
       /\ \A i \in 1 .. Len(rest) : less[g[i]] = rest[i]
       /\ \A k \in 1 .. Len(less) : less[k] \in Typings \/ \E i \in 1 .. Len(rest) : g[i] = k
  BY <1>7, <1>8, <1>12, <1>13, <1>14
<1>17. Carries(less, rest)
  BY <1>15, <1>16, Zenon DEF Carries
<1>. QED
  BY <1>4, <1>6, <1>17 DEF less, rest

\* Where D is nothing, there are keys only; where nothing waits, D is nothing.
LEMMA CarriesEnds ==
  ASSUME NEW out \in Seq(Bytes), NEW D \in Seq(Sayings), Carries(out, D)
  PROVE  /\ out = <<>> => D = <<>>
         /\ D = <<>> => \A k \in DOMAIN out : out[k] \in Typings
<1>1. PICK f \in [1 .. Len(D) -> 1 .. Len(out)] :
        \A k \in 1 .. Len(out) : out[k] \in Typings \/ \E i \in 1 .. Len(D) : f[i] = k
  BY DEF Carries
<1>2. ASSUME out = <<>> PROVE D = <<>>
  <2>1. Len(out) = 0 /\ Len(D) \in Nat
    BY <1>2
  <2>2. Len(D) = 0
    BY <1>1, <2>1
  <2>. QED
    BY <2>2, EmptySeq
<1>3. ASSUME D = <<>> PROVE \A k \in DOMAIN out : out[k] \in Typings
  <2>1. Len(D) = 0 /\ DOMAIN out = 1 .. Len(out)
    BY <1>3
  <2>. QED
    BY <1>1, <2>1
<1>. QED
  BY <1>2, <1>3

\* What the driver is still owed is E: some of it waits, the rest is with one device.
Expects(w, E) ==
  \E p \in Ports : \E D, R \in Seq(Sayings) :
    /\ E = D \o R /\ Carries(w.out, D)
    /\ w.due[p] = R /\ \A q \in Ports \ {p} : w.due[q] = <<>>

WireTypes(w) == w.out \in Seq(Bytes) /\ w.due \in [Ports -> Seq(Sayings)]

LEMMA HeadTailOfConcat ==
  ASSUME NEW D \in Seq(Sayings), NEW R \in Seq(Sayings), D # <<>>
  PROVE  D \o R \in Seq(Sayings) /\ D \o R # <<>> /\ Head(D \o R) = Head(D) /\ Tail(D \o R) = Tail(D) \o R
<1> DEFINE n == Len(D)
           m == Len(R)
           E == D \o R
<1>1. n \in Nat /\ m \in Nat /\ n >= 1
  BY EmptySeq
<1>2. E \in Seq(Sayings) /\ Len(E) = n + m /\ \A i \in 1 .. n + m : E[i] = IF i <= n THEN D[i] ELSE R[i - n]
  BY ConcatProperties
<1> HIDE DEF E
<1>3. E # <<>> /\ Head(E) = E[1] /\ Head(D) = D[1] /\ E[1] = D[1]
  BY <1>1, <1>2, EmptySeq
<1>4. Tail(E) \in Seq(Sayings) /\ Len(Tail(E)) = n + m - 1 /\ \A i \in 1 .. n + m - 1 : Tail(E)[i] = E[i + 1]
  BY <1>1, <1>2, <1>3, HeadTailProperties
<1>5. Tail(D) \in Seq(Sayings) /\ Len(Tail(D)) = n - 1 /\ \A i \in 1 .. n - 1 : Tail(D)[i] = D[i + 1]
  BY <1>1, HeadTailProperties
<1> DEFINE F == Tail(D) \o R
<1>6. F \in Seq(Sayings) /\ Len(F) = n - 1 + m /\ \A i \in 1 .. n - 1 + m : F[i] = IF i <= n - 1 THEN Tail(D)[i] ELSE R[i - (n - 1)]
  BY <1>5, ConcatProperties
<1> HIDE DEF F, n, m
<1>7. \A i \in 1 .. n + m - 1 : Tail(E)[i] = F[i]
  <2> TAKE i \in 1 .. n + m - 1
  <2>1. i + 1 \in 1 .. n + m /\ i \in 1 .. n - 1 + m /\ (i + 1 <= n <=> i <= n - 1) /\ i + 1 - n = i - (n - 1)
    BY <1>1
  <2>2. CASE i <= n - 1
    <3>1. i \in 1 .. n - 1
      BY <1>1, <2>2
    <3>. QED
      BY <1>2, <1>4, <1>5, <1>6, <2>1, <2>2, <3>1
  <2>3. CASE ~(i <= n - 1)
    <3>0. ~(i + 1 <= n) /\ Tail(E)[i] = E[i + 1]
      BY <1>4, <2>1, <2>3
    <3>1. Tail(E)[i] = R[i + 1 - n]
      BY <1>1, <1>2, <2>1, <3>0
    <3>2. F[i] = R[i - (n - 1)]
      BY <1>6, <2>1, <2>3
    <3>. QED
      BY <2>1, <3>1, <3>2
  <2>. QED
    BY <2>2, <2>3
<1>8. Tail(E) = F
  BY <1>1, <1>4, <1>6, <1>7, SeqEqual
<1>. QED
  BY <1>2, <1>3, <1>8 DEF E, F

LEMMA ExpectsDelivered ==
  ASSUME NEW w, NEW e, WireTypes(w), NEW E, Expects(w, E), NEW p \in Ports, w.due[p] # <<>>,
         e.out = Append(w.out, Head(w.due[p])), e.due = [w.due EXCEPT ![p] = Tail(@)]
  PROVE  WireTypes(e) /\ Expects(e, E)
<1>1. PICK q \in Ports, D \in Seq(Sayings), R \in Seq(Sayings) :
        E = D \o R /\ Carries(w.out, D) /\ w.due[q] = R /\ \A r \in Ports \ {q} : w.due[r] = <<>>
  BY Zenon DEF Expects
<1>2. q = p /\ R # <<>>
  BY <1>1
<1>3. Head(R) \in Sayings /\ Tail(R) \in Seq(Sayings) /\ w.out \in Seq(Bytes)
  BY <1>2, HeadTailProperties DEF WireTypes
<1>4. Carries(e.out, Append(D, Head(R)))
  BY <1>1, <1>2, <1>3, CarriesAnswer
<1>5. E = Append(D, Head(R)) \o Tail(R)
  <2>1. R = <<Head(R)>> \o Tail(R)
    BY <1>2, <1>3
  <2>2. Append(D, Head(R)) = D \o <<Head(R)>>
    BY <1>3, AppendIsConcat
  <2>3. <<Head(R)>> \in Seq(Sayings)
    BY <1>3
  <2>4. D \o (<<Head(R)>> \o Tail(R)) = (D \o <<Head(R)>>) \o Tail(R)
    BY <1>3, <2>3, ConcatAssociative
  <2>. QED
    BY <1>1, <2>1, <2>2, <2>4, Zenon
<1>6. Append(D, Head(R)) \in Seq(Sayings)
  BY <1>3
<1>7. e.due[p] = Tail(R) /\ \A r \in Ports \ {p} : e.due[r] = <<>>
  BY <1>1, <1>2 DEF WireTypes
<1>8. Expects(e, E)
  BY <1>3, <1>4, <1>5, <1>6, <1>7 DEF Expects
<1>9. WireTypes(e)
  BY <1>1, <1>2, <1>3, TypingsAre DEF WireTypes
<1>. QED
  BY <1>8, <1>9

LEMMA ExpectsTyped ==
  ASSUME NEW w, NEW e, WireTypes(w), NEW E, Expects(w, E), NEW b \in Typings, e.out = Append(w.out, b), e.due = w.due
  PROVE  WireTypes(e) /\ Expects(e, E)
<1>1. PICK q \in Ports, D \in Seq(Sayings), R \in Seq(Sayings) :
        E = D \o R /\ Carries(w.out, D) /\ w.due[q] = R /\ \A r \in Ports \ {q} : w.due[r] = <<>>
  BY Zenon DEF Expects
<1>2. Carries(e.out, D)
  BY <1>1, CarriesKey DEF WireTypes
<1>3. Expects(e, E)
  BY <1>1, <1>2 DEF Expects
<1>4. WireTypes(e)
  BY TypingsAre DEF WireTypes
<1>. QED
  BY <1>3, <1>4

\* What is read first is the first of E, unless it is a key.
LEMMA ExpectsRead ==
  ASSUME NEW w, NEW e, WireTypes(w), NEW E, Expects(w, E), w.out # <<>>, "typed" \notin DOMAIN Head(w.out),
         e.out = Tail(w.out), e.due = w.due
  PROVE  E # <<>> /\ Head(w.out) = Head(E) /\ Tail(E) \in Seq(Sayings) /\ Expects(e, Tail(E))
<1>1. PICK q \in Ports, D \in Seq(Sayings), R \in Seq(Sayings) :
        E = D \o R /\ Carries(w.out, D) /\ w.due[q] = R /\ \A r \in Ports \ {q} : w.due[r] = <<>>
  BY Zenon DEF Expects
<1>2. w.out \in Seq(Bytes) /\ Head(w.out) \notin Typings
  BY TypingsAre DEF WireTypes
<1>3. D # <<>> /\ Head(w.out) = Head(D) /\ Carries(Tail(w.out), Tail(D))
  BY <1>1, <1>2, CarriesHead
<1>4. Tail(D) \in Seq(Sayings) /\ E \in Seq(Sayings) /\ E # <<>> /\ Head(E) = Head(D) /\ Tail(E) = Tail(D) \o R
  BY <1>1, <1>3, HeadTailOfConcat
<1>5. Tail(E) \in Seq(Sayings)
  BY <1>1, <1>4
<1>6. Expects(e, Tail(E))
  BY <1>1, <1>3, <1>4 DEF Expects
<1>. QED
  BY <1>3, <1>4, <1>5, <1>6

\* When all is quiet, nothing was owed.
LEMMA ExpectsSilence ==
  ASSUME NEW w, WireTypes(w), NEW E, Expects(w, E), w.out = <<>>, \A p \in Ports : w.due[p] = <<>>
  PROVE  E = <<>>
<1>1. PICK q \in Ports, D \in Seq(Sayings), R \in Seq(Sayings) : E = D \o R /\ Carries(w.out, D) /\ w.due[q] = R
  BY Zenon DEF Expects
<1>2. D = <<>>
  BY <1>1, CarriesEnds DEF WireTypes
<1>3. R = <<>>
  BY <1>1
<1>. QED
  BY <1>1, <1>2, <1>3

LEMMA ExpectsNothing ==
  ASSUME NEW w, WireTypes(w), Expects(w, <<>>)
  PROVE  (\A p \in Ports : w.due[p] = <<>>) /\ (\A k \in DOMAIN w.out : w.out[k] \in Typings)
<1>1. PICK q \in Ports, D \in Seq(Sayings), R \in Seq(Sayings) :
        D \o R = <<>> /\ Carries(w.out, D) /\ w.due[q] = R /\ \A r \in Ports \ {q} : w.due[r] = <<>>
  BY Zenon DEF Expects
<1>2. D = <<>> /\ R = <<>>
  BY <1>1, ConcatEqualIffEmpty
<1>. QED
  BY <1>1, <1>2, CarriesEnds DEF WireTypes

\* What is then asked of a device is owed, whether what waits is thrown away first or not.
LEMMA ExpectsAnswer ==
  ASSUME NEW w, NEW e, WireTypes(w), Expects(w, <<>>), NEW p \in Ports, NEW E \in Seq(Sayings),
         e.out \in {w.out, <<>>}, e.due = [w.due EXCEPT ![p] = @ \o E]
  PROVE  WireTypes(e) /\ Expects(e, E)
<1>1. (\A q \in Ports : w.due[q] = <<>>) /\ (\A k \in DOMAIN w.out : w.out[k] \in Typings)
  BY ExpectsNothing
<1>2. PICK q \in Ports, D \in Seq(Sayings), R \in Seq(Sayings) : D \o R = <<>> /\ Carries(w.out, D)
  BY Zenon DEF Expects
<1>3. D = <<>>
  BY <1>2, ConcatEqualIffEmpty
<1>4. Carries(e.out, <<>>)
  BY <1>2, <1>3, CarriesNothing
<1>6. <<>> \in Seq(Sayings) /\ E = <<>> \o E
  BY ConcatEmptySeq
<1>5. e.due[p] = E /\ \A r \in Ports \ {p} : e.due[r] = <<>>
  <2>1. e.due[p] = w.due[p] \o E /\ \A r \in Ports \ {p} : e.due[r] = w.due[r]
    BY DEF WireTypes
  <2>. QED
    BY <1>1, <1>6, <2>1
<1>7. Expects(e, E)
  BY <1>4, <1>5, <1>6 DEF Expects
<1>8. WireTypes(e)
  <2>1. w.out \in Seq(Bytes) /\ <<>> \in Seq(Bytes) /\ w.due \in [Ports -> Seq(Sayings)]
    BY DEF WireTypes
  <2>2. e.due \in [Ports -> Seq(Sayings)]
    <3>1. w.due[p] \o E \in Seq(Sayings)
      BY <2>1, ConcatProperties
    <3>. QED
      BY <2>1, <3>1
  <2>3. e.out \in Seq(Bytes)
    BY <2>1
  <2>. QED
    BY <2>2, <2>3 DEF WireTypes
<1>. QED
  BY <1>7, <1>8

-----------------------------------------------------------------------------
(***************************************************************************)
(* How far the driver s, c, w, a is, as long as it has not taken one byte  *)
(* for another: s are the devices, c the wires, w the driver and a what it *)
(* has found.  A place is where it goes on, after the read if there is     *)
(* one.                                                                    *)
(***************************************************************************)
Places == {"configure", "tested", "scanning", "acked", "was reset", "scans again", "aux", "aux acked", "aux reset", "knock",
           "id", "id again"}
Steps  == {"quiet", "enable", "reset", "test aux", "send", "ask id", "ask id again", "over", "usb", "i2c", "found"}

Mice   == {"standard", "wheel", "five"}
Rates  == {"", "200", "100", "80"}
Orders == {"set rate", "200", "100", "80", "get id", "defaults", "enable"}

Wires  == [config : SUBSET Flags, out : Seq(Bytes), due : [Ports -> Seq(Sayings)], scanning : BOOLEAN,
           rates : Seq(Rates), mode : Mice, reports : BOOLEAN, typed : Nat]
Driver == [pc : Places \cup Steps \cup {"read", ""}, then : Places \cup {"send", ""}, got : Bytes, byte : SUBSET Flags, tries : Nat,
           todo : Seq(Orders), after : {"", "ask id", "ask id again", "over"}]
Found  == [keyboard : BOOLEAN, pointer : Mice \cup {"none", "usb", "i2c"}, usb : SUBSET {"keyboard", "pointer"},
           failure : STRING \cup {"none"}, crossed : BOOLEAN]

Keyed(s) == s.ctl # "absent" /\ s.kbd \notin {"none", "silent"}
Moused(s) == s.ctl # "absent" /\ s.mouse # "none"
Told(x) == [says |-> x]
Id(mode) == IF mode = "wheel" THEN Told("three") ELSE IF mode = "five" THEN Told("four") ELSE Told("zero")

\* k is left of a knock, and the mouse, whose rates were p, q and o, hears it; it then changes from one mode to the other.
Knocking(k, r, m, last, p, q, o, before, after) ==
  \/ k = <<"set rate", "200", "set rate", last, "set rate", "80", "get id">> /\ r = <<p, q, o>> /\ m = before
  \/ k = <<"200", "set rate", last, "set rate", "80", "get id">> /\ r = <<p, q, o>> /\ m = before
  \/ k = <<"set rate", last, "set rate", "80", "get id">> /\ r = <<q, o, "200">> /\ m = before
  \/ k = <<last, "set rate", "80", "get id">> /\ r = <<q, o, "200">> /\ m = before
  \/ k = <<"set rate", "80", "get id">> /\ r = <<o, "200", last>> /\ m = before
  \/ k = <<"80", "get id">> /\ r = <<o, "200", last>> /\ m = before
  \/ k = <<"get id">> /\ r = <<"200", last, "80">> /\ m = after
  \/ k = <<>> /\ r = <<"200", last, "80">> /\ m = after

Wheeled(s) == IF s.mouse \in {"wheel", "five"} THEN "wheel" ELSE "standard"

Talks(s, c, w, a) ==
  /\ Moused(s)
  /\ w.after \in {"ask id", "ask id again", "over"}
  /\ w.after = "ask id" => Knocking(w.todo, c.rates, c.mode, "100", "", "", "", "standard", Wheeled(s)) /\ a.pointer = "none"
  /\ w.after = "ask id again" =>
       /\ Knocking(w.todo, c.rates, c.mode, "200", "200", "100", "80", "wheel", s.mouse) /\ a.pointer = "none"
       /\ s.mouse \in {"wheel", "five"}
  /\ w.after = "over" =>
       /\ w.todo \in {<<"defaults", "enable">>, <<"enable">>, <<>>} /\ a.pointer = s.mouse
       /\ c.mode = s.mouse /\ (w.todo = <<>> => c.reports)

First     == {"quiet", "configure", "tested", "enable", "scanning"}
Resetting == {"reset", "acked", "was reset", "scans again"}
Pointing  == {"test aux", "aux", "aux acked", "aux reset", "knock", "send", "ask id", "id", "ask id again", "id again"}
Looking   == {"over", "usb"}
Looked    == {"i2c", "found"}

ControllerIs(p, s, c, w) ==
  /\ s.ctl = "closed" => c.config \ {"kbd off", "aux off"} = s.config \ {"kbd off", "aux off"}
  /\ s.ctl = "open" =>
       /\ p = "tested" => "translation" \in w.byte /\ "interrupts" \notin w.byte
       /\ p \notin {"quiet", "configure", "tested"} => "translation" \in c.config /\ "interrupts" \notin c.config
       /\ p \notin {"quiet", "configure", "tested", "enable"} => "kbd off" \notin c.config
  /\ p = "tested" => s.ctl # "closed"
  /\ p \notin First \cup Resetting \cup {"test aux", "aux"} /\ Moused(s) => "aux off" \notin c.config

KeyboardIs(p, s, c, w, a) ==
  /\ p \in First => c.scanning /\ w.tries = 2
  /\ p \in First \cup Resetting => ~a.keyboard
  /\ p \in Resetting /\ Keyed(s) => s.kbd = "stubborn"
  /\ p = "reset" /\ Keyed(s) => w.tries = 2
  /\ p \in {"acked", "was reset"} /\ Keyed(s) => ~c.scanning
  /\ p \in {"was reset", "scans again"} => Keyed(s)
  /\ p = "scans again" => c.scanning
  /\ p \in Pointing \cup Looking => a.keyboard = Keyed(s)
  /\ p \in Pointing \cup Looking \cup Looked /\ Keyed(s) => c.scanning
  /\ p \in Looked => a.keyboard = (Keyed(s) \/ "keyboard" \in a.usb)

MouseIs(p, s, c, w, a) ==
  /\ p \in (First \cup Resetting \cup Pointing) \ {"send"} => a.pointer = "none"
  /\ p \notin Looked => a.usb = {}
  /\ p \in {"aux acked", "aux reset", "knock"} /\ Moused(s) => c.mode = "standard" /\ c.rates = <<"", "", "">>
  /\ p \in {"aux reset", "knock", "send", "ask id", "id", "ask id again", "id again"} => Moused(s)
  /\ p = "send" => Talks(s, c, w, a)
  /\ p \in {"ask id", "id"} => c.rates = <<"200", "100", "80">> /\ c.mode = Wheeled(s)
  /\ p \in {"ask id again", "id again"} => s.mouse \in {"wheel", "five"} /\ c.mode = s.mouse
  /\ p \in Looking => a.pointer = IF Moused(s) THEN s.mouse ELSE "none"
  /\ p \in Looking \cup Looked /\ Moused(s) => c.mode = s.mouse /\ c.reports
  /\ p \in Looked => a.usb = s.usb \/ (a.usb = {} /\ Moused(s) /\ Keyed(s))
  /\ p = "i2c" => a.pointer = IF Moused(s) THEN s.mouse ELSE IF "pointer" \in s.usb THEN "usb" ELSE "none"
  /\ p = "found" => a.pointer = IF Moused(s) THEN s.mouse ELSE IF "pointer" \in s.usb THEN "usb"
                                ELSE IF s.pad = "touchpad" THEN "i2c" ELSE "none"
  /\ p = "found" /\ a.pointer = "none" => a.failure = s.pad

Facts(p, s, c, w, a) == ControllerIs(p, s, c, w) /\ KeyboardIs(p, s, c, w, a) /\ MouseIs(p, s, c, w, a)

\* What it is owed when it reads for p, and after that of which it reads the first.
Left(p, c, w) ==
  IF p \in {"ask id", "ask id again"} \/ (p = "send" /\ w.todo = <<>> /\ w.after # "over") THEN <<Id(c.mode)>> ELSE <<>>

Owed(p, s, c, w) ==
  CASE p = "configure"   -> IF s.ctl = "open" THEN <<[says |-> "config", flags |-> c.config]>> ELSE <<>>
    [] p = "tested"      -> IF s.ctl = "open" THEN <<Told("passed")>> ELSE <<>>
    [] p = "scanning"    -> IF Keyed(s) /\ s.kbd # "stubborn" THEN <<Told("ack")>> ELSE <<>>
    [] p = "acked"       -> IF Keyed(s) THEN <<Told("ack"), Told("done")>> ELSE <<>>
    [] p = "was reset"   -> <<Told("done")>>
    [] p = "scans again" -> <<Told("ack")>>
    [] p = "aux"         -> IF s.ctl # "absent" /\ s.aux THEN <<Told("zero")>> ELSE <<>>
    [] p = "aux acked"   -> IF Moused(s) THEN <<Told("ack"), Told("done"), Told("zero")>> ELSE <<>>
    [] p = "aux reset"   -> <<Told("done"), Told("zero")>>
    [] p = "knock"       -> <<Told("zero")>>
    [] p \in {"id", "id again"} -> <<Id(c.mode)>>
    [] p = "send"        -> <<Told("ack")>> \o Left(p, c, w)

Rest(E)   == IF E = <<>> THEN <<>> ELSE Tail(E)
Read(s, E) == IF s.ctl = "absent" THEN [says |-> "all ones", flags |-> {}] ELSE IF E = <<>> THEN Told("nothing") ELSE Head(E)

Comes(s, c, w, a) ==
  /\ w.pc = "read"    => w.then \in Places \cup {"send"} /\ Facts(w.then, s, c, w, a) /\ Expects(c, Owed(w.then, s, c, w))
  /\ w.pc \in Places  => /\ Facts(w.pc, s, c, w, a) /\ Expects(c, Rest(Owed(w.pc, s, c, w)))
                         /\ w.got = Read(s, Owed(w.pc, s, c, w))
  /\ w.pc \in Steps   => Facts(w.pc, s, c, w, a) /\ Expects(c, Left(w.pc, c, w))
  /\ w.pc \in {"read"} \cup Places \cup Steps

InputStage(s, c, w, a) ==
  s \in Devices!Controllers /\ c \in Wires /\ w \in Driver /\ a \in Found /\ Comes(s, c, w, a)
-----------------------------------------------------------------------------
LEMMA FactsSame ==
  ASSUME NEW p, NEW s, NEW c, NEW w, NEW a, NEW e, NEW v, NEW b,
         e.config = c.config, e.scanning = c.scanning, e.rates = c.rates, e.mode = c.mode, e.reports = c.reports,
         v.byte = w.byte, v.tries = w.tries, v.todo = w.todo, v.after = w.after,
         b.keyboard = a.keyboard, b.pointer = a.pointer, b.usb = a.usb, b.failure = a.failure
  PROVE  Facts(p, s, e, v, b) = Facts(p, s, c, w, a) /\ Owed(p, s, e, v) = Owed(p, s, c, w) /\ Left(p, e, v) = Left(p, c, w)
<1>1. Talks(s, e, v, b) = Talks(s, c, w, a)
  BY DEF Talks
<1>2. ControllerIs(p, s, e, v) = ControllerIs(p, s, c, w)
  BY DEF ControllerIs
<1>3. KeyboardIs(p, s, e, v, b) = KeyboardIs(p, s, c, w, a)
  BY DEF KeyboardIs
<1>4. MouseIs(p, s, e, v, b) = MouseIs(p, s, c, w, a)
  BY <1>1 DEF MouseIs
<1>5. Left(p, e, v) = Left(p, c, w)
  BY DEF Left
<1>6. Owed(p, s, e, v) = Owed(p, s, c, w)
  BY <1>5 DEF Owed
<1>. QED
  BY <1>2, <1>3, <1>4, <1>5, <1>6 DEF Facts

LEMMA Arrives ==
  ASSUME NEW s \in Devices!Controllers, NEW c \in Wires, NEW w \in Driver, NEW a \in Found, NEW p, Facts(p, s, c, w, a),
         \/ w.pc = "read" /\ w.then = p /\ p \in Places \cup {"send"} /\ Expects(c, Owed(p, s, c, w))
         \/ w.pc = p /\ p \in Steps /\ Expects(c, Left(p, c, w))
  PROVE  InputStage(s, c, w, a)
<1>1. "read" \notin Places \cup Steps /\ \A q \in Steps : q \notin Places
  BY DEF Places, Steps
<1>2. Comes(s, c, w, a)
  BY <1>1 DEF Comes
<1>. QED
  BY <1>2 DEF InputStage

\* What the controller does on a command.
LEMMA CommandIs ==
  ASSUME NEW c
  PROVE  /\ source.ctl = "absent" => \A x : Devices!Commanded(c, x) = c
         /\ source.ctl = "closed" => Devices!Commanded(c, "get config") = c
         /\ source.ctl = "open" =>
              Devices!Commanded(c, "get config") = [c EXCEPT !.due["ctl"] = Append(@, [says |-> "config", flags |-> c.config])]
         /\ source.ctl # "absent" => Devices!Commanded(c, "disable kbd") = [c EXCEPT !.config = @ \cup {"kbd off"}]
         /\ source.ctl # "absent" => Devices!Commanded(c, "disable aux") = [c EXCEPT !.config = @ \cup {"aux off"}]
         /\ source.ctl # "absent" => Devices!Commanded(c, "enable kbd") = [c EXCEPT !.config = @ \ {"kbd off"}]
         /\ source.ctl # "absent" => Devices!Commanded(c, "enable aux") = [c EXCEPT !.config = @ \ {"aux off"}]
         /\ source.ctl # "absent" => Devices!Commanded(c, "test aux") = IF source.aux THEN Devices!Owes(c, "ctl", <<"zero">>) ELSE c
         /\ source.ctl # "absent" => Devices!Commanded(c, "self test") =
              Devices!Owes(IF source.resets THEN [c EXCEPT !.config = {"kbd off", "aux off"}] ELSE c, "ctl", <<"passed">>)
<1>1. ASSUME source.ctl = "absent" PROVE \A x : Devices!Commanded(c, x) = c
  BY <1>1, Zenon DEF Devices!Commanded
<1>2. ASSUME source.ctl = "closed" PROVE Devices!Commanded(c, "get config") = c
  BY <1>2, Zenon DEF Devices!Commanded
<1>3. ASSUME source.ctl = "open"
      PROVE  Devices!Commanded(c, "get config") = [c EXCEPT !.due["ctl"] = Append(@, [says |-> "config", flags |-> c.config])]
  BY <1>3, Zenon DEF Devices!Commanded
<1>4. ASSUME source.ctl # "absent" PROVE Devices!Commanded(c, "disable kbd") = [c EXCEPT !.config = @ \cup {"kbd off"}]
  BY <1>4, Zenon DEF Devices!Commanded, Devices!Configured
<1>5. ASSUME source.ctl # "absent" PROVE Devices!Commanded(c, "disable aux") = [c EXCEPT !.config = @ \cup {"aux off"}]
  BY <1>5, Zenon DEF Devices!Commanded, Devices!Configured
<1>6. ASSUME source.ctl # "absent" PROVE Devices!Commanded(c, "enable kbd") = [c EXCEPT !.config = @ \ {"kbd off"}]
  BY <1>6, Zenon DEF Devices!Commanded, Devices!Configured
<1>7. ASSUME source.ctl # "absent" PROVE Devices!Commanded(c, "enable aux") = [c EXCEPT !.config = @ \ {"aux off"}]
  BY <1>7, Zenon DEF Devices!Commanded, Devices!Configured
<1>8. ASSUME source.ctl # "absent"
      PROVE  Devices!Commanded(c, "test aux") = IF source.aux THEN Devices!Owes(c, "ctl", <<"zero">>) ELSE c
  BY <1>8, Zenon DEF Devices!Commanded
<1>9. ASSUME source.ctl # "absent"
      PROVE  Devices!Commanded(c, "self test") =
               Devices!Owes(IF source.resets THEN [c EXCEPT !.config = {"kbd off", "aux off"}] ELSE c, "ctl", <<"passed">>)
  BY <1>9, Zenon DEF Devices!Commanded, Devices!Configured
<1>. QED
  BY <1>1, <1>2, <1>3, <1>4, <1>5, <1>6, <1>7, <1>8, <1>9

LEMMA SaysAre ==
  ASSUME NEW x \in Words, NEW y \in Words, NEW z \in Words
  PROVE  /\ [i \in DOMAIN <<x>> |-> [says |-> <<x>>[i]]] = <<Told(x)>>
         /\ [i \in DOMAIN <<x, y>> |-> [says |-> <<x, y>>[i]]] = <<Told(x), Told(y)>>
         /\ [i \in DOMAIN <<x, y, z>> |-> [says |-> <<x, y, z>>[i]]] = <<Told(x), Told(y), Told(z)>>
         /\ {<<Told(x)>>, <<Told(x), Told(y)>>, <<Told(x), Told(y), Told(z)>>} \subseteq Seq(Sayings)
<1>1. Told(x) \in Sayings /\ Told(y) \in Sayings /\ Told(z) \in Sayings
  BY DEF Told, Sayings
<1> DEFINE p == Told(x)
           q == Told(y)
           r == Told(z)
<1>2. {<<Told(x)>>, <<Told(x), Told(y)>>, <<Told(x), Told(y), Told(z)>>} \subseteq Seq(Sayings)
  <2>1. p \in Sayings /\ q \in Sayings /\ r \in Sayings
    BY <1>1
  <2> HIDE DEF p, q, r
  <2>2. <<p>> \in Seq(Sayings) /\ <<p, q>> \in Seq(Sayings) /\ <<p, q, r>> \in Seq(Sayings)
    BY <2>1
  <2>3. {<<p>>, <<p, q>>, <<p, q, r>>} \subseteq Seq(Sayings)
    BY <2>2
  <2>. QED
    BY <2>3 DEF p, q, r
<1>3. [i \in DOMAIN <<x>> |-> [says |-> <<x>>[i]]] = <<Told(x)>>
  BY DEF Told
<1>4. [i \in DOMAIN <<x, y>> |-> [says |-> <<x, y>>[i]]] = <<Told(x), Told(y)>>
  BY DEF Told
<1>5. [i \in DOMAIN <<x, y, z>> |-> [says |-> <<x, y, z>>[i]]] = <<Told(x), Told(y), Told(z)>>
  BY DEF Told
<1>. QED
  BY <1>2, <1>3, <1>4, <1>5

\* e is c, owed E more by p.
Owing(c, e, p, E) ==
  /\ e \in Wires /\ e.due = [c.due EXCEPT ![p] = @ \o E] /\ e.out = c.out /\ e.config = c.config /\ e.scanning = c.scanning
  /\ e.rates = c.rates /\ e.mode = c.mode /\ e.reports = c.reports

LEMMA OwingIs ==
  ASSUME NEW c \in Wires, NEW p \in Ports, NEW E \in Seq(Sayings)
  PROVE  Owing(c, [c EXCEPT !.due[p] = @ \o E], p, E)
<1>1. c.due[p] \o E \in Seq(Sayings)
  BY ConcatProperties DEF Wires
<1> DEFINE e == [c EXCEPT !.due[p] = @ \o E]
<1>2. [c.due EXCEPT ![p] = @ \o E] \in [Ports -> Seq(Sayings)]
  BY <1>1 DEF Wires
<1>3. e = [c EXCEPT !.due = [c.due EXCEPT ![p] = @ \o E]]
  BY DEF Wires
<1> HIDE DEF e
<1>4. e \in Wires /\ e.due = [c.due EXCEPT ![p] = @ \o E] /\ e.out = c.out /\ e.config = c.config /\ e.scanning = c.scanning
      /\ e.rates = c.rates /\ e.mode = c.mode /\ e.reports = c.reports
  BY <1>2, <1>3 DEF Wires
<1>. QED
  BY <1>4 DEF Owing, e

LEMMA Owed1 ==
  ASSUME NEW c \in Wires, NEW p \in Ports, NEW x \in Words
  PROVE  Owing(c, Devices!Owes(c, p, <<x>>), p, <<Told(x)>>)
<1>1. Devices!Owes(c, p, <<x>>) = [c EXCEPT !.due[p] = @ \o <<Told(x)>>]
  BY SaysAre DEF Devices!Owes
<1>2. <<Told(x)>> \in Seq(Sayings)
  BY SaysAre
<1>3. Owing(c, [c EXCEPT !.due[p] = @ \o <<Told(x)>>], p, <<Told(x)>>)
  BY <1>2, OwingIs
<1>. QED
  BY <1>1, <1>3

LEMMA Owed2 ==
  ASSUME NEW c \in Wires, NEW p \in Ports, NEW x \in Words, NEW y \in Words
  PROVE  Owing(c, Devices!Owes(c, p, <<x, y>>), p, <<Told(x), Told(y)>>)
<1>1. Devices!Owes(c, p, <<x, y>>) = [c EXCEPT !.due[p] = @ \o <<Told(x), Told(y)>>]
  BY SaysAre DEF Devices!Owes
<1>2. <<Told(x), Told(y)>> \in Seq(Sayings)
  BY SaysAre
<1>3. Owing(c, [c EXCEPT !.due[p] = @ \o <<Told(x), Told(y)>>], p, <<Told(x), Told(y)>>)
  BY <1>2, OwingIs
<1>. QED
  BY <1>1, <1>3

LEMMA Owed3 ==
  ASSUME NEW c \in Wires, NEW p \in Ports, NEW x \in Words, NEW y \in Words, NEW z \in Words
  PROVE  Owing(c, Devices!Owes(c, p, <<x, y, z>>), p, <<Told(x), Told(y), Told(z)>>)
<1>1. Devices!Owes(c, p, <<x, y, z>>) = [c EXCEPT !.due[p] = @ \o <<Told(x), Told(y), Told(z)>>]
  BY SaysAre DEF Devices!Owes
<1>2. <<Told(x), Told(y), Told(z)>> \in Seq(Sayings)
  BY SaysAre
<1>3. Owing(c, [c EXCEPT !.due[p] = @ \o <<Told(x), Told(y), Told(z)>>], p, <<Told(x), Told(y), Told(z)>>)
  BY <1>2, OwingIs
<1>. QED
  BY <1>1, <1>3

\* What is asked when nothing is owed, is owed then.
LEMMA OwingExpects ==
  ASSUME NEW c \in Wires, NEW d \in Wires, Expects(c, <<>>), d.due = c.due, d.out \in {c.out, <<>>},
         NEW e, NEW p \in Ports, NEW E \in Seq(Sayings), Owing(d, e, p, E)
  PROVE  Expects(e, E)
<1>1. WireTypes(c) /\ e.due = [c.due EXCEPT ![p] = @ \o E] /\ e.out \in {c.out, <<>>}
  BY DEF WireTypes, Wires, Owing
<1>. QED
  BY <1>1, ExpectsAnswer

LEMMA NothingAsked ==
  ASSUME NEW c \in Wires, Expects(c, <<>>), NEW d, d.due = c.due, d.out \in {c.out, <<>>}
  PROVE  Expects(d, <<>>)
<1>1. c.due["ctl"] \in Seq(Sayings) /\ "ctl" \in Ports /\ c.due \in [Ports -> Seq(Sayings)] /\ <<>> \in Seq(Sayings)
  BY DEF Wires, Ports
<1>2. c.due["ctl"] \o <<>> = c.due["ctl"]
  BY <1>1, ConcatEmptySeq
<1>3. d.due = [c.due EXCEPT !["ctl"] = @ \o <<>>]
  BY <1>1, <1>2
<1>4. WireTypes(c)
  BY DEF WireTypes, Wires
<1>. QED
  BY <1>1, <1>3, <1>4, ExpectsAnswer

LEMMA ToKeyboardIs ==
  ASSUME NEW c
  PROVE  /\ ~Keyed(source) => Devices!ToKeyboard(c, "reset") = c /\ Devices!ToKeyboard(c, "enable") = c
         /\ Keyed(source) =>
              /\ Devices!ToKeyboard(c, "reset") = Devices!Owes([c EXCEPT !.scanning = FALSE], "kbd", <<"ack", "done">>)
              /\ Devices!ToKeyboard(c, "enable") = IF source.kbd = "stubborn" /\ c.scanning THEN c
                                                   ELSE Devices!Owes([c EXCEPT !.scanning = TRUE], "kbd", <<"ack">>)
<1>1. ASSUME ~Keyed(source) PROVE \A x : Devices!ToKeyboard(c, x) = c
  <2>1. ~Devices!Attached(source.kbd) \/ source.kbd = "silent"
    BY <1>1 DEF Keyed, Devices!Attached
  <2>. QED
    BY <2>1, Zenon DEF Devices!ToKeyboard
<1>2. ASSUME Keyed(source)
      PROVE  Devices!ToKeyboard(c, "reset") = Devices!Owes([c EXCEPT !.scanning = FALSE], "kbd", <<"ack", "done">>)
  <2>1. Devices!Attached(source.kbd) /\ source.kbd # "silent"
    BY <1>2 DEF Keyed, Devices!Attached
  <2>. QED
    BY <2>1, Zenon DEF Devices!ToKeyboard
<1>3. ASSUME Keyed(source)
      PROVE  Devices!ToKeyboard(c, "enable") = IF source.kbd = "stubborn" /\ c.scanning THEN c
                                                   ELSE Devices!Owes([c EXCEPT !.scanning = TRUE], "kbd", <<"ack">>)
  <2>1. Devices!Attached(source.kbd) /\ source.kbd # "silent"
    BY <1>3 DEF Keyed, Devices!Attached
  <2>. QED
    BY <2>1, Zenon DEF Devices!ToKeyboard
<1>. QED
  BY <1>1, <1>2, <1>3

LEMMA ToMouseIs ==
  ASSUME NEW c, Moused(source)
  PROVE  /\ Devices!ToMouse(c, "reset") = Devices!Owes([c EXCEPT !.mode = "standard", !.rates = <<"", "", "">>, !.reports = FALSE],
                                                       "aux", <<"ack", "done", "zero">>)
         /\ Devices!ToMouse(c, "get id") = Devices!Owes(c, "aux", <<"ack", Devices!KindOf(c.mode)>>)
         /\ Devices!ToMouse(c, "enable") = Devices!Owes([c EXCEPT !.reports = TRUE], "aux", <<"ack">>)
         /\ \A x \in {"set rate", "defaults"} : Devices!ToMouse(c, x) = Devices!Owes(c, "aux", <<"ack">>)
         /\ \A x \in {"200", "100", "80"} :
              Devices!ToMouse(c, x) = Devices!Owes([c EXCEPT !.rates = Append(Tail(c.rates), x),
                                                             !.mode = Devices!Knocked(@, Append(Tail(c.rates), x))], "aux", <<"ack">>)
<1>1. Devices!Attached(source.mouse)
  BY DEF Moused, Devices!Attached
<1>2. Devices!ToMouse(c, "reset") = Devices!Owes([c EXCEPT !.mode = "standard", !.rates = <<"", "", "">>, !.reports = FALSE],
                                                       "aux", <<"ack", "done", "zero">>)
  BY <1>1, Zenon DEF Devices!ToMouse
<1>3. Devices!ToMouse(c, "get id") = Devices!Owes(c, "aux", <<"ack", Devices!KindOf(c.mode)>>)
  BY <1>1, Zenon DEF Devices!ToMouse
<1>4. Devices!ToMouse(c, "enable") = Devices!Owes([c EXCEPT !.reports = TRUE], "aux", <<"ack">>)
  BY <1>1, Zenon DEF Devices!ToMouse
<1>5. \A x \in {"set rate", "defaults"} : Devices!ToMouse(c, x) = Devices!Owes(c, "aux", <<"ack">>)
  <2>1. Devices!ToMouse(c, "set rate") = Devices!Owes(c, "aux", <<"ack">>)
    BY <1>1, Zenon DEF Devices!ToMouse
  <2>2. Devices!ToMouse(c, "defaults") = Devices!Owes(c, "aux", <<"ack">>)
    BY <1>1, Zenon DEF Devices!ToMouse
  <2>. QED
    BY <2>1, <2>2
<1> DEFINE Rated(x) == Devices!Owes([c EXCEPT !.rates = Append(Tail(c.rates), x),
                                               !.mode = Devices!Knocked(@, Append(Tail(c.rates), x))], "aux", <<"ack">>)
<1>6. Devices!ToMouse(c, "200") = Rated("200")
  BY <1>1, Zenon DEF Devices!ToMouse
<1>7. Devices!ToMouse(c, "100") = Rated("100")
  BY <1>1, Zenon DEF Devices!ToMouse
<1>8. Devices!ToMouse(c, "80") = Rated("80")
  BY <1>1, Zenon DEF Devices!ToMouse
<1> HIDE DEF Rated
<1>9. \A x \in {"200", "100", "80"} : Devices!ToMouse(c, x) = Rated(x)
  BY <1>6, <1>7, <1>8
<1>. QED
  BY <1>2, <1>3, <1>4, <1>5, <1>9 DEF Rated

LEMMA KindIs ==
  ASSUME NEW m \in {"standard", "wheel", "five"}
  PROVE  Told(Devices!KindOf(m)) = Id(m) /\ Devices!KindOf(m) \in Words
<1>1. CASE m = "standard"
  <2>1. Devices!KindOf(m) = "zero"
    BY <1>1, Zenon DEF Devices!KindOf
  <2>2. "zero" \in Words
    BY DEF Words
  <2>3. Devices!KindOf(m) \in Words
    BY <2>1, <2>2, Zenon
  <2>4. Told(Devices!KindOf(m)) = Id(m)
    BY <1>1, <2>1 DEF Id
  <2>. QED
    BY <2>3, <2>4
<1>2. CASE m = "wheel"
  <2>1. Devices!KindOf(m) = "three"
    BY <1>2, Zenon DEF Devices!KindOf
  <2>2. "three" \in Words
    BY DEF Words
  <2>3. Devices!KindOf(m) \in Words
    BY <2>1, <2>2, Zenon
  <2>4. Told(Devices!KindOf(m)) = Id(m)
    BY <1>2, <2>1 DEF Id
  <2>. QED
    BY <2>3, <2>4
<1>3. CASE m = "five"
  <2>1. Devices!KindOf(m) = "four"
    BY <1>3, Zenon DEF Devices!KindOf
  <2>2. "four" \in Words
    BY DEF Words
  <2>3. Devices!KindOf(m) \in Words
    BY <2>1, <2>2, Zenon
  <2>4. Told(Devices!KindOf(m)) = Id(m)
    BY <1>3, <2>1 DEF Id
  <2>. QED
    BY <2>3, <2>4
<1>. QED
  BY <1>1, <1>2, <1>3

-----------------------------------------------------------------------------
\* What goes on beside the driver changes nothing that it is owed.
LEMMA BesideIt ==
  ASSUME NEW s, NEW c, NEW w, NEW a, InputStage(s, c, w, a), NEW e \in Wires,
         e.config = c.config, e.scanning = c.scanning, e.rates = c.rates, e.mode = c.mode, e.reports = c.reports,
         \A E : Expects(c, E) => Expects(e, E)
  PROVE  InputStage(s, e, w, a)
<1>1. \A p : Facts(p, s, e, w, a) = Facts(p, s, c, w, a) /\ Owed(p, s, e, w) = Owed(p, s, c, w) /\ Left(p, e, w) = Left(p, c, w)
  BY FactsSame
<1>2. Comes(s, c, w, a)
  BY DEF InputStage
<1>3. Comes(s, e, w, a)
  BY <1>1, <1>2 DEF Comes
<1>. QED
  BY <1>3 DEF InputStage

LEMMA InputInit ==
  ASSUME source \in Devices!Controllers, Devices!BringUpInit
  PROVE  InputStage(source, code, walk, answers)
<1>1. code = [config |-> source.config, out |-> <<>>, due |-> [p \in Ports |-> <<>>], scanning |-> TRUE,
              rates |-> <<"", "", "">>, mode |-> "standard", reports |-> FALSE, typed |-> 0]
  BY DEF Devices!BringUpInit, Ports
<1>2. walk = [pc |-> "quiet", then |-> "", got |-> [says |-> "nothing"], byte |-> {}, tries |-> 2, todo |-> <<>>, after |-> ""]
      /\ answers = [keyboard |-> FALSE, pointer |-> "none", usb |-> {}, failure |-> "none", crossed |-> FALSE]
  BY DEF Devices!BringUpInit, Devices!Nothing
<1>3. source.config \in SUBSET Flags
  BY DEF Devices!Controllers, Flags
<1>4. code \in Wires
  <2>1. <<"", "", "">> \in Seq(Rates)
    BY DEF Rates
  <2>2. [p \in Ports |-> <<>>] \in [Ports -> Seq(Sayings)] /\ <<>> \in Seq(Bytes)
    OBVIOUS
  <2>3. "standard" \in Mice
    BY DEF Mice
  <2>. QED
    BY <1>1, <1>3, <2>1, <2>2, <2>3, Zenon DEF Wires
<1>5. [says |-> "nothing"] \in Bytes
  BY DEF Bytes, Sayings, Words
<1>6. walk \in Driver
  <2>1. "quiet" \in Steps /\ <<>> \in Seq(Orders) /\ {} \in SUBSET Flags
    BY DEF Steps
  <2>. QED
    BY <1>2, <1>5, <2>1 DEF Driver
<1>7. answers \in Found
  BY <1>2 DEF Found
<1>8. Facts("quiet", source, code, walk, answers)
  BY <1>1, <1>2 DEF Facts, ControllerIs, KeyboardIs, MouseIs, First, Resetting, Pointing, Looking, Looked
<1>9. Expects(code, <<>>)
  <2>1. "ctl" \in Ports /\ code.out = <<>> /\ \A p \in Ports : code.due[p] = <<>>
    BY <1>1 DEF Ports
  <2>2. <<>> \in Seq(Sayings) /\ <<>> = <<>> \o <<>>
    BY ConcatEmptySeq
  <2>. QED
    BY <2>1, <2>2, CarriesNothing DEF Expects
<1>10. Left("quiet", code, walk) = <<>>
  BY DEF Left
<1>11. walk.pc = "quiet" /\ "quiet" \in Steps
  BY <1>2 DEF Steps
<1>. QED
  BY <1>4, <1>6, <1>7, <1>8, <1>9, <1>10, <1>11, Arrives

LEMMA InputDeliver ==
  ASSUME InputStage(source, code, walk, answers), Devices!Deliver, source' = source
  PROVE  InputStage(source', code', walk', answers')
<1>1. PICK p \in {q \in Ports : code.due[q] # <<>>} :
        code' = [code EXCEPT !.due[p] = Tail(@), !.out = Append(@, Head(code.due[p]))]
  BY DEF Devices!Deliver, Devices!Owing, Ports
<1>2. walk' = walk /\ answers' = answers
  BY DEF Devices!Deliver
<1>3. code \in Wires /\ p \in Ports /\ code.due[p] \in Seq(Sayings) /\ code.due[p] # <<>> /\ WireTypes(code)
  BY <1>1 DEF InputStage, Wires, WireTypes
<1>4. Head(code.due[p]) \in Bytes /\ Tail(code.due[p]) \in Seq(Sayings)
  BY <1>3, HeadTailProperties, TypingsAre
<1> DEFINE o == Append(code.out, Head(code.due[p]))
           d == [code.due EXCEPT ![p] = Tail(@)]
<1>5. o \in Seq(Bytes) /\ d \in [Ports -> Seq(Sayings)]
  BY <1>3, <1>4 DEF Wires
<1>6. code' = [code EXCEPT !.due = d, !.out = o]
  BY <1>1, <1>3 DEF Wires
<1> HIDE DEF o, d
<1>7. code' \in Wires /\ code'.due = d /\ code'.out = o /\ code'.config = code.config /\ code'.scanning = code.scanning
      /\ code'.rates = code.rates /\ code'.mode = code.mode /\ code'.reports = code.reports
  BY <1>3, <1>5, <1>6 DEF Wires
<1>8. \A E : Expects(code, E) => Expects(code', E)
  BY <1>3, <1>7, ExpectsDelivered DEF o, d
<1>. QED
  BY <1>2, <1>7, <1>8, BesideIt

LEMMA InputType ==
  ASSUME InputStage(source, code, walk, answers), Devices!Type, source' = source
  PROVE  InputStage(source', code', walk', answers')
<1>1. PICK byte \in Devices!Strays : code' = [code EXCEPT !.typed = @ + 1, !.out = Append(@, [says |-> byte, typed |-> TRUE])]
  BY DEF Devices!Type
<1>2. walk' = walk /\ answers' = answers
  BY DEF Devices!Type
<1> DEFINE b == [says |-> byte, typed |-> TRUE]
           o == Append(code.out, b)
<1>3. b \in Typings /\ b \in Bytes /\ code \in Wires
  BY DEF Typings, Bytes, InputStage
<1>4. o \in Seq(Bytes) /\ code.typed + 1 \in Nat
  BY <1>3 DEF Wires
<1>5. code' = [code EXCEPT !.typed = @ + 1, !.out = o]
  BY <1>1
<1> HIDE DEF b, o
<1>6. code' \in Wires /\ code'.due = code.due /\ code'.out = o /\ code'.config = code.config /\ code'.scanning = code.scanning
      /\ code'.rates = code.rates /\ code'.mode = code.mode /\ code'.reports = code.reports
  BY <1>3, <1>4, <1>5 DEF Wires
<1>7. \A E : Expects(code, E) => Expects(code', E)
  <2>1. WireTypes(code)
    BY <1>3 DEF Wires, WireTypes
  <2>. QED
    BY <1>3, <1>6, <2>1, ExpectsTyped DEF o
<1>. QED
  BY <1>2, <1>6, <1>7, BesideIt

\* What is owed at a place is a sequence, which is empty where there is no controller.
LEMMA OwedIs ==
  ASSUME NEW s \in Devices!Controllers, NEW c \in Wires, NEW w, NEW a, NEW p \in Places \cup {"send"}, Facts(p, s, c, w, a)
  PROVE  /\ s.ctl = "absent" => p # "send" /\ Owed(p, s, c, w) = <<>>
         /\ p = "send" => Owed(p, s, c, w) # <<>> /\ Tail(Owed(p, s, c, w)) = Left(p, c, w)
<1>1. ASSUME s.ctl = "absent" PROVE p # "send" /\ Owed(p, s, c, w) = <<>>
  <2>1. ~Keyed(s) /\ ~Moused(s)
    BY <1>1 DEF Keyed, Moused
  <2>2. p \notin {"was reset", "scans again", "aux reset", "knock", "send", "id", "id again"}
    BY <2>1 DEF Facts, KeyboardIs, MouseIs
  <2>3. p \in {"configure", "tested", "scanning", "acked", "aux", "aux acked"}
    BY <2>2 DEF Places
  <2>. QED
    BY <1>1, <2>1, <2>3, Zenon DEF Owed
<1>2. ASSUME p = "send" PROVE Owed(p, s, c, w) # <<>> /\ Tail(Owed(p, s, c, w)) = Left(p, c, w)
  <2>1. Owed(p, s, c, w) = <<Told("ack")>> \o Left(p, c, w)
    BY <1>2, Zenon DEF Owed
  <2>2. Told("ack") \in Sayings /\ Id(c.mode) \in Sayings
    BY DEF Told, Sayings, Words, Id
  <2>3. Left(p, c, w) \in {<<>>, <<Id(c.mode)>>}
    BY DEF Left
  <2>4. <<Told("ack")>> \in Seq(Sayings) /\ Left(p, c, w) \in Seq(Sayings)
    <3> DEFINE x == Told("ack")
               y == Id(c.mode)
    <3>1. x \in Sayings /\ y \in Sayings /\ Left(p, c, w) \in {<<>>, <<y>>}
      BY <2>2, <2>3
    <3> HIDE DEF x, y
    <3>2. <<x>> \in Seq(Sayings) /\ <<y>> \in Seq(Sayings) /\ <<>> \in Seq(Sayings)
      BY <3>1
    <3>3. Left(p, c, w) \in Seq(Sayings)
      BY <3>1, <3>2
    <3>. QED
      BY <3>2, <3>3 DEF x
  <2>5. <<Told("ack")>> # <<>> /\ Tail(<<Told("ack")>>) = <<>>
    OBVIOUS
  <2>6. <<>> \o Left(p, c, w) = Left(p, c, w)
    BY <2>4, ConcatEmptySeq
  <2>. QED
    BY <2>1, <2>4, <2>5, <2>6, HeadTailOfConcat
<1>. QED
  BY <1>1, <1>2

LEMMA Came ==
  ASSUME NEW s \in Devices!Controllers, NEW c \in Wires, NEW w \in Driver, NEW a \in Found, NEW p \in Places \cup {"send"},
         Facts(p, s, c, w, a), w.pc = p,
         \/ p \in Places /\ w.got = Read(s, Owed(p, s, c, w)) /\ Expects(c, Rest(Owed(p, s, c, w)))
         \/ p = "send" /\ Expects(c, Left(p, c, w))
  PROVE  InputStage(s, c, w, a)
<1>1. "read" \notin Places \cup Steps /\ (\A q \in Steps : q \notin Places) /\ "send" \in Steps
  BY DEF Places, Steps
<1>2. Comes(s, c, w, a)
  BY <1>1 DEF Comes
<1>. QED
  BY <1>2 DEF InputStage

LEMMA InputHear ==
  ASSUME InputStage(source, code, walk, answers), Devices!Hear, source' = source
  PROVE  answers' \in Found /\ (answers'.crossed \/ InputStage(source', code', walk', answers'))
<1> DEFINE p == walk.then
           E == Owed(p, source, code, walk)
<1>1. source \in Devices!Controllers /\ code \in Wires /\ walk \in Driver /\ answers \in Found /\ walk.pc = "read"
  BY DEF InputStage, Devices!Hear, Devices!At
<1>2. code.out \in Seq(Bytes) /\ p \in Places \cup {"send", ""} /\ WireTypes(code)
  BY <1>1 DEF Wires, Driver, WireTypes
<1>3. p \in Places \cup {"send"} /\ Facts(p, source, code, walk, answers) /\ Expects(code, E)
  BY <1>1 DEF InputStage, Comes
<1>4. ASSUME NEW e \in Wires, NEW g \in Bytes, NEW b \in Found, walk' = [walk EXCEPT !.pc = walk.then, !.got = g], code' = e,
             answers' = b,
             e.config = code.config, e.scanning = code.scanning, e.rates = code.rates, e.mode = code.mode,
             e.reports = code.reports, b.keyboard = answers.keyboard, b.pointer = answers.pointer, b.usb = answers.usb,
             b.failure = answers.failure,
             \/ p \in Places /\ g = Read(source, E) /\ Expects(e, Rest(E))
             \/ p = "send" /\ Expects(e, Left(p, code, walk))
      PROVE  InputStage(source', code', walk', answers')
  <2> DEFINE v == walk'
  <2>1. v \in Driver /\ v.pc = p /\ v.got = g /\ v.byte = walk.byte /\ v.tries = walk.tries /\ v.todo = walk.todo
        /\ v.after = walk.after
    <3>1. p \in Places \cup Steps \cup {"read", ""}
      BY <1>2 DEF Steps
    <3>. QED
      BY <1>1, <1>4, <3>1 DEF Driver
  <2> HIDE DEF v
  <2>2. Facts(p, source, e, v, b) /\ Owed(p, source, e, v) = E /\ Left(p, e, v) = Left(p, code, walk)
    BY <1>3, <1>4, <2>1, FactsSame
  <2>3. InputStage(source, e, v, b)
    BY <1>1, <1>3, <1>4, <2>1, <2>2, Came
  <2>. QED
    BY <1>4, <2>3 DEF v
<1>5. CASE source.ctl = "absent" /\ walk' = [walk EXCEPT !.pc = walk.then, !.got = [says |-> "all ones", flags |-> {}]]
           /\ code' = code /\ answers' = answers
  <2>1. [says |-> "all ones", flags |-> {}] \in Bytes
    BY DEF Bytes, Sayings, Words
  <2>2. p # "send" /\ E = <<>> /\ p \in Places
    BY <1>1, <1>3, <1>5, OwedIs
  <2>3. Rest(E) = E /\ [says |-> "all ones", flags |-> {}] = Read(source, E)
    BY <1>5, <2>2 DEF Rest, Read
  <2>. QED
    BY <1>1, <1>3, <1>4, <1>5, <2>1, <2>2, <2>3
<1>6. CASE /\ code.out # <<>> /\ walk' = [walk EXCEPT !.pc = walk.then, !.got = Head(code.out)]
           /\ answers' = [answers EXCEPT !.crossed = @ \/ "typed" \in DOMAIN Head(code.out)]
           /\ code' = [code EXCEPT !.out = Tail(@)]
  <2> DEFINE t == "typed" \in DOMAIN Head(code.out)
  <2>1. Head(code.out) \in Bytes /\ Tail(code.out) \in Seq(Bytes)
    BY <1>2, <1>6, HeadTailProperties
  <2>2. code' \in Wires /\ code'.out = Tail(code.out) /\ code'.due = code.due /\ code'.config = code.config
        /\ code'.scanning = code.scanning /\ code'.rates = code.rates /\ code'.mode = code.mode /\ code'.reports = code.reports
    BY <1>1, <1>6, <2>1 DEF Wires
  <2>3. t \in BOOLEAN /\ answers' = [answers EXCEPT !.crossed = @ \/ t]
    BY <1>6
  <2>4. walk' = [walk EXCEPT !.pc = walk.then, !.got = Head(code.out)]
    BY <1>6
  <2> HIDE DEF t
  <2>5. answers' \in Found /\ answers'.crossed = (answers.crossed \/ t) /\ answers'.keyboard = answers.keyboard
        /\ answers'.pointer = answers.pointer /\ answers'.usb = answers.usb /\ answers'.failure = answers.failure
    BY <1>1, <2>3 DEF Found
  <2>6. ASSUME ~t PROVE InputStage(source', code', walk', answers')
    <3>1. E # <<>> /\ Head(code.out) = Head(E) /\ Expects(code', Tail(E))
      BY <1>2, <1>3, <1>6, <2>2, <2>6, ExpectsRead DEF t
    <3>2. source.ctl # "absent"
      BY <1>1, <1>3, <3>1, OwedIs
    <3>3. Head(code.out) = Read(source, E) /\ Rest(E) = Tail(E)
      BY <3>1, <3>2 DEF Rest, Read
    <3>4. p = "send" => Tail(E) = Left(p, code, walk)
      BY <1>1, <1>3, OwedIs
    <3>. QED
      BY <1>1, <1>3, <1>4, <2>1, <2>2, <2>4, <2>5, <3>1, <3>3, <3>4
  <2>. QED
    BY <2>5, <2>6
<1>7. CASE /\ source.ctl # "absent" /\ code.out = <<>> /\ walk' = [walk EXCEPT !.pc = walk.then, !.got = Devices!Nothing]
           /\ answers' = [answers EXCEPT !.crossed = @ \/ Devices!Owing # {}] /\ code' = code
  <2> DEFINE t == Devices!Owing # {}
  <2>1. Devices!Nothing \in Bytes /\ Devices!Nothing = Told("nothing")
    BY DEF Bytes, Sayings, Words, Devices!Nothing, Told
  <2>2. t \in BOOLEAN /\ answers' = [answers EXCEPT !.crossed = @ \/ t]
    BY <1>7
  <2> HIDE DEF t
  <2>3. answers' \in Found /\ answers'.crossed = (answers.crossed \/ t) /\ answers'.keyboard = answers.keyboard
        /\ answers'.pointer = answers.pointer /\ answers'.usb = answers.usb /\ answers'.failure = answers.failure
    BY <1>1, <2>2 DEF Found
  <2>4. ASSUME ~t PROVE InputStage(source', code', walk', answers')
    <3>1. \A q \in Ports : code.due[q] = <<>>
      BY <2>4 DEF t, Devices!Owing, Ports
    <3>2. E = <<>>
      BY <1>2, <1>3, <1>7, <3>1, ExpectsSilence
    <3>3. Told("nothing") = Read(source, E) /\ Rest(E) = E
      BY <1>7, <3>2 DEF Rest, Read
    <3>4. p \in Places
      BY <1>1, <1>3, <3>2, OwedIs
    <3>. QED
      BY <1>1, <1>3, <1>4, <1>7, <2>1, <2>3, <3>2, <3>3, <3>4
  <2>. QED
    BY <2>3, <2>4
<1>. QED
  BY <1>1, <1>5, <1>6, <1>7 DEF Devices!Hear
-----------------------------------------------------------------------------
(***************************************************************************)
(* The driver goes on: it reads for p, or is at p.                         *)
(***************************************************************************)
Same(v, w)      == v \in Driver /\ v.byte = w.byte /\ v.tries = w.tries /\ v.todo = w.todo /\ v.after = w.after
AsksAt(v, w, p) == Same(v, w) /\ v.pc = "read" /\ v.then = p
GoesTo(v, w, p) == Same(v, w) /\ v.pc = p

LEMMA WalksOn ==
  ASSUME NEW w \in Driver
  PROVE  /\ \A p \in Places \cup {"send"} : AsksAt([w EXCEPT !.pc = "read", !.then = p], w, p)
         /\ \A p \in Steps : GoesTo([w EXCEPT !.pc = p], w, p)
<1>1. ASSUME NEW p \in Places \cup {"send"} PROVE AsksAt([w EXCEPT !.pc = "read", !.then = p], w, p)
  BY DEF AsksAt, Same, Driver
<1>2. ASSUME NEW p \in Steps PROVE GoesTo([w EXCEPT !.pc = p], w, p)
  BY DEF GoesTo, Same, Driver
<1>. QED
  BY <1>1, <1>2

LEMMA ReadsFor ==
  ASSUME NEW s \in Devices!Controllers, NEW e \in Wires, NEW w, NEW v, NEW a \in Found, NEW p \in Places \cup {"send"},
         AsksAt(v, w, p), Facts(p, s, e, w, a), Expects(e, Owed(p, s, e, w))
  PROVE  InputStage(s, e, v, a)
<1>1. Facts(p, s, e, v, a) /\ Owed(p, s, e, v) = Owed(p, s, e, w)
  BY FactsSame DEF AsksAt, Same
<1>. QED
  BY <1>1, Arrives DEF AsksAt, Same

LEMMA IsAt ==
  ASSUME NEW s \in Devices!Controllers, NEW e \in Wires, NEW w, NEW v, NEW a \in Found, NEW p \in Steps,
         GoesTo(v, w, p), Facts(p, s, e, w, a), Expects(e, Left(p, e, w))
  PROVE  InputStage(s, e, v, a)
<1>1. Facts(p, s, e, v, a) /\ Left(p, e, v) = Left(p, e, w)
  BY FactsSame DEF GoesTo, Same
<1>. QED
  BY <1>1, Arrives DEF GoesTo, Same

LEMMA StageIs ==
  ASSUME NEW s, NEW c, NEW w, NEW a, InputStage(s, c, w, a)
  PROVE  /\ s \in Devices!Controllers /\ c \in Wires /\ w \in Driver /\ a \in Found
         /\ w.pc \in Places => /\ Facts(w.pc, s, c, w, a) /\ Expects(c, Rest(Owed(w.pc, s, c, w)))
                               /\ w.got = Read(s, Owed(w.pc, s, c, w))
         /\ w.pc \in Steps => Facts(w.pc, s, c, w, a) /\ Expects(c, Left(w.pc, c, w))
BY DEF InputStage, Comes

\* Nothing more is owed after the one answer that is read.
LEMMA Answered ==
  \A x : Rest(<<x>>) = <<>> /\ Rest(<<>>) = <<>> /\ (\A s : s.ctl # "absent" => Read(s, <<x>>) = x /\ Read(s, <<>>) = Told("nothing"))
BY DEF Rest, Read

LEMMA InputQuiet ==
  ASSUME InputStage(source, code, walk, answers), Devices!Quiet, source' = source
  PROVE  InputStage(source', code', walk', answers')
<1> DEFINE c1 == Devices!Commanded(code, "disable kbd")
           c2 == Devices!Commanded(c1, "disable aux")
           c3 == Devices!Drained(c2)
           c4 == Devices!Commanded(c3, "get config")
<1>1. walk.pc = "quiet" /\ "quiet" \in Steps /\ answers' = answers /\ code' = c4
      /\ walk' = [walk EXCEPT !.pc = "read", !.then = "configure"]
  BY DEF Devices!Quiet, Devices!At, Devices!Asks, Steps
<1>2. /\ source \in Devices!Controllers /\ code \in Wires /\ walk \in Driver /\ answers \in Found
      /\ Facts("quiet", source, code, walk, answers) /\ Expects(code, Left("quiet", code, walk))
  BY <1>1, StageIs
<1>3. Left("quiet", code, walk) = <<>>
  BY DEF Left
<1>4. AsksAt(walk', walk, "configure") /\ "configure" \in Places \cup {"send"}
  <2>1. "configure" \in Places \cup {"send"}
    BY DEF Places
  <2>. QED
    BY <1>1, <1>2, <2>1, WalksOn
<1>5. c3 = [c2 EXCEPT !.out = <<>>] /\ (source.ctl = "absent" => c1 = code /\ c2 = c1 /\ c4 = c3)
  BY CommandIs DEF Devices!Drained
<1>6. source.ctl # "absent" => c1 = [code EXCEPT !.config = @ \cup {"kbd off"}] /\ c2 = [c1 EXCEPT !.config = @ \cup {"aux off"}]
  BY CommandIs
<1>7. /\ source.ctl = "closed" => c4 = c3
      /\ source.ctl = "open" => c4 = [c3 EXCEPT !.due["ctl"] = Append(@, [says |-> "config", flags |-> c3.config])]
  BY CommandIs
<1> HIDE DEF c1, c2, c3, c4
<1>8. code.config \in SUBSET Flags
  BY <1>2 DEF Wires
<1>9. \A x \in {code.config, (code.config \cup {"kbd off"}) \cup {"aux off"}} :
        x \in SUBSET Flags /\ x \ {"kbd off", "aux off"} = code.config \ {"kbd off", "aux off"}
  BY <1>8 DEF Flags
<1>10. ASSUME NEW e, e.scanning = code.scanning, e.config \ {"kbd off", "aux off"} = code.config \ {"kbd off", "aux off"}
       PROVE  Facts("configure", source, e, walk, answers)
  BY <1>2, <1>10 DEF Facts, ControllerIs, KeyboardIs, MouseIs, First, Resetting, Pointing, Looking, Looked
<1>11. Owed("configure", source, c4, walk) = IF source.ctl = "open" THEN <<[says |-> "config", flags |-> c4.config]>> ELSE <<>>
  BY Zenon DEF Owed
<1>12. CASE source.ctl = "absent"
  <2>1. c4 \in Wires /\ c4.out = <<>> /\ c4.due = code.due /\ c4.config = code.config /\ c4.scanning = code.scanning
    <3>1. c4 = [code EXCEPT !.out = <<>>] /\ <<>> \in Seq(Bytes)
      BY <1>5, <1>12
    <3>. QED
      BY <1>2, <3>1 DEF Wires
  <2>2. Expects(c4, <<>>)
    BY <1>2, <1>3, <2>1, NothingAsked
  <2>. QED
    BY <1>1, <1>2, <1>4, <1>9, <1>10, <1>11, <1>12, <2>1, <2>2, ReadsFor
<1>13. CASE source.ctl # "absent"
  <2>1. c3 \in Wires /\ c3.out = <<>> /\ c3.due = code.due /\ c3.scanning = code.scanning
        /\ c3.config = (code.config \cup {"kbd off"}) \cup {"aux off"}
    <3> DEFINE f == (code.config \cup {"kbd off"}) \cup {"aux off"}
    <3>1. c1 \in Wires /\ c1.config = code.config \cup {"kbd off"} /\ c1.due = code.due /\ c1.scanning = code.scanning
      BY <1>2, <1>6, <1>8, <1>13 DEF Wires, Flags
    <3>2. f \in SUBSET Flags /\ c2 = [c1 EXCEPT !.config = f]
      BY <1>6, <1>9, <1>13, <3>1 DEF Wires
    <3> HIDE DEF f
    <3>3. c2 \in Wires /\ c2.config = f /\ c2.due = code.due /\ c2.scanning = code.scanning
      BY <3>1, <3>2 DEF Wires
    <3>4. <<>> \in Seq(Bytes)
      OBVIOUS
    <3>5. c3 \in Wires /\ c3.out = <<>> /\ c3.due = code.due /\ c3.scanning = code.scanning /\ c3.config = f
      BY <1>5, <3>3, <3>4 DEF Wires
    <3>. QED
      BY <3>5 DEF f
  <2>2. CASE source.ctl = "closed"
    <3>1. Expects(c4, <<>>)
      BY <1>2, <1>3, <1>7, <2>1, <2>2, NothingAsked
    <3>. QED
      BY <1>1, <1>2, <1>4, <1>7, <1>9, <1>10, <1>11, <2>1, <2>2, <3>1, ReadsFor
  <2>3. CASE source.ctl = "open"
    <3> DEFINE x == [says |-> "config", flags |-> c3.config]
    <3>1. x \in Sayings
      BY <2>1 DEF Wires, Sayings, Words
    <3> HIDE DEF x
    <3>2. <<x>> \in Seq(Sayings) /\ "ctl" \in Ports /\ c3.due["ctl"] \in Seq(Sayings)
      <4>1. "ctl" \in Ports /\ c3.due["ctl"] \in Seq(Sayings)
        BY <2>1 DEF Wires, Ports
      <4>2. <<x>> \in Seq(Sayings)
        BY <3>1
      <4>. QED
        BY <4>1, <4>2
    <3>3. c4 = [c3 EXCEPT !.due["ctl"] = @ \o <<x>>]
      BY <1>7, <2>3, <3>1, <3>2, AppendIsConcat DEF x
    <3>4. Owing(c3, c4, "ctl", <<x>>)
      BY <2>1, <3>2, <3>3, OwingIs
    <3>5. Expects(c4, <<x>>)
      BY <1>2, <1>3, <2>1, <3>2, <3>4, OwingExpects
    <3>6. c4 \in Wires /\ c4.config = c3.config /\ c4.scanning = c3.scanning
      BY <3>4 DEF Owing
    <3>7. <<x>> = Owed("configure", source, c4, walk)
      BY <1>11, <2>3, <3>6 DEF x
    <3>. QED
      BY <1>1, <1>2, <1>4, <1>9, <1>10, <2>1, <3>5, <3>6, <3>7, ReadsFor
  <2>. QED
    BY <1>2, <1>13, <2>2, <2>3 DEF Devices!Controllers
<1>. QED
  BY <1>12, <1>13

LEMMA InputConfigure ==
  ASSUME InputStage(source, code, walk, answers), Devices!Configure, source' = source
  PROVE  InputStage(source', code', walk', answers')
<1> DEFINE told == IF "flags" \in DOMAIN walk.got THEN walk.got.flags ELSE {}
           byte == (told \cup {"translation", "system"}) \ {"kbd off", "aux off", "interrupts"}
           d    == Devices!Configured(code, byte)
           e    == Devices!Commanded(d, "self test")
           E    == Owed("configure", source, code, walk)
<1>0. walk.pc = "configure" /\ "configure" \in Places
  BY DEF Devices!Configure, Devices!At, Places
<1>1. answers' = answers
      /\ IF walk.got = Devices!Nothing THEN code' = code /\ walk' = [walk EXCEPT !.pc = "enable"]
         ELSE code' = e /\ walk' = [walk EXCEPT !.pc = "read", !.then = "tested", !.byte = byte]
  BY DEF Devices!Configure, Devices!Goes
<1>2. /\ source \in Devices!Controllers /\ code \in Wires /\ walk \in Driver /\ answers \in Found
      /\ Facts("configure", source, code, walk, answers) /\ Expects(code, Rest(E)) /\ walk.got = Read(source, E)
  BY <1>0, StageIs
<1>3. E = IF source.ctl = "open" THEN <<[says |-> "config", flags |-> code.config]>> ELSE <<>>
  BY Zenon DEF Owed
<1>4. Expects(code, <<>>)
  BY <1>2, <1>3, Answered
<1>5. /\ source.ctl = "closed" => walk.got = [says |-> "nothing"]
      /\ source.ctl = "absent" => walk.got = [says |-> "all ones", flags |-> {}]
      /\ source.ctl = "open" => walk.got = [says |-> "config", flags |-> code.config]
  <2>1. CASE source.ctl = "absent"
    BY <1>2, <2>1 DEF Read
  <2>2. CASE source.ctl # "absent"
    <3> DEFINE x == [says |-> "config", flags |-> code.config]
    <3>1. E = IF source.ctl = "open" THEN <<x>> ELSE <<>>
      BY <1>3
    <3> HIDE DEF x
    <3>2. walk.got = IF source.ctl = "open" THEN x ELSE Told("nothing")
      <4>1. CASE source.ctl = "open"
        BY <1>2, <2>2, <3>1, <4>1, Answered
      <4>2. CASE source.ctl # "open"
        BY <1>2, <2>2, <3>1, <4>2, Answered
      <4>. QED
        BY <4>1, <4>2
    <3>. QED
      BY <2>2, <3>2 DEF x, Told
  <2>. QED
    BY <2>1, <2>2
<1>6. Devices!Nothing = [says |-> "nothing"]
  BY DEF Devices!Nothing
<1>7. source.ctl \in {"absent", "closed", "open"} /\ source.resets \in BOOLEAN
  BY <1>2 DEF Devices!Controllers
<1>8. CASE source.ctl = "closed"
  <2>1. code' = code /\ GoesTo(walk', walk, "enable") /\ "enable" \in Steps
    <3>1. "enable" \in Steps
      BY DEF Steps
    <3>. QED
      BY <1>1, <1>2, <1>5, <1>6, <1>8, <3>1, WalksOn
  <2>2. Facts("enable", source, code, walk, answers)
    BY <1>2, <1>8 DEF Facts, ControllerIs, KeyboardIs, MouseIs, First, Resetting, Pointing, Looking, Looked
  <2>3. Left("enable", code, walk) = <<>>
    BY DEF Left
  <2>. QED
    BY <1>1, <1>2, <1>4, <2>1, <2>2, <2>3, IsAt
<1>9. ASSUME source.ctl # "closed" PROVE code' = e /\ walk' = [walk EXCEPT !.pc = "read", !.then = "tested", !.byte = byte]
  <2>1. walk.got # [says |-> "nothing"]
    <3>1. CASE source.ctl = "absent"
      <4>1. [says |-> "all ones", flags |-> {}] # [says |-> "nothing"]
        OBVIOUS
      <4>. QED
        BY <1>5, <3>1, <4>1
    <3>2. CASE source.ctl = "open"
      <4>1. [says |-> "config", flags |-> code.config] # [says |-> "nothing"]
        OBVIOUS
      <4>. QED
        BY <1>5, <3>2, <4>1
    <3>. QED
      BY <1>7, <1>9, <3>1, <3>2
  <2>. QED
    BY <1>1, <1>6, <2>1
<1>10. byte \in SUBSET Flags /\ "translation" \in byte /\ "interrupts" \notin byte
  <2>1. told \in SUBSET Flags
    <3>1. {} \in SUBSET Flags /\ code.config \in SUBSET Flags
      BY <1>2 DEF Wires
    <3>2. CASE source.ctl = "absent"
      <4>1. [says |-> "all ones", flags |-> {}].flags = {}
        OBVIOUS
      <4>2. told \in {walk.got.flags, {}}
        OBVIOUS
      <4>3. walk.got.flags = {}
        BY <1>5, <3>2, <4>1
      <4>. QED
        BY <3>1, <4>2, <4>3
    <3>3. CASE source.ctl = "closed"
      BY <1>5, <3>1, <3>3
    <3>4. CASE source.ctl = "open"
      BY <1>5, <3>1, <3>4
    <3>. QED
      BY <1>7, <3>2, <3>3, <3>4
  <2>. QED
    BY <2>1 DEF Flags
<1> HIDE DEF byte
<1>11. ASSUME source.ctl # "closed"
       PROVE  walk' \in Driver /\ walk'.pc = "read" /\ walk'.then = "tested" /\ walk'.byte = byte /\ walk'.tries = walk.tries
              /\ "tested" \in Places
  BY <1>2, <1>9, <1>10, <1>11 DEF Driver, Places
<1>12. ASSUME NEW f, NEW v, f.scanning = code.scanning, v.byte = byte, v.tries = walk.tries, source.ctl # "closed"
       PROVE  Facts("tested", source, f, v, answers)
  BY <1>2, <1>10, <1>12 DEF Facts, ControllerIs, KeyboardIs, MouseIs, First, Resetting, Pointing, Looking, Looked
<1>13. CASE source.ctl = "absent"
  <2>1. e = code
    BY <1>13, CommandIs DEF Devices!Configured
  <2>2. Owed("tested", source, code, walk') = <<>>
    BY <1>13, Zenon DEF Owed
  <2>. QED
    BY <1>1, <1>2, <1>4, <1>9, <1>11, <1>12, <1>13, <2>1, <2>2, Arrives
<1>14. CASE source.ctl = "open"
  <2> DEFINE r == IF source.resets THEN [d EXCEPT !.config = {"kbd off", "aux off"}] ELSE d
  <2>1. d = [code EXCEPT !.config = byte] /\ e = Devices!Owes(r, "ctl", <<"passed">>)
    BY <1>14, CommandIs DEF Devices!Configured
  <2>2. d \in Wires /\ d.due = code.due /\ d.out = code.out /\ d.scanning = code.scanning
    BY <1>2, <1>10, <2>1 DEF Wires
  <2>3. {"kbd off", "aux off"} \in SUBSET Flags
    BY DEF Flags
  <2> HIDE DEF d
  <2>4. r \in Wires /\ r.due = code.due /\ r.out = code.out /\ r.scanning = code.scanning
    BY <1>7, <2>2, <2>3 DEF Wires
  <2> HIDE DEF r
  <2>5. "ctl" \in Ports /\ "passed" \in Words /\ <<Told("passed")>> \in Seq(Sayings)
    BY SaysAre DEF Ports, Words
  <2>6. Owing(r, e, "ctl", <<Told("passed")>>)
    BY <2>1, <2>4, <2>5, Owed1
  <2>7. Expects(e, <<Told("passed")>>)
    BY <1>2, <1>4, <2>4, <2>5, <2>6, OwingExpects
  <2>8. Owed("tested", source, e, walk') = <<Told("passed")>>
    BY <1>14, Zenon DEF Owed
  <2>9. e \in Wires /\ e.scanning = code.scanning
    BY <2>4, <2>6 DEF Owing
  <2>. QED
    BY <1>1, <1>2, <1>9, <1>11, <1>12, <1>14, <2>7, <2>8, <2>9, Arrives
<1>. QED
  BY <1>7, <1>8, <1>13, <1>14

LEMMA InputTested ==
  ASSUME InputStage(source, code, walk, answers), Devices!Tested, source' = source
  PROVE  InputStage(source', code', walk', answers')
<1> DEFINE E == Owed("tested", source, code, walk)
<1>1. walk.pc = "tested" /\ "tested" \in Places /\ answers' = answers /\ walk' = [walk EXCEPT !.pc = "enable"]
      /\ code' = IF walk.got.says = "passed" THEN Devices!Configured(code, walk.byte) ELSE code
  BY DEF Devices!Tested, Devices!At, Devices!Goes, Devices!Got, Places
<1>2. /\ source \in Devices!Controllers /\ code \in Wires /\ walk \in Driver /\ answers \in Found
      /\ Facts("tested", source, code, walk, answers) /\ Expects(code, Rest(E)) /\ walk.got = Read(source, E)
  BY <1>1, StageIs
<1>3. source.ctl \in {"absent", "open"}
  BY <1>2 DEF Devices!Controllers, Facts, ControllerIs
<1>4. E = IF source.ctl = "open" THEN <<Told("passed")>> ELSE <<>>
  BY Zenon DEF Owed
<1>5. Expects(code, <<>>)
  BY <1>2, <1>4, Answered
<1>6. GoesTo(walk', walk, "enable") /\ "enable" \in Steps
  <2>1. "enable" \in Steps
    BY DEF Steps
  <2>. QED
    BY <1>1, <1>2, <2>1, WalksOn
<1>7. \A e : Left("enable", e, walk) = <<>>
  BY DEF Left
<1>8. CASE source.ctl = "absent"
  <2>1. code' = code
    BY <1>1, <1>2, <1>8 DEF Read, Devices!Configured
  <2>2. Facts("enable", source, code, walk, answers)
    BY <1>2, <1>8 DEF Facts, ControllerIs, KeyboardIs, MouseIs, First, Resetting, Pointing, Looking, Looked
  <2>. QED
    BY <1>1, <1>2, <1>5, <1>6, <1>7, <2>1, <2>2, IsAt
<1>9. CASE source.ctl = "open"
  <2>1. code' = [code EXCEPT !.config = walk.byte]
    BY <1>1, <1>2, <1>4, <1>9 DEF Read, Told, Devices!Configured
  <2>2. code' \in Wires /\ code'.config = walk.byte /\ code'.scanning = code.scanning /\ code'.due = code.due /\ code'.out = code.out
    BY <1>2, <2>1 DEF Wires, Driver
  <2>3. Facts("enable", source, code', walk, answers)
    BY <1>2, <1>9, <2>2 DEF Facts, ControllerIs, KeyboardIs, MouseIs, First, Resetting, Pointing, Looking, Looked
  <2>4. Expects(code', <<>>)
    BY <1>2, <1>5, <2>2, NothingAsked
  <2>. QED
    BY <1>1, <1>2, <1>6, <1>7, <2>2, <2>3, <2>4, IsAt
<1>. QED
  BY <1>3, <1>8, <1>9

LEMMA InputEnable ==
  ASSUME InputStage(source, code, walk, answers), Devices!Enable, source' = source
  PROVE  InputStage(source', code', walk', answers')
<1> DEFINE c1 == Devices!Commanded(code, "enable kbd")
           c2 == Devices!Drained(c1)
           c3 == Devices!ToKeyboard(c2, "enable")
<1>1. walk.pc = "enable" /\ "enable" \in Steps /\ answers' = answers /\ walk' = [walk EXCEPT !.pc = "read", !.then = "scanning"]
      /\ code' = c3
  BY DEF Devices!Enable, Devices!At, Devices!Asks, Steps
<1>2. /\ source \in Devices!Controllers /\ code \in Wires /\ walk \in Driver /\ answers \in Found
      /\ Facts("enable", source, code, walk, answers) /\ Expects(code, Left("enable", code, walk))
  BY <1>1, StageIs
<1>3. Left("enable", code, walk) = <<>>
  BY DEF Left
<1>4. AsksAt(walk', walk, "scanning") /\ "scanning" \in Places \cup {"send"}
  <2>1. "scanning" \in Places \cup {"send"}
    BY DEF Places
  <2>. QED
    BY <1>1, <1>2, <2>1, WalksOn
<1>5. c1 = IF source.ctl = "absent" THEN code ELSE [code EXCEPT !.config = @ \ {"kbd off"}]
  BY CommandIs
<1>6. c1 \in Wires /\ c1.due = code.due /\ c1.scanning = code.scanning
      /\ c1.config = IF source.ctl = "absent" THEN code.config ELSE code.config \ {"kbd off"}
  BY <1>2, <1>5 DEF Wires
<1>7. c2 = [c1 EXCEPT !.out = <<>>]
  BY DEF Devices!Drained
<1> HIDE DEF c1
<1>8. c2 \in Wires /\ c2.due = code.due /\ c2.out = <<>> /\ c2.scanning = code.scanning /\ c2.config = c1.config
  <2>1. <<>> \in Seq(Bytes)
    OBVIOUS
  <2>. QED
    BY <1>6, <1>7, <2>1 DEF Wires
<1>9. /\ ~Keyed(source) => c3 = c2
      /\ Keyed(source) => c3 = IF source.kbd = "stubborn" /\ c2.scanning THEN c2
                               ELSE Devices!Owes([c2 EXCEPT !.scanning = TRUE], "kbd", <<"ack">>)
  BY ToKeyboardIs
<1> HIDE DEF c2, c3
<1>10. c2.scanning = TRUE /\ code.scanning
  BY <1>2, <1>8 DEF Facts, KeyboardIs, First, Wires
<1>11. ASSUME NEW e, e.scanning = code.scanning, e.config = c1.config
       PROVE  Facts("scanning", source, e, walk, answers)
  <2>1. ControllerIs("scanning", source, e, walk)
    BY <1>2, <1>6, <1>11 DEF Facts, ControllerIs, First
  <2>2. KeyboardIs("scanning", source, e, walk, answers)
    BY <1>2, <1>10, <1>11 DEF Facts, KeyboardIs, First, Resetting, Pointing, Looking, Looked
  <2>3. MouseIs("scanning", source, e, walk, answers)
    BY <1>2 DEF Facts, MouseIs, First, Resetting, Pointing, Looking, Looked
  <2>. QED
    BY <2>1, <2>2, <2>3 DEF Facts
<1>12. Owed("scanning", source, c3, walk) = IF Keyed(source) /\ source.kbd # "stubborn" THEN <<Told("ack")>> ELSE <<>>
  BY Zenon DEF Owed
<1>13. CASE Keyed(source) /\ source.kbd # "stubborn"
  <2>1. [c2 EXCEPT !.scanning = TRUE] = c2
    BY <1>8, <1>10 DEF Wires
  <2> DEFINE d == [c2 EXCEPT !.scanning = TRUE]
  <2>2. c3 = Devices!Owes(d, "kbd", <<"ack">>)
    BY <1>9, <1>13
  <2>3. d \in Wires /\ "kbd" \in Ports /\ "ack" \in Words /\ <<Told("ack")>> \in Seq(Sayings)
    BY <1>8, <2>1, SaysAre DEF Ports, Words
  <2>4. d = c2
    BY <2>1
  <2> HIDE DEF d
  <2>5. Owing(d, c3, "kbd", <<Told("ack")>>)
    BY <2>2, <2>3, Owed1
  <2>6. Expects(c3, <<Told("ack")>>)
    BY <1>2, <1>3, <1>8, <2>3, <2>4, <2>5, OwingExpects
  <2>7. c3 \in Wires /\ c3.scanning = code.scanning /\ c3.config = c1.config
    BY <1>8, <2>4, <2>5 DEF Owing
  <2>. QED
    BY <1>1, <1>2, <1>4, <1>11, <1>12, <1>13, <2>6, <2>7, ReadsFor
<1>14. CASE ~(Keyed(source) /\ source.kbd # "stubborn")
  <2>1. c3 = c2
    BY <1>9, <1>10, <1>14
  <2>2. Expects(c3, <<>>)
    BY <1>2, <1>3, <1>8, <2>1, NothingAsked
  <2>. QED
    BY <1>1, <1>2, <1>4, <1>8, <1>11, <1>12, <1>14, <2>1, <2>2, ReadsFor
<1>. QED
  BY <1>13, <1>14

\* What is read is the first of what is owed.
LEMMA ReadSilence ==
  ASSUME NEW s
  PROVE  Rest(<<>>) = <<>> /\ Read(s, <<>>).says = IF s.ctl = "absent" THEN "all ones" ELSE "nothing"
BY DEF Rest, Read, Told

LEMMA ReadOne ==
  ASSUME NEW s, s.ctl # "absent", NEW x
  PROVE  Rest(<<Told(x)>>) = <<>> /\ Read(s, <<Told(x)>>) = Told(x) /\ Told(x).says = x
<1>1. <<Told(x)>> # <<>> /\ Tail(<<Told(x)>>) = <<>> /\ Head(<<Told(x)>>) = Told(x)
  OBVIOUS
<1>. QED
  BY <1>1 DEF Rest, Read, Told

LEMMA ReadTwo ==
  ASSUME NEW s, s.ctl # "absent", NEW x, NEW y
  PROVE  Rest(<<Told(x), Told(y)>>) = <<Told(y)>> /\ Read(s, <<Told(x), Told(y)>>) = Told(x) /\ Told(x).says = x
<1>1. <<Told(x), Told(y)>> # <<>> /\ Tail(<<Told(x), Told(y)>>) = <<Told(y)>> /\ Head(<<Told(x), Told(y)>>) = Told(x)
  OBVIOUS
<1>. QED
  BY <1>1 DEF Rest, Read, Told

LEMMA ReadThree ==
  ASSUME NEW s, s.ctl # "absent", NEW x, NEW y, NEW z
  PROVE  /\ Rest(<<Told(x), Told(y), Told(z)>>) = <<Told(y), Told(z)>>
         /\ Read(s, <<Told(x), Told(y), Told(z)>>) = Told(x) /\ Told(x).says = x
<1>1. <<Told(x), Told(y), Told(z)>> # <<>> /\ Tail(<<Told(x), Told(y), Told(z)>>) = <<Told(y), Told(z)>>
      /\ Head(<<Told(x), Told(y), Told(z)>>) = Told(x)
  OBVIOUS
<1>. QED
  BY <1>1 DEF Rest, Read, Told

LEMMA DrainedIs ==
  ASSUME NEW c \in Wires, Expects(c, <<>>)
  PROVE  /\ Devices!Drained(c) \in Wires /\ Expects(Devices!Drained(c), <<>>)
         /\ Devices!Drained(c).config = c.config /\ Devices!Drained(c).scanning = c.scanning
         /\ Devices!Drained(c).mode = c.mode /\ Devices!Drained(c).reports = c.reports /\ Devices!Drained(c).rates = c.rates
         /\ Devices!Drained(c).due = c.due
<1> DEFINE d == Devices!Drained(c)
<1>1. d = [c EXCEPT !.out = <<>>] /\ <<>> \in Seq(Bytes)
  BY DEF Devices!Drained
<1> HIDE DEF d
<1>2. d \in Wires /\ d.config = c.config /\ d.scanning = c.scanning /\ d.mode = c.mode /\ d.reports = c.reports /\ d.rates = c.rates
      /\ d.due = c.due /\ d.out = <<>>
  BY <1>1 DEF Wires
<1>3. Expects(d, <<>>)
  BY <1>2, NothingAsked
<1>. QED
  BY <1>2, <1>3 DEF d

LEMMA InputScanning ==
  ASSUME InputStage(source, code, walk, answers), Devices!Scanning, source' = source
  PROVE  InputStage(source', code', walk', answers')
<1> DEFINE E == Owed("scanning", source, code, walk)
<1>1. walk.pc = "scanning" /\ "scanning" \in Places
  BY DEF Devices!Scanning, Devices!At, Places
<1>2. /\ source \in Devices!Controllers /\ code \in Wires /\ walk \in Driver /\ answers \in Found
      /\ Facts("scanning", source, code, walk, answers) /\ Expects(code, Rest(E)) /\ walk.got = Read(source, E)
  BY <1>1, StageIs
<1>3. E = IF Keyed(source) /\ source.kbd # "stubborn" THEN <<Told("ack")>> ELSE <<>>
  BY Zenon DEF Owed
<1>4. (\A e : Left("test aux", e, walk) = <<>> /\ Left("reset", e, walk) = <<>>) /\ {"test aux", "reset"} \subseteq Steps
  BY DEF Left, Steps
<1>5. CASE Keyed(source) /\ source.kbd # "stubborn"
  <2>0. E = <<Told("ack")>> /\ source.ctl # "absent"
    BY <1>3, <1>5 DEF Keyed
  <2>1. walk.got.says = "ack" /\ Expects(code, <<>>)
    BY <1>2, <2>0, ReadOne
  <2>2. code' = code /\ walk' = [walk EXCEPT !.pc = "test aux"] /\ answers' = [answers EXCEPT !.keyboard = TRUE]
    BY <2>1 DEF Devices!Scanning, Devices!Got, Devices!HasKeyboard, Devices!Goes
  <2>3. GoesTo(walk', walk, "test aux")
    BY <1>2, <1>4, <2>2, WalksOn
  <2>4. answers' \in Found /\ answers'.keyboard = TRUE /\ answers'.pointer = answers.pointer /\ answers'.usb = answers.usb
    BY <1>2, <2>2 DEF Found
  <2>5. Facts("test aux", source, code, walk, answers')
    BY <1>2, <1>5, <2>4 DEF Facts, ControllerIs, KeyboardIs, MouseIs, First, Resetting, Pointing, Looking, Looked
  <2>. QED
    BY <1>2, <1>4, <2>1, <2>2, <2>3, <2>4, <2>5, IsAt
<1>6. CASE ~(Keyed(source) /\ source.kbd # "stubborn")
  <2>1. walk.got.says \in {"all ones", "nothing"} /\ Expects(code, <<>>)
    <3>1. E = <<>>
      BY <1>3, <1>6
    <3>. QED
      BY <1>2, <3>1, ReadSilence
  <2>2. code' = Devices!Drained(code) /\ walk' = [walk EXCEPT !.pc = "reset"] /\ answers' = answers
    BY <2>1 DEF Devices!Scanning, Devices!Got, Devices!Goes
  <2>3. GoesTo(walk', walk, "reset")
    BY <1>2, <1>4, <2>2, WalksOn
  <2>4. code' \in Wires /\ Expects(code', <<>>) /\ code'.config = code.config
    BY <1>2, <2>1, <2>2, DrainedIs
  <2>5. Facts("reset", source, code', walk, answers)
    BY <1>2, <1>6, <2>4 DEF Facts, ControllerIs, KeyboardIs, MouseIs, First, Resetting, Pointing, Looking, Looked
  <2>. QED
    BY <1>2, <1>4, <2>2, <2>3, <2>4, <2>5, IsAt
<1>. QED
  BY <1>5, <1>6

LEMMA InputResetKeyboard ==
  ASSUME InputStage(source, code, walk, answers), Devices!ResetKeyboard, source' = source
  PROVE  InputStage(source', code', walk', answers')
<1>0. walk.pc = "reset" /\ "reset" \in Steps
  BY DEF Devices!ResetKeyboard, Devices!At, Steps
<1>1. answers' = answers
      /\ IF walk.tries = 0 THEN code' = code /\ walk' = [walk EXCEPT !.pc = "test aux"]
         ELSE code' = Devices!ToKeyboard(code, "reset") /\ walk' = [walk EXCEPT !.pc = "read", !.then = "acked", !.tries = @ - 1]
  BY DEF Devices!ResetKeyboard, Devices!Goes
<1>2. /\ source \in Devices!Controllers /\ code \in Wires /\ walk \in Driver /\ answers \in Found
      /\ Facts("reset", source, code, walk, answers) /\ Expects(code, Left("reset", code, walk))
  BY <1>0, StageIs
<1>3. Expects(code, <<>>) /\ (\A e : Left("test aux", e, walk) = <<>>) /\ "test aux" \in Steps /\ "acked" \in Places
  BY <1>2 DEF Left, Steps, Places
<1>4. CASE walk.tries = 0
  <2>1. code' = code /\ GoesTo(walk', walk, "test aux")
    BY <1>1, <1>2, <1>3, <1>4, WalksOn
  <2>2. Facts("test aux", source, code, walk, answers)
    <3>1. Keyed(source) \in BOOLEAN /\ answers.keyboard \in BOOLEAN
      BY <1>2 DEF Keyed, Found
    <3>2. ~Keyed(source) /\ ~answers.keyboard
      BY <1>2, <1>4 DEF Facts, KeyboardIs, First, Resetting
    <3>3. KeyboardIs("test aux", source, code, walk, answers)
      BY <3>1, <3>2 DEF KeyboardIs, First, Resetting, Pointing, Looking, Looked
    <3>4. ControllerIs("test aux", source, code, walk)
      BY <1>2 DEF Facts, ControllerIs, First, Resetting
    <3>5. MouseIs("test aux", source, code, walk, answers)
      BY <1>2 DEF Facts, MouseIs, First, Resetting, Pointing, Looking, Looked
    <3>. QED
      BY <3>3, <3>4, <3>5 DEF Facts
  <2>. QED
    BY <1>1, <1>2, <1>3, <2>1, <2>2, IsAt
<1>5. CASE walk.tries # 0
  <2>1. walk' = [walk EXCEPT !.pc = "read", !.then = "acked", !.tries = @ - 1]
        /\ code' = Devices!ToKeyboard(code, "reset")
    BY <1>1, <1>5
  <2> DEFINE n == walk.tries - 1
  <2>2. n \in Nat /\ walk' = [walk EXCEPT !.pc = "read", !.then = "acked", !.tries = n]
    <3>1. walk.tries \in Nat
      BY <1>2 DEF Driver
    <3>. QED
      BY <1>2, <1>5, <2>1, <3>1
  <2> HIDE DEF n
  <2>3. walk' \in Driver /\ walk'.pc = "read" /\ walk'.then = "acked"
    BY <1>2, <1>3, <2>2 DEF Driver
  <2>4. Owed("acked", source, code', walk') = IF Keyed(source) THEN <<Told("ack"), Told("done")>> ELSE <<>>
    BY Zenon DEF Owed
  <2>5. ASSUME NEW e, NEW v, e.config = code.config, Keyed(source) => ~e.scanning PROVE Facts("acked", source, e, v, answers)
    BY <1>2, <2>5 DEF Facts, ControllerIs, KeyboardIs, MouseIs, First, Resetting, Pointing, Looking, Looked
  <2>6. CASE ~Keyed(source)
    <3>1. code' = code
      BY <2>1, <2>6, ToKeyboardIs
    <3>. QED
      BY <1>1, <1>2, <1>3, <2>3, <2>4, <2>5, <2>6, <3>1, Arrives
  <2>7. CASE Keyed(source)
    <3> DEFINE d == [code EXCEPT !.scanning = FALSE]
    <3>1. code' = Devices!Owes(d, "kbd", <<"ack", "done">>)
      BY <2>1, <2>7, ToKeyboardIs
    <3>2. d \in Wires /\ d.due = code.due /\ d.out = code.out /\ d.config = code.config /\ d.scanning = FALSE
      BY <1>2 DEF Wires
    <3> HIDE DEF d
    <3>3. "kbd" \in Ports /\ "ack" \in Words /\ "done" \in Words /\ "zero" \in Words
      BY DEF Ports, Words
    <3>4. Owing(d, code', "kbd", <<Told("ack"), Told("done")>>)
      BY <3>1, <3>2, <3>3, Owed2
    <3>5. <<Told("ack"), Told("done")>> \in Seq(Sayings)
      BY <3>3, SaysAre
    <3>6. Expects(code', <<Told("ack"), Told("done")>>)
      BY <1>2, <1>3, <3>2, <3>3, <3>4, <3>5, OwingExpects
    <3>7. code' \in Wires /\ code'.config = code.config /\ ~code'.scanning
      BY <3>2, <3>4 DEF Owing
    <3>. QED
      BY <1>1, <1>2, <1>3, <2>3, <2>4, <2>5, <2>7, <3>6, <3>7, Arrives
  <2>. QED
    BY <2>6, <2>7
<1>. QED
  BY <1>4, <1>5

LEMMA InputAcked ==
  ASSUME InputStage(source, code, walk, answers), Devices!Acked, source' = source
  PROVE  InputStage(source', code', walk', answers')
<1> DEFINE E == Owed("acked", source, code, walk)
<1>1. walk.pc = "acked" /\ "acked" \in Places
  BY DEF Devices!Acked, Devices!At, Places
<1>2. /\ source \in Devices!Controllers /\ code \in Wires /\ walk \in Driver /\ answers \in Found
      /\ Facts("acked", source, code, walk, answers) /\ Expects(code, Rest(E)) /\ walk.got = Read(source, E)
  BY <1>1, StageIs
<1>3. E = IF Keyed(source) THEN <<Told("ack"), Told("done")>> ELSE <<>>
  BY Zenon DEF Owed
<1>4. CASE Keyed(source)
  <2>0. E = <<Told("ack"), Told("done")>> /\ source.ctl # "absent"
    BY <1>3, <1>4 DEF Keyed
  <2>1. walk.got.says = "ack" /\ Expects(code, <<Told("done")>>)
    BY <1>2, <2>0, ReadTwo
  <2>2. code' = code /\ walk' = [walk EXCEPT !.pc = "read", !.then = "was reset"] /\ answers' = answers
    BY <2>1 DEF Devices!Acked, Devices!Got, Devices!Asks
  <2>3. "was reset" \in Places \cup {"send"}
    BY DEF Places
  <2>4. AsksAt(walk', walk, "was reset")
    BY <1>2, <2>2, <2>3, WalksOn
  <2>5. Owed("was reset", source, code, walk) = <<Told("done")>>
    BY Zenon DEF Owed
  <2>6. Facts("was reset", source, code, walk, answers)
    BY <1>2, <1>4 DEF Facts, ControllerIs, KeyboardIs, MouseIs, First, Resetting, Pointing, Looking, Looked
  <2>. QED
    BY <1>2, <2>1, <2>2, <2>3, <2>4, <2>5, <2>6, ReadsFor
<1>5. CASE ~Keyed(source)
  <2>1. walk.got.says \in {"all ones", "nothing"} /\ Expects(code, <<>>)
    <3>1. E = <<>>
      BY <1>3, <1>5
    <3>. QED
      BY <1>2, <3>1, ReadSilence
  <2>2. code' = Devices!Drained(code) /\ walk' = [walk EXCEPT !.pc = "reset"] /\ answers' = answers
    BY <2>1 DEF Devices!Acked, Devices!Got, Devices!Goes
  <2>3. "reset" \in Steps /\ \A e : Left("reset", e, walk) = <<>>
    BY DEF Left, Steps
  <2>4. GoesTo(walk', walk, "reset")
    BY <1>2, <2>2, <2>3, WalksOn
  <2>5. code' \in Wires /\ Expects(code', <<>>) /\ code'.config = code.config
    BY <1>2, <2>1, <2>2, DrainedIs
  <2>6. Facts("reset", source, code', walk, answers)
    BY <1>2, <1>5, <2>5 DEF Facts, ControllerIs, KeyboardIs, MouseIs, First, Resetting, Pointing, Looking, Looked
  <2>. QED
    BY <1>2, <2>2, <2>3, <2>4, <2>5, <2>6, IsAt
<1>. QED
  BY <1>4, <1>5

LEMMA InputWasReset ==
  ASSUME InputStage(source, code, walk, answers), Devices!WasReset, source' = source
  PROVE  InputStage(source', code', walk', answers')
<1> DEFINE E == Owed("was reset", source, code, walk)
<1>1. walk.pc = "was reset" /\ "was reset" \in Places
  BY DEF Devices!WasReset, Devices!At, Places
<1>2. /\ source \in Devices!Controllers /\ code \in Wires /\ walk \in Driver /\ answers \in Found
      /\ Facts("was reset", source, code, walk, answers) /\ Expects(code, Rest(E)) /\ walk.got = Read(source, E)
  BY <1>1, StageIs
<1>3. E = <<Told("done")>> /\ Keyed(source)
  <2>1. E = <<Told("done")>>
    BY Zenon DEF Owed
  <2>2. Keyed(source)
    BY <1>2 DEF Facts, KeyboardIs
  <2>. QED
    BY <2>1, <2>2
<1>4. walk.got.says = "done" /\ Expects(code, <<>>)
  <2>1. source.ctl # "absent"
    BY <1>3 DEF Keyed
  <2>. QED
    BY <1>2, <1>3, <2>1, ReadOne
<1>5. code' = Devices!ToKeyboard(code, "enable") /\ walk' = [walk EXCEPT !.pc = "read", !.then = "scans again"]
      /\ answers' = answers
  BY <1>4 DEF Devices!WasReset, Devices!Got, Devices!Asks
<1>6. "scans again" \in Places \cup {"send"}
  BY DEF Places
<1>7. AsksAt(walk', walk, "scans again")
  BY <1>2, <1>5, <1>6, WalksOn
<1>8. code.scanning = FALSE
  <2>1. ~code.scanning
    BY <1>2, <1>3 DEF Facts, KeyboardIs
  <2>. QED
    BY <1>2, <2>1 DEF Wires
<1> DEFINE d == [code EXCEPT !.scanning = TRUE]
<1>9. code' = Devices!Owes(d, "kbd", <<"ack">>)
  BY <1>3, <1>5, <1>8, ToKeyboardIs
<1>10. d \in Wires /\ d.due = code.due /\ d.out = code.out /\ d.config = code.config /\ d.scanning = TRUE
  BY <1>2 DEF Wires
<1> HIDE DEF d
<1>11. "kbd" \in Ports /\ "ack" \in Words /\ <<Told("ack")>> \in Seq(Sayings)
  BY SaysAre DEF Ports, Words
<1>12. Owing(d, code', "kbd", <<Told("ack")>>)
  BY <1>9, <1>10, <1>11, Owed1
<1>13. Expects(code', <<Told("ack")>>)
  BY <1>2, <1>4, <1>10, <1>11, <1>12, OwingExpects
<1>14. code' \in Wires /\ code'.config = code.config /\ code'.scanning
  BY <1>10, <1>12 DEF Owing
<1>15. Owed("scans again", source, code', walk) = <<Told("ack")>>
  BY Zenon DEF Owed
<1>16. Facts("scans again", source, code', walk, answers)
  BY <1>2, <1>3, <1>14 DEF Facts, ControllerIs, KeyboardIs, MouseIs, First, Resetting, Pointing, Looking, Looked
<1>. QED
  BY <1>2, <1>5, <1>6, <1>7, <1>13, <1>14, <1>15, <1>16, ReadsFor

LEMMA InputScansAgain ==
  ASSUME InputStage(source, code, walk, answers), Devices!ScansAgain, source' = source
  PROVE  InputStage(source', code', walk', answers')
<1> DEFINE E == Owed("scans again", source, code, walk)
<1>1. walk.pc = "scans again" /\ "scans again" \in Places
  BY DEF Devices!ScansAgain, Devices!At, Places
<1>2. /\ source \in Devices!Controllers /\ code \in Wires /\ walk \in Driver /\ answers \in Found
      /\ Facts("scans again", source, code, walk, answers) /\ Expects(code, Rest(E)) /\ walk.got = Read(source, E)
  BY <1>1, StageIs
<1>3. E = <<Told("ack")>> /\ Keyed(source)
  <2>1. E = <<Told("ack")>>
    BY Zenon DEF Owed
  <2>2. Keyed(source)
    BY <1>2 DEF Facts, KeyboardIs
  <2>. QED
    BY <2>1, <2>2
<1>4. Expects(code, <<>>)
  <2>1. source.ctl # "absent"
    BY <1>3 DEF Keyed
  <2>. QED
    BY <1>2, <1>3, <2>1, ReadOne
<1>5. code' = code /\ walk' = [walk EXCEPT !.pc = "test aux"] /\ answers' = [answers EXCEPT !.keyboard = TRUE]
  BY DEF Devices!ScansAgain, Devices!HasKeyboard, Devices!Goes
<1>6. "test aux" \in Steps /\ Left("test aux", code, walk) = <<>>
  BY DEF Steps, Left
<1>7. GoesTo(walk', walk, "test aux")
  BY <1>2, <1>5, <1>6, WalksOn
<1>8. answers' \in Found /\ answers'.keyboard = TRUE /\ answers'.pointer = answers.pointer /\ answers'.usb = answers.usb
  BY <1>2, <1>5 DEF Found
<1>9. Facts("test aux", source, code, walk, answers')
  BY <1>2, <1>3, <1>8 DEF Facts, ControllerIs, KeyboardIs, MouseIs, First, Resetting, Pointing, Looking, Looked
<1>. QED
  BY <1>2, <1>4, <1>5, <1>6, <1>7, <1>8, <1>9, IsAt

LEMMA InputTestAux ==
  ASSUME InputStage(source, code, walk, answers), Devices!TestAux, source' = source
  PROVE  InputStage(source', code', walk', answers')
<1>1. walk.pc = "test aux" /\ "test aux" \in Steps
  BY DEF Devices!TestAux, Devices!At, Steps
<1>2. /\ source \in Devices!Controllers /\ code \in Wires /\ walk \in Driver /\ answers \in Found
      /\ Facts("test aux", source, code, walk, answers) /\ Expects(code, Left("test aux", code, walk))
  BY <1>1, StageIs
<1>3. Expects(code, <<>>) /\ "aux" \in Places \cup {"send"}
  BY <1>2 DEF Left, Places
<1>4. code' = Devices!Commanded(code, "test aux") /\ walk' = [walk EXCEPT !.pc = "read", !.then = "aux"] /\ answers' = answers
  BY DEF Devices!TestAux, Devices!Asks
<1>5. AsksAt(walk', walk, "aux")
  BY <1>2, <1>3, <1>4, WalksOn
<1>6. Owed("aux", source, code', walk) = IF source.ctl # "absent" /\ source.aux THEN <<Told("zero")>> ELSE <<>>
  BY Zenon DEF Owed
<1>7. ASSUME NEW e, e.config = code.config, e.scanning = code.scanning PROVE Facts("aux", source, e, walk, answers)
  BY <1>2, <1>7 DEF Facts, ControllerIs, KeyboardIs, MouseIs, First, Resetting, Pointing, Looking, Looked
<1>8. CASE source.ctl # "absent" /\ source.aux
  <2>1. code' = Devices!Owes(code, "ctl", <<"zero">>)
    BY <1>4, <1>8, CommandIs
  <2>2. "ctl" \in Ports /\ "zero" \in Words /\ <<Told("zero")>> \in Seq(Sayings)
    BY SaysAre DEF Ports, Words
  <2>3. Owing(code, code', "ctl", <<Told("zero")>>)
    BY <1>2, <2>1, <2>2, Owed1
  <2>4. Expects(code', <<Told("zero")>>)
    BY <1>2, <1>3, <2>2, <2>3, OwingExpects
  <2>5. code' \in Wires /\ code'.config = code.config /\ code'.scanning = code.scanning
    BY <2>3 DEF Owing
  <2>. QED
    BY <1>2, <1>3, <1>4, <1>5, <1>6, <1>7, <1>8, <2>4, <2>5, ReadsFor
<1>9. CASE ~(source.ctl # "absent" /\ source.aux)
  <2>1. code' = code
    BY <1>4, <1>9, CommandIs
  <2>. QED
    BY <1>2, <1>3, <1>4, <1>5, <1>6, <1>7, <1>9, <2>1, ReadsFor
<1>. QED
  BY <1>8, <1>9

LEMMA InputAuxThere ==
  ASSUME InputStage(source, code, walk, answers), Devices!AuxThere, source' = source
  PROVE  InputStage(source', code', walk', answers')
<1> DEFINE E == Owed("aux", source, code, walk)
<1>1. walk.pc = "aux" /\ "aux" \in Places
  BY DEF Devices!AuxThere, Devices!At, Places
<1>2. /\ source \in Devices!Controllers /\ code \in Wires /\ walk \in Driver /\ answers \in Found
      /\ Facts("aux", source, code, walk, answers) /\ Expects(code, Rest(E)) /\ walk.got = Read(source, E)
  BY <1>1, StageIs
<1>3. E = IF source.ctl # "absent" /\ source.aux THEN <<Told("zero")>> ELSE <<>>
  BY Zenon DEF Owed
<1>4. Moused(source) => source.ctl # "absent" /\ source.aux
  BY <1>2 DEF Moused, Devices!Controllers
<1>5. CASE ~(source.ctl # "absent" /\ source.aux)
  <2>1. walk.got.says \in {"all ones", "nothing"} /\ Expects(code, <<>>)
    <3>1. E = <<>>
      BY <1>3, <1>5
    <3>. QED
      BY <1>2, <3>1, ReadSilence
  <2>2. code' = code /\ walk' = [walk EXCEPT !.pc = "over"] /\ answers' = answers
    BY <2>1 DEF Devices!AuxThere, Devices!Got, Devices!Goes
  <2>3. "over" \in Steps /\ Left("over", code, walk) = <<>>
    BY DEF Steps, Left
  <2>4. GoesTo(walk', walk, "over")
    BY <1>2, <2>2, <2>3, WalksOn
  <2>5. Facts("over", source, code, walk, answers)
    BY <1>2, <1>4, <1>5 DEF Facts, ControllerIs, KeyboardIs, MouseIs, First, Resetting, Pointing, Looking, Looked
  <2>. QED
    BY <1>2, <2>1, <2>2, <2>3, <2>4, <2>5, IsAt
<1>6. CASE source.ctl # "absent" /\ source.aux
  <2>1. walk.got.says = "zero" /\ Expects(code, <<>>)
    <3>1. E = <<Told("zero")>>
      BY <1>3, <1>6
    <3>. QED
      BY <1>2, <1>6, <3>1, ReadOne
  <2> DEFINE d == Devices!Commanded(code, "enable aux")
             e == Devices!ToMouse(d, "reset")
  <2>2. code' = e /\ walk' = [walk EXCEPT !.pc = "read", !.then = "aux acked"] /\ answers' = answers
    BY <2>1 DEF Devices!AuxThere, Devices!Got, Devices!Asks
  <2>3. "aux acked" \in Places \cup {"send"}
    BY DEF Places
  <2>4. AsksAt(walk', walk, "aux acked")
    BY <1>2, <2>2, <2>3, WalksOn
  <2>5. d = [code EXCEPT !.config = @ \ {"aux off"}]
    BY <1>6, CommandIs
  <2>6. d \in Wires /\ d.config = code.config \ {"aux off"} /\ d.due = code.due /\ d.out = code.out /\ d.scanning = code.scanning
    <3>1. code.config \ {"aux off"} \in SUBSET Flags
      BY <1>2 DEF Wires
    <3>. QED
      BY <1>2, <2>5, <3>1 DEF Wires
  <2>7. Owed("aux acked", source, e, walk) = IF Moused(source) THEN <<Told("ack"), Told("done"), Told("zero")>> ELSE <<>>
    BY Zenon DEF Owed
  <2>8. CASE ~Moused(source)
    <3>1. e = d
      BY <1>6, <2>8, Zenon DEF Moused, Devices!Attached, Devices!ToMouse
    <3> HIDE DEF d, e
    <3>2. Expects(e, <<>>) /\ e \in Wires /\ e.config = code.config \ {"aux off"} /\ e.scanning = code.scanning
      BY <1>2, <2>1, <2>6, <3>1, NothingAsked
    <3>3. ControllerIs("aux acked", source, e, walk) /\ KeyboardIs("aux acked", source, e, walk, answers)
      BY <1>2, <2>8, <3>2 DEF Facts, ControllerIs, KeyboardIs, MouseIs, First, Resetting, Pointing, Looking, Looked
    <3>4. MouseIs("aux acked", source, e, walk, answers)
      BY <1>2, <2>8 DEF Facts, MouseIs, First, Resetting, Pointing, Looking, Looked
    <3>5. Facts("aux acked", source, e, walk, answers)
      BY <3>3, <3>4 DEF Facts
    <3>6. Owed("aux acked", source, e, walk) = <<>>
      BY <2>7, <2>8
    <3>. QED
      BY <1>2, <2>2, <2>3, <2>4, <3>2, <3>5, <3>6, ReadsFor
  <2>9. CASE Moused(source)
    <3> DEFINE r == [d EXCEPT !.mode = "standard", !.rates = <<"", "", "">>, !.reports = FALSE]
    <3>1. e = Devices!Owes(r, "aux", <<"ack", "done", "zero">>)
      BY <2>9, ToMouseIs
    <3>2. <<"", "", "">> \in Seq(Rates) /\ "standard" \in Mice
      BY DEF Rates, Mice
    <3> HIDE DEF d, e
    <3>3. r \in Wires /\ r.due = d.due /\ r.out = d.out /\ r.config = d.config /\ r.scanning = d.scanning /\ r.mode = "standard"
          /\ r.rates = <<"", "", "">>
      BY <2>6, <3>2 DEF Wires
    <3> HIDE DEF r
    <3>4. "aux" \in Ports /\ "ack" \in Words /\ "done" \in Words /\ "zero" \in Words
      BY DEF Ports, Words
    <3>5. <<Told("ack"), Told("done"), Told("zero")>> \in Seq(Sayings)
      BY <3>4, SaysAre
    <3>6. Owing(r, e, "aux", <<Told("ack"), Told("done"), Told("zero")>>)
      BY <3>1, <3>3, <3>4, Owed3
    <3>7. r.due = code.due /\ r.out = code.out
      BY <2>6, <3>3
    <3>8. Expects(e, <<Told("ack"), Told("done"), Told("zero")>>)
      BY <1>2, <2>1, <3>3, <3>4, <3>5, <3>6, <3>7, OwingExpects
    <3>9. e \in Wires /\ e.config = code.config \ {"aux off"} /\ e.scanning = code.scanning /\ e.mode = "standard"
          /\ e.rates = <<"", "", "">>
      BY <2>6, <3>3, <3>6 DEF Owing
    <3>10. ControllerIs("aux acked", source, e, walk) /\ KeyboardIs("aux acked", source, e, walk, answers)
      BY <1>2, <3>9 DEF Facts, ControllerIs, KeyboardIs, First, Resetting, Pointing, Looking, Looked
    <3>11. MouseIs("aux acked", source, e, walk, answers)
      BY <1>2, <2>9, <3>9 DEF Facts, MouseIs, First, Resetting, Pointing, Looking, Looked
    <3>12. Facts("aux acked", source, e, walk, answers)
      BY <3>10, <3>11 DEF Facts
    <3>13. Owed("aux acked", source, e, walk) = <<Told("ack"), Told("done"), Told("zero")>>
      BY <2>7, <2>9
    <3>. QED
      BY <1>2, <2>2, <2>3, <2>4, <3>8, <3>9, <3>12, <3>13, ReadsFor
  <2>. QED
    BY <2>8, <2>9
<1>. QED
  BY <1>5, <1>6

-----------------------------------------------------------------------------
\* Short sequences, taken apart.
LEMMA Take2 ==
  ASSUME NEW S, NEW a \in S, NEW b \in S
  PROVE  LET k == <<a, b>> IN k # <<>> /\ Head(k) = a /\ Tail(k) = <<b>> /\ k \in Seq(S)
<1>1. <<a, b>> # <<>>
  OBVIOUS
<1>2. Head(<<a, b>>) = a
  OBVIOUS
<1>3. Tail(<<a, b>>) = <<b>>
  OBVIOUS
<1>4. <<a, b>> \in Seq(S)
  OBVIOUS
<1>. QED
  BY <1>1, <1>2, <1>3, <1>4

LEMMA Take3 ==
  ASSUME NEW S, NEW a \in S, NEW b \in S, NEW c \in S
  PROVE  LET k == <<a, b, c>> IN k # <<>> /\ Head(k) = a /\ Tail(k) = <<b, c>> /\ k \in Seq(S)
<1>1. <<a, b, c>> # <<>>
  OBVIOUS
<1>2. Head(<<a, b, c>>) = a
  OBVIOUS
<1>3. Tail(<<a, b, c>>) = <<b, c>>
  OBVIOUS
<1>4. <<a, b, c>> \in Seq(S)
  OBVIOUS
<1>. QED
  BY <1>1, <1>2, <1>3, <1>4

LEMMA Take4 ==
  ASSUME NEW S, NEW a \in S, NEW b \in S, NEW c \in S, NEW d \in S
  PROVE  LET k == <<a, b, c, d>> IN k # <<>> /\ Head(k) = a /\ Tail(k) = <<b, c, d>> /\ k \in Seq(S)
<1>1. <<a, b, c, d>> # <<>>
  OBVIOUS
<1>2. Head(<<a, b, c, d>>) = a
  OBVIOUS
<1>3. Tail(<<a, b, c, d>>) = <<b, c, d>>
  OBVIOUS
<1>4. <<a, b, c, d>> \in Seq(S)
  OBVIOUS
<1>. QED
  BY <1>1, <1>2, <1>3, <1>4

LEMMA Take5 ==
  ASSUME NEW S, NEW a \in S, NEW b \in S, NEW c \in S, NEW d \in S, NEW e \in S
  PROVE  LET k == <<a, b, c, d, e>> IN k # <<>> /\ Head(k) = a /\ Tail(k) = <<b, c, d, e>> /\ k \in Seq(S)
<1>1. <<a, b, c, d, e>> # <<>>
  OBVIOUS
<1>2. Head(<<a, b, c, d, e>>) = a
  OBVIOUS
<1>3. Tail(<<a, b, c, d, e>>) = <<b, c, d, e>>
  OBVIOUS
<1>4. <<a, b, c, d, e>> \in Seq(S)
  OBVIOUS
<1>. QED
  BY <1>1, <1>2, <1>3, <1>4

LEMMA Take6 ==
  ASSUME NEW S, NEW a \in S, NEW b \in S, NEW c \in S, NEW d \in S, NEW e \in S, NEW f \in S
  PROVE  LET k == <<a, b, c, d, e, f>> IN k # <<>> /\ Head(k) = a /\ Tail(k) = <<b, c, d, e, f>> /\ k \in Seq(S)
<1>1. <<a, b, c, d, e, f>> # <<>>
  OBVIOUS
<1>2. Head(<<a, b, c, d, e, f>>) = a
  OBVIOUS
<1>3. Tail(<<a, b, c, d, e, f>>) = <<b, c, d, e, f>>
  OBVIOUS
<1>4. <<a, b, c, d, e, f>> \in Seq(S)
  OBVIOUS
<1>. QED
  BY <1>1, <1>2, <1>3, <1>4

LEMMA Take7 ==
  ASSUME NEW S, NEW a \in S, NEW b \in S, NEW c \in S, NEW d \in S, NEW e \in S, NEW f \in S, NEW g \in S
  PROVE  LET k == <<a, b, c, d, e, f, g>> IN k # <<>> /\ Head(k) = a /\ Tail(k) = <<b, c, d, e, f, g>> /\ k \in Seq(S)
<1>1. <<a, b, c, d, e, f, g>> # <<>>
  OBVIOUS
<1>2. Head(<<a, b, c, d, e, f, g>>) = a
  OBVIOUS
<1>3. Tail(<<a, b, c, d, e, f, g>>) = <<b, c, d, e, f, g>>
  OBVIOUS
<1>4. <<a, b, c, d, e, f, g>> \in Seq(S)
  OBVIOUS
<1>. QED
  BY <1>1, <1>2, <1>3, <1>4

LEMMA Turn ==
  ASSUME NEW S, NEW a \in S, NEW b \in S, NEW c \in S, NEW d \in S
  PROVE  Append(Tail(<<a, b, c>>), d) = <<b, c, d>> /\ <<b, c, d>> \in Seq(S)
<1>1. Append(Tail(<<a, b, c>>), d) = <<b, c, d>>
  <2>1. Tail(<<a, b, c>>) = <<b, c>> /\ <<b, c>> \in Seq(S)
    BY Take3, Take2
  <2> DEFINE e == Append(<<b, c>>, d)
  <2>2. e \in Seq(S) /\ Len(e) = 3 /\ e[1] = b /\ e[2] = c /\ e[3] = d
    BY <2>1, AppendProperties
  <2> HIDE DEF e
  <2>3. <<b, c, d>> \in Seq(S) /\ Len(<<b, c, d>>) = 3 /\ \A i \in 1 .. 3 : e[i] = <<b, c, d>>[i]
    BY <2>2
  <2>4. e = <<b, c, d>>
    BY <2>2, <2>3, SeqEqual
  <2>. QED
    BY <2>1, <2>4 DEF e
<1>2. <<b, c, d>> \in Seq(S)
  OBVIOUS
<1>. QED
  BY <1>1, <1>2

\* A knock, taken apart.
Takes(k, x, t) == k \in Seq(Orders) /\ k # <<>> /\ Head(k) = x /\ Tail(k) = t

LEMMA OrdersTaken ==
  ASSUME NEW a \in Orders, NEW b \in Orders, NEW c \in Orders, NEW d \in Orders, NEW z \in Orders
  PROVE  /\ Takes(<<a, b, a, z, a, c, d>>, a, <<b, a, z, a, c, d>>)
         /\ Takes(<<b, a, z, a, c, d>>, b, <<a, z, a, c, d>>)
         /\ Takes(<<a, z, a, c, d>>, a, <<z, a, c, d>>)
         /\ Takes(<<z, a, c, d>>, z, <<a, c, d>>)
         /\ Takes(<<a, c, d>>, a, <<c, d>>)
         /\ Takes(<<c, d>>, c, <<d>>)
         /\ Takes(<<d>>, d, <<>>)
<1>1. Takes(<<a, b, a, z, a, c, d>>, a, <<b, a, z, a, c, d>>)
  BY Take7 DEF Takes
<1>2. Takes(<<b, a, z, a, c, d>>, b, <<a, z, a, c, d>>)
  BY Take6 DEF Takes
<1>3. Takes(<<a, z, a, c, d>>, a, <<z, a, c, d>>)
  BY Take5 DEF Takes
<1>4. Takes(<<z, a, c, d>>, z, <<a, c, d>>)
  BY Take4 DEF Takes
<1>5. Takes(<<a, c, d>>, a, <<c, d>>)
  BY Take3 DEF Takes
<1>6. Takes(<<c, d>>, c, <<d>>)
  BY Take2 DEF Takes
<1>7. Takes(<<d>>, d, <<>>)
  BY DEF Takes
<1>. QED
  BY <1>1, <1>2, <1>3, <1>4, <1>5, <1>6, <1>7

LEMMA KnockTaken ==
  ASSUME NEW z \in {"100", "200"}
  PROVE  /\ Takes(<<"set rate", "200", "set rate", z, "set rate", "80", "get id">>, "set rate",
                  <<"200", "set rate", z, "set rate", "80", "get id">>)
         /\ Takes(<<"200", "set rate", z, "set rate", "80", "get id">>, "200", <<"set rate", z, "set rate", "80", "get id">>)
         /\ Takes(<<"set rate", z, "set rate", "80", "get id">>, "set rate", <<z, "set rate", "80", "get id">>)
         /\ Takes(<<z, "set rate", "80", "get id">>, z, <<"set rate", "80", "get id">>)
         /\ Takes(<<"set rate", "80", "get id">>, "set rate", <<"80", "get id">>)
         /\ Takes(<<"80", "get id">>, "80", <<"get id">>)
         /\ Takes(<<"get id">>, "get id", <<>>)
<1> DEFINE a == "set rate"
           b == "200"
           c == "80"
           d == "get id"
<1>1. a \in Orders /\ b \in Orders /\ c \in Orders /\ d \in Orders /\ z \in Orders
  BY DEF Orders
<1> HIDE DEF a, b, c, d
<1>2. /\ Takes(<<a, b, a, z, a, c, d>>, a, <<b, a, z, a, c, d>>)
      /\ Takes(<<b, a, z, a, c, d>>, b, <<a, z, a, c, d>>)
      /\ Takes(<<a, z, a, c, d>>, a, <<z, a, c, d>>)
      /\ Takes(<<z, a, c, d>>, z, <<a, c, d>>)
      /\ Takes(<<a, c, d>>, a, <<c, d>>)
      /\ Takes(<<c, d>>, c, <<d>>)
      /\ Takes(<<d>>, d, <<>>)
  BY <1>1, OrdersTaken
<1>. QED
  BY <1>2 DEF a, b, c, d

LEMMA Join ==
  ASSUME NEW S, NEW a \in S, NEW b \in S
  PROVE  <<a>> \o <<b>> = <<a, b>>
<1> DEFINE e == <<a>> \o <<b>>
<1>1. <<a>> \in Seq(S) /\ <<b>> \in Seq(S) /\ Len(<<a>>) = 1 /\ Len(<<b>>) = 1 /\ <<a>>[1] = a /\ <<b>>[1] = b
  OBVIOUS
<1>2. e \in Seq(S) /\ Len(e) = 2 /\ e[1] = a /\ e[2] = b
  BY <1>1, ConcatProperties
<1> HIDE DEF e
<1>3. <<a, b>> \in Seq(S) /\ Len(<<a, b>>) = 2 /\ \A i \in 1 .. 2 : e[i] = <<a, b>>[i]
  BY <1>2
<1>4. e = <<a, b>>
  BY <1>2, <1>3, SeqEqual
<1>. QED
  BY <1>4 DEF e

LEMMA OverTaken ==
  /\ Head(<<"defaults", "enable">>) = "defaults" /\ Tail(<<"defaults", "enable">>) = <<"enable">>
  /\ <<"defaults", "enable">> # <<>> /\ <<"defaults", "enable">> \in Seq(Orders)
  /\ Head(<<"enable">>) = "enable" /\ Tail(<<"enable">>) = <<>>
  /\ <<>> \in Seq(Orders) /\ <<"enable">> \in Seq(Orders) /\ <<"enable">> # <<>>
<1> DEFINE x == "defaults"
           y == "enable"
<1>1. x \in Orders /\ y \in Orders
  BY DEF Orders
<1> HIDE DEF x, y
<1>2. Head(<<x, y>>) = x /\ Tail(<<x, y>>) = <<y>> /\ <<x, y>> # <<>> /\ <<x, y>> \in Seq(Orders)
  BY <1>1, Take2
<1>3. Head(<<y>>) = y /\ Tail(<<y>>) = <<>> /\ <<>> \in Seq(Orders) /\ <<y>> \in Seq(Orders) /\ <<y>> # <<>>
  BY <1>1
<1>. QED
  BY <1>2, <1>3 DEF x, y

LEMMA InputAuxAcked ==
  ASSUME InputStage(source, code, walk, answers), Devices!AuxAcked, source' = source
  PROVE  InputStage(source', code', walk', answers')
<1> DEFINE E == Owed("aux acked", source, code, walk)
<1>1. walk.pc = "aux acked" /\ "aux acked" \in Places
  BY DEF Devices!AuxAcked, Devices!At, Places
<1>2. /\ source \in Devices!Controllers /\ code \in Wires /\ walk \in Driver /\ answers \in Found
      /\ Facts("aux acked", source, code, walk, answers) /\ Expects(code, Rest(E)) /\ walk.got = Read(source, E)
  BY <1>1, StageIs
<1>3. E = IF Moused(source) THEN <<Told("ack"), Told("done"), Told("zero")>> ELSE <<>>
  BY Zenon DEF Owed
<1>4. CASE ~Moused(source)
  <2>1. walk.got.says \in {"all ones", "nothing"} /\ Expects(code, <<>>)
    <3>1. E = <<>>
      BY <1>3, <1>4
    <3>. QED
      BY <1>2, <3>1, ReadSilence
  <2>2. code' = code /\ walk' = [walk EXCEPT !.pc = "over"] /\ answers' = answers
    BY <2>1 DEF Devices!AuxAcked, Devices!Got, Devices!Goes
  <2>3. "over" \in Steps /\ Left("over", code, walk) = <<>>
    BY DEF Steps, Left
  <2>4. GoesTo(walk', walk, "over")
    BY <1>2, <2>2, <2>3, WalksOn
  <2>5. Facts("over", source, code, walk, answers)
    BY <1>2, <1>4 DEF Facts, ControllerIs, KeyboardIs, MouseIs, First, Resetting, Pointing, Looking, Looked
  <2>. QED
    BY <1>2, <2>1, <2>2, <2>3, <2>4, <2>5, IsAt
<1>5. CASE Moused(source)
  <2>1. walk.got.says = "ack" /\ Expects(code, <<Told("done"), Told("zero")>>)
    <3>1. E = <<Told("ack"), Told("done"), Told("zero")>> /\ source.ctl # "absent"
      BY <1>3, <1>5 DEF Moused
    <3> DEFINE x == Told("ack")
               y == Told("done")
               z == Told("zero")
    <3>2. x \in Sayings /\ y \in Sayings /\ z \in Sayings /\ x.says = "ack"
      BY DEF Told, Sayings, Words
    <3> HIDE DEF x, y, z
    <3>3. Rest(<<x, y, z>>) = <<y, z>> /\ Read(source, <<x, y, z>>) = x
      BY <3>1, <3>2, Take3 DEF Rest, Read
    <3>4. E = <<x, y, z>>
      BY <3>1 DEF x, y, z
    <3>5. walk.got = x /\ Expects(code, <<y, z>>)
      BY <1>2, <3>3, <3>4, Zenon
    <3>. QED
      BY <3>2, <3>5 DEF x, y, z
  <2>2. code' = code /\ walk' = [walk EXCEPT !.pc = "read", !.then = "aux reset"] /\ answers' = answers
    BY <2>1 DEF Devices!AuxAcked, Devices!Got, Devices!Asks
  <2>3. "aux reset" \in Places \cup {"send"}
    BY DEF Places
  <2>4. AsksAt(walk', walk, "aux reset")
    BY <1>2, <2>2, <2>3, WalksOn
  <2>5. Owed("aux reset", source, code, walk) = <<Told("done"), Told("zero")>>
    BY Zenon DEF Owed
  <2>6. Facts("aux reset", source, code, walk, answers)
    BY <1>2, <1>5 DEF Facts, ControllerIs, KeyboardIs, MouseIs, First, Resetting, Pointing, Looking, Looked
  <2>. QED
    BY <1>2, <2>1, <2>2, <2>3, <2>4, <2>5, <2>6, ReadsFor
<1>. QED
  BY <1>4, <1>5

LEMMA InputAuxReset ==
  ASSUME InputStage(source, code, walk, answers), Devices!AuxReset, source' = source
  PROVE  InputStage(source', code', walk', answers')
<1> DEFINE E == Owed("aux reset", source, code, walk)
<1>1. walk.pc = "aux reset" /\ "aux reset" \in Places
  BY DEF Devices!AuxReset, Devices!At, Places
<1>2. /\ source \in Devices!Controllers /\ code \in Wires /\ walk \in Driver /\ answers \in Found
      /\ Facts("aux reset", source, code, walk, answers) /\ Expects(code, Rest(E)) /\ walk.got = Read(source, E)
  BY <1>1, StageIs
<1>3. E = <<Told("done"), Told("zero")>> /\ Moused(source)
  <2>1. E = <<Told("done"), Told("zero")>>
    BY Zenon DEF Owed
  <2>2. Moused(source)
    BY <1>2 DEF Facts, MouseIs
  <2>. QED
    BY <2>1, <2>2
<1>4. walk.got.says = "done" /\ Expects(code, <<Told("zero")>>)
  <2>1. source.ctl # "absent"
    BY <1>3 DEF Moused
  <2>2. Rest(<<Told("done"), Told("zero")>>) = <<Told("zero")>> /\ Read(source, <<Told("done"), Told("zero")>>) = Told("done")
        /\ Told("done").says = "done"
    BY <2>1, ReadTwo
  <2>. QED
    BY <1>2, <1>3, <2>2, Zenon
<1>5. code' = code /\ walk' = [walk EXCEPT !.pc = "read", !.then = "knock"] /\ answers' = answers
  BY <1>4 DEF Devices!AuxReset, Devices!Got, Devices!Asks
<1>6. "knock" \in Places \cup {"send"}
  BY DEF Places
<1>7. AsksAt(walk', walk, "knock")
  BY <1>2, <1>5, <1>6, WalksOn
<1>8. Owed("knock", source, code, walk) = <<Told("zero")>>
  BY Zenon DEF Owed
<1>9. Facts("knock", source, code, walk, answers)
  BY <1>2, <1>3 DEF Facts, ControllerIs, KeyboardIs, MouseIs, First, Resetting, Pointing, Looking, Looked
<1>. QED
  BY <1>2, <1>4, <1>5, <1>6, <1>7, <1>8, <1>9, ReadsFor

LEMMA InputFirstKnock ==
  ASSUME InputStage(source, code, walk, answers), Devices!FirstKnock, source' = source
  PROVE  InputStage(source', code', walk', answers')
<1> DEFINE E == Owed("knock", source, code, walk)
<1>1. walk.pc = "knock" /\ "knock" \in Places
  BY DEF Devices!FirstKnock, Devices!At, Places
<1>2. /\ source \in Devices!Controllers /\ code \in Wires /\ walk \in Driver /\ answers \in Found
      /\ Facts("knock", source, code, walk, answers) /\ Expects(code, Rest(E)) /\ walk.got = Read(source, E)
  BY <1>1, StageIs
<1>3. Moused(source) /\ Expects(code, <<>>) /\ code.mode = "standard" /\ code.rates = <<"", "", "">> /\ answers.pointer = "none"
  <2>1. E = <<Told("zero")>>
    BY Zenon DEF Owed
  <2>2. Moused(source) /\ code.mode = "standard" /\ code.rates = <<"", "", "">> /\ answers.pointer = "none"
    BY <1>2 DEF Facts, MouseIs, Pointing
  <2>3. source.ctl # "absent"
    BY <2>2 DEF Moused
  <2>. QED
    BY <1>2, <2>1, <2>2, <2>3, ReadOne
<1> DEFINE k == <<"set rate", "200", "set rate", "100", "set rate", "80", "get id">>
<1>4. code' = code /\ walk' = [walk EXCEPT !.pc = "send", !.todo = k, !.after = "ask id"] /\ answers' = answers
  BY DEF Devices!FirstKnock, Devices!Sends, Devices!Knock
<1>5. k \in Seq(Orders) /\ k # <<>>
  BY DEF Orders
<1>6. Knocking(k, <<"", "", "">>, "standard", "100", "", "", "", "standard", Wheeled(source))
  BY DEF Knocking
<1> HIDE DEF k
<1>7. walk' \in Driver /\ walk'.pc = "send" /\ walk'.todo = k /\ walk'.after = "ask id" /\ "send" \in Steps
  BY <1>2, <1>4, <1>5 DEF Driver, Steps
<1>8. Talks(source, code, walk', answers)
  BY <1>3, <1>6, <1>7 DEF Talks
<1>9. Facts("send", source, code, walk', answers)
  BY <1>2, <1>3, <1>8 DEF Facts, ControllerIs, KeyboardIs, MouseIs, First, Resetting, Pointing, Looking, Looked
<1>10. Left("send", code, walk') = <<>>
  BY <1>5, <1>7 DEF Left
<1>. QED
  BY <1>2, <1>3, <1>4, <1>7, <1>9, <1>10, Arrives

-----------------------------------------------------------------------------
\* Three rates in a row.
LEMMA KnockedIs ==
  ASSUME NEW m, NEW r
  PROVE  /\ r # <<"200", "100", "80">> /\ r # <<"200", "200", "80">> => Devices!Knocked(m, r) = m
         /\ r = <<"200", "100", "80">> => Devices!Knocked(m, r) = IF source.mouse \in {"wheel", "five"} THEN "wheel" ELSE m
         /\ r = <<"200", "200", "80">> => Devices!Knocked(m, r) = IF source.mouse = "five" /\ m = "wheel" THEN "five" ELSE m
<1>1. r # <<"200", "100", "80">> /\ r # <<"200", "200", "80">> => Devices!Knocked(m, r) = m
  BY Zenon DEF Devices!Knocked
<1>2. <<"200", "100", "80">> # <<"200", "200", "80">>
  OBVIOUS
<1>3. r = <<"200", "100", "80">> => Devices!Knocked(m, r) = IF source.mouse \in {"wheel", "five"} THEN "wheel" ELSE m
  BY <1>2, Zenon DEF Devices!Knocked
<1>4. r = <<"200", "200", "80">> => Devices!Knocked(m, r) = IF source.mouse = "five" /\ m = "wheel" THEN "five" ELSE m
  BY <1>2, Zenon DEF Devices!Knocked
<1>. QED
  BY <1>1, <1>3, <1>4

\* What a mouse acknowledges.
LEMMA MouseAcks ==
  ASSUME NEW c \in Wires, Expects(c, <<>>), NEW d \in Wires, d.due = c.due, d.out = c.out, d.config = c.config,
         d.scanning = c.scanning, NEW e, e = Devices!Owes(d, "aux", <<"ack">>)
  PROVE  e \in Wires /\ Expects(e, <<Told("ack")>>) /\ e.config = c.config /\ e.scanning = c.scanning /\ e.rates = d.rates
         /\ e.mode = d.mode /\ e.reports = d.reports
<1>1. "aux" \in Ports /\ "ack" \in Words /\ <<Told("ack")>> \in Seq(Sayings)
  BY SaysAre DEF Ports, Words
<1>2. Owing(d, e, "aux", <<Told("ack")>>)
  BY <1>1, Owed1
<1>3. Expects(e, <<Told("ack")>>)
  BY <1>1, <1>2, OwingExpects
<1>. QED
  BY <1>2, <1>3 DEF Owing

LEMMA MouseHearsRate ==
  ASSUME NEW c \in Wires, Expects(c, <<>>), Moused(source), NEW x \in {"200", "100", "80"},
         NEW p \in Rates, NEW q \in Rates, NEW o \in Rates, c.rates = <<p, q, o>>,
         NEW m \in Mice, Devices!Knocked(c.mode, <<q, o, x>>) = m, NEW e, e = Devices!ToMouse(c, x)
  PROVE  e \in Wires /\ Expects(e, <<Told("ack")>>) /\ e.config = c.config /\ e.scanning = c.scanning
         /\ e.rates = <<q, o, x>> /\ e.mode = m
<1> DEFINE r == Append(Tail(c.rates), x)
           d == [c EXCEPT !.rates = r, !.mode = Devices!Knocked(@, r)]
<1>1. e = Devices!Owes(d, "aux", <<"ack">>)
  BY ToMouseIs
<1>2. r = <<q, o, x>> /\ x \in Rates
  <2>1. x \in Rates
    BY DEF Rates
  <2>. QED
    BY <2>1, Turn
<1>3. r \in Seq(Rates)
  <2>1. <<q, o, x>> \in Seq(Rates)
    BY <1>2, Turn
  <2>. QED
    BY <1>2, <2>1
<1> HIDE DEF r
<1>4. d = [c EXCEPT !.rates = r, !.mode = m]
  BY <1>2 DEF Wires
<1> HIDE DEF d
<1>5. d \in Wires /\ d.due = c.due /\ d.out = c.out /\ d.config = c.config /\ d.scanning = c.scanning /\ d.rates = r /\ d.mode = m
  BY <1>3, <1>4 DEF Wires
<1>. QED
  BY <1>1, <1>2, <1>5, MouseAcks

\* A knock that changes the mouse from before to after, and only when it is complete.
Knocks(last, p, q, o, before, after) ==
  /\ last \in {"100", "200"} /\ {p, q, o} \subseteq Rates /\ {before, after} \subseteq Mice
  /\ Devices!Knocked(before, <<q, o, "200">>) = before /\ Devices!Knocked(before, <<o, "200", last>>) = before
  /\ Devices!Knocked(before, <<"200", last, "80">>) = after

\* Once more of a knock is said.
LEMMA KnockGoes ==
  ASSUME NEW c \in Wires, Expects(c, <<>>), Moused(source), NEW k, k # <<>>,
         NEW last, NEW p, NEW q, NEW o, NEW before, NEW after, Knocks(last, p, q, o, before, after),
         Knocking(k, c.rates, c.mode, last, p, q, o, before, after), NEW e, e = Devices!ToMouse(c, Head(k))
  PROVE  /\ e \in Wires /\ e.config = c.config /\ e.scanning = c.scanning
         /\ Tail(k) \in Seq(Orders) /\ Knocking(Tail(k), e.rates, e.mode, last, p, q, o, before, after)
         /\ Expects(e, IF Tail(k) = <<>> THEN <<Told("ack"), Id(e.mode)>> ELSE <<Told("ack")>>)
<1>12. /\ last \in {"100", "200"} /\ p \in Rates /\ q \in Rates /\ o \in Rates /\ before \in Mice /\ after \in Mice
       /\ Devices!Knocked(before, <<q, o, "200">>) = before /\ Devices!Knocked(before, <<o, "200", last>>) = before
       /\ Devices!Knocked(before, <<"200", last, "80">>) = after
  BY DEF Knocks
<1>1. ASSUME Head(k) = "set rate", NEW t \in Seq(Orders), t = Tail(k), t # <<>>,
             Knocking(t, c.rates, c.mode, last, p, q, o, before, after)
      PROVE  /\ e \in Wires /\ e.config = c.config /\ e.scanning = c.scanning
             /\ t \in Seq(Orders) /\ Knocking(t, e.rates, e.mode, last, p, q, o, before, after)
             /\ Expects(e, IF t = <<>> THEN <<Told("ack"), Id(e.mode)>> ELSE <<Told("ack")>>)
  <2>1. e = Devices!Owes(c, "aux", <<"ack">>)
    BY <1>1, ToMouseIs
  <2>2. e \in Wires /\ Expects(e, <<Told("ack")>>) /\ e.config = c.config /\ e.scanning = c.scanning /\ e.rates = c.rates
        /\ e.mode = c.mode
    BY <2>1, MouseAcks
  <2>. QED
    BY <1>1, <2>2
<1>2. ASSUME NEW x \in {"200", "100", "80"}, Head(k) = x, NEW u \in Rates, NEW v \in Rates, NEW w \in Rates, c.rates = <<u, v, w>>,
             NEW m \in Mice, Devices!Knocked(c.mode, <<v, w, x>>) = m, NEW t \in Seq(Orders), t = Tail(k), t # <<>>,
             Knocking(t, <<v, w, x>>, m, last, p, q, o, before, after)
      PROVE  /\ e \in Wires /\ e.config = c.config /\ e.scanning = c.scanning
             /\ t \in Seq(Orders) /\ Knocking(t, e.rates, e.mode, last, p, q, o, before, after)
             /\ Expects(e, IF t = <<>> THEN <<Told("ack"), Id(e.mode)>> ELSE <<Told("ack")>>)
  <2>1. e = Devices!ToMouse(c, x)
    BY <1>2
  <2>2. e \in Wires /\ Expects(e, <<Told("ack")>>) /\ e.config = c.config /\ e.scanning = c.scanning
        /\ e.rates = <<v, w, x>> /\ e.mode = m
    BY <1>2, <2>1, MouseHearsRate
  <2>. QED
    BY <1>2, <2>2
<1>3. last \in Orders /\ last \in {"200", "100", "80"} /\ last \in Rates /\ "set rate" \in Orders /\ "200" \in Orders /\ "80" \in Orders
      /\ "get id" \in Orders
      /\ {"200", "80"} \subseteq Rates
  BY <1>12 DEF Orders, Rates
<1>11. /\ Takes(<<"set rate", "200", "set rate", last, "set rate", "80", "get id">>, "set rate",
                <<"200", "set rate", last, "set rate", "80", "get id">>)
       /\ Takes(<<"200", "set rate", last, "set rate", "80", "get id">>, "200", <<"set rate", last, "set rate", "80", "get id">>)
       /\ Takes(<<"set rate", last, "set rate", "80", "get id">>, "set rate", <<last, "set rate", "80", "get id">>)
       /\ Takes(<<last, "set rate", "80", "get id">>, last, <<"set rate", "80", "get id">>)
       /\ Takes(<<"set rate", "80", "get id">>, "set rate", <<"80", "get id">>)
       /\ Takes(<<"80", "get id">>, "80", <<"get id">>)
       /\ Takes(<<"get id">>, "get id", <<>>)
  BY <1>12, KnockTaken
<1>4. CASE k = <<"set rate", "200", "set rate", last, "set rate", "80", "get id">> /\ c.rates = <<p, q, o>> /\ c.mode = before
  <2> DEFINE t == <<"200", "set rate", last, "set rate", "80", "get id">>
  <2>1. Head(k) = "set rate" /\ Tail(k) = t /\ t \in Seq(Orders) /\ t # <<>>
    BY <1>4, <1>11 DEF Takes
  <2>2. Knocking(t, c.rates, c.mode, last, p, q, o, before, after)
    BY <1>4 DEF Knocking
  <2> HIDE DEF t
  <2>. QED
    BY <1>1, <2>1, <2>2
<1>5. CASE k = <<"200", "set rate", last, "set rate", "80", "get id">> /\ c.rates = <<p, q, o>> /\ c.mode = before
  <2> DEFINE t == <<"set rate", last, "set rate", "80", "get id">>
  <2>1. Head(k) = "200" /\ Tail(k) = t /\ t \in Seq(Orders) /\ t # <<>>
    BY <1>5, <1>11 DEF Takes
  <2>2. Knocking(t, <<q, o, "200">>, before, last, p, q, o, before, after)
    BY DEF Knocking
  <2> HIDE DEF t
  <2>3. Devices!Knocked(c.mode, <<q, o, "200">>) = before
    BY <1>5, <1>12
  <2>. QED
    BY <1>2, <1>5, <1>12, <2>1, <2>2, <2>3
<1>6. CASE k = <<"set rate", last, "set rate", "80", "get id">> /\ c.rates = <<q, o, "200">> /\ c.mode = before
  <2> DEFINE t == <<last, "set rate", "80", "get id">>
  <2>1. Head(k) = "set rate" /\ Tail(k) = t /\ t \in Seq(Orders) /\ t # <<>>
    BY <1>6, <1>11 DEF Takes
  <2>2. Knocking(t, c.rates, c.mode, last, p, q, o, before, after)
    BY <1>6 DEF Knocking
  <2> HIDE DEF t
  <2>. QED
    BY <1>1, <2>1, <2>2
<1>7. CASE k = <<last, "set rate", "80", "get id">> /\ c.rates = <<q, o, "200">> /\ c.mode = before
  <2> DEFINE t == <<"set rate", "80", "get id">>
  <2>1. Head(k) = last /\ Tail(k) = t /\ t \in Seq(Orders) /\ t # <<>>
    BY <1>7, <1>11 DEF Takes
  <2>2. Knocking(t, <<o, "200", last>>, before, last, p, q, o, before, after)
    BY DEF Knocking
  <2> HIDE DEF t
  <2>3. Devices!Knocked(c.mode, <<o, "200", last>>) = before
    BY <1>7, <1>12
  <2>. QED
    BY <1>2, <1>3, <1>7, <1>12, <2>1, <2>2, <2>3
<1>8. CASE k = <<"set rate", "80", "get id">> /\ c.rates = <<o, "200", last>> /\ c.mode = before
  <2> DEFINE t == <<"80", "get id">>
  <2>1. Head(k) = "set rate" /\ Tail(k) = t /\ t \in Seq(Orders) /\ t # <<>>
    BY <1>8, <1>11 DEF Takes
  <2>2. Knocking(t, c.rates, c.mode, last, p, q, o, before, after)
    BY <1>8 DEF Knocking
  <2> HIDE DEF t
  <2>. QED
    BY <1>1, <2>1, <2>2
<1>9. CASE k = <<"80", "get id">> /\ c.rates = <<o, "200", last>> /\ c.mode = before
  <2> DEFINE t == <<"get id">>
  <2>1. Head(k) = "80" /\ Tail(k) = t /\ t \in Seq(Orders) /\ t # <<>>
    BY <1>9, <1>11 DEF Takes
  <2>2. Knocking(t, <<"200", last, "80">>, after, last, p, q, o, before, after)
    BY DEF Knocking
  <2> HIDE DEF t
  <2>3. Devices!Knocked(c.mode, <<"200", last, "80">>) = after
    BY <1>9, <1>12
  <2>. QED
    BY <1>2, <1>3, <1>9, <1>12, <2>1, <2>2, <2>3
<1>10. CASE k = <<"get id">> /\ c.rates = <<"200", last, "80">> /\ c.mode = after
  <2>1. Head(k) = "get id" /\ Tail(k) = <<>>
    BY <1>10, <1>11 DEF Takes
  <2>2. e = Devices!Owes(c, "aux", <<"ack", Devices!KindOf(c.mode)>>)
    BY <2>1, ToMouseIs
  <2>3. Told(Devices!KindOf(c.mode)) = Id(c.mode) /\ Devices!KindOf(c.mode) \in Words
    BY KindIs DEF Wires, Mice
  <2>4. "aux" \in Ports /\ "ack" \in Words
    BY DEF Ports, Words
  <2> DEFINE w == Devices!KindOf(c.mode)
  <2> HIDE DEF w
  <2>5. Owing(c, e, "aux", <<Told("ack"), Told(w)>>) /\ <<Told("ack"), Told(w)>> \in Seq(Sayings)
    <3>1. w \in Words /\ e = Devices!Owes(c, "aux", <<"ack", w>>)
      BY <2>2, <2>3 DEF w
    <3>. QED
      BY <2>4, <3>1, Owed2, SaysAre
  <2>6. Expects(e, <<Told("ack"), Told(w)>>)
    BY <2>4, <2>5, OwingExpects
  <2>7. e \in Wires /\ e.config = c.config /\ e.scanning = c.scanning /\ e.rates = c.rates /\ e.mode = c.mode
    BY <2>5 DEF Owing
  <2>8. Told(w) = Id(e.mode)
    BY <2>3, <2>7 DEF w
  <2>9. <<>> \in Seq(Orders)
    OBVIOUS
  <2>10. Knocking(<<>>, e.rates, e.mode, last, p, q, o, before, after)
    BY <1>10, <2>7 DEF Knocking
  <2>. QED
    BY <2>1, <2>6, <2>7, <2>8, <2>9, <2>10
<1>. QED
  BY <1>4, <1>5, <1>6, <1>7, <1>8, <1>9, <1>10 DEF Knocking

\* A mouse that is told one more of what it was to be told.
LEMMA SendReads ==
  ASSUME NEW s \in Devices!Controllers, NEW c, NEW w \in Driver, NEW a \in Found, Facts("send", s, c, w, a), w.todo # <<>>,
         NEW e \in Wires, e.config = c.config, e.scanning = c.scanning, Tail(w.todo) \in Seq(Orders),
         NEW v, v = [w EXCEPT !.pc = "read", !.then = "send", !.todo = Tail(@)], Talks(s, e, v, a),
         Expects(e, IF v.todo = <<>> /\ v.after # "over" THEN <<Told("ack"), Id(e.mode)>> ELSE <<Told("ack")>>)
  PROVE  InputStage(s, e, v, a)
<1>1. v \in Driver /\ v.pc = "read" /\ v.then = "send" /\ v.byte = w.byte /\ v.tries = w.tries
  BY DEF Driver
<1>2. Facts("send", s, e, v, a)
  BY <1>1 DEF Facts, ControllerIs, KeyboardIs, MouseIs, First, Resetting, Pointing, Looking, Looked
<1>3. Owed("send", s, e, v) = <<Told("ack")>> \o Left("send", e, v)
  BY Zenon DEF Owed
<1>4. Left("send", e, v) = IF v.todo = <<>> /\ v.after # "over" THEN <<Id(e.mode)>> ELSE <<>>
  BY DEF Left
<1>5. Owed("send", s, e, v) = IF v.todo = <<>> /\ v.after # "over" THEN <<Told("ack"), Id(e.mode)>> ELSE <<Told("ack")>>
  <2> DEFINE x == Told("ack")
             y == Id(e.mode)
  <2>1. x \in Sayings /\ y \in Sayings
    BY DEF Told, Id, Sayings, Words
  <2> HIDE DEF x, y
  <2>2. <<x>> \o <<y>> = <<x, y>>
    BY <2>1, Join
  <2>3. <<x>> \in Seq(Sayings)
    BY <2>1
  <2>4. <<x>> \o <<>> = <<x>>
    BY <2>3, ConcatEmptySeq
  <2>. QED
    BY <1>3, <1>4, <2>2, <2>4 DEF x, y
<1>. QED
  BY <1>1, <1>2, <1>5, Arrives DEF Places

\* Nothing is told any more, or there is more of it.
LEMMA KnockEnds ==
  ASSUME NEW k, k = <<>>, NEW r, NEW m, NEW last, NEW p, NEW q, NEW o, NEW before, NEW after, Knocks(last, p, q, o, before, after),
         Knocking(k, r, m, last, p, q, o, before, after)
  PROVE  r = <<"200", last, "80">> /\ m = after
BY KnockTaken DEF Knocking, Knocks, Takes

LEMMA FirstKnocked ==
  ASSUME source.mouse \in Mice
  PROVE  Knocks("100", "", "", "", "standard", Wheeled(source))
<1>1. /\ <<"", "", "200">> # <<"200", "100", "80">> /\ <<"", "", "200">> # <<"200", "200", "80">>
      /\ <<"", "200", "100">> # <<"200", "100", "80">> /\ <<"", "200", "100">> # <<"200", "200", "80">>
  OBVIOUS
<1>2. Devices!Knocked("standard", <<"", "", "200">>) = "standard"
  BY <1>1, KnockedIs, Zenon
<1>3. Devices!Knocked("standard", <<"", "200", "100">>) = "standard"
  BY <1>1, KnockedIs, Zenon
<1>4. Devices!Knocked("standard", <<"200", "100", "80">>) = Wheeled(source)
  BY KnockedIs, Zenon DEF Wheeled
<1>. QED
  BY <1>2, <1>3, <1>4 DEF Wheeled, Mice, Rates, Knocks

LEMMA SecondKnocked ==
  ASSUME source.mouse \in {"wheel", "five"}
  PROVE  Knocks("200", "200", "100", "80", "wheel", source.mouse)
<1>1. /\ <<"100", "80", "200">> # <<"200", "100", "80">> /\ <<"100", "80", "200">> # <<"200", "200", "80">>
      /\ <<"80", "200", "200">> # <<"200", "100", "80">> /\ <<"80", "200", "200">> # <<"200", "200", "80">>
  OBVIOUS
<1>2. Devices!Knocked("wheel", <<"100", "80", "200">>) = "wheel"
  BY <1>1, KnockedIs, Zenon
<1>3. Devices!Knocked("wheel", <<"80", "200", "200">>) = "wheel"
  BY <1>1, KnockedIs, Zenon
<1>4. Devices!Knocked("wheel", <<"200", "200", "80">>) = IF source.mouse = "five" THEN "five" ELSE "wheel"
  BY KnockedIs, Zenon
<1>. QED
  BY <1>2, <1>3, <1>4 DEF Mice, Rates, Knocks

LEMMA InputSend ==
  ASSUME InputStage(source, code, walk, answers), Devices!Send, source' = source
  PROVE  InputStage(source', code', walk', answers')
<1>1. walk.pc = "send" /\ "send" \in Steps /\ answers' = answers
  BY DEF Devices!Send, Devices!At, Steps
<1>2. /\ source \in Devices!Controllers /\ code \in Wires /\ walk \in Driver /\ answers \in Found
      /\ Facts("send", source, code, walk, answers) /\ Expects(code, Left("send", code, walk))
  BY <1>1, StageIs
<1>3. Moused(source) /\ Talks(source, code, walk, answers) /\ source.mouse \in Mice /\ walk.after \in {"ask id", "ask id again", "over"}
  BY <1>2 DEF Facts, MouseIs, Talks, Devices!Controllers, Moused, Mice
<1>4. CASE walk.todo = <<>>
  <2>1. code' = code /\ walk' = [walk EXCEPT !.pc = walk.after]
    BY <1>4 DEF Devices!Send, Devices!Goes
  <2>2. CASE walk.after = "ask id"
    <3>1. "ask id" \in Steps /\ GoesTo(walk', walk, "ask id")
      BY <1>2, <2>1, <2>2, WalksOn DEF Steps
    <3>2. Left("ask id", code, walk) = Left("send", code, walk)
      BY <1>4, <2>2 DEF Left
    <3>3. Knocking(walk.todo, code.rates, code.mode, "100", "", "", "", "standard", Wheeled(source)) /\ answers.pointer = "none"
      BY <1>3, <1>4, <2>2 DEF Talks
    <3>4. code.rates = <<"200", "100", "80">> /\ code.mode = Wheeled(source)
      <4>1. Knocks("100", "", "", "", "standard", Wheeled(source))
        BY <1>3, <3>3, FirstKnocked
      <4> DEFINE y == Wheeled(source)
                 x == walk.todo
      <4> HIDE DEF x, y
      <4>2. /\ x = <<>> /\ Knocking(x, code.rates, code.mode, "100", "", "", "", "standard", y)
            /\ Knocks("100", "", "", "", "standard", y)
        BY <1>4, <3>3, <4>1 DEF x, y
      <4>3. code.rates = <<"200", "100", "80">> /\ code.mode = y
        BY <4>2, KnockEnds
      <4>. QED
        BY <4>3 DEF y
    <3>5. Facts("ask id", source, code, walk, answers)
      BY <1>2, <1>3, <3>3, <3>4 DEF Facts, ControllerIs, KeyboardIs, MouseIs, First, Resetting, Pointing, Looking, Looked
    <3>. QED
      BY <1>1, <1>2, <2>1, <3>1, <3>2, <3>5, IsAt
  <2>3. CASE walk.after = "ask id again"
    <3>1. "ask id again" \in Steps /\ GoesTo(walk', walk, "ask id again")
      BY <1>2, <2>1, <2>3, WalksOn DEF Steps
    <3>2. Left("ask id again", code, walk) = Left("send", code, walk)
      BY <1>4, <2>3 DEF Left
    <3>3. /\ Knocking(walk.todo, code.rates, code.mode, "200", "200", "100", "80", "wheel", source.mouse) /\ answers.pointer = "none"
          /\ source.mouse \in {"wheel", "five"}
      BY <1>3, <1>4, <2>3 DEF Talks
    <3>4. code.mode = source.mouse
      <4>1. Knocks("200", "200", "100", "80", "wheel", source.mouse)
        BY <1>3, <3>3, SecondKnocked
      <4>. QED
        BY <1>4, <3>3, <4>1, KnockEnds
    <3>5. Facts("ask id again", source, code, walk, answers)
      BY <1>2, <1>3, <3>3, <3>4 DEF Facts, ControllerIs, KeyboardIs, MouseIs, First, Resetting, Pointing, Looking, Looked
    <3>. QED
      BY <1>1, <1>2, <2>1, <3>1, <3>2, <3>5, IsAt
  <2>4. CASE walk.after = "over"
    <3>1. "over" \in Steps /\ GoesTo(walk', walk, "over")
      BY <1>2, <2>1, <2>4, WalksOn DEF Steps
    <3>2. Left("over", code, walk) = Left("send", code, walk)
      BY <1>4, <2>4 DEF Left
    <3>3. answers.pointer = source.mouse /\ code.mode = source.mouse /\ code.reports
      BY <1>3, <1>4, <2>4 DEF Talks
    <3>4. Facts("over", source, code, walk, answers)
      BY <1>2, <1>3, <3>3 DEF Facts, ControllerIs, KeyboardIs, MouseIs, First, Resetting, Pointing, Looking, Looked
    <3>. QED
      BY <1>1, <1>2, <2>1, <3>1, <3>2, <3>4, IsAt
  <2>. QED
    BY <1>3, <2>2, <2>3, <2>4
<1>5. CASE walk.todo # <<>>
  <2>1. code' = Devices!ToMouse(code, Head(walk.todo)) /\ walk' = [walk EXCEPT !.pc = "read", !.then = "send", !.todo = Tail(@)]
    BY <1>5 DEF Devices!Send
  <2>2. Expects(code, <<>>)
    <3>1. Left("send", code, walk) = <<>>
      BY <1>5 DEF Left
    <3>. QED
      BY <1>2, <3>1
  <2> DEFINE k == walk.todo
  <2>3. walk'.todo = Tail(k) /\ walk'.after = walk.after
    BY <1>2, <2>1 DEF Driver
  <2>4. CASE walk.after = "ask id"
    <3>1. Knocking(k, code.rates, code.mode, "100", "", "", "", "standard", Wheeled(source)) /\ answers.pointer = "none"
      BY <1>3, <2>4 DEF Talks
    <3>3. /\ code' \in Wires /\ code'.config = code.config /\ code'.scanning = code.scanning /\ Tail(k) \in Seq(Orders)
          /\ Knocking(Tail(k), code'.rates, code'.mode, "100", "", "", "", "standard", Wheeled(source))
          /\ Expects(code', IF Tail(k) = <<>> THEN <<Told("ack"), Id(code'.mode)>> ELSE <<Told("ack")>>)
      BY <1>2, <1>3, <1>5, <2>1, <2>2, <3>1, FirstKnocked, KnockGoes
    <3>4. Talks(source, code', walk', answers)
      BY <1>3, <2>3, <2>4, <3>1, <3>3 DEF Talks
    <3>. QED
      BY <1>1, <1>2, <1>5, <2>1, <2>3, <2>4, <3>3, <3>4, SendReads
  <2>5. CASE walk.after = "ask id again"
    <3>1. /\ Knocking(k, code.rates, code.mode, "200", "200", "100", "80", "wheel", source.mouse) /\ answers.pointer = "none"
          /\ source.mouse \in {"wheel", "five"}
      BY <1>3, <2>5 DEF Talks
    <3>3. /\ code' \in Wires /\ code'.config = code.config /\ code'.scanning = code.scanning /\ Tail(k) \in Seq(Orders)
          /\ Knocking(Tail(k), code'.rates, code'.mode, "200", "200", "100", "80", "wheel", source.mouse)
          /\ Expects(code', IF Tail(k) = <<>> THEN <<Told("ack"), Id(code'.mode)>> ELSE <<Told("ack")>>)
      BY <1>2, <1>3, <1>5, <2>1, <2>2, <3>1, SecondKnocked, KnockGoes
    <3>4. Talks(source, code', walk', answers)
      BY <1>3, <2>3, <2>5, <3>1, <3>3 DEF Talks
    <3>. QED
      BY <1>1, <1>2, <1>5, <2>1, <2>3, <2>5, <3>3, <3>4, SendReads
  <2>6. CASE walk.after = "over"
    <3>1. k \in {<<"defaults", "enable">>, <<"enable">>} /\ answers.pointer = source.mouse /\ code.mode = source.mouse
      BY <1>3, <1>5, <2>6 DEF Talks
    <3>2. /\ Head(<<"defaults", "enable">>) = "defaults" /\ Tail(<<"defaults", "enable">>) = <<"enable">>
          /\ Head(<<"enable">>) = "enable" /\ Tail(<<"enable">>) = <<>>
          /\ <<>> \in Seq(Orders) /\ <<"enable">> \in Seq(Orders) /\ <<"enable">> # <<>>
      BY OverTaken
    <3>3. CASE k = <<"defaults", "enable">>
      <4>1. code' = Devices!Owes(code, "aux", <<"ack">>)
        <5>1. Head(k) = "defaults" /\ "defaults" \in {"set rate", "defaults"}
          BY <3>2, <3>3
        <5>. QED
          BY <1>3, <2>1, <5>1, ToMouseIs, Zenon
      <4>2. code' \in Wires /\ Expects(code', <<Told("ack")>>) /\ code'.config = code.config /\ code'.scanning = code.scanning
            /\ code'.mode = code.mode
        BY <1>2, <2>2, <4>1, MouseAcks
      <4>3. Tail(k) = <<"enable">> /\ Tail(k) \in Seq(Orders) /\ Tail(k) # <<>>
        BY <3>2, <3>3
      <4>4. Talks(source, code', walk', answers)
        BY <1>3, <2>3, <2>6, <3>1, <4>2, <4>3 DEF Talks
      <4>. QED
        BY <1>1, <1>2, <1>5, <2>1, <2>3, <2>6, <4>2, <4>3, <4>4, SendReads
    <3>4. CASE k = <<"enable">>
      <4> DEFINE d == [code EXCEPT !.reports = TRUE]
      <4>1. code' = Devices!Owes(d, "aux", <<"ack">>)
        BY <1>3, <2>1, <3>2, <3>4, ToMouseIs
      <4>2. d \in Wires /\ d.due = code.due /\ d.out = code.out /\ d.config = code.config /\ d.scanning = code.scanning
            /\ d.mode = code.mode /\ d.reports
        BY <1>2 DEF Wires
      <4> HIDE DEF d
      <4>3. code' \in Wires /\ Expects(code', <<Told("ack")>>) /\ code'.config = code.config /\ code'.scanning = code.scanning
            /\ code'.mode = code.mode /\ code'.reports
        BY <1>2, <2>2, <4>1, <4>2, MouseAcks
      <4>4. Tail(k) = <<>> /\ Tail(k) \in Seq(Orders)
        BY <3>2, <3>4
      <4>5. Talks(source, code', walk', answers)
        BY <1>3, <2>3, <2>6, <3>1, <4>3, <4>4 DEF Talks
      <4>. QED
        BY <1>1, <1>2, <1>5, <2>1, <2>3, <2>6, <4>3, <4>4, <4>5, SendReads
    <3>. QED
      BY <3>1, <3>3, <3>4
  <2>. QED
    BY <1>3, <2>4, <2>5, <2>6
<1>. QED
  BY <1>4, <1>5

-----------------------------------------------------------------------------
LEMMA InputAskId ==
  ASSUME InputStage(source, code, walk, answers), Devices!AskId, source' = source
  PROVE  InputStage(source', code', walk', answers')
<1>1. walk.pc = "ask id" /\ "ask id" \in Steps
  BY DEF Devices!AskId, Devices!At, Steps
<1>2. /\ source \in Devices!Controllers /\ code \in Wires /\ walk \in Driver /\ answers \in Found
      /\ Facts("ask id", source, code, walk, answers) /\ Expects(code, Left("ask id", code, walk))
  BY <1>1, StageIs
<1>3. code' = code /\ walk' = [walk EXCEPT !.pc = "read", !.then = "id"] /\ answers' = answers
  BY DEF Devices!AskId, Devices!Asks
<1>4. "id" \in Places \cup {"send"}
  BY DEF Places
<1>5. AsksAt(walk', walk, "id")
  BY <1>2, <1>3, <1>4, WalksOn
<1>6. Owed("id", source, code, walk) = <<Id(code.mode)>>
  BY Zenon DEF Owed
<1>7. Left("ask id", code, walk) = <<Id(code.mode)>>
  BY DEF Left
<1>8. Facts("id", source, code, walk, answers)
  BY <1>2 DEF Facts, ControllerIs, KeyboardIs, MouseIs, First, Resetting, Pointing, Looking, Looked
<1>. QED
  BY <1>2, <1>3, <1>4, <1>5, <1>6, <1>7, <1>8, ReadsFor

LEMMA InputAskIdAgain ==
  ASSUME InputStage(source, code, walk, answers), Devices!AskIdAgain, source' = source
  PROVE  InputStage(source', code', walk', answers')
<1>1. walk.pc = "ask id again" /\ "ask id again" \in Steps
  BY DEF Devices!AskIdAgain, Devices!At, Steps
<1>2. /\ source \in Devices!Controllers /\ code \in Wires /\ walk \in Driver /\ answers \in Found
      /\ Facts("ask id again", source, code, walk, answers) /\ Expects(code, Left("ask id again", code, walk))
  BY <1>1, StageIs
<1>3. code' = code /\ walk' = [walk EXCEPT !.pc = "read", !.then = "id again"] /\ answers' = answers
  BY DEF Devices!AskIdAgain, Devices!Asks
<1>4. "id again" \in Places \cup {"send"}
  BY DEF Places
<1>5. AsksAt(walk', walk, "id again")
  BY <1>2, <1>3, <1>4, WalksOn
<1>6. Owed("id again", source, code, walk) = <<Id(code.mode)>>
  BY Zenon DEF Owed
<1>7. Left("ask id again", code, walk) = <<Id(code.mode)>>
  BY DEF Left
<1>8. Facts("id again", source, code, walk, answers)
  BY <1>2 DEF Facts, ControllerIs, KeyboardIs, MouseIs, First, Resetting, Pointing, Looking, Looked
<1>. QED
  BY <1>2, <1>3, <1>4, <1>5, <1>6, <1>7, <1>8, ReadsFor

\* The mouse's kind is its id.
LEMMA IdIs ==
  ASSUME NEW s, s.ctl # "absent", NEW m \in Mice
  PROVE  /\ Rest(<<Id(m)>>) = <<>> /\ Read(s, <<Id(m)>>) = Id(m)
         /\ (Id(m).says = "three") = (m = "wheel") /\ (Id(m).says = "four") = (m = "five")
<1>1. Rest(<<Id(m)>>) = <<>> /\ Read(s, <<Id(m)>>) = Id(m)
  <2> DEFINE x == Id(m)
  <2> HIDE DEF x
  <2>1. Rest(<<x>>) = <<>> /\ Read(s, <<x>>) = x
    BY Answered
  <2>. QED
    BY <2>1 DEF x
<1>2. (Id(m).says = "three") = (m = "wheel") /\ (Id(m).says = "four") = (m = "five")
  BY DEF Id, Told, Mice
<1>. QED
  BY <1>1, <1>2

\* What it is told at last.
LEMMA InputPointerIs ==
  ASSUME source \in Devices!Controllers, code \in Wires, walk \in Driver, answers \in Found, Moused(source), Expects(code, <<>>),
         NEW p \in {"id", "id again"}, Facts(p, source, code, walk, answers), code.mode = source.mouse,
         Devices!HasPointer(source.mouse), source' = source
  PROVE  InputStage(source', code', walk', answers')
<1>1. /\ code' = code /\ walk' = [walk EXCEPT !.pc = "send", !.todo = <<"defaults", "enable">>, !.after = "over"]
      /\ answers' = [answers EXCEPT !.pointer = source.mouse]
  BY DEF Devices!HasPointer, Devices!Sends
<1> DEFINE k == <<"defaults", "enable">>
<1>2. k \in Seq(Orders) /\ k # <<>>
  BY OverTaken
<1>3. walk'.todo = k /\ walk'.after = "over" /\ walk'.pc = "send" /\ walk'.byte = walk.byte /\ walk'.tries = walk.tries
  BY <1>1 DEF Driver
<1>4. walk' \in Driver /\ "send" \in Steps
  <2> HIDE DEF k
  <2>1. walk' = [walk EXCEPT !.pc = "send", !.todo = k, !.after = "over"]
    BY <1>1 DEF k
  <2>. QED
    BY <1>2, <2>1 DEF Driver, Steps
<1>5. source.mouse \in Mice
  BY DEF Devices!Controllers, Moused, Mice
<1>6. answers' \in Found /\ answers'.pointer = source.mouse /\ answers'.keyboard = answers.keyboard /\ answers'.usb = answers.usb
  BY <1>1, <1>5 DEF Found
<1>7. Talks(source, code, walk', answers')
  BY <1>2, <1>3, <1>6 DEF Talks
<1>8. Left("send", code, walk') = <<>>
  BY <1>2, <1>3 DEF Left
<1>9. Facts("send", source, code, walk', answers')
  BY <1>3, <1>6, <1>7 DEF Facts, ControllerIs, KeyboardIs, MouseIs, First, Resetting, Pointing, Looking, Looked
<1>. QED
  BY <1>1, <1>3, <1>4, <1>6, <1>8, <1>9, Arrives

LEMMA InputId ==
  ASSUME InputStage(source, code, walk, answers), Devices!Id, source' = source
  PROVE  InputStage(source', code', walk', answers')
<1> DEFINE E == Owed("id", source, code, walk)
<1>1. walk.pc = "id" /\ "id" \in Places
  BY DEF Devices!Id, Devices!At, Places
<1>2. /\ source \in Devices!Controllers /\ code \in Wires /\ walk \in Driver /\ answers \in Found
      /\ Facts("id", source, code, walk, answers) /\ Expects(code, Rest(E)) /\ walk.got = Read(source, E)
  BY <1>1, StageIs
<1>3. Moused(source) /\ code.mode = Wheeled(source) /\ code.rates = <<"200", "100", "80">> /\ answers.pointer = "none"
      /\ code.mode \in Mice /\ source.mouse \in Mice
  BY <1>2 DEF Facts, MouseIs, Pointing, Wires, Mice, Moused, Devices!Controllers
<1>4. E = <<Id(code.mode)>>
  BY Zenon DEF Owed
<1>5. Expects(code, <<>>) /\ walk.got = Id(code.mode) /\ (walk.got.says = "three") = (code.mode = "wheel")
  <2>1. source.ctl # "absent"
    BY <1>3 DEF Moused
  <2>. QED
    BY <1>2, <1>3, <1>4, <2>1, IdIs
<1>6. CASE code.mode # "wheel"
  <2>1. Devices!HasPointer("standard")
    BY <1>5, <1>6 DEF Devices!Id, Devices!Got
  <2>2. source.mouse = "standard" /\ code.mode = source.mouse
    BY <1>3, <1>6 DEF Wheeled, Mice
  <2>. QED
    BY <1>2, <1>3, <1>5, <2>1, <2>2, InputPointerIs
<1>7. CASE code.mode = "wheel"
  <2> DEFINE k == <<"set rate", "200", "set rate", "200", "set rate", "80", "get id">>
  <2>1. code' = code /\ walk' = [walk EXCEPT !.pc = "send", !.todo = k, !.after = "ask id again"] /\ answers' = answers
    BY <1>5, <1>7 DEF Devices!Id, Devices!Got, Devices!Sends, Devices!Knock
  <2>2. k \in Seq(Orders) /\ k # <<>>
    BY KnockTaken DEF Takes
  <2>3. Knocking(k, <<"200", "100", "80">>, "wheel", "200", "200", "100", "80", "wheel", source.mouse)
    BY DEF Knocking
  <2> HIDE DEF k
  <2>4. walk' \in Driver /\ walk'.pc = "send" /\ walk'.todo = k /\ walk'.after = "ask id again" /\ "send" \in Steps
        /\ walk'.byte = walk.byte /\ walk'.tries = walk.tries
    BY <1>2, <2>1, <2>2 DEF Driver, Steps
  <2>5. source.mouse \in {"wheel", "five"}
    BY <1>3, <1>7 DEF Wheeled
  <2>6. Talks(source, code, walk', answers)
    BY <1>3, <1>7, <2>3, <2>4, <2>5 DEF Talks
  <2>7. Facts("send", source, code, walk', answers)
    BY <1>2, <2>4, <2>6 DEF Facts, ControllerIs, KeyboardIs, MouseIs, First, Resetting, Pointing, Looking, Looked
  <2>8. Left("send", code, walk') = <<>>
    BY <2>2, <2>4 DEF Left
  <2>. QED
    BY <1>2, <1>5, <2>1, <2>4, <2>7, <2>8, Arrives
<1>. QED
  BY <1>6, <1>7

LEMMA InputIdAgain ==
  ASSUME InputStage(source, code, walk, answers), Devices!IdAgain, source' = source
  PROVE  InputStage(source', code', walk', answers')
<1> DEFINE E == Owed("id again", source, code, walk)
<1>1. walk.pc = "id again" /\ "id again" \in Places
  BY DEF Devices!IdAgain, Devices!At, Places
<1>2. /\ source \in Devices!Controllers /\ code \in Wires /\ walk \in Driver /\ answers \in Found
      /\ Facts("id again", source, code, walk, answers) /\ Expects(code, Rest(E)) /\ walk.got = Read(source, E)
  BY <1>1, StageIs
<1>3. Moused(source) /\ code.mode = source.mouse /\ source.mouse \in {"wheel", "five"} /\ code.mode \in Mice
  BY <1>2 DEF Facts, MouseIs, Wires
<1>4. E = <<Id(code.mode)>>
  BY Zenon DEF Owed
<1>5. Expects(code, <<>>) /\ (walk.got.says = "four") = (code.mode = "five")
  <2>1. source.ctl # "absent"
    BY <1>3 DEF Moused
  <2>2. Rest(<<Id(code.mode)>>) = <<>> /\ Read(source, <<Id(code.mode)>>) = Id(code.mode)
    BY <1>3, <2>1, IdIs
  <2>3. Expects(code, <<>>) /\ walk.got = Id(code.mode)
    BY <1>2, <1>4, <2>2, Zenon
  <2>. QED
    BY <1>3, <2>1, <2>3, IdIs
<1>6. Devices!HasPointer(source.mouse)
  <2>1. Devices!HasPointer(IF walk.got.says = "four" THEN "five" ELSE "wheel")
    BY DEF Devices!IdAgain, Devices!Got
  <2>2. (IF walk.got.says = "four" THEN "five" ELSE "wheel") = source.mouse
    BY <1>3, <1>5
  <2>. QED
    BY <2>1, <2>2
<1>. QED
  BY <1>2, <1>3, <1>5, <1>6, InputPointerIs

LEMMA InputOver ==
  ASSUME InputStage(source, code, walk, answers), Devices!Over, source' = source
  PROVE  InputStage(source', code', walk', answers')
<1>1. walk.pc = "over" /\ "over" \in Steps
  BY DEF Devices!Over, Devices!At, Steps
<1>2. /\ source \in Devices!Controllers /\ code \in Wires /\ walk \in Driver /\ answers \in Found
      /\ Facts("over", source, code, walk, answers) /\ Expects(code, Left("over", code, walk))
  BY <1>1, StageIs
<1>3. code' = Devices!Drained(code) /\ walk' = [walk EXCEPT !.pc = "usb"] /\ answers' = answers
  BY DEF Devices!Over, Devices!Goes
<1>4. Left("over", code, walk) = <<>> /\ Left("usb", code', walk) = <<>>
  BY DEF Left
<1>5. code' \in Wires /\ Expects(code', <<>>) /\ code'.config = code.config /\ code'.scanning = code.scanning
      /\ code'.mode = code.mode /\ code'.reports = code.reports /\ code'.rates = code.rates
  BY <1>2, <1>3, <1>4, DrainedIs
<1>6. "usb" \in Steps /\ GoesTo(walk', walk, "usb")
  BY <1>2, <1>3, WalksOn DEF Steps
<1>7. Facts("usb", source, code', walk, answers)
  BY <1>2, <1>5 DEF Facts, ControllerIs, KeyboardIs, MouseIs, First, Resetting, Pointing, Looking, Looked
<1>. QED
  BY <1>2, <1>3, <1>4, <1>5, <1>6, <1>7, IsAt

LEMMA InputLookOnUsb ==
  ASSUME InputStage(source, code, walk, answers), Devices!LookOnUsb, source' = source
  PROVE  InputStage(source', code', walk', answers')
<1>1. walk.pc = "usb" /\ "usb" \in Steps
  BY DEF Devices!LookOnUsb, Devices!At, Steps
<1>2. /\ source \in Devices!Controllers /\ code \in Wires /\ walk \in Driver /\ answers \in Found
      /\ Facts("usb", source, code, walk, answers) /\ Expects(code, Left("usb", code, walk))
  BY <1>1, StageIs
<1>3. code' = code /\ walk' = [walk EXCEPT !.pc = "i2c"]
      /\ answers' = IF answers.keyboard /\ answers.pointer # "none" THEN answers
                    ELSE [answers EXCEPT !.usb = source.usb, !.keyboard = @ \/ "keyboard" \in source.usb,
                                         !.pointer = IF @ = "none" /\ "pointer" \in source.usb THEN "usb" ELSE @]
  BY DEF Devices!LookOnUsb, Devices!Goes
<1>4. Left("usb", code, walk) = <<>> /\ Left("i2c", code, walk) = <<>>
  BY DEF Left
<1>5. "i2c" \in Steps /\ GoesTo(walk', walk, "i2c")
  BY <1>2, <1>3, WalksOn DEF Steps
<1>6. /\ answers.keyboard = Keyed(source) /\ answers.pointer = (IF Moused(source) THEN source.mouse ELSE "none") /\ answers.usb = {}
      /\ Keyed(source) \in BOOLEAN /\ source.usb \in SUBSET {"keyboard", "pointer"} /\ (Moused(source) => source.mouse # "none")
  BY <1>2 DEF Facts, KeyboardIs, MouseIs, Looking, Looked, Keyed, Moused, Devices!Controllers
<1>7. CASE answers.keyboard /\ answers.pointer # "none"
  <2>1. answers' = answers /\ Keyed(source) /\ Moused(source) /\ answers.pointer = source.mouse
    BY <1>3, <1>6, <1>7
  <2>2. Facts("i2c", source, code, walk, answers)
    BY <1>2, <1>6, <2>1 DEF Facts, ControllerIs, KeyboardIs, MouseIs, First, Resetting, Pointing, Looking, Looked
  <2>. QED
    BY <1>2, <1>3, <1>4, <1>5, <2>1, <2>2, IsAt
<1>8. CASE ~(answers.keyboard /\ answers.pointer # "none")
  <2> DEFINE f == answers.pointer = "none" /\ "pointer" \in source.usb
  <2>1. /\ answers' \in Found /\ answers'.usb = source.usb
        /\ answers'.keyboard = (answers.keyboard \/ "keyboard" \in source.usb)
        /\ answers'.pointer = IF f THEN "usb" ELSE answers.pointer
    <3>1. answers' = [answers EXCEPT !.usb = source.usb, !.keyboard = @ \/ "keyboard" \in source.usb,
                                     !.pointer = IF @ = "none" /\ "pointer" \in source.usb THEN "usb" ELSE @]
      BY <1>3, <1>8
    <3>. QED
      BY <1>2, <1>6, <3>1 DEF Found
  <2>2. answers'.pointer = IF Moused(source) THEN source.mouse ELSE IF "pointer" \in source.usb THEN "usb" ELSE "none"
    BY <1>6, <2>1
  <2>3. answers'.keyboard = (Keyed(source) \/ "keyboard" \in answers'.usb)
    BY <1>6, <2>1
  <2>4. Facts("i2c", source, code, walk, answers')
    BY <1>2, <2>1, <2>2, <2>3 DEF Facts, ControllerIs, KeyboardIs, MouseIs, First, Resetting, Pointing, Looking, Looked
  <2>. QED
    BY <1>2, <1>3, <1>4, <1>5, <2>1, <2>4, IsAt
<1>. QED
  BY <1>7, <1>8

LEMMA InputLookOnI2c ==
  ASSUME InputStage(source, code, walk, answers), Devices!LookOnI2c, source' = source
  PROVE  InputStage(source', code', walk', answers')
<1>1. walk.pc = "i2c" /\ "i2c" \in Steps
  BY DEF Devices!LookOnI2c, Devices!At, Steps
<1>2. /\ source \in Devices!Controllers /\ code \in Wires /\ walk \in Driver /\ answers \in Found
      /\ Facts("i2c", source, code, walk, answers) /\ Expects(code, Left("i2c", code, walk))
  BY <1>1, StageIs
<1>3. code' = code /\ walk' = [walk EXCEPT !.pc = "found"]
      /\ answers' = IF answers.pointer # "none" THEN answers
                    ELSE IF source.pad = "touchpad" THEN [answers EXCEPT !.pointer = "i2c"]
                    ELSE [answers EXCEPT !.failure = source.pad]
  BY DEF Devices!LookOnI2c, Devices!Goes
<1>4. Left("i2c", code, walk) = <<>> /\ Left("found", code, walk) = <<>>
  BY DEF Left
<1>5. "found" \in Steps /\ GoesTo(walk', walk, "found")
  BY <1>2, <1>3, WalksOn DEF Steps
<1>6. /\ answers.pointer = IF Moused(source) THEN source.mouse ELSE IF "pointer" \in source.usb THEN "usb" ELSE "none"
      /\ source.pad \in STRING /\ (Moused(source) => source.mouse # "none")
  BY <1>2 DEF Facts, MouseIs, Moused, Devices!Controllers
<1>7. /\ answers' \in Found /\ answers'.usb = answers.usb /\ answers'.keyboard = answers.keyboard
      /\ answers'.pointer = IF answers.pointer = "none" /\ source.pad = "touchpad" THEN "i2c" ELSE answers.pointer
      /\ answers.pointer = "none" /\ source.pad # "touchpad" => answers'.failure = source.pad
  <2>1. CASE answers.pointer # "none"
    BY <1>2, <1>3, <2>1
  <2>2. CASE answers.pointer = "none" /\ source.pad = "touchpad"
    <3>1. answers' = [answers EXCEPT !.pointer = "i2c"]
      BY <1>3, <2>2
    <3>. QED
      BY <1>2, <2>2, <3>1 DEF Found
  <2>3. CASE answers.pointer = "none" /\ source.pad # "touchpad"
    <3>1. answers' = [answers EXCEPT !.failure = source.pad]
      BY <1>3, <2>3
    <3>. QED
      BY <1>2, <1>6, <2>3, <3>1 DEF Found
  <2>. QED
    BY <2>1, <2>2, <2>3
<1>8. answers'.pointer = IF Moused(source) THEN source.mouse ELSE IF "pointer" \in source.usb THEN "usb"
                         ELSE IF source.pad = "touchpad" THEN "i2c" ELSE "none"
  BY <1>6, <1>7
<1>9. answers'.pointer = "none" => answers'.failure = source.pad
  BY <1>7
<1>10. Facts("found", source, code, walk, answers')
  BY <1>2, <1>7, <1>8, <1>9 DEF Facts, ControllerIs, KeyboardIs, MouseIs, First, Resetting, Pointing, Looking, Looked
<1>. QED
  BY <1>2, <1>3, <1>4, <1>5, <1>7, <1>10, IsAt

-----------------------------------------------------------------------------
(***************************************************************************)
(* In the end.                                                             *)
(***************************************************************************)
LEMMA InputSays ==
  ASSUME answers \in Found, source \in Devices!Controllers, Facts("found", source, code, walk, answers)
  PROVE  Devices!WhatIsSaidIsSo
<1> DEFINE kb  == answers.keyboard
           usb == answers.usb
           pt  == answers.pointer
<1>1. /\ kb = (Keyed(source) \/ "keyboard" \in usb)
      /\ usb = source.usb \/ (usb = {} /\ Moused(source) /\ Keyed(source))
      /\ pt = IF Moused(source) THEN source.mouse ELSE IF "pointer" \in source.usb THEN "usb"
              ELSE IF source.pad = "touchpad" THEN "i2c" ELSE "none"
      /\ pt = "none" => answers.failure = source.pad
      /\ source.pad # "" /\ kb \in BOOLEAN /\ (Keyed(source) = Devices!KeyboardThere) /\ (Moused(source) = Devices!Attached(source.mouse))
  BY DEF Facts, KeyboardIs, MouseIs, Looking, Looked, Found, Devices!Controllers, Keyed, Moused, Devices!KeyboardThere,
         Devices!Attached
<1> HIDE DEF kb, usb, pt
<1>2. pt = "i2c" => Devices!SourceName = IF kb THEN "ps/2 keyboard + touchpad" ELSE "touchpad"
  BY Zenon DEF Devices!SourceName, kb, pt
<1>3. pt = "none" => Devices!SourceName = IF kb THEN "keyboard only" ELSE "no input device"
  <2>1. "none" # "i2c"
    OBVIOUS
  <2>. QED
    BY <2>1, Zenon DEF Devices!SourceName, kb, pt
<1>4. pt \notin {"i2c", "none"} =>
        Devices!SourceName = IF ~kb THEN "pointer only" ELSE IF usb = {} THEN "ps/2"
                             ELSE IF "keyboard" \in usb THEN "usb" ELSE "ps/2 keyboard + usb pointer"
  BY Zenon DEF Devices!SourceName, Devices!OnUsb, kb, pt, usb
<1>5. ~kb => Devices!Trouble = IF pt = "none" THEN "no keyboard and no pointer" ELSE "no keyboard"
  BY Zenon DEF Devices!Trouble, kb, pt
<1>6. kb => Devices!Trouble = IF pt # "none" THEN "" ELSE answers.failure
  BY Zenon DEF Devices!Trouble, kb, pt
<1>7. Devices!FoundDevices.ps2Keyboard = (kb /\ "keyboard" \notin usb)
  BY DEF Devices!FoundDevices, Devices!OnUsb, kb, usb
<1>8. Devices!FoundDevices.ps2Keyboard => Devices!KeyboardThere
  BY <1>1, <1>7
<1> DEFINE name == Devices!SourceName
           trouble == Devices!Trouble
<1> HIDE DEF name, trouble
<1>9. (name \in {"ps/2", "ps/2 keyboard + usb pointer"} => Devices!KeyboardThere) /\ (name = "ps/2" => Devices!Attached(source.mouse))
  <2>1. CASE pt = "i2c"
    BY <1>1, <1>2, <2>1 DEF name
  <2>2. CASE pt = "none"
    BY <1>1, <1>3, <2>2 DEF name
  <2>3. CASE pt \notin {"i2c", "none"}
    <3>1. name = IF ~kb THEN "pointer only" ELSE IF usb = {} THEN "ps/2"
                 ELSE IF "keyboard" \in usb THEN "usb" ELSE "ps/2 keyboard + usb pointer"
      BY <1>4, <2>3 DEF name
    <3>. QED
      BY <1>1, <2>3, <3>1
  <2>. QED
    BY <2>1, <2>2, <2>3
<1>10. (trouble = "") = (name \notin {"touchpad", "pointer only", "keyboard only", "no input device"})
  <2>1. CASE ~kb
    <3>1. trouble # ""
      BY <1>5, <2>1 DEF trouble
    <3>2. name \in {"touchpad", "pointer only", "keyboard only", "no input device"}
      BY <1>2, <1>3, <1>4, <2>1 DEF name
    <3>. QED
      BY <3>1, <3>2
  <2>2. CASE kb /\ pt = "none"
    <3>1. trouble # ""
      BY <1>1, <1>6, <2>2 DEF trouble
    <3>2. name = "keyboard only"
      BY <1>3, <2>2 DEF name
    <3>. QED
      BY <3>1, <3>2
  <2>3. CASE kb /\ pt # "none"
    <3>1. trouble = ""
      BY <1>6, <2>3 DEF trouble
    <3>2. name \in {"ps/2 keyboard + touchpad", "ps/2", "usb", "ps/2 keyboard + usb pointer"}
      BY <1>2, <1>4, <2>3 DEF name
    <3>. QED
      BY <3>1, <3>2
  <2>. QED
    BY <1>1, <2>1, <2>2, <2>3
<1>. QED
  BY <1>8, <1>9, <1>10 DEF Devices!WhatIsSaidIsSo, name, trouble

InputInv ==
  source \in Devices!Controllers /\ answers \in Found /\ (answers.crossed \/ InputStage(source, code, walk, answers))

LEMMA InputEnds ==
  ASSUME InputInv
  PROVE  Devices!DevicesComeUp
<1> SUFFICES ASSUME walk.pc = "found", ~answers.crossed
             PROVE  Devices!DevicesAreKnown /\ Devices!ControllerIsReady /\ Devices!NothingIsLeft /\ Devices!WhatIsSaidIsSo
  BY DEF Devices!DevicesComeUp, Devices!InputDone, Devices!At
<1>1. InputStage(source, code, walk, answers) /\ "found" \in Steps
  BY DEF InputInv, Steps
<1>2. /\ source \in Devices!Controllers /\ code \in Wires /\ walk \in Driver /\ answers \in Found
      /\ Facts("found", source, code, walk, answers) /\ Expects(code, Left("found", code, walk))
  BY <1>1, StageIs
<1>3. (Keyed(source) = Devices!KeyboardThere) /\ (Moused(source) = Devices!Attached(source.mouse))
  BY DEF Keyed, Moused, Devices!KeyboardThere, Devices!Attached
<1>4. Devices!DevicesAreKnown
  BY <1>2, <1>3 DEF Facts, KeyboardIs, MouseIs, Looking, Looked, Devices!DevicesAreKnown, Devices!OnUsb, Moused
<1>5. Devices!ControllerIsReady
  BY <1>2, <1>3 DEF Facts, ControllerIs, First, Resetting, Devices!ControllerIsReady
<1>6. Devices!NothingIsLeft
  <2>1. Left("found", code, walk) = <<>> /\ WireTypes(code)
    BY <1>2 DEF Left, WireTypes, Wires
  <2>2. DOMAIN code.due = Ports
    BY <1>2 DEF Wires
  <2>3. \A p \in Ports : code.due[p] = <<>>
    BY <1>2, <2>1, ExpectsNothing
  <2>4. \A i \in DOMAIN code.out : "typed" \in DOMAIN code.out[i]
    <3>1. \A x \in Typings : "typed" \in DOMAIN x
      BY DEF Typings
    <3>2. \A i \in DOMAIN code.out : code.out[i] \in Typings
      BY <1>2, <2>1, ExpectsNothing
    <3>. QED
      BY <3>1, <3>2
  <2>. QED
    BY <2>2, <2>3, <2>4 DEF Devices!NothingIsLeft
<1>7. Devices!WhatIsSaidIsSo
  BY <1>2, InputSays
<1>. QED
  BY <1>4, <1>5, <1>6, <1>7

\* One byte that was taken for another is not forgotten.
LEMMA CrossedStays ==
  ASSUME source \in Devices!Controllers, answers \in Found, Devices!BringUpNext
  PROVE  answers' \in Found /\ (answers.crossed => answers'.crossed)
<1>1. ASSUME Devices!Deliver \/ Devices!Type \/ Devices!Send \/ Devices!Quiet \/ Devices!Configure \/ Devices!Tested \/ Devices!Enable
             \/ Devices!ResetKeyboard \/ Devices!Acked \/ Devices!WasReset \/ Devices!TestAux \/ Devices!AuxThere
             \/ Devices!AuxAcked \/ Devices!AuxReset \/ Devices!FirstKnock \/ Devices!AskId \/ Devices!AskIdAgain \/ Devices!Over
      PROVE  answers' = answers
  BY <1>1 DEF Devices!Deliver, Devices!Type, Devices!Send, Devices!Quiet, Devices!Configure, Devices!Tested, Devices!Enable,
         Devices!ResetKeyboard, Devices!Acked, Devices!WasReset, Devices!TestAux, Devices!AuxThere,
         Devices!AuxAcked, Devices!AuxReset, Devices!FirstKnock, Devices!AskId, Devices!AskIdAgain, Devices!Over
<1>2. ASSUME Devices!Hear PROVE answers' \in Found /\ (answers.crossed => answers'.crossed)
  <2>1. \/ answers' = answers
        \/ answers' = [answers EXCEPT !.crossed = @ \/ "typed" \in DOMAIN Head(code.out)]
        \/ answers' = [answers EXCEPT !.crossed = @ \/ Devices!Owing # {}]
    BY <1>2 DEF Devices!Hear
  <2> DEFINE f == "typed" \in DOMAIN Head(code.out)
             g == Devices!Owing # {}
  <2>2. f \in BOOLEAN /\ g \in BOOLEAN
    OBVIOUS
  <2> HIDE DEF f, g
  <2>3. \A x \in BOOLEAN : LET b == [answers EXCEPT !.crossed = @ \/ x] IN b \in Found /\ (answers.crossed => b.crossed)
    BY DEF Found
  <2>4. answers' = answers \/ answers' = [answers EXCEPT !.crossed = @ \/ f] \/ answers' = [answers EXCEPT !.crossed = @ \/ g]
    BY <2>1 DEF f, g
  <2>. QED
    BY <2>2, <2>3, <2>4
<1>3. ASSUME Devices!Scanning \/ Devices!ScansAgain PROVE answers' \in Found /\ (answers.crossed => answers'.crossed)
  <2>1. answers' = answers \/ answers' = [answers EXCEPT !.keyboard = TRUE]
    BY <1>3 DEF Devices!Scanning, Devices!ScansAgain, Devices!HasKeyboard
  <2>. QED
    BY <2>1 DEF Found
<1>4. ASSUME Devices!Id \/ Devices!IdAgain PROVE answers' \in Found /\ (answers.crossed => answers'.crossed)
  <2>1. \A x \in Mice : LET b == [answers EXCEPT !.pointer = x] IN b \in Found /\ (answers.crossed => b.crossed)
    BY DEF Found
  <2>2. answers' = answers \/ \E x \in {"standard", "wheel", "five"} : answers' = [answers EXCEPT !.pointer = x]
    BY <1>4 DEF Devices!Id, Devices!IdAgain, Devices!HasPointer
  <2>. QED
    BY <2>1, <2>2 DEF Mice
<1>5. ASSUME Devices!LookOnUsb PROVE answers' \in Found /\ (answers.crossed => answers'.crossed)
  <2>1. source.usb \in SUBSET {"keyboard", "pointer"}
    BY DEF Devices!Controllers
  <2>2. \/ answers' = answers
        \/ answers' = [answers EXCEPT !.usb = source.usb, !.keyboard = @ \/ "keyboard" \in source.usb,
                                      !.pointer = IF @ = "none" /\ "pointer" \in source.usb THEN "usb" ELSE @]
    BY <1>5 DEF Devices!LookOnUsb
  <2>. QED
    BY <2>1, <2>2 DEF Found
<1>6. ASSUME Devices!LookOnI2c PROVE answers' \in Found /\ (answers.crossed => answers'.crossed)
  <2>1. source.pad \in STRING
    BY DEF Devices!Controllers
  <2>2. answers' = answers \/ answers' = [answers EXCEPT !.pointer = "i2c"] \/ answers' = [answers EXCEPT !.failure = source.pad]
    BY <1>6 DEF Devices!LookOnI2c
  <2>. QED
    BY <2>1, <2>2 DEF Found
<1>. QED
  BY <1>1, <1>2, <1>3, <1>4, <1>5, <1>6 DEF Devices!BringUpNext

LEMMA InputBegins ==
  ASSUME source \in Devices!Controllers, Devices!BringUpInit
  PROVE  InputInv
BY InputInit DEF InputInv, InputStage

LEMMA InputNext ==
  ASSUME InputInv, Devices!BringUpNext
  PROVE  InputInv'
<1>1. source' = source /\ source \in Devices!Controllers /\ answers \in Found
  BY DEF InputInv, Devices!BringUpNext
<1>2. answers' \in Found /\ (answers.crossed => answers'.crossed)
  BY <1>1, CrossedStays
<1>3. CASE answers.crossed
  BY <1>1, <1>2, <1>3 DEF InputInv
<1>4. CASE InputStage(source, code, walk, answers)
  <2> USE <1>1, <1>4
  <2>1. CASE Devices!Deliver
    BY <1>2, <2>1, InputDeliver DEF InputInv
  <2>2. CASE Devices!Type
    BY <1>2, <2>2, InputType DEF InputInv
  <2>3. CASE Devices!Hear
    BY <1>2, <2>3, InputHear DEF InputInv
  <2>4. CASE Devices!Send
    BY <1>2, <2>4, InputSend DEF InputInv
  <2>5. CASE Devices!Quiet
    BY <1>2, <2>5, InputQuiet DEF InputInv
  <2>6. CASE Devices!Configure
    BY <1>2, <2>6, InputConfigure DEF InputInv
  <2>7. CASE Devices!Tested
    BY <1>2, <2>7, InputTested DEF InputInv
  <2>8. CASE Devices!Enable
    BY <1>2, <2>8, InputEnable DEF InputInv
  <2>9. CASE Devices!Scanning
    BY <1>2, <2>9, InputScanning DEF InputInv
  <2>10. CASE Devices!ResetKeyboard
    BY <1>2, <2>10, InputResetKeyboard DEF InputInv
  <2>11. CASE Devices!Acked
    BY <1>2, <2>11, InputAcked DEF InputInv
  <2>12. CASE Devices!WasReset
    BY <1>2, <2>12, InputWasReset DEF InputInv
  <2>13. CASE Devices!ScansAgain
    BY <1>2, <2>13, InputScansAgain DEF InputInv
  <2>14. CASE Devices!TestAux
    BY <1>2, <2>14, InputTestAux DEF InputInv
  <2>15. CASE Devices!AuxThere
    BY <1>2, <2>15, InputAuxThere DEF InputInv
  <2>16. CASE Devices!AuxAcked
    BY <1>2, <2>16, InputAuxAcked DEF InputInv
  <2>17. CASE Devices!AuxReset
    BY <1>2, <2>17, InputAuxReset DEF InputInv
  <2>18. CASE Devices!FirstKnock
    BY <1>2, <2>18, InputFirstKnock DEF InputInv
  <2>19. CASE Devices!AskId
    BY <1>2, <2>19, InputAskId DEF InputInv
  <2>20. CASE Devices!AskIdAgain
    BY <1>2, <2>20, InputAskIdAgain DEF InputInv
  <2>21. CASE Devices!Id
    BY <1>2, <2>21, InputId DEF InputInv
  <2>22. CASE Devices!IdAgain
    BY <1>2, <2>22, InputIdAgain DEF InputInv
  <2>23. CASE Devices!Over
    BY <1>2, <2>23, InputOver DEF InputInv
  <2>24. CASE Devices!LookOnUsb
    BY <1>2, <2>24, InputLookOnUsb DEF InputInv
  <2>25. CASE Devices!LookOnI2c
    BY <1>2, <2>25, InputLookOnI2c DEF InputInv
  <2>. QED
    BY <2>1, <2>2, <2>3, <2>4, <2>5, <2>6, <2>7, <2>8, <2>9, <2>10, <2>11, <2>12, <2>13, <2>14,
       <2>15, <2>16, <2>17, <2>18, <2>19, <2>20, <2>21, <2>22, <2>23, <2>24, <2>25 DEF Devices!BringUpNext
<1>. QED
  BY <1>3, <1>4 DEF InputInv

LEMMA InputStutter ==
  ASSUME InputInv, UNCHANGED <<source, code, walk, answers>>
  PROVE  InputInv'
BY DEF InputInv

\* The invariant of the devices, where they are brought up.
InputJobInv == job = "input" => InputInv

(***************************************************************************)
(* Whatever controller there is, whatever is plugged into it, into USB and *)
(* onto I2C, however many keys are typed and whoever is slow (input.rs,    *)
(* Input::init): unless a byte was taken for another, every device that    *)
(* answers is found and known for what it is, the controller is set as the *)
(* decoders need it, none of the talk is left to be read for a key, and    *)
(* what is said of the devices is so.                                      *)
(***************************************************************************)
THEOREM DevicesStayKnown == DisplaySpec => []DevicesComeUp
<1>1. DisplayInit => InputJobInv
  <2> SUFFICES ASSUME DisplayInit, job = "input" PROVE InputInv
    BY DEF InputJobInv
  <2>1. Devices!BringUpInit /\ \E m \in Inputs["input"] : source = m.source
    BY DEF DisplayInit, Appears
  <2>. QED
    BY <2>1, InputBegins, DeviceAssumption
<1>2. InputJobInv /\ [DisplayNext]_vars => InputJobInv'
  <2> SUFFICES ASSUME InputJobInv, [DisplayNext]_vars, job' = "input" PROVE InputInv'
    BY DEF InputJobInv
  <2>1. CASE UNCHANGED vars
    <3>1. InputInv /\ UNCHANGED <<source, code, walk, answers>>
      BY <2>1 DEF InputJobInv, vars
    <3>. QED
      BY <3>1, InputStutter
  <2>2. CASE DisplayNext /\ ~UNCHANGED vars
    <3>1. job = "input" /\ Devices!BringUpNext
      BY <2>2 DEF DisplayNext, DisplayWork
    <3>. QED
      BY <3>1, InputNext DEF InputJobInv
  <2>. QED
    BY <2>1, <2>2 DEF vars
<1>3. InputJobInv => DevicesComeUp
  BY InputEnds DEF InputJobInv, DevicesComeUp
<1>. QED
  BY <1>1, <1>2, <1>3, PTL DEF DisplaySpec

(***************************************************************************)
(* The window (nanochrono-gui/src/main.rs), for every table of benchmark   *)
(* modes and kernels, every processor and every number of calibrations in  *)
(* flight: what it says of its tasks is so, in whatever order their results*)
(* arrive.                                                                 *)
(***************************************************************************)

\* While a run is out, the row drawn as selected is the one it is of: this is
\* what makes the log that arrives the selected row's, and why choosing
\* another mode has to clear the selection.
RunIsOfSelectedRow ==
  benchRunning /\ benchSelected # None => benches[1] = Run(benchMode, benchSelected)

\* What is said of the benchmark's variables.
BenchInv ==
  /\ benchMode \in Modes /\ benchSelected \in {None} \cup DOMAIN RowsFor(benchMode)
  /\ benchReport \in {Nobody} \cup Runs
  /\ benches \in Seq(Runs)
  /\ Len(benches) = IF benchRunning THEN 1 ELSE 0
  /\ LogIsOfSelectedRow /\ RunIsOfSelectedRow
  /\ benchRunning \in BOOLEAN

\* What is said of the rest.
OtherInv ==
  /\ notice \in Notices
  /\ queries = IF ntpInFlight THEN 1 ELSE 0
  /\ ntpInFlight \in BOOLEAN
  /\ calibrations \in 0 .. MaxCalibrations

\* The inductive invariant.
WindowInv == BenchInv /\ OtherInv

LEMMA BoundIsANumber == MaxCalibrations \in Nat /\ MaxCalibrations # 0
BY DesktopAssumption

\* A sequence of one without its only element.
LEMMA LastOneTaken ==
  ASSUME NEW S, NEW s \in Seq(S), Len(s) = 1, NEW i \in DOMAIN s
  PROVE  /\ i = 1
         /\ Without(s, i) \in Seq(S)
         /\ Len(Without(s, i)) = 0
<1>1. DOMAIN s = 1 .. 1
  OBVIOUS
<1>2. i = 1
  BY <1>1
<1>3. Without(s, i) = [j \in 1 .. 0 |-> IF j < i THEN s[j] ELSE s[j + 1]]
  BY DEF Without
<1>4. Without(s, i) \in [1 .. 0 -> S]
  BY <1>3
<1> QED  BY <1>2, <1>3, <1>4

\* The window opens with nothing selected and one calibration in flight.
LEMMA WindowStarts == WindowInit => WindowInv
<1> SUFFICES ASSUME WindowInit PROVE BenchInv /\ OtherInv
  BY DEF WindowInv
<1>1. notice \in Notices
  BY DEF WindowInit, Notices, Alarms
<1>2. 1 \in 0 .. MaxCalibrations
  BY BoundIsANumber
<1>3. BenchInv
  <2>1. /\ benchMode \in Modes /\ benchSelected = None /\ benchRunning = FALSE
        /\ benchReport = Nobody /\ benches = <<>>
    BY DEF WindowInit
  <2>2. benches \in Seq(Runs) /\ Len(benches) = 0
    BY <2>1
  <2>3. LogIsOfSelectedRow /\ RunIsOfSelectedRow
    BY <2>1 DEF LogIsOfSelectedRow, RunIsOfSelectedRow
  <2>4. (IF benchRunning THEN 1 ELSE 0) = 0 /\ benchRunning \in BOOLEAN
    BY <2>1
  <2>5. benchSelected \in {None} \cup DOMAIN RowsFor(benchMode) /\ benchReport \in {Nobody} \cup Runs
    BY <2>1
  <2> QED  BY <2>1, <2>2, <2>3, <2>4, <2>5 DEF BenchInv
<1>4. OtherInv
  BY <1>1, <1>2 DEF WindowInit, OtherInv
<1> QED  BY <1>3, <1>4

\* What touches none of the benchmark's variables keeps what is said of them.
LEMMA BenchUntouched == BenchInv /\ UNCHANGED bench => BenchInv'
BY DEF BenchInv, bench, LogIsOfSelectedRow, RunIsOfSelectedRow, Runs, None, Nobody, Run

LEMMA NtpUntouched ==
  OtherInv /\ notice' \in Notices /\ UNCHANGED <<ntp, calibrations>> => OtherInv'
<1> SUFFICES ASSUME OtherInv, notice' \in Notices, UNCHANGED <<ntp, calibrations>>
             PROVE  OtherInv'
  OBVIOUS
<1>1. UNCHANGED <<ntpInFlight, queries, calibrations>>
  BY DEF ntp
<1>2. (notice \in Notices)'
  BY DEF Notices, Alarms
<1> QED  BY <1>1, <1>2 DEF OtherInv

LEMMA NoticesKept ==
  /\ "told" \in Notices /\ "" \in Notices /\ Alarms \subseteq Notices
BY DEF Notices, Alarms

LEMMA TickSound == WindowInv /\ Tick => WindowInv'
<1> SUFFICES ASSUME BenchInv, OtherInv, Tick PROVE BenchInv' /\ OtherInv'
  BY DEF WindowInv
<1>1. notice' \in Notices
  BY DEF Tick, NoticeOfTick, OtherInv, Notices, Alarms
<1> QED  BY <1>1, BenchUntouched, NtpUntouched DEF Tick

LEMMA SelectBenchModeSound ==
  ASSUME NEW m \in Modes
  PROVE  WindowInv /\ SelectBenchMode(m) => WindowInv'
<1> SUFFICES ASSUME BenchInv, OtherInv, SelectBenchMode(m) PROVE BenchInv' /\ OtherInv'
  BY DEF WindowInv
<1>1. BenchInv'
  BY DEF SelectBenchMode, BenchInv, LogIsOfSelectedRow, RunIsOfSelectedRow, Runs
<1>2. notice' \in Notices
  BY DEF SelectBenchMode, OtherInv
<1> QED  BY <1>1, <1>2, NtpUntouched DEF SelectBenchMode

LEMMA RunBenchSound ==
  ASSUME NEW row \in Rows
  PROVE  WindowInv /\ RunBench(row) => WindowInv'
<1> SUFFICES ASSUME BenchInv, OtherInv, RunBench(row) PROVE BenchInv' /\ OtherInv'
  BY DEF WindowInv
<1>1. ASSUME RowsFor(benchMode)[row] \in Available PROVE BenchInv'
  <2>1. Run(benchMode, row) \in Runs
    <3>1. benchMode \in Modes
      BY DEF BenchInv
    <3> QED  BY <3>1 DEF Run, Runs
  <2>2. Len(benches) = 0 /\ benches \in Seq(Runs)
    <3>1. ~benchRunning
      BY DEF RunBench
    <3> QED  BY <3>1 DEF BenchInv
  <2>3. /\ benches' \in Seq(Runs) /\ Len(benches') = 1
        /\ benches'[1] = Run(benchMode, row)
    <3>1. benches' = Append(benches, Run(benchMode, row))
      BY <1>1 DEF RunBench
    <3> QED  BY <2>1, <2>2, <3>1
  <2>4. /\ benchSelected' = row /\ benchRunning' = TRUE
        /\ row \in DOMAIN RowsFor(benchMode)
        /\ UNCHANGED <<benchMode, benchReport>>
    BY <1>1 DEF RunBench
  <2>5. LogIsOfSelectedRow'
    BY <2>4 DEF LogIsOfSelectedRow
  <2>6. RunIsOfSelectedRow'
    <3>1. Run(benchMode', benchSelected') = Run(benchMode, row)
      BY <2>4
    <3> QED  BY <2>3, <3>1 DEF RunIsOfSelectedRow, Run
  <2>7. (benches \in Seq(Runs))' /\ (benchReport \in {Nobody} \cup Runs)'
    BY <2>3, <2>4 DEF BenchInv, Runs, Nobody
  <2>8. (Len(benches) = IF benchRunning THEN 1 ELSE 0)' /\ (benchRunning \in BOOLEAN)'
    BY <2>3, <2>4
  <2>9. /\ benchMode' \in Modes
        /\ benchSelected' \in {None} \cup DOMAIN RowsFor(benchMode')
    BY <2>4 DEF BenchInv
  <2> QED
    BY <2>5, <2>6, <2>7, <2>8, <2>9 DEF BenchInv
<1>2. ASSUME RowsFor(benchMode)[row] \notin Available PROVE BenchInv'
  <2>1. UNCHANGED <<benchMode, benchSelected, benchRunning, benchReport, benches>>
    BY <1>2 DEF RunBench
  <2> QED  BY <2>1, BenchUntouched DEF bench
<1>3. BenchInv'
  BY <1>1, <1>2
<1> QED  BY <1>3, NtpUntouched, NoticesKept DEF RunBench

LEMMA BenchFinishedSound == WindowInv /\ BenchFinished => WindowInv'
<1> SUFFICES ASSUME BenchInv, OtherInv, BenchFinished PROVE BenchInv' /\ OtherInv'
  BY DEF WindowInv
<1>1. PICK i \in DOMAIN benches, ok \in BOOLEAN :
        /\ benches' = Without(benches, i)
        /\ benchRunning' = FALSE
        /\ benchReport' = benches[i]
        /\ notice' = "told"
        /\ UNCHANGED <<words, benchMode, benchSelected, ntp, calibrations>>
  BY DEF BenchFinished
<1>2. benches \in Seq(Runs) /\ benchRunning /\ Len(benches) = 1
  <2>1. Len(benches) # 0
    BY DEF BenchInv
  <2> QED  BY <2>1 DEF BenchInv
<1>3. i = 1 /\ benches' \in Seq(Runs) /\ Len(benches') = 0
  BY <1>1, <1>2, LastOneTaken
<1>4. benches[1] \in Runs
  BY <1>2
<1>5. BenchInv'
  BY <1>1, <1>2, <1>3, <1>4 DEF BenchInv, LogIsOfSelectedRow, RunIsOfSelectedRow
<1> QED  BY <1>1, <1>5, NtpUntouched, NoticesKept

LEMMA NtpSound == WindowInv /\ (QueryNtp \/ NtpFinished) => WindowInv'
<1> SUFFICES ASSUME BenchInv, OtherInv, QueryNtp \/ NtpFinished PROVE BenchInv' /\ OtherInv'
  BY DEF WindowInv
<1>1. UNCHANGED bench /\ UNCHANGED <<notice, calibrations>>
  BY DEF QueryNtp, NtpFinished
<1>2. CASE QueryNtp
  <2>1. queries = 0
    BY <1>2 DEF OtherInv, QueryNtp
  <2>2. queries' = 1 /\ ntpInFlight' = TRUE
    BY <1>2, <2>1 DEF QueryNtp
  <2>3. OtherInv'
    BY <1>1, <2>2 DEF OtherInv, Notices, Alarms
  <2> QED  BY <1>1, <2>3, BenchUntouched
<1>3. CASE NtpFinished
  <2>1. queries = 1
    BY <1>3 DEF OtherInv, NtpFinished
  <2>2. queries' = 0 /\ ntpInFlight' = FALSE
    BY <1>3, <2>1 DEF NtpFinished
  <2>3. OtherInv'
    BY <1>1, <2>2 DEF OtherInv, Notices, Alarms
  <2> QED  BY <1>1, <2>3, BenchUntouched
<1> QED  BY <1>2, <1>3

LEMMA CalibrationsSound == WindowInv /\ (Recalibrate \/ CalibrationFinished) => WindowInv'
<1> SUFFICES ASSUME BenchInv, OtherInv, Recalibrate \/ CalibrationFinished
             PROVE  BenchInv' /\ OtherInv'
  BY DEF WindowInv
<1>1. UNCHANGED bench /\ UNCHANGED ntp /\ notice' \in Notices
  BY NoticesKept DEF Recalibrate, CalibrationFinished
<1>2. calibrations' \in 0 .. MaxCalibrations
  <2>1. calibrations \in 0 .. MaxCalibrations /\ MaxCalibrations \in Nat
    BY BoundIsANumber DEF OtherInv
  <2>2. CASE Recalibrate
    BY <2>1, <2>2 DEF Recalibrate
  <2>3. CASE CalibrationFinished
    <3>1. calibrations > 0 /\ calibrations' = calibrations - 1
      BY <2>3 DEF CalibrationFinished
    <3> QED  BY <2>1, <3>1
  <2> QED  BY <2>2, <2>3
<1>3. OtherInv'
  BY <1>1, <1>2 DEF OtherInv, ntp
<1> QED  BY <1>1, <1>3, BenchUntouched

\* The stopwatch's operations, upsets, and a log that is saved.
LEMMA WordsSound ==
  WindowInv /\ (SaveLog \/ StopwatchToggle \/ StopwatchStop \/ StopwatchReset \/ StopwatchLap \/ UpsetWord)
    => WindowInv'
<1> SUFFICES ASSUME BenchInv, OtherInv,
                    SaveLog \/ StopwatchToggle \/ StopwatchStop \/ StopwatchReset \/ StopwatchLap
                      \/ UpsetWord
             PROVE  BenchInv' /\ OtherInv'
  BY DEF WindowInv
<1>1. UNCHANGED <<bench, ntp, calibrations>>
  BY DEF SaveLog, StopwatchToggle, StopwatchStop, StopwatchReset, StopwatchLap, UpsetWord
<1>2. notice' \in Notices
  BY NoticesKept
     DEF SaveLog, StopwatchToggle, StopwatchStop, StopwatchReset, StopwatchLap, UpsetWord, OtherInv
<1> QED  BY <1>1, <1>2, BenchUntouched, NtpUntouched

LEMMA WindowStep == WindowInv /\ [WindowNext]_windowVars => WindowInv'
<1> SUFFICES ASSUME WindowInv, [WindowNext]_windowVars PROVE WindowInv'
  OBVIOUS
<1>1. CASE User
  BY <1>1, SelectBenchModeSound, RunBenchSound, NtpSound, CalibrationsSound, WordsSound DEF User
<1>2. CASE Background
  BY <1>2, TickSound, BenchFinishedSound, NtpSound, CalibrationsSound DEF Background
<1>3. CASE UpsetWord
  BY <1>3, WordsSound
<1>4. CASE UNCHANGED windowVars
  <2>1. BenchInv' /\ OtherInv'
    BY <1>4, BenchUntouched, NtpUntouched DEF windowVars, WindowInv, OtherInv
  <2> QED  BY <2>1 DEF WindowInv
<1> QED  BY <1>1, <1>2, <1>3, <1>4 DEF WindowNext

\* What the window says of its tasks is so, for every table of benchmarks:
\* one run and one query at most are out, the flags that keep the buttons
\* inert say whether, and the log is the selected row's
\* (nanochrono-gui/src/main.rs, NanoChrono::update).
THEOREM WindowStaysTrue == WindowSpec => []WindowMatchesTasks
<1>1. WindowInv => WindowMatchesTasks
  BY DEF WindowInv, BenchInv, OtherInv, WindowMatchesTasks, TypeOK, FlagsMatchTasks
<1> QED  BY <1>1, WindowStarts, WindowStep, PTL DEF WindowSpec
==============================================================================
