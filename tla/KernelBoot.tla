----------------------------- MODULE KernelBoot -----------------------------
(***************************************************************************)
(* The freestanding kernel from its first line to its interface: main.rs,  *)
(* selftest.rs, progress.rs, serial.rs, hypervisor.rs, and where it ends   *)
(* when it cannot go on: panic.rs and panic_screen.rs.  Where it is drawn  *)
(* may be a buffer in memory, of which only what is presented is seen.     *)
(***************************************************************************)
EXTENDS Naturals, Sequences

VARIABLES
  source,    \* the machine: mode, serial line, hypervisor, timer
  code,      \* what is seen and heard, and what the host was asked
  walk,      \* the next line of the script, the statics
  answers    \* how it ended

bootVars == <<source, code, walk, answers>>

Nothing == "nothing"

\* An ARM kernel draws nothing, and has no leaves; a signature of KVM's is KVM's.
Boots ==
  {s \in [arch : {"x86", "arm"}, mode : {"none", "tiny", "fits", "large"}, sends : BOOLEAN, wedges : BOOLEAN,
          signature : {"kvm", "none"}, host : {"kvm", "other", Nothing}, hertz : {"virtual", "real"},
          byte : {"restart", "off"}] :
     /\ s.arch = "x86" => (s.signature = "kvm" => s.host = "kvm")
     /\ s.arch = "arm" => s.mode = "none" /\ s.signature = "none"}

(***************************************************************************)
(* kmain(), selftest::run() and gui::run(), as what they do in order: a    *)
(* phase is entered or left, or some of the work is done.                  *)
(***************************************************************************)
Do(work, args)   == [op |-> work, phase |-> args]
Phase(p, works)  == <<Do("enter", p)>> \o [k \in DOMAIN works |-> Do(works[k], p)] \o <<Do("leave", p)>>
Between(p, works) == [k \in DOMAIN works |-> Do(works[k], p)]

Prologue == <<Do("serial", Nothing), Do("backBuffer", Nothing), Do("setFramebuffer", Nothing),
              Do("attach", Nothing), Do("leave", "Entered")>>

Selftest ==
  Phase("CpuFeatures", <<"cpu">>) \o Phase("Pmu", <<"pmu">>) \o Phase("Counter", <<"counter">>)
    \o Phase("Pci", <<"usb", "namespace">>) \o Phase("Hypervisor", <<"detect">>) \o Between("Hypervisor", <<"integrity">>)

Interface ==
  Between("Hypervisor", <<"clock">>) \o Phase("Acpi", <<"power">>) \o Between("Acpi", <<"pmu", "overhead", "detect">>)
    \o <<Do("enter", "Interface"), Do("firstFrame", "Interface"), Do("input", "Interface")>>

Script ==
  CASE source.arch = "arm"   -> <<Do("serial", Nothing)>> \o Between(Nothing, <<"cpu", "pmu", "counter", "detect", "integrity">>)
    [] source.mode = "none"  -> Prologue \o Selftest
    [] OTHER                 -> Prologue \o Selftest \o Interface

Loader == [kind |-> "loader", phase |-> Nothing, done |-> FALSE]

BootInit ==
  /\ code = [shadow |-> Loader, screen |-> Loader, heard |-> {}, sends |-> source.sends, waits |-> 0, calls |-> 0, alive |-> TRUE]
  /\ walk = [at |-> 1, live |-> TRUE, composited |-> FALSE, stop |-> FALSE, surface |-> FALSE, pc |-> "run"]
  /\ answers = <<>>

At(pc)   == walk.pc = pc
Now      == Script[walk.at]
BootDone == answers # <<>>
Dead     == ~code.alive

(***************************************************************************)
(* A picture, drawn in the buffer if there is one, and what is presented.  *)
(***************************************************************************)
Drawn(c, picture) == IF walk.composited THEN [c EXCEPT !.shadow = picture] ELSE [c EXCEPT !.screen = picture]

Present(c) == IF walk.composited THEN [c EXCEPT !.screen = c.shadow] ELSE c

(***************************************************************************)
(* A line of text: the first byte that the serial line does not take is    *)
(* waited for, and no byte after it.                                       *)
(***************************************************************************)
\* The mistake of waiting for each.
LiveWhatever(c) == TRUE

Live(c) == c.sends

Said(c, text) ==
  IF ~walk.live THEN c
  ELSE IF c.sends THEN [c EXCEPT !.heard = @ \cup {text}] ELSE [c EXCEPT !.waits = @ + 1]

(***************************************************************************)
(* show(): on a surface, usable, with room for the caption.  The first     *)
(* time draws everything, and each presents what it drew.                  *)
(***************************************************************************)
\* The mistake of not presenting: the first boot screens were never seen.
UpdateUnseen(c, phase, done) == Drawn(c, [kind |-> "boot", phase |-> phase, done |-> done])

Update(c, phase, done) == Present(Drawn(c, [kind |-> "boot", phase |-> phase, done |-> done]))

Shows == walk.surface /\ source.mode # "tiny"

Show(phase, done) == IF Shows THEN code' = Update(code, phase, done) ELSE UNCHANGED code

Goes(next) == walk' = [next EXCEPT !.at = @ + 1, !.pc = IF walk.at = Len(Script) THEN "end" ELSE "run"]

Running(op) == At("run") /\ Now.op = op /\ UNCHANGED answers

Enter == Running("enter") /\ Show(Now.phase, FALSE) /\ Goes(walk)
Leave == Running("leave") /\ Show(Now.phase, TRUE) /\ Goes(walk)

(***************************************************************************)
(* The statics: of the same framebuffer, with the buffer it got before.    *)
(***************************************************************************)
SerialInit == Running("serial") /\ code' = Said(code, "booted") /\ Goes([walk EXCEPT !.live = Live(code)])

AttachBackBuffer == Running("backBuffer") /\ Goes([walk EXCEPT !.composited = source.mode \in {"fits", "tiny"}]) /\ UNCHANGED code
SetFramebuffer   == Running("setFramebuffer") /\ Goes([walk EXCEPT !.stop = source.mode # "none"]) /\ UNCHANGED code
AttachProgress   == Running("attach") /\ Goes([walk EXCEPT !.surface = source.mode # "none"]) /\ UNCHANGED code

\* The works of gui::run() say nothing, nor what it does again.
Quiet == Now.op \in {"clock", "power", "overhead", "input"} \/ Now.phase = "Acpi"

(***************************************************************************)
(* hypervisor::detect().  On x86 one call, where the signature is KVM's;   *)
(* on ARM up to three, where the timer's frequency is one that virtual     *)
(* timers have.  A call that nobody implements is the end of the machine.  *)
(***************************************************************************)
Hypercalls ==
  IF source.arch = "arm"
  THEN IF source.hertz # "virtual" THEN 0 ELSE IF source.host = "kvm" THEN 3 ELSE 1
  ELSE IF source.signature = "kvm" THEN 1 ELSE 0

Detect ==
  /\ Running("detect")
  /\ LET told == IF Quiet THEN code ELSE Said(code, "detect")
     IN code' = [told EXCEPT !.calls = @ + Hypercalls, !.alive = Hypercalls > 0 => source.host # Nothing]
  /\ Goes([walk EXCEPT !.live = @ /\ (Quiet \/ Live(code)), !.pc = "run"])

FirstFrame ==
  /\ Running("firstFrame")
  /\ code' = Present(Drawn(code, [kind |-> "interface", phase |-> Nothing, done |-> FALSE]))
  /\ Goes(walk)

Works == {"cpu", "pmu", "counter", "usb", "namespace", "integrity", "clock", "power", "overhead", "input"}

Work ==
  /\ At("run") /\ Now.op \in Works
  /\ IF Quiet THEN UNCHANGED code /\ Goes(walk)
     ELSE code' = Said(code, Now.op) /\ Goes([walk EXCEPT !.live = @ /\ Live(code)])
  /\ UNCHANGED answers

\* Whatever is on the other end of the serial line stops taking bytes.
Wedge == source.wedges /\ code.sends /\ code' = [code EXCEPT !.sends = FALSE] /\ UNCHANGED <<walk, answers>>

(***************************************************************************)
(* A panic, in any of the work: the reason is said, and drawn where there  *)
(* is a framebuffer; then a byte of the 8042 decides, whosever it is.      *)
(***************************************************************************)
Stop ==
  /\ At("run") /\ Now.op \in Works \cup {"detect"}
  /\ LET told == Said(code, "reason")
     IN code' = IF source.arch = "x86" /\ walk.stop
                THEN Drawn(told, [kind |-> "stop", phase |-> Nothing, done |-> FALSE]) ELSE told
  /\ walk' = [walk EXCEPT !.pc = "stopped", !.live = @ /\ Live(code)]
  /\ UNCHANGED answers

WaitForChoice ==
  /\ At("stopped")
  /\ answers' = <<IF source.arch = "arm" THEN "halt" ELSE source.byte>>
  /\ UNCHANGED <<code, walk>>

EndOfScript == At("end") /\ answers' = <<IF source.arch = "x86" /\ source.mode # "none" THEN "interface" ELSE "halt">> /\ UNCHANGED <<code, walk>>

BootNext ==
  /\ ~BootDone /\ ~Dead
  /\ \/ SerialInit \/ AttachBackBuffer \/ SetFramebuffer \/ AttachProgress \/ Enter \/ Leave
     \/ Detect \/ FirstFrame \/ Work \/ Wedge \/ Stop \/ WaitForChoice \/ EndOfScript
  /\ UNCHANGED source

(***************************************************************************)
(* A boot that stops can be placed: where the screen has room for it, work *)
(* done in a phase has that phase on the screen, and work done between     *)
(* two has the one before it, as done.  A line that takes no bytes costs   *)
(* one wait; one that does has heard the reason of a panic.  No host is    *)
(* asked that cannot answer - but for an ARM machine without one, whose    *)
(* timer has a virtual timer's frequency.                                  *)
(***************************************************************************)
Marks(k) == Script[k].op \in {"enter", "leave"}

IsTheLastMark(k, at) == Marks(k) /\ \A j \in k + 1 .. at : ~Marks(j)

BootCanBePlaced ==
  /\ At("run") /\ Shows /\ Now.op \in Works \cup {"detect"} /\ code.screen.kind # "interface" =>
       \E k \in 1 .. walk.at :
         /\ IsTheLastMark(k, walk.at)
         /\ code.screen = [kind |-> "boot", phase |-> Script[k].phase, done |-> Script[k].op = "leave"]
  /\ code.waits <= 1
  /\ At("stopped") /\ code.sends => "reason" \in code.heard
  /\ ~code.alive => source.arch = "arm" /\ source.hertz = "virtual" /\ source.host = Nothing

(***************************************************************************)
(* panic.rs, 28: "a panic shows the reason and waits".                     *)
(***************************************************************************)
ReasonIsShown == At("stopped") /\ walk.stop /\ source.arch = "x86" => code.screen.kind = "stop"

=============================================================================
