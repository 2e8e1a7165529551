------------------------- MODULE HypervisorEvidence -------------------------
(***************************************************************************)
(* hypervisor.rs: what this machine runs on, from whatever of it shows.    *)
(* The evidence is taken in a fixed order, and the first that names a      *)
(* hypervisor is believed; a verdict is drawn from what sort it was.       *)
(***************************************************************************)
EXTENDS Naturals, Sequences, SequencesExt

CONSTANT Threshold   \* EXIT_RATIO_THRESHOLD

VARIABLES
  source,    \* the machine: what it is, and what of that can be seen
  code,      \* sources, hypervisor and costs so far
  walk,      \* which step of detect() is next
  answers    \* the report

hyperVars == <<source, code, walk, answers>>

Nobody  == "none"
Unnamed == "other"

Printable(base) == base.signature \notin {"", "garbled"}

(***************************************************************************)
(* What is met: what shows of a hypervisor is there, and nothing shows     *)
(* where there is none.                                                    *)
(***************************************************************************)
Files == {"hypervisor", "device-tree", "osrelease", "clocksource", "bus", "virtio", "cpuinfo"}

Guests ==
  {m \in [arch : {"x86", "arm"}, guest : STRING, named : STRING, bit : BOOLEAN, bases : Seq([signature : STRING]),
          hertz : {"real", "virt", "emulated"}, nullMidr : BOOLEAN, files : SUBSET Files,
          system : {"linux", "windows", "macos"}, says : BOOLEAN, dmi : STRING, ratio : Nat,
          module : Seq([accepts : {Nobody, "vmcall", "vmmcall"}, ratio : Nat])] :
     /\ m.named = m.guest /\ m.dmi \in {m.guest, Nobody}
     /\ m.says => m.system # "linux"
     /\ \A k \in DOMAIN m.bases : m.bases[k].signature = "tcg" => m.guest = "tcg"
     /\ m.guest = Nobody =>
          /\ ~m.bit /\ ~m.says /\ m.files = {}
          /\ \A k \in DOMAIN m.bases : ~Printable(m.bases[k])
          /\ \A k \in DOMAIN m.module : m.module[k].accepts = Nobody}

HyperInit ==
  /\ code = [sources |-> {}, hypervisor |-> Nobody, leaf |-> 0, ratio |-> 0, suggests |-> FALSE, called |-> FALSE]
  /\ walk = [pc |-> "cpuid"]
  /\ answers = <<>>

At(pc)    == walk.pc = pc
HyperDone == answers # <<>>

(***************************************************************************)
(* A source is noted; it names the hypervisor where none has yet.          *)
(***************************************************************************)
Names(c, s, h) ==
  [c EXCEPT !.sources = @ \cup {s}, !.hypervisor = IF @ = Nobody THEN h ELSE @]

NotesIf(c, p, s, h) == IF p THEN Names(c, s, h) ELSE c

Step(next, c) == walk' = [walk EXCEPT !.pc = next] /\ code' = c /\ UNCHANGED answers

(***************************************************************************)
(* detect_cpuid(): the feature bit, and the signature of the first of the  *)
(* three bases that has a printable one.  On ARM, the counter's frequency  *)
(* and who made the processor.                                             *)
(***************************************************************************)
CpuidX86 ==
  LET c == NotesIf(code, source.bit, "cpuid-feature-bit", Nobody)
      b == SelectInSeq(source.bases, Printable)
  IN IF b = 0 THEN c
     ELSE [Names(c, "cpuid-vendor-leaf", source.bases[b].signature) EXCEPT !.leaf = b]

CpuidArm ==
  LET c == CASE source.hertz = "virt"    -> Names(code, "arm-cntfrq-el0", Unnamed)
             [] source.hertz = "emulated" -> Names(code, "arm-cntfrq-el0", "tcg")
             [] OTHER                    -> code
  IN NotesIf(c, source.nullMidr, "arm-midr-el1", Unnamed)

DetectCpuid == At("cpuid") /\ Step("files", IF source.arch = "x86" THEN CpuidX86 ELSE CpuidArm)

(***************************************************************************)
(* detect_platform_files().  WSL is a Hyper-V guest whose kernel says more *)
(* than its hypervisor; a virtio bus is anybody's.                         *)
(***************************************************************************)
Wsl(c) ==
  IF "osrelease" \notin source.files THEN c
  ELSE [c EXCEPT !.sources = @ \cup {"proc-cpuinfo"}, !.hypervisor = IF @ \in {Nobody, "hyperv"} THEN "wsl" ELSE @]

DetectPlatformFiles ==
  /\ At("files")
  /\ LET has(f)   == f \in source.files
         listed   == NotesIf(NotesIf(code, has("hypervisor"), "sys-hypervisor", source.named),
                             has("device-tree"), "device-tree", source.named)
         clocked  == NotesIf(Wsl(listed), has("clocksource"), "clocksource", source.named)
         bussed   == NotesIf(NotesIf(clocked, has("bus"), "paravirtual-bus", source.named),
                             has("virtio"), "paravirtual-bus", Nobody)
     IN Step("asked", NotesIf(bussed, has("cpuinfo"), "proc-cpuinfo", Nobody))

(***************************************************************************)
(* detect_windows_registry(), detect_mac_sysctl(), detect_dmi().           *)
(***************************************************************************)
DetectSystem ==
  /\ At("asked")
  /\ Step("dmi", CASE source.system = "windows" /\ source.says -> Names(code, "windows-registry", source.named)
                   [] source.system = "macos" /\ source.says   -> Names(code, "mac-sysctl", source.named)
                   [] OTHER                                    -> code)

DetectDmi == At("dmi") /\ Step("cost", NotesIf(code, source.dmi # Nobody, "dmi", source.dmi))

(***************************************************************************)
(* measure_exit_cost(): the best of many, in shares of a bare read.  On    *)
(* ARM a counter too coarse for the bare read says nothing.                *)
(***************************************************************************)
MeasureExitCost ==
  /\ At("cost")
  /\ LET dear == source.ratio >= Threshold
     IN Step("module", [NotesIf(code, dear, "exit-cost-timing", Nobody) EXCEPT !.ratio = source.ratio, !.suggests = dear])

\* detect_declared_only() does without.
SkipExitCost == At("cost") /\ Step("module", code)

(***************************************************************************)
(* merge_kernel_module(): noted because it is there; its own cost of an    *)
(* exit in place of the estimate, and a hypercall that came back.          *)
(***************************************************************************)
NoKernelModule == At("module") /\ source.module = <<>> /\ Step("conclude", code)

MergeKernelModule ==
  /\ At("module") /\ source.module # <<>>
  /\ LET m == source.module[1]
         c == [code EXCEPT !.sources = @ \cup {"kernel-module"}, !.called = m.accepts # Nobody,
                           !.hypervisor = IF m.accepts = Nobody \/ @ # Nobody THEN @
                                          ELSE IF m.accepts = "vmmcall" THEN "kvm" ELSE Unnamed]
     IN Step("conclude", IF code.ratio > 0 /\ m.ratio > 0
                         THEN [c EXCEPT !.ratio = m.ratio, !.suggests = m.ratio >= Threshold] ELSE c)

(***************************************************************************)
(* conclude() and summary(): an inference raises suspicion, a declaration  *)
(* confirms.                                                               *)
(***************************************************************************)
Inferences == {"exit-cost-timing", "arm-cntfrq-el0", "arm-midr-el1"}

\* The mistake of taking a dear trap for a declaration.
IsDeclaredByCost(s) == s \notin (Inferences \ {"exit-cost-timing"})

IsDeclared(s) == s \notin Inferences

Confidence ==
  IF (\E s \in code.sources : IsDeclared(s)) \/ code.called THEN "confirmed"
  ELSE IF code.sources # {} THEN "suspected" ELSE "none"

Impact ==
  IF code.hypervisor = "tcg" THEN "emulated"
  ELSE IF Confidence = "none" THEN "native" ELSE "hardware-assisted"

Conclude ==
  /\ At("conclude")
  /\ answers' = <<[confidence |-> Confidence, impact |-> Impact, hypervisor |-> code.hypervisor,
                   exit |-> Confidence # "none" /\ code.suggests]>>
  /\ walk' = [walk EXCEPT !.pc = "done"] /\ UNCHANGED code

HyperNext ==
  /\ \/ DetectCpuid \/ DetectPlatformFiles \/ DetectSystem \/ DetectDmi \/ MeasureExitCost \/ SkipExitCost
     \/ NoKernelModule \/ MergeKernelModule \/ Conclude
  /\ UNCHANGED source

(***************************************************************************)
(* A machine that is none is not confirmed to be one - but for the kernel  *)
(* module, which is - however dear its traps, and is native where nothing  *)
(* is odd.  One that declares itself is confirmed, and one whose emulation *)
(* is declared in its signature is never taken for anything less.  What is *)
(* emulated by the report is an emulator, or an ARM counter of a gigahertz.*)
(***************************************************************************)
Declares ==
  \/ source.arch = "x86" /\ (source.bit \/ \E b \in ToSet(source.bases) : Printable(b))
  \/ source.files # {} \/ source.says \/ source.dmi # Nobody

VerdictFollowsTheMachine ==
  \A k \in DOMAIN answers :
    LET r == answers[k]
    IN /\ source.guest = Nobody => /\ r.confidence = "confirmed" => source.module # <<>>
                                   /\ r.hypervisor \in {Nobody, "tcg", Unnamed}
       /\ Declares => r.confidence = "confirmed" /\ r.impact # "native"
       /\ source.arch = "x86" /\ (\E b \in DOMAIN source.bases : b = 1 /\ source.bases[b].signature = "tcg")
          => r.impact = "emulated"
       /\ r.impact = "emulated" => source.guest = "tcg" \/ (source.arch = "arm" /\ source.hertz = "emulated")

=============================================================================
