------------------------------ MODULE IsaChoice ------------------------------
(***************************************************************************)
(* cpu.rs, backend.rs, simd.rs and dispatch.rs: what the processor is      *)
(* asked, what is chosen by it, and what is run then.  An instruction that *)
(* the processor does not have, or whose registers the system does not     *)
(* save, is the end of the program (or, in the kernel, of the machine).    *)
(***************************************************************************)
EXTENDS Naturals, Sequences, SequencesExt

VARIABLES
  source,    \* the processor, what it shows, what the system saves, the wishes
  code,      \* the features that were detected
  walk,      \* what is chosen, and why
  answers    \* what has been run

isaVars == <<source, code, walk, answers>>

(***************************************************************************)
(* Processors: what shows is there, what is there is built on what came    *)
(* before, and some of it all of that architecture have, and show.  The    *)
(* one 32-bit target that is built, i686-linux-android, is of processors   *)
(* that have SSE2.                                                         *)
(***************************************************************************)
OfX86 ==
  {"mmx", "sse", "sse2", "sse3", "ssse3", "sse41", "sse42", "aesni", "pclmulqdq", "rdtscp", "shani", "avx", "f16c",
   "fma", "avx2", "vaes", "avx_vnni", "avx512f", "avx512bw", "avx512vl", "avx512vnni"}
OfArm == {"neon", "sve", "sve2", "sme", "arm_aes", "arm_sha2"}

Foundations ==
  {<<"sse3", "sse2">>, <<"ssse3", "sse2">>, <<"sse41", "sse2">>, <<"f16c", "avx">>, <<"fma", "avx">>, <<"avx2", "avx">>,
   <<"avx512f", "avx">>, <<"avx_vnni", "avx2">>, <<"avx_vnni", "avx">>, <<"avx512vnni", "avx512f">>,
   <<"avx512vnni", "avx">>, <<"sve2", "sve">>}

Processors ==
  {p \in [arch : {"x86", "x86_64", "aarch64"}, has : SUBSET (OfX86 \cup OfArm), shown : SUBSET (OfX86 \cup OfArm),
          maxLeaf : Nat, subleaf : BOOLEAN, state : SUBSET {"ymm", "zmm"}, windows : BOOLEAN, denied : SUBSET OfX86,
          wish : [backend : STRING, simd : STRING, route : STRING], perf : BOOLEAN, room : Nat] :
     /\ p.shown \subseteq p.has
     /\ p.has \subseteq IF p.arch = "aarch64" THEN OfArm ELSE OfX86
     /\ \A d \in Foundations : d[1] \in p.has => d[2] \in p.has
     /\ p.arch = "aarch64" => "neon" \in p.has
     /\ p.arch # "aarch64" => {"sse", "sse2"} \subseteq p.has
     /\ p.arch = "x86_64" => {"sse", "sse2"} \subseteq p.shown \ p.denied /\ p.maxLeaf > 0}

Nothing == "none"

IsaInit ==
  /\ code = {}
  /\ walk = [pc |-> "detect", backend |-> Nothing, simd |-> Nothing, route |-> Nothing, why |-> <<>>]
  /\ answers = <<>>

At(pc) == walk.pc = pc

(***************************************************************************)
(* detect_x86().  A feature is one that CPUID shows, in a leaf there is,   *)
(* and whose register file the system saves.                               *)
(***************************************************************************)
Wide512 == {"avx512f", "avx512bw", "avx512vl", "avx512vnni"}
Wide256 == {"fma", "avx", "f16c", "avx2", "vaes", "avx_vnni"}
Leaf7   == Wide512 \cup {"avx2", "shani", "vaes", "avx_vnni"}

StateOf(f) == IF f \in Wide512 THEN {"ymm", "zmm"} ELSE IF f \in Wide256 THEN {"ymm"} ELSE {}

\* The mistake of taking what CPUID says for what can be run.
SavedWithoutAsking(f) == TRUE

Saved(f) == StateOf(f) \subseteq source.state

LeafOf(f) == IF f \in Leaf7 THEN 7 ELSE 1

DetectX86 ==
  {f \in source.shown : /\ LeafOf(f) <= source.maxLeaf /\ Saved(f)
                        /\ f = "avx_vnni" => (source.subleaf /\ "avx2" \in source.shown)}

\* What Windows denies; without AVX, what is encoded as AVX is out as well.
CrossCheckWithWindows(f) ==
  LET kept == f \ (source.denied \cup IF "avx512f" \in source.denied THEN Wide512 ELSE {})
  IN IF source.arch = "aarch64" \/ "avx" \in kept THEN kept ELSE kept \ {"f16c", "fma", "avx_vnni", "vaes"}

Detect ==
  /\ At("detect")
  /\ code' = LET f == IF source.arch = "aarch64" THEN source.shown ELSE DetectX86
             IN IF source.windows THEN CrossCheckWithWindows(f) ELSE f
  /\ walk' = [walk EXCEPT !.pc = "backend"]
  /\ UNCHANGED answers

(***************************************************************************)
(* Backends and families, the widest first.  They have the name of their   *)
(* feature, but for the portable one.                                      *)
(***************************************************************************)
Sse       == <<"sse42", "sse41", "ssse3", "sse3", "sse2", "sse", "mmx">>
ArmOrder  == <<"sme", "sve2", "sve", "neon">>
X86Order  == <<"avx512vnni", "avx512f", "avx_vnni", "avx2", "fma", "f16c", "avx">> \o Sse
SimdOrder == <<"avx512vnni", "avx512f", "avx_vnni", "avx2", "avx", "fma", "f16c">> \o Sse

Families == ToSet(X86Order) \cup ToSet(ArmOrder)
Backends == Families \cup {"legacy"}

IsAvailable(b)     == b = "legacy" \/ (source.arch # "x86" /\ b \in code)
SimdIsAvailable(f) == source.arch # "x86" /\ f \in code

First(order, Ok(_)) == LET n == SelectInSeq(order, Ok) IN IF n = 0 THEN Nothing ELSE order[n]

BestBackend ==
  LET b == First(IF source.arch = "aarch64" THEN ArmOrder ELSE X86Order, IsAvailable)
  IN IF b = Nothing THEN "legacy" ELSE b

BestSimd == First(IF source.arch = "aarch64" THEN ArmOrder ELSE SimdOrder, SimdIsAvailable)

(***************************************************************************)
(* Clock routes.                                                           *)
(***************************************************************************)
Counters == {"rdtsc-raw", "lfence-rdtsc", "mfence-rdtsc"}
ArmRoutes == {"cntfrq", "cntvct", "isb-cntvct"}

RouteIsAvailable(r) ==
  \/ r \in Counters /\ source.arch # "aarch64"
  \/ r = "rdtscp" /\ "rdtscp" \in source.shown
  \/ r \in ArmRoutes /\ source.arch = "aarch64"
  \/ r = "perf" /\ source.perf
  \/ r = "simd" /\ BestSimd # Nothing
  \/ r \in {"wall", "monotonic"}

BestRoute ==
  IF BestSimd # Nothing THEN "simd" ELSE IF source.arch = "aarch64" THEN "isb-cntvct" ELSE "rdtscp"

(***************************************************************************)
(* Dispatcher::resolve().  A wish is a name; an unknown one is refused,    *)
(* but of a backend it is as if there were none.                           *)
(***************************************************************************)
Chosen(wish, known, ok, best, otherwise) ==
  IF wish = "" \/ ~known THEN <<best, otherwise>>
  ELSE IF ok THEN <<wish, "overridden">> ELSE <<best, "override-rejected">>

Select(field, next, choice) ==
  /\ walk' = [walk EXCEPT !.pc = next, ![field] = choice[1], !.why = Append(@, choice[2])]
  /\ UNCHANGED <<code, answers>>

SelectBackend ==
  /\ At("backend")
  /\ Select("backend", "simd",
            Chosen(source.wish.backend, source.wish.backend \in Backends, IsAvailable(source.wish.backend),
                   BestBackend, IF BestBackend = "legacy" /\ "sse2" \notin code THEN "fallback" ELSE "detected"))

SelectSimd ==
  /\ At("simd")
  /\ Select("simd", "route",
            Chosen(source.wish.simd, TRUE, source.wish.simd \in Families /\ SimdIsAvailable(source.wish.simd),
                   BestSimd, IF BestSimd = Nothing THEN "fallback" ELSE "detected"))

SelectRoute ==
  /\ At("route")
  /\ Select("route", "ready",
            Chosen(source.wish.route, TRUE, RouteIsAvailable(source.wish.route), BestRoute, "detected"))

(***************************************************************************)
(* What the kernels and the probes are written in, and the reads of the    *)
(* counter around a probe: LFENCE and MFENCE came with SSE2, and an end is *)
(* read by RDTSCP where CPUID shows it, by LFENCE and RDTSC elsewhere.     *)
(***************************************************************************)
Timed == IF source.arch = "aarch64" THEN {} ELSE {"sse2"} \cup ({"rdtscp"} \cap source.shown)

KernelNeeds(b) ==
  CASE b = "mmx"   -> {"mmx"}          [] b = "sse"   -> {"sse", "sse2"}
    [] b = "sse2"  -> {"sse2"}         [] b = "sse3"  -> {"sse2", "sse3"}
    [] b = "ssse3" -> {"sse2", "ssse3"} [] b = "sse41" -> {"sse2", "sse41"}
    [] b = "sse42" -> {"sse42"}        [] b = "avx"   -> {"avx"}
    [] b \in {"f16c", "fma", "avx2", "avx512f"} -> {"avx", b}
    [] b = "avx_vnni"   -> {"avx", "avx2", "avx_vnni"}
    [] b = "avx512vnni" -> {"avx", "avx512f", "avx512vnni"}
    [] b \in ToSet(ArmOrder) -> {"neon"}
    [] OTHER -> {}

ProbeNeeds(f) ==
  CASE f = "sse"  -> {"sse"}
    [] f = "sse3" -> {"sse", "sse2", "sse3"}
    [] f \in {"sve", "sve2", "sme"} -> {"sve"}
    [] OTHER -> KernelNeeds(f)

VectorBytes(f) ==
  CASE f = "mmx" -> 8 [] f \in {"fma", "avx", "avx2", "avx_vnni"} -> 32
    [] f \in {"avx512f", "avx512vnni"} -> 64 [] OTHER -> 16

CryptoFlags(k) ==
  CASE k = "aes" -> {"aesni", "arm_aes"} [] k = "sha256" -> {"shani", "arm_sha2"} [] OTHER -> {"pclmulqdq"}

CryptoNeeds(k) ==
  IF source.arch = "aarch64"
  THEN CASE k = "aes" -> {"arm_aes"} [] k = "sha256" -> {"arm_sha2"} [] OTHER -> {"pclmulqdq"}
  ELSE CASE k = "aes" -> {"sse2", "aesni"} [] k = "sha256" -> {"sse2", "shani"} [] OTHER -> {"sse2", "pclmulqdq"}

(***************************************************************************)
(* What callers run: a kernel of the chosen backend or of one they name, a *)
(* crypto kernel, a probe over buffers of some length, the cost of a read. *)
(***************************************************************************)
Ran(what, needs, bytes) ==
  /\ At("ready") /\ answers = <<>>
  /\ answers' = <<[what |-> what, needs |-> needs, bytes |-> bytes]>>
  /\ UNCHANGED <<code, walk>>

RunKernel == Ran("kernel", KernelNeeds(walk.backend), 0)

RunKernelFor(b) == IsAvailable(b) /\ Ran("kernel", KernelNeeds(b), 0)

RunCryptoKernel(k) ==
  /\ CryptoFlags(k) \cap code # {} /\ source.arch # "x86"
  /\ Ran("crypto", CryptoNeeds(k), 0)

Probe(f, vector) ==
  /\ SimdIsAvailable(f) /\ VectorBytes(f) <= source.room
  /\ IF vector THEN Ran("probe", ProbeNeeds(f) \cup Timed, VectorBytes(f)) ELSE Ran("probe", Timed, 8)

\* read_overhead_cycles(), with which the cost of an exit is compared.  It asks
\* for nothing.
ReadOverhead == source.arch # "aarch64" /\ Ran("overhead", {"sse2", "rdtscp"}, 0)

\* A counter at the start and the end of an interval, whatever route it is.
ReadCounter == Ran("counter", Timed, 0)

IsaNext ==
  /\ \/ Detect \/ SelectBackend \/ SelectSimd \/ SelectRoute
     \/ RunKernel \/ ReadOverhead \/ ReadCounter
     \/ \E b \in Backends : RunKernelFor(b)
     \/ \E k \in {"aes", "sha256", "carryless"} : RunCryptoKernel(k)
     \/ \E f \in Families, vector \in BOOLEAN : Probe(f, vector)
  /\ UNCHANGED source

IsaDone == answers # <<>>

(***************************************************************************)
(* Nothing is run that the processor lacks or whose registers the system   *)
(* does not save, whatever is wished for, hidden or denied, and no probe   *)
(* goes past its buffers.  Two instructions are run unasked: RDTSCP, for   *)
(* the cost of a read, by a processor that may not have it ("Nothing ever  *)
(* executes an instruction that CPUID did not confirm", backend.rs, 8),    *)
(* and SVE's, for the probe of a processor with SME alone.  What was       *)
(* chosen is there, and is what was wished for if it says so - but for the *)
(* route of a 32-bit processor without RDTSCP.                             *)
(***************************************************************************)
Runs(f) == f \in source.has /\ StateOf(f) \subseteq source.state

Unasked(a) ==
  CASE a.what = "overhead" -> {"rdtscp"}
    [] a.what = "probe" /\ "sme" \in source.has -> {"sve"}
    [] OTHER -> {}

NothingMissingIsRun ==
  /\ \A k \in DOMAIN answers : /\ \A f \in answers[k].needs \ Unasked(answers[k]) : Runs(f)
                               /\ answers[k].bytes <= source.room
  /\ At("ready") =>
       /\ IsAvailable(walk.backend) /\ (walk.simd = Nothing \/ SimdIsAvailable(walk.simd))
       /\ RouteIsAvailable(walk.route) \/ (source.arch = "x86" /\ walk.route = "rdtscp")
       /\ walk.why[1] = "overridden" => walk.backend = source.wish.backend
       /\ walk.why[2] = "overridden" => walk.simd = source.wish.simd
       /\ walk.why[3] = "overridden" => walk.route = source.wish.route

=============================================================================
