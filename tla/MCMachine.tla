----------------------------- MODULE MCMachine ------------------------------
(***************************************************************************)
(* Machines for the jobs of Machine and of Display.                        *)
(***************************************************************************)
EXTENDS Machine, Display, Integers, Sequences, FiniteSets, TLC, SequencesExt, FiniteSetsExt

(***************************************************************************)
(* The jobs that only these checks are about, beside those.                *)
(* Where what a job reads is given, it is in the code.                     *)
(***************************************************************************)
CONSTANTS
  MostInfo, IdentityMap, Half, Limit, Header, MostRoot, MostTable, MostAml,                \* FirmwareTables
  Slots, Functions,                                                                        \* FirmwareTables
  MaxReports, MaxUsages, ByteBits,                                                         \* HidReport
  WidthOf, TitleWidth, ReadoutWidth, Line, MostLaps, Changes,                              \* ScreenLayout
  MaxPath, Budget, IntBits, Depth, EisaName(_), Cid, Uuid, MaxRegister, Windows, GpioPath  \* Aml

OtherJobs == {"loader", "acpi", "pci", "hid", "layout", "pad"}

Tables    == INSTANCE FirmwareTables
HidParser == INSTANCE HidReport
Widgets   == INSTANCE ScreenLayout
Probing   == INSTANCE PadProbe
AmlReader == INSTANCE Aml

Input(s, c) == [source |-> s, code |-> c]

(***************************************************************************)
(* Tags of a loader: a few kinds in every order, with tags between them    *)
(* whose size is not a multiple of eight.                                  *)
(***************************************************************************)
Region(n, a) == [length |-> n, available |-> a]
Map(size)  == [kind |-> "map", size |-> size, entry |-> 24,
               regions |-> <<Region(3, TRUE), Region(5, FALSE), Region(4, TRUE)>>]
Basic      == [kind |-> "basic", size |-> 16, lower |-> 1, upper |-> 6]
Odd(size)  == [kind |-> "other", size |-> size]
Fb(a, rgb) == [kind |-> "framebuffer", size |-> 32, address |-> a, rgb |-> rgb, usable |-> TRUE]
Old        == [kind |-> "old", size |-> 28, signed |-> TRUE, sum20 |-> TRUE, revision |-> 0,
               rsdt |-> 7, xsdt |-> 0, sum36 |-> FALSE]
New(ok, x) == [kind |-> "new", size |-> 44, signed |-> TRUE, sum20 |-> TRUE, revision |-> 2,
               rsdt |-> 0, xsdt |-> x, sum36 |-> ok]

RECURSIVE Placed(_, _)
Placed(tags, at) ==
  IF tags = <<>> THEN <<>>
  ELSE (at :> Head(tags)) @@ Placed(Tail(tags), at + ((Head(tags).size + 7) \div 8) * 8)

RECURSIVE Extent(_)
Extent(tags) == IF tags = <<>> THEN 8 ELSE ((Head(tags).size + 7) \div 8) * 8 + Extent(Tail(tags))

Info(tags) == [aligned |-> TRUE, total |-> Extent(tags) + 8, tags |-> Placed(tags, 8)]

BootTags == {Map(88), Map(64), Basic, Odd(9), Odd(13), Fb(5, TRUE), Fb(5, FALSE), Fb(9, TRUE),
             Old, New(TRUE, 6), New(FALSE, 6), [New(TRUE, 6) EXCEPT !.signed = FALSE]}

BootInputs ==
  {Input(tags, Info(tags)) : tags \in {<<a, b, c>> : a, b, c \in BootTags}} \cup
  {Input(<<>>, [Info(<<Basic, Old>>) EXCEPT !.aligned = FALSE]),
   Input(<<>>, [Info(<<Basic, Old>>) EXCEPT !.total = 15]),
   Input(<<>>, [Info(<<Basic, Old>>) EXCEPT !.total = MostInfo])}

(***************************************************************************)
(* Buses: a bridge on bus 0 and one on bus 1, which may lead anywhere.     *)
(***************************************************************************)
Config(class, header, multi, secondary, bar) ==
  [class |-> class, header |-> header, multi |-> multi, secondary |-> secondary, command |-> {},
   bar |-> bar]

Bars == {[space |-> k, low |-> 3, high |-> 1] : k \in {"io", "mem32", "mem64"}}

Wiring(b0, b1, multi, bar) ==
  (<<0, 0, 0>> :> Config("bridge", 1, multi, b0, bar)) @@ (<<0, 0, 1>> :> Config("bridge", 1, FALSE, b1, bar)) @@
  (<<0, 1, 0>> :> Config("usb", 0, FALSE, 0, bar))    @@ (<<1, 1, 0>> :> Config("bridge", 1, TRUE, b1, bar)) @@
  (<<1, 1, 1>> :> Config("i2c", 0, FALSE, 0, bar))    @@ (<<2, 0, 1>> :> Config("usb", 0, FALSE, 0, bar)) @@
  (<<2, 1, 0>> :> Config("bridge", 1, FALSE, b0, bar)) @@ (<<2, 1, 1>> :> Config("usb", 0, FALSE, 0, bar))

PciInputs ==
  {Input(want, Wiring(b0, b1, multi, bar)) :
     want \in {"any", "usb", "i2c", "none of them"}, b0, b1 \in 0 .. 2, multi \in BOOLEAN, bar \in Bars}

(***************************************************************************)
(* System tables: a narrow root, a wide one, tables low and high in        *)
(* memory, some of which are damaged.                                      *)
(***************************************************************************)
NoneThere == [t |-> "none"]
High      == 2 * Half + 4

TableOf(sig, sum) ==
  [sig |-> sig, length |-> Header, sum |-> sum, cells |-> <<>>,
   fadt |-> [dsdt |-> 3, xdsdt |-> 0, pm1a |-> "pm1a", pm1b |-> "pm1b", length |-> 132,
             resets |-> TRUE, space |-> "io", reset |-> "reset", value |-> 6]]

S5 == Tables!S5Name
Sleeps == {<<8, S5, 8, S5, 18, 0, 4, 10, 5, 10, 5, 0>>, <<S5, 18, 1, 9, 4, 10, 5, 1, 0, 0>>,
           <<S5, 18, 0, 4, 17, 0, 0, 0>>, <<8, 8, S5, 18, 0, 4, 10, 5, 1, 0, 0>>}

RootAt(cells, width, ok) ==
  [TableOf("root", ok) EXCEPT !.length = Header + 4 * Len(cells), !.cells = cells]

\* Tables at 5, 6 and High; damage is a set of addresses.  Where the root is
\* wide so is the address of the DSDT; else what lies past the end of its
\* description is not one.  The last of Sleeps is in a table that is too long
\* to be scanned.
Contents(damage, body, rootOk, wide) ==
  (1 :> RootAt(<<5, 0, 6>>, 4, rootOk)) @@ (2 :> RootAt(<<5, 0, 6, 0, 0, 0, 4, 2>>, 8, rootOk)) @@
  (3 :> [TableOf("DSDT", 3 \notin damage) EXCEPT !.cells = body, !.length = IF Len(body) = 11 THEN 65 ELSE Header]) @@
  (5 :> TableOf("SSDT", 5 \notin damage)) @@
  (6 :> [TableOf("FACP", 6 \notin damage) EXCEPT
           !.fadt.xdsdt = IF wide = "wide" THEN 3 ELSE 9, !.fadt.length = IF wide = "wide" THEN 148 ELSE 132]) @@ (High :> TableOf("SSDT", High \notin damage))

Pointer(ok, revision, ok36) ==
  [sum20 |-> ok, revision |-> revision, sum36 |-> ok36, rsdt |-> 1, xsdt |-> 2]

AcpiMachine(loader, areas, damage, body, rootOk, finally, wide) ==
  Input([loader |-> loader, finally |-> finally, sleep |-> 5, dsdt |-> 3, wide |-> wide,
         truth |-> CASE ~rootOk -> <<>> [] wide = "none" -> <<>>
                     [] wide = "narrow" -> <<5, 6>> [] OTHER -> <<5, 6, High>>],
        [areas |-> areas, memory |-> Contents(damage, body, rootOk, wide)])

AcpiInputs ==
  LET Loaders == {<<[rsdt |-> 1, xsdt |-> 2], "wide">>, <<[rsdt |-> 1, xsdt |-> 0], "narrow">>}
      Scans   == {<< <<>>, "none">>, << <<Pointer(FALSE, 2, TRUE), Pointer(TRUE, 0, FALSE)>>, "narrow">>,
                  << <<Pointer(TRUE, 2, FALSE), Pointer(TRUE, 2, TRUE)>>, "narrow">>,
                  << <<Pointer(TRUE, 2, TRUE)>>, "wide">>}
      Each(M(_, _, _, _)) == {M(d, b, r, f) : d \in SUBSET {3, 5, 6, High}, b \in Sleeps, r \in BOOLEAN,
                                             f \in {"shutdown", "reboot"}}
  IN UNION {Each(LAMBDA d, b, r, f : AcpiMachine(l[1], <<>>, d, b, r, f, l[2])) : l \in Loaders} \cup
     UNION {Each(LAMBDA d, b, r, f : AcpiMachine(NoneThere, s[1], d, b, r, f, s[2])) : s \in Scans}

(***************************************************************************)
(* Transfers.                                                              *)
(***************************************************************************)
Moved(address, out, into) == [address |-> address, out |-> out, into |-> into]

Transfers == {<<Moved(1, 1, 3), Moved(1, 2, 0), Moved(1, 0, 2)>>,
              <<Moved(2, 1, 0), Moved(1, 3, 0), Moved(1, 1, 4)>>, <<Moved(1, 0, 3), Moved(2, 1, 1), Moved(1, 1, 1)>>}

I2cInputs ==
  {Input([transfers |-> t, present |-> {1}, losses |-> n, awake |-> a, timing |-> b], <<>>) :
     t \in Transfers, n \in 0 .. 1, a \in BOOLEAN, b \in {[high |-> 9, low |-> 9], [high |-> 9, low |-> 1]}}

(***************************************************************************)
(* Cores: an Intel one of each version, AMD's three, an Arm one, and what  *)
(* a hypervisor makes of them.                                             *)
(***************************************************************************)
Cores ==
  LET None == [vendor |-> "other", maxLeaf |-> 0, version |-> 0, general |-> 0, fixed |-> 0, width |-> 2,
               noCycles |-> FALSE, extCore |-> FALSE, extended |-> FALSE, stated |-> 0]
  IN {[None EXCEPT !.vendor = v] : v \in {"other", "arm"}} \cup
     {[None EXCEPT !.vendor = "intel", !.maxLeaf = l, !.version = v, !.general = g, !.fixed = f, !.noCycles = n] :
        l \in {9, 10}, v \in 1 .. 2, g \in {0, 2}, f \in {0, 1, 3}, n \in BOOLEAN} \cup
     {[None EXCEPT !.vendor = "amd", !.extCore = e, !.extended = x, !.stated = n] :
        e, x \in BOOLEAN, n \in 0 .. 1}

PmuInputs ==
  {Input(c @@ [leftover |-> l, live |-> live], <<>>) :
     c \in Cores, l \in {0, 3},
     live \in {{}, Counters!Counters, Counters!Counters \ {Counters!CoreCycles},
               Counters!Counters \ {Counters!General(0)}, Counters!Counters \ {Counters!General(1)}}}

(***************************************************************************)
(* Report descriptors.  A part of a report is the items that declare it,   *)
(* the bits it is sent as, and what they mean.                             *)
(***************************************************************************)
It(k, size, v)  == [k |-> k, size |-> size, v |-> v]
Flags(c, v, r)  == It("input", 1, [constant |-> c, variable |-> v, relative |-> r])
Layout0(n, size, count) == <<It("minimum", 1, n), It("size", 1, size), It("count", 1, count)>>
Minus1          == 255
First(n, seq)   == SubSeq(seq, 1, n)
Ones0(n)        == [i \in 1 .. n |-> 1]
One(n)          == [i \in 1 .. n |-> IF i = 1 THEN 1 ELSE 0]
MinusTwo(n)     == [i \in 1 .. n |-> IF i = 1 THEN 0 ELSE 1]

Part(items, bits, means) == [items |-> items, bits |-> bits, means |-> means]

ButtonsPart(n) ==
  Part(<<It("page", 1, "button"), It("least", 1, 1), It("most", 1, n)>> \o Layout0(0, 1, n)
         \o <<Flags(FALSE, TRUE, FALSE)>>,
       First(n, <<1, 0, 1, 1>>), "buttons" :> First(IF n > 3 THEN 3 ELSE n, <<1, 0, 1, 1>>))
PadPart(n) == Part(Layout0(0, n, 1) \o <<Flags(TRUE, FALSE, FALSE)>>, Ones0(n), <<>>)

Motion(wide, v) ==
  IF wide THEN <<[It("usage", 4, v) EXCEPT !.k = "usage"] @@ ("page" :> "desktop")>>
  ELSE <<It("page", 1, "desktop"), It("usage", 1, v)>>
XYPart(n, joined, wide) ==
  Part(IF joined THEN Motion(wide, "x") \o Motion(wide, "y") \o Layout0(Minus1, n, 2) \o <<Flags(FALSE, TRUE, TRUE)>>
       ELSE Motion(wide, "x") \o Layout0(Minus1, n, 1) \o <<Flags(FALSE, TRUE, TRUE)>>
              \o Motion(wide, "y") \o <<Flags(FALSE, TRUE, TRUE)>>,
       Ones0(n) \o One(n), ("x" :> -1) @@ ("y" :> 1))
WheelPart(n) ==
  Part(Motion(FALSE, "wheel") \o Layout0(Minus1, n, 1) \o <<Flags(FALSE, TRUE, TRUE)>>,
       MinusTwo(n), "wheel" :> -2)
LedsPart == Part(<<It("page", 1, "leds"), It("least", 1, 1), It("most", 1, 3), It("output", 1, 0),
                   It("long", 1, 0)>>, <<>>, <<>>)
ModifiersPart ==
  Part(<<It("page", 1, "keyboard"), It("least", 1, "LeftControl"), It("most", 1, "RightGUI")>>
         \o Layout0(0, 1, 8) \o <<Flags(FALSE, TRUE, FALSE)>>,
       One(8), "modifiers" :> One(8))
KeysPart(n) ==
  Part(<<It("page", 1, "keyboard"), It("least", 1, 0), It("most", 1, 7)>> \o Layout0(0, 3, n)
         \o <<Flags(FALSE, FALSE, FALSE)>>,
       FlattenSeq([i \in 1 .. n |-> <<0, 1, 0>>]), "keys" :> [i \in 1 .. IF n > 6 THEN 6 ELSE n |-> 2])

RECURSIVE MeansOf(_)
MeansOf(parts) == IF parts = <<>> THEN <<>> ELSE Head(parts).means @@ MeansOf(Tail(parts))
ItemsOf(parts) == FlattenSeq([i \in DOMAIN parts |-> parts[i].items])
BitsOf(parts)  == FlattenSeq([i \in DOMAIN parts |-> parts[i].bits])

Id(n) == [t |-> "id", n |-> n]

\* A report of a device: its collection's page, its number, its parts.
Sends(page, id, parts) == [page |-> page, id |-> id, parts |-> parts]

Declares(r) ==
  <<It("page", 1, r.page), It("usage", 1, "mouse"), It("collection", 1, 0)>>
    \o (IF r.id = NoneThere THEN <<>> ELSE <<It("id", 1, r.id)>>)
    \o <<It("collection", 1, 0)>> \o ItemsOf(r.parts) \o <<It("end", 0, 0), It("end", 0, 0)>>

IsPointer(r)  == r.page = "desktop" /\ "x" \in DOMAIN MeansOf(r.parts)
IsKeyboard(r) == "keys" \in DOMAIN MeansOf(r.parts)

Meant(r) ==
  [pointer  |-> IF IsPointer(r) THEN MeansOf(r.parts) @@ [buttons |-> <<>>, wheel |-> 0] ELSE NoneThere,
   keyboard |-> IF IsKeyboard(r) THEN MeansOf(r.parts) @@ [modifiers |-> <<>>] ELSE NoneThere]

Device(reports, tail) ==
  Input([reports |-> [i \in DOMAIN reports |->
                  [id |-> reports[i].id, bits |-> BitsOf(reports[i].parts), means |-> Meant(reports[i])]]],
        FlattenSeq([i \in DOMAIN reports |-> Declares(reports[i])]) \o tail)

Mice ==
  {Sends("desktop", id, <<ButtonsPart(b), PadPart(3), XYPart(n, joined, wide)>> \o rest) :
     id \in {NoneThere, Id(1)}, b \in {1, 3, 4}, n \in {2, 5}, joined, wide \in BOOLEAN,
     rest \in {<<>>, <<LedsPart, WheelPart(3)>>}}
Contacts(id) == Sends("digitizer", id, <<XYPart(4, TRUE, FALSE), ButtonsPart(1)>>)
Keyboards    == {Sends("desktop", Id(4), <<ModifiersPart, LedsPart, PadPart(2), KeysPart(n)>>) : n \in {2, 6, 7}}

HidInputs ==
  {Device(<<m>>, tail) : m \in Mice, tail \in {<<>>, <<It("push", 0, 0)>>, <<It("cut", 2, 0)>>}} \cup
  UNION {{Device(<<m, Contacts(Id(2)), k>>, <<>>), Device(<<Contacts(Id(2)), k, m>>, <<>>),
          Device(<<k, Contacts(Id(2)), Contacts(Id(3)), m>>, <<>>)} :
         m \in {m \in Mice : m.id = Id(1)}, k \in Keyboards}

(***************************************************************************)
(* Names that resolve to none, one or two addresses of two families, whose *)
(* servers are ahead or behind, and a clock near the end of an era.        *)
(***************************************************************************)
Servers == [family : {"v4", "v6"}, kind : Times!Kinds]

NtpSources ==
  [addresses : {<<>>} \cup {<<a>> : a \in Servers}, ahead : {-2, 2}, start : {4}, steps : {{1, -1}}] \cup
  [addresses : {<<a, b>> : a \in Servers, b \in {c \in Servers : c.family = "v4" /\ c.kind \in {"honest", "kiss"}}},
   ahead : {2}, start : {4}, steps : {{-1}}] \cup
  [addresses : {<<a, b>> : a, b \in {[family |-> "v4", kind |-> k] : k \in {"honest", "silent"}}},
   ahead : {0}, start : {13}, steps : {{}}]

\* PTP clocks of any order, one of whose names has no number.
HostSources ==
  LET Ptp(name, number) == [name |-> name, number |-> number]
  IN [ahead : {0, 3}, paravirtual : BOOLEAN, opens : BOOLEAN, answers : BOOLEAN,
      clocks : {<<>>, <<Ptp("nic", 0)>>, <<Ptp("nic", 0), Ptp("kvm", 1)>>, <<Ptp("kvm", -1), Ptp("kvm", 1)>>}]

(***************************************************************************)
(* Clock chips of each format, started before a minute, an hour or a day   *)
(* begins; and what else may be said of how fast the counter is.           *)
(***************************************************************************)
NoCrystal == [hz |-> 0, numerator |-> 0, denominator |-> 0]

WallSource(start, hyper, trusted, crystal, base, pit, chip, bcd, twelve) ==
  [start |-> start, hyper |-> hyper, trusted |-> trusted, crystal |-> crystal, base |-> base,
   pit |-> pit, chip |-> chip, bcd |-> bcd, twelve |-> twelve]

WallSources ==
  {WallSource(t, <<Hz>>, TRUE, NoCrystal, 0, TRUE, TRUE, b, w) : t \in {0, 13, 44, 93}, b, w \in BOOLEAN} \cup
  {WallSource(91, h, v, c, b, p, q, TRUE, TRUE) :
     h \in {<<>>, <<1>>}, v, p, q \in BOOLEAN, b \in {0, 5},
     c \in {NoCrystal, [hz |-> 2, numerator |-> 4, denominator |-> 2], [hz |-> 0, numerator |-> 2, denominator |-> 1]}}

(***************************************************************************)
(* Routes on two processors, whose counters agree or do not; threads on    *)
(* one kind of core or two.                                                *)
(***************************************************************************)
RouteSources ==
  [how : {"asleep", "busy"}, route : {"counter", "cycles"},
   ahead : {a \in [Cpus -> {0, 3}] : a[1] = 0}, knowsCpu : BOOLEAN, pin : BOOLEAN, canPin : BOOLEAN, target : Cpus]

PerfSources ==
  [kinds : {{"core"}}, listed : {{}, {"core"}}, opens : SUBSET {"any", "core"}, contended : BOOLEAN] \cup
  [kinds : {{"core", "atom"}}, listed : {{"core", "atom"}}, opens : SUBSET {"core", "atom"}, contended : BOOLEAN]

(***************************************************************************)
(* Sessions, and workloads.                                                *)
(***************************************************************************)
CryptoSources == [kind : {"hash", "cipher"}, fits : BOOLEAN, asked : BOOLEAN, fails : 0 .. 2]

BenchSources ==
  [kernel : {"isa", "hash", "aead", "af_alg", "ring0", "tls"}, offered : BOOLEAN, opens : BOOLEAN]

LoopsOfPasses   == <<1, 2, 2>>
RepeatsOfPasses == <<1, 2, 1>>

(***************************************************************************)
(* Processors of each generation, which show all they have or hide some of *)
(* it, under systems that save all registers or not; and what is wished.   *)
(***************************************************************************)
Old64    == {"mmx", "sse", "sse2"}
Middle   == Old64 \cup {"sse3", "ssse3", "sse41"}
Modern   == Middle \cup {"sse42", "aesni", "pclmulqdq", "rdtscp", "avx", "f16c", "fma", "avx2"}
Newest   == Modern \cup {"avx_vnni", "shani", "avx512f", "avx512bw", "avx512vl", "avx512vnni"}
SmallArm == {"neon", "arm_aes"}
LargeArm == {"neon", "sve", "sve2", "arm_aes", "arm_sha2"}
SmeArm   == {"neon", "sme"}

Wish(b, s, r) == [backend |-> b, simd |-> s, route |-> r]
Wishes == {Wish("", "", ""), Wish("avx2", "avx512f", "rdtscp"), Wish("unheard", "neon", "simd"),
           Wish("legacy", "", "cntvct"), Wish("sve", "sse2", "perf")}

Processor(arch, has, shown, maxLeaf, subleaf, state, windows, denied, wish, perf, room) ==
  [arch |-> arch, has |-> has, shown |-> shown, maxLeaf |-> maxLeaf, subleaf |-> subleaf, state |-> state,
   windows |-> windows, denied |-> denied, wish |-> wish, perf |-> perf, room |-> room]

X86Sources ==
  UNION {{Processor(arch, has, has \ hidden, leaf, leaf = 7, state, w, d, wish, w, 32) :
            arch \in {"x86", "x86_64"}, hidden \in {{}, {"avx2"}, {"avx", "rdtscp"}}, leaf \in {1, 7},
            state \in {{}, {"ymm"}, {"ymm", "zmm"}}, w \in BOOLEAN, d \in {{}, {"avx"}, {"avx512f"}}, wish \in Wishes} :
         has \in {Old64, Middle, Modern, Newest}}

ArmSources ==
  {Processor("aarch64", has, has, 0, FALSE, {}, w, {}, wish, FALSE, room) :
     has \in {SmallArm, LargeArm, SmeArm}, w \in BOOLEAN, wish \in Wishes, room \in {8, 16}}

(***************************************************************************)
(* Guests and none, of which each piece of evidence shows or not.          *)
(***************************************************************************)
Bases(guest) ==
  LET Of(signatures) == [k \in DOMAIN signatures |-> [signature |-> signatures[k]]]
  IN {Of(<<>>), Of(<<"garbled", "">>)} \cup
     (CASE guest = "none"   -> {}
        [] guest = "kvm"    -> {Of(<<"kvm">>), Of(<<"hyperv", "kvm">>)}
        [] guest = "wsl"    -> {Of(<<"hyperv">>)}
        [] OTHER            -> {Of(<<guest>>), Of(<<"", guest>>)})

FilesOf(guest) ==
  CASE guest = "none"   -> {{}}
    [] guest = "xen"    -> SUBSET {"hypervisor", "virtio", "cpuinfo"}
    [] guest = "kvm"    -> SUBSET {"device-tree", "clocksource", "virtio"}
    [] guest = "hyperv" -> SUBSET {"bus", "clocksource"}
    [] guest = "wsl"    -> {{"osrelease"}, {"osrelease", "bus"}}
    [] OTHER            -> {{}, {"virtio"}}

Guest(guest, arch, bit, bases, hertz, null, files, system, says, dmi, ratio, module) ==
  [arch |-> arch, guest |-> guest, bit |-> bit, bases |-> bases, hertz |-> hertz, nullMidr |-> null, files |-> files,
   named |-> guest, system |-> system, says |-> says, dmi |-> IF dmi THEN guest ELSE "none",
   ratio |-> ratio, module |-> module]

Modules(guest) ==
  {<<>>} \cup {<<[accepts |-> a, ratio |-> r]>> :
                 a \in IF guest = "kvm" THEN {"none", "vmcall", "vmmcall"} ELSE {"none"}, r \in {0, 1, 9}}

HyperSources ==
  UNION {{Guest(g, "x86", bit, b, "real", FALSE, f, "linux", FALSE, dmi, r, m) :
            bit, dmi \in IF g = "none" THEN {FALSE} ELSE BOOLEAN, b \in Bases(g), f \in FilesOf(g), r \in {1, 9},
            m \in Modules(g)} :
         g \in {"none", "kvm", "hyperv", "xen", "tcg", "wsl"}} \cup
  UNION {{Guest(g, "arm", FALSE, <<>>, h, n, f, "linux", FALSE, FALSE, r, <<>>) :
            h \in IF g = "tcg" THEN {"real", "emulated"} ELSE IF g = "none" THEN {"real", "emulated"} ELSE {"real", "virt"},
            n \in IF g = "none" THEN {FALSE} ELSE BOOLEAN, f \in FilesOf(g), r \in {1, 9}} :
         g \in {"none", "kvm", "tcg"}} \cup
  UNION {{Guest(g, "x86", FALSE, <<>>, "real", FALSE, {}, system, says, FALSE, 1, <<>>) :
            system \in {"windows", "macos"}, says \in IF g = "none" THEN {FALSE} ELSE BOOLEAN} : g \in {"none", "hyperv", "kvm"}}

(***************************************************************************)
(* Kernels that boot: with a screen or none, one that is too large for the *)
(* buffer or too small for the captions; on hosts that answer or do not.   *)
(***************************************************************************)
BootSources == {s \in Kernel!Boots : s.arch = "x86" => s.hertz = "real"}

(***************************************************************************)
(* Screens; widgets that overhang, have a frame, or are one pixel.         *)
(***************************************************************************)
CanvasSources == Screen!Surfaces

SomeDraws ==
  LET Draw(k, x, y, w, h, c) == [kind |-> k, x |-> x, y |-> y, w |-> w, h |-> h, colour |-> c]
  IN {Draw("fill", 1, 0, 5, 1, 2), Draw("outline", 0, 0, 3, 2, 3), Draw("fill", 2, 1, 1, 1, 5)}

(***************************************************************************)
(* Screens of the boot loader's modes (build.sh, 186), that of a machine   *)
(* without one, and the least there is; texts as wide as in typeface.rs.   *)
(***************************************************************************)
Modes == {<<1920, 1200>>, <<1366, 768>>, <<1280, 1024>>, <<1024, 768>>, <<800, 600>>, <<640, 480>>}

LayoutSources ==
  {[width |-> m[1], height |-> m[2], pad |-> b, rtc |-> b, cycles |-> ~b] : m \in Modes, b \in BOOLEAN}

FaceLines == [body |-> 13, heading |-> 18, title |-> 23, big |-> 119, small |-> 69]

Readouts == [big |-> 980, small |-> 560]

BodyWidths ==
  "  " :> 10 @@ "  gpio gate" :> 61 @@ "  input" :> 38 @@ "  scancodes" :> 64 @@ "  vendor:product" :> 91 @@ " / " :> 16 @@
  " v" :> 11 @@ "0 (once, at boot)" :> 93 @@ "0000-00-00" :> 58 @@ "00:00:00:000" :> 63 @@ "00:00:00:000 RTC" :> 86 @@
  "00:00:00:000:000:000 RTC" :> 128 @@ "0x0000:0x0000" :> 75 @@ "0x2c on 00.1 (found by scan)" :> 156 @@ "1 ns" :> 22 @@
  "10 s" :> 22 @@ "100%" :> 23 @@ "3.0.0" :> 24 @@ "8042 bytes" :> 59 @@ "AES-NI" :> 34 @@ "AVX-512F" :> 46 @@
  "AVX2" :> 24 @@ "CLOCK" :> 30 @@ "CNT" :> 18 @@ "COUNTER" :> 42 @@ "CPU" :> 18 @@ "HYP" :> 18 @@ "HYPERVISOR" :> 59 @@
  "INPUT" :> 29 @@ "INPUT  " :> 39 @@ "INVARIANT" :> 52 @@ "MEM" :> 18 @@ "MEMORY" :> 36 @@ "NANO" :> 24 @@ "PMU" :> 18 @@
  "SHA-NI" :> 34 @@ "SIMPLE" :> 35 @@ "STOPWATCH" :> 54 @@ "TIMER" :> 29 @@ "USB" :> 18 @@ "[1-3] Mode" :> 54 @@
  "[L] Lap" :> 38 @@ "[N] Precision" :> 70 @@ "[R] Restart" :> 62 @@ "[SPACE] Start" :> 74 @@ "[S] Shut down" :> 73 @@
  "[TAB] Panel" :> 60 @@ "[Z] Zero" :> 44 @@ "acpi" :> 22 @@ "acpi root" :> 51 @@ "alarm" :> 28 @@ "allocator" :> 50 @@
  "back buffer" :> 65 @@ "backend" :> 42 @@ "backend's" :> 67 @@ "blind" :> 177 @@ "bytes" :> 38 @@ "card's title" :> 132 @@
  "cmos rtc" :> 47 @@ "compositing" :> 62 @@ "controller device in no acpi table" :> 187 @@ "core type" :> 53 @@
  "corrected-by-ecc" :> 94 @@ "counter" :> 42 @@ "counter rate" :> 71 @@ "counting down" :> 291 @@ "cpuid 15h" :> 50 @@
  "cycles/op" :> 52 @@ "date" :> 24 @@ "ecc" :> 18 @@ "ehci / ohci" :> 60 @@ "eight bytes" :> 136 @@
  "fixed counters" :> 81 @@ "frequency" :> 54 @@ "frequency's" :> 62 @@ "frequency's  cpuid 15h" :> 122 @@
  "general counters" :> 93 @@ "general-purpose" :> 87 @@ "host ns" :> 41 @@ "hypercall" :> 50 @@ "hypercalls" :> 56 @@
  "i2c-hid pad" :> 60 @@ "identity, 1 GiB pages" :> 113 @@ "installed" :> 48 @@ "interrupts" :> 58 @@
  "invariant TSC" :> 73 @@ "jitter" :> 33 @@ "kernel image" :> 67 @@ "lap 6" :> 27 @@ "laps" :> 22 @@
  "loader (multiboot2 tag)" :> 127 @@ "map entries" :> 63 @@ "masked" :> 36 @@ "no" :> 12 @@
  "no keyboard and no pointer" :> 561 @@ "no rtc" :> 35 @@ "none" :> 24 @@ "none, press L" :> 80 @@ "not found" :> 53 @@
  "number" :> 60 @@ "operating system" :> 93 @@ "paging" :> 34 @@ "paired" :> 34 @@ "present" :> 42 @@
  "ps/2 5-button (4-byte)" :> 125 @@ "ps/2 keyboard" :> 77 @@ "ps/2 pointer" :> 69 @@ "rate from" :> 53 @@
  "read overhead" :> 77 @@ "report none @ 0x0000" :> 117 @@ "resolution" :> 56 @@ "root table" :> 57 @@ "route" :> 30 @@
  "route, overhead, jitter, ecc" :> 507 @@ "rsdt (32-bit)" :> 71 @@ "running" :> 220 @@ "seen, not driven" :> 89 @@
  "set 2 (untranslated)" :> 113 @@ "set to" :> 35 @@ "signature" :> 52 @@ "signature's" :> 72 @@ "source" :> 36 @@
  "source   signature" :> 268 @@ "state" :> 30 @@ "step" :> 24 @@ "stopped" :> 42 @@ "sub-second from" :> 88 @@
  "unavailable" :> 60 @@ "uniform" :> 40 @@ "unreported" :> 60 @@ "usb keyboard" :> 71 @@ "usb pointer" :> 63 @@
  "v3.0.0" :> 30 @@ "version" :> 40 @@ "visual only (no sound device)" :> 159 @@ "wall clock" :> 209 @@
  "worst read" :> 59 @@ "xhci" :> 22 @@ "yes" :> 18 @@ "|" :> 4

(***************************************************************************)
(* Controllers, and what is plugged into them and into the other buses; or *)
(* keys are typed meanwhile, or a device is slow.                          *)
(***************************************************************************)
Connected(ctl, config, resets, kbd, mouse, slow, usb, pad, keys) ==
  [ctl |-> ctl, aux |-> mouse # "absent", config |-> config, resets |-> resets, kbd |-> kbd,
   mouse |-> IF mouse = "absent" THEN "none" ELSE mouse, slow |-> slow, usb |-> usb, pad |-> pad, keys |-> keys]

Fresh == {"system"}
Used  == {"system", "interrupts", "translation"}
Ps2Mice  == {"none", "standard", "wheel", "five"}

InputSources ==
  {Connected(ctl, config, r, kbd, mouse, {}, {}, "no device", 0) :
     ctl \in {"open", "closed", "absent"}, config \in {Fresh, Used}, r \in BOOLEAN,
     kbd \in {"none", "plain", "stubborn", "silent"}, mouse \in Ps2Mice} \cup
  {Connected("open", Used, TRUE, kbd, mouse, {}, usb, pad, 0) :
     kbd \in {"none", "plain"}, mouse \in {"absent", "none", "standard"}, usb \in SUBSET {"keyboard", "pointer"},
     pad \in {"touchpad", "no device"}} \cup
  {Connected("open", Used, TRUE, kbd, mouse, slow, {}, "touchpad", IF slow = {} THEN 1 ELSE 0) :
     kbd \in {"plain", "stubborn"}, mouse \in {"none", "five"}, slow \in {{}, {"kbd"}, {"aux"}}}

(***************************************************************************)
(* Touchpads: declared in one of three tables, with the controller in      *)
(* another; at the address declared or not; with pins of each kind of      *)
(* group, and a window that responds or does not.                          *)
(***************************************************************************)
Answering(a, kind, register, resetting, length, reports) ==
  [address |-> a, kind |-> kind, register |-> register, resetting |-> resetting, length |-> length, reports |-> reports]

Node(path, adr, hid, windows) == [path |-> path, adr |-> adr, hid |-> hid, windows |-> windows]
I2cNode(adr)                  == Node(<<"SB", "PC00", "I2C1">>, adr, "", <<>>)
Registers(responds, first, pads, inputs) == [answers |-> responds, first |-> first, pads |-> pads, inputs |-> inputs]

GpioNode(responds, inputs) ==
  Node(<<"SB", "GPI0">>, <<>>, "INTC1056",
       <<Registers(TRUE, 0, 67, {3, 44}), Registers(responds, 67, 102, inputs), Registers(TRUE, 169, 80, {3}),
         Registers(TRUE, 249, 8, {})>>)

PadTable(reads, pads, nodes) == [reads |-> reads, pads |-> pads, nodes |-> nodes]

PadNode(readable, a, register, pin) ==
  [readable |-> readable, address |-> a, register |-> register, bus |-> <<"PC00", "I2C1">>,
   pin |-> IF pin = 0 THEN Probing!None ELSE [bus |-> <<"GPI0">>, pin |-> pin]]

PadSource(tables, works, low, high, losses, touches, slow) ==
  LET Function(at, lpss, bus) == [at |-> at, lpss |-> lpss, works |-> works, bus |-> bus]
  IN [tables |-> tables, addresses |-> <<21, 44>>, losses |-> losses, touches |-> touches, slow |-> slow,
      functions |-> <<Function(<<21, 0>>, TRUE, <<>>), Function(<<21, 1>>, FALSE, <<>>), Function(<<21, 1>>, TRUE, <<low, high>>)>>]

PlainPad == Answering(21, "hid", 32, "deaf", "fits", {"pointer"})
OtherPad == Answering(44, "other", 1, "deaf", "fits", {})

PadTables ==
  LET In(n, i, s) == IF n = i THEN <<s>> ELSE <<>>
  IN {<<PadTable(r, In(p, 1, PadNode(ok, 44, 1, 0)), In(n, 1, I2cNode(adr))),
        PadTable(TRUE, In(p, 2, PadNode(TRUE, 44, 1, 0)), In(n, 2, I2cNode(adr))),
        PadTable(r, In(p, 3, PadNode(ok, 44, 1, 0)), In(n, 3, I2cNode(<<21, 1>>)))>> :
        r, ok \in BOOLEAN, p \in 0 .. 3, n \in 0 .. 3, adr \in {<<>>, <<21, 1>>, <<21, 2>>}}

PadSources ==
  {PadSource(t, TRUE, PlainPad, OtherPad, 0, 0, FALSE) : t \in PadTables} \cup
  {PadSource(<<PadTable(TRUE, <<PadNode(TRUE, a, register, 0)>>, <<I2cNode(<<21, 1>>)>>)>>, works,
             Answering(21, kind, 32, resetting, "fits", {"pointer"}), high, losses, 1, slow) :
     a \in {21, 44}, register \in {0, 7}, works \in BOOLEAN, kind \in {"hid", "other"},
     resetting \in {"deaf", "zeros", "never tells"}, losses \in 0 .. 1, slow \in BOOLEAN,
     high \in {OtherPad, Answering(44, "hid", 7, "never tells", "fits", {"keyboard"})}} \cup
  {PadSource(<<PadTable(TRUE, <<PadNode(TRUE, 21, 32, 0)>>, <<I2cNode(<<21, 1>>)>>)>>, TRUE,
             Answering(21, "hid", 32, "deaf", length, reports), OtherPad, 0, 0, FALSE) :
     length \in {"fits", "empty"}, reports \in SUBSET {"pointer", "keyboard"}} \cup
  {PadSource(<<PadTable(TRUE, <<PadNode(TRUE, 21, 32, pin)>>, <<I2cNode(<<21, 1>>), GpioNode(responds, inputs)>>)>>, TRUE,
             PlainPad, OtherPad, 0, 0, FALSE) :
     pin \in {3, 34, 99, 131, 203, 300, 355}, responds \in BOOLEAN, inputs \in {{}, {3, 11}, 0 .. 101}}

(***************************************************************************)
(* The run.                                                                *)
(***************************************************************************)
Known(sources) == {Input(s, <<>>) : s \in sources}

InputsOf ==
  [j \in Jobs \cup DisplayJobs \cup OtherJobs |->
    CASE j = "loader" -> BootInputs             [] j = "acpi"   -> AcpiInputs
      [] j = "pci"    -> PciInputs              [] j = "hid"    -> HidInputs
      [] j = "i2c"    -> I2cInputs              [] j = "pmu"    -> PmuInputs
      [] j = "ntp"    -> Known(NtpSources)      [] j = "host"   -> Known(HostSources)
      [] j = "route"  -> Known(RouteSources)    [] j = "perf"   -> Known(PerfSources)
      [] j = "crypto" -> Known(CryptoSources)   [] j = "bench"  -> Known(BenchSources)
      [] j = "isa"    -> Known(X86Sources \cup ArmSources)
      [] j = "hyper"  -> Known(HyperSources)    [] j = "boot"   -> Known(BootSources)
      [] j = "wall"   -> Known(WallSources)     [] j = "canvas" -> Known(CanvasSources)
      [] j = "layout" -> Known(LayoutSources)   [] j = "input"  -> Known(InputSources)
      [] j = "pad"    -> Known(PadSources)]

NameOfNumber(n) == IF n = 5 THEN "PNP0C50" ELSE "other"
HidUuid         == <<[k |-> "uuid"]>>
GpioController  == <<"GPI0">>

(***************************************************************************)
(* All jobs.                                                               *)
(***************************************************************************)
\* What is read by these is given before they start.
Given == {"loader", "acpi", "pci", "hid"}

Begun(m) ==
  /\ source = m.source
  /\ IF job \in Given THEN code = m.code ELSE TRUE
  /\ \/ job = "loader" /\ Tables!BootInit
     \/ job = "acpi"   /\ Tables!AcpiInit
     \/ job = "pci"    /\ Tables!PciInit
     \/ job = "hid"    /\ HidParser!HidInit
     \/ job = "layout" /\ Widgets!LayoutInit
     \/ job = "pad"    /\ Probing!PadInit

AmlStarts == job = "aml" /\ \E s \in AmlReader!AmlSources : source = s /\ AmlReader!Start(s)

OtherInit == AmlStarts \/ \E j \in OtherJobs : job = j /\ \E m \in Inputs[j] : Begun(m)

OtherWork ==
  /\ \/ job = "loader" /\ Tables!BootNext
     \/ job = "acpi"   /\ Tables!AcpiNext
     \/ job = "pci"    /\ Tables!PciNext
     \/ job = "hid"    /\ HidParser!HidNext
     \/ job = "layout" /\ Widgets!LayoutNext
     \/ job = "pad"    /\ Probing!PadNext
     \/ job = "aml"    /\ AmlReader!AmlNext
  /\ UNCHANGED job

OtherFinished ==
  \/ job = "loader" /\ Tables!WalksDone
  \/ job = "acpi"   /\ Tables!AcpiDone
  \/ job = "pci"    /\ Tables!ScanDone
  \/ job = "hid"    /\ HidParser!HidDone
  \/ job = "layout" /\ Widgets!LayoutDone
  \/ job = "pad"    /\ Probing!PadDone
  \/ job = "aml"    /\ AmlReader!AmlDone

OtherNext == OtherWork \/ (OtherFinished /\ UNCHANGED vars)

AllSpec == (Init \/ DisplayInit \/ OtherInit) /\ [][Next \/ DisplayNext \/ OtherNext]_vars

(***************************************************************************)
(* The loader's tags, the buses and the system tables are read as they     *)
(* are, each thing once; a touchpad is found where they declare it.        *)
(***************************************************************************)
MachineIsDescribed ==
  /\ job = "loader" => Tables!BootInfoIsRead
  /\ job = "acpi"   => Tables!TablesAreFound
  /\ job = "pci"    => Tables!EveryFunctionOnce
  /\ job = "pad"    => Probing!PadIsTheDeclared

(***************************************************************************)
(* Reports mean to the program what they mean to the device.               *)
(***************************************************************************)
ReportsMeanTheSame == job = "hid" => HidParser!ReportsMeanTheSame

(***************************************************************************)
(* On screens of every size, no widget takes from another.                 *)
(***************************************************************************)
NothingOverlaps == job = "layout" => Widgets!NothingOverlaps

(***************************************************************************)
(* A panic shows its reason (panic.rs, 28).                                *)
(***************************************************************************)
ReasonIsShown == job = "boot" => Kernel!ReasonIsShown

(***************************************************************************)
(* The devices of a table are visited, whatever it has beside them, and    *)
(* what it is asked is answered as it says, or not at all.                 *)
(***************************************************************************)
TablesAreAnswered ==
  job = "aml" => AmlReader!WalkFindsDeclaredDevices /\ AmlReader!AnswersAreTheTables

(***************************************************************************)
(* A read of three bytes from a device that may hold the clock for ever:   *)
(* the driver goes on, the bus need not.                                   *)
(***************************************************************************)
StuckSpec ==
  /\ Started("i2c", Input([transfers |-> <<Moved(1, 1, 3)>>, present |-> {1}, losses |-> 0, awake |-> TRUE,
                    timing |-> [high |-> 9, low |-> 9]], <<>>))
  /\ [][Next]_vars
  /\ WF_vars(I2cBus!Driver /\ UNCHANGED <<source, job>>)
  /\ WF_vars(I2cBus!LeaveReset /\ UNCHANGED <<job, source, walk, answers>>)

BootSpec == (\E m \in Known(BootSources) : Appears("boot", m)) /\ [][DisplayNext]_vars
=============================================================================
