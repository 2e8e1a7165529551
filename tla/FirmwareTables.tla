--------------------------- MODULE FirmwareTables ---------------------------
(***************************************************************************)
(* nanochrono-baremetal/src/multiboot.rs: what the boot loader says of the *)
(* machine, read out of its list of tags by three walks, one after the     *)
(* other: for the framebuffer, for the memory, for the ACPI root.          *)
(*                                                                         *)
(* The list is given as the offsets at which there are tags.  A reader     *)
(* that arrives anywhere else reads something of no size.                  *)
(*                                                                         *)
(* nanochrono-baremetal/src/acpi.rs: the root of the ACPI tables, the      *)
(* tables it lists, and switching the machine off or restarting it through *)
(* what they say.                                                          *)
(*                                                                         *)
(* nanochrono-baremetal/src/pci.rs: enumeration of every function of every *)
(* bus behind bus 0, one reachable through another however the bridges     *)
(* are numbered, and of a device that is looked for.                       *)
(*                                                                         *)
(* Memory is a function of addresses, each of a high and a low half of     *)
(* Half values.                                                            *)
(***************************************************************************)
EXTENDS Naturals, Sequences, FiniteSets, TLC, SequencesExt, FiniteSetsExt

CONSTANTS
  MostInfo, IdentityMap,   \* 1 MiB of tags, 512 GiB of addresses
  Half,   \* 2^32
  Limit,   \* MAPPED_LIMIT
  Header,   \* the bytes of a table's header: 36
  MostRoot,   \* the longest root believed: 64 KiB
  MostTable, MostAml,   \* the longest table found or scanned, and of AML: 1 and 4 MiB
  Slots, Functions   \* 32 slots a bus, 8 functions a device

VARIABLES
  source,    \* the machine, and what is asked of it
  code,      \* what the world does beside the reader
  walk,      \* where the reader is
  answers    \* what came of it

None   == [t |-> "none"]
Memory == [total |-> 0, regions |-> 0]

Walks  == <<"framebuffer", "memory", "rsdp">>
Start0 == [framebuffer |-> None, memory |-> Memory, rsdp |-> None]

(***************************************************************************)
(* The list.                                                               *)
(***************************************************************************)
\* The mistake of walking by the declared size alone.
AfterUnaligned(at, size) == at + size

\* Tags start at multiples of eight.
After(at, size) == at + ((size + 7) \div 8) * 8

TagAt(at) == IF at \in DOMAIN code.tags THEN code.tags[at] ELSE [kind |-> "end", size |-> 0]

Readable == code.aligned /\ 16 <= code.total /\ code.total < MostInfo

(***************************************************************************)
(* What each walk takes from a tag.                                        *)
(***************************************************************************)
\* A framebuffer that is not of direct colours, or that nothing is mapped at,
\* is none.
Framebuffer(tag) ==
  IF tag.rgb /\ tag.address # 0 /\ tag.address < IdentityMap /\ tag.usable
  THEN [t |-> "fb", address |-> tag.address] ELSE None

\* The entries of a map that are whole within its tag.
MapEntries(tag) ==
  IF tag.entry < 24 THEN <<>>
  ELSE SubSeq(tag.regions, 1, Min({Len(tag.regions), (tag.size - 16) \div tag.entry}))

AddMap(memory, tag) ==
  LET available == SelectSeq(MapEntries(tag), LAMBDA r : r.available)
  IN [total   |-> memory.total + FoldSeq(LAMBDA r, sum : r.length + sum, 0, available),
      regions |-> memory.regions + Len(available)]

\* The coarse tag counts only while nothing else has.
AddBasic(memory, tag) ==
  IF memory.total = 0 THEN [memory EXCEPT !.total = tag.lower + tag.upper] ELSE memory

\* A copy of the root pointer, if its sums are right.  The wide half counts
\* from revision 2 and has a sum of its own.
Rsdp(tag) ==
  LET xsdt == IF tag.revision >= 2 /\ tag.size - 8 >= 36 /\ tag.sum36 THEN tag.xsdt ELSE 0
  IN IF tag.size - 8 >= 20 /\ tag.signed /\ tag.sum20 /\ (tag.rsdt # 0 \/ xsdt # 0)
     THEN [t |-> "rsdp", rsdt |-> tag.rsdt, xsdt |-> xsdt] ELSE None

\* The tag of ACPI 2.0 replaces whatever there is, the old one nothing.
Better(best, tag) ==
  IF Rsdp(tag) # None /\ (tag.kind = "new" \/ best = None) THEN Rsdp(tag) ELSE best

Take(name, has, tag) ==
  CASE name = "memory" /\ tag.kind = "map" /\ tag.size >= 16   -> AddMap(has, tag)
    [] name = "memory" /\ tag.kind = "basic" /\ tag.size >= 16 -> AddBasic(has, tag)
    [] name = "rsdp" /\ tag.kind \in {"old", "new"}            -> Better(has, tag)
    [] OTHER                                                   -> has

(***************************************************************************)
(* The walks.                                                              *)
(***************************************************************************)
Begin(i) == [i |-> i, at |-> 8, has |-> Start0[Walks[i]]]

BootInit == walk = Begin(1) /\ answers = <<>>

WalksDone == walk.i > Len(Walks)
Ahead     == TagAt(walk.at)
AtEnd     == ~Readable \/ walk.at + 8 > code.total \/ Ahead.kind = "end" \/ Ahead.size < 8

Return(v) ==
  /\ answers' = Append(answers, v)
  /\ walk' = IF walk.i = Len(Walks) THEN [walk EXCEPT !.i = @ + 1] ELSE Begin(walk.i + 1)

EndWalk == ~WalksDone /\ AtEnd /\ Return(walk.has)

IsFramebuffer == Walks[walk.i] = "framebuffer" /\ Ahead.kind = "framebuffer" /\ Ahead.size >= 32

\* The first framebuffer is the answer, usable or not.
TakeFramebuffer == ~WalksDone /\ ~AtEnd /\ IsFramebuffer /\ Return(Framebuffer(Ahead))

StepTag ==
  /\ ~WalksDone /\ ~AtEnd /\ ~IsFramebuffer
  /\ walk' = [walk EXCEPT !.at = After(@, Ahead.size), !.has = Take(Walks[walk.i], @, Ahead)]
  /\ UNCHANGED answers

BootNext == (EndWalk \/ TakeFramebuffer \/ StepTag) /\ UNCHANGED <<source, code>>

(***************************************************************************)
(* What the loader said is what is read, whatever the sizes of the tags    *)
(* and whatever stands between them: the first framebuffer if it can be    *)
(* used, the newest root whose sums are right, and the memory of the map,  *)
(* or of the coarse tag where there is no map.  A coarse tag before a map  *)
(* is counted beside it.                                                   *)
(***************************************************************************)
Said(kinds) == SelectSeq(source, LAMBDA tag : tag.kind \in kinds)

MapTotal ==
  FoldSeq(LAMBDA tag, sum : AddMap(Memory, tag).total + sum, 0, Said({"map"}))

CoarseFirst ==
  \E i, j \in DOMAIN source : i < j /\ source[i].kind = "basic" /\ source[j].kind = "map"

Roots(kind) == SelectSeq(Said({kind}), LAMBDA tag : Rsdp(tag) # None)

BootInfoIsRead ==
  /\ Len(answers) >= 1 =>
       answers[1] = IF Said({"framebuffer"}) = <<>> THEN None ELSE Framebuffer(Said({"framebuffer"})[1])
  /\ Len(answers) >= 2 =>
       \/ CoarseFirst
       \/ answers[2].total = IF MapTotal > 0 \/ Said({"basic"}) = <<>> THEN MapTotal
                             ELSE Said({"basic"})[1].lower + Said({"basic"})[1].upper
  /\ Len(answers) >= 3 =>
       answers[3] = CASE Roots("new") # <<>> -> Rsdp(Last(Roots("new")))
                      [] Roots("old") # <<>> -> Rsdp(Roots("old")[1])
                      [] OTHER -> None

Mapped(address, length) ==
  address # 0 /\ address < Limit /\ length <= Limit - address

\* Nothing is known of memory that no table is in, but that it has no sum.
Junk == [sig |-> "junk", length |-> 0, sum |-> FALSE, cells |-> <<>>]
At(address) == IF address \in DOMAIN code.memory THEN code.memory[address] ELSE Junk

Address(low, high) == high * Half + low

(***************************************************************************)
(* The root: what the loader passed, the wide one first, or else the first *)
(* root pointer in the two areas whose sum is right.                       *)
(***************************************************************************)
Root(address, entry) == [t |-> "root", address |-> address, cells |-> entry]

LoaderRoot ==
  CASE source.loader = None   -> None
    [] source.loader.xsdt # 0 -> Root(source.loader.xsdt, 2)
    [] OTHER                  -> Root(source.loader.rsdt, 1)

\* What one pointer leads to.
RootOf(rsdp) ==
  CASE ~rsdp.sum20 -> None
    [] rsdp.revision >= 2 /\ rsdp.sum36 /\ rsdp.xsdt # 0 /\ Mapped(rsdp.xsdt, Header)
                   -> Root(rsdp.xsdt, 2)
    [] rsdp.rsdt # 0 /\ Mapped(rsdp.rsdt, Header) -> Root(rsdp.rsdt, 1)
    [] OTHER       -> None

ScanForRsdp ==
  LET roots == SelectSeq([i \in DOMAIN code.areas |-> RootOf(code.areas[i])], LAMBDA r : r # None)
  IN IF roots = <<>> THEN None ELSE roots[1]

FindRoot ==
  IF LoaderRoot # None /\ Mapped(LoaderRoot.address, Header) THEN LoaderRoot ELSE ScanForRsdp

\* root_source(): how the root was found, for the report.
RootSource ==
  CASE LoaderRoot # None  -> "loader"
    [] ScanForRsdp # None -> "scan"
    [] OTHER              -> "none"

\* A length that is neither too short nor too long.
Fits(address, most) == Header <= At(address).length /\ At(address).length <= most

\* A table that is believed fits, is all mapped, and has its sum.
Believed(address, most) ==
  Fits(address, most) /\ Mapped(address, At(address).length) /\ At(address).sum

RootBelieved == FindRoot # None /\ Believed(FindRoot.address, MostRoot)

\* The address of an entry: of one cell, or of two where the root is wide.
Entry(i) ==
  LET cells == At(FindRoot.address).cells
  IN IF FindRoot.cells = 2 THEN Address(cells[2 * i - 1], cells[2 * i]) ELSE cells[i]

Entries ==
  IF RootBelieved THEN (At(FindRoot.address).length - Header) \div (4 * FindRoot.cells) ELSE 0

(***************************************************************************)
(* Walks: find_table(FACP), for_each_ssdt, for_each_table_signature.       *)
(***************************************************************************)
Asks == <<"FACP", "SSDT", "any">>

AcpiInit == walk = [ask |-> 1, i |-> 1] /\ answers = <<>>

Ask       == Asks[walk.ask]
RootsDone == walk.ask > Len(Asks)
NextWalk  == walk' = [ask |-> walk.ask + 1, i |-> 1]

EndRoots ==
  /\ ~RootsDone /\ walk.i > Entries
  /\ NextWalk /\ UNCHANGED answers

\* find_table() does not ask if the whole of a table is mapped.
Visited(address) ==
  /\ Mapped(address, Header)
  /\ Ask # "any" => At(address).sig = Ask
  /\ Ask = "FACP" => Fits(address, MostTable) /\ At(address).sum
  /\ Ask = "SSDT" => Believed(address, MostAml)

VisitEntry ==
  /\ ~RootsDone /\ walk.i <= Entries
  /\ IF Visited(Entry(walk.i))
     THEN /\ answers' = Append(answers, [ask |-> Ask, at |-> Entry(walk.i)])
          /\ IF Ask = "FACP" THEN NextWalk ELSE walk' = [walk EXCEPT !.i = @ + 1]
     ELSE walk' = [walk EXCEPT !.i = @ + 1] /\ UNCHANGED answers

(***************************************************************************)
(* Power.                                                                  *)
(***************************************************************************)
AnswersTo(ask) == SelectSeq(answers, LAMBDA a : a.ask = ask)

Fadt == IF AnswersTo("FACP") = <<>> THEN None ELSE At(AnswersTo("FACP")[1].at).fadt

\* dsdt(): the wide address where the table is long enough to have one.
Dsdt ==
  LET address == IF Fadt.length >= 148 /\ Fadt.xdsdt # 0 THEN Fadt.xdsdt ELSE Fadt.dsdt
  IN IF Fadt # None /\ Believed(address, MostAml) THEN address ELSE 0

ReadDsdt ==
  /\ RootsDone /\ AnswersTo("dsdt") = <<>>
  /\ answers' = Append(answers, [ask |-> "dsdt", at |-> Dsdt, root |-> RootSource])
  /\ UNCHANGED walk

\* Bytes of the table; the name _S5_ is taken for one.
PackageOp == 18
BytePrefix == 10
S5Name == 256
Unread == 256   \* no byte's value

\* A small constant: zero, one, or a byte behind its prefix; and what follows.
Constant(body, p) ==
  CASE p \notin DOMAIN body -> [v |-> Unread, p |-> p]
    [] body[p] \in {0, 1}   -> [v |-> body[p], p |-> p + 1]
    [] body[p] = BytePrefix /\ p + 1 \in DOMAIN body -> [v |-> body[p + 1], p |-> p + 2]
    [] OTHER                -> [v |-> Unread, p |-> p]

\* The two sleep types of the first _S5_ that a package follows, but for the
\* end of the table: behind the package's length, of one byte and those that
\* its lead counts, and its element count.
SleepTypes(body) ==
  LET named == {i \in DOMAIN body : i + 4 < Len(body) /\ body[i] = S5Name /\ body[i + 1] = PackageOp}
      i     == CHOOSE i \in named : \A j \in named : i <= j
      a     == Constant(body, i + 2 + 1 + body[i + 2] + 1)
  IN IF named = {} THEN [a |-> Unread, b |-> Unread]
     ELSE [a |-> a.v, b |-> Constant(body, a.p).v]

\* power_registers() scans what is at the narrow address, whatever its
\* signature and sum.
Sleep ==
  LET dsdt == Fadt.dsdt
  IN IF Mapped(dsdt, Header) /\ Fits(dsdt, MostTable) /\ Mapped(dsdt, At(dsdt).length)
     THEN SleepTypes(At(dsdt).cells) ELSE [a |-> Unread, b |-> Unread]

\* A port by its register's name, "none" for an address of zero.
Out(port, value) == [ask |-> "port", port |-> port, value |-> value]

\* The declared registers, then what emulators have.
ShutdownWrites ==
  LET declared == Fadt # None /\ Sleep.a # Unread /\ Fadt.pm1a # "none"
      both     == declared /\ Sleep.b # Unread /\ Fadt.pm1b # "none"
  IN (IF declared THEN <<Out(Fadt.pm1a, Sleep.a)>> ELSE <<>>)
     \o (IF both THEN <<Out(Fadt.pm1b, Sleep.b)>> ELSE <<>>)
     \o <<Out("qemu", 0), Out("bochs", 0), Out("vbox", 0)>>

\* The declared reset register if it is a port, the keyboard controller, and
\* then a fault that nothing handles.
RebootWrites ==
  (IF Fadt # None /\ Fadt.length > 128 /\ Fadt.resets /\ Fadt.space = "io"
   THEN <<Out(Fadt.reset, Fadt.value)>> ELSE <<>>)
  \o <<Out("8042", 254), Out("fault", 0)>>

PowerWrites == IF source.finally = "shutdown" THEN ShutdownWrites ELSE RebootWrites

SwitchOff ==
  /\ AnswersTo("dsdt") # <<>> /\ Len(AnswersTo("port")) < Len(PowerWrites)
  /\ answers' = Append(answers, PowerWrites[Len(AnswersTo("port")) + 1])
  /\ UNCHANGED walk

AcpiDone == RootsDone /\ Len(AnswersTo("port")) = Len(PowerWrites)

AcpiNext == (EndRoots \/ VisitEntry \/ ReadDsdt \/ SwitchOff) /\ UNCHANGED <<source, code>>

(***************************************************************************)
(* Of the tables the machine really has, source.truth, the intact ones are *)
(* visited, each once and in order, and no damaged one is ever followed;   *)
(* the DSDT is the intact one, through whichever address gives it; and the *)
(* machine is switched off with the sleep type its _S5_ gives.             *)
(***************************************************************************)
TablesAreFound ==
  LET Intact(sig) == SelectSeq(source.truth, LAMBDA a : At(a).sig = sig /\ At(a).sum)
      VisitedAt(ask) == [i \in DOMAIN AnswersTo(ask) |-> AnswersTo(ask)[i].at]
  IN /\ \A ask \in {"FACP", "SSDT"} : IsPrefix(VisitedAt(ask), Intact(ask))
     /\ IsPrefix(VisitedAt("any"), source.truth)
     /\ RootsDone => /\ VisitedAt("SSDT") = Intact("SSDT")
                     /\ VisitedAt("any") = source.truth
                     /\ Intact("FACP") # <<>> => VisitedAt("FACP") = <<Intact("FACP")[1]>>
     /\ \A i \in DOMAIN AnswersTo("dsdt") :
          LET found == AnswersTo("dsdt")[i]
          IN /\ found.at = IF Intact("FACP") # <<>> /\ At(source.dsdt).sum THEN source.dsdt ELSE 0
             /\ found.root = "none" <=> source.wide = "none"
     /\ \A i \in DOMAIN AnswersTo("port") :
          AnswersTo("port")[i].port = "pm1a" => AnswersTo("port")[i].value = source.sleep

(***************************************************************************)
(* The PCI bus.  `code` is its configuration space, a function of <<bus,   *)
(* slot, function>>; `walk` has the buses being scanned, outermost first,  *)
(* and those visited; `source` is a class that is looked for, or "any".    *)
(***************************************************************************)
Absent == [class |-> "none", header |-> 0, multi |-> FALSE, secondary |-> 0, command |-> {},
           bar |-> [space |-> "io", low |-> 0, high |-> 0]]

Config(bus, slot, function) ==
  IF <<bus, slot, function>> \in DOMAIN code THEN code[<<bus, slot, function>>] ELSE Absent

There(bus, slot, function) == Config(bus, slot, function).class # "none"

\* A scan is about to ask for function `function` of a slot.
Scan(bus, slot, function) == [bus |-> bus, slot |-> slot, function |-> function]

PciInit ==
  /\ walk = [buses |-> <<Scan(0, 0, 0)>>, visited |-> {0}]
  /\ answers = <<>>

Here  == walk.buses[Len(walk.buses)]
Outer == SubSeq(walk.buses, 1, Len(walk.buses) - 1)
ScanDone == walk.buses = <<>>

\* The functions asked for: more than the first only of a device that says it
\* has more.
Last0(bus, slot) == IF Config(bus, slot, 0).multi THEN Functions - 1 ELSE 0

Following(s) ==
  IF There(s.bus, s.slot, 0) /\ s.function < Last0(s.bus, s.slot)
  THEN Scan(s.bus, s.slot, s.function + 1) ELSE Scan(s.bus, s.slot + 1, 0)

\* The first base address: none in I/O space, of both halves where it is wide.
Bar0(bar) ==
  CASE bar.space = "io"     -> 0
    [] bar.space = "mem64"  -> <<bar.low, bar.high>>
    [] OTHER                -> <<bar.low, 0>>

Probe(s) ==
  LET c == Config(s.bus, s.slot, s.function)
  IN [at |-> <<s.bus, s.slot, s.function>>, class |-> c.class, header |-> c.header,
      bar0 |-> Bar0(c.bar)]

Wanted(device) == source \in {"any", device.class}

Fresh(bus) == bus \notin walk.visited

(***************************************************************************)
(* Steps.                                                                  *)
(***************************************************************************)
EndBus ==
  /\ ~ScanDone /\ Here.slot = Slots
  /\ walk' = [walk EXCEPT !.buses = Outer]
  /\ UNCHANGED <<code, answers>>

NothingThere ==
  /\ ~ScanDone /\ Here.slot < Slots /\ ~There(Here.bus, Here.slot, Here.function)
  /\ walk' = [walk EXCEPT !.buses = Append(Outer, Following(Here))]
  /\ UNCHANGED <<code, answers>>

\* A device is reported; the search ends with the one it is for.  Behind a
\* bridge another bus is scanned before the next function.
Found ==
  /\ ~ScanDone /\ Here.slot < Slots /\ There(Here.bus, Here.slot, Here.function)
  /\ LET device == Probe(Here)
         next   == Config(Here.bus, Here.slot, Here.function).secondary
         behind == device.header = 1 /\ next # 0 /\ next # Here.bus /\ Fresh(next)
         onward == Append(Outer, Following(Here))
     IN /\ answers' = Append(answers, device)
        /\ walk' = CASE Wanted(device) /\ source # "any" -> [walk EXCEPT !.buses = <<>>]
                     [] behind -> [buses   |-> Append(onward, Scan(next, 0, 0)),
                                   visited |-> walk.visited \cup {next}]
                     [] OTHER  -> [walk EXCEPT !.buses = onward]
  /\ UNCHANGED code

Hit == source # "any" /\ answers # <<>> /\ Wanted(Last(answers))

\* Device::enable, of the device that was found: memory and mastering on.
Enable ==
  /\ ScanDone /\ Hit
  /\ code' = [code EXCEPT ![Last(answers).at].command = @ \cup {"memory", "master"}]
  /\ code' # code
  /\ UNCHANGED <<walk, answers>>

PciNext == (EndBus \/ NothingThere \/ Found \/ Enable) /\ UNCHANGED source

(***************************************************************************)
(* Every function that can be reached from bus 0 is reported, and none     *)
(* twice, also where bridges lead back to a bus above them or two lead to  *)
(* the same; a search finds what it is for if it is there.  What is on is  *)
(* what was found.                                                         *)
(***************************************************************************)
Answering(bus, slot, function) ==
  /\ There(bus, slot, 0) /\ There(bus, slot, function)
  /\ function <= Last0(bus, slot)

\* The buses behind at most n bridges.
Behind[n \in Nat] ==
  IF n = 0 THEN {0}
  ELSE LET buses == Behind[n - 1]
       IN buses \cup {code[at].secondary : at \in {at \in DOMAIN code :
                        at[1] \in buses /\ Answering(at[1], at[2], at[3])
                        /\ code[at].header = 1 /\ code[at].secondary # 0}}

Reachable ==
  LET buses == Behind[Cardinality(DOMAIN code)]
  IN {at \in DOMAIN code : at[1] \in buses /\ Answering(at[1], at[2], at[3])}

EveryFunctionOnce ==
  /\ \A i, j \in DOMAIN answers : answers[i].at = answers[j].at => i = j
  /\ \A i \in DOMAIN answers : answers[i].at \in Reachable
  /\ ScanDone => \/ Hit
                 \/ /\ {answers[i].at : i \in DOMAIN answers} = Reachable
                    /\ \A at \in Reachable : source # code[at].class
  /\ \A at \in DOMAIN code : code[at].command # {} => ScanDone /\ Hit /\ at = Last(answers).at
=============================================================================
