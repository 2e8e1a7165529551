------------------------------ MODULE PadProbe ------------------------------
(***************************************************************************)
(* nanochrono-baremetal/src/i2c_hid.rs and gpio.rs: I2cHid::probe, which   *)
(* goes from the device a table declares to its controller's _ADR, from    *)
(* there to a PCI function, asks the bus for the device, powers it on and  *)
(* resets it, reads what its reports are like, and opens the pin it raises *)
(* when it has one.  Devices reset in their own time and are touched at    *)
(* any; a transfer may be lost.                                            *)
(***************************************************************************)
EXTENDS Integers, FiniteSets, SequencesExt

VARIABLES
  source,    \* tables, PCI functions with their buses, GPIO windows
  code,      \* the device that is driven, and how many transfers are lost
  walk,      \* the driver: its step, and what it has found so far
  answers    \* how the probe ended

padVars == <<source, code, walk, answers>>

None == [none |-> TRUE]

-----------------------------------------------------------------------------
(***************************************************************************)
(* gpio.rs: pad groups of the parts it knows, by community; first pad,     *)
(* number of pads and first pin of each.  NoMap is a group without pins.   *)
(***************************************************************************)
NoMap == -1
Group(first, pads, base) == [first |-> first, pads |-> pads, base |-> base]

AlderLake ==
  << <<Group(0, 26, 0), Group(26, 16, 32), Group(42, 25, 64)>>,
     <<Group(67, 8, 96), Group(75, 20, 128), Group(95, 24, 160), Group(119, 21, 192), Group(140, 29, 224)>>,
     <<Group(169, 24, 256), Group(193, 25, 288), Group(218, 6, NoMap), Group(224, 25, 320)>>,
     <<Group(249, 8, 352)>> >>

TigerLakeH ==
  << <<Group(0, 25, 0), Group(25, 20, 32), Group(45, 26, 64), Group(71, 8, 96)>>,
     <<Group(79, 26, 128), Group(105, 24, 160), Group(129, 8, 192), Group(137, 17, 224), Group(154, 27, 256)>>,
     <<Group(181, 13, 288), Group(194, 24, 320)>>,
     <<Group(218, 24, 352), Group(242, 10, 384), Group(252, 15, 416)>>,
     <<Group(267, 15, 448), Group(282, 9, NoMap)>> >>

Platform(hid) ==
  CASE hid \in {"INTC1056", "INTC1057", "INTC1085"} -> AlderLake
    [] hid = "INT34C6"                              -> TigerLakeH
    [] OTHER                                        -> <<>>

MaxCandidates == 32

\* open() keeps the windows that respond, numbered anew.
Communities(windows) == SelectSeq(windows, LAMBDA w : w.answers)

Pad(index, local) == [community |-> index, local |-> local]

PinsOf(group) == IF group.base = NoMap THEN {} ELSE group.base .. group.base + group.pads - 1

\* The pad of a pin: the group that has it, and how far into its community.
GroupsWith(platform, pin) ==
  UNION {{<<i, platform[i][j]>> : j \in {k \in DOMAIN platform[i] : pin \in PinsOf(platform[i][k])}} : i \in DOMAIN platform}

PadWithin(communities, index, local) ==
  IF index > Len(communities) \/ local >= communities[index].pads THEN None ELSE Pad(index, local)

\* The mistake of counting a pad in the whole part, not in its window.
ResolvedInThePart(platform, communities, pin) ==
  IF GroupsWith(platform, pin) = {} THEN None
  ELSE LET at == CHOOSE h \in GroupsWith(platform, pin) : TRUE
       IN PadWithin(communities, at[1], at[2].first + pin - at[2].base)

Resolved(platform, communities, pin) ==
  IF GroupsWith(platform, pin) = {} THEN None
  ELSE LET at == CHOOSE h \in GroupsWith(platform, pin) : TRUE
       IN PadWithin(communities, at[1], at[2].first + pin - at[2].base - platform[at[1]][1].first)

IsInput(communities, pad) == pad.local \in communities[pad.community].inputs

\* The pads to calibrate: the first inputs there are.
Candidates(communities) ==
  LET PadsOf(i) == SelectSeq([k \in 1 .. communities[i].pads |-> Pad(i, k - 1)], LAMBDA p : IsInput(communities, p))
      all == FlattenSeq([i \in DOMAIN communities |-> PadsOf(i)])
  IN SubSeq(all, 1, IF Len(all) > MaxCandidates THEN MaxCandidates ELSE Len(all))

-----------------------------------------------------------------------------
(***************************************************************************)
(* What the tables say.                                                    *)
(***************************************************************************)
Dsdt  == source.tables[1]
Ssdts == SelectSeq(Tail(source.tables), LAMBDA t : t.reads)

\* Any first device declared, but nothing behind one that cannot be read: its
\* index is then below what the tables before have.
FirstDevice ==
  LET declaring == SelectSeq(<<Dsdt>> \o Ssdts, LAMBDA t : t.pads # <<>>)
  IN IF declaring = <<>> \/ ~Head(declaring).pads[1].readable THEN None ELSE Head(declaring).pads[1]

NodesNamed(table, path) == SelectSeq(table.nodes, LAMBDA n : IsSuffix(path, n.path))

\* The first that is named so, if it says where it is.
AddressIn(table, path) ==
  LET named == NodesNamed(table, path) IN IF named = <<>> THEN <<>> ELSE Head(named).adr

ControllerAddress(path) ==
  LET telling == SelectSeq(<<Dsdt>> \o Ssdts, LAMBDA t : AddressIn(t, path) # <<>>)
  IN IF telling # <<>> THEN AddressIn(Head(telling), path) ELSE <<>>

\* Only an SSDT that names the controller makes the difference.
ControllerMissing(path) ==
  IF \E i \in DOMAIN Ssdts : NodesNamed(Ssdts[i], path) # <<>>
    THEN "controller has no _ADR" ELSE "controller device in no acpi table"

-----------------------------------------------------------------------------
(***************************************************************************)
(* The bus: a device answers at its address unless it is busy resetting    *)
(* and does not then, or the transfer is lost.                             *)
(***************************************************************************)
Bus        == source.functions[walk.function].bus
At(pc)     == walk.pc = pc
To(pc)     == [walk EXCEPT !.pc = pc]
ThereIs(a) == \E i \in DOMAIN Bus : Bus[i].address = a
DeviceAt(a) == CHOOSE d \in ToSet(Bus) : d.address = a

Device == DeviceAt(walk.address)

Answers(a) == ThereIs(a) /\ ~(code.busy /\ DeviceAt(a).resetting = "deaf")

\* A transfer with a that comes to nothing: nobody answers, or it is lost.
Missed(a) ==
  \/ ~Answers(a) /\ code' = code
  \/ Answers(a) /\ code.losses > 0 /\ code' = [code EXCEPT !.losses = @ - 1]

\* HidDescriptor::parse takes what a device says at its register and nothing else.
Parses(a, register) == DeviceAt(a).kind = "hid" /\ DeviceAt(a).register = register

Finishes ==
  /\ code.busy
  /\ code' = [code EXCEPT !.busy = FALSE, !.queue = IF Device.resetting = "never tells" THEN <<>> ELSE <<"zero">>]
  /\ UNCHANGED <<walk, answers>>

Touched ==
  /\ code.touches > 0 /\ code.on /\ ~code.busy
  /\ code' = [code EXCEPT !.touches = @ - 1, !.queue = Append(@, "report")]
  /\ UNCHANGED <<walk, answers>>

-----------------------------------------------------------------------------
(***************************************************************************)
(* probe_nth(0).                                                           *)
(***************************************************************************)
PadInit ==
  /\ code = [on |-> FALSE, reset |-> FALSE, busy |-> FALSE, queue |-> <<>>, losses |-> source.losses, touches |-> source.touches]
  /\ walk = [pc |-> "device", device |-> None, function |-> 0, address |-> 0, registers |-> <<>>, tried |-> 0,
             how |-> "", left |-> <<>>]
  /\ answers = None

PadDone == answers # None

Fails(why) == answers' = [failure |-> why] /\ walk' = To("ended")

FindDevice ==
  /\ At("device")
  /\ \/ ~Dsdt.reads /\ Fails("no dsdt")
     \/ Dsdt.reads /\ FirstDevice = None /\ Fails("no pnp0c50 device")
     \/ Dsdt.reads /\ FirstDevice # None /\ walk' = [To("controller") EXCEPT !.device = FirstDevice] /\ UNCHANGED answers
  /\ UNCHANGED code

\* The first function at the slot that the controller's _ADR names.
FunctionsAt(adr) ==
  {i \in DOMAIN source.functions : source.functions[i].at = adr /\ source.functions[i].lpss}

FindController ==
  /\ At("controller")
  /\ LET adr == ControllerAddress(walk.device.bus)
     IN \/ adr = <<>> /\ Fails(ControllerMissing(walk.device.bus))
        \/ adr # <<>> /\ FunctionsAt(adr) = {} /\ Fails("no pci device at the controller's _ADR")
        \/ /\ adr # <<>> /\ FunctionsAt(adr) # {}
           /\ walk' = [To("master") EXCEPT !.function = CHOOSE i \in FunctionsAt(adr) : \A j \in FunctionsAt(adr) : i <= j]
           /\ UNCHANGED answers
  /\ UNCHANGED code

\* A register that is declared goes before those of the specification's examples.
RegistersAfter(declared) ==
  IF declared = 0 THEN <<1, 32>> ELSE <<declared>> \o SelectSeq(<<1, 32>>, LAMBDA r : r # declared)

Others == SelectSeq(source.addresses, LAMBDA a : a # walk.device.address)

OpenMaster ==
  /\ At("master")
  /\ \/ ~source.functions[walk.function].works /\ Fails("controller reset failed")
     \/ /\ source.functions[walk.function].works
        /\ walk' = [To("descriptor") EXCEPT !.address = walk.device.address, !.left = Others,
                                            !.registers = RegistersAfter(walk.device.register)]
        /\ UNCHANGED answers
  /\ UNCHANGED code

HowFound ==
  IF walk.address # walk.device.address THEN "scanned"
  ELSE IF walk.tried = 0 /\ walk.device.register # 0 THEN "firmware" ELSE "probed"

Descriptor ==
  /\ At("descriptor") /\ walk.registers # <<>>
  /\ LET next == [walk EXCEPT !.registers = Tail(@), !.tried = @ + 1]
     IN \/ Missed(walk.address) /\ walk' = next
        \/ /\ Answers(walk.address) /\ code' = code
           /\ walk' = IF Parses(walk.address, Head(walk.registers)) THEN [To("power") EXCEPT !.how = HowFound] ELSE next
  /\ UNCHANGED answers

\* Each other address is asked for a byte, and for a descriptor if it has one.
Scan ==
  /\ At("descriptor") /\ walk.registers = <<>>
  /\ \/ walk.left = <<>> /\ Fails("no hid descriptor") /\ UNCHANGED code
     \/ /\ walk.left # <<>>
        /\ LET next == [walk EXCEPT !.address = Head(walk.left), !.left = Tail(@)]
           IN \/ Missed(Head(walk.left)) /\ walk' = next
              \/ Answers(Head(walk.left)) /\ code' = code /\ walk' = [next EXCEPT !.registers = RegistersAfter(0)]
        /\ UNCHANGED answers

PowerOn ==
  /\ At("power")
  /\ \/ Missed(walk.address) /\ Fails("reset failed")
     \/ /\ Answers(walk.address) /\ code' = [code EXCEPT !.on = TRUE]
        /\ walk' = To("reset") /\ UNCHANGED answers

\* Asleep, it acknowledges a reset and does nothing.
SendReset ==
  /\ At("reset")
  /\ \/ Missed(walk.address) /\ Fails("reset failed")
     \/ /\ Answers(walk.address)
        /\ code' = IF code.on THEN [code EXCEPT !.reset = TRUE, !.busy = TRUE, !.queue = <<>>] ELSE code
        /\ walk' = To("wait") /\ UNCHANGED answers

\* What a read finds: what is queued, or what the device says when nothing is.
Heard == IF code.queue # <<>> THEN Head(code.queue) ELSE IF Device.resetting = "zeros" THEN "zero" ELSE "ones"

\* The mistake of taking any answer for the end of the reset, or none.
AwaitAnything == At("wait") /\ walk' = To("reports") /\ UNCHANGED <<code, answers>>

AwaitReset ==
  /\ At("wait")
  /\ \/ Missed(walk.address) /\ walk' = walk
     \/ /\ Answers(walk.address)
        /\ code' = [code EXCEPT !.queue = IF @ = <<>> THEN @ ELSE Tail(@)]
        /\ walk' = IF Heard = "zero" THEN To("reports") ELSE walk
  /\ UNCHANGED answers

\* 250 ms have passed: goes on as if it had.
GiveUpWaiting ==
  /\ At("wait")
  /\ code.busy => source.slow
  /\ walk' = To("reports")
  /\ UNCHANGED <<code, answers>>

ReadReports ==
  /\ At("reports")
  /\ \/ Device.length # "fits" /\ Fails("report descriptor too large") /\ UNCHANGED code
     \/ /\ Device.length = "fits"
        /\ \/ Missed(walk.address) /\ Fails("report descriptor unreadable")
           \/ Answers(walk.address) /\ code' = code /\ walk' = To("layout") /\ UNCHANGED answers

\* open_gate(), by the DSDT and nothing else.
GateOf(pin) ==
  LET named       == NodesNamed(Dsdt, pin.bus)
      communities == IF named = <<>> THEN <<>> ELSE Communities(Head(named).windows)
      pad         == Resolved(Platform(Head(named).hid), communities, pin.pin)
  IN CASE communities = <<>> -> [state |-> "blind"]
       [] communities # <<>> /\ pad # None /\ IsInput(communities, pad) -> [state |-> "gated", pad |-> pad]
       [] OTHER -> IF Candidates(communities) = <<>> THEN [state |-> "blind"]
                   ELSE [state |-> "learning", pads |-> Candidates(communities)]

Gate == IF walk.device.pin = None THEN [state |-> "blind"] ELSE GateOf(walk.device.pin)

Succeed ==
  /\ At("layout")
  /\ \/ Device.reports = {} /\ Fails("no relative pointer report")
     \/ /\ Device.reports # {}
        /\ answers' = [how |-> walk.how, layout |-> IF "pointer" \in Device.reports THEN "pointer" ELSE "keyboard",
                       gate |-> Gate]
        /\ walk' = To("ended")
  /\ UNCHANGED code

PadNext ==
  /\ \/ FindDevice \/ FindController \/ OpenMaster \/ Descriptor \/ Scan \/ PowerOn \/ SendReset \/ AwaitReset
     \/ GiveUpWaiting \/ ReadReports \/ Succeed \/ Finishes \/ Touched
  /\ UNCHANGED source

-----------------------------------------------------------------------------
(***************************************************************************)
(* A device that is driven is the one firmware means, on the controller it *)
(* names, unless that one does not answer or an answer was lost; it has    *)
(* been woken and reset, and is not used while it resets if it cannot be.  *)
(***************************************************************************)
NoneLost == code.losses = source.losses

IsHidAmong(a, registers) == ThereIs(a) /\ \E i \in DOMAIN registers : Parses(a, registers[i])

ControllerIsTheNamed ==
  LET f == source.functions[walk.function]
  IN f.lpss /\ f.works /\ \E t \in ToSet(source.tables) : \E n \in ToSet(t.nodes) :
       n.adr = f.at /\ IsSuffix(walk.device.bus, n.path)

DeviceIsTheMeant ==
  LET declared == walk.device.address
  IN /\ answers.how \in {"firmware", "probed"} => walk.address = declared
     /\ answers.how = "firmware" => Device.register = walk.device.register
     /\ answers.how = "scanned" /\ NoneLost => ~IsHidAmong(declared, RegistersAfter(walk.device.register))
     /\ Device.kind = "hid"
     /\ answers.layout = "pointer" <=> "pointer" \in Device.reports

IsAwake == code.on /\ code.reset /\ (Device.resetting = "deaf" => ~code.busy)

(***************************************************************************)
(* What is said of a failure is so; a short wait may be taken for a device *)
(* that cannot be read.                                                    *)
(***************************************************************************)
FailureIsSo ==
  LET why == answers.failure
      bus == walk.device.bus
  IN /\ why \in {"controller has no _ADR", "controller device in no acpi table"} =>
          \A t \in ToSet(<<Dsdt>> \o Ssdts) : NodesNamed(t, bus) # <<>> => Head(NodesNamed(t, bus)).adr = <<>>
     /\ why = "controller has no _ADR" => \E t \in ToSet(Ssdts) : NodesNamed(t, bus) # <<>>
     /\ why = "no hid descriptor" /\ NoneLost =>
          /\ ~IsHidAmong(walk.device.address, RegistersAfter(walk.device.register))
          /\ \A a \in ToSet(source.addresses) : ~IsHidAmong(a, <<1, 32>>)
     /\ why = "reset failed" => ~NoneLost
     /\ why = "report descriptor unreadable" => ~NoneLost \/ source.slow

(***************************************************************************)
(* A pad that is taken from a table is the pin's, unless a window did not  *)
(* respond, which moves those behind it.                                   *)
(***************************************************************************)
PinWindows == Head(NodesNamed(Dsdt, walk.device.pin.bus)).windows

\* How many pads of the whole part are before it.
NumberOf(pad) == Communities(PinWindows)[pad.community].first + pad.local

NumberOfPin(platform, pin) ==
  LET group == (CHOOSE h \in GroupsWith(platform, pin) : TRUE)[2] IN group.first + pin - group.base

PadIsThePins ==
  /\ answers.gate.state = "gated" /\ (\A i \in DOMAIN PinWindows : PinWindows[i].answers) =>
       NumberOf(answers.gate.pad) =
         NumberOfPin(Platform(Head(NodesNamed(Dsdt, walk.device.pin.bus)).hid), walk.device.pin.pin)
  /\ answers.gate.state = "gated" => IsInput(Communities(PinWindows), answers.gate.pad)
  /\ answers.gate.state = "learning" =>
       LET pads == answers.gate.pads
       IN /\ IsInjective(pads) /\ \A i \in DOMAIN pads : IsInput(Communities(PinWindows), pads[i])
          /\ Len(pads) < MaxCandidates =>
               \A i \in DOMAIN Communities(PinWindows) : \A local \in Communities(PinWindows)[i].inputs : Pad(i, local) \in ToSet(pads)

PadIsTheDeclared ==
  PadDone => IF "failure" \in DOMAIN answers THEN FailureIsSo
             ELSE ControllerIsTheNamed /\ DeviceIsTheMeant /\ IsAwake /\ PadIsThePins
=============================================================================
