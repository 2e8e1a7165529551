-------------------------------- MODULE Xhci --------------------------------
(***************************************************************************)
(* nanochrono-baremetal/src/xhci.rs and UsbInput::bring_up and poll   *)
(* of input.rs: the driver, and beside it the controller it shares rings   *)
(* and buffers with.                                                       *)
(*                                                                         *)
(* The driver is sequential: it issues a command or a control transfer,    *)
(* waits for an event of the right kind, copies what was read, and goes on *)
(* to the next step of enumerating the device on a port; once every port   *)
(* has been tried it polls.  The controller runs what it finds on the      *)
(* rings at its own pace, so that buffers and the event ring change        *)
(* between any two steps of the driver.                                    *)
(***************************************************************************)
EXTENDS Integers, Sequences

CONSTANTS
  RingLen,        \* RING_LEN
  MaxDevices,     \* MAX_DEVICES
  MaxSlots,       \* MAX_SLOTS
  Boards,         \* what may be plugged into the ports, in their order
  OnForeignTrb,   \* what a controller does with a control TRB it finds on
                  \* an interrupt endpoint: "run" it, or "halt"
  SlowBoards,     \* those on which an answer may take longer than a wait lasts
  MaxReports      \* bound: reports each device sends

\* What a port holds: nothing, something that fails its reset or does not take
\* an address, something without a HID interface, or a HID device.
PortKinds == {"none", "dead", "mute", "other", "keyboard", "pointer", "hid"}
HidKinds  == {"keyboard", "pointer", "hid"}
Read      == {"keyboard", "pointer"}

ASSUME XhciAssumption ==
  /\ RingLen \in Nat /\ RingLen > 3       \* three stages and a link
  /\ MaxDevices \in Nat \ {0} /\ MaxSlots \in Nat \ {0}
  /\ Boards \subseteq Seq(PortKinds)
  /\ OnForeignTrb \subseteq {"run", "halt"} /\ OnForeignTrb # {}
  /\ SlowBoards \subseteq Boards
  /\ MaxReports \in Nat

VARIABLES
  board,          \* what is plugged in
  \* the driver
  step,           \* what bring_up is doing, "poll" or "absent"
  phase,          \* how far it is with that
  port,           \* the port it is trying
  parsed,         \* what parse_configuration made of the device
  devices,        \* the DeviceSlots
  deviceCount,    \* device_count
  kept,           \* UsbInput.keyboard and .pointer
  turn,           \* UsbInput.next
  drained,        \* events taken by the drain_events under way
  commandPut,     \* command_index and command_cycle
  eventAt,        \* event_index and event_cycle, and the ERDP register
  \* shared memory
  commands, events, rings, buffers, inputContext,
  \* the controller
  slots,          \* what it knows of each slot
  commandAt,      \* where it reads the command ring
  eventPut,       \* where it writes the event ring
  sent,           \* reports sent by the device on each port
  \* history
  posted, taken,  \* events written and read
  timedOut        \* a wait has given up

scan       == <<step, phase, port, parsed>>
table      == <<devices, deviceCount, kept>>
polling    == <<turn, drained>>
eventRing  == <<events, eventPut, posted>>
eventRead  == <<eventAt, taken>>
controller == <<slots, commandAt, sent>>
vars == <<board, scan, table, polling, eventRing, eventRead, controller, commands,
          commandPut, rings, buffers, inputContext, timedOut>>

-----------------------------------------------------------------------------

\* Rings of transfer request blocks.  A cursor is a position and the cycle bit
\* of the pass it is on; an entry whose bit equals that of a reader's cursor is
\* one the writer has put there since the reader last came by.

Positions == 0 .. RingLen - 1

\* Cleared memory, which a first pass takes for unwritten.
Blank == [i \in Positions |-> [trb |-> [op |-> "none"], cycle |-> 0]]

Origin == [at |-> 0, cycle |-> 1]

Link == [op |-> "link"]

Write(ring, cursor, trb) ==
  [ring EXCEPT ![cursor.at] = [trb |-> trb, cycle |-> cursor.cycle]]

Owned(ring, cursor) == ring[cursor.at].cycle = cursor.cycle

Past(cursor) == [cursor EXCEPT !.at = @ + 1]

StartOver(cursor) == [at |-> 0, cycle |-> 1 - cursor.cycle]

\* The driver appends to a command or transfer ring: when only the last entry
\* is left it becomes a link with the toggle bit and the ring starts over.
\* Nothing here asks whether the controller is done with what is overwritten.
Queue(q, trb) ==
  IF q.cursor.at < RingLen - 1
    THEN [ring |-> Write(q.ring, q.cursor, trb), cursor |-> Past(q.cursor)]
    ELSE LET again == StartOver(q.cursor)
         IN  [ring |-> Write(Write(q.ring, q.cursor, Link), again, trb),
              cursor |-> Past(again)]

\* The controller reads such a ring: a link sends it to the start.
Reading(ring, cursor) ==
  IF Owned(ring, cursor) /\ ring[cursor.at].trb = Link THEN StartOver(cursor) ELSE cursor

\* The mistake of wrapping on the same pass.
AroundSamePass(cursor) ==
  IF cursor.at = RingLen - 1 THEN [cursor EXCEPT !.at = 0] ELSE Past(cursor)

\* The event ring has no link: both sides wrap at its end.
Around(cursor) == IF cursor.at = RingLen - 1 THEN StartOver(cursor) ELSE Past(cursor)

-----------------------------------------------------------------------------

None  == -1
Index == 0 .. MaxDevices - 1
Slots == 1 .. MaxSlots

Content(p, what, n) == [port |-> p, what |-> what, n |-> n]
Zeros == Content(0, "zeros", 0)

NewDevice(slot) ==
  [slot |-> slot, put |-> Origin, queued |-> FALSE, ready |-> FALSE]

FreeSlot == [used |-> FALSE, ring |-> None, port |-> 0, request |-> "none",
             control |-> Origin, controlOn |-> FALSE,
             report |-> Origin, reportOn |-> "off"]

Init ==
  /\ board \in Boards
  /\ step = "scan" /\ phase = "issue" /\ port = 1 /\ parsed = "none"
  /\ devices = [i \in Index |-> NewDevice(0)]
  /\ deviceCount = 0
  /\ kept = [k \in Read |-> None]
  /\ turn = "pointer" /\ drained = 0
  /\ commands = Blank /\ events = Blank
  /\ rings = [i \in Index |-> Blank]
  /\ commandPut = Origin /\ commandAt = Origin
  /\ eventPut = Origin /\ eventAt = Origin
  /\ buffers = [i \in Index |-> Zeros]
  /\ inputContext = [op |-> "none", ring |-> None, port |-> 0]
  /\ slots = [s \in Slots |-> FreeSlot]
  /\ sent = [p \in DOMAIN board |-> 0]
  /\ posted = 0 /\ taken = 0 /\ timedOut = FALSE

-----------------------------------------------------------------------------
(* The event ring.                                                         *)

EventWaiting == Owned(events, eventAt)

NextEvent == events[eventAt.at].trb

\* next_event
TakeEvent ==
  /\ EventWaiting
  /\ eventAt' = Around(eventAt)
  /\ taken' = taken + 1

\* The controller stops posting one entry short of what ERDP names.
EventRoom == (eventPut.at + 1) % RingLen # eventAt.at

Post(event) ==
  /\ EventRoom
  /\ events' = Write(events, eventPut, event)
  /\ eventPut' = Around(eventPut)
  /\ posted' = posted + 1

-----------------------------------------------------------------------------
(* Bring-up: one device after the other.                                   *)

Commands  == {"enable", "address", "endpoint"}
Reads     == {"device", "configuration"}
Transfers == Reads \cup {"set", "protocol"}

After == [enable |-> "address", address |-> "device", device |-> "configuration",
          configuration |-> "set", set |-> "protocol", protocol |-> "endpoint"]

Tag == [port |-> port, step |-> step]

Advance == step' = After[step] /\ phase' = "issue" /\ UNCHANGED port

\* The next port is tried with whatever deviceCount is: a device that failed
\* leaves its index, its ring memory and its slot behind.
NextPort == step' = "scan" /\ phase' = "issue" /\ port' = port + 1

\* The scan is over, or both kinds have been found.
Finish ==
  /\ step = "scan"
  /\ port > Len(board) \/ \A k \in Read : kept[k] # None
  /\ step' = IF \E k \in Read : kept[k] # None THEN "poll" ELSE "absent"
  /\ UNCHANGED <<board, phase, port, parsed, table, polling, eventRing, eventRead,
                 controller, commands, commandPut, rings, buffers, inputContext, timedOut>>

\* connected_ports leaves the port out, its reset fails, or enumerate has no
\* index left for it.
SkipPort ==
  /\ step = "scan" /\ port <= Len(board)
  /\ \E k \in Read : kept[k] = None
  /\ board[port] \in {"none", "dead"} \/ deviceCount >= MaxDevices
  /\ NextPort
  /\ UNCHANGED <<board, parsed, table, polling, eventRing, eventRead, controller,
                 commands, commandPut, rings, buffers, inputContext, timedOut>>

\* A reset that succeeds is also reported as a port status change.
ResetPort ==
  /\ step = "scan" /\ port <= Len(board)
  /\ \E k \in Read : kept[k] = None
  /\ board[port] \notin {"none", "dead"} /\ deviceCount < MaxDevices
  /\ step' = "enable" /\ phase' = "issue"
  /\ IF EventRoom THEN Post([op |-> "port"]) ELSE UNCHANGED eventRing
  /\ UNCHANGED <<board, port, parsed, table, polling, eventRead, controller, commands,
                 commandPut, rings, buffers, inputContext, timedOut>>

\* The mistake of queueing a command a second time.
CommandTwice(q, trb) == Queue(Queue(q, trb), trb)

CommandOnce(q, trb) == Queue(q, trb)

\* command, with the input context address_device and configure_endpoint build.
IssueCommand ==
  /\ step \in Commands /\ phase = "issue"
  /\ LET trb == [op |-> step, slot |-> devices[deviceCount].slot, tag |-> Tag]
         q   == CommandOnce([ring |-> commands, cursor |-> commandPut], trb)
     IN  commands' = q.ring /\ commandPut' = q.cursor
  /\ inputContext' = IF step = "enable" THEN inputContext
                     ELSE [op |-> step, ring |-> deviceCount, port |-> port]
  /\ phase' = "wait"
  /\ UNCHANGED <<board, step, port, parsed, table, polling, eventRing, eventRead,
                 controller, rings, buffers, timedOut>>

\* The doorbell of a slot's control endpoint.
RingControl(slot) ==
  slots' = [s \in Slots |->
              IF s = slot /\ slots[s].ring # None
                THEN [slots[s] EXCEPT !.controlOn = TRUE] ELSE slots[s]]

\* buffer_address
BufferOf(i) == i

\* The mistake of reading the buffer without waiting for the event.
Unawaited == IF step \in Reads THEN "copy" ELSE "wait"

\* control_in and control_out end in wait_event.
Awaited == "wait"

\* The stages of control_in and control_out.
SetupStage  == [op |-> "setup", request |-> step]
DataStage   == [op |-> "data", buffer |-> BufferOf(deviceCount)]
StatusStage == [op |-> "status", tag |-> Tag]

\* What a device's ring is from one transfer to the next.
RingOf(i) == [ring |-> rings[i], cursor |-> devices[i].put]

\* control_in and control_out
IssueTransfer ==
  /\ step \in Transfers /\ phase = "issue"
  /\ LET begun == Queue(RingOf(deviceCount), SetupStage)
         q     == Queue(IF step \in Reads THEN Queue(begun, DataStage) ELSE begun, StatusStage)
     IN  /\ rings' = [rings EXCEPT ![deviceCount] = q.ring]
         /\ devices' = [devices EXCEPT ![deviceCount].put = q.cursor]
  /\ buffers' = IF step \in Reads THEN [buffers EXCEPT ![BufferOf(deviceCount)] = Zeros]
              ELSE buffers
  /\ RingControl(devices[deviceCount].slot)
  /\ phase' = Awaited
  /\ UNCHANGED <<board, step, port, parsed, deviceCount, kept, polling, eventRing,
                 eventRead, commandAt, sent, commands, commandPut, inputContext, timedOut>>

Wanted == IF step \in Commands THEN "completion" ELSE "transfer"

\* wait_command_event and wait_event throw away what they do not wait for.
Discard ==
  /\ phase = "wait"
  /\ TakeEvent
  /\ NextEvent.op # Wanted
  /\ UNCHANGED <<board, scan, table, polling, eventRing, controller, commands,
                 commandPut, rings, buffers, inputContext, timedOut>>

\* The end of enumerate, and what bring_up does with the device.
Enumerated ==
  /\ deviceCount' = deviceCount + 1
  /\ kept' = IF parsed \in Read /\ kept[parsed] = None
               THEN [kept EXCEPT ![parsed] = deviceCount] ELSE kept
  /\ NextPort

Answered ==
  /\ phase = "wait"
  /\ TakeEvent
  /\ NextEvent.op = Wanted
  /\ \/ /\ ~NextEvent.ok /\ step # "protocol"
        /\ NextPort
        /\ UNCHANGED table
     \/ /\ NextEvent.ok /\ step = "enable"
        /\ devices' = [devices EXCEPT ![deviceCount] = NewDevice(NextEvent.slot)]
        /\ Advance
        /\ UNCHANGED <<deviceCount, kept>>
     \/ /\ NextEvent.ok /\ step \in Reads
        /\ phase' = "copy"
        /\ UNCHANGED <<step, port, table>>
     \/ /\ NextEvent.ok /\ step = "endpoint"
        /\ Enumerated
        /\ UNCHANGED devices
     \/ /\ NextEvent.ok \/ step = "protocol"
        /\ step \in {"address", "set", "protocol"}
        /\ Advance
        /\ UNCHANGED table
  /\ UNCHANGED <<board, parsed, polling, eventRing, controller, commands, commandPut,
                 rings, buffers, inputContext, timedOut>>

\* parse_configuration: what it finds depends on whose bytes are there.
Parse(content) ==
  IF content.what = "configuration" /\ board[content.port] \in HidKinds
    THEN board[content.port] ELSE "none"

\* buffer_copy of a descriptor, some time after its event was taken.
CopyDescriptor ==
  /\ step \in Reads /\ phase = "copy"
  /\ \/ step = "device" /\ Advance /\ UNCHANGED parsed
     \/ /\ step = "configuration"
        /\ parsed' = Parse(buffers[BufferOf(deviceCount)])
        /\ IF parsed' = "none" THEN NextPort ELSE Advance
  /\ UNCHANGED <<board, table, polling, eventRing, eventRead, controller, commands,
                 commandPut, rings, buffers, inputContext, timedOut>>

\* The mistake of asking again until there is an answer.
TimeOutAndRetry ==
  /\ board \in SlowBoards
  /\ phase = "wait" /\ ~EventWaiting
  /\ timedOut' = TRUE
  /\ phase' = "issue"
  /\ UNCHANGED <<board, step, port, parsed, table, polling, eventRing, eventRead,
                 controller, commands, commandPut, rings, buffers, inputContext>>

\* The bound of a wait is used up.
TimeOut ==
  /\ board \in SlowBoards
  /\ phase = "wait" /\ ~EventWaiting
  /\ timedOut' = TRUE
  /\ IF step = "protocol" THEN Advance ELSE NextPort
  /\ UNCHANGED <<board, parsed, table, polling, eventRing, eventRead, controller,
                 commands, commandPut, rings, buffers, inputContext>>

BringUp == \/ Finish \/ SkipPort \/ ResetPort \/ IssueCommand \/ IssueTransfer
           \/ Discard \/ Answered \/ CopyDescriptor \/ TimeOut

-----------------------------------------------------------------------------
(* Polling.                                                                *)

Other(k) == IF k = "keyboard" THEN "pointer" ELSE "keyboard"

\* UsbInput::poll takes the two devices in turn.
BeginPoll ==
  /\ step = "poll" /\ phase = "issue"
  /\ turn' = Other(turn)
  /\ phase' = IF kept[turn'] # None THEN "drain" ELSE "issue"
  /\ UNCHANGED <<board, step, port, parsed, table, drained, eventRing, eventRead,
                 controller, commands, commandPut, rings, buffers, inputContext, timedOut>>

\* device_of_slot
DevicesOfSlot(slot) == {i \in 0 .. deviceCount - 1 : devices[i].slot = slot}

Least(S) == CHOOSE i \in S : \A j \in S : i <= j

\* One turn of the loop of drain_events.
DrainOne ==
  /\ phase = "drain" /\ drained < RingLen
  /\ TakeEvent
  /\ drained' = drained + 1
  /\ IF NextEvent.op = "transfer" /\ DevicesOfSlot(NextEvent.slot) # {}
       THEN LET i == Least(DevicesOfSlot(NextEvent.slot))
            IN  devices' = [devices EXCEPT ![i].queued = FALSE,
                                           ![i].ready = @ \/ NextEvent.ok]
       ELSE UNCHANGED devices
  /\ UNCHANGED <<board, scan, deviceCount, kept, turn, eventRing, controller, commands,
                 commandPut, rings, buffers, inputContext, timedOut>>

\* Room for a report.
Normal(i) == [op |-> "normal", buffer |-> BufferOf(i)]

\* The mistake of arming an endpoint that is armed.
ArmAgain(i) ==
  /\ LET q == Queue(RingOf(i), Normal(i))
     IN  /\ rings' = [rings EXCEPT ![i] = q.ring]
         /\ devices' = [devices EXCEPT ![i].put = q.cursor, ![i].queued = TRUE,
                                       ![i].ready = FALSE]
  /\ slots' = [slots EXCEPT ![devices[i].slot].reportOn = IF @ = "idle" THEN "running" ELSE @]
  /\ phase' = "issue" /\ drained' = 0

\* arm, and the end of a poll_report that leaves `ready` clear.
Arm(i) ==
  /\ \/ /\ devices[i].queued
        /\ devices' = [devices EXCEPT ![i].ready = FALSE]
        /\ UNCHANGED <<rings, slots>>
     \/ /\ ~devices[i].queued
        /\ LET q == Queue(RingOf(i), Normal(i))
           IN  /\ rings' = [rings EXCEPT ![i] = q.ring]
               /\ devices' = [devices EXCEPT ![i].put = q.cursor, ![i].queued = TRUE,
                                             ![i].ready = FALSE]
        /\ slots' = [slots EXCEPT ![devices[i].slot].reportOn =
                       IF @ = "idle" THEN "running" ELSE @]
  /\ phase' = "issue"
  /\ drained' = 0

\* The events are drained: a report that is ready is copied in a moment.
DrainDone ==
  /\ phase = "drain"
  /\ ~EventWaiting \/ drained = RingLen
  /\ \/ devices[kept[turn]].ready /\ phase' = "copy" /\ UNCHANGED <<devices, rings, slots, drained>>
     \/ ~devices[kept[turn]].ready /\ Arm(kept[turn])
  /\ UNCHANGED <<board, step, port, parsed, deviceCount, kept, turn, eventRing, eventRead,
                 commandAt, sent, commands, commandPut, buffers, inputContext, timedOut>>

CopyReport ==
  /\ step = "poll" /\ phase = "copy"
  /\ Arm(kept[turn])
  /\ UNCHANGED <<board, step, port, parsed, deviceCount, kept, turn, eventRing, eventRead,
                 commandAt, sent, commands, commandPut, buffers, inputContext, timedOut>>

Poll == BeginPoll \/ DrainOne \/ DrainDone \/ CopyReport

-----------------------------------------------------------------------------
(* The controller, as far as the driver's comments describe it.            *)

Completion(s, ok, tag) == [op |-> "completion", slot |-> s, ok |-> ok, tag |-> tag]
Transfer(s, ok, tag)   == [op |-> "transfer", slot |-> s, ok |-> ok, tag |-> tag]

Free == {s \in Slots : ~slots[s].used}

RunCommand ==
  LET at  == Reading(commands, commandAt)
      trb == commands[at.at].trb
      s   == trb.slot
      matches == inputContext.op = trb.op
  IN  /\ Owned(commands, at)
      /\ commandAt' = Past(at)
      /\ \/ /\ trb.op = "enable"
            /\ IF Free = {}
                 THEN Post(Completion(0, FALSE, trb.tag)) /\ UNCHANGED slots
                 ELSE /\ Post(Completion(Least(Free), TRUE, trb.tag))
                      /\ slots' = [slots EXCEPT ![Least(Free)].used = TRUE]
         \/ /\ trb.op = "address"
            /\ LET ok == matches /\ slots[s].used /\ board[inputContext.port] # "mute"
               IN  /\ Post(Completion(s, ok, trb.tag))
                   /\ slots' = IF ok THEN [slots EXCEPT
                                  ![s].ring = inputContext.ring, ![s].port = inputContext.port,
                                  ![s].control = Origin, ![s].controlOn = FALSE] ELSE slots
         \/ /\ trb.op = "endpoint"
            /\ LET ok == matches /\ slots[s].ring # None
               IN  /\ Post(Completion(s, ok, trb.tag))
                   /\ slots' = IF ok THEN [slots EXCEPT
                                  ![s].report = Origin, ![s].reportOn = "idle"] ELSE slots
      /\ UNCHANGED <<board, scan, table, polling, eventRead, sent, commands, commandPut,
                     rings, buffers, inputContext, timedOut>>

\* One TRB of the control endpoint of an addressed slot, or none left.
RunControl(s) ==
  LET ring == rings[slots[s].ring]
      at   == Reading(ring, slots[s].control)
      trb  == ring[at.at].trb
      past == [slots EXCEPT ![s].control = Past(at)]
  IN  /\ slots[s].controlOn
      /\ \/ /\ ~Owned(ring, at)
            /\ slots' = [slots EXCEPT ![s].control = at, ![s].controlOn = FALSE]
            /\ UNCHANGED <<buffers, eventRing>>
         \/ /\ Owned(ring, at) /\ trb.op = "setup"
            /\ slots' = [past EXCEPT ![s].request = trb.request]
            /\ UNCHANGED <<buffers, eventRing>>
         \/ /\ Owned(ring, at) /\ trb.op = "data"
            /\ slots' = past
            /\ buffers' = [buffers EXCEPT ![trb.buffer] =
                             Content(slots[s].port, slots[s].request, 0)]
            /\ UNCHANGED eventRing
         \/ /\ Owned(ring, at) /\ trb.op = "status"
            /\ slots' = past
            /\ Post(Transfer(s, TRUE, trb.tag))
            /\ UNCHANGED buffers
      /\ UNCHANGED <<board, scan, table, polling, eventRead, commandAt, sent, commands,
                     commandPut, rings, inputContext, timedOut>>

Report == [port |-> 0, step |-> "report"]

\* One TRB of the interrupt endpoint, which starts where the control
\* endpoint did; a transfer waits until the device has something to send.
RunReport(s) ==
  LET p    == slots[s].port
      ring == rings[slots[s].ring]
      at   == Reading(ring, slots[s].report)
      trb  == ring[at.at].trb
      past == [slots EXCEPT ![s].report = Past(at)]
      Sends == /\ sent[p] < MaxReports
               /\ sent' = [sent EXCEPT ![p] = @ + 1]
               /\ buffers' = [buffers EXCEPT ![trb.buffer] = Content(p, "report", sent'[p])]
  IN  /\ slots[s].reportOn = "running"
      /\ \/ /\ ~Owned(ring, at)
            /\ slots' = [slots EXCEPT ![s].report = at, ![s].reportOn = "idle"]
            /\ UNCHANGED <<sent, buffers, eventRing>>
         \/ /\ Owned(ring, at) /\ trb.op = "normal"
            /\ slots' = past
            /\ Sends
            /\ Post(Transfer(s, TRUE, Report))
         \/ /\ Owned(ring, at) /\ trb.op # "normal" /\ "halt" \in OnForeignTrb
            /\ slots' = [slots EXCEPT ![s].reportOn = "halted"]
            /\ Post(Transfer(s, FALSE, Report))
            /\ UNCHANGED <<sent, buffers>>
         \/ /\ Owned(ring, at) /\ trb.op = "setup" /\ "run" \in OnForeignTrb
            /\ slots' = past
            /\ UNCHANGED <<sent, buffers, eventRing>>
         \/ /\ Owned(ring, at) /\ trb.op = "data" /\ "run" \in OnForeignTrb
            /\ slots' = past
            /\ Sends
            /\ UNCHANGED eventRing
         \/ /\ Owned(ring, at) /\ trb.op = "status" /\ "run" \in OnForeignTrb
            /\ slots' = past
            /\ Post(Transfer(s, TRUE, Report))
            /\ UNCHANGED <<sent, buffers>>
      /\ UNCHANGED <<board, scan, table, polling, eventRead, commandAt, commands,
                     commandPut, rings, inputContext, timedOut>>

\* Without a controller or a device the interface goes on without USB input.
Absent == step = "absent" /\ UNCHANGED vars

Controller == RunCommand \/ \E s \in Slots : RunControl(s) \/ RunReport(s)

Next == BringUp \/ Poll \/ Absent \/ Controller

Spec == Init /\ [][Next]_vars

-----------------------------------------------------------------------------
(* Properties.                                                             *)

Cursors == [at : Positions, cycle : {0, 1}]

\* Every index is one of its array: the positions of both sides on every
\* ring, the devices kept, and the slots the controller handed out.
TypeOK ==
  /\ step \in Commands \cup Transfers \cup {"scan", "poll", "absent"}
  /\ phase \in {"issue", "wait", "copy", "drain"}
  /\ deviceCount \in 0 .. MaxDevices
  /\ \A i \in Index : devices[i].slot \in {0} \cup Slots /\ devices[i].put \in Cursors
  /\ \A k \in Read : kept[k] \in {None} \cup 0 .. deviceCount - 1
  /\ {commandPut, commandAt, eventPut, eventAt} \subseteq Cursors
  /\ drained \in 0 .. RingLen

\* The cycle bits and ERDP keep the two ends of the event ring in step across
\* its end: an event is seen exactly while there is one the driver has not
\* taken, so none is read twice and none is overwritten unread.
EventsAreTakenOnce ==
  /\ EventWaiting <=> posted > taken
  /\ posted - taken \in 0 .. RingLen - 1

\* Until a wait gives up, the completion event taken is "the completion event
\* for the command just issued" (wait_command_event), port changes and
\* transfers in between notwithstanding.
AnswersMatchCommands ==
  /\ ~timedOut /\ phase = "wait" /\ step \in Commands
  /\ EventWaiting /\ NextEvent.op = Wanted
  => NextEvent.tag = Tag

\* The entry `cursor` is at on a ring is one the reader has yet to run.
Kept(before, after, cursor) ==
  Owned(before, cursor) => after[cursor.at] = before[cursor.at]

\* What an endpoint for control transfers runs; one that was told to go on has
\* nothing to do with the reports asked for on its ring later.
Stages == {"setup", "data", "status"}

\* The entry that an endpoint of a slot is to run next is not rewritten.
EndpointIsKept(s) ==
  LET i == slots[s].ring IN
  /\ /\ slots[s].controlOn /\ slots'[s].controlOn
     /\ slots'[s].control = slots[s].control
     /\ rings[i][slots[s].control.at].trb.op \in Stages
     => Kept(rings[i], rings'[i], slots[s].control)
  /\ slots[s].reportOn = "running" /\ slots'[s].report = slots[s].report
     => Kept(rings[i], rings'[i], slots[s].report)

WorkIsKept ==
  /\ commandAt' = commandAt => Kept(commands, commands', commandAt)
  /\ \A s \in Slots : EndpointIsKept(s)

\* The driver queues without asking where the controller is.  Until a wait
\* gives up it never rewrites the entry that the command ring or a working
\* endpoint is to run next.
QueuedWorkIsNotOverwritten == [][timedOut' \/ WorkIsKept]_vars

\* A descriptor is parsed from bytes the device on this port sent in answer to
\* this request ("SAFETY: the transfer completed, so the buffer holds the
\* descriptor").
DescriptorIsTheDevices ==
  ~timedOut /\ step \in Reads /\ phase = "copy"
  => buffers[BufferOf(deviceCount)] = Content(port, step, 0)

\* Every part keeps its type, and what is taken for the answer is the answer:
\* the event of this command, the bytes of this request.
AnswersAreTheRequests == TypeOK /\ AnswersMatchCommands /\ DescriptorIsTheDevices

\* "Every connected port is tried, and the first keyboard and the first
\* pointer are both kept" (bring_up), if they answer in time.
FirstOfEachKindIsKept ==
  ~timedOut /\ step \in {"poll", "absent"} =>
    \A k \in Read : (\E p \in DOMAIN board : board[p] = k) => kept[k] # None

\* The driver is the only code the processor runs; nothing is assumed of the
\* controller.
LiveSpec == Spec /\ WF_vars(BringUp)

\* Whatever is plugged in, and if the controller never answers, bring-up ends
\* ("a bounded wait is what keeps a controller that never answers from
\* hanging the boot").
BringUpEnds == board \in SlowBoards => <>(step \in {"poll", "absent"})
=============================================================================
