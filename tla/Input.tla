-------------------------------- MODULE Input --------------------------------
(***************************************************************************)
(* nanochrono-baremetal/src/input.rs: Input::poll as a whole.  A byte of   *)
(* the 8042 first; else an event of the USB keyboard or mouse, in turn;    *)
(* else the I2C device, when it is due.                                    *)
(*                                                                         *)
(* A HID device says which keys are held, and the driver makes events of   *)
(* the difference between two reports.  A pointer's report holds none; its *)
(* movement is left out.  The deadline of the I2C device is kept as its    *)
(* wrapping distance from the counter, all that the code looks at.         *)
(***************************************************************************)
EXTENDS Ps2Input, I2cHid

CONSTANTS
  Machines,     \* what is fitted, what answers its probe, the gate opened
  Interval,     \* Input.i2c_interval
  Width,        \* bits of the counter
  MaxLate       \* bound: how late the loop comes to a deadline

Devices      == {"ps2_keyboard", "ps2_mouse", "usb_keyboard", "usb_mouse",
                 "i2c_pointer", "i2c_keyboard"}
UsbDevices   == {"usb_keyboard", "usb_mouse"}
I2cDevices   == {"i2c_pointer", "i2c_keyboard"}
Hid          == UsbDevices \cup I2cDevices
HidKeyboards == {"usb_keyboard", "i2c_keyboard"}

Limit == 2^Width

\* A keyboard is read whether it answers its probe or not.
ASSUME InputAssumption ==
  /\ \A m \in Machines :
       /\ m.fitted \subseteq Devices /\ Cardinality(m.fitted \cap I2cDevices) <= 1
       /\ m.fitted \ {"ps2_keyboard"} \subseteq m.answering
       /\ m.answering \subseteq m.fitted
       /\ m.gate \in OpenGates
  /\ Width \in Nat \ {0} /\ {Interval, MaxLate} \subseteq 0 .. Limit \div 2 - 1

VARIABLES
  machine,      \* the machine booted on
  held,         \* by HID device, the keys held
  reported,     \* by HID device, the keys of its last report
  line,         \* by HID device, the report that waits: none, or one
  previous,     \* UsbInput.previous, Input.i2c_previous
  next,         \* UsbInput.next
  ahead,        \* i2c_next.wrapping_sub(counter)
  pressed,      \* history: by HID keyboard, presses and releases made
  received,     \* history: and those handed to the interface
  rushed        \* history: two keys changed between two reports

hid  == <<held, reported, line, previous, pressed, received, rushed>>
vars == <<ps2, pad, machine, hid, next, ahead>>

-----------------------------------------------------------------------------
(* Bring-up: Input::init.                                                  *)

\* USB is brought up when a device is missing, and for both roles.
UsbUp ==
  /\ ~({"ps2_keyboard", "ps2_mouse"} \subseteq machine.answering)
  /\ UsbDevices \cap machine.answering # {}

\* The I2C bus is probed when no pointer is found.
PadUp ==
  /\ I2cDevices \cap machine.answering # {}
  /\ "ps2_mouse" \notin machine.answering
  /\ ~(UsbUp /\ "usb_mouse" \in machine.answering)

Attached ==
  (IF UsbUp THEN UsbDevices \cap machine.answering ELSE {})
    \cup (IF PadUp THEN I2cDevices \cap machine.answering ELSE {})

Init ==
  /\ Ps2Init
  /\ machine \in Machines
  /\ "ps2_keyboard" \in machine.fitted \/ scanSet = 1
  /\ PadInit(machine.gate)
  /\ held = [d \in Hid |-> {}] /\ reported = held /\ previous = held
  /\ line = [d \in Hid |-> {}]
  /\ next = "usb_keyboard"
  /\ ahead = 0
  /\ pressed = [d \in HidKeyboards |-> <<>>] /\ received = pressed
  /\ rushed = [d \in HidKeyboards |-> FALSE]

-----------------------------------------------------------------------------
(* The devices.                                                            *)

Typed == Len(typed) + Len(pressed["usb_keyboard"]) + Len(pressed["i2c_keyboard"])

TypeOn(d, k) ==
  /\ d \in Attached /\ Typed < MaxTyped
  /\ held' = [held EXCEPT ![d] = IF k \in @ THEN @ \ {k} ELSE @ \cup {k}]
  /\ pressed' = [pressed EXCEPT ![d] = Append(@, Key(Set1[k], k \notin held[d]))]
  /\ rushed' = [rushed EXCEPT ![d] = @ \/ held[d] # reported[d]]
  /\ UNCHANGED <<ps2, pad, machine, reported, line, previous, received, next, ahead>>

\* A device that has room for a report makes one: of a change, a movement, or
\* a modifier, which no event comes of.
Report(d) ==
  /\ d \in Attached /\ line[d] = {}
  /\ line' = [line EXCEPT ![d] = {held[d]}]
  /\ reported' = [reported EXCEPT ![d] = held[d]]
  /\ UNCHANGED <<ps2, pad, machine, held, previous, pressed, received, rushed, next, ahead>>

\* Time matters to the I2C deadline alone.
Tick ==
  /\ PadUp
  /\ ahead # Limit - MaxLate
  /\ ahead' = (ahead - 1) % Limit
  /\ UNCHANGED <<ps2, pad, machine, hid, next>>

-----------------------------------------------------------------------------
(* Input::poll with nothing in the 8042.                                   *)

Keystrokes(ks, isDown) == {Key(Set1[k], isDown) : k \in ks}

\* poll_keyboard and keys_changed: the events, of which one is returned. Which
\* is a matter of the order of the report's slots.
KeysChanged(keys, was) ==
  IF keys \ was # {} THEN Keystrokes(keys \ was, TRUE) ELSE Keystrokes(was \ keys, FALSE)

\* poll_keyboard and poll_pointer return an event.
Yields(d) ==
  /\ line[d] # {}
  /\ d = "usb_mouse" \/ \E keys \in line[d] : KeysChanged(keys, previous[d]) # {}

Other(d) == CHOOSE u \in UsbDevices : u # d

\* The mistake of staying with a device for as long as it yields.
Insistent(d) == IF Yields(d) THEN d ELSE Other(d)

\* UsbInput::poll turns once for a device that yields and twice otherwise.
Turned(d) == IF Yields(d) THEN Other(d) ELSE d

UsbYields == UsbUp /\ \E d \in UsbDevices : Yields(d)

UsbRead ==
  IF ~UsbUp THEN {} ELSE IF Yields(next) THEN {next} ELSE UsbDevices

\* The difference from the counter, as a signed number, is not positive.
Due == ahead = 0 \/ ahead >= Limit \div 2

\* poll_i2c, as far as a report is read or not.  Without a device nothing
\* looks at the deadline.
PollI2c(d, had) ==
  \/ /\ ~PadUp \/ ~Due
     /\ ~had
     /\ UNCHANGED <<ahead, pad>>
  \/ /\ PadUp /\ Due
     /\ ahead' = Interval
     /\ PollPad(line[d] # {}, had)

\* The mistake of remembering a report for its presses only.
RememberedPresses(keys, was) == IF keys \ was # {} THEN keys ELSE was

\* The report is remembered whole, whichever of its events is returned.
Remembered(keys, was) == keys

\* The reports of `read` are taken, and the first event among them returned.
Take(read) ==
  /\ line' = [d \in Hid |-> IF d \in DOMAIN read THEN {} ELSE line[d]]
  /\ reported' = [d \in Hid |-> IF d \in DOMAIN read THEN read[d] ELSE reported[d]]
  /\ previous' = [d \in Hid |-> IF d \in DOMAIN read \cap HidKeyboards
                                  THEN Remembered(read[d], previous[d]) ELSE previous[d]]
  /\ \/ \E d \in DOMAIN read \cap HidKeyboards :
          \E key \in KeysChanged(read[d], previous[d]) :
            received' = [received EXCEPT ![d] = Append(@, key)]
     \/ /\ \A d \in DOMAIN read \cap HidKeyboards : KeysChanged(read[d], previous[d]) = {}
        /\ UNCHANGED received

\* A report of the I2C device may come as it is read.
PollReports ==
  /\ Quiet
  /\ next' = IF UsbUp THEN Turned(next) ELSE next
  /\ \E d \in I2cDevices, had \in BOOLEAN :
       /\ PadUp => d \in machine.answering
       /\ IF UsbYields THEN ~had /\ UNCHANGED <<ahead, pad>> ELSE PollI2c(d, had)
       /\ LET usb == {u \in UsbRead : line[u] # {}}
              all == IF had THEN usb \cup {d} ELSE usb
          IN  Take([r \in all |-> IF line[r] = {} THEN held[r]
                                                 ELSE CHOOSE keys \in line[r] : TRUE])
  /\ UNCHANGED <<ps2, machine, held, pressed, rushed>>

\* Input::poll
Poll ==
  \/ Poll8042 /\ UNCHANGED <<pad, machine, hid, next, ahead>>
  \/ PollReports

MoveMouse(small) ==
  /\ "ps2_mouse" \in machine.fitted
  /\ Move(small)
  /\ UNCHANGED <<pad, machine, hid, next, ahead>>

Next ==
  \/ \E k \in Keys :
       /\ "ps2_keyboard" \in machine.fitted /\ Typed < MaxTyped
       /\ Type(k)
       /\ UNCHANGED <<pad, machine, hid, next, ahead>>
  \/ \E small \in BOOLEAN : MoveMouse(small)
  \/ /\ "ps2_mouse" \in machine.fitted /\ Lose
     /\ UNCHANGED <<pad, machine, hid, next, ahead>>
  \/ \E d \in HidKeyboards, k \in Keys : TypeOn(d, k)
  \/ \E d \in Hid : Report(d)
  \/ Tick
  \/ \E p \in Pads : PadUp /\ Drift(p) /\ UNCHANGED <<ps2, machine, hid, next, ahead>>
  \/ Poll

Spec == Init /\ [][Next]_vars

-----------------------------------------------------------------------------
(* Properties.                                                             *)

\* The parts' shapes; no more events than keystrokes on any keyboard.
TypeOK ==
  /\ Ps2TypeOK
  /\ PadTypeOK
  /\ \A d \in HidKeyboards : Len(received[d]) <= Len(pressed[d])

\* Every press and release arrives once and in order, as the set 1 scancode of
\* its key, however bytes and reports of other devices fall between: on the
\* 8042 (see Ps2KeysArriveAsTyped), and of a HID keyboard as long as no two
\* keys changed between two of its reports.
KeysArriveAsTyped ==
  /\ TypeOK
  /\ Ps2KeysArriveAsTyped
  /\ \A d \in HidKeyboards : ~rushed[d] =>
       \A i \in DOMAIN received[d] : i \in DOMAIN pressed[d] /\ received[d][i] = pressed[d][i]

\* The loop polls without pause, far faster than the 8042 fills; time passes;
\* the PS/2 mouse is moved, and now and then slowly.
LiveSpec ==
  /\ Spec
  /\ WF_vars(Poll)
  /\ SF_vars(PollReports)
  /\ WF_vars(Tick)
  /\ WF_vars(\E small \in BOOLEAN : MoveMouse(small))
  /\ SF_vars(mouseAt = 1 /\ MoveMouse(TRUE))

\* "what keeps a dropped byte from turning every subsequent packet into
\* nonsense" (accumulate): whatever bytes were lost, decoder and mouse agree
\* again on where a packet starts, and stay so.
CursorStopsWandering == <>[]Framed

\* "a mouse being moved continuously cannot starve the keyboard" (UsbInput::
\* poll), and no pin, right or wrong, hides a report of the I2C device for
\* good (AUDIT_EVERY): a report that waits is read, unless the device was
\* given up on. The premise is that the 8042 is now and then empty.
ReportsAreServed ==
  []<>Quiet => \A d \in Hid :
    line[d] # {} ~> line[d] = {} \/ (d \in I2cDevices /\ Abandoned)
=============================================================================
