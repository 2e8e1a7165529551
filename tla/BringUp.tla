------------------------------ MODULE BringUp ------------------------------
(***************************************************************************)
(* nanochrono-baremetal/src/input.rs: Input::init, which brings a keyboard *)
(* and a pointer up by the 8042, and looks on USB and I2C for what is      *)
(* missing.  The answers of controller, keyboard and mouse come by one     *)
(* port, when they come: keys typed meanwhile come between them, and a     *)
(* slow device answers after the driver has stopped waiting.  Bytes are    *)
(* known by what they say.                                                 *)
(***************************************************************************)
EXTENDS Naturals, Sequences

VARIABLES
  source,    \* the controller, its devices, what the other buses have, and how many keys are typed
  code,      \* the controller and its devices
  walk,      \* the driver: its step, the byte it has read, the tries and the commands that are left
  answers    \* what it has found, and whether a byte it read was not the answer it asked for

bringUpVars == <<source, code, walk, answers>>

\* Controllers, what is plugged into them, and what the other buses have.  A
\* mouse has a port; a search that finds no touchpad says why.
Controllers ==
  {c \in [ctl : {"absent", "closed", "open"}, aux : BOOLEAN, resets : BOOLEAN, keys : Nat, pad : STRING \ {""},
           config : SUBSET {"system", "interrupts", "translation", "kbd off", "aux off"},
           kbd : {"none", "silent", "stubborn", "plain"}, mouse : {"none", "standard", "wheel", "five"},
           slow : SUBSET {"ctl", "kbd", "aux"}, usb : SUBSET {"keyboard", "pointer"}] :
     c.mouse # "none" => c.aux}

\* A left shift that is released says what a device says that has reset.
Strays == {"key", "done"}

Nothing == [says |-> "nothing"]

KindOf(mode) == CASE mode = "standard" -> "zero" [] mode = "wheel" -> "three" [] mode = "five" -> "four"

-----------------------------------------------------------------------------
(***************************************************************************)
(* The controller and its devices.                                         *)
(***************************************************************************)
Owes(w, port, said) == [w EXCEPT !.due[port] = @ \o [i \in DOMAIN said |-> [says |-> said[i]]]]

Configured(w, flags) == IF source.ctl = "absent" THEN w ELSE [w EXCEPT !.config = flags]

Commanded(w, c) ==
  CASE source.ctl = "absent" -> w
    [] source.ctl = "closed" /\ c = "get config" -> w
    [] source.ctl = "open" /\ c = "get config"   -> [w EXCEPT !.due["ctl"] = Append(@, [says |-> "config", flags |-> w.config])]
    [] source.ctl # "absent" /\ c = "self test"  ->
         Owes(IF source.resets THEN Configured(w, {"kbd off", "aux off"}) ELSE w, "ctl", <<"passed">>)
    [] source.ctl # "absent" /\ c = "test aux"   -> IF source.aux THEN Owes(w, "ctl", <<"zero">>) ELSE w
    [] source.ctl # "absent" /\ c = "disable kbd" -> Configured(w, w.config \cup {"kbd off"})
    [] source.ctl # "absent" /\ c = "disable aux" -> Configured(w, w.config \cup {"aux off"})
    [] source.ctl # "absent" /\ c = "enable kbd"  -> Configured(w, w.config \ {"kbd off"})
    [] source.ctl # "absent" /\ c = "enable aux"  -> Configured(w, w.config \ {"aux off"})

Attached(device) == source.ctl # "absent" /\ device # "none"

ToKeyboard(w, byte) ==
  CASE ~Attached(source.kbd) \/ source.kbd = "silent" -> w
    [] Attached(source.kbd) /\ source.kbd # "silent" /\ byte = "reset" ->
         Owes([w EXCEPT !.scanning = FALSE], "kbd", <<"ack", "done">>)
    [] Attached(source.kbd) /\ source.kbd # "silent" /\ byte = "enable" ->
         IF source.kbd = "stubborn" /\ w.scanning THEN w ELSE Owes([w EXCEPT !.scanning = TRUE], "kbd", <<"ack">>)

\* Three rates in a row are a knock, which a mouse that knows it hears.
Knocked(mode, rates) ==
  CASE rates = <<"200", "100", "80">> /\ source.mouse \in {"wheel", "five"} -> "wheel"
    [] rates = <<"200", "200", "80">> /\ source.mouse = "five" /\ mode = "wheel" -> "five"
    [] OTHER -> mode

ToMouse(w, byte) ==
  CASE ~Attached(source.mouse) -> w
    [] Attached(source.mouse) /\ byte = "reset" ->
         Owes([w EXCEPT !.mode = "standard", !.rates = <<"", "", "">>, !.reports = FALSE], "aux", <<"ack", "done", "zero">>)
    [] Attached(source.mouse) /\ byte = "get id" -> Owes(w, "aux", <<"ack", KindOf(w.mode)>>)
    [] Attached(source.mouse) /\ byte = "enable" -> Owes([w EXCEPT !.reports = TRUE], "aux", <<"ack">>)
    [] Attached(source.mouse) /\ byte \in {"set rate", "defaults"} -> Owes(w, "aux", <<"ack">>)
    [] Attached(source.mouse) /\ byte \in {"200", "100", "80"} ->
         LET rates == Append(Tail(w.rates), byte)
         IN Owes([w EXCEPT !.rates = rates, !.mode = Knocked(@, rates)], "aux", <<"ack">>)

Owing == {port \in {"ctl", "kbd", "aux"} : code.due[port] # <<>>}

Deliver ==
  /\ \E port \in Owing :
       code' = [code EXCEPT !.due[port] = Tail(@), !.out = Append(@, Head(code.due[port]))]
  /\ UNCHANGED <<walk, answers>>

Type ==
  /\ code.typed < source.keys /\ Attached(source.kbd) /\ code.scanning /\ "kbd off" \notin code.config
  /\ \E byte \in Strays :
       code' = [code EXCEPT !.typed = @ + 1, !.out = Append(@, [says |-> byte, typed |-> TRUE])]
  /\ UNCHANGED <<walk, answers>>

-----------------------------------------------------------------------------
(***************************************************************************)
(* The driver: it waits for a byte, and goes on with what it got.          *)
(***************************************************************************)
BringUpInit ==
  /\ code = [config |-> source.config, out |-> <<>>, due |-> [p \in {"ctl", "kbd", "aux"} |-> <<>>], scanning |-> TRUE,
             rates |-> <<"", "", "">>, mode |-> "standard", reports |-> FALSE, typed |-> 0]
  /\ walk = [pc |-> "quiet", then |-> "", got |-> Nothing, byte |-> {}, tries |-> 2, todo |-> <<>>, after |-> ""]
  /\ answers = [keyboard |-> FALSE, pointer |-> "none", usb |-> {}, failure |-> "none", crossed |-> FALSE]

At(pc)    == walk.pc = pc
Got(says) == walk.got.says = says
InputDone == At("found")

Drained(w) == [w EXCEPT !.out = <<>>]

\* What is asked of w is waited for, and judged at `then`.
Asks(then, w) == code' = w /\ walk' = [walk EXCEPT !.pc = "read", !.then = then]
Goes(pc, w)   == code' = w /\ walk' = [walk EXCEPT !.pc = pc]

\* Commands for the mouse, each with a read that is not looked at; then `after`.
Sends(todo, after) == code' = code /\ walk' = [walk EXCEPT !.pc = "send", !.todo = todo, !.after = after]

\* read_data(): whatever is there, or nothing in the end.
Hear ==
  /\ At("read")
  /\ \/ /\ source.ctl = "absent"
        /\ walk' = [walk EXCEPT !.pc = walk.then, !.got = [says |-> "all ones", flags |-> {}]]
        /\ UNCHANGED <<code, answers>>
     \/ /\ code.out # <<>>
        /\ walk' = [walk EXCEPT !.pc = walk.then, !.got = Head(code.out)]
        /\ answers' = [answers EXCEPT !.crossed = @ \/ "typed" \in DOMAIN Head(code.out)]
        /\ code' = [code EXCEPT !.out = Tail(@)]
     \/ /\ source.ctl # "absent" /\ code.out = <<>> /\ Owing \subseteq source.slow
        /\ walk' = [walk EXCEPT !.pc = walk.then, !.got = Nothing]
        /\ answers' = [answers EXCEPT !.crossed = @ \/ Owing # {}]
        /\ UNCHANGED code

Send ==
  /\ At("send")
  /\ IF walk.todo = <<>> THEN Goes(walk.after, code)
     ELSE /\ code' = ToMouse(code, Head(walk.todo))
          /\ walk' = [walk EXCEPT !.pc = "read", !.then = "send", !.todo = Tail(@)]
  /\ UNCHANGED answers

\* Both ports off, so that no device speaks while the controller is asked.
Quiet ==
  /\ At("quiet")
  /\ Asks("configure", Commanded(Drained(Commanded(Commanded(code, "disable kbd"), "disable aux")), "get config"))
  /\ UNCHANGED answers

\* The mistake of configuring a controller that has not told what it is set to.
ConfigureAnyway ==
  LET byte == ((IF "flags" \in DOMAIN walk.got THEN walk.got.flags ELSE {}) \cup {"translation", "system"})
                \ {"kbd off", "aux off", "interrupts"}
  IN /\ At("configure")
     /\ code' = Commanded(Configured(code, byte), "self test")
     /\ walk' = [walk EXCEPT !.pc = "read", !.then = "tested", !.byte = byte]
     /\ UNCHANGED answers

Configure ==
  /\ At("configure")
  /\ IF walk.got = Nothing THEN Goes("enable", code)
     ELSE LET byte == ((IF "flags" \in DOMAIN walk.got THEN walk.got.flags ELSE {}) \cup {"translation", "system"})
                        \ {"kbd off", "aux off", "interrupts"}
          IN /\ code' = Commanded(Configured(code, byte), "self test")
             /\ walk' = [walk EXCEPT !.pc = "read", !.then = "tested", !.byte = byte]
  /\ UNCHANGED answers

\* Again, for a controller that has reset its configuration in the test.
Tested ==
  /\ At("tested")
  /\ Goes("enable", IF Got("passed") THEN Configured(code, walk.byte) ELSE code)
  /\ UNCHANGED answers

(***************************************************************************)
(* keyboard_up() and reset_device(false)                                   *)
(***************************************************************************)
Enable ==
  /\ At("enable")
  /\ Asks("scanning", ToKeyboard(Drained(Commanded(code, "enable kbd")), "enable"))
  /\ UNCHANGED answers

HasKeyboard == answers' = [answers EXCEPT !.keyboard = TRUE]

Scanning ==
  /\ At("scanning")
  /\ IF Got("ack") THEN HasKeyboard /\ Goes("test aux", code)
     ELSE Goes("reset", Drained(code)) /\ UNCHANGED answers

ResetKeyboard ==
  /\ At("reset")
  /\ IF walk.tries = 0 THEN Goes("test aux", code)
     ELSE /\ code' = ToKeyboard(code, "reset")
          /\ walk' = [walk EXCEPT !.pc = "read", !.then = "acked", !.tries = @ - 1]
  /\ UNCHANGED answers

Acked ==
  /\ At("acked")
  /\ IF Got("ack") THEN Asks("was reset", code) ELSE Goes("reset", Drained(code))
  /\ UNCHANGED answers

WasReset ==
  /\ At("was reset")
  /\ IF Got("done") THEN Asks("scans again", ToKeyboard(code, "enable")) ELSE Goes("reset", Drained(code))
  /\ UNCHANGED answers

ScansAgain == At("scans again") /\ HasKeyboard /\ Goes("test aux", code)

(***************************************************************************)
(* reset_device(true) and identify_pointer()                               *)
(***************************************************************************)
TestAux == At("test aux") /\ Asks("aux", Commanded(code, "test aux")) /\ UNCHANGED answers

AuxThere ==
  /\ At("aux")
  /\ IF Got("zero") THEN Asks("aux acked", ToMouse(Commanded(code, "enable aux"), "reset")) ELSE Goes("over", code)
  /\ UNCHANGED answers

AuxAcked ==
  /\ At("aux acked")
  /\ IF Got("ack") THEN Asks("aux reset", code) ELSE Goes("over", code)
  /\ UNCHANGED answers

Knock(last) == <<"set rate", "200", "set rate", last, "set rate", "80", "get id">>

\* The mistake of leaving the mouse's id unread after its reset.
AuxResetAtDone ==
  /\ At("aux reset")
  /\ IF Got("done") THEN Sends(Knock("100"), "ask id") ELSE Goes("over", code)
  /\ UNCHANGED answers

AuxReset ==
  /\ At("aux reset")
  /\ IF Got("done") THEN Asks("knock", code) ELSE Goes("over", code)
  /\ UNCHANGED answers

FirstKnock  == At("knock") /\ Sends(Knock("100"), "ask id") /\ UNCHANGED answers
AskId       == At("ask id") /\ Asks("id", code) /\ UNCHANGED answers
AskIdAgain  == At("ask id again") /\ Asks("id again", code) /\ UNCHANGED answers

HasPointer(kind) == answers' = [answers EXCEPT !.pointer = kind] /\ Sends(<<"defaults", "enable">>, "over")

Id ==
  /\ At("id")
  /\ IF Got("three") THEN Sends(Knock("200"), "ask id again") /\ UNCHANGED answers ELSE HasPointer("standard")

IdAgain == At("id again") /\ HasPointer(IF Got("four") THEN "five" ELSE "wheel")

Over == At("over") /\ Goes("usb", Drained(code)) /\ UNCHANGED answers

(***************************************************************************)
(* USB if either is missing, I2C if there is still no pointer.             *)
(***************************************************************************)
LookOnUsb ==
  /\ At("usb")
  /\ answers' = IF answers.keyboard /\ answers.pointer # "none" THEN answers
                ELSE [answers EXCEPT !.usb = source.usb, !.keyboard = @ \/ "keyboard" \in source.usb,
                                     !.pointer = IF @ = "none" /\ "pointer" \in source.usb THEN "usb" ELSE @]
  /\ Goes("i2c", code)

LookOnI2c ==
  /\ At("i2c")
  /\ answers' = IF answers.pointer # "none" THEN answers
                ELSE IF source.pad = "touchpad" THEN [answers EXCEPT !.pointer = "i2c"]
                ELSE [answers EXCEPT !.failure = source.pad]
  /\ Goes("found", code)

BringUpNext ==
  /\ \/ Deliver \/ Type \/ Hear \/ Send \/ Quiet \/ Configure \/ Tested \/ Enable \/ Scanning \/ ResetKeyboard \/ Acked
     \/ WasReset \/ ScansAgain \/ TestAux \/ AuxThere \/ AuxAcked \/ AuxReset \/ FirstKnock \/ AskId \/ AskIdAgain \/ Id
     \/ IdAgain \/ Over \/ LookOnUsb \/ LookOnI2c
  /\ UNCHANGED source

-----------------------------------------------------------------------------
(***************************************************************************)
(* What the interface says of it.                                          *)
(***************************************************************************)
OnUsb(device) == device \in answers.usb

SourceName ==
  CASE answers.pointer = "i2c" -> IF answers.keyboard THEN "ps/2 keyboard + touchpad" ELSE "touchpad"
    [] answers.pointer = "none" -> IF answers.keyboard THEN "keyboard only" ELSE "no input device"
    [] answers.pointer \notin {"i2c", "none"} ->
         IF ~answers.keyboard THEN "pointer only"
         ELSE IF answers.usb = {} THEN "ps/2"
         ELSE IF OnUsb("keyboard") THEN "usb" ELSE "ps/2 keyboard + usb pointer"

\* Found: the i2c touchpad passes for a pointer of the 8042 as well.
FoundDevices ==
  [ps2Keyboard |-> answers.keyboard /\ ~OnUsb("keyboard"),
   ps2Pointer  |-> IF answers.pointer = "usb" THEN "none" ELSE answers.pointer,
   usbKeyboard |-> OnUsb("keyboard"), usbPointer |-> OnUsb("pointer")]

Trouble ==
  CASE ~answers.keyboard -> IF answers.pointer = "none" THEN "no keyboard and no pointer" ELSE "no keyboard"
    [] answers.keyboard  -> IF answers.pointer # "none" THEN "" ELSE answers.failure

-----------------------------------------------------------------------------
(***************************************************************************)
(* Unless a key or a late answer was read for another, every device that   *)
(* answers is found and known for what it is, the controller is left as    *)
(* the decoders need it, and nothing of the talk is left to be read.       *)
(***************************************************************************)
KeyboardThere == Attached(source.kbd) /\ source.kbd # "silent"

DevicesAreKnown ==
  LET ps2 == IF Attached(source.mouse) THEN source.mouse ELSE "none"
  IN /\ answers.keyboard = (KeyboardThere \/ OnUsb("keyboard"))
     /\ answers.pointer = IF ps2 # "none" THEN ps2
                          ELSE IF "pointer" \in source.usb THEN "usb"
                          ELSE IF source.pad = "touchpad" THEN "i2c" ELSE "none"
     /\ ps2 # "none" => code.mode = ps2 /\ code.reports
     /\ KeyboardThere => code.scanning

ControllerIsReady ==
  /\ source.ctl = "open" =>
       "translation" \in code.config /\ "interrupts" \notin code.config /\ "kbd off" \notin code.config
  /\ source.ctl = "closed" => code.config \ {"kbd off", "aux off"} = source.config \ {"kbd off", "aux off"}
  /\ Attached(source.mouse) => "aux off" \notin code.config

NothingIsLeft ==
  /\ \A port \in DOMAIN code.due : code.due[port] = <<>>
  /\ \A i \in DOMAIN code.out : "typed" \in DOMAIN code.out[i]

\* A keyboard that answered the 8042 is not named where there is one on USB too.
WhatIsSaidIsSo ==
  /\ FoundDevices.ps2Keyboard => KeyboardThere
  /\ SourceName \in {"ps/2", "ps/2 keyboard + usb pointer"} => KeyboardThere
  /\ SourceName = "ps/2" => Attached(source.mouse)
  /\ (Trouble = "") = (SourceName \notin {"touchpad", "pointer only", "keyboard only", "no input device"})

DevicesComeUp ==
  InputDone /\ ~answers.crossed => DevicesAreKnown /\ ControllerIsReady /\ NothingIsLeft /\ WhatIsSaidIsSo
=============================================================================
