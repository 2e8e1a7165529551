------------------------------ MODULE MCInput ------------------------------
(***************************************************************************)
(* Instances of Input for TLC; the codes are those of SET2_TO_SET1.        *)
(***************************************************************************)
EXTENDS Input

\* F7 is 0x83 in set 2, which set 1 would take for a release.
PlainKeys == {"one", "f7"}

Codes1 == [one |-> 2, f7 |-> 65]
Codes2 == [one |-> 22, f7 |-> 131]

PlainSet1 == [k \in PlainKeys |-> Codes1[k]]
PlainSet2 == [k \in PlainKeys |-> Codes2[k]]

Machine(fitted, silent, opened) ==
  [fitted |-> fitted, answering |-> fitted \ silent, gate |-> opened]

Ps2Machine == {Machine({"ps2_keyboard", "ps2_mouse"}, {}, Blind)}

\* A keyboard that does not answer its probe, so that USB is brought up too.
UsbMachines ==
  {Machine({"ps2_keyboard", "usb_keyboard", "usb_mouse"}, {"ps2_keyboard"}, Blind)}

\* A touchpad beside a USB keyboard; one with every gate; an I2C keyboard.
I2cMachines ==
  {Machine({"usb_keyboard", "i2c_pointer"}, {}, Blind)}
    \cup {Machine({"i2c_pointer"}, {}, opened) : opened \in OpenGates}
    \cup {Machine({"i2c_keyboard"}, {}, Blind)}

AllMachines == Ps2Machine \cup UsbMachines \cup I2cMachines
=============================================================================
