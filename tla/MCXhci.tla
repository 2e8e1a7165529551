------------------------------- MODULE MCXhci -------------------------------
(***************************************************************************)
(* Instances of Xhci for TLC.                                              *)
(***************************************************************************)
EXTENDS Xhci

\* No more HID devices than the driver has room for, and none without a HID
\* interface before them.
PlainBoards == {<<"none", "keyboard", "mute", "pointer">>, <<"pointer", "hid">>,
                <<"dead", "mute", "keyboard">>, <<"keyboard", "pointer", "other">>,
                <<"hid", "hid", "none", "hid">>, <<"none", "mute">>}

Slow == {<<"mute", "pointer">>, <<"dead", "keyboard">>}

PlainAndSlow == PlainBoards \cup Slow

NoBoards == {}

\* A device without a HID interface on an earlier port.
Webcam == {<<"other", "keyboard">>}

RunOrHalt == {"run", "halt"}
=============================================================================
