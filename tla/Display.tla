------------------------------- MODULE Display -------------------------------
(***************************************************************************)
(* The jobs whose outcome somebody watches: how far a boot has come, what  *)
(* the time is, what is drawn, and what keyboard and pointer are found.    *)
(* As those of Machine they share no state, and one of them is at work.    *)
(***************************************************************************)
EXTENDS Job, Integers

CONSTANTS
  Era, Delta, LongestQuery, MostSent, Threads, LongestPairing,    \* TimeSources
  Hz, Lowest, Highest, AssumedCrystal, UnknownHz, Interval, HalfDay, Minutes, Seconds,
  Base, Nibble, Tries, LongestStart, LongestRun,                  \* WallClock
  Width, Height, Pitch, ShadowWidth, ShadowHeight, Size, Edge, Title, Draws, Frames    \* Canvas

Kernel  == INSTANCE KernelBoot
Times   == INSTANCE TimeSources
Wall    == INSTANCE WallClock WITH Half <- HalfDay
Screen  == INSTANCE Canvas
Devices == INSTANCE BringUp

ASSUME BootAssumption == \A m \in Inputs["boot"] : m.source \in Kernel!Boots

\* A query begins after 1970 and ends before the second era does.  The kernel
\* is started within an hour, and its clock looked at within half a day.
ASSUME TimeAssumption ==
  /\ {Era, Delta, LongestQuery} \subseteq Nat /\ Delta < Era
  /\ \A m \in Inputs["ntp"] : m.source \in Times!Queries
  /\ \A m \in Inputs["host"] : m.source \in Times!Guests
ASSUME ClockAssumption ==
  /\ {Hz, Lowest, Interval, HalfDay, Minutes, Seconds, Base, Nibble} \subseteq Nat \ {0}
  /\ {Highest, UnknownHz, AssumedCrystal, LongestStart, LongestRun} \subseteq Nat
  /\ Base <= Nibble
  /\ LongestStart < (Minutes - 1) * Seconds * Hz
  /\ Hz + 1 + LongestStart + LongestRun < Wall!Day \div 2
  /\ \A m \in Inputs["wall"] : m.source \in Wall!Kernels

\* A row of the screen has all its pixels, and what is drawn has numbers for
\* its place, its size and its colour.
ASSUME ScreenAssumption ==
  /\ {Width, Height, Pitch, Size} \subseteq Nat \ {0} /\ Width <= Pitch
  /\ {ShadowWidth, ShadowHeight, Edge, Title, Frames} \subseteq Nat
  /\ Draws \subseteq [kind : {"fill", "outline"}, x : Nat, y : Nat, w : Nat, h : Nat, colour : Nat]
  /\ \A m \in Inputs["canvas"] : m.source \in Screen!Surfaces

\* What answers at the mouse's port is a mouse that the controller knows of.
ASSUME DeviceAssumption == \A m \in Inputs["input"] : m.source \in Devices!Controllers

DisplayJobs == {"boot", "ntp", "host", "wall", "canvas", "input"}

\* Job j begins with machine m.
Appears(j, m) ==
  /\ job = j /\ source = m.source
  /\ \/ j = "boot"   /\ Kernel!BootInit
     \/ j = "ntp"    /\ Times!NtpInit
     \/ j = "host"   /\ Times!HostInit
     \/ j = "wall"   /\ Wall!WallInit
     \/ j = "canvas" /\ Screen!CanvasInit
     \/ j = "input"  /\ Devices!BringUpInit

DisplayInit == \E j \in DisplayJobs : \E m \in Inputs[j] : Appears(j, m)

DisplayWork ==
  /\ \/ job = "boot"   /\ Kernel!BootNext
     \/ job = "ntp"    /\ Times!NtpNext
     \/ job = "host"   /\ Times!HostNext
     \/ job = "wall"   /\ Wall!WallNext
     \/ job = "canvas" /\ Screen!CanvasNext
     \/ job = "input"  /\ Devices!BringUpNext
  /\ UNCHANGED job

DisplayFinished ==
  \/ job = "boot"   /\ (Kernel!BootDone \/ Kernel!Dead)
  \/ job = "ntp"    /\ Times!NtpDone
  \/ job = "host"   /\ Times!HostDone
  \/ job = "wall"   /\ (Wall!WallDone \/ Wall!WallStalled)
  \/ job = "canvas" /\ Screen!CanvasDone
  \/ job = "input"  /\ Devices!InputDone

\* Whatever is not finished can always go on.
DisplayNext == DisplayWork \/ (DisplayFinished /\ UNCHANGED vars)

DisplaySpec == DisplayInit /\ [][DisplayNext]_vars

(***************************************************************************)
(* A boot that stops shows where.                                          *)
(***************************************************************************)
BootCanBePlaced == job = "boot" => Kernel!BootCanBePlaced

(***************************************************************************)
(* Times taken from a server, from the host and from the clock chip are    *)
(* as good as they claim to be, however the clocks go on meanwhile.        *)
(***************************************************************************)
TimesAreTrue ==
  /\ job = "ntp"  => Times!OffsetIsWithinItsUncertainty
  /\ job = "host" => Times!HostIsAskedOnce
  /\ job = "wall" => Wall!WallIsTrue

(***************************************************************************)
(* Between frames the screen is what was drawn.                            *)
(***************************************************************************)
ScreenIsTheScene == job = "canvas" => Screen!ScreenIsTheScene

(***************************************************************************)
(* Keyboard and pointer come up, and are known for what they are.          *)
(***************************************************************************)
DevicesComeUp == job = "input" => Devices!DevicesComeUp
=============================================================================
