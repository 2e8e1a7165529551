------------------------------ MODULE Ps2Input ------------------------------
(***************************************************************************)
(* nanochrono-baremetal/src/input.rs: the 8042 of Input::poll, whose       *)
(* keyboard and pointer bytes arrive interleaved, and its two decoders.    *)
(* Input composes it with the other devices.                               *)
(*                                                                         *)
(* The devices are outside src/: a keyboard that sends one of the two scan *)
(* code sets, and a mouse whose bytes may be lost on the way.  Extended    *)
(* keys, which nothing binds, are left out, and of a pointer byte only     *)
(* what the decoder frames packets by is kept.                             *)
(***************************************************************************)
EXTENDS Integers, Sequences

CONSTANTS
  Keys,         \* keys that are pressed
  Set1, Set2,   \* their make codes in either set
  PacketLen,    \* PointerKind::packet_len: 3 or 4
  LineLen,      \* bound: bytes on the way by a port
  MaxTyped,     \* bound: presses and releases
  MaxLost       \* bound: pointer bytes lost

Ports == {"keyboard", "aux"}

ASSUME Ps2Assumption ==
  /\ Set1 \in [Keys -> 1 .. 127] /\ Set2 \in [Keys -> 1 .. 131]
  /\ PacketLen \in {3, 4}
  /\ LineLen \in Nat \ {0} /\ MaxTyped \in Nat /\ MaxLost \in Nat

VARIABLES
  \* the devices
  scanSet,        \* the scan code set the keyboard sends
  down,           \* keys held
  mouseAt,        \* index in its packet of the byte the mouse sends next
  slow,           \* the packet's movement is small: bit 3 of its bytes clear
  lost,           \* pointer bytes lost
  wire,           \* by port, bytes on their way through the 8042
  \* Input
  set2, set2Break,
  packet,         \* Input.packet, its first packet_len bytes
  \* history
  typed,          \* presses and releases made
  delivered       \* key events handed to the interface

mouse    == <<mouseAt, slow, lost>>
keyboard == <<scanSet, down, typed>>
decoder  == <<set2, set2Break, packet>>
ps2      == <<keyboard, mouse, wire, decoder, delivered>>

SET2_BREAK == 240

Key(scancode, pressed) == [scancode |-> scancode, pressed |-> pressed]

Ps2Init ==
  /\ scanSet \in {1, 2}
  /\ down = {} /\ typed = <<>> /\ delivered = <<>>
  /\ mouseAt = 1 /\ slow = FALSE /\ lost = 0
  /\ wire = [port \in Ports |-> <<>>]
  /\ set2 = FALSE /\ set2Break = FALSE
  /\ packet = <<>>

-----------------------------------------------------------------------------
(* The devices.                                                            *)

\* What a keyboard sends for a press or a release.
Sent(k, pressed) ==
  CASE scanSet = 1 /\ pressed  -> <<Set1[k]>>
    [] scanSet = 1 /\ ~pressed -> <<Set1[k] + 128>>
    [] scanSet = 2 /\ pressed  -> <<Set2[k]>>
    [] scanSet = 2 /\ ~pressed -> <<SET2_BREAK, Set2[k]>>

Send(port, bytes) ==
  /\ Len(wire[port]) + Len(bytes) <= LineLen
  /\ wire' = [wire EXCEPT ![port] = @ \o bytes]

Type(k) ==
  LET pressed == k \notin down
  IN  /\ Len(typed) < MaxTyped
      /\ Send("keyboard", Sent(k, pressed))
      /\ down' = IF pressed THEN down \cup {k} ELSE down \ {k}
      /\ typed' = Append(typed, Key(Set1[k], pressed))
      /\ UNCHANGED <<scanSet, mouse, decoder, delivered>>

\* Bit 3 is set in the first byte of a packet and depends on the movement in
\* the others.
MouseByte == [index |-> mouseAt, bit3 |-> mouseAt = 1 \/ ~slow']

NextByte == mouseAt' = (mouseAt % PacketLen) + 1

\* A packet begins, of one movement or the other; its bytes follow.
Paced(small) == slow' = IF mouseAt = 1 THEN small ELSE slow

Move(small) ==
  /\ Paced(small)
  /\ Send("aux", <<MouseByte>>)
  /\ NextByte
  /\ UNCHANGED <<keyboard, lost, decoder, delivered>>

Lose ==
  /\ lost < MaxLost
  /\ Paced(FALSE)
  /\ lost' = lost + 1
  /\ NextByte
  /\ UNCHANGED <<keyboard, wire, decoder, delivered>>

-----------------------------------------------------------------------------
(* Input::poll with a byte waiting in the 8042.                            *)

\* translate_set2
Translated(code) ==
  IF \E k \in Keys : Set2[k] = code
    THEN Set1[CHOOSE k \in Keys : Set2[k] = code] ELSE code

Deliver(scancode, pressed) ==
  delivered' = Append(delivered, [key |-> Key(scancode, pressed), observed |-> set2])

\* keystroke: the scan code set is observed, from the first break prefix on.
Keystroke(byte) ==
  /\ \/ /\ set2Break
        /\ set2Break' = FALSE
        /\ Deliver(Translated(byte), FALSE)
        /\ UNCHANGED set2
     \/ /\ ~set2Break /\ byte = SET2_BREAK
        /\ set2' = TRUE /\ set2Break' = TRUE
        /\ UNCHANGED delivered
     \/ /\ ~set2Break /\ byte # SET2_BREAK /\ set2
        /\ Deliver(Translated(byte), TRUE)
        /\ UNCHANGED <<set2, set2Break>>
     \/ /\ ~set2Break /\ byte # SET2_BREAK /\ ~set2
        /\ Deliver(byte % 128, byte < 128)
        /\ UNCHANGED <<set2, set2Break>>
  /\ UNCHANGED packet

Collected(byte) == IF Len(packet) = PacketLen - 1 THEN <<>> ELSE Append(packet, byte)

\* The mistake of taking any byte for the first.
AccumulateAny(byte) ==
  /\ packet' = Collected(byte)
  /\ UNCHANGED <<set2, set2Break, delivered>>

\* The mistake of one decoder state for both devices.
AccumulateForgetting(byte) ==
  /\ packet' = IF packet = <<>> /\ ~byte.bit3 THEN packet ELSE Collected(byte)
  /\ set2Break' = FALSE
  /\ UNCHANGED <<set2, delivered>>

\* accumulate: a full packet is handed on, or dropped for its overflow bits.
Accumulate(byte) ==
  /\ packet' = IF packet = <<>> /\ ~byte.bit3 THEN packet ELSE Collected(byte)
  /\ UNCHANGED <<set2, set2Break, delivered>>

Quiet == \A port \in Ports : wire[port] = <<>>

\* The status says which port the byte in the 8042 came by; which device got
\* its byte in first is not the driver's to choose.
Poll8042 ==
  /\ \E port \in Ports :
       /\ wire[port] # <<>>
       /\ wire' = [wire EXCEPT ![port] = Tail(@)]
       /\ IF port = "keyboard" THEN Keystroke(Head(wire[port]))
                              ELSE Accumulate(Head(wire[port]))
  /\ UNCHANGED <<keyboard, mouse>>

-----------------------------------------------------------------------------
(* Properties.                                                             *)

Ps2TypeOK ==
  /\ Len(packet) < PacketLen
  /\ packet # <<>> => packet[1].bit3
  /\ \A port \in Ports : Len(wire[port]) <= LineLen
  /\ Len(delivered) <= Len(typed)

\* Always with a keyboard that sends set 1, and from the first release on with
\* one that sends set 2 (keystroke: "it is observed").
Ps2KeysArriveAsTyped ==
  \A i \in DOMAIN delivered :
    scanSet = 1 \/ delivered[i].observed => delivered[i].key = typed[i]

\* The pointer byte to be decoded next.
Upcoming == IF wire["aux"] = <<>> THEN mouseAt ELSE Head(wire["aux"]).index

Framed == Upcoming = Len(packet) + 1
=============================================================================
