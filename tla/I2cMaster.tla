----------------------------- MODULE I2cMaster ------------------------------
(***************************************************************************)
(* nanochrono-baremetal/src/i2c.rs: the polled driver of a DesignWare      *)
(* controller, from bring-up through a run of transfers, beside the        *)
(* controller and the devices on its bus (external), which carry commands  *)
(* whenever they like, or not at all.                                      *)
(*                                                                         *)
(* A wait ends with what is waited for, with an abort, or - while it is    *)
(* not there - at its deadline.                                            *)
(***************************************************************************)
EXTENDS Naturals, Sequences, FiniteSets, TLC, SequencesExt, Functions

CONSTANT FifoDepth    \* FIFO_DEPTH: 16

VARIABLES
  source,    \* the transfers wanted, which addresses answer, what firmware left,
             \* and how often arbitration may be lost
  code,      \* the controller and the device it talks to
  walk,      \* the driver: where it is in which transfer
  answers    \* how transfers ended

busVars == <<source, code, walk, answers>>

\* A bus, and the transfers that are wanted on it.
Buses ==
  [transfers : Seq([address : Nat, out : Nat, into : Nat]), present : SUBSET Nat,
   losses : Nat, awake : BOOLEAN, timing : [high : Nat, low : Nat]]

NoTiming == [high |-> 0, low |-> 0]
Computed == [high |-> "computed", low |-> "computed"]

I2cInit ==
  /\ code = [awake |-> source.awake, reset |-> FALSE, enabled |-> TRUE, timing |-> source.timing,
             target |-> 0, tx |-> <<>>, rx |-> <<>>, abort |-> FALSE, heard |-> <<>>, given |-> 0,
             kept |-> <<>>, lost |-> FALSE]
  /\ walk = [pc |-> "timing", t |-> 1, target |-> 0, timing |-> NoTiming,
             sent |-> 0, queued |-> 0, bytes |-> <<>>, clean |-> TRUE]
  /\ answers = <<>>

At(pc)      == walk.pc = pc
To(pc)      == [walk EXCEPT !.pc = pc]
Transfer    == source.transfers[walk.t]
Read(reg)   == IF code.awake THEN code[reg] ELSE NoTiming

(***************************************************************************)
(* Bring-up.                                                               *)
(***************************************************************************)
Plausible(timing) == timing.high >= 6 /\ timing.low >= 8

\* What firmware programmed is read before the reset, and before the wake.
FirmwareTiming ==
  /\ At("timing")
  /\ walk' = [To("wake") EXCEPT !.timing = IF Plausible(Read("timing")) THEN Read("timing") ELSE Computed]
  /\ UNCHANGED <<code, answers>>

Wake ==
  /\ At("wake")
  /\ code' = [code EXCEPT !.awake = TRUE, !.reset = TRUE, !.timing = NoTiming]
  /\ walk' = To("reset")
  /\ UNCHANGED answers

\* The signature can be read when the core is out of reset.
Reset == At("reset") /\ ~code.reset /\ walk' = To("configure") /\ UNCHANGED <<code, answers>>

\* disable() asks; the core is off when it says so.
Configure ==
  /\ At("configure")
  /\ code' = [code EXCEPT !.enabled = FALSE, !.timing = walk.timing]
  /\ walk' = To("next")
  /\ UNCHANGED answers

(***************************************************************************)
(* A transfer.                                                             *)
(***************************************************************************)
Ended(ok) ==
  /\ answers' = Append(answers, [t |-> walk.t, ok |-> ok, clean |-> walk.clean, bytes |-> walk.bytes])
  /\ walk' = [To("next") EXCEPT !.t = @ + 1, !.sent = 0, !.queued = 0, !.bytes = <<>>]
  /\ UNCHANGED code

MoreTransfers == walk.t <= Len(source.transfers)

\* In the middle of something, as far as the device knows.
Busy == code.heard # <<>> \/ code.given > 0

\* The target can change only while the core is off, which empties its queues.
Aim ==
  /\ At("next") /\ MoreTransfers
  /\ LET other == walk.target # Transfer.address
         c     == IF other THEN [code EXCEPT !.enabled = TRUE, !.target = Transfer.address,
                                             !.tx = <<>>, !.rx = <<>>]
                  ELSE code
     IN /\ code' = [c EXCEPT !.abort = FALSE]
        /\ walk' = [To(IF Transfer.out > 0 THEN "write" ELSE "queue") EXCEPT
                      !.target = Transfer.address, !.clean = c.tx = <<>> /\ c.rx = <<>> /\ ~Busy]
  /\ UNCHANGED answers

NotFull == Len(code.tx) < FifoDepth

\* While it is aborted the controller takes no commands.
Given(command) == IF code.abort THEN code ELSE [code EXCEPT !.tx = Append(@, command)]

Byte(n, stop)       == [rd |-> FALSE, n |-> n, restart |-> FALSE, stop |-> stop]
Ask(restart, stop)  == [rd |-> TRUE, n |-> 0, restart |-> restart, stop |-> stop]

\* push(), one byte after the other; the last stops if nothing is read.
Push ==
  /\ At("write") /\ ~code.abort /\ NotFull
  /\ code' = Given(Byte(walk.sent + 1, walk.sent + 1 = Transfer.out /\ Transfer.into = 0))
  /\ walk' = [walk EXCEPT !.sent = @ + 1,
                          !.pc = IF walk.sent + 1 < Transfer.out THEN "write"
                                 ELSE IF Transfer.into = 0 THEN "drain" ELSE "queue"]
  /\ UNCHANGED answers

\* The mistake of asking for everything before taking anything.
RoomToAskUnlimited == walk.queued < Transfer.into /\ NotFull

\* Never more bytes on their way than the receive queue holds.
RoomToAsk ==
  walk.queued < Transfer.into /\ walk.queued - Len(walk.bytes) < FifoDepth /\ NotFull

Queue ==
  /\ At("queue") /\ RoomToAsk
  /\ code' = Given(Ask(walk.queued = 0 /\ Transfer.out > 0, walk.queued + 1 = Transfer.into))
  /\ walk' = [walk EXCEPT !.queued = @ + 1]
  /\ UNCHANGED answers

\* An abort is looked for before anything is taken.
Queued ==
  /\ At("queue") /\ ~RoomToAsk
  /\ IF code.abort THEN Ended(FALSE) ELSE walk' = To("take") /\ UNCHANGED <<code, answers>>

Take ==
  /\ At("take") /\ Len(walk.bytes) < walk.queued /\ code.rx # <<>>
  /\ code' = [code EXCEPT !.rx = Tail(@)]
  /\ walk' = [walk EXCEPT !.bytes = Append(@, Head(code.rx)), !.pc = "taking"]
  /\ UNCHANGED answers

TakeMore ==
  /\ At("taking")
  /\ walk' = To(CASE Len(walk.bytes) < walk.queued /\ code.rx # <<>> -> "take"
                  [] Len(walk.bytes) < Transfer.into -> "queue"
                  [] OTHER -> "check")
  /\ UNCHANGED <<code, answers>>

\* settle(): something to take, or room to ask for more.
NothingMoved ==
  /\ At("take") /\ ~(Len(walk.bytes) < walk.queued /\ code.rx # <<>>)
  /\ \/ code.abort /\ Ended(FALSE)
     \/ /\ ~code.abort /\ (code.rx # <<>> \/ NotFull)
        /\ walk' = To("queue") /\ UNCHANGED <<code, answers>>

Idle == code.tx = <<>> /\ ~Busy

\* drain(): a write is over when the queue is empty and the bus idle.
Drain == At("drain") /\ ~code.abort /\ Idle /\ walk' = To("check") /\ UNCHANGED <<code, answers>>

Check == At("check") /\ Ended(~code.abort)

Aborted == (At("write") \/ At("drain")) /\ code.abort /\ Ended(FALSE)

Waiting ==
  \/ At("write") /\ ~code.abort /\ ~NotFull
  \/ At("drain") /\ ~code.abort /\ ~Idle
  \/ At("take") /\ ~code.abort /\ code.rx = <<>> /\ ~NotFull

DeadlinePasses == Waiting /\ Ended(FALSE)

\* A controller that never leaves its reset is none.
NoController ==
  /\ At("reset") /\ code.reset
  /\ walk' = [To("next") EXCEPT !.t = Len(source.transfers) + 1]
  /\ UNCHANGED <<code, answers>>

Driver ==
  \/ FirmwareTiming \/ Wake \/ Reset \/ NoController \/ Configure
  \/ Aim \/ Push \/ Queue \/ Queued \/ Take \/ TakeMore \/ NothingMoved
  \/ Drain \/ Check \/ Aborted \/ DeadlinePasses

(***************************************************************************)
(* The controller and the device.  What a device gives depends on what it  *)
(* was told since the last stop.                                           *)
(***************************************************************************)
Contents(heard, n) == <<heard, n>>

LeaveReset == code.reset /\ code' = [code EXCEPT !.reset = FALSE]

Flushed == [code EXCEPT !.tx = <<>>, !.abort = TRUE, !.heard = <<>>, !.given = 0]

Ends(c, stop) == IF stop THEN [c EXCEPT !.kept = c.heard, !.heard = <<>>, !.given = 0] ELSE c

CarryWrite ==
  /\ code.tx # <<>> /\ code.target \in source.present /\ ~Head(code.tx).rd
  /\ code' = Ends([code EXCEPT !.tx = Tail(@), !.heard = Append(@, Head(code.tx).n)], Head(code.tx).stop)

\* A byte for which there is no room is lost.
CarryRead ==
  /\ code.tx # <<>> /\ code.target \in source.present /\ Head(code.tx).rd
  /\ code' = Ends([code EXCEPT !.tx = Tail(@), !.given = @ + 1,
                               !.rx = IF Len(@) < FifoDepth
                                      THEN Append(@, Contents(code.heard, code.given + 1)) ELSE @,
                               !.lost = @ \/ Len(code.rx) = FifoDepth],
                  Head(code.tx).stop)

NobodyAnswers == code.tx # <<>> /\ code.target \notin source.present /\ code' = Flushed

LoseArbitration ==
  /\ code.tx # <<>> /\ source.losses > 0 /\ ~code.abort
  /\ source' = [source EXCEPT !.losses = @ - 1]
  /\ code' = Flushed

Controller ==
  /\ \/ (LeaveReset \/ CarryWrite \/ CarryRead \/ NobodyAnswers) /\ UNCHANGED source
     \/ LoseArbitration
  /\ UNCHANGED <<walk, answers>>

I2cNext == (Driver /\ UNCHANGED source) \/ Controller

AllDone == At("next") /\ ~MoreTransfers

(***************************************************************************)
(* A transfer that succeeds has told the device all it was to tell and     *)
(* brings back what the device has for it, in order and without a hole,    *)
(* however the driver and the controller interleave and whatever happened  *)
(* before - but for commands or bytes that an abandoned transfer left in   *)
(* the queues; none of its bytes finds the receive queue full.  Nobody     *)
(* answers for a device that is not there, and an awake controller keeps   *)
(* the timing that firmware gave it.                                       *)
(***************************************************************************)
Told(n) == [i \in 1 .. n |-> i]

TransfersAreWhole ==
  /\ walk.clean /\ (\A i \in DOMAIN answers : answers[i].clean) => ~code.lost
  /\ \A i \in DOMAIN answers :
       LET t == source.transfers[answers[i].t]
       IN answers[i].ok /\ answers[i].clean =>
            /\ t.address \in source.present
            /\ answers[i].bytes = [n \in 1 .. t.into |-> Contents(Told(t.out), n)]
            /\ (i = Len(answers) /\ walk.pc = "next" /\ t.into = 0) => code.kept = Told(t.out)
  /\ (walk.pc = "next" /\ MoreTransfers /\ source.awake /\ Plausible(source.timing))
       => code.timing = source.timing

(***************************************************************************)
(* i2c.rs:529 says of a pass that moved nothing: "Wait, bounded, for       *)
(* either".  Transfers would then end, whatever the bus does.              *)
(***************************************************************************)
TransfersEnd == <>AllDone
=============================================================================
