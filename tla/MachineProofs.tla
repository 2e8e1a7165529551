---------------------------- MODULE MachineProofs ----------------------------
(***************************************************************************)
(* Proofs about the jobs of Machine, each by an invariant of its own.      *)
(*                                                                         *)
(* Of a bus (i2c.rs): a transfer that began with its queues empty has in   *)
(* its queues exactly what is between what the driver has done and what    *)
(* the device has heard, and what an earlier one left behind never fills   *)
(* the receive queue.                                                      *)
(***************************************************************************)
EXTENDS Machine, Integers, Sequences, FiniteSets, TLAPS, WellFoundedInduction

\* The depth of the FIFOs is a number.
LEMMA FifoIsANumber == FifoDepth \in Nat
  BY BusAssumption

Commands == [rd : BOOLEAN, n : Nat, restart : BOOLEAN, stop : BOOLEAN]
Datums   == Seq(Nat) \X Nat
Timings  == {I2cBus!NoTiming, I2cBus!Computed, source.timing}

InTransfer == walk.pc \in {"write", "queue", "take", "taking", "drain", "check"}

Codes ==
  [awake : BOOLEAN, reset : BOOLEAN, enabled : BOOLEAN, timing : Timings,
   target : Nat, tx : Seq(Commands), rx : Seq(Datums), abort : BOOLEAN,
   heard : Seq(Nat), given : Nat, kept : Seq(Nat), lost : BOOLEAN]

Places ==
  {"timing", "wake", "reset", "configure", "next", "write", "queue", "take", "taking", "drain", "check"}

Walks ==
  [pc : Places, t : Nat \ {0}, target : Nat, timing : Timings,
   sent : Nat, queued : Nat, bytes : Seq(Datums), clean : BOOLEAN]

Endings == [t : DOMAIN source.transfers, ok : BOOLEAN, clean : BOOLEAN, bytes : Seq(Datums)]

I2cTypes ==
  /\ source \in I2cBus!Buses
  /\ code \in Codes
  /\ walk \in Walks
  /\ answers \in Seq(Endings)
  /\ InTransfer => I2cBus!MoreTransfers

\* The commands of a transfer, of which so many have been queued and carried.
Bytes    == I2cBus!Transfer.out
Answered == I2cBus!Transfer.into
Command(k) ==
  IF k <= Bytes THEN I2cBus!Byte(k, k = Bytes /\ Answered = 0)
  ELSE I2cBus!Ask(k = Bytes + 1 /\ Bytes > 0, k = Bytes + Answered)
Issued  == walk.sent + walk.queued
Carried == Issued - Len(code.tx)
Got     == IF Carried > Bytes THEN Carried - Bytes ELSE 0

PlaceInv ==
  InTransfer =>
    /\ walk.target = I2cBus!Transfer.address
    /\ Len(walk.bytes) <= walk.queued /\ walk.queued <= Answered
    /\ walk.queued - Len(walk.bytes) <= FifoDepth
    /\ walk.pc = "write" => walk.sent < Bytes /\ walk.queued = 0
    /\ walk.pc # "write" => walk.sent = Bytes
    /\ walk.pc = "drain" => Bytes > 0 /\ Answered = 0
    /\ walk.pc = "taking" => walk.bytes # <<>>
    /\ walk.pc = "check" => Len(walk.bytes) = Answered /\ Bytes + Answered > 0

\* What the device has been told and has given.
DeviceInv ==
  /\ Carried > 0 /\ Carried = Bytes + Answered =>
       code.heard = <<>> /\ code.given = 0 /\ code.kept = I2cBus!Told(Bytes)
  /\ Carried = 0 \/ Carried < Bytes + Answered =>
       /\ code.heard = I2cBus!Told(IF Carried < Bytes THEN Carried ELSE Bytes)
       /\ code.given = Got

CleanInv ==
  /\ Carried \in Nat
  /\ \A i \in 1 .. Len(code.tx) : code.tx[i] = Command(Carried + i)
  /\ DeviceInv
  /\ Len(code.rx) + Len(walk.bytes) = Got
  /\ \A n \in 1 .. Len(walk.bytes) : walk.bytes[n] = I2cBus!Contents(I2cBus!Told(Bytes), n)
  /\ \A n \in 1 .. Len(code.rx) : code.rx[n] = I2cBus!Contents(I2cBus!Told(Bytes), Len(walk.bytes) + n)
  /\ Carried > 0 => I2cBus!Transfer.address \in source.present
  /\ walk.pc = "check" => code.tx = <<>>

RestInv == ~InTransfer => walk.sent = 0 /\ walk.queued = 0 /\ walk.bytes = <<>>

AbortInv == code.abort => code.tx = <<>>

QueueInv == InTransfer /\ walk.clean /\ ~code.abort => CleanInv

\* What an abandoned transfer leaves has room in the receive queue.
Room ==
  \E w \in 0 .. Len(code.tx) :
    /\ \A i \in 1 .. Len(code.tx) : code.tx[i].rd <=> i > w
    /\ Len(code.rx) + (Len(code.tx) - w) <= FifoDepth

AllClean == walk.clean /\ \A i \in DOMAIN answers : answers[i].clean

LostInv ==
  /\ AllClean => ~code.lost
  /\ AllClean /\ (~InTransfer \/ code.abort) => Room
  /\ ~InTransfer /\ (\A i \in DOMAIN answers : answers[i].clean) => walk.clean

\* A transfer that ended as it should.
Whole(i) ==
  LET t == source.transfers[answers[i].t]
  IN answers[i].ok /\ answers[i].clean =>
       /\ t.address \in source.present
       /\ answers[i].bytes = [n \in 1 .. t.into |-> I2cBus!Contents(I2cBus!Told(t.out), n)]

KeptInv ==
  (walk.pc = "next" /\ answers # <<>> /\ answers[Len(answers)].ok /\ answers[Len(answers)].clean
     /\ source.transfers[answers[Len(answers)].t].into = 0)
  => code.tx = <<>> /\ code.kept = I2cBus!Told(source.transfers[answers[Len(answers)].t].out)

AnswersInv == (\A i \in DOMAIN answers : Whole(i)) /\ KeptInv

TimingInv ==
  source.awake /\ I2cBus!Plausible(source.timing) =>
    /\ walk.pc = "timing" => code.timing = source.timing /\ code.awake
    /\ walk.pc \in {"wake", "reset", "configure"} => walk.timing = source.timing
    /\ walk.pc \notin {"timing", "wake", "reset", "configure"} /\ I2cBus!MoreTransfers => code.timing = source.timing

StartInv ==
  walk.pc \in {"timing", "wake", "reset", "configure"} => code.tx = <<>> /\ code.rx = <<>> /\ answers = <<>>

TargetInv == code.target = walk.target

I2cInv ==
  /\ I2cTypes /\ PlaceInv /\ RestInv /\ AbortInv /\ QueueInv /\ LostInv /\ AnswersInv
  /\ TimingInv /\ TargetInv /\ StartInv

\* The empty sequence is one of anything.
LEMMA Empties == \A S : <<>> \in Seq(S)
  OBVIOUS

\* What the job begins with has its types.
LEMMA InitTypes == I2cBus!I2cInit /\ source \in I2cBus!Buses => I2cTypes
  BY DEF I2cBus!I2cInit, I2cBus!Buses, I2cTypes, Timings, I2cBus!NoTiming, Codes, Walks, Places, InTransfer

\* The transfer at hand is one of those that are wanted.
LEMMA TransferTypes ==
  ASSUME I2cTypes, I2cBus!MoreTransfers
  PROVE  /\ walk.t \in DOMAIN source.transfers
         /\ I2cBus!Transfer.address \in Nat /\ I2cBus!Transfer.out \in Nat /\ I2cBus!Transfer.into \in Nat
<1>1. source.transfers \in Seq([address : Nat, out : Nat, into : Nat]) /\ walk.t \in Nat \ {0}
  BY DEF I2cTypes, I2cBus!Buses, Walks
<1>2. walk.t \in DOMAIN source.transfers
  BY <1>1 DEF I2cBus!MoreTransfers
<1>3. I2cBus!Transfer \in [address : Nat, out : Nat, into : Nat]
  <2> DEFINE S == [address : Nat, out : Nat, into : Nat]
  <2>1. \A s \in Seq(S) : \A i \in DOMAIN s : s[i] \in S
    <3> HIDE DEF S
    <3>. QED OBVIOUS
  <2>. QED
    BY <1>1, <1>2, <2>1 DEF I2cBus!Transfer
<1>. QED
  BY <1>2, <1>3

\* What is queued are commands.
LEMMA CommandTypes ==
  ASSUME NEW n \in Nat, NEW a \in BOOLEAN, NEW b \in BOOLEAN
  PROVE  I2cBus!Byte(n, a) \in Commands /\ I2cBus!Ask(a, b) \in Commands
  BY DEF I2cBus!Byte, I2cBus!Ask, Commands

\* What is recorded of a transfer that ends.
LEMMA Ending ==
  ASSUME NEW c \in Codes, NEW stop
  PROVE  I2cBus!Ends(c, stop) \in Codes
<1>1. c.heard \in Seq(Nat)
  BY DEF Codes
<1>2. [c EXCEPT !.kept = c.heard, !.heard = <<>>, !.given = 0] \in Codes
  <2>1. <<>> \in Seq(Nat) /\ 0 \in Nat
    BY Empties
  <2> DEFINE e == <<>>
             h == c.heard
             z == 0
  <2>2. e \in Seq(Nat) /\ h \in Seq(Nat) /\ z \in Nat
    BY <1>1, <2>1
  <2> HIDE DEF e, h, z
  <2>3. [c EXCEPT !.kept = h, !.heard = e, !.given = z] \in Codes
    BY <2>2 DEF Codes
  <2>. QED
    BY <2>3 DEF e, h, z
<1>. QED
  BY <1>2 DEF I2cBus!Ends

\* An abort leaves the controller a controller.
LEMMA Flushing == ASSUME code \in Codes PROVE I2cBus!Flushed \in Codes
<1> DEFINE e == <<>>
           z == 0
           b == TRUE
<1>1. e \in Seq(Nat) /\ e \in Seq(Commands) /\ z \in Nat /\ b \in BOOLEAN
  BY Empties
<1> HIDE DEF e, z, b
<1>2. [code EXCEPT !.tx = e, !.abort = b, !.heard = e, !.given = z] \in Codes
  BY <1>1 DEF Codes
<1>. QED
  BY <1>2 DEF I2cBus!Flushed, e, z, b

\* A transfer that ends leaves everything its type.
LEMMA EndedTypes ==
  ASSUME I2cTypes, InTransfer, NEW ok \in BOOLEAN, I2cBus!Ended(ok), UNCHANGED source
  PROVE  I2cTypes'
<1> DEFINE ending == [t |-> walk.t, ok |-> ok, clean |-> walk.clean, bytes |-> walk.bytes]
<1>1. ending \in Endings
  BY TransferTypes DEF I2cTypes, Walks, Endings
<1>2. answers' \in Seq(Endings)
  BY <1>1 DEF I2cTypes, I2cBus!Ended
<1>3. walk' \in Walks /\ walk'.pc = "next" /\ code' = code
  <2>1. walk' = [I2cBus!To("next") EXCEPT !.t = @ + 1, !.sent = 0, !.queued = 0, !.bytes = <<>>] /\ code' = code
    BY DEF I2cBus!Ended
  <2>2. walk \in Walks
    BY DEF I2cTypes
  <2>. QED
    <3> DEFINE e == <<>>
               z == 0
               p == "next"
               n == walk.t + 1
    <3>1. e \in Seq(Datums) /\ z \in Nat /\ p \in Places /\ n \in Nat \ {0}
      BY <2>2, Empties DEF Places, Walks
    <3>2. walk' = [walk EXCEPT !.pc = p, !.t = n, !.sent = z, !.queued = z, !.bytes = e]
      BY <2>1 DEF I2cBus!To
    <3> HIDE DEF e, z, p, n
    <3>3. walk' \in Walks /\ walk'.pc = p
      BY <2>2, <3>1, <3>2 DEF Walks
    <3>. QED
      BY <2>1, <3>3 DEF p
<1>. QED
  BY <1>2, <1>3 DEF I2cTypes, Walks, Codes, Timings, Endings, InTransfer

\* Every step keeps the types.
LEMMA TypesKept == I2cTypes /\ I2cBus!I2cNext => I2cTypes'
<1> SUFFICES ASSUME I2cTypes, I2cBus!I2cNext PROVE I2cTypes'
  OBVIOUS
<1>0. code \in Codes /\ walk \in Walks /\ source \in I2cBus!Buses
  BY DEF I2cTypes
<1>a. UNCHANGED <<source, code, answers>> /\ walk' \in Walks /\ (InTransfer' => I2cBus!MoreTransfers') => I2cTypes'
  BY DEF I2cTypes, Walks, Codes, Endings, Timings
<1>b. UNCHANGED <<source, answers>> /\ code' \in Codes /\ walk' \in Walks /\ (InTransfer' => I2cBus!MoreTransfers') => I2cTypes'
  BY DEF I2cTypes, Walks, Codes, Endings, Timings
<1>c. UNCHANGED <<source, walk, answers>> /\ code' \in Codes => I2cTypes'
  BY DEF I2cTypes, Walks, Codes, Endings, Timings, InTransfer, I2cBus!MoreTransfers
<1>m. InTransfer => I2cBus!MoreTransfers
  BY DEF I2cTypes
<1>1. CASE I2cBus!FirmwareTiming /\ UNCHANGED source
  BY <1>0, <1>a, <1>1 DEF I2cBus!FirmwareTiming, I2cBus!At, I2cBus!To, I2cBus!Read, Codes, Walks, Places, Timings, InTransfer
<1>2. CASE I2cBus!Wake /\ UNCHANGED source
  BY <1>0, <1>b, <1>2 DEF I2cBus!Wake, I2cBus!At, I2cBus!To, Codes, Walks, Places, Timings, InTransfer
<1>3. CASE I2cBus!Reset /\ UNCHANGED source
  BY <1>0, <1>a, <1>3 DEF I2cBus!Reset, I2cBus!At, I2cBus!To, Codes, Walks, Places, InTransfer
<1>4. CASE I2cBus!Configure /\ UNCHANGED source
  BY <1>0, <1>b, <1>4 DEF I2cBus!Configure, I2cBus!At, I2cBus!To, Codes, Walks, Places, InTransfer
<1>5. CASE I2cBus!Aim /\ UNCHANGED source
  <2>1. I2cBus!Transfer.address \in Nat /\ I2cBus!MoreTransfers
    BY <1>5, TransferTypes DEF I2cBus!Aim
  <2>2. code' \in Codes
    <3>1. \/ code' = [code EXCEPT !.abort = FALSE]
          \/ code' = [code EXCEPT !.enabled = TRUE, !.target = I2cBus!Transfer.address, !.tx = <<>>, !.rx = <<>>,
                                  !.abort = FALSE]
      BY <1>5 DEF I2cBus!Aim
    <3>. QED
      <4> DEFINE e == <<>>
                 a == FALSE
                 b == TRUE
                 x == I2cBus!Transfer.address
      <4>1. e \in Seq(Commands) /\ e \in Seq(Datums) /\ a \in BOOLEAN /\ b \in BOOLEAN /\ x \in Nat
        BY <2>1, Empties
      <4>2. \/ code' = [code EXCEPT !.abort = a]
            \/ code' = [code EXCEPT !.enabled = b, !.target = x, !.tx = e, !.rx = e, !.abort = a]
        BY <3>1
      <4> HIDE DEF e, a, b, x
      <4>. QED
        BY <1>0, <4>1, <4>2 DEF Codes
  <2>3. walk' \in Walks /\ walk'.t = walk.t
    BY <1>0, <2>1, <1>5 DEF I2cBus!Aim, Walks, I2cBus!To, Places
  <2>. QED
    BY <2>1, <2>2, <2>3, <1>b, <1>5 DEF I2cBus!Aim, I2cBus!MoreTransfers
<1>6. CASE I2cBus!Push /\ UNCHANGED source
  <2> DEFINE c == I2cBus!Byte(walk.sent + 1, walk.sent + 1 = I2cBus!Transfer.out /\ I2cBus!Transfer.into = 0)
  <2>1. c \in Commands
    BY <1>0 DEF I2cBus!Byte, Commands, Walks
  <2>2. code' = [code EXCEPT !.tx = Append(code.tx, c)] \/ code' = code
    BY <1>6 DEF I2cBus!Push, I2cBus!Given
  <2>3. code' \in Codes
    <3> HIDE DEF c
    <3>1. Append(code.tx, c) \in Seq(Commands)
      BY <2>1, <1>0 DEF Codes
    <3>. QED
      BY <3>1, <2>2, <1>0 DEF Codes
  <2>4. walk' \in Walks /\ walk'.t = walk.t
    <3>1. \E p \in {"write", "drain", "queue"} : walk' = [walk EXCEPT !.sent = @ + 1, !.pc = p]
      BY <1>6 DEF I2cBus!Push
    <3>. QED
      <4>1. PICK p \in Places : walk' = [walk EXCEPT !.sent = @ + 1, !.pc = p]
        BY <3>1 DEF Places
      <4> DEFINE n == walk.sent + 1
      <4>2. n \in Nat /\ walk' = [walk EXCEPT !.sent = n, !.pc = p]
        BY <1>0, <4>1 DEF Walks
      <4> HIDE DEF n
      <4>. QED
        BY <1>0, <4>2 DEF Walks
  <2>. QED
    BY <2>3, <2>4, <1>b, <1>6, <1>m DEF I2cBus!Push, I2cBus!MoreTransfers, I2cBus!At, InTransfer
<1>7. CASE I2cBus!Queue /\ UNCHANGED source
  <2> DEFINE c == I2cBus!Ask(walk.queued = 0 /\ I2cBus!Transfer.out > 0, walk.queued + 1 = I2cBus!Transfer.into)
  <2>1. c \in Commands
    BY <1>0 DEF I2cBus!Ask, Commands, Walks
  <2>2. code' = [code EXCEPT !.tx = Append(code.tx, c)] \/ code' = code
    BY <1>7 DEF I2cBus!Queue, I2cBus!Given
  <2>3. code' \in Codes
    <3> HIDE DEF c
    <3>1. Append(code.tx, c) \in Seq(Commands)
      BY <2>1, <1>0 DEF Codes
    <3>. QED
      BY <3>1, <2>2, <1>0 DEF Codes
  <2>4. walk' \in Walks /\ walk'.t = walk.t /\ walk'.pc = walk.pc
    BY <1>0, <1>7 DEF I2cBus!Queue, Walks, Places
  <2>. QED
    BY <2>3, <2>4, <1>b, <1>7, <1>m DEF I2cBus!Queue, I2cBus!MoreTransfers, I2cBus!At, InTransfer
<1>8. CASE I2cBus!Take /\ UNCHANGED source
  <2>1. Head(code.rx) \in Datums /\ Tail(code.rx) \in Seq(Datums)
    BY <1>0, <1>8 DEF I2cBus!Take, Codes
  <2>2. Append(walk.bytes, Head(code.rx)) \in Seq(Datums)
    BY <1>0, <2>1 DEF Walks
  <2>3. code' \in Codes
    BY <1>0, <2>1, <1>8 DEF I2cBus!Take, Codes
  <2>4. walk' \in Walks /\ walk'.t = walk.t
    BY <1>0, <2>2, <1>8 DEF I2cBus!Take, Walks, Places
  <2>. QED
    BY <2>3, <2>4, <1>b, <1>8, <1>m DEF I2cBus!Take, I2cBus!MoreTransfers, I2cBus!At, InTransfer
<1>9. CASE I2cBus!TakeMore /\ UNCHANGED source
  <2>1. \E p \in Places : walk' = [walk EXCEPT !.pc = p]
    BY <1>9 DEF I2cBus!TakeMore, I2cBus!To, Places
  <2>. QED
    BY <1>0, <2>1, <1>a, <1>9, <1>m DEF I2cBus!TakeMore, I2cBus!At, Walks, Places, InTransfer, I2cBus!MoreTransfers
<1>10. CASE I2cBus!Drain /\ UNCHANGED source
  BY <1>0, <1>a, <1>10, <1>m DEF I2cBus!Drain, I2cBus!At, I2cBus!To, Codes, Walks, Places, InTransfer, I2cBus!MoreTransfers
<1>11. CASE I2cBus!NoController /\ UNCHANGED source
  <2>1. Len(source.transfers) + 1 \in Nat \ {0}
    BY <1>0 DEF I2cBus!Buses
  <2>. QED
    BY <1>0, <2>1, <1>a, <1>11 DEF I2cBus!NoController, I2cBus!At, I2cBus!To, Codes, Walks, Places, InTransfer
<1>12. CASE I2cBus!LeaveReset /\ UNCHANGED <<source, walk, answers>>
  BY <1>0, <1>c, <1>12 DEF I2cBus!LeaveReset, Codes
<1>13. CASE I2cBus!CarryWrite /\ UNCHANGED <<source, walk, answers>>
  <2>1. Head(code.tx) \in Commands /\ Tail(code.tx) \in Seq(Commands)
    BY <1>0, <1>13 DEF I2cBus!CarryWrite, Codes
  <2>2. Append(code.heard, Head(code.tx).n) \in Seq(Nat)
    BY <1>0, <2>1 DEF Codes, Commands
  <2> DEFINE c == [code EXCEPT !.tx = Tail(@), !.heard = Append(@, Head(code.tx).n)]
  <2>3. c \in Codes
    BY <1>0, <2>1, <2>2 DEF Codes
  <2>4. code' = I2cBus!Ends(c, Head(code.tx).stop)
    BY <1>13 DEF I2cBus!CarryWrite
  <2>5. code' \in Codes
    <3> HIDE DEF c
    <3>1. c.heard \in Seq(Nat)
      BY <2>3 DEF Codes
    <3>. QED BY <2>3, <2>4, <3>1, Ending
  <2>. QED
    BY <2>5, <1>c, <1>13
<1>14. CASE I2cBus!CarryRead /\ UNCHANGED <<source, walk, answers>>
  <2>1. Head(code.tx) \in Commands /\ Tail(code.tx) \in Seq(Commands)
    BY <1>0, <1>14 DEF I2cBus!CarryRead, Codes
  <2> DEFINE x == I2cBus!Contents(code.heard, code.given + 1)
             r == IF Len(code.rx) < FifoDepth THEN Append(code.rx, x) ELSE code.rx
             c == [code EXCEPT !.tx = Tail(@), !.given = @ + 1, !.rx = r,
                               !.lost = @ \/ Len(code.rx) = FifoDepth]
  <2>2. x \in Datums
    BY <1>0 DEF I2cBus!Contents, Datums, Codes
  <2>3. r \in Seq(Datums)
    <3> HIDE DEF x
    <3>. QED BY <1>0, <2>2 DEF Codes
  <2>4. code' = I2cBus!Ends(c, Head(code.tx).stop)
    BY <1>14 DEF I2cBus!CarryRead
  <2>5. c \in Codes
    <3> DEFINE l == code.lost \/ Len(code.rx) = FifoDepth
               g == code.given + 1
               t == Tail(code.tx)
    <3>1. l \in BOOLEAN /\ g \in Nat /\ t \in Seq(Commands)
      BY <1>0, <2>1 DEF Codes
    <3>2. c = [code EXCEPT !.tx = t, !.given = g, !.rx = r, !.lost = l]
      OBVIOUS
    <3> HIDE DEF r, c, l, g, t
    <3>. QED BY <1>0, <2>3, <3>1, <3>2 DEF Codes
  <2>6. code' \in Codes
    <3> HIDE DEF c
    <3>. QED BY <2>4, <2>5, Ending
  <2>. QED
    BY <2>6, <1>c, <1>14
<1>15. CASE I2cBus!NobodyAnswers /\ UNCHANGED <<source, walk, answers>>
  BY <1>0, <1>c, <1>15, Flushing DEF I2cBus!NobodyAnswers
<1>16. CASE I2cBus!LoseArbitration /\ UNCHANGED <<walk, answers>>
  <2>1. source' \in I2cBus!Buses /\ source'.transfers = source.transfers /\ source'.timing = source.timing
    <3>1. source' = [source EXCEPT !.losses = @ - 1] /\ source.losses > 0
      BY <1>16 DEF I2cBus!LoseArbitration
    <3>. QED
      BY <1>0, <3>1 DEF I2cBus!Buses
  <2>2. code' \in Codes
    BY <1>0, <1>16, Flushing DEF I2cBus!LoseArbitration, Codes, Timings
  <2>. QED
    BY <2>1, <2>2, <1>16, <1>m DEF I2cTypes, Walks, Codes, Endings, Timings, InTransfer, I2cBus!MoreTransfers
<1>17. CASE I2cBus!Queued /\ UNCHANGED source
  <2>1. CASE code.abort
    BY <1>17, <2>1, EndedTypes DEF I2cBus!Queued, I2cBus!At, InTransfer
  <2>2. CASE ~code.abort
    BY <1>0, <2>2, <1>a, <1>17, <1>m DEF I2cBus!Queued, I2cBus!At, I2cBus!To, Walks, Places, InTransfer, I2cBus!MoreTransfers
  <2>. QED BY <2>1, <2>2
<1>18. CASE I2cBus!NothingMoved /\ UNCHANGED source
  <2>1. CASE I2cBus!Ended(FALSE)
    BY <1>18, <2>1, EndedTypes DEF I2cBus!NothingMoved, I2cBus!At, InTransfer
  <2>2. CASE ~I2cBus!Ended(FALSE)
    BY <1>0, <2>2, <1>a, <1>18, <1>m DEF I2cBus!NothingMoved, I2cBus!At, I2cBus!To, Walks, Places, InTransfer, I2cBus!MoreTransfers
  <2>. QED BY <2>1, <2>2
<1>19. CASE I2cBus!Check /\ UNCHANGED source
  <2> DEFINE ok == ~code.abort
  <2>1. ok \in BOOLEAN /\ I2cBus!Ended(ok) /\ InTransfer
    BY <1>19 DEF I2cBus!Check, I2cBus!At, InTransfer
  <2> HIDE DEF ok
  <2>. QED
    BY <2>1, <1>19, EndedTypes
<1>20. CASE I2cBus!Aborted /\ UNCHANGED source
  BY <1>20, EndedTypes DEF I2cBus!Aborted, I2cBus!At, InTransfer
<1>21. CASE I2cBus!DeadlinePasses /\ UNCHANGED source
  BY <1>21, EndedTypes DEF I2cBus!DeadlinePasses, I2cBus!Waiting, I2cBus!At, InTransfer
<1>. QED
  BY <1>1, <1>2, <1>3, <1>4, <1>5, <1>6, <1>7, <1>8, <1>9, <1>10, <1>11, <1>12, <1>13, <1>14, <1>15, <1>16,
     <1>17, <1>18, <1>19, <1>20, <1>21 DEF I2cBus!I2cNext, I2cBus!Driver, I2cBus!Controller

-----------------------------------------------------------------------------
(***************************************************************************)
(* What each step does, field by field.                                    *)
(***************************************************************************)
\* The steps of a driver that only goes on.
Goes(p) == walk' = I2cBus!To(p) /\ UNCHANGED <<source, code, answers>>

\* The steps, those alike taken together.
LEMMA Steps ==
  ASSUME I2cTypes, I2cBus!I2cNext
  PROVE  \/ walk.pc \in {"timing", "wake", "reset", "configure"} /\ UNCHANGED source
              /\ (I2cBus!FirmwareTiming \/ I2cBus!Wake \/ I2cBus!Reset \/ I2cBus!NoController \/ I2cBus!Configure)
         \/ I2cBus!Aim /\ UNCHANGED source
         \/ I2cBus!Push /\ UNCHANGED source
         \/ I2cBus!Queue /\ UNCHANGED source
         \/ I2cBus!Take /\ UNCHANGED source
         \/ walk.pc = "queue" /\ ~code.abort /\ Goes("take")
         \/ walk.pc = "taking" /\ (Goes("take") \/ Goes("queue"))
         \/ walk.pc = "taking" /\ Len(walk.bytes) >= I2cBus!Transfer.into /\ Goes("check")
         \/ walk.pc = "take" /\ ~code.abort /\ Goes("queue")
         \/ I2cBus!Drain /\ UNCHANGED source
         \/ InTransfer /\ I2cBus!Ended(FALSE) /\ UNCHANGED source
         \/ I2cBus!Check /\ InTransfer /\ ~code.abort /\ I2cBus!Ended(TRUE) /\ UNCHANGED source
         \/ I2cBus!LeaveReset /\ UNCHANGED <<source, walk, answers>>
         \/ I2cBus!CarryWrite /\ UNCHANGED <<source, walk, answers>>
         \/ I2cBus!CarryRead /\ UNCHANGED <<source, walk, answers>>
         \/ I2cBus!NobodyAnswers /\ UNCHANGED <<source, walk, answers>>
         \/ I2cBus!LoseArbitration /\ UNCHANGED <<walk, answers>>
<1>0. walk \in Walks
  BY DEF I2cTypes
<1>1. CASE I2cBus!Queued /\ UNCHANGED source
  BY <1>1 DEF I2cBus!Queued, I2cBus!At, InTransfer, Goes
<1>2. CASE I2cBus!NothingMoved /\ UNCHANGED source
  BY <1>2 DEF I2cBus!NothingMoved, I2cBus!At, InTransfer, Goes
<1>3. CASE I2cBus!TakeMore /\ UNCHANGED source
  <2> DEFINE more == Len(walk.bytes) < walk.queued /\ code.rx # <<>>
             less == Len(walk.bytes) < I2cBus!Transfer.into
  <2>1. walk' = I2cBus!To(CASE more -> "take" [] less -> "queue" [] OTHER -> "check") /\ walk.pc = "taking"
        /\ UNCHANGED <<source, code, answers>>
    BY <1>3 DEF I2cBus!TakeMore, I2cBus!At
  <2>2. ~less => Len(walk.bytes) >= I2cBus!Transfer.into
    BY <1>0, <2>1, TransferTypes DEF Walks, I2cTypes, InTransfer
  <2> HIDE DEF more, less
  <2>3. CASE more /\ ~less
    BY <2>3, <2>1 DEF Goes
  <2>4. CASE less /\ ~more
    BY <2>4, <2>1 DEF Goes
  <2>5. CASE ~less /\ ~more
    BY <2>5, <2>1, <2>2 DEF Goes
  <2>6. CASE less /\ more
    BY <2>6, <2>1 DEF Goes
  <2>. QED
    BY <2>3, <2>4, <2>5, <2>6
<1>4. CASE I2cBus!Check /\ UNCHANGED source
  <2>1. CASE code.abort
    BY <2>1, <1>4 DEF I2cBus!Check, I2cBus!At, InTransfer
  <2>2. CASE ~code.abort
    BY <2>2, <1>4 DEF I2cBus!Check, I2cBus!At, InTransfer
  <2>. QED
    BY <2>1, <2>2
<1>5. CASE I2cBus!Aborted /\ UNCHANGED source
  BY <1>5 DEF I2cBus!Aborted, I2cBus!At, InTransfer
<1>6. CASE I2cBus!DeadlinePasses /\ UNCHANGED source
  BY <1>6 DEF I2cBus!DeadlinePasses, I2cBus!Waiting, I2cBus!At, InTransfer
<1>7. CASE UNCHANGED source /\ (I2cBus!FirmwareTiming \/ I2cBus!Wake \/ I2cBus!Reset \/ I2cBus!NoController \/ I2cBus!Configure)
  BY <1>7 DEF I2cBus!FirmwareTiming, I2cBus!Wake, I2cBus!Reset, I2cBus!NoController, I2cBus!Configure, I2cBus!At
<1>. QED
  BY <1>1, <1>2, <1>3, <1>4, <1>5, <1>6, <1>7 DEF I2cBus!I2cNext, I2cBus!Driver, I2cBus!Controller

\* What the driver counts agrees with where it is.
LEMMA PlaceKept ==
  ASSUME I2cInv, I2cBus!I2cNext
  PROVE  PlaceInv'
<1>0. walk \in Walks /\ code \in Codes /\ source \in I2cBus!Buses /\ I2cTypes
  BY DEF I2cInv, I2cTypes
<1>i. PlaceInv /\ RestInv
  BY DEF I2cInv
<1>1. CASE walk.pc \in {"timing", "wake", "reset", "configure"} /\ (I2cBus!FirmwareTiming \/ I2cBus!Wake \/ I2cBus!Reset \/ I2cBus!NoController \/ I2cBus!Configure)
  BY <1>0, <1>1 DEF I2cBus!FirmwareTiming, I2cBus!Wake, I2cBus!Reset, I2cBus!NoController, I2cBus!Configure, I2cBus!To, Walks, PlaceInv, InTransfer
<1>2. CASE I2cBus!Aim /\ UNCHANGED source
  <2>1. /\ walk'.pc = (IF I2cBus!Transfer.out > 0 THEN "write" ELSE "queue") /\ walk'.target = I2cBus!Transfer.address
        /\ walk'.t = walk.t /\ walk'.sent = 0 /\ walk'.queued = 0 /\ walk'.bytes = <<>>
    BY <1>0, <1>i, <1>2 DEF I2cBus!Aim, I2cBus!At, Walks, RestInv, InTransfer, I2cBus!To
  <2>2. I2cBus!Transfer' = I2cBus!Transfer /\ I2cBus!Transfer.out \in Nat /\ I2cBus!Transfer.into \in Nat
    BY <2>1, <1>0, <1>2, TransferTypes DEF I2cBus!Aim, I2cBus!Transfer
  <2>. QED
    BY <2>1, <2>2, FifoIsANumber DEF PlaceInv, InTransfer, Bytes, Answered
<1>3. CASE I2cBus!Push /\ UNCHANGED source
  <2>1. /\ walk'.pc = (IF walk.sent + 1 < I2cBus!Transfer.out THEN "write"
                        ELSE IF I2cBus!Transfer.into = 0 THEN "drain" ELSE "queue")
        /\ walk.pc = "write" /\ walk'.target = walk.target
        /\ walk'.t = walk.t /\ walk'.sent = walk.sent + 1 /\ walk'.queued = walk.queued /\ walk'.bytes = walk.bytes
    BY <1>0, <1>3 DEF I2cBus!Push, I2cBus!At, Walks
  <2>2. I2cBus!Transfer' = I2cBus!Transfer /\ I2cBus!Transfer.out \in Nat /\ I2cBus!Transfer.into \in Nat
    BY <2>1, <1>0, <1>3, TransferTypes DEF I2cBus!Transfer, I2cTypes, InTransfer
  <2>. QED
    BY <1>0, <1>i, <2>1, <2>2, FifoIsANumber DEF PlaceInv, InTransfer, Bytes, Answered, Walks
<1>4. CASE I2cBus!Queue /\ UNCHANGED source
  <2>1. /\ walk'.pc = "queue" /\ walk.pc = "queue" /\ walk'.target = walk.target
        /\ walk'.t = walk.t /\ walk'.sent = walk.sent /\ walk'.queued = walk.queued + 1 /\ walk'.bytes = walk.bytes
    BY <1>0, <1>4 DEF I2cBus!Queue, I2cBus!At, Walks
  <2>2. I2cBus!Transfer' = I2cBus!Transfer /\ I2cBus!Transfer.out \in Nat /\ I2cBus!Transfer.into \in Nat
    BY <2>1, <1>0, <1>4, TransferTypes DEF I2cBus!Transfer, I2cTypes, InTransfer
  <2>3. walk.queued < I2cBus!Transfer.into /\ walk.queued - Len(walk.bytes) < FifoDepth
    BY <1>4 DEF I2cBus!Queue, I2cBus!RoomToAsk
  <2>4. walk.queued \in Nat /\ Len(walk.bytes) \in Nat /\ walk.sent \in Nat
    BY <1>0 DEF Walks
  <2>. QED
    BY <1>i, <2>1, <2>2, <2>3, <2>4, FifoIsANumber DEF PlaceInv, InTransfer, Bytes, Answered
<1>5. CASE I2cBus!Take /\ UNCHANGED source
  <2>0. code.rx \in Seq(Datums) /\ code.rx # <<>>
    BY <1>0, <1>5 DEF I2cBus!Take, Codes
  <2>1. /\ walk'.pc = "taking" /\ walk.pc = "take" /\ walk'.target = walk.target
        /\ walk'.t = walk.t /\ walk'.sent = walk.sent /\ walk'.queued = walk.queued
        /\ walk'.bytes = Append(walk.bytes, Head(code.rx))
    BY <1>0, <1>5 DEF I2cBus!Take, I2cBus!At, Walks
  <2>2. I2cBus!Transfer' = I2cBus!Transfer /\ I2cBus!Transfer.out \in Nat /\ I2cBus!Transfer.into \in Nat
    BY <2>1, <1>0, <1>5, TransferTypes DEF I2cBus!Transfer, I2cTypes, InTransfer
  <2>3. Len(walk.bytes) < walk.queued
    BY <1>5 DEF I2cBus!Take
  <2>4. walk.queued \in Nat /\ walk.bytes \in Seq(Datums) /\ walk.sent \in Nat
    BY <1>0 DEF Walks
  <2>5. Len(walk'.bytes) = Len(walk.bytes) + 1 /\ walk'.bytes # <<>> /\ Len(walk.bytes) \in Nat
    <3>1. Head(code.rx) \in Datums
      BY <2>0
    <3> DEFINE x == Head(code.rx)
    <3> HIDE DEF x
    <3>2. \A b \in Seq(Datums) : Len(Append(b, x)) = Len(b) + 1 /\ Append(b, x) # <<>> /\ Len(b) \in Nat
      BY <3>1 DEF x
    <3>. QED
      BY <3>2, <2>1, <2>4 DEF x
  <2>. QED
    BY <1>i, <2>1, <2>2, <2>3, <2>4, <2>5, FifoIsANumber DEF PlaceInv, InTransfer, Bytes, Answered
<1>6. ASSUME NEW p \in {"queue", "take"}, Goes(p), walk.pc \in {"queue", "take", "taking"}
      PROVE  PlaceInv'
  <2>1. /\ walk'.pc = p /\ walk'.target = walk.target /\ I2cBus!Transfer' = I2cBus!Transfer
        /\ walk'.sent = walk.sent /\ walk'.queued = walk.queued /\ walk'.bytes = walk.bytes
    BY <1>0, <1>6 DEF Goes, I2cBus!To, Walks, I2cBus!Transfer
  <2>. QED
    BY <1>i, <1>6, <2>1 DEF PlaceInv, InTransfer, Bytes, Answered
<1>7. ASSUME Goes("check"), \/ walk.pc = "taking" /\ Len(walk.bytes) >= I2cBus!Transfer.into
                            \/ walk.pc = "drain"
      PROVE  PlaceInv'
  <2>1. /\ walk'.pc = "check" /\ walk'.target = walk.target /\ I2cBus!Transfer' = I2cBus!Transfer
        /\ walk'.sent = walk.sent /\ walk'.queued = walk.queued /\ walk'.bytes = walk.bytes
    BY <1>0, <1>7 DEF Goes, I2cBus!To, Walks, I2cBus!Transfer
  <2>2. I2cBus!Transfer.out \in Nat /\ I2cBus!Transfer.into \in Nat
    BY <1>0, <1>7, TransferTypes DEF I2cTypes, InTransfer
  <2>3. walk.queued \in Nat /\ walk.bytes \in Seq(Datums) /\ Len(walk.bytes) \in Nat
    BY <1>0 DEF Walks
  <2>4. walk.bytes # <<>> => Len(walk.bytes) > 0
    BY <2>3
  <2>5. walk.pc \in {"taking", "drain"} /\ InTransfer /\ walk.pc # "write"
    BY <1>7 DEF InTransfer
  <2>6. /\ walk.target = I2cBus!Transfer.address /\ Len(walk.bytes) <= walk.queued /\ walk.queued <= I2cBus!Transfer.into
        /\ walk.queued - Len(walk.bytes) <= FifoDepth /\ walk.sent = I2cBus!Transfer.out
    BY <1>i, <2>5 DEF PlaceInv, Bytes, Answered
  <2>7. Len(walk.bytes) = I2cBus!Transfer.into /\ I2cBus!Transfer.out + I2cBus!Transfer.into > 0
    <3>1. CASE walk.pc = "taking"
      <4>1. walk.bytes # <<>> /\ Len(walk.bytes) >= I2cBus!Transfer.into
        BY <1>i, <1>7, <3>1, <2>5 DEF PlaceInv
      <4>. QED
        BY <4>1, <2>2, <2>3, <2>4, <2>6
    <3>2. CASE walk.pc = "drain"
      <4>1. I2cBus!Transfer.out > 0 /\ I2cBus!Transfer.into = 0
        BY <1>i, <3>2, <2>5 DEF PlaceInv, Bytes, Answered
      <4>. QED
        BY <4>1, <2>2, <2>3, <2>6
    <3>. QED
      BY <3>1, <3>2, <2>5
  <2>. QED
    BY <2>1, <2>6, <2>7 DEF PlaceInv, Bytes, Answered
<1>8. ASSUME NEW ok, I2cBus!Ended(ok)
      PROVE  PlaceInv'
  BY <1>0, <1>8 DEF I2cBus!Ended, I2cBus!To, Walks, PlaceInv, InTransfer
<1>9. CASE UNCHANGED walk /\ source'.transfers = source.transfers
  BY <1>9, <1>i DEF PlaceInv, InTransfer, I2cBus!Transfer, Bytes, Answered
<1>10. I2cBus!LoseArbitration => source'.transfers = source.transfers
  BY <1>0 DEF I2cBus!LoseArbitration, I2cBus!Buses
<1>11. I2cBus!Drain /\ UNCHANGED source => Goes("check") /\ walk.pc = "drain"
  BY DEF I2cBus!Drain, Goes, I2cBus!At
<1>. QED
  BY <1>0, <1>1, <1>2, <1>3, <1>4, <1>5, <1>6, <1>7, <1>8, <1>9, <1>10, <1>11, Steps

\* Between transfers nothing is sent or queued.
LEMMA RestKept ==
  ASSUME I2cInv, I2cBus!I2cNext
  PROVE  RestInv'
<1>0. walk \in Walks /\ I2cTypes /\ RestInv
  BY DEF I2cInv, I2cTypes
<1>1. CASE walk.pc \in {"timing", "wake", "reset", "configure"} /\ (I2cBus!FirmwareTiming \/ I2cBus!Wake \/ I2cBus!Reset \/ I2cBus!NoController \/ I2cBus!Configure)
  BY <1>0, <1>1 DEF I2cBus!FirmwareTiming, I2cBus!Wake, I2cBus!Reset, I2cBus!NoController, I2cBus!Configure, I2cBus!To, Walks, RestInv, InTransfer
<1>2. CASE I2cBus!Aim \/ I2cBus!Push \/ I2cBus!Queue \/ I2cBus!Take \/ I2cBus!Drain
  BY <1>0, <1>2 DEF I2cBus!Aim, I2cBus!Push, I2cBus!Queue, I2cBus!Take, I2cBus!Drain, I2cBus!At, I2cBus!To, Walks, RestInv, InTransfer
<1>3. ASSUME NEW p \in {"take", "queue", "check"}, Goes(p)
      PROVE  RestInv'
  BY <1>0, <1>3 DEF Goes, I2cBus!To, Walks, RestInv, InTransfer
<1>4. ASSUME NEW ok, I2cBus!Ended(ok)
      PROVE  RestInv'
  BY <1>0, <1>4 DEF I2cBus!Ended, I2cBus!To, Walks, RestInv, InTransfer
<1>5. CASE UNCHANGED walk
  BY <1>0, <1>5 DEF RestInv, InTransfer
<1>. QED
  BY <1>0, <1>1, <1>2, <1>3, <1>4, <1>5, Steps

\* While an abort is not acknowledged nothing is queued.
LEMMA AbortKept ==
  ASSUME I2cInv, I2cBus!I2cNext
  PROVE  AbortInv' /\ TargetInv'
<1>0. walk \in Walks /\ code \in Codes /\ I2cTypes /\ AbortInv /\ TargetInv
  BY DEF I2cInv, I2cTypes
<1>1. CASE walk.pc \in {"timing", "wake", "reset", "configure"} /\ (I2cBus!FirmwareTiming \/ I2cBus!Wake \/ I2cBus!Reset \/ I2cBus!NoController \/ I2cBus!Configure)
  BY <1>0, <1>1 DEF I2cBus!FirmwareTiming, I2cBus!Wake, I2cBus!Reset, I2cBus!NoController, I2cBus!Configure, I2cBus!To, Walks, Codes, AbortInv, TargetInv
<1>2. CASE I2cBus!Aim
  <2>1. /\ walk'.target = I2cBus!Transfer.address
        /\ code'.target = IF walk.target # I2cBus!Transfer.address THEN I2cBus!Transfer.address ELSE code.target
        /\ code'.abort = FALSE
    BY <1>0, <1>2 DEF I2cBus!Aim, I2cBus!To, Walks, Codes
  <2>. QED
    BY <1>0, <2>1 DEF AbortInv, TargetInv
<1>3. CASE I2cBus!Push \/ I2cBus!Queue
  <2>1. /\ walk'.target = walk.target /\ code'.target = code.target
        /\ code'.abort = code.abort /\ (code.abort => code'.tx = code.tx)
    BY <1>0, <1>3 DEF I2cBus!Push, I2cBus!Queue, I2cBus!Given, Walks, Codes
  <2>. QED
    BY <1>0, <2>1 DEF AbortInv, TargetInv
<1>4. CASE I2cBus!Take
  BY <1>0, <1>4 DEF I2cBus!Take, Walks, Codes, AbortInv, TargetInv
<1>5. CASE I2cBus!Drain \/ \E p \in {"take", "queue", "check"} : Goes(p)
  BY <1>0, <1>5 DEF I2cBus!Drain, Goes, I2cBus!To, Walks, AbortInv, TargetInv
<1>6. ASSUME NEW ok, I2cBus!Ended(ok)
      PROVE  AbortInv' /\ TargetInv'
  BY <1>0, <1>6 DEF I2cBus!Ended, I2cBus!To, Walks, AbortInv, TargetInv
<1>7. CASE I2cBus!LeaveReset /\ UNCHANGED walk
  BY <1>0, <1>7 DEF I2cBus!LeaveReset, Codes, AbortInv, TargetInv
<1>8. CASE (I2cBus!CarryWrite \/ I2cBus!CarryRead) /\ UNCHANGED walk
  <2>1. code'.abort = code.abort /\ code'.target = code.target /\ code.tx # <<>>
    BY <1>0, <1>8 DEF I2cBus!CarryWrite, I2cBus!CarryRead, I2cBus!Ends, Codes
  <2>. QED
    BY <1>0, <2>1, <1>8 DEF AbortInv, TargetInv
<1>9. CASE (I2cBus!NobodyAnswers \/ I2cBus!LoseArbitration) /\ UNCHANGED walk
  <2>1. code'.tx = <<>> /\ code'.target = code.target
    BY <1>0, <1>9 DEF I2cBus!NobodyAnswers, I2cBus!LoseArbitration, I2cBus!Flushed, Codes
  <2>. QED
    BY <1>0, <2>1, <1>9 DEF AbortInv, TargetInv
<1>. QED
  BY <1>0, <1>1, <1>2, <1>3, <1>4, <1>5, <1>6, <1>7, <1>8, <1>9, Steps

\* Up to the first transfer nothing is in the queues, and the timing is what firmware left.
LEMMA StartKept ==
  ASSUME I2cInv, I2cBus!I2cNext
  PROVE  StartInv' /\ TimingInv'
<1>0. walk \in Walks /\ code \in Codes /\ source \in I2cBus!Buses /\ I2cTypes /\ StartInv /\ TimingInv
  BY DEF I2cInv, I2cTypes
<1>1. CASE I2cBus!FirmwareTiming /\ UNCHANGED source
  BY <1>0, <1>1 DEF I2cBus!FirmwareTiming, I2cBus!At, I2cBus!Read, I2cBus!To, Walks, StartInv, TimingInv, I2cBus!Plausible
<1>2. CASE I2cBus!Wake /\ UNCHANGED source
  BY <1>0, <1>2 DEF I2cBus!Wake, I2cBus!At, I2cBus!To, Walks, Codes, StartInv, TimingInv
<1>3. CASE I2cBus!Reset /\ UNCHANGED source
  BY <1>0, <1>3 DEF I2cBus!Reset, I2cBus!At, I2cBus!To, Walks, StartInv, TimingInv
<1>4. CASE I2cBus!Configure /\ UNCHANGED source
  BY <1>0, <1>4 DEF I2cBus!Configure, I2cBus!At, I2cBus!To, Walks, Codes, StartInv, TimingInv, I2cBus!MoreTransfers
<1>5. CASE I2cBus!NoController /\ UNCHANGED source
  <2>1. Len(source.transfers) \in Nat
    BY <1>0 DEF I2cBus!Buses
  <2>2. walk'.t = Len(source.transfers) + 1 /\ walk'.pc = "next"
    BY <1>0, <1>5 DEF I2cBus!NoController, I2cBus!To, Walks
  <2>3. ~I2cBus!MoreTransfers'
    BY <2>1, <2>2, <1>5 DEF I2cBus!MoreTransfers
  <2>. QED
    BY <2>2, <2>3 DEF StartInv, TimingInv
<1>6. ASSUME walk.pc \notin {"timing", "wake", "reset", "configure"},
             walk'.pc \notin {"timing", "wake", "reset", "configure"},
             code'.timing = code.timing, source'.timing = source.timing, source'.awake = source.awake,
             I2cBus!MoreTransfers' => I2cBus!MoreTransfers
      PROVE  StartInv' /\ TimingInv'
  BY <1>0, <1>6 DEF StartInv, TimingInv, I2cBus!Plausible
<1>7. CASE (I2cBus!Aim \/ I2cBus!Push \/ I2cBus!Queue \/ I2cBus!Take \/ I2cBus!Drain) /\ UNCHANGED source
  <2>1. walk.pc \notin {"timing", "wake", "reset", "configure"}
    BY <1>7 DEF I2cBus!Aim, I2cBus!Push, I2cBus!Queue, I2cBus!Take, I2cBus!Drain, I2cBus!At
  <2>2. walk'.pc \notin {"timing", "wake", "reset", "configure"} /\ walk'.t = walk.t
    <3>1. CASE I2cBus!Aim
      BY <1>0, <3>1 DEF I2cBus!Aim, I2cBus!To, Walks
    <3>2. CASE I2cBus!Push
      BY <1>0, <3>2 DEF I2cBus!Push, I2cBus!To, Walks
    <3>3. CASE I2cBus!Queue
      BY <1>0, <3>3 DEF I2cBus!Queue, I2cBus!At, I2cBus!To, Walks
    <3>4. CASE I2cBus!Take \/ I2cBus!Drain
      BY <1>0, <3>4 DEF I2cBus!Take, I2cBus!Drain, I2cBus!To, Walks
    <3>. QED
      BY <3>1, <3>2, <3>3, <3>4, <1>7
  <2>3. code'.timing = code.timing
    BY <1>0, <1>7 DEF I2cBus!Aim, I2cBus!Push, I2cBus!Queue, I2cBus!Take, I2cBus!Drain, I2cBus!Given, Codes
  <2>. QED
    BY <1>6, <1>7, <2>1, <2>2, <2>3 DEF I2cBus!MoreTransfers
<1>8. ASSUME NEW p \in {"take", "queue", "check"}, Goes(p), walk.pc \in {"taking", "queue", "take"}
      PROVE  StartInv' /\ TimingInv'
  BY <1>0, <1>6, <1>8 DEF Goes, I2cBus!To, Walks, I2cBus!MoreTransfers
<1>9. ASSUME NEW ok, I2cBus!Ended(ok), UNCHANGED source, InTransfer
      PROVE  StartInv' /\ TimingInv'
  <2>1. walk'.pc = "next" /\ walk'.t = walk.t + 1 /\ code' = code
    BY <1>0, <1>9 DEF I2cBus!Ended, I2cBus!To, Walks
  <2>2. I2cBus!MoreTransfers
    BY <1>0, <1>9 DEF I2cTypes
  <2>. QED
    BY <1>6, <1>9, <2>1, <2>2 DEF InTransfer
<1>10. CASE I2cBus!LeaveReset /\ UNCHANGED <<source, walk, answers>>
  BY <1>0, <1>10 DEF I2cBus!LeaveReset, Codes, StartInv, TimingInv, I2cBus!MoreTransfers
<1>11. CASE (I2cBus!CarryWrite \/ I2cBus!CarryRead \/ I2cBus!NobodyAnswers) /\ UNCHANGED <<source, walk, answers>>
  <2>1. code'.timing = code.timing /\ code.tx # <<>>
    BY <1>0, <1>11 DEF I2cBus!CarryWrite, I2cBus!CarryRead, I2cBus!NobodyAnswers, I2cBus!Flushed, I2cBus!Ends, Codes
  <2>2. walk.pc \notin {"timing", "wake", "reset", "configure"}
    BY <1>0, <2>1 DEF StartInv
  <2>. QED
    BY <1>6, <1>11, <2>1, <2>2 DEF I2cBus!MoreTransfers
<1>12. CASE I2cBus!LoseArbitration /\ UNCHANGED <<walk, answers>>
  <2>1. code'.timing = code.timing /\ code.tx # <<>>
    BY <1>0, <1>12 DEF I2cBus!LoseArbitration, I2cBus!Flushed, Codes
  <2>2. walk.pc \notin {"timing", "wake", "reset", "configure"}
    BY <1>0, <2>1 DEF StartInv
  <2>3. source'.timing = source.timing /\ source'.awake = source.awake /\ source'.transfers = source.transfers
    BY <1>0, <1>12 DEF I2cBus!LoseArbitration, I2cBus!Buses
  <2>. QED
    BY <1>6, <1>12, <2>1, <2>2, <2>3 DEF I2cBus!MoreTransfers
<1>. QED
  BY <1>0, <1>1, <1>2, <1>3, <1>4, <1>5, <1>7, <1>8, <1>9, <1>10, <1>11, <1>12, Steps

-----------------------------------------------------------------------------
(***************************************************************************)
(* The queues of a transfer that began with them empty.                    *)
(***************************************************************************)
\* One more byte told.
LEMMA TellOne ==
  ASSUME NEW n \in Nat
  PROVE  Append(I2cBus!Told(n), n + 1) = I2cBus!Told(n + 1) /\ I2cBus!Told(n) \in Seq(Nat) /\ I2cBus!Told(0) = <<>>
<1>1. I2cBus!Told(n) \in Seq(Nat) /\ Len(I2cBus!Told(n)) = n /\ \A i \in 1 .. n : I2cBus!Told(n)[i] = i
  BY DEF I2cBus!Told
<1>2. I2cBus!Told(n + 1) \in Seq(Nat) /\ Len(I2cBus!Told(n + 1)) = n + 1 /\ \A i \in 1 .. n + 1 : I2cBus!Told(n + 1)[i] = i
  BY DEF I2cBus!Told
<1> DEFINE t == I2cBus!Told(n)
           u == I2cBus!Told(n + 1)
<1>3. t \in Seq(Nat) /\ Len(t) = n /\ (\A i \in 1 .. n : t[i] = i)
      /\ u \in Seq(Nat) /\ Len(u) = n + 1 /\ (\A i \in 1 .. n + 1 : u[i] = i)
  BY <1>1, <1>2
<1> HIDE DEF t, u
<1>4. Append(t, n + 1) = u
  BY <1>3
<1>. QED
  BY <1>1, <1>4 DEF t, u, I2cBus!Told

\* What is at an index when something is appended.
LEMMA Appended ==
  ASSUME NEW S, NEW s \in Seq(S), NEW x \in S
  PROVE  /\ Append(s, x) \in Seq(S) /\ Len(Append(s, x)) = Len(s) + 1 /\ Len(s) \in Nat
         /\ \A i \in 1 .. Len(s) : Append(s, x)[i] = s[i]
         /\ Append(s, x)[Len(s) + 1] = x
  OBVIOUS

\* What is at an index when the front is gone.
LEMMA Tailed ==
  ASSUME NEW S, NEW s \in Seq(S), s # <<>>
  PROVE  /\ Head(s) = s[1] /\ Head(s) \in S /\ Tail(s) \in Seq(S)
         /\ Len(s) \in Nat /\ Len(s) > 0 /\ Len(Tail(s)) = Len(s) - 1
         /\ \A i \in 1 .. Len(s) - 1 : Tail(s)[i] = s[i + 1]
  OBVIOUS

\* A command is a read after the bytes, and the last of all stops.
LEMMA Commanded ==
  ASSUME NEW k \in Nat \ {0}, Bytes \in Nat, Answered \in Nat
  PROVE  /\ Command(k).rd <=> k > Bytes
         /\ k <= Bytes => Command(k).n = k
         /\ k <= Bytes + Answered => (Command(k).stop <=> k = Bytes + Answered)
<1>1. CASE k <= Bytes
  <2> DEFINE stop == k = Bytes /\ Answered = 0
  <2>1. Command(k) = [rd |-> FALSE, n |-> k, restart |-> FALSE, stop |-> stop]
    BY <1>1 DEF Command, I2cBus!Byte
  <2>2. k <= Bytes + Answered => (stop <=> k = Bytes + Answered)
    BY <1>1
  <2> HIDE DEF stop
  <2>3. Command(k).rd = FALSE /\ Command(k).n = k /\ Command(k).stop = stop
    BY <2>1
  <2>. QED
    BY <1>1, <2>2, <2>3
<1>2. CASE k > Bytes
  <2> DEFINE stop    == k = Bytes + Answered
             restart == k = Bytes + 1 /\ Bytes > 0
  <2>1. Command(k) = [rd |-> TRUE, n |-> 0, restart |-> restart, stop |-> stop]
    BY <1>2 DEF Command, I2cBus!Ask
  <2>2. stop <=> k = Bytes + Answered
    OBVIOUS
  <2> HIDE DEF stop, restart
  <2>3. Command(k).rd = TRUE /\ Command(k).stop = stop
    BY <2>1
  <2>. QED
    BY <1>2, <2>2, <2>3
<1>. QED
  BY <1>1, <1>2

\* What is queued at the end is the next command.
LEMMA Queueing ==
  ASSUME I2cInv, InTransfer, walk.clean, ~code.abort, NEW c \in Commands,
         c = Command(Issued + 1),
         code'.tx = Append(code.tx, c), code'.rx = code.rx, code'.heard = code.heard,
         code'.given = code.given, code'.kept = code.kept, walk'.bytes = walk.bytes,
         walk'.sent + walk'.queued = Issued + 1, walk'.t = walk.t, walk'.pc # "check",
         UNCHANGED source
  PROVE  CleanInv'
<1>0. walk \in Walks /\ code \in Codes /\ I2cTypes /\ CleanInv
  BY DEF I2cInv, I2cTypes, QueueInv
<1>1. I2cBus!Transfer' = I2cBus!Transfer /\ Bytes' = Bytes /\ Answered' = Answered
  BY DEF I2cBus!Transfer, Bytes, Answered
<1>2. Issued \in Nat /\ Len(code.tx) \in Nat /\ code.tx \in Seq(Commands)
  BY <1>0 DEF Issued, Walks, Codes
<1>3. /\ code'.tx \in Seq(Commands) /\ Len(code'.tx) = Len(code.tx) + 1
      /\ \A i \in 1 .. Len(code.tx) : code'.tx[i] = code.tx[i]
      /\ code'.tx[Len(code.tx) + 1] = c
  BY <1>2, Appended
<1>4. Issued' = Issued + 1 /\ Carried' = Carried /\ Got' = Got
  BY <1>1, <1>2, <1>3 DEF Issued, Carried, Got
<1>5. \A k : Command(k)' = Command(k)
  BY <1>1 DEF Command
<1>6. \A i \in 1 .. Len(code'.tx) : code'.tx[i] = Command(Carried + i)
  <2> SUFFICES ASSUME NEW i \in 1 .. Len(code'.tx) PROVE code'.tx[i] = Command(Carried + i)
    OBVIOUS
  <2>1. CASE i = Len(code.tx) + 1
    <3>1. Carried + i = Issued + 1
      <4>1. \A a, b \in Nat : (a - b) + (b + 1) = a + 1
        OBVIOUS
      <4>. QED
        BY <4>1, <1>2, <2>1 DEF Carried
    <3>. QED
      BY <1>3, <2>1, <3>1
  <2>2. CASE i # Len(code.tx) + 1
    <3>1. i \in 1 .. Len(code.tx)
      BY <1>2, <1>3, <2>2
    <3>. QED
      BY <1>0, <1>3, <3>1 DEF CleanInv
  <2>. QED
    BY <2>1, <2>2
<1>7. DeviceInv'
  BY <1>0, <1>1, <1>4 DEF CleanInv, DeviceInv
<1>. QED
  BY <1>0, <1>1, <1>4, <1>5, <1>6, <1>7 DEF CleanInv

\* The front of the queue is the next command to be carried.
LEMMA Carrying ==
  ASSUME I2cInv, InTransfer, walk.clean, ~code.abort, code.tx # <<>>
  PROVE  /\ Carried \in Nat /\ Carried + 1 <= Issued /\ Issued <= Bytes + Answered
         /\ Head(code.tx) = Command(Carried + 1)
         /\ Bytes \in Nat /\ Answered \in Nat /\ Issued \in Nat
         /\ walk.pc # "check" /\ CleanInv /\ PlaceInv
         /\ Carried >= Bytes => walk.sent = Bytes /\ walk.pc # "write"
<1>0. walk \in Walks /\ code \in Codes /\ I2cTypes /\ CleanInv /\ PlaceInv
  BY DEF I2cInv, I2cTypes, QueueInv
<1>1. Bytes \in Nat /\ Answered \in Nat
  BY <1>0, TransferTypes DEF I2cTypes, Bytes, Answered
<1>2. code.tx \in Seq(Commands) /\ walk.sent \in Nat /\ walk.queued \in Nat
  BY <1>0 DEF Codes, Walks
<1>3. Len(code.tx) \in Nat /\ Len(code.tx) > 0 /\ Head(code.tx) = code.tx[1]
  BY <1>2, Tailed
<1>4. Carried \in Nat /\ Issued \in Nat
  BY <1>0, <1>2 DEF CleanInv, Issued
<1>5. Carried + 1 <= Issued
  BY <1>3, <1>4 DEF Carried
<1>6. walk.queued <= Answered /\ (walk.pc = "write" => walk.sent < Bytes /\ walk.queued = 0)
      /\ (walk.pc # "write" => walk.sent = Bytes)
  BY <1>0 DEF PlaceInv
<1>7. Issued <= Bytes + Answered
  BY <1>1, <1>2, <1>6 DEF Issued
<1>8. Carried >= Bytes => walk.pc # "write"
  BY <1>1, <1>2, <1>4, <1>5, <1>6 DEF Issued
<1>9. code.tx[1] = Command(Carried + 1)
  BY <1>0, <1>3 DEF CleanInv
<1>. QED
  BY <1>0, <1>1, <1>3, <1>4, <1>5, <1>6, <1>7, <1>8, <1>9 DEF CleanInv

\* What is left of the queue when its front has been carried.
LEMMA Advancing ==
  ASSUME I2cInv, InTransfer, walk.clean, ~code.abort, code.tx # <<>>,
         code'.tx = Tail(code.tx), UNCHANGED <<source, walk>>
  PROVE  /\ Carried' = Carried + 1 /\ Issued' = Issued /\ Bytes' = Bytes /\ Answered' = Answered
         /\ I2cBus!Transfer' = I2cBus!Transfer
         /\ \A i \in 1 .. Len(code'.tx) : code'.tx[i] = Command(Carried + i)'
<1>0. walk \in Walks /\ code \in Codes /\ I2cTypes
  BY DEF I2cInv, I2cTypes
<1>1. Bytes' = Bytes /\ Answered' = Answered /\ Issued' = Issued /\ I2cBus!Transfer' = I2cBus!Transfer
  BY DEF Bytes, Answered, I2cBus!Transfer, Issued
<1>2. /\ code.tx \in Seq(Commands) /\ Len(code.tx) \in Nat /\ Len(code'.tx) = Len(code.tx) - 1
      /\ \A i \in 1 .. Len(code.tx) - 1 : code'.tx[i] = code.tx[i + 1]
  BY <1>0, Tailed DEF Codes
<1>3. Carried \in Nat /\ Issued \in Nat /\ CleanInv
  BY Carrying
<1>4. Carried' = Carried + 1
  <2>1. \A a, b \in Nat : a - (b - 1) = (a - b) + 1
    OBVIOUS
  <2>. QED
    BY <2>1, <1>1, <1>2, <1>3 DEF Carried
<1>6. ASSUME NEW i \in 1 .. Len(code'.tx)
      PROVE  code'.tx[i] = Command(Carried + i)'
  <2>1. i + 1 \in 1 .. Len(code.tx) /\ code'.tx[i] = code.tx[i + 1]
    BY <1>2, <1>6
  <2>2. code.tx[i + 1] = Command(Carried + (i + 1))
    BY <1>3, <2>1 DEF CleanInv
  <2>3. Carried + (i + 1) = Carried' + i
    BY <1>3, <1>4
  <2>4. Command(Carried + i)' = Command(Carried' + i)
    BY <1>1 DEF Command
  <2>. QED
    BY <2>1, <2>2, <2>3, <2>4
<1>. QED
  BY <1>1, <1>4, <1>6

\* CleanInv of the next state, where the driver stands still.
LEMMA CleanThen ==
  ASSUME UNCHANGED <<source, walk>>, I2cBus!Transfer' = I2cBus!Transfer, Bytes' = Bytes, walk.pc # "check",
         Carried' \in Nat, \A i \in 1 .. Len(code'.tx) : code'.tx[i] = Command(Carried + i)',
         DeviceInv', Len(code'.rx) + Len(walk.bytes) = Got',
         \A n \in 1 .. Len(walk.bytes) : walk.bytes[n] = I2cBus!Contents(I2cBus!Told(Bytes), n),
         \A n \in 1 .. Len(code'.rx) : code'.rx[n] = I2cBus!Contents(I2cBus!Told(Bytes), Len(walk.bytes) + n),
         I2cBus!Transfer.address \in source.present
  PROVE  CleanInv'
<1>1. walk'.bytes = walk.bytes /\ walk'.pc # "check" /\ I2cBus!Transfer'.address \in source'.present
  OBVIOUS
<1>. QED
  BY <1>1 DEF CleanInv

\* A byte that is carried is the next the device hears.
LEMMA Writing ==
  ASSUME I2cInv, InTransfer, walk.clean, ~code.abort, I2cBus!CarryWrite, UNCHANGED <<source, walk>>
  PROVE  CleanInv'
<1>0. walk \in Walks /\ code \in Codes /\ code.tx # <<>> /\ code.target = walk.target
      /\ code.target \in source.present /\ ~Head(code.tx).rd
  BY DEF I2cInv, I2cTypes, I2cBus!CarryWrite, TargetInv
<1> DEFINE h == Head(code.tx)
<1>1. /\ Carried \in Nat /\ Carried + 1 <= Issued /\ Issued <= Bytes + Answered
      /\ h = Command(Carried + 1) /\ Bytes \in Nat /\ Answered \in Nat /\ Issued \in Nat
      /\ walk.pc # "check" /\ CleanInv /\ PlaceInv
  BY <1>0, Carrying
<1>2. Carried + 1 <= Bytes /\ h.n = Carried + 1 /\ (h.stop <=> Carried + 1 = Bytes + Answered)
  BY <1>0, <1>1, Commanded
<1>3. /\ code'.tx = Tail(code.tx) /\ code'.rx = code.rx
      /\ h.stop => code'.kept = Append(code.heard, h.n) /\ code'.heard = <<>> /\ code'.given = 0
      /\ ~h.stop => code'.heard = Append(code.heard, h.n) /\ code'.given = code.given
  BY <1>0 DEF I2cBus!CarryWrite, I2cBus!Ends, Codes
<1>4. /\ Carried' = Carried + 1 /\ Issued' = Issued /\ Bytes' = Bytes /\ Answered' = Answered
      /\ I2cBus!Transfer' = I2cBus!Transfer
      /\ \A i \in 1 .. Len(code'.tx) : code'.tx[i] = Command(Carried + i)'
  BY <1>0, <1>3, Advancing
<1>5. code.heard = I2cBus!Told(Carried) /\ code.given = Got /\ Got = 0 /\ Got' = 0
  BY <1>1, <1>2, <1>4 DEF CleanInv, DeviceInv, Got
<1>6. Append(code.heard, h.n) = I2cBus!Told(Carried + 1)
  BY <1>1, <1>2, <1>5, TellOne
<1>7. DeviceInv'
  <2>1. CASE h.stop
    <3>1. Carried' = Bytes' + Answered' /\ Carried' = Bytes'
      BY <1>1, <1>2, <1>4, <2>1
    <3>2. code'.kept = I2cBus!Told(Bytes') /\ code'.heard = <<>> /\ code'.given = 0
      BY <2>1, <3>1, <1>3, <1>4, <1>6
    <3>. QED
      BY <3>1, <3>2, <1>1, <1>4 DEF DeviceInv
  <2>2. CASE ~h.stop
    <3>1. Carried' # Bytes' + Answered' /\ Carried' <= Bytes' /\ Carried' \in Nat /\ Bytes' \in Nat
      BY <1>1, <1>2, <1>4, <2>2
    <3>2. code'.heard = I2cBus!Told(Carried') /\ code'.given = Got'
      BY <2>2, <1>3, <1>4, <1>5, <1>6
    <3>3. Carried' = IF Carried' < Bytes' THEN Carried' ELSE Bytes'
      BY <3>1
    <3>. QED
      BY <3>1, <3>2, <3>3 DEF DeviceInv
  <2>. QED
    BY <2>1, <2>2
<1>8. I2cBus!Transfer.address \in source.present
  BY <1>0, <1>1 DEF PlaceInv
<1>9. Carried' \in Nat
  BY <1>1, <1>4
<1>10. /\ Len(code'.rx) + Len(walk.bytes) = Got'
       /\ \A n \in 1 .. Len(walk.bytes) : walk.bytes[n] = I2cBus!Contents(I2cBus!Told(Bytes), n)
       /\ \A n \in 1 .. Len(code'.rx) : code'.rx[n] = I2cBus!Contents(I2cBus!Told(Bytes), Len(walk.bytes) + n)
  BY <1>1, <1>3, <1>5 DEF CleanInv
<1>. QED
  BY <1>0, <1>1, <1>3, <1>4, <1>7, <1>8, <1>9, <1>10, CleanThen

\* A byte that the device gives is the next of its contents.
LEMMA Reading ==
  ASSUME I2cInv, InTransfer, walk.clean, ~code.abort, I2cBus!CarryRead, UNCHANGED <<source, walk>>
  PROVE  CleanInv' /\ Len(code.rx) < FifoDepth
<1>0. walk \in Walks /\ code \in Codes /\ code.tx # <<>> /\ code.target = walk.target
      /\ code.target \in source.present /\ Head(code.tx).rd
  BY DEF I2cInv, I2cTypes, I2cBus!CarryRead, TargetInv
<1> DEFINE h == Head(code.tx)
           x == I2cBus!Contents(I2cBus!Told(Bytes), Got + 1)
<1>1. /\ Carried \in Nat /\ Carried + 1 <= Issued /\ Issued <= Bytes + Answered
      /\ h = Command(Carried + 1) /\ Bytes \in Nat /\ Answered \in Nat /\ Issued \in Nat
      /\ walk.pc # "check" /\ CleanInv /\ PlaceInv
      /\ Carried >= Bytes => walk.sent = Bytes /\ walk.pc # "write"
  BY <1>0, Carrying
<1>2. Carried >= Bytes /\ (h.stop <=> Carried + 1 = Bytes + Answered)
  BY <1>0, <1>1, Commanded
<1>3. walk.queued \in Nat /\ Len(walk.bytes) \in Nat /\ Len(code.rx) \in Nat /\ code.rx \in Seq(Datums)
      /\ walk.sent = Bytes /\ Issued = Bytes + walk.queued
  BY <1>0, <1>1, <1>2 DEF Walks, Codes, Issued
<1>4. Got = Carried - Bytes /\ Got \in Nat /\ Len(code.rx) + Len(walk.bytes) = Got
  <2>1. Len(code.rx) + Len(walk.bytes) = Got
    BY <1>1 DEF CleanInv
  <2>2. Carried > Bytes \/ Carried = Bytes
    BY <1>1, <1>2
  <2>. QED
    <3>1. \A c, b \in Nat : c > b \/ c = b => (IF c > b THEN c - b ELSE 0) = c - b /\ c - b \in Nat
      OBVIOUS
    <3>. QED
      BY <1>1, <2>1, <2>2, <3>1 DEF Got
<1>5. walk.queued - Len(walk.bytes) <= FifoDepth
  BY <1>1 DEF PlaceInv
<1>6. Len(code.rx) < FifoDepth
  <2>1. \A c, i, b, q, n, r, f \in Nat :
          c + 1 <= i /\ i = b + q /\ q - n <= f /\ r + n = c - b => r < f
    OBVIOUS
  <2>. QED
    BY <2>1, <1>1, <1>3, <1>4, <1>5, FifoIsANumber
<1>7. code.heard = I2cBus!Told(Bytes) /\ code.given = Got
  BY <1>1, <1>2 DEF CleanInv, DeviceInv
<1>8. /\ code'.tx = Tail(code.tx) /\ code'.rx = Append(code.rx, x)
      /\ h.stop => code'.kept = code.heard /\ code'.heard = <<>> /\ code'.given = 0
      /\ ~h.stop => code'.heard = code.heard /\ code'.given = Got + 1
  BY <1>0, <1>6, <1>7 DEF I2cBus!CarryRead, I2cBus!Ends, Codes
<1>9. /\ Carried' = Carried + 1 /\ Issued' = Issued /\ Bytes' = Bytes /\ Answered' = Answered
      /\ I2cBus!Transfer' = I2cBus!Transfer
      /\ \A i \in 1 .. Len(code'.tx) : code'.tx[i] = Command(Carried + i)'
  BY <1>0, <1>8, Advancing
<1>10. Got' = Got + 1
  BY <1>1, <1>2, <1>4, <1>9 DEF Got
<1>11. DeviceInv'
  <2>1. CASE h.stop
    <3>1. Carried' = Bytes' + Answered' /\ Carried' > 0 /\ Carried' \in Nat
      BY <1>1, <1>2, <1>9, <2>1
    <3>. QED
      BY <2>1, <3>1, <1>7, <1>8, <1>9, <1>1 DEF DeviceInv
  <2>2. CASE ~h.stop
    <3>1. Carried' # Bytes' + Answered' /\ Carried' # 0 /\ ~(Carried' < Bytes')
      BY <1>1, <1>2, <1>9, <2>2
    <3>. QED
      BY <2>2, <3>1, <1>7, <1>8, <1>9, <1>10 DEF DeviceInv
  <2>. QED
    BY <2>1, <2>2
<1>12. I2cBus!Transfer.address \in source.present
  BY <1>0, <1>1 DEF PlaceInv
<1>13. x \in Datums
  <2>1. I2cBus!Told(Bytes) \in Seq(Nat) /\ Got + 1 \in Nat
    BY <1>4, <1>1, TellOne
  <2>. QED
    BY <2>1 DEF I2cBus!Contents, Datums
<1>14. /\ Len(code'.rx) = Len(code.rx) + 1
       /\ \A n \in 1 .. Len(code.rx) : code'.rx[n] = code.rx[n]
       /\ code'.rx[Len(code.rx) + 1] = x
  <2> HIDE DEF x
  <2>. QED
    BY <1>3, <1>8, <1>13, Appended
<1>15. ASSUME NEW n \in 1 .. Len(code'.rx)
       PROVE  code'.rx[n] = I2cBus!Contents(I2cBus!Told(Bytes), Len(walk.bytes) + n)
  <2>1. CASE n = Len(code.rx) + 1
    <3>1. Len(walk.bytes) + n = Got + 1
      <4>1. \A a, b, g \in Nat : a + b = g => b + (a + 1) = g + 1
        OBVIOUS
      <4>. QED
        BY <4>1, <1>3, <1>4, <2>1
    <3>. QED
      BY <1>14, <2>1, <3>1
  <2>2. CASE n # Len(code.rx) + 1
    <3>1. n \in 1 .. Len(code.rx)
      BY <1>3, <1>14, <2>2
    <3>. QED
      BY <3>1, <1>14, <1>1 DEF CleanInv
  <2>. QED
    BY <2>1, <2>2
<1>16. Carried' \in Nat /\ Len(code'.rx) + Len(walk.bytes) = Got'
  <2>1. \A a, b, g \in Nat : a + b = g => (a + 1) + b = g + 1
    OBVIOUS
  <2>2. Len(code'.rx) + Len(walk.bytes) = Got'
    <3>1. Len(code'.rx) = Len(code.rx) + 1
      BY <1>14
    <3>. QED
      <4>1. (Len(code.rx) + 1) + Len(walk.bytes) = Got + 1
        BY <2>1, <1>3, <1>4
      <4>. QED
        BY <4>1, <3>1, <1>10
  <2>3. Carried' \in Nat
    BY <1>1, <1>9
  <2>. QED
    BY <2>2, <2>3
<1>17. \A n \in 1 .. Len(walk.bytes) : walk.bytes[n] = I2cBus!Contents(I2cBus!Told(Bytes), n)
  BY <1>1 DEF CleanInv
<1>. QED
  BY <1>1, <1>6, <1>9, <1>11, <1>12, <1>15, <1>16, <1>17, CleanThen

\* The queues stay in step with the transfer, whichever side goes on.
LEMMA QueueKept ==
  ASSUME I2cInv, I2cBus!I2cNext
  PROVE  QueueInv'
<1>0. walk \in Walks /\ code \in Codes /\ source \in I2cBus!Buses /\ I2cTypes /\ QueueInv /\ PlaceInv /\ RestInv /\ StartInv
  BY DEF I2cInv, I2cTypes
<1>t. InTransfer => Bytes \in Nat /\ Answered \in Nat
  BY <1>0, TransferTypes DEF I2cTypes, Bytes, Answered
<1>1. CASE walk.pc \in {"timing", "wake", "reset", "configure"} /\ (I2cBus!FirmwareTiming \/ I2cBus!Wake \/ I2cBus!Reset \/ I2cBus!NoController \/ I2cBus!Configure)
  <2>1. walk'.pc \in {"wake", "reset", "configure", "next"}
    <3>1. \E p \in {"wake", "reset", "configure", "next"} :
            \/ walk' = I2cBus!To(p)
            \/ \E n : walk' = [I2cBus!To(p) EXCEPT !.t = n] \/ walk' = [I2cBus!To(p) EXCEPT !.timing = n]
      BY <1>1 DEF I2cBus!FirmwareTiming, I2cBus!Wake, I2cBus!Reset, I2cBus!NoController, I2cBus!Configure
    <3>. QED
      BY <1>0, <3>1 DEF I2cBus!To, Walks
  <2>. QED
    BY <2>1 DEF QueueInv, InTransfer
<1>2. CASE I2cBus!Aim /\ UNCHANGED source
  <2> SUFFICES ASSUME walk'.clean PROVE CleanInv'
    BY DEF QueueInv
  <2>1. /\ walk'.sent = 0 /\ walk'.queued = 0 /\ walk'.bytes = <<>> /\ walk'.pc # "check" /\ walk'.t = walk.t
    BY <1>0, <1>2 DEF I2cBus!Aim, I2cBus!At, Walks, RestInv, InTransfer, I2cBus!To
  <2>2. code'.tx = <<>> /\ code'.rx = <<>> /\ code'.heard = code.heard /\ code'.given = code.given /\ ~I2cBus!Busy
    BY <1>0, <1>2 DEF I2cBus!Aim, Walks, Codes, I2cBus!To
  <2>3. I2cBus!Transfer' = I2cBus!Transfer /\ Bytes' = Bytes /\ Answered' = Answered /\ Bytes \in Nat /\ Answered \in Nat
    BY <1>0, <1>2, <2>1, TransferTypes DEF I2cBus!Aim, I2cBus!Transfer, Bytes, Answered
  <2>4. Issued' = 0 /\ Carried' = 0 /\ Got' = 0
    <3>1. Issued' = 0
      BY <2>1 DEF Issued
    <3>2. Carried' = 0
      <4>1. Len(code'.tx) = 0
        BY <2>2
      <4>. QED
        BY <3>1, <4>1 DEF Carried
    <3>. QED
      BY <2>3, <3>1, <3>2 DEF Got
  <2>5. code'.heard = <<>> /\ code'.given = 0
    BY <1>0, <2>2 DEF I2cBus!Busy, Codes
  <2>6. I2cBus!Told(0) = <<>>
    BY TellOne
  <2>7. DeviceInv'
    BY <2>3, <2>4, <2>5, <2>6 DEF DeviceInv
  <2>. QED
    BY <2>1, <2>2, <2>4, <2>7 DEF CleanInv
<1>3. CASE I2cBus!Push /\ UNCHANGED source
  <2> SUFFICES ASSUME walk'.clean PROVE CleanInv'
    BY DEF QueueInv
  <2> DEFINE c == I2cBus!Byte(walk.sent + 1, walk.sent + 1 = I2cBus!Transfer.out /\ I2cBus!Transfer.into = 0)
  <2>1. /\ walk.pc = "write" /\ walk'.pc # "check" /\ walk'.t = walk.t /\ walk'.clean = walk.clean
        /\ walk'.sent = walk.sent + 1 /\ walk'.queued = walk.queued /\ walk'.bytes = walk.bytes
    BY <1>0, <1>3 DEF I2cBus!Push, I2cBus!At, Walks
  <2>2. InTransfer /\ walk.queued = 0 /\ walk.sent + 1 <= Bytes /\ walk.sent \in Nat
    BY <1>0, <1>t, <2>1 DEF PlaceInv, InTransfer, Walks
  <2>3. Issued = walk.sent /\ Issued + 1 = walk'.sent + walk'.queued
    BY <2>1, <2>2 DEF Issued
  <2>4. c = Command(Issued + 1) /\ c \in Commands
    BY <2>2, <2>3 DEF Command, Bytes, Answered, I2cBus!Byte, Commands
  <2>5. /\ ~code.abort
        /\ code'.tx = Append(code.tx, c) /\ code'.rx = code.rx /\ code'.heard = code.heard
        /\ code'.given = code.given /\ code'.kept = code.kept
    BY <1>0, <1>3 DEF I2cBus!Push, I2cBus!Given, Codes
  <2> HIDE DEF c
  <2>. QED
    BY <1>3, <2>1, <2>2, <2>3, <2>4, <2>5, Queueing
<1>4. CASE I2cBus!Queue /\ UNCHANGED source
  <2> SUFFICES ASSUME walk'.clean, ~code'.abort PROVE CleanInv'
    BY DEF QueueInv
  <2> DEFINE c == I2cBus!Ask(walk.queued = 0 /\ I2cBus!Transfer.out > 0, walk.queued + 1 = I2cBus!Transfer.into)
  <2>1. /\ walk.pc = "queue" /\ walk'.pc = "queue" /\ walk'.t = walk.t /\ walk'.clean = walk.clean
        /\ walk'.sent = walk.sent /\ walk'.queued = walk.queued + 1 /\ walk'.bytes = walk.bytes
    BY <1>0, <1>4 DEF I2cBus!Queue, I2cBus!At, Walks
  <2>2. InTransfer /\ walk.sent = Bytes /\ walk.queued \in Nat /\ Bytes \in Nat /\ Answered \in Nat
    BY <1>0, <1>t, <2>1 DEF PlaceInv, InTransfer, Walks
  <2>3. Issued = Bytes + walk.queued /\ Issued + 1 = walk'.sent + walk'.queued /\ ~(Issued + 1 <= Bytes)
    BY <2>1, <2>2 DEF Issued
  <2>4. c = Command(Issued + 1) /\ c \in Commands
    <3>1. (Issued + 1 = Bytes + 1 /\ Bytes > 0) <=> (walk.queued = 0 /\ I2cBus!Transfer.out > 0)
      BY <2>2, <2>3 DEF Bytes
    <3>2. (Issued + 1 = Bytes + Answered) <=> (walk.queued + 1 = I2cBus!Transfer.into)
      BY <2>2, <2>3 DEF Answered
    <3>3. Command(Issued + 1) = I2cBus!Ask(Issued + 1 = Bytes + 1 /\ Bytes > 0, Issued + 1 = Bytes + Answered)
      BY <2>3 DEF Command
    <3>4. c = Command(Issued + 1)
      BY <3>1, <3>2, <3>3 DEF I2cBus!Ask
    <3>. QED
      BY <3>4 DEF I2cBus!Ask, Commands
  <2>5. /\ code'.abort = code.abort /\ (~code.abort => code'.tx = Append(code.tx, c))
        /\ code'.rx = code.rx /\ code'.heard = code.heard
        /\ code'.given = code.given /\ code'.kept = code.kept
    BY <1>0, <1>4 DEF I2cBus!Queue, I2cBus!Given, Codes
  <2> HIDE DEF c
  <2>. QED
    BY <1>4, <2>1, <2>2, <2>3, <2>4, <2>5, Queueing
<1>5. CASE I2cBus!Take /\ UNCHANGED source
  <2> SUFFICES ASSUME walk'.clean, ~code'.abort PROVE CleanInv'
    BY DEF QueueInv
  <2>0. code.rx \in Seq(Datums) /\ code.rx # <<>> /\ walk.bytes \in Seq(Datums)
    BY <1>0, <1>5 DEF I2cBus!Take, Codes, Walks
  <2> DEFINE x == Head(code.rx)
  <2>1. /\ walk.pc = "take" /\ walk'.pc = "taking" /\ walk'.t = walk.t /\ walk'.clean = walk.clean
        /\ walk'.sent = walk.sent /\ walk'.queued = walk.queued /\ walk'.bytes = Append(walk.bytes, x)
    BY <1>0, <1>5 DEF I2cBus!Take, I2cBus!At, Walks
  <2>2. /\ code'.abort = code.abort /\ code'.tx = code.tx /\ code'.rx = Tail(code.rx)
        /\ code'.heard = code.heard /\ code'.given = code.given /\ code'.kept = code.kept
    BY <1>0, <1>5 DEF I2cBus!Take, Codes
  <2>3. CleanInv
    BY <1>0, <2>1, <2>2 DEF QueueInv, InTransfer
  <2>4. Bytes' = Bytes /\ Answered' = Answered /\ I2cBus!Transfer' = I2cBus!Transfer
    BY <2>1, <1>5 DEF Bytes, Answered, I2cBus!Transfer
  <2>5. Issued' = Issued /\ Carried' = Carried /\ Got' = Got
    BY <2>1, <2>2, <2>4 DEF Issued, Carried, Got
  <2>6. \A k : Command(k)' = Command(k)
    BY <2>4 DEF Command
  <2>7. DeviceInv'
    BY <2>2, <2>3, <2>4, <2>5 DEF DeviceInv, CleanInv
  <2>8. /\ x = code.rx[1] /\ x \in Datums /\ Len(code.rx) \in Nat /\ Len(code.rx) > 0
        /\ Len(code'.rx) = Len(code.rx) - 1 /\ \A n \in 1 .. Len(code.rx) - 1 : code'.rx[n] = code.rx[n + 1]
    BY <2>0, <2>2, Tailed
  <2> HIDE DEF x
  <2>9. /\ Len(walk'.bytes) = Len(walk.bytes) + 1 /\ Len(walk.bytes) \in Nat
        /\ \A n \in 1 .. Len(walk.bytes) : walk'.bytes[n] = walk.bytes[n]
        /\ walk'.bytes[Len(walk.bytes) + 1] = x
    BY <2>0, <2>1, <2>8, Appended
  <2>10. Len(code'.rx) + Len(walk'.bytes) = Got'
    <3>1. Len(code.rx) + Len(walk.bytes) = Got
      BY <2>3 DEF CleanInv
    <3>2. \A a, b \in Nat : (a - 1) + (b + 1) = a + b
      OBVIOUS
    <3>. QED
      BY <3>1, <3>2, <2>5, <2>8, <2>9
  <2>11. x = I2cBus!Contents(I2cBus!Told(Bytes), Len(walk.bytes) + 1)
    BY <2>3, <2>8 DEF CleanInv
  <2>12. ASSUME NEW n \in 1 .. Len(walk'.bytes)
         PROVE  walk'.bytes[n] = I2cBus!Contents(I2cBus!Told(Bytes), n)
    <3>1. CASE n = Len(walk.bytes) + 1
      BY <3>1, <2>9, <2>11
    <3>2. CASE n # Len(walk.bytes) + 1
      <4>1. n \in 1 .. Len(walk.bytes)
        BY <2>9, <3>2
      <4>. QED
        BY <4>1, <2>3, <2>9 DEF CleanInv
    <3>. QED
      BY <3>1, <3>2
  <2>13. ASSUME NEW n \in 1 .. Len(code'.rx)
         PROVE  code'.rx[n] = I2cBus!Contents(I2cBus!Told(Bytes), Len(walk'.bytes) + n)
    <3>1. n + 1 \in 1 .. Len(code.rx) /\ code'.rx[n] = code.rx[n + 1]
      BY <2>8
    <3>2. code.rx[n + 1] = I2cBus!Contents(I2cBus!Told(Bytes), Len(walk.bytes) + (n + 1))
      BY <3>1, <2>3 DEF CleanInv
    <3>3. Len(walk.bytes) + (n + 1) = Len(walk'.bytes) + n
      <4>. QED
        <5> DEFINE a == Len(walk.bytes)
        <5>1. a \in Nat /\ n \in Int /\ Len(walk'.bytes) = a + 1
          BY <2>9, <2>13
        <5> HIDE DEF a
        <5>2. a + (n + 1) = (a + 1) + n
          BY <5>1
        <5>. QED
          BY <5>1, <5>2 DEF a
    <3>. QED
      BY <3>1, <3>2, <3>3
  <2>. QED
    BY <1>5, <2>1, <2>2, <2>3, <2>4, <2>5, <2>6, <2>7, <2>10, <2>12, <2>13 DEF CleanInv
<1>6. ASSUME walk' = I2cBus!To(walk'.pc), UNCHANGED <<source, code>>, InTransfer,
             walk'.pc = "check" /\ walk.clean /\ ~code.abort => code.tx = <<>>
      PROVE  QueueInv'
  <2> SUFFICES ASSUME walk'.clean, ~code'.abort PROVE CleanInv'
    BY DEF QueueInv
  <2>1. /\ walk'.t = walk.t /\ walk'.clean = walk.clean
        /\ walk'.sent = walk.sent /\ walk'.queued = walk.queued /\ walk'.bytes = walk.bytes
    BY <1>0, <1>6 DEF I2cBus!To, Walks
  <2>3. CleanInv /\ (walk'.pc = "check" => code.tx = <<>>)
    BY <1>0, <1>6, <2>1 DEF QueueInv
  <2>4. Bytes' = Bytes /\ Answered' = Answered /\ I2cBus!Transfer' = I2cBus!Transfer
    BY <2>1, <1>6 DEF Bytes, Answered, I2cBus!Transfer
  <2>5. Issued' = Issued /\ Carried' = Carried /\ Got' = Got
    BY <2>1, <2>4, <1>6 DEF Issued, Carried, Got
  <2>6. \A k : Command(k)' = Command(k)
    BY <2>4 DEF Command
  <2>7. DeviceInv'
    BY <1>6, <2>3, <2>4, <2>5 DEF DeviceInv, CleanInv
  <2>. QED
    BY <1>6, <2>1, <2>3, <2>4, <2>5, <2>6, <2>7 DEF CleanInv
<1>7. ASSUME NEW p \in {"take", "queue"}, Goes(p), InTransfer
      PROVE  QueueInv'
  <2>1. walk' = I2cBus!To(walk'.pc) /\ walk'.pc # "check"
    BY <1>0, <1>7 DEF Goes, I2cBus!To, Walks
  <2>. QED
    BY <1>6, <1>7, <2>1 DEF Goes
<1>8. CASE walk.pc = "taking" /\ Len(walk.bytes) >= I2cBus!Transfer.into /\ Goes("check")
  <2>1. walk' = I2cBus!To(walk'.pc) /\ InTransfer
    BY <1>0, <1>8 DEF Goes, I2cBus!To, Walks, InTransfer
  <2>2. ASSUME walk.clean, ~code.abort, code.tx # <<>>
        PROVE  FALSE
    <3>1. /\ Carried \in Nat /\ Carried + 1 <= Issued /\ Issued <= Bytes + Answered
          /\ Bytes \in Nat /\ Answered \in Nat /\ Issued \in Nat /\ CleanInv
      BY <2>1, <2>2, Carrying
    <3>2. Len(walk.bytes) \in Nat /\ Len(code.rx) \in Nat /\ Len(walk.bytes) >= Answered /\ Len(walk.bytes) > 0
      <4>1. walk.bytes # <<>> /\ walk.bytes \in Seq(Datums) /\ code.rx \in Seq(Datums)
        BY <1>0, <1>8, <2>1 DEF PlaceInv, Walks, Codes
      <4>. QED
        BY <4>1, <1>8, Tailed DEF Answered
    <3>3. Len(code.rx) + Len(walk.bytes) = Got
      BY <3>1 DEF CleanInv
    <3>4. Got > 0
      <4>1. \A r, n \in Nat : n > 0 => r + n > 0
        OBVIOUS
      <4>. QED
        BY <4>1, <3>2, <3>3
    <3>5. Got = Carried - Bytes
      BY <3>1, <3>4 DEF Got
    <3>6. \A c, i, b, a, n, r \in Nat : c + 1 <= i /\ i <= b + a /\ n >= a /\ r + n = c - b => FALSE
      OBVIOUS
    <3>. QED
      BY <3>1, <3>2, <3>3, <3>5, <3>6
  <2>. QED
    BY <1>6, <1>8, <2>1, <2>2 DEF Goes
<1>9. CASE I2cBus!Drain /\ UNCHANGED source
  <2>1. walk' = I2cBus!To(walk'.pc) /\ InTransfer /\ code.tx = <<>> /\ UNCHANGED code
    BY <1>0, <1>9 DEF I2cBus!Drain, I2cBus!At, I2cBus!Idle, I2cBus!To, Walks, InTransfer
  <2>. QED
    BY <1>6, <1>9, <2>1
<1>10. ASSUME NEW ok, I2cBus!Ended(ok)
       PROVE  QueueInv'
  BY <1>0, <1>10 DEF I2cBus!Ended, I2cBus!To, Walks, QueueInv, InTransfer
<1>11. CASE I2cBus!LeaveReset /\ UNCHANGED <<source, walk, answers>>
  <2>1. /\ code'.abort = code.abort /\ code'.tx = code.tx /\ code'.rx = code.rx
        /\ code'.heard = code.heard /\ code'.given = code.given /\ code'.kept = code.kept
    BY <1>0, <1>11 DEF I2cBus!LeaveReset, Codes
  <2>4. Bytes' = Bytes /\ Answered' = Answered /\ I2cBus!Transfer' = I2cBus!Transfer
    BY <1>11 DEF Bytes, Answered, I2cBus!Transfer
  <2>5. Issued' = Issued /\ Carried' = Carried /\ Got' = Got
    BY <2>1, <2>4, <1>11 DEF Issued, Carried, Got
  <2>6. \A k : Command(k)' = Command(k)
    BY <2>4 DEF Command
  <2>7. DeviceInv' <=> DeviceInv
    BY <2>1, <2>4, <2>5 DEF DeviceInv
  <2>. QED
    BY <1>0, <1>11, <2>1, <2>4, <2>5, <2>6, <2>7 DEF CleanInv, QueueInv, InTransfer
<1>12. CASE I2cBus!CarryWrite /\ UNCHANGED <<source, walk, answers>>
  <2>1. code'.abort = code.abort
    BY <1>0, <1>12 DEF I2cBus!CarryWrite, I2cBus!Ends, Codes
  <2>. QED
    BY <1>12, <2>1, Writing DEF QueueInv, InTransfer
<1>13. CASE I2cBus!CarryRead /\ UNCHANGED <<source, walk, answers>>
  <2>1. code'.abort = code.abort
    BY <1>0, <1>13 DEF I2cBus!CarryRead, I2cBus!Ends, Codes
  <2>. QED
    BY <1>13, <2>1, Reading DEF QueueInv, InTransfer
<1>14. CASE I2cBus!NobodyAnswers \/ I2cBus!LoseArbitration
  <2>1. code'.abort
    BY <1>0, <1>14 DEF I2cBus!NobodyAnswers, I2cBus!LoseArbitration, I2cBus!Flushed, Codes
  <2>. QED
    BY <2>1 DEF QueueInv
<1>15. walk.pc \in {"taking", "take", "queue"} => InTransfer
  BY DEF InTransfer
<1>. QED
  BY <1>0, <1>1, <1>2, <1>3, <1>4, <1>5, <1>7, <1>8, <1>9, <1>10, <1>11, <1>12, <1>13, <1>14, <1>15, Steps

-----------------------------------------------------------------------------
(***************************************************************************)
(* What an abandoned transfer leaves, and what a whole one brings.         *)
(***************************************************************************)
\* Room, of the queues of a transfer that began with them empty.
LEMMA GotIs ==
  ASSUME Carried \in Nat, Bytes \in Nat
  PROVE  (Carried >= Bytes => Got = Carried - Bytes) /\ (Carried < Bytes => Got = 0)
<1>1. \A c, b \in Nat : (c >= b => (IF c > b THEN c - b ELSE 0) = c - b)
                         /\ (c < b => (IF c > b THEN c - b ELSE 0) = 0)
  OBVIOUS
<1>. QED
  BY <1>1 DEF Got

\* A transfer that is abandoned leaves no more reads than there is room for.
LEMMA CleanHasRoom ==
  ASSUME I2cInv, InTransfer, walk.clean, ~code.abort
  PROVE  Room
<1>0. walk \in Walks /\ code \in Codes /\ I2cTypes /\ CleanInv /\ PlaceInv
  BY DEF I2cInv, I2cTypes, QueueInv
<1>1. Bytes \in Nat /\ Answered \in Nat
  BY <1>0, TransferTypes DEF I2cTypes, Bytes, Answered
<1>2. /\ walk.sent \in Nat /\ walk.queued \in Nat /\ Len(code.tx) \in Nat
      /\ Len(walk.bytes) \in Nat /\ Len(code.rx) \in Nat
  BY <1>0 DEF Codes, Walks
<1>3. /\ Carried \in Nat /\ Carried = Issued - Len(code.tx) /\ Issued \in Nat /\ Issued = walk.sent + walk.queued
      /\ Len(code.rx) + Len(walk.bytes) = Got
  <2>1. Carried \in Nat /\ Len(code.rx) + Len(walk.bytes) = Got
    BY <1>0 DEF CleanInv
  <2>2. Issued \in Nat /\ Issued = walk.sent + walk.queued
    BY <1>2 DEF Issued
  <2>. QED
    BY <2>1, <2>2 DEF Carried
<1>4. /\ walk.queued - Len(walk.bytes) <= FifoDepth /\ walk.sent <= Bytes
      /\ walk.sent = Bytes \/ walk.queued = 0
  BY <1>0, <1>1, <1>2 DEF PlaceInv
<1>5. \A i \in 1 .. Len(code.tx) : code.tx[i].rd <=> Carried + i > Bytes
  <2> SUFFICES ASSUME NEW i \in 1 .. Len(code.tx) PROVE code.tx[i].rd <=> Carried + i > Bytes
    OBVIOUS
  <2>1. Carried + i \in Nat \ {0} /\ code.tx[i] = Command(Carried + i)
    <3>1. code.tx[i] = Command(Carried + i)
      BY <1>0 DEF CleanInv
    <3>2. i \in Nat /\ i > 0
      BY <1>2
    <3>. QED
      BY <3>1, <3>2, <1>3
  <2>. QED
    BY <2>1, <1>1, Commanded
<1>6. CASE Carried >= Bytes
  <2>1. Len(code.rx) + Len(walk.bytes) = Carried - Bytes
    BY <1>1, <1>3, <1>6, GotIs
  <2>2. Len(code.rx) + (Len(code.tx) - 0) <= FifoDepth
    <3>2. Carried = Issued - Len(code.tx) /\ Issued = walk.sent + walk.queued /\ walk.sent <= Bytes
          /\ Len(code.rx) + Len(walk.bytes) = Carried - Bytes /\ walk.queued - Len(walk.bytes) <= FifoDepth
      BY <2>1, <1>3, <1>4
    <3>3. /\ Carried \in Nat /\ Issued \in Nat /\ Bytes \in Nat /\ walk.sent \in Nat /\ walk.queued \in Nat
          /\ Len(walk.bytes) \in Nat /\ Len(code.rx) \in Nat /\ Len(code.tx) \in Nat /\ FifoDepth \in Nat
      BY <1>1, <1>2, <1>3, FifoIsANumber
    <3>. QED
      <4> DEFINE c == Carried
                 i == Issued
                 b == Bytes
                 s == walk.sent
                 q == walk.queued
                 n == Len(walk.bytes)
                 r == Len(code.rx)
                 t == Len(code.tx)
      <4>1. c = i - t /\ i = s + q /\ s <= b /\ r + n = c - b /\ q - n <= FifoDepth
        BY <3>2
      <4>2. /\ c \in Nat /\ i \in Nat /\ b \in Nat /\ s \in Nat /\ q \in Nat /\ n \in Nat
            /\ r \in Nat /\ t \in Nat /\ FifoDepth \in Nat
        BY <3>3
      <4> HIDE DEF c, i, b, s, q, n, r, t
      <4>3. r + (t - 0) <= FifoDepth
        BY <4>1, <4>2
      <4>. QED
        BY <4>3 DEF r, t
  <2>3. \A i \in 1 .. Len(code.tx) : code.tx[i].rd <=> i > 0
    BY <1>1, <1>2, <1>3, <1>5, <1>6
  <2>4. 0 \in 0 .. Len(code.tx)
    BY <1>2
  <2>. QED
    BY <2>2, <2>3, <2>4 DEF Room
<1>7. CASE Carried < Bytes
  <2>1. Len(code.rx) = 0 /\ Len(walk.bytes) = 0
    <3>1. Len(code.rx) + Len(walk.bytes) = 0
      BY <1>1, <1>3, <1>7, GotIs
    <3>2. \A a, b \in Nat : a + b = 0 => a = 0 /\ b = 0
      OBVIOUS
    <3>. QED
      BY <3>1, <3>2, <1>2
  <2>2. CASE Issued <= Bytes
    <3>1. \A i \in 1 .. Len(code.tx) : code.tx[i].rd <=> i > Len(code.tx)
      BY <1>1, <1>2, <1>3, <1>5, <2>2
    <3>2. Len(code.rx) + (Len(code.tx) - Len(code.tx)) <= FifoDepth
      BY <1>2, <2>1, FifoIsANumber
    <3>3. Len(code.tx) \in 0 .. Len(code.tx)
      BY <1>2
    <3>. QED
      BY <3>1, <3>2, <3>3 DEF Room
  <2>3. CASE Issued > Bytes
    <3> DEFINE w == Bytes - Carried
    <3>1. w \in 0 .. Len(code.tx) /\ walk.sent = Bytes
      BY <1>1, <1>2, <1>3, <1>4, <1>7, <2>3
    <3>2. \A i \in 1 .. Len(code.tx) : code.tx[i].rd <=> i > w
      BY <1>1, <1>2, <1>3, <1>5
    <3>3. Len(code.rx) + (Len(code.tx) - w) <= FifoDepth
      <4>1. \A c, i, b, q, n, r, t, f \in Nat :
              c = i - t /\ i = b + q /\ r = 0 /\ n = 0 /\ q - n <= f => r + (t - (b - c)) <= f
        OBVIOUS
      <4>. QED
        BY <4>1, <3>1, <2>1, <1>1, <1>2, <1>3, <1>4, FifoIsANumber
    <3> HIDE DEF w
    <3>. QED
      BY <3>1, <3>2, <3>3 DEF Room
  <2>. QED
    BY <2>2, <2>3, <1>1, <1>3
<1>. QED
  BY <1>1, <1>3, <1>6, <1>7

\* Carrying a command leaves room for the others; a byte that is read has its own.
LEMMA RoomCarries ==
  ASSUME code \in Codes, Room, I2cBus!CarryWrite \/ I2cBus!CarryRead
  PROVE  Room' /\ (I2cBus!CarryRead => Len(code.rx) < FifoDepth)
<1>0. code.tx # <<>> /\ code'.tx = Tail(code.tx)
  BY DEF I2cBus!CarryWrite, I2cBus!CarryRead, I2cBus!Ends, Codes
<1>1. PICK w \in 0 .. Len(code.tx) :
        /\ \A i \in 1 .. Len(code.tx) : code.tx[i].rd <=> i > w
        /\ Len(code.rx) + (Len(code.tx) - w) <= FifoDepth
  BY DEF Room
<1>2. /\ Head(code.tx) = code.tx[1] /\ Len(code.tx) \in Nat /\ Len(code.tx) > 0
      /\ Len(code'.tx) = Len(code.tx) - 1
      /\ \A i \in 1 .. Len(code.tx) - 1 : code'.tx[i] = code.tx[i + 1]
      /\ Len(code.rx) \in Nat /\ code.rx \in Seq(Datums)
  BY <1>0, Tailed DEF Codes
<1>3. CASE I2cBus!CarryWrite
  <2>1. ~code.tx[1].rd /\ code'.rx = code.rx
    BY <1>2, <1>3 DEF I2cBus!CarryWrite, I2cBus!Ends, Codes
  <2>2. w > 0
    BY <1>1, <1>2, <2>1
  <2> DEFINE v == w - 1
  <2>3. v \in 0 .. Len(code'.tx) /\ Len(code'.rx) + (Len(code'.tx) - v) <= FifoDepth
    <3>1. \A r, t, u \in Nat : \A f \in Nat :
            u > 0 /\ u <= t /\ r + (t - u) <= f => u - 1 \in 0 .. t - 1 /\ r + ((t - 1) - (u - 1)) <= f
      OBVIOUS
    <3>. QED
      <4>0. \A n \in Nat : \A u \in 0 .. n : u \in Nat /\ u <= n
        OBVIOUS
      <4>1. w \in Nat /\ w <= Len(code.tx) /\ Len(code.rx) + (Len(code.tx) - w) <= FifoDepth
        BY <4>0, <1>1, <1>2, Zenon
      <4>2. w - 1 \in 0 .. Len(code.tx) - 1 /\ Len(code.rx) + ((Len(code.tx) - 1) - (w - 1)) <= FifoDepth
        BY <3>1, <4>1, <1>2, <2>2, FifoIsANumber
      <4>. QED
        BY <4>2, <1>2, <2>1
  <2>4. \A i \in 1 .. Len(code'.tx) : code'.tx[i].rd <=> i > v
    <3> SUFFICES ASSUME NEW i \in 1 .. Len(code'.tx) PROVE code'.tx[i].rd <=> i > v
      OBVIOUS
    <3>1. i + 1 \in 1 .. Len(code.tx) /\ code'.tx[i] = code.tx[i + 1]
      BY <1>2
    <3>. QED
      BY <3>1, <1>1
  <2> HIDE DEF v
  <2>5. ~I2cBus!CarryRead
    BY <1>2, <2>1 DEF I2cBus!CarryRead
  <2>. QED
    BY <2>3, <2>4, <2>5 DEF Room
<1>4. CASE I2cBus!CarryRead
  <2>1. code.tx[1].rd
    BY <1>2, <1>4 DEF I2cBus!CarryRead
  <2>2. w = 0
    BY <1>1, <1>2, <2>1
  <2>3. Len(code.rx) < FifoDepth
    <3>1. \A r, t, f \in Nat : t > 0 /\ r + (t - 0) <= f => r < f
      OBVIOUS
    <3>2. Len(code.rx) + (Len(code.tx) - 0) <= FifoDepth
      BY <1>1, <2>2
    <3>. QED
      BY <3>1, <3>2, <1>2, FifoIsANumber
  <2>4. code'.rx = Append(code.rx, I2cBus!Contents(code.heard, code.given + 1))
    BY <1>4, <2>3 DEF I2cBus!CarryRead, I2cBus!Ends, Codes
  <2>5. I2cBus!Contents(code.heard, code.given + 1) \in Datums
    BY DEF I2cBus!Contents, Datums, Codes
  <2>6. Len(code'.rx) = Len(code.rx) + 1
    <3> DEFINE x == I2cBus!Contents(code.heard, code.given + 1)
    <3> HIDE DEF x
    <3>. QED
      BY <1>2, <2>4, <2>5, Appended DEF x
  <2>7. Len(code'.rx) + (Len(code'.tx) - 0) <= FifoDepth
    <3>1. \A r, t, f \in Nat : r + (t - 0) <= f => (r + 1) + ((t - 1) - 0) <= f
      OBVIOUS
    <3>. QED
      BY <3>1, <1>1, <1>2, <2>2, <2>6, FifoIsANumber
  <2>8. \A i \in 1 .. Len(code'.tx) : code'.tx[i].rd <=> i > 0
    <3> SUFFICES ASSUME NEW i \in 1 .. Len(code'.tx) PROVE code'.tx[i].rd <=> i > 0
      OBVIOUS
    <3>1. i + 1 \in 1 .. Len(code.tx) /\ code'.tx[i] = code.tx[i + 1]
      BY <1>2
    <3>. QED
      BY <3>1, <1>1, <2>2
  <2>9. 0 \in 0 .. Len(code'.tx)
    BY <1>2
  <2>. QED
    BY <2>3, <2>7, <2>8, <2>9 DEF Room
<1>. QED
  BY <1>3, <1>4

\* With an empty queue there is room if there was any.
LEMMA RoomEmpties ==
  ASSUME code \in Codes, Room, code'.tx = <<>>, code'.rx = code.rx
  PROVE  Room'
<1>1. PICK w \in 0 .. Len(code.tx) : Len(code.rx) + (Len(code.tx) - w) <= FifoDepth
  BY DEF Room
<1>2. Len(code.tx) \in Nat /\ Len(code.rx) \in Nat /\ Len(code'.tx) = 0
  BY DEF Codes
<1>3. Len(code'.rx) + (Len(code'.tx) - 0) <= FifoDepth
  <2>1. \A r, t, u, f \in Nat : u <= t /\ r + (t - u) <= f => r + (0 - 0) <= f
    OBVIOUS
  <2>. QED
    <3> DEFINE n == Len(code.tx)
    <3>0. w \in 0 .. n /\ n \in Nat /\ Len(code.rx) + (n - w) <= FifoDepth
      BY <1>1, <1>2
    <3> HIDE DEF n
    <3>1. w \in Nat /\ w <= n
      BY <3>0
    <3>2. Len(code.rx) + (0 - 0) <= FifoDepth
      BY <2>1, <3>0, <3>1, <1>2, FifoIsANumber
    <3>. QED
      BY <3>2, <1>2
<1>. QED
  BY <1>2, <1>3 DEF Room

\* Whether anything is lost, where the answers stay as they are.
LEMMA RoomStays ==
  ASSUME code'.rx = code.rx, code'.tx = code.tx
  PROVE  Room' <=> Room
  BY DEF Room

\* No byte finds the receive queue full.
LEMMA LostKept ==
  ASSUME I2cInv, I2cBus!I2cNext
  PROVE  LostInv'
<1>0. walk \in Walks /\ code \in Codes /\ I2cTypes /\ LostInv /\ AbortInv
  BY DEF I2cInv, I2cTypes
<1>r. AllClean => Room
  BY <1>0, CleanHasRoom DEF LostInv, AllClean
<1>1. ASSUME UNCHANGED answers, code'.lost = code.lost, code'.rx = code.rx, code'.tx = code.tx,
             code'.abort = code.abort, walk'.clean = walk.clean, InTransfer' <=> InTransfer
      PROVE  LostInv'
  BY <1>0, <1>1, RoomStays DEF LostInv, AllClean
<1>2. CASE walk.pc \in {"timing", "wake", "reset", "configure"} /\ (I2cBus!FirmwareTiming \/ I2cBus!Wake \/ I2cBus!Reset \/ I2cBus!NoController \/ I2cBus!Configure)
  <2>1. walk'.clean = walk.clean /\ ~InTransfer /\ ~InTransfer'
    BY <1>0, <1>2 DEF I2cBus!FirmwareTiming, I2cBus!Wake, I2cBus!Reset, I2cBus!NoController, I2cBus!Configure, I2cBus!To, Walks, InTransfer
  <2>2. code'.lost = code.lost /\ code'.rx = code.rx /\ code'.tx = code.tx /\ code'.abort = code.abort
        /\ UNCHANGED answers
    BY <1>0, <1>2 DEF I2cBus!FirmwareTiming, I2cBus!Wake, I2cBus!Reset, I2cBus!NoController, I2cBus!Configure, Codes
  <2>. QED
    BY <1>1, <2>1, <2>2
<1>3. CASE I2cBus!Aim
  <2>1. ~InTransfer /\ InTransfer'
    BY <1>0, <1>3 DEF I2cBus!Aim, I2cBus!At, I2cBus!To, Walks, InTransfer
  <2>2. code'.lost = code.lost /\ ~code'.abort /\ UNCHANGED answers
    BY <1>0, <1>3 DEF I2cBus!Aim, Codes
  <2>. QED
    BY <1>0, <2>1, <2>2 DEF LostInv, AllClean
<1>4. CASE I2cBus!Push \/ I2cBus!Queue
  <2>1. InTransfer /\ InTransfer' /\ walk'.clean = walk.clean
    BY <1>0, <1>4 DEF I2cBus!Push, I2cBus!Queue, I2cBus!At, I2cBus!To, Walks, InTransfer
  <2>2. code'.lost = code.lost /\ code'.abort = code.abort /\ UNCHANGED answers
        /\ (code.abort => code'.rx = code.rx /\ code'.tx = code.tx)
    BY <1>0, <1>4 DEF I2cBus!Push, I2cBus!Queue, I2cBus!Given, Codes
  <2>. QED
    BY <1>0, <2>1, <2>2, RoomStays DEF LostInv, AllClean
<1>5. CASE I2cBus!Take
  <2>1. InTransfer /\ InTransfer' /\ walk'.clean = walk.clean
    BY <1>0, <1>5 DEF I2cBus!Take, I2cBus!At, I2cBus!To, Walks, InTransfer
  <2>2. code'.lost = code.lost /\ code'.abort = code.abort /\ UNCHANGED answers
        /\ code'.tx = code.tx /\ code'.rx = Tail(code.rx) /\ code.rx # <<>>
    BY <1>0, <1>5 DEF I2cBus!Take, Codes
  <2>3. ASSUME Room, code.tx = <<>>
        PROVE  Room'
    <3>1. /\ Len(code.rx) \in Nat /\ Len(code.rx) > 0 /\ Len(code'.rx) = Len(code.rx) - 1
          /\ Len(code.tx) = 0 /\ Len(code'.tx) = 0
      BY <1>0, <2>2, <2>3, Tailed DEF Codes
    <3>2. Len(code.rx) + (0 - 0) <= FifoDepth
      BY <2>3, <3>1 DEF Room
    <3>3. Len(code'.rx) + (Len(code'.tx) - 0) <= FifoDepth
      <4>1. \A r, f \in Nat : r + (0 - 0) <= f => (r - 1) + (0 - 0) <= f
        OBVIOUS
      <4>. QED
        BY <4>1, <3>1, <3>2, FifoIsANumber
    <3>. QED
      BY <3>1, <3>3 DEF Room
  <2>. QED
    BY <1>0, <2>1, <2>2, <2>3 DEF LostInv, AllClean, AbortInv
<1>6. ASSUME NEW p \in {"take", "queue", "check"}, Goes(p), InTransfer
      PROVE  LostInv'
  <2>1. InTransfer' /\ walk'.clean = walk.clean
    BY <1>0, <1>6 DEF Goes, I2cBus!To, Walks, InTransfer
  <2>. QED
    BY <1>1, <1>6, <2>1 DEF Goes
<1>7. ASSUME NEW ok, I2cBus!Ended(ok), InTransfer
      PROVE  LostInv'
  <2>1. walk'.clean = walk.clean /\ ~InTransfer' /\ UNCHANGED code
    BY <1>0, <1>7 DEF I2cBus!Ended, I2cBus!To, Walks, InTransfer
  <2> DEFINE e == [t |-> walk.t, ok |-> ok, clean |-> walk.clean, bytes |-> walk.bytes]
  <2>2. answers' = Append(answers, e) /\ answers \in Seq(Endings)
    BY <1>0, <1>7 DEF I2cBus!Ended, I2cTypes
  <2>3. e.clean = walk.clean
    OBVIOUS
  <2>4. (\A i \in DOMAIN answers' : answers'[i].clean) => walk.clean /\ \A i \in DOMAIN answers : answers[i].clean
    <3> HIDE DEF e
    <3>1. DOMAIN answers' = 1 .. Len(answers) + 1 /\ DOMAIN answers = 1 .. Len(answers) /\ Len(answers) \in Nat
      BY <2>2
    <3>2. answers'[Len(answers) + 1] = e /\ \A i \in 1 .. Len(answers) : answers'[i] = answers[i]
      BY <2>2
    <3>. QED
      BY <2>3, <3>1, <3>2
  <2>5. Room' <=> Room
    BY <2>1, RoomStays
  <2>. QED
    BY <1>0, <1>r, <2>1, <2>4, <2>5 DEF LostInv, AllClean
<1>8. CASE I2cBus!LeaveReset /\ UNCHANGED <<source, walk, answers>>
  BY <1>0, <1>1, <1>8 DEF I2cBus!LeaveReset, Codes, InTransfer
<1>9. CASE (I2cBus!CarryWrite \/ I2cBus!CarryRead) /\ UNCHANGED <<source, walk, answers>>
  <2>1. code'.abort = code.abort /\ ~code.abort
    BY <1>0, <1>9 DEF I2cBus!CarryWrite, I2cBus!CarryRead, I2cBus!Ends, Codes, AbortInv
  <2>2. AllClean => Room' /\ (I2cBus!CarryRead => Len(code.rx) < FifoDepth)
    BY <1>0, <1>9, <1>r, RoomCarries
  <2>3. I2cBus!CarryRead /\ Len(code.rx) < FifoDepth => code'.lost = code.lost
    <3>1. I2cBus!CarryRead => code'.lost = (code.lost \/ Len(code.rx) = FifoDepth)
      BY <1>0 DEF I2cBus!CarryRead, I2cBus!Ends, Codes
    <3>2. Len(code.rx) < FifoDepth => Len(code.rx) # FifoDepth
      BY <1>0, FifoIsANumber DEF Codes
    <3>3. code.lost \in BOOLEAN
      BY <1>0 DEF Codes
    <3>. QED
      BY <3>1, <3>2, <3>3
  <2>4. I2cBus!CarryWrite => code'.lost = code.lost
    BY <1>0 DEF I2cBus!CarryWrite, I2cBus!Ends, Codes
  <2>. QED
    BY <1>0, <1>9, <2>1, <2>2, <2>3, <2>4 DEF LostInv, AllClean, InTransfer
<1>10. CASE (I2cBus!NobodyAnswers \/ I2cBus!LoseArbitration) /\ UNCHANGED <<walk, answers>>
  <2>1. code'.tx = <<>> /\ code'.rx = code.rx /\ code'.lost = code.lost
    BY <1>0, <1>10 DEF I2cBus!NobodyAnswers, I2cBus!LoseArbitration, I2cBus!Flushed, Codes
  <2>2. AllClean => Room'
    BY <1>0, <1>r, <2>1, RoomEmpties
  <2>. QED
    BY <1>0, <1>10, <2>1, <2>2 DEF LostInv, AllClean, InTransfer
<1>11. walk.pc \in {"taking", "take", "queue"} => InTransfer
  BY DEF InTransfer
<1>12. I2cBus!Drain /\ UNCHANGED source => Goes("check") /\ InTransfer
  BY DEF I2cBus!Drain, I2cBus!At, Goes, InTransfer
<1>. QED
  BY <1>0, <1>2, <1>3, <1>4, <1>5, <1>6, <1>7, <1>8, <1>9, <1>10, <1>11, <1>12, Steps

\* A transfer that is whole when it ends.
LEMMA EndsWhole ==
  ASSUME I2cInv, walk.pc = "check", ~code.abort, walk.clean
  PROVE  /\ I2cBus!Transfer.address \in source.present
         /\ walk.bytes = [n \in 1 .. I2cBus!Transfer.into |-> I2cBus!Contents(I2cBus!Told(I2cBus!Transfer.out), n)]
         /\ I2cBus!Transfer.into = 0 => code.tx = <<>> /\ code.kept = I2cBus!Told(I2cBus!Transfer.out)
<1>0. walk \in Walks /\ code \in Codes /\ I2cTypes /\ CleanInv /\ PlaceInv /\ InTransfer
  BY DEF I2cInv, I2cTypes, QueueInv, InTransfer
<1>1. Bytes \in Nat /\ Answered \in Nat
  BY <1>0, TransferTypes DEF I2cTypes, Bytes, Answered
<1>2. walk.bytes \in Seq(Datums) /\ walk.queued \in Nat /\ walk.sent \in Nat
  BY <1>0 DEF Walks
<1>3. /\ Len(walk.bytes) = Answered /\ walk.queued = Answered /\ walk.sent = Bytes /\ Bytes + Answered > 0
  BY <1>0, <1>1, <1>2 DEF PlaceInv
<1>4. code.tx = <<>>
  BY <1>0 DEF CleanInv
<1>5. Carried = Bytes + Answered /\ Carried > 0
  <2>1. Len(code.tx) = 0
    BY <1>4
  <2>2. Issued = Bytes + Answered
    BY <1>3 DEF Issued
  <2>. QED
    BY <2>1, <2>2, <1>1, <1>3 DEF Carried
<1>6. I2cBus!Transfer.address \in source.present /\ code.kept = I2cBus!Told(Bytes)
  BY <1>0, <1>5 DEF CleanInv, DeviceInv
<1>7. \A n \in 1 .. Answered : walk.bytes[n] = I2cBus!Contents(I2cBus!Told(Bytes), n)
  BY <1>0, <1>3 DEF CleanInv
<1> DEFINE g == [n \in 1 .. Answered |-> I2cBus!Contents(I2cBus!Told(Bytes), n)]
<1>8. walk.bytes = g
  <2>1. walk.bytes = [n \in 1 .. Answered |-> walk.bytes[n]]
    BY <1>2, <1>3
  <2>. QED
    BY <2>1, <1>7
<1>. QED
  BY <1>4, <1>6, <1>8 DEF Bytes, Answered

\* What was recorded of a transfer stays true, and so does what its device keeps.
LEMMA AnswersKept ==
  ASSUME I2cInv, I2cBus!I2cNext
  PROVE  AnswersInv'
<1>0. walk \in Walks /\ code \in Codes /\ source \in I2cBus!Buses /\ I2cTypes /\ AnswersInv /\ StartInv
  BY DEF I2cInv, I2cTypes
<1>1. ASSUME UNCHANGED answers, source'.transfers = source.transfers, source'.present = source.present,
             KeptInv'
      PROVE  AnswersInv'
  BY <1>0, <1>1 DEF AnswersInv, Whole
<1>2. CASE walk.pc \in {"timing", "wake", "reset", "configure"} /\ UNCHANGED source
             /\ (I2cBus!FirmwareTiming \/ I2cBus!Wake \/ I2cBus!Reset \/ I2cBus!NoController \/ I2cBus!Configure)
  <2>1. UNCHANGED answers /\ answers = <<>>
    BY <1>0, <1>2 DEF I2cBus!FirmwareTiming, I2cBus!Wake, I2cBus!Reset, I2cBus!NoController, I2cBus!Configure, StartInv
  <2>. QED
    BY <1>1, <1>2, <2>1 DEF KeptInv
<1>3. CASE (I2cBus!Aim \/ I2cBus!Push \/ I2cBus!Queue \/ I2cBus!Take \/ I2cBus!Drain) /\ UNCHANGED source
  <2>1. UNCHANGED answers
    BY <1>3 DEF I2cBus!Aim, I2cBus!Push, I2cBus!Queue, I2cBus!Take, I2cBus!Drain
  <2>2. walk'.pc # "next"
    <3>1. CASE I2cBus!Aim
      BY <1>0, <3>1 DEF I2cBus!Aim, I2cBus!To, Walks
    <3>2. CASE I2cBus!Push
      BY <1>0, <3>2 DEF I2cBus!Push, I2cBus!To, Walks
    <3>3. CASE I2cBus!Queue
      BY <1>0, <3>3 DEF I2cBus!Queue, I2cBus!At, I2cBus!To, Walks
    <3>4. CASE I2cBus!Take \/ I2cBus!Drain
      BY <1>0, <3>4 DEF I2cBus!Take, I2cBus!Drain, I2cBus!To, Walks
    <3>. QED
      BY <3>1, <3>2, <3>3, <3>4, <1>3
  <2>. QED
    BY <1>1, <1>3, <2>1, <2>2 DEF KeptInv
<1>4. ASSUME NEW p \in {"take", "queue", "check"}, Goes(p)
      PROVE  AnswersInv'
  <2>1. walk'.pc # "next"
    BY <1>0, <1>4 DEF Goes, I2cBus!To, Walks
  <2>. QED
    BY <1>1, <1>4, <2>1 DEF KeptInv, Goes
<1>5. ASSUME NEW ok \in BOOLEAN, I2cBus!Ended(ok), InTransfer, UNCHANGED source,
             ok => walk.pc = "check" /\ ~code.abort
      PROVE  AnswersInv'
  <2>1. walk'.pc = "next" /\ UNCHANGED code
    BY <1>0, <1>5 DEF I2cBus!Ended, I2cBus!To, Walks
  <2> DEFINE e == [t |-> walk.t, ok |-> ok, clean |-> walk.clean, bytes |-> walk.bytes]
             n == Len(answers)
  <2>2. answers' = Append(answers, e) /\ answers \in Seq(Endings)
    BY <1>0, <1>5 DEF I2cBus!Ended, I2cTypes
  <2>3. e.t = walk.t /\ e.ok = ok /\ e.clean = walk.clean /\ e.bytes = walk.bytes
    OBVIOUS
  <2> HIDE DEF e
  <2>4. /\ DOMAIN answers' = 1 .. n + 1 /\ DOMAIN answers = 1 .. n /\ n \in Nat /\ Len(answers') = n + 1
        /\ answers'[n + 1] = e /\ \A i \in 1 .. n : answers'[i] = answers[i]
    BY <2>2
  <2> HIDE DEF n
  <2>5. ok /\ walk.clean =>
          /\ I2cBus!Transfer.address \in source.present
          /\ walk.bytes = [k \in 1 .. I2cBus!Transfer.into |-> I2cBus!Contents(I2cBus!Told(I2cBus!Transfer.out), k)]
          /\ I2cBus!Transfer.into = 0 => code.tx = <<>> /\ code.kept = I2cBus!Told(I2cBus!Transfer.out)
    BY <1>5, EndsWhole
  <2>6. ASSUME NEW i \in DOMAIN answers'
        PROVE  Whole(i)'
    <3>1. CASE i = n + 1
      <4>1. answers'[i] = e /\ source'.transfers[e.t] = I2cBus!Transfer
        BY <1>5, <2>3, <2>4, <3>1 DEF I2cBus!Transfer
      <4>. QED
        BY <1>5, <2>3, <2>5, <4>1 DEF Whole
    <3>2. CASE i # n + 1
      <4>1. i \in DOMAIN answers /\ answers'[i] = answers[i]
        BY <2>4, <2>6, <3>2
      <4>2. Whole(i)
        BY <1>0, <4>1 DEF AnswersInv
      <4>. QED
        BY <1>5, <4>1, <4>2 DEF Whole
    <3>. QED
      BY <3>1, <3>2
  <2>7. KeptInv'
    <3>1. answers'[Len(answers')] = e /\ source'.transfers[e.t] = I2cBus!Transfer
      BY <1>5, <2>3, <2>4 DEF I2cBus!Transfer
    <3>. QED
      BY <1>5, <2>1, <2>3, <2>5, <3>1 DEF KeptInv
  <2>. QED
    BY <2>6, <2>7 DEF AnswersInv
<1>6. CASE I2cBus!LeaveReset /\ UNCHANGED <<source, walk, answers>>
  <2>1. code'.tx = code.tx /\ code'.kept = code.kept
    BY <1>0, <1>6 DEF I2cBus!LeaveReset, Codes
  <2>2. KeptInv'
    BY <1>0, <1>6, <2>1 DEF AnswersInv, KeptInv
  <2>. QED
    BY <1>1, <1>6, <2>2
<1>7. CASE (I2cBus!CarryWrite \/ I2cBus!CarryRead \/ I2cBus!NobodyAnswers) /\ UNCHANGED <<source, walk, answers>>
  <2>1. code.tx # <<>>
    BY <1>7 DEF I2cBus!CarryWrite, I2cBus!CarryRead, I2cBus!NobodyAnswers
  <2>2. KeptInv'
    BY <1>0, <1>7, <2>1 DEF AnswersInv, KeptInv
  <2>. QED
    BY <1>1, <1>7, <2>2
<1>8. CASE I2cBus!LoseArbitration /\ UNCHANGED <<walk, answers>>
  <2>1. code.tx # <<>>
    BY <1>8 DEF I2cBus!LoseArbitration
  <2>2. source'.transfers = source.transfers /\ source'.present = source.present
    BY <1>0, <1>8 DEF I2cBus!LoseArbitration, I2cBus!Buses
  <2>3. KeptInv'
    BY <1>0, <1>8, <2>1, <2>2 DEF AnswersInv, KeptInv
  <2>. QED
    BY <1>1, <1>8, <2>2, <2>3
<1>9. I2cBus!Drain /\ UNCHANGED source => Goes("check")
  BY DEF I2cBus!Drain, Goes
<1>10. I2cBus!Check => walk.pc = "check"
  BY DEF I2cBus!Check, I2cBus!At
<1>. QED
  BY <1>0, <1>2, <1>3, <1>4, <1>5, <1>6, <1>7, <1>8, <1>9, <1>10, Steps

\* The invariant holds of a bus that nothing has been done with.
LEMMA I2cStarts == I2cBus!I2cInit /\ source \in I2cBus!Buses => I2cInv
<1> SUFFICES ASSUME I2cBus!I2cInit, source \in I2cBus!Buses PROVE I2cInv
  OBVIOUS
<1>1. I2cTypes
  BY InitTypes
<1>2. /\ ~InTransfer /\ code.tx = <<>> /\ code.rx = <<>> /\ answers = <<>> /\ walk.pc = "timing" /\ walk.clean
      /\ walk.sent = 0 /\ walk.queued = 0 /\ walk.bytes = <<>> /\ ~code.lost /\ ~code.abort
      /\ code.target = walk.target /\ code.timing = source.timing /\ code.awake = source.awake
  BY DEF I2cBus!I2cInit, InTransfer
<1>3. Room
  <2>1. Len(code.tx) = 0 /\ Len(code.rx) = 0
    BY <1>2
  <2>2. Len(code.rx) + (Len(code.tx) - 0) <= FifoDepth
    BY <2>1, FifoIsANumber
  <2>. QED
    BY <2>1, <2>2 DEF Room
<1>4. StartInv /\ TimingInv /\ TargetInv /\ RestInv /\ AbortInv /\ PlaceInv /\ QueueInv
  BY <1>2 DEF StartInv, TimingInv, TargetInv, RestInv, AbortInv, PlaceInv, QueueInv
<1>5. LostInv
  BY <1>2, <1>3 DEF LostInv, AllClean
<1>6. AnswersInv
  BY <1>2 DEF AnswersInv, KeptInv
<1>. QED
  BY <1>1, <1>4, <1>5, <1>6 DEF I2cInv

\* The driver and the controller keep the invariant.
LEMMA I2cStep == I2cInv /\ I2cBus!I2cNext => I2cInv'
<1> SUFFICES ASSUME I2cInv, I2cBus!I2cNext PROVE I2cInv'
  OBVIOUS
<1>1. I2cTypes'
  BY TypesKept DEF I2cInv
<1>. QED
  BY <1>1, PlaceKept, RestKept, AbortKept, StartKept, QueueKept, LostKept, AnswersKept DEF I2cInv

\* By it, transfers are whole.
LEMMA I2cWhole == I2cInv => I2cBus!TransfersAreWhole
<1> SUFFICES ASSUME I2cInv PROVE I2cBus!TransfersAreWhole
  OBVIOUS
<1>1. AllClean => ~code.lost
  BY DEF I2cInv, LostInv
<1>2. \A i \in DOMAIN answers : Whole(i)
  BY DEF I2cInv, AnswersInv
<1>3. KeptInv
  BY DEF I2cInv, AnswersInv
<1>4. walk.pc = "next" /\ I2cBus!MoreTransfers /\ source.awake /\ I2cBus!Plausible(source.timing) => code.timing = source.timing
  BY DEF I2cInv, TimingInv
<1>5. \A i \in DOMAIN answers : answers # <<>>
  BY DEF I2cInv, I2cTypes
<1>. QED
  BY <1>1, <1>2, <1>3, <1>4, <1>5 DEF I2cBus!TransfersAreWhole, AllClean, Whole, KeptInv

\* It is of the bus alone.
LEMMA I2cStutter == I2cInv /\ UNCHANGED I2cBus!busVars => I2cInv'
<1> SUFFICES ASSUME I2cInv, UNCHANGED I2cBus!busVars PROVE I2cInv'
  OBVIOUS
<1>1. source' = source /\ code' = code /\ walk' = walk /\ answers' = answers
  BY DEF I2cBus!busVars
<1>2. I2cTypes'
  BY <1>1 DEF I2cInv, I2cTypes, Codes, Walks, Endings, Timings, InTransfer, I2cBus!MoreTransfers
<1>3. I2cBus!Transfer' = I2cBus!Transfer /\ Bytes' = Bytes /\ Answered' = Answered /\ InTransfer' = InTransfer
  BY <1>1 DEF I2cBus!Transfer, Bytes, Answered, InTransfer
<1>4. PlaceInv' /\ RestInv' /\ AbortInv' /\ TargetInv' /\ StartInv' /\ TimingInv'
  BY <1>1, <1>3 DEF I2cInv, PlaceInv, RestInv, AbortInv, TargetInv, StartInv, TimingInv, I2cBus!MoreTransfers
<1>5. Issued' = Issued /\ Carried' = Carried /\ Got' = Got
  BY <1>1, <1>3 DEF Issued, Carried, Got
<1>6. \A k : Command(k)' = Command(k)
  BY <1>3 DEF Command
<1>7. DeviceInv' <=> DeviceInv
  BY <1>1, <1>3, <1>5 DEF DeviceInv
<1>8. QueueInv'
  BY <1>1, <1>3, <1>5, <1>6, <1>7 DEF I2cInv, QueueInv, CleanInv
<1>9. LostInv' /\ AnswersInv'
  BY <1>1, <1>3, RoomStays DEF I2cInv, LostInv, AllClean, AnswersInv, Whole, KeptInv
<1>. QED
  BY <1>2, <1>4, <1>8, <1>9 DEF I2cInv

(***************************************************************************)
(* What is run (cpu.rs, backend.rs, simd.rs, dispatch.rs).                 *)
(***************************************************************************)
\* Of what satisfies a test there is a first.
LEMMA FirstIsOne ==
  ASSUME NEW I \in SUBSET Nat, I # {}
  PROVE  Features!Min(I) \in I
<1>1. \E x \in I : \A y \in I : ~(<<y, x>> \in OpToRel(<, Nat))
  BY NatLessThanWellFounded, WFMin
<1>2. \A x, y \in Nat : <<y, x>> \in OpToRel(<, Nat) <=> y < x
  BY DEF OpToRel
<1>3. PICK x \in I : \A y \in I : ~(<<y, x>> \in OpToRel(<, Nat))
  BY <1>1
<1>4. ASSUME NEW y \in I PROVE x <= y
  <2>1. ~(y < x) /\ x \in Nat /\ y \in Nat
    BY <1>2, <1>3
  <2>. QED
    BY <2>1
<1>. QED
  BY <1>4 DEF Features!Min

\* A processor that is met is one, and what was detected can be run.
Met ==
  /\ source \in Features!Processors
  /\ code \subseteq {f \in source.has : Features!Runs(f)}
  /\ source.arch = "x86_64" => "sse2" \in code

\* What is wished for, or chosen by itself.
Names ==
  STRING \cup {"avx512vnni", "avx512f", "avx_vnni", "avx2", "fma", "f16c", "avx", "sse42", "sse41", "ssse3", "sse3", "sse2",
               "sse", "mmx", "sme", "sve2", "sve", "neon", "legacy", "none", "simd", "isb-cntvct", "rdtscp"}

Reasons == {"detected", "fallback", "overridden", "override-rejected"}

RouteIsThere == Features!RouteIsAvailable(walk.route) \/ (source.arch = "x86" /\ walk.route = "rdtscp")

IsaTypes ==
  /\ source \in Features!Processors
  /\ walk \in [pc : {"detect", "backend", "simd", "route", "ready"}, backend : Names, simd : Names,
               route : Names, why : Seq(Reasons)]

ChoiceInv ==
  /\ ~Features!At("ready") => answers = <<>>
  /\ Features!At("detect") \/ Features!At("backend") => walk.why = <<>>
  /\ Features!At("simd") => Len(walk.why) = 1
  /\ Features!At("route") => Len(walk.why) = 2
  /\ Features!At("simd") \/ Features!At("route") \/ Features!At("ready") =>
       Features!IsAvailable(walk.backend) /\ (walk.why[1] = "overridden" => walk.backend = source.wish.backend)
  /\ Features!At("route") \/ Features!At("ready") =>
       /\ walk.simd = Features!Nothing \/ Features!SimdIsAvailable(walk.simd)
       /\ walk.why[2] = "overridden" => walk.simd = source.wish.simd
  /\ Features!At("ready") => RouteIsThere /\ (walk.why[3] = "overridden" => walk.route = source.wish.route)

RanInv ==
  \A k \in DOMAIN answers : /\ \A f \in answers[k].needs \ Features!Unasked(answers[k]) : Features!Runs(f)
                            /\ answers[k].bytes <= source.room

IsaInv == IsaTypes /\ (~Features!At("detect") => Met) /\ ChoiceInv /\ RanInv

\* The families of an Arm processor, best first.
LEMMA ArmFamilies == Features!ToSet(Features!ArmOrder) = {"sme", "sve2", "sve", "neon"}
  BY DEF Features!ToSet, Features!ArmOrder

\* What is tried are names.
LEMMA Orders == Features!ArmOrder \in Seq(Names) /\ Features!X86Order \in Seq(Names) /\ Features!SimdOrder \in Seq(Names)
<1>1. Features!ArmOrder \in Seq(Names) /\ Features!Sse \in Seq(Names)
  BY DEF Features!ArmOrder, Features!Sse, Names
<1>2. <<"avx512vnni", "avx512f", "avx_vnni", "avx2", "fma", "f16c", "avx">> \in Seq(Names)
  BY DEF Names
<1>3. <<"avx512vnni", "avx512f", "avx_vnni", "avx2", "avx", "fma", "f16c">> \in Seq(Names)
  BY DEF Names
<1>4. \A s, t \in Seq(Names) : s \o t \in Seq(Names)
  OBVIOUS
<1>5. Features!X86Order \in Seq(Names)
  BY <1>1, <1>2, <1>4 DEF Features!X86Order
<1>6. Features!SimdOrder \in Seq(Names)
  BY <1>1, <1>3, <1>4 DEF Features!SimdOrder
<1>. QED
  BY <1>1, <1>5, <1>6

\* The best backend and family are there.
LEMMA BestIsThere ==
  /\ Features!BestBackend \in Names /\ Features!IsAvailable(Features!BestBackend)
  /\ Features!BestSimd \in Names /\ (Features!BestSimd = Features!Nothing \/ Features!SimdIsAvailable(Features!BestSimd))
<1>1. ASSUME NEW s \in Seq(Names)
      PROVE  Features!First(s, Features!IsAvailable) = Features!Nothing \/ (Features!IsAvailable(Features!First(s, Features!IsAvailable)) /\ Features!First(s, Features!IsAvailable) \in Names)
  <2> DEFINE I == {i \in 1 .. Len(s) : Features!IsAvailable(s[i])}
  <2>1. I \in SUBSET Nat /\ (I # {} => Features!Min(I) \in I)
    <3>1. I \in SUBSET Nat
      BY <1>1
    <3> HIDE DEF I
    <3>. QED
      BY <3>1, FirstIsOne
  <2>2. \A i \in I : i # 0 /\ Features!IsAvailable(s[i]) /\ s[i] \in Names
    BY <1>1
  <2>3. Features!First(s, Features!IsAvailable) = IF I = {} THEN Features!Nothing ELSE s[Features!Min(I)]
    <3>1. Features!SelectInSeq(s, Features!IsAvailable) = IF I # {} THEN Features!Min(I) ELSE 0
      BY DEF Features!SelectInSeq
    <3> HIDE DEF I
    <3>. QED
      BY <2>1, <2>2, <3>1 DEF Features!First
  <2> HIDE DEF I
  <2>. QED
    BY <2>1, <2>2, <2>3
<1>2. ASSUME NEW s \in Seq(Names)
      PROVE  \/ Features!First(s, Features!SimdIsAvailable) = Features!Nothing
             \/ Features!SimdIsAvailable(Features!First(s, Features!SimdIsAvailable)) /\ Features!First(s, Features!SimdIsAvailable) \in Names
  <2> DEFINE I == {i \in 1 .. Len(s) : Features!SimdIsAvailable(s[i])}
  <2>1. I \in SUBSET Nat /\ (I # {} => Features!Min(I) \in I)
    <3>1. I \in SUBSET Nat
      BY <1>2
    <3> HIDE DEF I
    <3>. QED
      BY <3>1, FirstIsOne
  <2>2. \A i \in I : i # 0 /\ Features!SimdIsAvailable(s[i]) /\ s[i] \in Names
    BY <1>2
  <2>3. Features!First(s, Features!SimdIsAvailable) = IF I = {} THEN Features!Nothing ELSE s[Features!Min(I)]
    <3>1. Features!SelectInSeq(s, Features!SimdIsAvailable) = IF I # {} THEN Features!Min(I) ELSE 0
      BY DEF Features!SelectInSeq
    <3> HIDE DEF I
    <3>. QED
      BY <2>1, <2>2, <3>1 DEF Features!First
  <2> HIDE DEF I
  <2>. QED
    BY <2>1, <2>2, <2>3
<1>3. Features!BestBackend \in Names /\ Features!IsAvailable(Features!BestBackend)
  BY <1>1, Orders DEF Features!BestBackend, Features!IsAvailable, Features!Nothing, Names
<1>4. Features!BestSimd \in Names /\ (Features!BestSimd = Features!Nothing \/ Features!SimdIsAvailable(Features!BestSimd))
  BY <1>2, Orders DEF Features!BestSimd, Features!Nothing, Names
<1>. QED
  BY <1>3, <1>4

\* What is detected can be run.
LEMMA DetectedRuns ==
  ASSUME source \in Features!Processors, Features!Detect, UNCHANGED source
  PROVE  Met'
<1>1. CASE source.arch = "aarch64"
  <2>1. code' \subseteq source.shown
    BY <1>1 DEF Features!Detect, Features!CrossCheckWithWindows
  <2>2. source.shown \subseteq source.has /\ source.has \subseteq Features!OfArm
    BY <1>1 DEF Features!Processors
  <2>3. \A f \in Features!OfArm : Features!StateOf(f) = {}
    BY DEF Features!OfArm, Features!StateOf, Features!Wide512, Features!Wide256
  <2>. QED
    BY <1>1, <2>1, <2>2, <2>3 DEF Met, Features!Runs
<1>2. CASE source.arch # "aarch64"
  <2>1. code' \subseteq Features!DetectX86
    BY <1>2 DEF Features!Detect, Features!CrossCheckWithWindows
  <2>2. source.shown \subseteq source.has
    BY DEF Features!Processors
  <2>3. ASSUME source.arch = "x86_64" PROVE "sse2" \in code'
    <3>1. "sse2" \in source.shown /\ "sse2" \notin source.denied /\ 1 <= source.maxLeaf
      BY <2>3 DEF Features!Processors
    <3>2. Features!LeafOf("sse2") = 1 /\ Features!StateOf("sse2") = {} /\ "sse2" \notin Features!Wide512
      BY DEF Features!LeafOf, Features!StateOf, Features!Leaf7, Features!Wide512, Features!Wide256
    <3>3. "sse2" \in Features!DetectX86
      BY <3>1, <3>2 DEF Features!DetectX86, Features!Saved
    <3>. QED
      BY <1>2, <3>1, <3>2, <3>3 DEF Features!Detect, Features!CrossCheckWithWindows
  <2>4. \A f \in Features!DetectX86 : f \in source.shown /\ Features!StateOf(f) \subseteq source.state
    BY DEF Features!DetectX86, Features!Saved
  <2>. QED
    BY <2>1, <2>2, <2>3, <2>4 DEF Met, Features!Runs
<1>. QED
  BY <1>1, <1>2

\* What a feature is built on is there, and needs no more registers.
LEMMA BuiltOn ==
  ASSUME source \in Features!Processors, NEW f, NEW g, Features!Runs(f), <<f, g>> \in Features!Foundations
  PROVE  Features!Runs(g)
<1>1. g \in source.has
  BY DEF Features!Runs, Features!Processors
<1>2. Features!StateOf(g) \subseteq Features!StateOf(f)
  BY DEF Features!Foundations, Features!StateOf, Features!Wide512, Features!Wide256
<1>. QED
  BY <1>1, <1>2 DEF Features!Runs

\* What the kernel of a backend that is there is written in can be run.
LEMMA KernelRuns ==
  ASSUME Met, NEW b, Features!IsAvailable(b)
  PROVE  \A f \in Features!KernelNeeds(b) : Features!Runs(f)
<1>1. CASE b = "legacy"
  BY <1>1, ArmFamilies DEF Features!KernelNeeds
<1>2. CASE b # "legacy" /\ source.arch = "aarch64"
  <2>1. b \in Features!OfArm
    BY <1>2 DEF Met, Features!IsAvailable, Features!Processors
  <2>2. Features!KernelNeeds(b) \subseteq {"neon"}
    BY <2>1, ArmFamilies DEF Features!KernelNeeds, Features!OfArm
  <2>3. Features!Runs("neon")
    BY <1>2 DEF Met, Features!Runs, Features!Processors, Features!StateOf, Features!Wide512, Features!Wide256
  <2>. QED
    BY <2>2, <2>3
<1>3. CASE b # "legacy" /\ source.arch # "aarch64"
  <2>1. b \in code /\ Features!Runs(b) /\ source.arch = "x86_64" /\ b \in Features!OfX86
    BY <1>3 DEF Met, Features!IsAvailable, Features!Processors
  <2>2. Features!Runs("sse2")
    BY <2>1 DEF Met
  <2>3. \A f \in Features!KernelNeeds(b) : f = b \/ f = "sse2" \/ <<b, f>> \in Features!Foundations
    BY <2>1, ArmFamilies DEF Features!KernelNeeds, Features!OfX86, Features!Foundations
  <2>. QED
    BY <2>1, <2>2, <2>3, BuiltOn DEF Met
<1>. QED
  BY <1>1, <1>2, <1>3

\* So can that of a probe, but for SVE's of a processor with SME alone.
LEMMA ProbeRuns ==
  ASSUME Met, NEW f, Features!SimdIsAvailable(f), NEW g \in Features!ProbeNeeds(f)
  PROVE  Features!Runs(g) \/ ("sme" \in source.has /\ g = "sve")
<1>1. f \in code /\ Features!Runs(f) /\ Features!IsAvailable(f) /\ source \in Features!Processors
  BY DEF Features!SimdIsAvailable, Features!IsAvailable, Met
<1>2. CASE f \in {"sse", "sse3"}
  <2>1. source.arch = "x86_64"
    BY <1>1, <1>2 DEF Features!SimdIsAvailable, Features!Processors, Features!Runs, Features!OfArm
  <2>2. Features!Runs("sse") /\ Features!Runs("sse2")
    BY <2>1, <1>1 DEF Met, Features!Processors, Features!Runs, Features!StateOf, Features!Wide512, Features!Wide256
  <2>3. Features!ProbeNeeds(f) \subseteq {"sse", "sse2", f}
    BY <1>2 DEF Features!ProbeNeeds
  <2>. QED
    BY <1>1, <2>2, <2>3
<1>3. CASE f \in {"sve", "sve2", "sme"}
  <2>1. g = "sve"
    BY <1>3 DEF Features!ProbeNeeds
  <2>2. f = "sve2" => Features!Runs("sve")
    BY <1>1, BuiltOn DEF Features!Foundations
  <2>3. f = "sme" => "sme" \in source.has
    BY <1>1 DEF Features!Runs
  <2>. QED
    BY <1>1, <1>3, <2>1, <2>2, <2>3
<1>4. CASE f \notin {"sse", "sse3", "sve", "sve2", "sme"}
  <2>1. Features!ProbeNeeds(f) = Features!KernelNeeds(f)
    BY <1>4 DEF Features!ProbeNeeds
  <2>. QED
    BY <1>1, <2>1, KernelRuns
<1>. QED
  BY <1>2, <1>3, <1>4

\* The fences are SSE2's, which are there, and RDTSCP is where it shows.
LEMMA TimedRuns ==
  ASSUME source \in Features!Processors
  PROVE  /\ \A f \in Features!Timed : Features!Runs(f)
         /\ source.arch # "aarch64" => Features!Runs("sse2")
<1>1. source.arch # "aarch64" => "sse2" \in source.has
  BY DEF Features!Processors
<1>2. source.shown \subseteq source.has
  BY DEF Features!Processors
<1>. QED
  BY <1>1, <1>2 DEF Features!Timed, Features!Runs, Features!StateOf, Features!Wide512, Features!Wide256

\* And a crypto kernel's.
LEMMA CryptoRuns ==
  ASSUME Met, NEW k \in {"aes", "sha256", "carryless"}, Features!CryptoFlags(k) \cap code # {}, source.arch # "x86"
  PROVE  \A f \in Features!CryptoNeeds(k) : Features!Runs(f)
<1>1. \A f \in code : Features!Runs(f) /\ f \in source.has
  BY DEF Met
<1>2. CASE source.arch = "aarch64"
  <2>1. {"aesni", "shani", "pclmulqdq"} \cap source.has = {}
    BY <1>2 DEF Met, Features!Processors, Features!OfArm
  <2>. QED
    BY <1>1, <1>2, <2>1 DEF Features!CryptoFlags, Features!CryptoNeeds
<1>3. CASE source.arch # "aarch64"
  <2>1. {"arm_aes", "arm_sha2"} \cap source.has = {}
    BY <1>3 DEF Met, Features!Processors, Features!OfX86
  <2>2. Features!Runs("sse2")
    BY <1>3 DEF Met, Features!Processors
  <2>. QED
    BY <1>1, <1>3, <2>1, <2>2 DEF Features!CryptoFlags, Features!CryptoNeeds
<1>. QED
  BY <1>2, <1>3

\* A choice that is made is the last of the reasons.
LEMMA SelectChanges ==
  ASSUME IsaTypes, NEW field \in {"backend", "simd", "route"}, NEW next \in {"simd", "route", "ready"},
         NEW choice, choice[1] \in Names, choice[2] \in Reasons, Features!Select(field, next, choice), UNCHANGED source
  PROVE  /\ IsaTypes' /\ walk'.pc = next /\ walk'.why = Append(walk.why, choice[2])
         /\ walk'.backend = IF field = "backend" THEN choice[1] ELSE walk.backend
         /\ walk'.simd = IF field = "simd" THEN choice[1] ELSE walk.simd
         /\ walk'.route = IF field = "route" THEN choice[1] ELSE walk.route
         /\ UNCHANGED <<code, answers>>
<1> DEFINE a == choice[1]  b == choice[2]
<1>1. a \in Names /\ b \in Reasons
  OBVIOUS
<1>2. walk' = [walk EXCEPT !.pc = next, ![field] = a, !.why = Append(@, b)] /\ UNCHANGED <<code, answers>>
  BY DEF Features!Select
<1> HIDE DEF a, b
<1>3. Append(walk.why, b) \in Seq(Reasons)
  BY <1>1 DEF IsaTypes
<1>4. /\ walk'.pc = next /\ walk'.why = Append(walk.why, b)
      /\ walk'.backend = IF field = "backend" THEN a ELSE walk.backend
      /\ walk'.simd = IF field = "simd" THEN a ELSE walk.simd
      /\ walk'.route = IF field = "route" THEN a ELSE walk.route
  BY <1>2 DEF IsaTypes
<1>5. IsaTypes'
  BY <1>1, <1>2, <1>3 DEF IsaTypes
<1>. QED
  BY <1>2, <1>4, <1>5 DEF a, b

\* What is there stays there.
LEMMA StaysThere ==
  ASSUME UNCHANGED <<source, code>>
  PROVE  /\ \A b : Features!IsAvailable(b)' <=> Features!IsAvailable(b)
         /\ \A f : Features!SimdIsAvailable(f)' <=> Features!SimdIsAvailable(f)
         /\ \A r : Features!RouteIsAvailable(r)' <=> Features!RouteIsAvailable(r)
         /\ Met' <=> Met
         /\ RanInv' <=> (\A k \in DOMAIN answers' : /\ \A f \in answers'[k].needs \ Features!Unasked(answers'[k]) : Features!Runs(f)
                                                    /\ answers'[k].bytes <= source.room)
<1>1. \A b : Features!IsAvailable(b)' <=> Features!IsAvailable(b)
  BY DEF Features!IsAvailable
<1>2. \A f : Features!SimdIsAvailable(f)' <=> Features!SimdIsAvailable(f)
  BY DEF Features!SimdIsAvailable
<1>3. Features!BestSimd' = Features!BestSimd
  BY DEF Features!BestSimd, Features!First, Features!SelectInSeq, Features!SimdIsAvailable
<1>4. \A r : Features!RouteIsAvailable(r)' <=> Features!RouteIsAvailable(r)
  BY <1>3 DEF Features!RouteIsAvailable
<1>5. Met' <=> Met
  BY DEF Met, Features!Runs
<1>6. RanInv' <=> (\A k \in DOMAIN answers' : /\ \A f \in answers'[k].needs \ Features!Unasked(answers'[k]) : Features!Runs(f)
                                              /\ answers'[k].bytes <= source.room)
  BY DEF RanInv, Features!Runs, Features!Unasked
<1>. QED
  BY <1>1, <1>2, <1>4, <1>5, <1>6

\* What is at an index of one order after another.
LEMMA Concatenated ==
  \A s, t \in Seq(Names) : \A i \in 1 .. Len(t) : Len(s \o t) = Len(s) + Len(t) /\ (s \o t)[Len(s) + i] = t[i]
  OBVIOUS

\* The route that is best is there, but for one.
LEMMA RouteIsBest ==
  ASSUME Met
  PROVE  /\ Features!BestRoute \in Names
         /\ Features!RouteIsAvailable(Features!BestRoute) \/ (source.arch = "x86" /\ Features!BestRoute = "rdtscp")
<1>1. ASSUME source.arch = "x86_64" PROVE Features!BestSimd # Features!Nothing
  <2> DEFINE I == {i \in 1 .. Len(Features!SimdOrder) : Features!SimdIsAvailable(Features!SimdOrder[i])}
  <2>1. 12 \in 1 .. Len(Features!SimdOrder) /\ Features!SimdOrder[12] = "sse2"
    <3>1. \A s, t \in Seq(Names) : \A i \in 1 .. Len(t) :
             Len(s \o t) = Len(s) + Len(t) /\ (s \o t)[Len(s) + i] = t[i]
      BY Concatenated
    <3> DEFINE a == <<"avx512vnni", "avx512f", "avx_vnni", "avx2", "avx", "fma", "f16c">>
    <3>2. a \in Seq(Names) /\ Len(a) = 7
      BY DEF Names
    <3>3. Features!Sse \in Seq(Names) /\ Len(Features!Sse) = 7 /\ Features!Sse[5] = "sse2"
      BY DEF Features!Sse, Names
    <3>4. Features!SimdOrder = a \o Features!Sse
      BY DEF Features!SimdOrder
    <3> HIDE DEF a
    <3>5. Len(a \o Features!Sse) = Len(a) + Len(Features!Sse) /\ (a \o Features!Sse)[Len(a) + 5] = Features!Sse[5]
      <4>1. 5 \in 1 .. Len(Features!Sse)
        BY <3>3
      <4>. QED
        BY <3>1, <3>2, <3>3, <4>1
    <3>. QED
      BY <3>2, <3>3, <3>4, <3>5
  <2>2. 12 \in I
    BY <1>1, <2>1 DEF Features!SimdIsAvailable, Met
  <2>3. I \in SUBSET Nat /\ Features!Min(I) \in I
    <3>1. I \in SUBSET Nat
      OBVIOUS
    <3> HIDE DEF I
    <3>. QED
      BY <2>2, <3>1, FirstIsOne
  <2>4. Features!SelectInSeq(Features!SimdOrder, Features!SimdIsAvailable) = Features!Min(I)
    <3>1. Features!SelectInSeq(Features!SimdOrder, Features!SimdIsAvailable) = IF I # {} THEN Features!Min(I) ELSE 0
      BY DEF Features!SelectInSeq
    <3>. QED
      BY <2>2, <3>1
  <2>5. Features!Min(I) # 0 /\ Features!SimdIsAvailable(Features!SimdOrder[Features!Min(I)])
    BY <2>3
  <2> HIDE DEF I
  <2>6. Features!BestSimd = Features!SimdOrder[Features!Min(I)]
    BY <1>1, <2>4, <2>5 DEF Features!BestSimd, Features!First
  <2>7. ~Features!SimdIsAvailable(Features!Nothing)
    BY DEF Features!SimdIsAvailable, Features!Nothing, Met, Features!Processors, Features!OfX86, Features!OfArm
  <2>. QED
    BY <2>5, <2>6, <2>7
<1>2. source.arch \in {"x86", "x86_64", "aarch64"}
  BY DEF Met, Features!Processors
<1>3. Features!BestRoute \in Names
  BY DEF Features!BestRoute, Names
<1>. QED
  BY <1>1, <1>2, <1>3 DEF Features!BestRoute, Features!RouteIsAvailable, Features!ArmRoutes

\* What there is, and what is run unasked.
MayRun(what, f) ==
  \/ Features!Runs(f)
  \/ what = "overhead" /\ f = "rdtscp"
  \/ what = "probe" /\ "sme" \in source.has /\ f = "sve"

\* What is run can be run.
LEMMA RanKept ==
  ASSUME NEW what, NEW needs, NEW bytes \in Nat, Features!Ran(what, needs, bytes), IsaInv, UNCHANGED source,
         bytes <= source.room, \A f \in needs : MayRun(what, f)
  PROVE  IsaInv'
<1>1. UNCHANGED <<source, code, walk>> /\ walk.pc = "ready"
  BY DEF Features!Ran, Features!At
<1>2. answers' = <<[what |-> what, needs |-> needs, bytes |-> bytes]>>
  BY DEF Features!Ran
<1>3. DOMAIN answers' = {1} /\ answers'[1].needs = needs /\ answers'[1].bytes = bytes /\ answers'[1].what = what
  BY <1>2
<1>4. \A f \in needs \ Features!Unasked(answers'[1]) : Features!Runs(f)
  BY <1>3 DEF Features!Unasked, MayRun
<1>5. RanInv'
  BY <1>1, <1>3, <1>4, StaysThere
<1>6. IsaTypes' /\ ~Features!At("detect") /\ Met'
  BY <1>1, StaysThere DEF IsaInv, IsaTypes, Features!At
<1>7. ChoiceInv'
  BY <1>1, StaysThere DEF IsaInv, ChoiceInv, Features!At, RouteIsThere
<1>. QED
  BY <1>5, <1>6, <1>7 DEF IsaInv

\* The invariant holds before anything is asked of the processor.
LEMMA IsaStarts == Features!IsaInit /\ source \in Features!Processors => IsaInv
<1> SUFFICES ASSUME Features!IsaInit, source \in Features!Processors PROVE IsaInv
  OBVIOUS
<1>1. walk.pc = "detect" /\ walk.why = <<>> /\ answers = <<>>
  BY DEF Features!IsaInit
<1>2. IsaTypes
  BY DEF Features!IsaInit, IsaTypes, Names, Features!Nothing
<1>3. ChoiceInv /\ RanInv
  BY <1>1 DEF ChoiceInv, RanInv, Features!At
<1>. QED
  BY <1>1, <1>2, <1>3 DEF IsaInv, Features!At

\* Every choice keeps it.
LEMMA IsaStep == IsaInv /\ Features!IsaNext => IsaInv'
<1> SUFFICES ASSUME IsaInv, Features!IsaNext PROVE IsaInv'
  OBVIOUS
<1>0. UNCHANGED source /\ source \in Features!Processors /\ IsaTypes
  BY DEF Features!IsaNext, IsaInv, IsaTypes
<1>1. CASE Features!Detect
  <2>1. walk' = [walk EXCEPT !.pc = "backend"] /\ answers' = answers /\ walk.pc = "detect"
    BY <1>1 DEF Features!Detect, Features!At
  <2>2. IsaTypes' /\ walk'.pc = "backend" /\ walk'.why = walk.why
    BY <1>0, <2>1 DEF IsaTypes
  <2>3. Met'
    BY <1>0, <1>1, DetectedRuns
  <2>4. answers = <<>> /\ walk.why = <<>>
    BY <2>1 DEF IsaInv, ChoiceInv, Features!At
  <2>5. ChoiceInv' /\ RanInv'
    BY <2>1, <2>2, <2>4 DEF ChoiceInv, Features!At, RanInv
  <2>. QED
    BY <2>2, <2>3, <2>5 DEF IsaInv
<1>3. CASE Features!SelectBackend
  <2> DEFINE other == IF Features!BestBackend = "legacy" /\ "sse2" \notin code THEN "fallback" ELSE "detected"
             c == Features!Chosen(source.wish.backend, source.wish.backend \in Features!Backends, Features!IsAvailable(source.wish.backend),
                         Features!BestBackend, other)
  <2>1. walk.pc = "backend" /\ Features!Select("backend", "simd", c) /\ UNCHANGED <<code, answers>>
    BY <1>3 DEF Features!SelectBackend, Features!At, Features!Select
  <2>2. other \in Reasons \ {"overridden"}
    BY DEF Reasons
  <2>3. source.wish.backend \in Names
    BY <1>0 DEF Features!Processors, Names
  <2> HIDE DEF other
  <2>5. /\ c[2] \in Reasons
        /\ c[1] = Features!BestBackend \/ (c[1] = source.wish.backend /\ Features!IsAvailable(source.wish.backend))
        /\ c[2] = "overridden" => c[1] = source.wish.backend
    BY <2>2 DEF Features!Chosen, Reasons
  <2> HIDE DEF c
  <2>6. c[1] \in Names /\ Features!IsAvailable(c[1])
    BY <2>3, <2>5, BestIsThere
  <2>7. IsaTypes' /\ walk'.pc = "simd" /\ walk'.why = Append(walk.why, c[2]) /\ walk'.backend = c[1]
    BY <1>0, <2>1, <2>5, <2>6, SelectChanges
  <2>8. walk.why = <<>> /\ answers = <<>>
    BY <2>1 DEF IsaInv, ChoiceInv, Features!At
  <2>9. ChoiceInv'
    BY <1>0, <2>1, <2>5, <2>6, <2>7, <2>8, StaysThere DEF ChoiceInv, Features!At
  <2>10. RanInv' /\ Met'
    BY <1>0, <2>1, <2>8, StaysThere DEF RanInv, IsaInv, Features!At
  <2>. QED
    BY <2>7, <2>9, <2>10 DEF IsaInv
<1>4. CASE Features!SelectSimd
  <2> DEFINE other == IF Features!BestSimd = Features!Nothing THEN "fallback" ELSE "detected"
             ok == source.wish.simd \in Features!Families /\ Features!SimdIsAvailable(source.wish.simd)
             c == Features!Chosen(source.wish.simd, TRUE, ok, Features!BestSimd, other)
  <2>1. walk.pc = "simd" /\ Features!Select("simd", "route", c) /\ UNCHANGED <<code, answers>>
    BY <1>4 DEF Features!SelectSimd, Features!At, Features!Select
  <2>2. other \in Reasons \ {"overridden"}
    BY DEF Reasons
  <2>3. source.wish.simd \in Names
    BY <1>0 DEF Features!Processors, Names
  <2> HIDE DEF other
  <2>5. /\ c[2] \in Reasons
        /\ c[1] = Features!BestSimd \/ (c[1] = source.wish.simd /\ Features!SimdIsAvailable(source.wish.simd))
        /\ c[2] = "overridden" => c[1] = source.wish.simd
    BY <2>2 DEF Features!Chosen, Reasons
  <2> HIDE DEF c
  <2>6. c[1] \in Names /\ (c[1] = Features!Nothing \/ Features!SimdIsAvailable(c[1]))
    BY <2>3, <2>5, BestIsThere
  <2>7. IsaTypes' /\ walk'.pc = "route" /\ walk'.why = Append(walk.why, c[2]) /\ walk'.simd = c[1]
        /\ walk'.backend = walk.backend
    BY <1>0, <2>1, <2>5, <2>6, SelectChanges
  <2>8. /\ Len(walk.why) = 1 /\ answers = <<>> /\ Features!IsAvailable(walk.backend)
        /\ walk.why[1] = "overridden" => walk.backend = source.wish.backend
    BY <2>1 DEF IsaInv, ChoiceInv, Features!At
  <2>9. Len(walk'.why) = 2 /\ walk'.why[1] = walk.why[1] /\ walk'.why[2] = c[2]
    BY <1>0, <2>5, <2>7, <2>8 DEF IsaTypes
  <2>10. ChoiceInv'
    BY <1>0, <2>1, <2>5, <2>6, <2>7, <2>8, <2>9, StaysThere DEF ChoiceInv, Features!At
  <2>11. RanInv' /\ Met'
    BY <1>0, <2>1, <2>8, StaysThere DEF RanInv, IsaInv, Features!At
  <2>. QED
    BY <2>7, <2>10, <2>11 DEF IsaInv
<1>5. CASE Features!SelectRoute
  <2> DEFINE ok == Features!RouteIsAvailable(source.wish.route)
             c == Features!Chosen(source.wish.route, TRUE, ok, Features!BestRoute, "detected")
  <2>1. walk.pc = "route" /\ Features!Select("route", "ready", c) /\ UNCHANGED <<code, answers>>
    BY <1>5 DEF Features!SelectRoute, Features!At, Features!Select
  <2>3. source.wish.route \in Names
    BY <1>0 DEF Features!Processors, Names
  <2>5. /\ c[2] \in Reasons
        /\ c[1] = Features!BestRoute \/ (c[1] = source.wish.route /\ Features!RouteIsAvailable(source.wish.route))
        /\ c[2] = "overridden" => c[1] = source.wish.route
    BY DEF Features!Chosen, Reasons
  <2> HIDE DEF c
  <2>6. Met
    BY <2>1 DEF IsaInv, Features!At
  <2>7. c[1] \in Names /\ (Features!RouteIsAvailable(c[1]) \/ (source.arch = "x86" /\ c[1] = "rdtscp"))
    BY <2>3, <2>5, <2>6, RouteIsBest
  <2>8. IsaTypes' /\ walk'.pc = "ready" /\ walk'.why = Append(walk.why, c[2]) /\ walk'.route = c[1]
        /\ walk'.backend = walk.backend /\ walk'.simd = walk.simd
    BY <1>0, <2>1, <2>5, <2>7, SelectChanges
  <2>9. /\ Len(walk.why) = 2 /\ answers = <<>> /\ Features!IsAvailable(walk.backend)
        /\ walk.why[1] = "overridden" => walk.backend = source.wish.backend
        /\ walk.simd = Features!Nothing \/ Features!SimdIsAvailable(walk.simd)
        /\ walk.why[2] = "overridden" => walk.simd = source.wish.simd
    BY <2>1 DEF IsaInv, ChoiceInv, Features!At
  <2>10. walk'.why[1] = walk.why[1] /\ walk'.why[2] = walk.why[2] /\ walk'.why[3] = c[2]
    BY <1>0, <2>5, <2>8, <2>9 DEF IsaTypes
  <2>11. RouteIsThere'
    BY <1>0, <2>1, <2>7, <2>8, StaysThere DEF RouteIsThere
  <2>12. ChoiceInv'
    BY <1>0, <2>1, <2>5, <2>8, <2>9, <2>10, <2>11, StaysThere DEF ChoiceInv, Features!At
  <2>13. RanInv' /\ Met'
    BY <1>0, <2>1, <2>6, <2>9, StaysThere DEF RanInv
  <2>. QED
    BY <2>8, <2>12, <2>13 DEF IsaInv
<1>6. CASE Features!RunKernel \/ \E b \in Features!Backends : Features!RunKernelFor(b)
  <2>1. Features!At("ready")
    BY <1>6 DEF Features!RunKernel, Features!RunKernelFor, Features!Ran
  <2>2. Met /\ Features!IsAvailable(walk.backend)
    BY <2>1 DEF IsaInv, ChoiceInv, Features!At
  <2>3. PICK b : Features!IsAvailable(b) /\ Features!Ran("kernel", Features!KernelNeeds(b), 0)
    BY <1>6, <2>2 DEF Features!RunKernel, Features!RunKernelFor
  <2>4. \A f \in Features!KernelNeeds(b) : MayRun("kernel", f)
    BY <2>2, <2>3, KernelRuns DEF MayRun
  <2>5. 0 <= source.room /\ 0 \in Nat
    BY <1>0 DEF Features!Processors
  <2>. QED
    BY <1>0, <2>3, <2>4, <2>5, RanKept
<1>7. CASE \E k \in {"aes", "sha256", "carryless"} : Features!RunCryptoKernel(k)
  <2>1. PICK k \in {"aes", "sha256", "carryless"} : Features!RunCryptoKernel(k)
    BY <1>7
  <2>2. Features!CryptoFlags(k) \cap code # {} /\ source.arch # "x86" /\ Features!Ran("crypto", Features!CryptoNeeds(k), 0)
    BY <2>1 DEF Features!RunCryptoKernel
  <2>3. Met
    BY <2>2 DEF IsaInv, Features!At, Features!Ran
  <2>4. \A f \in Features!CryptoNeeds(k) : MayRun("crypto", f)
    BY <2>2, <2>3, CryptoRuns DEF MayRun
  <2>5. 0 <= source.room /\ 0 \in Nat
    BY <1>0 DEF Features!Processors
  <2>. QED
    BY <1>0, <2>2, <2>4, <2>5, RanKept
<1>8. CASE \E f \in Features!Families, vector \in BOOLEAN : Features!Probe(f, vector)
  <2>1. PICK f \in Features!Families, vector \in BOOLEAN : Features!Probe(f, vector)
    BY <1>8
  <2>2. Features!SimdIsAvailable(f) /\ Features!VectorBytes(f) <= source.room
        /\ \/ Features!Ran("probe", Features!ProbeNeeds(f) \cup Features!Timed, Features!VectorBytes(f))
           \/ Features!Ran("probe", Features!Timed, 8)
    BY <2>1 DEF Features!Probe
  <2>3. Met
    BY <2>2 DEF IsaInv, Features!At, Features!Ran
  <2> DEFINE needs == Features!ProbeNeeds(f) \cup Features!Timed
  <2>4. (\A g \in needs : MayRun("probe", g)) /\ (\A g \in Features!Timed : MayRun("probe", g))
    BY <1>0, <2>2, <2>3, ProbeRuns, TimedRuns DEF MayRun
  <2>5. Features!VectorBytes(f) \in {8, 16, 32, 64}
    BY DEF Features!VectorBytes
  <2>6. Features!VectorBytes(f) \in Nat /\ 8 <= Features!VectorBytes(f)
    BY <2>5
  <2>7. 8 <= source.room /\ 8 \in Nat
    BY <1>0, <2>2, <2>6 DEF Features!Processors
  <2> HIDE DEF needs
  <2>8. CASE Features!Ran("probe", needs, Features!VectorBytes(f))
    BY <1>0, <2>2, <2>4, <2>6, <2>8, RanKept
  <2>9. CASE Features!Ran("probe", Features!Timed, 8)
    BY <1>0, <2>4, <2>7, <2>9, RanKept
  <2>. QED
    BY <2>2, <2>8, <2>9 DEF needs
<1>9. CASE Features!ReadOverhead \/ Features!ReadCounter
  <2>1. (source.arch # "aarch64" /\ Features!Ran("overhead", {"sse2", "rdtscp"}, 0)) \/ Features!Ran("counter", Features!Timed, 0)
    BY <1>9 DEF Features!ReadOverhead, Features!ReadCounter
  <2>2. 0 <= source.room /\ 0 \in Nat
    BY <1>0 DEF Features!Processors
  <2>3. CASE source.arch # "aarch64" /\ Features!Ran("overhead", {"sse2", "rdtscp"}, 0)
    <3>1. \A f \in {"sse2", "rdtscp"} : MayRun("overhead", f)
      BY <1>0, <2>3, TimedRuns DEF MayRun
    <3>. QED
      BY <1>0, <2>2, <2>3, <3>1, RanKept
  <2>4. CASE Features!Ran("counter", Features!Timed, 0)
    <3>1. \A f \in Features!Timed : MayRun("counter", f)
      BY <1>0, TimedRuns DEF MayRun
    <3>. QED
      BY <1>0, <2>2, <2>4, <3>1, RanKept
  <2>. QED
    BY <2>1, <2>3, <2>4
<1>. QED
  BY <1>1, <1>3, <1>4, <1>5, <1>6, <1>7, <1>8, <1>9 DEF Features!IsaNext

\* By it, nothing is run that is missing.
LEMMA IsaRuns == IsaInv => Features!NothingMissingIsRun
<1> SUFFICES ASSUME IsaInv PROVE Features!NothingMissingIsRun
  OBVIOUS
<1>1. RanInv /\ ChoiceInv
  BY DEF IsaInv
<1>. QED
  BY <1>1 DEF Features!NothingMissingIsRun, RanInv, ChoiceInv, RouteIsThere

\* It is of the choice alone.
LEMMA IsaStutter == IsaInv /\ UNCHANGED Features!isaVars => IsaInv'
<1> SUFFICES ASSUME IsaInv, UNCHANGED Features!isaVars PROVE IsaInv'
  OBVIOUS
<1>1. UNCHANGED <<source, code, walk, answers>>
  BY DEF Features!isaVars
<1>2. IsaTypes' /\ (~Features!At("detect") => Met)' /\ RanInv'
  BY <1>1, StaysThere DEF IsaInv, IsaTypes, Features!At, RanInv, Features!Runs, Features!Unasked
<1>3. ChoiceInv'
  BY <1>1, StaysThere DEF IsaInv, ChoiceInv, Features!At, RouteIsThere
<1>. QED
  BY <1>2, <1>3 DEF IsaInv

(***************************************************************************)
(* What is said of a hypervisor (hypervisor.rs).                           *)
(***************************************************************************)
\* Of what satisfies a test there is a first.
LEMMA FirstShown ==
  ASSUME NEW I \in SUBSET Nat, I # {}
  PROVE  Hypervisor!Min(I) \in I /\ \A k \in I : Hypervisor!Min(I) <= k
<1>1. \E x \in I : \A y \in I : ~(<<y, x>> \in OpToRel(<, Nat))
  BY NatLessThanWellFounded, WFMin
<1>2. \A x, y \in Nat : <<y, x>> \in OpToRel(<, Nat) <=> y < x
  BY DEF OpToRel
<1>3. PICK x \in I : \A y \in I : ~(<<y, x>> \in OpToRel(<, Nat))
  BY <1>1
<1>4. ASSUME NEW y \in I PROVE x <= y
  <2>1. ~(y < x) /\ x \in Nat /\ y \in Nat
    BY <1>2, <1>3
  <2>. QED
    BY <2>1
<1>. QED
  BY <1>4 DEF Hypervisor!Min

\* Where evidence comes from, and whom it names.
Witnesses ==
  {"cpuid-feature-bit", "cpuid-vendor-leaf", "sys-hypervisor", "device-tree", "proc-cpuinfo", "clocksource",
   "paravirtual-bus", "windows-registry", "mac-sysctl", "dmi", "kernel-module"} \cup Hypervisor!Inferences

Somebody == STRING \cup {Hypervisor!Nobody, Hypervisor!Unnamed, "tcg", "kvm", "wsl"}

Evidence ==
  [sources : SUBSET Witnesses, hypervisor : Somebody, leaf : Nat, ratio : Nat, suggests : BOOLEAN, called : BOOLEAN]

\* Evidence that is of this machine.
Sound(c) ==
  /\ c \in Evidence
  /\ c.hypervisor = "tcg" => source.guest = "tcg" \/ (source.arch = "arm" /\ source.hertz = "emulated")
  /\ source.guest = Hypervisor!Nobody =>
       /\ c.hypervisor \in {Hypervisor!Nobody, Hypervisor!Unnamed, "tcg"} /\ c.sources \subseteq Hypervisor!Inferences \cup {"kernel-module"}
       /\ "kernel-module" \in c.sources => source.module # <<>>
       /\ ~c.called

\* What is said by one who knows.
Declared(c) == \E s \in c.sources : Hypervisor!IsDeclared(s)

\* What was known stays known.
Keeps(c, d) == c.sources \subseteq d.sources /\ (c.hypervisor = "tcg" => d.hypervisor = "tcg")

\* The evidence that has been looked for has been found.
ShownByCpu    == source.arch = "x86" /\ (source.bit \/ \E b \in Hypervisor!ToSet(source.bases) : Hypervisor!Printable(b))
EmulatedByCpu == source.arch = "x86" /\ \E b \in DOMAIN source.bases : b = 1 /\ source.bases[b].signature = "tcg"

FoundInv ==
  /\ Hypervisor!At("cpuid") => code.hypervisor = Hypervisor!Nobody
  /\ ~Hypervisor!At("cpuid") /\ ShownByCpu => Declared(code)
  /\ ~Hypervisor!At("cpuid") /\ EmulatedByCpu => code.hypervisor = "tcg"
  /\ ~Hypervisor!At("cpuid") /\ ~Hypervisor!At("files") /\ source.files # {} => Declared(code)
  /\ ~Hypervisor!At("cpuid") /\ ~Hypervisor!At("files") /\ ~Hypervisor!At("asked") /\ source.says => Declared(code)
  /\ ~Hypervisor!At("cpuid") /\ ~Hypervisor!At("files") /\ ~Hypervisor!At("asked") /\ ~Hypervisor!At("dmi") /\ source.dmi # Hypervisor!Nobody => Declared(code)

HyperTypes ==
  /\ source \in Hypervisor!Guests
  /\ walk \in [pc : {"cpuid", "files", "asked", "dmi", "cost", "module", "conclude", "done"}]

HyperInv ==
  /\ HyperTypes /\ Sound(code) /\ FoundInv
  /\ ~Hypervisor!At("done") => answers = <<>>
  /\ Hypervisor!VerdictFollowsTheMachine

\* A source that is noted.
LEMMA Noting ==
  ASSUME NEW c, Sound(c), NEW p \in BOOLEAN, NEW s \in Witnesses, NEW h \in Somebody,
         p /\ h = "tcg" => source.guest = "tcg" \/ (source.arch = "arm" /\ source.hertz = "emulated"),
         p /\ source.guest = Hypervisor!Nobody => s \in Hypervisor!Inferences /\ h \in {Hypervisor!Nobody, Hypervisor!Unnamed, "tcg"}
  PROVE  LET d == Hypervisor!NotesIf(c, p, s, h)
         IN Sound(d) /\ Keeps(c, d) /\ (p => s \in d.sources) /\ (p /\ c.hypervisor = Hypervisor!Nobody => d.hypervisor = h)
<1> DEFINE d == Hypervisor!NotesIf(c, p, s, h)
<1>1. CASE ~p
  <2>1. d = c
    BY <1>1 DEF Hypervisor!NotesIf
  <2> HIDE DEF d
  <2>. QED
    BY <1>1, <2>1 DEF Keeps, d
<1>2. CASE p
  <2> DEFINE n == IF c.hypervisor = Hypervisor!Nobody THEN h ELSE c.hypervisor
             a == c.sources \cup {s}
  <2>1. n \in Somebody /\ a \in SUBSET Witnesses /\ c \in Evidence
    BY DEF Sound, Evidence
  <2>2. d = [c EXCEPT !.sources = a, !.hypervisor = n]
    BY <1>2 DEF Hypervisor!NotesIf, Hypervisor!Names
  <2> HIDE DEF n, a, d
  <2>3. d \in Evidence /\ d.sources = a /\ d.hypervisor = n /\ (d.called <=> c.called)
    BY <2>1, <2>2 DEF Evidence
  <2>4. Keeps(c, d) /\ s \in d.sources /\ (c.hypervisor = Hypervisor!Nobody => d.hypervisor = h)
    BY <2>3 DEF Keeps, n, a, Hypervisor!Nobody
  <2>5. d.hypervisor = "tcg" => source.guest = "tcg" \/ (source.arch = "arm" /\ source.hertz = "emulated")
    BY <1>2, <2>3 DEF Sound, n
  <2>6. ASSUME source.guest = Hypervisor!Nobody
        PROVE  /\ d.hypervisor \in {Hypervisor!Nobody, Hypervisor!Unnamed, "tcg"} /\ d.sources \subseteq Hypervisor!Inferences \cup {"kernel-module"}
               /\ "kernel-module" \in d.sources => source.module # <<>>
               /\ ~d.called
    <3>1. s # "kernel-module"
      BY <1>2, <2>6 DEF Hypervisor!Inferences
    <3>. QED
      BY <1>2, <2>3, <2>6, <3>1 DEF Sound, n, a
  <2>7. Sound(d)
    BY <2>3, <2>5, <2>6 DEF Sound
  <2>. QED
    BY <1>2, <2>4, <2>7 DEF d
<1>. QED
  BY <1>1, <1>2

\* What is declared stays so.
LEMMA Declaring == ASSUME NEW c, NEW d, Keeps(c, d), Declared(c) PROVE Declared(d)
  BY DEF Keeps, Declared

\* Of the bases the first that is printable is taken.
LEMMA FirstPrintable ==
  ASSUME source \in Hypervisor!Guests
  PROVE  LET b == Hypervisor!SelectInSeq(source.bases, Hypervisor!Printable)
         IN /\ b \in Nat
            /\ b = 0 => \A k \in DOMAIN source.bases : ~Hypervisor!Printable(source.bases[k])
            /\ b # 0 => b \in DOMAIN source.bases /\ Hypervisor!Printable(source.bases[b])
            /\ 1 \in DOMAIN source.bases /\ Hypervisor!Printable(source.bases[1]) => b = 1
<1> DEFINE I == {i \in 1 .. Len(source.bases) : Hypervisor!Printable(source.bases[i])}
           b == Hypervisor!SelectInSeq(source.bases, Hypervisor!Printable)
<1>1. I \in SUBSET Nat /\ DOMAIN source.bases = 1 .. Len(source.bases) /\ Len(source.bases) \in Nat
  BY DEF Hypervisor!Guests
<1>2. b = IF I # {} THEN Hypervisor!Min(I) ELSE 0
  BY DEF Hypervisor!SelectInSeq
<1>3. \A k \in DOMAIN source.bases : k \in I <=> Hypervisor!Printable(source.bases[k])
  BY <1>1
<1>4. I \subseteq DOMAIN source.bases
  BY <1>1
<1> HIDE DEF I, b
<1>5. I # {} => Hypervisor!Min(I) \in I /\ \A k \in I : Hypervisor!Min(I) <= k
  BY <1>1, FirstShown
<1>6. \A k \in I : 1 <= k /\ k \in Nat
  BY <1>1, <1>4
<1>7. b = 0 \/ b \in I
  BY <1>2, <1>5
<1>8. b = 0 => I = {}
  BY <1>2, <1>5, <1>6
<1>9. 1 \in I => b = 1
  <2>1. ASSUME 1 \in I PROVE b = 1
    <3>1. Hypervisor!Min(I) \in I /\ Hypervisor!Min(I) <= 1 /\ b = Hypervisor!Min(I)
      BY <1>2, <1>5, <2>1
    <3>. QED
      BY <1>6, <3>1
  <2>. QED
    BY <2>1
<1>10. b \in Nat
  BY <1>6, <1>7
<1>11. b = 0 => \A k \in DOMAIN source.bases : ~Hypervisor!Printable(source.bases[k])
  BY <1>3, <1>8
<1>12. b # 0 => b \in DOMAIN source.bases /\ Hypervisor!Printable(source.bases[b])
  BY <1>3, <1>4, <1>7
<1>13. 1 \in DOMAIN source.bases /\ Hypervisor!Printable(source.bases[1]) => b = 1
  BY <1>3, <1>9
<1>. QED
  BY <1>10, <1>11, <1>12, <1>13 DEF b

\* The processor says what it has to say.
LEMMA CpuidX86Is ==
  ASSUME source \in Hypervisor!Guests, source.arch = "x86", Sound(code), code.hypervisor = Hypervisor!Nobody
  PROVE  /\ Sound(Hypervisor!CpuidX86)
         /\ ShownByCpu => Declared(Hypervisor!CpuidX86)
         /\ EmulatedByCpu => Hypervisor!CpuidX86.hypervisor = "tcg"
<1> DEFINE p == source.bit
           c == Hypervisor!NotesIf(code, p, "cpuid-feature-bit", Hypervisor!Nobody)
           b == Hypervisor!SelectInSeq(source.bases, Hypervisor!Printable)
           h == source.bases[b].signature
           d == Hypervisor!Names(c, "cpuid-vendor-leaf", h)
<1>1. Hypervisor!CpuidX86 = IF b = 0 THEN c ELSE [d EXCEPT !.leaf = b]
  BY DEF Hypervisor!CpuidX86
<1>2. /\ b \in Nat
      /\ b = 0 => \A k \in DOMAIN source.bases : ~Hypervisor!Printable(source.bases[k])
      /\ b # 0 => b \in DOMAIN source.bases /\ Hypervisor!Printable(source.bases[b])
      /\ 1 \in DOMAIN source.bases /\ Hypervisor!Printable(source.bases[1]) => b = 1
  BY FirstPrintable
<1> HIDE DEF b
<1>3. Sound(c) /\ Keeps(code, c) /\ (source.bit => "cpuid-feature-bit" \in c.sources) /\ c.hypervisor = Hypervisor!Nobody
  <2>1. p \in BOOLEAN /\ "cpuid-feature-bit" \in Witnesses /\ Hypervisor!Nobody \in Somebody /\ Hypervisor!Nobody # "tcg"
        /\ ~(p /\ source.guest = Hypervisor!Nobody)
    BY DEF Hypervisor!Guests, Witnesses, Somebody, Hypervisor!Nobody
  <2>2. Sound(c) /\ Keeps(code, c) /\ (p => "cpuid-feature-bit" \in c.sources)
        /\ (p /\ code.hypervisor = Hypervisor!Nobody => c.hypervisor = Hypervisor!Nobody)
    BY <2>1, Noting
  <2>. QED
    BY <2>2 DEF Hypervisor!NotesIf
<1>4. source.bit => Declared(c)
  BY <1>3 DEF Declared, Hypervisor!IsDeclared, Hypervisor!Inferences
<1>5. CASE b = 0
  <2>1. Hypervisor!CpuidX86 = c
    BY <1>1, <1>5
  <2>2. ~EmulatedByCpu
    BY <1>2, <1>5 DEF EmulatedByCpu, Hypervisor!Printable
  <2>3. ShownByCpu => source.bit
    BY <1>2, <1>5 DEF ShownByCpu, Hypervisor!ToSet
  <2> HIDE DEF c
  <2>. QED
    BY <1>3, <1>4, <2>1, <2>2, <2>3
<1>6. CASE b # 0
  <2>1. b \in DOMAIN source.bases /\ Hypervisor!Printable(source.bases[b]) /\ h \in Somebody
    <3>1. source.bases \in Seq([signature : STRING])
      BY DEF Hypervisor!Guests
    <3>2. \A k \in DOMAIN source.bases : source.bases[k] \in [signature : STRING]
      <4>1. \A S : \A t \in Seq(S) : \A k \in DOMAIN t : t[k] \in S
        OBVIOUS
      <4>. QED
        BY <3>1, <4>1
    <3>3. b \in DOMAIN source.bases /\ Hypervisor!Printable(source.bases[b])
      BY <1>2, <1>6
    <3>. QED
      BY <3>2, <3>3 DEF Somebody
  <2>2. (h = "tcg" => source.guest = "tcg") /\ source.guest # Hypervisor!Nobody
    BY <2>1 DEF Hypervisor!Guests
  <2>3. d = Hypervisor!NotesIf(c, TRUE, "cpuid-vendor-leaf", h)
    BY DEF Hypervisor!NotesIf
  <2> HIDE DEF c, h, d
  <2>4. Sound(d) /\ "cpuid-vendor-leaf" \in d.sources /\ d.hypervisor = h
    <3>1. "cpuid-vendor-leaf" \in Witnesses
      BY DEF Witnesses
    <3>. QED
      BY <1>3, <2>1, <2>2, <2>3, <3>1, Noting
  <2> DEFINE e == [d EXCEPT !.leaf = b]
  <2>5. e \in Evidence /\ e.sources = d.sources /\ e.hypervisor = d.hypervisor /\ (e.called <=> d.called)
    BY <1>2, <2>4 DEF Sound, Evidence
  <2>6. Hypervisor!CpuidX86 = e
    BY <1>1, <1>6
  <2> HIDE DEF e
  <2>7. Sound(e)
    BY <2>4, <2>5 DEF Sound
  <2>8. Declared(e)
    BY <2>4, <2>5 DEF Declared, Hypervisor!IsDeclared, Hypervisor!Inferences
  <2>9. EmulatedByCpu => h = "tcg"
    BY <1>2 DEF EmulatedByCpu, h, Hypervisor!Printable
  <2>. QED
    BY <2>4, <2>5, <2>6, <2>7, <2>8, <2>9
<1>. QED
  BY <1>5, <1>6

\* What an Arm processor says, of the rate of its counter and of its maker.
LEMMA CpuidArmIs ==
  ASSUME source \in Hypervisor!Guests, source.arch = "arm", Sound(code)
  PROVE  Sound(Hypervisor!CpuidArm)
<1> DEFINE s == "arm-cntfrq-el0"
           virt == Hypervisor!NotesIf(code, TRUE, s, Hypervisor!Unnamed)
           emulated == Hypervisor!NotesIf(code, TRUE, s, "tcg")
           p == source.nullMidr
<1>1. s \in Witnesses /\ s \in Hypervisor!Inferences /\ Hypervisor!Unnamed \in Somebody /\ "tcg" \in Somebody /\ Hypervisor!Unnamed # "tcg"
      /\ "arm-midr-el1" \in Witnesses /\ "arm-midr-el1" \in Hypervisor!Inferences /\ p \in BOOLEAN
  BY DEF Witnesses, Hypervisor!Inferences, Somebody, Hypervisor!Unnamed, Hypervisor!Guests
<1>2. Sound(virt)
  BY <1>1, Noting
<1>3. source.hertz = "emulated" => Sound(emulated)
  BY <1>1, Noting
<1>4. ASSUME NEW c, Sound(c) PROVE Sound(Hypervisor!NotesIf(c, p, "arm-midr-el1", Hypervisor!Unnamed))
  BY <1>1, <1>4, Noting
<1>5. CASE source.hertz = "virt"
  <2>1. Hypervisor!CpuidArm = Hypervisor!NotesIf(virt, p, "arm-midr-el1", Hypervisor!Unnamed)
    BY <1>5 DEF Hypervisor!CpuidArm, Hypervisor!NotesIf
  <2>. QED
    BY <1>2, <1>4, <2>1
<1>6. CASE source.hertz = "emulated"
  <2>1. Hypervisor!CpuidArm = Hypervisor!NotesIf(emulated, p, "arm-midr-el1", Hypervisor!Unnamed)
    BY <1>6 DEF Hypervisor!CpuidArm, Hypervisor!NotesIf
  <2>. QED
    BY <1>3, <1>4, <1>6, <2>1
<1>7. CASE source.hertz = "real"
  <2>1. Hypervisor!CpuidArm = Hypervisor!NotesIf(code, p, "arm-midr-el1", Hypervisor!Unnamed)
    BY <1>7 DEF Hypervisor!CpuidArm
  <2>. QED
    BY <1>4, <2>1
<1>. QED
  BY <1>5, <1>6, <1>7 DEF Hypervisor!Guests

\* Files that are there say so.
LEMMA FilesSay ==
  ASSUME source \in Hypervisor!Guests, Hypervisor!DetectPlatformFiles, Sound(code)
  PROVE  Sound(code') /\ Keeps(code, code') /\ (source.files # {} => Declared(code'))
<1> DEFINE has(f) == f \in source.files
           c0 == Hypervisor!NotesIf(code, has("hypervisor"), "sys-hypervisor", source.named)
           c1 == Hypervisor!NotesIf(c0, has("device-tree"), "device-tree", source.named)
           c2 == Hypervisor!Wsl(c1)
           c3 == Hypervisor!NotesIf(c2, has("clocksource"), "clocksource", source.named)
           c4 == Hypervisor!NotesIf(c3, has("bus"), "paravirtual-bus", source.named)
           c5 == Hypervisor!NotesIf(c4, has("virtio"), "paravirtual-bus", Hypervisor!Nobody)
           c6 == Hypervisor!NotesIf(c5, has("cpuinfo"), "proc-cpuinfo", Hypervisor!Nobody)
<1>1. code' = c6
  BY DEF Hypervisor!DetectPlatformFiles, Hypervisor!Step
<1>2. /\ \A f \in Hypervisor!Files : has(f) \in BOOLEAN /\ ~(has(f) /\ source.guest = Hypervisor!Nobody)
      /\ source.named \in Somebody /\ (source.named = "tcg" => source.guest = "tcg")
      /\ source.files \subseteq Hypervisor!Files
  BY DEF Hypervisor!Guests, Somebody
<1>3. /\ {"hypervisor", "device-tree", "osrelease", "clocksource", "bus", "virtio", "cpuinfo"} = Hypervisor!Files
      /\ {"sys-hypervisor", "device-tree", "clocksource", "paravirtual-bus", "proc-cpuinfo"} \subseteq Witnesses
      /\ Hypervisor!Nobody \in Somebody /\ Hypervisor!Nobody # "tcg"
  BY DEF Hypervisor!Files, Witnesses, Somebody, Hypervisor!Nobody
<1>4. ASSUME NEW c, Sound(c), NEW f \in Hypervisor!Files, NEW s \in Witnesses, NEW h \in {source.named, Hypervisor!Nobody}
      PROVE  LET d == Hypervisor!NotesIf(c, has(f), s, h) IN Sound(d) /\ Keeps(c, d) /\ (has(f) => s \in d.sources)
  <2> DEFINE p == has(f)
             d == Hypervisor!NotesIf(c, p, s, h)
  <2>1. p \in BOOLEAN /\ ~(p /\ source.guest = Hypervisor!Nobody) /\ h \in Somebody /\ (h = "tcg" => source.guest = "tcg")
    BY <1>2, <1>3, <1>4
  <2> HIDE DEF p
  <2>2. Sound(d) /\ Keeps(c, d) /\ (p => s \in d.sources)
    BY <2>1, <1>4, Noting
  <2>. QED
    BY <2>2 DEF p
<1>5. ASSUME NEW c, Sound(c)
      PROVE  Sound(Hypervisor!Wsl(c)) /\ Keeps(c, Hypervisor!Wsl(c)) /\ (has("osrelease") => "proc-cpuinfo" \in Hypervisor!Wsl(c).sources)
  <2>1. CASE ~has("osrelease")
    BY <1>5, <2>1 DEF Hypervisor!Wsl, Keeps
  <2>2. CASE has("osrelease")
    <3> DEFINE a == c.sources \cup {"proc-cpuinfo"}
               h == IF c.hypervisor \in {Hypervisor!Nobody, "hyperv"} THEN "wsl" ELSE c.hypervisor
    <3>1. source.guest # Hypervisor!Nobody
      BY <1>2, <1>3, <2>2
    <3>2. a \in SUBSET Witnesses /\ h \in Somebody /\ c \in Evidence
      BY <1>3, <1>5 DEF Sound, Evidence, Somebody
    <3>3. Hypervisor!Wsl(c) = [c EXCEPT !.sources = a, !.hypervisor = h]
      BY <2>2 DEF Hypervisor!Wsl
    <3>4. (h = "tcg" <=> c.hypervisor = "tcg") /\ c.sources \subseteq a /\ "proc-cpuinfo" \in a
      BY DEF Hypervisor!Nobody
    <3> HIDE DEF a, h
    <3>5. Hypervisor!Wsl(c) \in Evidence /\ Hypervisor!Wsl(c).sources = a /\ Hypervisor!Wsl(c).hypervisor = h
      BY <3>2, <3>3 DEF Evidence
    <3> HIDE DEF has
    <3>. QED
      BY <1>5, <3>1, <3>4, <3>5 DEF Sound, Keeps
  <2>. QED
    BY <2>1, <2>2
<1>6. ASSUME NEW c, "sys-hypervisor" \in c.sources \/ "device-tree" \in c.sources \/ "proc-cpuinfo" \in c.sources
                    \/ "clocksource" \in c.sources \/ "paravirtual-bus" \in c.sources
      PROVE  Declared(c)
  BY <1>6 DEF Declared, Hypervisor!IsDeclared, Hypervisor!Inferences
<1> HIDE DEF has
<1>7. Sound(c0) /\ Keeps(code, c0) /\ (has("hypervisor") => "sys-hypervisor" \in c0.sources)
  BY <1>3, <1>4
<1> HIDE DEF c0
<1>8. Sound(c1) /\ Keeps(c0, c1) /\ (has("device-tree") => "device-tree" \in c1.sources)
  BY <1>3, <1>4, <1>7
<1> HIDE DEF c1
<1>9. Sound(c2) /\ Keeps(c1, c2) /\ (has("osrelease") => "proc-cpuinfo" \in c2.sources)
  BY <1>5, <1>8
<1> HIDE DEF c2
<1>10. Sound(c3) /\ Keeps(c2, c3) /\ (has("clocksource") => "clocksource" \in c3.sources)
  BY <1>3, <1>4, <1>9
<1> HIDE DEF c3
<1>11. Sound(c4) /\ Keeps(c3, c4) /\ (has("bus") => "paravirtual-bus" \in c4.sources)
  BY <1>3, <1>4, <1>10
<1> HIDE DEF c4
<1>12. Sound(c5) /\ Keeps(c4, c5) /\ (has("virtio") => "paravirtual-bus" \in c5.sources)
  BY <1>3, <1>4, <1>11
<1> HIDE DEF c5
<1>13. Sound(c6) /\ Keeps(c5, c6) /\ (has("cpuinfo") => "proc-cpuinfo" \in c6.sources)
  BY <1>3, <1>4, <1>12
<1> HIDE DEF c6
<1>14. Keeps(c4, c6) /\ Keeps(c3, c6) /\ Keeps(c2, c6) /\ Keeps(c1, c6) /\ Keeps(c0, c6) /\ Keeps(code, c6)
  BY <1>7, <1>8, <1>9, <1>10, <1>11, <1>12, <1>13 DEF Keeps
<1>15. ASSUME NEW f \in Hypervisor!Files, has(f) PROVE Declared(c6)
  <2>1. \/ "sys-hypervisor" \in c6.sources \/ "device-tree" \in c6.sources \/ "proc-cpuinfo" \in c6.sources
        \/ "clocksource" \in c6.sources \/ "paravirtual-bus" \in c6.sources
    BY <1>3, <1>7, <1>8, <1>9, <1>10, <1>11, <1>12, <1>13, <1>14, <1>15 DEF Keeps
  <2>. QED
    BY <1>6, <2>1
<1>16. source.files # {} => \E f \in Hypervisor!Files : has(f)
  BY <1>2 DEF has
<1>. QED
  BY <1>1, <1>13, <1>14, <1>15, <1>16

\* The steps but for the conclusion: the evidence is sound, keeps what it had,
\* and has what the step looks for.
LEMMA StepsAre ==
  ASSUME HyperInv, UNCHANGED source
  PROVE  /\ Hypervisor!DetectCpuid =>
              /\ Hypervisor!At("cpuid") /\ Hypervisor!Step("files", code') /\ Sound(code')
              /\ ShownByCpu => Declared(code')
              /\ EmulatedByCpu => code'.hypervisor = "tcg"
         /\ Hypervisor!DetectPlatformFiles =>
              /\ Hypervisor!At("files") /\ Hypervisor!Step("asked", code') /\ Sound(code') /\ Keeps(code, code')
              /\ source.files # {} => Declared(code')
         /\ Hypervisor!DetectSystem =>
              /\ Hypervisor!At("asked") /\ Hypervisor!Step("dmi", code') /\ Sound(code') /\ Keeps(code, code')
              /\ source.says => Declared(code')
         /\ Hypervisor!DetectDmi =>
              /\ Hypervisor!At("dmi") /\ Hypervisor!Step("cost", code') /\ Sound(code') /\ Keeps(code, code')
              /\ source.dmi # Hypervisor!Nobody => Declared(code')
         /\ Hypervisor!MeasureExitCost \/ Hypervisor!SkipExitCost => Hypervisor!At("cost") /\ Hypervisor!Step("module", code') /\ Sound(code') /\ Keeps(code, code')
         /\ Hypervisor!NoKernelModule \/ Hypervisor!MergeKernelModule =>
              Hypervisor!At("module") /\ Hypervisor!Step("conclude", code') /\ Sound(code') /\ Keeps(code, code')
<1>0. source \in Hypervisor!Guests /\ Sound(code) /\ Keeps(code, code)
  BY DEF HyperInv, HyperTypes, Keeps
<1>1. ASSUME Hypervisor!DetectCpuid
      PROVE  /\ Hypervisor!At("cpuid") /\ Hypervisor!Step("files", code') /\ Sound(code')
             /\ ShownByCpu => Declared(code')
             /\ EmulatedByCpu => code'.hypervisor = "tcg"
  <2>1. Hypervisor!At("cpuid") /\ Hypervisor!Step("files", code') /\ code' = IF source.arch = "x86" THEN Hypervisor!CpuidX86 ELSE Hypervisor!CpuidArm
    BY <1>1 DEF Hypervisor!DetectCpuid, Hypervisor!Step
  <2>2. code.hypervisor = Hypervisor!Nobody
    BY <2>1 DEF HyperInv, FoundInv
  <2>3. source.arch \in {"x86", "arm"}
    BY <1>0 DEF Hypervisor!Guests
  <2>4. CASE source.arch = "x86"
    BY <1>0, <2>1, <2>2, <2>4, CpuidX86Is
  <2>5. CASE source.arch = "arm"
    <3>1. code' = Hypervisor!CpuidArm /\ ~ShownByCpu /\ ~EmulatedByCpu
      BY <2>1, <2>5 DEF ShownByCpu, EmulatedByCpu
    <3>2. Sound(Hypervisor!CpuidArm)
      BY <1>0, <2>5, CpuidArmIs
    <3>. QED
      BY <2>1, <3>1, <3>2
  <2>. QED
    BY <2>3, <2>4, <2>5
<1>2. ASSUME Hypervisor!DetectPlatformFiles
      PROVE  /\ Hypervisor!At("files") /\ Hypervisor!Step("asked", code') /\ Sound(code') /\ Keeps(code, code')
             /\ source.files # {} => Declared(code')
  <2>1. Hypervisor!At("files") /\ Hypervisor!Step("asked", code')
    BY <1>2 DEF Hypervisor!DetectPlatformFiles, Hypervisor!Step
  <2>. QED
    BY <1>0, <1>2, <2>1, FilesSay
<1>3. ASSUME Hypervisor!DetectSystem
      PROVE  /\ Hypervisor!At("asked") /\ Hypervisor!Step("dmi", code') /\ Sound(code') /\ Keeps(code, code')
             /\ source.says => Declared(code')
  <2> DEFINE s == IF source.system = "windows" THEN "windows-registry" ELSE "mac-sysctl"
             h == source.named
             p == source.says
  <2>1. Hypervisor!At("asked") /\ Hypervisor!Step("dmi", code')
    BY <1>3 DEF Hypervisor!DetectSystem, Hypervisor!Step
  <2>2. /\ p \in BOOLEAN /\ ~(p /\ source.guest = Hypervisor!Nobody) /\ s \in Witnesses /\ h \in Somebody
        /\ h = "tcg" => source.guest = "tcg"
        /\ p => source.system \in {"windows", "macos"}
    BY <1>0 DEF Hypervisor!Guests, Witnesses, Somebody
  <2>3. code' = Hypervisor!NotesIf(code, p, s, h)
    BY <1>3, <2>2 DEF Hypervisor!DetectSystem, Hypervisor!Step, Hypervisor!NotesIf
  <2>4. Hypervisor!IsDeclared(s)
    BY DEF Hypervisor!IsDeclared, Hypervisor!Inferences
  <2> HIDE DEF s, h, p
  <2>5. Sound(code') /\ Keeps(code, code') /\ (p => s \in code'.sources)
    BY <1>0, <2>2, <2>3, Noting
  <2>6. p => Declared(code')
    BY <2>4, <2>5 DEF Declared
  <2>. QED
    BY <2>1, <2>5, <2>6 DEF p
<1>4. ASSUME Hypervisor!DetectDmi
      PROVE  /\ Hypervisor!At("dmi") /\ Hypervisor!Step("cost", code') /\ Sound(code') /\ Keeps(code, code')
             /\ source.dmi # Hypervisor!Nobody => Declared(code')
  <2> DEFINE p == source.dmi # Hypervisor!Nobody
             h == source.dmi
  <2>1. Hypervisor!At("dmi") /\ Hypervisor!Step("cost", code') /\ code' = Hypervisor!NotesIf(code, p, "dmi", h)
    BY <1>4 DEF Hypervisor!DetectDmi, Hypervisor!Step
  <2>2. p \in BOOLEAN /\ ~(p /\ source.guest = Hypervisor!Nobody) /\ "dmi" \in Witnesses /\ h \in Somebody
        /\ (h = "tcg" => source.guest = "tcg")
    BY <1>0 DEF Hypervisor!Guests, Witnesses, Somebody, Hypervisor!Nobody
  <2> HIDE DEF h, p
  <2>5. Sound(code') /\ Keeps(code, code') /\ (p => "dmi" \in code'.sources)
    BY <1>0, <2>1, <2>2, Noting
  <2>6. p => Declared(code')
    BY <2>5 DEF Declared, Hypervisor!IsDeclared, Hypervisor!Inferences
  <2>. QED
    BY <2>1, <2>5, <2>6 DEF p
<1>5. ASSUME Hypervisor!MeasureExitCost \/ Hypervisor!SkipExitCost
      PROVE  Hypervisor!At("cost") /\ Hypervisor!Step("module", code') /\ Sound(code') /\ Keeps(code, code')
  <2>1. CASE Hypervisor!SkipExitCost
    BY <1>0, <2>1 DEF Hypervisor!SkipExitCost, Hypervisor!Step
  <2>2. CASE Hypervisor!MeasureExitCost
    <3> DEFINE dear == source.ratio >= Threshold
               c == Hypervisor!NotesIf(code, dear, "exit-cost-timing", Hypervisor!Nobody)
               r == source.ratio
    <3>1. Hypervisor!At("cost") /\ Hypervisor!Step("module", code') /\ code' = [c EXCEPT !.ratio = r, !.suggests = dear]
      BY <2>2 DEF Hypervisor!MeasureExitCost, Hypervisor!Step
    <3>2. dear \in BOOLEAN /\ "exit-cost-timing" \in Witnesses /\ "exit-cost-timing" \in Hypervisor!Inferences /\ Hypervisor!Nobody \in Somebody
          /\ Hypervisor!Nobody # "tcg" /\ r \in Nat
      BY <1>0 DEF Witnesses, Hypervisor!Inferences, Somebody, Hypervisor!Nobody, Hypervisor!Guests
    <3> HIDE DEF dear, r
    <3>3. Sound(c) /\ Keeps(code, c)
      BY <1>0, <3>2, Noting
    <3> HIDE DEF c
    <3>4. code' \in Evidence /\ code'.sources = c.sources /\ code'.hypervisor = c.hypervisor /\ (code'.called <=> c.called)
      BY <3>1, <3>2, <3>3 DEF Sound, Evidence
    <3>. QED
      BY <3>1, <3>3, <3>4 DEF Sound, Keeps
  <2>. QED
    BY <1>5, <2>1, <2>2
<1>6. ASSUME Hypervisor!NoKernelModule \/ Hypervisor!MergeKernelModule
      PROVE  Hypervisor!At("module") /\ Hypervisor!Step("conclude", code') /\ Sound(code') /\ Keeps(code, code')
  <2>1. CASE Hypervisor!NoKernelModule
    BY <1>0, <2>1 DEF Hypervisor!NoKernelModule, Hypervisor!Step
  <2>2. CASE Hypervisor!MergeKernelModule
    <3> DEFINE m == source.module[1]
               a == code.sources \cup {"kernel-module"}
               b == m.accepts # Hypervisor!Nobody
               h == IF m.accepts = Hypervisor!Nobody \/ code.hypervisor # Hypervisor!Nobody THEN code.hypervisor
                    ELSE IF m.accepts = "vmmcall" THEN "kvm" ELSE Hypervisor!Unnamed
               c == [code EXCEPT !.sources = a, !.called = b, !.hypervisor = h]
               q == code.ratio > 0 /\ m.ratio > 0
               g == m.ratio >= Threshold
               r == m.ratio
    <3>1. Hypervisor!At("module") /\ source.module # <<>> /\ Hypervisor!Step("conclude", code')
          /\ code' = IF q THEN [c EXCEPT !.ratio = r, !.suggests = g] ELSE c
      BY <2>2 DEF Hypervisor!MergeKernelModule, Hypervisor!Step
    <3>2. r \in Nat /\ (source.guest = Hypervisor!Nobody => m.accepts = Hypervisor!Nobody)
      <4>1. source.module \in Seq([accepts : {Hypervisor!Nobody, "vmcall", "vmmcall"}, ratio : Nat])
            /\ (source.guest = Hypervisor!Nobody => \A k \in DOMAIN source.module : source.module[k].accepts = Hypervisor!Nobody)
        BY <1>0 DEF Hypervisor!Guests
      <4>2. \A S : \A t \in Seq(S) : t # <<>> => 1 \in DOMAIN t /\ t[1] \in S
        OBVIOUS
      <4>3. 1 \in DOMAIN source.module /\ m \in [accepts : {Hypervisor!Nobody, "vmcall", "vmmcall"}, ratio : Nat]
        BY <3>1, <4>1, <4>2
      <4>. QED
        BY <4>1, <4>3
    <3>3. a \in SUBSET Witnesses /\ h \in Somebody /\ b \in BOOLEAN /\ g \in BOOLEAN /\ code \in Evidence
      BY <1>0 DEF Sound, Evidence, Witnesses, Somebody
    <3>4. /\ h = "tcg" <=> code.hypervisor = "tcg"
          /\ source.guest = Hypervisor!Nobody => ~b /\ h = code.hypervisor
          /\ code.sources \subseteq a /\ a \subseteq code.sources \cup {"kernel-module"}
      BY <3>2 DEF Hypervisor!Nobody, Hypervisor!Unnamed
    <3> HIDE DEF a, b, h, q, g, r
    <3>5. c \in Evidence /\ c.sources = a /\ c.hypervisor = h /\ (c.called <=> b)
      BY <3>3 DEF Evidence
    <3> HIDE DEF c
    <3>6. code' \in Evidence /\ code'.sources = a /\ code'.hypervisor = h /\ (code'.called <=> b)
      BY <3>1, <3>2, <3>3, <3>5 DEF Evidence
    <3>. QED
      BY <1>0, <3>1, <3>4, <3>6 DEF Sound, Keeps
  <2>. QED
    BY <1>6, <2>1, <2>2
<1>. QED
  BY <1>1, <1>2, <1>3, <1>4, <1>5, <1>6

\* The invariant after a step that is not the last.
LEMMA StepKeeps ==
  ASSUME HyperInv, UNCHANGED source, NEW next \in {"files", "asked", "dmi", "cost", "module", "conclude"},
         Hypervisor!Step(next, code'), Sound(code'), FoundInv', ~Hypervisor!At("done")
  PROVE  HyperInv'
<1>1. walk' = [walk EXCEPT !.pc = next] /\ UNCHANGED answers /\ answers = <<>>
  BY DEF Hypervisor!Step, HyperInv
<1>2. HyperTypes'
  BY <1>1 DEF HyperInv, HyperTypes
<1>3. Hypervisor!VerdictFollowsTheMachine'
  BY <1>1 DEF Hypervisor!VerdictFollowsTheMachine
<1>. QED
  BY <1>1, <1>2, <1>3 DEF HyperInv, Sound

\* A verdict that is drawn follows.
LEMMA Concluding ==
  ASSUME HyperInv, UNCHANGED source, Hypervisor!Conclude
  PROVE  HyperInv'
<1> DEFINE con == Hypervisor!Confidence
           imp == Hypervisor!Impact
           h == code.hypervisor
           x == con # "none" /\ code.suggests
           r == [confidence |-> con, impact |-> imp, hypervisor |-> h, exit |-> x]
<1>1. /\ answers' = <<r>> /\ walk' = [walk EXCEPT !.pc = "done"] /\ UNCHANGED code /\ walk.pc = "conclude"
      /\ source \in Hypervisor!Guests /\ Sound(code) /\ FoundInv
  BY DEF Hypervisor!Conclude, Hypervisor!At, HyperInv, HyperTypes
<1>2. con = "confirmed" <=> Declared(code) \/ code.called
  BY DEF Hypervisor!Confidence, Declared
<1>3. /\ imp = "emulated" <=> h = "tcg"
      /\ imp = "native" => con = "none"
  BY DEF Hypervisor!Impact
<1> HIDE DEF con, imp, h, x
<1>4. r.confidence = con /\ r.impact = imp /\ r.hypervisor = h
  OBVIOUS
<1> HIDE DEF r
<1>5. DOMAIN answers' = {1} /\ answers'[1] = r
  BY <1>1
<1>6. ASSUME source.guest = Hypervisor!Nobody
      PROVE  (con = "confirmed" => source.module # <<>>) /\ h \in {Hypervisor!Nobody, "tcg", Hypervisor!Unnamed}
  <2>1. ~code.called /\ h \in {Hypervisor!Nobody, "tcg", Hypervisor!Unnamed}
    BY <1>1, <1>6 DEF Sound, h
  <2>2. Declared(code) => "kernel-module" \in code.sources
    BY <1>1, <1>6 DEF Sound, Declared, Hypervisor!IsDeclared
  <2>. QED
    BY <1>1, <1>2, <1>6, <2>1, <2>2 DEF Sound
<1>7. ASSUME Hypervisor!Declares
      PROVE  con = "confirmed" /\ imp # "native"
  <2>1. Declared(code)
    BY <1>1, <1>7 DEF Hypervisor!Declares, FoundInv, Hypervisor!At, ShownByCpu
  <2>. QED
    BY <1>2, <1>3, <2>1
<1>8. ASSUME source.arch = "x86", \E b \in DOMAIN source.bases : b = 1 /\ source.bases[b].signature = "tcg"
      PROVE  imp = "emulated"
  BY <1>1, <1>3, <1>8 DEF FoundInv, Hypervisor!At, EmulatedByCpu, h
<1>9. imp = "emulated" => source.guest = "tcg" \/ (source.arch = "arm" /\ source.hertz = "emulated")
  BY <1>1, <1>3 DEF Sound, h
<1>10. Hypervisor!Declares' <=> Hypervisor!Declares
  BY DEF Hypervisor!Declares
<1>11. Hypervisor!VerdictFollowsTheMachine'
  BY <1>4, <1>5, <1>6, <1>7, <1>8, <1>9, <1>10 DEF Hypervisor!VerdictFollowsTheMachine
<1>12. HyperTypes' /\ walk'.pc = "done"
  BY <1>1 DEF HyperInv, HyperTypes
<1>13. Sound(code)' /\ FoundInv'
  BY <1>1, <1>12 DEF Sound, FoundInv, Hypervisor!At, ShownByCpu, EmulatedByCpu, Declared, Hypervisor!IsDeclared
<1>. QED
  BY <1>11, <1>12, <1>13 DEF HyperInv, Hypervisor!At

\* What has been found after each step.
LEMMA FoundKept ==
  ASSUME HyperInv, UNCHANGED source, NEW next, Hypervisor!Step(next, code'),
         \/ /\ Hypervisor!At("cpuid") /\ next = "files" /\ (ShownByCpu => Declared(code'))
            /\ EmulatedByCpu => code'.hypervisor = "tcg"
         \/ Hypervisor!At("files") /\ next = "asked" /\ Keeps(code, code') /\ (source.files # {} => Declared(code'))
         \/ Hypervisor!At("asked") /\ next = "dmi" /\ Keeps(code, code') /\ (source.says => Declared(code'))
         \/ Hypervisor!At("dmi") /\ next = "cost" /\ Keeps(code, code') /\ (source.dmi # Hypervisor!Nobody => Declared(code'))
         \/ Hypervisor!At("cost") /\ next = "module" /\ Keeps(code, code')
         \/ Hypervisor!At("module") /\ next = "conclude" /\ Keeps(code, code')
  PROVE  FoundInv'
<1>1. walk'.pc = next /\ FoundInv
  BY DEF Hypervisor!Step, HyperInv, HyperTypes
<1>2. ShownByCpu' = ShownByCpu /\ EmulatedByCpu' = EmulatedByCpu
  BY DEF ShownByCpu, EmulatedByCpu
<1>3. Keeps(code, code') /\ Declared(code) => Declared(code')
  BY Declaring
<1>4. Declared(code)' <=> Declared(code')
  BY DEF Declared, Hypervisor!IsDeclared
<1>5. Keeps(code, code') /\ code.hypervisor = "tcg" => code'.hypervisor = "tcg"
  BY DEF Keeps
<1>. QED
  BY <1>1, <1>2, <1>3, <1>4, <1>5 DEF FoundInv, Hypervisor!At

\* The invariant holds before anything is looked at.
LEMMA HyperStarts == Hypervisor!HyperInit /\ source \in Hypervisor!Guests => HyperInv
<1> SUFFICES ASSUME Hypervisor!HyperInit, source \in Hypervisor!Guests PROVE HyperInv
  OBVIOUS
<1>1. code \in Evidence /\ code.sources = {} /\ code.hypervisor = Hypervisor!Nobody /\ ~code.called
  BY DEF Hypervisor!HyperInit, Evidence, Somebody
<1>2. walk = [pc |-> "cpuid"] /\ answers = <<>>
  BY DEF Hypervisor!HyperInit
<1>3. Sound(code)
  BY <1>1 DEF Sound, Hypervisor!Nobody
<1>4. FoundInv /\ HyperTypes /\ ~Hypervisor!At("done")
  BY <1>1, <1>2 DEF FoundInv, HyperTypes, Hypervisor!At
<1>5. Hypervisor!VerdictFollowsTheMachine
  BY <1>2 DEF Hypervisor!VerdictFollowsTheMachine
<1>. QED
  BY <1>2, <1>3, <1>4, <1>5 DEF HyperInv

\* Whatever is looked at keeps it.
LEMMA HyperStep == HyperInv /\ Hypervisor!HyperNext => HyperInv'
<1> SUFFICES ASSUME HyperInv, Hypervisor!HyperNext PROVE HyperInv'
  OBVIOUS
<1>1. UNCHANGED source
  BY DEF Hypervisor!HyperNext
<1>2. CASE Hypervisor!Conclude
  BY <1>1, <1>2, Concluding
<1>3. CASE Hypervisor!DetectCpuid
  <2>1. /\ Hypervisor!At("cpuid") /\ Hypervisor!Step("files", code') /\ Sound(code')
        /\ ShownByCpu => Declared(code')
        /\ EmulatedByCpu => code'.hypervisor = "tcg"
    BY <1>1, <1>3, StepsAre
  <2>2. FoundInv' /\ ~Hypervisor!At("done")
    BY <1>1, <2>1, FoundKept DEF Hypervisor!At
  <2>. QED
    BY <1>1, <2>1, <2>2, StepKeeps
<1>4. CASE Hypervisor!DetectPlatformFiles
  <2>1. /\ Hypervisor!At("files") /\ Hypervisor!Step("asked", code') /\ Sound(code') /\ Keeps(code, code')
        /\ source.files # {} => Declared(code')
    BY <1>1, <1>4, StepsAre
  <2>2. FoundInv' /\ ~Hypervisor!At("done")
    BY <1>1, <2>1, FoundKept DEF Hypervisor!At
  <2>. QED
    BY <1>1, <2>1, <2>2, StepKeeps
<1>5. CASE Hypervisor!DetectSystem
  <2>1. /\ Hypervisor!At("asked") /\ Hypervisor!Step("dmi", code') /\ Sound(code') /\ Keeps(code, code')
        /\ source.says => Declared(code')
    BY <1>1, <1>5, StepsAre
  <2>2. FoundInv' /\ ~Hypervisor!At("done")
    BY <1>1, <2>1, FoundKept DEF Hypervisor!At
  <2>. QED
    BY <1>1, <2>1, <2>2, StepKeeps
<1>6. CASE Hypervisor!DetectDmi
  <2>1. /\ Hypervisor!At("dmi") /\ Hypervisor!Step("cost", code') /\ Sound(code') /\ Keeps(code, code')
        /\ source.dmi # Hypervisor!Nobody => Declared(code')
    BY <1>1, <1>6, StepsAre
  <2>2. FoundInv' /\ ~Hypervisor!At("done")
    BY <1>1, <2>1, FoundKept DEF Hypervisor!At
  <2>. QED
    BY <1>1, <2>1, <2>2, StepKeeps
<1>7. CASE Hypervisor!MeasureExitCost \/ Hypervisor!SkipExitCost
  <2>1. Hypervisor!At("cost") /\ Hypervisor!Step("module", code') /\ Sound(code') /\ Keeps(code, code')
    BY <1>1, <1>7, StepsAre
  <2>2. FoundInv' /\ ~Hypervisor!At("done")
    BY <1>1, <2>1, FoundKept DEF Hypervisor!At
  <2>. QED
    BY <1>1, <2>1, <2>2, StepKeeps
<1>8. CASE Hypervisor!NoKernelModule \/ Hypervisor!MergeKernelModule
  <2>1. Hypervisor!At("module") /\ Hypervisor!Step("conclude", code') /\ Sound(code') /\ Keeps(code, code')
    BY <1>1, <1>8, StepsAre
  <2>2. FoundInv' /\ ~Hypervisor!At("done")
    BY <1>1, <2>1, FoundKept DEF Hypervisor!At
  <2>. QED
    BY <1>1, <2>1, <2>2, StepKeeps
<1>. QED
  BY <1>2, <1>3, <1>4, <1>5, <1>6, <1>7, <1>8 DEF Hypervisor!HyperNext

\* By it, the verdict follows from the machine.
LEMMA HyperFollows == HyperInv => Hypervisor!VerdictFollowsTheMachine
  BY DEF HyperInv

\* It is of the evidence alone.
LEMMA HyperStutter == HyperInv /\ UNCHANGED Hypervisor!hyperVars => HyperInv'
<1> SUFFICES ASSUME HyperInv, UNCHANGED Hypervisor!hyperVars PROVE HyperInv'
  OBVIOUS
<1>1. UNCHANGED <<source, code, walk, answers>>
  BY DEF Hypervisor!hyperVars
<1>2. HyperTypes' /\ Sound(code)' /\ Hypervisor!VerdictFollowsTheMachine'
  BY <1>1 DEF HyperInv, HyperTypes, Sound, Hypervisor!VerdictFollowsTheMachine, Hypervisor!Declares
<1>3. FoundInv'
  BY <1>1 DEF HyperInv, FoundInv, Hypervisor!At, ShownByCpu, EmulatedByCpu, Declared
<1>. QED
  BY <1>1, <1>2, <1>3 DEF HyperInv, Hypervisor!At

(***************************************************************************)
(* A session with the kernel's crypto (kcrypto.rs).                        *)
(***************************************************************************)
Descriptors == 0 .. MostFiles
Owners      == {"std", "free", "session", "other"}
Opening     == {"bind", "setKey", "accept"}
Calling     == {"call", "write", "read", "send"}
SessionPcs  == {"socket", "drop", "close", "gone"} \cup Opening \cup Calling

World   == [files : [Descriptors -> Owners], fails : Nat, ready : Seq(Nat), stolen : BOOLEAN]
Reader  == [pc : SessionPcs, bound : Int, op : Int, call : Nat, rest : Nat, short : BOOLEAN, out : Seq(Nat)]
Results == Seq([ok : BOOLEAN, out : Seq(Nat), call : Nat, short : BOOLEAN])

SessionTypes == source \in Crypto!Requests /\ code \in World /\ walk \in Reader /\ answers \in Results

\* The descriptors that are the session's, by the kernel and by the session.
HeldFiles == {f \in Descriptors : code.files[f] = "session"}
Known ==
  IF walk.pc \in {"socket", "gone"} THEN {}
  ELSE IF walk.pc \in Opening \cup {"close"} THEN {walk.bound} ELSE {walk.bound, walk.op} \ {Crypto!NoFile}

FilesInv ==
  /\ ~code.stolen
  /\ HeldFiles = Known
  /\ walk.pc \notin {"socket", "gone"} => walk.bound \in Descriptors
  /\ walk.pc \in {"socket"} \cup Opening => walk.op = Crypto!NoFile
  /\ walk.pc \in Calling \cup {"drop"} => walk.op # walk.bound /\ walk.op \in Descriptors \cup {Crypto!NoFile}

\* Bytes of the call at work.
OfTheCall(s) == \A i \in DOMAIN s : s[i] = walk.call

DataInv ==
  /\ walk.pc # "read" => walk.out = <<>>
  /\ walk.pc \in {"socket", "call", "send"} \cup Opening => ~walk.short
  /\ walk.pc = "send" => source.kind = "cipher"
  /\ walk.pc = "write" =>
       /\ source.kind = "hash" /\ walk.rest <= Payload
       /\ walk.rest < Payload => OfTheCall(code.ready)
       /\ ~walk.short => walk.rest = Payload \/ (walk.rest = 0 /\ Len(code.ready) = Payload)
  /\ walk.pc = "read" =>
       /\ OfTheCall(code.ready) /\ OfTheCall(walk.out)
       /\ Len(walk.out) <= Payload
       /\ ~walk.short => Len(walk.out) + Len(code.ready) = Payload
       /\ source.kind = "hash" => walk.out = <<>>

ResultsInv ==
  \A k \in DOMAIN answers :
    answers[k].ok =>
      /\ \A i \in DOMAIN answers[k].out : answers[k].out[i] = answers[k].call
      /\ ~answers[k].short => Len(answers[k].out) = Payload

CryptoInv == SessionTypes /\ FilesInv /\ DataInv /\ ResultsInv

\* The least free descriptor is one.
LEMMA LeastIsFree ==
  ASSUME NEW S \in SUBSET Nat, S # {}
  PROVE  Crypto!Min(S) \in S
<1>1. \E x \in S : \A y \in S : x <= y
  <2>1. PICK x \in S : \A y \in S : ~(<<y, x>> \in OpToRel(<, Nat))
    <3>1. IsWellFoundedOn(OpToRel(<, Nat), Nat)
      BY NatLessThanWellFounded
    <3>. QED
      BY <3>1, WFMin
  <2>2. \A y \in S : ~(y < x)
    BY <2>1 DEF OpToRel
  <2>. QED
    BY <2>2
<1>. QED
  BY <1>1 DEF Crypto!Min

\* The invariant holds before there is a socket.
LEMMA SessionStarts == Crypto!CryptoInit /\ source \in Crypto!Requests => CryptoInv
<1> SUFFICES ASSUME Crypto!CryptoInit, source \in Crypto!Requests PROVE CryptoInv
  OBVIOUS
<1> DEFINE files == [f \in 0 .. MostFiles |-> IF f = 0 THEN "std" ELSE "free"]  fails == source.fails  none == <<>>
           no == Crypto!NoFile
<1>1. files \in [Descriptors -> Owners] /\ fails \in Nat /\ none \in Seq(Nat) /\ no \in Int /\ answers = <<>>
      /\ \A f \in Descriptors : files[f] # "session"
  BY DEF Crypto!CryptoInit, Descriptors, Owners, Crypto!Requests, Crypto!NoFile
<1>2. code = [files |-> files, fails |-> fails, ready |-> none, stolen |-> FALSE]
      /\ walk = [pc |-> "socket", bound |-> no, op |-> no, call |-> 1, rest |-> 0, short |-> FALSE, out |-> none]
  BY DEF Crypto!CryptoInit
<1>3. none = <<>>
  OBVIOUS
<1> HIDE DEF files, fails, none, no
<1>4. code \in World /\ walk \in Reader
  BY <1>1, <1>2 DEF World, Reader, SessionPcs
<1>5. walk.pc = "socket" /\ walk.out = <<>> /\ ~walk.short /\ walk.op = no /\ code.files = files /\ ~code.stolen
  BY <1>2, <1>3
<1>6. SessionTypes
  BY <1>1, <1>4 DEF SessionTypes, Results
<1>7. FilesInv
  BY <1>1, <1>5 DEF no, FilesInv, HeldFiles, Known, Opening, Calling
<1>. QED
  BY <1>1, <1>5, <1>6, <1>7 DEF CryptoInv, DataInv, ResultsInv

\* Nothing of the data is touched while there is no call.
LEMMA NoCall ==
  ASSUME DataInv, UNCHANGED source, walk'.out = walk.out, walk'.short = walk.short, walk.pc \notin Calling,
         walk'.pc \in {"drop", "close", "gone"} \/ (walk.pc \in {"socket"} \cup Opening /\ walk'.pc \in Opening \cup {"call"})
  PROVE  DataInv'
  BY DEF DataInv, Calling, Opening, OfTheCall

\* A step of a call leaves the files alone.
LEMMA FilesStay ==
  ASSUME FilesInv, walk.pc \in Calling, walk'.pc \in Calling \cup {"drop"}, walk'.bound = walk.bound, walk'.op = walk.op,
         code'.files = code.files, code'.stolen = code.stolen
  PROVE  FilesInv'
  BY DEF FilesInv, HeldFiles, Known, Opening, Calling

\* What the kernel makes of a call is of the call.
LEMMA Entries ==
  ASSUME SessionTypes, NEW n \in Nat
  PROVE  Crypto!Data(n) \in Seq(Nat) /\ Len(Crypto!Data(n)) = n /\ OfTheCall(Crypto!Data(n))
<1>1. walk.call \in Nat
  BY DEF SessionTypes, Reader
<1> HIDE DEF SessionTypes
<1>. QED
  BY <1>1 DEF Crypto!Data, OfTheCall

\* A call returns, and another may begin.
LEMMA Returning ==
  ASSUME CryptoInv, NEW ok \in BOOLEAN, NEW out \in Seq(Nat), Crypto!Return(ok, out), walk.pc \in Calling,
         UNCHANGED source, code' \in World, code'.files = code.files, code'.stolen = code.stolen,
         ok => OfTheCall(out) /\ (~walk.short => Len(out) = Payload)
  PROVE  CryptoInv'
<1> DEFINE a == [ok |-> ok, out |-> out, call |-> walk.call, short |-> walk.short]
           pc == IF walk.call = Calls THEN "drop" ELSE "call"
           call == walk.call + 1
           no == FALSE
           none == <<>>
<1>0. SessionTypes /\ FilesInv /\ DataInv /\ ResultsInv /\ walk \in Reader
  BY DEF CryptoInv, SessionTypes
<1>1. answers' = Append(answers, a) /\ walk' = [walk EXCEPT !.pc = pc, !.call = call, !.short = no, !.out = none]
  BY DEF Crypto!Return
<1>2. /\ pc \in {"drop", "call"} /\ call \in Nat /\ no \in BOOLEAN /\ ~no /\ none \in Seq(Nat) /\ none = <<>>
      /\ a \in [ok : BOOLEAN, out : Seq(Nat), call : Nat, short : BOOLEAN]
      /\ (a.ok <=> ok) /\ a.out = out /\ a.call = walk.call /\ (a.short <=> walk.short)
  BY <1>0 DEF Reader
<1> HIDE DEF a, pc, call, no, none
<1>3. /\ walk' \in Reader /\ walk'.pc \in {"drop", "call"} /\ walk'.bound = walk.bound /\ walk'.op = walk.op
      /\ ~walk'.short /\ walk'.out = <<>>
  BY <1>0, <1>1, <1>2 DEF Reader, SessionPcs, Calling
<1>4. /\ answers' \in Results /\ DOMAIN answers' = DOMAIN answers \cup {Len(answers) + 1}
      /\ answers'[Len(answers) + 1] = a /\ \A k \in DOMAIN answers : answers'[k] = answers[k]
  <2>1. answers \in Results
    BY <1>0 DEF SessionTypes
  <2>. QED
    BY <1>1, <1>2, <2>1 DEF Results
<1>5. SessionTypes'
  BY <1>0, <1>3, <1>4 DEF SessionTypes
<1>6. FilesInv'
  BY <1>0, <1>3, FilesStay DEF Calling
<1>7. DataInv'
  BY <1>3 DEF DataInv, Opening
<1>8. ResultsInv'
  <2>1. a.ok =>
          /\ \A i \in DOMAIN a.out : a.out[i] = a.call
          /\ ~a.short => Len(a.out) = Payload
    BY <1>2 DEF OfTheCall
  <2>2. \A k \in DOMAIN answers' : (k \in DOMAIN answers /\ answers'[k] = answers[k]) \/ answers'[k] = a
    BY <1>4
  <2>. QED
    BY <1>0, <2>1, <2>2 DEF ResultsInv
<1>. QED
  BY <1>5, <1>6, <1>7, <1>8 DEF CryptoInv

\* A file is closed once, and it is the session's.
LEMMA Closing ==
  ASSUME SessionTypes, ~code.stolen, NEW f \in Int, f >= 0 => f \in HeldFiles
  PROVE  /\ Crypto!Closed(code, f) \in World /\ ~Crypto!Closed(code, f).stolen /\ Crypto!Closed(code, f).ready = code.ready
         /\ {g \in Descriptors : Crypto!Closed(code, f).files[g] = "session"} = HeldFiles \ {f}
<1>0. code \in World
  BY DEF SessionTypes
<1>1. CASE f < 0
  BY <1>0, <1>1 DEF Crypto!Closed, HeldFiles, Descriptors
<1>2. CASE ~(f < 0)
  <2>1. f \in Descriptors /\ code.files[f] = "session"
    BY <1>2 DEF HeldFiles
  <2> DEFINE files == [code.files EXCEPT ![f] = "free"]
             c == [code EXCEPT !.files = files, !.stolen = @ \/ code.files[f] # "session"]
  <2>2. Crypto!Closed(code, f) = c
    BY <1>0, <1>2 DEF Crypto!Closed, World
  <2>3. files \in [Descriptors -> Owners] /\ files[f] = "free" /\ \A g \in Descriptors \ {f} : files[g] = code.files[g]
    BY <1>0, <2>1 DEF World, Owners
  <2> HIDE DEF files
  <2>4. c \in World /\ c.files = files /\ ~c.stolen /\ c.ready = code.ready
    BY <1>0, <2>1, <2>3 DEF World
  <2> HIDE DEF c
  <2>5. {g \in Descriptors : c.files[g] = "session"} = HeldFiles \ {f}
    BY <2>3, <2>4 DEF HeldFiles
  <2>. QED
    BY <2>2, <2>4, <2>5
<1>. QED
  BY <1>1, <1>2

\* The rest of the process, and the socket: what a descriptor becomes.
LEMMA BecomesOf ==
  ASSUME SessionTypes, NEW f \in Descriptors, NEW o \in Owners, code' = [code EXCEPT !.files[f] = o]
  PROVE  /\ code' \in World /\ code'.stolen = code.stolen /\ code'.ready = code.ready
         /\ HeldFiles' = IF o = "session" THEN HeldFiles \cup {f} ELSE HeldFiles \ {f}
<1>0. code \in World
  BY DEF SessionTypes
<1> DEFINE files == [code.files EXCEPT ![f] = o]
<1>1. code' = [code EXCEPT !.files = files]
  BY <1>0 DEF World
<1>2. files \in [Descriptors -> Owners] /\ files[f] = o /\ \A g \in Descriptors \ {f} : files[g] = code.files[g]
  BY <1>0 DEF World
<1> HIDE DEF files
<1>3. code' \in World /\ code'.files = files /\ code'.stolen = code.stolen /\ code'.ready = code.ready
  BY <1>0, <1>1, <1>2 DEF World
<1>. QED
  BY <1>2, <1>3 DEF HeldFiles

\* If a descriptor is free, the least of them is.
LEMMA FreeIsThere ==
  ASSUME SessionTypes, Crypto!Free # {}
  PROVE  Crypto!Min(Crypto!Free) \in Descriptors /\ code.files[Crypto!Min(Crypto!Free)] = "free" /\ Crypto!Min(Crypto!Free) \notin HeldFiles
<1>1. code \in World /\ Crypto!Free \subseteq Descriptors /\ Descriptors \subseteq Nat
  <2>1. code \in World /\ Descriptors \subseteq Nat
    BY DEF SessionTypes, Descriptors
  <2>2. DOMAIN code.files = Descriptors
    BY <2>1 DEF World
  <2>. QED
    BY <2>1, <2>2 DEF Crypto!Free
<1>2. Crypto!Min(Crypto!Free) \in Crypto!Free
  BY <1>1, LeastIsFree
<1>. QED
  BY <1>1, <1>2 DEF Crypto!Free, HeldFiles

\* A step between calls.
LEMMA Between ==
  ASSUME CryptoInv, UNCHANGED <<source, answers>>, code' \in World, walk' \in Reader, ~code'.stolen, FilesInv',
         walk'.out = walk.out, walk'.short = walk.short, walk.pc \notin Calling,
         walk'.pc \in {"drop", "close", "gone"} \/ (walk.pc \in {"socket"} \cup Opening /\ walk'.pc \in Opening \cup {"call"})
  PROVE  CryptoInv'
<1>1. DataInv'
  BY NoCall DEF CryptoInv
<1>. QED
  BY <1>1 DEF CryptoInv, SessionTypes, ResultsInv

\* A refusal that drops the session.
LEMMA Giving ==
  ASSUME CryptoInv, Crypto!Give(walk), Crypto!Refused, walk.pc \in Opening, UNCHANGED <<source, answers>>
  PROVE  CryptoInv'
<1> DEFINE fails == code.fails - 1
<1>1. code' = [code EXCEPT !.fails = fails] /\ walk' = [walk EXCEPT !.pc = "drop"]
  BY DEF Crypto!Give
<1>2. code \in World /\ walk \in Reader /\ fails \in Nat
  BY DEF CryptoInv, SessionTypes, World, Crypto!Refused
<1> HIDE DEF fails
<1>3. code' \in World /\ code'.files = code.files /\ code'.stolen = code.stolen
  BY <1>1, <1>2 DEF World
<1>4. /\ walk' \in Reader /\ walk'.pc = "drop" /\ walk'.bound = walk.bound /\ walk'.op = walk.op /\ walk'.out = walk.out
      /\ walk'.short = walk.short
  BY <1>1, <1>2 DEF Reader, SessionPcs
<1>5. FilesInv
  BY DEF CryptoInv
<1>6. HeldFiles' = HeldFiles /\ walk.op = Crypto!NoFile /\ walk.bound \in Descriptors /\ ~code.stolen /\ HeldFiles = {walk.bound} /\ Descriptors \subseteq Nat
  BY <1>3, <1>5 DEF HeldFiles, FilesInv, Known, Opening, Descriptors
<1>7. walk.bound # Crypto!NoFile
  BY <1>6 DEF Crypto!NoFile
<1>8. Known' = {walk.bound}
  BY <1>4, <1>6, <1>7 DEF Known, Opening
<1>9. FilesInv'
  BY <1>3, <1>4, <1>6, <1>7, <1>8 DEF FilesInv, Opening
<1>. QED
  BY <1>3, <1>4, <1>6, <1>9, Between DEF Opening, Calling

\* The files of a session that goes on opening.
LEMMA Opened ==
  ASSUME CryptoInv, NEW next \in Opening, walk.pc \in Opening, walk' = [walk EXCEPT !.pc = next], UNCHANGED <<source, code, answers>>
  PROVE  CryptoInv'
<1>1. code \in World /\ walk \in Reader /\ FilesInv
  BY DEF CryptoInv, SessionTypes
<1>2. /\ walk' \in Reader /\ walk'.pc = next /\ walk'.bound = walk.bound /\ walk'.op = walk.op /\ walk'.out = walk.out
      /\ walk'.short = walk.short
  BY <1>1 DEF Reader, SessionPcs
<1>3. FilesInv'
  BY <1>1, <1>2 DEF FilesInv, HeldFiles, Known, Opening, Calling
<1>. QED
  BY <1>1, <1>2, <1>3, Between DEF Opening, Calling, FilesInv

\* The session opens, or is given up.
LEMMA OpeningStep ==
  ASSUME CryptoInv, UNCHANGED <<source, answers>>,
         Crypto!NameTooLong \/ Crypto!Socket \/ Crypto!Bind \/ Crypto!SetKey \/ Crypto!Accept \/ Crypto!OutOfFiles
  PROVE  CryptoInv'
<1>0. /\ SessionTypes /\ FilesInv /\ code \in World /\ walk \in Reader /\ ~code.stolen
      /\ Descriptors \subseteq Nat /\ Descriptors \subseteq Int
  BY DEF CryptoInv, SessionTypes, FilesInv, Descriptors
<1>1. CASE walk.pc = "socket" /\ walk' = [walk EXCEPT !.pc = "gone"] /\ UNCHANGED code
  <2>1. /\ walk' \in Reader /\ walk'.pc = "gone" /\ walk'.bound = walk.bound /\ walk'.op = walk.op /\ walk'.out = walk.out
        /\ walk'.short = walk.short
    BY <1>0, <1>1 DEF Reader, SessionPcs
  <2>2. FilesInv'
    BY <1>0, <1>1, <2>1 DEF FilesInv, HeldFiles, Known, Opening, Calling
  <2>. QED
    BY <1>0, <1>1, <2>1, <2>2, Between DEF Calling
<1>2. CASE Crypto!Socket /\ Crypto!Free # {} /\ code' # code
  <2> DEFINE f == Crypto!Min(Crypto!Free)
  <2>1. walk.pc = "socket" /\ code' = [code EXCEPT !.files[f] = "session"] /\ walk' = [walk EXCEPT !.pc = "bind", !.bound = f]
    BY <1>2 DEF Crypto!Socket, Crypto!At
  <2>2. f \in Descriptors
    BY <1>0, <1>2, FreeIsThere
  <2> HIDE DEF f
  <2>3. code' \in World /\ code'.stolen = code.stolen /\ HeldFiles' = HeldFiles \cup {f}
    BY <1>0, <2>1, <2>2, BecomesOf DEF Owners
  <2>4. f \in Int
    BY <1>0, <2>2
  <2>5. /\ walk' \in Reader /\ walk'.pc = "bind" /\ walk'.bound = f /\ walk'.op = walk.op /\ walk'.out = walk.out
        /\ walk'.short = walk.short
    BY <1>0, <2>1, <2>4 DEF Reader, SessionPcs, Opening
  <2>6. HeldFiles = {} /\ walk.op = Crypto!NoFile
    BY <1>0, <2>1 DEF FilesInv, Known
  <2>7. FilesInv'
    BY <1>0, <2>2, <2>3, <2>5, <2>6 DEF FilesInv, Known, Opening, Calling
  <2>. QED
    BY <1>0, <2>1, <2>3, <2>5, <2>7, Between DEF Opening, Calling
<1>3. CASE Crypto!Bind \/ Crypto!SetKey
  <2>1. walk.pc \in Opening
    BY <1>3 DEF Crypto!Bind, Crypto!SetKey, Crypto!At, Opening
  <2>2. CASE Crypto!Refused /\ Crypto!Give(walk)
    BY <2>1, <2>2, Giving
  <2>3. CASE ~(Crypto!Refused /\ Crypto!Give(walk))
    <3> DEFINE next == IF walk.pc = "bind" /\ source.kind = "cipher" THEN "setKey" ELSE "accept"
    <3>1. walk' = [walk EXCEPT !.pc = next] /\ UNCHANGED code /\ next \in Opening
      BY <1>3, <2>3 DEF Crypto!Bind, Crypto!SetKey, Crypto!At, Opening
    <3> HIDE DEF next
    <3>. QED
      BY <2>1, <3>1, Opened
  <2>. QED
    BY <2>2, <2>3
<1>4. CASE Crypto!Accept
  <2>1. walk.pc = "accept" /\ walk.pc \in Opening
    BY <1>4 DEF Crypto!Accept, Crypto!At, Opening
  <2>2. CASE Crypto!Refused /\ Crypto!Give(walk)
    BY <2>1, <2>2, Giving
  <2>3. CASE ~(Crypto!Refused /\ Crypto!Give(walk))
    <3> DEFINE f == Crypto!Min(Crypto!Free)
    <3>1. Crypto!Free # {} /\ code' = [code EXCEPT !.files[f] = "session"] /\ walk' = [walk EXCEPT !.pc = "call", !.op = f]
      BY <1>4, <2>3 DEF Crypto!Accept, Crypto!Accepted
    <3>2. f \in Descriptors /\ f \notin HeldFiles
      BY <1>0, <3>1, FreeIsThere
    <3> HIDE DEF f
    <3>3. code' \in World /\ code'.stolen = code.stolen /\ HeldFiles' = HeldFiles \cup {f}
      BY <1>0, <3>1, <3>2, BecomesOf DEF Owners
    <3>4. f \in Int /\ f # Crypto!NoFile
      BY <1>0, <3>2 DEF Crypto!NoFile
    <3>5. /\ walk' \in Reader /\ walk'.pc = "call" /\ walk'.bound = walk.bound /\ walk'.op = f /\ walk'.out = walk.out
          /\ walk'.short = walk.short
      BY <1>0, <3>1, <3>4 DEF Reader, SessionPcs, Calling
    <3>6. HeldFiles = {walk.bound} /\ walk.bound \in Descriptors /\ walk.bound # Crypto!NoFile
      BY <1>0, <2>1 DEF FilesInv, Known, Crypto!NoFile
    <3>7. Known' = {walk.bound, f}
      BY <3>4, <3>5, <3>6 DEF Known, Opening
    <3>8. FilesInv'
      BY <1>0, <3>2, <3>3, <3>5, <3>6, <3>7 DEF FilesInv, Opening, Calling
    <3>. QED
      BY <1>0, <2>1, <3>3, <3>5, <3>8, Between DEF Opening, Calling
  <2>. QED
    BY <2>2, <2>3
<1>5. CASE Crypto!OutOfFiles /\ walk.pc = "accept"
  <2>1. walk' = [walk EXCEPT !.pc = "drop"] /\ UNCHANGED code
    BY <1>5 DEF Crypto!OutOfFiles, Crypto!At
  <2>2. /\ walk' \in Reader /\ walk'.pc = "drop" /\ walk'.bound = walk.bound /\ walk'.op = walk.op /\ walk'.out = walk.out
        /\ walk'.short = walk.short
    BY <1>0, <2>1 DEF Reader, SessionPcs
  <2>3. HeldFiles = {walk.bound} /\ walk.bound \in Descriptors /\ walk.op = Crypto!NoFile
    BY <1>0, <1>5 DEF FilesInv, Known, Opening
  <2>4. walk.bound # Crypto!NoFile
    BY <1>0, <2>3 DEF Crypto!NoFile
  <2>5. FilesInv'
    BY <1>0, <2>1, <2>2, <2>3, <2>4 DEF FilesInv, HeldFiles, Known, Opening
  <2>. QED
    BY <1>0, <1>5, <2>1, <2>2, <2>5, Between DEF Opening, Calling
<1>6. \/ walk.pc = "socket" /\ walk' = [walk EXCEPT !.pc = "gone"] /\ UNCHANGED code
      \/ Crypto!Socket /\ Crypto!Free # {} /\ code' # code
      \/ Crypto!Bind \/ Crypto!SetKey \/ Crypto!Accept
      \/ Crypto!OutOfFiles /\ walk.pc = "accept"
  <2>1. CASE Crypto!Socket
    <3>1. CASE Crypto!Refused /\ walk' = [walk EXCEPT !.pc = "gone"] /\ UNCHANGED code
      BY <2>1, <3>1 DEF Crypto!Socket, Crypto!At
    <3>2. CASE Crypto!Free # {} /\ code' = [code EXCEPT !.files[Crypto!Min(Crypto!Free)] = "session"]
      <4> DEFINE f == Crypto!Min(Crypto!Free)
      <4>1. f \in Descriptors /\ code.files[f] = "free"
        BY <1>0, <3>2, FreeIsThere
      <4> HIDE DEF f
      <4>2. code'.files[f] = "session"
        BY <1>0, <3>2, <4>1 DEF World, f
      <4>3. code' # code
        BY <4>1, <4>2
      <4>. QED
        BY <2>1, <3>2, <4>3
    <3>. QED
      BY <2>1, <3>1, <3>2 DEF Crypto!Socket
  <2>2. CASE Crypto!NameTooLong \/ Crypto!OutOfFiles
    BY <2>2 DEF Crypto!NameTooLong, Crypto!OutOfFiles, Crypto!At
  <2>. QED
    BY <2>1, <2>2
<1>. QED
  BY <1>1, <1>2, <1>3, <1>4, <1>5, <1>6

\* What a step of a call leaves of the session, when it does not return.
LEMMA Going ==
  ASSUME CryptoInv, UNCHANGED <<source, answers>>, code' \in World, walk' \in Reader, code'.files = code.files,
         code'.stolen = code.stolen, walk.pc \in Calling, walk'.pc \in Calling, walk'.bound = walk.bound,
         walk'.op = walk.op, DataInv'
  PROVE  CryptoInv'
<1>1. FilesInv'
  BY FilesStay DEF CryptoInv
<1>. QED
  BY <1>1 DEF CryptoInv, SessionTypes, ResultsInv

\* A call that fails costs a failure.
LEMMA Failing ==
  ASSUME CryptoInv, NEW n \in Nat, code' = [code EXCEPT !.fails = n] \/ UNCHANGED code, Crypto!Failed, walk.pc \in Calling, UNCHANGED source
  PROVE  CryptoInv'
<1> DEFINE none == <<>>  no == FALSE
<1>1. Crypto!Return(no, none)
  BY DEF Crypto!Failed
<1>4. none \in Seq(Nat) /\ no \in BOOLEAN /\ ~no
  OBVIOUS
<1>2. code \in World
  BY DEF CryptoInv, SessionTypes
<1>3. code' \in World /\ code'.files = code.files /\ code'.stolen = code.stolen
  BY <1>2 DEF World
<1> HIDE DEF none, no
<1>. QED
  BY <1>1, <1>3, <1>4, Returning

\* A call begins, or is refused.
LEMMA Beginning == ASSUME CryptoInv, Crypto!Begin, UNCHANGED source PROVE CryptoInv'
<1>0. /\ code \in World /\ walk \in Reader /\ DataInv /\ source \in Crypto!Requests /\ walk.pc = "call" /\ walk.pc \in Calling
      /\ UNCHANGED code /\ Payload \in Nat
  BY WorkAssumption DEF CryptoInv, SessionTypes, Crypto!Begin, Crypto!At, Calling
<1>1. CASE Crypto!Failed
  <2>1. 0 \in Nat
    OBVIOUS
  <2>. QED
    BY <1>0, <1>1, <2>1, Failing
<1>2. CASE ~Crypto!Failed
  <2> DEFINE next == IF source.kind = "hash" THEN "write" ELSE "send"
  <2>1. walk' = [walk EXCEPT !.pc = next, !.rest = Payload] /\ UNCHANGED answers
    BY <1>2 DEF Crypto!Begin
  <2>2. /\ next \in {"write", "send"} /\ (next = "write" => source.kind = "hash") /\ (next = "send" => source.kind = "cipher")
    BY <1>0 DEF Crypto!Requests
  <2> HIDE DEF next
  <2>3. /\ walk' \in Reader /\ walk'.pc = next /\ walk'.bound = walk.bound /\ walk'.op = walk.op /\ walk'.out = walk.out
        /\ walk'.short = walk.short /\ walk'.rest = Payload
    BY <1>0, <2>1, <2>2 DEF Reader, SessionPcs, Calling
  <2>4. DataInv'
    <3>1. walk.out = <<>> /\ ~walk.short
      BY <1>0 DEF DataInv
    <3>2. CASE next = "write"
      BY <1>0, <2>2, <2>3, <3>1, <3>2 DEF DataInv, Opening
    <3>3. CASE next = "send"
      BY <1>0, <2>2, <2>3, <3>1, <3>3 DEF DataInv, Opening
    <3>. QED
      BY <2>2, <3>2, <3>3
  <2>. QED
    BY <1>0, <2>1, <2>2, <2>3, <2>4, Going DEF Calling
<1>. QED
  BY <1>1, <1>2

\* What the kernel makes of n bytes.
LEMMA Making ==
  ASSUME CryptoInv, NEW n \in Nat, NEW k \in Nat, code' = [code EXCEPT !.ready = Crypto!Data(n), !.fails = k]
  PROVE  /\ code' \in World /\ code'.files = code.files /\ code'.stolen = code.stolen
         /\ code'.ready = Crypto!Data(n) /\ Len(code'.ready) = n /\ OfTheCall(code'.ready)
<1> DEFINE d == Crypto!Data(n)
<1>1. d \in Seq(Nat) /\ Len(d) = n /\ OfTheCall(d) /\ code \in World
  BY Entries DEF CryptoInv, SessionTypes
<1>2. code' = [code EXCEPT !.ready = d, !.fails = k]
  OBVIOUS
<1> HIDE DEF d
<1>3. code' \in World /\ code'.files = code.files /\ code'.stolen = code.stolen /\ code'.ready = d
  BY <1>1, <1>2 DEF World
<1>. QED
  BY <1>1, <1>3 DEF d

\* The data is written, whole or in pieces.
LEMMA WritingAll == ASSUME CryptoInv, Crypto!Write, UNCHANGED source PROVE CryptoInv'
<1>0. /\ code \in World /\ walk \in Reader /\ DataInv /\ walk.pc = "write" /\ walk.pc \in Calling
      /\ walk.rest \in Nat /\ walk.rest <= Payload /\ source.kind = "hash" /\ Payload \in Nat \ {0}
      /\ walk.out = <<>> /\ code.fails \in Nat
  BY WorkAssumption DEF CryptoInv, SessionTypes, Crypto!Write, Crypto!At, Calling, DataInv, Reader, World
<1>1. CASE walk.rest = 0
  <2>1. walk' = [walk EXCEPT !.pc = "read"] /\ UNCHANGED <<code, answers>>
    BY <1>1 DEF Crypto!Write
  <2>2. /\ walk' \in Reader /\ walk'.pc = "read" /\ walk'.bound = walk.bound /\ walk'.op = walk.op /\ walk'.out = walk.out
        /\ walk'.short = walk.short /\ walk'.call = walk.call
    BY <1>0, <2>1 DEF Reader, SessionPcs, Calling
  <2>3. OfTheCall(code.ready) /\ (~walk.short => Len(code.ready) = Payload)
    BY <1>0, <1>1 DEF DataInv
  <2>4. Len(walk'.out) = 0 /\ walk'.out = <<>> /\ DOMAIN walk'.out = {}
    BY <1>0, <2>2
  <2>5. Len(code.ready) \in Nat
    BY <1>0 DEF World
  <2>6. OfTheCall(code.ready)' /\ OfTheCall(walk.out)'
    BY <2>1, <2>2, <2>3, <2>4 DEF OfTheCall
  <2>7. ~walk'.short => Len(walk'.out) + Len(code'.ready) = Payload
    <3>1. Len(code'.ready) = Len(code.ready)
      BY <2>1
    <3>2. \A a, b, c \in Nat : a = 0 /\ b = c => a + b = c
      OBVIOUS
    <3>. QED
      BY <1>0, <2>2, <2>3, <2>4, <2>5, <3>1, <3>2
  <2>8. DataInv'
    BY <1>0, <2>2, <2>4, <2>6, <2>7 DEF DataInv, Opening
  <2>. QED
    BY <1>0, <2>1, <2>2, <2>8, Going DEF Calling
<1>2. CASE Crypto!Refused /\ Crypto!Failed /\ code' = [code EXCEPT !.fails = @ - 1]
  <2> DEFINE n == code.fails - 1
  <2>1. n \in Nat /\ code' = [code EXCEPT !.fails = n]
    BY <1>0, <1>2 DEF Crypto!Refused
  <2> HIDE DEF n
  <2>. QED
    BY <1>0, <1>2, <2>1, Failing
<1>3. ASSUME NEW n \in 1 .. walk.rest, n < walk.rest => Crypto!Refused,
             code' = [code EXCEPT !.ready = Crypto!Data(n), !.fails = IF n < walk.rest THEN @ - 1 ELSE @],
             walk' = [walk EXCEPT !.rest = @ - n, !.short = @ \/ n < walk.rest], UNCHANGED answers
      PROVE  CryptoInv'
  <2> DEFINE k == IF n < walk.rest THEN code.fails - 1 ELSE code.fails
             rest == walk.rest - n
             short == walk.short \/ n < walk.rest
  <2>1. k \in Nat /\ n \in Nat /\ code' = [code EXCEPT !.ready = Crypto!Data(n), !.fails = k]
    BY <1>0, <1>3 DEF Crypto!Refused
  <2>2. walk' = [walk EXCEPT !.rest = rest, !.short = short] /\ rest \in Nat /\ short \in BOOLEAN /\ rest < walk.rest
    BY <1>0, <1>3
  <2>3. ~short => rest = 0 /\ ~walk.short /\ n = walk.rest
    BY <1>0, <1>3
  <2> HIDE DEF k, rest, short
  <2>4. /\ code' \in World /\ code'.files = code.files /\ code'.stolen = code.stolen
        /\ code'.ready = Crypto!Data(n) /\ Len(code'.ready) = n /\ OfTheCall(code'.ready)
    BY <2>1, Making
  <2>5. /\ walk' \in Reader /\ walk'.pc = "write" /\ walk'.bound = walk.bound /\ walk'.op = walk.op /\ walk'.out = walk.out
        /\ (walk'.short <=> short) /\ walk'.call = walk.call /\ walk'.rest = rest
    BY <1>0, <2>2 DEF Reader
  <2>6. OfTheCall(code.ready)'
    BY <2>4, <2>5 DEF OfTheCall
  <2>7. ~short => n = Payload
    BY <1>0, <1>3, <2>3 DEF DataInv
  <2>8. rest <= Payload
    BY <1>0, <2>2
  <2>9. DataInv'
    BY <1>0, <2>3, <2>4, <2>5, <2>6, <2>7, <2>8 DEF DataInv, Opening
  <2>. QED
    BY <1>0, <1>3, <2>4, <2>5, <2>9, Going DEF Calling
<1>. QED
  BY <1>1, <1>2, <1>3 DEF Crypto!Write

\* Or sent, once.
LEMMA Sending == ASSUME CryptoInv, Crypto!Send, UNCHANGED source PROVE CryptoInv'
<1>0. /\ code \in World /\ walk \in Reader /\ DataInv /\ walk.pc = "send" /\ walk.pc \in Calling
      /\ source.kind = "cipher" /\ Payload \in Nat \ {0} /\ walk.out = <<>> /\ code.fails \in Nat
  BY WorkAssumption DEF CryptoInv, SessionTypes, Crypto!Send, Crypto!At, Calling, DataInv, World
<1>1. CASE Crypto!Failed /\ code' = [code EXCEPT !.fails = IF @ > 0 THEN @ - 1 ELSE 0]
  <2> DEFINE n == IF code.fails > 0 THEN code.fails - 1 ELSE 0
  <2>1. n \in Nat /\ code' = [code EXCEPT !.fails = n]
    BY <1>0, <1>1
  <2> HIDE DEF n
  <2>. QED
    BY <1>0, <1>1, <2>1, Failing
<1>2. ASSUME NEW n \in 1 .. Payload, n < Payload => Crypto!Refused,
             code' = [code EXCEPT !.ready = Crypto!Data(n), !.fails = IF n < Payload THEN @ - 1 ELSE @],
             walk' = [walk EXCEPT !.pc = "read", !.short = n < Payload], UNCHANGED answers
      PROVE  CryptoInv'
  <2> DEFINE k == IF n < Payload THEN code.fails - 1 ELSE code.fails
             short == n < Payload
  <2>1. k \in Nat /\ n \in Nat /\ code' = [code EXCEPT !.ready = Crypto!Data(n), !.fails = k]
    BY <1>0, <1>2 DEF Crypto!Refused
  <2>2. walk' = [walk EXCEPT !.pc = "read", !.short = short] /\ short \in BOOLEAN /\ (~short => n = Payload)
    BY <1>0, <1>2
  <2> HIDE DEF k, short
  <2>4. /\ code' \in World /\ code'.files = code.files /\ code'.stolen = code.stolen
        /\ code'.ready = Crypto!Data(n) /\ Len(code'.ready) = n /\ OfTheCall(code'.ready)
    BY <2>1, Making
  <2>5. /\ walk' \in Reader /\ walk'.pc = "read" /\ walk'.bound = walk.bound /\ walk'.op = walk.op /\ walk'.out = walk.out
        /\ (walk'.short <=> short) /\ walk'.call = walk.call
    BY <1>0, <2>2 DEF Reader, SessionPcs, Calling
  <2>6. walk'.out = <<>> /\ Len(walk'.out) = 0 /\ DOMAIN walk'.out = {}
    BY <1>0, <2>5
  <2>7. OfTheCall(code.ready)' /\ OfTheCall(walk.out)'
    BY <2>4, <2>5, <2>6 DEF OfTheCall
  <2>8. ~walk'.short => Len(walk'.out) + Len(code'.ready) = Payload
    BY <2>1, <2>2, <2>4, <2>5, <2>6
  <2>9. DataInv'
    BY <1>0, <2>5, <2>6, <2>7, <2>8 DEF DataInv, Opening
  <2>. QED
    BY <1>0, <1>2, <2>4, <2>5, <2>9, Going DEF Calling
<1>. QED
  BY <1>1, <1>2 DEF Crypto!Send

\* The digest is read, once.
LEMMA ReadingDigest == ASSUME CryptoInv, Crypto!ReadDigest, UNCHANGED source PROVE CryptoInv'
<1>0. /\ code \in World /\ walk \in Reader /\ DataInv /\ walk.pc = "read" /\ walk.pc \in Calling
      /\ source.kind = "hash" /\ Payload \in Nat \ {0} /\ code.fails \in Nat /\ code.ready \in Seq(Nat)
  BY WorkAssumption DEF CryptoInv, SessionTypes, Crypto!ReadDigest, Crypto!At, Calling, DataInv, World
<1>1. CASE Crypto!Refused /\ Crypto!Failed /\ code' = [code EXCEPT !.fails = @ - 1]
  <2> DEFINE n == code.fails - 1
  <2>1. n \in Nat /\ code' = [code EXCEPT !.fails = n]
    BY <1>0, <1>1 DEF Crypto!Refused
  <2> HIDE DEF n
  <2>. QED
    BY <1>0, <1>1, <2>1, Failing
<1>2. CASE Crypto!Return(TRUE, code.ready) /\ UNCHANGED code
  <2> DEFINE out == code.ready  yes == TRUE
  <2>1. Crypto!Return(yes, out) /\ UNCHANGED code
    BY <1>2
  <2>2. out \in Seq(Nat) /\ yes \in BOOLEAN
    BY <1>0
  <2>3. OfTheCall(out)
    BY <1>0 DEF DataInv
  <2>4. ~walk.short => Len(out) = Payload
    <3>1. walk.out = <<>> /\ (~walk.short => Len(walk.out) + Len(code.ready) = Payload)
      BY <1>0 DEF DataInv
    <3>2. Len(walk.out) = 0
      BY <3>1
    <3>3. \A a, b \in Nat : 0 + a = b => a = b
      OBVIOUS
    <3>4. Len(code.ready) \in Nat
      BY <1>0
    <3>. QED
      BY <1>0, <3>1, <3>2, <3>3, <3>4
  <2>5. code' \in World /\ code'.files = code.files /\ code'.stolen = code.stolen
    BY <1>0, <2>1
  <2> HIDE DEF out, yes
  <2>. QED
    BY <1>0, <2>1, <2>2, <2>3, <2>4, <2>5, Returning
<1>. QED
  BY <1>1, <1>2 DEF Crypto!ReadDigest

\* A sequence cut in two.
LEMMA CutInTwo ==
  ASSUME NEW s \in Seq(Nat), NEW n \in 1 .. Len(s)
  PROVE  /\ SubSeq(s, 1, n) \in Seq(Nat) /\ Len(SubSeq(s, 1, n)) = n
         /\ \A i \in 1 .. n : SubSeq(s, 1, n)[i] = s[i]
         /\ SubSeq(s, n + 1, Len(s)) \in Seq(Nat) /\ Len(SubSeq(s, n + 1, Len(s))) = Len(s) - n
         /\ \A i \in 1 .. Len(s) - n : SubSeq(s, n + 1, Len(s))[i] = s[n + i] /\ n + i \in DOMAIN s
<1> DEFINE rest == SubSeq(s, n + 1, Len(s))
<1>0. Len(s) \in Nat /\ n \in Nat /\ n >= 1 /\ n <= Len(s) /\ DOMAIN s = 1 .. Len(s) /\ n + 1 \in 1 .. Len(s) + 1
  OBVIOUS
<1>1. /\ SubSeq(s, 1, n) \in Seq(Nat) /\ Len(SubSeq(s, 1, n)) = n
      /\ \A i \in 1 .. n : SubSeq(s, 1, n)[i] = s[i]
  OBVIOUS
<1>2. rest \in Seq(Nat) /\ Len(rest) = Len(s) - n
  OBVIOUS
<1>3. ASSUME NEW i \in 1 .. Len(s) - n PROVE rest[i] = s[n + i] /\ n + i \in DOMAIN s
  <2>1. n + i \in 1 .. Len(s) /\ i \in 1 .. Len(s) - (n + 1) + 1 /\ (n + 1) + i - 1 = n + i
    BY <1>0, <1>3
  <2>2. rest[i] = s[(n + 1) + i - 1]
    BY <1>0, <1>3, <2>1
  <2>. QED
    BY <1>0, <2>1, <2>2
<1> HIDE DEF rest
<1>4. \A i \in 1 .. Len(s) - n : rest[i] = s[n + i] /\ n + i \in DOMAIN s
  BY <1>3
<1>. QED
  BY <1>1, <1>2, <1>4 DEF rest

\* And joined to another.
LEMMA JoinedTo ==
  ASSUME NEW s \in Seq(Nat), NEW t \in Seq(Nat)
  PROVE  /\ s \o t \in Seq(Nat) /\ Len(s \o t) = Len(s) + Len(t)
         /\ \A i \in DOMAIN (s \o t) : \/ i \in DOMAIN s /\ (s \o t)[i] = s[i]
                                      \/ \E j \in DOMAIN t : (s \o t)[i] = t[j]
<1>1. s \o t \in Seq(Nat) /\ Len(s \o t) = Len(s) + Len(t)
  OBVIOUS
<1>2. ASSUME NEW i \in 1 .. Len(s) + Len(t), ~(i \in 1 .. Len(s))
      PROVE  i - Len(s) \in 1 .. Len(t) /\ (s \o t)[i] = t[i - Len(s)]
  BY <1>2
<1>3. ASSUME NEW i \in 1 .. Len(s) PROVE (s \o t)[i] = s[i]
  OBVIOUS
<1>4. DOMAIN s = 1 .. Len(s) /\ DOMAIN t = 1 .. Len(t) /\ DOMAIN (s \o t) = 1 .. Len(s) + Len(t)
  BY <1>1
<1>. QED
  BY <1>1, <1>2, <1>3, <1>4

\* What is no more than the lesser of two.
LEMMA LeastOfTwo ==
  ASSUME NEW a \in Nat, NEW b \in Nat, NEW n \in 1 .. Crypto!Min({a, b})
  PROVE  n \in Nat /\ n >= 1 /\ n <= a /\ n <= b
<1>1. CASE a <= b
  <2>1. Crypto!Min({a, b}) = a
    BY <1>1 DEF Crypto!Min
  <2>. QED
    BY <1>1, <2>1
<1>2. CASE b <= a
  <2>1. Crypto!Min({a, b}) = b
    BY <1>2 DEF Crypto!Min
  <2>. QED
    BY <1>2, <2>1
<1>. QED
  BY <1>1, <1>2

\* The text is read until it is all there.
LEMMA ReadingCipher == ASSUME CryptoInv, Crypto!ReadCipher, UNCHANGED source PROVE CryptoInv'
<1>0. /\ code \in World /\ walk \in Reader /\ DataInv /\ walk.pc = "read" /\ walk.pc \in Calling
      /\ source.kind = "cipher" /\ Payload \in Nat \ {0} /\ code.fails \in Nat /\ code.ready \in Seq(Nat) /\ walk.out \in Seq(Nat)
  BY WorkAssumption DEF CryptoInv, SessionTypes, Crypto!ReadCipher, Crypto!At, Calling, DataInv, World, Reader
<1>1. CASE Crypto!Refused /\ Crypto!Failed /\ code' = [code EXCEPT !.fails = @ - 1]
  <2> DEFINE n == code.fails - 1
  <2>1. n \in Nat /\ code' = [code EXCEPT !.fails = n]
    BY <1>0, <1>1 DEF Crypto!Refused
  <2> HIDE DEF n
  <2>. QED
    BY <1>0, <1>1, <2>1, Failing
<1>2. CASE (Len(walk.out) = Payload \/ code.ready = <<>>) /\ Crypto!Return(TRUE, walk.out) /\ UNCHANGED code
  <2> DEFINE out == walk.out  yes == TRUE
  <2>1. Crypto!Return(yes, out) /\ UNCHANGED code
    BY <1>2
  <2>2. out \in Seq(Nat) /\ yes \in BOOLEAN
    BY <1>0
  <2>3. OfTheCall(out)
    BY <1>0 DEF DataInv
  <2>4. ~walk.short => Len(out) = Payload
    <3>1. ~walk.short => Len(walk.out) + Len(code.ready) = Payload
      BY <1>0 DEF DataInv
    <3>2. code.ready = <<>> => Len(code.ready) = 0
      OBVIOUS
    <3>3. \A a, b \in Nat : a + 0 = b => a = b
      OBVIOUS
    <3>4. Len(walk.out) \in Nat
      BY <1>0
    <3>. QED
      BY <1>0, <1>2, <3>1, <3>2, <3>3, <3>4
  <2>5. code' \in World /\ code'.files = code.files /\ code'.stolen = code.stolen
    BY <1>0, <2>1
  <2> HIDE DEF out, yes
  <2>. QED
    BY <1>0, <2>1, <2>2, <2>3, <2>4, <2>5, Returning
<1>3. ASSUME NEW n \in 1 .. Crypto!Min({Payload - Len(walk.out), Len(code.ready)}),
             walk' = [walk EXCEPT !.out = @ \o SubSeq(code.ready, 1, n)],
             code' = [code EXCEPT !.ready = SubSeq(@, n + 1, Len(@))], UNCHANGED answers
      PROVE  CryptoInv'
  <2> DEFINE s == code.ready  t == walk.out  head == SubSeq(s, 1, n)  rest == SubSeq(s, n + 1, Len(s))  out == t \o head
  <2>1. walk' = [walk EXCEPT !.out = out] /\ code' = [code EXCEPT !.ready = rest]
    BY <1>0, <1>3 DEF Reader, World
  <2>2. /\ OfTheCall(s) /\ OfTheCall(t) /\ Len(t) <= Payload /\ (~walk.short => Len(t) + Len(s) = Payload)
        /\ s \in Seq(Nat) /\ t \in Seq(Nat) /\ Len(s) \in Nat /\ Len(t) \in Nat
    <3>1. /\ OfTheCall(s) /\ OfTheCall(t) /\ Len(t) <= Payload /\ (~walk.short => Len(t) + Len(s) = Payload)
      BY <1>0 DEF DataInv
    <3>2. s \in Seq(Nat) /\ t \in Seq(Nat)
      BY <1>0
    <3> HIDE DEF s, t
    <3>3. Len(s) \in Nat /\ Len(t) \in Nat
      BY <3>2
    <3>. QED
      BY <3>1, <3>2, <3>3
  <2>3. n \in 1 .. Len(s) /\ n <= Payload - Len(t) /\ n \in Nat
    <3> DEFINE a == Payload - Len(t)  b == Len(s)
    <3>1. a \in Nat /\ b \in Nat /\ n \in 1 .. Crypto!Min({a, b})
      BY <1>0, <1>3, <2>2
    <3> HIDE DEF a, b
    <3>2. n \in Nat /\ n >= 1 /\ n <= a /\ n <= b
      BY <3>1, LeastOfTwo
    <3>. QED
      BY <3>1, <3>2 DEF a, b
  <2> HIDE DEF s, t
  <2>4. /\ head \in Seq(Nat) /\ Len(head) = n /\ (\A i \in 1 .. n : head[i] = s[i])
        /\ rest \in Seq(Nat) /\ Len(rest) = Len(s) - n
        /\ \A i \in 1 .. Len(s) - n : rest[i] = s[n + i] /\ n + i \in DOMAIN s
    BY <2>2, <2>3, CutInTwo
  <2> HIDE DEF head, rest
  <2>5. /\ out \in Seq(Nat) /\ Len(out) = Len(t) + Len(head)
        /\ \A i \in DOMAIN out : \/ i \in DOMAIN t /\ out[i] = t[i]
                                \/ \E j \in DOMAIN head : out[i] = head[j]
    BY <2>2, <2>4, JoinedTo
  <2> HIDE DEF out
  <2>6. \A j \in DOMAIN head : head[j] = walk.call
    <3>1. DOMAIN head = 1 .. n /\ DOMAIN s = 1 .. Len(s)
      BY <2>2, <2>4
    <3>2. \A j \in 1 .. n : j \in 1 .. Len(s)
      BY <2>2, <2>3
    <3>. QED
      BY <2>2, <2>4, <3>1, <3>2 DEF OfTheCall
  <2>7. OfTheCall(out)
    <3>1. \A i \in DOMAIN t : t[i] = walk.call
      BY <2>2 DEF OfTheCall
    <3>2. \A i \in DOMAIN out : out[i] = walk.call
      <4> SUFFICES ASSUME NEW i \in DOMAIN out PROVE out[i] = walk.call
        OBVIOUS
      <4>1. \/ i \in DOMAIN t /\ out[i] = t[i]
            \/ \E j \in DOMAIN head : out[i] = head[j]
        BY <2>5
      <4>. QED
        BY <2>6, <3>1, <4>1
    <3>. QED
      BY <3>2 DEF OfTheCall
  <2>8. OfTheCall(rest)
    <3>1. DOMAIN rest = 1 .. Len(s) - n
      BY <2>4
    <3>. QED
      BY <2>2, <2>4, <3>1 DEF OfTheCall
  <2>9. Len(out) <= Payload /\ (~walk.short => Len(out) + Len(rest) = Payload)
    <3>1. Len(out) = Len(t) + n
      BY <2>4, <2>5
    <3>2. \A a, b, c, d \in Nat : d <= c - a => a + d <= c /\ (a + b = c => (a + d) + (b - d) = c)
      OBVIOUS
    <3>. QED
      BY <1>0, <2>2, <2>3, <2>4, <3>1, <3>2
  <2>10. code' \in World /\ code'.files = code.files /\ code'.stolen = code.stolen /\ code'.ready = rest
    BY <1>0, <2>1, <2>4 DEF World
  <2>11. /\ walk' \in Reader /\ walk'.pc = "read" /\ walk'.bound = walk.bound /\ walk'.op = walk.op /\ walk'.out = out
         /\ (walk'.short <=> walk.short) /\ walk'.call = walk.call
    BY <1>0, <2>1, <2>5 DEF Reader
  <2>12. OfTheCall(code.ready)' /\ OfTheCall(walk.out)'
    BY <2>7, <2>8, <2>10, <2>11 DEF OfTheCall
  <2>13. DataInv'
    BY <1>0, <2>9, <2>10, <2>11, <2>12 DEF DataInv, Opening
  <2>. QED
    BY <1>0, <1>3, <2>10, <2>11, <2>13, Going
<1>. QED
  BY <1>1, <1>2, <1>3 DEF Crypto!ReadCipher

\* The files are closed, one after the other.
LEMMA ClosingStep == ASSUME CryptoInv, Crypto!CloseOp \/ Crypto!CloseBound, UNCHANGED <<source, answers>> PROVE CryptoInv'
<1>0. /\ SessionTypes /\ FilesInv /\ code \in World /\ walk \in Reader /\ ~code.stolen
      /\ Descriptors \subseteq Int /\ Crypto!NoFile \in Int /\ ~(Crypto!NoFile >= 0)
  BY DEF CryptoInv, SessionTypes, FilesInv, Descriptors, Crypto!NoFile
<1>1. CASE Crypto!CloseOp
  <2> DEFINE f == walk.op
  <2>1. walk.pc = "drop" /\ code' = Crypto!Closed(code, f) /\ walk' = [walk EXCEPT !.pc = "close"]
    BY <1>1 DEF Crypto!CloseOp, Crypto!At
  <2>2. /\ f \in Int /\ f # walk.bound /\ f \in Descriptors \cup {Crypto!NoFile} /\ HeldFiles = {walk.bound, f} \ {Crypto!NoFile}
        /\ walk.bound \in Descriptors
    BY <1>0, <2>1 DEF FilesInv, Known, Opening, Reader
  <2>3. (f >= 0 => f \in HeldFiles) /\ walk.bound # Crypto!NoFile
    BY <1>0, <2>2 DEF Descriptors, Crypto!NoFile
  <2> HIDE DEF f
  <2>4. /\ Crypto!Closed(code, f) \in World /\ ~Crypto!Closed(code, f).stolen /\ Crypto!Closed(code, f).ready = code.ready
        /\ {g \in Descriptors : Crypto!Closed(code, f).files[g] = "session"} = HeldFiles \ {f}
    BY <1>0, <2>2, <2>3, Closing
  <2>5. /\ walk' \in Reader /\ walk'.pc = "close" /\ walk'.bound = walk.bound /\ walk'.out = walk.out
        /\ walk'.short = walk.short
    BY <1>0, <2>1 DEF Reader, SessionPcs
  <2>6. HeldFiles' = {walk.bound}
    BY <2>1, <2>2, <2>3, <2>4 DEF HeldFiles
  <2>7. FilesInv'
    BY <2>1, <2>2, <2>4, <2>5, <2>6 DEF FilesInv, Known, Opening, Calling
  <2>. QED
    BY <2>1, <2>4, <2>5, <2>7, Between DEF Calling
<1>2. CASE Crypto!CloseBound
  <2> DEFINE f == walk.bound
  <2>1. walk.pc = "close" /\ code' = Crypto!Closed(code, f) /\ walk' = [walk EXCEPT !.pc = "gone"]
    BY <1>2 DEF Crypto!CloseBound, Crypto!At
  <2>2. f \in Int /\ HeldFiles = {f}
    BY <1>0, <2>1 DEF FilesInv, Known, Reader
  <2> HIDE DEF f
  <2>4. /\ Crypto!Closed(code, f) \in World /\ ~Crypto!Closed(code, f).stolen /\ Crypto!Closed(code, f).ready = code.ready
        /\ {g \in Descriptors : Crypto!Closed(code, f).files[g] = "session"} = HeldFiles \ {f}
    BY <1>0, <2>2, Closing
  <2>5. /\ walk' \in Reader /\ walk'.pc = "gone" /\ walk'.out = walk.out /\ walk'.short = walk.short
    BY <1>0, <2>1 DEF Reader, SessionPcs
  <2>6. HeldFiles' = {}
    BY <2>1, <2>2, <2>4 DEF HeldFiles
  <2>7. FilesInv'
    BY <2>1, <2>4, <2>5, <2>6 DEF FilesInv, Known, Opening, Calling
  <2>. QED
    BY <2>1, <2>4, <2>5, <2>7, Between DEF Calling
<1>. QED
  BY <1>1, <1>2

\* Other threads open and close theirs.
LEMMA OthersStep == ASSUME CryptoInv, Crypto!OtherThread, UNCHANGED <<source, answers>> PROVE CryptoInv'
<1>0. /\ SessionTypes /\ FilesInv /\ DataInv /\ ResultsInv /\ code \in World /\ ~code.stolen /\ UNCHANGED walk
  BY DEF CryptoInv, SessionTypes, FilesInv, Crypto!OtherThread
<1>1. PICK f \in Descriptors, o \in {"other", "free"} : code' = [code EXCEPT !.files[f] = o] /\ f \notin HeldFiles
  <2>1. CASE Crypto!Free # {} /\ code' = [code EXCEPT !.files[Crypto!Min(Crypto!Free)] = "other"]
    BY <1>0, <2>1, FreeIsThere
  <2>2. CASE \E f \in {f \in DOMAIN code.files : code.files[f] = "other"} : code' = [code EXCEPT !.files[f] = "free"]
    <3>1. PICK f \in DOMAIN code.files : code.files[f] = "other" /\ code' = [code EXCEPT !.files[f] = "free"]
      BY <2>2
    <3>2. f \in Descriptors
      BY <1>0 DEF World
    <3>. QED
      BY <3>1, <3>2 DEF HeldFiles
  <2>. QED
    BY <2>1, <2>2 DEF Crypto!OtherThread
<1>2. code' \in World /\ code'.stolen = code.stolen /\ code'.ready = code.ready /\ HeldFiles' = HeldFiles \ {f}
  BY <1>0, <1>1, BecomesOf DEF Owners
<1>3. HeldFiles' = HeldFiles
  BY <1>1, <1>2
<1>4. FilesInv'
  BY <1>0, <1>2, <1>3 DEF FilesInv, Known
<1>5. DataInv'
  BY <1>0, <1>2 DEF DataInv, OfTheCall
<1>. QED
  BY <1>0, <1>2, <1>4, <1>5 DEF CryptoInv, SessionTypes, ResultsInv

\* Every step keeps the invariant.
LEMMA SessionStep == CryptoInv /\ Crypto!CryptoNext => CryptoInv'
  BY OpeningStep, Beginning, WritingAll, ReadingDigest, Sending, ReadingCipher, ClosingStep, OthersStep DEF Crypto!CryptoNext

\* By it, the session is clean.
LEMMA SessionIsClean == CryptoInv => Crypto!SessionsAreClean
<1> SUFFICES ASSUME CryptoInv PROVE Crypto!SessionsAreClean
  OBVIOUS
<1>1. code \in World /\ FilesInv /\ ResultsInv
  BY DEF CryptoInv, SessionTypes
<1>2. DOMAIN code.files = Descriptors
  BY <1>1 DEF World
<1>3. Crypto!CryptoDone => \A f \in DOMAIN code.files : code.files[f] # "session"
  BY <1>1, <1>2 DEF Crypto!CryptoDone, Crypto!At, FilesInv, Known, HeldFiles
<1>. QED
  BY <1>1, <1>3 DEF Crypto!SessionsAreClean, FilesInv, ResultsInv

\* It is of the session alone.
LEMMA SessionStutter == CryptoInv /\ UNCHANGED Crypto!cryptoVars => CryptoInv'
<1> SUFFICES ASSUME CryptoInv, UNCHANGED Crypto!cryptoVars PROVE CryptoInv'
  OBVIOUS
<1>1. UNCHANGED <<source, code, walk, answers>>
  BY DEF Crypto!cryptoVars
<1>2. SessionTypes' /\ ResultsInv'
  BY <1>1 DEF CryptoInv, SessionTypes, ResultsInv
<1>3. FilesInv'
  BY <1>1 DEF CryptoInv, FilesInv, HeldFiles, Known
<1>4. DataInv'
  BY <1>1 DEF CryptoInv, DataInv, OfTheCall
<1>. QED
  BY <1>2, <1>3, <1>4 DEF CryptoInv

(***************************************************************************)
(* The passes of a benchmark (nanochrono-bench).                           *)
(***************************************************************************)
Summaries == Seq([ops : Nat, ran : Nat, failed : BOOLEAN])

Stages == {"available", "workload", "pass", "ring0", "tls"}

BenchTypes ==
  /\ source \in Crypto!Benchmarks
  /\ code \in [works : BOOLEAN, ran : Nat]
  /\ walk \in [pc : Stages, pass : 1 .. 3, repeat : Nat \ {0}, i : Nat \ {0}, ran : Nat, failed : BOOLEAN, passes : Summaries]
  /\ answers \in Seq([error : BOOLEAN, passes : Summaries])

\* Summaries that count what ran.
Counting(passes) ==
  \A k \in DOMAIN passes : /\ passes[k].ran <= passes[k].ops
                           /\ passes[k].ran = passes[k].ops \/ (passes[k].failed /\ source.kernel = "af_alg")

\* Calls that were due since the pass began.
Due == (walk.repeat - 1) * Loops[walk.pass] + (walk.i - 1)
Ran == code.ran - walk.ran

PassInv ==
  Crypto!InStage("pass") =>
    /\ source.kernel \notin {"ring0", "tls"}
    /\ walk.i - 1 <= Loops[walk.pass] /\ walk.repeat - 1 <= Repeats[walk.pass]
    /\ walk.repeat > Repeats[walk.pass] => walk.i = 1
    /\ 0 <= Ran /\ Ran <= Due /\ (~walk.failed => Ran = Due) /\ (walk.failed => source.kernel = "af_alg")

BeginInv ==
  /\ Crypto!InStage("available") \/ Crypto!InStage("workload") => walk.repeat = 1 /\ walk.i = 1 /\ walk.pass = 1 /\ walk.passes = <<>> /\ ~walk.failed
  /\ Crypto!InStage("workload") => source.kernel \notin {"ring0", "tls"}
  /\ Crypto!InStage("ring0") => source.kernel = "ring0"
  /\ Crypto!InStage("tls") => source.kernel = "tls"

LengthInv ==
  /\ source.kernel # "tls" => Len(walk.passes) = walk.pass - 1
  /\ source.kernel = "tls" => Len(walk.passes) <= walk.pass - 1 /\ (walk.pass > 1 => Len(walk.passes) >= 1)

ReportInv ==
  Crypto!BenchDone =>
    /\ answers[1].error \in BOOLEAN
    /\ ~answers[1].error => Len(answers[1].passes) \in (IF source.kernel = "tls" THEN 1 .. 3 ELSE {3})
    /\ Counting(answers[1].passes)

BenchInv == BenchTypes /\ PassInv /\ BeginInv /\ LengthInv /\ Counting(walk.passes) /\ ReportInv

\* One call more, one repeat more.
LEMMA Multiples ==
  /\ \A r, l \in Nat : (r + 1) * l = r * l + l /\ r * l \in Nat
  /\ \A l \in Nat : 0 * l = 0
  OBVIOUS

\* The invariant holds before the first pass.
LEMMA BenchStarts == Crypto!BenchInit /\ source \in Crypto!Benchmarks => BenchInv
<1> SUFFICES ASSUME Crypto!BenchInit, source \in Crypto!Benchmarks PROVE BenchInv
  OBVIOUS
<1>1. BenchTypes
  BY DEF Crypto!BenchInit, BenchTypes, Stages, Summaries
<1>2. walk.pc = "available" /\ walk.pass = 1 /\ walk.repeat = 1 /\ walk.i = 1 /\ walk.passes = <<>> /\ ~walk.failed /\ answers = <<>>
  BY DEF Crypto!BenchInit
<1>. QED
  BY <1>1, <1>2 DEF BenchInv, PassInv, BeginInv, LengthInv, Counting, ReportInv, Crypto!InStage, Crypto!BenchDone

\* A report ends the benchmark.
LEMMA Reporting ==
  ASSUME BenchInv, NEW error \in BOOLEAN, NEW passes \in Summaries, Crypto!Report(error, passes), UNCHANGED source,
         code' \in [works : BOOLEAN, ran : Nat], ~Crypto!InStage("pass") \/ UNCHANGED code,
         Counting(passes), ~error => Len(passes) \in (IF source.kernel = "tls" THEN 1 .. 3 ELSE {3})
  PROVE  BenchInv'
<1> DEFINE r == [error |-> error, passes |-> passes]
<1>1. answers' = <<r>> /\ UNCHANGED walk
  BY DEF Crypto!Report
<1>2. r.error = error /\ r.passes = passes /\ r \in [error : BOOLEAN, passes : Summaries]
  OBVIOUS
<1> HIDE DEF r
<1>3. BenchTypes'
  BY <1>1, <1>2 DEF BenchInv, BenchTypes
<1>4. answers'[1] = r /\ answers' # <<>>
  BY <1>1
<1>5. ReportInv'
  BY <1>2, <1>4 DEF ReportInv, Counting
<1>6. PassInv' /\ BeginInv' /\ LengthInv' /\ Counting(walk.passes)'
  BY <1>1 DEF BenchInv, PassInv, BeginInv, LengthInv, Counting, Crypto!InStage, Ran, Due
<1>. QED
  BY <1>3, <1>5, <1>6 DEF BenchInv

\* A pass that ends is counted.
LEMMA EndingAPass ==
  ASSUME BenchInv, ~Crypto!BenchDone, NEW passes \in Summaries, Crypto!Done(passes), UNCHANGED source,
         code' \in [works : BOOLEAN, ran : Nat],
         (Crypto!InStage("pass") /\ UNCHANGED code) \/ Crypto!InStage("ring0") \/ Crypto!InStage("tls"),
         Counting(passes),
         source.kernel # "tls" => Len(passes) = walk.pass,
         source.kernel = "tls" => Len(passes) <= walk.pass /\ Len(passes) >= 1
  PROVE  BenchInv'
<1>0. BenchTypes /\ walk.pass \in 1 .. 3 /\ Len(passes) \in Nat
  BY DEF BenchInv, BenchTypes, Summaries
<1>1. CASE walk.pass = 3
  <2>1. Crypto!Report(FALSE, passes)
    BY <1>1 DEF Crypto!Done
  <2>2. Len(passes) \in (IF source.kernel = "tls" THEN 1 .. 3 ELSE {3})
    <3>1. \A n \in Nat : n <= 3 /\ n >= 1 => n \in 1 .. 3
      OBVIOUS
    <3>2. CASE source.kernel = "tls"
      BY <1>0, <1>1, <3>1, <3>2
    <3>3. CASE source.kernel # "tls"
      BY <1>1, <3>3
    <3>. QED
      BY <3>2, <3>3
  <2>3. ~Crypto!InStage("pass") \/ UNCHANGED code
    BY DEF Crypto!InStage
  <2>. QED
    BY <2>1, <2>2, <2>3, Reporting
<1>2. CASE walk.pass # 3
  <2> DEFINE p == walk.pass + 1
             one == 1
             r == code.ran
  <2>1. walk' = [walk EXCEPT !.pass = p, !.repeat = one, !.i = one, !.passes = passes, !.ran = r, !.failed = FALSE] /\ UNCHANGED answers
    BY <1>2 DEF Crypto!Done
  <2>2. p \in 1 .. 3 /\ one \in Nat \ {0} /\ r \in Nat /\ p = walk.pass + 1 /\ one = 1 /\ r = code.ran /\ p > 1
    BY <1>0, <1>2 DEF BenchTypes
  <2> HIDE DEF p, one, r
  <2>3. BenchTypes'
    BY <1>0, <2>1, <2>2 DEF BenchTypes
  <2>4. /\ walk'.pc = walk.pc /\ walk'.pass = p /\ walk'.repeat = 1 /\ walk'.i = 1 /\ walk'.passes = passes
        /\ walk'.ran = code.ran /\ ~walk'.failed
    BY <1>0, <2>1, <2>2 DEF BenchTypes
  <2>5. LengthInv' /\ Counting(walk.passes)'
    BY <1>0, <2>2, <2>4 DEF LengthInv, Counting
  <2>6. BeginInv'
    BY <2>4 DEF BenchInv, BeginInv, Crypto!InStage
  <2>7. ASSUME Crypto!InStage("pass")' PROVE PassInv'
    <3>1. Crypto!InStage("pass") /\ UNCHANGED code
      BY <2>4, <2>7 DEF Crypto!InStage
    <3>2. Ran' = 0
      BY <1>0, <2>4, <3>1 DEF Ran, BenchTypes
    <3>3. Loops[p] \in Nat /\ Repeats[p] \in Nat
      BY <2>2, WorkAssumption
    <3>4. Due' = 0
      <4>1. Due' = (1 - 1) * Loops[p] + (1 - 1)
        BY <2>4 DEF Due
      <4>2. \A l \in Nat : (1 - 1) * l + (1 - 1) = 0
        OBVIOUS
      <4>. QED
        BY <3>3, <4>1, <4>2
    <3>5. source.kernel \notin {"ring0", "tls"}
      BY <3>1 DEF BenchInv, PassInv
    <3>. QED
      BY <2>4, <3>2, <3>3, <3>4, <3>5 DEF PassInv
  <2>8. ReportInv'
    BY <2>1 DEF ReportInv, Crypto!BenchDone
  <2>. QED
    BY <2>3, <2>5, <2>6, <2>7, <2>8 DEF BenchInv, PassInv
<1>. QED
  BY <1>1, <1>2

\* A pass more, of operations which ran.
LEMMA Counted ==
  ASSUME BenchInv, NEW e \in [ops : Nat, ran : Nat, failed : BOOLEAN], e.ran <= e.ops,
         e.ran = e.ops \/ (e.failed /\ source.kernel = "af_alg")
  PROVE  LET passes == Append(walk.passes, e)
         IN passes \in Summaries /\ Counting(passes) /\ Len(passes) = Len(walk.passes) + 1
<1>2. walk.passes \in Summaries
  BY DEF BenchInv, BenchTypes
<1>3. \A s \in Summaries : /\ Append(s, e) \in Summaries /\ Len(Append(s, e)) = Len(s) + 1 /\ DOMAIN Append(s, e) = 1 .. Len(s) + 1
                        /\ Append(s, e)[Len(s) + 1] = e /\ \A k \in DOMAIN s : Append(s, e)[k] = s[k]
                        /\ DOMAIN s = 1 .. Len(s) /\ Len(s) \in Nat
  BY DEF Summaries
<1>4. Counting(walk.passes)
  BY DEF BenchInv
<1> DEFINE a == Append(walk.passes, e)
<1>5. /\ a \in Summaries /\ Len(a) = Len(walk.passes) + 1 /\ DOMAIN a = 1 .. Len(walk.passes) + 1 /\ a[Len(walk.passes) + 1] = e
      /\ \A k \in DOMAIN walk.passes : a[k] = walk.passes[k]
      /\ DOMAIN walk.passes = 1 .. Len(walk.passes) /\ Len(walk.passes) \in Nat
  BY <1>2, <1>3
<1> HIDE DEF a
<1>6. \A k \in DOMAIN a : k \in DOMAIN walk.passes \/ a[k] = e
  BY <1>5
<1>7. Counting(a)
  BY <1>4, <1>5, <1>6 DEF Counting
<1>. QED
  BY <1>5, <1>7 DEF a

\* A pass of one operation, which was run.
LEMMA OnePass ==
  ASSUME BenchInv
  PROVE  LET passes == Append(walk.passes, [ops |-> 1, ran |-> 1, failed |-> FALSE])
         IN passes \in Summaries /\ Counting(passes) /\ Len(passes) = Len(walk.passes) + 1
<1> DEFINE e == [ops |-> 1, ran |-> 1, failed |-> FALSE]
<1>1. e \in [ops : Nat, ran : Nat, failed : BOOLEAN] /\ e.ops = 1 /\ e.ran = 1
  OBVIOUS
<1> HIDE DEF e
<1>2. e.ran <= e.ops /\ e.ran = e.ops
  BY <1>1
<1>3. LET passes == Append(walk.passes, e)
      IN passes \in Summaries /\ Counting(passes) /\ Len(passes) = Len(walk.passes) + 1
  BY <1>1, <1>2, Counted
<1>. QED
  BY <1>3 DEF e

\* Every step keeps it.
LEMMA BenchStep == BenchInv /\ Crypto!BenchNext => BenchInv'
<1> SUFFICES ASSUME BenchInv, Crypto!BenchNext PROVE BenchInv'
  OBVIOUS
<1>0. UNCHANGED source /\ BenchTypes /\ source \in Crypto!Benchmarks /\ ~Crypto!BenchDone
  BY DEF Crypto!BenchNext, BenchInv, BenchTypes
<1>1. CASE Crypto!Available
  <2>1. Crypto!InStage("available") /\ UNCHANGED code
    BY <1>1 DEF Crypto!Available
  <2>2. CASE ~source.offered
    <3>1. Crypto!Report(TRUE, <<>>)
      BY <1>1, <2>2 DEF Crypto!Available, Crypto!Fails
    <3> DEFINE none == <<>>
    <3>2. none \in Summaries /\ Counting(none)
      BY DEF Summaries, Counting
    <3>3. code' \in [works : BOOLEAN, ran : Nat] /\ ~Crypto!InStage("pass")
      BY <1>0, <2>1 DEF BenchTypes, Crypto!InStage
    <3> HIDE DEF none
    <3>4. Crypto!Report(TRUE, none)
      BY <3>1 DEF none
    <3>. QED
      BY <1>0, <3>2, <3>3, <3>4, Reporting
  <2>3. CASE source.offered
    <3> DEFINE stage == IF source.kernel \in {"ring0", "tls"} THEN source.kernel ELSE "workload"
    <3>1. walk' = [walk EXCEPT !.pc = stage] /\ UNCHANGED answers
      BY <1>1, <2>3 DEF Crypto!Available
    <3>2. stage \in Stages \ {"pass", "available"} /\ (stage = "ring0" => source.kernel = "ring0")
          /\ (stage = "tls" => source.kernel = "tls") /\ (stage = "workload" => source.kernel \notin {"ring0", "tls"})
      BY DEF Stages
    <3> HIDE DEF stage
    <3>3. BenchTypes' /\ walk'.pc = stage /\ walk'.pass = walk.pass /\ walk'.repeat = walk.repeat /\ walk'.i = walk.i
          /\ walk'.passes = walk.passes
      BY <1>0, <2>1, <3>1, <3>2 DEF BenchTypes
    <3>4. PassInv' /\ BeginInv' /\ LengthInv' /\ Counting(walk.passes)' /\ ReportInv'
      BY <1>0, <2>1, <3>1, <3>2, <3>3 DEF BenchInv, PassInv, BeginInv, LengthInv, Counting, ReportInv, Crypto!InStage, Crypto!BenchDone
    <3>. QED
      BY <3>3, <3>4 DEF BenchInv
  <2>. QED
    BY <2>2, <2>3
<1>2. CASE Crypto!Workload
  <2>1. Crypto!InStage("workload") /\ UNCHANGED code
    BY <1>2 DEF Crypto!Workload
  <2>2. CASE Crypto!Fails
    <3> DEFINE none == <<>>
    <3>1. Crypto!Report(TRUE, none)
      BY <2>2 DEF Crypto!Fails
    <3>2. none \in Summaries /\ Counting(none)
      BY DEF Summaries, Counting
    <3>3. code' \in [works : BOOLEAN, ran : Nat] /\ ~Crypto!InStage("pass")
      BY <1>0, <2>1 DEF BenchTypes, Crypto!InStage
    <3> HIDE DEF none
    <3>. QED
      BY <1>0, <3>1, <3>2, <3>3, Reporting
  <2>3. CASE ~Crypto!Fails
    <3> DEFINE r == code.ran
    <3>1. walk' = [walk EXCEPT !.pc = "pass", !.ran = r] /\ UNCHANGED answers
      BY <1>2, <2>3 DEF Crypto!Workload
    <3>2. r \in Nat /\ r = code.ran
      BY <1>0 DEF BenchTypes
    <3> HIDE DEF r
    <3>3. BenchTypes'
      BY <1>0, <2>1, <3>1, <3>2 DEF BenchTypes, Stages
    <3>4. /\ walk'.pc = "pass" /\ walk'.pass = walk.pass /\ walk'.repeat = walk.repeat /\ walk'.i = walk.i
          /\ walk'.passes = walk.passes /\ walk'.ran = code.ran /\ walk'.failed = walk.failed
      BY <1>0, <3>1, <3>2 DEF BenchTypes
    <3>5. /\ walk.repeat = 1 /\ walk.i = 1 /\ walk.pass = 1 /\ walk.passes = <<>> /\ ~walk.failed
          /\ source.kernel \notin {"ring0", "tls"}
      BY <2>1 DEF BenchInv, BeginInv
    <3>6. Ran' = 0
      BY <1>0, <2>1, <3>4 DEF Ran, BenchTypes
    <3>7. Loops[1] \in Nat /\ Repeats[1] \in Nat
      BY WorkAssumption
    <3>8. Due' = 0
      <4>1. Due' = (1 - 1) * Loops[1] + (1 - 1)
        BY <3>4, <3>5 DEF Due
      <4>2. \A l \in Nat : (1 - 1) * l + (1 - 1) = 0
        OBVIOUS
      <4>. QED
        BY <3>7, <4>1, <4>2
    <3>9. PassInv'
      BY <1>0, <3>4, <3>5, <3>6, <3>7, <3>8 DEF PassInv
    <3>10. BeginInv' /\ LengthInv' /\ Counting(walk.passes)' /\ ReportInv'
      BY <1>0, <3>1, <3>4, <3>5 DEF BenchInv, BeginInv, LengthInv, Counting, ReportInv, Crypto!InStage, Crypto!BenchDone
    <3>. QED
      BY <3>3, <3>9, <3>10 DEF BenchInv
  <2>. QED
    BY <2>2, <2>3
<1>3. CASE Crypto!RunOne \/ Crypto!NextRepeat
  <2> DEFINE l == Loops[walk.pass]  m == Repeats[walk.pass]  r == walk.repeat - 1  i == walk.i - 1  d == Ran
  <2>1. Crypto!InStage("pass") /\ UNCHANGED answers /\ walk.repeat <= Repeats[walk.pass]
    BY <1>3 DEF Crypto!RunOne, Crypto!NextRepeat
  <2>2. /\ l \in Nat /\ m \in Nat /\ r \in Nat /\ i \in Nat /\ d \in Nat /\ r < m /\ i <= l
        /\ walk.repeat = r + 1 /\ walk.i = i + 1
        /\ d <= r * l + i /\ (~walk.failed => d = r * l + i)
          /\ (walk.failed => source.kernel = "af_alg")
        /\ source.kernel \notin {"ring0", "tls"}
    <3>1. walk.pass \in 1 .. 3 /\ walk.repeat \in Nat \ {0} /\ walk.i \in Nat \ {0} /\ walk.ran \in Nat /\ code.ran \in Nat
      BY <1>0 DEF BenchTypes
    <3>2. l \in Nat /\ m \in Nat
      BY <3>1, WorkAssumption
    <3>3. /\ i <= l /\ 0 <= d /\ d <= r * l + i /\ (~walk.failed => d = r * l + i)
          /\ (walk.failed => source.kernel = "af_alg")
          /\ source.kernel \notin {"ring0", "tls"}
      BY <2>1 DEF BenchInv, PassInv, Due
    <3> HIDE DEF l, m
    <3>4. r \in Nat /\ i \in Nat /\ walk.repeat = r + 1 /\ walk.i = i + 1
      BY <3>1
    <3>5. d \in Nat
      BY <3>1, <3>3 DEF Ran
    <3>6. r < m
      BY <2>1, <3>1, <3>2 DEF m
    <3> HIDE DEF r, i, d
    <3>. QED
      BY <3>2, <3>3, <3>4, <3>5, <3>6
  <2>3. \/ /\ \/ i = l /\ walk' = [walk EXCEPT !.repeat = @ + 1, !.i = 1]
              \/ source.kernel = "af_alg" /\ walk' = [walk EXCEPT !.repeat = @ + 1, !.i = 1, !.failed = TRUE]
           /\ UNCHANGED code
        \/ /\ walk' = [walk EXCEPT !.i = @ + 1] /\ code' = [code EXCEPT !.ran = @ + 1]
           /\ i < l
    BY <1>0, <1>3, <2>2 DEF Crypto!RunOne, Crypto!NextRepeat, Crypto!CanFail
  <2>4. CASE /\ \/ i = l /\ walk' = [walk EXCEPT !.repeat = @ + 1, !.i = 1]
                \/ source.kernel = "af_alg" /\ walk' = [walk EXCEPT !.repeat = @ + 1, !.i = 1, !.failed = TRUE]
             /\ UNCHANGED code
    <3> DEFINE one == 1  next == walk.repeat + 1  bad == walk'.failed
    <3>1. one \in Nat \ {0} /\ next \in Nat \ {0} /\ one = 1 /\ next = r + 2
      BY <1>0 DEF BenchTypes
    <3>2. \/ i = l /\ walk' = [walk EXCEPT !.repeat = next, !.i = one]
          \/ source.kernel = "af_alg" /\ walk' = [walk EXCEPT !.repeat = next, !.i = one, !.failed = TRUE]
      BY <2>4
    <3> HIDE DEF one, next, i, l
    <3>3. BenchTypes'
      BY <1>0, <2>1, <2>4, <3>1, <3>2 DEF BenchTypes
    <3>4. /\ walk'.pc = walk.pc /\ walk'.pass = walk.pass /\ walk'.repeat = r + 2 /\ walk'.i = 1 /\ walk'.ran = walk.ran
          /\ walk'.passes = walk.passes
          /\ (i = l /\ bad = walk.failed) \/ (source.kernel = "af_alg" /\ bad)
      <4>1. CASE i = l /\ walk' = [walk EXCEPT !.repeat = next, !.i = one]
        BY <1>0, <3>1, <4>1 DEF BenchTypes
      <4>2. CASE source.kernel = "af_alg" /\ walk' = [walk EXCEPT !.repeat = next, !.i = one, !.failed = TRUE]
        <5>1. /\ walk'.pc = walk.pc /\ walk'.pass = walk.pass /\ walk'.repeat = next /\ walk'.i = one
              /\ walk'.ran = walk.ran /\ walk'.passes = walk.passes /\ walk'.failed = TRUE
          BY <1>0, <4>2 DEF BenchTypes
        <5>. QED
          BY <3>1, <4>2, <5>1
      <4>. QED
        BY <3>2, <4>1, <4>2
    <3> HIDE DEF bad
    <3>5. Ran' = d
      BY <2>4, <3>4 DEF Ran
    <3>6. Due' = (r + 1) * l
      <4>1. Due' = ((r + 2) - 1) * l + (1 - 1)
        BY <3>4 DEF Due, l
      <4> HIDE DEF l, r
      <4>2. \A x, y \in Nat : ((x + 2) - 1) * y + (1 - 1) = (x + 1) * y
        OBVIOUS
      <4>. QED
        BY <2>2, <4>1, <4>2
    <3>7. (r + 1) * l = r * l + l /\ r * l \in Nat
      BY <2>2, Multiples
    <3>8. 0 <= Ran' /\ Ran' <= Due' /\ (~bad => Ran' = Due') /\ (bad => source.kernel = "af_alg")
      <4> HIDE DEF l, r, i, d
      <4>1. \A p, a, b, c \in Int : c <= p + a /\ a <= b => c <= p + b
        OBVIOUS
      <4>2. 0 <= Ran' /\ Ran' <= Due'
        BY <2>2, <3>5, <3>6, <3>7, <4>1
      <4>3. ~bad => Ran' = Due'
        BY <2>2, <3>4, <3>5, <3>6, <3>7
      <4>4. bad => source.kernel = "af_alg"
        BY <2>2, <3>4
      <4>. QED
        BY <4>2, <4>3, <4>4
    <3>9. PassInv'
      BY <1>0, <2>2, <3>4, <3>8 DEF PassInv, bad, l
    <3>10. BeginInv' /\ LengthInv' /\ Counting(walk.passes)' /\ ReportInv'
      BY <1>0, <2>1, <3>4 DEF BenchInv, BeginInv, LengthInv, Counting, ReportInv, Crypto!InStage, Crypto!BenchDone
    <3>. QED
      BY <3>3, <3>9, <3>10 DEF BenchInv
  <2>5. CASE walk' = [walk EXCEPT !.i = @ + 1] /\ code' = [code EXCEPT !.ran = @ + 1] /\ i < l
    <3> DEFINE next == walk.i + 1  more == code.ran + 1
    <3>1. next \in Nat \ {0} /\ more \in Nat /\ next = i + 2 /\ more = code.ran + 1
      BY <1>0 DEF BenchTypes
    <3>2. walk' = [walk EXCEPT !.i = next] /\ code' = [code EXCEPT !.ran = more]
      BY <2>5
    <3> HIDE DEF next, more
    <3>3. BenchTypes'
      BY <1>0, <2>1, <3>1, <3>2 DEF BenchTypes
    <3>4. /\ walk'.pc = walk.pc /\ walk'.pass = walk.pass /\ walk'.repeat = r + 1 /\ walk'.i = i + 2 /\ walk'.ran = walk.ran
          /\ walk'.passes = walk.passes /\ walk'.failed = walk.failed /\ code'.ran = code.ran + 1
      BY <1>0, <2>2, <3>1, <3>2 DEF BenchTypes
    <3>5. Ran' = d + 1
      BY <1>0, <3>4 DEF Ran, BenchTypes
    <3>6. Due' = r * l + (i + 1)
      <4>1. Due' = ((r + 1) - 1) * l + ((i + 2) - 1)
        BY <3>4 DEF Due
      <4> HIDE DEF l, r, i
      <4>2. \A x, y, z \in Nat : ((x + 1) - 1) * y + ((z + 2) - 1) = x * y + (z + 1)
        OBVIOUS
      <4>. QED
        BY <2>2, <4>1, <4>2
    <3>7. 0 <= Ran' /\ Ran' <= Due' /\ (~walk.failed => Ran' = Due')
      <4> DEFINE p == r * l
      <4>1. p \in Nat
        BY <2>2, Multiples
      <4>2. Due' = p + (i + 1) /\ d <= p + i /\ (~walk.failed => d = p + i)
        BY <2>2, <3>6
      <4> HIDE DEF p, l, r, i, d
      <4>. QED
        BY <2>2, <3>5, <4>1, <4>2
    <3>8. PassInv'
      BY <1>0, <2>2, <2>5, <3>4, <3>7 DEF PassInv
    <3>9. BeginInv' /\ LengthInv' /\ Counting(walk.passes)' /\ ReportInv'
      BY <1>0, <2>1, <3>4 DEF BenchInv, BeginInv, LengthInv, Counting, ReportInv, Crypto!InStage, Crypto!BenchDone
    <3>. QED
      BY <3>3, <3>8, <3>9 DEF BenchInv
  <2>. QED
    BY <2>3, <2>4, <2>5
<1>4. CASE Crypto!EndPass
  <2> DEFINE p == walk.pass  o == Crypto!OpsOf(p)  d == Ran
             f == walk.failed
             e == [ops |-> o, ran |-> d, failed |-> f]
             passes == Append(walk.passes, e)
  <2>1. Crypto!InStage("pass") /\ UNCHANGED code /\ walk.repeat > Repeats[p] /\ Crypto!Done(passes)
    BY <1>4 DEF Crypto!EndPass, Ran
  <2>2. /\ walk.pass \in 1 .. 3 /\ walk.repeat \in Nat \ {0} /\ walk.ran \in Nat /\ code.ran \in Nat /\ walk.passes \in Summaries
        /\ code' \in [works : BOOLEAN, ran : Nat] /\ f \in BOOLEAN
    BY <1>0, <2>1 DEF BenchTypes
  <2>3. Loops[p] \in Nat /\ Repeats[p] \in Nat
    BY <2>2, WorkAssumption
  <2>4. walk.repeat - 1 = Repeats[p] /\ walk.i = 1
    <3>1. walk.repeat - 1 <= Repeats[p] /\ walk.i = 1
      BY <2>1 DEF BenchInv, PassInv
    <3>2. \A a \in Nat \ {0}, b \in Nat : a > b /\ a - 1 <= b => a - 1 = b
      OBVIOUS
    <3>. QED
      BY <2>1, <2>2, <2>3, <3>1, <3>2
  <2>5. Due = o /\ o \in Nat
    <3>1. Due = Repeats[p] * Loops[p] + (1 - 1)
      BY <2>4 DEF Due
    <3>2. \A a, b \in Nat : a * b + (1 - 1) = a * b /\ a * b \in Nat
      OBVIOUS
    <3>. QED
      BY <2>3, <3>1, <3>2 DEF Crypto!OpsOf
  <2>6. d <= o /\ (d = o \/ (f /\ source.kernel = "af_alg")) /\ source.kernel \notin {"ring0", "tls"}
    BY <2>1, <2>5 DEF BenchInv, PassInv
  <2>7. d \in Nat
    <3>1. 0 <= d
      BY <2>1 DEF BenchInv, PassInv
    <3>. QED
      BY <2>2, <3>1 DEF Ran
  <2> HIDE DEF o, d, f
  <2>8. e \in [ops : Nat, ran : Nat, failed : BOOLEAN] /\ e.ops = o /\ e.ran = d /\ e.failed = f
    BY <2>2, <2>5, <2>7
  <2> HIDE DEF e
  <2>9. passes \in Summaries /\ Counting(passes) /\ Len(passes) = Len(walk.passes) + 1
    BY <2>2, <2>6, <2>8, Counted
  <2>10. Len(passes) = walk.pass
    <3>1. Len(walk.passes) = walk.pass - 1
      BY <2>6 DEF BenchInv, LengthInv
    <3>2. \A a \in 1 .. 3 : (a - 1) + 1 = a
      OBVIOUS
    <3>. QED
      BY <2>2, <2>9, <3>1, <3>2
  <2> HIDE DEF passes
  <2>. QED
    BY <1>0, <2>1, <2>2, <2>6, <2>9, <2>10, EndingAPass
<1>5. CASE Crypto!PassOfRing0
  <2>1. Crypto!InStage("ring0") /\ source.kernel = "ring0"
    BY <1>5 DEF Crypto!PassOfRing0, BenchInv, BeginInv
  <2> DEFINE passes == Append(walk.passes, [ops |-> 1, ran |-> 1, failed |-> FALSE])
  <2>2. CASE code.works /\ source.opens
    <3>1. code' = [code EXCEPT !.ran = @ + 1] /\ Crypto!Done(passes)
      BY <1>5, <2>2 DEF Crypto!PassOfRing0
    <3>2. code' \in [works : BOOLEAN, ran : Nat]
      BY <1>0, <3>1 DEF BenchTypes
    <3>3. passes \in Summaries /\ Counting(passes) /\ Len(passes) = Len(walk.passes) + 1
      BY <1>0, OnePass
    <3>4. Len(passes) = walk.pass
      <4>1. Len(walk.passes) = walk.pass - 1 /\ walk.pass \in 1 .. 3
        BY <1>0, <2>1 DEF BenchInv, LengthInv, BenchTypes
      <4>2. \A a \in 1 .. 3 : (a - 1) + 1 = a
        OBVIOUS
      <4>. QED
        BY <3>3, <4>1, <4>2
    <3> HIDE DEF passes
    <3>. QED
      BY <1>0, <2>1, <3>1, <3>2, <3>3, <3>4, EndingAPass
  <2>3. CASE ~(code.works /\ source.opens)
    <3> DEFINE none == <<>>
    <3>1. Crypto!Report(TRUE, none) /\ UNCHANGED code
      BY <1>5, <2>3 DEF Crypto!PassOfRing0, Crypto!Fails
    <3>2. none \in Summaries /\ Counting(none)
      BY DEF Summaries, Counting
    <3>3. code' \in [works : BOOLEAN, ran : Nat] /\ ~Crypto!InStage("pass")
      BY <1>0, <2>1, <3>1 DEF BenchTypes, Crypto!InStage
    <3> HIDE DEF none
    <3>. QED
      BY <1>0, <3>1, <3>2, <3>3, Reporting
  <2>. QED
    BY <2>2, <2>3
<1>6. CASE Crypto!PassOfTls
  <2>1. Crypto!InStage("tls") /\ source.kernel = "tls"
    BY <1>6 DEF Crypto!PassOfTls, BenchInv, BeginInv
  <2>0. /\ Len(walk.passes) <= walk.pass - 1 /\ walk.pass \in 1 .. 3 /\ Len(walk.passes) \in Nat /\ walk.passes \in Summaries
        /\ walk.passes = <<>> \/ Len(walk.passes) >= 1
    <3>1. walk.passes \in Summaries /\ walk.pass \in 1 .. 3
      BY <1>0 DEF BenchTypes
    <3>2. \A t \in Summaries : Len(t) \in Nat /\ (t = <<>> \/ Len(t) >= 1)
      BY DEF Summaries
    <3>3. Len(walk.passes) <= walk.pass - 1
      BY <2>1 DEF BenchInv, LengthInv
    <3>. QED
      BY <3>1, <3>2, <3>3
  <2>2. CASE code.works
    <3> DEFINE passes == Append(walk.passes, [ops |-> 1, ran |-> 1, failed |-> FALSE])
    <3>1. code' = [code EXCEPT !.ran = @ + 1] /\ Crypto!Done(passes)
      BY <1>6, <2>2 DEF Crypto!PassOfTls
    <3>2. code' \in [works : BOOLEAN, ran : Nat]
      BY <1>0, <3>1 DEF BenchTypes
    <3>3. passes \in Summaries /\ Counting(passes) /\ Len(passes) = Len(walk.passes) + 1
      BY <1>0, OnePass
    <3>4. Len(passes) <= walk.pass /\ Len(passes) >= 1
      <4>1. \A n \in Nat, a \in 1 .. 3 : n <= a - 1 => n + 1 <= a /\ n + 1 >= 1
        OBVIOUS
      <4>. QED
        BY <2>0, <3>3, <4>1
    <3> HIDE DEF passes
    <3>. QED
      BY <1>0, <2>1, <3>1, <3>2, <3>3, <3>4, EndingAPass
  <2>3. CASE ~code.works /\ walk.passes = <<>>
    <3> DEFINE none == <<>>
    <3>1. Crypto!Report(TRUE, none) /\ UNCHANGED code
      BY <1>6, <2>3 DEF Crypto!PassOfTls, Crypto!Fails
    <3>2. none \in Summaries /\ Counting(none)
      BY DEF Summaries, Counting
    <3>3. code' \in [works : BOOLEAN, ran : Nat] /\ ~Crypto!InStage("pass")
      BY <1>0, <2>1, <3>1 DEF BenchTypes, Crypto!InStage
    <3> HIDE DEF none
    <3>. QED
      BY <1>0, <3>1, <3>2, <3>3, Reporting
  <2>4. CASE ~code.works /\ walk.passes # <<>>
    <3> DEFINE passes == walk.passes
    <3>1. Crypto!Done(passes) /\ UNCHANGED code
      BY <1>6, <2>4 DEF Crypto!PassOfTls
    <3>2. code' \in [works : BOOLEAN, ran : Nat] /\ passes \in Summaries /\ Counting(passes)
      BY <1>0, <3>1 DEF BenchTypes, BenchInv
    <3>3. Len(passes) <= walk.pass /\ Len(passes) >= 1
      <4>1. \A n \in Nat, a \in 1 .. 3 : n <= a - 1 => n <= a
        OBVIOUS
      <4>. QED
        BY <2>0, <2>4, <4>1
    <3> HIDE DEF passes
    <3>. QED
      BY <1>0, <2>1, <3>1, <3>2, <3>3, EndingAPass
  <2>. QED
    BY <2>2, <2>3, <2>4
<1>7. CASE Crypto!Turn
  <2>1. UNCHANGED <<walk, answers>> /\ code' = [code EXCEPT !.works = ~@]
    BY <1>7 DEF Crypto!Turn
  <2>2. code' \in [works : BOOLEAN, ran : Nat] /\ code'.ran = code.ran
    BY <1>0, <2>1 DEF BenchTypes
  <2>3. BenchTypes'
    BY <1>0, <2>1, <2>2 DEF BenchTypes
  <2>4. Ran' = Ran /\ Due' = Due
    BY <2>1, <2>2 DEF Ran, Due
  <2>5. PassInv' /\ BeginInv' /\ LengthInv' /\ Counting(walk.passes)' /\ ReportInv'
    BY <1>0, <2>1, <2>4 DEF BenchInv, PassInv, BeginInv, LengthInv, Counting, ReportInv, Crypto!InStage, Crypto!BenchDone
  <2>. QED
    BY <2>3, <2>5 DEF BenchInv
<1>. QED
  BY <1>1, <1>2, <1>3, <1>4, <1>5, <1>6, <1>7 DEF Crypto!BenchNext

\* By it, passes count what ran.
LEMMA BenchCounts == BenchInv => Crypto!PassesCountWhatRan
  BY DEF BenchInv, ReportInv, Crypto!PassesCountWhatRan, Counting

\* It is of the benchmark alone.
LEMMA BenchStutter == BenchInv /\ UNCHANGED Crypto!benchVars => BenchInv'
<1> SUFFICES ASSUME BenchInv, UNCHANGED Crypto!benchVars PROVE BenchInv'
  OBVIOUS
<1>1. UNCHANGED <<source, code, walk, answers>>
  BY DEF Crypto!benchVars
<1>2. Ran' = Ran /\ Due' = Due
  BY <1>1 DEF Ran, Due
<1>. QED
  BY <1>1, <1>2 DEF BenchInv, BenchTypes, PassInv, BeginInv, LengthInv, Counting, ReportInv, Crypto!InStage, Crypto!BenchDone

(***************************************************************************)
(* The counters of the core (pmu.rs, pmu_leaf.rs).                         *)
(***************************************************************************)

\* The constants are numbers.
LEMMA CountsAreNumbers ==
  /\ MaxTracked \in Nat /\ LegacyCount \in Nat /\ CoreDefault \in Nat /\ LongestBody \in Nat /\ Word \in Nat
  /\ LongestBody < Word /\ Rate \in Nat
  BY CounterAssumption

Registers   == {"select", "counter", "globalControl", "fixedControl", "overflow", "amdEvent", "amdCounter", "pmcr", "pmcnten"}
Events      == {"none", "cycles", "instructions", "reference"}
Readings    == Counters!Counters \cup {Counters!NoRoute}
PmuWorld    == [event : [Counters!Counters -> Events], value : [Counters!Counters -> Nat], written : SUBSET Registers]
PmuReader   == [pc : {"enable", "probe", "fallBack", "second", "measure"}, probe : Readings, route : Readings,
                owned : BOOLEAN]
Measurement == [cycles : Nat, instructions : Nat, route : Readings, some : BOOLEAN, delta : Nat,
                second : Readings, count : Nat, wrapped : BOOLEAN]

PmuTypes == source \in Counters!Cores /\ code \in PmuWorld /\ walk \in PmuReader /\ answers \in Seq(Measurement)

\* Every counter holds what fits in it, and none is programmed that is not known.
ValuesInv ==
  IF Counters!Leaf.kind = "unknown" THEN \A c \in Counters!Counters : code.event[c] = "none"
  ELSE \A c \in Counters!Counters : code.value[c] < Counters!CounterLimit

WrittenInv == \A r \in code.written : Counters!HasRegister(r)

\* Which counter is programmed at each step, and what is known of those before it.
IsAmd == Counters!Leaf.kind \in {"amd", "legacy"}
FixedCounts == Counters!CoreCycles \in source.live /\ 1 < Counters!Leaf.fixed

UntouchedInv ==
  Counters!At("enable") => walk.route = Counters!NoRoute /\ ~walk.owned /\ \A c \in Counters!Counters : code.event[c] = "none"

ProbeInv ==
  Counters!At("probe") =>
    /\ ~walk.owned
    /\ \/ IsAmd /\ walk.probe = Counters!General(0) /\ walk.route = Counters!NoRoute
          /\ code.event[Counters!General(0)] = "cycles" /\ Counters!Leaf.general > 0
       \/ IsAmd /\ walk.probe = Counters!General(1) /\ walk.route = Counters!General(0) /\ code.event[Counters!General(1)] = "instructions"
          /\ code.event[Counters!General(0)] = "cycles" /\ Counters!General(0) \in source.live /\ Counters!Leaf.general > 0
       \/ Counters!Leaf.kind = "intel" /\ walk.probe = Counters!CoreCycles /\ walk.route = Counters!NoRoute
          /\ code.event[Counters!CoreCycles] = IF 1 < Counters!Leaf.fixed THEN "cycles" ELSE "none"
       \/ Counters!Leaf.kind = "intel" /\ walk.probe = Counters!General(0) /\ walk.route = Counters!NoRoute
          /\ code.event[Counters!General(0)] = "cycles" /\ ~FixedCounts /\ Counters!Leaf.general > 0 /\ ~Counters!Leaf.noCycles
       \/ Counters!Leaf.kind = "arm" /\ walk.probe = Counters!CoreCycles /\ walk.route = Counters!NoRoute /\ code.event[Counters!CoreCycles] = "cycles"

FallInv == Counters!At("fallBack") => Counters!Leaf.kind = "intel" /\ walk.route = Counters!NoRoute /\ ~walk.owned /\ ~FixedCounts

InstructionsInv ==
  Counters!At("second") =>
    IsAmd /\ walk.route = Counters!General(0) /\ ~walk.owned /\ Counters!General(0) \in source.live
      /\ code.event[Counters!General(0)] = "cycles" /\ Counters!Leaf.general > 0

RouteMeasures ==
  Counters!At("measure") =>
    /\ Counters!Readable(walk.route) <=> \E c \in Counters!Counters : Counters!CountsCycles(c)
    /\ Counters!Readable(walk.route) => walk.route \in source.live /\ code.event[walk.route] = "cycles"
    /\ walk.owned => Counters!General(1) \in source.live /\ code.event[Counters!General(1)] = "instructions"

PmuInv ==
  /\ PmuTypes /\ ValuesInv /\ WrittenInv /\ UntouchedInv /\ ProbeInv /\ FallInv /\ InstructionsInv /\ RouteMeasures
  /\ Counters!MeasuresTheWork

\* The counters that are looked at differ.
LEMMA Differ ==
  /\ Counters!CoreCycles \in Counters!Counters /\ Counters!General(0) \in Counters!Counters /\ Counters!General(1) \in Counters!Counters
  /\ Counters!CoreCycles # Counters!General(0) /\ Counters!CoreCycles # Counters!General(1) /\ Counters!General(0) # Counters!General(1) /\ Counters!NoRoute \notin Counters!Counters
  BY DEF Counters!Counters, Counters!Fixed, Counters!General, Counters!CoreCycles, Counters!NoRoute

\* What the leaves say of a core.
LEMMA LeafIs ==
  ASSUME source \in Counters!Cores
  PROVE  /\ Counters!Leaf.kind \in {"unknown", "intel", "amd", "legacy", "arm"} /\ Counters!Leaf.general \in Nat /\ Counters!Leaf.fixed \in Nat
         /\ Counters!Leaf.kind # "unknown" => Counters!Leaf.width = source.width
         /\ Counters!Leaf.kind = "unknown" => Counters!Leaf.general = 0
         /\ Counters!Leaf.kind = "intel" => source.vendor = "intel" /\ Counters!Leaf.general = source.general
                                   /\ (Counters!Leaf.fixed # 0 => source.version >= 2)
         /\ IsAmd => source.vendor = "amd" /\ (source.extended \/ source.extCore) /\ ~Counters!Leaf.noCycles
         /\ Counters!Leaf.kind = "arm" => source.vendor = "arm" /\ Counters!Leaf.general = 0
<1>1. CASE source.vendor = "intel"
  BY <1>1 DEF Counters!Cores, Counters!Leaf, Counters!Architectural, Counters!NoPmu, IsAmd
<1>2. CASE source.vendor = "amd"
  BY <1>2, CountsAreNumbers DEF Counters!Cores, Counters!Leaf, Counters!Amd, Counters!NoPmu, Counters!AtMost, IsAmd
<1>3. CASE source.vendor = "arm"
  BY <1>3 DEF Counters!Cores, Counters!Leaf, Counters!Arm, Counters!NoPmu, IsAmd
<1>4. CASE source.vendor = "other"
  BY <1>4 DEF Counters!Cores, Counters!Leaf, Counters!NoPmu, IsAmd
<1>. QED
  BY <1>1, <1>2, <1>3, <1>4 DEF Counters!Cores

\* A piece of work does not go round a counter.
LEMMA LimitIs ==
  ASSUME source \in Counters!Cores, Counters!Leaf.kind # "unknown"
  PROVE  Counters!CounterLimit \in Nat /\ LongestBody < Counters!CounterLimit /\ source.leftover < Counters!CounterLimit
<1>1. Counters!CounterLimit = 2 ^ source.width
  BY LeafIs DEF Counters!CounterLimit
<1> DEFINE l == 2 ^ source.width
<1>2. l \in Nat \ (0 .. LongestBody) /\ source.leftover < l
  BY DEF Counters!Cores
<1> HIDE DEF l
<1>3. LongestBody < l
  BY <1>2, CountsAreNumbers
<1>. QED
  BY <1>1, <1>2, <1>3 DEF l

\* Which counters read_route() reads.
LEMMA ReadableIs ==
  /\ Counters!Readable(Counters!CoreCycles) <=> Counters!Leaf.kind = "arm" \/ 1 < Counters!Leaf.fixed
  /\ Counters!Readable(Counters!General(0)) <=> IsAmd \/ 0 < Counters!Leaf.general
  /\ Counters!Readable(Counters!General(1)) <=> IsAmd \/ 1 < Counters!Leaf.general
  /\ ~Counters!Readable(Counters!NoRoute)
  BY DEF Counters!Readable, Counters!CoreCycles, Counters!Fixed, Counters!General, Counters!NoRoute, IsAmd

\* A counter goes round at most once.
LEMMA Around ==
  \A l \in Nat : \A v, n \in 0 .. (l - 1) :
    /\ (v + n) % l = (IF v + n < l THEN v + n ELSE v + n - l)
    /\ (v + n) % l \in 0 .. (l - 1)
    /\ (v + n) % l >= v => ((v + n) % l) - v = n
    /\ n # 0 => (v + n) % l # v
  OBVIOUS

\* What the counters hold after a piece of work.
LEMMA WorkedIs ==
  ASSUME PmuTypes, ValuesInv, NEW n \in 0 .. LongestBody, NEW i \in 0 .. LongestBody
  PROVE  /\ Counters!Worked(n, i) \in PmuWorld /\ Counters!Worked(n, i).event = code.event /\ Counters!Worked(n, i).written = code.written
         /\ Counters!Leaf.kind # "unknown" => \A c \in Counters!Counters : Counters!Worked(n, i).value[c] < Counters!CounterLimit
         /\ \A c \in Counters!Counters : c \notin source.live \/ code.event[c] = "none" => Counters!Worked(n, i).value[c] = code.value[c]
         /\ \A c \in source.live : code.event[c] = "cycles" =>
              /\ Counters!Worked(n, i).value[c] >= code.value[c] => Counters!Worked(n, i).value[c] - code.value[c] = n
              /\ n # 0 => Counters!Worked(n, i).value[c] # code.value[c]
         /\ \A c \in source.live : code.event[c] = "instructions" =>
              /\ Counters!Worked(n, i).value[c] >= code.value[c] => Counters!Worked(n, i).value[c] - code.value[c] = i
              /\ i # 0 => Counters!Worked(n, i).value[c] # code.value[c]
<1> DEFINE f == [c \in Counters!Counters |-> Counters!Grown(c, n, i)]
<1>1. Counters!Worked(n, i) = [code EXCEPT !.value = f]
  BY DEF Counters!Worked
<1>2. \A c \in Counters!Counters : f[c] = Counters!Grown(c, n, i)
  OBVIOUS
<1>3. \A c \in Counters!Counters : code.value[c] \in Nat /\ code.event[c] \in Events
  BY DEF PmuTypes, PmuWorld
<1>4. source.live \subseteq Counters!Counters
  BY DEF PmuTypes, Counters!Cores
<1>5. ASSUME NEW c \in Counters!Counters
      PROVE  /\ f[c] \in Nat
             /\ Counters!Leaf.kind # "unknown" => f[c] < Counters!CounterLimit
             /\ c \notin source.live \/ code.event[c] = "none" => f[c] = code.value[c]
             /\ c \in source.live /\ code.event[c] = "cycles" =>
                  /\ f[c] >= code.value[c] => f[c] - code.value[c] = n
                  /\ n # 0 => f[c] # code.value[c]
             /\ c \in source.live /\ code.event[c] = "instructions" =>
                  /\ f[c] >= code.value[c] => f[c] - code.value[c] = i
                  /\ i # 0 => f[c] # code.value[c]
  <2>1. CASE c \notin source.live \/ code.event[c] = "none"
    <3>1. f[c] = code.value[c]
      BY <1>2, <1>5, <2>1 DEF Counters!Grown
    <3>. QED
      BY <1>3, <1>5, <2>1, <3>1 DEF ValuesInv
  <2>2. CASE c \in source.live /\ code.event[c] # "none"
    <3> DEFINE v == code.value[c]
               l == Counters!CounterLimit
               g == IF code.event[c] = "cycles" THEN n ELSE i
    <3>1. Counters!Leaf.kind # "unknown"
      BY <1>5, <2>2 DEF ValuesInv
    <3>2. l \in Nat /\ LongestBody < l
      BY <3>1, LimitIs DEF PmuTypes
    <3>3. v \in 0 .. (l - 1)
      <4>1. v < l
        BY <1>5, <3>1 DEF ValuesInv
      <4>2. v \in Nat
        BY <1>3, <1>5
      <4> HIDE DEF v, l
      <4>. QED
        BY <3>2, <4>1, <4>2
    <3>4. g \in 0 .. (l - 1)
      <4> HIDE DEF l
      <4>. QED
        BY <3>2, CountsAreNumbers
    <3>5. f[c] = (v + g) % l
      BY <1>2, <1>5, <2>2 DEF Counters!Grown
    <3> HIDE DEF v, l, g, f
    <3>6. /\ (v + g) % l \in 0 .. (l - 1)
          /\ (v + g) % l >= v => ((v + g) % l) - v = g
          /\ g # 0 => (v + g) % l # v
      BY <3>2, <3>3, <3>4, Around
    <3>7. /\ f[c] \in Nat /\ f[c] < l
          /\ f[c] >= v => f[c] - v = g
          /\ g # 0 => f[c] # v
      BY <3>2, <3>5, <3>6
    <3>8. (code.event[c] = "cycles" => g = n) /\ (code.event[c] = "instructions" => g = i)
      BY DEF g
    <3>. QED
      BY <2>2, <3>7, <3>8 DEF v, l
  <2>. QED
    BY <2>1, <2>2
<1>6. f \in [Counters!Counters -> Nat]
  BY <1>5
<1> HIDE DEF f
<1>7. Counters!Worked(n, i) \in PmuWorld /\ Counters!Worked(n, i).event = code.event /\ Counters!Worked(n, i).written = code.written /\ Counters!Worked(n, i).value = f
  BY <1>1, <1>6 DEF PmuTypes, PmuWorld
<1>. QED
  BY <1>4, <1>5, <1>7

\* The counters as they are programmed.
LEMMA ProgrammedIs ==
  ASSUME PmuTypes, ValuesInv, Counters!Leaf.kind # "unknown", NEW c \in Counters!Counters, NEW event \in Events, NEW registers \in SUBSET Registers,
         code' = Counters!Programmed(c, event, registers), source' = source
  PROVE  /\ code' \in PmuWorld /\ ValuesInv' /\ code'.written = code.written \cup registers
         /\ code'.event[c] = event /\ \A d \in Counters!Counters \ {c} : code'.event[d] = code.event[d]
<1>1. code' = [code EXCEPT !.event[c] = event, !.value[c] = 0, !.written = @ \cup registers]
  BY DEF Counters!Programmed
<1>2. code.event \in [Counters!Counters -> Events] /\ code.value \in [Counters!Counters -> Nat] /\ code.written \subseteq Registers
  BY DEF PmuTypes, PmuWorld
<1>3. /\ code'.event = [code.event EXCEPT ![c] = event] /\ code'.value = [code.value EXCEPT ![c] = 0]
      /\ code'.written = code.written \cup registers
  BY <1>1 DEF PmuTypes, PmuWorld
<1>4. code' \in PmuWorld
  <2> DEFINE e == [code.event EXCEPT ![c] = event]
             v == [code.value EXCEPT ![c] = 0]
             w == code.written \cup registers
  <2>1. code' = [code EXCEPT !.event = e, !.value = v, !.written = w]
    BY <1>1 DEF PmuTypes, PmuWorld
  <2>2. e \in [Counters!Counters -> Events] /\ v \in [Counters!Counters -> Nat] /\ w \in SUBSET Registers
    BY <1>2
  <2> HIDE DEF e, v, w
  <2>. QED
    BY <2>1, <2>2 DEF PmuTypes, PmuWorld
<1>5. Counters!Leaf' = Counters!Leaf /\ Counters!CounterLimit' = Counters!CounterLimit
  BY DEF Counters!Leaf, Counters!CounterLimit, Counters!Architectural, Counters!Amd, Counters!Arm
<1>6. 0 < Counters!CounterLimit
  BY LimitIs, CountsAreNumbers DEF PmuTypes
<1>7. ValuesInv'
  BY <1>2, <1>3, <1>5, <1>6 DEF ValuesInv
<1>. QED
  BY <1>2, <1>3, <1>4, <1>7

\* What is of the core alone stays as it is.
LEMMA Same ==
  ASSUME source' = source
  PROVE  /\ Counters!Leaf' = Counters!Leaf /\ Counters!CounterLimit' = Counters!CounterLimit /\ (IsAmd' <=> IsAmd) /\ (FixedCounts' <=> FixedCounts)
         /\ \A c : (Counters!Readable(c)' <=> Counters!Readable(c)) /\ (Counters!CountsCycles(c)' <=> Counters!CountsCycles(c))
         /\ \A r : Counters!HasRegister(r)' <=> Counters!HasRegister(r)
<1>1. Counters!Leaf' = Counters!Leaf
  BY DEF Counters!Leaf, Counters!Architectural, Counters!Amd, Counters!Arm
<1>. QED
  BY <1>1 DEF Counters!CounterLimit, IsAmd, FixedCounts, Counters!Readable, Counters!CountsCycles, Counters!HasRegister

\* What was measured was.
LEMMA StillMeasured ==
  ASSUME source' = source, answers' = answers, Counters!MeasuresTheWork, WrittenInv'
  PROVE  Counters!MeasuresTheWork'
  BY Same DEF Counters!MeasuresTheWork, WrittenInv

\* Without a route, nothing is to count, or the answer is wrong.
LEMMA SettledWithout ==
  ASSUME PmuInv, source' = source, answers' = answers, code' = code, Counters!Settled(Counters!NoRoute), ~walk.owned,
         \A c \in Counters!Counters : ~Counters!CountsCycles(c)
  PROVE  PmuInv'
<1>1. walk' = [walk EXCEPT !.pc = "measure", !.route = Counters!NoRoute]
  BY DEF Counters!Settled
<1>2. walk' \in PmuReader
  BY <1>1 DEF PmuInv, PmuTypes, PmuReader, Readings
<1>3. walk'.pc = "measure" /\ walk'.route = Counters!NoRoute /\ ~walk'.owned
  BY <1>1 DEF PmuInv, PmuTypes, PmuReader
<1>4. PmuTypes'
  BY <1>2 DEF PmuInv, PmuTypes, PmuWorld, PmuReader
<1>5. ValuesInv' /\ WrittenInv'
  BY Same DEF PmuInv, ValuesInv, WrittenInv
<1>6. UntouchedInv' /\ ProbeInv' /\ FallInv' /\ InstructionsInv'
  BY <1>3 DEF UntouchedInv, ProbeInv, FallInv, InstructionsInv, Counters!At
<1>7. RouteMeasures'
  BY <1>3, Same, ReadableIs DEF RouteMeasures, Counters!At
<1>8. Counters!MeasuresTheWork'
  BY <1>5, StillMeasured DEF PmuInv
<1>. QED
  BY <1>4, <1>5, <1>6, <1>7, <1>8 DEF PmuInv

\* The first counter that is watched, and the one of a core that has none of the fixed ones.
LEMMA WatchStep ==
  ASSUME PmuInv, source' = source, answers' = answers, Counters!Leaf.kind # "unknown", NEW c \in Counters!Counters, Counters!Watch(c), ~walk.owned,
         code' \in PmuWorld, ValuesInv', WrittenInv', ProbeInv'
  PROVE  PmuInv'
<1>1. walk' = [walk EXCEPT !.pc = "probe", !.probe = c]
  BY DEF Counters!Watch
<1>2. walk' \in PmuReader /\ walk'.pc = "probe"
  BY <1>1 DEF PmuInv, PmuTypes, PmuReader, Readings
<1>3. PmuTypes'
  BY <1>2 DEF PmuInv, PmuTypes, PmuWorld, PmuReader
<1>4. UntouchedInv' /\ FallInv' /\ InstructionsInv' /\ RouteMeasures'
  BY <1>2 DEF UntouchedInv, FallInv, InstructionsInv, RouteMeasures, Counters!At
<1>5. Counters!MeasuresTheWork'
  BY StillMeasured DEF PmuInv
<1>. QED
  BY <1>3, <1>4, <1>5 DEF PmuInv

\* The first counter of an AMD core.
LEMMA AmdStep ==
  ASSUME PmuInv, Counters!EnableAmd, source' = source, answers' = answers
  PROVE  PmuInv'
<1>1. Counters!At("enable") /\ IsAmd /\ Counters!Leaf.kind # "unknown" /\ walk.route = Counters!NoRoute /\ ~walk.owned /\ source \in Counters!Cores
  BY DEF Counters!EnableAmd, IsAmd, PmuInv, UntouchedInv, PmuTypes
<1>2. CASE Counters!EnableGeneral(0, "cycles")
  <2>1. 0 < Counters!Leaf.general /\ code' = Counters!Programmed(Counters!General(0), "cycles", {"amdEvent", "amdCounter"}) /\ Counters!Watch(Counters!General(0))
    BY <1>2 DEF Counters!EnableGeneral
  <2> DEFINE a == Counters!General(0)
             r == {"amdEvent", "amdCounter"}
             e == "cycles"
  <2>2. a \in Counters!Counters /\ r \in SUBSET Registers /\ e \in Events
    BY Differ DEF Registers, Events
  <2>3. code' = Counters!Programmed(a, e, r)
    BY <2>1
  <2> HIDE DEF a, r, e
  <2>4. code' \in PmuWorld /\ ValuesInv' /\ code'.written = code.written \cup r /\ code'.event[a] = e
    BY <1>1, <2>2, <2>3, ProgrammedIs DEF PmuInv
  <2>5. \A x \in r : Counters!HasRegister(x)
    BY <1>1, LeafIs DEF r, Counters!HasRegister
  <2>6. WrittenInv'
    BY <2>4, <2>5, Same DEF PmuInv, WrittenInv
  <2>7. walk'.probe = Counters!General(0) /\ walk'.route = Counters!NoRoute /\ ~walk'.owned
    BY <1>1, <2>1 DEF Counters!Watch, PmuInv, PmuTypes, PmuReader
  <2>8. code'.event[Counters!General(0)] = "cycles"
    BY <2>4 DEF a, e
  <2>9. ProbeInv'
    BY <1>1, <2>1, <2>7, <2>8, Same DEF ProbeInv
  <2>. QED
    BY <1>1, <2>1, <2>2, <2>4, <2>6, <2>9, WatchStep DEF a
<1>3. CASE Counters!Leaf.general = 0 /\ Counters!Settled(Counters!NoRoute) /\ code' = code
  <2>1. \A c \in Counters!Counters : ~Counters!CountsCycles(c)
    BY <1>1, <1>3, Differ DEF Counters!CountsCycles, IsAmd
  <2>. QED
    BY <1>1, <1>3, <2>1, SettledWithout
<1>. QED
  BY <1>2, <1>3 DEF Counters!EnableAmd

\* A core without counters.
LEMMA NothingStep ==
  ASSUME PmuInv, Counters!EnableNothing, source' = source, answers' = answers
  PROVE  PmuInv'
<1>1. ~walk.owned /\ Counters!Leaf.kind = "unknown" /\ Counters!Settled(Counters!NoRoute) /\ code' = code
  BY DEF Counters!EnableNothing, PmuInv, UntouchedInv
<1>2. \A c \in Counters!Counters : ~Counters!CountsCycles(c)
  BY <1>1, LeafIs DEF Counters!CountsCycles, PmuInv, PmuTypes
<1>. QED
  BY <1>1, <1>2, SettledWithout

\* An Intel core that has none of its own to fall back on.
LEMMA NoneLeft ==
  ASSUME PmuInv, Counters!NoGeneralCycles, source' = source, answers' = answers
  PROVE  PmuInv'
<1>1. ~walk.owned /\ Counters!Leaf.kind = "intel" /\ ~FixedCounts /\ Counters!Settled(Counters!NoRoute) /\ code' = code
        /\ (Counters!Leaf.general = 0 \/ Counters!Leaf.noCycles) /\ source \in Counters!Cores
  BY DEF Counters!NoGeneralCycles, PmuInv, FallInv, PmuTypes
<1>2. Counters!Leaf.fixed \in Nat /\ Counters!Leaf.general \in Nat
  BY <1>1, LeafIs
<1>3. \A c \in Counters!Counters : ~Counters!CountsCycles(c)
  BY <1>1, <1>2 DEF Counters!CountsCycles, FixedCounts
<1>. QED
  BY <1>1, <1>3, SettledWithout

\* Events are set for some counters, and nothing is counted in between.
LEMMA EventsSet ==
  ASSUME PmuInv, source' = source, Counters!Leaf.kind # "unknown", NEW f \in [Counters!Counters -> Events], NEW registers \in SUBSET Registers,
         code' = [code EXCEPT !.event = f, !.written = @ \cup registers]
  PROVE  code' \in PmuWorld /\ ValuesInv' /\ code'.written = code.written \cup registers /\ code'.event = f
<1>1. code'.written = code.written \cup registers /\ code'.event = f /\ code'.value = code.value
  BY DEF PmuInv, PmuTypes, PmuWorld
<1>2. code' \in PmuWorld
  <2> DEFINE w == code.written \cup registers
  <2>1. code' = [code EXCEPT !.event = f, !.written = w]
    BY DEF PmuInv, PmuTypes, PmuWorld
  <2>2. w \in SUBSET Registers
    BY DEF PmuInv, PmuTypes, PmuWorld
  <2> HIDE DEF w
  <2>. QED
    BY <2>1, <2>2 DEF PmuInv, PmuTypes, PmuWorld
<1>3. ValuesInv'
  BY <1>1, Same DEF PmuInv, ValuesInv
<1>. QED
  BY <1>1, <1>2, <1>3

\* The fixed counters of an Intel core.
LEMMA FixedStep ==
  ASSUME PmuInv, Counters!EnableFixed, source' = source, answers' = answers
  PROVE  PmuInv'
<1>1. Counters!At("enable") /\ Counters!Leaf.kind = "intel" /\ walk.route = Counters!NoRoute /\ ~walk.owned /\ source \in Counters!Cores /\ Counters!Watch(Counters!CoreCycles)
        /\ \A c \in Counters!Counters : code.event[c] \in Events
  BY DEF Counters!EnableFixed, PmuInv, UntouchedInv, PmuTypes, PmuWorld
<1>2. Counters!Leaf.fixed \in Nat /\ source.vendor = "intel" /\ (Counters!Leaf.fixed # 0 => source.version >= 2)
  BY <1>1, LeafIs
<1>3. walk'.probe = Counters!CoreCycles /\ walk'.route = Counters!NoRoute /\ ~walk'.owned
  BY <1>1 DEF Counters!Watch, PmuInv, PmuTypes, PmuReader
<1>4. CASE Counters!Leaf.fixed = 0
  <2>1. code' = code
    BY <1>4 DEF Counters!EnableFixed
  <2>2. code' \in PmuWorld /\ ValuesInv' /\ WrittenInv'
    BY <2>1, Same DEF PmuInv, PmuTypes, ValuesInv, WrittenInv
  <2>3. code.event[Counters!CoreCycles] = "none"
    BY <1>1, Differ DEF PmuInv, UntouchedInv
  <2>4. ProbeInv'
    BY <1>1, <1>3, <1>4, <2>1, <2>3, Same DEF ProbeInv
  <2>. QED
    BY <1>1, <2>2, <2>4, Differ, WatchStep
<1>5. CASE Counters!Leaf.fixed # 0
  <2> DEFINE f == [c \in Counters!Counters |-> IF c.c = "fixed" /\ c.n < Counters!Leaf.fixed THEN Counters!EventOf(c.n) ELSE code.event[c]]
             r == {"fixedControl", "globalControl", "overflow"}
  <2>1. code' = [code EXCEPT !.event = f, !.written = @ \cup r]
    BY <1>5 DEF Counters!EnableFixed
  <2>2. f \in [Counters!Counters -> Events]
    BY <1>1 DEF Counters!EventOf, Events
  <2>3. r \in SUBSET Registers
    BY DEF Registers
  <2>4. f[Counters!CoreCycles] = IF 1 < Counters!Leaf.fixed THEN "cycles" ELSE code.event[Counters!CoreCycles]
    BY Differ DEF Counters!CoreCycles, Counters!Fixed, Counters!EventOf
  <2>5. \A x \in r : Counters!HasRegister(x)
    BY <1>2, <1>5 DEF Counters!HasRegister
  <2> HIDE DEF f, r
  <2>6. code' \in PmuWorld /\ ValuesInv' /\ code'.written = code.written \cup r /\ code'.event = f
    BY <1>1, <2>1, <2>2, <2>3, EventsSet
  <2>7. WrittenInv'
    BY <2>5, <2>6, Same DEF PmuInv, WrittenInv
  <2>8. code.event[Counters!CoreCycles] = "none"
    BY <1>1, Differ DEF PmuInv, UntouchedInv
  <2>9. ProbeInv'
    BY <1>1, <1>3, <2>4, <2>6, <2>8, Same DEF ProbeInv
  <2>. QED
    BY <1>1, <2>6, <2>7, <2>9, Differ, WatchStep
<1>. QED
  BY <1>4, <1>5

\* The cycle counter of an Arm core.
LEMMA ArmStep ==
  ASSUME PmuInv, Counters!EnableArm, source' = source, answers' = answers
  PROVE  PmuInv'
<1>1. Counters!At("enable") /\ Counters!Leaf.kind = "arm" /\ walk.route = Counters!NoRoute /\ ~walk.owned /\ source \in Counters!Cores /\ Counters!Watch(Counters!CoreCycles)
  BY DEF Counters!EnableArm, PmuInv, UntouchedInv, PmuTypes
<1>2. walk'.probe = Counters!CoreCycles /\ walk'.route = Counters!NoRoute /\ ~walk'.owned
  BY <1>1 DEF Counters!Watch, PmuInv, PmuTypes, PmuReader
<1> DEFINE f == [code.event EXCEPT ![Counters!CoreCycles] = "cycles"]
           r == {"pmcr", "pmcnten"}
<1>3. code' = [code EXCEPT !.event = f, !.written = @ \cup r]
  BY DEF Counters!EnableArm
<1>4. f \in [Counters!Counters -> Events] /\ f[Counters!CoreCycles] = "cycles"
  BY Differ DEF PmuInv, PmuTypes, PmuWorld, Events
<1>5. r \in SUBSET Registers
  BY DEF Registers
<1>6. \A x \in r : Counters!HasRegister(x)
  BY <1>1, LeafIs DEF Counters!HasRegister
<1> HIDE DEF f, r
<1>7. code' \in PmuWorld /\ ValuesInv' /\ code'.written = code.written \cup r /\ code'.event = f
  BY <1>1, <1>3, <1>4, <1>5, EventsSet
<1>8. WrittenInv'
  BY <1>6, <1>7, Same DEF PmuInv, WrittenInv
<1>9. ProbeInv'
  BY <1>1, <1>2, <1>4, <1>7, Same DEF ProbeInv
<1>. QED
  BY <1>1, <1>7, <1>8, <1>9, Differ, WatchStep

\* The general counter that an Intel core falls back on.
LEMMA GeneralStep ==
  ASSUME PmuInv, Counters!EnableGeneralCycles, source' = source, answers' = answers
  PROVE  PmuInv'
<1>1. Counters!At("fallBack") /\ Counters!Leaf.kind = "intel" /\ walk.route = Counters!NoRoute /\ ~walk.owned /\ ~FixedCounts /\ source \in Counters!Cores
        /\ Counters!Leaf.general > 0 /\ ~Counters!Leaf.noCycles /\ Counters!Watch(Counters!General(0))
  BY DEF Counters!EnableGeneralCycles, PmuInv, FallInv, PmuTypes
<1> DEFINE a == Counters!General(0)
           r == {"select", "counter", "globalControl"}
           e == "cycles"
<1>2. a \in Counters!Counters /\ r \in SUBSET Registers /\ e \in Events
  BY Differ DEF Registers, Events
<1>3. code' = Counters!Programmed(a, e, r)
  BY DEF Counters!EnableGeneralCycles
<1>4. \A x \in r : Counters!HasRegister(x)
  BY <1>1, LeafIs DEF Counters!HasRegister
<1> HIDE DEF a, r, e
<1>5. code' \in PmuWorld /\ ValuesInv' /\ code'.written = code.written \cup r /\ code'.event[a] = e
  BY <1>1, <1>2, <1>3, ProgrammedIs DEF PmuInv
<1>6. WrittenInv'
  BY <1>4, <1>5, Same DEF PmuInv, WrittenInv
<1>7. walk'.probe = Counters!General(0) /\ walk'.route = Counters!NoRoute /\ ~walk'.owned
  BY <1>1 DEF Counters!Watch, PmuInv, PmuTypes, PmuReader
<1>8. code'.event[Counters!General(0)] = "cycles"
  BY <1>5 DEF a, e
<1>9. ProbeInv'
  BY <1>1, <1>7, <1>8, Same DEF ProbeInv
<1>. QED
  BY <1>1, <1>2, <1>5, <1>6, <1>9, WatchStep DEF a

\* The instructions of an AMD core.
LEMMA SecondStep ==
  ASSUME PmuInv, Counters!EnableInstructions, source' = source, answers' = answers
  PROVE  PmuInv'
<1>1. Counters!At("second") /\ IsAmd /\ Counters!Leaf.kind # "unknown" /\ walk.route = Counters!General(0) /\ ~walk.owned /\ source \in Counters!Cores
        /\ Counters!General(0) \in source.live /\ code.event[Counters!General(0)] = "cycles" /\ Counters!Leaf.general > 0
  BY DEF Counters!EnableInstructions, PmuInv, InstructionsInv, PmuTypes, IsAmd
<1>2. CASE Counters!EnableGeneral(1, "instructions")
  <2>1. code' = Counters!Programmed(Counters!General(1), "instructions", {"amdEvent", "amdCounter"}) /\ Counters!Watch(Counters!General(1))
    BY <1>2 DEF Counters!EnableGeneral
  <2> DEFINE a == Counters!General(1)
             r == {"amdEvent", "amdCounter"}
             e == "instructions"
             b == Counters!General(0)
  <2>2. a \in Counters!Counters /\ r \in SUBSET Registers /\ e \in Events /\ b \in Counters!Counters \ {a}
    BY Differ DEF Registers, Events
  <2>3. code' = Counters!Programmed(a, e, r)
    BY <2>1
  <2>4. \A x \in r : Counters!HasRegister(x)
    BY <1>1, LeafIs DEF Counters!HasRegister
  <2> HIDE DEF a, r, e, b
  <2>5. code' \in PmuWorld /\ ValuesInv' /\ code'.written = code.written \cup r /\ code'.event[a] = e
          /\ code'.event[b] = code.event[b]
    BY <1>1, <2>2, <2>3, ProgrammedIs DEF PmuInv
  <2>6. WrittenInv'
    BY <2>4, <2>5, Same DEF PmuInv, WrittenInv
  <2>7. walk'.probe = Counters!General(1) /\ walk'.route = Counters!General(0) /\ ~walk'.owned
    BY <1>1, <2>1 DEF Counters!Watch, PmuInv, PmuTypes, PmuReader
  <2>8. code'.event[Counters!General(1)] = "instructions" /\ code'.event[Counters!General(0)] = "cycles"
    BY <1>1, <2>5 DEF a, b, e
  <2>9. ProbeInv'
    BY <1>1, <2>7, <2>8, Same DEF ProbeInv
  <2>. QED
    BY <1>1, <2>1, <2>2, <2>5, <2>6, <2>9, WatchStep DEF a
<1>3. CASE Counters!Settled(walk.route) /\ code' = code
  <2>1. walk' = [walk EXCEPT !.pc = "measure", !.route = walk.route]
    BY <1>3 DEF Counters!Settled
  <2>2. walk' \in PmuReader
    BY <2>1 DEF PmuInv, PmuTypes, PmuReader
  <2>3. walk'.pc = "measure" /\ walk'.route = Counters!General(0) /\ ~walk'.owned
    BY <1>1, <2>1 DEF PmuInv, PmuTypes, PmuReader
  <2>4. PmuTypes'
    BY <1>3, <2>2 DEF PmuInv, PmuTypes, PmuWorld, PmuReader
  <2>5. ValuesInv' /\ WrittenInv'
    BY <1>3, Same DEF PmuInv, ValuesInv, WrittenInv
  <2>6. UntouchedInv' /\ ProbeInv' /\ FallInv' /\ InstructionsInv'
    BY <2>3 DEF UntouchedInv, ProbeInv, FallInv, InstructionsInv, Counters!At
  <2>7. Counters!Readable(Counters!General(0)) /\ \E c \in Counters!Counters : Counters!CountsCycles(c)
    BY <1>1, LeafIs, ReadableIs, Differ DEF Counters!CountsCycles
  <2>8. RouteMeasures'
    BY <1>1, <1>3, <2>3, <2>7, Same DEF RouteMeasures, Counters!At
  <2>9. Counters!MeasuresTheWork'
    BY <2>5, StillMeasured DEF PmuInv
  <2>. QED
    BY <2>4, <2>5, <2>6, <2>8, <2>9 DEF PmuInv
<1>. QED
  BY <1>2, <1>3 DEF Counters!EnableInstructions

\* What is watched goes on if it counts, and is the route if what it counts are cycles.
LEMMA AdvanceStep ==
  ASSUME PmuInv, Counters!CounterAdvances, source' = source, answers' = answers
  PROVE  PmuInv'
<1>1. PmuTypes /\ ValuesInv /\ WrittenInv /\ ProbeInv /\ Counters!MeasuresTheWork /\ source \in Counters!Cores /\ Counters!At("probe") /\ ~walk.owned
  BY DEF PmuInv, Counters!CounterAdvances, PmuTypes, ProbeInv
<1>2. PICK n \in 1 .. LongestBody :
        /\ code' = Counters!Worked(n, n)
        /\ walk' = Counters!Outcome(walk.probe, Counters!Readable(walk.probe)
                             /\ Counters!Advances(walk.probe, code.value[walk.probe], code'.value[walk.probe]))
  BY DEF Counters!CounterAdvances
<1> DEFINE ok == Counters!Readable(walk.probe) /\ Counters!Advances(walk.probe, code.value[walk.probe], code'.value[walk.probe])
<1>3. n \in 0 .. LongestBody /\ n # 0
  BY <1>2, CountsAreNumbers
<1>4. /\ code' \in PmuWorld /\ code'.event = code.event /\ code'.written = code.written
      /\ Counters!Leaf.kind # "unknown" => \A c \in Counters!Counters : code'.value[c] < Counters!CounterLimit
      /\ \A c \in Counters!Counters : c \notin source.live \/ code.event[c] = "none" => code'.value[c] = code.value[c]
      /\ \A c \in source.live : code.event[c] \in {"cycles", "instructions"} => code'.value[c] # code.value[c]
  BY <1>1, <1>2, <1>3, WorkedIs
<1>5. ok \in BOOLEAN
  BY DEF ok, Counters!Readable
<1>6. \A c \in Counters!Counters : walk.probe = c /\ code.event[c] \in {"none", "cycles", "instructions"} =>
        (ok <=> Counters!Readable(c) /\ c \in source.live /\ code.event[c] # "none")
  BY <1>4 DEF Counters!Advances
<1>7. walk' = Counters!Outcome(walk.probe, ok)
  BY <1>2
<1> HIDE DEF ok
<1>8. ValuesInv' /\ WrittenInv'
  BY <1>1, <1>4, Same DEF ValuesInv, WrittenInv
<1>9. Counters!MeasuresTheWork'
  BY <1>1, <1>8, StillMeasured
<1>10. walk' \in PmuReader
  <2>1. walk \in PmuReader
    BY <1>1 DEF PmuTypes
  <2>2. walk.probe \in Readings /\ Counters!NoRoute \in Readings
    BY <2>1 DEF PmuReader, Readings
  <2>. QED
    BY <1>5, <1>7, <2>1, <2>2 DEF Counters!Outcome, PmuReader
<1>11. PmuTypes'
  BY <1>1, <1>4, <1>10 DEF PmuTypes, PmuWorld, PmuReader
<1>12. ASSUME walk'.pc = "measure", RouteMeasures' PROVE PmuInv'
  <2>1. UntouchedInv' /\ ProbeInv' /\ FallInv' /\ InstructionsInv'
    BY <1>12 DEF UntouchedInv, ProbeInv, FallInv, InstructionsInv, Counters!At
  <2>. QED
    BY <1>8, <1>9, <1>11, <1>12, <2>1 DEF PmuInv
<1>13. walk \in PmuReader
  BY <1>1 DEF PmuTypes
<1>14. CASE IsAmd /\ walk.probe = Counters!General(0) /\ walk.route = Counters!NoRoute /\ code.event[Counters!General(0)] = "cycles" /\ Counters!Leaf.general > 0
  <2>1. ok <=> Counters!General(0) \in source.live
    BY <1>6, <1>14, Differ, ReadableIs
  <2>2. CASE ok
    <3>1. walk' = [walk EXCEPT !.pc = "second", !.route = Counters!General(0)]
      BY <1>7, <1>14, <2>2 DEF Counters!Outcome, IsAmd
    <3>2. walk'.pc = "second" /\ walk'.route = Counters!General(0) /\ ~walk'.owned
      BY <1>1, <1>13, <3>1 DEF PmuReader
    <3>3. InstructionsInv'
      BY <1>4, <1>14, <2>1, <2>2, <3>2, Same DEF InstructionsInv
    <3>4. UntouchedInv' /\ ProbeInv' /\ FallInv' /\ RouteMeasures'
      BY <3>2 DEF UntouchedInv, ProbeInv, FallInv, RouteMeasures, Counters!At
    <3>. QED
      BY <1>8, <1>9, <1>11, <3>3, <3>4 DEF PmuInv
  <2>3. CASE ~ok
    <3>1. walk' = [walk EXCEPT !.pc = "measure"]
      BY <1>7, <1>14, <2>3 DEF Counters!Outcome, IsAmd
    <3>2. walk'.pc = "measure" /\ walk'.route = Counters!NoRoute /\ ~walk'.owned
      BY <1>1, <1>13, <1>14, <3>1 DEF PmuReader
    <3>3. \A c \in Counters!Counters : ~Counters!CountsCycles(c)
      BY <1>14, <2>1, <2>3, Differ DEF Counters!CountsCycles, IsAmd
    <3>4. RouteMeasures'
      BY <3>2, <3>3, Same, ReadableIs DEF RouteMeasures
    <3>. QED
      BY <1>12, <3>2, <3>4
  <2>. QED
    BY <2>2, <2>3
<1>15. CASE IsAmd /\ walk.probe = Counters!General(1) /\ walk.route = Counters!General(0) /\ code.event[Counters!General(1)] = "instructions"
              /\ code.event[Counters!General(0)] = "cycles" /\ Counters!General(0) \in source.live /\ Counters!Leaf.general > 0
  <2>1. ok <=> Counters!General(1) \in source.live
    BY <1>6, <1>15, Differ, ReadableIs
  <2>2. walk' = [walk EXCEPT !.pc = "measure", !.owned = ok]
    BY <1>7, <1>15, Differ DEF Counters!Outcome, IsAmd
  <2>3. walk'.pc = "measure" /\ walk'.route = Counters!General(0) /\ (walk'.owned <=> ok)
    BY <1>5, <1>13, <1>15, <2>2 DEF PmuReader
  <2>4. Counters!Readable(Counters!General(0)) /\ \E c \in Counters!Counters : Counters!CountsCycles(c)
    BY <1>1, <1>15, LeafIs, ReadableIs, Differ DEF Counters!CountsCycles
  <2>5. RouteMeasures'
    BY <1>4, <1>15, <2>1, <2>3, <2>4, Same DEF RouteMeasures
  <2>. QED
    BY <1>12, <2>3, <2>5
<1>16. CASE Counters!Leaf.kind = "intel" /\ walk.probe = Counters!CoreCycles /\ walk.route = Counters!NoRoute
              /\ code.event[Counters!CoreCycles] = IF 1 < Counters!Leaf.fixed THEN "cycles" ELSE "none"
  <2>1. code.event[Counters!CoreCycles] \in {"none", "cycles", "instructions"} /\ (code.event[Counters!CoreCycles] # "none" <=> 1 < Counters!Leaf.fixed)
    BY <1>16
  <2>2. ok <=> FixedCounts
    BY <1>6, <1>16, <2>1, Differ, ReadableIs DEF FixedCounts
  <2>3. CASE ok
    <3>1. walk' = [walk EXCEPT !.pc = "measure", !.route = Counters!CoreCycles]
      BY <1>7, <1>16, <2>3 DEF Counters!Outcome
    <3>2. walk'.pc = "measure" /\ walk'.route = Counters!CoreCycles /\ ~walk'.owned
      BY <1>1, <1>13, <3>1 DEF PmuReader
    <3>3. Counters!Leaf.fixed \in Nat
      BY <1>1, LeafIs
    <3>4. Counters!Readable(Counters!CoreCycles) /\ \E c \in Counters!Counters : Counters!CountsCycles(c)
      BY <1>16, <2>2, <2>3, <3>3, ReadableIs, Differ DEF Counters!CountsCycles, FixedCounts
    <3>5. RouteMeasures'
      BY <1>4, <1>16, <2>2, <2>3, <3>2, <3>4, Same DEF RouteMeasures, FixedCounts
    <3>. QED
      BY <1>12, <3>2, <3>5
  <2>4. CASE ~ok
    <3>1. walk' = [walk EXCEPT !.pc = "fallBack"]
      BY <1>7, <1>16, <2>4 DEF Counters!Outcome
    <3>2. walk'.pc = "fallBack" /\ walk'.route = Counters!NoRoute /\ ~walk'.owned
      BY <1>1, <1>13, <1>16, <3>1 DEF PmuReader
    <3>3. FallInv'
      BY <1>16, <2>2, <2>4, <3>2, Same DEF FallInv
    <3>4. UntouchedInv' /\ ProbeInv' /\ InstructionsInv' /\ RouteMeasures'
      BY <3>2 DEF UntouchedInv, ProbeInv, InstructionsInv, RouteMeasures, Counters!At
    <3>. QED
      BY <1>8, <1>9, <1>11, <3>3, <3>4 DEF PmuInv
  <2>. QED
    BY <2>3, <2>4
<1>17. ASSUME Counters!Leaf.kind \in {"intel", "arm"}, walk.route = Counters!NoRoute, NEW p \in {Counters!CoreCycles, Counters!General(0)}, walk.probe = p,
              Counters!Leaf.kind = "intel" => p = Counters!General(0), code.event[p] = "cycles", Counters!Readable(p),
              p \in source.live <=> \E c \in Counters!Counters : Counters!CountsCycles(c)
       PROVE  PmuInv'
  <2>1. p \in Counters!Counters
    BY <1>17, Differ
  <2>2. ok <=> p \in source.live
    BY <1>6, <1>17, <2>1
  <2>3. walk' = [walk EXCEPT !.pc = "measure", !.route = IF ok THEN p ELSE Counters!NoRoute]
    BY <1>7, <1>17, Differ DEF Counters!Outcome
  <2>4. walk'.pc = "measure" /\ walk'.route = (IF ok THEN p ELSE Counters!NoRoute) /\ ~walk'.owned
    BY <1>1, <1>13, <2>3 DEF PmuReader
  <2>5. RouteMeasures'
    <3>1. CASE ok
      BY <1>4, <1>17, <2>2, <2>4, <3>1, Same DEF RouteMeasures
    <3>2. CASE ~ok
      BY <1>17, <2>2, <2>4, <3>2, Same, ReadableIs DEF RouteMeasures
    <3>. QED
      BY <3>1, <3>2
  <2>. QED
    BY <1>12, <2>4, <2>5
<1>18. CASE Counters!Leaf.kind = "intel" /\ walk.probe = Counters!General(0) /\ walk.route = Counters!NoRoute
              /\ code.event[Counters!General(0)] = "cycles" /\ ~FixedCounts /\ Counters!Leaf.general > 0 /\ ~Counters!Leaf.noCycles
  <2>1. Counters!Leaf.general \in Nat /\ Counters!Leaf.fixed \in Nat
    BY <1>1, LeafIs
  <2>2. Counters!Readable(Counters!General(0))
    BY <1>18, <2>1, ReadableIs
  <2>3. Counters!General(0) \in source.live <=> \E c \in Counters!Counters : Counters!CountsCycles(c)
    BY <1>18, <2>1, Differ DEF Counters!CountsCycles, FixedCounts
  <2> DEFINE p == Counters!General(0)
  <2>4. p \in {Counters!CoreCycles, Counters!General(0)} /\ walk.probe = p /\ code.event[p] = "cycles" /\ Counters!Readable(p)
          /\ (p \in source.live <=> \E c \in Counters!Counters : Counters!CountsCycles(c)) /\ (Counters!Leaf.kind = "intel" => p = Counters!General(0))
    BY <1>18, <2>2, <2>3
  <2> HIDE DEF p
  <2>. QED
    BY <1>17, <1>18, <2>4
<1>19. CASE Counters!Leaf.kind = "arm" /\ walk.probe = Counters!CoreCycles /\ walk.route = Counters!NoRoute /\ code.event[Counters!CoreCycles] = "cycles"
  <2>1. Counters!Leaf.general = 0
    BY <1>1, <1>19, LeafIs
  <2>2. Counters!Readable(Counters!CoreCycles)
    BY <1>19, ReadableIs
  <2>3. Counters!CoreCycles \in source.live <=> \E c \in Counters!Counters : Counters!CountsCycles(c)
    BY <1>19, <2>1, Differ DEF Counters!CountsCycles
  <2> DEFINE p == Counters!CoreCycles
  <2>4. p \in {Counters!CoreCycles, Counters!General(0)} /\ walk.probe = p /\ code.event[p] = "cycles" /\ Counters!Readable(p)
          /\ (p \in source.live <=> \E c \in Counters!Counters : Counters!CountsCycles(c)) /\ Counters!Leaf.kind \in {"intel", "arm"}
          /\ (Counters!Leaf.kind = "intel" => p = Counters!General(0))
    BY <1>19, <2>2, <2>3
  <2> HIDE DEF p
  <2>. QED
    BY <1>17, <1>19, <2>4
<1>. QED
  BY <1>1, <1>14, <1>15, <1>16, <1>18, <1>19 DEF ProbeInv

\* A measurement is of the work, but for one that went round.
LEMMA MeasuredIs ==
  ASSUME PmuInv, Counters!At("measure"), NEW n \in 1 .. LongestBody, NEW i \in {0, n}
  PROVE  /\ Counters!Measured(n, i) \in Measurement
         /\ Counters!Measured(n, i).some <=> \E c \in Counters!Counters : Counters!CountsCycles(c)
         /\ Counters!Measured(n, i).some /\ ~Counters!Measured(n, i).wrapped => Counters!Measured(n, i).delta = Counters!Measured(n, i).cycles
         /\ Counters!Measured(n, i).second = Counters!General(1) /\ ~Counters!Measured(n, i).wrapped => Counters!Measured(n, i).count = Counters!Measured(n, i).instructions
<1>1. PmuTypes /\ ValuesInv /\ source \in Counters!Cores /\ source.live \subseteq Counters!Counters
  BY DEF PmuInv, PmuTypes, Counters!Cores
<1>2. n \in 0 .. LongestBody /\ i \in 0 .. LongestBody /\ n \in Nat /\ i \in Nat
  BY CountsAreNumbers
<1> DEFINE after == Counters!Worked(n, i).value
<1>3. /\ after \in [Counters!Counters -> Nat]
      /\ \A c \in source.live : code.event[c] = "cycles" => (after[c] >= code.value[c] => after[c] - code.value[c] = n)
      /\ \A c \in source.live : code.event[c] = "instructions" => (after[c] >= code.value[c] => after[c] - code.value[c] = i)
  BY <1>1, <1>2, WorkedIs DEF PmuWorld
<1>4. code.value \in [Counters!Counters -> Nat] /\ walk.route \in Readings
  BY <1>1 DEF PmuTypes, PmuWorld, PmuReader
<1> DEFINE r == walk.route
           q == Counters!ReadInstructions
           d == IF Counters!Readable(r) THEN (after[r] - code.value[r]) % Word ELSE 0
           t == IF q = Counters!NoRoute THEN 0 ELSE (after[q] - code.value[q]) % Word
           w == \E x \in {r, q} \ {Counters!NoRoute} : after[x] < code.value[x]
           y == Counters!Readable(r)
<1>5. Counters!Measured(n, i) = [cycles |-> n, instructions |-> i, route |-> r, some |-> y, delta |-> d, second |-> q, count |-> t, wrapped |-> w]
  BY DEF Counters!Measured
<1>6. q \in Readings /\ (q = Counters!General(1) => walk.owned)
  BY Differ DEF Counters!ReadInstructions, Readings, Counters!Instructions, Counters!Counters, Counters!Fixed, Counters!General, Counters!NoRoute
<1>7. y => r \in source.live /\ code.event[r] = "cycles"
  BY DEF PmuInv, RouteMeasures
<1>8. walk.owned => Counters!General(1) \in source.live /\ code.event[Counters!General(1)] = "instructions"
  BY DEF PmuInv, RouteMeasures
<1>9. y <=> \E c \in Counters!Counters : Counters!CountsCycles(c)
  BY DEF PmuInv, RouteMeasures
<1>10. y \in BOOLEAN /\ w \in BOOLEAN
  BY DEF Counters!Readable
<1>11. \A a, b \in Nat : (a - b) % Word \in Nat
  BY CountsAreNumbers
<1>12. d \in Nat
  BY <1>1, <1>3, <1>4, <1>7, <1>11
<1>13. t \in Nat
  BY <1>3, <1>4, <1>6, <1>11 DEF Readings
<1>14. \A x \in 0 .. LongestBody : x % Word = x
  BY CountsAreNumbers
<1>15. y /\ ~w => d = n
  <2> SUFFICES ASSUME y, ~w PROVE d = n
    OBVIOUS
  <2>1. r \in Counters!Counters /\ r # Counters!NoRoute
    BY <1>1, <1>7, Differ
  <2>2. ~(after[r] < code.value[r])
    BY <2>1
  <2>3. after[r] >= code.value[r]
    BY <1>3, <1>4, <2>1, <2>2
  <2>4. after[r] - code.value[r] = n
    BY <1>3, <1>7, <2>3
  <2>. QED
    BY <1>2, <1>14, <2>4
<1>16. q = Counters!General(1) /\ ~w => t = i
  <2> SUFFICES ASSUME q = Counters!General(1), ~w PROVE t = i
    OBVIOUS
  <2>1. q \in Counters!Counters /\ q # Counters!NoRoute
    BY Differ
  <2>2. ~(after[q] < code.value[q])
    BY <2>1
  <2>3. after[q] >= code.value[q]
    BY <1>3, <1>4, <2>1, <2>2
  <2>4. after[q] - code.value[q] = i
    BY <1>3, <1>6, <1>8, <2>3
  <2>. QED
    BY <1>2, <1>14, <2>1, <2>4
<1> HIDE DEF r, q, d, t, w, y
<1>17. Counters!Measured(n, i) \in Measurement
  BY <1>2, <1>4, <1>5, <1>6, <1>10, <1>12, <1>13 DEF Measurement, r
<1>. QED
  BY <1>5, <1>9, <1>15, <1>16, <1>17

\* One more measurement.
LEMMA MeasureStep ==
  ASSUME PmuInv, Counters!Measure, source' = source
  PROVE  PmuInv'
<1>1. PmuTypes /\ ValuesInv /\ WrittenInv /\ RouteMeasures /\ Counters!MeasuresTheWork /\ Counters!At("measure") /\ walk' = walk /\ source \in Counters!Cores
  BY DEF PmuInv, Counters!Measure, PmuTypes
<1>0. PICK n \in 1 .. LongestBody : \E i \in {0, n} : answers' = Append(answers, Counters!Measured(n, i)) /\ code' = Counters!Worked(n, i)
  BY DEF Counters!Measure
<1>2. PICK i \in {0, n} : answers' = Append(answers, Counters!Measured(n, i)) /\ code' = Counters!Worked(n, i)
  BY <1>0
<1>3. n \in 0 .. LongestBody /\ i \in 0 .. LongestBody
  BY <1>0, <1>2, CountsAreNumbers
<1>4. /\ code' \in PmuWorld /\ code'.event = code.event /\ code'.written = code.written
      /\ Counters!Leaf.kind # "unknown" => \A c \in Counters!Counters : code'.value[c] < Counters!CounterLimit
  BY <1>1, <1>2, <1>3, WorkedIs
<1> DEFINE m == Counters!Measured(n, i)
<1>5. /\ m \in Measurement
      /\ m.some <=> \E c \in Counters!Counters : Counters!CountsCycles(c)
      /\ m.some /\ ~m.wrapped => m.delta = m.cycles
      /\ m.second = Counters!General(1) /\ ~m.wrapped => m.count = m.instructions
  BY <1>0, <1>1, <1>2, MeasuredIs
<1> HIDE DEF m
<1>6. answers \in Seq(Measurement)
  BY <1>1 DEF PmuTypes
<1>7. answers' = Append(answers, m)
  BY <1>2 DEF m
<1>8. answers' \in Seq(Measurement) /\ \A k \in DOMAIN answers' : (k \in DOMAIN answers /\ answers'[k] = answers[k]) \/ answers'[k] = m
  BY <1>5, <1>6, <1>7
<1>9. PmuTypes'
  BY <1>1, <1>4, <1>8 DEF PmuTypes, PmuWorld, PmuReader
<1>10. ValuesInv' /\ WrittenInv'
  BY <1>1, <1>4, Same DEF ValuesInv, WrittenInv
<1>11. UntouchedInv' /\ ProbeInv' /\ FallInv' /\ InstructionsInv'
  BY <1>1 DEF UntouchedInv, ProbeInv, FallInv, InstructionsInv, Counters!At
<1>12. RouteMeasures'
  BY <1>1, <1>4, Same DEF RouteMeasures, Counters!At
<1>13. Counters!MeasuresTheWork'
  <2>1. ASSUME NEW k \in DOMAIN answers'
        PROVE  LET x == answers'[k]
               IN /\ x.some <=> \E c \in Counters!Counters : Counters!CountsCycles(c)
                  /\ x.some /\ ~x.wrapped => x.delta = x.cycles
                  /\ x.second = Counters!General(1) /\ ~x.wrapped => x.count = x.instructions
    <3>1. CASE k \in DOMAIN answers /\ answers'[k] = answers[k]
      BY <1>1, <3>1 DEF Counters!MeasuresTheWork
    <3>2. CASE answers'[k] = m
      BY <1>5, <3>2
    <3>. QED
      BY <1>8, <2>1, <3>1, <3>2
  <2>2. \A r \in code'.written : Counters!HasRegister(r)'
    BY <1>10 DEF WrittenInv
  <2>. QED
    BY <2>1, <2>2, Same DEF Counters!MeasuresTheWork
<1>. QED
  BY <1>9, <1>10, <1>11, <1>12, <1>13 DEF PmuInv

\* The invariant holds before a counter is looked at.
LEMMA PmuStarts ==
  ASSUME source \in Counters!Cores, Counters!PmuInit
  PROVE  PmuInv
<1>1. /\ code = [event |-> [c \in Counters!Counters |-> "none"], value |-> [c \in Counters!Counters |-> source.leftover], written |-> {}]
      /\ walk = [pc |-> "enable", probe |-> Counters!NoRoute, route |-> Counters!NoRoute, owned |-> FALSE]
      /\ answers = <<>>
  BY DEF Counters!PmuInit
<1>2. source.leftover \in Nat
  BY DEF Counters!Cores
<1>3. code \in PmuWorld
  <2> DEFINE e == [c \in Counters!Counters |-> "none"]
             v == [c \in Counters!Counters |-> source.leftover]
  <2>1. e \in [Counters!Counters -> Events] /\ v \in [Counters!Counters -> Nat]
    BY <1>2 DEF Events
  <2> HIDE DEF e, v
  <2>2. code = [event |-> e, value |-> v, written |-> {}]
    BY <1>1 DEF e, v
  <2>. QED
    BY <2>1, <2>2 DEF PmuWorld
<1>4. walk \in PmuReader
  BY <1>1 DEF PmuReader, Readings
<1>5. PmuTypes
  BY <1>1, <1>3, <1>4 DEF PmuTypes
<1>6. \A c \in Counters!Counters : code.event[c] = "none" /\ code.value[c] = source.leftover
  BY <1>1
<1>7. ValuesInv
  BY <1>6, LimitIs DEF ValuesInv
<1>8. WrittenInv
  BY <1>1 DEF WrittenInv
<1>9. walk.pc = "enable" /\ walk.route = Counters!NoRoute /\ ~walk.owned
  BY <1>1
<1>10. UntouchedInv /\ ProbeInv /\ FallInv /\ InstructionsInv /\ RouteMeasures
  BY <1>6, <1>9 DEF UntouchedInv, ProbeInv, FallInv, InstructionsInv, RouteMeasures, Counters!At
<1>11. Counters!MeasuresTheWork
  BY <1>1, <1>8 DEF Counters!MeasuresTheWork, WrittenInv
<1>. QED
  BY <1>5, <1>7, <1>8, <1>10, <1>11 DEF PmuInv

\* Every step keeps it.
LEMMA PmuStep == PmuInv /\ Counters!PmuNext => PmuInv'
  BY AmdStep, NothingStep, FixedStep, ArmStep, GeneralStep, NoneLeft, AdvanceStep, SecondStep, MeasureStep DEF Counters!PmuNext, Counters!Enable

\* By it, what is measured is the work.
LEMMA PmuMeasures == PmuInv => Counters!MeasuresTheWork
  BY DEF PmuInv

\* It is of the counters alone.
LEMMA PmuStutter == PmuInv /\ UNCHANGED Counters!pmuVars => PmuInv'
<1> SUFFICES ASSUME PmuInv, UNCHANGED Counters!pmuVars PROVE PmuInv'
  OBVIOUS
<1>1. source' = source /\ code' = code /\ walk' = walk /\ answers' = answers
  BY DEF Counters!pmuVars
<1>2. PmuTypes'
  BY <1>1 DEF PmuInv, PmuTypes, PmuWorld, PmuReader
<1>3. ValuesInv' /\ WrittenInv' /\ Counters!MeasuresTheWork'
  BY <1>1, Same DEF PmuInv, ValuesInv, WrittenInv, Counters!MeasuresTheWork
<1>4. UntouchedInv' /\ ProbeInv' /\ FallInv' /\ InstructionsInv' /\ RouteMeasures'
  BY <1>1, Same DEF PmuInv, UntouchedInv, ProbeInv, FallInv, InstructionsInv, RouteMeasures, Counters!At
<1>. QED
  BY <1>2, <1>3, <1>4 DEF PmuInv

(***************************************************************************)
(* The rate of a route (clock.rs).                                         *)
(***************************************************************************)

RouteWorld  == [now : Nat, ran : Nat, cpu : Cpus, pinned : BOOLEAN]
RouteReader ==
  [i : 1 .. 9, before : Cpus \cup {Rates!Unknown}, after : Cpus \cup {Rates!Unknown}, wall0 : Nat, wall1 : Nat, raw0 : Nat, raw1 : Nat]

RouteTypes == source \in Rates!Routes /\ code \in RouteWorld /\ walk \in RouteReader

\* What the counter shows does not depend on where the thread is, or the thread stays.
Agreed == code.pinned \/ \A c, d \in Cpus : source.ahead[c] = source.ahead[d]

\* The counter read now, had the thread the first processor's value before it.
SpanInv ==
  /\ walk.i > 3 => walk.wall0 <= code.now
  /\ Agreed /\ walk.i \in 5 .. 6 => Rates!ReadRaw - walk.raw0 <= Rate * (code.now - walk.wall0)
  /\ Agreed /\ walk.i = 7 => walk.raw1 - walk.raw0 <= Rate * (code.now - walk.wall0)
  /\ Agreed /\ walk.i > 7 => walk.wall0 <= walk.wall1 /\ walk.raw1 - walk.raw0 <= Rate * (walk.wall1 - walk.wall0)

RouteInv == RouteTypes /\ SpanInv /\ answers = <<>>

\* The steps, one by one.
LEMMA TheSteps ==
  ASSUME source \in Rates!Routes, walk.i \in 1 .. 8
  PROVE  /\ Len(Rates!Steps(source.how)) = 8
         /\ walk.i = 1 => Rates!Step \in {"before", "pin"}
         /\ walk.i = 2 => Rates!Step \in {"before", "pin"}
         /\ walk.i = 3 => Rates!Step = "wall0"
         /\ walk.i = 4 => Rates!Step = "raw0"
         /\ walk.i = 5 => Rates!Step \in {"sleep", "work"}
         /\ walk.i = 6 => Rates!Step = "raw1"
         /\ walk.i = 7 => Rates!Step = "wall1"
         /\ walk.i = 8 => Rates!Step = "after"
<1>1. CASE source.how = "asleep"
  BY <1>1 DEF Rates!Step, Rates!Steps
<1>2. CASE source.how # "asleep"
  BY <1>2 DEF Rates!Step, Rates!Steps
<1>. QED
  BY <1>1, <1>2

\* The counter read is a number.
LEMMA RawIsANumber == ASSUME RouteTypes PROVE Rates!ReadRaw \in Nat
<1>1. \A a, b, c \in Nat : a * b \in Nat /\ a * b + c \in Nat
  OBVIOUS
<1>2. code.ran \in Nat /\ code.now \in Nat /\ source.ahead[code.cpu] \in Nat
  BY DEF RouteTypes, Rates!Routes, RouteWorld
<1>. QED
  BY <1>1, <1>2, CountsAreNumbers DEF Rates!ReadRaw

\* The invariant holds before anything is read.
LEMMA RouteStarts == Rates!RouteInit /\ source \in Rates!Routes => RouteInv
<1> SUFFICES ASSUME Rates!RouteInit, source \in Rates!Routes PROVE RouteInv
  OBVIOUS
<1>1. code \in RouteWorld
  BY DEF Rates!RouteInit, RouteWorld
<1>2. walk \in RouteReader /\ walk.i = 1
  BY DEF Rates!RouteInit, RouteReader
<1>. QED
  BY <1>1, <1>2 DEF Rates!RouteInit, RouteInv, RouteTypes, SpanInv

\* Time passes, and the thread is run for no more of it.
LEMMA Later ==
  ASSUME NEW r \in Nat, NEW n \in Nat, NEW w \in Nat, w <= n
  PROVE  /\ r * (n - w) \in Nat /\ r * ((n + 1) - w) = r * (n - w) + r
         /\ r * (n + 1) = r * n + r /\ r * n \in Nat
<1>1. PICK d \in Nat : n = w + d
  <2>1. n - w \in Nat /\ n = w + (n - w)
    OBVIOUS
  <2>. QED
    BY <2>1
<1>2. n - w = d /\ (n + 1) - w = d + 1
  BY <1>1
<1>3. \A a, b \in Nat : a * b \in Nat /\ a * (b + 1) = a * b + a
  OBVIOUS
<1>. QED
  BY <1>2, <1>3

\* Every step keeps it.
LEMMA RouteStep == RouteInv /\ Rates!RouteNext => RouteInv'
<1> SUFFICES ASSUME RouteInv, Rates!RouteNext PROVE RouteInv'
  OBVIOUS
<1>0. /\ RouteTypes /\ SpanInv /\ source \in Rates!Routes /\ code \in RouteWorld /\ walk \in RouteReader
      /\ UNCHANGED <<source, answers>> /\ answers = <<>> /\ Rate \in Nat
  BY CountsAreNumbers DEF RouteInv, RouteTypes, Rates!RouteNext
<1>1. walk.i \in 1 .. 8
  <2>1. walk.i \in 1 .. 9 /\ ~(walk.i > Len(Rates!Steps(source.how)))
    BY <1>0 DEF Rates!RouteNext, Rates!RouteDone, RouteReader
  <2>2. Len(Rates!Steps(source.how)) = 8
    BY DEF Rates!Steps
  <2>. QED
    BY <2>1, <2>2
<1>2. /\ walk.i = 1 => Rates!Step \in {"before", "pin"}
      /\ walk.i = 2 => Rates!Step \in {"before", "pin"}
      /\ walk.i = 3 => Rates!Step = "wall0"
      /\ walk.i = 4 => Rates!Step = "raw0"
      /\ walk.i = 5 => Rates!Step \in {"sleep", "work"}
      /\ walk.i = 6 => Rates!Step = "raw1"
      /\ walk.i = 7 => Rates!Step = "wall1"
      /\ walk.i = 8 => Rates!Step = "after"
  BY <1>0, <1>1, TheSteps
<1>3. Rates!ReadRaw \in Nat /\ code.now \in Nat /\ walk.wall0 \in Nat /\ code.ran \in Nat
  BY <1>0, RawIsANumber DEF RouteWorld, RouteReader
<1>4. CASE Rates!PinThreadToCpu
  <2>1. walk.i \in 1 .. 2
    BY <1>1, <1>2, <1>4 DEF Rates!PinThreadToCpu
  <2> DEFINE next == walk.i + 1
  <2>2. walk' = [walk EXCEPT !.i = next] /\ next \in 2 .. 3 /\ next \in 1 .. 9
    BY <1>4, <2>1 DEF Rates!PinThreadToCpu
  <2> HIDE DEF next
  <2>3. walk' \in RouteReader /\ walk'.i = next
    BY <1>0, <2>2 DEF RouteReader
  <2>4. code' \in RouteWorld
    <3>1. source.target \in Cpus
      BY <1>0 DEF Rates!Routes
    <3>. QED
      BY <1>0, <1>4, <3>1 DEF Rates!PinThreadToCpu, RouteWorld
  <2>5. SpanInv'
    BY <2>2, <2>3 DEF SpanInv
  <2>. QED
    BY <1>0, <2>3, <2>4, <2>5 DEF RouteInv, RouteTypes
<1>5. CASE Rates!Read
  <2> DEFINE next == walk.i + 1  seen == Rates!Seen
  <2>0. next \in 1 .. 9 /\ next = walk.i + 1 /\ UNCHANGED code /\ (Agreed' <=> Agreed) /\ Rates!ReadRaw' = Rates!ReadRaw
    BY <1>0, <1>1, <1>5 DEF Rates!Read, Agreed, Rates!ReadRaw
  <2>1. walk' = [walk EXCEPT !.i = next, ![Rates!Step] = seen] /\ Rates!Step \notin {"pin", "sleep", "work"}
    BY <1>5 DEF Rates!Read
  <2>2. CASE walk.i \in {1, 2, 8}
    <3>1. Rates!Step \in {"before", "after"}
      BY <1>2, <2>1, <2>2
    <3>2. seen \in Cpus \cup {Rates!Unknown}
      BY <1>0, <3>1 DEF Rates!Seen, Rates!CurrentCpu, RouteWorld
    <3> HIDE DEF next, seen
    <3>3. walk' = [walk EXCEPT !.i = next, !.before = seen] \/ walk' = [walk EXCEPT !.i = next, !.after = seen]
      BY <2>1, <3>1
    <3>4. /\ walk' \in RouteReader /\ walk'.i = next /\ walk'.wall0 = walk.wall0 /\ walk'.wall1 = walk.wall1
          /\ walk'.raw0 = walk.raw0 /\ walk'.raw1 = walk.raw1
      BY <1>0, <2>0, <3>2, <3>3 DEF RouteReader
    <3>5. SpanInv'
      <4>1. CASE walk.i \in {1, 2}
        BY <2>0, <3>4, <4>1 DEF SpanInv
      <4>2. CASE walk.i = 8
        BY <1>0, <2>0, <3>4, <4>2 DEF SpanInv
      <4>. QED
        BY <2>2, <4>1, <4>2
    <3>. QED
      BY <1>0, <2>0, <3>4, <3>5 DEF RouteInv, RouteTypes
  <2>3. CASE walk.i = 3
    <3>1. Rates!Step = "wall0" /\ seen = code.now
      BY <1>2, <2>3 DEF Rates!Seen
    <3>0. next = 4 /\ next \in 1 .. 9 /\ seen \in Nat
      BY <1>3, <2>3, <3>1
    <3> HIDE DEF next, seen
    <3>2. walk' = [walk EXCEPT !.i = next, !.wall0 = seen]
      BY <2>1, <3>1
    <3>3. walk' \in RouteReader /\ walk'.i = 4 /\ walk'.wall0 = code.now
      BY <1>0, <3>0, <3>1, <3>2 DEF RouteReader
    <3>4. SpanInv'
      BY <1>3, <2>0, <3>3 DEF SpanInv
    <3>. QED
      BY <1>0, <2>0, <3>3, <3>4 DEF RouteInv, RouteTypes
  <2>4. CASE walk.i = 4
    <3>1. Rates!Step = "raw0" /\ seen = Rates!ReadRaw
      BY <1>2, <2>4 DEF Rates!Seen
    <3>0. next = 5 /\ next \in 1 .. 9 /\ seen \in Nat
      BY <1>3, <2>4, <3>1
    <3> HIDE DEF next, seen
    <3>2. walk' = [walk EXCEPT !.i = next, !.raw0 = seen]
      BY <2>1, <3>1
    <3>3. walk' \in RouteReader /\ walk'.i = 5 /\ walk'.raw0 = Rates!ReadRaw /\ walk'.wall0 = walk.wall0
      BY <1>0, <3>0, <3>1, <3>2 DEF RouteReader
    <3>4. walk.wall0 <= code.now
      BY <1>0, <2>4 DEF SpanInv
    <3>5. Rate * (code.now - walk.wall0) \in Nat
      BY <1>0, <1>3, <3>4, Later
    <3>6. Rates!ReadRaw' - walk'.raw0 = 0
      BY <1>3, <2>0, <3>3
    <3>7. SpanInv'
      BY <2>0, <3>3, <3>4, <3>5, <3>6 DEF SpanInv
    <3>. QED
      BY <1>0, <2>0, <3>3, <3>7 DEF RouteInv, RouteTypes
  <2>5. CASE walk.i = 6
    <3>1. Rates!Step = "raw1" /\ seen = Rates!ReadRaw
      BY <1>2, <2>5 DEF Rates!Seen
    <3>0. next = 7 /\ next \in 1 .. 9 /\ seen \in Nat
      BY <1>3, <2>5, <3>1
    <3> HIDE DEF next, seen
    <3>2. walk' = [walk EXCEPT !.i = next, !.raw1 = seen]
      BY <2>1, <3>1
    <3>3. walk' \in RouteReader /\ walk'.i = 7 /\ walk'.raw1 = Rates!ReadRaw /\ walk'.wall0 = walk.wall0 /\ walk'.raw0 = walk.raw0
      BY <1>0, <3>0, <3>1, <3>2 DEF RouteReader
    <3>4. SpanInv'
      BY <1>0, <2>0, <2>5, <3>3 DEF SpanInv
    <3>. QED
      BY <1>0, <2>0, <3>3, <3>4 DEF RouteInv, RouteTypes
  <2>6. CASE walk.i = 7
    <3>1. Rates!Step = "wall1" /\ seen = code.now
      BY <1>2, <2>6 DEF Rates!Seen
    <3>0. next = 8 /\ next \in 1 .. 9 /\ seen \in Nat
      BY <1>3, <2>6, <3>1
    <3> HIDE DEF next, seen
    <3>2. walk' = [walk EXCEPT !.i = next, !.wall1 = seen]
      BY <2>1, <3>1
    <3>3. /\ walk' \in RouteReader /\ walk'.i = 8 /\ walk'.wall1 = code.now /\ walk'.wall0 = walk.wall0
          /\ walk'.raw0 = walk.raw0 /\ walk'.raw1 = walk.raw1
      BY <1>0, <3>0, <3>1, <3>2 DEF RouteReader
    <3>4. SpanInv'
      BY <1>0, <2>0, <2>6, <3>3 DEF SpanInv
    <3>. QED
      BY <1>0, <2>0, <3>3, <3>4 DEF RouteInv, RouteTypes
  <2>7. walk.i # 5
    BY <1>2, <2>1
  <2>. QED
    BY <1>1, <2>2, <2>3, <2>4, <2>5, <2>6, <2>7
\* Time goes on for the thread, or without it.
<1>6. ASSUME NEW ran \in {0, 1}, code' = [code EXCEPT !.now = @ + 1, !.ran = @ + ran], walk'.i = walk.i \/ (walk.i = 5 /\ walk'.i = 6),
             walk' \in RouteReader, walk'.wall0 = walk.wall0, walk'.wall1 = walk.wall1, walk'.raw0 = walk.raw0, walk'.raw1 = walk.raw1
      PROVE  RouteInv'
  <2>1. code' \in RouteWorld /\ code'.now = code.now + 1 /\ code'.ran = code.ran + ran /\ code'.cpu = code.cpu
        /\ (code'.pinned <=> code.pinned)
    <3> DEFINE n == code.now + 1  m == code.ran + ran
    <3>1. n \in Nat /\ m \in Nat /\ code' = [code EXCEPT !.now = n, !.ran = m]
      BY <1>3, <1>6
    <3> HIDE DEF n, m
    <3>2. code' \in RouteWorld /\ code'.now = n /\ code'.ran = m /\ code'.cpu = code.cpu /\ (code'.pinned <=> code.pinned)
      BY <1>0, <3>1 DEF RouteWorld
    <3>. QED
      BY <3>2 DEF n, m
  <2>2. Agreed' <=> Agreed
    BY <1>0, <2>1 DEF Agreed
  <2>3. Rates!ReadRaw' <= Rates!ReadRaw + Rate /\ Rates!ReadRaw' \in Nat
    <3>1. source.ahead[code.cpu] \in Nat
      BY <1>0 DEF Rates!Routes, RouteWorld
    <3>2. Rate * (code.now + 1) = Rate * code.now + Rate /\ Rate * code.now \in Nat
      BY <1>0, <1>3, Later
    <3>3. Rate * (code.ran + 1) = Rate * code.ran + Rate /\ Rate * code.ran \in Nat /\ Rate * (code.ran + 0) = Rate * code.ran
      BY <1>0, <1>3, Later
    <3> DEFINE a == Rate * code.now  b == Rate * code.ran  a1 == Rate * (code.now + 1)  b1 == Rate * (code.ran + ran)
               o == source.ahead[code.cpu]
    <3>4. a \in Nat /\ b \in Nat /\ o \in Nat /\ a1 = a + Rate /\ (b1 = b \/ b1 = b + Rate)
      BY <1>6, <3>1, <3>2, <3>3
    <3>5. Rates!ReadRaw = IF source.route = "cycles" THEN b ELSE a + o
      BY DEF Rates!ReadRaw
    <3>6. Rates!ReadRaw' = IF source.route = "cycles" THEN b1 ELSE a1 + o
      BY <1>0, <2>1 DEF Rates!ReadRaw
    <3> HIDE DEF a, b, a1, b1, o
    <3>. QED
      BY <1>0, <3>4, <3>5, <3>6
  <2>4. walk.i > 3 => walk.wall0 <= code.now /\ Rate * (code'.now - walk.wall0) = Rate * (code.now - walk.wall0) + Rate
                      /\ Rate * (code.now - walk.wall0) \in Nat
    <3>1. walk.i > 3 => walk.wall0 <= code.now
      BY <1>0 DEF SpanInv
    <3>2. ASSUME walk.i > 3
          PROVE  /\ Rate * (code'.now - walk.wall0) = Rate * (code.now - walk.wall0) + Rate
                 /\ Rate * (code.now - walk.wall0) \in Nat
      <4>1. Rate * ((code.now + 1) - walk.wall0) = Rate * (code.now - walk.wall0) + Rate /\ Rate * (code.now - walk.wall0) \in Nat
        BY <1>0, <1>3, <3>1, <3>2, Later
      <4>. QED
        BY <2>1, <4>1
    <3>. QED
      BY <3>1, <3>2
  <2>5. walk.i > 3 => walk'.wall0 <= code'.now
    BY <1>3, <1>6, <2>1, <2>4
  <2>6. walk'.i > 3 => walk.i > 3
    BY <1>0, <1>6 DEF RouteReader
  <2>7. walk.raw0 \in Nat /\ walk.raw1 \in Nat /\ walk.i \in 1 .. 9
    BY <1>0 DEF RouteReader
  <2>8. ASSUME Agreed, walk'.i \in 5 .. 6 PROVE Rates!ReadRaw' - walk'.raw0 <= Rate * (code'.now - walk'.wall0)
    <3>1. walk.i \in 5 .. 6
      BY <1>6, <2>7, <2>8
    <3>2. Rates!ReadRaw - walk.raw0 <= Rate * (code.now - walk.wall0)
      BY <1>0, <2>8, <3>1 DEF SpanInv
    <3> DEFINE x == Rate * (code.now - walk.wall0)  y == Rate * (code'.now - walk.wall0)
    <3>3. y = x + Rate /\ x \in Nat
      BY <2>4, <3>1
    <3>4. Rates!ReadRaw - walk.raw0 <= x
      BY <3>2
    <3> HIDE DEF x, y
    <3>5. Rates!ReadRaw' - walk.raw0 <= y
      BY <1>0, <1>3, <2>3, <2>7, <3>3, <3>4
    <3>. QED
      BY <1>6, <3>5 DEF y
  <2>9. ASSUME Agreed, walk'.i = 7 PROVE walk'.raw1 - walk'.raw0 <= Rate * (code'.now - walk'.wall0)
    <3>1. walk.i = 7
      BY <1>6, <2>7, <2>9
    <3> DEFINE x == Rate * (code.now - walk.wall0)  y == Rate * (code'.now - walk.wall0)
    <3>2. walk.raw1 - walk.raw0 <= x
      BY <1>0, <2>9, <3>1 DEF SpanInv
    <3>3. y = x + Rate /\ x \in Nat
      BY <2>4, <3>1
    <3> HIDE DEF x, y
    <3>4. walk.raw1 - walk.raw0 <= y
      BY <1>0, <2>7, <3>2, <3>3
    <3>. QED
      BY <1>6, <3>4 DEF y
  <2>10. ASSUME Agreed, walk'.i > 7 PROVE walk'.wall0 <= walk'.wall1 /\ walk'.raw1 - walk'.raw0 <= Rate * (walk'.wall1 - walk'.wall0)
    <3>1. walk.i > 7
      BY <1>6, <2>7, <2>10
    <3>. QED
      BY <1>0, <1>6, <2>10, <3>1 DEF SpanInv
  <2>11. SpanInv'
    BY <2>2, <2>5, <2>6, <2>8, <2>9, <2>10 DEF SpanInv
  <2>. QED
    BY <1>0, <1>6, <2>1, <2>11 DEF RouteInv, RouteTypes
<1>7. CASE Rates!Wait
  <2> DEFINE next == walk.i + 1
  <2>1. walk' = [walk EXCEPT !.i = next] /\ walk.i = 5 /\ next = 6 /\ next \in 1 .. 9
    BY <1>1, <1>2, <1>7 DEF Rates!Wait
  <2> HIDE DEF next
  <2>2. /\ walk' \in RouteReader /\ walk'.i = 6 /\ walk'.wall0 = walk.wall0 /\ walk'.wall1 = walk.wall1
        /\ walk'.raw0 = walk.raw0 /\ walk'.raw1 = walk.raw1
    BY <1>0, <2>1 DEF RouteReader
  <2>3. CASE code' = [code EXCEPT !.now = @ + 1]
    <3> DEFINE none == 0
    <3>1. code.ran + none = code.ran /\ none \in {0, 1}
      BY <1>3
    <3> HIDE DEF none
    <3>2. code' = [code EXCEPT !.now = @ + 1, !.ran = @ + none]
      BY <1>0, <2>3, <3>1 DEF RouteWorld
    <3>. QED
      BY <1>6, <2>1, <2>2, <3>1, <3>2
  <2>4. CASE UNCHANGED code
    <3>1. (Agreed' <=> Agreed) /\ Rates!ReadRaw' = Rates!ReadRaw
      BY <1>0, <2>4 DEF Agreed, Rates!ReadRaw
    <3>2. SpanInv'
      BY <1>0, <2>1, <2>2, <2>4, <3>1 DEF SpanInv
    <3>. QED
      BY <1>0, <2>2, <2>4, <3>2 DEF RouteInv, RouteTypes
  <2>. QED
    BY <1>7, <2>3, <2>4 DEF Rates!Wait
<1>8. CASE Rates!Tick
  <2>1. PICK ran \in {0, 1} : code' = [code EXCEPT !.now = @ + 1, !.ran = @ + ran]
    BY <1>8 DEF Rates!Tick
  <2>2. UNCHANGED walk
    BY <1>8 DEF Rates!Tick
  <2>. QED
    BY <1>0, <1>6, <2>1, <2>2
<1>9. CASE Rates!Move
  <2>1. PICK cpu \in Cpus : code' = [code EXCEPT !.cpu = cpu]
    BY <1>9 DEF Rates!Move
  <2>2. UNCHANGED walk /\ ~code.pinned
    BY <1>9 DEF Rates!Move
  <2>3. code' \in RouteWorld /\ code'.now = code.now /\ code'.ran = code.ran /\ code'.cpu = cpu /\ (code'.pinned <=> code.pinned)
    BY <1>0, <2>1 DEF RouteWorld
  <2>4. Agreed' <=> Agreed
    BY <1>0, <2>3 DEF Agreed
  <2>5. Agreed => Rates!ReadRaw' = Rates!ReadRaw
    BY <1>0, <2>2, <2>3 DEF Agreed, Rates!ReadRaw, RouteWorld
  <2>6. SpanInv'
    BY <1>0, <2>2, <2>3, <2>4, <2>5 DEF SpanInv
  <2>. QED
    BY <1>0, <2>2, <2>3, <2>6 DEF RouteInv, RouteTypes
<1>. QED
  BY <1>4, <1>5, <1>7, <1>8, <1>9 DEF Rates!RouteNext

\* By it, a usable factor is not too fast.
LEMMA RouteIsNotFast == RouteInv => Rates!FactorIsNeverFast
<1> SUFFICES ASSUME RouteInv, Rates!RouteDone, Rates!Usable, Agreed PROVE Rates!Units <= Rate * Rates!Elapsed
  BY DEF Rates!FactorIsNeverFast, Agreed
<1>1. walk \in RouteReader /\ walk.i > 8
  BY DEF RouteInv, RouteTypes, Rates!RouteDone, Rates!Steps
<1>2. walk.wall0 <= walk.wall1 /\ walk.raw1 - walk.raw0 <= Rate * (walk.wall1 - walk.wall0)
  BY <1>1 DEF RouteInv, SpanInv, RouteReader
<1>3. walk.wall0 \in Nat /\ walk.wall1 \in Nat /\ walk.raw0 \in Nat /\ walk.raw1 \in Nat
  BY <1>1 DEF RouteReader
<1>4. Rates!Elapsed = walk.wall1 - walk.wall0
  BY <1>2, <1>3 DEF Rates!Elapsed, Rates!SaturatingSub
<1>5. Rates!Units = walk.raw1 - walk.raw0
  BY <1>3 DEF Rates!Usable, Rates!Units, Rates!SaturatingSub
<1>. QED
  BY <1>2, <1>4, <1>5

\* It is of the route alone.
LEMMA RouteStutter == RouteInv /\ UNCHANGED Rates!routeVars => RouteInv'
<1> SUFFICES ASSUME RouteInv, UNCHANGED Rates!routeVars PROVE RouteInv'
  OBVIOUS
<1>1. UNCHANGED <<source, code, walk, answers>>
  BY DEF Rates!routeVars
<1>2. SpanInv'
  BY <1>1 DEF RouteInv, SpanInv, Agreed, Rates!ReadRaw
<1>. QED
  BY <1>1, <1>2 DEF RouteInv, RouteTypes

(***************************************************************************)
(* The cycles of a thread (perf.rs).                                       *)
(***************************************************************************)

Event      == [value : Nat, enabled : Nat, running : Nat]
PerfWorld  == [kind : Rates!Kinds, seen : SUBSET Rates!Kinds, turns : Nat, cycles : Nat, missed : BOOLEAN, events : [Rates!Opened -> Event]]
PerfReader == [left : SUBSET Rates!Opened, total : Nat, ran : BOOLEAN, since : Nat, whole : BOOLEAN, reading : BOOLEAN]
Total      == [some : BOOLEAN, total : Nat, least : Nat, most : Nat, whole : BOOLEAN, missed : BOOLEAN, kinds : SUBSET Rates!Kinds]

PerfTypes ==
  /\ source \in Rates!Hosts /\ code \in PerfWorld /\ walk \in PerfReader /\ answers \in Seq(Total) /\ Len(answers) <= 2
  /\ code.kind \in source.kinds /\ code.seen \subseteq source.kinds

\* A sum over events.
If(p, n)   == IF p THEN n ELSE 0
Over(S, f) == If("any" \in S, f["any"]) + If("core" \in S, f["core"]) + If("atom" \in S, f["atom"])

\* What the events have counted, and the most that they can be scaled to.
Values == [c \in Rates!Opened |-> code.events[c].value]
Mosts  == [c \in Rates!Opened |-> If(code.events[c].running > 0, Fastest * code.turns)]

EventInv ==
  \A c \in Rates!Opened :
    /\ code.events[c].enabled = code.turns
    /\ code.events[c].running <= code.turns
    /\ Slowest * code.events[c].running <= code.events[c].value
    /\ code.events[c].value <= Fastest * code.events[c].running
    /\ code.events[c].running > 0 => \E k \in code.seen : Rates!Counts(c, k)
    /\ \A k \in Rates!Kinds : ~code.missed /\ code.seen = {k} =>
         /\ code.events[c].running = IF Rates!Counts(c, k) THEN code.turns ELSE 0
         /\ code.events[c].value = IF Rates!Counts(c, k) THEN code.cycles ELSE 0

CyclesInv ==
  /\ code.seen = {} <=> code.turns = 0
  /\ Slowest * code.turns <= code.cycles
  /\ code.cycles <= Fastest * code.turns
  /\ Rates!Whole => code.cycles <= Over(Rates!Opened, Values)

\* What is to come of a read, what came of it, and the most that can have come.
ToCome == Over(walk.left, Values)
Came   == Over(Rates!Opened \ walk.left, Values)
AtMost == Over(Rates!Opened \ walk.left, Mosts)

ReadInv ==
  walk.reading =>
    /\ Len(answers) < 2 /\ walk.since <= code.cycles
    /\ walk.ran => /\ Slowest * walk.since <= Fastest * walk.total
                   /\ \E c \in Rates!Opened : code.events[c].running > 0
    /\ walk.total <= AtMost
    /\ walk.whole => walk.since <= walk.total + ToCome
    /\ \A k \in Rates!Kinds : ~code.missed /\ code.seen = {k} =>
         /\ walk.total <= code.cycles
         /\ walk.total <= Came
         /\ \A c \in walk.left : Rates!Counts(c, k) => walk.total = 0

\* Where nothing is an estimate, what the first read returned is not more than
\* what the second will.
AgainInv ==
  Len(answers) = 1 /\ answers[1].some =>
    /\ walk.reading => walk.ran \/ \E c \in walk.left : code.events[c].running > 0
    /\ \E c \in Rates!Opened : code.events[c].running > 0
    /\ \A k \in Rates!Kinds : ~code.missed /\ code.seen = {k} =>
         answers[1].total <= IF walk.reading THEN walk.total + ToCome ELSE Over(Rates!Opened, Values)

PerfInv == PerfTypes /\ EventInv /\ CyclesInv /\ ReadInv /\ AgainInv /\ Rates!CyclesAreCounted

\* The events that there are.
LEMMA EventsAre ==
  ASSUME source \in Rates!Hosts
  PROVE  /\ Rates!Opened \subseteq {"any", "core", "atom"}
         /\ "any" \in Rates!Opened => Rates!Opened = {"any"} /\ \E k \in Rates!Kinds : source.kinds = {k}
         /\ \A c \in Rates!Opened : c # "any" => c \in Rates!Kinds
<1>1. CASE source.listed = {}
  BY <1>1 DEF Rates!Opened, Rates!Configs, Rates!Hosts
<1>2. CASE source.listed # {}
  BY <1>2 DEF Rates!Opened, Rates!Configs, Rates!Hosts, Rates!Kinds
<1>. QED
  BY <1>1, <1>2

\* A sum is a number, of more it is more, and an event less is a term less.
LEMMA OverIsNat ==
  ASSUME NEW O, NEW S \in SUBSET O, NEW f \in [O -> Nat]
  PROVE  Over(S, f) \in Nat
<1>1. \A c : c \in S => f[c] \in Nat
  OBVIOUS
<1>. QED
  BY <1>1 DEF Over, If

LEMMA OverGrows ==
  ASSUME NEW O, NEW S \in SUBSET O, NEW f \in [O -> Nat], NEW g \in [O -> Nat], \A c \in O : f[c] <= g[c]
  PROVE  Over(S, f) <= Over(S, g)
<1>1. \A c : c \in S => f[c] \in Nat /\ g[c] \in Nat /\ f[c] <= g[c]
  OBVIOUS
<1> DEFINE a(c) == If(c \in S, f[c])
           b(c) == If(c \in S, g[c])
<1>2. \A c : a(c) \in Nat /\ b(c) \in Nat /\ a(c) <= b(c)
  BY <1>1 DEF If
<1>3. Over(S, f) = a("any") + a("core") + a("atom") /\ Over(S, g) = b("any") + b("core") + b("atom")
  BY DEF Over
<1> HIDE DEF a, b
<1>. QED
  BY <1>2, <1>3

LEMMA OverSplits ==
  ASSUME NEW O \in SUBSET {"any", "core", "atom"}, NEW S \in SUBSET O, NEW f \in [O -> Nat], NEW c \in S
  PROVE  Over(S, f) = Over(S \ {c}, f) + f[c] /\ f[c] <= Over(S, f)
<1>1. \A x : x \in S => f[x] \in Nat
  OBVIOUS
<1> DEFINE a(x) == If(x \in S, f[x])
<1>2. \A x : a(x) \in Nat
  BY <1>1 DEF If
<1>3. Over(S, f) = a("any") + a("core") + a("atom")
  BY DEF Over
<1>4. Over(S \ {c}, f) = If("any" # c, a("any")) + If("core" # c, a("core")) + If("atom" # c, a("atom"))
  BY DEF Over, If
<1>5. a(c) = f[c] /\ c \in {"any", "core", "atom"}
  BY DEF If
<1> HIDE DEF a
<1>. QED
  BY <1>2, <1>3, <1>4, <1>5 DEF If

\* Products and quotients.
LEMMA Grown == \A n, a, b \in Nat : a <= b => n * a <= n * b /\ n * a \in Nat /\ n * b \in Nat
  OBVIOUS

LEMMA Reordered == \A a, b, c \in Nat : a * (b * c) = b * (a * c) /\ a * (b + c) = a * b + a * c
  OBVIOUS

LEMMA Smaller == \A a, b \in Nat, c \in Nat \ {0} : a * c < b * c => a < b
  OBVIOUS

LEMMA Quotient ==
  \A n \in Nat, d \in Nat \ {0} : /\ n \div d \in Nat /\ (n \div d) * d <= n
                                  /\ n < ((n \div d) + 1) * d
  OBVIOUS

\* What is counted in r of t turns, scaled to all of them.
LEMMA Scaled ==
  ASSUME NEW v \in Nat, NEW r \in Nat \ {0}, NEW t \in Nat, NEW lo \in Nat, NEW hi \in Nat,
         r <= t, lo * r <= v, v <= hi * r
  PROVE  /\ (v * t) \div r \in Nat /\ v <= (v * t) \div r
         /\ lo * t <= (v * t) \div r /\ (v * t) \div r <= hi * t
<1> DEFINE q == (v * t) \div r
<1>1. v * t \in Nat /\ lo * t \in Nat /\ hi * t \in Nat
  OBVIOUS
<1>2. q \in Nat /\ q * r <= v * t /\ v * t < (q + 1) * r
  BY <1>1, Quotient
<1> HIDE DEF q
<1>3. v * r <= v * t
  BY Grown
<1>4. v < q + 1
  BY <1>1, <1>2, <1>3, Smaller
<1>5. (lo * t) * r <= v * t
  <2>1. t * (lo * r) <= t * v
    BY Grown
  <2>2. t * (lo * r) = (lo * t) * r /\ t * v = v * t
    OBVIOUS
  <2>. QED
    BY <2>1, <2>2
<1>6. lo * t < q + 1
  BY <1>1, <1>2, <1>5, Smaller
<1>7. v * t <= (hi * t) * r
  <2>1. t * v <= t * (hi * r)
    BY Grown
  <2>2. t * (hi * r) = (hi * t) * r /\ t * v = v * t
    OBVIOUS
  <2>. QED
    BY <2>1, <2>2
<1>8. (hi * t) * r < (hi * t + 1) * r
  OBVIOUS
<1>9. q < hi * t + 1
  BY <1>1, <1>2, <1>7, <1>8, Smaller
<1>. QED
  BY <1>1, <1>2, <1>4, <1>6, <1>9 DEF q

\* What is counted of the events are numbers.
LEMMA Numbers ==
  ASSUME PerfTypes
  PROVE  /\ Values \in [Rates!Opened -> Nat] /\ Mosts \in [Rates!Opened -> Nat]
         /\ ToCome \in Nat /\ Came \in Nat /\ AtMost \in Nat /\ Over(Rates!Opened, Values) \in Nat
         /\ code.turns \in Nat /\ code.cycles \in Nat /\ walk.total \in Nat /\ walk.since \in Nat
         /\ \A c \in Rates!Opened : code.events[c] \in Event
         /\ Slowest \in Nat /\ Fastest \in Nat
<1>1. Slowest \in Nat /\ Fastest \in Nat
  BY CounterAssumption
<1>2. code.turns \in Nat /\ code.cycles \in Nat /\ \A c \in Rates!Opened : code.events[c] \in Event
  BY DEF PerfTypes, PerfWorld
<1>3. walk.total \in Nat /\ walk.since \in Nat /\ walk.left \subseteq Rates!Opened
  BY DEF PerfTypes, PerfReader
<1>4. Values \in [Rates!Opened -> Nat]
  BY <1>2 DEF Values, Event
<1>5. Mosts \in [Rates!Opened -> Nat]
  <2>1. Fastest * code.turns \in Nat
    BY <1>1, <1>2
  <2>. QED
    BY <2>1 DEF Mosts, If
<1>6. ToCome \in Nat /\ Came \in Nat /\ AtMost \in Nat /\ Over(Rates!Opened, Values) \in Nat
  BY <1>3, <1>4, <1>5, OverIsNat DEF ToCome, Came, AtMost
<1>. QED
  BY <1>1, <1>2, <1>3, <1>4, <1>5, <1>6

\* An event that ran is scaled to all turns of the thread, at a clock it had.
LEMMA ScaleIs ==
  ASSUME PerfTypes, EventInv, NEW c \in Rates!Opened, code.events[c].running > 0
  PROVE  LET s == Rates!Scale(code.events[c])
         IN /\ s \in Nat /\ code.events[c].value <= s
            /\ Slowest * code.turns <= s /\ s <= Fastest * code.turns
            /\ code.events[c].running = code.turns => s = code.events[c].value
<1> DEFINE v == code.events[c].value
           r == code.events[c].running
           n == code.events[c].enabled
           t == code.turns
<1>1. r \in Nat \ {0} /\ v \in Nat /\ t \in Nat /\ Slowest \in Nat /\ Fastest \in Nat
  BY Numbers DEF Event
<1>2. n = t /\ r <= t /\ Slowest * r <= v /\ v <= Fastest * r
  BY DEF EventInv
<1>3. Rates!Scale(code.events[c]) = IF r >= n THEN v ELSE (v * n) \div r
  BY DEF Rates!Scale
<1> HIDE DEF v, r, n, t
<1>4. v * n = v * t
  BY <1>2
<1>5. CASE r >= n
  <2>1. r = t
    BY <1>1, <1>2, <1>5
  <2>. QED
    BY <1>1, <1>2, <1>3, <1>5, <2>1 DEF v, r, t
<1>6. CASE ~(r >= n)
  <2>1. /\ (v * t) \div r \in Nat /\ v <= (v * t) \div r
        /\ Slowest * t <= (v * t) \div r /\ (v * t) \div r <= Fastest * t
    BY <1>1, <1>2, Scaled
  <2>2. r # t
    BY <1>1, <1>2, <1>6
  <2>. QED
    BY <1>3, <1>4, <1>6, <2>1, <2>2 DEF v, r, t
<1>. QED
  BY <1>5, <1>6

\* A turn only adds to what the events have counted.
LEMMA TurnGrows ==
  ASSUME PerfTypes, EventInv, CyclesInv, Rates!Run, source' = source
  PROVE  /\ PerfTypes' /\ EventInv' /\ CyclesInv'
         /\ \A c \in Rates!Opened : /\ code.events[c].value <= code'.events[c].value
                                    /\ code.events[c].running <= code'.events[c].running
         /\ code.cycles <= code'.cycles /\ code'.turns = code.turns + 1
         /\ \A k : ~code'.missed /\ code'.seen = {k} => ~code.missed /\ (code.seen = {} \/ code.seen = {k})
<1>1. PICK clock \in Slowest .. Fastest, waiting \in SUBSET (IF source.contended THEN Rates!Opened ELSE {}) :
        code' = [code EXCEPT
         !.turns = @ + 1, !.cycles = @ + clock, !.seen = @ \cup {code.kind},
         !.missed = @ \/ waiting # {},
         !.events = [c \in Rates!Opened |->
           LET e == code.events[c]
               on == c \notin waiting /\ Rates!Counts(c, code.kind)
           IN [value   |-> e.value + IF on THEN clock ELSE 0,
               enabled |-> e.enabled + 1,
               running |-> e.running + IF on THEN 1 ELSE 0]]]
  BY DEF Rates!Run
<1> DEFINE On(c) == c \notin waiting /\ Rates!Counts(c, code.kind)
           f == [c \in Rates!Opened |->
                  LET e == code.events[c]
                      on == c \notin waiting /\ Rates!Counts(c, code.kind)
                  IN [value   |-> e.value + IF on THEN clock ELSE 0,
                      enabled |-> e.enabled + 1,
                      running |-> e.running + IF on THEN 1 ELSE 0]]
           m == code.missed \/ waiting # {}
<1>2. Rates!Opened' = Rates!Opened /\ walk' = walk /\ answers' = answers
  BY DEF Rates!Opened, Rates!Configs, Rates!Run
<1>3. /\ code'.kind = code.kind /\ code'.turns = code.turns + 1 /\ code'.cycles = code.cycles + clock
      /\ code'.seen = code.seen \cup {code.kind} /\ code'.missed = m /\ code'.events = f
  BY <1>1 DEF PerfTypes, PerfWorld
<1>4. /\ clock \in Nat /\ Slowest <= clock /\ clock <= Fastest /\ Slowest \in Nat /\ Fastest \in Nat
      /\ code.turns \in Nat /\ code.cycles \in Nat /\ \A c \in Rates!Opened : code.events[c] \in Event
  BY Numbers
<1>5. \A c \in Rates!Opened :
         /\ code'.events[c].value = code.events[c].value + IF On(c) THEN clock ELSE 0
         /\ code'.events[c].enabled = code.events[c].enabled + 1
         /\ code'.events[c].running = code.events[c].running + IF On(c) THEN 1 ELSE 0
  BY <1>3
<1>6. \A c \in Rates!Opened : On(c) \in BOOLEAN
  BY DEF Rates!Counts
<1>7. f \in [Rates!Opened -> Event]
  <2>1. \A c \in Rates!Opened : f[c] \in Event
    BY <1>4 DEF Event
  <2>. QED
    BY <2>1
<1>8. m \in BOOLEAN /\ (m <=> code.missed \/ waiting # {})
  BY DEF PerfTypes, PerfWorld
<1>9. PerfTypes'
  <2> DEFINE n == code.turns + 1
             y == code.cycles + clock
             z == code.seen \cup {code.kind}
  <2>1. code' = [code EXCEPT !.turns = n, !.cycles = y, !.seen = z, !.missed = m, !.events = f]
    BY <1>1 DEF PerfTypes, PerfWorld
  <2>2. n \in Nat /\ y \in Nat /\ z \in SUBSET Rates!Kinds
    BY <1>4 DEF PerfTypes, PerfWorld
  <2> HIDE DEF f, m, n, y, z
  <2>3. code' \in PerfWorld
    BY <1>7, <1>8, <2>1, <2>2 DEF PerfTypes, PerfWorld
  <2>4. PerfWorld' = PerfWorld /\ PerfReader' = PerfReader
    BY <1>2 DEF PerfWorld, PerfReader
  <2>. QED
    BY <1>2, <1>3, <2>3, <2>4 DEF PerfTypes
<1> HIDE DEF On, f, m
<1>10. \A c \in Rates!Opened : /\ code.events[c].value <= code'.events[c].value
                               /\ code.events[c].running <= code'.events[c].running
  BY <1>4, <1>5, <1>6 DEF Event
<1>11. ASSUME NEW k, ~code'.missed, code'.seen = {k}
       PROVE  ~code.missed /\ waiting = {} /\ code.kind = k /\ (code.seen = {} \/ code.seen = {k})
  BY <1>3, <1>8, <1>11
<1>12. code.seen = {} => code.turns = 0 /\ code.cycles = 0
  BY <1>4 DEF CyclesInv
<1>13. ASSUME NEW c \in Rates!Opened
       PROVE  /\ code'.events[c].enabled = code'.turns
              /\ code'.events[c].running <= code'.turns
              /\ Slowest * code'.events[c].running <= code'.events[c].value
              /\ code'.events[c].value <= Fastest * code'.events[c].running
              /\ code'.events[c].running > 0 => \E k \in code'.seen : Rates!Counts(c, k)
              /\ \A k \in Rates!Kinds : ~code'.missed /\ code'.seen = {k} =>
                   /\ code'.events[c].running = IF Rates!Counts(c, k) THEN code'.turns ELSE 0
                   /\ code'.events[c].value = IF Rates!Counts(c, k) THEN code'.cycles ELSE 0
  <2> DEFINE v == code.events[c].value
             r == code.events[c].running
  <2>1. v \in Nat /\ r \in Nat /\ code.events[c].enabled \in Nat
    BY <1>4 DEF Event
  <2>2. r <= code.turns /\ Slowest * r <= v /\ v <= Fastest * r /\ code.events[c].enabled = code.turns
    BY DEF EventInv
  <2>3. code'.events[c].value = v + (IF On(c) THEN clock ELSE 0) /\ code'.events[c].running = r + IF On(c) THEN 1 ELSE 0
    BY <1>5
  <2>4. code'.events[c].enabled = code'.turns
    BY <1>3, <1>5, <2>2
  <2>5. r > 0 => \E k \in code.seen : Rates!Counts(c, k)
    BY DEF EventInv
  <2>6. ASSUME NEW k \in Rates!Kinds, ~code.missed, code.seen = {k}
        PROVE  r = (IF Rates!Counts(c, k) THEN code.turns ELSE 0) /\ v = IF Rates!Counts(c, k) THEN code.cycles ELSE 0
    BY <2>6 DEF EventInv
  <2> HIDE DEF v, r
  <2>7. Slowest * (r + 1) = Slowest * r + Slowest /\ Fastest * (r + 1) = Fastest * r + Fastest
    BY <1>4, <2>1
  <2>8. /\ code'.events[c].running <= code'.turns
        /\ Slowest * code'.events[c].running <= code'.events[c].value
        /\ code'.events[c].value <= Fastest * code'.events[c].running
    <3>1. CASE On(c)
      BY <1>3, <1>4, <2>1, <2>2, <2>3, <2>7, <3>1
    <3>2. CASE ~On(c)
      BY <1>3, <1>4, <2>1, <2>2, <2>3, <3>2
    <3>. QED
      BY <3>1, <3>2
  <2>9. code'.events[c].running > 0 => \E k \in code'.seen : Rates!Counts(c, k)
    <3>1. CASE On(c)
      BY <1>3, <3>1 DEF On
    <3>2. CASE ~On(c)
      BY <1>3, <2>1, <2>3, <2>5, <3>2
    <3>. QED
      BY <3>1, <3>2
  <2>10. ASSUME NEW k \in Rates!Kinds, ~code'.missed, code'.seen = {k}
         PROVE  /\ code'.events[c].running = IF Rates!Counts(c, k) THEN code'.turns ELSE 0
                /\ code'.events[c].value = IF Rates!Counts(c, k) THEN code'.cycles ELSE 0
    <3>1. ~code.missed /\ waiting = {} /\ code.kind = k /\ (code.seen = {} \/ code.seen = {k})
      BY <1>11, <2>10
    <3>2. (On(c) <=> Rates!Counts(c, k)) /\ Rates!Counts(c, k) \in BOOLEAN
      BY <3>1 DEF On, Rates!Counts
    <3>3. code.seen = {} => r = 0 /\ v = 0 /\ code.turns = 0 /\ code.cycles = 0
      BY <1>4, <1>12, <2>1, <2>2
    <3>4. r = (IF Rates!Counts(c, k) THEN code.turns ELSE 0) /\ v = IF Rates!Counts(c, k) THEN code.cycles ELSE 0
      BY <2>6, <3>1, <3>3
    <3>. QED
      BY <1>3, <1>4, <2>1, <2>3, <3>2, <3>4
  <2>. QED
    BY <2>4, <2>8, <2>9, <2>10
<1>14. EventInv'
  BY <1>2, <1>13 DEF EventInv
<1>15. CyclesInv'
  <2>1. code'.seen # {} /\ code'.turns # 0
    BY <1>3, <1>4
  <2>2. Slowest * code'.turns <= code'.cycles /\ code'.cycles <= Fastest * code'.turns
    <3>1. Slowest * (code.turns + 1) = Slowest * code.turns + Slowest /\ Fastest * (code.turns + 1) = Fastest * code.turns + Fastest
      BY <1>4
    <3>. QED
      BY <1>3, <1>4, <3>1 DEF CyclesInv
  <2>3. ASSUME Rates!Whole' PROVE code'.cycles <= Over(Rates!Opened, Values')
    <3>1. /\ ~code'.missed
          /\ \A kind \in code'.seen : \E c \in Rates!Opened : Rates!Counts(c, kind)
      BY <1>2, <2>3 DEF Rates!Whole
    <3>2. waiting = {} /\ Rates!Whole
      BY <1>3, <1>8, <3>1 DEF Rates!Whole
    <3>3. PICK c \in Rates!Opened : Rates!Counts(c, code.kind)
      BY <1>3, <3>1
    <3> DEFINE O == Rates!Opened
               g == Values
               h == Values'
    <3>4. O \in SUBSET {"any", "core", "atom"}
      BY EventsAre DEF PerfTypes
    <3>5. g \in [O -> Nat]
      BY Numbers
    <3>6. \A x \in O : h[x] = code'.events[x].value /\ g[x] = code.events[x].value
      BY <1>2 DEF Values
    <3>7. h \in [O -> Nat]
      <4>1. \A x \in O : code'.events[x].value \in Nat
        BY <1>3, <1>7 DEF Event
      <4>. QED
        BY <1>2, <4>1 DEF Values
    <3>8. \A x \in O : g[x] <= h[x]
      BY <1>10, <3>6
    <3>9. h[c] = g[c] + clock
      BY <1>5, <3>2, <3>3, <3>6 DEF On
    <3>10. code.cycles <= Over(O, g)
      BY <3>2 DEF CyclesInv
    <3> HIDE DEF O, g, h
    <3>11. c \in O
      BY DEF O
    <3>12. /\ Over(O, g) = Over(O \ {c}, g) + g[c] /\ Over(O, h) = Over(O \ {c}, h) + h[c]
           /\ Over(O \ {c}, g) <= Over(O \ {c}, h) /\ Over(O \ {c}, g) \in Nat /\ Over(O \ {c}, h) \in Nat
           /\ g[c] \in Nat
      <4>1. O \ {c} \in SUBSET O /\ O \in SUBSET O
        OBVIOUS
      <4>. QED
        BY <3>4, <3>5, <3>7, <3>8, <3>11, <4>1, OverSplits, OverGrows, OverIsNat
    <3>13. code'.cycles <= Over(O, h)
      BY <1>3, <1>4, <3>9, <3>10, <3>12
    <3>. QED
      BY <3>13 DEF O, h
  <2>. QED
    BY <1>2, <2>1, <2>2, <2>3 DEF CyclesInv, Over, If
<1>16. code.cycles <= code'.cycles /\ code'.turns = code.turns + 1
  BY <1>3, <1>4
<1>17. \A k : ~code'.missed /\ code'.seen = {k} => ~code.missed /\ (code.seen = {} \/ code.seen = {k})
  BY <1>11
<1>. QED
  BY <1>9, <1>10, <1>14, <1>15, <1>16, <1>17

\* The sums of what only grows only grow.
LEMMA SumsGrow ==
  ASSUME PerfTypes, PerfTypes', Rates!Opened' = Rates!Opened, walk' = walk, code.turns <= code'.turns,
         \A c \in Rates!Opened : /\ code.events[c].value <= code'.events[c].value
                                 /\ code.events[c].running <= code'.events[c].running
  PROVE  /\ ToCome <= ToCome' /\ Came <= Came' /\ AtMost <= AtMost'
         /\ Over(Rates!Opened, Values) <= Over(Rates!Opened, Values)'
         /\ ToCome' \in Nat /\ Came' \in Nat /\ AtMost' \in Nat /\ Over(Rates!Opened, Values)' \in Nat
<1> DEFINE O == Rates!Opened
           L == walk.left
           f == Values
           g == Values'
           m == Mosts
           n == Mosts'
<1>1. f \in [O -> Nat] /\ m \in [O -> Nat] /\ Fastest \in Nat /\ code.turns \in Nat
  BY Numbers
<1>2. code'.turns \in Nat /\ \A c \in O : code'.events[c] \in Event /\ code.events[c] \in Event
  BY DEF PerfTypes, PerfWorld
<1>3. Fastest * code.turns <= Fastest * code'.turns /\ Fastest * code.turns \in Nat /\ Fastest * code'.turns \in Nat
  BY <1>1, <1>2, Grown
<1>4. g \in [O -> Nat] /\ n \in [O -> Nat]
  BY <1>2, <1>3 DEF Values, Mosts, If, Event
<1>5. \A c \in O : f[c] <= g[c] /\ m[c] <= n[c]
  BY <1>2, <1>3 DEF Values, Mosts, If, Event
<1>6. L \in SUBSET O /\ O \ L \in SUBSET O /\ O \in SUBSET O
  BY DEF PerfTypes, PerfReader
<1>7. /\ ToCome = Over(L, f) /\ ToCome' = Over(L, g) /\ Came = Over(O \ L, f) /\ Came' = Over(O \ L, g)
      /\ AtMost = Over(O \ L, m) /\ AtMost' = Over(O \ L, n) /\ Over(Rates!Opened, Values)' = Over(O, g)
  BY DEF ToCome, Came, AtMost, Over
<1> HIDE DEF O, L, f, g, m, n
<1>8. /\ Over(L, f) <= Over(L, g) /\ Over(O \ L, f) <= Over(O \ L, g) /\ Over(O \ L, m) <= Over(O \ L, n)
      /\ Over(O, f) <= Over(O, g)
  BY <1>1, <1>4, <1>5, <1>6, OverGrows
<1>9. Over(L, g) \in Nat /\ Over(O \ L, g) \in Nat /\ Over(O \ L, n) \in Nat /\ Over(O, g) \in Nat
  BY <1>4, <1>6, OverIsNat
<1>. QED
  BY <1>7, <1>8, <1>9 DEF O, f

\* What was counted stays where no turn is run.
LEMMA CountedAlone ==
  ASSUME EventInv, CyclesInv, ReadInv, AgainInv, Rates!CyclesAreCounted, Rates!Opened' = Rates!Opened,
         walk' = walk, answers' = answers, code'.turns = code.turns, code'.cycles = code.cycles,
         code'.seen = code.seen, code'.missed = code.missed, code'.events = code.events
  PROVE  EventInv' /\ CyclesInv' /\ ReadInv' /\ AgainInv' /\ Rates!CyclesAreCounted'
<1>1. Values' = Values /\ Mosts' = Mosts
  BY DEF Values, Mosts
<1>2. ToCome' = ToCome /\ Came' = Came /\ AtMost' = AtMost /\ Over(Rates!Opened, Values)' = Over(Rates!Opened, Values)
  BY <1>1 DEF ToCome, Came, AtMost, Over
<1>3. Rates!Whole' <=> Rates!Whole
  BY DEF Rates!Whole
<1>4. EventInv'
  BY DEF EventInv
<1>5. CyclesInv'
  BY <1>2, <1>3 DEF CyclesInv
<1>6. ReadInv'
  BY <1>2 DEF ReadInv
<1>7. AgainInv'
  BY <1>2 DEF AgainInv
<1>8. Rates!CyclesAreCounted'
  BY DEF Rates!CyclesAreCounted
<1>. QED
  BY <1>4, <1>5, <1>6, <1>7, <1>8

\* What was read and what is to come is kept where a turn adds to it.
LEMMA TurnStep ==
  ASSUME PerfInv, Rates!Run, source' = source
  PROVE  PerfInv'
<1>1. PerfTypes /\ EventInv /\ CyclesInv /\ ReadInv /\ AgainInv /\ Rates!CyclesAreCounted
  BY DEF PerfInv
<1>2. /\ PerfTypes' /\ EventInv' /\ CyclesInv'
      /\ \A c \in Rates!Opened : /\ code.events[c].value <= code'.events[c].value
                                 /\ code.events[c].running <= code'.events[c].running
      /\ code.cycles <= code'.cycles /\ code'.turns = code.turns + 1
      /\ \A k : ~code'.missed /\ code'.seen = {k} => ~code.missed /\ (code.seen = {} \/ code.seen = {k})
  BY <1>1, TurnGrows
<1>3. Rates!Opened' = Rates!Opened /\ walk' = walk /\ answers' = answers
  BY DEF Rates!Opened, Rates!Configs, Rates!Run
<1>4. /\ code.turns \in Nat /\ code.cycles \in Nat /\ walk.total \in Nat /\ walk.since \in Nat
      /\ ToCome \in Nat /\ Came \in Nat /\ AtMost \in Nat /\ Over(Rates!Opened, Values) \in Nat
      /\ \A c \in Rates!Opened : code.events[c] \in Event
  BY <1>1, Numbers
<1>5. code'.cycles \in Nat /\ \A c \in Rates!Opened : code'.events[c] \in Event
  BY <1>2, <1>3 DEF PerfTypes, PerfWorld
<1>6. /\ ToCome <= ToCome' /\ Came <= Came' /\ AtMost <= AtMost'
      /\ Over(Rates!Opened, Values) <= Over(Rates!Opened, Values)'
      /\ ToCome' \in Nat /\ Came' \in Nat /\ AtMost' \in Nat /\ Over(Rates!Opened, Values)' \in Nat
  BY <1>1, <1>2, <1>3, <1>4, SumsGrow
<1>7. \A c \in Rates!Opened : code.events[c].running > 0 => code'.events[c].running > 0
  BY <1>2, <1>4, <1>5 DEF Event
<1>8. (\E c \in Rates!Opened : code.events[c].running > 0) => code.seen # {}
  <2>1. \A c \in Rates!Opened : code.events[c].running <= code.turns
    BY <1>1 DEF EventInv
  <2>. QED
    BY <1>1, <1>4, <2>1 DEF CyclesInv, Event
<1>9. walk.left \subseteq Rates!Opened
  BY <1>1 DEF PerfTypes, PerfReader
<1>10. Rates!CyclesAreCounted'
  BY <1>1, <1>3 DEF Rates!CyclesAreCounted
<1>11. ReadInv'
  <2>0. SUFFICES ASSUME walk.reading PROVE ReadInv'
    BY <1>3 DEF ReadInv
  <2>1. /\ Len(answers) < 2 /\ walk.since <= code.cycles
        /\ walk.ran => /\ Slowest * walk.since <= Fastest * walk.total
                       /\ \E c \in Rates!Opened : code.events[c].running > 0
        /\ walk.total <= AtMost
        /\ walk.whole => walk.since <= walk.total + ToCome
    BY <1>1, <2>0 DEF ReadInv
  <2>2. walk.since <= code'.cycles /\ walk.total <= AtMost' /\ (walk.whole => walk.since <= walk.total + ToCome')
    <3>1. walk.since <= code'.cycles
      BY <1>2, <1>4, <1>5, <2>1
    <3>2. walk.total <= AtMost'
      BY <1>4, <1>6, <2>1
    <3>3. walk.whole => walk.since <= walk.total + ToCome'
      BY <1>4, <1>6, <2>1
    <3>. QED
      BY <3>1, <3>2, <3>3
  <2>3. walk.ran => \E c \in Rates!Opened : code'.events[c].running > 0
    BY <1>7, <2>1
  <2>4. ASSUME NEW k \in Rates!Kinds, ~code'.missed, code'.seen = {k}
        PROVE  walk.total <= code'.cycles /\ walk.total <= Came' /\ \A c \in walk.left : Rates!Counts(c, k) => walk.total = 0
    <3>1. ~code.missed /\ (code.seen = {} \/ code.seen = {k})
      BY <1>2, <2>4
    <3>2. CASE code.seen = {}
      <4>1. \A c \in Rates!Opened : ~(code.events[c].running > 0)
        BY <1>8, <3>2
      <4>2. Mosts = [c \in Rates!Opened |-> 0]
        BY <4>1 DEF Mosts, If
      <4>3. AtMost = 0
        BY <4>2 DEF AtMost, Over, If
      <4>4. walk.total = 0
        BY <1>4, <2>1, <4>3
      <4>. QED
        BY <1>5, <1>6, <4>4
    <3>3. CASE code.seen = {k}
      <4>1. walk.total <= code.cycles /\ walk.total <= Came /\ \A c \in walk.left : Rates!Counts(c, k) => walk.total = 0
        BY <1>1, <2>0, <2>4, <3>1, <3>3 DEF ReadInv
      <4>. QED
        BY <1>2, <1>4, <1>5, <1>6, <4>1
    <3>. QED
      BY <3>1, <3>2, <3>3
  <2>. QED
    BY <1>3, <2>1, <2>2, <2>3, <2>4 DEF ReadInv
<1>12. AgainInv'
  <2>1. SUFFICES ASSUME Len(answers) = 1, answers[1].some PROVE AgainInv'
    BY <1>3 DEF AgainInv
  <2>2. /\ walk.reading => walk.ran \/ \E c \in walk.left : code.events[c].running > 0
        /\ \E c \in Rates!Opened : code.events[c].running > 0
    BY <1>1, <2>1 DEF AgainInv
  <2>3. /\ walk.reading => walk.ran \/ \E c \in walk.left : code'.events[c].running > 0
        /\ \E c \in Rates!Opened : code'.events[c].running > 0
    BY <1>7, <1>9, <2>2
  <2>4. answers[1].total \in Nat
    <3>1. answers \in Seq(Total)
      BY <1>1 DEF PerfTypes
    <3>2. answers[1] \in Total
      BY <2>1, <3>1
    <3>. QED
      BY <3>2 DEF Total
  <2>5. ASSUME NEW k \in Rates!Kinds, ~code'.missed, code'.seen = {k}
        PROVE  answers[1].total <= IF walk.reading THEN walk.total + ToCome' ELSE Over(Rates!Opened, Values)'
    <3>1. ~code.missed /\ code.seen = {k}
      BY <1>2, <1>8, <2>2, <2>5
    <3>2. answers[1].total <= IF walk.reading THEN walk.total + ToCome ELSE Over(Rates!Opened, Values)
      BY <1>1, <2>1, <3>1 DEF AgainInv
    <3>. QED
      BY <1>4, <1>6, <2>4, <3>2
  <2>. QED
    BY <1>3, <2>3, <2>5 DEF AgainInv, Over
<1>. QED
  BY <1>2, <1>10, <1>11, <1>12 DEF PerfInv

\* A thread that changes to another kind of core leaves what was counted alone.
LEMMA CoreStep ==
  ASSUME PerfInv, Rates!ChangeCore, source' = source
  PROVE  PerfInv'
<1>1. PerfTypes /\ EventInv /\ CyclesInv /\ ReadInv /\ AgainInv /\ Rates!CyclesAreCounted
  BY DEF PerfInv
<1>2. PICK kind \in source.kinds \ {code.kind} : code' = [code EXCEPT !.kind = kind]
  BY DEF Rates!ChangeCore
<1>3. Rates!Opened' = Rates!Opened /\ walk' = walk /\ answers' = answers
  BY DEF Rates!Opened, Rates!Configs, Rates!ChangeCore
<1>4. kind \in Rates!Kinds
  BY <1>1, <1>2 DEF PerfTypes, Rates!Hosts
<1>5. /\ code'.turns = code.turns /\ code'.cycles = code.cycles /\ code'.seen = code.seen
      /\ code'.events = code.events
  BY <1>1, <1>2 DEF PerfTypes, PerfWorld
<1>6. code'.missed = code.missed
  BY <1>1, <1>2 DEF PerfTypes, PerfWorld
<1>7. PerfTypes'
  <2>1. code' \in PerfWorld
    BY <1>1, <1>2, <1>4 DEF PerfTypes, PerfWorld
  <2>2. PerfWorld' = PerfWorld /\ PerfReader' = PerfReader
    BY <1>3 DEF PerfWorld, PerfReader
  <2>3. code'.kind \in source.kinds
    BY <1>1, <1>2 DEF PerfTypes, PerfWorld
  <2>. QED
    BY <1>1, <1>3, <1>5, <2>1, <2>2, <2>3 DEF PerfTypes
<1>. QED
  BY <1>1, <1>3, <1>5, <1>6, <1>7, CountedAlone DEF PerfInv

\* A read begins with everything to come.
LEMMA BeginStep ==
  ASSUME PerfInv, Rates!Begin, source' = source
  PROVE  PerfInv'
<1>1. PerfTypes /\ EventInv /\ CyclesInv /\ ReadInv /\ AgainInv /\ Rates!CyclesAreCounted
  BY DEF PerfInv
<1>2. Rates!Opened' = Rates!Opened /\ code' = code /\ answers' = answers /\ ~walk.reading /\ Len(answers) < 2
  BY DEF Rates!Opened, Rates!Configs, Rates!Begin
<1>3. /\ walk'.left = Rates!Opened /\ walk'.total = 0 /\ walk'.since = code.cycles /\ walk'.reading
      /\ (walk'.whole => Rates!Whole) /\ ~walk'.ran
  BY DEF Rates!Begin
<1>4. PerfTypes'
  <2> DEFINE y == Rates!Whole
             n == code.cycles
  <2>1. walk' = [left |-> Rates!Opened, total |-> 0, ran |-> FALSE, since |-> n, whole |-> y, reading |-> TRUE]
    BY DEF Rates!Begin
  <2>2. y \in BOOLEAN /\ n \in Nat
    BY <1>1 DEF Rates!Whole, PerfTypes, PerfWorld
  <2> HIDE DEF y, n
  <2>3. walk' \in PerfReader
    BY <2>1, <2>2 DEF PerfReader
  <2>4. PerfWorld' = PerfWorld /\ PerfReader' = PerfReader
    BY <1>2 DEF PerfWorld, PerfReader
  <2>. QED
    BY <1>1, <1>2, <2>3, <2>4 DEF PerfTypes
<1>5. Values' = Values /\ Mosts' = Mosts
  BY <1>2 DEF Values, Mosts
<1>6. EventInv' /\ CyclesInv'
  <2>1. EventInv'
    BY <1>1, <1>2 DEF EventInv
  <2>2. Rates!Whole' <=> Rates!Whole
    BY <1>2 DEF Rates!Whole
  <2>3. Over(Rates!Opened, Values)' = Over(Rates!Opened, Values)
    BY <1>2, <1>5 DEF Over
  <2>. QED
    BY <1>1, <1>2, <2>1, <2>2, <2>3 DEF CyclesInv
<1>7. Rates!CyclesAreCounted'
  BY <1>1, <1>2 DEF Rates!CyclesAreCounted
<1>8. ToCome' = Over(Rates!Opened, Values) /\ Came' = 0 /\ AtMost' = 0
  BY <1>2, <1>3, <1>5 DEF ToCome, Came, AtMost, Over, If
<1>9. Over(Rates!Opened, Values) \in Nat /\ code.cycles \in Nat
  BY <1>1, Numbers
<1>10. ReadInv'
  BY <1>1, <1>2, <1>3, <1>8, <1>9 DEF ReadInv, CyclesInv
<1>11. AgainInv'
  BY <1>1, <1>2, <1>3, <1>8, <1>9 DEF AgainInv
<1>. QED
  BY <1>4, <1>6, <1>7, <1>10, <1>11 DEF PerfInv

\* One event less to come, and what it gives came.
LEMMA ReadStep ==
  ASSUME PerfInv, Rates!ReadEvent, source' = source
  PROVE  PerfInv'
<1>1. PerfTypes /\ EventInv /\ CyclesInv /\ ReadInv /\ AgainInv /\ Rates!CyclesAreCounted
  BY DEF PerfInv
<1>2. Rates!Opened' = Rates!Opened /\ code' = code /\ answers' = answers /\ walk.reading
  BY DEF Rates!Opened, Rates!Configs, Rates!ReadEvent
<1>3. PICK c \in walk.left :
        walk' = [walk EXCEPT !.left = @ \ {c},
                             !.total = @ + IF code.events[c].running > 0 THEN Rates!Scale(code.events[c]) ELSE 0,
                             !.ran = @ \/ code.events[c].running > 0]
  BY DEF Rates!ReadEvent
<1> DEFINE s == IF code.events[c].running > 0 THEN Rates!Scale(code.events[c]) ELSE 0
           e == code.events[c]
<1>4. c \in Rates!Opened /\ walk.left \subseteq Rates!Opened
  BY <1>1, <1>3 DEF PerfTypes, PerfReader
<1>5. /\ e.value \in Nat /\ e.running \in Nat /\ code.turns \in Nat /\ code.cycles \in Nat /\ walk.total \in Nat
      /\ walk.since \in Nat /\ Slowest \in Nat /\ Fastest \in Nat /\ ToCome \in Nat /\ Came \in Nat /\ AtMost \in Nat
  BY <1>1, <1>4, Numbers DEF Event
<1>6. e.running <= code.turns /\ e.value <= Fastest * e.running
  BY <1>1, <1>4 DEF EventInv
<1>7. /\ s \in Nat /\ e.value <= s /\ s <= If(e.running > 0, Fastest * code.turns)
      /\ e.running > 0 => Slowest * code.turns <= s
      /\ e.running \in {0, code.turns} => s = e.value
  <2>1. CASE e.running > 0
    <3>1. /\ s \in Nat /\ e.value <= s /\ Slowest * code.turns <= s /\ s <= Fastest * code.turns
          /\ e.running = code.turns => s = e.value
      BY <1>1, <1>4, <2>1, ScaleIs
    <3>. QED
      BY <1>5, <2>1, <3>1 DEF If
  <2>2. CASE ~(e.running > 0)
    <3>1. e.running = 0 /\ e.value = 0 /\ s = 0
      BY <1>5, <1>6, <2>2
    <3>. QED
      BY <2>2, <3>1 DEF If
  <2>. QED
    BY <2>1, <2>2
<1>8. /\ walk'.left = walk.left \ {c} /\ walk'.total = walk.total + s /\ walk'.since = walk.since /\ walk'.reading
      /\ walk'.whole = walk.whole /\ walk'.ran = (walk.ran \/ e.running > 0)
  BY <1>1, <1>2, <1>3 DEF PerfTypes, PerfReader
<1>9. PerfTypes'
  <2> DEFINE t == walk.total + s
             r == walk.ran \/ e.running > 0
             m == walk.left \ {c}
  <2>1. walk' = [walk EXCEPT !.left = m, !.total = t, !.ran = r]
    BY <1>1, <1>3 DEF PerfTypes, PerfReader
  <2>2. t \in Nat /\ r \in BOOLEAN /\ m \in SUBSET Rates!Opened
    BY <1>1, <1>4, <1>5, <1>7 DEF PerfTypes, PerfReader
  <2> HIDE DEF t, r, m
  <2>3. walk' \in PerfReader
    BY <1>1, <2>1, <2>2 DEF PerfTypes, PerfReader
  <2>4. PerfWorld' = PerfWorld /\ PerfReader' = PerfReader
    BY <1>2 DEF PerfWorld, PerfReader
  <2>. QED
    BY <1>1, <1>2, <2>3, <2>4 DEF PerfTypes
<1>10. EventInv' /\ CyclesInv' /\ Rates!CyclesAreCounted' /\ Values' = Values /\ Mosts' = Mosts
  <2>1. Values' = Values /\ Mosts' = Mosts
    BY <1>2 DEF Values, Mosts
  <2>2. EventInv'
    BY <1>1, <1>2 DEF EventInv
  <2>3. Rates!Whole' <=> Rates!Whole
    BY <1>2 DEF Rates!Whole
  <2>4. Over(Rates!Opened, Values)' = Over(Rates!Opened, Values)
    BY <1>2, <2>1 DEF Over
  <2>5. CyclesInv'
    BY <1>1, <1>2, <2>3, <2>4 DEF CyclesInv
  <2>. QED
    BY <1>1, <1>2, <2>1, <2>2, <2>5 DEF Rates!CyclesAreCounted
<1>11. /\ ToCome = ToCome' + e.value /\ Came' = Came + e.value /\ ToCome' \in Nat /\ Came' \in Nat
       /\ AtMost' = AtMost + If(e.running > 0, Fastest * code.turns) /\ AtMost' \in Nat
  <2> DEFINE O == Rates!Opened
             L == walk.left
             f == Values
             m == Mosts
             P == O \ (L \ {c})
  <2>1. O \in SUBSET {"any", "core", "atom"} /\ f \in [O -> Nat] /\ m \in [O -> Nat]
    BY <1>1, EventsAre, Numbers DEF PerfTypes
  <2>2. L \in SUBSET O /\ L \ {c} \in SUBSET O /\ P \in SUBSET O /\ c \in P /\ c \in L /\ P \ {c} = O \ L
    BY <1>3, <1>4
  <2>3. f[c] = e.value /\ m[c] = If(e.running > 0, Fastest * code.turns)
    BY <1>4 DEF Values, Mosts
  <2>4. /\ ToCome = Over(L, f) /\ ToCome' = Over(L \ {c}, f) /\ Came = Over(O \ L, f) /\ Came' = Over(P, f)
        /\ AtMost = Over(O \ L, m) /\ AtMost' = Over(P, m)
    BY <1>2, <1>8, <1>10 DEF ToCome, Came, AtMost, Over
  <2> HIDE DEF O, L, f, m, P
  <2>5. /\ Over(L, f) = Over(L \ {c}, f) + f[c] /\ Over(P, f) = Over(P \ {c}, f) + f[c]
        /\ Over(P, m) = Over(P \ {c}, m) + m[c]
    BY <2>1, <2>2, OverSplits
  <2>6. Over(L \ {c}, f) \in Nat /\ Over(P, f) \in Nat /\ Over(P, m) \in Nat
    BY <2>1, <2>2, OverIsNat
  <2>. QED
    BY <2>2, <2>3, <2>4, <2>5, <2>6
<1>12. If(e.running > 0, Fastest * code.turns) \in Nat
  <2>1. Fastest * code.turns \in Nat
    BY <1>5
  <2>. QED
    BY <2>1 DEF If
<1>13. ASSUME NEW k \in Rates!Kinds, ~code.missed, code.seen = {k}
       PROVE  /\ e.running = IF Rates!Counts(c, k) THEN code.turns ELSE 0
              /\ e.value = IF Rates!Counts(c, k) THEN code.cycles ELSE 0
              /\ s = e.value
  <2>1. /\ e.running = IF Rates!Counts(c, k) THEN code.turns ELSE 0
        /\ e.value = IF Rates!Counts(c, k) THEN code.cycles ELSE 0
    BY <1>1, <1>4, <1>13 DEF EventInv
  <2>. QED
    BY <1>7, <2>1
<1> HIDE DEF s, e
<1>14. ReadInv'
  <2>1. /\ Len(answers) < 2 /\ walk.since <= code.cycles
        /\ walk.ran => /\ Slowest * walk.since <= Fastest * walk.total
                       /\ \E x \in Rates!Opened : code.events[x].running > 0
        /\ walk.total <= AtMost
        /\ walk.whole => walk.since <= walk.total + ToCome
    BY <1>1, <1>2 DEF ReadInv
  <2>2. walk'.total <= AtMost' /\ (walk'.whole => walk'.since <= walk'.total + ToCome')
    <3>1. walk'.total <= AtMost'
      BY <1>5, <1>7, <1>8, <1>11, <1>12, <2>1
    <3>2. walk.total + ToCome <= walk'.total + ToCome'
      BY <1>5, <1>7, <1>8, <1>11
    <3>3. walk'.total \in Nat
      BY <1>5, <1>7, <1>8
    <3>4. walk.since <= walk.total + ToCome => walk.since <= walk'.total + ToCome'
      BY <1>5, <1>11, <3>2, <3>3
    <3>. QED
      BY <1>8, <2>1, <3>1, <3>4
  <2>3. walk'.ran => \E x \in Rates!Opened : code.events[x].running > 0
    BY <1>4, <1>8, <2>1 DEF e
  <2>4. walk'.ran => Slowest * walk.since <= Fastest * walk'.total
    <3>1. Fastest * walk'.total = Fastest * walk.total + Fastest * s
      BY <1>5, <1>7, <1>8, Reordered
    <3>2. Fastest * walk.total \in Nat /\ Fastest * s \in Nat /\ Slowest * walk.since \in Nat
      BY <1>5, <1>7
    <3>3. CASE walk.ran
      BY <2>1, <3>1, <3>2, <3>3
    <3>4. CASE e.running > 0
      <4>1. Slowest * walk.since <= Slowest * code.cycles /\ Slowest * code.cycles \in Nat
        BY <1>5, <2>1, Grown
      <4>2. code.cycles <= Fastest * code.turns /\ Fastest * code.turns \in Nat /\ Slowest * code.turns \in Nat
        BY <1>1, <1>5 DEF CyclesInv
      <4>3. Slowest * code.cycles <= Slowest * (Fastest * code.turns)
        BY <1>5, <4>2, Grown
      <4>4. Fastest * (Slowest * code.turns) <= Fastest * s
        BY <1>5, <1>7, <3>4, <4>2, Grown
      <4>5. Slowest * (Fastest * code.turns) = Fastest * (Slowest * code.turns) /\ Slowest * (Fastest * code.turns) \in Nat
        BY <1>5, <4>2, Reordered
      <4>. QED
        BY <3>1, <3>2, <4>1, <4>3, <4>4, <4>5
    <3>. QED
      BY <1>8, <3>3, <3>4
  <2>5. ASSUME NEW k \in Rates!Kinds, ~code.missed, code.seen = {k}
        PROVE  walk'.total <= code.cycles /\ walk'.total <= Came' /\ \A x \in walk'.left : Rates!Counts(x, k) => walk'.total = 0
    <3>1. walk.total <= code.cycles /\ walk.total <= Came /\ \A x \in walk.left : Rates!Counts(x, k) => walk.total = 0
      BY <1>1, <1>2, <2>5 DEF ReadInv
    <3>2. s = IF Rates!Counts(c, k) THEN code.cycles ELSE 0
      BY <1>13, <2>5
    <3>3. walk'.total <= Came'
      BY <1>5, <1>8, <1>11, <1>13, <2>5, <3>1
    <3>4. CASE ~Rates!Counts(c, k)
      <4>1. walk'.total = walk.total
        BY <1>5, <1>8, <3>2, <3>4
      <4>. QED
        BY <1>8, <3>1, <3>3, <4>1
    <3>5. CASE Rates!Counts(c, k)
      <4>1. walk.total = 0
        BY <1>3, <3>1, <3>5
      <4>2. walk'.total <= code.cycles
        BY <1>5, <1>8, <3>2, <3>5, <4>1
      <4>3. \A x \in walk'.left : ~Rates!Counts(x, k)
        <5>1. CASE "any" \in Rates!Opened
          BY <1>1, <1>4, <1>8, <5>1, EventsAre DEF PerfTypes
        <5>2. CASE "any" \notin Rates!Opened
          BY <1>4, <1>8, <3>5, <5>2 DEF Rates!Counts
        <5>. QED
          BY <5>1, <5>2
      <4>. QED
        BY <3>3, <4>2, <4>3
    <3>. QED
      BY <3>4, <3>5
  <2>. QED
    BY <1>2, <1>8, <2>1, <2>2, <2>3, <2>4, <2>5 DEF ReadInv
<1>15. AgainInv'
  <2>1. SUFFICES ASSUME Len(answers) = 1, answers[1].some PROVE AgainInv'
    BY <1>2 DEF AgainInv
  <2>2. /\ walk.ran \/ \E x \in walk.left : code.events[x].running > 0
        /\ \E x \in Rates!Opened : code.events[x].running > 0
    BY <1>1, <1>2, <2>1 DEF AgainInv
  <2>3. walk'.ran \/ \E x \in walk'.left : code.events[x].running > 0
    BY <1>8, <2>2 DEF e
  <2>4. ASSUME NEW k \in Rates!Kinds, ~code.missed, code.seen = {k}
        PROVE  answers[1].total <= walk'.total + ToCome'
    <3>1. answers[1].total <= walk.total + ToCome
      BY <1>1, <1>2, <2>1, <2>4 DEF AgainInv
    <3>2. walk'.total + ToCome' = walk.total + ToCome
      BY <1>5, <1>8, <1>11, <1>13, <2>4
    <3>. QED
      BY <3>1, <3>2
  <2>. QED
    BY <1>2, <1>8, <2>2, <2>3, <2>4 DEF AgainInv
<1>. QED
  BY <1>9, <1>10, <1>14, <1>15 DEF PerfInv

\* All events together are scaled to no more than all turns at the fastest, and
\* twice that where both kinds of core were seen.
LEMMA MostsAre ==
  ASSUME PerfTypes, EventInv
  PROVE  Over(Rates!Opened, Mosts) <= (IF code.seen = Rates!Kinds THEN 2 ELSE 1) * (Fastest * code.turns)
<1> DEFINE M == Fastest * code.turns
           a(c) == If(c \in Rates!Opened, Mosts[c])
<1>1. M \in Nat
  <2>1. Fastest \in Nat /\ code.turns \in Nat
    BY Numbers
  <2>. QED
    BY <2>1
<1>2. \A c : a(c) = If(c \in Rates!Opened /\ code.events[c].running > 0, M)
  BY DEF Mosts, If
<1>3. Over(Rates!Opened, Mosts) = a("any") + a("core") + a("atom")
  BY DEF Over
<1>4. \A c \in Rates!Opened : code.events[c].running > 0 => c = "any" \/ c \in code.seen
  BY DEF EventInv, Rates!Counts
<1>5. code.seen \subseteq Rates!Kinds
  BY DEF PerfTypes, PerfWorld
<1> HIDE DEF M, a
<1>6. CASE "any" \in Rates!Opened
  <2>1. Rates!Opened = {"any"}
    BY <1>6, EventsAre DEF PerfTypes
  <2>2. a("core") = 0 /\ a("atom") = 0 /\ a("any") \in {0, M}
    BY <1>2, <2>1 DEF If
  <2>. QED
    BY <1>1, <1>3, <2>2 DEF M
<1>7. CASE "any" \notin Rates!Opened
  <2>1. a("any") = 0 /\ a("core") \in {0, M} /\ a("atom") \in {0, M}
    BY <1>2, <1>7 DEF If
  <2>2. code.seen # Rates!Kinds => a("core") = 0 \/ a("atom") = 0
    BY <1>2, <1>4, <1>5 DEF If, Rates!Kinds
  <2>. QED
    BY <1>1, <1>3, <2>1, <2>2 DEF M
<1>. QED
  BY <1>6, <1>7

\* What is returned is what came of the events, which is all of them.
LEMMA ReturnStep ==
  ASSUME PerfInv, Rates!Return, source' = source
  PROVE  PerfInv'
<1>1. PerfTypes /\ EventInv /\ CyclesInv /\ ReadInv /\ AgainInv /\ Rates!CyclesAreCounted
  BY DEF PerfInv
<1>2. Rates!Opened' = Rates!Opened /\ code' = code /\ walk.reading /\ walk.left = {} /\ Len(answers) < 2
  BY <1>1 DEF Rates!Opened, Rates!Configs, Rates!Return, ReadInv
<1>3. walk'.left = {} /\ ~walk'.reading /\ walk' \in PerfReader
  BY <1>1, <1>2 DEF PerfTypes, PerfReader, Rates!Return
<1> DEFINE a == [some |-> walk.ran, total |-> walk.total, least |-> walk.since, most |-> code.cycles,
                 whole |-> walk.whole, missed |-> code.missed, kinds |-> code.seen]
<1>4. answers' = Append(answers, a)
  BY DEF Rates!Return
<1>5. a \in Total
  BY <1>1 DEF Total, PerfTypes, PerfReader, PerfWorld
<1>6. /\ a.some = walk.ran /\ a.total = walk.total /\ a.least = walk.since /\ a.most = code.cycles
      /\ a.whole = walk.whole /\ a.missed = code.missed /\ a.kinds = code.seen
  OBVIOUS
<1> HIDE DEF a
<1>7. answers \in Seq(Total)
  BY <1>1 DEF PerfTypes
<1>8. answers' \in Seq(Total) /\ Len(answers') = Len(answers) + 1 /\ Len(answers') <= 2
        /\ answers'[Len(answers')] = a /\ \A k \in DOMAIN answers : answers'[k] = answers[k]
  BY <1>2, <1>4, <1>5, <1>7
<1>9. PerfTypes'
  <2>1. PerfWorld' = PerfWorld /\ PerfReader' = PerfReader
    BY <1>2 DEF PerfWorld, PerfReader
  <2>. QED
    BY <1>1, <1>2, <1>3, <1>8, <2>1 DEF PerfTypes
<1>10. Values' = Values /\ Mosts' = Mosts /\ Over(Rates!Opened, Values)' = Over(Rates!Opened, Values)
  BY <1>2 DEF Values, Mosts, Over
<1>11. EventInv' /\ CyclesInv'
  <2>1. EventInv'
    BY <1>1, <1>2 DEF EventInv
  <2>2. Rates!Whole' <=> Rates!Whole
    BY <1>2 DEF Rates!Whole
  <2>. QED
    BY <1>1, <1>2, <1>10, <2>1, <2>2 DEF CyclesInv
<1>12. ReadInv'
  BY <1>3 DEF ReadInv
<1>13. ToCome = 0 /\ Came = Over(Rates!Opened, Values) /\ AtMost = Over(Rates!Opened, Mosts)
  <2>1. Rates!Opened \ walk.left = Rates!Opened
    BY <1>2
  <2>. QED
    BY <1>2, <2>1 DEF ToCome, Came, AtMost, Over, If
<1>14. /\ walk.total \in Nat /\ walk.since \in Nat /\ code.cycles \in Nat /\ code.turns \in Nat
       /\ Slowest \in Nat /\ Fastest \in Nat /\ AtMost \in Nat
  BY <1>1, Numbers
<1>15. /\ walk.ran => /\ Slowest * walk.since <= Fastest * walk.total
                      /\ \E c \in Rates!Opened : code.events[c].running > 0
       /\ walk.total <= AtMost
       /\ walk.whole => walk.since <= walk.total
       /\ \A k \in Rates!Kinds : ~code.missed /\ code.seen = {k} => walk.total <= code.cycles /\ walk.total <= Came
  BY <1>1, <1>2, <1>13, <1>14 DEF ReadInv
<1>16. AgainInv'
  <2>1. SUFFICES ASSUME Len(answers') = 1, answers'[1].some
                 PROVE  /\ \E c \in Rates!Opened : code.events[c].running > 0
                        /\ \A k \in Rates!Kinds : ~code.missed /\ code.seen = {k} => answers'[1].total <= Over(Rates!Opened, Values)
    BY <1>2, <1>3, <1>10 DEF AgainInv
  <2>2. answers'[1] = a
    BY <1>8, <2>1
  <2>. QED
    BY <1>6, <1>13, <1>15, <2>1, <2>2
<1>17. walk.ran => code.seen # {}
  <2>1. \A c \in Rates!Opened : code.events[c].running <= code.turns /\ code.events[c] \in Event
    BY <1>1, Numbers DEF EventInv
  <2>. QED
    BY <1>1, <1>14, <1>15, <2>1 DEF CyclesInv, Event
<1>18. code.seen # {} /\ code.seen # Rates!Kinds => \E k \in Rates!Kinds : code.seen = {k}
  BY <1>1 DEF PerfTypes, PerfWorld, Rates!Kinds
<1> DEFINE Good(x) == x.some => /\ Slowest * x.least <= Fastest * x.total
                                /\ Slowest * x.total <= (IF x.kinds = Rates!Kinds THEN 2 ELSE 1) * (Fastest * x.most)
                                /\ x.whole => x.least <= x.total
                                /\ ~x.missed /\ x.kinds # Rates!Kinds => x.total <= x.most
           Next2(x, y) == y.some => x.some /\ (~x.missed /\ x.kinds # Rates!Kinds => y.total <= x.total)
<1>19. Good(a)
  <2>1. SUFFICES ASSUME walk.ran
                 PROVE  /\ Slowest * walk.total <= (IF code.seen = Rates!Kinds THEN 2 ELSE 1) * (Fastest * code.cycles)
                        /\ ~code.missed /\ code.seen # Rates!Kinds => walk.total <= code.cycles
    BY <1>6, <1>15
  <2> DEFINE n == IF code.seen = Rates!Kinds THEN 2 ELSE 1
  <2>2. n \in Nat
    OBVIOUS
  <2>3. walk.total <= n * (Fastest * code.turns)
    <3>1. Over(Rates!Opened, Mosts) <= n * (Fastest * code.turns)
      BY <1>1, MostsAre
    <3>2. Fastest * code.turns \in Nat
      BY <1>14
    <3>3. n * (Fastest * code.turns) \in Nat
      BY <2>2, <3>2
    <3> HIDE DEF n
    <3>4. AtMost <= n * (Fastest * code.turns)
      BY <1>13, <3>1
    <3>. QED
      BY <1>14, <1>15, <3>3, <3>4
  <2> HIDE DEF n
  <2>4. Fastest * code.turns \in Nat /\ Slowest * code.turns \in Nat /\ n * (Fastest * code.turns) \in Nat
    BY <1>14, <2>2
  <2>5. Slowest * walk.total <= Slowest * (n * (Fastest * code.turns))
    BY <1>14, <2>3, <2>4, Grown
  <2>6. Slowest * (n * (Fastest * code.turns)) = n * (Fastest * (Slowest * code.turns))
    <3>1. Slowest * (n * (Fastest * code.turns)) = n * (Slowest * (Fastest * code.turns))
      BY <1>14, <2>2, <2>4, Reordered
    <3>2. Slowest * (Fastest * code.turns) = Fastest * (Slowest * code.turns)
      BY <1>14, Reordered
    <3>. QED
      BY <3>1, <3>2
  <2>7. Fastest * (Slowest * code.turns) <= Fastest * code.cycles /\ Fastest * (Slowest * code.turns) \in Nat /\ Fastest * code.cycles \in Nat
    BY <1>1, <1>14, <2>4, Grown DEF CyclesInv
  <2>8. n * (Fastest * (Slowest * code.turns)) <= n * (Fastest * code.cycles)
    BY <2>2, <2>7, Grown
  <2>9. Slowest * walk.total <= n * (Fastest * code.cycles)
    <3>1. Slowest * walk.total \in Nat /\ n * (Fastest * code.cycles) \in Nat /\ n * (Fastest * (Slowest * code.turns)) \in Nat
      BY <1>14, <2>2, <2>7, Grown
    <3>. QED
      BY <2>5, <2>6, <2>8, <3>1
  <2>10. ~code.missed /\ code.seen # Rates!Kinds => walk.total <= code.cycles
    BY <1>15, <1>17, <1>18, <2>1
  <2>. QED
    BY <2>9, <2>10 DEF n
<1>20. Len(answers) = 1 => Next2(a, answers[1])
  <2>1. SUFFICES ASSUME Len(answers) = 1, answers[1].some
                 PROVE  walk.ran /\ (~code.missed /\ code.seen # Rates!Kinds => answers[1].total <= walk.total)
    BY <1>6
  <2>2. walk.ran
    BY <1>1, <1>2, <2>1 DEF AgainInv
  <2>3. ASSUME ~code.missed, code.seen # Rates!Kinds PROVE answers[1].total <= walk.total
    <3>1. PICK k \in Rates!Kinds : code.seen = {k}
      BY <1>17, <1>18, <2>2, <2>3
    <3>2. answers[1].total <= walk.total + 0
      BY <1>1, <1>2, <1>13, <2>1, <2>3, <3>1 DEF AgainInv
    <3>. QED
      BY <1>14, <3>2
  <2>. QED
    BY <2>2, <2>3
<1>21. Rates!CyclesAreCounted'
  <2>1. Rates!CyclesAreCounted <=> \A k \in DOMAIN answers : Good(answers[k]) /\ (k > 1 => Next2(answers[k], answers[k - 1]))
    BY DEF Rates!CyclesAreCounted
  <2>2. Rates!CyclesAreCounted' <=> \A k \in DOMAIN answers' : Good(answers'[k]) /\ (k > 1 => Next2(answers'[k], answers'[k - 1]))
    BY DEF Rates!CyclesAreCounted, Rates!Kinds
  <2> HIDE DEF Good, Next2
  <2>3. SUFFICES ASSUME NEW k \in DOMAIN answers' PROVE Good(answers'[k]) /\ (k > 1 => Next2(answers'[k], answers'[k - 1]))
    BY <2>2
  <2>4. Len(answers) \in {0, 1} /\ DOMAIN answers' = 1 .. Len(answers') /\ DOMAIN answers = 1 .. Len(answers)
    <3>1. Len(answers) \in Nat /\ DOMAIN answers = 1 .. Len(answers)
      BY <1>7
    <3>2. DOMAIN answers' = 1 .. Len(answers')
      BY <1>8
    <3>. QED
      BY <1>2, <3>1, <3>2
  <2>5. CASE k \in DOMAIN answers
    <3>1. k = 1 /\ answers'[k] = answers[k]
      BY <1>8, <2>4, <2>5
    <3>. QED
      BY <1>1, <2>1, <2>5, <3>1
  <2>6. CASE k \notin DOMAIN answers
    <3>1. answers'[k] = a
      BY <1>8, <2>3, <2>4, <2>6
    <3>2. k > 1 => Len(answers) = 1 /\ answers'[k - 1] = answers[1]
      BY <1>8, <2>3, <2>4
    <3>. QED
      BY <1>19, <1>20, <3>1, <3>2
  <2>. QED
    BY <2>5, <2>6
<1>. QED
  BY <1>9, <1>11, <1>12, <1>16, <1>21 DEF PerfInv

\* The invariant holds before the thread runs.
LEMMA PerfStarts ==
  ASSUME source \in Rates!Hosts, Rates!PerfInit
  PROVE  PerfInv
<1>1. PICK kind \in source.kinds :
        code = [kind |-> kind, seen |-> {}, turns |-> 0, cycles |-> 0, missed |-> FALSE,
                events |-> [c \in Rates!Opened |-> Rates!NoEvent]]
  BY DEF Rates!PerfInit
<1>2. walk = [left |-> {}, total |-> 0, ran |-> FALSE, since |-> 0, whole |-> FALSE, reading |-> FALSE] /\ answers = <<>>
  BY DEF Rates!PerfInit
<1>3. kind \in Rates!Kinds
  BY <1>1 DEF Rates!Hosts
<1>4. code \in PerfWorld
  <2> DEFINE f == [c \in Rates!Opened |-> Rates!NoEvent]
  <2>1. f \in [Rates!Opened -> Event]
    BY DEF Rates!NoEvent, Event
  <2> HIDE DEF f
  <2>2. code = [kind |-> kind, seen |-> {}, turns |-> 0, cycles |-> 0, missed |-> FALSE, events |-> f]
    BY <1>1 DEF f
  <2>. QED
    BY <1>3, <2>1, <2>2 DEF PerfWorld
<1>5. walk \in PerfReader
  BY <1>2 DEF PerfReader
<1>6. PerfTypes
  BY <1>1, <1>2, <1>4, <1>5 DEF PerfTypes
<1>7. Slowest \in Nat /\ Fastest \in Nat /\ Over(Rates!Opened, Values) \in Nat
  BY <1>6, Numbers
<1>8. Slowest * 0 = 0 /\ Fastest * 0 = 0
  BY <1>7
<1>9. EventInv
  <2>1. \A c \in Rates!Opened : code.events[c] = Rates!NoEvent
    BY <1>1
  <2>2. code.turns = 0 /\ code.seen = {}
    BY <1>1
  <2>. QED
    BY <1>8, <2>1, <2>2 DEF EventInv, Rates!NoEvent
<1>10. CyclesInv
  BY <1>1, <1>7, <1>8 DEF CyclesInv
<1>. QED
  BY <1>2, <1>6, <1>9, <1>10 DEF PerfInv, ReadInv, AgainInv, Rates!CyclesAreCounted

\* Every step keeps it.
LEMMA PerfStep == PerfInv /\ Rates!PerfNext => PerfInv'
  BY TurnStep, CoreStep, BeginStep, ReadStep, ReturnStep DEF Rates!PerfNext

\* By it, what is told of the cycles follows from them.
LEMMA PerfCounts == PerfInv => Rates!CyclesAreCounted
  BY DEF PerfInv

\* It is of the counters alone.
LEMMA PerfStutter == PerfInv /\ UNCHANGED Rates!perfVars => PerfInv'
<1> SUFFICES ASSUME PerfInv, UNCHANGED Rates!perfVars PROVE PerfInv'
  OBVIOUS
<1>1. source' = source /\ code' = code /\ walk' = walk /\ answers' = answers
  BY DEF Rates!perfVars
<1>2. Rates!Opened' = Rates!Opened
  BY <1>1 DEF Rates!Opened, Rates!Configs
<1>3. PerfTypes'
  BY <1>1, <1>2 DEF PerfInv, PerfTypes, PerfWorld, PerfReader
<1>. QED
  BY <1>1, <1>2, <1>3, CountedAlone DEF PerfInv

(***************************************************************************)
(* The jobs of Machine.                                                    *)
(***************************************************************************)

\* The invariant of the bus, where a bus is at work.
BusInv == job = "i2c" => I2cInv

(***************************************************************************)
(* A transfer that i2c.rs reports as done has told the device all its      *)
(* bytes and brings back those the device has for it, in order and without *)
(* a hole, for any transfers, devices and lost arbitrations, however the   *)
(* driver and the controller take turns.                                   *)
(***************************************************************************)
THEOREM TransfersStayWhole == Spec => []TransfersAreWhole
<1>1. Init => BusInv
  <2> SUFFICES ASSUME Init, job = "i2c" PROVE I2cInv
    BY DEF BusInv
  <2>1. I2cBus!I2cInit /\ \E m \in Inputs["i2c"] : source = m.source
    BY DEF Init, Started
  <2>. QED
    BY <2>1, I2cStarts, BusAssumption
<1>2. BusInv /\ [Next]_vars => BusInv'
  <2> SUFFICES ASSUME BusInv, [Next]_vars, job' = "i2c" PROVE I2cInv'
    BY DEF BusInv
  <2>1. CASE UNCHANGED vars
    <3>1. I2cInv /\ UNCHANGED <<source, code, walk, answers>>
      BY <2>1 DEF BusInv, vars
    <3>. QED
      BY <3>1, I2cStutter DEF I2cBus!busVars
  <2>2. CASE Next /\ ~UNCHANGED vars
    <3>1. job = "i2c" /\ I2cBus!I2cNext
      BY <2>2 DEF Next, Work
    <3>. QED
      BY <3>1, I2cStep DEF BusInv
  <2>. QED
    BY <2>1, <2>2 DEF vars
<1>3. BusInv => TransfersAreWhole
  BY I2cWhole DEF BusInv, TransfersAreWhole
<1>. QED
  BY <1>1, <1>2, <1>3, PTL DEF Spec

\* The invariant of the choice, where one is made.
IsaJobInv == job = "isa" => IsaInv

(***************************************************************************)
(* Whatever processor it is, whatever it hides, the system denies and the  *)
(* user wishes, the dispatcher, the kernels and the probes of cpu.rs,      *)
(* backend.rs, simd.rs and dispatch.rs run nothing that it lacks, but for  *)
(* two: RDTSCP in read_overhead_cycles(), and SVE in the probe of a        *)
(* processor that has SME.                                                 *)
(***************************************************************************)
THEOREM WhatIsRunIsThere == Spec => []NothingMissingIsRun
<1>1. Init => IsaJobInv
  <2> SUFFICES ASSUME Init, job = "isa" PROVE IsaInv
    BY DEF IsaJobInv
  <2>1. Features!IsaInit /\ \E m \in Inputs["isa"] : source = m.source
    BY DEF Init, Started
  <2>. QED
    BY <2>1, IsaStarts, ProcessorAssumption
<1>2. IsaJobInv /\ [Next]_vars => IsaJobInv'
  <2> SUFFICES ASSUME IsaJobInv, [Next]_vars, job' = "isa" PROVE IsaInv'
    BY DEF IsaJobInv
  <2>1. CASE UNCHANGED vars
    <3>1. IsaInv /\ UNCHANGED <<source, code, walk, answers>>
      BY <2>1 DEF IsaJobInv, vars
    <3>. QED
      BY <3>1, IsaStutter DEF Features!isaVars
  <2>2. CASE Next /\ ~UNCHANGED vars
    <3>1. job = "isa" /\ Features!IsaNext
      BY <2>2 DEF Next, Work
    <3>. QED
      BY <3>1, IsaStep DEF IsaJobInv
  <2>. QED
    BY <2>1, <2>2 DEF vars
<1>3. IsaJobInv => NothingMissingIsRun
  BY IsaRuns DEF IsaJobInv, NothingMissingIsRun
<1>. QED
  BY <1>1, <1>2, <1>3, PTL DEF Spec

\* The invariant of the evidence, where it is sought.
HyperJobInv == job = "hyper" => HyperInv

(***************************************************************************)
(* On any machine, what hypervisor.rs concludes follows from it: where there*)
(* is no hypervisor, only the kernel module can confirm one, whatever was  *)
(* measured; one that declares itself is confirmed and is never native; and*)
(* what declares an emulator is emulated, and nothing is that is none.     *)
(***************************************************************************)
THEOREM TheVerdictFollows == Spec => []VerdictFollowsTheMachine
<1>1. Init => HyperJobInv
  <2> SUFFICES ASSUME Init, job = "hyper" PROVE HyperInv
    BY DEF HyperJobInv
  <2>1. Hypervisor!HyperInit /\ \E m \in Inputs["hyper"] : source = m.source
    BY DEF Init, Started
  <2>. QED
    BY <2>1, HyperStarts, GuestAssumption
<1>2. HyperJobInv /\ [Next]_vars => HyperJobInv'
  <2> SUFFICES ASSUME HyperJobInv, [Next]_vars, job' = "hyper" PROVE HyperInv'
    BY DEF HyperJobInv
  <2>1. CASE UNCHANGED vars
    <3>1. HyperInv /\ UNCHANGED <<source, code, walk, answers>>
      BY <2>1 DEF HyperJobInv, vars
    <3>. QED
      BY <3>1, HyperStutter DEF Hypervisor!hyperVars
  <2>2. CASE Next /\ ~UNCHANGED vars
    <3>1. job = "hyper" /\ Hypervisor!HyperNext
      BY <2>2 DEF Next, Work
    <3>. QED
      BY <3>1, HyperStep DEF HyperJobInv
  <2>. QED
    BY <2>1, <2>2 DEF vars
<1>3. HyperJobInv => VerdictFollowsTheMachine
  BY HyperFollows DEF HyperJobInv, VerdictFollowsTheMachine
<1>. QED
  BY <1>1, <1>2, <1>3, PTL DEF Spec

\* The invariants of a session and of a benchmark, where there is one.
WorkInv == (job = "crypto" => CryptoInv) /\ (job = "bench" => BenchInv)

(***************************************************************************)
(* However often the kernel refuses, whatever the other threads of the     *)
(* process do with descriptors and however much of the data it takes, a    *)
(* session of kcrypto.rs closes its files, each once and no others, and    *)
(* returns what was made of the data of its call; and nanochrono-bench     *)
(* divides by as many operations as were run, but in a pass of AF_ALG in   *)
(* which a call failed, where it divides by no fewer.                      *)
(***************************************************************************)
THEOREM WorkStaysAccountedFor == Spec => []WorkIsAccountedFor
<1>1. Init => WorkInv
  <2>1. ASSUME Init, job = "crypto" PROVE CryptoInv
    <3>1. Crypto!CryptoInit /\ \E m \in Inputs["crypto"] : source = m.source
      BY <2>1 DEF Init, Started
    <3>. QED
      BY <3>1, SessionStarts, WorkAssumption
  <2>2. ASSUME Init, job = "bench" PROVE BenchInv
    <3>1. Crypto!BenchInit /\ \E m \in Inputs["bench"] : source = m.source
      BY <2>2 DEF Init, Started
    <3>. QED
      BY <3>1, BenchStarts, WorkAssumption
  <2>. QED
    BY <2>1, <2>2 DEF WorkInv
<1>2. WorkInv /\ [Next]_vars => WorkInv'
  <2> SUFFICES ASSUME WorkInv, [Next]_vars PROVE WorkInv'
    OBVIOUS
  <2>1. CASE UNCHANGED vars
    <3>1. UNCHANGED <<source, code, walk, answers>> /\ job' = job
      BY <2>1 DEF vars
    <3>2. job = "crypto" => CryptoInv'
      BY <3>1, SessionStutter DEF Crypto!cryptoVars, WorkInv
    <3>3. job = "bench" => BenchInv'
      BY <3>1, BenchStutter DEF Crypto!benchVars, WorkInv
    <3>. QED
      BY <3>1, <3>2, <3>3 DEF WorkInv
  <2>2. CASE Next /\ ~UNCHANGED vars
    <3>1. job' = job /\ (job = "crypto" => Crypto!CryptoNext) /\ (job = "bench" => Crypto!BenchNext)
      BY <2>2 DEF Next, Work
    <3>2. job = "crypto" => CryptoInv'
      BY <3>1, SessionStep DEF WorkInv
    <3>3. job = "bench" => BenchInv'
      BY <3>1, BenchStep DEF WorkInv
    <3>. QED
      BY <3>1, <3>2, <3>3 DEF WorkInv
  <2>. QED
    BY <2>1, <2>2 DEF vars
<1>3. WorkInv => WorkIsAccountedFor
  BY SessionIsClean, BenchCounts DEF WorkInv, WorkIsAccountedFor
<1>. QED
  BY <1>1, <1>2, <1>3, PTL DEF Spec

\* The invariants of what counts, where it is at work.
CountInv ==
  /\ job = "pmu" => PmuInv
  /\ job = "route" => RouteInv
  /\ job = "perf" => PerfInv

(***************************************************************************)
(* On any core, whatever firmware left in its counters and whichever of    *)
(* them only pretend to count, pmu.rs measures the cycles of the work      *)
(* wherever a counter of cycles counts, and writes no register that is not *)
(* there; a rate that clock.rs takes for usable is never above the true    *)
(* one, wherever the thread is stopped or moved; and perf.rs, at whatever  *)
(* clock the thread runs, loses no cycle where its events counted every    *)
(* turn, and is off by no more than the clock changes where they did not   *)
(* (twice that where two kinds of core are summed).                        *)
(***************************************************************************)
THEOREM CountersStayTrue == Spec => []CountersAreTrue
<1>1. Init => CountInv
  <2>1. ASSUME Init, job = "pmu" PROVE PmuInv
    <3>1. Counters!PmuInit /\ \E m \in Inputs["pmu"] : source = m.source
      BY <2>1 DEF Init, Started
    <3>. QED
      BY <3>1, PmuStarts, CounterAssumption
  <2>2. ASSUME Init, job = "route" PROVE RouteInv
    <3>1. Rates!RouteInit /\ \E m \in Inputs["route"] : source = m.source
      BY <2>2 DEF Init, Started
    <3>. QED
      BY <3>1, RouteStarts, CounterAssumption
  <2>3. ASSUME Init, job = "perf" PROVE PerfInv
    <3>1. Rates!PerfInit /\ \E m \in Inputs["perf"] : source = m.source
      BY <2>3 DEF Init, Started
    <3>. QED
      BY <3>1, PerfStarts, CounterAssumption
  <2>. QED
    BY <2>1, <2>2, <2>3 DEF CountInv
<1>2. CountInv /\ [Next]_vars => CountInv'
  <2> SUFFICES ASSUME CountInv, [Next]_vars PROVE CountInv'
    OBVIOUS
  <2>1. CASE UNCHANGED vars
    <3>1. UNCHANGED <<source, code, walk, answers>> /\ job' = job
      BY <2>1 DEF vars
    <3>2. job = "pmu" => PmuInv'
      BY <3>1, PmuStutter DEF Counters!pmuVars, CountInv
    <3>3. job = "route" => RouteInv'
      BY <3>1, RouteStutter DEF Rates!routeVars, CountInv
    <3>4. job = "perf" => PerfInv'
      BY <3>1, PerfStutter DEF Rates!perfVars, CountInv
    <3>. QED
      BY <3>1, <3>2, <3>3, <3>4 DEF CountInv
  <2>2. CASE Next /\ ~UNCHANGED vars
    <3>1. job' = job /\ (job = "pmu" => Counters!PmuNext) /\ (job = "route" => Rates!RouteNext) /\ (job = "perf" => Rates!PerfNext)
      BY <2>2 DEF Next, Work
    <3>2. job = "pmu" => PmuInv'
      BY <3>1, PmuStep DEF CountInv
    <3>3. job = "route" => RouteInv'
      BY <3>1, RouteStep DEF CountInv
    <3>4. job = "perf" => PerfInv'
      BY <3>1, PerfStep DEF CountInv
    <3>. QED
      BY <3>1, <3>2, <3>3, <3>4 DEF CountInv
  <2>. QED
    BY <2>1, <2>2 DEF vars
<1>3. CountInv => CountersAreTrue
  BY PmuMeasures, RouteIsNotFast, PerfCounts DEF CountInv, CountersAreTrue
<1>. QED
  BY <1>1, <1>2, <1>3, PTL DEF Spec
=============================================================================
