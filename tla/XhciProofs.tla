----------------------------- MODULE XhciProofs -----------------------------
(***************************************************************************)
(* Theorems about Xhci.                                                    *)
(*                                                                         *)
(* 1. A ring with a link and a cycle bit is a queue: what is queued comes  *)
(*    last, what a reader finds is the first (QueueAppends,                *)
(*    ReadingTakesHead).                                                   *)
(* 2. The two cursors of the event ring (EventsReachTheDriverOnce).        *)
(* 3. Types (EveryIndexIsInRange).                                         *)
(* 4. Driver and controller in step, by Sync: what is on the command ring, *)
(*    on the ring of the device being brought up and on the event ring at  *)
(*    each step of the driver, and, while polling, how much of a ring the  *)
(*    reports asked for may take.  One lemma for each action, and from     *)
(*    them TheAnswerIsOfTheRequest and TheControllerFindsItsWork.          *)
(***************************************************************************)
EXTENDS Xhci, FiniteSetTheorems, SequenceTheorems, WellFoundedInduction, TLAPS

-----------------------------------------------------------------------------
(* Rings as queues.                                                        *)

\* Links are where a ring ends, and only there.
Linked(ring) ==
  /\ DOMAIN ring = Positions
  /\ \A k \in Positions : ring[k].trb = Link => k = RingLen - 1

\* A ring as its writer left it: the entries before the cursor were written on
\* this pass, the others on the one before.
Current(ring, put) ==
  /\ \A k \in Positions : ring[k].cycle = IF k < put.at THEN put.cycle ELSE 1 - put.cycle
  /\ put.at = 0 => put = Origin

\* A reader that has come no further than the writer, nor fallen back by more
\* than the ring.
Ahead(ring, c, put) ==
  IF c.cycle = put.cycle THEN c.at <= put.at
  ELSE put.at <= c.at /\ ring[RingLen - 1].trb = Link

InFlight(c, put) ==
  IF c.cycle = put.cycle THEN put.at - c.at ELSE put.at - c.at + RingLen - 1

\* Where the entry is that a reader at c comes to after n others.
Nth(c, n) == IF c.at + n < RingLen - 1 THEN c.at + n ELSE c.at + n - (RingLen - 1)

\* What is left for a reader to run, in its order.
Work(ring, c, put) == [n \in 1 .. InFlight(c, put) |-> ring[Nth(c, n - 1)].trb]

Put(ring, put, trb) == Queue([ring |-> ring, cursor |-> put], trb)

\* The parts of a cursor.
LEMMA CursorIs ==
  ASSUME NEW c \in Cursors
  PROVE  /\ c.at \in 0 .. RingLen - 1 /\ c.at \in Int /\ c.cycle \in {0, 1}
         /\ c = [at |-> c.at, cycle |-> c.cycle]
         /\ RingLen \in Nat /\ RingLen > 3
BY XhciAssumption DEF Cursors, Positions

\* One entry on, on the same pass.
LEMMA PastIs ==
  ASSUME NEW c \in Cursors, c.at < RingLen - 1
  PROVE  Past(c) \in Cursors /\ Past(c).at = c.at + 1 /\ Past(c).cycle = c.cycle
<1>1. Past(c) = [at |-> c.at + 1, cycle |-> c.cycle]
  BY CursorIs DEF Past
<1> QED  BY <1>1, CursorIs DEF Cursors, Positions

\* Queueing where there is room writes one entry.
LEMMA QueueOn ==
  ASSUME NEW ring, NEW put \in Cursors, NEW trb, NEW q,
         DOMAIN ring = Positions, q = Put(ring, put, trb), put.at < RingLen - 1
  PROVE  /\ q.cursor \in Cursors /\ DOMAIN q.ring = Positions
         /\ q.cursor = [at |-> put.at + 1, cycle |-> put.cycle]
         /\ \A k \in Positions :
              q.ring[k] = IF k = put.at THEN [trb |-> trb, cycle |-> put.cycle] ELSE ring[k]
<1>1. /\ put.at \in 0 .. RingLen - 1 /\ put.at \in Int /\ put.cycle \in {0, 1}
      /\ put = [at |-> put.at, cycle |-> put.cycle]
      /\ RingLen \in Nat /\ RingLen > 3
  BY CursorIs
<1>2. q = [ring   |-> [ring EXCEPT ![put.at] = [trb |-> trb, cycle |-> put.cycle]],
           cursor |-> [at |-> put.at + 1, cycle |-> put.cycle]]
  BY <1>1 DEF Put, Queue, Write, Past
<1>3. /\ q.cursor = [at |-> put.at + 1, cycle |-> put.cycle]
      /\ q.ring = [ring EXCEPT ![put.at] = [trb |-> trb, cycle |-> put.cycle]]
  BY <1>2
<1>4. q.cursor \in Cursors
  BY <1>1, <1>3 DEF Cursors, Positions
<1> QED  BY <1>3, <1>4 DEF Linked

\* Queueing at the last entry makes it a link and writes the first.
LEMMA QueueOver ==
  ASSUME NEW ring, NEW put \in Cursors, NEW trb, NEW q,
         DOMAIN ring = Positions, q = Put(ring, put, trb), put.at = RingLen - 1
  PROVE  /\ q.cursor \in Cursors /\ DOMAIN q.ring = Positions
         /\ q.cursor = [at |-> 1, cycle |-> 1 - put.cycle]
         /\ \A k \in Positions :
              q.ring[k] = IF k = 0 THEN [trb |-> trb, cycle |-> 1 - put.cycle]
                          ELSE IF k = RingLen - 1 THEN [trb |-> Link, cycle |-> put.cycle]
                          ELSE ring[k]
<1>1. /\ put.at \in 0 .. RingLen - 1 /\ put.at \in Int /\ put.cycle \in {0, 1}
      /\ RingLen \in Nat /\ RingLen > 3
  BY CursorIs
<1>2. /\ StartOver(put) = [at |-> 0, cycle |-> 1 - put.cycle]
      /\ Past(StartOver(put)) = [at |-> 1, cycle |-> 1 - put.cycle]
  BY DEF StartOver, Past
<1>3. q = [ring   |-> Write(Write(ring, put, Link), StartOver(put), trb),
           cursor |-> Past(StartOver(put))]
  BY <1>1 DEF Put, Queue
<1>4. Write(ring, put, Link) = [ring EXCEPT ![RingLen - 1] = [trb |-> Link, cycle |-> put.cycle]]
  BY DEF Write
<1>5. /\ q.cursor = [at |-> 1, cycle |-> 1 - put.cycle]
      /\ q.ring = [[ring EXCEPT ![RingLen - 1] = [trb |-> Link, cycle |-> put.cycle]]
                         EXCEPT ![0] = [trb |-> trb, cycle |-> 1 - put.cycle]]
  BY <1>2, <1>3, <1>4 DEF Write
<1>6. q.cursor \in Cursors /\ 0 # RingLen - 1
  BY <1>1, <1>5 DEF Cursors, Positions
<1> QED  BY <1>1, <1>5, <1>6 DEF Linked, Positions

\* A ring that was queued on is again as its writer leaves one.
LEMMA QueueKeepsRing ==
  ASSUME NEW ring, NEW put \in Cursors, NEW trb, NEW q, trb # Link,
         Linked(ring), Current(ring, put), q = Put(ring, put, trb)
  PROVE  q.cursor \in Cursors /\ Linked(q.ring) /\ Current(q.ring, q.cursor)
<1>1. /\ put.at \in 0 .. RingLen - 1 /\ put.at \in Int /\ put.cycle \in {0, 1}
      /\ RingLen \in Nat /\ RingLen > 3
  BY CursorIs
<1>2. CASE put.at < RingLen - 1
  <2>1. /\ q.cursor \in Cursors /\ DOMAIN q.ring = Positions
        /\ q.cursor = [at |-> put.at + 1, cycle |-> put.cycle]
        /\ \A k \in Positions :
             q.ring[k] = IF k = put.at THEN [trb |-> trb, cycle |-> put.cycle] ELSE ring[k]
    BY <1>2, QueueOn DEF Linked
  <2>2. Linked(q.ring)
    BY <2>1 DEF Linked
  <2>3. Current(q.ring, q.cursor)
    BY <1>1, <1>2, <2>1 DEF Current, Positions
  <2> QED  BY <2>1, <2>2, <2>3
<1>3. CASE put.at = RingLen - 1
  <2>1. /\ q.cursor \in Cursors /\ DOMAIN q.ring = Positions
        /\ q.cursor = [at |-> 1, cycle |-> 1 - put.cycle]
        /\ \A k \in Positions :
             q.ring[k] = IF k = 0 THEN [trb |-> trb, cycle |-> 1 - put.cycle]
                         ELSE IF k = RingLen - 1 THEN [trb |-> Link, cycle |-> put.cycle]
                         ELSE ring[k]
    BY <1>3, QueueOver DEF Linked
  <2>2. Linked(q.ring)
    BY <2>1 DEF Linked
  <2>3. Current(q.ring, q.cursor)
    BY <1>1, <1>3, <2>1 DEF Current, Positions
  <2> QED  BY <2>1, <2>2, <2>3
<1> QED  BY <1>1, <1>2, <1>3

\* A function on 1 .. n is a sequence of that length.
LEMMA FunctionIsSeq ==
  ASSUME NEW n \in Nat, NEW S, NEW f \in [1 .. n -> S]
  PROVE  f \in Seq(S) /\ Len(f) = n
BY SeqDef

\* Sequences of two and three entries.
LEMMA AppendToShort ==
  \A a, b, c : Append(<<a>>, b) = <<a, b>> /\ Append(<<a, b>>, c) = <<a, b, c>>
<1> TAKE a, b, c
<1> DEFINE S == {a, b, c}
<1>1. <<a>> \in Seq(S) /\ <<a, b>> \in Seq(S) /\ <<a, b, c>> \in Seq(S)
  OBVIOUS
<1>2. a \in S /\ b \in S /\ c \in S
  OBVIOUS
<1> HIDE DEF S
<1>3. Append(<<a>>, b) = <<a, b>>
  <2>1. /\ Append(<<a>>, b) \in Seq(S) /\ Len(Append(<<a>>, b)) = 2
        /\ Append(<<a>>, b)[1] = a /\ Append(<<a>>, b)[2] = b
    BY <1>1, <1>2, AppendProperties
  <2>2. Len(<<a, b>>) = 2 /\ \A i \in 1 .. 2 : Append(<<a>>, b)[i] = <<a, b>>[i]
    BY <2>1
  <2> QED  BY <1>1, <2>1, <2>2, SeqEqual
<1>4. Append(<<a, b>>, c) = <<a, b, c>>
  <2>1. /\ Append(<<a, b>>, c) \in Seq(S) /\ Len(Append(<<a, b>>, c)) = 3
        /\ Append(<<a, b>>, c)[1] = a /\ Append(<<a, b>>, c)[2] = b
        /\ Append(<<a, b>>, c)[3] = c
    BY <1>1, <1>2, AppendProperties
  <2>2. /\ Len(<<a, b, c>>) = 3
        /\ \A i \in 1 .. 3 : Append(<<a, b>>, c)[i] = <<a, b, c>>[i]
    BY <2>1
  <2> QED  BY <1>1, <2>1, <2>2, SeqEqual
<1> QED  BY <1>3, <1>4

\* What is left to run: how much, and where each of it is.
LEMMA WorkIs ==
  ASSUME NEW ring, NEW c \in Cursors, NEW put \in Cursors, Ahead(ring, c, put)
  PROVE  /\ InFlight(c, put) \in 0 .. RingLen - 1
         /\ Len(Work(ring, c, put)) = InFlight(c, put)
         /\ DOMAIN Work(ring, c, put) = 1 .. InFlight(c, put)
         /\ \A n \in 1 .. InFlight(c, put) :
              Work(ring, c, put)[n] = ring[Nth(c, n - 1)].trb
<1>1. InFlight(c, put) \in 0 .. RingLen - 1
  BY CursorIs DEF Ahead, InFlight
<1>2. InFlight(c, put) \in Nat
  BY <1>1, CursorIs
<1> QED  BY <1>1, <1>2 DEF Work

\* Putting an entry on a ring that is not full adds it to what a reader has
\* left to run, and takes nothing from that.
LEMMA QueueAppends ==
  ASSUME NEW ring, NEW put \in Cursors, NEW trb, NEW q, NEW c \in Cursors,
         Linked(ring), Current(ring, put), Ahead(ring, c, put),
         Len(Work(ring, c, put)) < RingLen - 1, q = Put(ring, put, trb)
  PROVE  /\ Ahead(q.ring, c, q.cursor)
         /\ Work(q.ring, c, q.cursor) = Append(Work(ring, c, put), trb)
         /\ Kept(ring, q.ring, c)
<1> DEFINE n == InFlight(c, put)
<1>1. /\ put.at \in 0 .. RingLen - 1 /\ put.at \in Int /\ put.cycle \in {0, 1}
      /\ c.at \in 0 .. RingLen - 1 /\ c.at \in Int /\ c.cycle \in {0, 1}
      /\ RingLen \in Nat /\ RingLen > 3
  BY CursorIs
<1>2. n \in 0 .. RingLen - 2 /\ n = InFlight(c, put)
  <2>1. n \in 0 .. RingLen - 1 /\ Len(Work(ring, c, put)) = n
    BY WorkIs
  <2> QED  BY <1>1, <2>1
<1>4. ASSUME put.at < RingLen - 1
      PROVE  /\ q.cursor.at = put.at + 1 /\ q.cursor.cycle = put.cycle
             /\ \A k \in Positions :
                  q.ring[k] = IF k = put.at THEN [trb |-> trb, cycle |-> put.cycle] ELSE ring[k]
  <2>1. /\ q.cursor = [at |-> put.at + 1, cycle |-> put.cycle]
        /\ \A k \in Positions :
             q.ring[k] = IF k = put.at THEN [trb |-> trb, cycle |-> put.cycle] ELSE ring[k]
    BY <1>4, QueueOn DEF Linked
  <2> QED  BY <2>1
<1>5. ASSUME put.at = RingLen - 1
      PROVE  /\ q.cursor.at = 1 /\ q.cursor.cycle = 1 - put.cycle
             /\ \A k \in Positions :
                  q.ring[k] = IF k = 0 THEN [trb |-> trb, cycle |-> 1 - put.cycle]
                              ELSE IF k = RingLen - 1 THEN [trb |-> Link, cycle |-> put.cycle]
                              ELSE ring[k]
  <2>1. /\ q.cursor = [at |-> 1, cycle |-> 1 - put.cycle]
        /\ \A k \in Positions :
             q.ring[k] = IF k = 0 THEN [trb |-> trb, cycle |-> 1 - put.cycle]
                         ELSE IF k = RingLen - 1 THEN [trb |-> Link, cycle |-> put.cycle]
                         ELSE ring[k]
    BY <1>5, QueueOver DEF Linked
  <2> QED  BY <2>1
<1>6. InFlight(c, q.cursor) = n + 1 /\ Ahead(q.ring, c, q.cursor)
  <2>1. CASE put.at < RingLen - 1
    <3>1. RingLen - 1 \in Positions /\ RingLen - 1 # put.at
      BY <1>1, <2>1 DEF Positions
    <3> QED  BY <1>1, <1>2, <1>4, <2>1, <3>1 DEF InFlight, Ahead
  <2>2. CASE put.at = RingLen - 1
    <3>1. RingLen - 1 \in Positions /\ RingLen - 1 # 0
      BY <1>1 DEF Positions
    <3>2. q.ring[RingLen - 1].trb = Link
      BY <1>5, <2>2, <3>1
    <3> QED  BY <1>1, <1>2, <1>5, <2>2, <3>2 DEF InFlight, Ahead
  <2> QED  BY <1>1, <2>1, <2>2
<1>7. /\ Nth(c, n) \in Positions
      /\ \A m \in 0 .. n - 1 : Nth(c, m) \in Positions /\ Nth(c, m) # Nth(c, n)
                              /\ Nth(c, m) # RingLen - 1
  <2>1. n \in Int /\ n >= 0 /\ n <= RingLen - 2
    BY <1>1, <1>2
  <2>2. Nth(c, n) \in Positions
    BY <1>1, <2>1 DEF Nth, Positions
  <2>3. ASSUME NEW m \in 0 .. n - 1
        PROVE  Nth(c, m) \in Positions /\ Nth(c, m) # Nth(c, n) /\ Nth(c, m) # RingLen - 1
    <3>1. m \in Int /\ 0 <= m /\ m < n
      BY <2>1
    <3>2. /\ c.at + m < RingLen - 1 => Nth(c, m) = c.at + m
          /\ c.at + m >= RingLen - 1 => Nth(c, m) = c.at + m - (RingLen - 1)
      BY <1>1, <3>1 DEF Nth
    <3>3. /\ c.at + n < RingLen - 1 => Nth(c, n) = c.at + n
          /\ c.at + n >= RingLen - 1 => Nth(c, n) = c.at + n - (RingLen - 1)
      BY <1>1, <2>1 DEF Nth
    <3>4. Nth(c, m) \in 0 .. RingLen - 1 /\ Nth(c, m) # RingLen - 1
      BY <1>1, <2>1, <3>1, <3>2
    <3>5. Nth(c, m) # Nth(c, n)
      BY <1>1, <2>1, <3>1, <3>2, <3>3
    <3> QED  BY <3>4, <3>5 DEF Positions
  <2> QED  BY <2>2, <2>3
<1>8. Nth(c, n) = IF put.at < RingLen - 1 THEN put.at ELSE 0
  BY <1>1, <1>2 DEF Nth, InFlight, Ahead
<1>9. \A k \in Positions : k # RingLen - 1 =>
         q.ring[k].trb = IF k = Nth(c, n) THEN trb ELSE ring[k].trb
  <2>1. CASE put.at < RingLen - 1
    BY <1>4, <1>8, <2>1
  <2>2. CASE put.at = RingLen - 1
    <3> SUFFICES ASSUME NEW k \in Positions, k # RingLen - 1
                 PROVE  q.ring[k].trb = IF k = 0 THEN trb ELSE ring[k].trb
      BY <1>1, <1>8, <2>2
    <3>1. q.ring[k] = IF k = 0 THEN [trb |-> trb, cycle |-> 1 - put.cycle] ELSE ring[k]
      BY <1>5, <2>2
    <3> QED  BY <3>1
  <2> QED  BY <1>1, <2>1, <2>2
<1>10. Work(q.ring, c, q.cursor) = Append(Work(ring, c, put), trb)
  <2> DEFINE w == Work(ring, c, put)
             v == Work(q.ring, c, q.cursor)
             S == {ring[Nth(c, m - 1)].trb : m \in 1 .. n} \cup {trb}
  <2>1. /\ w = [m \in 1 .. n |-> ring[Nth(c, m - 1)].trb]
        /\ v = [m \in 1 .. n + 1 |-> q.ring[Nth(c, m - 1)].trb]
    BY <1>2, <1>6 DEF Work
  <2>2. Nth(c, n) # RingLen - 1 /\ n \in Nat
    BY <1>1, <1>2, <1>8
  <2>3. \A m \in 1 .. n : q.ring[Nth(c, m - 1)].trb = ring[Nth(c, m - 1)].trb
    <3> TAKE m \in 1 .. n
    <3>1. m - 1 \in 0 .. n - 1
      BY <1>2
    <3> QED  BY <3>1, <1>7, <1>9
  <2>4. q.ring[Nth(c, n)].trb = trb
    BY <1>7, <1>9, <2>2
  <2>5. w \in Seq(S) /\ Len(w) = n /\ trb \in S
    <3>1. w \in [1 .. n -> S]
      BY <2>1
    <3> QED  BY <2>2, <3>1, FunctionIsSeq
  <2>6. /\ Len(v) = n + 1 /\ \A m \in 1 .. n : v[m] = w[m]
        /\ v[n + 1] = trb
    <3>1. \A m \in 1 .. n : v[m] = w[m]
      BY <2>1, <2>2, <2>3
    <3>2. (n + 1) - 1 = n
      BY <2>2
    <3> QED  BY <2>1, <2>2, <2>4, <3>1, <3>2
  <2>7. v \in Seq(S)
    <3>1. \A m \in 1 .. n + 1 : v[m] \in S
      <4>1. \A m \in 1 .. n : v[m] \in S
        BY <2>5, <2>6, ElementOfSeq
      <4>2. \A m \in 1 .. n + 1 : m \in 1 .. n \/ m = n + 1
        BY <2>2
      <4> HIDE DEF v, S
      <4> QED  BY <2>5, <2>6, <4>1, <4>2
    <3>2. v \in [1 .. n + 1 -> S] /\ n + 1 \in Nat
      BY <2>1, <2>2, <3>1
    <3> QED  BY <3>2, FunctionIsSeq
  <2>8. /\ Append(w, trb) \in Seq(S) /\ Len(Append(w, trb)) = n + 1
        /\ \A m \in 1 .. n : Append(w, trb)[m] = w[m]
        /\ Append(w, trb)[n + 1] = trb
    BY <2>5, AppendProperties
  <2>9. \A m \in 1 .. n + 1 : v[m] = Append(w, trb)[m]
    BY <2>2, <2>6, <2>8
  <2> QED  BY <2>6, <2>7, <2>8, <2>9, SeqEqual
<1>11. Kept(ring, q.ring, c)
  <2>1. c.at \in Positions
    BY <1>1 DEF Positions
  <2>2. ring[c.at].cycle = IF c.at < put.at THEN put.cycle ELSE 1 - put.cycle
    BY <2>1 DEF Current
  <2> SUFFICES ASSUME ring[c.at].cycle = c.cycle
               PROVE  q.ring[c.at] = ring[c.at]
    BY DEF Kept, Owned
  <2>3. CASE put.at < RingLen - 1
    <3>1. c.at # put.at
      BY <1>1, <1>2, <2>2, <2>3 DEF InFlight, Ahead
    <3> QED  BY <1>4, <2>1, <2>3, <3>1
  <2>4. CASE put.at = RingLen - 1
    <3>1. c.at # 0 /\ c.at # RingLen - 1
      BY <1>1, <1>2, <2>2, <2>4 DEF InFlight, Ahead
    <3> QED  BY <1>5, <2>1, <2>4, <3>1
  <2> QED  BY <1>1, <2>3, <2>4
<1> QED  BY <1>6, <1>10, <1>11

\* What a reader finds is the first entry of what is left for it to run, and
\* going past it leaves the others.
LEMMA ReadingTakesHead ==
  ASSUME NEW ring, NEW put \in Cursors, NEW c \in Cursors, NEW at,
         Linked(ring), Current(ring, put), Ahead(ring, c, put), at = Reading(ring, c)
  PROVE  /\ at \in Cursors /\ Ahead(ring, at, put)
         /\ Work(ring, at, put) = Work(ring, c, put)
         /\ Owned(ring, at) <=> Work(ring, c, put) # <<>>
         /\ Owned(ring, at) =>
              /\ at.at < RingLen - 1 /\ Past(at) \in Cursors
              /\ Ahead(ring, Past(at), put)
              /\ ring[at.at].trb = Head(Work(ring, c, put))
              /\ Work(ring, Past(at), put) = Tail(Work(ring, c, put))
<1> DEFINE n == InFlight(c, put)
           w == Work(ring, c, put)
<1>1. /\ put.at \in 0 .. RingLen - 1 /\ put.at \in Int /\ put.cycle \in {0, 1}
      /\ c.at \in 0 .. RingLen - 1 /\ c.at \in Int /\ c.cycle \in {0, 1}
      /\ RingLen \in Nat /\ RingLen > 3
  BY CursorIs
<1>2. n \in 0 .. RingLen - 1
  BY WorkIs
<1>3. c.at \in Positions /\ ring[c.at].cycle = IF c.at < put.at THEN put.cycle ELSE 1 - put.cycle
  BY <1>1 DEF Current, Positions
<1>4. \/ at = c /\ ~(Owned(ring, c) /\ c.at = RingLen - 1)
      \/ at = StartOver(c) /\ Owned(ring, c) /\ c.at = RingLen - 1
  <2>1. CASE Owned(ring, c) /\ ring[c.at].trb = Link
    BY <1>3, <2>1 DEF Reading, Linked
  <2>2. CASE ~(Owned(ring, c) /\ ring[c.at].trb = Link)
    <3>1. c.at = RingLen - 1 => ~Owned(ring, c)
      BY <1>1, <1>3, <2>2 DEF Ahead, Owned
    <3> QED  BY <2>2, <3>1 DEF Reading
  <2> QED  BY <2>1, <2>2
<1>5. at \in Cursors /\ Ahead(ring, at, put) /\ InFlight(at, put) = n
  <2>1. CASE at = c
    BY <2>1
  <2>2. CASE at = StartOver(c) /\ Owned(ring, c) /\ c.at = RingLen - 1
    <3>1. at.at = 0 /\ at.cycle = 1 - c.cycle /\ at \in Cursors
      BY <1>1, <2>2 DEF StartOver, Cursors, Positions
    <3>2. c.cycle = 1 - put.cycle
      BY <1>1, <1>3, <2>2 DEF Owned
    <3> QED  BY <1>1, <2>2, <3>1, <3>2 DEF Ahead, InFlight
  <2> QED  BY <1>4, <2>1, <2>2
<1>6. \A m \in 0 .. n - 1 : Nth(at, m) = Nth(c, m)
  <2>1. CASE at = c
    BY <2>1
  <2>2. CASE at = StartOver(c) /\ c.at = RingLen - 1
    <3>1. at.at = 0
      BY <2>2 DEF StartOver
    <3> QED  BY <1>1, <1>2, <2>2, <3>1 DEF Nth
  <2> QED  BY <1>4, <2>1, <2>2
<1>7. w = [m \in 1 .. n |-> ring[Nth(c, m - 1)].trb]
  BY DEF Work
<1>8. Work(ring, at, put) = w
  <2>1. Work(ring, at, put) = [m \in 1 .. n |-> ring[Nth(at, m - 1)].trb]
    BY <1>5 DEF Work
  <2>2. \A m \in 1 .. n : ring[Nth(at, m - 1)].trb = ring[Nth(c, m - 1)].trb
    <3> TAKE m \in 1 .. n
    <3>1. m - 1 \in 0 .. n - 1
      BY <1>2
    <3> QED  BY <1>6, <3>1
  <2> QED  BY <1>7, <2>1, <2>2
<1>9. w # <<>> <=> n > 0
  <2>1. n \in Nat
    BY <1>1, <1>2
  <2> QED  BY <1>7, <2>1
<1>10. Owned(ring, at) <=> n > 0
  <2>1. at.at \in Positions /\ ring[at.at].cycle = IF at.at < put.at THEN put.cycle ELSE 1 - put.cycle
    BY <1>5, CursorIs DEF Current, Positions
  <2>2. /\ at.at \in 0 .. RingLen - 1 /\ at.at \in Int /\ at.cycle \in {0, 1}
    BY <1>5, CursorIs
  <2>3. at.cycle # put.cycle => at.at < RingLen - 1
    <3>1. CASE at = c /\ ~(Owned(ring, c) /\ c.at = RingLen - 1)
      BY <1>1, <1>3, <3>1 DEF Owned, Ahead
    <3>2. CASE at = StartOver(c) /\ c.at = RingLen - 1
      BY <1>1, <3>2 DEF StartOver
    <3> QED  BY <1>4, <3>1, <3>2
  <2> QED  BY <1>1, <1>5, <2>1, <2>2, <2>3 DEF Owned, Ahead, InFlight
<1>11. ASSUME Owned(ring, at)
       PROVE  /\ at.at < RingLen - 1 /\ Past(at) \in Cursors
              /\ Ahead(ring, Past(at), put)
              /\ ring[at.at].trb = Head(w)
              /\ Work(ring, Past(at), put) = Tail(w)
  <2>1. /\ at.at \in 0 .. RingLen - 1 /\ at.at \in Int /\ at.cycle \in {0, 1}
    BY <1>5, CursorIs
  <2>2. at.at < RingLen - 1
    BY <1>1, <1>4, <1>11 DEF StartOver
  <2>3. Past(at).at = at.at + 1 /\ Past(at).cycle = at.cycle /\ Past(at) \in Cursors
    BY <1>5, <2>2, PastIs
  <2>4. n > 0
    BY <1>10, <1>11
  <2>5. Ahead(ring, Past(at), put) /\ InFlight(Past(at), put) = n - 1
    BY <1>1, <1>5, <2>1, <2>2, <2>3, <2>4 DEF Ahead, InFlight
  <2>6. Nth(at, 0) = at.at /\ \A m \in 0 .. n - 2 : Nth(Past(at), m) = Nth(at, m + 1)
    BY <1>1, <1>2, <2>1, <2>2, <2>3 DEF Nth
  <2>7. Nth(c, 0) = at.at /\ \A m \in 0 .. n - 2 : Nth(Past(at), m) = Nth(c, m + 1)
    BY <1>2, <1>6, <2>4, <2>6
  <2> DEFINE S == {w[m] : m \in 1 .. n}
             v == Work(ring, Past(at), put)
  <2>8. w \in Seq(S) /\ Len(w) = n /\ w # <<>>
    <3>1. w \in [1 .. n -> S] /\ n \in Nat
      BY <1>2, <1>7
    <3> QED  BY <1>9, <2>4, <3>1, FunctionIsSeq
  <2>9. /\ Len(Tail(w)) = n - 1 /\ Tail(w) \in Seq(S)
        /\ \A m \in 1 .. n - 1 : Tail(w)[m] = w[m + 1]
    <3> HIDE DEF w, S
    <3> QED  BY <2>8, HeadTailProperties
  <2>10. v = [m \in 1 .. n - 1 |-> ring[Nth(Past(at), m - 1)].trb]
    BY <2>5 DEF Work
  <2>11. \A m \in 1 .. n - 1 : v[m] = w[m + 1]
    <3> TAKE m \in 1 .. n - 1
    <3>1. m - 1 \in 0 .. n - 2 /\ m + 1 \in 1 .. n /\ (m - 1) + 1 = (m + 1) - 1
      BY <1>2
    <3> QED  BY <1>7, <2>7, <2>10, <3>1
  <2>12. v \in Seq(S) /\ Len(v) = n - 1
    <3>1. \A m \in 1 .. n - 1 : w[m + 1] \in S
      BY <1>2, <1>7
    <3>2. v \in [1 .. n - 1 -> S] /\ n - 1 \in Nat
      BY <1>2, <2>4, <2>10, <2>11, <3>1
    <3> QED  BY <3>2, FunctionIsSeq
  <2>13. v = Tail(w)
    <3> HIDE DEF v, w, S
    <3> QED  BY <2>9, <2>11, <2>12, SeqEqual
  <2>14. Head(w) = ring[at.at].trb
    <3>1. Head(w) = w[1]
      <4> HIDE DEF w, S
      <4> QED  BY <2>8
    <3>2. 1 \in 1 .. n /\ 1 - 1 = 0
      BY <1>2, <2>4
    <3> QED  BY <1>7, <2>7, <3>1, <3>2
  <2> QED  BY <2>2, <2>3, <2>5, <2>13, <2>14
<1> QED  BY <1>5, <1>8, <1>9, <1>10, <1>11
(* The two cursors and the entries between them.                           *)

\* The entries behind the controller's cursor were written on its pass, the
\* others on the one before.
RingIsCurrent ==
  \A k \in Positions :
    events[k].cycle = IF k < eventPut.at THEN eventPut.cycle ELSE 1 - eventPut.cycle

\* How far the controller is ahead of the driver, on the same pass or the next.
Distance ==
  IF eventPut.cycle = eventAt.cycle THEN eventPut.at - eventAt.at
  ELSE eventPut.at - eventAt.at + RingLen

\* The cursors are as far apart as events were posted and not taken, which is
\* less than the ring is long.
EventInv ==
  /\ eventPut \in Cursors /\ eventAt \in Cursors
  /\ posted \in Nat /\ taken \in Nat
  /\ DOMAIN events = Positions
  /\ RingIsCurrent
  /\ posted - taken = Distance
  /\ Distance \in 0 .. RingLen - 1

\* What the steps of driver and controller do to the event ring.
EventStep ==
  \/ TakeEvent /\ UNCHANGED eventRing
  \/ (\E event : Post(event)) /\ UNCHANGED eventRead
  \/ UNCHANGED <<eventRing, eventRead>>

-----------------------------------------------------------------------------

\* Both sides start at the same place.
LEMMA EventInit == Init => EventInv
<1> SUFFICES ASSUME Init PROVE EventInv
  OBVIOUS
<1>1. RingLen \in Nat /\ RingLen > 3
  BY XhciAssumption
<1>2. eventPut = [at |-> 0, cycle |-> 1] /\ eventAt = [at |-> 0, cycle |-> 1]
  BY DEF Init, Origin
<1>3. [at |-> 0, cycle |-> 1] \in Cursors
  BY <1>1 DEF Cursors, Positions
<1>4. DOMAIN events = Positions /\ RingIsCurrent
  BY <1>1, <1>2 DEF Init, Blank, RingIsCurrent, Positions
<1> QED  BY <1>1, <1>2, <1>3, <1>4 DEF Init, EventInv, Distance

\* Where a cursor goes: to the next entry, or to the first of the next pass.
LEMMA AroundIs ==
  ASSUME NEW c \in Cursors
  PROVE  /\ Around(c) \in Cursors
         /\ c.at < RingLen - 1 => Around(c).at = c.at + 1 /\ Around(c).cycle = c.cycle
         /\ c.at = RingLen - 1 => Around(c).at = 0 /\ Around(c).cycle = 1 - c.cycle
BY XhciAssumption DEF Around, StartOver, Past, Cursors, Positions

\* An event is taken where the controller has been, so the driver comes no
\* nearer than it is away.
LEMMA TakeKeepsRing ==
  ASSUME EventInv, TakeEvent, UNCHANGED eventRing
  PROVE  EventInv'
<1>1. /\ eventAt' = Around(eventAt) /\ taken' = taken + 1
      /\ events' = events /\ eventPut' = eventPut /\ posted' = posted
  BY DEF TakeEvent, eventRing
<1>2. events[eventAt.at].cycle = eventAt.cycle
  BY DEF TakeEvent, EventWaiting, Owned
<1>3. /\ eventAt.at \in 0 .. RingLen - 1 /\ eventAt.cycle \in {0, 1}
      /\ eventPut.at \in 0 .. RingLen - 1 /\ eventPut.cycle \in {0, 1}
      /\ RingLen \in Nat /\ RingLen > 3
  BY XhciAssumption DEF EventInv, Cursors, Positions
<1>4. events[eventAt.at].cycle
        = IF eventAt.at < eventPut.at THEN eventPut.cycle ELSE 1 - eventPut.cycle
  BY <1>3 DEF EventInv, RingIsCurrent, Positions
<1>5. /\ Distance = IF eventPut.cycle = eventAt.cycle THEN eventPut.at - eventAt.at
                    ELSE eventPut.at - eventAt.at + RingLen
      /\ Distance \in 0 .. RingLen - 1 /\ posted - taken = Distance
  BY DEF Distance, EventInv
<1>6. Distance > 0
  <2>1. CASE eventPut.cycle = eventAt.cycle
    <3>1. eventAt.at < eventPut.at
      BY <2>1, <1>2, <1>3, <1>4
    <3> QED  BY <2>1, <3>1, <1>3, <1>5
  <2>2. CASE eventPut.cycle # eventAt.cycle
    BY <2>2, <1>3, <1>5
  <2> QED  BY <2>1, <2>2
<1>7. /\ Around(eventAt) \in Cursors
      /\ eventAt.at < RingLen - 1 =>
           Around(eventAt).at = eventAt.at + 1 /\ Around(eventAt).cycle = eventAt.cycle
      /\ eventAt.at = RingLen - 1 =>
           Around(eventAt).at = 0 /\ Around(eventAt).cycle = 1 - eventAt.cycle
  BY AroundIs DEF EventInv
<1>8. Distance' = Distance - 1
  <2>1. Distance' = IF eventPut.cycle = Around(eventAt).cycle
                      THEN eventPut.at - Around(eventAt).at
                      ELSE eventPut.at - Around(eventAt).at + RingLen
    BY <1>1 DEF Distance
  <2>2. CASE eventAt.at < RingLen - 1
    BY <2>1, <2>2, <1>3, <1>5, <1>7
  <2>3. CASE eventAt.at = RingLen - 1
    BY <2>1, <2>3, <1>3, <1>5, <1>6, <1>7
  <2> QED  BY <2>2, <2>3, <1>3
<1>9. RingIsCurrent'
  BY <1>1 DEF EventInv, RingIsCurrent, Positions
<1>10. posted' - taken' = Distance' /\ Distance' \in 0 .. RingLen - 1
  BY <1>1, <1>3, <1>5, <1>6, <1>8 DEF EventInv
<1> QED  BY <1>1, <1>7, <1>9, <1>10 DEF EventInv

\* An event is posted only where that leaves an entry before the driver's.
LEMMA PostKeepsRing ==
  ASSUME EventInv, NEW event, Post(event), UNCHANGED eventRead
  PROVE  EventInv'
<1>1. /\ eventPut' = Around(eventPut) /\ posted' = posted + 1
      /\ events' = [events EXCEPT ![eventPut.at] = [trb |-> event, cycle |-> eventPut.cycle]]
      /\ eventAt' = eventAt /\ taken' = taken
  BY DEF Post, Write, eventRead
<1>2. (eventPut.at + 1) % RingLen # eventAt.at
  BY DEF Post, EventRoom
<1>3. /\ eventAt.at \in 0 .. RingLen - 1 /\ eventAt.cycle \in {0, 1}
      /\ eventPut.at \in 0 .. RingLen - 1 /\ eventPut.cycle \in {0, 1}
      /\ RingLen \in Nat /\ RingLen > 3
  BY XhciAssumption DEF EventInv, Cursors, Positions
<1>4. (eventPut.at + 1) % RingLen = IF eventPut.at = RingLen - 1 THEN 0 ELSE eventPut.at + 1
  <2>1. \A m \in Nat, d \in Nat \ {0} : m < d => m % d = m
    OBVIOUS
  <2>2. \A d \in Nat \ {0} : d % d = 0
    OBVIOUS
  <2> QED  BY <2>1, <2>2, <1>3
<1>5. /\ Distance = IF eventPut.cycle = eventAt.cycle THEN eventPut.at - eventAt.at
                    ELSE eventPut.at - eventAt.at + RingLen
      /\ Distance \in 0 .. RingLen - 1 /\ posted - taken = Distance
  BY DEF Distance, EventInv
<1>6. Distance < RingLen - 1
  BY <1>2, <1>3, <1>4, <1>5
<1>7. /\ Around(eventPut) \in Cursors
      /\ eventPut.at < RingLen - 1 =>
           Around(eventPut).at = eventPut.at + 1 /\ Around(eventPut).cycle = eventPut.cycle
      /\ eventPut.at = RingLen - 1 =>
           Around(eventPut).at = 0 /\ Around(eventPut).cycle = 1 - eventPut.cycle
  BY AroundIs DEF EventInv
<1>8. Distance' = Distance + 1
  <2>1. Distance' = IF Around(eventPut).cycle = eventAt.cycle
                      THEN Around(eventPut).at - eventAt.at
                      ELSE Around(eventPut).at - eventAt.at + RingLen
    BY <1>1 DEF Distance
  <2>2. CASE eventPut.at < RingLen - 1
    BY <2>1, <2>2, <1>3, <1>5, <1>7
  <2>3. CASE eventPut.at = RingLen - 1
    BY <2>1, <2>3, <1>3, <1>5, <1>6, <1>7
  <2> QED  BY <2>2, <2>3, <1>3
<1>9. DOMAIN events' = Positions
  BY <1>1 DEF EventInv
<1>10. RingIsCurrent'
  <2> SUFFICES ASSUME NEW k \in Positions
               PROVE  events'[k].cycle = IF k < Around(eventPut).at THEN Around(eventPut).cycle
                                         ELSE 1 - Around(eventPut).cycle
    BY <1>1 DEF RingIsCurrent
  <2>1. k \in 0 .. RingLen - 1
    BY DEF Positions
  <2>2. events'[k].cycle = IF k = eventPut.at THEN eventPut.cycle ELSE events[k].cycle
    BY <1>1 DEF EventInv
  <2>3. events[k].cycle = IF k < eventPut.at THEN eventPut.cycle ELSE 1 - eventPut.cycle
    BY DEF EventInv, RingIsCurrent
  <2>4. CASE eventPut.at < RingLen - 1
    BY <2>1, <2>2, <2>3, <2>4, <1>3, <1>7
  <2>5. CASE eventPut.at = RingLen - 1
    BY <2>1, <2>2, <2>3, <2>5, <1>3, <1>7
  <2> QED  BY <2>4, <2>5, <1>3
<1>11. posted' - taken' = Distance' /\ Distance' \in 0 .. RingLen - 1
  BY <1>1, <1>3, <1>5, <1>6, <1>8 DEF EventInv
<1> QED  BY <1>1, <1>7, <1>9, <1>10, <1>11 DEF EventInv

\* Every handler takes one event at most, or posts one at most.
LEMMA StepsTouchOneEnd == [Next]_vars => EventStep
<1> SUFFICES ASSUME [Next]_vars PROVE EventStep
  OBVIOUS
<1>1. CASE Discard \/ Answered \/ DrainOne
  BY <1>1 DEF Discard, Answered, DrainOne, EventStep
<1>2. CASE Finish \/ SkipPort \/ IssueCommand \/ IssueTransfer \/ CopyDescriptor \/ TimeOut
  BY <1>2 DEF Finish, SkipPort, IssueCommand, IssueTransfer, CopyDescriptor, TimeOut, EventStep
<1>3. CASE ResetPort
  BY <1>3 DEF ResetPort, EventStep
<1>4. CASE BeginPoll \/ DrainDone \/ CopyReport
  BY <1>4 DEF BeginPoll, DrainDone, CopyReport, EventStep
<1>5. CASE Absent \/ UNCHANGED vars
  BY <1>5 DEF Absent, vars, EventStep
<1>6. CASE RunCommand
  BY <1>6 DEF RunCommand, EventStep
<1>7. ASSUME NEW s \in Slots, RunControl(s) PROVE EventStep
  BY <1>7 DEF RunControl, EventStep
<1>8. ASSUME NEW s \in Slots, RunReport(s) PROVE EventStep
  BY <1>8 DEF RunReport, EventStep
<1> QED
  BY <1>1, <1>2, <1>3, <1>4, <1>5, <1>6, <1>7, <1>8 DEF Next, BringUp, Poll, Controller

\* An event is seen exactly while there is one, so none is taken twice and none
\* is lost: for every length of the ring, whatever is plugged in and however
\* fast the controller is.
THEOREM EventsReachTheDriverOnce == Spec => []EventsAreTakenOnce
<1>1. EventInv /\ [Next]_vars => EventInv'
  <2> SUFFICES ASSUME EventInv, [Next]_vars PROVE EventInv'
    OBVIOUS
  <2>1. CASE UNCHANGED <<eventRing, eventRead>>
    BY <2>1 DEF EventInv, RingIsCurrent, Distance, eventRing, eventRead
  <2> QED  BY <2>1, StepsTouchOneEnd, TakeKeepsRing, PostKeepsRing DEF EventStep
<1>2. EventInv => EventsAreTakenOnce
  <2> SUFFICES ASSUME EventInv PROVE EventsAreTakenOnce
    OBVIOUS
  <2>1. /\ eventAt.at \in 0 .. RingLen - 1 /\ eventAt.cycle \in {0, 1}
        /\ eventPut.at \in 0 .. RingLen - 1 /\ eventPut.cycle \in {0, 1}
        /\ RingLen \in Nat /\ RingLen > 3
    BY XhciAssumption DEF EventInv, Cursors, Positions
  <2>2. events[eventAt.at].cycle
          = IF eventAt.at < eventPut.at THEN eventPut.cycle ELSE 1 - eventPut.cycle
    BY <2>1 DEF EventInv, RingIsCurrent, Positions
  <2>3. events[eventAt.at].cycle = eventAt.cycle <=> Distance > 0
    BY <2>1, <2>2 DEF Distance, EventInv
  <2>4. posted - taken \in 0 .. RingLen - 1 /\ (posted > taken <=> Distance > 0)
    BY <2>1 DEF EventInv
  <2> QED  BY <2>3, <2>4 DEF EventsAreTakenOnce, EventWaiting, Owned
<1> QED  BY <1>1, <1>2, EventInit, PTL DEF Spec

\* The least of a set of numbers is one of them.
LEMMA LeastIsOne ==
  ASSUME NEW S \in SUBSET Nat, S # {}
  PROVE  Least(S) \in S
<1>1. \E x \in S : \A y \in S : ~(<<y, x>> \in OpToRel(<, Nat))
  BY NatLessThanWellFounded, WFMin
<1>2. \A x, y \in Nat : <<y, x>> \in OpToRel(<, Nat) <=> y < x
  BY DEF OpToRel
<1>3. PICK x \in S : \A y \in S : ~(<<y, x>> \in OpToRel(<, Nat))
  BY <1>1
<1>4. ASSUME NEW y \in S PROVE x <= y
  <2>1. ~(y < x) /\ x \in Nat /\ y \in Nat
    BY <1>2, <1>3
  <2> QED  BY <2>1
<1> QED  BY <1>4 DEF Least

DeviceRecord == [slot : {0} \cup Slots, put : Cursors, queued : BOOLEAN, ready : BOOLEAN]

\* Where the driver is.
ScanInv ==
  /\ step \in Commands \cup Transfers \cup {"scan", "poll", "absent"}
  /\ phase \in {"issue", "wait", "copy", "drain"}
  /\ phase = "wait" => step \in Commands \cup Transfers
  /\ phase = "copy" => step \in Reads \cup {"poll"}
  /\ phase = "drain" => step = "poll"
  /\ step = "poll" /\ phase \in {"drain", "copy"} => kept[turn] # None

\* What it knows of the devices.
TableInv ==
  /\ deviceCount \in 0 .. MaxDevices
  /\ step \in Commands \cup Transfers => deviceCount < MaxDevices
  /\ devices \in [Index -> DeviceRecord]
  /\ DOMAIN kept = Read /\ \A k \in Read : kept[k] \in {None} \cup 0 .. deviceCount - 1
  /\ turn \in Read
  /\ drained \in 0 .. RingLen

\* A command names a slot, and the last entry is not for commands.
ForSlot(trb) == trb.slot \in {0} \cup Slots
Named(ring) ==
  \A k \in Positions : ring[k].trb.op \in Commands => k # RingLen - 1 /\ ForSlot(ring[k].trb)

\* What is on the command ring.
CommandsInv ==
  /\ commandPut \in Cursors /\ commandAt \in Cursors
  /\ DOMAIN commands = Positions
  /\ Named(commands)

\* What is on the event ring.
AnswersInv ==
  \A k \in Positions : events[k].trb.op \in {"completion", "transfer"} =>
     events[k].trb.slot \in {0} \cup Slots

TypeInv == ScanInv /\ TableInv /\ CommandsInv /\ AnswersInv /\ EventInv

\* Everything has its type in the initial states.
LEMMA TypeInit == Init => TypeInv
<1> SUFFICES ASSUME Init PROVE TypeInv
  OBVIOUS
<1>1. RingLen \in Nat /\ RingLen > 3 /\ MaxDevices \in Nat \ {0}
  BY XhciAssumption
<1>2. Origin \in Cursors
  BY <1>1 DEF Origin, Cursors, Positions
<1>3. ScanInv
  BY DEF Init, ScanInv
<1>4. TableInv
  BY <1>1, <1>2 DEF Init, TableInv, Index, DeviceRecord, NewDevice, Read, Commands, Transfers, Reads
<1>5. CommandsInv /\ AnswersInv
  BY <1>2 DEF Init, CommandsInv, AnswersInv, Named, Blank, Commands
<1> QED  BY <1>3, <1>4, <1>5, EventInit DEF TypeInv

\* Every step keeps the two cursors of the event ring apart as they must be.
LEMMA EventInvStep == EventInv /\ [Next]_vars => EventInv'
<1> SUFFICES ASSUME EventInv, [Next]_vars PROVE EventInv'
  OBVIOUS
<1>1. CASE UNCHANGED <<eventRing, eventRead>>
  BY <1>1 DEF EventInv, RingIsCurrent, Distance, eventRing, eventRead
<1> QED  BY <1>1, StepsTouchOneEnd, TakeKeepsRing, PostKeepsRing DEF EventStep

\* Taking an event leaves what the others are about.
LEMMA EventTaken ==
  ASSUME TypeInv, TakeEvent
  PROVE  NextEvent.op \in {"completion", "transfer"} => NextEvent.slot \in {0} \cup Slots
BY CursorIs DEF TypeInv, EventInv, AnswersInv, NextEvent, Positions

\* An event posted is about a slot there is.
LEMMA EventPosted ==
  ASSUME TypeInv, NEW event, Post(event),
         event.op \in {"completion", "transfer"} => event.slot \in {0} \cup Slots
  PROVE  AnswersInv'
<1>1. events' = [events EXCEPT ![eventPut.at] = [trb |-> event, cycle |-> eventPut.cycle]]
  BY DEF Post, Write
<1>2. DOMAIN events = Positions
  BY DEF TypeInv, EventInv
<1>3. \A k \in Positions :
        events'[k].trb = IF k = eventPut.at THEN event ELSE events[k].trb
  BY <1>1, <1>2
<1> QED  BY <1>3 DEF TypeInv, AnswersInv

\* The driver's part of a step of the controller is nothing.
LEMMA ScanSame ==
  ASSUME TypeInv, UNCHANGED <<scan, table, polling>>
  PROVE  ScanInv' /\ TableInv'
BY DEF TypeInv, ScanInv, TableInv, scan, table, polling

\* Going on with the next port keeps the types.
LEMMA NextPortTyped ==
  ASSUME TypeInv, NextPort, UNCHANGED <<table, polling>>
  PROVE  ScanInv' /\ TableInv'
BY DEF TypeInv, ScanInv, TableInv, NextPort, table, polling, Commands, Transfers, Reads

\* So does going on with the next request.
LEMMA AdvanceTyped ==
  ASSUME TypeInv, Advance, step \in (Commands \cup Transfers) \ {"endpoint"}, UNCHANGED <<table, polling>>
  PROVE  ScanInv' /\ TableInv'
<1>1. step' \in Commands \cup Transfers /\ phase' = "issue"
  BY DEF Advance, After, Commands, Transfers, Reads
<1>2. ScanInv'
  BY <1>1 DEF ScanInv
<1> QED  BY <1>1, <1>2 DEF TypeInv, TableInv, table, polling

Typed == ScanInv /\ TableInv /\ CommandsInv /\ AnswersInv

\* The scan of the ports keeps the types.
LEMMA PortsTyped ==
  ASSUME TypeInv, Finish \/ SkipPort \/ ResetPort \/ TimeOut
  PROVE  Typed'
<1>1. CASE Finish
  <2>1. step' \in {"poll", "absent"} /\ phase' = "issue" /\ phase = "issue" /\ UNCHANGED <<table, polling>>
    BY <1>1 DEF Finish, TypeInv, ScanInv, Commands, Transfers, Reads
  <2>2. ScanInv' /\ TableInv'
    BY <2>1 DEF TypeInv, ScanInv, TableInv, table, polling, Commands, Transfers, Reads
  <2> QED  BY <1>1, <2>2 DEF Finish, TypeInv, Typed, CommandsInv, AnswersInv, controller, eventRing
<1>2. CASE SkipPort
  <2>1. ScanInv' /\ TableInv'
    BY <1>2, NextPortTyped DEF SkipPort
  <2> QED  BY <1>2, <2>1 DEF SkipPort, TypeInv, Typed, CommandsInv, AnswersInv, controller, eventRing
<1>3. CASE ResetPort
  <2>1. ScanInv' /\ TableInv'
    BY <1>3, XhciAssumption DEF ResetPort, TypeInv, ScanInv, TableInv, table, polling, Commands, Transfers, Reads
  <2>2. AnswersInv'
    <3>1. CASE EventRoom
      BY <1>3, <3>1, EventPosted DEF ResetPort
    <3>2. CASE ~EventRoom
      BY <1>3, <3>2 DEF ResetPort, TypeInv, AnswersInv, eventRing
    <3> QED  BY <3>1, <3>2
  <2> QED  BY <1>3, <2>1, <2>2 DEF ResetPort, TypeInv, Typed, CommandsInv, controller
<1>4. CASE TimeOut
  <2>1. ScanInv' /\ TableInv'
    <3>1. step \in Commands \cup Transfers
      BY <1>4 DEF TimeOut, TypeInv, ScanInv
    <3> QED  BY <1>4, <3>1, AdvanceTyped, NextPortTyped DEF TimeOut
  <2> QED  BY <1>4, <2>1 DEF TimeOut, TypeInv, Typed, CommandsInv, AnswersInv, controller, eventRing
<1> QED  BY <1>1, <1>2, <1>3, <1>4

\* A ring that was queued on has a cursor.
LEMMA QueuedCursor ==
  ASSUME NEW q, NEW trb, q.cursor \in Cursors
  PROVE  Queue(q, trb).cursor \in Cursors
<1>1. /\ q.cursor.at \in 0 .. RingLen - 1 /\ q.cursor.at \in Int /\ q.cursor.cycle \in {0, 1}
      /\ RingLen \in Nat /\ RingLen > 3
  BY CursorIs
<1>2. CASE q.cursor.at < RingLen - 1
  BY <1>2, PastIs DEF Queue
<1>3. CASE q.cursor.at = RingLen - 1
  <2>1. Past(StartOver(q.cursor)) = [at |-> 1, cycle |-> 1 - q.cursor.cycle]
    BY DEF StartOver, Past
  <2>2. Past(StartOver(q.cursor)) \in Cursors
    BY <1>1, <2>1 DEF Cursors, Positions
  <2> QED  BY <1>1, <1>3, <2>2 DEF Queue
<1> QED  BY <1>1, <1>2, <1>3

\* What is put on the command ring.
LEMMA QueuedCommandTyped ==
  ASSUME NEW ring, NEW put \in Cursors, NEW trb, NEW q, DOMAIN ring = Positions,
         Named(ring), ForSlot(trb), q = Put(ring, put, trb)
  PROVE  q.cursor \in Cursors /\ DOMAIN q.ring = Positions /\ Named(q.ring)
<1>2. put.at \in 0 .. RingLen - 1 /\ RingLen \in Nat /\ RingLen > 3
  BY CursorIs
<1>3. CASE put.at < RingLen - 1
  <2>1. /\ q.cursor \in Cursors /\ DOMAIN q.ring = Positions
        /\ q.cursor = [at |-> put.at + 1, cycle |-> put.cycle]
        /\ \A k \in Positions :
             q.ring[k] = IF k = put.at THEN [trb |-> trb, cycle |-> put.cycle] ELSE ring[k]
    BY <1>3, QueueOn
  <2>2. \A k \in Positions : q.ring[k].trb = IF k = put.at THEN trb ELSE ring[k].trb
    BY <2>1
  <2> QED  BY <1>2, <1>3, <2>1, <2>2 DEF Named
<1>4. CASE put.at = RingLen - 1
  <2>1. /\ q.cursor \in Cursors /\ DOMAIN q.ring = Positions
        /\ q.cursor = [at |-> 1, cycle |-> 1 - put.cycle]
        /\ \A k \in Positions :
             q.ring[k] = IF k = 0 THEN [trb |-> trb, cycle |-> 1 - put.cycle]
                         ELSE IF k = RingLen - 1 THEN [trb |-> Link, cycle |-> put.cycle]
                         ELSE ring[k]
    BY <1>4, QueueOver
  <2>2. Link.op \notin Commands
    BY DEF Link, Commands
  <2>3. \A k \in Positions : q.ring[k].trb = IF k = 0 THEN trb
                                            ELSE IF k = RingLen - 1 THEN Link ELSE ring[k].trb
    BY <2>1
  <2> QED  BY <1>2, <2>1, <2>2, <2>3 DEF Named
<1> QED  BY <1>2, <1>3, <1>4

\* Issuing a command or a transfer keeps the types.
LEMMA IssueTyped ==
  ASSUME TypeInv, IssueCommand \/ IssueTransfer
  PROVE  Typed'
<1>1. deviceCount \in Index \/ step \notin Commands \cup Transfers
  BY XhciAssumption DEF TypeInv, TableInv, Index
<1>2. CASE IssueCommand
  <2> DEFINE trb == [op |-> step, slot |-> devices[deviceCount].slot, tag |-> Tag]
             q   == Put(commands, commandPut, trb)
  <2>1. commands' = q.ring /\ commandPut' = q.cursor
    BY <1>2 DEF IssueCommand, CommandOnce, Put
  <2>2. ForSlot(trb)
    BY <1>1, <1>2 DEF IssueCommand, TypeInv, TableInv, DeviceRecord, ForSlot
  <2>3. CommandsInv'
    <3> HIDE DEF trb
    <3>1. q.cursor \in Cursors /\ DOMAIN q.ring = Positions /\ Named(q.ring)
      BY <2>2, QueuedCommandTyped DEF TypeInv, CommandsInv
    <3> HIDE DEF q
    <3>2. commandAt' = commandAt
      BY <1>2 DEF IssueCommand, controller
    <3> QED  BY <2>1, <3>1, <3>2 DEF TypeInv, CommandsInv
  <2>4. ScanInv' /\ TableInv'
    BY <1>2 DEF IssueCommand, TypeInv, ScanInv, TableInv, table, polling, Commands, Transfers, Reads
  <2> QED  BY <1>2, <2>3, <2>4 DEF IssueCommand, TypeInv, Typed, AnswersInv, eventRing
<1>3. CASE IssueTransfer
  <2>1. PICK c \in Cursors : devices' = [devices EXCEPT ![deviceCount].put = c]
    <3> DEFINE begun == Queue(RingOf(deviceCount), SetupStage)
               q     == Queue(IF step \in Reads THEN Queue(begun, DataStage) ELSE begun, StatusStage)
    <3>1. devices' = [devices EXCEPT ![deviceCount].put = q.cursor]
      BY <1>3 DEF IssueTransfer
    <3>2. RingOf(deviceCount).cursor \in Cursors
      BY <1>1, <1>3 DEF IssueTransfer, TypeInv, TableInv, DeviceRecord, RingOf
    <3>3. begun.cursor \in Cursors
      BY <3>2, QueuedCursor
    <3> HIDE DEF begun
    <3>4. Queue(begun, DataStage).cursor \in Cursors
      BY <3>3, QueuedCursor
    <3>5. q.cursor \in Cursors
      BY <3>3, <3>4, QueuedCursor
    <3> HIDE DEF q
    <3> QED  BY <3>1, <3>5
  <2>2. devices' \in [Index -> DeviceRecord]
    BY <1>1, <1>3, <2>1 DEF IssueTransfer, TypeInv, TableInv, DeviceRecord
  <2>3. ScanInv'
    BY <1>3 DEF IssueTransfer, Awaited, TypeInv, ScanInv, polling, Commands, Transfers, Reads
  <2>4. TableInv'
    BY <1>3, <2>2 DEF IssueTransfer, TypeInv, TableInv, polling
  <2> QED  BY <1>3, <2>3, <2>4 DEF IssueTransfer, TypeInv, Typed, CommandsInv, AnswersInv, eventRing
<1> QED  BY <1>2, <1>3

\* Taking an answer, or what it brought, keeps the types.
LEMMA AnswerTyped ==
  ASSUME TypeInv, Discard \/ Answered \/ CopyDescriptor
  PROVE  Typed'
<1>1. CASE Discard
  BY <1>1, ScanSame DEF Discard, TypeInv, Typed, CommandsInv, AnswersInv, controller, eventRing
<1>2. CASE CopyDescriptor
  <2>1. step \in {"device", "configuration"} /\ UNCHANGED <<table, polling>>
    BY <1>2 DEF CopyDescriptor, Reads
  <2>2. step \in (Commands \cup Transfers) \ {"endpoint"}
    BY <2>1 DEF Commands, Transfers, Reads
  <2>3. Advance \/ NextPort
    BY <1>2 DEF CopyDescriptor
  <2>4. ScanInv' /\ TableInv'
    BY <2>1, <2>2, <2>3, AdvanceTyped, NextPortTyped
  <2> QED  BY <1>2, <2>4 DEF CopyDescriptor, TypeInv, Typed, CommandsInv, AnswersInv, controller, eventRing
<1>3. CASE Answered
  <2>1. ScanInv' /\ TableInv'
    <3>0. UNCHANGED polling /\ step \in Commands \cup Transfers /\ deviceCount \in Index
      BY <1>3, XhciAssumption DEF Answered, TypeInv, ScanInv, TableInv, Index
    <3>1. CASE NextPort /\ UNCHANGED table
      BY <3>0, <3>1, NextPortTyped
    <3>2. CASE /\ step = "enable"
               /\ devices' = [devices EXCEPT ![deviceCount] = NewDevice(NextEvent.slot)]
               /\ Advance
               /\ UNCHANGED <<deviceCount, kept>>
      <4>1. NextEvent.slot \in {0} \cup Slots
        BY <1>3, <3>2, EventTaken DEF Answered, Wanted, Commands
      <4>2. Origin \in Cursors
        BY XhciAssumption DEF Origin, Cursors, Positions
      <4>3. devices' \in [Index -> DeviceRecord]
        BY <3>0, <3>2, <4>1, <4>2 DEF TypeInv, TableInv, DeviceRecord, NewDevice
      <4>4. step' \in Commands \cup Transfers /\ phase' = "issue"
        BY <3>2 DEF Advance, After, Commands, Transfers, Reads
      <4>5. ScanInv'
        BY <4>4 DEF ScanInv
      <4> QED  BY <3>0, <3>2, <4>3, <4>5 DEF TypeInv, TableInv, polling
    <3>3. CASE step \in Reads /\ phase' = "copy" /\ UNCHANGED <<step, port, table>>
      <4>1. ScanInv'
        BY <3>0, <3>3 DEF TypeInv, ScanInv, Reads
      <4> QED  BY <3>0, <3>3, <4>1 DEF TypeInv, TableInv, table, polling
    <3>4. CASE step = "endpoint" /\ Enumerated /\ UNCHANGED devices
      <4>1. step' = "scan" /\ phase' = "issue" /\ deviceCount' = deviceCount + 1
        BY <3>4 DEF Enumerated, NextPort
      <4>2. deviceCount \in Nat /\ deviceCount' \in 0 .. MaxDevices
        BY <3>0, <4>1, XhciAssumption DEF Index
      <4>3. DOMAIN kept' = Read /\ \A k \in Read : kept'[k] \in {None} \cup 0 .. deviceCount' - 1
        <5>1. \A k \in Read : kept'[k] \in {kept[k], deviceCount}
          BY <3>4 DEF Enumerated, TypeInv, TableInv
        <5>2. DOMAIN kept' = Read
          BY <3>4 DEF Enumerated, TypeInv, TableInv
        <5>3. \A k \in Read : kept[k] \in {None} \cup 0 .. deviceCount - 1
          BY DEF TypeInv, TableInv
        <5> QED  BY <4>1, <4>2, <5>1, <5>2, <5>3
      <4>4. ScanInv'
        BY <4>1 DEF ScanInv
      <4> QED  BY <3>0, <3>4, <4>1, <4>2, <4>3, <4>4 DEF TypeInv, TableInv, polling, Commands, Transfers, Reads
    <3>5. CASE step \in {"address", "set", "protocol"} /\ Advance /\ UNCHANGED table
      BY <3>0, <3>5, AdvanceTyped
    <3> QED  BY <1>3, <3>1, <3>2, <3>3, <3>4, <3>5 DEF Answered
  <2> QED  BY <1>3, <2>1 DEF Answered, TypeInv, Typed, CommandsInv, AnswersInv, controller, eventRing
<1> QED  BY <1>1, <1>2, <1>3

\* Replacing one value of a function by another of its range.
LEMMA ChangedAt ==
  ASSUME NEW S, NEW T, NEW f \in [S -> T], NEW a \in S, NEW y \in T, NEW g,
         g = [f EXCEPT ![a] = y]
  PROVE  g \in [S -> T] /\ g[a] = y /\ \A b \in S : b # a => g[b] = f[b]
OBVIOUS

\* Asking for a report keeps the types.
LEMMA ArmTyped ==
  ASSUME TypeInv, NEW i \in Index, Arm(i), UNCHANGED <<step, deviceCount, kept, turn>>,
         step = "poll"
  PROVE  ScanInv' /\ TableInv'
<1>1. devices' \in [Index -> DeviceRecord]
  <2>1. CASE devices' = [devices EXCEPT ![i].ready = FALSE]
    BY <2>1 DEF TypeInv, TableInv, DeviceRecord
  <2>2. CASE \E q : /\ q = Queue(RingOf(i), Normal(i))
                    /\ devices' = [devices EXCEPT ![i].put = q.cursor, ![i].queued = TRUE,
                                                  ![i].ready = FALSE]
    <3>1. PICK q : /\ q = Queue(RingOf(i), Normal(i))
                   /\ devices' = [devices EXCEPT ![i].put = q.cursor, ![i].queued = TRUE,
                                                 ![i].ready = FALSE]
      BY <2>2
    <3>2. RingOf(i).cursor \in Cursors
      BY DEF TypeInv, TableInv, DeviceRecord, RingOf
    <3>3. q.cursor \in Cursors
      BY <3>1, <3>2, QueuedCursor
    <3>4. devices \in [Index -> DeviceRecord] /\ devices[i] \in DeviceRecord
      BY DEF TypeInv, TableInv
    <3> DEFINE x == devices[i]
               p == q.cursor
               y == [x EXCEPT !.put = p, !.queued = TRUE, !.ready = FALSE]
    <3>5. x \in DeviceRecord /\ p \in Cursors
      BY <3>3, <3>4
    <3>6. devices' = [devices EXCEPT ![i] = y]
      BY <3>1
    <3> HIDE DEF x, p
    <3>7. y \in DeviceRecord
      BY <3>5 DEF DeviceRecord
    <3> HIDE DEF y
    <3> QED  BY <3>4, <3>6, <3>7, ChangedAt
  <2> QED  BY <2>1, <2>2 DEF Arm
<1>2. phase' = "issue" /\ drained' = 0
  BY DEF Arm
<1>3. ScanInv'
  BY <1>2 DEF TypeInv, ScanInv
<1> QED  BY <1>1, <1>2, <1>3, XhciAssumption DEF TypeInv, TableInv

\* Polling keeps the types.
LEMMA PollTyped ==
  ASSUME TypeInv, Poll
  PROVE  Typed'
<1>1. CASE BeginPoll
  <2>1. turn' \in Read
    BY <1>1 DEF BeginPoll, Other, TypeInv, TableInv, Read
  <2>2. ScanInv' /\ TableInv'
    BY <1>1, <2>1 DEF BeginPoll, TypeInv, ScanInv, TableInv, table
  <2> QED  BY <1>1, <2>2 DEF BeginPoll, TypeInv, Typed, CommandsInv, AnswersInv, controller, eventRing
<1>2. CASE DrainOne
  <2>1. devices' \in [Index -> DeviceRecord]
    <3>1. CASE UNCHANGED devices
      BY <3>1 DEF TypeInv, TableInv
    <3>2. CASE \E i : devices' = [devices EXCEPT ![i].queued = FALSE,
                                                 ![i].ready = @ \/ NextEvent.ok]
      <4>1. PICK i : devices' = [devices EXCEPT ![i].queued = FALSE,
                                                ![i].ready = @ \/ NextEvent.ok]
        BY <3>2
      <4>2. devices \in [Index -> DeviceRecord]
        BY DEF TypeInv, TableInv
      <4>3. CASE i \in Index
        <5> DEFINE x == devices[i]
                   b == x.ready \/ NextEvent.ok
                   y == [x EXCEPT !.queued = FALSE, !.ready = b]
        <5>1. x \in DeviceRecord
          BY <4>2, <4>3
        <5>2. b \in BOOLEAN
          OBVIOUS
        <5>3. devices' = [devices EXCEPT ![i] = y]
          BY <4>1
        <5> HIDE DEF x, b
        <5>4. y \in DeviceRecord
          BY <5>1, <5>2 DEF DeviceRecord
        <5> HIDE DEF y
        <5> QED  BY <4>2, <4>3, <5>3, <5>4, ChangedAt
      <4>4. CASE i \notin Index
        BY <4>1, <4>2, <4>4
      <4> QED  BY <4>3, <4>4
    <3> QED  BY <1>2, <3>1, <3>2 DEF DrainOne
  <2>2. drained' \in 0 .. RingLen
    BY <1>2, XhciAssumption DEF DrainOne, TypeInv, TableInv
  <2>3. ScanInv' /\ TableInv'
    BY <1>2, <2>1, <2>2 DEF DrainOne, TypeInv, ScanInv, TableInv, scan
  <2> QED  BY <1>2, <2>3 DEF DrainOne, TypeInv, Typed, CommandsInv, AnswersInv, controller, eventRing
<1>3. CASE DrainDone \/ CopyReport
  <2>1. step = "poll" /\ phase \in {"drain", "copy"}
    BY <1>3 DEF DrainDone, CopyReport, TypeInv, ScanInv
  <2>2. kept[turn] \in Index
    <3>1. turn \in Read /\ kept[turn] # None /\ deviceCount \in 0 .. MaxDevices
          /\ kept[turn] \in {None} \cup 0 .. deviceCount - 1
      BY <2>1 DEF TypeInv, ScanInv, TableInv
    <3> QED  BY <3>1, XhciAssumption DEF Index
  <2>3. UNCHANGED <<step, deviceCount, kept, turn>>
    BY <1>3 DEF DrainDone, CopyReport
  <2>4. ScanInv' /\ TableInv'
    <3>1. CASE Arm(kept[turn])
      BY <2>1, <2>2, <2>3, <3>1, ArmTyped
    <3>2. CASE phase' = "copy" /\ UNCHANGED <<devices, drained>>
      BY <2>1, <2>3, <3>2 DEF TypeInv, ScanInv, TableInv
    <3> QED  BY <1>3, <3>1, <3>2 DEF DrainDone, CopyReport
  <2> QED  BY <1>3, <2>4 DEF DrainDone, CopyReport, TypeInv, Typed, CommandsInv, AnswersInv, eventRing
<1> QED  BY <1>1, <1>2, <1>3 DEF Poll

\* The controller takes what it runs from the command ring.
LEMMA CommandRead ==
  ASSUME CommandsInv, NEW at, at = Reading(commands, commandAt), commands[at.at].trb.op \in Commands
  PROVE  /\ at \in Cursors /\ at.at \in Positions /\ at.at # RingLen - 1 /\ Past(at) \in Cursors
         /\ commands[at.at].trb.slot \in {0} \cup Slots
<1>1. commandAt \in Cursors /\ RingLen \in Nat /\ RingLen > 3
  BY XhciAssumption DEF CommandsInv
<1>2. StartOver(commandAt) \in Cursors
  BY <1>1 DEF StartOver, Cursors, Positions
<1>3. at \in Cursors
  BY <1>1, <1>2 DEF Reading
<1>4. at.at \in Positions /\ at.at \in 0 .. RingLen - 1
  BY <1>3, CursorIs DEF Positions
<1>5. at.at # RingLen - 1 /\ commands[at.at].trb.slot \in {0} \cup Slots
  BY <1>4 DEF CommandsInv, Named, ForSlot
<1> QED  BY <1>1, <1>3, <1>4, <1>5, PastIs

\* The slot the controller hands out is one of its slots.
LEMMA FreeIsSlot == Free # {} => Least(Free) \in Slots
<1>1. Free \in SUBSET Nat /\ Free \subseteq Slots
  BY XhciAssumption DEF Free, Slots
<1> QED  BY <1>1, LeastIsOne

\* The controller keeps the types.
LEMMA ControllerTyped ==
  ASSUME TypeInv, Controller
  PROVE  Typed'
<1>1. CASE RunCommand
  <2> DEFINE at  == Reading(commands, commandAt)
             trb == commands[at.at].trb
  <2>1. commandAt' = Past(at) /\ trb.op \in Commands /\ UNCHANGED <<scan, table, polling, commands, commandPut>>
    BY <1>1 DEF RunCommand, Commands
  <2>2. Past(at) \in Cursors /\ trb.slot \in {0} \cup Slots
    BY <2>1, CommandRead DEF TypeInv
  <2>3. CommandsInv'
    BY <2>1, <2>2 DEF TypeInv, CommandsInv
  <2>4. \E s \in {0} \cup Slots : \E ok, tag : Post(Completion(s, ok, tag))
    <3>1. CASE Free # {}
      BY <1>1, <2>2, <3>1, FreeIsSlot DEF RunCommand
    <3>2. CASE Free = {}
      BY <1>1, <2>2, <3>2 DEF RunCommand
    <3> QED  BY <3>1, <3>2
  <2>5. AnswersInv'
    BY <2>4, EventPosted DEF Completion
  <2> QED  BY <2>1, <2>3, <2>5, ScanSame DEF Typed
<1>2. ASSUME NEW s \in Slots, RunControl(s) \/ RunReport(s) PROVE Typed'
  <2>1. AnswersInv'
    <3>1. (\E ok, tag : Post(Transfer(s, ok, tag))) \/ UNCHANGED eventRing
      BY <1>2 DEF RunControl, RunReport
    <3>2. UNCHANGED eventRing => AnswersInv'
      BY DEF TypeInv, AnswersInv, eventRing
    <3> QED  BY <3>1, <3>2, EventPosted DEF Transfer
  <2>2. ScanInv' /\ TableInv'
    BY <1>2, ScanSame DEF RunControl, RunReport
  <2> QED  BY <1>2, <2>1, <2>2 DEF RunControl, RunReport, TypeInv, Typed, CommandsInv
<1> QED  BY <1>1, <1>2 DEF Controller

\* Every step keeps the types.
LEMMA TypeStep == TypeInv /\ [Next]_vars => TypeInv'
<1> SUFFICES ASSUME TypeInv, [Next]_vars PROVE TypeInv'
  OBVIOUS
<1>1. EventInv'
  BY EventInvStep DEF TypeInv
<1>2. CASE Absent \/ UNCHANGED vars
  <2>1. UNCHANGED vars
    BY <1>2 DEF Absent
  <2>2. ScanInv' /\ TableInv'
    BY <2>1, ScanSame DEF vars
  <2>3. CommandsInv' /\ AnswersInv'
    BY <2>1 DEF vars, TypeInv, CommandsInv, AnswersInv, controller, eventRing
  <2> QED  BY <1>1, <2>2, <2>3 DEF TypeInv
<1>3. CASE Next /\ ~Absent
  <2>1. Typed'
    BY <1>3, PortsTyped, IssueTyped, AnswerTyped, PollTyped, ControllerTyped DEF Next, BringUp
  <2> QED  BY <1>1, <2>1 DEF TypeInv, Typed
<1> QED  BY <1>2, <1>3

\* The types are as the run checks them.
LEMMA TypesFollow == TypeInv => TypeOK
<1> SUFFICES ASSUME TypeInv PROVE TypeOK
  OBVIOUS
<1>1. \A i \in Index : devices[i].slot \in {0} \cup Slots /\ devices[i].put \in Cursors
  BY DEF TypeInv, TableInv, DeviceRecord
<1> QED  BY <1>1 DEF TypeInv, TypeOK, ScanInv, TableInv, CommandsInv, EventInv

\* Every position on every ring, every device index and every slot is in range,
\* whatever is plugged in and whatever gives up: no array access of the driver
\* is out of bounds.
THEOREM EveryIndexIsInRange == Spec => []TypeOK
BY TypeInit, TypeStep, TypesFollow, PTL DEF Spec

-----------------------------------------------------------------------------
(* What the driver has not taken yet.                                      *)

Unread == {k \in Positions :
  IF eventAt.cycle = eventPut.cycle THEN eventAt.at <= k /\ k < eventPut.at
  ELSE eventAt.at <= k \/ k < eventPut.at}

\* Port changes are not answers.
Answers == {k \in Unread : events[k].trb.op # "port"}

ReportsOf(s) ==
  {k \in Unread : events[k].trb.op = "transfer" /\ events[k].trb.slot = s}

\* Nothing was posted and nothing taken.
LEMMA UnreadSame ==
  ASSUME UNCHANGED <<eventRing, eventRead>>
  PROVE  /\ Answers' = Answers /\ events' = events
         /\ \A s : ReportsOf(s)' = ReportsOf(s)
<1>1. events' = events /\ eventAt' = eventAt /\ eventPut' = eventPut
  BY DEF eventRing, eventRead
<1>2. Unread' = Unread
  BY <1>1 DEF Unread
<1> QED  BY <1>1, <1>2 DEF Answers, ReportsOf

\* Taking an event takes the first that is unread.
LEMMA TakeIs ==
  ASSUME TypeInv, TakeEvent, UNCHANGED eventRing
  PROVE  eventAt.at \in Unread /\ Unread' = Unread \ {eventAt.at} /\ events' = events
<1>1. /\ eventAt.at \in 0 .. RingLen - 1 /\ eventAt.at \in Int /\ eventAt.cycle \in {0, 1}
      /\ eventPut.at \in 0 .. RingLen - 1 /\ eventPut.at \in Int /\ eventPut.cycle \in {0, 1}
      /\ RingLen \in Nat /\ RingLen > 3
  BY CursorIs DEF TypeInv, EventInv
<1>2. events[eventAt.at].cycle = IF eventAt.at < eventPut.at THEN eventPut.cycle ELSE 1 - eventPut.cycle
  BY <1>1 DEF TypeInv, EventInv, RingIsCurrent, Positions
<1>3. events[eventAt.at].cycle = eventAt.cycle
  BY DEF TakeEvent, EventWaiting, Owned
<1>4. eventAt.cycle = eventPut.cycle <=> eventAt.at < eventPut.at
  BY <1>1, <1>2, <1>3
<1>5. eventAt' = Around(eventAt) /\ eventPut' = eventPut /\ events' = events
  BY DEF TakeEvent, eventRing
<1>6. /\ eventAt.at < RingLen - 1 => eventAt'.at = eventAt.at + 1 /\ eventAt'.cycle = eventAt.cycle
      /\ eventAt.at = RingLen - 1 => eventAt'.at = 0 /\ eventAt'.cycle = 1 - eventAt.cycle
  BY <1>5, AroundIs DEF TypeInv, EventInv
<1>7. eventAt.at \in Unread
  BY <1>1, <1>4 DEF Unread, Positions
<1>8. ASSUME NEW k \in Positions
      PROVE  k \in Unread' <=> k \in Unread /\ k # eventAt.at
  <2>1. k \in 0 .. RingLen - 1 /\ k \in Int
    BY <1>1 DEF Positions
  <2>2. CASE eventAt.at < RingLen - 1
    BY <1>1, <1>4, <1>5, <1>6, <2>1, <2>2 DEF Unread
  <2>3. CASE eventAt.at = RingLen - 1
    BY <1>1, <1>4, <1>5, <1>6, <2>1, <2>3 DEF Unread
  <2> QED  BY <1>1, <2>2, <2>3
<1>9. Unread \subseteq Positions /\ Unread' \subseteq Positions
  BY DEF Unread
<1> QED  BY <1>5, <1>7, <1>8, <1>9

\* What taking an event does to the answers and reports on their way.
LEMMA AnswersTaken ==
  ASSUME TypeInv, TakeEvent, UNCHANGED eventRing
  PROVE  /\ events' = events /\ NextEvent = events[eventAt.at].trb
         /\ Answers' = Answers \ {eventAt.at}
         /\ NextEvent.op # "port" => eventAt.at \in Answers
         /\ \A s : ReportsOf(s)' = ReportsOf(s) \ {eventAt.at}
         /\ \A s : NextEvent.op = "transfer" /\ NextEvent.slot = s => eventAt.at \in ReportsOf(s)
<1>1. eventAt.at \in Unread /\ Unread' = Unread \ {eventAt.at} /\ events' = events
  BY TakeIs
<1> QED  BY <1>1 DEF Answers, ReportsOf, NextEvent

\* Posting adds one unread event.
LEMMA PostIs ==
  ASSUME TypeInv, NEW event, Post(event), UNCHANGED eventRead
  PROVE  /\ eventPut.at \in Positions /\ eventPut.at \notin Unread
         /\ Unread' = Unread \cup {eventPut.at}
         /\ \A k \in Positions : events'[k].trb = IF k = eventPut.at THEN event ELSE events[k].trb
<1>1. /\ eventAt.at \in 0 .. RingLen - 1 /\ eventAt.at \in Int /\ eventAt.cycle \in {0, 1}
      /\ eventPut.at \in 0 .. RingLen - 1 /\ eventPut.at \in Int /\ eventPut.cycle \in {0, 1}
      /\ RingLen \in Nat /\ RingLen > 3
  BY CursorIs DEF TypeInv, EventInv
<1>2. /\ eventPut' = Around(eventPut) /\ eventAt' = eventAt
      /\ events' = [events EXCEPT ![eventPut.at] = [trb |-> event, cycle |-> eventPut.cycle]]
  BY DEF Post, Write, eventRead
<1>3. (eventPut.at + 1) % RingLen # eventAt.at
  BY DEF Post, EventRoom
<1>4. (eventPut.at + 1) % RingLen = IF eventPut.at = RingLen - 1 THEN 0 ELSE eventPut.at + 1
  <2>1. \A m \in Nat, d \in Nat \ {0} : m < d => m % d = m
    OBVIOUS
  <2>2. \A d \in Nat \ {0} : d % d = 0
    OBVIOUS
  <2> QED  BY <2>1, <2>2, <1>1
<1>5. /\ eventPut.at < RingLen - 1 => eventPut'.at = eventPut.at + 1 /\ eventPut'.cycle = eventPut.cycle
      /\ eventPut.at = RingLen - 1 => eventPut'.at = 0 /\ eventPut'.cycle = 1 - eventPut.cycle
  BY <1>2, AroundIs DEF TypeInv, EventInv
<1>6. IF eventPut.cycle = eventAt.cycle THEN eventAt.at <= eventPut.at ELSE eventPut.at < eventAt.at
  BY <1>1 DEF TypeInv, EventInv, Distance
<1>7. eventPut.at \in Positions /\ eventPut.at \notin Unread
  BY <1>1, <1>6 DEF Unread, Positions
<1>8. ASSUME NEW k \in Positions
      PROVE  k \in Unread' <=> k \in Unread \/ k = eventPut.at
  <2>1. k \in 0 .. RingLen - 1 /\ k \in Int
    BY <1>1 DEF Positions
  <2>2. CASE eventPut.at < RingLen - 1
    BY <1>1, <1>2, <1>3, <1>4, <1>5, <1>6, <2>1, <2>2 DEF Unread
  <2>3. CASE eventPut.at = RingLen - 1
    BY <1>1, <1>2, <1>3, <1>4, <1>5, <1>6, <2>1, <2>3 DEF Unread
  <2> QED  BY <1>1, <2>2, <2>3
<1>9. Unread \subseteq Positions /\ Unread' \subseteq Positions
  BY DEF Unread
<1>10. \A k \in Positions : events'[k].trb = IF k = eventPut.at THEN event ELSE events[k].trb
  BY <1>2 DEF TypeInv, EventInv
<1> QED  BY <1>7, <1>8, <1>9, <1>10

\* What posting an event does to the answers and reports on their way.
LEMMA AnswersPosted ==
  ASSUME TypeInv, NEW event, Post(event), UNCHANGED eventRead
  PROVE  /\ Answers' = IF event.op # "port" THEN Answers \cup {eventPut.at} ELSE Answers
         /\ eventPut.at \notin Answers /\ events'[eventPut.at].trb = event
         /\ \A k \in Answers : events'[k].trb = events[k].trb
         /\ \A s : ReportsOf(s)' = IF event.op = "transfer" /\ event.slot = s
                                     THEN ReportsOf(s) \cup {eventPut.at} ELSE ReportsOf(s)
         /\ \A s : eventPut.at \notin ReportsOf(s)
<1>1. /\ eventPut.at \in Positions /\ eventPut.at \notin Unread
      /\ Unread' = Unread \cup {eventPut.at}
      /\ \A k \in Positions : events'[k].trb = IF k = eventPut.at THEN event ELSE events[k].trb
  BY PostIs
<1>2. Unread \subseteq Positions
  BY DEF Unread
<1>3. /\ Answers' = IF event.op # "port" THEN Answers \cup {eventPut.at} ELSE Answers
      /\ eventPut.at \notin Answers /\ events'[eventPut.at].trb = event
      /\ \A k \in Answers : events'[k].trb = events[k].trb
  BY <1>1, <1>2 DEF Answers
<1>4. ASSUME NEW s
      PROVE  /\ ReportsOf(s)' = IF event.op = "transfer" /\ event.slot = s
                                  THEN ReportsOf(s) \cup {eventPut.at} ELSE ReportsOf(s)
             /\ eventPut.at \notin ReportsOf(s)
  BY <1>1, <1>2 DEF ReportsOf
<1> QED  BY <1>3, <1>4

-----------------------------------------------------------------------------
(* The driver, what it has asked for, and what the controller has done of  *)
(* it, until a wait gives up.                                              *)

\* Something that is neither a keyboard nor a pointer is addressed and read
\* before it is left behind, with its slot, its index and the memory of its
\* ring still in use: a board has such a thing after all that is read.
OthersComeLast ==
  \A b \in Boards : \A p, q \in DOMAIN b :
    p < q /\ b[p] = "other" => b[q] \in {"none", "dead", "mute"}

Passed == \E p \in DOMAIN board : p < port /\ board[p] = "other"

\* The slot of the device on the port, while it is being brought up.
Own == devices[deviceCount].slot

\* From its address on a device answers what it is asked.
Configuring == Transfers \cup {"endpoint"}

Command == [op |-> step, slot |-> Own, tag |-> Tag]

\* The command ring holds the command that is waited for, or nothing.
CommandRing ==
  /\ Linked(commands) /\ Current(commands, commandPut)
  /\ Ahead(commands, commandAt, commandPut)
  /\ Work(commands, commandAt, commandPut) =
       IF phase = "wait" /\ step \in Commands /\ Answers = {} THEN <<Command>> ELSE <<>>

Used  == [FreeSlot EXCEPT !.used = TRUE]
Given(x) ==
  /\ x.used /\ x.ring = deviceCount /\ x.port = port /\ x.control = Origin
  /\ ~x.controlOn /\ x.report = Origin /\ x.reportOn = "off"

\* The answer to what the driver waits for.
AnswerIs(e) ==
  /\ e.op = Wanted /\ e.tag = Tag
  /\ step = "enable" /\ e.ok => e.slot \in Slots /\ slots[e.slot] = Used
  /\ step = "address" => e.ok = (board[port] # "mute")
  /\ step \in Configuring => e.ok = TRUE

\* There is at most one event other than of a port, while something is waited
\* for, and it is the answer.
OneAnswer ==
  \/ Answers = {}
  \/ phase = "wait" /\ \E k \in Answers : Answers = {k} /\ AnswerIs(events[k].trb)

SlotRecord ==
  [used : BOOLEAN, ring : {None} \cup Index, port : Nat, request : Transfers \cup {"none"},
   control : Cursors, controlOn : BOOLEAN,
   report : Cursors, reportOn : {"off", "idle", "running", "halted"}]

SlotsInv ==
  /\ slots \in [Slots -> SlotRecord]
  /\ \A t \in Slots : ~slots[t].used => slots[t] = FreeSlot
  /\ \A t \in Slots : slots[t].ring = None => slots[t].reportOn = "off" /\ ~slots[t].controlOn

RingsInv == DOMAIN rings = Index /\ \A i \in Index : Linked(rings[i])

\* The devices that are up have a slot each, which reads their ring.
Known(i) ==
  /\ devices[i].slot \in Slots /\ slots[devices[i].slot].used /\ slots[devices[i].slot].ring = i
  /\ Current(rings[i], devices[i].put)
DevicesInv == \A i \in 0 .. deviceCount - 1 : Known(i)

Addressed ==
  \/ step \in Configuring
  \/ step = "address" /\ Answers # {} /\ board[port] # "mute"

\* A slot with a ring is that of a device that is up, of the one being brought
\* up, or of one left behind, which is never asked for a report.
Owner(t) ==
  \/ slots[t].ring \in 0 .. deviceCount - 1 /\ devices[slots[t].ring].slot = t
  \/ slots[t].ring = deviceCount /\ Addressed /\ t = Own
  \/ /\ slots[t].ring = deviceCount /\ Passed /\ step \notin Configuring
     /\ slots[t].reportOn = "off"
OwnersInv == \A t \in Slots : slots[t].ring # None => Owner(t)

Transferring == step \in Transfers /\ phase = "wait"

\* A control endpoint has no stage left to run.
QuietOn(ring, c) ==
  Owned(ring, Reading(ring, c)) => ring[Reading(ring, c).at].trb.op \notin Stages
QuietInv ==
  \A t \in Slots : slots[t].ring # None /\ ~(Transferring /\ t = Own) =>
    QuietOn(rings[slots[t].ring], slots[t].control)

Common == CommandRing /\ SlotsInv /\ RingsInv /\ DevicesInv /\ OwnersInv /\ QuietInv

\* The port that is tried.
PlaceInv ==
  /\ board \in Boards /\ port \in Nat \ {0}
  /\ step \in Commands \cup Transfers => port \in DOMAIN board /\ board[port] \notin {"none", "dead"}
  /\ step \in Configuring => board[port] # "mute" /\ ~Passed

\* The device on it.
HeldInv ==
  /\ step \in {"address", "endpoint"} /\ phase = "wait" /\ Answers = {} =>
       inputContext = [op |-> step, ring |-> deviceCount, port |-> port]
  /\ step = "address" =>
       /\ Own \in Slots /\ devices[deviceCount] = NewDevice(Own)
       /\ IF Addressed THEN Given(slots[Own]) ELSE slots[Own] = Used
  /\ step \in Configuring =>
       /\ Own \in Slots /\ slots[Own].used
       /\ slots[Own].ring = deviceCount /\ slots[Own].port = port
       /\ ~devices[deviceCount].queued /\ Current(rings[deviceCount], devices[deviceCount].put)
       /\ slots[Own].reportOn = IF step = "endpoint" /\ phase = "wait" /\ Answers # {}
                                  THEN "idle" ELSE "off"
       /\ slots[Own].report = Origin

\* What its control endpoint has left to run.
OwnWork == Work(rings[deviceCount], slots[Own].control, devices[deviceCount].put)
Filled  == step \in Reads => buffers[deviceCount] = Content(port, step, 0)

TransferInv ==
  /\ step \in Configuring => Ahead(rings[deviceCount], slots[Own].control, devices[deviceCount].put)
  /\ step \in Configuring /\ ~Transferring => OwnWork = <<>>
  /\ Transferring =>
       \/ /\ Answers = {}
          /\ OwnWork = IF step \in Reads THEN <<SetupStage, DataStage, StatusStage>>
                       ELSE <<SetupStage, StatusStage>>
       \/ /\ Answers = {} /\ step \in Reads /\ OwnWork = <<DataStage, StatusStage>>
          /\ slots[Own].request = step
       \/ Answers = {} /\ OwnWork = <<StatusStage>> /\ Filled
       \/ Answers # {} /\ OwnWork = <<>> /\ Filled
  /\ step \in Reads /\ phase = "copy" => Filled

\* The memory of the rings not in use is clear.
FreshInv ==
  \A i \in Index :
    \/ i > deviceCount
    \/ i = deviceCount /\ ~Passed /\ step \in {"scan", "enable", "address"}
    => rings[i] = Blank

\* No report was asked for yet.
Unarmed(i) ==
  /\ slots[devices[i].slot].reportOn = "idle" /\ slots[devices[i].slot].report = Origin
  /\ ~devices[i].queued /\ ReportsOf(devices[i].slot) = {}
UnarmedInv ==
  /\ \A t \in Slots : slots[t].reportOn \in {"off", "idle"}
  /\ \A i \in 0 .. deviceCount - 1 : Unarmed(i)

BringUpInv ==
  OneAnswer /\ PlaceInv /\ HeldInv /\ TransferInv /\ FreshInv /\ UnarmedInv

\* Once reports are asked for there is one queued, on its way or taken, and the
\* ring has an entry to spare for it.
Flowing(i) ==
  LET t == slots[devices[i].slot]
  IN  /\ t.reportOn \in {"idle", "running"}
      /\ Ahead(rings[i], t.report, devices[i].put)
      /\ Len(Work(rings[i], t.report, devices[i].put)) + Cardinality(ReportsOf(devices[i].slot))
           + (IF devices[i].queued THEN 0 ELSE 1) <= RingLen - 1

\* Or the endpoint waits at an entry that is already of another pass.
Stuck(i) ==
  /\ slots[devices[i].slot].reportOn \in {"idle", "running"}
  /\ slots[devices[i].slot].report = Origin /\ ~Owned(rings[i], Origin)
  /\ devices[i].queued /\ ReportsOf(devices[i].slot) = {}

Halted(i) == slots[devices[i].slot].reportOn = "halted"

PollInv ==
  \A i \in 0 .. deviceCount - 1 : Unarmed(i) \/ Flowing(i) \/ Stuck(i) \/ Halted(i)

Sync == Common /\ (step # "poll" => BringUpInv) /\ (step = "poll" => PollInv)

SyncInv == ~timedOut => Sync

\* A cleared ring is one that has nothing to run.
LEMMA BlankRing ==
  /\ Origin \in Cursors /\ Linked(Blank) /\ Current(Blank, Origin)
  /\ Ahead(Blank, Origin, Origin) /\ Work(Blank, Origin, Origin) = <<>>
  /\ QuietOn(Blank, Origin)
<1>1. Origin \in Cursors /\ 0 \in Positions
  BY XhciAssumption DEF Origin, Cursors, Positions
<1>2. Linked(Blank)
  BY DEF Linked, Blank, Link
<1>3. Current(Blank, Origin)
  BY XhciAssumption DEF Current, Blank, Origin, Positions
<1>4. Ahead(Blank, Origin, Origin)
  BY DEF Ahead, Origin
<1>5. InFlight(Origin, Origin) = 0
  BY DEF InFlight, Origin
<1>6. Work(Blank, Origin, Origin) = <<>>
  BY <1>5 DEF Work
<1>7. ~Owned(Blank, Origin) /\ Reading(Blank, Origin) = Origin
  BY <1>1 DEF Owned, Reading, Blank, Origin
<1>8. QuietOn(Blank, Origin)
  BY <1>7 DEF QuietOn
<1> QED  BY <1>1, <1>2, <1>3, <1>4, <1>6, <1>8

\* An endpoint that found nothing, or that has nothing left, is quiet.
LEMMA QuietAtEnd ==
  ASSUME NEW ring, NEW c, ~Owned(ring, Reading(ring, c))
  PROVE  QuietOn(ring, Reading(ring, c))
<1>1. Reading(ring, Reading(ring, c)) = Reading(ring, c)
  BY DEF Reading
<1> QED  BY <1>1 DEF QuietOn

\* An endpoint with nothing left to run is quiet.
LEMMA QuietWithoutWork ==
  ASSUME NEW ring, NEW put \in Cursors, NEW c \in Cursors,
         Linked(ring), Current(ring, put), Ahead(ring, c, put), Work(ring, c, put) = <<>>
  PROVE  QuietOn(ring, c)
<1>1. Owned(ring, Reading(ring, c)) <=> Work(ring, c, put) # <<>>
  BY ReadingTakesHead
<1> QED  BY <1>1 DEF QuietOn

\* Driver and controller start in step.
LEMMA SyncInit == Init => Sync
<1> SUFFICES ASSUME Init PROVE Sync
  OBVIOUS
<1>1. /\ RingLen \in Nat /\ RingLen > 3 /\ MaxDevices \in Nat \ {0}
  BY XhciAssumption
<1>2. /\ Origin \in Cursors /\ Linked(Blank) /\ Current(Blank, Origin)
      /\ Ahead(Blank, Origin, Origin) /\ Work(Blank, Origin, Origin) = <<>>
  BY BlankRing
<1>3. Answers = {}
  BY <1>1, <1>2 DEF Init, Answers, Unread, Blank, Origin, Positions
<1>4. CommandRing
  BY <1>2 DEF Init, CommandRing
<1>5. slots = [t \in Slots |-> FreeSlot] /\ step = "scan" /\ phase = "issue" /\ deviceCount = 0
      /\ rings = [i \in Index |-> Blank]
  BY DEF Init
<1>6. FreeSlot \in SlotRecord /\ FreeSlot.ring = None /\ FreeSlot.reportOn = "off" /\ ~FreeSlot.controlOn
      /\ ~FreeSlot.used
  BY <1>2 DEF FreeSlot, SlotRecord
<1>7. SlotsInv
  BY <1>5, <1>6 DEF SlotsInv
<1>8. RingsInv
  BY <1>2, <1>5 DEF RingsInv
<1>9. DevicesInv /\ OwnersInv /\ QuietInv /\ UnarmedInv
  BY <1>5, <1>6 DEF DevicesInv, OwnersInv, QuietInv, UnarmedInv
<1>10. OneAnswer /\ PlaceInv
  BY <1>3 DEF Init, OneAnswer, PlaceInv, Configuring, Commands, Transfers, Reads
<1>11. HeldInv /\ TransferInv /\ FreshInv
  BY <1>5 DEF HeldInv, TransferInv, FreshInv, Transferring, Configuring, Transfers, Reads
<1> QED  BY <1>4, <1>5, <1>7, <1>8, <1>9, <1>10, <1>11 DEF Sync, Common, BringUpInv

\* What the steps of enumeration do not touch.
Memory == <<board, slots, rings, commands, commandPut, commandAt, inputContext>>

\* What was passed stays passed.
LEMMA PassedStays ==
  ASSUME PlaceInv, NextPort, board' = board
  PROVE  Passed \/ (port \in DOMAIN board /\ board[port] = "other") => Passed'
<1>1. port \in Nat /\ port' = port + 1 /\ DOMAIN board \subseteq Int
  BY XhciAssumption DEF PlaceInv, NextPort
<1> QED  BY <1>1 DEF Passed

\* The next port is tried with nothing asked for.
LEMMA NextPortSync ==
  ASSUME TypeInv, Common, BringUpInv, NextPort, UNCHANGED <<Memory, devices, deviceCount>>,
         step \notin {"poll", "absent"}, ~Transferring,
         Work(commands, commandAt, commandPut) = <<>>,
         Answers' = {}, \A s : ReportsOf(s)' \subseteq ReportsOf(s),
         Addressed => /\ port \in DOMAIN board /\ board[port] = "other"
                      /\ slots[Own].reportOn = "off"
  PROVE  Sync'
<1>1. step' = "scan" /\ phase' = "issue" /\ port' = port + 1
  BY DEF NextPort
<1>2. /\ slots' = slots /\ rings' = rings /\ board' = board
      /\ devices' = devices /\ deviceCount' = deviceCount
      /\ commands' = commands /\ commandPut' = commandPut /\ commandAt' = commandAt
  BY DEF Memory
<1>3. (Passed => Passed') /\ (Addressed => Passed')
  BY <1>2, PassedStays DEF BringUpInv
<1>4. CommandRing'
  BY <1>1, <1>2 DEF Common, CommandRing
<1>5. SlotsInv' /\ RingsInv' /\ DevicesInv'
  BY <1>2 DEF Common, SlotsInv, RingsInv, DevicesInv, Known
<1>6. OwnersInv'
  BY <1>1, <1>2, <1>3 DEF Common, OwnersInv, Owner, Configuring, Transfers, Reads
<1>7. QuietInv'
  BY <1>1, <1>2 DEF Common, QuietInv
<1>8. PlaceInv'
  BY <1>1, <1>2 DEF BringUpInv, PlaceInv, Configuring, Commands, Transfers, Reads
<1>9. HeldInv' /\ TransferInv'
  BY <1>1 DEF HeldInv, TransferInv, Transferring, Configuring, Transfers, Reads
<1>10. FreshInv'
  <2>1. step \in Commands \cup Transfers \cup {"scan", "absent"}
    BY DEF TypeInv, ScanInv
  <2>2. step \in Configuring => Passed'
    BY <1>3 DEF Addressed
  <2>3. ~Passed' => ~Passed /\ (step \in {"scan", "enable", "address", "absent"})
    BY <1>3, <2>1, <2>2 DEF Configuring, Commands
  <2>4. step # "absent"
    OBVIOUS
  <2> QED  BY <1>1, <1>2, <2>3, <2>4 DEF BringUpInv, FreshInv
<1>11. UnarmedInv'
  BY <1>2 DEF BringUpInv, UnarmedInv, Unarmed
<1>12. OneAnswer'
  BY DEF OneAnswer
<1> QED  BY <1>1, <1>4, <1>5, <1>6, <1>7, <1>8, <1>9, <1>10, <1>11, <1>12
     DEF Sync, Common, BringUpInv

\* While nothing is waited for there is no answer.
LEMMA NothingAsked ==
  ASSUME Common, BringUpInv, phase # "wait"
  PROVE  /\ Answers = {} /\ ~Transferring
         /\ Work(commands, commandAt, commandPut) = <<>>
BY DEF Common, BringUpInv, OneAnswer, CommandRing, Transferring

\* Between devices nothing is addressed.
LEMMA ScanIssues ==
  ASSUME TypeInv, step \in {"scan", "absent"}
  PROVE  phase = "issue" /\ ~Addressed
BY DEF TypeInv, ScanInv, Commands, Transfers, Reads, Addressed, Configuring

\* A port is left out.
LEMMA SkipSync ==
  ASSUME TypeInv, Common, BringUpInv, SkipPort
  PROVE  Sync'
<1>1. step = "scan" /\ NextPort /\ UNCHANGED <<Memory, devices, deviceCount>>
      /\ UNCHANGED <<eventRing, eventRead>>
  BY DEF SkipPort, Memory, table, controller
<1>2. phase = "issue" /\ ~Addressed
  BY <1>1, ScanIssues
<1>3. /\ Answers = {} /\ ~Transferring
      /\ Work(commands, commandAt, commandPut) = <<>>
  BY <1>2, NothingAsked
<1>4. Answers' = {} /\ \A s : ReportsOf(s)' = ReportsOf(s)
  BY <1>1, <1>3, UnreadSame
<1> QED  BY <1>1, <1>2, <1>3, <1>4, NextPortSync

\* A port is reset, and a device begun.
LEMMA ResetSync ==
  ASSUME TypeInv, Common, BringUpInv, ResetPort
  PROVE  Sync'
<1>1. /\ step = "scan" /\ step' = "enable" /\ phase' = "issue"
      /\ board[port] \notin {"none", "dead"} /\ port <= Len(board)
      /\ UNCHANGED <<Memory, devices, deviceCount, port, eventRead>>
  BY DEF ResetPort, Memory, table, controller
<1>2. phase = "issue" /\ ~Addressed
  BY <1>1, ScanIssues
<1>3. /\ Answers = {} /\ ~Transferring
      /\ Work(commands, commandAt, commandPut) = <<>>
  BY <1>2, NothingAsked
<1>4. Answers' = {} /\ \A s : ReportsOf(s)' = ReportsOf(s)
  <2>1. CASE EventRoom
    <3> DEFINE e == [op |-> "port"]
    <3>1. Post(e) /\ e.op = "port"
      BY <2>1 DEF ResetPort
    <3> HIDE DEF e
    <3>2. /\ Answers' = IF e.op # "port" THEN Answers \cup {eventPut.at} ELSE Answers
          /\ \A s : ReportsOf(s)' = IF e.op = "transfer" /\ e.slot = s
                                      THEN ReportsOf(s) \cup {eventPut.at} ELSE ReportsOf(s)
      BY <1>1, <3>1, AnswersPosted
    <3> QED  BY <1>3, <3>1, <3>2
  <2>2. CASE ~EventRoom
    BY <1>1, <1>3, <2>2, UnreadSame DEF ResetPort
  <2> QED  BY <2>1, <2>2
<1>5. /\ slots' = slots /\ rings' = rings /\ board' = board
      /\ devices' = devices /\ deviceCount' = deviceCount /\ port' = port
      /\ commands' = commands /\ commandPut' = commandPut /\ commandAt' = commandAt
  BY <1>1 DEF Memory
<1>6. CommandRing'
  BY <1>1, <1>3, <1>5 DEF Common, CommandRing
<1>7. SlotsInv' /\ RingsInv' /\ DevicesInv'
  BY <1>5 DEF Common, SlotsInv, RingsInv, DevicesInv, Known
<1>8. OwnersInv'
  BY <1>1, <1>2, <1>5 DEF Common, OwnersInv, Owner, Passed, Configuring, Transfers, Reads
<1>9. QuietInv'
  BY <1>1, <1>3, <1>5 DEF Common, QuietInv, Transferring
<1>10. PlaceInv'
  <2>1. board \in Seq(PortKinds) /\ port \in Nat \ {0}
    BY XhciAssumption DEF BringUpInv, PlaceInv
  <2>2. port \in DOMAIN board
    BY <1>1, <2>1
  <2> QED  BY <1>1, <1>5, <2>2 DEF BringUpInv, PlaceInv, Configuring, Commands, Transfers, Reads
<1>11. HeldInv' /\ TransferInv'
  BY <1>1 DEF HeldInv, TransferInv, Transferring, Configuring, Transfers, Reads
<1>12. FreshInv'
  BY <1>1, <1>5 DEF BringUpInv, FreshInv, Passed
<1>13. UnarmedInv' /\ OneAnswer'
  BY <1>4, <1>5 DEF BringUpInv, UnarmedInv, Unarmed, OneAnswer
<1> QED  BY <1>1, <1>6, <1>7, <1>8, <1>9, <1>10, <1>11, <1>12, <1>13 DEF Sync, Common, BringUpInv

\* The scan ends.
LEMMA FinishSync ==
  ASSUME TypeInv, Common, BringUpInv, Finish
  PROVE  Sync'
<1>1. /\ step = "scan" /\ step' \in {"poll", "absent"} /\ phase' = phase
      /\ UNCHANGED <<Memory, devices, deviceCount, port, eventRing, eventRead>>
  BY DEF Finish, Memory, table, controller
<1>2. phase = "issue" /\ ~Addressed
  BY <1>1, ScanIssues
<1>3. /\ Answers = {} /\ ~Transferring
      /\ Work(commands, commandAt, commandPut) = <<>>
  BY <1>2, NothingAsked
<1>4. Answers' = {} /\ \A s : ReportsOf(s)' = ReportsOf(s)
  BY <1>1, <1>3, UnreadSame
<1>5. /\ slots' = slots /\ rings' = rings /\ board' = board
      /\ devices' = devices /\ deviceCount' = deviceCount /\ port' = port
      /\ commands' = commands /\ commandPut' = commandPut /\ commandAt' = commandAt
  BY <1>1 DEF Memory
<1>6. CommandRing'
  BY <1>1, <1>2, <1>3, <1>5 DEF Common, CommandRing
<1>7. SlotsInv' /\ RingsInv' /\ DevicesInv'
  BY <1>5 DEF Common, SlotsInv, RingsInv, DevicesInv, Known
<1>8. OwnersInv'
  BY <1>1, <1>2, <1>5 DEF Common, OwnersInv, Owner, Passed, Configuring, Transfers, Reads
<1>9. QuietInv'
  BY <1>1, <1>2, <1>3, <1>5 DEF Common, QuietInv, Transferring
<1>10. PlaceInv'
  BY <1>1, <1>5 DEF BringUpInv, PlaceInv, Configuring, Commands, Transfers, Reads
<1>11. HeldInv' /\ TransferInv'
  BY <1>1 DEF HeldInv, TransferInv, Transferring, Configuring, Transfers, Reads
<1>12. FreshInv'
  BY <1>1, <1>5 DEF BringUpInv, FreshInv, Passed
<1>13. UnarmedInv' /\ OneAnswer' /\ PollInv'
  BY <1>4, <1>5 DEF BringUpInv, UnarmedInv, Unarmed, OneAnswer, PollInv
<1> QED  BY <1>1, <1>6, <1>7, <1>8, <1>9, <1>10, <1>11, <1>12, <1>13 DEF Sync, Common, BringUpInv

\* A ring as it was queued on, with `work` left for a reader at c.
Left(q, c, work) ==
  /\ q.cursor \in Cursors /\ Linked(q.ring) /\ Current(q.ring, q.cursor)
  /\ Ahead(q.ring, c, q.cursor) /\ Work(q.ring, c, q.cursor) = work

\* Queueing on a ring with room adds to what is left to run.
LEMMA QueueLeaves ==
  ASSUME NEW q, NEW c \in Cursors, NEW work, NEW trb,
         trb # Link, Left(q, c, work), Len(work) < RingLen - 1
  PROVE  Left(Queue(q, trb), c, Append(work, trb)) /\ Kept(q.ring, Queue(q, trb).ring, c)
<1> DEFINE ring == q.ring
           put  == q.cursor
           p    == Put(ring, put, trb)
<1>1. p = Queue(q, trb)
  BY DEF Put, Queue
<1>2. /\ put \in Cursors /\ Linked(ring) /\ Current(ring, put)
      /\ Ahead(ring, c, put) /\ Work(ring, c, put) = work
  BY DEF Left
<1>3. Len(Work(ring, c, put)) < RingLen - 1
  BY <1>2
<1> HIDE DEF ring, put
<1>4. p.cursor \in Cursors /\ Linked(p.ring) /\ Current(p.ring, p.cursor)
  BY <1>2, QueueKeepsRing
<1>5. /\ Ahead(p.ring, c, p.cursor)
      /\ Work(p.ring, c, p.cursor) = Append(Work(ring, c, put), trb)
      /\ Kept(ring, p.ring, c)
  BY <1>2, <1>3, QueueAppends
<1> HIDE DEF p
<1>6. Left(p, c, Append(work, trb))
  BY <1>2, <1>4, <1>5 DEF Left
<1> QED  BY <1>1, <1>5, <1>6 DEF ring

\* What was kept twice is kept.
LEMMA KeptTwice ==
  ASSUME NEW a, NEW b, NEW d, NEW c, Kept(a, b, c), Kept(b, d, c)
  PROVE  Kept(a, d, c)
BY DEF Kept, Owned

\* Several entries, on a ring that was run to its end.
LEMMA QueueTwo ==
  ASSUME NEW q, NEW c \in Cursors, NEW x, NEW y, x # Link, y # Link, Left(q, c, <<>>)
  PROVE  /\ Left(Queue(Queue(q, x), y), c, <<x, y>>)
         /\ Kept(q.ring, Queue(Queue(q, x), y).ring, c)
<1> DEFINE a == Queue(q, x)
           b == Queue(a, y)
<1>1. RingLen \in Nat /\ RingLen > 3
  BY XhciAssumption
<1> DEFINE none == <<>>
           one  == <<x>>
<1>2. Append(none, x) = one /\ Len(none) < RingLen - 1 /\ Left(q, c, none)
  BY <1>1
<1>3. Append(one, y) = <<x, y>> /\ Len(one) < RingLen - 1
  BY <1>1, AppendToShort
<1> HIDE DEF none, one
<1>4. Left(a, c, Append(none, x)) /\ Kept(q.ring, a.ring, c)
  BY <1>2, QueueLeaves
<1>5. Left(a, c, one)
  BY <1>2, <1>4
<1> HIDE DEF a
<1>6. Left(b, c, Append(one, y)) /\ Kept(a.ring, b.ring, c)
  BY <1>3, <1>5, QueueLeaves
<1>7. Left(b, c, <<x, y>>)
  BY <1>3, <1>6
<1> HIDE DEF b
<1>8. Kept(q.ring, b.ring, c)
  BY <1>4, <1>6, KeptTwice
<1> QED  BY <1>7, <1>8 DEF a, b

\* Three entries.
LEMMA QueueThree ==
  ASSUME NEW q, NEW c \in Cursors, NEW x, NEW y, NEW z, x # Link, y # Link, z # Link,
         Left(q, c, <<>>)
  PROVE  /\ Left(Queue(Queue(Queue(q, x), y), z), c, <<x, y, z>>)
         /\ Kept(q.ring, Queue(Queue(Queue(q, x), y), z).ring, c)
<1> DEFINE a == Queue(Queue(q, x), y)
           b == Queue(a, z)
<1>1. RingLen \in Nat /\ RingLen > 3
  BY XhciAssumption
<1> DEFINE two == <<x, y>>
<1>2. Append(two, z) = <<x, y, z>> /\ Len(two) < RingLen - 1
  BY <1>1, AppendToShort
<1>3. Left(a, c, two) /\ Kept(q.ring, a.ring, c)
  BY QueueTwo
<1> HIDE DEF a, two
<1>4. Left(b, c, Append(two, z)) /\ Kept(a.ring, b.ring, c)
  BY <1>2, <1>3, QueueLeaves
<1>5. Left(b, c, <<x, y, z>>)
  BY <1>2, <1>4
<1> HIDE DEF b
<1>6. Kept(q.ring, b.ring, c)
  BY <1>3, <1>4, KeptTwice
<1> QED  BY <1>5, <1>6 DEF a, b

\* The stages of a transfer are told apart.
LEMMA StagesAreStages ==
  /\ SetupStage # Link /\ DataStage # Link /\ StatusStage # Link
  /\ SetupStage.op = "setup" /\ DataStage.op = "data" /\ StatusStage.op = "status"
BY DEF SetupStage, DataStage, StatusStage, Link

\* A command goes on a ring that was run to its end.
LEMMA IssueCommandSync ==
  ASSUME TypeInv, Common, BringUpInv, IssueCommand
  PROVE  Sync' /\ (Owned(commands, commandAt) => commands'[commandAt.at] = commands[commandAt.at])
<1>1. /\ step \in Commands /\ phase = "issue" /\ phase' = "wait" /\ step' = step /\ port' = port
      /\ board' = board /\ slots' = slots /\ rings' = rings /\ commandAt' = commandAt
      /\ devices' = devices /\ deviceCount' = deviceCount /\ UNCHANGED <<eventRing, eventRead>>
  BY DEF IssueCommand, table, controller
<1>2. Answers = {} /\ ~Transferring /\ Work(commands, commandAt, commandPut) = <<>>
  BY <1>1, NothingAsked
<1>3. Answers' = {} /\ \A s : ReportsOf(s)' = ReportsOf(s)
  BY <1>1, <1>2, UnreadSame
<1>4. /\ CommandRing'
      /\ Owned(commands, commandAt) => commands'[commandAt.at] = commands[commandAt.at]
  <2> DEFINE trb == Command
             q   == [ring |-> commands, cursor |-> commandPut]
             p   == Queue(q, trb)
  <2>1. commands' = p.ring /\ commandPut' = p.cursor
    BY DEF IssueCommand, CommandOnce, Command, Own
  <2>2. trb # Link
    BY <1>1 DEF Command, Link, Commands
  <2>3. Command' = trb
    BY <1>1 DEF Command, Own, Tag
  <2>4. commandAt \in Cursors /\ Left(q, commandAt, <<>>)
    BY <1>2 DEF Common, CommandRing, TypeInv, CommandsInv, Left
  <2>5. q.ring = commands
    OBVIOUS
  <2>6. Len(<<>>) < RingLen - 1 /\ Append(<<>>, trb) = <<trb>>
    BY XhciAssumption
  <2> HIDE DEF trb, q
  <2>7. Left(p, commandAt, <<trb>>) /\ Kept(q.ring, p.ring, commandAt)
    BY <2>2, <2>4, <2>6, QueueLeaves
  <2> HIDE DEF p
  <2>8. CommandRing'
    BY <1>1, <1>3, <2>1, <2>3, <2>7 DEF CommandRing, Left
  <2> QED  BY <2>1, <2>5, <2>7, <2>8 DEF Kept
<1>5. SlotsInv' /\ RingsInv' /\ DevicesInv'
  BY <1>1 DEF Common, SlotsInv, RingsInv, DevicesInv, Known
<1>6. Own' = Own /\ (Addressed' <=> Addressed) /\ (Passed' <=> Passed)
  BY <1>1, <1>2, <1>3 DEF Own, Addressed, Passed
<1>7. OwnersInv'
  BY <1>1, <1>6 DEF Common, OwnersInv, Owner
<1>8. QuietInv'
  BY <1>1, <1>2 DEF Common, QuietInv, Transferring, Commands, Transfers, Reads
<1>9. PlaceInv'
  BY <1>1, <1>6 DEF BringUpInv, PlaceInv
<1>10. HeldInv'
  <2>1. step \in {"address", "endpoint"} =>
          inputContext' = [op |-> step, ring |-> deviceCount, port |-> port]
    BY DEF IssueCommand
  <2> QED  BY <1>1, <1>2, <1>3, <1>6, <2>1 DEF BringUpInv, HeldInv, Given
<1>11. TransferInv'
  BY <1>1, <1>2, <1>3, <1>6 DEF BringUpInv, TransferInv, Transferring, OwnWork, Own, Commands, Transfers, Reads, Configuring
<1>12. FreshInv'
  BY <1>1, <1>6 DEF BringUpInv, FreshInv
<1>13. UnarmedInv' /\ OneAnswer'
  BY <1>1, <1>3 DEF BringUpInv, UnarmedInv, Unarmed, OneAnswer
<1>14. step' # "poll"
  BY <1>1 DEF Commands
<1> QED  BY <1>4, <1>5, <1>7, <1>8, <1>9, <1>10, <1>11, <1>12, <1>13, <1>14
     DEF Sync, Common, BringUpInv

\* While a device is brought up there is an index for it.
LEMMA CountIsIndex ==
  ASSUME TypeInv, step \in Commands \cup Transfers
  PROVE  /\ deviceCount \in Index /\ deviceCount \in Nat /\ deviceCount # None
         /\ 0 .. deviceCount - 1 \subseteq Index /\ deviceCount \notin 0 .. deviceCount - 1
         /\ None \notin 0 .. deviceCount - 1
BY XhciAssumption DEF TypeInv, TableInv, Index, None

\* While a device answers, its ring is of its slot alone.
LEMMA OwnRing ==
  ASSUME TypeInv, Common, BringUpInv, step \in Configuring
  PROVE  /\ Own \in Slots /\ slots[Own].ring = deviceCount
         /\ \A t \in Slots : slots[t].ring = deviceCount => t = Own
         /\ \A i \in 0 .. deviceCount - 1 : devices[i].slot \in Slots /\ devices[i].slot # Own
<1>1. Own \in Slots /\ slots[Own].ring = deviceCount
  BY DEF BringUpInv, HeldInv
<1>2. step \in Commands \cup Transfers
  BY DEF Configuring, Commands
<1>3. deviceCount \in Nat /\ deviceCount # None /\ deviceCount \notin 0 .. deviceCount - 1
  BY <1>2, CountIsIndex
<1>4. ~Passed
  BY DEF BringUpInv, PlaceInv
<1>5. \A t \in Slots : slots[t].ring = deviceCount => t = Own
  BY <1>3, <1>4 DEF Common, OwnersInv, Owner
<1>6. \A i \in 0 .. deviceCount - 1 : devices[i].slot \in Slots /\ slots[devices[i].slot].ring = i
  BY DEF Common, DevicesInv, Known
<1> QED  BY <1>1, <1>3, <1>5, <1>6

\* The stages go on a ring that was run to its end.
LEMMA IssueTransferSync ==
  ASSUME TypeInv, Common, BringUpInv, IssueTransfer
  PROVE  /\ Sync'
         /\ \A t \in Slots : slots[t].ring # None =>
              Kept(rings[slots[t].ring], rings'[slots[t].ring], slots[t].control)
<1> DEFINE begun == Queue(RingOf(deviceCount), SetupStage)
           q     == Queue(IF step \in Reads THEN Queue(begun, DataStage) ELSE begun, StatusStage)
           c     == slots[Own].control
<1>1. /\ step \in Transfers /\ phase = "issue" /\ phase' = "wait" /\ step' = step /\ port' = port
      /\ board' = board /\ deviceCount' = deviceCount /\ UNCHANGED <<eventRing, eventRead>>
      /\ commands' = commands /\ commandPut' = commandPut /\ commandAt' = commandAt
      /\ rings' = [rings EXCEPT ![deviceCount] = q.ring]
      /\ devices' = [devices EXCEPT ![deviceCount].put = q.cursor]
      /\ slots' = [s \in Slots |->
                     IF s = Own /\ slots[s].ring # None
                       THEN [slots[s] EXCEPT !.controlOn = TRUE] ELSE slots[s]]
  BY DEF IssueTransfer, Awaited, RingControl, Own
<1>2. Answers = {} /\ ~Transferring /\ Work(commands, commandAt, commandPut) = <<>>
  BY <1>1, NothingAsked
<1>3. Answers' = {} /\ \A s : ReportsOf(s)' = ReportsOf(s)
  BY <1>1, <1>2, UnreadSame
<1>4. /\ deviceCount \in Index /\ deviceCount \in Nat /\ deviceCount # None
      /\ 0 .. deviceCount - 1 \subseteq Index /\ deviceCount \notin 0 .. deviceCount - 1
  BY <1>1, CountIsIndex
<1>5. step \in Configuring
  BY <1>1 DEF Configuring
<1>6. /\ Own \in Slots /\ slots[Own].ring = deviceCount
      /\ \A t \in Slots : slots[t].ring = deviceCount => t = Own
  BY <1>5, OwnRing
<1>7. c \in Cursors /\ devices[deviceCount].put \in Cursors
  BY <1>4, <1>6 DEF Common, SlotsInv, SlotRecord, TypeInv, TableInv, DeviceRecord
<1>8. Left(RingOf(deviceCount), c, <<>>)
  BY <1>2, <1>4, <1>5, <1>7 DEF Left, RingOf, Common, RingsInv, BringUpInv, HeldInv, TransferInv, OwnWork
<1>9. /\ Left(q, c, IF step \in Reads THEN <<SetupStage, DataStage, StatusStage>>
                    ELSE <<SetupStage, StatusStage>>)
      /\ Kept(rings[deviceCount], q.ring, c)
  <2>1. RingOf(deviceCount).ring = rings[deviceCount]
    BY DEF RingOf
  <2>2. SetupStage # Link /\ DataStage # Link /\ StatusStage # Link
    BY StagesAreStages
  <2>3. CASE step \in Reads
    <3>1. q = Queue(Queue(Queue(RingOf(deviceCount), SetupStage), DataStage), StatusStage)
      BY <2>3
    <3>2. /\ Left(Queue(Queue(Queue(RingOf(deviceCount), SetupStage), DataStage), StatusStage), c,
                  <<SetupStage, DataStage, StatusStage>>)
          /\ Kept(RingOf(deviceCount).ring,
                  Queue(Queue(Queue(RingOf(deviceCount), SetupStage), DataStage), StatusStage).ring, c)
      BY <1>7, <1>8, <2>2, QueueThree
    <3> HIDE DEF q
    <3> QED  BY <2>1, <2>3, <3>1, <3>2
  <2>4. CASE step \notin Reads
    <3>1. q = Queue(Queue(RingOf(deviceCount), SetupStage), StatusStage)
      BY <2>4
    <3>2. /\ Left(Queue(Queue(RingOf(deviceCount), SetupStage), StatusStage), c,
                  <<SetupStage, StatusStage>>)
          /\ Kept(RingOf(deviceCount).ring,
                  Queue(Queue(RingOf(deviceCount), SetupStage), StatusStage).ring, c)
      BY <1>7, <1>8, <2>2, QueueTwo
    <3> HIDE DEF q
    <3> QED  BY <2>1, <2>4, <3>1, <3>2
  <2> QED  BY <2>3, <2>4
<1> HIDE DEF q
<1>10. /\ DOMAIN slots = Slots /\ DOMAIN slots' = Slots /\ DOMAIN rings = Index
       /\ slots'[Own] = [slots[Own] EXCEPT !.controlOn = TRUE]
       /\ \A t \in Slots : t # Own => slots'[t] = slots[t]
  BY <1>1, <1>4, <1>6 DEF Common, SlotsInv, RingsInv
<1>11. \A t \in Slots :
         /\ slots'[t].used = slots[t].used /\ slots'[t].ring = slots[t].ring
         /\ slots'[t].port = slots[t].port /\ slots'[t].control = slots[t].control
         /\ slots'[t].report = slots[t].report /\ slots'[t].reportOn = slots[t].reportOn
  BY <1>10 DEF Common, SlotsInv, SlotRecord
<1>12. /\ rings'[deviceCount] = q.ring /\ DOMAIN rings' = Index
       /\ \A i \in Index : i # deviceCount => rings'[i] = rings[i]
  BY <1>1, <1>4, <1>10
<1>13. /\ devices'[deviceCount].put = q.cursor
       /\ devices'[deviceCount].queued = devices[deviceCount].queued
       /\ \A i \in Index : devices'[i].slot = devices[i].slot
       /\ \A i \in Index : i # deviceCount => devices'[i] = devices[i]
  BY <1>1, <1>4 DEF TypeInv, TableInv, DeviceRecord
<1>14. Own' = Own
  BY <1>1, <1>4, <1>13 DEF Own
<1>15. CommandRing'
  BY <1>1, <1>2 DEF Common, CommandRing, Commands, Transfers, Reads
<1>16. SlotsInv'
  <2>1. slots'[Own] \in SlotRecord
    BY <1>6, <1>10 DEF Common, SlotsInv, SlotRecord
  <2>2. slots' \in [Slots -> SlotRecord]
    <3>1. \A t \in Slots : slots'[t] \in SlotRecord
      BY <1>10, <2>1 DEF Common, SlotsInv
    <3>2. slots' = [t \in Slots |-> slots'[t]]
      BY <1>1
    <3> QED  BY <3>1, <3>2
  <2>3. slots[Own].used
    BY <1>5 DEF BringUpInv, HeldInv
  <2> QED  BY <1>4, <1>6, <1>10, <1>11, <2>2, <2>3 DEF Common, SlotsInv
<1>17. RingsInv'
  BY <1>9, <1>12 DEF Common, RingsInv, Left
<1>18. DevicesInv'
  BY <1>1, <1>4, <1>11, <1>12, <1>13 DEF Common, DevicesInv, Known
<1>19. (Addressed' <=> Addressed) /\ (Passed' <=> Passed)
  BY <1>1, <1>5 DEF Addressed, Passed
<1>20. OwnersInv'
  <2> SUFFICES ASSUME NEW t \in Slots, slots[t].ring # None, Owner(t) PROVE Owner(t)'
    BY <1>11 DEF Common, OwnersInv
  <2> QED  BY <1>1, <1>4, <1>11, <1>13, <1>14, <1>19 DEF Owner
<1>21. QuietInv'
  <2> SUFFICES ASSUME NEW t \in Slots, slots[t].ring # None, t # Own
               PROVE  QuietOn(rings'[slots[t].ring], slots[t].control)
    BY <1>1, <1>10, <1>14 DEF QuietInv, Transferring
  <2>1. QuietOn(rings[slots[t].ring], slots[t].control)
    BY DEF Common, QuietInv
  <2>2. slots[t].ring \in Index /\ slots[t].ring # deviceCount
    BY <1>6 DEF Common, SlotsInv, SlotRecord
  <2> QED  BY <1>12, <2>1, <2>2
<1>22. PlaceInv'
  BY <1>1, <1>19 DEF BringUpInv, PlaceInv
<1>23. HeldInv'
  <2>1. step \notin {"address", "endpoint"}
    BY <1>1 DEF Transfers, Reads
  <2>2. Current(rings[deviceCount], devices[deviceCount].put)'
    BY <1>1, <1>9, <1>12, <1>13 DEF Left
  <2> QED  BY <1>1, <1>5, <1>6, <1>11, <1>13, <1>14, <2>1, <2>2 DEF BringUpInv, HeldInv
<1>24. TransferInv'
  <2>1. Ahead(q.ring, c, q.cursor)
        /\ Work(q.ring, c, q.cursor) =
             IF step \in Reads THEN <<SetupStage, DataStage, StatusStage>>
             ELSE <<SetupStage, StatusStage>>
    BY <1>9 DEF Left
  <2>2. rings'[deviceCount'] = q.ring /\ slots'[Own'].control = c /\ devices'[deviceCount'].put = q.cursor
    BY <1>1, <1>6, <1>11, <1>12, <1>13, <1>14
  <2>3. SetupStage' = SetupStage /\ DataStage' = DataStage /\ StatusStage' = StatusStage
    BY <1>1 DEF SetupStage, DataStage, StatusStage, Tag, BufferOf
  <2>4. Transferring'
    BY <1>1 DEF Transferring
  <2> HIDE DEF c
  <2>5. OwnWork' = IF step \in Reads THEN <<SetupStage, DataStage, StatusStage>>
                   ELSE <<SetupStage, StatusStage>>
    BY <2>1, <2>2 DEF OwnWork
  <2>6. Ahead(rings[deviceCount], slots[Own].control, devices[deviceCount].put)'
    BY <2>1, <2>2
  <2> QED  BY <1>1, <1>3, <2>3, <2>4, <2>5, <2>6 DEF TransferInv
<1>25. FreshInv'
  <2>1. step \notin {"scan", "enable", "address"}
    BY <1>1 DEF Transfers, Reads
  <2>2. \A i \in Index : i > deviceCount => i # deviceCount
    BY <1>4 DEF Index
  <2> QED  BY <1>1, <1>12, <2>1, <2>2 DEF BringUpInv, FreshInv
<1>26. UnarmedInv' /\ OneAnswer'
  <2>1. OneAnswer'
    BY <1>3 DEF OneAnswer
  <2>2. \A i \in 0 .. deviceCount - 1 : devices[i].slot \in Slots
    BY DEF Common, DevicesInv, Known
  <2>3. \A i \in 0 .. deviceCount - 1 : Unarmed(i)
    BY <1>1 DEF BringUpInv, UnarmedInv
  <2>4. deviceCount' = deviceCount
    BY <1>1
  <2>5. ASSUME NEW i \in 0 .. deviceCount - 1 PROVE Unarmed(i)'
    <3>1. Unarmed(i) /\ devices[i].slot \in Slots
      BY <2>2, <2>3
    <3> QED  BY <1>1, <1>3, <1>4, <1>11, <1>13, <2>4, <3>1 DEF Unarmed
  <2>6. \A u \in Slots : slots'[u].reportOn \in {"off", "idle"}
    BY <1>1, <1>13 DEF BringUpInv, UnarmedInv
  <2>7. UnarmedInv'
    BY <2>4, <2>5, <2>6 DEF UnarmedInv
  <2> QED  BY <2>1, <2>7
<1>27. ASSUME NEW t \in Slots, slots[t].ring # None
       PROVE  Kept(rings[slots[t].ring], rings'[slots[t].ring], slots[t].control)
  <2>1. slots[t].ring \in Index
    BY <1>27 DEF Common, SlotsInv, SlotRecord
  <2>2. CASE slots[t].ring = deviceCount
    BY <1>6, <1>9, <1>12, <2>2
  <2>3. CASE slots[t].ring # deviceCount
    BY <1>12, <2>1, <2>3 DEF Kept
  <2> QED  BY <2>2, <2>3
<1>28. step' # "poll"
  BY <1>1 DEF Transfers, Reads
<1> QED  BY <1>15, <1>16, <1>17, <1>18, <1>20, <1>21, <1>22, <1>23, <1>24, <1>25, <1>26, <1>27, <1>28
     DEF Sync, Common, BringUpInv

\* Nothing that answers comes after something that was left behind.
LEMMA FirstOfItsKind ==
  ASSUME OthersComeLast, PlaceInv, step \in Commands \cup Transfers, board[port] # "mute"
  PROVE  ~Passed
<1> SUFFICES ASSUME Passed PROVE FALSE
  OBVIOUS
<1>1. PICK p \in DOMAIN board : p < port /\ board[p] = "other"
  BY DEF Passed
<1>2. board \in Boards /\ port \in DOMAIN board /\ board[port] \notin {"none", "dead"}
  BY DEF PlaceInv
<1> QED  BY <1>1, <1>2 DEF OthersComeLast

\* An event that is not waited for is thrown away.
LEMMA DiscardSync ==
  ASSUME TypeInv, Common, BringUpInv, Discard
  PROVE  Sync'
<1>1. /\ phase = "wait" /\ TakeEvent /\ UNCHANGED eventRing /\ NextEvent.op # Wanted
      /\ phase' = phase /\ step' = step /\ port' = port /\ buffers' = buffers
      /\ UNCHANGED <<Memory, devices, deviceCount>>
  BY DEF Discard, Memory, scan, table, controller
<1>2. /\ events' = events /\ NextEvent = events[eventAt.at].trb
      /\ Answers' = Answers \ {eventAt.at}
      /\ \A s : ReportsOf(s)' = ReportsOf(s) \ {eventAt.at}
  BY <1>1, AnswersTaken
<1>3. eventAt.at \notin Answers
  BY <1>1, <1>2 DEF BringUpInv, OneAnswer, AnswerIs
<1>4. Answers' = Answers /\ \A s : ReportsOf(s) = {} => ReportsOf(s)' = {}
  BY <1>2, <1>3
<1>5. /\ slots' = slots /\ rings' = rings /\ board' = board /\ inputContext' = inputContext
      /\ devices' = devices /\ deviceCount' = deviceCount
      /\ commands' = commands /\ commandPut' = commandPut /\ commandAt' = commandAt
  BY <1>1 DEF Memory
<1>6. /\ Own' = Own /\ (Addressed' <=> Addressed) /\ (Passed' <=> Passed)
      /\ (Transferring' <=> Transferring)
  BY <1>1, <1>4, <1>5 DEF Own, Addressed, Passed, Transferring
<1>7. CommandRing'
  BY <1>1, <1>4, <1>5, <1>6 DEF Common, CommandRing, Command, Tag
<1>8. SlotsInv' /\ RingsInv' /\ DevicesInv'
  BY <1>5 DEF Common, SlotsInv, RingsInv, DevicesInv, Known
<1>9. OwnersInv' /\ QuietInv'
  BY <1>1, <1>5, <1>6 DEF Common, OwnersInv, Owner, QuietInv
<1>10. PlaceInv' /\ FreshInv'
  BY <1>1, <1>5, <1>6 DEF BringUpInv, PlaceInv, FreshInv
<1>11. HeldInv'
  BY <1>1, <1>4, <1>5, <1>6 DEF BringUpInv, HeldInv, Given
<1>12. TransferInv'
  BY <1>1, <1>4, <1>5, <1>6 DEF BringUpInv, TransferInv, OwnWork, Filled, SetupStage, DataStage, StatusStage, BufferOf, Tag
<1>13. UnarmedInv'
  BY <1>4, <1>5 DEF BringUpInv, UnarmedInv, Unarmed
<1>14. OneAnswer'
  BY <1>1, <1>2, <1>4, <1>5 DEF BringUpInv, OneAnswer, AnswerIs, Wanted, Tag
<1>15. step' # "poll"
  BY <1>1 DEF TypeInv, ScanInv, Commands, Transfers, Reads
<1> QED  BY <1>7, <1>8, <1>9, <1>10, <1>11, <1>12, <1>13, <1>14, <1>15 DEF Sync, Common, BringUpInv

\* The next request to the same device.
LEMMA AdvanceSync ==
  ASSUME TypeInv, Common, BringUpInv, OthersComeLast, Advance,
         UNCHANGED <<Memory, devices, deviceCount>>,
         (step = "address" /\ Addressed) \/ (step \in Transfers /\ OwnWork = <<>>),
         Work(commands, commandAt, commandPut) = <<>>,
         Answers' = {}, \A s : ReportsOf(s)' \subseteq ReportsOf(s)
  PROVE  Sync'
<1>1. step' \in Configuring /\ phase' = "issue" /\ port' = port
  BY DEF Advance, After, Configuring, Transfers, Reads
<1>2. /\ slots' = slots /\ rings' = rings /\ board' = board
      /\ devices' = devices /\ deviceCount' = deviceCount
      /\ commands' = commands /\ commandPut' = commandPut /\ commandAt' = commandAt
  BY DEF Memory
<1>3. step \in Commands \cup Transfers /\ step # "endpoint" /\ step' # "poll"
  BY <1>1 DEF Commands, Transfers, Reads, Configuring
<1>4. /\ deviceCount \in Index /\ deviceCount \in Nat /\ deviceCount # None
      /\ 0 .. deviceCount - 1 \subseteq Index /\ deviceCount \notin 0 .. deviceCount - 1
  BY <1>3, CountIsIndex
<1>5. board[port] # "mute" /\ ~Passed /\ ~Passed'
  <2>1. board[port] # "mute"
    BY DEF Addressed, BringUpInv, PlaceInv, Configuring, Transfers, Reads
  <2>2. ~Passed
    BY <1>3, <2>1, FirstOfItsKind DEF BringUpInv
  <2> QED  BY <1>1, <1>2, <2>1, <2>2 DEF Passed
<1>6. Own' = Own /\ Addressed' /\ ~Transferring'
  BY <1>1, <1>2 DEF Own, Addressed, Transferring
<1>7. /\ Own \in Slots /\ slots[Own].used /\ slots[Own].ring = deviceCount /\ slots[Own].port = port
      /\ ~devices[deviceCount].queued /\ Current(rings[deviceCount], devices[deviceCount].put)
      /\ slots[Own].reportOn = "off" /\ slots[Own].report = Origin
      /\ Ahead(rings[deviceCount], slots[Own].control, devices[deviceCount].put) /\ OwnWork = <<>>
  <2>1. CASE step = "address" /\ Addressed
    <3>1. Own \in Slots /\ devices[deviceCount] = NewDevice(Own) /\ Given(slots[Own])
      BY <2>1 DEF BringUpInv, HeldInv
    <3>2. rings[deviceCount] = Blank
      BY <1>4, <1>5, <2>1 DEF BringUpInv, FreshInv
    <3>3. devices[deviceCount].put = Origin /\ ~devices[deviceCount].queued
      BY <3>1 DEF NewDevice
    <3>4. /\ slots[Own].used /\ slots[Own].ring = deviceCount /\ slots[Own].port = port
          /\ slots[Own].reportOn = "off" /\ slots[Own].report = Origin /\ slots[Own].control = Origin
      BY <3>1 DEF Given
    <3> QED  BY <3>1, <3>2, <3>3, <3>4, BlankRing DEF OwnWork
  <2>2. CASE step \in Transfers /\ OwnWork = <<>>
    BY <1>3, <2>2 DEF BringUpInv, HeldInv, TransferInv, Configuring
  <2> QED  BY <2>1, <2>2
<1>8. CommandRing'
  BY <1>1, <1>2 DEF Common, CommandRing
<1>9. SlotsInv' /\ RingsInv' /\ DevicesInv'
  BY <1>2 DEF Common, SlotsInv, RingsInv, DevicesInv, Known
<1>10. OwnersInv'
  BY <1>2, <1>5, <1>6 DEF Common, OwnersInv, Owner
<1>11. QuietInv'
  <2>1. QuietOn(rings[deviceCount], slots[Own].control)
    <3>1. slots[Own].control \in Cursors /\ devices[deviceCount].put \in Cursors /\ Linked(rings[deviceCount])
      BY <1>4, <1>7 DEF Common, SlotsInv, SlotRecord, RingsInv, TypeInv, TableInv, DeviceRecord
    <3> QED  BY <1>7, <3>1, QuietWithoutWork DEF OwnWork
  <2>2. \A t \in Slots : slots[t].ring # None => QuietOn(rings[slots[t].ring], slots[t].control)
    BY <1>7, <2>1 DEF Common, QuietInv
  <2> QED  BY <1>2, <2>2 DEF QuietInv
<1>12. PlaceInv'
  BY <1>1, <1>2, <1>3, <1>5 DEF BringUpInv, PlaceInv
<1>13. HeldInv'
  <2>1. step' # "address"
    BY <1>1 DEF Configuring, Transfers, Reads
  <2> QED  BY <1>1, <1>2, <1>6, <1>7, <2>1 DEF HeldInv
<1>14. TransferInv'
  <2>1. OwnWork' = <<>>
    BY <1>2, <1>6, <1>7 DEF OwnWork
  <2> QED  BY <1>1, <1>2, <1>6, <1>7, <2>1 DEF TransferInv
<1>15. FreshInv'
  <2>1. step' \notin {"scan", "enable", "address"}
    BY <1>1 DEF Configuring, Transfers, Reads
  <2> QED  BY <1>2, <2>1 DEF BringUpInv, FreshInv
<1>16. UnarmedInv' /\ OneAnswer'
  BY <1>2 DEF BringUpInv, UnarmedInv, Unarmed, OneAnswer
<1> QED  BY <1>3, <1>8, <1>9, <1>10, <1>11, <1>12, <1>13, <1>14, <1>15, <1>16 DEF Sync, Common, BringUpInv

\* A descriptor is copied and parsed.
LEMMA CopySync ==
  ASSUME TypeInv, Common, BringUpInv, OthersComeLast, CopyDescriptor
  PROVE  Sync'
<1>1. /\ step \in Reads /\ phase = "copy"
      /\ UNCHANGED <<Memory, devices, deviceCount, eventRing, eventRead>>
  BY DEF CopyDescriptor, Memory, table, controller
<1>2. Answers = {} /\ ~Transferring /\ Work(commands, commandAt, commandPut) = <<>>
  BY <1>1, NothingAsked
<1>3. Answers' = {} /\ \A s : ReportsOf(s)' = ReportsOf(s)
  BY <1>1, <1>2, UnreadSame
<1>4. step \in Configuring /\ step \in Transfers /\ step \in Commands \cup Transfers
  BY <1>1 DEF Configuring, Transfers
<1>5. OwnWork = <<>> /\ Filled
  BY <1>1, <1>2, <1>4 DEF BringUpInv, TransferInv
<1>6. CASE Advance
  BY <1>1, <1>2, <1>3, <1>4, <1>5, <1>6, AdvanceSync
<1>7. CASE NextPort /\ step = "configuration" /\ parsed' = "none" /\ parsed' = Parse(buffers[deviceCount])
  <2>1. buffers[deviceCount].what = "configuration" /\ buffers[deviceCount].port = port
    BY <1>1, <1>5, <1>7 DEF Filled, Content
  <2>2. board[port] \notin HidKinds
    BY <1>7, <2>1 DEF Parse, HidKinds
  <2>3. port \in DOMAIN board /\ board[port] \notin {"none", "dead", "mute"} /\ board \in Seq(PortKinds)
    BY <1>4, XhciAssumption DEF BringUpInv, PlaceInv
  <2>4. board[port] = "other"
    <3>1. board[port] \in PortKinds
      BY <2>3, ElementOfSeq
    <3> QED  BY <2>2, <2>3, <3>1 DEF PortKinds, HidKinds
  <2>5. step \notin {"poll", "absent"}
    BY <1>7
  <2>6. slots[Own].reportOn = "off"
    BY <1>1, <1>4 DEF BringUpInv, HeldInv, Reads
  <2> QED  BY <1>1, <1>2, <1>3, <1>7, <2>3, <2>4, <2>5, <2>6, NextPortSync
<1> QED  BY <1>6, <1>7 DEF CopyDescriptor, BufferOf

\* The event that is taken is the answer, and the only one.
LEMMA AnswerTaken ==
  ASSUME TypeInv, Common, BringUpInv, Answered
  PROVE  /\ phase = "wait" /\ step \in Commands \cup Transfers
         /\ AnswerIs(NextEvent) /\ Answers # {} /\ Answers' = {}
         /\ \A s : ReportsOf(s)' \subseteq ReportsOf(s)
         /\ \A s : ReportsOf(s)' = {}
         /\ Work(commands, commandAt, commandPut) = <<>>
         /\ UNCHANGED Memory
         /\ step \in Transfers => OwnWork = <<>> /\ Filled /\ step \in Configuring
<1>1. /\ phase = "wait" /\ TakeEvent /\ UNCHANGED eventRing /\ NextEvent.op = Wanted
      /\ UNCHANGED Memory
  BY DEF Answered, Memory, controller
<1>2. step \in Commands \cup Transfers
  BY <1>1 DEF TypeInv, ScanInv
<1>3. /\ events' = events /\ NextEvent = events[eventAt.at].trb
      /\ Answers' = Answers \ {eventAt.at}
      /\ NextEvent.op # "port" => eventAt.at \in Answers
      /\ \A s : ReportsOf(s)' = ReportsOf(s) \ {eventAt.at}
  BY <1>1, AnswersTaken
<1>4. eventAt.at \in Answers
  BY <1>1, <1>3 DEF Wanted
<1>5. PICK k \in Answers : Answers = {k} /\ AnswerIs(events[k].trb)
  BY <1>4 DEF BringUpInv, OneAnswer
<1>6. k = eventAt.at /\ AnswerIs(NextEvent) /\ Answers' = {} /\ Answers # {}
  BY <1>3, <1>4, <1>5
<1>7. \A s : ReportsOf(s) \subseteq Answers
  BY DEF ReportsOf, Answers
<1>8. \A s : ReportsOf(s)' = {}
  BY <1>3, <1>5, <1>6, <1>7
<1>9. Work(commands, commandAt, commandPut) = <<>>
  BY <1>6 DEF Common, CommandRing
<1>10. step \in Transfers => OwnWork = <<>> /\ Filled /\ step \in Configuring
  BY <1>1, <1>6 DEF BringUpInv, TransferInv, Transferring, Configuring
<1> QED  BY <1>1, <1>2, <1>3, <1>6, <1>8, <1>9, <1>10

\* What was asked for has come: only `enable` changes the table then.
LEMMA ReadSync ==
  ASSUME TypeInv, Common, BringUpInv, Answered, step \in Reads,
         phase' = "copy", UNCHANGED <<step, port, table>>
  PROVE  Sync'
<1>1. /\ phase = "wait" /\ Answers # {} /\ Answers' = {}
      /\ \A s : ReportsOf(s)' = {}
      /\ Work(commands, commandAt, commandPut) = <<>>
      /\ OwnWork = <<>> /\ Filled /\ step \in Configuring /\ step \in Transfers
  BY AnswerTaken DEF Transfers
<1>2. /\ slots' = slots /\ rings' = rings /\ board' = board /\ inputContext' = inputContext
      /\ devices' = devices /\ deviceCount' = deviceCount /\ step' = step /\ port' = port
      /\ commands' = commands /\ commandPut' = commandPut /\ commandAt' = commandAt
      /\ buffers' = buffers
  BY DEF Answered, table, controller
<1>3. Own' = Own /\ ~Transferring' /\ (Passed' <=> Passed) /\ Addressed /\ Addressed'
  BY <1>1, <1>2 DEF Own, Transferring, Passed, Addressed
<1>4. CommandRing'
  BY <1>1, <1>2 DEF Common, CommandRing
<1>5. SlotsInv' /\ RingsInv' /\ DevicesInv'
  BY <1>2 DEF Common, SlotsInv, RingsInv, DevicesInv, Known
<1>6. OwnersInv'
  BY <1>2, <1>3 DEF Common, OwnersInv, Owner
<1>7. /\ Own \in Slots /\ slots[Own].ring = deviceCount /\ deviceCount \in Index
  BY <1>1, CountIsIndex DEF BringUpInv, HeldInv
<1>8. QuietInv'
  <2>1. QuietOn(rings[deviceCount], slots[Own].control)
    <3>1. slots[Own].control \in Cursors /\ devices[deviceCount].put \in Cursors /\ Linked(rings[deviceCount])
      BY <1>7 DEF Common, SlotsInv, SlotRecord, RingsInv, TypeInv, TableInv, DeviceRecord
    <3>2. /\ Ahead(rings[deviceCount], slots[Own].control, devices[deviceCount].put)
          /\ Current(rings[deviceCount], devices[deviceCount].put)
      BY <1>1 DEF BringUpInv, TransferInv, HeldInv
    <3> QED  BY <1>1, <3>1, <3>2, QuietWithoutWork DEF OwnWork
  <2>2. \A t \in Slots : slots[t].ring # None => QuietOn(rings[slots[t].ring], slots[t].control)
    BY <1>7, <2>1 DEF Common, QuietInv
  <2> QED  BY <1>2, <2>2 DEF QuietInv
<1>9. PlaceInv' /\ FreshInv'
  BY <1>2, <1>3 DEF BringUpInv, PlaceInv, FreshInv
<1>10. HeldInv'
  <2>1. step \notin {"address", "endpoint"}
    BY DEF Reads
  <2> QED  BY <1>2, <1>3, <2>1 DEF BringUpInv, HeldInv
<1>11. TransferInv'
  BY <1>1, <1>2, <1>3 DEF BringUpInv, TransferInv, OwnWork, Filled
<1>12. UnarmedInv' /\ OneAnswer'
  BY <1>1, <1>2 DEF BringUpInv, UnarmedInv, Unarmed, OneAnswer
<1>13. step' # "poll"
  BY <1>2 DEF Reads
<1> QED  BY <1>4, <1>5, <1>6, <1>8, <1>9, <1>10, <1>11, <1>12, <1>13 DEF Sync, Common, BringUpInv

\* A slot was given out.
LEMMA EnabledSync ==
  ASSUME TypeInv, Common, BringUpInv, Answered, step = "enable", NextEvent.ok,
         devices' = [devices EXCEPT ![deviceCount] = NewDevice(NextEvent.slot)],
         Advance, UNCHANGED <<deviceCount, kept>>
  PROVE  Sync'
<1> DEFINE s == NextEvent.slot
<1>1. /\ phase = "wait" /\ Answers # {} /\ Answers' = {} /\ \A t : ReportsOf(t)' = {}
      /\ Work(commands, commandAt, commandPut) = <<>>
      /\ s \in Slots /\ slots[s] = Used
  BY AnswerTaken DEF AnswerIs
<1>2. /\ slots' = slots /\ rings' = rings /\ board' = board /\ inputContext' = inputContext
      /\ deviceCount' = deviceCount /\ step' = "address" /\ phase' = "issue" /\ port' = port
      /\ commands' = commands /\ commandPut' = commandPut /\ commandAt' = commandAt
  BY DEF Answered, controller, Advance, After
<1>3. /\ deviceCount \in Index /\ deviceCount \in Nat /\ deviceCount # None
      /\ 0 .. deviceCount - 1 \subseteq Index /\ deviceCount \notin 0 .. deviceCount - 1
  BY CountIsIndex DEF Commands
<1>4. /\ devices'[deviceCount] = NewDevice(s)
      /\ \A i \in Index : i # deviceCount => devices'[i] = devices[i]
  BY <1>3 DEF TypeInv, TableInv
<1>5. Own' = s
  BY <1>2, <1>4 DEF Own, NewDevice
<1>6. ~Addressed /\ ~Addressed' /\ (Passed' <=> Passed) /\ ~Transferring /\ ~Transferring'
  BY <1>1, <1>2 DEF Addressed, Passed, Transferring, Configuring, Transfers, Reads
<1>7. CommandRing'
  BY <1>1, <1>2 DEF Common, CommandRing
<1>8. SlotsInv' /\ RingsInv'
  BY <1>2 DEF Common, SlotsInv, RingsInv
<1>9. DevicesInv'
  BY <1>2, <1>3, <1>4 DEF Common, DevicesInv, Known
<1>10. OwnersInv'
  <2> SUFFICES ASSUME NEW t \in Slots, slots[t].ring # None, Owner(t) PROVE Owner(t)'
    BY <1>2 DEF Common, OwnersInv
  <2>1. CASE slots[t].ring \in 0 .. deviceCount - 1 /\ devices[slots[t].ring].slot = t
    BY <1>2, <1>3, <1>4, <2>1 DEF Owner
  <2>2. CASE slots[t].ring = deviceCount /\ Passed /\ slots[t].reportOn = "off"
    BY <1>2, <1>6, <2>2 DEF Owner, Configuring, Transfers, Reads
  <2> QED  BY <1>6, <2>1, <2>2 DEF Owner
<1>11. QuietInv'
  BY <1>2, <1>6 DEF Common, QuietInv
<1>12. PlaceInv' /\ FreshInv'
  BY <1>2, <1>6 DEF BringUpInv, PlaceInv, FreshInv, Configuring, Commands, Transfers, Reads
<1>13. HeldInv'
  BY <1>1, <1>2, <1>4, <1>5, <1>6 DEF HeldInv, Used, Configuring, Transfers, Reads
<1>14. TransferInv'
  BY <1>2, <1>6 DEF TransferInv, Configuring, Transfers, Reads
<1>15. UnarmedInv' /\ OneAnswer'
  BY <1>1, <1>2, <1>3, <1>4 DEF BringUpInv, UnarmedInv, Unarmed, OneAnswer
<1> QED  BY <1>2, <1>7, <1>8, <1>9, <1>10, <1>11, <1>12, <1>13, <1>14, <1>15 DEF Sync, Common, BringUpInv

\* The device is up.
LEMMA EnumeratedSync ==
  ASSUME TypeInv, Common, BringUpInv, Answered, step = "endpoint", Enumerated, UNCHANGED devices
  PROVE  Sync'
<1>1. /\ phase = "wait" /\ Answers # {} /\ Answers' = {} /\ \A t : ReportsOf(t)' = {}
      /\ Work(commands, commandAt, commandPut) = <<>>
  BY AnswerTaken
<1>2. /\ slots' = slots /\ rings' = rings /\ board' = board /\ devices' = devices
      /\ commands' = commands /\ commandPut' = commandPut /\ commandAt' = commandAt
      /\ deviceCount' = deviceCount + 1 /\ step' = "scan" /\ phase' = "issue" /\ port' = port + 1
  BY DEF Answered, controller, Enumerated, NextPort
<1>3. step \in Configuring /\ ~Transferring /\ ~Transferring' /\ NextPort
  BY <1>2 DEF Configuring, Transferring, Transfers, Reads, Enumerated
<1>4. /\ deviceCount \in Index /\ deviceCount \in Nat /\ deviceCount # None
      /\ 0 .. deviceCount - 1 \subseteq Index
  BY CountIsIndex DEF Commands
<1>5. \A i : i \in 0 .. deviceCount' - 1 => i \in 0 .. deviceCount - 1 \/ i = deviceCount
  BY <1>2, <1>4
<1>6. /\ Own \in Slots /\ slots[Own].used /\ slots[Own].ring = deviceCount
      /\ ~devices[deviceCount].queued /\ Current(rings[deviceCount], devices[deviceCount].put)
      /\ slots[Own].reportOn = "idle" /\ slots[Own].report = Origin
  BY <1>1, <1>3 DEF BringUpInv, HeldInv
<1>7. CommandRing'
  BY <1>1, <1>2 DEF Common, CommandRing
<1>8. SlotsInv' /\ RingsInv'
  BY <1>2 DEF Common, SlotsInv, RingsInv
<1>9. DevicesInv'
  BY <1>2, <1>5, <1>6 DEF Common, DevicesInv, Known, Own
<1>10. OwnersInv'
  <2> SUFFICES ASSUME NEW t \in Slots, slots[t].ring # None PROVE Owner(t)'
    BY <1>2 DEF OwnersInv
  <2>1. CASE slots[t].ring \in 0 .. deviceCount - 1 /\ devices[slots[t].ring].slot = t
    BY <1>2, <1>4, <2>1 DEF Owner
  <2>2. CASE slots[t].ring = deviceCount
    <3>1. t = Own /\ deviceCount \in 0 .. deviceCount' - 1
      BY <1>2, <1>3, <1>4, <2>2, OwnRing
    <3> QED  BY <1>2, <2>2, <3>1 DEF Owner, Own
  <2> QED  BY <2>1, <2>2 DEF Common, OwnersInv, Owner
<1>11. QuietInv'
  BY <1>2, <1>3 DEF Common, QuietInv
<1>12. PlaceInv'
  BY <1>2 DEF BringUpInv, PlaceInv, Configuring, Commands, Transfers, Reads
<1>13. HeldInv' /\ TransferInv'
  BY <1>2 DEF HeldInv, TransferInv, Transferring, Configuring, Transfers, Reads
<1>14. FreshInv'
  <2>1. \A i \in Index : i >= deviceCount + 1 => i > deviceCount
    BY <1>4 DEF Index
  <2>2. \A i \in Index : i > deviceCount + 1 \/ i = deviceCount + 1 => i >= deviceCount + 1
    BY <1>4 DEF Index
  <2> QED  BY <1>2, <2>1, <2>2 DEF BringUpInv, FreshInv
<1>15. UnarmedInv' /\ OneAnswer'
  BY <1>1, <1>2, <1>5, <1>6 DEF BringUpInv, UnarmedInv, Unarmed, OneAnswer, Own
<1> QED  BY <1>2, <1>7, <1>8, <1>9, <1>10, <1>11, <1>12, <1>13, <1>14, <1>15 DEF Sync, Common, BringUpInv

\* An answer is taken.
LEMMA AnsweredSync ==
  ASSUME TypeInv, Common, BringUpInv, OthersComeLast, Answered
  PROVE  Sync'
<1>1. /\ phase = "wait" /\ step \in Commands \cup Transfers
      /\ AnswerIs(NextEvent) /\ Answers # {} /\ Answers' = {}
      /\ \A s : ReportsOf(s)' \subseteq ReportsOf(s)
      /\ Work(commands, commandAt, commandPut) = <<>>
      /\ UNCHANGED Memory
      /\ step \in Transfers => OwnWork = <<>> /\ Filled /\ step \in Configuring
  BY AnswerTaken
<1>2. CASE ~NextEvent.ok /\ NextPort /\ UNCHANGED table
  <2>1. step \notin Configuring
    BY <1>1, <1>2 DEF AnswerIs
  <2>2. ~Addressed /\ ~Transferring
    BY <1>1, <1>2, <2>1 DEF AnswerIs, Addressed, Transferring, Configuring
  <2>3. step \notin {"poll", "absent"}
    BY <1>1 DEF Commands, Transfers, Reads
  <2> QED  BY <1>1, <1>2, <2>2, <2>3, NextPortSync DEF table
<1>3. CASE /\ NextEvent.ok /\ step = "enable"
           /\ devices' = [devices EXCEPT ![deviceCount] = NewDevice(NextEvent.slot)]
           /\ Advance
           /\ UNCHANGED <<deviceCount, kept>>
  BY <1>3, EnabledSync
<1>4. CASE step \in Reads /\ phase' = "copy" /\ UNCHANGED <<step, port, table>>
  BY <1>4, ReadSync
<1>5. CASE step = "endpoint" /\ Enumerated /\ UNCHANGED devices
  BY <1>5, EnumeratedSync
<1>6. CASE /\ NextEvent.ok \/ step = "protocol"
           /\ step \in {"address", "set", "protocol"} /\ Advance /\ UNCHANGED table
  <2>1. (step = "address" /\ Addressed) \/ (step \in Transfers /\ OwnWork = <<>>)
    <3>1. CASE step = "address"
      <4>1. NextEvent.ok
        BY <1>6, <3>1
      <4>2. NextEvent.ok = (board[port] # "mute")
        BY <1>1, <3>1 DEF AnswerIs
      <4>3. board[port] # "mute"
        BY <4>1, <4>2, Zenon
      <4>4. Answers # {}
        BY <1>1
      <4>5. Addressed
        BY <3>1, <4>3, <4>4 DEF Addressed
      <4> QED  BY <3>1, <4>5
    <3>2. CASE step \in {"set", "protocol"}
      BY <1>1, <3>2 DEF Transfers
    <3> QED  BY <1>6, <3>1, <3>2
  <2> QED  BY <1>1, <1>6, <2>1, AdvanceSync DEF table
<1> QED  BY <1>2, <1>3, <1>4, <1>5, <1>6 DEF Answered

\* What the controller finds on the command ring is what is waited for.
LEMMA CommandFound ==
  ASSUME TypeInv, Common, RunCommand
  PROVE  /\ step \in Commands /\ phase = "wait" /\ Answers = {}
         /\ commands[Reading(commands, commandAt).at].trb = Command
         /\ Ahead(commands, commandAt', commandPut)
         /\ Work(commands, commandAt', commandPut) = <<>>
<1> DEFINE at == Reading(commands, commandAt)
           w  == Work(commands, commandAt, commandPut)
<1>1. Owned(commands, at) /\ commandAt' = Past(at)
  BY DEF RunCommand
<1>2. /\ commandAt \in Cursors /\ commandPut \in Cursors
      /\ Linked(commands) /\ Current(commands, commandPut) /\ Ahead(commands, commandAt, commandPut)
  BY DEF TypeInv, CommandsInv, Common, CommandRing
<1>3. /\ Owned(commands, at) <=> w # <<>>
      /\ Owned(commands, at) =>
           /\ at.at < RingLen - 1 /\ Past(at) \in Cursors
           /\ Ahead(commands, Past(at), commandPut)
           /\ commands[at.at].trb = Head(w)
           /\ Work(commands, Past(at), commandPut) = Tail(w)
  BY <1>2, ReadingTakesHead
<1>4. phase = "wait" /\ step \in Commands /\ Answers = {} /\ w = <<Command>>
  BY <1>1, <1>3 DEF Common, CommandRing
<1>5. Head(<<Command>>) = Command /\ Tail(<<Command>>) = <<>>
  OBVIOUS
<1> HIDE DEF w, at
<1>6. commands[at.at].trb = Command /\ Work(commands, Past(at), commandPut) = <<>>
  BY <1>1, <1>3, <1>4, <1>5
<1> QED  BY <1>1, <1>3, <1>4, <1>6 DEF at

\* What the answer to a command leaves as it was.
LEMMA CompletionPosted ==
  ASSUME TypeInv, Common, RunCommand, NEW s, NEW ok, Post(Completion(s, ok, Tag)), ok \in BOOLEAN
  PROVE  /\ Answers' = {eventPut.at} /\ events'[eventPut.at].trb = Completion(s, ok, Tag)
         /\ \A t : ReportsOf(t)' = ReportsOf(t)
         /\ UNCHANGED <<step, phase, port, board, devices, deviceCount, rings, commands,
                        commandPut, inputContext, buffers>>
         /\ Own' = Own /\ Tag' = Tag
         /\ CommandRing'
<1> DEFINE e == Completion(s, ok, Tag)
<1>1. e.op = "completion"
  BY DEF Completion
<1>2. UNCHANGED <<step, phase, port, board, devices, deviceCount, rings, commands,
                  commandPut, inputContext, buffers, eventRead>>
  BY DEF RunCommand, scan, table
<1> HIDE DEF e
<1>3. /\ Answers' = IF e.op # "port" THEN Answers \cup {eventPut.at} ELSE Answers
      /\ eventPut.at \notin Answers /\ events'[eventPut.at].trb = e
      /\ \A t : ReportsOf(t)' = IF e.op = "transfer" /\ e.slot = t
                                  THEN ReportsOf(t) \cup {eventPut.at} ELSE ReportsOf(t)
  BY <1>2, AnswersPosted DEF e
<1>4. /\ step \in Commands /\ phase = "wait" /\ Answers = {}
      /\ Ahead(commands, commandAt', commandPut)
      /\ Work(commands, commandAt', commandPut) = <<>>
  BY CommandFound
<1>5. Answers' = {eventPut.at} /\ \A t : ReportsOf(t)' = ReportsOf(t)
  BY <1>1, <1>3, <1>4
<1>6. Own' = Own /\ Tag' = Tag
  BY <1>2 DEF Own, Tag
<1>7. CommandRing'
  BY <1>2, <1>4, <1>5 DEF Common, CommandRing
<1> QED  BY <1>2, <1>3, <1>5, <1>6, <1>7 DEF e

\* The slot that is addressed or set up is of no device that is up.
LEMMA OwnIsApart ==
  ASSUME TypeInv, Common, BringUpInv, step \in {"address", "endpoint"}, Answers = {}
  PROVE  /\ Own \in Slots /\ slots[Own].used
         /\ \A i \in 0 .. deviceCount - 1 : devices[i].slot \in Slots /\ devices[i].slot # Own
<1>1. CASE step = "address"
  <2>1. Own \in Slots /\ slots[Own] = Used
    BY <1>1 DEF BringUpInv, HeldInv, Addressed, Configuring, Transfers, Reads
  <2>2. slots[Own].used /\ slots[Own].ring = None
    BY <2>1 DEF Used, FreeSlot
  <2>3. \A i \in 0 .. deviceCount - 1 : i # None
    BY DEF None
  <2> QED  BY <2>1, <2>2, <2>3 DEF Common, DevicesInv, Known
<1>2. CASE step = "endpoint"
  <2>1. step \in Configuring
    BY <1>2 DEF Configuring
  <2> QED  BY <2>1, OwnRing DEF BringUpInv, HeldInv
<1> QED  BY <1>1, <1>2

\* The controller gives out a slot.
LEMMA EnableSync ==
  ASSUME TypeInv, Common, BringUpInv, RunCommand, step = "enable"
  PROVE  Sync'
<1>1. /\ phase = "wait" /\ Answers = {}
      /\ commands[Reading(commands, commandAt).at].trb = Command
  BY CommandFound
<1>2. Command.op = "enable" /\ Command.tag = Tag
  BY DEF Command
<1>3. \/ Free = {} /\ Post(Completion(0, FALSE, Tag)) /\ UNCHANGED slots
      \/ /\ Free # {} /\ Post(Completion(Least(Free), TRUE, Tag))
         /\ slots' = [slots EXCEPT ![Least(Free)].used = TRUE]
  BY <1>1, <1>2 DEF RunCommand
<1>4. ~Addressed /\ ~Transferring
  BY <1>1 DEF Addressed, Transferring, Configuring, Transfers, Reads
<1> DEFINE ok == IF Free = {} THEN FALSE ELSE TRUE
           s  == IF Free = {} THEN 0 ELSE Least(Free)
<1>5. /\ Post(Completion(s, ok, Tag)) /\ ok \in BOOLEAN
      /\ ok => s \in Free /\ s \in Slots /\ slots' = [slots EXCEPT ![s].used = TRUE]
      /\ ~ok => slots' = slots
  <2>1. CASE Free = {}
    BY <1>3, <2>1
  <2>2. CASE Free # {}
    <3>1. Free \in SUBSET Nat /\ Free \subseteq Slots
      BY XhciAssumption DEF Free, Slots
    <3>2. Least(Free) \in Free /\ Least(Free) \in Slots
      BY <2>2, <3>1, LeastIsOne
    <3> QED  BY <1>3, <2>2, <3>2
  <2> QED  BY <2>1, <2>2
<1> HIDE DEF ok, s
<1>6. /\ Answers' = {eventPut.at} /\ events'[eventPut.at].trb = Completion(s, ok, Tag)
      /\ \A t : ReportsOf(t)' = ReportsOf(t)
      /\ UNCHANGED <<step, phase, port, board, devices, deviceCount, rings, commands,
                     commandPut, inputContext, buffers>>
      /\ Own' = Own /\ Tag' = Tag
      /\ CommandRing'
  BY <1>5, CompletionPosted
<1>7. /\ slots' \in [Slots -> SlotRecord]
      /\ \A t \in Slots : slots'[t] = slots[t] \/ (ok /\ t = s /\ slots[t] = FreeSlot /\ slots'[t] = Used)
      /\ ok => slots'[s] = Used
  <2>1. CASE ok
    <3>1. slots[s] = FreeSlot
      BY <1>5, <2>1 DEF Free, Common, SlotsInv
    <3>2. slots'[s] = Used
      BY <1>5, <2>1, <3>1 DEF Common, SlotsInv, Used
    <3>3. Used \in SlotRecord
      BY BlankRing DEF Used, FreeSlot, SlotRecord
    <3>4. \A t \in Slots : t # s => slots'[t] = slots[t]
      BY <1>5, <2>1 DEF Common, SlotsInv
    <3>5. slots' \in [Slots -> SlotRecord]
      <4>1. slots' = [slots EXCEPT ![s] = [slots[s] EXCEPT !.used = TRUE]]
        BY <1>5, <2>1
      <4>2. [slots[s] EXCEPT !.used = TRUE] \in SlotRecord
        <5> DEFINE z == slots[s]
        <5>1. z \in SlotRecord
          BY <1>5, <2>1 DEF Common, SlotsInv
        <5> HIDE DEF z
        <5>2. [z EXCEPT !.used = TRUE] \in SlotRecord
          BY <5>1 DEF SlotRecord
        <5> QED  BY <5>2 DEF z
      <4> DEFINE y == [slots[s] EXCEPT !.used = TRUE]
      <4>3. slots \in [Slots -> SlotRecord] /\ s \in Slots
        BY <1>5, <2>1 DEF Common, SlotsInv
      <4> HIDE DEF y
      <4> QED  BY <4>1, <4>2, <4>3, ChangedAt DEF y
    <3> QED  BY <2>1, <3>1, <3>2, <3>4, <3>5
  <2>2. CASE ~ok
    BY <1>5, <2>2 DEF Common, SlotsInv
  <2> QED  BY <2>1, <2>2
<1>8. /\ Used.used /\ Used.ring = None /\ Used.reportOn = "off" /\ ~Used.controlOn
      /\ FreeSlot.ring = None /\ ~FreeSlot.used
  BY DEF Used, FreeSlot
<1>9. /\ ~Addressed' /\ ~Transferring' /\ (Passed' <=> Passed)
  BY <1>4, <1>6 DEF Addressed, Transferring, Passed, Configuring, Transfers, Reads
<1>10. SlotsInv'
  BY <1>7, <1>8 DEF Common, SlotsInv
<1>11. RingsInv'
  BY <1>6 DEF Common, RingsInv
<1>12. DevicesInv'
  <2> SUFFICES ASSUME NEW i \in 0 .. deviceCount - 1, Known(i) PROVE Known(i)'
    BY <1>6 DEF Common, DevicesInv
  <2> QED  BY <1>6, <1>7, <1>8 DEF Known
<1>13. OwnersInv'
  <2> SUFFICES ASSUME NEW t \in Slots, slots'[t].ring # None PROVE Owner(t)'
    BY DEF OwnersInv
  <2>1. slots'[t] = slots[t]
    BY <1>7, <1>8
  <2>2. Owner(t)
    BY <2>1 DEF Common, OwnersInv
  <2> QED  BY <1>4, <1>6, <1>9, <2>1, <2>2 DEF Owner
<1>14. QuietInv'
  <2> SUFFICES ASSUME NEW t \in Slots, slots'[t].ring # None
               PROVE QuietOn(rings'[slots'[t].ring], slots'[t].control)
    BY DEF QuietInv
  <2>1. slots'[t] = slots[t]
    BY <1>7, <1>8
  <2> QED  BY <1>4, <1>6, <2>1 DEF Common, QuietInv
<1>15. PlaceInv' /\ FreshInv'
  BY <1>6, <1>9 DEF BringUpInv, PlaceInv, FreshInv
<1>16. HeldInv' /\ TransferInv'
  BY <1>6, <1>9 DEF HeldInv, TransferInv, Configuring, Transfers, Reads
<1>17. UnarmedInv'
  <2>1. \A t \in Slots : slots'[t].reportOn \in {"off", "idle"}
    BY <1>7, <1>8 DEF BringUpInv, UnarmedInv
  <2>2. ASSUME NEW i \in 0 .. deviceCount - 1 PROVE Unarmed(i)'
    <3>1. devices[i].slot \in Slots /\ slots[devices[i].slot].used
      BY DEF Common, DevicesInv, Known
    <3>2. slots'[devices[i].slot] = slots[devices[i].slot]
      BY <1>7, <1>8, <3>1
    <3> QED  BY <1>6, <3>2 DEF BringUpInv, UnarmedInv, Unarmed
  <2> QED  BY <1>6, <2>1, <2>2 DEF UnarmedInv
<1>18. OneAnswer'
  <2>1. PICK k : k = eventPut.at
    OBVIOUS
  <2>2. /\ events'[k].trb.op = "completion" /\ events'[k].trb.tag = Tag
        /\ events'[k].trb.ok = ok /\ events'[k].trb.slot = s
    BY <1>6, <2>1 DEF Completion
  <2>3. Wanted' = "completion" /\ step' = "enable"
    BY <1>6 DEF Wanted, Commands
  <2>4. events'[k].trb.ok => s \in Slots /\ slots'[s] = Used
    BY <1>5, <1>7, <2>2
  <2>5. AnswerIs(events[k].trb)'
    BY <1>6, <2>2, <2>3, <2>4 DEF AnswerIs, Configuring, Transfers, Reads
  <2> QED  BY <1>1, <1>6, <2>1, <2>5 DEF OneAnswer
<1> QED  BY <1>6, <1>10, <1>11, <1>12, <1>13, <1>14, <1>15, <1>16, <1>17, <1>18
     DEF Sync, Common, BringUpInv

\* The controller addresses the device.
LEMMA AddressSync ==
  ASSUME TypeInv, Common, BringUpInv, OthersComeLast, RunCommand, step = "address"
  PROVE  Sync'
<1> DEFINE ok == board[port] # "mute"
<1>1. /\ phase = "wait" /\ Answers = {}
      /\ commands[Reading(commands, commandAt).at].trb = Command
  BY CommandFound
<1>2. Command.op = "address" /\ Command.tag = Tag /\ Command.slot = Own
  BY DEF Command
<1>3. inputContext = [op |-> "address", ring |-> deviceCount, port |-> port]
  BY <1>1 DEF BringUpInv, HeldInv
<1>4. inputContext.op = "address" /\ inputContext.ring = deviceCount /\ inputContext.port = port
  BY <1>3
<1>5. /\ ~Addressed /\ ~Transferring
  BY <1>1 DEF Addressed, Transferring, Configuring, Transfers, Reads
<1>6. /\ Own \in Slots /\ slots[Own] = Used /\ devices[deviceCount] = NewDevice(Own)
  BY <1>5 DEF BringUpInv, HeldInv
<1>7. /\ Used.used /\ Used.ring = None /\ Used.reportOn = "off" /\ ~Used.controlOn
      /\ Used.control = Origin
  BY DEF Used, FreeSlot
<1>8. /\ Post(Completion(Own, ok, Tag))
      /\ slots' = IF ok THEN [slots EXCEPT
                    ![Own].ring = deviceCount, ![Own].port = port,
                    ![Own].control = Origin, ![Own].controlOn = FALSE] ELSE slots
  <2> DEFINE right == /\ inputContext.op = Command.op /\ slots[Own].used
                      /\ board[inputContext.port] # "mute"
  <2>1. right = ok
    BY <1>2, <1>4, <1>6, <1>7
  <2>2. /\ Post(Completion(Own, right, Tag))
        /\ slots' = IF right THEN [slots EXCEPT
                      ![Own].ring = inputContext.ring, ![Own].port = inputContext.port,
                      ![Own].control = Origin, ![Own].controlOn = FALSE] ELSE slots
    BY <1>1, <1>2 DEF RunCommand
  <2> HIDE DEF right, ok
  <2> QED  BY <1>4, <2>1, <2>2
<1>9. /\ Answers' = {eventPut.at} /\ events'[eventPut.at].trb = Completion(Own, ok, Tag)
      /\ \A t : ReportsOf(t)' = ReportsOf(t)
      /\ UNCHANGED <<step, phase, port, board, devices, deviceCount, rings, commands,
                     commandPut, inputContext, buffers>>
      /\ Own' = Own /\ Tag' = Tag
      /\ CommandRing'
  BY <1>8, CompletionPosted
<1>10. /\ deviceCount \in Index /\ deviceCount \in Nat /\ deviceCount # None
       /\ 0 .. deviceCount - 1 \subseteq Index /\ deviceCount \notin 0 .. deviceCount - 1
  BY CountIsIndex DEF Commands
<1>11. ok => Given(slots'[Own]) /\ slots'[Own] \in SlotRecord
  <2> SUFFICES ASSUME ok PROVE Given(slots'[Own]) /\ slots'[Own] \in SlotRecord
    OBVIOUS
  <2> DEFINE x == slots[Own]
             y == slots'[Own]
  <2>1. slots' = [slots EXCEPT ![Own] = [slots[Own] EXCEPT
                    !.ring = deviceCount, !.port = port, !.control = Origin, !.controlOn = FALSE]]
    BY <1>8
  <2>2. y = [x EXCEPT !.ring = deviceCount, !.port = port, !.control = Origin, !.controlOn = FALSE]
    BY <1>6, <2>1 DEF Common, SlotsInv
  <2>3. x.used /\ x.report = Origin /\ x.reportOn = "off" /\ x \in SlotRecord
    BY <1>6 DEF Used, FreeSlot, Common, SlotsInv
  <2>4. port \in Nat
    BY DEF BringUpInv, PlaceInv
  <2> HIDE DEF x, y
  <2>5. /\ y.ring = deviceCount /\ y.port = port /\ y.control = Origin
        /\ y.report = x.report /\ y.reportOn = x.reportOn /\ y.used = x.used
        /\ y.controlOn = FALSE
    BY <2>2, <2>3 DEF SlotRecord
  <2>6. y \in SlotRecord
    BY <1>10, <2>2, <2>3, <2>4, BlankRing DEF SlotRecord
  <2> QED  BY <2>3, <2>5, <2>6 DEF Given, y
<1>12. /\ \A t \in Slots : t # Own => slots'[t] = slots[t]
       /\ ~ok => slots'[Own] = Used
       /\ DOMAIN slots' = Slots
  BY <1>6, <1>8 DEF Common, SlotsInv
<1>14. /\ Addressed' <=> ok
       /\ ~Transferring' /\ (Passed' <=> Passed)
  BY <1>5, <1>9 DEF Addressed, Transferring, Passed, Configuring, Transfers, Reads
<1>15. \A i \in 0 .. deviceCount - 1 : devices[i].slot \in Slots /\ devices[i].slot # Own
  BY <1>1, OwnIsApart
<1>16. IF ok THEN Given(slots'[Own]) /\ slots'[Own] \in SlotRecord ELSE slots'[Own] = Used
  BY <1>11, <1>12
<1>13. /\ Used \in SlotRecord
       /\ slots'[Own] \in SlotRecord /\ slots'[Own].used /\ slots'[Own].reportOn = "off"
       /\ IF ok THEN slots'[Own].ring = deviceCount /\ slots'[Own].control = Origin
          ELSE slots'[Own].ring = None /\ ~slots'[Own].controlOn
  <2>1. Used \in SlotRecord
    BY <1>6 DEF Common, SlotsInv
  <2> QED  BY <1>7, <1>16, <2>1 DEF Given
<1> HIDE DEF ok
<1>17. SlotsInv'
  <2>1. \A t \in Slots : slots'[t] \in SlotRecord
    BY <1>6, <1>12, <1>13 DEF Common, SlotsInv
  <2>2. slots' \in [Slots -> SlotRecord]
    <3>1. slots' = [t \in Slots |-> slots'[t]]
      BY <1>8, <1>12 DEF Common, SlotsInv
    <3> QED  BY <2>1, <3>1
  <2>3. slots'[Own].used /\ (slots'[Own].ring = None => slots'[Own].reportOn = "off" /\ ~slots'[Own].controlOn)
    BY <1>10, <1>13
  <2> QED  BY <1>6, <1>12, <2>2, <2>3 DEF Common, SlotsInv
<1>18. RingsInv'
  BY <1>9 DEF Common, RingsInv
<1>19. DevicesInv'
  <2> SUFFICES ASSUME NEW i \in 0 .. deviceCount - 1, Known(i) PROVE Known(i)'
    BY <1>9 DEF Common, DevicesInv
  <2> QED  BY <1>9, <1>12, <1>15 DEF Known
<1>20. OwnersInv'
  <2> SUFFICES ASSUME NEW t \in Slots, slots'[t].ring # None PROVE Owner(t)'
    BY DEF OwnersInv
  <2>1. CASE t = Own
    <3>1. ok
      BY <1>13, <2>1
    <3> QED  BY <1>9, <1>13, <1>14, <2>1, <3>1 DEF Owner
  <2>2. CASE t # Own
    <3>1. slots'[t] = slots[t] /\ Owner(t)
      BY <1>12, <2>2 DEF Common, OwnersInv
    <3> QED  BY <1>5, <1>9, <1>14, <3>1 DEF Owner
  <2> QED  BY <2>1, <2>2
<1>21. QuietInv'
  <2> SUFFICES ASSUME NEW t \in Slots, slots'[t].ring # None
               PROVE QuietOn(rings'[slots'[t].ring], slots'[t].control)
    BY DEF QuietInv
  <2>1. CASE t = Own
    <3>1. ok
      BY <1>13, <2>1
    <3>2. ~Passed
      BY <3>1, FirstOfItsKind DEF BringUpInv, Commands, ok
    <3>3. rings[deviceCount] = Blank
      BY <1>10, <3>2 DEF BringUpInv, FreshInv
    <3> QED  BY <1>9, <1>13, <2>1, <3>1, <3>3, BlankRing
  <2>2. CASE t # Own
    <3>1. slots'[t] = slots[t]
      BY <1>12, <2>2
    <3> QED  BY <1>5, <1>9, <3>1 DEF Common, QuietInv
  <2> QED  BY <2>1, <2>2
<1>22. PlaceInv' /\ FreshInv'
  BY <1>9, <1>14 DEF BringUpInv, PlaceInv, FreshInv
<1>23. HeldInv'
  <2>2. IF Addressed' THEN Given(slots[Own])' ELSE slots'[Own'] = Used
    BY <1>9, <1>14, <1>16 DEF Given
  <2> QED  BY <1>6, <1>9, <2>2 DEF HeldInv, Configuring, Transfers, Reads
<1>24. TransferInv'
  BY <1>9, <1>14 DEF TransferInv, Configuring, Transfers, Reads
<1>25. UnarmedInv'
  <2>1. \A t \in Slots : slots'[t].reportOn \in {"off", "idle"}
    BY <1>12, <1>13 DEF BringUpInv, UnarmedInv
  <2>2. ASSUME NEW i \in 0 .. deviceCount - 1 PROVE Unarmed(i)'
    BY <1>9, <1>12, <1>15 DEF BringUpInv, UnarmedInv, Unarmed
  <2> QED  BY <1>9, <2>1, <2>2 DEF UnarmedInv
<1>26. OneAnswer'
  <2>1. PICK k : k = eventPut.at
    OBVIOUS
  <2>2. /\ events'[k].trb.op = "completion" /\ events'[k].trb.tag = Tag
        /\ events'[k].trb.ok = ok
    BY <1>9, <2>1 DEF Completion
  <2>3. Wanted' = "completion" /\ step' = "address"
    BY <1>9 DEF Wanted, Commands
  <2>4. events'[k].trb.ok = (board'[port'] # "mute")
    BY <1>9, <2>2 DEF ok
  <2>5. AnswerIs(events[k].trb)'
    BY <1>9, <2>2, <2>3, <2>4 DEF AnswerIs, Configuring, Transfers, Reads
  <2> QED  BY <1>1, <1>9, <2>1, <2>5 DEF OneAnswer
<1> QED  BY <1>9, <1>17, <1>18, <1>19, <1>20, <1>21, <1>22, <1>23, <1>24, <1>25, <1>26
     DEF Sync, Common, BringUpInv

\* The controller starts the report endpoint.
LEMMA EndpointSync ==
  ASSUME TypeInv, Common, BringUpInv, RunCommand, step = "endpoint"
  PROVE  Sync'
<1>1. /\ phase = "wait" /\ Answers = {}
      /\ commands[Reading(commands, commandAt).at].trb = Command
  BY CommandFound
<1>2. Command.op = "endpoint" /\ Command.tag = Tag /\ Command.slot = Own
  BY DEF Command
<1>3. inputContext = [op |-> "endpoint", ring |-> deviceCount, port |-> port]
  BY <1>1 DEF BringUpInv, HeldInv
<1>4. inputContext.op = "endpoint"
  BY <1>3
<1>5. step \in Configuring /\ ~Transferring
  BY DEF Transferring, Configuring, Transfers, Reads
<1>6. /\ Own \in Slots /\ slots[Own].used /\ slots[Own].ring = deviceCount
      /\ slots[Own] \in SlotRecord /\ slots[Own].report = Origin
  BY <1>5 DEF BringUpInv, HeldInv, Common, SlotsInv
<1>7. /\ deviceCount \in Index /\ deviceCount \in Nat /\ deviceCount # None
      /\ 0 .. deviceCount - 1 \subseteq Index /\ deviceCount \notin 0 .. deviceCount - 1
  BY CountIsIndex DEF Commands
<1>8. /\ Post(Completion(Own, TRUE, Tag))
      /\ slots' = [slots EXCEPT ![Own].report = Origin, ![Own].reportOn = "idle"]
  <2> DEFINE right == inputContext.op = Command.op /\ slots[Own].ring # None
  <2>1. right = TRUE
    BY <1>2, <1>4, <1>6, <1>7
  <2>2. /\ Post(Completion(Own, right, Tag))
        /\ slots' = IF right THEN [slots EXCEPT
                      ![Own].report = Origin, ![Own].reportOn = "idle"] ELSE slots
    BY <1>1, <1>2 DEF RunCommand
  <2> HIDE DEF right
  <2> QED  BY <2>1, <2>2
<1>9. /\ Answers' = {eventPut.at} /\ events'[eventPut.at].trb = Completion(Own, TRUE, Tag)
      /\ \A t : ReportsOf(t)' = ReportsOf(t)
      /\ UNCHANGED <<step, phase, port, board, devices, deviceCount, rings, commands,
                     commandPut, inputContext, buffers>>
      /\ Own' = Own /\ Tag' = Tag
      /\ CommandRing'
  BY <1>8, CompletionPosted
<1>10. /\ \A t \in Slots : t # Own => slots'[t] = slots[t]
       /\ slots' \in [Slots -> SlotRecord]
       /\ slots'[Own].report = Origin /\ slots'[Own].reportOn = "idle"
       /\ slots'[Own].used = slots[Own].used /\ slots'[Own].ring = slots[Own].ring
       /\ slots'[Own].port = slots[Own].port /\ slots'[Own].control = slots[Own].control
  <2>1. slots' = [slots EXCEPT ![Own] = [slots[Own] EXCEPT !.report = Origin, !.reportOn = "idle"]]
    BY <1>8
  <2>2. [slots[Own] EXCEPT !.report = Origin, !.reportOn = "idle"] \in SlotRecord
    BY <1>6, BlankRing DEF SlotRecord
  <2>3. DOMAIN slots = Slots /\ slots \in [Slots -> SlotRecord]
    BY DEF Common, SlotsInv
  <2>4. slots'[Own] = [slots[Own] EXCEPT !.report = Origin, !.reportOn = "idle"]
    BY <1>6, <2>1, <2>3
  <2>5. slots' \in [Slots -> SlotRecord] /\ \A t \in Slots : t # Own => slots'[t] = slots[t]
    BY <1>6, <2>1, <2>2, <2>3
  <2>6. /\ slots'[Own].report = Origin /\ slots'[Own].reportOn = "idle"
        /\ slots'[Own].used = slots[Own].used /\ slots'[Own].ring = slots[Own].ring
        /\ slots'[Own].port = slots[Own].port /\ slots'[Own].control = slots[Own].control
    <3> DEFINE x == slots[Own]
               y == slots'[Own]
    <3>1. x \in SlotRecord /\ y = [x EXCEPT !.report = Origin, !.reportOn = "idle"]
      BY <1>6, <2>4
    <3> HIDE DEF x, y
    <3>2. /\ y.report = Origin /\ y.reportOn = "idle"
          /\ y.used = x.used /\ y.ring = x.ring /\ y.port = x.port /\ y.control = x.control
      BY <3>1 DEF SlotRecord
    <3> QED  BY <3>2 DEF x, y
  <2> QED  BY <2>5, <2>6
<1>11. \A i \in 0 .. deviceCount - 1 : devices[i].slot \in Slots /\ devices[i].slot # Own
  BY <1>1, OwnIsApart
<1>12. Addressed /\ Addressed' /\ ~Transferring' /\ (Passed' <=> Passed)
  BY <1>5, <1>9 DEF Addressed, Transferring, Passed
<1>13. SlotsInv'
  BY <1>6, <1>7, <1>10 DEF Common, SlotsInv
<1>14. RingsInv'
  BY <1>9 DEF Common, RingsInv
<1>15. DevicesInv'
  <2> SUFFICES ASSUME NEW i \in 0 .. deviceCount - 1, Known(i) PROVE Known(i)'
    BY <1>9 DEF Common, DevicesInv
  <2> QED  BY <1>9, <1>10, <1>11 DEF Known
<1>16. OwnersInv'
  <2> SUFFICES ASSUME NEW t \in Slots, slots'[t].ring # None PROVE Owner(t)'
    BY DEF OwnersInv
  <2>1. slots'[t].ring = slots[t].ring /\ Owner(t)
    BY <1>10 DEF Common, OwnersInv
  <2> QED  BY <1>5, <1>9, <1>12, <2>1 DEF Owner
<1>17. QuietInv'
  <2> SUFFICES ASSUME NEW t \in Slots, slots'[t].ring # None
               PROVE QuietOn(rings'[slots'[t].ring], slots'[t].control)
    BY DEF QuietInv
  <2>1. slots'[t].ring = slots[t].ring /\ slots'[t].control = slots[t].control
    BY <1>10
  <2> QED  BY <1>5, <1>9, <2>1 DEF Common, QuietInv
<1>18. PlaceInv' /\ FreshInv'
  BY <1>9, <1>12 DEF BringUpInv, PlaceInv, FreshInv
<1>19. HeldInv'
  <2>1. Answers' # {}
    BY <1>9
  <2> QED  BY <1>1, <1>5, <1>6, <1>9, <1>10, <2>1 DEF BringUpInv, HeldInv
<1>20. TransferInv'
  <2>1. OwnWork' = OwnWork
    BY <1>9, <1>10 DEF OwnWork
  <2>2. step \notin Reads
    BY DEF Reads
  <2> QED  BY <1>5, <1>9, <1>10, <1>12, <2>1, <2>2 DEF BringUpInv, TransferInv
<1>21. UnarmedInv'
  <2>1. \A t \in Slots : slots'[t].reportOn \in {"off", "idle"}
    BY <1>10 DEF BringUpInv, UnarmedInv
  <2>2. ASSUME NEW i \in 0 .. deviceCount - 1 PROVE Unarmed(i)'
    BY <1>9, <1>10, <1>11 DEF BringUpInv, UnarmedInv, Unarmed
  <2> QED  BY <1>9, <2>1, <2>2 DEF UnarmedInv
<1>22. OneAnswer'
  <2>1. PICK k : k = eventPut.at
    OBVIOUS
  <2>2. /\ events'[k].trb.op = "completion" /\ events'[k].trb.tag = Tag
        /\ events'[k].trb.ok = TRUE
    BY <1>9, <2>1 DEF Completion
  <2>3. Wanted' = "completion" /\ step' = "endpoint"
    BY <1>9 DEF Wanted, Commands
  <2>5. AnswerIs(events[k].trb)'
    BY <1>9, <2>2, <2>3 DEF AnswerIs
  <2> QED  BY <1>1, <1>9, <2>1, <2>5 DEF OneAnswer
<1> QED  BY <1>9, <1>13, <1>14, <1>15, <1>16, <1>17, <1>18, <1>19, <1>20, <1>21, <1>22
     DEF Sync, Common, BringUpInv

\* The controller runs a command.
LEMMA RunCommandSync ==
  ASSUME TypeInv, Common, step # "poll" => BringUpInv, OthersComeLast, RunCommand
  PROVE  Sync'
<1>1. step \in Commands
  BY CommandFound
<1> QED  BY <1>1, EnableSync, AddressSync, EndpointSync DEF Commands

\* Following a link leads to a cursor.
LEMMA ReadingTyped ==
  ASSUME NEW ring, NEW c \in Cursors
  PROVE  Reading(ring, c) \in Cursors
<1>1. StartOver(c) \in Cursors
  BY XhciAssumption DEF StartOver, Cursors, Positions
<1> QED  BY <1>1 DEF Reading

\* A slot changes where its control endpoint is, and nothing else that matters.
LEMMA ControlMoves ==
  ASSUME SlotsInv, NEW t \in Slots, NEW x \in Cursors, NEW on \in BOOLEAN,
         slots' = [slots EXCEPT ![t] = [slots[t] EXCEPT !.control = x, !.controlOn = on]]
  PROVE  /\ slots' \in [Slots -> SlotRecord]
         /\ \A u \in Slots : u # t => slots'[u] = slots[u]
         /\ \A u \in Slots : /\ slots'[u].used = slots[u].used /\ slots'[u].ring = slots[u].ring
                             /\ slots'[u].port = slots[u].port
                             /\ slots'[u].request = slots[u].request
                             /\ slots'[u].report = slots[u].report
                             /\ slots'[u].reportOn = slots[u].reportOn
         /\ slots'[t].control = x /\ slots'[t].controlOn = on
<1> DEFINE y == [slots[t] EXCEPT !.control = x, !.controlOn = on]
<1>1. slots \in [Slots -> SlotRecord] /\ slots[t] \in SlotRecord
  BY DEF SlotsInv
<1>2. /\ y \in SlotRecord /\ y.control = x /\ y.controlOn = on
      /\ y.used = slots[t].used /\ y.ring = slots[t].ring /\ y.port = slots[t].port
      /\ y.request = slots[t].request /\ y.report = slots[t].report
      /\ y.reportOn = slots[t].reportOn
  <2> DEFINE z == slots[t]
  <2>1. z \in SlotRecord /\ y = [z EXCEPT !.control = x, !.controlOn = on]
    BY <1>1
  <2> HIDE DEF z, y
  <2>2. /\ y \in SlotRecord /\ y.control = x /\ y.controlOn = on
        /\ y.used = z.used /\ y.ring = z.ring /\ y.port = z.port
        /\ y.request = z.request /\ y.report = z.report
        /\ y.reportOn = z.reportOn
    BY <2>1 DEF SlotRecord
  <2> QED  BY <2>2 DEF z
<1> HIDE DEF y
<1>3. slots' = [slots EXCEPT ![t] = y]
  BY DEF y
<1>4. slots' \in [Slots -> SlotRecord] /\ slots'[t] = y /\ \A u \in Slots : u # t => slots'[u] = slots[u]
  BY <1>1, <1>2, <1>3
<1> QED  BY <1>2, <1>4

\* A control endpoint with no stage left goes to rest.
LEMMA RestSync ==
  ASSUME TypeInv, Sync, NEW t \in Slots, RunControl(t), ~(Transferring /\ t = Own)
  PROVE  Sync'
<1> DEFINE ring == rings[slots[t].ring]
           at   == Reading(ring, slots[t].control)
<1>1. slots[t].ring # None /\ slots[t].ring \in Index /\ slots[t].control \in Cursors /\ slots[t].controlOn
  BY DEF RunControl, Sync, Common, SlotsInv, SlotRecord
<1>2. QuietOn(ring, slots[t].control)
  BY <1>1 DEF Sync, Common, QuietInv
<1>3. /\ ~Owned(ring, at)
      /\ slots' = [slots EXCEPT ![t].control = at, ![t].controlOn = FALSE]
      /\ UNCHANGED <<buffers, eventRing>>
  BY <1>2 DEF RunControl, QuietOn, Stages
<1>4. at \in Cursors
  BY <1>1, ReadingTyped
<1>5. QuietOn(ring, at)
  BY <1>3, QuietAtEnd
<1>6. UNCHANGED <<step, phase, port, board, devices, deviceCount, rings, commands, commandPut,
                  commandAt, inputContext, buffers, eventRing, eventRead>>
  BY <1>3 DEF RunControl, scan, table
<1>7. slots' = [slots EXCEPT ![t] = [slots[t] EXCEPT !.control = at, !.controlOn = FALSE]]
  BY <1>3
<1> HIDE DEF at, ring
<1>8. SlotsInv
  BY DEF Sync, Common
<1>9. /\ slots' \in [Slots -> SlotRecord]
      /\ \A u \in Slots : u # t => slots'[u] = slots[u]
      /\ \A u \in Slots : /\ slots'[u].used = slots[u].used /\ slots'[u].ring = slots[u].ring
                          /\ slots'[u].port = slots[u].port
                          /\ slots'[u].request = slots[u].request
                          /\ slots'[u].report = slots[u].report
                          /\ slots'[u].reportOn = slots[u].reportOn
      /\ slots'[t].control = at /\ slots'[t].controlOn = FALSE
  BY <1>4, <1>7, <1>8, ControlMoves
<1>10. Answers' = Answers /\ events' = events /\ \A s : ReportsOf(s)' = ReportsOf(s)
  BY <1>6, UnreadSame
<1>11. /\ Own' = Own /\ (Addressed' <=> Addressed) /\ (Passed' <=> Passed)
       /\ (Transferring' <=> Transferring)
  BY <1>6, <1>10 DEF Own, Addressed, Passed, Transferring
<1>12. CommandRing'
  BY <1>6, <1>10, <1>11 DEF Sync, Common, CommandRing, Command, Tag
<1>13. SlotsInv'
  <2>1. slots[t].used
    BY <1>1, <1>8 DEF SlotsInv, FreeSlot
  <2> QED  BY <1>1, <1>8, <1>9, <2>1 DEF SlotsInv
<1>14. RingsInv' /\ DevicesInv'
  BY <1>6, <1>9 DEF Sync, Common, RingsInv, DevicesInv, Known
<1>15. OwnersInv'
  BY <1>6, <1>9, <1>11 DEF Sync, Common, OwnersInv, Owner
<1>16. QuietInv'
  <2> SUFFICES ASSUME NEW u \in Slots, slots[u].ring # None, ~(Transferring /\ u = Own)
               PROVE  QuietOn(rings[slots[u].ring], slots'[u].control)
    BY <1>6, <1>9, <1>11 DEF QuietInv
  <2>1. CASE u = t
    BY <1>5, <1>9, <2>1 DEF ring
  <2>2. CASE u # t
    BY <1>9, <2>2 DEF Sync, Common, QuietInv
  <2> QED  BY <2>1, <2>2
<1>17. ASSUME step = "poll" PROVE PollInv'
  <2>1. ASSUME NEW i \in 0 .. deviceCount - 1
        PROVE  (Unarmed(i) => Unarmed(i)') /\ (Flowing(i) => Flowing(i)')
               /\ (Stuck(i) => Stuck(i)') /\ (Halted(i) => Halted(i)')
    <3>1. devices[i].slot \in Slots
      BY DEF Sync, Common, DevicesInv, Known
    <3>2. /\ slots'[devices'[i].slot].reportOn = slots[devices[i].slot].reportOn
          /\ slots'[devices'[i].slot].report = slots[devices[i].slot].report
          /\ ReportsOf(devices[i].slot)' = ReportsOf(devices[i].slot)
          /\ devices'[i] = devices[i] /\ rings'[i] = rings[i]
      BY <1>6, <1>9, <1>10, <3>1
    <3> QED  BY <3>2 DEF Unarmed, Flowing, Stuck, Halted
  <2> QED  BY <1>6, <1>17, <2>1 DEF Sync, PollInv
<1>18. ASSUME step # "poll" PROVE BringUpInv'
  <2>0. BringUpInv
    BY <1>18 DEF Sync
  <2>1. PlaceInv' /\ FreshInv'
    BY <1>6, <1>11, <2>0 DEF BringUpInv, PlaceInv, FreshInv
  <2>2. HeldInv'
    <3>1. step = "address" => /\ Own \in Slots /\ devices[deviceCount] = NewDevice(Own)
                              /\ ~Addressed => slots[Own] = Used /\ slots'[Own] = slots[Own]
                              /\ Addressed => Given(slots[Own]) /\ slots'[Own] = slots[Own]
      <4> SUFFICES ASSUME step = "address"
                   PROVE  /\ Own \in Slots /\ devices[deviceCount] = NewDevice(Own)
                          /\ ~Addressed => slots[Own] = Used /\ slots'[Own] = slots[Own]
                          /\ Addressed => Given(slots[Own]) /\ slots'[Own] = slots[Own]
        OBVIOUS
      <4>1. /\ Own \in Slots /\ devices[deviceCount] = NewDevice(Own)
            /\ IF Addressed THEN Given(slots[Own]) ELSE slots[Own] = Used
        BY <2>0 DEF BringUpInv, HeldInv
      <4>2. Own # t
        BY <1>1, <4>1 DEF Given, Used, FreeSlot
      <4> QED  BY <1>9, <4>1, <4>2
    <3>2. IF step = "address" THEN IF Addressed THEN Given(slots'[Own]) ELSE slots'[Own] = Used ELSE TRUE
      BY <3>1
    <3>3. step = "address" => IF Addressed' THEN Given(slots[Own])' ELSE slots'[Own'] = Used
      BY <1>6, <1>11, <3>2 DEF Given
    <3>4. step \in Configuring => Own \in Slots
      BY <2>0 DEF BringUpInv, HeldInv
    <3> QED  BY <1>6, <1>9, <1>10, <1>11, <2>0, <3>1, <3>3, <3>4 DEF BringUpInv, HeldInv
  <2>3. TransferInv'
    <3>1. CASE step \in Configuring
      <4> DEFINE put == devices[deviceCount].put
      <4>1. /\ Own \in Slots /\ slots[Own].ring = deviceCount /\ deviceCount \in Index
            /\ Ahead(rings[deviceCount], slots[Own].control, put)
            /\ Current(rings[deviceCount], put)
        BY <2>0, <3>1, CountIsIndex DEF BringUpInv, HeldInv, TransferInv, Configuring, Commands
      <4>2. put \in Cursors /\ Linked(rings[deviceCount]) /\ slots[Own].control \in Cursors
        BY <4>1 DEF TypeInv, TableInv, DeviceRecord, Sync, Common, RingsInv, SlotsInv, SlotRecord
      <4>3. Ahead(rings[deviceCount], slots'[Own].control, put) /\ OwnWork' = OwnWork
        <5>1. CASE Own = t
          <6>1. at = Reading(rings[deviceCount], slots[Own].control)
            BY <4>1, <5>1 DEF at, ring
          <6>2. /\ Ahead(rings[deviceCount], at, put)
                /\ Work(rings[deviceCount], at, put) = Work(rings[deviceCount], slots[Own].control, put)
            BY <4>1, <4>2, <6>1, ReadingTakesHead
          <6> QED  BY <1>6, <1>9, <1>11, <5>1, <6>2 DEF OwnWork
        <5>2. CASE Own # t
          BY <1>6, <1>9, <1>11, <4>1, <5>2 DEF OwnWork
        <5> QED  BY <5>1, <5>2
      <4>4. SetupStage' = SetupStage /\ DataStage' = DataStage /\ StatusStage' = StatusStage
            /\ (Filled' <=> Filled) /\ slots'[Own].request = slots[Own].request
        BY <1>6, <1>9, <4>1 DEF SetupStage, DataStage, StatusStage, Tag, BufferOf, Filled
      <4> QED  BY <1>6, <1>10, <1>11, <2>0, <3>1, <4>3, <4>4 DEF BringUpInv, TransferInv
    <3>2. CASE step \notin Configuring
      BY <1>6, <1>11, <3>2 DEF TransferInv, Configuring, Transferring, Transfers
    <3> QED  BY <3>1, <3>2
  <2>4. UnarmedInv'
    <3>1. \A u \in Slots : slots'[u].reportOn \in {"off", "idle"}
      BY <1>9, <2>0 DEF BringUpInv, UnarmedInv
    <3>2. ASSUME NEW i \in 0 .. deviceCount - 1 PROVE Unarmed(i)'
      <4>1. devices[i].slot \in Slots
        BY DEF Sync, Common, DevicesInv, Known
      <4> QED  BY <1>6, <1>9, <1>10, <2>0, <4>1 DEF BringUpInv, UnarmedInv, Unarmed
    <3> QED  BY <1>6, <3>1, <3>2 DEF UnarmedInv
  <2>5. OneAnswer'
    <3>1. ASSUME NEW e, AnswerIs(e), step \in Commands \cup Transfers
          PROVE  /\ e.op = Wanted /\ e.tag = Tag
                 /\ step = "enable" /\ e.ok => e.slot \in Slots /\ slots'[e.slot] = Used
                 /\ step = "address" => e.ok = (board[port] # "mute")
                 /\ step \in Configuring => e.ok = TRUE
      <4>1. step = "enable" /\ e.ok => e.slot \in Slots /\ slots[e.slot] = Used /\ e.slot # t
        BY <1>1, <3>1 DEF AnswerIs, Used, FreeSlot
      <4> QED  BY <1>9, <3>1, <4>1 DEF AnswerIs
    <3>2. CASE Answers = {}
      BY <1>10, <3>2 DEF OneAnswer
    <3>3. CASE Answers # {}
      <4>1. PICK k \in Answers : phase = "wait" /\ Answers = {k} /\ AnswerIs(events[k].trb)
        BY <2>0, <3>3 DEF BringUpInv, OneAnswer
      <4>2. step \in Commands \cup Transfers
        BY <4>1 DEF TypeInv, ScanInv
      <4>3. AnswerIs(events[k].trb)'
        BY <1>6, <1>10, <3>1, <4>1, <4>2 DEF AnswerIs, Wanted, Tag
      <4> QED  BY <1>6, <1>10, <4>1, <4>3 DEF OneAnswer
    <3> QED  BY <3>2, <3>3
  <2> QED  BY <2>1, <2>2, <2>3, <2>4, <2>5 DEF BringUpInv
<1> QED  BY <1>6, <1>12, <1>13, <1>14, <1>15, <1>16, <1>17, <1>18 DEF Sync, Common

\* What a stage of the transfer that is waited for leaves as it was.
LEMMA StageFrame ==
  ASSUME TypeInv, Sync, Transferring,
         UNCHANGED <<step, phase, port, board, devices, deviceCount, rings, commands, commandPut,
                     commandAt, inputContext>>,
         slots' \in [Slots -> SlotRecord],
         \A u \in Slots : u # Own => slots'[u] = slots[u],
         \A u \in Slots : /\ slots'[u].used = slots[u].used /\ slots'[u].ring = slots[u].ring
                          /\ slots'[u].port = slots[u].port
                          /\ slots'[u].report = slots[u].report
                          /\ slots'[u].reportOn = slots[u].reportOn,
         \A u \in Slots : u # Own => ReportsOf(u)' = ReportsOf(u),
         TransferInv', OneAnswer'
  PROVE  Sync'
<1>0. step \in Transfers /\ step # "poll" /\ step \notin Commands /\ step \in Configuring
      /\ step \notin {"scan", "enable", "address", "endpoint"}
  BY DEF Transferring, Transfers, Reads, Commands, Configuring
<1>1. BringUpInv /\ Common
  BY <1>0 DEF Sync
<1>2. /\ Own \in Slots /\ slots[Own].ring = deviceCount
      /\ \A i \in 0 .. deviceCount - 1 : devices[i].slot \in Slots /\ devices[i].slot # Own
  BY <1>0, <1>1, OwnRing
<1>3. deviceCount \in Index /\ deviceCount # None
  BY <1>0, CountIsIndex
<1>4. /\ Own' = Own /\ Addressed /\ Addressed' /\ (Passed' <=> Passed) /\ Transferring'
  BY <1>0 DEF Own, Addressed, Passed, Transferring
<1>5. CommandRing'
  BY <1>0, <1>1 DEF Common, CommandRing
<1>6. SlotsInv'
  <2>1. SlotsInv
    BY <1>1 DEF Common
  <2>2. slots[Own].used /\ slots'[Own].used /\ slots'[Own].ring # None
    BY <1>0, <1>1, <1>2, <1>3 DEF BringUpInv, HeldInv
  <2> QED  BY <2>1, <2>2 DEF SlotsInv
<1>7. RingsInv' /\ DevicesInv'
  BY <1>1 DEF Common, RingsInv, DevicesInv, Known
<1>8. OwnersInv'
  BY <1>1, <1>4 DEF Common, OwnersInv, Owner
<1>9. QuietInv'
  <2> SUFFICES ASSUME NEW u \in Slots, slots'[u].ring # None, u # Own
               PROVE  QuietOn(rings[slots'[u].ring], slots'[u].control)
    BY <1>4 DEF QuietInv
  <2>1. slots'[u] = slots[u]
    OBVIOUS
  <2> QED  BY <1>1, <2>1 DEF Common, QuietInv
<1>10. PlaceInv' /\ FreshInv'
  BY <1>0, <1>1, <1>4 DEF BringUpInv, PlaceInv, FreshInv
<1>11. HeldInv'
  <2>1. /\ Own \in Slots /\ slots[Own].used
        /\ slots[Own].ring = deviceCount /\ slots[Own].port = port
        /\ ~devices[deviceCount].queued /\ Current(rings[deviceCount], devices[deviceCount].put)
        /\ slots[Own].reportOn = "off"
        /\ slots[Own].report = Origin
    BY <1>0, <1>1 DEF BringUpInv, HeldInv
  <2> QED  BY <1>0, <1>4, <2>1 DEF HeldInv
<1>12. UnarmedInv'
  <2>1. \A u \in Slots : slots'[u].reportOn \in {"off", "idle"}
    BY <1>1 DEF BringUpInv, UnarmedInv
  <2>2. ASSUME NEW i \in 0 .. deviceCount - 1 PROVE Unarmed(i)'
    <3>1. devices[i].slot \in Slots /\ devices[i].slot # Own /\ devices' = devices
      BY <1>2
    <3>2. ReportsOf(devices[i].slot)' = ReportsOf(devices[i].slot)
      BY <3>1
    <3> QED  BY <1>1, <3>1, <3>2 DEF BringUpInv, UnarmedInv, Unarmed
  <2> QED  BY <2>1, <2>2 DEF UnarmedInv
<1> QED  BY <1>0, <1>5, <1>6, <1>7, <1>8, <1>9, <1>10, <1>11, <1>12 DEF Sync, Common, BringUpInv

Requests == Transfers \cup {"none"}

\* A slot goes on in its control transfer.
Moved(z, x, on, r) == [z EXCEPT !.control = x, !.controlOn = on, !.request = r]

\* What it leaves as it was.
LEMMA StageMoves ==
  ASSUME NEW t \in Slots, NEW x \in Cursors, NEW r \in Requests, NEW on \in BOOLEAN,
         SlotsInv,
         slots' = [slots EXCEPT ![t] = Moved(slots[t], x, on, r)]
  PROVE  /\ slots' \in [Slots -> SlotRecord]
         /\ \A u \in Slots : u # t => slots'[u] = slots[u]
         /\ \A u \in Slots : /\ slots'[u].used = slots[u].used /\ slots'[u].ring = slots[u].ring
                             /\ slots'[u].port = slots[u].port
                             /\ slots'[u].report = slots[u].report
                             /\ slots'[u].reportOn = slots[u].reportOn
         /\ slots'[t].control = x
<1> DEFINE y == Moved(slots[t], x, on, r)
<1>1. slots \in [Slots -> SlotRecord] /\ slots[t] \in SlotRecord
  BY DEF SlotsInv
<1>2. /\ y \in SlotRecord /\ y.control = x
      /\ y.used = slots[t].used /\ y.ring = slots[t].ring /\ y.port = slots[t].port
      /\ y.report = slots[t].report
      /\ y.reportOn = slots[t].reportOn
  <2> DEFINE z == slots[t]
  <2>1. z \in SlotRecord /\ y = [z EXCEPT !.control = x, !.controlOn = on, !.request = r]
    BY <1>1 DEF Moved
  <2> HIDE DEF z, y
  <2>2. /\ y \in SlotRecord /\ y.control = x
        /\ y.used = z.used /\ y.ring = z.ring /\ y.port = z.port
        /\ y.report = z.report
        /\ y.reportOn = z.reportOn
    BY <2>1 DEF SlotRecord, Requests
  <2> QED  BY <2>2 DEF z
<1> HIDE DEF y
<1>3. slots' = [slots EXCEPT ![t] = y]
  BY DEF y
<1>4. slots' \in [Slots -> SlotRecord] /\ slots'[t] = y /\ \A u \in Slots : u # t => slots'[u] = slots[u]
  BY <1>1, <1>2, <1>3
<1> QED  BY <1>2, <1>4

\* The control endpoint of the device on the port runs one stage, or none.
LEMMA StageSync ==
  ASSUME TypeInv, Sync, DOMAIN buffers = Index, Transferring, RunControl(Own)
  PROVE  Sync'
<1> DEFINE ring == rings[deviceCount]
           put  == devices[deviceCount].put
           at   == Reading(ring, slots[Own].control)
           w    == OwnWork
<1>0. /\ step \in Transfers /\ step # "poll" /\ step \notin Commands /\ step \in Configuring
      /\ phase = "wait"
  BY DEF Transferring, Transfers, Reads, Commands, Configuring
<1>1. BringUpInv /\ Common /\ SlotsInv
  BY <1>0 DEF Sync, Common
<1>2. /\ Own \in Slots /\ slots[Own].ring = deviceCount /\ deviceCount \in Index
  BY <1>0, <1>1, OwnRing, CountIsIndex
<1>3. /\ slots[Own].control \in Cursors /\ slots[Own].request \in Requests /\ step \in Requests
      /\ slots[Own].controlOn /\ slots[Own].port = port
      /\ put \in Cursors /\ Linked(ring) /\ Current(ring, put)
      /\ Ahead(ring, slots[Own].control, put)
      /\ w = Work(ring, slots[Own].control, put)
  BY <1>0, <1>1, <1>2 DEF TypeInv, TableInv, DeviceRecord, Common, RingsInv, SlotsInv, SlotRecord,
                          BringUpInv, HeldInv, TransferInv, OwnWork, RunControl, Requests
<1>4. /\ at \in Cursors /\ Ahead(ring, at, put)
      /\ Work(ring, at, put) = w
      /\ Owned(ring, at) <=> w # <<>>
      /\ Owned(ring, at) =>
           /\ Past(at) \in Cursors
           /\ Ahead(ring, Past(at), put)
           /\ ring[at.at].trb = Head(w)
           /\ Work(ring, Past(at), put) = Tail(w)
  BY <1>3, ReadingTakesHead
<1>5. /\ UNCHANGED <<step, phase, port, board, devices, deviceCount, rings, commands, commandPut,
                     commandAt, inputContext>>
      /\ UNCHANGED eventRead
  BY DEF RunControl, scan, table
<1>6. /\ SetupStage' = SetupStage /\ DataStage' = DataStage /\ StatusStage' = StatusStage
      /\ Own' = Own /\ put' = put /\ ring' = ring /\ Transferring'
  BY <1>5, <1>0 DEF SetupStage, DataStage, StatusStage, Tag, Own, Transferring
<1>7. /\ \/ /\ Answers = {}
            /\ w = IF step \in Reads THEN <<SetupStage, DataStage, StatusStage>>
                         ELSE <<SetupStage, StatusStage>>
         \/ /\ Answers = {} /\ step \in Reads /\ w = <<DataStage, StatusStage>>
            /\ slots[Own].request = step
         \/ Answers = {} /\ w = <<StatusStage>> /\ Filled
         \/ Answers # {} /\ w = <<>> /\ Filled
      /\ OneAnswer
  BY <1>1 DEF BringUpInv, TransferInv
<1> HIDE DEF w, at
<1>8. \/ /\ ~Owned(ring, at)
         /\ slots' = [slots EXCEPT ![Own].control = at, ![Own].controlOn = FALSE]
         /\ UNCHANGED <<buffers, eventRing>>
      \/ /\ Owned(ring, at) /\ ring[at.at].trb.op = "setup"
         /\ slots' = [[slots EXCEPT ![Own].control = Past(at)] EXCEPT
                        ![Own].request = ring[at.at].trb.request]
         /\ UNCHANGED <<buffers, eventRing>>
      \/ /\ Owned(ring, at) /\ ring[at.at].trb.op = "data"
         /\ slots' = [slots EXCEPT ![Own].control = Past(at)]
         /\ buffers' = [buffers EXCEPT ![ring[at.at].trb.buffer] =
                          Content(slots[Own].port, slots[Own].request, 0)]
         /\ UNCHANGED eventRing
      \/ /\ Owned(ring, at) /\ ring[at.at].trb.op = "status"
         /\ slots' = [slots EXCEPT ![Own].control = Past(at)]
         /\ Post(Transfer(Own, TRUE, ring[at.at].trb.tag))
         /\ UNCHANGED buffers
  BY <1>2 DEF RunControl, at
<1>9. ASSUME NEW x \in Cursors, NEW r \in Requests, NEW on \in BOOLEAN,
             slots' = [slots EXCEPT ![Own] = Moved(slots[Own], x, on, r)],
             Ahead(ring, x, put),
             \A u \in Slots : u # Own => ReportsOf(u)' = ReportsOf(u),
             OneAnswer',
             \/ Answers' = {} /\ step \in Reads /\ r = step
                /\ Work(ring, x, put) = <<DataStage, StatusStage>>
             \/ Answers' = {} /\ Work(ring, x, put) = <<StatusStage>> /\ Filled'
             \/ Answers' # {} /\ Work(ring, x, put) = <<>> /\ Filled'
      PROVE  Sync'
  <2> HIDE DEF ring, put
  <2>1. /\ slots' \in [Slots -> SlotRecord]
        /\ \A u \in Slots : u # Own => slots'[u] = slots[u]
        /\ \A u \in Slots : /\ slots'[u].used = slots[u].used /\ slots'[u].ring = slots[u].ring
                            /\ slots'[u].port = slots[u].port
                            /\ slots'[u].report = slots[u].report
                            /\ slots'[u].reportOn = slots[u].reportOn
        /\ slots'[Own].control = x
    <3>1. /\ SlotsInv /\ Own \in Slots
          /\ x \in Cursors /\ r \in Requests /\ on \in BOOLEAN
      BY <1>1, <1>2, <1>9
    <3>2. slots' = [slots EXCEPT ![Own] = Moved(slots[Own], x, on, r)]
      BY <1>9
    <3> QED  BY <3>1, <3>2, StageMoves
  <2>0. slots'[Own].request = r
    <3> DEFINE z == slots[Own]
               y == Moved(z, x, on, r)
    <3>1. z \in SlotRecord /\ y = [z EXCEPT !.control = x, !.controlOn = on, !.request = r]
      BY <1>1, <1>2 DEF SlotsInv, Moved
    <3>2. slots'[Own] = y
      BY <1>1, <1>2, <1>9 DEF SlotsInv
    <3> HIDE DEF z, y
    <3>3. y.request = r
      BY <3>1 DEF SlotRecord
    <3> QED  BY <3>2, <3>3
  <2>2. OwnWork' = Work(ring, x, put) /\ Ahead(rings[deviceCount], slots[Own].control, put)'
    BY <1>5, <1>6, <1>9, <2>1 DEF OwnWork, ring, put
  <2>3. TransferInv'
    BY <1>0, <1>5, <1>6, <1>9, <2>0, <2>1, <2>2 DEF TransferInv, put
  <2> QED  BY <1>5, <1>9, <2>1, <2>3, StageFrame
<1>10. UNCHANGED eventRing => /\ Answers' = Answers /\ events' = events
                              /\ \A u \in Slots : ReportsOf(u)' = ReportsOf(u)
  BY <1>5, UnreadSame
<1>11. Answers = {} /\ Answers' = {} => OneAnswer'
  BY DEF OneAnswer
<1>12. CASE w = IF step \in Reads THEN <<SetupStage, DataStage, StatusStage>>
                ELSE <<SetupStage, StatusStage>>
  <2>1. /\ w # <<>> /\ Head(w) = SetupStage
        /\ Tail(w) = IF step \in Reads THEN <<DataStage, StatusStage>> ELSE <<StatusStage>>
    BY <1>12
  <2>2. /\ Owned(ring, at) /\ ring[at.at].trb.op = "setup" /\ ring[at.at].trb.request = step
    BY <1>4, <2>1 DEF SetupStage
  <2>3. /\ slots' = [[slots EXCEPT ![Own].control = Past(at)] EXCEPT ![Own].request = step]
        /\ UNCHANGED <<buffers, eventRing>>
    BY <1>8, <2>2
  <2>4. slots' = [slots EXCEPT ![Own] = Moved(slots[Own], Past(at), slots[Own].controlOn, step)]
    BY <1>1, <1>2, <2>3 DEF SlotsInv, SlotRecord, Moved
  <2>5. slots[Own].controlOn \in BOOLEAN
    BY <1>1, <1>2 DEF SlotsInv, SlotRecord
  <2>6. Answers = {} /\ Answers' = {} /\ OneAnswer'
    BY <1>7, <1>10, <1>11, <1>12, <2>1, <2>3
  <2>7. step \notin Reads => Filled'
    BY <1>5 DEF Filled
  <2> QED  BY <1>0, <1>3, <1>4, <1>9, <1>10, <2>1, <2>2, <2>3, <2>4, <2>5, <2>6, <2>7
<1>13. CASE w = <<DataStage, StatusStage>> /\ step \in Reads /\ slots[Own].request = step
  <2>1. w # <<>> /\ Head(w) = DataStage /\ Tail(w) = <<StatusStage>>
    BY <1>13
  <2>2. /\ Owned(ring, at) /\ ring[at.at].trb.op = "data" /\ ring[at.at].trb.buffer = deviceCount
    BY <1>4, <2>1 DEF DataStage, BufferOf
  <2>3. /\ slots' = [slots EXCEPT ![Own].control = Past(at)]
        /\ buffers' = [buffers EXCEPT ![deviceCount] = Content(port, step, 0)]
        /\ UNCHANGED eventRing
    BY <1>3, <1>8, <1>13, <2>2
  <2>4. slots' = [slots EXCEPT ![Own] = Moved(slots[Own], Past(at), slots[Own].controlOn, step)]
    BY <1>1, <1>2, <1>13, <2>3 DEF SlotsInv, SlotRecord, Moved
  <2>5. slots[Own].controlOn \in BOOLEAN
    BY <1>1, <1>2 DEF SlotsInv, SlotRecord
  <2>6. Answers = {} /\ Answers' = {} /\ OneAnswer'
    BY <1>7, <1>10, <1>11, <1>13, <2>1, <2>3
  <2>7. Filled'
    BY <1>2, <1>5, <2>3 DEF Filled
  <2> QED  BY <1>0, <1>3, <1>4, <1>9, <1>10, <2>1, <2>2, <2>3, <2>4, <2>5, <2>6, <2>7
<1>14. CASE w = <<StatusStage>> /\ Filled
  <2>1. w # <<>> /\ Head(w) = StatusStage /\ Tail(w) = <<>>
    BY <1>14
  <2>2. /\ Owned(ring, at) /\ ring[at.at].trb.op = "status" /\ ring[at.at].trb.tag = Tag
    BY <1>4, <2>1 DEF StatusStage
  <2>3. /\ slots' = [slots EXCEPT ![Own].control = Past(at)]
        /\ Post(Transfer(Own, TRUE, Tag))
        /\ UNCHANGED buffers
    BY <1>8, <2>2
  <2>4. slots' = [slots EXCEPT ![Own] = Moved(slots[Own], Past(at), slots[Own].controlOn, slots[Own].request)]
    BY <1>1, <1>2, <2>3 DEF SlotsInv, SlotRecord, Moved
  <2>5. slots[Own].controlOn \in BOOLEAN
    BY <1>1, <1>2 DEF SlotsInv, SlotRecord
  <2> DEFINE event == Transfer(Own, TRUE, Tag)
  <2>6. event.op = "transfer" /\ event.slot = Own /\ event.tag = Tag /\ event.ok = TRUE
    BY DEF Transfer
  <2> HIDE DEF event
  <2>7. Post(event)
    BY <2>3 DEF event
  <2>8. /\ Answers' = IF event.op # "port" THEN Answers \cup {eventPut.at} ELSE Answers
        /\ eventPut.at \notin Answers /\ events'[eventPut.at].trb = event
        /\ \A k \in Answers : events'[k].trb = events[k].trb
        /\ \A s : ReportsOf(s)' = IF event.op = "transfer" /\ event.slot = s
                                    THEN ReportsOf(s) \cup {eventPut.at} ELSE ReportsOf(s)
        /\ \A s : eventPut.at \notin ReportsOf(s)
    BY <1>5, <2>7, AnswersPosted
  <2>9. PICK k : k = eventPut.at
    OBVIOUS
  <2>10. Answers' = {k} /\ events'[k].trb = event /\ \A u \in Slots : u # Own => ReportsOf(u)' = ReportsOf(u)
    BY <1>7, <1>14, <2>1, <2>6, <2>8, <2>9
  <2>11. AnswerIs(events[k].trb)'
    BY <1>0, <1>5, <2>6, <2>10 DEF AnswerIs, Wanted, Tag, Commands, Transfers, Reads
  <2>12. OneAnswer'
    BY <1>0, <1>5, <2>10, <2>11 DEF OneAnswer
  <2>13. Filled'
    BY <1>5, <1>14, <2>3 DEF Filled
  <2> QED  BY <1>3, <1>4, <1>9, <2>1, <2>2, <2>4, <2>5, <2>10, <2>12, <2>13
<1>15. CASE w = <<>> /\ Filled /\ Answers # {}
  <2>1. ~Owned(ring, at)
    BY <1>4, <1>15
  <2>2. /\ slots' = [slots EXCEPT ![Own].control = at, ![Own].controlOn = FALSE]
        /\ UNCHANGED <<buffers, eventRing>>
    BY <1>8, <2>1
  <2>3. slots' = [slots EXCEPT ![Own] = Moved(slots[Own], at, FALSE, slots[Own].request)]
    BY <1>1, <1>2, <2>2 DEF SlotsInv, SlotRecord, Moved
  <2>4. Answers' = Answers /\ events' = events /\ \A u \in Slots : ReportsOf(u)' = ReportsOf(u)
    BY <1>10, <2>2
  <2>5. PICK k \in Answers : Answers = {k} /\ AnswerIs(events[k].trb)
    BY <1>7, <1>15 DEF OneAnswer
  <2>6. AnswerIs(events[k].trb)'
    BY <1>0, <1>5, <2>4, <2>5 DEF AnswerIs, Wanted, Tag, Commands, Transfers, Reads
  <2>7. OneAnswer'
    BY <1>0, <1>5, <2>4, <2>5, <2>6 DEF OneAnswer
  <2>8. Filled'
    BY <1>5, <1>15, <2>2 DEF Filled
  <2> QED  BY <1>3, <1>4, <1>9, <1>15, <2>3, <2>4, <2>7, <2>8
<1> QED  BY <1>7, <1>12, <1>13, <1>14, <1>15

\* A step of a control endpoint.
LEMMA RunControlSync ==
  ASSUME TypeInv, Sync, DOMAIN buffers = Index, NEW t \in Slots, RunControl(t)
  PROVE  Sync'
<1>1. CASE Transferring /\ t = Own
  BY <1>1, StageSync
<1>2. CASE ~(Transferring /\ t = Own)
  BY <1>2, RestSync
<1> QED  BY <1>1, <1>2

\* One more entry that is not a stage gives a control endpoint nothing to run.
LEMMA QuietAfterQueue ==
  ASSUME NEW ring, NEW put \in Cursors, NEW c \in Cursors, NEW trb, NEW q,
         trb # Link, trb.op \notin Stages, Linked(ring), QuietOn(ring, c),
         q = Put(ring, put, trb)
  PROVE  QuietOn(q.ring, c)
<1>1. /\ put.at \in 0 .. RingLen - 1 /\ put.at \in Int /\ put.cycle \in {0, 1}
      /\ c.at \in 0 .. RingLen - 1 /\ c.at \in Int /\ c.cycle \in {0, 1}
      /\ RingLen \in Nat /\ RingLen > 3
  BY CursorIs
<1>2. StartOver(c).at = 0 /\ 0 \in Positions /\ c.at \in Positions /\ Link.op \notin Stages
  BY <1>1 DEF StartOver, Positions, Link, Stages
<1>3. \A k \in Positions : k # RingLen - 1 => ring[k].trb # Link
  BY DEF Linked
<1>4. CASE put.at < RingLen - 1
  <2>1. /\ q.cursor \in Cursors /\ DOMAIN q.ring = Positions
        /\ q.cursor = [at |-> put.at + 1, cycle |-> put.cycle]
        /\ \A k \in Positions :
             q.ring[k] = IF k = put.at THEN [trb |-> trb, cycle |-> put.cycle] ELSE ring[k]
    BY <1>4, QueueOn DEF Linked
  <2>2. CASE c.at = put.at
    <3>1. q.ring[c.at].trb = trb
      BY <1>2, <2>1, <2>2
    <3>2. Reading(q.ring, c) = c
      BY <3>1 DEF Reading
    <3> QED  BY <3>1, <3>2 DEF QuietOn
  <2>3. CASE c.at # put.at
    <3>1. q.ring[c.at] = ring[c.at]
      BY <1>2, <2>1, <2>3
    <3>2. Reading(q.ring, c) = Reading(ring, c)
      BY <3>1 DEF Reading, Owned
    <3>3. Reading(ring, c).at \in Positions
      BY <1>2 DEF Reading
    <3>4. CASE Reading(ring, c).at = put.at
      <4>1. q.ring[Reading(ring, c).at].trb = trb
        BY <2>1, <3>3, <3>4
      <4> QED  BY <3>2, <4>1 DEF QuietOn
    <3>5. CASE Reading(ring, c).at # put.at
      <4>1. q.ring[Reading(ring, c).at] = ring[Reading(ring, c).at]
        BY <2>1, <3>3, <3>5
      <4> QED  BY <3>2, <4>1 DEF QuietOn, Owned
    <3> QED  BY <3>4, <3>5
  <2> QED  BY <2>2, <2>3
<1>5. CASE put.at = RingLen - 1
  <2>1. /\ q.cursor \in Cursors /\ DOMAIN q.ring = Positions
        /\ q.cursor = [at |-> 1, cycle |-> 1 - put.cycle]
        /\ \A k \in Positions :
             q.ring[k] = IF k = 0 THEN [trb |-> trb, cycle |-> 1 - put.cycle]
                         ELSE IF k = RingLen - 1 THEN [trb |-> Link, cycle |-> put.cycle]
                         ELSE ring[k]
    BY <1>5, QueueOver DEF Linked
  <2>2. q.ring[0].trb = trb
    BY <1>2, <2>1
  <2>3. CASE c.at = RingLen - 1
    <3>1. q.ring[c.at].trb = Link
      BY <1>1, <1>2, <2>1, <2>3
    <3>2. Owned(q.ring, c) => Reading(q.ring, c) = StartOver(c)
      BY <3>1 DEF Reading
    <3>3. ~Owned(q.ring, c) => Reading(q.ring, c) = c
      BY DEF Reading
    <3>4. CASE Owned(q.ring, c)
      BY <1>2, <2>2, <3>2, <3>4 DEF QuietOn
    <3>5. CASE ~Owned(q.ring, c)
      BY <3>3, <3>5 DEF QuietOn
    <3> QED  BY <3>4, <3>5
  <2>4. CASE c.at = 0
    <3>1. Reading(q.ring, c) = c
      BY <2>2, <2>4 DEF Reading
    <3> QED  BY <2>2, <2>4, <3>1 DEF QuietOn
  <2>5. CASE c.at # 0 /\ c.at # RingLen - 1
    <3>1. q.ring[c.at] = ring[c.at] /\ ring[c.at].trb # Link
      BY <1>2, <1>3, <2>1, <2>5
    <3>2. Reading(q.ring, c) = c /\ Reading(ring, c) = c
      BY <3>1 DEF Reading
    <3> QED  BY <3>1, <3>2 DEF QuietOn, Owned
  <2> QED  BY <2>3, <2>4, <2>5
<1> QED  BY <1>1, <1>4, <1>5

\* An entry run is one less to run.
LEMMA OneLess ==
  ASSUME NEW ring, NEW put \in Cursors, NEW c \in Cursors, NEW at,
         Linked(ring), Current(ring, put), Ahead(ring, c, put), at = Reading(ring, c)
  PROVE  /\ at \in Cursors /\ Ahead(ring, at, put)
         /\ Work(ring, at, put) = Work(ring, c, put)
         /\ Len(Work(ring, c, put)) \in Nat
         /\ Owned(ring, at) =>
              /\ Past(at) \in Cursors /\ Ahead(ring, Past(at), put)
              /\ Len(Work(ring, Past(at), put)) = Len(Work(ring, c, put)) - 1
<1>1. /\ at \in Cursors /\ Ahead(ring, at, put)
      /\ Work(ring, at, put) = Work(ring, c, put)
      /\ Owned(ring, at) <=> Work(ring, c, put) # <<>>
      /\ Owned(ring, at) =>
           /\ at.at < RingLen - 1 /\ Past(at) \in Cursors
           /\ Ahead(ring, Past(at), put)
           /\ ring[at.at].trb = Head(Work(ring, c, put))
           /\ Work(ring, Past(at), put) = Tail(Work(ring, c, put))
  BY ReadingTakesHead
<1>2. Len(Work(ring, at, put)) = InFlight(at, put) /\ InFlight(at, put) \in 0 .. RingLen - 1
  BY <1>1, WorkIs
<1>3. ASSUME Owned(ring, at)
      PROVE  Len(Work(ring, Past(at), put)) = InFlight(at, put) - 1
  <2>1. Past(at) \in Cursors /\ Ahead(ring, Past(at), put) /\ at.at < RingLen - 1
    BY <1>1, <1>3
  <2>2. Len(Work(ring, Past(at), put)) = InFlight(Past(at), put)
    BY <2>1, WorkIs
  <2>3. Past(at).at = at.at + 1 /\ Past(at).cycle = at.cycle
    BY <1>1, <2>1, PastIs
  <2>4. at.at \in Int /\ put.at \in Int /\ RingLen \in Nat
    BY <1>1, CursorIs
  <2> QED  BY <2>2, <2>3, <2>4 DEF InFlight
<1>4. Len(Work(ring, c, put)) \in Nat
  BY <1>1, <1>2, XhciAssumption
<1> QED  BY <1>1, <1>2, <1>3, <1>4

\* The reports on their way are finitely many.
LEMMA ReportsFinite ==
  ASSUME NEW s
  PROVE  IsFiniteSet(ReportsOf(s)) /\ Cardinality(ReportsOf(s)) \in Nat
<1>1. IsFiniteSet(Positions)
  BY XhciAssumption, FS_Interval DEF Positions
<1>2. ReportsOf(s) \subseteq Positions
  BY DEF ReportsOf, Unread
<1> QED  BY <1>1, <1>2, FS_Subset, FS_CardinalityType

\* A device in use is the only one of its slot, and it alone is on its ring.
LEMMA OneSlotEach ==
  ASSUME TypeInv, Common, step = "poll", NEW i \in 0 .. deviceCount - 1
  PROVE  /\ i \in Index /\ i # deviceCount /\ devices[i].slot \in Slots
         /\ slots[devices[i].slot].ring = i /\ slots[devices[i].slot].used
         /\ slots[devices[i].slot] \in SlotRecord /\ devices[i].put \in Cursors
         /\ Linked(rings[i]) /\ Current(rings[i], devices[i].put)
         /\ \A j \in 0 .. deviceCount - 1 : j # i => devices[j].slot # devices[i].slot
         /\ \A u \in Slots : slots[u].ring = i => u = devices[i].slot
<1>1. i \in Index /\ i \in Int /\ i # deviceCount
  BY XhciAssumption DEF TypeInv, TableInv, Index
<1>2. /\ devices[i].slot \in Slots /\ slots[devices[i].slot].used
      /\ slots[devices[i].slot].ring = i /\ Current(rings[i], devices[i].put)
  BY DEF Common, DevicesInv, Known
<1>3. slots[devices[i].slot] \in SlotRecord
  BY <1>2 DEF Common, SlotsInv
<1>4. devices[i].put \in Cursors /\ Linked(rings[i])
  BY <1>1 DEF TypeInv, TableInv, DeviceRecord, Common, RingsInv
<1>5. \A j \in 0 .. deviceCount - 1 : slots[devices[j].slot].ring = j
  BY DEF Common, DevicesInv, Known
<1>6. \A j \in 0 .. deviceCount - 1 : j # i => devices[j].slot # devices[i].slot
  BY <1>5
<1>7. ASSUME NEW u \in Slots, slots[u].ring = i PROVE u = devices[i].slot
  <2>1. slots[u].ring # None
    BY <1>7, <1>1 DEF None
  <2> QED  BY <1>1, <1>7, <2>1 DEF Common, OwnersInv, Owner
<1> QED  BY <1>1, <1>2, <1>3, <1>4, <1>6, <1>7

\* A slot with a working report endpoint is that of a device in use.
LEMMA RunningIsPolled ==
  ASSUME TypeInv, Sync, NEW t \in Slots, slots[t].reportOn \in {"running", "halted"}
  PROVE  /\ step = "poll" /\ slots[t].ring \in 0 .. deviceCount - 1
         /\ devices[slots[t].ring].slot = t
<1>1. step = "poll"
  <2> SUFFICES ASSUME step # "poll" PROVE FALSE
    OBVIOUS
  <2>1. slots[t].reportOn \in {"off", "idle"}
    BY DEF Sync, BringUpInv, UnarmedInv
  <2> QED  BY <2>1
<1>2. slots[t].ring # None
  BY DEF Sync, Common, SlotsInv
<1>3. ~Addressed
  BY <1>1 DEF Addressed, Configuring, Transfers, Reads
<1> QED  BY <1>1, <1>2, <1>3 DEF Sync, Common, OwnersInv, Owner

\* What a step while polling leaves as it was.
LEMMA PollFrame ==
  ASSUME TypeInv, Sync, step = "poll",
         UNCHANGED <<step, port, board, deviceCount, commands, commandPut, commandAt>>,
         SlotsInv', RingsInv', DevicesInv', QuietInv', PollInv',
         \A u \in Slots : /\ slots'[u].ring = slots[u].ring
                          /\ slots[u].reportOn = "off" => slots'[u].reportOn = "off",
         \A i \in 0 .. deviceCount - 1 : devices'[i].slot = devices[i].slot
  PROVE  Sync'
<1>1. step \notin Commands /\ step \notin Configuring /\ step # "address"
  BY DEF Commands, Configuring, Transfers, Reads
<1>2. CommandRing'
  BY <1>1 DEF Sync, Common, CommandRing
<1>3. ~Addressed /\ (Passed' <=> Passed)
  BY <1>1 DEF Addressed, Passed
<1>4. OwnersInv'
  <2> SUFFICES ASSUME NEW u \in Slots, slots[u].ring # None PROVE Owner(u)'
    BY DEF OwnersInv
  <2>1. Owner(u)
    BY DEF Sync, Common, OwnersInv
  <2>2. \/ slots[u].ring \in 0 .. deviceCount - 1 /\ devices[slots[u].ring].slot = u
        \/ slots[u].ring = deviceCount /\ Passed /\ step \notin Configuring /\ slots[u].reportOn = "off"
    BY <1>3, <2>1 DEF Owner
  <2> QED  BY <1>3, <2>2 DEF Owner
<1> QED  BY <1>2, <1>4 DEF Sync, Common

ReportStates == {"off", "idle", "running", "halted"}

\* A slot goes on with its reports.
Reached(z, x, on) == [z EXCEPT !.report = x, !.reportOn = on]

\* What it leaves as it was.
LEMMA ReportReaches ==
  ASSUME NEW z \in SlotRecord, NEW x \in Cursors, NEW on \in ReportStates
  PROVE  /\ Reached(z, x, on) \in SlotRecord
         /\ Reached(z, x, on).report = x /\ Reached(z, x, on).reportOn = on
         /\ Reached(z, x, on).used = z.used /\ Reached(z, x, on).ring = z.ring
         /\ Reached(z, x, on).control = z.control /\ Reached(z, x, on).controlOn = z.controlOn
BY DEF SlotRecord, ReportStates, Reached

\* One device's reports go on, and nothing else.
LEMMA ReportFrame ==
  ASSUME NEW i \in 0 .. deviceCount - 1, NEW x \in Cursors, NEW on \in ReportStates,
         TypeInv, Sync, step = "poll",
         UNCHANGED <<step, port, board, devices, deviceCount, rings, commands, commandPut, commandAt>>,
         slots' = [slots EXCEPT ![devices[i].slot] = Reached(slots[devices[i].slot], x, on)],
         slots[devices[i].slot].reportOn # "off",
         \A u \in Slots : u # devices[i].slot => ReportsOf(u)' = ReportsOf(u),
         slots'[devices[i].slot].report = x /\ slots'[devices[i].slot].reportOn = on =>
           (Flowing(i) \/ Stuck(i) \/ Halted(i))'
  PROVE  Sync'
<1> DEFINE t == devices[i].slot
<1>1. Common /\ SlotsInv /\ PollInv
  BY DEF Sync, Common
<1>2. /\ i \in Index /\ i # deviceCount /\ t \in Slots
      /\ slots[t].ring = i /\ slots[t].used
      /\ slots[t] \in SlotRecord /\ devices[i].put \in Cursors
      /\ Linked(rings[i]) /\ Current(rings[i], devices[i].put)
      /\ \A j \in 0 .. deviceCount - 1 : j # i => devices[j].slot # t
      /\ \A u \in Slots : slots[u].ring = i => u = t
  BY <1>1, OneSlotEach
<1> HIDE DEF t
<1>3. slots' = [slots EXCEPT ![t] = Reached(slots[t], x, on)]
  BY DEF t
<1>4. /\ slots' \in [Slots -> SlotRecord]
      /\ \A u \in Slots : u # t => slots'[u] = slots[u]
      /\ \A u \in Slots : /\ slots'[u].used = slots[u].used /\ slots'[u].ring = slots[u].ring
                          /\ slots'[u].control = slots[u].control
                          /\ slots'[u].controlOn = slots[u].controlOn
      /\ slots'[t].report = x /\ slots'[t].reportOn = on
  <2> DEFINE y == Reached(slots[t], x, on)
  <2>1. /\ y \in SlotRecord /\ y.report = x /\ y.reportOn = on
        /\ y.used = slots[t].used /\ y.ring = slots[t].ring
        /\ y.control = slots[t].control /\ y.controlOn = slots[t].controlOn
    <3>1. slots[t] \in SlotRecord /\ x \in Cursors /\ on \in ReportStates
      BY <1>2
    <3> DEFINE z == slots[t]
    <3>2. z \in SlotRecord
      BY <3>1
    <3> HIDE DEF z
    <3>3. /\ Reached(z, x, on) \in SlotRecord
          /\ Reached(z, x, on).report = x /\ Reached(z, x, on).reportOn = on
          /\ Reached(z, x, on).used = z.used /\ Reached(z, x, on).ring = z.ring
          /\ Reached(z, x, on).control = z.control /\ Reached(z, x, on).controlOn = z.controlOn
      BY <3>1, <3>2, ReportReaches
    <3> QED  BY <3>3 DEF z
  <2>2. slots \in [Slots -> SlotRecord] /\ slots' = [slots EXCEPT ![t] = y]
    BY <1>1, <1>3 DEF SlotsInv
  <2> HIDE DEF y
  <2>3. slots' \in [Slots -> SlotRecord] /\ slots'[t] = y /\ \A u \in Slots : u # t => slots'[u] = slots[u]
    <3>1. t \in Slots /\ y \in SlotRecord
      BY <1>2, <2>1
    <3>2. slots'[t] = y /\ \A u \in Slots : u # t => slots'[u] = slots[u]
      BY <2>2, <3>1
    <3> QED  BY <2>2, <3>1, <3>2, ChangedAt
  <2> QED  BY <2>1, <2>3
<1>5. SlotsInv'
  <2>1. slots'[t].used /\ slots'[t].ring # None
    BY <1>2, <1>4 DEF Index, None
  <2> QED  BY <1>1, <1>4, <2>1 DEF SlotsInv
<1>6. RingsInv' /\ DevicesInv'
  BY <1>1, <1>4 DEF Common, RingsInv, DevicesInv, Known
<1>7. QuietInv'
  <2> SUFFICES ASSUME NEW u \in Slots, slots'[u].ring # None, ~(Transferring /\ u = Own)'
               PROVE  QuietOn(rings'[slots'[u].ring], slots'[u].control)
    BY DEF QuietInv
  <2>1. ~(Transferring /\ u = Own)
    BY DEF Transferring, Transfers, Reads
  <2> QED  BY <1>1, <1>4, <2>1 DEF Common, QuietInv
<1>8. PollInv'
  <2> SUFFICES ASSUME NEW j \in 0 .. deviceCount - 1
               PROVE  (Unarmed(j) \/ Flowing(j) \/ Stuck(j) \/ Halted(j))'
    BY DEF PollInv
  <2>1. CASE j = i
    BY <1>4, <2>1 DEF t
  <2>2. CASE j # i
    <3>1. devices[j].slot # t /\ devices[j].slot \in Slots
      BY <1>1, <1>2, <2>2 DEF Common, DevicesInv, Known
    <3>2. slots'[devices[j].slot] = slots[devices[j].slot]
          /\ ReportsOf(devices[j].slot)' = ReportsOf(devices[j].slot)
      BY <1>4, <3>1 DEF t
    <3>3. Unarmed(j) \/ Flowing(j) \/ Stuck(j) \/ Halted(j)
      BY <1>1 DEF PollInv
    <3> QED  BY <3>2, <3>3 DEF Unarmed, Flowing, Stuck, Halted
  <2> QED  BY <2>1, <2>2
<1>9. \A u \in Slots : slots[u].reportOn = "off" => slots'[u].reportOn = "off"
  BY <1>4 DEF t
<1> QED  BY <1>4, <1>5, <1>6, <1>7, <1>8, <1>9, PollFrame

\* A step of a report endpoint: what it takes off its ring and what it posts
\* make up for each other.
LEMMA RunReportSync ==
  ASSUME NEW t \in Slots, TypeInv, Sync, RunReport(t)
  PROVE  Sync'
<1>1. slots[t].reportOn = "running"
  BY DEF RunReport
<1>0. /\ step = "poll" /\ slots[t].ring \in 0 .. deviceCount - 1
      /\ devices[slots[t].ring].slot = t
  BY <1>1, RunningIsPolled
<1>01. PICK i \in 0 .. deviceCount - 1 : i = slots[t].ring
  BY <1>0
<1> DEFINE ring == rings[i]
           put  == devices[i].put
           c    == slots[t].report
           at   == Reading(ring, c)
<1>2. step = "poll" /\ i \in 0 .. deviceCount - 1 /\ devices[i].slot = t
  BY <1>0, <1>01
<1>3. Common /\ PollInv /\ SlotsInv
  BY <1>2 DEF Sync, Common
<1>4. /\ i \in Index /\ i # deviceCount /\ devices[i].slot \in Slots
      /\ slots[devices[i].slot].ring = i /\ slots[devices[i].slot].used
      /\ slots[devices[i].slot] \in SlotRecord /\ devices[i].put \in Cursors
      /\ Linked(rings[i]) /\ Current(rings[i], devices[i].put)
      /\ \A j \in 0 .. deviceCount - 1 : j # i => devices[j].slot # devices[i].slot
      /\ \A u \in Slots : slots[u].ring = i => u = devices[i].slot
  BY <1>2, <1>3, OneSlotEach
<1>5. c \in Cursors /\ at \in Cursors
  BY <1>2, <1>4, ReadingTyped DEF SlotRecord
<1> HIDE DEF at
<1>6. /\ UNCHANGED <<step, port, board, devices, deviceCount, rings, commands, commandPut, commandAt>>
      /\ UNCHANGED eventRead
  BY DEF RunReport, scan, table
<1>7. Flowing(i) \/ Stuck(i)
  <2>1. Unarmed(i) \/ Flowing(i) \/ Stuck(i) \/ Halted(i)
    BY <1>2, <1>3 DEF PollInv
  <2>2. ~Unarmed(i) /\ ~Halted(i)
    BY <1>1, <1>2 DEF Unarmed, Halted
  <2> QED  BY <2>1, <2>2
<1>8. ASSUME NEW x \in Cursors, NEW on \in ReportStates,
             slots' = [slots EXCEPT ![t] = Reached(slots[t], x, on)],
             \A u \in Slots : u # t => ReportsOf(u)' = ReportsOf(u),
             slots'[t].report = x /\ slots'[t].reportOn = on => (Flowing(i) \/ Stuck(i) \/ Halted(i))'
      PROVE  Sync'
  <2>1. slots' = [slots EXCEPT ![devices[i].slot] = Reached(slots[devices[i].slot], x, on)]
    BY <1>2, <1>8
  <2>2. x \in Cursors /\ on \in ReportStates
    BY <1>8
  <2>3. slots'[devices[i].slot].report = x /\ slots'[devices[i].slot].reportOn = on =>
          (Flowing(i) \/ Stuck(i) \/ Halted(i))'
    BY <1>2, <1>8
  <2>4. /\ slots[devices[i].slot].reportOn # "off"
        /\ \A u \in Slots : u # devices[i].slot => ReportsOf(u)' = ReportsOf(u)
    BY <1>1, <1>2, <1>8
  <2> QED  BY <1>2, <1>6, <2>1, <2>2, <2>3, <2>4, ReportFrame
<1>9. UNCHANGED eventRing => \A u \in Slots : ReportsOf(u)' = ReportsOf(u)
  BY <1>6, UnreadSame
<1>10. ASSUME NEW ok, Post(Transfer(t, ok, Report))
       PROVE  /\ \A u \in Slots : u # t => ReportsOf(u)' = ReportsOf(u)
              /\ Cardinality(ReportsOf(t)') = Cardinality(ReportsOf(t)) + 1
  <2> DEFINE event == Transfer(t, ok, Report)
  <2>1. event.op = "transfer" /\ event.slot = t
    BY DEF Transfer
  <2> HIDE DEF event
  <2>2. Post(event)
    BY <1>10 DEF event
  <2>3. /\ Answers' = IF event.op # "port" THEN Answers \cup {eventPut.at} ELSE Answers
        /\ eventPut.at \notin Answers /\ events'[eventPut.at].trb = event
        /\ \A k \in Answers : events'[k].trb = events[k].trb
        /\ \A s : ReportsOf(s)' = IF event.op = "transfer" /\ event.slot = s
                                    THEN ReportsOf(s) \cup {eventPut.at} ELSE ReportsOf(s)
        /\ \A s : eventPut.at \notin ReportsOf(s)
    BY <1>6, <2>2, AnswersPosted
  <2>4. ReportsOf(t)' = ReportsOf(t) \cup {eventPut.at} /\ eventPut.at \notin ReportsOf(t)
    BY <2>1, <2>3
  <2>5. Cardinality(ReportsOf(t) \cup {eventPut.at}) = Cardinality(ReportsOf(t)) + 1
    BY <2>4, ReportsFinite, FS_AddElement
  <2> QED  BY <2>1, <2>3, <2>4, <2>5
<1>11. {"idle", "running", "halted"} \subseteq ReportStates
  BY DEF ReportStates
<1>12. slots[t] \in SlotRecord /\ slots \in [Slots -> SlotRecord]
  BY <1>3 DEF SlotsInv
<1>13. /\ slots' = [slots EXCEPT ![t].report = at, ![t].reportOn = "idle"] =>
            slots' = [slots EXCEPT ![t] = Reached(slots[t], at, "idle")]
       /\ slots' = [slots EXCEPT ![t].report = Past(at)] =>
            slots' = [slots EXCEPT ![t] = Reached(slots[t], Past(at), "running")]
       /\ slots' = [slots EXCEPT ![t].reportOn = "halted"] =>
            slots' = [slots EXCEPT ![t] = Reached(slots[t], c, "halted")]
  BY <1>1, <1>12 DEF Reached, SlotRecord
<1>14. CASE Stuck(i)
  <2>1. c = Origin /\ ~Owned(ring, Origin) /\ devices[i].queued /\ ReportsOf(t) = {}
    BY <1>2, <1>14 DEF Stuck
  <2>2. at = c /\ ~Owned(ring, at)
    BY <2>1 DEF at, Reading
  <2>3. slots' = [slots EXCEPT ![t].report = at, ![t].reportOn = "idle"] /\ UNCHANGED eventRing
    BY <1>01, <2>2 DEF RunReport, at
  <2>4. slots' = [slots EXCEPT ![t] = Reached(slots[t], at, "idle")]
    BY <1>13, <2>3
  <2>5. slots'[t].report = at /\ slots'[t].reportOn = "idle" => Stuck(i)'
    BY <1>2, <1>6, <1>9, <2>1, <2>2, <2>3 DEF Stuck
  <2> QED  BY <1>5, <1>8, <1>9, <1>11, <2>3, <2>4, <2>5
<1>15. CASE Flowing(i)
  <2> DEFINE w == Len(Work(ring, c, put))
             r == Cardinality(ReportsOf(t))
             d == IF devices[i].queued THEN 0 ELSE 1
  <2>1. Ahead(ring, c, put) /\ w + r + d <= RingLen - 1
    BY <1>2, <1>15 DEF Flowing
  <2>2. /\ at \in Cursors /\ Ahead(ring, at, put)
        /\ Work(ring, at, put) = Work(ring, c, put)
        /\ Len(Work(ring, c, put)) \in Nat
        /\ Owned(ring, at) =>
             /\ Past(at) \in Cursors /\ Ahead(ring, Past(at), put)
             /\ Len(Work(ring, Past(at), put)) = Len(Work(ring, c, put)) - 1
    BY <1>4, <1>5, <2>1, OneLess DEF at
  <2>3. r \in Nat /\ d \in Nat /\ RingLen \in Nat
    BY ReportsFinite, XhciAssumption
  <2>4. ASSUME NEW x \in Cursors, NEW on \in {"idle", "running"}, Ahead(ring, x, put),
               Len(Work(ring, x, put)) + Cardinality(ReportsOf(t)') <= w + r,
               Len(Work(ring, x, put)) \in Nat, Cardinality(ReportsOf(t)') \in Nat,
               slots'[t].report = x, slots'[t].reportOn = on
        PROVE  Flowing(i)'
    <3>1. ring' = ring /\ put' = put /\ devices'[i] = devices[i]
      BY <1>6
    <3>2. Len(Work(ring, x, put)) + Cardinality(ReportsOf(t)') + d <= RingLen - 1
      <4> HIDE DEF w, r, d
      <4> QED  BY <2>1, <2>2, <2>3, <2>4 DEF w
    <3>3. devices'[i].slot = t /\ rings'[i] = ring /\ devices'[i].put = put
          /\ devices'[i].queued = devices[i].queued
      BY <1>2, <3>1, <1>6
    <3> HIDE DEF ring, put
    <3> QED  BY <2>4, <3>2, <3>3 DEF Flowing
  <2>5. CASE ~Owned(ring, at)
    <3>1. slots' = [slots EXCEPT ![t].report = at, ![t].reportOn = "idle"] /\ UNCHANGED eventRing
      BY <1>01, <2>5 DEF RunReport, at
    <3>2. slots' = [slots EXCEPT ![t] = Reached(slots[t], at, "idle")]
      BY <1>13, <3>1
    <3>3. Cardinality(ReportsOf(t)') = r
      BY <1>9, <3>1
    <3>4. slots'[t].report = at /\ slots'[t].reportOn = "idle" => Flowing(i)'
      BY <2>2, <2>3, <2>4, <3>3
    <3> QED  BY <1>5, <1>8, <1>9, <1>11, <3>1, <3>2, <3>4
  <2>6. CASE Owned(ring, at)
    <3>1. \/ /\ slots' = [slots EXCEPT ![t].report = Past(at)]
             /\ Post(Transfer(t, TRUE, Report)) \/ UNCHANGED eventRing
          \/ /\ slots' = [slots EXCEPT ![t].reportOn = "halted"]
             /\ Post(Transfer(t, FALSE, Report))
      BY <1>01, <2>6 DEF RunReport, at
    <3>2. CASE slots' = [slots EXCEPT ![t].reportOn = "halted"] /\ Post(Transfer(t, FALSE, Report))
      <4>1. slots' = [slots EXCEPT ![t] = Reached(slots[t], c, "halted")]
        BY <1>13, <3>2
      <4>2. slots'[t].report = c /\ slots'[t].reportOn = "halted" => Halted(i)'
        BY <1>2, <1>6 DEF Halted
      <4> QED  BY <1>5, <1>8, <1>10, <1>11, <3>2, <4>1, <4>2
    <3>3. CASE /\ slots' = [slots EXCEPT ![t].report = Past(at)]
               /\ Post(Transfer(t, TRUE, Report)) \/ UNCHANGED eventRing
      <4>1. slots' = [slots EXCEPT ![t] = Reached(slots[t], Past(at), "running")]
        BY <1>13, <3>3
      <4>2. /\ \A u \in Slots : u # t => ReportsOf(u)' = ReportsOf(u)
            /\ Cardinality(ReportsOf(t)') = r + 1 \/ Cardinality(ReportsOf(t)') = r
        BY <1>9, <1>10, <3>3
      <4>3. Len(Work(ring, Past(at), put)) = w - 1 /\ w - 1 \in Nat
        <5>1. Past(at) \in Cursors /\ Ahead(ring, Past(at), put)
              /\ Len(Work(ring, Past(at), put)) = w - 1
          BY <2>2, <2>6
        <5> DEFINE p == Past(at)
        <5>2. p \in Cursors /\ put \in Cursors /\ Ahead(ring, p, put)
          BY <1>4, <5>1
        <5> HIDE DEF p, ring, put
        <5>3. Len(Work(ring, p, put)) = InFlight(p, put) /\ InFlight(p, put) \in 0 .. RingLen - 1
          BY <5>2, WorkIs
        <5>4. Len(Work(ring, p, put)) \in Nat
          BY <2>3, <5>3
        <5> QED  BY <5>1, <5>4 DEF p
      <4>4. /\ Len(Work(ring, Past(at), put)) + Cardinality(ReportsOf(t)') <= w + r
            /\ Cardinality(ReportsOf(t)') \in Nat
        <5> HIDE DEF w, r
        <5> QED  BY <2>2, <2>3, <4>2, <4>3 DEF w
      <4>5. slots'[t].report = Past(at) /\ slots'[t].reportOn = "running" => Flowing(i)'
        BY <2>2, <2>4, <2>6, <4>3, <4>4
      <4> QED  BY <1>8, <1>11, <2>2, <2>6, <4>1, <4>2, <4>5
    <3> QED  BY <3>1, <3>2, <3>3
  <2> QED  BY <2>5, <2>6
<1> QED  BY <1>7, <1>14, <1>15

\* A step of the driver that puts nothing on a ring.
LEMMA TurnFrame ==
  ASSUME TypeInv, Sync, step = "poll",
         UNCHANGED <<step, port, board, deviceCount, rings, slots, commands, commandPut, commandAt>>,
         \A i \in 0 .. deviceCount - 1 :
           devices'[i].slot = devices[i].slot /\ devices'[i].put = devices[i].put,
         PollInv'
  PROVE  Sync'
<1>1. Common
  BY DEF Sync
<1>2. SlotsInv' /\ RingsInv' /\ DevicesInv'
  BY <1>1 DEF Common, SlotsInv, RingsInv, DevicesInv, Known
<1>3. ~Transferring /\ ~Transferring'
  BY DEF Transferring, Transfers, Reads
<1>4. QuietInv'
  BY <1>1, <1>3 DEF Common, QuietInv
<1> QED  BY <1>2, <1>4, PollFrame

\* The driver turns to a device.
LEMMA BeginPollSync ==
  ASSUME TypeInv, Sync, BeginPoll
  PROVE  Sync'
<1>1. /\ step = "poll"
      /\ UNCHANGED <<step, port, board, devices, deviceCount, rings, slots, commands, commandPut,
                     commandAt, eventRing, eventRead>>
  BY DEF BeginPoll, table, controller
<1>2. \A u : ReportsOf(u)' = ReportsOf(u)
  BY <1>1, UnreadSame
<1>3. PollInv'
  <2> SUFFICES ASSUME NEW i \in 0 .. deviceCount - 1
               PROVE  (Unarmed(i) \/ Flowing(i) \/ Stuck(i) \/ Halted(i))'
    BY <1>1 DEF PollInv
  <2>1. Unarmed(i) \/ Flowing(i) \/ Stuck(i) \/ Halted(i)
    BY <1>1 DEF Sync, PollInv
  <2> QED  BY <1>1, <1>2, <2>1 DEF Unarmed, Flowing, Stuck, Halted
<1> QED  BY <1>1, <1>3, TurnFrame

\* A report taken is one that is no longer on its way.
LEMMA DrainOneSync ==
  ASSUME TypeInv, Sync, DrainOne
  PROVE  Sync'
<1>1. /\ step = "poll" /\ TakeEvent
      /\ UNCHANGED <<step, port, board, deviceCount, rings, slots, commands, commandPut,
                     commandAt, eventRing>>
  BY DEF DrainOne, TypeInv, ScanInv, controller, scan
<1>2. Common /\ PollInv
  BY <1>1 DEF Sync
<1>3. /\ events' = events /\ NextEvent = events[eventAt.at].trb
      /\ Answers' = Answers \ {eventAt.at}
      /\ NextEvent.op # "port" => eventAt.at \in Answers
      /\ \A s : ReportsOf(s)' = ReportsOf(s) \ {eventAt.at}
      /\ \A s : NextEvent.op = "transfer" /\ NextEvent.slot = s => eventAt.at \in ReportsOf(s)
  BY <1>1, AnswersTaken
<1>4. \A s : eventAt.at \in ReportsOf(s) => NextEvent.op = "transfer" /\ NextEvent.slot = s
  BY <1>3 DEF ReportsOf
<1>5. DevicesOfSlot(NextEvent.slot) = {} \/ Least(DevicesOfSlot(NextEvent.slot)) \in DevicesOfSlot(NextEvent.slot)
  <2>1. DevicesOfSlot(NextEvent.slot) \subseteq Nat
    BY XhciAssumption DEF DevicesOfSlot, TypeInv, TableInv
  <2> QED  BY <2>1, LeastIsOne
<1>6. \A i \in 0 .. deviceCount - 1 :
        /\ devices'[i].slot = devices[i].slot /\ devices'[i].put = devices[i].put
        /\ \/ devices'[i].queued = devices[i].queued
              /\ ~(NextEvent.op = "transfer" /\ NextEvent.slot = devices[i].slot)
           \/ devices'[i].queued = FALSE
              /\ NextEvent.op = "transfer" /\ NextEvent.slot = devices[i].slot
  <2> SUFFICES ASSUME NEW i \in 0 .. deviceCount - 1
               PROVE  /\ devices'[i].slot = devices[i].slot /\ devices'[i].put = devices[i].put
                      /\ \/ devices'[i].queued = devices[i].queued
                            /\ ~(NextEvent.op = "transfer" /\ NextEvent.slot = devices[i].slot)
                         \/ devices'[i].queued = FALSE
                            /\ NextEvent.op = "transfer" /\ NextEvent.slot = devices[i].slot
    OBVIOUS
  <2>1. /\ i \in Index /\ devices \in [Index -> DeviceRecord]
        /\ \A j \in 0 .. deviceCount - 1 : j # i => devices[j].slot # devices[i].slot
    BY <1>1, <1>2, OneSlotEach DEF TypeInv, TableInv
  <2>2. CASE NextEvent.op = "transfer" /\ DevicesOfSlot(NextEvent.slot) # {}
    <3>1. PICK j : j = Least(DevicesOfSlot(NextEvent.slot))
      OBVIOUS
    <3>2. j \in 0 .. deviceCount - 1 /\ devices[j].slot = NextEvent.slot
      BY <1>5, <2>2, <3>1 DEF DevicesOfSlot
    <3>3. devices' = [devices EXCEPT ![j].queued = FALSE, ![j].ready = @ \/ NextEvent.ok]
      BY <2>2, <3>1 DEF DrainOne
    <3>4. CASE i = j
      <4>1. devices'[i] = [devices[i] EXCEPT !.queued = FALSE, !.ready = devices[i].ready \/ NextEvent.ok]
        BY <2>1, <3>3, <3>4 DEF DeviceRecord
      <4> DEFINE x  == devices[i]
                 y  == devices'[i]
                 ok == devices[i].ready \/ NextEvent.ok
      <4>2. x \in DeviceRecord /\ y = [x EXCEPT !.queued = FALSE, !.ready = ok]
        BY <2>1, <4>1
      <4> HIDE DEF x, y, ok
      <4>3. y.slot = x.slot /\ y.put = x.put /\ y.queued = FALSE
        BY <4>2 DEF DeviceRecord
      <4> QED  BY <2>2, <3>2, <3>4, <4>3 DEF x, y
    <3>5. CASE i # j
      <4>1. devices'[i] = devices[i]
        BY <2>1, <3>3, <3>5 DEF DeviceRecord
      <4>2. devices[i].slot # NextEvent.slot
        BY <2>1, <3>2, <3>5
      <4> QED  BY <4>1, <4>2
    <3> QED  BY <3>4, <3>5
  <2>3. CASE ~(NextEvent.op = "transfer" /\ DevicesOfSlot(NextEvent.slot) # {})
    <3>1. devices' = devices
      BY <2>3 DEF DrainOne
    <3>2. ~(NextEvent.op = "transfer" /\ NextEvent.slot = devices[i].slot)
      BY <2>3 DEF DevicesOfSlot
    <3> QED  BY <3>1, <3>2
  <2> QED  BY <2>2, <2>3
<1>7. PollInv'
  <2> SUFFICES ASSUME NEW i \in 0 .. deviceCount - 1
               PROVE  (Unarmed(i) \/ Flowing(i) \/ Stuck(i) \/ Halted(i))'
    BY <1>1 DEF PollInv
  <2>0. PICK s : s = devices[i].slot
    OBVIOUS
  <2>1. Unarmed(i) \/ Flowing(i) \/ Stuck(i) \/ Halted(i)
    BY <1>2 DEF PollInv
  <2>2. /\ devices'[i].slot = devices[i].slot /\ devices'[i].put = devices[i].put
    BY <1>6
  <2>5. ReportsOf(devices[i].slot)' = ReportsOf(s) \ {eventAt.at}
    <3>1. Unread' = Unread \ {eventAt.at} /\ events' = events
      BY <1>1, TakeIs
    <3> QED  BY <2>0, <2>2, <3>1 DEF ReportsOf
  <2>3. CASE devices'[i].queued = devices[i].queued /\ ~(NextEvent.op = "transfer" /\ NextEvent.slot = s)
    <3>1. ReportsOf(devices[i].slot)' = ReportsOf(devices[i].slot)
      BY <1>4, <2>0, <2>3, <2>5
    <3> QED  BY <1>1, <2>1, <2>2, <2>3, <3>1 DEF Unarmed, Flowing, Stuck, Halted
  <2>4. CASE devices'[i].queued = FALSE /\ NextEvent.op = "transfer" /\ NextEvent.slot = s
    <3>1. eventAt.at \in ReportsOf(s)
      BY <1>3, <2>4
    <3>2. Flowing(i) \/ Halted(i)
      BY <2>0, <2>1, <3>1 DEF Unarmed, Stuck
    <3>3. CASE Halted(i)
      BY <1>1, <2>2, <3>3 DEF Halted
    <3>4. CASE Flowing(i)
      <4> DEFINE w == Len(Work(rings[i], slots[s].report, devices[i].put))
                 r == Cardinality(ReportsOf(s))
                 d == IF devices[i].queued THEN 0 ELSE 1
      <4>1. /\ slots[s].reportOn \in {"idle", "running"}
            /\ Ahead(rings[i], slots[s].report, devices[i].put)
            /\ w + r + d <= RingLen - 1
        BY <2>0, <3>4 DEF Flowing
      <4>2. Cardinality(ReportsOf(s) \ {eventAt.at}) = r - 1
        BY <3>1, ReportsFinite, FS_RemoveElement
      <4>3. r \in Nat /\ d \in {0, 1} /\ w \in Nat
        <5>1. devices[i].put \in Cursors /\ slots[s].report \in Cursors
          BY <1>1, <1>2, <2>0, OneSlotEach DEF SlotRecord
        <5> DEFINE ring == rings[i]
                   c    == slots[s].report
                   put  == devices[i].put
        <5> HIDE DEF ring, c, put
        <5>2. Len(Work(ring, c, put)) = InFlight(c, put) /\ InFlight(c, put) \in 0 .. RingLen - 1
          <6>1. c \in Cursors /\ put \in Cursors /\ Ahead(ring, c, put)
            BY <4>1, <5>1 DEF ring, c, put
          <6> QED  BY <6>1, WorkIs
        <5>3. r \in Nat
          BY ReportsFinite
        <5>4. w = InFlight(c, put)
          BY <5>2 DEF ring, c, put
        <5> HIDE DEF r, w
        <5> QED  BY <5>2, <5>3, <5>4, XhciAssumption
      <4>4. w + (r - 1) + 1 <= RingLen - 1
        <5> HIDE DEF w, r, d
        <5> QED  BY <4>1, <4>3, XhciAssumption
      <4>5. Flowing(i)'
        BY <1>1, <2>0, <2>2, <2>4, <2>5, <4>1, <4>2, <4>4 DEF Flowing
      <4> QED  BY <4>5
    <3> QED  BY <3>2, <3>3, <3>4
  <2> QED  BY <1>6, <2>0, <2>3, <2>4
<1> QED  BY <1>1, <1>6, <1>7, TurnFrame

\* What a ring is for an endpoint that goes on with its reports there.
Going(ring, put, c, n) ==
  Ahead(ring, c, put) /\ Len(Work(ring, c, put)) <= n

\* The first report asked for is the next to run, or is not seen.
LEMMA FirstReport ==
  ASSUME NEW ring, NEW put \in Cursors, NEW trb, NEW q, trb # Link,
         Linked(ring), Current(ring, put), q = Put(ring, put, trb)
  PROVE  Going(q.ring, q.cursor, Origin, RingLen - 1) \/ ~Owned(q.ring, Origin)
<1>1. /\ put.at \in 0 .. RingLen - 1 /\ put.at \in Int /\ put.cycle \in {0, 1}
      /\ RingLen \in Nat /\ RingLen > 3
  BY CursorIs
<1>2. Origin \in Cursors /\ Origin.at = 0 /\ Origin.cycle = 1 /\ 0 \in Positions
  BY <1>1, BlankRing DEF Origin, Positions
<1>3. q.cursor \in Cursors /\ Linked(q.ring) /\ Current(q.ring, q.cursor)
  BY QueueKeepsRing
<1>4. CASE q.cursor.cycle = 1
  <2>1. q.cursor.at \in 0 .. RingLen - 1 /\ q.cursor.at \in Int
    BY <1>3, CursorIs
  <2>2. Ahead(q.ring, Origin, q.cursor)
    BY <1>2, <1>4, <2>1 DEF Ahead
  <2>3. /\ InFlight(Origin, q.cursor) \in 0 .. RingLen - 1
        /\ Len(Work(q.ring, Origin, q.cursor)) = InFlight(Origin, q.cursor)
    <3> DEFINE r == q.ring
               p == q.cursor
               c == Origin
    <3>1. p \in Cursors /\ c \in Cursors /\ Ahead(r, c, p)
      BY <1>2, <1>3, <2>2
    <3> HIDE DEF r, p, c
    <3>2. InFlight(c, p) \in 0 .. RingLen - 1 /\ Len(Work(r, c, p)) = InFlight(c, p)
      BY <3>1, WorkIs
    <3> QED  BY <3>2 DEF r, p, c
  <2> QED  BY <1>1, <2>2, <2>3 DEF Going
<1>5. CASE q.cursor.cycle # 1
  <2>1. q.cursor.at \in 0 .. RingLen - 1 /\ q.cursor.at \in Int /\ q.cursor.cycle = 0
    BY <1>3, <1>5, CursorIs
  <2>2. 0 < q.cursor.at
    BY <1>2, <1>3, <1>5, <2>1 DEF Current
  <2>3. q.ring[0].cycle = 0
    BY <1>2, <1>3, <2>1, <2>2 DEF Current
  <2> QED  BY <1>2, <2>3 DEF Owned
<1> QED  BY <1>4, <1>5

\* A report is asked for, at the most recent entry of its ring.
LEMMA QueueReportSync ==
  ASSUME NEW i \in 0 .. deviceCount - 1, TypeInv, Sync, step = "poll", ~devices[i].queued,
         UNCHANGED <<step, port, board, deviceCount, commands, commandPut, commandAt, eventRing,
                     eventRead>>,
         rings' = [rings EXCEPT ![i] = Queue(RingOf(i), Normal(i)).ring],
         devices' = [devices EXCEPT ![i].put = Queue(RingOf(i), Normal(i)).cursor,
                                    ![i].queued = TRUE, ![i].ready = FALSE],
         slots' = [slots EXCEPT ![devices[i].slot].reportOn = IF @ = "idle" THEN "running" ELSE @]
  PROVE  Sync' /\ WorkIsKept
<1>0. PICK t : t = devices[i].slot
  OBVIOUS
<1> DEFINE ring == rings[i]
           put  == devices[i].put
           trb  == Normal(i)
           q    == Queue(RingOf(i), Normal(i))
           on   == IF slots[t].reportOn = "idle" THEN "running" ELSE slots[t].reportOn
<1>1. Common /\ PollInv /\ SlotsInv
  BY DEF Sync, Common
<1>2. /\ i \in Index /\ i # deviceCount /\ devices[i].slot \in Slots
      /\ slots[devices[i].slot].ring = i /\ slots[devices[i].slot].used
      /\ slots[devices[i].slot] \in SlotRecord /\ devices[i].put \in Cursors
      /\ Linked(rings[i]) /\ Current(rings[i], devices[i].put)
      /\ \A j \in 0 .. deviceCount - 1 : j # i => devices[j].slot # devices[i].slot
      /\ \A u \in Slots : slots[u].ring = i => u = devices[i].slot
  BY <1>1, OneSlotEach
<1>3. q = Put(ring, put, trb) /\ trb # Link /\ trb.op \notin Stages
  BY DEF RingOf, Normal, Link, Stages, Put, Queue
<1> HIDE DEF q, trb
<1>4. q.cursor \in Cursors /\ Linked(q.ring) /\ Current(q.ring, q.cursor)
  BY <1>2, <1>3, QueueKeepsRing
<1>5. /\ devices'[i].slot = t /\ devices'[i].put = q.cursor /\ devices'[i].queued = TRUE
      /\ \A j \in 0 .. deviceCount - 1 : j # i => devices'[j] = devices[j]
  <2>1. devices \in [Index -> DeviceRecord]
    BY DEF TypeInv, TableInv
  <2>2. devices'[i] = [devices[i] EXCEPT !.put = q.cursor, !.queued = TRUE, !.ready = FALSE]
    BY <1>2, <2>1 DEF q
  <2> DEFINE x == devices[i]
             y == devices'[i]
             p == q.cursor
  <2>3. x \in DeviceRecord /\ y = [x EXCEPT !.put = p, !.queued = TRUE, !.ready = FALSE]
    BY <1>2, <2>1, <2>2
  <2> HIDE DEF x, y, p
  <2>4. y.slot = x.slot /\ y.put = p /\ y.queued = TRUE
    BY <2>3 DEF DeviceRecord
  <2>5. \A j \in 0 .. deviceCount - 1 : j # i => devices'[j] = devices[j]
    BY <2>1, XhciAssumption DEF TypeInv, TableInv, Index
  <2> QED  BY <1>0, <2>4, <2>5 DEF x, y, p
<1>6. DOMAIN rings = Index /\ \A j \in Index : Linked(rings[j])
  BY <1>1 DEF Common, RingsInv
<1>7. /\ rings'[i] = q.ring /\ DOMAIN rings' = Index
      /\ \A j : j # i => rings'[j] = rings[j]
  BY <1>2, <1>6 DEF q
<1>8. slots \in [Slots -> SlotRecord] /\ t \in Slots /\ slots[t] \in SlotRecord /\ slots[t].ring = i
      /\ slots[t].used
  BY <1>0, <1>1, <1>2 DEF SlotsInv
<1>9. /\ slots' \in [Slots -> SlotRecord]
      /\ \A u \in Slots : u # t => slots'[u] = slots[u]
      /\ \A u \in Slots : /\ slots'[u].used = slots[u].used /\ slots'[u].ring = slots[u].ring
                          /\ slots'[u].control = slots[u].control
                          /\ slots'[u].controlOn = slots[u].controlOn
      /\ slots'[t].report = slots[t].report /\ slots'[t].reportOn = on
  <2> DEFINE z == slots[t]
             x == slots[t].report
             y == Reached(z, x, on)
  <2>1. z \in SlotRecord /\ x \in Cursors /\ on \in ReportStates
    BY <1>8 DEF SlotRecord, ReportStates
  <2>2. slots' = [slots EXCEPT ![t] = y]
    BY <1>0, <1>8 DEF Reached, SlotRecord
  <2> HIDE DEF z, x, on
  <2>3. /\ Reached(z, x, on) \in SlotRecord
        /\ Reached(z, x, on).report = x /\ Reached(z, x, on).reportOn = on
        /\ Reached(z, x, on).used = z.used /\ Reached(z, x, on).ring = z.ring
        /\ Reached(z, x, on).control = z.control /\ Reached(z, x, on).controlOn = z.controlOn
    BY <2>1, ReportReaches
  <2> HIDE DEF y
  <2>4. slots' \in [Slots -> SlotRecord] /\ slots'[t] = y /\ \A u \in Slots : u # t => slots'[u] = slots[u]
    <3>1. y \in SlotRecord
      BY <2>3 DEF y
    <3>2. slots \in [Slots -> SlotRecord] /\ t \in Slots
      BY <1>8
    <3>3. slots'[t] = y /\ \A u \in Slots : u # t => slots'[u] = slots[u]
      BY <2>2, <3>1, <3>2
    <3> QED  BY <2>2, <3>1, <3>2, <3>3, ChangedAt
  <2> QED  BY <2>3, <2>4 DEF y, z, x
<1>10. SlotsInv'
  <2>1. \A u \in Slots : slots'[u].used = slots[u].used /\ slots'[u].ring = slots[u].ring
                          /\ slots'[u].control = slots[u].control
                          /\ slots'[u].controlOn = slots[u].controlOn
                          /\ (u # t => slots'[u] = slots[u])
    BY <1>9
  <2>2. slots'[t].used /\ slots'[t].ring # None
    BY <1>2, <1>8, <2>1 DEF Index, None
  <2>3. slots' \in [Slots -> SlotRecord]
    BY <1>9
  <2> QED  BY <1>1, <2>1, <2>2, <2>3 DEF SlotsInv
<1>11. RingsInv'
  BY <1>4, <1>6, <1>7 DEF RingsInv
<1>12. DevicesInv'
  <2> SUFFICES ASSUME NEW j \in 0 .. deviceCount - 1 PROVE Known(j)'
    BY DEF DevicesInv
  <2>1. CASE j = i
    <3>1. devices'[i].slot = t /\ devices'[i].put = q.cursor /\ rings'[i] = q.ring
      BY <1>5, <1>7
    <3>2. slots'[t].used /\ slots'[t].ring = i
      BY <1>8, <1>9
    <3> QED  BY <1>4, <1>8, <2>1, <3>1, <3>2 DEF Known
  <2>2. CASE j # i
    <3>1. Known(j)
      BY <1>1 DEF Common, DevicesInv
    <3>2. devices'[j] = devices[j] /\ rings'[j] = rings[j]
      BY <1>5, <1>7, <2>2
    <3>3. /\ slots'[devices[j].slot].used = slots[devices[j].slot].used
          /\ slots'[devices[j].slot].ring = slots[devices[j].slot].ring
      BY <1>9, <3>1 DEF Known
    <3> QED  BY <3>1, <3>2, <3>3 DEF Known
  <2> QED  BY <2>1, <2>2
<1>13. ~Transferring /\ ~Transferring'
  BY DEF Transferring, Transfers, Reads
<1>14. QuietInv'
  <2> SUFFICES ASSUME NEW u \in Slots, slots[u].ring # None
               PROVE  QuietOn(rings'[slots[u].ring], slots[u].control)
    BY <1>9 DEF QuietInv
  <2>1. QuietOn(rings[slots[u].ring], slots[u].control)
    BY <1>1, <1>13 DEF Common, QuietInv
  <2>2. CASE slots[u].ring = i
    <3> DEFINE c == slots[u].control
    <3>1. c \in Cursors /\ QuietOn(ring, c)
      BY <1>1, <2>1, <2>2 DEF SlotsInv, SlotRecord
    <3> HIDE DEF c, ring, put
    <3>2. put \in Cursors /\ Linked(ring)
      BY <1>2 DEF ring, put
    <3>3. QuietOn(q.ring, c)
      BY <1>3, <3>1, <3>2, QuietAfterQueue
    <3> QED  BY <1>7, <2>2, <3>3 DEF c
  <2>3. CASE slots[u].ring # i
    BY <1>7, <2>1, <2>3
  <2> QED  BY <2>2, <2>3
<1>15. \A u \in Slots : ReportsOf(u)' = ReportsOf(u)
  BY UnreadSame
<1>16. Unread' = Unread /\ events' = events
  BY DEF Unread, eventRing, eventRead
<1>17. \A j \in 0 .. deviceCount - 1 : ReportsOf(devices[j].slot)' = ReportsOf(devices[j].slot)
  BY <1>0, <1>5, <1>16 DEF ReportsOf
<1>18. /\ (Flowing(i) \/ Stuck(i) \/ Halted(i))'
       /\ slots[t].reportOn = "running" => Kept(ring, q.ring, slots[t].report)
  <2>1. Unarmed(i) \/ Flowing(i) \/ Stuck(i) \/ Halted(i)
    BY <1>1 DEF PollInv
  <2>2. CASE Halted(i)
    <3>1. slots[t].reportOn = "halted"
      BY <1>0, <2>2 DEF Halted
    <3>2. Halted(i)'
      BY <1>5, <1>9, <3>1 DEF Halted
    <3> QED  BY <3>1, <3>2
  <2>3. CASE Stuck(i)
    BY <2>3 DEF Stuck
  <2>4. CASE Unarmed(i)
    <3>1. slots[t].reportOn = "idle" /\ slots[t].report = Origin /\ ReportsOf(t) = {}
      BY <1>0, <2>4 DEF Unarmed
    <3>2. slots'[t].reportOn = "running" /\ slots'[t].report = Origin
          /\ ReportsOf(devices[i].slot)' = {}
      BY <1>0, <1>9, <1>17, <3>1
    <3>3. Cardinality({}) = 0
      BY FS_EmptySet
    <3>4. Going(q.ring, q.cursor, Origin, RingLen - 1) \/ ~Owned(q.ring, Origin)
      BY <1>2, <1>3, FirstReport
    <3>5. CASE ~Owned(q.ring, Origin)
      BY <1>5, <1>7, <3>1, <3>2, <3>5 DEF Stuck
    <3>6. CASE Going(q.ring, q.cursor, Origin, RingLen - 1)
      <4>1. /\ Ahead(q.ring, Origin, q.cursor)
            /\ Len(Work(q.ring, Origin, q.cursor)) <= RingLen - 1
        BY <3>6 DEF Going
      <4>2. Len(Work(q.ring, Origin, q.cursor)) \in Nat
        <5>1. Origin \in Cursors
          BY BlankRing
        <5>2. /\ InFlight(Origin, q.cursor) \in 0 .. RingLen - 1
              /\ Len(Work(q.ring, Origin, q.cursor)) = InFlight(Origin, q.cursor)
          BY <1>4, <4>1, <5>1, WorkIs
        <5> QED  BY <5>2, XhciAssumption
      <4>3. Len(Work(q.ring, Origin, q.cursor)) + Cardinality({}) + 0 <= RingLen - 1
        BY <3>3, <4>1, <4>2
      <4> QED  BY <1>5, <1>7, <3>1, <3>2, <4>1, <4>3 DEF Flowing
    <3> QED  BY <3>1, <3>4, <3>5, <3>6
  <2>5. CASE Flowing(i)
    <3> DEFINE c == slots[t].report
               w == Len(Work(ring, c, put))
               r == Cardinality(ReportsOf(t))
    <3>1. /\ slots[t].reportOn \in {"idle", "running"}
          /\ Ahead(ring, c, put) /\ w + r + 1 <= RingLen - 1
      BY <1>0, <2>5 DEF Flowing
    <3>2. c \in Cursors
      BY <1>8 DEF SlotRecord
    <3>3. w \in Nat /\ r \in Nat /\ RingLen \in Nat
      <4>0. put \in Cursors
        BY <1>2
      <4>1. w = InFlight(c, put) /\ InFlight(c, put) \in 0 .. RingLen - 1
        <5> HIDE DEF c, ring, put
        <5>1. InFlight(c, put) \in 0 .. RingLen - 1 /\ Len(Work(ring, c, put)) = InFlight(c, put)
          BY <3>1, <3>2, <4>0, WorkIs
        <5> QED  BY <5>1
      <4> QED  BY <4>1, ReportsFinite, XhciAssumption
    <3>4. w < RingLen - 1
      <4> HIDE DEF w, r
      <4> QED  BY <3>1, <3>3
    <3> HIDE DEF c, ring, put
    <3>5. /\ Ahead(q.ring, c, q.cursor)
          /\ Work(q.ring, c, q.cursor) = Append(Work(ring, c, put), trb)
          /\ Kept(ring, q.ring, c)
      <4>1. put \in Cursors /\ Linked(ring) /\ Current(ring, put)
        BY <1>2 DEF ring, put
      <4> QED  BY <1>3, <3>1, <3>2, <3>4, <4>1, QueueAppends
    <3>6. Len(Work(q.ring, c, q.cursor)) = w + 1
      <4>1. InFlight(c, put) \in Nat /\ DOMAIN Work(ring, c, put) = 1 .. InFlight(c, put)
            /\ Len(Work(ring, c, put)) = InFlight(c, put)
        <5>1. put \in Cursors
          BY <1>2 DEF put
        <5>2. /\ InFlight(c, put) \in 0 .. RingLen - 1
              /\ Len(Work(ring, c, put)) = InFlight(c, put)
              /\ DOMAIN Work(ring, c, put) = 1 .. InFlight(c, put)
              /\ \A n \in 1 .. InFlight(c, put) :
                   Work(ring, c, put)[n] = ring[Nth(c, n - 1)].trb
          BY <3>1, <3>2, <5>1, WorkIs
        <5> QED  BY <5>2, XhciAssumption
      <4> DEFINE v == Work(ring, c, put)
                 S == {v[n] : n \in 1 .. InFlight(c, put)} \cup {trb}
      <4>2. v \in [1 .. InFlight(c, put) -> S]
        BY <4>1 DEF Work
      <4>3. v \in Seq(S) /\ trb \in S
        BY <4>1, <4>2, FunctionIsSeq
      <4> HIDE DEF v, S
      <4>4. Len(Append(v, trb)) = Len(v) + 1
        BY <4>3
      <4> QED  BY <3>5, <4>4 DEF v
    <3>7. Len(Work(q.ring, c, q.cursor)) + r + 0 <= RingLen - 1
      <4> HIDE DEF w, r
      <4> QED  BY <3>1, <3>3, <3>6
    <3>8. /\ devices'[i].slot = t /\ devices'[i].put = q.cursor /\ devices'[i].queued = TRUE
          /\ rings'[i] = q.ring /\ slots'[t].report = c /\ slots'[t].reportOn \in {"idle", "running"}
          /\ ReportsOf(devices[i].slot)' = ReportsOf(t)
      BY <1>0, <1>5, <1>7, <1>9, <1>17, <3>1 DEF c
    <3>9. Flowing(i)'
      BY <3>5, <3>7, <3>8 DEF Flowing
    <3> QED  BY <3>5, <3>9 DEF c
  <2> QED  BY <2>1, <2>2, <2>3, <2>4, <2>5
<1>19. PollInv'
  <2> SUFFICES ASSUME NEW j \in 0 .. deviceCount - 1
               PROVE  (Unarmed(j) \/ Flowing(j) \/ Stuck(j) \/ Halted(j))'
    BY DEF PollInv
  <2>1. CASE j = i
    BY <1>18, <2>1
  <2>2. CASE j # i
    <3>1. devices[j].slot # t /\ devices[j].slot \in Slots /\ devices'[j] = devices[j]
          /\ rings'[j] = rings[j]
      <4>1. devices[j].slot \in Slots
        BY <1>1 DEF Common, DevicesInv, Known
      <4>2. devices[j].slot # t
        BY <1>0, <1>2, <2>2
      <4> QED  BY <1>5, <1>7, <2>2, <4>1, <4>2
    <3>2. slots'[devices[j].slot] = slots[devices[j].slot]
          /\ ReportsOf(devices[j].slot)' = ReportsOf(devices[j].slot)
      BY <1>9, <1>17, <3>1
    <3>3. Unarmed(j) \/ Flowing(j) \/ Stuck(j) \/ Halted(j)
      BY <1>1 DEF PollInv
    <3> QED  BY <3>1, <3>2, <3>3 DEF Unarmed, Flowing, Stuck, Halted
  <2> QED  BY <2>1, <2>2
<1>20. Sync'
  <2>1. \A u \in Slots : slots[u].reportOn = "off" => slots'[u].reportOn = "off"
    BY <1>9
  <2>2. \A j \in 0 .. deviceCount - 1 : devices'[j].slot = devices[j].slot
    BY <1>0, <1>5
  <2> QED  BY <1>9, <1>10, <1>11, <1>12, <1>14, <1>19, <2>1, <2>2, PollFrame
<1>21. WorkIsKept
  <2>1. Kept(commands, commands', commandAt)
    BY DEF Kept
  <2>2. ASSUME NEW u \in Slots PROVE EndpointIsKept(u)
    <3>1. CASE slots[u].ring # i
      <4>1. rings'[slots[u].ring] = rings[slots[u].ring]
        BY <1>7, <3>1
      <4> QED  BY <4>1 DEF EndpointIsKept, Kept
    <3>2. CASE slots[u].ring = i
      <4>1. u = t
        BY <1>0, <1>2, <3>2
      <4>2. QuietOn(ring, slots[u].control)
        BY <1>1, <1>2, <1>13, <3>2 DEF Common, QuietInv, Index, None
      <4>3. ASSUME rings[i][slots[u].control.at].trb.op \in Stages
            PROVE  ~Owned(rings[i], slots[u].control)
        <5>1. rings[i][slots[u].control.at].trb # Link
          BY <4>3 DEF Stages, Link
        <5>2. Reading(rings[i], slots[u].control) = slots[u].control
          BY <5>1 DEF Reading
        <5> QED  BY <4>2, <4>3, <5>2 DEF QuietOn
      <4>4. rings[i][slots[u].control.at].trb.op \in Stages => Kept(rings[i], rings'[i], slots[u].control)
        BY <4>3 DEF Kept
      <4>5. slots[u].reportOn = "running" => Kept(rings[i], rings'[i], slots[u].report)
        BY <1>7, <1>18, <4>1
      <4> QED  BY <3>2, <4>4, <4>5 DEF EndpointIsKept
    <3> QED  BY <3>1, <3>2
  <2> QED  BY <2>1, <2>2 DEF WorkIsKept
<1> QED  BY <1>20, <1>21

\* A report is asked for when none is.
LEMMA ArmSync ==
  ASSUME NEW i \in 0 .. deviceCount - 1, TypeInv, Sync, step = "poll", Arm(i),
         UNCHANGED <<step, port, board, deviceCount, commands, commandPut, commandAt, eventRing,
                     eventRead>>
  PROVE  Sync' /\ (WorkIsKept \/ UNCHANGED <<commands, rings>>)
<1>1. CASE /\ devices' = [devices EXCEPT ![i].ready = FALSE]
           /\ UNCHANGED <<rings, slots>>
  <2>1. \A j \in 0 .. deviceCount - 1 :
          /\ devices'[j].slot = devices[j].slot /\ devices'[j].put = devices[j].put
          /\ devices'[j].queued = devices[j].queued
    <3> SUFFICES ASSUME NEW j \in 0 .. deviceCount - 1
                 PROVE  /\ devices'[j].slot = devices[j].slot /\ devices'[j].put = devices[j].put
                        /\ devices'[j].queued = devices[j].queued
      OBVIOUS
    <3>1. devices \in [Index -> DeviceRecord] /\ j \in Index /\ i \in Index
      BY XhciAssumption DEF TypeInv, TableInv, Index
    <3>2. devices'[j] = IF j = i THEN [devices[j] EXCEPT !.ready = FALSE] ELSE devices[j]
      BY <1>1, <3>1
    <3> DEFINE x == devices[j]
               y == devices'[j]
    <3>3. x \in DeviceRecord /\ (y = x \/ y = [x EXCEPT !.ready = FALSE])
      BY <3>1, <3>2
    <3> HIDE DEF x, y
    <3>4. y.slot = x.slot /\ y.put = x.put /\ y.queued = x.queued
      BY <3>3 DEF DeviceRecord
    <3> QED  BY <3>4 DEF x, y
  <2>2. Unread' = Unread /\ events' = events
    BY DEF Unread, eventRing, eventRead
  <2>3. PollInv'
    <3> SUFFICES ASSUME NEW j \in 0 .. deviceCount - 1
                 PROVE  (Unarmed(j) \/ Flowing(j) \/ Stuck(j) \/ Halted(j))'
      BY DEF PollInv
    <3>1. Unarmed(j) \/ Flowing(j) \/ Stuck(j) \/ Halted(j)
      BY DEF Sync, PollInv
    <3>2. ReportsOf(devices[j].slot)' = ReportsOf(devices[j].slot)
      BY <2>1, <2>2 DEF ReportsOf
    <3> QED  BY <1>1, <2>1, <3>1, <3>2 DEF Unarmed, Flowing, Stuck, Halted
  <2>4. Sync'
    BY <1>1, <2>1, <2>3, TurnFrame
  <2> QED  BY <1>1, <2>4
<1>2. CASE /\ ~devices[i].queued
           /\ rings' = [rings EXCEPT ![i] = Queue(RingOf(i), Normal(i)).ring]
           /\ devices' = [devices EXCEPT ![i].put = Queue(RingOf(i), Normal(i)).cursor,
                                         ![i].queued = TRUE, ![i].ready = FALSE]
           /\ slots' = [slots EXCEPT ![devices[i].slot].reportOn = IF @ = "idle" THEN "running" ELSE @]
  BY <1>2, QueueReportSync
<1> QED  BY <1>1, <1>2 DEF Arm

\* The driver's turn at one of the devices it keeps.
LEMMA PollSync ==
  ASSUME TypeInv, Sync, Poll
  PROVE  Sync' /\ (WorkIsKept \/ UNCHANGED <<commands, rings>>)
<1>1. CASE BeginPoll
  <2>1. UNCHANGED <<commands, rings>>
    BY <1>1 DEF BeginPoll
  <2> QED  BY <1>1, <2>1, BeginPollSync
<1>2. CASE DrainOne
  <2>1. UNCHANGED <<commands, rings>>
    BY <1>2 DEF DrainOne
  <2> QED  BY <1>2, <2>1, DrainOneSync
<1>3. ASSUME step = "poll", phase \in {"drain", "copy"} PROVE kept[turn] \in 0 .. deviceCount - 1
  BY <1>3 DEF TypeInv, ScanInv, TableInv
<1>4. CASE CopyReport
  <2>1. /\ step = "poll" /\ phase = "copy" /\ Arm(kept[turn])
        /\ UNCHANGED <<step, port, board, deviceCount, commands, commandPut, commandAt, eventRing,
                       eventRead>>
    BY <1>4 DEF CopyReport
  <2>2. PICK i \in 0 .. deviceCount - 1 : i = kept[turn]
    BY <1>3, <2>1
  <2>3. Arm(i)
    BY <2>1, <2>2
  <2> QED  BY <2>1, <2>3, ArmSync
<1>5. CASE DrainDone
  <2>1. /\ step = "poll" /\ phase = "drain"
        /\ UNCHANGED <<step, port, board, deviceCount, commands, commandPut, commandAt, eventRing,
                       eventRead>>
    BY <1>5 DEF DrainDone, TypeInv, ScanInv
  <2>2. CASE Arm(kept[turn])
    <3>1. PICK i \in 0 .. deviceCount - 1 : i = kept[turn]
      BY <1>3, <2>1
    <3>2. Arm(i)
      BY <2>2, <3>1
    <3> QED  BY <2>1, <3>2, ArmSync
  <2>3. CASE UNCHANGED <<devices, rings, slots, drained>>
    <3>1. \A u : ReportsOf(u)' = ReportsOf(u)
      BY <2>1, UnreadSame
    <3>2. PollInv'
      <4> SUFFICES ASSUME NEW j \in 0 .. deviceCount - 1
                   PROVE  (Unarmed(j) \/ Flowing(j) \/ Stuck(j) \/ Halted(j))'
        BY <2>1 DEF PollInv
      <4>1. Unarmed(j) \/ Flowing(j) \/ Stuck(j) \/ Halted(j)
        BY <2>1 DEF Sync, PollInv
      <4> QED  BY <2>3, <3>1, <4>1 DEF Unarmed, Flowing, Stuck, Halted
    <3>3. Sync'
      BY <2>1, <2>3, <3>2, TurnFrame
    <3> QED  BY <2>1, <2>3, <3>3
  <2> QED  BY <1>5, <2>2, <2>3 DEF DrainDone
<1> QED  BY <1>1, <1>2, <1>4, <1>5 DEF Poll

\* What is not queued on is not rewritten.
LEMMA NothingRewritten ==
  ASSUME UNCHANGED <<commands, rings>>
  PROVE  WorkIsKept
BY DEF WorkIsKept, EndpointIsKept, Kept

\* A command or a transfer rewrites nothing that is still to run.
LEMMA IssueKeeps ==
  ASSUME TypeInv, Sync, IssueCommand \/ IssueTransfer
  PROVE  Sync' /\ WorkIsKept
<1>1. step # "poll"
  BY DEF IssueCommand, IssueTransfer, Commands, Transfers, Reads
<1>2. Common /\ BringUpInv /\ SlotsInv /\ UnarmedInv
  BY <1>1 DEF Sync, Common, BringUpInv
<1>3. CASE IssueCommand
  <2>1. Sync' /\ (Owned(commands, commandAt) => commands'[commandAt.at] = commands[commandAt.at])
    BY <1>2, <1>3, IssueCommandSync
  <2>2. rings' = rings
    BY <1>3 DEF IssueCommand
  <2> QED  BY <2>1, <2>2 DEF WorkIsKept, EndpointIsKept, Kept
<1>4. CASE IssueTransfer
  <2>1. /\ Sync'
        /\ \A t \in Slots : slots[t].ring # None =>
             Kept(rings[slots[t].ring], rings'[slots[t].ring], slots[t].control)
    BY <1>2, <1>4, IssueTransferSync
  <2>2. commands' = commands
    BY <1>4 DEF IssueTransfer
  <2>3. \A t \in Slots : /\ slots[t].ring = None => ~slots[t].controlOn
                         /\ slots[t].reportOn # "running"
    BY <1>2 DEF SlotsInv, UnarmedInv
  <2>4. \A t \in Slots : EndpointIsKept(t)
    BY <2>1, <2>3 DEF EndpointIsKept
  <2> QED  BY <2>1, <2>2, <2>4 DEF WorkIsKept, Kept
<1> QED  BY <1>3, <1>4

\* The other steps of bring-up queue nothing.
LEMMA BringUpSync ==
  ASSUME TypeInv, Sync, OthersComeLast,
         Finish \/ SkipPort \/ ResetPort \/ Discard \/ Answered \/ CopyDescriptor
  PROVE  Sync' /\ UNCHANGED <<commands, rings>>
<1>1. UNCHANGED <<commands, rings>>
  BY DEF Finish, SkipPort, ResetPort, Discard, Answered, CopyDescriptor
<1>2. step # "poll"
  BY DEF Finish, SkipPort, ResetPort, Discard, Answered, CopyDescriptor, TypeInv, ScanInv,
         Commands, Transfers, Reads
<1>3. Common /\ BringUpInv
  BY <1>2 DEF Sync
<1> QED  BY <1>1, <1>3, FinishSync, SkipSync, ResetSync, DiscardSync, AnsweredSync, CopySync

\* Every step of driver or controller, until a wait gives up.
LEMMA EveryStep ==
  ASSUME TypeInv, Sync, DOMAIN buffers = Index, OthersComeLast, [Next]_vars, ~TimeOut
  PROVE  Sync' /\ WorkIsKept
<1>1. CASE IssueCommand \/ IssueTransfer
  BY <1>1, IssueKeeps
<1>2. CASE Finish \/ SkipPort \/ ResetPort \/ Discard \/ Answered \/ CopyDescriptor
  BY <1>2, BringUpSync, NothingRewritten
<1>3. CASE Poll
  BY <1>3, PollSync, NothingRewritten
<1>4. CASE RunCommand
  <2>1. UNCHANGED <<commands, rings>>
    BY <1>4 DEF RunCommand
  <2>2. Common /\ (step # "poll" => BringUpInv)
    BY DEF Sync
  <2>3. Sync'
    BY <1>4, <2>2, RunCommandSync
  <2> QED  BY <2>1, <2>3, NothingRewritten
<1>5. CASE \E s \in Slots : RunControl(s) \/ RunReport(s)
  <2>1. PICK s \in Slots : RunControl(s) \/ RunReport(s)
    BY <1>5
  <2>2. UNCHANGED <<commands, rings>>
    BY <2>1 DEF RunControl, RunReport
  <2>3. Sync'
    BY <2>1, RunControlSync, RunReportSync
  <2> QED  BY <2>2, <2>3, NothingRewritten
<1>6. CASE UNCHANGED vars
  <2>1. /\ UNCHANGED <<board, step, phase, port, parsed, devices, deviceCount, kept, turn, drained,
                       events, eventPut, posted, eventAt, taken, slots, commandAt, sent, commands,
                       commandPut, rings, buffers, inputContext, timedOut>>
        /\ UNCHANGED <<eventRing, eventRead>>
    BY <1>6 DEF vars, scan, table, polling, eventRing, eventRead, controller
  <2>2. Answers' = Answers /\ events' = events /\ \A s : ReportsOf(s)' = ReportsOf(s)
    BY <2>1, UnreadSame
  <2>3. /\ Own' = Own /\ (Addressed' <=> Addressed) /\ (Passed' <=> Passed)
        /\ (Transferring' <=> Transferring) /\ Command' = Command
    BY <2>1, <2>2 DEF Own, Addressed, Passed, Transferring, Command, Tag
  <2>4. Common'
    <3>1. CommandRing' /\ SlotsInv' /\ RingsInv'
      BY <2>1, <2>2, <2>3 DEF Sync, Common, CommandRing, SlotsInv, RingsInv
    <3>2. DevicesInv' /\ OwnersInv'
      BY <2>1, <2>3 DEF Sync, Common, DevicesInv, Known, OwnersInv, Owner
    <3>3. QuietInv'
      BY <2>1, <2>3 DEF Sync, Common, QuietInv
    <3> QED  BY <3>1, <3>2, <3>3 DEF Common
  <2>5. ASSUME step # "poll" PROVE BringUpInv'
    <3>1. BringUpInv
      BY <2>5 DEF Sync
    <3>2. OneAnswer'
      <4>1. ASSUME NEW k, AnswerIs(events[k].trb) PROVE AnswerIs(events[k].trb)'
        BY <2>1, <4>1 DEF AnswerIs, Wanted, Tag
      <4> QED  BY <2>1, <2>2, <3>1, <4>1 DEF BringUpInv, OneAnswer
    <3>3. PlaceInv' /\ HeldInv' /\ FreshInv'
      BY <2>1, <2>2, <2>3, <3>1 DEF BringUpInv, PlaceInv, HeldInv, FreshInv, Given
    <3>4. TransferInv'
      <4>1. /\ OwnWork' = OwnWork /\ (Filled' <=> Filled)
            /\ SetupStage' = SetupStage /\ DataStage' = DataStage /\ StatusStage' = StatusStage
        BY <2>1, <2>3 DEF OwnWork, Filled, SetupStage, DataStage, StatusStage, Tag
      <4> QED  BY <2>1, <2>2, <2>3, <3>1, <4>1 DEF BringUpInv, TransferInv
    <3>5. UnarmedInv'
      BY <2>1, <2>2, <3>1 DEF BringUpInv, UnarmedInv, Unarmed
    <3> QED  BY <3>1, <3>2, <3>3, <3>4, <3>5 DEF BringUpInv
  <2>6. ASSUME step = "poll" PROVE PollInv'
    <3> SUFFICES ASSUME NEW j \in 0 .. deviceCount - 1
                 PROVE  (Unarmed(j) \/ Flowing(j) \/ Stuck(j) \/ Halted(j))'
      BY <2>1 DEF PollInv
    <3>1. Unarmed(j) \/ Flowing(j) \/ Stuck(j) \/ Halted(j)
      BY <2>6 DEF Sync, PollInv
    <3> QED  BY <2>1, <2>2, <3>1 DEF Unarmed, Flowing, Stuck, Halted
  <2>7. Sync'
    BY <2>1, <2>4, <2>5, <2>6 DEF Sync
  <2> QED  BY <2>1, <2>7, NothingRewritten
<1> QED  BY <1>1, <1>2, <1>3, <1>4, <1>5, <1>6 DEF Next, BringUp, Controller, Absent

-----------------------------------------------------------------------------

BuffersInv == DOMAIN buffers = Index

\* There is a buffer for every device.
LEMMA BuffersInit == Init => BuffersInv
BY DEF Init, BuffersInv

\* And that does not change.
LEMMA BuffersStep == BuffersInv /\ [Next]_vars => BuffersInv'
<1> SUFFICES ASSUME BuffersInv, [Next]_vars PROVE BuffersInv'
  OBVIOUS
<1>1. DOMAIN buffers' = DOMAIN buffers
  BY DEF Next, vars, BringUp, Finish, SkipPort, ResetPort, IssueCommand, IssueTransfer, Discard,
         Answered, CopyDescriptor, TimeOut, Poll, BeginPoll, DrainOne, DrainDone, CopyReport,
         Absent, Controller, RunCommand, RunControl, RunReport
<1> QED  BY <1>1 DEF BuffersInv

\* Only a wait that gives up sets the flag.
LEMMA TimeOutTells == [Next]_vars => timedOut' = timedOut \/ TimeOut
BY DEF Next, vars, BringUp, Finish, SkipPort, ResetPort, IssueCommand, IssueTransfer, Discard,
       Answered, CopyDescriptor, TimeOut, Poll, BeginPoll, DrainOne, DrainDone, CopyReport,
       Absent, Controller, RunCommand, RunControl, RunReport

\* Until a wait gives up every step keeps driver and controller in step.
LEMMA SyncStep ==
  ASSUME OthersComeLast, TypeInv, BuffersInv, SyncInv, [Next]_vars
  PROVE  SyncInv' /\ (timedOut' \/ WorkIsKept)
<1>1. CASE TimeOut
  BY <1>1 DEF TimeOut, SyncInv
<1>2. CASE ~TimeOut
  <2>1. timedOut' = timedOut
    BY <1>2, TimeOutTells
  <2>2. ~timedOut => Sync' /\ WorkIsKept
    BY <1>2, EveryStep DEF SyncInv, BuffersInv
  <2> QED  BY <2>1, <2>2 DEF SyncInv
<1> QED  BY <1>1, <1>2

\* What is taken for an answer is the answer.
LEMMA SyncAnswers ==
  ASSUME TypeInv, SyncInv
  PROVE  AnswersAreTheRequests
<1>1. TypeOK
  BY TypesFollow
<1>2. AnswersMatchCommands
  <2> SUFFICES ASSUME ~timedOut, phase = "wait", step \in Commands,
                      EventWaiting, NextEvent.op = Wanted
               PROVE  NextEvent.tag = Tag
    BY DEF AnswersMatchCommands
  <2>1. step # "poll"
    BY DEF Commands
  <2>2. OneAnswer
    BY <2>1 DEF SyncInv, Sync, BringUpInv
  <2>3. eventAt.at \in Unread
    <3>1. /\ eventAt.at \in 0 .. RingLen - 1 /\ eventAt.at \in Int /\ eventAt.cycle \in {0, 1}
          /\ eventPut.at \in 0 .. RingLen - 1 /\ eventPut.at \in Int /\ eventPut.cycle \in {0, 1}
          /\ RingLen \in Nat /\ RingLen > 3
      BY CursorIs DEF TypeInv, EventInv
    <3>2. events[eventAt.at].cycle = IF eventAt.at < eventPut.at THEN eventPut.cycle ELSE 1 - eventPut.cycle
      BY <3>1 DEF TypeInv, EventInv, RingIsCurrent, Positions
    <3>3. eventAt.cycle = eventPut.cycle <=> eventAt.at < eventPut.at
      BY <3>1, <3>2 DEF EventWaiting, Owned
    <3> QED  BY <3>1, <3>3 DEF Unread, Positions
  <2>4. NextEvent.op # "port"
    BY DEF Wanted
  <2>5. eventAt.at \in Answers /\ NextEvent = events[eventAt.at].trb
    BY <2>3, <2>4 DEF Answers, NextEvent
  <2>6. AnswerIs(NextEvent)
    BY <2>2, <2>5 DEF OneAnswer
  <2> QED  BY <2>6 DEF AnswerIs
<1>3. DescriptorIsTheDevices
  <2> SUFFICES ASSUME ~timedOut, step \in Reads, phase = "copy"
               PROVE  buffers[deviceCount] = Content(port, step, 0)
    BY DEF DescriptorIsTheDevices, BufferOf
  <2>1. step # "poll"
    BY DEF Reads
  <2> QED  BY <2>1 DEF SyncInv, Sync, BringUpInv, TransferInv, Filled
<1> QED  BY <1>1, <1>2, <1>3 DEF AnswersAreTheRequests

\* Whatever is plugged in behind the HID devices, however the controller
\* interleaves with the driver and however long the rings are: until a wait gives
\* up, a completion taken is that of the command just issued, and a descriptor
\* parsed holds the bytes this device sent in answer to this request.
THEOREM TheAnswerIsOfTheRequest == OthersComeLast => (Spec => []AnswersAreTheRequests)
<1> SUFFICES ASSUME OthersComeLast PROVE Spec => []AnswersAreTheRequests
  OBVIOUS
<1> DEFINE Inv == TypeInv /\ BuffersInv /\ SyncInv
<1>1. Init => Inv
  BY TypeInit, BuffersInit, SyncInit DEF SyncInv
<1>2. Inv /\ [Next]_vars => Inv'
  BY TypeStep, BuffersStep, SyncStep
<1>3. Inv => AnswersAreTheRequests
  BY SyncAnswers
<1> QED  BY <1>1, <1>2, <1>3, PTL DEF Spec

\* And an entry that the command ring or a working endpoint is to run next is
\* never rewritten by the driver, though nothing in its `queue` asks.
THEOREM TheControllerFindsItsWork == OthersComeLast => (Spec => QueuedWorkIsNotOverwritten)
<1> SUFFICES ASSUME OthersComeLast PROVE Spec => QueuedWorkIsNotOverwritten
  OBVIOUS
<1> DEFINE Inv == TypeInv /\ BuffersInv /\ SyncInv
<1>1. Init => Inv
  BY TypeInit, BuffersInit, SyncInit DEF SyncInv
<1>2. Inv /\ [Next]_vars => Inv'
  BY TypeStep, BuffersStep, SyncStep
<1>3. Inv /\ [Next]_vars => [timedOut' \/ WorkIsKept]_vars
  BY SyncStep
<1> QED  BY <1>1, <1>2, <1>3, PTL DEF Spec, QueuedWorkIsNotOverwritten
=============================================================================
