---------------------------- MODULE TimeSources -----------------------------
(***************************************************************************)
(* ntp.rs: one query.  Each address that the name resolves to is asked in  *)
(* turn over one socket, which takes whatever datagram comes next.         *)
(*                                                                         *)
(* kvmclock.rs: threads that want to know how this machine relates to its  *)
(* host, of which one asks, while the clocks of both go on.                *)
(***************************************************************************)
EXTENDS Integers, Sequences, SequencesExt

CONSTANTS
  Era,   \* the seconds of an NTP era: 2^32
  Delta,   \* NTP_UNIX_DELTA
  LongestQuery,   \* bound: the ticks of a query
  MostSent,   \* bound: copies of one reply that arrive
  Threads,
  LongestPairing   \* bound: the ticks and steps of the guest's clock

VARIABLES
  source,    \* the machine, and what is asked of it
  code,      \* what the world does beside the reader
  walk,      \* where the reader is
  answers    \* what came of it

ntpVars == <<source, code, walk, answers>>

\* Servers, what they answer, how far ahead they are of this clock, and what
\* it may be set by.  The server's time is of the era that began in 1900 or
\* of the next, and no earlier than 1970.
Kinds == {"honest", "short", "kiss", "client", "silent"}

Queries ==
  {s \in [addresses : Seq([family : {"v4", "v6"}, kind : Kinds]), ahead : Int, start : Nat, steps : SUBSET Int] :
     s.start + s.ahead >= 0 /\ s.start + LongestQuery + s.ahead < Era}

NtpInit ==
  /\ code = [now |-> source.start, step |-> 0, asked |-> {}, replies |-> <<>>, inbox |-> <<>>]
  /\ walk = [pc |-> "open", i |-> 1, t1 |-> 0, step |-> 0, packet |-> "query"]
  /\ answers = <<>>

At(pc)  == walk.pc = pc
Address == source.addresses[walk.i]
More    == walk.i <= Len(source.addresses)

\* The wall clock, which somebody may set.
Wall == code.now + code.step

(***************************************************************************)
(* finish().  The seconds of an era that began after 1970 are below the    *)
(* distance of the epochs, and so taken for no time at all.                *)
(***************************************************************************)
NtpTimestamp(unix) == (unix + Delta) % Era

NtpTimestampToUnix(stamp) == IF stamp < Delta THEN 0 ELSE stamp - Delta

Acceptable(reply) ==
  /\ reply.kind \notin {"client", "kiss"}      \* its mode, and its stratum
  /\ NtpTimestampToUnix(reply.stamp) # 0
  /\ Wall >= walk.t1                           \* "local clock stepped"

\* The mistake of taking the time of arrival for the middle.
MidpointAtEnd(t1, t4) == t4

Midpoint(t1, t4) == t1 + (t4 - t1) \div 2

Sample(reply) ==
  [ok |-> TRUE, delay |-> Wall - walk.t1, reply |-> reply, asked |-> walk.i,
   offset |-> NtpTimestampToUnix(reply.stamp) - Midpoint(walk.t1, Wall),
   steady |-> walk.step = code.step, behind |-> source.ahead - code.step]

Failed == [ok |-> FALSE]

(***************************************************************************)
(* query().  A reply that is refused ends it; only an address that does    *)
(* not answer, or too shortly, is followed by the next.                    *)
(***************************************************************************)
End(answer) == answers' = Append(answers, answer) /\ walk' = [walk EXCEPT !.pc = "done"]

NextAddress(packet) ==
  /\ walk' = [walk EXCEPT !.pc = "stamp", !.i = @ + 1, !.packet = packet]
  /\ UNCHANGED answers

\* The socket is of the family of the first address.
OpenSocket ==
  /\ At("open")
  /\ IF source.addresses = <<>> THEN End(Failed) ELSE walk' = [walk EXCEPT !.pc = "stamp"] /\ UNCHANGED answers
  /\ UNCHANGED code

Stamp ==
  /\ At("stamp") /\ More
  /\ walk' = [walk EXCEPT !.pc = "send", !.t1 = Wall, !.step = code.step]
  /\ UNCHANGED <<code, answers>>

\* What is sent is what the last datagram left in the packet: an empty one
\* leaves the query, another the start of a reply, which no server answers.
Send ==
  /\ At("send")
  /\ IF Address.family # source.addresses[1].family
     THEN NextAddress(walk.packet) /\ UNCHANGED code
     ELSE /\ code' = [code EXCEPT !.asked = IF walk.packet = "query" THEN @ \cup {walk.i} ELSE @]
          /\ walk' = [walk EXCEPT !.pc = "recv"] /\ UNCHANGED answers

Receive ==
  /\ At("recv") /\ code.inbox # <<>>
  /\ LET reply == Head(code.inbox)
     IN IF reply.kind = "short" THEN \E packet \in {walk.packet, "reply"} : NextAddress(packet)
        ELSE End(IF Acceptable(reply) THEN Sample(reply) ELSE Failed)
  /\ code' = [code EXCEPT !.inbox = Tail(@)]

\* The read timeout, or a send that fails.
Timeout == At("recv") /\ code.inbox = <<>> /\ NextAddress(walk.packet) /\ UNCHANGED code

NobodyAnswered == At("stamp") /\ ~More /\ End(Failed) /\ UNCHANGED code

Program ==
  \/ OpenSocket \/ Stamp \/ Send \/ Receive \/ Timeout \/ NobodyAnswered

(***************************************************************************)
(* The network: requests and replies are lost, delayed and doubled.  The   *)
(* clock goes on and may be set once.                                      *)
(***************************************************************************)
Serve(i) ==
  /\ i \in code.asked /\ source.addresses[i].kind # "silent"
  /\ code' = [code EXCEPT !.asked = @ \ {i},
                          !.replies = Append(@, [from |-> i, kind |-> source.addresses[i].kind, sent |-> 0,
                                                 stamp |-> NtpTimestamp(code.now + source.ahead)])]

Deliver(k) ==
  /\ code.replies[k].sent < MostSent
  /\ code' = [code EXCEPT !.replies[k].sent = @ + 1,
                          !.inbox = Append(@, code.replies[k])]

Tick == code.now < source.start + LongestQuery /\ code' = [code EXCEPT !.now = @ + 1]

SetClock == code.step = 0 /\ \E step \in source.steps : code' = [code EXCEPT !.step = step]

World ==
  /\ ~At("done")
  /\ \/ \E i \in DOMAIN source.addresses : Serve(i)
     \/ \E k \in DOMAIN code.replies : Deliver(k)
     \/ Tick \/ SetClock
  /\ UNCHANGED <<walk, answers>>

NtpNext == (Program \/ World) /\ UNCHANGED source

NtpDone == At("done")

(***************************************************************************)
(* A sample is of a server that gave the time, asked in this query.  If it *)
(* is the server asked last and nobody set the clock meanwhile, the offset *)
(* is as near the true one as the uncertainty says (half the delay, up to  *)
(* the nanosecond that the halving drops), whatever the network did.  The  *)
(* only other sample is a late reply to an earlier request, which nothing  *)
(* tells from an answer.                                                   *)
(***************************************************************************)
Abs(n) == IF n < 0 THEN -n ELSE n

OffsetIsWithinItsUncertainty ==
  \A a \in {answers[k] : k \in DOMAIN answers} : a.ok =>
    /\ a.reply.kind = "honest" /\ a.reply.from <= a.asked
    /\ a.reply.from = a.asked /\ a.steady => 2 * Abs(a.offset - a.behind) <= a.delay + 1

hostVars == <<source, code, walk, answers>>

\* Guests, and the clocks that they are shown.
Guests ==
  [ahead : Int, paravirtual : BOOLEAN, opens : BOOLEAN, answers : BOOLEAN, clocks : Seq([name : STRING, number : Int])]

Nothing == <<>>

HostInit ==
  /\ code = [host |-> source.ahead, guest |-> 0, queries |-> 0, moved |-> 0]
  /\ walk = [cell |-> "empty", value |-> Nothing, at |-> [t \in Threads |-> "idle"], index |-> -1]
  /\ answers = [t \in Threads |-> Nothing]

HostDone == \A t \in Threads : walk.at[t] = "done"

Goes(t, pc) == [walk EXCEPT !.at[t] = pc]

(***************************************************************************)
(* cached(): the first to come reads, the others wait for it.              *)
(***************************************************************************)
\* The mistake of looking whether there is one, and reading where there is not.
ClaimUnlocked(t) == walk.cell # "full"

Claim(t) == walk.cell = "empty"

GetOrInit(t) ==
  /\ walk.at[t] = "idle" /\ Claim(t)
  /\ walk' = [Goes(t, "clocksource") EXCEPT !.cell = "busy"]
  /\ UNCHANGED <<code, answers>>

(***************************************************************************)
(* kvm_ptp_index(): the first KVM clock by its name; one whose number is   *)
(* none ends the search.                                                   *)
(***************************************************************************)
NamesTheKvmClock(c) == c.name = "kvm"

KvmPtpIndex ==
  LET i == SelectInSeq(source.clocks, NamesTheKvmClock)
  IN IF i = 0 THEN -1 ELSE source.clocks[i].number

Fill(t, pairing) ==
  walk' = [Goes(t, "idle") EXCEPT !.cell = "full",
           !.value = <<[follows |-> source.paravirtual, pairing |-> pairing]>>]

ReadClocksource(t) ==
  /\ walk.at[t] = "clocksource"
  /\ IF KvmPtpIndex = -1 THEN Fill(t, Nothing) /\ UNCHANGED code
     ELSE /\ walk' = [Goes(t, "pair") EXCEPT !.index = KvmPtpIndex]
          /\ code' = [code EXCEPT !.queries = @ + 1]
  /\ UNCHANGED answers

\* One call of the host, in which both clocks are read at once.
ReadPreciseOffset(t) ==
  /\ walk.at[t] = "pair"
  /\ Fill(t, IF source.opens /\ source.answers THEN <<[host |-> code.host, guest |-> code.guest]>> ELSE Nothing)
  /\ UNCHANGED <<code, answers>>

\* host_offset_ns(), of what everybody is given.
Given(t) ==
  /\ walk.at[t] = "idle" /\ walk.cell = "full"
  /\ walk' = Goes(t, "done")
  /\ answers' = [answers EXCEPT ![t] = walk.value]
  /\ UNCHANGED code

(***************************************************************************)
(* Both clocks go on, and the guest's is set.                              *)
(***************************************************************************)
ClocksGoOn ==
  /\ code.moved < LongestPairing
  /\ \E s \in {0, 1} : code' = [code EXCEPT !.host = @ + 1, !.guest = @ + 1 + s, !.moved = @ + 1]
  /\ UNCHANGED <<walk, answers>>

HostNext ==
  /\ ~HostDone
  /\ \/ \E t \in Threads : GetOrInit(t) \/ ReadClocksource(t) \/ ReadPreciseOffset(t) \/ Given(t)
     \/ ClocksGoOn
  /\ UNCHANGED source

(***************************************************************************)
(* The host is asked at most once however many threads want to know, all   *)
(* are given the same, and the offset is one that was true: the guest has  *)
(* only gone ahead of it since.                                            *)
(***************************************************************************)
Offset(p) == p.host - p.guest

HostIsAskedOnce ==
  /\ code.queries <= 1
  /\ \A t, u \in Threads : walk.at[t] = "done" /\ walk.at[u] = "done" => answers[t] = answers[u]
  /\ \A t \in Threads : walk.at[t] = "done" =>
       \A k \in DOMAIN answers[t][1].pairing :
         /\ source.opens /\ source.answers
         /\ Offset(answers[t][1].pairing[k]) \in Offset(code) .. source.ahead
=============================================================================
