---------------------------- MODULE CryptoBench -----------------------------
(***************************************************************************)
(* kcrypto.rs: a session of the kernel's crypto interface, from socket to  *)
(* close, in a process whose other threads open and close files meanwhile. *)
(*                                                                         *)
(* nanochrono-bench: three passes over a workload, what is timed and what  *)
(* it is divided by.                                                       *)
(***************************************************************************)
EXTENDS Integers, Sequences, FiniteSetsExt

CONSTANTS
  MostFiles,   \* bound: the descriptors of the process are 0 .. MostFiles
  Payload,   \* the bytes of a call's data
  Calls,   \* bound: the calls of one session
  Loops, Repeats   \* the profile's, for each of the three passes

VARIABLES
  source,    \* the machine, and what is asked of it
  code,      \* what the world does beside the reader
  walk,      \* where the reader is
  answers    \* what came of it

cryptoVars == <<source, code, walk, answers>>

\* What is asked of a session, and of a benchmark.
Requests   == [kind : {"hash", "cipher"}, fits : BOOLEAN, asked : BOOLEAN, fails : Nat]
Benchmarks == [kernel : {"isa", "hash", "aead", "af_alg", "ring0", "tls"}, offered : BOOLEAN, opens : BOOLEAN]

NoFile == -1

CryptoInit ==
  /\ code = [files |-> [f \in 0 .. MostFiles |-> IF f = 0 THEN "std" ELSE "free"],
             fails |-> source.fails, ready |-> <<>>, stolen |-> FALSE]
  /\ walk = [pc |-> "socket", bound |-> NoFile, op |-> NoFile, call |-> 1, rest |-> 0, short |-> FALSE, out |-> <<>>]
  /\ answers = <<>>

At(pc)     == walk.pc = pc
Free       == {f \in DOMAIN code.files : code.files[f] = "free"}
CryptoDone == At("gone")

\* A file that is closed twice may be somebody else's by then.
Closed(c, f) ==
  IF f < 0 THEN c
  ELSE [c EXCEPT !.files[f] = "free", !.stolen = @ \/ c.files[f] # "session"]

\* What the kernel refuses, as often as the source says.
Refused == code.fails > 0

Give(next) == walk' = [next EXCEPT !.pc = "drop"] /\ code' = [code EXCEPT !.fails = @ - 1]

(***************************************************************************)
(* Session::open().  A name too long is refused before there is a socket;  *)
(* after that, whatever fails, the session is dropped.                     *)
(***************************************************************************)
NameTooLong == At("socket") /\ ~source.fits /\ walk' = [walk EXCEPT !.pc = "gone"] /\ UNCHANGED code

Socket ==
  /\ At("socket") /\ source.fits
  /\ \/ Refused /\ walk' = [walk EXCEPT !.pc = "gone"] /\ UNCHANGED code
     \/ Free # {} /\ LET f == Min(Free)
                     IN /\ code' = [code EXCEPT !.files[f] = "session"]
                        /\ walk' = [walk EXCEPT !.pc = "bind", !.bound = f]

Bind ==
  /\ At("bind")
  /\ \/ Refused /\ Give(walk)
     \/ /\ walk' = [walk EXCEPT !.pc = IF source.kind = "cipher" THEN "setKey" ELSE "accept"]
        /\ UNCHANGED code

SetKey ==
  /\ At("setKey")
  /\ \/ Refused /\ Give(walk)
     \/ walk' = [walk EXCEPT !.pc = "accept"] /\ UNCHANGED code

\* The mistake of returning a copy of the session and dropping the original.
AcceptedByCopy(f) == [Closed(code, walk.bound) EXCEPT !.files[f] = "session"]

Accepted(f) == [code EXCEPT !.files[f] = "session"]

Accept ==
  /\ At("accept")
  /\ \/ Refused /\ Give(walk)
     \/ Free # {} /\ LET f == Min(Free)
                     IN /\ code' = Accepted(f)
                        /\ walk' = [walk EXCEPT !.pc = "call", !.op = f]

OutOfFiles == (At("socket") \/ At("accept")) /\ Free = {} /\ UNCHANGED code
              /\ walk' = [walk EXCEPT !.pc = IF At("socket") THEN "gone" ELSE "drop"]

(***************************************************************************)
(* The kernel's side of a call: a write of a hash is one by itself, and    *)
(* what is read is what the last one made.  A datum is the call it came    *)
(* with.                                                                   *)
(***************************************************************************)
Data(n) == [i \in 1 .. n |-> walk.call]

Return(ok, out) ==
  /\ answers' = Append(answers, [ok |-> ok, out |-> out, call |-> walk.call, short |-> walk.short])
  /\ walk' = [walk EXCEPT !.pc = IF walk.call = Calls THEN "drop" ELSE "call",
                          !.call = @ + 1, !.short = FALSE, !.out = <<>>]

Failed == Return(FALSE, <<>>)

\* A vector too long, or room for less than there is: refused before the kernel.
Begin ==
  /\ At("call")
  /\ IF source.kind = "cipher" /\ ~source.asked
     THEN Failed
     ELSE walk' = [walk EXCEPT !.pc = IF source.kind = "hash" THEN "write" ELSE "send", !.rest = Payload]
          /\ UNCHANGED answers
  /\ UNCHANGED code

\* digest(): write_all() until nothing is left, then one read.
Write ==
  /\ At("write")
  /\ IF walk.rest = 0 THEN walk' = [walk EXCEPT !.pc = "read"] /\ UNCHANGED <<code, answers>>
     ELSE \/ Refused /\ Failed /\ code' = [code EXCEPT !.fails = @ - 1]
          \/ \E n \in 1 .. walk.rest :
               /\ n < walk.rest => Refused
               /\ code' = [code EXCEPT !.ready = Data(n), !.fails = IF n < walk.rest THEN @ - 1 ELSE @]
               /\ walk' = [walk EXCEPT !.rest = @ - n, !.short = @ \/ n < walk.rest]
               /\ UNCHANGED answers

ReadDigest ==
  /\ At("read") /\ source.kind = "hash"
  /\ \/ Refused /\ Failed /\ code' = [code EXCEPT !.fails = @ - 1]
     \/ Return(TRUE, code.ready) /\ UNCHANGED code

\* encrypt(): one request, whose size nobody looks at, then reads until it is
\* all there or nothing comes.
Send ==
  /\ At("send")
  /\ \/ (Refused \/ code.ready # <<>>) /\ Failed
        /\ code' = [code EXCEPT !.fails = IF @ > 0 THEN @ - 1 ELSE 0]
     \/ \E n \in 1 .. Payload :
          /\ code.ready = <<>> /\ (n < Payload => Refused)
          /\ code' = [code EXCEPT !.ready = Data(n), !.fails = IF n < Payload THEN @ - 1 ELSE @]
          /\ walk' = [walk EXCEPT !.pc = "read", !.short = n < Payload] /\ UNCHANGED answers

ReadCipher ==
  /\ At("read") /\ source.kind = "cipher"
  /\ \/ Refused /\ Failed /\ code' = [code EXCEPT !.fails = @ - 1]
     \/ (Len(walk.out) = Payload \/ code.ready = <<>>) /\ Return(TRUE, walk.out) /\ UNCHANGED code
     \/ \E n \in 1 .. Min({Payload - Len(walk.out), Len(code.ready)}) :
          /\ walk' = [walk EXCEPT !.out = @ \o SubSeq(code.ready, 1, n)]
          /\ code' = [code EXCEPT !.ready = SubSeq(@, n + 1, Len(@))]
          /\ UNCHANGED answers

(***************************************************************************)
(* Drop: one descriptor and then the other, each a call by itself.         *)
(***************************************************************************)
CloseOp ==
  /\ At("drop")
  /\ code' = Closed(code, walk.op) /\ walk' = [walk EXCEPT !.pc = "close"]

CloseBound ==
  /\ At("close")
  /\ code' = Closed(code, walk.bound) /\ walk' = [walk EXCEPT !.pc = "gone"]

(***************************************************************************)
(* The rest of the process has a file, or has not.                         *)
(***************************************************************************)
OtherThread ==
  /\ ~CryptoDone
  /\ LET theirs == {f \in DOMAIN code.files : code.files[f] = "other"}
     IN \/ theirs = {} /\ Free # {} /\ code' = [code EXCEPT !.files[Min(Free)] = "other"]
        \/ \E f \in theirs : code' = [code EXCEPT !.files[f] = "free"]
  /\ UNCHANGED walk

CryptoNext ==
  /\ \/ (NameTooLong \/ Socket \/ Bind \/ SetKey \/ Accept \/ OutOfFiles) /\ UNCHANGED answers
     \/ Begin \/ Write \/ ReadDigest \/ Send \/ ReadCipher
     \/ (CloseOp \/ CloseBound \/ OtherThread) /\ UNCHANGED answers
  /\ UNCHANGED source

(***************************************************************************)
(* Wherever a session fails, its files are closed when it is gone, each    *)
(* once, and never another's: descriptors are used again at once.  What a  *)
(* call returns is of its own data and of all of it, whatever became of    *)
(* the calls before - unless the kernel took the data in pieces, of which  *)
(* a digest is of the last one, and a cipher of the first.                 *)
(***************************************************************************)
SessionsAreClean ==
  /\ ~code.stolen
  /\ CryptoDone => \A f \in DOMAIN code.files : code.files[f] # "session"
  /\ \A k \in DOMAIN answers :
       LET a == answers[k]
       IN a.ok => /\ \A i \in DOMAIN a.out : a.out[i] = a.call
                  /\ ~a.short => Len(a.out) = Payload

benchVars == <<source, code, walk, answers>>

BenchInit ==
  /\ code = [works |-> TRUE, ran |-> 0]
  /\ walk = [pc |-> "available", pass |-> 1, repeat |-> 1, i |-> 1, ran |-> 0, failed |-> FALSE, passes |-> <<>>]
  /\ answers = <<>>

InStage(pc)    == walk.pc = pc
BenchDone == answers # <<>>

\* Kernels whose calls can fail: those of another party.
CanFail == source.kernel \in {"af_alg", "ring0", "tls"}

Report(error, passes) == answers' = <<[error |-> error, passes |-> passes]>> /\ UNCHANGED walk

Fails == Report(TRUE, <<>>)

(***************************************************************************)
(* BenchKernel::is_available() asks of the instruction set, of the crypto  *)
(* interface and its algorithms, or of the kernel module's report; then    *)
(* Workload::new() may still fail to open what it needs.                   *)
(***************************************************************************)
Available ==
  /\ InStage("available")
  /\ IF ~source.offered THEN Fails
     ELSE /\ walk' = [walk EXCEPT !.pc = IF source.kernel \in {"ring0", "tls"} THEN source.kernel ELSE "workload"]
          /\ UNCHANGED answers
  /\ UNCHANGED code

Workload ==
  /\ InStage("workload")
  /\ IF source.kernel \in {"af_alg", "aead"} /\ ~(source.opens /\ (CanFail => code.works)) THEN Fails
     ELSE walk' = [walk EXCEPT !.pc = "pass", !.ran = code.ran] /\ UNCHANGED answers
  /\ UNCHANGED code

(***************************************************************************)
(* run_pass(): execute() runs the loops, and stops at a call that fails;   *)
(* the next repeat begins again.  The pass has the operations of its       *)
(* profile.                                                                *)
(***************************************************************************)
RunOne ==
  /\ InStage("pass") /\ walk.repeat <= Repeats[walk.pass] /\ walk.i <= Loops[walk.pass]
  /\ IF CanFail /\ ~code.works
     THEN walk' = [walk EXCEPT !.repeat = @ + 1, !.i = 1, !.failed = TRUE] /\ UNCHANGED code
     ELSE walk' = [walk EXCEPT !.i = @ + 1] /\ code' = [code EXCEPT !.ran = @ + 1]
  /\ UNCHANGED answers

NextRepeat ==
  /\ InStage("pass") /\ walk.repeat <= Repeats[walk.pass] /\ walk.i > Loops[walk.pass]
  /\ walk' = [walk EXCEPT !.repeat = @ + 1, !.i = 1]
  /\ UNCHANGED <<code, answers>>

\* The mistake of counting the loops of one repeat.
OpsOfOneRepeat(p) == Loops[p]

OpsOf(p) == Repeats[p] * Loops[p]

\* A further pass, or the summary of them all.
Done(passes) ==
  IF walk.pass = 3 THEN Report(FALSE, passes)
  ELSE /\ walk' = [walk EXCEPT !.pass = @ + 1, !.repeat = 1, !.i = 1, !.passes = passes, !.ran = code.ran, !.failed = FALSE]
       /\ UNCHANGED answers

EndPass ==
  /\ InStage("pass") /\ walk.repeat > Repeats[walk.pass]
  /\ Done(Append(walk.passes, [ops |-> OpsOf(walk.pass), ran |-> code.ran - walk.ran, failed |-> walk.failed]))
  /\ UNCHANGED code

(***************************************************************************)
(* run_ring0(): each pass is a read of the module's report, in which the   *)
(* algorithm has been run again.  One that is not there any more ends it.  *)
(***************************************************************************)
PassOfRing0 ==
  /\ InStage("ring0")
  /\ IF code.works /\ source.opens
     THEN /\ code' = [code EXCEPT !.ran = @ + 1]
          /\ Done(Append(walk.passes, [ops |-> 1, ran |-> 1, failed |-> FALSE]))
     ELSE Fails /\ UNCHANGED code

(***************************************************************************)
(* run_tls(): a handshake that fails is no pass, and an error if it is the *)
(* first.                                                                  *)
(***************************************************************************)
PassOfTls ==
  /\ InStage("tls")
  /\ IF code.works
     THEN /\ code' = [code EXCEPT !.ran = @ + 1]
          /\ Done(Append(walk.passes, [ops |-> 1, ran |-> 1, failed |-> FALSE]))
     ELSE /\ IF walk.passes = <<>> THEN Fails ELSE Done(walk.passes)
          /\ UNCHANGED code

\* The other party goes away, or comes back.
Turn == CanFail /\ code' = [code EXCEPT !.works = ~@] /\ UNCHANGED <<walk, answers>>

BenchNext ==
  /\ ~BenchDone
  /\ \/ Available \/ Workload \/ RunOne \/ NextRepeat \/ EndPass \/ PassOfRing0 \/ PassOfTls \/ Turn
  /\ UNCHANGED source

(***************************************************************************)
(* A report without an error has its three passes (a handshake's at least  *)
(* one), and each counts as many operations as were run, unless a call of  *)
(* it failed.  Only AF_ALG's pass goes on after a call that fails, and     *)
(* then it counts operations that were not run.                            *)
(***************************************************************************)
PassesCountWhatRan ==
  BenchDone =>
    LET r == answers[1]
    IN /\ ~r.error => Len(r.passes) \in (IF source.kernel = "tls" THEN 1 .. 3 ELSE {3})
       /\ \A k \in DOMAIN r.passes :
            LET p == r.passes[k]
            IN p.ran <= p.ops /\ (p.ran = p.ops \/ (p.failed /\ source.kernel = "af_alg"))

=============================================================================
