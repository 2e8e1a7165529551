----------------------------- MODULE MCStopwatch -----------------------------
(***************************************************************************)
(* Instances of Stopwatch for TLC.                                         *)
(***************************************************************************)
EXTENDS Stopwatch, FiniteSetsExt

\* Exclusive or of a number with the bits S.
XorBits(v, S) ==
  FoldSet(LAMBDA b, sum : IF (v \div 2^b) % 2 = 1 THEN sum - 2^b ELSE sum + 2^b, v, S)

TwoValueBits == {0, 2}
OneValueBit  == {1}
OneCodeBit   == {3}

OwnWords  == {"accumulated", "start", "laps"}

\* Two flips in the primary and one in a replica: a word still recovers.
OneReplica == [c \in Copies |-> CASE c = "primary" -> 2 [] c = "replica0" -> 1
                                  [] c = "replica1" -> 0]

\* The words of the program are 64 bits with a code of 7 + 1: the layout that
\* RedundancyProofs takes from them, on which the promise of a word rests.
Program == INSTANCE Secded WITH DataWidth <- 64, ParityWidth <- 7

ASSUME ProgramLayout == Program!Layout
=============================================================================
