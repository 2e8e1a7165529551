----------------------------- MODULE WordPromise -----------------------------
(***************************************************************************)
(* The promise of one protected word as a specification: upsets arrive in  *)
(* any order, at most FlipsPerCopy of them outstanding in a copy, and the  *)
(* program writes, reads and scrubs the word between them.                 *)
(***************************************************************************)
EXTENDS ProtectedWord

CONSTANTS
  Values,         \* what the program stores
  FlipsPerCopy    \* bound: flipped bits outstanding in one copy

VARIABLES
  word,           \* what was written and what has flipped since
  outcome         \* what the check just made reported

vars == <<word, outcome>>

NoOutcome == [by |-> "none"]

Report(by, value, tier) == [by |-> by, value |-> value, tier |-> tier]

Init ==
  /\ \E v \in Values : word = Fresh(v)
  /\ outcome = NoOutcome

Set(v) ==
  /\ word' = Fresh(v)
  /\ outcome' = NoOutcome

Flip(c, b) ==
  /\ Cardinality(Toggle(word.flipped[c], b)) <= FlipsPerCopy
  /\ word' = FlipBit(word, c, b)
  /\ outcome' = NoOutcome

GetChecked ==
  /\ outcome' = Report("get_checked", Checked(word), Integrity(word))
  /\ UNCHANGED word

Verify ==
  /\ outcome' = Report("verify", Checked(word), Integrity(word))
  /\ word' = Scrubbed(word)

Next ==
  \/ \E v \in Values : Set(v)
  \/ \E c \in Copies, b \in CopyBits : Flip(c, b)
  \/ GetChecked
  \/ Verify

Spec == Init /\ [][Next]_vars
=============================================================================
