---------------------------- MODULE ProtectedWord ----------------------------
(***************************************************************************)
(* What nanochrono-core promises of one `Protected` word, without its      *)
(* code: a word is the value it was last written with and, for each of its *)
(* three copies, the set of bits that have flipped since.  Every copy has  *)
(* the same bits, those of the value and those of the check byte, numbered *)
(* as inject_flip numbers them.                                            *)
(*                                                                         *)
(* The definitions speak for copies with at most two flipped bits, the     *)
(* damage SECDED is specified for.  Redundancy.tla has the code itself and *)
(* implements WordPromise.tla, the specification made of these operators.  *)
(***************************************************************************)
EXTENDS Integers, FiniteSets

CONSTANTS
  ValueBits,     \* bits of a copy that hold the value
  CodeBits,      \* bits of a copy that hold its check byte
  Upset(_, _)    \* Upset(v, S): the value v with the bits S flipped

Copies   == {"primary", "replica0", "replica1"}
Replicas == {"replica0", "replica1"}
CopyBits == ValueBits \cup CodeBits

Tiers   == {"Clean", "CorrectedByEcc", "CorrectedByTmr", "Unrecoverable"}
Repairs == {"CorrectedByEcc", "CorrectedByTmr"}

Toggle(S, x) == (S \ {x}) \cup ({x} \ S)

\* Protected::new and Protected::set
Fresh(v) == [stored |-> v, flipped |-> [c \in Copies |-> {}]]

\* One upset, or Protected::inject_flip
FlipBit(w, c, b) == [w EXCEPT !.flipped[c] = Toggle(@, b)]

\* Protected::get, which checks nothing
Get(w) == Upset(w.stored, w.flipped["primary"] \cap ValueBits)

\* The tier that answers a check of the word.
Integrity(w) ==
  LET n == Cardinality(w.flipped["primary"])
  IN  CASE n = 0 -> "Clean"
        [] n = 1 -> "CorrectedByEcc"
        [] n > 1 -> IF \A r \in Replicas : Cardinality(w.flipped[r]) <= 1
                      THEN "CorrectedByTmr" ELSE "Unrecoverable"

\* The value Protected::get_checked and get_verified hand out.
Checked(w) == IF Integrity(w) = "Unrecoverable" THEN Get(w) ELSE w.stored

\* The mistake of leaving what only the vote can repair.
ScrubbedByCodeOnly(w) == IF Integrity(w) = "CorrectedByEcc" THEN Fresh(w.stored) ELSE w

\* What Protected::verify leaves in storage.  A clean primary never consults
\* the replicas, so their damage stays.
Scrubbed(w) == IF Integrity(w) \in Repairs THEN Fresh(w.stored) ELSE w

\* Integrity::severity and Integrity::max
Severity == [Clean |-> 0, CorrectedByEcc |-> 1, CorrectedByTmr |-> 2,
             Unrecoverable |-> 3]

Worse(a, b) == IF Severity[b] > Severity[a] THEN b ELSE a
=============================================================================
