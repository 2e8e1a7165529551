------------------------------ MODULE Redundancy ------------------------------
(***************************************************************************)
(* `Protected` of nanochrono-core/src/redundancy.rs, bit for bit: a word,  *)
(* its check byte, and two replicas that carry a check byte of their own.  *)
(*                                                                         *)
(* Upsets flip single bits anywhere in the 3 * 72 bits while the program   *)
(* writes the word (Set), reads it through the code (GetChecked) and       *)
(* scrubs it (Verify).  `truth` is a history variable: the value last      *)
(* written by the program, which is what every read ought to return.       *)
(***************************************************************************)
EXTENDS Secded

CONSTANTS
  Values,         \* the values the program stores
  Exposed,        \* bound: the bits of each copy that upsets reach
  FlipsPerCopy,   \* bound: wrong bits outstanding in one copy
  UpsetBudget     \* bound: wrong bits outstanding in the three copies

Copies   == {"primary", "replica0", "replica1"}
Replicas == {"replica0", "replica1"}

\* The bits of one copy, value and check byte, as inject_flip numbers them.
CopyBits == 0 .. DataWidth + ParityWidth

EveryBit == [c \in Copies |-> CopyBits]

ASSUME RedundancyAssumption ==
  /\ Values \subseteq SUBSET DataBits
  /\ Exposed \in [Copies -> SUBSET CopyBits]
  /\ FlipsPerCopy \in Nat
  /\ UpsetBudget \in Nat

VARIABLES
  word,           \* the three copies as they are in memory
  truth,          \* history: the value the program last wrote
  outcome         \* history: what the check just made reported

vars == <<word, truth, outcome>>

-----------------------------------------------------------------------------
(* enum Integrity.  `detail` is the `bit` or the `outvoted` it carries.    *)

Clean             == [tier |-> "Clean", detail |-> 0]
CorrectedByEcc(b) == [tier |-> "CorrectedByEcc", detail |-> b]
CorrectedByTmr(n) == [tier |-> "CorrectedByTmr", detail |-> n]
Unrecoverable     == [tier |-> "Unrecoverable", detail |-> 0]

IsUsable(integrity)    == integrity.tier # "Unrecoverable"
WasRepaired(integrity) == integrity.tier \in {"CorrectedByEcc", "CorrectedByTmr"}

-----------------------------------------------------------------------------
(* struct Protected and its replicas.                                      *)

Encoded(v) == [value |-> v, check |-> CheckOf(v)]

New(v) == [c \in Copies |-> Encoded(v)]

\* The mistake of a vote by copies that do not satisfy their own code.
CandidateUnchecked(copy) == {copy.value}

\* The mistake of a vote by undamaged copies only.
CandidateUnrepaired(copy) ==
  IF Decode(copy.value, copy.check).kind = "Clean" THEN {copy.value} ELSE {}

\* Replica::candidate; an Option is a set of at most one value.
Candidate(copy) ==
  LET d == Decode(copy.value, copy.check)
  IN  IF d.kind = "DoubleError" THEN {} ELSE {d.data}

\* The primary reaches the vote because its code failed: it has no ballot.
Ballot(w, c) == IF c \in Replicas THEN Candidate(w[c]) ELSE {}

Agreeing(w, v) == {c \in Copies : v \in Ballot(w, c)}

Winners(w) ==
  {v \in UNION {Ballot(w, c) : c \in Copies} : Cardinality(Agreeing(w, v)) >= 2}

Found(value, integrity) == [value |-> value, integrity |-> integrity]

Vote(w) ==
  IF Winners(w) = {}
    THEN Found(w["primary"].value, Unrecoverable)
    ELSE LET v == CHOOSE v \in Winners(w) : TRUE
         IN  Found(v, CorrectedByTmr(3 - Cardinality(Agreeing(w, v))))

\* The ladder of tiers that get_checked and verify both climb.
Examine(w) ==
  LET d == Decode(w["primary"].value, w["primary"].check)
  IN  CASE d.kind = "Clean"       -> Found(d.data, Clean)
        [] d.kind = "Corrected"   -> Found(d.data, CorrectedByEcc(d.bit))
        [] d.kind = "DoubleError" -> Vote(w)

\* The mistake of repairing the working copy only.
RepairOfPrimary(w) ==
  LET f == Examine(w)
  IN  IF WasRepaired(f.integrity) THEN [w EXCEPT !["primary"] = Encoded(f.value)] ELSE w

\* The mistake of rewriting the copies from a word beyond repair.
RepairAlways(w) == New(Examine(w).value)

\* Every repair rewrites all three copies; nothing else touches them.
Repair(w) ==
  LET f == Examine(w)
  IN  IF WasRepaired(f.integrity) THEN New(f.value) ELSE w

\* The bits in which copy c differs from what the program wrote, numbered as
\* inject_flip numbers them.
Damage(c) ==
  Xor(word[c].value, truth) \cup
    {DataWidth + k : k \in Xor(word[c].check, CheckOf(truth))}

Flipped(copy, b) ==
  IF b \in DataBits
    THEN [copy EXCEPT !.value = Xor(@, {b})]
    ELSE [copy EXCEPT !.check = Xor(@, {b - DataWidth})]

-----------------------------------------------------------------------------

NoOutcome == [by |-> "none"]

Report(by, found) ==
  [by |-> by, value |-> found.value, integrity |-> found.integrity]

Init ==
  /\ truth \in Values
  /\ word = New(truth)
  /\ outcome = NoOutcome

Set(v) ==
  /\ word' = New(v)
  /\ truth' = v
  /\ outcome' = NoOutcome

\* A single-event upset, or a fault injected by inject_flip.
Flip(c, b) ==
  /\ word' = [word EXCEPT ![c] = Flipped(@, b)]
  /\ outcome' = NoOutcome
  /\ UNCHANGED truth
  /\ Cardinality(Damage(c)') <= FlipsPerCopy
  /\ Cardinality(Damage("primary")') + Cardinality(Damage("replica0")')
       + Cardinality(Damage("replica1")') <= UpsetBudget

GetChecked ==
  /\ outcome' = Report("get_checked", Examine(word))
  /\ UNCHANGED <<word, truth>>

Verify ==
  /\ outcome' = Report("verify", Examine(word))
  /\ word' = Repair(word)
  /\ UNCHANGED truth

Next ==
  \/ \E v \in Values : Set(v)
  \/ \E c \in Copies : \E b \in Exposed[c] : Flip(c, b)
  \/ GetChecked
  \/ Verify

Spec == Init /\ [][Next]_vars

-----------------------------------------------------------------------------
(* Properties.                                                             *)

\* Every copy is a 64-bit word with an 8-bit check byte, and a report is one
\* of the four outcomes of enum Integrity.
TypeOK ==
  /\ word \in [Copies -> [value : SUBSET DataBits, check : SUBSET CheckBits]]
  /\ truth \in Values
  /\ outcome \in {NoOutcome} \cup
       [by        : {"get_checked", "verify"},
        value     : SUBSET DataBits,
        integrity : [tier : {"Clean", "CorrectedByEcc", "CorrectedByTmr",
                             "Unrecoverable"},
                     detail : Nat]]

Wrong(c) == Cardinality(Damage(c))

\* What SECDED plus the vote is specified for: the primary's code still knows
\* it is damaged, and the replicas cannot both be forged.
Tolerable ==
  \/ Wrong("primary") <= 1
  \/ Wrong("primary") = 2 /\ \E r \in Replicas : Wrong(r) <= 2

\* A check that calls the value usable hands out the value the program wrote,
\* whatever has happened to the replicas as long as they are not both past
\* what their own code detects.  get_checked, verify and the vote behind them
\* (redundancy.rs:415-508).
UsableIsTrue ==
  Tolerable /\ IsUsable(Examine(word).integrity) => Examine(word).value = truth

\* A word is only given up when it has to be: one flip in the primary is
\* always repaired, two are repaired while each replica has at most one.
RecoverableIsRecovered ==
  \/ Wrong("primary") <= 1
  \/ Wrong("primary") = 2 /\ \A r \in Replicas : Wrong(r) <= 1
  => IsUsable(Examine(word).integrity)

\* The tier that answers is the one the damage calls for: the code corrects
\* every single flip and notices every double one, and never cries wolf over
\* an intact primary (decode, redundancy.rs:283-319).
TierMatchesDamage ==
  LET tier == Examine(word).integrity.tier
  IN  /\ Wrong("primary") = 0 => tier = "Clean"
      /\ Wrong("primary") = 1 => tier = "CorrectedByEcc"
      /\ Wrong("primary") = 2 => tier \in {"CorrectedByTmr", "Unrecoverable"}

\* What a reader of a word relies on: the answer, and what is said of it.
AnswersAreTrue == UsableIsTrue /\ TierMatchesDamage

\* A repair cleans all three copies at once, so latent replica damage does not
\* outlive it (verify and repair_by_vote, redundancy.rs:474-507).
RepairIsComplete ==
  [][Tolerable /\ outcome'.by = "verify" /\ WasRepaired(outcome'.integrity)
       => word' = New(truth)]_vars

-----------------------------------------------------------------------------
(* The word seen as what was written and which bits have flipped since     *)
(* implements the promise the rest of the toolkit is modelled over.        *)

Promise ==
  INSTANCE WordPromise WITH
    ValueBits <- DataBits,
    CodeBits  <- CopyBits \ DataBits,
    Upset     <- Xor,
    word      <- [stored |-> truth, flipped |-> [c \in Copies |-> Damage(c)]],
    outcome   <- IF outcome = NoOutcome
                   THEN NoOutcome
                   ELSE [by |-> outcome.by, value |-> outcome.value,
                         tier |-> outcome.integrity.tier]

\* With at most two wrong bits in a copy, the code keeps the promise.
KeepsPromise == Promise!Spec
=============================================================================
