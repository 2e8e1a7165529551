--------------------------- MODULE RedundancyProofs ---------------------------
(***************************************************************************)
(* First the code of Secded.tla: it corrects every single flip and detects *)
(* every double one, for every payload and for every pair of widths whose  *)
(* layout satisfies LayoutAssumption (64/7 does: MCStopwatch evaluates     *)
(* it).  The argument is linearity: the syndrome and the overall parity of *)
(* a damaged codeword are those of the set of flipped bits alone.          *)
(*                                                                         *)
(* Then what a protected word guarantees, for every width, every stored    *)
(* value and every history of upsets: its type, that a usable answer is    *)
(* the true one, that what can be recovered is, and that it implements     *)
(* WordPromise.  All four rest on CopyDecodes: the guarantees of the code  *)
(* restated in terms of how many bits of a copy are wrong.                 *)
(***************************************************************************)
EXTENDS Redundancy, FiniteSetTheorems, TLAPS

-----------------------------------------------------------------------------
(* The code.                                                               *)

\* Parity is additive.
LEMMA OddOfSum ==
  ASSUME NEW m \in Nat, NEW n \in Nat
  PROVE  Odd(m + n) <=> ~(Odd(m) <=> Odd(n))
BY DEF Odd

\* The parity of a population count is additive over XOR.
LEMMA OddOfXor ==
  ASSUME NEW A, NEW B, IsFiniteSet(A), IsFiniteSet(B)
  PROVE  /\ IsFiniteSet(Xor(A, B))
         /\ Cardinality(Xor(A, B)) \in Nat
         /\ Odd(Cardinality(Xor(A, B)))
              <=> ~(Odd(Cardinality(A)) <=> Odd(Cardinality(B)))
<1> DEFINE L == A \ B
           R == B \ A
           M == A \cap B
<1>1. IsFiniteSet(L) /\ IsFiniteSet(R) /\ IsFiniteSet(M)
  BY FS_Difference, FS_Intersection
<1>2. /\ Cardinality(L) \in Nat /\ Cardinality(R) \in Nat
      /\ Cardinality(M) \in Nat
      /\ Cardinality(A) \in Nat /\ Cardinality(B) \in Nat
  BY <1>1, FS_CardinalityType
<1>3. /\ Cardinality(L) = Cardinality(A) - Cardinality(M)
      /\ Cardinality(R) = Cardinality(B) - Cardinality(M)
  <2>1. B \cap A = M
    OBVIOUS
  <2>2. Cardinality(L) = Cardinality(A) - Cardinality(M)
    BY FS_Difference, Zenon
  <2>3. Cardinality(R) = Cardinality(B) - Cardinality(B \cap A)
    BY FS_Difference, Zenon
  <2>4. QED
    BY <2>1, <2>2, <2>3, Zenon
<1>4. /\ IsFiniteSet(L \cup R)
      /\ Cardinality(L \cup R) = Cardinality(L) + Cardinality(R)
  <2>1. L \cap R = {} /\ Cardinality({}) = 0
    BY FS_EmptySet
  <2>2. /\ IsFiniteSet(L \cup R)
        /\ Cardinality(L \cup R) =
             Cardinality(L) + Cardinality(R) - Cardinality(L \cap R)
    BY <1>1, FS_Union
  <2> HIDE DEF L, R
  <2>3. QED
    BY <1>2, <2>1, <2>2
<1>5. Xor(A, B) = L \cup R
  BY DEF Xor
<1>6. Odd(Cardinality(L) + Cardinality(R))
        <=> ~(Odd(Cardinality(A)) <=> Odd(Cardinality(B)))
  <2>1. /\ Odd(Cardinality(A)) <=> ~(Odd(Cardinality(L)) <=> Odd(Cardinality(M)))
        /\ Odd(Cardinality(B)) <=> ~(Odd(Cardinality(R)) <=> Odd(Cardinality(M)))
    <3>1. /\ Cardinality(A) = Cardinality(L) + Cardinality(M)
          /\ Cardinality(B) = Cardinality(R) + Cardinality(M)
      BY <1>2, <1>3
    <3>2. /\ Odd(Cardinality(L) + Cardinality(M))
               <=> ~(Odd(Cardinality(L)) <=> Odd(Cardinality(M)))
          /\ Odd(Cardinality(R) + Cardinality(M))
               <=> ~(Odd(Cardinality(R)) <=> Odd(Cardinality(M)))
      BY <1>2, OddOfSum
    <3> HIDE DEF L, R, M
    <3>3. QED
      BY <3>1, <3>2, Zenon
  <2>2. Odd(Cardinality(L) + Cardinality(R))
          <=> ~(Odd(Cardinality(L)) <=> Odd(Cardinality(R)))
    BY <1>2, OddOfSum
  <2> HIDE DEF L, R, M
  <2>3. QED
    BY <2>1, <2>2, Zenon
<1> HIDE DEF L, R, M
<1>7. QED
  BY <1>2, <1>4, <1>5, <1>6

\* Words and check bytes are finite.
LEMMA WordsAreFinite ==
  /\ \A d \in SUBSET DataBits : IsFiniteSet(d) /\ Cardinality(d) \in Nat
  /\ \A e \in SUBSET CheckBits : IsFiniteSet(e) /\ Cardinality(e) \in Nat
  /\ \A s \in SUBSET Parities : IsFiniteSet(s) /\ Cardinality(s) \in Nat
  /\ Overall \notin Parities
<1>1. IsFiniteSet(DataBits) /\ IsFiniteSet(Parities)
  BY WidthAssumption, FS_Interval DEF DataBits, Parities
<1>2. IsFiniteSet(CheckBits)
  BY <1>1, FS_AddElement DEF CheckBits
<1>3. Overall \notin Parities
  BY WidthAssumption DEF Overall, Parities
<1>4. QED
  BY <1>1, <1>2, <1>3, FS_Subset, FS_CardinalityType

\* XOR stays inside a word.
LEMMA XorType ==
  ASSUME NEW U, NEW A \in SUBSET U, NEW B \in SUBSET U
  PROVE  Xor(A, B) \in SUBSET U
BY DEF Xor

LEMMA ParitiesType ==
  ASSUME NEW d
  PROVE  HammingParities(d) \in SUBSET Parities
BY DEF HammingParities

\* The parity function is linear.
LEMMA ParitiesAreLinear ==
  ASSUME NEW a \in SUBSET DataBits, NEW b \in SUBSET DataBits
  PROVE  HammingParities(Xor(a, b)) =
           Xor(HammingParities(a), HammingParities(b))
<1>1. ASSUME NEW k \in Parities
      PROVE  Odd(Cardinality(Xor(a, b) \cap ParityMask[k]))
               <=> ~(Odd(Cardinality(a \cap ParityMask[k]))
                      <=> Odd(Cardinality(b \cap ParityMask[k])))
  <2> DEFINE m == ParityMask[k]
  <2>1. Xor(a, b) \cap m = Xor(a \cap m, b \cap m)
    BY DEF Xor
  <2>2. IsFiniteSet(a \cap m) /\ IsFiniteSet(b \cap m)
    BY WordsAreFinite, FS_Intersection
  <2>3. QED
    BY <2>1, <2>2, OddOfXor, Zenon
<1>2. ASSUME NEW k \in Parities
      PROVE  k \in HammingParities(Xor(a, b))
               <=> k \in Xor(HammingParities(a), HammingParities(b))
  BY <1>1, Zenon DEF HammingParities, Xor
<1>3. /\ HammingParities(Xor(a, b)) \in SUBSET Parities
      /\ Xor(HammingParities(a), HammingParities(b)) \in SUBSET Parities
  BY ParitiesType, XorType
<1>4. QED
  BY <1>2, <1>3

\* What a check byte holds.
LEMMA CheckContents ==
  ASSUME NEW v \in SUBSET DataBits
  PROVE  /\ CheckOf(v) \in SUBSET CheckBits
         /\ CheckOf(v) \ {Overall} = HammingParities(v)
         /\ Overall \in CheckOf(v)
              <=> ~(Odd(Cardinality(v)) <=> Odd(Cardinality(HammingParities(v))))
<1> DEFINE h == HammingParities(v)
<1>1. h \in SUBSET Parities /\ Overall \notin h
  BY ParitiesType, WordsAreFinite
<1>2. Odd(Cardinality(v) + Cardinality(h))
        <=> ~(Odd(Cardinality(v)) <=> Odd(Cardinality(h)))
  BY <1>1, WordsAreFinite, OddOfSum
<1>3. CheckOf(v) = h \cup {b \in {Overall} : Odd(Cardinality(v) + Cardinality(h))}
  BY DEF CheckOf
<1> HIDE DEF h
<1>4. /\ CheckOf(v) \in SUBSET CheckBits
      /\ CheckOf(v) \ {Overall} = h
      /\ Overall \in CheckOf(v) <=> Odd(Cardinality(v) + Cardinality(h))
  BY <1>1, <1>3, Zenon DEF CheckBits
<1>5. QED
  BY <1>2, <1>4 DEF h

\* The syndrome of a damaged codeword is that of the flips alone.
LEMMA SyndromeOfFlips ==
  ASSUME NEW v \in SUBSET DataBits,
         NEW d \in SUBSET DataBits, NEW e \in SUBSET CheckBits
  PROVE  Syndrome(Xor(v, d), Xor(CheckOf(v), e)) =
           Xor(HammingParities(d), e \ {Overall})
<1>1. HammingParities(Xor(v, d)) = Xor(HammingParities(v), HammingParities(d))
  BY ParitiesAreLinear
<1>2. Xor(CheckOf(v), e) \ {Overall} = Xor(HammingParities(v), e \ {Overall})
  BY CheckContents DEF Xor
<1>3. QED
  BY <1>1, <1>2 DEF Syndrome, Xor

\* The overall parity of a damaged codeword is that of the flips alone.
LEMMA OverallOfFlips ==
  ASSUME NEW v \in SUBSET DataBits,
         NEW d \in SUBSET DataBits, NEW e \in SUBSET CheckBits
  PROVE  OverallDiffers(Xor(v, d), Xor(CheckOf(v), e))
           <=> ~(Odd(Cardinality(d)) <=> Odd(Cardinality(e)))
<1> DEFINE h == HammingParities(v)
           p == e \ {Overall}
           c == Xor(CheckOf(v), e)
<1>1. c \ {Overall} = Xor(h, p)
  BY CheckContents DEF Xor
<1>2. /\ p \in SUBSET Parities
      /\ h \in SUBSET Parities
      /\ IsFiniteSet(p) /\ IsFiniteSet(h)
      /\ Cardinality(p) \in Nat
  BY ParitiesType, WordsAreFinite DEF CheckBits
<1>3. Odd(Cardinality(c \ {Overall}))
        <=> ~(Odd(Cardinality(h)) <=> Odd(Cardinality(p)))
  BY <1>1, <1>2, OddOfXor
<1>4. Odd(Cardinality(Xor(v, d))) <=> ~(Odd(Cardinality(v)) <=> Odd(Cardinality(d)))
  BY WordsAreFinite, OddOfXor
<1>5. Overall \in c <=> ~((Overall \in CheckOf(v)) <=> (Overall \in e))
  BY DEF Xor
<1>6. Odd(Cardinality(e)) <=> ~(Odd(Cardinality(p)) <=> (Overall \in e))
  <2>1. CASE Overall \in e
    <3>1. Cardinality(p) = Cardinality(e) - 1
      BY <2>1, WordsAreFinite, FS_RemoveElement
    <3>2. Cardinality(e) \in Nat
      BY WordsAreFinite
    <3>3. QED
      BY <2>1, <3>1, <3>2, <1>2 DEF Odd
  <2>2. CASE Overall \notin e
    <3>1. p = e
      BY <2>2
    <3>2. QED
      BY <2>2, <3>1
  <2>3. QED
    BY <2>1, <2>2
<1>7. /\ Cardinality(Xor(v, d)) \in Nat
      /\ Cardinality(c \ {Overall}) \in Nat
  BY <1>1, <1>2, WordsAreFinite, OddOfXor
<1>8. OverallDiffers(Xor(v, d), c)
        <=> ~(~(Odd(Cardinality(Xor(v, d))) <=> Odd(Cardinality(c \ {Overall})))
               <=> Overall \in c)
  <2> DEFINE x == Cardinality(Xor(v, d))
             y == Cardinality(c \ {Overall})
  <2>1. Odd(x + y) <=> ~(Odd(x) <=> Odd(y))
    BY <1>7, OddOfSum
  <2>2. OverallDiffers(Xor(v, d), c) <=> ~(Odd(x + y) <=> Overall \in c)
    BY DEF OverallDiffers, Odd
  <2> HIDE DEF x, y, c
  <2>3. QED
    BY <2>1, <2>2 DEF x, y
<1>9. Overall \in CheckOf(v) <=> ~(Odd(Cardinality(v)) <=> Odd(Cardinality(h)))
  BY CheckContents
<1> HIDE DEF h, p, c
<1>10. QED
  BY <1>3, <1>4, <1>5, <1>6, <1>8, <1>9, Zenon DEF c

-----------------------------------------------------------------------------
(* The three guarantees.  d and e are the flipped bits of the value and of *)
(* the check byte of a codeword that was written as v.                     *)

\* The column of a data bit is what its flip alone does to the parities.
LEMMA ColumnIsSyndrome ==
  ASSUME NEW i \in DataBits
  PROVE  /\ HammingParities({i}) = Column[i]
         /\ Column[i] \in SUBSET Parities
<1>1. Column[i] \in SUBSET Parities
  BY DEF Column
<1>2. ASSUME NEW k \in Parities
      PROVE  Odd(Cardinality({i} \cap ParityMask[k])) <=> k \in Column[i]
  <2>1. i \in ParityMask[k] <=> k \in Column[i]
    BY DEF ParityMask
  <2>2. CASE k \in Column[i]
    <3>1. {i} \cap ParityMask[k] = {i}
      BY <2>1, <2>2
    <3>2. Cardinality({i}) = 1
      BY FS_Singleton, Zenon
    <3>3. Odd(1)
      BY DEF Odd
    <3>4. QED
      BY <2>2, <3>1, <3>2, <3>3
  <2>3. CASE k \notin Column[i]
    <3>1. {i} \cap ParityMask[k] = {}
      BY <2>1, <2>3
    <3>2. Cardinality({}) = 0 /\ ~Odd(0)
      BY FS_EmptySet DEF Odd
    <3>3. QED
      BY <2>3, <3>1, <3>2
  <2>4. QED
    BY <2>2, <2>3
<1>3. QED
  BY <1>1, <1>2 DEF HammingParities

LEMMA NoFlipNoParity ==
  /\ HammingParities({}) = {}
  /\ Cardinality({}) = 0
<1>1. Cardinality({}) = 0 /\ ~Odd(0)
  BY FS_EmptySet DEF Odd
<1>2. \A k : {} \cap ParityMask[k] = {}
  OBVIOUS
<1>3. QED
  BY <1>1, <1>2 DEF HammingParities

\* Two data bits never feed the same parities, and none feeds none or one.
LEMMA ColumnsAreDistinct ==
  /\ \A i, j \in DataBits : Column[i] = Column[j] => i = j
  /\ \A i \in DataBits : Column[i] # {}
  /\ \A i \in DataBits, k \in Parities : Column[i] # {k}
<1>1. ASSUME NEW i \in DataBits, NEW j \in DataBits, Column[i] = Column[j]
      PROVE  i = j
  <2>1. /\ DataIndexAt(PositionOf[Column[i]]) = i
        /\ DataIndexAt(PositionOf[Column[j]]) = j
    BY LayoutAssumption DEF Layout
  <2>2. QED
    BY <1>1, <2>1
<1>2. ASSUME NEW i \in DataBits
      PROVE  Column[i] # {}
  BY LayoutAssumption, Zenon DEF Layout
<1>3. ASSUME NEW i \in DataBits, NEW k \in Parities
      PROVE  Column[i] # {k}
  BY LayoutAssumption, Zenon DEF Layout
<1>4. QED
  BY <1>1, <1>2, <1>3

\* A word nobody has touched decodes as clean.
THEOREM NoFlipIsClean ==
  ASSUME NEW v \in SUBSET DataBits
  PROVE  /\ Decode(v, CheckOf(v)).kind = "Clean"
         /\ Decode(v, CheckOf(v)).data = v
<1>1. {} \in SUBSET DataBits /\ {} \in SUBSET CheckBits
  OBVIOUS
<1>2. Xor(v, {}) = v /\ Xor(CheckOf(v), {}) = CheckOf(v) /\ Xor({}, {}) = {}
  BY DEF Xor
<1>3. Syndrome(v, CheckOf(v)) = {}
  <2>1. Syndrome(Xor(v, {}), Xor(CheckOf(v), {})) =
          Xor(HammingParities({}), {} \ {Overall})
    BY <1>1, SyndromeOfFlips
  <2>2. {} \ {Overall} = {}
    OBVIOUS
  <2>3. QED
    BY <1>2, <2>1, <2>2, NoFlipNoParity
<1>4. ~OverallDiffers(v, CheckOf(v))
  BY <1>1, <1>2, OverallOfFlips
<1>5. QED
  BY <1>3, <1>4 DEF Decode

\* One flipped bit, wherever it lands in the 72, is undone.
THEOREM SingleFlipIsCorrected ==
  ASSUME NEW v \in SUBSET DataBits,
         NEW d \in SUBSET DataBits, NEW e \in SUBSET CheckBits,
         Cardinality(d) + Cardinality(e) = 1
  PROVE  /\ Decode(Xor(v, d), Xor(CheckOf(v), e)).kind = "Corrected"
         /\ Decode(Xor(v, d), Xor(CheckOf(v), e)).data = v
<1> DEFINE data  == Xor(v, d)
           check == Xor(CheckOf(v), e)
           s     == Syndrome(data, check)
<1>1. /\ Cardinality(d) \in Nat /\ Cardinality(e) \in Nat
      /\ IsFiniteSet(d) /\ IsFiniteSet(e)
  BY WordsAreFinite
<1>2. OverallDiffers(data, check)
  <2>1. \/ Cardinality(d) = 0 /\ Cardinality(e) = 1
        \/ Cardinality(d) = 1 /\ Cardinality(e) = 0
    BY <1>1
  <2>2. Odd(1) /\ ~Odd(0)
    BY DEF Odd
  <2>3. QED
    BY <2>1, <2>2, OverallOfFlips
<1>3. s = Xor(HammingParities(d), e \ {Overall})
  BY SyndromeOfFlips
<1>4. CASE Cardinality(d) = 1
  <2>1. Cardinality(e) = 0
    BY <1>1, <1>4
  <2>2. e = {}
    BY <1>1, <2>1, FS_EmptySet
  <2>3. PICK i : d = {i}
    BY <1>1, <1>4, FS_Singleton
  <2>4. i \in DataBits
    BY <2>3
  <2>5. s = Column[i]
    BY <1>3, <2>2, <2>3, <2>4, ColumnIsSyndrome DEF Xor
  <2>6. s # {}
    BY <2>4, <2>5, ColumnsAreDistinct
  <2>7. Repaired(data, s) = Corrected(Xor(data, {i}), i)
    BY <2>4, <2>5, LayoutAssumption DEF Layout, Repaired
  <2>8. Xor(data, {i}) = v
    BY <2>3 DEF Xor
  <2>9. Decode(data, check) = Corrected(v, i)
    <3> HIDE DEF data, check
    <3>1. QED
      BY <1>2, <2>6, <2>7, <2>8 DEF Decode
  <2>10. QED
    BY <2>9 DEF Corrected
<1>5. CASE Cardinality(d) = 0
  <2>1. d = {}
    BY <1>1, <1>5, FS_EmptySet
  <2>2. data = v
    BY <2>1 DEF Xor
  <2>3. Cardinality(e) = 1
    BY <1>1, <1>5
  <2>4. PICK k : e = {k}
    BY <1>1, <2>3, FS_Singleton
  <2>5. s = e \ {Overall}
    BY <1>3, <2>1, NoFlipNoParity DEF Xor
  <2>6. \/ s = {}
        \/ s = {k} /\ k \in Parities
    BY <2>4, <2>5 DEF CheckBits
  <2>7. ~NamesDataBit(PositionOf[s])
    BY <2>6, LayoutAssumption DEF Layout
  <2>8. \E bit : Repaired(data, s) = Corrected(v, bit)
    BY <2>2, <2>7 DEF Repaired
  <2>9. \E bit : Decode(data, check) = Corrected(v, bit)
    <3>1. data = v => data = v
      OBVIOUS
    <3> HIDE DEF data, check
    <3>2. CASE s = {}
      BY <1>2, <2>2, <3>2 DEF Decode
    <3>3. CASE s # {}
      <4>1. Decode(data, check) = Repaired(data, s)
        BY <1>2, <3>3 DEF Decode
      <4>2. QED
        BY <2>8, <4>1
    <3>4. QED
      BY <3>2, <3>3
  <2>10. QED
    BY <2>9 DEF Corrected
<1>6. QED
  BY <1>1, <1>4, <1>5

\* Two flipped bits are always noticed and never mistaken for one.
THEOREM DoubleFlipIsDetected ==
  ASSUME NEW v \in SUBSET DataBits,
         NEW d \in SUBSET DataBits, NEW e \in SUBSET CheckBits,
         Cardinality(d) + Cardinality(e) = 2
  PROVE  Decode(Xor(v, d), Xor(CheckOf(v), e)).kind = "DoubleError"
<1> DEFINE data  == Xor(v, d)
           check == Xor(CheckOf(v), e)
           s     == Syndrome(data, check)
<1>1. /\ Cardinality(d) \in Nat /\ Cardinality(e) \in Nat
      /\ IsFiniteSet(d) /\ IsFiniteSet(e)
  BY WordsAreFinite
<1>2. ~OverallDiffers(data, check)
  <2>1. \/ Cardinality(d) = 0 /\ Cardinality(e) = 2
        \/ Cardinality(d) = 1 /\ Cardinality(e) = 1
        \/ Cardinality(d) = 2 /\ Cardinality(e) = 0
    BY <1>1
  <2>2. ~Odd(2) /\ ~Odd(0)
    BY DEF Odd
  <2>3. QED
    BY <2>1, <2>2, OverallOfFlips
<1>3. s = Xor(HammingParities(d), e \ {Overall})
  BY SyndromeOfFlips
<1>4. s # {}
  <2>1. CASE Cardinality(d) = 0
    <3>1. Cardinality(e) = 2 /\ d = {}
      BY <1>1, <2>1, FS_EmptySet
    <3>2. e \ {Overall} # {}
      <4>1. Cardinality(e \ {Overall}) \in {1, 2}
        BY <1>1, <3>1, FS_RemoveElement
      <4>2. QED
        BY <4>1, NoFlipNoParity
    <3>3. QED
      BY <1>3, <3>1, <3>2, NoFlipNoParity DEF Xor
  <2>2. CASE Cardinality(d) = 1
    <3>1. Cardinality(e) = 1
      BY <1>1, <2>2
    <3>2. PICK i, k : d = {i} /\ e = {k}
      <4>1. \E i : d = {i}
        BY <1>1, <2>2, FS_Singleton, Zenon
      <4>2. \E k : e = {k}
        BY <1>1, <3>1, FS_Singleton, Zenon
      <4>3. QED
        BY <4>1, <4>2
    <3>3. i \in DataBits /\ (k = Overall \/ k \in Parities)
      BY <3>2 DEF CheckBits
    <3>4. s = Xor(Column[i], {k} \ {Overall})
      BY <1>3, <3>2, <3>3, ColumnIsSyndrome
    <3>5. Column[i] # {k} \ {Overall}
      BY <3>3, ColumnsAreDistinct, WordsAreFinite
    <3>6. QED
      BY <3>4, <3>5 DEF Xor
  <2>3. CASE Cardinality(d) = 2
    <3>1. Cardinality(e) = 0
      BY <1>1, <2>3
    <3>2. e = {}
      BY <1>1, <3>1, FS_EmptySet
    <3>3. PICK i \in d : TRUE
      BY <2>3, NoFlipNoParity
    <3>4. IsFiniteSet(d \ {i}) /\ Cardinality(d \ {i}) = 1
      BY <1>1, <2>3, <3>3, FS_RemoveElement
    <3>5. PICK j : d \ {i} = {j}
      BY <3>4, FS_Singleton
    <3>6. i \in DataBits /\ j \in DataBits /\ i # j /\ d = Xor({i}, {j})
      BY <3>3, <3>5 DEF Xor
    <3>7. HammingParities(d) = Xor(Column[i], Column[j])
      <4>1. {i} \in SUBSET DataBits /\ {j} \in SUBSET DataBits
        BY <3>6
      <4>2. QED
        BY <3>6, <4>1, ParitiesAreLinear, ColumnIsSyndrome
    <3>8. Column[i] # Column[j]
      BY <3>6, ColumnsAreDistinct
    <3>9. QED
      BY <1>3, <3>2, <3>7, <3>8 DEF Xor
  <2>4. QED
    BY <1>1, <2>1, <2>2, <2>3
<1>5. QED
  <2> HIDE DEF data, check
  <2>1. Decode(data, check).kind = "DoubleError"
    BY <1>2, <1>4 DEF Decode
  <2>2. QED
    BY <2>1 DEF data, check

-----------------------------------------------------------------------------
(* The word.                                                               *)


LEMMA CopiesAre ==
  /\ Copies = Replicas \cup {"primary"}
  /\ "primary" \notin Replicas
  /\ "replica0" # "replica1"
BY DEF Copies, Replicas

LEMMA EncodedType ==
  ASSUME NEW v \in SUBSET DataBits
  PROVE  /\ Encoded(v) \in [value : SUBSET DataBits, check : SUBSET CheckBits]
         /\ New(v) \in [Copies -> [value : SUBSET DataBits, check : SUBSET CheckBits]]
BY CheckContents DEF Encoded, New

\* Whatever a check hands out is a word.
LEMMA DecodeType ==
  ASSUME NEW d \in SUBSET DataBits, NEW c \in SUBSET CheckBits
  PROVE  Decode(d, c) \in [kind : {"Clean", "Corrected", "DoubleError"},
                           data : SUBSET DataBits, bit : Nat]
<1> DEFINE s == Syndrome(d, c)
<1>1. s \in SUBSET Parities
  <2>1. c \ {Overall} \in SUBSET Parities
    BY DEF CheckBits
  <2>2. HammingParities(d) \in SUBSET Parities
    BY ParitiesType
  <2>3. QED
    BY <2>1, <2>2, XorType DEF Syndrome
<1>2. /\ PositionOf[s] \in Nat
      /\ NamesDataBit(PositionOf[s]) => DataIndexAt(PositionOf[s]) \in DataBits
  BY <1>1, LayoutAssumption DEF Layout
<1>3. \A i \in DataBits : i \in Nat /\ Xor(d, {i}) \in SUBSET DataBits
  <2>1. \A i \in DataBits : i \in Nat
    BY WidthAssumption DEF DataBits
  <2>2. \A i \in DataBits : {i} \in SUBSET DataBits
    OBVIOUS
  <2>3. QED
    BY <2>1, <2>2, XorType
<1>4. DataWidth + PositionOf[s] \in Nat /\ CODEWORD_LEN + 1 \in Nat
  BY <1>2, WidthAssumption DEF CODEWORD_LEN
<1>5. Repaired(d, s) \in [kind : {"Corrected"}, data : SUBSET DataBits, bit : Nat]
  <2>1. CASE NamesDataBit(PositionOf[s])
    <3> DEFINE index == DataIndexAt(PositionOf[s])
    <3>1. index \in Nat /\ Xor(d, {index}) \in SUBSET DataBits
      BY <1>2, <1>3, <2>1
    <3>2. Repaired(d, s) = Corrected(Xor(d, {index}), index)
      BY <2>1 DEF Repaired
    <3> HIDE DEF index
    <3>3. QED
      BY <3>1, <3>2 DEF Corrected
  <2>2. CASE ~NamesDataBit(PositionOf[s])
    BY <1>4, <2>2 DEF Repaired, Corrected
  <2>3. QED
    BY <2>1, <2>2
<1>6. Corrected(d, CODEWORD_LEN + 1)
        \in [kind : {"Corrected"}, data : SUBSET DataBits, bit : Nat]
  BY <1>4 DEF Corrected
<1> HIDE DEF s
<1>7. QED
  BY <1>5, <1>6 DEF Decode, s

LEMMA CandidateType ==
  ASSUME NEW copy \in [value : SUBSET DataBits, check : SUBSET CheckBits]
  PROVE  Candidate(copy) \in SUBSET (SUBSET DataBits)
BY DecodeType DEF Candidate

-----------------------------------------------------------------------------
(* The vote.                                                               *)

\* Only a value both replicas stand behind can win.
LEMMA WinnersAgree ==
  ASSUME NEW w
  PROVE  /\ \A v : v \in Winners(w)
              <=> v \in Candidate(w["replica0"]) /\ v \in Candidate(w["replica1"])
         /\ \A v \in Winners(w) : 3 - Cardinality(Agreeing(w, v)) = 1
<1>1. \A v : /\ Agreeing(w, v) \subseteq Replicas
             /\ "replica0" \in Agreeing(w, v) <=> v \in Candidate(w["replica0"])
             /\ "replica1" \in Agreeing(w, v) <=> v \in Candidate(w["replica1"])
  BY DEF Agreeing, Ballot, Copies, Replicas
<1>2. IsFiniteSet(Replicas) /\ Cardinality(Replicas) = 2
  <2>1. Replicas = {"replica0"} \cup {"replica1"}
    BY DEF Replicas
  <2>2. IsFiniteSet({"replica0"}) /\ Cardinality({"replica0"}) = 1
    BY FS_Singleton, Zenon
  <2>3. "replica1" \notin {"replica0"}
    OBVIOUS
  <2>4. QED
    BY <2>1, <2>2, <2>3, FS_AddElement
<1>3. ASSUME NEW v
      PROVE  /\ Cardinality(Agreeing(w, v)) >= 2 <=> Agreeing(w, v) = Replicas
             /\ Agreeing(w, v) = Replicas
                  <=> v \in Candidate(w["replica0"]) /\ v \in Candidate(w["replica1"])
  <2>1. /\ Cardinality(Agreeing(w, v)) \in Nat
        /\ Cardinality(Agreeing(w, v)) <= 2
        /\ Cardinality(Agreeing(w, v)) = 2 => Agreeing(w, v) = Replicas
    BY <1>1, <1>2, FS_Subset, FS_CardinalityType
  <2>2. Cardinality(Agreeing(w, v)) >= 2 <=> Agreeing(w, v) = Replicas
    BY <1>2, <2>1
  <2>3. Agreeing(w, v) = Replicas
          <=> v \in Candidate(w["replica0"]) /\ v \in Candidate(w["replica1"])
    BY <1>1 DEF Replicas
  <2>4. QED
    BY <2>2, <2>3
<1>4. \A v : v \in Candidate(w["replica0"])
               => v \in UNION {Ballot(w, c) : c \in Copies}
  BY DEF Ballot, Copies, Replicas
<1>5. \A v : v \in Winners(w)
        <=> v \in Candidate(w["replica0"]) /\ v \in Candidate(w["replica1"])
  BY <1>3, <1>4 DEF Winners
<1>6. \A v \in Winners(w) : 3 - Cardinality(Agreeing(w, v)) = 1
  BY <1>2, <1>3, <1>5
<1>7. QED
  BY <1>5, <1>6

\* A vote hands out the winner, or the primary as it stands.
LEMMA VoteIs ==
  ASSUME NEW w
  PROVE  \/ /\ Winners(w) = {}
            /\ Vote(w) = Found(w["primary"].value, Unrecoverable)
         \/ \E v \in Winners(w) : Vote(w) = Found(v, CorrectedByTmr(1))
<1>1. CASE Winners(w) = {}
  BY <1>1 DEF Vote
<1>2. CASE Winners(w) # {}
  <2> DEFINE v == CHOOSE v \in Winners(w) : TRUE
  <2>1. v \in Winners(w)
    BY <1>2
  <2>2. Vote(w) = Found(v, CorrectedByTmr(3 - Cardinality(Agreeing(w, v))))
    BY <1>2 DEF Vote
  <2>3. 3 - Cardinality(Agreeing(w, v)) = 1
    BY <2>1, WinnersAgree
  <2>4. QED
    BY <2>1, <2>2, <2>3
<1>3. QED
  BY <1>1, <1>2

Words == [Copies -> [value : SUBSET DataBits, check : SUBSET CheckBits]]

Integrities ==
  [tier : {"Clean", "CorrectedByEcc", "CorrectedByTmr", "Unrecoverable"},
   detail : Nat]

LEMMA ExamineType ==
  ASSUME NEW w \in Words
  PROVE  Examine(w) \in [value : SUBSET DataBits, integrity : Integrities]
<1> DEFINE p == w["primary"]
           d == Decode(p.value, p.check)
<1>1. /\ p \in [value : SUBSET DataBits, check : SUBSET CheckBits]
      /\ w["replica0"] \in [value : SUBSET DataBits, check : SUBSET CheckBits]
  BY DEF Words, Copies
<1>2. d \in [kind : {"Clean", "Corrected", "DoubleError"},
             data : SUBSET DataBits, bit : Nat]
  BY <1>1, DecodeType
<1>3. Vote(w) \in [value : SUBSET DataBits, integrity : Integrities]
  <2>1. \A v \in Winners(w) : v \in SUBSET DataBits
    BY <1>1, WinnersAgree, CandidateType
  <2>2. CASE Vote(w) = Found(p.value, Unrecoverable)
    BY <1>1, <2>2 DEF Found, Unrecoverable, Integrities
  <2>3. ASSUME NEW v \in Winners(w), Vote(w) = Found(v, CorrectedByTmr(1))
        PROVE  Vote(w) \in [value : SUBSET DataBits, integrity : Integrities]
    BY <2>1, <2>3 DEF Found, CorrectedByTmr, Integrities
  <2>4. QED
    BY <2>2, <2>3, VoteIs
<1> HIDE DEF d
<1>4. CASE d.kind = "Clean"
  BY <1>2, <1>4 DEF Examine, d, Found, Clean, Integrities
<1>5. CASE d.kind = "Corrected"
  BY <1>2, <1>5 DEF Examine, d, Found, CorrectedByEcc, Integrities
<1>6. CASE d.kind = "DoubleError"
  BY <1>3, <1>6 DEF Examine, d
<1>7. QED
  BY <1>2, <1>4, <1>5, <1>6

-----------------------------------------------------------------------------
(* Type correctness.                                                       *)

LEMMA TypeStep ==
  ASSUME TypeOK, [Next]_vars
  PROVE  TypeOK'
<1>1. word \in Words /\ truth \in SUBSET DataBits
  BY RedundancyAssumption DEF TypeOK, Words
<1>2. ASSUME NEW v \in Values, Set(v)
      PROVE  TypeOK'
  BY <1>2, RedundancyAssumption, EncodedType DEF Set, TypeOK
<1>3. ASSUME NEW c \in Copies, NEW b \in Exposed[c], Flip(c, b)
      PROVE  TypeOK'
  <2>1. b \in CopyBits
    BY RedundancyAssumption
  <2>2. word[c] \in [value : SUBSET DataBits, check : SUBSET CheckBits]
    BY <2>1, <1>1 DEF Words
  <2>3. Flipped(word[c], b) \in [value : SUBSET DataBits, check : SUBSET CheckBits]
    <3>1. CASE b \in DataBits
      <4>1. Xor(word[c].value, {b}) \in SUBSET DataBits
        BY <2>2, <3>1, XorType
      <4>2. QED
        BY <2>2, <3>1, <4>1 DEF Flipped
    <3>2. CASE b \notin DataBits
      <4>1. b - DataWidth \in CheckBits
        BY <2>1, <3>2, WidthAssumption
        DEF CopyBits, DataBits, CheckBits, Parities, Overall
      <4>2. Xor(word[c].check, {b - DataWidth}) \in SUBSET CheckBits
        BY <2>2, <4>1, XorType
      <4>3. QED
        BY <2>2, <3>2, <4>2 DEF Flipped
    <3>3. QED
      BY <3>1, <3>2
  <2>4. word' = [word EXCEPT ![c] = Flipped(word[c], b)]
    BY <1>3 DEF Flip
  <2>5. word' \in Words
    BY <1>1, <2>3, <2>4 DEF Words
  <2>6. QED
    BY <1>3, <2>5 DEF Flip, TypeOK, Words
<1>4. Examine(word) \in [value : SUBSET DataBits, integrity : Integrities]
  BY <1>1, ExamineType
<1>5. CASE GetChecked
  BY <1>4, <1>5 DEF GetChecked, TypeOK, Report, Integrities
<1>6. CASE Verify
  <2>1. word' \in Words
    BY <1>1, <1>4, <1>6, EncodedType DEF Verify, Repair, Words
  <2>2. QED
    BY <1>4, <1>6, <2>1 DEF Verify, TypeOK, Report, Integrities, Words
<1>7. CASE UNCHANGED vars
  BY <1>7 DEF vars, TypeOK
<1>8. QED
  BY <1>2, <1>3, <1>5, <1>6, <1>7 DEF Next

\* Every copy stays a 64-bit word with an 8-bit check byte, and every report
\* is one of the outcomes of enum Integrity.
THEOREM TypeCorrect == Spec => []TypeOK
<1>1. Init => TypeOK
  BY RedundancyAssumption, EncodedType DEF Init, TypeOK, NoOutcome
<1>2. TypeOK /\ [Next]_vars => TypeOK'
  BY TypeStep
<1>3. QED
  BY <1>1, <1>2, PTL DEF Spec

-----------------------------------------------------------------------------
(* What a copy decodes to, by how many of its bits are wrong.              *)

\* The wrong bits of a copy are those of its value and those of its check.
LEMMA DamageCount ==
  ASSUME TypeOK, NEW c \in Copies
  PROVE  LET d == Xor(word[c].value, truth)
             e == Xor(word[c].check, CheckOf(truth))
         IN  /\ d \in SUBSET DataBits
             /\ e \in SUBSET CheckBits
             /\ word[c].value = Xor(truth, d)
             /\ word[c].check = Xor(CheckOf(truth), e)
             /\ Wrong(c) = Cardinality(d) + Cardinality(e)
             /\ Damage(c) \cap DataBits = d
             /\ Damage(c) \in SUBSET CopyBits
             /\ Wrong(c) \in Nat
<1> DEFINE d == Xor(word[c].value, truth)
           e == Xor(word[c].check, CheckOf(truth))
           moved == {DataWidth + k : k \in e}
<1>1. /\ word[c].value \in SUBSET DataBits
      /\ word[c].check \in SUBSET CheckBits
      /\ truth \in SUBSET DataBits
  BY RedundancyAssumption DEF TypeOK
<1>2. d \in SUBSET DataBits
  BY <1>1, XorType
<1>3. e \in SUBSET CheckBits
  BY <1>1, CheckContents, XorType
<1>4. /\ word[c].value = Xor(truth, d)
      /\ word[c].check = Xor(CheckOf(truth), e)
  BY DEF Xor
<1>5. /\ IsFiniteSet(d) /\ IsFiniteSet(e)
      /\ Cardinality(d) \in Nat /\ Cardinality(e) \in Nat
  BY <1>2, <1>3, WordsAreFinite
<1>6. (\A k \in e : k \in Nat) /\ DataWidth \in Nat
  <2>1. CheckBits \in SUBSET Nat
    BY WidthAssumption DEF CheckBits, Parities, Overall
  <2> HIDE DEF e
  <2>2. QED
    BY <1>3, <2>1, WidthAssumption
<1>7. IsFiniteSet(moved) /\ Cardinality(moved) = Cardinality(e)
  <2> DEFINE f == [k \in e |-> DataWidth + k]
  <2>1. f \in Bijection(e, moved)
    <3>1. f \in [e -> moved]
      OBVIOUS
    <3>2. \A a, b \in e : f[a] = f[b] => a = b
      <4> HIDE DEF e
      <4>1. QED
        BY <1>6
    <3>3. \A m \in moved : \E k \in e : f[k] = m
      OBVIOUS
    <3> HIDE DEF f, moved, e
    <3>4. QED
      BY <3>1, <3>2, <3>3 DEF Bijection, Injection, Surjection, IsInjective
  <2>2. ExistsBijection(e, moved)
    BY <2>1 DEF ExistsBijection
  <2>3. QED
    BY <1>5, <2>2, FS_Bijection
<1>8. d \cap moved = {}
  <2>1. \A i \in DataBits : i \in Nat /\ i < DataWidth
    BY WidthAssumption DEF DataBits
  <2>2. \A m \in moved : m \in Nat /\ m >= DataWidth
    <3> HIDE DEF e
    <3>1. QED
      BY <1>6
  <2> HIDE DEF moved, d
  <2>3. QED
    BY <1>2, <1>6, <2>1, <2>2
<1>9. Damage(c) = d \cup moved
  BY DEF Damage
<1>10. Wrong(c) = Cardinality(d) + Cardinality(e)
  <2>1. Cardinality(d \cup moved)
          = Cardinality(d) + Cardinality(moved) - Cardinality(d \cap moved)
    BY <1>5, <1>7, FS_Union
  <2>2. Cardinality(d \cap moved) = 0
    BY <1>8, FS_EmptySet
  <2> HIDE DEF moved, d, e
  <2>3. QED
    BY <1>5, <1>7, <1>9, <2>1, <2>2 DEF Wrong
<1>11. moved \cap DataBits = {}
  <2>1. \A i \in DataBits : i \in Nat /\ i < DataWidth
    BY WidthAssumption DEF DataBits
  <2>2. \A m \in moved : m \in Nat /\ m >= DataWidth
    <3> HIDE DEF e
    <3>1. QED
      BY <1>6
  <2> HIDE DEF moved
  <2>3. QED
    BY <1>6, <2>1, <2>2
<1>12. moved \in SUBSET CopyBits
  BY <1>3, WidthAssumption DEF CopyBits, CheckBits, Parities, Overall
<1>13. DataBits \in SUBSET CopyBits
  BY WidthAssumption DEF CopyBits, DataBits
<1>14. /\ Damage(c) \cap DataBits = d
       /\ Damage(c) \in SUBSET CopyBits
  <2> HIDE DEF moved, d
  <2>1. QED
    BY <1>2, <1>9, <1>11, <1>12, <1>13
<1> HIDE DEF d, e, moved
<1>15. QED
  BY <1>2, <1>3, <1>4, <1>5, <1>10, <1>14 DEF d, e

\* The SECDED guarantees for one copy of a word.
LEMMA CopyDecodes ==
  ASSUME TypeOK, NEW c \in Copies
  PROVE  LET found == Decode(word[c].value, word[c].check)
         IN  /\ Wrong(c) = 0 => found.kind = "Clean" /\ found.data = truth
             /\ Wrong(c) = 1 => found.kind = "Corrected" /\ found.data = truth
             /\ Wrong(c) = 2 => found.kind = "DoubleError"
<1> DEFINE d == Xor(word[c].value, truth)
           e == Xor(word[c].check, CheckOf(truth))
<1>1. truth \in SUBSET DataBits
  BY RedundancyAssumption DEF TypeOK
<1>2. /\ d \in SUBSET DataBits
      /\ e \in SUBSET CheckBits
      /\ word[c].value = Xor(truth, d)
      /\ word[c].check = Xor(CheckOf(truth), e)
      /\ Wrong(c) = Cardinality(d) + Cardinality(e)
  BY DamageCount
<1> HIDE DEF d, e
<1>3. CASE Wrong(c) = 0
  <2>1. Cardinality(d) = 0 /\ Cardinality(e) = 0
    BY <1>2, <1>3, WordsAreFinite
  <2>2. d = {} /\ e = {}
    BY <1>2, <2>1, WordsAreFinite, FS_EmptySet
  <2>3. word[c].value = truth /\ word[c].check = CheckOf(truth)
    BY <1>2, <2>2 DEF Xor
  <2>4. QED
    BY <1>1, <1>3, <2>3, NoFlipIsClean
<1>4. CASE Wrong(c) = 1
  <2>1. Cardinality(d) + Cardinality(e) = 1
    BY <1>2, <1>4
  <2>2. QED
    BY <1>1, <1>2, <1>4, <2>1, SingleFlipIsCorrected
<1>5. CASE Wrong(c) = 2
  <2>1. Cardinality(d) + Cardinality(e) = 2
    BY <1>2, <1>5
  <2>2. QED
    BY <1>1, <1>2, <1>5, <2>1, DoubleFlipIsDetected
<1>6. QED
  BY <1>3, <1>4, <1>5

\* What a replica says in a vote.
LEMMA BallotIs ==
  ASSUME TypeOK, NEW r \in Replicas
  PROVE  /\ Wrong(r) <= 1 => Candidate(word[r]) = {truth}
         /\ Wrong(r) = 2 => Candidate(word[r]) = {}
<1>1. r \in Copies /\ Wrong(r) \in Nat
  BY CopiesAre, DamageCount
<1>2. Wrong(r) <= 1 => Wrong(r) = 0 \/ Wrong(r) = 1
  BY <1>1
<1>3. QED
  BY <1>1, <1>2, CopyDecodes DEF Candidate

-----------------------------------------------------------------------------
(* What a check of the word reports.                                       *)

\* The answer for every amount of damage the primary's code can still see.
LEMMA ExamineIs ==
  ASSUME TypeOK
  PROVE  LET f == Examine(word)
         IN  /\ Wrong("primary") = 0 =>
                  f.value = truth /\ f.integrity.tier = "Clean"
             /\ Wrong("primary") = 1 =>
                  f.value = truth /\ f.integrity.tier = "CorrectedByEcc"
             /\ Wrong("primary") = 2 =>
                  \/ /\ f.integrity.tier = "CorrectedByTmr"
                     /\ \A r \in Replicas : f.value \in Candidate(word[r])
                  \/ /\ f.integrity.tier = "Unrecoverable"
                     /\ f.value = word["primary"].value
                     /\ Winners(word) = {}
<1> DEFINE d == Decode(word["primary"].value, word["primary"].check)
<1>1. "primary" \in Copies
  BY CopiesAre
<1>2. /\ Wrong("primary") = 0 => d.kind = "Clean" /\ d.data = truth
      /\ Wrong("primary") = 1 => d.kind = "Corrected" /\ d.data = truth
      /\ Wrong("primary") = 2 => d.kind = "DoubleError"
  BY <1>1, CopyDecodes
<1>3. CASE Wrong("primary") = 0
  <2>1. Examine(word) = Found(d.data, Clean)
    BY <1>2, <1>3 DEF Examine
  <2>2. QED
    BY <1>2, <1>3, <2>1 DEF Found, Clean
<1>4. CASE Wrong("primary") = 1
  <2>1. Examine(word) = Found(d.data, CorrectedByEcc(d.bit))
    BY <1>2, <1>4 DEF Examine
  <2>2. QED
    BY <1>2, <1>4, <2>1 DEF Found, CorrectedByEcc
<1>5. CASE Wrong("primary") = 2
  <2>1. Examine(word) = Vote(word)
    BY <1>2, <1>5 DEF Examine
  <2>2. \A v \in Winners(word), r \in Replicas : v \in Candidate(word[r])
    BY WinnersAgree DEF Replicas
  <2>3. QED
    BY <1>5, <2>1, <2>2, VoteIs DEF Found, Unrecoverable, CorrectedByTmr
<1>6. QED
  BY <1>3, <1>4, <1>5

\* A usable answer is the value the program wrote, short of damage that the
\* primary's code, or the codes of both replicas, cannot see.
LEMMA UsableIsTrueOfTyped == TypeOK => UsableIsTrue
<1> SUFFICES ASSUME TypeOK, Tolerable, IsUsable(Examine(word).integrity)
             PROVE  Examine(word).value = truth
  BY DEF UsableIsTrue
<1>1. Wrong("primary") \in Nat
  BY CopiesAre, DamageCount
<1>2. CASE Wrong("primary") <= 1
  <2>1. Wrong("primary") = 0 \/ Wrong("primary") = 1
    BY <1>1, <1>2
  <2>2. QED
    BY <2>1, ExamineIs
<1>3. CASE Wrong("primary") = 2 /\ \E r \in Replicas : Wrong(r) <= 2
  <2>1. PICK r \in Replicas : Wrong(r) <= 2
    BY <1>3
  <2>2. Examine(word).value \in Candidate(word[r])
    BY <1>3, ExamineIs DEF IsUsable
  <2>3. Wrong(r) <= 1 \/ Wrong(r) = 2
    BY <2>1, CopiesAre, DamageCount
  <2>4. QED
    BY <2>2, <2>3, BallotIs
<1>4. QED
  BY <1>2, <1>3 DEF Tolerable

THEOREM UsableAnswersAreTrue == Spec => []UsableIsTrue
BY TypeCorrect, UsableIsTrueOfTyped, PTL

\* What one replica short of a majority would lose is the only thing lost.
LEMMA RecoverableOfTyped == TypeOK => RecoverableIsRecovered
<1> SUFFICES ASSUME TypeOK,
                    \/ Wrong("primary") <= 1
                    \/ /\ Wrong("primary") = 2
                       /\ \A r \in Replicas : Wrong(r) <= 1
             PROVE  IsUsable(Examine(word).integrity)
  BY DEF RecoverableIsRecovered
<1>1. CASE Wrong("primary") <= 1
  <2>1. Wrong("primary") = 0 \/ Wrong("primary") = 1
    BY <1>1, CopiesAre, DamageCount
  <2>2. QED
    BY <2>1, ExamineIs DEF IsUsable
<1>2. CASE Wrong("primary") = 2 /\ \A r \in Replicas : Wrong(r) <= 1
  <2>1. \A r \in Replicas : Candidate(word[r]) = {truth}
    BY <1>2, BallotIs
  <2>2. truth \in Winners(word)
    BY <2>1, WinnersAgree DEF Replicas
  <2>3. QED
    BY <1>2, <2>2, ExamineIs DEF IsUsable
<1>3. QED
  BY <1>1, <1>2

THEOREM RecoverableWordsAreRecovered == Spec => []RecoverableIsRecovered
BY TypeCorrect, RecoverableOfTyped, PTL

\* The tier that answers is the one the damage calls for.
LEMMA TierOfTyped == TypeOK => TierMatchesDamage
BY ExamineIs DEF TierMatchesDamage

THEOREM TiersMatchDamage == Spec => []TierMatchesDamage
BY TypeCorrect, TierOfTyped, PTL

\* The two together: the value handed out and the tier it is handed out with
\* (get_checked, redundancy.rs:415-426) are those the damage allows.
THEOREM WordAnswersAreTrue == Spec => []AnswersAreTrue
BY UsableAnswersAreTrue, TiersMatchDamage, PTL DEF AnswersAreTrue

\* A repair leaves no wrong bit in any copy.
THEOREM RepairsAreComplete == Spec => RepairIsComplete
<1>1. TypeOK /\ [Next]_vars
        => [Tolerable /\ outcome'.by = "verify" /\ WasRepaired(outcome'.integrity)
              => word' = New(truth)]_vars
  <2> SUFFICES ASSUME TypeOK, Next,
                      Tolerable, outcome'.by = "verify",
                      WasRepaired(outcome'.integrity)
               PROVE  word' = New(truth)
    BY DEF vars
  <2>1. CASE Verify
    <3>1. WasRepaired(Examine(word).integrity)
      BY <2>1 DEF Verify, Report
    <3>2. word' = New(Examine(word).value)
      BY <2>1, <3>1 DEF Verify, Repair
    <3>3. Examine(word).value = truth
      BY <3>1, UsableIsTrueOfTyped DEF UsableIsTrue, IsUsable, WasRepaired
    <3>4. QED
      BY <3>2, <3>3
  <2>2. outcome' = NoOutcome => outcome'.by # "verify"
    BY DEF NoOutcome
  <2>3. GetChecked => outcome'.by # "verify"
    BY DEF GetChecked, Report
  <2>4. QED
    BY <2>1, <2>2, <2>3 DEF Next, Set, Flip
<1>2. QED
  BY <1>1, TypeCorrect, PTL DEF Spec, RepairIsComplete

-----------------------------------------------------------------------------
(* Refinement: with at most two wrong bits in a copy, the bits implement   *)
(* the promise.                                                            *)

Bounded == \A c \in Copies : Wrong(c) <= FlipsPerCopy

BarWord == [stored |-> truth, flipped |-> [c \in Copies |-> Damage(c)]]

\* The instance counts as this module does.
LEMMA SameCardinality == \A S : Promise!Cardinality(S) = Cardinality(S)
BY DEF Cardinality, Promise!Cardinality

\* A freshly written word has no wrong bit.
LEMMA FreshIsUndamaged ==
  ASSUME truth \in SUBSET DataBits, word = New(truth)
  PROVE  /\ \A c \in Copies : Damage(c) = {} /\ Wrong(c) = 0
         /\ BarWord = Promise!Fresh(truth)
<1>1. \A c \in Copies : Damage(c) = {}
  BY DEF Damage, New, Encoded, Xor
<1>2. Cardinality({}) = 0
  BY FS_EmptySet
<1>3. QED
  BY <1>1, <1>2 DEF Wrong, BarWord, Promise!Fresh, Promise!Copies, Copies

\* A flip toggles the wrong bits of its copy and of no other.
LEMMA FlipToggles ==
  ASSUME TypeOK, NEW c \in Copies, NEW b \in CopyBits,
         word' = [word EXCEPT ![c] = Flipped(word[c], b)], truth' = truth
  PROVE  /\ Damage(c)' = Promise!Toggle(Damage(c), b)
         /\ \A o \in Copies \ {c} : Damage(o)' = Damage(o)
<1>1. word'[c] = Flipped(word[c], b) /\ \A o \in Copies \ {c} : word'[o] = word[o]
  BY DEF TypeOK
<1>2. \A o \in Copies \ {c} : Damage(o)' = Damage(o)
  BY <1>1 DEF Damage
<1> DEFINE d == Xor(word[c].value, truth)
           e == Xor(word[c].check, CheckOf(truth))
           moved(E) == {DataWidth + k : k \in E}
<1>3. d \in SUBSET DataBits /\ e \in SUBSET CheckBits
  BY DamageCount
<1>4. Damage(c)' = Xor(word'[c].value, truth)
                     \cup moved(Xor(word'[c].check, CheckOf(truth)))
  BY DEF Damage
<1>5. Damage(c) = d \cup moved(e)
  BY DEF Damage
<1>6. word[c] \in [value : SUBSET DataBits, check : SUBSET CheckBits]
  BY DEF TypeOK
<1>7. /\ DataWidth \in Nat
      /\ \A i \in DataBits : i \in Nat /\ i < DataWidth
      /\ \A k \in CheckBits : k \in Nat
  BY WidthAssumption DEF DataBits, CheckBits, Parities, Overall
<1>8. CASE b \in DataBits
  <2>1. /\ word'[c].value = Xor(word[c].value, {b})
        /\ word'[c].check = word[c].check
    BY <1>1, <1>6, <1>8 DEF Flipped
  <2>2. Damage(c)' = Xor(Xor(word[c].value, {b}), truth) \cup moved(e)
    BY <1>4, <2>1
  <2>3. Xor(Xor(word[c].value, {b}), truth) = Promise!Toggle(d, b)
    BY DEF Xor, Promise!Toggle
  <2>4. b \notin moved(e)
    <3> HIDE DEF e
    <3>1. QED
      BY <1>3, <1>7, <1>8
  <2> HIDE DEF d, e, moved
  <2>5. QED
    BY <1>2, <1>5, <2>2, <2>3, <2>4 DEF Promise!Toggle
<1>9. CASE b \notin DataBits
  <2> DEFINE k == b - DataWidth
  <2>1. k \in CheckBits /\ b = DataWidth + k
    BY <1>9, WidthAssumption
    DEF CopyBits, DataBits, CheckBits, Parities, Overall
  <2>2. /\ word'[c].value = word[c].value
        /\ word'[c].check = Xor(word[c].check, {k})
    BY <1>1, <1>6, <1>9 DEF Flipped
  <2>3. Damage(c)' = d \cup moved(Xor(Xor(word[c].check, {k}), CheckOf(truth)))
    BY <1>4, <2>2
  <2>4. Xor(Xor(word[c].check, {k}), CheckOf(truth)) = Xor(e, {k})
    BY DEF Xor
  <2> HIDE DEF k, d, e
  <2>5. moved(Xor(e, {k})) = Promise!Toggle(moved(e), b)
    <3>1. \A j \in e : DataWidth + j = b => j = k
      BY <1>3, <1>7, <2>1
    <3>2. QED
      BY <2>1, <3>1 DEF Xor, Promise!Toggle
  <2>6. b \notin d
    BY <1>3, <1>9
  <2> HIDE DEF moved
  <2>7. QED
    BY <1>2, <1>5, <2>3, <2>4, <2>5, <2>6 DEF Promise!Toggle
<1>10. QED
  BY <1>8, <1>9

\* A check reports what the promise says it reports.
LEMMA CheckIsPromised ==
  ASSUME TypeOK, Bounded, FlipsPerCopy <= 2
  PROVE  /\ Examine(word).integrity.tier = Promise!Integrity(BarWord)
         /\ Examine(word).value = Promise!Checked(BarWord)
<1> DEFINE f == Examine(word)
           n == Wrong("primary")
<1>1. \A c \in Copies : Wrong(c) \in Nat /\ Wrong(c) <= 2
  BY DamageCount, RedundancyAssumption DEF Bounded
<1>2. n \in 0 .. 2
  BY <1>1, CopiesAre
<1>3. /\ BarWord.stored = truth
      /\ \A c \in Copies : Cardinality(BarWord.flipped[c]) = Wrong(c)
      /\ BarWord.flipped["primary"] = Damage("primary")
  BY CopiesAre DEF BarWord, Wrong
<1>4. Promise!Get(BarWord) = word["primary"].value
  <2>1. Damage("primary") \cap DataBits = Xor(word["primary"].value, truth)
    BY CopiesAre, DamageCount
  <2>2. Xor(truth, Xor(word["primary"].value, truth)) = word["primary"].value
    BY DEF Xor
  <2>3. QED
    BY <1>3, <2>1, <2>2 DEF Promise!Get
<1>5. CASE n = 0
  <2>1. Promise!Integrity(BarWord) = "Clean"
    BY <1>3, <1>5, CopiesAre, SameCardinality DEF Promise!Integrity
  <2>2. QED
    BY <1>3, <1>5, <2>1, ExamineIs DEF Promise!Checked
<1>6. CASE n = 1
  <2>1. Promise!Integrity(BarWord) = "CorrectedByEcc"
    BY <1>3, <1>6, CopiesAre, SameCardinality DEF Promise!Integrity
  <2>2. QED
    BY <1>3, <1>6, <2>1, ExamineIs DEF Promise!Checked
<1>7. CASE n = 2
  <2>1. Promise!Integrity(BarWord) =
          IF \A r \in Replicas : Wrong(r) <= 1
            THEN "CorrectedByTmr" ELSE "Unrecoverable"
    BY <1>3, <1>7, CopiesAre, SameCardinality
    DEF Promise!Integrity, Promise!Replicas, Replicas
  <2>2. CASE \A r \in Replicas : Wrong(r) <= 1
    <3>1. IsUsable(f.integrity)
      BY <1>7, <2>2, RecoverableOfTyped DEF RecoverableIsRecovered
    <3>2. f.value = truth
      BY <1>1, <1>7, <2>2, <3>1, UsableIsTrueOfTyped, CopiesAre
      DEF UsableIsTrue, Tolerable, Replicas
    <3>3. f.integrity.tier = "CorrectedByTmr"
      BY <1>7, <3>1, ExamineIs DEF IsUsable
    <3>4. QED
      BY <1>3, <2>1, <2>2, <3>2, <3>3 DEF Promise!Checked
  <2>3. CASE ~\A r \in Replicas : Wrong(r) <= 1
    <3>1. PICK r \in Replicas : Wrong(r) = 2
      BY <1>1, <2>3, CopiesAre
    <3>2. Candidate(word[r]) = {}
      BY <3>1, BallotIs
    <3>3. f.integrity.tier = "Unrecoverable" /\ f.value = word["primary"].value
      BY <1>7, <3>1, <3>2, ExamineIs
    <3>4. QED
      BY <1>4, <2>1, <2>3, <3>3 DEF Promise!Checked
  <2>4. QED
    BY <2>2, <2>3
<1>8. QED
  BY <1>2, <1>5, <1>6, <1>7

\* What a scrub leaves in storage is what the promise says it leaves.
LEMMA RepairIsPromised ==
  ASSUME TypeOK, Bounded, FlipsPerCopy <= 2,
         word' = Repair(word), truth' = truth
  PROVE  /\ BarWord' = Promise!Scrubbed(BarWord)
         /\ \A c \in Copies : Wrong(c)' = 0 \/ Wrong(c)' = Wrong(c)
<1> DEFINE f == Examine(word)
<1>1. f.integrity.tier = Promise!Integrity(BarWord)
  BY CheckIsPromised
<1>2. truth \in SUBSET DataBits
  BY RedundancyAssumption DEF TypeOK
<1>3. \A c \in Copies : Wrong(c) \in Nat /\ Wrong(c) <= 2
  BY DamageCount, RedundancyAssumption DEF Bounded
<1>4. CASE WasRepaired(f.integrity)
  <2>1. Tolerable
    <3>1. Wrong("primary") = 0 \/ Wrong("primary") = 1 \/ Wrong("primary") = 2
      BY <1>3, CopiesAre
    <3>2. Wrong("replica0") <= 2
      BY <1>3, CopiesAre DEF Replicas
    <3>3. QED
      BY <3>1, <3>2 DEF Tolerable, Replicas
  <2>2. f.value = truth
    BY <1>4, <2>1, UsableIsTrueOfTyped DEF UsableIsTrue, IsUsable, WasRepaired
  <2>3. word' = New(truth')
    BY <1>4, <2>2 DEF Repair
  <2>4. /\ \A c \in Copies : Damage(c)' = {} /\ Wrong(c)' = 0
        /\ BarWord' = Promise!Fresh(truth)
    <3>1. \A c \in Copies : Damage(c)' = {}
      BY <2>3 DEF Damage, New, Encoded, Xor
    <3>2. Cardinality({}) = 0
      BY FS_EmptySet
    <3>3. QED
      BY <3>1, <3>2
      DEF Wrong, BarWord, Promise!Fresh, Promise!Copies, Copies
  <2>5. Promise!Scrubbed(BarWord) = Promise!Fresh(truth)
    BY <1>1, <1>4 DEF WasRepaired, Promise!Scrubbed, Promise!Repairs, BarWord
  <2>6. QED
    BY <1>3, <2>4, <2>5
<1>5. CASE ~WasRepaired(f.integrity)
  <2>1. word' = word
    BY <1>5 DEF Repair
  <2>2. Promise!Scrubbed(BarWord) = BarWord
    BY <1>1, <1>5 DEF WasRepaired, Promise!Scrubbed, Promise!Repairs
  <2>3. BarWord' = BarWord /\ \A c \in Copies : Wrong(c)' = Wrong(c)
    BY <2>1 DEF BarWord, Wrong, Damage
  <2>4. QED
    BY <1>3, <2>2, <2>3
<1>6. QED
  BY <1>4, <1>5

BarOutcome ==
  IF outcome = NoOutcome
    THEN NoOutcome
    ELSE [by |-> outcome.by, value |-> outcome.value,
          tier |-> outcome.integrity.tier]

\* A report maps to the report the promise makes.
LEMMA ReportIsPromised ==
  ASSUME TypeOK, Bounded, FlipsPerCopy <= 2,
         NEW by \in {"get_checked", "verify"},
         outcome' = Report(by, Examine(word))
  PROVE  BarOutcome' = Promise!Report(by, Promise!Checked(BarWord),
                                      Promise!Integrity(BarWord))
<1>1. outcome' # NoOutcome
  <2>1. outcome'.by = by
    BY DEF Report
  <2>2. NoOutcome.by = "none"
    BY DEF NoOutcome
  <2>3. QED
    BY <2>1, <2>2
<1>2. BarOutcome' = [by |-> by, value |-> Examine(word).value,
                     tier |-> Examine(word).integrity.tier]
  BY <1>1 DEF BarOutcome, Report
<1>3. QED
  BY <1>2, CheckIsPromised DEF Promise!Report

\* One step of the code is one step of the promise.
LEMMA StepIsPromised ==
  ASSUME TypeOK, Bounded, FlipsPerCopy <= 2, [Next]_vars
  PROVE  /\ Bounded'
         /\ \/ Promise!Next
            \/ BarWord' = BarWord /\ BarOutcome' = BarOutcome
<1>1. \A c \in Copies : Wrong(c) \in Nat
  BY DamageCount
<1>2. ASSUME NEW v \in Values, Set(v)
      PROVE  Bounded' /\ Promise!Next
  <2>1. v \in SUBSET DataBits
    BY RedundancyAssumption
  <2>2. word' = New(v) /\ truth' = v /\ outcome' = NoOutcome
    BY <1>2 DEF Set
  <2>3. \A c \in Copies : Damage(c)' = {} /\ Wrong(c)' = 0
    <3>1. \A c \in Copies : Damage(c)' = {}
      BY <2>2 DEF Damage, New, Encoded, Xor
    <3>2. Cardinality({}) = 0
      BY FS_EmptySet
    <3>3. QED
      BY <3>1, <3>2 DEF Wrong
  <2>4. Bounded'
    BY <2>3, RedundancyAssumption DEF Bounded
  <2>5. BarWord' = Promise!Fresh(v)
    BY <2>2, <2>3 DEF BarWord, Promise!Fresh, Promise!Copies, Copies
  <2>6. BarOutcome' = NoOutcome
    BY <2>2 DEF BarOutcome
  <2>7. Promise!Set(v)
    BY <2>5, <2>6
    DEF Promise!Set, Promise!NoOutcome, NoOutcome, BarWord, BarOutcome
  <2>8. QED
    BY <2>4, <2>7 DEF Promise!Next
<1>3. ASSUME NEW c \in Copies, NEW b \in Exposed[c], Flip(c, b)
      PROVE  Bounded' /\ Promise!Next
  <2>1. b \in CopyBits
    BY RedundancyAssumption
  <2>2. /\ word' = [word EXCEPT ![c] = Flipped(word[c], b)]
        /\ truth' = truth
        /\ outcome' = NoOutcome
        /\ Wrong(c)' <= FlipsPerCopy
    BY <1>3 DEF Flip, Wrong
  <2>3. /\ Damage(c)' = Promise!Toggle(Damage(c), b)
        /\ \A o \in Copies \ {c} : Damage(o)' = Damage(o)
    BY <2>1, <2>2, FlipToggles
  <2>4. Bounded'
    BY <2>2, <2>3 DEF Bounded, Wrong
  <2>5. BarWord' = Promise!FlipBit(BarWord, c, b)
    <3> DEFINE g == [o \in Copies |-> Damage(o)]
    <3>1. g' = [o \in Copies |-> Damage(o)']
      OBVIOUS
    <3>2. g' = [g EXCEPT ![c] = Promise!Toggle(g[c], b)]
      BY <2>1, <2>3, <3>1
    <3>3. BarWord = [stored |-> truth, flipped |-> g]
      BY DEF BarWord
    <3>4. BarWord' = [stored |-> truth, flipped |-> g']
      BY <2>2 DEF BarWord
    <3> HIDE DEF g
    <3>5. QED
      BY <3>2, <3>3, <3>4 DEF Promise!FlipBit
  <2>6. Promise!Cardinality(Promise!Toggle(BarWord.flipped[c], b)) <= FlipsPerCopy
    BY <2>1, <2>2, <2>3, SameCardinality DEF Wrong, BarWord
  <2>7. BarOutcome' = NoOutcome
    BY <2>2 DEF BarOutcome
  <2>8. Promise!Flip(c, b)
    BY <2>5, <2>6, <2>7
    DEF Promise!Flip, Promise!NoOutcome, NoOutcome, BarWord, BarOutcome
  <2>9. c \in Promise!Copies /\ b \in Promise!CopyBits
    BY <2>1 DEF Promise!Copies, Copies, Promise!CopyBits
  <2>10. QED
    BY <2>4, <2>8, <2>9 DEF Promise!Next
<1>4. CASE GetChecked
  <2>1. BarWord' = BarWord /\ \A c \in Copies : Wrong(c)' = Wrong(c)
    BY <1>4 DEF GetChecked, BarWord, Wrong, Damage
  <2>2. BarOutcome' = Promise!Report("get_checked", Promise!Checked(BarWord),
                                     Promise!Integrity(BarWord))
    BY <1>4, ReportIsPromised DEF GetChecked
  <2>3. Promise!GetChecked
    BY <2>1, <2>2 DEF Promise!GetChecked, BarWord, BarOutcome
  <2>4. QED
    BY <2>1, <2>3 DEF Bounded, Promise!Next
<1>5. CASE Verify
  <2>1. /\ BarWord' = Promise!Scrubbed(BarWord)
        /\ \A c \in Copies : Wrong(c)' = 0 \/ Wrong(c)' = Wrong(c)
    BY <1>5, RepairIsPromised DEF Verify
  <2>2. BarOutcome' = Promise!Report("verify", Promise!Checked(BarWord),
                                     Promise!Integrity(BarWord))
    BY <1>5, ReportIsPromised DEF Verify
  <2>3. Promise!Verify
    BY <2>1, <2>2 DEF Promise!Verify, BarWord, BarOutcome
  <2>4. Bounded'
    BY <2>1, RedundancyAssumption DEF Bounded
  <2>5. QED
    BY <2>3, <2>4 DEF Promise!Next
<1>6. CASE UNCHANGED vars
  BY <1>6 DEF vars, Bounded, Wrong, Damage, BarWord, BarOutcome
<1>7. QED
  BY <1>2, <1>3, <1>4, <1>5, <1>6 DEF Next

\* redundancy.rs keeps the promise its callers are modelled over.
THEOREM CodeKeepsPromise ==
  ASSUME FlipsPerCopy <= 2
  PROVE  Spec => KeepsPromise
<1>1. Init => Bounded /\ Promise!Init
  <2> SUFFICES ASSUME Init
               PROVE  Bounded /\ Promise!Init
    OBVIOUS
  <2>1. truth \in SUBSET DataBits /\ word = New(truth) /\ outcome = NoOutcome
    BY RedundancyAssumption DEF Init
  <2>2. /\ \A c \in Copies : Wrong(c) = 0
        /\ BarWord = Promise!Fresh(truth)
    BY <2>1, FreshIsUndamaged
  <2>3. Bounded
    BY <2>2, RedundancyAssumption DEF Bounded
  <2>4. Promise!Init
    BY <2>1, <2>2 DEF Init, Promise!Init, BarWord, Promise!NoOutcome, NoOutcome
  <2>5. QED
    BY <2>3, <2>4
<1>2. TypeOK /\ Bounded /\ [Next]_vars => Bounded' /\ [Promise!Next]_(Promise!vars)
  BY StepIsPromised DEF Promise!vars, BarWord, BarOutcome
<1>3. QED
  BY <1>1, <1>2, TypeCorrect, PTL DEF Spec, KeepsPromise, Promise!Spec
=============================================================================
