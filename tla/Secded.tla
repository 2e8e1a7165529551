-------------------------------- MODULE Secded --------------------------------
(***************************************************************************)
(* The Hamming SECDED code of nanochrono-core/src/redundancy.rs.           *)
(*                                                                         *)
(* A machine word is the set of the indices of its bits that are 1, so     *)
(* XOR is the symmetric difference and a population count is a             *)
(* cardinality.  The check byte is the set of the parities that are 1,     *)
(* with the overall parity as its topmost bit.  The code fixes DataWidth   *)
(* at 64 and ParityWidth at 7; every definition is parametric in both, the *)
(* runs exhaust small widths; MCStopwatch evaluates Layout at 64/7.        *)
(***************************************************************************)
EXTENDS Integers, FiniteSets

CONSTANTS
  DataWidth,    \* payload bits: 64 in the code
  ParityWidth   \* Hamming parities: 7 in the code

ASSUME WidthAssumption ==
  /\ DataWidth \in Nat \ {0}
  /\ ParityWidth \in Nat \ {0}

DataBits  == 0 .. DataWidth - 1
Parities  == 0 .. ParityWidth - 1
Overall   == ParityWidth
CheckBits == Parities \cup {Overall}

CODEWORD_LEN == DataWidth + ParityWidth

Odd(n)   == n % 2 = 1
Xor(a, b) == (a \ b) \cup (b \ a)

-----------------------------------------------------------------------------
(* Codeword layout.                                                        *)

BitSet(n, k) == (n \div 2^k) % 2 = 1

IsParityPosition(position) == \E k \in 0 .. ParityWidth : position = 2^k

\* How many data bits sit below a codeword position.
DataIndexAt(position) ==
  Cardinality({p \in 1 .. position - 1 : ~IsParityPosition(p)})

NamesDataBit(position) ==
  /\ position # 0
  /\ position <= CODEWORD_LEN
  /\ ~IsParityPosition(position)

DataPosition ==
  [i \in DataBits |->
    CHOOSE p \in 1 .. CODEWORD_LEN : NamesDataBit(p) /\ DataIndexAt(p) = i]

\* The parities data bit i feeds: the binary digits of its position.
Column == [i \in DataBits |-> {k \in Parities : BitSet(DataPosition[i], k)}]

ParityMask == [k \in Parities |-> {i \in DataBits : k \in Column[i]}]

\* A syndrome read as a number.
PositionOf ==
  [s \in SUBSET Parities |->
    CHOOSE p \in 0 .. 2^ParityWidth - 1 : {k \in Parities : BitSet(p, k)} = s]

(***************************************************************************)
(* What the layout has to give for the code to work, at the widths in use: *)
(* the syndrome of each data bit leads back to that bit, neither the empty *)
(* syndrome nor that of a parity bit names a data bit, and a syndrome that *)
(* names a data bit names one the word has.                                *)
(***************************************************************************)
Layout ==
  /\ \A i \in DataBits :
       /\ NamesDataBit(PositionOf[Column[i]])
       /\ DataIndexAt(PositionOf[Column[i]]) = i
  /\ ~NamesDataBit(PositionOf[{}])
  /\ \A k \in Parities : ~NamesDataBit(PositionOf[{k}])
  /\ \A s \in SUBSET Parities :
       /\ PositionOf[s] \in Nat
       /\ NamesDataBit(PositionOf[s]) => DataIndexAt(PositionOf[s]) \in DataBits

ASSUME LayoutAssumption == Layout

-----------------------------------------------------------------------------
(* Encoding and decoding.                                                  *)

HammingParities(data) ==
  {k \in Parities : Odd(Cardinality(data \cap ParityMask[k]))}

CheckOf(data) ==
  LET parities == HammingParities(data)
  IN  parities \cup
        {b \in {Overall} : Odd(Cardinality(data) + Cardinality(parities))}

Syndrome(data, check) == Xor(HammingParities(data), check \ {Overall})

\* The mistake of taking the overall parity over recomputed parity bits.
OverallRecomputed(data, check) ==
  Odd(Cardinality(data) + Cardinality(HammingParities(data))) # (Overall \in check)

OverallDiffers(data, check) ==
  Odd(Cardinality(data) + Cardinality(check \ {Overall})) # (Overall \in check)

Corrected(data, bit) == [kind |-> "Corrected", data |-> data, bit |-> bit]

\* The single flip whose syndrome is s, undone.
Repaired(data, s) ==
  LET position == PositionOf[s]
      index    == DataIndexAt(position)
  IN  IF NamesDataBit(position)
        THEN Corrected(Xor(data, {index}), index)
        ELSE Corrected(data, DataWidth + position)

Decode(data, check) ==
  LET s == Syndrome(data, check)
      o == OverallDiffers(data, check)
  IN  CASE s = {} /\ ~o -> [kind |-> "Clean", data |-> data, bit |-> 0]
        [] s = {} /\ o  -> Corrected(data, CODEWORD_LEN + 1)
        [] s # {} /\ o  -> Repaired(data, s)
        [] s # {} /\ ~o -> [kind |-> "DoubleError", data |-> data, bit |-> 0]
=============================================================================
