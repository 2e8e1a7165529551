----------------------------- MODULE CounterTime -----------------------------
(***************************************************************************)
(* The arithmetic a duration goes through: a free-running counter of Width *)
(* bits, its wrapping difference, the conversion to nanoseconds, and the   *)
(* saturating sum of segments.                                             *)
(***************************************************************************)
EXTENDS Integers

CONSTANTS
  Width,            \* bits of a counter reading and of a duration: 64
  NanosPerSecond,   \* 10^9 in the code
  TrueHz,           \* counter units per second, as calibrated
  Boot,             \* counter reading when the model starts
  MaxTicks          \* bound: steps of time

Limit == 2^Width
Times == 0 .. Limit - 1

ASSUME TimeAssumption ==
  /\ Limit \in Nat \ {0}
  /\ NanosPerSecond \in Nat \ {0}
  /\ TrueHz \in Times \ {0}
  /\ Boot \in Times
  /\ MaxTicks \in Nat

\* The mistake of stopping at zero.
SaturatingSub(a, b) == IF a < b THEN 0 ELSE a - b

\* u64::wrapping_sub
WrappingSub(a, b) == (a - b) % Limit

\* u64::saturating_add
SaturatingAdd(a, b) == IF a + b < Limit THEN a + b ELSE Limit - 1

\* Chronometer::units_to_ns: the u128 quotient, cut back to 64 bits.
UnitsToNs(units, hz) ==
  IF hz = 0 THEN 0 ELSE ((units * NanosPerSecond) \div hz) % Limit

\* arch::counter_start and counter_end after `ticks` increments.
CounterAfter(ticks) == (Boot + ticks) % Limit
=============================================================================
