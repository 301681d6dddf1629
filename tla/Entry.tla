-------------------------------- MODULE Entry --------------------------------
(***************************************************************************)
(* The path bitmap and the table entry (calendar/route_bits.py and         *)
(* calendar/entry.py), as operators.                                       *)
(*                                                                         *)
(* All of these layouts are made of two-bit digits: a node's {P, L} pair   *)
(* is one, and every other field begins and ends at a multiple of two      *)
(* bits.  A byte string is therefore a function from positions to digits,  *)
(* lowest first, which makes a shift by 2n the reading of digit n and      *)
(* lets a field that is read at a wrong place return what really lies      *)
(* there.  The sizes are constants: the source has Register = 32,          *)
(* ByteDigits = 4, LandDigits = FlagDigits = 4, ExpDigits = 16.            *)
(***************************************************************************)
EXTENDS Integers, FiniteSets

CONSTANTS
  NodeCount,     \* nodes of the topology
  Register,      \* digits of one of the two registers
  ByteDigits,    \* digits of a byte
  LandDigits,    \* digits of landCount
  FlagDigits,    \* digits of flags
  ExpDigits      \* digits of expectedRxBytes

ASSUME LayoutAssumption ==
  /\ NodeCount \in Nat \ {0} /\ ByteDigits \in Nat \ {0}
  /\ LandDigits \in Nat /\ FlagDigits \in Nat /\ ExpDigits \in Nat
  /\ Register \in Nat
  /\ LandDigits + FlagDigits + ExpDigits <= Register

Nodes == 0..(NodeCount - 1)
Places == 0..(2 * Register - 1)    \* the digit positions of an entry

(* Two-bit digits. *)
Absent == 0   Illegal == 1   Pass == 2   Land == 3
Pairs == 0..3
Passes(p) == p >= 2
Lands(p) == p % 2 = 1
FromFlags(p, l) == (IF p THEN Pass ELSE Absent) + (IF l THEN Illegal ELSE Absent)

\* What is left of x when i digits are shifted out.
Rest(x, base) ==
  LET rest[i \in Nat] == IF i = 0 THEN x ELSE rest[i - 1] \div base IN rest

\* The value of the k digits of s below position end.
Value(s, end, base) ==
  LET value[k \in 0..end] == IF k = 0 THEN 0 ELSE s[end - k] + base * value[k - 1] IN value

Digit(x, i) == Rest(x, 4)[i] % 4
Number(s, from, len) == Value(s, from + len, 4)[len]
FitsIn(x, len) == x \in Nat /\ Rest(x, 4)[len] = 0

------------------------------------------------------------------------------
(* RouteBits: a pair for every node. *)

\* from_sets refuses L without P.
Checked(passing, landing) == landing \subseteq passing
FromSets(passing, landing) ==
  [n \in Nodes |-> FromFlags(n \in passing, n \in landing)]

PassNodes(b) == {n \in Nodes : Passes(b[n])}
LandNodes(b) == {n \in Nodes : Lands(b[n])}
LandCount(b) == Cardinality(LandNodes(b))
IllegalNodes(b) == {n \in Nodes : b[n] = Illegal}
WithPair(b, n, p) == [b EXCEPT ![n] = p]
Without(b, n) == WithPair(b, n, Absent)

\* Digits of the bitmap's bytes; the last byte may be filled up.
Width(n) == ByteDigits * ((n + ByteDigits - 1) \div ByteDigits)
BitsToBytes(b) == [i \in 0..(Width(NodeCount) - 1) |-> IF i \in Nodes THEN b[i] ELSE 0]
\* A byte string is refused when it has digits beyond the last node.
FitsBits(s) == \A i \in DOMAIN s : i \notin Nodes => s[i] = 0
BitsFromBytes(s) == [n \in Nodes |-> s[n]]

------------------------------------------------------------------------------
(* CalendarRouteEntry: bits, exp (expectedRxBytes), flags and the declared *)
(* landCount, which is Derived or must agree with the bits.                *)
Derived == -1
Entries == [bits: [Nodes -> Pairs], exp: Nat, flags: Nat, declared: Nat \cup {Derived}]
LayoutSize(n) == Width(n) + LandDigits + FlagDigits + ExpDigits
Packable == LayoutSize(NodeCount) = 2 * Register

WellFormedEntry(e) ==
  /\ FitsIn(e.exp, ExpDigits)
  /\ e.declared \in {Derived, LandCount(e.bits)}

LandAt == Width(NodeCount)
FlagsAt == LandAt + LandDigits
ExpAt == FlagsAt + FlagDigits

\* to_bytes, for a packable topology. It refuses a land count beyond its byte;
\* the flags are masked to theirs, which changes none of those that exist.
Packs(e) == /\ Packable /\ WellFormedEntry(e)
            /\ FitsIn(LandCount(e.bits), LandDigits) /\ FitsIn(e.flags, FlagDigits)
ToBytes(e) ==
  [i \in Places |->
     CASE i < LandAt -> BitsToBytes(e.bits)[i]
       [] i \in LandAt..(FlagsAt - 1) -> Digit(LandCount(e.bits), i - LandAt)
       [] i \in FlagsAt..(ExpAt - 1) -> Digit(e.flags, i - FlagsAt)
       [] i >= ExpAt -> Digit(e.exp, i - ExpAt)]

\* What from_bytes constructs; it refuses what is not WellFormedEntry or FitsBits.
FromBytes(s) ==
  [bits |-> BitsFromBytes(s), exp |-> Number(s, ExpAt, ExpDigits),
   flags |-> Number(s, FlagsAt, FlagDigits), declared |-> Number(s, LandAt, LandDigits)]

(* CalendarRouteRegs: the entry as two registers.  The fields of rbHi lie  *)
(* where the fixed boundaries of the class put them.                       *)
HiLand == 2 * Register - ExpDigits - FlagDigits - LandDigits - Register
HiFlags == HiLand + LandDigits
HiExp == HiFlags + FlagDigits

ToRegs(e) == [lo |-> [i \in 0..(Register - 1) |-> ToBytes(e)[i]],
              hi |-> [i \in 0..(Register - 1) |-> ToBytes(e)[Register + i]]]

RouteBitsValue(r) == [i \in 0..(Register + HiLand - 1) |->
                        IF i < Register THEN r.lo[i] ELSE r.hi[i - Register]]

FromRegs(r) ==
  [bits |-> BitsFromBytes(RouteBitsValue(r)), exp |-> Number(r.hi, HiExp, ExpDigits),
   flags |-> Number(r.hi, HiFlags, FlagDigits), declared |-> Number(r.hi, HiLand, LandDigits)]
==============================================================================
