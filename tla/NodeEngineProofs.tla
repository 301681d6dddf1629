--------------------------- MODULE NodeEngineProofs ---------------------------
(***************************************************************************)
(* For all sizes of the layout, tables, opcodes and placements: a table    *)
(* entry is read back as it was packed, out of its bytes and out of its    *)
(* two registers; the graph loads what the compiler wrote, accounts of the *)
(* segments that land only what the core's ledger counts, refuses for four *)
(* reasons only, and computes the core's tag while no higher opcode is in  *)
(* use.                                                                    *)
(*                                                                         *)
(* Numbers and digits are recursive functions, so this begins with what    *)
(* makes those usable: induction over a set of numbers, and that a         *)
(* recursion on the naturals has a solution.  EngineInv then says of the   *)
(* event, rule by rule, which fields are known and what they are (EventOK) *)
(* and of the resident state that it is the bookkeeping of the segments    *)
(* accepted in the round (AccountedOK), of which the ledger counts each    *)
(* that lands.                                                             *)
(***************************************************************************)
EXTENDS NodeEngine, FiniteSetTheorems, NaturalsInduction, WellFoundedInduction, TLAPS

------------------------------------------------------------------------------
(* Recursive functions. A step of the recursion is a function g itself, so *)
(* the facts hold for every one of them.                                   *)

(* Every nonempty set of naturals has a least element.                     *)
LEMMA LeastElement ==
  ASSUME NEW T, T \subseteq Nat, T # {}
  PROVE  \E x \in T : \A y \in T : x <= y
<1>1. PICK x \in T : \A y \in T : ~ (<<y, x>> \in OpToRel(<, Nat))
  BY NatLessThanWellFounded, WFMin
<1>2. \A y \in T : y \in Nat /\ x \in Nat
  OBVIOUS
<1>3. \A y \in T : ~(y < x)
  BY <1>1, <1>2 DEF OpToRel
<1> QED
  BY <1>2, <1>3

(* A set with zero and the successor of each of its numbers has them all.  *)
LEMMA Induction ==
  ASSUME NEW P, 0 \in P, \A n \in Nat : n \in P => n + 1 \in P
  PROVE  \A n \in Nat : n \in P
<1> SUFFICES ASSUME Nat \ P # {} PROVE FALSE
    OBVIOUS
<1>1. PICK m \in Nat \ P : \A k \in Nat \ P : m <= k
      BY LeastElement
<1>2. m # 0
      OBVIOUS
<1>3. m - 1 \in Nat /\ m - 1 \in P
      BY <1>1, <1>2
<1> QED BY <1>1, <1>3

(* There is a function that starts with a and follows g.                   *)
LEMMA RecursionOnNat ==
  ASSUME NEW a \in Nat, NEW g \in [Nat \X Nat -> Nat]
  PROVE  \E f \in [Nat -> Nat] : f[0] = a /\ \A i \in Nat : f[i + 1] = g[<<i, f[i]>>]
<1> DEFINE S == Nat
<1>0. a \in S /\ g \in [Nat \X S -> S]
      OBVIOUS
<1> HIDE DEF S
<1> DEFINE Good(n, h) == h[0] = a /\ \A i \in Nat : i < n => h[i + 1] = g[<<i, h[i]>>]
           Some == {n \in Nat : \E h \in [0..n -> S] : Good(n, h)}
           The(n) == CHOOSE h : h \in [0..n -> S] /\ Good(n, h)
           f == [n \in Nat |-> The(n)[n]]
<1>1. 0 \in Some
      <2> DEFINE h == [i \in 0..0 |-> a]
      <2>1. h \in [0..0 -> S] /\ Good(0, h)
            BY <1>0
      <2> QED BY <2>1
<1>2. ASSUME NEW n \in Nat, n \in Some PROVE n + 1 \in Some
      <2>1. PICK h \in [0..n -> S] : Good(n, h)
            BY <1>2
      <2> DEFINE k == [i \in 0..(n + 1) |-> IF i <= n THEN h[i] ELSE g[<<n, h[n]>>]]
      <2>2. k \in [0..(n + 1) -> S]
            <3>1. \A i \in Nat, y \in S : g[<<i, y>>] \in S
                  BY <1>0
            <3>2. n \in 0..n /\ h[n] \in S
                  OBVIOUS
            <3> QED BY <3>1, <3>2
      <2>3. k[0] = a
            BY <2>1
      <2>4. ASSUME NEW i \in Nat, i < n + 1 PROVE k[i + 1] = g[<<i, k[i]>>]
            <3>1. CASE i < n
                  <4>1. k[i + 1] = h[i + 1] /\ k[i] = h[i]
                        BY <3>1
                  <4> QED BY <2>1, <3>1, <4>1
            <3>2. CASE i = n
                  <4>1. k[n + 1] = g[<<n, h[n]>>] /\ k[n] = h[n]
                        OBVIOUS
                  <4> QED BY <3>2, <4>1
            <3> QED BY <2>4, <3>1, <3>2
      <2> HIDE DEF k
      <2> QED BY <2>2, <2>3, <2>4
<1>3. \A n \in Nat : n \in Some
      <2> HIDE DEF Some
      <2> QED BY <1>1, <1>2, Induction
<1>4. ASSUME NEW n \in Nat PROVE The(n) \in [0..n -> S] /\ Good(n, The(n))
      <2>1. \E h \in [0..n -> S] : Good(n, h)
            BY <1>3
      <2> HIDE DEF Good
      <2> QED BY <2>1, Zenon
<1> HIDE DEF The
<1>5. ASSUME NEW n \in Nat PROVE \A k \in Nat : k <= n => The(n)[k] = The(n + 1)[k]
      <2> DEFINE A == {k \in Nat : k <= n => The(n)[k] = The(n + 1)[k]}
      <2>1. The(n)[0] = a /\ The(n + 1)[0] = a
            BY <1>4
      <2>2. ASSUME NEW k \in Nat, k <= n => The(n)[k] = The(n + 1)[k], k + 1 <= n
            PROVE  The(n)[k + 1] = The(n + 1)[k + 1]
            <3>1. The(n)[k + 1] = g[<<k, The(n)[k]>>]
                  BY <1>4, <2>2
            <3>2. The(n + 1)[k + 1] = g[<<k, The(n + 1)[k]>>]
                  BY <1>4, <2>2
            <3>3. The(n)[k] = The(n + 1)[k]
                  BY <2>2
            <3> QED BY <3>1, <3>2, <3>3
      <2>3. 0 \in A /\ \A k \in Nat : k \in A => k + 1 \in A
            BY <2>1, <2>2
      <2>4. (\A k \in Nat : k \in A) => \A k \in Nat : k <= n => The(n)[k] = The(n + 1)[k]
            OBVIOUS
      <2> HIDE DEF A
      <2>5. \A k \in Nat : k \in A
            BY <2>3, Induction
      <2> QED BY <2>4, <2>5
<1>6. f \in [Nat -> S] /\ f[0] = a
      BY <1>4
<1>7. ASSUME NEW i \in Nat PROVE f[i + 1] = g[<<i, f[i]>>]
      <2>1. The(i + 1)[i + 1] = g[<<i, The(i + 1)[i]>>]
            BY <1>4
      <2>2. The(i)[i] = The(i + 1)[i]
            BY <1>5
      <2> QED BY <2>1, <2>2
<1> HIDE DEF f
<1> QED BY <1>6, <1>7 DEF S

------------------------------------------------------------------------------
(* Numbers and their digits. *)

(* A quotient.                                                             *)
LEMMA Quotient ==
  ASSUME NEW b \in Nat \ {0}, NEW d \in 0..(b - 1), NEW y \in Nat
  PROVE  (d + b * y) \div b = y /\ (d + b * y) % b = d
<1> DEFINE x == d + b * y
           q == x \div b
<1>1. x \in Nat /\ b * y \in Nat
      OBVIOUS
<1>2. q \in Int /\ x = b * q + (x % b) /\ (x % b) \in 0..(b - 1)
      BY <1>1
<1>3. b * (y - q) = (x % b) - d
      BY <1>2
<1>4. (x % b) - d < b /\ (x % b) - d > -b
      BY <1>2
<1> QED BY <1>2, <1>3, <1>4

(* What is left after i digits are shifted out, digit by digit.            *)
LEMMA RestFacts ==
  ASSUME NEW x \in Nat, NEW base \in Nat \ {0}
  PROVE  /\ Rest(x, base) \in [Nat -> Nat]
         /\ Rest(x, base)[0] = x
         /\ \A i \in Nat : Rest(x, base)[i + 1] = Rest(x, base)[i] \div base
<1> DEFINE g == [p \in Nat \X Nat |-> p[2] \div base]
<1>1. \A y \in Nat : y \div base \in Nat
      OBVIOUS
<1>2. g \in [Nat \X Nat -> Nat] /\ \A i, y \in Nat : g[<<i, y>>] = y \div base
      BY <1>1
<1> HIDE DEF g
<1>3. PICK f \in [Nat -> Nat] : f[0] = x /\ \A i \in Nat : f[i + 1] = g[<<i, f[i]>>]
      <2>1. g \in [Nat \X Nat -> Nat] /\ x \in Nat
            BY <1>2
      <2> QED BY <2>1, RecursionOnNat
<1>4. \A i \in Nat : f[i] = IF i = 0 THEN x ELSE f[i - 1] \div base
      <2> SUFFICES ASSUME NEW i \in Nat, i # 0 PROVE f[i] = f[i - 1] \div base
          BY <1>3
      <2>1. i - 1 \in Nat /\ (i - 1) + 1 = i
            OBVIOUS
      <2> QED BY <1>2, <1>3, <2>1
<1>5. f = [i \in Nat |-> IF i = 0 THEN x ELSE f[i - 1] \div base]
      BY <1>4
<1>6. \E h : h = [i \in Nat |-> IF i = 0 THEN x ELSE h[i - 1] \div base]
      BY <1>5, Zenon
<1>7. Rest(x, base) = [i \in Nat |-> IF i = 0 THEN x ELSE Rest(x, base)[i - 1] \div base]
      BY <1>6, Zenon DEF Rest
<1>8. Rest(x, base)[0] = x
      BY <1>7
<1>9. \A i \in Nat : Rest(x, base)[i + 1] = Rest(x, base)[i] \div base
      BY <1>7
<1>10. \A i \in Nat : Rest(x, base)[i] \in Nat
      <2> DEFINE P == {i \in Nat : Rest(x, base)[i] \in Nat}
      <2>1. 0 \in P /\ \A i \in Nat : i \in P => i + 1 \in P
            BY <1>1, <1>8, <1>9
      <2> HIDE DEF P
      <2>2. \A i \in Nat : i \in P
            BY <2>1, Induction
      <2> QED BY <2>2 DEF P
<1> QED BY <1>7, <1>8, <1>9, <1>10

(* The value of the digits below a position, digit by digit from the top.  *)
LEMMA ValueFacts ==
  ASSUME NEW s, NEW end \in Nat, NEW base \in Nat, \A i \in 0..(end - 1) : s[i] \in Nat
  PROVE  /\ Value(s, end, base) \in [0..end -> Nat]
         /\ Value(s, end, base)[0] = 0
         /\ \A k \in 0..(end - 1) :
              Value(s, end, base)[k + 1] = s[end - (k + 1)] + base * Value(s, end, base)[k]
<1> DEFINE g == [p \in Nat \X Nat |-> IF p[1] < end THEN s[end - (p[1] + 1)] + base * p[2] ELSE 0]
<1>1. \A i, y \in Nat : i < end => s[end - (i + 1)] + base * y \in Nat
      OBVIOUS
<1>2. /\ g \in [Nat \X Nat -> Nat]
      /\ \A i, y \in Nat : i < end => g[<<i, y>>] = s[end - (i + 1)] + base * y
      BY <1>1
<1> HIDE DEF g
<1>3. PICK f \in [Nat -> Nat] : f[0] = 0 /\ \A i \in Nat : f[i + 1] = g[<<i, f[i]>>]
      <2>1. g \in [Nat \X Nat -> Nat] /\ 0 \in Nat
            BY <1>2
      <2> QED BY <2>1, RecursionOnNat
<1> DEFINE w == [k \in 0..end |-> f[k]]
<1>4. ASSUME NEW k \in 0..end
      PROVE  w[k] = IF k = 0 THEN 0 ELSE s[end - k] + base * w[k - 1]
      <2>1. CASE k = 0
            BY <1>3, <2>1
      <2>2. CASE k # 0
            <3>1. k - 1 \in Nat /\ k - 1 < end /\ (k - 1) + 1 = k /\ k - 1 \in 0..end
                  BY <2>2
            <3>2. f[k] = g[<<k - 1, f[k - 1]>>] /\ f[k - 1] \in Nat
                  BY <1>3, <3>1
            <3>3. g[<<k - 1, f[k - 1]>>] = s[end - ((k - 1) + 1)] + base * f[k - 1]
                  BY <1>2, <3>1, <3>2
            <3>4. f[k] = s[end - k] + base * f[k - 1]
                  BY <3>1, <3>2, <3>3
            <3> QED BY <2>2, <3>1, <3>4
      <2> QED BY <2>1, <2>2
<1>5. w = [k \in 0..end |-> IF k = 0 THEN 0 ELSE s[end - k] + base * w[k - 1]]
      <2>1. w = [k \in 0..end |-> w[k]]
            OBVIOUS
      <2> HIDE DEF w
      <2> QED BY <1>4, <2>1
<1>6. \E h : h = [k \in 0..end |-> IF k = 0 THEN 0 ELSE s[end - k] + base * h[k - 1]]
      <2> HIDE DEF w
      <2> QED BY <1>5, Zenon
<1> DEFINE V == Value(s, end, base)
<1>7. V = [k \in 0..end |-> IF k = 0 THEN 0 ELSE s[end - k] + base * V[k - 1]]
      BY <1>6, Zenon DEF Value
<1> HIDE DEF V
<1>8. V[0] = 0
      BY <1>7
<1>9. ASSUME NEW k \in 0..(end - 1) PROVE V[k + 1] = s[end - (k + 1)] + base * V[k]
      <2>1. k + 1 \in 0..end /\ k + 1 # 0 /\ (k + 1) - 1 = k
            OBVIOUS
      <2>2. V[k + 1] = s[end - (k + 1)] + base * V[(k + 1) - 1]
            BY <1>7, <2>1
      <2> QED BY <2>1, <2>2
<1>10. \A k \in 0..end : V[k] \in Nat
      <2> DEFINE P == {k \in Nat : k <= end => V[k] \in Nat}
      <2>1. 0 \in P
            BY <1>8
      <2>2. ASSUME NEW k \in Nat, k \in P PROVE k + 1 \in P
            <3> SUFFICES ASSUME k + 1 <= end PROVE V[k + 1] \in Nat
                OBVIOUS
            <3>1. V[k] \in Nat /\ s[end - (k + 1)] \in Nat
                  BY <2>2
            <3> QED BY <1>9, <3>1
      <2> HIDE DEF P
      <2>3. \A k \in Nat : k \in P
            BY <2>1, <2>2, Induction
      <2> QED BY <2>3 DEF P
<1>11. V \in [0..end -> Nat]
      BY <1>7, <1>10
<1> QED BY <1>8, <1>9, <1>11 DEF V

(* Shifting out j digits of a number in a base leaves the number of the    *)
(* others.                                                                 *)
LEMMA ShiftedValue ==
  ASSUME NEW s, NEW end \in Nat, NEW base \in Nat \ {0}, \A i \in 0..(end - 1) : s[i] \in 0..(base - 1)
  PROVE  \A j \in 0..end : Rest(Value(s, end, base)[end], base)[j] = Value(s, end, base)[end - j]
<1> DEFINE V == Value(s, end, base)
           R == Rest(V[end], base)
<1>1. /\ V \in [0..end -> Nat] /\ V[0] = 0
      /\ \A k \in 0..(end - 1) : V[k + 1] = s[end - (k + 1)] + base * V[k]
      <2>1. base \in Nat /\ \A i \in 0..(end - 1) : s[i] \in Nat
            OBVIOUS
      <2> QED BY <2>1, ValueFacts
<1>2. V[end] \in Nat
      BY <1>1
<1> HIDE DEF V
<1>3. R[0] = V[end] /\ \A i \in Nat : R[i + 1] = R[i] \div base
      BY <1>2, RestFacts
<1> HIDE DEF R
<1> DEFINE P == {j \in Nat : j <= end => R[j] = V[end - j]}
<1>4. 0 \in P
      BY <1>3
<1>5. ASSUME NEW j \in Nat, j \in P PROVE j + 1 \in P
      <2> SUFFICES ASSUME j + 1 <= end PROVE R[j + 1] = V[end - (j + 1)]
          OBVIOUS
      <2> DEFINE k == end - (j + 1)
      <2>1. k \in 0..(end - 1) /\ k + 1 = end - j /\ end - (k + 1) = j /\ j \in 0..(end - 1)
            OBVIOUS
      <2>2. V[k + 1] = s[j] + base * V[k] /\ V[k] \in Nat
            BY <1>1, <2>1
      <2>3. (s[j] + base * V[k]) \div base = V[k]
            BY <2>1, <2>2, Quotient
      <2>4. R[j + 1] = V[k + 1] \div base
            BY <1>3, <1>5, <2>1
      <2> QED BY <2>2, <2>3, <2>4
<1> HIDE DEF P
<1>6. \A j \in Nat : j \in P
      BY <1>4, <1>5, Induction
<1> QED BY <1>6 DEF P, R, V

(* Digits that are those of x make up x, if there are enough of them.      *)
LEMMA NumberOfDigits ==
  ASSUME NEW s, NEW from \in Nat, NEW len \in Nat, NEW x, FitsIn(x, len),
         \A i \in 0..(from + len - 1) : s[i] \in Nat,
         \A i \in 0..(len - 1) : s[from + i] = Digit(x, i)
  PROVE  Number(s, from, len) = x
<1> DEFINE V == Value(s, from + len, 4)
           R == Rest(x, 4)
<1>0. x \in Nat
      BY DEF FitsIn
<1>1. /\ V[0] = 0
      /\ \A k \in 0..(from + len - 1) : V[k + 1] = s[from + len - (k + 1)] + 4 * V[k]
      <2>1. from + len \in Nat
            OBVIOUS
      <2> QED BY <2>1, ValueFacts
<1>2. R \in [Nat -> Nat] /\ R[0] = x /\ \A i \in Nat : R[i + 1] = R[i] \div 4
      BY <1>0, RestFacts
<1>3. R[len] = 0 /\ \A i \in 0..(len - 1) : s[from + i] = R[i] % 4
      BY DEF FitsIn, Digit
<1>9. Number(s, from, len) = V[len]
      BY DEF Number
<1> HIDE DEF V, R
<1> DEFINE P == {k \in Nat : k <= len => V[k] = R[len - k]}
<1>4. 0 \in P
      BY <1>1, <1>3
<1>5. ASSUME NEW k \in Nat, k \in P PROVE k + 1 \in P
      <2> SUFFICES ASSUME k + 1 <= len PROVE V[k + 1] = R[len - (k + 1)]
          OBVIOUS
      <2> DEFINE i == len - (k + 1)
      <2>1. /\ i \in Nat /\ i \in 0..(len - 1) /\ i + 1 = len - k
            /\ from + len - (k + 1) = from + i /\ k \in 0..(from + len - 1)
            OBVIOUS
      <2>2. V[k + 1] = s[from + i] + 4 * V[k]
            BY <1>1, <2>1
      <2>3. V[k] = R[i] \div 4
            BY <1>2, <1>5, <2>1
      <2>4. s[from + i] = R[i] % 4
            BY <1>3, <2>1
      <2>5. R[i] \in Nat
            BY <1>2, <2>1
      <2> HIDE DEF i
      <2> QED BY <2>2, <2>3, <2>4, <2>5 DEF i
<1> HIDE DEF P
<1>6. \A k \in Nat : k \in P
      BY <1>4, <1>5, Induction
<1>7. V[len] = R[0]
      BY <1>6 DEF P
<1> QED BY <1>2, <1>7, <1>9

------------------------------------------------------------------------------
(* The table entry and its registers. *)

(* Where the fields lie, in the byte string and in the second register.    *)
LEMMA Layout ==
  ASSUME Packable
  PROVE  /\ LandAt \in Nat /\ NodeCount \in Nat /\ Register \in Nat /\ NodeCount <= LandAt
         /\ HiLand \in Nat /\ LandAt = Register + HiLand
         /\ HiFlags \in Nat /\ FlagsAt = Register + HiFlags /\ HiFlags = HiLand + LandDigits
         /\ HiExp \in Nat /\ ExpAt = Register + HiExp /\ HiExp = HiFlags + FlagDigits
         /\ HiExp + ExpDigits = Register
         /\ LandDigits \in Nat /\ FlagDigits \in Nat /\ ExpDigits \in Nat
<1> DEFINE n == NodeCount
           b == ByteDigits
           x == n + b - 1
           q == x \div b
<1>1. n \in Nat /\ b \in Nat \ {0} /\ x \in Nat
      BY LayoutAssumption DEF LayoutAssumption
<1>2. q \in Int /\ x = b * q + (x % b) /\ (x % b) \in 0..(b - 1) /\ b * q \in Int
      BY <1>1
<1>3. Width(n) = b * q
      BY DEF Width
<1>4. Width(n) \in Int /\ n <= Width(n)
      <2> HIDE DEF q
      <2> QED BY <1>1, <1>2, <1>3
<1> HIDE DEF n, b
<1> QED BY <1>1, <1>4, LayoutAssumption
       DEF LayoutAssumption, Packable, LayoutSize, LandAt, FlagsAt, ExpAt, HiLand, HiFlags, HiExp, n

(* The land count of a bitmap is a number.                                 *)
LEMMA LandCountType ==
  ASSUME NEW b
  PROVE  LandCount(b) \in Nat
<1> DEFINE L == LandNodes(b)
<1>1. L \subseteq Nodes
      BY DEF LandNodes
<1>2. IsFiniteSet(Nodes)
      <2>1. 0 \in Int /\ NodeCount - 1 \in Int
            BY LayoutAssumption DEF LayoutAssumption
      <2> QED BY <2>1, FS_Interval DEF Nodes
<1> HIDE DEF L
<1>3. IsFiniteSet(L)
      BY <1>1, <1>2, FS_Subset
<1>4. Cardinality(L) \in Nat
      BY <1>3, FS_CardinalityType
<1> QED BY <1>4 DEF LandCount, L

(* A digit is a number.                                                    *)
LEMMA DigitType ==
  ASSUME NEW x \in Nat, NEW i \in Nat
  PROVE  Digit(x, i) \in 0..3
<1>1. Rest(x, 4)[i] \in Nat
      BY RestFacts
<1> QED BY <1>1 DEF Digit

(* The bytes of an entry, field by field.                                  *)
LEMMA BytesOf ==
  ASSUME NEW e \in Entries, Packs(e)
  PROVE  LET s == ToBytes(e)
         IN /\ \A i \in Places : s[i] \in 0..3
            /\ \A n \in Nodes : n \in Places /\ s[n] = e.bits[n]
            /\ \A i \in 0..(LandAt - 1) : i \in Places /\ (i \notin Nodes => s[i] = 0)
            /\ \A i \in 0..(LandDigits - 1) : s[LandAt + i] = Digit(LandCount(e.bits), i)
            /\ \A i \in 0..(FlagDigits - 1) : s[FlagsAt + i] = Digit(e.flags, i)
            /\ \A i \in 0..(ExpDigits - 1) : s[ExpAt + i] = Digit(e.exp, i)
<1> DEFINE s == ToBytes(e)
<1>1. Packable /\ e.bits \in [Nodes -> Pairs] /\ e.flags \in Nat /\ e.exp \in Nat
      BY DEF Packs, Entries
<1>2. LandCount(e.bits) \in Nat
      BY LandCountType
<1> DEFINE c == LandCount(e.bits)
<1> HIDE DEF c
<1>3. \A i \in Places : s[i] = CASE i < LandAt -> BitsToBytes(e.bits)[i]
       [] i \in LandAt..(FlagsAt - 1) -> Digit(c, i - LandAt)
       [] i \in FlagsAt..(ExpAt - 1) -> Digit(e.flags, i - FlagsAt)
       [] i >= ExpAt -> Digit(e.exp, i - ExpAt)
      BY DEF ToBytes, c
<1>4. LandAt = Width(NodeCount)
      BY DEF LandAt
<1>5. \A i \in 0..(LandAt - 1) : BitsToBytes(e.bits)[i] = IF i \in Nodes THEN e.bits[i] ELSE 0
      BY <1>4 DEF BitsToBytes
<1>6. c \in Nat
      BY <1>2 DEF c
<1> HIDE DEF s
<1>7. /\ LandAt \in Nat /\ NodeCount \in Nat /\ NodeCount <= LandAt
      /\ FlagsAt = LandAt + LandDigits /\ ExpAt = FlagsAt + FlagDigits
      /\ ExpAt + ExpDigits = 2 * Register /\ Register \in Nat
      /\ LandDigits \in Nat /\ FlagDigits \in Nat /\ ExpDigits \in Nat
      BY <1>1, Layout
<1>8. ASSUME NEW i \in 0..(LandAt - 1)
      PROVE  i \in Places /\ s[i] = IF i \in Nodes THEN e.bits[i] ELSE 0
      <2>1. i \in Places /\ i < LandAt
            BY <1>7 DEF Places
      <2>2. i \notin LandAt..(FlagsAt - 1) /\ i \notin FlagsAt..(ExpAt - 1) /\ ~(i >= ExpAt)
            BY <1>7
      <2>3. s[i] = BitsToBytes(e.bits)[i]
            BY <1>3, <2>1, <2>2
      <2> QED BY <1>5, <2>1, <2>3
<1>9. ASSUME NEW i \in 0..(LandDigits - 1)
      PROVE  LandAt + i \in Places /\ s[LandAt + i] = Digit(c, i)
      <2>1. /\ LandAt + i \in Places /\ ~(LandAt + i < LandAt) /\ (LandAt + i) - LandAt = i
            /\ LandAt + i \in LandAt..(FlagsAt - 1)
            BY <1>7 DEF Places
      <2>2. LandAt + i \notin FlagsAt..(ExpAt - 1) /\ ~(LandAt + i >= ExpAt)
            BY <1>7
      <2> QED BY <1>3, <2>1, <2>2
<1>10. ASSUME NEW i \in 0..(FlagDigits - 1)
      PROVE  FlagsAt + i \in Places /\ s[FlagsAt + i] = Digit(e.flags, i)
      <2>1. /\ FlagsAt + i \in Places /\ ~(FlagsAt + i < LandAt) /\ (FlagsAt + i) - FlagsAt = i
            /\ FlagsAt + i \notin LandAt..(FlagsAt - 1)
            BY <1>7 DEF Places
      <2>2. FlagsAt + i \in FlagsAt..(ExpAt - 1) /\ ~(FlagsAt + i >= ExpAt)
            BY <1>7
      <2> QED BY <1>3, <2>1, <2>2
<1>11. ASSUME NEW i \in 0..(ExpDigits - 1)
      PROVE  ExpAt + i \in Places /\ s[ExpAt + i] = Digit(e.exp, i)
      <2>1. /\ ExpAt + i \in Places /\ ~(ExpAt + i < LandAt) /\ (ExpAt + i) - ExpAt = i
            /\ ExpAt + i \notin LandAt..(FlagsAt - 1)
            BY <1>7 DEF Places
      <2>2. ExpAt + i \notin FlagsAt..(ExpAt - 1) /\ ExpAt + i >= ExpAt
            BY <1>7
      <2> QED BY <1>3, <2>1, <2>2
<1>12. \A n \in Nodes : n \in 0..(LandAt - 1)
      BY <1>7 DEF Nodes
<1>13. ASSUME NEW i \in Places PROVE s[i] \in 0..3
      <2>1. CASE i < LandAt
            <3>1. i \in 0..(LandAt - 1)
                  BY <1>7, <2>1 DEF Places
            <3>2. i \in Nodes => e.bits[i] \in 0..3
                  BY <1>1 DEF Pairs
            <3> QED BY <1>8, <3>1, <3>2
      <2>2. CASE i >= LandAt /\ i < FlagsAt
            <3>1. i - LandAt \in 0..(LandDigits - 1) /\ LandAt + (i - LandAt) = i
                  BY <1>7, <2>2 DEF Places
            <3> QED BY <1>6, <1>9, <3>1, DigitType
      <2>3. CASE i >= FlagsAt /\ i < ExpAt
            <3>1. i - FlagsAt \in 0..(FlagDigits - 1) /\ FlagsAt + (i - FlagsAt) = i
                  BY <1>7, <2>3 DEF Places
            <3> QED BY <1>1, <1>10, <3>1, DigitType
      <2>4. CASE i >= ExpAt
            <3>1. i - ExpAt \in 0..(ExpDigits - 1) /\ ExpAt + (i - ExpAt) = i
                  BY <1>7, <2>4 DEF Places
            <3> QED BY <1>1, <1>11, <3>1, DigitType
      <2> QED BY <1>7, <2>1, <2>2, <2>3, <2>4 DEF Places
<1> QED BY <1>8, <1>9, <1>10, <1>11, <1>12, <1>13 DEF s, c

(* What the two registers hold, and where.                                 *)
LEMMA RegistersOf ==
  ASSUME NEW e \in Entries, Packs(e)
  PROVE  /\ \A i \in 0..(Register - 1) : ToRegs(e).lo[i] \in 0..3 /\ ToRegs(e).hi[i] \in 0..3
         /\ \A n \in Nodes : IF n < Register THEN ToRegs(e).lo[n] = e.bits[n]
                             ELSE /\ n - Register \in 0..(Register - 1) /\ n - Register < HiLand
                                  /\ ToRegs(e).hi[n - Register] = e.bits[n]
         /\ Number(ToRegs(e).hi, HiLand, LandDigits) = LandCount(e.bits)
         /\ Number(ToRegs(e).hi, HiFlags, FlagDigits) = e.flags
         /\ Number(ToRegs(e).hi, HiExp, ExpDigits) = e.exp
<1> DEFINE s == ToBytes(e)
           lo == ToRegs(e).lo
           hi == ToRegs(e).hi
<1>1. /\ Packable /\ FitsIn(LandCount(e.bits), LandDigits) /\ FitsIn(e.flags, FlagDigits)
      /\ FitsIn(e.exp, ExpDigits)
      BY DEF Packs, WellFormedEntry
<1>2. \A i \in 0..(Register - 1) : lo[i] = s[i] /\ hi[i] = s[Register + i]
      BY DEF ToRegs
<1>3. /\ \A i \in Places : s[i] \in 0..3
      /\ \A n \in Nodes : n \in Places /\ s[n] = e.bits[n]
      /\ \A i \in 0..(LandDigits - 1) : s[LandAt + i] = Digit(LandCount(e.bits), i)
      /\ \A i \in 0..(FlagDigits - 1) : s[FlagsAt + i] = Digit(e.flags, i)
      /\ \A i \in 0..(ExpDigits - 1) : s[ExpAt + i] = Digit(e.exp, i)
      BY BytesOf
<1>4. /\ LandAt \in Nat /\ NodeCount \in Nat /\ Register \in Nat /\ NodeCount <= LandAt
      /\ HiLand \in Nat /\ LandAt = Register + HiLand
      /\ HiFlags \in Nat /\ FlagsAt = Register + HiFlags /\ HiFlags = HiLand + LandDigits
      /\ HiExp \in Nat /\ ExpAt = Register + HiExp /\ HiExp = HiFlags + FlagDigits
      /\ HiExp + ExpDigits = Register
      /\ LandDigits \in Nat /\ FlagDigits \in Nat /\ ExpDigits \in Nat
      BY <1>1, Layout
<1> HIDE DEF s, lo, hi
<1>5. \A i \in 0..(Register - 1) : lo[i] \in 0..3 /\ hi[i] \in 0..3
      <2>1. \A i \in 0..(Register - 1) : i \in Places /\ Register + i \in Places
            BY <1>4 DEF Places
      <2> QED BY <1>2, <1>3, <2>1
<1>6. ASSUME NEW n \in Nodes
      PROVE  IF n < Register THEN lo[n] = e.bits[n]
             ELSE /\ n - Register \in 0..(Register - 1) /\ n - Register < HiLand
                  /\ hi[n - Register] = e.bits[n]
      <2>1. CASE n < Register
            <3>1. n \in 0..(Register - 1)
                  BY <1>4, <2>1 DEF Nodes
            <3> QED BY <1>2, <1>3, <2>1, <3>1
      <2>2. CASE n >= Register
            <3>1. /\ n - Register \in 0..(Register - 1) /\ Register + (n - Register) = n
                  /\ n - Register < HiLand
                  BY <1>4, <2>2 DEF Nodes
            <3> QED BY <1>2, <1>3, <1>4, <2>2, <3>1
      <2> QED BY <1>4, <2>1, <2>2 DEF Nodes
<1>7. Number(hi, HiLand, LandDigits) = LandCount(e.bits)
      <2>1. ASSUME NEW i \in 0..(LandDigits - 1)
            PROVE  hi[HiLand + i] = Digit(LandCount(e.bits), i)
            <3>1. HiLand + i \in 0..(Register - 1) /\ Register + (HiLand + i) = LandAt + i
                  BY <1>4
            <3> QED BY <1>2, <1>3, <3>1
      <2>2. \A i \in 0..(HiLand + LandDigits - 1) : hi[i] \in Nat
            BY <1>4, <1>5
      <2>3. HiLand \in Nat /\ LandDigits \in Nat /\ FitsIn(LandCount(e.bits), LandDigits)
            BY <1>1, <1>4
      <2> QED BY <2>1, <2>2, <2>3, NumberOfDigits
<1>8. Number(hi, HiFlags, FlagDigits) = e.flags
      <2>1. ASSUME NEW i \in 0..(FlagDigits - 1)
            PROVE  hi[HiFlags + i] = Digit(e.flags, i)
            <3>1. HiFlags + i \in 0..(Register - 1) /\ Register + (HiFlags + i) = FlagsAt + i
                  BY <1>4
            <3> QED BY <1>2, <1>3, <3>1
      <2>2. \A i \in 0..(HiFlags + FlagDigits - 1) : hi[i] \in Nat
            BY <1>4, <1>5
      <2>3. HiFlags \in Nat /\ FlagDigits \in Nat /\ FitsIn(e.flags, FlagDigits)
            BY <1>1, <1>4
      <2> QED BY <2>1, <2>2, <2>3, NumberOfDigits
<1>9. Number(hi, HiExp, ExpDigits) = e.exp
      <2>1. ASSUME NEW i \in 0..(ExpDigits - 1)
            PROVE  hi[HiExp + i] = Digit(e.exp, i)
            <3>1. HiExp + i \in 0..(Register - 1) /\ Register + (HiExp + i) = ExpAt + i
                  BY <1>4
            <3> QED BY <1>2, <1>3, <3>1
      <2>2. \A i \in 0..(HiExp + ExpDigits - 1) : hi[i] \in Nat
            BY <1>4, <1>5
      <2>3. HiExp \in Nat /\ ExpDigits \in Nat /\ FitsIn(e.exp, ExpDigits)
            BY <1>1, <1>4
      <2> QED BY <2>1, <2>2, <2>3, NumberOfDigits
<1> QED BY <1>5, <1>6, <1>7, <1>8, <1>9 DEF lo, hi

(* CalendarRouteEntry.from_regs of to_regs, and from_bytes of to_bytes:    *)
(* for every size of the fields, whatever packs is read back as it was,    *)
(* with its land count declared, and no bit beyond the last node is set,   *)
(* so that from_bytes does not refuse it.                                  *)
THEOREM EntryRoundTrip ==
  ASSUME NEW e \in Entries, Packs(e)
  PROVE  /\ FromRegs(ToRegs(e)) = [e EXCEPT !.declared = LandCount(e.bits)]
         /\ FromBytes(ToBytes(e)) = [e EXCEPT !.declared = LandCount(e.bits)]
         /\ \A i \in 0..(LandAt - 1) : i \notin Nodes => ToBytes(e)[i] = 0
<1> DEFINE s == ToBytes(e)
           r == ToRegs(e)
           w == [bits |-> e.bits, exp |-> e.exp, flags |-> e.flags, declared |-> LandCount(e.bits)]
<1>1. /\ Packable /\ FitsIn(LandCount(e.bits), LandDigits) /\ FitsIn(e.flags, FlagDigits)
      /\ FitsIn(e.exp, ExpDigits)
      BY DEF Packs, WellFormedEntry
<1>2. w = [e EXCEPT !.declared = LandCount(e.bits)]
      BY DEF Entries
<1>3. /\ LandAt \in Nat /\ NodeCount \in Nat /\ Register \in Nat /\ NodeCount <= LandAt
      /\ HiLand \in Nat /\ LandAt = Register + HiLand
      /\ HiFlags \in Nat /\ FlagsAt = Register + HiFlags /\ HiFlags = HiLand + LandDigits
      /\ HiExp \in Nat /\ ExpAt = Register + HiExp /\ HiExp = HiFlags + FlagDigits
      /\ HiExp + ExpDigits = Register
      /\ LandDigits \in Nat /\ FlagDigits \in Nat /\ ExpDigits \in Nat
      BY <1>1, Layout
<1>4. e.bits \in [Nodes -> Pairs]
      BY DEF Entries
<1>5. FromRegs(r) = w
      <2>1. /\ \A n \in Nodes : IF n < Register THEN r.lo[n] = e.bits[n]
                                ELSE n - Register < HiLand /\ r.hi[n - Register] = e.bits[n]
            /\ Number(r.hi, HiLand, LandDigits) = LandCount(e.bits)
            /\ Number(r.hi, HiFlags, FlagDigits) = e.flags
            /\ Number(r.hi, HiExp, ExpDigits) = e.exp
            BY RegistersOf
      <2> HIDE DEF r
      <2>2. ASSUME NEW n \in Nodes PROVE RouteBitsValue(r)[n] = e.bits[n]
            <3>1. n \in 0..(Register + HiLand - 1)
                  BY <1>3 DEF Nodes
            <3>2. RouteBitsValue(r)[n] = IF n < Register THEN r.lo[n] ELSE r.hi[n - Register]
                  BY <3>1 DEF RouteBitsValue
            <3> QED BY <2>1, <3>2
      <2>3. BitsFromBytes(RouteBitsValue(r)) = e.bits
            BY <1>4, <2>2 DEF BitsFromBytes
      <2> QED BY <2>1, <2>3 DEF FromRegs
<1>6. /\ \A i \in Places : s[i] \in 0..3
      /\ \A n \in Nodes : s[n] = e.bits[n]
      /\ \A i \in 0..(LandAt - 1) : i \notin Nodes => s[i] = 0
      /\ \A i \in 0..(LandDigits - 1) : s[LandAt + i] = Digit(LandCount(e.bits), i)
      /\ \A i \in 0..(FlagDigits - 1) : s[FlagsAt + i] = Digit(e.flags, i)
      /\ \A i \in 0..(ExpDigits - 1) : s[ExpAt + i] = Digit(e.exp, i)
      BY BytesOf
<1> HIDE DEF s
<1>7. FromBytes(s) = w
      <2>1. BitsFromBytes(s) = e.bits
            BY <1>4, <1>6 DEF BitsFromBytes
      <2>2. /\ \A i \in 0..(LandAt + LandDigits - 1) : s[i] \in Nat
            /\ \A i \in 0..(FlagsAt + FlagDigits - 1) : s[i] \in Nat
            /\ \A i \in 0..(ExpAt + ExpDigits - 1) : s[i] \in Nat
            BY <1>3, <1>6 DEF Places
      <2>3. LandAt \in Nat /\ FlagsAt \in Nat /\ ExpAt \in Nat
            BY <1>3
      <2>4. Number(s, LandAt, LandDigits) = LandCount(e.bits)
            <3>1. FitsIn(LandCount(e.bits), LandDigits) /\ LandAt \in Nat /\ LandDigits \in Nat
                  BY <1>1, <1>3
            <3>2. /\ \A i \in 0..(LandAt + LandDigits - 1) : s[i] \in Nat
                  /\ \A i \in 0..(LandDigits - 1) : s[LandAt + i] = Digit(LandCount(e.bits), i)
                  BY <1>6, <2>2
            <3> QED BY <3>1, <3>2, NumberOfDigits
      <2>5. Number(s, FlagsAt, FlagDigits) = e.flags
            <3>1. FitsIn(e.flags, FlagDigits) /\ FlagsAt \in Nat /\ FlagDigits \in Nat
                  BY <1>1, <1>3
            <3>2. /\ \A i \in 0..(FlagsAt + FlagDigits - 1) : s[i] \in Nat
                  /\ \A i \in 0..(FlagDigits - 1) : s[FlagsAt + i] = Digit(e.flags, i)
                  BY <1>6, <2>2
            <3> QED BY <3>1, <3>2, NumberOfDigits
      <2>6. Number(s, ExpAt, ExpDigits) = e.exp
            <3>1. FitsIn(e.exp, ExpDigits) /\ ExpAt \in Nat /\ ExpDigits \in Nat
                  BY <1>1, <1>3
            <3>2. /\ \A i \in 0..(ExpAt + ExpDigits - 1) : s[i] \in Nat
                  /\ \A i \in 0..(ExpDigits - 1) : s[ExpAt + i] = Digit(e.exp, i)
                  BY <1>6, <2>2
            <3> QED BY <3>1, <3>2, NumberOfDigits
      <2> QED BY <2>1, <2>4, <2>5, <2>6 DEF FromBytes
<1> QED BY <1>2, <1>5, <1>6, <1>7 DEF s

(* The two shifts of the graph find the pair of every node, in whichever   *)
(* register it lies: the other shift brings in nothing.                    *)
LEMMA PairRead ==
  ASSUME NEW e \in Entries, Packs(e), NEW n \in Nodes, NEW w,
         w.lo = ToRegs(e).lo, w.hi = ToRegs(e).hi
  PROVE  PairOf(w, n) = e.bits[n]
<1>1. IF n < Register THEN w.lo[n] = e.bits[n]
      ELSE n - Register \in 0..(Register - 1) /\ w.hi[n - Register] = e.bits[n]
      BY RegistersOf
<1>2. n \in Int /\ Register \in Nat /\ e.bits[n] \in 0..3
      BY LayoutAssumption DEF LayoutAssumption, Nodes, Entries, Pairs
<1>3. PairLow(w, n) = IF n < Register THEN e.bits[n] ELSE 0
      BY <1>1 DEF PairLow, Shifted
<1>4. PairHigh(w, n) = IF n < Register THEN 0 ELSE e.bits[n]
      <2>1. CASE n < Register
            BY <1>2, <2>1 DEF PairHigh, Shifted, HighShift
      <2>2. CASE n >= Register
            <3>1. HighShift(n) = n - Register /\ n - Register < Register
                  BY <1>1, <1>2, <2>2 DEF HighShift
            <3> QED BY <1>1, <1>2, <2>2, <3>1 DEF PairHigh, Shifted
      <2> QED BY <1>2, <2>1, <2>2
<1>5. \A p \in 0..3 : Or(p, 0) = p /\ Or(0, p) = p
      <2>1. \A p \in 0..3 : p = 0 \/ p = 1 \/ p = 2 \/ p = 3
            OBVIOUS
      <2> QED BY <2>1 DEF Or, Passes, Lands, Pass, Illegal
<1> QED BY <1>2, <1>3, <1>4, <1>5 DEF PairOf

------------------------------------------------------------------------------
(* The lanes of the counter vector. *)

(* The lane of an opcode as the graph reads it is its counter and, above   *)
(* it, the lanes of the higher opcodes.                                    *)
LEMMA LaneReads ==
  ASSUME before \in [Opcodes -> 0..TagCapacity], NEW op \in Opcodes
  PROVE  /\ Lane(Counters, op) \in Nat
         /\ HigherIdle(op) => Lane(Counters, op) = before[op]
<1> DEFINE n == OpcodeCount
           V == Value(before, n, Stride)
<1>1. n \in Nat /\ Stride \in Nat \ {0, 1} /\ TagCapacity \in 1..(Stride - 1) /\ op \in 0..(n - 1)
      BY BlocksAssumption, EngineAssumption DEF BlocksAssumption, EngineAssumption, Opcodes
<1>2. \A i \in 0..(n - 1) : before[i] \in 0..(Stride - 1) /\ before[i] \in Nat
      BY <1>1 DEF Opcodes
<1>3. /\ V \in [0..n -> Nat] /\ V[0] = 0
      /\ \A k \in 0..(n - 1) : V[k + 1] = before[n - (k + 1)] + Stride * V[k]
      <2>1. Stride \in Nat /\ n \in Nat /\ \A i \in 0..(n - 1) : before[i] \in Nat
            BY <1>1, <1>2
      <2> QED BY <2>1, ValueFacts
<1>4. \A j \in 0..n : Rest(V[n], Stride)[j] = V[n - j]
      <2>1. Stride \in Nat \ {0} /\ \A i \in 0..(n - 1) : before[i] \in 0..(Stride - 1)
            BY <1>1, <1>2
      <2>2. n \in Nat
            BY <1>1
      <2> HIDE DEF n
      <2> QED BY <2>1, <2>2, ShiftedValue
<1>5. Lane(Counters, op) = Rest(V[n], Stride)[op]
      BY DEF Lane, Counters
<1> HIDE DEF V, n
<1>6. Lane(Counters, op) = V[n - op] /\ n - op \in 0..n
      BY <1>1, <1>4, <1>5
<1>7. ASSUME HigherIdle(op) PROVE V[n - op] = before[op]
      <2> DEFINE P == {j \in Nat : j < n - op => V[j] = 0}
      <2>1. 0 \in P
            BY <1>3
      <2>2. ASSUME NEW j \in Nat, j \in P PROVE j + 1 \in P
            <3> SUFFICES ASSUME j + 1 < n - op PROVE V[j + 1] = 0
                OBVIOUS
            <3>1. j \in 0..(n - 1) /\ n - (j + 1) \in 0..(n - 1) /\ n - (j + 1) > op
                  BY <1>1
            <3>2. before[n - (j + 1)] = 0
                  BY <1>7, <3>1 DEF HigherIdle, Opcodes, n
            <3>3. V[j] = 0
                  <4>1. j < n - op
                        BY <1>1, <3>1
                  <4> QED BY <2>2, <4>1
            <3>4. V[j + 1] = before[n - (j + 1)] + Stride * V[j]
                  BY <1>3, <3>1
            <3> QED BY <1>1, <3>2, <3>3, <3>4
      <2> HIDE DEF P
      <2>3. \A j \in Nat : j \in P
            BY <2>1, <2>2, Induction
      <2>4. V[n - op - 1] = 0 /\ n - op - 1 \in 0..(n - 1) /\ (n - op - 1) + 1 = n - op
            BY <1>1, <2>3 DEF P
      <2>5. n - ((n - op - 1) + 1) = op
            BY <1>1
      <2>6. before[op] \in Nat
            BY <1>1, <1>2
      <2> QED BY <1>1, <1>3, <2>4, <2>5, <2>6
<1>8. V[n - op] \in Nat
      BY <1>3, <1>6
<1> QED BY <1>6, <1>7, <1>8

------------------------------------------------------------------------------
(* The inductive invariant. *)

Landing(s) ==
  /\ s.source # self /\ table[s.source].bits[self] = Land
  /\ Inside(Addr[s.source], Addr[s.source] + RowBytes, Dst, Capacity)

ProgramOK == self \in Placed /\ table \in Tables /\ calreg \in Images

\* Every counter is one round past the one before, or was never used.
InRounds ==
  \A op \in Opcodes : \/ epochs[op] = NextTag(before[op])
                      \/ epochs[op] = 0 /\ before[op] = 0

SentOK == /\ IsFiniteSet(sent)
          /\ \A s \in sent : s.source # self /\ s.opcode \in calreg

LedgerOK == \A op \in Opcodes : \A s \in ledger[op] : s.opcode = op /\ Landing(s)

AccountedOK ==
  \A op \in Opcodes :
    /\ accounted[op] \subseteq sent
    /\ counted[op] = RowBytes * Cardinality(accounted[op])
    /\ seen[op] = {s.seq : s \in accounted[op]}
    /\ \A s \in accounted[op] : s.opcode = op /\ (Current(s) /\ LandsHere(s) => s \in ledger[op])
    /\ complete[op] => \E n \in Nodes : counted[op] >= table[n].exp

Fields == {"segment", "opcode", "tag", "seq", "addr", "bytes", "own", "lo", "hi", "pair", "lane",
           "egress", "landCount", "flags", "exp", "dst", "capacity", "counted", "seen", "calreg",
           "gate", "ctr", "drained", "epochNext", "epochOk", "epochWrap", "accepted", "complete",
           "fault", "code"}

\* What no rule changes.
Operands ==
  /\ DOMAIN v = Fields
  /\ v.opcode \in Opcodes /\ v.segment.opcode = v.opcode /\ v.segment.source \in Nodes
  /\ v.tag = v.segment.epoch /\ v.seq = v.segment.seq /\ v.seq \in Nat /\ v.bytes = RowBytes
  /\ v.addr = Addr[v.segment.source] /\ v.own = (v.segment.source = self)
  /\ v.lo = ToRegs(table[v.segment.source]).lo /\ v.hi = ToRegs(table[v.segment.source]).hi
  /\ v.dst = Dst /\ v.capacity = Capacity /\ v.calreg = calreg /\ v.ctr = Counters
  /\ v.segment.source # self =>
       /\ v.segment \in sent
       /\ CoreCounts(v.segment) => v.segment \in ledger[v.opcode]

LoadedOK ==
  LET e == table[v.segment.source]
  IN v.pair = e.bits[self] /\ v.landCount = LandCount(e.bits) /\ v.flags = e.flags /\ v.exp = e.exp

Gated == v.gate = (v.opcode \in calreg /\ v.opcode \notin Reserved)

Tagged ==
  LET lane == Lane(Counters, v.opcode)
  IN /\ v.epochOk = (lane < TagCapacity \/ v.drained) /\ v.epochWrap = ~v.epochOk
     /\ v.epochOk => v.epochNext = IF lane = 0 \/ lane >= TagCapacity THEN 1 ELSE (lane + 1) % Stride

Resident == v.counted = counted[v.opcode] /\ v.seen = seen[v.opcode]

\* Why a segment is accepted.
Accepts ==
  /\ v.epochOk /\ v.tag # 0
  /\ v.exp <= Capacity
  /\ Inside(v.addr, v.addr + RowBytes, Dst, Capacity)
  /\ SeenBit(v.seq) \cap seen[v.opcode] = {} /\ v.seq < SeenCapacity
  /\ ~v.own /\ v.gate /\ v.pair # Illegal

Committing ==
  /\ v.accepted = Accepts
  /\ v.counted = counted[v.opcode] + (IF v.accepted THEN RowBytes ELSE 0)
  /\ v.seen = seen[v.opcode] \cup (IF v.accepted THEN {v.seq} ELSE {})
  /\ v.complete = (v.counted >= v.exp)

\* The event after each rule.
EventOK ==
  /\ stage # "idle" => Operands /\ v.drained \in BOOLEAN
  /\ stage \notin {"idle", "source"} => LoadedOK
  /\ stage \in {"source", "loaded", "forwarded", "admitted", "epoch"} => Resident
  /\ stage \in {"loaded", "forwarded"} => v.fault = (v.pair = Illegal)
  /\ stage \in {"admitted", "epoch", "accounted"} => Gated
  /\ stage = "admitted" => v.fault = (v.pair = Illegal \/ ~v.gate)
  /\ stage \in {"epoch", "accounted"} => Tagged
  /\ stage = "epoch" => v.fault = (v.pair = Illegal \/ ~v.gate \/ ~v.epochOk)
  /\ stage = "accounted" => Committing

EngineInv == TypeOK /\ ProgramOK /\ InRounds /\ SentOK /\ LedgerOK /\ AccountedOK /\ EventOK

------------------------------------------------------------------------------
(* What each rule writes into the event, and that it leaves the rest.      *)

(* load_route_entry writes the pair, the fields beside it and the fault.   *)
LEMMA LoadWrites ==
  ASSUME NEW w, DOMAIN w = Fields, NEW n, NEW x, x = LoadRouteEntry(w, n)
  PROVE  /\ DOMAIN x = Fields
         /\ x.pair = PairOf(w, n) /\ x.landCount = Number(w.hi, HiLand, LandDigits)
         /\ x.flags = Number(w.hi, HiFlags, FlagDigits) /\ x.exp = Number(w.hi, HiExp, ExpDigits)
         /\ x.fault = (x.pair = Illegal)
         /\ \A f \in Fields \ {"pair", "lane", "landCount", "flags", "exp", "fault", "code"} : x[f] = w[f]
  BY DEF LoadRouteEntry, Fields

(* apply_forward writes the egress and adds to the fault.                  *)
LEMMA ForwardWrites ==
  ASSUME NEW w, DOMAIN w = Fields, NEW x, x = ApplyForward(w)
  PROVE  /\ DOMAIN x = Fields
         /\ x.fault = (w.fault \/ w.pair = Illegal)
         /\ \A f \in Fields \ {"egress", "fault"} : x[f] = w[f]
  BY DEF ApplyForward, Fields

(* admit_send writes the gate and adds to the fault.                       *)
LEMMA AdmitWrites ==
  ASSUME NEW w, DOMAIN w = Fields, NEW x, x = AdmitSend(w)
  PROVE  /\ DOMAIN x = Fields
         /\ x.gate = (w.opcode \in w.calreg /\ w.opcode \notin Reserved)
         /\ x.fault = (w.fault \/ ~(w.opcode \in w.calreg /\ w.opcode \notin Reserved))
         /\ \A f \in Fields \ {"gate", "accepted", "fault", "code"} : x[f] = w[f]
  BY DEF AdmitSend, Installed, Fields

(* epoch_policy writes the tag and whether a wrap is refused.              *)
LEMMA EpochWrites ==
  ASSUME NEW w, DOMAIN w = Fields, NEW x, x = EpochPolicy(w), NEW lane, lane = Lane(w.ctr, w.opcode)
  PROVE  /\ DOMAIN x = Fields
         /\ x.epochOk = ~RefusesWrap(lane, TagCapacity, w.drained)
         /\ x.epochWrap = RefusesWrap(lane, TagCapacity, w.drained)
         /\ x.epochNext = (IF lane = 0 \/ WrapsOnlyWhenDrained(lane, TagCapacity, w.drained)
                           THEN 1 ELSE lane + 1) % Stride
         /\ x.fault = (w.fault \/ x.epochWrap)
         /\ \A f \in Fields \ {"epochNext", "epochOk", "epochWrap", "fault", "accepted"} : x[f] = w[f]
  BY DEF EpochPolicy, Fields

(* recv_wait writes the count, the vector, the completion and the verdict. *)
LEMMA RecvWrites ==
  ASSUME NEW w, DOMAIN w = Fields, NEW x, x = RecvWait(w)
  PROVE  /\ DOMAIN x = Fields
         /\ x.accepted = Valid(w)
         /\ x.counted = w.counted + (IF Valid(w) THEN w.bytes ELSE 0)
         /\ x.seen = IF Valid(w) THEN AddMask(w.seen, w.seq) ELSE w.seen
         /\ x.complete = Reaches(w.counted + (IF Valid(w) THEN w.bytes ELSE 0), w.exp)
         /\ \A f \in Fields \ {"counted", "seen", "complete", "accepted", "fault", "code"} : x[f] = w[f]
  BY DEF RecvWait, Fields

(* The fields of the operands.                                             *)
OperandFields == {"segment", "opcode", "tag", "seq", "addr", "bytes", "own", "lo", "hi", "dst",
                  "capacity", "calreg", "ctr", "drained"}

(* A rule that leaves the operands alone keeps what is known of them.      *)
LEMMA OperandsKept ==
  ASSUME Operands, v.drained \in BOOLEAN, UNCHANGED <<program, core, resident>>, DOMAIN v' = Fields,
         \A f \in OperandFields : v'[f] = v[f]
  PROVE  Operands' /\ v'.drained \in BOOLEAN /\ v'.segment = v.segment /\ v'.opcode = v.opcode
<1>1. /\ v'.segment = v.segment /\ v'.opcode = v.opcode /\ v'.tag = v.tag /\ v'.seq = v.seq
      /\ v'.addr = v.addr /\ v'.bytes = v.bytes /\ v'.own = v.own /\ v'.lo = v.lo /\ v'.hi = v.hi
      /\ v'.dst = v.dst /\ v'.capacity = v.capacity /\ v'.calreg = v.calreg /\ v'.ctr = v.ctr
      /\ v'.drained = v.drained
      BY DEF OperandFields
<1>2. Counters' = Counters
      BY DEF Counters, core
<1>4. UNCHANGED <<self, table, calreg, epochs, before, sent, ledger>>
      BY DEF program, core
<1>5. v'.segment.source # self' =>
       /\ v'.segment \in sent'
       /\ CoreCounts(v.segment)' => v'.segment \in ledger'[v'.opcode]
      BY <1>1, <1>4 DEF Operands, CoreCounts, Current
<1> QED BY <1>1, <1>2, <1>4, <1>5 DEF Operands, CoreCounts, Current

(* A rule moves only the event, so the core and the resident state keep    *)
(* what is known of them.                                                  *)
LEMMA RestKept ==
  ASSUME EngineInv, UNCHANGED <<program, core, resident>>, stage' \in Stages
  PROVE  (TypeOK /\ ProgramOK /\ InRounds /\ SentOK /\ LedgerOK /\ AccountedOK)'
<1>1. /\ UNCHANGED <<self, table, calreg, epochs, before, sequence, sent, ledger>>
      /\ UNCHANGED <<seen, counted, complete, accounted>>
      BY DEF program, core, resident
<1>2. TypeOK'
      BY <1>1 DEF EngineInv, TypeOK
<1>3. ProgramOK' /\ InRounds' /\ SentOK'
      BY <1>1 DEF EngineInv, ProgramOK, InRounds, SentOK
<1>4. LedgerOK'
      BY <1>1 DEF EngineInv, LedgerOK, Landing
<1>5. AccountedOK'
      BY <1>1 DEF EngineInv, AccountedOK, Current, LandsHere
<1> QED BY <1>2, <1>3, <1>4, <1>5

(* The entry that a row of an installed table is.                          *)
LEMMA RowIsEntry ==
  ASSUME ProgramOK
  PROVE  /\ self \in Nodes /\ calreg \subseteq Opcodes \ Reserved
         /\ \A n \in Nodes : table[n] \in Entries /\ Packs(table[n])
  BY EngineAssumption DEF EngineAssumption, ProgramOK

(* Each action keeps the invariant: first load_route_entry.                *)
LEMMA LoadKeeps == EngineInv /\ Load => EngineInv'
<1> SUFFICES ASSUME EngineInv, Load PROVE EngineInv'
    OBVIOUS
<1>1. /\ stage = "source" /\ stage' = "loaded" /\ v' = LoadRouteEntry(v, self)
      /\ UNCHANGED <<program, core, resident>>
      BY DEF Load, Rule
<1>2. Operands /\ v.drained \in BOOLEAN /\ Resident
      BY <1>1 DEF EngineInv, EventOK
<1>3. /\ DOMAIN v' = Fields
      /\ v'.pair = PairOf(v, self) /\ v'.landCount = Number(v.hi, HiLand, LandDigits)
      /\ v'.flags = Number(v.hi, HiFlags, FlagDigits) /\ v'.exp = Number(v.hi, HiExp, ExpDigits)
      /\ v'.fault = (v'.pair = Illegal)
      /\ \A f \in Fields \ {"pair", "lane", "landCount", "flags", "exp", "fault", "code"} : v'[f] = v[f]
      BY <1>1, <1>2, LoadWrites DEF Operands
<1>4. v'.counted = v.counted /\ v'.seen = v.seen /\ \A f \in OperandFields : v'[f] = v[f]
      BY <1>3 DEF OperandFields, Fields
<1>5. Operands' /\ v'.drained \in BOOLEAN /\ v'.segment = v.segment /\ v'.opcode = v.opcode
      BY <1>1, <1>2, <1>3, <1>4, OperandsKept
<1>6. UNCHANGED <<self, table, counted, seen>>
      BY <1>1 DEF program, resident
<1>7. Resident'
      BY <1>2, <1>4, <1>5, <1>6 DEF Resident
<1> DEFINE e == table[v.segment.source]
<1>8. e \in Entries /\ Packs(e) /\ self \in Nodes
      BY <1>2, RowIsEntry DEF EngineInv, Operands
<1>9. v.lo = ToRegs(e).lo /\ v.hi = ToRegs(e).hi
      BY <1>2 DEF Operands
<1>10. v'.pair = e.bits[self]
      <2> HIDE DEF e
      <2> QED BY <1>3, <1>8, <1>9, PairRead
<1>11. v'.landCount = LandCount(e.bits) /\ v'.flags = e.flags /\ v'.exp = e.exp
      <2> HIDE DEF e
      <2> QED BY <1>3, <1>8, <1>9, RegistersOf
<1>12. LoadedOK'
      BY <1>5, <1>6, <1>10, <1>11 DEF LoadedOK
<1>13. EventOK'
      BY <1>1, <1>3, <1>5, <1>7, <1>12 DEF EventOK
<1> QED BY <1>1, <1>13, RestKept DEF EngineInv, Stages

(* apply_forward republishes the bitmap.                                   *)
LEMMA ForwardKeeps == EngineInv /\ Forward => EngineInv'
<1> SUFFICES ASSUME EngineInv, Forward PROVE EngineInv'
    OBVIOUS
<1>1. /\ stage = "loaded" /\ stage' = "forwarded" /\ v' = ApplyForward(v)
      /\ UNCHANGED <<program, core, resident>>
      BY DEF Forward, Rule
<1>2. Operands /\ v.drained \in BOOLEAN /\ Resident /\ LoadedOK /\ v.fault = (v.pair = Illegal)
      BY <1>1 DEF EngineInv, EventOK
<1>3. /\ DOMAIN v' = Fields /\ v'.fault = (v.fault \/ v.pair = Illegal)
      /\ \A f \in Fields \ {"egress", "fault"} : v'[f] = v[f]
      BY <1>1, <1>2, ForwardWrites DEF Operands
<1>4. /\ v'.counted = v.counted /\ v'.seen = v.seen /\ \A f \in OperandFields : v'[f] = v[f]
      /\ v'.pair = v.pair /\ v'.landCount = v.landCount /\ v'.flags = v.flags /\ v'.exp = v.exp
      BY <1>3 DEF OperandFields, Fields
<1>5. Operands' /\ v'.drained \in BOOLEAN /\ v'.segment = v.segment /\ v'.opcode = v.opcode
      BY <1>1, <1>2, <1>3, <1>4, OperandsKept
<1>6. UNCHANGED <<self, table, counted, seen>>
      BY <1>1 DEF program, resident
<1>7. Resident' /\ LoadedOK'
      BY <1>2, <1>4, <1>5, <1>6 DEF Resident, LoadedOK
<1>8. v'.fault = (v'.pair = Illegal)
      BY <1>2, <1>3, <1>4
<1>9. EventOK'
      BY <1>1, <1>5, <1>7, <1>8 DEF EventOK
<1> QED BY <1>1, <1>9, RestKept DEF EngineInv, Stages

(* admit_send sets the gate to the residency of the opcode.                *)
LEMMA AdmitKeeps == EngineInv /\ Admit => EngineInv'
<1> SUFFICES ASSUME EngineInv, Admit PROVE EngineInv'
    OBVIOUS
<1>1. /\ stage = "forwarded" /\ stage' = "admitted" /\ v' = AdmitSend(v)
      /\ UNCHANGED <<program, core, resident>>
      BY DEF Admit, Rule
<1>2. Operands /\ v.drained \in BOOLEAN /\ Resident /\ LoadedOK /\ v.fault = (v.pair = Illegal)
      BY <1>1 DEF EngineInv, EventOK
<1> DEFINE admitted == v.opcode \in calreg /\ v.opcode \notin Reserved
<1>3. /\ DOMAIN v' = Fields
      /\ v'.gate = admitted /\ v'.fault = (v.fault \/ ~admitted)
      /\ \A f \in Fields \ {"gate", "accepted", "fault", "code"} : v'[f] = v[f]
      <2>1. v.calreg = calreg /\ DOMAIN v = Fields
            BY <1>2 DEF Operands
      <2> QED BY <1>1, <2>1, AdmitWrites
<1>4. /\ v'.counted = v.counted /\ v'.seen = v.seen /\ \A f \in OperandFields : v'[f] = v[f]
      /\ v'.pair = v.pair /\ v'.landCount = v.landCount /\ v'.flags = v.flags /\ v'.exp = v.exp
      BY <1>3 DEF OperandFields, Fields
<1>5. Operands' /\ v'.drained \in BOOLEAN /\ v'.segment = v.segment /\ v'.opcode = v.opcode
      BY <1>1, <1>2, <1>3, <1>4, OperandsKept
<1>6. UNCHANGED <<self, table, calreg, counted, seen>>
      BY <1>1 DEF program, resident
<1>7. Resident' /\ LoadedOK'
      BY <1>2, <1>4, <1>5, <1>6 DEF Resident, LoadedOK
<1>8. Gated'
      BY <1>3, <1>5, <1>6 DEF Gated
<1>9. v'.fault = (v'.pair = Illegal \/ ~v'.gate)
      BY <1>2, <1>3, <1>4
<1>10. EventOK'
      BY <1>1, <1>5, <1>7, <1>8, <1>9 DEF EventOK
<1> QED BY <1>1, <1>10, RestKept DEF EngineInv, Stages

(* epoch_policy reads the lane of the opcode and advances or refuses it.   *)
LEMMA EpochKeeps == EngineInv /\ Epoch => EngineInv'
<1> SUFFICES ASSUME EngineInv, Epoch PROVE EngineInv'
    OBVIOUS
<1>1. /\ stage = "admitted" /\ stage' = "epoch" /\ v' = EpochPolicy(v)
      /\ UNCHANGED <<program, core, resident>>
      BY DEF Epoch, Rule
<1>2. /\ Operands /\ v.drained \in BOOLEAN /\ Resident /\ LoadedOK /\ Gated
      /\ v.fault = (v.pair = Illegal \/ ~v.gate)
      BY <1>1 DEF EngineInv, EventOK
<1> DEFINE lane == Lane(Counters, v.opcode)
           refuse == RefusesWrap(lane, TagCapacity, v.drained)
<1>3. /\ DOMAIN v' = Fields /\ v'.epochOk = ~refuse /\ v'.epochWrap = refuse
      /\ v'.epochNext = (IF lane = 0 \/ WrapsOnlyWhenDrained(lane, TagCapacity, v.drained)
                         THEN 1 ELSE lane + 1) % Stride
      /\ v'.fault = (v.fault \/ v'.epochWrap)
      /\ \A f \in Fields \ {"epochNext", "epochOk", "epochWrap", "fault", "accepted"} : v'[f] = v[f]
      <2>1. v.ctr = Counters /\ DOMAIN v = Fields
            BY <1>2 DEF Operands
      <2> QED BY <1>1, <2>1, EpochWrites
<1>4. /\ v'.counted = v.counted /\ v'.seen = v.seen /\ \A f \in OperandFields : v'[f] = v[f]
      /\ v'.pair = v.pair /\ v'.landCount = v.landCount /\ v'.flags = v.flags /\ v'.exp = v.exp
      /\ v'.gate = v.gate /\ v'.drained = v.drained
      BY <1>3 DEF OperandFields, Fields
<1>5. Operands' /\ v'.drained \in BOOLEAN /\ v'.segment = v.segment /\ v'.opcode = v.opcode
      BY <1>1, <1>2, <1>3, <1>4, OperandsKept
<1>6. UNCHANGED <<self, table, calreg, before, counted, seen>>
      BY <1>1 DEF program, core, resident
<1>7. Resident' /\ LoadedOK' /\ Gated'
      BY <1>2, <1>4, <1>5, <1>6 DEF Resident, LoadedOK, Gated
<1>8. lane \in Nat
      BY <1>2, LaneReads DEF EngineInv, TypeOK, Operands
<1>9. TagCapacity \in 1..(Stride - 1) /\ Stride \in Nat \ {0, 1}
      BY EngineAssumption DEF EngineAssumption
<1>10. Lane(Counters, v.opcode)' = lane
      BY <1>5, <1>6 DEF Counters, Lane
<1> HIDE DEF lane
<1>11. v'.epochOk = (lane < TagCapacity \/ v'.drained) /\ v'.epochWrap = ~v'.epochOk
      <2>1. refuse = ~(lane < TagCapacity \/ v.drained)
            BY <1>2, <1>8, <1>9 DEF RefusesWrap
      <2> HIDE DEF refuse
      <2>2. v'.epochOk = (lane < TagCapacity \/ v.drained)
            BY <1>3, <2>1
      <2>3. v'.epochWrap = ~(lane < TagCapacity \/ v.drained)
            BY <1>3, <2>1
      <2> QED BY <1>4, <2>2, <2>3
<1>12. v'.epochOk =>
         v'.epochNext = IF lane = 0 \/ lane >= TagCapacity THEN 1 ELSE (lane + 1) % Stride
      <2> SUFFICES ASSUME v'.epochOk
                   PROVE  v'.epochNext = IF lane = 0 \/ lane >= TagCapacity THEN 1 ELSE (lane + 1) % Stride
          OBVIOUS
      <2>1. WrapsOnlyWhenDrained(lane, TagCapacity, v.drained) <=> lane >= TagCapacity
            BY <1>3, <1>8, <1>9 DEF RefusesWrap, WrapsOnlyWhenDrained
      <2>2. 1 % Stride = 1
            BY <1>9
      <2> QED BY <1>3, <2>1, <2>2
<1>13. Tagged'
      BY <1>10, <1>11, <1>12 DEF Tagged
<1>14. v'.fault = (v'.pair = Illegal \/ ~v'.gate \/ ~v'.epochOk)
      BY <1>2, <1>3, <1>4
<1>15. EventOK'
      BY <1>1, <1>5, <1>7, <1>13, <1>14 DEF EventOK
<1> QED BY <1>1, <1>15, RestKept DEF EngineInv, Stages

(* recv_wait accepts exactly what the chain of its conditions allows.      *)
LEMMA RecvKeeps == EngineInv /\ Recv => EngineInv'
<1> SUFFICES ASSUME EngineInv, Recv PROVE EngineInv'
    OBVIOUS
<1>1. /\ stage = "epoch" /\ stage' = "accounted" /\ v' = RecvWait(v)
      /\ UNCHANGED <<program, core, resident>>
      BY DEF Recv, Rule
<1>2. /\ Operands /\ v.drained \in BOOLEAN /\ Resident /\ LoadedOK /\ Gated /\ Tagged
      /\ v.fault = (v.pair = Illegal \/ ~v.gate \/ ~v.epochOk)
      BY <1>1 DEF EngineInv, EventOK
<1> DEFINE ok == Valid(v)
<1>3. /\ DOMAIN v' = Fields /\ v'.accepted = ok
      /\ v'.counted = v.counted + (IF ok THEN v.bytes ELSE 0)
      /\ v'.seen = IF ok THEN AddMask(v.seen, v.seq) ELSE v.seen
      /\ v'.complete = Reaches(v.counted + (IF ok THEN v.bytes ELSE 0), v.exp)
      /\ \A f \in Fields \ {"counted", "seen", "complete", "accepted", "fault", "code"} : v'[f] = v[f]
      BY <1>1, <1>2, RecvWrites DEF Operands
<1>4. /\ \A f \in OperandFields : v'[f] = v[f]
      /\ v'.pair = v.pair /\ v'.landCount = v.landCount /\ v'.flags = v.flags /\ v'.exp = v.exp
      /\ v'.gate = v.gate /\ v'.drained = v.drained /\ v'.epochOk = v.epochOk
      /\ v'.epochWrap = v.epochWrap /\ v'.epochNext = v.epochNext
      /\ v'.tag = v.tag /\ v'.addr = v.addr /\ v'.seq = v.seq /\ v'.own = v.own
      BY <1>3 DEF OperandFields, Fields
<1>5. Operands' /\ v'.drained \in BOOLEAN /\ v'.segment = v.segment /\ v'.opcode = v.opcode
      BY <1>1, <1>2, <1>3, <1>4, OperandsKept
<1>6. UNCHANGED <<self, table, calreg, before, counted, seen>>
      BY <1>1 DEF program, core, resident
<1>7. LoadedOK' /\ Gated'
      BY <1>2, <1>4, <1>5, <1>6 DEF LoadedOK, Gated
<1>8. Lane(Counters, v.opcode)' = Lane(Counters, v.opcode)
      BY <1>5, <1>6 DEF Counters, Lane
<1>9. Tagged'
      BY <1>2, <1>4, <1>8 DEF Tagged
<1>10. v.bytes = RowBytes /\ v.dst = Dst /\ v.capacity = Capacity
       BY <1>2 DEF Operands
<1>11. ok = Accepts
       BY <1>2, <1>10 DEF Valid, Accepts, EpochGood, Resident
<1>12. Accepts' = Accepts
       BY <1>4, <1>5, <1>6 DEF Accepts
<1>13. ok => SeenBit(v.seq) = {v.seq}
       BY DEF Valid, SeenBit
<1> HIDE DEF ok
<1>14. v'.accepted = Accepts'
       BY <1>3, <1>11, <1>12
<1>15. v'.counted = counted'[v'.opcode] + (IF v'.accepted THEN RowBytes ELSE 0)
       BY <1>2, <1>3, <1>5, <1>6, <1>10 DEF Resident
<1>16. v'.seen = seen'[v'.opcode] \cup (IF v'.accepted THEN {v'.seq} ELSE {})
       BY <1>2, <1>3, <1>4, <1>5, <1>6, <1>13 DEF Resident, AddMask
<1>17. v'.complete = (v'.counted >= v'.exp)
       BY <1>3, <1>4 DEF Reaches
<1>18. Committing'
       BY <1>14, <1>15, <1>16, <1>17 DEF Committing
<1>19. EventOK'
       BY <1>1, <1>5, <1>7, <1>9, <1>18 DEF EventOK
<1> QED BY <1>1, <1>19, RestKept DEF EngineInv, Stages

(* An accepted segment is new to the round and, if its row makes this node *)
(* a land point, one that the core counted, unless it belongs to another   *)
(* round.                                                                  *)
LEMMA AcceptedIsCounted ==
  ASSUME EngineInv, stage = "accounted", v.accepted
  PROVE  /\ v.segment \in sent /\ v.segment.opcode = v.opcode
         /\ v.segment \notin accounted[v.opcode]
         /\ v.seq = v.segment.seq /\ v.seq \in 0..(SeenCapacity - 1)
         /\ Current(v.segment) /\ LandsHere(v.segment) => v.segment \in ledger[v.opcode]
<1>1. Operands /\ LoadedOK /\ Committing
      BY DEF EngineInv, EventOK
<1>2. Accepts
      BY <1>1 DEF Committing
<1>3. v.segment.source # self
      BY <1>1, <1>2 DEF Operands, Accepts
<1>4. v.opcode \in Opcodes /\ v.segment \in sent /\ v.segment.opcode = v.opcode /\ v.seq = v.segment.seq
      BY <1>1, <1>3 DEF Operands
<1>6. Inside(Addr[v.segment.source], Addr[v.segment.source] + RowBytes, Dst, Capacity)
      BY <1>1, <1>2 DEF Operands, Accepts
<1>7. Current(v.segment) /\ LandsHere(v.segment) => v.segment \in ledger[v.opcode]
      BY <1>1, <1>3, <1>6 DEF Operands, CoreCounts, LandsHere
<1>8. v.seq \in 0..(SeenCapacity - 1)
      BY <1>1, <1>2, BlocksAssumption DEF Operands, Accepts, BlocksAssumption
<1>9. SeenBit(v.seq) = {v.seq}
      BY <1>2 DEF Accepts, SeenBit
<1>10. v.seq \notin seen[v.opcode]
      BY <1>2, <1>9 DEF Accepts
<1>11. v.segment \notin accounted[v.opcode]
      BY <1>4, <1>10 DEF EngineInv, AccountedOK
<1> QED BY <1>4, <1>7, <1>8, <1>11

(* The resident state takes over what an event leaves with.                *)
LEMMA SinkKeeps == EngineInv /\ Sink => EngineInv'
<1> SUFFICES ASSUME EngineInv, Sink PROVE EngineInv'
    OBVIOUS
<1> DEFINE op == v.opcode
           s == v.segment
<1>1. /\ stage = "accounted" /\ stage' = "idle"
      /\ seen' = [seen EXCEPT ![op] = v.seen]
      /\ counted' = [counted EXCEPT ![op] = v.counted]
      /\ complete' = [complete EXCEPT ![op] = v.complete]
      /\ accounted' = [accounted EXCEPT ![op] = IF v.accepted THEN @ \cup {s} ELSE @]
      /\ UNCHANGED <<self, table, calreg, epochs, before, sequence, sent, ledger>>
      BY DEF Sink, program, core
<1>2. Operands /\ LoadedOK /\ Committing
      BY <1>1 DEF EngineInv, EventOK
<1>3. op \in Opcodes /\ v.exp = table[s.source].exp /\ s.source \in Nodes
      BY <1>2 DEF Operands, LoadedOK
<1>4. v.accepted =>
        /\ s \in sent /\ s.opcode = op /\ s \notin accounted[op]
        /\ v.seq = s.seq /\ v.seq \in 0..(SeenCapacity - 1)
        /\ Current(s) /\ LandsHere(s) => s \in ledger[op]
      BY <1>1, AcceptedIsCounted
<1>5. /\ v.counted = counted[op] + (IF v.accepted THEN RowBytes ELSE 0)
      /\ v.seen = seen[op] \cup (IF v.accepted THEN {v.seq} ELSE {})
      /\ v.complete = (v.counted >= v.exp)
      BY <1>2 DEF Committing
<1>6. TypeOK
      BY DEF EngineInv
<1>7. \A o \in Opcodes :
        /\ accounted[o] \subseteq sent
        /\ counted[o] = RowBytes * Cardinality(accounted[o])
        /\ seen[o] = {t.seq : t \in accounted[o]}
        /\ \A t \in accounted[o] : t.opcode = o /\ (Current(t) /\ LandsHere(t) => t \in ledger[o])
        /\ complete[o] => \E n \in Nodes : counted[o] >= table[n].exp
      BY DEF EngineInv, AccountedOK
<1>8. IsFiniteSet(sent)
      BY DEF EngineInv, SentOK
<1> HIDE DEF op, s
<1>9. TypeOK'
      <2>1. v.seen \subseteq 0..(SeenCapacity - 1) /\ v.complete \in BOOLEAN
            BY <1>3, <1>4, <1>5, <1>6 DEF TypeOK
      <2>2. v.counted \in Nat
            <3>1. counted[op] \in Nat /\ RowBytes \in Nat
                  BY <1>3, <1>6, EngineAssumption DEF TypeOK, EngineAssumption
            <3> QED BY <1>5, <3>1
      <2>3. accounted[op] \subseteq sent /\ (v.accepted => s \in sent)
            BY <1>3, <1>4, <1>7
      <2> QED BY <1>1, <1>3, <1>6, <2>1, <2>2, <2>3 DEF TypeOK, Stages
<1>10. ProgramOK' /\ InRounds' /\ SentOK' /\ LedgerOK'
      BY <1>1 DEF EngineInv, ProgramOK, InRounds, SentOK, LedgerOK, Landing
<1>11. /\ accounted'[op] = accounted[op] \cup (IF v.accepted THEN {s} ELSE {})
       /\ counted'[op] = v.counted /\ seen'[op] = v.seen /\ complete'[op] = v.complete
       /\ \A o \in Opcodes \ {op} : /\ accounted'[o] = accounted[o] /\ counted'[o] = counted[o]
                                    /\ seen'[o] = seen[o] /\ complete'[o] = complete[o]
      BY <1>1, <1>3, <1>6 DEF TypeOK
<1>12. counted'[op] = RowBytes * Cardinality(accounted'[op])
      <2>1. IsFiniteSet(accounted[op])
            BY <1>3, <1>7, <1>8, FS_Subset
      <2>2. Cardinality(accounted[op]) \in Nat
            BY <2>1, FS_CardinalityType
      <2>3. RowBytes \in Nat
            BY EngineAssumption DEF EngineAssumption
      <2>4. CASE v.accepted
            <3>1. Cardinality(accounted[op] \cup {s}) = Cardinality(accounted[op]) + 1
                  BY <1>4, <2>1, <2>4, FS_AddElement
            <3>2. counted'[op] = counted[op] + RowBytes /\ accounted'[op] = accounted[op] \cup {s}
                  BY <1>5, <1>11, <2>4
            <3>3. counted[op] = RowBytes * Cardinality(accounted[op])
                  BY <1>3, <1>7
            <3> DEFINE c == Cardinality(accounted[op])
            <3> HIDE DEF c
            <3>4. RowBytes * (c + 1) = RowBytes * c + RowBytes
                  BY <2>2, <2>3 DEF c
            <3> QED BY <3>1, <3>2, <3>3, <3>4 DEF c
      <2>5. CASE ~v.accepted
            <3>1. counted'[op] = counted[op] + 0 /\ accounted'[op] = accounted[op]
                  BY <1>5, <1>11, <2>5
            <3>2. counted[op] = RowBytes * Cardinality(accounted[op])
                  BY <1>3, <1>7
            <3> QED BY <2>2, <2>3, <3>1, <3>2
      <2> QED BY <2>4, <2>5
<1>13. seen'[op] = {t.seq : t \in accounted'[op]}
      BY <1>3, <1>4, <1>5, <1>7, <1>11
<1>14. ASSUME NEW t \in accounted'[op]
       PROVE  t \in sent' /\ t.opcode = op /\ (Current(t)' /\ LandsHere(t)' => t \in ledger'[op])
      BY <1>1, <1>3, <1>4, <1>7, <1>11 DEF Current, LandsHere
<1>15. complete'[op] => \E n \in Nodes : counted'[op] >= table'[n].exp
      BY <1>1, <1>3, <1>5, <1>11
<1>16. AccountedOK'
      <2> SUFFICES ASSUME NEW o \in Opcodes
                   PROVE  /\ accounted'[o] \subseteq sent'
                          /\ counted'[o] = RowBytes * Cardinality(accounted'[o])
                          /\ seen'[o] = {t.seq : t \in accounted'[o]}
                          /\ \A t \in accounted'[o] : t.opcode = o /\ (Current(t)' /\ LandsHere(t)' => t \in ledger'[o])
                          /\ complete'[o] => \E n \in Nodes : counted'[o] >= table'[n].exp
          BY DEF AccountedOK
      <2>1. CASE o = op
            BY <1>12, <1>13, <1>14, <1>15, <2>1
      <2>2. CASE o # op
            BY <1>1, <1>7, <1>11, <2>2 DEF Current, LandsHere
      <2> QED BY <2>1, <2>2
<1>17. EventOK'
      BY <1>1 DEF EventOK
<1> QED BY <1>9, <1>10, <1>16, <1>17 DEF EngineInv

(* Nothing has been sent, counted or accounted at first.                   *)
LEMMA EngineInitially == Init => EngineInv
<1> SUFFICES ASSUME Init PROVE EngineInv
    OBVIOUS
<1>1. /\ RowBytes \in Nat /\ TagCapacity \in Nat /\ SeenCapacity \in Nat /\ First \in [Nodes -> Nat]
      BY EngineAssumption, BlocksAssumption DEF EngineAssumption, BlocksAssumption
<1>2. TypeOK
      BY <1>1 DEF Init, TypeOK, Stages
<1>3. ProgramOK /\ InRounds /\ LedgerOK
      BY DEF Init, ProgramOK, InRounds, LedgerOK
<1>4. SentOK
      BY FS_EmptySet DEF Init, SentOK
<1>5. AccountedOK
      BY <1>1, FS_EmptySet DEF Init, AccountedOK
<1>6. EventOK
      BY DEF Init, EventOK
<1> QED BY <1>2, <1>3, <1>4, <1>5, <1>6 DEF EngineInv

(* A new round empties the bookkeeping of its opcode, in the graph and in  *)
(* the core.                                                               *)
LEMMA NextRoundKeeps ==
  ASSUME EngineInv, NEW op \in Opcodes, NEW d \in BOOLEAN, NextRound(op, d)
  PROVE  EngineInv'
<1>1. /\ stage = "idle" /\ stage' = "idle"
      /\ before' = [before EXCEPT ![op] = epochs[op]]
      /\ epochs' = [epochs EXCEPT ![op] = NextTag(epochs[op])]
      /\ ledger' = [ledger EXCEPT ![op] = {}] /\ seen' = [seen EXCEPT ![op] = {}]
      /\ counted' = [counted EXCEPT ![op] = 0] /\ complete' = [complete EXCEPT ![op] = FALSE]
      /\ accounted' = [accounted EXCEPT ![op] = {}]
      /\ UNCHANGED <<self, table, calreg, sequence, sent>>
      BY DEF NextRound, program
<1>2. RowBytes \in Nat /\ TagCapacity \in Nat \ {0}
      BY EngineAssumption DEF EngineAssumption
<1>3. TypeOK
      BY DEF EngineInv
<1>4. epochs[op] \in 0..TagCapacity /\ NextTag(epochs[op]) \in 0..TagCapacity
      BY <1>2, <1>3 DEF TypeOK, NextTag
<1>5. TypeOK'
      BY <1>1, <1>3, <1>4 DEF TypeOK
<1>6. ProgramOK' /\ SentOK'
      BY <1>1 DEF EngineInv, ProgramOK, SentOK
<1>7. InRounds'
      BY <1>1, <1>3 DEF EngineInv, InRounds, TypeOK, NextTag
<1>8. LedgerOK'
      BY <1>1, <1>3 DEF EngineInv, LedgerOK, Landing, TypeOK
<1>9. ASSUME NEW o \in Opcodes
      PROVE  /\ accounted'[o] \subseteq sent'
             /\ counted'[o] = RowBytes * Cardinality(accounted'[o])
             /\ seen'[o] = {t.seq : t \in accounted'[o]}
             /\ \A t \in accounted'[o] : t.opcode = o /\ (Current(t)' /\ LandsHere(t)' => t \in ledger'[o])
             /\ complete'[o] => \E n \in Nodes : counted'[o] >= table'[n].exp
      <2>1. CASE o = op
            <3>1. accounted'[o] = {} /\ counted'[o] = 0 /\ seen'[o] = {} /\ complete'[o] = FALSE
                  BY <1>1, <1>3, <2>1 DEF TypeOK
            <3> QED BY <1>2, <3>1, FS_EmptySet
      <2>2. CASE o # op
            <3>1. /\ accounted'[o] = accounted[o] /\ counted'[o] = counted[o] /\ seen'[o] = seen[o]
                  /\ complete'[o] = complete[o] /\ ledger'[o] = ledger[o] /\ epochs'[o] = epochs[o]
                  BY <1>1, <1>3, <2>2 DEF TypeOK
            <3>2. /\ accounted[o] \subseteq sent
                  /\ counted[o] = RowBytes * Cardinality(accounted[o])
                  /\ seen[o] = {t.seq : t \in accounted[o]}
                  /\ \A t \in accounted[o] : t.opcode = o /\ (t.epoch = epochs[o] /\ LandsHere(t) => t \in ledger[o])
                  /\ complete[o] => \E n \in Nodes : counted[o] >= table[n].exp
                  BY DEF EngineInv, AccountedOK, Current
            <3>3. \A t \in accounted[o] : (Current(t)' => t.epoch = epochs[o]) /\ (LandsHere(t)' <=> LandsHere(t))
                  BY <1>1, <3>1, <3>2 DEF Current, LandsHere
            <3> QED BY <1>1, <3>1, <3>2, <3>3
      <2> QED BY <2>1, <2>2
<1>10. AccountedOK'
      BY <1>9 DEF AccountedOK
<1>11. EventOK'
      BY <1>1 DEF EventOK
<1> QED BY <1>5, <1>6, <1>7, <1>8, <1>10, <1>11 DEF EngineInv

(* A send adds a segment that nobody has presented yet.                    *)
LEMMA SendKeeps ==
  ASSUME EngineInv, NEW s \in Sources, NEW op \in Opcodes, Send(s, op)
  PROVE  EngineInv'
<1> DEFINE new == [source |-> s, seq |-> sequence[s], opcode |-> op, epoch |-> epochs[op]]
<1>1. /\ stage = "idle" /\ s # self /\ op \in calreg /\ epochs[op] # 0 /\ sequence[s] < MaxSeq[s]
      /\ sequence' = [sequence EXCEPT ![s] = sequence[s] + 1]
      /\ sent' = sent \cup {new}
      /\ UNCHANGED <<self, table, calreg, epochs, before, ledger>>
      /\ UNCHANGED <<seen, counted, complete, accounted, stage, v>>
      BY DEF Send, program, resident
<1>2. s \in Nodes /\ TagCapacity \in Nat
      BY EngineAssumption DEF EngineAssumption
<1>3. TypeOK
      BY DEF EngineInv
<1>4. sequence[s] \in Nat /\ epochs[op] \in 1..TagCapacity
      BY <1>1, <1>2, <1>3 DEF TypeOK
<1>5. new \in Segment
      BY <1>2, <1>4 DEF Segment
<1>6. new.source # self /\ new.opcode \in calreg
      BY <1>1
<1> HIDE DEF new
<1>7. TypeOK'
      <2>1. sequence' \in [Nodes -> Nat]
            BY <1>1, <1>2, <1>3, <1>4 DEF TypeOK
      <2> QED BY <1>1, <1>3, <1>5, <2>1 DEF TypeOK
<1>8. SentOK'
      <2>1. IsFiniteSet(sent \cup {new})
            BY FS_AddElement DEF EngineInv, SentOK
      <2> QED BY <1>1, <1>6, <2>1 DEF EngineInv, SentOK
<1>9. ProgramOK' /\ InRounds' /\ LedgerOK'
      BY <1>1 DEF EngineInv, ProgramOK, InRounds, LedgerOK, Landing
<1>10. AccountedOK'
      BY <1>1 DEF EngineInv, AccountedOK, Current, LandsHere
<1>11. EventOK'
      BY <1>1 DEF EventOK
<1> QED BY <1>7, <1>8, <1>9, <1>10, <1>11 DEF EngineInv

(* The event as the source makes it.                                       *)
LEMMA EventHas ==
  ASSUME NEW s, NEW d, NEW x, x = Event(s, d)
  PROVE  /\ DOMAIN x = Fields
         /\ x.segment = s /\ x.opcode = s.opcode /\ x.tag = s.epoch /\ x.seq = s.seq
         /\ x.addr = Addr[s.source] /\ x.bytes = RowBytes /\ x.own = (s.source = self)
         /\ x.lo = ToRegs(table[s.source]).lo /\ x.hi = ToRegs(table[s.source]).hi
         /\ x.dst = Dst /\ x.capacity = Capacity /\ x.calreg = calreg /\ x.ctr = Counters
         /\ x.counted = counted[s.opcode] /\ x.seen = seen[s.opcode] /\ x.drained = d
  BY DEF Event, Fields

(* A segment that is presented enters the ledger with the same step, if it *)
(* counts.                                                                 *)
LEMMA PresentKeeps ==
  ASSUME EngineInv, NEW s \in sent, NEW d \in BOOLEAN, Present(s, d)
  PROVE  EngineInv'
<1> DEFINE op == s.opcode
<1>1. /\ stage = "idle" /\ stage' = "source" /\ v' = Event(s, d)
      /\ ledger' = [ledger EXCEPT ![op] = IF CoreCounts(s) THEN ledger[op] \cup {s} ELSE ledger[op]]
      /\ UNCHANGED <<self, table, calreg, epochs, before, sequence, sent>>
      /\ UNCHANGED <<seen, counted, complete, accounted>>
      BY DEF Present, program, resident
<1>2. TypeOK
      BY DEF EngineInv
<1>3. s \in Segment /\ s.source # self
      BY <1>2 DEF EngineInv, SentOK, TypeOK
<1>4. op \in Opcodes /\ s.source \in Nodes /\ s.seq \in Nat
      BY <1>3 DEF Segment
<1>5. TypeOK'
      BY <1>1, <1>2, <1>4 DEF TypeOK, Stages
<1>6. ProgramOK' /\ InRounds' /\ SentOK'
      BY <1>1 DEF EngineInv, ProgramOK, InRounds, SentOK
<1>7. /\ ledger'[op] = IF CoreCounts(s) THEN ledger[op] \cup {s} ELSE ledger[op]
      /\ \A o \in Opcodes \ {op} : ledger'[o] = ledger[o]
      BY <1>1, <1>2, <1>4 DEF TypeOK
<1>8. CoreCounts(s) => Landing(s)
      BY DEF CoreCounts, Landing
<1>9. LedgerOK'
      BY <1>1, <1>7, <1>8 DEF EngineInv, LedgerOK, Landing
<1>10. AccountedOK'
      BY <1>1, <1>7 DEF EngineInv, AccountedOK, Current, LandsHere
<1>11. CoreCounts(s)' <=> CoreCounts(s)
      BY <1>1 DEF CoreCounts, Current
<1>12. Counters' = Counters
      BY <1>1 DEF Counters
<1>13. /\ DOMAIN v' = Fields
       /\ v'.segment = s /\ v'.opcode = op /\ v'.tag = s.epoch /\ v'.seq = s.seq
       /\ v'.addr = Addr[s.source] /\ v'.bytes = RowBytes /\ v'.own = (s.source = self)
       /\ v'.lo = ToRegs(table[s.source]).lo /\ v'.hi = ToRegs(table[s.source]).hi
       /\ v'.dst = Dst /\ v'.capacity = Capacity /\ v'.calreg = calreg /\ v'.ctr = Counters
       /\ v'.counted = counted[op] /\ v'.seen = seen[op] /\ v'.drained = d
       BY <1>1, EventHas
<1>14. CoreCounts(v.segment)' <=> CoreCounts(s)
       BY <1>1, <1>13 DEF CoreCounts, Current
<1>15. CoreCounts(v.segment)' => v'.segment \in ledger'[v'.opcode]
       BY <1>7, <1>13, <1>14
<1>16. Operands'
       BY <1>1, <1>4, <1>12, <1>13, <1>15 DEF Operands
<1>17. Resident'
       BY <1>1, <1>13 DEF Resident
<1>18. EventOK'
       BY <1>1, <1>13, <1>16, <1>17 DEF EventOK
<1> QED BY <1>5, <1>6, <1>9, <1>10, <1>18 DEF EngineInv

(* A release of the node itself is an event of its own segment.            *)
LEMMA ReleaseKeeps ==
  ASSUME EngineInv, NEW op \in Opcodes, NEW d \in BOOLEAN, Release(op, d)
  PROVE  EngineInv'
<1> DEFINE s == [source |-> self, seq |-> sequence[self], opcode |-> op, epoch |-> epochs[op]]
<1>1. /\ stage = "idle" /\ stage' = "source" /\ v' = Event(s, d)
      /\ UNCHANGED <<program, core, resident>>
      BY DEF Release
<1>2. UNCHANGED <<self, table, calreg, epochs, before, sequence, sent, ledger, seen, counted>>
      BY <1>1 DEF program, core, resident
<1>3. self \in Nodes /\ sequence[self] \in Nat
      BY RowIsEntry DEF EngineInv, TypeOK
<1>4. s.source = self /\ s.opcode = op /\ s.seq = sequence[self]
      OBVIOUS
<1> HIDE DEF s
<1>5. Counters' = Counters
      BY <1>2 DEF Counters
<1>6. /\ DOMAIN v' = Fields
      /\ v'.segment = s /\ v'.opcode = op /\ v'.tag = s.epoch /\ v'.seq = s.seq
      /\ v'.addr = Addr[s.source] /\ v'.bytes = RowBytes /\ v'.own = (s.source = self)
      /\ v'.lo = ToRegs(table[s.source]).lo /\ v'.hi = ToRegs(table[s.source]).hi
      /\ v'.dst = Dst /\ v'.capacity = Capacity /\ v'.calreg = calreg /\ v'.ctr = Counters
      /\ v'.counted = counted[op] /\ v'.seen = seen[op] /\ v'.drained = d
      BY <1>1, <1>4, EventHas
<1>7. Operands'
      BY <1>2, <1>3, <1>4, <1>5, <1>6 DEF Operands
<1>8. Resident'
      BY <1>2, <1>6 DEF Resident
<1>9. EventOK'
      BY <1>1, <1>6, <1>7, <1>8 DEF EventOK
<1> QED BY <1>1, <1>9, RestKept DEF EngineInv, Stages

(* NodeEngine: the engine's events, resident state and the core's ledger   *)
(* stand in these relations in every state, for all sizes of the layout,   *)
(* tables, opcodes and placements.                                         *)
THEOREM EngineInvariant == Spec => []EngineInv
<1>1. EngineInv /\ [Next]_vars => EngineInv'
      <2> SUFFICES ASSUME EngineInv, [Next]_vars PROVE EngineInv'
          OBVIOUS
      <2>1. ASSUME NEW op \in Opcodes, NEW d \in BOOLEAN, NextRound(op, d) PROVE EngineInv'
            BY <2>1, NextRoundKeeps
      <2>2. ASSUME NEW op \in Opcodes, NEW d \in BOOLEAN, Release(op, d) PROVE EngineInv'
            BY <2>2, ReleaseKeeps
      <2>3. ASSUME NEW s \in Sources, NEW op \in Opcodes, Send(s, op) PROVE EngineInv'
            BY <2>3, SendKeeps
      <2>4. ASSUME NEW s \in sent, NEW d \in BOOLEAN, Present(s, d) PROVE EngineInv'
            BY <2>4, PresentKeeps
      <2>5. CASE Load
            BY <2>5, LoadKeeps
      <2>6. CASE Forward
            BY <2>6, ForwardKeeps
      <2>7. CASE Admit
            BY <2>7, AdmitKeeps
      <2>8. CASE Epoch
            BY <2>8, EpochKeeps
      <2>9. CASE Recv
            BY <2>9, RecvKeeps
      <2>10. CASE Sink
            BY <2>10, SinkKeeps
      <2>11. CASE UNCHANGED vars
            <3>1. UNCHANGED <<program, core, resident, stage, v>>
                  BY <2>11 DEF vars
            <3>2. UNCHANGED <<self, table, calreg, epochs, before, sequence, sent, ledger,
                              seen, counted, complete, accounted, stage, v>>
                  BY <3>1 DEF program, core, resident
            <3>3. Operands' <=> Operands
                  BY <3>2 DEF Operands, CoreCounts, Current, Counters
            <3>4. (LoadedOK' <=> LoadedOK) /\ (Gated' <=> Gated) /\ (Resident' <=> Resident)
                  BY <3>2 DEF LoadedOK, Gated, Resident
            <3>5. Tagged' <=> Tagged
                  BY <3>2 DEF Tagged, Counters, Lane
            <3>6. Accepts' = Accepts
                  BY <3>2 DEF Accepts
            <3>7. Committing' <=> Committing
                  BY <3>2, <3>6 DEF Committing
            <3>8. EventOK'
                  BY <3>2, <3>3, <3>4, <3>5, <3>7 DEF EngineInv, EventOK
            <3>9. stage' \in Stages
                  BY <3>2 DEF EngineInv, TypeOK
            <3> QED BY <3>1, <3>8, <3>9, RestKept DEF EngineInv
      <2> QED BY <2>1, <2>2, <2>3, <2>4, <2>5, <2>6, <2>7, <2>8, <2>9, <2>10, <2>11 DEF Next
<1> QED BY <1>1, EngineInitially, PTL DEF Spec

(* LoadedAsWritten: whatever the layout's sizes and the placement, the two *)
(* loads bring in the pair and the fields the compiler wrote (load_route_  *)
(* entry), and the whole entry can be read back.                           *)
THEOREM EntriesAreLoaded == Spec => []LoadedAsWritten
<1>1. EngineInv => LoadedAsWritten
      <2> SUFFICES ASSUME EngineInv, stage \notin {"idle", "source"}
                   PROVE  LET e == table[v.segment.source]
                          IN /\ v.pair = e.bits[self] /\ v.landCount = LandCount(e.bits)
                             /\ v.flags = e.flags /\ v.exp = e.exp
                             /\ FromRegs([lo |-> v.lo, hi |-> v.hi])
                                = [e EXCEPT !.declared = LandCount(e.bits)]
          BY DEF LoadedAsWritten
      <2> DEFINE e == table[v.segment.source]
      <2>1. Operands /\ LoadedOK
            BY DEF EngineInv, EventOK, TypeOK, Stages
      <2>2. e \in Entries /\ Packs(e)
            BY <2>1, RowIsEntry DEF EngineInv, Operands
      <2>3. [lo |-> v.lo, hi |-> v.hi] = ToRegs(e)
            BY <2>1 DEF Operands, ToRegs
      <2>4. FromRegs(ToRegs(e)) = [e EXCEPT !.declared = LandCount(e.bits)]
            <3> HIDE DEF e
            <3> QED BY <2>2, EntryRoundTrip
      <2> QED BY <2>1, <2>3, <2>4 DEF LoadedOK
<1> QED BY <1>1, EngineInvariant, PTL

(* AccountsAgree: of the segments that land at the node, the graph's       *)
(* recv_wait accounts none the core's ledger does not; it counts each      *)
(* segment once, and refuses one that the ledger counts for the four       *)
(* reasons only.                                                           *)
THEOREM GraphFollowsLedger == Spec => []AccountsAgree
<1>1. EngineInv => AccountsAgree
      <2> SUFFICES ASSUME EngineInv PROVE AccountsAgree
          OBVIOUS
      <2>1. \A op \in Opcodes :
              /\ counted[op] = RowBytes * Cardinality(accounted[op])
              /\ \A s \in accounted[op] : Current(s) /\ LandsHere(s) => s \in ledger[op]
            BY DEF EngineInv, AccountedOK
      <2> DEFINE s == v.segment
                 op == v.opcode
      <2>2. ASSUME stage = "accounted", Current(s), s \in ledger[s.opcode] \ accounted[s.opcode],
                   ~v.accepted, ~(table[s.source].exp > Capacity), ~(s.seq >= SeenCapacity),
                   ~(\E t \in accounted[s.opcode] : t.seq = s.seq)
            PROVE  v.epochWrap /\ (before[s.opcode] = TagCapacity \/ ~HigherIdle(s.opcode))
            <3>1. Operands /\ LoadedOK /\ Gated /\ Tagged /\ Committing
                  BY <2>2 DEF EngineInv, EventOK
            <3>2. op \in Opcodes /\ s.opcode = op /\ s \in ledger[op]
                  BY <2>2, <3>1 DEF Operands
            <3>3. s \in sent /\ Landing(s)
                  BY <3>2 DEF EngineInv, LedgerOK, TypeOK
            <3>4. s \in Segment /\ s.opcode \in calreg
                  BY <3>3 DEF EngineInv, TypeOK, SentOK
            <3>5. v.tag # 0
                  BY <3>1, <3>4 DEF Operands, Segment
            <3>6. v.exp <= Capacity
                  <4>1. v.exp \in Nat /\ Capacity \in Nat /\ v.exp = table[s.source].exp
                        <5>1. table[s.source].exp \in Nat
                              BY <3>1, RowIsEntry DEF EngineInv, Operands, Entries
                        <5> QED BY <3>1, <5>1, EngineAssumption DEF LoadedOK, EngineAssumption
                  <4> QED BY <2>2, <4>1
            <3>7. Inside(v.addr, v.addr + RowBytes, Dst, Capacity)
                  BY <3>1, <3>3 DEF Operands, Landing
            <3>8. v.seq \in Nat /\ v.seq = s.seq /\ v.seq < SeenCapacity
                  <4>1. SeenCapacity \in Nat
                        BY BlocksAssumption DEF BlocksAssumption
                  <4> QED BY <2>2, <3>1, <4>1 DEF Operands
            <3>9. SeenBit(v.seq) \cap seen[op] = {}
                  <4>1. seen[op] = {t.seq : t \in accounted[op]}
                        BY <3>2 DEF EngineInv, AccountedOK
                  <4> QED BY <2>2, <3>2, <3>8, <4>1 DEF SeenBit
            <3>10. ~v.own
                  BY <3>1, <3>3 DEF Operands, Landing
            <3>11. v.gate
                  BY <3>1, <3>2, <3>4, RowIsEntry DEF Gated, EngineInv
            <3>12. v.pair # Illegal
                  BY <3>1, <3>3 DEF LoadedOK, Landing, Land, Illegal
            <3>13. ~v.epochOk
                  <4>1. ~Accepts
                        BY <2>2, <3>1 DEF Committing
                  <4> QED BY <3>5, <3>6, <3>7, <3>8, <3>9, <3>10, <3>11, <3>12, <4>1 DEF Accepts
            <3>14. v.epochWrap /\ ~(Lane(Counters, op) < TagCapacity)
                  BY <3>1, <3>13 DEF Tagged
            <3>15. before \in [Opcodes -> 0..TagCapacity]
                  BY DEF EngineInv, TypeOK
            <3>16. HigherIdle(op) => before[op] = TagCapacity
                  <4>1. HigherIdle(op) => Lane(Counters, op) = before[op]
                        BY <3>2, <3>15, LaneReads
                  <4>2. before[op] \in 0..TagCapacity /\ TagCapacity \in Nat
                        BY <3>2, <3>15, EngineAssumption DEF EngineAssumption
                  <4> QED BY <3>14, <4>1, <4>2
            <3> QED BY <3>2, <3>14, <3>16
      <2> QED BY <2>1, <2>2 DEF AccountsAgree
<1> QED BY <1>1, EngineInvariant, PTL

(* CompleteTogether: a completion the graph publishes is one the ledger    *)
(* has too, with one expVal in all rows, if every segment accounted lands  *)
(* at the node and none is left over from another round.                   *)
THEOREM CompletesTogether == Spec => []CompleteTogether
<1>1. EngineInv => CompleteTogether
      <2> SUFFICES ASSUME EngineInv, NEW op \in Opcodes, complete[op],
                          \A n \in Nodes : table[n].exp = table[self].exp,
                          \A s \in accounted[op] : Current(s) /\ LandsHere(s)
                   PROVE  RowBytes * Cardinality(ledger[op]) >= table[self].exp
          BY DEF CompleteTogether
      <2>1. /\ accounted[op] \subseteq ledger[op]
            /\ counted[op] = RowBytes * Cardinality(accounted[op])
            /\ \E n \in Nodes : counted[op] >= table[n].exp
            BY DEF EngineInv, AccountedOK
      <2>2. IsFiniteSet(ledger[op])
            <3>1. ledger[op] \subseteq sent /\ IsFiniteSet(sent)
                  BY DEF EngineInv, TypeOK, SentOK
            <3> QED BY <3>1, FS_Subset
      <2>3. Cardinality(accounted[op]) <= Cardinality(ledger[op])
            BY <2>1, <2>2, FS_Subset
      <2>4. Cardinality(accounted[op]) \in Nat /\ Cardinality(ledger[op]) \in Nat
            BY <2>1, <2>2, FS_Subset, FS_CardinalityType
      <2> DEFINE a == Cardinality(accounted[op])
                 b == Cardinality(ledger[op])
      <2>5. RowBytes \in Nat /\ table[self].exp \in Nat
            BY EngineAssumption, RowIsEntry DEF EngineAssumption, EngineInv, Entries
      <2>6. RowBytes * a >= table[self].exp
            BY <2>1
      <2> HIDE DEF a, b
      <2>7. b = a + (b - a) /\ b - a \in Nat /\ a \in Nat
            BY <2>3, <2>4 DEF a, b
      <2>8. RowBytes * b = RowBytes * a + RowBytes * (b - a) /\ RowBytes * (b - a) \in Nat
            BY <2>5, <2>7
      <2>9. RowBytes * a \in Nat
            BY <2>5, <2>7
      <2> QED BY <2>5, <2>6, <2>8, <2>9 DEF b
<1> QED BY <1>1, EngineInvariant, PTL

(* TagAgrees: the tag epoch_policy computes is the core's counter, while   *)
(* no higher opcode has had a round.                                       *)
THEOREM TagsAgree == Spec => []TagAgrees
<1>1. EngineInv => TagAgrees
      <2> SUFFICES ASSUME EngineInv, stage \in {"epoch", "accounted"}, v.epochOk,
                          epochs[v.opcode] # 0, HigherIdle(v.opcode)
                   PROVE  v.epochNext = epochs[v.opcode]
          BY DEF TagAgrees
      <2> DEFINE op == v.opcode
                 lane == Lane(Counters, op)
      <2>1. Tagged /\ op \in Opcodes
            BY DEF EngineInv, EventOK, Operands
      <2>2. v.epochNext = IF lane = 0 \/ lane >= TagCapacity THEN 1 ELSE (lane + 1) % Stride
            BY <2>1 DEF Tagged
      <2>3. before \in [Opcodes -> 0..TagCapacity]
            BY DEF EngineInv, TypeOK
      <2>4. lane = before[op]
            BY <2>1, <2>3, LaneReads
      <2>5. epochs[op] = NextTag(before[op])
            BY <2>1 DEF EngineInv, InRounds
      <2>6. before[op] \in 0..TagCapacity /\ TagCapacity \in 1..(Stride - 1) /\ Stride \in Nat
            BY <2>1, <2>3, EngineAssumption DEF EngineAssumption
      <2> HIDE DEF lane
      <2>7. CASE lane >= TagCapacity
            BY <2>2, <2>4, <2>5, <2>7 DEF NextTag
      <2>8. CASE lane < TagCapacity
            <3>1. (lane + 1) % Stride = lane + 1
                  BY <2>4, <2>6, <2>8
            <3> QED BY <2>2, <2>4, <2>5, <2>6, <2>8, <3>1 DEF NextTag
      <2> QED BY <2>4, <2>6, <2>7, <2>8
<1> QED BY <1>1, EngineInvariant, PTL
==============================================================================
