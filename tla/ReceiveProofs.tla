---------------------------- MODULE ReceiveProofs ----------------------------
(***************************************************************************)
(* Proofs about the ingress ledger, for every set of keys, identities,     *)
(* segments and commands and every row size.  The inductive invariant      *)
(* LedgerInv joins what the runs check: the types, that an arrival is held *)
(* in one place, that the counter is the bytes of the distinct segments,   *)
(* and that nothing presented is lost.                                     *)
(***************************************************************************)
EXTENDS Receive, FiniteSetTheorems, TLAPS

FiniteSeen == \A k \in Keys : IsFiniteSet(seen[k])

LedgerInv == TypeOK /\ FiniteSeen /\ OnePlace /\ ExactBytes /\ NothingLost

------------------------------------------------------------------------------
(* Everything the network can present is a well-typed segment.             *)
LEMMA PresentableType ==
  ASSUME NEW s \in Presentable
  PROVE  s \in Segment
BY SegmentsAssumption DEF Presentable, Segment, CommittedCopy

(* Delivering a segment or its committed copy delivers a presentable one.  *)
LEMMA DeliveredIsPresentable ==
  ASSUME NEW s \in Segments
  PROVE  s \in Presentable /\ CommittedCopy(s) \in Presentable
BY DEF Presentable

(* The identities of any part of a buffer are a finite set of identities.  *)
LEMMA BufferFinite ==
  ASSUME NEW list \in Seq(Presentable), NEW S \in SUBSET (1..Len(list))
  PROVE  /\ {list[i].id : i \in S} \in SUBSET Ids
         /\ IsFiniteSet({list[i].id : i \in S})
<1> DEFINE f == [i \in S |-> list[i].id]
           T == {list[i].id : i \in S}
<1>1. T \in SUBSET Ids
  <2>1. ASSUME NEW i \in S
        PROVE  list[i] \in Segment
    <3>1. list[i] \in Presentable
      OBVIOUS
    <3> QED BY <3>1, PresentableType
  <2> QED BY <2>1 DEF Segment
<1>2. IsFiniteSet(1..Len(list))
  BY FS_Interval
<1>3. IsFiniteSet(S)
  BY <1>2, FS_Subset
<1>4. f \in Surjection(S, T)
  BY DEF Surjection
<1>5. IsFiniteSet(T)
  <2> HIDE DEF f, T
  <2> QED BY <1>3, <1>4, FS_Surjection
<1> QED BY <1>1, <1>5

(* What post adopts is a finite set of identities, and without a fault it  *)
(* is every countable identity of the buffer.                              *)
LEMMA AdoptedFacts ==
  ASSUME NEW c \in Commands, NEW list \in Seq(Presentable)
  PROVE  /\ Adopted(c, list) \in SUBSET Ids
         /\ IsFiniteSet(Adopted(c, list))
         /\ Adopted(c, list) \subseteq CountableIds(list, Len(list))
         /\ FaultPoints(c, list) = {} =>
              Adopted(c, list) = CountableIds(list, Len(list))
<1> DEFINE S == {j \in 1..Len(list) :
                   /\ Countable(list[j])
                   /\ InRange(c, list[j])
                   /\ \A m \in 1..(j - 1) : m \notin FaultPoints(c, list)}
<1>1. Adopted(c, list) = {list[i].id : i \in S}
  BY DEF Adopted
<1>2. S \in SUBSET (1..Len(list))
  OBVIOUS
<1>3. Adopted(c, list) \in SUBSET Ids /\ IsFiniteSet(Adopted(c, list))
  <2> HIDE DEF S
  <2> QED BY <1>1, <1>2, BufferFinite
<1>4. CountableIds(list, Len(list)) =
        {list[i].id : i \in {j \in 1..Len(list) : Countable(list[j])}}
  BY DEF CountableIds
<1>5. Adopted(c, list) \subseteq CountableIds(list, Len(list))
  BY <1>1, <1>4
<1>6. ASSUME FaultPoints(c, list) = {}
      PROVE  S = {j \in 1..Len(list) : Countable(list[j])}
  BY <1>6 DEF FaultPoints
<1> QED BY <1>1, <1>3, <1>4, <1>5, <1>6
(* Parking one more arrival adds its identity if it is countable.          *)
LEMMA BufferAppend ==
  ASSUME NEW list \in Seq(Presentable), NEW s \in Presentable
  PROVE  CountableIds(Append(list, s), Len(list) + 1) =
           CountableIds(list, Len(list)) \cup (IF Countable(s) THEN {s.id} ELSE {})
<1> DEFINE new == Append(list, s)
<1>1. Len(list) \in Nat
  OBVIOUS
<1>2. \A i \in 1..Len(list) : new[i] = list[i]
  OBVIOUS
<1>3. new[Len(list) + 1] = s
  OBVIOUS
<1> HIDE DEF new
<1>4. {j \in 1..(Len(list) + 1) : Countable(new[j])} =
        {j \in 1..Len(list) : Countable(list[j])}
          \cup (IF Countable(s) THEN {Len(list) + 1} ELSE {})
  BY <1>1, <1>2, <1>3
<1>5. CountableIds(new, Len(list) + 1) =
        CountableIds(list, Len(list)) \cup (IF Countable(s) THEN {s.id} ELSE {})
  BY <1>1, <1>2, <1>3, <1>4 DEF CountableIds
<1> QED BY <1>5 DEF new

------------------------------------------------------------------------------
(* Under the invariant, every delivery keeps the invariant.                *)
LEMMA DeliverPreserves ==
  ASSUME LedgerInv, NEW s \in Presentable, Deliver(s)
  PROVE  LedgerInv'
<1> USE DEF LedgerInv
<1>0. s \in Segment /\ s.key \in Keys /\ s.id \in Ids
  BY PresentableType DEF Segment
<1>1. CASE Defer(s)
  <2>1. TypeOK'
    BY <1>0, <1>1 DEF Defer, TypeOK
  <2>2. FiniteSeen' /\ ExactBytes'
    BY <1>1 DEF Defer, FiniteSeen, ExactBytes
  <2>3. OnePlace'
    BY <1>0, <1>1 DEF Defer, OnePlace, Posted, TypeOK
  <2>4. NothingLost'
    <3> SUFFICES ASSUME NEW k \in Keys, ~faulted'[k]
                 PROVE  presented'[k] = Tally(k)'
      BY DEF NothingLost
    <3>1. CASE k # s.key
      <4>1. presented'[k] = presented[k] /\ pending'[k] = pending[k]
        BY <1>1, <3>1 DEF Defer, TypeOK
      <4>2. seen'[k] = seen[k] /\ faulted'[k] = faulted[k] /\ command'[k] = command[k]
        BY <1>1 DEF Defer
      <4> QED BY <4>1, <4>2 DEF Tally, NothingLost, Posted
    <3>2. CASE k = s.key
      <4> DEFINE old == pending[k]
      <4>1. old \in Seq(Presentable)
        BY DEF TypeOK
      <4>2. pending'[k] = Append(old, s) /\ ~Posted(k) /\ ~Posted(k)' /\ ~faulted[k]
        BY <1>1, <3>2 DEF Defer, TypeOK, Posted
      <4>3. CountableIds(Append(old, s), Len(old) + 1) =
              CountableIds(old, Len(old)) \cup (IF Countable(s) THEN {s.id} ELSE {})
        BY <4>1, BufferAppend
      <4>4. presented'[k] = presented[k] \cup (IF Countable(s) THEN {s.id} ELSE {})
        BY <1>1, <3>2 DEF Defer, TypeOK
      <4>5. presented[k] = CountableIds(old, Len(old))
        BY <4>2 DEF NothingLost, Tally
      <4>6. Len(Append(old, s)) = Len(old) + 1
        BY <4>1
      <4> QED BY <4>2, <4>3, <4>4, <4>5, <4>6 DEF Tally
    <3> QED BY <3>1, <3>2
  <2> QED BY <2>1, <2>2, <2>3, <2>4
<1>2. CASE Discard(s)
  <2>1. TypeOK' /\ FiniteSeen' /\ ExactBytes'
    BY <1>0, <1>2 DEF Discard, TypeOK, FiniteSeen, ExactBytes
  <2>2. OnePlace'
    BY <1>0, <1>2 DEF Discard, OnePlace, Posted, TypeOK
  <2>3. NothingLost'
    BY <1>0, <1>2 DEF Discard, NothingLost, Tally, Posted, TypeOK
  <2> QED BY <2>1, <2>2, <2>3
<1>3. CASE Count(s)
  <2>1. TypeOK'
    BY <1>0, <1>3, RowBytesAssumption DEF Count, TypeOK
  <2>2. FiniteSeen' /\ ExactBytes'
    <3> SUFFICES ASSUME NEW k \in Keys
                 PROVE  IsFiniteSet(seen'[k]) /\ counted'[k] = RowBytes * Cardinality(seen'[k])
      BY DEF FiniteSeen, ExactBytes
    <3>1. IsFiniteSet(seen[k]) /\ counted[k] = RowBytes * Cardinality(seen[k])
      BY DEF FiniteSeen, ExactBytes
    <3>2. CASE k # s.key
      BY <1>3, <3>1, <3>2 DEF Count, TypeOK
    <3>3. CASE k = s.key
      <4>1. seen'[k] = seen[k] \cup {s.id} /\ counted'[k] = counted[k] + RowBytes
        BY <1>0, <1>3, <3>3 DEF Count, TypeOK
      <4>2. s.id \notin seen[k]
        BY <1>3, <3>3 DEF Count, Counts
      <4>3. /\ IsFiniteSet(seen[k] \cup {s.id})
            /\ Cardinality(seen[k] \cup {s.id}) = Cardinality(seen[k]) + 1
        BY <3>1, <4>2, FS_AddElement
      <4>4. Cardinality(seen[k]) \in Nat
        BY <3>1, FS_CardinalityType
      <4>5. RowBytes * (Cardinality(seen[k]) + 1) = RowBytes * Cardinality(seen[k]) + RowBytes
        BY <4>4, RowBytesAssumption
      <4> QED BY <3>1, <4>1, <4>3, <4>5
    <3> QED BY <3>2, <3>3
  <2>3. OnePlace'
    BY <1>0, <1>3 DEF Count, Counts, OnePlace, Posted, TypeOK
  <2>4. NothingLost'
    BY <1>0, <1>3 DEF Count, Counts, NothingLost, Tally, Posted, TypeOK
  <2> QED BY <2>1, <2>2, <2>3, <2>4
<1>4. CASE Ignore(s)
  BY <1>4 DEF Ignore, vars, TypeOK, FiniteSeen, OnePlace, ExactBytes, NothingLost, Tally, Posted
<1> QED BY <1>1, <1>2, <1>3, <1>4 DEF Deliver

(* Posting keeps the invariant.                                            *)
LEMMA PostPreserves ==
  ASSUME LedgerInv, NEW k \in Keys, NEW c \in Commands, Post(k, c)
  PROVE  LedgerInv'
<1> USE DEF LedgerInv
<1> DEFINE ids == Adopted(c, pending[k])
<1>1. pending[k] \in Seq(Presentable)
  BY DEF TypeOK
<1>2. /\ ids \in SUBSET Ids
      /\ IsFiniteSet(ids)
      /\ FaultPoints(c, pending[k]) = {} => ids = CountableIds(pending[k], Len(pending[k]))
  BY <1>1, AdoptedFacts
<1>3. RowBytes * Cardinality(ids) \in Nat
  BY <1>2, FS_CardinalityType, RowBytesAssumption
<1>4. /\ command' = [command EXCEPT ![k] = c]
      /\ seen' = [seen EXCEPT ![k] = ids]
      /\ counted' = [counted EXCEPT ![k] = RowBytes * Cardinality(ids)]
      /\ pending' = [pending EXCEPT ![k] = <<>>]
      /\ faulted' = [faulted EXCEPT ![k] = FaultPoints(c, pending[k]) # {}]
      /\ presented' = [presented EXCEPT ![k] = IF Posted(k) THEN {} ELSE @]
      /\ spare' = [spare EXCEPT ![k] = @ \/ Complete(k)]
  BY DEF Post, Install
<1> HIDE DEF ids
<1>5. TypeOK'
  <2>1. <<>> \in Seq(Presentable)
    OBVIOUS
  <2>2. spare' \in [Keys -> BOOLEAN]
    BY <1>4 DEF TypeOK, Complete, Posted
  <2> QED BY <1>2, <1>3, <1>4, <2>1, <2>2 DEF TypeOK
<1>6. FiniteSeen' /\ ExactBytes'
  BY <1>2, <1>4 DEF FiniteSeen, ExactBytes, TypeOK
<1>7. c # NoCommand
  BY CommandsAssumption
<1>8. OnePlace'
  BY <1>4, <1>7 DEF OnePlace, Posted, TypeOK
<1>9. NothingLost'
  <2> SUFFICES ASSUME NEW j \in Keys, ~faulted'[j]
               PROVE  presented'[j] = Tally(j)'
    BY DEF NothingLost
  <2>1. CASE j # k
    BY <1>4, <2>1 DEF Tally, Posted, NothingLost, TypeOK
  <2>2. CASE j = k
    <3>1. FaultPoints(c, pending[k]) = {}
      BY <1>4, <2>2 DEF TypeOK
    <3>2. Tally(k)' = CountableIds(pending[k], Len(pending[k]))
      BY <1>2, <1>4, <1>7, <3>1 DEF Tally, Posted, TypeOK
    <3>3. CASE Posted(k)
      <4>1. pending[k] = <<>>
        BY <3>3 DEF OnePlace
      <4>2. CountableIds(<<>>, 0) = {}
        BY DEF CountableIds
      <4> QED BY <1>4, <2>2, <3>2, <3>3, <4>1, <4>2 DEF TypeOK
    <3>4. CASE ~Posted(k)
      BY <1>4, <2>2, <3>2, <3>4 DEF OnePlace, NothingLost, Tally, TypeOK
    <3> QED BY <3>3, <3>4
  <2> QED BY <2>1, <2>2
<1> QED BY <1>5, <1>6, <1>8, <1>9

(* Removing what is outstanding keeps the invariant, complete or not: the  *)
(* key of a posted command has an empty buffer, so nothing is left behind. *)
LEMMA PopPreserves ==
  ASSUME LedgerInv, NEW k \in Keys, Pop(k)
  PROVE  LedgerInv'
<1> USE DEF LedgerInv
<1>1. Posted(k) => pending[k] = <<>>
  BY DEF OnePlace
<1>2. TypeOK'
  BY DEF Pop, TypeOK, Complete, Posted
<1>3. OnePlace'
  BY DEF Pop, TypeOK, OnePlace, Posted
<1>4. FiniteSeen' /\ ExactBytes'
  <2>1. IsFiniteSet({}) /\ Cardinality({}) = 0 /\ RowBytes * 0 = 0
    BY FS_EmptySet, RowBytesAssumption
  <2> QED BY <2>1 DEF Pop, FiniteSeen, ExactBytes, TypeOK
<1>5. NothingLost'
  <2> SUFFICES ASSUME NEW j \in Keys, ~faulted'[j]
               PROVE  presented'[j] = Tally(j)'
    BY DEF NothingLost
  <2>1. CASE j # k
    BY <2>1 DEF Pop, Tally, Posted, NothingLost, TypeOK
  <2>2. CASE j = k /\ Posted(k)
    <3>1. CountableIds(<<>>, 0) = {}
      BY DEF CountableIds
    <3> QED BY <1>1, <2>2, <3>1 DEF Pop, Tally, Posted, TypeOK
  <2>3. CASE j = k /\ ~Posted(k)
    <3>1. presented'[k] = presented[k] /\ pending'[k] = pending[k] /\ ~Posted(k)'
      BY <2>3 DEF Pop, Posted, TypeOK
    <3>2. presented[k] = Tally(k)
      BY <2>3 DEF OnePlace, NothingLost
    <3> QED BY <2>3, <3>1, <3>2 DEF Tally
  <2> QED BY <2>1, <2>2, <2>3
<1> QED BY <1>2, <1>3, <1>4, <1>5
------------------------------------------------------------------------------
(* The initial ledger satisfies the invariant.                             *)
LEMMA InitLedgerInv == Init => LedgerInv
<1> SUFFICES ASSUME Init PROVE LedgerInv
  OBVIOUS
<1>1. TypeOK /\ OnePlace
  BY DEF Init, TypeOK, OnePlace, Posted
<1>2. FiniteSeen /\ ExactBytes
  <2>1. IsFiniteSet({}) /\ Cardinality({}) = 0 /\ RowBytes * 0 = 0
    BY FS_EmptySet, RowBytesAssumption
  <2> QED BY <2>1 DEF Init, FiniteSeen, ExactBytes
<1>3. NothingLost
  <2>1. CountableIds(<<>>, 0) = {}
    BY DEF CountableIds
  <2> QED BY <2>1 DEF Init, NothingLost, Tally, Posted
<1> QED BY <1>1, <1>2, <1>3 DEF LedgerInv

(* Every step of the ledger, or a stutter, keeps the invariant.            *)
LEMMA NextLedgerInv == LedgerInv /\ [Next]_vars => LedgerInv'
<1> SUFFICES ASSUME LedgerInv, [Next]_vars PROVE LedgerInv'
  OBVIOUS
<1>1. ASSUME NEW s \in Segments, Deliver(s) PROVE LedgerInv'
  BY <1>1, DeliverPreserves, DeliveredIsPresentable
<1>2. ASSUME NEW s \in Segments, Commit(s) PROVE LedgerInv'
  BY <1>2, DeliverPreserves, DeliveredIsPresentable DEF Commit
<1>3. ASSUME NEW k \in Keys, Retire(k) \/ RetireOther(k) PROVE LedgerInv'
  BY <1>3, PopPreserves DEF Retire, RetireOther
<1>4. ASSUME NEW k \in Keys, NEW c \in Commands, Post(k, c) PROVE LedgerInv'
  BY <1>4, PostPreserves
<1>5. CASE UNCHANGED vars
  BY <1>5 DEF vars, LedgerInv, TypeOK, FiniteSeen, OnePlace, ExactBytes, NothingLost,
              Tally, Posted
<1> QED BY <1>1, <1>2, <1>3, <1>4, <1>5 DEF Next

(* The invariant holds in every reachable state of the ledger.             *)
THEOREM LedgerInvariant == Spec => []LedgerInv
<1> QED BY InitLedgerInv, NextLedgerInv, PTL DEF Spec

(* Type correctness of the ledger.                                         *)
THEOREM TypeCorrect == Spec => []TypeOK
<1>1. LedgerInv => TypeOK
  BY DEF LedgerInv
<1> QED BY <1>1, LedgerInvariant, PTL

(* Contract 5 for every network: the counter of a receive command is the   *)
(* bytes of the distinct segments it has counted.                          *)
THEOREM CountsExactly == Spec => []ExactBytes
<1>1. LedgerInv => ExactBytes
  BY DEF LedgerInv
<1> QED BY <1>1, LedgerInvariant, PTL

(* Contracts 3 and 4 for every network: without a fault no committed       *)
(* remote arrival is lost, early or late.                                  *)
THEOREM LosesNothing == Spec => []NothingLost
<1>1. LedgerInv => NothingLost
  BY DEF LedgerInv
<1> QED BY <1>1, LedgerInvariant, PTL

------------------------------------------------------------------------------
(* Contract 7: no step replaces a command that still waits or takes one of *)
(* its counted segments, and the only one that removes it is a retire that *)
(* is passed another, complete account of its key.                         *)
THEOREM KeepsWaiting == Spec => WaitingIsKept
<1> DEFINE Kept(k) == \/ command'[k] = command[k] /\ seen[k] \subseteq seen'[k]
                      \/ command'[k] = NoCommand /\ spare[k]
<1>1. LedgerInv /\ [Next]_vars => [KeepsWaitingCommands]_vars
  <2> SUFFICES ASSUME LedgerInv, Next, NEW k \in Keys, Posted(k), ~Complete(k)
               PROVE  Kept(k)
    BY DEF KeepsWaitingCommands
  <2>0. /\ command \in [Keys -> Commands \cup {NoCommand}]
        /\ seen \in [Keys -> SUBSET Ids]
    BY DEF LedgerInv, TypeOK
  <2>1. ASSUME NEW s \in Presentable, Deliver(s)
        PROVE  Kept(k)
    BY <2>0, <2>1 DEF Deliver, Defer, Discard, Count, Ignore, vars
  <2>2. ASSUME NEW j \in Keys, Retire(j)
        PROVE  Kept(k)
    <3>1. j # k
      BY <2>2 DEF Retire
    <3> QED BY <2>0, <2>2, <3>1 DEF Retire, Pop
  <2>3. ASSUME NEW j \in Keys, RetireOther(j)
        PROVE  Kept(k)
    <3>1. CASE j = k
      BY <2>0, <2>3, <3>1 DEF RetireOther, Pop
    <3>2. CASE j # k
      BY <2>0, <2>3, <3>2 DEF RetireOther, Pop
    <3> QED BY <3>1, <3>2
  <2>4. ASSUME NEW j \in Keys, NEW c \in Commands, Post(j, c)
        PROVE  Kept(k)
    <3>1. j # k
      BY <2>4 DEF Post
    <3> QED BY <2>0, <2>4, <3>1 DEF Post, Install
  <2> HIDE DEF Kept
  <2> QED BY <2>1, <2>2, <2>3, <2>4, DeliveredIsPresentable DEF Next, Commit
<1> QED BY <1>1, LedgerInvariant, PTL DEF Spec, WaitingIsKept
------------------------------------------------------------------------------
(* The refinement mapping of Receive, named for the proof.                 *)
AbsTally == [k \in Keys |-> Tally(k)]
AbsNeed == [k \in Keys |-> IF Posted(k) THEN command[k].expVal ELSE -1]

(* A command and its expVal as the promise sees them.                      *)
LEMMA NeedFacts ==
  ASSUME TypeOK, NEW k \in Keys
  PROVE  /\ AbsNeed[k] = (IF Posted(k) THEN command[k].expVal ELSE -1)
         /\ Posted(k) => AbsNeed[k] \in Nat
         /\ Posted(k) <=> AbsNeed[k] # -1
<1>1. Posted(k) => command[k] \in Command
  BY CommandsAssumption DEF TypeOK, Posted
<1> QED BY <1>1 DEF AbsNeed, Command

(* Completion is what the promise calls enough.                            *)
LEMMA CompleteIsEnough ==
  ASSUME LedgerInv, NEW k \in Keys, Complete(k)
  PROVE  Promise!Enough(k)
<1>1. AbsNeed[k] = command[k].expVal /\ AbsNeed[k] # -1
  BY NeedFacts DEF Complete, LedgerInv
<1>2. AbsTally[k] = seen[k]
  BY DEF AbsTally, Tally, Complete
<1>3. counted[k] = RowBytes * Cardinality(seen[k])
  BY DEF LedgerInv, ExactBytes
<1> QED BY <1>1, <1>2, <1>3 DEF Promise!Enough, Promise!Idle, Complete, AbsNeed, AbsTally, BytesOf

(* Every delivery is an arrival, a discard or nothing for the promise.     *)
LEMMA DeliverRefines ==
  ASSUME LedgerInv, NEW s \in Presentable, Deliver(s)
  PROVE  [Promise!Next]_(Promise!vars)
<1> USE DEF AbsTally, AbsNeed
<1>0. s \in Segment /\ s.key \in Keys /\ s.id \in Ids
  BY PresentableType DEF Segment
<1>T. TypeOK /\ OnePlace
  BY DEF LedgerInv
<1>1. CASE Defer(s)
  <2>1. AbsNeed' = AbsNeed /\ faulted' = faulted /\ spare' = spare
    BY <1>1 DEF Defer, Posted
  <2>2. \A k \in Keys \ {s.key} : Tally(k)' = Tally(k)
    BY <1>1, <1>T DEF Defer, Tally, Posted, TypeOK
  <2>3. Tally(s.key)' = Tally(s.key) \cup (IF Countable(s) THEN {s.id} ELSE {})
    <3>1. pending[s.key] \in Seq(Presentable)
      BY <1>0, <1>T DEF TypeOK
    <3>2. pending'[s.key] = Append(pending[s.key], s)
      BY <1>0, <1>1, <1>T DEF Defer, TypeOK
    <3>3. ~Posted(s.key) /\ ~Posted(s.key)'
      BY <1>1 DEF Defer, Posted
    <3>4. Len(pending'[s.key]) = Len(pending[s.key]) + 1
      BY <3>1, <3>2
    <3> QED BY <3>1, <3>2, <3>3, <3>4, BufferAppend DEF Tally
  <2>4. CASE Countable(s)
    <3>1. AbsTally' = [AbsTally EXCEPT ![s.key] = @ \cup {s.id}]
      BY <1>0, <2>2, <2>3, <2>4
    <3>2. Promise!Arrive(s.key, s.id)
      BY <2>1, <3>1 DEF Promise!Arrive
    <3> QED BY <1>0, <3>2 DEF Promise!Next
  <2>5. CASE ~Countable(s)
    <3>1. AbsTally' = AbsTally
      BY <1>0, <2>2, <2>3, <2>5
    <3> QED BY <2>1, <3>1 DEF Promise!vars
  <2> QED BY <2>4, <2>5
<1>2. CASE Discard(s)
  <2>1. AbsTally' = AbsTally /\ AbsNeed' = AbsNeed /\ spare' = spare
    BY <1>2 DEF Discard, Tally, Posted
  <2>2. AbsNeed[s.key] # -1
    BY <1>0, <1>2, <1>T, NeedFacts DEF Discard
  <2>3. Promise!Discard(s.key)
    BY <1>2, <2>1, <2>2 DEF Discard, Promise!Discard, Promise!Idle
  <2> QED BY <1>0, <2>3 DEF Promise!Next
<1>3. CASE Count(s)
  <2>1. AbsNeed' = AbsNeed /\ spare' = spare
    BY <1>3 DEF Count, Posted
  <2>2. AbsTally' = [AbsTally EXCEPT ![s.key] = @ \cup {s.id}]
    BY <1>0, <1>3, <1>T DEF Count, Counts, Tally, Posted, TypeOK
  <2>3. AbsNeed[s.key] # -1
    BY <1>0, <1>3, <1>T, NeedFacts DEF Count, Counts
  <2>4. \/ faulted' = faulted
        \/ faulted' = [faulted EXCEPT ![s.key] = TRUE]
    BY <1>0, <1>3, <1>T DEF Count, TypeOK
  <2>5. Promise!Arrive(s.key, s.id)
    BY <2>1, <2>2, <2>3, <2>4 DEF Promise!Arrive, Promise!Idle
  <2> QED BY <1>0, <2>5 DEF Promise!Next
<1>4. CASE Ignore(s)
  BY <1>4 DEF Ignore, vars, Promise!vars, Tally, Posted
<1> QED BY <1>1, <1>2, <1>3, <1>4 DEF Deliver
(* Posting opens the key on what arrived, or reopens a satisfied one.      *)
LEMMA PostRefines ==
  ASSUME LedgerInv, NEW k \in Keys, NEW c \in Commands, Post(k, c)
  PROVE  [Promise!Next]_(Promise!vars)
<1> DEFINE ids == Adopted(c, pending[k])
           all == CountableIds(pending[k], Len(pending[k]))
<1>T. TypeOK /\ OnePlace
  BY DEF LedgerInv
<1>1. pending[k] \in Seq(Presentable)
  BY <1>T DEF TypeOK
<1>2. /\ ids \subseteq all
      /\ FaultPoints(c, pending[k]) = {} => ids = all
  BY <1>1, AdoptedFacts
<1>3. /\ command' = [command EXCEPT ![k] = c]
      /\ seen' = [seen EXCEPT ![k] = ids]
      /\ pending' = [pending EXCEPT ![k] = <<>>]
      /\ faulted' = [faulted EXCEPT ![k] = FaultPoints(c, pending[k]) # {}]
      /\ spare' = [spare EXCEPT ![k] = @ \/ Complete(k)]
      /\ Posted(k) => Complete(k)
  BY DEF Post, Install
<1> HIDE DEF ids, all
<1>4. c # NoCommand /\ c.expVal \in {d.expVal : d \in Commands}
  BY CommandsAssumption
<1>5. AbsNeed' = [AbsNeed EXCEPT ![k] = c.expVal]
  BY <1>3, <1>4, <1>T DEF AbsNeed, Posted, TypeOK
<1>6. AbsTally' = [AbsTally EXCEPT ![k] = ids]
  BY <1>3, <1>4, <1>T DEF AbsTally, Tally, Posted, TypeOK
<1>7. CASE Posted(k)
  <2>1. pending[k] = <<>>
    BY <1>7, <1>T DEF OnePlace
  <2>2. ids = {} /\ FaultPoints(c, pending[k]) = {}
    BY <2>1 DEF ids, Adopted, FaultPoints
  <2>3. Promise!Enough(k)
    BY <1>3, <1>7, CompleteIsEnough
  <2>4. spare' = [spare EXCEPT ![k] = TRUE]
    BY <1>3, <1>7
  <2>5. Promise!Reopen(k, c.expVal)
    BY <1>3, <1>5, <1>6, <2>2, <2>3, <2>4 DEF Promise!Reopen, AbsNeed, AbsTally
  <2> QED BY <1>4, <2>5 DEF Promise!Next
<1>8. CASE ~Posted(k)
  <2>1. AbsTally[k] = all /\ AbsNeed[k] = -1 /\ ~faulted[k]
    BY <1>8, <1>T DEF AbsTally, AbsNeed, Tally, OnePlace, all
  <2>0. spare' = spare
    BY <1>3, <1>8, <1>T DEF Complete, TypeOK
  <2>2. CASE FaultPoints(c, pending[k]) = {}
    <3>1. AbsTally' = AbsTally
      BY <1>2, <1>6, <2>1, <2>2 DEF AbsTally
    <3>2. faulted' = faulted
      BY <1>3, <2>1, <2>2, <1>T DEF TypeOK
    <3>3. Promise!Open(k, c.expVal)
      BY <1>5, <2>0, <2>1, <3>1, <3>2 DEF Promise!Open, Promise!Idle, AbsNeed, AbsTally
    <3> QED BY <1>4, <3>3 DEF Promise!Next
  <2>3. CASE FaultPoints(c, pending[k]) # {}
    <3>1. ids \in SUBSET AbsTally[k]
      BY <1>2, <2>1
    <3>2. faulted' = [faulted EXCEPT ![k] = TRUE]
      BY <1>3, <2>3
    <3>3. Promise!Open(k, c.expVal)
      BY <1>5, <1>6, <2>0, <2>1, <3>1, <3>2 DEF Promise!Open, Promise!Idle, AbsNeed, AbsTally
    <3> QED BY <1>4, <3>3 DEF Promise!Next
  <2> QED BY <2>2, <2>3
<1> QED BY <1>7, <1>8

(* What removing a posted command does to the tally and the need.          *)
LEMMA PopMaps ==
  ASSUME LedgerInv, NEW k \in Keys, Pop(k), Posted(k)
  PROVE  /\ AbsNeed' = [AbsNeed EXCEPT ![k] = -1]
         /\ AbsTally' = [AbsTally EXCEPT ![k] = {}]
<1>T. TypeOK /\ OnePlace
  BY DEF LedgerInv
<1>1. pending[k] = <<>>
  BY <1>T DEF OnePlace
<1>2. AbsNeed' = [AbsNeed EXCEPT ![k] = -1]
  BY <1>T DEF Pop, AbsNeed, Posted, TypeOK
<1>3. CountableIds(<<>>, 0) = {}
  BY DEF CountableIds
<1>4. Tally(k)' = {}
  <2>1. pending'[k] = <<>> /\ ~Posted(k)' /\ Len(<<>>) = 0
    BY <1>T, <1>1 DEF Pop, Posted, TypeOK
  <2> QED BY <1>3, <2>1 DEF Tally
<1>5. \A j \in Keys \ {k} : Tally(j)' = Tally(j)
  BY <1>T DEF Pop, Tally, Posted, TypeOK
<1> QED BY <1>2, <1>4, <1>5 DEF AbsTally

(* Retiring a complete command closes a satisfied key.                     *)
LEMMA RetireRefines ==
  ASSUME LedgerInv, NEW k \in Keys, Retire(k)
  PROVE  Promise!Next
<1>1. Posted(k) /\ Pop(k) /\ Promise!Enough(k)
  BY CompleteIsEnough DEF Retire, Complete
<1>2. spare' = [spare EXCEPT ![k] = TRUE]
  BY DEF Retire, Pop
<1>3. Promise!Close(k)
  BY <1>1, <1>2, PopMaps DEF Pop, Promise!Close, Promise!Idle, AbsNeed, AbsTally
<1> QED BY <1>3 DEF Promise!Next

(* Retiring another account of the key forgets what is open there, if      *)
(* anything is.                                                            *)
LEMMA RetireOtherRefines ==
  ASSUME LedgerInv, NEW k \in Keys, RetireOther(k)
  PROVE  [Promise!Next]_(Promise!vars)
<1>T. TypeOK /\ OnePlace
  BY DEF LedgerInv
<1>1. Pop(k) /\ spare[k]
  BY DEF RetireOther
<1>2. spare' = spare
  BY <1>1, <1>T DEF Pop, TypeOK
<1>3. CASE Posted(k)
  <2>1. AbsNeed[k] # -1
    BY <1>T, <1>3, NeedFacts
  <2>2. Promise!Forget(k)
    BY <1>1, <1>2, <1>3, <2>1, PopMaps DEF Pop, Promise!Forget, Promise!Idle, AbsNeed, AbsTally
  <2> QED BY <2>2 DEF Promise!Next
<1>4. CASE ~Posted(k)
  <2>1. command' = command /\ seen' = seen /\ faulted' = faulted /\ pending' = pending
    BY <1>1, <1>4, <1>T DEF Pop, Posted, TypeOK, OnePlace
  <2> QED BY <1>2, <2>1 DEF Promise!vars, Tally, Posted
<1> QED BY <1>3, <1>4

(* The ledger implements the promise: with parking, adoption, copies and   *)
(* commits, for every network it is the tally of RecvPromise, down to the  *)
(* command that is forgotten when another account of its key is retired.   *)
THEOREM KeepsPromise == Spec => PromiseKept
<1>1. Init => Promise!Init
  <2>1. CountableIds(<<>>, 0) = {}
    BY DEF CountableIds
  <2> QED BY <2>1 DEF Init, Promise!Init, Promise!Idle, Tally, Posted
<1>2. LedgerInv /\ [Next]_vars => [Promise!Next]_(Promise!vars)
  <2> SUFFICES ASSUME LedgerInv, [Next]_vars PROVE [Promise!Next]_(Promise!vars)
    OBVIOUS
  <2>1. ASSUME NEW s \in Segments, Deliver(s) PROVE [Promise!Next]_(Promise!vars)
    BY <2>1, DeliverRefines, DeliveredIsPresentable
  <2>2. ASSUME NEW s \in Segments, Commit(s) PROVE [Promise!Next]_(Promise!vars)
    BY <2>2, DeliverRefines, DeliveredIsPresentable DEF Commit
  <2>3. ASSUME NEW k \in Keys, Retire(k) PROVE [Promise!Next]_(Promise!vars)
    BY <2>3, RetireRefines
  <2>4. ASSUME NEW k \in Keys, NEW c \in Commands, Post(k, c)
        PROVE  [Promise!Next]_(Promise!vars)
    BY <2>4, PostRefines
  <2>6. ASSUME NEW k \in Keys, RetireOther(k) PROVE [Promise!Next]_(Promise!vars)
    BY <2>6, RetireOtherRefines
  <2>5. CASE UNCHANGED vars
    BY <2>5 DEF vars, Promise!vars, Tally, Posted
  <2> QED BY <2>1, <2>2, <2>3, <2>4, <2>5, <2>6 DEF Next
<1> QED BY <1>1, <1>2, LedgerInvariant, PTL DEF Spec, PromiseKept, Promise!Spec
==============================================================================
