--------------------------- MODULE TableChecksProofs ---------------------------
(***************************************************************************)
(* What an empty report of the validation is worth, for every mesh, every  *)
(* definition over it and every row: each member hears from the others of  *)
(* its group and nobody else, the bytes it counts are its expVal, and they *)
(* have places of their own in its arena.  And the rows that the worked    *)
(* example generates have an empty report, on every mesh.                  *)
(*                                                                         *)
(* The validation is a loop over the sources, so the invariant CheckedInv  *)
(* only collects what the turns so far have found: as long as the report   *)
(* is empty, every row that was looked at is without error, and once the   *)
(* table is accepted that is every row.  The rest is counting: the sources *)
(* that land on a member, the rows that fit into its arena, the nodes and  *)
(* links of a line of the mesh.                                            *)
(***************************************************************************)
EXTENDS TableChecks, FiniteSetTheorems, NaturalsInduction, WellFoundedInduction, TLAPS

DefinitionOK ==
  /\ members \in SUBSET Nodes
  /\ groups \in Roles(members) \/ groups = Everyone
  /\ selfDelivery \in BOOLEAN
  /\ geometry \in Geometries \cup {NoGeometry}

\* The rows are those of the first sources.
RowsOK == /\ rows \in Seq([pass : SUBSET Nodes, land : SUBSET Nodes])
          /\ Len(rows) <= NodeTotal

\* Of the rows so far every one is without error, or the report is not empty.
Clean == errors = {} \/ stage = "conservation" =>
           \A n \in 0..(Len(rows) - 1) : RowErrors(n, Row(n)) = {}

Stages == /\ stage \in {"rows", "conservation", "accepted"}
          /\ stage # "rows" => Len(rows) = NodeTotal
          /\ Accept => /\ errors = {}
                       /\ geometry # NoGeometry => \A d \in Nodes : ExpVal(d) = declared[d]

CheckedInv == DefinitionOK /\ RowsOK /\ Clean /\ Stages

------------------------------------------------------------------------------
LEMMA NodesAreCounted ==
  /\ NodeTotal \in Nat \ {0} /\ Nodes = 0..(NodeTotal - 1)
  /\ IsFiniteSet(Nodes) /\ Nodes \subseteq Nat /\ 0 \in Nodes
<1>1. NodeTotal \in Nat \ {0}
  BY MeshAssumption DEF NodeTotal
<1>2. Nodes = 0..(NodeTotal - 1)
  BY DEF Nodes, NodeTotal
<1>3. IsFiniteSet(0..(NodeTotal - 1))
  BY <1>1, FS_Interval
<1> QED
  BY <1>1, <1>2, <1>3

LEMMA CheckedInitially == Init => CheckedInv
<1> SUFFICES ASSUME Init PROVE CheckedInv
  OBVIOUS
<1>1. DefinitionOK
  BY DEF Init, DefinitionOK
<1>2. rows = <<>> /\ Len(rows) = 0 /\ stage = "rows"
  BY DEF Init
<1>3. RowsOK
  BY <1>2, NodesAreCounted DEF RowsOK
<1>4. Clean
  BY <1>2 DEF Clean
<1>5. Stages
  BY <1>2 DEF Stages, Accept
<1> QED
  BY <1>1, <1>3, <1>4, <1>5 DEF CheckedInv

(* One turn of the loop: the rows before are untouched, the new one is     *)
(* without error or the report says so.                                    *)
LEMMA CheckRowKeeps == ASSUME CheckedInv, CheckRow PROVE CheckedInv'
<1>1. PICK L \in SUBSET Nodes,
           P \in SUBSET Nodes :
             /\ rows' = Append(rows, [pass |-> P, land |-> L])
             /\ errors' = RowErrors(Len(rows), [pass |-> P, land |-> L])
  BY DEF CheckRow
<1> DEFINE row == [pass |-> P, land |-> L]
<1>2. /\ stage = "rows" /\ stage' = "rows" /\ errors = {} /\ Len(rows) < NodeTotal
      /\ UNCHANGED shape
  BY DEF CheckRow
<1>3. /\ rows \in Seq([pass : SUBSET Nodes, land : SUBSET Nodes]) /\ NodeTotal' = NodeTotal
      /\ Len(rows) \in Nat
  BY DEF CheckedInv, RowsOK, NodeTotal
<1>4. /\ rows' \in Seq([pass : SUBSET Nodes, land : SUBSET Nodes])
      /\ Len(rows') = Len(rows) + 1 /\ rows'[Len(rows) + 1] = row
      /\ \A n \in 0..(Len(rows) - 1) : rows'[n + 1] = rows[n + 1]
  BY <1>1, <1>3
<1>5. DefinitionOK'
  BY <1>2 DEF CheckedInv, DefinitionOK, shape
<1>6. RowsOK'
  BY <1>2, <1>3, <1>4, NodesAreCounted DEF RowsOK
<1>7. ASSUME NEW n, NEW r PROVE RowErrors(n, r)' = RowErrors(n, r)
  BY <1>2 DEF RowErrors, IsNonMember, HasGroup, GroupOf, shape
<1>8. Clean'
  <2> SUFFICES ASSUME errors' = {}, NEW n \in 0..(Len(rows') - 1)
               PROVE  RowErrors(n, Row(n))'  = {}
    BY <1>2 DEF Clean
  <2>1. CASE n = Len(rows)
    <3>1. Row(n)' = row
      BY <1>4, <2>1 DEF Row
    <3>2. RowErrors(n, row) = {}
      BY <1>1, <2>1
    <3> QED
      BY <1>2, <3>1, <3>2 DEF RowErrors, IsNonMember, HasGroup, GroupOf, shape
  <2>2. CASE n \in 0..(Len(rows) - 1)
    <3>1. Row(n)' = Row(n)
      BY <1>4, <2>2 DEF Row
    <3>2. RowErrors(n, Row(n)) = {}
      BY <1>2, <2>2 DEF CheckedInv, Clean
    <3> QED
      BY <1>2, <3>1, <3>2 DEF RowErrors, IsNonMember, HasGroup, GroupOf, shape
  <2> QED
    BY <1>3, <1>4, <2>1, <2>2
<1>9. Stages'
  BY <1>2 DEF Stages, Accept
<1> QED
  BY <1>5, <1>6, <1>8, <1>9 DEF CheckedInv

\* The conservation check adds what the entries declare, and ends the loop.
LEMMA DeclareKeeps == ASSUME CheckedInv, Declare \/ Conserve PROVE CheckedInv'
<1>1. /\ UNCHANGED <<shape, rows>> /\ Len(rows) = NodeTotal /\ errors = {}
      /\ stage \in {"rows", "conservation"}
      /\ stage' \in {"conservation", "accepted"}
  BY DEF Declare, Conserve, CheckedInv, Stages
<1>2. DefinitionOK' /\ RowsOK'
  BY <1>1 DEF CheckedInv, DefinitionOK, RowsOK, NodeTotal, shape
<1>3. ASSUME NEW n \in 0..(Len(rows) - 1)
      PROVE  RowErrors(n, Row(n))' = {}
  <2>1. RowErrors(n, Row(n)) = {}
    BY <1>1 DEF CheckedInv, Clean
  <2> QED
    BY <1>1, <2>1 DEF RowErrors, IsNonMember, HasGroup, GroupOf, Row, shape
<1>4. Clean'
  BY <1>1, <1>3 DEF Clean
<1>5. Stages'
  <2>1. CASE stage' = "conservation"
    BY <1>1, <2>1 DEF Stages, Accept, NodeTotal
  <2>2. CASE stage' = "accepted"
    <3>1. Conserve /\ errors' = ConservationErrors /\ errors' = {} /\ declared' = declared
      BY <1>1, <2>2 DEF Conserve, Declare
    <3>2. geometry # NoGeometry => \A d \in Nodes : ExpVal(d) = declared[d]
      BY <3>1 DEF ConservationErrors
    <3>3. ASSUME NEW d PROVE ExpVal(d)' = ExpVal(d)
      BY <1>1 DEF ExpVal, Payload, LandCount, Row, shape
    <3> QED
      BY <1>1, <2>2, <3>1, <3>2, <3>3 DEF Stages, Accept, NodeTotal, shape
  <2> QED
    BY <1>1, <2>1, <2>2
<1> QED
  BY <1>2, <1>4, <1>5 DEF CheckedInv

(* The invariant of the validation, for every mesh and definition.         *)
THEOREM CheckedInvariant == Spec => []CheckedInv
<1>1. CheckedInv /\ UNCHANGED vars => CheckedInv'
  <2> SUFFICES ASSUME CheckedInv, UNCHANGED vars PROVE CheckedInv'
    OBVIOUS
  <2>1. /\ UNCHANGED <<shape, rows, declared, errors, stage>>
    BY DEF vars
  <2>2. DefinitionOK' /\ RowsOK'
    BY <2>1 DEF CheckedInv, DefinitionOK, RowsOK, NodeTotal, shape
  <2>3. Clean'
    BY <2>1 DEF CheckedInv, Clean, RowErrors, IsNonMember, HasGroup, GroupOf, Row, shape
  <2>4. Stages'
    BY <2>1 DEF CheckedInv, Stages, Accept, NodeTotal, ExpVal, Payload, LandCount, Row, shape
  <2> QED
    BY <2>2, <2>3, <2>4 DEF CheckedInv
<1>2. CheckedInv /\ [Next]_vars => CheckedInv'
  BY <1>1, CheckRowKeeps, DeclareKeeps DEF Next
<1> QED
  BY <1>2, CheckedInitially, PTL DEF Spec

------------------------------------------------------------------------------
(* Every nonempty set of naturals has a least element.                     *)
LEMMA LeastElement ==
  ASSUME NEW T, T \subseteq Nat, T # {}
  PROVE  \E x \in T : \A y \in T : x <= y
<1>1. PICK x \in T : \A y \in T : ~ (<<y, x>> \in OpToRel(<, Nat))
  BY NatLessThanWellFounded, WFMin
<1>2. \A y \in T : y \in Nat /\ x \in Nat
  OBVIOUS
<1>3. \A y \in T : ~(y < x)
  BY <1>1, <1>2 DEF OpToRel
<1> QED
  BY <1>2, <1>3

(* Groups are the classes of the members: one that is known contains its   *)
(* node and is the group of all in it.                                     *)
LEMMA GroupsAreClasses ==
  ASSUME DefinitionOK, Grouped
  PROVE  /\ members # {} /\ Senders = members /\ members \subseteq Nodes
         /\ \A d \in members :
              /\ GroupOf(d) \subseteq members /\ d \in GroupOf(d)
              /\ \A s \in GroupOf(d) : GroupOf(s) = GroupOf(d)
<1>1. CASE groups = Everyone
  <2>1. members # {}
    BY <1>1, NodesAreCounted DEF Grouped, HasGroup, Senders
  <2> QED
    BY <1>1, <2>1 DEF GroupOf, Senders, DefinitionOK
<1>2. CASE groups # Everyone
  <2>1. /\ groups \in [Nodes -> SUBSET members]
        /\ \A n \in Nodes : IF n \in members THEN n \in groups[n] ELSE groups[n] = {}
        /\ \A a, b \in members : groups[a] = groups[b] \/ groups[a] \cap groups[b] = {}
    BY <1>2 DEF DefinitionOK, Roles
  <2>2. members # {}
    <3> SUFFICES ASSUME members = {} PROVE FALSE
      OBVIOUS
    <3>1. groups[0] # {}
      BY <1>2, NodesAreCounted DEF Grouped, HasGroup, Senders
    <3> QED
      BY <2>1, <3>1, NodesAreCounted
  <2>3. Senders = members /\ members \subseteq Nodes
    BY <2>2 DEF Senders, DefinitionOK
  <2>4. ASSUME NEW d \in members
        PROVE  /\ GroupOf(d) \subseteq members /\ d \in GroupOf(d)
               /\ \A s \in GroupOf(d) : GroupOf(s) = GroupOf(d)
    <3>1. GroupOf(d) = groups[d] /\ d \in groups[d] /\ groups[d] \subseteq members
      BY <1>2, <2>1, <2>3 DEF GroupOf
    <3>2. ASSUME NEW s \in groups[d] PROVE groups[s] = groups[d]
      <4>1. s \in members /\ s \in groups[s]
        BY <2>1, <2>3, <3>1
      <4> QED
        BY <2>1, <4>1
    <3> QED
      BY <1>2, <3>1, <3>2 DEF GroupOf
  <2> QED
    BY <2>2, <2>3, <2>4
<1> QED
  BY <1>1, <1>2

(* In an accepted table every member's row was looked at and found without *)
(* error.                                                                  *)
LEMMA AcceptedRow ==
  ASSUME CheckedInv, Accept, NEW s \in Senders
  PROVE  /\ s \in Nodes /\ ~IsNonMember(s)
         /\ (s \in Row(s).land) = selfDelivery
         /\ HasGroup(s) => Row(s).land = Expected(GroupOf(s), s, selfDelivery)
<1>1. s \in Nodes /\ ~IsNonMember(s)
  BY DEF CheckedInv, DefinitionOK, Senders, IsNonMember
<1>2. RowErrors(s, Row(s)) = {}
  <2>1. errors = {} /\ s \in 0..(Len(rows) - 1)
    BY <1>1, NodesAreCounted DEF CheckedInv, Stages, Accept
  <2> QED
    BY <2>1 DEF CheckedInv, Clean
<1> DEFINE expected == IF HasGroup(s) THEN Expected(GroupOf(s), s, selfDelivery) ELSE Row(s).land
           found == LandErrors(Row(s).land, s, expected, Cardinality(Row(s).land), selfDelivery)
<1>3. found = {}
  <2>1. IllegalNodes(Row(s).pass, Row(s).land) = {}
    BY <1>1, <1>2 DEF RowErrors
  <2> QED
    BY <1>1, <1>2, <2>1 DEF RowErrors
<1>4. "V-LAND" \notin found /\ "V-SELFLAND" \notin found
  BY <1>3
<1>5. Row(s).land = expected /\ (s \in Row(s).land) = selfDelivery
  BY <1>4 DEF LandErrors
<1> QED
  BY <1>1, <1>5

(* The groups of an accepted table are closed.                             *)
LEMMA AcceptedHearsItsGroup ==
  ASSUME CheckedInv, Accept, Grouped
  PROVE  HearsItsGroup
<1> SUFFICES ASSUME NEW d \in Nodes, NEW s \in Senders \ {d}
             PROVE  d \in Row(s).land <=> d \in GroupOf(s)
  BY DEF HearsItsGroup
<1>1. Row(s).land = Expected(GroupOf(s), s, selfDelivery)
  BY AcceptedRow DEF Grouped
<1> QED
  BY <1>1 DEF Expected

(* A member counts the other sources that land on it, and the land set of  *)
(* its key lists no other source.                                          *)
LEMMA CountedIsExpVal ==
  ASSUME CheckedInv, Accept, ~selfDelivery, Silent, NEW d \in Senders
  PROVE  Counted(d) = ExpVal(d)
<1>1. ASSUME NEW n \in Nodes, d \in Row(n).land
      PROVE  n \in Senders \ {d}
  <2>1. ~IsNonMember(n)
    BY <1>1 DEF Silent
  <2>2. n \in Senders
    BY <2>1 DEF IsNonMember, Senders
  <2>3. n # d
    BY <1>1, <2>2, AcceptedRow
  <2> QED
    BY <2>2, <2>3
<1>2. Senders \subseteq Nodes
  BY AcceptedRow
<1>3. {s \in Senders \ {d} : d \in Row(s).land} = {n \in Nodes : d \in Row(n).land}
  BY <1>1, <1>2
<1> QED
  BY <1>3 DEF Counted, ExpVal, LandCount

(* What that comes to: the payload of each other member of the group.      *)
LEMMA ExpValOfGroup ==
  ASSUME CheckedInv, Accept, ~selfDelivery, Silent, Grouped, NEW d \in Senders
  PROVE  /\ IsFiniteSet(GroupOf(d)) /\ Cardinality(GroupOf(d)) \in Nat \ {0}
         /\ ExpVal(d) = Payload * (Cardinality(GroupOf(d)) - 1)
<1>0. DefinitionOK
  BY DEF CheckedInv
<1>1. /\ members # {} /\ Senders = members /\ members \subseteq Nodes /\ d \in Nodes
      /\ GroupOf(d) \subseteq members /\ d \in GroupOf(d)
      /\ \A s \in members : \A t \in GroupOf(s) : GroupOf(t) = GroupOf(s)
      /\ \A s \in members : s \in GroupOf(s)
  BY <1>0, GroupsAreClasses
<1>2. IsFiniteSet(GroupOf(d))
  <2>1. GroupOf(d) \in SUBSET Nodes
    BY <1>1
  <2> HIDE DEF Nodes
  <2> QED
    BY <2>1, NodesAreCounted, FS_Subset
<1>3. {s \in Senders \ {d} : d \in Row(s).land} = GroupOf(d) \ {d}
  <2>1. {s \in Senders \ {d} : d \in Row(s).land} = {s \in Senders \ {d} : d \in GroupOf(s)}
    BY <1>1, AcceptedHearsItsGroup DEF HearsItsGroup
  <2>2. \A s \in members : d \in GroupOf(s) <=> s \in GroupOf(d)
    BY <1>1
  <2> QED
    BY <1>1, <2>1, <2>2
<1>4. Cardinality(GroupOf(d) \ {d}) = Cardinality(GroupOf(d)) - 1
  BY <1>1, <1>2, FS_RemoveElement
<1>5. Cardinality(GroupOf(d)) \in Nat \ {0}
  BY <1>1, <1>2, FS_CardinalityType, FS_EmptySet
<1>6. Counted(d) = ExpVal(d)
  BY CountedIsExpVal
<1> QED
  BY <1>2, <1>3, <1>4, <1>5, <1>6 DEF Counted

\* The lowest member, whose figure the call site is compiled with, is a member.
LEMMA LowestIsMember ==
  ASSUME DefinitionOK, members # {}
  PROVE  Min(members) \in members
<1>1. members \subseteq Nat
  BY NodesAreCounted DEF DefinitionOK
<1>2. \E x \in members : \A y \in members : x <= y
  BY <1>1, LeastElement
<1> QED
  BY <1>2 DEF Min

(* The closure, for every definition and every mesh: an accepted table     *)
(* closes the groups, and every member counts the bytes it waits for.      *)
THEOREM AcceptedTableCloses == Spec => []Closes
<1>1. ASSUME CheckedInv, Accept PROVE Closes
  <2>1. ASSUME geometry # NoGeometry, ~selfDelivery, Silent, NEW d \in Senders
        PROVE  Counted(d) = ExpVal(d) /\ ExpVal(d) = declared[d]
    BY <1>1, <2>1, CountedIsExpVal, AcceptedRow DEF CheckedInv, Stages
  <2>2. ASSUME geometry # NoGeometry, ~selfDelivery, Silent, Grouped, NEW d \in Senders,
               \A s \in Senders : Cardinality(GroupOf(s)) = Cardinality(GroupOf(d))
        PROVE  ExpVal(d) = Immediate.expVal
    <3>1. DefinitionOK /\ members # {} /\ Senders = members
      BY <1>1, <2>2, GroupsAreClasses DEF CheckedInv
    <3>2. Min(members) \in Senders
      BY <3>1, LowestIsMember
    <3>3. Immediate.expVal = ExpVal(Min(members))
      BY <3>1 DEF Immediate
    <3> QED
      BY <1>1, <2>2, <3>2, <3>3, ExpValOfGroup
  <2> QED
    BY <1>1, <2>1, <2>2, AcceptedHearsItsGroup DEF Closes, CountsItsExpVal
<1>2. CheckedInv => Closes
  BY <1>1 DEF Closes
<1> QED
  BY <1>2, CheckedInvariant, PTL

------------------------------------------------------------------------------
(* Ranks and strides. *)

(* The ranks of a finite set of naturals run from zero and ascend with it. *)
LEMMA RanksAscend ==
  ASSUME NEW S \in SUBSET Nat, IsFiniteSet(S)
  PROVE  /\ Cardinality(S) \in Nat
         /\ \A n \in S : Rank(n, S) \in 0..(Cardinality(S) - 1)
         /\ \A m, n \in S : m < n => Rank(m, S) < Rank(n, S)
         /\ \A m, n \in S : Rank(m, S) = Rank(n, S) => m = n
<1>1. Cardinality(S) \in Nat
  BY FS_CardinalityType
<1>2. ASSUME NEW n \in S
      PROVE  Rank(n, S) \in 0..(Cardinality(S) - 1)
  <2> DEFINE below == {m \in S : m < n}
  <2>1. IsFiniteSet(S \ {n}) /\ Cardinality(S \ {n}) = Cardinality(S) - 1
    BY FS_RemoveElement
  <2>2. below \in SUBSET (S \ {n})
    OBVIOUS
  <2> HIDE DEF below
  <2>3. IsFiniteSet(below) /\ Cardinality(below) <= Cardinality(S) - 1
    BY <2>1, <2>2, FS_Subset
  <2>4. Cardinality(below) \in Nat
    BY <2>3, FS_CardinalityType
  <2> QED
    BY <1>1, <2>3, <2>4 DEF Rank, below
<1>3. ASSUME NEW m \in S, NEW n \in S, m < n
      PROVE  Rank(m, S) < Rank(n, S)
  <2> DEFINE low == {k \in S : k < m}
             high == {k \in S : k < n}
  <2>1. low \in SUBSET S /\ high \in SUBSET S /\ m \notin low /\ low \cup {m} \in SUBSET high
    <3>1. \A k \in S : k \in Nat
      OBVIOUS
    <3>2. \A k \in S : k < m => k < n
      BY <1>3, <3>1
    <3>3. ~(m < m)
      BY <3>1
    <3> QED
      BY <1>3, <3>2, <3>3
  <2> HIDE DEF low, high
  <2>2. IsFiniteSet(low) /\ IsFiniteSet(high)
    BY <2>1, FS_Subset
  <2>3. Cardinality(low \cup {m}) = Cardinality(low) + 1
    BY <2>1, <2>2, FS_AddElement
  <2>4. Cardinality(low \cup {m}) <= Cardinality(high)
    BY <2>1, <2>2, FS_Subset
  <2>5. Cardinality(low) \in Nat /\ Cardinality(high) \in Nat
    BY <2>2, FS_CardinalityType
  <2> QED
    BY <2>3, <2>4, <2>5 DEF Rank, low, high
<1>4. ASSUME NEW m \in S, NEW n \in S, Rank(m, S) = Rank(n, S)
      PROVE  m = n
  <2>1. m \in Nat /\ n \in Nat /\ Rank(m, S) \in Nat
    BY <1>1, <1>2
  <2>2. ~(m < n) /\ ~(n < m)
    BY <1>3, <1>4, <2>1
  <2> QED
    BY <2>1, <2>2
<1> QED
  BY <1>1, <1>2, <1>3, <1>4

(* Every rank is taken, so the i-th of a group exists.                     *)
LEMMA AscendingByRank ==
  ASSUME NEW S \in SUBSET Nat, IsFiniteSet(S)
  PROVE  /\ \A i \in 1..Cardinality(S) : Ascending(S)[i] \in S /\ Rank(Ascending(S)[i], S) = i - 1
         /\ \A n \in S : Rank(n, S) + 1 \in 1..Cardinality(S) /\ Ascending(S)[Rank(n, S) + 1] = n
<1> DEFINE C == Cardinality(S)
           place == [n \in S |-> Rank(n, S) + 1]
<1>1. C \in Nat /\ IsFiniteSet(1..C) /\ Cardinality(1..C) = C
  <2>1. C \in Nat
    BY RanksAscend
  <2> HIDE DEF C
  <2> QED
    BY <2>1, FS_Interval
<1>2. place \in Injection(S, 1..C)
  <2>1. place \in [S -> 1..C]
    BY RanksAscend
  <2>2. \A m, n \in S : place[m] = place[n] => m = n
    <3> SUFFICES ASSUME NEW m \in S, NEW n \in S, place[m] = place[n] PROVE m = n
      OBVIOUS
    <3>1. Rank(m, S) \in 0..(C - 1) /\ Rank(n, S) \in 0..(C - 1)
      BY RanksAscend
    <3>2. Rank(m, S) = Rank(n, S)
      BY <1>1, <3>1
    <3> QED
      BY <3>2, RanksAscend
  <2> QED
    BY <2>1, <2>2 DEF Injection, IsInjective
<1>3. place \in Surjection(S, 1..C)
  <2> HIDE DEF place
  <2> QED
    BY <1>1, <1>2, FS_Injection
<1>4. ASSUME NEW i \in 1..C
      PROVE  Ascending(S)[i] \in S /\ Rank(Ascending(S)[i], S) = i - 1
  <2>1. PICK n \in S : place[n] = i
    BY <1>3 DEF Surjection
  <2>2. Rank(n, S) \in 0..(C - 1)
    BY RanksAscend
  <2>3. Rank(n, S) = i - 1
    BY <1>1, <2>1, <2>2
  <2>4. Ascending(S)[i] = CHOOSE m \in S : Rank(m, S) = i - 1
    BY DEF Ascending
  <2> QED
    BY <2>3, <2>4
<1>5. ASSUME NEW n \in S
      PROVE  Rank(n, S) + 1 \in 1..C /\ Ascending(S)[Rank(n, S) + 1] = n
  <2>1. Rank(n, S) \in 0..(C - 1)
    BY RanksAscend
  <2>2. Rank(n, S) + 1 \in 1..C /\ (Rank(n, S) + 1) - 1 = Rank(n, S)
    BY <1>1, <2>1
  <2>3. Ascending(S)[Rank(n, S) + 1] \in S
        /\ Rank(Ascending(S)[Rank(n, S) + 1], S) = Rank(n, S)
    BY <1>4, <2>2
  <2> QED
    BY <2>2, <2>3, RanksAscend
<1> QED
  BY <1>4, <1>5

(* Two products of a stride are a stride apart.                            *)
LEMMA StrideApart ==
  ASSUME NEW s \in Nat, NEW a \in Nat, NEW b \in Nat, a < b
  PROVE  a * s + s <= b * s
<1>1. b = a + 1 + (b - a - 1) /\ b - a - 1 \in Nat
  OBVIOUS
<1>2. \A d \in Nat : (a + 1 + d) * s = a * s + s + d * s
  OBVIOUS
<1>3. \A d \in Nat : d * s >= 0
  OBVIOUS
<1> QED
  BY <1>1, <1>2, <1>3

LEMMA EqualFactors ==
  ASSUME NEW s \in Nat \ {0}, NEW a \in Nat, NEW b \in Nat, s * a = s * b
  PROVE  a = b
<1>1. s * a = a * s /\ s * b = b * s
  OBVIOUS
<1>2. ~(a < b) /\ ~(b < a)
  BY <1>1, StrideApart
<1> QED
  BY <1>2

------------------------------------------------------------------------------
(* The arena. *)

LEMMA GeometryNumbers ==
  ASSUME DefinitionOK, geometry # NoGeometry
  PROVE  /\ geometry.rowCount \in Nat \ {0} /\ geometry.rowBytes \in Nat \ {0}
         /\ geometry.stride \in Nat /\ geometry.rowBytes <= geometry.stride
BY GeometryAssumption DEF DefinitionOK, Geometries

\* A definition in use whose arena ArenaFilled speaks of.
InUse == /\ CheckedInv /\ Accept /\ geometry # NoGeometry /\ ~selfDelivery /\ Silent /\ Grouped
         /\ \A d \in Senders : Complete(d)

(* What is known of the group of a member of such a definition.            *)
LEMMA GroupInUse ==
  ASSUME InUse, NEW d \in Senders
  PROVE  LET G == GroupOf(d)
         IN /\ G \in SUBSET Nat /\ IsFiniteSet(G) /\ G \subseteq Senders /\ d \in G
            /\ Cardinality(G) \in Nat \ {0} /\ \A s \in G : GroupOf(s) = G
            /\ \A s \in G : Rank(s, G) \in 0..(Cardinality(G) - 1)
            /\ \A s \in G : SelfOff(s) = geometry.rowBytes * Rank(s, G)
            /\ ExpVal(d) = Payload * (Cardinality(G) - 1)
<1>1. CheckedInv /\ DefinitionOK /\ Accept /\ ~selfDelivery /\ Silent /\ Grouped
  BY DEF InUse, CheckedInv
<1>2. /\ Senders = members /\ members \subseteq Nodes
      /\ GroupOf(d) \subseteq members /\ d \in GroupOf(d)
      /\ \A s \in GroupOf(d) : GroupOf(s) = GroupOf(d)
  BY <1>1, GroupsAreClasses
<1>3. /\ IsFiniteSet(GroupOf(d)) /\ Cardinality(GroupOf(d)) \in Nat \ {0}
      /\ ExpVal(d) = Payload * (Cardinality(GroupOf(d)) - 1)
  BY <1>1, ExpValOfGroup
<1>4. GroupOf(d) \in SUBSET Nat
  BY <1>2, NodesAreCounted
<1>5. \A s \in GroupOf(d) : Rank(s, GroupOf(d)) \in 0..(Cardinality(GroupOf(d)) - 1)
  BY <1>3, <1>4, RanksAscend
<1> QED
  BY <1>2, <1>3, <1>4, <1>5 DEF SelfOff

(* A receive command is complete only if every row of the others fits.     *)
LEMMA EveryRowFits ==
  ASSUME InUse, NEW d \in Senders, NEW s \in GroupOf(d), s # d,
         NEW row \in 0..(geometry.rowCount - 1)
  PROVE  Fits(Address(s, row))
<1> DEFINE G == GroupOf(d)
           R == geometry.rowCount
           others == (G \ {d}) \X (0..(R - 1))
           landed == {copy \in Sources(d) : copy[1] # d /\ Fits(Address(copy[1], copy[2]))}
<1>1. /\ IsFiniteSet(G) /\ d \in G /\ Cardinality(G) \in Nat \ {0}
      /\ ExpVal(d) = Payload * (Cardinality(G) - 1)
  BY GroupInUse
<1>2. R \in Nat \ {0} /\ geometry.rowBytes \in Nat \ {0}
  BY GeometryNumbers DEF InUse, CheckedInv
<1>3. IsFiniteSet(others) /\ Cardinality(others) = (Cardinality(G) - 1) * R
  <2>1. IsFiniteSet(G \ {d}) /\ Cardinality(G \ {d}) = Cardinality(G) - 1
    BY <1>1, FS_RemoveElement
  <2>2. IsFiniteSet(0..(R - 1)) /\ Cardinality(0..(R - 1)) = R
    <3>1. 0 \in Int /\ R - 1 \in Int /\ ~(0 > R - 1) /\ R - 1 - 0 + 1 = R
      BY <1>2
    <3> HIDE DEF R
    <3> QED
      BY <3>1, FS_Interval
  <2> HIDE DEF G, R
  <2> QED
    BY <2>1, <2>2, FS_Product
<1>4. landed \in SUBSET others
  BY DEF Sources
<1>5. geometry.rowBytes * Cardinality(landed) = ExpVal(d)
  BY DEF InUse, Complete
<1>6. Cardinality(landed) = Cardinality(others)
  <2>1. IsFiniteSet(landed)
    <3> HIDE DEF landed, others
    <3> QED
      BY <1>3, <1>4, FS_Subset
  <2>2. Cardinality(landed) \in Nat /\ Cardinality(others) \in Nat
    <3> HIDE DEF landed, others
    <3> QED
      BY <1>3, <2>1, FS_CardinalityType
  <2>3. \A a, b, c \in Nat : (a * b) * c = b * (c * a)
    OBVIOUS
  <2>4. Payload * (Cardinality(G) - 1) = geometry.rowBytes * ((Cardinality(G) - 1) * R)
    BY <1>1, <1>2, <2>3 DEF Payload
  <2>5. geometry.rowBytes * Cardinality(landed) = geometry.rowBytes * Cardinality(others)
    BY <1>1, <1>3, <1>5, <2>4
  <2> HIDE DEF landed, others
  <2> QED
    BY <1>2, <2>2, <2>5, EqualFactors
<1>7. landed = others
  <2> HIDE DEF landed, others
  <2> QED
    BY <1>3, <1>4, <1>6, FS_Subset
<1>8. <<s, row>> \in others
  OBVIOUS
<1>9. <<s, row>> \in landed
  BY <1>7, <1>8
<1> QED
  BY <1>9

(* So the stride holds the whole group: the highest rank of the last row   *)
(* landed at somebody, or there is nobody else.                            *)
LEMMA StrideHoldsGroup ==
  ASSUME InUse, NEW d \in Senders
  PROVE  geometry.rowBytes * Cardinality(GroupOf(d)) <= geometry.stride
<1> DEFINE G == GroupOf(d)
           C == Cardinality(G)
           R == geometry.rowCount
           B == geometry.rowBytes
           S == geometry.stride
<1>1. /\ G \in SUBSET Nat /\ IsFiniteSet(G) /\ G \subseteq Senders /\ d \in G
      /\ C \in Nat \ {0} /\ \A s \in G : GroupOf(s) = G
      /\ \A s \in G : SelfOff(s) = B * Rank(s, G)
  BY GroupInUse
<1>2. R \in Nat \ {0} /\ B \in Nat \ {0} /\ S \in Nat /\ B <= S
  BY GeometryNumbers DEF InUse, CheckedInv
<1>3. CASE C = 1
  <2>1. B * C = B
    BY <1>2, <1>3
  <2> QED
    BY <1>2, <2>1
<1>4. CASE C # 1
  <2>1. C \in 1..C /\ 1 \in 1..C /\ C - 1 # 1 - 1
    BY <1>1, <1>4
  <2>2. /\ Ascending(G)[C] \in G /\ Rank(Ascending(G)[C], G) = C - 1
        /\ Ascending(G)[1] \in G /\ Rank(Ascending(G)[1], G) = 1 - 1
    <3> HIDE DEF G
    <3> QED
      BY <1>1, <2>1, AscendingByRank
  <2>3. PICK last \in G, first \in G : Rank(last, G) = C - 1 /\ last # first
    BY <2>1, <2>2
  <2>4. first \in Senders /\ last \in GroupOf(first) /\ R - 1 \in 0..(R - 1)
    BY <1>1, <1>2, <2>3
  <2>5. Fits(Address(last, R - 1))
    BY <2>3, <2>4, EveryRowFits
  <2>6. (R - 1) * S + B * (C - 1) + B <= R * S
    BY <1>1, <2>3, <2>5 DEF Fits, Address, Capacity
  <2>7. /\ (R - 1) * S = R * S - S /\ B * (C - 1) = B * C - B
        /\ R * S \in Nat /\ B * C \in Nat
    BY <1>1, <1>2
  <2> QED
    BY <1>2, <2>6, <2>7
<1> QED
  BY <1>3, <1>4

(* A segment lies in its row, and the row in the arena.                    *)
LEMMA SegmentInRow ==
  ASSUME InUse, NEW d \in Senders, NEW a \in Sources(d)
  PROVE  /\ a[2] \in Nat /\ a[2] * geometry.stride \in Nat
         /\ Address(a[1], a[2]) = a[2] * geometry.stride
                                    + geometry.rowBytes * Rank(a[1], GroupOf(d))
         /\ Address(a[1], a[2]) \in Nat
         /\ a[2] * geometry.stride <= Address(a[1], a[2])
         /\ Address(a[1], a[2]) + geometry.rowBytes <= a[2] * geometry.stride + geometry.stride
         /\ a[2] * geometry.stride + geometry.stride <= Capacity
<1> DEFINE G == GroupOf(d)
           C == Cardinality(G)
           R == geometry.rowCount
           B == geometry.rowBytes
           S == geometry.stride
           k == Rank(a[1], G)
<1>1. /\ C \in Nat \ {0} /\ a[1] \in G /\ a[2] \in 0..(R - 1)
      /\ SelfOff(a[1]) = B * k /\ k \in 0..(C - 1)
  BY GroupInUse DEF Sources
<1>2. R \in Nat \ {0} /\ B \in Nat \ {0} /\ S \in Nat
  BY GeometryNumbers DEF InUse, CheckedInv
<1>3. B * C <= S
  BY StrideHoldsGroup
<1>4. a[2] \in Nat /\ a[2] < R /\ k \in Nat /\ k < C
  BY <1>1, <1>2
<1>5. k * B + B <= C * B
  BY <1>1, <1>2, <1>4, StrideApart
<1>6. a[2] * S + S <= R * S
  BY <1>2, <1>4, StrideApart
<1>7. k * B = B * k /\ C * B = B * C /\ B * k \in Nat /\ B * C \in Nat
  BY <1>1, <1>2, <1>4
<1>8. a[2] * S \in Nat /\ R * S \in Nat
  BY <1>2, <1>4
<1>9. Address(a[1], a[2]) = a[2] * S + B * k /\ Capacity = R * S
  BY <1>1 DEF Address, Capacity
<1> HIDE DEF C, R, B, S, k
<1>10. /\ Address(a[1], a[2]) \in Nat
       /\ a[2] * S <= Address(a[1], a[2])
       /\ Address(a[1], a[2]) + B <= a[2] * S + S
       /\ a[2] * S + S <= Capacity
  BY <1>2, <1>3, <1>5, <1>6, <1>7, <1>8, <1>9
<1> QED
  BY <1>4, <1>8, <1>9, <1>10 DEF R, B, S, k

\* The bytes a source's row occupies.
Occupied(a) == Address(a[1], a[2])..(Address(a[1], a[2]) + geometry.rowBytes - 1)

(* No two of the rows share a byte.                                        *)
LEMMA SegmentsApart ==
  ASSUME InUse, NEW d \in Senders, NEW a \in Sources(d), NEW b \in Sources(d), a # b
  PROVE  Occupied(a) \cap Occupied(b) = {}
<1> DEFINE G == GroupOf(d)
           B == geometry.rowBytes
           S == geometry.stride
           at(c) == Address(c[1], c[2])
<1>1. B \in Nat \ {0} /\ S \in Nat
  BY GeometryNumbers DEF InUse, CheckedInv
<1>2. ASSUME NEW x \in Sources(d), NEW y \in Sources(d), x[2] < y[2]
      PROVE  at(x) + B <= at(y)
  <2>1. x[2] * S + S <= y[2] * S
    BY <1>1, <1>2, SegmentInRow, StrideApart
  <2>2. /\ at(x) \in Nat /\ at(x) + B <= x[2] * S + S /\ x[2] * S \in Nat
        /\ at(y) \in Nat /\ y[2] * S <= at(y) /\ y[2] * S \in Nat
    BY SegmentInRow
  <2> HIDE DEF at
  <2> QED
    BY <1>1, <2>1, <2>2
<1>3. ASSUME NEW x \in Sources(d), NEW y \in Sources(d), x[2] = y[2], x[1] < y[1]
      PROVE  at(x) + B <= at(y)
  <2> DEFINE k == Rank(x[1], G)
             l == Rank(y[1], G)
  <2>1. x[1] \in G /\ y[1] \in G /\ G \in SUBSET Nat /\ IsFiniteSet(G)
    BY GroupInUse DEF Sources
  <2>2. k \in Nat /\ l \in Nat /\ k < l
    <3> HIDE DEF G
    <3>1. /\ Cardinality(G) \in Nat
          /\ k \in 0..(Cardinality(G) - 1) /\ l \in 0..(Cardinality(G) - 1) /\ k < l
      BY <1>3, <2>1, RanksAscend
    <3> QED
      BY <3>1
  <2>3. k * B + B <= l * B /\ k * B = B * k /\ l * B = B * l
    BY <1>1, <2>2, StrideApart
  <2>4. at(x) = x[2] * S + B * k /\ at(y) = x[2] * S + B * l /\ x[2] * S \in Nat
    BY <1>3, SegmentInRow
  <2>5. B * k \in Nat /\ B * l \in Nat
    BY <1>1, <2>2
  <2> HIDE DEF at, k, l
  <2> QED
    BY <1>1, <2>3, <2>4, <2>5
<1>4. /\ a[1] \in Nat /\ b[1] \in Nat /\ a[2] \in Nat /\ b[2] \in Nat
      /\ at(a) \in Nat /\ at(b) \in Nat /\ (a[1] # b[1] \/ a[2] # b[2])
  <2>1. a[1] \in GroupOf(d) /\ b[1] \in GroupOf(d) /\ (a[1] # b[1] \/ a[2] # b[2])
    BY DEF Sources
  <2>2. GroupOf(d) \in SUBSET Nat
    BY GroupInUse
  <2> QED
    BY <2>1, <2>2, SegmentInRow
<1>5. at(a) + B <= at(b) \/ at(b) + B <= at(a)
  <2> HIDE DEF at
  <2> QED
    BY <1>2, <1>3, <1>4
<1> HIDE DEF B, at
<1>6. (at(a)..(at(a) + B - 1)) \cap (at(b)..(at(b) + B - 1)) = {}
  BY <1>1, <1>4, <1>5
<1> QED
  BY <1>6 DEF Occupied, at, B

(* A number is a multiple of a stride and a rest below it.                 *)
LEMMA DivideBy ==
  ASSUME NEW x \in Nat, NEW s \in Nat \ {0}
  PROVE  \E q \in Nat, r \in 0..(s - 1) : x = (q * s) + r
<1>1. x = (s * (x \div s)) + (x % s)
  OBVIOUS
<1>2. (x \div s) \in Nat /\ (x % s) \in 0..(s - 1)
  OBVIOUS
<1>3. s * (x \div s) = (x \div s) * s
  BY <1>2
<1> QED
  BY <1>1, <1>2, <1>3

\* A multiple below a multiple has the smaller factor.
LEMMA SmallerFactor ==
  ASSUME NEW s \in Nat \ {0}, NEW q \in Nat, NEW n \in Nat, q * s < n * s
  PROVE  q < n
<1> SUFFICES ASSUME n <= q PROVE FALSE
  OBVIOUS
<1>1. CASE n = q
  BY <1>1
<1>2. CASE n < q
  <2>1. n * s + s <= q * s /\ n * s \in Nat /\ q * s \in Nat
    BY <1>2, StrideApart
  <2> QED
    BY <2>1
<1> QED
  BY <1>1, <1>2

(* With a stride of exactly the group every byte belongs to some row.      *)
LEMMA SegmentsFill ==
  ASSUME InUse, NEW d \in Senders,
         geometry.stride = Cardinality(GroupOf(d)) * geometry.rowBytes
  PROVE  0..(Capacity - 1) = UNION {Occupied(a) : a \in Sources(d)}
<1> DEFINE G == GroupOf(d)
           C == Cardinality(G)
           R == geometry.rowCount
           B == geometry.rowBytes
           S == geometry.stride
<1>1. G \in SUBSET Nat /\ IsFiniteSet(G) /\ C \in Nat \ {0}
  BY GroupInUse
<1>2. R \in Nat \ {0} /\ B \in Nat \ {0} /\ S \in Nat \ {0} /\ R * S \in Nat /\ Capacity = R * S
  <2>1. R \in Nat \ {0} /\ B \in Nat \ {0} /\ S \in Nat /\ B <= S
    BY GeometryNumbers DEF InUse, CheckedInv
  <2> QED
    BY <2>1 DEF Capacity
<1>3. ASSUME NEW x \in 0..(Capacity - 1)
      PROVE  \E a \in Sources(d) : x \in Occupied(a)
  <2>0. x \in Nat /\ x < R * S
    BY <1>2
  <2>1. PICK row \in Nat, rest \in 0..(S - 1) : x = (row * S) + rest
    BY <1>2, <2>0, DivideBy
  <2>2. row < R
    <3>1. row * S < R * S
      <4>1. row * S \in Nat
        BY <1>2
      <4> HIDE DEF S, R
      <4> QED
        BY <1>2, <2>0, <2>1, <4>1
    <3> HIDE DEF S, R
    <3> QED
      BY <1>2, <3>1, SmallerFactor
  <2>3. rest \in Nat /\ rest < C * B
    BY <1>2
  <2>4. PICK k \in Nat, byte \in 0..(B - 1) : rest = (k * B) + byte
    BY <1>2, <2>3, DivideBy
  <2>5. k < C
    <3>1. k * B < C * B
      <4>1. k * B \in Nat /\ C * B \in Nat
        BY <1>1, <1>2
      <4> HIDE DEF C, B
      <4> QED
        BY <1>2, <2>3, <2>4, <4>1
    <3> HIDE DEF C, B
    <3> QED
      BY <1>1, <1>2, <3>1, SmallerFactor
  <2>6. k + 1 \in 1..C /\ (k + 1) - 1 = k
    BY <1>1, <2>5
  <2>7. PICK s \in G : Rank(s, G) = k
    <3> HIDE DEF G
    <3> QED
      BY <1>1, <2>6, AscendingByRank
  <2>8. <<s, row>> \in Sources(d)
    BY <1>2, <2>2 DEF Sources
  <2>9. Address(s, row) = row * S + B * k
    BY <2>7, <2>8, SegmentInRow
  <2>10. k * B = B * k /\ B * k \in Nat /\ row * S \in Nat
    BY <1>2
  <2> HIDE DEF B, S
  <2>11. x \in Address(s, row)..(Address(s, row) + B - 1)
    BY <1>2, <2>1, <2>4, <2>9, <2>10
  <2> QED
    BY <2>8, <2>11 DEF Occupied, B
<1>4. ASSUME NEW a \in Sources(d), NEW x \in Occupied(a)
      PROVE  x \in 0..(Capacity - 1)
  <2> DEFINE at == Address(a[1], a[2])
  <2>1. /\ at \in Nat /\ at + B <= a[2] * S + S /\ a[2] * S \in Nat
        /\ a[2] * S + S <= Capacity
    BY SegmentInRow
  <2>2. x \in at..(at + B - 1)
    BY DEF Occupied
  <2> HIDE DEF at, B, S
  <2> QED
    BY <1>2, <2>1, <2>2
<1> QED
  BY <1>3, <1>4

------------------------------------------------------------------------------
(* The packed arena of a group. *)

\* The numbers a packed arena is computed from.
Sizes == geometry.rowCount \in Nat \ {0} /\ geometry.rowBytes \in Nat \ {0}

LEMMA PackedSegments ==
  ASSUME Sizes, NEW G \in SUBSET Nat, IsFiniteSet(G), Cardinality(G) \in Nat \ {0}
  PROVE  /\ DOMAIN Packed(G).segments = 1..Cardinality(G)
         /\ Len(Packed(G).segments) = Cardinality(G)
         /\ Packed(G).rowCount = geometry.rowCount
         /\ Packed(G).rowStride = Cardinality(G) * geometry.rowBytes
         /\ \A i \in 1..Cardinality(G) :
              /\ Packed(G).segments[i].rank = Ascending(G)[i]
              /\ Packed(G).segments[i].offset = (i - 1) * geometry.rowBytes
              /\ Packed(G).segments[i].nbytes = geometry.rowBytes
<1> DEFINE C == Cardinality(G)
           B == geometry.rowBytes
           Seg == [rank : G, offset : Int, nbytes : Int]
           segs == [i \in DOMAIN Ascending(G) |->
                      [rank |-> Ascending(G)[i], offset |-> (i - 1) * B, nbytes |-> B]]
<1>1. DOMAIN Ascending(G) = 1..C
  BY DEF Ascending
<1>2. \A i \in 1..C : Ascending(G)[i] \in G
  BY AscendingByRank
<1>3. Ascending(G) \in [1..C -> G]
  BY <1>2 DEF Ascending
<1>4. Len(Ascending(G)) = C
  BY <1>3
<1>5. segs \in [1..C -> Seg]
  BY <1>1, <1>2 DEF Sizes
<1>6. Len(segs) = C
  <2> HIDE DEF segs, Seg
  <2> QED
    BY <1>5
<1>7. Packed(G) = [rowCount |-> geometry.rowCount, rowStride |-> Len(Ascending(G)) * B,
                   segments |-> segs]
  BY DEF Packed
<1> QED
  BY <1>1, <1>4, <1>6, <1>7

(* Invariant A3 of what packed returns.                                    *)
LEMMA PackedTiles ==
  ASSUME Sizes, NEW G \in SUBSET Nat, IsFiniteSet(G), Cardinality(G) \in Nat \ {0}
  PROVE  ValidFill(Packed(G))
<1> DEFINE C == Cardinality(G)
           B == geometry.rowBytes
           segs == Packed(G).segments
           order == [i \in 1..C |-> i]
<1>1. /\ DOMAIN segs = 1..C /\ Len(segs) = C /\ Packed(G).rowStride = C * B
      /\ \A i \in 1..C : segs[i].offset = (i - 1) * B /\ segs[i].nbytes = B
  BY PackedSegments
<1>2. B \in Nat \ {0} /\ C \in Nat \ {0}
  BY DEF Sizes
<1>3. order \in Bijection(1..C, 1..C)
  BY DEF Bijection, Injection, Surjection, IsInjective
<1> DEFINE at(i) == segs[order[i]]
           cursor(i) == IF i = 0 THEN 0 ELSE at(i).offset + at(i).nbytes
<1>4. ASSUME NEW i \in 1..C PROVE cursor(i) = i * B /\ at(i).offset = (i - 1) * B
  <2>1. at(i).offset = (i - 1) * B /\ at(i).nbytes = B
    BY <1>1
  <2>2. (i - 1) * B + B = i * B /\ i # 0
    BY <1>2
  <2> QED
    BY <2>1, <2>2
<1>5. cursor(0) = 0
  OBVIOUS
<1>6. ASSUME NEW i \in 1..C PROVE at(i).offset = cursor(i - 1)
  <2>1. CASE i = 1
    <3>1. (i - 1) * B = 0 /\ i - 1 = 0
      BY <1>2, <2>1
    <3> QED
      BY <1>4, <1>5, <3>1
  <2>2. CASE i # 1
    <3>1. i - 1 \in 1..C
      BY <1>2, <2>2
    <3> HIDE DEF at, cursor
    <3> QED
      BY <1>4, <3>1
  <2> QED
    BY <2>1, <2>2
<1>7. cursor(C) = C * B
  <2>1. C \in 1..C
    BY <1>2
  <2> HIDE DEF cursor, C
  <2> QED
    BY <1>4, <2>1
<1> HIDE DEF order
<1> QED
  BY <1>1, <1>3, <1>6, <1>7 DEF ValidFill

(* The arena's own address of a row is that of the send.                   *)
LEMMA PackedAddress ==
  ASSUME InUse, NEW d \in Senders, NEW a \in Sources(d),
         geometry.stride = Cardinality(GroupOf(d)) * geometry.rowBytes
  PROVE  Address(a[1], a[2]) = DstAddress(Packed(GroupOf(d)), a[1], a[2])
<1> DEFINE G == GroupOf(d)
           C == Cardinality(G)
           B == geometry.rowBytes
           segs == Packed(G).segments
           k == Rank(a[1], G)
<1>1. G \in SUBSET Nat /\ IsFiniteSet(G) /\ C \in Nat \ {0} /\ a[1] \in G /\ a[2] \in Nat
  BY GroupInUse, SegmentInRow DEF Sources
<1>2. Sizes
  BY GeometryNumbers DEF InUse, CheckedInv, Sizes
<1>3. /\ DOMAIN segs = 1..C /\ Packed(G).rowStride = C * B
      /\ \A i \in 1..C : segs[i].rank = Ascending(G)[i] /\ segs[i].offset = (i - 1) * B
  <2> HIDE DEF G
  <2> QED
    BY <1>1, <1>2, PackedSegments
<1>4. /\ \A i \in 1..C : Rank(Ascending(G)[i], G) = i - 1
      /\ k + 1 \in 1..C /\ Ascending(G)[k + 1] = a[1]
      /\ k \in 0..(C - 1)
  <2> HIDE DEF G
  <2> QED
    BY <1>1, AscendingByRank, RanksAscend
<1>5. \A i \in 1..C : segs[i].rank = a[1] => i = k + 1
  BY <1>1, <1>3, <1>4
<1>6. SegmentOf(Packed(G), a[1]) = segs[k + 1]
  <2>1. k + 1 \in DOMAIN segs /\ segs[k + 1].rank = a[1]
    BY <1>3, <1>4
  <2>2. (CHOOSE i \in DOMAIN segs : segs[i].rank = a[1]) = k + 1
    BY <1>3, <1>5, <2>1
  <2> QED
    BY <2>2 DEF SegmentOf
<1>7. SegmentOf(Packed(G), a[1]).offset = B * k
  <2>1. segs[k + 1].offset = ((k + 1) - 1) * B
    BY <1>3, <1>4
  <2>2. ((k + 1) - 1) * B = B * k
    BY <1>1, <1>2, <1>4 DEF Sizes
  <2> QED
    BY <1>6, <2>1, <2>2
<1>8. Address(a[1], a[2]) = a[2] * geometry.stride + B * k
  BY SegmentInRow
<1> QED
  BY <1>3, <1>7, <1>8 DEF DstAddress

(* check_conservation holds of the packed arena of an accepted table.      *)
LEMMA PackedConserves ==
  ASSUME InUse, NEW d \in Senders
  PROVE  ArenaConserves(Packed(GroupOf(d)))
<1> DEFINE G == GroupOf(d)
           C == Cardinality(G)
           B == geometry.rowBytes
           R == geometry.rowCount
<1>1. G \in SUBSET Nat /\ IsFiniteSet(G) /\ C \in Nat \ {0} /\ G \subseteq Senders
      /\ \A s \in G : GroupOf(s) = G
  BY GroupInUse
<1>2. Sizes
  BY GeometryNumbers DEF InUse, CheckedInv, Sizes
<1>3. /\ DOMAIN Packed(G).segments = 1..C
      /\ Packed(G).rowCount = R /\ Packed(G).rowStride = C * B
      /\ \A i \in 1..C : Packed(G).segments[i].rank = Ascending(G)[i]
  <2> HIDE DEF G
  <2> QED
    BY <1>1, <1>2, PackedSegments
<1>4. ASSUME NEW i \in 1..C
      PROVE  /\ ExpVal(Ascending(G)[i]) <= R * (C * B)
             /\ ExpVal(Ascending(G)[i]) = declared[Ascending(G)[i]]
  <2>1. Ascending(G)[i] \in G
    <3> HIDE DEF G
    <3> QED
      BY <1>1, AscendingByRank
  <2>2. PICK s \in Senders : s = Ascending(G)[i] /\ GroupOf(s) = G
    BY <1>1, <2>1
  <2>3. ExpVal(s) = Payload * (C - 1)
    BY <2>2, GroupInUse
  <2>4. Payload * (C - 1) <= R * (C * B)
    <3>1. (R * B) * (C - 1) = (R * B) * C - (R * B) /\ (R * B) * C = R * (C * B) /\ R * B \in Nat
          /\ (R * B) * C \in Nat
      BY <1>1, <1>2 DEF Sizes
    <3>2. Payload = R * B
      BY DEF Payload
    <3> HIDE DEF R, B, C
    <3> QED
      BY <3>1, <3>2
  <2>5. s \in Nodes /\ ExpVal(s) = declared[s]
    BY AcceptedRow DEF InUse, CheckedInv, Stages
  <2> QED
    BY <2>2, <2>3, <2>4, <2>5
<1> QED
  BY <1>3, <1>4 DEF ArenaConserves

(* Invariant A1 to A3 in use, for every group, geometry and mesh: when the *)
(* receive commands complete, no row of an arena overlaps another or       *)
(* leaves it, and with the example's stride they fill it where the packed  *)
(* arena says.                                                             *)
THEOREM AcceptedArenaFills == Spec => []ArenaFilled
<1>1. ASSUME InUse, NEW d \in Senders
      PROVE  /\ \A a, b \in Sources(d) : a # b => Occupied(a) \cap Occupied(b) = {}
             /\ \A a \in Sources(d) : Occupied(a) \subseteq 0..(Capacity - 1)
             /\ geometry = ExampleGeometry(GroupOf(d)) =>
                  /\ 0..(Capacity - 1) = UNION {Occupied(a) : a \in Sources(d)}
                  /\ ValidFill(Packed(GroupOf(d))) /\ ArenaConserves(Packed(GroupOf(d)))
                  /\ \A a \in Sources(d) :
                       Address(a[1], a[2]) = DstAddress(Packed(GroupOf(d)), a[1], a[2])
  <2>1. geometry.rowBytes \in Nat /\ geometry.stride \in Nat /\ geometry.rowCount \in Nat /\ Sizes
    BY <1>1, GeometryNumbers DEF InUse, CheckedInv, Sizes
  <2>2. ASSUME NEW a \in Sources(d) PROVE Occupied(a) \subseteq 0..(Capacity - 1)
    <3> DEFINE at == Address(a[1], a[2])
    <3>1. /\ at \in Nat /\ at + geometry.rowBytes <= a[2] * geometry.stride + geometry.stride
          /\ a[2] * geometry.stride + geometry.stride <= Capacity /\ a[2] * geometry.stride \in Nat
      BY <1>1, SegmentInRow
    <3>2. Capacity \in Nat
      BY <2>1 DEF Capacity
    <3> HIDE DEF at
    <3>3. at..(at + geometry.rowBytes - 1) \subseteq 0..(Capacity - 1)
      BY <2>1, <3>1, <3>2
    <3> QED
      BY <3>3 DEF Occupied, at
  <2>3. ASSUME geometry = ExampleGeometry(GroupOf(d))
        PROVE  geometry.stride = Cardinality(GroupOf(d)) * geometry.rowBytes
    <3>1. geometry \in Geometries
      BY <1>1 DEF InUse, CheckedInv, DefinitionOK
    <3> QED
      BY <2>3, <3>1 DEF ExampleGeometry, Geometries
  <2>4. ValidFill(Packed(GroupOf(d)))
    <3>1. PICK G : G = GroupOf(d)
      OBVIOUS
    <3>2. G \in SUBSET Nat /\ IsFiniteSet(G) /\ Cardinality(G) \in Nat \ {0}
      BY <1>1, <3>1, GroupInUse
    <3> QED
      BY <2>1, <3>1, <3>2, PackedTiles
  <2> QED
    BY <1>1, <2>2, <2>3, <2>4, SegmentsApart, SegmentsFill, PackedConserves, PackedAddress
<1>2. ASSUME CheckedInv PROVE ArenaFilled
  <2> SUFFICES ASSUME Accept, geometry # NoGeometry, ~selfDelivery, Silent, Grouped,
                      \A d \in Senders : Complete(d)
               PROVE  ArenaFilled
    BY DEF ArenaFilled
  <2>1. InUse
    BY <1>2 DEF InUse
  <2> QED
    BY <1>1, <2>1 DEF ArenaFilled, Occupied
<1>3. CheckedInv => ArenaFilled
  BY <1>2
<1> QED
  BY <1>3, CheckedInvariant, PTL

------------------------------------------------------------------------------
(* The lines of the mesh. *)

(* A node is its row and its column, in one way.                           *)
LEMMA Coordinates ==
  ASSUME NEW n \in Nodes
  PROVE  /\ n \in Nat /\ RowOf(n) \in 0..(MeshRows - 1) /\ ColOf(n) \in 0..(MeshCols - 1)
         /\ n = (RowOf(n) * MeshCols) + ColOf(n)
         /\ \A r \in Nat, c \in 0..(MeshCols - 1) :
              n = (r * MeshCols) + c => r = RowOf(n) /\ c = ColOf(n)
<1> DEFINE C == MeshCols
           r0 == n \div MeshCols
           c0 == n % MeshCols
<1>1. C \in Nat \ {0} /\ MeshRows \in Nat \ {0}
  BY MeshAssumption
<1>2. MeshRows * C \in Nat
  BY <1>1
<1>3. n \in Nat /\ n < MeshRows * C
  BY <1>2 DEF Nodes
<1>4. n = (r0 * C) + c0 /\ r0 \in Nat /\ c0 \in 0..(C - 1)
  <2>1. n = (C * (n \div C)) + (n % C)
    BY <1>1, <1>3
  <2>2. (n \div C) \in Nat /\ (n % C) \in 0..(C - 1)
    BY <1>1, <1>3
  <2>3. C * r0 = r0 * C
    BY <1>1, <2>2
  <2> QED
    BY <2>1, <2>2, <2>3
<1> HIDE DEF r0, c0
<1>5. r0 < MeshRows
  <2> SUFFICES ASSUME MeshRows <= r0 PROVE FALSE
    BY <1>1, <1>4
  <2>1. MeshRows * C <= r0 * C
    <3>1. CASE MeshRows = r0
      BY <1>1, <1>4, <3>1
    <3>2. CASE MeshRows < r0
      BY <1>1, <1>4, <3>2, StrideApart
    <3> QED
      BY <1>1, <1>4, <3>1, <3>2
  <2>2. r0 * C \in Nat
    BY <1>1, <1>4
  <2> QED
    BY <1>2, <1>3, <1>4, <2>1, <2>2
<1>6. ASSUME NEW r \in Nat, NEW c \in 0..(C - 1), n = (r * C) + c
      PROVE  r = r0 /\ c = c0
  <2>1. r * C \in Nat /\ r0 * C \in Nat
    BY <1>1, <1>4
  <2>2. ~(r < r0)
    BY <1>1, <1>4, <1>6, <2>1, StrideApart
  <2>3. ~(r0 < r)
    BY <1>1, <1>4, <1>6, <2>1, StrideApart
  <2>4. r = r0
    BY <1>4, <2>2, <2>3
  <2> QED
    BY <1>4, <1>6, <2>1, <2>4
<1> QED
  BY <1>1, <1>3, <1>4, <1>5, <1>6 DEF r0, c0, RowOf, ColOf

\* The node at a row and a column.
At(r, c) == (r * MeshCols) + c

LEMMA NodeAt ==
  ASSUME NEW r \in 0..(MeshRows - 1), NEW c \in 0..(MeshCols - 1)
  PROVE  At(r, c) \in Nodes /\ RowOf(At(r, c)) = r /\ ColOf(At(r, c)) = c
<1>1. MeshCols \in Nat \ {0} /\ MeshRows \in Nat \ {0} /\ MeshRows * MeshCols \in Nat
      /\ r \in Nat /\ r < MeshRows /\ r * MeshCols \in Nat
  BY MeshAssumption
<1>2. r * MeshCols + MeshCols <= MeshRows * MeshCols
  BY <1>1, StrideApart
<1>3. At(r, c) \in Nodes
  BY <1>1, <1>2 DEF At, Nodes
<1> QED
  BY <1>1, <1>3, Coordinates DEF At

(* A link joins two nodes of a row or of a column that follow each other.  *)
LEMMA LinksByCoordinates ==
  ASSUME NEW a \in Nodes, NEW b \in Nodes
  PROVE  b \in Neighbours(a) <=>
           \/ RowOf(b) = RowOf(a) /\ (ColOf(b) = ColOf(a) + 1 \/ ColOf(a) = ColOf(b) + 1)
           \/ ColOf(b) = ColOf(a) /\ (RowOf(b) = RowOf(a) + 1 \/ RowOf(a) = RowOf(b) + 1)
<1> DEFINE r == RowOf(a)
           c == ColOf(a)
           s == RowOf(b)
           d == ColOf(b)
           C == MeshCols
<1>1. C \in Nat \ {0} /\ MeshRows \in Nat \ {0}
  BY MeshAssumption
<1>2. /\ r \in 0..(MeshRows - 1) /\ c \in 0..(C - 1) /\ a = (r * C) + c
      /\ s \in 0..(MeshRows - 1) /\ d \in 0..(C - 1) /\ b = (s * C) + d
  BY Coordinates
<1>3. \A x \in Nat, y \in 0..(C - 1) : b = (x * C) + y => x = s /\ y = d
  BY Coordinates
<1>4. Neighbours(a) = (IF r > 0 THEN {a - C} ELSE {}) \cup (IF c > 0 THEN {a - 1} ELSE {})
                      \cup (IF c + 1 < C THEN {a + 1} ELSE {})
                      \cup (IF r + 1 < MeshRows THEN {a + C} ELSE {})
  BY DEF Neighbours, North, West, East, South
<1> HIDE DEF r, c, s, d, C
<1>5. r * C \in Nat /\ s * C \in Nat
  BY <1>1, <1>2
<1>6. (r > 0 /\ b = a - C) <=> (d = c /\ r = s + 1)
  <2>1. ASSUME r > 0, b = a - C PROVE d = c /\ r = s + 1
    <3>1. r - 1 \in Nat /\ (r - 1) * C = (r * C) - C
      BY <1>1, <1>2, <2>1
    <3>2. b = ((r - 1) * C) + c
      BY <1>1, <1>2, <1>5, <2>1, <3>1
    <3> QED
      BY <1>2, <1>3, <3>1, <3>2
  <2>2. ASSUME d = c, r = s + 1 PROVE r > 0 /\ b = a - C
    <3>1. r * C = (s * C) + C
      BY <1>1, <1>2, <2>2
    <3> QED
      BY <1>1, <1>2, <1>5, <2>2, <3>1
  <2> QED
    BY <2>1, <2>2
<1>7. (r + 1 < MeshRows /\ b = a + C) <=> (d = c /\ s = r + 1)
  <2>1. ASSUME b = a + C PROVE d = c /\ s = r + 1
    <3>1. r + 1 \in Nat /\ (r + 1) * C = (r * C) + C
      BY <1>1, <1>2
    <3>2. b = ((r + 1) * C) + c
      BY <1>1, <1>2, <1>5, <2>1, <3>1
    <3> QED
      BY <1>2, <1>3, <3>1, <3>2
  <2>2. ASSUME d = c, s = r + 1 PROVE r + 1 < MeshRows /\ b = a + C
    <3>1. s * C = (r * C) + C
      BY <1>1, <1>2, <2>2
    <3> QED
      BY <1>1, <1>2, <1>5, <2>2, <3>1
  <2> QED
    BY <2>1, <2>2
<1>8. (c > 0 /\ b = a - 1) <=> (s = r /\ c = d + 1)
  <2>1. ASSUME c > 0, b = a - 1 PROVE s = r /\ c = d + 1
    <3>1. c - 1 \in 0..(C - 1) /\ r \in Nat /\ b = (r * C) + (c - 1)
      BY <1>1, <1>2, <1>5, <2>1
    <3> QED
      BY <1>2, <1>3, <3>1
  <2>2. ASSUME s = r, c = d + 1 PROVE c > 0 /\ b = a - 1
    BY <1>1, <1>2, <1>5, <2>2
  <2> QED
    BY <2>1, <2>2
<1>9. (c + 1 < C /\ b = a + 1) <=> (s = r /\ d = c + 1)
  <2>1. ASSUME c + 1 < C, b = a + 1 PROVE s = r /\ d = c + 1
    <3>1. c + 1 \in 0..(C - 1) /\ r \in Nat /\ b = (r * C) + (c + 1)
      BY <1>1, <1>2, <1>5, <2>1
    <3> QED
      BY <1>2, <1>3, <3>1
  <2>2. ASSUME s = r, d = c + 1 PROVE c + 1 < C /\ b = a + 1
    BY <1>1, <1>2, <1>5, <2>2
  <2> QED
    BY <2>1, <2>2
<1>10. b \in Neighbours(a) <=>
          \/ r > 0 /\ b = a - C
          \/ c > 0 /\ b = a - 1
          \/ c + 1 < C /\ b = a + 1
          \/ r + 1 < MeshRows /\ b = a + C
  BY <1>4
<1> QED
  BY <1>6, <1>7, <1>8, <1>9, <1>10 DEF r, c, s, d

\* The nodes of S in a line: f lists them upwards, and only neighbours in the
\* list have a link.
Line(f, k, S) ==
  /\ k \in Nat \ {0} /\ f \in [0..(k - 1) -> Nodes] /\ S = {f[i] : i \in 0..(k - 1)}
  /\ \A i, j \in 0..(k - 1) : i < j => f[i] < f[j]
  /\ \A i, j \in 0..(k - 1) : f[j] \in Neighbours(f[i]) <=> j = i + 1 \/ i = j + 1

LEMMA LineOnce ==
  ASSUME NEW f, NEW k, NEW S, Line(f, k, S)
  PROVE  \A i, j \in 0..(k - 1) : /\ f[i] = f[j] => i = j
                                  /\ f[i] < f[j] => i < j
<1> SUFFICES ASSUME NEW i \in 0..(k - 1), NEW j \in 0..(k - 1)
             PROVE  (f[i] = f[j] => i = j) /\ (f[i] < f[j] => i < j)
  OBVIOUS
<1>1. k \in Nat /\ i \in Nat /\ j \in Nat /\ (i < j => f[i] < f[j]) /\ (j < i => f[j] < f[i])
  BY DEF Line
<1>2. f[i] \in Nat /\ f[j] \in Nat
  BY NodesAreCounted DEF Line
<1> QED
  BY <1>1, <1>2

(* From any of its nodes a line is reached to both its ends.               *)
LEMMA LineIsReached ==
  ASSUME NEW f, NEW k, NEW S, Line(f, k, S), NEW i \in 0..(k - 1),
         NEW T \in SUBSET S, f[i] \in T, Closed(S, T)
  PROVE  T = S
<1>1. k \in Nat \ {0} /\ \A j \in 0..(k - 1) : j \in Nat /\ f[j] \in S
  BY DEF Line
<1>2. ASSUME NEW j \in 0..(k - 1), NEW l \in 0..(k - 1), j = l + 1 \/ l = j + 1, f[j] \in T
      PROVE  f[l] \in T
  BY <1>1, <1>2 DEF Closed, Line
<1>3. ASSUME NEW j \in 0..(k - 1), i < j PROVE f[j] \in T
  <2> DEFINE missed == {x \in Nat : i + x \in 0..(k - 1) /\ f[i + x] \notin T}
  <2> SUFFICES ASSUME f[j] \notin T PROVE FALSE
    OBVIOUS
  <2>1. j - i \in Nat /\ i + (j - i) = j
    BY <1>1, <1>3
  <2>2. missed # {} /\ missed \subseteq Nat
    <3>1. j - i \in missed
      BY <2>1
    <3> QED
      BY <3>1
  <2>3. PICK x \in missed : \A y \in missed : x <= y
    <3> HIDE DEF missed
    <3> QED
      BY <2>2, LeastElement
  <2>4. x # 0
    BY <1>1
  <2>5. x - 1 \in Nat /\ i + (x - 1) \in 0..(k - 1) /\ x - 1 \notin missed
        /\ i + x = (i + (x - 1)) + 1
    BY <1>1, <2>3, <2>4
  <2>6. f[i + (x - 1)] \in T
    BY <2>5
  <2> QED
    BY <1>2, <2>5, <2>6
<1>4. ASSUME NEW j \in 0..(k - 1), j < i PROVE f[j] \in T
  <2> DEFINE missed == {x \in Nat : i - x \in 0..(k - 1) /\ f[i - x] \notin T}
  <2> SUFFICES ASSUME f[j] \notin T PROVE FALSE
    OBVIOUS
  <2>1. i - j \in Nat /\ i - (i - j) = j
    BY <1>1, <1>4
  <2>2. missed # {} /\ missed \subseteq Nat
    <3>1. i - j \in missed
      BY <2>1
    <3> QED
      BY <3>1
  <2>3. PICK x \in missed : \A y \in missed : x <= y
    <3> HIDE DEF missed
    <3> QED
      BY <2>2, LeastElement
  <2>4. x # 0
    BY <1>1
  <2>5. x - 1 \in Nat /\ i - (x - 1) \in 0..(k - 1) /\ x - 1 \notin missed
        /\ i - (x - 1) = (i - x) + 1
    BY <1>1, <2>3, <2>4
  <2>6. f[i - (x - 1)] \in T
    BY <2>5
  <2> QED
    BY <1>2, <2>5, <2>6
<1>5. \A j \in 0..(k - 1) : j = i \/ i < j \/ j < i
  BY <1>1
<1> QED
  BY <1>3, <1>4, <1>5 DEF Line

(* A line is a tree: one component, and one link fewer than nodes.         *)
LEMMA LineIsTree ==
  ASSUME NEW f, NEW k, NEW S, Line(f, k, S)
  PROVE  IsFiniteSet(S) /\ Cardinality(S) = k /\ IsConnected(S) /\ IsAcyclic(S)
<1>1. k \in Nat \ {0} /\ S \subseteq Nodes
  BY DEF Line
<1>2. IsFiniteSet(S) /\ Cardinality(S) = k
  <2> DEFINE I == 0..(k - 1)
  <2>1. IsFiniteSet(I) /\ Cardinality(I) = k
    <3>1. 0 \in Int /\ k - 1 \in Int /\ ~(0 > k - 1) /\ k - 1 - 0 + 1 = k
      BY <1>1
    <3> QED
      BY <3>1, FS_Interval
  <2>2. f \in Bijection(I, S)
    <3>1. f \in [I -> S] /\ \A n \in S : \E i \in I : f[i] = n
      BY DEF Line
    <3>2. \A i, j \in I : f[i] = f[j] => i = j
      BY LineOnce
    <3> HIDE DEF I
    <3> QED
      BY <3>1, <3>2 DEF Bijection, Injection, Surjection, IsInjective
  <2> HIDE DEF I
  <2> QED
    BY <2>1, <2>2, FS_Bijection DEF ExistsBijection
<1>3. Components(S) = {S}
  <2>1. ASSUME NEW n \in S PROVE Component(S, n) = S
    <3>1. PICK i \in 0..(k - 1) : n = f[i]
      BY DEF Line
    <3>2. \A T \in SUBSET S : n \in T /\ Closed(S, T) => T = S
      BY <3>1, LineIsReached
    <3> QED
      BY <3>2 DEF Component
  <2>2. f[0] \in S
    <3>1. 0 \in 0..(k - 1)
      BY <1>1
    <3> QED
      BY <3>1 DEF Line
  <2> QED
    BY <2>1, <2>2 DEF Components
<1>4. Cardinality(Components(S)) = 1
  BY <1>3, FS_Singleton
<1>5. Cardinality(InducedEdges(S)) = k - 1
  <2> DEFINE J == 1..(k - 1)
             link == [j \in J |-> <<f[j - 1], f[j]>>]
  <2>1. IsFiniteSet(J) /\ Cardinality(J) = k - 1
    <3>1. 1 \in Int /\ k - 1 \in Int /\ (1 > k - 1 => 0 = k - 1) /\ k - 1 - 1 + 1 = k - 1
      BY <1>1
    <3>2. IsFiniteSet(J) /\ Cardinality(J) = IF 1 > k - 1 THEN 0 ELSE k - 1 - 1 + 1
      BY <3>1, FS_Interval
    <3> QED
      BY <3>1, <3>2
  <2>2. \A j \in J : j - 1 \in 0..(k - 1) /\ j \in 0..(k - 1) /\ j = (j - 1) + 1 /\ j - 1 < j
    BY <1>1
  <2>3. ASSUME NEW j \in J PROVE link[j] \in InducedEdges(S)
    BY <2>2 DEF Line, InducedEdges
  <2>4. ASSUME NEW e \in InducedEdges(S) PROVE \E j \in J : link[j] = e
    <3>1. e \in S \X S /\ e[1] < e[2] /\ e[2] \in Neighbours(e[1])
      BY DEF InducedEdges
    <3>2. PICK i \in 0..(k - 1), j \in 0..(k - 1) : e[1] = f[i] /\ e[2] = f[j] /\ e = <<f[i], f[j]>>
      BY <3>1 DEF Line
    <3>3. j = i + 1 \/ i = j + 1
      BY <3>1, <3>2 DEF Line
    <3>4. i < j
      BY <3>1, <3>2, LineOnce
    <3>5. j \in J /\ j - 1 = i
      BY <1>1, <3>3, <3>4
    <3> QED
      BY <3>2, <3>5
  <2>5. \A x, y \in J : link[x] = link[y] => x = y
    <3> SUFFICES ASSUME NEW x \in J, NEW y \in J, link[x] = link[y] PROVE x = y
      OBVIOUS
    <3>1. f[x] = f[y]
      OBVIOUS
    <3> QED
      BY <2>2, <3>1, LineOnce
  <2>6. link \in Bijection(J, InducedEdges(S))
    <3>1. link \in [J -> InducedEdges(S)]
      BY <2>3
    <3> QED
      BY <2>4, <2>5, <3>1 DEF Bijection, Injection, Surjection, IsInjective
  <2> HIDE DEF J, link
  <2> QED
    BY <2>1, <2>6, FS_Bijection DEF ExistsBijection
<1> QED
  BY <1>1, <1>2, <1>4, <1>5 DEF IsConnected, IsAcyclic

------------------------------------------------------------------------------
(* The generated example. *)

(* A row of the mesh is a line.                                            *)
LEMMA RowIsLine ==
  ASSUME NEW n \in Nodes
  PROVE  Line([c \in 0..(MeshCols - 1) |-> At(RowOf(n), c)], MeshCols, RowGroup(n))
<1> DEFINE r == RowOf(n)
           f == [c \in 0..(MeshCols - 1) |-> At(r, c)]
<1>1. MeshCols \in Nat \ {0} /\ MeshRows \in Nat \ {0} /\ r \in 0..(MeshRows - 1)
  BY MeshAssumption, Coordinates
<1>2. \A c \in 0..(MeshCols - 1) :
        f[c] \in Nodes /\ RowOf(f[c]) = r /\ ColOf(f[c]) = c /\ f[c] = (r * MeshCols) + c
  BY <1>1, NodeAt DEF At
<1>3. ASSUME NEW m \in Nodes, RowOf(m) = r
      PROVE  ColOf(m) \in 0..(MeshCols - 1) /\ f[ColOf(m)] = m
  BY <1>3, Coordinates DEF At
<1>4. RowGroup(n) = {f[c] : c \in 0..(MeshCols - 1)}
  <2> HIDE DEF f
  <2> QED
    BY <1>2, <1>3 DEF RowGroup
<1>5. \A i, j \in 0..(MeshCols - 1) : i < j => f[i] < f[j]
  <2>1. r * MeshCols \in Nat
    BY <1>1
  <2> HIDE DEF f, r
  <2> QED
    BY <1>1, <1>2, <2>1
<1>6. ASSUME NEW i \in 0..(MeshCols - 1), NEW j \in 0..(MeshCols - 1)
      PROVE  f[j] \in Neighbours(f[i]) <=> j = i + 1 \/ i = j + 1
  <2>1. /\ f[i] \in Nodes /\ RowOf(f[i]) = r /\ ColOf(f[i]) = i
        /\ f[j] \in Nodes /\ RowOf(f[j]) = r /\ ColOf(f[j]) = j
    BY <1>2
  <2>2. r # r + 1
    BY <1>1
  <2> HIDE DEF f, r
  <2> QED
    BY <2>1, <2>2, LinksByCoordinates
<1>7. f \in [0..(MeshCols - 1) -> Nodes]
  BY <1>2
<1> HIDE DEF f
<1>8. Line(f, MeshCols, RowGroup(n))
  BY <1>1, <1>4, <1>5, <1>6, <1>7 DEF Line
<1> QED
  BY <1>8 DEF f

(* A column of the first rows is a line.                                   *)
LEMMA ColIsLine ==
  ASSUME NEW n \in Nodes, NEW t \in 1..MeshRows
  PROVE  Line([r \in 0..(t - 1) |-> At(r, ColOf(n))], t, ColGroup(n, t))
<1> DEFINE c == ColOf(n)
           f == [r \in 0..(t - 1) |-> At(r, c)]
<1>1. MeshCols \in Nat \ {0} /\ MeshRows \in Nat \ {0} /\ c \in 0..(MeshCols - 1) /\ t \in Nat \ {0}
  BY MeshAssumption, Coordinates
<1>2. \A r \in 0..(t - 1) :
        f[r] \in Nodes /\ RowOf(f[r]) = r /\ ColOf(f[r]) = c /\ f[r] = (r * MeshCols) + c
  <2>1. \A r \in 0..(t - 1) : r \in 0..(MeshRows - 1)
    BY <1>1
  <2> QED
    BY <1>1, <2>1, NodeAt DEF At
<1>3. ASSUME NEW m \in Nodes, ColOf(m) = c, RowOf(m) < t
      PROVE  RowOf(m) \in 0..(t - 1) /\ f[RowOf(m)] = m
  <2>1. RowOf(m) \in 0..(MeshRows - 1) /\ m = (RowOf(m) * MeshCols) + ColOf(m)
    BY Coordinates
  <2>2. RowOf(m) \in 0..(t - 1)
    BY <1>1, <1>3, <2>1
  <2> QED
    BY <1>3, <2>1, <2>2 DEF At
<1>4. ColGroup(n, t) = {f[r] : r \in 0..(t - 1)}
  <2>1. \A r \in 0..(t - 1) : r < t
    BY <1>1
  <2> HIDE DEF f
  <2> QED
    BY <1>2, <1>3, <2>1 DEF ColGroup
<1>5. ASSUME NEW i \in 0..(t - 1), NEW j \in 0..(t - 1), i < j
      PROVE  f[i] < f[j]
  <2>1. i \in Nat /\ j \in Nat /\ i * MeshCols \in Nat /\ j * MeshCols \in Nat
    BY <1>1
  <2>2. i * MeshCols + MeshCols <= j * MeshCols
    BY <1>1, <1>5, <2>1, StrideApart
  <2>3. f[i] = (i * MeshCols) + c /\ f[j] = (j * MeshCols) + c
    BY <1>2
  <2> HIDE DEF f, c
  <2> QED
    BY <1>1, <2>1, <2>2, <2>3
<1>6. ASSUME NEW i \in 0..(t - 1), NEW j \in 0..(t - 1)
      PROVE  f[j] \in Neighbours(f[i]) <=> j = i + 1 \/ i = j + 1
  <2>1. /\ f[i] \in Nodes /\ ColOf(f[i]) = c /\ RowOf(f[i]) = i
        /\ f[j] \in Nodes /\ ColOf(f[j]) = c /\ RowOf(f[j]) = j
    BY <1>2
  <2>2. c # c + 1
    BY <1>1
  <2> HIDE DEF f, c
  <2> QED
    BY <2>1, <2>2, LinksByCoordinates
<1>7. f \in [0..(t - 1) -> Nodes]
  BY <1>2
<1> HIDE DEF f
<1>8. Line(f, t, ColGroup(n, t))
  BY <1>1, <1>4, <1>5, <1>6, <1>7 DEF Line
<1> QED
  BY <1>8 DEF f

\* How many cells a group of a phase has.
Width(phase, t) == IF phase = "row" THEN MeshCols ELSE t

(* The groups of the two phases are trees of one size around each cell.    *)
LEMMA ExampleGroups ==
  ASSUME NEW phase \in Phases, NEW t \in 1..MeshRows, NEW n \in Nodes
  PROVE  LET G == ExampleGroup(phase, t, n)
         IN /\ G = {} <=> RowOf(n) >= t
            /\ G \in SUBSET Nodes
            /\ RowOf(n) < t =>
                 /\ n \in G /\ IsFiniteSet(G) /\ Cardinality(G) = Width(phase, t)
                 /\ PathErrors(G, n) = {}
            /\ \A m \in Nodes : m \in G <=> n \in ExampleGroup(phase, t, m)
<1> DEFINE G == ExampleGroup(phase, t, n)
<1>1. \A m \in Nodes : RowOf(m) \in Nat /\ t \in Nat
  BY MeshAssumption, Coordinates
<1>2. CASE RowOf(n) >= t
  <2>1. G = {}
    BY <1>2 DEF ExampleGroup
  <2>2. ASSUME NEW m \in Nodes PROVE n \notin ExampleGroup(phase, t, m)
    <3>1. CASE phase = "row"
      BY <1>2, <3>1 DEF ExampleGroup, RowGroup
    <3>2. CASE phase # "row"
      BY <1>1, <1>2, <3>2 DEF ExampleGroup, ColGroup
    <3> QED
      BY <3>1, <3>2
  <2> QED
    BY <1>1, <1>2, <2>1, <2>2
<1>3. CASE ~(RowOf(n) >= t)
  <2>0. RowOf(n) < t
    BY <1>1, <1>3
  <2>1. n \in G /\ G \in SUBSET Nodes
    BY <1>3, <2>0 DEF ExampleGroup, RowGroup, ColGroup
  <2>2. IsFiniteSet(G) /\ Cardinality(G) = Width(phase, t) /\ IsConnected(G) /\ IsAcyclic(G)
    <3>1. CASE phase = "row"
      <4>1. G = RowGroup(n) /\ Width(phase, t) = MeshCols
        BY <1>3, <3>1 DEF ExampleGroup, Width
      <4> HIDE DEF G
      <4> QED
        BY <4>1, RowIsLine, LineIsTree
    <3>2. CASE phase # "row"
      <4>1. G = ColGroup(n, t) /\ Width(phase, t) = t
        BY <1>3, <3>2 DEF ExampleGroup, Width
      <4>2. Line([r \in 0..(t - 1) |-> At(r, ColOf(n))], t, ColGroup(n, t))
        BY ColIsLine
      <4> HIDE DEF G
      <4> QED
        BY <4>1, <4>2, LineIsTree
    <3> QED
      BY <3>1, <3>2
  <2>3. PathErrors(G, n) = {}
    BY <2>1, <2>2 DEF PathErrors
  <2>4. ASSUME NEW m \in Nodes PROVE m \in G <=> n \in ExampleGroup(phase, t, m)
    <3>1. CASE phase = "row"
      BY <1>1, <1>3, <2>0, <3>1 DEF ExampleGroup, RowGroup
    <3>2. CASE phase # "row"
      BY <1>1, <1>3, <2>0, <3>2 DEF ExampleGroup, ColGroup
    <3> QED
      BY <3>1, <3>2
  <2>5. G # {}
    BY <2>1
  <2> HIDE DEF G
  <2> QED
    BY <1>3, <2>1, <2>2, <2>3, <2>4, <2>5 DEF G
<1> QED
  BY <1>2, <1>3

\* A definition at the start of its validation.
Fresh == DefinitionOK /\ groups # Everyone

(* The generated row of a source passes when its group is a tree.          *)
LEMMA GeneratedRowPasses ==
  ASSUME Fresh, NEW n \in Nodes, PathErrors(groups[n], n) = {}
  PROVE  RowErrors(n, RowFor(n)) = {}
<1>1. "V-PSELF" \notin PathErrors(groups[n], n)
  OBVIOUS
<1>2. n \in groups[n]
  BY <1>1 DEF PathErrors
<1>3. HasGroup(n) /\ GroupOf(n) = groups[n] /\ groups[n] # {}
  BY <1>2 DEF Fresh, HasGroup, GroupOf
<1>4. RowFor(n) = GroupAllGather(groups[n], n)
  BY <1>3 DEF RowFor
<1> DEFINE row == GroupAllGather(groups[n], n)
<1>5. row.pass = groups[n] /\ row.land = Expected(groups[n], n, selfDelivery)
  BY DEF GroupAllGather, Expected
<1>6. IllegalNodes(row.pass, row.land) = {}
  BY <1>5 DEF IllegalNodes, Expected
<1>7. (n \in row.land) = selfDelivery
  BY <1>2, <1>5 DEF Expected, Fresh, DefinitionOK
<1> HIDE DEF row
<1>8. LandErrors(row.land, n, Expected(groups[n], n, selfDelivery), Cardinality(row.land),
                 selfDelivery) = {}
  BY <1>5, <1>7 DEF LandErrors
<1>9. RowErrors(n, row) = {}
  BY <1>3, <1>5, <1>6, <1>8 DEF RowErrors
<1> QED
  BY <1>4, <1>9 DEF row

(* What the generated rows of a definition land on a member is the payload *)
(* of each other member of its group.                                      *)
LEMMA GeneratedBytes ==
  ASSUME Fresh, ~selfDelivery, NEW d \in members
  PROVE  Payload * Cardinality({s \in Nodes : d \in RowFor(s).land}) = ExampleExp(groups[d])
<1>1. Grouped
  <2>1. members # {} /\ groups \in [Nodes -> SUBSET members] /\ members \subseteq Nodes
        /\ \A n \in members : n \in groups[n]
    BY DEF Fresh, DefinitionOK, Roles
  <2> QED
    BY <2>1 DEF Grouped, Senders, HasGroup, Fresh
<1>2. /\ members \subseteq Nodes /\ d \in Nodes
      /\ \A n \in members :
           /\ groups[n] \subseteq members /\ n \in groups[n]
           /\ \A s \in groups[n] : groups[s] = groups[n]
      /\ \A n \in Nodes \ members : groups[n] = {}
  <2>1. \A n \in Nodes \ members : groups[n] = {}
    BY DEF Fresh, DefinitionOK, Roles
  <2> QED
    BY <1>1, <2>1, GroupsAreClasses DEF Fresh, GroupOf
<1>3. \A s \in Nodes : RowFor(s).land = groups[s] \ {s}
  <2> SUFFICES ASSUME NEW s \in Nodes PROVE RowFor(s).land = groups[s] \ {s}
    OBVIOUS
  <2>1. CASE groups[s] = {}
    BY <2>1 DEF RowFor
  <2>2. CASE groups[s] # {}
    BY <2>2 DEF RowFor, GroupAllGather
  <2> QED
    BY <2>1, <2>2
<1>4. {s \in Nodes : d \in RowFor(s).land} = groups[d] \ {d}
  <2>1. ASSUME NEW s \in Nodes PROVE d \in groups[s] \ {s} <=> s \in groups[d] \ {d}
    <3>1. CASE s \in members
      BY <1>2, <3>1
    <3>2. CASE s \notin members
      BY <1>2, <3>2
    <3> QED
      BY <3>1, <3>2
  <2>2. groups[d] \subseteq Nodes
    BY <1>2
  <2> QED
    BY <1>3, <2>1, <2>2
<1>5. Cardinality(groups[d] \ {d}) = Cardinality(groups[d]) - 1
  <2>1. groups[d] \in SUBSET Nodes /\ d \in groups[d]
    BY <1>2
  <2>2. IsFiniteSet(groups[d])
    <3> HIDE DEF Nodes
    <3> QED
      BY <2>1, NodesAreCounted, FS_Subset
  <2> QED
    BY <2>1, <2>2, FS_RemoveElement
<1> QED
  BY <1>4, <1>5 DEF ExampleExp

(* The table of a phase of the example: its groups are trees, every cell's *)
(* entry states the bytes that are sent to it, and one arena does for all. *)
LEMMA ExampleValidates ==
  ASSUME Fresh, geometry # NoGeometry, NEW phase \in Phases, NEW t \in 1..MeshRows
  PROVE  /\ \A n \in Example(phase, t).members : PathErrors(Example(phase, t).groups[n], n) = {}
         /\ \A d \in Nodes :
              Payload * Cardinality({s \in Nodes : d \in Example(phase, t).rows[s].land})
                = Example(phase, t).exp[d]
         /\ ValidFill(ExampleArena(phase, t))
         /\ ExampleArena(phase, t).rowStride = Example(phase, t).geometry.stride
<1> DEFINE e == Example(phase, t)
           g(n) == ExampleGroup(phase, t, n)
<1>1. /\ \A n \in Nodes : g(n) = {} <=> RowOf(n) >= t
      /\ \A n \in Nodes : g(n) \in SUBSET Nodes
      /\ \A n \in Nodes : RowOf(n) < t =>
           /\ n \in g(n) /\ IsFiniteSet(g(n)) /\ Cardinality(g(n)) = Width(phase, t)
           /\ PathErrors(g(n), n) = {}
      /\ \A n, m \in Nodes : m \in g(n) <=> n \in g(m)
  BY ExampleGroups
<1>2. /\ e.members = {n \in Nodes : RowOf(n) < t}
      /\ \A n \in Nodes : e.groups[n] = g(n)
      /\ e.geometry = ExampleGeometry(g(0))
      /\ \A n \in Nodes : e.rows[n].land = g(n) \ {n}
      /\ \A n \in Nodes : e.exp[n] = IF g(n) = {} THEN 0 ELSE ExampleExp(g(0))
  BY DEF Example
<1>3. 0 \in Nodes /\ RowOf(0) < t /\ Nodes \subseteq Nat
  <2>1. 0 \in Nodes /\ Nodes \subseteq Nat
    BY NodesAreCounted
  <2>2. MeshCols \in Nat \ {0} /\ 0 \in 0..(MeshCols - 1) /\ 0 = (0 * MeshCols) + 0
    BY MeshAssumption
  <2>3. 0 = RowOf(0)
    BY <2>1, <2>2, Coordinates
  <2>4. 0 < t
    BY MeshAssumption
  <2> QED
    BY <2>1, <2>3, <2>4
<1> HIDE DEF e, g
<1>4. g(0) \in SUBSET Nat /\ IsFiniteSet(g(0)) /\ Cardinality(g(0)) \in Nat \ {0}
  <2>1. 0 \in g(0) /\ IsFiniteSet(g(0)) /\ g(0) \in SUBSET Nodes
    BY <1>1, <1>3
  <2>2. Cardinality(g(0)) \in Nat /\ (Cardinality(g(0)) = 0 <=> g(0) = {})
    BY <2>1, FS_CardinalityType, FS_EmptySet
  <2> QED
    BY <1>3, <2>1, <2>2
<1>5. Sizes /\ geometry \in Geometries
  BY GeometryNumbers DEF Fresh, DefinitionOK, Sizes
<1>6. ASSUME NEW d \in Nodes
      PROVE  Payload * Cardinality({s \in Nodes : d \in e.rows[s].land}) = e.exp[d]
  <2>1. {s \in Nodes : d \in e.rows[s].land} = g(d) \ {d}
    BY <1>1, <1>2
  <2>2. CASE g(d) = {}
    <3>1. Cardinality({}) = 0
      BY FS_EmptySet
    <3>2. Payload * 0 = 0
      BY <1>5 DEF Sizes, Payload
    <3>3. g(d) \ {d} = {}
      BY <2>2
    <3> QED
      BY <1>2, <2>1, <2>2, <3>1, <3>2, <3>3
  <2>3. CASE g(d) # {}
    <3>1. RowOf(d) < t
      <4>1. RowOf(d) \in 0..(MeshRows - 1) /\ MeshRows \in Nat
        BY MeshAssumption, Coordinates
      <4> QED
        BY <1>1, <2>3, <4>1
    <3>2. d \in g(d) /\ IsFiniteSet(g(d)) /\ Cardinality(g(d)) = Cardinality(g(0))
      BY <1>1, <1>3, <3>1
    <3>3. Cardinality(g(d) \ {d}) = Cardinality(g(0)) - 1
      BY <3>2, FS_RemoveElement
    <3> QED
      BY <1>2, <2>1, <2>3, <3>3 DEF ExampleExp
  <2> QED
    BY <2>2, <2>3
<1>7. ExampleArena(phase, t) = Packed(g(0))
  BY DEF ExampleArena, g
<1>8. ValidFill(Packed(g(0))) /\ Packed(g(0)).rowStride = Cardinality(g(0)) * geometry.rowBytes
  BY <1>4, <1>5, PackedTiles, PackedSegments
<1>9. e.geometry.stride = Cardinality(g(0)) * geometry.rowBytes
  BY <1>2, <1>5 DEF ExampleGeometry, Geometries
<1>10. \A n \in e.members : PathErrors(e.groups[n], n) = {}
  BY <1>1, <1>2
<1> QED
  BY <1>6, <1>7, <1>8, <1>9, <1>10 DEF e

(* The worked example, on every mesh: what the code generates for a group  *)
(* passes the checks of its key, both phases of the example validate, and  *)
(* their declared bytes and arenas are those of their rows.                *)
THEOREM GeneratedTablesPass == Spec => []GeneratedAccepted
<1>1. ASSUME Fresh PROVE GeneratedAccepted
  <2>1. ASSUME ~selfDelivery, NEW phase \in Phases, NEW t \in 1..MeshRows,
               groups = Example(phase, t).groups, NEW n \in Nodes
        PROVE  RowFor(n) = Example(phase, t).rows[n]
    <3>1. /\ groups[n] = ExampleGroup(phase, t, n)
          /\ Example(phase, t).rows[n] =
               IF ExampleGroup(phase, t, n) = {} THEN [pass |-> {}, land |-> {}]
               ELSE [pass |-> ExampleGroup(phase, t, n), land |-> ExampleGroup(phase, t, n) \ {n}]
      BY <2>1 DEF Example
    <3> QED
      BY <2>1, <3>1 DEF RowFor, GroupAllGather
  <2> QED
    BY <1>1, <2>1, GeneratedRowPasses, GeneratedBytes, ExampleValidates DEF GeneratedAccepted
<1>2. CheckedInv => GeneratedAccepted
  <2> SUFFICES ASSUME CheckedInv, groups # Everyone PROVE GeneratedAccepted
    BY DEF GeneratedAccepted
  <2> QED
    BY <1>1 DEF Fresh, CheckedInv
<1> QED
  BY <1>2, CheckedInvariant, PTL
==============================================================================
