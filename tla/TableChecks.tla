------------------------------ MODULE TableChecks ------------------------------
(***************************************************************************)
(* The validation of one key definition (CalendarRouteTable.validate), its *)
(* rows taken source by source, and what the definition is then used for:  *)
(* the expVal of every member's receive command (run_allgather), the       *)
(* copies the members' sends commit, where they land in the receive arena  *)
(* (calendar/geometry.py), and the rows the worked example generates for a *)
(* group (fixtures.py).                                                    *)
(*                                                                         *)
(* The report of the code collects every error; here checking stops after  *)
(* the first source with one, for only an empty report accepts the table.  *)
(***************************************************************************)
EXTENDS Mesh, SequencesExt

CONSTANTS
  RowCounts, RowBytes, RowStrides, \* rowCount, rowBytes and recvRowStride
  NoGeometry,    \* the definition records none
  Everyone       \* no groups are recorded: the member nodes are the group

\* PayloadGeometry refuses a stride below the row. Its recvRowCount is its
\* rowCount.
Geometries ==
  {g \in [rowCount : RowCounts, rowBytes : RowBytes, stride : RowStrides] :
     g.rowBytes <= g.stride}

ASSUME GeometryAssumption ==
  /\ RowCounts \subseteq Nat \ {0} /\ RowBytes \subseteq Nat \ {0} /\ RowStrides \subseteq Nat
  /\ NoGeometry \notin Geometries

VARIABLES
  members,       \* member_nodes; {} when the definition does not say
  groups,        \* source -> its group, {} for none; or Everyone
  selfDelivery,
  geometry,      \* one of Geometries, or NoGeometry
  rows,          \* the rows checked so far: <<[pass, land]>>, source 0 first
  declared,      \* expectedRxBytes per destination, once the rows are known
  errors,        \* the codes of the report
  stage          \* "rows", "conservation", "accepted"

shape == <<members, groups, selfDelivery, geometry>>
vars == <<shape, rows, declared, errors, stage>>

NodeTotal == MeshRows * MeshCols

------------------------------------------------------------------------------
(* The definition. *)

\* The groups of a partition of the member nodes, as the compiler resolves a
\* role per core: a non-member has none.
Roles(M) ==
  {g \in [Nodes -> SUBSET M] :
     /\ \A n \in Nodes : IF n \in M THEN n \in g[n] ELSE g[n] = {}
     /\ \A a, b \in M : g[a] = g[b] \/ g[a] \cap g[b] = {}}

HasGroup(n) == IF groups = Everyone THEN members # {} ELSE groups[n] # {}
GroupOf(n) == IF groups = Everyone THEN members ELSE groups[n]

IsNonMember(n) == members # {} /\ n \notin members

Row(n) == rows[n + 1]

LandCount(d) == Cardinality({n \in Nodes : d \in Row(n).land})

Payload == geometry.rowCount * geometry.rowBytes
ExpVal(d) == Payload * LandCount(d)

------------------------------------------------------------------------------
(* validate. *)

\* The errors of one source's row. A non-member's row is not looked at, and a
\* source without a group has no destination set to compare with.
RowErrors(n, row) ==
  IF IsNonMember(n) THEN {}
  ELSE IF IllegalNodes(row.pass, row.land) # {} THEN {"V-PAIR"}
  ELSE PathErrors(row.pass, n) \cup
       LandErrors(row.land, n,
                  IF HasGroup(n) THEN Expected(GroupOf(n), n, selfDelivery) ELSE row.land,
                  Cardinality(row.land), selfDelivery)

Init == /\ members \in SUBSET Nodes
        /\ groups \in Roles(members) \cup {Everyone}
        /\ selfDelivery \in BOOLEAN
        /\ geometry \in Geometries \cup {NoGeometry}
        /\ rows = <<>>
        /\ declared = [n \in Nodes |-> 0]
        /\ errors = {}
        /\ stage = "rows"

\* A row of the table is any bitmap: a loaded one may hold the pair 01. Of a row
\* nobody looks at, the landings are all that counts: its pass nodes are those.
CheckRow ==
  /\ stage = "rows" /\ errors = {} /\ Len(rows) < NodeTotal
  /\ \E L \in SUBSET Nodes :
     \E P \in IF IsNonMember(Len(rows)) THEN {L} ELSE SUBSET Nodes :
       LET row == [pass |-> P, land |-> L]
       IN /\ rows' = Append(rows, row)
          /\ errors' = RowErrors(Len(rows), row)
  /\ UNCHANGED <<shape, declared, stage>>

\* The entries' expectedRxBytes: the land set's figure, or one that misses one
\* destination's by a payload.
Declare ==
  /\ stage = "rows" /\ errors = {} /\ Len(rows) = NodeTotal
  /\ \/ declared' = [d \in Nodes |-> IF geometry = NoGeometry THEN 0 ELSE ExpVal(d)]
     \/ /\ geometry # NoGeometry
        /\ \E wrong \in Nodes :
             declared' = [d \in Nodes |-> ExpVal(d) + IF d = wrong THEN Payload ELSE 0]
  /\ stage' = "conservation"
  /\ UNCHANGED <<shape, rows, errors>>

ConservationErrors ==
  IF geometry # NoGeometry /\ \E d \in Nodes : ExpVal(d) # declared[d]
  THEN {"V-CONSERVE"} ELSE {}

Conserve ==
  /\ stage = "conservation" /\ errors = {}
  /\ errors' = ConservationErrors
  /\ stage' = IF errors' = {} THEN "accepted" ELSE stage
  /\ UNCHANGED <<shape, rows, declared>>

Next == CheckRow \/ Declare \/ Conserve

Spec == Init /\ [][Next]_vars

------------------------------------------------------------------------------
(* The accepted definition in use. *)

Accept == stage = "accepted"
Senders == IF members = {} THEN Nodes ELSE members

\* The bytes d's ledger counts when every member sends once: the copies of the
\* other sources that land on it.
Counted(d) == Payload * Cardinality({s \in Senders \ {d} : d \in Row(s).land})

Silent == \A n \in Nodes : IsNonMember(n) => Row(n).land = {}

Grouped == \A n \in Senders : HasGroup(n)

------------------------------------------------------------------------------
(* The receive arena of a member. Every member uses the same offsets.      *)

\* The rank of a member is its place in the group's tuple, which ascends.
Rank(n, group) == Cardinality({m \in group : m < n})
Ascending(group) == [i \in 1..Cardinality(group) |-> CHOOSE n \in group : Rank(n, group) = i - 1]

SelfOff(n) == geometry.rowBytes * Rank(n, GroupOf(n))
Capacity == geometry.rowCount * geometry.stride
Address(n, row) == row * geometry.stride + SelfOff(n)

\* The source rows of d's group, its own included: that one is a local copy.
Sources(d) == GroupOf(d) \X (0..(geometry.rowCount - 1))

\* Mutant of Fits: only the start of the row is looked at.
FitsStart(address) == address < Capacity
Fits(address) == address + geometry.rowBytes <= Capacity

\* The receive command of d, which counts the rows that fit, is complete.
Complete(d) ==
  geometry.rowBytes * Cardinality({copy \in Sources(d) : copy[1] # d /\ Fits(Address(copy[1], copy[2]))})
    = ExpVal(d)

\* SymmetricArena.packed: the segments follow each other in the order of the
\* ranks. The base is 0, and the padding of a row, which only 0 passes, left out.
Packed(group) ==
  LET ranks == Ascending(group)
  IN [rowCount |-> geometry.rowCount,
      rowStride |-> Len(ranks) * geometry.rowBytes,
      segments |-> [i \in DOMAIN ranks |->
        [rank |-> ranks[i], offset |-> (i - 1) * geometry.rowBytes,
         nbytes |-> geometry.rowBytes]]]

\* Invariant A3: the segments, sorted by their offset, tile the row.
ValidFill(arena) ==
  \E order \in Bijection(DOMAIN arena.segments, DOMAIN arena.segments) :
    LET at(i) == arena.segments[order[i]]
        cursor(i) == IF i = 0 THEN 0 ELSE at(i).offset + at(i).nbytes
    IN /\ \A i \in DOMAIN arena.segments : at(i).offset = cursor(i - 1)
       /\ cursor(Len(arena.segments)) = arena.rowStride

SegmentOf(arena, rank) ==
  arena.segments[CHOOSE i \in DOMAIN arena.segments : arena.segments[i].rank = rank]

DstAddress(arena, rank, row) == row * arena.rowStride + SegmentOf(arena, rank).offset

\* check_conservation, over the ranks of an arena.
ArenaConserves(arena) ==
  \A i \in DOMAIN arena.segments :
    LET d == arena.segments[i].rank
    IN ExpVal(d) <= arena.rowCount * arena.rowStride /\ ExpVal(d) = declared[d]

\* CallSiteImmediate: the constants of the key's one call site. Every member runs
\* with the figures of the lowest.
Immediate ==
  LET member == IF members = {} THEN 0 ELSE Min(members)
  IN [expVal |-> ExpVal(member), capacity |-> Capacity, selfOffStride |-> geometry.rowBytes,
      nBurst |-> geometry.rowCount]

------------------------------------------------------------------------------
(* The generated example. *)

\* Mutant of GroupAllGather: the source lands on itself as on the others.
GroupAllGatherWhole(group, source) == [pass |-> group, land |-> group]

GroupAllGather(group, source) ==
  [pass |-> group, land |-> IF selfDelivery THEN group ELSE group \ {source}]

\* _rows_for: a node without a group has an all-zero row.
RowFor(n) == IF groups[n] = {} THEN [pass |-> {}, land |-> {}] ELSE GroupAllGather(groups[n], n)

\* The groups of the two phases: the rows of the mesh, and the columns of its
\* first rows.
RowGroup(n) == {m \in Nodes : RowOf(m) = RowOf(n)}
ColGroup(n, rowTotal) == {m \in Nodes : ColOf(m) = ColOf(n) /\ RowOf(m) < rowTotal}

\* The geometry and the expectedRxBytes the example gives the members of a group.
ExampleGeometry(group) == [geometry EXCEPT !.stride = Cardinality(group) * geometry.rowBytes]
ExampleExp(group) == Payload * (Cardinality(group) - 1)

\* ffn_example: the definition of a phase, whose cells are the first rows.
Phases == {"row", "column"}
ExampleGroup(phase, rowTotal, n) ==
  IF RowOf(n) >= rowTotal THEN {} ELSE IF phase = "row" THEN RowGroup(n) ELSE ColGroup(n, rowTotal)

Example(phase, rowTotal) ==
  LET group(n) == ExampleGroup(phase, rowTotal, n)
  IN [members |-> {n \in Nodes : RowOf(n) < rowTotal},
      groups |-> [n \in Nodes |-> group(n)],
      geometry |-> ExampleGeometry(group(0)),
      rows |-> [n \in Nodes |-> IF group(n) = {} THEN [pass |-> {}, land |-> {}]
                                 ELSE [pass |-> group(n), land |-> group(n) \ {n}]],
      exp |-> [n \in Nodes |-> IF group(n) = {} THEN 0 ELSE ExampleExp(group(0))]]

\* FFNExample.arena: the layout of the first group stands for all.
ExampleArena(phase, rowTotal) == Packed(ExampleGroup(phase, rowTotal, 0))

------------------------------------------------------------------------------
\* Every member hears from exactly the others of its own group; nobody lands on
\* a non-member.
HearsItsGroup ==
  \A d \in Nodes :
    {s \in Senders \ {d} : d \in Row(s).land} = {s \in Senders \ {d} : d \in GroupOf(s)}

\* What a member counts is the expVal of its receive command and of its entry,
\* and, with groups of one size, the one figure its call site is compiled with.
CountsItsExpVal ==
  \A d \in Senders :
    /\ Counted(d) = ExpVal(d) /\ ExpVal(d) = declared[d]
    /\ Grouped /\ (\A s \in Senders : Cardinality(GroupOf(s)) = Cardinality(GroupOf(d))) =>
         Counted(d) = Immediate.expVal

(* A table whose report is empty closes: no land set crosses the groups,   *)
(* where they are known, and when the fabric does not deliver to the       *)
(* source and the rows of non-members are silent, every member counts the  *)
(* bytes it waits for.                                                     *)
Closes ==
  Accept =>
    /\ Grouped => HearsItsGroup
    /\ geometry # NoGeometry /\ ~selfDelivery /\ Silent => CountsItsExpVal

(* When the receive commands of all members complete, the rows that landed *)
(* in a member's arena and its own local copy do not overlap and lie       *)
(* inside it. With the geometry the example gives a group they fill it, at *)
(* the addresses of the packed arena, which tiles its rows (A3) and whose  *)
(* conservation holds. Of the definition itself nothing compares the       *)
(* offsets, which come from the ranks, with the stride of the geometry.    *)
ArenaFilled ==
  Accept /\ geometry # NoGeometry /\ ~selfDelivery /\ Silent /\ Grouped
    /\ (\A d \in Senders : Complete(d)) =>
      \A d \in Senders :
        LET at(copy) == Address(copy[1], copy[2])
            bytes(copy) == at(copy)..(at(copy) + geometry.rowBytes - 1)
            arena == Packed(GroupOf(d))
        IN /\ \A a, b \in Sources(d) : a # b => bytes(a) \cap bytes(b) = {}
           /\ \A a \in Sources(d) : bytes(a) \subseteq 0..(Capacity - 1)
           /\ geometry = ExampleGeometry(GroupOf(d)) =>
                /\ 0..(Capacity - 1) = UNION {bytes(a) : a \in Sources(d)}
                /\ ValidFill(arena) /\ ArenaConserves(arena)
                /\ \A a \in Sources(d) : at(a) = DstAddress(arena, a[1], a[2])

(* The rows the example generates pass the checks of their key whatever    *)
(* the groups, as long as a group is a tree of the mesh; what a member     *)
(* hears from all the others of its group is what its entry says. Of both  *)
(* phases of the example this makes a table that validates: its groups are *)
(* trees, every cell has the expectedRxBytes and the arena of its phase.   *)
GeneratedAccepted ==
  rows = <<>> /\ groups # Everyone =>
    /\ \A n \in Nodes : PathErrors(groups[n], n) = {} => RowErrors(n, RowFor(n)) = {}
    /\ ~selfDelivery /\ geometry # NoGeometry =>
         /\ \A d \in members :
              Payload * Cardinality({s \in Nodes : d \in RowFor(s).land}) = ExampleExp(groups[d])
         /\ \A phase \in Phases, rowTotal \in 1..MeshRows :
              LET e == Example(phase, rowTotal)
                  arena == ExampleArena(phase, rowTotal)
              IN /\ \A n \in e.members : PathErrors(e.groups[n], n) = {}
                 /\ \A d \in Nodes :
                      Payload * Cardinality({s \in Nodes : d \in e.rows[s].land}) = e.exp[d]
                 /\ ValidFill(arena) /\ arena.rowStride = e.geometry.stride
                 /\ groups = e.groups => \A n \in Nodes : RowFor(n) = e.rows[n]
================================================================================
