--------------------------------- MODULE Mesh ---------------------------------
(***************************************************************************)
(* The rectangular mesh of topology.py, the {P, L} bitmaps over it         *)
(* (calendar/route_bits.py) as a set of pass nodes and a set of land       *)
(* nodes, and the structural checks of one source's bitmap                 *)
(* (calendar/validate.py).                                                 *)
(***************************************************************************)
EXTENDS Integers, Sequences, FiniteSets

CONSTANTS MeshRows, MeshCols
ASSUME MeshAssumption == MeshRows \in Nat \ {0} /\ MeshCols \in Nat \ {0}

Nodes == 0..(MeshRows * MeshCols - 1)
RowOf(n) == n \div MeshCols
ColOf(n) == n % MeshCols

\* The ports of a node, north, west, east and south: ascending node ids. A
\* port leads to one neighbour, or to none at the border.
North(n) == IF RowOf(n) > 0 THEN {n - MeshCols} ELSE {}
West(n) == IF ColOf(n) > 0 THEN {n - 1} ELSE {}
East(n) == IF ColOf(n) + 1 < MeshCols THEN {n + 1} ELSE {}
South(n) == IF RowOf(n) + 1 < MeshRows THEN {n + MeshCols} ELSE {}

Neighbours(n) == North(n) \cup West(n) \cup East(n) \cup South(n)

\* The links with both ends in S: rule 2 uses every one of them.
InducedEdges(S) == {e \in S \X S : e[1] < e[2] /\ e[2] \in Neighbours(e[1])}

------------------------------------------------------------------------------
(* check_induced_tree. Its searches compute the connected components of    *)
(* the induced subgraph: the least closed set around a node.               *)

Closed(S, T) == \A a \in T : Neighbours(a) \cap S \subseteq T
Component(S, n) == {m \in S : \A T \in SUBSET S : n \in T /\ Closed(S, T) => m \in T}
Components(S) == {Component(S, n) : n \in S}

IsConnected(S) == Cardinality(Components(S)) = 1

\* Mutant of IsAcyclic: one link too many is accepted.
IsAcyclicOffByOne(S) ==
  Cardinality(InducedEdges(S)) <= Cardinality(S) - Cardinality(Components(S)) + 1
IsAcyclic(S) == Cardinality(InducedEdges(S)) = Cardinality(S) - Cardinality(Components(S))

------------------------------------------------------------------------------
(* validate_route_bits for a source, the destinations its group expects,   *)
(* the declared land count and the fabric's self-delivery.                 *)

IllegalNodes(P, L) == L \ P

PathErrors(P, source) ==
  {code \in {"V-PSELF", "V-TREE-CONNECTED", "V-TREE-ACYCLIC"} :
     \/ code = "V-PSELF" /\ source \notin P
     \/ code = "V-TREE-CONNECTED" /\ ~IsConnected(P)
     \/ code = "V-TREE-ACYCLIC" /\ ~IsAcyclic(P)}

\* Mutant of LandErrors: only a missing destination is an error.
LandErrorsMissing(L, source, expected, declared, selfDelivery) ==
  {code \in {"V-LAND", "V-SELFLAND"} :
     \/ code = "V-LAND" /\ expected \ L # {}
     \/ code = "V-SELFLAND" /\ (source \in L) # selfDelivery}

LandErrors(L, source, expected, declared, selfDelivery) ==
  {code \in {"V-LAND", "V-LANDCOUNT", "V-SELFLAND"} :
     \/ code = "V-LAND" /\ L # expected
     \/ code = "V-LANDCOUNT" /\ declared # Cardinality(L)
     \/ code = "V-SELFLAND" /\ (source \in L) # selfDelivery}

\* What the table asks of a member's row: it lands on its group, and on the
\* source itself exactly when the fabric delivers to it.
Expected(group, source, selfDelivery) == group \ (IF selfDelivery THEN {} ELSE {source})

Accepted(P, L, source, group, selfDelivery) ==
  /\ IllegalNodes(P, L) = {}
  /\ LandErrors(L, source, Expected(group, source, selfDelivery), Cardinality(L), selfDelivery) = {}
  /\ PathErrors(P, source) = {}
==============================================================================
