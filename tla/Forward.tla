-------------------------------- MODULE Forward --------------------------------
(***************************************************************************)
(* simulate_multicast (noc/forward.py): the worklist walk that stands for  *)
(* the fabric when a send is modelled.  A node is expanded at most once    *)
(* and every repeated arrival is recorded, so the walk ends on any bitmap, *)
(* cyclic or not; Noc.send refuses a bitmap whose walk was not clean.      *)
(* The head of the stack is the next entry to pop.  One step is one        *)
(* iteration of the loop.                                                  *)
(***************************************************************************)
EXTENDS Mesh

NoPort == -1   \* ingress None

VARIABLES
  pass, land, source,   \* the bitmap and the source
  stack,                \* entries <<node, ingress>>
  expanded,             \* nodes expanded
  landings,             \* nodes that committed, in order
  revisits,             \* nodes reached again
  hops                  \* forwarding decisions: node and egress

bitmap == <<pass, land, source>>
vars == <<bitmap, stack, expanded, landings, revisits, hops>>

\* Mutant of Port: it also goes back where the flit came from.
PortBothWays(peers, n, ingress) ==
  IF \E m \in peers : m \in pass THEN <<<<CHOOSE m \in peers : m \in pass, n>>>> ELSE <<>>

\* The egress ports of an arrival, in ascending order of the neighbour.
Port(peers, n, ingress) ==
  IF \E m \in peers : m \in pass /\ m # ingress
  THEN <<<<CHOOSE m \in peers : m \in pass /\ m # ingress, n>>>>
  ELSE <<>>
Egress(n, ingress) == Port(North(n), n, ingress) \o Port(West(n), n, ingress)
                        \o Port(East(n), n, ingress) \o Port(South(n), n, ingress)

\* The walk raises unless the source is on its own path.
Init == /\ pass \in SUBSET Nodes /\ land \in SUBSET Nodes
        /\ source \in pass
        /\ stack = <<<<source, NoPort>>>>
        /\ expanded = {} /\ landings = <<>> /\ revisits = {} /\ hops = <<>>

Top == Head(stack)[1]
Ingress == Head(stack)[2]
Landing == IF Top \in land THEN Append(landings, Top) ELSE landings

\* Mutant of Expand: the other branches are forgotten.
ExpandForgets == /\ stack # <<>> /\ Top \notin expanded
                 /\ landings' = Landing
                 /\ expanded' = expanded \cup {Top}
                 /\ hops' = Append(hops, <<Top, Egress(Top, Ingress)>>)
                 /\ stack' = Egress(Top, Ingress)
                 /\ UNCHANGED <<bitmap, revisits>>

(* A node reached for the first time. *)
Expand == /\ stack # <<>> /\ Top \notin expanded
          /\ landings' = Landing
          /\ expanded' = expanded \cup {Top}
          /\ hops' = Append(hops, <<Top, Egress(Top, Ingress)>>)
          /\ stack' = Egress(Top, Ingress) \o Tail(stack)
          /\ UNCHANGED <<bitmap, revisits>>

\* Mutants of Revisit: a repeated arrival is expanded again; it is dropped
\* without a record.
RevisitExpands == /\ stack # <<>> /\ Top \in expanded
                  /\ stack' = Egress(Top, Ingress) \o Tail(stack)
                  /\ revisits' = revisits \cup {Top}
                  /\ UNCHANGED <<bitmap, expanded, landings, hops>>
RevisitSilent == /\ stack # <<>> /\ Top \in expanded
                 /\ stack' = Tail(stack)
                 /\ UNCHANGED <<bitmap, expanded, landings, revisits, hops>>

(* A repeat lands again but is not expanded again. *)
Revisit == /\ stack # <<>> /\ Top \in expanded
           /\ landings' = Landing
           /\ revisits' = revisits \cup {Top}
           /\ hops' = Append(hops, <<Top, <<>>>>)
           /\ stack' = Tail(stack)
           /\ UNCHANGED <<bitmap, expanded>>

Next == Expand \/ Revisit

Spec == Init /\ [][Next]_vars
FairSpec == Spec /\ WF_vars(Next)

------------------------------------------------------------------------------
(* The trace the walk returns. *)
Ended == stack = <<>>
LandNodes == {landings[i] : i \in DOMAIN landings}
DuplicateNodes == {n \in LandNodes : Cardinality({i \in DOMAIN landings : landings[i] = n}) > 1}
IsCleanTreeWalk == DuplicateNodes = {} /\ revisits = {}

\* Every link traversal, by hop and port; and the traversals of one link.
Traversals == {t \in (DOMAIN hops) \X (1..4) : t[2] \in DOMAIN hops[t[1]][2]}
HopCount == Cardinality(Traversals)
Link(t) == LET peer == hops[t[1]][2][t[2]][1]
               node == hops[t[1]][1]
           IN  IF node < peer THEN <<node, peer>> ELSE <<peer, node>>
LinkLoad(e) == Cardinality({t \in Traversals : Link(t) = e})

Entries == {stack[i] : i \in DOMAIN stack}
Reachable == Component(pass, source)

------------------------------------------------------------------------------
(* Properties *)

(* Every entry of the worklist is an arrival at a pass node.               *)
TypeOK == /\ expanded \subseteq pass
          /\ stack \in Seq(pass \X (Nodes \cup {NoPort}))
          /\ landings \in Seq(land)
          /\ revisits \subseteq expanded

(* forward.py refuses to diverge: the walk ends on every bitmap.           *)
Ends == <>Ended

(* is_clean_tree_walk is exactly that the part of the induced subgraph     *)
(* around the source has no cycle: the fabric would terminate on it.       *)
CleanIsAcyclic == Ended => (IsCleanTreeWalk <=> IsAcyclic(Reachable))

(* When the walk ends it has expanded exactly the nodes the flit can reach *)
(* and landed on exactly those of them with L set, cyclic or not.          *)
ReachesComponent == Ended => expanded = Reachable /\ LandNodes = land \cap Reachable

(* Around a source without cycles, every step of the walk is a hop of the  *)
(* passive fabric; popping one end of the worklist only picks an order.    *)
InFabric == INSTANCE Fabric WITH
  flits <- Entries,
  arrived <- [n \in Nodes |-> Cardinality({i \in DOMAIN hops : hops[i][1] = n})]
StepsAreHops == [][IsAcyclic(Reachable) => InFabric!Next]_vars
==============================================================================
