--------------------------------- MODULE Send ---------------------------------
(***************************************************************************)
(* Noc.send and the fabric it stands for: the worklist walk over the       *)
(* bitmap (Forward), the refusal of a walk that was not clean, the figures *)
(* the send reports, and then the same bitmap crossing the mesh with every *)
(* node forwarding on its own (Fabric).  The code computes everything from *)
(* the walk and never looks at the fabric again; the fabric never looks at *)
(* the walk.  What a send does to the ledgers is in AllGather.             *)
(***************************************************************************)
EXTENDS Forward, Flit
Sets == INSTANCE FiniteSetsExt

CONSTANTS Plans, NoPlan
ASSUME PlansAssumption ==
  /\ NoPlan \notin Plans
  /\ \A p \in Plans : {p.rows, p.rowBytes, p.stride, p.opcode, p.epoch} \subseteq Int

VARIABLES
  outcome,     \* what the send reported, and its plan
  flits,       \* the flits in flight: <<node, ingress>>
  arrived,     \* per node, the flits that arrived there
  carried      \* history: traversals of links

fabric == <<flits, arrived, carried>>
sendVars == <<vars, outcome, fabric>>

InMesh == INSTANCE Fabric

------------------------------------------------------------------------------
(* The figures of a send. *)

Remote == LandNodes \ {source}

\* A hop puts its peers one link past its node, or leaves them where a longer
\* path put them.
Deepened(depth, hop) ==
  LET base == IF hop[1] \in DOMAIN depth THEN depth[hop[1]] ELSE 0
      peers == {hop[2][i][1] : i \in DOMAIN hop[2]}
  IN [n \in DOMAIN depth \cup peers |->
        IF n \notin peers THEN depth[n]
        ELSE IF n \in DOMAIN depth /\ depth[n] > base + 1 THEN depth[n]
        ELSE base + 1]

\* Longest path of the walk, after its first hops.
Depths[i \in 0..Len(hops)] ==
  IF i = 0 THEN [n \in {source} |-> 0] ELSE Deepened(Depths[i - 1], hops[i])

MaxDepth == LET depth == Depths[Len(hops)]
            IN  Sets!Max({depth[n] : n \in DOMAIN depth})

\* Mutant of FlitHops: every landing is a hop.
FlitHopsByLanding(p) == Len(landings) * p.rows * FlitCount(p.rowBytes, Cardinality(Nodes))

FlitHops(p) == HopCount * p.rows * FlitCount(p.rowBytes, Cardinality(Nodes))

Outcome(p) ==
  [plan |-> p, remote |-> Remote,
   flits |-> p.rows * FlitCount(p.rowBytes, Cardinality(Nodes)),
   hops |-> FlitHops(p), wire |-> FlitHops(p) * LinkWidth,
   headers |-> FlitHops(p) * HeaderBytes(Cardinality(Nodes)),
   presented |-> p.rows * Cardinality({i \in DOMAIN landings :
                                         landings[i] # source \/ p.selfDelivery}),
   depth |-> MaxDepth]

------------------------------------------------------------------------------
NoOutcome == [plan |-> NoPlan]

\* RouteBits.from_sets refuses L without P.
SendInit == /\ Init /\ land \subseteq pass
            /\ outcome = NoOutcome
            /\ flits = {} /\ arrived = [n \in Nodes |-> 0] /\ carried = 0

Walk == /\ Expand \/ Revisit
        /\ UNCHANGED <<outcome, fabric>>

\* Mutant of Refused: a walk that revisits nodes without landing there passes.
RefusedForCopies == DuplicateNodes # {}

\* A walk that was not clean raises.
Refused == ~IsCleanTreeWalk

\* FlitHeader raises, and payload_bytes does when a row has bytes to cut.
LegalSend(p) == /\ LegalPlan(p) /\ LegalHeader(p.opcode, p.epoch)
                /\ p.rowBytes > 0 => FitsLink(Cardinality(Nodes))

Inject(p) == /\ Ended /\ ~Refused /\ outcome = NoOutcome
             /\ LegalSend(p)
             /\ outcome' = Outcome(p)
             /\ flits' = {<<source, NoPort>>}
             /\ UNCHANGED <<vars, arrived, carried>>

Hop(f) == /\ UNCHANGED <<vars, outcome>>
          /\ InMesh!Hop(f)
          /\ carried' = carried + Cardinality(InMesh!Egress(f[1], f[2]))

Forwarding == \E f \in flits : Hop(f)
SendNext == Walk \/ (\E p \in Plans : Inject(p)) \/ Forwarding

SendSpec == SendInit /\ [][SendNext]_sendVars

(* The walk is a loop, and a node forwards every flit that reaches it.     *)
FairSend == SendSpec /\ WF_sendVars(Walk) /\ WF_sendVars(Forwarding)

------------------------------------------------------------------------------
(* Properties *)

Sent == outcome # NoOutcome
Quiet == Sent /\ flits = {}

(* Every bitmap the table's checks let pass for some group is one that the *)
(* walk calls clean, and its landings are the destinations of that group.  *)
AcceptedIsClean ==
  Ended /\ ~Sent => \A selfDelivery \in BOOLEAN :
    LET group == land \cup {source}
    IN Accepted(pass, land, source, group, selfDelivery) =>
         IsCleanTreeWalk /\ LandNodes = Expected(group, source, selfDelivery)

(* Contract 5 at the fabric: whatever order the nodes forward in, no node  *)
(* sees two copies of a flit of a send that was not refused.               *)
OneCopy == \A n \in Nodes : arrived[n] <= 1

(* Calendar 2.2: forwarding terminates, and then the nodes that committed  *)
(* are those the walk credited, whether or not the table was validated.    *)
Delivers ==
  [](Sent => <>[](Quiet /\ \A n \in Nodes : arrived[n] = 1 /\ n \in land <=> n \in LandNodes))

\* Nodes at most k links from the source.
Ball[k \in 0..Cardinality(Nodes)] ==
  IF k = 0 THEN {source}
  ELSE Ball[k - 1] \cup {m \in pass : Neighbours(m) \cap Ball[k - 1] # {}}

(* The figures that enter the drain windows and the bandwidth account are  *)
(* what the fabric does: each flit takes one pass over the links, every    *)
(* link of the tree once, and the ledgers see every row at every node that *)
(* committed, the source's own only with fabric self-delivery.             *)
FiguresAreCarried ==
  Quiet =>
    LET p == outcome.plan
    IN /\ outcome.hops = carried * outcome.flits
       /\ \A e \in InducedEdges(Reachable) : LinkLoad(e) = 1
       /\ outcome.presented = p.rows * Cardinality(
            {n \in Nodes : InMesh!Landed(n) = 1 /\ (n # source \/ p.selfDelivery)})

\* Hops from the source to the farthest node of S.
Farthest(S) == Sets!Min({k \in DOMAIN Ball : S \subseteq Ball[k]})

\* No branch ends in a node that only passes the flit on.
LeavesLand == \A n \in Reachable \ {source} :
  (\E m \in pass : Neighbours(n) \cap pass = {m}) => n \in land

(* A row that split_payload cuts (an empty one it refuses if the header    *)
(* does not fit the link) is cut without a byte lost, into as many flits   *)
(* as are reported, and header, payload and padding fill the link's width; *)
(* and max_depth, in whatever order the worklist computes it, is the       *)
(* distance of the farthest node the flit reaches, landing or only         *)
(* passing.  noc/forward.py:109 calls it "Longest source-to-land path in   *)
(* hops", which is less where a branch ends in a node that does not land;  *)
(* where every branch ends in one that lands the two are the same.         *)
RowsAndDepth ==
  Quiet =>
    LET p == outcome.plan
        cut == SplitPayload(p.rowBytes, Cardinality(Nodes))
    IN /\ FitsLink(Cardinality(Nodes)) =>
            /\ outcome.flits = p.rows * Len(cut) /\ PayloadOf(cut) = p.rowBytes
            /\ \A i \in DOMAIN cut : WireBytes(cut[i], Cardinality(Nodes)) = LinkWidth
       /\ outcome.depth = Farthest(Reachable)
       /\ LeavesLand => outcome.depth = Farthest(LandNodes)
==============================================================================
