-------------------------------- MODULE Fabric --------------------------------
(***************************************************************************)
(* One flit's bitmap crossing the mesh under the two passive rules of a    *)
(* hop (egress_set and landing_ok of the acir node): commit the payload if *)
(* the node's own L is set, and replicate one flit to every neighbour with *)
(* P set except the ingress.  Nodes decide independently, so the flits in  *)
(* flight advance in any order.  Nothing bounds a hop: the fabric relies   *)
(* on the bitmap having passed the checks of the route table.              *)
(***************************************************************************)
EXTENDS Mesh

NoPort == -1   \* the flit is injected by its own core

VARIABLES
  pass, land,      \* the bitmap the flits carry
  source,          \* the sending core
  flits,           \* the flits in flight: <<node, ingress>>
  arrived          \* per node, the flits that arrived there

bitmap == <<pass, land, source>>
vars == <<bitmap, flits, arrived>>

\* Mutant of Egress: an inner node, which has an ingress, keeps one branch.
EgressOne(n, ingress) ==
  IF ingress = NoPort \/ {m \in Neighbours(n) : m \in pass /\ m # ingress} = {}
  THEN {m \in Neighbours(n) : m \in pass /\ m # ingress}
  ELSE {CHOOSE m \in Neighbours(n) : m \in pass /\ m # ingress}

Egress(n, ingress) == {m \in Neighbours(n) : m \in pass /\ m # ingress}

Hop(f) == /\ flits' = (flits \ {f}) \cup {<<m, f[1]>> : m \in Egress(f[1], f[2])}
          /\ arrived' = [arrived EXCEPT ![f[1]] = @ + 1]
          /\ UNCHANGED bitmap

Next == \E f \in flits : Hop(f)

\* The commits a node's receive range sees.
Landed(n) == IF n \in land THEN arrived[n] ELSE 0
==============================================================================
