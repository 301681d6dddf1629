------------------------------ MODULE MCNodeEngine ------------------------------
(* Five nodes, the last of them in the second register, placed at a node of  *)
(* each register.  In the first table both rows wait for two segments, and  *)
(* one of them only passes node 4; in the second a row has no pair for node *)
(* 1 and an illegal one for node 4, and the other waits for more than the   *)
(* arena holds.  The two sources share a number, and one goes beyond the    *)
(* vector.                                                                  *)
EXTENDS NodeEngine

Row(pass, land, exp, flags) ==
  [bits |-> FromSets(pass, land), exp |-> exp, flags |-> flags, declared |-> Derived]

Waiting == [n \in Nodes |-> Row(Nodes, IF n = 2 THEN {1} ELSE {1, 4}, 2, 3)]
Uneven == [n \in Nodes |->
  IF n = 2 THEN Row(Nodes, {1, 4}, 3, 2)
  ELSE [Row(Nodes \ {1}, {0}, 2, 3) EXCEPT !.bits = WithPair(@, 4, Illegal)]]

MCTables == {Waiting, Uneven}
MCImages == {{1, 2}, {2}}
MCAddr == [n \in Nodes |-> IF n = 2 THEN 2 ELSE 1]
MCFirst == [n \in Nodes |-> IF n = 0 THEN 1 ELSE 0]
MCMaxSeq == [n \in Nodes |-> IF n = 0 THEN 3 ELSE 2]
==============================================================================
