-------------------------------- MODULE MCSend --------------------------------
(* A six-byte link with a header of four, rows that fill a flit, need a     *)
(* partial one or are empty, and a plan that is refused.                    *)
EXTENDS Send

Plan(rows, rowBytes, stride, opcode, selfDelivery) ==
  [rows |-> rows, rowBytes |-> rowBytes, stride |-> stride,
   opcode |-> opcode, epoch |-> 1, selfDelivery |-> selfDelivery]
MCPlans == {Plan(2, 3, 4, 1, FALSE), Plan(1, 4, 4, 2, TRUE), Plan(1, 4, 2, 1, FALSE)}
==============================================================================
