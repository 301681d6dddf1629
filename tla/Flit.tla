--------------------------------- MODULE Flit ---------------------------------
(***************************************************************************)
(* The header of a flit and the cutting of a row into flits (noc/flit.py), *)
(* and the plan of one send (SendPlan in noc/network.py).  The reduction   *)
(* of a send is left out: it only travels along.                           *)
(***************************************************************************)
EXTENDS Integers, Sequences

CONSTANTS
  TagBits,     \* epoch_tag_bits
  LinkWidth    \* bytes a link moves at once

ASSUME FlitAssumption == TagBits \in Nat /\ LinkWidth \in Int

MinTagBits == 8
MaxTagBits == 16
ReservedOpcodes == {0, 7}

\* FlitHeader refuses everything else, and payload_bytes a link too narrow.
LegalHeader(opcode, tag) ==
  /\ opcode \notin ReservedOpcodes
  /\ TagBits \in MinTagBits..MaxTagBits
  /\ tag \in 1..(2^TagBits - 1)
  /\ LinkWidth > 0

\* SendPlan's own check.
LegalPlan(p) == p.rows >= 0 /\ p.rowBytes >= 0 /\ p.stride >= p.rowBytes

RouteBytes(nodes) == (2 * nodes + 7) \div 8
EpochBytes == (TagBits + 7) \div 8
HeaderBytes(nodes) == RouteBytes(nodes) + 1 + EpochBytes
FitsLink(nodes) == LinkWidth > HeaderBytes(nodes)
PerFlit(nodes) == LinkWidth - HeaderBytes(nodes)

\* Mutant of FlitCount: a partial flit is not counted.
FlitCountFloor(bytes, nodes) == IF bytes = 0 THEN 0 ELSE bytes \div PerFlit(nodes)

FlitCount(bytes, nodes) ==
  IF bytes = 0 THEN 0 ELSE (bytes + PerFlit(nodes) - 1) \div PerFlit(nodes)

\* split_payload: the payload and the padding of each flit of a row.
SplitPayload(bytes, nodes) ==
  [i \in 1..((bytes + PerFlit(nodes) - 1) \div PerFlit(nodes)) |->
     LET left == bytes - (i - 1) * PerFlit(nodes)
         chunk == IF left < PerFlit(nodes) THEN left ELSE PerFlit(nodes)
     IN [payload |-> chunk, padding |-> PerFlit(nodes) - chunk]]

WireBytes(flit, nodes) == HeaderBytes(nodes) + flit.payload + flit.padding
PayloadOf(flits) ==
  LET sum[i \in 0..Len(flits)] == IF i = 0 THEN 0 ELSE sum[i - 1] + flits[i].payload
  IN  sum[Len(flits)]
==============================================================================
