------------------------------ MODULE NodeBlocks ------------------------------
(***************************************************************************)
(* The rules of one NoC node as the graph layer states them                *)
(* (acir/blocks/): pure operators on an event v, the record that travels   *)
(* through the queue graph with its operands, its derived fields and the   *)
(* node's resident state.                                                  *)
(*                                                                         *)
(* A register is a function from digit positions (see Entry) and reads 0   *)
(* when it is shifted out.  calreg is the set of bits of the residency     *)
(* vector and seen the set of bits of the one-hot vector, with a shift     *)
(* past the width again giving no bit.                                     *)
(***************************************************************************)
EXTENDS Entry

CONSTANTS
  OpcodeCount,    \* code points of the opcode, 8
  SeenCapacity    \* bits of the seen vector, 64

ASSUME BlocksAssumption == OpcodeCount \in Nat \ {0, 1} /\ SeenCapacity \in Nat

Opcodes == 0..(OpcodeCount - 1)
Reserved == {0, OpcodeCount - 1}

(* The fault codes. *)
Codes == {"none", "pair", "uninstalled", "reserved", "epoch", "capacity", "seq"}

------------------------------------------------------------------------------
(* route_entry: the pair of a fixed node out of the two registers. *)

Shifted(r, k) == IF k < Register THEN r[k] ELSE 0
Or(a, b) == (IF Passes(a) \/ Passes(b) THEN Pass ELSE 0)
          + (IF Lands(a) \/ Lands(b) THEN Illegal ELSE 0)

\* Mutant of HighShift: below node 32 the second register is shifted by 0.
HighShiftZero(n) == IF n >= Register THEN n - Register ELSE 0

HighShift(n) == IF n >= Register THEN n - Register ELSE Register
PairLow(v, n) == Shifted(v.lo, n)
PairHigh(v, n) == Shifted(v.hi, HighShift(n))
PairOf(v, n) == Or(PairLow(v, n), PairHigh(v, n))

LoadRouteEntry(v, n) ==
  LET p == PairOf(v, n)
  IN [v EXCEPT !.pair = p, !.lane = p,
               !.landCount = Number(v.hi, HiLand, LandDigits),
               !.flags = Number(v.hi, HiFlags, FlagDigits),
               !.exp = Number(v.hi, HiExp, ExpDigits),
               !.fault = p = Illegal, !.code = "pair"]

(* forward: the pass bitmap is republished for the NoC to replicate over. *)
ApplyForward(v) ==
  [v EXCEPT !.egress = v.lane, !.fault = @ \/ v.pair = Illegal]

(* calreg: the residency bit of the opcode is the release gate. *)
Installed(mask, op) == op \in mask

AdmitSend(v) ==
  LET admitted == Installed(v.calreg, v.opcode) /\ v.opcode \notin Reserved
  IN [v EXCEPT !.gate = admitted, !.accepted = admitted, !.fault = @ \/ ~admitted,
               !.code = CASE v.opcode \in Reserved -> "reserved"
                          [] v.opcode \notin Reserved /\ ~Installed(v.calreg, v.opcode) -> "uninstalled"
                          [] OTHER -> "none"]

(* epoch: the wrap is refused while older traffic has not drained. *)
RefusesWrap(lane, capacity, drained) == lane >= capacity /\ ~drained
WrapsOnlyWhenDrained(lane, capacity, drained) == lane >= capacity /\ drained

(* recv_wait: one delivered segment against the receive command. *)
SeenBit(seq) == IF seq < SeenCapacity THEN {seq} ELSE {}
AddMask(seen, seq) == seen \cup SeenBit(seq)
Reaches(counted, exp) == counted >= exp
Inside(addr, end, dst, capacity) == dst <= addr /\ end <= dst + capacity

EpochGood(v) == v.epochOk /\ v.tag # 0

\* Mutant of Valid: the seen bit of a segment is not consulted.
ValidAgain(v) ==
  /\ EpochGood(v)
  /\ v.exp <= v.capacity
  /\ Inside(v.addr, v.addr + v.bytes, v.dst, v.capacity)
  /\ v.seq < SeenCapacity
  /\ ~v.own /\ v.gate /\ ~v.fault

Valid(v) ==
  /\ EpochGood(v)
  /\ v.exp <= v.capacity
  /\ Inside(v.addr, v.addr + v.bytes, v.dst, v.capacity)
  /\ SeenBit(v.seq) \cap v.seen = {}
  /\ v.seq < SeenCapacity
  /\ ~v.own /\ v.gate /\ ~v.fault

\* The first check of the chain that fails.
RecvCode(v) ==
  CASE ~EpochGood(v) -> "epoch"
    [] EpochGood(v) /\ v.exp > v.capacity -> "capacity"
    [] EpochGood(v) /\ v.exp <= v.capacity /\ v.seq >= SeenCapacity -> "seq"
    [] OTHER -> "none"

\* Mutant of RecvWait: the segment is added once more for the completion.
RecvWaitTwice(v) ==
  LET now == IF Valid(v) THEN v.bytes ELSE 0
  IN [v EXCEPT !.counted = @ + now,
               !.seen = IF Valid(v) THEN AddMask(@, v.seq) ELSE @,
               !.complete = Reaches(v.counted + now + now, v.exp),
               !.accepted = Valid(v), !.fault = ~Valid(v), !.code = RecvCode(v)]

RecvWait(v) ==
  LET now == IF Valid(v) THEN v.bytes ELSE 0
  IN [v EXCEPT !.counted = @ + now,
               !.seen = IF Valid(v) THEN AddMask(@, v.seq) ELSE @,
               !.complete = Reaches(v.counted + now, v.exp),
               !.accepted = Valid(v), !.fault = ~Valid(v), !.code = RecvCode(v)]
==============================================================================
