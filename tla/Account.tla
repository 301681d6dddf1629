------------------------------- MODULE Account -------------------------------
(***************************************************************************)
(* The accounting rules of one receive command (ReceiveAccount in          *)
(* calendar/receive.py), as operators on a command c and a segment s or a  *)
(* sequence of parked segments.  A command has dst, capacity, expVal and   *)
(* compiled; a segment has id, addr, own (self-sourced) and committed.     *)
(* Every segment holds RowBytes bytes, as Noc.send gives all segments of a *)
(* phase row_bytes.                                                        *)
(***************************************************************************)
EXTENDS Integers, Sequences, FiniteSets

CONSTANT RowBytes
ASSUME RowBytesAssumption == RowBytes \in Nat

Unchecked == -1   \* compiled_exp_val is None

\* __post_init__ refuses a wait that cannot be satisfied and a compiled value
\* that disagrees with the posted one.
WellFormed(c) == /\ c.expVal <= c.capacity
                 /\ c.compiled \in {Unchecked, c.expVal}

InRange(c, s) == /\ c.dst <= s.addr
                 /\ s.addr + RowBytes <= c.dst + c.capacity

\* Contracts 1 and 3: only committed payload of another core counts.
Countable(s) == s.committed /\ ~s.own

CommittedCopy(s) == [s EXCEPT !.committed = TRUE]

------------------------------------------------------------------------------
(* Adoption: post delivers the parked arrivals in order and the first one  *)
(* that raises ends the loop. An out-of-range arrival raises before it is  *)
(* counted, an overflowing one after.                                      *)

CountableIds(list, n) == {list[i].id : i \in {j \in 1..n : Countable(list[j])}}

Overflows(c, list, n) ==
  /\ Countable(list[n])
  /\ list[n].id \notin CountableIds(list, n - 1)
  /\ RowBytes * Cardinality(CountableIds(list, n)) > c.capacity

FaultPoints(c, list) ==
  {n \in 1..Len(list) : ~InRange(c, list[n]) \/ Overflows(c, list, n)}

\* The identities accounted: nothing parked before them has raised.
Adopted(c, list) ==
  {list[i].id : i \in {j \in 1..Len(list) :
                         /\ Countable(list[j])
                         /\ InRange(c, list[j])
                         /\ \A m \in 1..(j - 1) : m \notin FaultPoints(c, list)}}
==============================================================================
