------------------------------ MODULE MCReceive ------------------------------
(* Instances of Receive for TLC: one core, two epochs of one opcode.       *)
EXTENDS Receive, SequencesExt

CONSTANTS e1, e2, a, b, c

\* Rows of two bytes. In epoch e1 the rows of a and b fit side by side, c's row
\* overlaps b's and leaves a four-byte
\* arena, and c also stands for the core's own row.
Seg(k, i, adr, own, com) == [id |-> i, key |-> k, addr |-> adr, own |-> own, committed |-> com]

MCSegments ==
  { Seg(e1, a, 0, FALSE, TRUE), Seg(e1, a, 0, FALSE, FALSE),
    Seg(e1, b, 2, FALSE, TRUE), Seg(e1, b, 2, FALSE, FALSE),
    Seg(e1, c, 3, FALSE, TRUE), Seg(e1, c, 0, TRUE, TRUE),
    Seg(e2, a, 0, FALSE, TRUE), Seg(e2, b, 2, FALSE, FALSE) }

Cmd(cap, e, comp) == [dst |-> 0, capacity |-> cap, expVal |-> e, compiled |-> comp]

MCCommands == { Cmd(4, 4, 4), Cmd(5, 4, Unchecked), Cmd(4, 2, 4), Cmd(2, 4, 4), Cmd(4, 0, 0) }

\* Without a complete account at hand before the first command is posted.
StaleSpec == spare = [k \in Keys |-> FALSE] /\ Spec

(* ReceiveAccount.deliver on one parked arrival, as CoreIngress.post's loop *)
(* calls it: acc holds the identities counted and whether it has raised.    *)
LoopStep(cmd, acc, s) ==
  IF acc.raised THEN acc
  ELSE IF ~InRange(cmd, s) THEN [acc EXCEPT !.raised = TRUE]
  ELSE IF ~Countable(s) \/ s.id \in acc.ids THEN acc
  ELSE [ids |-> acc.ids \cup {s.id},
        raised |-> RowBytes * (Cardinality(acc.ids) + 1) > cmd.capacity]

(* For every buffer of the bound and every command that can be posted on   *)
(* it, the closed form used by Post accounts the same segments and raises  *)
(* in the same cases as the loop of post.                                  *)
ASSUME AdoptionIsTheLoop ==
  \A buffer \in SeqOf(Presentable, MaxPending), cmd \in {d \in Commands : WellFormed(d)} :
    LET loop == FoldLeft(LAMBDA acc, s : LoopStep(cmd, acc, s),
                         [ids |-> {}, raised |-> FALSE], buffer)
    IN  /\ Adopted(cmd, buffer) = loop.ids
        /\ (FaultPoints(cmd, buffer) # {}) = loop.raised
==============================================================================
