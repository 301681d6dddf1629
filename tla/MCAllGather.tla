----------------------------- MODULE MCAllGather -----------------------------
(* Instances of AllGather for TLC: three cores, one or two opcode domains. *)
EXTENDS AllGather, TLC

\* Compiled keys: landing order per source, groups, expected bytes per core.
Key3(op, lands, groups, exp, stride) ==
  [opcode |-> op, members |-> {0, 1, 2}, lands |-> lands, cyclic |-> {},
   expected |-> exp, groups |-> groups, stride |-> stride, request |-> NoRequest,
   selfDelivery |-> FALSE]

AllOf(x) == 0 :> x @@ 1 :> x @@ 2 :> x
Peers == 0 :> <<1, 2>> @@ 1 :> <<2, 0>> @@ 2 :> <<1, 0>>
Whole == AllOf(<<0, 1, 2>>)

\* One group of three, and a pair with a core that takes part alone: two phases
\* of one opcode domain, as FFN phases B and C.
Trio == Key3(1, Peers, Whole, AllOf(2 * Rows * RowBytes), 3 * RowBytes)
Pair == Key3(1, 0 :> <<1>> @@ 1 :> <<0>> @@ 2 :> <<>>,
             0 :> <<0, 1>> @@ 1 :> <<0, 1>> @@ 2 :> <<2>>,
             0 :> Rows * RowBytes @@ 1 :> Rows * RowBytes @@ 2 :> 0, 2 * RowBytes)

\* Faulty calls: a stride that holds two rows of three, a wrong compiled value,
\* a bitmap that is no tree, an opcode without timeslot, a wrong epoch.
Tight == [Trio EXCEPT !.stride = 2 * RowBytes]
Wrong == [Trio EXCEPT !.expected[1] = @ - 1]
Cyclic == [Trio EXCEPT !.cyclic = {1}]
Other == [Trio EXCEPT !.opcode = 2]
Early == [Trio EXCEPT !.request = 2]

\* Parts of the membership call, as if a branch were not taken by all (E1).
Part(S) == [Trio EXCEPT !.groups = [n \in S |-> Whole[n]]]

\* The fabric lands the source's own copy, which expVal counts and no account does.
Own == [Trio EXCEPT !.selfDelivery = TRUE, !.expected = AllOf(3 * Rows * RowBytes),
                    !.lands = 0 :> <<0, 1, 2>> @@ 1 :> <<1, 2, 0>> @@ 2 :> <<2, 1, 0>>]

UniformCalls == {Trio, Pair, Tight, Wrong, Cyclic, Early, Other, Own}
PartialCalls == {Trio, Early, Part({0, 1}), Part({2}), [Part({2}) EXCEPT !.request = 1]}
MCImages == {{1, 2}}
==============================================================================
