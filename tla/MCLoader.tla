------------------------------- MODULE MCLoader -------------------------------
(* Two packages, one of them for another chip, with images that share an    *)
(* opcode, and two whose mirrors are refused; a row and a column that share *)
(* a core, and a core outside.                                              *)
EXTENDS Loader

CONSTANTS old, new, twice, reserved, a, b, c, d
MCPackages == {old, new, twice, reserved}
MCMirror == [p \in MCPackages |-> CASE p = old -> ExampleMirror({1, 2})
                                   [] p = new -> <<1>>
                                   [] p = twice -> <<2, 2>>
                                   [] p = reserved -> <<1, 7>>]
MCCores == {a, b, c, d}
MCGroups == {{a, b}, {b, c}}
==============================================================================
