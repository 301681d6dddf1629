------------------------------- MODULE MCPackage -------------------------------
(* Three identities of two opcodes, the higher of them shared, on four      *)
(* nodes. Kernel objects of an earlier emission, of a misplaced table, of a *)
(* second table, of a materialized key reference, of fields left out and of *)
(* an alignment that is none.                                               *)
EXTENDS Package

Axis(number, text) == [number |-> number, text |-> text]
MCRouteKey == [gate |-> [phase |-> "gate", axis |-> Axis(FALSE, <<"my_row">>)],
               up |-> [phase |-> "up", axis |-> Axis(TRUE, <<"0">>)],
               down |-> [phase |-> "up", axis |-> Axis(FALSE, <<"0">>)]]
MCOpcode == [gate |-> 1, up |-> 2, down |-> 2]

Table(count, align) == [CleanObject(count).symbols[2] EXCEPT !.align = align]
Rodata(align) == [name |-> ".rodata", align |-> align]
Object(align, symbols) == [sections |-> <<Rodata(align)>>, symbols |-> symbols]
Moved(symbol, kind, section) == [symbol EXCEPT !.kind = kind, !.section = section]

MCManifests == <<
  CleanObject(1), CleanObject(2), CleanObject(3),
  Object(64, <<Table(2, 32)>>), Object(64, <<Table(2, 72)>>), Object(64, <<Table(2, 128)>>),
  Object(32, <<Table(2, 64)>>), Object(64, <<>>),
  [sections |-> <<>>, symbols |-> <<Table(2, 64)>>],
  [sections |-> <<Rodata(64), Rodata(32)>>, symbols |-> <<Table(2, 64)>>],
  Object(64, <<Table(2, 64), Moved(Table(2, 64), "writable object", "other")>>),
  Object(64, <<Table(2, 64), Table(1, 64)>>),
  Object(64, <<[Table(2, 64) EXCEPT !.name = "kRowAllGather"], Table(2, 64)>>),
  Object(64, <<[Moved(Table(1, 64), "bss object", ".bss")
                  EXCEPT !.name = "calendar_epochCtr"], Table(2, 64)>>),
  [sections |-> <<[name |-> ".rodata"]>>, symbols |-> <<Table(2, 64)>>],
  Object(64, <<[name |-> RouteSymbol, size |-> 128, align |-> 64]>>),
  Object(64, <<Table(2, 0)>>)>>

MCConcurrent == {<<>>, <<{0, 1}>>, <<{0, 2}, {1, 2}>>}
================================================================================
