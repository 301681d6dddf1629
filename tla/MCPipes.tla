-------------------------------- MODULE MCPipes --------------------------------
(* Three cores on a semaphore of two bits, which just counts them: two of   *)
(* them are a group, the third has nothing to receive.                      *)
EXTENDS Pipes

CONSTANTS a, b, c
MCGroup == [core \in {a, b, c} |-> IF core = c THEN {c} ELSE {a, b}]
================================================================================
