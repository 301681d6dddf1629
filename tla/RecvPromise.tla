----------------------------- MODULE RecvPromise -----------------------------
(***************************************************************************)
(* What one core's ingress ledger promises to a collective, with no        *)
(* buffer, no de-duplication and no byte counter: for every {opcode,       *)
(* epoch} key there is one tally of the segments that arrived since the    *)
(* last command for that key was retired, and an arrival enters the tally  *)
(* in the same way whether its receive command is already posted or not.   *)
(* A command closes only on enough distinct segments, and an open command  *)
(* is never replaced before that.  It can be forgotten before that, but    *)
(* only when a caller closes the key again with a command that has closed: *)
(* the key does not tell one command of it from another.                   *)
(***************************************************************************)
EXTENDS Integers

CONSTANTS
  Keys, Ids,
  Bytes(_),   \* the payload bytes of a set of segments
  Needs       \* the byte counts a command can wait for

Idle == -1

VARIABLES
  tally,    \* per key, the identities that arrived since the last close
  need,     \* per key, the bytes the open command waits for, or Idle
  broken,   \* per key, whether an arrival faulted since the last close
  closed    \* per key, whether a caller holds a satisfied command not open

vars == <<tally, need, broken, closed>>

Init == /\ tally = [k \in Keys |-> {}]
        /\ need = [k \in Keys |-> Idle]
        /\ broken = [k \in Keys |-> FALSE]
        /\ closed \in [Keys -> BOOLEAN]

Enough(k) == need[k] # Idle /\ Bytes(tally[k]) >= need[k]

(* A new segment arrives; early or late makes no difference to the tally.  *)
(* Only an arrival at an open command can overrun it.                      *)
Arrive(k, i) == /\ tally' = [tally EXCEPT ![k] = @ \cup {i}]
                /\ \/ UNCHANGED broken
                   \/ need[k] # Idle /\ broken' = [broken EXCEPT ![k] = TRUE]
                /\ UNCHANGED <<need, closed>>

(* An arrival that is discarded because it does not belong breaks the key. *)
Discard(k) == /\ need[k] # Idle
              /\ broken' = [broken EXCEPT ![k] = TRUE]
              /\ UNCHANGED <<tally, need, closed>>

(* A command opens on everything that already arrived. If one of those     *)
(* arrivals faults, the key is broken and part of the tally may be gone.   *)
Open(k, n) == /\ need[k] = Idle
              /\ need' = [need EXCEPT ![k] = n]
              /\ \/ UNCHANGED <<tally, broken>>
                 \/ /\ broken' = [broken EXCEPT ![k] = TRUE]
                    /\ \E T \in SUBSET tally[k] : tally' = [tally EXCEPT ![k] = T]
              /\ UNCHANGED closed

(* A satisfied command may be replaced by the next one, from zero.         *)
Reopen(k, n) == /\ Enough(k)
                /\ need' = [need EXCEPT ![k] = n]
                /\ tally' = [tally EXCEPT ![k] = {}]
                /\ broken' = [broken EXCEPT ![k] = FALSE]
                /\ closed' = [closed EXCEPT ![k] = TRUE]

Close(k) == /\ Enough(k)
            /\ need' = [need EXCEPT ![k] = Idle]
            /\ tally' = [tally EXCEPT ![k] = {}]
            /\ broken' = [broken EXCEPT ![k] = FALSE]
            /\ closed' = [closed EXCEPT ![k] = TRUE]

(* Another command of the key, one that was satisfied, is closed instead.  *)
Forget(k) == /\ closed[k]
             /\ need[k] # Idle
             /\ need' = [need EXCEPT ![k] = Idle]
             /\ tally' = [tally EXCEPT ![k] = {}]
             /\ broken' = [broken EXCEPT ![k] = FALSE]
             /\ UNCHANGED closed

Next == \E k \in Keys :
          \/ \E i \in Ids : Arrive(k, i)
          \/ Discard(k)
          \/ \E n \in Needs : Open(k, n) \/ Reopen(k, n)
          \/ Close(k) \/ Forget(k)

Spec == Init /\ [][Next]_vars
==============================================================================
