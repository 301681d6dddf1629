------------------------------- MODULE Receive -------------------------------
(***************************************************************************)
(* One core's ingress ledger (calendar/receive.py): the CoreIngress that   *)
(* parks arrivals per {opcode, epoch} until a receive command is posted,   *)
(* and the ReceiveAccount that counts committed, remote, distinct payload  *)
(* against expVal.                                                         *)
(*                                                                         *)
(* The fields of the accounts are functions of the key.  An account is     *)
(* outstanding when its command is not NoCommand.  A key stands for a      *)
(* legal {opcode, epoch} pair: segments and accounts with a reserved       *)
(* opcode or an epoch below 1 cannot be constructed.  Every segment holds  *)
(* RowBytes bytes, as Noc.send gives all segments of a phase row_bytes.    *)
(* The network may present any segment any number of times, in any order,  *)
(* before its write has committed or after.                                *)
(*                                                                         *)
(* A caller posts a new account each time and keeps the handle.  retire    *)
(* takes a handle: it tests whether that account is complete, and then     *)
(* removes whatever account is outstanding under the same key.  Of all the *)
(* handles a caller may hold, spare keeps what retire can tell: whether    *)
(* one of them, other than the outstanding account, is complete.           *)
(***************************************************************************)
EXTENDS Account

CONSTANTS
  Keys,        \* the {opcode, epoch} pairs in use
  Ids,         \* the segment identities (source, seq)
  Segments,    \* the segments the network can present
  Commands,    \* the receive commands the core can post
  NoCommand,   \* no account outstanding for a key
  MaxPending   \* bound on the arrivals parked under one key

Segment == [id: Ids, key: Keys, addr: Nat, own: BOOLEAN, committed: BOOLEAN]
Command == [dst: Nat, capacity: Nat, expVal: Nat, compiled: Nat \cup {Unchecked}]

ASSUME SegmentsAssumption == Segments \subseteq Segment
ASSUME CommandsAssumption == Commands \subseteq Command /\ NoCommand \notin Commands

VARIABLES
  command,    \* per key, the outstanding command
  seen,       \* per key, the identities counted by its account
  counted,    \* per key, counted_bytes of its account
  pending,    \* per key, the parked arrivals
  spare,      \* per key, whether a complete account not outstanding is at hand
  faulted,    \* history: a delivery or an adoption raised for this command
  presented   \* history: countable identities that arrived for this command

Presentable == Segments \cup {CommittedCopy(s) : s \in Segments}

vars == <<command, seen, counted, pending, spare, faulted, presented>>

Posted(k) == command[k] # NoCommand
Complete(k) == Posted(k) /\ counted[k] >= command[k].expVal

------------------------------------------------------------------------------
Init == /\ command = [k \in Keys |-> NoCommand]
        /\ seen = [k \in Keys |-> {}]
        /\ counted = [k \in Keys |-> 0]
        /\ pending = [k \in Keys |-> <<>>]
        /\ spare \in [Keys -> BOOLEAN]   \* an account with expVal 0 is complete unposted
        /\ faulted = [k \in Keys |-> FALSE]
        /\ presented = [k \in Keys |-> {}]

(* CoreIngress.deliver without a matching account: DEFERRED. *)
Defer(s) ==
  /\ ~Posted(s.key)
  /\ Len(pending[s.key]) < MaxPending
  /\ pending' = [pending EXCEPT ![s.key] = Append(@, s)]
  /\ presented' = [presented EXCEPT ![s.key] = IF Countable(s) THEN @ \cup {s.id} ELSE @]
  /\ UNCHANGED <<command, seen, counted, spare, faulted>>

(* ReceiveAccount.deliver outside [dst, dst + capacity): contract 2 faults. *)
Discard(s) ==
  /\ Posted(s.key)
  /\ ~InRange(command[s.key], s)
  /\ faulted' = [faulted EXCEPT ![s.key] = TRUE]
  /\ UNCHANGED <<command, seen, counted, pending, spare, presented>>

\* Mutant of Counts: a copy of a counted segment counts again.
CountsCopies(s) == /\ Posted(s.key)
                   /\ InRange(command[s.key], s)
                   /\ Countable(s)

\* The guard that makes a delivery COUNTED.
Counts(s) == /\ Posted(s.key)
             /\ InRange(command[s.key], s)
             /\ Countable(s)
             /\ s.id \notin seen[s.key]

(* ReceiveAccount.deliver of a new segment: COUNTED, or the overflow fault *)
(* of contract 6, which is raised after the bytes are added.               *)
Count(s) ==
  /\ Counts(s)
  /\ seen' = [seen EXCEPT ![s.key] = @ \cup {s.id}]
  /\ counted' = [counted EXCEPT ![s.key] = @ + RowBytes]
  /\ faulted' = [faulted EXCEPT ![s.key] =
                   @ \/ counted[s.key] + RowBytes > command[s.key].capacity]
  /\ presented' = [presented EXCEPT ![s.key] = @ \cup {s.id}]
  /\ UNCHANGED <<command, pending, spare>>

\* Mutant of Ignore: an uncommitted write enters the seen-set.
IgnoreMarksSeen(s) ==
  /\ Posted(s.key)
  /\ InRange(command[s.key], s)
  /\ ~Countable(s)
  /\ seen' = [seen EXCEPT ![s.key] = @ \cup {s.id}]
  /\ UNCHANGED <<command, counted, pending, spare, faulted, presented>>

(* UNCOMMITTED, SELF_SOURCED and DUPLICATE leave the account as it is. *)
Ignore(s) ==
  /\ Posted(s.key)
  /\ InRange(command[s.key], s)
  /\ ~Countable(s) \/ s.id \in seen[s.key]
  /\ UNCHANGED vars

Deliver(s) == Defer(s) \/ Discard(s) \/ Count(s) \/ Ignore(s)

(* CoreIngress.commit re-presents a write that has committed. *)
Commit(s) == Deliver(CommittedCopy(s))

\* A fresh account for the command, holding the identities it adopted. The
\* account it replaces is complete, and its handle stays with the caller.
Install(k, c, ids) ==
  /\ command' = [command EXCEPT ![k] = c]
  /\ seen' = [seen EXCEPT ![k] = ids]
  /\ counted' = [counted EXCEPT ![k] = RowBytes * Cardinality(ids)]
  /\ faulted' = [faulted EXCEPT ![k] = FaultPoints(c, pending[k]) # {}]
  /\ presented' = [presented EXCEPT ![k] = IF Posted(k) THEN {} ELSE @]
  /\ spare' = [spare EXCEPT ![k] = @ \/ Complete(k)]

\* Mutants of Post: early arrivals are dropped instead of adopted; a waiting
\* command is replaced.
PostDropsEarly(k, c) ==
  /\ WellFormed(c)
  /\ Posted(k) => Complete(k)
  /\ Install(k, c, {})
  /\ pending' = [pending EXCEPT ![k] = <<>>]
PostOverWaiting(k, c) ==
  /\ WellFormed(c)
  /\ Install(k, c, Adopted(c, pending[k]))
  /\ pending' = [pending EXCEPT ![k] = <<>>]

(* CoreIngress.post: only a complete account for the same key is replaced. *)
Post(k, c) ==
  /\ WellFormed(c)
  /\ Posted(k) => Complete(k)
  /\ Install(k, c, Adopted(c, pending[k]))
  /\ pending' = [pending EXCEPT ![k] = <<>>]

(* The account outstanding under the key, if there is one, is popped.      *)
Pop(k) ==
  /\ command' = [command EXCEPT ![k] = NoCommand]
  /\ seen' = [seen EXCEPT ![k] = {}]
  /\ counted' = [counted EXCEPT ![k] = 0]
  /\ faulted' = [faulted EXCEPT ![k] = FALSE]
  /\ presented' = [presented EXCEPT ![k] = IF Posted(k) THEN {} ELSE @]
  /\ spare' = [spare EXCEPT ![k] = @ \/ Complete(k)]
  /\ UNCHANGED pending

\* Mutant of Retire: an incomplete command can be retired.
RetireWaiting(k) == Posted(k) /\ Pop(k)

(* CoreIngress.retire with the handle of the outstanding account, which it *)
(* refuses while the account is incomplete.                                *)
Retire(k) == Complete(k) /\ Pop(k)

(* CoreIngress.retire with the handle of another account of the key: an    *)
(* account replaced or retired before, or one never posted.  The test is   *)
(* of that account; the account popped is the outstanding one.             *)
RetireOther(k) == spare[k] /\ Pop(k)

Next == \/ \E s \in Segments : Deliver(s) \/ Commit(s)
        \/ \E k \in Keys : Retire(k) \/ RetireOther(k) \/ \E c \in Commands : Post(k, c)

Spec == Init /\ [][Next]_vars

(* Noc.send presents every landing of a plan, and every write commits.     *)
FairSpec == Spec /\ \A s \in Segments : WF_vars(Commit(s))
------------------------------------------------------------------------------
(* Properties *)

(* Every field of every account and every buffer has its type.             *)
TypeOK ==
  /\ command \in [Keys -> Commands \cup {NoCommand}]
  /\ seen \in [Keys -> SUBSET Ids]
  /\ counted \in [Keys -> Nat]
  /\ pending \in [Keys -> Seq(Presentable)]
  /\ spare \in [Keys -> BOOLEAN]
  /\ faulted \in [Keys -> BOOLEAN]
  /\ presented \in [Keys -> SUBSET Ids]

(* post empties the buffer it adopts and deliver refills it only while no  *)
(* command is posted, so no arrival is held in both places; a key without  *)
(* a command holds no count and no fault of an earlier command.            *)
OnePlace ==
  \A k \in Keys :
    IF Posted(k) THEN pending[k] = <<>>
    ELSE seen[k] = {} /\ counted[k] = 0 /\ ~faulted[k]

(* Contract 5 of receive.py: whatever copies, retransmissions, early       *)
(* arrivals and uncommitted writes the network presents, the counter is    *)
(* the bytes of the distinct segments counted.                             *)
ExactBytes == \A k \in Keys : counted[k] = RowBytes * Cardinality(seen[k])

(* What has arrived for a key: counted by its account, or parked for it.   *)
Tally(k) == IF Posted(k) THEN seen[k] ELSE CountableIds(pending[k], Len(pending[k]))

(* Contracts 3 and 4: unless a delivery faulted, every committed remote    *)
(* segment presented since the last retirement is accounted, no matter     *)
(* whether it came before or after the post, or first came uncommitted.    *)
NothingLost == \A k \in Keys : ~faulted[k] => presented[k] = Tally(k)

(* Contract 7: a step never replaces a command that still waits and never  *)
(* takes a counted segment from it.  The one way it can be removed is a    *)
(* retire that is passed another, complete account of the same key.        *)
KeepsWaitingCommands ==
  \A k \in Keys : Posted(k) /\ ~Complete(k) =>
    \/ command'[k] = command[k] /\ seen[k] \subseteq seen'[k]
    \/ command'[k] = NoCommand /\ spare[k]
WaitingIsKept == [][KeepsWaitingCommands]_vars

(* The ledger implements the tally of RecvPromise: parking an arrival and  *)
(* adopting it later cannot be told from counting it when it arrives.      *)
BytesOf(S) == RowBytes * Cardinality(S)
Promise == INSTANCE RecvPromise WITH
  Bytes <- BytesOf,
  tally <- [k \in Keys |-> Tally(k)],
  need <- [k \in Keys |-> IF Posted(k) THEN command[k].expVal ELSE -1],
  broken <- faulted,
  closed <- spare,
  Needs <- {c.expVal : c \in Commands}
PromiseKept == Promise!Spec

(* The remote segments that fit a command's receive range can satisfy it.  *)
Satisfiable(k, c) ==
  RowBytes * Cardinality({s.id : s \in {t \in Segments :
                            t.key = k /\ ~t.own /\ InRange(c, t)}}) >= c.expVal

(* Contract 6: a wait that the senders can satisfy does not block forever, *)
(* provided every write commits and is presented again: it completes,      *)
(* unless it is retired with the handle of another account meanwhile.      *)
PostedCompletes ==
  \A k \in Keys : (Posted(k) /\ Satisfiable(k, command[k])) ~> (Complete(k) \/ ~Posted(k))

(* docs/requirements/calendar-closure.md, CAL-067: "A receive command      *)
(* cannot be retired until it is complete".                                *)
RetiredComplete ==
  [][\A k \in Keys : Posted(k) /\ command'[k] = NoCommand => Complete(k)]_vars
==============================================================================
