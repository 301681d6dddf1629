------------------------------ MODULE AllGather ------------------------------
(***************************************************************************)
(* One die running collective phases: run_allgather (collective.py) over   *)
(* the Noc object (noc/network.py) with its CalReg banks and drain windows *)
(* (noc/calreg.py), its per-core epoch counters (calendar/epoch.py) and    *)
(* its per-core ingress ledgers (calendar/receive.py).                     *)
(*                                                                         *)
(* A call runs alone, so its steps are one loop iteration each and nothing *)
(* interleaves with them; but any of them may raise, and the call then     *)
(* returns with everything it has done so far left in place (Abort).       *)
(* A later call meets what an earlier one left behind.                     *)
(*                                                                         *)
(* The windows of all nodes are entered and drained together, so one       *)
(* counter stands for them; the banks of all nodes hold the same image.    *)
(***************************************************************************)
EXTENDS Account, FiniteSetsExt, SequencesExt

CONSTANTS
  Nodes,      \* the cores, numbered as in the topology
  Opcodes,    \* the legal opcode domains
  EpochCap,   \* the largest epoch tag; the counter wraps to 1 after it
  Rows,       \* row_count of the payload geometry
  Calls,      \* the run_allgather calls a program can make
  Images,     \* the CalReg images that can be installed, as sets of opcodes
  MaxCalls    \* bound on the calls of a behaviour

ASSUME DieAssumption == /\ Nodes \subseteq Nat /\ IsFiniteSet(Nodes) /\ IsFiniteSet(Opcodes)
                        /\ EpochCap \in Nat \ {0} /\ Rows \in Nat /\ MaxCalls \in Nat
                        /\ \A img \in Images : img \subseteq Opcodes

ASSUME CallAssumption ==
  \A c \in Calls :
    /\ c.opcode \in Opcodes /\ c.members \subseteq Nodes
    /\ c.lands \in [Nodes -> Seq(Nodes)] /\ c.groups \in [DOMAIN c.groups -> Seq(Nodes)]
    /\ c.expected \in [c.members -> Int] /\ c.stride \in Nat

VARIABLES
  pc,         \* the next step of the running call, or "idle"
  call,       \* its arguments
  turn,       \* the member whose loop iteration is next
  at,         \* the landing that is next in the current send
  entered,    \* flit hops of the sends this call has completed
  result,     \* how the last call ended
  epoch,      \* per node and opcode, the value of its EpochCounter
  accounts,   \* per node, its outstanding receive accounts by key
  pending,    \* per node and key, the arrivals parked in its ingress
  sequence,   \* per node, the sequence number of its next row
  inFlight,   \* flit hops in the stop-the-world windows
  image,      \* the opcodes installed in every CalReg bank
  calls,      \* bound: the number of calls made
  round,      \* history: per node and opcode, rounds counted without wrapping
  leaked,     \* history: hops entered by calls that aborted
  stuck,      \* history: nodes a call found with an outstanding command
  sound       \* history: whether the running or last call started sound

die == <<epoch, accounts, pending, sequence, inFlight, image>>
control == <<pc, call, turn, at, entered, result, calls>>
history == <<round, leaked, stuck, sound>>
vars == <<die, control, history>>

Keys == Opcodes \X (1..EpochCap)
NoRequest == 0

------------------------------------------------------------------------------
(* The arguments of a call: the compiled key (opcode, members, and per     *)
(* source the landing order of its bitmap, whether its walk is no tree,    *)
(* and per destination expected_rx_bytes), its geometry (row stride), the  *)
(* groups of the participating cores and the epoch the caller asks for.    *)

\* The participating cores in ascending order.
Ascending == [S \in SUBSET Nodes |-> CHOOSE s \in [1..Cardinality(S) -> S] :
                                       \A i, j \in DOMAIN s : i < j => s[i] < s[j]]
Members == Ascending[DOMAIN call.groups]
Node == Members[turn]
Key == <<call.opcode, epoch[Members[1]][call.opcode]>>

\* KeyDefinition.land_counts: sources whose bitmap lands on n, n included.
LandCount(c, n) == Cardinality({m \in Nodes : n \in ToSet(c.lands[m])})

ExpVal(c, n) == Rows * RowBytes * LandCount(c, n)

\* Mutant of SelfOff: ranks counted from one.
SelfOffFromOne(n) == SelectInSeq(call.groups[n], LAMBDA m : m = n) * RowBytes

SelfOff(n) == (SelectInSeq(call.groups[n], LAMBDA m : m = n) - 1) * RowBytes

FlitHops(c, n) == Rows * Cardinality(ToSet(c.lands[n]) \ {n})

Drained == inFlight = 0

Outstanding(n) == DOMAIN accounts[n]

IsComplete(a) == a.counted >= a.expVal

------------------------------------------------------------------------------
(* A call that starts sound has a compiled key that matches its geometry   *)
(* and groups, the whole membership takes part, and the die holds no       *)
(* remains of an earlier call that would make a step raise. Nor does the   *)
(* fabric deliver to the source: land_counts would put its own rows into   *)
(* an expVal that no account reaches, for it never counts them.            *)
WellCompiled(c) ==
  /\ DOMAIN c.groups = c.members
  /\ c.cyclic = {} /\ ~c.selfDelivery
  /\ \A n \in c.members :
       /\ n \in ToSet(c.groups[n])
       /\ \A m \in ToSet(c.groups[n]) : m \in c.members /\ c.groups[m] = c.groups[n]
       /\ ToSet(c.lands[n]) = ToSet(c.groups[n]) \ {n}
       /\ c.expected[n] = ExpVal(c, n)
       /\ c.stride >= RowBytes * Len(c.groups[n])
  /\ \A n \in Nodes \ c.members : c.lands[n] = <<>>

ReadyFor(c) ==
  /\ c.request = NoRequest
  /\ c.opcode \in image
  /\ \A n, m \in c.members : epoch[n][c.opcode] = epoch[m][c.opcode]
  /\ \A n \in c.members :
       /\ Outstanding(n) = {}
       /\ \A k \in Keys : pending[n][k] = <<>>
       /\ epoch[n][c.opcode] = EpochCap => Drained

------------------------------------------------------------------------------
\* EpochTracker makes a counter of a core when it is first asked for: all read 0.
FreshCounters == [op \in Opcodes |-> 0]

Init ==
  /\ pc = "idle" /\ result = "none" /\ calls = 0
  /\ turn = 1 /\ at = 0 /\ entered = 0
  /\ call \in Calls
  /\ epoch = [n \in Nodes |-> FreshCounters]
  /\ accounts = [n \in Nodes |-> <<>>]
  /\ pending = [n \in Nodes |-> [k \in Keys |-> <<>>]]
  /\ sequence = [n \in Nodes |-> 0]
  /\ inFlight = 0
  /\ image = {}
  /\ round = epoch /\ leaked = 0 /\ stuck = {} /\ sound = FALSE

(* Noc.install_calreg: only while every window is drained. *)
InstallCalReg(img) ==
  /\ pc = "idle"
  /\ Drained
  /\ img # image
  /\ image' = img
  /\ UNCHANGED <<epoch, accounts, pending, sequence, inFlight, control, history>>

(* run_allgather is called; its argument checks raise before any change.   *)
Call(c) ==
  /\ pc = "idle" /\ calls < MaxCalls
  /\ DOMAIN c.groups # {} /\ DOMAIN c.groups \subseteq c.members
  /\ pc' = "epoch" /\ call' = c /\ turn' = 1 /\ at' = 0 /\ entered' = 0
  /\ calls' = calls + 1
  /\ sound' = (WellCompiled(c) /\ ReadyFor(c))
  /\ stuck' = stuck \cup {n \in Nodes : Outstanding(n) # {}}
  /\ UNCHANGED <<die, result, round, leaked>>

\* A step raises: the call returns and undoes nothing.
Abort == /\ pc' = "idle" /\ result' = "fault"
         /\ turn' = 1 /\ at' = 0 /\ entered' = 0
         /\ leaked' = leaked + entered
         /\ UNCHANGED <<call, calls, stuck, sound>>

\* The call goes on at another step or another iteration.
GoTo(step, member, landing) ==
  /\ pc' = step /\ turn' = member /\ at' = landing
  /\ UNCHANGED <<call, entered, result, calls, leaked, stuck, sound>>

\* The next iteration of the loop over the members, or the step after it.
NextMember(again, after) ==
  IF turn = Len(Members) THEN GoTo(after, 1, 0) ELSE GoTo(again, turn + 1, 0)

\* Mutant of Refused: a requested epoch is checked after the first core has
\* counted.
RefusedLate(v) == turn = 2 /\ call.request \notin {NoRequest, epoch[Members[1]][call.opcode]}

\* EpochCounter.next starts at 1, wraps to 1, and wraps only when drained.
NextValue(v) == IF v = EpochCap THEN 1 ELSE v + 1
Refused(v) == v = EpochCap /\ ~Drained

(* Step2: Noc.next_epoch on one member. *)
NextEpoch ==
  LET value == epoch[Node][call.opcode]
  IN  /\ pc = "epoch"
      /\ IF Refused(value)
         THEN Abort /\ UNCHANGED <<die, round>>
         ELSE /\ epoch' = [epoch EXCEPT ![Node][call.opcode] = NextValue(value)]
              /\ round' = [round EXCEPT ![Node][call.opcode] = @ + 1]
              /\ NextMember("epoch", "agree")
              /\ UNCHANGED <<accounts, pending, sequence, inFlight, image>>

\* assert_spmd_consistent, of the first member with all of them.
SpmdConsistent(op) ==
  \A n \in ToSet(Members) : epoch[n][op] = epoch[Members[1]][op]

(* Step2: the counters agree, and the requested epoch is theirs.           *)
Agree ==
  LET agreed == /\ SpmdConsistent(call.opcode)
                /\ call.request \in {NoRequest, epoch[Members[1]][call.opcode]}
  IN  /\ pc = "agree"
      /\ IF agreed THEN GoTo("post", 1, 0) ELSE Abort
      /\ UNCHANGED <<die, round>>

Command(n) == [dst |-> 0, capacity |-> Rows * call.stride, expVal |-> ExpVal(call, n),
               compiled |-> call.expected[n]]

\* The account CoreIngress.post installs, after it has adopted the buffer;
\* rounds are the rounds of the segments it has counted.
FreshAccount(n) ==
  LET c == Command(n)
      list == pending[n][Key]
      ids == Adopted(c, list)
  IN  [dst |-> c.dst, capacity |-> c.capacity, expVal |-> c.expVal, compiled |-> c.compiled,
       seen |-> ids, counted |-> RowBytes * Cardinality(ids),
       round |-> round[n][call.opcode],
       rounds |-> {list[x].round : x \in {y \in DOMAIN list : list[y].id \in ids}}]

\* The accounts of a core with one more for the key, or in place of the one there.
Installed(n, a) == [k \in Outstanding(n) \cup {Key} |-> IF k = Key THEN a ELSE accounts[n][k]]

\* Mutant of Post: a receive already outstanding for the key is taken as posted.
PostReuses ==
  /\ pc = "post"
  /\ IF Key \in Outstanding(Node)
     THEN NextMember("post", "release") /\ UNCHANGED accounts
     ELSE /\ accounts' = [accounts EXCEPT ![Node] = Installed(Node, FreshAccount(Node))]
          /\ NextMember("post", "release")
  /\ UNCHANGED <<epoch, pending, sequence, inFlight, image, round>>

(* Step3: construct and post the receive command of one member. The        *)
(* account stays posted, and the buffer empty, when the adoption raises.   *)
Post ==
  LET refused == \/ ~WellFormed(Command(Node))
                 \/ Key \in Outstanding(Node) /\ ~IsComplete(accounts[Node][Key])
  IN  /\ pc = "post"
      /\ IF refused
         THEN Abort /\ UNCHANGED <<accounts, pending>>
         ELSE /\ accounts' = [accounts EXCEPT ![Node] = Installed(Node, FreshAccount(Node))]
              /\ pending' = [pending EXCEPT ![Node][Key] = <<>>]
              /\ IF FaultPoints(Command(Node), pending[Node][Key]) # {}
                 THEN Abort ELSE NextMember("post", "release")
      /\ UNCHANGED <<epoch, sequence, inFlight, image, round>>

(* Step4, start of Noc.send: index CalReg[opcode] and walk the bitmap.     *)
Release ==
  /\ pc = "release"
  /\ IF call.opcode \notin image \/ Node \in call.cyclic
     THEN Abort ELSE GoTo("land", turn, 0)
  /\ UNCHANGED <<die, round>>

(* One landing of the current send: row after row, and within a row in the *)
(* order of the walk.                                                      *)
Walk == call.lands[Node]
Row == at \div Len(Walk)
Landing == Walk[(at % Len(Walk)) + 1]

Segment == [id |-> <<Node, sequence[Node] + Row>>,
            addr |-> Row * call.stride + SelfOff(Node),
            own |-> Landing = Node, committed |-> TRUE,
            round |-> round[Node][call.opcode]]

\* Without fabric self-delivery the source's own copy is not landed (Step4s).
OwnCopy == Landing = Node /\ ~call.selfDelivery

\* The account the current landing is delivered to, if it is outstanding.
Waiting == Key \in Outstanding(Landing)
Account == accounts[Landing][Key]

Counts == Countable(Segment) /\ Segment.id \notin Account.seen

Counted == [Account EXCEPT !.seen = @ \cup {Segment.id},
                           !.counted = @ + RowBytes,
                           !.rounds = @ \cup {Segment.round}]

Defer == /\ ~OwnCopy /\ ~Waiting
         /\ pending' = [pending EXCEPT ![Landing][Key] = Append(@, Segment)]
         /\ GoTo("land", turn, at + 1)
         /\ UNCHANGED accounts

Discard == /\ ~OwnCopy /\ Waiting /\ ~InRange(Account, Segment)
           /\ Abort
           /\ UNCHANGED <<accounts, pending>>

Count == /\ ~OwnCopy /\ Waiting /\ InRange(Account, Segment) /\ Counts
         /\ accounts' = [accounts EXCEPT ![Landing][Key] = Counted]
         /\ IF Counted.counted > Counted.capacity THEN Abort ELSE GoTo("land", turn, at + 1)
         /\ UNCHANGED pending

Pass == /\ OwnCopy \/ (Waiting /\ InRange(Account, Segment) /\ ~Counts)
        /\ GoTo("land", turn, at + 1)
        /\ UNCHANGED <<accounts, pending>>

Land == /\ pc = "land" /\ at < Rows * Len(Walk)
        /\ Defer \/ Discard \/ Count \/ Pass
        /\ UNCHANGED <<epoch, sequence, inFlight, image, round>>

\* Mutants of FinishSend: the windows also count the row kept by the source; a
\* source that lands nowhere does not return.
FinishSendOwnHops ==
  /\ pc = "land" /\ at = Rows * Len(Walk)
  /\ sequence' = [sequence EXCEPT ![Node] = @ + Max({1, Rows})]
  /\ inFlight' = inFlight + FlitHops(call, Node) + Rows
  /\ entered' = entered + FlitHops(call, Node)
  /\ IF turn = Len(Members) THEN pc' = "drain" /\ turn' = 1 ELSE pc' = "release" /\ turn' = turn + 1
  /\ at' = 0
  /\ UNCHANGED <<epoch, accounts, pending, image, call, result, calls, history>>
FinishSendSomewhere ==
  /\ pc = "land" /\ at = Rows * Len(Walk) /\ at > 0
  /\ sequence' = [sequence EXCEPT ![Node] = @ + Max({1, Rows})]
  /\ inFlight' = inFlight + FlitHops(call, Node)
  /\ entered' = entered + FlitHops(call, Node)
  /\ IF turn = Len(Members) THEN pc' = "drain" /\ turn' = 1 ELSE pc' = "release" /\ turn' = turn + 1
  /\ at' = 0
  /\ UNCHANGED <<epoch, accounts, pending, image, call, result, calls, history>>

(* End of Noc.send: the rows get their numbers and the windows are entered *)
(* only after every landing went through.                                  *)
FinishSend ==
  /\ pc = "land" /\ at = Rows * Len(Walk)
  /\ sequence' = [sequence EXCEPT ![Node] = @ + Max({1, Rows})]
  /\ inFlight' = inFlight + FlitHops(call, Node)
  /\ entered' = entered + FlitHops(call, Node)
  /\ IF turn = Len(Members) THEN pc' = "drain" /\ turn' = 1 ELSE pc' = "release" /\ turn' = turn + 1
  /\ at' = 0
  /\ UNCHANGED <<epoch, accounts, pending, image, call, result, calls, history>>

\* Mutant of ReadBack: the account of this call is read, whatever else is
\* outstanding.
ReadBackByKey(n) == Key \in Outstanding(n)

\* Step5 reads back the one outstanding account of a member, or raises.
ReadBack(n) == Cardinality(Outstanding(n)) = 1

Incomplete == {n \in ToSet(Members) : ~IsComplete(accounts[n][Key])}

(* Step5: drain the sends of this call and read every account back; Step6: *)
(* retire the accounts only when all of them are complete.                 *)
Close ==
  LET read == \A n \in ToSet(Members) : ReadBack(n)
      ok == Incomplete = {}
  IN  /\ pc = "drain"
      /\ inFlight' = Max({0, inFlight - entered})
      /\ pc' = "idle" /\ entered' = 0
      /\ result' = IF ~read THEN "fault" ELSE IF ok THEN "ok" ELSE "incomplete"
      /\ accounts' = IF read /\ ok
                     THEN [n \in Nodes |-> IF n \notin ToSet(Members) THEN accounts[n]
                                           ELSE [k \in Outstanding(n) \ {Key} |-> accounts[n][k]]]
                     ELSE accounts
      /\ UNCHANGED <<epoch, pending, sequence, image, call, turn, at, calls, history>>

Step == NextEpoch \/ Agree \/ Post \/ Release \/ Land \/ FinishSend \/ Close

Next == \/ \E c \in Calls : Call(c)
        \/ \E img \in Images : InstallCalReg(img)
        \/ Step

Spec == Init /\ [][Next]_vars

(* A call that has begun is executed to its end. *)
FairSpec == Spec /\ WF_vars(Step)

------------------------------------------------------------------------------
(* Properties *)

(* Every account, buffer, counter and cursor has its type.                 *)
TypeOK ==
  /\ pc \in {"idle", "epoch", "agree", "post", "release", "land", "drain"}
  /\ result \in {"none", "ok", "incomplete", "fault"}
  /\ call \in Calls /\ (pc # "idle" => turn \in 1..Len(Members)) /\ at \in Nat /\ entered \in Nat
  /\ epoch \in [Nodes -> [Opcodes -> 0..EpochCap]]
  /\ \A n \in Nodes :
       /\ Outstanding(n) \subseteq Keys
       /\ \A k \in Outstanding(n) : accounts[n][k].counted = RowBytes * Cardinality(accounts[n][k].seen)
       /\ DOMAIN pending[n] = Keys
       /\ sequence[n] \in Nat
  /\ inFlight \in Nat /\ leaked \in Nat /\ image \subseteq Opcodes

(* The closure of collective.py: a call whose compiled key, geometry and   *)
(* groups agree, made on a die with no remains of an earlier call, ends    *)
(* with every expVal reached and every account retired.                    *)
SoundCallCloses ==
  pc = "idle" /\ sound =>
    /\ result = "ok"
    /\ \A n \in call.members : Outstanding(n) = {}

(* Contract 7 and invariant E1: a receive command counts only payload that *)
(* was sent in its own round of the opcode domain, also after the epoch    *)
(* tags have wrapped and after calls that aborted halfway.                 *)
NoCrossRound ==
  \A n \in Nodes : \A k \in Outstanding(n) :
    accounts[n][k].rounds \subseteq {accounts[n][k].round}

(* Step6: an incomplete or aborted phase is not papered over: no later     *)
(* call that includes a core with a command left over ends ok.             *)
NotPaperedOver == pc = "idle" /\ result = "ok" => DOMAIN call.groups \cap stuck = {}

(* Step5 drains exactly what the sends entered: between calls the windows  *)
(* hold what aborted calls left in them, and no more.                      *)
OnlyAbortsLeak == pc = "idle" => inFlight = leaked

(* E1: between calls the counters of an opcode domain agree on all cores,  *)
(* whatever the calls before raised.                                       *)
EpochsAgree ==
  pc = "idle" => \A n, m \in Nodes, op \in Opcodes : epoch[n][op] = epoch[m][op]

(* A call that starts sound terminates with every expVal reached.          *)
SoundCallReturns == (pc = "epoch" /\ sound) ~> (pc = "idle" /\ result = "ok")
==============================================================================
