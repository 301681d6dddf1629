------------------------------ MODULE NodeEngine ------------------------------
(***************************************************************************)
(* The Calendar engine of one node as a queue graph (acir/model/top.py): a *)
(* source, the five rules in a row, a sink, for one event at a time.       *)
(* Beside it runs the core's own bookkeeping of the same rounds: the epoch *)
(* counters, the numbering of Noc.send and the identities the ledger       *)
(* counts (calendar/epoch.py, noc/network.py, calendar/receive.py).  The   *)
(* graph layer says of itself that it mirrors the core and must never      *)
(* disagree with it.                                                       *)
(*                                                                         *)
(* The frontend that commits the resident state is external: Sink hands    *)
(* the fields an event leaves with to the next event of its opcode, and a  *)
(* new round starts with clean ones.  Byte counts and addresses stay below *)
(* the widths of their fields.                                             *)
(***************************************************************************)
EXTENDS NodeBlocks

CONSTANTS
  Tables,       \* the tables a program may have: [Nodes -> entry]
  Placed,       \* the nodes the graph may be specialised for
  Images,       \* the sets of opcodes a CalReg image may install
  Sources,      \* the remote senders
  RowBytes,     \* bytes of a segment
  Addr,         \* [Nodes -> where a source's segments go]
  Dst,          \* the arena of the receive command
  Capacity,     \* its bytes
  Stride,       \* 2^8: one lane of the counter vector, or an epoch tag
  TagCapacity,  \* epochCapacity, the highest tag
  First,        \* [Nodes -> the segments it has numbered in earlier traffic]
  MaxSeq        \* [Nodes -> bound on the numbers it gives out]

ASSUME EngineAssumption ==
  /\ Placed \subseteq Nodes /\ Images \subseteq SUBSET (Opcodes \ Reserved)
  /\ Sources \subseteq Nodes /\ Addr \in [Nodes -> Nat] /\ Dst \in Nat
  /\ RowBytes \in Nat /\ Capacity \in Nat
  /\ First \in [Nodes -> Nat] /\ MaxSeq \in [Nodes -> Nat]
  /\ Stride \in Nat \ {0, 1} /\ TagCapacity \in 1..(Stride - 1)
  /\ Tables \subseteq [Nodes -> Entries] /\ \A t \in Tables : \A n \in Nodes : Packs(t[n])

VARIABLES
  self, table,       \* the fixed node and the program's table
  calreg,            \* the opcodes installed
  epochs, before,    \* per opcode, the core's counter now and before this round
  sequence,          \* per node, the next segment number
  sent,              \* the segments sent
  ledger,            \* per opcode, the segments the core counted in this round
  seen, counted,     \* per opcode, the resident fields of the engine
  complete,          \* per opcode, the completion last published
  accounted,         \* history: per opcode, the segments the engine accepted
  stage, v           \* the last rule passed and the event in the graph

program == <<self, table, calreg>>
core == <<epochs, before, sequence, sent, ledger>>
resident == <<seen, counted, complete, accounted>>
vars == <<program, core, resident, stage, v>>

Segment == [source: Nodes, seq: Nat, opcode: Opcodes, epoch: 1..TagCapacity]
Current(s) == s.epoch = epochs[s.opcode]
Stages == {"idle", "source", "loaded", "forwarded", "admitted", "epoch", "accounted"}

------------------------------------------------------------------------------
(* The core. *)

Init == /\ self \in Placed /\ table \in Tables /\ calreg \in Images
        /\ epochs = [op \in Opcodes |-> 0] /\ before = epochs
        /\ sequence = First /\ sent = {}
        /\ ledger = [op \in Opcodes |-> {}]
        /\ seen = [op \in Opcodes |-> {}] /\ counted = [op \in Opcodes |-> 0]
        /\ complete = [op \in Opcodes |-> FALSE]
        /\ accounted = [op \in Opcodes |-> {}]
        /\ stage = "idle" /\ v = [opcode |-> 0]

(* EpochCounter.next, and a receive command for the round. *)
NextTag(n) == IF n >= TagCapacity THEN 1 ELSE n + 1
NextRound(op, drained) ==
  /\ stage = "idle" /\ op \in calreg
  /\ epochs[op] >= TagCapacity => drained
  /\ before' = [before EXCEPT ![op] = epochs[op]]
  /\ epochs' = [epochs EXCEPT ![op] = NextTag(@)]
  /\ ledger' = [ledger EXCEPT ![op] = {}]
  /\ seen' = [seen EXCEPT ![op] = {}]
  /\ counted' = [counted EXCEPT ![op] = 0]
  /\ complete' = [complete EXCEPT ![op] = FALSE]
  /\ accounted' = [accounted EXCEPT ![op] = {}]
  /\ UNCHANGED <<program, sequence, sent, stage, v>>

(* Noc.send of another core: the number of a segment is its source's. *)
Send(s, op) ==
  /\ stage = "idle" /\ s # self /\ op \in calreg /\ epochs[op] # 0
  /\ sequence[s] < MaxSeq[s]
  /\ sequence' = [sequence EXCEPT ![s] = @ + 1]
  /\ sent' = sent \cup {[source |-> s, seq |-> sequence[s], opcode |-> op, epoch |-> epochs[op]]}
  /\ UNCHANGED <<program, epochs, before, ledger, resident, stage, v>>

\* What the ledger of the core counts, of an arrival that lands.
CoreCounts(s) ==
  /\ Current(s) /\ s.source # self
  /\ Inside(Addr[s.source], Addr[s.source] + RowBytes, Dst, Capacity)
  /\ table[s.source].bits[self] = Land

------------------------------------------------------------------------------
(* The graph. *)

\* The vector of all counters: one lane per opcode.
Counters == Value(before, OpcodeCount, Stride)[OpcodeCount]

Event(s, drained) ==
  [segment |-> s, opcode |-> s.opcode, tag |-> s.epoch, seq |-> s.seq,
   addr |-> Addr[s.source], bytes |-> RowBytes, own |-> s.source = self,
   lo |-> ToRegs(table[s.source]).lo, hi |-> ToRegs(table[s.source]).hi,
   pair |-> Absent, lane |-> 0, egress |-> 0,
   landCount |-> 0, flags |-> 0, exp |-> 0,
   dst |-> Dst, capacity |-> Capacity, counted |-> counted[s.opcode],
   seen |-> seen[s.opcode], calreg |-> calreg, gate |-> FALSE,
   ctr |-> Counters, drained |-> drained,
   epochNext |-> 0, epochOk |-> FALSE, epochWrap |-> FALSE,
   accepted |-> FALSE, complete |-> FALSE, fault |-> FALSE, code |-> "none"]

\* source: a segment of another core, whether it lands here, only passes
\* through, is not for this node at all, or carries the illegal pair.
Present(s, drained) ==
  /\ stage = "idle"
  /\ s \in sent
  /\ v' = Event(s, drained) /\ stage' = "source"
  /\ ledger' = [ledger EXCEPT ![s.opcode] = IF CoreCounts(s) THEN @ \cup {s} ELSE @]
  /\ UNCHANGED <<program, epochs, before, sequence, sent, resident>>

\* source: a release of the node's own core, of any opcode.
Release(op, drained) ==
  /\ stage = "idle"
  /\ v' = Event([source |-> self, seq |-> sequence[self], opcode |-> op,
                 epoch |-> epochs[op]], drained)
  /\ stage' = "source"
  /\ UNCHANGED <<program, core, resident>>

Rule(from, to, w) == /\ stage = from /\ stage' = to
                     /\ v' = w
                     /\ UNCHANGED <<program, core, resident>>

\* Mutant of Lane: nothing is shifted.
LaneZero(ctr, op) == ctr

\* The lane of an opcode, as the graph reads it: nothing is truncated above.
Lane(ctr, op) == Rest(ctr, Stride)[op]

EpochPolicy(w) ==
  LET lane == Lane(w.ctr, w.opcode)
      refuse == RefusesWrap(lane, TagCapacity, w.drained)
      wrap == WrapsOnlyWhenDrained(lane, TagCapacity, w.drained)
  IN [w EXCEPT !.epochNext = (IF lane = 0 \/ wrap THEN 1 ELSE lane + 1) % Stride,
               !.epochOk = ~refuse, !.epochWrap = refuse,
               !.fault = @ \/ refuse, !.accepted = @ /\ ~refuse]

Load == Rule("source", "loaded", LoadRouteEntry(v, self))
Forward == Rule("loaded", "forwarded", ApplyForward(v))
Admit == Rule("forwarded", "admitted", AdmitSend(v))
Epoch == Rule("admitted", "epoch", EpochPolicy(v))
Recv == Rule("epoch", "accounted", RecvWait(v))

Sink ==
  /\ stage = "accounted" /\ stage' = "idle"
  /\ seen' = [seen EXCEPT ![v.opcode] = v.seen]
  /\ counted' = [counted EXCEPT ![v.opcode] = v.counted]
  /\ complete' = [complete EXCEPT ![v.opcode] = v.complete]
  /\ accounted' = [accounted EXCEPT ![v.opcode] = IF v.accepted THEN @ \cup {v.segment} ELSE @]
  /\ v' = [opcode |-> 0]
  /\ UNCHANGED <<program, core>>

Next == \/ \E op \in Opcodes, d \in BOOLEAN : NextRound(op, d) \/ Release(op, d)
        \/ \E s \in Sources, op \in Opcodes : Send(s, op)
        \/ \E s \in sent, d \in BOOLEAN : Present(s, d)
        \/ Load \/ Forward \/ Admit \/ Epoch \/ Recv \/ Sink

Spec == Init /\ [][Next]_vars

------------------------------------------------------------------------------
(* Properties *)

TypeOK ==
  /\ epochs \in [Opcodes -> 0..TagCapacity] /\ before \in [Opcodes -> 0..TagCapacity]
  /\ sequence \in [Nodes -> Nat] /\ sent \subseteq Segment
  /\ ledger \in [Opcodes -> SUBSET sent]
  /\ seen \in [Opcodes -> SUBSET (0..(SeenCapacity - 1))]
  /\ counted \in [Opcodes -> Nat] /\ complete \in [Opcodes -> BOOLEAN]
  /\ accounted \in [Opcodes -> SUBSET sent] /\ stage \in Stages

(* The pair and the fields the two loads bring in are those the compiler    *)
(* wrote into the row of the source, for every fixed node, and the whole    *)
(* entry can be read back from the two registers.                           *)
LoadedAsWritten ==
  stage \notin {"idle", "source"} =>
    LET e == table[v.segment.source]
    IN /\ v.pair = e.bits[self] /\ v.landCount = LandCount(e.bits)
       /\ v.flags = e.flags /\ v.exp = e.exp
       /\ FromRegs([lo |-> v.lo, hi |-> v.hi]) = [e EXCEPT !.declared = LandCount(e.bits)]

\* No opcode above op had a round before this one.
HigherIdle(op) == \A o \in Opcodes : o > op => before[o] = 0

\* The segments whose row makes this node a land point.
LandsHere(s) == table[s.source].bits[self] = Land

(* Contracts 1, 2 and 5 in the graph: what it accounts in a round, copies   *)
(* and faults included, is a set of segments.  recv_wait does not look at   *)
(* the pair, so of those that only pass or are not for this node it claims  *)
(* nothing more; each that lands is counted by the ledger, unless it is     *)
(* left over from another round.  What the ledger counts and the graph      *)
(* refuses has one of four reasons: its row waits for more than the arena   *)
(* holds, its number is beyond the vector or taken by another source, or a  *)
(* wrap is refused, which a counter of a higher opcode causes as well.      *)
AccountsAgree ==
  /\ \A op \in Opcodes :
       /\ counted[op] = RowBytes * Cardinality(accounted[op])
       /\ \A s \in accounted[op] : Current(s) /\ LandsHere(s) => s \in ledger[op]
  /\ LET s == v.segment
     IN stage = "accounted" /\ Current(s) /\ s \in ledger[s.opcode] \ accounted[s.opcode] =>
          \/ v.accepted
          \/ table[s.source].exp > Capacity
          \/ s.seq >= SeenCapacity
          \/ \E t \in accounted[s.opcode] : t.seq = s.seq
          \/ v.epochWrap /\ (before[s.opcode] = TagCapacity \/ ~HigherIdle(s.opcode))

(* With exp the same in every row, the graph reports completion only when   *)
(* the ledger has what the receive command waits for, unless it has         *)
(* accounted a segment of another round or one that does not land here.     *)
CompleteTogether ==
  \A op \in Opcodes :
    /\ complete[op]
    /\ \A n \in Nodes : table[n].exp = table[self].exp
    /\ \A s \in accounted[op] : Current(s) /\ LandsHere(s)
    => RowBytes * Cardinality(ledger[op]) >= table[self].exp

(* acir/README.md: the core is the authority, "this layer mirrors it and    *)
(* must never disagree with it". Of the segments whose route passes this    *)
(* node, what the graph accounts in a round the core's ledger counts.       *)
MirrorsLedger ==
  \A op \in Opcodes : \A s \in accounted[op] :
    Current(s) /\ Passes(table[s.source].bits[self]) => s \in ledger[op]

(* The tag the graph computes is the round of the core's counter, while no  *)
(* higher opcode has been used.                                             *)
TagAgrees ==
  stage \in {"epoch", "accounted"} /\ v.epochOk
    /\ epochs[v.opcode] # 0 /\ HigherIdle(v.opcode) => v.epochNext = epochs[v.opcode]

(* acir/README.md, rule 5: the counter is per opcode, so one domain cannot  *)
(* perturb another (blocks/epoch.py).                                       *)
PerOpcode ==
  stage \in {"epoch", "accounted"} /\ v.epochOk
    /\ epochs[v.opcode] # 0 => v.epochNext = epochs[v.opcode]
==============================================================================
