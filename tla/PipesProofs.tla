------------------------------ MODULE PipesProofs ------------------------------
(***************************************************************************)
(* The step order of the cores of an opcode, for every finite set of them, *)
(* every division into groups and every width of the semaphore, every      *)
(* number of sends and of rounds.                                          *)
(***************************************************************************)
EXTENDS Pipes, FiniteSetTheorems, TLAPS

------------------------------------------------------------------------------
(* The inductive invariant. *)

\* A core past its barrier has no compute command left.
Quiet(c) == ~At(c, "produce") /\ ~At(c, "barrier") => outstanding[c]["PIPE_M"] = 0

\* The send pipe holds what was issued and not emitted, and only Step4 and
\* Step5 know issued sends.
Queue(c) == /\ outstanding[c]["PIPE_MTE3"] = issued[c] - sent[c]
            /\ sent[c] <= issued[c]
            /\ At(c, "send") => issued[c] < Sends
            /\ At(c, "join") => issued[c] = Sends
            /\ ~At(c, "send") /\ ~At(c, "join") => issued[c] = 0

\* The rounds before a core's own are emitted whole, those after it not at all.
Emitted(c) ==
  \A r \in Rounds :
    /\ r < round[c] => emitted[c][r] = Sends
    /\ r > round[c] => emitted[c][r] = 0
    /\ r = round[c] => emitted[c][r] = IF At(c, "done") THEN Sends ELSE sent[c]

\* A core has reported its arrival for a round.
Early == {"produce", "barrier", "report"}
Reached(d, r) == round[d] > r \/ (round[d] = r /\ step[d] \notin Early)
Reporters(r) == {d \in Cores : Reached(d, r)}

\* The semaphore of a round counts each core once.
Counted == \A r \in Rounds : arrivals[r] = Cardinality(Reporters(r))

\* A core past its alignment is in step with all others.
Aligned(c) ==
  At(c, "recv") \/ At(c, "send") \/ At(c, "join") =>
    \A d \in Cores : Reached(d, round[c])

Ledger == \A c \in Cores : Quiet(c) /\ Queue(c) /\ Emitted(c)
PipesInv == TypeOK /\ Ledger /\ Counted /\ \A c \in Cores : Aligned(c)

------------------------------------------------------------------------------
(* The bounds are positive numbers, so that there is a first round.        *)
LEMMA Bounds == /\ Sends \in Nat /\ Sends > 0
                /\ MaxRounds \in Nat /\ 1 \in Rounds /\ MaxRounds \in Rounds
  BY PipesAssumption DEF PipesAssumption, Rounds

(* No core has done anything in the initial state.                         *)
LEMMA PipesInitial == Init => PipesInv
<1> SUFFICES ASSUME Init PROVE PipesInv
    OBVIOUS
<1>1. TypeOK
      BY Bounds DEF Init, TypeOK, Steps
<1>2. Ledger
      BY Bounds DEF Init, Ledger, Quiet, Queue, Emitted, At, Rounds, Pipe
<1>3. \A c \in Cores : Aligned(c)
      BY DEF Init, Aligned, At
<1>4. Counted
      <2>1. \A r \in Rounds : Reporters(r) = {}
            BY DEF Init, Reporters, Reached, Early, Rounds
      <2> QED BY <2>1, FS_EmptySet DEF Init, Counted
<1> QED BY <1>1, <1>2, <1>3, <1>4 DEF PipesInv

(* A core that still has a round has a next one.                           *)
LEMMA NextRound == \A r \in Rounds : r \in Nat /\ (r # MaxRounds => r + 1 \in Rounds)
  BY Bounds DEF Rounds

(* Counting one arrival more keeps the counters' type.                     *)
LEMMA CountOneMore ==
  ASSUME NEW S, NEW f \in [S -> Nat], NEW r \in S
  PROVE  [f EXCEPT ![r] = @ + 1] \in [S -> Nat]
  OBVIOUS

(* A core's own steps and its pipes keep the types and the ledger.         *)
LEMMA LedgerStep ==
  ASSUME TypeOK, Ledger, NEW c \in Cores, Core(c) \/ Unit(c) \/ BeginWait(c)
  PROVE  TypeOK' /\ Ledger'
<1> DEFINE Whole(b) == Quiet(b) /\ Queue(b) /\ Emitted(b)
<1> USE DEF At, GoTo
<1>q. /\ issued[c] \in Nat /\ sent[c] \in Nat /\ Sends \in Nat
      /\ sent[c] <= issued[c] /\ issued[c] <= Sends
      /\ outstanding[c]["PIPE_MTE3"] = issued[c] - sent[c]
      /\ round[c] \in Rounds
      BY Bounds DEF TypeOK, Ledger, Queue
<1>o. \A b \in Cores : Whole(b)
      BY DEF Ledger
<1>l. (\A b \in Cores \ {c} : Whole(b)') /\ Whole(c)' => Ledger'
      BY DEF Ledger
<1>1. CASE Produce(c)
      <2>1. TypeOK' BY <1>1 DEF Produce, Issue, TypeOK, Pipe, Steps
      <2>2. \A b \in Cores : Whole(b)'
            BY <1>1, <1>o DEF Produce, Issue, TypeOK, Pipe, Quiet, Queue, Emitted
      <2> QED BY <2>1, <2>2, <1>l
<1>2. CASE Barrier(c)
      <2>1. TypeOK' BY <1>2 DEF Barrier, tracker, TypeOK, Steps
      <2>2. \A b \in Cores : Whole(b)'
            BY <1>2, <1>o DEF Barrier, tracker, Drained, TypeOK, Pipe, Quiet, Queue, Emitted
      <2> QED BY <2>1, <2>2, <1>l
<1>3. CASE Align(c)
      <2>1. TypeOK' BY <1>3 DEF Align, tracker, TypeOK, Steps
      <2>2. \A b \in Cores : Whole(b)'
            BY <1>3, <1>o DEF Align, tracker, TypeOK, Quiet, Queue, Emitted
      <2> QED BY <2>1, <2>2, <1>l
<1>r. CASE Report(c)
      <2>1. TypeOK'
            <3>1. arrivals' \in [Rounds -> Nat]
                  BY <1>r, <1>q, CountOneMore DEF Report, Arrive, TypeOK
            <3> QED BY <1>r, <3>1 DEF Report, tracker, TypeOK, Steps
      <2>2. \A b \in Cores : Whole(b)'
            BY <1>r, <1>o DEF Report, tracker, TypeOK, Quiet, Queue, Emitted
      <2> QED BY <2>1, <2>2, <1>l
<1>4. CASE Recv(c)
      <2>1. TypeOK' BY <1>4 DEF Recv, Issue, TypeOK, Pipe, Steps
      <2>2. \A b \in Cores : Whole(b)'
            BY <1>4, <1>o, Bounds DEF Recv, Issue, TypeOK, Pipe, Quiet, Queue, Emitted
      <2> QED BY <2>1, <2>2, <1>l
<1>5. CASE Send(c)
      <2>1. TypeOK'
            <3>1. outstanding' \in [Cores -> [Pipe -> Nat]]
                  BY <1>5 DEF Send, Issue, TypeOK, Pipe
            <3>2. issued' \in [Cores -> 0..Sends]
                  BY <1>5, <1>q, <1>o DEF Send, TypeOK, Queue
            <3>3. step' \in [Cores -> Steps]
                  BY <1>5 DEF Send, TypeOK, Steps
            <3> QED BY <1>5, <3>1, <3>2, <3>3 DEF Send, TypeOK
      <2>2. \A b \in Cores \ {c} : Whole(b)'
            BY <1>5, <1>o DEF Send, Issue, TypeOK, Quiet, Queue, Emitted
      <2>3. Quiet(c)' /\ Emitted(c)'
            BY <1>5, <1>o DEF Send, Issue, TypeOK, Pipe, Quiet, Emitted
      <2>4. /\ issued'[c] = issued[c] + 1 /\ sent'[c] = sent[c]
            /\ outstanding'[c]["PIPE_MTE3"] = outstanding[c]["PIPE_MTE3"] + 1
            /\ step'[c] = IF issued[c] + 1 = Sends THEN "join" ELSE "send"
            /\ issued[c] < Sends
            BY <1>5, <1>o DEF Send, Issue, TypeOK, Pipe, Queue
      <2>5. Queue(c)'
            BY <2>4, <1>q DEF Queue
      <2> QED BY <2>1, <2>2, <2>3, <2>5, <1>l
<1>6. CASE Join(c)
      <2>1. /\ sent[c] = Sends /\ issued[c] = Sends
            /\ ~At(c, "done") /\ emitted[c][round[c]] = Sends
            BY <1>6, <1>o, <1>q DEF Join, AdmitsRelease, Queue, Emitted
      <2>2. /\ issued'[c] = 0 /\ sent'[c] = 0 /\ emitted' = emitted
            /\ outstanding'[c]["PIPE_MTE3"] = outstanding[c]["PIPE_MTE3"]
            /\ outstanding'[c]["PIPE_M"] = outstanding[c]["PIPE_M"]
            BY <1>6 DEF Join, Retire, TypeOK, Pipe
      <2>3. TypeOK'
            <3>1. outstanding' \in [Cores -> [Pipe -> Nat]]
                  BY <1>6 DEF Join, Retire, TypeOK, Pipe
            <3>2. round' \in [Cores -> Rounds] /\ step' \in [Cores -> Steps]
                  <4>1. CASE round[c] = MaxRounds
                        BY <1>6, <4>1 DEF Join, TypeOK, Steps
                  <4>2. CASE round[c] # MaxRounds
                        <5>1. round[c] + 1 \in Rounds
                              BY <4>2, <1>q, NextRound
                        <5> QED BY <1>6, <4>2, <5>1 DEF Join, TypeOK, Steps
                  <4> QED BY <4>1, <4>2
            <3>3. issued' \in [Cores -> 0..Sends] /\ sent' \in [Cores -> 0..Sends]
                  BY <1>6, Bounds DEF Join, TypeOK
            <3> QED BY <1>6, <3>1, <3>2, <3>3 DEF Join, TypeOK
      <2>4. \A b \in Cores \ {c} : Whole(b)'
            BY <1>6, <1>o DEF Join, Retire, TypeOK, Quiet, Queue, Emitted
      <2>5. CASE round[c] = MaxRounds
            <3>1. step'[c] = "done" /\ round'[c] = round[c] /\ step[c] = "join"
                  BY <1>6, <2>5 DEF Join, TypeOK
            <3>2. Quiet(c)' /\ Queue(c)'
                  BY <3>1, <2>1, <2>2, <1>o, <1>q DEF Quiet, Queue
            <3>3. Emitted(c)'
                  BY <3>1, <2>1, <2>2, <1>o, <1>q DEF Emitted
            <3> QED BY <3>2, <3>3, <2>3, <2>4, <1>l
      <2>6. CASE round[c] # MaxRounds
            <3>1. step'[c] = "produce" /\ round'[c] = round[c] + 1 /\ step[c] = "join"
                  BY <1>6, <2>6 DEF Join, TypeOK
            <3>2. Quiet(c)' /\ Queue(c)'
                  BY <3>1, <2>1, <2>2, <1>q DEF Quiet, Queue
            <3>3. \A r \in Rounds : r <= round[c] => emitted[c][r] = Sends
                  <4> TAKE r \in Rounds
                  <4>1. r \in Nat /\ round[c] \in Nat
                        BY <1>q, NextRound
                  <4>2. r < round[c] => emitted[c][r] = Sends
                        BY <1>o DEF Emitted
                  <4>3. r = round[c] => emitted[c][r] = Sends
                        BY <2>1
                  <4> QED BY <4>1, <4>2, <4>3
            <3>4. \A r \in Rounds : r > round[c] => emitted[c][r] = 0
                  BY <1>o DEF Emitted
            <3>5. Emitted(c)'
                  BY <3>1, <3>3, <3>4, <2>2, <1>q, NextRound DEF Emitted
            <3> QED BY <3>2, <3>5, <2>3, <2>4, <1>l
      <2> QED BY <2>5, <2>6
<1>7. CASE Compute(c)
      <2>1. TypeOK' BY <1>7 DEF Compute, Retire, TypeOK, Pipe
      <2>2. \A b \in Cores : Whole(b)'
            BY <1>7, <1>o DEF Compute, Retire, TypeOK, Pipe, Quiet, Queue, Emitted
      <2> QED BY <2>1, <2>2, <1>l
<1>8. CASE Emit(c)
      <2>1. outstanding[c]["PIPE_MTE3"] > 0
            BY <1>8 DEF Emit, Retire
      <2>2. sent[c] < issued[c] /\ issued[c] > 0 /\ sent[c] + 1 \in 0..Sends
            BY <2>1, <1>q
      <2>3. ~At(c, "done") /\ emitted[c][round[c]] = sent[c]
            BY <2>2, <1>o, <1>q DEF Queue, Emitted
      <2>4. TypeOK'
            <3>1. outstanding' \in [Cores -> [Pipe -> Nat]]
                  BY <1>8 DEF Emit, Retire, TypeOK, Pipe
            <3>2. sent' \in [Cores -> 0..Sends]
                  BY <1>8, <2>2 DEF Emit, TypeOK
            <3>3. arrived' \in [Cores -> [Rounds -> Nat]]
                  BY <1>8, <1>q, CountOneMore DEF Emit, TypeOK
            <3>4. emitted' \in [Cores -> [Rounds -> 0..Sends]]
                  BY <1>8, <1>q, <2>2, <2>3 DEF Emit, TypeOK
            <3> QED BY <1>8, <3>1, <3>2, <3>3, <3>4 DEF Emit, TypeOK
      <2>5. \A b \in Cores \ {c} : Whole(b)'
            BY <1>8, <1>o DEF Emit, Retire, TypeOK, Quiet, Queue, Emitted
      <2>6. Quiet(c)'
            BY <1>8, <1>o DEF Emit, Retire, TypeOK, Pipe, Quiet
      <2>7. /\ issued' = issued /\ step' = step /\ round' = round
            /\ sent'[c] = sent[c] + 1
            /\ outstanding'[c]["PIPE_MTE3"] = outstanding[c]["PIPE_MTE3"] - 1
            BY <1>8 DEF Emit, Retire, TypeOK, Pipe
      <2>8. Queue(c)'
            BY <2>2, <2>7, <1>o, <1>q DEF Queue
      <2>9. \A r \in Rounds : emitted'[c][r] =
              IF r = round[c] THEN emitted[c][r] + 1 ELSE emitted[c][r]
            BY <1>8 DEF Emit, TypeOK
      <2>10. Emitted(c)'
            BY <2>3, <2>7, <2>9, <1>o, <1>q, NextRound DEF Emitted
      <2> QED BY <2>4, <2>5, <2>6, <2>8, <2>10, <1>l
<1>9. CASE EndWait(c) \/ BeginWait(c)
      <2>1. TypeOK' BY <1>9 DEF EndWait, BeginWait, TypeOK
      <2>2. \A b \in Cores : Whole(b)'
            BY <1>9, <1>o DEF EndWait, BeginWait, Quiet, Queue, Emitted
      <2> QED BY <2>1, <2>2, <1>l
<1> QED BY <1>1, <1>2, <1>3, <1>r, <1>4, <1>5, <1>6, <1>7, <1>8, <1>9 DEF Core, Unit

(* A core reaches a round's alignment by reporting, and stays beyond it.   *)
LEMMA ReachedStep ==
  ASSUME TypeOK, NEW c \in Cores, Core(c) \/ Unit(c) \/ BeginWait(c),
         NEW d \in Cores, NEW r \in Rounds
  PROVE  Reached(d, r)' <=> Reached(d, r) \/ (Report(c) /\ d = c /\ r = round[c])
<1> USE DEF Reached, At, GoTo, TypeOK, Rounds, Early
<1>1. CASE Join(c)
      <2>1. round[c] \in Nat /\ r \in Nat /\ ~Report(c)
            BY <1>1, Bounds DEF Join, Report
      <2>2. CASE d # c
            BY <1>1, <2>1, <2>2 DEF Join
      <2>3. CASE d = c /\ round[c] = MaxRounds
            BY <1>1, <2>1, <2>3 DEF Join
      <2>4. CASE d = c /\ round[c] # MaxRounds
            <3>1. /\ round'[c] = round[c] + 1 /\ step'[c] = "produce"
                  /\ step[c] = "join"
                  BY <1>1, <2>1, <2>4 DEF Join
            <3> QED BY <2>1, <2>4, <3>1
      <2> QED BY <2>2, <2>3, <2>4
<1>2. CASE Produce(c) \/ Barrier(c) \/ Align(c) \/ Recv(c)
      BY <1>2 DEF Produce, Barrier, Align, Recv, Report
<1>3. CASE Send(c)
      BY <1>3 DEF Send, Report
<1>4. CASE Report(c)
      BY <1>4, Bounds DEF Report
<1>5. CASE Unit(c) \/ BeginWait(c)
      <2>1. UNCHANGED <<step, round>> /\ (Report(c) => FALSE)
            BY <1>5 DEF Unit, BeginWait, Compute, Emit, EndWait, Report, Retire, tracker
      <2> QED BY <2>1
<1> QED BY <1>1, <1>2, <1>3, <1>4, <1>5 DEF Core

(* The semaphore of a round keeps counting the cores that reported.        *)
LEMMA CountedStep ==
  ASSUME TypeOK, Counted, NEW c \in Cores, Core(c) \/ Unit(c) \/ BeginWait(c)
  PROVE  Counted'
<1> SUFFICES ASSUME NEW r \in Rounds PROVE arrivals'[r] = Cardinality(Reporters(r)')
    BY DEF Counted
<1>1. IsFiniteSet(Reporters(r)) /\ arrivals[r] = Cardinality(Reporters(r))
      BY PipesAssumption, FS_Subset DEF PipesAssumption, Reporters, Counted
<1>2. CASE Report(c) /\ r = round[c]
      <2>1. Reporters(r)' = Reporters(r) \cup {c}
            BY <1>2, ReachedStep DEF Reporters
      <2>2. c \notin Reporters(r)
            BY <1>2, Bounds DEF Report, At, Reporters, Reached, Early, TypeOK, Rounds
      <2>3. arrivals'[r] = arrivals[r] + 1
            BY <1>2 DEF Report, Arrive, TypeOK
      <2> QED BY <1>1, <2>1, <2>2, <2>3, FS_AddElement
<1>3. CASE ~(Report(c) /\ r = round[c])
      <2>1. Reporters(r)' = Reporters(r)
            BY <1>3, ReachedStep DEF Reporters
      <2>2. arrivals'[r] = arrivals[r]
            BY <1>3 DEF TypeOK, Core, Unit, Produce, Barrier, Report, Arrive, Align, Recv,
               Send, Join, Compute, Emit, EndWait, BeginWait
      <2> QED BY <1>1, <2>1, <2>2
<1> QED BY <1>2, <1>3

(* When the count of a round is that of the cores, all have reported.      *)
LEMMA FullCount ==
  ASSUME Counted, NEW r \in Rounds, arrivals[r] = Cardinality(Cores)
  PROVE  \A d \in Cores : Reached(d, r)
<1>1. Reporters(r) \in SUBSET Cores /\ Cardinality(Reporters(r)) = Cardinality(Cores)
      BY DEF Counted, Reporters
<1>2. Reporters(r) = Cores
      BY <1>1, FS_Subset, PipesAssumption DEF PipesAssumption
<1> QED BY <1>2 DEF Reporters

(* A core is past its alignment only after all have reached it.            *)
LEMMA AlignedStep ==
  ASSUME TypeOK, Counted, \A b \in Cores : Aligned(b),
         NEW c \in Cores, Core(c) \/ Unit(c) \/ BeginWait(c), NEW b \in Cores
  PROVE  Aligned(b)'
<1> SUFFICES ASSUME At(b, "recv")' \/ At(b, "send")' \/ At(b, "join")'
             PROVE  \A d \in Cores : Reached(d, round[b])'
    BY DEF Aligned
<1>1. round'[b] = round[b]
      BY DEF At, GoTo, TypeOK, Core, Unit, Produce, Barrier, Report, Align, Recv, Send, Join,
         Compute, Emit, EndWait, BeginWait
<1>2. \A d \in Cores : Reached(d, round[b])
      <2>1. CASE At(b, "recv") \/ At(b, "send") \/ At(b, "join")
            BY <2>1 DEF Aligned
      <2>2. CASE ~(At(b, "recv") \/ At(b, "send") \/ At(b, "join"))
            <3>1. b = c /\ Align(c)
                  BY <2>2 DEF At, GoTo, TypeOK, Core, Unit, Produce, Barrier, Report, Align,
                     Recv, Send, Join, Compute, Emit, EndWait, BeginWait
            <3>2. round[b] \in Rounds /\ arrivals[round[b]] = Cardinality(Cores)
                  BY <3>1 DEF Align, TypeOK
            <3> QED BY <3>2, FullCount
      <2> QED BY <2>1, <2>2
<1>3. round[b] \in Rounds
      BY DEF TypeOK
<1>4. \A d \in Cores, r \in Rounds : Reached(d, r) => Reached(d, r)'
      BY ReachedStep
<1> QED BY <1>1, <1>2, <1>3, <1>4 DEF Reached

(* Every step keeps the invariant.                                         *)
LEMMA PipesStep == PipesInv /\ [Next]_vars => PipesInv'
<1> SUFFICES ASSUME PipesInv, [Next]_vars PROVE PipesInv'
    OBVIOUS
<1>1. CASE \E c \in Cores : Core(c) \/ Unit(c) \/ BeginWait(c)
      <2>1. PICK c \in Cores : Core(c) \/ Unit(c) \/ BeginWait(c)
            BY <1>1
      <2> QED BY <2>1, LedgerStep, CountedStep, AlignedStep DEF PipesInv
<1>2. CASE UNCHANGED vars
      BY <1>2 DEF vars, tracker, PipesInv, TypeOK, Ledger, Quiet, Queue, Emitted,
         Counted, Reporters, Aligned, Reached, At
<1> QED BY <1>1, <1>2 DEF Next, Rest

(* The invariant that the theorems below follow from.                      *)
THEOREM PipesInvariant == Spec => []PipesInv
BY PipesInitial, PipesStep, PTL DEF Spec

------------------------------------------------------------------------------
(* The trackers, the rounds and the histories keep their types: no pipe    *)
(* retires a command that it does not hold.                                *)
THEOREM PipesTypeCorrect == Spec => []TypeOK
<1>1. PipesInv => TypeOK
      BY DEF PipesInv
<1> QED BY <1>1, PipesInvariant, PTL

(* A core that has left a round has emitted all its sends of that round:   *)
(* the barrier of the send pipe does not let one slip into the next.       *)
THEOREM LeavesNothingBehind == Spec => []NothingLeftBehind
<1>1. PipesInv => NothingLeftBehind
      BY DEF PipesInv, Ledger, Emitted, NothingLeftBehind, TypeOK
<1> QED BY <1>1, PipesInvariant, PTL

(* Nothing of a round is sent before every core of the group has produced  *)
(* and come to the alignment of that round.                                *)
THEOREM SendsAfterProduction == Spec => []ProducedBeforeSent
<1>1. PipesInv => ProducedBeforeSent
      <2> SUFFICES ASSUME PipesInv, NEW c \in Cores, NEW d \in Cores, issued[c] > 0
                   PROVE  /\ round[d] >= round[c]
                          /\ round[d] = round[c] =>
                               ~At(d, "produce") /\ ~At(d, "barrier")
                                 /\ outstanding[d]["PIPE_M"] = 0
          BY DEF ProducedBeforeSent
      <2>1. At(c, "send") \/ At(c, "join")
            BY DEF PipesInv, Ledger, Queue
      <2>2. Reached(d, round[c])
            BY <2>1 DEF PipesInv, Aligned
      <2>3. round[d] \in Nat /\ round[c] \in Nat
            BY DEF PipesInv, TypeOK, Rounds
      <2> QED BY <2>2, <2>3 DEF Reached, Early, At, PipesInv, Ledger, Quiet
<1> QED BY <1>1, PipesInvariant, PTL

(* HW-7: where check_width holds, no report of a core is ever refused: the *)
(* semaphore counts a core once per rendezvous and does not wrap.          *)
Countable == \A c \in Cores : At(c, "report") => arrivals[round[c]] + 1 <= SemaphoreCapacity
THEOREM NeverWraps ==
  ASSUME SemaphoreCapacity \in Int, Cardinality(Cores) <= SemaphoreCapacity
  PROVE  Spec => []Countable
<1>1. PipesInv => Countable
      <2> SUFFICES ASSUME PipesInv, NEW c \in Cores, At(c, "report")
                   PROVE  arrivals[round[c]] + 1 <= SemaphoreCapacity
          BY DEF Countable
      <2> DEFINE S == Reporters(round[c])
      <2>1. /\ round[c] \in Rounds /\ arrivals[round[c]] = Cardinality(S)
            /\ IsFiniteSet(Cores) /\ S \in SUBSET Cores /\ S \cup {c} \in SUBSET Cores
            BY PipesAssumption DEF PipesAssumption, PipesInv, TypeOK, Counted, Reporters
      <2>2. c \notin S
            BY <2>1, Bounds DEF At, Reporters, Reached, Early, Rounds
      <2>3. IsFiniteSet(S) /\ Cardinality(S \cup {c}) <= Cardinality(Cores)
            BY <2>1, FS_Subset
      <2>4. Cardinality(S) \in Nat /\ Cardinality(Cores) \in Nat
              /\ Cardinality(S \cup {c}) = Cardinality(S) + 1
            BY <2>1, <2>2, <2>3, FS_AddElement, FS_CardinalityType
      <2> QED BY <2>1, <2>3, <2>4
<1> QED BY <1>1, PipesInvariant, PTL
==============================================================================
