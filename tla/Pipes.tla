--------------------------------- MODULE Pipes ---------------------------------
(***************************************************************************)
(* The pipes of the cores of one opcode running the Calendar steps         *)
(* (core/pipelines.py): each core has a PipeTracker, takes Step1 to Step6  *)
(* of the step table round after round, and ends a round behind the        *)
(* barrier of its send pipe and the wait of its receive pipe. All of them  *)
(* meet at the alignment semaphore of the opcode (AlignmentDomain in       *)
(* calendar/collective.py), one for each rendezvous, whatever their group. *)
(* A send that is emitted reaches every other core of its group, whose     *)
(* receive counts it: that is not in the tracker.                          *)
(***************************************************************************)
EXTENDS Integers, FiniteSets

CONSTANTS Cores,     \* the cores that use the opcode
          Group,     \* core -> its collective group
          WidthBits, \* the width of the alignment semaphore
          Sends,     \* send commands of a core per round
          MaxRounds  \* bound on the rounds

ASSUME PipesAssumption ==
  /\ IsFiniteSet(Cores) /\ Cores # {}
  /\ Group \in [Cores -> SUBSET Cores]
  /\ \A c \in Cores : c \in Group[c] /\ \A d \in Group[c] : Group[d] = Group[c]
  /\ WidthBits \in Nat /\ Sends \in Nat \ {0} /\ MaxRounds \in Nat \ {0}

VARIABLES
  outstanding,  \* core -> pipe -> commands
  waiting,      \* mte4_waiting of each core
  arrivals,     \* round -> the arrivals its semaphore has counted
  step,         \* the step each core takes next
  round,        \* the round each core is in
  issued,       \* sends of the round a core has issued
  sent,         \* sends of the round that were emitted
  arrived,      \* core -> round -> the sends of others that arrived
  emitted       \* history: core -> round -> its sends of that round

tracker == <<outstanding, waiting>>
vars == <<tracker, arrivals, step, round, issued, sent, arrived, emitted>>

Pipe == {"PIPE_S", "PIPE_MTE3", "PIPE_MTE4", "PIPE_M"}
Rounds == 1..MaxRounds
Steps == {"produce", "barrier", "report", "align", "recv", "send", "join", "done"}
Expected(c) == Sends * (Cardinality(Group[c]) - 1)

------------------------------------------------------------------------------
(* AlignmentDomain. *)

SemaphoreCapacity == 2^WidthBits - 1

\* required_width_for: the bits of the number of members.
RequiredWidth(members) ==
  CHOOSE w \in 1..(members + 1) :
    members < 2^w /\ \A v \in 1..(w - 1) : members >= 2^v

\* report refuses to wrap.
Arrive(r) == /\ arrivals[r] + 1 <= SemaphoreCapacity
             /\ arrivals' = [arrivals EXCEPT ![r] = @ + 1]

------------------------------------------------------------------------------
(* PipeTracker of core c. *)

\* Mutant of Independent: the send pipe shares the stall.
IndependentScalar == {"PIPE_S"}

\* INDEPENDENT_FROM_MTE4.
Independent == {"PIPE_S", "PIPE_MTE3"}

Dispatchable(c) == IF waiting[c] THEN Independent ELSE Pipe

Issue(c, pipe) == /\ pipe \in Dispatchable(c)
                  /\ outstanding' = [outstanding EXCEPT ![c][pipe] = @ + 1]

Retire(c, pipe) == /\ outstanding[c][pipe] > 0
                   /\ outstanding' = [outstanding EXCEPT ![c][pipe] = @ - 1]

Drained(c) == \A pipe \in Pipe : outstanding[c][pipe] = 0

\* Mutant of AdmitsRelease: one emitted send is enough.
AdmitsReleaseEarly(c) == sent[c] > 0

\* PipeBarrier(MTE3): every queued send has been emitted.
AdmitsRelease(c) == sent[c] = issued[c]

------------------------------------------------------------------------------
Init == /\ outstanding = [c \in Cores |-> [pipe \in Pipe |-> 0]]
        /\ waiting = [c \in Cores |-> FALSE]
        /\ arrivals = [r \in Rounds |-> 0]
        /\ step = [c \in Cores |-> "produce"]
        /\ round = [c \in Cores |-> 1]
        /\ issued = [c \in Cores |-> 0] /\ sent = [c \in Cores |-> 0]
        /\ arrived = [c \in Cores |-> [r \in Rounds |-> 0]]
        /\ emitted = [c \in Cores |-> [r \in Rounds |-> 0]]

At(c, s) == step[c] = s
GoTo(c, s) == step' = [step EXCEPT ![c] = s]

\* Step0: the producer of the data.
Produce(c) == /\ At(c, "produce")
              /\ Issue(c, "PIPE_M")
              /\ GoTo(c, "barrier")
              /\ UNCHANGED <<waiting, arrivals, round, issued, sent, arrived, emitted>>

\* A compute command comes to its end.
Compute(c) == /\ Retire(c, "PIPE_M")
              /\ UNCHANGED <<waiting, arrivals, step, round, issued, sent, arrived, emitted>>

\* Step1: pipe_barrier(PIPE_ALL).
Barrier(c) == /\ At(c, "barrier")
              /\ Drained(c)
              /\ GoTo(c, "report")
              /\ UNCHANGED <<tracker, arrivals, round, issued, sent, arrived, emitted>>

\* Step2: a core reports its arrival at the semaphore of its round and waits for
\* the count of all.
Report(c) == /\ At(c, "report")
             /\ Arrive(round[c])
             /\ GoTo(c, "align")
             /\ UNCHANGED <<tracker, round, issued, sent, arrived, emitted>>

\* Mutant of Align: a core does not wait for the others.
AlignAlone(c) == /\ At(c, "align")
                 /\ GoTo(c, "recv")
                 /\ UNCHANGED <<tracker, arrivals, round, issued, sent, arrived, emitted>>

Align(c) == /\ At(c, "align")
            /\ arrivals[round[c]] = Cardinality(Cores)
            /\ GoTo(c, "recv")
            /\ UNCHANGED <<tracker, arrivals, round, issued, sent, arrived, emitted>>

\* Step3: the receive command.
Recv(c) == /\ At(c, "recv")
           /\ Issue(c, "PIPE_MTE4")
           /\ GoTo(c, "send")
           /\ UNCHANGED <<waiting, arrivals, round, issued, sent, arrived, emitted>>

\* begin_mte4_wait: the receive pipe holds a command that is not satisfied. The
\* core meets the wait at any moment after it posted the command.
BeginWait(c) == /\ step[c] \in {"send", "join"} /\ ~waiting[c]
                /\ arrived[c][round[c]] < Expected(c)
                /\ waiting' = [waiting EXCEPT ![c] = TRUE]
                /\ UNCHANGED <<outstanding, arrivals, step, round, issued, sent, arrived, emitted>>

\* end_mte4_wait: the account has its bytes.
EndWait(c) == /\ waiting[c] /\ arrived[c][round[c]] = Expected(c)
              /\ waiting' = [waiting EXCEPT ![c] = FALSE]
              /\ UNCHANGED <<outstanding, arrivals, step, round, issued, sent, arrived, emitted>>

\* Step4: scalar issue enqueues one send command more.
Send(c) == /\ At(c, "send")
           /\ "PIPE_S" \in Dispatchable(c)
           /\ Issue(c, "PIPE_MTE3")
           /\ issued' = [issued EXCEPT ![c] = @ + 1]
           /\ IF issued[c] + 1 = Sends THEN GoTo(c, "join") ELSE UNCHANGED step
           /\ UNCHANGED <<waiting, arrivals, round, sent, arrived, emitted>>

\* CalReg releases a queued send and the fabric lands it on every other core of the
\* group.
Emit(c) == /\ Retire(c, "PIPE_MTE3")
           /\ sent' = [sent EXCEPT ![c] = @ + 1]
           /\ arrived' = [d \in Cores |-> IF d \notin Group[c] \ {c} THEN arrived[d]
                            ELSE [arrived[d] EXCEPT ![round[c]] = @ + 1]]
           /\ emitted' = [emitted EXCEPT ![c][round[c]] = @ + 1]
           /\ UNCHANGED <<waiting, arrivals, step, round, issued>>

\* Step5 and Step6: the barrier of the sends first, then the receive command
\* retires with its bytes counted.
Join(c) == /\ At(c, "join")
           /\ AdmitsRelease(c)
           /\ ~waiting[c] /\ arrived[c][round[c]] = Expected(c)
           /\ Retire(c, "PIPE_MTE4")
           /\ issued' = [issued EXCEPT ![c] = 0] /\ sent' = [sent EXCEPT ![c] = 0]
           /\ IF round[c] = MaxRounds
              THEN GoTo(c, "done") /\ UNCHANGED round
              ELSE GoTo(c, "produce") /\ round' = [round EXCEPT ![c] = @ + 1]
           /\ UNCHANGED <<waiting, arrivals, arrived, emitted>>

Core(c) == Produce(c) \/ Barrier(c) \/ Report(c) \/ Align(c) \/ Recv(c) \/ Send(c) \/ Join(c)
Unit(c) == Compute(c) \/ Emit(c) \/ EndWait(c)

Finished == \A c \in Cores : At(c, "done")
Rest == Finished /\ UNCHANGED vars

Next == (\E c \in Cores : Core(c) \/ Unit(c) \/ BeginWait(c)) \/ Rest

Spec == Init /\ [][Next]_vars

(* A core takes the next step it can take, and its pipes work off what     *)
(* they hold. Nothing makes a core meet its wait early.                    *)
FairSpec == Spec /\ \A c \in Cores : WF_vars(Core(c)) /\ WF_vars(Unit(c))

------------------------------------------------------------------------------
TypeOK == /\ outstanding \in [Cores -> [Pipe -> Nat]]
          /\ waiting \in [Cores -> BOOLEAN]
          /\ arrivals \in [Rounds -> Nat]
          /\ step \in [Cores -> Steps] /\ round \in [Cores -> Rounds]
          /\ issued \in [Cores -> 0..Sends] /\ sent \in [Cores -> 0..Sends]
          /\ arrived \in [Cores -> [Rounds -> Nat]]
          /\ emitted \in [Cores -> [Rounds -> 0..Sends]]

(* Calendar 4.7 item 4: a core that has left a round left none of its      *)
(* sends behind. A barrier that returns early would move a send to a later *)
(* round, and the others would wait for it in vain.                        *)
NothingLeftBehind ==
  \A c \in Cores, r \in Rounds :
    (round[c] > r \/ (round[c] = r /\ At(c, "done"))) => emitted[c][r] = Sends

(* Step1 and Step2: nothing of a round is sent while some core of the      *)
(* opcode is still producing for it, or still in the round before, in      *)
(* whichever group.                                                        *)
ProducedBeforeSent ==
  \A c, d \in Cores : issued[c] > 0 =>
    /\ round[d] >= round[c]
    /\ round[d] = round[c] =>
         ~At(d, "produce") /\ ~At(d, "barrier") /\ outstanding[d]["PIPE_M"] = 0

(* Invariant O3 and HW-7: whatever the moment at which the cores meet      *)
(* their waits, every core ends every round, when the semaphore has the    *)
(* width the number of cores requires: no member waits for its own receive *)
(* while nobody sends, and none for an arrival that cannot be counted.     *)
EveryRoundEnds == WidthBits >= RequiredWidth(Cardinality(Cores)) => <>Finished
==============================================================================
