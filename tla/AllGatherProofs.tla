---------------------------- MODULE AllGatherProofs ----------------------------
(***************************************************************************)
(* The phase over the die, for every set of cores, opcodes, images and     *)
(* calls, every number of rows and every width of the epoch tag.           *)
(***************************************************************************)
EXTENDS AllGather, FiniteSetTheorems, TLAPS

------------------------------------------------------------------------------
(* Every nonempty set of naturals has a least element.                     *)
LEMMA LeastElement ==
  ASSUME NEW T, T \subseteq Nat, T # {}
  PROVE  \E x \in T : \A y \in T : x <= y
<1>1. PICK x \in T : \A y \in T : ~ (<<y, x>> \in OpToRel(<, Nat))
  BY NatLessThanWellFounded, WFMin
<1>2. \A y \in T : y \in Nat /\ x \in Nat
  OBVIOUS
<1>3. \A y \in T : ~(y < x)
  BY <1>1, <1>2 DEF OpToRel
<1> QED
  BY <1>2, <1>3

(* A set that holds zero and with every number its successor holds all.    *)
LEMMA AllNaturals ==
  ASSUME NEW S, 0 \in S, \A n \in Nat : n \in S => n + 1 \in S
  PROVE  Nat \subseteq S
<1> SUFFICES ASSUME NEW n \in Nat, n \notin S PROVE FALSE
  OBVIOUS
<1> DEFINE T == {k \in Nat : k \notin S}
<1>1. PICK x \in T : \A y \in T : x <= y
  <2>1. T \subseteq Nat /\ T # {}
    OBVIOUS
  <2> HIDE DEF T
  <2> QED
    BY <2>1, LeastElement
<1>2. x - 1 \in Nat
  OBVIOUS
<1>3. x - 1 \in S
  BY <1>1, <1>2
<1> QED
  BY <1>2, <1>3

\* A sequence that lists a set in ascending order.
Lists(s, S) == /\ s \in [1..Cardinality(S) -> S]
               /\ \A i, j \in DOMAIN s : i < j => s[i] < s[j]

(* A finite set of naturals can be listed in ascending order: its least    *)
(* element, then the others.                                               *)
LEMMA AscendingExists ==
  ASSUME NEW S \in SUBSET Nat, IsFiniteSet(S)
  PROVE  \E s : Lists(s, S)
<1> DEFINE Listed == {n \in Nat : \A D \in SUBSET Nat :
                        IsFiniteSet(D) /\ Cardinality(D) = n => \E s : Lists(s, D)}
<1>1. 0 \in Listed
  <2> SUFFICES ASSUME NEW D \in SUBSET Nat, IsFiniteSet(D), Cardinality(D) = 0
               PROVE  \E s : Lists(s, D)
    OBVIOUS
  <2>1. D = {}
    BY FS_EmptySet
  <2>2. Lists(<<>>, D)
    BY <2>1 DEF Lists
  <2> QED
    BY <2>2
<1>2. ASSUME NEW n \in Nat, n \in Listed
      PROVE  n + 1 \in Listed
  <2> SUFFICES ASSUME NEW D \in SUBSET Nat, IsFiniteSet(D), Cardinality(D) = n + 1
               PROVE  \E s : Lists(s, D)
    OBVIOUS
  <2>1. D # {}
    BY FS_EmptySet
  <2>2. PICK m \in D : \A y \in D : m <= y
    BY <2>1, LeastElement
  <2>3. IsFiniteSet(D \ {m}) /\ Cardinality(D \ {m}) = n
    <3>1. m \in D /\ n \in Nat
      BY <2>2
    <3>2. IsFiniteSet(D \ {m}) /\ Cardinality(D \ {m}) = Cardinality(D) - 1
      BY <3>1, FS_RemoveElement
    <3> QED
      BY <3>1, <3>2
  <2>4. PICK t : Lists(t, D \ {m})
    BY <1>2, <2>3
  <2> DEFINE s == [i \in 1..(n + 1) |-> IF i = 1 THEN m ELSE t[i - 1]]
  <2>5. /\ t \in [1..n -> D \ {m}] /\ \A i, j \in 1..n : i < j => t[i] < t[j]
    BY <2>3, <2>4 DEF Lists
  <2>6. \A i \in 2..(n + 1) : s[i] = t[i - 1] /\ i - 1 \in 1..n /\ i \in 1..(n + 1)
    OBVIOUS
  <2>7. s \in [1..(n + 1) -> D]
    BY <2>5, <2>6
  <2>8. ASSUME NEW i \in 1..(n + 1), NEW j \in 1..(n + 1), i < j
        PROVE  s[i] < s[j]
    <3>1. j \in 2..(n + 1) /\ s[j] = t[j - 1] /\ s[j] \in D \ {m}
      BY <2>5, <2>6, <2>8
    <3>2. CASE i = 1
      <4>1. s[i] = m /\ m \in Nat /\ s[j] \in Nat
        BY <3>1, <3>2
      <4> QED
        BY <2>2, <3>1, <4>1
    <3>3. CASE i # 1
      <4>1. i \in 2..(n + 1) /\ i - 1 < j - 1
        BY <2>8, <3>3
      <4> QED
        BY <2>5, <2>6, <3>1, <4>1
    <3> QED
      BY <3>2, <3>3
  <2>9. Lists(s, D)
    BY <2>7, <2>8 DEF Lists
  <2> QED
    BY <2>9
<1>3. Nat \subseteq Listed
  <2> HIDE DEF Listed
  <2> QED
    BY <1>1, <1>2, AllNaturals
<1>4. Cardinality(S) \in Nat
  BY FS_CardinalityType
<1> QED
  BY <1>3, <1>4

------------------------------------------------------------------------------
(* The participating cores. *)

Taking == DOMAIN call.groups

(* The loops of a call visit every participating core once.                *)
LEMMA AscendingFacts ==
  ASSUME NEW S \in SUBSET Nodes
  PROVE  /\ Len(Ascending[S]) = Cardinality(S) /\ Len(Ascending[S]) \in Nat
         /\ Ascending[S] \in [1..Len(Ascending[S]) -> S]
         /\ \A i, j \in 1..Len(Ascending[S]) : Ascending[S][i] = Ascending[S][j] => i = j
         /\ \A n \in S : \E i \in 1..Len(Ascending[S]) : Ascending[S][i] = n
<1> DEFINE N == Cardinality(S)
           l == Ascending[S]
<1>1. IsFiniteSet(S) /\ S \in SUBSET Nat /\ N \in Nat
  BY DieAssumption, FS_Subset, FS_CardinalityType
<1>2. PICK t : Lists(t, S)
  BY <1>1, AscendingExists
<1>3. l = CHOOSE s \in [1..N -> S] : \A i, j \in DOMAIN s : i < j => s[i] < s[j]
  BY DEF Ascending
<1> HIDE DEF l
<1>4. Lists(l, S)
  BY <1>2, <1>3 DEF Lists
<1>5. l \in [1..N -> S] /\ Len(l) = N
  BY <1>1, <1>4 DEF Lists
<1>6. ASSUME NEW i \in 1..N, NEW j \in 1..N, l[i] = l[j]
      PROVE  i = j
  <2>1. l[i] \in Nat
    BY <1>1, <1>5
  <2>2. ~(i < j) /\ ~(j < i)
    BY <1>4, <1>5, <1>6, <2>1 DEF Lists
  <2> QED
    BY <2>2
<1>7. l \in Injection(1..N, S)
  BY <1>5, <1>6 DEF Injection, IsInjective
<1>8. Cardinality(1..N) = N
  BY <1>1, FS_Interval
<1>9. l \in Surjection(1..N, S)
  BY <1>1, <1>7, <1>8, FS_Injection
<1>10. /\ Len(l) = N /\ N \in Nat /\ l \in [1..N -> S]
       /\ \A i, j \in 1..N : l[i] = l[j] => i = j
       /\ \A n \in S : \E i \in 1..N : l[i] = n
  BY <1>1, <1>5, <1>6, <1>9 DEF Surjection
<1> QED
  BY <1>10 DEF l

LEMMA MembersFacts ==
  ASSUME Taking \subseteq Nodes
  PROVE  /\ Len(Members) = Cardinality(Taking) /\ Len(Members) \in Nat
         /\ Members \in [1..Len(Members) -> Taking]
         /\ \A i, j \in 1..Len(Members) : Members[i] = Members[j] => i = j
         /\ \A n \in Taking : \E i \in 1..Len(Members) : Members[i] = n
BY AscendingFacts DEF Members, Taking

------------------------------------------------------------------------------
(* The inductive invariant of the types. *)

Running == pc # "idle"

\* The cores whose turn in the loop over the members has been.
Earlier == {Members[i] : i \in 1..(turn - 1)}

\* A participating core has counted for the running call, has posted for it, has
\* sent its rows.
Advanced(n) == \/ pc = "epoch" /\ n \in Earlier
               \/ pc \in {"agree", "post", "release", "land", "drain"} /\ n \in Taking
Posted(n) == \/ pc = "post" /\ n \in Earlier
             \/ pc \in {"release", "land", "drain"} /\ n \in Taking
Sent(n) == \/ pc \in {"release", "land"} /\ n \in Earlier
           \/ pc = "drain" /\ n \in Taking

ControlOK ==
  /\ pc \in {"idle", "epoch", "agree", "post", "release", "land", "drain"}
  /\ result \in {"none", "ok", "incomplete", "fault"}
  /\ call \in Calls
  /\ Running => Taking # {} /\ Taking \subseteq call.members /\ turn \in 1..Len(Members)
  /\ at \in Nat /\ entered \in Nat /\ leaked \in Nat /\ stuck \subseteq Nodes
  /\ sound \in BOOLEAN
  /\ ~Running => entered = 0

CountersOK ==
  /\ epoch \in [Nodes -> [Opcodes -> 0..EpochCap]]
  /\ round \in [Nodes -> [Opcodes -> Nat]]
  /\ \A n \in Nodes : Advanced(n) => epoch[n][call.opcode] # 0
  /\ pc \in {"post", "release", "land", "drain"} =>
       \A n \in Taking : epoch[n][call.opcode] = epoch[Members[1]][call.opcode]

Segments == [id : Nodes \X Nat, addr : Int, own : BOOLEAN, committed : {TRUE}, round : Nat]
Accounts == [dst : {0}, capacity : Nat, expVal : Nat, compiled : Int,
             seen : SUBSET (Nodes \X Nat), counted : Nat, round : Nat, rounds : SUBSET Nat]
Kept(a) == IsFiniteSet(a.seen) /\ a.counted = RowBytes * Cardinality(a.seen)

LedgersOK ==
  /\ accounts = [n \in Nodes |-> accounts[n]]
  /\ \A n \in Nodes : /\ Outstanding(n) \subseteq Keys
                      /\ \A k \in Outstanding(n) : accounts[n][k] \in Accounts /\ Kept(accounts[n][k])
  /\ pending \in [Nodes -> [Keys -> Seq(Segments)]]
  /\ sequence \in [Nodes -> Nat]

WindowsOK == /\ inFlight = leaked + entered
             /\ image \subseteq Opcodes

TypeInv == ControlOK /\ CountersOK /\ LedgersOK /\ WindowsOK

------------------------------------------------------------------------------
(* How a step moves through the call. *)

(* What the call's type says of the call that runs.                        *)
LEMMA CallFacts ==
  ASSUME ControlOK, Running
  PROVE  /\ call \in Calls /\ call.opcode \in Opcodes /\ call.members \subseteq Nodes
         /\ Taking \subseteq Nodes /\ Taking \subseteq call.members /\ Taking # {}
         /\ call.lands \in [Nodes -> Seq(Nodes)] /\ call.groups \in [Taking -> Seq(Nodes)]
         /\ call.expected \in [call.members -> Int] /\ call.stride \in Nat
         /\ turn \in 1..Len(Members) /\ Node \in Taking /\ Node \in Nodes
         /\ Members[1] \in Taking
         /\ Len(Members) \in Nat /\ Members \in [1..Len(Members) -> Taking]
         /\ ToSet(Members) = Taking
<1>1. /\ call \in Calls /\ Taking \subseteq call.members /\ Taking # {}
      /\ turn \in 1..Len(Members)
  BY DEF ControlOK
<1>2. /\ call.opcode \in Opcodes /\ call.members \subseteq Nodes
      /\ call.lands \in [Nodes -> Seq(Nodes)] /\ call.groups \in [Taking -> Seq(Nodes)]
      /\ call.expected \in [call.members -> Int] /\ call.stride \in Nat
  BY <1>1, CallAssumption DEF Taking
<1>3. Taking \subseteq Nodes
  BY <1>1, <1>2
<1>4. /\ Len(Members) \in Nat /\ Members \in [1..Len(Members) -> Taking]
      /\ \A n \in Taking : \E i \in 1..Len(Members) : Members[i] = n
  BY <1>3, MembersFacts
<1>5. ToSet(Members) = Taking
  BY <1>4 DEF ToSet
<1>6. Node \in Taking /\ Members[1] \in Taking
  BY <1>1, <1>4 DEF Node
<1> QED
  BY <1>1, <1>2, <1>3, <1>4, <1>5, <1>6

(* The loop goes to the next core, or ends having visited all of them.     *)
LEMMA EarlierFacts ==
  ASSUME ControlOK, Running
  PROVE  /\ Node \notin Earlier /\ Earlier \subseteq Taking
         /\ turn = Len(Members) => Earlier \cup {Node} = Taking
         /\ turn' = turn + 1 /\ call' = call => Earlier' = Earlier \cup {Node}
         /\ turn' = 1 => Earlier' = {}
<1>1. /\ turn \in 1..Len(Members) /\ Len(Members) \in Nat
      /\ Members \in [1..Len(Members) -> Taking] /\ Taking \subseteq Nodes
  BY CallFacts
<1>2. /\ \A i, j \in 1..Len(Members) : Members[i] = Members[j] => i = j
      /\ \A n \in Taking : \E i \in 1..Len(Members) : Members[i] = n
  BY <1>1, MembersFacts
<1>3. Node \notin Earlier /\ Earlier \subseteq Taking
  BY <1>1, <1>2 DEF Node, Earlier
<1>4. ASSUME turn = Len(Members) PROVE Earlier \cup {Node} = Taking
  <2>1. turn \in Nat /\ \A i \in 1..turn : i = turn \/ i \in 1..(turn - 1)
    BY <1>1
  <2>2. ASSUME NEW n \in Taking PROVE n \in Earlier \cup {Node}
    <3>1. PICK i \in 1..turn : Members[i] = n
      BY <1>2, <1>4
    <3> QED
      BY <2>1, <3>1 DEF Node, Earlier
  <2> QED
    BY <1>3, <2>2, CallFacts
<1>5. ASSUME turn' = turn + 1, call' = call PROVE Earlier' = Earlier \cup {Node}
  <2>1. Members' = Members
    BY <1>5 DEF Members
  <2>2. \A i : i \in 1..(turn' - 1) <=> i = turn \/ i \in 1..(turn - 1)
    BY <1>1, <1>5
  <2> QED
    BY <2>1, <2>2 DEF Node, Earlier
<1>6. ASSUME turn' = 1 PROVE Earlier' = {}
  BY <1>6 DEF Earlier
<1> QED
  BY <1>3, <1>4, <1>5, <1>6

Steps == {"epoch", "agree", "post", "release", "land", "drain"}

LEMMA GoToKeeps ==
  ASSUME ControlOK, Running, NEW step \in Steps, NEW member \in 1..Len(Members), NEW landing \in Nat,
         GoTo(step, member, landing)
  PROVE  ControlOK' /\ Running' /\ Taking' = Taking /\ Members' = Members
<1>1. call' = call /\ pc' = step /\ turn' = member
  BY DEF GoTo
<1>2. Members' = Members /\ Taking' = Taking
  BY <1>1 DEF Members, Taking
<1> QED
  BY <1>1, <1>2 DEF GoTo, ControlOK, Running, Steps

LEMMA AbortKeeps ==
  ASSUME ControlOK, Running, Abort
  PROVE  ControlOK' /\ ~Running' /\ Taking' = Taking /\ Members' = Members
BY DEF Abort, ControlOK, Running, Members, Taking

(* The next iteration, or the next step once all cores have been visited.  *)
LEMMA NextMemberKeeps ==
  ASSUME ControlOK, Running, NEW again \in Steps, NEW after \in Steps, NextMember(again, after)
  PROVE  /\ ControlOK' /\ Running' /\ Taking' = Taking /\ Members' = Members
         /\ call' = call /\ at' = 0
         /\ \/ pc' = again /\ turn' = turn + 1 /\ Earlier' = Earlier \cup {Node}
            \/ pc' = after /\ turn' = 1 /\ Earlier \cup {Node} = Taking /\ Earlier' = {}
<1>1. turn \in 1..Len(Members) /\ Len(Members) \in Nat
  BY CallFacts
<1>2. CASE turn = Len(Members)
  <2>1. GoTo(after, 1, 0)
    BY <1>2 DEF NextMember
  <2>2. 1 \in 1..Len(Members)
    BY <1>1
  <2>3. ControlOK' /\ Running' /\ Taking' = Taking /\ Members' = Members
    BY <2>1, <2>2, GoToKeeps
  <2> QED
    BY <1>2, <2>1, <2>3, EarlierFacts DEF GoTo
<1>3. CASE turn # Len(Members)
  <2>1. GoTo(again, turn + 1, 0)
    BY <1>3 DEF NextMember
  <2>2. turn + 1 \in 1..Len(Members)
    BY <1>1, <1>3
  <2>3. ControlOK' /\ Running' /\ Taking' = Taking /\ Members' = Members
    BY <2>1, <2>2, GoToKeeps
  <2> QED
    BY <2>1, <2>3, EarlierFacts DEF GoTo
<1> QED
  BY <1>2, <1>3

------------------------------------------------------------------------------
(* The accounts and the segments of a call. *)

LEMMA KeyFacts ==
  ASSUME TypeInv, pc \in {"post", "release", "land", "drain"}
  PROVE  /\ Key \in Keys
         /\ \A n \in Taking : Key = <<call.opcode, epoch[n][call.opcode]>>
<1>1. ControlOK /\ CountersOK /\ Running
  BY DEF TypeInv, Running
<1>2. call.opcode \in Opcodes /\ Members[1] \in Taking /\ Taking \subseteq Nodes
  BY <1>1, CallFacts
<1>3. epoch[Members[1]][call.opcode] \in 1..EpochCap
  <2>1. Advanced(Members[1]) /\ Members[1] \in Nodes
    BY <1>2 DEF Advanced
  <2>2. epoch[Members[1]][call.opcode] \in 0..EpochCap /\ epoch[Members[1]][call.opcode] # 0
    BY <1>1, <1>2, <2>1 DEF CountersOK
  <2> QED
    BY <2>2, DieAssumption
<1> QED
  BY <1>1, <1>2, <1>3 DEF Key, Keys, CountersOK

LEMMA LandCountFacts ==
  ASSUME NEW c, NEW n
  PROVE  LandCount(c, n) \in Nat /\ ExpVal(c, n) \in Nat
<1>1. {m \in Nodes : n \in ToSet(c.lands[m])} \in SUBSET Nodes
  OBVIOUS
<1>2. LandCount(c, n) \in Nat
  BY <1>1, DieAssumption, FS_Subset, FS_CardinalityType DEF LandCount
<1> QED
  BY <1>2, DieAssumption, RowBytesAssumption DEF ExpVal

LEMMA FinitelyAdopted ==
  ASSUME NEW c, NEW list \in Seq(Segments)
  PROVE  IsFiniteSet(Adopted(c, list)) /\ Adopted(c, list) \subseteq Nodes \X Nat
<1> DEFINE S == {j \in 1..Len(list) :
                   /\ Countable(list[j])
                   /\ InRange(c, list[j])
                   /\ \A m \in 1..(j - 1) : m \notin FaultPoints(c, list)}
           f == [i \in S |-> list[i].id]
           T == {list[i].id : i \in S}
<1>1. Adopted(c, list) = T
  BY DEF Adopted
<1>2. S \in SUBSET (1..Len(list)) /\ Len(list) \in Nat
  OBVIOUS
<1>3. IsFiniteSet(S)
  <2>1. IsFiniteSet(1..Len(list))
    BY <1>2, FS_Interval
  <2> HIDE DEF S
  <2> QED
    BY <1>2, <2>1, FS_Subset
<1>4. f \in Surjection(S, T)
  BY DEF Surjection
<1>5. IsFiniteSet(T)
  <2> HIDE DEF S, T, f
  <2> QED
    BY <1>3, <1>4, FS_Surjection
<1>6. \A i \in S : list[i] \in Segments
  BY <1>2
<1> QED
  BY <1>1, <1>5, <1>6 DEF Segments

(* What an account is when its command has just been posted.               *)
LEMMA FreshFacts ==
  ASSUME TypeInv, pc = "post"
  PROVE  /\ FreshAccount(Node) \in Accounts /\ Kept(FreshAccount(Node))
         /\ FreshAccount(Node).round = round[Node][call.opcode]
         /\ FreshAccount(Node).capacity = Rows * call.stride
         /\ FreshAccount(Node).expVal = ExpVal(call, Node)
         /\ \A r \in FreshAccount(Node).rounds :
              \E x \in DOMAIN pending[Node][Key] : r = pending[Node][Key][x].round
         /\ pending[Node][Key] = <<>> =>
              FreshAccount(Node).seen = {} /\ FreshAccount(Node).rounds = {}
<1> DEFINE list == pending[Node][Key]
           ids == Adopted(Command(Node), list)
           rs == {list[x].round : x \in {y \in DOMAIN list : list[y].id \in ids}}
           a == FreshAccount(Node)
<1>1. ControlOK /\ CountersOK /\ LedgersOK /\ Running
  BY DEF TypeInv, Running
<1>2. /\ Node \in Nodes /\ Node \in call.members /\ call.opcode \in Opcodes /\ call.stride \in Nat
      /\ call.expected \in [call.members -> Int]
  BY <1>1, CallFacts
<1>3. Key \in Keys
  BY KeyFacts
<1>4. list \in Seq(Segments)
  BY <1>1, <1>2, <1>3 DEF LedgersOK
<1>5. IsFiniteSet(ids) /\ ids \subseteq Nodes \X Nat
  <2> HIDE DEF list
  <2> QED
    BY <1>4, FinitelyAdopted
<1>6. Cardinality(ids) \in Nat /\ RowBytes * Cardinality(ids) \in Nat
  <2> HIDE DEF ids
  <2> QED
    BY <1>5, FS_CardinalityType, RowBytesAssumption
<1>7. \A x \in DOMAIN list : list[x].round \in Nat
  <2>1. \A x \in DOMAIN list : list[x] \in Segments
    <3> HIDE DEF list
    <3> QED
      BY <1>4
  <2> QED
    BY <2>1 DEF Segments
<1>8. a = [dst |-> 0, capacity |-> Rows * call.stride, expVal |-> ExpVal(call, Node),
           compiled |-> call.expected[Node], seen |-> ids,
           counted |-> RowBytes * Cardinality(ids), round |-> round[Node][call.opcode],
           rounds |-> rs]
  BY DEF FreshAccount, Command
<1>9. /\ Rows * call.stride \in Nat /\ ExpVal(call, Node) \in Nat
      /\ call.expected[Node] \in Int /\ round[Node][call.opcode] \in Nat
  BY <1>1, <1>2, DieAssumption, LandCountFacts DEF CountersOK
<1>10. rs \subseteq Nat
  BY <1>7
<1>11. \A r \in rs : \E x \in DOMAIN list : r = list[x].round
  OBVIOUS
<1>12. list = <<>> => ids = {} /\ rs = {}
  BY DEF Adopted
<1> HIDE DEF list, ids, rs, a
<1>13. a \in Accounts /\ Kept(a)
  BY <1>5, <1>6, <1>8, <1>9, <1>10 DEF Accounts, Kept
<1>14. /\ a.round = round[Node][call.opcode] /\ a.capacity = Rows * call.stride
       /\ a.expVal = ExpVal(call, Node) /\ a.rounds = rs /\ a.seen = ids
  BY <1>8
<1>15. /\ a.round = round[Node][call.opcode]
       /\ a.capacity = Rows * call.stride
       /\ a.expVal = ExpVal(call, Node)
       /\ \A r \in a.rounds : \E x \in DOMAIN list : r = list[x].round
       /\ list = <<>> => a.seen = {} /\ a.rounds = {}
  BY <1>11, <1>12, <1>14
<1> QED
  BY <1>13, <1>15 DEF a, list

(* A landing of the current send is on a core, and its segment is one.     *)
LEMMA LandingFacts ==
  ASSUME TypeInv, pc = "land", at < Rows * Len(Walk)
  PROVE  /\ Len(Walk) \in Nat \ {0} /\ Walk \in Seq(Nodes)
         /\ Row \in 0..(Rows - 1) /\ at % Len(Walk) \in 0..(Len(Walk) - 1)
         /\ at = Row * Len(Walk) + (at % Len(Walk))
         /\ Landing \in Nodes /\ Landing \in ToSet(Walk)
         /\ Segment \in Segments
<1>1. ControlOK /\ CountersOK /\ LedgersOK /\ Running
  BY DEF TypeInv, Running
<1>2. /\ Node \in Nodes /\ call.lands \in [Nodes -> Seq(Nodes)] /\ call.stride \in Nat
      /\ call.opcode \in Opcodes /\ call.groups \in [Taking -> Seq(Nodes)] /\ Node \in Taking
      /\ at \in Nat
  BY <1>1, CallFacts DEF ControlOK
<1>3. Walk \in Seq(Nodes) /\ Len(Walk) \in Nat
  BY <1>2 DEF Walk
<1>4. Len(Walk) # 0
  BY <1>2, <1>3, DieAssumption
<1>5. ASSUME NEW L \in Nat \ {0}, NEW t \in Nat, NEW R \in Nat, t < R * L
      PROVE  t \div L \in 0..(R - 1) /\ t % L \in 0..(L - 1) /\ t = (t \div L) * L + (t % L)
  <2>1. t \div L \in Nat /\ t % L \in 0..(L - 1) /\ t = L * (t \div L) + (t % L)
    BY <1>5
  <2>2. t \div L < R
    <3> SUFFICES ASSUME R <= t \div L PROVE FALSE
      BY <2>1
    <3>1. \A d \in Nat : L * (R + d) = R * L + L * d /\ L * d >= 0
      OBVIOUS
    <3>2. t \div L - R \in Nat /\ t \div L = R + (t \div L - R)
      BY <2>1
    <3>3. L * (t \div L) >= R * L
      BY <3>1, <3>2
    <3> QED
      BY <1>5, <2>1, <3>3
  <2> QED
    BY <2>1, <2>2
<1>6. /\ Row \in 0..(Rows - 1) /\ at % Len(Walk) \in 0..(Len(Walk) - 1)
      /\ at = Row * Len(Walk) + (at % Len(Walk))
  BY <1>2, <1>3, <1>4, <1>5, DieAssumption DEF Row
<1>7. (at % Len(Walk)) + 1 \in 1..Len(Walk)
  BY <1>3, <1>4, <1>6
<1>8. Landing \in Nodes /\ Landing \in ToSet(Walk)
  BY <1>3, <1>7 DEF Landing, ToSet
<1>9. SelfOff(Node) \in Int
  <2> DEFINE I == {i \in 1..Len(call.groups[Node]) : call.groups[Node][i] = Node}
             first == SelectInSeq(call.groups[Node], LAMBDA m : m = Node)
  <2>1. I \subseteq Nat
    BY <1>2
  <2>2. first \in Int
    <3>1. CASE I = {}
      BY <3>1 DEF SelectInSeq
    <3>2. CASE I # {}
      <4>1. \E x \in I : \A y \in I : x <= y
        <5> HIDE DEF I
        <5> QED
          BY <2>1, <3>2, LeastElement
      <4>2. first = Min(I)
        BY <3>2 DEF SelectInSeq
      <4>3. Min(I) \in I
        <5> HIDE DEF I
        <5> QED
          BY <4>1 DEF Min
      <4> QED
        BY <2>1, <4>2, <4>3
    <3> QED
      BY <3>1, <3>2
  <2> HIDE DEF first
  <2>3. SelfOff(Node) = (first - 1) * RowBytes
    BY DEF SelfOff, first
  <2> QED
    BY <2>2, <2>3, RowBytesAssumption
<1>10. /\ sequence[Node] + Row \in Nat /\ round[Node][call.opcode] \in Nat
       /\ Row * call.stride + SelfOff(Node) \in Int
  <2>1. sequence[Node] \in Nat /\ round[Node][call.opcode] \in Nat
    BY <1>1, <1>2 DEF LedgersOK, CountersOK
  <2>2. Row \in Nat
    BY <1>6, DieAssumption
  <2> HIDE DEF Row, SelfOff
  <2> QED
    BY <1>2, <1>9, <2>1, <2>2
<1>11. Segment \in Segments
  BY <1>2, <1>10 DEF Segment, Segments
<1> QED
  BY <1>3, <1>4, <1>6, <1>8, <1>11

------------------------------------------------------------------------------
(* The types are kept by every step. *)

LEMMA TypesInitially == Init => TypeInv
<1> SUFFICES ASSUME Init PROVE TypeInv
  OBVIOUS
<1>1. ControlOK
  BY DEF Init, ControlOK, Running
<1>2. CountersOK
  <2>1. epoch = [n \in Nodes |-> [op \in Opcodes |-> 0]] /\ round = epoch
    BY DEF Init, FreshCounters
  <2>2. epoch \in [Nodes -> [Opcodes -> 0..EpochCap]] /\ round \in [Nodes -> [Opcodes -> Nat]]
    BY <2>1, DieAssumption
  <2>3. pc = "idle"
    BY DEF Init
  <2> QED
    BY <2>2, <2>3 DEF CountersOK, Advanced
<1>3. LedgersOK
  <2>1. \A n \in Nodes : Outstanding(n) = {}
    BY DEF Init, Outstanding
  <2>2. pending = [n \in Nodes |-> [k \in Keys |-> <<>>]] /\ <<>> \in Seq(Segments)
    BY DEF Init
  <2>3. accounts = [n \in Nodes |-> <<>>] /\ sequence = [n \in Nodes |-> 0]
    BY DEF Init
  <2> QED
    BY <2>1, <2>2, <2>3 DEF LedgersOK
<1>4. WindowsOK
  BY DEF Init, WindowsOK
<1> QED
  BY <1>1, <1>2, <1>3, <1>4 DEF TypeInv

LEMMA InstallTypes == ASSUME TypeInv, NEW img \in Images, InstallCalReg(img) PROVE TypeInv'
<1>1. /\ UNCHANGED <<epoch, accounts, pending, sequence, inFlight, control, history>>
      /\ image' = img
  BY DEF InstallCalReg
<1>2. ControlOK' /\ CountersOK' /\ LedgersOK' /\ WindowsOK'
  BY <1>1, DieAssumption DEF control, history, TypeInv, ControlOK, CountersOK, LedgersOK, WindowsOK,
     Running, Taking, Members, Advanced, Earlier, Outstanding
<1> QED
  BY <1>2 DEF TypeInv

LEMMA CallTypes == ASSUME TypeInv, NEW c \in Calls, Call(c) PROVE TypeInv'
<1>1. /\ pc = "idle" /\ pc' = "epoch" /\ call' = c /\ turn' = 1 /\ at' = 0 /\ entered' = 0
      /\ UNCHANGED <<die, result, round, leaked>>
      /\ DOMAIN c.groups # {} /\ DOMAIN c.groups \subseteq c.members
  BY DEF Call
<1>2. Taking' # {} /\ Taking' \subseteq c.members
  BY <1>1 DEF Taking
<1>3. Taking' \subseteq Nodes
  BY <1>2, CallAssumption
<1>4. 1 \in 1..Len(Members')
  <2>1. /\ Len(Members') \in Nat /\ Members' \in [1..Len(Members') -> Taking']
        /\ \A n \in Taking' : \E i \in 1..Len(Members') : Members'[i] = n
    BY <1>3, AscendingFacts DEF Members, Taking
  <2> QED
    BY <1>2, <2>1
<1>5. ControlOK'
  BY <1>1, <1>2, <1>4 DEF Call, ControlOK, Running, TypeInv
<1>6. CountersOK'
  <2>1. \A n : ~Advanced(n)'
    BY <1>1 DEF Advanced, Earlier
  <2> QED
    BY <1>1, <2>1 DEF TypeInv, CountersOK, die
<1>7. LedgersOK' /\ WindowsOK'
  BY <1>1 DEF TypeInv, LedgersOK, WindowsOK, ControlOK, Running, die, Outstanding
<1> QED
  BY <1>5, <1>6, <1>7 DEF TypeInv

(* The values an epoch counter takes.                                      *)
LEMMA NextValueFacts ==
  ASSUME NEW v \in 0..EpochCap
  PROVE  NextValue(v) \in 1..EpochCap
BY DieAssumption DEF NextValue

LEMMA EpochTypes == ASSUME TypeInv, NextEpoch PROVE TypeInv'
<1> DEFINE value == epoch[Node][call.opcode]
<1>1. ControlOK /\ CountersOK /\ LedgersOK /\ WindowsOK /\ Running /\ pc = "epoch"
  BY DEF TypeInv, NextEpoch, Running
<1>2. Node \in Nodes /\ call.opcode \in Opcodes /\ Node \in Taking /\ Taking \subseteq Nodes
  BY <1>1, CallFacts
<1>3. CASE Refused(value)
  <2>1. Abort /\ UNCHANGED <<die, round>>
    BY <1>3 DEF NextEpoch
  <2>2. ControlOK' /\ ~Running'
    BY <1>1, <2>1, AbortKeeps
  <2>3. CountersOK' /\ LedgersOK' /\ WindowsOK'
    BY <1>1, <2>1, <2>2 DEF CountersOK, LedgersOK, WindowsOK, die, Abort, Advanced, Running,
       Outstanding, ControlOK
  <2> QED
    BY <2>2, <2>3 DEF TypeInv
<1>4. CASE ~Refused(value)
  <2>1. /\ epoch' = [epoch EXCEPT ![Node][call.opcode] = NextValue(value)]
        /\ round' = [round EXCEPT ![Node][call.opcode] = @ + 1]
        /\ NextMember("epoch", "agree")
        /\ UNCHANGED <<accounts, pending, sequence, inFlight, image>>
    BY <1>4 DEF NextEpoch
  <2>2. /\ ControlOK' /\ Running' /\ Taking' = Taking /\ call' = call
        /\ \/ pc' = "epoch" /\ Earlier' = Earlier \cup {Node}
           \/ pc' = "agree" /\ Earlier \cup {Node} = Taking
    BY <1>1, <2>1, NextMemberKeeps DEF Steps
  <2>3. NextValue(value) \in 1..EpochCap
    BY <1>1, <1>2, NextValueFacts DEF CountersOK
  <2>4. epoch' \in [Nodes -> [Opcodes -> 0..EpochCap]] /\ round' \in [Nodes -> [Opcodes -> Nat]]
    BY <1>1, <1>2, <2>1, <2>3 DEF CountersOK
  <2>5. ASSUME NEW n \in Nodes, Advanced(n)' PROVE epoch'[n][call'.opcode] # 0
    <3>1. n = Node \/ Advanced(n)
      BY <1>1, <2>2, <2>5 DEF Advanced
    <3> QED
      BY <1>1, <1>2, <2>1, <2>2, <2>3, <3>1 DEF CountersOK
  <2>6. CountersOK'
    BY <2>2, <2>4, <2>5 DEF CountersOK
  <2>7. LedgersOK' /\ WindowsOK'
    BY <1>1, <2>1 DEF LedgersOK, WindowsOK, NextMember, GoTo, Outstanding
  <2> QED
    BY <2>2, <2>6, <2>7 DEF TypeInv
<1> QED
  BY <1>3, <1>4

LEMMA AgreeTypes == ASSUME TypeInv, Agree PROVE TypeInv'
<1>1. ControlOK /\ CountersOK /\ LedgersOK /\ WindowsOK /\ Running /\ pc = "agree"
  BY DEF TypeInv, Agree, Running
<1>2. /\ UNCHANGED <<die, round>>
      /\ Abort \/ (GoTo("post", 1, 0) /\ SpmdConsistent(call.opcode))
  BY DEF Agree
<1>3. LedgersOK'
  BY <1>1, <1>2 DEF LedgersOK, die, Outstanding
<1>4. CASE Abort
  <2>1. ControlOK' /\ ~Running'
    BY <1>1, <1>4, AbortKeeps
  <2>2. CountersOK' /\ WindowsOK'
    BY <1>1, <1>2, <1>4, <2>1 DEF CountersOK, WindowsOK, die, Abort, Advanced, Running, ControlOK
  <2> QED
    BY <1>3, <2>1, <2>2 DEF TypeInv
<1>5. CASE GoTo("post", 1, 0) /\ SpmdConsistent(call.opcode)
  <2>1. ToSet(Members) = Taking /\ 1 \in 1..Len(Members)
    BY <1>1, CallFacts
  <2>2. ControlOK' /\ Running' /\ Taking' = Taking /\ Members' = Members
    BY <1>1, <1>5, <2>1, GoToKeeps DEF Steps
  <2>3. call' = call /\ pc' = "post"
    BY <1>5 DEF GoTo
  <2>4. \A n \in Taking : epoch[n][call.opcode] = epoch[Members[1]][call.opcode]
    BY <1>5, <2>1 DEF SpmdConsistent
  <2>5. CountersOK'
    BY <1>1, <1>2, <2>2, <2>3, <2>4 DEF CountersOK, die, Advanced
  <2>6. WindowsOK'
    BY <1>1, <1>2, <1>5 DEF WindowsOK, die, GoTo
  <2> QED
    BY <1>3, <2>2, <2>5, <2>6 DEF TypeInv
<1> QED
  BY <1>2, <1>4, <1>5

(* A step of the running call that leaves the die alone or raises keeps    *)
(* what is said of counters and windows.                                   *)
LEMMA AbortTypes ==
  ASSUME TypeInv, Running, Abort, UNCHANGED <<epoch, round, inFlight, image>>, LedgersOK'
  PROVE  TypeInv'
<1>1. ControlOK' /\ ~Running'
  BY AbortKeeps DEF TypeInv
<1>2. CountersOK' /\ WindowsOK'
  BY <1>1 DEF TypeInv, CountersOK, WindowsOK, Abort, Advanced, Running, ControlOK
<1> QED
  BY <1>1, <1>2 DEF TypeInv

LEMMA GoToTypes ==
  ASSUME TypeInv, pc \in {"post", "release", "land"},
         NEW step \in {"post", "release", "land", "drain"},
         NEW member \in 1..Len(Members), NEW landing \in Nat, GoTo(step, member, landing),
         UNCHANGED <<epoch, round, inFlight, image>>, LedgersOK'
  PROVE  TypeInv'
<1>1. ControlOK /\ CountersOK /\ WindowsOK /\ Running
  BY DEF TypeInv, Running
<1>2. ControlOK' /\ Taking' = Taking /\ Members' = Members
  BY <1>1, GoToKeeps DEF Steps
<1>3. /\ call' = call /\ pc' = step /\ leaked' = leaked /\ entered' = entered
  BY DEF GoTo
<1>4. CountersOK' /\ WindowsOK'
  BY <1>1, <1>2, <1>3 DEF CountersOK, WindowsOK, Advanced
<1> QED
  BY <1>2, <1>4 DEF TypeInv

LEMMA NextMemberTypes ==
  ASSUME TypeInv, pc = "post", NextMember("post", "release"),
         UNCHANGED <<epoch, round, inFlight, image>>, LedgersOK'
  PROVE  TypeInv'
<1>1. turn \in 1..Len(Members) /\ Len(Members) \in Nat
  BY CallFacts DEF TypeInv, Running
<1>2. CASE turn = Len(Members)
  <2>1. GoTo("release", 1, 0) /\ 1 \in 1..Len(Members)
    BY <1>1, <1>2 DEF NextMember
  <2> QED
    BY <2>1, GoToTypes
<1>3. CASE turn # Len(Members)
  <2>1. GoTo("post", turn + 1, 0) /\ turn + 1 \in 1..Len(Members)
    BY <1>1, <1>3 DEF NextMember
  <2> QED
    BY <2>1, GoToTypes
<1> QED
  BY <1>2, <1>3

(* What a post does to the accounts and buffers.                           *)
LEMMA PostEffect ==
  ASSUME TypeInv, Post
  PROVE  /\ pc = "post" /\ Key \in Keys /\ Node \in Nodes
         /\ UNCHANGED <<epoch, sequence, inFlight, image, round>>
         /\ \/ Abort /\ UNCHANGED <<accounts, pending>>
            \/ /\ accounts' = [accounts EXCEPT ![Node] = Installed(Node, FreshAccount(Node))]
               /\ pending' = [pending EXCEPT ![Node][Key] = <<>>]
               /\ DOMAIN accounts'[Node] = Outstanding(Node) \cup {Key}
               /\ accounts'[Node][Key] = FreshAccount(Node)
               /\ \A k \in Outstanding(Node) \ {Key} : accounts'[Node][k] = accounts[Node][k]
               /\ \A n \in Nodes \ {Node} : accounts'[n] = accounts[n]
               /\ \/ Abort
                  \/ /\ NextMember("post", "release")
                     /\ FaultPoints(Command(Node), pending[Node][Key]) = {}
<1>1. pc = "post" /\ UNCHANGED <<epoch, sequence, inFlight, image, round>>
  BY DEF Post
<1>2. Key \in Keys /\ Node \in Nodes
  BY <1>1, KeyFacts, CallFacts DEF TypeInv, Running
<1>3. \/ Abort /\ UNCHANGED <<accounts, pending>>
      \/ /\ accounts' = [accounts EXCEPT ![Node] = Installed(Node, FreshAccount(Node))]
         /\ pending' = [pending EXCEPT ![Node][Key] = <<>>]
         /\ \/ Abort
            \/ /\ NextMember("post", "release")
               /\ FaultPoints(Command(Node), pending[Node][Key]) = {}
  BY DEF Post
<1>4. ASSUME accounts' = [accounts EXCEPT ![Node] = Installed(Node, FreshAccount(Node))]
      PROVE  /\ DOMAIN accounts'[Node] = Outstanding(Node) \cup {Key}
             /\ accounts'[Node][Key] = FreshAccount(Node)
             /\ \A k \in Outstanding(Node) \ {Key} : accounts'[Node][k] = accounts[Node][k]
             /\ \A n \in Nodes \ {Node} : accounts'[n] = accounts[n]
  <2>1. accounts = [n \in Nodes |-> accounts[n]]
    BY DEF TypeInv, LedgersOK
  <2>2. /\ accounts'[Node] = Installed(Node, FreshAccount(Node))
        /\ \A n \in Nodes \ {Node} : accounts'[n] = accounts[n]
    BY <1>2, <1>4, <2>1
  <2> QED
    BY <2>2 DEF Installed, Outstanding
<1> QED
  BY <1>1, <1>2, <1>3, <1>4

LEMMA PostTypes == ASSUME TypeInv, Post PROVE TypeInv'
<1>1. /\ pc = "post" /\ Running /\ LedgersOK /\ Node \in Nodes /\ Key \in Keys
      /\ UNCHANGED <<epoch, round, inFlight, image, sequence>>
  BY PostEffect DEF TypeInv, Running
<1>2. CASE Abort /\ UNCHANGED <<accounts, pending>>
  <2>1. LedgersOK'
    BY <1>1, <1>2 DEF LedgersOK, Outstanding
  <2> QED
    BY <1>1, <1>2, <2>1, AbortTypes
<1>3. CASE /\ accounts' = [accounts EXCEPT ![Node] = Installed(Node, FreshAccount(Node))]
           /\ pending' = [pending EXCEPT ![Node][Key] = <<>>]
           /\ Abort \/ NextMember("post", "release")
  <2>1. FreshAccount(Node) \in Accounts /\ Kept(FreshAccount(Node))
    BY <1>1, FreshFacts
  <2>2. accounts' = [n \in Nodes |-> accounts'[n]]
    BY <1>1, <1>3 DEF LedgersOK
  <2>3. ASSUME NEW n \in Nodes
        PROVE  /\ DOMAIN accounts'[n] \subseteq Keys
               /\ \A k \in DOMAIN accounts'[n] : accounts'[n][k] \in Accounts /\ Kept(accounts'[n][k])
    <3>1. /\ DOMAIN accounts[n] \subseteq Keys
          /\ \A k \in DOMAIN accounts[n] : accounts[n][k] \in Accounts /\ Kept(accounts[n][k])
      BY <1>1 DEF LedgersOK, Outstanding
    <3>2. CASE n = Node
      <4>1. accounts'[n] = [k \in DOMAIN accounts[n] \cup {Key} |->
                              IF k = Key THEN FreshAccount(Node) ELSE accounts[n][k]]
        BY <1>1, <1>3, <3>2 DEF LedgersOK, Installed, Outstanding
      <4> QED
        BY <1>1, <2>1, <3>1, <4>1
    <3>3. CASE n # Node
      <4>1. accounts'[n] = accounts[n]
        BY <1>1, <1>3, <3>3 DEF LedgersOK
      <4> QED
        BY <3>1, <4>1
    <3> QED
      BY <3>2, <3>3
  <2>4. pending' \in [Nodes -> [Keys -> Seq(Segments)]]
    BY <1>1, <1>3 DEF LedgersOK
  <2>5. LedgersOK'
    BY <1>1, <2>2, <2>3, <2>4 DEF LedgersOK, Outstanding
  <2> QED
    BY <1>1, <1>3, <2>5, AbortTypes, NextMemberTypes
<1> QED
  BY <1>2, <1>3, PostEffect

LEMMA ReleaseTypes == ASSUME TypeInv, Release PROVE TypeInv'
<1>1. /\ pc = "release" /\ UNCHANGED <<die, round>>
      /\ Abort \/ GoTo("land", turn, 0)
  BY DEF Release
<1>2. LedgersOK' /\ UNCHANGED <<epoch, round, inFlight, image>>
  BY <1>1 DEF TypeInv, LedgersOK, die, Outstanding
<1>3. turn \in 1..Len(Members) /\ Running
  BY <1>1, CallFacts DEF TypeInv, Running
<1> QED
  BY <1>1, <1>2, <1>3, AbortTypes, GoToTypes

(* What a landing does: it is parked, faults, counts, or passes.           *)
LEMMA LandEffect ==
  ASSUME TypeInv, Land
  PROVE  /\ pc = "land" /\ at < Rows * Len(Walk) /\ Key \in Keys
         /\ UNCHANGED <<epoch, sequence, inFlight, image, round>>
         /\ Abort \/ GoTo("land", turn, at + 1)
         /\ \/ /\ ~Waiting /\ ~OwnCopy /\ GoTo("land", turn, at + 1)
               /\ accounts' = accounts
               /\ pending' = [pending EXCEPT ![Landing][Key] = Append(@, Segment)]
            \/ /\ Waiting /\ Abort /\ ~InRange(Account, Segment)
               /\ UNCHANGED <<accounts, pending>>
            \/ /\ Waiting /\ Counts /\ pending' = pending
               /\ Counted.counted > Counted.capacity \/ GoTo("land", turn, at + 1)
               /\ accounts' = [accounts EXCEPT ![Landing][Key] = Counted]
            \/ /\ OwnCopy \/ (Waiting /\ ~Counts)
               /\ GoTo("land", turn, at + 1)
               /\ UNCHANGED <<accounts, pending>>
<1>1. Key \in Keys
  BY KeyFacts DEF Land
<1> QED
  BY <1>1 DEF Land, Defer, Discard, Count, Pass

(* A counted segment is one identity and its bytes more.                   *)
LEMMA CountedFacts ==
  ASSUME NEW a \in Accounts, Kept(a), NEW s \in Segments, s.id \notin a.seen,
         NEW b, b = [a EXCEPT !.seen = @ \cup {s.id}, !.counted = @ + RowBytes,
                              !.rounds = @ \cup {s.round}]
  PROVE  /\ b \in Accounts /\ Kept(b)
         /\ b.seen = a.seen \cup {s.id} /\ b.counted = a.counted + RowBytes
         /\ b.rounds = a.rounds \cup {s.round} /\ b.round = a.round
         /\ b.capacity = a.capacity /\ b.expVal = a.expVal
<1>1. /\ b.seen = a.seen \cup {s.id} /\ b.counted = a.counted + RowBytes
      /\ b.rounds = a.rounds \cup {s.round} /\ b.round = a.round
      /\ b.capacity = a.capacity /\ b.expVal = a.expVal
  BY DEF Accounts
<1>2. /\ IsFiniteSet(a.seen \cup {s.id})
      /\ Cardinality(a.seen \cup {s.id}) = Cardinality(a.seen) + 1
      /\ Cardinality(a.seen) \in Nat
  BY FS_AddElement, FS_CardinalityType DEF Kept
<1>3. RowBytes * (Cardinality(a.seen) + 1) = RowBytes * Cardinality(a.seen) + RowBytes
  BY <1>2, RowBytesAssumption
<1>4. Kept(b)
  BY <1>1, <1>2, <1>3 DEF Kept
<1>5. s.id \in Nodes \X Nat /\ s.round \in Nat
  BY DEF Segments
<1>6. b \in Accounts
  <2>1. /\ a.dst = 0 /\ a.capacity \in Nat /\ a.expVal \in Nat /\ a.compiled \in Int
        /\ a.seen \cup {s.id} \subseteq Nodes \X Nat /\ a.counted + RowBytes \in Nat
        /\ a.round \in Nat /\ a.rounds \cup {s.round} \subseteq Nat
    BY <1>5, RowBytesAssumption DEF Accounts
  <2>2. b = [dst |-> a.dst, capacity |-> a.capacity, expVal |-> a.expVal, compiled |-> a.compiled,
             seen |-> a.seen \cup {s.id}, counted |-> a.counted + RowBytes,
             round |-> a.round, rounds |-> a.rounds \cup {s.round}]
    BY DEF Accounts
  <2> QED
    BY <2>1, <2>2 DEF Accounts
<1> QED
  BY <1>1, <1>4, <1>6

LEMMA LandTypes == ASSUME TypeInv, Land PROVE TypeInv'
<1>1. /\ pc = "land" /\ at < Rows * Len(Walk) /\ Running /\ LedgersOK
      /\ UNCHANGED <<epoch, round, inFlight, image, sequence>> /\ Key \in Keys
      /\ Abort \/ GoTo("land", turn, at + 1)
  BY LandEffect DEF TypeInv, Running
<1>2. Landing \in Nodes /\ Segment \in Segments
  BY <1>1, LandingFacts
<1>3. turn \in 1..Len(Members) /\ at + 1 \in Nat
  BY <1>1, CallFacts DEF TypeInv, ControlOK
<1>4. CASE UNCHANGED <<accounts, pending>>
  <2>1. LedgersOK'
    BY <1>1, <1>4 DEF LedgersOK, Outstanding
  <2> QED
    BY <1>1, <1>3, <2>1, AbortTypes, GoToTypes
<1>5. CASE /\ accounts' = accounts
           /\ pending' = [pending EXCEPT ![Landing][Key] = Append(@, Segment)]
  <2>1. pending[Landing][Key] \in Seq(Segments)
    BY <1>1, <1>2 DEF LedgersOK
  <2>2. Append(pending[Landing][Key], Segment) \in Seq(Segments)
    BY <1>2, <2>1
  <2>3. pending' \in [Nodes -> [Keys -> Seq(Segments)]]
    BY <1>1, <1>5, <2>2 DEF LedgersOK
  <2>4. LedgersOK'
    BY <1>1, <1>5, <2>3 DEF LedgersOK, Outstanding
  <2> QED
    BY <1>1, <1>3, <2>4, AbortTypes, GoToTypes
<1>6. CASE /\ Waiting /\ Counts /\ pending' = pending
           /\ accounts' = [accounts EXCEPT ![Landing][Key] = Counted]
  <2>1. Account \in Accounts /\ Kept(Account) /\ Key \in DOMAIN accounts[Landing]
    BY <1>1, <1>2, <1>6 DEF LedgersOK, Waiting, Account, Outstanding
  <2>2. Counted \in Accounts /\ Kept(Counted)
    BY <1>2, <1>6, <2>1, CountedFacts DEF Counts, Counted
  <2>3. accounts' = [n \in Nodes |-> accounts'[n]]
    BY <1>1, <1>6 DEF LedgersOK
  <2>4. ASSUME NEW n \in Nodes
        PROVE  /\ DOMAIN accounts'[n] \subseteq Keys
               /\ \A k \in DOMAIN accounts'[n] : accounts'[n][k] \in Accounts /\ Kept(accounts'[n][k])
    <3>1. /\ DOMAIN accounts[n] \subseteq Keys
          /\ \A k \in DOMAIN accounts[n] : accounts[n][k] \in Accounts /\ Kept(accounts[n][k])
      BY <1>1 DEF LedgersOK, Outstanding
    <3>2. CASE n = Landing
      <4>1. accounts'[n] = [accounts[n] EXCEPT ![Key] = Counted]
        BY <1>1, <1>6, <3>2 DEF LedgersOK
      <4> QED
        BY <2>2, <3>1, <4>1
    <3>3. CASE n # Landing
      <4>1. accounts'[n] = accounts[n]
        BY <1>1, <1>6, <3>3 DEF LedgersOK
      <4> QED
        BY <3>1, <4>1
    <3> QED
      BY <3>2, <3>3
  <2>5. LedgersOK'
    BY <1>1, <1>6, <2>3, <2>4 DEF LedgersOK, Outstanding
  <2> QED
    BY <1>1, <1>3, <2>5, AbortTypes, GoToTypes
<1> QED
  BY <1>4, <1>5, <1>6, LandEffect

LEMMA MaxFacts ==
  /\ Max({1, Rows}) \in Nat \ {0} /\ Max({1, Rows}) >= Rows
  /\ \A i \in Nat : Max({0, i}) = i
<1>1. Rows \in Nat
  BY DieAssumption
<1>2. ASSUME NEW a \in Nat, NEW b \in Nat
      PROVE  Max({a, b}) \in {a, b} /\ Max({a, b}) >= a /\ Max({a, b}) >= b
  <2>1. \E x \in {a, b} : \A y \in {a, b} : x >= y
    BY a <= b \/ b <= a
  <2> QED
    BY <2>1 DEF Max
<1>3. Max({1, Rows}) \in {1, Rows} /\ Max({1, Rows}) >= 1 /\ Max({1, Rows}) >= Rows
  BY <1>1, <1>2
<1>4. \A i \in Nat : Max({0, i}) \in {0, i} /\ Max({0, i}) >= 0 /\ Max({0, i}) >= i
  BY <1>2
<1> QED
  BY <1>1, <1>3, <1>4

(* The windows are entered with the hops of the send.                      *)
LEMMA FlitHopsFacts ==
  ASSUME TypeInv, Running
  PROVE  FlitHops(call, Node) \in Nat
<1>1. call.lands[Node] \in Seq(Nodes)
  BY CallFacts DEF TypeInv
<1>2. ToSet(call.lands[Node]) \ {Node} \in SUBSET Nodes
  BY <1>1 DEF ToSet
<1>3. Cardinality(ToSet(call.lands[Node]) \ {Node}) \in Nat
  BY <1>2, DieAssumption, FS_Subset, FS_CardinalityType
<1> QED
  BY <1>3, DieAssumption DEF FlitHops

LEMMA FinishSendTypes == ASSUME TypeInv, FinishSend PROVE TypeInv'
<1>1. /\ ControlOK /\ CountersOK /\ LedgersOK /\ WindowsOK /\ Running
      /\ pc = "land" /\ call' = call /\ at' = 0 /\ result' = result
      /\ sequence' = [sequence EXCEPT ![Node] = @ + Max({1, Rows})]
      /\ inFlight' = inFlight + FlitHops(call, Node)
      /\ entered' = entered + FlitHops(call, Node)
      /\ UNCHANGED <<epoch, accounts, pending, image, history>>
      /\ \/ turn = Len(Members) /\ pc' = "drain" /\ turn' = 1
         \/ turn # Len(Members) /\ pc' = "release" /\ turn' = turn + 1
  BY DEF FinishSend, TypeInv, Running
<1>2. FlitHops(call, Node) \in Nat
  BY <1>1, FlitHopsFacts
<1>3. Members' = Members /\ Taking' = Taking
  BY <1>1 DEF Members, Taking
<1>4. turn \in 1..Len(Members) /\ Len(Members) \in Nat /\ Node \in Nodes
  BY <1>1, CallFacts
<1>5. turn' \in 1..Len(Members)
  BY <1>1, <1>4
<1>6. ControlOK'
  BY <1>1, <1>2, <1>3, <1>5 DEF ControlOK, Running, history
<1>7. CountersOK'
  BY <1>1, <1>3 DEF CountersOK, history, Advanced
<1>8. LedgersOK'
  <2>1. sequence' \in [Nodes -> Nat]
    BY <1>1, <1>4, MaxFacts DEF LedgersOK
  <2> QED
    BY <1>1, <2>1 DEF LedgersOK, Outstanding
<1>9. WindowsOK'
  BY <1>1, <1>2 DEF WindowsOK, ControlOK, history
<1> QED
  BY <1>6, <1>7, <1>8, <1>9 DEF TypeInv

(* The end of a call takes back exactly what it entered.                   *)
LEMMA CloseEffect ==
  ASSUME TypeInv, Close
  PROVE  /\ pc = "drain" /\ pc' = "idle" /\ entered' = 0 /\ inFlight' = leaked
         /\ call' = call /\ turn' = turn /\ at' = at
         /\ UNCHANGED <<epoch, pending, sequence, image, history>>
         /\ \/ accounts' = accounts /\ result' \in {"fault", "incomplete"}
            \/ /\ result' = "ok"
               /\ \A n \in Taking : /\ Cardinality(Outstanding(n)) = 1
                                    /\ IsComplete(accounts[n][Key])
               /\ accounts' = [n \in Nodes |-> IF n \notin Taking THEN accounts[n]
                                 ELSE [k \in Outstanding(n) \ {Key} |-> accounts[n][k]]]
<1>1. ToSet(Members) = Taking /\ ControlOK /\ WindowsOK
  BY CallFacts DEF TypeInv, Close, Running
<1>2. inFlight - entered = leaked
  BY <1>1 DEF WindowsOK, ControlOK
<1>3. inFlight' = leaked
  BY <1>1, <1>2, MaxFacts DEF Close, ControlOK
<1> DEFINE read == \A n \in Taking : ReadBack(n)
           ok == Incomplete = {}
<1>4. /\ result' = IF ~read THEN "fault" ELSE IF ok THEN "ok" ELSE "incomplete"
      /\ accounts' = IF read /\ ok
                     THEN [n \in Nodes |-> IF n \notin Taking THEN accounts[n]
                                           ELSE [k \in Outstanding(n) \ {Key} |-> accounts[n][k]]]
                     ELSE accounts
  BY <1>1 DEF Close
<1>5. ok => \A n \in Taking : IsComplete(accounts[n][Key])
  BY <1>1 DEF Incomplete
<1>6. read => \A n \in Taking : Cardinality(Outstanding(n)) = 1
  BY DEF ReadBack
<1> HIDE DEF read, ok
<1>7. \/ accounts' = accounts /\ result' \in {"fault", "incomplete"}
      \/ /\ result' = "ok" /\ read /\ ok
         /\ accounts' = [n \in Nodes |-> IF n \notin Taking THEN accounts[n]
                           ELSE [k \in Outstanding(n) \ {Key} |-> accounts[n][k]]]
  BY <1>4
<1> QED
  BY <1>3, <1>5, <1>6, <1>7 DEF Close

LEMMA CloseTypes == ASSUME TypeInv, Close PROVE TypeInv'
<1>1. ControlOK /\ CountersOK /\ LedgersOK /\ WindowsOK
  BY DEF TypeInv
<1>2. ControlOK'
  BY <1>1, CloseEffect DEF ControlOK, Running, history
<1>3. CountersOK'
  BY <1>1, CloseEffect DEF CountersOK, Advanced, history
<1>4. LedgersOK'
  <2>1. CASE accounts' = accounts
    BY <1>1, <2>1, CloseEffect DEF LedgersOK, Outstanding
  <2>2. CASE accounts' = [n \in Nodes |-> IF n \notin Taking THEN accounts[n]
                            ELSE [k \in Outstanding(n) \ {Key} |-> accounts[n][k]]]
    <3>1. accounts' = [n \in Nodes |-> accounts'[n]]
      BY <2>2
    <3>2. ASSUME NEW n \in Nodes
          PROVE  /\ DOMAIN accounts'[n] \subseteq Keys
                 /\ \A k \in DOMAIN accounts'[n] : /\ accounts'[n][k] \in Accounts
                                                   /\ Kept(accounts'[n][k])
      BY <1>1, <2>2 DEF LedgersOK, Outstanding
    <3> QED
      BY <1>1, <3>1, <3>2, CloseEffect DEF LedgersOK, Outstanding
  <2> QED
    BY <2>1, <2>2, CloseEffect
<1>5. WindowsOK'
  BY <1>1, CloseEffect DEF WindowsOK, ControlOK, history
<1> QED
  BY <1>2, <1>3, <1>4, <1>5 DEF TypeInv

LEMMA TypeStep == TypeInv /\ [Next]_vars => TypeInv'
<1> SUFFICES ASSUME TypeInv, [Next]_vars PROVE TypeInv'
  OBVIOUS
<1>1. ASSUME NEW c \in Calls, Call(c) PROVE TypeInv'
  BY <1>1, CallTypes
<1>2. ASSUME NEW img \in Images, InstallCalReg(img) PROVE TypeInv'
  BY <1>2, InstallTypes
<1>3. CASE NextEpoch
  BY <1>3, EpochTypes
<1>4. CASE Agree
  BY <1>4, AgreeTypes
<1>5. CASE Post
  BY <1>5, PostTypes
<1>6. CASE Release
  BY <1>6, ReleaseTypes
<1>7. CASE Land
  BY <1>7, LandTypes
<1>8. CASE FinishSend
  BY <1>8, FinishSendTypes
<1>9. CASE Close
  BY <1>9, CloseTypes
<1>10. CASE UNCHANGED vars
  BY <1>10 DEF vars, die, control, history, TypeInv, ControlOK, CountersOK, LedgersOK, WindowsOK,
     Running, Taking, Members, Advanced, Earlier, Outstanding
<1> QED
  BY <1>1, <1>2, <1>3, <1>4, <1>5, <1>6, <1>7, <1>8, <1>9, <1>10 DEF Next, Step

LEMMA TypesHold == Spec => []TypeInv
BY TypesInitially, TypeStep, PTL DEF Spec

(* The types of the die and of the call that runs on it (collective.py,    *)
(* noc/network.py): the variables keep the shapes of the code's objects    *)
(* through every step, an abort included.                                  *)
THEOREM TypesKept == Spec => []TypeOK
<1>1. TypeInv => TypeOK
  <2> SUFFICES ASSUME TypeInv PROVE TypeOK
    OBVIOUS
  <2>1. ControlOK /\ CountersOK /\ LedgersOK /\ WindowsOK
    BY DEF TypeInv
  <2>2. \A n \in Nodes :
          /\ Outstanding(n) \subseteq Keys
          /\ \A k \in Outstanding(n) : accounts[n][k].counted = RowBytes * Cardinality(accounts[n][k].seen)
          /\ DOMAIN pending[n] = Keys
          /\ sequence[n] \in Nat
    BY <2>1 DEF LedgersOK, Kept
  <2>3. inFlight \in Nat
    BY <2>1 DEF ControlOK, WindowsOK
  <2> QED
    BY <2>1, <2>2, <2>3 DEF TypeOK, ControlOK, CountersOK, WindowsOK, Running
<1> QED
  BY <1>1, TypesHold, PTL

(* Noc.drain takes back what the sends of a call entered (Step5): between  *)
(* calls the stop-the-world windows hold what the calls that raised left   *)
(* in them, and nothing else.                                              *)
THEOREM WindowsKept == Spec => []OnlyAbortsLeak
<1>1. TypeInv => OnlyAbortsLeak
  BY DEF TypeInv, WindowsOK, ControlOK, Running, OnlyAbortsLeak
<1> QED
  BY <1>1, TypesHold, PTL

------------------------------------------------------------------------------
(* What the steps leave alone. *)

(* The steps that neither count an epoch, post, nor land.                  *)
LEMMA QuietSteps ==
  ASSUME TypeInv,
         Agree \/ Release \/ FinishSend \/ (\E img \in Images : InstallCalReg(img)) \/ UNCHANGED vars
  PROVE  /\ UNCHANGED <<epoch, round, accounts, pending, stuck, call>>
         /\ Key' = Key /\ Taking' = Taking
         /\ \A n \in Nodes : (Advanced(n)' => Advanced(n)) /\ (Posted(n)' => Posted(n))
         /\ pc' = "idle" => result' = "fault" \/ (pc = "idle" /\ result' = result)
<1>1. CASE Agree
  <2>1. /\ pc = "agree" /\ UNCHANGED <<die, round, stuck, call>>
        /\ (pc' = "idle" /\ result' = "fault") \/ (pc' = "post" /\ turn' = 1)
    BY <1>1 DEF Agree, Abort, GoTo
  <2>2. Members' = Members /\ Taking' = Taking /\ Key' = Key
    BY <2>1 DEF Members, Taking, Key, die
  <2>3. turn' = 1 => Earlier' = {}
    BY DEF Earlier
  <2> QED
    BY <2>1, <2>2, <2>3 DEF Advanced, Posted, die
<1>2. CASE Release
  <2>1. /\ pc = "release" /\ UNCHANGED <<die, round, stuck, call>>
        /\ (pc' = "idle" /\ result' = "fault") \/ (pc' = "land" /\ turn' = turn)
    BY <1>2 DEF Release, Abort, GoTo
  <2>2. Members' = Members /\ Taking' = Taking /\ Key' = Key
    BY <2>1 DEF Members, Taking, Key, die
  <2> QED
    BY <2>1, <2>2 DEF Advanced, Posted, die
<1>3. CASE FinishSend
  <2>1. /\ pc = "land" /\ pc' \in {"drain", "release"}
        /\ UNCHANGED <<epoch, accounts, pending, call, history>>
    BY <1>3 DEF FinishSend
  <2>2. Members' = Members /\ Taking' = Taking /\ Key' = Key
    BY <2>1 DEF Members, Taking, Key
  <2> QED
    BY <2>1, <2>2 DEF Advanced, Posted, history
<1>4. CASE (\E img \in Images : InstallCalReg(img)) \/ UNCHANGED vars
  <2>1. /\ UNCHANGED <<pc, call, turn, result, epoch, accounts, pending, round, stuck>>
    BY <1>4 DEF InstallCalReg, vars, die, control, history
  <2>2. Members' = Members /\ Taking' = Taking /\ Key' = Key
    BY <2>1 DEF Members, Taking, Key
  <2> QED
    BY <2>1, <2>2 DEF Advanced, Posted, Earlier
<1> QED
  BY <1>1, <1>2, <1>3, <1>4

(* What counting an epoch does.                                            *)
LEMMA EpochEffect ==
  ASSUME TypeInv, NextEpoch
  PROVE  /\ pc = "epoch" /\ Node \in Nodes /\ Node \in Taking /\ Node \notin Earlier
         /\ call' = call /\ Taking' = Taking /\ Members' = Members
         /\ UNCHANGED <<accounts, pending, sequence, inFlight, image, stuck, sound>>
         /\ \A n \in Nodes : ~Posted(n)'
         /\ \/ /\ Refused(epoch[Node][call.opcode]) /\ Abort
               /\ UNCHANGED <<epoch, round>>
            \/ /\ ~Refused(epoch[Node][call.opcode])
               /\ epoch'[Node][call.opcode] = NextValue(epoch[Node][call.opcode])
               /\ round'[Node][call.opcode] = round[Node][call.opcode] + 1
               /\ \A n \in Nodes, op \in Opcodes :
                    n # Node \/ op # call.opcode =>
                      epoch'[n][op] = epoch[n][op] /\ round'[n][op] = round[n][op]
               /\ NextMember("epoch", "agree")
               /\ \/ pc' = "epoch" /\ Earlier' = Earlier \cup {Node}
                  \/ pc' = "agree" /\ Taking = Earlier \cup {Node}
               /\ \A n \in Nodes : Advanced(n)' => Advanced(n) \/ n = Node
<1>1. /\ pc = "epoch" /\ Running /\ ControlOK /\ CountersOK
  BY DEF NextEpoch, Running, TypeInv
<1>2. /\ Node \in Nodes /\ Node \in Taking /\ Node \notin Earlier /\ call.opcode \in Opcodes
  BY <1>1, CallFacts, EarlierFacts
<1>3. /\ call' = call /\ UNCHANGED <<accounts, pending, sequence, inFlight, image, stuck, sound>>
  BY DEF NextEpoch, Abort, NextMember, GoTo, die
<1>4. Taking' = Taking /\ Members' = Members
  BY <1>3 DEF Taking, Members
<1>5. pc' \in {"idle", "epoch", "agree"}
  BY DEF NextEpoch, Abort, NextMember, GoTo
<1>6. \A n \in Nodes : ~Posted(n)'
  BY <1>5 DEF Posted
<1>7. CASE ~Refused(epoch[Node][call.opcode])
  <2>1. /\ epoch' = [epoch EXCEPT ![Node][call.opcode] = NextValue(epoch[Node][call.opcode])]
        /\ round' = [round EXCEPT ![Node][call.opcode] = @ + 1]
        /\ NextMember("epoch", "agree")
    BY <1>7 DEF NextEpoch
  <2>2. \/ pc' = "epoch" /\ Earlier' = Earlier \cup {Node}
        \/ pc' = "agree" /\ Taking = Earlier \cup {Node}
    BY <1>1, <2>1, NextMemberKeeps DEF Steps
  <2>3. \A n \in Nodes : Advanced(n)' => Advanced(n) \/ n = Node
    BY <1>1, <1>4, <2>2 DEF Advanced
  <2>4. /\ epoch'[Node][call.opcode] = NextValue(epoch[Node][call.opcode])
        /\ round'[Node][call.opcode] = round[Node][call.opcode] + 1
        /\ \A n \in Nodes, op \in Opcodes :
             n # Node \/ op # call.opcode =>
               epoch'[n][op] = epoch[n][op] /\ round'[n][op] = round[n][op]
    BY <1>1, <1>2, <2>1 DEF CountersOK
  <2> QED
    BY <1>1, <1>2, <1>3, <1>4, <1>6, <1>7, <2>1, <2>2, <2>3, <2>4
<1>8. CASE Refused(epoch[Node][call.opcode])
  BY <1>1, <1>2, <1>3, <1>4, <1>6, <1>8 DEF NextEpoch, die
<1> QED
  BY <1>7, <1>8

(* A posting core is a posted one afterwards.                              *)
LEMMA PostMoves ==
  ASSUME TypeInv, Post
  PROVE  /\ Key' = Key /\ call' = call /\ Taking' = Taking /\ Members' = Members
         /\ stuck' = stuck /\ sound' = sound
         /\ Node \in Taking /\ Node \notin Earlier
         /\ \A n \in Nodes : Posted(n)' => (Posted(n) \/ n = Node) /\ ~Abort
         /\ \A n \in Nodes : Advanced(n)' => Advanced(n)
         /\ pc' = "idle" => result' = "fault"
         /\ NextMember("post", "release") =>
              \/ pc' = "post" /\ Earlier' = Earlier \cup {Node}
              \/ pc' = "release" /\ Taking = Earlier \cup {Node} /\ Earlier' = {}
<1>1. /\ pc = "post" /\ Running /\ ControlOK /\ UNCHANGED <<epoch, call>>
      /\ stuck' = stuck /\ sound' = sound
      /\ Abort \/ NextMember("post", "release")
  BY DEF Post, Running, TypeInv, Abort, NextMember, GoTo
<1>2. Key' = Key /\ Taking' = Taking /\ Members' = Members
  BY <1>1 DEF Key, Members, Taking
<1>3. Node \in Taking /\ Node \notin Earlier
  BY <1>1, CallFacts, EarlierFacts
<1>4. CASE Abort
  BY <1>1, <1>2, <1>3, <1>4 DEF Posted, Advanced, Abort, NextMember, GoTo
<1>5. CASE NextMember("post", "release")
  <2>1. \/ pc' = "post" /\ Earlier' = Earlier \cup {Node}
        \/ pc' = "release" /\ Taking = Earlier \cup {Node} /\ Earlier' = {}
    BY <1>1, <1>5, NextMemberKeeps DEF Steps
  <2>2. ~Abort
    BY <2>1 DEF Abort
  <2> QED
    BY <1>1, <1>2, <1>3, <2>1, <2>2 DEF Posted, Advanced
<1> QED
  BY <1>1, <1>4, <1>5

(* A landing touches one account or one buffer, of the running call's key. *)
LEMMA LandMoves ==
  ASSUME TypeInv, Land
  PROVE  /\ Key' = Key /\ call' = call /\ Taking' = Taking /\ Members' = Members
         /\ Earlier' = Earlier \/ pc' = "idle"
         /\ stuck' = stuck /\ sound' = sound
         /\ \A n \in Nodes : /\ DOMAIN accounts'[n] = Outstanding(n)
                             /\ Posted(n)' => Posted(n)
                             /\ Advanced(n)' => Advanced(n)
         /\ pc' = "idle" => result' = "fault"
         /\ \A n \in Nodes : \A k \in Outstanding(n) :
              \/ accounts'[n][k] = accounts[n][k]
              \/ /\ n = Landing /\ k = Key /\ Counts
                 /\ accounts'[n][k].round = accounts[n][k].round
                 /\ accounts'[n][k].rounds = accounts[n][k].rounds \cup {Segment.round}
         /\ \A n \in Nodes, k \in Keys :
              \/ pending'[n][k] = pending[n][k]
              \/ /\ n = Landing /\ k = Key /\ Key \notin Outstanding(n)
                 /\ pending'[n][k] = Append(pending[n][k], Segment)
<1>1. /\ pc = "land" /\ Running /\ ControlOK /\ LedgersOK /\ UNCHANGED <<epoch, call>>
      /\ stuck' = stuck /\ sound' = sound
      /\ Abort \/ GoTo("land", turn, at + 1)
      /\ Landing \in Nodes /\ Segment \in Segments /\ Key \in Keys
  BY LandEffect, LandingFacts DEF TypeInv, Running, Abort, GoTo
<1>2. Key' = Key /\ Taking' = Taking /\ Members' = Members
  BY <1>1 DEF Key, Members, Taking
<1>3. \/ pc' = "idle" /\ result' = "fault"
      \/ pc' = "land" /\ Earlier' = Earlier
  BY <1>1, <1>2 DEF Abort, GoTo, Earlier
<1>4. \A n \in Nodes : (Posted(n)' => Posted(n)) /\ (Advanced(n)' => Advanced(n))
  BY <1>1, <1>2, <1>3 DEF Posted, Advanced
<1>5. \/ accounts' = accounts
      \/ /\ Waiting /\ Counts
         /\ accounts' = [accounts EXCEPT ![Landing][Key] = Counted]
  BY LandEffect
<1>6. ASSUME NEW n \in Nodes
      PROVE  /\ DOMAIN accounts'[n] = Outstanding(n)
             /\ \A k \in Outstanding(n) :
                  \/ accounts'[n][k] = accounts[n][k]
                  \/ /\ n = Landing /\ k = Key /\ Counts
                     /\ accounts'[n][k].round = accounts[n][k].round
                     /\ accounts'[n][k].rounds = accounts[n][k].rounds \cup {Segment.round}
  <2>1. CASE accounts' = accounts
    BY <2>1 DEF Outstanding
  <2>2. CASE /\ Waiting /\ Counts
             /\ accounts' = [accounts EXCEPT ![Landing][Key] = Counted]
    <3>1. Account \in Accounts /\ Kept(Account) /\ Key \in DOMAIN accounts[Landing]
      BY <1>1, <2>2 DEF LedgersOK, Waiting, Account, Outstanding
    <3>2. Counted.round = Account.round /\ Counted.rounds = Account.rounds \cup {Segment.round}
      BY <3>1 DEF Counted, Accounts
    <3>3. CASE n = Landing
      <4>1. accounts'[n] = [accounts[n] EXCEPT ![Key] = Counted]
        BY <1>1, <2>2, <3>3 DEF LedgersOK
      <4> QED
        BY <2>2, <3>1, <3>2, <3>3, <4>1 DEF Outstanding, Account
    <3>4. CASE n # Landing
      <4>1. accounts'[n] = accounts[n]
        BY <1>1, <2>2, <3>4 DEF LedgersOK
      <4> QED
        BY <4>1 DEF Outstanding
    <3> QED
      BY <3>3, <3>4
  <2> QED
    BY <1>5, <2>1, <2>2
<1>7. ASSUME NEW n \in Nodes, NEW k \in Keys
      PROVE  \/ pending'[n][k] = pending[n][k]
             \/ /\ n = Landing /\ k = Key /\ Key \notin Outstanding(n)
                /\ pending'[n][k] = Append(pending[n][k], Segment)
  <2>1. \/ pending' = pending
        \/ ~Waiting /\ pending' = [pending EXCEPT ![Landing][Key] = Append(@, Segment)]
    BY LandEffect
  <2> QED
    BY <1>1, <2>1 DEF LedgersOK, Waiting
<1> QED
  BY <1>1, <1>2, <1>3, <1>4, <1>6, <1>7

------------------------------------------------------------------------------
(* Every core that has posted for the running call waits for it. *)

PostedOK == \A n \in Nodes : Posted(n) => Key \in Outstanding(n)

LEMMA PostedKept == TypeInv /\ PostedOK /\ [Next]_vars => PostedOK'
<1> SUFFICES ASSUME TypeInv, PostedOK, [Next]_vars, NEW n \in Nodes, Posted(n)'
             PROVE  Key' \in DOMAIN accounts'[n]
  BY DEF PostedOK, Outstanding
<1>1. ASSUME NEW c \in Calls, Call(c) PROVE FALSE
  BY <1>1 DEF Call, Posted
<1>2. CASE Agree \/ Release \/ FinishSend \/ (\E img \in Images : InstallCalReg(img))
           \/ UNCHANGED vars
  BY <1>2, QuietSteps DEF PostedOK, Outstanding
<1>3. CASE NextEpoch
  BY <1>3, EpochEffect
<1>4. CASE Post
  <2>1. (Posted(n) \/ n = Node) /\ ~Abort /\ Key' = Key
    BY <1>4, PostMoves
  <2> QED
    BY <1>4, <2>1, PostEffect DEF PostedOK, Outstanding
<1>5. CASE Land
  BY <1>5, LandMoves DEF PostedOK
<1>6. CASE Close
  BY <1>6 DEF Close, Posted
<1> QED
  BY <1>1, <1>2, <1>3, <1>4, <1>5, <1>6 DEF Next, Step

LEMMA PostedHolds == Spec => []PostedOK
<1>1. Init => PostedOK
  BY DEF Init, PostedOK, Posted
<1> QED
  BY <1>1, PostedKept, TypesHold, PTL DEF Spec

------------------------------------------------------------------------------
(* As long as no counter has wrapped, a tag names its round.               *)

NoWrap == \A n \in Nodes, op \in Opcodes : round[n][op] <= EpochCap

\* Payload waits and counts under the tag of its own round.
TagsAreRounds ==
  /\ \A n \in Nodes, op \in Opcodes : epoch[n][op] = round[n][op]
  /\ \A n \in Nodes, k \in Keys : \A x \in DOMAIN pending[n][k] : pending[n][k][x].round = k[2]
  /\ \A n \in Nodes : \A k \in Outstanding(n) :
       /\ k[2] <= epoch[n][k[1]]
       /\ accounts[n][k].round = k[2] /\ accounts[n][k].rounds \subseteq {k[2]}

\* A core that a call found waiting still waits for an earlier round.
StuckWaits ==
  \A n \in stuck : \E k \in Outstanding(n) :
    /\ k[2] <= epoch[n][k[1]]
    /\ Advanced(n) /\ k[1] = call.opcode => k[2] < epoch[n][k[1]]

UnwrappedInv == NoWrap => TagsAreRounds /\ StuckWaits /\ NotPaperedOver

(* A core that waits under one key only, waits under no other.             *)
LEMMA OneOutstanding ==
  ASSUME LedgersOK, NEW n \in Nodes, Cardinality(Outstanding(n)) = 1
  PROVE  \A j, k \in Outstanding(n) : j = k
<1>1. IsFiniteSet(1..EpochCap)
  BY DieAssumption, FS_Interval
<1>2. IsFiniteSet(Keys)
  BY <1>1, DieAssumption, FS_Product DEF Keys
<1>3. IsFiniteSet(Outstanding(n))
  BY <1>2, FS_Subset DEF LedgersOK
<1> QED
  BY <1>3, FS_Singleton

LEMMA UnwrappedKept == TypeInv /\ PostedOK /\ UnwrappedInv /\ [Next]_vars => UnwrappedInv'
<1> SUFFICES ASSUME TypeInv, PostedOK, UnwrappedInv, [Next]_vars, NoWrap'
             PROVE  TagsAreRounds' /\ StuckWaits' /\ NotPaperedOver'
  BY DEF UnwrappedInv
<1>1. CountersOK /\ LedgersOK /\ ControlOK
  BY DEF TypeInv
<1> DEFINE Kept3 == TagsAreRounds /\ StuckWaits /\ NotPaperedOver
<1>2. ASSUME round' = round PROVE Kept3
  BY <1>2 DEF NoWrap, UnwrappedInv
<1>3. ASSUME NEW c \in Calls, Call(c) PROVE Kept3'
  <2>1. /\ UNCHANGED <<die, round>> /\ pc' = "epoch" /\ turn' = 1
        /\ stuck' = stuck \cup {n \in Nodes : Outstanding(n) # {}}
    BY <1>3 DEF Call
  <2>2. Kept3
    BY <1>2, <2>1
  <2>3. \A n : ~Advanced(n)'
    BY <2>1 DEF Advanced, Earlier
  <2>4. TagsAreRounds'
    BY <2>1, <2>2 DEF TagsAreRounds, die, Outstanding
  <2>5. StuckWaits'
    <3> SUFFICES ASSUME NEW n \in stuck'
                 PROVE  \E k \in DOMAIN accounts[n] : k[2] <= epoch[n][k[1]]
      BY <2>1, <2>3 DEF StuckWaits, die, Outstanding
    <3>1. CASE n \in stuck
      BY <2>2, <3>1 DEF StuckWaits, Outstanding
    <3>2. CASE n \in Nodes /\ Outstanding(n) # {}
      BY <2>2, <3>2 DEF TagsAreRounds, Outstanding
    <3> QED
      BY <2>1, <3>1, <3>2
  <2> QED
    BY <2>1, <2>4, <2>5 DEF NotPaperedOver
<1>4. CASE Agree \/ Release \/ FinishSend \/ (\E img \in Images : InstallCalReg(img))
           \/ UNCHANGED vars
  <2>1. /\ UNCHANGED <<epoch, round, accounts, pending, stuck, call>>
        /\ \A n \in Nodes : Advanced(n)' => Advanced(n)
        /\ pc' = "idle" => result' = "fault" \/ (pc = "idle" /\ result' = result)
    BY <1>4, QuietSteps
  <2>2. Kept3
    BY <1>2, <2>1
  <2>3. TagsAreRounds'
    BY <2>1, <2>2 DEF TagsAreRounds, Outstanding
  <2>4. StuckWaits'
    BY <1>1, <2>1, <2>2 DEF StuckWaits, Outstanding, ControlOK
  <2>5. NotPaperedOver'
    BY <2>1, <2>2 DEF NotPaperedOver
  <2> QED
    BY <2>3, <2>4, <2>5
<1>5. CASE NextEpoch
  <2> DEFINE v == epoch[Node][call.opcode]
  <2>1. CASE Abort /\ UNCHANGED <<epoch, round>>
    <3>1. /\ UNCHANGED <<accounts, pending, stuck>> /\ pc' = "idle" /\ result' = "fault"
      BY <1>5, <2>1, EpochEffect DEF Abort
    <3>2. Kept3 /\ \A n : ~Advanced(n)'
      BY <1>2, <2>1, <3>1 DEF Advanced
    <3> QED
      BY <2>1, <3>1, <3>2 DEF TagsAreRounds, StuckWaits, NotPaperedOver, Outstanding
  <2>2. CASE NextMember("epoch", "agree")
    <3>1. /\ epoch'[Node][call.opcode] = NextValue(v)
          /\ round'[Node][call.opcode] = round[Node][call.opcode] + 1
          /\ \A n \in Nodes, op \in Opcodes :
               n # Node \/ op # call.opcode =>
                 epoch'[n][op] = epoch[n][op] /\ round'[n][op] = round[n][op]
          /\ \A n \in Nodes : Advanced(n)' => Advanced(n) \/ n = Node
          /\ pc' \in {"epoch", "agree"} /\ call' = call
          /\ UNCHANGED <<accounts, pending, stuck>>
          /\ Node \in Nodes /\ call.opcode \in Opcodes
      BY <1>1, <1>5, <2>2, EpochEffect, CallFacts DEF Abort, NextMember, GoTo, NextEpoch, Running
    <3>2. NoWrap
      <4>1. \A n \in Nodes, op \in Opcodes : round[n][op] \in Nat /\ round'[n][op] <= EpochCap
        BY <1>1 DEF CountersOK, NoWrap
      <4> QED
        BY <3>1, <4>1, DieAssumption DEF NoWrap
    <3>3. Kept3
      BY <3>2 DEF UnwrappedInv
    <3>4. /\ v = round[Node][call.opcode] /\ v \in Nat /\ v # EpochCap
          /\ epoch'[Node][call.opcode] = v + 1 /\ round'[Node][call.opcode] = v + 1
      <4>1. v = round[Node][call.opcode] /\ v \in Nat
        BY <1>1, <3>1, <3>3 DEF TagsAreRounds, CountersOK
      <4>2. v + 1 <= EpochCap
        BY <3>1, <4>1 DEF NoWrap
      <4> QED
        BY <3>1, <4>1, <4>2, DieAssumption DEF NextValue
    <3>5. \A n \in Nodes, op \in Opcodes : /\ epoch'[n][op] = round'[n][op]
                                           /\ epoch[n][op] \in Nat /\ epoch[n][op] <= epoch'[n][op]
      <4>1. \A n \in Nodes, op \in Opcodes : epoch[n][op] \in Nat /\ epoch[n][op] = round[n][op]
        BY <1>1, <3>3 DEF TagsAreRounds, CountersOK
      <4> QED
        BY <3>1, <3>4, <4>1
    <3>6. \A n \in Nodes : \A k \in Outstanding(n) :
            k[1] \in Opcodes /\ k[2] \in Nat /\ k[2] <= epoch[n][k[1]] /\ epoch[n][k[1]] \in Nat
      BY <1>1, <3>3, <3>5 DEF LedgersOK, Keys, TagsAreRounds
    <3>7. TagsAreRounds'
      <4>1. \A n \in Nodes : \A k \in Outstanding(n) : k[2] <= epoch'[n][k[1]]
        <5> SUFFICES ASSUME NEW n \in Nodes, NEW k \in Outstanding(n)
                     PROVE  k[2] <= epoch'[n][k[1]]
          OBVIOUS
        <5>1. k[2] <= epoch[n][k[1]] /\ epoch[n][k[1]] <= epoch'[n][k[1]]
          BY <3>5, <3>6
        <5>2. epoch'[n][k[1]] = epoch[n][k[1]] \/ epoch'[n][k[1]] = epoch[n][k[1]] + 1
          BY <3>1, <3>4, <3>6
        <5> QED
          BY <3>6, <5>1, <5>2
      <4> QED
        BY <3>1, <3>3, <3>5, <4>1 DEF TagsAreRounds, Outstanding
    <3>8. StuckWaits'
      <4> SUFFICES ASSUME NEW n \in stuck
                   PROVE  \E k \in Outstanding(n) :
                            /\ k[2] <= epoch'[n][k[1]]
                            /\ Advanced(n)' /\ k[1] = call.opcode => k[2] < epoch'[n][k[1]]
        BY <3>1 DEF StuckWaits, Outstanding
      <4>1. n \in Nodes
        BY <1>1 DEF ControlOK
      <4>2. PICK k \in Outstanding(n) :
              /\ k[2] <= epoch[n][k[1]]
              /\ Advanced(n) /\ k[1] = call.opcode => k[2] < epoch[n][k[1]]
        BY <3>3 DEF StuckWaits
      <4>3. k[1] \in Opcodes /\ k[2] \in Nat /\ epoch[n][k[1]] \in Nat
        BY <3>6, <4>1
      <4>4. CASE n = Node /\ k[1] = call.opcode
        BY <3>4, <4>2, <4>3, <4>4
      <4>5. CASE ~(n = Node /\ k[1] = call.opcode)
        <5>1. epoch'[n][k[1]] = epoch[n][k[1]]
          BY <3>1, <4>1, <4>3, <4>5
        <5>2. Advanced(n)' /\ k[1] = call.opcode => Advanced(n)
          BY <3>1, <4>1, <4>5
        <5> QED
          BY <4>2, <5>1, <5>2
      <4> QED
        BY <4>4, <4>5
    <3> QED
      BY <3>1, <3>7, <3>8 DEF NotPaperedOver
  <2> QED
    BY <1>5, <2>1, <2>2, EpochEffect
<1>6. CASE Post
  <2>1. /\ UNCHANGED <<epoch, round>> /\ pc = "post" /\ Key \in Keys /\ Node \in Nodes
        /\ call' = call /\ stuck' = stuck /\ Node \in Taking
        /\ \A n \in Nodes : Advanced(n)' => Advanced(n)
        /\ pc' = "idle" => result' = "fault"
    BY <1>6, PostEffect, PostMoves
  <2>2. Kept3
    BY <1>2, <2>1
  <2>3. NotPaperedOver'
    BY <2>1 DEF NotPaperedOver
  <2>4. CASE UNCHANGED <<accounts, pending>>
    <3>1. TagsAreRounds'
      BY <2>1, <2>2, <2>4 DEF TagsAreRounds, Outstanding
    <3>2. StuckWaits'
      BY <1>1, <2>1, <2>2, <2>4 DEF StuckWaits, Outstanding, ControlOK
    <3> QED
      BY <2>3, <3>1, <3>2
  <2>5. CASE /\ pending' = [pending EXCEPT ![Node][Key] = <<>>]
             /\ DOMAIN accounts'[Node] = Outstanding(Node) \cup {Key}
             /\ accounts'[Node][Key] = FreshAccount(Node)
             /\ \A k \in Outstanding(Node) \ {Key} : accounts'[Node][k] = accounts[Node][k]
             /\ \A n \in Nodes \ {Node} : accounts'[n] = accounts[n]
    <3>1. Key[1] = call.opcode /\ Key[2] = epoch[Node][call.opcode] /\ call.opcode \in Opcodes
      BY <1>1, <2>1, KeyFacts, CallFacts DEF Running
    <3>2. /\ round[Node][call.opcode] = Key[2] /\ Key[2] \in Nat
      BY <1>1, <2>1, <2>2, <3>1 DEF TagsAreRounds, CountersOK
    <3>3. FreshAccount(Node).round = Key[2] /\ FreshAccount(Node).rounds \subseteq {Key[2]}
      BY <2>1, <2>2, <3>2, FreshFacts DEF TagsAreRounds
    <3>4. \A n \in Nodes, k \in Keys : \/ pending'[n][k] = pending[n][k]
                                       \/ pending'[n][k] = <<>>
      BY <1>1, <2>1, <2>5 DEF LedgersOK
    <3>5. TagsAreRounds'
      <4>1. \A n \in Nodes, k \in Keys : \A x \in DOMAIN pending'[n][k] :
              pending'[n][k][x].round = k[2]
        BY <2>2, <3>4 DEF TagsAreRounds
      <4>2. ASSUME NEW n \in Nodes, NEW k \in DOMAIN accounts'[n]
            PROVE  /\ k[2] <= epoch[n][k[1]]
                   /\ accounts'[n][k].round = k[2] /\ accounts'[n][k].rounds \subseteq {k[2]}
        <5>1. CASE n = Node /\ k = Key
          BY <2>5, <3>1, <3>2, <3>3, <5>1
        <5>2. CASE ~(n = Node /\ k = Key)
          <6>1. k \in Outstanding(n) /\ accounts'[n][k] = accounts[n][k]
            BY <2>5, <5>2 DEF Outstanding
          <6> QED
            BY <2>2, <6>1 DEF TagsAreRounds
        <5> QED
          BY <5>1, <5>2
      <4> QED
        BY <2>1, <2>2, <4>1, <4>2 DEF TagsAreRounds, Outstanding
    <3>6. StuckWaits'
      <4>1. \A n \in Nodes : Outstanding(n) \subseteq DOMAIN accounts'[n]
        BY <2>5 DEF Outstanding
      <4> QED
        BY <1>1, <2>1, <2>2, <4>1 DEF StuckWaits, Outstanding, ControlOK
    <3> QED
      BY <2>3, <3>5, <3>6
  <2> QED
    BY <1>6, <2>4, <2>5, PostEffect
<1>7. CASE Land
  <2>1. /\ UNCHANGED <<epoch, round>> /\ pc = "land" /\ Key \in Keys /\ call' = call
        /\ stuck' = stuck /\ \A n \in Nodes : DOMAIN accounts'[n] = Outstanding(n)
        /\ \A n \in Nodes : Advanced(n)' => Advanced(n)
        /\ pc' = "idle" => result' = "fault"
    BY <1>7, LandEffect, LandMoves
  <2>2. Kept3
    BY <1>2, <2>1
  <2>3. Segment.round = Key[2]
    <3>1. /\ Node \in Taking /\ Node \in Nodes /\ call.opcode \in Opcodes
      BY <1>1, <2>1, CallFacts DEF Running
    <3>2. Key[2] = epoch[Node][call.opcode]
      BY <2>1, <3>1, KeyFacts
    <3> QED
      BY <2>2, <3>1, <3>2 DEF Segment, TagsAreRounds
  <2>4. \A n \in Nodes, k \in Keys : \A x \in DOMAIN pending'[n][k] : pending'[n][k][x].round = k[2]
    <3> SUFFICES ASSUME NEW n \in Nodes, NEW k \in Keys, NEW x \in DOMAIN pending'[n][k]
                 PROVE  pending'[n][k][x].round = k[2]
      OBVIOUS
    <3>1. CASE pending'[n][k] = pending[n][k]
      BY <2>2, <3>1 DEF TagsAreRounds
    <3>2. CASE k = Key /\ pending'[n][k] = Append(pending[n][k], Segment)
      <4>1. pending[n][k] \in Seq(Segments)
        BY <1>1 DEF LedgersOK
      <4>2. pending'[n][k][x] = Segment \/ (x \in DOMAIN pending[n][k]
                                             /\ pending'[n][k][x] = pending[n][k][x])
        BY <3>2, <4>1
      <4> QED
        BY <2>2, <2>3, <3>2, <4>2 DEF TagsAreRounds
    <3> QED
      BY <1>7, <3>1, <3>2, LandMoves
  <2>5. \A n \in Nodes : \A k \in Outstanding(n) :
          accounts'[n][k].round = k[2] /\ accounts'[n][k].rounds \subseteq {k[2]}
    <3> SUFFICES ASSUME NEW n \in Nodes, NEW k \in Outstanding(n)
                 PROVE  accounts'[n][k].round = k[2] /\ accounts'[n][k].rounds \subseteq {k[2]}
      OBVIOUS
    <3>1. accounts[n][k].round = k[2] /\ accounts[n][k].rounds \subseteq {k[2]}
      BY <2>2 DEF TagsAreRounds
    <3> QED
      BY <1>7, <2>3, <3>1, LandMoves
  <2>6. TagsAreRounds'
    BY <2>1, <2>2, <2>4, <2>5 DEF TagsAreRounds, Outstanding
  <2>7. StuckWaits'
    BY <1>1, <2>1, <2>2 DEF StuckWaits, Outstanding, ControlOK
  <2> QED
    BY <2>1, <2>6, <2>7 DEF NotPaperedOver
<1>8. CASE Close
  <2>1. /\ pc = "drain" /\ pc' = "idle" /\ call' = call
        /\ UNCHANGED <<epoch, pending, stuck, round>>
    BY <1>8, CloseEffect DEF history
  <2>2. Kept3 /\ \A n : ~Advanced(n)'
    BY <1>2, <2>1 DEF Advanced
  <2>3. CASE accounts' = accounts /\ result' \in {"fault", "incomplete"}
    <3>1. TagsAreRounds'
      BY <2>1, <2>2, <2>3 DEF TagsAreRounds, Outstanding
    <3>2. StuckWaits'
      BY <2>1, <2>2, <2>3 DEF StuckWaits, Outstanding
    <3> QED
      BY <2>3, <3>1, <3>2 DEF NotPaperedOver
  <2>4. CASE /\ \A n \in Taking : Cardinality(Outstanding(n)) = 1
             /\ accounts' = [n \in Nodes |-> IF n \notin Taking THEN accounts[n]
                               ELSE [k \in Outstanding(n) \ {Key} |-> accounts[n][k]]]
    <3>1. Taking \subseteq Nodes /\ Taking' = Taking
      BY <1>1, <2>1, CallFacts DEF Running, Taking
    <3>2. ASSUME NEW n \in Taking, n \in stuck PROVE FALSE
      <4>1. n \in Nodes /\ Advanced(n) /\ Posted(n)
        BY <2>1, <3>1 DEF Advanced, Posted
      <4>2. Key \in Outstanding(n)
        BY <4>1 DEF PostedOK
      <4>3. PICK k \in Outstanding(n) : k[1] = call.opcode => k[2] < epoch[n][k[1]]
        BY <2>2, <3>2, <4>1 DEF StuckWaits
      <4>4. k = Key
        BY <1>1, <2>4, <4>1, <4>2, OneOutstanding
      <4>5. Key = <<call.opcode, epoch[n][call.opcode]>>
        BY <2>1, KeyFacts
      <4>6. epoch[n][call.opcode] \in Nat
        BY <1>1, <2>1, <4>1, CallFacts DEF CountersOK, Running
      <4> QED
        BY <4>3, <4>4, <4>5, <4>6
    <3>3. NotPaperedOver'
      BY <2>1, <3>1, <3>2 DEF NotPaperedOver, Taking
    <3>4. StuckWaits'
      <4>1. \A n \in stuck : accounts'[n] = accounts[n]
        BY <1>1, <2>4, <3>2 DEF ControlOK
      <4> QED
        BY <2>1, <2>2, <4>1 DEF StuckWaits, Outstanding
    <3>5. TagsAreRounds'
      <4>1. \A n \in Nodes : \A k \in DOMAIN accounts'[n] :
              k \in Outstanding(n) /\ accounts'[n][k] = accounts[n][k]
        BY <2>4 DEF Outstanding
      <4> QED
        BY <2>1, <2>2, <4>1 DEF TagsAreRounds, Outstanding
    <3> QED
      BY <3>3, <3>4, <3>5
  <2> QED
    BY <1>8, <2>3, <2>4, CloseEffect
<1> QED
  BY <1>3, <1>4, <1>5, <1>6, <1>7, <1>8 DEF Next, Step

LEMMA UnwrappedHolds == Spec => []UnwrappedInv
<1>1. Init => UnwrappedInv
  <2> SUFFICES ASSUME Init PROVE TagsAreRounds /\ StuckWaits /\ NotPaperedOver
    BY DEF UnwrappedInv
  <2>1. /\ pc = "idle" /\ result = "none" /\ round = epoch /\ stuck = {}
        /\ accounts = [n \in Nodes |-> <<>>]
        /\ pending = [n \in Nodes |-> [k \in Keys |-> <<>>]]
    BY DEF Init
  <2> QED
    BY <2>1 DEF TagsAreRounds, StuckWaits, NotPaperedOver, Outstanding
<1> QED
  BY <1>1, UnwrappedKept, TypesHold, PostedHolds, PTL DEF Spec

(* Contract 7 before a wrap: whatever calls are made and wherever they     *)
(* raise, a receive command counts only payload of its own round.          *)
THEOREM OwnRoundsBeforeWrap == Spec => [](NoWrap => NoCrossRound)
<1>1. UnwrappedInv => (NoWrap => NoCrossRound)
  BY DEF UnwrappedInv, TagsAreRounds, NoCrossRound
<1> QED
  BY <1>1, UnwrappedHolds, PTL

(* Step6 before a wrap: a phase that left a core waiting makes every later *)
(* call with that core raise, so it never looks as if it had been closed.  *)
THEOREM NothingPaperedOver == Spec => [](NoWrap => NotPaperedOver)
<1>1. UnwrappedInv => (NoWrap => NotPaperedOver)
  BY DEF UnwrappedInv
<1> QED
  BY <1>1, UnwrappedHolds, PTL

------------------------------------------------------------------------------
(* Calls that every core takes part in, as all take the same branch (E1).  *)

Uniform == \A c \in Calls : DOMAIN c.groups = Nodes

\* Two cores have counted alike in a domain.
Level(n, m, op) == epoch[n][op] = epoch[m][op] /\ round[n][op] = round[m][op]

\* The counters agree, but for those ahead by one while a call counts; once one is
\* ahead, none of the others can refuse to follow.
InStep ==
  /\ \A n, m \in Nodes, op \in Opcodes : pc # "epoch" \/ op # call.opcode => Level(n, m, op)
  /\ pc = "epoch" => \A n, m \in Nodes :
       /\ (n \in Earlier <=> m \in Earlier) => Level(n, m, call.opcode)
       /\ n \in Earlier /\ m \notin Earlier =>
            /\ ~Refused(epoch[m][call.opcode])
            /\ epoch[n][call.opcode] = NextValue(epoch[m][call.opcode])
            /\ round[n][call.opcode] = round[m][call.opcode] + 1

\* No arrival comes before the receive it is meant for, and that one is of its round.
ReceivesFirst ==
  /\ \A n \in Nodes, k \in Keys : pending[n][k] = <<>>
  /\ NoCrossRound
  /\ \A n \in Nodes : Posted(n) => accounts[n][Key].round = round[n][call.opcode]

LEMMA InStepKept == Uniform /\ TypeInv /\ InStep /\ [Next]_vars => InStep'
<1> SUFFICES ASSUME Uniform, TypeInv, InStep, [Next]_vars PROVE InStep'
  OBVIOUS
<1>1. CountersOK /\ ControlOK
  BY DEF TypeInv
<1>2. ASSUME UNCHANGED <<epoch, round, call>>, pc # "epoch", pc' # "epoch" PROVE InStep'
  BY <1>2 DEF InStep, Level
<1>3. ASSUME NEW c \in Calls, Call(c) PROVE InStep'
  <2>1. UNCHANGED <<epoch, round>> /\ pc = "idle" /\ pc' = "epoch" /\ turn' = 1
    BY <1>3 DEF Call, die
  <2>2. \A n, m \in Nodes, op \in Opcodes : Level(n, m, op)
    BY <2>1 DEF InStep
  <2>3. Earlier' = {} /\ call'.opcode \in Opcodes
    BY <1>3, <2>1, CallAssumption DEF Earlier, Call
  <2> QED
    BY <2>1, <2>2, <2>3 DEF InStep, Level
<1>4. CASE Agree \/ Release \/ FinishSend \/ (\E img \in Images : InstallCalReg(img))
  <2>1. pc # "epoch" /\ pc' # "epoch"
    BY <1>4 DEF Agree, Release, FinishSend, InstallCalReg, control, Abort, GoTo
  <2> QED
    BY <1>2, <1>4, <2>1, QuietSteps
<1>5. CASE NextEpoch
  <2> DEFINE op == call.opcode
             v == epoch[Node][op]
  <2>1. /\ pc = "epoch" /\ Node \in Nodes /\ Node \notin Earlier /\ Earlier \subseteq Nodes
        /\ call' = call /\ inFlight' = inFlight /\ op \in Opcodes /\ Taking = Nodes
    BY <1>1, <1>5, EpochEffect, CallFacts, EarlierFacts DEF Running, Uniform, Taking
  <2>2. CASE Refused(v) /\ Abort /\ UNCHANGED <<epoch, round>>
    <3>1. \A n \in Nodes : n \notin Earlier
      BY <2>1, <2>2 DEF InStep
    <3>2. \A n, m \in Nodes, o \in Opcodes : Level(n, m, o)
      BY <2>1, <3>1 DEF InStep
    <3> QED
      BY <2>1, <2>2, <3>2 DEF InStep, Level, Abort
  <2>3. CASE ~Refused(v)
    <3>1. /\ epoch'[Node][op] = NextValue(v) /\ round'[Node][op] = round[Node][op] + 1
          /\ \A n \in Nodes, o \in Opcodes :
               n # Node \/ o # op => epoch'[n][o] = epoch[n][o] /\ round'[n][o] = round[n][o]
          /\ \/ pc' = "epoch" /\ Earlier' = Earlier \cup {Node}
             \/ pc' = "agree" /\ Taking = Earlier \cup {Node}
      BY <1>5, <2>3, EpochEffect
    <3>2. \A n, m \in Nodes, o \in Opcodes : o # op => Level(n, m, o)'
      BY <2>1, <3>1 DEF InStep, Level
    <3>3. \A n \in Nodes : /\ n \notin Earlier => Level(n, Node, op)
                           /\ n \in Earlier => epoch[n][op] = NextValue(v)
                                               /\ round[n][op] = round[Node][op] + 1
      BY <2>1 DEF InStep
    <3>4. \A n \in Earlier \cup {Node} : epoch'[n][op] = NextValue(v)
                                         /\ round'[n][op] = round[Node][op] + 1
      BY <2>1, <3>1, <3>3
    <3>5. \A n \in Nodes \ (Earlier \cup {Node}) : epoch'[n][op] = v
                                                   /\ round'[n][op] = round[Node][op]
      BY <2>1, <3>1, <3>3 DEF Level
    <3>6. CASE pc' = "agree" /\ Taking = Earlier \cup {Node}
      <4>1. \A n, m \in Nodes : Level(n, m, op)'
        BY <2>1, <3>4, <3>6 DEF Level
      <4> QED
        BY <2>1, <3>2, <3>6, <4>1 DEF InStep
    <3>7. CASE pc' = "epoch" /\ Earlier' = Earlier \cup {Node}
      <4>1. ASSUME NEW n \in Nodes, NEW m \in Nodes, n \in Earlier' <=> m \in Earlier'
            PROVE  Level(n, m, op)'
        <5>1. CASE n \in Earlier'
          BY <2>1, <3>4, <3>7, <4>1, <5>1 DEF Level
        <5>2. CASE n \notin Earlier'
          BY <2>1, <3>5, <3>7, <4>1, <5>2 DEF Level
        <5> QED
          BY <5>1, <5>2
      <4>2. ASSUME NEW n \in Nodes, NEW m \in Nodes, n \in Earlier', m \notin Earlier'
            PROVE  /\ ~Refused(epoch[m][op])'
                   /\ epoch'[n][op] = NextValue(epoch'[m][op])
                   /\ round'[n][op] = round'[m][op] + 1
        <5>1. epoch'[m][op] = v /\ round'[m][op] = round[Node][op]
          BY <3>5, <3>7, <4>2
        <5>2. epoch'[n][op] = NextValue(v) /\ round'[n][op] = round[Node][op] + 1
          BY <3>4, <3>7, <4>2
        <5>3. ~Refused(epoch[m][op])'
          BY <2>1, <2>3, <5>1 DEF Refused, Drained
        <5> QED
          BY <5>1, <5>2, <5>3
      <4> QED
        BY <2>1, <3>2, <3>7, <4>1, <4>2 DEF InStep
    <3> QED
      BY <3>1, <3>6, <3>7
  <2> QED
    BY <1>5, <2>2, <2>3, EpochEffect
<1>6. CASE Post
  <2>1. UNCHANGED <<epoch, round, call>> /\ pc # "epoch" /\ pc' # "epoch"
    BY <1>6 DEF Post, Abort, NextMember, GoTo
  <2> QED
    BY <1>2, <2>1
<1>7. CASE Land
  <2>1. UNCHANGED <<epoch, round, call>> /\ pc # "epoch" /\ pc' # "epoch"
    BY <1>7, LandEffect DEF Abort, GoTo
  <2> QED
    BY <1>2, <2>1
<1>8. CASE Close
  BY <1>2, <1>8 DEF Close, history
<1>9. CASE UNCHANGED vars
  BY <1>9 DEF vars, die, control, history, InStep, Level, Earlier, Members, Refused, Drained
<1> QED
  BY <1>3, <1>4, <1>5, <1>6, <1>7, <1>8, <1>9 DEF Next, Step

LEMMA InStepHolds == ASSUME Uniform PROVE Spec => []InStep
<1>1. Init => InStep
  <2> SUFFICES ASSUME Init PROVE InStep
    OBVIOUS
  <2>1. /\ pc = "idle" /\ round = epoch
        /\ \A n \in Nodes, op \in Opcodes : epoch[n][op] = 0
    BY DEF Init, FreshCounters
  <2> QED
    BY <2>1 DEF InStep, Level
<1>2. TypeInv /\ InStep /\ [Next]_vars => InStep'
  BY InStepKept
<1> QED
  BY <1>1, <1>2, TypesHold, PTL DEF Spec

(* E1: when every call takes all cores along, the epoch counters of a      *)
(* domain agree on them between calls, wherever the calls before raised:   *)
(* a counter refuses to wrap before the first core has counted, or never.  *)
THEOREM EpochsInStep == ASSUME Uniform PROVE Spec => []EpochsAgree
<1>1. InStep => EpochsAgree
  BY DEF InStep, Level, EpochsAgree
<1> QED
  BY <1>1, InStepHolds, PTL

LEMMA ReceivesFirstKept ==
  Uniform /\ TypeInv /\ PostedOK /\ InStep /\ ReceivesFirst /\ [Next]_vars => ReceivesFirst'
<1> SUFFICES ASSUME Uniform, TypeInv, PostedOK, InStep, ReceivesFirst, [Next]_vars
             PROVE  ReceivesFirst'
  OBVIOUS
<1>1. CountersOK /\ LedgersOK /\ ControlOK
  BY DEF TypeInv
<1>2. ASSUME NEW c \in Calls, Call(c) PROVE ReceivesFirst'
  <2>1. UNCHANGED <<accounts, pending>> /\ \A n : ~Posted(n)'
    BY <1>2 DEF Call, die, Posted
  <2> QED
    BY <2>1 DEF ReceivesFirst, NoCrossRound, Outstanding
<1>3. CASE Agree \/ Release \/ FinishSend \/ (\E img \in Images : InstallCalReg(img))
           \/ UNCHANGED vars
  <2>1. /\ UNCHANGED <<epoch, round, accounts, pending, call>> /\ Key' = Key
        /\ \A n \in Nodes : Posted(n)' => Posted(n)
    BY <1>3, QuietSteps
  <2> QED
    BY <2>1 DEF ReceivesFirst, NoCrossRound, Outstanding
<1>4. CASE NextEpoch
  <2>1. UNCHANGED <<accounts, pending>> /\ \A n \in Nodes : ~Posted(n)'
    BY <1>4, EpochEffect
  <2> QED
    BY <2>1 DEF ReceivesFirst, NoCrossRound, Outstanding
<1>5. CASE Post
  <2>1. /\ round' = round /\ call' = call /\ Key' = Key /\ pc = "post"
        /\ Node \in Nodes /\ Key \in Keys
        /\ \A n \in Nodes : Posted(n)' => (Posted(n) \/ n = Node) /\ ~Abort
    BY <1>5, PostEffect, PostMoves
  <2>2. CASE Abort /\ UNCHANGED <<accounts, pending>>
    BY <2>1, <2>2 DEF ReceivesFirst, NoCrossRound, Outstanding
  <2>3. CASE /\ pending' = [pending EXCEPT ![Node][Key] = <<>>]
             /\ DOMAIN accounts'[Node] = Outstanding(Node) \cup {Key}
             /\ accounts'[Node][Key] = FreshAccount(Node)
             /\ \A k \in Outstanding(Node) \ {Key} : accounts'[Node][k] = accounts[Node][k]
             /\ \A n \in Nodes \ {Node} : accounts'[n] = accounts[n]
    <3>1. /\ FreshAccount(Node).round = round[Node][call.opcode]
          /\ FreshAccount(Node).rounds = {}
      BY <2>1, FreshFacts DEF ReceivesFirst
    <3>2. \A n \in Nodes, k \in Keys : pending'[n][k] = <<>>
      BY <1>1, <2>1, <2>3 DEF ReceivesFirst, LedgersOK
    <3>3. ASSUME NEW n \in Nodes, NEW k \in DOMAIN accounts'[n]
          PROVE  accounts'[n][k].rounds \subseteq {accounts'[n][k].round}
      <4>1. CASE n = Node /\ k = Key
        BY <2>3, <3>1, <4>1
      <4>2. CASE ~(n = Node /\ k = Key)
        <5>1. k \in Outstanding(n) /\ accounts'[n][k] = accounts[n][k]
          BY <2>3, <4>2 DEF Outstanding
        <5> QED
          BY <5>1 DEF ReceivesFirst, NoCrossRound
      <4> QED
        BY <4>1, <4>2
    <3>4. ASSUME NEW n \in Nodes, Posted(n)'
          PROVE  accounts'[n][Key].round = round[n][call.opcode]
      BY <2>1, <2>3, <3>1, <3>4 DEF ReceivesFirst
    <3> QED
      BY <2>1, <3>2, <3>3, <3>4 DEF ReceivesFirst, NoCrossRound, Outstanding
  <2> QED
    BY <1>5, <2>2, <2>3, PostEffect
<1>6. CASE Land
  <2>1. /\ round' = round /\ call' = call /\ Key' = Key /\ pc = "land" /\ Landing \in Nodes
        /\ Node \in Nodes /\ Taking = Nodes /\ Key \in Keys /\ call.opcode \in Opcodes
    BY <1>1, <1>6, LandEffect, LandMoves, LandingFacts, CallFacts DEF Uniform, Taking, Running
  <2>2. /\ Key \in Outstanding(Landing)
        /\ accounts[Landing][Key].round = round[Landing][call.opcode]
    BY <2>1 DEF PostedOK, ReceivesFirst, Posted
  <2>3. Segment.round = accounts[Landing][Key].round
    BY <2>1, <2>2 DEF InStep, Level, Segment
  <2>4. \A n \in Nodes, k \in Keys : pending'[n][k] = <<>>
    BY <1>6, <2>2, LandMoves DEF ReceivesFirst
  <2>5. \A n \in Nodes : \A k \in DOMAIN accounts'[n] :
          /\ accounts'[n][k].round = accounts[n][k].round
          /\ accounts'[n][k].rounds \subseteq {accounts'[n][k].round}
    <3> SUFFICES ASSUME NEW n \in Nodes, NEW k \in Outstanding(n)
                 PROVE  /\ accounts'[n][k].round = accounts[n][k].round
                        /\ accounts'[n][k].rounds \subseteq {accounts'[n][k].round}
      BY <1>6, LandMoves
    <3>1. accounts[n][k].rounds \subseteq {accounts[n][k].round}
      BY DEF ReceivesFirst, NoCrossRound
    <3> QED
      BY <1>6, <2>3, <3>1, LandMoves
  <2>6. \A n \in Nodes : Posted(n)' => Posted(n) /\ Key \in DOMAIN accounts'[n]
    BY <1>6, LandMoves DEF PostedOK
  <2> QED
    BY <2>1, <2>4, <2>5, <2>6 DEF ReceivesFirst, NoCrossRound, Outstanding
<1>7. CASE Close
  <2>1. pending' = pending /\ \A n : ~Posted(n)'
    BY <1>7 DEF Close, Posted
  <2>2. \A n \in Nodes : \A k \in DOMAIN accounts'[n] :
          k \in Outstanding(n) /\ accounts'[n][k] = accounts[n][k]
    <3>1. CASE accounts' = accounts
      BY <3>1 DEF Outstanding
    <3>2. CASE accounts' = [n \in Nodes |-> IF n \notin Taking THEN accounts[n]
                              ELSE [k \in Outstanding(n) \ {Key} |-> accounts[n][k]]]
      BY <3>2 DEF Outstanding
    <3> QED
      BY <1>7, <3>1, <3>2, CloseEffect
  <2> QED
    BY <2>1, <2>2 DEF ReceivesFirst, NoCrossRound, Outstanding
<1> QED
  BY <1>2, <1>3, <1>4, <1>5, <1>6, <1>7 DEF Next, Step

(* Contract 7, wraps included: when every call takes all cores along, no   *)
(* row lands before its receive is posted and none is counted in another   *)
(* round, also by a receive that an aborted call of the same tag left.     *)
THEOREM OwnRounds == ASSUME Uniform PROVE Spec => []NoCrossRound
<1>1. Init => ReceivesFirst
  BY DEF Init, ReceivesFirst, NoCrossRound, Outstanding, Posted
<1>2. TypeInv /\ PostedOK /\ InStep /\ ReceivesFirst /\ [Next]_vars => ReceivesFirst'
  BY ReceivesFirstKept
<1>3. ReceivesFirst => NoCrossRound
  BY DEF ReceivesFirst
<1> QED
  BY <1>1, <1>2, <1>3, TypesHold, PostedHolds, InStepHolds, PTL DEF Spec

------------------------------------------------------------------------------
(* The closure of a call that starts sound. *)

\* The sources whose bitmap lands on a core, and the rows it is due from them. A
\* source numbers the rows of a call from where its counter stood before it.
Senders(c, n) == {m \in Nodes : n \in ToSet(c.lands[m])}
Base(m) == IF Sent(m) THEN sequence[m] - Max({1, Rows}) ELSE sequence[m]
Due(n) == {<<p[1], Base(p[1]) + p[2]>> : p \in Senders(call, n) \X (0..(Rows - 1))}

\* A core has counted only rows that are due to it, all rows of the sends that are
\* complete, and the rows of the current one up to where it is.
RowsCounted(n) ==
  LET seen == accounts[n][Key].seen
  IN  /\ seen \subseteq Due(n)
      /\ \A m \in Senders(call, n), r \in 0..(Rows - 1) : Sent(m) => <<m, Base(m) + r>> \in seen
      /\ pc = "land" => \A x \in 0..(at - 1) :
           Walk[(x % Len(Walk)) + 1] = n => <<Node, Base(Node) + (x \div Len(Walk))>> \in seen

\* The members' counters agree, but for those already advanced, and none refuses.
MembersInStep ==
  /\ pc = "epoch" => \A n, m \in Taking :
       /\ (n \in Earlier <=> m \in Earlier) => epoch[n][call.opcode] = epoch[m][call.opcode]
       /\ n \in Earlier /\ m \notin Earlier =>
            epoch[n][call.opcode] = NextValue(epoch[m][call.opcode])
       /\ m \notin Earlier => ~Refused(epoch[m][call.opcode])
  /\ pc = "agree" => \A n, m \in Taking : epoch[n][call.opcode] = epoch[m][call.opcode]

\* The receive of a core for the running call.
ReceiveOK(n) ==
  /\ \A k \in Keys : pending[n][k] = <<>>
  /\ ~Posted(n) => Outstanding(n) = {}
  /\ Posted(n) => /\ Outstanding(n) = {Key}
                  /\ accounts[n][Key].capacity = Rows * call.stride
                  /\ accounts[n][Key].expVal = ExpVal(call, n)
                  /\ RowsCounted(n)

SoundRun ==
  sound /\ Running =>
    /\ WellCompiled(call) /\ call.request = NoRequest /\ call.opcode \in image
    /\ MembersInStep
    /\ \A n \in Taking : ReceiveOK(n)

LEMMA ListSize ==
  ASSUME NEW S, NEW s \in Seq(S)
  PROVE  IsFiniteSet(ToSet(s)) /\ Cardinality(ToSet(s)) <= Len(s)
<1>1. Len(s) \in Nat /\ DOMAIN s = 1..Len(s)
  OBVIOUS
<1>2. IsFiniteSet(1..Len(s)) /\ Cardinality(1..Len(s)) = Len(s)
  BY <1>1, FS_Interval
<1>3. [i \in 1..Len(s) |-> s[i]] \in Surjection(1..Len(s), ToSet(s))
  BY <1>1 DEF Surjection, ToSet
<1> QED
  BY <1>2, <1>3, FS_Surjection

(* What well compiled says of the sources of a core and of its command.    *)
LEMMA WellCompiledFacts ==
  ASSUME ControlOK, Running, WellCompiled(call), NEW n \in Taking
  PROVE  /\ Taking = call.members /\ n \in Nodes
         /\ Senders(call, n) \subseteq Taking
         /\ \A d \in ToSet(call.lands[n]) : d \in Taking /\ d # n /\ n \in Senders(call, d)
         /\ Len(call.groups[n]) \in Nat /\ RowBytes * Len(call.groups[n]) <= call.stride
         /\ n \in ToSet(call.groups[n])
         /\ call.expected[n] = ExpVal(call, n) /\ ~call.selfDelivery /\ call.cyclic = {}
         /\ ExpVal(call, n) <= Rows * call.stride
<1>1. /\ Taking = call.members /\ Taking \subseteq Nodes /\ call.stride \in Nat
      /\ call.lands \in [Nodes -> Seq(Nodes)] /\ call.groups \in [Taking -> Seq(Nodes)]
  BY CallFacts DEF WellCompiled, Taking
<1>2. /\ \A m \in Taking : /\ m \in ToSet(call.groups[m])
                           /\ \A l \in ToSet(call.groups[m]) :
                                l \in Taking /\ call.groups[l] = call.groups[m]
                           /\ ToSet(call.lands[m]) = ToSet(call.groups[m]) \ {m}
                           /\ call.expected[m] = ExpVal(call, m)
                           /\ call.stride >= RowBytes * Len(call.groups[m])
      /\ \A m \in Nodes \ Taking : call.lands[m] = <<>>
      /\ ~call.selfDelivery /\ call.cyclic = {}
  BY <1>1 DEF WellCompiled
<1>3. \A m \in Senders(call, n) : m \in Taking /\ m \in ToSet(call.groups[n])
  <2> SUFFICES ASSUME NEW m \in Nodes, n \in ToSet(call.lands[m])
               PROVE  m \in Taking /\ m \in ToSet(call.groups[n])
    BY DEF Senders
  <2>1. m \in Taking
    BY <1>2 DEF ToSet
  <2> QED
    BY <1>2, <2>1
<1>4. \A d \in ToSet(call.lands[n]) : d \in Taking /\ d # n /\ n \in Senders(call, d)
  BY <1>1, <1>2 DEF Senders
<1>5. LandCount(call, n) <= Len(call.groups[n])
  <2>1. call.groups[n] \in Seq(Nodes)
    BY <1>1
  <2>2. /\ IsFiniteSet(ToSet(call.groups[n])) /\ Senders(call, n) \in SUBSET ToSet(call.groups[n])
        /\ Cardinality(ToSet(call.groups[n])) <= Len(call.groups[n])
    BY <1>3, <2>1, ListSize
  <2>3. LandCount(call, n) = Cardinality(Senders(call, n))
    BY DEF LandCount, Senders
  <2>4. IsFiniteSet(Senders(call, n))
        /\ Cardinality(Senders(call, n)) <= Cardinality(ToSet(call.groups[n]))
    BY <2>2, FS_Subset
  <2>5. Cardinality(Senders(call, n)) \in Nat /\ Cardinality(ToSet(call.groups[n])) \in Nat
    BY <2>2, <2>4, FS_CardinalityType
  <2> QED
    BY <2>1, <2>2, <2>3, <2>4, <2>5
<1>6. Len(call.groups[n]) \in Nat /\ RowBytes * Len(call.groups[n]) <= call.stride
  BY <1>1, <1>2, RowBytesAssumption
<1>7. ExpVal(call, n) <= Rows * call.stride
  <2>1. ASSUME NEW l \in Nat, NEW g \in Nat, NEW b \in Nat, NEW r \in Nat, NEW t \in Nat,
               l <= g, b * g <= t
        PROVE  r * b * l <= r * t
    <3>1. b * l <= b * g
      <4>1. g - l \in Nat /\ g = l + (g - l)
        BY <2>1
      <4>2. \A d \in Nat : b * (l + d) = b * l + b * d /\ b * d >= 0
        OBVIOUS
      <4> QED
        BY <4>1, <4>2
    <3>2. \A x, y \in Nat : x <= y => r * x <= r * y
      <4> SUFFICES ASSUME NEW x \in Nat, NEW y \in Nat, x <= y PROVE r * x <= r * y
        OBVIOUS
      <4>1. y - x \in Nat /\ y = x + (y - x)
        OBVIOUS
      <4>2. \A d \in Nat : r * (x + d) = r * x + r * d /\ r * d >= 0
        OBVIOUS
      <4> QED
        BY <4>1, <4>2
    <3>3. b * l \in Nat /\ r * b * l = r * (b * l)
      OBVIOUS
    <3>4. b * l <= t
      BY <2>1, <3>1
    <3> QED
      BY <3>2, <3>3, <3>4
  <2> QED
    BY <1>1, <1>5, <1>6, <2>1, LandCountFacts, DieAssumption, RowBytesAssumption DEF ExpVal
<1> QED
  BY <1>1, <1>2, <1>3, <1>4, <1>6, <1>7

(* The bytes of the rows due to a core are its expVal.                     *)
LEMMA DueFacts ==
  ASSUME LedgersOK, NEW n
  PROVE  /\ IsFiniteSet(Due(n)) /\ Cardinality(Due(n)) = Rows * LandCount(call, n)
         /\ RowBytes * Cardinality(Due(n)) = ExpVal(call, n)
<1> DEFINE S == Senders(call, n)
           P == S \X (0..(Rows - 1))
           f == [p \in P |-> <<p[1], Base(p[1]) + p[2]>>]
<1>1. /\ IsFiniteSet(S) /\ Cardinality(S) = LandCount(call, n) /\ LandCount(call, n) \in Nat
      /\ S \subseteq Nodes
  <2>1. S \in SUBSET Nodes /\ Cardinality(S) = LandCount(call, n)
    BY DEF Senders, LandCount
  <2> HIDE DEF S
  <2> QED
    BY <2>1, DieAssumption, FS_Subset, FS_CardinalityType
<1>2. IsFiniteSet(0..(Rows - 1)) /\ Cardinality(0..(Rows - 1)) = Rows
  <2>1. 0 \in Int /\ Rows - 1 \in Int /\ (0 > Rows - 1 => Rows = 0) /\ Rows - 1 - 0 + 1 = Rows
    BY DieAssumption
  <2> QED
    BY <2>1, FS_Interval
<1>3. IsFiniteSet(P) /\ Cardinality(P) = LandCount(call, n) * Rows
  BY <1>1, <1>2, FS_Product
<1>4. f \in Surjection(P, Due(n))
  BY DEF Surjection, Due
<1>5. \A m \in S : Base(m) \in Int
  BY <1>1, MaxFacts DEF Base, LedgersOK
<1>6. f \in Injection(P, Due(n))
  <2>1. ASSUME NEW p \in P, NEW q \in P, f[p] = f[q] PROVE p = q
    <3>1. /\ p = <<p[1], p[2]>> /\ q = <<q[1], q[2]>> /\ p[1] \in S
          /\ p[2] \in 0..(Rows - 1) /\ q[2] \in 0..(Rows - 1)
      OBVIOUS
    <3>2. p[1] = q[1] /\ Base(p[1]) + p[2] = Base(q[1]) + q[2]
      BY <2>1
    <3>3. p[2] = q[2]
      BY <1>5, <3>1, <3>2, DieAssumption
    <3> QED
      BY <3>1, <3>2, <3>3
  <2> QED
    BY <1>4, <2>1 DEF Injection, IsInjective, Surjection
<1> HIDE DEF S, P, f
<1>7. IsFiniteSet(Due(n)) /\ Cardinality(Due(n)) = Cardinality(P)
  BY <1>3, <1>4, <1>6, FS_Surjection
<1>8. Rows * LandCount(call, n) = LandCount(call, n) * Rows
      /\ RowBytes * (Rows * LandCount(call, n)) = Rows * RowBytes * LandCount(call, n)
  BY <1>1, DieAssumption, RowBytesAssumption
<1> QED
  BY <1>3, <1>7, <1>8 DEF ExpVal

(* Counting no more than what is due stays within the capacity, and all    *)
(* that is due completes the account.                                      *)
LEMMA CountedIsDue ==
  ASSUME LedgersOK, NEW n, NEW seen \in SUBSET Due(n)
  PROVE  /\ RowBytes * Cardinality(seen) \in Nat
         /\ RowBytes * Cardinality(seen) <= ExpVal(call, n)
         /\ seen = Due(n) => RowBytes * Cardinality(seen) = ExpVal(call, n)
<1>1. IsFiniteSet(Due(n)) /\ RowBytes * Cardinality(Due(n)) = ExpVal(call, n)
  BY DueFacts
<1>2. IsFiniteSet(seen) /\ Cardinality(seen) <= Cardinality(Due(n))
  BY <1>1, FS_Subset
<1>3. Cardinality(seen) \in Nat /\ Cardinality(Due(n)) \in Nat
  BY <1>1, <1>2, FS_CardinalityType
<1>4. ASSUME NEW x \in Nat, NEW y \in Nat, x <= y
      PROVE  RowBytes * x <= RowBytes * y /\ RowBytes * x \in Nat
  <2>1. PICK d \in Nat : y = x + d
    <3>1. y - x \in Nat /\ y = x + (y - x)
      BY <1>4
    <3> QED
      BY <3>1
  <2>2. /\ RowBytes * (x + d) = RowBytes * x + RowBytes * d
        /\ RowBytes * d \in Nat /\ RowBytes * x \in Nat
    BY RowBytesAssumption
  <2>3. RowBytes * y = RowBytes * x + RowBytes * d
    BY <2>1, <2>2
  <2> QED
    BY <2>2, <2>3
<1> QED
  BY <1>1, <1>2, <1>3, <1>4

(* The receives of the members hardly change while the counters do.        *)
LEMMA SoundCall == ASSUME TypeInv, NEW c \in Calls, Call(c) PROVE SoundRun'
<1> SUFFICES ASSUME sound'
             PROVE  /\ WellCompiled(call') /\ call'.request = NoRequest /\ call'.opcode \in image'
                    /\ MembersInStep'
                    /\ \A n \in Taking' : ReceiveOK(n)'
  BY DEF SoundRun
<1>1. /\ pc' = "epoch" /\ call' = c /\ turn' = 1 /\ WellCompiled(c) /\ ReadyFor(c)
      /\ UNCHANGED die
  BY DEF Call
<1>2. Earlier' = {} /\ Taking' = c.members
  BY <1>1 DEF Earlier, Taking, WellCompiled
<1>3. MembersInStep'
  BY <1>1, <1>2 DEF MembersInStep, ReadyFor, die, Refused, Drained
<1>4. ASSUME NEW n \in Taking' PROVE ReceiveOK(n)'
  BY <1>1, <1>2 DEF ReceiveOK, Posted, ReadyFor, die, Outstanding
<1> QED
  BY <1>1, <1>3, <1>4 DEF ReadyFor, die

LEMMA SoundEpoch ==
  ASSUME TypeInv, SoundRun, sound, NextEpoch
  PROVE  SoundRun' /\ pc' # "idle"
<1> DEFINE v == epoch[Node][call.opcode]
<1>1. /\ pc = "epoch" /\ Running /\ call' = call /\ Taking' = Taking
      /\ Node \in Taking /\ Node \notin Earlier /\ Taking \subseteq Nodes /\ call.opcode \in Opcodes
      /\ UNCHANGED <<accounts, pending, inFlight, image>> /\ \A n \in Nodes : ~Posted(n)'
  BY EpochEffect, CallFacts DEF Running, TypeInv
<1>2. /\ WellCompiled(call) /\ call.request = NoRequest /\ call.opcode \in image
      /\ MembersInStep /\ \A n \in Taking : ReceiveOK(n)
  BY <1>1 DEF SoundRun
<1>3. ~Refused(v)
  BY <1>1, <1>2 DEF MembersInStep
<1>4. /\ epoch'[Node][call.opcode] = NextValue(v)
      /\ \A n \in Nodes \ {Node} : epoch'[n][call.opcode] = epoch[n][call.opcode]
      /\ \/ pc' = "epoch" /\ Earlier' = Earlier \cup {Node}
         \/ pc' = "agree" /\ Taking = Earlier \cup {Node}
  BY <1>1, <1>3, EpochEffect
<1>5. \A n \in Taking : /\ n \in Earlier => epoch[n][call.opcode] = NextValue(v)
                        /\ n \notin Earlier => epoch[n][call.opcode] = v
  BY <1>1, <1>2 DEF MembersInStep
<1>6. \A n \in Taking : /\ n \in Earlier \cup {Node} => epoch'[n][call.opcode] = NextValue(v)
                        /\ n \notin Earlier \cup {Node} => epoch'[n][call.opcode] = v
  BY <1>1, <1>4, <1>5
<1>7. MembersInStep'
  BY <1>1, <1>3, <1>4, <1>6 DEF MembersInStep, Refused, Drained
<1>8. ASSUME NEW n \in Taking PROVE ReceiveOK(n)'
  <2>1. ~Posted(n) /\ ~Posted(n)'
    BY <1>1 DEF Posted
  <2> QED
    BY <1>1, <1>2, <2>1 DEF ReceiveOK, Outstanding
<1> QED
  BY <1>1, <1>2, <1>4, <1>7, <1>8 DEF SoundRun

LEMMA SoundAgree ==
  ASSUME TypeInv, SoundRun, sound, Agree
  PROVE  SoundRun' /\ pc' # "idle"
<1>1. /\ pc = "agree" /\ Running /\ ToSet(Members) = Taking /\ Taking \subseteq Nodes
      /\ Members[1] \in Taking
  BY CallFacts DEF Running, TypeInv, Agree
<1>2. /\ WellCompiled(call) /\ call.request = NoRequest /\ call.opcode \in image
      /\ MembersInStep /\ \A n \in Taking : ReceiveOK(n)
  BY <1>1 DEF SoundRun
<1>3. SpmdConsistent(call.opcode)
  BY <1>1, <1>2 DEF SpmdConsistent, MembersInStep
<1>4. GoTo("post", 1, 0) /\ UNCHANGED <<die, round>>
  BY <1>2, <1>3 DEF Agree
<1>5. call' = call /\ pc' = "post" /\ Earlier' = {} /\ Taking' = Taking
  BY <1>4 DEF GoTo, Earlier, Taking
<1>6. ASSUME NEW n \in Taking PROVE ReceiveOK(n)'
  <2>1. ~Posted(n) /\ ~Posted(n)'
    BY <1>1, <1>5 DEF Posted
  <2> QED
    BY <1>2, <1>4, <2>1 DEF ReceiveOK, Outstanding, die
<1> QED
  BY <1>2, <1>4, <1>5, <1>6 DEF SoundRun, MembersInStep, die

(* What a core is due stays the same while no send ends.                   *)
LEMMA DueStays ==
  ASSUME UNCHANGED <<sequence, call>>, \A m \in Nodes : Sent(m)' <=> Sent(m)
  PROVE  /\ \A m \in Nodes : Base(m)' = Base(m)
         /\ \A n : Due(n)' = Due(n)
<1>1. \A m \in Nodes : Base(m)' = Base(m)
  BY DEF Base
<1>2. ASSUME NEW n PROVE Due(n)' = Due(n)
  <2>1. Senders(call', n) = Senders(call, n) /\ Senders(call, n) \subseteq Nodes
    BY DEF Senders
  <2>2. \A p \in Senders(call, n) \X (0..(Rows - 1)) : Base(p[1])' = Base(p[1])
    BY <1>1, <2>1
  <2> QED
    BY <2>1, <2>2 DEF Due
<1> QED
  BY <1>1, <1>2

LEMMA SoundPost ==
  ASSUME TypeInv, SoundRun, sound, Post
  PROVE  SoundRun' /\ pc' # "idle"
<1>1. /\ pc = "post" /\ Running /\ ControlOK /\ LedgersOK /\ Key \in Keys
      /\ Key' = Key /\ call' = call /\ Taking' = Taking /\ Members' = Members
      /\ UNCHANGED <<epoch, sequence, inFlight, image>>
      /\ Node \in Taking /\ Node \notin Earlier /\ Taking \subseteq Nodes
  BY PostEffect, PostMoves, CallFacts DEF Running, TypeInv
<1>2. /\ WellCompiled(call) /\ call.request = NoRequest /\ call.opcode \in image
      /\ \A n \in Taking : ReceiveOK(n)
  BY <1>1 DEF SoundRun
<1>3. Outstanding(Node) = {} /\ pending[Node][Key] = <<>>
  BY <1>1, <1>2 DEF ReceiveOK, Posted
<1>4. WellFormed(Command(Node))
  <2>1. call.expected[Node] = ExpVal(call, Node) /\ ExpVal(call, Node) <= Rows * call.stride
    BY <1>1, <1>2, WellCompiledFacts
  <2> QED
    BY <2>1 DEF WellFormed, Command
<1>5. FaultPoints(Command(Node), pending[Node][Key]) = {}
  BY <1>3 DEF FaultPoints
<1>6. /\ accounts' = [accounts EXCEPT ![Node] = Installed(Node, FreshAccount(Node))]
      /\ pending' = [pending EXCEPT ![Node][Key] = <<>>]
      /\ NextMember("post", "release")
  BY <1>3, <1>4, <1>5 DEF Post
<1>7. /\ \/ pc' = "post" /\ Earlier' = Earlier \cup {Node}
         \/ pc' = "release" /\ Taking = Earlier \cup {Node} /\ Earlier' = {}
  BY <1>6, PostMoves
<1>8. /\ DOMAIN accounts'[Node] = {Key} /\ accounts'[Node][Key] = FreshAccount(Node)
      /\ \A n \in Nodes \ {Node} : accounts'[n] = accounts[n]
  <2>1. /\ accounts'[Node] = Installed(Node, FreshAccount(Node))
        /\ \A n \in Nodes \ {Node} : accounts'[n] = accounts[n]
    BY <1>1, <1>6 DEF LedgersOK
  <2> QED
    BY <1>3, <2>1 DEF Installed
<1>9. /\ \A m \in Nodes : ~Sent(m) /\ ~Sent(m)'
      /\ \A n \in Taking : Posted(n)' <=> Posted(n) \/ n = Node
  <2>1. \A m \in Nodes : ~Sent(m) /\ ~Sent(m)'
    BY <1>1, <1>7 DEF Sent
  <2>2. \A n \in Taking : Posted(n)' <=> Posted(n) \/ n = Node
    BY <1>1, <1>7 DEF Posted
  <2> QED
    BY <2>1, <2>2
<1>10. \A n : Due(n)' = Due(n)
  BY <1>1, <1>9, DueStays
<1>11. ASSUME NEW n \in Taking PROVE ReceiveOK(n)'
  <2>1. \A k \in Keys : pending'[n][k] = <<>>
    BY <1>1, <1>2, <1>6 DEF ReceiveOK, LedgersOK
  <2>2. CASE n = Node
    <3>1. /\ FreshAccount(Node).capacity = Rows * call.stride
          /\ FreshAccount(Node).expVal = ExpVal(call, Node)
          /\ FreshAccount(Node).seen = {}
      BY <1>1, <1>3, FreshFacts
    <3>2. RowsCounted(n)'
      <4>1. accounts'[n][Key'].seen = {}
        BY <1>1, <1>8, <2>2, <3>1
      <4>2. \A m \in Senders(call', n) : ~Sent(m)'
        BY <1>9 DEF Senders
      <4> QED
        BY <1>7, <4>1, <4>2 DEF RowsCounted
    <3> QED
      BY <1>1, <1>8, <1>9, <2>1, <2>2, <3>1, <3>2 DEF ReceiveOK, Outstanding
  <2>3. CASE n # Node /\ Posted(n)
    <3>1. accounts'[n] = accounts[n] /\ ReceiveOK(n) /\ RowsCounted(n)
      BY <1>1, <1>2, <1>8, <2>3 DEF ReceiveOK
    <3>2. RowsCounted(n)'
      <4>1. accounts[n][Key].seen \subseteq Due(n)'
        BY <1>10, <3>1 DEF RowsCounted
      <4> QED
        BY <1>1, <1>7, <1>9, <3>1, <4>1 DEF RowsCounted, Senders
    <3> QED
      BY <1>1, <1>9, <2>1, <2>3, <3>1, <3>2 DEF ReceiveOK, Outstanding
  <2>4. CASE n # Node /\ ~Posted(n)
    <3>1. accounts'[n] = accounts[n] /\ ReceiveOK(n)
      BY <1>1, <1>2, <1>8, <2>4
    <3> QED
      BY <1>9, <2>1, <2>4, <3>1 DEF ReceiveOK, Outstanding
  <2> QED
    BY <2>2, <2>3, <2>4
<1> QED
  BY <1>1, <1>2, <1>7, <1>11 DEF SoundRun, MembersInStep

LEMMA SoundRelease ==
  ASSUME TypeInv, SoundRun, sound, Release
  PROVE  SoundRun' /\ pc' # "idle"
<1>1. /\ pc = "release" /\ Running /\ ControlOK /\ UNCHANGED die
      /\ Node \in Taking /\ Taking \subseteq Nodes
  BY CallFacts DEF Release, Running, TypeInv
<1>2. /\ WellCompiled(call) /\ call.request = NoRequest /\ call.opcode \in image
      /\ \A n \in Taking : ReceiveOK(n)
  BY <1>1 DEF SoundRun
<1>3. Node \notin call.cyclic
  BY <1>1, <1>2, WellCompiledFacts
<1>4. GoTo("land", turn, 0)
  BY <1>2, <1>3 DEF Release
<1>5. /\ call' = call /\ pc' = "land" /\ turn' = turn /\ at' = 0
      /\ Taking' = Taking /\ Members' = Members /\ Earlier' = Earlier /\ Key' = Key
  BY <1>1, <1>4 DEF GoTo, Taking, Members, Earlier, Key, die
<1>6. /\ \A m \in Nodes : (Sent(m)' <=> Sent(m)) /\ (Posted(m)' <=> Posted(m))
  BY <1>1, <1>5 DEF Sent, Posted
<1>7. /\ \A n : Due(n)' = Due(n) /\ \A m \in Nodes : Base(m)' = Base(m)
  BY <1>1, <1>5, <1>6, DueStays DEF die
<1>8. ASSUME NEW n \in Taking PROVE ReceiveOK(n)'
  <2>1. Posted(n) /\ ReceiveOK(n) /\ RowsCounted(n)
    BY <1>1, <1>2 DEF Posted, ReceiveOK
  <2>2. RowsCounted(n)'
    <3> DEFINE seen == accounts[n][Key].seen
    <3>1. /\ accounts'[n][Key'].seen = seen
          /\ seen \subseteq Due(n)'
          /\ \A m \in Senders(call, n), r \in 0..(Rows - 1) : Sent(m)' => <<m, Base(m)' + r>> \in seen
      BY <1>1, <1>5, <1>6, <1>7, <2>1 DEF RowsCounted, Senders, die
    <3>2. 0..(at' - 1) = {}
      BY <1>5
    <3> QED
      BY <1>5, <3>1, <3>2 DEF RowsCounted
  <2> QED
    BY <1>1, <1>5, <1>6, <2>1, <2>2 DEF ReceiveOK, Outstanding, die
<1> QED
  BY <1>1, <1>2, <1>5, <1>8 DEF SoundRun, MembersInStep, die

(* The rows of the groups fit the stride: no row of a sound call lands     *)
(* outside the range of its receive.                                       *)
LEMMA InTheRange ==
  ASSUME TypeInv, pc = "land", at < Rows * Len(Walk), WellCompiled(call),
         NEW a, a.dst = 0, a.capacity = Rows * call.stride
  PROVE  InRange(a, Segment)
<1> DEFINE g == call.groups[Node]
           first == SelectInSeq(g, LAMBDA m : m = Node)
<1>1. /\ Node \in Taking /\ call.groups \in [Taking -> Seq(Nodes)] /\ call.stride \in Nat
      /\ ControlOK /\ Running
  BY CallFacts DEF TypeInv, Running
<1>2. /\ RowBytes * Len(g) <= call.stride /\ Node \in ToSet(g) /\ Len(g) \in Nat
  BY <1>1, WellCompiledFacts
<1>3. first \in 1..Len(g)
  <2> DEFINE I == {i \in 1..Len(g) : g[i] = Node}
  <2>1. I # {} /\ I \subseteq Nat /\ I \subseteq 1..Len(g)
    BY <1>1, <1>2 DEF ToSet
  <2>2. first = Min(I)
    BY <2>1 DEF SelectInSeq
  <2>3. \E x \in I : \A y \in I : x <= y
    <3> HIDE DEF I
    <3> QED
      BY <2>1, LeastElement
  <2>4. Min(I) \in I
    <3> HIDE DEF I
    <3> QED
      BY <2>3 DEF Min
  <2> QED
    BY <2>1, <2>2, <2>4
<1>4. Segment.addr = Row * call.stride + (first - 1) * RowBytes
  BY DEF Segment, SelfOff
<1>5. Row \in 0..(Rows - 1)
  BY LandingFacts
<1>6. ASSUME NEW i \in Nat, NEW l \in Nat, NEW b \in Nat, NEW t \in Nat, NEW r \in Nat, NEW R \in Nat,
             1 <= i, i <= l, b * l <= t, r <= R - 1
      PROVE  /\ 0 <= r * t + (i - 1) * b
             /\ r * t + (i - 1) * b + b <= 0 + R * t
  <2>1. PICK j \in Nat : i = j + 1
    <3>1. i - 1 \in Nat /\ i = (i - 1) + 1
      BY <1>6
    <3> QED
      BY <3>1
  <2>2. PICK d \in Nat : l = j + 1 + d
    <3>1. l - i \in Nat /\ l = i + (l - i)
      BY <1>6
    <3> QED
      BY <2>1, <3>1
  <2>3. PICK e \in Nat : R = r + 1 + e
    <3>1. R - 1 - r \in Nat /\ R = r + 1 + (R - 1 - r)
      BY <1>6
    <3> QED
      BY <3>1
  <2>4. b * l = b * j + b + b * d /\ b * d >= 0 /\ b * j >= 0 /\ b * d \in Nat /\ b * j \in Nat
    BY <2>2
  <2>5. R * t = r * t + t + e * t /\ e * t >= 0 /\ r * t >= 0 /\ e * t \in Nat /\ r * t \in Nat
    BY <2>3
  <2>6. (i - 1) * b = b * j
    BY <2>1
  <2> QED
    BY <1>6, <2>4, <2>5, <2>6
<1> HIDE DEF first, g
<1>7. /\ 0 <= Row * call.stride + (first - 1) * RowBytes
      /\ Row * call.stride + (first - 1) * RowBytes + RowBytes <= 0 + Rows * call.stride
  <2>1. /\ first \in Nat /\ 1 <= first /\ first <= Len(g) /\ Row \in Nat /\ Row <= Rows - 1
    BY <1>2, <1>3, <1>5, DieAssumption
  <2> QED
    BY <1>1, <1>2, <1>6, <2>1, DieAssumption, RowBytesAssumption
<1> QED
  BY <1>4, <1>7 DEF InRange

LEMMA SoundLand ==
  ASSUME TypeInv, SoundRun, sound, Land
  PROVE  SoundRun' /\ pc' # "idle"
<1>1. /\ pc = "land" /\ at < Rows * Len(Walk) /\ at \in Nat
      /\ Running /\ ControlOK /\ LedgersOK /\ Key \in Keys
      /\ UNCHANGED <<epoch, sequence, inFlight, image>>
      /\ Node \in Taking /\ Node \notin Earlier /\ Taking \subseteq Nodes
      /\ Segment \in Segments /\ Landing \in ToSet(Walk) /\ Row \in 0..(Rows - 1)
  BY LandEffect, LandingFacts, CallFacts, EarlierFacts DEF Running, TypeInv, ControlOK
<1>2. /\ WellCompiled(call) /\ call.request = NoRequest /\ call.opcode \in image
      /\ \A n \in Taking : ReceiveOK(n)
  BY <1>1 DEF SoundRun
<1>3. Landing \in Taking /\ Landing # Node /\ Node \in Senders(call, Landing)
  BY <1>1, <1>2, WellCompiledFacts DEF Walk
<1>4. \A n \in Taking : Posted(n) /\ ReceiveOK(n) /\ Outstanding(n) = {Key}
  BY <1>1, <1>2 DEF Posted, ReceiveOK
<1>5. /\ Waiting /\ ~OwnCopy /\ Account = accounts[Landing][Key]
      /\ Account \in Accounts /\ Kept(Account)
      /\ Account.dst = 0 /\ Account.capacity = Rows * call.stride
      /\ Account.seen \subseteq Due(Landing)
  <2>1. Waiting /\ ~OwnCopy
    BY <1>3, <1>4 DEF Waiting, OwnCopy
  <2>2. Account \in Accounts /\ Kept(Account)
    BY <1>1, <1>3, <1>4 DEF Account, LedgersOK
  <2>3. Account.capacity = Rows * call.stride /\ Account.seen \subseteq Due(Landing)
    BY <1>3, <1>4 DEF ReceiveOK, RowsCounted, Account
  <2>4. Account.dst = 0
    BY <2>2 DEF Accounts
  <2> QED
    BY <2>1, <2>2, <2>3, <2>4 DEF Account
<1>6. InRange(Account, Segment)
  BY <1>1, <1>2, <1>5, InTheRange
<1>7. Countable(Segment) /\ Segment.id = <<Node, sequence[Node] + Row>>
  BY <1>3 DEF Countable, Segment
<1>8. ~Sent(Node) /\ Base(Node) = sequence[Node]
  BY <1>1 DEF Sent, Base
<1>9. Segment.id \in Due(Landing)
  <2> DEFINE p == <<Node, Row>>
  <2>1. p \in Senders(call, Landing) \X (0..(Rows - 1))
    BY <1>1, <1>3
  <2>2. Segment.id = <<p[1], Base(p[1]) + p[2]>>
    BY <1>7, <1>8
  <2> QED
    BY <2>1, <2>2 DEF Due
<1> DEFINE seen(n) == accounts'[n][Key].seen
<1>10. /\ GoTo("land", turn, at + 1) /\ pending' = pending
       /\ \A n \in Taking : /\ DOMAIN accounts'[n] = {Key}
                            /\ accounts'[n][Key].capacity = accounts[n][Key].capacity
                            /\ accounts'[n][Key].expVal = accounts[n][Key].expVal
       /\ seen(Landing) = Account.seen \cup {Segment.id}
       /\ \A n \in Taking \ {Landing} : seen(n) = accounts[n][Key].seen
  <2>1. CASE Counts
    <3>1. Segment.id \notin Account.seen
      BY <2>1 DEF Counts
    <3>2. /\ Counted.seen = Account.seen \cup {Segment.id}
          /\ Counted.counted = RowBytes * Cardinality(Counted.seen)
          /\ Counted.capacity = Account.capacity /\ Counted.expVal = Account.expVal
      <4>1. Kept(Counted)
        BY <1>1, <1>5, <3>1, CountedFacts DEF Counted
      <4> QED
        BY <1>5, <4>1 DEF Counted, Accounts, Kept
    <3>3. Counted.counted <= Counted.capacity /\ Counted.counted \in Nat
      <4>1. Counted.seen \in SUBSET Due(Landing)
        BY <1>5, <1>9, <3>2
      <4>2. /\ Counted.counted <= ExpVal(call, Landing) /\ Counted.counted \in Nat
        BY <1>1, <3>2, <4>1, CountedIsDue
      <4>3. ExpVal(call, Landing) <= Rows * call.stride
        BY <1>1, <1>2, <1>3, WellCompiledFacts
      <4>4. ExpVal(call, Landing) \in Nat /\ Rows * call.stride \in Nat
        BY <1>1, CallFacts, LandCountFacts, DieAssumption
      <4> QED
        BY <1>5, <3>2, <4>2, <4>3, <4>4
    <3>4. /\ accounts' = [accounts EXCEPT ![Landing][Key] = Counted]
          /\ GoTo("land", turn, at + 1) /\ pending' = pending
      <4>1. ~(Counted.counted > Counted.capacity)
        <5>1. Counted.capacity \in Nat
          BY <1>5, <3>2 DEF Accounts
        <5> QED
          BY <3>3, <5>1
      <4> QED
        BY <1>5, <1>6, <2>1, <4>1 DEF Land, Defer, Discard, Count, Pass
    <3>5. /\ accounts'[Landing] = [accounts[Landing] EXCEPT ![Key] = Counted]
          /\ \A n \in Taking \ {Landing} : accounts'[n] = accounts[n]
      BY <1>1, <1>3, <3>4 DEF LedgersOK
    <3>6. DOMAIN accounts'[Landing] = {Key} /\ accounts'[Landing][Key] = Counted
      BY <1>3, <1>4, <3>5 DEF Outstanding
    <3> QED
      BY <1>4, <1>5, <3>2, <3>4, <3>5, <3>6 DEF Outstanding
  <2>2. CASE ~Counts
    <3>1. GoTo("land", turn, at + 1) /\ UNCHANGED <<accounts, pending>>
      BY <1>5, <1>6, <2>2 DEF Land, Defer, Discard, Count, Pass
    <3>2. Segment.id \in Account.seen
      BY <1>7, <2>2 DEF Counts
    <3>3. Account.seen \cup {Segment.id} = Account.seen
      BY <3>2
    <3> QED
      BY <1>3, <1>4, <1>5, <3>1, <3>3 DEF Outstanding
  <2> QED
    BY <2>1, <2>2
<1>11. /\ call' = call /\ pc' = "land" /\ turn' = turn /\ at' = at + 1
       /\ Members' = Members /\ Taking' = Taking /\ Earlier' = Earlier /\ Key' = Key
       /\ Node' = Node /\ Walk' = Walk
  BY <1>1, <1>10 DEF GoTo, Members, Taking, Earlier, Key, Node, Walk
<1>12. \A m \in Nodes : (Sent(m)' <=> Sent(m)) /\ (Posted(m)' <=> Posted(m))
  BY <1>1, <1>11 DEF Sent, Posted
<1>13. /\ \A n : Due(n)' = Due(n) /\ \A m \in Nodes : Base(m)' = Base(m)
  BY <1>1, <1>11, <1>12, DueStays
<1>14. ASSUME NEW n \in Taking PROVE ReceiveOK(n)'
  <2>1. accounts[n][Key].seen \subseteq seen(n) /\ seen(n) \subseteq Due(n)
    BY <1>4, <1>5, <1>9, <1>10 DEF ReceiveOK, RowsCounted, Account
  <2>2. RowsCounted(n)
    BY <1>4 DEF ReceiveOK
  <2>3. \A m \in Senders(call, n), r \in 0..(Rows - 1) : Sent(m)' => <<m, Base(m)' + r>> \in seen(n)
    <3>1. Senders(call, n) \subseteq Nodes
      BY DEF Senders
    <3> QED
      BY <1>12, <1>13, <2>1, <2>2, <3>1 DEF RowsCounted
  <2>4. ASSUME NEW x \in 0..at, Walk[(x % Len(Walk)) + 1] = n
        PROVE  <<Node, Base(Node) + (x \div Len(Walk))>> \in seen(n)
    <3>1. CASE x = at
      <4>1. n = Landing /\ Row = x \div Len(Walk)
        BY <2>4, <3>1 DEF Landing, Row
      <4> QED
        BY <1>7, <1>8, <1>10, <4>1
    <3>2. CASE x # at
      <4>1. x \in 0..(at - 1)
        BY <1>1, <3>2
      <4> QED
        BY <1>1, <2>1, <2>2, <2>4, <4>1 DEF RowsCounted
    <3> QED
      BY <3>1, <3>2
  <2>5. RowsCounted(n)'
    <3>1. at' - 1 = at /\ Base(Node)' = Base(Node)
      BY <1>1, <1>11, <1>13
    <3>2. seen(n) \subseteq Due(n)'
      BY <1>13, <2>1
    <3>3. \A x \in 0..(at' - 1) :
            Walk'[(x % Len(Walk')) + 1] = n =>
              <<Node', Base(Node') + (x \div Len(Walk'))>> \in seen(n)
      BY <1>11, <2>4, <3>1
    <3> QED
      BY <1>11, <1>13, <2>3, <3>1, <3>2, <2>4 DEF RowsCounted
  <2> QED
    BY <1>1, <1>4, <1>10, <1>11, <1>12, <2>5 DEF ReceiveOK, Outstanding
<1> QED
  BY <1>1, <1>2, <1>11, <1>14 DEF SoundRun, MembersInStep

(* A send that has gone through all landings has landed every row          *)
(* everywhere, and the numbers of its rows are those below the new count.  *)
LEMMA SoundFinish ==
  ASSUME TypeInv, SoundRun, sound, FinishSend
  PROVE  SoundRun' /\ pc' # "idle"
<1>1. /\ pc = "land" /\ at = Rows * Len(Walk) /\ call' = call /\ sound' = sound
      /\ Running /\ ControlOK /\ LedgersOK
      /\ sequence' = [sequence EXCEPT ![Node] = @ + Max({1, Rows})]
      /\ UNCHANGED <<epoch, accounts, pending, image>>
      /\ \/ turn = Len(Members) /\ pc' = "drain" /\ turn' = 1
         \/ turn # Len(Members) /\ pc' = "release" /\ turn' = turn + 1
  BY DEF FinishSend, TypeInv, Running, history
<1>2. /\ WellCompiled(call) /\ call.request = NoRequest /\ call.opcode \in image
      /\ \A n \in Taking : ReceiveOK(n)
  BY <1>1 DEF SoundRun
<1>3. /\ Node \in Taking /\ Node \notin Earlier /\ Taking \subseteq Nodes /\ Earlier \subseteq Taking
      /\ Walk \in Seq(Nodes) /\ Len(Walk) \in Nat
      /\ Members' = Members /\ Taking' = Taking /\ Key' = Key
  <2>1. /\ Node \in Taking /\ Taking \subseteq Nodes /\ call.lands \in [Nodes -> Seq(Nodes)]
    BY <1>1, CallFacts
  <2>2. Node \notin Earlier /\ Earlier \subseteq Taking
    BY <1>1, EarlierFacts
  <2>3. Walk \in Seq(Nodes) /\ Len(Walk) \in Nat
    BY <2>1 DEF Walk
  <2>4. Members' = Members /\ Taking' = Taking /\ Key' = Key
    BY <1>1 DEF Members, Taking, Key
  <2> QED
    BY <2>1, <2>2, <2>3, <2>4
<1>4. /\ \/ pc' = "drain" /\ Earlier \cup {Node} = Taking
         \/ pc' = "release" /\ Earlier' = Earlier \cup {Node}
  BY <1>1, EarlierFacts
<1>5. \A m \in Taking : /\ Posted(m) /\ Posted(m)'
                        /\ Sent(m)' <=> Sent(m) \/ m = Node
                        /\ Sent(m) <=> m \in Earlier
  BY <1>1, <1>3, <1>4 DEF Posted, Sent
<1>6. \A m \in Taking : Base(m)' = Base(m)
  <2> SUFFICES ASSUME NEW m \in Taking PROVE Base(m)' = Base(m)
    OBVIOUS
  <2>1. sequence[m] \in Nat /\ Max({1, Rows}) \in Nat
    BY <1>1, <1>3, MaxFacts DEF LedgersOK
  <2>2. CASE m = Node
    <3>1. sequence'[m] = sequence[m] + Max({1, Rows}) /\ Sent(m)' /\ ~Sent(m)
      BY <1>1, <1>3, <1>5, <2>2 DEF LedgersOK
    <3> QED
      BY <2>1, <3>1 DEF Base
  <2>3. CASE m # Node
    <3>1. sequence'[m] = sequence[m] /\ (Sent(m)' <=> Sent(m))
      BY <1>1, <1>3, <1>5, <2>3 DEF LedgersOK
    <3> QED
      BY <3>1 DEF Base
  <2> QED
    BY <2>2, <2>3
<1>7. ASSUME NEW L \in Nat, NEW R \in Nat, NEW r \in 0..(R - 1), NEW i \in 0..(L - 1)
      PROVE  /\ r * L + i \in 0..(R * L - 1)
             /\ (r * L + i) % L = i /\ (r * L + i) \div L = r
  <2>1. PICK e \in Nat : R = r + 1 + e
    <3>1. R - 1 - r \in Nat /\ R = r + 1 + (R - 1 - r)
      OBVIOUS
    <3> QED
      BY <3>1
  <2>2. R * L = r * L + L + e * L /\ e * L \in Nat /\ r * L \in Nat
    BY <2>1
  <2>3. r * L + i \in 0..(R * L - 1) /\ L > 0
    BY <2>2
  <2>4. (r * L + i) % L = i /\ (r * L + i) \div L = r
    <3> DEFINE t == r * L + i
    <3>1. t \in Nat /\ t \div L \in Int /\ t % L \in 0..(L - 1) /\ t = L * (t \div L) + (t % L)
      BY <2>2, <2>3
    <3>2. t \div L = r
      <4>1. ASSUME NEW q \in Int, NEW s \in 0..(L - 1), t = L * q + s PROVE q = r
        <5>1. r * L + i = L * q + s
          BY <4>1
        <5>2. CASE q > r
          <6>1. PICK d \in Nat : q = r + 1 + d
            <7>1. q - r - 1 \in Nat /\ q = r + 1 + (q - r - 1)
              BY <5>2
            <7> QED
              BY <7>1
          <6>2. L * q = r * L + L + L * d /\ L * d \in Nat
            BY <6>1
          <6> QED
            BY <2>2, <5>1, <6>2
        <5>3. CASE q < r
          <6>1. PICK d \in Nat : r = q + 1 + d
            <7>1. r - q - 1 \in Nat /\ r = q + 1 + (r - q - 1)
              BY <5>3
            <7> QED
              BY <7>1
          <6>2. r * L = L * q + L + L * d /\ L * d \in Nat /\ L * q \in Int
            BY <6>1
          <6> QED
            BY <2>2, <5>1, <6>2
        <5> QED
          BY <5>2, <5>3
      <4> HIDE DEF t
      <4> QED
        BY <3>1, <4>1
    <3>3. t % L = i
      BY <2>2, <3>1, <3>2
    <3> QED
      BY <3>2, <3>3
  <2> QED
    BY <2>3, <2>4
<1>8. ASSUME NEW n \in Taking PROVE ReceiveOK(n)'
  <2> DEFINE seen == accounts[n][Key].seen
  <2>1. RowsCounted(n) /\ Senders(call, n) \subseteq Taking
    BY <1>1, <1>2, <1>5, WellCompiledFacts DEF ReceiveOK
  <2>2. Due(n)' = Due(n)
    <3>1. \A p \in Senders(call, n) \X (0..(Rows - 1)) : Base(p[1])' = Base(p[1])
      BY <1>6, <2>1
    <3>2. Senders(call', n) = Senders(call, n)
      BY <1>1
    <3> QED
      BY <3>1, <3>2 DEF Due
  <2>3. ASSUME NEW m \in Senders(call, n), NEW r \in 0..(Rows - 1), Sent(m)'
        PROVE  <<m, Base(m)' + r>> \in seen
    <3>1. m \in Taking /\ Base(m)' = Base(m)
      BY <1>6, <2>1
    <3>2. CASE Sent(m)
      BY <2>1, <3>1, <3>2 DEF RowsCounted
    <3>3. CASE m = Node
      <4>1. PICK j \in 1..Len(Walk) : Walk[j] = n
        BY <1>3, <3>3 DEF Senders, ToSet, Walk
      <4>2. j - 1 \in 0..(Len(Walk) - 1) /\ (j - 1) + 1 = j
        BY <1>3
      <4> DEFINE x == r * Len(Walk) + (j - 1)
      <4>3. x \in 0..(Rows * Len(Walk) - 1) /\ x % Len(Walk) = j - 1 /\ x \div Len(Walk) = r
        BY <1>3, <1>7, <4>2, DieAssumption
      <4> HIDE DEF x
      <4>4. x \in 0..(at - 1) /\ Walk[(x % Len(Walk)) + 1] = n
        BY <1>1, <4>1, <4>2, <4>3
      <4> QED
        BY <1>1, <2>1, <3>1, <3>3, <4>3, <4>4 DEF RowsCounted
    <3> QED
      BY <1>5, <2>3, <3>1, <3>2, <3>3
  <2>4. RowsCounted(n)'
    <3>1. pc' # "land" /\ accounts'[n][Key'].seen = seen /\ seen \subseteq Due(n)'
      BY <1>1, <1>3, <2>1, <2>2 DEF RowsCounted
    <3>2. Senders(call', n) = Senders(call, n)
      BY <1>1
    <3> QED
      BY <2>3, <3>1, <3>2 DEF RowsCounted
  <2> QED
    BY <1>1, <1>2, <1>3, <1>5, <2>4 DEF ReceiveOK, Outstanding
<1> QED
  BY <1>1, <1>2, <1>3, <1>8 DEF SoundRun, MembersInStep

(* The call closes: every receive is complete when it is read back.        *)
LEMMA SoundClose ==
  ASSUME TypeInv, SoundRun, sound, Close
  PROVE  /\ pc' = "idle" /\ result' = "ok" /\ call' = call
         /\ \A n \in call.members : DOMAIN accounts'[n] = {}
<1>1. /\ pc = "drain" /\ pc' = "idle" /\ call' = call /\ Running /\ ControlOK /\ LedgersOK
      /\ ToSet(Members) = Taking /\ Taking \subseteq Nodes
  BY CallFacts DEF Close, Running, TypeInv
<1>2. /\ WellCompiled(call) /\ \A n \in Taking : ReceiveOK(n)
  BY <1>1 DEF SoundRun
<1>3. Taking = call.members
  BY <1>2 DEF WellCompiled, Taking
<1>4. ASSUME NEW n \in Taking
      PROVE  Outstanding(n) = {Key} /\ ReadBack(n) /\ IsComplete(accounts[n][Key])
  <2>1. Outstanding(n) = {Key} /\ accounts[n][Key].expVal = ExpVal(call, n) /\ RowsCounted(n)
    BY <1>1, <1>2 DEF ReceiveOK, Posted
  <2>2. Senders(call, n) \subseteq Taking
    BY <1>1, <1>2, WellCompiledFacts
  <2>3. accounts[n][Key].seen = Due(n)
    <3>1. accounts[n][Key].seen \subseteq Due(n)
      BY <2>1 DEF RowsCounted
    <3>2. \A m \in Senders(call, n) : Sent(m)
      BY <1>1, <2>2 DEF Sent
    <3>3. ASSUME NEW q \in Due(n) PROVE q \in accounts[n][Key].seen
      <4>1. PICK p \in Senders(call, n) \X (0..(Rows - 1)) : q = <<p[1], Base(p[1]) + p[2]>>
        BY DEF Due
      <4>2. p[1] \in Senders(call, n) /\ p[2] \in 0..(Rows - 1)
        OBVIOUS
      <4> QED
        BY <2>1, <3>2, <4>1, <4>2 DEF RowsCounted
    <3> QED
      BY <3>1, <3>3
  <2>4. accounts[n][Key].counted = ExpVal(call, n) /\ ExpVal(call, n) \in Nat
    <3>1. accounts[n][Key].counted = RowBytes * Cardinality(accounts[n][Key].seen)
      BY <1>1, <2>1 DEF LedgersOK, Kept
    <3>2. Due(n) \in SUBSET Due(n)
      OBVIOUS
    <3> QED
      BY <1>1, <2>3, <3>1, <3>2, CountedIsDue, LandCountFacts
  <2>5. IsComplete(accounts[n][Key])
    BY <2>1, <2>4 DEF IsComplete
  <2>6. ReadBack(n)
    BY <2>1, FS_Singleton DEF ReadBack
  <2> QED
    BY <2>1, <2>5, <2>6
<1>5. Incomplete = {} /\ \A n \in ToSet(Members) : ReadBack(n)
  BY <1>1, <1>4 DEF Incomplete
<1>6. /\ result' = "ok"
      /\ accounts' = [n \in Nodes |-> IF n \notin ToSet(Members) THEN accounts[n]
                        ELSE [k \in Outstanding(n) \ {Key} |-> accounts[n][k]]]
  BY <1>5 DEF Close
<1>7. \A n \in Taking : DOMAIN accounts'[n] = {}
  BY <1>1, <1>4, <1>6
<1> QED
  BY <1>1, <1>3, <1>6, <1>7

LEMMA SoundStep ==
  TypeInv /\ SoundRun /\ SoundCallCloses /\ [Next]_vars => SoundRun' /\ SoundCallCloses'
<1> SUFFICES ASSUME TypeInv, SoundRun, SoundCallCloses, [Next]_vars
             PROVE  SoundRun' /\ SoundCallCloses'
  OBVIOUS
<1>1. ASSUME NEW c \in Calls, Call(c) PROVE SoundRun' /\ SoundCallCloses'
  <2>1. pc' = "epoch"
    BY <1>1 DEF Call
  <2> QED
    BY <1>1, <2>1, SoundCall DEF SoundCallCloses
<1>2. ASSUME NEW img \in Images, InstallCalReg(img) PROVE SoundRun' /\ SoundCallCloses'
  BY <1>2 DEF InstallCalReg, control, history, SoundRun, Running, SoundCallCloses, Outstanding
<1>3. CASE Step /\ ~sound
  <2>1. ~sound'
    BY <1>3 DEF Step, NextEpoch, Agree, Post, Release, Land, Defer, Discard, Count, Pass, FinishSend,
       Close, Abort, NextMember, GoTo, history
  <2> QED
    BY <2>1 DEF SoundRun, SoundCallCloses
<1>4. CASE (NextEpoch \/ Agree \/ Post \/ Release \/ Land \/ FinishSend) /\ sound
  <2>1. SoundRun' /\ pc' # "idle"
    BY <1>4, SoundEpoch, SoundAgree, SoundPost, SoundRelease, SoundLand, SoundFinish
  <2> QED
    BY <2>1 DEF SoundCallCloses
<1>5. CASE Close /\ sound
  BY <1>5, SoundClose DEF SoundRun, SoundCallCloses, Running, Outstanding
<1>6. CASE UNCHANGED vars
  <2>1. SoundCallCloses'
    BY <1>6 DEF vars, die, control, history, SoundCallCloses, Outstanding
  <2>2. SoundRun'
    <3>1. /\ UNCHANGED <<pc, call, turn, at, epoch, accounts, pending, sequence, inFlight, image, sound>>
      BY <1>6 DEF vars, die, control, history
    <3>2. /\ Members' = Members /\ Taking' = Taking /\ Earlier' = Earlier /\ Key' = Key
          /\ Node' = Node /\ Walk' = Walk
      BY <3>1 DEF Members, Taking, Earlier, Key, Node, Walk
    <3>3. \A n : (Posted(n)' <=> Posted(n)) /\ (Sent(n)' <=> Sent(n))
      BY <3>1, <3>2 DEF Posted, Sent
    <3>4. \A m : Base(m)' = Base(m)
      BY <3>1, <3>3 DEF Base
    <3>5. \A n : Due(n)' = Due(n)
      BY <3>1, <3>3, DueStays
    <3>6. \A n : RowsCounted(n)' <=> RowsCounted(n)
      BY <3>1, <3>2, <3>3, <3>4, <3>5 DEF RowsCounted
    <3>7. \A n : ReceiveOK(n)' <=> ReceiveOK(n)
      BY <3>1, <3>2, <3>3, <3>6 DEF ReceiveOK, Outstanding
    <3>8. MembersInStep' <=> MembersInStep
      BY <3>1, <3>2 DEF MembersInStep, Refused, Drained
    <3> QED
      BY <3>1, <3>2, <3>7, <3>8 DEF SoundRun, Running
  <2> QED
    BY <2>1, <2>2
<1> QED
  BY <1>1, <1>2, <1>3, <1>4, <1>5, <1>6 DEF Next, Step

(* The closure of collective.py: a call whose compiled key, geometry and   *)
(* groups agree, on a die with no remains of an earlier call, never raises *)
(* and ends with every expVal reached and every account retired. The rows  *)
(* of all sources that land on a core make up its expVal exactly, so it    *)
(* neither waits for more nor counts beyond its buffer.                    *)
THEOREM SoundCallsClose == Spec => []SoundCallCloses
<1>1. Init => SoundRun /\ SoundCallCloses
  BY DEF Init, SoundRun, SoundCallCloses, Running
<1> QED
  BY <1>1, SoundStep, TypesHold, PTL DEF Spec
==============================================================================
