----------------------------- MODULE ForwardProofs -----------------------------
(***************************************************************************)
(* For every mesh, every bitmap over it and every source: the walk of      *)
(* simulate_multicast ends having expanded exactly the nodes that the flit *)
(* can reach, and having landed on exactly those of them with L set; it is *)
(* clean exactly when there is no cycle around the source; then each of    *)
(* its steps is a hop of the fabric and it has used every link once.       *)
(*                                                                         *)
(* WalkInv says of the worklist what makes the search complete: a pass     *)
(* neighbour of an expanded node is expanded or still on the worklist      *)
(* (Frontier), which the ingress port left out of an egress does not break *)
(* because a node only sends after it was expanded (SentByExpanded); and   *)
(* that nothing outside the component of the source is touched (Inside).   *)
(*                                                                         *)
(* CycleInv counts.  The expanded nodes are always connected, so they have *)
(* at least one link fewer than nodes (Spans); they have more than that    *)
(* (Loops) exactly when an arrival at an expanded node is on the worklist  *)
(* or was met (Tree).  FigureInv follows the links that the trace used.    *)
(*                                                                         *)
(* The second part is about sends, for every set of plans as well: what    *)
(* the table's checks accept is never refused; after a send that was not   *)
(* refused no node ever sees two copies, the fabric ends at the nodes the  *)
(* walk credited, and the figures of the send are those of the fabric.     *)
(* SendInv repeats for the fabric, which forwards in any order, what the   *)
(* walk's invariants say of the worklist: the nodes that have seen a flit  *)
(* are a tree inside the component, and the flits in flight lead out of    *)
(* it.  A flit in flight to a visited node would be a cycle in the         *)
(* component, and a walk that met one was refused.                         *)
(*                                                                         *)
(* The last part is what split_payload and max_depth compute by a loop.    *)
(* Without a cycle around the source the depths of the trace are those of  *)
(* a breadth-first search (Layered), although the worklist goes depth      *)
(* first: no peer of an expanded node was heard of before, so no depth is  *)
(* ever raised.                                                            *)
(***************************************************************************)
EXTENDS Send, SequenceTheorems, FiniteSetTheorems, NaturalsInduction, WellFoundedInduction, TLAPS

EntryNodes == {e[1] : e \in Entries}

BitmapOK == pass \subseteq Nodes /\ land \subseteq Nodes /\ source \in pass
SentByExpanded == \A e \in Entries : e[2] = NoPort \/ e[2] \in expanded
Inside == expanded \cup EntryNodes \subseteq Reachable
Frontier == \A n \in expanded : Neighbours(n) \cap pass \subseteq expanded \cup EntryNodes
Started == source \in expanded \cup EntryNodes
Landings == LandNodes = land \cap expanded

WalkInv == /\ BitmapOK /\ TypeOK
           /\ SentByExpanded /\ Inside /\ Frontier /\ Started /\ Landings

------------------------------------------------------------------------------
\* The entries that an arrival at n sends to some of its neighbours.
SentTo(peers, n, ingress) == {<<m, n>> : m \in {x \in peers : x \in pass /\ x # ingress}}

(* A port holds the entry of its neighbour if the flit goes there.         *)
LEMMA PortEntry ==
  ASSUME NEW peers, NEW n, NEW ingress,
         \A a, b \in peers : a = b
  PROVE  /\ Port(peers, n, ingress) \in Seq((peers \cap pass) \X {n})
         /\ Range(Port(peers, n, ingress)) = SentTo(peers, n, ingress)
<1> DEFINE Out == {x \in peers : x \in pass /\ x # ingress}
<1>1. CASE Out = {}
  <2>1. Port(peers, n, ingress) = <<>>
    BY <1>1 DEF Port
  <2> QED
    BY <1>1, <2>1 DEF Range, SentTo
<1>2. CASE Out # {}
  <2>1. PICK m \in Out : TRUE
    BY <1>2
  <2>2. Out = {m} /\ m \in peers \cap pass
    BY <2>1
  <2>3. (CHOOSE x \in peers : x \in pass /\ x # ingress) = m
    BY <2>1, <2>2
  <2>4. Port(peers, n, ingress) = <<<<m, n>>>>
    BY <2>1, <2>3 DEF Port
  <2>5. Range(<<<<m, n>>>>) = {<<m, n>>}
    BY DEF Range
  <2>6. SentTo(peers, n, ingress) = {<<m, n>>}
    BY <2>2 DEF SentTo
  <2> QED
    BY <2>2, <2>4, <2>5, <2>6
<1> QED
  BY <1>1, <1>2

(* Joining ports joins the entries they hold.                              *)
LEMMA TwoPorts ==
  ASSUME NEW E, NEW a \in Seq(E), NEW b \in Seq(E)
  PROVE  /\ a \o b \in Seq(E)
         /\ Range(a \o b) = Range(a) \cup Range(b)
BY RangeConcatenation, ConcatProperties

LEMMA FourPorts ==
  ASSUME NEW E, NEW a \in Seq(E), NEW b \in Seq(E), NEW c \in Seq(E), NEW d \in Seq(E)
  PROVE  /\ a \o b \o c \o d \in Seq(E)
         /\ Range(a \o b \o c \o d) = Range(a) \cup Range(b) \cup Range(c) \cup Range(d)
<1> DEFINE ab == a \o b
           abc == ab \o c
<1>1. ab \in Seq(E) /\ Range(ab) = Range(a) \cup Range(b)
  BY TwoPorts
<1>2. abc \in Seq(E) /\ Range(abc) = Range(ab) \cup Range(c)
  <2> HIDE DEF ab
  <2> QED
    BY <1>1, TwoPorts
<1>3. abc \o d \in Seq(E) /\ Range(abc \o d) = Range(abc) \cup Range(d)
  <2> HIDE DEF abc
  <2> QED
    BY <1>2, TwoPorts
<1>4. Range(abc \o d) = Range(a) \cup Range(b) \cup Range(c) \cup Range(d)
  <2> HIDE DEF ab, abc
  <2> QED
    BY <1>1, <1>2, <1>3
<1> QED
  BY <1>3, <1>4

(* The egress of an arrival is one entry per passing neighbour but the     *)
(* ingress.                                                                *)
LEMMA EgressEntries ==
  ASSUME NEW n, NEW ingress
  PROVE  /\ Egress(n, ingress) \in Seq((Neighbours(n) \cap pass) \X {n})
         /\ Range(Egress(n, ingress)) = SentTo(Neighbours(n), n, ingress)
<1> DEFINE S == (Neighbours(n) \cap pass) \X {n}
           P(peers) == Port(peers, n, ingress)
           Out(peers) == SentTo(peers, n, ingress)
<1>1. ASSUME NEW peers \in {North(n), West(n), East(n), South(n)}
      PROVE  P(peers) \in Seq(S) /\ Range(P(peers)) = Out(peers)
  <2>1. \A a, b \in peers : a = b
    BY <1>1 DEF North, West, East, South
  <2>2. peers \subseteq Neighbours(n)
    BY <1>1 DEF Neighbours
  <2>3. (peers \cap pass) \X {n} \subseteq S
    BY <2>2
  <2>4. P(peers) \in Seq((peers \cap pass) \X {n}) /\ Range(P(peers)) = Out(peers)
    BY <2>1, PortEntry
  <2> QED
    BY <2>3, <2>4, SeqMonotonic
<1>2. Egress(n, ingress) = P(North(n)) \o P(West(n)) \o P(East(n)) \o P(South(n))
  BY DEF Egress
<1>3. /\ Egress(n, ingress) \in Seq(S)
      /\ Range(Egress(n, ingress))
           = Out(North(n)) \cup Out(West(n)) \cup Out(East(n)) \cup Out(South(n))
  <2> HIDE DEF S, P, Out
  <2> QED
    BY <1>1, <1>2, FourPorts
<1>4. Out(Neighbours(n)) = Out(North(n)) \cup Out(West(n)) \cup Out(East(n)) \cup Out(South(n))
  BY DEF Neighbours, SentTo
<1> QED
  BY <1>3, <1>4

(* The component of a pass node holds the node, and with a node all its    *)
(* pass neighbours; and it is inside every closed set around the node.     *)
LEMMA ComponentFacts ==
  ASSUME NEW S, NEW n \in S
  PROVE  /\ n \in Component(S, n)
         /\ \A m \in Component(S, n) : Neighbours(m) \cap S \subseteq Component(S, n)
         /\ \A T \in SUBSET S : n \in T /\ Closed(S, T) => Component(S, n) \subseteq T
<1>1. n \in Component(S, n)
  BY DEF Component
<1>2. ASSUME NEW m \in Component(S, n), NEW p \in Neighbours(m) \cap S
      PROVE  p \in Component(S, n)
  BY <1>2 DEF Component, Closed
<1>3. ASSUME NEW T \in SUBSET S, n \in T, Closed(S, T)
      PROVE  Component(S, n) \subseteq T
  BY <1>3 DEF Component
<1> QED
  BY <1>1, <1>2, <1>3

------------------------------------------------------------------------------
(* A sequence holds its first element and those of its tail.               *)
LEMMA HeadAndTail ==
  ASSUME NEW E, NEW s \in Seq(E), s # <<>>
  PROVE  /\ Head(s) \in E /\ Tail(s) \in Seq(E)
         /\ Range(s) = {Head(s)} \cup Range(Tail(s))
<1>1. /\ Head(s) \in E /\ Tail(s) \in Seq(E) /\ Len(s) \in Nat \ {0}
      /\ DOMAIN s = 1..Len(s) /\ DOMAIN Tail(s) = 1..(Len(s) - 1)
      /\ Head(s) = s[1] /\ \A i \in 1..(Len(s) - 1) : Tail(s)[i] = s[i + 1]
  BY HeadTailProperties, EmptySeq
<1>2. ASSUME NEW e \in Range(s)
      PROVE  e = Head(s) \/ e \in Range(Tail(s))
  <2>1. PICK i \in 1..Len(s) : e = s[i]
    BY <1>1, <1>2 DEF Range
  <2>2. CASE i = 1
    BY <1>1, <2>1, <2>2
  <2>3. CASE i # 1
    <3>1. i - 1 \in 1..(Len(s) - 1) /\ Tail(s)[i - 1] = s[i]
      BY <1>1, <2>3
    <3> QED
      BY <1>1, <2>1, <3>1 DEF Range
  <2> QED
    BY <2>2, <2>3
<1>3. Head(s) \in Range(s)
  BY <1>1 DEF Range
<1>4. ASSUME NEW e \in Range(Tail(s))
      PROVE  e \in Range(s)
  <2>1. PICK i \in 1..(Len(s) - 1) : e = s[i + 1]
    BY <1>1, <1>4 DEF Range
  <2>2. i + 1 \in 1..Len(s)
    BY <1>1
  <2> QED
    BY <1>1, <2>1, <2>2 DEF Range
<1> QED
  BY <1>1, <1>2, <1>3, <1>4

(* The first entry and the rest make up the worklist.                      *)
LEMMA TopOfStack ==
  ASSUME WalkInv, stack # <<>>
  PROVE  /\ Head(stack) \in Entries /\ Top \in pass /\ Ingress \in Nodes \cup {NoPort}
         /\ Tail(stack) \in Seq(pass \X (Nodes \cup {NoPort}))
         /\ Entries = {Head(stack)} \cup Range(Tail(stack))
         /\ Entries = Range(stack)
<1> DEFINE E == pass \X (Nodes \cup {NoPort})
<1>1. stack \in Seq(E)
  BY DEF WalkInv, TypeOK
<1>2. /\ Head(stack) \in E /\ Tail(stack) \in Seq(E)
      /\ Range(stack) = {Head(stack)} \cup Range(Tail(stack))
  <2> HIDE DEF E
  <2> QED
    BY <1>1, HeadAndTail
<1>5. Entries = Range(stack)
  BY DEF Entries, Range
<1>6. Top \in pass /\ Ingress \in Nodes \cup {NoPort}
  BY <1>2 DEF Top, Ingress
<1> QED
  BY <1>2, <1>5, <1>6

(* A landing adds the top of the worklist to the nodes that committed, if  *)
(* its L bit is set.                                                       *)
LEMMA LandingNodes ==
  ASSUME TypeOK
  PROVE  /\ Landing \in Seq(land)
         /\ Range(Landing) = LandNodes \cup (land \cap {Top})
<1>1. landings \in Seq(land) /\ LandNodes = Range(landings)
  BY DEF TypeOK, LandNodes, Range
<1>2. CASE Top \in land
  <2> DEFINE one == <<Top>>
  <2>1. Landing = landings \o one
    BY <1>1, <1>2 DEF Landing
  <2>2. one \in Seq(land) /\ Range(one) = {Top}
    BY <1>2 DEF Range
  <2>3. Landing \in Seq(land) /\ Range(Landing) = Range(landings) \cup Range(one)
    <3> HIDE DEF one
    <3> QED
      BY <1>1, <2>1, <2>2, TwoPorts
  <2> QED
    BY <1>1, <1>2, <2>2, <2>3
<1>3. CASE Top \notin land
  BY <1>1, <1>3 DEF Landing
<1> QED
  BY <1>2, <1>3

------------------------------------------------------------------------------
(* The invariant holds initially.                                          *)
LEMMA WalkInitial == Init => WalkInv
<1> SUFFICES ASSUME Init PROVE WalkInv
  OBVIOUS
<1>1. pass \subseteq Nodes /\ land \subseteq Nodes /\ source \in pass
  BY DEF Init
<1>2. stack = <<<<source, NoPort>>>> /\ expanded = {} /\ landings = <<>> /\ revisits = {}
  BY DEF Init
<1>3. Entries = {<<source, NoPort>>} /\ EntryNodes = {source}
  BY <1>2 DEF Entries, EntryNodes
<1>4. BitmapOK /\ Started /\ SentByExpanded /\ Frontier
  BY <1>1, <1>2, <1>3 DEF BitmapOK, Started, SentByExpanded, Frontier
<1>5. TypeOK
  <2>1. <<source, NoPort>> \in pass \X (Nodes \cup {NoPort})
    BY <1>1
  <2>2. stack \in Seq(pass \X (Nodes \cup {NoPort}))
    BY <1>2, <2>1
  <2> QED
    BY <1>2, <2>2 DEF TypeOK
<1>6. Inside
  BY <1>1, <1>2, <1>3, ComponentFacts DEF Inside, Reachable
<1>7. Landings
  BY <1>2 DEF Landings, LandNodes
<1> QED
  BY <1>4, <1>5, <1>6, <1>7 DEF WalkInv

(* The first arrival at a node: the node leaves the worklist and all its   *)
(* passing neighbours but the ingress, which was expanded, enter it.       *)
LEMMA ExpandKeeps == WalkInv /\ Expand => WalkInv'
<1> SUFFICES ASSUME WalkInv, Expand PROVE WalkInv'
  OBVIOUS
<1> DEFINE E == pass \X (Nodes \cup {NoPort})
           Fresh == SentTo(Neighbours(Top), Top, Ingress)
           Rest == Range(Tail(stack))
<1>1. /\ stack # <<>> /\ expanded' = expanded \cup {Top} /\ landings' = Landing
      /\ stack' = Egress(Top, Ingress) \o Tail(stack)
      /\ pass' = pass /\ land' = land /\ source' = source /\ revisits' = revisits
  BY DEF Expand, bitmap
<1>2. /\ BitmapOK /\ TypeOK /\ SentByExpanded /\ Inside /\ Frontier /\ Started /\ Landings
  BY DEF WalkInv
<1>3. /\ Head(stack) \in Entries /\ Top \in pass /\ Ingress \in Nodes \cup {NoPort}
      /\ Tail(stack) \in Seq(E) /\ Entries = {Head(stack)} \cup Rest
  BY <1>1, TopOfStack
<1>4. /\ Head(stack)[1] = Top /\ Head(stack)[2] = Ingress
      /\ Top \in EntryNodes /\ (Ingress = NoPort \/ Ingress \in expanded)
      /\ EntryNodes = {Top} \cup {e[1] : e \in Rest}
  BY <1>2, <1>3 DEF Top, Ingress, EntryNodes, SentByExpanded
<1>5. /\ stack' \in Seq(E) /\ Range(stack') = Fresh \cup Rest
  <2>1. Top \in Nodes
    BY <1>2, <1>3 DEF BitmapOK
  <2>2. (Neighbours(Top) \cap pass) \X {Top} \subseteq E
    BY <2>1
  <2>3. /\ Egress(Top, Ingress) \in Seq((Neighbours(Top) \cap pass) \X {Top})
        /\ Range(Egress(Top, Ingress)) = Fresh
    BY EgressEntries
  <2>4. Egress(Top, Ingress) \in Seq(E)
    BY <2>2, <2>3, SeqMonotonic
  <2> HIDE DEF E, Fresh
  <2> QED
    BY <1>1, <1>3, <2>3, <2>4, TwoPorts
<1>6. Entries' = Fresh \cup Rest
  BY <1>5 DEF Entries, Range
<1>7. EntryNodes' = {m \in Neighbours(Top) : m \in pass /\ m # Ingress} \cup {e[1] : e \in Rest}
  <2>1. EntryNodes' = {e[1] : e \in Entries'}
    BY DEF EntryNodes
  <2>2. {e[1] : e \in Fresh} = {m \in Neighbours(Top) : m \in pass /\ m # Ingress}
    <3> DEFINE M == {m \in Neighbours(Top) : m \in pass /\ m # Ingress}
    <3>1. Fresh = {<<m, Top>> : m \in M}
      BY DEF SentTo
    <3>2. \A m \in M : <<m, Top>> \in Fresh /\ <<m, Top>>[1] = m
      BY <3>1
    <3>3. \A e \in Fresh : e[1] \in M
      BY <3>1
    <3> HIDE DEF M, Fresh
    <3>4. {e[1] : e \in Fresh} = M
      BY <3>2, <3>3
    <3> QED
      BY <3>4 DEF M
  <2>3. {e[1] : e \in Fresh \cup Rest} = {e[1] : e \in Fresh} \cup {e[1] : e \in Rest}
    OBVIOUS
  <2> QED
    BY <1>6, <2>1, <2>2, <2>3
<1>8. BitmapOK'
  BY <1>1, <1>2 DEF BitmapOK
<1>9. TypeOK'
  <2>1. landings' \in Seq(land')
    BY <1>1, <1>2, LandingNodes
  <2> QED
    BY <1>1, <1>2, <1>3, <1>5, <2>1 DEF TypeOK, Nodes
<1>10. SentByExpanded'
  <2> SUFFICES ASSUME NEW e \in Entries' PROVE e[2] = NoPort \/ e[2] \in expanded'
    BY DEF SentByExpanded, NoPort
  <2>1. CASE e \in Fresh
    BY <1>1, <2>1 DEF SentTo
  <2>2. CASE e \in Rest
    BY <1>1, <1>2, <1>3, <2>2 DEF SentByExpanded
  <2> QED
    BY <1>6, <2>1, <2>2
<1>11. Inside'
  <2>1. Reachable' = Reachable
    BY <1>1 DEF Reachable, Component, Closed, Neighbours, North, West, East, South, RowOf, ColOf
  <2>2. Top \in Reachable /\ source \in pass
    BY <1>2, <1>4 DEF Inside, BitmapOK
  <2>3. Neighbours(Top) \cap pass \subseteq Reachable
    BY <2>2, ComponentFacts DEF Reachable
  <2> QED
    BY <1>1, <1>2, <1>4, <1>7, <2>1, <2>2, <2>3 DEF Inside
<1>12. Frontier'
  <2> SUFFICES ASSUME NEW n \in expanded', NEW m \in Neighbours(n) \cap pass
               PROVE  m \in expanded' \cup EntryNodes'
    BY <1>1 DEF Frontier, Neighbours, North, West, East, South, RowOf, ColOf
  <2>1. CASE n \in expanded
    BY <1>1, <1>2, <1>4, <1>7, <2>1 DEF Frontier
  <2>2. CASE n = Top /\ m # Ingress
    BY <1>7, <2>2
  <2>3. CASE n = Top /\ m = Ingress
    <3>1. m # NoPort
      BY <1>2 DEF BitmapOK, Nodes, NoPort
    <3> QED
      BY <1>1, <1>4, <2>3, <3>1
  <2> QED
    BY <1>1, <2>1, <2>2, <2>3
<1>13. Started'
  BY <1>1, <1>2, <1>4, <1>7 DEF Started
<1>14. Landings'
  <2>1. LandNodes' = Range(landings')
    BY DEF LandNodes, Range
  <2>2. Range(landings') = LandNodes \cup (land \cap {Top})
    BY <1>1, <1>2, LandingNodes
  <2> QED
    BY <1>1, <1>2, <2>1, <2>2 DEF Landings
<1> QED
  BY <1>8, <1>9, <1>10, <1>11, <1>12, <1>13, <1>14 DEF WalkInv

(* A repeated arrival only leaves the worklist; its node was expanded.     *)
LEMMA RevisitKeeps == WalkInv /\ Revisit => WalkInv'
<1> SUFFICES ASSUME WalkInv, Revisit PROVE WalkInv'
  OBVIOUS
<1> DEFINE E == pass \X (Nodes \cup {NoPort})
           Rest == Range(Tail(stack))
<1>1. /\ stack # <<>> /\ Top \in expanded /\ landings' = Landing
      /\ stack' = Tail(stack) /\ revisits' = revisits \cup {Top}
      /\ pass' = pass /\ land' = land /\ source' = source /\ expanded' = expanded
  BY DEF Revisit, bitmap
<1>2. /\ BitmapOK /\ TypeOK /\ SentByExpanded /\ Inside /\ Frontier /\ Started /\ Landings
  BY DEF WalkInv
<1>3. Tail(stack) \in Seq(E) /\ Entries = {Head(stack)} \cup Rest
  BY <1>1, TopOfStack
<1>4. Entries' = Rest
  BY <1>1 DEF Entries, Range
<1>5. EntryNodes = {Top} \cup {e[1] : e \in Rest} /\ EntryNodes' = {e[1] : e \in Rest}
  BY <1>3, <1>4 DEF EntryNodes, Top
<1>6. BitmapOK' /\ SentByExpanded' /\ Started'
  BY <1>1, <1>2, <1>3, <1>4, <1>5 DEF BitmapOK, SentByExpanded, Started, NoPort
<1>7. /\ landings' \in Seq(land) /\ Range(landings') = LandNodes \cup (land \cap {Top})
  BY <1>1, <1>2, LandingNodes
<1>8. TypeOK'
  BY <1>1, <1>2, <1>3, <1>7 DEF TypeOK, Nodes
<1>9. Inside'
  <2>1. Reachable' = Reachable
    BY <1>1 DEF Reachable, Component, Closed, Neighbours, North, West, East, South, RowOf, ColOf
  <2> QED
    BY <1>1, <1>2, <1>5, <2>1 DEF Inside
<1>10. Frontier'
  <2> SUFFICES ASSUME NEW n \in expanded, NEW m \in Neighbours(n) \cap pass
               PROVE  m \in expanded' \cup EntryNodes'
    BY <1>1 DEF Frontier, Neighbours, North, West, East, South, RowOf, ColOf
  <2> QED
    BY <1>1, <1>2, <1>5 DEF Frontier
<1>11. Landings'
  <2>1. LandNodes' = Range(landings')
    BY DEF LandNodes, Range
  <2> QED
    BY <1>1, <1>2, <1>7, <2>1 DEF Landings
<1> QED
  BY <1>6, <1>8, <1>9, <1>10, <1>11 DEF WalkInv

(* For every mesh, bitmap and source the walk keeps its invariant.         *)
THEOREM WalkInvariant == Spec => []WalkInv
<1>1. WalkInv /\ UNCHANGED vars => WalkInv'
  <2> SUFFICES ASSUME WalkInv, UNCHANGED vars PROVE WalkInv'
    OBVIOUS
  <2>1. /\ pass' = pass /\ land' = land /\ source' = source /\ stack' = stack
        /\ expanded' = expanded /\ landings' = landings /\ revisits' = revisits
    BY DEF vars, bitmap
  <2>2. Entries' = Entries /\ EntryNodes' = EntryNodes
    BY <2>1 DEF Entries, EntryNodes
  <2>3. (BitmapOK /\ TypeOK /\ SentByExpanded /\ Started)'
    BY <2>1, <2>2 DEF WalkInv, BitmapOK, TypeOK, SentByExpanded, Started, Nodes, NoPort
  <2>4. (Inside /\ Frontier /\ Landings)'
    BY <2>1, <2>2 DEF WalkInv, Inside, Frontier, Landings, LandNodes, Reachable, Component,
                      Closed, Neighbours, North, West, East, South, RowOf, ColOf
  <2> QED
    BY <2>3, <2>4 DEF WalkInv
<1> QED
  BY <1>1, WalkInitial, ExpandKeeps, RevisitKeeps, PTL DEF Spec, Next

(* Every entry of the worklist is an arrival at a pass node.               *)
THEOREM WalkTypeCorrect == Spec => []TypeOK
<1>1. WalkInv => TypeOK
  BY DEF WalkInv
<1> QED
  BY <1>1, WalkInvariant, PTL

(* On every mesh and bitmap, cyclic or not, a walk that has ended expanded *)
(* exactly the nodes the flit can reach and landed on those with L set:    *)
(* simulate_multicast misses no destination and invents none.              *)
THEOREM WalkReachesAll == Spec => []ReachesComponent
<1>1. ASSUME WalkInv PROVE ReachesComponent
  <2> SUFFICES ASSUME Ended PROVE expanded = Reachable /\ LandNodes = land \cap Reachable
    BY DEF ReachesComponent
  <2>1. Entries = {} /\ EntryNodes = {}
    BY DEF Ended, Entries, EntryNodes
  <2>2. expanded \subseteq Reachable
    BY <1>1 DEF WalkInv, Inside
  <2>3. source \in expanded /\ source \in pass /\ expanded \subseteq pass
    BY <1>1, <2>1 DEF WalkInv, Started, BitmapOK, TypeOK
  <2>4. Closed(pass, expanded)
    BY <1>1, <2>1 DEF WalkInv, Frontier, Closed
  <2>5. Reachable \subseteq expanded
    BY <2>3, <2>4, ComponentFacts DEF Reachable
  <2> QED
    BY <1>1, <2>2, <2>5 DEF WalkInv, Landings
<1> QED
  BY <1>1, WalkInvariant, PTL

------------------------------------------------------------------------------
(* Links of the mesh, and counting them.                                   *)

(* Two products of the column count are a row apart.                       *)
LEMMA MultiplesApart ==
  ASSUME NEW s \in Nat, NEW a \in Nat, NEW b \in Nat, a < b
  PROVE  (a * s) + s <= b * s
<1>1. PICK d \in Nat : b = a + 1 + d
  <2>1. b = a + 1 + (b - a - 1) /\ b - a - 1 \in Nat
    OBVIOUS
  <2> QED
    BY <2>1
<1>2. (a + 1 + d) * s = (a * s) + s + (d * s) /\ d * s >= 0
  OBVIOUS
<1> QED
  BY <1>1, <1>2

(* A node is its row and its column, in one way.                           *)
LEMMA Coordinates ==
  ASSUME NEW n \in Nodes
  PROVE  /\ n \in Nat /\ RowOf(n) \in 0..(MeshRows - 1) /\ ColOf(n) \in 0..(MeshCols - 1)
         /\ n = (RowOf(n) * MeshCols) + ColOf(n)
         /\ \A r \in Nat, c \in 0..(MeshCols - 1) :
              n = (r * MeshCols) + c => r = RowOf(n) /\ c = ColOf(n)
<1> DEFINE C == MeshCols
           r0 == n \div MeshCols
           c0 == n % MeshCols
<1>1. C \in Nat \ {0} /\ MeshRows \in Nat \ {0}
  BY MeshAssumption
<1>2. MeshRows * C \in Nat
  BY <1>1
<1>3. n \in Nat /\ n < MeshRows * C
  BY <1>2 DEF Nodes
<1>4. n = (r0 * C) + c0 /\ r0 \in Nat /\ c0 \in 0..(C - 1)
  <2>1. n = (C * (n \div C)) + (n % C)
    BY <1>1, <1>3
  <2>2. (n \div C) \in Nat /\ (n % C) \in 0..(C - 1)
    BY <1>1, <1>3
  <2>3. C * r0 = r0 * C
    BY <1>1, <2>2
  <2> QED
    BY <2>1, <2>2, <2>3
<1> HIDE DEF r0, c0
<1>5. r0 < MeshRows
  <2> SUFFICES ASSUME MeshRows <= r0 PROVE FALSE
    BY <1>1, <1>4
  <2>1. MeshRows * C <= r0 * C
    <3>1. CASE MeshRows = r0
      BY <1>1, <1>4, <3>1
    <3>2. CASE MeshRows < r0
      BY <1>1, <1>4, <3>2, MultiplesApart
    <3> QED
      BY <1>1, <1>4, <3>1, <3>2
  <2>2. r0 * C \in Nat
    BY <1>1, <1>4
  <2> QED
    BY <1>2, <1>3, <1>4, <2>1, <2>2
<1>6. ASSUME NEW r \in Nat, NEW c \in 0..(C - 1), n = (r * C) + c
      PROVE  r = r0 /\ c = c0
  <2>1. r * C \in Nat /\ r0 * C \in Nat
    BY <1>1, <1>4
  <2>2. ~(r < r0)
    BY <1>1, <1>4, <1>6, <2>1, MultiplesApart
  <2>3. ~(r0 < r)
    BY <1>1, <1>4, <1>6, <2>1, MultiplesApart
  <2>4. r = r0
    BY <1>4, <2>2, <2>3
  <2> QED
    BY <1>4, <1>6, <2>1, <2>4
<1> QED
  BY <1>1, <1>3, <1>4, <1>5, <1>6 DEF r0, c0, RowOf, ColOf

(* A link leads both ways and never back to its own node.                  *)
LEMMA LinksAreMutual ==
  ASSUME NEW a \in Nodes, NEW b \in Nodes
  PROVE  /\ b \in Neighbours(a) => a \in Neighbours(b) /\ a # b
<1>1. MeshCols \in Nat \ {0} /\ MeshRows \in Nat \ {0}
  BY MeshAssumption
<1> DEFINE r == RowOf(a)
           c == ColOf(a)
<1>2. /\ a \in Nat /\ r \in 0..(MeshRows - 1) /\ c \in 0..(MeshCols - 1)
      /\ a = (r * MeshCols) + c
  BY Coordinates
<1>3. r * MeshCols \in Nat
  BY <1>1, <1>2
<1>4. \A x \in Nat, y \in 0..(MeshCols - 1) :
        b = (x * MeshCols) + y => x = RowOf(b) /\ y = ColOf(b)
  BY Coordinates
<1> HIDE DEF r, c
<1>5. ASSUME b \in North(a) PROVE a \in South(b) /\ a # b
  <2>1. r > 0 /\ b = a - MeshCols
    BY <1>5 DEF North, r
  <2>2. (r - 1) \in Nat /\ (r - 1) * MeshCols = (r * MeshCols) - MeshCols
    BY <1>1, <1>2, <2>1
  <2>3. b = ((r - 1) * MeshCols) + c
    BY <1>1, <1>2, <1>3, <2>1, <2>2
  <2>4. RowOf(b) = r - 1
    BY <1>2, <1>4, <2>2, <2>3
  <2>5. RowOf(b) + 1 < MeshRows /\ a = b + MeshCols
    BY <1>1, <1>2, <2>1, <2>4
  <2> QED
    BY <1>1, <1>2, <2>1, <2>5 DEF South
<1>6. ASSUME b \in South(a) PROVE a \in North(b) /\ a # b
  <2>1. r + 1 < MeshRows /\ b = a + MeshCols
    BY <1>6 DEF South, r
  <2>2. (r + 1) \in Nat /\ (r + 1) * MeshCols = (r * MeshCols) + MeshCols
    BY <1>1, <1>2
  <2>3. b = ((r + 1) * MeshCols) + c
    BY <1>1, <1>2, <1>3, <2>1, <2>2
  <2>4. RowOf(b) = r + 1
    BY <1>2, <1>4, <2>2, <2>3
  <2>5. RowOf(b) > 0 /\ a = b - MeshCols
    BY <1>1, <1>2, <2>1, <2>4
  <2> QED
    BY <1>1, <1>2, <2>1, <2>5 DEF North
<1>7. ASSUME b \in West(a) PROVE a \in East(b) /\ a # b
  <2>1. c > 0 /\ b = a - 1
    BY <1>7 DEF West, c
  <2>2. b = (r * MeshCols) + (c - 1) /\ c - 1 \in 0..(MeshCols - 1)
    BY <1>1, <1>2, <1>3, <2>1
  <2>3. ColOf(b) = c - 1
    BY <1>2, <1>4, <2>2
  <2> QED
    BY <1>1, <1>2, <2>1, <2>3 DEF East
<1>8. ASSUME b \in East(a) PROVE a \in West(b) /\ a # b
  <2>1. c + 1 < MeshCols /\ b = a + 1
    BY <1>8 DEF East, c
  <2>2. b = (r * MeshCols) + (c + 1) /\ c + 1 \in 0..(MeshCols - 1)
    BY <1>1, <1>2, <1>3, <2>1
  <2>3. ColOf(b) = c + 1
    BY <1>2, <1>4, <2>2
  <2> QED
    BY <1>1, <1>2, <2>1, <2>3 DEF West
<1> QED
  BY <1>5, <1>6, <1>7, <1>8 DEF Neighbours

\* The link between two nodes, as InducedEdges lists it.
Edge(a, b) == IF a < b THEN <<a, b>> ELSE <<b, a>>

\* Of a connected set: as many links as nodes, so there is a cycle.
Loops(X) == Cardinality(InducedEdges(X)) >= Cardinality(X)

\* Enough links for X to hang together.
Spans(X) == Cardinality(InducedEdges(X)) + 1 >= Cardinality(X)

(* The mesh is finite, and so is every part of it with its links.          *)
LEMMA FiniteParts ==
  ASSUME NEW X \in SUBSET Nodes
  PROVE  /\ IsFiniteSet(X) /\ IsFiniteSet(InducedEdges(X))
         /\ Cardinality(X) \in Nat /\ Cardinality(InducedEdges(X)) \in Nat
<1>1. IsFiniteSet(Nodes)
  <2>1. MeshRows * MeshCols - 1 \in Int
    BY MeshAssumption
  <2> QED
    BY <2>1, FS_Interval DEF Nodes
<1>2. IsFiniteSet(X)
  BY <1>1, FS_Subset
<1>3. IsFiniteSet(X \X X) /\ InducedEdges(X) \subseteq X \X X
  BY <1>2, FS_Product DEF InducedEdges
<1> QED
  BY <1>2, <1>3, FS_Subset, FS_CardinalityType

(* A link is the same from both its ends.                                  *)
LEMMA EdgeListed ==
  ASSUME NEW a \in Nodes, NEW b \in Nodes
  PROVE  /\ Edge(a, b) = Edge(b, a)
         /\ \A X \in SUBSET Nodes : a \in X /\ b \in X /\ b \in Neighbours(a)
                                    => Edge(a, b) \in InducedEdges(X)
<1>1. \A n \in Nodes : n \in Int
  BY MeshAssumption DEF Nodes
<1>2. Edge(a, b) = Edge(b, a)
  BY <1>1 DEF Edge
<1>3. ASSUME NEW X \in SUBSET Nodes, a \in X, b \in X, b \in Neighbours(a)
      PROVE  Edge(a, b) \in InducedEdges(X)
  <2>1. a \in Neighbours(b) /\ a # b
    BY <1>3, LinksAreMutual
  <2> QED
    BY <1>1, <1>3, <2>1 DEF Edge, InducedEdges
<1> QED
  BY <1>2, <1>3

LEMMA LinkEnds ==
  ASSUME NEW X \in SUBSET Nodes, NEW e \in InducedEdges(X)
  PROVE  \E k, m \in X : m \in Neighbours(k) /\ e = Edge(k, m)
<1>1. e \in X \X X /\ e[1] < e[2] /\ e[2] \in Neighbours(e[1])
  BY DEF InducedEdges
<1>2. PICK k \in X, m \in X : e = <<k, m>>
  BY <1>1
<1>3. e = Edge(k, m) /\ m \in Neighbours(k)
  BY <1>1, <1>2 DEF Edge
<1> QED
  BY <1>3

(* What a node adds to a set: itself, and a link to every neighbour in it. *)
LEMMA OneMoreNode ==
  ASSUME NEW X \in SUBSET Nodes, NEW t \in Nodes \ X
  PROVE  /\ Cardinality(X) \in Nat /\ Cardinality(InducedEdges(X)) \in Nat
         /\ Cardinality(X \cup {t}) = Cardinality(X) + 1
         /\ Cardinality(InducedEdges(X \cup {t})) \in Nat
         /\ \A m : Neighbours(t) \cap X = {m} =>
              Cardinality(InducedEdges(X \cup {t})) = Cardinality(InducedEdges(X)) + 1
         /\ \A k, m \in Neighbours(t) \cap X : k # m =>
              Cardinality(InducedEdges(X \cup {t})) >= Cardinality(InducedEdges(X)) + 2
<1> DEFINE Y == X \cup {t}
           N == Neighbours(t) \cap X
           D == {Edge(t, k) : k \in N}
           old == InducedEdges(X)
           new == InducedEdges(Y)
<1>1. X \in SUBSET Nodes /\ Y \in SUBSET Nodes
  OBVIOUS
<1>2. IsFiniteSet(X) /\ IsFiniteSet(Y) /\ Cardinality(Y) = Cardinality(X) + 1
  BY <1>1, FiniteParts, FS_AddElement
<1>3. IsFiniteSet(old) /\ IsFiniteSet(new)
  BY <1>1, FiniteParts
<1>4. \A n \in Nodes : n \in Int
  BY MeshAssumption DEF Nodes
<1>5. ASSUME NEW k \in N
      PROVE  /\ Edge(t, k) \in new /\ Edge(t, k) \notin old
  <2>1. k \in Nodes /\ k \in Neighbours(t) /\ t \in Neighbours(k) /\ k # t
    BY LinksAreMutual
  <2>2. Edge(t, k) \in Y \X Y /\ Edge(t, k)[1] < Edge(t, k)[2]
    BY <1>4, <2>1 DEF Edge
  <2>3. Edge(t, k)[2] \in Neighbours(Edge(t, k)[1])
    BY <2>1 DEF Edge
  <2>4. Edge(t, k) \notin X \X X
    BY DEF Edge
  <2> QED
    BY <2>2, <2>3, <2>4 DEF InducedEdges
<1>6. new = old \cup D
  <2>1. old \subseteq new
    BY DEF InducedEdges
  <2>2. ASSUME NEW e \in new, e \notin old PROVE e \in D
    <3>1. e \in Y \X Y /\ e[1] < e[2] /\ e[2] \in Neighbours(e[1]) /\ e \notin X \X X
      BY <2>2 DEF InducedEdges
    <3>2. PICK a \in Y, b \in Y : e = <<a, b>>
      BY <3>1
    <3>3. a < b /\ b \in Neighbours(a) /\ (a = t \/ b = t) /\ a # b /\ a \in Neighbours(b)
      BY <3>1, <3>2, LinksAreMutual
    <3>4. CASE a = t
      BY <3>2, <3>3, <3>4 DEF Edge
    <3>5. CASE b = t
      <4>1. a \in N /\ ~(b < a)
        BY <1>4, <3>3, <3>5
      <4>2. Edge(t, a) = <<a, b>>
        BY <3>5, <4>1 DEF Edge
      <4> QED
        BY <3>2, <4>1, <4>2
    <3> QED
      BY <3>3, <3>4, <3>5
  <2>3. D \subseteq new
    BY <1>5
  <2> QED
    BY <2>1, <2>2, <2>3
<1>7. IsFiniteSet(D) /\ old \cap D = {} /\ Cardinality(new) = Cardinality(old) + Cardinality(D)
  <2>1. D \subseteq new /\ old \cap D = {}
    BY <1>5
  <2>2. IsFiniteSet(D)
    BY <1>3, <2>1, FS_Subset
  <2>3. Cardinality(old \cup D) = Cardinality(old) + Cardinality(D) - Cardinality(old \cap D)
    BY <1>3, <2>2, FS_Union
  <2>4. Cardinality(old \cap D) = 0
    BY <2>1, FS_EmptySet
  <2>5. Cardinality(old) \in Nat /\ Cardinality(D) \in Nat
    BY <1>3, <2>2, FS_CardinalityType
  <2> HIDE DEF D, old, new
  <2> QED
    BY <1>6, <2>1, <2>2, <2>3, <2>4, <2>5
<1>8. /\ Cardinality(X) \in Nat /\ Cardinality(old) \in Nat
      /\ Cardinality(new) \in Nat /\ Cardinality(D) \in Nat
  BY <1>2, <1>3, <1>7, FS_CardinalityType
<1>9. ASSUME NEW m, N = {m} PROVE Cardinality(D) = 1
  <2>1. D = {Edge(t, m)}
    BY <1>9
  <2> QED
    BY <2>1, FS_Singleton
<1>10. ASSUME NEW k \in N, NEW m \in N, k # m PROVE Cardinality(D) >= 2
  <2>1. Edge(t, k) # Edge(t, m)
    BY <1>10 DEF Edge
  <2>2. {Edge(t, k), Edge(t, m)} \subseteq D
    OBVIOUS
  <2>3. /\ IsFiniteSet({Edge(t, k)}) /\ Cardinality({Edge(t, k)}) = 1
    BY FS_Singleton
  <2>4. {Edge(t, k), Edge(t, m)} = {Edge(t, k)} \cup {Edge(t, m)}
    OBVIOUS
  <2>5. Cardinality({Edge(t, k), Edge(t, m)}) = 2
    <3>1. Edge(t, m) \notin {Edge(t, k)}
      BY <2>1
    <3>2. Cardinality({Edge(t, k)} \cup {Edge(t, m)}) = Cardinality({Edge(t, k)}) + 1
      BY <2>3, <3>1, FS_AddElement
    <3> QED
      BY <2>3, <2>4, <3>2
  <2> HIDE DEF D
  <2> QED
    BY <1>7, <2>2, <2>5, FS_Subset
<1> HIDE DEF D, old, new, N
<1>11. /\ \A m : N = {m} => Cardinality(new) = Cardinality(old) + 1
       /\ \A k, m \in N : k # m => Cardinality(new) >= Cardinality(old) + 2
  <2>1. ASSUME NEW m, N = {m} PROVE Cardinality(new) = Cardinality(old) + 1
    BY <1>7, <1>8, <1>9, <2>1
  <2>2. ASSUME NEW k \in N, NEW m \in N, k # m PROVE Cardinality(new) >= Cardinality(old) + 2
    <3>1. Cardinality(D) >= 2
      BY <1>10, <2>2
    <3> QED
      BY <1>7, <1>8, <3>1
  <2> QED
    BY <2>1, <2>2
<1> QED
  BY <1>2, <1>8, <1>11 DEF old, new, N

(* A set stays spanned, and stays with its cycle, when a neighbour joins.  *)
LEMMA NeighbourJoins ==
  ASSUME NEW X \in SUBSET Nodes, NEW t \in Nodes \ X, NEW m \in Neighbours(t) \cap X
  PROVE  /\ Spans(X) => Spans(X \cup {t})
         /\ Loops(X) => Loops(X \cup {t})
         /\ Neighbours(t) \cap X = {m} => (Loops(X \cup {t}) <=> Loops(X))
         /\ Spans(X) /\ Neighbours(t) \cap X # {m} => Loops(X \cup {t})
<1> DEFINE Y == X \cup {t}
           N == Neighbours(t) \cap X
<1>1. /\ Cardinality(X) \in Nat /\ Cardinality(InducedEdges(X)) \in Nat
      /\ Cardinality(Y) = Cardinality(X) + 1 /\ Cardinality(InducedEdges(Y)) \in Nat
      /\ \A k : N = {k} => Cardinality(InducedEdges(Y)) = Cardinality(InducedEdges(X)) + 1
      /\ \A j, k \in N : j # k => Cardinality(InducedEdges(Y)) >= Cardinality(InducedEdges(X)) + 2
  BY OneMoreNode
<1>2. CASE N = {m}
  <2>1. Cardinality(InducedEdges(Y)) = Cardinality(InducedEdges(X)) + 1
    BY <1>1, <1>2
  <2> QED
    BY <1>1, <1>2, <2>1 DEF Spans, Loops
<1>3. CASE N # {m}
  <2>1. PICK k \in N : k # m
    BY <1>3
  <2>2. Cardinality(InducedEdges(Y)) >= Cardinality(InducedEdges(X)) + 2
    BY <1>1, <2>1
  <2> QED
    BY <1>1, <1>3, <2>2 DEF Spans, Loops
<1> QED
  BY <1>2, <1>3

(* The component of a node is closed, and has no closed part but itself:   *)
(* wherever a search starts in it, it finds all of it.                     *)
LEMMA ComponentIsConnected ==
  ASSUME NEW S \in SUBSET Nodes, NEW n \in S
  PROVE  /\ Component(S, n) \subseteq S
         /\ \A T \in SUBSET Component(S, n) :
              T # {} /\ Closed(Component(S, n), T) => T = Component(S, n)
<1> DEFINE R == Component(S, n)
<1>1. /\ R \subseteq S /\ n \in R
      /\ \A m \in R : Neighbours(m) \cap S \subseteq R
      /\ \A T \in SUBSET S : n \in T /\ Closed(S, T) => R \subseteq T
  BY ComponentFacts DEF Component
<1> HIDE DEF R
<1>2. ASSUME NEW T \in SUBSET R, T # {}, Closed(R, T)
      PROVE  T = R
  <2>1. CASE n \in T
    <3>1. Closed(S, T)
      BY <1>1, <1>2 DEF Closed
    <3> QED
      BY <1>1, <2>1, <3>1
  <2>2. CASE n \notin T
    <3>1. Closed(S, R \ T)
      <4> SUFFICES ASSUME NEW a \in R \ T, NEW b \in Neighbours(a) \cap S PROVE b \in R \ T
        BY DEF Closed
      <4>1. b \in R /\ a \in Nodes /\ b \in Nodes /\ a \in Neighbours(b)
        BY <1>1, LinksAreMutual
      <4>2. b \notin T
        BY <1>2, <4>1 DEF Closed
      <4> QED
        BY <4>1, <4>2
    <3>2. R \subseteq R \ T
      BY <1>1, <2>2, <3>1
    <3> QED
      BY <1>2, <3>2
  <2> QED
    BY <2>1, <2>2
<1> QED
  BY <1>1, <1>2 DEF R

(* So check_induced_tree counts it as one component.                       *)
LEMMA OneComponent ==
  ASSUME NEW S \in SUBSET Nodes, NEW n \in S
  PROVE  Components(Component(S, n)) = {Component(S, n)}
<1> DEFINE R == Component(S, n)
<1>1. R \in SUBSET S /\ n \in R
  BY ComponentFacts DEF Component
<1>2. \A T \in SUBSET R : T # {} /\ Closed(R, T) => T = R
  BY ComponentIsConnected
<1> HIDE DEF R
<1>3. ASSUME NEW m \in R PROVE Component(R, m) = R
  <2>1. /\ m \in Component(R, m) /\ Component(R, m) \subseteq R
        /\ \A k \in Component(R, m) : Neighbours(k) \cap R \subseteq Component(R, m)
    BY ComponentFacts DEF Component
  <2> QED
    BY <1>2, <2>1 DEF Closed
<1>4. Components(R) = {R}
  BY <1>1, <1>3 DEF Components
<1> QED
  BY <1>4 DEF R

(* A component without cycles has none in any part of it: from a part with *)
(* a cycle one neighbour after the other joins, and the cycle stays.       *)
LEMMA NoCycleInside ==
  ASSUME NEW S \in SUBSET Nodes, NEW n \in S,
         IsAcyclic(Component(S, n)),
         NEW Y \in SUBSET Component(S, n), Y # {}
  PROVE  ~Loops(Y)
<1> DEFINE R == Component(S, n)
           Sizes == {k \in Nat : \E Z \in SUBSET R : /\ Y \subseteq Z /\ Loops(Z)
                                                     /\ Cardinality(R) - Cardinality(Z) = k}
<1>1. /\ R \in SUBSET Nodes /\ n \in R
      /\ \A T \in SUBSET R : T # {} /\ Closed(R, T) => T = R
  BY ComponentIsConnected, ComponentFacts
<1>2. IsFiniteSet(R) /\ Cardinality(R) \in Nat
  <2> HIDE DEF R
  <2> QED
    BY <1>1, FiniteParts
<1>3. ~Loops(R)
  <2>1. Components(R) = {R}
    BY OneComponent
  <2> HIDE DEF R
  <2>2. Cardinality(Components(R)) = 1
    BY <2>1, FS_Singleton
  <2>3. Cardinality(InducedEdges(R)) = Cardinality(R) - 1
    BY <2>2 DEF IsAcyclic, R
  <2> QED
    BY <1>2, <2>3 DEF Loops
<1> HIDE DEF R
<1> SUFFICES ASSUME Loops(Y) PROVE FALSE
  OBVIOUS
<1>4. ASSUME NEW Z \in SUBSET R
      PROVE  Cardinality(Z) \in Nat /\ Cardinality(R) - Cardinality(Z) \in Nat
  BY <1>2, FS_Subset, FS_CardinalityType
<1>5. Sizes \subseteq Nat /\ Sizes # {}
  <2>1. Y \in SUBSET R
    BY DEF R
  <2>2. Cardinality(R) - Cardinality(Y) \in Sizes
    BY <1>4, <2>1
  <2> QED
    BY <2>2
<1>6. PICK k \in Sizes : \A j \in Sizes : k <= j
  <2> HIDE DEF Sizes
  <2>1. PICK k \in Sizes : \A j \in Sizes : ~ (<<j, k>> \in OpToRel(<, Nat))
    BY <1>5, NatLessThanWellFounded, WFMin
  <2>2. \A j \in Sizes : j \in Nat /\ k \in Nat
    BY <1>5
  <2>3. \A j \in Sizes : ~(j < k)
    BY <2>1, <2>2 DEF OpToRel
  <2> QED
    BY <2>2, <2>3
<1>7. PICK Z \in SUBSET R : Y \subseteq Z /\ Loops(Z) /\ Cardinality(R) - Cardinality(Z) = k
  BY <1>6
<1>8. Z # R /\ Z # {}
  BY <1>3, <1>7
<1>9. PICK a \in Z, b \in R : b \in Neighbours(a) /\ b \notin Z
  BY <1>1, <1>8 DEF Closed
<1>10. a \in Neighbours(b) \cap Z /\ b \in Nodes \ Z /\ Z \in SUBSET Nodes
  BY <1>1, <1>9, LinksAreMutual
<1>11. Loops(Z \cup {b}) /\ Cardinality(Z \cup {b}) = Cardinality(Z) + 1
  BY <1>7, <1>10, NeighbourJoins, OneMoreNode
<1>12. Z \cup {b} \in SUBSET R /\ Y \subseteq Z \cup {b}
  BY <1>7, <1>9
<1>13. Cardinality(R) - Cardinality(Z \cup {b}) = k - 1 /\ k - 1 \in Nat
  BY <1>4, <1>2, <1>7, <1>11, <1>12
<1>14. k - 1 \in Sizes
  BY <1>11, <1>12, <1>13
<1> QED
  BY <1>6, <1>13, <1>14

------------------------------------------------------------------------------
(* Arrivals and cycles.  Both the walk and the fabric keep a set X of      *)
(* nodes they have been to and a set F of arrivals to come; the next       *)
(* arrival f at a new node sends to all its pass neighbours but one.  As   *)
(* long as this only ever meets new nodes, X is a tree; an arrival to come *)
(* at a node that has been visited is a cycle in X, and every cycle in X   *)
(* is such an arrival or was one that is over.                             *)

\* Every arrival to come is from a node of X, over a link.
Linked(X, F) ==
  \A e \in F : /\ e \in pass \X X
               /\ e[1] \in Neighbours(e[2])

\* An arrival to come at a node that has been visited.
Again(X, F) == \E e \in F : e[1] \in X

Sending(F, f) == (F \ {f}) \cup SentTo(Neighbours(f[1]), f[1], f[2])

(* The first arrival at the source: a tree of one node.                    *)
LEMMA FirstArrival ==
  ASSUME pass \subseteq Nodes, source \in pass,
         NEW f, f = <<source, NoPort>>
  PROVE  /\ Linked({source}, Sending({f}, f))
         /\ ~Again({source}, Sending({f}, f))
         /\ Spans({source}) /\ ~Loops({source})
<1>1. Sending({f}, f) = SentTo(Neighbours(source), source, NoPort)
  BY DEF Sending
<1>2. ASSUME NEW e \in Sending({f}, f)
      PROVE  /\ e \in pass \X {source} /\ e[1] \in Neighbours(e[2]) /\ e[1] # source
  <2>1. PICK m \in Neighbours(source) : m \in pass /\ e = <<m, source>>
    BY <1>1, <1>2 DEF SentTo
  <2> QED
    BY <2>1, LinksAreMutual
<1>3. InducedEdges({source}) = {}
  BY MeshAssumption DEF InducedEdges, Nodes
<1>4. Cardinality({source}) = 1 /\ Cardinality(InducedEdges({source})) = 0
  BY <1>3, FS_Singleton, FS_EmptySet
<1> QED
  BY <1>2, <1>4 DEF Linked, Again, Spans, Loops

(* A first arrival at any other node.                                      *)
LEMMA NewArrival ==
  ASSUME pass \subseteq Nodes,
         NEW X \in SUBSET pass, NEW F, Linked(X, F), Spans(X),
         NEW f \in F, f[1] \notin X,
         NEW over \in BOOLEAN, Loops(X) <=> over \/ Again(X, F)
  PROVE  /\ Linked(X \cup {f[1]}, Sending(F, f)) /\ Spans(X \cup {f[1]})
         /\ Loops(X \cup {f[1]}) <=> over \/ Again(X \cup {f[1]}, Sending(F, f))
<1> DEFINE t == f[1]
           m == f[2]
           Y == X \cup {t}
           G == Sending(F, f)
<1>1. /\ t \in pass /\ m \in X /\ t \in Neighbours(m) /\ f = <<t, m>>
      /\ X \in SUBSET Nodes /\ t \in Nodes \ X /\ m \in Nodes /\ m \in Neighbours(t)
  <2>1. t \in pass /\ m \in X /\ t \in Neighbours(m) /\ f = <<t, m>>
    BY DEF Linked
  <2> QED
    BY <2>1, LinksAreMutual
<1>2. \A e : e \in G <=> \/ e \in F /\ e # f
                         \/ \E k \in Neighbours(t) : k \in pass /\ k # m /\ e = <<k, t>>
  BY DEF Sending, SentTo
<1> HIDE DEF t, m, G
<1>3. Linked(Y, G)
  <2> SUFFICES ASSUME NEW e \in G PROVE e \in pass \X Y /\ e[1] \in Neighbours(e[2])
    BY DEF Linked
  <2> QED
    BY <1>1, <1>2 DEF Linked
<1>4. Spans(Y)
  BY <1>1, NeighbourJoins
<1>5. CASE Neighbours(t) \cap X = {m}
  <2>1. Loops(Y) <=> Loops(X)
    BY <1>1, <1>5, NeighbourJoins
  <2>2. ASSUME Again(X, F) PROVE Again(Y, G)
    <3>1. PICK e \in F : e[1] \in X
      BY <2>2 DEF Again
    <3>2. e \in G
      BY <1>1, <1>2, <3>1
    <3> QED
      BY <3>1, <3>2 DEF Again
  <2>3. ASSUME Again(Y, G) PROVE Again(X, F)
    <3>1. PICK e \in G : e[1] \in Y
      BY <2>3 DEF Again
    <3>2. ASSUME NEW k \in Neighbours(t), k \in pass, k # m, e = <<k, t>> PROVE FALSE
      <4>1. k # t
        BY <1>1, <3>2, LinksAreMutual
      <4>2. k \in X
        BY <3>1, <3>2, <4>1
      <4> QED
        BY <1>5, <3>2, <4>2
    <3>3. e \in F /\ e # f
      BY <1>2, <3>1, <3>2
    <3>4. e \in pass \X X /\ e[1] \in Neighbours(e[2])
      BY <3>3 DEF Linked
    <3>5. e[1] # t
      <4> SUFFICES ASSUME e[1] = t PROVE FALSE
        OBVIOUS
      <4>1. e = <<t, e[2]>> /\ e[2] # m /\ e[2] \in X
        BY <1>1, <3>3, <3>4
      <4>2. t \in Neighbours(e[2]) /\ e[2] \in Nodes
        BY <1>1, <3>4, <4>1
      <4>3. e[2] \in Neighbours(t)
        BY <1>1, <4>2, LinksAreMutual
      <4> QED
        BY <1>5, <4>1, <4>3
    <3> QED
      BY <3>1, <3>3, <3>5 DEF Again
  <2> QED
    BY <1>3, <1>4, <2>1, <2>2, <2>3 DEF t, G
<1>6. CASE Neighbours(t) \cap X # {m}
  <2>1. Loops(Y)
    BY <1>1, <1>6, NeighbourJoins
  <2>2. PICK k \in Neighbours(t) \cap X : k # m
    BY <1>1, <1>6
  <2>3. <<k, t>> \in G
    BY <1>2, <2>2
  <2>4. Again(Y, G)
    BY <2>2, <2>3 DEF Again
  <2> QED
    BY <1>3, <1>4, <2>1, <2>4 DEF t, G
<1> QED
  BY <1>5, <1>6

(* A hop exchanges one flit for as many as the node has branches.          *)
LEMMA SendingCount ==
  ASSUME pass \in SUBSET Nodes, NEW F, IsFiniteSet(F), NEW f \in F,
         \A e \in F : e[2] # f[1]
  PROVE  LET M == {m \in Neighbours(f[1]) : m \in pass /\ m # f[2]}
         IN  /\ IsFiniteSet(Sending(F, f)) /\ Cardinality(M) \in Nat /\ Cardinality(F) \in Nat
             /\ Cardinality(Sending(F, f)) + 1 = Cardinality(F) + Cardinality(M)
<1> DEFINE M == {m \in Neighbours(f[1]) : m \in pass /\ m # f[2]}
           T == SentTo(Neighbours(f[1]), f[1], f[2])
           g == [m \in M |-> <<m, f[1]>>]
           rest == F \ {f}
<1>1. IsFiniteSet(M) /\ Cardinality(M) \in Nat
  <2>1. M \in SUBSET Nodes
    OBVIOUS
  <2> HIDE DEF M
  <2> QED
    BY <2>1, FiniteParts
<1>2. T = {<<m, f[1]>> : m \in M}
  BY DEF SentTo
<1> HIDE DEF M, T
<1>3. g \in Surjection(M, T) /\ g \in Injection(M, T)
  BY <1>2 DEF Surjection, Injection, IsInjective
<1>4. IsFiniteSet(T) /\ Cardinality(T) = Cardinality(M)
  <2> HIDE DEF g
  <2> QED
    BY <1>1, <1>3, FS_Surjection
<1>5. IsFiniteSet(rest) /\ Cardinality(rest) = Cardinality(F) - 1 /\ Cardinality(F) \in Nat
  BY FS_RemoveElement, FS_CardinalityType
<1>6. rest \cap T = {}
  BY <1>2
<1>7. Cardinality(rest \cap T) = 0
  BY <1>6, FS_EmptySet
<1>8. Sending(F, f) = rest \cup T
  BY DEF Sending, T
<1> HIDE DEF rest
<1>9. /\ IsFiniteSet(rest \cup T)
      /\ Cardinality(rest \cup T) = Cardinality(rest) + Cardinality(T) - Cardinality(rest \cap T)
  BY <1>4, <1>5, FS_Union
<1>10. /\ IsFiniteSet(Sending(F, f)) /\ Cardinality(M) \in Nat /\ Cardinality(F) \in Nat
       /\ Cardinality(Sending(F, f)) + 1 = Cardinality(F) + Cardinality(M)
  BY <1>1, <1>4, <1>5, <1>7, <1>8, <1>9
<1> QED
  BY <1>10 DEF M

(* Positions that list a finite set without repetition are as many as it.  *)
LEMMA SameSize ==
  ASSUME NEW s, NEW I, NEW T, IsFiniteSet(T),
         \A i \in I : s[i] \in T,
         \A x \in T : \E i \in I : s[i] = x,
         \A i, j \in I : s[i] = s[j] => i = j
  PROVE  Cardinality(I) = Cardinality(T)
<1> DEFINE g == [i \in I |-> s[i]]
<1>1. g \in Injection(I, T) /\ g \in Surjection(I, T)
  BY DEF Injection, IsInjective, Surjection
<1> HIDE DEF g
<1> QED
  BY <1>1, FS_Injection

------------------------------------------------------------------------------
(* The worklist counts the cycles.                                         *)

Distinct(s) == \A i, j \in DOMAIN s : s[i] = s[j] => i = j

\* No arrival is on the worklist twice.
OnceOnStack == Distinct(stack)

Begun == IF expanded = {} THEN stack = <<<<source, NoPort>>>> ELSE Linked(expanded, Entries)

Tree == expanded # {} =>
          /\ Spans(expanded)
          /\ Loops(expanded) <=> revisits # {} \/ Again(expanded, Entries)

LandedOnce == revisits = {} => Distinct(landings)

HopsOK == hops \in Seq(pass \X Seq(pass \X pass))

CycleInv == OnceOnStack /\ Begun /\ Tree /\ LandedOnce /\ HopsOK

(* Sequences without repetition: joined when they share nothing, and cut.  *)
LEMMA DistinctJoined ==
  ASSUME NEW E, NEW a \in Seq(E), NEW b \in Seq(E), Distinct(a), Distinct(b),
         Range(a) \cap Range(b) = {}
  PROVE  Distinct(a \o b)
<1>1. /\ DOMAIN (a \o b) = 1..(Len(a) + Len(b)) /\ Len(a) \in Nat /\ Len(b) \in Nat
      /\ DOMAIN a = 1..Len(a) /\ DOMAIN b = 1..Len(b)
      /\ \A i \in 1..(Len(a) + Len(b)) : (a \o b)[i] = IF i <= Len(a) THEN a[i] ELSE b[i - Len(a)]
  BY ConcatProperties
<1> SUFFICES ASSUME NEW i \in DOMAIN (a \o b), NEW j \in DOMAIN (a \o b),
                    (a \o b)[i] = (a \o b)[j]
             PROVE  i = j
  BY DEF Distinct
<1>2. CASE i <= Len(a) /\ j <= Len(a)
  <2>1. i \in DOMAIN a /\ j \in DOMAIN a /\ a[i] = a[j]
    BY <1>1, <1>2
  <2> QED
    BY <2>1 DEF Distinct
<1>3. CASE ~(i <= Len(a)) /\ ~(j <= Len(a))
  <2>1. i - Len(a) \in DOMAIN b /\ j - Len(a) \in DOMAIN b /\ b[i - Len(a)] = b[j - Len(a)]
    BY <1>1, <1>3
  <2>2. i - Len(a) = j - Len(a)
    BY <2>1 DEF Distinct
  <2> QED
    BY <1>1, <2>2
<1>4. CASE i <= Len(a) /\ ~(j <= Len(a))
  <2>1. i \in DOMAIN a /\ j - Len(a) \in DOMAIN b /\ a[i] = b[j - Len(a)]
    BY <1>1, <1>4
  <2> QED
    BY <2>1 DEF Range
<1>5. CASE ~(i <= Len(a)) /\ j <= Len(a)
  <2>1. j \in DOMAIN a /\ i - Len(a) \in DOMAIN b /\ a[j] = b[i - Len(a)]
    BY <1>1, <1>5
  <2> QED
    BY <2>1 DEF Range
<1> QED
  BY <1>2, <1>3, <1>4, <1>5

LEMMA DistinctTail ==
  ASSUME NEW E, NEW s \in Seq(E), s # <<>>, Distinct(s)
  PROVE  Distinct(Tail(s)) /\ Range(Tail(s)) = Range(s) \ {Head(s)}
<1>1. /\ Len(s) \in Nat \ {0}
      /\ DOMAIN s = 1..Len(s) /\ DOMAIN Tail(s) = 1..(Len(s) - 1)
      /\ Head(s) = s[1] /\ \A i \in 1..(Len(s) - 1) : Tail(s)[i] = s[i + 1]
  BY HeadTailProperties, EmptySeq
<1>2. Distinct(Tail(s))
  <2> SUFFICES ASSUME NEW i \in DOMAIN Tail(s), NEW j \in DOMAIN Tail(s), Tail(s)[i] = Tail(s)[j]
               PROVE  i = j
    BY DEF Distinct
  <2>1. i + 1 \in DOMAIN s /\ j + 1 \in DOMAIN s /\ s[i + 1] = s[j + 1]
    BY <1>1
  <2>2. i + 1 = j + 1
    BY <2>1 DEF Distinct
  <2> QED
    BY <1>1, <2>2
<1>3. Range(s) = {Head(s)} \cup Range(Tail(s))
  BY HeadAndTail
<1>4. Head(s) \notin Range(Tail(s))
  <2> SUFFICES ASSUME NEW i \in DOMAIN Tail(s), Tail(s)[i] = Head(s) PROVE FALSE
    BY DEF Range
  <2>1. i + 1 \in DOMAIN s /\ 1 \in DOMAIN s /\ s[i + 1] = s[1]
    BY <1>1
  <2>2. i + 1 = 1
    BY <2>1 DEF Distinct
  <2> QED
    BY <1>1, <2>2
<1> QED
  BY <1>2, <1>3, <1>4

(* The four ports of a node lead to different neighbours, so an egress has *)
(* no entry twice.                                                         *)
LEMMA EgressOnce ==
  ASSUME NEW n \in Nodes, NEW ingress
  PROVE  Distinct(Egress(n, ingress))
<1> DEFINE P(peers) == Port(peers, n, ingress)
           Sides == {North(n), West(n), East(n), South(n)}
           a == P(North(n))
           b == P(West(n))
           c == P(East(n))
           d == P(South(n))
           E == (Neighbours(n) \cap pass) \X {n}
<1>1. ASSUME NEW peers \in Sides
      PROVE  /\ P(peers) \in Seq(E) /\ Range(P(peers)) = SentTo(peers, n, ingress)
             /\ Distinct(P(peers))
  <2>1. \A x, y \in peers : x = y
    BY <1>1 DEF North, West, East, South
  <2>2. /\ P(peers) \in Seq((peers \cap pass) \X {n})
        /\ Range(P(peers)) = SentTo(peers, n, ingress)
    BY <2>1, PortEntry
  <2>3. (peers \cap pass) \X {n} \subseteq E
    BY <1>1 DEF Neighbours
  <2>4. Distinct(P(peers))
    BY DEF Port, Distinct
  <2> QED
    BY <2>2, <2>3, <2>4, SeqMonotonic
<1>2. /\ North(n) \cap West(n) = {} /\ North(n) \cap East(n) = {} /\ North(n) \cap South(n) = {}
      /\ West(n) \cap East(n) = {} /\ West(n) \cap South(n) = {} /\ East(n) \cap South(n) = {}
  <2>1. MeshCols \in Nat \ {0} /\ n \in Nat /\ ColOf(n) \in 0..(MeshCols - 1)
    BY MeshAssumption, Coordinates
  <2> QED
    BY <2>1 DEF North, West, East, South
<1>3. \A x, y \in Sides : x \cap y = {} => Range(P(x)) \cap Range(P(y)) = {}
  <2> SUFFICES ASSUME NEW x \in Sides, NEW y \in Sides, x \cap y = {}
               PROVE  SentTo(x, n, ingress) \cap SentTo(y, n, ingress) = {}
    BY <1>1
  <2> QED
    BY DEF SentTo
<1>4. /\ a \in Seq(E) /\ b \in Seq(E) /\ c \in Seq(E) /\ d \in Seq(E)
      /\ Distinct(a) /\ Distinct(b) /\ Distinct(c) /\ Distinct(d)
  BY <1>1
<1>5. /\ Range(a) \cap Range(b) = {} /\ Range(a) \cap Range(c) = {} /\ Range(a) \cap Range(d) = {}
      /\ Range(b) \cap Range(c) = {} /\ Range(b) \cap Range(d) = {} /\ Range(c) \cap Range(d) = {}
  BY <1>2, <1>3
<1>6. Egress(n, ingress) = a \o b \o c \o d
  BY DEF Egress
<1> HIDE DEF a, b, c, d, E
<1> DEFINE ab == a \o b
<1>7. ab \in Seq(E) /\ Range(ab) = Range(a) \cup Range(b) /\ Distinct(ab)
  BY <1>4, <1>5, TwoPorts, DistinctJoined
<1> HIDE DEF ab
<1> DEFINE abc == ab \o c
<1>8. abc \in Seq(E) /\ Range(abc) = Range(a) \cup Range(b) \cup Range(c) /\ Distinct(abc)
  <2>1. Range(ab) \cap Range(c) = {}
    BY <1>5, <1>7
  <2> QED
    BY <1>4, <1>7, <2>1, TwoPorts, DistinctJoined
<1> HIDE DEF abc
<1>9. Distinct(abc \o d)
  <2>1. Range(abc) \cap Range(d) = {}
    BY <1>5, <1>8
  <2> QED
    BY <1>4, <1>8, <2>1, DistinctJoined
<1> QED
  BY <1>6, <1>9 DEF ab, abc

LEMMA CyclesInitially == Init => CycleInv
<1> SUFFICES ASSUME Init PROVE CycleInv
  OBVIOUS
<1>1. /\ stack = <<<<source, NoPort>>>> /\ expanded = {} /\ landings = <<>>
      /\ revisits = {} /\ hops = <<>>
  BY DEF Init
<1>2. OnceOnStack /\ LandedOnce
  BY <1>1 DEF OnceOnStack, LandedOnce, Distinct
<1> QED
  BY <1>1, <1>2 DEF CycleInv, Begun, Tree, HopsOK

(* Without repetition on the worklist, the first arrival at a node takes   *)
(* its entry off and puts those of its egress on.                          *)
LEMMA ExpandEntries ==
  ASSUME WalkInv, OnceOnStack, Expand
  PROVE  /\ Head(stack) \in Entries /\ Head(stack)[1] = Top /\ Head(stack)[2] = Ingress
         /\ Top \in pass /\ Top \in Nodes /\ Top \notin expanded
         /\ Egress(Top, Ingress) \in Seq(pass \X pass)
         /\ OnceOnStack'
         /\ Entries' = Sending(Entries, Head(stack))
<1> DEFINE E == pass \X (Nodes \cup {NoPort})
           out == Egress(Top, Ingress)
           rest == Tail(stack)
<1>1. /\ stack # <<>> /\ Top \notin expanded /\ stack' = out \o rest
      /\ pass \subseteq Nodes
  BY DEF Expand, WalkInv, BitmapOK
<1>2. /\ Head(stack) \in Entries /\ Top \in pass /\ rest \in Seq(E) /\ stack \in Seq(E)
      /\ Entries = Range(stack)
  BY <1>1, TopOfStack DEF WalkInv, TypeOK
<1>3. Distinct(rest) /\ Range(rest) = Entries \ {Head(stack)}
  <2> HIDE DEF E
  <2> QED
    BY <1>1, <1>2, DistinctTail DEF OnceOnStack
<1>4. /\ out \in Seq((Neighbours(Top) \cap pass) \X {Top})
      /\ Range(out) = SentTo(Neighbours(Top), Top, Ingress) /\ Distinct(out)
  BY <1>1, <1>2, EgressEntries, EgressOnce
<1>5. out \in Seq(E) /\ out \in Seq(pass \X pass)
  <2>1. /\ (Neighbours(Top) \cap pass) \X {Top} \subseteq E
        /\ (Neighbours(Top) \cap pass) \X {Top} \subseteq pass \X pass
    BY <1>1, <1>2
  <2> QED
    BY <1>4, <2>1, SeqMonotonic
<1>6. Range(out) \cap Range(rest) = {}
  <2>1. \A e \in Range(out) : e[2] = Top
    BY <1>4 DEF SentTo
  <2>2. \A e \in Range(rest) : e[2] = NoPort \/ e[2] \in expanded
    BY <1>3 DEF WalkInv, SentByExpanded
  <2>3. Top # NoPort
    BY <1>1, <1>2, MeshAssumption DEF Nodes, NoPort
  <2> QED
    BY <1>1, <2>1, <2>2, <2>3
<1> HIDE DEF out, rest, E
<1>7. Distinct(stack') /\ Range(stack') = Range(out) \cup Range(rest)
  BY <1>1, <1>2, <1>3, <1>4, <1>5, <1>6, TwoPorts, DistinctJoined
<1>8. Entries' = Range(stack')
  BY DEF Entries, Range
<1>9. Head(stack)[1] = Top /\ Head(stack)[2] = Ingress
  BY DEF Top, Ingress
<1>10. Entries' = Sending(Entries, Head(stack))
  BY <1>3, <1>4, <1>7, <1>8, <1>9 DEF Sending
<1> QED
  BY <1>1, <1>2, <1>5, <1>7, <1>9, <1>10 DEF OnceOnStack, out

(* The first arrival at a node keeps count of the cycles.                  *)
LEMMA ExpandCounts == WalkInv /\ CycleInv /\ Expand => CycleInv'
<1> SUFFICES ASSUME WalkInv, CycleInv, Expand PROVE CycleInv'
  OBVIOUS
<1>1. /\ expanded' = expanded \cup {Top} /\ landings' = Landing /\ revisits' = revisits
      /\ hops' = Append(hops, <<Top, Egress(Top, Ingress)>>)
      /\ pass' = pass /\ land' = land /\ source' = source
  BY DEF Expand, bitmap
<1>2. /\ OnceOnStack /\ Begun /\ Tree /\ LandedOnce /\ HopsOK
      /\ pass \subseteq Nodes /\ expanded \subseteq pass /\ source \in pass
      /\ revisits \subseteq expanded
  BY DEF CycleInv, WalkInv, BitmapOK, TypeOK
<1>3. /\ Head(stack) \in Entries /\ Head(stack)[1] = Top /\ Head(stack)[2] = Ingress
      /\ Top \in pass /\ Top \in Nodes /\ Top \notin expanded
      /\ Egress(Top, Ingress) \in Seq(pass \X pass)
      /\ OnceOnStack'
      /\ Entries' = Sending(Entries, Head(stack))
  BY <1>2, ExpandEntries
<1>4. Begun' /\ Tree'
  <2>1. expanded' # {}
    BY <1>1
  <2>2. /\ Begun' <=> Linked(expanded', Entries')
        /\ Tree' <=> /\ Spans(expanded')
                     /\ Loops(expanded') <=> revisits' # {} \/ Again(expanded', Entries')
    BY <1>1, <2>1 DEF Begun, Tree, Linked, Again, Spans, Loops, InducedEdges, Neighbours,
                      North, West, East, South, RowOf, ColOf
  <2>3. CASE expanded = {}
    <3>1. stack = <<<<source, NoPort>>>>
      BY <1>2, <2>3 DEF Begun
    <3>2. Entries = {<<source, NoPort>>} /\ Head(stack) = <<source, NoPort>> /\ Top = source
      BY <3>1 DEF Entries, Top
    <3>3. /\ Linked({source}, Entries') /\ ~Again({source}, Entries')
          /\ Spans({source}) /\ ~Loops({source})
      BY <1>2, <1>3, <3>2, FirstArrival
    <3>4. expanded' = {source} /\ revisits' = {}
      BY <1>1, <1>2, <2>3, <3>2
    <3> QED
      BY <2>2, <3>3, <3>4
  <2>4. CASE expanded # {}
    <3>1. /\ Linked(expanded, Entries) /\ Spans(expanded)
          /\ Loops(expanded) <=> revisits # {} \/ Again(expanded, Entries)
      BY <1>2, <2>4 DEF Begun, Tree
    <3> DEFINE over == revisits # {}
               t == Head(stack)[1]
    <3>2. over \in BOOLEAN /\ (Loops(expanded) <=> over \/ Again(expanded, Entries))
      BY <3>1
    <3> HIDE DEF over
    <3>3. /\ Linked(expanded \cup {t}, Sending(Entries, Head(stack))) /\ Spans(expanded \cup {t})
          /\ Loops(expanded \cup {t})
               <=> over \/ Again(expanded \cup {t}, Sending(Entries, Head(stack)))
      BY <1>2, <1>3, <3>1, <3>2, NewArrival
    <3>4. expanded \cup {t} = expanded' /\ Sending(Entries, Head(stack)) = Entries'
      BY <1>1, <1>3
    <3>5. Linked(expanded', Entries') /\ Spans(expanded')
          /\ (Loops(expanded') <=> over \/ Again(expanded', Entries'))
      BY <3>3, <3>4
    <3> QED
      BY <1>1, <2>2, <3>5 DEF over
  <2> QED
    BY <2>3, <2>4
<1>5. LandedOnce'
  <2> SUFFICES ASSUME revisits = {} PROVE Distinct(landings')
    BY <1>1 DEF LandedOnce
  <2>1. Distinct(landings) /\ landings \in Seq(land) /\ Range(landings) = land \cap expanded
    BY <1>2 DEF LandedOnce, WalkInv, TypeOK, Landings, LandNodes, Range
  <2>2. CASE Top \in land
    <3> DEFINE one == <<Top>>
    <3>1. landings' = landings \o one
      BY <1>1, <2>1, <2>2 DEF Landing
    <3>2. one \in Seq(land) /\ Range(one) = {Top} /\ Distinct(one)
      BY <2>2 DEF Range, Distinct
    <3>3. Range(landings) \cap Range(one) = {}
      BY <1>3, <2>1, <3>2
    <3> HIDE DEF one
    <3> QED
      BY <2>1, <3>1, <3>2, <3>3, DistinctJoined
  <2>3. CASE Top \notin land
    BY <1>1, <2>1, <2>3 DEF Landing
  <2> QED
    BY <2>2, <2>3
<1>6. HopsOK'
  <2>1. <<Top, Egress(Top, Ingress)>> \in pass \X Seq(pass \X pass)
    BY <1>3
  <2> DEFINE H == pass \X Seq(pass \X pass)
  <2>2. hops \in Seq(H) /\ hops' = Append(hops, <<Top, Egress(Top, Ingress)>>)
    BY <1>1, <1>2 DEF HopsOK
  <2> HIDE DEF H
  <2>3. hops' \in Seq(H)
    BY <2>1, <2>2 DEF H
  <2> QED
    BY <1>1, <2>3 DEF HopsOK, H
<1> QED
  BY <1>3, <1>4, <1>5, <1>6 DEF CycleInv

(* A repeated arrival: there was a cycle, and now it is recorded.          *)
LEMMA RevisitCounts == WalkInv /\ CycleInv /\ Revisit => CycleInv'
<1> SUFFICES ASSUME WalkInv, CycleInv, Revisit PROVE CycleInv'
  OBVIOUS
<1>1. /\ stack # <<>> /\ Top \in expanded /\ expanded' = expanded
      /\ stack' = Tail(stack) /\ revisits' = revisits \cup {Top}
      /\ hops' = Append(hops, <<Top, <<>>>>)
      /\ pass' = pass /\ land' = land /\ source' = source
  BY DEF Revisit, bitmap
<1>2. OnceOnStack /\ Begun /\ Tree /\ LandedOnce /\ HopsOK
  BY DEF CycleInv
<1> DEFINE E == pass \X (Nodes \cup {NoPort})
<1>3. /\ Head(stack) \in Entries /\ Top \in pass /\ stack \in Seq(E) /\ Entries = Range(stack)
      /\ Head(stack)[1] = Top
  BY <1>1, TopOfStack DEF WalkInv, TypeOK, Top
<1>4. OnceOnStack' /\ Entries' = Entries \ {Head(stack)}
  <2> HIDE DEF E
  <2>1. Distinct(Tail(stack)) /\ Range(Tail(stack)) = Range(stack) \ {Head(stack)}
    BY <1>1, <1>2, <1>3, DistinctTail DEF OnceOnStack
  <2> QED
    BY <1>1, <1>3, <2>1 DEF OnceOnStack, Entries, Range
<1>5. Linked(expanded, Entries) /\ Spans(expanded) /\ Loops(expanded)
  <2>1. Again(expanded, Entries)
    BY <1>1, <1>3 DEF Again
  <2> QED
    BY <1>1, <1>2, <2>1 DEF Begun, Tree
<1>6. Begun' /\ Tree'
  <2>1. revisits' # {} /\ expanded' # {}
    BY <1>1
  <2>2. Linked(expanded, Entries')
    BY <1>4, <1>5 DEF Linked
  <2> QED
    BY <1>1, <1>5, <2>1, <2>2
    DEF Begun, Tree, Linked, Spans, Loops, InducedEdges, Neighbours, North, West, East, South,
        RowOf, ColOf
<1>7. LandedOnce'
  BY <1>1 DEF LandedOnce
<1>8. HopsOK'
  <2> DEFINE H == pass \X Seq(pass \X pass)
  <2>1. <<Top, <<>>>> \in H /\ hops \in Seq(H)
    <3>1. <<>> \in Seq(pass \X pass)
      OBVIOUS
    <3>2. hops \in Seq(H)
      BY <1>2 DEF HopsOK
    <3> QED
      BY <1>3, <3>1, <3>2
  <2>2. hops' = Append(hops, <<Top, <<>>>>)
    BY <1>1
  <2> HIDE DEF H
  <2>3. hops' \in Seq(H)
    BY <2>1, <2>2
  <2> QED
    BY <1>1, <2>3 DEF HopsOK, H
<1> QED
  BY <1>4, <1>6, <1>7, <1>8 DEF CycleInv

THEOREM CycleInvariant == Spec => []CycleInv
<1>1. WalkInv /\ CycleInv /\ UNCHANGED vars => CycleInv'
  <2> SUFFICES ASSUME CycleInv, UNCHANGED vars PROVE CycleInv'
    OBVIOUS
  <2>1. /\ pass' = pass /\ land' = land /\ source' = source /\ stack' = stack
        /\ expanded' = expanded /\ landings' = landings /\ revisits' = revisits /\ hops' = hops
    BY DEF vars, bitmap
  <2>2. Entries' = Entries
    BY <2>1 DEF Entries
  <2> QED
    BY <2>1, <2>2
    DEF CycleInv, OnceOnStack, Begun, Tree, LandedOnce, HopsOK, Distinct, Linked, Again, Spans,
        Loops, InducedEdges, Neighbours, North, West, East, South, RowOf, ColOf, NoPort
<1> QED
  BY <1>1, CyclesInitially, ExpandCounts, RevisitCounts, WalkInvariant, PTL DEF Spec, Next

(* What is known of a walk that has ended.                                 *)
LEMMA WalkEnd ==
  ASSUME WalkInv, CycleInv, Ended
  PROVE  /\ expanded = Reachable /\ Reachable # {} /\ Reachable \in SUBSET Nodes
         /\ LandNodes = land \cap Reachable
         /\ IsCleanTreeWalk <=> revisits = {}
         /\ IsAcyclic(Reachable) <=> revisits = {}
         /\ revisits = {} =>
              Cardinality(InducedEdges(Reachable)) + 1 = Cardinality(Reachable)
<1>1. Entries = {} /\ EntryNodes = {}
  BY DEF Ended, Entries, EntryNodes
<1>2. source \in pass /\ pass \in SUBSET Nodes
  BY DEF WalkInv, BitmapOK
<1>3. expanded = Reachable /\ expanded # {} /\ expanded \in SUBSET Nodes
  <2>1. expanded \subseteq Reachable
    BY DEF WalkInv, Inside
  <2>2. source \in expanded /\ expanded \subseteq pass
    BY <1>1 DEF WalkInv, Started, TypeOK
  <2>3. Closed(pass, expanded)
    BY <1>1 DEF WalkInv, Frontier, Closed
  <2>4. Reachable \subseteq expanded
    BY <1>2, <2>2, <2>3, ComponentFacts DEF Reachable
  <2> QED
    BY <1>2, <2>1, <2>2, <2>4
<1>4. Spans(expanded) /\ (Loops(expanded) <=> revisits # {})
  BY <1>1, <1>3 DEF CycleInv, Tree, Again
<1>5. revisits = {} => DuplicateNodes = {}
  <2> SUFFICES ASSUME revisits = {}, NEW n \in DuplicateNodes PROVE FALSE
    OBVIOUS
  <2>1. Distinct(landings)
    BY DEF CycleInv, LandedOnce
  <2> DEFINE At == {i \in DOMAIN landings : landings[i] = n}
  <2>2. Cardinality(At) > 1 /\ \E i \in DOMAIN landings : landings[i] = n
    BY DEF DuplicateNodes, LandNodes
  <2>3. PICK i \in DOMAIN landings : landings[i] = n
    BY <2>2
  <2>4. At = {i}
    BY <2>1, <2>3 DEF Distinct
  <2>5. Cardinality(At) = 1
    BY <2>4, FS_Singleton
  <2> QED
    BY <2>2, <2>5
<1>6. IsCleanTreeWalk <=> revisits = {}
  BY <1>5 DEF IsCleanTreeWalk
<1>7. Components(expanded) = {expanded}
  BY <1>2, <1>3, OneComponent DEF Reachable
<1>8. Cardinality(Components(expanded)) = 1
  BY <1>7, FS_Singleton
<1>9. Cardinality(expanded) \in Nat /\ Cardinality(InducedEdges(expanded)) \in Nat
  BY <1>3, FiniteParts
<1>10. IsAcyclic(expanded) <=> ~Loops(expanded)
  BY <1>4, <1>8, <1>9 DEF IsAcyclic, Spans, Loops
<1>11. revisits = {} => Cardinality(InducedEdges(expanded)) + 1 = Cardinality(expanded)
  BY <1>4, <1>9 DEF Spans, Loops
<1> QED
  BY <1>3, <1>4, <1>6, <1>10, <1>11 DEF WalkInv, Landings

(* On every mesh, bitmap and source: a walk that has ended was clean       *)
(* exactly when the links around the source are one fewer than the nodes.  *)
(* What Noc.send refuses by looking at the trace of simulate_multicast is  *)
(* what check_induced_tree would refuse by counting.                       *)
THEOREM CleanWalkIsTree == Spec => []CleanIsAcyclic
<1>1. WalkInv /\ CycleInv => CleanIsAcyclic
  BY WalkEnd DEF CleanIsAcyclic
<1> QED
  BY <1>1, WalkInvariant, CycleInvariant, PTL

------------------------------------------------------------------------------
(* The walk is a run of the fabric.                                        *)

\* What the arrivals of the fabric are under the refinement.
HopsOf(n) == {i \in DOMAIN hops : hops[i][1] = n}

(* A hop more at one node, and at no other.                                *)
LEMMA HopCounted ==
  ASSUME HopsOK, NEW t, NEW out, hops' = Append(hops, <<t, out>>)
  PROVE  \A n \in Nodes : Cardinality(HopsOf(n)') =
           IF n = t THEN Cardinality(HopsOf(n)) + 1 ELSE Cardinality(HopsOf(n))
<1> DEFINE H == pass \X Seq(pass \X pass)
<1>1. hops \in Seq(H)
  BY DEF HopsOK
<1> HIDE DEF H
<1>2. /\ Len(hops) \in Nat /\ DOMAIN hops = 1..Len(hops)
      /\ DOMAIN hops' = 1..(Len(hops) + 1) /\ hops'[Len(hops) + 1] = <<t, out>>
      /\ \A i \in 1..Len(hops) : hops'[i] = hops[i]
  BY <1>1
<1>3. ASSUME NEW n
      PROVE  HopsOf(n)' = IF n = t THEN HopsOf(n) \cup {Len(hops) + 1} ELSE HopsOf(n)
  <2>1. \A i : i \in HopsOf(n)' <=> i \in DOMAIN hops' /\ hops'[i][1] = n
    BY DEF HopsOf
  <2>2. \A i : i \in HopsOf(n) <=> i \in DOMAIN hops /\ hops[i][1] = n
    BY DEF HopsOf
  <2>3. \A i : i \in HopsOf(n)' <=> i \in HopsOf(n) \/ (i = Len(hops) + 1 /\ n = t)
    BY <1>2, <2>1, <2>2
  <2> QED
    BY <2>3
<1>4. ASSUME NEW n
      PROVE  IsFiniteSet(HopsOf(n)) /\ Cardinality(HopsOf(n)) \in Nat
             /\ Len(hops) + 1 \notin HopsOf(n)
  <2>1. HopsOf(n) \in SUBSET (1..Len(hops)) /\ IsFiniteSet(1..Len(hops))
    BY <1>2, FS_Interval DEF HopsOf
  <2> QED
    BY <1>2, <2>1, FS_Subset, FS_CardinalityType
<1> QED
  BY <1>3, <1>4, FS_AddElement

(* Around a source without cycles no arrival ever repeats.                 *)
LEMMA NoRepeat ==
  ASSUME WalkInv, CycleInv, IsAcyclic(Reachable), stack # <<>>
  PROVE  Top \notin expanded
<1> SUFFICES ASSUME Top \in expanded PROVE FALSE
  OBVIOUS
<1>1. Head(stack) \in Entries /\ Head(stack)[1] = Top
  BY TopOfStack DEF Top
<1>2. Loops(expanded)
  <2>1. Again(expanded, Entries)
    BY <1>1 DEF Again
  <2> QED
    BY <2>1 DEF CycleInv, Tree
<1>3. expanded \in SUBSET Reachable /\ expanded # {} /\ source \in pass /\ pass \in SUBSET Nodes
  BY DEF WalkInv, Inside, BitmapOK
<1> QED
  BY <1>2, <1>3, NoCycleInside DEF Reachable

(* On every mesh, every bitmap without a cycle around its source and every *)
(* source: each iteration of simulate_multicast is one hop of the passive  *)
(* fabric, of the flit on top of the worklist, and no flit is left behind  *)
(* or made up.  The walk is one of the orders in which the nodes may       *)
(* forward, so what it reports of a bitmap is something the fabric does.   *)
THEOREM WalkIsFabric == Spec => StepsAreHops
<1>1. ASSUME WalkInv, CycleInv, [Next]_vars
      PROVE  [IsAcyclic(Reachable) => InFabric!Next]_vars
  <2> SUFFICES ASSUME Next, IsAcyclic(Reachable) PROVE InFabric!Next
    BY <1>1
  <2>1. stack # <<>>
    BY DEF Next, Expand, Revisit
  <2>2. Expand
    BY <1>1, <2>1, NoRepeat DEF Next, Revisit
  <2> DEFINE f == Head(stack)
  <2>3. /\ f \in Entries /\ f[1] = Top /\ f[2] = Ingress /\ Top \in Nodes
        /\ Entries' = Sending(Entries, f)
    BY <1>1, <2>2, ExpandEntries DEF CycleInv
  <2>4. /\ hops' = Append(hops, <<Top, Egress(Top, Ingress)>>)
        /\ UNCHANGED <<pass, land, source>>
    BY <2>2 DEF Expand, bitmap
  <2> HIDE DEF f
  <2>5. \A n : InFabric!Neighbours(n) = Neighbours(n)
    BY DEF Neighbours, North, West, East, South, RowOf, ColOf,
           InFabric!Neighbours, InFabric!North, InFabric!West, InFabric!East, InFabric!South,
           InFabric!RowOf, InFabric!ColOf
  <2>6. Entries' = (Entries \ {f}) \cup {<<m, f[1]>> : m \in InFabric!Egress(f[1], f[2])}
    BY <2>3, <2>5 DEF Sending, SentTo, InFabric!Egress
  <2> DEFINE before == [n \in Nodes |-> Cardinality(HopsOf(n))]
             later == [n \in Nodes |-> Cardinality(HopsOf(n)')]
  <2>7. later = [before EXCEPT ![f[1]] = @ + 1]
    <3>1. \A n \in Nodes : Cardinality(HopsOf(n)') =
            IF n = Top THEN Cardinality(HopsOf(n)) + 1 ELSE Cardinality(HopsOf(n))
      BY <1>1, <2>4, HopCounted DEF CycleInv
    <3> QED
      BY <2>3, <3>1
  <2>8. InFabric!Hop(f)
    BY <2>4, <2>6, <2>7 DEF InFabric!Hop, InFabric!bitmap, HopsOf
  <2> QED
    BY <2>3, <2>8 DEF InFabric!Next
<1> QED
  BY <1>1, WalkInvariant, CycleInvariant, PTL DEF Spec, StepsAreHops

------------------------------------------------------------------------------
(* What a trace reports of the links it used.                              *)

Crossed(a, b) == \E t \in Traversals : Link(t) = Edge(a, b)

\* A clean trace has used a link for every entry that was ever put on the
\* worklist, but the first.
HopsCounted == revisits = {} => HopCount + 1 = Cardinality(expanded) + Len(stack)

OverLinks == \A t \in Traversals : Link(t) \in InducedEdges(Reachable)

CrossedLinks == /\ \A e \in Entries : e[2] # NoPort => Crossed(e[2], e[1])
                /\ \A n \in expanded : \A m \in Neighbours(n) \cap pass : Crossed(n, m)

FigureInv == IsFiniteSet(Traversals) /\ HopsCounted /\ OverLinks /\ CrossedLinks

(* A node has at most four ports.                                          *)
LEMMA EgressSize ==
  ASSUME NEW n, NEW ingress
  PROVE  Len(Egress(n, ingress)) \in 0..4
<1> DEFINE P(peers) == Port(peers, n, ingress)
           a == P(North(n))
           b == P(West(n))
           c == P(East(n))
           d == P(South(n))
           E == (Neighbours(n) \cap pass) \X {n}
<1>1. ASSUME NEW peers \in {North(n), West(n), East(n), South(n)}
      PROVE  P(peers) \in Seq(E) /\ Len(P(peers)) \in 0..1
  <2>1. \A x, y \in peers : x = y
    BY <1>1 DEF North, West, East, South
  <2>2. P(peers) \in Seq((peers \cap pass) \X {n})
    BY <2>1, PortEntry
  <2>3. (peers \cap pass) \X {n} \subseteq E
    BY <1>1 DEF Neighbours
  <2>4. Len(P(peers)) \in 0..1
    BY DEF Port
  <2> QED
    BY <2>2, <2>3, <2>4, SeqMonotonic
<1>2. /\ a \in Seq(E) /\ b \in Seq(E) /\ c \in Seq(E) /\ d \in Seq(E)
      /\ Len(a) \in 0..1 /\ Len(b) \in 0..1 /\ Len(c) \in 0..1 /\ Len(d) \in 0..1
  BY <1>1
<1>3. Egress(n, ingress) = a \o b \o c \o d
  BY DEF Egress
<1> HIDE DEF a, b, c, d, E
<1>4. a \o b \in Seq(E) /\ Len(a \o b) = Len(a) + Len(b)
  BY <1>2, ConcatProperties
<1>5. a \o b \o c \in Seq(E) /\ Len(a \o b \o c) = Len(a \o b) + Len(c)
  BY <1>2, <1>4, ConcatProperties
<1>6. Len(a \o b \o c \o d) = Len(a \o b \o c) + Len(d)
  BY <1>2, <1>5, ConcatProperties
<1> DEFINE i == Len(a)
           j == Len(b)
           k == Len(c)
           l == Len(d)
<1>7. i \in 0..1 /\ j \in 0..1 /\ k \in 0..1 /\ l \in 0..1
  BY <1>2
<1>8. Len(Egress(n, ingress)) = ((i + j) + k) + l
  BY <1>3, <1>4, <1>5, <1>6, Zenon
<1> HIDE DEF i, j, k, l
<1>9. ((i + j) + k) + l \in 0..4
  BY <1>7
<1> QED
  BY <1>8, <1>9, Zenon

(* A hop adds the traversals of its own egress to those of the others.     *)
LEMMA HopTraversals ==
  ASSUME HopsOK, NEW n, NEW out \in Seq(pass \X pass), Len(out) \in 0..4,
         hops' = Append(hops, <<n, out>>), IsFiniteSet(Traversals)
  PROVE  /\ Len(hops) + 1 \in Nat
         /\ Traversals' = Traversals \cup ({Len(hops) + 1} \X (1..Len(out)))
         /\ \A t \in Traversals : Link(t)' = Link(t)
         /\ \A t \in {Len(hops) + 1} \X (1..Len(out)) : Link(t)' = Edge(n, out[t[2]][1])
         /\ IsFiniteSet(Traversals') /\ HopCount \in Nat /\ HopCount' = HopCount + Len(out)
<1> DEFINE H == pass \X Seq(pass \X pass)
           L == Len(hops)
           fresh == {L + 1} \X (1..Len(out))
<1>1. hops \in Seq(H)
  BY DEF HopsOK
<1> HIDE DEF H
<1>2. /\ L \in Nat /\ DOMAIN hops = 1..L /\ DOMAIN hops' = 1..(L + 1)
      /\ hops'[L + 1] = <<n, out>> /\ \A i \in 1..L : hops'[i] = hops[i]
  BY <1>1
<1>3. DOMAIN out = 1..Len(out)
  OBVIOUS
<1>4. \A i, j : <<i, j>> \in Traversals <=> i \in 1..L /\ j \in 1..4 /\ j \in DOMAIN hops[i][2]
  BY <1>2 DEF Traversals
<1>5. \A i, j : <<i, j>> \in Traversals'
                  <=> i \in 1..(L + 1) /\ j \in 1..4 /\ j \in DOMAIN hops'[i][2]
  BY <1>2 DEF Traversals
<1>6. /\ \A t \in Traversals : t = <<t[1], t[2]>>
      /\ \A t \in Traversals' : t = <<t[1], t[2]>>
  BY DEF Traversals
<1>7. Traversals' = Traversals \cup fresh
  <2>1. \A i, j : <<i, j>> \in Traversals'
                    <=> <<i, j>> \in Traversals \/ (i = L + 1 /\ j \in 1..Len(out))
    <3> SUFFICES ASSUME NEW i, NEW j
                 PROVE  <<i, j>> \in Traversals'
                          <=> <<i, j>> \in Traversals \/ (i = L + 1 /\ j \in 1..Len(out))
      OBVIOUS
    <3>1. CASE i = L + 1
      <4>1. hops'[i][2] = out /\ i \notin 1..L
        BY <1>2, <3>1
      <4> QED
        BY <1>2, <1>3, <1>4, <1>5, <3>1, <4>1
    <3>2. CASE i # L + 1
      <4>1. i \in 1..(L + 1) <=> i \in 1..L
        BY <1>2, <3>2
      <4> QED
        BY <1>2, <1>4, <1>5, <3>2, <4>1
    <3> QED
      BY <3>1, <3>2
  <2> HIDE DEF L
  <2> QED
    BY <1>6, <2>1
<1>8. \A t \in Traversals : t \notin fresh
  BY <1>2, <1>4, <1>6
<1>9. \A t \in Traversals : Link(t)' = Link(t)
  <2>1. \A t \in Traversals : t[1] \in 1..L
    BY <1>4, <1>6
  <2> QED
    BY <1>2, <2>1 DEF Link
<1>10. ASSUME NEW t \in fresh PROVE Link(t)' = Edge(n, out[t[2]][1])
  <2>1. hops'[t[1]] = <<n, out>>
    BY <1>2
  <2>2. hops'[t[1]][1] = n /\ hops'[t[1]][2][t[2]][1] = out[t[2]][1]
    BY <2>1
  <2>3. Link(t)' = Edge(hops'[t[1]][1], hops'[t[1]][2][t[2]][1])
    BY Zenon DEF Link, Edge
  <2> QED
    BY <2>2, <2>3
<1>11. IsFiniteSet(fresh) /\ Cardinality(fresh) = Len(out)
  <2> DEFINE A == {L + 1}
             B == 1..Len(out)
             m == Len(out)
  <2>1. IsFiniteSet(A) /\ Cardinality(A) = 1
    BY FS_Singleton
  <2>2. m \in 0..4 /\ m \in Int /\ 1 \in Int
    OBVIOUS
  <2>3. IsFiniteSet(1..m) /\ Cardinality(1..m) = m
    <3> HIDE DEF m
    <3>1. IsFiniteSet(1..m) /\ Cardinality(1..m) = IF 1 > m THEN 0 ELSE m - 1 + 1
      BY <2>2, FS_Interval, Zenon
    <3> QED
      BY <2>2, <3>1
  <2>4. IsFiniteSet(B) /\ Cardinality(B) = m
    BY <2>3
  <2>5. fresh = A \X B
    OBVIOUS
  <2> HIDE DEF A, B, m, fresh
  <2>6. IsFiniteSet(fresh) /\ Cardinality(fresh) = 1 * m
    BY <2>1, <2>4, <2>5, FS_Product
  <2> QED
    BY <2>2, <2>6 DEF m
<1>12. Traversals \cap fresh = {}
  BY <1>8
<1> HIDE DEF fresh, L
<1>13. /\ IsFiniteSet(Traversals \cup fresh)
       /\ Cardinality(Traversals \cup fresh) = Cardinality(Traversals) + Len(out)
  <2>1. Cardinality(Traversals \cap fresh) = 0
    BY <1>12, FS_EmptySet
  <2>2. Cardinality(Traversals) \in Nat /\ Len(out) \in Nat
    BY FS_CardinalityType
  <2>3. /\ IsFiniteSet(Traversals \cup fresh)
        /\ Cardinality(Traversals \cup fresh)
             = Cardinality(Traversals) + Cardinality(fresh) - Cardinality(Traversals \cap fresh)
    BY <1>11, FS_Union
  <2> QED
    BY <1>11, <2>1, <2>2, <2>3
<1>14. HopCount \in Nat
  BY FS_CardinalityType DEF HopCount
<1>15. IsFiniteSet(Traversals') /\ HopCount' = HopCount + Len(out)
  <2>1. HopCount' = Cardinality(Traversals')
    BY DEF HopCount
  <2> QED
    BY <1>7, <1>13, <2>1 DEF HopCount
<1> QED
  BY <1>2, <1>7, <1>9, <1>10, <1>14, <1>15 DEF fresh, L

LEMMA FiguresInitially == Init => FigureInv
<1> SUFFICES ASSUME Init PROVE FigureInv
  OBVIOUS
<1>1. stack = <<<<source, NoPort>>>> /\ expanded = {} /\ hops = <<>>
  BY DEF Init
<1>2. Traversals = {}
  BY <1>1 DEF Traversals
<1>3. Entries = {<<source, NoPort>>} /\ Len(stack) = 1
  BY <1>1 DEF Entries
<1>4. HopCount = 0 /\ IsFiniteSet(Traversals) /\ Cardinality(expanded) = 0
  BY <1>1, <1>2, FS_EmptySet DEF HopCount
<1> QED
  BY <1>1, <1>2, <1>3, <1>4 DEF FigureInv, HopsCounted, OverLinks, CrossedLinks

(* The first arrival at a node uses a link for each entry of its egress,   *)
(* and the one it came over has been used.                                 *)
LEMMA ExpandFigures == WalkInv /\ CycleInv /\ FigureInv /\ Expand => FigureInv'
<1> SUFFICES ASSUME WalkInv, CycleInv, FigureInv, Expand PROVE FigureInv'
  OBVIOUS
<1> DEFINE out == Egress(Top, Ingress)
           L == Len(hops) + 1
           fresh == {L} \X (1..Len(out))
<1>1. /\ expanded' = expanded \cup {Top} /\ revisits' = revisits
      /\ hops' = Append(hops, <<Top, out>>) /\ stack' = out \o Tail(stack) /\ stack # <<>>
      /\ pass' = pass /\ land' = land /\ source' = source
  BY DEF Expand, bitmap
<1>2. /\ IsFiniteSet(Traversals) /\ HopsCounted /\ OverLinks /\ CrossedLinks /\ HopsOK
      /\ pass \in SUBSET Nodes /\ expanded \in SUBSET pass /\ source \in pass
      /\ OnceOnStack /\ Begun
  BY DEF FigureInv, CycleInv, WalkInv, BitmapOK, TypeOK
<1>3. /\ Head(stack) \in Entries /\ Head(stack)[1] = Top /\ Head(stack)[2] = Ingress
      /\ Top \in pass /\ Top \in Nodes /\ Top \notin expanded
      /\ out \in Seq(pass \X pass)
      /\ Entries' = Sending(Entries, Head(stack))
  BY <1>2, ExpandEntries
<1>4. /\ out \in Seq((Neighbours(Top) \cap pass) \X {Top})
      /\ Range(out) = SentTo(Neighbours(Top), Top, Ingress)
      /\ Len(out) \in 0..4
  BY EgressEntries, EgressSize
<1>5. DOMAIN out = 1..Len(out) /\ \A j \in 1..Len(out) : out[j][1] \in Neighbours(Top) \cap pass
  BY <1>4
<1>6. /\ Traversals' = Traversals \cup fresh
      /\ \A t \in Traversals : Link(t)' = Link(t)
      /\ \A t \in fresh : Link(t)' = Edge(Top, out[t[2]][1])
      /\ IsFiniteSet(Traversals') /\ HopCount \in Nat /\ HopCount' = HopCount + Len(out)
  <2> HIDE DEF out
  <2> QED
    BY <1>1, <1>2, <1>3, <1>4, HopTraversals
<1>7. HopsCounted'
  <2> SUFFICES ASSUME revisits = {}
               PROVE  HopCount' + 1 = Cardinality(expanded') + Len(stack')
    BY <1>1 DEF HopsCounted
  <2>1. HopCount + 1 = Cardinality(expanded) + Len(stack)
    BY <1>2 DEF HopsCounted
  <2>2. Cardinality(expanded') = Cardinality(expanded) + 1 /\ Cardinality(expanded) \in Nat
    <3>1. expanded \in SUBSET Nodes
      BY <1>2
    <3> QED
      BY <1>1, <1>3, <3>1, FiniteParts, FS_AddElement
  <2>3. Len(stack') = Len(out) + Len(stack) - 1 /\ Len(stack) \in Nat
    <3> DEFINE E == pass \X (Nodes \cup {NoPort})
    <3>1. stack \in Seq(E) /\ out \in Seq(E)
      <4>1. pass \X pass \subseteq E
        BY <1>2
      <4> QED
        BY <1>3, <4>1, SeqMonotonic DEF WalkInv, TypeOK
    <3> HIDE DEF E, out
    <3>2. Tail(stack) \in Seq(E) /\ Len(Tail(stack)) = Len(stack) - 1 /\ Len(stack) \in Nat
      BY <1>1, <3>1, HeadTailProperties, EmptySeq
    <3>3. Len(out \o Tail(stack)) = Len(out) + Len(Tail(stack))
      BY <3>1, <3>2, ConcatProperties
    <3> QED
      BY <1>1, <1>4, <3>2, <3>3
  <2>4. HopCount' = HopCount + Len(out) /\ HopCount \in Nat /\ Len(out) \in Nat
    BY <1>4, <1>6
  <2> HIDE DEF out
  <2> QED
    BY <2>1, <2>2, <2>3, <2>4
<1>8. Reachable' = Reachable
  BY <1>1 DEF Reachable, Component, Closed, Neighbours, North, West, East, South, RowOf, ColOf
<1>9. OverLinks'
  <2> SUFFICES ASSUME NEW t \in Traversals' PROVE Link(t)' \in InducedEdges(Reachable)
    BY <1>8 DEF OverLinks, InducedEdges, Neighbours, North, West, East, South, RowOf, ColOf
  <2>1. CASE t \in Traversals
    BY <1>2, <1>6, <2>1 DEF OverLinks
  <2>2. CASE t \in fresh
    <3> DEFINE m == out[t[2]][1]
    <3>1. t[2] \in 1..Len(out)
      BY <2>2
    <3>2. m \in Neighbours(Top) \cap pass
      BY <1>5, <3>1
    <3> HIDE DEF m
    <3>3. Top \in Reachable
      BY <1>3 DEF WalkInv, Inside, EntryNodes
    <3>4. m \in Reachable /\ m \in Nodes /\ Reachable \in SUBSET Nodes
      <4>1. Reachable \subseteq pass
        BY DEF Reachable, Component
      <4> QED
        BY <1>2, <3>2, <3>3, <4>1, ComponentFacts DEF Reachable
    <3>5. Edge(Top, m) \in InducedEdges(Reachable)
      BY <1>2, <1>3, <3>2, <3>3, <3>4, EdgeListed
    <3> QED
      BY <1>6, <2>2, <3>5 DEF m
  <2> QED
    BY <1>6, <2>1, <2>2
<1>10. ASSUME NEW a, NEW b, Crossed(a, b) PROVE Crossed(a, b)'
  <2>1. PICK t \in Traversals : Link(t) = Edge(a, b)
    BY <1>10 DEF Crossed
  <2>2. t \in Traversals' /\ Link(t)' = Edge(a, b)
    BY <1>6, <2>1
  <2> QED
    BY <2>2 DEF Crossed, Edge
<1>11. ASSUME NEW n, n = Top, NEW m \in Neighbours(n) \cap pass, m # Ingress
       PROVE  Crossed(n, m)'
  <2>1. <<m, Top>> \in Range(out)
    BY <1>4, <1>11 DEF SentTo
  <2>2. PICK j \in 1..Len(out) : out[j] = <<m, Top>>
    BY <1>5, <2>1 DEF Range
  <2>3. PICK t \in fresh : t[2] = j
    <3>1. <<L, j>> \in fresh /\ <<L, j>>[2] = j
      OBVIOUS
    <3> QED
      BY <3>1
  <2>4. Link(t)' = Edge(n, m) /\ t \in Traversals'
    BY <1>6, <1>11, <2>2, <2>3
  <2> QED
    BY <2>4 DEF Crossed, Edge
<1>12. ASSUME NEW e \in Entries', e[2] # NoPort PROVE Crossed(e[2], e[1])'
  <2>1. CASE e \in Entries
    BY <1>2, <1>10, <1>12, <2>1 DEF CrossedLinks
  <2>2. CASE e \in SentTo(Neighbours(Top), Top, Ingress)
    <3>1. e[2] = Top /\ e[1] \in Neighbours(e[2]) \cap pass /\ e[1] # Ingress
      BY <2>2 DEF SentTo
    <3> QED
      BY <1>11, <3>1
  <2> QED
    BY <1>3, <1>12, <2>1, <2>2 DEF Sending
<1>13. ASSUME NEW n \in expanded', NEW m \in Neighbours(n) \cap pass PROVE Crossed(n, m)'
  <2>1. CASE n \in expanded
    BY <1>2, <1>10, <2>1 DEF CrossedLinks
  <2>2. CASE n = Top /\ m # Ingress
    BY <1>11, <2>2
  <2>3. CASE n = Top /\ m = Ingress
    <3>1. m # NoPort /\ m \in Nodes /\ n \in Nodes
      <4>1. m \in Nodes /\ n \in Nodes
        BY <1>2, <1>3, <2>3
      <4>2. NoPort \notin Nodes
        BY DEF Nodes, NoPort
      <4> QED
        BY <4>1, <4>2
    <3>2. Crossed(m, n)
      BY <1>2, <1>3, <2>3, <3>1 DEF CrossedLinks
    <3>3. Edge(m, n) = Edge(n, m)
      BY <3>1, EdgeListed
    <3>4. Crossed(n, m)
      BY <3>2, <3>3 DEF Crossed
    <3> QED
      BY <1>10, <3>4
  <2> QED
    BY <1>1, <2>1, <2>2, <2>3
<1>14. CrossedLinks'
  <2>1. \A n : (Neighbours(n) \cap pass)' = Neighbours(n) \cap pass
    BY <1>1 DEF Neighbours, North, West, East, South, RowOf, ColOf
  <2>2. NoPort' = NoPort
    BY DEF NoPort
  <2> QED
    BY <1>12, <1>13, <2>1, <2>2 DEF CrossedLinks
<1> QED
  BY <1>6, <1>7, <1>9, <1>14 DEF FigureInv

(* A repeated arrival uses no link.                                        *)
LEMMA RevisitFigures == WalkInv /\ CycleInv /\ FigureInv /\ Revisit => FigureInv'
<1> SUFFICES ASSUME WalkInv, CycleInv, FigureInv, Revisit PROVE FigureInv'
  OBVIOUS
<1>1. /\ expanded' = expanded /\ revisits' = revisits \cup {Top}
      /\ hops' = Append(hops, <<Top, <<>>>>) /\ stack' = Tail(stack) /\ stack # <<>>
      /\ pass' = pass /\ land' = land /\ source' = source
  BY DEF Revisit, bitmap
<1>2. /\ IsFiniteSet(Traversals) /\ OverLinks /\ CrossedLinks /\ HopsOK
  BY DEF FigureInv, CycleInv
<1>3. Entries' \subseteq Entries
  <2>1. Entries = {Head(stack)} \cup Range(Tail(stack))
    BY <1>1, TopOfStack
  <2> QED
    BY <1>1, <2>1 DEF Entries, Range
<1>4. /\ Traversals' = Traversals /\ IsFiniteSet(Traversals')
      /\ \A t \in Traversals : Link(t)' = Link(t)
  <2> DEFINE none == <<>>
  <2>1. none \in Seq(pass \X pass) /\ Len(none) = 0 /\ Len(none) \in 0..4
    OBVIOUS
  <2>2. hops' = Append(hops, <<Top, none>>)
    BY <1>1
  <2> HIDE DEF none
  <2>3. /\ Traversals' = Traversals \cup ({Len(hops) + 1} \X (1..Len(none)))
        /\ \A t \in Traversals : Link(t)' = Link(t)
        /\ IsFiniteSet(Traversals')
    BY <1>2, <2>1, <2>2, HopTraversals
  <2>4. {Len(hops) + 1} \X (1..Len(none)) = {}
    BY <2>1
  <2> QED
    BY <2>3, <2>4
<1>5. HopsCounted'
  BY <1>1 DEF HopsCounted
<1>6. Reachable' = Reachable
  BY <1>1 DEF Reachable, Component, Closed, Neighbours, North, West, East, South, RowOf, ColOf
<1>7. OverLinks'
  BY <1>2, <1>4, <1>6
  DEF OverLinks, InducedEdges, Neighbours, North, West, East, South, RowOf, ColOf
<1>8. ASSUME NEW a, NEW b, Crossed(a, b) PROVE Crossed(a, b)'
  BY <1>4, <1>8 DEF Crossed, Edge
<1>9. CrossedLinks'
  <2>1. \A n : (Neighbours(n) \cap pass)' = Neighbours(n) \cap pass
    BY <1>1 DEF Neighbours, North, West, East, South, RowOf, ColOf
  <2>2. NoPort' = NoPort
    BY DEF NoPort
  <2> QED
    BY <1>1, <1>2, <1>3, <1>8, <2>1, <2>2 DEF CrossedLinks
<1> QED
  BY <1>4, <1>5, <1>7, <1>9 DEF FigureInv

THEOREM FigureInvariant == Spec => []FigureInv
<1>1. FigureInv /\ UNCHANGED vars => FigureInv'
  <2> SUFFICES ASSUME FigureInv, UNCHANGED vars PROVE FigureInv'
    OBVIOUS
  <2>1. /\ pass' = pass /\ land' = land /\ source' = source /\ stack' = stack
        /\ expanded' = expanded /\ landings' = landings /\ revisits' = revisits /\ hops' = hops
    BY DEF vars, bitmap
  <2>2. /\ Entries' = Entries /\ Traversals' = Traversals /\ HopCount' = HopCount
        /\ \A t : Link(t)' = Link(t)
        /\ \A a, b : Crossed(a, b)' <=> Crossed(a, b)
    BY <2>1 DEF Entries, Traversals, HopCount, Link, Crossed, Edge
  <2>3. Reachable' = Reachable /\ \A n : Neighbours(n)' = Neighbours(n)
    BY <2>1 DEF Reachable, Component, Closed, Neighbours, North, West, East, South, RowOf, ColOf
  <2>4. HopsCounted' /\ OverLinks'
    BY <2>1, <2>2, <2>3 DEF FigureInv, HopsCounted, OverLinks, InducedEdges
  <2>5. CrossedLinks'
    BY <2>1, <2>2, <2>3 DEF FigureInv, CrossedLinks, NoPort
  <2> QED
    BY <2>2, <2>4, <2>5 DEF FigureInv
<1> QED
  BY <1>1, FiguresInitially, ExpandFigures, RevisitFigures, WalkInvariant, CycleInvariant,
     PTL DEF Spec, Next

(* When a walk ends clean its hops are the links of the tree.              *)
LEMMA CleanFigures ==
  ASSUME WalkInv, CycleInv, FigureInv, Ended, IsCleanTreeWalk
  PROVE  /\ HopCount \in Nat /\ HopCount + 1 = Cardinality(Reachable)
         /\ \A e \in InducedEdges(Reachable) : LinkLoad(e) = 1
<1> DEFINE R == Reachable
           EdgesOfR == InducedEdges(Reachable)
           f == [t \in Traversals |-> Link(t)]
<1>1. /\ expanded = R /\ R \in SUBSET Nodes /\ revisits = {}
      /\ Cardinality(EdgesOfR) + 1 = Cardinality(R)
  BY WalkEnd
<1>2. /\ IsFiniteSet(Traversals) /\ HopsCounted /\ OverLinks /\ CrossedLinks
  BY DEF FigureInv
<1>3. /\ HopCount = Cardinality(Traversals) /\ HopCount \in Nat
      /\ IsFiniteSet(EdgesOfR) /\ Cardinality(EdgesOfR) \in Nat /\ Cardinality(R) \in Nat
  BY <1>1, <1>2, FiniteParts, FS_CardinalityType DEF HopCount
<1>4. HopCount + 1 = Cardinality(R) /\ Cardinality(Traversals) = Cardinality(EdgesOfR)
  <2>1. Len(stack) = 0
    BY DEF Ended
  <2> QED
    BY <1>1, <1>2, <1>3, <2>1 DEF HopsCounted
<1>5. f \in [Traversals -> EdgesOfR]
  BY <1>2 DEF OverLinks
<1>6. \A e \in EdgesOfR : \E t \in Traversals : f[t] = e
  <2> SUFFICES ASSUME NEW e \in EdgesOfR PROVE \E t \in Traversals : Link(t) = e
    OBVIOUS
  <2>1. PICK k \in R, m \in R : m \in Neighbours(k) /\ e = Edge(k, m)
    BY <1>1, LinkEnds
  <2>2. R \subseteq pass
    BY DEF Reachable, Component
  <2>3. Crossed(k, m)
    BY <1>1, <1>2, <2>1, <2>2 DEF CrossedLinks
  <2> QED
    BY <2>1, <2>3 DEF Crossed
<1>7. f \in Injection(Traversals, EdgesOfR)
  <2>1. f \in Surjection(Traversals, EdgesOfR)
    BY <1>5, <1>6 DEF Surjection
  <2> HIDE DEF f, EdgesOfR
  <2> QED
    BY <1>2, <1>3, <1>4, <2>1, FS_SurjSameCardinalityImpliesInj
<1>8. ASSUME NEW e \in EdgesOfR PROVE LinkLoad(e) = 1
  <2>1. PICK t \in Traversals : f[t] = e
    BY <1>6
  <2>2. \A u \in Traversals : Link(u) = e => u = t
    BY <1>7, <2>1 DEF Injection, IsInjective
  <2>3. {u \in Traversals : Link(u) = e} = {t}
    BY <2>1, <2>2
  <2>4. Cardinality({u \in Traversals : Link(u) = e}) = 1
    BY <2>3, FS_Singleton
  <2> QED
    BY <2>4 DEF LinkLoad
<1> QED
  BY <1>3, <1>4, <1>8

(* On every mesh and bitmap: a walk that ends clean has used every link of *)
(* the tree once, whatever order its worklist took.                        *)
THEOREM EachLinkOnce ==
  Spec => [](Ended /\ IsCleanTreeWalk => \A e \in InducedEdges(Reachable) : LinkLoad(e) = 1)
<1>1. WalkInv /\ CycleInv /\ FigureInv =>
        (Ended /\ IsCleanTreeWalk => \A e \in InducedEdges(Reachable) : LinkLoad(e) = 1)
  BY CleanFigures
<1> QED
  BY <1>1, WalkInvariant, CycleInvariant, FigureInvariant, PTL

------------------------------------------------------------------------------
(* Sends. *)


\* The nodes a flit has arrived at.
Visited == {n \in Nodes : arrived[n] # 0}

Idle == outcome = NoOutcome /\ flits = {} /\ arrived = [n \in Nodes |-> 0] /\ carried = 0

\* Nothing has arrived yet, or the flits in flight lead from visited nodes to
\* new ones, and to all that are missing.
Advancing ==
  IF Visited = {}
  THEN flits = {<<source, NoPort>>}
  ELSE /\ Linked(Visited, flits) /\ Spans(Visited) /\ ~Again(Visited, flits)
       /\ source \in Visited
       /\ \A n \in Visited : Neighbours(n) \cap pass \subseteq Visited \cup {f[1] : f \in flits}

\* What the send reported of its rows, from the walk.
Reported ==
  /\ outcome.plan \in Plans /\ LegalSend(outcome.plan)
  /\ outcome.flits = outcome.plan.rows * FlitCount(outcome.plan.rowBytes, Cardinality(Nodes))
  /\ outcome.hops = FlitHops(outcome.plan)
  /\ outcome.presented = outcome.plan.rows *
       Cardinality({i \in DOMAIN landings : landings[i] # source \/ outcome.plan.selfDelivery})

Crossing == /\ Reported
            /\ Ended /\ IsCleanTreeWalk
            /\ arrived \in [Nodes -> {0, 1}] /\ Visited \subseteq Reachable
            /\ Advancing
            /\ IsFiniteSet(flits) /\ carried \in Nat
            /\ carried + 1 = Cardinality(Visited) + Cardinality(flits)

FromSets == land \subseteq pass

SendInv == FromSets /\ (Idle \/ Crossing)

------------------------------------------------------------------------------
(* A send runs the walk and nothing else touches it.                       *)
LEMMA SendIsWalk == SendSpec => Spec
<1>1. SendInit => Init
  BY DEF SendInit
<1>2. [SendNext]_sendVars => [Next]_vars
  BY DEF SendNext, Walk, Inject, Forwarding, Hop, Next, sendVars
<1> QED
  BY <1>1, <1>2, PTL DEF SendSpec, Spec

\* What is known of the walk of a send.
WalkOK == WalkInv /\ CycleInv /\ FigureInv

LEMMA WalkHolds == SendSpec => []WalkOK
<1>1. WalkInv /\ CycleInv /\ FigureInv => WalkOK
  BY DEF WalkOK
<1> QED
  BY <1>1, SendIsWalk, WalkInvariant, CycleInvariant, FigureInvariant, PTL

(* The nodes of the fabric see the same neighbours as the walk.            *)
LEMMA SameMesh ==
  ASSUME NEW n, NEW ingress
  PROVE  InMesh!Egress(n, ingress) = {m \in Neighbours(n) : m \in pass /\ m # ingress}
BY DEF InMesh!Egress, Neighbours, North, West, East, South, RowOf, ColOf,
       InMesh!Neighbours, InMesh!North, InMesh!West, InMesh!East, InMesh!South,
       InMesh!RowOf, InMesh!ColOf

LEMMA NothingReported == Reported => outcome # NoOutcome
<1>1. NoOutcome.plan = NoPlan
  BY DEF NoOutcome
<1> QED
  BY <1>1, PlansAssumption DEF Reported

(* With a clean walk over, the component of the source has no cycle.       *)
LEMMA NoCycleAround ==
  ASSUME WalkOK, Ended, IsCleanTreeWalk
  PROVE  /\ IsAcyclic(Reachable) /\ Reachable \in SUBSET pass /\ pass \in SUBSET Nodes
         /\ source \in Reachable
         /\ \A Y \in SUBSET Reachable : Y # {} => ~Loops(Y)
<1>1. IsAcyclic(Reachable)
  BY WalkEnd DEF WalkOK
<1>2. source \in pass /\ pass \in SUBSET Nodes
  BY DEF WalkOK, WalkInv, BitmapOK
<1>3. source \in Reachable /\ Reachable \subseteq pass
  BY <1>2, ComponentFacts DEF Reachable, Component
<1> QED
  BY <1>1, <1>2, <1>3, NoCycleInside DEF Reachable

------------------------------------------------------------------------------
LEMMA SendInitially == SendInit => SendInv
BY DEF SendInit, SendInv, FromSets, Idle

\* What the invariant says depends on these variables only.
LEMMA SendUnmoved ==
  ASSUME SendInv, UNCHANGED <<vars, outcome, fabric>>
  PROVE  SendInv'
<1>1. /\ pass' = pass /\ land' = land /\ source' = source /\ stack' = stack
      /\ expanded' = expanded /\ landings' = landings /\ revisits' = revisits /\ hops' = hops
      /\ outcome' = outcome /\ flits' = flits /\ arrived' = arrived /\ carried' = carried
  BY DEF vars, bitmap, fabric
<1>2. FromSets' <=> FromSets
  BY <1>1 DEF FromSets
<1>3. Idle' <=> Idle
  BY <1>1 DEF Idle, NoOutcome, Nodes
<1>4. /\ Ended' <=> Ended
      /\ IsCleanTreeWalk' <=> IsCleanTreeWalk
  BY <1>1 DEF Ended, IsCleanTreeWalk, DuplicateNodes, LandNodes
<1>5. HopCount' = HopCount
  BY <1>1 DEF HopCount, Traversals
<1>6. Reported' <=> Reported
  BY <1>1, <1>5 DEF Reported, FlitHops, LegalSend, LegalPlan, LegalHeader, FitsLink, FlitCount,
       PerFlit, HeaderBytes, RouteBytes, EpochBytes, Nodes, ReservedOpcodes, MinTagBits, MaxTagBits
<1>7. Visited' = Visited /\ Reachable' = Reachable
  BY <1>1 DEF Visited, Reachable, Component, Closed, Nodes, Neighbours, North, West, East, South,
       RowOf, ColOf
<1>8. Advancing' <=> Advancing
  BY <1>1, <1>7 DEF Advancing, Linked, Again, Spans, InducedEdges, NoPort, Neighbours, North,
       West, East, South, RowOf, ColOf
<1>9. Crossing' <=> Crossing
  BY <1>1, <1>4, <1>6, <1>7, <1>8 DEF Crossing, Nodes
<1> QED
  BY <1>2, <1>3, <1>9 DEF SendInv

(* An iteration of the walk comes before anything is sent.                 *)
LEMMA WalkKeeps == SendInv /\ Walk => SendInv'
<1> SUFFICES ASSUME SendInv, Walk PROVE SendInv'
  OBVIOUS
<1>1. stack # <<>> /\ pass' = pass /\ land' = land /\ UNCHANGED <<outcome, fabric>>
  BY DEF Walk, Expand, Revisit, bitmap
<1>2. Idle
  BY <1>1 DEF SendInv, Crossing, Ended
<1>3. Idle' /\ FromSets'
  BY <1>1, <1>2 DEF SendInv, FromSets, Idle, fabric, NoOutcome, Nodes
<1> QED
  BY <1>3 DEF SendInv

(* Injection: one flit, and the figures of the clean walk.                 *)
LEMMA InjectKeeps ==
  ASSUME WalkOK, SendInv, NEW p \in Plans, Inject(p)
  PROVE  SendInv'
<1>1. /\ Ended /\ IsCleanTreeWalk /\ outcome = NoOutcome /\ LegalSend(p)
      /\ outcome' = Outcome(p) /\ flits' = {<<source, NoPort>>}
      /\ pass' = pass /\ land' = land /\ source' = source /\ stack' = stack
      /\ expanded' = expanded /\ landings' = landings /\ revisits' = revisits /\ hops' = hops
      /\ arrived' = arrived /\ carried' = carried
  BY DEF Inject, Refused, vars, bitmap
<1>2. Idle /\ FromSets
  BY <1>1, NothingReported DEF SendInv, Crossing
<1>3. FromSets'
  BY <1>1, <1>2 DEF FromSets
<1>4. /\ Ended' <=> Ended
      /\ IsCleanTreeWalk' <=> IsCleanTreeWalk
  BY <1>1 DEF Ended, IsCleanTreeWalk, DuplicateNodes, LandNodes
<1>5. HopCount' = HopCount
  BY <1>1 DEF HopCount, Traversals
<1>6. Reported'
  <2>1. /\ outcome'.plan = p
        /\ outcome'.flits = p.rows * FlitCount(p.rowBytes, Cardinality(Nodes))
        /\ outcome'.hops = FlitHops(p)
        /\ outcome'.presented = p.rows * Cardinality({i \in DOMAIN landings :
                                         landings[i] # source \/ p.selfDelivery})
    BY <1>1 DEF Outcome
  <2>2. FlitHops(p) = HopCount * p.rows * FlitCount(p.rowBytes, Cardinality(Nodes))
    BY DEF FlitHops
  <2>3. FlitHops(outcome.plan)'
          = HopCount * outcome'.plan.rows * FlitCount(outcome'.plan.rowBytes, Cardinality(Nodes))
    BY <1>5 DEF FlitHops, FlitCount, PerFlit, HeaderBytes, RouteBytes, EpochBytes, Nodes
  <2>4. LegalSend(outcome.plan)' <=> LegalSend(outcome'.plan)
    BY DEF LegalSend, LegalPlan, LegalHeader, FitsLink, HeaderBytes, RouteBytes, EpochBytes, Nodes,
           ReservedOpcodes, MinTagBits, MaxTagBits
  <2> QED
    BY <1>1, <2>1, <2>2, <2>3, <2>4
    DEF Reported, FlitCount, PerFlit, HeaderBytes, RouteBytes, EpochBytes, Nodes
<1>7. Visited' = {}
  BY <1>1, <1>2 DEF Visited, Idle, Nodes
<1>8. Advancing'
  BY <1>1, <1>7 DEF Advancing, NoPort
<1>9. arrived' \in [Nodes -> {0, 1}]
  BY <1>1, <1>2 DEF Idle
<1>10. /\ IsFiniteSet(flits') /\ carried' \in Nat
       /\ carried' + 1 = Cardinality(Visited') + Cardinality(flits')
  <2>1. IsFiniteSet(flits') /\ Cardinality(flits') = 1
    BY <1>1, FS_Singleton
  <2>2. Cardinality(Visited') = 0
    BY <1>7, FS_EmptySet
  <2> QED
    BY <1>1, <1>2, <2>1, <2>2 DEF Idle
<1>11. Crossing'
  BY <1>1, <1>4, <1>6, <1>7, <1>8, <1>9, <1>10 DEF Crossing, Nodes
<1> QED
  BY <1>3, <1>11 DEF SendInv

(* A hop of any flit in flight: it arrives at a node that has seen none,   *)
(* and what it sends leads to nodes that have seen none.                   *)
LEMMA HopKeeps ==
  ASSUME WalkOK, SendInv, NEW f \in flits, Hop(f)
  PROVE  SendInv'
<1> DEFINE t == f[1]
           M == {m \in Neighbours(f[1]) : m \in pass /\ m # f[2]}
<1>1. /\ pass' = pass /\ land' = land /\ source' = source /\ stack' = stack
      /\ expanded' = expanded /\ landings' = landings /\ revisits' = revisits /\ hops' = hops
      /\ outcome' = outcome
      /\ arrived' = [arrived EXCEPT ![t] = @ + 1]
      /\ flits' = Sending(flits, f)
      /\ carried' = carried + Cardinality(M)
  <2>1. InMesh!Hop(f) /\ UNCHANGED <<vars, outcome>>
        /\ carried' = carried + Cardinality(InMesh!Egress(f[1], f[2]))
    BY DEF Hop
  <2>2. InMesh!Egress(f[1], f[2]) = M
    BY SameMesh
  <2>3. flits' = (flits \ {f}) \cup {<<m, f[1]>> : m \in M}
    BY <2>1, <2>2 DEF InMesh!Hop
  <2>4. {<<m, f[1]>> : m \in M} = SentTo(Neighbours(f[1]), f[1], f[2])
    BY DEF SentTo
  <2>5. arrived' = [arrived EXCEPT ![t] = @ + 1]
    BY <2>1 DEF InMesh!Hop
  <2> QED
    BY <2>1, <2>2, <2>3, <2>4, <2>5 DEF vars, bitmap, Sending
<1>2. Crossing /\ FromSets
  BY DEF SendInv, Idle
<1>3. /\ Reported /\ Ended /\ IsCleanTreeWalk /\ Advancing
      /\ arrived \in [Nodes -> {0, 1}] /\ Visited \subseteq Reachable
      /\ IsFiniteSet(flits) /\ carried \in Nat
      /\ carried + 1 = Cardinality(Visited) + Cardinality(flits)
  BY <1>2 DEF Crossing
<1>4. /\ IsAcyclic(Reachable) /\ Reachable \in SUBSET pass /\ pass \in SUBSET Nodes
      /\ source \in Reachable
      /\ \A Y \in SUBSET Reachable : Y # {} => ~Loops(Y)
  BY <1>3, NoCycleAround
<1>5. NoPort \notin Nodes
  BY DEF NoPort, Nodes
<1>6. /\ t \in Reachable /\ t \notin Visited
      /\ \A e \in flits : e[2] # t
      /\ Linked(Visited \cup {t}, Sending(flits, f)) /\ Spans(Visited \cup {t})
      /\ ~Again(Visited \cup {t}, Sending(flits, f)) /\ source \in Visited \cup {t}
      /\ f[2] = NoPort \/ f[2] \in Visited
  <2>1. CASE Visited = {}
    <3>1. f = <<source, NoPort>> /\ flits = {f}
      BY <1>3, <2>1 DEF Advancing
    <3>2. t = source /\ Visited \cup {t} = {source} /\ f[2] = NoPort
      BY <2>1, <3>1
    <3>3. /\ Linked({source}, Sending({f}, f)) /\ ~Again({source}, Sending({f}, f))
          /\ Spans({source})
      BY <1>4, <3>1, FirstArrival
    <3>4. source # NoPort
      BY <1>4, <1>5
    <3> QED
      BY <1>4, <2>1, <3>1, <3>2, <3>3, <3>4
  <2>2. CASE Visited # {}
    <3>1. /\ Linked(Visited, flits) /\ Spans(Visited) /\ ~Again(Visited, flits)
          /\ source \in Visited
      BY <1>3, <2>2 DEF Advancing
    <3>2. t \notin Visited /\ t \in pass /\ f[2] \in Visited /\ t \in Neighbours(f[2])
      BY <3>1 DEF Again, Linked
    <3>3. Visited \in SUBSET pass /\ ~Loops(Visited)
      BY <1>3, <1>4, <2>2
    <3>4. t \in Reachable
      BY <1>3, <1>4, <3>2, ComponentFacts DEF Reachable
    <3>5. /\ Linked(Visited \cup {t}, Sending(flits, f)) /\ Spans(Visited \cup {t})
          /\ Loops(Visited \cup {t}) <=> FALSE \/ Again(Visited \cup {t}, Sending(flits, f))
      <4>1. FALSE \in BOOLEAN /\ (Loops(Visited) <=> FALSE \/ Again(Visited, flits))
        BY <3>1, <3>3
      <4> HIDE DEF t
      <4>2. pass \subseteq Nodes /\ f[1] \notin Visited
        BY <1>4, <3>2 DEF t
      <4> QED
        BY <3>1, <3>3, <4>1, <4>2, NewArrival DEF t
    <3>6. ~Loops(Visited \cup {t})
      BY <1>3, <1>4, <3>4
    <3>7. \A e \in flits : e[2] \in Visited
      BY <3>1 DEF Linked
    <3> QED
      BY <3>1, <3>2, <3>4, <3>5, <3>6, <3>7
  <2> QED
    BY <2>1, <2>2
<1>7. Visited' = Visited \cup {t} /\ arrived' \in [Nodes -> {0, 1}]
  <2>1. t \in Nodes /\ arrived[t] = 0
    BY <1>4, <1>6 DEF Visited
  <2>2. \A n \in Nodes : arrived'[n] = IF n = t THEN 1 ELSE arrived[n]
    BY <1>1, <1>3, <2>1
  <2>3. arrived' \in [Nodes -> {0, 1}]
    BY <1>1, <1>3, <2>1, <2>2
  <2>4. Visited' = {n \in Nodes : arrived'[n] # 0}
    BY DEF Visited, Nodes
  <2> QED
    BY <2>1, <2>2, <2>3, <2>4 DEF Visited
<1>8. Reachable' = Reachable /\ \A n : Neighbours(n)' = Neighbours(n)
  BY <1>1 DEF Reachable, Component, Closed, Neighbours, North, West, East, South, RowOf, ColOf
<1>9. ASSUME NEW n \in Visited', NEW m \in Neighbours(n) \cap pass
      PROVE  m \in Visited' \/ \E e \in flits' : e[1] = m
  <2>1. CASE n \in Visited
    <3>1. m \in Visited \cup {e[1] : e \in flits}
      BY <1>3, <2>1 DEF Advancing
    <3>2. CASE m \in Visited
      BY <1>7, <3>2
    <3>3. CASE m \in {e[1] : e \in flits}
      <4>1. PICK e \in flits : e[1] = m
        BY <3>3
      <4>2. CASE e = f
        BY <1>7, <4>1, <4>2
      <4>3. CASE e # f
        BY <1>1, <4>1, <4>3 DEF Sending
      <4> QED
        BY <4>2, <4>3
    <3> QED
      BY <3>1, <3>2, <3>3
  <2>2. CASE n = t /\ m # f[2]
    <3>1. <<m, t>> \in flits' /\ <<m, t>>[1] = m
      BY <1>1, <2>2 DEF Sending, SentTo
    <3> QED
      BY <3>1
  <2>3. CASE n = t /\ m = f[2]
    BY <1>4, <1>5, <1>6, <1>7, <2>3
  <2> QED
    BY <1>7, <2>1, <2>2, <2>3
<1>10. Advancing'
  <2>1. Visited' # {}
    BY <1>7
  <2>2. /\ Linked(Visited', flits') /\ Spans(Visited') /\ ~Again(Visited', flits')
        /\ source \in Visited'
    BY <1>1, <1>6, <1>7
  <2>3. /\ Linked(Visited, flits)' <=> Linked(Visited', flits')
        /\ Spans(Visited)' <=> Spans(Visited')
        /\ Again(Visited, flits)' <=> Again(Visited', flits')
    BY <1>1, <1>8 DEF Linked, Spans, Again, InducedEdges
  <2>4. \A n \in Visited' : (Neighbours(n) \cap pass)' \subseteq Visited' \cup {e[1] : e \in flits'}
    BY <1>1, <1>8, <1>9
  <2> QED
    BY <1>1, <2>1, <2>2, <2>3, <2>4 DEF Advancing
<1>11. /\ IsFiniteSet(flits') /\ carried' \in Nat
       /\ carried' + 1 = Cardinality(Visited') + Cardinality(flits')
  <2>1. /\ IsFiniteSet(Sending(flits, f)) /\ Cardinality(M) \in Nat /\ Cardinality(flits) \in Nat
        /\ Cardinality(Sending(flits, f)) + 1 = Cardinality(flits) + Cardinality(M)
    BY <1>3, <1>4, <1>6, SendingCount
  <2>2. Cardinality(Visited') = Cardinality(Visited) + 1 /\ Cardinality(Visited) \in Nat
    <3>1. Visited \in SUBSET Nodes
      BY DEF Visited
    <3> HIDE DEF t
    <3> QED
      BY <1>6, <1>7, <3>1, FiniteParts, FS_AddElement
  <2>3. flits' = Sending(flits, f) /\ carried' = carried + Cardinality(M)
    BY <1>1
  <2>4. carried + 1 = Cardinality(Visited) + Cardinality(flits) /\ carried \in Nat
    BY <1>3
  <2> DEFINE d == Cardinality(M)
             a == Cardinality(Visited)
             b == Cardinality(flits)
             c == Cardinality(Sending(flits, f))
  <2>5. /\ a \in Nat /\ b \in Nat /\ d \in Nat /\ c + 1 = b + d /\ carried + 1 = a + b
        /\ c \in Int
    <3>1. c \in Nat
      BY <2>1, FS_CardinalityType
    <3> QED
      BY <2>1, <2>2, <2>4, <3>1
  <2> HIDE DEF a, b, c, d
  <2>6. carried + d \in Nat /\ (carried + d) + 1 = (a + 1) + c
    BY <2>4, <2>5
  <2> QED
    BY <2>1, <2>2, <2>3, <2>6 DEF a, b, c, d
<1>12. /\ Ended' <=> Ended
       /\ IsCleanTreeWalk' <=> IsCleanTreeWalk
  BY <1>1 DEF Ended, IsCleanTreeWalk, DuplicateNodes, LandNodes
<1>13. Reported'
  <2>1. HopCount' = HopCount
    BY <1>1 DEF HopCount, Traversals
  <2> QED
    BY <1>1, <1>3, <2>1 DEF Reported, FlitHops, LegalSend, LegalPlan, LegalHeader, FitsLink,
       FlitCount, PerFlit, HeaderBytes, RouteBytes, EpochBytes, Nodes, ReservedOpcodes,
       MinTagBits, MaxTagBits
<1>14. Visited' \subseteq Reachable'
  BY <1>3, <1>6, <1>7, <1>8
<1>15. Crossing'
  BY <1>3, <1>7, <1>10, <1>11, <1>12, <1>13, <1>14 DEF Crossing, Nodes
<1>16. FromSets'
  BY <1>1, <1>2 DEF FromSets
<1> QED
  BY <1>15, <1>16 DEF SendInv

THEOREM SendInvariant == SendSpec => []SendInv
<1>1. SendInv /\ UNCHANGED sendVars => SendInv'
  BY SendUnmoved DEF sendVars
<1>2. WalkOK /\ SendInv /\ [SendNext]_sendVars => SendInv'
  BY <1>1, WalkKeeps, InjectKeeps, HopKeeps DEF SendNext, Forwarding
<1> QED
  BY <1>2, SendInitially, WalkHolds, PTL DEF SendSpec

------------------------------------------------------------------------------
(* For every mesh, bitmap, source and group: a row that the checks of the  *)
(* table let pass (Mesh!Accepted) is one whose walk is clean, and it lands *)
(* on the destinations of its group.  Noc.send never refuses what          *)
(* validate_route_bits accepted, although the two look at different        *)
(* things: one counts links, the other meets repeats.                      *)
THEOREM AcceptedRowsAreClean == SendSpec => []AcceptedIsClean
<1>1. ASSUME WalkOK, SendInv PROVE AcceptedIsClean
  <2> SUFFICES ASSUME Ended, NEW d \in BOOLEAN,
                      Accepted(pass, land, source, land \cup {source}, d)
               PROVE  IsCleanTreeWalk /\ LandNodes = Expected(land \cup {source}, source, d)
    BY DEF AcceptedIsClean
  <2> DEFINE want == Expected(land \cup {source}, source, d)
  <2>1. PathErrors(pass, source) = {} /\ LandErrors(land, source, want, Cardinality(land), d) = {}
    BY DEF Accepted
  <2>2. IsConnected(pass) /\ IsAcyclic(pass)
    BY <2>1 DEF PathErrors
  <2>3. land = want
    BY <2>1 DEF LandErrors
  <2>4. source \in pass /\ pass \in SUBSET Nodes /\ land \subseteq pass
    BY <1>1 DEF WalkOK, WalkInv, BitmapOK, SendInv, FromSets
  <2>5. Reachable = pass
    <3>1. \A n \in pass : n \in Component(pass, n) /\ Component(pass, n) \subseteq pass
      BY ComponentFacts DEF Component
    <3>2. IsFiniteSet(Components(pass))
      <4>1. IsFiniteSet(SUBSET pass)
        BY <2>4, FiniteParts, FS_SUBSET
      <4>2. Components(pass) \subseteq SUBSET pass
        BY <3>1 DEF Components
      <4> QED
        BY <4>1, <4>2, FS_Subset
    <3>3. PICK C : Components(pass) = {C}
      BY <2>2, <3>2, FS_Singleton DEF IsConnected
    <3>4. \A n \in pass : Component(pass, n) = C
      BY <3>3 DEF Components
    <3>5. Reachable = C
      BY <2>4, <3>4 DEF Reachable
    <3> QED
      BY <2>4, <3>1, <3>4, <3>5
  <2>6. IsCleanTreeWalk /\ LandNodes = land \cap Reachable
    BY <1>1, <2>2, <2>5, WalkEnd DEF WalkOK
  <2> QED
    BY <2>3, <2>4, <2>5, <2>6
<1> QED
  BY <1>1, WalkHolds, SendInvariant, PTL

(* Contract 5 at the fabric, for every mesh, bitmap and source: whatever   *)
(* order the nodes forward in, no node sees two copies of a flit of a send *)
(* that was not refused.                                                   *)
THEOREM OneCopyEverywhere == SendSpec => []OneCopy
<1>1. SendInv => OneCopy
  BY DEF SendInv, Idle, Crossing, OneCopy
<1> QED
  BY <1>1, SendInvariant, PTL

(* What is left when no flit is in flight: every node of the component has *)
(* seen the flit.                                                          *)
LEMMA AllVisited ==
  ASSUME WalkOK, SendInv, Quiet
  PROVE  /\ Crossing /\ Visited = Reachable
         /\ \A n \in Nodes : arrived[n] = 1 <=> n \in Reachable
<1>1. outcome # NoOutcome /\ flits = {}
  BY DEF Quiet, Sent
<1>2. Crossing
  BY <1>1 DEF SendInv, Idle
<1>3. /\ Visited # {} /\ source \in Visited
      /\ \A n \in Visited : Neighbours(n) \cap pass \subseteq Visited
  BY <1>1, <1>2 DEF Crossing, Advancing
<1>4. Visited \subseteq Reachable /\ Reachable \subseteq pass /\ source \in pass
  BY <1>2 DEF Crossing, Reachable, Component, WalkOK, WalkInv, BitmapOK
<1>5. Closed(pass, Visited)
  BY <1>3 DEF Closed
<1>6. Reachable \subseteq Visited
  BY <1>3, <1>4, <1>5, ComponentFacts DEF Reachable
<1>7. \A n \in Nodes : arrived[n] \in {0, 1}
  BY <1>2 DEF Crossing
<1> QED
  BY <1>2, <1>4, <1>6, <1>7 DEF Visited

(* For every mesh, bitmap and source, validated or not: once the flits of  *)
(* a send that was not refused have come to rest, the nodes that committed *)
(* the payload are those the walk credited.  That they do come to rest is  *)
(* Delivers, which is a liveness property.                                 *)
THEOREM RestsWhereCredited ==
  SendSpec => [](Quiet => \A n \in Nodes : arrived[n] = 1 /\ n \in land <=> n \in LandNodes)
<1>1. ASSUME WalkOK, SendInv, Quiet
      PROVE  \A n \in Nodes : arrived[n] = 1 /\ n \in land <=> n \in LandNodes
  <2>1. Crossing /\ \A n \in Nodes : arrived[n] = 1 <=> n \in Reachable
    BY <1>1, AllVisited
  <2>2. LandNodes = land \cap Reachable
    BY <1>1, <2>1, WalkEnd DEF WalkOK, Crossing
  <2> QED
    BY <2>1, <2>2
<1> QED
  BY <1>1, WalkHolds, SendInvariant, PTL

(* The number of flits of a row is a number.                               *)
LEMMA FlitCountType ==
  ASSUME NEW p \in Plans, LegalSend(p)
  PROVE  p.rows \in Nat /\ FlitCount(p.rowBytes, Cardinality(Nodes)) \in Int
<1> DEFINE N == Cardinality(Nodes)
<1>1. /\ p.rows \in Nat /\ p.rowBytes \in Nat
  BY PlansAssumption DEF LegalSend, LegalPlan
<1>2. N \in Nat
  <2>1. Nodes \in SUBSET Nodes
    OBVIOUS
  <2> QED
    BY <2>1, FiniteParts
<1>3. CASE p.rowBytes = 0
  BY <1>1, <1>3 DEF FlitCount
<1>4. CASE p.rowBytes # 0
  <2>1. FitsLink(N) /\ TagBits \in Nat /\ LinkWidth \in Int
    BY <1>1, <1>4, FlitAssumption DEF LegalSend
  <2>2. RouteBytes(N) \in Int /\ EpochBytes \in Int
    BY <1>2, <2>1 DEF RouteBytes, EpochBytes
  <2>3. HeaderBytes(N) \in Int
    BY <2>2 DEF HeaderBytes
  <2>4. PerFlit(N) \in Nat \ {0}
    BY <2>1, <2>3 DEF PerFlit, FitsLink
  <2> DEFINE q == PerFlit(N)
  <2>5. (p.rowBytes + q - 1) \in Int /\ q \in Nat \ {0}
    BY <1>1, <2>4
  <2>6. FlitCount(p.rowBytes, N) = (p.rowBytes + q - 1) \div q
    BY <1>4 DEF FlitCount
  <2> HIDE DEF q
  <2>7. ((p.rowBytes + q - 1) \div q) \in Int
    BY <2>5
  <2> QED
    BY <1>1, <2>6, <2>7
<1> QED
  BY <1>1, <1>3, <1>4

(* For every mesh, bitmap, source and plan: the hops that Noc.send enters  *)
(* into the drain windows are those the fabric carries, one per flit and   *)
(* link of the tree, and what it presents to the ledgers is what commits   *)
(* at the nodes.                                                           *)
THEOREM FiguresOfTheFabric == SendSpec => []FiguresAreCarried
<1>1. ASSUME WalkOK, SendInv PROVE FiguresAreCarried
  <2> DEFINE p == outcome.plan
             seen == {n \in Nodes : InMesh!Landed(n) = 1 /\ (n # source \/ p.selfDelivery)}
             shown == {i \in DOMAIN landings : landings[i] # source \/ p.selfDelivery}
  <2> SUFFICES ASSUME Quiet
               PROVE  /\ outcome.hops = carried * outcome.flits
                      /\ \A e \in InducedEdges(Reachable) : LinkLoad(e) = 1
                      /\ outcome.presented = p.rows * Cardinality(seen)
    BY DEF FiguresAreCarried
  <2>1. /\ Crossing /\ Visited = Reachable /\ flits = {}
        /\ \A n \in Nodes : arrived[n] = 1 <=> n \in Reachable
    BY <1>1, AllVisited DEF Quiet
  <2>2. Reported /\ Ended /\ IsCleanTreeWalk /\ carried \in Nat
        /\ carried + 1 = Cardinality(Visited) + Cardinality(flits)
    BY <2>1 DEF Crossing
  <2>3. /\ HopCount \in Nat /\ HopCount + 1 = Cardinality(Reachable)
        /\ \A e \in InducedEdges(Reachable) : LinkLoad(e) = 1
    BY <1>1, <2>2, CleanFigures DEF WalkOK
  <2>4. HopCount = carried
    <3>1. Cardinality(flits) = 0
      BY <2>1, FS_EmptySet
    <3> QED
      BY <2>1, <2>2, <2>3, <3>1
  <2>5. outcome.hops = carried * outcome.flits
    <3> DEFINE k == FlitCount(p.rowBytes, Cardinality(Nodes))
               r == p.rows
    <3>1. r \in Nat /\ k \in Int
      BY <2>2, FlitCountType DEF Reported
    <3>2. outcome.hops = HopCount * r * k /\ outcome.flits = r * k
      BY <2>2 DEF Reported, FlitHops
    <3> HIDE DEF k, r
    <3>3. (carried * r) * k = carried * (r * k)
      BY <2>2, <3>1
    <3> QED
      BY <2>4, <3>2, <3>3
  <2>6. Cardinality(shown) = Cardinality(seen)
    <3> DEFINE g == [i \in shown |-> landings[i]]
    <3>1. /\ Distinct(landings) /\ landings \in Seq(land)
          /\ LandNodes = land \cap Reachable /\ Reachable \subseteq Nodes
      <4>1. revisits = {} /\ LandNodes = land \cap Reachable /\ Reachable \subseteq Nodes
        BY <1>1, <2>2, WalkEnd DEF WalkOK
      <4> QED
        BY <1>1, <4>1 DEF WalkOK, CycleInv, LandedOnce, WalkInv, TypeOK
    <3>2. \A n \in Nodes : InMesh!Landed(n) = 1 <=> n \in LandNodes
      BY <2>1, <3>1 DEF InMesh!Landed
    <3>3. \A i \in shown : landings[i] \in seen
      BY <3>1, <3>2 DEF LandNodes
    <3>4. \A n \in seen : \E i \in shown : landings[i] = n
      BY <3>2 DEF LandNodes
    <3>5. \A i, j \in shown : landings[i] = landings[j] => i = j
      BY <3>1 DEF Distinct
    <3>6. IsFiniteSet(seen)
      <4>1. seen \in SUBSET Nodes
        OBVIOUS
      <4> HIDE DEF seen
      <4> QED
        BY <4>1, FiniteParts
    <3> HIDE DEF seen, shown
    <3> QED
      BY <3>3, <3>4, <3>5, <3>6, SameSize
  <2>7. outcome.presented = p.rows * Cardinality(shown)
    BY <2>2 DEF Reported
  <2> QED
    BY <2>3, <2>5, <2>6, <2>7
<1> QED
  BY <1>1, WalkHolds, SendInvariant, PTL

------------------------------------------------------------------------------
(* Every nonempty set of naturals has a least element.                     *)
LEMMA LeastElement ==
  ASSUME NEW T, T \subseteq Nat, T # {}
  PROVE  \E x \in T : \A y \in T : x <= y
<1>1. PICK x \in T : \A y \in T : ~ (<<y, x>> \in OpToRel(<, Nat))
  BY NatLessThanWellFounded, WFMin
<1>2. \A y \in T : y \in Nat /\ x \in Nat
  OBVIOUS
<1>3. \A y \in T : ~(y < x)
  BY <1>1, <1>2 DEF OpToRel
<1> QED
  BY <1>2, <1>3

(* A set with zero and the successor of each of its numbers has them all.  *)
LEMMA Induction ==
  ASSUME NEW P, 0 \in P, \A n \in Nat : n \in P => n + 1 \in P
  PROVE  \A n \in Nat : n \in P
<1> SUFFICES ASSUME Nat \ P # {} PROVE FALSE
    OBVIOUS
<1>1. PICK m \in Nat \ P : \A k \in Nat \ P : m <= k
      BY LeastElement
<1>2. m # 0
      OBVIOUS
<1>3. m - 1 \in Nat /\ m - 1 \in P
      BY <1>1, <1>2
<1> QED BY <1>1, <1>3

\* L pieces of q bytes hold b bytes, and each piece begins before the end.
CutsInto(b, q, L) ==
  /\ L \in Nat /\ L * q >= b /\ (b = 0 => L = 0)
  /\ \A i \in 1..L : (i - 1) * q \in Nat /\ (i - 1) * q < b /\ i * q = ((i - 1) * q) + q

(* A row of b bytes is cut into L pieces of q bytes, the last one maybe    *)
(* shorter and never empty.                                                *)
LEMMA Pieces ==
  ASSUME NEW b \in Nat, NEW q \in Nat \ {0}, NEW L, L = ((b + q - 1) \div q)
  PROVE  CutsInto(b, q, L)
<1> DEFINE r == (b + q - 1) % q
<1>1. b + q - 1 \in Nat
  OBVIOUS
<1>2. L \in Nat /\ r \in 0..(q - 1) /\ b + q - 1 = (q * L) + r
  BY <1>1
<1>3. L * q = q * L /\ L * q \in Nat
  BY <1>2
<1> HIDE DEF r
<1>4. L * q >= b /\ L * q <= b + q - 1
  BY <1>2, <1>3
<1>5. b = 0 => L = 0
  <2> SUFFICES ASSUME b = 0, L # 0 PROVE FALSE
    OBVIOUS
  <2>1. (0 * q) + q <= L * q
    BY <1>2, MultiplesApart
  <2>2. 0 * q = 0
    OBVIOUS
  <2> QED
    BY <1>3, <1>4, <2>1, <2>2
<1>6. ASSUME NEW i \in 1..L
      PROVE  (i - 1) * q \in Nat /\ (i - 1) * q < b /\ i * q = ((i - 1) * q) + q
  <2>1. i - 1 \in Nat /\ i - 1 < L
    BY <1>2
  <2>2. ((i - 1) * q) + q <= L * q
    BY <1>2, <2>1, MultiplesApart
  <2>3. (i - 1) * q \in Nat /\ i * q = ((i - 1) * q) + q
    BY <1>2, <2>1
  <2> QED
    BY <1>3, <1>4, <2>2, <2>3
<1> QED
  BY <1>2, <1>4, <1>5, <1>6 DEF CutsInto

(* The two fields of a flit. *)
LEMMA FlitFields ==
  ASSUME NEW c \in Int, NEW d \in Int, NEW f, f = [payload |-> c, padding |-> d]
  PROVE  f.payload = c /\ f.padding = d /\ f \in [payload : Int, padding : Int]
OBVIOUS

(* What split_payload cuts a row into fills the link and holds the row.    *)
LEMMA CutRow ==
  ASSUME NEW N, FitsLink(N), HeaderBytes(N) \in Int, NEW b \in Nat
  PROVE  /\ Len(SplitPayload(b, N)) = FlitCount(b, N)
         /\ PayloadOf(SplitPayload(b, N)) = b
         /\ \A i \in DOMAIN SplitPayload(b, N) : WireBytes(SplitPayload(b, N)[i], N) = LinkWidth
<1> DEFINE q == PerFlit(N)
           L == (b + q - 1) \div q
           cut == SplitPayload(b, N)
           upTo(i) == IF i * q < b THEN i * q ELSE b
           h == [i \in 0..L |-> upTo(i)]
<1>1. q \in Nat \ {0} /\ q = LinkWidth - HeaderBytes(N) /\ LinkWidth \in Int
  BY FlitAssumption DEF FitsLink, PerFlit
<1>2. /\ L \in Nat /\ L * q >= b /\ (b = 0 => L = 0)
      /\ \A i \in 1..L : (i - 1) * q \in Nat /\ (i - 1) * q < b /\ i * q = ((i - 1) * q) + q
  <2>1. L = ((b + q - 1) \div q)
    OBVIOUS
  <2> HIDE DEF q, L
  <2>2. CutsInto(b, q, L)
    BY <1>1, <2>1, Pieces
  <2> QED
    BY <2>2 DEF CutsInto
<1>3. /\ cut \in Seq([payload : Int, padding : Int]) /\ Len(cut) = L /\ DOMAIN cut = 1..L
      /\ \A i \in 1..L :
           /\ cut[i].payload = IF b - ((i - 1) * q) < q THEN b - ((i - 1) * q) ELSE q
           /\ cut[i].padding = q - cut[i].payload
           /\ cut[i].payload \in Int
  <2> DEFINE left(i) == b - ((i - 1) * q)
             chunk(i) == IF left(i) < q THEN left(i) ELSE q
  <2>1. cut = [i \in 1..L |-> [payload |-> chunk(i), padding |-> q - chunk(i)]]
    BY DEF SplitPayload
  <2>2. \A i \in 1..L : chunk(i) \in Int /\ q - chunk(i) \in Int
    <3> HIDE DEF q, L
    <3> QED
      BY <1>1, <1>2
  <2>3. \A i \in 1..L : cut[i] = [payload |-> chunk(i), padding |-> q - chunk(i)]
    BY <2>1
  <2> HIDE DEF q, L, cut, chunk
  <2>4. ASSUME NEW i \in 1..L
        PROVE  /\ cut[i].payload = chunk(i) /\ cut[i].padding = q - chunk(i)
               /\ cut[i] \in [payload : Int, padding : Int]
    <3> DEFINE c == chunk(i)
               d == q - chunk(i)
    <3>1. c \in Int /\ d \in Int /\ cut[i] = [payload |-> c, padding |-> d]
      BY <2>2, <2>3
    <3> HIDE DEF c, d
    <3>2. cut[i].payload = c /\ cut[i].padding = d /\ cut[i] \in [payload : Int, padding : Int]
      BY <3>1, FlitFields
    <3> QED
      BY <3>2 DEF c, d
  <2>5. \A i \in 1..L : cut[i] \in [payload : Int, padding : Int]
    BY <2>4
  <2>6. cut = [i \in 1..L |-> cut[i]]
    BY <2>1
  <2>7. cut \in [1..L -> [payload : Int, padding : Int]] /\ DOMAIN cut = 1..L
    BY <2>5, <2>6
  <2> DEFINE F == [payload : Int, padding : Int]
  <2>8. cut \in [1..L -> F]
    BY <2>7
  <2> HIDE DEF F
  <2>9. cut \in Seq(F) /\ Len(cut) = L
    BY <1>2, <2>8
  <2>10. cut \in Seq([payload : Int, padding : Int]) /\ Len(cut) = L
    BY <2>9 DEF F
  <2> QED
    BY <2>2, <2>4, <2>7, <2>10 DEF chunk
<1> HIDE DEF q, L, cut
<1>4. L = FlitCount(b, N)
  BY <1>2 DEF FlitCount, L, q
<1>5. \A i \in 1..L : WireBytes(cut[i], N) = LinkWidth
  <2> SUFFICES ASSUME NEW i \in 1..L PROVE WireBytes(cut[i], N) = LinkWidth
    OBVIOUS
  <2> DEFINE c == cut[i].payload
             d == cut[i].padding
  <2>1. c \in Int /\ d = q - c
    BY <1>3
  <2>2. WireBytes(cut[i], N) = HeaderBytes(N) + c + d
    BY DEF WireBytes
  <2> HIDE DEF c, d
  <2> QED
    BY <1>1, <2>1, <2>2
<1>6. h = [i \in 0..L |-> IF i = 0 THEN 0 ELSE h[i - 1] + cut[i].payload]
  <2>1. \A i \in 0..L : upTo(i) = IF i = 0 THEN 0 ELSE h[i - 1] + cut[i].payload
    <3> SUFFICES ASSUME NEW i \in 0..L
                 PROVE  upTo(i) = IF i = 0 THEN 0 ELSE h[i - 1] + cut[i].payload
      OBVIOUS
    <3>1. CASE i = 0
      <4>1. 0 * q = 0
        BY <1>1
      <4> QED
        BY <3>1, <4>1
    <3>2. CASE i # 0
      <4>1. i \in 1..L /\ i - 1 \in 0..L
        BY <1>2, <3>2
      <4>2. h[i - 1] = (i - 1) * q
        BY <1>2, <4>1
      <4> DEFINE a == (i - 1) * q
      <4>3. a \in Nat /\ a < b /\ i * q = a + q
            /\ cut[i].payload = IF b - a < q THEN b - a ELSE q
        BY <1>2, <1>3, <4>1
      <4> HIDE DEF a, h
      <4>4. upTo(i) = a + cut[i].payload
        BY <1>1, <4>3
      <4> QED
        BY <3>2, <4>2, <4>4 DEF a
    <3> QED
      BY <3>1, <3>2
  <2> QED
    BY <2>1, Zenon
<1>7. PayloadOf(cut) = b
  <2> DEFINE s == CHOOSE f : f = [i \in 0..Len(cut) |-> IF i = 0 THEN 0 ELSE f[i - 1] + cut[i].payload]
  <2>1. PayloadOf(cut) = s[Len(cut)]
    BY Zenon DEF PayloadOf
  <2>2. s = [i \in 0..L |-> IF i = 0 THEN 0 ELSE s[i - 1] + cut[i].payload]
    <3>1. \E f : f = [i \in 0..Len(cut) |-> IF i = 0 THEN 0 ELSE f[i - 1] + cut[i].payload]
      BY <1>3, <1>6, Zenon
    <3>2. s = [i \in 0..Len(cut) |-> IF i = 0 THEN 0 ELSE s[i - 1] + cut[i].payload]
      BY <3>1, Zenon
    <3> QED
      BY <1>3, <3>2, Zenon
  <2> HIDE DEF s
  <2> DEFINE P == {i \in Nat : i <= L => s[i] = h[i]}
  <2>3. 0 \in P
    <3>1. 0 \in 0..L
      BY <1>2
    <3>2. s[0] = 0
      BY <2>2, <3>1
    <3>3. h[0] = 0
      <4> HIDE DEF h
      <4> QED
        BY <1>6, <3>1
    <3> HIDE DEF h
    <3> QED
      BY <3>2, <3>3
  <2>4. \A i \in Nat : i \in P => i + 1 \in P
    <3> SUFFICES ASSUME NEW i \in Nat, i \in P, i + 1 <= L
                 PROVE  s[i + 1] = h[i + 1]
      OBVIOUS
    <3>1. i + 1 \in 0..L /\ i + 1 # 0 /\ (i + 1) - 1 = i /\ s[i] = h[i]
      BY <1>2
    <3>2. s[i + 1] = s[i] + cut[i + 1].payload
      BY <2>2, <3>1
    <3>3. h[i + 1] = h[i] + cut[i + 1].payload
      <4> HIDE DEF h
      <4> QED
        BY <1>6, <3>1
    <3> QED
      BY <3>1, <3>2, <3>3
  <2>5. \A i \in Nat : i \in P
    <3> HIDE DEF P
    <3> QED
      BY <2>3, <2>4, Induction
  <2>6. s[L] = h[L]
    <3> HIDE DEF h
    <3> QED
      BY <1>2, <2>5
  <2>7. h[L] = b
    BY <1>1, <1>2
  <2> QED
    BY <1>3, <2>1, <2>6, <2>7
<1> QED
  BY <1>3, <1>4, <1>5, <1>7 DEF cut

------------------------------------------------------------------------------
\* The recursion of Depths over the first n hops of a trace.
IsDepths(h, n, from, trace) ==
  h = [i \in 0..n |-> IF i = 0 THEN [m \in {from} |-> 0] ELSE Deepened(h[i - 1], trace[i])]

(* There is such a function for every trace.                               *)
LEMMA DepthsExist ==
  ASSUME NEW from, NEW trace, NEW n \in Nat
  PROVE  \E h : IsDepths(h, n, from, trace)
<1> DEFINE P == {k \in Nat : \E h : IsDepths(h, k, from, trace)}
           D0 == [m \in {from} |-> 0]
<1>1. 0 \in P
  <2> DEFINE h == [i \in 0..0 |-> D0]
  <2>1. \A i \in 0..0 : D0 = IF i = 0 THEN D0 ELSE Deepened(h[i - 1], trace[i])
    OBVIOUS
  <2>2. h = [i \in 0..0 |-> IF i = 0 THEN D0 ELSE Deepened(h[i - 1], trace[i])]
    BY <2>1, Zenon
  <2>3. IsDepths(h, 0, from, trace)
    BY <2>2, Zenon DEF IsDepths
  <2> QED
    BY <2>3
<1>2. ASSUME NEW k \in Nat, k \in P
      PROVE  k + 1 \in P
  <2>1. PICK g : IsDepths(g, k, from, trace)
    BY <1>2
  <2> DEFINE at(i) == IF i <= k THEN g[i] ELSE Deepened(g[k], trace[k + 1])
             h == [i \in 0..(k + 1) |-> at(i)]
  <2>2. ASSUME NEW i \in 0..(k + 1)
        PROVE  at(i) = IF i = 0 THEN D0 ELSE Deepened(h[i - 1], trace[i])
    <3>1. CASE i = 0
      <4>1. at(i) = g[0] /\ 0 \in 0..k
        BY <3>1
      <4>2. g[0] = D0
        BY <2>1, <4>1 DEF IsDepths
      <4> QED
        BY <3>1, <4>1, <4>2
    <3>2. CASE i # 0 /\ i <= k
      <4>1. i \in 0..k /\ i - 1 \in 0..(k + 1) /\ i - 1 <= k
        BY <3>2
      <4>2. g[i] = Deepened(g[i - 1], trace[i])
        <5> HIDE DEF h, at
        <5> QED
          BY <2>1, <3>2, <4>1 DEF IsDepths
      <4>3. h[i - 1] = g[i - 1] /\ at(i) = g[i]
        BY <3>2, <4>1
      <4> QED
        BY <3>2, <4>2, <4>3
    <3>3. CASE i = k + 1
      <4>1. h[k] = g[k] /\ i - 1 = k /\ at(i) = Deepened(g[k], trace[k + 1]) /\ i # 0
        BY <3>3
      <4> QED
        BY <3>3, <4>1
    <3> QED
      BY <3>1, <3>2, <3>3
  <2>3. h = [i \in 0..(k + 1) |-> IF i = 0 THEN D0 ELSE Deepened(h[i - 1], trace[i])]
    BY <2>2, Zenon
  <2>4. IsDepths(h, k + 1, from, trace)
    BY <2>3, Zenon DEF IsDepths
  <2> QED
    BY <2>4
<1> HIDE DEF P
<1>3. \A k \in Nat : k \in P
  BY <1>1, <1>2, Induction
<1> QED
  BY <1>3 DEF P

(* Traces that begin alike have the same depths so far.                    *)
LEMMA DepthsAlike ==
  ASSUME NEW from, NEW a, NEW b, NEW n \in Nat, NEW m \in Nat, n <= m,
         NEW g, IsDepths(g, n, from, a), NEW h, IsDepths(h, m, from, b),
         \A i \in 1..n : a[i] = b[i]
  PROVE  g[n] = h[n]
<1> DEFINE P == {k \in Nat : k <= n => g[k] = h[k]}
<1>1. 0 \in P
  <2>1. g[0] = [x \in {from} |-> 0] /\ h[0] = [x \in {from} |-> 0]
    BY DEF IsDepths
  <2> QED
    BY <2>1
<1>2. ASSUME NEW k \in Nat, k \in P, k + 1 <= n
      PROVE  g[k + 1] = h[k + 1]
  <2>1. k + 1 \in 0..n /\ k + 1 \in 0..m /\ k + 1 \in 1..n /\ k + 1 # 0 /\ (k + 1) - 1 = k
    BY <1>2
  <2>2. g[k + 1] = Deepened(g[k], a[k + 1]) /\ h[k + 1] = Deepened(h[k], b[k + 1])
    BY <2>1 DEF IsDepths
  <2>3. g[k] = h[k] /\ a[k + 1] = b[k + 1]
    BY <1>2, <2>1
  <2> QED
    BY <2>2, <2>3
<1>3. \A k \in Nat : k \in P
  <2>1. \A k \in Nat : k \in P => k + 1 \in P
    BY <1>2
  <2> HIDE DEF P
  <2> QED
    BY <1>1, <2>1, Induction
<1> QED
  BY <1>3

\* The depths of the whole trace.
Depth == Depths[Len(hops)]

(* Depths is that function for the trace of the walk.                      *)
LEMMA DepthsDefined ==
  ASSUME Len(hops) \in Nat
  PROVE  IsDepths(Depths, Len(hops), source, hops)
<1>0. \E h : IsDepths(h, Len(hops), source, hops)
  BY DepthsExist
<1>1. \E h : h = [i \in 0..Len(hops) |->
                    IF i = 0 THEN [m \in {source} |-> 0] ELSE Deepened(h[i - 1], hops[i])]
  BY <1>0, Zenon DEF IsDepths
<1>2. Depths = [i \in 0..Len(hops) |->
                  IF i = 0 THEN [m \in {source} |-> 0] ELSE Deepened(Depths[i - 1], hops[i])]
  BY <1>1, Zenon DEF Depths
<1> QED
  BY <1>2, Zenon DEF IsDepths

(* The same in the next state.                                             *)
LEMMA DepthsDefinedNext ==
  ASSUME Len(hops') \in Nat
  PROVE  IsDepths(Depths', Len(hops'), source', hops')
<1>0. \E h : IsDepths(h, Len(hops'), source', hops')
  BY DepthsExist
<1>1. \E h : h = [i \in 0..Len(hops') |->
                    IF i = 0 THEN [m \in {source'} |-> 0] ELSE Deepened(h[i - 1], hops'[i])]
  BY <1>0, Zenon DEF IsDepths
<1>2. Depths' = [i \in 0..Len(hops') |->
                  IF i = 0 THEN [m \in {source'} |-> 0] ELSE Deepened((Depths')[i - 1], hops'[i])]
  BY <1>1, Zenon DEF Depths
<1> QED
  BY <1>2, Zenon DEF IsDepths

(* One more hop deepens the depths of the trace.                           *)
LEMMA OneMoreHop ==
  ASSUME HopsOK, NEW hop, hops' = Append(hops, hop), source' = source
  PROVE  Depth' = Deepened(Depth, hop)
<1> DEFINE L == Len(hops)
<1>1. /\ L \in Nat /\ Len(hops') = L + 1 /\ hops'[L + 1] = hop
      /\ \A i \in 1..L : hops[i] = hops'[i]
  <2> DEFINE H == pass \X Seq(pass \X pass)
  <2>1. hops \in Seq(H)
    BY DEF HopsOK
  <2> HIDE DEF H
  <2>2. L \in Nat
    BY <2>1
  <2> QED
    BY <2>1, <2>2, AppendProperties
<1>2. IsDepths(Depths, L, source, hops) /\ IsDepths(Depths', L + 1, source, hops')
  BY <1>1, DepthsDefined, DepthsDefinedNext
<1> DEFINE A == Depths
           B == Depths'
           b == hops'
<1>3. A[L] = B[L]
  <2>1. L \in Nat /\ L + 1 \in Nat /\ L <= L + 1 /\ \A i \in 1..L : hops[i] = b[i]
    BY <1>1
  <2>2. IsDepths(A, L, source, hops) /\ IsDepths(B, L + 1, source, b)
    BY <1>2
  <2> HIDE DEF A, B, L, b
  <2> QED
    BY <2>1, <2>2, DepthsAlike
<1>4. B[L + 1] = Deepened(B[L], b[L + 1])
  <2>1. L + 1 \in 0..(L + 1) /\ L + 1 # 0 /\ (L + 1) - 1 = L
    BY <1>1
  <2>2. B = [i \in 0..(L + 1) |->
               IF i = 0 THEN [m \in {source} |-> 0] ELSE Deepened(B[i - 1], b[i])]
    BY <1>2 DEF IsDepths
  <2> HIDE DEF A, B, L, b
  <2> QED
    BY <2>1, <2>2
<1>5. Depth' = B[L + 1] /\ Depth = A[L]
  BY <1>1 DEF Depth
<1> QED
  BY <1>1, <1>3, <1>4, <1>5

------------------------------------------------------------------------------
\* Depths are those of a search from the source: every other node is one link
\* past an expanded one, the links of the expanded nodes join depths that are
\* one apart, and an entry of the worklist goes one down.
Layered(D, X, F) ==
  /\ DOMAIN D = X \cup {e[1] : e \in F}
  /\ \A n \in DOMAIN D : D[n] \in Nat
  /\ source \in DOMAIN D /\ D[source] = 0
  /\ \A n \in DOMAIN D : n # source => \E m \in X : n \in Neighbours(m) /\ D[n] = D[m] + 1
  /\ \A n \in X : \A m \in Neighbours(n) \cap pass : m \in DOMAIN D /\ D[m] \in {D[n] + 1, D[n] - 1}
  /\ \A e \in F : e[2] = NoPort \/ (e[2] \in X /\ D[e[1]] = D[e[2]] + 1)

(* An arrival at a new node, none of whose peers was heard of before.      *)
LEMMA OneLayerOn ==
  ASSUME pass \subseteq Nodes, NEW X \in SUBSET pass, NEW F, NEW D, Layered(D, X, F),
         NEW f \in F, f[1] \in pass, f[1] \notin X,
         NEW M, M = {m \in Neighbours(f[1]) : m \in pass /\ m # f[2]},
         M \cap DOMAIN D = {},
         NEW E, DOMAIN E = DOMAIN D \cup M,
         \A n \in DOMAIN E : E[n] = IF n \in M THEN D[f[1]] + 1 ELSE D[n]
  PROVE  Layered(E, X \cup {f[1]}, Sending(F, f))
<1> DEFINE t == f[1]
           G == Sending(F, f)
           Y == X \cup {t}
           Fresh == {<<m, t>> : m \in M}
<1>1. G = (F \ {f}) \cup Fresh
  BY DEF Sending, SentTo
<1>2. /\ DOMAIN D = X \cup {e[1] : e \in F}
      /\ \A n \in DOMAIN D : D[n] \in Nat
      /\ source \in DOMAIN D /\ D[source] = 0
      /\ \A n \in DOMAIN D : n # source => \E m \in X : n \in Neighbours(m) /\ D[n] = D[m] + 1
      /\ \A n \in X : \A m \in Neighbours(n) \cap pass :
           m \in DOMAIN D /\ D[m] \in {D[n] + 1, D[n] - 1}
      /\ \A e \in F : e[2] = NoPort \/ (e[2] \in X /\ D[e[1]] = D[e[2]] + 1)
  BY DEF Layered
<1>3. /\ t \in DOMAIN D /\ X \subseteq DOMAIN D /\ Y \subseteq DOMAIN D
      /\ \A n \in DOMAIN D : n \in DOMAIN E /\ E[n] = D[n]
      /\ \A m \in M : m \in DOMAIN E /\ E[m] = D[t] + 1
  BY <1>2
<1>4. DOMAIN E = Y \cup {e[1] : e \in G}
  <2>1. ASSUME NEW n \in DOMAIN E
        PROVE  n \in Y \/ \E e \in G : e[1] = n
    <3>1. CASE n \in M
      <4>1. <<n, t>> \in G /\ <<n, t>>[1] = n
        BY <1>1, <3>1
      <4> QED
        BY <4>1
    <3>2. CASE n \in X
      BY <3>2
    <3>3. CASE \E e \in F : e[1] = n
      <4>1. PICK e \in F : e[1] = n
        BY <3>3
      <4> QED
        BY <1>1, <4>1
    <3> QED
      BY <1>2, <3>1, <3>2, <3>3
  <2>2. ASSUME NEW e \in G
        PROVE  e[1] \in DOMAIN E
    <3>1. CASE e \in F
      BY <1>2, <1>3, <3>1
    <3>2. CASE e \in Fresh
      <4>1. PICK m \in M : e = <<m, t>>
        BY <3>2
      <4> QED
        BY <1>3, <4>1
    <3> QED
      BY <1>1, <2>2, <3>1, <3>2
  <2> QED
    BY <1>3, <2>1, <2>2
<1>5. \A n \in DOMAIN E : E[n] \in Nat
  BY <1>2, <1>3
<1>6. source \in DOMAIN E /\ E[source] = 0
  BY <1>2, <1>3
<1>7. ASSUME NEW n \in DOMAIN E, n # source
      PROVE  \E m \in Y : n \in Neighbours(m) /\ E[n] = E[m] + 1
  <2>1. CASE n \in M
    BY <1>3, <2>1
  <2>2. CASE n \in DOMAIN D
    <3>1. PICK m \in X : n \in Neighbours(m) /\ D[n] = D[m] + 1
      BY <1>2, <1>7, <2>2
    <3>2. E[n] = D[n] /\ E[m] = D[m] /\ m \in Y
      BY <1>3, <2>2
    <3> QED
      BY <3>1, <3>2
  <2> QED
    BY <2>1, <2>2
<1>8. ASSUME NEW n \in Y, NEW m \in Neighbours(n) \cap pass
      PROVE  m \in DOMAIN E /\ E[m] \in {E[n] + 1, E[n] - 1}
  <2>1. CASE n \in X
    <3>1. m \in DOMAIN D /\ D[m] \in {D[n] + 1, D[n] - 1}
      BY <1>2, <2>1
    <3>2. E[n] = D[n] /\ E[m] = D[m] /\ m \in DOMAIN E
      BY <1>3, <2>1, <3>1
    <3> QED
      BY <3>1, <3>2
  <2>2. CASE n = t /\ m \in M
    BY <1>3, <2>2
  <2>3. CASE n = t /\ m = f[2]
    <3>1. m # NoPort
      BY MeshAssumption DEF Nodes, NoPort
    <3>2. m \in X /\ D[t] = D[m] + 1
      BY <1>2, <2>3, <3>1
    <3>3. E[m] = D[m] /\ E[t] = D[t] /\ m \in DOMAIN E /\ D[m] \in Nat
      BY <1>2, <1>3, <3>2
    <3> QED
      BY <2>3, <3>2, <3>3
  <2> QED
    BY <2>1, <2>2, <2>3
<1>9. ASSUME NEW e \in G
      PROVE  e[2] = NoPort \/ (e[2] \in Y /\ E[e[1]] = E[e[2]] + 1)
  <2>1. CASE e \in F
    <3>1. e[1] \in DOMAIN D
      BY <1>2, <2>1
    <3> QED
      BY <1>2, <1>3, <2>1, <3>1
  <2>2. CASE e \in Fresh
    <3>1. PICK m \in M : e = <<m, t>>
      BY <2>2
    <3> QED
      BY <1>3, <3>1
  <2> QED
    BY <1>1, <1>9, <2>1, <2>2
<1> HIDE DEF Y, G
<1>10. Layered(E, Y, G)
  BY <1>4, <1>5, <1>6, <1>7, <1>8, <1>9 DEF Layered
<1> QED
  BY <1>10 DEF Y, G

(* Around a source without cycles the peers of an expanded node were not   *)
(* heard of before.                                                        *)
LEMMA PeersAreNew ==
  ASSUME WalkInv, CycleInv, Expand, IsAcyclic(Reachable),
         NEW m \in Neighbours(Top), m \in pass, m # Ingress
  PROVE  m \notin expanded /\ m \notin EntryNodes
<1>1. WalkInv' /\ CycleInv'
  BY ExpandKeeps, ExpandCounts
<1>2. /\ expanded' = expanded \cup {Top} /\ pass' = pass /\ source' = source
      /\ revisits' = revisits /\ stack # <<>>
  BY DEF Expand, bitmap
<1>3. /\ pass \in SUBSET Nodes /\ source \in pass /\ expanded \subseteq pass
      /\ expanded \cup EntryNodes \subseteq Reachable /\ SentByExpanded
      /\ Reachable \in SUBSET pass
  BY DEF WalkInv, BitmapOK, TypeOK, Inside, Reachable, Component
<1>4. /\ Head(stack) \in Entries /\ Head(stack)[1] = Top /\ Head(stack)[2] = Ingress
      /\ Top \in pass /\ Top \in Nodes /\ Top \notin expanded
      /\ Entries' = Sending(Entries, Head(stack))
  BY ExpandEntries DEF CycleInv
<1> DEFINE Y == expanded \cup {Top}
<1>5. Top \in Reachable /\ m \in Reachable /\ Y \in SUBSET Reachable
  <2>1. Top \in Reachable
    BY <1>3, <1>4 DEF EntryNodes
  <2>2. m \in Reachable
    BY <1>3, <2>1, ComponentFacts DEF Reachable
  <2> QED
    BY <1>3, <2>1, <2>2
<1>6. \A Z \in SUBSET Reachable : Z # {} => ~Loops(Z)
  BY <1>3, NoCycleInside DEF Reachable
<1>7. Spans(Y) /\ ~Again(Y, Entries')
  <2>1. Tree'
    BY <1>1 DEF CycleInv
  <2>2. Spans(expanded)' /\ (Loops(expanded)' <=> revisits' # {} \/ Again(expanded, Entries)')
    BY <1>2, <2>1 DEF Tree
  <2>3. /\ Spans(expanded)' <=> Spans(Y)
        /\ Loops(expanded)' <=> Loops(Y)
        /\ Again(expanded, Entries)' <=> Again(Y, Entries')
    BY <1>2 DEF Spans, Loops, Again, InducedEdges, Neighbours, North, West, East, South, RowOf, ColOf
  <2>4. ~Loops(Y)
    BY <1>5, <1>6
  <2> QED
    BY <2>2, <2>3, <2>4
<1>8. m \notin Y
  <2>1. <<m, Top>> \in Entries' /\ <<m, Top>>[1] = m
    BY <1>4 DEF Sending, SentTo
  <2> QED
    BY <1>7, <2>1 DEF Again
<1>9. m \notin EntryNodes
  <2> SUFFICES ASSUME NEW e \in Entries, e[1] = m PROVE FALSE
    BY DEF EntryNodes
  <2>1. CASE expanded = {}
    <3>1. stack = <<<<source, NoPort>>>>
      BY <2>1 DEF CycleInv, Begun
    <3>2. e[1] = source /\ Top = source
      BY <3>1 DEF Entries, Top
    <3> QED
      BY <1>8, <3>2
  <2>2. CASE expanded # {}
    <3>1. e \in pass \X expanded /\ e[1] \in Neighbours(e[2])
      BY <2>2 DEF CycleInv, Begun, Linked
    <3>2. e[2] \in Y /\ e[2] # Top /\ Top \in Y /\ e[2] \in Nodes /\ m \in Nodes
      BY <1>3, <1>4, <3>1
    <3>3. e[2] \in Neighbours(m) /\ Top \in Neighbours(m)
      BY <1>4, <3>1, <3>2, LinksAreMutual
    <3>4. Y \in SUBSET Nodes /\ m \in Nodes \ Y
      BY <1>3, <1>5, <1>8, <3>2
    <3>5. Top \in Neighbours(m) \cap Y /\ Neighbours(m) \cap Y # {Top}
      BY <3>2, <3>3
    <3>6. Loops(Y \cup {m})
      <4> HIDE DEF Y
      <4> QED
        BY <1>7, <3>4, <3>5, NeighbourJoins
    <3>7. Y \cup {m} \in SUBSET Reachable /\ Y \cup {m} # {}
      BY <1>5
    <3> QED
      BY <1>6, <3>6, <3>7
  <2> QED
    BY <2>1, <2>2
<1> QED
  BY <1>8, <1>9

\* Without a cycle around the source the trace is such a search.
DepthInv == IsAcyclic(Reachable) => Layered(Depth, expanded, Entries)

(* At first only the source has a depth.                                   *)
LEMMA DepthsInitially == Init => DepthInv
<1> SUFFICES ASSUME Init PROVE Layered(Depth, expanded, Entries)
  BY DEF DepthInv
<1>1. /\ stack = <<<<source, NoPort>>>> /\ expanded = {} /\ hops = <<>>
  BY DEF Init
<1>2. Len(hops) = 0
  BY <1>1
<1>3. Depth = [m \in {source} |-> 0]
  <2>1. IsDepths(Depths, 0, source, hops)
    BY <1>2, DepthsDefined
  <2>2. 0 \in 0..0
    OBVIOUS
  <2>3. Depths[0] = [m \in {source} |-> 0]
    BY <2>1, <2>2 DEF IsDepths
  <2> QED
    BY <1>2, <2>3 DEF Depth
<1>4. DOMAIN Depth = {source} /\ Depth[source] = 0
  BY <1>3
<1>5. Entries = {<<source, NoPort>>}
  BY <1>1 DEF Entries
<1>6. {e[1] : e \in Entries} = {source} /\ \A e \in Entries : e[2] = NoPort
  BY <1>5
<1> QED
  BY <1>1, <1>4, <1>6 DEF Layered

(* An expansion adds a layer below its node.                               *)
LEMMA ExpandDeepens ==
  ASSUME WalkInv, CycleInv, DepthInv, Expand
  PROVE  DepthInv'
<1>1. /\ hops' = Append(hops, <<Top, Egress(Top, Ingress)>>)
      /\ expanded' = expanded \cup {Top}
      /\ pass' = pass /\ source' = source /\ stack # <<>>
  BY DEF Expand, bitmap
<1>2. Reachable' = Reachable /\ (IsAcyclic(Reachable)' <=> IsAcyclic(Reachable))
  BY <1>1 DEF Reachable, IsAcyclic, Components, InducedEdges, Component, Closed,
              Neighbours, North, West, East, South, RowOf, ColOf
<1> SUFFICES ASSUME IsAcyclic(Reachable)
             PROVE  Layered(Depth, expanded, Entries)'
  BY <1>2 DEF DepthInv
<1> DEFINE D == Depth
           f == Head(stack)
           M == {m \in Neighbours(f[1]) : m \in pass /\ m # f[2]}
           out == Egress(Top, Ingress)
           hop == <<Top, out>>
           E == Deepened(D, hop)
<1>3. /\ f \in Entries /\ f[1] = Top /\ f[2] = Ingress
      /\ Top \in pass /\ Top \in Nodes /\ Top \notin expanded
      /\ Entries' = Sending(Entries, f)
  BY ExpandEntries DEF CycleInv
<1>4. Layered(D, expanded, Entries) /\ DOMAIN D = expanded \cup EntryNodes
  BY DEF DepthInv, Layered, EntryNodes
<1>5. pass \subseteq Nodes /\ expanded \in SUBSET pass
  BY DEF WalkInv, BitmapOK, TypeOK
<1>6. M \cap DOMAIN D = {}
  BY <1>3, <1>4, PeersAreNew
<1>7. Top \in DOMAIN D
  BY <1>3, <1>4 DEF EntryNodes
<1>8. {out[i][1] : i \in DOMAIN out} = M
  <2>1. Range(out) = SentTo(Neighbours(Top), Top, Ingress)
    BY EgressEntries
  <2>2. \A m \in M : <<m, Top>> \in Range(out) /\ <<m, Top>>[1] = m
    BY <1>3, <2>1 DEF SentTo
  <2>3. \A e \in Range(out) : e[1] \in M
    BY <1>3, <2>1 DEF SentTo
  <2>4. Range(out) = {out[i] : i \in DOMAIN out}
    BY DEF Range
  <2> HIDE DEF out, M
  <2>5. \A i \in DOMAIN out : out[i][1] \in M
    BY <2>3, <2>4
  <2>6. \A m \in M : \E i \in DOMAIN out : out[i][1] = m
    BY <2>2, <2>4
  <2> QED
    BY <2>5, <2>6
<1>9. DOMAIN E = DOMAIN D \cup M
  <2>1. {hop[2][i][1] : i \in DOMAIN hop[2]} = M
    BY <1>8
  <2> HIDE DEF D, M
  <2> QED
    BY <2>1 DEF Deepened
<1>10. \A n \in DOMAIN E : E[n] = IF n \in M THEN D[f[1]] + 1 ELSE D[n]
  <2>1. {hop[2][i][1] : i \in DOMAIN hop[2]} = M /\ hop[1] = f[1] /\ f[1] \in DOMAIN D
    BY <1>3, <1>7, <1>8
  <2> HIDE DEF D, M, f, hop
  <2> QED
    BY <1>6, <1>9, <2>1 DEF Deepened
<1>11. Depth' = E
  <2>1. HopsOK
    BY DEF CycleInv
  <2> HIDE DEF out
  <2> QED
    BY <1>1, <2>1, OneMoreHop DEF out
<1>12. Layered(E, expanded \cup {f[1]}, Sending(Entries, f))
  <2>1. f[1] \in pass /\ f[1] \notin expanded
    BY <1>3
  <2> HIDE DEF E, D, f
  <2> QED
    BY <1>3, <1>4, <1>5, <1>6, <1>9, <1>10, <2>1, OneLayerOn
<1>13. Layered(Depth', expanded', Entries')
  <2> HIDE DEF E, f
  <2> QED
    BY <1>1, <1>3, <1>11, <1>12
<1>14. Layered(Depth, expanded, Entries)' <=> Layered(Depth', expanded', Entries')
  BY <1>1 DEF Layered, Neighbours, North, West, East, South, RowOf, ColOf
<1> QED
  BY <1>13, <1>14

(* Around a source without cycles, what a walk reports as depths are those *)
(* of a search from the source.                                            *)
THEOREM DepthInvariant == Spec => []DepthInv
<1>1. ASSUME WalkInv, CycleInv, DepthInv, [Next]_vars
      PROVE  DepthInv'
  <2>1. CASE Expand
    BY <1>1, <2>1, ExpandDeepens
  <2>2. CASE Revisit
    <3>1. /\ Top \in expanded /\ stack # <<>> /\ pass' = pass /\ source' = source
      BY <2>2 DEF Revisit, bitmap
    <3>2. ~IsAcyclic(Reachable)
      BY <1>1, <3>1, NoRepeat
    <3>3. IsAcyclic(Reachable)' <=> IsAcyclic(Reachable)
      BY <3>1 DEF Reachable, IsAcyclic, Components, InducedEdges, Component, Closed,
                  Neighbours, North, West, East, South, RowOf, ColOf
    <3> QED
      BY <3>2, <3>3 DEF DepthInv
  <2>3. CASE UNCHANGED vars
    <3>1. UNCHANGED <<pass, source, hops, stack, expanded>>
      BY <2>3 DEF vars, bitmap
    <3>2. Depth' = Depth
      BY <3>1 DEF Depth, Depths
    <3>3. IsAcyclic(Reachable)' <=> IsAcyclic(Reachable)
      BY <3>1 DEF Reachable, IsAcyclic, Components, InducedEdges, Component, Closed,
                  Neighbours, North, West, East, South, RowOf, ColOf
    <3>4. Layered(Depth, expanded, Entries)' <=> Layered(Depth, expanded, Entries)
      BY <3>1, <3>2 DEF Layered, Entries, Neighbours, North, West, East, South, RowOf, ColOf
    <3> QED
      BY <1>1, <3>3, <3>4 DEF DepthInv
  <2> QED
    BY <1>1, <2>1, <2>2, <2>3 DEF Next
<1> QED
  BY <1>1, DepthsInitially, WalkInvariant, CycleInvariant, PTL DEF Spec

------------------------------------------------------------------------------
\* The nodes of R at most k deep.
Within(D, R, k) == {n \in R : D[n] <= k}

(* A ball is the last one and the nodes with a neighbour in it.            *)
LEMMA NextBall ==
  ASSUME pass \subseteq Nodes, NEW R \in SUBSET pass, NEW D, Layered(D, R, {}), NEW k \in Nat
  PROVE  /\ Within(D, R, 0) = {source}
         /\ Within(D, R, k + 1)
              = Within(D, R, k) \cup {m \in pass : Neighbours(m) \cap Within(D, R, k) # {}}
<1>1. /\ DOMAIN D = R
      /\ \A n \in R : D[n] \in Nat
      /\ source \in R /\ D[source] = 0
      /\ \A n \in R : n # source => \E m \in R : n \in Neighbours(m) /\ D[n] = D[m] + 1
      /\ \A n \in R : \A m \in Neighbours(n) \cap pass :
           m \in R /\ D[m] \in {D[n] + 1, D[n] - 1}
  BY DEF Layered
<1>2. Within(D, R, 0) = {source}
  <2>1. ASSUME NEW n \in R, D[n] <= 0
        PROVE  n = source
    <3>1. CASE n # source
      <4>1. PICK m \in R : D[n] = D[m] + 1
        BY <1>1, <3>1
      <4>2. D[m] \in Nat
        BY <1>1
      <4> QED
        BY <2>1, <4>1, <4>2
    <3> QED
      BY <3>1
  <2> QED
    BY <1>1, <2>1 DEF Within
<1>3. ASSUME NEW n \in Within(D, R, k + 1)
      PROVE  n \in Within(D, R, k) \/ (n \in pass /\ Neighbours(n) \cap Within(D, R, k) # {})
  <2>1. n \in R /\ D[n] \in Nat /\ D[n] <= k + 1
    BY <1>1, <1>3 DEF Within
  <2>2. CASE D[n] <= k
    BY <2>1, <2>2 DEF Within
  <2>3. CASE D[n] = k + 1
    <3>1. n # source
      BY <1>1, <2>3
    <3>2. PICK m \in R : n \in Neighbours(m) /\ D[n] = D[m] + 1
      BY <1>1, <2>1, <3>1
    <3>3. D[m] \in Nat /\ D[m] = k
      BY <1>1, <2>3, <3>2
    <3>4. m \in Neighbours(n)
      BY <2>1, <3>2, LinksAreMutual
    <3> QED
      BY <2>1, <3>3, <3>4 DEF Within
  <2> QED
    BY <2>1, <2>2, <2>3
<1>4. ASSUME NEW m \in pass, NEW n \in Neighbours(m) \cap Within(D, R, k)
      PROVE  m \in Within(D, R, k + 1)
  <2>1. n \in R /\ n \in Nodes /\ D[n] \in Nat /\ D[n] <= k
    BY <1>1 DEF Within
  <2>2. m \in Neighbours(n) \cap pass
    BY <2>1, LinksAreMutual
  <2>3. m \in R /\ D[m] \in {D[n] + 1, D[n] - 1}
    BY <1>1, <2>1, <2>2
  <2> QED
    BY <2>1, <2>3 DEF Within
<1>5. Within(D, R, k) \subseteq Within(D, R, k + 1)
  <2>1. \A n \in R : D[n] <= k => D[n] <= k + 1
    BY <1>1
  <2> QED
    BY <2>1 DEF Within
<1> QED
  BY <1>2, <1>3, <1>4, <1>5

(* The mesh is finite.                                                     *)
LEMMA NodesCounted == Cardinality(Nodes) \in Nat /\ IsFiniteSet(Nodes)
<1>1. Nodes \in SUBSET Nodes
  OBVIOUS
<1> QED
  BY <1>1, FiniteParts

(* The balls around the source are those of the depths.                    *)
LEMMA BallsAreLayers ==
  ASSUME pass \subseteq Nodes, NEW R \in SUBSET pass, NEW D, Layered(D, R, {})
  PROVE  /\ DOMAIN Ball = 0..Cardinality(Nodes)
         /\ \A k \in 0..Cardinality(Nodes) : Ball[k] = Within(D, R, k)
<1> DEFINE C == Cardinality(Nodes)
           more(S) == S \cup {m \in pass : Neighbours(m) \cap S # {}}
           h == [k \in 0..C |-> Within(D, R, k)]
<1>1. C \in Nat
  BY NodesCounted
<1>2. ASSUME NEW k \in 0..C
      PROVE  Within(D, R, k) = IF k = 0 THEN {source} ELSE more(h[k - 1])
  <2>1. CASE k = 0
    BY <1>1, <2>1, NextBall
  <2>2. CASE k # 0
    <3> DEFINE j == k - 1
    <3>1. j \in Nat /\ j \in 0..C /\ j + 1 = k
      BY <1>1, <2>2
    <3> HIDE DEF j
    <3>2. Within(D, R, j + 1) = more(Within(D, R, j))
      BY <3>1, NextBall
    <3>3. h[j] = Within(D, R, j)
      BY <3>1
    <3> QED
      BY <2>2, <3>1, <3>2, <3>3 DEF j
  <2> QED
    BY <2>1, <2>2
<1>3. h = [k \in 0..C |-> IF k = 0 THEN {source} ELSE more(h[k - 1])]
  BY <1>2, Zenon
<1>4. Ball = [k \in 0..C |-> IF k = 0 THEN {source} ELSE more(Ball[k - 1])]
  <2>1. \E g : g = [k \in 0..C |-> IF k = 0 THEN {source} ELSE more(g[k - 1])]
    <3> HIDE DEF h
    <3> QED
      BY <1>3, Zenon
  <2> QED
    BY <2>1, Zenon DEF Ball
<1> DEFINE P == {k \in Nat : k <= C => Ball[k] = Within(D, R, k)}
<1>5. 0 \in P
  <2>1. 0 \in 0..C
    BY <1>1
  <2>2. Ball[0] = {source}
    BY <1>4, <2>1
  <2> QED
    BY <1>2, <2>1, <2>2
<1>6. ASSUME NEW k \in Nat, k \in P, k + 1 <= C
      PROVE  Ball[k + 1] = Within(D, R, k + 1)
  <2>1. k + 1 \in 0..C /\ (k + 1) - 1 = k /\ k + 1 # 0
    BY <1>1, <1>6
  <2>2. Ball[k + 1] = more(Ball[k])
    <3> HIDE DEF more
    <3> QED
      BY <1>4, <2>1
  <2>3. Ball[k] = Within(D, R, k)
    BY <1>1, <1>6
  <2>4. Within(D, R, k + 1) = more(Within(D, R, k))
    BY NextBall
  <2> QED
    BY <2>2, <2>3, <2>4
<1>7. \A k \in Nat : k \in P
  <2>1. \A k \in Nat : k \in P => k + 1 \in P
    BY <1>6
  <2> HIDE DEF P
  <2> QED
    BY <1>5, <2>1, Induction
<1>8. DOMAIN Ball = 0..C
  <2> HIDE DEF more, C
  <2> QED
    BY <1>4
<1>9. \A k \in 0..C : k \in Nat /\ k <= C
  BY <1>1
<1>10. \A k \in 0..C : Ball[k] = Within(D, R, k)
  BY <1>7, <1>9
<1> QED
  BY <1>8, <1>10

(* No node is as deep as there are nodes.                                  *)
LEMMA DepthsBounded ==
  ASSUME pass \subseteq Nodes, NEW R \in SUBSET pass, NEW D, Layered(D, R, {})
  PROVE  \A n \in R : D[n] \in Nat /\ D[n] < Cardinality(Nodes)
<1> DEFINE P == {k \in Nat : \A n \in R : D[n] = k => Cardinality(Within(D, R, k)) >= k + 1}
<1>1. /\ \A n \in R : D[n] \in Nat
      /\ source \in R
      /\ \A n \in R : n # source => \E m \in R : n \in Neighbours(m) /\ D[n] = D[m] + 1
      /\ D[source] = 0
  BY DEF Layered
<1>2. ASSUME NEW k \in Nat
      PROVE  /\ IsFiniteSet(Within(D, R, k)) /\ Cardinality(Within(D, R, k)) \in Nat
             /\ Cardinality(Within(D, R, k)) <= Cardinality(Nodes)
  <2>1. Within(D, R, k) \in SUBSET Nodes
    BY DEF Within
  <2> QED
    BY <2>1, NodesCounted, FiniteParts, FS_Subset
<1>3. 0 \in P
  <2>1. Within(D, R, 0) = {source}
    BY NextBall
  <2>2. Cardinality(Within(D, R, 0)) = 1
    BY <2>1, FS_Singleton
  <2> QED
    BY <2>2
<1>4. ASSUME NEW k \in Nat, k \in P, NEW n \in R, D[n] = k + 1
      PROVE  Cardinality(Within(D, R, k + 1)) >= (k + 1) + 1
  <2>1. n # source
    BY <1>1, <1>4
  <2>2. PICK m \in R : D[n] = D[m] + 1
    BY <1>1, <2>1
  <2>3. D[m] \in Nat /\ D[m] = k
    BY <1>1, <1>4, <2>2
  <2> DEFINE A == Within(D, R, k)
             B == Within(D, R, k + 1)
  <2>4. Cardinality(A) >= k + 1
    BY <1>4, <2>3
  <2>5. n \notin A /\ A \cup {n} \subseteq B
    <3>1. \A x \in R : D[x] <= k => D[x] <= k + 1
      BY <1>1
    <3> QED
      BY <1>4, <3>1 DEF Within
  <2>6. /\ IsFiniteSet(A) /\ Cardinality(A) \in Nat
        /\ IsFiniteSet(B) /\ Cardinality(B) \in Nat
    BY <1>2
  <2> HIDE DEF A, B
  <2>7. Cardinality(A \cup {n}) = Cardinality(A) + 1
    BY <2>5, <2>6, FS_AddElement
  <2>8. Cardinality(A \cup {n}) <= Cardinality(B)
    BY <2>5, <2>6, FS_Subset
  <2>9. Cardinality(B) >= (k + 1) + 1
    BY <2>4, <2>6, <2>7, <2>8
  <2> QED
    BY <2>9 DEF B
<1>5. \A k \in Nat : k \in P
  <2>1. \A k \in Nat : k \in P => k + 1 \in P
    BY <1>4
  <2> HIDE DEF P
  <2> QED
    BY <1>3, <2>1, Induction
<1>6. ASSUME NEW n \in R
      PROVE  D[n] \in Nat /\ D[n] < Cardinality(Nodes)
  <2> DEFINE k == D[n]
  <2>1. k \in Nat
    BY <1>1
  <2>2. Cardinality(Within(D, R, k)) >= k + 1
    BY <1>5, <2>1
  <2> HIDE DEF k
  <2>3. k < Cardinality(Nodes)
    BY <1>2, <2>1, <2>2, NodesCounted
  <2> QED
    BY <2>1, <2>3 DEF k
<1> QED
  BY <1>6

(* The greatest number of a bounded set.                                   *)
LEMMA Greatest ==
  ASSUME NEW T, NEW n \in Nat, T \subseteq 0..n, T # {}
  PROVE  Sets!Max(T) \in T /\ \A y \in T : y <= Sets!Max(T)
<1> DEFINE U == {n - x : x \in T}
<1>1. \A x \in T : x \in Int /\ 0 <= x /\ x <= n
  OBVIOUS
<1>2. U \subseteq Nat /\ U # {}
  <2>1. \A x \in T : n - x \in Nat
    BY <1>1
  <2>2. \A w \in U : w \in Nat
    BY <2>1
  <2>3. PICK x \in T : TRUE
    OBVIOUS
  <2>4. n - x \in U
    OBVIOUS
  <2> QED
    BY <2>2, <2>4
<1>3. PICK u \in U : \A w \in U : u <= w
  <2> HIDE DEF U
  <2> QED
    BY <1>2, LeastElement
<1>4. PICK x \in T : u = n - x
  BY <1>3
<1>5. \A y \in T : x >= y
  <2>1. ASSUME NEW y \in T PROVE x >= y
    <3>1. n - y \in U
      OBVIOUS
    <3>2. n - x <= n - y
      BY <1>3, <1>4, <3>1
    <3> QED
      BY <1>1, <3>2
  <2> QED
    BY <2>1
<1>6. \E m \in T : \A y \in T : m >= y
  BY <1>5
<1>7. Sets!Max(T) \in T /\ \A y \in T : Sets!Max(T) >= y
  BY <1>6, Zenon DEF Sets!Max
<1> QED
  BY <1>1, <1>7

(* The deepest node of a component without cycles has one link: the others *)
(* hang together without it, so a second link would close a cycle.         *)
LEMMA DeepestIsLeaf ==
  ASSUME pass \subseteq Nodes, NEW R \in SUBSET pass, NEW D, Layered(D, R, {}),
         ~Loops(R), NEW far \in R, far # source, \A n \in R : D[n] <= D[far]
  PROVE  \E m \in pass : Neighbours(far) \cap pass = {m}
<1> DEFINE X == R \ {far}
           Sizes == {k \in Nat : \E Z \in SUBSET X : /\ source \in Z /\ Spans(Z)
                                                     /\ Cardinality(X) - Cardinality(Z) = k}
<1>1. /\ \A n \in R : D[n] \in Nat
      /\ source \in R /\ D[source] = 0
      /\ \A n \in R : n # source => \E m \in R : n \in Neighbours(m) /\ D[n] = D[m] + 1
      /\ \A n \in R : Neighbours(n) \cap pass \subseteq R
  BY DEF Layered
<1>2. X \in SUBSET Nodes /\ source \in X /\ far \in Nodes \ X /\ X \cup {far} = R
  BY <1>1
<1>3. IsFiniteSet(X) /\ Cardinality(X) \in Nat
  <2> HIDE DEF X
  <2> QED
    BY <1>2, FiniteParts
<1>4. \A n \in X : n \in R /\ n # far
  OBVIOUS
<1>5. \A n \in R : n # far => n \in X
  OBVIOUS
<1> HIDE DEF X
<1>6. Spans(X)
  <2>1. ASSUME NEW Z \in SUBSET X
        PROVE  Cardinality(Z) \in Nat /\ Cardinality(X) - Cardinality(Z) \in Nat
    BY <1>3, FS_Subset, FS_CardinalityType
  <2>2. Sizes \subseteq Nat /\ Sizes # {}
    <3>1. {source} \in SUBSET X
      BY <1>2
    <3>2. Spans({source})
      <4>1. InducedEdges({source}) = {}
        <5>1. source \in Int
          BY <1>2, MeshAssumption DEF Nodes
        <5> QED
          BY <5>1 DEF InducedEdges
      <4>2. Cardinality({source}) = 1 /\ Cardinality(InducedEdges({source})) = 0
        BY <4>1, FS_Singleton, FS_EmptySet
      <4> QED
        BY <4>2 DEF Spans
    <3>3. Cardinality(X) - Cardinality({source}) \in Sizes
      BY <2>1, <3>1, <3>2
    <3> QED
      BY <3>3
  <2>3. PICK k \in Sizes : \A j \in Sizes : k <= j
    <3> HIDE DEF Sizes
    <3> QED
      BY <2>2, LeastElement
  <2>4. PICK Z \in SUBSET X : source \in Z /\ Spans(Z) /\ Cardinality(X) - Cardinality(Z) = k
    BY <2>3
  <2>5. Z = X
    <3> SUFFICES ASSUME Z # X PROVE FALSE
      OBVIOUS
    <3> DEFINE T == {D[n] : n \in X \ Z}
    <3>1. T \subseteq Nat /\ T # {}
      <4>1. \A n \in X \ Z : D[n] \in Nat
        BY <1>1, <1>4
      <4>2. PICK n \in X \ Z : TRUE
        OBVIOUS
      <4>3. D[n] \in T
        OBVIOUS
      <4> QED
        BY <4>1, <4>3
    <3>2. PICK d \in T : \A y \in T : d <= y
      <4> HIDE DEF T
      <4> QED
        BY <3>1, LeastElement
    <3>3. PICK b \in X \ Z : d = D[b]
      BY <3>2
    <3>4. b \in R /\ b # source /\ b # far
      BY <1>4, <2>4, <3>3
    <3>5. PICK m \in R : b \in Neighbours(m) /\ D[b] = D[m] + 1
      BY <1>1, <3>4
    <3>6. D[m] \in Nat /\ D[b] \in Nat /\ D[far] \in Nat /\ D[m] < D[b] /\ D[b] <= D[far]
      BY <1>1, <3>4, <3>5
    <3>7. m \in X
      BY <1>5, <3>5, <3>6
    <3>8. m \in Z
      <4> SUFFICES ASSUME m \notin Z PROVE FALSE
        OBVIOUS
      <4>1. D[m] \in T
        BY <3>7
      <4> QED
        BY <3>2, <3>3, <3>6, <4>1
    <3>9. m \in Neighbours(b) \cap Z /\ b \in Nodes \ Z /\ Z \in SUBSET Nodes
      <4>1. m \in Nodes /\ b \in Nodes
        BY <3>4
      <4> QED
        BY <1>2, <3>3, <3>5, <3>8, <4>1, LinksAreMutual
    <3>10. Spans(Z \cup {b}) /\ Cardinality(Z \cup {b}) = Cardinality(Z) + 1
      BY <2>4, <3>9, NeighbourJoins, OneMoreNode
    <3>11. Z \cup {b} \in SUBSET X /\ source \in Z \cup {b}
      BY <2>4, <3>3
    <3>12. Cardinality(X) - Cardinality(Z \cup {b}) = k - 1 /\ k - 1 \in Nat
      BY <1>3, <2>1, <2>4, <3>10, <3>11
    <3>13. k - 1 \in Sizes
      BY <3>10, <3>11, <3>12
    <3> QED
      BY <2>3, <3>12, <3>13
  <2> QED
    BY <2>4, <2>5
<1>7. PICK m \in R : far \in Neighbours(m) /\ D[far] = D[m] + 1
  BY <1>1
<1>8. m \in X /\ m \in Neighbours(far) /\ far \notin Neighbours(far)
  <2>1. m \in Nodes /\ far \in Nodes
    OBVIOUS
  <2>2. D[m] \in Nat /\ m # far
    BY <1>1, <1>7
  <2> QED
    BY <1>5, <1>7, <2>1, <2>2, LinksAreMutual
<1>9. Neighbours(far) \cap X = {m}
  <2> SUFFICES ASSUME Neighbours(far) \cap X # {m} PROVE FALSE
    OBVIOUS
  <2>1. Loops(X \cup {far})
    BY <1>2, <1>6, <1>8, NeighbourJoins
  <2> QED
    BY <1>2, <2>1
<1>10. Neighbours(far) \cap pass = {m}
  BY <1>1, <1>4, <1>5, <1>8, <1>9
<1> QED
  BY <1>7, <1>10

(* After a clean walk, the longest path of the trace is the distance of    *)
(* the farthest node; and of the farthest that lands, if the leaves do.    *)
LEMMA DepthIsDistance ==
  ASSUME WalkOK, DepthInv, Ended, IsCleanTreeWalk
  PROVE  /\ MaxDepth = Farthest(Reachable)
         /\ LeavesLand => MaxDepth = Farthest(LandNodes)
<1> DEFINE R == Reachable
           D == Depth
           C == Cardinality(Nodes)
           T == {D[n] : n \in DOMAIN D}
           mx == Sets!Max(T)
           S(Q) == {k \in DOMAIN Ball : Q \subseteq Ball[k]}
<1>1. /\ pass \subseteq Nodes /\ R \in SUBSET pass /\ source \in R
      /\ IsAcyclic(R) /\ expanded = R /\ C \in Nat
  BY NoCycleAround, WalkEnd, NodesCounted DEF WalkOK
<1>2. Layered(D, R, {})
  <2>1. Entries = {}
    BY DEF Ended, Entries
  <2> QED
    BY <1>1, <2>1 DEF DepthInv
<1>3. DOMAIN D = R
  BY <1>2 DEF Layered
<1> HIDE DEF R, D
<1>4. \A n \in R : D[n] \in 0..C
  <2>1. \A n \in R : D[n] \in Nat /\ D[n] < C
    BY <1>1, <1>2, DepthsBounded
  <2> QED
    BY <1>1, <2>1
<1>5. mx \in T /\ mx \in 0..C /\ \A n \in R : D[n] <= mx
  <2>1. T \subseteq 0..C /\ T # {}
    BY <1>1, <1>3, <1>4
  <2>2. mx \in T /\ \A y \in T : y <= mx
    <3> HIDE DEF T, C
    <3> QED
      BY <1>1, <2>1, Greatest
  <2>3. \A n \in R : D[n] \in T
    BY <1>3
  <2> HIDE DEF T, mx
  <2> QED
    BY <2>1, <2>2, <2>3
<1>6. PICK far \in R : D[far] = mx
  BY <1>3, <1>5
<1>7. DOMAIN Ball = 0..C /\ \A k \in 0..C : Ball[k] = Within(D, R, k)
  BY <1>1, <1>2, BallsAreLayers
<1> HIDE DEF mx, C, T
<1>8. ASSUME NEW k \in 0..C
      PROVE  R \subseteq Within(D, R, k) <=> mx <= k
  <2>1. ASSUME R \subseteq Within(D, R, k) PROVE mx <= k
    <3>1. far \in Within(D, R, k)
      BY <2>1
    <3> QED
      BY <1>6, <3>1 DEF Within
  <2>2. ASSUME mx <= k PROVE R \subseteq Within(D, R, k)
    <3>1. \A n \in R : D[n] <= k
      <4>1. \A n \in R : D[n] \in Int /\ D[n] <= mx
        BY <1>4, <1>5
      <4>2. mx \in Int /\ k \in Int
        BY <1>5
      <4> QED
        BY <2>2, <4>1, <4>2
    <3> QED
      BY <3>1 DEF Within
  <2> QED
    BY <2>1, <2>2
<1>9. mx \in S(R) /\ \A k \in S(R) : mx <= k
  BY <1>5, <1>7, <1>8
<1>10. \A Q : S(Q) \subseteq Int
  <2>1. \A k \in 0..C : k \in Int
    OBVIOUS
  <2> QED
    BY <1>7, <2>1
<1> HIDE DEF S
<1>11. ASSUME NEW Q, mx \in S(Q), \A k \in S(Q) : mx <= k
       PROVE  Sets!Min(S(Q)) = mx
  <2>1. \E x \in S(Q) : \A y \in S(Q) : x =< y
    BY <1>11
  <2>2. Sets!Min(S(Q)) \in S(Q) /\ \A y \in S(Q) : Sets!Min(S(Q)) =< y
    BY <2>1, Zenon DEF Sets!Min
  <2> DEFINE lo == Sets!Min(S(Q))
  <2>3. lo \in S(Q) /\ lo <= mx /\ mx <= lo
    BY <1>11, <2>2
  <2> HIDE DEF lo
  <2>4. lo \in Int /\ mx \in Int
    BY <1>10, <1>11, <2>3
  <2>5. lo = mx
    BY <2>3, <2>4
  <2> QED
    BY <2>5 DEF lo
<1>12. MaxDepth = mx
  BY Zenon DEF MaxDepth, mx, T, D, Depth
<1>13. MaxDepth = Farthest(R)
  <2>1. Sets!Min(S(R)) = mx
    BY <1>9, <1>11
  <2> QED
    BY <1>12, <2>1 DEF Farthest, S
<1>14. ASSUME LeavesLand PROVE MaxDepth = Farthest(LandNodes)
  <2>1. LandNodes = land \cap R
    BY WalkEnd DEF WalkOK, R
  <2>2. mx \in S(LandNodes)
    <3>1. LandNodes \subseteq Ball[mx]
      BY <1>9, <2>1 DEF S
    <3> QED
      BY <1>5, <1>7, <3>1 DEF S
  <2>3. ASSUME NEW k \in S(LandNodes) PROVE mx <= k
    <3>1. k \in 0..C /\ LandNodes \subseteq Within(D, R, k)
      BY <1>7, <2>3 DEF S
    <3>2. CASE far = source
      <4>1. mx = 0
        BY <1>2, <1>6, <3>2 DEF Layered
      <4> QED
        BY <1>1, <3>1, <4>1
    <3>3. CASE far # source
      <4>1. ~Loops(R)
        BY NoCycleAround, <1>1 DEF R
      <4>2. \A n \in R : D[n] <= D[far]
        BY <1>5, <1>6
      <4>3. \E m \in pass : Neighbours(far) \cap pass = {m}
        BY <1>1, <1>2, <3>3, <4>1, <4>2, DeepestIsLeaf
      <4>4. far \in land
        BY <1>6, <1>14, <3>3, <4>3 DEF LeavesLand, R
      <4>5. far \in Within(D, R, k)
        BY <1>6, <2>1, <3>1, <4>4
      <4> QED
        BY <1>6, <4>5 DEF Within
    <3> QED
      BY <3>2, <3>3
  <2>4. Sets!Min(S(LandNodes)) = mx
    BY <1>11, <2>2, <2>3
  <2> QED
    BY <1>12, <2>4 DEF Farthest, S
<1> QED
  BY <1>13, <1>14 DEF R

------------------------------------------------------------------------------
\* A send reported the depth of its walk.
DepthReported == Sent => outcome.depth = MaxDepth

(* The report of a send outlives the walk and every hop.                   *)
LEMMA DepthCarried ==
  ASSUME SendInv, DepthReported, [SendNext]_sendVars
  PROVE  DepthReported'
<1>1. CASE UNCHANGED <<vars, outcome>>
  <2>1. UNCHANGED <<outcome, hops, source>>
    BY <1>1 DEF vars, bitmap
  <2>2. MaxDepth' = MaxDepth
    BY <2>1 DEF MaxDepth, Depths
  <2> QED
    BY <2>1, <2>2 DEF DepthReported, Sent, NoOutcome
<1>2. CASE Walk
  <2>1. stack # <<>> /\ outcome' = outcome
    BY <1>2 DEF Walk, Expand, Revisit
  <2>2. ~Sent
    BY <2>1 DEF SendInv, Idle, Crossing, Ended, Sent
  <2> QED
    BY <2>1, <2>2 DEF DepthReported, Sent, NoOutcome
<1>3. ASSUME NEW p \in Plans, Inject(p)
      PROVE  DepthReported'
  <2>1. outcome' = Outcome(p) /\ UNCHANGED <<hops, source>>
    BY <1>3 DEF Inject, vars, bitmap
  <2>2. MaxDepth' = MaxDepth
    BY <2>1 DEF MaxDepth, Depths
  <2>3. outcome'.depth = MaxDepth
    BY <2>1 DEF Outcome
  <2> QED
    BY <2>2, <2>3 DEF DepthReported
<1>4. ASSUME NEW f \in flits, Hop(f)
      PROVE  DepthReported'
  <2>1. UNCHANGED <<vars, outcome>>
    BY <1>4 DEF Hop
  <2> QED
    BY <1>1, <2>1
<1>5. CASE UNCHANGED sendVars
  BY <1>1, <1>5 DEF sendVars
<1> QED
  BY <1>2, <1>3, <1>4, <1>5 DEF SendNext, Forwarding

(* For every mesh, bitmap, source, plan and link: split_payload cuts a row *)
(* without losing a byte, into as many flits as flit_count reports, which  *)
(* fill the width of the link; and max_depth is the distance of the        *)
(* farthest node that the flit reaches, although it is computed in the     *)
(* order of the worklist: of the farthest that lands, as its documentation *)
(* says, when every branch ends in a node that lands.                      *)
THEOREM RowsAreCutWhole == SendSpec => []RowsAndDepth
<1>1. SendSpec => []DepthReported
  <2>1. SendInit => DepthReported
    BY DEF SendInit, DepthReported, Sent
  <2> QED
    BY <2>1, DepthCarried, SendInvariant, PTL DEF SendSpec
<1>2. ASSUME WalkOK, SendInv, DepthInv, DepthReported PROVE RowsAndDepth
  <2> DEFINE N == Cardinality(Nodes)
             p == outcome.plan
             cut == SplitPayload(p.rowBytes, N)
  <2> SUFFICES ASSUME Quiet
               PROVE  /\ FitsLink(N) =>
                           /\ outcome.flits = p.rows * Len(cut) /\ PayloadOf(cut) = p.rowBytes
                           /\ \A i \in DOMAIN cut : WireBytes(cut[i], N) = LinkWidth
                      /\ outcome.depth = Farthest(Reachable)
                      /\ LeavesLand => outcome.depth = Farthest(LandNodes)
    BY DEF RowsAndDepth
  <2>1. /\ Reported /\ Ended /\ IsCleanTreeWalk
    BY <1>2, AllVisited DEF Crossing
  <2>2. /\ outcome.depth = Farthest(Reachable)
        /\ LeavesLand => outcome.depth = Farthest(LandNodes)
    BY <1>2, <2>1, DepthIsDistance DEF DepthReported, Quiet
  <2>3. ASSUME FitsLink(N)
        PROVE  /\ outcome.flits = p.rows * Len(cut) /\ PayloadOf(cut) = p.rowBytes
               /\ \A i \in DOMAIN cut : WireBytes(cut[i], N) = LinkWidth
    <3>1. p.rowBytes \in Nat /\ outcome.flits = p.rows * FlitCount(p.rowBytes, N)
      BY <2>1, PlansAssumption DEF Reported, LegalSend, LegalPlan
    <3>2. HeaderBytes(N) \in Int
      <4>1. RouteBytes(N) \in Int
        BY NodesCounted DEF RouteBytes
      <4>2. EpochBytes \in Int
        BY FlitAssumption DEF EpochBytes
      <4> QED
        BY <4>1, <4>2 DEF HeaderBytes
    <3> DEFINE b == p.rowBytes
    <3>3. /\ Len(SplitPayload(b, N)) = FlitCount(b, N)
          /\ PayloadOf(SplitPayload(b, N)) = b
          /\ \A i \in DOMAIN SplitPayload(b, N) : WireBytes(SplitPayload(b, N)[i], N) = LinkWidth
      <4>1. b \in Nat
        BY <3>1
      <4> HIDE DEF b, N
      <4> QED
        BY <2>3, <3>2, <4>1, CutRow
    <3> QED
      BY <3>1, <3>3
  <2> QED
    BY <2>2, <2>3
<1>3. SendSpec => []DepthInv
  BY SendIsWalk, DepthInvariant
<1> QED
  BY <1>1, <1>2, <1>3, WalkHolds, SendInvariant, PTL
==============================================================================
