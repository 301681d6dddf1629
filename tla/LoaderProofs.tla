----------------------------- MODULE LoaderProofs -----------------------------
(***************************************************************************)
(* The loader's invariants for every set of packages, every opcodes and    *)
(* images, every partition into groups and every bound.                    *)
(***************************************************************************)
EXTENDS Loader, TLAPS

------------------------------------------------------------------------------
(* The flits in flight keep their types when one enters and one leaves.    *)
LEMMA TrafficTyped ==
  ASSUME NEW S, NEW t \in Seq(S)
  PROVE  /\ \A e \in S : Append(t, e) \in Seq(S)
         /\ t # <<>> => Tail(t) \in Seq(S)
  OBVIOUS

(* What is in the rest of a sequence was in the sequence.                  *)
LEMMA TailInside ==
  ASSUME NEW S, NEW t \in Seq(S), t # <<>>
  PROVE  \A i \in DOMAIN Tail(t) : i + 1 \in DOMAIN t /\ Tail(t)[i] = t[i + 1]
  OBVIOUS

(* What is in an extended sequence is the new element or was there.        *)
LEMMA AppendInside ==
  ASSUME NEW S, NEW t \in Seq(S), NEW e \in S
  PROVE  \A i \in DOMAIN Append(t, e) :
           (i \in DOMAIN t /\ Append(t, e)[i] = t[i]) \/ Append(t, e)[i] = e
  OBVIOUS

------------------------------------------------------------------------------
(* An install puts into every bank the package's slots and nothing else.   *)
LEMMA LoadedTyped ==
  ASSUME NEW p \in Packages
  PROVE  /\ Loaded(p) \in [Opcodes -> Packages \cup {Nobody}]
         /\ \A op \in Opcodes : Loaded(p)[op] \in {p, Nobody}
  BY DEF Loaded

(* The initial state has the types.                                        *)
LEMMA LoaderInitTyped == Init => TypeOK
<1>1. \A S : <<>> \in Seq(S)
      OBVIOUS
<1>2. Init => traffic \in Seq(Opcodes \X Packages) /\ waves \in Seq(SUBSET Cores)
      BY <1>1 DEF Init
<1>3. Init => launches \in 0..MaxLaunches /\ scheduled \in 0..MaxLaunches /\ inFlight \in Nat
      BY LoaderAssumption DEF LoaderAssumption, Init
<1>4. Init => bank \in [Opcodes -> Packages \cup {Nobody}]
      BY DEF Init
<1> QED BY <1>2, <1>3, <1>4 DEF Init, TypeOK, Flags

(* Every action keeps the types of what it assigns.                        *)
LEMMA LoaderStepTyped == TypeOK /\ [Next]_vars => TypeOK'
<1> SUFFICES ASSUME TypeOK, [Next]_vars PROVE TypeOK'
    OBVIOUS
<1> USE DEF TypeOK, state, die, scheduler
<1>1. CASE \E artifact \in Artifacts : Install(artifact)
      BY <1>1 DEF Install, Flags, Artifacts
<1>2. CASE \E p \in Packages : CheckVersions(p)
      BY <1>2 DEF CheckVersions, Flags
<1>3. CASE \E p \in Packages : InstallCalReg(p)
      BY <1>3, LoadedTyped DEF InstallCalReg
<1>4. CASE Kickstart
      BY <1>4 DEF Kickstart, Flags
<1>5. CASE Launch
      BY <1>5, LoaderAssumption DEF LoaderAssumption, Launch
<1>6. CASE Report
      BY <1>6 DEF Report
<1>7. CASE Drain
      BY <1>7, TrafficTyped DEF Drain
<1>8. CASE \E op \in Opcodes : Send(op)
      <2>1. PICK op \in Opcodes : Send(op)
            BY <1>8
      <2>2. <<op, bank[op]>> \in Opcodes \X Packages
            BY <2>1 DEF Send
      <2> QED BY <2>1, <2>2, TrafficTyped DEF Send
<1>9. CASE \E first, second \in SUBSET Cores, drained \in BOOLEAN :
             Schedule(<<first, second>>, drained)
      BY <1>9, LoaderAssumption DEF LoaderAssumption, Schedule
<1>10. CASE UNCHANGED vars
      BY <1>10 DEF vars
<1> QED BY <1>1, <1>2, <1>3, <1>4, <1>5, <1>6, <1>7, <1>8, <1>9, <1>10 DEF Next

(* The state of the loader, the die and the scheduler keeps its types.     *)
THEOREM LoaderTypeCorrect == Spec => []TypeOK
BY LoaderInitTyped, LoaderStepTyped, PTL DEF Spec

------------------------------------------------------------------------------
(* Nothing is launched that has not been through the whole load: no call   *)
(* of the loader takes back what kickstart asked for.                      *)
THEOREM LaunchesLoaded == Spec => []LoadedBeforeLaunch
<1>1. Init => LoadedBeforeLaunch
      BY DEF Init, LoadedBeforeLaunch
<1>2. TypeOK /\ LoadedBeforeLaunch /\ [Next]_vars => LoadedBeforeLaunch'
      <2> SUFFICES ASSUME TypeOK, LoadedBeforeLaunch, [Next]_vars
                   PROVE  LoadedBeforeLaunch'
          OBVIOUS
      <2> USE DEF LoadedBeforeLaunch, state, scheduler, die
      <2>1. CASE \E artifact \in Artifacts : Install(artifact)
            BY <2>1 DEF Install, Flags, Artifacts
      <2>2. CASE \E p \in Packages : CheckVersions(p)
            BY <2>2 DEF CheckVersions, Flags
      <2>3. CASE Kickstart
            BY <2>3 DEF Kickstart, Required, Flags, Artifacts, TypeOK
      <2>4. CASE Launch
            BY <2>4 DEF Launch, Ready, Flags
      <2>5. CASE UNCHANGED <<done, launches>>
            BY <2>5
      <2>6. UNCHANGED <<done, launches>> \/ Kickstart \/ Launch
              \/ (\E p \in Packages : CheckVersions(p))
              \/ (\E artifact \in Artifacts : Install(artifact))
            BY DEF Next, vars, InstallCalReg, Report, Drain, Send, Schedule
      <2> QED BY <2>1, <2>2, <2>3, <2>4, <2>5, <2>6
<1> QED BY <1>1, <1>2, LoaderTypeCorrect, PTL DEF Spec

------------------------------------------------------------------------------
(* A flit in flight finds the slot that released it, of the one image that *)
(* the whole die holds: a rewrite of the banks meets no traffic.           *)
THEOREM HoldsOneImage == Spec => []OneImage
<1>1. Init => OneImage
      BY DEF Init, OneImage
<1>2. TypeOK /\ OneImage /\ [Next]_vars => OneImage'
      <2> SUFFICES ASSUME TypeOK, OneImage, [Next]_vars PROVE OneImage'
          OBVIOUS
      <2> USE DEF OneImage, TypeOK
      <2>1. CASE \E p \in Packages : InstallCalReg(p)
            BY <2>1, LoadedTyped DEF InstallCalReg, DieDrained
      <2>2. CASE Drain
            BY <2>2, TailInside DEF Drain
      <2>3. CASE \E op \in Opcodes : Send(op)
            <3>1. PICK op \in Opcodes : Send(op)
                  BY <2>3
            <3>2. bank[op] = image /\ image # Nobody /\ bank[op] \in Packages
                  BY <3>1 DEF Send
            <3>3. <<op, bank[op]>> \in Opcodes \X Packages
                  BY <3>2
            <3>4. traffic' = Append(traffic, <<op, bank[op]>>) /\ UNCHANGED <<bank, image>>
                  BY <3>1 DEF Send
            <3> QED BY <3>2, <3>3, <3>4, AppendInside
      <2>4. CASE UNCHANGED die
            BY <2>4 DEF die
      <2>5. UNCHANGED die \/ Drain \/ (\E op \in Opcodes : Send(op))
              \/ (\E p \in Packages : InstallCalReg(p))
            BY DEF Next, vars, Install, CheckVersions, Kickstart, Launch, Report, Schedule
      <2> QED BY <2>1, <2>2, <2>3, <2>4, <2>5
<1> QED BY <1>1, <1>2, LoaderTypeCorrect, PTL DEF Spec

------------------------------------------------------------------------------
(* A wave that splits no group is closed under waiting.                    *)
LEMMA WaveClosed ==
  ASSUME NEW wave \in SUBSET Cores, \A g \in Groups : ~Splits(wave, g),
         NEW c \in wave
  PROVE  Linked(c) \subseteq wave
<1>1. c \in wave /\ \A g \in Groups : g \cap wave # {} => g \subseteq wave
      BY DEF Splits
<1> QED BY <1>1 DEF Linked

(* No core of a scheduled launch waits, over any chain of groups, for a    *)
(* core of another wave.                                                   *)
THEOREM WavesKeepTogether == Spec => []WavesTogether
<1>1. Init => WavesTogether
      BY DEF Init, WavesTogether
<1>2. WavesTogether /\ [Next]_vars => WavesTogether'
      <2> SUFFICES ASSUME WavesTogether, [Next]_vars PROVE WavesTogether'
          OBVIOUS
      <2>1. ASSUME NEW first \in SUBSET Cores, NEW second \in SUBSET Cores,
                   NEW drained \in BOOLEAN, Schedule(<<first, second>>, drained)
            PROVE  WavesTogether'
            <3>1. \A i \in DOMAIN waves' :
                    /\ waves'[i] \in SUBSET Cores
                    /\ \A g \in Groups : ~Splits(waves'[i], g)
                  BY <2>1 DEF Schedule
            <3> QED BY <3>1, WaveClosed DEF WavesTogether
      <2>2. CASE UNCHANGED waves
            BY <2>2 DEF WavesTogether
      <2>3. UNCHANGED waves
              \/ \E first, second \in SUBSET Cores, drained \in BOOLEAN :
                   Schedule(<<first, second>>, drained)
            BY DEF Next, vars, state, die, scheduler, Install,
               CheckVersions, Kickstart, Launch, Report, InstallCalReg, Drain, Send
      <2> QED BY <2>1, <2>2, <2>3
<1> QED BY <1>1, <1>2, PTL DEF Spec
==============================================================================
