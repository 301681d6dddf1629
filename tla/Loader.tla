-------------------------------- MODULE Loader --------------------------------
(***************************************************************************)
(* Loading a package and launching it (host/runtime.py) over the register  *)
(* banks and the traffic windows of the die (noc/calreg.py,                *)
(* noc/network.py). The host loads packages one after the other, in any    *)
(* order of the loader's calls; a call that raises changes nothing.        *)
(***************************************************************************)
EXTENDS Integers, Sequences, FiniteSets, SequencesExt

CONSTANTS
  Packages,      \* the compiled packages the host holds
  Fits,          \* those whose three versions are the chip's
  Opcodes,       \* the opcodes a slot may have: 1..6
  Mirror,        \* package -> the opcodes its CalReg mirror lists, a sequence
  Nobody,        \* no package
  MaxLaunches, MaxFlits,   \* bounds on the launches and the flits in flight
  Cores, Groups  \* the scheduler's syncing groups

OpcodeReserved == {0, 7}

ASSUME LoaderAssumption ==
  /\ Fits \subseteq Packages /\ Nobody \notin Packages
  /\ Opcodes \subseteq 1..6
  /\ Mirror \in [Packages -> Seq(Opcodes \cup OpcodeReserved)]
  /\ Groups \subseteq SUBSET Cores
  /\ MaxLaunches \in Nat /\ MaxFlits \in Nat

VARIABLES
  \* InstallState
  done,          \* the flags that are set
  inFlight,      \* in_flight_transfers, which the host writes
  launches,      \* activations_dispatched
  \* the die
  bank,          \* opcode -> the package whose slot every node holds, or Nobody
  image,         \* installed_calreg
  traffic,       \* the flits the windows count: <<opcode, package>>, oldest first
  \* Scheduler
  waves,         \* the waves of the launch scheduled last
  scheduled      \* its count of launches

state == <<done, inFlight, launches>>
die == <<bank, image, traffic>>
scheduler == <<waves, scheduled>>
vars == <<state, die, scheduler>>

Artifacts == {"kernel", "weights", "calreg"}
Flags == Artifacts \cup {"versions", "kicked"}

Drained == inFlight = 0
Ready == done = Flags
DieDrained == traffic = <<>>

------------------------------------------------------------------------------
Init == /\ done = {} /\ inFlight = 0 /\ launches = 0
        /\ bank = [op \in Opcodes |-> Nobody] /\ image = Nobody /\ traffic = <<>>
        /\ waves = <<>> /\ scheduled = 0

\* install_kernel, install_weights (page aligned) and install_calreg. Only the
\* last asks for a quiet die, and none takes back what was checked or kicked.
Install(artifact) ==
  /\ artifact = "calreg" => Drained
  /\ done' = done \cup {artifact}
  /\ UNCHANGED <<inFlight, launches, die, scheduler>>

\* check_versions: a mismatch raises and leaves the flag as an earlier package
\* set it.
CheckVersions(p) ==
  /\ p \in Fits
  /\ done' = done \cup {"versions"}
  /\ UNCHANGED <<inFlight, launches, die, scheduler>>

\* Mutant of Required: the version check is not asked for.
RequiredArtifacts == Artifacts

Required == Artifacts \cup {"versions"}

Kickstart == /\ Required \subseteq done
             /\ done' = done \cup {"kicked"}
             /\ UNCHANGED <<inFlight, launches, die, scheduler>>

Launch == /\ Ready /\ Drained /\ launches < MaxLaunches
          /\ launches' = launches + 1
          /\ UNCHANGED <<done, inFlight, die, scheduler>>

\* The host tells the loader what the windows count. Nothing else writes it.
Report == /\ inFlight' = Len(traffic)
          /\ UNCHANGED <<done, launches, die, scheduler>>

------------------------------------------------------------------------------
\* A CalRegSlot refuses a reserved code and a CalRegImage to list one twice.
LegalSlot(op) == op \notin OpcodeReserved
LegalImage(p) ==
  \A i \in DOMAIN Mirror[p] :
    /\ LegalSlot(Mirror[p][i])
    /\ \A j \in DOMAIN Mirror[p] : Mirror[p][i] = Mirror[p][j] => i = j

\* The mirror of the worked example: one slot for each opcode its keys use.
ExampleMirror(used) == SetToSortSeq(used, <)

\* install_into: clear every bank, then install the image's slots.
Loaded(p) == [op \in Opcodes |-> IF op \in ToSet(Mirror[p]) THEN p ELSE Nobody]

\* Mutant of InstallCalReg: the windows are not asked.
InstallCalRegAnytime(p) == /\ LegalImage(p)
                           /\ bank' = Loaded(p) /\ image' = p
                           /\ UNCHANGED <<state, traffic, scheduler>>

InstallCalReg(p) == /\ LegalImage(p) /\ DieDrained
                    /\ bank' = Loaded(p) /\ image' = p
                    /\ UNCHANGED <<state, traffic, scheduler>>

\* Noc.send: CalRegBank.lookup faults on an opcode without a slot; a flit that
\* is released is counted by every window.
Send(op) == /\ bank[op] # Nobody /\ Len(traffic) < MaxFlits
            /\ traffic' = Append(traffic, <<op, bank[op]>>)
            /\ UNCHANGED <<state, bank, image, scheduler>>

\* StopTheWorldWindow.drain, at Step5 of a phase, never below zero.
Drain == /\ traffic # <<>>
         /\ traffic' = Tail(traffic)
         /\ UNCHANGED <<state, bank, image, scheduler>>

------------------------------------------------------------------------------
\* Mutant of Splits: a part that waits for a later wave is accepted.
SplitsOutside(wave, group) == FALSE

\* check_wave: a wave holds all of a group or nothing of it.
Splits(wave, group) == wave \cap group \notin {{}, group}

\* The phase barrier takes the caller's word that the die is drained.
Schedule(ws, drained) ==
  /\ drained /\ scheduled < MaxLaunches
  /\ \A i \in DOMAIN ws, g \in Groups : ~Splits(ws[i], g)
  /\ waves' = ws /\ scheduled' = scheduled + 1
  /\ UNCHANGED <<state, die>>

Next == \/ \E artifact \in Artifacts : Install(artifact)
        \/ \E p \in Packages : CheckVersions(p) \/ InstallCalReg(p)
        \/ Kickstart \/ Launch \/ Report \/ Drain
        \/ \E op \in Opcodes : Send(op)
        \/ \E first, second \in SUBSET Cores, drained \in BOOLEAN :
             Schedule(<<first, second>>, drained)

Spec == Init /\ [][Next]_vars

------------------------------------------------------------------------------
TypeOK == /\ done \subseteq Flags /\ inFlight \in Nat /\ launches \in 0..MaxLaunches
          /\ bank \in [Opcodes -> Packages \cup {Nobody}]
          /\ image \in Packages \cup {Nobody}
          /\ traffic \in Seq(Opcodes \X Packages)
          /\ scheduled \in 0..MaxLaunches /\ waves \in Seq(SUBSET Cores)

(* Nothing is launched on a device that has not been through the whole     *)
(* load: a kick had every artifact and a passing check before it, and the  *)
(* first launch had a kick.                                                *)
LoadedBeforeLaunch == /\ "kicked" \in done => done = Flags
                      /\ launches > 0 => "kicked" \in done

(* Calendar 3.9: while a flit is in flight the node still holds the slot   *)
(* that released it, of the image that is installed on the whole die, and  *)
(* nothing of an earlier image is left to release another.                 *)
OneImage ==
  /\ \A i \in DOMAIN traffic :
       /\ bank[traffic[i][1]] = traffic[i][2]
       /\ traffic[i][2] = image /\ image # Nobody
  /\ \A op \in Opcodes : bank[op] \in {image, Nobody}

\* The cores that wait for c, for those that wait for c, and so on.
Linked(c) ==
  {d \in Cores : \A S \in SUBSET Cores :
     (c \in S /\ \A g \in Groups : g \cap S # {} => g \subseteq S) => d \in S}

(* No core of a scheduled launch waits for a core of another wave, nor for *)
(* one that does: groups that overlap (a row and a column) tie all their   *)
(* cores into the same wave.                                               *)
WavesTogether ==
  \A i \in DOMAIN waves : \A c \in waves[i] \cap Cores : Linked(c) \subseteq waves[i]
==============================================================================
