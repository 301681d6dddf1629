---------------------------- MODULE PackageProofs ----------------------------
(***************************************************************************)
(* Proofs about RouteTable and, on top of it, Package, for every set of    *)
(* identities, opcodes, versions, object files and concurrent sets, every  *)
(* budget and every topology.  The registry is one to one (O1), and both   *)
(* layouts give the rows of a table without gaps cells of their own inside *)
(* the segment and emit the same entries.  Building a package keeps the    *)
(* registry and the table to RouteTable, so O1 holds of it; the reference  *)
(* of a call site is the table's own, and it finds its row in the emitted  *)
(* segment; an accepted package has one algorithm and shares no opcode     *)
(* domain, and its rows lie in the declared symbol, each in one cache      *)
(* line; a table survives its file; and the refill account is what the     *)
(* addresses give.                                                         *)
(***************************************************************************)
EXTENDS Package, FiniteSetTheorems, SequenceTheorems, NaturalsInduction, WellFoundedInduction, TLAPS

(* Every nonempty set of naturals has a least element.                     *)
LEMMA LeastElement ==
  ASSUME NEW T, T \subseteq Nat, T # {}
  PROVE  \E x \in T : \A y \in T : x <= y
<1>1. PICK x \in T : \A y \in T : ~ (<<y, x>> \in OpToRel(<, Nat))
  BY NatLessThanWellFounded, WFMin
<1>2. \A y \in T : y \in Nat /\ x \in Nat
  OBVIOUS
<1>3. \A y \in T : ~(y < x)
  BY <1>1, <1>2 DEF OpToRel
<1> QED
  BY <1>2, <1>3

(* A set with zero and the successor of each of its numbers has them all.  *)
LEMMA Induction ==
  ASSUME NEW P, 0 \in P, \A n \in Nat : n \in P => n + 1 \in P
  PROVE  \A n \in Nat : n \in P
<1> SUFFICES ASSUME Nat \ P # {} PROVE FALSE
    OBVIOUS
<1>1. PICK m \in Nat \ P : \A k \in Nat \ P : m <= k
      BY LeastElement
<1>2. m # 0
      OBVIOUS
<1>3. m - 1 \in Nat /\ m - 1 \in P
      BY <1>1, <1>2
<1> QED BY <1>1, <1>3

------------------------------------------------------------------------------
(* The registry and the table. *)

(* The initial registry and table are empty. *)
LEMMA TableInitial == Init => TypeOK /\ OneToOne
  BY TableAssumption DEF Init, TypeOK, OneToOne, KeyIds, NoId, Layouts

(* A binding of an unbound identity to a keyId that is free keeps the two  *)
(* maps of the registry inverse to each other.                             *)
LEMMA BindKeeps ==
  ASSUME TypeOK, OneToOne, NEW key \in Identities, NEW id \in KeyIds,
         byKey[key] = NoId, byId[id] \in {Free, key}, Bind(key, id), UNCHANGED refs
  PROVE  /\ byId' \in [KeyIds -> Identities \cup {Free}]
         /\ byKey' \in [Identities -> KeyIds \cup {NoId}]
         /\ OneToOne'
<1>1. byId[id] = Free
  BY DEF TypeOK, OneToOne, KeyIds, NoId
<1>2. /\ byId' = [byId EXCEPT ![id] = key]
      /\ byKey' = [byKey EXCEPT ![key] = id]
  BY DEF Bind
<1>3. /\ byId' \in [KeyIds -> Identities \cup {Free}]
      /\ byKey' \in [Identities -> KeyIds \cup {NoId}]
  BY <1>2 DEF TypeOK
<1>4. ASSUME NEW k \in Identities, NEW i \in KeyIds
      PROVE  byId'[i] = k <=> byKey'[k] = i
  <2>1. byId[i] = k <=> byKey[k] = i
    BY DEF OneToOne
  <2>2. CASE k = key /\ i = id
    BY <1>2, <2>2 DEF TypeOK
  <2>3. CASE k = key /\ i # id
    <3>1. byId[i] # key
      BY <2>1, <2>3 DEF KeyIds, NoId
    <3>2. QED
      BY <1>2, <2>3, <3>1 DEF TypeOK
  <2>4. CASE k # key /\ i = id
    <3>1. byKey[k] # id
      BY <1>1, <2>1, <2>4, TableAssumption
    <3>2. QED
      BY <1>2, <2>4, <3>1 DEF TypeOK
  <2>5. CASE k # key /\ i # id
    BY <1>2, <2>1, <2>5 DEF TypeOK
  <2>6. QED
    BY <2>2, <2>3, <2>4, <2>5
<1>5. ASSUME NEW ref \in refs'
      PROVE  byId'[ref[2]] = ref[1]
  <2>1. ref \in refs /\ ref[1] \in Identities /\ ref[2] \in KeyIds
    BY DEF TypeOK
  <2>2. byId[ref[2]] = ref[1]
    BY <2>1 DEF OneToOne
  <2>3. ref[2] # id
    BY <1>1, <2>1, <2>2, TableAssumption
  <2>4. QED
    BY <1>2, <2>1, <2>2, <2>3 DEF TypeOK
<1>6. QED
  BY <1>3, <1>4, <1>5 DEF OneToOne

LEMMA TableStep == TypeOK /\ OneToOne /\ [Next]_vars => TypeOK' /\ OneToOne'
<1> SUFFICES ASSUME TypeOK, OneToOne, [Next]_vars
             PROVE  TypeOK' /\ OneToOne'
  OBVIOUS
<1> USE DEF table, product, registry
<1>1. CASE \E key \in Identities, id \in KeyIds : Register(key, id)
  <2>1. PICK key \in Identities, id \in KeyIds : Register(key, id)
    BY <1>1
  <2>2. byId' \in [KeyIds -> Identities \cup {Free}]
        /\ byKey' \in [Identities -> KeyIds \cup {NoId}] /\ OneToOne'
    BY <2>1, BindKeeps DEF Register, Lowest
  <2>3. QED
    BY <2>1, <2>2 DEF Register, TypeOK
<1>2. CASE \E key \in Identities, id \in KeyIds : RegisterAs(key, id)
  <2>1. PICK key \in Identities, id \in KeyIds : RegisterAs(key, id)
    BY <1>2
  <2>2. byId' \in [KeyIds -> Identities \cup {Free}]
        /\ byKey' \in [Identities -> KeyIds \cup {NoId}] /\ OneToOne'
    BY <2>1, BindKeeps DEF RegisterAs, Vacant
  <2>3. QED
    BY <2>1, <2>2 DEF RegisterAs, TypeOK
<1>3. CASE \E key \in Identities : KeyRef(key)
  <2>1. PICK key \in Identities : KeyRef(key)
    BY <1>3
  <2>2. byKey[key] \in KeyIds /\ byId[byKey[key]] = key
    BY <2>1 DEF KeyRef, TypeOK, OneToOne
  <2>3. QED
    BY <2>1, <2>2 DEF KeyRef, TypeOK, OneToOne
<1>4. CASE \E id \in KeyIds : AddKey(id)
  BY <1>4 DEF AddKey, TypeOK, OneToOne
<1>5. CASE Emit
  BY <1>5 DEF Emit, TypeOK, OneToOne
<1>6. CASE UNCHANGED vars
  BY <1>6 DEF vars, TypeOK, OneToOne
<1>7. QED
  BY <1>1, <1>2, <1>3, <1>4, <1>5, <1>6 DEF Next

(* The registry, the call sites' references and the table stay within the  *)
(* keyId budget.                                                           *)
THEOREM TableTypeCorrect == Spec => []TypeOK
<1>1. QED
  BY TableInitial, TableStep, PTL DEF Spec

(* Invariant O1 in every registry, whatever its callers ask for: identity  *)
(* and keyId determine each other, and a resolved reference stays good.    *)
THEOREM RegistryOneToOne == Spec => []OneToOne
<1>1. QED
  BY TableInitial, TableStep, PTL DEF Spec

------------------------------------------------------------------------------
(* Two products of a stride are a stride apart. *)
LEMMA StrideApart ==
  ASSUME NEW s \in Nat, NEW a \in Nat, NEW b \in Nat, a < b
  PROVE  a * s + s <= b * s
<1>1. b = a + 1 + (b - a - 1) /\ b - a - 1 \in Nat
  OBVIOUS
<1>2. \A d \in Nat : (a + 1 + d) * s = a * s + s + d * s
  OBVIOUS
<1>3. \A d \in Nat : d * s >= 0
  OBVIOUS
<1>4. QED
  BY <1>1, <1>2, <1>3

(* A number is a stride and a remainder below it in one way. *)
LEMMA OneDivision ==
  ASSUME NEW s \in Nat, NEW a \in Nat, NEW b \in Nat,
         NEW p \in 0..(s - 1), NEW q \in 0..(s - 1), a * s + p = b * s + q
  PROVE  a = b /\ p = q
<1>1. ~(a < b)
  BY StrideApart
<1>2. ~(b < a)
  BY StrideApart
<1>3. QED
  BY <1>1, <1>2

(* In a table of K keys numbered without gaps, the address computation of  *)
(* either layout (entry_index) sends distinct rows to distinct cells, all  *)
(* inside the keyCount x nodeCount cells of the segment: no row is         *)
(* overwritten by another and none extends the segment.                    *)
THEOREM RowsApart ==
  ASSUME NEW K \in Nat, NEW lay \in Layouts,
         NEW id1 \in 0..(K - 1), NEW id2 \in 0..(K - 1),
         NEW n1 \in Nodes, NEW n2 \in Nodes
  PROVE  /\ Index(lay, K, id1, n1) \in 0..(K * NodeCount - 1)
         /\ Index(lay, K, id1, n1) = Index(lay, K, id2, n2) => id1 = id2 /\ n1 = n2
<1>1. NodeCount \in Nat
  BY TableAssumption
<1>2. n1 \in Nat /\ n2 \in Nat /\ n1 < NodeCount /\ n2 < NodeCount
  BY <1>1 DEF Nodes
<1>3. CASE lay = "node-major"
  <2>1. Index(lay, K, id1, n1) = n1 * K + id1 /\ Index(lay, K, id2, n2) = n2 * K + id2
    BY <1>3 DEF Index
  <2>2. n1 * K + K <= NodeCount * K
    BY <1>1, <1>2, StrideApart
  <2>3. NodeCount * K = K * NodeCount /\ n1 * K \in Nat
    BY <1>1, <1>2
  <2>4. n1 * K + id1 = n2 * K + id2 => id1 = id2 /\ n1 = n2
    BY <1>2, OneDivision
  <2>5. QED
    BY <2>1, <2>2, <2>3, <2>4, <1>1
<1>4. CASE lay # "node-major"
  <2>1. Index(lay, K, id1, n1) = id1 * NodeCount + n1
        /\ Index(lay, K, id2, n2) = id2 * NodeCount + n2
    BY <1>4 DEF Index
  <2>2. id1 * NodeCount + NodeCount <= K * NodeCount
    BY <1>1, StrideApart
  <2>3. id1 * NodeCount \in Nat /\ K * NodeCount \in Nat
    BY <1>1
  <2>4. id1 * NodeCount + n1 = id2 * NodeCount + n2 => id1 = id2 /\ n1 = n2
    BY <1>1, OneDivision DEF Nodes
  <2>5. QED
    BY <2>1, <2>2, <2>3, <2>4, <1>1, <1>2
<1>5. QED
  BY <1>3, <1>4

------------------------------------------------------------------------------
LEMMA PackageStepIsTableStep == [PackageNext]_packageVars => [Next]_vars
<1>1. Assign => Next
  BY DEF Assign, Next
<1>2. Define => Next
  BY DEF Define, Next
<1>3. CompileSite => Next
  BY DEF CompileSite, Next
<1>4. EmitTable => Next
  BY DEF EmitTable, Next
<1>5. CheckTable \/ CheckProduct \/ CheckVersions \/ CheckDomains \/ CheckWeights
        \/ CheckRodata => UNCHANGED vars
  BY DEF CheckTable, CheckProduct, CheckVersions, CheckDomains, CheckWeights,
         CheckRodata, Check
<1>6. UNCHANGED packageVars => UNCHANGED vars
  BY DEF packageVars
<1>7. QED
  BY <1>1, <1>2, <1>3, <1>4, <1>5, <1>6 DEF PackageNext

(* Building and checking a package does to the registry and the table only *)
(* what RouteTable allows.                                                 *)
THEOREM PackageIsTable == PackageSpec => Spec
<1>1. PackageInit => Init
  BY DEF PackageInit
<1>2. QED
  BY <1>1, PackageStepIsTableStep, PTL DEF PackageSpec, Spec

(* Invariant O1 of the registry a package is built with.                   *)
THEOREM PackageOneToOne == PackageSpec => []OneToOne
<1>1. QED
  BY PackageIsTable, RegistryOneToOne, PTL

------------------------------------------------------------------------------
\* The declared product has no error against the table.
ProductClean(i) == \A o \in Objects[i] : ProductErrors(o, Count) = {}

(* What the checks that have run found nothing wrong with. *)
ReportInv ==
  /\ checked \in 0..6
  /\ versions \in VersionSet
  /\ shard \in Nat
  /\ errors = {} =>
       /\ checked >= 2 /\ object # 0 =>
            object \in DOMAIN Manifests /\ ProductClean(object)
       /\ checked >= 3 => VersionErrors(mirror) = {}
       /\ checked >= 4 => DomainErrors(concurrent, once) = {}
       /\ checked >= 5 => WeightErrors(shard) = {}

LEMMA ReportInitial == PackageInit => ReportInv
  BY DEF PackageInit, ReportInv

(* What a check depends on is not touched once a check has run.            *)
LEMMA FoundNothing ==
  ASSUME UNCHANGED <<keys, owner, versions>>
  PROVE  /\ UNCHANGED object => ProductClean(object)' = ProductClean(object)
         /\ UNCHANGED mirror => VersionErrors(mirror)' = VersionErrors(mirror)
         /\ UNCHANGED shard => WeightErrors(shard)' = WeightErrors(shard)
         /\ UNCHANGED <<concurrent, once>> =>
              DomainErrors(concurrent, once)' = DomainErrors(concurrent, once)
<1>1. UNCHANGED mirror => VersionErrors(mirror)' = VersionErrors(mirror)
  BY DEF VersionErrors
<1>2. UNCHANGED shard => WeightErrors(shard)' = WeightErrors(shard)
  BY DEF WeightErrors
<1>3. OpcodesUsed' = OpcodesUsed
  BY DEF OpcodesUsed
<1>4. UNCHANGED <<concurrent, once>> =>
        DomainErrors(concurrent, once)' = DomainErrors(concurrent, once)
  BY <1>3 DEF DomainErrors, Shares
<1>5. Count' = Count
  BY DEF Count
<1>6. UNCHANGED object => ProductClean(object)' = ProductClean(object)
  BY <1>5 DEF ProductClean
<1>7. QED
  BY <1>1, <1>2, <1>4, <1>6

LEMMA ReportStep == ReportInv /\ [PackageNext]_packageVars => ReportInv'
<1> SUFFICES ASSUME ReportInv, [PackageNext]_packageVars
             PROVE  ReportInv'
  OBVIOUS
<1>1. CASE Assign \/ Define \/ CompileSite \/ EmitTable
  <2>1. checked = 0 /\ UNCHANGED <<versions, shard, checked>>
    BY <1>1 DEF Assign, Define, CompileSite, EmitTable, Building, parts, report
  <2>2. QED
    BY <2>1 DEF ReportInv
<1>2. CASE CheckTable
  <2>1. checked' = 1 /\ UNCHANGED <<versions, shard>>
    BY <1>2 DEF CheckTable, Check, parts
  <2>2. QED
    BY <2>1 DEF ReportInv
<1>3. CASE CheckProduct
  <2>1. /\ checked' = 2 /\ UNCHANGED <<keys, owner, versions, shard>>
    BY <1>3 DEF CheckProduct, Check, vars, table
  <2>2. CASE object' = 0
    BY <2>1, <2>2 DEF ReportInv
  <2>3. CASE object' # 0
    <3>1. PICK i \in DOMAIN Manifests : \E o \in Objects[i] :
            errors' = ProductErrors(o, Count) /\ object' = i
      BY <1>3, <2>3 DEF CheckProduct, Check
    <3>2. Objects[i] = LoadObject(Manifests[i])
      BY DEF Objects
    <3>3. \A x, y \in Objects[i] : x = y
      BY <3>2 DEF LoadObject
    <3>4. Count' = Count
      BY <2>1 DEF Count
    <3>5. errors' = {} => ProductClean(object)'
      BY <3>1, <3>3, <3>4 DEF ProductClean
    <3>6. QED
      BY <2>1, <3>1, <3>5 DEF ReportInv
  <2>4. QED
    BY <2>2, <2>3
<1>4. CASE CheckVersions
  <2>1. /\ checked = 2 /\ errors = {} /\ checked' = 3 /\ errors' = VersionErrors(mirror)'
        /\ UNCHANGED <<keys, owner, versions, shard, object>>
    BY <1>4 DEF CheckVersions, Check, VersionErrors, vars, table
  <2>2. object # 0 => ProductClean(object)'
    BY <2>1, FoundNothing DEF ReportInv
  <2>3. QED
    BY <2>1, <2>2 DEF ReportInv
<1>5. CASE CheckDomains
  <2>1. PICK sets \in Concurrent, iterator \in BOOLEAN :
          /\ Check(4, DomainErrors(sets, iterator))
          /\ concurrent' = sets /\ once' = iterator
          /\ UNCHANGED <<mirror, object, shard>>
    BY <1>5 DEF CheckDomains
  <2>2. /\ checked = 3 /\ errors = {} /\ checked' = 4
        /\ UNCHANGED <<keys, owner, versions, mirror, object, shard>>
    BY <2>1 DEF Check, vars, table
  <2>3. DomainErrors(concurrent, once)' = DomainErrors(sets, iterator)
    <3>1. OpcodesUsed' = OpcodesUsed
      BY <2>2 DEF OpcodesUsed
    <3>2. QED
      BY <2>1, <2>2, <3>1 DEF DomainErrors, Shares
  <2>4. errors' = DomainErrors(concurrent, once)'
    BY <2>1, <2>3 DEF Check
  <2>5. VersionErrors(mirror)' = {} /\ (object # 0 => ProductClean(object)')
    BY <2>2, FoundNothing DEF ReportInv
  <2>6. QED
    BY <2>2, <2>4, <2>5 DEF ReportInv
<1>6. CASE CheckWeights
  <2>1. PICK bytes \in ShardSizes :
          /\ Check(5, WeightErrors(bytes)) /\ shard' = bytes
          /\ UNCHANGED <<mirror, object, concurrent, once>>
    BY <1>6 DEF CheckWeights
  <2>2. /\ checked = 4 /\ errors = {} /\ checked' = 5 /\ shard' \in Nat
        /\ UNCHANGED <<keys, owner, versions, mirror, object, concurrent, once>>
    BY <2>1, PackageAssumption DEF Check, vars, table
  <2>3. errors' = WeightErrors(shard)'
    BY <2>1 DEF Check, WeightErrors
  <2>4. /\ VersionErrors(mirror)' = {} /\ DomainErrors(concurrent, once)' = {}
        /\ object # 0 => ProductClean(object)'
    BY <2>2, FoundNothing DEF ReportInv
  <2>5. QED
    BY <2>2, <2>3, <2>4 DEF ReportInv
<1>7. CASE CheckRodata
  <2>1. /\ checked = 5 /\ errors = {} /\ checked' = 6
        /\ UNCHANGED <<keys, owner, versions, mirror, object, shard, concurrent, once>>
    BY <1>7 DEF CheckRodata, Check, vars, table, parts
  <2>2. /\ VersionErrors(mirror)' = {} /\ DomainErrors(concurrent, once)' = {}
        /\ WeightErrors(shard)' = {} /\ (object # 0 => ProductClean(object)')
    BY <2>1, FoundNothing DEF ReportInv
  <2>3. QED
    BY <2>1, <2>2 DEF ReportInv
<1>8. CASE UNCHANGED packageVars
  <2>1. UNCHANGED <<keys, owner, versions, mirror, object, shard, concurrent, once, checked, errors>>
    BY <1>8 DEF packageVars, vars, table, parts, report
  <2>2. QED
    BY <2>1, FoundNothing DEF ReportInv
<1>9. QED
  BY <1>1, <1>2, <1>3, <1>4, <1>5, <1>6, <1>7, <1>8 DEF PackageNext

(* The inductive invariant of the report.                                  *)
THEOREM PackageReport == PackageSpec => []ReportInv
<1>1. QED
  BY ReportInitial, ReportStep, PTL DEF PackageSpec

(* The one number a package takes from the CalReg image is its table's, so *)
(* a chip's check cannot tell the two apart; and its weights install.      *)
THEOREM PackageOneAlgorithm == PackageSpec => []OneAlgorithm
<1>1. ReportInv => OneAlgorithm
  <2> SUFFICES ASSUME ReportInv, Accepted
               PROVE  /\ \A chip \in VersionSet : PackageFits(chip) <=> TableFits(chip)
                      /\ Installs(shard) /\ shard > 0
    BY DEF OneAlgorithm
  <2>1. mirror = versions.calendar
    BY DEF Accepted, ReportInv, VersionErrors
  <2>2. PackageVersions = versions
    BY <2>1 DEF PackageVersions, ReportInv, VersionSet
  <2>3. shard # 0 /\ shard % PageBytes = 0
    BY DEF Accepted, ReportInv, WeightErrors
  <2>4. shard \in Nat
    BY DEF ReportInv
  <2>5. QED
    BY <2>2, <2>3, <2>4 DEF PackageFits, TableFits, Installs
<1>2. QED
  BY <1>1, PackageReport, PTL
------------------------------------------------------------------------------
(* The table's definitions are those of the registry, and so is the        *)
(* identity a compiled call site was resolved from.                        *)
CompiledInv ==
  /\ owner \in [KeyIds -> Identities \cup {Free}]
  /\ \A id \in keys : byId[id] \in Identities /\ owner[id] = byId[id]
  /\ site # NoSite =>
       \E key \in Identities, red \in RedOps :
         /\ byKey[key] # NoId
         /\ site.ref = [id |-> byKey[key], opcode |-> Opcode[key], redOp |-> red,
                        version |-> versions.route]
         /\ LegalKeyRef(site.ref)

LEMMA CompiledInitial == PackageInit => CompiledInv
<1>1. PackageInit => keys = {} /\ site = NoSite
  BY DEF PackageInit, Init
<1>2. PackageInit => owner \in [KeyIds -> Identities \cup {Free}]
  BY DEF PackageInit
<1>3. QED
  BY <1>1, <1>2 DEF CompiledInv

(* Registering an identity touches no keyId that is taken.                 *)
LEMMA AssignKeeps ==
  ASSUME TypeOK, OneToOne, CompiledInv, Assign
  PROVE  CompiledInv'
<1>1. PICK key \in Identities, id \in KeyIds :
        /\ byKey[key] = NoId /\ byId[id] \in {Free, key} /\ Bind(key, id)
        /\ UNCHANGED <<keys, owner, site, versions>>
  BY DEF Assign, Register, RegisterAs, Lowest, Vacant, table
<1>2. byId[id] = Free
  BY <1>1 DEF TypeOK, OneToOne, KeyIds, NoId
<1>3. \A i \in keys : byId'[i] = byId[i]
  <2>1. \A i \in keys : i \in KeyIds /\ i # id
    BY <1>2, TableAssumption DEF TypeOK, CompiledInv
  <2>2. QED
    BY <1>1, <2>1 DEF Bind, TypeOK
<1>4. \A k \in Identities : byKey[k] # NoId => byKey'[k] = byKey[k]
  BY <1>1 DEF Bind, TypeOK
<1>5. ASSUME site' # NoSite
      PROVE  \E k \in Identities, red \in RedOps :
               /\ byKey'[k] # NoId
               /\ site'.ref = [id |-> byKey'[k], opcode |-> Opcode[k], redOp |-> red,
                               version |-> versions'.route]
               /\ LegalKeyRef(site'.ref)
  BY <1>1, <1>4, <1>5 DEF CompiledInv
<1>6. QED
  BY <1>1, <1>3, <1>5 DEF CompiledInv, LegalKeyRef

LEMMA CompiledStep ==
  TypeOK /\ OneToOne /\ CompiledInv /\ [PackageNext]_packageVars => CompiledInv'
<1> SUFFICES ASSUME TypeOK, OneToOne, CompiledInv, [PackageNext]_packageVars
             PROVE  CompiledInv'
  OBVIOUS
<1>1. CASE Assign
  BY <1>1, AssignKeeps
<1>2. CASE Define
  <2>1. PICK id \in KeyIds :
          /\ byId[id] # Free /\ keys' = keys \cup {id}
          /\ owner' = [owner EXCEPT ![id] = byId[id]]
          /\ UNCHANGED <<byId, byKey, site, versions>>
    BY <1>2 DEF Define, AddKey, registry
  <2>2. byId[id] \in Identities
    BY <2>1 DEF TypeOK
  <2>3. owner' \in [KeyIds -> Identities \cup {Free}]
    BY <2>1, <2>2 DEF CompiledInv
  <2>4. \A i \in keys' : byId'[i] \in Identities /\ owner'[i] = byId'[i]
    BY <2>1, <2>2 DEF CompiledInv, TypeOK
  <2>5. QED
    BY <2>1, <2>3, <2>4 DEF CompiledInv, LegalKeyRef
<1>3. CASE CompileSite
  <2>1. PICK key \in Identities, red \in RedOps :
          LET ref == [id |-> byKey[key], opcode |-> Opcode[key], redOp |-> red,
                      version |-> versions.route]
          IN /\ KeyRef(key) /\ LegalKeyRef(ref)
             /\ site' = [ref |-> ref, count |-> Count]
    BY <1>3 DEF CompileSite
  <2>2. byKey[key] # NoId /\ UNCHANGED <<byId, byKey, keys, owner, versions>>
    BY <1>3, <2>1 DEF CompileSite, KeyRef, registry, table
  <2>3. site'.ref = [id |-> byKey[key], opcode |-> Opcode[key], redOp |-> red,
                     version |-> versions.route]
    BY <2>1
  <2>4. LegalKeyRef(site'.ref)
    BY <2>1, <2>3
  <2>5. QED
    BY <2>2, <2>3, <2>4 DEF CompiledInv, LegalKeyRef
<1>4. CASE UNCHANGED <<byId, byKey, keys, owner, site, versions>>
  BY <1>4 DEF CompiledInv, LegalKeyRef
<1>5. CASE EmitTable \/ UNCHANGED packageVars
  BY <1>4, <1>5 DEF EmitTable, Emit, packageVars, vars, registry, table
<1>6. CASE CheckTable \/ CheckProduct \/ CheckVersions \/ CheckDomains \/ CheckWeights
             \/ CheckRodata
  <2>1. UNCHANGED <<vars, owner, versions, site>>
    BY <1>6 DEF CheckTable, CheckProduct, CheckVersions, CheckDomains, CheckWeights,
                CheckRodata, Check
  <2>2. QED
    BY <1>4, <2>1 DEF vars, registry, table
<1>7. QED
  BY <1>1, <1>2, <1>3, <1>5, <1>6 DEF PackageNext

(* The inductive invariant of what has been compiled.                      *)
THEOREM PackageCompiled == PackageSpec => [](TypeOK /\ OneToOne /\ CompiledInv)
<1>1. PackageSpec => [](TypeOK /\ OneToOne)
  BY PackageIsTable, TableTypeCorrect, RegistryOneToOne, PTL
<1>2. QED
  BY <1>1, CompiledInitial, CompiledStep, PTL DEF PackageSpec

(* Whatever is registered and defined after a call site was compiled, the  *)
(* table states its key reference for its keyId.                           *)
THEOREM SitesMeanTheirKeys == PackageSpec => []SiteMeansItsKey
<1>1. TypeOK /\ OneToOne /\ CompiledInv => SiteMeansItsKey
  <2> SUFFICES ASSUME TypeOK, OneToOne, CompiledInv, site # NoSite, site.ref.id \in keys
               PROVE  site.ref = ImmediateRef(site.ref.id)
    BY DEF SiteMeansItsKey
  <2>1. PICK key \in Identities, red \in RedOps :
          /\ byKey[key] # NoId
          /\ site.ref = [id |-> byKey[key], opcode |-> Opcode[key], redOp |-> red,
                         version |-> versions.route]
          /\ LegalKeyRef(site.ref)
    BY DEF CompiledInv
  <2>2. site.ref.id = byKey[key] /\ byKey[key] \in KeyIds
    BY <2>1 DEF TypeOK
  <2>3. owner[byKey[key]] = key
    BY <2>2 DEF OneToOne, CompiledInv
  <2>4. red = IF Opcode[key] \in Reductions THEN "SUM" ELSE "NONE"
    BY <2>1 DEF LegalKeyRef, RedOps
  <2>5. QED
    BY <2>1, <2>2, <2>3, <2>4 DEF ImmediateRef
<1>2. QED
  BY <1>1, PackageCompiled, PTL

(* No two identities of one opcode are in flight together in an accepted   *)
(* package whose concurrent sets can be read more than once, or whose      *)
(* identities have one opcode.                                             *)
THEOREM PackageSharesNoDomain == PackageSpec => []NoSharedDomain
<1>1. TypeOK /\ CompiledInv /\ ReportInv => NoSharedDomain
  <2> SUFFICES ASSUME TypeOK, CompiledInv, ReportInv, Accepted, once => Cardinality(OpcodesUsed) = 1,
                      NEW i \in DOMAIN concurrent,
                      NEW a \in concurrent[i] \cap keys, NEW b \in concurrent[i] \cap keys,
                      Opcode[owner[a]] = Opcode[owner[b]], a # b
               PROVE  FALSE
    BY DEF NoSharedDomain
  <2> DEFINE op == Opcode[owner[a]]
             Together == {id \in concurrent[i] \cap keys : Opcode[owner[id]] = op}
  <2>1. op \in OpcodesUsed
    BY DEF OpcodesUsed
  <2>2. \A x \in OpcodesUsed : x \in 1..6
    BY PackageAssumption DEF OpcodesUsed, CompiledInv
  <2>3. IsFiniteSet(keys)
    <3>1. IsFiniteSet(KeyIds)
      BY FS_Interval, TableAssumption DEF KeyIds
    <3>2. QED
      BY <3>1, FS_Subset DEF TypeOK
  <2>4. Cardinality(Together) > 1
    <3>1. IsFiniteSet(Together)
      BY <2>3, FS_Subset
    <3>2. a \in Together /\ b \in Together \ {a} /\ a \notin Together \ {a}
      OBVIOUS
    <3>3. /\ IsFiniteSet(Together \ {a})
          /\ Cardinality(Together \ {a}) = Cardinality(Together) - 1
      BY <3>1, <3>2, FS_RemoveElement
    <3>4. Cardinality(Together \ {a}) # 0
      BY <3>2, <3>3, FS_EmptySet
    <3>5. Cardinality(Together) \in Nat /\ Cardinality(Together \ {a}) \in Nat
      BY <3>1, <3>3, FS_CardinalityType
    <3>6. QED
      BY <3>3, <3>4, <3>5
  <2>5. Shares(concurrent[i], op)
    BY <2>4 DEF Shares
  <2>6. once => op = Min(OpcodesUsed)
    <3>1. SUFFICES ASSUME once
                   PROVE  op = Min(OpcodesUsed)
      OBVIOUS
    <3>2. OpcodesUsed = {op}
      <4>1. IsFiniteSet(OpcodesUsed)
        <5>1. IsFiniteSet(1..6)
          <6>1. 1 \in Int /\ 6 \in Int
            OBVIOUS
          <6>2. QED
            BY <6>1, FS_Interval, Zenon
        <5>2. OpcodesUsed \in SUBSET (1..6)
          BY <2>2, Zenon
        <5>3. QED
          BY <5>1, <5>2, FS_Subset
      <4>2. QED
        BY <2>1, <3>1, <4>1, FS_Singleton
    <3>3. op \in Int
      <4>1. op \in 1..6
        BY <2>1, <2>2, Zenon
      <4>2. QED
        BY <4>1
    <3>4. QED
      BY <3>2, <3>3 DEF Min
  <2>7. DomainErrors(concurrent, once) = {}
    BY DEF Accepted, ReportInv
  <2>8. QED
    BY <2>1, <2>5, <2>6, <2>7 DEF DomainErrors
<1>2. QED
  BY <1>1, PackageCompiled, PackageReport, PTL
------------------------------------------------------------------------------
(* The kernel object. *)

(* A quotient, from the quotient and the remainder.                        *)
LEMMA Quotient ==
  ASSUME NEW b \in Nat \ {0}, NEW d \in 0..(b - 1), NEW y \in Nat
  PROVE  (y * b + d) \div b = y /\ (y * b + d) % b = d
<1> DEFINE x == y * b + d
           q == x \div b
<1>1. x \in Nat /\ y * b \in Nat
  OBVIOUS
<1>2. q \in Int /\ x = b * q + (x % b) /\ (x % b) \in 0..(b - 1)
  BY <1>1
<1>3. q \in Nat
  BY <1>1
<1>4. q * b + (x % b) = y * b + d
  BY <1>2
<1>5. q = y /\ (x % b) = d
  <2> HIDE DEF q, x
  <2>1. x % b \in 0..(b - 1) /\ d \in 0..(b - 1) /\ b \in Nat /\ q \in Nat
    BY <1>2, <1>3
  <2>2. QED
    BY <2>1, <1>4, OneDivision
<1>6. QED
  BY <1>5

(* Whole entries never straddle a line of whole entries.                   *)
LEMMA LineOfEntry ==
  ASSUME NEW L \in Nat \ {0}, NEW q \in Nat
  PROVE  (16 * q) \div (L * 16) = (16 * q + 16 - 1) \div (L * 16)
<1> DEFINE d == q \div L
           r == q % L
<1>1. d \in Nat /\ r \in 0..(L - 1) /\ q = L * d + r
  OBVIOUS
<1> HIDE DEF d, r
<1> DEFINE B == L * 16
<1>2. B \in Nat \ {0} /\ 16 * r \in 0..(B - 1) /\ 16 * r + 15 \in 0..(B - 1)
  BY <1>1
<1>3. 16 * q = d * B + 16 * r /\ 16 * q + 16 - 1 = d * B + (16 * r + 15)
  BY <1>1
<1> HIDE DEF B
<1>4. (d * B + 16 * r) \div B = d /\ (d * B + (16 * r + 15)) \div B = d
  BY <1>1, <1>2, Quotient
<1>5. QED
  BY <1>3, <1>4 DEF B

LEMMA KeyCount == ASSUME TypeOK PROVE IsFiniteSet(keys) /\ Count \in Nat
<1>1. IsFiniteSet(KeyIds)
  BY FS_Interval, TableAssumption DEF KeyIds
<1>2. QED
  BY <1>1, FS_Subset, FS_CardinalityType DEF TypeOK, Count

(* The product declared clean for a table is that table's alone.           *)
LEMMA CleanFits ==
  ASSUME TypeOK, NEW keyCount \in 1..MaxKeys
  PROVE  ProductErrors(CleanObject(keyCount), Count) = {} <=> keyCount = Count
<1> DEFINE o == CleanObject(keyCount)
           f == [name |-> "ffn_fused", kind |-> "function", section |-> ".text",
                 size |-> 512, align |-> 1]
           t == [name |-> RouteSymbol, kind |-> "read-only object", section |-> ".rodata",
                 size |-> keyCount * NodeCount * EntryBytes, align |-> LineBytes]
           text == [name |-> ".text", align |-> 4]
           rodata == [name |-> ".rodata", align |-> LineBytes]
<1>1. o.symbols = <<f, t>> /\ o.sections = <<text, rodata>>
  BY DEF CleanObject
<1>2. /\ LineBytes \in Nat /\ NodeCount \in Nat \ {0} /\ MaxKeys \in Nat /\ Count \in Nat
      /\ EntryBytes \in Nat /\ keyCount \in Nat
  BY TableAssumption, KeyCount DEF LineBytes, EntryBytes
<1> DEFINE bytes == keyCount * NodeCount * EntryBytes
<1>3. /\ f.name = "ffn_fused" /\ f.kind = "function" /\ f.section = ".text"
      /\ t.name = RouteSymbol /\ t.kind = "read-only object" /\ t.section = ".rodata"
      /\ t.size = bytes /\ t.align = LineBytes
      /\ text.name = ".text" /\ rodata.name = ".rodata" /\ rodata.align = LineBytes
  OBVIOUS
<1> HIDE DEF o, f, t, text, rodata, bytes
<1>4. /\ DOMAIN o.symbols = {1, 2} /\ o.symbols[1] = f /\ o.symbols[2] = t
      /\ DOMAIN o.sections = {1, 2} /\ o.sections[1] = text /\ o.sections[2] = rodata
  <2>1. \A a, b : DOMAIN <<a, b>> = {1, 2} /\ <<a, b>>[1] = a /\ <<a, b>>[2] = b
    OBVIOUS
  <2>2. QED
    BY <1>1, <2>1
<1>5. Named(o, {RouteSymbol}) = {2} /\ Named(o, KeyRefNames) = {} /\ Sections(o, ".rodata") = {2}
  BY <1>3, <1>4 DEF Named, Sections, RouteSymbol, KeyRefNames
<1>6. Min({2}) = 2
  BY DEF Min
<1>7. \A i \in DOMAIN o.symbols : ~Static(o.symbols[i])
  <2>1. ~Static(f) /\ ~Static(t)
    BY <1>3 DEF Static, IsCalendar, IsWritable, RouteSymbol
  <2>2. QED
    BY <1>4, <2>1
<1>8. WellEmitted(t, Count) <=> bytes = Count * NodeCount * EntryBytes
  <2>1. LineBytes >= LineBytes
    BY <1>2
  <2>2. t.align >= LineBytes
    BY <1>3, <2>1, Zenon
  <2>3. QED
    BY <1>3, <2>2, Zenon DEF WellEmitted
<1>9. ProductErrors(o, Count) = {} <=> WellEmitted(t, Count)
  <2>1. ~(rodata.align < LineBytes)
    <3>1. ~(LineBytes < LineBytes)
      BY <1>2
    <3>2. QED
      BY <1>3, <3>1, Zenon
  <2>2. o.sections[Min({2})] = rodata /\ o.symbols[Min({2})] = t
    BY <1>4, <1>6
  <2>3. ProductErrors(o, Count) = {code \in {"F1", "F2", "F3"} : code = "F3" /\ ~WellEmitted(t, Count)}
    BY <1>5, <1>7, <2>1, <2>2 DEF ProductErrors
  <2>4. QED
    BY <2>3
<1>10. bytes = Count * NodeCount * EntryBytes <=> keyCount = Count
  <2>1. ASSUME NEW a \in Nat, NEW b \in Nat, a < b
        PROVE  a * NodeCount * EntryBytes < b * NodeCount * EntryBytes
    <3>1. a * NodeCount + NodeCount <= b * NodeCount
      BY <1>2, <2>1, StrideApart
    <3>2. QED
      BY <1>2, <3>1 DEF EntryBytes
  <2>2. keyCount < Count => bytes < Count * NodeCount * EntryBytes
    BY <1>2, <2>1 DEF bytes
  <2>3. Count < keyCount => Count * NodeCount * EntryBytes < bytes
    BY <1>2, <2>1 DEF bytes
  <2>4. bytes \in Int /\ Count * NodeCount * EntryBytes \in Int
    BY <1>2 DEF bytes
  <2>5. keyCount = Count => bytes = Count * NodeCount * EntryBytes
    BY DEF bytes
  <2>6. QED
    BY <1>2, <2>2, <2>3, <2>4, <2>5
<1>11. QED
  BY <1>8, <1>9, <1>10 DEF o

(* What loading a file gives. *)
LEMMA Loaded ==
  ASSUME NEW i \in DOMAIN Manifests, NEW o \in Objects[i]
  PROVE  /\ DOMAIN o.symbols \subseteq Nat
         /\ \A j \in DOMAIN o.symbols : o.symbols[j].size \in Int /\ o.symbols[j].align \in Nat \ {0}
<1> DEFINE file == Manifests[i]
           s == [j \in DOMAIN file.symbols |-> Completed(file.symbols[j], SymbolDefaults)]
<1>1. WellTyped(file)
  BY PackageAssumption
<1>2. o.symbols = s /\ WellFormedObject(o)
  BY DEF Objects, LoadObject
<1>3. ASSUME NEW j \in DOMAIN file.symbols PROVE s[j].size \in Int /\ s[j].align \in Int
  <2>1. DOMAIN SymbolDefaults = {"kind", "section", "size", "align"}
        /\ SymbolDefaults.size = 0 /\ SymbolDefaults.align = 1
    BY DEF SymbolDefaults
  <2> DEFINE c == Completed(file.symbols[j], SymbolDefaults)
  <2>2. c["size"] = IF "size" \in DOMAIN file.symbols[j] THEN file.symbols[j]["size"] ELSE 0
    BY <2>1 DEF Completed
  <2>3. c["align"] = IF "align" \in DOMAIN file.symbols[j] THEN file.symbols[j]["align"] ELSE 1
    BY <2>1 DEF Completed
  <2>4. QED
    BY <1>1, <2>2, <2>3 DEF WellTyped
<1>4. QED
  BY <1>1, <1>2, <1>3 DEF WellTyped, WellFormedObject

(* The rows of an accepted package, wherever the linker puts its table,    *)
(* are inside the table's symbol and in one cache line each, and nothing   *)
(* of that name can be written.                                            *)
THEOREM PackageRowsAreSafe == PackageSpec => []RowsAreSafe
<1>1. TypeOK /\ ReportInv => RowsAreSafe
  <2> SUFFICES ASSUME TypeOK, ReportInv PROVE RowsAreSafe
    OBVIOUS
  <2>1. Building => \A keyCount \in 1..MaxKeys :
          ProductErrors(CleanObject(keyCount), Count) = {} <=> keyCount = Count
    BY CleanFits
  <2>2. ASSUME Accepted, object # 0, NEW o \in Objects[object]
        PROVE  LET tables == Named(o, {RouteSymbol})
                   found == o.symbols[Min(tables)]
               IN /\ \A i \in tables : ~IsWritable(o.symbols[i])
                  /\ Dense(keys) => \A base \in Bases(found.align) : \A a \in RowAddresses(base) :
                       /\ base <= a /\ a + EntryBytes <= base + found.size
                       /\ found.align \in Aligns => a \div LineBytes = (a + EntryBytes - 1) \div LineBytes
    <3> DEFINE tables == Named(o, {RouteSymbol})
               found == o.symbols[Min(tables)]
    <3>1. object \in DOMAIN Manifests /\ ProductErrors(o, Count) = {}
      BY <2>2 DEF ReportInv, ProductClean, Accepted
    <3>2. /\ \A i \in DOMAIN o.symbols : ~Static(o.symbols[i])
          /\ tables # {} /\ WellEmitted(found, Count)
      BY <3>1 DEF ProductErrors
    <3>3. \A i \in tables : ~IsWritable(o.symbols[i])
      BY <3>2 DEF Named, Static, IsCalendar
    <3>4. /\ DOMAIN o.symbols \subseteq Nat
          /\ \A j \in DOMAIN o.symbols : o.symbols[j].size \in Int /\ o.symbols[j].align \in Nat \ {0}
      BY <2>2, <3>1, Loaded
    <3>5. Min(tables) \in DOMAIN o.symbols
      <4>1. tables \subseteq Nat /\ tables # {} /\ tables \subseteq DOMAIN o.symbols
        BY <3>2, <3>4 DEF Named
      <4>2. PICK x \in tables : \A y \in tables : x <= y
        BY <4>1, LeastElement
      <4> HIDE DEF tables
      <4>3. Min(tables) \in tables
        BY <4>2 DEF Min
      <4>4. QED
        BY <4>1, <4>3
    <3> HIDE DEF found
    <3>6. /\ found.align \in Nat \ {0} /\ found.align >= LineBytes
          /\ found.size = Count * NodeCount * EntryBytes
      BY <3>2, <3>4, <3>5 DEF WellEmitted, found
    <3>7. ASSUME Dense(keys), NEW base \in Bases(found.align), NEW a \in RowAddresses(base)
          PROVE  /\ base <= a /\ a + EntryBytes <= base + found.size
                 /\ found.align \in Aligns => a \div LineBytes = (a + EntryBytes - 1) \div LineBytes
      <4>1. PICK id \in keys, n \in Nodes : a = base + EntryBytes * Index(layout, Count, id, n)
        BY <3>7 DEF RowAddresses
      <4> DEFINE x == Index(layout, Count, id, n)
      <4>2. x \in 0..(Count * NodeCount - 1)
        <5>1. Count \in Nat /\ layout \in Layouts /\ id \in 0..(Count - 1)
          BY <3>7, KeyCount DEF TypeOK, Dense, Count
        <5>2. QED
          BY <5>1, RowsApart
      <4> HIDE DEF x
      <4>3. PICK k \in 0..4 : base = found.align * k
        BY <3>7 DEF Bases
      <4>4. Count * NodeCount \in Nat /\ LineCells \in Nat \ {0} /\ base \in Nat
        BY <3>6, <4>3, KeyCount, TableAssumption
      <4>5. a = base + 16 * x /\ found.size = (Count * NodeCount) * 16
        BY <4>1, <3>6 DEF EntryBytes, x
      <4>6. base <= a /\ a + EntryBytes <= base + found.size
        BY <4>2, <4>4, <4>5 DEF EntryBytes
      <4>7. ASSUME found.align \in Aligns
            PROVE  a \div LineBytes = (a + EntryBytes - 1) \div LineBytes
        <5>1. found.align >= 16
          BY <3>6, <4>4 DEF LineBytes, EntryBytes
        <5>2. found.align \in {16, 32, 64, 128}
          BY <4>7, <5>1 DEF Aligns
        <5>3. PICK m \in Nat : found.align = 16 * m
          <6>1. found.align = 16 * 1 \/ found.align = 16 * 2 \/ found.align = 16 * 4 \/ found.align = 16 * 8
            BY <5>2
          <6>2. QED
            BY <6>1
        <5>4. a = 16 * (m * k + x) /\ m * k + x \in Nat
          BY <4>2, <4>3, <4>5, <5>3
        <5>5. (16 * (m * k + x)) \div (LineCells * 16) = (16 * (m * k + x) + 16 - 1) \div (LineCells * 16)
          BY <4>4, <5>4, LineOfEntry
        <5>6. QED
          BY <5>4, <5>5 DEF LineBytes, EntryBytes
      <4>8. QED
        BY <4>6, <4>7
    <3>8. QED
      BY <3>3, <3>7 DEF found
  <2>3. QED
    BY <2>1, <2>2 DEF RowsAreSafe
<1>2. QED
  BY <1>1, PackageCompiled, PackageReport, PTL
------------------------------------------------------------------------------
(* The file. *)

Rank(K, x) == Cardinality({j \in K : j < x})

(* A finite set of numbers is listed once and completely by KeyAt.         *)
LEMMA KeysInOrder ==
  ASSUME NEW K, K \subseteq Nat, IsFiniteSet(K)
  PROVE  /\ Cardinality(K) \in Nat
         /\ \A i \in 1..Cardinality(K) :
              KeyAt(K, i) \in K /\ Rank(K, KeyAt(K, i)) = i - 1
         /\ \A i, k \in 1..Cardinality(K) : KeyAt(K, i) = KeyAt(K, k) => i = k
         /\ \A x \in K : \E i \in 1..Cardinality(K) : KeyAt(K, i) = x
<1> DEFINE n == Cardinality(K)
           Below(x) == {j \in K : j < x}
           rank == [x \in K |-> Cardinality(Below(x)) + 1]
<1>1. n \in Nat
  BY FS_CardinalityType
<1>2. ASSUME NEW x \in K
      PROVE  /\ IsFiniteSet(Below(x)) /\ Cardinality(Below(x)) \in Nat
             /\ Cardinality(Below(x)) + 1 <= n
  <2>1. Below(x) \in SUBSET (K \ {x}) /\ x \in Nat
    OBVIOUS
  <2>2. IsFiniteSet(K \ {x}) /\ Cardinality(K \ {x}) = n - 1
    BY FS_RemoveElement
  <2>3. IsFiniteSet(Below(x)) /\ Cardinality(Below(x)) <= Cardinality(K \ {x})
    <3> HIDE DEF Below
    <3>1. QED
      BY <2>1, <2>2, FS_Subset
  <2>4. Cardinality(Below(x)) \in Nat
    BY <2>3, FS_CardinalityType
  <2>5. QED
    BY <1>1, <2>2, <2>3, <2>4
<1>3. ASSUME NEW x \in K, NEW y \in K, x < y
      PROVE  Cardinality(Below(x)) < Cardinality(Below(y))
  <2>1. Below(x) \in SUBSET (Below(y) \ {x}) /\ x \in Below(y)
    <3>1. \A j \in K : j < x => j < y /\ j # x
      <4>1. \A j \in K : j \in Nat /\ x \in Nat /\ y \in Nat
        OBVIOUS
      <4>2. QED
        BY <1>3, <4>1
    <3>2. QED
      BY <1>3, <3>1
  <2>2. IsFiniteSet(Below(y)) /\ IsFiniteSet(Below(x))
    BY <1>2
  <2> HIDE DEF Below
  <2>3. /\ IsFiniteSet(Below(y) \ {x})
        /\ Cardinality(Below(y) \ {x}) = Cardinality(Below(y)) - 1
    BY <2>1, <2>2, FS_RemoveElement
  <2>4. Cardinality(Below(x)) <= Cardinality(Below(y) \ {x})
    BY <2>1, <2>3, FS_Subset
  <2>5. Cardinality(Below(x)) \in Nat /\ Cardinality(Below(y)) \in Nat
    BY <1>2
  <2>6. QED
    BY <2>3, <2>4, <2>5
<1>4. ASSUME NEW x \in K, NEW y \in K, Cardinality(Below(x)) = Cardinality(Below(y))
      PROVE  x = y
  <2>1. x \in Nat /\ y \in Nat
    OBVIOUS
  <2>2. Cardinality(Below(x)) \in Nat
    BY <1>2
  <2> HIDE DEF Below
  <2>3. ~(x < y) /\ ~(y < x)
    BY <1>3, <1>4, <2>2
  <2>4. QED
    BY <2>1, <2>3
<1> HIDE DEF Below
<1>5. rank \in Injection(K, 1..n)
  <2>1. rank \in [K -> 1..n]
    BY <1>1, <1>2
  <2>2. \A x, y \in K : rank[x] = rank[y] => x = y
    BY <1>2, <1>4
  <2> HIDE DEF rank
  <2>3. QED
    BY <2>1, <2>2 DEF Injection, IsInjective
<1>6. rank \in Surjection(K, 1..n)
  <2>1. IsFiniteSet(1..n) /\ Cardinality(1..n) = n
    BY <1>1, FS_Interval
  <2> HIDE DEF rank
  <2>2. QED
    BY <1>5, <2>1, FS_Injection
<1>7. \A i \in 1..n : \E x \in K : Cardinality(Below(x)) = i - 1
  <2>1. \A i \in 1..n : \E x \in K : rank[x] = i
    <3> HIDE DEF rank
    <3>1. QED
      BY <1>6 DEF Surjection
  <2>2. ASSUME NEW i \in 1..n PROVE \E x \in K : Cardinality(Below(x)) = i - 1
    <3>1. PICK x \in K : rank[x] = i
      BY <2>1
    <3>2. Cardinality(Below(x)) + 1 = i
      BY <3>1
    <3>3. Cardinality(Below(x)) = i - 1
      BY <1>2, <3>2
    <3>4. QED
      BY <3>3
  <2>3. QED
    BY <2>2
<1>8. \A i : KeyAt(K, i) = CHOOSE x \in K : Cardinality(Below(x)) = i - 1
  BY DEF KeyAt, Below
<1>9. \A i \in 1..n : KeyAt(K, i) \in K /\ Cardinality(Below(KeyAt(K, i))) = i - 1
  BY <1>7, <1>8
<1>10. ASSUME NEW x \in K PROVE \E i \in 1..n : KeyAt(K, i) = x
  <2> DEFINE i == Cardinality(Below(x)) + 1
  <2>1. i \in 1..n /\ i - 1 = Cardinality(Below(x))
    BY <1>1, <1>2
  <2> HIDE DEF i
  <2>2. KeyAt(K, i) \in K /\ Cardinality(Below(KeyAt(K, i))) = Cardinality(Below(x))
    BY <1>9, <2>1
  <2>3. QED
    BY <1>4, <2>1, <2>2
<1>11. \A i, k \in 1..n : KeyAt(K, i) = KeyAt(K, k) => i = k
  <2>1. ASSUME NEW i \in 1..n, NEW k \in 1..n, KeyAt(K, i) = KeyAt(K, k) PROVE i = k
    <3>1. i - 1 = k - 1
      BY <1>9, <2>1
    <3>2. QED
      BY <3>1
  <2>2. QED
    BY <2>1
<1>12. QED
  BY <1>1, <1>9, <1>10, <1>11 DEF Below, Rank

(* The greatest number of a bounded set.                                   *)
LEMMA Greatest ==
  ASSUME NEW T, NEW n \in Nat, T \subseteq 0..n, T # {}
  PROVE  Max(T) \in T /\ \A y \in T : y <= Max(T)
<1> DEFINE U == {n - x : x \in T}
<1>0. \A x \in T : x \in Int /\ 0 <= x /\ x <= n
  OBVIOUS
<1>1. U \subseteq Nat /\ U # {}
  <2>1. \A x \in T : n - x \in Nat
    BY <1>0
  <2>2. \A w \in U : w \in Nat
    BY <2>1
  <2>3. PICK x \in T : TRUE
    OBVIOUS
  <2>4. n - x \in U
    OBVIOUS
  <2>5. QED
    BY <2>2, <2>4
<1>2. PICK u \in U : \A w \in U : u <= w
  <2> HIDE DEF U
  <2>1. QED
    BY <1>1, LeastElement
<1>3. PICK x \in T : u = n - x
  BY <1>2
<1>4. \A y \in T : x >= y
  <2>1. ASSUME NEW y \in T PROVE x >= y
    <3>1. n - y \in U
      OBVIOUS
    <3>2. n - x <= n - y
      BY <1>2, <1>3, <3>1
    <3>3. QED
      BY <1>0, <3>2
  <2>2. QED
    BY <2>1
<1>5. \E m \in T : \A y \in T : m >= y
  BY <1>4
<1>6. Max(T) \in T /\ \A y \in T : Max(T) >= y
  BY <1>5 DEF Max
<1>7. QED
  BY <1>6

(* A sequence of one. *)
LEMMA OneElement ==
  ASSUME NEW S, NEW a \in S
  PROVE  <<a>> \in Seq(S) /\ Len(<<a>>) = 1 /\ <<a>>[1] = a
  OBVIOUS

(* The bracket that str appends is the only one rstrip takes off, when the *)
(* text does not end with one.                                             *)
LEMMA BracketOff ==
  ASSUME NEW T, NEW text \in Seq(T)
  PROVE  Stripped(text \o <<")">>) = Stripped(text)
<1> DEFINE S == T \cup {")"}
<1>0. text \in Seq(S) /\ ")" \in S
  BY SeqMonotonic
<1> HIDE DEF S
<1> DEFINE role == text \o <<")">>
           n == Len(text)
           Highest(t) == {0} \cup {i \in DOMAIN t : t[i] # ")"}
<1>1. /\ n \in Nat /\ DOMAIN text = 1..n /\ role \in Seq(S) /\ Len(role) = n + 1
      /\ DOMAIN role = 1..(n + 1)
      /\ \A i \in 1..n : role[i] = text[i]
      /\ role[n + 1] = ")"
  <2>1. <<")">> \in Seq(S) /\ Len(<<")">>) = 1 /\ <<")">>[1] = ")"
    BY <1>0, OneElement
  <2>2. n \in Nat /\ DOMAIN text = 1..n
    BY <1>0, LenProperties
  <2>3. /\ role \in Seq(S) /\ Len(role) = n + 1
        /\ \A i \in 1..(n + 1) : role[i] = IF i <= n THEN text[i] ELSE <<")">>[i - n]
    BY <1>0, <2>1, ConcatProperties
  <2>4. DOMAIN role = 1..(n + 1)
    BY <2>3
  <2> HIDE DEF role
  <2>5. QED
    BY <2>1, <2>2, <2>3, <2>4
<1> HIDE DEF role
<1>2. Highest(role) = Highest(text)
  BY <1>1
<1>3. Highest(text) \subseteq 0..n /\ Highest(text) # {}
  BY <1>1
<1> DEFINE m == Max(Highest(text))
<1>4. m \in 0..n
  <2> HIDE DEF Highest, n
  <2>1. QED
    BY <1>1, <1>3, Greatest
<1>5. SubSeq(role, 1, m) = SubSeq(text, 1, m)
  <2> HIDE DEF m
  <2>1. CASE m = 0
    BY <2>1, SubSeqEmpty
  <2>2. CASE m # 0
    <3>1. 1 \in 1..n /\ m \in 1..n
      BY <1>1, <1>4, <2>2
    <3>2. <<")">> \in Seq(S)
      BY <1>0, OneElement
    <3>3. QED
      BY <1>0, <3>1, <3>2, SubSeqOfConcat1 DEF role
  <2>3. QED
    BY <2>1, <2>2
<1>6. Stripped(role) = SubSeq(role, 1, Max(Highest(role))) /\ Stripped(text) = SubSeq(text, 1, m)
  BY DEF Stripped
<1>7. QED
  BY <1>2, <1>5, <1>6 DEF role

(* Digits are kept and read as a number.                                   *)
LEMMA NumeralRead ==
  ASSUME NEW text \in Seq(STRING), IsNumeral(text)
  PROVE  Stripped(text) = text /\ IsNumber(text) /\ Head(text) # "-"
<1> DEFINE n == Len(text)
<1>1. n \in Nat \ {0} /\ DOMAIN text = 1..n
  BY LenProperties, EmptySeq DEF IsNumeral
<1>2. \A i \in 1..n : text[i] \in {"0", "1"}
  BY <1>1 DEF IsNumeral, Digits
<1>3. {0} \cup {i \in DOMAIN text : text[i] # ")"} = 0..n
  BY <1>1, <1>2
<1>4. Max(0..n) = n
  <2>1. 0..n \subseteq 0..n /\ 0..n # {} /\ n \in 0..n
    BY <1>1
  <2>2. Max(0..n) \in 0..n /\ n <= Max(0..n)
    BY <1>1, <2>1, Greatest
  <2>3. QED
    BY <1>1, <2>2
<1>5. Stripped(text) = text
  BY <1>3, <1>4, SubSeqFull DEF Stripped
<1>6. IsNumber(text)
  <2>1. 0 \in 0..(n - 1)
    BY <1>1
  <2>2. \A i \in DOMAIN text : IF i <= 0 THEN text[i] = "-" ELSE text[i] \in Digits
    BY <1>1, <1>2 DEF Digits
  <2>3. QED
    BY <2>1, <2>2 DEF IsNumber
<1>7. Head(text) = text[1]
  BY <1>1
<1>8. QED
  BY <1>1, <1>2, <1>5, <1>6, <1>7

(* An axis is read back as it was written.                                 *)
LEMMA AxisReadBack ==
  ASSUME NEW axis \in [number : BOOLEAN, text : Seq(STRING)],
         axis.number => IsNumeral(axis.text),
         axis.number \/ (Stripped(axis.text) = axis.text /\ ~IsNumber(axis.text))
  PROVE  ReadAxis(RoleText(axis)) = axis /\ LegalAxis(axis)
<1>1. axis.text \in Seq(STRING) /\ axis.number \in BOOLEAN
      /\ axis = [number |-> axis.number, text |-> axis.text]
  OBVIOUS
<1>2. Stripped(axis.text) = axis.text /\ (axis.number <=> IsNumber(axis.text))
      /\ (axis.number => Head(axis.text) # "-")
  BY <1>1, NumeralRead
<1>3. Stripped(RoleText(axis)) = axis.text
  BY <1>1, <1>2, BracketOff DEF RoleText
<1>4. IsNumber(axis.text) \in BOOLEAN
  BY DEF IsNumber
<1>5. axis.number = IsNumber(axis.text)
  BY <1>1, <1>2, <1>4
<1>6. ReadAxis(RoleText(axis)) = axis
  BY <1>1, <1>3, <1>5, Zenon DEF ReadAxis
<1>7. QED
  BY <1>2, <1>6 DEF LegalAxis

(* A table is the table in its file, when no axis expression reads like a  *)
(* number or ends with a bracket.                                          *)
THEOREM PackageSavedIsLoaded == PackageSpec => []SavedIsLoaded
<1>1. TypeOK /\ CompiledInv => SavedIsLoaded
  <2> SUFFICES ASSUME TypeOK, CompiledInv,
                      \A id \in keys : LET axis == RouteKey[owner[id]].axis
                        IN axis.number \/ (Stripped(axis.text) = axis.text /\ ~IsNumber(axis.text))
               PROVE  FromDict(ToDict) = {[layout |-> layout, versions |-> versions,
                                           keys |-> {<<id, RouteKey[owner[id]]>> : id \in keys}]}
    BY DEF SavedIsLoaded
  <2> DEFINE file == ToDict
             Key(id) == RouteKey[owner[id]]
             At(i) == KeyAt(keys, i)
  <2>1. /\ Count \in Nat
        /\ \A i \in 1..Count : At(i) \in keys
        /\ \A i, k \in 1..Count : At(i) = At(k) => i = k
        /\ \A x \in keys : \E i \in 1..Count : At(i) = x
    <3>1. keys \subseteq Nat
      BY TableAssumption DEF TypeOK, KeyIds
    <3>2. IsFiniteSet(keys)
      BY KeyCount
    <3>3. QED
      BY <3>1, <3>2, KeysInOrder DEF Count
  <2>2. ASSUME NEW id \in keys
        PROVE  /\ Key(id) = [phase |-> Key(id).phase, axis |-> Key(id).axis]
               /\ ReadAxis(RoleText(Key(id).axis)) = Key(id).axis /\ LegalAxis(Key(id).axis)
    <3>1. owner[id] \in Identities
      BY DEF CompiledInv
    <3>2. Key(id) \in [phase : STRING, axis : [number : BOOLEAN, text : Seq(STRING)]]
          /\ (Key(id).axis.number => IsNumeral(Key(id).axis.text))
      BY <3>1, PackageAssumption
    <3>3. Key(id).axis.number \/ (Stripped(Key(id).axis.text) = Key(id).axis.text
                                  /\ ~IsNumber(Key(id).axis.text))
      OBVIOUS
    <3> HIDE DEF Key
    <3>4. Key(id).axis \in [number : BOOLEAN, text : Seq(STRING)]
      BY <3>2
    <3>5. QED
      BY <3>2, <3>3, <3>4, AxisReadBack
  <2>3. /\ file.layout = layout /\ file.versions = versions /\ DOMAIN file.keys = 1..Count
        /\ \A i \in 1..Count : /\ file.keys[i].id = At(i) /\ file.keys[i].phase = Key(At(i)).phase
                               /\ file.keys[i].role = RoleText(Key(At(i)).axis)
    BY DEF ToDict
  <2> HIDE DEF file, Key, At
  <2>4. \A i \in DOMAIN file.keys : /\ ReadAxis(file.keys[i].role) = Key(At(i)).axis
                                    /\ LegalAxis(ReadAxis(file.keys[i].role))
                                    /\ file.keys[i].id \in KeyIds
    BY <2>1, <2>2, <2>3 DEF TypeOK
  <2>5. \A i, j \in DOMAIN file.keys : file.keys[i].id = file.keys[j].id => i = j
    BY <2>1, <2>3
  <2> DEFINE read == {<<file.keys[i].id,
                        [phase |-> file.keys[i].phase, axis |-> ReadAxis(file.keys[i].role)]>> :
                        i \in DOMAIN file.keys}
  <2>6. FromDict(file) = {[layout |-> file.layout, versions |-> file.versions, keys |-> read]}
    BY <2>4, <2>5 DEF FromDict
  <2>7. read = {<<id, Key(id)>> : id \in keys}
    <3>1. \A i \in DOMAIN file.keys :
            <<file.keys[i].id, [phase |-> file.keys[i].phase, axis |-> ReadAxis(file.keys[i].role)]>>
              = <<At(i), Key(At(i))>>
      <4>1. ASSUME NEW i \in DOMAIN file.keys
            PROVE  [phase |-> file.keys[i].phase, axis |-> ReadAxis(file.keys[i].role)] = Key(At(i))
        <5>1. i \in 1..Count /\ At(i) \in keys
          BY <2>1, <2>3
        <5>2. Key(At(i)) = [phase |-> Key(At(i)).phase, axis |-> Key(At(i)).axis]
          BY <2>2, <5>1
        <5>3. ReadAxis(file.keys[i].role) = Key(At(i)).axis /\ file.keys[i].phase = Key(At(i)).phase
          BY <2>3, <2>4, <5>1
        <5>4. QED
          BY <5>2, <5>3, Zenon
      <4>2. QED
        BY <2>3, <4>1
    <3>2. read = {<<At(i), Key(At(i))>> : i \in DOMAIN file.keys}
      BY <3>1
    <3> HIDE DEF read
    <3>3. \A p \in read : p \in {<<id, Key(id)>> : id \in keys}
      BY <2>1, <2>3, <3>2
    <3>4. \A p \in {<<id, Key(id)>> : id \in keys} : p \in read
      <4>1. ASSUME NEW id \in keys PROVE <<id, Key(id)>> \in read
        <5>1. PICK i \in 1..Count : At(i) = id
          BY <2>1
        <5>2. QED
          BY <2>3, <3>2, <5>1
      <4>2. QED
        BY <4>1
    <3>5. QED
      BY <3>3, <3>4
  <2>8. QED
    BY <2>3, <2>6, <2>7 DEF file, Key
<1>2. QED
  BY <1>1, PackageCompiled, PTL
------------------------------------------------------------------------------
(* The cache lines. *)

(* A number is below the next multiple of its divisor and not below its    *)
(* own; this determines the quotient.                                      *)
LEMMA Bounds ==
  ASSUME NEW L \in Nat \ {0}, NEW x \in Nat
  PROVE  x \div L \in Nat /\ (x \div L) * L <= x /\ x < (x \div L) * L + L
<1>1. x = L * (x \div L) + (x % L) /\ x % L \in 0..(L - 1) /\ x \div L \in Nat
  OBVIOUS
<1>2. L * (x \div L) = (x \div L) * L
  BY <1>1
<1>3. QED
  BY <1>1, <1>2

LEMMA IsQuotient ==
  ASSUME NEW L \in Nat \ {0}, NEW x \in Nat, NEW q \in Nat, q * L <= x, x < q * L + L
  PROVE  x \div L = q
<1> DEFINE d == x - q * L
<1>1. d \in 0..(L - 1) /\ x = q * L + d
  OBVIOUS
<1> HIDE DEF d
<1>2. QED
  BY <1>1, Quotient

LEMMA MoreIsNotLess ==
  ASSUME NEW L \in Nat \ {0}, NEW x \in Nat, NEW y \in Nat, x <= y
  PROVE  x \div L <= y \div L
<1> DEFINE a == x \div L
           b == y \div L
<1>1. /\ a \in Nat /\ a * L <= x
      /\ b \in Nat /\ y < b * L + L
  BY Bounds
<1> HIDE DEF a, b
<1>2. ~(b < a)
  <2>1. SUFFICES ASSUME b < a PROVE FALSE
    OBVIOUS
  <2>2. b * L + L <= a * L
    BY <1>1, <2>1, StrideApart
  <2>3. a * L \in Nat /\ b * L \in Nat
    BY <1>1
  <2>4. QED
    BY <1>1, <2>2, <2>3
<1>3. QED
  BY <1>1, <1>2 DEF a, b

\* T is the lines of L cells that K cells from the s-th on lie in.
LinesOfRun(T, L, s, K) == \A l : l \in T <=> \E i \in 0..(K - 1) : l = (s + i) \div L

(* A run of cells touches a run of lines.                                  *)
LEMMA RunOfLines ==
  ASSUME NEW L \in Nat \ {0}, NEW s \in Nat, NEW K \in Nat \ {0}, NEW T,
         LinesOfRun(T, L, s, K)
  PROVE  T = (s \div L)..((s + K - 1) \div L)
<1>0. \A l : l \in T <=> \E i \in 0..(K - 1) : l = (s + i) \div L
  BY DEF LinesOfRun
<1> DEFINE a == s \div L
           b == (s + K - 1) \div L
<1>1. /\ a \in Nat /\ a * L <= s /\ s < a * L + L
      /\ b \in Nat /\ b * L <= s + K - 1 /\ s + K - 1 < b * L + L
  <2>1. s + K - 1 \in Nat
    OBVIOUS
  <2>2. QED
    BY <2>1, Bounds
<1>2. ASSUME NEW i \in 0..(K - 1) PROVE (s + i) \div L \in a..b
  <2>1. s + i \in Nat /\ s + K - 1 \in Nat /\ s <= s + i /\ s + i <= s + K - 1
    OBVIOUS
  <2>2. (s + i) \div L \in Nat /\ a <= (s + i) \div L /\ (s + i) \div L <= b
    BY <2>1, Bounds, MoreIsNotLess
  <2> HIDE DEF a, b
  <2>3. QED
    BY <1>1, <2>2
<1>3. ASSUME NEW l \in a..b PROVE l \in T
  <2>1. l \in Nat /\ a <= l /\ l <= b /\ l * L \in Nat /\ b * L \in Nat /\ a * L \in Nat
    <3> HIDE DEF a, b
    <3>1. l \in Nat /\ a <= l /\ l <= b
      BY <1>1
    <3>2. QED
      BY <1>1, <3>1
  <2> HIDE DEF a, b
  <2>2. CASE l * L < s
    <3>1. ~(a < l)
      <4>1. SUFFICES ASSUME a < l PROVE FALSE
        OBVIOUS
      <4>2. a * L + L <= l * L
        BY <1>1, <2>1, <4>1, StrideApart
      <4>3. QED
        BY <1>1, <2>1, <2>2, <4>2
    <3>2. l = a /\ 0 \in 0..(K - 1) /\ s + 0 = s
      BY <1>1, <2>1, <3>1
    <3>3. QED
      BY <1>0, <3>2 DEF a
  <2>3. CASE ~(l * L < s)
    <3> DEFINE i == l * L - s
    <3>1. l * L <= b * L
      <4>1. CASE l = b
        BY <2>1, <4>1
      <4>2. CASE l # b
        <5>1. l * L + L <= b * L
          BY <1>1, <2>1, <4>2, StrideApart
        <5>2. QED
          BY <2>1, <5>1
      <4>3. QED
        BY <4>1, <4>2
    <3>2. i \in 0..(K - 1) /\ s + i = l * L
      BY <1>1, <2>1, <2>3, <3>1
    <3> HIDE DEF i
    <3>3. (l * L) \div L = l
      BY <2>1, IsQuotient
    <3>4. QED
      BY <1>0, <3>2, <3>3
  <2>4. QED
    BY <2>2, <2>3
<1> HIDE DEF a, b
<1>4. T = a..b
  <2>1. \A l \in T : l \in a..b
    BY <1>0, <1>2
  <2>2. QED
    BY <1>3, <2>1
<1>5. QED
  BY <1>4 DEF a, b

(* Numbers that differ where their places do are as many as the places.    *)
LEMMA AsManyAsPlaces ==
  ASSUME NEW K \in Nat, NEW g \in [0..(K - 1) -> Nat],
         \A i, j \in 0..(K - 1) : g[i] = g[j] => i = j
  PROVE  /\ IsFiniteSet({g[i] : i \in 0..(K - 1)})
         /\ Cardinality({g[i] : i \in 0..(K - 1)}) = K
<1> DEFINE S == 0..(K - 1)
           T == {g[i] : i \in S}
<1>1. IsFiniteSet(S) /\ Cardinality(S) = K
  BY FS_Interval
<1>2. g \in [S -> T] /\ \A t \in T : \E i \in S : g[i] = t
  OBVIOUS
<1>3. \A i, j \in S : g[i] = g[j] => i = j
  OBVIOUS
<1> HIDE DEF S, T
<1>4. g \in Bijection(S, T)
  BY <1>2, <1>3 DEF Bijection, Injection, Surjection, IsInjective
<1>5. ExistsBijection(S, T)
  BY <1>4 DEF ExistsBijection
<1>6. IsFiniteSet(T) /\ Cardinality(T) = Cardinality(S)
  BY <1>1, <1>5, FS_Bijection
<1>7. QED
  BY <1>1, <1>6 DEF S, T

\* V is the pairs of a place below N and a member of its set.
PairsOf(V, F, N) == V = UNION {{n} \X F[n] : n \in 0..(N - 1)}

\* Each of the sets has c members, and one more at the places in S.
Sized(F, N, c, S) ==
  \A n \in 0..(N - 1) : IsFiniteSet(F[n]) /\ Cardinality(F[n]) = c + Cardinality({n} \cap S)

(* Pairs, counted by their first part: c for each, one more for some.      *)
LEMMA PairsCounted ==
  ASSUME NEW N \in Nat, NEW c \in Nat, NEW F, NEW S \in SUBSET (0..(N - 1)), NEW V,
         PairsOf(V, F, N), Sized(F, N, c, S)
  PROVE  Cardinality(V) = N * c + Cardinality(S)
<1> DEFINE U(m) == UNION {{n} \X F[n] : n \in 0..(m - 1)}
           B(m) == S \cap (0..(m - 1))
           P == {m \in Nat : m <= N => IsFiniteSet(U(m)) /\ Cardinality(U(m)) = m * c + Cardinality(B(m))}
<1>1. IsFiniteSet(S)
  <2>1. IsFiniteSet(0..(N - 1))
    <3>1. 0 \in Int /\ N - 1 \in Int
      OBVIOUS
    <3>2. QED
      BY <3>1, FS_Interval
  <2>2. QED
    BY <2>1, FS_Subset
<1>2. 0 \in P
  <2>1. U(0) = {} /\ B(0) = {}
    OBVIOUS
  <2>2. 0 * c + 0 = 0
    OBVIOUS
  <2> HIDE DEF U, B
  <2>3. IsFiniteSet(U(0)) /\ Cardinality(U(0)) = 0 * c + Cardinality(B(0))
    BY <2>1, <2>2, FS_EmptySet
  <2>4. QED
    BY <2>3
<1>3. ASSUME NEW m \in Nat, m \in P PROVE m + 1 \in P
  <2>1. SUFFICES ASSUME m + 1 <= N
                 PROVE  /\ IsFiniteSet(U(m + 1))
                        /\ Cardinality(U(m + 1)) = (m + 1) * c + Cardinality(B(m + 1))
    OBVIOUS
  <2> DEFINE R == {m} \X F[m]
             O == {m} \cap S
  <2>2. m \in 0..(N - 1)
    BY <2>1
  <2>3. IsFiniteSet(U(m)) /\ Cardinality(U(m)) = m * c + Cardinality(B(m))
    BY <1>3, <2>1
  <2>4. 0..((m + 1) - 1) = (0..(m - 1)) \cup {m} /\ m \notin 0..(m - 1)
    OBVIOUS
  <2>5. U(m + 1) = U(m) \cup R /\ U(m) \cap R = {}
    <3>1. U(m + 1) = UNION {{n} \X F[n] : n \in (0..(m - 1)) \cup {m}}
      BY <2>4
    <3>2. UNION {{n} \X F[n] : n \in (0..(m - 1)) \cup {m}} = U(m) \cup R
      OBVIOUS
    <3>3. \A p \in U(m) : p[1] \in 0..(m - 1)
      OBVIOUS
    <3>4. \A p \in R : p[1] = m
      OBVIOUS
    <3> HIDE DEF U, R
    <3>5. QED
      BY <2>4, <3>1, <3>2, <3>3, <3>4
  <2>6. B(m + 1) = B(m) \cup O /\ B(m) \cap O = {}
    BY <2>4
  <2>7. IsFiniteSet(R) /\ Cardinality(R) = c + Cardinality(O)
    <3>1. IsFiniteSet({m}) /\ Cardinality({m}) = 1
      BY FS_Singleton
    <3>2. IsFiniteSet(F[m]) /\ Cardinality(F[m]) = c + Cardinality(O)
      BY <2>2 DEF Sized
    <3>3. Cardinality(F[m]) \in Nat
      BY <3>2, FS_CardinalityType
    <3>4. IsFiniteSet(R) /\ Cardinality(R) = Cardinality({m}) * Cardinality(F[m])
      BY <3>1, <3>2, FS_Product
    <3> HIDE DEF O, R
    <3>5. QED
      BY <3>1, <3>2, <3>3, <3>4
  <2>8. IsFiniteSet(B(m)) /\ IsFiniteSet(O)
    BY <1>1, FS_Subset
  <2> HIDE DEF U, B, R, O
  <2>9. /\ IsFiniteSet(U(m + 1))
        /\ Cardinality(U(m + 1)) = Cardinality(U(m)) + Cardinality(R) - 0
    BY <2>3, <2>5, <2>7, FS_Union, FS_EmptySet
  <2>10. Cardinality(B(m + 1)) = Cardinality(B(m)) + Cardinality(O) - 0
    BY <2>6, <2>8, FS_Union, FS_EmptySet
  <2>11. Cardinality(B(m)) \in Nat /\ Cardinality(O) \in Nat
    BY <2>8, FS_CardinalityType
  <2>12. (m + 1) * c = m * c + c /\ m * c \in Nat
    OBVIOUS
  <2>13. QED
    BY <2>3, <2>7, <2>9, <2>10, <2>11, <2>12
<1>4. \A m \in Nat : m \in P
  <2> HIDE DEF P
  <2>1. QED
    BY <1>2, <1>3, Induction
<1>5. Cardinality(U(N)) = N * c + Cardinality(B(N))
  <2>1. N \in P
    <3> HIDE DEF P
    <3>1. QED
      BY <1>4
  <2> HIDE DEF U, B
  <2>2. QED
    BY <2>1
<1>6. B(N) = S
  OBVIOUS
<1>7. V = U(N)
  BY DEF PairsOf
<1> HIDE DEF U, B
<1>8. QED
  BY <1>5, <1>6, <1>7

\* The cores whose run of entries reaches into a line more.
Straddling == {n \in Nodes : layout = "node-major" /\
                 ((n * Count) % LineCells) + Count > LineCells * Lines(layout, Count)}

(* The lines of one core and the lines of all, key-major: its keys' rows   *)
(* are whole lines, so every key has lines of its own.                     *)
LEMMA KeyMajorLines ==
  ASSUME TypeOK, Dense(keys), NodeCount % LineCells = 0, layout = "key-major"
  PROVE  /\ \A n \in Nodes : IsFiniteSet(LinesTouched(n)) /\ Cardinality(LinesTouched(n)) = Count
         /\ UNION {LinesTouched(n) : n \in Nodes} = 0..(Count * (NodeCount \div LineCells) - 1)
<1> DEFINE K == Count
           L == LineCells
           N == NodeCount
           M == N \div L
           line(id, n) == (id * N + n) \div L
<1>1. /\ K \in Nat /\ L \in Nat \ {0} /\ N \in Nat \ {0} /\ M \in Nat /\ N = M * L
      /\ keys = 0..(K - 1) /\ Nodes = 0..(N - 1)
  <2>1. K \in Nat /\ keys = 0..(K - 1)
    BY KeyCount DEF Dense, Count
  <2>2. L \in Nat \ {0} /\ N \in Nat \ {0}
    BY TableAssumption
  <2>3. N = L * (N \div L) + (N % L) /\ N \div L \in Nat
    BY <2>2
  <2>4. QED
    BY <2>1, <2>2, <2>3 DEF Nodes
<1>2. \A n \in Nodes : LinesTouched(n) = {line(id, n) : id \in 0..(K - 1)}
  BY <1>1 DEF LinesTouched, Index
<1> HIDE DEF K, L, N, M
<1>3. ASSUME NEW id \in 0..(K - 1), NEW n \in 0..(N - 1)
      PROVE  line(id, n) = id * M + (n \div L) /\ n \div L \in 0..(M - 1)
  <2> DEFINE q == n \div L
  <2>1. q \in Nat /\ q * L <= n /\ n < q * L + L
    BY <1>1, Bounds
  <2> HIDE DEF q
  <2>2. q < M
    <3>1. SUFFICES ASSUME M <= q PROVE FALSE
      BY <1>1, <2>1
    <3>2. M * L <= q * L
      <4>1. CASE M = q
        BY <1>1, <4>1
      <4>2. CASE M < q
        <5>1. M * L + L <= q * L
          BY <1>1, <2>1, <4>2, StrideApart
        <5>2. M * L \in Nat /\ q * L \in Nat
          BY <1>1, <2>1
        <5>3. QED
          BY <1>1, <5>1, <5>2
      <4>3. QED
        BY <1>1, <2>1, <3>1, <4>1, <4>2
    <3>3. q * L \in Nat
      BY <1>1, <2>1
    <3>4. QED
      BY <1>1, <2>1, <3>2, <3>3
  <2>3. id * N = (id * M) * L /\ id * M \in Nat
    BY <1>1
  <2>4. (id * M + q) * L = (id * M) * L + q * L /\ id * M + q \in Nat
    BY <1>1, <2>1, <2>3
  <2>5. id * N + n \in Nat /\ (id * M) * L \in Nat /\ q * L \in Nat
    BY <1>1, <2>1, <2>3
  <2>6. (id * N + n) \div L = id * M + q
    <3>1. (id * M + q) * L <= id * N + n /\ id * N + n < (id * M + q) * L + L
      BY <1>1, <2>1, <2>3, <2>4, <2>5
    <3>2. QED
      BY <1>1, <2>4, <2>5, <3>1, IsQuotient
  <2>7. QED
    BY <1>1, <2>1, <2>2, <2>6 DEF q
<1> HIDE DEF line
<1>4. ASSUME NEW n \in Nodes
      PROVE  IsFiniteSet(LinesTouched(n)) /\ Cardinality(LinesTouched(n)) = K
  <2> DEFINE g == [id \in 0..(K - 1) |-> line(id, n)]
  <2>1. \A id \in 0..(K - 1) : line(id, n) = id * M + (n \div L) /\ n \div L \in 0..(M - 1)
    BY <1>1, <1>3
  <2>2. \A i, j \in 0..(K - 1) : line(i, n) = line(j, n) => i = j
    <3>1. ASSUME NEW i \in 0..(K - 1), NEW j \in 0..(K - 1), line(i, n) = line(j, n) PROVE i = j
      <4>1. i * M + (n \div L) = j * M + (n \div L) /\ n \div L \in 0..(M - 1)
        BY <2>1, <3>1
      <4>2. i \in Nat /\ j \in Nat
        OBVIOUS
      <4>3. QED
        BY <1>1, <4>1, <4>2, OneDivision
    <3>2. QED
      BY <3>1
  <2>3. \A id \in 0..(K - 1) : line(id, n) \in Nat
    <3>1. \A id \in 0..(K - 1) : id * M \in Nat
      BY <1>1
    <3>2. QED
      BY <2>1, <3>1
  <2>4. g \in [0..(K - 1) -> Nat] /\ \A i, j \in 0..(K - 1) : g[i] = g[j] => i = j
    BY <2>2, <2>3
  <2>5. LinesTouched(n) = {g[i] : i \in 0..(K - 1)}
    BY <1>2
  <2> HIDE DEF g
  <2>6. /\ IsFiniteSet({g[i] : i \in 0..(K - 1)})
        /\ Cardinality({g[i] : i \in 0..(K - 1)}) = K
    <3>1. K \in Nat
      BY <1>1
    <3>2. QED
      BY <2>4, <3>1, AsManyAsPlaces
  <2>7. QED
    BY <2>5, <2>6
<1>5. UNION {LinesTouched(n) : n \in Nodes} = 0..(K * M - 1)
  <2>1. ASSUME NEW n \in Nodes, NEW id \in 0..(K - 1) PROVE line(id, n) \in 0..(K * M - 1)
    <3>1. line(id, n) = id * M + (n \div L) /\ n \div L \in 0..(M - 1)
      BY <1>1, <1>3
    <3>2. id * M + M <= K * M
      BY <1>1, StrideApart
    <3>3. id * M \in Nat /\ K * M \in Nat
      BY <1>1
    <3>4. QED
      BY <1>1, <3>1, <3>2, <3>3
  <2>2. ASSUME NEW l \in 0..(K * M - 1)
        PROVE  \E n \in Nodes : \E id \in 0..(K - 1) : line(id, n) = l
    <3> DEFINE id == l \div M
               r == l % M
               n == r * L
    <3>1. M # 0 /\ l \in Nat /\ l < K * M
      <4>1. K * M \in Nat /\ l \in Nat /\ l < K * M
        BY <1>1
      <4>2. M = 0 => K * M = 0
        BY <1>1
      <4>3. QED
        BY <4>1, <4>2
    <3>2. id \in Nat /\ r \in 0..(M - 1) /\ l = id * M + r
      <4>1. l = M * (l \div M) + (l % M) /\ (l % M) \in 0..(M - 1) /\ l \div M \in Nat
        BY <1>1, <3>1
      <4>2. M * (l \div M) = (l \div M) * M
        BY <1>1, <4>1
      <4>3. QED
        BY <4>1, <4>2
    <3> HIDE DEF id, r
    <3>3. id < K
      <4>1. SUFFICES ASSUME K <= id PROVE FALSE
        BY <1>1, <3>2
      <4>2. K * M <= id * M
        <5>1. CASE K = id
          BY <1>1, <5>1
        <5>2. CASE K < id
          <6>1. K * M + M <= id * M
            BY <1>1, <3>2, <5>2, StrideApart
          <6>2. K * M \in Nat /\ id * M \in Nat
            BY <1>1, <3>2
          <6>3. QED
            BY <1>1, <6>1, <6>2
        <5>3. QED
          BY <1>1, <3>2, <4>1, <5>1, <5>2
      <4>3. id * M \in Nat /\ K * M \in Nat
        BY <1>1, <3>2
      <4>4. QED
        BY <3>1, <3>2, <4>2, <4>3
    <3>4. n \in 0..(N - 1)
      <4>1. r * L + L <= M * L
        BY <1>1, <3>2, StrideApart
      <4>2. r * L \in Nat
        BY <1>1, <3>2
      <4>3. QED
        BY <1>1, <4>1, <4>2
    <3>5. n \div L = r
      <4>1. r * L \in Nat /\ r \in Nat /\ r * L <= r * L /\ r * L < r * L + L
        BY <1>1, <3>2
      <4>2. QED
        BY <1>1, <4>1, IsQuotient
    <3>6. id \in 0..(K - 1)
      BY <1>1, <3>2, <3>3
    <3> HIDE DEF n
    <3>7. line(id, n) = id * M + (n \div L)
      BY <1>3, <3>4, <3>6
    <3>8. line(id, n) = l
      BY <3>2, <3>5, <3>7
    <3>9. QED
      BY <1>1, <3>4, <3>6, <3>8
  <2>3. \A l : l \in UNION {LinesTouched(n) : n \in Nodes}
                 <=> \E n \in Nodes : \E id \in 0..(K - 1) : line(id, n) = l
    BY <1>2
  <2>4. QED
    BY <2>1, <2>2, <2>3
<1>6. QED
  BY <1>4, <1>5 DEF K, L, N, M

(* Node-major a core's entries are a run, which touches as many lines as   *)
(* it fills or, when it begins late in one, a line more.                   *)
LEMMA NodeMajorLines ==
  ASSUME TypeOK, Dense(keys), NodeCount % LineCells = 0, layout = "node-major"
  PROVE  /\ Lines(layout, Count) \in Nat /\ Count <= LineCells * Lines(layout, Count)
         /\ \A n \in Nodes :
              /\ IsFiniteSet(LinesTouched(n))
              /\ Cardinality(LinesTouched(n)) = Lines(layout, Count) + Cardinality({n} \cap Straddling)
         /\ UNION {LinesTouched(n) : n \in Nodes} = 0..(Count * (NodeCount \div LineCells) - 1)
<1> DEFINE K == Count
           L == LineCells
           N == NodeCount
           M == N \div L
           C == (K + L - 1) \div L
<1>1. /\ K \in Nat /\ L \in Nat \ {0} /\ N \in Nat \ {0} /\ M \in Nat /\ N = M * L
      /\ keys = 0..(K - 1) /\ Nodes = 0..(N - 1)
  <2>1. K \in Nat /\ keys = 0..(K - 1)
    BY KeyCount DEF Dense, Count
  <2>2. L \in Nat \ {0} /\ N \in Nat \ {0}
    BY TableAssumption
  <2>3. N = L * (N \div L) + (N % L) /\ N \div L \in Nat
    BY <2>2
  <2>4. QED
    BY <2>1, <2>2, <2>3 DEF Nodes
<1>2. \A n \in Nodes : LinesTouched(n) = {(n * K + id) \div L : id \in 0..(K - 1)}
  BY <1>1 DEF LinesTouched, Index
<1>3. Lines(layout, Count) = C
  BY DEF Lines
<1>4. \A n \in Nodes : n \in Straddling <=> ((n * K) % L) + K > L * C
  BY <1>3 DEF Straddling
<1> HIDE DEF K, L, N, M, C
<1>5. C \in Nat /\ K <= L * C /\ L * C <= K + L - 1
  <2>1. K + L - 1 \in Nat
    BY <1>1
  <2>2. C \in Nat /\ C * L <= K + L - 1 /\ K + L - 1 < C * L + L
    BY <1>1, <2>1, Bounds DEF C
  <2>3. C * L = L * C /\ C * L \in Nat
    BY <1>1, <2>2
  <2>4. QED
    BY <1>1, <2>2, <2>3
<1>6. ASSUME NEW n \in Nodes
      PROVE  /\ IsFiniteSet(LinesTouched(n))
             /\ Cardinality(LinesTouched(n)) = C + Cardinality({n} \cap Straddling)
  <2> DEFINE s == n * K
             a == s \div L
             r == s % L
  <2>1. /\ n \in Nat /\ s \in Nat /\ a \in Nat /\ r \in 0..(L - 1) /\ s = a * L + r
        /\ (n \in Straddling <=> r + K > L * C)
    <3>1. n \in Nat
      BY <1>1
    <3>2. s \in Nat
      BY <1>1, <3>1
    <3>3. (n \in Straddling <=> r + K > L * C)
      BY <1>4
    <3> HIDE DEF s
    <3>4. s = L * (s \div L) + (s % L) /\ s \div L \in Nat /\ (s % L) \in 0..(L - 1)
      BY <1>1, <3>2
    <3>5. L * (s \div L) = (s \div L) * L
      BY <1>1, <3>4
    <3>6. QED
      BY <3>1, <3>2, <3>3, <3>4, <3>5
  <2>2. Cardinality({n} \cap Straddling) = IF n \in Straddling THEN 1 ELSE 0
    <3>1. CASE n \in Straddling
      <4>1. {n} \cap Straddling = {n}
        BY <3>1
      <4>2. QED
        BY <3>1, <4>1, FS_Singleton
    <3>2. CASE n \notin Straddling
      <4>1. {n} \cap Straddling = {}
        BY <3>2
      <4>2. QED
        BY <3>2, <4>1, FS_EmptySet
    <3>3. QED
      BY <3>1, <3>2
  <2>3. LinesTouched(n) = {(s + id) \div L : id \in 0..(K - 1)}
    BY <1>2
  <2> HIDE DEF s, a, r
  <2>4. CASE K = 0
    <3>1. LinesTouched(n) = {}
      BY <2>3, <2>4
    <3>2. C = 0
      <4>1. L * C <= L - 1
        BY <1>1, <1>5, <2>4
      <4>2. C # 0 => L * C >= L
        <5>1. ASSUME C # 0 PROVE L * C >= L
          <6>1. C - 1 \in Nat /\ C = (C - 1) + 1
            BY <1>5, <5>1
          <6>2. L * C = L * (C - 1) + L /\ L * (C - 1) \in Nat
            BY <1>1, <6>1
          <6>3. QED
            BY <1>1, <6>2
        <5>2. QED
          BY <5>1
      <4>3. L * C \in Nat
        BY <1>1, <1>5
      <4>4. QED
        BY <1>1, <1>5, <4>1, <4>2, <4>3
    <3>3. n \notin Straddling
      <4>1. L * C = 0
        BY <1>1, <3>2
      <4>2. s = 0
        BY <2>1, <2>4 DEF s
      <4>3. r = 0
        BY <1>1, <4>2 DEF r
      <4>4. QED
        BY <2>1, <2>4, <4>1, <4>3
    <3>4. QED
      BY <2>2, <3>1, <3>2, <3>3, FS_EmptySet
  <2>5. CASE K # 0
    <3> DEFINE b == (s + K - 1) \div L
    <3>1. LinesTouched(n) = a..b
      <4>1. K \in Nat \ {0}
        BY <1>1, <2>5
      <4>2. L \in Nat \ {0} /\ s \in Nat
        BY <1>1, <2>1
      <4>3. LinesOfRun(LinesTouched(n), L, s, K)
        BY <2>3 DEF LinesOfRun
      <4>4. LinesTouched(n) = (s \div L)..((s + K - 1) \div L)
        BY <4>1, <4>2, <4>3, RunOfLines
      <4>5. QED
        BY <4>4 DEF a
    <3>2. b = IF n \in Straddling THEN a + C ELSE a + C - 1
      <4>1. L * C \in Nat /\ a * L \in Nat /\ s + K - 1 \in Nat /\ C # 0
        <5>1. L * C \in Nat /\ a * L \in Nat /\ s + K - 1 \in Nat
          BY <1>1, <1>5, <2>1, <2>5
        <5>2. C = 0 => L * C = 0
          BY <1>1
        <5>3. QED
          BY <1>1, <1>5, <2>5, <5>1, <5>2
      <4>2. (a + C) * L = a * L + L * C /\ (a + C - 1) * L = a * L + L * C - L
        BY <1>1, <1>5, <2>1
      <4>3. CASE n \in Straddling
        <5>1. (a + C) * L <= s + K - 1 /\ s + K - 1 < (a + C) * L + L
          BY <1>1, <1>5, <2>1, <4>1, <4>2, <4>3
        <5>2. a + C \in Nat
          BY <1>5, <2>1
        <5>3. QED
          BY <1>1, <4>1, <4>3, <5>1, <5>2, IsQuotient
      <4>4. CASE n \notin Straddling
        <5>1. (a + C - 1) * L <= s + K - 1 /\ s + K - 1 < (a + C - 1) * L + L
          BY <1>1, <1>5, <2>1, <4>1, <4>2, <4>4
        <5>2. a + C - 1 \in Nat
          BY <1>5, <2>1, <4>1
        <5>3. QED
          BY <1>1, <4>1, <4>4, <5>1, <5>2, IsQuotient
      <4>5. QED
        BY <4>3, <4>4
    <3> HIDE DEF b
    <3>3. IsFiniteSet(a..b) /\ Cardinality(a..b) = IF a > b THEN 0 ELSE b - a + 1
      <4>1. a \in Int /\ b \in Int
        BY <1>5, <2>1, <3>2
      <4>2. QED
        BY <4>1, FS_Interval
    <3>4. a + C - 1 >= a
      <4>1. C # 0
        <5>1. C = 0 => L * C = 0
          BY <1>1
        <5>2. QED
          BY <1>1, <1>5, <2>5, <5>1
      <4>2. QED
        BY <1>5, <2>1, <4>1
    <3>5. QED
      BY <1>5, <2>1, <2>2, <3>1, <3>2, <3>3, <3>4
  <2>6. QED
    BY <2>4, <2>5
<1>7. UNION {LinesTouched(n) : n \in Nodes} = 0..(K * M - 1)
  <2>1. ASSUME NEW n \in Nodes, NEW id \in 0..(K - 1) PROVE (n * K + id) \div L \in 0..(K * M - 1)
    <3> DEFINE x == n * K + id
               l == x \div L
    <3>1. n * K + K <= N * K /\ n * K \in Nat /\ N * K \in Nat
      BY <1>1, StrideApart
    <3>2. x \in Nat /\ x < N * K /\ N * K = (K * M) * L /\ K * M \in Nat
      BY <1>1, <3>1
    <3> HIDE DEF x
    <3>3. l \in Nat /\ l * L <= x
      BY <1>1, <3>2, Bounds
    <3> HIDE DEF l
    <3>4. l < K * M
      <4>1. SUFFICES ASSUME K * M <= l PROVE FALSE
        BY <3>2, <3>3
      <4>2. (K * M) * L <= l * L
        <5>1. K * M < l => (K * M) * L + L <= l * L
          BY <1>1, <3>2, <3>3, StrideApart
        <5>2. K * M = l => (K * M) * L <= l * L
          BY <1>1, <3>2, <3>3
        <5>3. (K * M) * L \in Nat /\ l * L \in Nat
          BY <1>1, <3>2, <3>3
        <5>4. QED
          BY <1>1, <3>2, <3>3, <4>1, <5>1, <5>2, <5>3
      <4>3. l * L \in Nat
        BY <1>1, <3>3
      <4>4. QED
        BY <3>1, <3>2, <3>3, <4>2, <4>3
    <3>5. QED
      BY <3>2, <3>3, <3>4 DEF l, x
  <2>2. ASSUME NEW l \in 0..(K * M - 1)
        PROVE  \E n \in Nodes : \E id \in 0..(K - 1) : (n * K + id) \div L = l
    <3> DEFINE x == l * L
               n == x \div K
               id == x % K
    <3>1. /\ K * M \in Nat /\ l \in Nat /\ l < K * M /\ K # 0
      <4>1. K * M \in Nat /\ l \in Nat /\ l < K * M
        BY <1>1
      <4>2. K = 0 => K * M = 0
        BY <1>1
      <4>3. QED
        BY <4>1, <4>2
    <3>2. x \in Nat /\ x < N * K /\ x \div L = l
      <4>1. l * L + L <= (K * M) * L
        BY <1>1, <3>1, StrideApart
      <4>2. (K * M) * L = N * K /\ l * L \in Nat /\ N * K \in Nat
        BY <1>1, <3>1
      <4>3. (l * L) \div L = l
        BY <1>1, <3>1, <4>2, IsQuotient
      <4>4. QED
        BY <1>1, <4>1, <4>2, <4>3
    <3> HIDE DEF x
    <3>3. n \in Nat /\ id \in 0..(K - 1) /\ x = n * K + id
      <4>1. K \in Nat \ {0}
        BY <1>1, <3>1
      <4>2. x = K * (x \div K) + (x % K) /\ x \div K \in Nat /\ (x % K) \in 0..(K - 1)
        BY <3>2, <4>1
      <4>3. K * (x \div K) = (x \div K) * K
        BY <4>1, <4>2
      <4>4. QED
        BY <4>2, <4>3
    <3> HIDE DEF n, id
    <3>4. n < N
      <4>1. SUFFICES ASSUME N <= n PROVE FALSE
        BY <1>1, <3>3
      <4>2. N * K <= n * K
        <5>1. N < n => N * K + K <= n * K
          BY <1>1, <3>3, StrideApart
        <5>2. N = n => N * K <= n * K
          BY <1>1, <3>3
        <5>3. N * K \in Nat /\ n * K \in Nat
          BY <1>1, <3>3
        <5>4. QED
          BY <1>1, <3>3, <4>1, <5>1, <5>2, <5>3
      <4>3. N * K \in Nat /\ n * K \in Nat
        BY <1>1, <3>3
      <4>4. QED
        BY <1>1, <3>2, <3>3, <4>2, <4>3
    <3>5. n \in Nodes
      BY <1>1, <3>3, <3>4
    <3>6. QED
      BY <3>2, <3>3, <3>5
  <2>3. \A l : l \in UNION {LinesTouched(n) : n \in Nodes}
                 <=> \E n \in Nodes : \E id \in 0..(K - 1) : (n * K + id) \div L = l
    BY <1>2
  <2>4. QED
    BY <2>1, <2>2, <2>3
<1>8. QED
  BY <1>3, <1>5, <1>6, <1>7 DEF K, L, M, N

(* The account of the cold misses is what the addresses give: every core   *)
(* misses the lines it touches, each line once reaches the DDR, and the    *)
(* rest is served; with a line more for a core whose entries straddle one. *)
THEOREM PackageRefillsAccounted == PackageSpec => []RefillsAccounted
<1>1. TypeOK => RefillsAccounted
  <2> SUFFICES ASSUME TypeOK, Dense(keys), NodeCount % LineCells = 0
               PROVE  LET account == Residency(layout, Count)
                      IN /\ Cardinality(Misses) = account.requests + Cardinality(Straddling)
                         /\ \A n \in Nodes : Cardinality(LinesTouched(n))
                                               = Lines(layout, Count) + Cardinality({n} \cap Straddling)
                         /\ Cardinality(UNION {LinesTouched(n) : n \in Nodes}) = account.ddr
                         /\ account.served = account.requests - account.ddr
                         /\ layout = "key-major" => account = DataRefill(account.ddr)
    BY DEF RefillsAccounted, Straddling
  <2> DEFINE K == Count
             L == LineCells
             N == NodeCount
             M == N \div L
             C == Lines(layout, Count)
             requests == N * C
             ddr == K * M
  <2>1. /\ K \in Nat /\ L \in Nat \ {0} /\ N \in Nat \ {0} /\ M \in Nat /\ N = M * L
        /\ Nodes = 0..(N - 1)
    <3>1. K \in Nat
      BY KeyCount
    <3>2. L \in Nat \ {0} /\ N \in Nat \ {0}
      BY TableAssumption
    <3>3. N = L * (N \div L) + (N % L) /\ N \div L \in Nat
      BY <3>2
    <3>4. QED
      BY <3>1, <3>2, <3>3 DEF Nodes
  <2>2. LinesPerKey = M
    <3>1. M * L <= N + L - 1 /\ N + L - 1 < M * L + L /\ N + L - 1 \in Nat
      BY <2>1
    <3>2. (N + L - 1) \div L = M
      <4> HIDE DEF M
      <4>1. QED
        BY <2>1, <3>1, IsQuotient
    <3>3. QED
      BY <3>2 DEF LinesPerKey
  <2>3. /\ C \in Nat /\ K <= L * C
        /\ \A n \in Nodes : /\ IsFiniteSet(LinesTouched(n))
                            /\ Cardinality(LinesTouched(n)) = C + Cardinality({n} \cap Straddling)
        /\ UNION {LinesTouched(n) : n \in Nodes} = 0..(ddr - 1)
    <3>1. CASE layout = "node-major"
      BY <3>1, NodeMajorLines
    <3>2. CASE layout = "key-major"
      <4>1. C = K /\ Straddling = {}
        BY <3>2 DEF Lines, Straddling
      <4>2. K <= L * K
        BY <2>1
      <4>3. \A n : Cardinality({n} \cap Straddling) = 0
        BY <4>1, FS_EmptySet
      <4>4. /\ \A n \in Nodes : IsFiniteSet(LinesTouched(n)) /\ Cardinality(LinesTouched(n)) = K
            /\ UNION {LinesTouched(n) : n \in Nodes} = 0..(ddr - 1)
        BY <3>2, KeyMajorLines
      <4> HIDE DEF K, C, L, N, M
      <4>5. \A n \in Nodes : /\ IsFiniteSet(LinesTouched(n))
                             /\ Cardinality(LinesTouched(n)) = C + Cardinality({n} \cap Straddling)
        BY <2>1, <4>1, <4>3, <4>4
      <4>6. QED
        BY <2>1, <4>1, <4>2, <4>4, <4>5
    <3>3. QED
      BY <3>1, <3>2 DEF TypeOK, Layouts
  <2>4. /\ Residency(layout, Count) = [requests |-> requests, ddr |-> ddr,
                                       served |-> Max({0, requests - ddr})]
        /\ DataRefill(ddr) = [requests |-> ddr * L, ddr |-> ddr, served |-> Max({0, ddr * L - ddr})]
    BY <2>2 DEF Residency, DataRefill, RefillAccount
  <2>5. layout = "key-major" => C = K
    BY DEF Lines
  <2> HIDE DEF K, L, N, M, C
  <2>6. requests \in Nat /\ ddr \in Nat /\ ddr <= requests
    <3>1. requests \in Nat /\ ddr \in Nat
      BY <2>1, <2>3
    <3>2. N * C = M * (L * C) /\ K * M = M * K /\ L * C \in Nat
      BY <2>1, <2>3
    <3>3. \A a, b, m \in Nat : a <= b => m * a <= m * b
      <4>1. ASSUME NEW a \in Nat, NEW b \in Nat, NEW m \in Nat, a <= b
            PROVE  m * a <= m * b
        <5>1. b - a \in Nat /\ b = a + (b - a)
          BY <4>1
        <5>2. \A d \in Nat : m * (a + d) = m * a + m * d /\ m * d \in Nat /\ m * a \in Nat
          OBVIOUS
        <5>3. QED
          BY <5>1, <5>2
      <4>2. QED
        BY <4>1
    <3>4. M * K <= M * (L * C)
      BY <2>1, <2>3, <3>2, <3>3
    <3>5. QED
      BY <3>1, <3>2, <3>4
  <2>7. Max({0, requests - ddr}) = requests - ddr
    <3>1. \A x \in Nat : Max({0, x}) = x
      BY DEF Max
    <3>2. QED
      BY <2>6, <3>1
  <2>8. layout = "key-major" => ddr * L = requests
    <3>1. (K * M) * L = N * K
      BY <2>1
    <3>2. QED
      BY <2>5, <3>1
  <2>9. Cardinality(Misses) = requests + Cardinality(Straddling)
    <3> DEFINE F == [n \in Nodes |-> LinesTouched(n)]
    <3>1. Straddling \in SUBSET (0..(N - 1))
      BY <2>1 DEF Straddling
    <3>2. \A n \in 0..(N - 1) : /\ IsFiniteSet(F[n])
                                /\ Cardinality(F[n]) = C + Cardinality({n} \cap Straddling)
      BY <2>1, <2>3
    <3>3. Misses = UNION {{n} \X F[n] : n \in 0..(N - 1)}
      BY <2>1 DEF Misses
    <3> HIDE DEF F
    <3>4. Cardinality(Misses) = N * C + Cardinality(Straddling)
      <4>1. N \in Nat /\ C \in Nat
        BY <2>1, <2>3
      <4>2. PairsOf(Misses, F, N) /\ Sized(F, N, C, Straddling)
        BY <3>2, <3>3 DEF PairsOf, Sized
      <4>3. QED
        BY <3>1, <4>1, <4>2, PairsCounted
    <3>5. QED
      BY <3>4 DEF requests
  <2>10. Cardinality(UNION {LinesTouched(n) : n \in Nodes}) = ddr
    <3>1. Cardinality(0..(ddr - 1)) = ddr
      <4> HIDE DEF ddr
      <4>1. 0 \in Int /\ ddr - 1 \in Int
        BY <2>6
      <4>2. Cardinality(0..(ddr - 1)) = IF 0 > ddr - 1 THEN 0 ELSE (ddr - 1) - 0 + 1
        BY <4>1, FS_Interval
      <4>3. QED
        BY <2>6, <4>2
    <3>2. QED
      BY <2>3, <3>1
  <2> HIDE DEF requests, ddr
  <2> DEFINE account == Residency(layout, Count)
  <2>11. /\ account.requests = requests /\ account.ddr = ddr /\ account.served = requests - ddr
         /\ layout = "key-major" => account = DataRefill(ddr)
    <3>1. Residency(layout, Count) = [requests |-> requests, ddr |-> ddr, served |-> requests - ddr]
      BY <2>4, <2>7, Zenon
    <3>2. account.requests = requests /\ account.ddr = ddr /\ account.served = requests - ddr
      <4> HIDE DEF requests, ddr
      <4>1. QED
        BY <3>1
    <3>3. ASSUME layout = "key-major" PROVE account = DataRefill(ddr)
      <4>1. ddr * L = requests
        BY <2>8, <3>3
      <4>2. DataRefill(ddr) = [requests |-> requests, ddr |-> ddr, served |-> requests - ddr]
        BY <2>4, <2>7, <4>1, Zenon
      <4>3. QED
        BY <3>1, <4>2, Zenon
    <3>4. QED
      BY <3>2, <3>3
  <2> HIDE DEF account
  <2>12. /\ Cardinality(Misses) = account.requests + Cardinality(Straddling)
         /\ \A n \in Nodes : Cardinality(LinesTouched(n))
                               = Lines(layout, Count) + Cardinality({n} \cap Straddling)
         /\ Cardinality(UNION {LinesTouched(n) : n \in Nodes}) = account.ddr
         /\ account.served = account.requests - account.ddr
         /\ layout = "key-major" => account = DataRefill(account.ddr)
    BY <2>3, <2>9, <2>10, <2>11 DEF C
  <2>13. QED
    BY <2>12 DEF account
<1>2. QED
  BY <1>1, PackageIsTable, TableTypeCorrect, PTL
------------------------------------------------------------------------------
(* The emission. *)

Zeroes(total) == [c \in 1..total |-> Zero]

\* The place f[k] - 1 holds row k when k is one of the first i, and zero otherwise.
Filled(f, rows, total) ==
  [i \in 0..total |->
     [c \in 1..total |-> IF \E k \in 1..i : f[k] = c - 1
                         THEN rows[CHOOSE k \in 1..total : f[k] = c - 1] ELSE Zero]]

OneToOnePlaces(f, total) == \A i, k \in 1..total : f[i] = f[k] => i = k

\* The buffers one after the other, and the last of them.
FilledRowByRow(f, rows, total) ==
  /\ Filled(f, rows, total)[0] = Zeroes(total)
  /\ \A i \in 1..total :
       Filled(f, rows, total)[i] = Put(Filled(f, rows, total)[i - 1], f[i], rows[i])
  /\ Len(Filled(f, rows, total)[total]) = total
  /\ \A k \in 1..total : Filled(f, rows, total)[total][f[k] + 1] = rows[k]

(* Rows put one after the other at places of their own fill the buffer one *)
(* by one: none is overwritten and none extends it.                        *)
LEMMA FilledStep ==
  ASSUME NEW total \in Nat, NEW f \in [1..total -> 0..(total - 1)], NEW rows,
         OneToOnePlaces(f, total)
  PROVE  FilledRowByRow(f, rows, total)
<1>0. \A i, k \in 1..total : f[i] = f[k] => i = k
  BY DEF OneToOnePlaces
<1> DEFINE inv(c) == CHOOSE k \in 1..total : f[k] = c - 1
           at(i, c) == IF \E k \in 1..i : f[k] = c - 1 THEN rows[inv(c)] ELSE Zero
           h == Filled(f, rows, total)
<1>1. \A i \in 0..total : h[i] = [c \in 1..total |-> at(i, c)]
  BY DEF Filled
<1>2. ASSUME NEW k \in 1..total
      PROVE  f[k] + 1 \in 1..total /\ inv(f[k] + 1) = k
  <2>1. f[k] \in 0..(total - 1)
    OBVIOUS
  <2>2. f[k] + 1 \in 1..total /\ (f[k] + 1) - 1 = f[k]
    BY <2>1
  <2>3. inv(f[k] + 1) \in 1..total /\ f[inv(f[k] + 1)] = f[k]
    <3>1. \E i \in 1..total : f[i] = (f[k] + 1) - 1
      BY <2>2
    <3>2. inv(f[k] + 1) \in 1..total /\ f[inv(f[k] + 1)] = (f[k] + 1) - 1
      BY <3>1
    <3>3. QED
      BY <2>2, <3>2
  <2> HIDE DEF inv
  <2>4. QED
    BY <1>0, <2>2, <2>3
<1> HIDE DEF inv
<1>3. ASSUME NEW i \in 0..total
      PROVE  Len([c \in 1..total |-> at(i, c)]) = total
  <2> HIDE DEF at
  <2>1. QED
    OBVIOUS
<1>4. h[0] = Zeroes(total)
  <2>1. \A c \in 1..total : at(0, c) = Zero
    OBVIOUS
  <2>2. 0 \in 0..total
    OBVIOUS
  <2> HIDE DEF at, h
  <2>3. QED
    BY <1>1, <2>1, <2>2 DEF Zeroes
<1>5. ASSUME NEW i \in 1..total PROVE h[i] = Put(h[i - 1], f[i], rows[i])
  <2> DEFINE e == f[i] + 1
             old == [c \in 1..total |-> at(i - 1, c)]
  <2>1. i - 1 \in 0..total /\ i \in 0..total /\ e \in 1..total /\ f[i] < total
    BY <1>2
  <2>2. Put(old, f[i], rows[i]) = [old EXCEPT ![e] = rows[i]]
    <3>1. Len(old) = total
      BY <1>3, <2>1
    <3> HIDE DEF old
    <3>2. QED
      BY <2>1, <3>1 DEF Put
  <2>3. at(i, e) = rows[i]
    <3>1. e - 1 = f[i] /\ i \in 1..i /\ inv(e) = i
      BY <1>2, <2>1
    <3> HIDE DEF e
    <3>2. QED
      BY <3>1
  <2>4. ASSUME NEW c \in 1..total, c # e PROVE at(i, c) = at(i - 1, c)
    <3>1. f[i] # c - 1
      BY <2>1, <2>4
    <3>2. (\E k \in 1..i : f[k] = c - 1) <=> \E k \in 1..(i - 1) : f[k] = c - 1
      <4>1. \A k \in 1..i : k = i \/ k \in 1..(i - 1)
        OBVIOUS
      <4>2. \A k \in 1..(i - 1) : k \in 1..i
        OBVIOUS
      <4>3. QED
        BY <3>1, <4>1, <4>2
    <3>3. QED
      BY <3>2
  <2>5. [c \in 1..total |-> at(i, c)] = [old EXCEPT ![e] = rows[i]]
    <3> HIDE DEF at, e
    <3>1. QED
      BY <2>1, <2>3, <2>4
  <2>6. h[i] = [c \in 1..total |-> at(i, c)] /\ h[i - 1] = old
    BY <1>1, <2>1
  <2> HIDE DEF h, old, at, e
  <2>7. QED
    BY <2>2, <2>5, <2>6
<1>6. Len(h[total]) = total
  <2>1. total \in 0..total
    OBVIOUS
  <2> HIDE DEF h, at
  <2>2. QED
    BY <1>1, <1>3, <2>1
<1>7. ASSUME NEW k \in 1..total PROVE h[total][f[k] + 1] = rows[k]
  <2> DEFINE e == f[k] + 1
  <2>1. total \in 0..total /\ e \in 1..total /\ inv(e) = k /\ e - 1 = f[k]
    BY <1>2
  <2> HIDE DEF e
  <2>2. at(total, e) = rows[k]
    BY <2>1
  <2>3. h[total][e] = at(total, e)
    <3> HIDE DEF h, at
    <3>1. h[total] = [c \in 1..total |-> at(total, c)]
      BY <1>1, <2>1
    <3>2. QED
      BY <2>1, <3>1
  <2>4. QED
    BY <2>2, <2>3 DEF e
<1> HIDE DEF h
<1>8. QED
  BY <1>4, <1>5, <1>6, <1>7 DEF h, FilledRowByRow

(* The rows of a table without gaps, in the order they are written.        *)
LEMMA DenseRows ==
  ASSUME NEW K, NEW C \in Nat, K = 0..(C - 1), NEW i \in 1..(C * NodeCount)
  PROVE  /\ Cardinality(K) = C
         /\ (i - 1) \div NodeCount \in 0..(C - 1) /\ (i - 1) % NodeCount \in Nodes
         /\ i = ((i - 1) \div NodeCount) * NodeCount + ((i - 1) % NodeCount) + 1
         /\ Rows(K)[i] = <<(i - 1) \div NodeCount, (i - 1) % NodeCount>>
<1> DEFINE N == NodeCount
           q == (i - 1) \div N
           p == (i - 1) % N
<1>0. N \in Nat \ {0}
  BY TableAssumption
<1>1. K \subseteq Nat /\ IsFiniteSet(K) /\ Cardinality(K) = C
  <2>1. 0 \in Int /\ C - 1 \in Int
    OBVIOUS
  <2>2. IsFiniteSet(0..(C - 1)) /\ Cardinality(0..(C - 1)) = IF 0 > C - 1 THEN 0 ELSE (C - 1) - 0 + 1
    BY <2>1, FS_Interval
  <2>3. QED
    BY <2>2
<1>2. q \in Nat /\ p \in 0..(N - 1) /\ i - 1 = q * N + p /\ i - 1 < C * N
  <2>1. C * N \in Nat /\ i - 1 \in Nat /\ i - 1 < C * N
    BY <1>0
  <2> DEFINE x == i - 1
  <2> HIDE DEF x, N
  <2>2. x \in Nat
    BY <2>1 DEF x
  <2>3. x = N * (x \div N) + (x % N) /\ x \div N \in Nat /\ (x % N) \in 0..(N - 1)
    BY <1>0, <2>2
  <2>4. N * (x \div N) = (x \div N) * N
    BY <1>0, <2>3
  <2>5. QED
    BY <2>1, <2>3, <2>4 DEF x
<1> HIDE DEF N, q, p
<1>3. q < C
  <2>1. SUFFICES ASSUME C <= q PROVE FALSE
    BY <1>2
  <2>2. C * N <= q * N
    <3>1. C < q => C * N + N <= q * N
      BY <1>0, <1>2, StrideApart
    <3>2. C * N \in Nat /\ q * N \in Nat
      BY <1>0, <1>2
    <3>3. QED
      BY <1>0, <1>2, <2>1, <3>1, <3>2
  <2>3. C * N \in Nat /\ q * N \in Nat
    BY <1>0, <1>2
  <2>4. QED
    BY <1>0, <1>2, <2>2, <2>3
<1>4. KeyAt(K, q + 1) = q
  <2>1. q + 1 \in 1..Cardinality(K)
    BY <1>1, <1>2, <1>3
  <2>2. KeyAt(K, q + 1) \in K /\ Rank(K, KeyAt(K, q + 1)) = (q + 1) - 1
    BY <1>1, <2>1, KeysInOrder
  <2> DEFINE k == KeyAt(K, q + 1)
  <2> HIDE DEF k
  <2>3. k \in 0..(C - 1) /\ Cardinality({j \in K : j < k}) = q
    BY <1>2, <2>2 DEF k, Rank
  <2>4. {j \in K : j < k} = 0..(k - 1)
    BY <2>3
  <2>5. 0 \in Int /\ k - 1 \in Int
    BY <2>3
  <2>6. Cardinality(0..(k - 1)) = IF 0 > k - 1 THEN 0 ELSE (k - 1) - 0 + 1
    BY <2>5, FS_Interval
  <2>7. k = q
    <3>1. Cardinality(0..(k - 1)) = q
      BY <2>3, <2>4, Zenon
    <3>2. QED
      BY <1>2, <2>3, <2>6, <3>1
  <2>8. QED
    BY <2>7 DEF k
<1>5. Rows(K)[i] = <<KeyAt(K, q + 1), p>>
  BY <1>1 DEF Rows, q, p, N
<1>6. Rows(K)[i] = <<q, p>>
  BY <1>4, <1>5
<1>7. q \in 0..(C - 1) /\ p \in Nodes /\ i = q * N + p + 1
  BY <1>2, <1>3 DEF Nodes, N
<1>8. QED
  BY <1>1, <1>6, <1>7 DEF q, p, N

\* The cells have the row at the i-th place from zero.
RowAt(cells, i, row) == i < Len(cells) /\ cells[i + 1] = row

\* The zeroes that fill the last line behind total rows.
Padding(total) == (-total) % LineCells

\* The cells have all the rows, and zeroes behind their places.
HoldsRows(cells, K, C, lay) ==
  LET total == C * NodeCount
      pad == Padding(total)
  IN /\ pad \in Nat /\ Len(cells) = total + pad /\ DOMAIN cells = 1..(total + pad)
     /\ \A c \in (total + 1)..(total + pad) : cells[c] = Zero
     /\ \A id \in K, n \in Nodes : RowAt(cells, Index(lay, C, id, n), <<id, n>>)

\* The cells are those of all the rows and, when the line has room, zero.
HasEntries(cells, K, C) ==
  LET pad == Padding(C * NodeCount)
  IN /\ Len(cells) = C * NodeCount + pad
     /\ ToSet(cells) = (K \X Nodes) \cup (IF pad = 0 THEN {} ELSE {Zero})

(* In a table without gaps the emitted segment has the row of every key    *)
(* and node where entry_index looks for it, under either layout, and       *)
(* behind the rows the zeroes that fill the line.                          *)
LEMMA EmissionCells ==
  ASSUME NEW K, NEW C \in Nat, K = 0..(C - 1), NEW lay \in Layouts
  PROVE  HoldsRows(Emission(K, lay), K, C, lay)
<1> DEFINE N == NodeCount
           total == C * N
           key(i) == (i - 1) \div N
           node(i) == (i - 1) % N
           f == [i \in 1..total |-> Index(lay, C, key(i), node(i))]
           rows == Rows(K)
           h == Filled(f, rows, total)
           step(i, before) == Put(before, Index(lay, Cardinality(K), rows[i][1], rows[i][2]), rows[i])
           zeroes == Zeroes(Cardinality(K) * NodeCount)
           W == Written(K, lay)
<1>0. N \in Nat \ {0} /\ total \in Nat
  BY TableAssumption
<1>1. Cardinality(K) = C
  <2>1. 0 \in Int /\ C - 1 \in Int
    OBVIOUS
  <2>2. Cardinality(0..(C - 1)) = IF 0 > C - 1 THEN 0 ELSE (C - 1) - 0 + 1
    BY <2>1, FS_Interval
  <2>3. QED
    BY <2>2
<1>2. ASSUME NEW i \in 1..total
      PROVE  /\ key(i) \in 0..(C - 1) /\ node(i) \in Nodes
             /\ i = key(i) * N + node(i) + 1
             /\ rows[i] = <<key(i), node(i)>>
  BY DenseRows
<1>3. f \in [1..total -> 0..(total - 1)]
  <2> HIDE DEF key, node
  <2>1. \A i \in 1..total : Index(lay, C, key(i), node(i)) \in 0..(total - 1)
    BY <1>2, RowsApart
  <2>2. QED
    BY <2>1
<1>4. \A i, k \in 1..total : f[i] = f[k] => i = k
  <2> SUFFICES ASSUME NEW i \in 1..total, NEW k \in 1..total, f[i] = f[k] PROVE i = k
    OBVIOUS
  <2>1. Index(lay, C, key(i), node(i)) = Index(lay, C, key(k), node(k))
    OBVIOUS
  <2> HIDE DEF key, node, f
  <2>2. key(i) = key(k) /\ node(i) = node(k)
    BY <1>2, <2>1, RowsApart
  <2>3. i = key(i) * N + node(i) + 1 /\ k = key(k) * N + node(k) + 1
    BY <1>2
  <2>4. QED
    BY <2>2, <2>3
<1>5. \A i \in 1..total : Index(lay, Cardinality(K), rows[i][1], rows[i][2]) = f[i]
  <2> HIDE DEF key, node, rows
  <2>1. QED
    BY <1>1, <1>2
<1> HIDE DEF key, node, f, rows, total, N
<1>6. /\ h[0] = Zeroes(total)
      /\ \A i \in 1..total : h[i] = Put(h[i - 1], f[i], rows[i])
      /\ Len(h[total]) = total
      /\ \A k \in 1..total : h[total][f[k] + 1] = rows[k]
  <2>1. OneToOnePlaces(f, total)
    BY <1>4 DEF OneToOnePlaces
  <2>2. FilledRowByRow(f, rows, total)
    BY <1>0, <1>3, <2>1, FilledStep
  <2>3. QED
    BY <2>2 DEF FilledRowByRow
<1>7. h = [i \in 0..total |-> IF i = 0 THEN Zeroes(total) ELSE step(i, h[i - 1])]
  <2>1. h = [i \in 0..total |-> h[i]]
    BY DEF Filled
  <2>2. \A i \in 0..total : i # 0 => i \in 1..total
    BY <1>0
  <2> HIDE DEF h
  <2>3. \A i \in 1..total : h[i] = step(i, h[i - 1])
    BY <1>5, <1>6
  <2> HIDE DEF step
  <2>4. QED
    BY <1>6, <2>1, <2>2, <2>3
<1>8. Cardinality(K) * NodeCount = total
  BY <1>1 DEF total, N
<1>9. W = [i \in 0..total |-> IF i = 0 THEN Zeroes(total) ELSE step(i, W[i - 1])]
  <2>1. \E b : b = [i \in 0..(Cardinality(K) * NodeCount) |->
                      IF i = 0 THEN zeroes ELSE step(i, b[i - 1])]
    <3> HIDE DEF h, step
    <3>1. QED
      BY <1>7, <1>8, Zenon
  <2>2. W = CHOOSE b : b = [i \in 0..(Cardinality(K) * NodeCount) |->
                              IF i = 0 THEN zeroes ELSE step(i, b[i - 1])]
    BY Zenon DEF Written, rows, Zeroes
  <2>3. W = [i \in 0..(Cardinality(K) * NodeCount) |-> IF i = 0 THEN zeroes ELSE step(i, W[i - 1])]
    <3> HIDE DEF W, step, zeroes
    <3>1. QED
      BY <2>1, <2>2, Zenon
  <2>4. QED
    BY <1>8, <2>3, Zenon
<1>10. W[total] = h[total]
  <2> DEFINE P == {i \in Nat : i <= total => W[i] = h[i]}
  <2> HIDE DEF W, h, step
  <2>1. 0 \in P
    BY <1>0, <1>7, <1>9
  <2>2. ASSUME NEW i \in Nat, i \in P PROVE i + 1 \in P
    <3>1. SUFFICES ASSUME i + 1 <= total PROVE W[i + 1] = h[i + 1]
      OBVIOUS
    <3>2. i + 1 \in 0..total /\ i + 1 # 0 /\ (i + 1) - 1 = i
      BY <1>0, <3>1
    <3>3. W[i] = h[i]
      BY <1>0, <2>2, <3>1
    <3>4. W[i + 1] = step(i + 1, W[i]) /\ h[i + 1] = step(i + 1, h[i])
      BY <1>7, <1>9, <3>2
    <3>5. QED
      BY <3>3, <3>4
  <2>3. \A i \in Nat : i \in P
    <3> HIDE DEF P
    <3>1. QED
      BY <2>1, <2>2, Induction
  <2>4. QED
    BY <1>0, <2>3
<1> DEFINE filled == h[total]
           pad == [i \in 1..((-Len(filled)) % LineCells) |-> Zero]
<1>12. Emission(K, lay) = filled \o pad
  BY <1>8, <1>10 DEF Emission
<1>13. Len(filled) = total /\ \A k \in 1..total : filled[f[k] + 1] = rows[k]
  BY <1>6
<1>14. filled = [c \in 1..total |-> filled[c]]
  <2>1. total \in 0..total
    BY <1>0
  <2>2. QED
    BY <2>1 DEF Filled
<1> HIDE DEF filled, h
<1>15. pad = [i \in 1..Len(pad) |-> Zero] /\ Len(pad) \in Nat /\ Len(pad) = Padding(total)
  <2> DEFINE d == (-total) % LineCells
  <2>1. LineCells \in Nat \ {0} /\ -total \in Int
    BY <1>0, TableAssumption
  <2>2. d \in Nat
    BY <2>1
  <2>3. pad = [i \in 1..d |-> Zero]
    BY <1>13
  <2>4. d = Padding(total)
    BY DEF Padding
  <2> HIDE DEF d, pad
  <2>5. Len(pad) = d
    BY <2>2, <2>3
  <2>6. QED
    BY <2>2, <2>3, <2>4, <2>5
<1> HIDE DEF pad
<1>16. /\ Len(filled \o pad) = total + Len(pad) /\ DOMAIN (filled \o pad) = 1..(total + Len(pad))
       /\ \A c \in 1..total : (filled \o pad)[c] = filled[c]
       /\ \A c \in (total + 1)..(total + Len(pad)) : (filled \o pad)[c] = Zero
  <2> DEFINE Cells == {filled[c] : c \in 1..total} \cup {Zero}
  <2>1. filled \in Seq(Cells)
    <3>1. \A c \in 1..total : filled[c] \in Cells
      OBVIOUS
    <3> HIDE DEF Cells
    <3>2. [c \in 1..total |-> filled[c]] \in Seq(Cells)
      BY <1>0, <3>1
    <3>3. QED
      BY <1>14, <3>2
  <2>2. pad \in Seq(Cells)
    <3>1. Zero \in Cells
      OBVIOUS
    <3> HIDE DEF Cells
    <3>2. [i \in 1..Len(pad) |-> Zero] \in Seq(Cells)
      BY <1>15, <3>1
    <3>3. QED
      BY <1>15, <3>2
  <2> HIDE DEF Cells
  <2>3. Len(filled) = total /\ Len(pad) \in Nat /\ total \in Nat
    BY <1>0, <1>13, <1>15
  <2>4. Len(filled \o pad) = total + Len(pad) /\ DOMAIN (filled \o pad) = 1..(total + Len(pad))
    BY <2>1, <2>2, <2>3
  <2>5. ASSUME NEW c \in 1..total PROVE (filled \o pad)[c] = filled[c]
    <3>1. c \in 1..(Len(filled) + Len(pad)) /\ c <= Len(filled)
      BY <2>3
    <3>2. QED
      BY <2>1, <2>2, <3>1
  <2>6. ASSUME NEW c \in (total + 1)..(total + Len(pad)) PROVE (filled \o pad)[c] = Zero
    <3>1. c \in 1..(Len(filled) + Len(pad)) /\ ~(c <= Len(filled)) /\ c - Len(filled) \in 1..Len(pad)
      BY <2>3
    <3>2. (filled \o pad)[c] = pad[c - Len(filled)]
      BY <2>1, <2>2, <3>1
    <3>3. QED
      BY <1>15, <3>1, <3>2
  <2>7. QED
    BY <2>4, <2>5, <2>6
<1>17. ASSUME NEW id \in K, NEW n \in Nodes
       PROVE  RowAt(Emission(K, lay), Index(lay, C, id, n), <<id, n>>)
  <2>1. PICK k \in 1..total : rows[k] = <<id, n>> /\ f[k] = Index(lay, C, id, n)
    <3> DEFINE k == id * N + n + 1
    <3>1. id \in Nat /\ id < C /\ n \in Nat /\ n < N
      BY <1>0 DEF Nodes, N
    <3>2. k \in 1..total
      <4>1. id * N + N <= C * N /\ id * N \in Nat
        BY <1>0, <3>1, StrideApart
      <4>2. QED
        BY <1>0, <3>1, <4>1 DEF total
    <3> HIDE DEF k
    <3>3. k = key(k) * N + node(k) + 1 /\ key(k) \in 0..(C - 1) /\ node(k) \in Nodes
      BY <1>2, <3>2
    <3>4. node(k) \in 0..(N - 1) /\ n \in 0..(N - 1) /\ key(k) \in Nat /\ N \in Nat
      BY <1>0, <3>1, <3>3 DEF Nodes, N
    <3>5. id * N + n = key(k) * N + node(k)
      <4>1. id * N \in Nat /\ key(k) * N \in Nat
        BY <3>1, <3>4
      <4>2. QED
        BY <3>1, <3>3, <3>4, <4>1 DEF k
    <3>6. id = key(k) /\ n = node(k)
      BY <3>1, <3>4, <3>5, OneDivision
    <3>7. rows[k] = <<id, n>>
      BY <1>2, <3>2, <3>6
    <3>8. f[k] = Index(lay, C, id, n)
      BY <3>2, <3>6 DEF f
    <3>9. QED
      BY <3>2, <3>7, <3>8
  <2>2. filled[f[k] + 1] = <<id, n>> /\ f[k] \in 0..(total - 1)
    BY <1>3, <1>13, <2>1
  <2>3. f[k] + 1 \in 1..total /\ f[k] \in Nat /\ f[k] < total
    BY <1>0, <2>2
  <2>4. QED
    BY <1>0, <1>12, <1>15, <1>16, <2>1, <2>2, <2>3 DEF RowAt
<1>18. C * NodeCount = total
  BY DEF total, N
<1>19. QED
  BY <1>12, <1>15, <1>16, <1>17, <1>18 DEF HoldsRows

(* A number below a product is a quotient and a remainder.                 *)
LEMMA Division ==
  ASSUME NEW a \in Nat, NEW b \in Nat \ {0}, NEW x \in 0..(a * b - 1)
  PROVE  \E q \in 0..(a - 1), r \in 0..(b - 1) : x = q * b + r
<1> DEFINE q == x \div b
           r == x % b
<1>1. x \in Nat /\ a * b \in Nat /\ x < a * b
  OBVIOUS
<1>2. q \in Nat /\ r \in 0..(b - 1) /\ x = b * q + r
  BY <1>1
<1>3. x = q * b + r /\ q * b \in Nat
  <2> HIDE DEF q, r
  <2>1. b * q = q * b /\ q * b \in Nat
    BY <1>2
  <2>2. QED
    BY <1>2, <2>1
<1> HIDE DEF q, r
<1>4. q < a
  <2> SUFFICES ASSUME a <= q PROVE FALSE
    BY <1>2
  <2>1. a * b <= q * b
    <3>1. a < q => a * b + b <= q * b
      BY <1>2, StrideApart
    <3>2. QED
      BY <1>1, <1>2, <1>3, <3>1
  <2>2. QED
    BY <1>1, <1>2, <1>3, <2>1
<1>5. QED
  BY <1>2, <1>3, <1>4

(* Under either layout every cell of the rows is the cell of some row.     *)
LEMMA EveryCellIsARow ==
  ASSUME NEW C \in Nat, NEW lay \in Layouts, NEW c \in 1..(C * NodeCount)
  PROVE  \E id \in 0..(C - 1), n \in Nodes : c = Index(lay, C, id, n) + 1
<1>1. NodeCount \in Nat \ {0} /\ C * NodeCount \in Nat /\ c - 1 \in 0..(C * NodeCount - 1)
  BY TableAssumption
<1>2. CASE lay = "node-major"
  <2>1. C # 0
    BY <1>1
  <2>2. C * NodeCount = NodeCount * C
    BY <1>1
  <2>3. \E n \in 0..(NodeCount - 1), id \in 0..(C - 1) : c - 1 = n * C + id
    <3>1. NodeCount \in Nat /\ C \in Nat \ {0} /\ c - 1 \in 0..(NodeCount * C - 1)
      BY <1>1, <2>1, <2>2
    <3> DEFINE x == c - 1
    <3> HIDE DEF x
    <3>2. x \in 0..(NodeCount * C - 1)
      BY <3>1 DEF x
    <3>3. \E n \in 0..(NodeCount - 1), id \in 0..(C - 1) : x = n * C + id
      BY <3>1, <3>2, Division
    <3>4. QED
      BY <3>3 DEF x
  <2>4. PICK n \in Nodes, id \in 0..(C - 1) : c - 1 = n * C + id
    BY <2>3 DEF Nodes
  <2>5. c = Index(lay, C, id, n) + 1
    BY <1>1, <1>2, <2>4 DEF Index
  <2>6. QED
    BY <2>5
<1>3. CASE lay # "node-major"
  <2>1. \E id \in 0..(C - 1), n \in 0..(NodeCount - 1) : c - 1 = id * NodeCount + n
    BY <1>1, Division
  <2>2. PICK id \in 0..(C - 1), n \in Nodes : c - 1 = id * NodeCount + n
    BY <2>1 DEF Nodes
  <2>3. c = Index(lay, C, id, n) + 1
    BY <1>1, <1>3, <2>2 DEF Index
  <2>4. QED
    BY <2>3
<1>4. QED
  BY <1>2, <1>3

(* The cells of an emission, whatever the layout: every row once, and the  *)
(* zeroes that fill the line.                                              *)
LEMMA EmissionEntries ==
  ASSUME NEW K, NEW C \in Nat, K = 0..(C - 1), NEW lay \in Layouts
  PROVE  HasEntries(Emission(K, lay), K, C)
<1>0. HoldsRows(Emission(K, lay), K, C, lay)
  BY EmissionCells
<1> DEFINE total == C * NodeCount
           d == Padding(total)
           cells == Emission(K, lay)
           want == (K \X Nodes) \cup (IF d = 0 THEN {} ELSE {Zero})
<1>1. /\ d \in Nat /\ Len(cells) = total + d /\ DOMAIN cells = 1..(total + d)
      /\ \A c \in (total + 1)..(total + d) : cells[c] = Zero
      /\ \A id \in K, n \in Nodes : RowAt(cells, Index(lay, C, id, n), <<id, n>>)
  BY <1>0 DEF HoldsRows
<1>2. total \in Nat
  BY TableAssumption
<1>3. \A c \in 1..total : \E id \in K, n \in Nodes : c = Index(lay, C, id, n) + 1
  BY EveryCellIsARow
<1> HIDE DEF total, d, cells
<1>4. ASSUME NEW c \in DOMAIN cells PROVE cells[c] \in want
  <2>1. CASE c \in 1..total
    <3>1. PICK id \in K, n \in Nodes : c = Index(lay, C, id, n) + 1
      BY <1>3, <2>1
    <3>2. cells[Index(lay, C, id, n) + 1] = <<id, n>>
      BY <1>1 DEF RowAt
    <3>3. QED
      BY <3>1, <3>2
  <2>2. CASE c \notin 1..total
    <3>1. c \in (total + 1)..(total + d) /\ d # 0
      BY <1>1, <1>2, <2>2
    <3>2. QED
      BY <1>1, <3>1
  <2>3. QED
    BY <2>1, <2>2
<1>5. ASSUME NEW id \in K, NEW n \in Nodes PROVE \E c \in DOMAIN cells : cells[c] = <<id, n>>
  <2> DEFINE i == Index(lay, C, id, n)
  <2>1. i \in 0..(total - 1)
    BY RowsApart DEF total
  <2>2. cells[i + 1] = <<id, n>>
    BY <1>1 DEF RowAt
  <2> HIDE DEF i
  <2>3. i + 1 \in DOMAIN cells
    BY <1>1, <1>2, <2>1
  <2>4. QED
    BY <2>2, <2>3
<1>6. ASSUME d # 0 PROVE \E c \in DOMAIN cells : cells[c] = Zero
  <2>1. total + 1 \in (total + 1)..(total + d) /\ total + 1 \in DOMAIN cells
    BY <1>1, <1>2, <1>6
  <2>2. QED
    BY <1>1, <2>1
<1>7. ToSet(cells) = want
  <2>1. ToSet(cells) = {cells[c] : c \in DOMAIN cells}
    BY DEF ToSet
  <2>2. \A x \in want : \E c \in DOMAIN cells : cells[c] = x
    BY <1>5, <1>6
  <2> HIDE DEF want
  <2>3. QED
    BY <1>4, <2>1, <2>2
<1>8. QED
  BY <1>1, <1>7 DEF total, d, cells, HasEntries

(* WSEMODEL-CAL-077, of every table whose keyIds have no gap, for every    *)
(* topology and cache line: both layouts emit the same entries and the     *)
(* same number of bytes.                                                   *)
THEOREM PackageLayoutsAgree == PackageSpec => []SameEntries
<1>1. TypeOK => SameEntries
  <2> SUFFICES ASSUME TypeOK, Dense(keys)
               PROVE  /\ Len(Emission(keys, "key-major")) = Len(Emission(keys, "node-major"))
                      /\ ToSet(Emission(keys, "key-major")) = ToSet(Emission(keys, "node-major"))
    BY DEF SameEntries
  <2> DEFINE C == Cardinality(keys)
  <2>1. C \in Nat /\ keys = 0..(C - 1)
    BY KeyCount, FS_CardinalityType DEF Dense
  <2>2. "key-major" \in Layouts /\ "node-major" \in Layouts
    BY DEF Layouts
  <2> HIDE DEF C
  <2>3. /\ HasEntries(Emission(keys, "key-major"), keys, C)
        /\ HasEntries(Emission(keys, "node-major"), keys, C)
    BY <2>1, <2>2, EmissionEntries
  <2>4. QED
    BY <2>3 DEF HasEntries
<1>2. QED
  BY <1>1, PackageIsTable, TableTypeCorrect, PTL

(* The segment is the emission of the keys it was emitted for: no action   *)
(* but Emit writes it, and the layout of a table is fixed.                 *)
EmittedInv == emitted # {} => segment = Emission(emitted, layout)

(* The segment of any table is the emission of the keys it was emitted     *)
(* for, whatever has been defined since.                                   *)
THEOREM SegmentIsEmission == Spec => []EmittedInv
<1>1. Init => EmittedInv
  BY DEF Init, EmittedInv
<1>2. EmittedInv /\ [Next]_vars => EmittedInv'
  <2> SUFFICES ASSUME EmittedInv, [Next]_vars PROVE EmittedInv'
    OBVIOUS
  <2>1. CASE UNCHANGED <<layout, product>>
    BY <2>1 DEF EmittedInv, product
  <2>2. CASE Emit
    BY <2>2 DEF Emit, EmittedInv, table
  <2>3. CASE \E key \in Identities, id \in KeyIds : Register(key, id) \/ RegisterAs(key, id)
    BY <2>1, <2>3 DEF Register, RegisterAs, table
  <2>4. CASE \E key \in Identities : KeyRef(key)
    BY <2>1, <2>4 DEF KeyRef, table
  <2>5. CASE \E id \in KeyIds : AddKey(id)
    BY <2>1, <2>5 DEF AddKey
  <2>6. CASE UNCHANGED vars
    BY <2>1, <2>6 DEF vars, table
  <2>7. QED
    BY <2>2, <2>3, <2>4, <2>5, <2>6 DEF Next
<1>3. QED
  BY <1>1, <1>2, PTL DEF Spec

(* A call site finds its own row in the emitted segment, at the offset it  *)
(* was compiled with: key-major whatever was defined after it, node-major  *)
(* when the table has the key count of the site.                           *)
THEOREM PackageSitesReadTheirRows == PackageSpec => []SiteReadsItsRow
<1>1. TypeOK /\ EmittedInv /\ SiteMeansItsKey => SiteReadsItsRow
  <2> SUFFICES ASSUME TypeOK, EmittedInv, SiteMeansItsKey, Dense(emitted), site.ref.id \in emitted,
                      layout = "key-major" \/ site.count = Cardinality(emitted),
                      NEW n \in Nodes
               PROVE  HasEntry(site.ref.id, n, Index(layout, site.count, site.ref.id, n))
    BY DEF SiteReadsItsRow
  <2> DEFINE C == Cardinality(emitted)
             id == site.ref.id
             i == Index(layout, C, id, n)
  <2>1. C \in Nat
    <3>1. emitted \in SUBSET keys
      BY DEF TypeOK
    <3>2. IsFiniteSet(emitted)
      BY <3>1, KeyCount, FS_Subset
    <3>3. QED
      BY <3>2, FS_CardinalityType
  <2>2. emitted = 0..(C - 1) /\ layout \in Layouts /\ id \in emitted
    BY DEF Dense, TypeOK
  <2>3. Index(layout, site.count, id, n) = i
    BY DEF Index, Layouts
  <2>4. segment = Emission(emitted, layout)
    BY <2>2 DEF EmittedInv
  <2> HIDE DEF C, id
  <2>5. HoldsRows(Emission(emitted, layout), emitted, C, layout)
    BY <2>1, <2>2, EmissionCells
  <2>6. HasEntry(id, n, i)
    <3>1. RowAt(Emission(emitted, layout), i, <<id, n>>)
      BY <2>2, <2>5 DEF HoldsRows
    <3>2. QED
      BY <2>4, <3>1 DEF HasEntry, RowAt
  <2>7. QED
    BY <2>3, <2>6 DEF id
<1>2. QED
  BY <1>1, SegmentIsEmission, SitesMeanTheirKeys, PackageIsTable, TableTypeCorrect, PTL
==============================================================================
