-------------------------------- MODULE Package --------------------------------
(***************************************************************************)
(* From a route table to a package the loader takes: the definitions and   *)
(* the JSON file of the table (calendar/table.py), the call sites compiled *)
(* against it, the cache lines it costs (analysis/dcache.py,               *)
(* host/batcher.py), and the report of DeploymentPackage.validate          *)
(* (compiler/package.py) with the checks of the declared kernel object     *)
(* (compiler/selfcheck.py).                                                *)
(*                                                                         *)
(* validate collects every error; here validation stops after the first    *)
(* check with one, for only an empty report accepts the package. The parts *)
(* of a package are fixed when it is built and each is read by one check:  *)
(* they are chosen at that check. The rows of the keys are the concern of  *)
(* TableChecks, and a table may have only warnings from them here.         *)
(***************************************************************************)
EXTENDS RouteTable

CONSTANTS
  Opcode,       \* identity -> the opcode of its collective
  Versions,     \* version numbers
  RouteKey,     \* identity -> its phase and the axis of its group role
  Manifests,    \* a sequence of kernel-object files
  ShardSizes,   \* the sizes of weight shards, in bytes
  Concurrent,   \* the sequences of concurrent sets of keyIds
  NoSite

Digits == {"0", "1"}

\* The text of a number that a GroupRole takes.
IsNumeral(text) == text # <<>> /\ \A i \in DOMAIN text : text[i] \in Digits

\* A declared file: its figures are integers, where it states them.
WellTyped(file) ==
  /\ DOMAIN file.symbols \subseteq Nat /\ DOMAIN file.sections \subseteq Nat
  /\ \A i \in DOMAIN file.symbols : \A f \in {"size", "align"} \cap DOMAIN file.symbols[i] :
       file.symbols[i][f] \in Int

ASSUME PackageAssumption ==
  /\ Opcode \in [Identities -> 1..6]   \* RouteKey refuses the reserved codes
  /\ RouteKey \in [Identities -> [phase : STRING, axis : [number : BOOLEAN, text : Seq(STRING)]]]
  /\ \A a, b \in Identities : RouteKey[a] = RouteKey[b] => a = b
  /\ \A id \in Identities : RouteKey[id].axis.number => IsNumeral(RouteKey[id].axis.text)
  /\ DOMAIN Manifests \subseteq Nat \ {0}
  /\ \A i \in DOMAIN Manifests : WellTyped(Manifests[i])
  /\ ShardSizes \subseteq Nat

VARIABLES
  owner,      \* keyId -> the identity of its definition, or Free
  versions,   \* the table's three numbers
  site,       \* a compiled call site: its key ref and the key count it saw
  mirror,     \* calendarVersion of the CalReg image
  object,     \* the file of the kernel object, 0 for none
  shard,      \* the size of a weight shard
  concurrent, \* the sets of identities that may be in flight together
  once,       \* concurrent is an iterator, which a loop exhausts
  checked,    \* how many of the checks have run
  errors      \* the codes of the report

parts == <<mirror, object, shard, concurrent, once>>
report == <<checked, errors>>
packageVars == <<vars, owner, versions, site, parts, report>>

EntryBytes == 16
LineBytes == LineCells * EntryBytes
PageBytes == 2048
Count == Cardinality(keys)
VersionSet == [topology : Versions, calendar : Versions, route : Versions]

------------------------------------------------------------------------------
(* Cache lines. *)

\* Mutant of Lines: the last, partial line is not counted.
LinesDown(lay, keyCount) ==
  IF lay = "node-major" THEN keyCount \div LineCells ELSE keyCount

\* d_cache_lines_per_core.
Lines(lay, keyCount) ==
  IF lay = "node-major" THEN (keyCount + LineCells - 1) \div LineCells ELSE keyCount

BudgetErrors(lay, keyCount) ==
  {code \in {"V-KEYCOUNT", "V-DCACHE"} :
     \/ code = "V-KEYCOUNT" /\ keyCount > MaxKeys
     \/ code = "V-DCACHE" /\ Lines(lay, keyCount) > MaxKeys}

\* validate_entry_layout.
EntryErrors == IF NodeCount \in EmittableCounts THEN {} ELSE {"V-ENTRY-SIZE"}

LinesPerKey == (NodeCount + LineCells - 1) \div LineCells

\* What the refills of distinct lines cost, each of them missed by so many cores.
RefillAccount(distinct, requesters) ==
  [requests |-> distinct * requesters, ddr |-> distinct,
   served |-> Max({0, distinct * requesters - distinct})]

\* BatcherMem.data_refill: a line holds the entries of so many cores.
DataRefill(lines) == RefillAccount(lines, LineCells)

\* The same account taken from the table: every core misses all its lines once.
Residency(lay, keyCount) ==
  LET requests == NodeCount * Lines(lay, keyCount)
      ddr == keyCount * LinesPerKey
  IN [requests |-> requests, ddr |-> ddr, served |-> Max({0, requests - ddr})]

------------------------------------------------------------------------------
(* The file. The axis of a group role is a number or an expression; the    *)
(* text is a sequence of tokens.                                           *)

RoleText(axis) == axis.text \o <<")">>

Stripped(text) ==
  SubSeq(text, 1, Max({0} \cup {i \in DOMAIN text : text[i] # ")"}))

IsNumber(text) ==
  \E signs \in 0..(Len(text) - 1) :
    \A i \in DOMAIN text : IF i <= signs THEN text[i] = "-" ELSE text[i] \in Digits

\* Mutant of ReadAxis: a number stays a text.
ReadAxisText(text) == [number |-> FALSE, text |-> Stripped(text)]

ReadAxis(text) == [number |-> IsNumber(Stripped(text)), text |-> Stripped(text)]

\* A GroupRole refuses a negative number, and int a second sign.
LegalAxis(axis) == ~(axis.number /\ Head(axis.text) = "-")

\* to_dict: the keys in the order of their keyIds.
ToDict ==
  [layout |-> layout, versions |-> versions,
   keys |-> [i \in 1..Count |->
     LET id == KeyAt(keys, i)
         key == RouteKey[owner[id]]
     IN [id |-> id, phase |-> key.phase, role |-> RoleText(key.axis)]]]

\* from_dict: nothing when a key is refused, by its role or by add_key.
FromDict(file) ==
  LET axis(i) == ReadAxis(file.keys[i].role)
      legal == /\ \A i \in DOMAIN file.keys :
                    file.keys[i].id \in KeyIds /\ LegalAxis(axis(i))
               /\ \A i, j \in DOMAIN file.keys :
                    file.keys[i].id = file.keys[j].id => i = j
  IN IF ~legal THEN {}
     ELSE {[layout |-> file.layout, versions |-> file.versions,
            keys |-> {<<file.keys[i].id,
                        [phase |-> file.keys[i].phase, axis |-> axis(i)]>> :
                        i \in DOMAIN file.keys}]}

------------------------------------------------------------------------------
(* check_compiled_product. *)

RouteSymbol == "kCalendarRoute"
KeyRefNames == {"kRowAllGather", "kColAllGather"}

\* What a file may leave out of a symbol or of a section.
SymbolDefaults == [kind |-> "other", section |-> "other", size |-> 0, align |-> 1]

\* The symbols and the sections, in the order they are listed.
WellFormedObject(o) ==
  /\ \A i \in DOMAIN o.symbols : o.symbols[i].size >= 0 /\ o.symbols[i].align >= 1
  /\ \A i \in DOMAIN o.sections : o.sections[i].align >= 1

Completed(entry, defaults) ==
  [f \in DOMAIN entry \cup DOMAIN defaults |-> IF f \in DOMAIN entry THEN entry[f] ELSE defaults[f]]

\* load_object_file: nothing when it refuses the file.
LoadObject(file) ==
  LET o == [symbols |-> [i \in DOMAIN file.symbols |-> Completed(file.symbols[i], SymbolDefaults)],
            sections |-> [i \in DOMAIN file.sections |-> Completed(file.sections[i], [align |-> 1])]]
  IN IF WellFormedObject(o) THEN {o} ELSE {}

Objects == [i \in DOMAIN Manifests |-> LoadObject(Manifests[i])]

\* The names of the Calendar namespace among those of a manifest.
IsCalendar(symbol) == symbol.name \in {RouteSymbol, "calendar_epochCtr"}
IsWritable(symbol) == symbol.kind \in {"writable object", "bss object"}

\* The places of the symbols and sections of a name; find and section take the first.
Named(o, names) == {i \in DOMAIN o.symbols : o.symbols[i].name \in names}
Sections(o, name) == {i \in DOMAIN o.sections : o.sections[i].name = name}

Static(symbol) == /\ IsCalendar(symbol)
                  /\ symbol.section \in {".data", ".bss"} \/ IsWritable(symbol)

\* Mutant of WellEmitted: a symbol that is too large is accepted.
WellEmittedAtMost(found, keyCount) ==
  /\ found.kind = "read-only object" /\ found.section = ".rodata"
  /\ found.align >= LineBytes
  /\ found.size <= keyCount * NodeCount * EntryBytes

\* The route table's symbol.
WellEmitted(found, keyCount) ==
  /\ found.kind = "read-only object" /\ found.section = ".rodata"
  /\ found.align >= LineBytes
  /\ found.size = keyCount * NodeCount * EntryBytes

ProductErrors(o, keyCount) ==
  LET tables == Named(o, {RouteSymbol})
      rodata == Sections(o, ".rodata")
  IN {code \in {"F1", "F2", "F3"} :
        \/ code = "F1" /\ \E i \in DOMAIN o.symbols : Static(o.symbols[i])
        \/ code = "F2" /\ Named(o, KeyRefNames) # {}
        \/ code = "F3" /\ \/ rodata = {}
                          \/ rodata # {} /\ o.sections[Min(rodata)].align < LineBytes
                          \/ tables = {}
                          \/ tables # {} /\ ~WellEmitted(o.symbols[Min(tables)], keyCount)}

\* The declared product the tests and the command line take as the good one.
CleanObject(keyCount) ==
  LET bytes == keyCount * NodeCount * EntryBytes
  IN [symbols |-> <<[name |-> "ffn_fused", kind |-> "function", section |-> ".text",
                     size |-> 512, align |-> 1],
                    [name |-> RouteSymbol, kind |-> "read-only object", section |-> ".rodata",
                     size |-> bytes, align |-> LineBytes]>>,
      sections |-> <<[name |-> ".text", align |-> 4], [name |-> ".rodata", align |-> LineBytes]>>]

------------------------------------------------------------------------------
(* Key references. *)

RedOps == {"NONE", "SUM"}     \* SUM for every operator of a reduction
Reductions == {2, 3, 4}
LegalKeyRef(ref) == ref.redOp # "NONE" <=> ref.opcode \in Reductions

\* KeyDefinition.key_ref, which the immediates of a call site are taken from.
ImmediateRef(id) ==
  LET op == Opcode[owner[id]]
  IN [id |-> id, opcode |-> op, redOp |-> IF op \in Reductions THEN "SUM" ELSE "NONE",
      version |-> versions.route]

------------------------------------------------------------------------------
(* The other checks of a package. *)

\* Mutant of VersionErrors: the two artifacts are not compared.
VersionErrorsNone(calendar) == {}
VersionErrors(calendar) ==
  IF calendar # versions.calendar THEN {"V-CALREG-VERSION"} ELSE {}

OpcodesUsed == {Opcode[owner[id]] : id \in keys}

\* Mutant of Shares: three identities have to meet.
SharesThree(inFlight, op) == Cardinality({id \in inFlight \cap keys : Opcode[owner[id]] = op}) > 2
Shares(inFlight, op) == Cardinality({id \in inFlight \cap keys : Opcode[owner[id]] = op}) > 1

\* check_opcode_domains: one pass over the sets for every opcode, in ascending
\* order. The first pass uses an iterator up.
DomainErrors(sets, iterator) ==
  IF \E op \in OpcodesUsed :
       /\ iterator => op = Min(OpcodesUsed)
       /\ \E i \in DOMAIN sets : Shares(sets[i], op)
  THEN {"V-OPCODE-CONCURRENT"} ELSE {}

WeightErrors(bytes) ==
  IF bytes = 0 \/ bytes % PageBytes # 0 THEN {"V-WEIGHT-ALIGN"} ELSE {}

RodataErrors == IF Len(Emission(keys, layout)) % LineCells # 0 THEN {"V-RODATA-ALIGN"} ELSE {}

------------------------------------------------------------------------------
(* Building. *)

PackageInit ==
  /\ Init
  /\ owner = [id \in KeyIds |-> Free]
  /\ versions \in VersionSet
  /\ site = NoSite
  /\ mirror = 0 /\ object = 0 /\ shard = 0
  /\ concurrent = <<>> /\ once = FALSE
  /\ checked = 0 /\ errors = {}

Building == checked = 0

Assign == /\ Building
          /\ \E key \in Identities, id \in KeyIds : Register(key, id) \/ RegisterAs(key, id)
          /\ UNCHANGED <<owner, versions, site, parts, report>>

\* The compiler defines an identity under the keyId the registry gave it.
Define == /\ Building
          /\ \E id \in KeyIds : /\ byId[id] # Free
                                /\ AddKey(id)
                                /\ owner' = [owner EXCEPT ![id] = byId[id]]
          /\ UNCHANGED <<versions, site, parts, report>>

\* A call site is compiled to the key reference of its identity and to the
\* offsets of its rows, which it computes with the key count of the moment.
CompileSite == /\ Building /\ site = NoSite
               /\ \E key \in Identities, red \in RedOps :
                    LET ref == [id |-> byKey[key], opcode |-> Opcode[key], redOp |-> red,
                                version |-> versions.route]
                    IN /\ KeyRef(key) /\ LegalKeyRef(ref)
                       /\ site' = [ref |-> ref, count |-> Count]
               /\ UNCHANGED <<owner, versions, parts, report>>

EmitTable == /\ Building
             /\ Emit
             /\ UNCHANGED <<owner, versions, site, parts, report>>

------------------------------------------------------------------------------
(* validate. *)

\* The check runs when those before it found nothing.
Check(number, found) == /\ errors = {} /\ checked = number - 1
                        /\ checked' = number /\ errors' = found
                        /\ UNCHANGED <<vars, owner, versions, site>>

CheckTable == /\ keys # {} /\ emitted = keys
              /\ Check(1, BudgetErrors(layout, Count) \cup EntryErrors)
              /\ UNCHANGED parts

CheckProduct == /\ \/ Check(2, {}) /\ object' = 0
                   \/ \E i \in DOMAIN Manifests : \E o \in Objects[i] :
                        Check(2, ProductErrors(o, Count)) /\ object' = i
                /\ UNCHANGED <<mirror, shard, concurrent, once>>

CheckVersions == \E calendar \in Versions :
                   /\ Check(3, VersionErrors(calendar))
                   /\ mirror' = calendar
                   /\ UNCHANGED <<object, shard, concurrent, once>>

CheckDomains == \E sets \in Concurrent, iterator \in BOOLEAN :
                  /\ Check(4, DomainErrors(sets, iterator))
                  /\ concurrent' = sets /\ once' = iterator
                  /\ UNCHANGED <<mirror, object, shard>>

CheckWeights == \E bytes \in ShardSizes :
                  /\ Check(5, WeightErrors(bytes))
                  /\ shard' = bytes
                  /\ UNCHANGED <<mirror, object, concurrent, once>>

CheckRodata == /\ Check(6, RodataErrors)
               /\ UNCHANGED parts

PackageNext ==
  \/ Assign \/ Define \/ CompileSite \/ EmitTable
  \/ CheckTable \/ CheckProduct \/ CheckVersions \/ CheckDomains
  \/ CheckWeights \/ CheckRodata

PackageSpec == PackageInit /\ [][PackageNext]_packageVars

------------------------------------------------------------------------------
(* What a table and an accepted package are good for. The checks leave the *)
(* table alone: what is said of it is looked at while it is built.         *)

Accepted == checked = 6 /\ errors = {}

\* DeploymentPackage.versions takes one number from the image.
PackageVersions == [versions EXCEPT !.calendar = mirror]

\* The three numbers are checked together, of the table and of the package.
Mismatches(have, want) == {number \in DOMAIN have : have[number] # want[number]}
TableFits(chip) == Mismatches(versions, chip) = {}
PackageFits(chip) == Mismatches(PackageVersions, chip) = {}

\* Loader.install_weights.
Installs(bytes) == bytes % PageBytes = 0

\* An alignment is a power of two.
RowAddresses(base) ==
  {base + EntryBytes * Index(layout, Count, id, n) : id \in keys, n \in Nodes}
Bases(align) == {align * k : k \in 0..4}
Aligns == {1, 2, 4, 8, 16, 32, 64, 128}

LinesTouched(n) == {Index(layout, Count, id, n) \div LineCells : id \in keys}
Misses == UNION {{n} \X LinesTouched(n) : n \in Nodes}

\* The key reference of a call site, which the registry resolved, is the one the
\* table states for the keyId.
SiteMeansItsKey ==
  site # NoSite /\ site.ref.id \in keys => site.ref = ImmediateRef(site.ref.id)

(* A call site keeps reading its own row whatever keys are added later, in *)
(* the key-major layout; in the node-major one as long as the table that   *)
(* is emitted has the key count the site was compiled with. And its key    *)
(* reference is the table's own: route and timeslot stay those of one      *)
(* identity (O1).                                                          *)
SiteReadsItsRow ==
  /\ SiteMeansItsKey
  /\ site # NoSite /\ Dense(emitted) /\ site.ref.id \in emitted
       /\ (layout = "key-major" \/ site.count = Cardinality(emitted)) =>
         \A n \in Nodes : HasEntry(site.ref.id, n, Index(layout, site.count, site.ref.id, n))

(* A table survives its file: what from_dict builds from to_dict has the   *)
(* layout, the versions and the keyIds of the table and its identities,    *)
(* when no axis expression reads like a number or ends with a bracket.     *)
SavedIsLoaded ==
  Building /\ (\A id \in keys : LET axis == RouteKey[owner[id]].axis
                    IN axis.number \/ (Stripped(axis.text) = axis.text /\ ~IsNumber(axis.text)))
  => FromDict(ToDict) = {[layout |-> layout, versions |-> versions,
                          keys |-> {<<id, RouteKey[owner[id]]>> : id \in keys}]}

(* Calendar 3.8: the account of the cold misses is what the addresses give *)
(* when the row of a key is whole lines: every core misses the lines it    *)
(* touches, each distinct line once reaches the DDR, and Batcher.mem       *)
(* serves the rest; the account of Batcher.mem, whose lines are shared by  *)
(* LineCells cores, agrees. In the node-major layout a core whose run of   *)
(* entries straddles a line misses one more than the account says.         *)
RefillsAccounted ==
  Building /\ Dense(keys) /\ NodeCount % LineCells = 0 =>
    LET account == Residency(layout, Count)
        straddling == {n \in Nodes : layout = "node-major" /\
                         ((n * Count) % LineCells) + Count > LineCells * Lines(layout, Count)}
    IN /\ Cardinality(Misses) = account.requests + Cardinality(straddling)
       /\ \A n \in Nodes : Cardinality(LinesTouched(n))
                             = Lines(layout, Count) + Cardinality({n} \cap straddling)
       /\ Cardinality(UNION {LinesTouched(n) : n \in Nodes}) = account.ddr
       /\ account.served = account.requests - account.ddr
       /\ layout = "key-major" => account = DataRefill(account.ddr)

(* F1 to F3: wherever the linker puts the route table of an accepted       *)
(* package, the row of every key and node lies inside its symbol and in    *)
(* one cache line, and no symbol of that name is writable. The product     *)
(* that is declared clean for a table is accepted with that table alone.   *)
RowsAreSafe ==
  /\ Building => \A keyCount \in 1..MaxKeys :
       ProductErrors(CleanObject(keyCount), Count) = {} <=> keyCount = Count
  /\ Accepted /\ object # 0 =>
    \A o \in Objects[object] :
    LET tables == Named(o, {RouteSymbol})
        found == o.symbols[Min(tables)]
    IN /\ \A i \in tables : ~IsWritable(o.symbols[i])
       /\ Dense(keys) => \A base \in Bases(found.align) : \A a \in RowAddresses(base) :
            /\ base <= a /\ a + EntryBytes <= base + found.size
            /\ found.align \in Aligns => a \div LineBytes = (a + EntryBytes - 1) \div LineBytes

(* The versions of an accepted package pass a chip's check exactly when    *)
(* the versions of its table do, although one number comes from the image; *)
(* and the loader installs the weights.                                    *)
OneAlgorithm ==
  Accepted => /\ \A chip \in VersionSet : PackageFits(chip) <=> TableFits(chip)
              /\ Installs(shard) /\ shard > 0

(* Calendar 2.7.1: of an accepted package no two identities of one opcode  *)
(* may be in flight together, when the sets can be read more than once.    *)
NoSharedDomain ==
  Accepted /\ (once => Cardinality(OpcodesUsed) = 1) =>
    \A i \in DOMAIN concurrent : \A a, b \in concurrent[i] \cap keys :
      Opcode[owner[a]] = Opcode[owner[b]] => a = b
================================================================================
