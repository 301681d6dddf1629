------------------------------ MODULE RouteTable ------------------------------
(***************************************************************************)
(* The compile-time bookkeeping of a route table: the registry that hands  *)
(* out keyIds (calendar/key.py), the table of key definitions and the      *)
(* emission of its rows into the .rodata segment under either layout       *)
(* (calendar/table.py). A 16 byte entry is one cell of the segment, named  *)
(* by its key and its node; a cell nobody wrote is zero.                   *)
(***************************************************************************)
EXTENDS Integers, Sequences, FiniteSets, SequencesExt

CONSTANTS
  Identities,      \* the RouteKeys of a program
  MaxKeys,         \* MAX_KEYS and MAX_KEY_COUNT: the keyId budget
  NodeCount,       \* nodes of the topology: rows of a key
  EmittableCounts, \* the node counts whose entry takes exactly one cell
  LineCells,       \* TABLE_ALIGNMENT_BYTES, in cells
  Free             \* no identity

ASSUME TableAssumption ==
  /\ MaxKeys \in Nat \ {0} /\ NodeCount \in Nat \ {0} /\ LineCells \in Nat \ {0}
  /\ EmittableCounts \subseteq Nat
  /\ Free \notin Identities

VARIABLES
  byId,     \* keyId -> identity, or Free
  byKey,    \* identity -> keyId, or NoId
  refs,     \* the CalendarKeyRefs resolved so far: <<identity, keyId>>
  keys,     \* the keyIds of the table's definitions
  layout,   \* the table's layout
  segment,  \* the emitted segment, a sequence of cells
  emitted   \* history: the keyIds the segment was emitted for

registry == <<byId, byKey>>
table == <<keys, layout>>
product == <<segment, emitted>>
vars == <<registry, refs, table, product>>

KeyIds == 0..(MaxKeys - 1)
NoId == -1
Layouts == {"key-major", "node-major"}
Zero == <<NoId, NoId>>

------------------------------------------------------------------------------
(* Addressing. *)

\* Mutant of Index: the node-major stride is the node count.
IndexStride(lay, keyCount, id, node) ==
  IF lay = "node-major" THEN node * NodeCount + id ELSE id * NodeCount + node

Index(lay, keyCount, id, node) ==
  IF lay = "node-major" THEN node * keyCount + id ELSE id * NodeCount + node

\* A slice assignment at or past the end of the buffer extends it by a cell.
Put(buffer, i, cell) ==
  IF i < Len(buffer) THEN [buffer EXCEPT ![i + 1] = cell] ELSE Append(buffer, cell)

\* ordered_keys: the keyId with i - 1 smaller ones.
KeyAt(K, i) == CHOOSE id \in K : Cardinality({j \in K : j < id}) = i - 1

\* The rows in the order the emitter writes them.
Rows(K) ==
  [i \in 1..(Cardinality(K) * NodeCount) |->
     <<KeyAt(K, ((i - 1) \div NodeCount) + 1), (i - 1) % NodeCount>>]

\* The buffer after its first i rows have been written.
Written(K, lay) ==
  LET rows == Rows(K)
      buffer[i \in 0..(Cardinality(K) * NodeCount)] ==
        IF i = 0 THEN [c \in 1..(Cardinality(K) * NodeCount) |-> Zero]
        ELSE Put(buffer[i - 1], Index(lay, Cardinality(K), rows[i][1], rows[i][2]), rows[i])
  IN buffer

Emission(K, lay) ==
  LET filled == Written(K, lay)[Cardinality(K) * NodeCount]
  IN filled \o [i \in 1..((-Len(filled)) % LineCells) |-> Zero]

------------------------------------------------------------------------------
Init == /\ byId = [id \in KeyIds |-> Free]
        /\ byKey = [key \in Identities |-> NoId]
        /\ refs = {}
        /\ keys = {}
        /\ layout \in Layouts
        /\ segment = <<>> /\ emitted = {}

\* The lowest keyId without an identity.
Lowest(id) == byId[id] = Free /\ \A j \in 0..(id - 1) : byId[j] # Free

\* Mutant of Vacant: the occupant is overwritten.
Overwrite(key, id) == TRUE

\* A caller's own choice is taken when nobody else holds it.
Vacant(key, id) == byId[id] \in {Free, key}

Bind(key, id) == /\ byId' = [byId EXCEPT ![id] = key]
                 /\ byKey' = [byKey EXCEPT ![key] = id]

\* register of a new identity. An identity that is registered keeps its keyId
\* whatever the caller asks for, and every refusal leaves the registry alone.
Register(key, id) ==
  /\ byKey[key] = NoId
  /\ Lowest(id)
  /\ Bind(key, id)
  /\ UNCHANGED <<refs, table, product>>

RegisterAs(key, id) ==
  /\ byKey[key] = NoId
  /\ Vacant(key, id)
  /\ Bind(key, id)
  /\ UNCHANGED <<refs, table, product>>

\* A call site resolves an identity to its constant pair.
KeyRef(key) == /\ byKey[key] # NoId
               /\ refs' = refs \cup {<<key, byKey[key]>>}
               /\ UNCHANGED <<registry, table, product>>

\* The table takes a definition for a keyId it does not have. It does not
\* know the registry: the keyId is the compiler's word.
AddKey(id) == /\ id \notin keys
              /\ keys' = keys \cup {id}
              /\ UNCHANGED <<registry, refs, layout, product>>

\* The emitter refuses rows that do not take exactly one cell.
Emit == /\ keys # {} /\ NodeCount \in EmittableCounts
        /\ segment' = Emission(keys, layout)
        /\ emitted' = keys
        /\ UNCHANGED <<registry, refs, table>>

Next ==
  \/ \E key \in Identities, id \in KeyIds : Register(key, id) \/ RegisterAs(key, id)
  \/ \E key \in Identities : KeyRef(key)
  \/ \E id \in KeyIds : AddKey(id)
  \/ Emit

Spec == Init /\ [][Next]_vars

------------------------------------------------------------------------------
Nodes == 0..(NodeCount - 1)
Dense(K) == K = 0..(Cardinality(K) - 1)
HasEntry(id, node, i) == i < Len(segment) /\ segment[i + 1] = <<id, node>>

(* The registry and the table hold keyIds of the budget.                   *)
TypeOK == /\ byId \in [KeyIds -> Identities \cup {Free}]
          /\ byKey \in [Identities -> KeyIds \cup {NoId}]
          /\ refs \subseteq Identities \X KeyIds
          /\ keys \subseteq KeyIds /\ emitted \subseteq keys
          /\ layout \in Layouts

(* Invariant O1: one identity has one keyId and a keyId one identity, and  *)
(* no registration that comes later changes what a call site resolved      *)
(* earlier: the keyId in its text still denotes its own identity.          *)
OneToOne ==
  /\ \A key \in Identities, id \in KeyIds : byId[id] = key <=> byKey[key] = id
  /\ \A ref \in refs : byId[ref[2]] = ref[1]

(* WSEMODEL-CAL-077: both layouts emit the same entries and the same total *)
(* bytes, in a different order only.  Only of a table whose keyIds have no *)
(* gap, which neither add_key nor the registry asks for.                   *)
SameEntries ==
  LET a == Emission(keys, "key-major")
      b == Emission(keys, "node-major")
  IN keys # {} /\ Dense(keys) => Len(a) = Len(b) /\ ToSet(a) = ToSet(b)
==============================================================================
