# A formal model of the WSE Calendar collectives

TLA+ modules, TLC configurations and TLAPS proofs for `wse_model`, the reference
model of the wafer-scale engine's Calendar network.  Paths are relative to
`src/src/wse_model/` unless they start with `docs/`.

## 1. The system

A die is a rectangular mesh of cores.  A *collective phase* (AllGather) is
compiled into a route table: for each source core one row with a `{P, L}` bitmap
(which nodes pass the flit on, which land its payload) and the byte count its
core must receive.  At run time every member takes the next *epoch* of the
phase's *opcode* domain, posts a receive command for `{opcode, epoch}` and sends
its rows; nodes forward passively by the bitmap; every core counts the bytes
that land and is complete when the count reaches `expVal`.

### Inventory

| part | state | operations | interacts with | hard behaviour |
|---|---|---|---|---|
| receive contracts `calendar/receive.py` | accounts and parked arrivals per `{opcode, epoch}`; per account the seen-set and byte count | `post`, `retire`, `deliver`, `commit` | filled by `Noc.send`, posted and retired by `run_allgather` | early, duplicated, uncommitted, own and out-of-range arrivals; faults halfway through an adoption |
| collective phase `collective.py` | none of its own; the die's | `run_allgather` (argument checks, Step2 to Step6) | `Noc`, ingress ledgers, epoch trackers, the table | raises halfway and leaves its traces; later calls meet them |
| NoC object `noc/network.py` | banks, windows, ledgers, trackers, sequence numbers | `install_calreg`, `next_epoch`, `send`, `drained` | everything on the die | what "drained" covers; figures computed from the walk |
| CalReg and windows `noc/calreg.py` | slots per node; transfers in flight | `install`, `lookup`, `enter`, `drain`, `require_drained` | `Noc` | installation only on a drained die |
| epoch counters `calendar/epoch.py` | one counter per core and opcode | `next`, `assert_spmd_consistent` | `Noc.next_epoch` | wrap of a narrow tag; counters that run apart |
| route table and keys `calendar/table.py`, `key.py` | keys, rows, versions | `register`, `add_key`, `validate`, `to_bytes`, `to_dict`, `check_versions` | feeds phases, packages and the loader | two derivations of `expVal`; addressing; the file |
| route bits and entry `calendar/route_bits.py`, `entry.py` | none | pack, unpack, register pair | table, node | field boundaries inside a register |
| structural checks `calendar/validate.py` | none | `check_induced_tree`, `validate_route_bits` | table, compiler | tree test of an induced subgraph |
| geometry `calendar/geometry.py` | none | `exp_val`, `capacity`, arenas | phases, table | offsets that must tile an arena |
| topology `topology.py` | none | adjacency, induced edges | all of the above | |
| multicast walk `noc/forward.py` | worklist, expanded set, trace | `simulate_multicast` | `Noc.send` | termination on cyclic bitmaps |
| flits `noc/flit.py` | none | header, counts, cutting a row | `Noc.send` | rounding |
| graph model `acir/` | one event and the node's resident fields | route entry, forward, admit, epoch, receive wait | mirrors the parts above | divergence from the core |
| loader, launch constraints, scheduler `host/runtime.py` | install flags, versions, waves | install, check, kickstart, launch | `Noc`, table | order of steps, stale checks |
| pipeline order `core/pipelines.py`, alignment `calendar/collective.py` | commands per pipe, arrivals at the semaphore | issue, retire, barrier, report | phases on a core | O3: sends before receives deadlock; HW-7: the semaphore's width |
| compiler package and self-check `compiler/` | none | checks over a table and a kernel object | table, loader | a part that comes from another build |
| worked example `fixtures.py` | none | generates groups, rows, geometry, image, object | all checks | its own two derivations |
| batcher, UB bus, core cost model, analysis, open items, command line | | arithmetic, formatting | | the refill accounts only |

What makes each part correct:

* ledger: counts every distinct, committed, remote segment exactly once, in
  whatever order it comes; a waiting command is never replaced, and removed
  only by a `retire` that is passed another account of its key;
* phase: a call that starts sound ends with every account closed; no command
  ever counts the payload of another round; a failure is not papered over;
* counters and windows: cores of a domain agree; the windows hold what
  was left in flight, nothing else;
* send: the walk always ends and is judged clean exactly when there is no cycle;
  what the table's checks accept is never refused; a send that is not refused
  serves exactly the walk's landings, once, and costs what it reports;
* registry and table: one identity, one keyId, whatever is registered later; a
  call site finds its own row, and the table in its file is the same table;
* validation: a table with an empty report makes every member's `expVal` the
  bytes that its own group sends it, and nobody else's, in places of their own;
* package: an accepted one is of one algorithm, shares no opcode domain and has
  its rows inside its symbol wherever the linker puts it;
* loader and scheduler: nothing runs that was not loaded and checked, the die
  holds one image as long as a flit depends on it, no core waits for a later wave;
* pipe order: every round ends, no send slips into another round;
* graph model: of the segments of a round that land on its node it accounts
  only what the ledger counts, and it refuses those for known reasons only.

## 2. Modules

| module | models | kind |
|---|---|---|
| `Account` | the accounting rules of `ReceiveAccount` | operators |
| `Receive` | `CoreIngress` and `ReceiveAccount`, one core | state machine |
| `RecvPromise` | what the ledger promises: one tally per key, no buffer | abstract specification |
| `AllGather` | `run_allgather` over `Noc`, windows, banks, counters and one ledger per core | state machine, uses `Account` |
| `Mesh` | topology, induced subgraph, per-source checks | operators |
| `Fabric` | nodes forwarding a flit independently under the two hop rules | abstract specification of forwarding |
| `Forward` | the worklist of `simulate_multicast` | state machine, refines `Fabric` |
| `Flit` | header, legal sends, cutting a row | operators |
| `Send` | `Noc.send`: the walk, the refusals, the figures, then the fabric | composition of `Forward`, `Flit`, `Fabric` |
| `RouteTable` | `CalendarKeyRegistry`, `add_key`, addressing and emission | state machine |
| `Package` | definitions, call sites and file of a table, its cache lines, the checks of a deployment package and its kernel object | state machine over `RouteTable` |
| `TableChecks` | the validation of a definition, the arena and the example made from it | state machine, uses `Mesh` |
| `Entry` | bitmap, entry and register pair as two-bit digits | operators |
| `NodeBlocks` | the rules of a node in the graph layer | operators over `Entry` |
| `NodeEngine` | the queue graph of one node beside the core's counters and ledger | state machine |
| `Loader` | `Loader`, `Scheduler`, the CalReg banks and the windows of the die | state machine |
| `Pipes` | the pipe trackers of the cores of an opcode running Step0 to Step6 at one semaphore | state machine |
| `MCReceive`, `MCAllGather`, `MCSend`, `MCPackage`, `MCNodeEngine`, `MCLoader`, `MCPipes` | instances for TLC | |
| `ReceiveProofs`, `AllGatherProofs`, `ForwardProofs` (with `Send`), `TableChecksProofs`, `PackageProofs` (with `RouteTable`), `NodeEngineProofs` (with `Entry`), `LoaderProofs`, `PipesProofs` | theorems | |

What composes what.  `AllGather` runs one ledger per core with the rules of
`Account`; `Receive` shows what such a ledger promises.  `Send` has the side of
`Noc.send` that `AllGather` abstracts to a landing order and a count of hops.
`TableChecks` and `Send` both take a row to be accepted by `Mesh!PathErrors` and
`LandErrors`; `TableChecks!Closes` is what `AllGather` assumes of the plan of a
sound call.  `Package` extends `RouteTable`: every step of it is one of the table's or
leaves the table alone.  `Loader` has the side of the banks and windows that `AllGather`
abstracts to one image and one number.  `NodeEngine` puts the graph beside the
counters of `AllGather` and the ledger of `Receive`.  `Pipes` has the concurrency of
the cores that `run_allgather` puts in a sequence.

### How state and actions correspond to the code

**Receive.**  `command[k]`, `seen[k]` and `counted[k]` are the fields of the
account `_accounts[k]`; an absent account is `NoCommand`.  `pending[k]` is
`_pending[k]`.  `Deliver` is `CoreIngress.deliver`, split by outcome: `Defer`
(DEFERRED), `Discard` (the range fault of contract 2), `Count` (COUNTED, or the
overflow fault, which the code raises after it has added the bytes), `Ignore`
(UNCOMMITTED, SELF_SOURCED, DUPLICATE).  `Commit` delivers the committed copy.
`Post` installs a fresh account and runs the adoption loop in the same action:
a caller makes a new account for every post.  It keeps their handles, and
`retire` takes any of them: it tests the account it is passed and pops by key.
`spare[k]` says whether a complete account of the key that is not the
outstanding one is at hand (one that was replaced, or retired, or that was never
posted because its `expVal` is 0); `Retire` is the call with the outstanding
account, `RetireOther` the call with a spare one, and both `Pop`.
`Adopted` and `FaultPoints` are the loop in closed form, which the assumption
`AdoptionIsTheLoop` of `MCReceive` compares with the loop itself for every
buffer.  A raise is recorded in the history variable `faulted`; `presented`
remembers what has arrived.  A segment's key mismatch cannot occur in
`CoreIngress`, which looks the account up by key.

**AllGather.**  `pc` walks through one call: `epoch` (Step2, one member per
step), `agree`, `post` (Step3), `release` and `land` (Step4: header, walk, one
landing per step, the row loop outside the landing loop), `drain` (Step5 and
Step6 in one step; nothing can intervene and no state changes between them).
`Abort` is an exception: the call ends and everything done so far stays.  All
windows receive the same `enter` and `drain` calls, so `inFlight` is one number,
and all banks hold the same `image`.  A bitmap is represented by the landing
order of its walk (`lands`) or as one that is refused (`cyclic`); hops are
counted as one per remote landing and a row as one flit, which leaves the
equality of what is entered and drained as it is (`Send` has the real figures).
Epoch counters that have not been created yet are 0.

**Mesh, Fabric, Forward, Send.**  A bitmap is a pass set and a land set; `SendInit` takes
every one that `RouteBits.from_sets` builds, validated or not.  `Component`
is the set the searches of `check_induced_tree` compute.  In `Forward` the head of
`stack` is the entry that `pop` returns; `Expand` and `Revisit` are the two
branches of the loop body, with the landing at their beginning.  `Inject` is the
rest of `Noc.send`: a walk that is not clean, a plan, a header or a link that is
not legal raises, and `outcome` is the record it returns, `max_depth` with the
scan of the hops it makes.  From then on only `Hop` runs: `egress_set` and `landing_ok` at one
node, in any order.

**RouteTable, Package.**  `byId` and `byKey` are the two dictionaries of the registry, `refs`
the constant pairs that call sites were compiled with.  `Register` and
`RegisterAs` are `register` without and with a keyId; a call for an identity that
is registered already, and every call that raises, change nothing.  `AddKey` is
`add_key`: the table does not know the registry.  `Emission` replays `to_bytes`
cell by cell, a slice assignment past the end included, which extends the
buffer: `Written` is the buffer after each row, a recursive function, and `KeyAt` the order of
the keyIds.  The content of an entry is its key and node, so a row that another one
overwrote is visible.  In `Package` the compiler defines an identity under the keyId
the registry gave it (`Define`), compiles one call site at any moment
(`CompileSite`: key reference and row offsets of that moment), and then
`validate` runs its checks in order; each part of the package, fixed when it is
built, is chosen at the check that reads it.  The report of the code collects
all errors; here it stops at the first check with one, since any error rejects.
The axis of a group role is a sequence of tokens, so that the guess of
`from_dict` whether it is a number can go wrong; objects are lists of symbols
and sections, of which `Named` and `Sections` give the places and `find` the first, so that a second
symbol of a name can go unseen; `Completed` adds what a file may leave out.

**TableChecks.**  The rows of one definition are checked source by source
(`CheckRow` is one turn of the loop of `validate`, the row chosen in the same
step from all bitmaps), then `Declare` takes the entries' `expectedRxBytes`,
right or one destination off, and `Conserve` is `_check_conservation`.  The groups' tuples ascend, so a member's rank is the number of
members below it.
`Counted`, `ExpVal` and `Immediate` are what `run_allgather` and
`call_site_immediates` derive from an accepted definition, `Address`, `Fits`, `Packed`
and `ValidFill` what the arena does with it, `Example` what `ffn_example`
generates.

**Entry, NodeBlocks, NodeEngine.**  A byte string is a function from positions to
two-bit digits, so every field begins at a digit and a shift by `2n` is the
reading of digit `n`; a field that is read at a wrong place returns what lies there.
`Rest` is the chain of quotients that cuts a number into digits and `Value` the Horner sum that puts them
together again, both recursive functions, so that proofs can unfold them.  `FitsIn` is the range check of the
packing, and `Packs` says of an entry that `pack` does not raise.
`v` is the event that travels through the graph with its operands and derived
fields; `lands` and a few others that no rule reads are left out of it.  `Load`,
`Forward`, `Admit`, `Epoch`, `Recv` are the five rules, each one
rewriting of the event; `Present` and `Release` are the source, which takes any segment sent,
whether the node lands it, only passes it on or has no pair for it; `Sink` is external: it
hands the resident fields to the next event of the opcode.  `NextRound` and `Send` move
the core's counters and numbering, which starts at `First`: a source numbers its segments through,
whatever they are for.  `ledger` is what the core's ledger counts of the
same arrivals.

**Loader.**  `done` is the set of flags of `InstallState` that are set.  `Install`
stands for the three install calls, which differ in their flag and in the drain
test.  `bank` says, for an opcode, which package's slot every node holds (all
banks get the same calls); an image with a reserved opcode, two slots of one
opcode or a refused slot is not built.  `traffic` is what the windows count, with the slot that
released each flit.  `Report` is external: the host copies the count of the
windows into `in_flight_transfers`, which nothing under `src/` does.  `Schedule`
takes the caller's word for `drained`, as the code does.  A call that raises
changes nothing: a version check that fails leaves the flag as it was.

**Pipes.**  `outstanding` and `waiting` are the fields of `PipeTracker`, one per core.
`step` and `round` place the core in the step table; `Report` and `Align` are Step2,
`Join` is Step5 and Step6.  `arrivals[r]` is the `AlignmentDomain` of the opcode for
the rendezvous of round `r`: the class counts up and never resets, so in the model every rendezvous
has one of its own (who makes it is not in the code); `Arrive` refuses to wrap.  All cores of the opcode meet there,
their `Group` decides only whose sends they receive.  `BeginWait` may come at any
moment after the receive command, for the tracker does not say when a core meets
its wait.  `PIPE_M` stands for the compute and memory pipes that only the barrier of
Step1 looks at.  The arrival of a send at the other cores is external to the
tracker: it is one step, which the ledger and fabric modules refine.

## 3. Runs

Deadlock is checked in `receive` and `pipes` only; the other systems may stop: a die on which the bound of
calls is reached, a fabric without flits, a walk that has ended, a package that is
accepted or rejected.

| run | question | bounds |
|---|---|---|
| `receive` | are the seven contracts kept under any arrival order, and does a satisfiable wait end? | two keys, three identities, two-byte rows, arenas of 2 to 5 bytes, at most 3 parked arrivals per key |
| `receive_stale` | is a command retired only when it is complete? (not with the handle of another account of its key) | as `receive`, with no complete account at hand before the first post |
| `allgather` | do sound calls close and return, and do faulty ones stay contained? | three cores, two opcodes, tags 1..2, two rows, one image, up to 4 calls, a call with fabric self-delivery among the faulty ones |
| `allgather_wrap` | does the epoch still tell rounds apart when only some cores call and the tag wraps? (it does not) | tags 1..2, up to 5 calls |
| `send` | does the walk end and judge rightly, and does the fabric do what the send reported? | every legal bitmap and source on 2x3; a link of six bytes with a header of four; a plan that fills a flit, one with a partial flit and self-delivery, one that is refused |
| `package` | what does an accepted package promise, and a table while it is built | three identities of two opcodes, three keyIds, four nodes, lines of four cells, two version numbers, 17 kernel objects, both layouts |
| `table_checks` | does an empty report mean that the phase closes, each row in its place? | a line of three nodes; every membership, partition, bitmap per row, self-delivery; strides that hold one row to three |
| `loader` | can anything run unloaded, or meet another image, or a wave split a group? | four packages, three of whose images the code refuses or that lack a slot; two flits, two launches, a row and a column of cores that share one |
| `pipes` | does a send leave its round or precede production, and does every round end? | three cores in groups of two and one, a semaphore of two bits, two rounds of two sends |
| `node` | where does the graph agree with the ledger, and where not? | five nodes over two registers, the fifth in the second one, placed at a node of each; one-byte rows, an arena of two, a seen vector of two bits, tags 1..2, four opcodes; two senders with two segments each, numbered 1, 2 and 0, 1; a table whose rows wait for two bytes, one of which only passes the node, and one with an absent pair, an illegal pair and a row that waits for more than the arena |
| `node_passing` | does the ledger count whatever the graph accounts of the traffic through its node? (not what only passes) | as `node` |
| `node_per_opcode` | can one opcode's rounds disturb another's? (they can) | as `node` |

Why the bounds are enough to meet the interesting cases.  `receive`: an arena of
two rows with three identities makes overflow possible, overlapping rows leave
the range, three parked arrivals hold an original, its copy and an uncommitted
write; two keys show that keys do not interfere.  `allgather`: four calls over
tags 1..2 wrap twice and allow fault, fault again, and recovery; two rows make
an adopted buffer partial; three cores have a pair and an outsider.  `send`: a 2x3
mesh has every corner and border port, two minimal cycles that share a link and
the cycle around both.  `package`: three keys of four nodes fill three lines in either layout
and make a core straddle one; the second opcode is shared and is not the lowest; an object of an earlier emission
has the wrong size.  `table_checks`: three nodes
have a pair and a non-member, a group of one, and a middle node with two ports;
the rows are all bitmaps, so all combinations of errors that cancel are met; the example of a
one-row mesh has a row phase with one group and a column phase of single cores.  `loader`:
with a package that fits and one that does not, installs, checks and kicks
interleave in every way, and a second image lacks a slot of the first.  `pipes`:
two rounds are the smallest number in which a send can slip, two sends in which a
barrier can return halfway, three cores the most a two-bit semaphore counts, and
the smallest number with a group to wait for and an outsider.  `node`: node 4 is the first of the
second register; a receive needs two segments to complete, and both senders have one with number 1, so that
the second to come is taken for a copy; number 2 is beyond the vector; two tags wrap once a round is left, and a
segment of a round that is over can be presented in the next.

**Fairness.**  `receive` assumes `WF(Commit(s))` for every segment: `Noc.send`
presents every landing of a plan, and a write that landed commits and is
presented again (`CoreIngress.commit`).  `allgather` assumes that a call that
has begun keeps executing (`WF(Step)`): it is straight-line code with bounded
loops.  `send` assumes that the loop of the walk keeps running and that a node
forwards what it holds; not that anything is sent.  `pipes` assumes `WF` of a core's next step and of its
pipes (compute ends, a queued send is released and lands, a satisfied wait is
noticed), and none of `BeginWait`.  It also checks deadlock: a state in which no
core can go on is an error.

### What four runs refute

1. `receive_stale`: `CoreIngress.retire` (`calendar/receive.py:280`) tests
   `complete` of the account it is passed and pops by key.  Post A, let it
   complete, post B under the same key, retire A: B is removed while it waits.
   `docs/requirements/calendar-closure.md:132` says that a receive command cannot be
   retired until it is complete.  `run_allgather` passes the outstanding account,
   so the phases are not affected.
2. `allgather_wrap`: `Noc.drained` (`noc/network.py:163`) tests the windows
   alone.  Two cores post for round 1 and their call raises before anything is
   sent; their commands stay.  The third core calls on by itself, its tag
   wraps to 1, and its row of round 3 is counted by the commands of round 1.
   `calendar/epoch.py:45` says the wrap is legal only once the earlier traffic
   has drained, and by the windows it has.
3. `node_passing`: `recv_wait` (`acir/model/top.py:308`) does not read `lands`, which
   no rule reads.  A segment on its way through the node takes a bit of the seen
   vector and its bytes are counted, where the core's ledger never sees it.
   `acir/README.md:5` says that the layer must never disagree with the core.
4. `node_per_opcode`: the graph reads the lane of an opcode as the counter vector
   shifted down (`acir/model/top.py:290`) and never cuts off the lanes above.
   Once a higher opcode has had a round, the tag computed for a lower one is
   refused or 1, whatever its own counter says.  `acir/blocks/epoch.py:11` says
   that one domain cannot perturb another.

### Conditions the code does not enforce

Some properties hold under a condition that is stated in their definition and that
nothing under `src/` checks.  They are the places where a caller must take care.

* *No fabric self-delivery* (`AllGather!WellCompiled`).  `land_counts`
  (`calendar/table.py:123`) counts a source's own L bit, and the account
  classifies that row as SELF_SOURCED: such a phase never closes.
  `docs/architecture/calendar-noc.md:320` says `landCount` counts remote sources.
* *Rows of non-members are empty* (`TableChecks!Silent`).  `validate` skips
  them (`calendar/table.py:267`), and `land_counts` would add their landings.
* *Groups of equal size* (in `Closes`).  `call_site_immediates`
  (`compiler/package.py:155`) compiles the lowest member's `expVal` for all.
* *The stride of the geometry holds a group* (`ArenaFilled`).  Offsets come from the ranks
  (`collective.py:225`); only the range check of a landing would notice that they do not fit.
* *The key count a site was compiled with is the table's* (`SiteReadsItsRow`).  Node-major
  rows move when a key is added (`calendar/table.py:210`); the table stays
  mutable after it was validated or emitted.
* *KeyIds have no gaps* (`Dense`, in `SiteReadsItsRow` and in `SameEntries`, which is proved and not run).  `entry_index`
  (`calendar/table.py:207`) needs it; neither `add_key` nor `register` asks for
  it.  With keyIds 0 and 2 the node-major rows overlap and the segment outgrows
  `table_bytes`; key-major grows past the end as well.
  `docs/requirements/calendar-closure.md:152` says without a condition that the layouts differ in
  order only.
* *Every branch ends in a node that lands* (`LeavesLand`, in `RowsAndDepth`).  `max_depth` is documented as
  the longest path from the source to a land point (`noc/forward.py:109`).  What the code computes is
  the longest to any node the flit reaches: with pass `{0, 1}` and nothing to land on node 1 it is 1, though
  no land point is that far.  The two are the same when the ends of all branches land, and
  nothing, not even the table's checks, asks for that.
* *The concurrent sets can be read more than once* (`NoSharedDomain`).
  `check_opcode_domains` (`compiler/package.py:289`) reads them once per opcode, so a one-shot
  iterator protects the lowest opcode only.
* *An axis expression does not look like a number or end with a bracket*
  (`SavedIsLoaded`).  `from_dict` (`calendar/table.py:453`) guesses.  It also
  takes the entries of a row in the order of the list and ignores the node each
  one states.
* *The host makes a loader per package and reports traffic.*  No flag is ever
  cleared: after one package has passed `check_versions` (`host/runtime.py:220`), the check of another raises and
  `kickstart` and `launch` succeed all the same, where
  `docs/requirements/calendar-closure.md:218` says that a package of a wrong
  topology never runs.  `launch` asks the counter that the host writes, never the windows
  (`host/runtime.py:244`).  `LoadedBeforeLaunch` therefore says that what runs has been
  through every step, not that the steps were of one package.  Nor does any check ask that the opcodes a
  table uses are installed by the package's image: a send finds out.
* *A caller retires the account that is outstanding* (`WaitingIsKept`, `PostedCompletes`).  See the first
  refutation; both properties name the exception.
* *No higher opcode has had a round* (`TagAgrees`), and *every row has the same
  `expectedRxBytes`* (`CompleteTogether`): the graph takes the figure of the row of the
  sender whose segment it is counting.
* *Only segments of the round that land on the node reach its receive wait* (`AccountsAgree`,
  `CompleteTogether`).  Otherwise a segment in transit is accounted, and the graph can complete on it.
* *The groups of a phase are a partition* (`TableChecks`).  The rows are chosen for a partition of the members;
  groups that overlap are checked member by member by the code and are not modelled.

## 4. Proofs

Checked by TLAPS for every value of the constants.  Each proof module states type
correctness first; the runs do not repeat it.

**ReceiveProofs** (any keys, identities, row size, segments, commands and
bound).  Assumptions: those of `Account` and `Receive` on the constants.  The
inductive invariant joins the type invariant, `OnePlace` (an arrival is parked or accounted, never
both), `ExactBytes`, the
finiteness of the seen-sets (`ExactBytes` speaks of their cardinality) and
`NothingLost`, which alone is not inductive: to conclude that a key without a
fault has accounted everything one must know that a posted key has an empty
buffer and an unposted one an empty account.  Proved from it: `TypeCorrect`,
`CountsExactly`, `LosesNothing`, the action property `KeepsWaiting`, and
`KeepsPromise`, the refinement of `RecvPromise`: `Defer` and `Count` map to
`Arrive`, `Post` to `Open` or `Reopen`, `Retire` to `Close`, `RetireOther` to
`Forget` of the key whatever it waits for, and delivering what
counts for nothing to a stutter.  `KeepsWaiting` is about every step, that one
included: a waiting command is left as it is or, with a spare account at hand, removed.

**AllGatherProofs** (any cores, opcodes, images, calls, rows, tag width and bound of calls; assumptions: those of
`AllGather` on its constants).
`TypesKept` is the type invariant.  `WindowsKept`: the windows hold what the calls that raised left and what the send that
is under way has entered.  The invariant under `NoCrossRound` and `NotPaperedOver` is about a die on which no counter has
wrapped (`NoWrap`): then a tag names one round, so whatever is parked or counted under a key is of the round of that key,
and an account that waits still stands where the next call of its opcode reads back.  After a wrap the tag names several
rounds, a leftover account that was trivially complete may be replaced by a command of its number, and
the run `allgather_wrap` shows that `NoCrossRound` itself fails when only some cores call.  `Uniform` says that every call
takes all cores; under it both `EpochsAgree` and `NoCrossRound` are proved with wraps and aborts (`EpochsInStep`, `OwnRounds`): once one
counter has advanced no other can refuse, so a call raises before the first or leaves all together; and no
core sends before all have posted, so nothing is ever parked.  `SoundCallsClose` needs
no bound at all: `SoundRun` says of a sound call which rows are due to a core at each point of the send loop, that `expVal` is the bytes of
the rows due, that they lie in the range of the account (the stride holds a group) and that what was counted and what is
still due make up the whole.  Ascending lists of cores are shown to exist by taking least elements (`LeastElement`,
`AllNaturals`, `AscendingExists`).

**ForwardProofs** (any mesh, bitmap and source).  `ReachesComponent` only speaks
of the end of the walk.  `WalkInv` says what holds on the way: every pass
neighbour of an expanded node is expanded or on the worklist (`Frontier`);
whoever put an entry there was expanded before (`SentByExpanded`), which is
why the ingress port may be left out of an egress without breaking `Frontier`;
nothing outside the component of the source is touched (`Inside`); the landings
are the expanded L nodes (`Landings`).  At the end the worklist is empty, so the
expanded set is closed and contains the source, hence the component.
`CleanIsAcyclic` compares the trace with the table's count of links, components and nodes.  `CycleInv` counts along the walk: the expanded
nodes hang together, so they have at least one link fewer than nodes (`Spans`), and they have more (`Loops`)
exactly when an arrival at an expanded node is on the worklist or was recorded (`Tree`); the entry by which a
node was reached is no second arrival, since a node is never sent back where its flit came from.  The lemma `NoCycleInside` gives the step from
the whole to its parts: in a component with one link fewer than nodes no part
has as many links as nodes.  With it every turn of the loop on an acyclic component is a hop of the
fabric or nothing (`WalkIsFabric`, the refinement `StepsAreHops`).  `FigureInv` follows the links the trace used, and
from it `EachLinkOnce`: a clean walk uses every link of the component once.

*Send*, in the same module (any set of plans besides).  A send runs the walk and leaves it alone (`SendIsWalk`), so all of the above holds of
it.  `SendInv` repeats the argument for the fabric, in which the order of the worklist is gone: the nodes that have seen a flit
are a tree inside the component and the flits in flight lead out of it to different nodes, for a second one to the same node would be a cycle,
and a walk that met one was refused.  From it: `AcceptedRowsAreClean` (what the table's checks accept is never refused), `OneCopyEverywhere`,
`FiguresOfTheFabric` (hops, link loads and presented rows) and `RestsWhereCredited`, the safety half of `Delivers`: when no flit is left, the
nodes that committed are those the walk credited.

`RowsAreCutWhole` proves `RowsAndDepth`, about two loops, which the model states as recursive functions (`PayloadOf`, `Depths`,
`Ball`).  That the pieces of a row add up to it is an induction over the pieces: the sum of the first i is i payloads or
all of the row (`CutRow`, from the division in `Pieces`).  For the depth, `DepthsExist` and `DepthsAlike` show that the recursion has one solution,
and `OneMoreHop` that an iteration of the walk adds one step to it.  `DepthInv` says that without a cycle around the source these depths are layers:
every node but the source is one link past an expanded node, and every link of an expanded node joins depths one apart
(`Layered`).  The step rests on `PeersAreNew`: a peer that was heard of before would close a cycle, so the maximum in
`max_depth` never has two paths to choose from.  The layers up to k are then the nodes at most k links from the source
(`BallsAreLayers`), and no layer lies deeper than there are nodes (`DepthsBounded`).  A node of the deepest layer has one
link (`DeepestIsLeaf`): the others hang together without it, and a second link would close a cycle; so it lands when the
ends of the branches do, and the depth is that of a land point.

**TableChecksProofs** (any mesh, members, groups, rows and geometries).  The validation is a loop over the sources; `CheckedInv` collects
what its turns have found.  `AcceptedTableCloses` counts sources: a row without error lands on its group, rows of non-members are empty, so the sources
that land on a member are the others of its group, each with one payload.  `AcceptedArenaFills`: if every
command completes, as many rows fitted as were sent, so each did, and the last row of the highest rank shows that the stride holds the
group; then the places are apart and inside by division with remainder, and with the stride of the group they are those of the packed arena.
`GeneratedTablesPass` is about the mesh: rows and columns are lines, a line is connected and has one link fewer than nodes (`LineIsTree`), so the groups of
the example are trees on every mesh.

**PackageProofs** (any identities, opcodes, versions, object files, shards and concurrent
sets, any budget, node count and cache line; assumptions: an opcode is one of 1 to 6, different identities have
different phases or axes, a number is written in digits, the figures of an object file are integers).  First the
registry and table alone.  `OneToOne` is inductive with
the types: `Bind` writes both dictionaries at a place that was free in both, so no reference
changes its meaning.  `RowsApart` is arithmetic, not a state property: for
keyIds without gaps both index functions are injective and stay inside the
segment, by the uniqueness of division with remainder (`StrideApart`).  `PackageIsTable`: `Package` refines `RouteTable`, so what is proved
of the table holds of a package that is being built and checked.

* *Call sites.*  `CompiledInv`: a definition has the identity the registry has for
  its keyId, and a call site's reference is that of some registered identity; it is kept
  because a binding only ever takes a free keyId (`AssignKeeps`).  From it `SitesMeanTheirKeys`.  For the emitted bytes
  the buffer is compared with its closed form `Filled`: rows put at places of their own (`RowsApart`) fill it one by
  one, none is overwritten and none extends it (`FilledStep`), so `EmissionCells`; the segment is always the emission of the
  keys it was emitted for (`SegmentIsEmission`).  Together `PackageSitesReadTheirRows`.
  And by division every place is some row's (`EveryCellIsARow`), so both layouts have the rows, the padding and nothing
  else: `PackageLayoutsAgree`.
* *Accepted packages.*  `ReportInv`: while the report is empty, every check
  that has run finds nothing when it is asked again, because no later check touches what an earlier one read.  From it
  `PackageOneAlgorithm`, with the finiteness of the keyIds and the case of a single opcode apart `PackageSharesNoDomain`, and
  `PackageRowsAreSafe`: the first symbol of the name has the table's size and alignment, no symbol of the name is writable,
  and an entry that starts on a multiple of its size does not leave its line (`LineOfEntry`).
* *The file.*  `KeysInOrder`: `KeyAt` lists a finite set of numbers once and completely, by counting the smaller ones;
  `AxisReadBack`: taking the bracket off and guessing the type gives the axis back.  From them `PackageSavedIsLoaded`.
* *The refills.*  A run of entries touches a run of lines (`RunOfLines`), as many as it fills or one more when it straddles
  (`NodeMajorLines`); key-major every key has lines of its own (`KeyMajorLines`); the misses are counted core by
  core (`PairsCounted`).  From them `PackageRefillsAccounted`.

**NodeEngineProofs** (any sizes of the layout, tables, opcodes, fixed nodes and placements; assumptions: those of `NodeEngine` on its
constants, among them that the entries of an installed table are ones `pack` does not refuse and that the tail of the entry fits the second
register).  Numbers and digits are recursive functions.  `RecursionOnNat` shows that a recursion on the naturals
has a solution, `Induction` is the induction over a set of numbers, by the least counterexample; with them `Rest` and `Value` are
inverse to each other, field by field, up to `EntryRoundTrip`: an entry is read back from its bytes and from its two registers as it
was packed.  `EngineInv` says of the event, stage by stage, which fields are known and what they are (`EventOK`), of the core
that its ledger has segments of the opcode that land on it (`LedgerOK`; what the graph accounts need not), and of the resident state that it is the bookkeeping of the
segments accepted in the round (`AccountedOK`); that last part is the one the properties need and none of them states: a
bit of the vector is set exactly by an accounted segment of that number, so that an accepted one is new, and its count
is the number of the accounted ones.  From it `EntriesAreLoaded`, `GraphFollowsLedger`, `CompletesTogether` and `TagsAgree`.

**LoaderProofs** (any packages, images, groups, cores and bounds).  Every
invariant is inductive with the types.  `OneImage` needs both its parts: a flit
enters with the slot of the bank, which is the image's because banks hold
nothing else.  `WavesTogether` speaks of chains of groups; the lemma `WaveClosed`
shows that a wave that splits no group is itself closed, so it contains the
smallest closed set.

**PipesProofs** (any finite set of cores in any groups, any width, sends per round and rounds).  The two properties
compare cores at different steps, so neither is inductive.  `PipesInv` adds: the send
pipe holds exactly the issued sends that are not emitted (`Queue`), every
finished round is emitted whole and no later one begun (`Emitted`), a core past
its barrier computes nothing (`Quiet`), the semaphore of a round has counted
exactly the cores that have reported for it (`Counted`, by cardinality), and so a core past its alignment has been
reached by all others (`Aligned`).  `NeverWraps` concludes that a semaphore that can count
the cores of the opcode never refuses a report.

Only model-checked: liveness (`PostedCompletes`, `SoundCallReturns`, `Ends`,
`Delivers`, `EveryRoundEnds`), which is out of the prover's reach.
Every safety invariant and action property of a passing run is a theorem.  Recursive functions are within reach: one can be
unfolded once a solution of its equation is exhibited, and an induction over numbers can be carried out in first-order
steps, by the least counterexample.  What a fold of the library returns for every sequence cannot be reached that way,
so nothing that is proved folds over a sequence.

## 5. Plan

Done: the ledger with its promise and proofs; the phase over the die; the send with its
checks, walk, figures and fabric; the loader and scheduler over the banks; the registry, the table, its validation,
its arenas and its example; the package; the pipe order with its semaphore; the graph model of a node beside the core.
Next:

1. Proofs: the outcomes of `Receive!Post` and of the adoption loop against each other.
2. Models: a die whose calls meet a table that is loaded again between them.

## 6. Not modelled

* Floating-point analysis, bandwidth and cost models (`analysis/` but the residency account, `core/cube.py`,
  `core/dram.py`, `core/buffers.py`, `host/batcher.py` but the refill account, `host/ub_bus.py`): formulas
  without protocol state.
* The register of open items, the errors, the command line: data and text.
* Timing (timeslots, `armLeadCycles`): the code records it and does not simulate it.
* `RecvContext` (`calendar/epoch.py`), which nothing under `src/` uses; `require_version`
  (`calendar/key.py`), which nothing calls.
* Conflict proofs of a package and the other warnings: they reject nothing.
* Padding of a row in an arena: `SymmetricArena.packed` raises for every value but 0.
* Of the graph layer: the block-level arithmetic that the top model states again, the lowering of the queue
  protocol, overflow of the 32 and 64 bit fields (the node's byte counts and addresses stay below them), and the
  specialisation to the 48 node die (fixed nodes are a constant set).
* The names and kinds of the collective intents: a typed front end of a key.
