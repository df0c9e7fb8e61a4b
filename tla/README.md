# A verification project for planeon-harness-contracts

This directory models the contract library in TLA+, checks the models with TLC on
small instances and proves the central results with TLAPS for all instances. Paths
are relative to the repository; `pkg/` stands for `src/planeon_harness_contracts/`.

## 1. The system

The repository is an offline Python library with a command line. It keeps no service,
database or thread of its own. A tenant's compile request and a *catalog* (sixteen
harness classes, one core module each, provider definitions in selector groups) go in;
six canonical documents (profile, installation waves, explanation, ...) come out, or
one coded error. Around that core stand the lifecycle and status contracts that other
services have to follow, a reader for an older contract version, the questionnaire with
its guidance rules, and the tooling that runs the repository's own checks offline.

| component | state it keeps | operations | what makes it correct | status |
|---|---|---|---|---|
| Dependency graphs (`pkg/graph.py`) | locals of one call: worklist, waves | `validate_graph`, `transitive_closure`, `topological_waves` | dependency-first minimal waves, least closure, exact refusals | modelled |
| Compiler (`pkg/compiler.py`) | locals of one call: selections, harness closure, module closure, install graph; two output directories | `compile_profile`, `write_compilation_outputs`, `verify_determinism_command` | nothing chosen or installed that the tenant did not name or accept; every plan installable; what is verified was compiled from the locked catalog | modelled but for shape checks and the text of the outputs |
| Catalog validation (`pkg/validation.py`) | none | `validate_catalog`, `capability_roles`, `admit_requested_capabilities`, `validate_harness_selection` | closed, acyclic catalog; same verdicts as the compiler | verdicts and cycle search modelled, per-kind shape checks as one fault |
| Registry and lock (`pkg/registry.py`) | catalog files, lock file | `load_catalog`, `expected_catalog_lock`, `catalog_command` | lock and resources of one version | modelled but for `ContractRegistry` |
| Lifecycle, status (`pkg/state_machine.py`) | transition tables | `require_transition`, `classify_freshness`, `aggregate_status` | revocation is final, no gate is skipped; the aggregate follows the documented precedence and ages only for the worse | modelled but for shape checks |
| Events (`pkg/events.py`) | identities and sequences seen in one stream | `validate_event`, `validate_event_path` | an accepted stream is an ordered part of the history, a refused one holds a fault | stream modelled, shape checks left out |
| Compatibility reader (`pkg/compatibility_data_harness_v1.py`) | none | `convert_legacy_document`, `restore_legacy_document`, `round_trip_evidence` | exact round trip; changes of a stored envelope are noticed | modelled but for shape checks and the fixture command |
| Questionnaire, readiness (`pkg/questionnaire.py`) | a directory of documents | `validate_questionnaire_path` and what it calls | an accepted readiness is honest, submitted answers cover every gate, documents agree | modelled, remaining field checks as one fault |
| Rule language (`pkg/rules.py`) | node counter of one walk | `validate_rule`, `evaluate_rule` | closed grammar within both limits; typed comparison | modelled |
| Generator (`scripts/`) | generated files, manifest | write, `--check` | no unnoticed mixture of versions; repetition repairs | modelled |
| Packet runner (`ci/run_packet_argv.py`) | packet file, digest, phase | prefetch, acceptance | one packet for the whole run, results count under that packet only | modelled |
| make dispatch (`ci/run_make_target.py`) | target descriptors | load, select, run | every owner of a target runs, or nobody | modelled |
| Model release and stream (`tests/model_api/`) | none | contract checks of the test tree | | not modelled: checks over data; the release inputs are sources of the generator |
| CLI, command registry | command table | dispatch | one handler per command | not modelled: a table lookup without state or order |
| canonical JSON, errors, records, build backend, other CI scripts, schemas, API descriptions, runtime admission document | none | conversions, file scans | | not modelled: conversions and host scripts without control of interest, or data and documents without code |

How they interact. `compile_profile` calls `validate_catalog` and `capability_roles`,
then `transitive_closure` twice (harnesses, modules), `validate_harness_selection` and
`topological_waves` on the install graph; `transitive_closure` ends with a call of
`topological_waves`; `validate_event` calls `require_transition`; a questionnaire hands
the condition of each rule to `validate_rule`. These calls are synchronous and share
nothing. The tooling is different: the packet runner starts one child process after the
other (`make prefetch`, the generator's `--check`, `harnessctl catalog lock --check`,
`harnessctl verify-determinism`), knows them by their exit statuses only, and all of
them read files of a working tree that developers edit at the same time.

What is hard here: order (a walk over a hash set, checks whose position matters,
sequences of events), repetition (the tenant who follows one refusal after the other,
the determinism check that compiles twice), graphs assembled from parts validated apart,
and, in the tooling, files read one after the other, twice, or through links while they
change, several files written one after the other by processes that can be killed, and a
verdict passed on through three processes. `PROJECT.json` lists each such place as a
hazard with its line.

## 2. Modules

| module | models | state and actions |
|---|---|---|
| `DependencyGraph` | nothing by itself | vocabulary: least closed set (`Reachable`), nodes no order can install (`Residue`), self-contained sets |
| `TopologicalWaves` | `validate_graph`, `topological_waves` | the locals of the call; `RefuseSource`/`ValidateEdges` are the edge checks, `Declare`/`RefuseIncomplete` one iteration of the first loop in any order, `PeelWave`/`RefuseCycle` one iteration of the second, `Return` |
| `ClosureContract` | what `transitive_closure` promises | one step from question to answer |
| `TransitiveClosure` | the worklist | `RefuseSeeds`, `StartExpanding`, `RefuseTarget`, `Expand` (one iteration), `ReturnClosure`; implements `ClosureContract` (`INSTANCE ... WITH`, property `ImplementsContract`) |
| `Catalog` | what an accepted catalog is, `capability_roles`, `admit_requested_capabilities` | constants and operators; `CatalogAccepted` is the assumption that `validate_catalog` found no issue |
| `CycleSearch` | `_cycle_nodes` | the stack of open nodes, each with the targets still to be walked; one action per call of `walk`, or the end of one |
| `Compiler` | `compile_profile` with `_validate_request` and `_provider_resolution` | one stage per stretch of the function; each stretch is a list of checks in code order, and either the first failing check refuses or the stage's action runs |
| `TenantConversation` | a tenant who follows refusals (external) composed with `Compiler` | `Revise` changes the request as the refusal says and submits again |
| `Lifecycle` | the tables of `state_machine.py`, `transition_allowed`, `require_transition` | operators |
| `LifecycleHistory` | an owning service (external) that asks before each change | `Request`, `RequestRefused`; `attempt` holds the states since the entity was last pending |
| `EventStream` | `validate_event_path` and what it is given | `Change`, `Project`: owners publish (external); `DeliverCopy`, `DeliverAltered`: the transport (external); one action per step of the call, which holds the events accepted so far |
| `StatusProjection` | `classify_freshness`, `aggregate_status`, `worst_installation_state` | `Evaluate` is one call of both at the present time, `Tick` passes time |
| `Compatibility` | conversion, envelope and restore of `compatibility_data_harness_v1.py` | what the owner has, the envelope, its changed places; `Convert`, `Restore`, `Compare` and the refusals are the calls, `Alter` is what stores or carries the envelope (external) |
| `GuidanceRules` | `validate_rule` | the recursion of `walk` is the list of nodes it has still to come to, each with its path; one action per kind of node, with the shared counter |
| `GuidanceEvaluation` | `evaluate_rule` | evaluation of an admitted rule, as recursive operators and so for TLC only |
| `GuidanceBundle` | `validate_questionnaire_path` and what it calls, composed with `GuidanceRules` | the files of a directory, read one at a time, then every document, every condition, the references; `EditBundle` is the tenant (external) |
| `CatalogLock` | `registry.py` and `validate_catalog`, composed with `CycleSearch` | `Steps` lists what a command does in code order; one action per file read, per step of a search, per comparison; `EditCatalogFile`, `UpdateLock` are developers (external) |
| `DeterminismCheck` | `verify_determinism_command`, `write_compilation_outputs` | adds fixture, compilations and output directories to `CatalogLock`; `FailToWrite` is an `OSError` between two files |
| `ContractGeneration` | `generate_contracts.py`, both modes | any number of processes, each with the revisions it imported and read and the target it is at; `ReadInputs` checks the model inputs, which `ReadReleaseSources` hashes again after the contracts were read, and `CheckDirectories` lists the directories again after the targets were compared; `KillWriter` (between files or half-way through one), `EditSource`, `AddStray`, `ReplaceOutput` (external) |
| `MakeDispatch` | `run_make_target.py` | variables, descriptors loaded in order, selection per packet, then the handlers, each at its place (packet, number), the first that is due at a time, or `FailToStartHandler` where its executable is missing; make may be called again when a call has ended |
| `PacketRunner` | `run_packet_argv.py` | packet read once, admission (what a path's last component and a casefolded argument are is given by the constants `BaseName` and `CaseFold`), canary; then `VerifyPacket` compares the digest, `ReturnResult` or `StartCommand` follows as a step of its own, and `FailToStart`, `FailToRead` are the exceptions nobody catches. The canary's interpreter is the runner's own and always starts; `ChangePacket` is external |
| `OfflineAcceptance` | the run as a whole | composes the last five: `BeginChild`, `ChildMoves`, `EndChild` tie a part to the runner's child (`Ended`: its status, where make reports 2 for any failure of the dispatcher), `Interference` is limited by an allowance per kind |
| `TopologicalWavesProofs`, `TransitiveClosureProofs`, `EventStreamProofs` | | theorems about the module of that name |
| `CompilerProofs` | | theorems about `Compiler` and `TenantConversation` |
| `DeterminismCheckProofs` | | theorems about `CycleSearch`, `CatalogLock` and `DeterminismCheck` |
| `OfflineAcceptanceProofs` | | theorems about `PacketRunner`, `ContractGeneration`, `MakeDispatch` and their composition |
| `LifecycleProofs` | | theorems about `LifecycleHistory` and `StatusProjection` |
| `DocumentProofs` | | theorems about `GuidanceRules`, `GuidanceBundle` and `Compatibility` |
| `MC*` | | instances for TLC; `MCStateMachine` runs `LifecycleHistory` and `StatusProjection`, which share no state, in one instance |

Abstractions. Identifiers are numbers or model values; sorted tuples are sets, and the
place in sorted order is kept where the code takes a first element (`Least`, `First`).
Evidence that prints the first of a sorted set holds the whole set in the model. The
compiler model starts from well-formed requests: shape checks, digests and the text of
the six documents are left out. `Compiler` uses `Reachable` and `Residue` for the calls
of `transitive_closure` and `topological_waves`; that these are what the calls compute
is what the proofs of `TransitiveClosure` and `TopologicalWaves` show. The check for a
capability with two owners never fires on the two checked catalogs; it would refuse
every request for a catalog that has one, although `validate_catalog` accepts it.

The event model keeps what an envelope says twice (organization and partition key,
subject and aggregate, type, kind and transition) and leaves out the shape checks of
single fields, and in `ListFiles` links, foreign entries, a path that is a single file
and files that are not JSON objects. A published event is numbered within its
organization and subject, as `docs/lifecycle.md` asks of owners. The transport loses an
event by never delivering it; it repeats, reorders and alters. An alteration changes one
field to a value another event could hold. Changes of a value the envelope says only
once (the number, a transition that is also legal) cannot be seen by any reader and are
excluded: authenticity is the business of the transport. In the status model statuses
are records with the fields that decide; the counts beside the aggregate and the refusal
of unknown axis names (`AxisRefused`) are left out. `NOT_APPLICABLE` counts as a pass
once it is accepted.

In the compatibility model a document is a function from fields to values; const, enum
and JSON type checks are sets of values; a digest is an injection. Schema identifier,
Git object and source digest of a contract are one provenance value, and two contracts
have different ones, which is true of the table although `_definition_index` does not
check it. The checks of an envelope's shape (`RestoreRefusal`) and of what canonical JSON
cannot express (`LegacyRefusal`) are left out.

In the tooling a digest is the content it was taken of. A catalog file is the edges it
contributes, whether it is a document at all, whether it has a fault that
`validate_catalog` reports without a search, and a note the compiler does not look at; a
generated file is the record of the source revisions that entered it. A packet's
commands are their argv; a child other than the four above ends with any status. What a
compilation gives is a function of what the compiler sees of catalog and fixture
(`DeterminismCheck.Visible`), so the refusal of `verify_determinism_command` for two
compilations that differ cannot occur in the model: it would take a compiler that is not
deterministic, which is what the graph and compiler models are about. A
guidance document keeps the fields that other fields or documents have to agree with,
and one flag for any other fault.

Definitions with the comment "Mutant" are variants of the definition below them with a
plausible bug. No specification uses them; `PROJECT.json` pairs each property with the
variant that breaks it.

## 3. Runs

| run | instance | shows |
|---|---|---|
| `waves` | all graphs over 3 nodes (also undeclared nodes and targets), every walk order | each wave holds exactly what is ready; refusals name the exact residue; every call ends |
| `closure` | all graphs over 3 nodes, all seeds | the worklist implements the one-step contract (least closed set, exact refusal) with its termination |
| `conversation` | 4 harnesses with everything an accepted catalog may hold | following the refusals settles, without repeated or contradictory advice; plans are explained and installable; only subjects close a cycle |
| `subject_edges` (violation) | 7 harnesses, 2 groups, 5 providers of the real catalog | a subject is installed: finding 1 |
| `state_machine` | every entity kind, every sequence of requests (complete state space); or every status of a harness with one axis, two axes, two harnesses, 6 bindings, times 0 to 3 | gates are passed on every path, what is retired, released or revoked stays so, a final state is never more than three transitions away; precedence, agreement with the displayed state, health that lasts until `freshUntil` and no longer, ageing |
| `event_stream` | 3 published events of 2 organizations, a subject with an operation and a projection, 3 files, one with a field altered that the envelope says twice | acceptance and refusal are both justified; a reader ends in the owner's state |
| `compatibility` | all documents over 3 fields and 5 values, 3 contracts and an unknown one, up to 3 changed places | exact round trip; only originals are restored |
| `version_mapping` (violation) | the same | the stated version can be ignored: finding 2 |
| `offline_acceptance` | 9 scenarios, see below | each verdict is about what was read; a success of the whole says what it seems to; the tree recovers |
| `guidance` | 2 gates, small readiness assessments, rules of two levels and four nodes, a bundle of 6 documents with 2 edits | accepted rules are in the grammar, rules within the documented limits are accepted, accepted readiness is honest, submitted answers cover every gate |
| `guidance_levels` (violation) | the same | a rule one level deeper than documented is accepted: finding 4 |
| `guidance_booleans` (violation) | the same | `true` matches 1 inside lists: finding 3 |

*Graphs.* Three nodes hold every shape the graph code tells apart: a self edge, a cycle
of two, a node that waits for a cycle, a chain of three waves, an undeclared source and
an undeclared target; the proofs remove the bound.

*Catalog.* Requests name at most three capabilities and two selectors at first, and
revisions add to that. Two groups are needed so that one refusal can follow another; the
hostile catalog has a conflict, a conditional edge, a production gate, a subject cycle, a
foreign module, an unreleased module and a partly compatible one, so each refusal of the
pipeline is reached except the ones that the theorems exclude and the owner check. The
fragment of the real catalog is closed under the dependencies of its demands; its
`WHEN_CAPABILITY` conditions are internal capabilities, which `requested_public` never
holds, so those edges cannot apply there; the hostile catalog uses a public one.

*Events.* Three events are the least that finish an operation by way of a running one
and the least with a middle that can be missing; three files hold two subjects
interleaved, which tells neighbours in the directory from neighbours in a subject.
`MaxEvents` and `MaxFiles` are the bounds; the proofs hold for any.

*Lifecycle and status* (`state_machine`). The two halves of `state_machine.py` share the
tables and no state, so a behaviour is one of either half. The tables are finite and the
run sees all of their state space. `MaxTime` is 3: before the projection, current, just
past and well past `freshUntil`. An installation may reach `READY` from `FAILED` or
`BLOCKED` through `ROLLING_BACK` without `VERIFYING` or `HEALTH_CHECKING` in that
attempt, which contradicts no document; `GatesPassed` therefore says health check or
rollback.

*Offline acceptance.* A scenario gives packets, environment, target descriptors, the
first working tree and an allowance for each kind of interference. Eight of them take one
kind in depth: all 4096 harness graphs over four nodes under the lock command, all
packets and environments, two changes of the packet, every set of target descriptors
under every call of make, two edits of catalog, lock or fixture under each catalog
command, two edits of sources or outputs under `--check`, one edit with a writer beside
the check, and a writer that is overtaken and killed twice. The ninth runs a packet with
all four children and any one interference with packet, catalog, sources or outputs. Two
edits are what it takes to change a file and put it back, or to change both of two
readings. The catalog has two files, so that one can change after the other was read.

*Guidance.* `MaxRuleDepth` and `MaxRuleNodes` are constants and set to 2 and 4, small
enough that rules just within, at and beyond either limit are among those enumerated;
`MaxRuleDepth` stands for the documented number of levels, which `guidance_levels` compares
with. In
the edited bundle every kind of document occurs once and one place is empty; two edits
can replace the definition and, after it was read, another document that has to fit it.

`CHECK_DEADLOCK FALSE` is set where calls or processes finish: a finished call has no
further step.

Fairness. `WF_vars(Next)` in the function models says that a call that can take a step
takes one: the code blocks on nothing. The conversation has weak fairness of the compiler
and of the tenant; the second is an assumption about the environment, since a tenant who
gives up settles nothing. `OfflineSpec` has weak fairness of `DeveloperWrites` only: a
developer who uses the writing mode at all keeps running it. That is what `TreeRecovers`
needs, and only where writing is allowed; nothing is assumed of runner and children.

## 4. Proofs

`tlapm` checks every theorem for all values of the constants, from the named assumptions
only, which TLC evaluates in the runs:

- graphs: `NodeAssumption` (identifiers are comparable);
- compiler: `CatalogTyped` and `CatalogAccepted` (what `validate_catalog` enforces, finite
  list of providers), `RequestsTyped` (a request has its fields), `JudgeModelsOwned`: a
  catalog that owns the judge owns the capabilities of its models. The sixteen classes of
  the repository do. In a catalog without them the model a tenant adds on advice would
  not count as requested, and the advice would be repeated;
- events and status: `AggregateTyped`, `BoundsTyped`, `SnapshotsTyped`, `BindingsTyped`,
  `TimeTyped`;
- documents: `DefinitionsAssumption` (the compatibility table), `RuleLimitsAssumption`
  (two numbers, at least one node), `RuleNodesAssumption` (children of a rule are rules),
  `DocumentsAssumption` (a guidance rule has a condition);
- tooling: `ExitCodesAssumption` and `PacketFilesAssumption` (statuses are numbers,
  packets have commands), `RevisionAssumption`, `ModesAssumption` (a generator has
  `--check` or it has not), `InitialTreesAssumption` (the first manifest is one the
  generator wrote, or none), `CatalogFilesAssumption` and `TreesAssumption` (shape of
  catalog files), `DirectoriesAssumption` (packets and commands are numbered),
  `CallsOfDevelopers` (the call of make inside a run is the runner's own).

Every safety invariant and every action property that a run checks is a theorem. Where a
property of a part is used in a composition, the composition is shown to take only steps
of the part, and the part's theorem is cited.

*Waves.* The inductive invariant adds to the properties that `remaining` and
`installed` partition the nodes during peeling, that every wave but the last has been
followed by a complete check of readiness, and that what is peeled was declared with
all its targets inside. Residue exactness follows since no deadlocked set can lose its
first member to a wave, and what is left when no wave exists is itself deadlocked.

*Closure.* The invariant is `WorklistInvariant`: seeds within selected, selected within
the least closed set, processed nodes closed. At an empty list the two bounds meet.
The refinement maps every step to a contract step or a stutter.

*Compiler.* The invariant `IInv` says stage by stage what the passed checks have
established and that each local still equals what the code computed; a call only moves
forward and later stages change no earlier local. From it: the tenant's selectors are
exactly the providers (an unchosen active group or an inactive selector cannot pass),
the two admission routines agree, a closure without subjects has its edges among those
`validate_catalog` searched, adding providers to an acyclic module graph keeps it
acyclic, and a finished plan is explained and installable.

*Conversation* (`CompilerProofs`). A call starts from nothing but its request, so what a
revision has settled must be a property of the request alone. `ConversationInv` adds to
the invariant of one call: `PassedInv` and `RefusedInv` say of the request what passing or
failing each list of checks means, `FollowedInv` that every followed refusal is still
heeded, whatever was revised since, and `TakenInv` that a selector taken from a proposal
is still the one choice of its group, active and compatible. A refusal and its being
heeded contradict each other, so no advice comes twice; no refusal about selectors can
name one that is settled; and once the tenant was told about prerequisites, the demand
passes and only prerequisites change. `EveryCallOfAConversation` carries the theorems
about one call to every call of a conversation.

*Cycle search* (`DeterminismCheckProofs`). The invariant adds that the stack is a path of
distinct nodes, that a target taken from a loop was left or is the next node of the path,
and that what was left depends only on what was left and holds no deadlocked set. An
empty answer leaves every node with targets visited, so no set of nodes is deadlocked.
`Init` leaves out self edges because `validate_catalog` reports those itself.

*Catalog commands* (`DeterminismCheckProofs`). `CommandInv` carries that invariant through
every search of a command and adds: at each place of `Steps` the issues are those of the
stretch passed so far; while nobody touches catalog and lock, what the lock command has
read is a beginning of what is there; `ReadInv` adds, edits or not, that a lock command
past its comparison has found the lock it read equal to what it listed, and one that ended
with 0 has validated documents that can be installed; and `verify-determinism`,
touched or not, goes
through compilation, directories and comparison with the lock it read. The lock command
answers exactly because a reported cycle leaves a residue (`CyclesDeadlock`) and silence
leaves none. `AcceptedIsLocked` needs more than the reading of the lock: the expected
digests were recorded from some catalog that compiles, agreement with them makes the
resources show the compiler what the locked documents do, and so both graphs are those
of a catalog that can be installed.

*Packet runner* (`OfflineAcceptanceProofs`). The invariant: nothing was started before the
packet was admitted, what was started is a beginning of its commands, no command follows
a failure, and since the packet last began to differ from the text that was read at most
one command has started. Comparison and decision are two steps and the packet may change
between them, so the packet need not be there when a command starts or a result is
returned. What holds is weaker: the path held it at some moment since the last child
ended (`held`). `SeenSinceTheChild` says so from the comparison on, since what was seen
stays seen, and `ResultsCountUnderThePacket` follows. An edit that is undone
between two comparisons goes unnoticed, as it does in the code.

*Generator* (`OfflineAcceptanceProofs`). The invariant follows an undisturbed checker:
what it has looked at is what is there, and the targets behind it are as they should be.
The manifest is its author's or half-written. For any number of processes.

*make* (`OfflineAcceptanceProofs`). `DispatchInv` says that nothing is started before every
descriptor was admitted and one rule per owning packet selected (`Selected`), that a
started handler is the rendered command of its place and all before it were started
(`HandledInOrder`), and that a process ended with 0 has no handler due. A target is then
handled by every packet that owns it, or by nobody (`OwnersOrNobody`).

*Acceptance* (`OfflineAcceptanceProofs`). `AcceptanceInv` ties the parts to the runner:
which child is running (`ChildInv`), and for each child that has ended with 0 what its
part says of it (`MakeInv`, `CheckInv`, `ResultInv`), up to the moment the next child
begins. With the invariants of all parts, a success of the whole vouches for each
command it names (`SuccessVouches`); for an untouched tree `UntouchedInv` adds that
`verify-determinism` has read the catalog and the lock that are there.

*Composition.* `RunsAsRunner`, `RunsAsGenerator` and `RunsAsCommands` show that every step
of an offline acceptance run is a step of that part or leaves it alone, so what is
proved of a part holds in the composition.

*Events.* The inductive invariant adds that histories number each subject upwards, that
a final state is the last change of an aggregate, and that every file is a copy of a
published event or an alteration of one. An alteration is never valid
(`AlteredIsInvalid`), so a valid file is a published event, and increasing numbers
within a subject give the order of the history. The newest event of an aggregate names its
present state; an accepted stream that has this event has no later one of the aggregate,
so its replay ends in the owner's state.

*Compatibility.* The invariant says that each place of the envelope that was not altered
holds what conversion put there, and that a restored answer passed every check. With
the digest intact the document is determined; with it altered, version and fields are
not, and joining them gives the document back. A changed contract leaves the provenance,
which fits one contract only.

*Lifecycle.* `HistoryInv` names for each kind and state the gates an attempt has passed
on the way to it (`OnTheWay`, more than the states `GatesPassed` asks about) and the
states that can come after it (`Afterwards`). Every entry of the transition tables keeps
both, which is where the tables of the source enter the proof.

*Guidance rules* (`DocumentProofs`). `Walked(V, r, U)` says of a set `V` of entries (a node
with its path) that all were walked without a problem and that the children of each are
in `V` or in the list `U` of those still to come. Paths tell entries apart, so the
counter is the number of entries in `V`. At an empty list `V` is the whole rule: a rule
without problems is in the grammar, has at most `MaxRuleNodes` nodes and no node at a depth
beyond `MaxRuleDepth`, and a reported problem means that it is not so (`WalkDecides`).
`RuleVerdicts` draws what is true of the documented limits from it: the code admits one
level more, so it refuses nothing the document admits. The nodes of a rule by level are a
recursive function; that it exists and that a statement holds for every level is derived
from the library's theorem that the naturals are well-founded, as an induction over a
set (`SetInduction`).

*Guidance bundle* (`DocumentProofs`). `BundleInv` says for each place of the command what is
known of what it has read: after the documents all are sound, the conditions left are
those not walked, and an accepted bundle passed every comparison. The files may change
meanwhile; the theorems are about what was read, as the verdict is.

*Status.* `AggregateIsWorst` shows that the worst per harness followed by the worst of
all is one worst over everything said; `AggregateAsDocumented` compares that with the
rules of the document, for any number of harnesses and axes. The invariant says that
what is shown was computed from an accepted snapshot and binding at an earlier time;
that a healthy answer is given with current cursors, stays what an evaluation would give
until `freshUntil` and is healthy no longer after it (`HealthLastsWhileFresh`), and
agreement of display and aggregate follow, and the comparison of two times of one
projection gives that time only worsens.

Only model-checked: liveness (`Terminates`, `Settles`, `TreeRecovers`, and the fairness
part of `ImplementsContract`), which is out of the prover's reach, and the evaluation of
rules (`GuidanceEvaluation`), a recursion over data. Not provable because false are the
four properties of the runs that expect a violation.

## 5. Findings

1. *Assurance subjects are installed.* `docs/taxonomy.md:68` says
   `SUBJECT_UNDER_EVALUATION` "cannot create an installation dependency";
   `pkg/compiler.py:531` makes it one (and `docs/compiler.md` and a unit test agree with
   the code). Run `subject_edges`.
2. *A stated version can be ignored.* `restore_legacy_document`
   (`pkg/compatibility_data_harness_v1.py:1141`) lets a `schemaVersion` inside
   `/spec/fields` replace `/spec/legacySchemaVersion`, which
   `docs/migrations/data-harness-v1.md` maps as `BIDIRECTIONAL_EXACT` with the fields
   excluding it. Run `version_mapping`.
3. *Booleans act as numbers inside lists.* `evaluate_rule` (`pkg/rules.py:157`) compares
   the types of two values and not of the items of two lists: the fact `[true]` equals
   `[1]`, against `docs/guidance-dsl.md:60` and 68. Run `guidance_booleans`.
4. *A rule may be one level too deep.* `docs/guidance-dsl.md:69` says "Rule trees are
   limited to 16 levels and 128 nodes"; `validate_rule` gives the root depth 0 and
   refuses what is greater than 16 (`pkg/rules.py:55`), so 17 levels are accepted. Run
   `guidance_levels`.

Seen while modelling, without a run of their own:

- `topological_waves` walks a set of strings (`pkg/graph.py:78`), so which of several
  incomplete nodes is reported depends on the hash seed of the process, while
  `pkg/errors.py:36` speaks of stable error evidence. On a complete graph `EarliestWave`
  and `CycleEvidenceExact` leave one answer; no property covers which node is named.
- `docs/guidance-dsl.md:11` names the version `planeon.io/v1alpha1`; the code expects
  `harness.planeon.ai`.
- A packet whose command lists are empty is accepted and succeeds without running
  anything; `AcceptanceVouches` is about the commands the packet has.
- The generator's writing mode never removes an undeclared file and writes through a
  link; `--check` then refuses the tree until someone removes them by hand, which is why
  `Recovers` excludes both.
- `catalog lock --check` validates one reading of the catalog and compares the lock with
  another, so it can accept a catalog it did not validate if a file is edited and put
  back in between. `LockVerdictExact` is exact for an untouched catalog only; with edits
  it says that each reading was fit for what was concluded from it. `verify-determinism`
  compares as well but is saved by the digests of its fixture.
- A readiness status that is a list or an object raises `TypeError`
  (`pkg/questionnaire.py:429`) in place of a coded issue.

## 6. What is left

Not modelled: shape checks of single fields, kind by kind, in catalog, questionnaire,
events and compatibility (each is one fault in the models; only their presence matters to
what is stated here); `ContractRegistry`, a lookup in a frozen dictionary; the checks of
`tests/model_api`, which belong to the test tree and go over data; the table of commands;
canonical JSON, the build backend, the host scripts of `ci/`, schemas and documents.

Worth doing next: the lookup of `ContractRegistry` with its two identifiers per contract,
and an iterative form of `evaluate_rule` about which something can be proved for rules of
any depth.
