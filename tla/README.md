# A TLA+ development of praxis-forge

praxis-forge turns a declarative agent spec (`AgentSpec`, its `extends` parents
and its overlays) into a `BuiltAgent`: it normalizes the spec, resolves every
component it names through a `ComponentRegistry`, composes the kernel options of
`praxis` and records what it did in a manifest. This directory models that
pipeline in TLA+, checks it with TLC on small instances, and proves with TLAPS, for
instances of any size, most of the safety properties that TLC checks. The chains a
built agent runs, and the session example that shows how an application keeps a
conversation, are modelled too.

## 1. Inventory

| Part | Source | State | Operations | What is hard |
|---|---|---|---|---|
| Component registry | `registry/` | 14 maps, a `frozen` flag, an RWMutex | `RegisterX`, `X(id)`, `Freeze` | goroutines share it: registrations race each other, lookups and freezes |
| Extends resolution | `spec/normalize.go`, `spec/store.go` | visited set, recursion frames, chain | `resolveExtendsChain` | cycles, diamonds, depth limit, failing and changing stores, cancellation |
| Merge, overlays, validation | `spec/normalize.go`, `merge.go`, `locked.go`, `validate.go`, `provenance.go` | spec under construction, provenance of each field | `mergeChain`, `applyOverlays`, `Validate`, `scanLockedDrift` | several merge rules, nil overlays, cleared lists, identity through layers |
| Skill expansion | `build/expand.go` | effective lists, contract slot, attribution | `expandSkills`, `injectRequired`, `injectOutputContract`, `resolveOutputContract` | order, conflicts, idempotence, who gets the attribution |
| Build pipeline | `forge.go`, `build/build.go`, `resolver.go`, `mcp.go`, `tool_router.go`, `budget.go`, `capabilities.go`, `manifest/` | resolved components, router, manifest | `Build` and its stages | shared registry, three versions of the spec in scope, any stage may fail |
| Overlay and spec decoding | `spec/overlay.go`, `load*.go` | none | `LoadOverlay`, the `UnmarshalYAML` methods | absent, null and empty are three things |
| Canonical JSON and hashes | `spec/canonical.go`, `build/expanded_hash.go` | two memos, one `sync.Once` each | `CanonicalJSON`, `NormalizedHash`, `CanonicalConfigsEqual` | pruning, unencodable values, nested memos, a mutable spec |
| MCP imports | `spec/validate_mcp.go`, `build/mcp.go`, `factories/mcpbinding` | ids seen, bindings built | `validateMCPImportsStructure`, `Factory.Build`, `resolveMCPBindings` | untyped maps decoded twice, in two ways |
| Policy and filter chains | `build/policy_chain.go`, `filter_chains.go` | payload and decisions so far | `Evaluate`, `Filter` | order of stages, short circuits, partial results |
| Bundled filters and policies | `factories/filter*`, `factories/policypackpiiredact`, `examples/sliding-window-filter` | none | `Build(ctx, cfg)`, `Filter`, `Evaluate` | config boundaries, composition |
| Other bundled factories | `factories/` | none shared | `Build(ctx, cfg)` | config decoding, I/O |
| Session example | `examples/session-pattern` | the caller's sessions | `Turn`, `Resume`, `Load`, `Save` | a shared pointer, overlapping and failing calls, pauses |

The parts interact by calls only: `forge.Build` calls `Normalize`, which calls the
store; then `build.Build` freezes the registry and calls it once per component.
A built agent calls the chains during an invocation, and applications call the
agent. Goroutines share three objects: the registry, the memos of a
`NormalizedSpec`, and, in the session example, the `*Session` that the store hands
out. What makes the parts correct:

- the registry behaves as one atomic, write-once, freezable table per kind;
- the chain is root-first, complete, bounded and finite whatever the store says;
- every field has the value of the last layer that set it, and provenance, the
  overlay attribution and the locked identity agree with that;
- after expansion every skill has what it requires, and what the author
  did not write is attributed to the first skill that asked for it;
- a build sees one frozen registry, and its manifest describes what was
  really resolved;
- what an overlay file says is what the merged spec says;
- a chain answers as its first objecting stage, and no order of the bundled stages
  loses a redaction, a limit or an objection;
- an MCP binding keeps every restriction its config states;
- equal specs, and only they, have equal hashes, and a memo gives one answer;
- a conversation contains what its calls were told, and a pause is decided once.

`PROJECT.json` lists each hazard at the line where it bites, with the properties
that would catch it.

## 2. Modules

| Module | Models | State and actions |
|---|---|---|
| `RegistrySpec` | what the registry promises | `frozen`, `table`; each call takes effect at one instant between `AbsInvoke` and `AbsReturn` |
| `Registry` | `registry.go` as written | adds `pc`, `writer`, `readers`: Lock in its two halves (announce, drain), the tests, the map write, the map read and the deferred unlock are separate steps. The 28 methods are one `Check`/`Insert` and one `Read`, indexed by the kind |
| `ExtendsChain` | `resolveExtendsChain` | the recursion is unrolled into `path` (refs of the active frames) and `next` (their loop indices); `Start`, `Enter`, `Visit`, `Load`, `LoadFails`, `Return`, and `Cancel` by the caller |
| `Normalize` | the rest of `spec.Normalize` | one action per merged parent, the base, each overlay, `Validate`, `ScanLockedDrift`; layers are chosen from a set as the fold reaches them |
| `SkillExpansion` | `expand.go` | one step per resolved skill, one per merged requirement, one for the contract |
| `Build` | `forge.Build` | extends `SkillExpansion`; stages `normalize, freeze, skills, resolve, mcp, tools, budget, new, done`, beside `Register` and `OtherBuildFreezes` of other goroutines |
| `Overlay` | `overlay.go`, `load_overlay.go` | extends `Normalize`; no state of its own: `LoadOverlay` maps a document to the overlay `Normalize` applies, or to none |
| `CanonicalMemo` | `CanonicalJSON` and `NormalizedHash` of `canonical.go` | `tree` (the spec), the two `once` and `memo`, the callers; `EnterOnce`, `Encode`, `InnerOnce`, `SumUp`, `Return`, and `Edit` by whoever holds the spec; the bytes of a spec are a parameter |
| `Canonical` | `computeCanonicalJSON` | extends `CanonicalMemo`; no state of its own: `PruneEmpty` and `CanonicalEncode` over trees, the value its parameter has in the run. They are recursive operators, so this module is checked and not proved about |
| `MCPImports` | the two passes over MCP imports | `seen` and `errs` of validation, `bindings` and `err` of the build; one step per import and pass |
| `ChainSpec` | what a chain promises | one answer in one step, decided by the first stage that fails or objects |
| `Chains` | the four chains as loops, with the bundled stages | `next`, `cur`, `all`; `StageFails`, `HookObjects`, `HookContinues`, `FilterBlocks`, `FilterPasses`, `ChainEnds` |
| `Session` | `session.go` and the policy of its `main.go` | `calls` (each with its program counter), `heap` (session objects), `data` (the store's map); one step per access to shared state, an append in two |
| `MC*` | | values of the constants for TLC |
| `RegistryProofs`, `ExtendsChainProofs`, `NormalizeProofs`, `BuildProofs`, `MCPImportsProofs`, `ChainsProofs`, `SessionProofs` | | theorems about the module of that name; `NormalizeProofs` has those of `Overlay` and `CanonicalMemo` too, `BuildProofs` those of `SkillExpansion` |
| `DataLemmas` | | lemmas about numbers, sequences and iteration that the proofs share |

Composition. `Registry` implements `RegistrySpec` (property `Atomic`, theorem
`Refinement`), which is what lets `Build` treat a registry call as one step and a
registered `<<kind, id>>` as one factory. `Build` contains `SkillExpansion` as a
stage. The outcome of normalization enters `Build` as success or failure:
`ExtendsChain` and `Normalize` say what a success looks like. `Normalize` is run
with overlays that `Overlay` decoded, so `DocumentsDecide` goes from the file to the
merged spec. `Chains` implements `ChainSpec` (property `Implements`: `INSTANCE
ChainSpec` with `Objects` mapped to the loops' own test; the loop variables are
hidden, a stage that passes is a stutter, the step that returns is the answer).

Data abstraction. Refs, configs, names and field contents are opaque values. An id
is a name and a version; an id that does not parse has the name `NoName`. A config
has a canonical form, or none (`Unencodable`). Validation is membership in a set
`Valid`. What a factory builds, and what a store answers, is any member of a given
set or an error, chosen when the call is made. A field of an overlay is `Absent`,
`None` (null), `Empty` or a value, and these are kept apart because the merge
rules keep them apart. `orchestrator.New` and the factories are external: they
succeed with a value or fail. A factory of credentials or of an identity that returned
neither, `(nil, nil)`, would be missing in the manifest's components (`build.go:250,255`)
and present in its capabilities (`capabilities.go:56,61`); `CapabilitiesMatch` does not
speak of such factories. In `Chains` a message is its role and whether its text, or another
part, holds a secret; a tool result is a number of bytes; a policy input is what the
PII patterns match. In `MCPImports` a field of a config is absent (or null), of the
wrong type, or a value. In `Canonical` the bytes are tokens and SHA-256 is taken as
injective. In `Session` a message is the call that produced it.

Undefined behaviour. Overlapping calls of one session race on the slice header.
`Session` takes an append as a read and a write of the header, and lets a write on a
stale header overwrite the slot another slice of the same array shows, for every
capacity the runtime may have chosen. Headers torn in the middle (pointer, length
and capacity are three words) are not modelled. Messages of the overlapping session itself
are lost that way; what overlap cannot do is put a message into another session
(`SessionsIsolated`) or into one history twice (`NothingDoubled`). An edit of a spec while the encoder
reads it is excluded from `CanonicalMemo`.

The operators under "Mutated form" are the definitions with one plausible mistake
each. No specification uses them; substituted for the definition they precede, each
one makes TLC refute the property it is listed with.

## 3. Runs

| Run | Bounds | Shows |
|---|---|---|
| `registry` | 3 goroutines, 2 factories that compete for one id, 2 kinds | `OutcomeHolds`, `WriteOnce`, `FrozenIsFinal`, `Atomic` (refinement of `RegistrySpec`), and that every call returns (`CallsReturn`) |
| `extends` | 4 refs, lists of up to 2, depth limit 2 | `RootFirst`, `ChainComplete`, `ErrorChainIsPath`, `DepthRespected`, `LoadedOnce`, `Terminates` |
| `normalize` | up to 2 parents, a base, up to 3 overlays against a limit of 2; 10 spec layers, 16 documents, overlays built in Go, nil | `ProvenanceExact`, `ValueOfLastSetter`, `OverlaysKeepIdentity`, and from the file on `DocumentsDecide` |
| `skills` | up to 3 skills, 20 contributions (the structured-output skill's among them), 37 compositions, 3 registries | `AttributionExact`, `RequirementsMet` |
| `build` | 26 compositions, 6 components that other goroutines may still register | `NotFoundIsFinal`, `RequirementsBuilt`, `CapabilitiesMatch`, `InjectionTraceable`, `ToolsRouted` |
| `chains` | chains of up to 3 stages, 5 to 10 kinds of stage for each kind of chain, histories of up to 3 messages of 3 kinds, up to 4 bytes | `Implements` (refinement of `ChainSpec`, its liveness included), `SecretsScrubbed`, `NewestKept`, `OutputWithinLimits`, `ObjectionsStand` |
| `mcp` | lists of up to 4 imports; every field of one import absent, mistyped, malformed or good, two fields at a time | `UniqueBindings`, `RestrictionsKept`, `ValidateCoversFactory`, `RoundTrip` |
| `canonical` | maps over 2 keys, lists of up to 2, nested twice; 2 callers, 2 edits | `OneAnswer`, `EncodingExact`, `CallersReturn` |
| `session` | 2 sessions, one with overlapping calls; 4 calls, 2 in progress at a time, the first 3 of which may overlap | `SessionsIsolated`, `HistoryExact`, `SensitiveAnsweredOnApproval`, `DecidedOnce`, and under overlap too `NothingDoubled` |

Type invariants. Each module states its state's shape as `TypeOK` (`ExpandTypeOK` in
`SkillExpansion`, `MemoTypeOK` in `CanonicalMemo`). They are proved, as parts of the
inductive invariants; like those, they were checked with the configurations above first,
and they are not standing properties of the runs, which are kept for what the code could
get wrong. `KindsSeparate` is proved too, and follows in the run from `Atomic`.

Why the bounds are enough. Three goroutines let two writers race while a reader
waits behind them; a fourth repeats one of the roles (and the theorems remove the
bound for safety). Four refs with lists of two contain a diamond, a self-loop, a
longer cycle, a repeated ref in one list and a path past the limit of two; the
limit itself is a parameter (8 in the code). Two parents, a base and two overlays
give every ordered pair of layers that can override one another, in each role; the
layers between them set, omit, clear and spoil a field of each merge rule.
`MaxOverlayCount` is 16 in the code and 2 here. Three skills cover a third
requirer after an idempotent second one. In `build` every registration
`MCRegistrable` names may happen before, between or never. Three stages are enough
for a stage before, at and behind the one that matters. Two callers exercise every
state of the two nested `sync.Once`; a third only waits with the second. Four calls
contain a turn that pauses or fails, its denial or failed resume, an approval, and a
turn after it. The runs `chains`, `mcp`, `canonical` and `session` do not check for
deadlock: their systems stop when the call, the build or the last caller is done. In
`chains` and `canonical` the properties `Implements` and `CallersReturn` say that they
do not stop earlier; the passes of `mcp` and the calls of `session` are straight-line code
that waits for nobody.

Fairness. `registry`: a goroutine that is inside a method is scheduled (weak
fairness of its steps), and acquiring the lock is strongly fair, because the
`sync.Mutex` that writers of an RWMutex queue on hands the lock to a waiter that has
starved for a millisecond. `extends`: the one goroutine is scheduled; nothing is assumed
of the store's answers or of the caller, and a store call is taken to return.

`chains`: the goroutine that runs the chain is scheduled, and stages return.
`canonical`: each caller is scheduled; waiting for a `sync.Once` needs no more than
that, because nobody waits twice. The other runs check invariants and need none: no
caller is assumed to call again, and no session to be resumed.

Disagreements between the code and what the repository says about it, each with a
run whose counterexample shows it:

| Run | Claim | What the code does |
|---|---|---|
| `build_budget_doc` | overrides end up in the agent (`docs/design/mismatches.md:127`) | the tightened config is computed and dropped |
| `skills_schema_doc` | the consumer supplies the schema of the structured-output skill by declaring `spec.outputContract` (`factories/skillstructuredoutput/factory.go:39`) | a declared contract with a schema differs from the skill's contract without one and the build is refused; `examples/demo/agent-structured.yaml` is such a spec |
| `session_decided_doc` | earlier sensitive turns were decided in their own invocation (`examples/session-pattern/main.go:52`) | a turn whose invocation failed before the policy ran stays in the history and is sent with the next turn |

Smaller ones, met while modelling, that the models show and no run is kept for:

- `spec/normalize.go:26`: the chain of a cycle error ends with a ref "also present
  earlier in the slice". Visited refs are remembered for the whole walk, so a diamond
  is reported as a cycle too, and its chain has the ref once.
- `spec/provenance.go:29`: step 1 is a direct parent. With two direct parents the
  first is step 2 (`ParentStep` counts from the end of the flattened chain).
- `spec/normalize.go:127`: the comment on `mergeChain` numbers the parents from the
  root, "1 = deepest parent merged first; len(parents) = direct parent of base". The
  loop at 158-161, the comment right above it and `provenance.go:29` number them from the
  leaf. `ParentStep` and `ProvenanceExact` follow the loop: step 1 is the parent merged
  last.
- `spec/locked.go:27`: the identity of base and merged spec never differ. A base
  without an id inherits its parent's, and an overlay repeating that id is refused.
- `build/expand.go:83`: all skills are validated before any injection. Each skill's
  requirements are merged before the next skill is looked up.
- `build/build.go:172`: hashing a validated spec cannot fail. A config that JSON cannot
  encode passes `Validate`, and the manifest's hash stays empty (`hashed` in
  `BuildManifest`).
- The Phase 3 design, line 230: an unregistered required component has its own error
  code. It is declared and never emitted.
- `build/policy_chain.go:16`: `VerdictLog` "records and continues". The decision is
  dropped: a chain that ends returns a bare allow.
- `build/budget.go:20`: zero-valued overrides mean unset. A wall clock of `"0s"` is
  parsed and applied.
- `build/budget.go:19` and `docs/design/agent-spec-v0.md:208`: an override that loosens a
  ceiling fails. The same code takes only a positive number for a ceiling (`def > 0`), so a
  wall clock of `"0s"` and any negative override lift the ceiling of the profile and are
  accepted. Nothing comes of it, because the resulting config is dropped (the run
  `build_budget_doc`); for that reason no property about the ceilings is claimed.
- `spec/load_overlay.go:12`: unknown fields are rejected "at every depth". The
  `UnmarshalYAML` methods check their own keys, but the nodes they decode further
  (a provider, a budget) go through a decoder without that check.
- `spec/validate_mcp.go:13`: the factory re-validates "as defense in depth". It also
  checks what validation does not (types of list elements, ids, trust), which is what
  `ValidateCoversFactory` lists.

## 4. Theorems

Checked by TLAPS for every value of the constants, under the named assumptions of the
modules, which TLC evaluates in the runs.

| Assumption | Says |
|---|---|
| `RegistryAssumption` | factories have a kind and an id; `None` is neither a factory nor a goroutine |
| `ExtendsAssumption` | extends lists are sequences of refs, the limit is a natural number |
| `NormalizeAssumption`, `LayerAssumption` | the fields are those of `AgentSpec`; layers are well formed; markers for absence are no values |
| `OverlayAssumption`, `DocumentAssumption` | an overlay that comes from a document is what `LoadOverlay` makes of it |
| `SkillAssumption`, `BuildAssumption` | specs, contributions, bindings and registries are made of refs and ids; a marker is none of them |
| `MCPAssumption`, `MarkerAssumption` | the markers for an absent and a mistyped field are none of the values a binding is written back with |
| `RequestAssumption` | a chain is a sequence of stages that the factories return for some config, or of others' stages that keep to the interface of their kind |
| `SessionAssumption`, `NilAssumption` | the bounds are numbers, exclusive sessions are sessions; `Nil` is no session, no object and no slice of messages |
| `CanonicalAssumption` | an edit leaves one of the specs behind, the bound on edits is a number |

`RegistryProofs`: `TypeCorrect`, `OutcomesHold`, `KindsStaySeparate`, `FreezeIsFinal`,
`RegisteredOnce`, `Refinement`. All rest on `Invariance`, that `IndInv` is inductive.
None of the properties is inductive alone: that an entry is not overwritten depends
on the test made two steps earlier still being true (`CheckInv`), which depends on no
other goroutine being in a write section (`LockInv`: program counters determine who
holds the lock), and on knowing which call each goroutine is in (`CallInv`). In the
refinement the linearization point of a registration is `Check` when it refuses and
`Insert` when it accepts, of a lookup `Read`, of a freeze `Freeze`; every other step
is a stutter.

`ExtendsChainProofs`: `TypeCorrect`, `ChainRootFirst`, `ChainIsComplete`,
`ErrorChainsArePaths`, `EachRefLoadedOnce`, `DepthIsRespected`. The invariant relates
the frames to the sets: the path is a chain of loaded specs, each frame standing at the
ref of the next one, and everything a frame has passed is in the chain (`FrameInv`);
loaded specs are exactly those in the chain or on the path, the two are disjoint, and
together they are the visited set (`SetInv`). `EachRefLoadedOnce` is why an edited store
cannot show two versions of one ref. `DepthRespected` speaks of paths, which no frame
describes once it is gone. `DepthInv` says instead that there is a depth for every ref,
one more than that of the ref that declares it, which the walk never lets past the
limit; a path that climbs by one from ref to ref is then no longer than the limit.

`NormalizeProofs`: `NormalizeInvariant`, `LastSetterWins`, `ProvenanceIsExact`,
`IdentityIsKept`, `DocumentsAreDecisive`. `NormalizeInv` says of the fold that after
each layer the merged spec has, field by field, what the last layer that sets the field
gave it, and that provenance names that layer (`ParentsFolded`, `LayersFolded`); the
properties follow when the fold is over. The three merge rules are lemmas of their own.

Of `CanonicalMemo`, also there: `MemoInvariant` and `AnswersAgree` (property `OneAnswer`),
for any set of specs, any function from specs to bytes, any callers and any number of
edits. `MemoInv` says that a once runs exactly while one caller is inside it, that a hash
is kept only when the bytes are and is the hash of them, and that whoever returned has
what is kept. The edits are harmless because the second memo reads the first, never the
spec.

`BuildProofs`: `ExpansionInvariant`, `AttributionIsExact`, `RequirementsAreMet`, and of
the whole pipeline `BuildInvariant`, `TypeCorrect`, `NotFoundStays`,
`RequirementsAreBuilt`, `CapabilitiesAgree`, `InjectionsTraceable`, `ToolsAreRouted`. In
the expansion a requirement is met or still queued (`MetOrQueued`), what is queued is
required by a resolved skill (`QueuedAreRequired`), and skills are resolved in the
order of the spec. `BuildInv` adds that the registry is frozen once that stage is
over (`FrozenByThen`), which is why what was not found stays unfound although other
goroutines keep registering, and that each finished stage did all of its work
(`BuiltInOrder`, `AllBuilt`, `BindingsResolved`, `RouterExact`). The router is about the
definitions of all packs in one sequence, flattened from theirs; that each of these comes
from a pack and each of a pack's is there is `FlattenedMembers` of `DataLemmas`.

`MCPImportsProofs`: `MCPInvariant`, `BindingsUnique`, `RestrictionsAreKept`,
`FactoryIsCovered`, `BindingsRoundTrip`. `MCPInv` says that the errors so far are those of
the imports so far and that the bindings so far are those of their configs; the rest is
about the two decoders, case by case.

`ChainsProofs`: `ChainInvariant`, `TypeCorrect`, `SecretsAreScrubbed`, `NewestAreKept`,
`OutputsWithinLimits`, `ObjectionsAreKept` and the refinement `AnswersImplement`, for
chains of any length and payloads of any size. `ChainInv` says that the promises hold
behind every stage (`SecretsSoFar`, `NewestSoFar`, `LimitsSoFar`) and that payload and
decisions are what `ChainSpec` says reaches the next stage (`LoopInv`). Each stage has a
lemma of its own: that the scrubber leaves roles, order and number of messages alone
(`Scrubbed`), that the window keeps a suffix of the turns (`Windowed`), and that no
config the factories accept makes a limit or a window of nothing (`FactoriesAnswer`).
`AnswersImplement` is the safety half of `Implements`: the step that returns is the
answer of `ChainSpec`, any other step a stutter.

`SessionProofs` has five groups. `IsolationInvariant`, `TypeCorrect`,
`SessionsAreIsolated`: for any number of sessions and of overlapping calls. `IsolationInv` gives every slice of
messages an owner: those in objects and snapshots belong to the session of the object,
those in requests and in headers read by an append to the session of the call. The
step to argue about is an append on a stale header, which writes into slices of other
calls: such a slice starts with the slice that is appended to, which is not empty, so it
has a message in common with it and hence its owner (`OverwrittenOwned`).

`OnceInvariant` and `NothingIsDoubled`, again for overlapping calls: `OnceInv` says that a
message is in no slice, stale headers included, before its call has written it (`Said`), so
that an append never writes a message that some slice it reaches already has; no call
returns to a point before its own append.

The others are about an exclusive session, one whose calls do not overlap, among any
number of sessions whose calls may. What a step of another session does to it is the same
in every case: nothing (`Untouched`, from isolation). `HistoryInvariant` and
`HistoryIsExact`: while a call is in progress the history at rest says nothing, because the
call works on an object that is not stored yet, or on the stored one in place. `HistoryInv`
therefore says for each program point of the one call in progress what its object has
(`InProgress`: `Entering`, `InTurn`, `InApproval`, `InDenial`), and that a call that
returned has left exactly its contribution. What all calls contributed is a flattened
sequence, and one more call appends to it (`FlattenedNext` of `DataLemmas`).
`ApprovalInvariant` and `AnsweredOnApproval`: the property holds of an object before it is
stored, and the answer of an approval comes after the input that paused. `DecisionInvariant`
and `PausesDecidedOnce`: a pause that no sent turn has followed yet has no decision while the
session waits for one and exactly one afterwards; `DecisionInv` adds this to the property,
which only speaks of pauses that a turn did follow.

Induction over data. The induction theorems of the library cannot be used by the
installed provers. `DataLemmas` derives what the proofs need from the well-foundedness
of the natural numbers, as facts about sets: `SetInduction`, `SequenceInduction`, and
`Iteration`, that a step that stays in a set can be iterated. Recursion is written as
recursive functions, which these lemmas reach.

Only model-checked: liveness (`CallsReturn`, `Terminates`, `CallersReturn`, and the
fairness half of `Implements`), because the prover does not
handle fairness; and `EncodingExact` of `Canonical`, whose encoder is a recursive operator
over trees: what it computes for every tree is an induction over data that the prover does
not reach.

## 5. Not modelled

- YAML parsing and file access (`load.go`, `store.go`): external or pure I/O; a load is
  any answer or an error.
- The provider, tool pack, telemetry, signer, credential, prompt, budget and
  JSON-schema factories: a config in, a value or an error out, no state between calls.
  What they build enters `Build` as any value of a set, or an error.
- The demo program, and the `main` of the examples apart from the policy, the filter and
  the factories named above.
- In `Build`: `ExpandedHash` (the function of `Canonical` on a fresh object), the copies
  of the extends chain and of the overlay attribution in the manifest, and three of
  the five budget ceilings, which follow the rule of the one that is there.
- In `Normalize`: error wording, source lines in provenance, and the other metadata
  scalars and `owners`, which are merged like `id` and `labels`.
- In `MCPImports`: name and summary of the descriptor. In `Session`: timestamps, and
  errors of the store, which the in-memory one never returns.

## 6. Plan

1. `Registry` and `ExtendsChain`, with proofs; `Normalize`; `SkillExpansion`;
   `Build`. Done.
2. `Overlay`, `Canonical`, `MCPImports`, `ChainSpec` and `Chains`, `Session`. Done.
3. Proofs of the safety properties of `ExtendsChain`, `Normalize`, `Overlay`,
   `SkillExpansion`, `Build`, `MCPImports`, `Chains` (with the refinement) and of
   isolation in `Session`. Done.
4. Proofs of `HistoryExact`, `SensitiveAnsweredOnApproval`, `DecidedOnce` and
   `NothingDoubled` of `Session`, and of `OneAnswer` for any encoder, in `CanonicalMemo`. Done: every
   invariant and safety action property of the passing runs but `EncodingExact` is proved.
