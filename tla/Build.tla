------------------------------- MODULE Build --------------------------------
(***************************************************************************)
(* forge.Build: normalize the spec, freeze the registry, expand the skills *)
(* (module SkillExpansion), resolve every component in a fixed order,      *)
(* resolve the MCP bindings, compose the kernel options and assemble the   *)
(* agent with its manifest.  One build is followed step by step while      *)
(* other goroutines register components and run builds of their own on the *)
(* same registry.                                                          *)
(*                                                                         *)
(* The registry's methods are atomic and an entry is never replaced        *)
(* (theorems Refinement and RegisteredOnce of RegistryProofs), so a        *)
(* registered <<kind, id>> pair stands for its one factory.  What a        *)
(* factory builds is any value of a given set, or an error.                *)
(***************************************************************************)
EXTENDS SkillExpansion

CONSTANTS
    Registrable,     \* what other goroutines may still register
    ToolNames,       \* the names a tool pack may define
    Reserved,        \* those of them that start with "mcp."
    ToolPacks,       \* the definition lists a tool pack factory may build
    BudgetDefaults,  \* the default ceilings a budget profile may build
    Malformed,       \* a duration that time.ParseDuration rejects
    Bindings         \* the [policies, credential] an MCP factory may build

VARIABLES
    frozen,   \* r.frozen
    built,    \* built[k]: the [ref, value] records of kind k, in order
    router,   \* toolRouter.byName: a tool name to the index of its pack
    agent     \* the *BuiltAgent, or None

vars == <<registered, spec, pc, resolved, queue, lists, contract, injectedBy,
          outcome, frozen, built, router, agent>>

\* The kinds resolve() handles, in its order.
ResolveOrder ==
    <<"provider", "prompt_asset", "tool_pack", "policy_pack", "pre_llm_filter",
      "pre_tool_filter", "post_tool_filter", "budget_profile",
      "telemetry_profile", "credential_resolver", "identity_signer">>

Singular    == {"budget_profile", "telemetry_profile", "credential_resolver",
                "identity_signer"}
BuiltKinds  == ToSet(ResolveOrder) \cup {"mcp_binding"}
AllKinds    == BuiltKinds \cup {"skill", "output_contract"}

\* Mutated form: the normalized spec is resolved, not the expanded one.
WantedUnexpanded(k) == spec[k]

\* The refs of kind k that the build resolves: expanded.Spec.
Wanted(k) == IF k \in ListKinds THEN lists[k] ELSE spec[k]

\* The values a factory of kind k may build.
Buildable(k) == CASE k = "tool_pack"      -> ToolPacks
                  [] k = "budget_profile" -> BudgetDefaults
                  [] k = "mcp_binding"    -> Bindings
                  [] OTHER                -> {None}

Pending(k) == Len(built[k]) < Len(Wanted(k))

ASSUME BuildAssumption ==
    /\ Reserved \subseteq ToolNames
    /\ ToolPacks \subseteq Seq(ToolNames)
    /\ BudgetDefaults \subseteq [wall : Nat, tokens : Nat]
    /\ Bindings \subseteq [policies : Seq(IDs), credential : IDs \cup {None}]
    /\ \A r \in Registries \cup {Registrable} : r \subseteq AllKinds \X IDs
    /\ \A s \in Compositions :
         /\ \A k \in AllKinds \ {"output_contract"} : s[k] \in Seq(Refs)
         /\ Len(s.provider) = 1 /\ Len(s.prompt_asset) = 1
         /\ \A k \in Singular : Len(s[k]) <= 1
         /\ s.overrides.wall \in Int \cup {None, Malformed}
         /\ s.overrides.tokens \in Int

Init ==
    /\ registered \in Registries
    /\ spec \in Compositions
    /\ pc = "normalize"
    /\ outcome = Outcome("running", None)
    /\ ExpandInit
    /\ frozen = FALSE
    /\ built = [k \in BuiltKinds |-> <<>>]
    /\ router = [t \in ToolNames |-> 0]
    /\ agent = None

-----------------------------------------------------------------------------
(* Other goroutines: registrations until the registry is frozen, builds. *)

Register(k, id) ==
    /\ ~frozen
    /\ registered' = registered \cup {<<k, id>>}
    /\ UNCHANGED <<spec, pc, expandVars, outcome, frozen, built, router, agent>>

OtherBuildFreezes ==
    /\ ~frozen
    /\ frozen' = TRUE
    /\ UNCHANGED <<registered, spec, pc, expandVars, outcome, built, router, agent>>

-----------------------------------------------------------------------------
(* The build. *)

buildVars == <<frozen, built, router, agent>>

BuildFails(status, what) ==
    /\ Fail(status, what)
    /\ UNCHANGED <<registered, spec, expandVars, buildVars>>

Goto(stage) ==
    /\ pc' = stage
    /\ UNCHANGED <<registered, spec, expandVars, outcome>>

\* spec.Normalize (modules ExtendsChain and Normalize); a build that fails
\* here has not frozen the registry.
Normalize ==
    /\ pc = "normalize"
    /\ \/ BuildFails("normalize", None)
       \/ Goto("freeze") /\ UNCHANGED buildVars

\* Mutated form: the build leaves the registry open.
NoFreeze ==
    /\ pc = "freeze"
    /\ Goto("skills")
    /\ UNCHANGED buildVars

Freeze ==
    /\ pc = "freeze"
    /\ frozen' = TRUE
    /\ Goto("skills")
    /\ UNCHANGED <<built, router, agent>>

ExpandSkills == ExpandStep /\ UNCHANGED buildVars

Built(k, ref, v) ==
    built' = [built EXCEPT ![k] = Append(@, [ref |-> ref, value |-> v])]

\* resolve(): the first component still pending is looked up and built.
Resolve ==
    /\ pc = "resolve"
    /\ \E i \in DOMAIN ResolveOrder :
         LET k   == ResolveOrder[i]
             ref == Wanted(k)[Len(built[k]) + 1]
         IN
         /\ Pending(k)
         /\ \A h \in 1 .. i - 1 : ~Pending(ResolveOrder[h])
         /\ \/ /\ <<k, ID(ref)>> \notin registered
               /\ BuildFails("ErrNotFound", <<k, ID(ref)>>)
            \/ /\ <<k, ID(ref)>> \in registered
               /\ BuildFails("build", <<k, ID(ref)>>)
            \/ /\ <<k, ID(ref)>> \in registered
               /\ \E v \in Buildable(k) : Built(k, ref, v)
               /\ UNCHANGED <<registered, spec, pc, expandVars, outcome, frozen,
                              router, agent>>

Resolved ==
    /\ pc = "resolve"
    /\ \A k \in ToSet(ResolveOrder) : ~Pending(k)
    /\ Goto("mcp")
    /\ UNCHANGED buildVars

\* The registry entries a binding names, in the order they are looked up.
References(b) ==
    [j \in DOMAIN b.policies |-> <<"policy_pack", b.policies[j]>>]
      \o IF b.credential = None THEN <<>>
         ELSE <<<<"credential_resolver", b.credential>>>>

Missing(b) == {j \in DOMAIN References(b) : References(b)[j] \notin registered}

\* resolveMCPBindings, one import.
ResolveMCPBinding ==
    /\ pc = "mcp"
    /\ Pending("mcp_binding")
    /\ LET ref == spec.mcp_binding[Len(built["mcp_binding"]) + 1]
           key == <<"mcp_binding", ID(ref)>>
       IN
       \/ /\ key \notin registered
          /\ BuildFails("ErrNotFound", key)
       \/ /\ key \in registered
          /\ BuildFails("build", key)
       \/ \E b \in Bindings :
          /\ key \in registered
          /\ Missing(b) # {}
          /\ BuildFails("ErrNotFound", References(b)[Min(Missing(b))])
       \/ \E b \in Bindings :
          /\ key \in registered
          /\ Missing(b) = {}
          /\ Built("mcp_binding", ref, b)
          /\ UNCHANGED <<registered, spec, pc, expandVars, outcome, frozen,
                         router, agent>>

MCPResolved ==
    /\ pc = "mcp"
    /\ ~Pending("mcp_binding")
    /\ Goto("tools")
    /\ UNCHANGED buildVars

-----------------------------------------------------------------------------
(* Composing the kernel options. *)

\* The definitions of all packs, in order, each with the index of its pack.
Definitions ==
    FlattenSeq([p \in DOMAIN built["tool_pack"] |->
                   LET names == built["tool_pack"][p].value
                   IN  [j \in DOMAIN names |-> [name |-> names[j], pack |-> p]]])

\* Mutated form: no test for a taken name.
RejectedPrefix ==
    {i \in DOMAIN Definitions : Definitions[i].name \in Reserved}

\* The definitions newToolRouter stops at: a reserved or a taken name.
Rejected ==
    {i \in DOMAIN Definitions :
        \/ Definitions[i].name \in Reserved
        \/ \E h \in 1 .. i - 1 : Definitions[h].name = Definitions[i].name}

NewToolRouter ==
    /\ pc = "tools"
    /\ \/ /\ Rejected # {}
          /\ BuildFails(IF Definitions[Min(Rejected)].name \in Reserved
                        THEN "ErrToolNameReservedPrefix" ELSE "ErrToolNameCollision",
                        None)
       \/ /\ Rejected = {}
          /\ router' = [t \in ToolNames |->
                          IF \E i \in DOMAIN Definitions : Definitions[i].name = t
                          THEN Definitions[Max({i \in DOMAIN Definitions :
                                                   Definitions[i].name = t})].pack
                          ELSE 0]
          /\ Goto("budget")
          /\ UNCHANGED <<frozen, built, agent>>

\* An override above a ceiling that the profile sets.
Loosens(def, override) == def > 0 /\ override > def

\* applyBudgetOverrides: an override of 0 tokens means unset, one of "0s"
\* is applied.
Tightened(def, ov) ==
    [wall   |-> IF ov.wall = None THEN def.wall ELSE ov.wall,
     tokens |-> IF ov.tokens = 0 THEN def.tokens ELSE ov.tokens]

\* The tightened config is computed for its errors only: the guard that goes
\* into the options is the one the profile built.
ApplyBudget ==
    /\ pc = "budget"
    /\ \/ /\ built["budget_profile"] # <<>>
          /\ spec.overrides.wall = Malformed
          /\ BuildFails("maxWallClock", None)
       \/ /\ built["budget_profile"] # <<>>
          /\ spec.overrides.wall # Malformed
          /\ LET def == built["budget_profile"][1].value
                 ov  == spec.overrides
             IN  \/ ov.wall # None /\ Loosens(def.wall, ov.wall)
                 \/ ov.tokens # 0 /\ Loosens(def.tokens, ov.tokens)
          /\ BuildFails("ErrBudgetLoosening", None)
       \/ /\ built["budget_profile"] # <<>> =>
               LET def == built["budget_profile"][1].value
                   ov  == spec.overrides
               IN  /\ ov.wall # Malformed
                   /\ ov.wall # None => ~Loosens(def.wall, ov.wall)
                   /\ ov.tokens # 0 => ~Loosens(def.tokens, ov.tokens)
          /\ Goto("new")
          /\ UNCHANGED buildVars

-----------------------------------------------------------------------------
(* The agent and its manifest. *)

\* appendSkillFragments, after the text of the prompt asset.
Fragments ==
    FoldLeft(LAMBDA acc, rs : IF rs.value.fragment \in {None} \cup ToSet(acc) THEN acc
                              ELSE Append(acc, rs.value.fragment),
             <<>>, resolved)

\* Mutated form: the label under which expansion files policy packs is wrong.
LookupInjectorLabel(k, ref) ==
    IF k \in InjectKinds THEN injectedBy[<<"tool_pack", ID(ref)>>] ELSE None

LookupInjector(k, ref) ==
    IF k \in InjectKinds THEN injectedBy[<<k, ID(ref)>>] ELSE None

\* One Resolved entry.  Prompt assets, budgets and credentials have no config.
Entry(k, ref) ==
    [id     |-> ID(ref),
     config |-> IF k \in {"prompt_asset", "budget_profile", "credential_resolver"}
                THEN None ELSE ref.config,
     by     |-> LookupInjector(k, ref)]

\* manifest.Resolved, grouped by kind.  A factory is taken to answer a value or an
\* error.  One that answers neither, (nil, nil), would be skipped here for
\* credentials and identity and still be Present below.
ManifestEntries ==
    [k \in AllKinds |->
        LET refs == CASE k = "skill" -> [i \in DOMAIN resolved |-> resolved[i].ref]
                      [] k = "output_contract" ->
                             IF contract = None THEN <<>> ELSE <<contract>>
                      [] OTHER -> [i \in DOMAIN built[k] |-> built[k][i].ref]
        IN  [i \in DOMAIN refs |-> Entry(k, refs[i])]]

\* Mutated form: the contract is looked for in the spec before expansion.
PresentInSpec ==
    {"provider", "prompt_asset"}
    \cup {k \in AllKinds \ {"output_contract"} :
             IF k \in Singular \cup {"skill", "mcp_binding"}
             THEN spec[k] # <<>> ELSE built[k] # <<>>}
    \cup {k \in {"output_contract"} : spec.output_contract # None}

\* computeCapabilities: the single kinds, skills and imports are read off the
\* normalized spec, the contract off the expanded one, the lists off what
\* was resolved.
Present ==
    {"provider", "prompt_asset"}
    \cup {k \in AllKinds \ {"output_contract"} :
             IF k \in Singular \cup {"skill", "mcp_binding"}
             THEN spec[k] # <<>> ELSE built[k] # <<>>}
    \cup {k \in {"output_contract"} : contract # None}

Skipped == (Singular \cup {"skill", "output_contract", "mcp_binding"}) \ Present

\* Configs of the normalized spec, which NormalizedHash encodes.
SpecConfigs ==
    UNION {{spec[k][i].config : i \in DOMAIN spec[k]} : k \in AllKinds \ {"output_contract"}}
    \cup IF spec.output_contract = None THEN {} ELSE {spec.output_contract.config}

\* buildManifest
BuildManifest ==
    [entries |-> ManifestEntries,
     present |-> Present,
     skipped |-> Skipped,
     hashed  |-> \A c \in SpecConfigs : Canon[c] # Unencodable]

\* orchestrator.New checks its options; then the agent is assembled.
NewOrchestrator ==
    /\ pc = "new"
    /\ \/ BuildFails("orchestrator.New", None)
       \/ /\ agent' = [manifest  |-> BuildManifest,
                       fragments |-> Fragments,
                       budget    |-> IF built["budget_profile"] = <<>> THEN None
                                     ELSE built["budget_profile"][1].value]
          /\ pc' = "done"
          /\ outcome' = Outcome("ok", None)
          /\ UNCHANGED <<registered, spec, expandVars, frozen, built, router>>

Step ==
    \/ Normalize
    \/ Freeze
    \/ ExpandSkills
    \/ Resolve
    \/ Resolved
    \/ ResolveMCPBinding
    \/ MCPResolved
    \/ NewToolRouter
    \/ ApplyBudget
    \/ NewOrchestrator

Returned == pc = "done" /\ UNCHANGED vars

Next ==
    \/ Step
    \/ \E e \in Registrable : Register(e[1], e[2])
    \/ OtherBuildFreezes
    \/ Returned

Spec == Init /\ [][Next]_vars

-----------------------------------------------------------------------------
(* Properties. *)

Stages == {"normalize", "freeze", "skills", "resolve", "mcp", "tools", "budget",
           "new", "done"}

TypeOK ==
    /\ ExpandTypeOK
    /\ registered \subseteq AllKinds \X IDs
    /\ pc \in Stages
    /\ outcome.status = "running" <=> pc # "done"
    /\ frozen \in BOOLEAN
    /\ DOMAIN built = BuiltKinds
    /\ \A k \in BuiltKinds : built[k] \in Seq([ref : Refs, value : Buildable(k)])
    /\ router \in [ToolNames -> 0 .. Len(built["tool_pack"])]
    /\ IF outcome.status = "ok" THEN DOMAIN agent = {"manifest", "fragments", "budget"}
       ELSE agent = None

\* A build that was told a component is not registered was told something
\* that stays true: no registration that was racing the build adds it later,
\* so the same build fails the same way again.
NotFoundIsFinal ==
    outcome.status = "ErrNotFound" => outcome.what \notin registered

\* Whatever a part of the agent relies on is there: what a skill requires has
\* been built, though resolve only sees a spec (the expanded composition is the
\* one resolved), and the policies and the credential an MCP binding names,
\* which no part of the spec need mention, are registered.
RequirementsBuilt ==
    agent # None =>
        /\ \A i \in DOMAIN resolved, k \in ListKinds : \A req \in Requires(i, k) :
              \E j \in DOMAIN built[k] : /\ ID(built[k][j].ref) = ID(req)
                                         /\ SameMeaning(built[k][j].ref.config, req.config)
        /\ \A i \in DOMAIN built["mcp_binding"] :
              LET b == built["mcp_binding"][i].value IN
              /\ \A id \in ToSet(b.policies) : <<"policy_pack", id>> \in registered
              /\ b.credential # None => <<"credential_resolver", b.credential>> \in registered

\* The capability summary, computed from the normalized spec, the expanded
\* spec and the resolved components, agrees with the component list.
CapabilitiesMatch ==
    agent # None =>
        \A k \in AllKinds : /\ k \in agent.manifest.present <=> agent.manifest.entries[k] # <<>>
                            /\ k \in agent.manifest.skipped => agent.manifest.entries[k] = <<>>

\* Every component of the manifest is registered, and one the author did not
\* declare names the skill that brought it in, which the manifest lists too.
InjectionTraceable ==
    agent # None =>
        \A k \in AllKinds : \A i \in DOMAIN agent.manifest.entries[k] :
            LET e == agent.manifest.entries[k][i] IN
            /\ <<k, e.id>> \in registered
            /\ k \in InjectKinds => (e.by = None <=> i <= Len(Declared(k)))
            /\ e.by # None =>
                 \E j \in DOMAIN agent.manifest.entries["skill"] :
                     agent.manifest.entries["skill"][j].id = e.by

\* A tool call goes to the pack that defines the tool, whether the author or a
\* skill brought the pack in, and the names reserved for MCP go nowhere: no pack
\* takes over a tool of another (newToolRouter).
ToolsRouted ==
    agent # None =>
        /\ \A p \in DOMAIN built["tool_pack"], t \in ToolNames :
              router[t] = p <=> t \in ToSet(built["tool_pack"][p].value)
        /\ \A t \in Reserved : router[t] = 0

\* mismatches.md: the build layer "applies overlay/spec overrides at build
\* time to the default config, then either (a) stashes the resulting config
\* inside BuiltAgent [...] or (b) exposes the config".  (A ceiling that is not
\* positive is none.)
OverridesEnforced ==
    agent # None /\ built["budget_profile"] # <<>> =>
        LET cfg == Tightened(built["budget_profile"][1].value, spec.overrides)
        IN  \A x \in {"wall", "tokens"} : cfg[x] > 0 => agent.budget[x] = cfg[x]

-----------------------------------------------------------------------------
(* What makes the properties inductive. *)

\* From the freeze on the registry stays frozen.
FrozenByThen ==
    frozen \/ pc \in {"normalize", "freeze"} \/ outcome.status = "normalize"

\* The built components of a kind are the first ones wanted, all of them
\* registered; none is built before the expansion has ended.
BuiltInOrder ==
    /\ \A k \in BuiltKinds :
         /\ Len(built[k]) <= Len(Wanted(k))
         /\ \A i \in DOMAIN built[k] : /\ built[k][i].ref = Wanted(k)[i]
                                       /\ <<k, ID(built[k][i].ref)>> \in registered
    /\ pc \in {"normalize", "freeze", "skills"} => \A k \in BuiltKinds : built[k] = <<>>

\* A stage is left when nothing of it is pending.
AllBuilt ==
    /\ pc \in {"mcp", "tools", "budget", "new"} \/ outcome.status = "ok" =>
         \A k \in ToSet(ResolveOrder) : ~Pending(k)
    /\ pc \in {"tools", "budget", "new"} \/ outcome.status = "ok" => ~Pending("mcp_binding")

\* What a built binding names is registered.
BindingsResolved ==
    \A i \in DOMAIN built["mcp_binding"] : Missing(built["mcp_binding"][i].value) = {}

\* The router has the tools of the packs.
RouterExact ==
    pc \in {"budget", "new"} \/ outcome.status = "ok" =>
        \A t \in ToolNames :
            /\ \A p \in DOMAIN built["tool_pack"] :
                  router[t] = p <=> t \in ToSet(built["tool_pack"][p].value)
            /\ t \in Reserved => router[t] = 0

BuildInv ==
    /\ ExpandInv
    /\ TypeOK
    /\ FrozenByThen
    /\ NotFoundIsFinal
    /\ BuiltInOrder
    /\ AllBuilt
    /\ BindingsResolved
    /\ RouterExact
    /\ CapabilitiesMatch
    /\ InjectionTraceable
=============================================================================
