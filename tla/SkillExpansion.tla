--------------------------- MODULE SkillExpansion ---------------------------
(***************************************************************************)
(* The skill stage of build.Build: expandSkills resolves the declared      *)
(* skills one by one and merges what each requires (tool packs, policy     *)
(* packs, one output contract) into the effective composition, then        *)
(* resolveOutputContract resolves the contract that results.  One step per *)
(* resolved skill and one per merged requirement.                          *)
(*                                                                         *)
(* A ref or a requirement is a record [name, version, config]; a           *)
(* requirement whose id is empty or does not parse has name NoName.  Refs  *)
(* of the spec always parse: Validate checked them.  What a skill factory  *)
(* builds is any contribution of the given set, or an error.               *)
(***************************************************************************)
EXTENDS Integers, Sequences, SequencesExt

CONSTANTS
    Names, Versions,  \* the two parts of a component id
    NoName,           \* the name of an id that ParseID rejects
    Configs,          \* config maps
    NoConfig,         \* the nil map, which is also what an empty one encodes to
    Canon,            \* their canonical form, or Unencodable
    Unencodable,      \* what canonicalizeConfig reports an error for
    Contributions,    \* the Skill values a factory may build
    Compositions,     \* the normalized specs a build may start from
    Registries,       \* what may be registered when a build starts
    None              \* nil

Refs         == [name : Names, version : Versions, config : Configs]
Requirements == [name : Names \cup {NoName}, version : Versions, config : Configs]
IDs          == Names \X Versions

ASSUME SkillAssumption ==
    /\ NoName \notin Names /\ None \notin Refs /\ None \notin IDs
    /\ NoConfig \in Configs
    /\ Canon \in [Configs -> Configs \cup {Unencodable}]
    /\ \A c \in Contributions :
         /\ c.tools \in Seq(Requirements) /\ c.policies \in Seq(Requirements)
         /\ c.contract \in Requirements \cup {None}
         /\ "fragment" \in DOMAIN c
    /\ \A s \in Compositions :
         /\ s.tool_pack \in Seq(Refs) /\ s.policy_pack \in Seq(Refs)
         /\ s.skill \in Seq(Refs)
         /\ s.output_contract \in Refs \cup {None}

VARIABLES
    registered,  \* the <<kind, id>> pairs in the component registry
    spec,        \* ns.Spec
    pc,          \* the stage of the build
    resolved,    \* out.Skills: [ref, value] records
    queue,       \* requirements of the last resolved skill still to merge
    lists,       \* out.Spec.Tools and out.Spec.Policies
    contract,    \* out.Spec.OutputContract, or None
    injectedBy,  \* out.InjectedBy: <<kind, id>> to a skill id, or None
    outcome      \* "running", "ok" or the error, and the component it names

expandVars == <<resolved, queue, lists, contract, injectedBy>>
skillVars  == <<registered, spec, pc, resolved, queue, lists, contract, injectedBy,
                outcome>>

ListKinds   == {"tool_pack", "policy_pack"}
InjectKinds == ListKinds \cup {"output_contract"}

ID(r) == <<r.name, r.version>>

ExpandInit ==
    /\ resolved = <<>>
    /\ queue = <<>>
    /\ lists = [k \in ListKinds |-> spec[k]]
    /\ contract = spec.output_contract
    /\ injectedBy = [e \in InjectKinds \X IDs |-> None]

\* The kind of error a build returns, and the component it is about.
Outcome(status, what) == [status |-> status, what |-> what]

Fail(status, what) ==
    /\ pc' = "done"
    /\ outcome' = Outcome(status, what)

ExpandFails(status, what) ==
    /\ Fail(status, what)
    /\ UNCHANGED <<registered, spec, expandVars>>

Continue == UNCHANGED <<registered, spec, pc, outcome>>

-----------------------------------------------------------------------------
(* Comparing a requirement with what the composition already has. *)

\* Mutated form: the same id is taken for the same component.
SameUnchecked(a, b) == TRUE

SameConfig(a, b) == Canon[a] = Canon[b]

\* CanonicalConfigsEqual returns an error.
NotComparable(a, b) == Unencodable \in {Canon[a], Canon[b]}

\* The first entry of the list with the name of the requirement decides.
Existing(k, req) == {i \in DOMAIN lists[k] : lists[k][i].name = req.name}
First(k, req)    == lists[k][Min(Existing(k, req))]

\* An id that is empty or that ParseID rejects.
BadID(req) == req.name = NoName

IsEmptyContribution(c) ==
    /\ c.fragment = None
    /\ c.tools = <<>>
    /\ c.policies = <<>>
    /\ c.contract = None

\* What the bundled structured-output skill builds, whatever its config: a
\* prompt fragment, a configured policy pack and a contract without a config.
StructuredOutput(fragment, policy, policyConfig, contractID) ==
    [fragment |-> fragment,
     tools    |-> <<>>,
     policies |-> <<[name |-> policy[1], version |-> policy[2], config |-> policyConfig]>>,
     contract |-> [name |-> contractID[1], version |-> contractID[2], config |-> NoConfig]]

\* The order in which the requirements of one skill are merged.
RequiredBy(c) ==
    LET Of(k, reqs) == [i \in DOMAIN reqs |-> [kind |-> k, req |-> reqs[i]]]
    IN  Of("tool_pack", c.tools) \o Of("policy_pack", c.policies)
          \o IF c.contract = None THEN <<>> ELSE Of("output_contract", <<c.contract>>)

-----------------------------------------------------------------------------
(* The loop over spec.skills. *)

\* Mutated form: a requirement that is there already is attributed to the
\* skill that required it last.
KeepReattributed(k, req) ==
    /\ injectedBy' = [injectedBy EXCEPT ![<<k, ID(req)>>] = ID(resolved[Len(resolved)].ref)]
    /\ queue' = Tail(queue)
    /\ Continue
    /\ UNCHANGED <<resolved, lists, contract>>

\* The requirement is there already: nothing changes, attribution included.
Keep(k, req) ==
    /\ queue' = Tail(queue)
    /\ Continue
    /\ UNCHANGED <<resolved, lists, contract, injectedBy>>

\* The requirement is new: appended and attributed.
Inject(k, req, skill) ==
    /\ lists' = [lists EXCEPT ![k] = Append(@, req)]
    /\ injectedBy' = [injectedBy EXCEPT ![<<k, ID(req)>>] = ID(skill)]
    /\ queue' = Tail(queue)
    /\ Continue
    /\ UNCHANGED <<resolved, contract>>

\* Look up, build and record the next skill.
ResolveSkill ==
    /\ pc = "skills"
    /\ queue = <<>>
    /\ Len(resolved) < Len(spec.skill)
    /\ LET ref == spec.skill[Len(resolved) + 1] IN
       \/ /\ <<"skill", ID(ref)>> \notin registered
          /\ ExpandFails("ErrNotFound", <<"skill", ID(ref)>>)
       \/ /\ <<"skill", ID(ref)>> \in registered
          /\ ExpandFails("build", <<"skill", ID(ref)>>)
       \/ \E c \in Contributions :
          /\ <<"skill", ID(ref)>> \in registered
          /\ IsEmptyContribution(c)
          /\ ExpandFails("skill_empty_contribution", <<"skill", ID(ref)>>)
       \/ \E c \in Contributions :
          /\ <<"skill", ID(ref)>> \in registered
          /\ ~IsEmptyContribution(c)
          /\ resolved' = Append(resolved, [ref |-> ref, value |-> c])
          /\ queue' = RequiredBy(c)
          /\ Continue
          /\ UNCHANGED <<lists, contract, injectedBy>>

\* injectRequired
InjectRequired ==
    /\ pc = "skills"
    /\ queue # <<>>
    /\ Head(queue).kind \in ListKinds
    /\ LET k     == Head(queue).kind
           req   == Head(queue).req
           skill == resolved[Len(resolved)].ref
           old   == First(k, req)
       IN
       \/ /\ BadID(req)
          /\ ExpandFails("bad_id", None)
       \/ /\ ~BadID(req)
          /\ Existing(k, req) = {}
          /\ Inject(k, req, skill)
       \/ /\ Existing(k, req) # {}
          /\ old.version # req.version
          /\ ExpandFails("skill_conflict_version_divergence", <<k, ID(req)>>)
       \/ /\ Existing(k, req) # {}
          /\ old.version = req.version
          /\ NotComparable(old.config, req.config) \/ ~SameConfig(old.config, req.config)
          /\ ExpandFails("skill_conflict_config_divergence", <<k, ID(req)>>)
       \/ /\ Existing(k, req) # {}
          /\ old.version = req.version
          /\ ~NotComparable(old.config, req.config)
          /\ SameConfig(old.config, req.config)
          /\ Keep(k, req)

\* Which of the two collisions an occupied contract slot is.
ContractCollision ==
    IF injectedBy[<<"output_contract", ID(contract)>>] # None
    THEN "skill_conflict_output_contract_multiple"
    ELSE "skill_conflict_output_contract_user_override"

\* injectOutputContract.  A config that cannot be encoded is reported with the
\* user-override code whoever declared the contract; the status keeps that
\* path apart from a collision.
InjectOutputContract ==
    /\ pc = "skills"
    /\ queue # <<>>
    /\ Head(queue).kind = "output_contract"
    /\ LET req   == Head(queue).req
           skill == resolved[Len(resolved)].ref
       IN
       \/ /\ BadID(req)
          /\ ExpandFails("bad_id", None)
       \/ /\ ~BadID(req)
          /\ contract = None
          /\ contract' = req
          /\ injectedBy' = [injectedBy EXCEPT ![<<"output_contract", ID(req)>>] = ID(skill)]
          /\ queue' = Tail(queue)
          /\ Continue
          /\ UNCHANGED <<resolved, lists>>
       \/ /\ ~BadID(req) /\ contract # None
          /\ ID(contract) # ID(req)
          /\ ExpandFails(ContractCollision, <<"output_contract", ID(req)>>)
       \/ /\ ~BadID(req) /\ contract # None
          /\ ID(contract) = ID(req)
          /\ NotComparable(contract.config, req.config)
          /\ ExpandFails("config_not_comparable", <<"output_contract", ID(req)>>)
       \/ /\ ~BadID(req) /\ contract # None
          /\ ID(contract) = ID(req)
          /\ ~NotComparable(contract.config, req.config)
          /\ ~SameConfig(contract.config, req.config)
          /\ ExpandFails(ContractCollision, <<"output_contract", ID(req)>>)
       \/ /\ ~BadID(req) /\ contract # None
          /\ ID(contract) = ID(req)
          /\ ~NotComparable(contract.config, req.config)
          /\ SameConfig(contract.config, req.config)
          /\ Keep("output_contract", req)

\* resolveOutputContract, once every skill is merged.
ResolveOutputContract ==
    /\ pc = "skills"
    /\ queue = <<>>
    /\ Len(resolved) = Len(spec.skill)
    /\ \/ /\ contract # None => <<"output_contract", ID(contract)>> \in registered
          /\ pc' = "resolve"
          /\ UNCHANGED <<registered, spec, expandVars, outcome>>
       \/ /\ contract # None
          /\ <<"output_contract", ID(contract)>> \notin registered
          /\ ExpandFails("ErrNotFound", <<"output_contract", ID(contract)>>)
       \/ /\ contract # None
          /\ <<"output_contract", ID(contract)>> \in registered
          /\ ExpandFails("build", <<"output_contract", ID(contract)>>)

ExpandStep ==
    \/ ResolveSkill
    \/ InjectRequired
    \/ InjectOutputContract
    \/ ResolveOutputContract

Expanded == pc \in {"resolve", "done"} /\ UNCHANGED skillVars

ExpandNext == ExpandStep \/ Expanded

\* The stage on its own: what the registry holds is fixed, Build froze it.
ExpandStart ==
    /\ registered \in Registries
    /\ spec \in Compositions
    /\ pc = "skills"
    /\ outcome = Outcome("running", None)
    /\ ExpandInit

ExpandSpec == ExpandStart /\ [][ExpandNext]_skillVars

-----------------------------------------------------------------------------
(* Properties. *)

\* What skill i of the resolved ones requires of kind k.
Requires(i, k) ==
    LET v == resolved[i].value
    IN  CASE k = "tool_pack"   -> ToSet(v.tools)
          [] k = "policy_pack" -> ToSet(v.policies)
          [] OTHER             -> IF v.contract = None THEN {} ELSE {v.contract}

\* The effective composition of kind k, as a sequence.
Effective(k) == IF k \in ListKinds THEN lists[k]
                ELSE IF contract = None THEN <<>> ELSE <<contract>>
Declared(k)  == IF k \in ListKinds THEN spec[k]
                ELSE IF spec.output_contract = None THEN <<>>
                ELSE <<spec.output_contract>>

ExpandTypeOK ==
    /\ spec \in Compositions
    /\ resolved \in Seq([ref : Refs, value : Contributions])
    /\ queue \in Seq([kind : InjectKinds, req : Requirements])
    /\ lists \in [ListKinds -> Seq(Refs)]
    /\ contract \in Refs \cup {None}
    /\ injectedBy \in [InjectKinds \X IDs -> IDs \cup {None}]

\* What the author wrote comes first and unchanged, whatever skills add, and
\* a component is attributed to a skill exactly when the author did not
\* declare it (InjectedBySkill in the manifest tells the two apart): to the
\* first declared skill that requires it, though later ones may do so too.
AttributionExact ==
    \A k \in InjectKinds :
        /\ IsPrefix(Declared(k), Effective(k))
        /\ \A i \in DOMAIN Effective(k) :
              injectedBy[<<k, ID(Effective(k)[i])>>] = None <=> i <= Len(Declared(k))
        /\ \A id \in IDs : injectedBy[<<k, id>>] # None =>
              /\ \E i \in DOMAIN Effective(k) : ID(Effective(k)[i]) = id
              /\ \E i \in DOMAIN resolved :
                    /\ ID(resolved[i].ref) = injectedBy[<<k, id>>]
                    /\ \E req \in Requires(i, k) : ID(req) = id
                    /\ \A h \in 1 .. i - 1 : \A req \in Requires(h, k) : ID(req) # id

\* Two configs with the same canonical form, or the very same config.
SameMeaning(a, b) == a = b \/ Canon[a] = Canon[b]

\* The effective composition has a component of kind k in the version that
\* req asks for and with a config that means the same.
Met(k, req) ==
    \E j \in DOMAIN Effective(k) : /\ ID(Effective(k)[j]) = ID(req)
                                   /\ SameMeaning(Effective(k)[j].config, req.config)

\* When expansion succeeds every resolved skill finds what it requires.
RequirementsMet ==
    pc = "resolve" =>
        \A i \in DOMAIN resolved, k \in InjectKinds : \A req \in Requires(i, k) : Met(k, req)

\* The comment in the structured-output skill: its contract has "No Config: the
\* consumer supplies the schema by declaring spec.outputContract directly".  An
\* author who declares that very contract with a schema is not refused for it.
SchemaSuppliedByConsumer ==
    outcome.status = "skill_conflict_output_contract_user_override" =>
        \/ Head(queue).req.config # NoConfig
        \/ ID(Head(queue).req) # ID(spec.output_contract)
-----------------------------------------------------------------------------
(* What makes the properties inductive. *)

\* Between two steps a requirement is met, or it is one of the last resolved
\* skill's and its turn has not come.
MetOrQueued ==
    \A i \in DOMAIN resolved, k \in InjectKinds : \A req \in Requires(i, k) :
        \/ Met(k, req)
        \/ i = Len(resolved) /\ [kind |-> k, req |-> req] \in ToSet(queue)

QueuedAreRequired ==
    \A e \in ToSet(queue) :
        resolved # <<>> /\ e.req \in Requires(Len(resolved), e.kind)

\* The resolved skills are the first declared ones, all of them registered.
SkillsInOrder ==
    /\ Len(resolved) <= Len(spec.skill)
    /\ \A i \in DOMAIN resolved : /\ resolved[i].ref = spec.skill[i]
                                  /\ <<"skill", ID(spec.skill[i])>> \in registered

\* Past the expansion nothing is queued, no skill is left, and the contract
\* is registered.
Settled ==
    pc \notin {"normalize", "freeze", "skills", "done"} \/ outcome.status = "ok" =>
        /\ queue = <<>>
        /\ Len(resolved) = Len(spec.skill)
        /\ contract # None => <<"output_contract", ID(contract)>> \in registered

ExpandInv ==
    /\ ExpandTypeOK
    /\ AttributionExact
    /\ MetOrQueued
    /\ QueuedAreRequired
    /\ SkillsInOrder
    /\ Settled
=============================================================================
