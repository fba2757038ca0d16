----------------------------- MODULE Normalize ------------------------------
(***************************************************************************)
(* spec.Normalize after the extends chain is resolved: mergeChain folds    *)
(* the parents root-first and then the base with child-wins, applyOverlays *)
(* folds the overlays with last-wins, the result is validated, and the     *)
(* overlays are scanned for drift of the locked fields.  Each fold also    *)
(* records, per top-level field, the layer the value came from.            *)
(*                                                                         *)
(* The top-level fields fall into four kinds, by the rule that merges them:*)
(*   slots     replaced whole when the layer sets them (kind, provider,    *)
(*             tools, policies, budget, telemetry, credentials, identity,  *)
(*             skills, outputContract, mcpImports, apiVersion)             *)
(*   prompt    replaced whole when the layer sets system or user           *)
(*   filters   a spec layer replaces the whole block, an overlay one stage *)
(*   metadata  merged scalar by scalar                                     *)
(* Contents (refs, configs, names) are opaque values; Valid says which of  *)
(* them pass the syntax rules of Validate.                                 *)
(***************************************************************************)
EXTENDS Integers, Sequences, FiniteSets, FiniteSetsExt

CONSTANTS
    Slots,            \* the fields replaced whole
    OverlaySlots,     \* the slots an AgentOverlayBody has
    Required,         \* the slots Validate requires: apiVersion, kind, provider
    Stages,           \* filter stages: preLLM, preTool, postTool
    Values,           \* contents of a field
    Valid,            \* the values Validate accepts
    SpecLayers,       \* the specs that may be parents or the base
    OverlayLayers,    \* the overlays that may be applied, Nil among them
    MaxParents,       \* bound on the length of the resolved chain
    MaxOverlayCount,  \* 16 in the code
    None,             \* nil, "" or a zero struct
    Absent,           \* a field the overlay document does not mention
    Nil,              \* a nil *AgentOverlay
    Empty             \* an empty, non-nil map or slice

ASSUME NormalizeAssumption ==
    /\ "apiVersion" \in Slots \ OverlaySlots
    /\ OverlaySlots \subseteq Slots /\ Required \subseteq Slots
    /\ Slots \cap {"metadata", "prompt", "filters"} = {}
    /\ Valid \subseteq Values
    /\ MaxParents \in Nat /\ MaxOverlayCount \in Nat
    /\ None \notin Values /\ Absent \notin Values \cup {None}

Fields   == Slots \cup {"metadata", "prompt", "filters"}
Optional == Values \cup {None}

Metadata == [id : Optional, version : Optional, labels : Optional]
Prompts  == [system : Optional, user : Optional]
Filters  == [Stages -> Optional]

\* The types of the layers: AgentSpec and AgentOverlayBody.
ASSUME LayerAssumption ==
    /\ \A p \in SpecLayers :
         /\ p.metadata \in Metadata /\ p.prompt \in Prompts /\ p.filters \in Filters
         /\ \A f \in Slots : p[f] \in Optional
    /\ \A ov \in OverlayLayers \ {Nil} :
         /\ DOMAIN ov.body = OverlaySlots \cup {"metadata", "prompt", "filters"}
         /\ ov.body.metadata \in Metadata \cup {Absent}
         /\ ov.body.prompt \in Prompts \cup {Absent}
         /\ ov.body.filters \in [Stages -> Optional \cup {Absent}] \cup {Absent}
         /\ \A f \in OverlaySlots : ov.body[f] \in Optional \cup {Absent}

VARIABLES
    pc,          \* the stage of Normalize
    nParents,    \* len(parents)
    nOverlays,   \* len(overlays)
    parents,     \* the parents folded so far, root first
    base,        \* the spec passed to Normalize, once folded
    overlays,    \* the overlays folded so far
    merged,      \* the spec under construction: result.Spec
    prov,        \* result.fields: the layer each field came from
    outcome,     \* "running", "ok" or the kind of error
    errs,        \* what the Errors aggregator collected
    attribution  \* result.Overlays

vars == <<pc, nParents, nOverlays, parents, base, overlays, merged, prov,
          outcome, errs, attribution>>

NoMetadata == [id |-> None, version |-> None, labels |-> None]
NoPrompt   == [system |-> None, user |-> None]
NoFilters  == [s \in Stages |-> None]

EmptySpec ==
    [f \in Fields |-> CASE f = "metadata" -> NoMetadata
                        [] f = "prompt"   -> NoPrompt
                        [] f = "filters"  -> NoFilters
                        [] OTHER          -> None]

FromBase       == [role |-> "base", step |-> 0]
FromParent(n)  == [role |-> "parent", step |-> n]
FromOverlay(n) == [role |-> "overlay", step |-> n]

Provenances == [role : {"base", "parent", "overlay"},
                step : 0 .. MaxParents + MaxOverlayCount]

TypeOK ==
    /\ pc \in {"merge", "overlays", "validate", "scan", "done"}
    /\ nParents \in 0 .. MaxParents /\ nOverlays \in 0 .. MaxOverlayCount + 1
    /\ parents \in Seq(SpecLayers) /\ Len(parents) <= nParents
    /\ base \in SpecLayers \cup {Nil}
    /\ overlays \in Seq(OverlayLayers) /\ Len(overlays) <= nOverlays
    /\ merged.metadata \in Metadata /\ merged.prompt \in Prompts
    /\ merged.filters \in Filters
    /\ \A f \in Slots : merged[f] \in Optional
    /\ prov \in [Fields -> Provenances]
    /\ outcome \in {"running", "ok", "ErrCompositionLimit", "invalid", "locked"}

-----------------------------------------------------------------------------
(* Merging one spec layer: mergeOne, mergeMetadata, isZeroMetadata. *)

\* scalarString, mapStringStringReplace: the child's value when it has one.
Pick(old, new) == IF new = None THEN old ELSE new

IsZeroMetadata(md) ==
    md.id = None /\ md.version = None /\ md.labels \in {None, Empty}

\* The test that guards a field's assignment in mergeOne.
Sets(f, spec) ==
    CASE f = "metadata" -> ~IsZeroMetadata(spec[f])
      [] f = "prompt"   -> spec[f].system # None \/ spec[f].user # None
      [] f = "filters"  -> \E s \in Stages : spec[f][s] # None
      [] OTHER          -> spec[f] # None

MergeMetadata(old, new) ==
    [id      |-> Pick(old.id, new.id),
     version |-> Pick(old.version, new.version),
     labels  |-> Pick(old.labels, new.labels)]

MergeOne(m, child) ==
    [f \in Fields |->
        IF ~Sets(f, child) THEN m[f]
        ELSE IF f = "metadata" THEN MergeMetadata(m[f], child[f])
        ELSE child[f]]

Attribute(touched, p) == [f \in Fields |-> IF f \in touched THEN p ELSE prov[f]]

-----------------------------------------------------------------------------
(* Applying one overlay: applyOne, applyOverlayMetadata, applyOverlayFilters. *)

OverlaySets(f, body) ==
    CASE f \notin DOMAIN body -> FALSE
      [] f = "filters" -> body[f] # Absent /\ \E s \in Stages : body[f][s] # Absent
      [] OTHER         -> body[f] # Absent

\* Mutated form: an overlay replaces the whole filter block.
ReplaceFilters(old, new) ==
    [s \in Stages |-> IF new[s] = Absent THEN None ELSE new[s]]

OverlayFilters(old, new) ==
    [s \in Stages |-> IF new[s] = Absent THEN old[s] ELSE new[s]]

ApplyOne(m, body) ==
    [f \in Fields |->
        IF ~OverlaySets(f, body) THEN m[f]
        ELSE CASE f = "metadata" -> MergeMetadata(m[f], body[f])
               [] f = "filters"  -> OverlayFilters(m[f], body[f])
               [] OTHER          -> body[f]]

-----------------------------------------------------------------------------
(* Validate and scanLockedDrift: both collect every violation they find. *)

ValidationErrors(m) ==
    {f \in Slots : IF f \in Required THEN m[f] \notin Valid
                   ELSE m[f] \notin Valid \cup {None, Empty}}
    \cup {x \in {"id", "version"} : m.metadata[x] \notin Valid}
    \cup (IF m.prompt.system \in Valid THEN {} ELSE {"prompt"})
    \cup {s \in Stages : m.filters[s] \notin Valid \cup {None, Empty}}

\* Overlay i names locked field x with another value than the base.
Drifts(x, i) ==
    /\ overlays[i] # Nil
    /\ IF x = "apiVersion"
       THEN overlays[i].apiVersion \notin {None, base.apiVersion}
       ELSE /\ overlays[i].body.metadata # Absent
            /\ overlays[i].body.metadata[x] \notin {None, base.metadata[x]}

\* Mutated form: the scan looks at the first overlay only.
DriftOfFirst ==
    {d \in {"apiVersion", "id", "version"} \X DOMAIN overlays : d[2] = 1 /\ Drifts(d[1], d[2])}

\* scanLockedDrift: the fields and the overlays that drift.
LockedDrift ==
    {d \in {"apiVersion", "id", "version"} \X DOMAIN overlays : Drifts(d[1], d[2])}

-----------------------------------------------------------------------------
(* The stages. *)

Init ==
    /\ pc = "merge"
    /\ nParents \in 0 .. MaxParents
    /\ nOverlays \in 0 .. MaxOverlayCount + 1
    /\ parents = <<>> /\ base = Nil /\ overlays = <<>>
    /\ merged = EmptySpec
    /\ prov = [f \in Fields |-> FromBase]
    /\ outcome = "running" /\ errs = {} /\ attribution = <<>>

\* Mutated form: parents numbered from 0, as overlays are.
ParentStepFromZero(n, i) == n - i

\* The number mergeChain gives parent i (counted from 1) of n: from the leaf, as
\* the comment in the loop and provenance.go have it.  The comment on mergeChain
\* has it the other way round, the deepest parent as 1.
ParentStep(n, i) == n - (i - 1)

MergeParent ==
    /\ pc = "merge"
    /\ Len(parents) < nParents
    /\ \E p \in SpecLayers :
         /\ parents' = Append(parents, p)
         /\ merged' = MergeOne(merged, p)
         /\ prov' = Attribute({f \in Fields : Sets(f, p)},
                              FromParent(ParentStep(nParents, Len(parents) + 1)))
    /\ UNCHANGED <<pc, nParents, nOverlays, base, overlays, outcome, errs, attribution>>

MergeBase ==
    /\ pc = "merge"
    /\ Len(parents) = nParents
    /\ \E s \in SpecLayers :
         /\ base' = s
         /\ merged' = MergeOne(merged, s)
         /\ prov' = Attribute({f \in Fields : Sets(f, s)}, FromBase)
    /\ pc' = "overlays"
    /\ UNCHANGED <<nParents, nOverlays, parents, overlays, outcome, errs, attribution>>

Fail(reason, what) ==
    /\ pc' = "done"
    /\ outcome' = reason
    /\ errs' = what
    /\ UNCHANGED <<nParents, nOverlays, parents, base, overlays, merged, prov,
                   attribution>>

RejectOverlays ==
    /\ pc = "overlays"
    /\ nOverlays > MaxOverlayCount
    /\ Fail("ErrCompositionLimit", {})

\* One turn of applyOverlays' loop; a nil overlay keeps its index.
ApplyOverlay ==
    /\ pc = "overlays"
    /\ nOverlays <= MaxOverlayCount
    /\ Len(overlays) < nOverlays
    /\ \E ov \in OverlayLayers :
         /\ overlays' = Append(overlays, ov)
         /\ IF ov = Nil
            THEN UNCHANGED <<merged, prov>>
            ELSE /\ merged' = ApplyOne(merged, ov.body)
                 /\ prov' = Attribute({f \in Fields : OverlaySets(f, ov.body)},
                                      FromOverlay(Len(overlays)))
    /\ UNCHANGED <<pc, nParents, nOverlays, parents, base, outcome, errs, attribution>>

OverlaysApplied ==
    /\ pc = "overlays"
    /\ Len(overlays) = nOverlays
    /\ nOverlays <= MaxOverlayCount
    /\ pc' = "validate"
    /\ UNCHANGED <<nParents, nOverlays, parents, base, overlays, merged, prov,
                   outcome, errs, attribution>>

Validate ==
    /\ pc = "validate"
    /\ \/ /\ ValidationErrors(merged) # {}
          /\ Fail("invalid", ValidationErrors(merged))
       \/ /\ ValidationErrors(merged) = {}
          /\ pc' = "scan"
          /\ UNCHANGED <<nParents, nOverlays, parents, base, overlays, merged,
                         prov, outcome, errs, attribution>>

\* The overlays the result names: the ones applied, without the nil ones.
AttributeOverlays(ovs) ==
    LET named[i \in 0 .. Len(ovs)] ==
          IF i = 0 THEN <<>>
          ELSE IF ovs[i] = Nil THEN named[i - 1] ELSE Append(named[i - 1], ovs[i])
    IN  named[Len(ovs)]

ScanLockedDrift ==
    /\ pc = "scan"
    /\ \/ /\ LockedDrift # {}
          /\ Fail("locked", LockedDrift)
       \/ /\ LockedDrift = {}
          /\ pc' = "done"
          /\ outcome' = "ok"
          /\ attribution' = AttributeOverlays(overlays)
          /\ UNCHANGED <<nParents, nOverlays, parents, base, overlays, merged,
                         prov, errs>>

Returned == pc = "done" /\ UNCHANGED vars

Next ==
    \/ MergeParent
    \/ MergeBase
    \/ RejectOverlays
    \/ ApplyOverlay
    \/ OverlaysApplied
    \/ Validate
    \/ ScanLockedDrift
    \/ Returned

Spec == Init /\ [][Next]_vars

-----------------------------------------------------------------------------
(* A reference for the folds: for each field, the layers that touch it. *)

ParentsSetting(f)  == {i \in DOMAIN parents : Sets(f, parents[i])}
OverlaysSetting(f) == {i \in DOMAIN overlays :
                          overlays[i] # Nil /\ OverlaySets(f, overlays[i].body)}

\* The last parent that sets f, or EmptySpec; the last spec layer that does.
LastParent(f) == IF ParentsSetting(f) # {} THEN parents[Max(ParentsSetting(f))]
                 ELSE EmptySpec
LastSpec(f) == IF Sets(f, base) THEN base ELSE LastParent(f)

\* The last parent whose metadata has scalar x; the last spec layer.
ParentsNaming(x) == {i \in DOMAIN parents : parents[i].metadata[x] # None}
ParentScalar(x) == IF ParentsNaming(x) # {} THEN parents[Max(ParentsNaming(x))].metadata[x]
                   ELSE None
LastScalar(x) == IF base.metadata[x] # None THEN base.metadata[x] ELSE ParentScalar(x)

\* The overlays that set filter stage s.
StageSetting(s) == {i \in OverlaysSetting("filters") :
                        overlays[i].body.filters[s] # Absent}

\* The value of f, and of filter stage s, and the source of f, by the last setter.
LastValue(f) ==
    IF OverlaysSetting(f) # {} THEN overlays[Max(OverlaysSetting(f))].body[f]
    ELSE LastSpec(f)[f]

LastStage(s) ==
    IF StageSetting(s) # {} THEN overlays[Max(StageSetting(s))].body.filters[s]
    ELSE LastSpec("filters").filters[s]

ParentSource(f) ==
    IF ParentsSetting(f) = {} THEN FromBase
    ELSE FromParent(nParents - (Max(ParentsSetting(f)) - 1))

LastSource(f) ==
    IF OverlaysSetting(f) # {} THEN FromOverlay(Max(OverlaysSetting(f)) - 1)
    ELSE IF Sets(f, base) THEN FromBase ELSE ParentSource(f)

-----------------------------------------------------------------------------
(* Properties. *)

\* Provenance names the layer that last set the field, through any number of
\* parents (1 is the last one merged), a base and overlays; a field nobody set
\* is attributed to the base.
\* A nil overlay leaves a hole in the step numbers but not in the attribution
\* list, which has the named overlay at its step less the nil ones before it.
ProvenanceExact ==
    outcome = "ok" =>
        \A f \in Fields :
            /\ prov[f] = LastSource(f)
            /\ prov[f].role = "overlay" =>
                 LET nils == Cardinality({i \in 1 .. prov[f].step : overlays[i] = Nil})
                 IN  attribution[prov[f].step + 1 - nils] = overlays[prov[f].step + 1]

\* The value of a field is the one its last setter gave it: a later layer
\* that leaves the field out changes nothing, one that clears it (null, [])
\* clears it, and an overlay that sets one filter stage keeps the others.
ValueOfLastSetter ==
    outcome = "ok" =>
        /\ \A f \in Slots \cup {"prompt"} : merged[f] = LastValue(f)
        /\ \A s \in Stages : merged.filters[s] = LastStage(s)

\* No overlay changes the identity of the agent: the accepted id, version and
\* apiVersion are the ones the specs alone give.
OverlaysKeepIdentity ==
    outcome = "ok" =>
        /\ \A x \in {"id", "version"} : merged.metadata[x] = LastScalar(x)
        /\ merged.apiVersion = LastSpec("apiVersion").apiVersion

-----------------------------------------------------------------------------
(* What makes the properties inductive: they hold after every layer. *)

\* The overlays that name scalar x of the metadata, and what the last one says.
ScalarSetting(x) == {i \in OverlaysSetting("metadata") :
                        overlays[i].body.metadata[x] # None}
NamedScalar(x) ==
    IF ScalarSetting(x) # {} THEN overlays[Max(ScalarSetting(x))].body.metadata[x]
    ELSE LastScalar(x)

ParentsFolded ==
    /\ base = Nil /\ overlays = <<>>
    /\ \A f \in Slots \cup {"prompt", "filters"} : merged[f] = LastParent(f)[f]
    /\ \A x \in {"id", "version"} : merged.metadata[x] = ParentScalar(x)
    /\ \A f \in Fields : prov[f] = ParentSource(f)

LayersFolded ==
    /\ base \in SpecLayers /\ Len(parents) = nParents
    /\ \A f \in Slots \cup {"prompt"} : merged[f] = LastValue(f)
    /\ \A s \in Stages : merged.filters[s] = LastStage(s)
    /\ \A x \in {"id", "version"} : merged.metadata[x] = NamedScalar(x)
    /\ \A f \in Fields : prov[f] = LastSource(f)

\* What is accepted has no drift and names its overlays.
Accepted ==
    /\ outcome = "running" <=> pc # "done"
    /\ pc \in {"validate", "scan"} => Len(overlays) = nOverlays
    /\ outcome = "ok" => LockedDrift = {} /\ attribution = AttributeOverlays(overlays)

NormalizeInv ==
    /\ TypeOK /\ Accepted
    /\ pc = "merge" => ParentsFolded
    /\ pc # "merge" => LayersFolded
=============================================================================
