-------------------------- MODULE NormalizeProofs ---------------------------
(***************************************************************************)
(* Proofs about Normalize and Overlay, for any slots and stages, any       *)
(* layers, any number of parents and any limit on overlays: the value and  *)
(* the provenance of a field are those of its last setter, overlays keep   *)
(* the identity, and the documents decide what the overlays set.  Then     *)
(* about CanonicalMemo, the memo that the resulting NormalizedSpec keeps.  *)
(***************************************************************************)
EXTENDS Overlay, CanonicalMemo, DataLemmas, FiniteSetTheorems

-----------------------------------------------------------------------------
(* The newest of a set of positions *)

\* A position added behind all others is the greatest; the greatest is one of them.
LEMMA Newest ==
  ASSUME NEW n \in Nat, NEW S, S \subseteq 1 .. n
  PROVE  /\ Max(S \cup {n + 1}) = n + 1
         /\ S # {} => Max(S) \in S /\ Max(S) \in 1 .. n
<1>1. S # {} => Max(S) \in S
  <2>1. S \subseteq 0 .. n
    OBVIOUS
  <2> QED
    BY <2>1, MaxGreatest
<1>2. Max(S \cup {n + 1}) = n + 1
  <2> DEFINE T == S \cup {n + 1}
  <2>1. T \subseteq 0 .. n + 1 /\ T # {} /\ n + 1 \in Nat
    OBVIOUS
  <2>2. Max(T) \in T /\ \A y \in T : y <= Max(T)
    <3> HIDE DEF T
    <3> QED
      BY <2>1, MaxGreatest
  <2>3. PICK m : m = Max(T)
    OBVIOUS
  <2>4. m \in 1 .. n \/ m = n + 1
    BY <2>2, <2>3
  <2>5. n + 1 <= m
    BY <2>2, <2>3
  <2>6. m = n + 1
    BY <2>4, <2>5
  <2> QED
    BY <2>3, <2>6
<1> QED
  BY <1>1, <1>2

-----------------------------------------------------------------------------
(* Folding the parents *)

\* One more parent: it is the last to set what it sets, and the others stay.
LEMMA OneMoreParent ==
  ASSUME TypeOK, NEW p \in SpecLayers, parents' = Append(parents, p)
  PROVE  /\ parents' \in Seq(SpecLayers) /\ Len(parents') = Len(parents) + 1
         /\ \A f : /\ Sets(f, p) => /\ ParentsSetting(f)' # {} /\ LastParent(f)' = p
                                    /\ Max(ParentsSetting(f)') = Len(parents) + 1
                   /\ ~Sets(f, p) => /\ ParentsSetting(f)' = ParentsSetting(f)
                                     /\ LastParent(f)' = LastParent(f)
         /\ \A x : ParentScalar(x)' = Pick(ParentScalar(x), p.metadata[x])
<1> DEFINE n == Len(parents)
<1>1. n \in Nat /\ DOMAIN parents = 1 .. n /\ parents \in Seq(SpecLayers)
  BY DEF TypeOK
<1>2. /\ parents' \in Seq(SpecLayers) /\ Len(parents') = n + 1 /\ DOMAIN parents' = 1 .. n + 1
      /\ (\A i \in 1 .. n : parents'[i] = parents[i]) /\ parents'[n + 1] = p
  BY <1>1, Appended
<1>3. \A i : i \in 1 .. n + 1 <=> i \in 1 .. n \/ i = n + 1
  BY <1>1
<1> HIDE DEF n
<1>4. ASSUME NEW f
      PROVE  /\ Sets(f, p) => /\ ParentsSetting(f)' # {} /\ LastParent(f)' = p
                              /\ Max(ParentsSetting(f)') = n + 1
             /\ ~Sets(f, p) => /\ ParentsSetting(f)' = ParentsSetting(f)
                               /\ LastParent(f)' = LastParent(f)
  <2>1. ParentsSetting(f) \subseteq 1 .. n
    BY <1>1 DEF ParentsSetting
  <2>2. ParentsSetting(f)' = {i \in 1 .. n + 1 : Sets(f, parents'[i])}
    BY <1>2 DEF ParentsSetting
  <2>3. CASE Sets(f, p)
    <3>1. ParentsSetting(f)' = ParentsSetting(f) \cup {n + 1}
      BY <1>1, <1>2, <1>3, <2>2, <2>3 DEF ParentsSetting
    <3>2. Max(ParentsSetting(f)') = n + 1 /\ ParentsSetting(f)' # {}
      BY <1>1, <2>1, <3>1, Newest
    <3> QED
      BY <1>2, <2>3, <3>2 DEF LastParent
  <2>4. CASE ~Sets(f, p)
    <3>1. ParentsSetting(f)' = ParentsSetting(f)
      BY <1>1, <1>2, <1>3, <2>2, <2>4 DEF ParentsSetting
    <3>2. ParentsSetting(f) # {} => Max(ParentsSetting(f)) \in 1 .. n
      BY <1>1, <2>1, Newest
    <3> QED
      BY <1>2, <2>4, <3>1, <3>2 DEF LastParent
  <2> QED
    BY <2>3, <2>4
<1>5. ASSUME NEW x PROVE ParentScalar(x)' = Pick(ParentScalar(x), p.metadata[x])
  <2>1. ParentsNaming(x) \subseteq 1 .. n
    BY <1>1 DEF ParentsNaming
  <2>2. ParentsNaming(x)' = {i \in 1 .. n + 1 : parents'[i].metadata[x] # None}
    BY <1>2 DEF ParentsNaming
  <2>3. CASE p.metadata[x] # None
    <3>1. ParentsNaming(x)' = ParentsNaming(x) \cup {n + 1}
      BY <1>1, <1>2, <1>3, <2>2, <2>3 DEF ParentsNaming
    <3>2. Max(ParentsNaming(x)') = n + 1 /\ ParentsNaming(x)' # {}
      BY <1>1, <2>1, <3>1, Newest
    <3> QED
      BY <1>2, <2>3, <3>2 DEF ParentScalar, Pick
  <2>4. CASE p.metadata[x] = None
    <3>1. ParentsNaming(x)' = ParentsNaming(x)
      BY <1>1, <1>2, <1>3, <2>2, <2>4 DEF ParentsNaming
    <3>2. ParentsNaming(x) # {} => Max(ParentsNaming(x)) \in 1 .. n
      BY <1>1, <2>1, Newest
    <3> QED
      BY <1>2, <2>4, <3>1, <3>2 DEF ParentScalar, Pick
  <2> QED
    BY <2>3, <2>4
<1> QED
  BY <1>2, <1>4, <1>5 DEF n

\* What merging a spec layer does to each kind of field.
LEMMA MergedFields ==
  ASSUME NEW m, NEW child
  PROVE  /\ \A f \in Slots \cup {"prompt", "filters"} :
              MergeOne(m, child)[f] = IF Sets(f, child) THEN child[f] ELSE m[f]
         /\ \A x \in {"id", "version"} :
              MergeOne(m, child).metadata[x] = Pick(m.metadata[x], child.metadata[x])
<1>1. /\ \A f \in Slots \cup {"prompt", "filters"} : f \in Fields /\ f # "metadata"
      /\ "metadata" \in Fields
  BY NormalizeAssumption DEF Fields
<1>2. \A f \in Slots \cup {"prompt", "filters"} :
        MergeOne(m, child)[f] = IF Sets(f, child) THEN child[f] ELSE m[f]
  BY <1>1 DEF MergeOne
<1>3. ASSUME NEW x \in {"id", "version"}
      PROVE  MergeOne(m, child).metadata[x] = Pick(m.metadata[x], child.metadata[x])
  <2>1. MergeOne(m, child).metadata = IF ~Sets("metadata", child) THEN m.metadata
                                      ELSE MergeMetadata(m.metadata, child.metadata)
    BY <1>1 DEF MergeOne
  <2>2. CASE Sets("metadata", child)
    BY <2>1, <2>2 DEF MergeMetadata
  <2>3. CASE ~Sets("metadata", child)
    <3>1. IsZeroMetadata(child.metadata)
      BY <2>3 DEF Sets
    <3>2. child.metadata[x] = None
      BY <3>1 DEF IsZeroMetadata
    <3> QED
      BY <2>1, <2>3, <3>2 DEF Pick
  <2> QED
    BY <2>2, <2>3
<1> QED
  BY <1>2, <1>3

\* A merged spec has the types of its layers.
LEMMA MergedTypes ==
  ASSUME NEW m, NEW p \in SpecLayers,
         m.metadata \in Metadata, m.prompt \in Prompts, m.filters \in Filters,
         \A f \in Slots : m[f] \in Optional
  PROVE  LET r == MergeOne(m, p) IN
         /\ r.metadata \in Metadata /\ r.prompt \in Prompts /\ r.filters \in Filters
         /\ \A f \in Slots : r[f] \in Optional
<1> DEFINE r == MergeOne(m, p)
<1>1. /\ p.metadata \in Metadata /\ p.prompt \in Prompts /\ p.filters \in Filters
      /\ \A f \in Slots : p[f] \in Optional
  BY LayerAssumption
<1>2. /\ \A f \in Slots \cup {"prompt", "filters"} : f \in Fields /\ f # "metadata"
      /\ "metadata" \in Fields
  BY NormalizeAssumption DEF Fields
<1>3. /\ r.prompt = IF Sets("prompt", p) THEN p.prompt ELSE m.prompt
      /\ r.filters = IF Sets("filters", p) THEN p.filters ELSE m.filters
      /\ \A f \in Slots : r[f] = IF Sets(f, p) THEN p[f] ELSE m[f]
      /\ r.metadata = IF Sets("metadata", p) THEN MergeMetadata(m.metadata, p.metadata) ELSE m.metadata
  BY <1>2 DEF MergeOne
<1>4. MergeMetadata(m.metadata, p.metadata) \in Metadata
  BY <1>1 DEF MergeMetadata, Metadata, Pick
<1> QED
  BY <1>1, <1>3, <1>4

\* Everything is empty before the first layer.
LEMMA InitFolded == Init => NormalizeInv
<1> SUFFICES ASSUME Init PROVE NormalizeInv
  OBVIOUS
<1> USE NormalizeAssumption
<1>1. /\ parents = <<>> /\ overlays = <<>> /\ parents \in Seq(SpecLayers) /\ Len(parents) = 0
      /\ overlays \in Seq(OverlayLayers) /\ Len(overlays) = 0 /\ DOMAIN parents = {}
  BY DEF Init
<1>2. /\ \A f \in Slots : f \in Fields /\ f \notin {"metadata", "prompt", "filters"}
      /\ "metadata" \in Fields /\ "prompt" \in Fields /\ "filters" \in Fields
  BY DEF Fields
<1>3. /\ merged.metadata = NoMetadata /\ merged.prompt = NoPrompt /\ merged.filters = NoFilters
      /\ \A f \in Slots : merged[f] = None
  BY <1>2 DEF Init, EmptySpec
<1>4. TypeOK
  <2>1. NoMetadata \in Metadata /\ NoPrompt \in Prompts /\ NoFilters \in Filters /\ None \in Optional
    BY DEF NoMetadata, NoPrompt, NoFilters, Metadata, Prompts, Filters, Optional
  <2>2. prov \in [Fields -> Provenances]
    BY DEF Init, FromBase, Provenances
  <2> QED
    BY <1>1, <1>3, <2>1, <2>2 DEF Init, TypeOK
<1>5. /\ \A f : ParentsSetting(f) = {} /\ LastParent(f) = EmptySpec
      /\ \A x : ParentScalar(x) = None
  BY <1>1 DEF ParentsSetting, ParentsNaming, LastParent, ParentScalar
<1>6. ParentsFolded
  <2>1. \A x \in {"id", "version"} : merged.metadata[x] = ParentScalar(x)
    BY <1>3, <1>5 DEF NoMetadata
  <2> QED
    BY <1>1, <1>5, <2>1 DEF Init, ParentsFolded, ParentSource
<1> QED
  BY <1>4, <1>6 DEF Init, NormalizeInv, Accepted

\* A parent more.
LEMMA MergeParentKeeps == NormalizeInv /\ MergeParent => NormalizeInv'
<1> SUFFICES ASSUME NormalizeInv, MergeParent PROVE NormalizeInv'
  OBVIOUS
<1> USE NormalizeAssumption
<1>0. TypeOK /\ Accepted /\ ParentsFolded /\ pc = "merge" /\ Len(parents) < nParents
  BY DEF NormalizeInv, MergeParent
<1>1. PICK p \in SpecLayers :
        /\ parents' = Append(parents, p)
        /\ merged' = MergeOne(merged, p)
        /\ prov' = Attribute({f \in Fields : Sets(f, p)},
                             FromParent(ParentStep(nParents, Len(parents) + 1)))
  BY DEF MergeParent
<1>2. UNCHANGED <<pc, nParents, nOverlays, base, overlays, outcome, errs, attribution>>
  BY DEF MergeParent
<1>n. Len(parents) \in Nat /\ nParents \in Nat /\ nParents <= MaxParents
  BY <1>0 DEF TypeOK
<1>3. /\ parents' \in Seq(SpecLayers) /\ Len(parents') = Len(parents) + 1
      /\ \A f : /\ Sets(f, p) => /\ ParentsSetting(f)' # {} /\ LastParent(f)' = p
                                 /\ Max(ParentsSetting(f)') = Len(parents) + 1
                /\ ~Sets(f, p) => /\ ParentsSetting(f)' = ParentsSetting(f)
                                  /\ LastParent(f)' = LastParent(f)
      /\ \A x : ParentScalar(x)' = Pick(ParentScalar(x), p.metadata[x])
  BY <1>0, <1>1, OneMoreParent
<1>4. \A f \in Fields : prov'[f] = IF Sets(f, p) THEN FromParent(nParents - Len(parents)) ELSE prov[f]
  <2>1. ParentStep(nParents, Len(parents) + 1) = nParents - Len(parents)
    BY <1>n DEF ParentStep
  <2> QED
    BY <1>1, <2>1 DEF Attribute
<1>5. TypeOK'
  <2>1. /\ merged'.metadata \in Metadata /\ merged'.prompt \in Prompts /\ merged'.filters \in Filters
        /\ \A f \in Slots : merged'[f] \in Optional
    BY <1>0, <1>1, MergedTypes DEF TypeOK
  <2>2. FromParent(nParents - Len(parents)) \in Provenances
    <3>1. nParents - Len(parents) \in 0 .. MaxParents + MaxOverlayCount
      BY <1>0, <1>n
    <3> QED
      BY <3>1 DEF FromParent, Provenances
  <2>3. prov' \in [Fields -> Provenances]
    <3>1. \A f \in Fields : prov'[f] \in Provenances
      BY <1>0, <1>4, <2>2 DEF TypeOK
    <3> QED
      BY <1>1, <3>1 DEF Attribute
  <2>4. Len(parents') <= nParents'
    BY <1>0, <1>2, <1>3, <1>n
  <2> QED
    BY <1>0, <1>2, <1>3, <2>1, <2>3, <2>4 DEF TypeOK
<1>6. ParentsFolded'
  <2>1. \A f \in Slots \cup {"prompt", "filters"} : merged'[f] = LastParent(f)'[f]
    BY <1>0, <1>1, <1>3, MergedFields DEF ParentsFolded
  <2>2. \A x \in {"id", "version"} : merged'.metadata[x] = ParentScalar(x)'
    BY <1>0, <1>1, <1>3, MergedFields DEF ParentsFolded
  <2>3. ASSUME NEW f \in Fields PROVE prov'[f] = ParentSource(f)'
    <3>1. CASE Sets(f, p)
      <4>1. nParents - ((Len(parents) + 1) - 1) = nParents - Len(parents)
        BY <1>n
      <4>2. ParentsSetting(f)' # {} /\ Max(ParentsSetting(f)') = Len(parents) + 1
        BY <1>3, <3>1
      <4> QED
        BY <1>2, <1>4, <3>1, <4>1, <4>2 DEF ParentSource
    <3>2. CASE ~Sets(f, p)
      <4>1. ParentsSetting(f)' = ParentsSetting(f)
        BY <1>3, <3>2
      <4> QED
        BY <1>0, <1>2, <1>4, <3>2, <4>1 DEF ParentSource, ParentsFolded
    <3> QED
      BY <3>1, <3>2
  <2> QED
    BY <1>0, <1>2, <2>1, <2>2, <2>3 DEF ParentsFolded
<1>7. Accepted'
  BY <1>0, <1>2 DEF Accepted
<1> QED
  BY <1>0, <1>2, <1>5, <1>6, <1>7 DEF NormalizeInv

\* The base, over all parents.
LEMMA MergeBaseKeeps == NormalizeInv /\ MergeBase => NormalizeInv'
<1> SUFFICES ASSUME NormalizeInv, MergeBase PROVE NormalizeInv'
  OBVIOUS
<1> USE NormalizeAssumption
<1>0. TypeOK /\ Accepted /\ ParentsFolded /\ pc = "merge" /\ Len(parents) = nParents
  BY DEF NormalizeInv, MergeBase
<1>1. PICK s \in SpecLayers :
        /\ base' = s
        /\ merged' = MergeOne(merged, s)
        /\ prov' = Attribute({f \in Fields : Sets(f, s)}, FromBase)
  BY DEF MergeBase
<1>2. pc' = "overlays" /\ UNCHANGED <<nParents, nOverlays, parents, overlays, outcome, errs, attribution>>
  BY DEF MergeBase
<1>3. /\ \A f : /\ LastParent(f)' = LastParent(f) /\ ParentSource(f)' = ParentSource(f)
                /\ LastSpec(f)' = IF Sets(f, s) THEN s ELSE LastParent(f)
      /\ \A x : LastScalar(x)' = Pick(ParentScalar(x), s.metadata[x])
  BY <1>1, <1>2 DEF LastParent, ParentSource, LastSpec, LastScalar, ParentScalar, ParentsSetting,
                    ParentsNaming, Pick
<1>4. /\ \A f : LastValue(f)' = LastSpec(f)'[f]
      /\ \A t : LastStage(t)' = LastSpec("filters")'.filters[t]
      /\ \A x : NamedScalar(x)' = LastScalar(x)'
      /\ \A f : LastSource(f)' = IF Sets(f, s) THEN FromBase ELSE ParentSource(f)
  <2>1. DOMAIN overlays' = {}
    BY <1>0, <1>2 DEF ParentsFolded
  <2>2. \A f : OverlaysSetting(f)' = {}
    BY <2>1 DEF OverlaysSetting
  <2>3. (\A t : StageSetting(t)' = {}) /\ (\A x : ScalarSetting(x)' = {})
    BY <2>2 DEF StageSetting, ScalarSetting
  <2> QED
    BY <1>1, <1>3, <2>2, <2>3 DEF LastValue, LastStage, NamedScalar, LastSource
<1>5. \A f \in Fields : prov'[f] = IF Sets(f, s) THEN FromBase ELSE prov[f]
  BY <1>1 DEF Attribute
<1>6. TypeOK'
  <2>1. /\ merged'.metadata \in Metadata /\ merged'.prompt \in Prompts /\ merged'.filters \in Filters
        /\ \A f \in Slots : merged'[f] \in Optional
    BY <1>0, <1>1, MergedTypes DEF TypeOK
  <2>2. prov' \in [Fields -> Provenances]
    <3>1. FromBase \in Provenances
      BY DEF FromBase, Provenances
    <3>2. \A f \in Fields : prov'[f] \in Provenances
      BY <1>0, <1>5, <3>1 DEF TypeOK
    <3> QED
      BY <1>1, <3>2 DEF Attribute
  <2> QED
    BY <1>0, <1>1, <1>2, <2>1, <2>2 DEF TypeOK
<1>7. LayersFolded'
  <2>1. \A f \in Slots \cup {"prompt", "filters"} : merged'[f] = LastSpec(f)'[f]
    BY <1>0, <1>1, <1>3, MergedFields DEF ParentsFolded
  <2>2. \A f \in Slots \cup {"prompt"} : merged'[f] = LastValue(f)'
    BY <1>4, <2>1
  <2>3. \A t \in Stages : merged'.filters[t] = LastStage(t)'
    BY <1>4, <2>1
  <2>4. \A x \in {"id", "version"} : merged'.metadata[x] = NamedScalar(x)'
    BY <1>0, <1>1, <1>3, <1>4, MergedFields DEF ParentsFolded
  <2>5. \A f \in Fields : prov'[f] = LastSource(f)'
    BY <1>0, <1>4, <1>5 DEF ParentsFolded
  <2> QED
    BY <1>0, <1>1, <1>2, <2>2, <2>3, <2>4, <2>5 DEF LayersFolded
<1>8. Accepted'
  BY <1>0, <1>2 DEF Accepted
<1> QED
  BY <1>2, <1>6, <1>7, <1>8 DEF NormalizeInv

-----------------------------------------------------------------------------
(* Folding the overlays *)

\* What an overlay says of a field, a stage and a scalar, if it says anything.
Says(f, ov)       == ov # Nil /\ OverlaySets(f, ov.body)
SaysStage(s, ov)  == Says("filters", ov) /\ ov.body.filters[s] # Absent
SaysScalar(x, ov) == Says("metadata", ov) /\ ov.body.metadata[x] # None

\* One more overlay: it has the last word on what it sets, and nothing else moves.
LEMMA OneMoreOverlay ==
  ASSUME TypeOK, NEW ov \in OverlayLayers, overlays' = Append(overlays, ov),
         UNCHANGED <<nParents, parents, base>>
  PROVE  /\ overlays' \in Seq(OverlayLayers) /\ Len(overlays') = Len(overlays) + 1
         /\ \A f : /\ Says(f, ov) => /\ LastValue(f)' = ov.body[f]
                                     /\ LastSource(f)' = FromOverlay(Len(overlays))
                   /\ ~Says(f, ov) => LastValue(f)' = LastValue(f) /\ LastSource(f)' = LastSource(f)
         /\ \A s : LastStage(s)' = IF SaysStage(s, ov) THEN ov.body.filters[s] ELSE LastStage(s)
         /\ \A x : NamedScalar(x)' = IF SaysScalar(x, ov) THEN ov.body.metadata[x] ELSE NamedScalar(x)
<1> DEFINE n == Len(overlays)
<1>1. n \in Nat /\ DOMAIN overlays = 1 .. n /\ overlays \in Seq(OverlayLayers)
  BY DEF TypeOK
<1>2. /\ overlays' \in Seq(OverlayLayers) /\ Len(overlays') = n + 1 /\ DOMAIN overlays' = 1 .. n + 1
      /\ (\A i \in 1 .. n : overlays'[i] = overlays[i]) /\ overlays'[n + 1] = ov
  BY <1>1, Appended
<1>3. \A i : i \in 1 .. n + 1 <=> i \in 1 .. n \/ i = n + 1
  BY <1>1
<1>4. /\ \A f : LastSpec(f)' = LastSpec(f) /\ ParentSource(f)' = ParentSource(f)
      /\ \A x : LastScalar(x)' = LastScalar(x)
  BY DEF LastParent, ParentSource, LastSpec, LastScalar, ParentScalar, ParentsSetting, ParentsNaming
<1> HIDE DEF n
<1>5. ASSUME NEW f
      PROVE  /\ OverlaysSetting(f) \subseteq 1 .. n
             /\ OverlaysSetting(f)' = OverlaysSetting(f) \cup (IF Says(f, ov) THEN {n + 1} ELSE {})
  <2>1. OverlaysSetting(f)' = {i \in 1 .. n + 1 : Says(f, overlays'[i])}
    BY <1>2 DEF OverlaysSetting, Says
  <2>2. OverlaysSetting(f) = {i \in 1 .. n : Says(f, overlays[i])}
    BY <1>1 DEF OverlaysSetting, Says
  <2> QED
    BY <1>2, <1>3, <2>1, <2>2
<1>6. ASSUME NEW f
      PROVE  /\ Says(f, ov) => /\ LastValue(f)' = ov.body[f]
                               /\ LastSource(f)' = FromOverlay(n)
             /\ ~Says(f, ov) => LastValue(f)' = LastValue(f) /\ LastSource(f)' = LastSource(f)
  <2>1. CASE Says(f, ov)
    <3>1. OverlaysSetting(f)' # {} /\ Max(OverlaysSetting(f)') = n + 1
      BY <1>1, <1>5, <2>1, Newest
    <3>2. (n + 1) - 1 = n
      BY <1>1
    <3> QED
      BY <1>2, <2>1, <3>1, <3>2 DEF LastValue, LastSource
  <2>2. CASE ~Says(f, ov)
    <3>1. OverlaysSetting(f)' = OverlaysSetting(f)
      BY <1>5, <2>2
    <3>2. OverlaysSetting(f) # {} => Max(OverlaysSetting(f)) \in 1 .. n
      BY <1>1, <1>5, Newest
    <3>3. Sets(f, base)' = Sets(f, base)
      BY DEF Sets
    <3> QED
      BY <1>2, <1>4, <2>2, <3>1, <3>2, <3>3 DEF LastValue, LastSource
  <2> QED
    BY <2>1, <2>2
<1>7. ASSUME NEW s
      PROVE  LastStage(s)' = IF SaysStage(s, ov) THEN ov.body.filters[s] ELSE LastStage(s)
  <2>1. StageSetting(s) \subseteq 1 .. n
    BY <1>5 DEF StageSetting
  <2>2. /\ \A i \in OverlaysSetting("filters") : overlays'[i] = overlays[i]
        /\ n + 1 \notin OverlaysSetting("filters")
    <3>1. n + 1 \notin 1 .. n
      BY <1>1
    <3> QED
      BY <1>2, <1>5, <3>1
  <2>3. CASE SaysStage(s, ov)
    <3>1. StageSetting(s)' = StageSetting(s) \cup {n + 1}
      BY <1>2, <1>5, <2>2, <2>3 DEF StageSetting, SaysStage
    <3>2. Max(StageSetting(s)') = n + 1 /\ StageSetting(s)' # {}
      BY <1>1, <2>1, <3>1, Newest
    <3> QED
      BY <1>2, <2>3, <3>2 DEF LastStage
  <2>4. CASE ~SaysStage(s, ov)
    <3>1. StageSetting(s)' = StageSetting(s)
      BY <1>2, <1>5, <2>2, <2>4 DEF StageSetting, SaysStage
    <3>2. StageSetting(s) # {} => Max(StageSetting(s)) \in 1 .. n
      BY <1>1, <2>1, Newest
    <3> QED
      BY <1>2, <1>4, <2>4, <3>1, <3>2 DEF LastStage
  <2> QED
    BY <2>3, <2>4
<1>8. ASSUME NEW x
      PROVE  NamedScalar(x)' = IF SaysScalar(x, ov) THEN ov.body.metadata[x] ELSE NamedScalar(x)
  <2>1. ScalarSetting(x) \subseteq 1 .. n
    BY <1>5 DEF ScalarSetting
  <2>2. /\ \A i \in OverlaysSetting("metadata") : overlays'[i] = overlays[i]
        /\ n + 1 \notin OverlaysSetting("metadata")
    <3>1. n + 1 \notin 1 .. n
      BY <1>1
    <3> QED
      BY <1>2, <1>5, <3>1
  <2>3. CASE SaysScalar(x, ov)
    <3>1. ScalarSetting(x)' = ScalarSetting(x) \cup {n + 1}
      BY <1>2, <1>5, <2>2, <2>3 DEF ScalarSetting, SaysScalar
    <3>2. Max(ScalarSetting(x)') = n + 1 /\ ScalarSetting(x)' # {}
      BY <1>1, <2>1, <3>1, Newest
    <3> QED
      BY <1>2, <2>3, <3>2 DEF NamedScalar
  <2>4. CASE ~SaysScalar(x, ov)
    <3>1. ScalarSetting(x)' = ScalarSetting(x)
      BY <1>2, <1>5, <2>2, <2>4 DEF ScalarSetting, SaysScalar
    <3>2. ScalarSetting(x) # {} => Max(ScalarSetting(x)) \in 1 .. n
      BY <1>1, <2>1, Newest
    <3> QED
      BY <1>2, <1>4, <2>4, <3>1, <3>2 DEF NamedScalar
  <2> QED
    BY <2>3, <2>4
<1> QED
  BY <1>2, <1>6, <1>7, <1>8 DEF n

\* What applying an overlay does to each kind of field.
LEMMA AppliedFields ==
  ASSUME NEW m, NEW ov \in OverlayLayers, ov # Nil
  PROVE  LET r == ApplyOne(m, ov.body) IN
         /\ \A f \in Slots \cup {"prompt"} : r[f] = IF Says(f, ov) THEN ov.body[f] ELSE m[f]
         /\ \A s \in Stages :
              r.filters[s] = IF SaysStage(s, ov) THEN ov.body.filters[s] ELSE m.filters[s]
         /\ \A x \in {"id", "version"} :
              r.metadata[x] = IF SaysScalar(x, ov) THEN ov.body.metadata[x] ELSE m.metadata[x]
<1> DEFINE r == ApplyOne(m, ov.body)
<1>1. /\ \A f \in Slots \cup {"prompt"} : f \in Fields /\ f # "metadata" /\ f # "filters"
      /\ "metadata" \in Fields /\ "filters" \in Fields
  BY NormalizeAssumption DEF Fields
<1>2. /\ \A f \in Slots \cup {"prompt"} : r[f] = IF Says(f, ov) THEN ov.body[f] ELSE m[f]
      /\ r.filters = IF Says("filters", ov) THEN OverlayFilters(m.filters, ov.body.filters) ELSE m.filters
      /\ r.metadata = IF Says("metadata", ov) THEN MergeMetadata(m.metadata, ov.body.metadata)
                                              ELSE m.metadata
  BY <1>1 DEF ApplyOne, Says
<1> HIDE DEF r
<1>3. \A s \in Stages :
        r.filters[s] = IF SaysStage(s, ov) THEN ov.body.filters[s] ELSE m.filters[s]
  BY <1>2 DEF SaysStage, OverlayFilters
<1>4. \A x \in {"id", "version"} :
        r.metadata[x] = IF SaysScalar(x, ov) THEN ov.body.metadata[x] ELSE m.metadata[x]
  BY <1>2 DEF SaysScalar, MergeMetadata, Pick
<1> QED
  BY <1>2, <1>3, <1>4 DEF r

\* The result of an overlay has the types of a spec.
LEMMA AppliedTypes ==
  ASSUME NEW m, NEW ov \in OverlayLayers, ov # Nil,
         m.metadata \in Metadata, m.prompt \in Prompts, m.filters \in Filters,
         \A f \in Slots : m[f] \in Optional
  PROVE  LET r == ApplyOne(m, ov.body) IN
         /\ r.metadata \in Metadata /\ r.prompt \in Prompts /\ r.filters \in Filters
         /\ \A f \in Slots : r[f] \in Optional
<1> DEFINE r == ApplyOne(m, ov.body)
<1>1. /\ DOMAIN ov.body = OverlaySlots \cup {"metadata", "prompt", "filters"}
      /\ ov.body.metadata \in Metadata \cup {Absent}
      /\ ov.body.prompt \in Prompts \cup {Absent}
      /\ ov.body.filters \in [Stages -> Optional \cup {Absent}] \cup {Absent}
      /\ \A f \in OverlaySlots : ov.body[f] \in Optional \cup {Absent}
  BY LayerAssumption
<1>2. /\ \A f \in Slots \cup {"prompt"} : f \in Fields /\ f # "metadata" /\ f # "filters"
      /\ "metadata" \in Fields /\ "filters" \in Fields /\ \A f \in Slots : f # "prompt"
  BY NormalizeAssumption DEF Fields
<1>3. /\ \A f \in Slots \cup {"prompt"} : r[f] = IF Says(f, ov) THEN ov.body[f] ELSE m[f]
      /\ r.filters = IF Says("filters", ov) THEN OverlayFilters(m.filters, ov.body.filters) ELSE m.filters
      /\ r.metadata = IF Says("metadata", ov) THEN MergeMetadata(m.metadata, ov.body.metadata)
                                              ELSE m.metadata
  BY <1>2 DEF ApplyOne, Says
<1> HIDE DEF r
<1>4. r.metadata \in Metadata
  <2>1. Says("metadata", ov) => ov.body.metadata \in Metadata
    BY <1>1 DEF Says, OverlaySets
  <2> QED
    BY <1>3, <2>1 DEF MergeMetadata, Metadata, Pick
<1>5. r.filters \in Filters
  <2>1. Says("filters", ov) => ov.body.filters \in [Stages -> Optional \cup {Absent}]
    BY <1>1 DEF Says, OverlaySets
  <2>2. Says("filters", ov) => OverlayFilters(m.filters, ov.body.filters) \in Filters
    BY <2>1 DEF OverlayFilters, Filters
  <2> QED
    BY <1>3, <2>2
<1>6. r.prompt \in Prompts
  BY <1>1, <1>3 DEF Says, OverlaySets
<1>7. \A f \in Slots : r[f] \in Optional
  <2>1. ASSUME NEW f \in Slots, Says(f, ov) PROVE ov.body[f] \in Optional
    BY <1>1, <1>2, <2>1 DEF Says, OverlaySets
  <2> QED
    BY <1>3, <2>1
<1> QED
  BY <1>4, <1>5, <1>6, <1>7 DEF r

\* An overlay more.
LEMMA ApplyOverlayKeeps == NormalizeInv /\ ApplyOverlay => NormalizeInv'
<1> SUFFICES ASSUME NormalizeInv, ApplyOverlay PROVE NormalizeInv'
  OBVIOUS
<1> USE NormalizeAssumption
<1>0. /\ TypeOK /\ Accepted /\ LayersFolded /\ pc = "overlays" /\ Len(overlays) < nOverlays
      /\ nOverlays <= MaxOverlayCount
  BY DEF NormalizeInv, ApplyOverlay
<1>1. PICK ov \in OverlayLayers :
        /\ overlays' = Append(overlays, ov)
        /\ ov = Nil => merged' = merged /\ prov' = prov
        /\ ov # Nil => /\ merged' = ApplyOne(merged, ov.body)
                       /\ prov' = Attribute({f \in Fields : OverlaySets(f, ov.body)},
                                            FromOverlay(Len(overlays)))
  BY DEF ApplyOverlay
<1>2. UNCHANGED <<pc, nParents, nOverlays, parents, base, outcome, errs, attribution>>
  BY DEF ApplyOverlay
<1>n. Len(overlays) \in Nat /\ nOverlays \in Nat
  BY <1>0 DEF TypeOK
<1>3. /\ overlays' \in Seq(OverlayLayers) /\ Len(overlays') = Len(overlays) + 1
      /\ \A f : /\ Says(f, ov) => /\ LastValue(f)' = ov.body[f]
                                  /\ LastSource(f)' = FromOverlay(Len(overlays))
                /\ ~Says(f, ov) => LastValue(f)' = LastValue(f) /\ LastSource(f)' = LastSource(f)
      /\ \A s : LastStage(s)' = IF SaysStage(s, ov) THEN ov.body.filters[s] ELSE LastStage(s)
      /\ \A x : NamedScalar(x)' = IF SaysScalar(x, ov) THEN ov.body.metadata[x] ELSE NamedScalar(x)
  BY <1>0, <1>1, <1>2, OneMoreOverlay
<1>4. /\ \A f \in Slots \cup {"prompt"} : merged'[f] = IF Says(f, ov) THEN ov.body[f] ELSE merged[f]
      /\ \A s \in Stages :
           merged'.filters[s] = IF SaysStage(s, ov) THEN ov.body.filters[s] ELSE merged.filters[s]
      /\ \A x \in {"id", "version"} :
           merged'.metadata[x] = IF SaysScalar(x, ov) THEN ov.body.metadata[x] ELSE merged.metadata[x]
      /\ \A f \in Fields : prov'[f] = IF Says(f, ov) THEN FromOverlay(Len(overlays)) ELSE prov[f]
  <2>1. CASE ov = Nil
    BY <1>1, <2>1 DEF Says, SaysStage, SaysScalar
  <2>2. CASE ov # Nil
    <3>1. \A f \in Fields : prov'[f] = IF Says(f, ov) THEN FromOverlay(Len(overlays)) ELSE prov[f]
      BY <1>1, <2>2 DEF Attribute, Says
    <3> QED
      <4>1. LET r == ApplyOne(merged, ov.body) IN
            /\ \A f \in Slots \cup {"prompt"} : r[f] = IF Says(f, ov) THEN ov.body[f] ELSE merged[f]
            /\ \A s \in Stages :
                 r.filters[s] = IF SaysStage(s, ov) THEN ov.body.filters[s] ELSE merged.filters[s]
            /\ \A x \in {"id", "version"} :
                 r.metadata[x] = IF SaysScalar(x, ov) THEN ov.body.metadata[x] ELSE merged.metadata[x]
        BY <2>2, AppliedFields
      <4>2. merged' = ApplyOne(merged, ov.body)
        BY <1>1, <2>2
      <4> QED
        BY <3>1, <4>1, <4>2
  <2> QED
    BY <2>1, <2>2
<1>5. TypeOK'
  <2>1. /\ merged'.metadata \in Metadata /\ merged'.prompt \in Prompts /\ merged'.filters \in Filters
        /\ \A f \in Slots : merged'[f] \in Optional
    BY <1>0, <1>1, AppliedTypes DEF TypeOK
  <2>2. FromOverlay(Len(overlays)) \in Provenances
    <3>1. Len(overlays) \in 0 .. MaxParents + MaxOverlayCount
      BY <1>0, <1>n
    <3> QED
      BY <3>1 DEF FromOverlay, Provenances
  <2>3. prov' \in [Fields -> Provenances]
    <3>1. \A f \in Fields : prov'[f] \in Provenances
      BY <1>0, <1>4, <2>2 DEF TypeOK
    <3> QED
      BY <1>0, <1>1, <3>1 DEF Attribute, TypeOK
  <2>4. Len(overlays') <= nOverlays'
    BY <1>0, <1>2, <1>3, <1>n
  <2> QED
    BY <1>0, <1>2, <1>3, <2>1, <2>3, <2>4 DEF TypeOK
<1>6. LayersFolded'
  <2>1. \A f \in Slots \cup {"prompt"} : merged'[f] = LastValue(f)'
    BY <1>0, <1>3, <1>4 DEF LayersFolded
  <2>2. \A s \in Stages : merged'.filters[s] = LastStage(s)'
    BY <1>0, <1>3, <1>4 DEF LayersFolded
  <2>3. \A x \in {"id", "version"} : merged'.metadata[x] = NamedScalar(x)'
    BY <1>0, <1>3, <1>4 DEF LayersFolded
  <2>4. \A f \in Fields : prov'[f] = LastSource(f)'
    BY <1>0, <1>3, <1>4 DEF LayersFolded
  <2> QED
    BY <1>0, <1>2, <2>1, <2>2, <2>3, <2>4 DEF LayersFolded
<1>7. Accepted'
  BY <1>0, <1>2 DEF Accepted
<1> QED
  BY <1>0, <1>2, <1>5, <1>6, <1>7 DEF NormalizeInv

\* The steps behind the folds change no layer, value or source.
LEMMA OthersKeep ==
  NormalizeInv /\ (RejectOverlays \/ OverlaysApplied \/ Validate \/ ScanLockedDrift
                   \/ UNCHANGED vars) => NormalizeInv'
<1> SUFFICES ASSUME NormalizeInv,
                    RejectOverlays \/ OverlaysApplied \/ Validate \/ ScanLockedDrift
                      \/ UNCHANGED vars
             PROVE  NormalizeInv'
  OBVIOUS
<1>1. UNCHANGED <<nParents, nOverlays, parents, base, overlays, merged, prov>>
  BY DEF RejectOverlays, OverlaysApplied, Validate, ScanLockedDrift, Fail, vars
<1>2. (pc = "merge" <=> pc' = "merge") /\ pc' \in {"merge", "overlays", "validate", "scan", "done"}
  BY DEF RejectOverlays, OverlaysApplied, Validate, ScanLockedDrift, Fail, vars, NormalizeInv, TypeOK
<1>3. outcome' \in {"running", "ok", "ErrCompositionLimit", "invalid", "locked"}
  BY DEF RejectOverlays, OverlaysApplied, Validate, ScanLockedDrift, Fail, vars, NormalizeInv, TypeOK
<1>4. TypeOK'
  BY <1>1, <1>2, <1>3 DEF NormalizeInv, TypeOK
<1>5. ParentsFolded => ParentsFolded'
  BY <1>1 DEF ParentsFolded, LastParent, ParentScalar, ParentSource, ParentsSetting, ParentsNaming
<1>6. LayersFolded => LayersFolded'
  <2>1. /\ \A f : /\ OverlaysSetting(f)' = OverlaysSetting(f) /\ LastSpec(f)' = LastSpec(f)
                  /\ ParentSource(f)' = ParentSource(f)
        /\ \A x : LastScalar(x)' = LastScalar(x)
    BY <1>1 DEF OverlaysSetting, LastSpec, LastParent, ParentSource, ParentsSetting, LastScalar,
                ParentScalar, ParentsNaming
  <2>2. (\A s : StageSetting(s)' = StageSetting(s)) /\ (\A x : ScalarSetting(x)' = ScalarSetting(x))
    BY <1>1, <2>1 DEF StageSetting, ScalarSetting
  <2>3. /\ \A f : LastValue(f)' = LastValue(f) /\ LastSource(f)' = LastSource(f)
        /\ (\A s : LastStage(s)' = LastStage(s)) /\ (\A x : NamedScalar(x)' = NamedScalar(x))
    BY <1>1, <2>1, <2>2 DEF LastValue, LastSource, LastStage, NamedScalar
  <2> QED
    BY <1>1, <2>3 DEF LayersFolded
<1>7. LockedDrift' = LockedDrift
  BY <1>1 DEF LockedDrift, Drifts
<1>8. Accepted'
  <2>1. (outcome' = "running" <=> pc' # "done")
        /\ (pc' \in {"validate", "scan"} => Len(overlays') = nOverlays')
    BY <1>1 DEF RejectOverlays, OverlaysApplied, Validate, ScanLockedDrift, Fail, vars,
                NormalizeInv, Accepted
  <2>2. outcome' = "ok" => LockedDrift = {} /\ attribution' = AttributeOverlays(overlays)
    BY DEF RejectOverlays, OverlaysApplied, Validate, ScanLockedDrift, Fail, vars, NormalizeInv, Accepted
  <2> QED
    BY <1>1, <1>7, <2>1, <2>2 DEF Accepted
<1> QED
  BY <1>2, <1>4, <1>5, <1>6, <1>8 DEF NormalizeInv

\* The values and the sources are those of the last setter after every layer.
THEOREM NormalizeInvariant == Spec => []NormalizeInv
<1>1. NormalizeInv /\ [Next]_vars => NormalizeInv'
  BY MergeParentKeeps, MergeBaseKeeps, ApplyOverlayKeeps, OthersKeep DEF Next, Returned
<1> QED
  BY <1>1, InitFolded, PTL DEF Spec

\* The state of Normalize is well formed at every step; in particular every source
\* is within the limits.
THEOREM TypeCorrect == Spec => []TypeOK
<1>1. NormalizeInv => TypeOK
  BY DEF NormalizeInv
<1> QED
  BY <1>1, NormalizeInvariant, PTL

\* The value of every field and filter stage of an accepted spec is the one that
\* its last setter gave it.
THEOREM LastSetterWins == Spec => []ValueOfLastSetter
<1>1. NormalizeInv => ValueOfLastSetter
  BY DEF NormalizeInv, Accepted, LayersFolded, ValueOfLastSetter
<1> QED
  BY <1>1, NormalizeInvariant, PTL

\* Overlays keep the identity: what they may name without drift is what the base
\* says, and the base has the last word among the specs.
THEOREM IdentityIsKept == Spec => []OverlaysKeepIdentity
<1>1. NormalizeInv => OverlaysKeepIdentity
  <2> SUFFICES ASSUME NormalizeInv, outcome = "ok"
               PROVE  /\ \A x \in {"id", "version"} : merged.metadata[x] = LastScalar(x)
                      /\ merged.apiVersion = LastSpec("apiVersion").apiVersion
    BY DEF OverlaysKeepIdentity
  <2>1. TypeOK /\ LayersFolded /\ LockedDrift = {}
    BY DEF NormalizeInv, Accepted
  <2>2. DOMAIN overlays = 1 .. Len(overlays) /\ Len(overlays) \in Nat
        /\ \A i \in DOMAIN overlays : overlays[i] \in OverlayLayers
    BY <2>1 DEF TypeOK
  <2>3. ASSUME NEW x \in {"id", "version"} PROVE merged.metadata[x] = LastScalar(x)
    <3>1. CASE ScalarSetting(x) = {}
      BY <2>1, <3>1 DEF LayersFolded, NamedScalar
    <3>2. CASE ScalarSetting(x) # {}
      <4>1. ScalarSetting(x) \subseteq 1 .. Len(overlays)
        BY <2>2 DEF ScalarSetting, OverlaysSetting
      <4>2. PICK i \in ScalarSetting(x) : i = Max(ScalarSetting(x))
        BY <2>2, <3>2, <4>1, Newest
      <4>3. /\ i \in DOMAIN overlays /\ overlays[i] # Nil
            /\ overlays[i].body.metadata # Absent /\ overlays[i].body.metadata[x] # None
        BY <4>2 DEF ScalarSetting, OverlaysSetting, OverlaySets
      <4>4. ~Drifts(x, i)
        <5>1. <<x, i>> \notin LockedDrift /\ <<x, i>> \in {"apiVersion", "id", "version"} \X DOMAIN overlays
          BY <2>1, <4>3
        <5> QED
          BY <5>1 DEF LockedDrift
      <4>5. overlays[i].body.metadata[x] = base.metadata[x]
        BY <4>3, <4>4 DEF Drifts
      <4>6. merged.metadata[x] = overlays[i].body.metadata[x]
        BY <2>1, <3>2, <4>2 DEF LayersFolded, NamedScalar
      <4> QED
        BY <4>3, <4>5, <4>6 DEF LastScalar
    <3> QED
      BY <3>1, <3>2
  <2>4. merged.apiVersion = LastSpec("apiVersion").apiVersion
    <3>1. OverlaysSetting("apiVersion") = {}
      <4>1. ASSUME NEW i \in DOMAIN overlays, overlays[i] # Nil
            PROVE  ~OverlaySets("apiVersion", overlays[i].body)
        <5>1. DOMAIN overlays[i].body = OverlaySlots \cup {"metadata", "prompt", "filters"}
          BY <2>2, <4>1, LayerAssumption
        <5> QED
          BY <5>1, NormalizeAssumption DEF OverlaySets
      <4> QED
        BY <4>1 DEF OverlaysSetting
    <3> QED
      BY <2>1, <3>1, NormalizeAssumption DEF LayersFolded, LastValue
  <2> QED
    BY <2>3, <2>4
<1> QED
  BY <1>1, NormalizeInvariant, PTL

-----------------------------------------------------------------------------
(* The names of the overlays *)

\* How many of the first k overlays of a list are nil.
Nils(ovs, k) == Cardinality({i \in 1 .. k : ovs[i] = Nil})

\* One more overlay adds one to the nil ones or to the others.
LEMMA NilsCount ==
  ASSUME NEW ovs, NEW k \in Nat
  PROVE  /\ Nils(ovs, 0) = 0 /\ Nils(ovs, k) \in Nat
         /\ Nils(ovs, k + 1) = Nils(ovs, k) + (IF ovs[k + 1] = Nil THEN 1 ELSE 0)
<1> DEFINE N(j) == {i \in 1 .. j : ovs[i] = Nil}
<1>1. IsFiniteSet(1 .. k) /\ N(k) \subseteq 1 .. k
  BY FS_Interval
<1>2. IsFiniteSet(N(k)) /\ Cardinality(N(k)) \in Nat
  <2> HIDE DEF N
  <2> QED
    BY <1>1, FS_Subset, FS_CardinalityType
<1>3. N(0) = {}
  OBVIOUS
<1>4. k + 1 \notin N(k) /\ N(k + 1) = IF ovs[k + 1] = Nil THEN N(k) \cup {k + 1} ELSE N(k)
  OBVIOUS
<1>5. Cardinality(N(k + 1)) = Cardinality(N(k)) + (IF ovs[k + 1] = Nil THEN 1 ELSE 0)
  <2> HIDE DEF N
  <2>1. CASE ovs[k + 1] = Nil
    <3>1. Cardinality(N(k) \cup {k + 1}) = Cardinality(N(k)) + 1
      BY <1>2, <1>4, FS_AddElement
    <3> QED
      BY <1>4, <2>1, <3>1
  <2>2. CASE ovs[k + 1] # Nil
    BY <1>2, <1>4, <2>2
  <2> QED
    BY <2>1, <2>2
<1>6. Cardinality({}) = 0
  BY FS_EmptySet
<1> QED
  BY <1>2, <1>3, <1>5, <1>6 DEF Nils

\* Where an overlay is in the attribution: as many places before its own as there
\* are nil ones before it.
LEMMA AttributionAt ==
  ASSUME NEW R, NEW ovs \in Seq(R), NEW q \in DOMAIN ovs, ovs[q] # Nil
  PROVE  AttributeOverlays(ovs)[q - Nils(ovs, q - 1)] = ovs[q]
<1> DEFINE n == Len(ovs)
           Val(g, i) == IF i = 0 THEN <<>>
                        ELSE IF ovs[i] = Nil THEN g[i - 1] ELSE Append(g[i - 1], ovs[i])
           named == CHOOSE g : g = [i \in 0 .. n |-> Val(g, i)]
           Good(m) == \E g \in [0 .. m -> Seq(R)] : \A i \in 0 .. m : g[i] = Val(g, i)
           S == {m \in Nat : m <= n => Good(m)}
<1>1. n \in Nat /\ DOMAIN ovs = 1 .. n /\ \A i \in 1 .. n : ovs[i] \in R
  BY ElementOf
<1>2. Good(0)
  <2>1. PICK z \in [0 .. 0 -> Seq(R)] : z[0] = <<>>
    <3>1. PICK z : z = [i \in 0 .. 0 |-> <<>>]
      OBVIOUS
    <3>2. z \in [0 .. 0 -> Seq(R)] /\ z[0] = <<>>
      BY <3>1
    <3> QED
      BY <3>2
  <2>2. \A i \in 0 .. 0 : i = 0
    OBVIOUS
  <2>3. \A i \in 0 .. 0 : z[i] = Val(z, i)
    BY <2>1, <2>2
  <2> QED
    BY <2>3
<1>3. ASSUME NEW m \in Nat, Good(m), m + 1 <= n PROVE Good(m + 1)
  <2>1. m + 1 \in 1 .. n
    BY <1>1, <1>3
  <2>2. PICK g \in [0 .. m -> Seq(R)] : \A i \in 0 .. m : g[i] = Val(g, i)
    BY <1>3
  <2>3. PICK e : e = IF ovs[m + 1] = Nil THEN g[m] ELSE Append(g[m], ovs[m + 1])
    OBVIOUS
  <2>4. e \in Seq(R)
    <3>1. g[m] \in Seq(R) /\ ovs[m + 1] \in R
      BY <1>1, <1>3, <2>1
    <3>2. Append(g[m], ovs[m + 1]) \in Seq(R)
      BY <3>1
    <3> QED
      BY <2>3, <3>1, <3>2
  <2>5. PICK h \in [0 .. m + 1 -> Seq(R)] : h[m + 1] = e /\ \A i \in 0 .. m : h[i] = g[i]
    <3>1. m + 1 \in 0 .. m + 1 /\ \A i \in 0 .. m : i \in 0 .. m + 1 /\ i # m + 1
      BY <1>3
    <3>2. \A i \in 0 .. m + 1 : i = m + 1 \/ i \in 0 .. m
      BY <1>3
    <3>3. PICK h : h = [i \in 0 .. m + 1 |-> IF i = m + 1 THEN e ELSE g[i]]
      OBVIOUS
    <3>4. h \in [0 .. m + 1 -> Seq(R)]
      BY <2>4, <3>2, <3>3
    <3>5. h[m + 1] = e /\ \A i \in 0 .. m : h[i] = g[i]
      BY <3>1, <3>3
    <3> QED
      BY <3>4, <3>5
  <2>6. ASSUME NEW i \in 0 .. m + 1 PROVE h[i] = Val(h, i)
    <3>1. CASE i = m + 1
      <4>1. i # 0 /\ i - 1 = m /\ h[m] = g[m]
        BY <1>3, <2>5, <3>1
      <4> QED
        BY <2>3, <2>5, <3>1, <4>1
    <3>2. CASE i # m + 1
      <4>1. i \in 0 .. m /\ (i # 0 => i - 1 \in 0 .. m)
        BY <1>3, <3>2
      <4>2. h[i] = g[i] /\ g[i] = Val(g, i) /\ (i # 0 => h[i - 1] = g[i - 1])
        BY <2>2, <2>5, <4>1
      <4> QED
        BY <4>2
    <3> QED
      BY <3>1, <3>2
  <2> QED
    BY <2>6
<1>4. PICK g \in [0 .. n -> Seq(R)] : \A i \in 0 .. n : g[i] = Val(g, i)
  <2> HIDE DEF Good
  <2>1. 0 \in S /\ \A m \in S : m \in Nat => m + 1 \in S
    BY <1>1, <1>2, <1>3
  <2>2. n \in S
    <3> HIDE DEF S
    <3> QED
      BY <1>1, <2>1, SetInduction
  <2>3. Good(n)
    BY <1>1, <2>2
  <2> QED
    BY <2>3 DEF Good
<1>5. g = [i \in 0 .. n |-> Val(g, i)]
  BY <1>4
<1>6. named = [i \in 0 .. n |-> Val(named, i)]
  <2>1. \E h : h = [i \in 0 .. n |-> Val(h, i)]
    BY <1>5
  <2> QED
    BY <2>1, Zenon
<1>7. AttributeOverlays(ovs) = named[n]
  BY Zenon DEF AttributeOverlays
<1> HIDE DEF named
<1>8. \A i \in 0 .. n : named[i] = Val(named, i)
  BY <1>6
<1>9. /\ named[0] = <<>>
      /\ \A i \in 1 .. n : named[i] = IF ovs[i] = Nil THEN named[i - 1] ELSE Append(named[i - 1], ovs[i])
  <2>1. 0 \in 0 .. n /\ \A i \in 1 .. n : i \in 0 .. n /\ i # 0
    BY <1>1
  <2> QED
    BY <1>8, <2>1
<1> DEFINE Placed(k) ==
             /\ named[k] \in Seq(R) /\ Len(named[k]) = k - Nils(ovs, k)
             /\ \A i \in 1 .. k : ovs[i] # Nil =>
                  /\ i - Nils(ovs, i - 1) \in 1 .. Len(named[k])
                  /\ named[k][i - Nils(ovs, i - 1)] = ovs[i]
           P == {k \in Nat : k <= n => Placed(k)}
<1>10. 0 \in P
  <2>1. named[0] \in Seq(R) /\ Len(named[0]) = 0 - Nils(ovs, 0)
    BY <1>9, NilsCount
  <2> QED
    BY <2>1
<1>11. ASSUME NEW k \in P, k \in Nat PROVE k + 1 \in P
  <2> SUFFICES ASSUME k + 1 <= n PROVE Placed(k + 1)
    OBVIOUS
  <2>1. k <= n /\ k + 1 \in 1 .. n /\ (k + 1) - 1 = k
    BY <1>1, <1>11
  <2>2. Placed(k)
    BY <1>11, <2>1
  <2>3. /\ Nils(ovs, k) \in Nat
        /\ Nils(ovs, k + 1) = Nils(ovs, k) + (IF ovs[k + 1] = Nil THEN 1 ELSE 0)
    BY <1>11, NilsCount
  <2>4. CASE ovs[k + 1] = Nil
    <3>1. named[k + 1] = named[k]
      BY <1>9, <2>1, <2>4
    <3>2. \A i \in 1 .. k + 1 : ovs[i] # Nil => i \in 1 .. k
      BY <1>11, <2>4
    <3>3. Len(named[k + 1]) = (k + 1) - Nils(ovs, k + 1)
      BY <1>11, <2>2, <2>3, <2>4, <3>1
    <3> QED
      BY <2>2, <3>1, <3>2, <3>3
  <2>5. CASE ovs[k + 1] # Nil
    <3>1. named[k + 1] = Append(named[k], ovs[k + 1])
      BY <1>9, <2>1, <2>5
    <3>2. named[k] \in Seq(R) /\ ovs[k + 1] \in R /\ Len(named[k]) = k - Nils(ovs, k)
      BY <1>1, <2>1, <2>2
    <3>3. /\ named[k + 1] \in Seq(R) /\ Len(named[k + 1]) = Len(named[k]) + 1
          /\ \A i \in 1 .. Len(named[k]) : named[k + 1][i] = named[k][i]
          /\ named[k + 1][Len(named[k]) + 1] = ovs[k + 1] /\ Len(named[k]) \in Nat
      BY <3>1, <3>2, Appended
    <3>4. Len(named[k + 1]) = (k + 1) - Nils(ovs, k + 1)
      BY <1>11, <2>3, <2>5, <3>2, <3>3
    <3>5. ASSUME NEW i \in 1 .. k + 1, ovs[i] # Nil
          PROVE  /\ i - Nils(ovs, i - 1) \in 1 .. Len(named[k + 1])
                 /\ named[k + 1][i - Nils(ovs, i - 1)] = ovs[i]
      <4>1. CASE i = k + 1
        <5>1. i - Nils(ovs, i - 1) = Len(named[k]) + 1
          BY <1>11, <2>1, <2>3, <3>2, <4>1
        <5> QED
          BY <3>3, <4>1, <5>1
      <4>2. CASE i # k + 1
        <5>1. i \in 1 .. k
          BY <1>11, <4>2
        <5>2. /\ i - Nils(ovs, i - 1) \in 1 .. Len(named[k])
              /\ named[k][i - Nils(ovs, i - 1)] = ovs[i]
          BY <2>2, <3>5, <5>1
        <5>3. i - Nils(ovs, i - 1) \in 1 .. Len(named[k + 1])
          BY <3>3, <5>2
        <5> QED
          BY <3>3, <5>2, <5>3
      <4> QED
        BY <4>1, <4>2
    <3> QED
      BY <3>3, <3>4, <3>5
  <2> QED
    BY <2>4, <2>5
<1>12. n \in P
  <2> HIDE DEF P
  <2> QED
    BY <1>1, <1>10, <1>11, SetInduction
<1>13. Placed(n)
  BY <1>1, <1>12
<1> QED
  BY <1>1, <1>7, <1>13

\* The provenance of every field of an accepted spec names the layer that set it
\* last, and an overlay so named is in the attribution where its step says.
THEOREM ProvenanceIsExact == Spec => []ProvenanceExact
<1>1. NormalizeInv => ProvenanceExact
  <2> SUFFICES ASSUME NormalizeInv, outcome = "ok", NEW f \in Fields
               PROVE  /\ prov[f] = LastSource(f)
                      /\ prov[f].role = "overlay" =>
                           attribution[prov[f].step + 1
                                       - Cardinality({i \in 1 .. prov[f].step : overlays[i] = Nil})]
                             = overlays[prov[f].step + 1]
    BY DEF ProvenanceExact
  <2>1. /\ TypeOK /\ prov[f] = LastSource(f) /\ attribution = AttributeOverlays(overlays)
    BY DEF NormalizeInv, Accepted, LayersFolded
  <2>2. ASSUME prov[f].role = "overlay"
        PROVE  attribution[prov[f].step + 1
                           - Cardinality({i \in 1 .. prov[f].step : overlays[i] = Nil})]
                 = overlays[prov[f].step + 1]
    <3>1. OverlaysSetting(f) # {}
      BY <2>1, <2>2 DEF LastSource, ParentSource, FromBase, FromParent
    <3>2. Len(overlays) \in Nat /\ DOMAIN overlays = 1 .. Len(overlays)
          /\ overlays \in Seq(OverlayLayers)
      BY <2>1 DEF TypeOK
    <3>3. OverlaysSetting(f) \subseteq 1 .. Len(overlays)
      BY <3>2 DEF OverlaysSetting
    <3>4. PICK q \in OverlaysSetting(f) : q = Max(OverlaysSetting(f))
      BY <3>1, <3>2, <3>3, Newest
    <3>5. q \in DOMAIN overlays /\ overlays[q] # Nil /\ q \in Nat
      BY <3>2, <3>3, <3>4 DEF OverlaysSetting
    <3>6. prov[f].step = q - 1 /\ prov[f].step + 1 = q
      BY <2>1, <3>1, <3>4, <3>5 DEF LastSource, FromOverlay
    <3>7. AttributeOverlays(overlays)[q - Nils(overlays, q - 1)] = overlays[q]
      BY <3>2, <3>5, AttributionAt
    <3>8. PICK st \in Int : st = prov[f].step
      BY <3>5, <3>6
    <3>9. st = q - 1 /\ st + 1 = q
      BY <3>6, <3>8
    <3>10. st + 1 - Nils(overlays, st) = q - Nils(overlays, q - 1)
      <4>1. Nils(overlays, st) = Nils(overlays, q - 1)
        BY <3>9
      <4>2. Nils(overlays, q - 1) \in Nat
        BY <3>2, <3>5, NilsCount
      <4> QED
        BY <3>5, <3>8, <3>9, <4>1, <4>2
    <3>11. overlays[st + 1] = overlays[q]
      BY <3>9
    <3>12. attribution[q - Nils(overlays, q - 1)] = overlays[q]
      BY <2>1, <3>7
    <3>13. attribution[st + 1 - Nils(overlays, st)] = overlays[st + 1]
      BY <3>10, <3>11, <3>12, Zenon
    <3>14. attribution[prov[f].step + 1 - Nils(overlays, prov[f].step)]
             = overlays[prov[f].step + 1]
      BY <3>8, <3>13, Zenon
    <3> QED
      BY <3>14 DEF Nils
  <2> QED
    BY <2>1, <2>2
<1> QED
  BY <1>1, NormalizeInvariant, PTL

-----------------------------------------------------------------------------
(* From the documents *)

\* The decoded body has, for each field, a value its decoder gives the node.
LEMMA DecodedField ==
  ASSUME NEW ov \in OverlayLayers \ {Nil}, ov.doc # Nil, NEW f \in AllowedFields
  PROVE  IF f \in DOMAIN ov.doc
         THEN ov.body[f] \in DecodeField(f, ov.doc[f])
         ELSE ov.body[f] = Absent
<1> DEFINE Chosen(g) == CHOOSE x \in DecodeField(g, ov.doc[g]) : TRUE
<1>1. ov.body \in DecodeBody(ov.doc)
  BY DocumentAssumption
<1>2. /\ \A g \in DOMAIN ov.doc : DecodeField(g, ov.doc[g]) # {}
      /\ ov.body = [g \in AllowedFields |-> IF g \in DOMAIN ov.doc THEN Chosen(g) ELSE Absent]
  BY <1>1, Zenon DEF DecodeBody
<1>3. ASSUME f \in DOMAIN ov.doc
      PROVE  Chosen(f) \in DecodeField(f, ov.doc[f])
  BY <1>2, <1>3, Zenon
<1> HIDE DEF Chosen
<1> QED
  BY <1>2, <1>3

\* A slot: the overlay sets it when the document has something to say about it,
\* and to what the document means.
LEMMA DecodedSlot ==
  ASSUME NEW ov \in OverlayLayers \ {Nil}, ov.doc # Nil, NEW f \in OverlaySlots
  PROVE  IF f \in DOMAIN ov.doc /\ (f \in RefLists \/ ov.doc[f] # Null)
         THEN ov.body[f] = Meant(ov.doc[f]) /\ ov.body[f] # Absent
         ELSE ov.body[f] = Absent
<1>1. f \in AllowedFields /\ f # "filters" /\ None # Absent
  BY NormalizeAssumption DEF AllowedFields
<1>2. f \in DOMAIN ov.doc => ov.doc[f] # Absent
  BY DocumentAssumption
<1>3. IF f \in DOMAIN ov.doc THEN ov.body[f] \in DecodeField(f, ov.doc[f])
      ELSE ov.body[f] = Absent
  BY <1>1, DecodedField
<1>4. CASE f \notin DOMAIN ov.doc
  BY <1>3, <1>4
<1>5. CASE f \in DOMAIN ov.doc /\ f \in RefLists
  <2>1. ov.body[f] \in DecodeRefList(ov.doc[f])
    BY <1>1, <1>3, <1>5 DEF DecodeField
  <2> QED
    BY <1>1, <1>2, <1>5, <2>1 DEF DecodeRefList, Meant
<1>6. CASE f \in DOMAIN ov.doc /\ f \notin RefLists
  <2>1. ov.body[f] \in DecodePointer(ov.doc[f])
    BY <1>1, <1>3, <1>6 DEF DecodeField
  <2> QED
    BY <1>1, <1>2, <1>6, <2>1 DEF DecodePointer, Meant
<1> QED
  BY <1>4, <1>5, <1>6

\* The filters: the overlay sets the stages that the block of the document has.
LEMMA DecodedStage ==
  ASSUME NEW ov \in OverlayLayers \ {Nil}, ov.doc # Nil, NEW s \in Stages
  PROVE  IF "filters" \in DOMAIN ov.doc /\ ov.doc["filters"] # Null
         THEN /\ ov.body["filters"] # Absent
              /\ IF s \in DOMAIN ov.doc["filters"]
                 THEN /\ ov.body["filters"][s] = Meant(ov.doc["filters"][s])
                      /\ ov.body["filters"][s] # Absent
                 ELSE ov.body["filters"][s] = Absent
         ELSE ov.body["filters"] = Absent
<1> DEFINE block == ov.doc["filters"]
<1>1. "filters" \in AllowedFields /\ "filters" \notin RefLists /\ None # Absent
  BY NormalizeAssumption, OverlayAssumption DEF AllowedFields
<1>2. IF "filters" \in DOMAIN ov.doc THEN ov.body["filters"] \in DecodeField("filters", block)
      ELSE ov.body["filters"] = Absent
  BY <1>1, DecodedField
<1>3. CASE "filters" \notin DOMAIN ov.doc
  BY <1>2, <1>3
<1>4. ASSUME "filters" \in DOMAIN ov.doc
      PROVE  ov.body["filters"] \in DecodeFilters(block)
  BY <1>1, <1>2, <1>4 DEF DecodeField
<1>5. CASE "filters" \in DOMAIN ov.doc /\ block = Null
  BY <1>4, <1>5, OverlayAssumption DEF DecodeFilters, DecodePointer
<1>6. CASE "filters" \in DOMAIN ov.doc /\ block # Null
  <2>1. /\ Absent \notin [Stages -> Optional \cup {Absent}]
        /\ \A t \in DOMAIN block : block[t] # Absent
    BY <1>6, DocumentAssumption
  <2>2. block # Malformed
    BY <1>4, <1>6 DEF DecodeFilters, DecodePointer
  <2>3. /\ ov.body["filters"] \in [Stages -> Optional \cup {Absent}]
        /\ ov.body["filters"][s] \in IF s \in DOMAIN block THEN DecodeRefList(block[s])
                                      ELSE {Absent}
    BY <1>4, <1>6, <2>2, Zenon DEF DecodeFilters
  <2>4. CASE s \in DOMAIN block
    <3>1. ov.body["filters"][s] \in DecodeRefList(block[s]) /\ block[s] # Absent
      BY <2>1, <2>3, <2>4
    <3>2. ov.body["filters"][s] = Meant(block[s]) /\ ov.body["filters"][s] # Absent
      BY <1>1, <3>1 DEF DecodeRefList, Meant
    <3> QED
      BY <1>6, <2>1, <2>3, <2>4, <3>2
  <2>5. CASE s \notin DOMAIN block
    BY <1>6, <2>1, <2>3, <2>5
  <2> QED
    BY <2>4, <2>5
<1> QED
  BY <1>3, <1>5, <1>6

\* From the overlay files to the spec: the last document that mentions a field
\* or a filter stage decides it, and one that does not changes nothing.
THEOREM DocumentsAreDecisive == Spec => []DocumentsDecide
<1>1. NormalizeInv => DocumentsDecide
  <2> SUFFICES ASSUME NormalizeInv, outcome = "ok", FromFiles
               PROVE  DocumentsDecide
    BY DEF DocumentsDecide
  <2>1. /\ DOMAIN overlays = 1 .. Len(overlays) /\ Len(overlays) \in Nat
        /\ \A i \in DOMAIN overlays : overlays[i] \in OverlayLayers
        /\ \A f \in Slots \cup {"prompt"} : merged[f] = LastValue(f)
        /\ \A s \in Stages : merged.filters[s] = LastStage(s)
    BY DEF NormalizeInv, TypeOK, Accepted, LayersFolded
  <2>2. \A i \in DOMAIN overlays : overlays[i] # Nil =>
          /\ overlays[i] \in OverlayLayers \ {Nil} /\ overlays[i].doc # Nil
          /\ DOMAIN overlays[i].body = OverlaySlots \cup {"metadata", "prompt", "filters"}
    BY <2>1, LayerAssumption DEF FromFiles
  <2>3. ASSUME NEW f \in OverlaySlots
        PROVE  merged[f] = IF Mentions(f) = {} THEN LastSpec(f)[f]
                           ELSE Meant(overlays[Max(Mentions(f))].doc[f])
    <3>1. f \in Slots /\ f # "filters"
      BY NormalizeAssumption
    <3>2. \A i \in DOMAIN overlays : overlays[i] # Nil =>
            (i \in Mentions(f) <=> OverlaySets(f, overlays[i].body))
      BY <2>2, <3>1, DecodedSlot DEF Mentions, OverlaySets
    <3>3. Mentions(f) = OverlaysSetting(f)
      BY <3>2 DEF Mentions, OverlaysSetting
    <3>4. ASSUME Mentions(f) # {}
          PROVE  overlays[Max(Mentions(f))].body[f] = Meant(overlays[Max(Mentions(f))].doc[f])
      <4>1. Mentions(f) \subseteq 1 .. Len(overlays)
        BY <2>1 DEF Mentions
      <4>2. PICK q \in Mentions(f) : q = Max(Mentions(f))
        BY <2>1, <3>4, <4>1, Newest
      <4>3. overlays[q].body[f] = Meant(overlays[q].doc[f])
        BY <2>2, <4>2, DecodedSlot DEF Mentions
      <4> QED
        BY <4>2, <4>3
    <3>5. merged[f] = LastValue(f)
      BY <2>1, <3>1
    <3> QED
      BY <3>3, <3>4, <3>5 DEF LastValue
  <2>4. ASSUME NEW s \in Stages
        PROVE  LET by == {i \in Mentions("filters") : s \in DOMAIN overlays[i].doc["filters"]}
               IN  merged.filters[s] =
                     IF by = {} THEN LastSpec("filters").filters[s]
                     ELSE Meant(overlays[Max(by)].doc["filters"][s])
    <3> DEFINE by == {i \in Mentions("filters") : s \in DOMAIN overlays[i].doc["filters"]}
    <3>1. "filters" \notin RefLists
      BY NormalizeAssumption, OverlayAssumption
    <3>2. ASSUME NEW i \in DOMAIN overlays, overlays[i] # Nil
          PROVE  i \in by <=> /\ OverlaySets("filters", overlays[i].body)
                              /\ overlays[i].body["filters"][s] # Absent
      <4>1. overlays[i] \in OverlayLayers \ {Nil} /\ overlays[i].doc # Nil
            /\ "filters" \in DOMAIN overlays[i].body
        BY <2>2, <3>2
      <4>2. i \in by <=> /\ "filters" \in DOMAIN overlays[i].doc
                         /\ overlays[i].doc["filters"] # Null
                         /\ s \in DOMAIN overlays[i].doc["filters"]
        BY <3>1, <3>2 DEF Mentions
      <4>3. OverlaySets("filters", overlays[i].body) <=>
              /\ overlays[i].body["filters"] # Absent
              /\ \E t \in Stages : overlays[i].body["filters"][t] # Absent
        BY <4>1 DEF OverlaySets
      <4> HIDE DEF by
      <4> QED
        BY <4>1, <4>2, <4>3, DecodedStage
    <3>3. by = StageSetting(s)
      BY <3>2 DEF StageSetting, OverlaysSetting, Mentions
    <3>4. by \subseteq 1 .. Len(overlays)
      BY <2>1 DEF Mentions
    <3>5. ASSUME by # {}
          PROVE  overlays[Max(by)].body["filters"][s] = Meant(overlays[Max(by)].doc["filters"][s])
      <4>1. PICK q \in by : q = Max(by)
        <5> HIDE DEF by
        <5> QED
          BY <2>1, <3>4, <3>5, Newest
      <4>2. q \in DOMAIN overlays /\ overlays[q] # Nil /\ "filters" \in DOMAIN overlays[q].doc
            /\ overlays[q].doc["filters"] # Null /\ s \in DOMAIN overlays[q].doc["filters"]
        BY <3>1, <4>1 DEF Mentions
      <4>3. overlays[q].body["filters"][s] = Meant(overlays[q].doc["filters"][s])
        BY <2>2, <4>2, DecodedStage
      <4> HIDE DEF by
      <4> QED
        BY <4>1, <4>3
    <3>6. merged.filters[s] = LastStage(s)
      BY <2>1
    <3> HIDE DEF by
    <3>7. merged.filters[s] = IF by = {} THEN LastSpec("filters").filters[s]
                              ELSE Meant(overlays[Max(by)].doc["filters"][s])
      BY <3>3, <3>5, <3>6 DEF LastStage
    <3> QED
      BY <3>7 DEF by
  <2> QED
    BY <2>3, <2>4, Zenon DEF DocumentsDecide
<1> QED
  BY <1>1, NormalizeInvariant, PTL

-----------------------------------------------------------------------------
(* The memo of a normalized spec *)

\* The zero value of a NormalizedSpec.
LEMMA MemoInitInv == ASSUME MemoInit PROVE MemoInv
<1>1. MemoTypeOK
  BY CanonicalAssumption DEF MemoInit, MemoTypeOK, Memos, Bytes, Answers, Inside
<1> QED
  BY <1>1 DEF MemoInit, MemoInv, Memos, Inside, Served

\* A new call waits for its once.
LEMMA MemoCall ==
  ASSUME MemoInv, NEW c \in Callers, NEW m \in Memos, Call(c, m)
  PROVE  MemoInv'
<1>1. MemoTypeOK'
  BY DEF MemoInv, MemoTypeOK, Memos, Call, Bytes, Answers, Inside
<1> QED
  BY <1>1 DEF MemoInv, MemoTypeOK, Memos, Call, Inside, Served

\* Who returns from a finished once has what is kept.
LEMMA MemoReturn ==
  ASSUME MemoInv, NEW c \in Callers, NEW m \in Memos, Return(c, m)
  PROVE  MemoInv'
<1>1. MemoTypeOK'
  BY DEF MemoInv, MemoTypeOK, Memos, Return, Bytes, Answers, Inside
<1> QED
  BY <1>1 DEF MemoInv, MemoTypeOK, Memos, Return, Inside, Served

\* A caller that is the first in a once finds no other inside.
LEMMA MemoEnter ==
  ASSUME MemoInv, NEW c \in Callers, NEW m \in Memos, EnterOnce(c, m)
  PROVE  MemoInv'
<1>1. MemoTypeOK'
  BY DEF MemoInv, MemoTypeOK, Memos, EnterOnce, Bytes, Answers, Inside
<1> QED
  BY <1>1 DEF MemoInv, MemoTypeOK, Memos, EnterOnce, Inside, Served

\* Nor does the hash when it is the first to ask for the bytes.
LEMMA MemoInner ==
  ASSUME MemoInv, NEW c \in Callers, InnerOnce(c)
  PROVE  MemoInv'
<1>1. MemoTypeOK'
  BY DEF MemoInv, MemoTypeOK, Memos, InnerOnce, Bytes, Answers, Inside
<1> QED
  BY <1>1 DEF MemoInv, MemoTypeOK, Memos, InnerOnce, Inside, Served

\* The function of the first once: nobody has returned from it, nor the hash been kept.
LEMMA MemoEncode ==
  ASSUME MemoInv, NEW c \in Callers, Encode(c)
  PROVE  MemoInv'
<1>1. MemoTypeOK'
  BY DEF MemoInv, MemoTypeOK, Memos, Encode, Bytes, Answers, Inside
<1> QED
  BY <1>1 DEF MemoInv, MemoTypeOK, Memos, Encode, Inside, Served

\* The function of the second: it hashes what the first has kept.
LEMMA MemoSumUp ==
  ASSUME MemoInv, NEW c \in Callers, SumUp(c)
  PROVE  MemoInv'
<1>1. MemoTypeOK'
  BY DEF MemoInv, MemoTypeOK, Memos, SumUp, Bytes, Answers, Inside
<1> QED
  BY <1>1 DEF MemoInv, MemoTypeOK, Memos, SumUp, Inside, Served

\* An edit changes the spec and nothing that is kept.
LEMMA MemoEdit ==
  ASSUME MemoInv, NEW v \in EditedTrees, Edit(v)
  PROVE  MemoInv'
<1>1. MemoTypeOK'
  BY CanonicalAssumption DEF MemoInv, MemoTypeOK, Memos, Edit, Bytes, Answers, Inside
<1> QED
  BY <1>1 DEF MemoInv, MemoTypeOK, Memos, Edit, Inside, Served

\* The inductive invariant of the memos: however callers and edits interleave, one
\* caller is inside a once, the hash kept is that of the bytes kept, and everyone
\* who returned has what is kept.
THEOREM MemoInvariant == MemoSpec => []MemoInv
<1>1. MemoInit => MemoInv
  BY MemoInitInv
<1>2. MemoInv /\ [MemoNext]_memoVars => MemoInv'
  <2> SUFFICES ASSUME MemoInv, [MemoNext]_memoVars
               PROVE  MemoInv'
    OBVIOUS
  <2>1. CASE UNCHANGED memoVars
    BY <2>1 DEF memoVars, MemoInv, MemoTypeOK, Inside, Served
  <2>2. ASSUME NEW c \in Callers, Step(c)
        PROVE  MemoInv'
    BY <2>2, MemoEnter, MemoReturn, MemoEncode, MemoInner, MemoSumUp DEF Step
  <2> QED
    BY <2>1, <2>2, MemoCall, MemoEdit DEF MemoNext
<1> QED
  BY <1>1, <1>2, PTL DEF MemoSpec

\* OneAnswer of CanonicalMemo: CanonicalJSON gives every caller the same bytes and
\* NormalizedHash the hash of exactly those, for any number of callers and edits and
\* whatever the encoder does.
THEOREM AnswersAgree == MemoSpec => []OneAnswer
<1>1. MemoInv => OneAnswer
  BY DEF MemoInv, OneAnswer
<1> QED
  BY <1>1, MemoInvariant, PTL
=============================================================================
