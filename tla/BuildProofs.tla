---------------------------- MODULE BuildProofs -----------------------------
(***************************************************************************)
(* Proofs about SkillExpansion and Build, for any registry, composition    *)
(* and set of values the factories may build.                              *)
(***************************************************************************)
EXTENDS Build, DataLemmas

SkillRecs == [ref : Refs, value : Contributions]
QueueRecs == [kind : InjectKinds, req : Requirements]

\* The id of a ref is an id.
LEMMA IDOfRef ==
    ASSUME NEW r \in Refs
    PROVE  ID(r) \in IDs
BY DEF Refs, ID, IDs

\* The effective and the declared composition of a kind are lists of refs.
LEMMA CompositionTypes ==
    ASSUME ExpandTypeOK, NEW k \in InjectKinds
    PROVE  Effective(k) \in Seq(Refs) /\ Declared(k) \in Seq(Refs)
BY SkillAssumption DEF ExpandTypeOK, Effective, Declared, InjectKinds, ListKinds

\* The queue of a skill holds exactly what the skill requires.
LEMMA QueueHoldsRequirements ==
    ASSUME NEW c \in Contributions
    PROVE  /\ RequiredBy(c) \in Seq(QueueRecs)
           /\ ToSet(RequiredBy(c)) =
                {[kind |-> "tool_pack", req |-> r] : r \in ToSet(c.tools)}
                \cup {[kind |-> "policy_pack", req |-> r] : r \in ToSet(c.policies)}
                \cup {[kind |-> "output_contract", req |-> r] :
                         r \in IF c.contract = None THEN {} ELSE {c.contract}}
<1> DEFINE Of(k, reqs) == [i \in DOMAIN reqs |-> [kind |-> k, req |-> reqs[i]]]
           T == Of("tool_pack", c.tools)
           P == Of("policy_pack", c.policies)
           C == IF c.contract = None THEN <<>> ELSE Of("output_contract", <<c.contract>>)
<1>1. ASSUME NEW k \in InjectKinds, NEW reqs \in Seq(Requirements)
      PROVE  /\ Of(k, reqs) \in Seq(QueueRecs)
             /\ ToSet(Of(k, reqs)) = {[kind |-> k, req |-> r] : r \in ToSet(reqs)}
  <2>2. DOMAIN Of(k, reqs) = DOMAIN reqs
    OBVIOUS
  <2>4. Of(k, reqs) \in [1 .. Len(reqs) -> QueueRecs]
    BY ElementOf DEF QueueRecs
  <2>1. Of(k, reqs) \in Seq(QueueRecs)
    BY <2>4, FunctionIsSequence, ElementOf
  <2>3. ToSet(Of(k, reqs)) = {[kind |-> k, req |-> r] : r \in ToSet(reqs)}
    BY <2>2 DEF ToSet
  <2> QED
    BY <2>1, <2>3
<1>2. c.tools \in Seq(Requirements) /\ c.policies \in Seq(Requirements)
      /\ c.contract \in Requirements \cup {None}
    BY SkillAssumption
<1>3. T \in Seq(QueueRecs) /\ ToSet(T) = {[kind |-> "tool_pack", req |-> r] : r \in ToSet(c.tools)}
    BY <1>1, <1>2 DEF InjectKinds, ListKinds
<1>4. P \in Seq(QueueRecs) /\ ToSet(P) = {[kind |-> "policy_pack", req |-> r] : r \in ToSet(c.policies)}
    BY <1>1, <1>2 DEF InjectKinds, ListKinds
<1>5. C \in Seq(QueueRecs)
      /\ ToSet(C) = {[kind |-> "output_contract", req |-> r] :
                        r \in IF c.contract = None THEN {} ELSE {c.contract}}
  <2>1. CASE c.contract = None
    BY <2>1 DEF ToSet
  <2>2. CASE c.contract # None
    <3>1. <<c.contract>> \in Seq(Requirements) /\ ToSet(<<c.contract>>) = {c.contract}
      BY <1>2, <2>2 DEF ToSet
    <3>2. C = Of("output_contract", <<c.contract>>)
      BY <2>2
    <3>3. "output_contract" \in InjectKinds
      BY DEF InjectKinds
    <3>4. /\ Of("output_contract", <<c.contract>>) \in Seq(QueueRecs)
          /\ ToSet(Of("output_contract", <<c.contract>>)) =
               {[kind |-> "output_contract", req |-> r] : r \in ToSet(<<c.contract>>)}
      BY <1>1, <3>1, <3>3
    <3> QED
      BY <2>2, <3>1, <3>2, <3>4
  <2> QED
    BY <2>1, <2>2
<1>6. RequiredBy(c) = T \o P \o C
    BY DEF RequiredBy
<1> HIDE DEF T, P, C
<1> DEFINE TP == T \o P
<1>7. TP \in Seq(QueueRecs) /\ ToSet(TP) = ToSet(T) \cup ToSet(P)
    BY <1>3, <1>4, ConcatElements
<1> HIDE DEF TP
<1>9. TP \o C \in Seq(QueueRecs) /\ ToSet(TP \o C) = ToSet(TP) \cup ToSet(C)
    BY <1>5, <1>7, ConcatElements
<1>8. T \o P \o C \in Seq(QueueRecs)
      /\ ToSet(T \o P \o C) = ToSet(T) \cup ToSet(P) \cup ToSet(C)
    BY <1>7, <1>9 DEF TP
<1> QED
    BY <1>3, <1>4, <1>5, <1>6, <1>8

\* A requirement that is new is appended under an id the composition did not
\* have.  It is the last resolved skill's, and no earlier skill requires that
\* id: what an earlier skill requires is met already.
LEMMA AddStep ==
    ASSUME ExpandTypeOK, ExpandTypeOK', AttributionExact, MetOrQueued, QueuedAreRequired,
           NEW kk \in InjectKinds, NEW req \in Refs,
           queue # <<>>, Head(queue) = [kind |-> kk, req |-> req], queue' = Tail(queue),
           resolved' = resolved, spec' = spec,
           Effective(kk)' = Append(Effective(kk), req),
           \A k \in InjectKinds \ {kk} : Effective(k)' = Effective(k),
           \A j \in DOMAIN Effective(kk) : ID(Effective(kk)[j]) # ID(req),
           injectedBy' = [injectedBy EXCEPT ![<<kk, ID(req)>>] = ID(resolved[Len(resolved)].ref)]
    PROVE  AttributionExact' /\ MetOrQueued' /\ QueuedAreRequired'
<1>t. /\ queue \in Seq(QueueRecs) /\ resolved \in Seq(SkillRecs)
      /\ DOMAIN resolved = 1 .. Len(resolved) /\ Len(resolved) \in Nat
      /\ injectedBy \in [InjectKinds \X IDs -> IDs \cup {None}]
      /\ ID(req) \in IDs
    BY DEF ExpandTypeOK, QueueRecs, SkillRecs, ID, IDs, Refs
<1>q. ToSet(queue) = {Head(queue)} \cup ToSet(Tail(queue))
    BY <1>t, HeadOrTail
<1>1. \A k \in InjectKinds : Declared(k)' = Declared(k)
    BY DEF Declared
<1>2. \A i, k : Requires(i, k)' = Requires(i, k)
    BY DEF Requires
<1>3. \A k \in InjectKinds : Effective(k) \in Seq(Refs) /\ Declared(k) \in Seq(Refs)
    BY CompositionTypes
<1> DEFINE n == Len(Effective(kk))
<1>4. /\ Effective(kk)' \in Seq(Refs) /\ Len(Effective(kk)') = n + 1 /\ n \in Nat
      /\ DOMAIN Effective(kk) = 1 .. n /\ DOMAIN (Effective(kk)') = 1 .. n + 1
      /\ \A i \in 1 .. n : Effective(kk)'[i] = Effective(kk)[i]
      /\ Effective(kk)'[n + 1] = req
    BY <1>3, Appended
<1>5. /\ resolved # <<>> /\ req \in Requires(Len(resolved), kk)
      /\ Len(resolved) \in 1 .. Len(resolved)
  <2>1. Head(queue) \in ToSet(queue)
    BY <1>q
  <2>2. resolved # <<>> /\ Head(queue).req \in Requires(Len(resolved), Head(queue).kind)
    BY <2>1 DEF QueuedAreRequired
  <2>3. Len(resolved) # 0
    BY <1>t, <2>2
  <2> QED
    BY <1>t, <2>2, <2>3
<1>6. resolved[Len(resolved)].ref \in Refs /\ ID(resolved[Len(resolved)].ref) \in IDs
  <2>1. resolved[Len(resolved)] \in SkillRecs
    BY <1>t, <1>5, ElementOf
  <2> QED
    BY <2>1, IDOfRef DEF SkillRecs
<1>7. /\ injectedBy'[<<kk, ID(req)>>] = ID(resolved[Len(resolved)].ref)
      /\ injectedBy'[<<kk, ID(req)>>] # None
      /\ \A k \in InjectKinds, id \in IDs :
            <<k, id>> # <<kk, ID(req)>> => injectedBy'[<<k, id>>] = injectedBy[<<k, id>>]
    BY <1>t, <1>6, SkillAssumption
<1>8. ASSUME NEW h \in 1 .. Len(resolved) - 1, NEW r \in Requires(h, kk)
      PROVE  ID(r) # ID(req)
  <2>0. Len(resolved) \in Nat
    BY <1>t
  <2>3. h \in 1 .. Len(resolved) /\ h # Len(resolved)
    BY <2>0
  <2>1. h \in DOMAIN resolved /\ h # Len(resolved)
    BY <1>t, <2>3
  <2>2. Met(kk, r)
    BY <2>1 DEF MetOrQueued
  <2> QED
    BY <2>2 DEF Met
<1>9. ASSUME NEW k \in InjectKinds, NEW r, Met(k, r) PROVE Met(k, r)'
  <2>1. CASE k = kk
    <3>1. PICK j \in 1 .. n : ID(Effective(kk)[j]) = ID(r) /\ SameMeaning(Effective(kk)[j].config, r.config)
      BY <1>4, <1>9, <2>1 DEF Met
    <3>2. j \in 1 .. n + 1 /\ Effective(kk)'[j] = Effective(kk)[j]
      BY <1>4
    <3> QED
      BY <1>4, <2>1, <3>1, <3>2 DEF Met, ID, SameMeaning
  <2>2. CASE k # kk
    BY <1>9, <2>2 DEF Met, ID, SameMeaning
  <2> QED
    BY <2>1, <2>2
<1>10. Met(kk, req)'
  <2>1. n + 1 \in 1 .. n + 1
    BY <1>4
  <2>2. n + 1 \in DOMAIN (Effective(kk)')
    BY <1>4, <2>1
  <2> QED
    BY <1>4, <2>2 DEF Met, ID, SameMeaning
<1>11. MetOrQueued'
  <2> SUFFICES ASSUME NEW i \in 1 .. Len(resolved), NEW k \in InjectKinds, NEW r \in Requires(i, k)
               PROVE  Met(k, r)' \/ (i = Len(resolved) /\ [kind |-> k, req |-> r] \in ToSet(queue'))
    BY <1>t, <1>2 DEF MetOrQueued, ToSet
  <2>1. CASE Met(k, r)
    BY <1>9, <2>1
  <2>2. CASE i = Len(resolved) /\ [kind |-> k, req |-> r] \in ToSet(queue)
    <3>1. CASE [kind |-> k, req |-> r] = [kind |-> kk, req |-> req]
      BY <1>10, <3>1
    <3>2. CASE [kind |-> k, req |-> r] \in ToSet(Tail(queue))
      BY <2>2, <3>2
    <3> QED
      BY <1>q, <2>2, <3>1, <3>2
  <2> QED
    BY <1>t, <2>1, <2>2 DEF MetOrQueued
<1>12. QueuedAreRequired'
  <2>1. \A e \in ToSet(queue') : resolved # <<>> /\ e.req \in Requires(Len(resolved), e.kind)
    BY <1>q DEF QueuedAreRequired
  <2> QED
    BY <1>2, <2>1 DEF QueuedAreRequired, ToSet
<1>13. ASSUME NEW k \in InjectKinds PROVE IsPrefix(Declared(k), Effective(k))'
  <2>1. /\ Len(Declared(k)) <= Len(Effective(k))
        /\ \A i \in 1 .. Len(Declared(k)) : Declared(k)[i] = Effective(k)[i]
    BY <1>3, PrefixByElement DEF AttributionExact
  <2>2. CASE k = kk
    <3>1. /\ Len(Declared(kk)) <= n + 1
          /\ \A i \in 1 .. Len(Declared(kk)) : Declared(kk)[i] = Effective(kk)'[i]
      BY <1>3, <1>4, <2>1, <2>2
    <3>2. IsPrefix(Declared(kk), Effective(kk)')
      BY <1>3, <1>4, <3>1, PrefixByElement
    <3> QED
      BY <1>1, <2>2, <3>2
  <2>3. CASE k # kk
    BY <1>1, <2>3 DEF AttributionExact
  <2> QED
    BY <2>2, <2>3
<1>14. ASSUME NEW k \in InjectKinds, NEW i \in DOMAIN (Effective(k)')
       PROVE  injectedBy'[<<k, ID(Effective(k)'[i])>>] = None <=> i <= Len(Declared(k))
  <2>1. \A j \in DOMAIN Effective(k) :
            injectedBy[<<k, ID(Effective(k)[j])>>] = None <=> j <= Len(Declared(k))
    BY DEF AttributionExact
  <2>2. \A j \in DOMAIN Effective(k) : ID(Effective(k)[j]) \in IDs
    BY <1>3, ElementOf, IDOfRef
  <2>3. CASE k # kk
    BY <1>7, <2>1, <2>2, <2>3
  <2>4. CASE k = kk /\ i \in 1 .. n
    <3>1. Effective(kk)'[i] = Effective(kk)[i] /\ i \in DOMAIN Effective(kk)
      BY <1>4, <2>4
    <3>2. ID(Effective(kk)[i]) # ID(req) /\ ID(Effective(kk)[i]) \in IDs
      BY <2>2, <2>4, <3>1
    <3>3. injectedBy'[<<kk, ID(Effective(kk)[i])>>] = injectedBy[<<kk, ID(Effective(kk)[i])>>]
      BY <1>7, <3>2
    <3> QED
      BY <2>1, <2>4, <3>1, <3>3 DEF ID
  <2>5. CASE k = kk /\ i = n + 1
    <3>1. Len(Declared(kk)) <= n /\ Len(Declared(kk)) \in Nat
      BY <1>3, PrefixByElement DEF AttributionExact
    <3>2. Effective(k)'[i] = req /\ ~(i <= Len(Declared(k)))
      BY <1>4, <2>5, <3>1
    <3> QED
      BY <1>7, <2>5, <3>2
  <2> QED
    BY <1>4, <2>3, <2>4, <2>5
<1>15. ASSUME NEW k \in InjectKinds, NEW id \in IDs, injectedBy'[<<k, id>>] # None
       PROVE  /\ \E i \in DOMAIN (Effective(k)') : ID(Effective(k)'[i]) = id
              /\ \E i \in DOMAIN resolved :
                    /\ ID(resolved[i].ref) = injectedBy'[<<k, id>>]
                    /\ \E r \in Requires(i, k) : ID(r) = id
                    /\ \A h \in 1 .. i - 1 : \A r \in Requires(h, k) : ID(r) # id
  <2>1. CASE <<k, id>> = <<kk, ID(req)>>
    <3>1. n + 1 \in DOMAIN (Effective(k)') /\ ID(Effective(k)'[n + 1]) = id
      BY <1>4, <2>1
    <3>2. Len(resolved) \in DOMAIN resolved
      BY <1>t, <1>5
    <3>3. /\ ID(resolved[Len(resolved)].ref) = injectedBy'[<<k, id>>]
          /\ \E r \in Requires(Len(resolved), k) : ID(r) = id
          /\ \A h \in 1 .. Len(resolved) - 1 : \A r \in Requires(h, k) : ID(r) # id
      BY <1>5, <1>7, <1>8, <2>1
    <3> QED
      BY <3>1, <3>2, <3>3
  <2>2. CASE <<k, id>> # <<kk, ID(req)>>
    <3>1. injectedBy[<<k, id>>] = injectedBy'[<<k, id>>]
      BY <1>7, <2>2
    <3>2. /\ \E i \in DOMAIN Effective(k) : ID(Effective(k)[i]) = id
          /\ \E i \in DOMAIN resolved :
                    /\ ID(resolved[i].ref) = injectedBy[<<k, id>>]
                    /\ \E r \in Requires(i, k) : ID(r) = id
                    /\ \A h \in 1 .. i - 1 : \A r \in Requires(h, k) : ID(r) # id
      BY <1>15, <3>1 DEF AttributionExact
    <3>3. PICK i \in DOMAIN Effective(k) : ID(Effective(k)[i]) = id
      BY <3>2
    <3>4. i \in DOMAIN (Effective(k)') /\ Effective(k)'[i] = Effective(k)[i]
      <4>1. CASE k = kk
        BY <1>4, <4>1
      <4>2. CASE k # kk
        BY <4>2
      <4> QED
        BY <4>1, <4>2
    <3>5. ID(Effective(k)'[i]) = id
      BY <3>3, <3>4
    <3> QED
      BY <3>1, <3>2, <3>4, <3>5
  <2> QED
    BY <2>1, <2>2
<1>16. AttributionExact'
  <2>1. ASSUME NEW k \in InjectKinds, NEW i \in DOMAIN (Effective(k)')
        PROVE  injectedBy'[<<k, ID(Effective(k)[i])'>>] = None <=> i <= Len(Declared(k)')
    BY <1>1, <1>14 DEF ID
  <2>2. ASSUME NEW k \in InjectKinds, NEW id \in IDs, injectedBy'[<<k, id>>] # None
        PROVE  /\ \E i \in DOMAIN (Effective(k)') : ID(Effective(k)[i])' = id
               /\ \E i \in DOMAIN resolved' :
                    /\ ID(resolved[i].ref)' = injectedBy'[<<k, id>>]
                    /\ \E r \in Requires(i, k)' : ID(r) = id
                    /\ \A h \in 1 .. i - 1 : \A r \in Requires(h, k)' : ID(r) # id
    <3>1. \E i \in DOMAIN (Effective(k)') : ID(Effective(k)[i])' = id
      BY <1>15, <2>2
    <3>2. PICK i \in DOMAIN resolved :
                    /\ ID(resolved[i].ref) = injectedBy'[<<k, id>>]
                    /\ \E r \in Requires(i, k) : ID(r) = id
                    /\ \A h \in 1 .. i - 1 : \A r \in Requires(h, k) : ID(r) # id
      BY <1>15, <2>2
    <3> QED
      BY <1>2, <3>1, <3>2 DEF ID
  <2> QED
    BY <1>13, <2>1, <2>2 DEF AttributionExact
<1> QED
    BY <1>11, <1>12, <1>16

\* The head of the queue is the last resolved skill's requirement.
LEMMA HeadRequired ==
    ASSUME ExpandTypeOK, QueuedAreRequired, queue # <<>>
    PROVE  /\ Head(queue) \in QueueRecs
           /\ Head(queue) = [kind |-> Head(queue).kind, req |-> Head(queue).req]
           /\ Tail(queue) \in Seq(QueueRecs)
           /\ ToSet(queue) = {Head(queue)} \cup ToSet(Tail(queue))
           /\ resolved # <<>> /\ Len(resolved) \in DOMAIN resolved
           /\ resolved[Len(resolved)] \in SkillRecs
           /\ resolved[Len(resolved)].ref \in Refs
<1>1. queue \in Seq(QueueRecs) /\ resolved \in Seq(SkillRecs)
    BY DEF ExpandTypeOK, QueueRecs, SkillRecs
<1>2. /\ Tail(queue) \in Seq(QueueRecs) /\ Head(queue) \in QueueRecs
      /\ ToSet(queue) = {Head(queue)} \cup ToSet(Tail(queue))
    BY <1>1, HeadOrTail
<1>3. resolved # <<>>
    BY <1>2 DEF QueuedAreRequired
<1>4. Len(resolved) \in DOMAIN resolved /\ resolved[Len(resolved)] \in SkillRecs
    BY <1>1, <1>3, ElementOf
<1>5. Head(queue) = [kind |-> Head(queue).kind, req |-> Head(queue).req]
    BY <1>2 DEF QueueRecs
<1> QED
    BY <1>2, <1>3, <1>4, <1>5 DEF SkillRecs

\* A requirement that the composition meets already leaves the queue.
LEMMA KeepStep ==
    ASSUME ExpandTypeOK, AttributionExact, MetOrQueued, QueuedAreRequired,
           queue # <<>>, Met(Head(queue).kind, Head(queue).req), queue' = Tail(queue),
           UNCHANGED <<spec, resolved, lists, contract, injectedBy>>
    PROVE  AttributionExact' /\ MetOrQueued' /\ QueuedAreRequired'
<1>1. /\ Head(queue) = [kind |-> Head(queue).kind, req |-> Head(queue).req]
      /\ ToSet(queue) = {Head(queue)} \cup ToSet(Tail(queue))
    BY HeadRequired
<1>2. /\ \A i, k : Requires(i, k)' = Requires(i, k)
      /\ \A k : Effective(k)' = Effective(k) /\ Declared(k)' = Declared(k)
    BY DEF Requires, Effective, Declared
<1>3. \A k, r : Met(k, r)' <=> Met(k, r)
    BY <1>2 DEF Met
<1>4. AttributionExact'
    BY <1>2 DEF AttributionExact
<1>5. MetOrQueued'
  <2> SUFFICES ASSUME NEW i \in DOMAIN resolved, NEW k \in InjectKinds, NEW r \in Requires(i, k)
               PROVE  Met(k, r) \/ (i = Len(resolved) /\ [kind |-> k, req |-> r] \in ToSet(queue'))
    BY <1>2, <1>3 DEF MetOrQueued, ToSet
  <2>1. CASE Met(k, r)
    BY <2>1
  <2>2. CASE i = Len(resolved) /\ [kind |-> k, req |-> r] = Head(queue)
    <3>1. k = Head(queue).kind /\ r = Head(queue).req
      BY <2>2
    <3> QED
      BY <3>1
  <2>3. CASE i = Len(resolved) /\ [kind |-> k, req |-> r] \in ToSet(Tail(queue))
    BY <2>3
  <2> QED
    BY <1>1, <2>1, <2>2, <2>3 DEF MetOrQueued
<1>6. QueuedAreRequired'
  <2>1. \A e \in ToSet(queue') : resolved # <<>> /\ e.req \in Requires(Len(resolved), e.kind)
    BY <1>1 DEF QueuedAreRequired
  <2> QED
    BY <1>2, <2>1 DEF QueuedAreRequired, ToSet
<1> QED
    BY <1>4, <1>5, <1>6

\* A resolved skill queues its requirements once those of all earlier skills
\* are met.
LEMMA ResolveStep ==
    ASSUME ExpandTypeOK, AttributionExact, MetOrQueued, queue = <<>>,
           NEW ref \in Refs, NEW c \in Contributions,
           resolved' = Append(resolved, [ref |-> ref, value |-> c]),
           queue' = RequiredBy(c),
           UNCHANGED <<spec, lists, contract, injectedBy>>
    PROVE  AttributionExact' /\ MetOrQueued' /\ QueuedAreRequired'
<1> DEFINE n == Len(resolved)
           rec == [ref |-> ref, value |-> c]
<1>1. resolved \in Seq(SkillRecs) /\ rec \in SkillRecs
    BY DEF ExpandTypeOK, SkillRecs
<1>2. /\ Len(resolved') = n + 1 /\ n \in Nat
      /\ DOMAIN resolved = 1 .. n /\ DOMAIN (resolved') = 1 .. n + 1
      /\ \A i \in 1 .. n : resolved'[i] = resolved[i]
      /\ resolved'[n + 1] = rec
    BY <1>1, Appended
<1>3. \A k : Effective(k)' = Effective(k) /\ Declared(k)' = Declared(k)
    BY DEF Effective, Declared
<1>4. \A k, r : Met(k, r)' <=> Met(k, r)
    BY <1>3 DEF Met
<1>5. \A i \in 1 .. n : \A k : Requires(i, k)' = Requires(i, k)
    BY <1>2 DEF Requires
<1>r. resolved'[Len(resolved')].value = c
    BY <1>2
<1>6. /\ Requires(Len(resolved), "tool_pack")' = ToSet(c.tools)
      /\ Requires(Len(resolved), "policy_pack")' = ToSet(c.policies)
      /\ Requires(Len(resolved), "output_contract")' = IF c.contract = None THEN {} ELSE {c.contract}
    BY <1>r DEF Requires
<1>7. /\ RequiredBy(c) \in Seq(QueueRecs)
      /\ ToSet(RequiredBy(c)) =
                {[kind |-> "tool_pack", req |-> r] : r \in ToSet(c.tools)}
                \cup {[kind |-> "policy_pack", req |-> r] : r \in ToSet(c.policies)}
                \cup {[kind |-> "output_contract", req |-> r] :
                         r \in IF c.contract = None THEN {} ELSE {c.contract}}
    BY QueueHoldsRequirements
<1>8. AttributionExact'
  <2>1. ASSUME NEW k \in InjectKinds, NEW id \in IDs, injectedBy[<<k, id>>] # None
        PROVE  \E i \in DOMAIN (resolved') :
                    /\ ID(resolved'[i].ref) = injectedBy[<<k, id>>]
                    /\ \E r \in Requires(i, k)' : ID(r) = id
                    /\ \A h \in 1 .. i - 1 : \A r \in Requires(h, k)' : ID(r) # id
    <3>1. PICK i \in DOMAIN resolved :
                    /\ ID(resolved[i].ref) = injectedBy[<<k, id>>]
                    /\ \E r \in Requires(i, k) : ID(r) = id
                    /\ \A h \in 1 .. i - 1 : \A r \in Requires(h, k) : ID(r) # id
      BY <2>1 DEF AttributionExact
    <3>2. i \in DOMAIN (resolved') /\ resolved'[i] = resolved[i]
      BY <1>2
    <3>3. Requires(i, k)' = Requires(i, k)
      BY <1>2, <1>5
    <3>4. \A h \in 1 .. i - 1 : Requires(h, k)' = Requires(h, k)
      BY <1>2, <1>5
    <3> QED
      BY <3>1, <3>2, <3>3, <3>4
  <2>2. ASSUME NEW k \in InjectKinds
        PROVE  /\ IsPrefix(Declared(k)', Effective(k)')
               /\ \A i \in DOMAIN (Effective(k)') :
                      injectedBy'[<<k, ID(Effective(k)'[i])>>] = None <=> i <= Len(Declared(k)')
               /\ \A id \in IDs : injectedBy'[<<k, id>>] # None =>
                      \E i \in DOMAIN (Effective(k)') : ID(Effective(k)'[i]) = id
    BY <1>3 DEF AttributionExact
  <2>3. ASSUME NEW k \in InjectKinds
        PROVE  /\ IsPrefix(Declared(k)', Effective(k)')
               /\ \A i \in DOMAIN (Effective(k)') :
                      injectedBy'[<<k, ID(Effective(k)'[i])>>] = None <=> i <= Len(Declared(k)')
               /\ \A id \in IDs : injectedBy'[<<k, id>>] # None =>
                    /\ \E i \in DOMAIN (Effective(k)') : ID(Effective(k)'[i]) = id
                    /\ \E i \in DOMAIN (resolved') :
                          /\ ID(resolved'[i].ref) = injectedBy'[<<k, id>>]
                          /\ \E r \in Requires(i, k)' : ID(r) = id
                          /\ \A h \in 1 .. i - 1 : \A r \in Requires(h, k)' : ID(r) # id
    <3>1. injectedBy' = injectedBy
      OBVIOUS
    <3> QED
      BY <2>1, <2>2, <3>1
  <2> QED
    BY <2>3, Zenon DEF AttributionExact
<1>9. MetOrQueued'
  <2> SUFFICES ASSUME NEW i \in 1 .. n + 1, NEW k \in InjectKinds, NEW r \in Requires(i, k)'
               PROVE  Met(k, r) \/ (i = n + 1 /\ [kind |-> k, req |-> r] \in ToSet(RequiredBy(c)))
    BY <1>2, <1>4 DEF MetOrQueued
  <2>1. CASE i \in 1 .. n
    <3>1. r \in Requires(i, k) /\ ToSet(queue) = {}
      BY <1>5, <2>1 DEF ToSet
    <3> QED
      BY <1>2, <2>1, <3>1 DEF MetOrQueued
  <2>2. CASE i = n + 1
    <3>0. i = Len(resolved')
      BY <1>2, <2>2
    <3>1. CASE k = "tool_pack"
      BY <1>6, <1>7, <2>2, <3>0, <3>1
    <3>2. CASE k = "policy_pack"
      BY <1>6, <1>7, <2>2, <3>0, <3>2
    <3>3. CASE k = "output_contract"
      BY <1>6, <1>7, <2>2, <3>0, <3>3
    <3> QED
      BY <3>1, <3>2, <3>3 DEF InjectKinds, ListKinds
  <2> QED
    BY <1>2, <2>1, <2>2
<1>10. QueuedAreRequired'
  <2>1. resolved' # <<>>
    BY <1>1, <1>2
  <2>2. ASSUME NEW e \in ToSet(RequiredBy(c)) PROVE e.req \in Requires(Len(resolved), e.kind)'
    BY <1>6, <1>7 DEF InjectKinds, ListKinds
  <2> QED
    BY <2>1, <2>2 DEF QueuedAreRequired
<1> QED
    BY <1>8, <1>9, <1>10

\* A step that leaves the expansion alone, and takes nothing out of the
\* registry, keeps its invariant.
LEMMA SameExpansion ==
    ASSUME ExpandTypeOK, AttributionExact, MetOrQueued, QueuedAreRequired, SkillsInOrder,
           UNCHANGED <<spec, expandVars>>, registered \subseteq registered'
    PROVE  /\ ExpandTypeOK' /\ AttributionExact' /\ MetOrQueued' /\ QueuedAreRequired'
           /\ SkillsInOrder'
<1>1. /\ \A i, k : Requires(i, k)' = Requires(i, k)
      /\ \A k : Effective(k)' = Effective(k) /\ Declared(k)' = Declared(k)
    BY DEF Requires, Effective, Declared, expandVars
<1>2. \A k, r : Met(k, r)' <=> Met(k, r)
    BY <1>1 DEF Met
<1>3. ExpandTypeOK' /\ SkillsInOrder'
    BY DEF ExpandTypeOK, SkillsInOrder, expandVars
<1>4. AttributionExact'
    BY <1>1 DEF AttributionExact, expandVars
<1>5. MetOrQueued' /\ QueuedAreRequired'
    BY <1>1, <1>2 DEF MetOrQueued, QueuedAreRequired, expandVars, ToSet
<1> QED
    BY <1>3, <1>4, <1>5

\* A step of the expansion that returns an error.
LEMMA FailKeepsExpandInv ==
    ASSUME ExpandInv, NEW status, NEW what, status # "ok", ExpandFails(status, what)
    PROVE  ExpandInv'
<1>1. Settled'
    BY DEF ExpandFails, Fail, Outcome, Settled
<1> QED
    BY <1>1, SameExpansion DEF ExpandInv, ExpandFails

\* A step within the expansion: the skills are not all merged yet.
LEMMA ContinueKeepsSettled ==
    ASSUME Settled, Continue, pc = "skills", queue # <<>> \/ Len(resolved) # Len(spec.skill)
    PROVE  Settled'
BY DEF Settled, Continue

\* The loop of expandSkills resolves one more skill and queues what it requires.
LEMMA ResolveSkillInv ==
    ASSUME ExpandInv, ResolveSkill
    PROVE  ExpandInv'
<1> DEFINE ref == spec.skill[Len(resolved) + 1]
<1>0. spec.skill \in Seq(Refs) /\ resolved \in Seq(SkillRecs)
    BY SkillAssumption DEF ExpandInv, ExpandTypeOK, SkillRecs
<1>1. ref \in Refs /\ Len(resolved) \in Nat /\ Len(spec.skill) \in Nat
    BY <1>0, ElementOf DEF ResolveSkill
<1>2. ASSUME NEW c \in Contributions,
             <<"skill", ID(ref)>> \in registered,
             resolved' = Append(resolved, [ref |-> ref, value |-> c]),
             queue' = RequiredBy(c), Continue, UNCHANGED <<lists, contract, injectedBy>>
      PROVE  ExpandInv'
  <2>1. queue = <<>> /\ Len(resolved) < Len(spec.skill) /\ pc = "skills"
    BY DEF ResolveSkill
  <2>2. spec' = spec /\ registered' = registered
    BY <1>2 DEF Continue
  <2>3. AttributionExact' /\ MetOrQueued' /\ QueuedAreRequired'
    BY <1>1, <1>2, <2>1, <2>2, ResolveStep DEF ExpandInv
  <2>4. [ref |-> ref, value |-> c] \in SkillRecs
    BY <1>1 DEF SkillRecs
  <2>5. /\ resolved' \in Seq(SkillRecs) /\ Len(resolved') = Len(resolved) + 1
        /\ DOMAIN resolved = 1 .. Len(resolved) /\ DOMAIN (resolved') = 1 .. Len(resolved) + 1
        /\ \A i \in 1 .. Len(resolved) : resolved'[i] = resolved[i]
        /\ resolved'[Len(resolved) + 1] = [ref |-> ref, value |-> c]
    BY <1>0, <1>2, <2>4, Appended
  <2>6. queue' \in Seq(QueueRecs)
    BY <1>2, QueueHoldsRequirements
  <2>7. ExpandTypeOK'
    BY <1>2, <2>2, <2>5, <2>6 DEF ExpandInv, ExpandTypeOK, QueueRecs, SkillRecs
  <2>8. SkillsInOrder'
    <3>1. ASSUME NEW i \in 1 .. Len(resolved) + 1
          PROVE  resolved'[i].ref = spec.skill[i] /\ <<"skill", ID(spec.skill[i])>> \in registered
      <4>1. CASE i \in 1 .. Len(resolved)
        BY <2>5, <4>1 DEF ExpandInv, SkillsInOrder
      <4>2. CASE i = Len(resolved) + 1
        BY <1>2, <2>5, <4>2
      <4> QED
        BY <1>1, <4>1, <4>2
    <3> QED
      BY <1>1, <2>1, <2>2, <2>5, <3>1 DEF SkillsInOrder
  <2>9. Settled'
    BY <1>1, <1>2, <2>1, ContinueKeepsSettled DEF ExpandInv
  <2> QED
    BY <2>3, <2>7, <2>8, <2>9 DEF ExpandInv
<1>3. CASE ExpandFails("ErrNotFound", <<"skill", ID(ref)>>)
    BY <1>3, FailKeepsExpandInv
<1>4. CASE ExpandFails("build", <<"skill", ID(ref)>>)
    BY <1>4, FailKeepsExpandInv
<1>5. CASE ExpandFails("skill_empty_contribution", <<"skill", ID(ref)>>)
    BY <1>5, FailKeepsExpandInv
<1> QED
    BY <1>2, <1>3, <1>4, <1>5 DEF ResolveSkill

\* The merge of a tool pack or a policy pack.
LEMMA InjectRequiredInv ==
    ASSUME ExpandInv, InjectRequired
    PROVE  ExpandInv'
<1>k. PICK k, req : k = Head(queue).kind /\ req = Head(queue).req
    OBVIOUS
<1> DEFINE skill == resolved[Len(resolved)].ref
           old   == First(k, req)
<1>0. pc = "skills" /\ queue # <<>> /\ k \in ListKinds /\ k \in InjectKinds
    BY <1>k DEF InjectRequired, InjectKinds
<1>1. /\ Head(queue) \in QueueRecs /\ Head(queue) = [kind |-> k, req |-> req]
      /\ Tail(queue) \in Seq(QueueRecs) /\ skill \in Refs
    BY <1>k, <1>0, HeadRequired DEF ExpandInv
<1>2. /\ lists[k] \in Seq(Refs) /\ lists \in [ListKinds -> Seq(Refs)]
      /\ injectedBy \in [InjectKinds \X IDs -> IDs \cup {None}]
      /\ Effective(k) = lists[k]
    BY <1>0 DEF ExpandInv, ExpandTypeOK, Effective
<1>3. CASE ~BadID(req) /\ Existing(k, req) = {} /\ Inject(k, req, skill)
  <2>1. req \in Refs
    BY <1>1, <1>3 DEF BadID, QueueRecs, Requirements, Refs
  <2>2. /\ spec' = spec /\ resolved' = resolved /\ contract' = contract /\ queue' = Tail(queue)
        /\ registered' = registered
        /\ injectedBy' = [injectedBy EXCEPT ![<<k, ID(req)>>] = ID(skill)]
        /\ lists' = [lists EXCEPT ![k] = Append(lists[k], req)]
    BY <1>3 DEF Inject, Continue
  <2>3. lists' \in [ListKinds -> Seq(Refs)] /\ lists'[k] = Append(lists[k], req)
    BY <1>0, <1>2, <2>1, <2>2, Appended
  <2>4. ID(req) \in IDs /\ ID(skill) \in IDs
    BY <1>1, <2>1, IDOfRef
  <2>5. ExpandTypeOK'
    BY <1>0, <1>1, <1>2, <2>2, <2>3, <2>4 DEF ExpandInv, ExpandTypeOK, QueueRecs
  <2>6. Effective(k)' = Append(Effective(k), req)
    BY <1>0, <1>2, <2>3 DEF Effective
  <2>7. \A kk \in InjectKinds \ {k} : Effective(kk)' = Effective(kk)
    BY <1>2, <2>2 DEF Effective
  <2>8. \A j \in DOMAIN Effective(k) : ID(Effective(k)[j]) # ID(req)
    BY <1>2, <1>3 DEF Existing, ID
  <2>9. AttributionExact' /\ MetOrQueued' /\ QueuedAreRequired'
    BY <1>0, <1>1, <2>1, <2>2, <2>5, <2>6, <2>7, <2>8, AddStep DEF ExpandInv
  <2>10. SkillsInOrder'
    BY <2>2 DEF ExpandInv, SkillsInOrder
  <2>11. Settled'
    BY <1>0, <1>3, ContinueKeepsSettled DEF Inject, ExpandInv
  <2> QED
    BY <2>5, <2>9, <2>10, <2>11 DEF ExpandInv
<1>4. CASE /\ Existing(k, req) # {} /\ old.version = req.version
           /\ SameConfig(old.config, req.config) /\ Keep(k, req)
  <2>1. Existing(k, req) \subseteq Nat /\ Existing(k, req) \subseteq DOMAIN lists[k]
    BY <1>2, ElementOf DEF Existing
  <2>2. Min(Existing(k, req)) \in Existing(k, req)
    BY <1>4, <2>1, MinLeast
  <2>3. /\ Min(Existing(k, req)) \in DOMAIN Effective(k)
        /\ Effective(k)[Min(Existing(k, req))] = old /\ old.name = req.name
    BY <1>2, <2>1, <2>2 DEF Existing, First
  <2>4. Met(k, req)
    BY <1>4, <2>3 DEF Met, ID, SameMeaning, SameConfig
  <2>5. /\ UNCHANGED <<registered, spec, resolved, lists, contract, injectedBy>>
        /\ queue' = Tail(queue)
    BY <1>4 DEF Keep, Continue
  <2>6. AttributionExact' /\ MetOrQueued' /\ QueuedAreRequired'
    BY <1>k, <1>0, <2>4, <2>5, KeepStep DEF ExpandInv
  <2>7. ExpandTypeOK'
    BY <1>1, <2>5 DEF ExpandInv, ExpandTypeOK, QueueRecs
  <2>8. SkillsInOrder'
    BY <2>5 DEF ExpandInv, SkillsInOrder
  <2>9. Settled'
    BY <1>0, <1>4, ContinueKeepsSettled DEF Keep, ExpandInv
  <2> QED
    BY <2>6, <2>7, <2>8, <2>9 DEF ExpandInv
<1>5. CASE ExpandFails("bad_id", None)
    BY <1>5, FailKeepsExpandInv
<1>6. CASE ExpandFails("skill_conflict_version_divergence", <<k, ID(req)>>)
    BY <1>6, FailKeepsExpandInv
<1>7. CASE ExpandFails("skill_conflict_config_divergence", <<k, ID(req)>>)
    BY <1>7, FailKeepsExpandInv
<1> QED
    BY <1>k, <1>3, <1>4, <1>5, <1>6, <1>7 DEF InjectRequired

\* The merge of an output contract.
LEMMA InjectOutputContractInv ==
    ASSUME ExpandInv, InjectOutputContract
    PROVE  ExpandInv'
<1>k. PICK req : req = Head(queue).req
    OBVIOUS
<1> DEFINE skill == resolved[Len(resolved)].ref
           oc    == "output_contract"
<1>0. pc = "skills" /\ queue # <<>> /\ Head(queue).kind = oc /\ oc \in InjectKinds /\ oc \notin ListKinds
    BY DEF InjectOutputContract, InjectKinds, ListKinds
<1>1. /\ Head(queue) \in QueueRecs /\ Head(queue) = [kind |-> oc, req |-> req]
      /\ Tail(queue) \in Seq(QueueRecs) /\ skill \in Refs
    BY <1>k, <1>0, HeadRequired DEF ExpandInv
<1>2. injectedBy \in [InjectKinds \X IDs -> IDs \cup {None}]
    BY DEF ExpandInv, ExpandTypeOK
<1>3. CASE /\ ~BadID(req) /\ contract = None /\ contract' = req
           /\ injectedBy' = [injectedBy EXCEPT ![<<oc, ID(req)>>] = ID(skill)]
           /\ queue' = Tail(queue) /\ Continue /\ UNCHANGED <<resolved, lists>>
  <2>1. req \in Refs
    BY <1>1, <1>3 DEF BadID, QueueRecs, Requirements, Refs
  <2>2. spec' = spec /\ registered' = registered
    BY <1>3 DEF Continue
  <2>4. ID(req) \in IDs /\ ID(skill) \in IDs
    BY <1>1, <2>1, IDOfRef
  <2>5. ExpandTypeOK'
    BY <1>0, <1>1, <1>2, <1>3, <2>1, <2>2, <2>4 DEF ExpandInv, ExpandTypeOK, QueueRecs
  <2>6. Effective(oc) = <<>> /\ Effective(oc)' = <<req>>
    BY <1>0, <1>3, <2>1, SkillAssumption DEF Effective
  <2>7. Effective(oc)' = Append(Effective(oc), req)
    <3>1. Append(<<>>, req) = <<req>>
      OBVIOUS
    <3> QED
      BY <2>6, <3>1
  <2>8. \A kk \in InjectKinds \ {oc} : Effective(kk)' = Effective(kk)
    BY <1>3 DEF Effective, InjectKinds
  <2>9. \A j \in DOMAIN Effective(oc) : ID(Effective(oc)[j]) # ID(req)
    BY <2>6
  <2>10. AttributionExact' /\ MetOrQueued' /\ QueuedAreRequired'
    BY <1>0, <1>1, <1>3, <2>1, <2>2, <2>5, <2>7, <2>8, <2>9, AddStep DEF ExpandInv
  <2>11. SkillsInOrder'
    BY <1>3, <2>2 DEF ExpandInv, SkillsInOrder
  <2>12. Settled'
    BY <1>0, <1>3, ContinueKeepsSettled DEF ExpandInv
  <2> QED
    BY <2>5, <2>10, <2>11, <2>12 DEF ExpandInv
<1>4. CASE /\ contract # None /\ ID(contract) = ID(req)
           /\ SameConfig(contract.config, req.config) /\ Keep(oc, req)
  <2>1. Effective(oc) = <<contract>>
    BY <1>0, <1>4 DEF Effective
  <2>2. 1 \in DOMAIN Effective(oc) /\ Effective(oc)[1] = contract
    BY <2>1
  <2>4. Met(oc, req)
    BY <1>4, <2>2 DEF Met, SameMeaning, SameConfig
  <2>5. /\ UNCHANGED <<registered, spec, resolved, lists, contract, injectedBy>>
        /\ queue' = Tail(queue)
    BY <1>4 DEF Keep, Continue
  <2>6. AttributionExact' /\ MetOrQueued' /\ QueuedAreRequired'
    BY <1>k, <1>0, <2>4, <2>5, KeepStep DEF ExpandInv
  <2>7. ExpandTypeOK'
    BY <1>1, <2>5 DEF ExpandInv, ExpandTypeOK, QueueRecs
  <2>8. SkillsInOrder'
    BY <2>5 DEF ExpandInv, SkillsInOrder
  <2>9. Settled'
    BY <1>0, <1>4, ContinueKeepsSettled DEF Keep, ExpandInv
  <2> QED
    BY <2>6, <2>7, <2>8, <2>9 DEF ExpandInv
<1>5. CASE ExpandFails("bad_id", None)
    BY <1>5, FailKeepsExpandInv
<1>6. CASE ExpandFails(ContractCollision, <<oc, ID(req)>>)
  <2>1. ContractCollision # "ok"
    BY DEF ContractCollision
  <2> QED
    BY <1>6, <2>1, FailKeepsExpandInv
<1>7. CASE ExpandFails("config_not_comparable", <<oc, ID(req)>>)
    BY <1>7, FailKeepsExpandInv
<1> QED
    BY <1>k, <1>3, <1>4, <1>5, <1>6, <1>7 DEF InjectOutputContract

\* A step of the expansion keeps its invariant, in the stage on its own and
\* within a build.
LEMMA ExpandStepInv ==
    ASSUME ExpandInv, ExpandStep
    PROVE  ExpandInv'
<1>1. CASE ResolveOutputContract
  <2>1. CASE /\ contract # None => <<"output_contract", ID(contract)>> \in registered
             /\ pc' = "resolve"
             /\ UNCHANGED <<registered, spec, expandVars, outcome>>
    <3>1. Settled'
      BY <1>1, <2>1 DEF Settled, ResolveOutputContract, expandVars
    <3> QED
      BY <2>1, <3>1, SameExpansion DEF ExpandInv
  <2>2. CASE ExpandFails("ErrNotFound", <<"output_contract", ID(contract)>>)
    BY <2>2, FailKeepsExpandInv
  <2>3. CASE ExpandFails("build", <<"output_contract", ID(contract)>>)
    BY <2>3, FailKeepsExpandInv
  <2> QED
    BY <1>1, <2>1, <2>2, <2>3 DEF ResolveOutputContract
<1> QED
    BY <1>1, ResolveSkillInv, InjectRequiredInv, InjectOutputContractInv DEF ExpandStep

\* Before the first step nothing is resolved and nobody is credited.
LEMMA ExpandInitInv ==
    ASSUME ExpandInit, spec \in Compositions, outcome = Outcome("running", None),
           pc \in {"normalize", "skills"}
    PROVE  ExpandInv
<1>1. ExpandTypeOK
    BY SkillAssumption DEF ExpandTypeOK, ExpandInit, ListKinds
<1>2. \A k \in InjectKinds : Effective(k) = Declared(k) /\ Declared(k) \in Seq(Refs)
    BY <1>1, CompositionTypes DEF ExpandInit, Effective, Declared
<1>3. \A k \in InjectKinds, id \in IDs : injectedBy[<<k, id>>] = None
    BY DEF ExpandInit
<1>4. AttributionExact
  <2>1. ASSUME NEW k \in InjectKinds PROVE IsPrefix(Declared(k), Effective(k))
    BY <1>2, PrefixByElement, ElementOf
  <2>2. ASSUME NEW k \in InjectKinds, NEW i \in DOMAIN Effective(k)
        PROVE  injectedBy[<<k, ID(Effective(k)[i])>>] = None /\ i <= Len(Declared(k))
    BY <1>2, <1>3, ElementOf, IDOfRef
  <2> QED
    BY <1>3, <2>1, <2>2 DEF AttributionExact
<1>5. MetOrQueued /\ QueuedAreRequired
    BY DEF MetOrQueued, QueuedAreRequired, ExpandInit, ToSet
<1>6. SkillsInOrder
    BY <1>1, SkillAssumption, ElementOf DEF SkillsInOrder, ExpandInit, ExpandTypeOK
<1>7. Settled
    BY DEF Settled, Outcome
<1> QED
    BY <1>1, <1>4, <1>5, <1>6, <1>7 DEF ExpandInv

\* ExpandInv is an invariant of the skill stage.
THEOREM ExpansionInvariant == ExpandSpec => []ExpandInv
<1>1. ExpandStart => ExpandInv
    BY ExpandInitInv DEF ExpandStart
<1>2. ExpandInv /\ [ExpandNext]_skillVars => ExpandInv'
  <2> SUFFICES ASSUME ExpandInv, [ExpandNext]_skillVars PROVE ExpandInv'
    OBVIOUS
  <2>1. CASE ExpandStep
    BY <2>1, ExpandStepInv
  <2>2. CASE UNCHANGED skillVars
    <3>1. Settled'
      BY <2>2 DEF Settled, ExpandInv, skillVars
    <3>2. UNCHANGED <<spec, expandVars>> /\ registered' = registered
      BY <2>2 DEF skillVars, expandVars
    <3> QED
      BY <3>1, <3>2, SameExpansion DEF ExpandInv
  <2> QED
    BY <2>1, <2>2 DEF ExpandNext, Expanded
<1> QED
    BY <1>1, <1>2, PTL DEF ExpandSpec

\* expandSkills: the author's components come first and unchanged, and a
\* component is attributed to a skill exactly when the author did not declare
\* it, to the first declared skill that requires it.
THEOREM AttributionIsExact == ExpandSpec => []AttributionExact
<1>1. ExpandInv => AttributionExact
    BY DEF ExpandInv
<1> QED
    BY <1>1, ExpansionInvariant, PTL

\* expandSkills: when the stage succeeds every skill's requirements are met.
THEOREM RequirementsAreMet == ExpandSpec => []RequirementsMet
<1>1. ExpandInv => RequirementsMet
  <2> SUFFICES ASSUME ExpandInv, pc = "resolve" PROVE RequirementsMet
    BY DEF RequirementsMet
  <2>1. ToSet(queue) = {}
    BY DEF ExpandInv, Settled, ToSet
  <2> QED
    BY <2>1 DEF ExpandInv, MetOrQueued, RequirementsMet
<1> QED
    BY <1>1, ExpansionInvariant, PTL

-----------------------------------------------------------------------------
(* The build. *)

BuiltRecs(k) == [ref : Refs, value : Buildable(k)]

\* The kinds resolve() handles, as a set.
LEMMA Kinds ==
    ToSet(ResolveOrder) =
        {"provider", "prompt_asset", "tool_pack", "policy_pack", "pre_llm_filter",
         "pre_tool_filter", "post_tool_filter", "budget_profile",
         "telemetry_profile", "credential_resolver", "identity_signer"}
<1>1. DOMAIN ResolveOrder = 1 .. 11
    BY DEF ResolveOrder
<1>2. 1 .. 11 = {1, 2, 3, 4, 5, 6, 7, 8, 9, 10, 11}
    OBVIOUS
<1> QED
    BY <1>1, <1>2 DEF ToSet, ResolveOrder

\* What is wanted is a list of refs.
LEMMA WantedTypes ==
    ASSUME ExpandTypeOK, NEW k \in BuiltKinds
    PROVE  Wanted(k) \in Seq(Refs)
<1>1. k \in AllKinds \ {"output_contract"}
    BY Kinds DEF AllKinds, BuiltKinds
<1> QED
    BY <1>1, BuildAssumption DEF ExpandTypeOK, Wanted, ListKinds

\* A build that returns an error.
LEMMA FailKeepsBuildInv ==
    ASSUME BuildInv, pc # "done", NEW status, NEW what, BuildFails(status, what),
           status \notin {"ok", "running"},
           frozen \/ status = "normalize",
           status = "ErrNotFound" => what \notin registered
    PROVE  BuildInv'
<1>0. /\ UNCHANGED <<spec, expandVars>> /\ registered' = registered
      /\ UNCHANGED <<frozen, built, router, agent>>
      /\ pc' = "done" /\ outcome'.status = status /\ outcome'.what = what
    BY DEF BuildFails, Fail, buildVars, Outcome
<1>1. ExpandInv'
  <2>1. Settled'
    BY <1>0 DEF Settled
  <2> QED
    BY <1>0, <2>1, SameExpansion DEF BuildInv, ExpandInv
<1>2. agent = None
    BY DEF BuildInv, TypeOK
<1>3. TypeOK'
    BY <1>0, <1>1, <1>2 DEF BuildInv, TypeOK, Stages, ExpandInv
<1>4. FrozenByThen' /\ NotFoundIsFinal' /\ AllBuilt' /\ RouterExact'
    BY <1>0 DEF FrozenByThen, NotFoundIsFinal, AllBuilt, RouterExact
<1>5. \A k : Wanted(k)' = Wanted(k)
    BY <1>0 DEF Wanted, expandVars
<1>6. BuiltInOrder'
    BY <1>0, <1>5 DEF BuildInv, BuiltInOrder
<1>7. BindingsResolved'
    BY <1>0 DEF BuildInv, BindingsResolved, Missing, References
<1>8. CapabilitiesMatch' /\ InjectionTraceable'
    BY <1>0, <1>2 DEF CapabilitiesMatch, InjectionTraceable
<1> QED
    BY <1>1, <1>3, <1>4, <1>6, <1>7, <1>8 DEF BuildInv

\* The build moves on to the next stage.
LEMMA GotoKeepsBuildInv ==
    ASSUME BuildInv, pc # "done", NEW stage \in Stages \ {"done"}, Goto(stage),
           built' = built, agent' = agent, frozen' \in BOOLEAN,
           router' \in [ToolNames -> 0 .. Len(built["tool_pack"])],
           Settled', FrozenByThen', AllBuilt', RouterExact',
           stage \in {"normalize", "freeze", "skills"} => pc \in {"normalize", "freeze"}
    PROVE  BuildInv'
<1>0. /\ UNCHANGED <<spec, expandVars>> /\ registered' = registered
      /\ pc' = stage /\ outcome' = outcome
    BY DEF Goto
<1>1. ExpandInv'
    BY <1>0, SameExpansion DEF BuildInv, ExpandInv
<1>2. agent = None /\ outcome.status = "running"
    BY DEF BuildInv, TypeOK
<1>3. TypeOK'
    BY <1>0, <1>1, <1>2 DEF BuildInv, TypeOK, Stages, ExpandInv
<1>4. NotFoundIsFinal'
    BY <1>0, <1>2 DEF NotFoundIsFinal
<1>5. \A k : Wanted(k)' = Wanted(k)
    BY <1>0 DEF Wanted, expandVars
<1>6. BuiltInOrder'
    BY <1>0, <1>5 DEF BuildInv, BuiltInOrder, Stages
<1>7. BindingsResolved'
    BY <1>0 DEF BuildInv, BindingsResolved, Missing, References
<1>8. CapabilitiesMatch' /\ InjectionTraceable'
    BY <1>0, <1>2 DEF CapabilitiesMatch, InjectionTraceable
<1> QED
    BY <1>1, <1>3, <1>4, <1>6, <1>7, <1>8 DEF BuildInv

\* A step that only adds to the registry, while it is not frozen, or freezes it.
LEMMA OthersKeepBuildInv ==
    ASSUME BuildInv, ~frozen,
           UNCHANGED <<spec, pc, expandVars, outcome, built, router, agent>>,
           registered \subseteq registered', registered' \subseteq AllKinds \X IDs,
           frozen' \in BOOLEAN
    PROVE  BuildInv'
<1>1. outcome.status = "running" \/ outcome.status = "normalize"
    BY DEF BuildInv, TypeOK, FrozenByThen
<1>2. agent = None
    BY <1>1 DEF BuildInv, TypeOK
<1>3. ExpandInv'
  <2>1. Settled'
    BY DEF BuildInv, ExpandInv, Settled, expandVars
  <2> QED
    BY <2>1, SameExpansion DEF BuildInv, ExpandInv
<1>4. TypeOK'
    BY <1>1, <1>2, <1>3 DEF BuildInv, TypeOK, ExpandInv
<1>5. \A k : Wanted(k)' = Wanted(k) /\ Pending(k)' = Pending(k)
    BY DEF Wanted, Pending, expandVars
<1>6. FrozenByThen' /\ NotFoundIsFinal' /\ AllBuilt' /\ RouterExact'
    BY <1>1, <1>5
    DEF BuildInv, FrozenByThen, NotFoundIsFinal, AllBuilt, RouterExact
<1>7. BuiltInOrder'
    BY <1>5 DEF BuildInv, BuiltInOrder
<1>8. BindingsResolved'
  <2>1. \A b : Missing(b)' \subseteq Missing(b)
    BY DEF Missing, References
  <2> QED
    BY <2>1 DEF BuildInv, BindingsResolved
<1>9. CapabilitiesMatch' /\ InjectionTraceable'
    BY <1>2 DEF CapabilitiesMatch, InjectionTraceable
<1> QED
    BY <1>3, <1>4, <1>6, <1>7, <1>8, <1>9 DEF BuildInv

\* One component of a kind is built, registered and the next one wanted.
LEMMA BuiltKeepsBuildInv ==
    ASSUME BuildInv, pc \in {"resolve", "mcp"}, NEW k \in BuiltKinds, Pending(k),
           pc = "mcp" => k = "mcp_binding",
           NEW v \in Buildable(k), NEW ref, ref = Wanted(k)[Len(built[k]) + 1],
           <<k, ID(ref)>> \in registered,
           k = "mcp_binding" => Missing(v) = {},
           Built(k, ref, v),
           UNCHANGED <<registered, spec, pc, expandVars, outcome, frozen, router, agent>>
    PROVE  BuildInv'
<1> DEFINE n == Len(built[k])
<1>1. outcome.status = "running" /\ agent = None
    BY DEF BuildInv, TypeOK
<1>2. ExpandInv'
  <2>1. Settled'
    BY DEF BuildInv, ExpandInv, Settled, expandVars
  <2> QED
    BY <2>1, SameExpansion DEF BuildInv, ExpandInv
<1>3. \A kk : Wanted(kk)' = Wanted(kk)
    BY DEF Wanted, expandVars
<1>4. /\ built[k] \in Seq(BuiltRecs(k)) /\ DOMAIN built = BuiltKinds
      /\ Wanted(k) \in Seq(Refs)
    BY WantedTypes DEF BuildInv, TypeOK, BuiltRecs
<1>5. /\ n \in Nat /\ n < Len(Wanted(k)) /\ Len(Wanted(k)) \in Nat /\ ref \in Refs
    BY <1>4, ElementOf DEF Pending
<1>6. [ref |-> ref, value |-> v] \in BuiltRecs(k)
    BY <1>5 DEF BuiltRecs
<1>7. /\ built'[k] = Append(built[k], [ref |-> ref, value |-> v])
      /\ DOMAIN built' = BuiltKinds
      /\ \A kk \in BuiltKinds \ {k} : built'[kk] = built[kk]
    BY <1>4 DEF Built
<1>8. /\ built'[k] \in Seq(BuiltRecs(k)) /\ Len(built'[k]) = n + 1
      /\ DOMAIN built[k] = 1 .. n /\ DOMAIN built'[k] = 1 .. n + 1
      /\ \A i \in 1 .. n : built'[k][i] = built[k][i]
      /\ built'[k][n + 1] = [ref |-> ref, value |-> v]
    BY <1>4, <1>6, <1>7, Appended
<1>9. Len(built'["tool_pack"]) >= Len(built["tool_pack"]) /\ Len(built["tool_pack"]) \in Nat
      /\ Len(built'["tool_pack"]) \in Nat
  <2>1. "tool_pack" \in BuiltKinds
    BY DEF BuiltKinds, ToSet, ResolveOrder
  <2>2. Len(built["tool_pack"]) \in Nat
    BY <2>1, ElementOf DEF BuildInv, TypeOK
  <2> QED
    BY <1>5, <1>7, <1>8, <2>1, <2>2
<1>10. TypeOK'
  <2>1. \A kk \in BuiltKinds : built'[kk] \in Seq([ref : Refs, value : Buildable(kk)])
    BY <1>7, <1>8 DEF BuildInv, TypeOK, BuiltRecs
  <2>2. router' \in [ToolNames -> 0 .. Len(built'["tool_pack"])]
    BY <1>9 DEF BuildInv, TypeOK
  <2> QED
    BY <1>1, <1>2, <1>7, <2>1, <2>2 DEF BuildInv, TypeOK, ExpandInv, Buildable
<1>11. BuiltInOrder'
  <2>1. ASSUME NEW kk \in BuiltKinds
        PROVE  /\ Len(built'[kk]) <= Len(Wanted(kk))
               /\ \A i \in DOMAIN built'[kk] : /\ built'[kk][i].ref = Wanted(kk)[i]
                                              /\ <<kk, ID(built'[kk][i].ref)>> \in registered
    <3>1. CASE kk # k
      BY <1>7, <3>1 DEF BuildInv, BuiltInOrder
    <3>2. CASE kk = k
      <4>1. ASSUME NEW i \in 1 .. n + 1
            PROVE  built'[k][i].ref = Wanted(k)[i] /\ <<k, ID(built'[k][i].ref)>> \in registered
        <5>1. CASE i \in 1 .. n
          BY <1>8, <5>1 DEF BuildInv, BuiltInOrder
        <5>2. CASE i = n + 1
          BY <1>8, <5>2
        <5> QED
          BY <1>5, <5>1, <5>2
      <4>2. Len(built'[k]) <= Len(Wanted(k))
        BY <1>5, <1>8
      <4> QED
        BY <1>8, <3>2, <4>1, <4>2
    <3> QED
      BY <3>1, <3>2
  <2> QED
    BY <1>3, <2>1 DEF BuiltInOrder, ID
<1>12. BindingsResolved'
  <2>1. \A b : Missing(b)' = Missing(b)
    BY DEF Missing, References
  <2>2. CASE k = "mcp_binding"
    <3>1. ASSUME NEW i \in 1 .. n + 1 PROVE Missing(built'[k][i].value) = {}
      <4>1. CASE i \in 1 .. n
        BY <1>8, <2>2, <4>1 DEF BuildInv, BindingsResolved
      <4>2. CASE i = n + 1
        BY <1>8, <2>2, <4>2
      <4> QED
        BY <1>5, <4>1, <4>2
    <3> QED
      BY <1>8, <2>1, <2>2, <3>1 DEF BindingsResolved
  <2>3. CASE k # "mcp_binding"
    <3>1. "mcp_binding" \in BuiltKinds
      BY DEF BuiltKinds
    <3>2. built'["mcp_binding"] = built["mcp_binding"]
      BY <1>7, <2>3, <3>1
    <3> QED
      BY <2>1, <3>2 DEF BuildInv, BindingsResolved
  <2> QED
    BY <2>2, <2>3
<1>13. AllBuilt'
  <2>1. CASE pc = "mcp"
    <3>1. k = "mcp_binding" /\ k \notin ToSet(ResolveOrder)
      BY <2>1 DEF ToSet, ResolveOrder
    <3>2. \A kk \in ToSet(ResolveOrder) : ~Pending(kk)
      BY <2>1 DEF BuildInv, AllBuilt
    <3>3. \A kk \in ToSet(ResolveOrder) : Pending(kk)' = Pending(kk)
      BY <1>3, <1>7, <3>1 DEF Pending, BuiltKinds
    <3> QED
      BY <1>1, <2>1, <3>2, <3>3 DEF AllBuilt
  <2>2. CASE pc = "resolve"
    BY <1>1, <2>2 DEF AllBuilt
  <2> QED
    BY <2>1, <2>2
<1>14. FrozenByThen' /\ NotFoundIsFinal' /\ RouterExact'
    BY <1>1 DEF BuildInv, FrozenByThen, NotFoundIsFinal, RouterExact
<1>15. CapabilitiesMatch' /\ InjectionTraceable'
    BY <1>1 DEF CapabilitiesMatch, InjectionTraceable
<1> QED
    BY <1>2, <1>10, <1>11, <1>12, <1>13, <1>14, <1>15 DEF BuildInv

\* The entries of the manifest, kind by kind.
LEMMA EntriesByKind ==
    /\ ManifestEntries["skill"] = [i \in DOMAIN resolved |-> Entry("skill", resolved[i].ref)]
    /\ contract = None => ManifestEntries["output_contract"] = <<>>
    /\ contract # None =>
         ManifestEntries["output_contract"] = <<Entry("output_contract", contract)>>
    /\ \A k \in BuiltKinds :
         ManifestEntries[k] = [i \in DOMAIN built[k] |-> Entry(k, built[k][i].ref)]
<1>1. /\ "skill" \in AllKinds /\ "output_contract" \in AllKinds /\ BuiltKinds \subseteq AllKinds
      /\ \A k \in BuiltKinds : k # "skill" /\ k # "output_contract"
    BY Kinds DEF AllKinds, BuiltKinds
<1>2. ManifestEntries["skill"] = [i \in DOMAIN resolved |-> Entry("skill", resolved[i].ref)]
    BY <1>1 DEF ManifestEntries
<1>3. ASSUME contract = None PROVE ManifestEntries["output_contract"] = <<>>
    BY <1>1, <1>3 DEF ManifestEntries
<1>4. ASSUME contract # None
      PROVE  ManifestEntries["output_contract"] = <<Entry("output_contract", contract)>>
    BY <1>1, <1>4 DEF ManifestEntries
<1>5. ASSUME NEW k \in BuiltKinds
      PROVE  ManifestEntries[k] = [i \in DOMAIN built[k] |-> Entry(k, built[k][i].ref)]
    BY <1>1 DEF ManifestEntries
<1> QED
    BY <1>2, <1>3, <1>4, <1>5

\* When nothing is left to do, a component kind has an entry in the manifest
\* exactly when computeCapabilities finds it present.
LEMMA ManifestCapabilities ==
    ASSUME BuildInv, pc = "new", NEW k \in AllKinds
    PROVE  k \in Present <=> ManifestEntries[k] # <<>>
<1>1. /\ \A kk \in BuiltKinds : built[kk] \in Seq(BuiltRecs(kk)) /\ Wanted(kk) \in Seq(Refs)
      /\ resolved \in Seq(SkillRecs) /\ spec.skill \in Seq(Refs) /\ spec \in Compositions
    BY WantedTypes, SkillAssumption DEF BuildInv, TypeOK, BuiltRecs, ExpandTypeOK, SkillRecs
<1>2. ASSUME NEW kk \in BuiltKinds PROVE built[kk] = <<>> <=> Wanted(kk) = <<>>
  <2>1. ~Pending(kk) /\ Len(built[kk]) <= Len(Wanted(kk))
    BY DEF BuildInv, AllBuilt, BuiltInOrder, BuiltKinds
  <2>2. Len(built[kk]) = Len(Wanted(kk))
    BY <1>1, <2>1, ElementOf DEF Pending
  <2> QED
    BY <1>1, <2>2, ElementOf
<1>3. resolved = <<>> <=> spec.skill = <<>>
  <2>1. Len(resolved) = Len(spec.skill)
    BY DEF BuildInv, ExpandInv, Settled
  <2> QED
    BY <1>1, <2>1, ElementOf
<1>4. CASE k = "skill"
  <2>1. ManifestEntries[k] = <<>> <=> resolved = <<>>
    BY <1>1, <1>4, EntriesByKind, SameIndices
  <2>2. k \in Present <=> spec.skill # <<>>
    BY <1>4, Kinds DEF Present, AllKinds, BuiltKinds
  <2> QED
    BY <1>3, <2>1, <2>2
<1>5. CASE k = "output_contract"
  <2>1. k \in Present <=> contract # None
    BY <1>5, Kinds DEF Present, AllKinds, BuiltKinds
  <2> QED
    BY <1>5, <2>1, EntriesByKind
<1>6. CASE k \in BuiltKinds
  <2>1. ManifestEntries[k] = <<>> <=> built[k] = <<>>
    BY <1>1, <1>6, EntriesByKind, SameIndices
  <2>2. CASE k \in {"provider", "prompt_asset"}
    <3>1. Wanted(k) = spec[k] /\ Len(spec[k]) = 1
      BY <1>1, <2>2, BuildAssumption DEF Wanted, ListKinds
    <3>2. Wanted(k) \in Seq(Refs) /\ Len(Wanted(k)) = 1
      BY <1>1, <1>6, <3>1
    <3>3. Wanted(k) # <<>>
      BY <3>2, ElementOf
    <3> QED
      BY <1>2, <1>6, <2>1, <2>2, <3>3 DEF Present
  <2>3. CASE k \in Singular \cup {"mcp_binding"}
    <3>1. Wanted(k) = spec[k]
      BY <2>3 DEF Wanted, ListKinds, Singular
    <3>2. k \in Present <=> spec[k] # <<>>
      BY <2>3, <1>6, Kinds DEF Present, AllKinds, Singular
    <3> QED
      BY <1>2, <1>6, <2>1, <3>1, <3>2
  <2>4. CASE k \notin Singular \cup {"mcp_binding", "provider", "prompt_asset"}
    <3>1. k \notin {"skill", "output_contract"}
      BY <1>6, Kinds DEF BuiltKinds
    <3>2. k \in Present <=> built[k] # <<>>
      BY <2>4, <3>1 DEF Present
    <3> QED
      BY <2>1, <3>2
  <2> QED
    BY <2>2, <2>3, <2>4
<1> QED
    BY <1>4, <1>5, <1>6 DEF AllKinds

\* When nothing is left to do, every entry of the manifest is registered, and
\* one the author did not declare names a skill of the manifest.
LEMMA ManifestTraceable ==
    ASSUME BuildInv, pc = "new", NEW k \in AllKinds, NEW i \in DOMAIN ManifestEntries[k]
    PROVE  LET e == ManifestEntries[k][i] IN
           /\ <<k, e.id>> \in registered
           /\ k \in InjectKinds => (e.by = None <=> i <= Len(Declared(k)))
           /\ e.by # None => \E j \in DOMAIN ManifestEntries["skill"] :
                                ManifestEntries["skill"][j].id = e.by
<1> DEFINE e == ManifestEntries[k][i]
<1>1. /\ \A kk \in BuiltKinds : built[kk] \in Seq(BuiltRecs(kk)) /\ Wanted(kk) \in Seq(Refs)
      /\ resolved \in Seq(SkillRecs) /\ spec.skill \in Seq(Refs) /\ spec \in Compositions
    BY WantedTypes, SkillAssumption DEF BuildInv, TypeOK, BuiltRecs, ExpandTypeOK, SkillRecs
<1>2. /\ DOMAIN ManifestEntries["skill"] = DOMAIN resolved
      /\ \A j \in DOMAIN resolved : ManifestEntries["skill"][j].id = ID(resolved[j].ref)
    BY EntriesByKind DEF Entry
<1>3. ASSUME k \in InjectKinds, NEW ref \in Refs, e = Entry(k, ref),
             i \in DOMAIN Effective(k), Effective(k)[i] = ref
      PROVE  /\ e.by = None <=> i <= Len(Declared(k))
             /\ e.by # None => \E j \in DOMAIN ManifestEntries["skill"] :
                                ManifestEntries["skill"][j].id = e.by
  <2>1. e.by = injectedBy[<<k, ID(ref)>>] /\ ID(ref) \in IDs
    BY <1>3, IDOfRef DEF Entry, LookupInjector
  <2>2. injectedBy[<<k, ID(ref)>>] = None <=> i <= Len(Declared(k))
    BY <1>3 DEF BuildInv, ExpandInv, AttributionExact
  <2>3. injectedBy[<<k, ID(ref)>>] # None =>
            \E j \in DOMAIN resolved : ID(resolved[j].ref) = injectedBy[<<k, ID(ref)>>]
    BY <1>3, <2>1 DEF BuildInv, ExpandInv, AttributionExact
  <2> QED
    BY <1>2, <2>1, <2>2, <2>3
<1>4. CASE k = "skill"
  <2>1. i \in DOMAIN resolved /\ e = Entry("skill", resolved[i].ref)
    BY <1>4, EntriesByKind
  <2>2. e.id = ID(resolved[i].ref) /\ e.by = None /\ k \notin InjectKinds
    BY <1>4, <2>1 DEF Entry, LookupInjector, InjectKinds, ListKinds
  <2>3. <<"skill", ID(resolved[i].ref)>> \in registered
    BY <2>1 DEF BuildInv, ExpandInv, SkillsInOrder
  <2> QED
    BY <1>4, <2>2, <2>3
<1>5. CASE k = "output_contract"
  <2>1. contract # None /\ contract \in Refs
    BY <1>5, EntriesByKind DEF BuildInv, TypeOK, ExpandTypeOK
  <2>2. ManifestEntries[k] = <<Entry(k, contract)>>
    BY <1>5, <2>1, EntriesByKind
  <2>3. i = 1 /\ e = Entry(k, contract)
    BY <2>2
  <2>4. Effective(k) = <<contract>> /\ k \in InjectKinds
    BY <1>5, <2>1 DEF Effective, ListKinds, InjectKinds
  <2>5. i \in DOMAIN Effective(k) /\ Effective(k)[i] = contract
    BY <2>3, <2>4
  <2>6. <<k, e.id>> \in registered
    BY <1>5, <2>1, <2>3 DEF BuildInv, ExpandInv, Settled, Entry
  <2> QED
    BY <1>3, <2>1, <2>3, <2>4, <2>5, <2>6
<1>6. CASE k \in BuiltKinds
  <2>1. i \in DOMAIN built[k] /\ e = Entry(k, built[k][i].ref)
    BY <1>6, EntriesByKind
  <2>2. /\ built[k][i].ref = Wanted(k)[i] /\ <<k, ID(built[k][i].ref)>> \in registered
        /\ i \in DOMAIN Wanted(k) /\ Wanted(k)[i] \in Refs
    <3>1. Len(built[k]) <= Len(Wanted(k))
      BY <1>6 DEF BuildInv, BuiltInOrder
    <3>2. i \in DOMAIN Wanted(k)
      BY <1>1, <1>6, <2>1, <3>1, ElementOf
    <3> QED
      BY <1>1, <1>6, <2>1, <3>2, ElementOf DEF BuildInv, BuiltInOrder
  <2>3. <<k, e.id>> \in registered
    BY <2>1, <2>2 DEF Entry
  <2>4. CASE k \in ListKinds
    <3>1. Effective(k) = Wanted(k) /\ k \in InjectKinds
      BY <2>4 DEF Effective, Wanted, InjectKinds
    <3> QED
      BY <1>3, <2>1, <2>2, <2>3, <3>1
  <2>5. CASE k \notin ListKinds
    <3>1. k \notin InjectKinds
      BY <1>6, <2>5, Kinds DEF InjectKinds, BuiltKinds
    <3>2. e.by = None
      BY <2>1, <3>1 DEF Entry, LookupInjector
    <3> QED
      BY <2>3, <3>1, <3>2
  <2> QED
    BY <2>4, <2>5
<1> QED
    BY <1>4, <1>5, <1>6 DEF AllKinds

\* The definitions of all tool packs, each with the index of its pack.
LEMMA DefinitionsType ==
    ASSUME TypeOK
    PROVE  /\ Definitions \in Seq([name : ToolNames, pack : 1 .. Len(built["tool_pack"])])
           /\ \A t \in ToolNames, p \in DOMAIN built["tool_pack"] :
                [name |-> t, pack |-> p] \in ToSet(Definitions)
                  <=> t \in ToSet(built["tool_pack"][p].value)
<1> DEFINE packs == built["tool_pack"]
           N == Len(packs)
           R == [name : ToolNames, pack : 1 .. N]
           Of(p) == [j \in DOMAIN packs[p].value |-> [name |-> packs[p].value[j], pack |-> p]]
           seqs == [p \in DOMAIN packs |-> Of(p)]
<1>1. packs \in Seq(BuiltRecs("tool_pack"))
    BY Kinds DEF TypeOK, BuiltRecs, BuiltKinds
<1>2. N \in Nat /\ DOMAIN packs = 1 .. N /\ \A p \in 1 .. N : packs[p] \in BuiltRecs("tool_pack")
    BY <1>1, ElementOf
<1>3. \A p \in 1 .. N : packs[p].value \in Seq(ToolNames)
    BY <1>2, BuildAssumption DEF BuiltRecs, Buildable
<1>4. ASSUME NEW p \in 1 .. N PROVE Of(p) \in Seq(R)
  <2> DEFINE names == packs[p].value
  <2>1. names \in Seq(ToolNames)
    BY <1>3
  <2> HIDE DEF names
  <2>2. Len(names) \in Nat /\ DOMAIN names = 1 .. Len(names) /\ \A j \in DOMAIN names : names[j] \in ToolNames
    BY <2>1, ElementOf
  <2>3. [j \in DOMAIN names |-> [name |-> names[j], pack |-> p]] \in [1 .. Len(names) -> R]
    BY <2>2
  <2>4. [j \in DOMAIN names |-> [name |-> names[j], pack |-> p]] \in Seq(R)
    BY <2>2, <2>3, FunctionIsSequence
  <2> QED
    BY <2>4 DEF names
<1> HIDE DEF R
<1>5. seqs \in [1 .. N -> Seq(R)]
    BY <1>2, <1>4
<1>6. seqs \in Seq(Seq(R))
    BY <1>2, <1>5, FunctionIsSequence
<1>7. Definitions = FlattenSeq(seqs)
    BY DEF Definitions
<1>9. ASSUME NEW t \in ToolNames, NEW p \in DOMAIN packs
      PROVE  (\E q \in DOMAIN seqs : [name |-> t, pack |-> p] \in ToSet(seqs[q]))
               <=> t \in ToSet(packs[p].value)
  <2>1. ASSUME NEW q \in DOMAIN seqs
        PROVE  [name |-> t, pack |-> p] \in ToSet(seqs[q]) <=> q = p /\ t \in ToSet(packs[q].value)
    <3>1. seqs[q] = [j \in DOMAIN packs[q].value |-> [name |-> packs[q].value[j], pack |-> q]]
      OBVIOUS
    <3>2. DOMAIN seqs[q] = DOMAIN packs[q].value
      BY <3>1
    <3>3. \A j \in DOMAIN packs[q].value : seqs[q][j] = [name |-> packs[q].value[j], pack |-> q]
      BY <3>1
    <3>4. \A j \in DOMAIN packs[q].value :
             seqs[q][j] = [name |-> t, pack |-> p] <=> q = p /\ packs[q].value[j] = t
      BY <3>3
    <3> QED
      BY <3>2, <3>4 DEF ToSet
  <2>2. DOMAIN seqs = DOMAIN packs
    OBVIOUS
  <2> HIDE DEF seqs, packs
  <2> QED
    BY <2>1, <2>2
<1> HIDE DEF seqs
<1>8. /\ FlattenSeq(seqs) \in Seq(R)
      /\ \A e : e \in ToSet(FlattenSeq(seqs)) <=> \E q \in DOMAIN seqs : e \in ToSet(seqs[q])
    BY <1>6, Flattened, FlattenedMembers
<1> QED
    BY <1>7, <1>8, <1>9 DEF R

\* toolRouter.byName sends a name to a tool pack of the build.
LEMMA RouterType ==
    ASSUME TypeOK, pc = "tools", NewToolRouter, pc' = "budget"
    PROVE  router' \in [ToolNames -> 0 .. Len(built["tool_pack"])]
<1> DEFINE N == Len(built["tool_pack"])
           At(t) == {i \in DOMAIN Definitions : Definitions[i].name = t}
<1>1. router' = [t \in ToolNames |->
                    IF \E i \in DOMAIN Definitions : Definitions[i].name = t
                    THEN Definitions[Max(At(t))].pack ELSE 0]
    BY DEF NewToolRouter, BuildFails, Fail
<1>2. Definitions \in Seq([name : ToolNames, pack : 1 .. N])
    BY DefinitionsType
<1>3. N \in Nat
    BY Kinds, ElementOf DEF TypeOK, BuiltKinds
<1>4. /\ Len(Definitions) \in Nat /\ DOMAIN Definitions = 1 .. Len(Definitions)
      /\ \A i \in DOMAIN Definitions : Definitions[i] \in [name : ToolNames, pack : 1 .. N]
    BY <1>2, ElementOf
<1>5. ASSUME NEW t \in ToolNames, \E i \in DOMAIN Definitions : Definitions[i].name = t
      PROVE  Definitions[Max(At(t))].pack \in 0 .. N
  <2>1. At(t) # {} /\ At(t) \subseteq DOMAIN Definitions
    BY <1>5
  <2>2. At(t) \subseteq 0 .. Len(Definitions)
    BY <1>4, <2>1
  <2> HIDE DEF At
  <2>3. Max(At(t)) \in At(t)
    BY <1>4, <2>1, <2>2, MaxGreatest
  <2>4. Definitions[Max(At(t))] \in [name : ToolNames, pack : 1 .. N]
    BY <1>4, <2>1, <2>3
  <2>5. Definitions[Max(At(t))].pack \in 1 .. N
    BY <2>4
  <2> QED
    BY <1>3, <2>5
<1> HIDE DEF At
<1> QED
    BY <1>1, <1>3, <1>5

\* A name that no two packs define is sent to the pack that defines it.
LEMMA RouterOfPacks ==
    ASSUME TypeOK, pc = "tools", NewToolRouter, pc' = "budget", built' = built
    PROVE  \A t \in ToolNames :
              /\ \A p \in DOMAIN built'["tool_pack"] :
                    router'[t] = p <=> t \in ToSet(built'["tool_pack"][p].value)
              /\ t \in Reserved => router'[t] = 0
<1> DEFINE packs == built["tool_pack"]
           N == Len(packs)
           D == Definitions
           At(t) == {i \in DOMAIN D : D[i].name = t}
<1>1. /\ Rejected = {}
      /\ router' = [t \in ToolNames |-> IF \E i \in DOMAIN D : D[i].name = t
                                        THEN D[Max(At(t))].pack ELSE 0]
    BY DEF NewToolRouter, BuildFails, Fail
<1>2. /\ D \in Seq([name : ToolNames, pack : 1 .. N])
      /\ \A t \in ToolNames, p \in DOMAIN packs :
           [name |-> t, pack |-> p] \in ToSet(D) <=> t \in ToSet(packs[p].value)
    BY DefinitionsType
<1>3. N \in Nat /\ DOMAIN packs = 1 .. N
    BY Kinds, ElementOf DEF TypeOK, BuiltKinds
<1>4. /\ Len(D) \in Nat /\ DOMAIN D = 1 .. Len(D)
      /\ \A i \in DOMAIN D : D[i] \in [name : ToolNames, pack : 1 .. N]
    BY <1>2, ElementOf
<1>5. \A i \in DOMAIN D : D[i].name \notin Reserved /\ \A h \in 1 .. i - 1 : D[h].name # D[i].name
    BY <1>1 DEF Rejected
<1> HIDE DEF D, packs
<1>6. ASSUME NEW t \in ToolNames, NEW i \in At(t) PROVE At(t) = {i} /\ router'[t] = D[i].pack
  <2>1. ASSUME NEW h \in At(t) PROVE h = i
    <3>1. h \in 1 .. Len(D) /\ i \in 1 .. Len(D) /\ D[h].name = D[i].name
      BY <1>4, <1>6
    <3>2. ~(h \in 1 .. i - 1) /\ ~(i \in 1 .. h - 1)
      BY <1>4, <1>5, <3>1
    <3> QED
      BY <1>4, <3>1, <3>2
  <2>2. At(t) = {i} /\ At(t) \subseteq 0 .. Len(D)
    BY <1>4, <1>6, <2>1
  <2>3. router'[t] = D[Max(At(t))].pack
    BY <1>1, <1>6
  <2> HIDE DEF At
  <2>4. Max(At(t)) = i
    BY <1>4, <2>2, MaxGreatest
  <2> QED
    BY <2>2, <2>3, <2>4
<1>7. ASSUME NEW t \in ToolNames, NEW p \in DOMAIN packs
      PROVE  router'[t] = p <=> t \in ToSet(packs[p].value)
  <2>1. ASSUME t \in ToSet(packs[p].value) PROVE router'[t] = p
    <3>1. PICK i \in DOMAIN D : D[i] = [name |-> t, pack |-> p]
      BY <1>2, <2>1 DEF ToSet
    <3>2. i \in At(t) /\ D[i].pack = p
      BY <3>1
    <3> QED
      BY <1>6, <3>2
  <2>2. ASSUME router'[t] = p PROVE t \in ToSet(packs[p].value)
    <3>1. At(t) # {}
      BY <1>1, <1>3, <2>2
    <3>2. PICK i \in At(t) : TRUE
      BY <3>1
    <3>3. D[i].pack = p /\ D[i].name = t /\ i \in DOMAIN D
      BY <1>6, <2>2, <3>2
    <3>4. D[i] = [name |-> t, pack |-> p]
      BY <1>4, <3>3
    <3>5. [name |-> t, pack |-> p] \in ToSet(D)
      BY <3>3, <3>4 DEF ToSet
    <3> QED
      BY <1>2, <3>5
  <2> QED
    BY <2>1, <2>2
<1>8. ASSUME NEW t \in ToolNames, t \in Reserved PROVE router'[t] = 0
    BY <1>1, <1>5, <1>8
<1> QED
    BY <1>7, <1>8 DEF packs

\* The loop of expandSkills runs on a frozen registry: a missing skill or
\* contract stays missing.
LEMMA ExpandSkillsInv ==
    ASSUME BuildInv, ExpandSkills
    PROVE  BuildInv'
<1>0. ExpandStep /\ UNCHANGED <<frozen, built, router, agent>>
    BY DEF ExpandSkills, buildVars
<1>1. ExpandInv'
    BY <1>0, ExpandStepInv DEF BuildInv
<1>2. pc = "skills" /\ registered' = registered /\ spec' = spec
    BY <1>0 DEF ExpandStep, ResolveSkill, InjectRequired, InjectOutputContract,
                ResolveOutputContract, ExpandFails, Continue, Inject, Keep
<1>3. outcome.status = "running" /\ agent = None /\ frozen
      /\ \A k \in BuiltKinds : built[k] = <<>>
    BY <1>2 DEF BuildInv, TypeOK, FrozenByThen, BuiltInOrder
<1>4. \/ pc' \in {"skills", "resolve"} /\ outcome' = outcome
      \/ /\ pc' = "done"
         /\ outcome'.status \notin {"ok", "running"}
         /\ outcome'.status = "ErrNotFound" => outcome'.what \notin registered
  <2>5. ASSUME NEW st, NEW wh, ExpandFails(st, wh)
        PROVE  pc' = "done" /\ outcome'.status = st /\ outcome'.what = wh
    BY <2>5 DEF ExpandFails, Fail, Outcome
  <2>6. Continue => pc' = "skills" /\ outcome' = outcome
    BY <1>2 DEF Continue
  <2>1. CASE ResolveSkill
    <3>0. PICK ref : ref = spec.skill[Len(resolved) + 1]
      OBVIOUS
    <3>1. \/ /\ <<"skill", ID(ref)>> \notin registered
             /\ ExpandFails("ErrNotFound", <<"skill", ID(ref)>>)
          \/ ExpandFails("build", <<"skill", ID(ref)>>)
          \/ ExpandFails("skill_empty_contribution", <<"skill", ID(ref)>>)
          \/ Continue
      BY <2>1, <3>0, Zenon DEF ResolveSkill
    <3> QED
      BY <2>5, <2>6, <3>1
  <2>2. CASE InjectRequired
    <3>0. PICK k, req : k = Head(queue).kind /\ req = Head(queue).req
      OBVIOUS
    <3>1. \/ ExpandFails("bad_id", None)
          \/ ExpandFails("skill_conflict_version_divergence", <<k, ID(req)>>)
          \/ ExpandFails("skill_conflict_config_divergence", <<k, ID(req)>>)
          \/ Continue
      BY <2>2, <3>0, Zenon DEF InjectRequired, Inject, Keep
    <3> QED
      BY <2>5, <2>6, <3>1
  <2>3. CASE InjectOutputContract
    <3>1. ContractCollision \in {"skill_conflict_output_contract_multiple",
                                "skill_conflict_output_contract_user_override"}
      BY DEF ContractCollision
    <3>2. PICK req : req = Head(queue).req
      OBVIOUS
    <3>3. \/ ExpandFails("bad_id", None)
          \/ ExpandFails(ContractCollision, <<"output_contract", ID(req)>>)
          \/ ExpandFails("config_not_comparable", <<"output_contract", ID(req)>>)
          \/ Continue
      BY <2>3, <3>2, Zenon DEF InjectOutputContract, Keep
    <3> QED
      BY <2>5, <2>6, <3>1, <3>3
  <2>4. CASE ResolveOutputContract
    BY <2>4 DEF ResolveOutputContract, ExpandFails, Continue, Fail, Outcome
  <2> QED
    BY <1>0, <2>1, <2>2, <2>3, <2>4 DEF ExpandStep
<1>5. TypeOK'
    BY <1>0, <1>1, <1>2, <1>3, <1>4 DEF BuildInv, TypeOK, Stages, ExpandInv
<1>6. FrozenByThen' /\ NotFoundIsFinal' /\ AllBuilt' /\ RouterExact'
    BY <1>0, <1>2, <1>3, <1>4
    DEF FrozenByThen, NotFoundIsFinal, AllBuilt, RouterExact
<1>7. BuiltInOrder'
  <2>1. \A k \in BuiltKinds : Wanted(k)' \in Seq(Refs)
    <3>1. \A k \in BuiltKinds : k \in AllKinds \ {"output_contract"}
      BY Kinds DEF AllKinds, BuiltKinds
    <3>2. spec' \in Compositions /\ lists' \in [ListKinds -> Seq(Refs)]
      BY <1>1 DEF ExpandInv, ExpandTypeOK
    <3> QED
      BY <3>1, <3>2, BuildAssumption DEF Wanted
  <2>2. \A k \in BuiltKinds : Len(<<>>) <= Len(Wanted(k)') /\ DOMAIN (<<>>) = {}
    BY <2>1, ElementOf
  <2> QED
    BY <1>0, <1>3, <2>2 DEF BuiltInOrder
<1>8. BindingsResolved'
    BY <1>0, <1>3 DEF BindingsResolved, BuiltKinds
<1>9. CapabilitiesMatch' /\ InjectionTraceable'
    BY <1>0, <1>3 DEF CapabilitiesMatch, InjectionTraceable
<1> QED
    BY <1>1, <1>5, <1>6, <1>7, <1>8, <1>9 DEF BuildInv

\* resolve()
LEMMA ResolveInv ==
    ASSUME BuildInv, Resolve
    PROVE  BuildInv'
<1>0. pc = "resolve" /\ frozen
    BY DEF Resolve, BuildInv, TypeOK, FrozenByThen
<1>1. PICK k, ref :
         /\ k \in ToSet(ResolveOrder) /\ Pending(k) /\ ref = Wanted(k)[Len(built[k]) + 1]
         /\ \/ /\ <<k, ID(ref)>> \notin registered
               /\ BuildFails("ErrNotFound", <<k, ID(ref)>>)
            \/ /\ <<k, ID(ref)>> \in registered
               /\ BuildFails("build", <<k, ID(ref)>>)
            \/ /\ <<k, ID(ref)>> \in registered
               /\ \E v \in Buildable(k) : Built(k, ref, v)
               /\ UNCHANGED <<registered, spec, pc, expandVars, outcome, frozen, router, agent>>
  <2>1. PICK i \in DOMAIN ResolveOrder :
         LET k   == ResolveOrder[i]
             ref == Wanted(k)[Len(built[k]) + 1]
         IN
         /\ Pending(k)
         /\ \/ /\ <<k, ID(ref)>> \notin registered
               /\ BuildFails("ErrNotFound", <<k, ID(ref)>>)
            \/ /\ <<k, ID(ref)>> \in registered
               /\ BuildFails("build", <<k, ID(ref)>>)
            \/ /\ <<k, ID(ref)>> \in registered
               /\ \E v \in Buildable(k) : Built(k, ref, v)
               /\ UNCHANGED <<registered, spec, pc, expandVars, outcome, frozen, router, agent>>
    BY Zenon DEF Resolve
  <2>2. ResolveOrder[i] \in ToSet(ResolveOrder)
    BY DEF ToSet
  <2>3. PICK k, ref : k = ResolveOrder[i] /\ ref = Wanted(k)[Len(built[k]) + 1]
    OBVIOUS
  <2>4. /\ Pending(k)
        /\ \/ /\ <<k, ID(ref)>> \notin registered
              /\ BuildFails("ErrNotFound", <<k, ID(ref)>>)
           \/ /\ <<k, ID(ref)>> \in registered
              /\ BuildFails("build", <<k, ID(ref)>>)
           \/ /\ <<k, ID(ref)>> \in registered
              /\ \E v \in Buildable(k) : Built(k, ref, v)
              /\ UNCHANGED <<registered, spec, pc, expandVars, outcome, frozen, router, agent>>
    BY <2>1, <2>3, Zenon
  <2> QED
    BY <2>2, <2>3, <2>4, Zenon
<1>2. k \in BuiltKinds /\ k # "mcp_binding"
    BY <1>1, Kinds DEF BuiltKinds
<1>3. CASE <<k, ID(ref)>> \notin registered /\ BuildFails("ErrNotFound", <<k, ID(ref)>>)
    BY <1>0, <1>3, FailKeepsBuildInv
<1>4. CASE BuildFails("build", <<k, ID(ref)>>)
    BY <1>0, <1>4, FailKeepsBuildInv
<1>5. CASE /\ <<k, ID(ref)>> \in registered
           /\ \E v \in Buildable(k) : Built(k, ref, v)
           /\ UNCHANGED <<registered, spec, pc, expandVars, outcome, frozen, router, agent>>
  <2>1. PICK v \in Buildable(k) : Built(k, ref, v)
    BY <1>5
  <2> QED
    BY <1>0, <1>1, <1>2, <1>5, <2>1, BuiltKeepsBuildInv
<1> QED
    BY <1>1, <1>3, <1>4, <1>5

\* What a binding names is among its references.
LEMMA ReferencesOf ==
    ASSUME NEW b \in Bindings
    PROVE  /\ References(b) \in Seq(AllKinds \X IDs)
           /\ \A id \in ToSet(b.policies) : <<"policy_pack", id>> \in ToSet(References(b))
           /\ b.credential # None =>
                <<"credential_resolver", b.credential>> \in ToSet(References(b))
<1> DEFINE P == [j \in DOMAIN b.policies |-> <<"policy_pack", b.policies[j]>>]
           C == IF b.credential = None THEN <<>> ELSE <<<<"credential_resolver", b.credential>>>>
<1>1. b.policies \in Seq(IDs) /\ b.credential \in IDs \cup {None}
    BY BuildAssumption
<1>2. /\ Len(b.policies) \in Nat /\ DOMAIN b.policies = 1 .. Len(b.policies)
      /\ \A j \in DOMAIN b.policies : b.policies[j] \in IDs
    BY <1>1, ElementOf
<1>3. "policy_pack" \in AllKinds /\ "credential_resolver" \in AllKinds
    BY Kinds DEF AllKinds, BuiltKinds
<1>4. P \in [1 .. Len(b.policies) -> AllKinds \X IDs]
    BY <1>2, <1>3
<1>5. P \in Seq(AllKinds \X IDs)
    BY <1>2, <1>4, FunctionIsSequence
<1>6. C \in Seq(AllKinds \X IDs)
  <2>1. CASE b.credential = None
    BY <2>1
  <2>2. CASE b.credential # None
    <3>1. <<"credential_resolver", b.credential>> \in AllKinds \X IDs
      BY <1>1, <1>3, <2>2
    <3> QED
      BY <2>2, <3>1
  <2> QED
    BY <2>1, <2>2
<1>7. \A id \in ToSet(b.policies) : <<"policy_pack", id>> \in ToSet(P)
    BY DEF ToSet
<1>8. b.credential # None => <<"credential_resolver", b.credential>> \in ToSet(C)
    BY DEF ToSet
<1>9. References(b) = P \o C
    BY DEF References
<1> HIDE DEF P, C
<1>10. /\ P \o C \in Seq(AllKinds \X IDs) /\ ToSet(P \o C) = ToSet(P) \cup ToSet(C)
    BY <1>5, <1>6, ConcatElements
<1> QED
    BY <1>7, <1>8, <1>9, <1>10

\* resolveMCPBindings
LEMMA ResolveMCPBindingInv ==
    ASSUME BuildInv, ResolveMCPBinding
    PROVE  BuildInv'
<1>k. PICK ref : ref = spec.mcp_binding[Len(built["mcp_binding"]) + 1]
    OBVIOUS
<1> DEFINE key == <<"mcp_binding", ID(ref)>>
<1>0. pc = "mcp" /\ frozen /\ Pending("mcp_binding") /\ "mcp_binding" \in BuiltKinds
    BY DEF ResolveMCPBinding, BuildInv, TypeOK, FrozenByThen, BuiltKinds
<1>1. Wanted("mcp_binding") = spec.mcp_binding
    BY DEF Wanted, ListKinds
<1>2. CASE key \notin registered /\ BuildFails("ErrNotFound", key)
    BY <1>0, <1>2, FailKeepsBuildInv
<1>3. CASE BuildFails("build", key)
    BY <1>0, <1>3, FailKeepsBuildInv
<1>4. ASSUME NEW b \in Bindings, Missing(b) # {},
             BuildFails("ErrNotFound", References(b)[Min(Missing(b))])
      PROVE  BuildInv'
  <2>1. References(b) \in Seq(AllKinds \X IDs)
    BY ReferencesOf
  <2>2. Missing(b) \subseteq Nat
    BY <2>1, ElementOf DEF Missing
  <2>3. Min(Missing(b)) \in Missing(b)
    BY <1>4, <2>2, MinLeast
  <2>4. References(b)[Min(Missing(b))] \notin registered
    BY <2>3 DEF Missing
  <2> QED
    BY <1>0, <1>4, <2>4, FailKeepsBuildInv
<1>5. ASSUME NEW b \in Bindings, key \in registered, Missing(b) = {},
             Built("mcp_binding", ref, b),
             UNCHANGED <<registered, spec, pc, expandVars, outcome, frozen, router, agent>>
      PROVE  BuildInv'
  <2>1. b \in Buildable("mcp_binding")
    BY DEF Buildable
  <2> QED
    BY <1>k, <1>0, <1>1, <1>5, <2>1, BuiltKeepsBuildInv
<1> QED
    BY <1>k, <1>2, <1>3, <1>4, <1>5 DEF ResolveMCPBinding

\* The agent is assembled.
LEMMA NewOrchestratorInv ==
    ASSUME BuildInv, NewOrchestrator
    PROVE  BuildInv'
<1>0. pc = "new" /\ frozen /\ outcome.status = "running"
    BY DEF NewOrchestrator, BuildInv, TypeOK, FrozenByThen
<1>1. CASE BuildFails("orchestrator.New", None)
    BY <1>0, <1>1, FailKeepsBuildInv
<1>2. CASE ~BuildFails("orchestrator.New", None)
  <2>1. /\ agent'.manifest = BuildManifest
        /\ DOMAIN agent' = {"manifest", "fragments", "budget"}
        /\ pc' = "done" /\ outcome'.status = "ok"
        /\ UNCHANGED <<spec, expandVars>> /\ registered' = registered
        /\ UNCHANGED <<frozen, built, router>>
    BY <1>2 DEF NewOrchestrator, Outcome
  <2>2. ExpandInv'
    <3>1. Settled'
      BY <1>0, <2>1 DEF BuildInv, ExpandInv, Settled, expandVars
    <3> QED
      BY <2>1, <3>1, SameExpansion DEF BuildInv, ExpandInv
  <2>3. TypeOK'
    BY <2>1, <2>2 DEF BuildInv, TypeOK, Stages, ExpandInv
  <2>4. \A k : Wanted(k)' = Wanted(k) /\ Pending(k)' = Pending(k)
    BY <2>1 DEF Wanted, Pending, expandVars
  <2>5. FrozenByThen' /\ NotFoundIsFinal' /\ AllBuilt' /\ RouterExact'
    BY <1>0, <2>1, <2>4
    DEF BuildInv, FrozenByThen, NotFoundIsFinal, AllBuilt, RouterExact
  <2>6. BuiltInOrder'
    BY <2>1, <2>4 DEF BuildInv, BuiltInOrder
  <2>7. BindingsResolved'
    BY <2>1 DEF BuildInv, BindingsResolved, Missing, References
  <2>8. /\ agent'.manifest.present = Present /\ agent'.manifest.skipped = Skipped
        /\ agent'.manifest.entries = ManifestEntries
    BY <2>1 DEF BuildManifest
  <2>9. CapabilitiesMatch'
    <3>1. ASSUME NEW k \in AllKinds
          PROVE  /\ k \in Present <=> ManifestEntries[k] # <<>>
                 /\ k \in Skipped => ManifestEntries[k] = <<>>
      BY <1>0, ManifestCapabilities DEF Skipped
    <3> QED
      BY <2>8, <3>1 DEF CapabilitiesMatch
  <2>10. InjectionTraceable'
    <3>1. \A k : Declared(k)' = Declared(k)
      BY <2>1 DEF Declared
    <3>2. ASSUME NEW k \in AllKinds, NEW i \in DOMAIN ManifestEntries[k]
          PROVE  /\ <<k, ManifestEntries[k][i].id>> \in registered
                 /\ k \in InjectKinds =>
                      (ManifestEntries[k][i].by = None <=> i <= Len(Declared(k)))
                 /\ ManifestEntries[k][i].by # None =>
                      \E j \in DOMAIN ManifestEntries["skill"] :
                         ManifestEntries["skill"][j].id = ManifestEntries[k][i].by
      BY <1>0, ManifestTraceable
    <3> QED
      BY <2>1, <2>8, <3>1, <3>2 DEF InjectionTraceable
  <2> QED
    BY <2>2, <2>3, <2>5, <2>6, <2>7, <2>9, <2>10 DEF BuildInv
<1> QED
    BY <1>1, <1>2

\* A build starts with nothing built.
LEMMA InitBuildInv == Init => BuildInv
<1> SUFFICES ASSUME Init PROVE BuildInv
    OBVIOUS
<1>1. ExpandInv
    BY ExpandInitInv DEF Init
<1>2. outcome.status = "running" /\ agent = None /\ pc = "normalize"
    BY DEF Init, Outcome
<1>3. TypeOK
  <2>1. "tool_pack" \in BuiltKinds /\ Len(<<>>) = 0
    BY Kinds DEF BuiltKinds
  <2>2. router \in [ToolNames -> 0 .. Len(built["tool_pack"])]
    BY <2>1 DEF Init
  <2>3. registered \subseteq AllKinds \X IDs
    BY BuildAssumption DEF Init
  <2>4. \A k \in BuiltKinds : built[k] \in Seq([ref : Refs, value : Buildable(k)])
    BY DEF Init
  <2> QED
    BY <1>1, <1>2, <2>2, <2>3, <2>4 DEF TypeOK, Stages, ExpandInv, Init
<1>4. FrozenByThen /\ NotFoundIsFinal /\ AllBuilt /\ RouterExact
    BY <1>2 DEF FrozenByThen, NotFoundIsFinal, AllBuilt, RouterExact
<1>5. BuiltInOrder
  <2>1. \A k \in BuiltKinds : built[k] = <<>> /\ Wanted(k) \in Seq(Refs)
    BY <1>1, WantedTypes DEF Init, ExpandInv
  <2>2. \A k \in BuiltKinds : Len(built[k]) <= Len(Wanted(k)) /\ DOMAIN built[k] = {}
    BY <2>1, ElementOf
  <2> QED
    BY <2>1, <2>2 DEF BuiltInOrder
<1>6. BindingsResolved
    BY DEF BindingsResolved, Init, BuiltKinds
<1>7. CapabilitiesMatch /\ InjectionTraceable
    BY <1>2 DEF CapabilitiesMatch, InjectionTraceable
<1> QED
    BY <1>1, <1>3, <1>4, <1>5, <1>6, <1>7 DEF BuildInv

\* A stage of the build that ends by going on to the next, or fails.
LEMMA StagesInv ==
    ASSUME BuildInv, Normalize \/ Freeze \/ Resolved \/ MCPResolved \/ NewToolRouter \/ ApplyBudget
    PROVE  BuildInv'
<1>t. TypeOK /\ ExpandInv /\ FrozenByThen /\ AllBuilt
    BY DEF BuildInv
<1>p. UNCHANGED <<spec, expandVars, built>> => \A k : Pending(k)' = Pending(k)
    BY DEF Pending, Wanted, expandVars
<1>1. CASE Normalize
  <2>1. CASE BuildFails("normalize", None)
    BY <1>1, <2>1, FailKeepsBuildInv DEF Normalize
  <2>2. CASE Goto("freeze") /\ UNCHANGED buildVars
    <3>1. Settled' /\ FrozenByThen' /\ AllBuilt' /\ RouterExact'
      BY <1>t, <1>1, <2>2 DEF Normalize, Goto, Settled, FrozenByThen, AllBuilt, RouterExact, TypeOK
    <3>2. /\ built' = built /\ agent' = agent /\ frozen' \in BOOLEAN
          /\ router' \in [ToolNames -> 0 .. Len(built["tool_pack"])]
      BY <1>t, <2>2 DEF buildVars, TypeOK
    <3> QED
      BY <1>1, <2>2, <3>1, <3>2, GotoKeepsBuildInv DEF Normalize, Stages
  <2> QED
    BY <1>1, <2>1, <2>2 DEF Normalize
<1>2. CASE Freeze
  <2>1. Settled' /\ FrozenByThen' /\ AllBuilt' /\ RouterExact'
    BY <1>t, <1>2 DEF Freeze, Goto, Settled, FrozenByThen, AllBuilt, RouterExact, TypeOK
  <2>2. /\ built' = built /\ agent' = agent /\ frozen' \in BOOLEAN
        /\ router' \in [ToolNames -> 0 .. Len(built["tool_pack"])]
    BY <1>t, <1>2 DEF Freeze, TypeOK
  <2> QED
    BY <1>2, <2>1, <2>2, GotoKeepsBuildInv DEF Freeze, Stages
<1>3. CASE Resolved
  <2>1. /\ built' = built /\ agent' = agent /\ frozen' = frozen /\ router' = router
        /\ UNCHANGED <<spec, expandVars>> /\ registered' = registered
        /\ pc = "resolve" /\ pc' = "mcp" /\ outcome' = outcome
        /\ \A k \in ToSet(ResolveOrder) : ~Pending(k)
    BY <1>3 DEF Resolved, Goto, buildVars
  <2>2. Settled'
    BY <1>t, <2>1 DEF ExpandInv, Settled, expandVars
  <2>3. FrozenByThen' /\ AllBuilt' /\ RouterExact'
    BY <1>t, <1>p, <2>1 DEF FrozenByThen, AllBuilt, RouterExact, TypeOK
  <2> QED
    BY <1>t, <1>3, <2>1, <2>2, <2>3, GotoKeepsBuildInv DEF Resolved, Stages, TypeOK
<1>4. CASE MCPResolved
  <2>1. /\ built' = built /\ agent' = agent /\ frozen' = frozen /\ router' = router
        /\ UNCHANGED <<spec, expandVars>> /\ registered' = registered
        /\ pc = "mcp" /\ pc' = "tools" /\ outcome' = outcome
        /\ ~Pending("mcp_binding")
    BY <1>4 DEF MCPResolved, Goto, buildVars
  <2>2. Settled'
    BY <1>t, <2>1 DEF ExpandInv, Settled, expandVars
  <2>3. FrozenByThen' /\ AllBuilt' /\ RouterExact'
    BY <1>t, <1>p, <2>1 DEF FrozenByThen, AllBuilt, RouterExact, TypeOK
  <2> QED
    BY <1>t, <1>4, <2>1, <2>2, <2>3, GotoKeepsBuildInv DEF MCPResolved, Stages, TypeOK
<1>5. CASE NewToolRouter
  <2>0. pc = "tools" /\ frozen
    BY <1>t, <1>5 DEF NewToolRouter, FrozenByThen, TypeOK
  <2>1. CASE pc' = "done"
    <3>1. PICK status \in {"ErrToolNameReservedPrefix", "ErrToolNameCollision"} :
              BuildFails(status, None)
      BY <1>5, <2>1 DEF NewToolRouter, Goto
    <3> QED
      BY <2>0, <3>1, FailKeepsBuildInv
  <2>2. CASE pc' # "done"
    <3>1. /\ Goto("budget") /\ UNCHANGED <<frozen, built, agent>>
          /\ UNCHANGED <<spec, expandVars>> /\ registered' = registered
          /\ pc' = "budget" /\ outcome' = outcome
      BY <1>5, <2>2 DEF NewToolRouter, BuildFails, Fail, Goto
    <3>2. router' \in [ToolNames -> 0 .. Len(built["tool_pack"])]
      BY <1>t, <1>5, <2>0, <3>1, RouterType
    <3>3. Settled'
      BY <1>t, <2>0, <3>1 DEF ExpandInv, Settled, expandVars
    <3>4. FrozenByThen' /\ AllBuilt'
      BY <1>t, <1>p, <2>0, <3>1 DEF FrozenByThen, AllBuilt, TypeOK
    <3>5. RouterExact'
      BY <1>t, <1>5, <2>0, <3>1, RouterOfPacks DEF RouterExact
    <3> QED
      BY <1>t, <2>0, <3>1, <3>2, <3>3, <3>4, <3>5, GotoKeepsBuildInv DEF Stages, TypeOK
  <2> QED
    BY <2>1, <2>2
<1>6. CASE ApplyBudget
  <2>0. pc = "budget" /\ frozen
    BY <1>t, <1>6 DEF ApplyBudget, FrozenByThen, TypeOK
  <2>1. CASE BuildFails("maxWallClock", None)
    BY <2>0, <2>1, FailKeepsBuildInv
  <2>2. CASE BuildFails("ErrBudgetLoosening", None)
    BY <2>0, <2>2, FailKeepsBuildInv
  <2>3. CASE Goto("new") /\ UNCHANGED buildVars
    <3>1. /\ UNCHANGED <<spec, expandVars>> /\ registered' = registered
          /\ UNCHANGED <<frozen, built, router, agent>>
          /\ pc' = "new" /\ outcome' = outcome
      BY <2>3 DEF Goto, buildVars
    <3>2. Settled'
      BY <1>t, <2>0, <3>1 DEF ExpandInv, Settled, expandVars
    <3>3. FrozenByThen' /\ AllBuilt'
      BY <1>t, <1>p, <2>0, <3>1 DEF FrozenByThen, AllBuilt, TypeOK
    <3>4. RouterExact'
      BY <2>0, <3>1 DEF BuildInv, RouterExact
    <3> QED
      BY <1>t, <2>0, <2>3, <3>1, <3>2, <3>3, <3>4, GotoKeepsBuildInv DEF Stages, TypeOK
  <2> QED
    BY <1>6, <2>1, <2>2, <2>3 DEF ApplyBudget
<1> QED
    BY <1>1, <1>2, <1>3, <1>4, <1>5, <1>6

\* Every step, of this build and of the other goroutines, keeps BuildInv.
LEMMA NextBuildInv == BuildInv /\ [Next]_vars => BuildInv'
<1> SUFFICES ASSUME BuildInv, [Next]_vars PROVE BuildInv'
    OBVIOUS
<1>1. CASE Step
    BY <1>1, StagesInv, ExpandSkillsInv, ResolveInv, ResolveMCPBindingInv, NewOrchestratorInv
    DEF Step
<1>2. ASSUME NEW e \in Registrable, Register(e[1], e[2]) PROVE BuildInv'
  <2>1. e \in AllKinds \X IDs /\ <<e[1], e[2]>> = e
    BY BuildAssumption
  <2>2. /\ ~frozen /\ frozen' = frozen /\ registered' = registered \cup {e}
        /\ UNCHANGED <<spec, pc, expandVars, outcome, built, router, agent>>
    BY <1>2, <2>1 DEF Register
  <2>3. registered' \subseteq AllKinds \X IDs /\ frozen' \in BOOLEAN
    BY <2>1, <2>2 DEF BuildInv, TypeOK
  <2> QED
    BY <2>2, <2>3, OthersKeepBuildInv
<1>3. CASE OtherBuildFreezes
  <2>1. /\ ~frozen /\ frozen' = TRUE /\ registered' = registered
        /\ UNCHANGED <<spec, pc, expandVars, outcome, built, router, agent>>
    BY <1>3 DEF OtherBuildFreezes
  <2>2. registered' \subseteq AllKinds \X IDs
    BY <2>1 DEF BuildInv, TypeOK
  <2> QED
    BY <2>1, <2>2, OthersKeepBuildInv
<1>4. CASE UNCHANGED vars
  <2>1. /\ UNCHANGED <<spec, expandVars>> /\ registered' = registered
        /\ UNCHANGED <<pc, outcome, frozen, built, router, agent>>
    BY <1>4 DEF vars, expandVars
  <2>2. ExpandInv'
    <3>1. Settled'
      BY <2>1 DEF BuildInv, ExpandInv, Settled, expandVars
    <3> QED
      BY <2>1, <3>1, SameExpansion DEF BuildInv, ExpandInv
  <2>3. TypeOK'
    BY <2>1, <2>2 DEF BuildInv, TypeOK, ExpandInv
  <2>4. \A k : Wanted(k)' = Wanted(k) /\ Pending(k)' = Pending(k) /\ Declared(k)' = Declared(k)
    BY <2>1 DEF Wanted, Pending, Declared, expandVars
  <2>5. FrozenByThen' /\ NotFoundIsFinal' /\ AllBuilt' /\ RouterExact'
    BY <2>1, <2>4
    DEF BuildInv, FrozenByThen, NotFoundIsFinal, AllBuilt, RouterExact
  <2>6. BuiltInOrder'
    BY <2>1, <2>4 DEF BuildInv, BuiltInOrder
  <2>7. BindingsResolved'
    BY <2>1 DEF BuildInv, BindingsResolved, Missing, References
  <2>8. CapabilitiesMatch' /\ InjectionTraceable'
    BY <2>1, <2>4 DEF BuildInv, CapabilitiesMatch, InjectionTraceable
  <2> QED
    BY <2>2, <2>3, <2>5, <2>6, <2>7, <2>8 DEF BuildInv
<1> QED
    BY <1>1, <1>2, <1>3, <1>4 DEF Next, Returned

\* BuildInv is an invariant of a build.
THEOREM BuildInvariant == Spec => []BuildInv
BY InitBuildInv, NextBuildInv, PTL DEF Spec

\* The state of a build is well typed; in particular newToolRouter sends every
\* tool name to one of the packs that were built.
THEOREM TypeCorrect == Spec => []TypeOK
<1>1. BuildInv => TypeOK
    BY DEF BuildInv
<1> QED
    BY <1>1, BuildInvariant, PTL

\* forge.Build: a component reported as not registered stays unregistered,
\* whatever other goroutines register.
THEOREM NotFoundStays == Spec => []NotFoundIsFinal
<1>1. BuildInv => NotFoundIsFinal
    BY DEF BuildInv
<1> QED
    BY <1>1, BuildInvariant, PTL

\* resolve and resolveMCPBindings: what the skills of an agent require has been
\* built, and what its MCP bindings name is registered.
THEOREM RequirementsAreBuilt == Spec => []RequirementsBuilt
<1>1. BuildInv => RequirementsBuilt
  <2> SUFFICES ASSUME BuildInv, agent # None PROVE RequirementsBuilt
    BY DEF RequirementsBuilt
  <2>0. outcome.status = "ok" /\ TypeOK /\ ExpandInv
    BY DEF BuildInv, TypeOK
  <2>1. ASSUME NEW i \in DOMAIN resolved, NEW k \in ListKinds, NEW req \in Requires(i, k)
        PROVE  \E j \in DOMAIN built[k] : /\ ID(built[k][j].ref) = ID(req)
                                         /\ SameMeaning(built[k][j].ref.config, req.config)
    <3>1. k \in InjectKinds /\ k \in BuiltKinds /\ k \in ToSet(ResolveOrder)
      BY Kinds DEF InjectKinds, ListKinds, BuiltKinds
    <3>2. Met(k, req)
      <4>1. ToSet(queue) = {}
        BY <2>0 DEF ExpandInv, Settled, ToSet
      <4> QED
        BY <2>0, <3>1, <4>1 DEF ExpandInv, MetOrQueued
    <3>3. PICK j \in DOMAIN Effective(k) : /\ ID(Effective(k)[j]) = ID(req)
                                          /\ SameMeaning(Effective(k)[j].config, req.config)
      BY <3>2 DEF Met
    <3>4. Effective(k) = Wanted(k) /\ Wanted(k) \in Seq(Refs) /\ built[k] \in Seq(BuiltRecs(k))
      BY <2>0, <3>1, WantedTypes DEF Effective, Wanted, TypeOK, BuiltRecs
    <3>5. ~Pending(k)
      BY <2>0, <3>1 DEF BuildInv, AllBuilt
    <3>6. j \in DOMAIN built[k]
      BY <3>4, <3>5, ElementOf DEF Pending
    <3>7. built[k][j].ref = Effective(k)[j]
      BY <3>1, <3>4, <3>6 DEF BuildInv, BuiltInOrder
    <3> QED
      BY <3>3, <3>6, <3>7
  <2>2. ASSUME NEW i \in DOMAIN built["mcp_binding"]
        PROVE  LET b == built["mcp_binding"][i].value IN
               /\ \A id \in ToSet(b.policies) : <<"policy_pack", id>> \in registered
               /\ b.credential # None => <<"credential_resolver", b.credential>> \in registered
    <3>1. PICK b : b = built["mcp_binding"][i].value
      OBVIOUS
    <3>2. b \in Bindings
      <4>1. built["mcp_binding"] \in Seq(BuiltRecs("mcp_binding"))
        BY <2>0 DEF TypeOK, BuiltKinds, BuiltRecs
      <4>2. built["mcp_binding"][i] \in BuiltRecs("mcp_binding")
        BY <4>1, ElementOf
      <4> QED
        BY <3>1, <4>2 DEF BuiltRecs, Buildable
    <3>3. Missing(b) = {}
      BY <3>1 DEF BuildInv, BindingsResolved
    <3>4. ToSet(References(b)) \subseteq registered
      BY <3>3 DEF Missing, ToSet
    <3> QED
      BY <3>1, <3>2, <3>4, ReferencesOf
  <2> QED
    BY <2>1, <2>2 DEF RequirementsBuilt
<1> QED
    BY <1>1, BuildInvariant, PTL

\* buildManifest and computeCapabilities agree on what the agent has.
THEOREM CapabilitiesAgree == Spec => []CapabilitiesMatch
<1>1. BuildInv => CapabilitiesMatch
    BY DEF BuildInv
<1> QED
    BY <1>1, BuildInvariant, PTL

\* buildManifest: every component listed is registered, and one the author did
\* not declare names the skill, listed too, that brought it in.
THEOREM InjectionsTraceable == Spec => []InjectionTraceable
<1>1. BuildInv => InjectionTraceable
    BY DEF BuildInv
<1> QED
    BY <1>1, BuildInvariant, PTL

\* newToolRouter: in a built agent every tool goes to the pack that defines it.
THEOREM ToolsAreRouted == Spec => []ToolsRouted
<1>1. BuildInv => ToolsRouted
  <2> SUFFICES ASSUME BuildInv, agent # None PROVE ToolsRouted
    BY DEF ToolsRouted
  <2>1. outcome.status = "ok"
    BY DEF BuildInv, TypeOK
  <2> QED
    BY <2>1, BuildAssumption DEF BuildInv, RouterExact, ToolsRouted
<1> QED
    BY <1>1, BuildInvariant, PTL
=============================================================================
