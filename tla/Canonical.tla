----------------------------- MODULE Canonical -----------------------------
(* The canonical encoding of a spec (spec/canonical.go), which the memo of   *)
(* CanonicalMemo has as Encoded.                                             *)
(*                                                                           *)
(* A decoded JSON tree is a tagged record: null, a scalar, a map from keys   *)
(* (positions in KeyNames) or a list.  The encoding is a sequence of tokens. *)
EXTENDS CanonicalMemo, FiniteSets, SequencesExt

CONSTANTS
  KeyNames,        \* the keys of maps, in sort order
  Func             \* a scalar that encoding/json rejects

Null == [t |-> "null"]
Scalar(v) == [t |-> "scalar", v |-> v]
Map(m) == [t |-> "map", m |-> m]
List(l) == [t |-> "list", l |-> l]

-----------------------------------------------------------------------------
(* The encoding *)

RestrictTo(m, keys) == [k \in keys |-> m[k]]

RECURSIVE PruneShallow(_)

\* Mutated form: a collection whose members were all pruned stays, empty.
PruneShallow(v) ==
  CASE v.t = "map" ->
         LET out == [k \in DOMAIN v.m |-> PruneShallow(v.m[k])]
             keys == {k \in DOMAIN out : out[k] # Null}
         IN  IF DOMAIN v.m = {} THEN Null ELSE Map(RestrictTo(out, keys))
    [] v.t = "list" ->
         LET out == SelectSeq([i \in DOMAIN v.l |-> PruneShallow(v.l[i])], LAMBDA x : x # Null)
         IN  IF v.l = <<>> THEN Null ELSE List(out)
    [] OTHER -> v

RECURSIVE PruneEmpty(_)

\* pruneEmpty: bottom-up, nulls and what became empty go.
PruneEmpty(v) ==
  CASE v.t = "map" ->
         LET out == [k \in DOMAIN v.m |-> PruneEmpty(v.m[k])]
             keys == {k \in DOMAIN out : out[k] # Null}
         IN  IF keys = {} THEN Null ELSE Map(RestrictTo(out, keys))
    [] v.t = "list" ->
         LET out == SelectSeq([i \in DOMAIN v.l |-> PruneEmpty(v.l[i])], LAMBDA x : x # Null)
         IN  IF out = <<>> THEN Null ELSE List(out)
    [] OTHER -> v

\* The members of a map or list, with commas between them.
Separate(parts) ==
  FlattenSeq([i \in DOMAIN parts |-> IF i = 1 THEN parts[i] ELSE <<",">> \o parts[i]])

RECURSIVE CanonicalEncode(_)

\* canonicalEncode: map keys in sorted order, list elements in list order.
CanonicalEncode(v) ==
  CASE v.t = "null" -> <<"null">>
    [] v.t = "scalar" -> <<v.v>>
    [] v.t = "map" ->
         LET keys == SetToSortSeq(DOMAIN v.m, <)
         IN  <<"{">> \o Separate([i \in DOMAIN keys |-> <<KeyNames[keys[i]], ":">> \o CanonicalEncode(v.m[keys[i]])])
             \o <<"}">>
    [] v.t = "list" -> <<"[">> \o Separate([i \in DOMAIN v.l |-> CanonicalEncode(v.l[i])]) \o <<"]">>

RECURSIVE Marshals(_)

Marshals(v) ==
  CASE v.t = "scalar" -> v.v # Func
    [] v.t = "map" -> \A k \in DOMAIN v.m : Marshals(v.m[k])
    [] v.t = "list" -> \A i \in DOMAIN v.l : Marshals(v.l[i])
    [] OTHER -> TRUE

\* computeCanonicalJSON; no bytes stand for an error.
ComputeCanonicalJSON ==
  [v \in Trees |-> IF Marshals(v) THEN CanonicalEncode(PruneEmpty(v)) ELSE <<>>]

\* The reference for what a spec says: Says(v) is the set of paths to its scalars,
\* where a list index counts the earlier elements that say something.
RECURSIVE Says(_)

Says(v) ==
  CASE v.t = "scalar" -> {<<v.v>>}
    [] v.t = "map" -> UNION {{<<"key", k>> \o p : p \in Says(v.m[k])} : k \in DOMAIN v.m}
    [] v.t = "list" ->
         UNION {{<<"item", Cardinality({j \in 1..i - 1 : Says(v.l[j]) # {}})>> \o p : p \in Says(v.l[i])}
                  : i \in DOMAIN v.l}
    [] OTHER -> {}

-----------------------------------------------------------------------------
(* Properties *)

\* Two specs have the same bytes exactly when they say the same: no order of keys,
\* nesting or separator makes different specs collide or equal ones differ.
EncodingExact ==
  edits = 0 /\ (\A c \in Callers : at[c] = "idle") /\ Marshals(tree) =>
    \A v \in Trees : Marshals(v) =>
      (ComputeCanonicalJSON[v] = ComputeCanonicalJSON[tree] <=> Says(v) = Says(tree))
=============================================================================
