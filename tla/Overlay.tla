------------------------------ MODULE Overlay -------------------------------
(* Overlay files: spec.LoadOverlay decodes a document into the overlay that  *)
(* Normalize applies.  yaml.v3 does not call UnmarshalYAML for a null, so    *)
(* the decoders tell "absent" from "null" by hand, for the lists only.       *)
(*                                                                           *)
(* A document is its envelope and a body: a function from the keys it        *)
(* mentions to nodes.  A node is Null, Malformed (of another kind; metadata  *)
(* with an unknown key) or what it holds.                                    *)
EXTENDS Normalize

CONSTANTS
    Null, Malformed,
    RefLists,            \* the overlay slots that are lists: tools, policies
    ExpectedAPIVersion

ASSUME OverlayAssumption ==
    RefLists \subseteq OverlaySlots /\ Null # Malformed

AllowedFields == OverlaySlots \cup {"metadata", "prompt", "filters"}

\* Mutated form: the null never reaches the decoder.
DecodeRefListYAML(node) ==
    IF node = Malformed THEN {} ELSE {IF node = Null THEN Absent ELSE node}

\* A list: null clears it.  The result of a decoder is one value, or none.
DecodeRefList(node) ==
    IF node = Malformed THEN {} ELSE {IF node = Null THEN None ELSE node}

\* A pointer field: null is the same as absent.
DecodePointer(node) ==
    IF node = Malformed THEN {} ELSE {IF node = Null THEN Absent ELSE node}

\* FilterOverlay: one list per stage, and no other keys.
DecodeFilters(node) ==
    IF node \in {Null, Malformed} THEN DecodePointer(node)
    ELSE {f \in [Stages -> Optional \cup {Absent}] :
            /\ DOMAIN node \subseteq Stages
            /\ \A s \in Stages : f[s] \in IF s \in DOMAIN node THEN DecodeRefList(node[s])
                                                               ELSE {Absent}}

DecodeField(f, node) ==
    CASE f \in RefLists  -> DecodeRefList(node)
      [] f = "filters"   -> DecodeFilters(node)
      [] OTHER           -> DecodePointer(node)

\* AgentOverlayBody.UnmarshalYAML
DecodeBody(body) ==
    IF /\ DOMAIN body \subseteq AllowedFields
       /\ \A f \in DOMAIN body : DecodeField(f, body[f]) # {}
    THEN {[f \in AllowedFields |->
             IF f \in DOMAIN body THEN CHOOSE x \in DecodeField(f, body[f]) : TRUE ELSE Absent]}
    ELSE {}

\* What an overlay layer was loaded from, if it was: a document that decodes to it.
\* A node of a document is never the mark for a missing one.
ASSUME DocumentAssumption ==
    /\ Absent \notin [Stages -> Optional \cup {Absent}]
    /\ \A ov \in OverlayLayers \ {Nil} : ov.doc # Nil =>
         /\ ov.body \in DecodeBody(ov.doc)
         /\ \A f \in DOMAIN ov.doc : ov.doc[f] # Absent
         /\ "filters" \in DOMAIN ov.doc /\ ov.doc.filters # Null =>
              \A s \in DOMAIN ov.doc.filters : ov.doc.filters[s] # Absent

\* LoadOverlay: one overlay, or none.  The document is kept beside the overlay
\* for the properties.
LoadOverlay(doc) ==
    IF doc.apiVersion = ExpectedAPIVersion /\ doc.kind = "AgentOverlay"
    THEN {[apiVersion |-> doc.apiVersion, body |-> b, doc |-> doc.body] : b \in DecodeBody(doc.body)}
    ELSE {}

-----------------------------------------------------------------------------
(* Properties *)

FromFiles == \A i \in DOMAIN overlays : overlays[i] = Nil \/ overlays[i].doc # Nil

\* The documents that have something to say about f: a list that is mentioned,
\* be it to clear it, and any other field that is not null.
Mentions(f) ==
    {i \in DOMAIN overlays : /\ overlays[i] # Nil /\ f \in DOMAIN overlays[i].doc
                             /\ f \in RefLists \/ overlays[i].doc[f] # Null}

Meant(node) == IF node = Null THEN None ELSE node

\* From file to spec: the last overlay document that mentions a list decides it,
\* null and [] clear it, and a document that leaves it out, or is null in a field
\* where null means nothing, changes nothing (RefList, decodeRefList, applyOne).
DocumentsDecide ==
    outcome = "ok" /\ FromFiles =>
        /\ \A f \in OverlaySlots :
              merged[f] = IF Mentions(f) = {} THEN LastSpec(f)[f]
                          ELSE Meant(overlays[Max(Mentions(f))].doc[f])
        /\ \A s \in Stages :
              LET by == {i \in Mentions("filters") : s \in DOMAIN overlays[i].doc["filters"]}
              IN  merged.filters[s] =
                    IF by = {} THEN LastSpec("filters").filters[s]
                    ELSE Meant(overlays[Max(by)].doc["filters"][s])
=============================================================================
