--------------------------- MODULE MCExtendsChain ---------------------------
(* Extends lists of at most MaxList refs, over model-value refs.           *)
EXTENDS ExtendsChain

CONSTANT MaxList

MCLists == UNION {[1 .. n -> Refs] : n \in 0 .. MaxList}
=============================================================================
