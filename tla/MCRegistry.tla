----------------------------- MODULE MCRegistry -----------------------------
(* Three goroutines and two factories that compete for one id of one kind, *)
(* beside the empty table of another kind.                                 *)
EXTENDS Registry

CONSTANTS p1, p2, p3, tool, policy, id1, fa, fb

MCKindOf == [f \in Factories |-> tool]
MCIDOf   == [f \in Factories |-> id1]
=============================================================================
