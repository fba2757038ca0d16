---------------------------- MODULE MCCanonical ----------------------------
(* Maps over two keys and lists of up to two elements, nested twice.         *)
EXTENDS Canonical

MCKeyNames == <<"k1", "k2">>

Collections(s) ==
  {Map(m) : m \in UNION {[ks -> s] : ks \in SUBSET {1, 2}}}
  \cup {List(l) : l \in UNION {[1..n -> s] : n \in 0..2}}

Leaves == {Null, Scalar("a"), Scalar("b")}
Inner == Leaves \cup Collections({Null, Scalar("a")})

\* Ways to leave the second element of a list out, and a repaired Func.
MCEditedTrees ==
  {Map([k \in {1} |-> List(<<Scalar("a")>> \o rest)]) :
     rest \in {<<>>, <<Null>>, <<Map(<<>>)>>, <<List(<<Null>>)>>, <<Scalar("b")>>}}
  \cup {Map([k \in {1} |-> Scalar(Func)])}

\* A spec is a struct: a map at the top.
MCTrees ==
  {Map(m) : m \in [{1} -> Inner]}
  \cup {Map([k \in {1} |-> List(l)]) : l \in [1..2 -> Inner]}
  \cup {Map([k \in {1} |-> Scalar(Func)]), Map([k \in {1, 2} |-> Scalar("a")])}

\* The encoding as a table, which TLC computes once.
MCEncoded == CHOOSE f \in {ComputeCanonicalJSON} : TRUE
=============================================================================
