--------------------------- MODULE CanonicalMemo ---------------------------
(* The memo of a normalized spec (spec/canonical.go): CanonicalJSON and      *)
(* NormalizedHash are two sync.Once memos, the second calling the first,     *)
(* while NormalizedSpec.Spec is an exported field: whoever holds the spec    *)
(* may edit it between calls.  An edit while the encoder reads would be a    *)
(* data race and is left out.  Names start with Memo where the module would  *)
(* clash with Normalize, whose result the memo belongs to.                   *)
EXTENDS Naturals, Sequences

CONSTANTS
  Trees,           \* the specs: trees that json.Marshal yields, or not
  EditedTrees,     \* those that an edit may leave behind
  Encoded,         \* the bytes of each, as computeCanonicalJSON of Canonical has them
  Callers,         \* goroutines that call CanonicalJSON or NormalizedHash
  MaxEdits         \* bound on the edits

ASSUME CanonicalAssumption == EditedTrees \subseteq Trees /\ MaxEdits \in Nat

VARIABLES
  tree,            \* ns.Spec
  edits,           \* how often it was edited
  once,            \* the two sync.Once: "idle", "running", "done"
  memo,            \* their results
  at, op, ret      \* the callers: where they are, what they called, what they got

memoVars == <<tree, edits, once, memo, at, op, ret>>

Memos == {"json", "hash"}

\* SHA-256, taken as injective.
Sum(bytes) == IF bytes = <<>> THEN <<>> ELSE <<"sha256">> \o bytes

MemoInit ==
  /\ tree \in Trees
  /\ edits = 0
  /\ once = [m \in Memos |-> "idle"]
  /\ memo = [m \in Memos |-> <<>>]
  /\ at = [c \in Callers |-> "idle"]
  /\ op = [c \in Callers |-> "json"]
  /\ ret = [c \in Callers |-> <<>>]

Call(c, m) ==
  /\ at[c] = "idle"
  /\ at' = [at EXCEPT ![c] = m]
  /\ op' = [op EXCEPT ![c] = m]
  /\ UNCHANGED <<tree, edits, once, memo, ret>>

\* Mutated form: both methods guard their memo with the first once.
EnterOnceShared(c, m) ==
  /\ at[c] = m
  /\ \/ /\ once["json"] = "idle"
        /\ once' = [once EXCEPT !["json"] = "running"]
        /\ at' = [at EXCEPT ![c] = IF m = "json" THEN "encode" ELSE "inner"]
     \/ /\ once["json"] = "done" /\ once["hash"] = "idle" /\ m = "hash"
        /\ once' = [once EXCEPT !["hash"] = "done"]
        /\ UNCHANGED at
  /\ UNCHANGED <<tree, edits, memo, op, ret>>

\* once.Do: the first caller runs the function, the others wait for it.
EnterOnce(c, m) ==
  /\ at[c] = m /\ once[m] = "idle"
  /\ once' = [once EXCEPT ![m] = "running"]
  /\ at' = [at EXCEPT ![c] = IF m = "json" THEN "encode" ELSE "inner"]
  /\ UNCHANGED <<tree, edits, memo, op, ret>>

\* CanonicalJSON: the function of the first once.
Encode(c) ==
  /\ at[c] = "encode"
  /\ memo' = [memo EXCEPT !["json"] = Encoded[tree]]
  /\ once' = [once EXCEPT !["json"] = "done"]
  /\ at' = [at EXCEPT ![c] = IF op[c] = "json" THEN "json" ELSE "inner"]
  /\ UNCHANGED <<tree, edits, op, ret>>

\* NormalizedHash inside its once: CanonicalJSON, from its own memo or not.
InnerOnce(c) ==
  /\ at[c] = "inner" /\ once["json"] = "idle"
  /\ once' = [once EXCEPT !["json"] = "running"]
  /\ at' = [at EXCEPT ![c] = "encode"]
  /\ UNCHANGED <<tree, edits, memo, op, ret>>

\* Mutated form: the hash is computed from the spec, not from the memo.
SumUpFresh(c) ==
  /\ at[c] = "inner" /\ once["json"] = "done"
  /\ memo' = [memo EXCEPT !["hash"] = Sum(Encoded[tree])]
  /\ once' = [once EXCEPT !["hash"] = "done"]
  /\ at' = [at EXCEPT ![c] = "hash"]
  /\ UNCHANGED <<tree, edits, op, ret>>

SumUp(c) ==
  /\ at[c] = "inner" /\ once["json"] = "done"
  /\ memo' = [memo EXCEPT !["hash"] = Sum(memo["json"])]
  /\ once' = [once EXCEPT !["hash"] = "done"]
  /\ at' = [at EXCEPT ![c] = "hash"]
  /\ UNCHANGED <<tree, edits, op, ret>>

Return(c, m) ==
  /\ at[c] = m /\ once[m] = "done"
  /\ ret' = [ret EXCEPT ![c] = memo[m]]
  /\ at' = [at EXCEPT ![c] = "returned"]
  /\ UNCHANGED <<tree, edits, once, memo, op>>

Edit(v) ==
  /\ edits < MaxEdits /\ \A c \in Callers : at[c] # "encode"
  /\ tree' = v
  /\ edits' = edits + 1
  /\ UNCHANGED <<once, memo, at, op, ret>>

Step(c) ==
  \/ \E m \in Memos : EnterOnce(c, m) \/ Return(c, m)
  \/ Encode(c) \/ InnerOnce(c) \/ SumUp(c)

MemoNext ==
  \/ \E c \in Callers : Step(c) \/ \E m \in Memos : Call(c, m)
  \/ \E v \in EditedTrees : Edit(v)

MemoSpec == MemoInit /\ [][MemoNext]_memoVars /\ \A c \in Callers : WF_memoVars(Step(c))

-----------------------------------------------------------------------------
(* Properties *)

Bytes == {<<>>} \cup {Encoded[v] : v \in Trees}
Answers == Bytes \cup {Sum(b) : b \in Bytes}

\* A caller inside the function of a once.
Inside(c, m) ==
  \/ m = "json" /\ at[c] = "encode"
  \/ m = "hash" /\ op[c] = "hash" /\ at[c] \in {"inner", "encode"}

\* Type invariant: the memos and the callers; a once runs while a caller is inside.
MemoTypeOK ==
  /\ tree \in Trees /\ edits \in 0..MaxEdits
  /\ once \in [Memos -> {"idle", "running", "done"}]
  /\ memo \in [Memos -> Answers] /\ memo["json"] \in Bytes
  /\ at \in [Callers -> Memos \cup {"idle", "encode", "inner", "returned"}]
  /\ op \in [Callers -> Memos]
  /\ ret \in [Callers -> Answers]
  /\ \A m \in Memos : once[m] # "done" => memo[m] = <<>>
  /\ \A m \in Memos : once[m] = "running" <=> \E c \in Callers : Inside(c, m)

Served(c) == at[c] = "returned"

\* Whenever and however often they are asked, the memos give one answer: the same
\* bytes to every caller, and the hash of exactly those bytes (or no hash and no
\* bytes), even when the spec is edited between the calls.
OneAnswer ==
  \A c, d \in Callers : Served(c) /\ Served(d) =>
    /\ op[c] = op[d] => ret[c] = ret[d]
    /\ op[c] = "json" /\ op[d] = "hash" => ret[d] = Sum(ret[c])

\* Inductive invariant: one caller is inside a once, a hash is the hash of the
\* bytes kept, and who returned has what is kept.
MemoInv ==
  /\ MemoTypeOK
  /\ \A m \in Memos, c, d \in Callers : Inside(c, m) /\ Inside(d, m) => c = d
  /\ \A c \in Callers :
       /\ at[c] \in Memos => op[c] = at[c]
       /\ at[c] = "inner" => op[c] = "hash"
       /\ Served(c) => once[op[c]] = "done" /\ ret[c] = memo[op[c]]
  /\ once["hash"] = "done" => once["json"] = "done" /\ memo["hash"] = Sum(memo["json"])

\* Every call returns: NormalizedHash, which calls CanonicalJSON inside its own
\* once, never waits for a once that it is itself running.
CallersReturn == \A c \in Callers : at[c] # "idle" ~> Served(c)
=============================================================================
