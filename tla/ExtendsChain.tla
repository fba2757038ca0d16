---------------------------- MODULE ExtendsChain ----------------------------
(***************************************************************************)
(* spec.resolveExtendsChain: the depth-first walk that turns the extends   *)
(* lists of an agent spec and of its ancestors into one root-first chain.  *)
(* The walk is recursive in the code; here the frames of the recursion are *)
(* the variables path (the refs of the active frames, the code's `path`)   *)
(* and next (their loop indices).  The store is outside the walk: it       *)
(* answers each Load as it likes (a spec with any extends list, or an      *)
(* error), so a file edited between two loads is covered too, and the      *)
(* caller's context may be cancelled at any moment.                        *)
(***************************************************************************)
EXTENDS Integers, Sequences, FiniteSets, Functions

CONSTANTS
    Refs,             \* the refs a spec may extend
    ExtendsLists,     \* the extends lists a stored spec may declare
    MaxExtendsDepth,  \* 8 in the code
    None              \* "not loaded"

ASSUME ExtendsAssumption ==
    /\ ExtendsLists \subseteq Seq(Refs)
    /\ MaxExtendsDepth \in Nat
    /\ None \notin ExtendsLists

VARIABLES
    extends,     \* s.Extends of the spec passed to Normalize
    store,       \* whether a SpecStore was supplied
    cancelled,   \* whether ctx is done
    pc,          \* where the innermost active walk is
    path,        \* refs of the active walk frames below the leaf's
    next,        \* next[d]: the index into the extends list at depth d
    visited,     \* the visited set, shared by the whole walk
    loaded,      \* loaded[r]: the extends list the store returned for r
    chain,       \* the refs whose walk is complete, in completion order
    outcome,     \* "running", "ok" or the reason for failure
    errChain     \* ExtendsError.Chain

vars == <<extends, store, cancelled, pc, path, next, visited, loaded, chain,
          outcome, errChain>>

Depth   == Len(path)
List(d) == IF d = 0 THEN extends ELSE loaded[path[d]]

\* The ref the innermost loop stands at.
Current == List(Depth)[next[Depth]]

\* Mutated form: the loop leaves out the last parent.
AtEndEarly == next[Depth] >= Len(List(Depth))

\* The loop over node.Extends is exhausted.
AtEnd == next[Depth] > Len(List(Depth))

Depths   == 0 .. MaxExtendsDepth + 1
Outcomes == {"running", "ok", "ErrNoSpecStore", "ctx", "depth", "cycle", "load"}

TypeOK ==
    /\ extends \in ExtendsLists
    /\ store \in BOOLEAN
    /\ cancelled \in BOOLEAN
    /\ pc \in {"start", "enter", "loop", "load", "done"}
    /\ path \in Seq(Refs)
    /\ Len(path) \in Depths
    /\ next \in [Depths -> Nat \ {0}]
    /\ visited \in SUBSET Refs
    /\ loaded \in [Refs -> ExtendsLists \cup {None}]
    /\ chain \in Seq(Refs)
    /\ outcome \in Outcomes
    /\ errChain \in Seq(Refs)

Init ==
    /\ extends \in ExtendsLists
    /\ store \in BOOLEAN
    /\ cancelled \in BOOLEAN
    /\ pc = "start"
    /\ path = <<>>
    /\ next = [d \in Depths |-> 1]
    /\ visited = {}
    /\ loaded = [r \in Refs |-> None]
    /\ chain = <<>>
    /\ outcome = "running"
    /\ errChain = <<>>

Fail(reason, refs) ==
    /\ pc' = "done"
    /\ outcome' = reason
    /\ errChain' = refs

Goto(l) == pc' = l /\ UNCHANGED <<outcome, errChain>>

-----------------------------------------------------------------------------
(* Mutated forms: the same steps with one plausible mistake each. *)

\* A visited check that only looks at the active frames' refs: diamonds pass,
\* and the shared ancestor is loaded and merged twice.
VisitOnPathOnly ==
    /\ pc = "loop"
    /\ ~AtEnd
    /\ IF Current \in Range(path)
       THEN Fail("cycle", Append(path, Current)) /\ UNCHANGED visited
       ELSE visited' = visited \cup {Current} /\ Goto("load")
    /\ UNCHANGED <<extends, store, cancelled, path, next, loaded, chain>>

\* The chain in the error lacks the ref that closed the loop.
VisitShortChain ==
    /\ pc = "loop"
    /\ ~AtEnd
    /\ IF Current \in visited
       THEN Fail("cycle", path) /\ UNCHANGED visited
       ELSE visited' = visited \cup {Current} /\ Goto("load")
    /\ UNCHANGED <<extends, store, cancelled, path, next, loaded, chain>>

\* A depth check inside the loop: a spec without parents escapes it.
EnterDepthInLoop ==
    /\ pc = "enter"
    /\ IF cancelled THEN Fail("ctx", <<>>)
       ELSE IF Depth > MaxExtendsDepth /\ List(Depth) # <<>> THEN Fail("depth", path)
       ELSE Goto("loop")
    /\ UNCHANGED <<extends, store, cancelled, path, next, visited, loaded, chain>>

\* A parent added to the chain before its own extends are walked.
LoadPreOrder ==
    /\ pc = "load"
    /\ ~cancelled
    /\ \E l \in ExtendsLists :
         /\ loaded' = [loaded EXCEPT ![Current] = l]
         /\ chain' = Append(chain, Current)
    /\ path' = Append(path, Current)
    /\ next' = [next EXCEPT ![Depth + 1] = 1]
    /\ Goto("enter")
    /\ UNCHANGED <<extends, store, cancelled, visited>>

\* A failed load that is tried again and again, context or not.
LoadRetriesForever ==
    /\ pc = "load"
    /\ UNCHANGED vars

-----------------------------------------------------------------------------
(* The walk. *)

\* Nothing to resolve, no store to resolve with, or walk(s, "", 0, nil).
Start ==
    /\ pc = "start"
    /\ \/ /\ extends = <<>>
          /\ pc' = "done" /\ outcome' = "ok"
          /\ UNCHANGED errChain
       \/ /\ extends # <<>>
          /\ ~store
          /\ Fail("ErrNoSpecStore", <<>>)
       \/ /\ extends # <<>>
          /\ store
          /\ Goto("enter")
    /\ UNCHANGED <<extends, store, cancelled, path, next, visited, loaded, chain>>

\* The head of walk: the context check, then the depth check.
Enter ==
    /\ pc = "enter"
    /\ \/ /\ cancelled
          /\ Fail("ctx", <<>>)
       \/ /\ ~cancelled
          /\ Depth > MaxExtendsDepth
          /\ Fail("depth", path)
       \/ /\ ~cancelled
          /\ Depth <= MaxExtendsDepth
          /\ Goto("loop")
    /\ UNCHANGED <<extends, store, cancelled, path, next, visited, loaded, chain>>

\* The head of the loop body: a visited ref ends the walk, a new one is marked.
Visit ==
    /\ pc = "loop"
    /\ ~AtEnd
    /\ \/ /\ Current \in visited
          /\ Fail("cycle", Append(path, Current))
          /\ UNCHANGED visited
       \/ /\ Current \notin visited
          /\ visited' = visited \cup {Current}
          /\ Goto("load")
    /\ UNCHANGED <<extends, store, cancelled, path, next, loaded, chain>>

\* store.Load fails: the context is done, the ref is unknown, or the file
\* cannot be read or decoded.
LoadFails ==
    /\ pc = "load"
    /\ \/ cancelled /\ Fail("ctx", <<>>)
       \/ ~cancelled /\ Fail("load", <<>>)
    /\ UNCHANGED <<extends, store, cancelled, path, next, visited, loaded, chain>>

\* store.Load returns a spec and the walk recurses into it.
Load ==
    /\ pc = "load"
    /\ ~cancelled
    /\ \E l \in ExtendsLists : loaded' = [loaded EXCEPT ![Current] = l]
    /\ path' = Append(path, Current)
    /\ next' = [next EXCEPT ![Depth + 1] = 1]
    /\ Goto("enter")
    /\ UNCHANGED <<extends, store, cancelled, visited, chain>>

\* A walk returns: its spec joins the chain and the caller's loop moves on;
\* when the leaf's own walk returns the chain is complete.
Return ==
    /\ pc = "loop"
    /\ AtEnd
    /\ \/ /\ Depth = 0
          /\ pc' = "done" /\ outcome' = "ok"
          /\ UNCHANGED <<path, next, chain, errChain>>
       \/ /\ Depth > 0
          /\ chain' = Append(chain, path[Depth])
          /\ path' = SubSeq(path, 1, Depth - 1)
          /\ next' = [next EXCEPT ![Depth - 1] = @ + 1]
          /\ UNCHANGED <<pc, outcome, errChain>>
    /\ UNCHANGED <<extends, store, cancelled, visited, loaded>>

Cancel ==
    /\ pc # "done"
    /\ ~cancelled
    /\ cancelled' = TRUE
    /\ UNCHANGED <<extends, store, pc, path, next, visited, loaded, chain,
                   outcome, errChain>>

Step == Start \/ Enter \/ Visit \/ LoadFails \/ Load \/ Return

Returned == pc = "done" /\ UNCHANGED vars

Next == Step \/ Cancel \/ Returned

Spec == Init /\ [][Next]_vars

FairSpec == Spec /\ WF_vars(Step)

-----------------------------------------------------------------------------
(* Properties. *)

\* What the stored spec r extends, once it has been loaded.
Declares(r) == IF loaded[r] = None THEN {} ELSE Range(loaded[r])

\* Root-first at every moment of the walk: a spec enters the chain after
\* everything it extends, and only once.  mergeChain's child-wins fold is
\* only right on such a chain.
RootFirst ==
    \A i \in DOMAIN chain :
        /\ \A r \in Declares(chain[i]) : \E h \in 1 .. i - 1 : chain[h] = r
        /\ \A h \in 1 .. i - 1 : chain[h] # chain[i]

\* A successful walk returns everything reachable from the leaf and nothing
\* else: what the leaf declares, and every spec the store handed out.
ChainComplete ==
    outcome = "ok" =>
        /\ Range(extends) \subseteq Range(chain)
        /\ Range(chain) = {r \in Refs : loaded[r] # None}

\* The store is asked for a ref at most once per walk, so a spec that changes
\* in the store between two loads cannot appear in two versions.
LoadedOnce == [][\A r \in Refs : loaded[r] # None => loaded'[r] = loaded[r]]_vars

\* The chain of an ExtendsError is a real extends path from the leaf, and it
\* shows the reason: it is one longer than the limit, or it ends in a ref
\* that had been visited before.
ErrorChainIsPath ==
    outcome \in {"depth", "cycle"} =>
        /\ errChain # <<>>
        /\ errChain[1] \in Range(extends)
        /\ \A i \in 1 .. Len(errChain) - 1 : errChain[i + 1] \in Declares(errChain[i])
        /\ outcome = "depth" => Len(errChain) = MaxExtendsDepth + 1
        /\ outcome = "cycle" => errChain[Len(errChain)] \in visited

\* A chain that was accepted has no extends path longer than the limit.
DepthRespected ==
    outcome = "ok" =>
        ~ \E s \in [1 .. MaxExtendsDepth + 1 -> Refs] :
              /\ s[1] \in Range(extends)
              /\ \A i \in 1 .. MaxExtendsDepth : s[i + 1] \in Declares(s[i])

\* Cyclic extends do not hang the walk: it ends whatever the store answers.
Terminates == <>(pc = "done")

-----------------------------------------------------------------------------
(* The inductive invariant behind the safety properties. *)

Walking == pc \in {"enter", "loop", "load"}

\* The active frames form a path of loaded specs, each frame standing at the
\* ref of the frame below it; what a frame has passed is in the chain.
FrameInv ==
    /\ \A d \in 1 .. Depth :
         /\ loaded[path[d]] # None
         /\ next[d - 1] <= Len(List(d - 1))
         /\ path[d] = List(d - 1)[next[d - 1]]
    /\ \A d \in 0 .. Depth : \A j \in 1 .. Len(List(d)) :
         j < next[d] => List(d)[j] \in Range(chain)

\* Loaded, visited, on the path, in the chain: how the four sets relate.
SetInv ==
    /\ {r \in Refs : loaded[r] # None} = Range(chain) \cup Range(path)
    /\ Range(chain) \cap Range(path) = {}
    /\ \A d, e \in 1 .. Depth : path[d] = path[e] => d = e
    /\ pc # "load" => visited = Range(chain) \cup Range(path)
    /\ pc = "load" =>
         /\ ~AtEnd
         /\ Current \notin Range(chain) \cup Range(path)
         /\ visited = Range(chain) \cup Range(path) \cup {Current}

\* Control: what holds before, during and after the walk.
ControlInv ==
    /\ outcome = "running" <=> pc # "done"
    /\ pc = "start" =>
         /\ path = <<>> /\ chain = <<>> /\ visited = {}
         /\ \A r \in Refs : loaded[r] = None
         /\ next[0] = 1
    /\ pc \in {"loop", "load"} => Depth <= MaxExtendsDepth
    /\ pc = "enter" => next[Depth] = 1

IndInv ==
    /\ TypeOK
    /\ ControlInv
    /\ Walking => FrameInv /\ SetInv
    /\ RootFirst
    /\ ChainComplete
    /\ ErrorChainIsPath

\* dep gives every spec the depth it was found at: a frame's ref is at the frame's
\* depth, what a list names is one deeper than the spec that declares it, and
\* nothing below the limit was accepted.
FoundAt(dep) ==
    /\ Walking =>
         /\ \A d \in 1 .. Depth : dep[path[d]] = d
         /\ \A d \in 0 .. Depth : \A j \in 1 .. Len(List(d)) :
              j < next[d] => dep[List(d)[j]] = d + 1
    /\ \A r \in Range(chain) :
         dep[r] <= MaxExtendsDepth /\ \A s \in Declares(r) : dep[s] = dep[r] + 1
    /\ outcome = "ok" => \A r \in Range(extends) : dep[r] = 1

DepthInv == \E dep \in [Refs -> Depths] : FoundAt(dep)
=============================================================================
