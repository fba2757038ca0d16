------------------------- MODULE ExtendsChainProofs -------------------------
(***************************************************************************)
(* Proofs about ExtendsChain, for any set of refs, any store and any depth *)
(* limit: the chain is root-first and complete, each ref is loaded once,   *)
(* no accepted extends path is longer than the limit, and the chain of an  *)
(* error is a real extends path.                                           *)
(***************************************************************************)
EXTENDS ExtendsChain, DataLemmas, SequenceTheorems, TLAPS

\* Appending adds one element to the range.
LEMMA RangeAppend ==
    ASSUME NEW S, NEW s \in Seq(S), NEW e \in S
    PROVE  /\ Append(s, e) \in Seq(S)
           /\ Len(Append(s, e)) = Len(s) + 1
           /\ \A i \in 1 .. Len(s) : Append(s, e)[i] = s[i]
           /\ Append(s, e)[Len(s) + 1] = e
           /\ Range(Append(s, e)) = Range(s) \cup {e}
<1>1. /\ Append(s, e) \in Seq(S)
      /\ Len(Append(s, e)) = Len(s) + 1
      /\ DOMAIN Append(s, e) = 1 .. Len(s) + 1
      /\ DOMAIN s = 1 .. Len(s)
      /\ \A i \in 1 .. Len(s) : Append(s, e)[i] = s[i]
      /\ Append(s, e)[Len(s) + 1] = e
    OBVIOUS
<1>2. Len(s) \in Nat
    OBVIOUS
<1>3. ASSUME NEW x \in Range(Append(s, e)) PROVE x \in Range(s) \cup {e}
    BY <1>1, <1>2, <1>3 DEF Range
<1>4. ASSUME NEW x \in Range(s) \cup {e} PROVE x \in Range(Append(s, e))
    BY <1>1, <1>2, <1>4 DEF Range
<1> QED
    BY <1>1, <1>3, <1>4

\* Removing the last element.
LEMMA RangeFront ==
    ASSUME NEW S, NEW s \in Seq(S), Len(s) > 0
    PROVE  LET t == SubSeq(s, 1, Len(s) - 1) IN
           /\ t \in Seq(S)
           /\ Len(t) = Len(s) - 1
           /\ \A i \in 1 .. Len(s) - 1 : t[i] = s[i]
           /\ Range(s) = Range(t) \cup {s[Len(s)]}
           /\ s[Len(s)] \in S
<1> DEFINE t == SubSeq(s, 1, Len(s) - 1)
<1>1. /\ t \in Seq(S)
      /\ Len(t) = Len(s) - 1
      /\ DOMAIN t = 1 .. Len(s) - 1
      /\ DOMAIN s = 1 .. Len(s)
      /\ \A i \in 1 .. Len(s) - 1 : t[i] = s[i]
      /\ Len(s) \in Nat
      /\ s[Len(s)] \in S
    <2>1. Len(s) \in Nat /\ DOMAIN s = 1 .. Len(s) /\ \A i \in 1 .. Len(s) : s[i] \in S
        OBVIOUS
    <2>2. \A i \in 1 .. Len(s) - 1 : s[i] \in S
        BY <2>1
    <2>3. /\ t \in Seq(S)
          /\ Len(t) = IF 1 <= Len(s) - 1 THEN Len(s) - 1 - 1 + 1 ELSE 0
          /\ \A i \in 1 .. Len(s) - 1 - 1 + 1 : t[i] = s[1 + i - 1]
        BY <2>1, <2>2, SubSeqProperties
    <2> QED
        BY <2>1, <2>3
<1>2. Range(s) = Range(t) \cup {s[Len(s)]}
    <2> HIDE DEF t
    <2>1. ASSUME NEW x \in Range(s) PROVE x \in Range(t) \cup {s[Len(s)]}
        <3>1. PICK i \in 1 .. Len(s) : x = s[i]
            BY <1>1, <2>1 DEF Range
        <3>2. i = Len(s) \/ i \in 1 .. Len(s) - 1
            BY <1>1
        <3> QED
            BY <1>1, <3>1, <3>2 DEF Range
    <2>2. ASSUME NEW x \in Range(t) \cup {s[Len(s)]} PROVE x \in Range(s)
        BY <1>1, <2>2 DEF Range
    <2> QED
        BY <2>1, <2>2
<1> QED
    BY <1>1, <1>2

\* The extends list of every active frame is one the store may return.
LEMMA ListType ==
    ASSUME IndInv, Walking, NEW d \in 0 .. Depth
    PROVE  List(d) \in ExtendsLists /\ List(d) \in Seq(Refs)
<1>1. CASE d = 0
    BY <1>1, ExtendsAssumption DEF IndInv, TypeOK, List
<1>2. CASE d # 0
    <2>1. d \in 1 .. Depth /\ path[d] \in Refs
        BY <1>2 DEF IndInv, TypeOK, Depth
    <2>2. loaded[path[d]] # None /\ loaded[path[d]] \in ExtendsLists \cup {None}
        BY <2>1 DEF IndInv, FrameInv, TypeOK
    <2> QED
        BY <1>2, <2>2, ExtendsAssumption DEF List
<1> QED
    BY <1>1, <1>2

\* The loop stands at a ref whenever it is not exhausted.
LEMMA CurrentType ==
    ASSUME IndInv, Walking, ~AtEnd
    PROVE  /\ Current \in Refs
           /\ next[Depth] \in 1 .. Len(List(Depth))
           /\ Depth \in Nat /\ Depth \in Depths
<1>1. Depth \in Nat /\ Depth \in 0 .. Depth /\ Depth \in Depths
    BY DEF IndInv, TypeOK, Depth
<1>2. List(Depth) \in Seq(Refs)
    BY <1>1, ListType
<1>3. next[Depth] \in Nat \ {0} /\ ~(next[Depth] > Len(List(Depth)))
    BY <1>1 DEF IndInv, TypeOK, AtEnd
<1>4. next[Depth] \in 1 .. Len(List(Depth))
    BY <1>2, <1>3
<1> QED
    BY <1>1, <1>2, <1>4 DEF Current

\* The walk starts in the invariant.
LEMMA InitIndInv == Init => IndInv
<1> SUFFICES ASSUME Init PROVE IndInv
    OBVIOUS
<1>1. TypeOK
    BY ExtendsAssumption DEF Init, TypeOK, Depths, Outcomes
<1>2. ControlInv
    BY ExtendsAssumption DEF Init, ControlInv, Depths, Depth
<1>3. ~Walking /\ RootFirst /\ ChainComplete /\ ErrorChainIsPath
    BY DEF Init, Walking, RootFirst, ChainComplete, ErrorChainIsPath
<1> QED
    BY <1>1, <1>2, <1>3 DEF IndInv

\* A step that leaves the walk's data alone keeps what is said about it.
LEMMA SameWalk ==
    ASSUME UNCHANGED <<extends, path, next, loaded, chain>>
    PROVE  /\ Depth' = Depth /\ AtEnd' = AtEnd /\ Current' = Current
           /\ FrameInv => FrameInv'
           /\ RootFirst => RootFirst'
           /\ \A r : Declares(r)' = Declares(r)
<1>1. \A d : List(d)' = List(d)
    BY DEF List
<1>2. Depth' = Depth
    BY DEF Depth
<1>3. AtEnd' = AtEnd /\ Current' = Current
    BY <1>1, <1>2 DEF AtEnd, Current
<1>4. \A r : Declares(r)' = Declares(r)
    BY DEF Declares
<1>5. FrameInv => FrameInv'
    BY <1>1, <1>2 DEF FrameInv
<1>6. RootFirst => RootFirst'
    BY <1>4 DEF RootFirst
<1> QED
    BY <1>2, <1>3, <1>4, <1>5, <1>6

\* The refs of the active frames are an extends path from the leaf.
LEMMA PathIsPath ==
    ASSUME IndInv, Walking
    PROVE  /\ Depth > 0 => path[1] \in Range(extends)
           /\ \A i \in 1 .. Depth - 1 : path[i + 1] \in Declares(path[i])
           /\ ~AtEnd /\ Depth = 0 => Current \in Range(extends)
           /\ ~AtEnd /\ Depth > 0 => Current \in Declares(path[Depth])
<1> USE ExtendsAssumption
<1>0. TypeOK /\ FrameInv
    BY DEF IndInv
<1>1. Depth \in Nat /\ Depth \in Depths /\ path \in Seq(Refs) /\ DOMAIN path = 1 .. Depth
    BY <1>0 DEF TypeOK, Depth
<1>2. ASSUME NEW d \in 0 .. Depth, NEW j \in 1 .. Len(List(d))
      PROVE  /\ d = 0 => List(d)[j] \in Range(extends)
             /\ d > 0 => List(d)[j] \in Declares(path[d])
    <2>1. List(d) \in Seq(Refs)
        BY ListType
    <2>2. DOMAIN List(d) = 1 .. Len(List(d))
        BY <2>1
    <2>3. List(d)[j] \in Range(List(d))
        BY <2>2 DEF Range
    <2>4. CASE d = 0
        BY <2>3, <2>4 DEF List
    <2>5. CASE d > 0
        <3>1. path[d] \in Refs /\ loaded[path[d]] # None
            BY <1>0, <1>1, <2>5 DEF FrameInv
        <3>2. List(d) = loaded[path[d]]
            BY <2>5 DEF List
        <3> QED
            BY <2>3, <2>5, <3>1, <3>2 DEF Declares
    <2> QED
        BY <2>4, <2>5
<1>3. ASSUME NEW d \in 0 .. Depth - 1
      PROVE  next[d] \in 1 .. Len(List(d)) /\ path[d + 1] = List(d)[next[d]]
    <2>1. d + 1 \in 1 .. Depth /\ (d + 1) - 1 = d /\ d \in Depths /\ d \in 0 .. Depth
        BY <1>1 DEF Depths
    <2>2. next[d] <= Len(List(d)) /\ path[d + 1] = List(d)[next[d]]
        BY <1>0, <2>1 DEF FrameInv
    <2>3. next[d] \in Nat \ {0} /\ Len(List(d)) \in Nat
        BY <1>0, <2>1, ListType DEF TypeOK
    <2> QED
        BY <2>2, <2>3
<1>4. Depth > 0 => path[1] \in Range(extends)
    BY <1>1, <1>2, <1>3
<1>5. ASSUME NEW i \in 1 .. Depth - 1 PROVE path[i + 1] \in Declares(path[i])
    <2>1. i \in 0 .. Depth - 1 /\ i \in 0 .. Depth /\ i > 0
        BY <1>1
    <2> QED
        BY <1>2, <1>3, <2>1
<1>6. ASSUME ~AtEnd
      PROVE  /\ Depth = 0 => Current \in Range(extends)
             /\ Depth > 0 => Current \in Declares(path[Depth])
    <2>1. next[Depth] \in 1 .. Len(List(Depth)) /\ Depth \in 0 .. Depth
        BY <1>1, <1>6, CurrentType
    <2> QED
        BY <1>2, <2>1 DEF Current
<1> QED
    BY <1>4, <1>5, <1>6

\* The walk begins with no frame below the leaf's and nothing marked.
LEMMA StartStep == IndInv /\ Start => IndInv'
<1> SUFFICES ASSUME IndInv, Start PROVE IndInv'
    OBVIOUS
<1> USE ExtendsAssumption
<1>0. TypeOK /\ ControlInv /\ RootFirst
    BY DEF IndInv
<1>1. UNCHANGED <<extends, path, next, loaded, chain>> /\ UNCHANGED <<visited, cancelled, store>>
    BY DEF Start
<1>2. path = <<>> /\ chain = <<>> /\ visited = {} /\ next[0] = 1
      /\ \A r \in Refs : loaded[r] = None
    BY <1>0 DEF Start, ControlInv
<1>3. TypeOK'
    <2>1. /\ pc' \in {"done", "enter"} /\ errChain' \in Seq(Refs)
          /\ outcome' \in {"ok", "ErrNoSpecStore", "running"}
        <3>1. <<>> \in Seq(Refs) /\ errChain \in Seq(Refs) /\ outcome = "running"
            BY <1>0 DEF TypeOK, ControlInv, Start
        <3> QED
            BY <3>1 DEF Start, Fail, Goto
    <2> QED
        BY <1>0, <1>1, <2>1 DEF TypeOK, Outcomes
<1>4. pc' \in {"done", "enter"} /\ (pc' = "done" <=> outcome' # "running")
      /\ outcome' \notin {"cycle", "depth"} /\ (outcome' = "ok" => extends = <<>>)
    BY <1>0 DEF Start, Fail, Goto, ControlInv
<1>5. Depth = 0 /\ Range(chain) = {} /\ Range(path) = {}
    BY <1>2 DEF Depth, Range
<1>6. ControlInv'
    BY <1>1, <1>2, <1>4, <1>5, SameWalk DEF ControlInv
<1>7. FrameInv
    <2>1. List(0) = extends /\ extends \in Seq(Refs)
        BY <1>0 DEF List, TypeOK
    <2>2. \A d \in 0 .. Depth : \A j \in 1 .. Len(List(d)) : ~(j < next[d])
        BY <1>2, <1>5, <2>1
    <2> QED
        BY <1>5, <2>2 DEF FrameInv
<1>8. SetInv'
    BY <1>1, <1>2, <1>4, <1>5, SameWalk DEF SetInv
<1>9. RootFirst'
    BY <1>0, <1>1, SameWalk
<1>10. ChainComplete'
    <2>1. extends = <<>> => Range(extends) = {}
        BY DEF Range
    <2>2. Range(chain)' = {} /\ Range(extends)' = Range(extends)
        BY <1>1, <1>5 DEF Range
    <2> QED
        BY <1>1, <1>2, <1>4, <2>1, <2>2 DEF ChainComplete
<1>11. ErrorChainIsPath'
    BY <1>4 DEF ErrorChainIsPath
<1> QED
    BY <1>1, <1>3, <1>6, <1>7, <1>8, <1>9, <1>10, <1>11, SameWalk DEF IndInv

\* The head of walk changes no data; a depth error carries the whole path.
LEMMA EnterStep == IndInv /\ Enter => IndInv'
<1> SUFFICES ASSUME IndInv, Enter PROVE IndInv'
    OBVIOUS
<1> USE ExtendsAssumption
<1>0. TypeOK /\ ControlInv /\ RootFirst /\ Walking /\ FrameInv /\ SetInv
    BY DEF IndInv, Enter, Walking
<1>1. UNCHANGED <<extends, path, next, loaded, chain>> /\ UNCHANGED <<visited, cancelled, store>>
    BY DEF Enter
<1>2. Depth \in Nat /\ Depth <= MaxExtendsDepth + 1
    BY <1>0 DEF TypeOK, Depth, Depths
<1>o. outcome = "running"
    BY <1>0 DEF ControlInv, Enter
<1>3. TypeOK'
    <2>1. /\ pc' \in {"done", "loop"} /\ errChain' \in Seq(Refs)
          /\ outcome' \in {"ctx", "depth", "running"}
        <3>1. <<>> \in Seq(Refs) /\ errChain \in Seq(Refs) /\ path \in Seq(Refs)
            BY <1>0 DEF TypeOK
        <3> QED
            BY <1>o, <3>1 DEF Enter, Fail, Goto
    <2> QED
        BY <1>0, <1>1, <2>1 DEF TypeOK, Outcomes
<1>4. \/ pc' = "loop" /\ outcome' = outcome /\ Depth <= MaxExtendsDepth
      \/ pc' = "done" /\ outcome' = "ctx"
      \/ /\ pc' = "done" /\ outcome' = "depth" /\ errChain' = path
         /\ Depth > MaxExtendsDepth
    BY DEF Enter, Fail, Goto
<1>5. ControlInv'
    BY <1>0, <1>1, <1>4, SameWalk DEF ControlInv, Enter
<1>6. SetInv'
    BY <1>0, <1>1, <1>4, SameWalk DEF SetInv, Enter
<1>7. ChainComplete'
    BY <1>0, <1>4 DEF ChainComplete, ControlInv, Enter
<1>8. ErrorChainIsPath'
    <2>1. CASE outcome' = "depth"
        <3>0. Depth = MaxExtendsDepth + 1 /\ Depth > 0
            BY <1>o, <1>2, <1>4, <2>1
        <3>1. Len(path) = MaxExtendsDepth + 1 /\ path # <<>> /\ Depth > 0
            BY <3>0 DEF Depth
        <3> QED
            BY <1>0, <1>1, <1>4, <2>1, <3>1, PathIsPath, SameWalk DEF ErrorChainIsPath, Depth
    <2>2. CASE outcome' # "depth"
        BY <1>0, <1>4, <2>2 DEF ErrorChainIsPath, ControlInv, Enter
    <2> QED
        BY <2>1, <2>2
<1> QED
    BY <1>0, <1>1, <1>3, <1>5, <1>6, <1>7, <1>8, SameWalk DEF IndInv

\* Marking a ref, or ending the walk at one that is marked.
LEMMA VisitStep == IndInv /\ Visit => IndInv'
<1> SUFFICES ASSUME IndInv, Visit PROVE IndInv'
    OBVIOUS
<1> USE ExtendsAssumption
<1>0. TypeOK /\ ControlInv /\ RootFirst /\ Walking /\ FrameInv /\ SetInv /\ ~AtEnd
    BY DEF IndInv, Visit, Walking
<1>1. UNCHANGED <<extends, path, next, loaded, chain>> /\ UNCHANGED <<cancelled, store>>
    BY DEF Visit
<1>2. Current \in Refs /\ path \in Seq(Refs)
    BY <1>0, CurrentType DEF TypeOK
<1>3. \/ /\ pc' = "done" /\ outcome' = "cycle" /\ errChain' = Append(path, Current)
         /\ Current \in visited /\ visited' = visited
      \/ /\ pc' = "load" /\ outcome' = outcome /\ errChain' = errChain
         /\ Current \notin visited /\ visited' = visited \cup {Current}
    BY DEF Visit, Fail, Goto
<1>4. Append(path, Current) \in Seq(Refs)
    BY <1>2
<1>5. TypeOK'
    BY <1>0, <1>1, <1>2, <1>3, <1>4 DEF TypeOK, Outcomes
<1>6. ControlInv'
    BY <1>0, <1>1, <1>3, SameWalk DEF ControlInv, Visit
<1>7. Walking' => SetInv'
    BY <1>0, <1>1, <1>3, SameWalk DEF SetInv, Visit, Walking
<1>8. ChainComplete'
    BY <1>0, <1>3 DEF ChainComplete, ControlInv, Visit
<1>9. ErrorChainIsPath'
    <2>1. CASE outcome' = "cycle"
        <3>1. errChain' = Append(path, Current) /\ Current \in visited'
            BY <1>0, <1>3, <2>1 DEF ControlInv, Visit
        <3> DEFINE e == Append(path, Current)
        <3>2. /\ Len(e) = Depth + 1
              /\ \A i \in 1 .. Depth : e[i] = path[i]
              /\ e[Depth + 1] = Current
            BY <1>2, RangeAppend DEF Depth
        <3>3. Depth \in Nat
            BY <1>2 DEF Depth
        <3>4. e # <<>>
            BY <1>2
        <3> HIDE DEF e
        <3>5. e[1] \in Range(extends)
            BY <1>0, <3>2, <3>3, PathIsPath
        <3>6. ASSUME NEW i \in 1 .. Len(e) - 1 PROVE e[i + 1] \in Declares(e[i])
            <4>1. CASE i = Depth
                BY <1>0, <3>2, <3>3, <4>1, PathIsPath
            <4>2. CASE i # Depth
                BY <1>0, <3>2, <3>3, <4>2, PathIsPath
            <4> QED
                BY <4>1, <4>2
        <3>7. e[Len(e)] \in visited'
            BY <3>1, <3>2, <3>3
        <3> QED
            BY <1>1, <2>1, <3>1, <3>4, <3>5, <3>6, <3>7, SameWalk
            DEF ErrorChainIsPath, e
    <2>2. CASE outcome' # "cycle"
        BY <1>0, <1>3, <2>2 DEF ErrorChainIsPath, ControlInv, Visit
    <2> QED
        BY <2>1, <2>2
<1> QED
    BY <1>0, <1>1, <1>5, <1>6, <1>7, <1>8, <1>9, SameWalk DEF IndInv

\* A failed load ends the walk.
LEMMA LoadFailsStep == IndInv /\ LoadFails => IndInv'
<1> SUFFICES ASSUME IndInv, LoadFails PROVE IndInv'
    OBVIOUS
<1>0. TypeOK /\ ControlInv /\ RootFirst
    BY DEF IndInv
<1>1. UNCHANGED <<extends, path, next, loaded, chain>> /\ UNCHANGED <<visited, cancelled, store>>
    BY DEF LoadFails
<1>2. pc' = "done" /\ outcome' \in {"ctx", "load"} /\ errChain' = <<>>
    BY DEF LoadFails, Fail
<1>3. TypeOK'
    BY <1>0, <1>1, <1>2 DEF TypeOK, Outcomes
<1>4. ControlInv' /\ ~Walking' /\ ChainComplete' /\ ErrorChainIsPath'
    BY <1>2 DEF ControlInv, Walking, ChainComplete, ErrorChainIsPath
<1> QED
    BY <1>0, <1>1, <1>3, <1>4, SameWalk DEF IndInv

\* A load opens a frame for a ref that is neither on the path nor in the chain,
\* so it changes the extends list of no other frame and of no spec in the chain.
LEMMA LoadStep == IndInv /\ Load => IndInv'
<1> SUFFICES ASSUME IndInv, Load PROVE IndInv'
    OBVIOUS
<1> USE ExtendsAssumption
<1>0. TypeOK /\ ControlInv /\ RootFirst /\ Walking /\ FrameInv /\ SetInv /\ ~AtEnd
    BY DEF IndInv, Load, Walking, SetInv
<1>1. UNCHANGED <<extends, store, cancelled, visited, chain, outcome, errChain>>
    BY DEF Load, Goto
<1>c. Current \in Refs /\ next[Depth] \in 1 .. Len(List(Depth)) /\ Depth \in Nat
    BY <1>0, CurrentType
<1>d. Depth <= MaxExtendsDepth /\ Depth + 1 \in Depths /\ Depth \in Depths
    BY <1>0, <1>c DEF ControlInv, Load, Depths
<1>p. /\ path' \in Seq(Refs) /\ Depth' = Depth + 1
      /\ \A i \in 1 .. Depth : path'[i] = path[i]
      /\ path'[Depth + 1] = Current
      /\ Range(path') = Range(path) \cup {Current}
    BY <1>0, <1>c, RangeAppend DEF Load, Depth, TypeOK
<1>n. /\ next' \in [Depths -> Nat \ {0}]
      /\ next'[Depth + 1] = 1
      /\ \A i \in 0 .. Depth : next'[i] = next[i]
    BY <1>0, <1>c, <1>d DEF Load, TypeOK, Depths
<1>l. PICK l \in ExtendsLists : loaded' = [loaded EXCEPT ![Current] = l]
    BY DEF Load
<1>m. /\ loaded' \in [Refs -> ExtendsLists \cup {None}]
      /\ loaded'[Current] = l /\ l # None /\ l \in Seq(Refs)
      /\ \A r \in Refs : r # Current => loaded'[r] = loaded[r]
    BY <1>0, <1>c, <1>l DEF TypeOK
<1>s. /\ Current \notin Range(chain) /\ Current \notin Range(path)
      /\ visited = Range(chain) \cup Range(path) \cup {Current}
    BY <1>0 DEF SetInv, Load
<1>pc. pc' = "enter" /\ pc = "load"
    BY DEF Load, Goto
<1>r. \A i \in 1 .. Depth : path[i] \in Refs /\ path[i] # Current /\ path[i] \in Range(path)
    BY <1>0, <1>s DEF TypeOK, Depth, Range
<1>L. \A i \in 0 .. Depth : List(i)' = List(i)
    BY <1>1, <1>p, <1>m, <1>r DEF List
<1>2. TypeOK'
    BY <1>0, <1>1, <1>d, <1>p, <1>n, <1>m, <1>pc DEF TypeOK, Depth
<1>3. ControlInv'
    BY <1>0, <1>1, <1>pc, <1>p, <1>n DEF ControlInv
<1>4. FrameInv'
    <2>1. ASSUME NEW i \in 1 .. Depth'
          PROVE  /\ loaded'[path'[i]] # None
                 /\ next'[i - 1] <= Len(List(i - 1)')
                 /\ path'[i] = List(i - 1)'[next'[i - 1]]
        <3>1. i - 1 \in 0 .. Depth /\ List(i - 1)' = List(i - 1) /\ next'[i - 1] = next[i - 1]
            BY <1>c, <1>p, <1>n, <1>L
        <3>2. CASE i = Depth + 1
            BY <1>c, <1>p, <1>m, <3>1, <3>2 DEF Current
        <3>3. CASE i # Depth + 1
            <4>1. i \in 1 .. Depth
                BY <1>c, <1>p, <3>3
            <4>2. /\ loaded[path[i]] # None
                  /\ next[i - 1] <= Len(List(i - 1))
                  /\ path[i] = List(i - 1)[next[i - 1]]
                BY <1>0, <4>1 DEF FrameInv
            <4> QED
                BY <1>p, <1>m, <1>r, <3>1, <4>1, <4>2
        <3> QED
            BY <3>2, <3>3
    <2>2. ASSUME NEW i \in 0 .. Depth', NEW j \in 1 .. Len(List(i)'), j < next'[i]
          PROVE  List(i)'[j] \in Range(chain)
        <3>1. CASE i = Depth + 1
            BY <1>n, <2>2, <3>1
        <3>2. CASE i # Depth + 1
            <4>1. i \in 0 .. Depth
                BY <1>c, <1>p, <3>2
            <4> QED
                BY <1>0, <1>L, <1>n, <2>2, <4>1 DEF FrameInv
        <3> QED
            BY <3>1, <3>2
    <2> QED
        BY <1>1, <2>1, <2>2 DEF FrameInv
<1>5. SetInv'
    <2>1. {r \in Refs : loaded'[r] # None} = {r \in Refs : loaded[r] # None} \cup {Current}
        BY <1>c, <1>m
    <2>2. {r \in Refs : loaded'[r] # None} = Range(chain) \cup Range(path')
        BY <1>0, <1>p, <2>1 DEF SetInv
    <2>3. \A i, j \in 1 .. Depth' : path'[i] = path'[j] => i = j
        <3>1. \A i, j \in 1 .. Depth : path[i] = path[j] => i = j
            BY <1>0 DEF SetInv
        <3>2. \A i \in 1 .. Depth' : i = Depth + 1 \/ i \in 1 .. Depth
            BY <1>c, <1>p
        <3> QED
            BY <1>p, <1>r, <3>1, <3>2
    <2>4. Range(chain) \cap Range(path') = {}
        BY <1>0, <1>p, <1>s DEF SetInv
    <2> QED
        BY <1>1, <1>p, <1>s, <1>pc, <2>2, <2>3, <2>4 DEF SetInv
<1>6. RootFirst'
    <2>1. ASSUME NEW i \in DOMAIN chain PROVE Declares(chain[i])' = Declares(chain[i])
        <3>1. chain[i] \in Refs /\ chain[i] # Current
            BY <1>0, <1>s DEF TypeOK, Range
        <3> QED
            BY <1>1, <1>m, <3>1 DEF Declares
    <2> QED
        BY <1>0, <1>1, <2>1 DEF RootFirst
<1>7. ChainComplete' /\ ErrorChainIsPath'
    BY <1>0, <1>1, <1>pc DEF ChainComplete, ErrorChainIsPath, ControlInv
<1> QED
    BY <1>2, <1>3, <1>4, <1>5, <1>6, <1>7 DEF IndInv

\* A walk that returns has passed all its refs, so they are in the chain; its
\* own ref joins them, and the caller's frame has then passed it too.
LEMMA ReturnStep == IndInv /\ Return => IndInv'
<1> SUFFICES ASSUME IndInv, Return PROVE IndInv'
    OBVIOUS
<1> USE ExtendsAssumption
<1>0. TypeOK /\ ControlInv /\ RootFirst /\ Walking /\ FrameInv /\ SetInv /\ AtEnd
    BY DEF IndInv, Return, Walking
<1>1. UNCHANGED <<extends, store, cancelled, visited, loaded>> /\ pc = "loop"
    BY DEF Return
<1>t. Depth \in Nat /\ Depth \in Depths /\ path \in Seq(Refs) /\ chain \in Seq(Refs)
    BY <1>0 DEF TypeOK, Depth
<1>a. \A j \in 1 .. Len(List(Depth)) : List(Depth)[j] \in Range(chain)
    <2>1. List(Depth) \in Seq(Refs) /\ next[Depth] \in Nat /\ next[Depth] > Len(List(Depth))
        BY <1>0, <1>t, ListType DEF AtEnd, TypeOK
    <2> QED
        BY <1>0, <1>t, <2>1 DEF FrameInv
<1>2. CASE Depth = 0
    <2>1. /\ UNCHANGED <<path, next, chain, errChain>>
          /\ pc' = "done" /\ outcome' = "ok"
        BY <1>t, <1>2 DEF Return
    <2>2. TypeOK' /\ ControlInv' /\ ~Walking' /\ ErrorChainIsPath'
        BY <1>0, <1>1, <2>1 DEF TypeOK, ControlInv, Walking, ErrorChainIsPath, Outcomes
    <2>3. RootFirst'
        BY <1>0, <1>1, <2>1, SameWalk
    <2>4. Range(path) = {}
        BY <1>t, <1>2 DEF Depth, Range
    <2>5. Range(extends) \subseteq Range(chain)
        <3>1. List(Depth) = extends /\ extends \in Seq(Refs)
            BY <1>0, <1>2 DEF List, TypeOK
        <3> QED
            BY <1>a, <3>1 DEF Range
    <2>6. ChainComplete'
        BY <1>0, <1>1, <2>1, <2>4, <2>5 DEF ChainComplete, SetInv
    <2> QED
        BY <2>2, <2>3, <2>6 DEF IndInv
<1>3. CASE Depth > 0
    <2> DEFINE r == path[Depth]
    <2>1. /\ UNCHANGED <<pc, outcome, errChain>>
          /\ chain' = Append(chain, r)
          /\ path' = SubSeq(path, 1, Depth - 1)
          /\ next' = [next EXCEPT ![Depth - 1] = @ + 1]
        BY <1>t, <1>3 DEF Return
    <2>p. /\ path' \in Seq(Refs) /\ Depth' = Depth - 1
          /\ \A i \in 1 .. Depth - 1 : path'[i] = path[i]
          /\ Range(path) = Range(path') \cup {r} /\ r \in Refs
        BY <1>t, <1>3, <2>1, RangeFront DEF Depth
    <2> HIDE DEF r
    <2>c. /\ chain' \in Seq(Refs) /\ Len(chain') = Len(chain) + 1
          /\ \A i \in 1 .. Len(chain) : chain'[i] = chain[i]
          /\ chain'[Len(chain) + 1] = r
          /\ Range(chain') = Range(chain) \cup {r}
        BY <1>t, <2>1, <2>p, RangeAppend
    <2>d. Depth - 1 \in Depths /\ Depth - 1 \in Nat /\ Depth \in 1 .. Depth
        BY <1>t, <1>3 DEF Depths
    <2>n. /\ next' \in [Depths -> Nat \ {0}]
          /\ next'[Depth - 1] = next[Depth - 1] + 1
          /\ \A i \in Depths : i # Depth - 1 => next'[i] = next[i]
        BY <1>0, <2>d, <2>1 DEF TypeOK
    <2>L. \A i \in 0 .. Depth - 1 : List(i)' = List(i)
        BY <1>1, <2>p, <1>t DEF List
    <2>x. r \notin Range(path') /\ r \notin Range(chain)
        <3>1. r \in Range(path)
            BY <2>p
        <3>2. ASSUME NEW i \in 1 .. Depth - 1 PROVE path[i] # r
            BY <1>0, <1>t, <2>d DEF SetInv, r
        <3>3. r \notin Range(path')
            <4>1. DOMAIN path' = 1 .. Depth - 1
                BY <2>p, <2>d DEF Depth
            <4> QED
                BY <2>p, <3>2, <4>1 DEF Range
        <3> QED
            BY <1>0, <3>1, <3>3 DEF SetInv
    <2>2. TypeOK'
        BY <1>0, <1>1, <2>1, <2>p, <2>c, <2>d, <2>n DEF TypeOK, Depth
    <2>3. ControlInv'
        BY <1>0, <1>1, <1>t, <2>1, <2>p DEF ControlInv
    <2>4. FrameInv'
        <3>1. ASSUME NEW i \in 1 .. Depth'
              PROVE  /\ loaded'[path'[i]] # None
                     /\ next'[i - 1] <= Len(List(i - 1)')
                     /\ path'[i] = List(i - 1)'[next'[i - 1]]
            <4>1. /\ i \in 1 .. Depth - 1 /\ i \in 1 .. Depth /\ i - 1 \in 0 .. Depth - 1
                  /\ i - 1 # Depth - 1 /\ i - 1 \in Depths
                BY <1>t, <2>p DEF Depths
            <4>2. /\ loaded[path[i]] # None
                  /\ next[i - 1] <= Len(List(i - 1))
                  /\ path[i] = List(i - 1)[next[i - 1]]
                BY <1>0, <4>1 DEF FrameInv
            <4>3. path'[i] = path[i] /\ next'[i - 1] = next[i - 1] /\ List(i - 1)' = List(i - 1)
                BY <2>p, <2>n, <2>L, <4>1
            <4> QED
                BY <1>1, <4>2, <4>3
        <3>2. ASSUME NEW i \in 0 .. Depth', NEW j \in 1 .. Len(List(i)'), j < next'[i]
              PROVE  List(i)'[j] \in Range(chain')
            <4>1. i \in 0 .. Depth - 1 /\ i \in 0 .. Depth /\ i \in Depths
                BY <1>t, <2>p DEF Depths
            <4>2. List(i)' = List(i) /\ List(i) \in Seq(Refs)
                BY <1>0, <2>L, <4>1, ListType
            <4>3. next[i] \in Nat \ {0}
                BY <1>0, <4>1 DEF TypeOK
            <4>4. CASE j < next[i]
                BY <1>0, <2>c, <4>1, <4>2, <4>4 DEF FrameInv
            <4>5. CASE ~(j < next[i])
                <5>1. i = Depth - 1 /\ j = next[i]
                    BY <2>n, <2>d, <3>2, <4>1, <4>2, <4>3, <4>5
                <5>2. r = List(Depth - 1)[next[Depth - 1]]
                    BY <1>0, <2>d DEF FrameInv, r
                <5> QED
                    BY <2>c, <4>2, <5>1, <5>2
            <4> QED
                BY <4>4, <4>5
        <3> QED
            BY <3>1, <3>2 DEF FrameInv
    <2>5. SetInv'
        <3>1. \A i, j \in 1 .. Depth' : path'[i] = path'[j] => i = j
            <4>1. \A i \in 1 .. Depth' : i \in 1 .. Depth - 1 /\ i \in 1 .. Depth
                BY <1>t, <2>p
            <4> QED
                BY <1>0, <2>p, <4>1 DEF SetInv
        <3>2. Range(chain') \cup Range(path') = Range(chain) \cup Range(path)
            BY <2>c, <2>p
        <3>3. Range(chain') \cap Range(path') = {}
            BY <1>0, <2>c, <2>p, <2>x DEF SetInv
        <3> QED
            BY <1>0, <1>1, <2>1, <3>1, <3>2, <3>3 DEF SetInv
    <2>6. RootFirst'
        <3>1. DOMAIN chain = 1 .. Len(chain) /\ DOMAIN chain' = 1 .. Len(chain) + 1
              /\ Len(chain) \in Nat
            BY <1>t, <2>c
        <3>2. \A q : Declares(q)' = Declares(q)
            BY <1>1 DEF Declares
        <3>3. ASSUME NEW i \in DOMAIN chain'
              PROVE  /\ \A q \in Declares(chain'[i]) : \E h \in 1 .. i - 1 : chain'[h] = q
                     /\ \A h \in 1 .. i - 1 : chain'[h] # chain'[i]
            <4>1. CASE i \in DOMAIN chain
                <5>1. chain'[i] = chain[i] /\ \A h \in 1 .. i - 1 : chain'[h] = chain[h]
                    BY <2>c, <3>1, <4>1
                <5> QED
                    BY <1>0, <4>1, <5>1 DEF RootFirst
            <4>2. CASE i \notin DOMAIN chain
                <5>1. i = Len(chain) + 1 /\ chain'[i] = r /\ i - 1 = Len(chain)
                    BY <2>c, <3>1, <3>3, <4>2
                <5>2. \A h \in 1 .. i - 1 : chain'[h] = chain[h] /\ chain[h] \in Range(chain)
                    BY <2>c, <3>1, <5>1 DEF Range
                <5>3. ASSUME NEW q \in Declares(r) PROVE \E h \in 1 .. i - 1 : chain'[h] = q
                    <6>1. List(Depth) = loaded[r]
                        BY <1>3 DEF List, r
                    <6>2. List(Depth) \in Seq(Refs)
                        BY <1>0, <1>t, ListType
                    <6>3. PICK j \in 1 .. Len(List(Depth)) : q = List(Depth)[j]
                        BY <5>3, <6>1, <6>2 DEF Declares, Range
                    <6>4. PICK h \in DOMAIN chain : chain[h] = q
                        BY <1>a, <6>3 DEF Range
                    <6> QED
                        BY <3>1, <5>1, <5>2, <6>4
                <5> QED
                    BY <2>x, <5>1, <5>2, <5>3
            <4> QED
                BY <4>1, <4>2
        <3> QED
            BY <3>2, <3>3 DEF RootFirst
    <2>7. ChainComplete' /\ ErrorChainIsPath'
        BY <1>0, <1>1, <2>1 DEF ChainComplete, ErrorChainIsPath, ControlInv
    <2> QED
        BY <2>2, <2>3, <2>4, <2>5, <2>6, <2>7 DEF IndInv
<1> QED
    BY <1>2, <1>3, <1>t

\* A cancelled context, and a walk that has returned, change no data.
LEMMA IdleStep == IndInv /\ (Cancel \/ UNCHANGED vars) => IndInv'
<1> SUFFICES ASSUME IndInv, Cancel \/ UNCHANGED vars PROVE IndInv'
    OBVIOUS
<1>1. /\ UNCHANGED <<extends, path, next, loaded, chain>>
      /\ UNCHANGED <<store, visited, pc, outcome, errChain>>
      /\ cancelled' \in BOOLEAN
    BY DEF Cancel, vars, IndInv, TypeOK
<1>2. TypeOK' /\ ControlInv' /\ (Walking' => Walking /\ SetInv')
    BY <1>1, SameWalk DEF IndInv, TypeOK, ControlInv, Walking, SetInv
<1>3. ChainComplete' /\ ErrorChainIsPath'
    BY <1>1, SameWalk DEF IndInv, ChainComplete, ErrorChainIsPath
<1> QED
    BY <1>1, <1>2, <1>3, SameWalk DEF IndInv

\* IndInv holds in every reachable state.
THEOREM Invariance == Spec => []IndInv
<1>1. IndInv /\ [Next]_vars => IndInv'
    BY StartStep, EnterStep, VisitStep, LoadFailsStep, LoadStep, ReturnStep, IdleStep
    DEF Next, Step, Returned
<1> QED
    BY InitIndInv, <1>1, PTL DEF Spec

\* Type correctness; in particular the recursion never goes deeper than one
\* frame past MaxExtendsDepth, whatever the store returns.
THEOREM TypeCorrect == Spec => []TypeOK
  BY Invariance, PTL DEF IndInv

\* The chain is root-first and free of duplicates at every moment.
THEOREM ChainRootFirst == Spec => []RootFirst
  BY Invariance, PTL DEF IndInv

\* A successful walk returns exactly the specs reachable from the leaf.
THEOREM ChainIsComplete == Spec => []ChainComplete
  BY Invariance, PTL DEF IndInv

\* The chain in an ExtendsError is a real extends path showing the reason.
THEOREM ErrorChainsArePaths == Spec => []ErrorChainIsPath
  BY Invariance, PTL DEF IndInv

\* No ref is loaded twice in one walk.
THEOREM EachRefLoadedOnce == Spec => LoadedOnce
<1>1. IndInv /\ [Next]_vars =>
        [\A r \in Refs : loaded[r] # None => loaded'[r] = loaded[r]]_vars
    <2> SUFFICES ASSUME IndInv, [Next]_vars, NEW r \in Refs, loaded[r] # None
                 PROVE  loaded'[r] = loaded[r]
        OBVIOUS
    <2>1. CASE Load
        <3>1. Walking /\ SetInv /\ TypeOK
            BY <2>1 DEF IndInv, Load, Walking
        <3>2. r # Current
            BY <2>1, <3>1 DEF SetInv, Load
        <3> QED
            BY <2>1, <3>1, <3>2 DEF Load, TypeOK
    <2>2. CASE ~Load
        BY <2>2 DEF Next, Step, Start, Enter, Visit, LoadFails, Return, Cancel,
             Returned, vars
    <2> QED
        BY <2>1, <2>2
<1> QED
    BY <1>1, Invariance, PTL DEF Spec, LoadedOnce

-----------------------------------------------------------------------------
(* Depths *)

\* The chain is closed: what one of its specs declares is in it.
LEMMA ChainClosed ==
    ASSUME TypeOK, RootFirst, NEW r \in Range(chain), NEW q \in Declares(r)
    PROVE  q \in Range(chain)
<1>1. Len(chain) \in Nat /\ DOMAIN chain = 1 .. Len(chain)
    BY DEF TypeOK
<1>2. PICK i \in DOMAIN chain : chain[i] = r
    BY DEF Range
<1>3. PICK h \in 1 .. i - 1 : chain[h] = q
    BY <1>2 DEF RootFirst
<1>4. h \in DOMAIN chain
    BY <1>1
<1> QED
    BY <1>3, <1>4 DEF Range

\* A ref that is loaded is one deeper than the frame that loads it.
LEMMA LoadDepth == IndInv /\ DepthInv /\ Load => DepthInv'
<1> SUFFICES ASSUME IndInv, Load, NEW dep \in [Refs -> Depths], FoundAt(dep)
             PROVE  DepthInv'
    BY DEF DepthInv
<1> USE ExtendsAssumption
<1>0. TypeOK /\ ControlInv /\ RootFirst /\ Walking /\ FrameInv /\ SetInv /\ ~AtEnd
    BY DEF IndInv, Load, Walking, SetInv
<1>1. UNCHANGED <<extends, chain, outcome>> /\ outcome # "ok"
    BY <1>0 DEF Load, Goto, ControlInv
<1>c. Current \in Refs /\ Depth \in Nat
    BY <1>0, CurrentType
<1>d. Depth <= MaxExtendsDepth /\ Depth + 1 \in Depths
    BY <1>0, <1>c DEF ControlInv, Load, Depths
<1>p. /\ Depth' = Depth + 1 /\ path'[Depth + 1] = Current
      /\ \A i \in 1 .. Depth : path'[i] = path[i]
    BY <1>0, <1>c, RangeAppend DEF Load, Depth, TypeOK
<1>n. next'[Depth + 1] = 1 /\ \A i \in 0 .. Depth : next'[i] = next[i]
    BY <1>0, <1>c, <1>d DEF Load, TypeOK, Depths
<1>m. \A r \in Refs : r # Current => loaded'[r] = loaded[r]
    BY <1>0, <1>c DEF Load, TypeOK
<1>s. Current \notin Range(chain) /\ Current \notin Range(path)
    BY <1>0 DEF SetInv, Load
<1>r. \A i \in 1 .. Depth : path[i] \in Refs /\ path[i] # Current
    BY <1>0, <1>s DEF TypeOK, Depth, Range
<1>L. \A i \in 0 .. Depth : List(i)' = List(i)
    BY <1>1, <1>p, <1>m, <1>r DEF List
<1>e. PICK new \in [Refs -> Depths] :
        new[Current] = Depth + 1 /\ \A r \in Refs : r # Current => new[r] = dep[r]
    <2>1. [dep EXCEPT ![Current] = Depth + 1] \in [Refs -> Depths]
        BY <1>d
    <2> QED
        BY <1>c, <2>1
<1>x. Range(chain) \subseteq Refs
    BY <1>0 DEF TypeOK, Range
<1>2. \A i \in 1 .. Depth' : new[path'[i]] = i
    <2>1. \A i \in 1 .. Depth' : i = Depth + 1 \/ i \in 1 .. Depth
        BY <1>c, <1>p
    <2>2. \A i \in 1 .. Depth : dep[path[i]] = i
        BY <1>0 DEF FoundAt
    <2> QED
        BY <1>e, <1>p, <1>r, <2>1, <2>2
<1>3. ASSUME NEW i \in 0 .. Depth', NEW j \in 1 .. Len(List(i)'), j < next'[i]
      PROVE  new[List(i)'[j]] = i + 1
    <2>1. i = Depth + 1 \/ i \in 0 .. Depth
        BY <1>c, <1>p
    <2>2. i # Depth + 1
        BY <1>n, <1>3
    <2>3. i \in 0 .. Depth /\ List(i)' = List(i) /\ next'[i] = next[i]
        BY <2>1, <2>2, <1>L, <1>n
    <2>4. List(i)[j] \in Range(chain) /\ dep[List(i)[j]] = i + 1
        BY <1>0, <1>3, <2>3 DEF FrameInv, FoundAt
    <2> QED
        BY <1>e, <1>s, <1>x, <2>3, <2>4
<1>4. ASSUME NEW r \in Range(chain)
      PROVE  /\ new[r] <= MaxExtendsDepth
             /\ \A q \in Declares(r)' : new[q] = new[r] + 1
    <2>1. r \in Refs /\ r # Current /\ new[r] = dep[r]
        BY <1>e, <1>s, <1>x, <1>4
    <2>2. Declares(r)' = Declares(r)
        BY <1>m, <2>1 DEF Declares
    <2>3. dep[r] <= MaxExtendsDepth /\ \A q \in Declares(r) : dep[q] = dep[r] + 1
        BY DEF FoundAt
    <2>4. ASSUME NEW q \in Declares(r) PROVE q \in Range(chain)
        BY <1>0, ChainClosed
    <2> QED
        BY <1>e, <1>s, <1>x, <2>1, <2>2, <2>3, <2>4
<1>5. FoundAt(new)'
    BY <1>1, <1>2, <1>3, <1>4 DEF FoundAt
<1> QED
    BY <1>5 DEF DepthInv

\* A spec that joins the chain is at its frame's depth, within the limit, and all
\* it declares is one deeper.
LEMMA ReturnDepth == IndInv /\ DepthInv /\ Return => DepthInv'
<1> SUFFICES ASSUME IndInv, Return, NEW dep \in [Refs -> Depths], FoundAt(dep)
             PROVE  DepthInv'
    BY DEF DepthInv
<1> USE ExtendsAssumption
<1>0. TypeOK /\ ControlInv /\ RootFirst /\ Walking /\ FrameInv /\ SetInv /\ AtEnd
    BY DEF IndInv, Return, Walking
<1>1. UNCHANGED <<extends, loaded>> /\ pc = "loop" /\ outcome # "ok"
    BY <1>0 DEF Return, ControlInv
<1>t. Depth \in Nat /\ Depth \in Depths /\ path \in Seq(Refs) /\ chain \in Seq(Refs)
    BY <1>0 DEF TypeOK, Depth
<1>a. \A j \in 1 .. Len(List(Depth)) : dep[List(Depth)[j]] = Depth + 1
    <2>1. List(Depth) \in Seq(Refs) /\ next[Depth] \in Nat /\ next[Depth] > Len(List(Depth))
        BY <1>0, <1>t, ListType DEF AtEnd, TypeOK
    <2>2. \A j \in 1 .. Len(List(Depth)) : j < next[Depth]
        BY <2>1
    <2> QED
        BY <1>0, <1>t, <2>2 DEF FoundAt
<1>b. \A q : Declares(q)' = Declares(q)
    BY <1>1 DEF Declares
<1>2. CASE Depth = 0
    <2>1. UNCHANGED chain /\ pc' = "done" /\ outcome' = "ok"
        BY <1>t, <1>2 DEF Return
    <2>2. List(Depth) = extends /\ extends \in Seq(Refs)
        BY <1>0, <1>2 DEF List, TypeOK
    <2>3. \A r \in Range(extends) : dep[r] = 1
        BY <1>2, <1>a, <2>2 DEF Range
    <2>4. FoundAt(dep)'
        BY <1>1, <1>b, <2>1, <2>3 DEF FoundAt, Walking
    <2> QED
        BY <2>4 DEF DepthInv
<1>3. CASE Depth > 0
    <2> DEFINE r == path[Depth]
    <2>1. /\ UNCHANGED <<pc, outcome>>
          /\ chain' = Append(chain, r)
          /\ path' = SubSeq(path, 1, Depth - 1)
          /\ next' = [next EXCEPT ![Depth - 1] = @ + 1]
        BY <1>t, <1>3 DEF Return
    <2>p. /\ Depth' = Depth - 1 /\ r \in Refs
          /\ \A i \in 1 .. Depth - 1 : path'[i] = path[i]
        BY <1>t, <1>3, <2>1, RangeFront DEF Depth
    <2> HIDE DEF r
    <2>c. Range(chain') = Range(chain) \cup {r}
        BY <1>t, <2>1, <2>p, RangeAppend
    <2>d. Depth - 1 \in Depths /\ Depth - 1 \in Nat /\ Depth \in 1 .. Depth
        BY <1>t, <1>3 DEF Depths
    <2>n. /\ next'[Depth - 1] = next[Depth - 1] + 1
          /\ \A i \in Depths : i # Depth - 1 => next'[i] = next[i]
        BY <1>0, <2>d, <2>1 DEF TypeOK
    <2>L. \A i \in 0 .. Depth - 1 : List(i)' = List(i)
        BY <1>1, <2>p, <1>t DEF List
    <2>r. dep[r] = Depth /\ r = List(Depth - 1)[next[Depth - 1]]
        BY <1>0, <2>d DEF FoundAt, FrameInv, r
    <2>2. \A i \in 1 .. Depth' : dep[path'[i]] = i
        <3>1. \A i \in 1 .. Depth' : i \in 1 .. Depth - 1 /\ i \in 1 .. Depth
            BY <1>t, <2>p
        <3> QED
            BY <1>0, <2>p, <3>1 DEF FoundAt
    <2>3. ASSUME NEW i \in 0 .. Depth', NEW j \in 1 .. Len(List(i)'), j < next'[i]
          PROVE  dep[List(i)'[j]] = i + 1
        <3>1. i \in 0 .. Depth - 1 /\ i \in 0 .. Depth /\ i \in Depths
            BY <1>t, <2>p DEF Depths
        <3>2. List(i)' = List(i) /\ List(i) \in Seq(Refs)
            BY <1>0, <2>L, <3>1, ListType
        <3>3. next[i] \in Nat \ {0}
            BY <1>0, <3>1 DEF TypeOK
        <3>4. CASE j < next[i]
            BY <1>0, <3>1, <3>2, <3>4 DEF FoundAt
        <3>5. CASE ~(j < next[i])
            <4>1. i = Depth - 1 /\ j = next[i]
                BY <2>n, <2>d, <2>3, <3>1, <3>2, <3>3, <3>5
            <4> QED
                BY <1>t, <2>r, <3>2, <4>1
        <3> QED
            BY <3>4, <3>5
    <2>4. ASSUME NEW q \in Range(chain')
          PROVE  dep[q] <= MaxExtendsDepth /\ \A x \in Declares(q)' : dep[x] = dep[q] + 1
        <3>1. CASE q \in Range(chain)
            BY <1>b, <3>1 DEF FoundAt
        <3>2. CASE q = r
            <4>1. Depth <= MaxExtendsDepth
                BY <1>0, <1>1 DEF ControlInv
            <4>2. List(Depth) = loaded[r] /\ List(Depth) \in Seq(Refs)
                BY <1>0, <1>t, <1>3, ListType DEF List, r
            <4>3. ASSUME NEW x \in Declares(r) PROVE dep[x] = Depth + 1
                <5>1. PICK j \in 1 .. Len(List(Depth)) : x = List(Depth)[j]
                    BY <4>2, <4>3 DEF Declares, Range
                <5> QED
                    BY <1>a, <5>1
            <4> QED
                BY <1>b, <2>r, <3>2, <4>1, <4>3
        <3> QED
            BY <2>c, <2>4, <3>1, <3>2
    <2>5. FoundAt(dep)'
        BY <1>1, <2>1, <2>2, <2>3, <2>4 DEF FoundAt
    <2> QED
        BY <2>5 DEF DepthInv
<1> QED
    BY <1>2, <1>3, <1>t

\* Every other step leaves the depths as they are.
LEMMA OtherDepth == IndInv /\ DepthInv /\ [Next]_vars /\ ~Load /\ ~Return => DepthInv'
<1> SUFFICES ASSUME IndInv, [Next]_vars, ~Load, ~Return,
                    NEW dep \in [Refs -> Depths], FoundAt(dep)
             PROVE  DepthInv'
    BY DEF DepthInv
<1>1. UNCHANGED <<extends, path, next, loaded, chain>>
    BY DEF Next, Step, Start, Enter, Visit, LoadFails, Cancel, Returned, vars
<1>2. \/ Walking' => Walking
      \/ pc = "start"
    BY DEF Next, Step, Start, Enter, Visit, LoadFails, Cancel, Returned, vars, Walking, Fail, Goto,
           IndInv, TypeOK
<1>3. outcome' = "ok" => outcome = "ok" \/ extends = <<>>
    BY DEF Next, Step, Start, Enter, Visit, LoadFails, Cancel, Returned, vars, Fail, Goto
<1>4. Depth' = Depth /\ (\A i : List(i)' = List(i)) /\ (\A q : Declares(q)' = Declares(q))
    BY <1>1 DEF Depth, List, Declares
<1>5. Range(<<>>) = {}
    BY DEF Range
<1>6. Walking' => /\ \A i \in 1 .. Depth : dep[path[i]] = i
                  /\ \A i \in 0 .. Depth : \A j \in 1 .. Len(List(i)) :
                       j < next[i] => dep[List(i)[j]] = i + 1
    <2>1. CASE pc = "start"
        <3>1. Depth = 0 /\ next[0] = 1
            BY <2>1 DEF IndInv, ControlInv, Depth
        <3> QED
            BY <3>1
    <2>2. CASE pc # "start"
        BY <1>2, <2>2 DEF FoundAt
    <2> QED
        BY <2>1, <2>2
<1>7. FoundAt(dep)'
    BY <1>1, <1>3, <1>4, <1>5, <1>6 DEF FoundAt
<1> QED
    BY <1>7 DEF DepthInv

\* At first nothing is found.
LEMMA InitDepth == Init => DepthInv
<1> SUFFICES ASSUME Init PROVE DepthInv
    OBVIOUS
<1>1. [r \in Refs |-> 0] \in [Refs -> Depths]
    BY ExtendsAssumption DEF Depths
<1>2. FoundAt([r \in Refs |-> 0])
    <2>1. Range(<<>>) = {}
        BY DEF Range
    <2> QED
        BY <2>1 DEF FoundAt, Init, Walking
<1> QED
    BY <1>1, <1>2 DEF DepthInv

\* Along any extends path from the leaf of an accepted chain, the depth goes up by
\* one: a path past the limit would end deeper than anything accepted.
LEMMA DepthLimits == IndInv /\ DepthInv => DepthRespected
<1> SUFFICES ASSUME IndInv, NEW dep \in [Refs -> Depths], FoundAt(dep), outcome = "ok",
                    NEW s \in [1 .. MaxExtendsDepth + 1 -> Refs],
                    s[1] \in Range(extends),
                    \A i \in 1 .. MaxExtendsDepth : s[i + 1] \in Declares(s[i])
             PROVE  FALSE
    BY DEF DepthInv, DepthRespected
<1> DEFINE S == {n \in Nat : n + 1 \in 1 .. MaxExtendsDepth + 1 =>
                   s[n + 1] \in Range(chain) /\ dep[s[n + 1]] = n + 1}
<1>0. MaxExtendsDepth \in Nat
    BY ExtendsAssumption
<1>1. 0 \in S
    BY DEF IndInv, ChainComplete, FoundAt
<1>2. ASSUME NEW n \in S, n \in Nat PROVE n + 1 \in S
    <2> SUFFICES ASSUME n + 2 \in 1 .. MaxExtendsDepth + 1
                 PROVE  s[n + 2] \in Range(chain) /\ dep[s[n + 2]] = n + 2
        BY <1>2
    <2>1. n + 1 \in 1 .. MaxExtendsDepth /\ n + 1 \in 1 .. MaxExtendsDepth + 1
        BY <1>0, <1>2
    <2>2. s[n + 1] \in Range(chain) /\ dep[s[n + 1]] = n + 1
        BY <1>2, <2>1
    <2>3. s[n + 2] \in Declares(s[n + 1])
        <3>1. (n + 1) + 1 = n + 2
            BY <1>2
        <3> QED
            BY <2>1, <3>1
    <2>4. dep[s[n + 2]] = (n + 1) + 1
        BY <2>2, <2>3 DEF FoundAt
    <2>5. s[n + 2] \in Range(chain)
        BY <2>2, <2>3, ChainClosed DEF IndInv
    <2> QED
        BY <1>2, <2>4, <2>5
<1> HIDE DEF S
<1>3. MaxExtendsDepth \in S
    BY <1>0, <1>1, <1>2, SetInduction
<1>4. s[MaxExtendsDepth + 1] \in Range(chain) /\ dep[s[MaxExtendsDepth + 1]] = MaxExtendsDepth + 1
    BY <1>0, <1>3 DEF S
<1>5. dep[s[MaxExtendsDepth + 1]] <= MaxExtendsDepth
    BY <1>4 DEF FoundAt
<1> QED
    BY <1>0, <1>4, <1>5

\* No extends path of an accepted chain is longer than MaxExtendsDepth: the limit
\* that walk checks frame by frame holds for the whole graph.
THEOREM DepthIsRespected == Spec => []DepthRespected
<1>1. IndInv /\ DepthInv /\ [Next]_vars => DepthInv'
    BY LoadDepth, ReturnDepth, OtherDepth
<1> QED
    BY <1>1, InitDepth, Invariance, DepthLimits, PTL DEF Spec
=============================================================================
