---------------------------- MODULE DataLemmas ------------------------------
(***************************************************************************)
(* Facts about natural numbers, sets of them and sequences that the proofs *)
(* of several components use.  Nothing here is about the system.           *)
(***************************************************************************)
EXTENDS Integers, Sequences, SequencesExt, FiniteSetsExt, WellFoundedInduction, TLAPS

\* A non-empty set of natural numbers has a least element.
LEMMA LeastElement ==
    ASSUME NEW S, S \subseteq Nat, S # {}
    PROVE  \E x \in S : \A y \in S : x <= y
<1> DEFINE Less == {ss \in Nat \X Nat : ss[1] < ss[2]}
<1>1. OpToRel(<, Nat) = Less
    BY Zenon DEF OpToRel
<1>2. IsWellFoundedOn(Less, Nat)
    BY <1>1, NatLessThanWellFounded, Zenon
<1>3. \A x, y \in Nat : y < x => <<y, x>> \in Less
    OBVIOUS
<1> HIDE DEF Less
<1>4. PICK x \in S : \A y \in S : ~ (<<y, x>> \in Less)
    BY <1>2, WFMin
<1>5. \A y \in S : ~ (y < x)
    BY <1>3, <1>4
<1>6. \A y \in S : x <= y
    BY <1>5
<1> QED
    BY <1>6

\* A non-empty set of natural numbers with an upper bound has a greatest one.
LEMMA GreatestElement ==
    ASSUME NEW S, NEW n \in Nat, S \subseteq 0 .. n, S # {}
    PROVE  \E x \in S : \A y \in S : y <= x
<1> DEFINE T == {m \in Nat : \E x \in S : m = n - x}
<1>1. T # {}
  <2>1. PICK x \in S : TRUE
    OBVIOUS
  <2>2. n - x \in T
    BY <2>1
  <2> QED
    BY <2>2
<1>2. PICK t \in T : \A u \in T : t <= u
    BY <1>1, LeastElement
<1>3. PICK x \in S : t = n - x
    OBVIOUS
<1>4. ASSUME NEW y \in S PROVE y <= x
  <2>1. n - y \in T
    OBVIOUS
  <2>2. n - x <= n - y
    BY <1>2, <1>3, <2>1
  <2> QED
    BY <2>2
<1> QED
    BY <1>4

\* A set that contains 0 and is closed under successor contains every number.
LEMMA SetInduction ==
    ASSUME NEW S, 0 \in S, \A n \in S : n \in Nat => n + 1 \in S
    PROVE  Nat \subseteq S
<1> SUFFICES ASSUME Nat \ S # {} PROVE FALSE
    OBVIOUS
<1>1. PICK x \in Nat \ S : \A y \in Nat \ S : x <= y
    BY LeastElement
<1>2. x # 0 /\ x - 1 \in Nat /\ x - 1 \in S
    BY <1>1
<1>3. (x - 1) + 1 \in S
    BY <1>2
<1> QED
    BY <1>3

\* Min chooses the least element.
LEMMA MinLeast ==
    ASSUME NEW S, S \subseteq Nat, S # {}
    PROVE  Min(S) \in S /\ \A y \in S : Min(S) <= y
BY LeastElement DEF Min

\* Max chooses the greatest element.
LEMMA MaxGreatest ==
    ASSUME NEW S, NEW n \in Nat, S \subseteq 0 .. n, S # {}
    PROVE  Max(S) \in S /\ \A y \in S : y <= Max(S)
<1>1. \E x \in S : \A y \in S : x >= y
    BY GreatestElement
<1> QED
    BY <1>1 DEF Max

\* A function on 1 .. n is a sequence of length n.
LEMMA FunctionIsSequence ==
    ASSUME NEW R, NEW n \in Nat, NEW f \in [1 .. n -> R]
    PROVE  f \in Seq(R) /\ Len(f) = n /\ DOMAIN f = 1 .. n
OBVIOUS

\* The elements of a sequence are in the set it is over.
LEMMA ElementOf ==
    ASSUME NEW R, NEW s \in Seq(R)
    PROVE  /\ Len(s) \in Nat /\ DOMAIN s = 1 .. Len(s)
           /\ \A i \in DOMAIN s : s[i] \in R
           /\ s # <<>> <=> Len(s) > 0
OBVIOUS

\* A prefix, element by element.
LEMMA PrefixByElement ==
    ASSUME NEW R, NEW s \in Seq(R), NEW t \in Seq(R)
    PROVE  IsPrefix(s, t) <=> Len(s) <= Len(t) /\ \A i \in 1 .. Len(s) : s[i] = t[i]
<1>1. SubSeq(s, 1, Len(s)) = s
    OBVIOUS
<1>2. ASSUME Len(s) <= Len(t)
      PROVE  SubSeq(t, 1, Len(s)) = [i \in 1 .. Len(s) |-> t[i]]
    BY <1>2
<1> QED
    BY <1>1, <1>2 DEF IsPrefix

\* What Append does to the length, the elements and the set of elements.
LEMMA Appended ==
    ASSUME NEW R, NEW s \in Seq(R), NEW e \in R
    PROVE  /\ Append(s, e) \in Seq(R)
           /\ Len(Append(s, e)) = Len(s) + 1
           /\ DOMAIN s = 1 .. Len(s) /\ DOMAIN Append(s, e) = 1 .. Len(s) + 1
           /\ \A i \in 1 .. Len(s) : Append(s, e)[i] = s[i]
           /\ Append(s, e)[Len(s) + 1] = e
           /\ Append(s, e) = [i \in 1 .. Len(s) + 1 |-> Append(s, e)[i]]
<1>1. /\ Append(s, e) \in Seq(R)
      /\ Len(Append(s, e)) = Len(s) + 1 /\ Len(s) \in Nat
      /\ DOMAIN s = 1 .. Len(s) /\ DOMAIN Append(s, e) = 1 .. Len(s) + 1
      /\ \A i \in 1 .. Len(s) : Append(s, e)[i] = s[i]
      /\ Append(s, e)[Len(s) + 1] = e
    OBVIOUS
<1>2. PICK t \in Seq(R) : t = Append(s, e)
    BY <1>1
<1>3. t \in [1 .. Len(t) -> R]
    OBVIOUS
<1>4. t = [i \in 1 .. Len(t) |-> t[i]]
    BY <1>3
<1> QED
    BY <1>1, <1>2, <1>4

\* An element of a non-empty sequence is its head or in its tail.
LEMMA HeadOrTail ==
    ASSUME NEW R, NEW s \in Seq(R), s # <<>>
    PROVE  /\ Tail(s) \in Seq(R) /\ Head(s) \in R
           /\ ToSet(s) = {Head(s)} \cup ToSet(Tail(s))
<1>1. /\ Tail(s) \in Seq(R) /\ Head(s) \in R /\ Head(s) = s[1]
      /\ Len(s) \in Nat /\ Len(s) >= 1 /\ DOMAIN s = 1 .. Len(s)
      /\ DOMAIN Tail(s) = 1 .. Len(s) - 1
      /\ \A i \in 1 .. Len(s) - 1 : Tail(s)[i] = s[i + 1]
    OBVIOUS
<1>2. ASSUME NEW e \in ToSet(s) PROVE e = Head(s) \/ e \in ToSet(Tail(s))
  <2>1. PICK i \in 1 .. Len(s) : e = s[i]
    BY <1>1 DEF ToSet
  <2>2. CASE i = 1
    BY <1>1, <2>1, <2>2
  <2>3. CASE i # 1
    <3>1. i - 1 \in 1 .. Len(s) - 1 /\ Tail(s)[i - 1] = s[i]
      BY <1>1, <2>3
    <3> QED
      BY <1>1, <2>1, <3>1 DEF ToSet
  <2> QED
    BY <2>2, <2>3
<1>3. ASSUME NEW e \in ToSet(Tail(s)) PROVE e \in ToSet(s)
  <2>1. PICK i \in 1 .. Len(s) - 1 : e = Tail(s)[i]
    BY <1>1, <1>3 DEF ToSet
  <2>2. i + 1 \in 1 .. Len(s) /\ e = s[i + 1]
    BY <1>1, <2>1
  <2> QED
    BY <1>1, <2>2 DEF ToSet
<1>4. Head(s) \in ToSet(s)
    BY <1>1 DEF ToSet
<1> QED
    BY <1>1, <1>2, <1>3, <1>4

\* The elements of a concatenation.
LEMMA ConcatElements ==
    ASSUME NEW R, NEW s \in Seq(R), NEW t \in Seq(R)
    PROVE  /\ s \o t \in Seq(R)
           /\ ToSet(s \o t) = ToSet(s) \cup ToSet(t)
<1>1. /\ s \o t \in Seq(R) /\ DOMAIN (s \o t) = 1 .. Len(s) + Len(t)
      /\ DOMAIN s = 1 .. Len(s) /\ DOMAIN t = 1 .. Len(t)
      /\ Len(s) \in Nat /\ Len(t) \in Nat
      /\ \A i \in 1 .. Len(s) : (s \o t)[i] = s[i]
      /\ \A i \in 1 .. Len(s) + Len(t) : i > Len(s) => (s \o t)[i] = t[i - Len(s)]
    OBVIOUS
<1>2. ASSUME NEW e \in ToSet(s \o t) PROVE e \in ToSet(s) \cup ToSet(t)
  <2>1. PICK i \in 1 .. Len(s) + Len(t) : e = (s \o t)[i]
    BY <1>1 DEF ToSet
  <2>2. CASE i <= Len(s)
    <3>1. i \in 1 .. Len(s) /\ e = s[i]
      BY <1>1, <2>1, <2>2
    <3> QED
      BY <1>1, <3>1 DEF ToSet
  <2>3. CASE i > Len(s)
    <3>1. i - Len(s) \in 1 .. Len(t) /\ e = t[i - Len(s)]
      BY <1>1, <2>1, <2>3
    <3> QED
      BY <1>1, <3>1 DEF ToSet
  <2> QED
    BY <1>1, <2>2, <2>3
<1>3. ASSUME NEW e \in ToSet(s) PROVE e \in ToSet(s \o t)
  <2>1. PICK i \in 1 .. Len(s) : e = s[i]
    BY <1>1, <1>3 DEF ToSet
  <2>2. i \in 1 .. Len(s) + Len(t) /\ (s \o t)[i] = e
    BY <1>1, <2>1
  <2> QED
    BY <1>1, <2>2 DEF ToSet
<1>4. ASSUME NEW e \in ToSet(t) PROVE e \in ToSet(s \o t)
  <2>1. PICK i \in 1 .. Len(t) : e = t[i]
    BY <1>1, <1>4 DEF ToSet
  <2>2. Len(s) + i \in 1 .. Len(s) + Len(t) /\ (Len(s) + i) - Len(s) = i
    BY <1>1, <2>1
  <2>3. (s \o t)[Len(s) + i] = t[i]
    BY <1>1, <2>2
  <2> QED
    BY <1>1, <2>1, <2>2, <2>3 DEF ToSet
<1> QED
    BY <1>1, <1>2, <1>3, <1>4

\* A function over the indices of a sequence is empty when the sequence is.
LEMMA SameIndices ==
    ASSUME NEW R, NEW s \in Seq(R), NEW f, f = [i \in DOMAIN s |-> f[i]]
    PROVE  f = <<>> <=> s = <<>>
<1> DEFINE V == {f[i] : i \in 1 .. Len(s)}
<1>1. Len(s) \in Nat /\ DOMAIN s = 1 .. Len(s)
    BY ElementOf
<1>2. f \in [1 .. Len(s) -> V]
    BY <1>1
<1> HIDE DEF V
<1>3. f \in Seq(V) /\ Len(f) = Len(s)
    BY <1>1, <1>2, FunctionIsSequence
<1> QED
    BY <1>3, ElementOf

\* f starts with a and goes on for n steps.
Steps(f, a, n, step) == f[0] = a /\ \A i \in 1 .. n : f[i] = step[i][f[i - 1]]

\* Two functions that start alike and go on by the same steps are equal as far
\* as both go.
LEMMA SameIteration ==
    ASSUME NEW n \in Nat, NEW a, NEW step, NEW f, NEW g,
           Steps(f, a, n, step), Steps(g, a, n, step)
    PROVE  \A i \in 0 .. n : f[i] = g[i]
<1> DEFINE S == {i \in Nat : i <= n => f[i] = g[i]}
<1>1. 0 \in S
    BY DEF Steps
<1>2. ASSUME NEW i \in S, i \in Nat PROVE i + 1 \in S
  <2>1. CASE i + 1 <= n
    <3>1. f[i] = g[i] /\ i + 1 \in 1 .. n /\ (i + 1) - 1 = i
      BY <1>2, <2>1
    <3>2. f[i + 1] = step[i + 1][f[i]] /\ g[i + 1] = step[i + 1][g[i]]
      BY <3>1 DEF Steps
    <3> QED
      BY <3>1, <3>2
  <2> QED
    BY <2>1
<1> HIDE DEF S
<1>3. Nat \subseteq S
    BY <1>1, <1>2, SetInduction
<1> QED
    BY <1>3 DEF S

\* A value, and what n steps make of it.
Iterate(a, n, step) ==
    CHOOSE f : f = [i \in 0 .. n |-> IF i = 0 THEN a ELSE step[i][f[i - 1]]]

\* A step that stays in a set can be iterated any number of times.
LEMMA Iteration ==
    ASSUME NEW V, NEW a \in V, NEW n \in Nat, NEW step \in [1 .. n -> [V -> V]]
    PROVE  /\ Iterate(a, n, step) \in [0 .. n -> V]
           /\ Steps(Iterate(a, n, step), a, n, step)
<1> DEFINE Good(m) == \E f \in [0 .. m -> V] :
                        f[0] = a /\ \A i \in 1 .. m : f[i] = step[i][f[i - 1]]
           S == {m \in Nat : m <= n => Good(m)}
<1>1. Good(0)
  <2>1. [i \in 0 .. 0 |-> a] \in [0 .. 0 -> V] /\ [i \in 0 .. 0 |-> a][0] = a
    OBVIOUS
  <2>2. \A i \in 1 .. 0 : FALSE
    OBVIOUS
  <2> QED
    BY <2>1, <2>2
<1>2. ASSUME NEW m \in Nat, Good(m), m + 1 <= n PROVE Good(m + 1)
  <2>1. PICK f \in [0 .. m -> V] : f[0] = a /\ \A i \in 1 .. m : f[i] = step[i][f[i - 1]]
    BY <1>2
  <2> DEFINE v == step[m + 1][f[m]]
             h == [i \in 0 .. m + 1 |-> IF i = m + 1 THEN v ELSE f[i]]
  <2>2. v \in V
    BY <1>2, <2>1
  <2> HIDE DEF v
  <2>3. h \in [0 .. m + 1 -> V] /\ h[m + 1] = v /\ \A i \in 0 .. m : h[i] = f[i]
    BY <2>2
  <2> HIDE DEF h
  <2>4. ASSUME NEW i \in 1 .. m + 1 PROVE h[i] = step[i][h[i - 1]]
    <3>1. CASE i = m + 1
      <4>1. i - 1 = m /\ m \in 0 .. m
        BY <3>1
      <4>2. h[i - 1] = f[m] /\ h[i] = v
        BY <2>3, <3>1, <4>1
      <4> QED
        BY <3>1, <4>2 DEF v
    <3>2. CASE i # m + 1
      <4>1. i \in 1 .. m /\ i \in 0 .. m /\ i - 1 \in 0 .. m
        BY <3>2
      <4> QED
        BY <2>1, <2>3, <4>1
    <3> QED
      BY <3>1, <3>2
  <2>5. h[0] = a
    BY <2>1, <2>3
  <2> QED
    BY <2>3, <2>4, <2>5
<1> HIDE DEF Good
<1>3. 0 \in S
    BY <1>1
<1>4. \A m \in S : m \in Nat => m + 1 \in S
    BY <1>2
<1>5. n \in S
  <2> HIDE DEF S
  <2> QED
    BY <1>3, <1>4, SetInduction
<1>6. PICK f \in [0 .. n -> V] : f[0] = a /\ \A i \in 1 .. n : f[i] = step[i][f[i - 1]]
    BY <1>5 DEF Good
<1> DEFINE g == Iterate(a, n, step)
<1>7. f = [i \in 0 .. n |-> IF i = 0 THEN a ELSE step[i][f[i - 1]]]
  <2>1. \A i \in 0 .. n : i = 0 \/ i \in 1 .. n
    OBVIOUS
  <2> QED
    BY <1>6, <2>1
<1>8. g = [i \in 0 .. n |-> IF i = 0 THEN a ELSE step[i][g[i - 1]]]
    BY <1>7 DEF Iterate
<1> HIDE DEF g
<1>9. g[0] = a /\ \A i \in 1 .. n : g[i] = step[i][g[i - 1]]
  <2>1. 0 \in 0 .. n /\ \A i \in 1 .. n : i \in 0 .. n /\ i # 0
    OBVIOUS
  <2> QED
    BY <1>8, <2>1
<1>10. \A i \in 0 .. n : g[i] = f[i]
  <2>1. Steps(f, a, n, step) /\ Steps(g, a, n, step)
    BY <1>6, <1>9 DEF Steps
  <2> QED
    BY <2>1, SameIteration
<1>11. g \in [0 .. n -> V]
    BY <1>6, <1>8, <1>10
<1> QED
    BY <1>9, <1>11 DEF g, Steps

\* A set that has the empty sequence and is closed under Append has every sequence.
LEMMA SequenceInduction ==
    ASSUME NEW R, NEW P, <<>> \in P,
           \A t \in Seq(R), e \in R : t \in P => Append(t, e) \in P
    PROVE  Seq(R) \subseteq P
<1> DEFINE S == {n \in Nat : \A s \in Seq(R) : Len(s) = n => s \in P}
<1>1. 0 \in S
  <2>1. \A s \in Seq(R) : Len(s) = 0 => s = <<>>
    OBVIOUS
  <2> QED
    BY <2>1
<1>2. ASSUME NEW n \in S, n \in Nat PROVE n + 1 \in S
  <2> SUFFICES ASSUME NEW s \in Seq(R), Len(s) = n + 1 PROVE s \in P
    OBVIOUS
  <2> DEFINE t == SubSeq(s, 1, n)
  <2>1. t \in Seq(R) /\ Len(t) = n /\ s[n + 1] \in R
    BY <1>2
  <2>2. s = Append(t, s[n + 1])
    BY <1>2
  <2>3. t \in P
    BY <1>2, <2>1
  <2> HIDE DEF t
  <2> QED
    BY <2>1, <2>2, <2>3
<1> HIDE DEF S
<1>3. Nat \subseteq S
    BY <1>1, <1>2, SetInduction
<1> SUFFICES ASSUME NEW s \in Seq(R) PROVE s \in P
    OBVIOUS
<1>4. Len(s) \in S
    BY <1>3
<1> QED
    BY <1>4 DEF S

\* Append to a concatenation.
LEMMA ConcatAppend ==
    ASSUME NEW R, NEW s \in Seq(R), NEW t \in Seq(R), NEW e \in R
    PROVE  /\ s \o Append(t, e) = Append(s \o t, e)
           /\ s \o <<>> = s /\ <<>> \o s = s
           /\ s \o t \in Seq(R)
OBVIOUS

\* A suffix, element by element.
LEMMA SuffixByElement ==
    ASSUME NEW R, NEW s \in Seq(R), NEW t \in Seq(R)
    PROVE  IsSuffix(s, t) <=>
             Len(s) <= Len(t) /\ \A i \in 1 .. Len(s) : s[i] = t[Len(t) - Len(s) + i]
<1> DEFINE m == Len(s)
           n == Len(t)
<1>1. /\ Reverse(s) \in Seq(R) /\ Len(Reverse(s)) = m /\ m \in Nat
      /\ \A i \in 1 .. m : Reverse(s)[i] = s[m - i + 1]
  <2>1. Reverse(s) = [i \in 1 .. m |-> s[(m - i) + 1]] /\ m \in Nat
    BY DEF Reverse
  <2>2. \A i \in 1 .. m : s[(m - i) + 1] \in R
    BY <2>1
  <2>3. Reverse(s) \in [1 .. m -> R]
    BY <2>1, <2>2
  <2> QED
    BY <2>1, <2>3, FunctionIsSequence
<1>2. /\ Reverse(t) \in Seq(R) /\ Len(Reverse(t)) = n /\ n \in Nat
      /\ \A i \in 1 .. n : Reverse(t)[i] = t[n - i + 1]
  <2>1. Reverse(t) = [i \in 1 .. n |-> t[(n - i) + 1]] /\ n \in Nat
    BY DEF Reverse
  <2>2. \A i \in 1 .. n : t[(n - i) + 1] \in R
    BY <2>1
  <2>3. Reverse(t) \in [1 .. n -> R]
    BY <2>1, <2>2
  <2> QED
    BY <2>1, <2>3, FunctionIsSequence
<1>3. IsSuffix(s, t) <=> m <= n /\ \A i \in 1 .. m : Reverse(s)[i] = Reverse(t)[i]
    BY <1>1, <1>2, PrefixByElement DEF IsSuffix
<1> HIDE DEF m, n
<1>4. ASSUME m <= n
      PROVE  (\A i \in 1 .. m : Reverse(s)[i] = Reverse(t)[i])
               <=> \A i \in 1 .. m : s[i] = t[n - m + i]
  <2>1. \A i \in 1 .. m : /\ m - i + 1 \in 1 .. m /\ i \in 1 .. n
                          /\ n - i + 1 = n - m + (m - i + 1)
                          /\ m - (m - i + 1) + 1 = i
    BY <1>1, <1>2, <1>4
  <2>2. ASSUME \A i \in 1 .. m : Reverse(s)[i] = Reverse(t)[i], NEW i \in 1 .. m
        PROVE  s[i] = t[n - m + i]
    <3>1. PICK j \in 1 .. m : j = m - i + 1
      BY <2>1
    <3>2. m - j + 1 = i /\ n - j + 1 = n - m + i /\ j \in 1 .. n
      BY <1>1, <1>2, <1>4, <3>1
    <3>3. Reverse(s)[j] = s[i] /\ Reverse(t)[j] = t[n - m + i]
      BY <1>1, <1>2, <3>2
    <3> QED
      BY <2>2, <3>3
  <2>3. ASSUME \A i \in 1 .. m : s[i] = t[n - m + i], NEW j \in 1 .. m
        PROVE  Reverse(s)[j] = Reverse(t)[j]
    <3>1. PICK i \in 1 .. m : i = m - j + 1
      BY <2>1
    <3>2. n - j + 1 = n - m + i /\ j \in 1 .. n
      BY <1>1, <1>2, <1>4, <3>1
    <3>3. Reverse(s)[j] = s[i] /\ Reverse(t)[j] = t[n - m + i]
      BY <1>1, <1>2, <3>1, <3>2
    <3> QED
      BY <2>3, <3>3
  <2> QED
    BY <2>2, <2>3
<1> QED
    BY <1>3, <1>4 DEF m, n

\* One sequence after the other is put behind what there is.
Join(seqs, R) == [i \in 1 .. Len(seqs) |-> [v \in Seq(R) |-> v \o seqs[i]]]

\* FlattenSeq joins them in order: its defining equation has that solution only.
LEMMA FlattenedBy ==
    ASSUME NEW R, NEW seqs \in Seq(Seq(R))
    PROVE  /\ FlattenSeq(seqs) = Iterate(<<>>, Len(seqs), Join(seqs, R))[Len(seqs)]
           /\ FlattenSeq(seqs) \in Seq(R)
           /\ Join(seqs, R) \in [1 .. Len(seqs) -> [Seq(R) -> Seq(R)]]
<1> DEFINE n == Len(seqs)
           f == Iterate(<<>>, n, Join(seqs, R))
           Val(g, i) == IF i = 1 THEN seqs[i] ELSE g[i - 1] \o seqs[i]
<1>1. n \in Nat /\ DOMAIN seqs = 1 .. n /\ \A i \in 1 .. n : seqs[i] \in Seq(R)
    BY ElementOf
<1>2. Join(seqs, R) \in [1 .. n -> [Seq(R) -> Seq(R)]]
    BY <1>1 DEF Join
<1>3. f \in [0 .. n -> Seq(R)] /\ Steps(f, <<>>, n, Join(seqs, R))
  <2>1. <<>> \in Seq(R)
    OBVIOUS
  <2> QED
    BY <1>1, <1>2, <2>1, Iteration
<1> HIDE DEF f
<1>4. f[0] = <<>> /\ \A i \in 1 .. n : i - 1 \in 0 .. n /\ f[i] = f[i - 1] \o seqs[i]
  <2>1. \A i \in 1 .. n : i - 1 \in 0 .. n /\ f[i] = Join(seqs, R)[i][f[i - 1]]
    BY <1>1, <1>3 DEF Steps
  <2> QED
    BY <1>3, <2>1 DEF Join, Steps
<1>5. CASE n = 0
    BY <1>1, <1>2, <1>3, <1>4, <1>5, ElementOf DEF FlattenSeq, f
<1>6. CASE n # 0
  <2> DEFINE g == CHOOSE g : g = [i \in 1 .. n |-> Val(g, i)]
             h == [i \in 1 .. n |-> f[i]]
             S == {i \in Nat : i \in 1 .. n => g[i] = f[i]}
  <2>1. FlattenSeq(seqs) = g[n]
    BY <1>6 DEF FlattenSeq
  <2>2. ASSUME NEW i \in 1 .. n PROVE f[i] = Val(h, i)
    <3>1. CASE i = 1
      <4>0. i - 1 = 0 /\ f[i] = f[i - 1] \o seqs[i]
        BY <1>1, <1>4, <3>1, SMTT(20)
      <4>1. f[i] = <<>> \o seqs[i] /\ seqs[i] \in Seq(R)
        BY <1>1, <1>4, <4>0
      <4> QED
        BY <3>1, <4>1
    <3>2. CASE i # 1
      <4>1. i - 1 \in 1 .. n
        BY <1>1, <3>2
      <4> QED
        BY <1>4, <3>2, <4>1
    <3> QED
      BY <3>1, <3>2
  <2>3. g = [i \in 1 .. n |-> Val(g, i)]
    <3>1. h = [i \in 1 .. n |-> Val(h, i)]
      BY <2>2
    <3> HIDE DEF h
    <3> QED
      BY <3>1
  <2> HIDE DEF g
  <2>4. 0 \in S
    OBVIOUS
  <2>5. ASSUME NEW i \in S, i \in Nat PROVE i + 1 \in S
    <3>1. CASE i + 1 \in 1 .. n
      <4>0. PICK j \in 1 .. n : j = i + 1 /\ j - 1 = i
        BY <2>5, <3>1
      <4>1. g[j] = Val(g, j) /\ f[j] = Val(h, j)
        BY <2>2, <2>3
      <4>2. CASE i = 0
        BY <4>0, <4>1, <4>2
      <4>3. CASE i # 0
        <5>1. i \in 1 .. n /\ j # 1
          BY <1>1, <2>5, <3>1, <4>0, <4>3
        <5>2. g[i] = f[i] /\ h[i] = f[i]
          BY <2>5, <5>1
        <5> QED
          <6>1. g[j] = g[i] \o seqs[j] /\ f[j] = h[i] \o seqs[j]
            <7> HIDE DEF h
            <7> QED
              BY <4>0, <4>1, <5>1
          <6>2. g[j] = f[j]
            BY <5>2, <6>1, Zenon
          <6> QED
            BY <2>5, <4>0, <6>2
      <4> QED
        BY <4>2, <4>3
    <3> QED
      BY <2>5, <3>1
  <2> HIDE DEF S
  <2>6. n \in S
    BY <1>1, <2>4, <2>5, SetInduction
  <2>7. g[n] = f[n] /\ f[n] \in Seq(R)
    BY <1>1, <1>3, <1>6, <2>6 DEF S
  <2> QED
    BY <1>2, <2>1, <2>7 DEF f
<1> QED
    BY <1>5, <1>6

\* FlattenSeq of sequences over a set is a sequence over it.
LEMMA Flattened ==
    ASSUME NEW R, NEW seqs \in Seq(Seq(R))
    PROVE  FlattenSeq(seqs) \in Seq(R)
BY FlattenedBy

\* Nothing flattens to nothing.
LEMMA FlattenedNone == FlattenSeq(<<>>) = <<>>
<1>0. PICK R : R = {}
    OBVIOUS
<1>1. PICK s \in Seq(Seq(R)) : s = <<>> /\ Len(s) = 0
  <2>1. <<>> \in Seq(Seq(R)) /\ Len(<<>>) = 0
    OBVIOUS
  <2> QED
    BY <2>1
<1>2. PICK f, step : /\ f = Iterate(<<>>, Len(s), Join(s, R)) /\ step = Join(s, R)
                     /\ FlattenSeq(s) = f[Len(s)] /\ step \in [1 .. Len(s) -> [Seq(R) -> Seq(R)]]
    BY FlattenedBy
<1>3. Steps(f, <<>>, 0, step)
  <2>1. <<>> \in Seq(R) /\ 0 \in Nat /\ step \in [1 .. 0 -> [Seq(R) -> Seq(R)]]
    BY <1>1, <1>2
  <2>2. Steps(Iterate(<<>>, 0, step), <<>>, 0, step)
    BY <2>1, Iteration
  <2> QED
    BY <1>1, <1>2, <2>2, Zenon
<1> QED
    BY <1>1, <1>2, <1>3 DEF Steps

\* One more sequence comes last.
LEMMA FlattenedMore ==
    ASSUME NEW R, NEW s \in Seq(Seq(R)), NEW e \in Seq(R)
    PROVE  FlattenSeq(Append(s, e)) = FlattenSeq(s) \o e
<1> DEFINE n == Len(s)
<1>1. PICK t : t = Append(s, e)
    OBVIOUS
<1>2. /\ n \in Nat /\ t \in Seq(Seq(R)) /\ Len(t) = n + 1 /\ t[n + 1] = e
      /\ \A i \in 1 .. n : t[i] = s[i]
    BY <1>1, ElementOf, Appended
<1> DEFINE f == Iterate(<<>>, n, Join(s, R))
           g == Iterate(<<>>, n + 1, Join(t, R))
<1>3. FlattenSeq(s) = f[n] /\ f[n] \in Seq(R) /\ Join(s, R) \in [1 .. n -> [Seq(R) -> Seq(R)]]
    BY FlattenedBy
<1>4. FlattenSeq(t) = g[n + 1] /\ Join(t, R) \in [1 .. n + 1 -> [Seq(R) -> Seq(R)]]
    BY <1>2, FlattenedBy
<1>5. Steps(f, <<>>, n, Join(s, R)) /\ Steps(g, <<>>, n + 1, Join(t, R)) /\ n + 1 \in Nat
  <2>1. <<>> \in Seq(R) /\ n + 1 \in Nat
    BY <1>2
  <2> QED
    BY <1>2, <1>3, <1>4, <2>1, Iteration
<1> HIDE DEF f, g
<1>6. Steps(g, <<>>, n, Join(s, R))
  <2> SUFFICES ASSUME NEW i \in 1 .. n
               PROVE  g[i] = Join(s, R)[i][g[i - 1]]
    BY <1>5 DEF Steps
  <2>1. i \in 1 .. n + 1
    BY <1>2
  <2>2. g[i] = Join(t, R)[i][g[i - 1]]
    BY <1>5, <2>1 DEF Steps
  <2>3. Join(t, R)[i] = Join(s, R)[i]
    BY <1>2, <2>1 DEF Join
  <2> QED
    BY <2>2, <2>3
<1>7. f[n] = g[n]
  <2>1. \A i \in 0 .. n : f[i] = g[i]
    BY <1>2, <1>5, <1>6, SameIteration
  <2> QED
    BY <1>2, <2>1
<1>8. g[n + 1] = Join(t, R)[n + 1][g[n]]
  <2>1. n + 1 \in 1 .. n + 1 /\ (n + 1) - 1 = n
    BY <1>2
  <2> QED
    BY <1>5, <2>1 DEF Steps
<1>9. g[n + 1] = f[n] \o e
  <2>1. n + 1 \in 1 .. Len(t)
    BY <1>2
  <2> QED
    BY <1>2, <1>3, <1>7, <1>8, <2>1 DEF Join
<1> QED
    BY <1>1, <1>3, <1>4, <1>9

\* What is flattened is in the result, and nothing else.
LEMMA FlattenedMembers ==
    ASSUME NEW R, NEW seqs \in Seq(Seq(R))
    PROVE  \A e : e \in ToSet(FlattenSeq(seqs)) <=> \E p \in DOMAIN seqs : e \in ToSet(seqs[p])
<1> DEFINE Members(s) == \A e : e \in ToSet(FlattenSeq(s)) <=> \E p \in DOMAIN s : e \in ToSet(s[p])
           P == {s \in Seq(Seq(R)) : Members(s)}
<1>1. <<>> \in P
  <2>1. <<>> \in Seq(Seq(R)) /\ DOMAIN <<>> = {} /\ ToSet(<<>>) = {}
    BY DEF ToSet
  <2> QED
    BY <2>1, FlattenedNone
<1>2. ASSUME NEW t \in Seq(Seq(R)), NEW q \in Seq(R), t \in P PROVE Append(t, q) \in P
  <2>1. PICK u : u = Append(t, q)
    OBVIOUS
  <2>2. /\ u \in Seq(Seq(R)) /\ Len(t) \in Nat
        /\ DOMAIN t = 1 .. Len(t) /\ DOMAIN u = 1 .. Len(t) + 1
        /\ \A i \in 1 .. Len(t) : u[i] = t[i]
        /\ u[Len(t) + 1] = q
    BY <2>1, Appended, ElementOf
  <2>3. ToSet(FlattenSeq(u)) = ToSet(FlattenSeq(t)) \cup ToSet(q)
    <3>1. FlattenSeq(t) \in Seq(R)
      BY Flattened
    <3>2. FlattenSeq(u) = FlattenSeq(t) \o q
      BY <2>1, FlattenedMore
    <3> QED
      BY <3>1, <3>2, ConcatElements
  <2>4. Members(t)
    BY <1>2
  <2>5. ASSUME NEW e
        PROVE  (\E p \in DOMAIN u : e \in ToSet(u[p])) <=>
               (\E p \in DOMAIN t : e \in ToSet(t[p])) \/ e \in ToSet(q)
    <3>1. \A p \in DOMAIN u : p \in DOMAIN t \/ p = Len(t) + 1
      BY <2>2
    <3>2. DOMAIN t \subseteq DOMAIN u /\ Len(t) + 1 \in DOMAIN u
      BY <2>2
    <3> QED
      BY <2>2, <3>1, <3>2, Zenon
  <2>6. Members(u)
    BY <2>3, <2>4, <2>5
  <2> QED
    BY <2>1, <2>2, <2>6
<1> HIDE DEF P
<1>3. Seq(Seq(R)) \subseteq P
    BY <1>1, <1>2, SequenceInduction
<1> QED
    BY <1>3 DEF P

\* The same of functions.
LEMMA FlattenedNext ==
    ASSUME NEW R, NEW m \in Nat, NEW s \in [1 .. m -> Seq(R)], NEW t \in [1 .. m + 1 -> Seq(R)],
           \A i \in 1 .. m : t[i] = s[i]
    PROVE  FlattenSeq(t) = FlattenSeq(s) \o t[m + 1] /\ FlattenSeq(s) \in Seq(R)
<1>1. s \in Seq(Seq(R)) /\ Len(s) = m
    BY FunctionIsSequence
<1>2. PICK u : u = Append(s, t[m + 1])
    OBVIOUS
<1>3. t[m + 1] \in Seq(R)
    OBVIOUS
<1>4. /\ u \in Seq(Seq(R)) /\ DOMAIN u = 1 .. m + 1
      /\ (\A i \in 1 .. m : u[i] = s[i]) /\ u[m + 1] = t[m + 1]
    BY <1>1, <1>2, <1>3, Appended
<1>5. ASSUME NEW i \in 1 .. m + 1 PROVE u[i] = t[i]
  <2>1. CASE i = m + 1
    BY <1>4, <2>1
  <2>2. CASE i # m + 1
    <3>1. i \in 1 .. m
      BY <2>2
    <3> QED
      BY <1>4, <3>1
  <2> QED
    BY <2>1, <2>2
<1>6. u = t
  <2>1. u = [i \in 1 .. m + 1 |-> u[i]]
    BY <1>4, ElementOf
  <2> QED
    BY <1>5, <2>1
<1>7. FlattenSeq(u) = FlattenSeq(s) \o t[m + 1] /\ FlattenSeq(s) \in Seq(R)
    BY <1>1, <1>2, <1>3, FlattenedMore, Flattened
<1> QED
    BY <1>6, <1>7

\* The first k values of a function.
Leading(f, k) == [i \in 1 .. k |-> f[i]]

\* The sequences of f are those of g, then others, then none after position k.
Begins(f, g, k) ==
    /\ Len(g) <= Len(f)
    /\ \A i \in 1 .. Len(g) : f[i] = g[i]
    /\ \A i \in 1 .. Len(f) : i > k => f[i] = <<>>

\* Empty sequences at the end add nothing.
LEMMA FlattenedRest ==
    ASSUME NEW R, NEW f \in Seq(Seq(R)), NEW g \in Seq(Seq(R)), Begins(f, g, Len(g))
    PROVE  FlattenSeq(f) = FlattenSeq(g)
<1>s. PICK n \in Nat, m \in Nat : n = Len(f) /\ m = Len(g)
    BY ElementOf
<1>t. /\ f \in [1 .. n -> Seq(R)] /\ g \in [1 .. m -> Seq(R)] /\ m \in 0 .. n
    BY <1>s, ElementOf DEF Begins
<1>0. (\A i \in 1 .. m : f[i] = g[i]) /\ \A i \in 1 .. n : i > m => f[i] = <<>>
    BY <1>s DEF Begins
<1> DEFINE S == {k \in Nat : m + k <= n => FlattenSeq(Leading(f, m + k)) = FlattenSeq(Leading(f, m))}
<1>1. 0 \in S
    OBVIOUS
<1>2. ASSUME NEW k \in S, k \in Nat PROVE k + 1 \in S
  <2>1. CASE m + (k + 1) <= n
    <3>1. PICK j \in Nat : /\ j = m + k /\ j + 1 = m + (k + 1) /\ j + 1 > m
                           /\ j \in 0 .. n /\ j + 1 \in 0 .. n /\ j + 1 \in 1 .. n
      BY <1>2, <2>1
    <3>2. PICK s, t : s = Leading(f, j) /\ t = Leading(f, j + 1)
      OBVIOUS
    <3>3. /\ s \in [1 .. j -> Seq(R)] /\ t \in [1 .. j + 1 -> Seq(R)]
          /\ \A i \in 1 .. j : s[i] = f[i]
          /\ \A i \in 1 .. j + 1 : t[i] = f[i]
      BY <1>t, <3>1, <3>2 DEF Leading
    <3>4. (\A i \in 1 .. j : t[i] = s[i]) /\ t[j + 1] = <<>>
      <4>1. \A i \in 1 .. j : i \in 1 .. j + 1
        BY <3>1
      <4>2. j + 1 \in 1 .. j + 1 /\ f[j + 1] = <<>>
        BY <1>0, <3>1
      <4> QED
        BY <3>3, <4>1, <4>2
    <3>5. FlattenSeq(t) = FlattenSeq(s) \o t[j + 1] /\ FlattenSeq(s) \in Seq(R)
      BY <3>3, <3>4, FlattenedNext
    <3>6. FlattenSeq(t) = FlattenSeq(s)
      BY <3>4, <3>5
    <3>7. m + k <= n /\ FlattenSeq(Leading(f, m + k)) = FlattenSeq(Leading(f, m))
      BY <1>2, <3>1
    <3> QED
      BY <1>2, <3>1, <3>2, <3>6, <3>7
  <2> QED
    BY <1>2, <2>1
<1>3. PICK k \in Nat : m + k = n
  <2>1. n - m \in Nat /\ m + (n - m) = n
    BY <1>t
  <2> QED
    BY <2>1
<1>4. k \in S
  <2> HIDE DEF S
  <2> QED
    BY <1>1, <1>2, SetInduction
<1>5. Leading(f, n) = f /\ Leading(f, m) = g
    BY <1>0, <1>t DEF Leading
<1>6. m + k <= n
    BY <1>3
<1>7. FlattenSeq(Leading(f, m + k)) = FlattenSeq(Leading(f, m))
    BY <1>4, <1>6
<1> QED
    BY <1>3, <1>5, <1>7, Zenon

\* What the last sequence that is not empty adds.
LEMMA FlattenedAt ==
    ASSUME NEW R, NEW f \in Seq(Seq(R)), NEW g \in Seq(Seq(R)), Len(g) < Len(f),
           Begins(f, g, Len(g) + 1)
    PROVE  FlattenSeq(f) = FlattenSeq(g) \o f[Len(g) + 1]
<1>1. PICK n \in Nat, m \in Nat : n = Len(f) /\ m = Len(g)
    BY ElementOf
<1>2. /\ f \in [1 .. n -> Seq(R)] /\ g \in [1 .. m -> Seq(R)] /\ m + 1 \in 1 .. n
      /\ \A i \in 1 .. m : f[i] = g[i]
      /\ \A i \in 1 .. n : i > m + 1 => f[i] = <<>>
    BY <1>1, ElementOf DEF Begins
<1>3. PICK t : t = Leading(f, m + 1)
    OBVIOUS
<1>4. t \in [1 .. m + 1 -> Seq(R)] /\ \A i \in 1 .. m + 1 : t[i] = f[i]
    BY <1>2, <1>3 DEF Leading
<1>5. t \in Seq(Seq(R)) /\ Len(t) = m + 1
    BY <1>4, FunctionIsSequence
<1>6. FlattenSeq(f) = FlattenSeq(t)
  <2>1. Begins(f, t, Len(t))
    BY <1>1, <1>2, <1>4, <1>5 DEF Begins
  <2> QED
    BY <1>5, <2>1, FlattenedRest
<1>7. (\A i \in 1 .. m : t[i] = g[i]) /\ t[m + 1] = f[m + 1]
    BY <1>2, <1>4
<1>8. FlattenSeq(t) = FlattenSeq(g) \o t[m + 1]
    BY <1>2, <1>4, <1>7, FlattenedNext
<1> QED
    BY <1>1, <1>6, <1>7, <1>8
=============================================================================
