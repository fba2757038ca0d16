---------------------------- MODULE ChainsProofs ----------------------------
EXTENDS Chains, DataLemmas, FiniteSetTheorems

\* The loop of the sliding window over n messages.
Keep(s, roles, R) ==
  [i \in 1 .. Len(s) |-> [q \in Seq(R) |-> IF s[i].role \in roles THEN Append(q, s[i]) ELSE q]]

\* The messages of some roles, as the loop collects them.
LEMMA KeptBy ==
  ASSUME NEW R, NEW s \in Seq(R), NEW roles
  PROVE  /\ WithRole(s, roles) = Iterate(<<>>, Len(s), Keep(s, roles, R))[Len(s)]
         /\ Keep(s, roles, R) \in [1 .. Len(s) -> [Seq(R) -> Seq(R)]]
         /\ WithRole(s, roles) \in Seq(R)
<1> DEFINE n == Len(s)
           Val(g, i) == IF i = 0 THEN <<>>
                        ELSE IF s[i].role \in roles THEN Append(g[i - 1], s[i]) ELSE g[i - 1]
           kept == CHOOSE g : g = [i \in 0 .. n |-> Val(g, i)]
           f == Iterate(<<>>, n, Keep(s, roles, R))
<1>1. n \in Nat /\ (\A i \in 1 .. n : s[i] \in R) /\ <<>> \in Seq(R)
  BY ElementOf
<1>2. WithRole(s, roles) = kept[n]
  BY DEF WithRole
<1>3. Keep(s, roles, R) \in [1 .. n -> [Seq(R) -> Seq(R)]]
  BY <1>1 DEF Keep
<1>4. f \in [0 .. n -> Seq(R)] /\ Steps(f, <<>>, n, Keep(s, roles, R))
  BY <1>1, <1>3, Iteration
<1> HIDE DEF f
<1>5. \A i \in 1 .. n : f[i] = IF s[i].role \in roles THEN Append(f[i - 1], s[i]) ELSE f[i - 1]
  <2> SUFFICES ASSUME NEW i \in 1 .. n
               PROVE  f[i] = IF s[i].role \in roles THEN Append(f[i - 1], s[i]) ELSE f[i - 1]
    OBVIOUS
  <2>1. i - 1 \in 0 .. n
    BY <1>1
  <2>2. f[i - 1] \in Seq(R) /\ f[i] = Keep(s, roles, R)[i][f[i - 1]]
    BY <1>4, <2>1 DEF Steps
  <2> QED
    BY <2>2 DEF Keep
<1>6. f = [i \in 0 .. n |-> Val(f, i)]
  <2>1. f[0] = <<>> /\ \A i \in 0 .. n : i = 0 \/ i \in 1 .. n
    BY <1>1, <1>4 DEF Steps
  <2>2. \A i \in 0 .. n : f[i] = Val(f, i)
    BY <1>5, <2>1
  <2> HIDE DEF Val
  <2> QED
    BY <1>4, <2>2
<1>7. kept = [i \in 0 .. n |-> Val(kept, i)]
  BY <1>6
<1> HIDE DEF kept
<1>8. kept[0] = <<>> /\ \A i \in 1 .. n :
        kept[i] = IF s[i].role \in roles THEN Append(kept[i - 1], s[i]) ELSE kept[i - 1]
  <2>1. \A i \in 0 .. n : kept[i] = Val(kept, i)
    BY <1>7
  <2>2. 0 \in 0 .. n /\ \A i \in 1 .. n : i \in 0 .. n /\ i # 0
    BY <1>1
  <2> QED
    BY <2>1, <2>2
<1> DEFINE T == {i \in Nat : i <= n => kept[i] = f[i]}
<1>9. 0 \in T
  BY <1>4, <1>8 DEF Steps
<1>10. ASSUME NEW i \in T, i \in Nat PROVE i + 1 \in T
  <2>1. CASE i + 1 <= n
    <3>1. kept[i] = f[i] /\ i + 1 \in 1 .. n /\ (i + 1) - 1 = i
      BY <1>1, <1>10, <2>1
    <3> QED
      BY <1>5, <1>8, <1>10, <3>1
  <2> QED
    BY <1>10, <2>1
<1> HIDE DEF T
<1>11. n \in T
  BY <1>1, <1>9, <1>10, SetInduction
<1>12. kept[n] = f[n] /\ f[n] \in Seq(R)
  BY <1>1, <1>4, <1>11 DEF T
<1> QED
  BY <1>2, <1>3, <1>12 DEF f

\* One more message.
LEMMA KeptMore ==
  ASSUME NEW R, NEW s \in Seq(R), NEW e \in R, NEW roles
  PROVE  WithRole(Append(s, e), roles)
           = IF e.role \in roles THEN Append(WithRole(s, roles), e) ELSE WithRole(s, roles)
<1> DEFINE n == Len(s)
<1>1. PICK t : t = Append(s, e)
  OBVIOUS
<1>2. /\ n \in Nat /\ t \in Seq(R) /\ Len(t) = n + 1 /\ t[n + 1] = e
      /\ \A i \in 1 .. n : t[i] = s[i]
  BY <1>1, ElementOf, Appended
<1> DEFINE f == Iterate(<<>>, n, Keep(s, roles, R))
           g == Iterate(<<>>, n + 1, Keep(t, roles, R))
<1>3. /\ WithRole(s, roles) = f[n] /\ f[n] \in Seq(R)
      /\ Keep(s, roles, R) \in [1 .. n -> [Seq(R) -> Seq(R)]]
  BY KeptBy
<1>4. /\ WithRole(t, roles) = g[n + 1]
      /\ Keep(t, roles, R) \in [1 .. n + 1 -> [Seq(R) -> Seq(R)]]
  BY <1>2, KeptBy
<1>5. /\ Steps(f, <<>>, n, Keep(s, roles, R))
      /\ Steps(g, <<>>, n + 1, Keep(t, roles, R))
      /\ n + 1 \in Nat
  <2>1. <<>> \in Seq(R) /\ n + 1 \in Nat
    BY <1>2
  <2> QED
    BY <1>2, <1>3, <1>4, <2>1, Iteration
<1> HIDE DEF f, g
<1>6. Steps(g, <<>>, n, Keep(s, roles, R))
  <2> SUFFICES ASSUME NEW i \in 1 .. n
               PROVE  g[i] = Keep(s, roles, R)[i][g[i - 1]]
    BY <1>5 DEF Steps
  <2>1. i \in 1 .. n + 1
    BY <1>2
  <2>2. g[i] = Keep(t, roles, R)[i][g[i - 1]]
    BY <1>5, <2>1 DEF Steps
  <2>3. Keep(t, roles, R)[i] = Keep(s, roles, R)[i]
    BY <1>2, <2>1 DEF Keep
  <2> QED
    BY <2>2, <2>3
<1>7. f[n] = g[n]
  <2>1. \A i \in 0 .. n : f[i] = g[i]
    BY <1>2, <1>5, <1>6, SameIteration
  <2> QED
    BY <1>2, <2>1
<1>8. g[n + 1] = Keep(t, roles, R)[n + 1][g[n]]
  <2>1. n + 1 \in 1 .. n + 1 /\ (n + 1) - 1 = n
    BY <1>2
  <2> QED
    BY <1>5, <2>1 DEF Steps
<1>9. g[n + 1] = IF e.role \in roles THEN Append(f[n], e) ELSE f[n]
  <2>1. n + 1 \in 1 .. Len(t)
    BY <1>2
  <2> QED
    BY <1>2, <1>3, <1>7, <1>8, <2>1 DEF Keep
<1> QED
  BY <1>1, <1>3, <1>4, <1>9

\* No message, nothing kept.
LEMMA KeptOfNone ==
  ASSUME NEW roles
  PROVE  WithRole(<<>>, roles) = <<>>
<1>0. <<>> \in Seq({}) /\ Len(<<>>) = 0
  OBVIOUS
<1>1. PICK s \in Seq({}) : s = <<>> /\ Len(s) = 0
  BY <1>0, Zenon
<1> DEFINE f == Iterate(<<>>, Len(s), Keep(s, roles, {}))
<1>2. /\ WithRole(s, roles) = f[Len(s)]
      /\ Keep(s, roles, {}) \in [1 .. Len(s) -> [Seq({}) -> Seq({})]]
  BY KeptBy
<1>3. Len(s) \in Nat /\ <<>> \in Seq({})
  OBVIOUS
<1>4. Steps(f, <<>>, Len(s), Keep(s, roles, {}))
  BY <1>2, <1>3, Iteration
<1> HIDE DEF f
<1> QED
  BY <1>1, <1>2, <1>4 DEF Steps

Of(R, roles) == {m \in R : m.role \in roles}

\* What is kept has the roles; all is kept of what has them, and nothing of what
\* has none of them.
LEMMA KeptRoles ==
  ASSUME NEW R, NEW roles
  PROVE  /\ \A s \in Seq(R) : WithRole(s, roles) \in Seq(Of(R, roles))
         /\ \A s \in Seq(Of(R, roles)) : WithRole(s, roles) = s
         /\ \A s \in Seq(R \ Of(R, roles)) : WithRole(s, roles) = <<>>
<1> DEFINE A == {s \in Seq(R) : WithRole(s, roles) \in Seq(Of(R, roles))}
           B == {s \in Seq(Of(R, roles)) : WithRole(s, roles) = s}
           C == {s \in Seq(R \ Of(R, roles)) : WithRole(s, roles) = <<>>}
<1>1. Seq(R) \subseteq A
  <2>1. <<>> \in A
    <3>1. <<>> \in Seq(R) /\ <<>> \in Seq(Of(R, roles))
      OBVIOUS
    <3> QED
      BY <3>1, KeptOfNone, Zenon
  <2>2. ASSUME NEW t \in Seq(R), NEW e \in R, t \in A PROVE Append(t, e) \in A
    <3>1. WithRole(Append(t, e), roles)
            = IF e.role \in roles THEN Append(WithRole(t, roles), e) ELSE WithRole(t, roles)
      BY KeptMore
    <3>2. WithRole(t, roles) \in Seq(Of(R, roles)) /\ Append(t, e) \in Seq(R)
      BY <2>2
    <3>3. CASE e.role \in roles
      <4>1. e \in Of(R, roles)
        BY <3>3 DEF Of
      <4> QED
        BY <3>1, <3>2, <3>3, <4>1
    <3> QED
      BY <3>1, <3>2, <3>3
  <2> HIDE DEF A
  <2> QED
    BY <2>1, <2>2, SequenceInduction
<1>2. Seq(Of(R, roles)) \subseteq B
  <2>1. <<>> \in B
    BY KeptOfNone
  <2>2. ASSUME NEW t \in Seq(Of(R, roles)), NEW e \in Of(R, roles), t \in B
        PROVE  Append(t, e) \in B
    <3>1. e.role \in roles /\ Append(t, e) \in Seq(Of(R, roles))
      BY DEF Of
    <3>2. WithRole(Append(t, e), roles)
            = IF e.role \in roles THEN Append(WithRole(t, roles), e) ELSE WithRole(t, roles)
      BY KeptMore
    <3> QED
      BY <2>2, <3>1, <3>2
  <2> HIDE DEF B
  <2> QED
    BY <2>1, <2>2, SequenceInduction
<1>3. Seq(R \ Of(R, roles)) \subseteq C
  <2>1. <<>> \in C
    BY KeptOfNone
  <2>2. ASSUME NEW t \in Seq(R \ Of(R, roles)), NEW e \in R \ Of(R, roles), t \in C
        PROVE  Append(t, e) \in C
    <3>1. e.role \notin roles /\ Append(t, e) \in Seq(R \ Of(R, roles))
      BY DEF Of
    <3>2. WithRole(Append(t, e), roles)
            = IF e.role \in roles THEN Append(WithRole(t, roles), e) ELSE WithRole(t, roles)
      BY KeptMore
    <3> QED
      BY <2>2, <3>1, <3>2
  <2> HIDE DEF C
  <2> QED
    BY <2>1, <2>2, SequenceInduction
<1> QED
  BY <1>1, <1>2, <1>3

\* What is kept of two lists, one behind the other.
LEMMA KeptConcat ==
  ASSUME NEW R, NEW s \in Seq(R), NEW t \in Seq(R), NEW roles
  PROVE  WithRole(s \o t, roles) = WithRole(s, roles) \o WithRole(t, roles)
<1> DEFINE P == {u \in Seq(R) : WithRole(s \o u, roles) = WithRole(s, roles) \o WithRole(u, roles)}
<1>1. WithRole(s, roles) \in Seq(R)
  BY KeptBy
<1>2. <<>> \in P
  BY <1>1, KeptOfNone, ConcatAppend
<1>3. ASSUME NEW u \in Seq(R), NEW e \in R, u \in P PROVE Append(u, e) \in P
  <2>1. /\ s \o Append(u, e) = Append(s \o u, e) /\ s \o u \in Seq(R)
        /\ Append(u, e) \in Seq(R) /\ WithRole(u, roles) \in Seq(R)
    BY KeptBy, ConcatAppend
  <2>2. /\ WithRole(Append(u, e), roles)
             = IF e.role \in roles THEN Append(WithRole(u, roles), e) ELSE WithRole(u, roles)
        /\ WithRole(Append(s \o u, e), roles)
             = IF e.role \in roles THEN Append(WithRole(s \o u, roles), e)
               ELSE WithRole(s \o u, roles)
    <3>1. PICK v \in Seq(R) : v = s \o u
      BY <2>1
    <3>2. WithRole(Append(v, e), roles)
            = IF e.role \in roles THEN Append(WithRole(v, roles), e) ELSE WithRole(v, roles)
      BY KeptMore
    <3>3. WithRole(Append(u, e), roles)
            = IF e.role \in roles THEN Append(WithRole(u, roles), e) ELSE WithRole(u, roles)
      BY KeptMore
    <3> QED
      BY <3>1, <3>2, <3>3, Zenon
  <2>3. WithRole(s, roles) \o Append(WithRole(u, roles), e)
          = Append(WithRole(s, roles) \o WithRole(u, roles), e)
    BY <1>1, <2>1, ConcatAppend
  <2> QED
    BY <1>3, <2>1, <2>2, <2>3
<1> HIDE DEF P
<1>4. t \in P
  BY <1>2, <1>3, SequenceInduction
<1> QED
  BY <1>4 DEF P

-----------------------------------------------------------------------------
(* The stages *)

\* The ids of messages, one by one.
LEMMA IdsOf ==
  ASSUME NEW s \in Seq(Messages)
  PROVE  /\ Ids(s) \in Seq(Nat) /\ Len(Ids(s)) = Len(s)
         /\ \A i \in 1 .. Len(s) : Ids(s)[i] = s[i].id
         /\ \A e \in Messages : Ids(Append(s, e)) = Append(Ids(s), e.id)
<1>1. /\ Len(s) \in Nat /\ DOMAIN s = 1 .. Len(s) /\ \A i \in 1 .. Len(s) : s[i] \in Messages
  BY ElementOf
<1>2. Ids(s) = [i \in 1 .. Len(s) |-> s[i].id]
  BY <1>1 DEF Ids
<1>3. Ids(s) \in [1 .. Len(s) -> Nat]
  BY <1>1, <1>2 DEF Messages
<1>4. Ids(s) \in Seq(Nat) /\ Len(Ids(s)) = Len(s)
  BY <1>1, <1>3, FunctionIsSequence
<1>5. ASSUME NEW e \in Messages PROVE Ids(Append(s, e)) = Append(Ids(s), e.id)
  <2>1. e.id \in Nat
    BY DEF Messages
  <2>2. /\ DOMAIN Append(s, e) = 1 .. Len(s) + 1 /\ Append(s, e)[Len(s) + 1] = e
        /\ \A i \in 1 .. Len(s) : Append(s, e)[i] = s[i]
    BY Appended
  <2>3. Ids(Append(s, e)) = [i \in 1 .. Len(s) + 1 |-> Append(s, e)[i].id]
    BY <2>2 DEF Ids
  <2>4. Append(Ids(s), e.id) = [i \in 1 .. Len(s) + 1 |-> Append(Ids(s), e.id)[i]]
    BY <1>4, <2>1
  <2>5. ASSUME NEW i \in 1 .. Len(s) + 1
        PROVE  Append(s, e)[i].id = Append(Ids(s), e.id)[i]
    <3>1. CASE i = Len(s) + 1
      BY <1>1, <1>4, <2>1, <2>2, <3>1
    <3>2. CASE i # Len(s) + 1
      <4>1. i \in 1 .. Len(s)
        BY <1>1, <3>2
      <4>2. Append(Ids(s), e.id)[i] = Ids(s)[i]
        BY <1>4, <2>1, <4>1
      <4> QED
        BY <1>2, <2>2, <4>1, <4>2
    <3> QED
      BY <3>1, <3>2
  <2> QED
    BY <2>3, <2>4, <2>5
<1> QED
  BY <1>2, <1>4, <1>5

Redacted(m) == IF m.text = "secret" THEN [m EXCEPT !.text = "redacted"] ELSE m
RedactedAll(s) == [i \in DOMAIN s |-> Redacted(s[i])]

\* The scrubber changes texts, one message at a time.
LEMMA RedactedMore ==
  ASSUME NEW s \in Seq(Messages), NEW e \in Messages
  PROVE  /\ RedactedAll(s) \in Seq(Messages) /\ Len(RedactedAll(s)) = Len(s)
         /\ \A i \in 1 .. Len(s) : RedactedAll(s)[i] = Redacted(s[i])
         /\ Redacted(e) \in Messages /\ Redacted(e).text # "secret"
         /\ Redacted(e).role = e.role /\ Redacted(e).id = e.id
         /\ RedactedAll(Append(s, e)) = Append(RedactedAll(s), Redacted(e))
<1>1. /\ Len(s) \in Nat /\ DOMAIN s = 1 .. Len(s) /\ \A i \in 1 .. Len(s) : s[i] \in Messages
  BY ElementOf
<1>2. \A m \in Messages : /\ Redacted(m) \in Messages /\ Redacted(m).text # "secret"
                           /\ Redacted(m).role = m.role /\ Redacted(m).id = m.id
  BY DEF Messages, Redacted
<1>3. RedactedAll(s) = [i \in 1 .. Len(s) |-> Redacted(s[i])]
  BY <1>1 DEF RedactedAll
<1>4. RedactedAll(s) \in [1 .. Len(s) -> Messages]
  BY <1>1, <1>2, <1>3
<1>5. RedactedAll(s) \in Seq(Messages) /\ Len(RedactedAll(s)) = Len(s)
  BY <1>1, <1>4, FunctionIsSequence
<1>6. RedactedAll(Append(s, e)) = Append(RedactedAll(s), Redacted(e))
  <2>1. Redacted(e) \in Messages
    BY <1>2
  <2>2. /\ DOMAIN Append(s, e) = 1 .. Len(s) + 1 /\ Append(s, e)[Len(s) + 1] = e
        /\ \A i \in 1 .. Len(s) : Append(s, e)[i] = s[i]
    BY Appended
  <2>3. RedactedAll(Append(s, e)) = [i \in 1 .. Len(s) + 1 |-> Redacted(Append(s, e)[i])]
    BY <2>2 DEF RedactedAll
  <2>4. /\ Append(RedactedAll(s), Redacted(e))
             = [i \in 1 .. Len(s) + 1 |-> Append(RedactedAll(s), Redacted(e))[i]]
        /\ Append(RedactedAll(s), Redacted(e))[Len(s) + 1] = Redacted(e)
        /\ \A i \in 1 .. Len(s) : Append(RedactedAll(s), Redacted(e))[i] = RedactedAll(s)[i]
    BY <1>5, <2>1, Appended
  <2>5. ASSUME NEW i \in 1 .. Len(s) + 1
        PROVE  Redacted(Append(s, e)[i]) = Append(RedactedAll(s), Redacted(e))[i]
    <3>1. CASE i = Len(s) + 1
      BY <2>2, <2>4, <3>1
    <3>2. CASE i # Len(s) + 1
      <4>1. i \in 1 .. Len(s)
        BY <1>1, <3>2
      <4> QED
        BY <1>3, <2>2, <2>4, <4>1
    <3> QED
      BY <3>1, <3>2
  <2> QED
    BY <2>3, <2>4, <2>5
<1> QED
  BY <1>2, <1>3, <1>5, <1>6

\* Scrubbing leaves the messages of each role where they are.
LEMMA RedactedKept ==
  ASSUME NEW roles
  PROVE  \A s \in Seq(Messages) :
           Ids(WithRole(RedactedAll(s), roles)) = Ids(WithRole(s, roles))
<1> DEFINE P == {s \in Seq(Messages) : Ids(WithRole(RedactedAll(s), roles)) = Ids(WithRole(s, roles))}
<1>1. <<>> \in P
  <2>1. <<>> \in Seq(Messages) /\ Len(<<>>) = 0
    OBVIOUS
  <2>2. RedactedAll(<<>>) = <<>>
    BY <2>1 DEF RedactedAll
  <2> QED
    BY <2>1, <2>2
<1>2. ASSUME NEW t \in Seq(Messages), NEW e \in Messages, t \in P
      PROVE  Append(t, e) \in P
  <2>1. PICK u \in Seq(Messages), d \in Messages :
          u = RedactedAll(t) /\ d = Redacted(e) /\ d.role = e.role /\ d.id = e.id
          /\ RedactedAll(Append(t, e)) = Append(u, d)
    BY RedactedMore
  <2>2. WithRole(Append(u, d), roles)
          = IF d.role \in roles THEN Append(WithRole(u, roles), d) ELSE WithRole(u, roles)
    BY KeptMore
  <2>3. WithRole(Append(t, e), roles)
          = IF e.role \in roles THEN Append(WithRole(t, roles), e) ELSE WithRole(t, roles)
    BY KeptMore
  <2>4. WithRole(u, roles) \in Seq(Messages) /\ WithRole(t, roles) \in Seq(Messages)
    BY KeptBy
  <2>5. /\ Ids(Append(WithRole(u, roles), d)) = Append(Ids(WithRole(u, roles)), d.id)
        /\ Ids(Append(WithRole(t, roles), e)) = Append(Ids(WithRole(t, roles)), e.id)
    BY <2>4, IdsOf
  <2>6. Ids(WithRole(u, roles)) = Ids(WithRole(t, roles))
    BY <1>2, <2>1
  <2>7. Ids(WithRole(Append(u, d), roles)) = Ids(WithRole(Append(t, e), roles))
    BY <2>1, <2>2, <2>3, <2>5, <2>6
  <2>8. Append(t, e) \in Seq(Messages)
    OBVIOUS
  <2> QED
    BY <2>1, <2>7, <2>8
<1> HIDE DEF P
<1>3. Seq(Messages) \subseteq P
  BY <1>1, <1>2, SequenceInduction
<1> QED
  BY <1>3 DEF P

\* The secret scrubber: no text is left with a secret, the messages stay.
LEMMA Scrubbed ==
  ASSUME NEW s \in Seq(Messages)
  PROVE  /\ Scrub(s).out \in Seq(Messages) /\ Scrub(s).decs \in Seq({"redact"})
         /\ Scrub(s).err = FALSE
         /\ \A i \in DOMAIN Scrub(s).out : Scrub(s).out[i].text # "secret"
         /\ SystemIds(Scrub(s).out) = SystemIds(s) /\ TurnIds(Scrub(s).out) = TurnIds(s)
<1> DEFINE hits == {i \in DOMAIN s : s[i].text = "secret"}
           c == Cardinality(hits)
<1>1. /\ Scrub(s).out = RedactedAll(s) /\ Scrub(s).err = FALSE
      /\ Scrub(s).decs = [n \in 1 .. c |-> "redact"]
  BY DEF Scrub, Decide, RedactedAll, Redacted
<1>2. /\ RedactedAll(s) \in Seq(Messages) /\ Len(RedactedAll(s)) = Len(s)
      /\ \A i \in 1 .. Len(s) : RedactedAll(s)[i] = Redacted(s[i])
  <2>1. \E e : e \in Messages
    <3>1. [role |-> "user", text |-> "clean", id |-> 0] \in Messages
      BY DEF Messages, Roles
    <3> QED
      BY <3>1
  <2> QED
    BY <2>1, RedactedMore
<1>3. c \in Nat
  <2>1. hits \subseteq 1 .. Len(s) /\ Len(s) \in Nat
    BY ElementOf
  <2>2. IsFiniteSet(1 .. Len(s))
    BY <2>1, FS_Interval
  <2> HIDE DEF hits
  <2> QED
    BY <2>1, <2>2, FS_Subset, FS_CardinalityType
<1>4. Scrub(s).decs \in Seq({"redact"})
  <2> HIDE DEF c
  <2>1. [n \in 1 .. c |-> "redact"] \in [1 .. c -> {"redact"}]
    OBVIOUS
  <2> QED
    BY <1>1, <1>3, <2>1, FunctionIsSequence
<1>5. ASSUME NEW i \in DOMAIN Scrub(s).out PROVE Scrub(s).out[i].text # "secret"
  <2>1. i \in 1 .. Len(s) /\ s[i] \in Messages
    BY <1>1, <1>2, ElementOf
  <2>2. Redacted(s[i]).text # "secret"
    BY <2>1, RedactedMore
  <2> QED
    BY <1>1, <1>2, <2>1, <2>2
<1>6. SystemIds(Scrub(s).out) = SystemIds(s) /\ TurnIds(Scrub(s).out) = TurnIds(s)
  BY <1>1, RedactedKept DEF SystemIds, TurnIds, System, Turns
<1> QED
  BY <1>1, <1>2, <1>4, <1>5, <1>6

\* The sliding window: the system messages and the newest n others.
LEMMA Windowed ==
  ASSUME NEW s \in Seq(Messages), NEW n \in Nat \ {0}
  PROVE  /\ Window(s, n).out \in Seq(Messages) /\ Window(s, n).decs \in Seq({"redact"})
         /\ Window(s, n).err = FALSE
         /\ Range(Window(s, n).out) \subseteq Range(s)
         /\ SystemIds(Window(s, n).out) = SystemIds(s)
         /\ IsSuffix(TurnIds(Window(s, n).out), TurnIds(s))
         /\ Len(TurnIds(Window(s, n).out)) <= n
         /\ Window(s, n).out = s \/ Len(TurnIds(Window(s, n).out)) = n
<1> DEFINE Sys == Of(Messages, {"system"})
           Trn == Of(Messages, Roles \ {"system"})
           convo == Turns(s)
           c == Len(convo)
           kept == SubSeq(convo, c - n + 1, c)
<1>1. Sys = Messages \ Trn /\ Trn = Messages \ Sys
  BY DEF Of, Messages
<1>2. System(s) \in Seq(Sys) /\ convo \in Seq(Trn)
  BY KeptRoles DEF System, Turns
<1>3. System(s) \in Seq(Messages) /\ convo \in Seq(Messages) /\ c \in Nat
  BY KeptBy DEF System, Turns
<1>4. /\ TurnIds(s) = Ids(convo) /\ Ids(convo) \in Seq(Nat) /\ Len(Ids(convo)) = c
      /\ \A i \in 1 .. c : Ids(convo)[i] = convo[i].id
  BY <1>3, IdsOf DEF TurnIds
<1> HIDE DEF Sys, Trn, convo
<1>5. CASE c <= n
  <2>1. /\ Window(s, n).out = s /\ Window(s, n).decs = <<>> /\ Window(s, n).err = FALSE
    BY <1>5 DEF Window, Pass, convo
  <2>2. IsSuffix(TurnIds(s), TurnIds(s))
    BY <1>4, SuffixByElement
  <2>3. <<>> \in Seq({"redact"})
    OBVIOUS
  <2> QED
    BY <1>4, <1>5, <2>1, <2>2, <2>3
<1>6. CASE c > n
  <2>1. /\ Window(s, n).out = System(s) \o kept /\ Window(s, n).decs = <<"redact">>
        /\ Window(s, n).err = FALSE
    BY <1>3, <1>6 DEF Window, Decide, convo
  <2>2. c - n + 1 \in 1 .. c /\ c - (c - n + 1) + 1 = n
    BY <1>3, <1>6
  <2>3. /\ kept \in Seq(Trn) /\ Len(kept) = n
        /\ \A i \in 1 .. n : kept[i] = convo[c - n + i]
    BY <1>2, <1>3, <2>2
  <2>4. kept \in Seq(Messages)
    BY <1>3, <2>2
  <2> HIDE DEF kept
  <2>5. System(s) \o kept \in Seq(Messages)
    BY <1>3, <2>4
  <2>6. System(System(s) \o kept) = System(s)
    <3>1. System(System(s) \o kept) = System(System(s)) \o System(kept)
      BY <1>3, <2>4, KeptConcat DEF System
    <3>2. System(System(s)) = System(s)
      BY <1>2, KeptRoles DEF System, Sys
    <3>3. System(kept) = <<>>
      <4>1. kept \in Seq(Messages \ Of(Messages, {"system"}))
        BY <1>1, <2>3 DEF Sys
      <4> QED
        BY <4>1, KeptRoles DEF System
    <3> QED
      BY <1>3, <3>1, <3>2, <3>3, ConcatAppend
  <2>7. Turns(System(s) \o kept) = kept
    <3>1. Turns(System(s) \o kept) = Turns(System(s)) \o Turns(kept)
      <4>1. PICK u \in Seq(Messages), v \in Seq(Messages) : u = System(s) /\ v = kept
        BY <1>3, <2>4, Zenon
      <4>2. \A roles : WithRole(u \o v, roles) = WithRole(u, roles) \o WithRole(v, roles)
        BY KeptConcat
      <4>3. Turns(u \o v) = Turns(u) \o Turns(v)
        BY <4>2, Zenon DEF Turns
      <4> QED
        BY <4>1, <4>3, Zenon
    <3>2. Turns(kept) = kept
      BY <2>3, KeptRoles DEF Turns, Trn
    <3>3. Turns(System(s)) = <<>>
      <4>1. System(s) \in Seq(Messages \ Of(Messages, Roles \ {"system"}))
        BY <1>1, <1>2 DEF Trn
      <4> QED
        BY <4>1, KeptRoles DEF Turns
    <3> QED
      BY <2>4, <3>1, <3>2, <3>3
  <2>8. /\ TurnIds(System(s) \o kept) = Ids(kept) /\ Ids(kept) \in Seq(Nat) /\ Len(Ids(kept)) = n
        /\ \A i \in 1 .. n : Ids(kept)[i] = kept[i].id
    BY <2>3, <2>4, <2>7, IdsOf DEF TurnIds
  <2>9. IsSuffix(Ids(kept), Ids(convo))
    <3>1. \A i \in 1 .. n : c - n + i \in 1 .. c
      BY <1>3, <1>6
    <3>2. \A i \in 1 .. n : Ids(kept)[i] = Ids(convo)[c - n + i]
      BY <1>4, <2>3, <2>8, <3>1
    <3>3. PICK u \in Seq(Nat), v \in Seq(Nat) : u = Ids(kept) /\ v = Ids(convo)
      BY <1>4, <2>8, Zenon
    <3>4. Len(u) = n /\ Len(v) = c /\ n <= c
      BY <1>3, <1>4, <1>6, <2>8, <3>3
    <3>5. \A i \in 1 .. Len(u) : u[i] = v[Len(v) - Len(u) + i]
      BY <3>2, <3>3, <3>4
    <3>6. Len(u) <= Len(v)
      BY <3>4
    <3>7. IsSuffix(u, v)
      BY <3>5, <3>6, SuffixByElement
    <3> QED
      BY <3>3, <3>7, Zenon
  <2>10. Range(System(s) \o kept) \subseteq Range(s)
    <3>1. s \in Seq(Range(s))
      <4>1. s \in [1 .. Len(s) -> Range(s)] /\ Len(s) \in Nat
        BY DEF Range
      <4> QED
        BY <4>1, FunctionIsSequence
    <3>2. System(s) \in Seq(Range(s)) /\ convo \in Seq(Range(s))
      BY <3>1, KeptBy DEF System, Turns, convo
    <3>3. kept \in Seq(Range(s))
      BY <1>3, <2>2, <3>2 DEF kept
    <3>4. System(s) \o kept \in Seq(Range(s))
      BY <3>2, <3>3, ConcatElements
    <3> QED
      BY <3>4, ElementOf DEF Range
  <2>11. <<"redact">> \in Seq({"redact"})
    OBVIOUS
  <2> QED
    BY <1>4, <2>1, <2>5, <2>6, <2>8, <2>9, <2>10, <2>11 DEF SystemIds
<1>7. c <= n \/ c > n
  <2> HIDE DEF c
  <2> QED
    BY <1>3
<1> QED
  BY <1>5, <1>6, <1>7, Zenon
\* The stages by their operation, with what the factories make of the configs.
Shape(kind, s) ==
  \/ s.op = "fail"
  \/ s.op = "decide" /\ s.decs \in Seq(Decisions) /\ (kind = "policy" => Len(s.decs) = 1)
  \/ kind = "policy" /\ s.op = "pii"
  \/ kind = "pre_llm" /\ s.op = "scrub"
  \/ kind = "pre_llm" /\ s.op = "window" /\ s.n \in Nat \ {0}
  \/ kind = "pre_llm" /\ s.op = "inject" /\ s.message \in Messages
  \/ kind = "pre_tool" /\ s.op = "escape"
  \/ kind = "post_tool" /\ s.op = "truncate" /\ s.n \in Nat \ {0}
  \/ kind \in {"pre_tool", "post_tool"} /\ s.op = "rewrite" /\ s.to \in Payloads(kind)

\* The factories accept no config that makes a window or a limit of nothing:
\* requireInt cuts a float off before its sign is tested, and the window takes
\* its default.
LEMMA FactoriesAnswer ==
  ASSUME NEW kind, NEW s, StageOf(kind, s)
  PROVE  Shape(kind, s)
<1>0. ConfigNumbers \subseteq Int
  BY RequestAssumption, Zenon
<1>1. ASSUME NEW cfg \in Configs, s \in BuildWindow(cfg)
      PROVE  s.op = "window" /\ s.n \in Nat \ {0}
  <2>1. cfg.value \in Int
    <3>1. CASE cfg \in IntConfigs
      BY <1>0, <3>1 DEF IntConfigs
    <3>2. CASE cfg.value = 0
      BY <3>2
    <3> QED
      BY <3>1, <3>2 DEF Configs
  <2> QED
    BY <1>1, <2>1 DEF BuildWindow, DefaultTurns
<1>2. ASSUME NEW cfg \in Configs, s \in BuildTruncate(cfg)
      PROVE  s.op = "truncate" /\ s.n \in Nat \ {0}
  <2>1. cfg.value \in Int
    <3>1. CASE cfg \in IntConfigs
      BY <1>0, <3>1 DEF IntConfigs
    <3>2. CASE cfg.value = 0
      BY <3>2
    <3> QED
      BY <3>1, <3>2 DEF Configs
  <2>2. PICK n \in RequireInt(cfg) : n > 0 /\ s = [op |-> "truncate", n |-> n]
    BY <1>2 DEF BuildTruncate
  <2>3. n \in Int
    BY <2>1, <2>2 DEF RequireInt, Configs, IntConfigs
  <2> QED
    BY <2>2, <2>3
<1> QED
  BY <1>1, <1>2 DEF StageOf, Shape

\* A stage answers with a payload of its kind and decisions; a policy hook with
\* one decision, and the payload it was given.
LEMMA StageTyped ==
  ASSUME NEW kind \in Kinds, NEW s, StageOf(kind, s), NEW x \in Payloads(kind)
  PROVE  /\ Stage(s, x).out \in Payloads(kind)
         /\ Stage(s, x).decs \in Seq(Decisions)
         /\ Stage(s, x).err \in BOOLEAN
         /\ kind = "policy" => Stage(s, x).out = x /\ (~Stage(s, x).err => Len(Stage(s, x).decs) = 1)
<1>0. Shape(kind, s)
  BY FactoriesAnswer
<1>1. /\ <<>> \in Seq(Decisions) /\ \A d \in Decisions : <<d>> \in Seq(Decisions) /\ Len(<<d>>) = 1
  OBVIOUS
<1>2. {"redact", "log", "block", "allow", "deny"} \subseteq Decisions
  BY DEF Decisions
<1>3. Seq({"redact"}) \subseteq Seq(Decisions)
  BY <1>2
<1>4. CASE s.op = "fail"
  <2>1. Stage(s, x) = [out |-> x, decs |-> <<"log">>, err |-> TRUE]
    BY <1>4 DEF Stage
  <2> QED
    BY <1>1, <1>2, <2>1
<1>5. CASE s.op = "decide" /\ s.decs \in Seq(Decisions) /\ (kind = "policy" => Len(s.decs) = 1)
  <2>1. Stage(s, x) = [out |-> x, decs |-> s.decs, err |-> FALSE]
    BY <1>5 DEF Stage, Decide
  <2> QED
    BY <1>5, <2>1
<1>6. CASE kind = "policy" /\ s.op = "pii"
  <2>1. PICK d \in Decisions : Stage(s, x) = [out |-> x, decs |-> <<d>>, err |-> FALSE]
    BY <1>2, <1>6 DEF Stage, PII, Decide
  <2> QED
    BY <1>1, <2>1
<1>7. CASE kind = "pre_llm" /\ s.op = "scrub"
  <2>1. Stage(s, x) = Scrub(x) /\ x \in Seq(Messages) /\ Payloads(kind) = Seq(Messages)
    BY <1>7 DEF Stage, Payloads
  <2> QED
    BY <1>3, <1>7, <2>1, Scrubbed
<1>8. CASE kind = "pre_llm" /\ s.op = "window" /\ s.n \in Nat \ {0}
  <2>1. Stage(s, x) = Window(x, s.n) /\ x \in Seq(Messages) /\ Payloads(kind) = Seq(Messages)
    BY <1>8 DEF Stage, Payloads
  <2>2. PICK n \in Nat \ {0} : n = s.n
    BY <1>8
  <2>3. /\ Window(x, n).out \in Seq(Messages) /\ Window(x, n).decs \in Seq({"redact"})
        /\ Window(x, n).err = FALSE
    BY <2>1, Windowed
  <2>4. kind # "policy"
    BY <1>8
  <2> QED
    BY <1>3, <2>1, <2>2, <2>3, <2>4, Zenon
<1>9. CASE kind = "pre_llm" /\ s.op = "inject" /\ s.message \in Messages
  <2>1. /\ Stage(s, x) = [out |-> Append(x, s.message), decs |-> <<>>, err |-> FALSE]
        /\ x \in Seq(Messages) /\ Payloads(kind) = Seq(Messages)
    BY <1>9 DEF Stage, Decide, Payloads
  <2>2. Append(x, s.message) \in Seq(Messages)
    BY <1>9, <2>1
  <2>3. kind # "policy"
    BY <1>9
  <2> QED
    BY <1>1, <2>1, <2>2, <2>3
<1>10. CASE kind = "pre_tool" /\ s.op = "escape"
  <2>1. PICK d \in {<<>>, <<"block">>} : Stage(s, x) = [out |-> x, decs |-> d, err |-> FALSE]
    BY <1>10 DEF Stage, PathEscape, Decide, Pass
  <2>2. kind # "policy" /\ d \in Seq(Decisions)
    BY <1>1, <1>2, <1>10
  <2> QED
    BY <2>1, <2>2
<1>11. CASE kind = "post_tool" /\ s.op = "truncate" /\ s.n \in Nat \ {0}
  <2>1. PICK d \in {<<>>, <<"log">>}, y \in {x, s.n} : Stage(s, x) = [out |-> y, decs |-> d, err |-> FALSE]
    BY <1>11 DEF Stage, Truncate, Decide, Pass
  <2>2. Payloads(kind) = Nat
    BY <1>11 DEF Payloads
  <2>3. kind # "policy" /\ d \in Seq(Decisions) /\ y \in Payloads(kind)
    BY <1>1, <1>2, <1>11, <2>2
  <2> QED
    BY <2>1, <2>3
<1>12. CASE kind \in {"pre_tool", "post_tool"} /\ s.op = "rewrite" /\ s.to \in Payloads(kind)
  <2>1. Stage(s, x) = [out |-> s.to, decs |-> <<"log">>, err |-> FALSE]
    BY <1>12 DEF Stage, Decide
  <2> QED
    BY <1>1, <1>2, <1>12, <2>1
<1> QED
  BY <1>0, <1>4, <1>5, <1>6, <1>7, <1>8, <1>9, <1>10, <1>11, <1>12, Zenon DEF Shape
-----------------------------------------------------------------------------
(* What ChainSpec says reaches a stage *)

\* What a request is made of.
LEMMA RequestShape ==
  ASSUME NEW r \in Requests
  PROVE  /\ r.kind \in Kinds /\ r.input \in Payloads(r.kind)
         /\ Len(r.chain) \in Nat /\ DOMAIN r.chain = 1 .. Len(r.chain)
         /\ \A k \in 1 .. Len(r.chain) : StageOf(r.kind, r.chain[k])
BY RequestAssumption, Zenon

\* The payload that reaches the first stage is the input, the one that reaches
\* another stage is what the stage before it returned.
LEMMA ReachingStage ==
  ASSUME NEW r \in Requests
  PROVE  /\ Abs!Reaching(r)[1] = r.input
         /\ \A k \in 1 .. Len(r.chain) :
              Abs!Reaching(r)[k + 1] = Stage(r.chain[k], Abs!Reaching(r)[k]).out
         /\ \A k \in 1 .. Len(r.chain) + 1 : Abs!Reaching(r)[k] \in Payloads(r.kind)
<1> DEFINE n == Len(r.chain)
           P == Payloads(r.kind)
           step == [i \in 1 .. n |-> [q \in P |-> Stage(r.chain[i], q).out]]
           f == Iterate(r.input, n, step)
           Val(g, k) == IF k = 1 THEN r.input ELSE Stage(r.chain[k - 1], g[k - 1]).out
           h == [k \in 1 .. n + 1 |-> f[k - 1]]
           payload == CHOOSE g : g = [k \in 1 .. n + 1 |-> Val(g, k)]
<1>1. /\ n \in Nat /\ r.input \in P /\ r.kind \in Kinds
      /\ \A k \in 1 .. n : StageOf(r.kind, r.chain[k])
  BY RequestShape, Zenon
<1>2. Abs!Reaching(r) = payload
  BY DEF Abs!Reaching
<1> HIDE DEF n, P
<1>3. step \in [1 .. n -> [P -> P]]
  <2>1. \A i \in 1 .. n, q \in P : Stage(r.chain[i], q).out \in P
    BY <1>1, StageTyped DEF P
  <2> QED
    BY <2>1
<1>4. f \in [0 .. n -> P] /\ Steps(f, r.input, n, step)
  BY <1>1, <1>3, Iteration
<1> HIDE DEF f
<1>5. h = [k \in 1 .. n + 1 |-> Val(h, k)]
  <2> SUFFICES ASSUME NEW k \in 1 .. n + 1 PROVE h[k] = Val(h, k)
    OBVIOUS
  <2>1. CASE k = 1
    BY <1>1, <1>4, <2>1 DEF Steps
  <2>2. CASE k # 1
    <3>1. k - 1 \in 1 .. n /\ k - 1 \in 0 .. n /\ k - 1 \in 1 .. n + 1 /\ (k - 1) - 1 \in 0 .. n
      BY <1>1, <2>2
    <3>2. f[k - 1] = step[k - 1][f[(k - 1) - 1]] /\ f[(k - 1) - 1] \in P
      BY <1>4, <3>1 DEF Steps
    <3>3. f[k - 1] = Stage(r.chain[k - 1], f[(k - 1) - 1]).out
      BY <3>1, <3>2
    <3>4. h[k] = f[k - 1] /\ h[k - 1] = f[(k - 1) - 1]
      BY <3>1
    <3> QED
      BY <2>2, <3>3, <3>4
  <2> QED
    BY <2>1, <2>2
<1>6. payload = [k \in 1 .. n + 1 |-> Val(payload, k)]
  BY <1>5
<1> HIDE DEF payload
<1>7. payload[1] = r.input
  BY <1>1, <1>6
<1>8. ASSUME NEW k \in 1 .. n PROVE payload[k + 1] = Stage(r.chain[k], payload[k]).out
  <2>1. k + 1 \in 1 .. n + 1 /\ k + 1 # 1 /\ (k + 1) - 1 = k
    BY <1>1
  <2>2. payload[k + 1] = Val(payload, k + 1)
    BY <1>6, <2>1
  <2> QED
    BY <2>1, <2>2
<1> DEFINE T == {k \in Nat : k + 1 <= n + 1 => payload[k + 1] \in P}
<1>9. 0 \in T
  BY <1>1, <1>7
<1>10. ASSUME NEW k \in T, k \in Nat PROVE k + 1 \in T
  <2>1. CASE (k + 1) + 1 <= n + 1
    <3>1. k + 1 \in 1 .. n /\ payload[k + 1] \in P
      BY <1>1, <1>10, <2>1
    <3>2. Stage(r.chain[k + 1], payload[k + 1]).out \in P
      BY <1>1, <3>1, StageTyped DEF P
    <3> QED
      BY <1>8, <1>10, <3>1, <3>2
  <2> QED
    BY <1>10, <2>1
<1> HIDE DEF T
<1>11. \A k \in Nat : k \in T
  BY <1>9, <1>10, SetInduction
<1>12. ASSUME NEW k \in 1 .. n + 1 PROVE payload[k] \in P
  <2>1. k - 1 \in Nat /\ (k - 1) + 1 = k /\ k <= n + 1
    BY <1>1
  <2>2. k - 1 \in T
    BY <1>11, <2>1
  <2> QED
    BY <2>1, <2>2 DEF T
<1> QED
  BY <1>2, <1>7, <1>8, <1>12 DEF n, P

\* The decisions of one more answer come behind those of the answers before it.
LEMMA RecordedMore ==
  ASSUME NEW n \in Nat, NEW answers, \A k \in 1 .. n : answers[k].decs \in Seq(Decisions)
  PROVE  /\ Abs!Recorded(answers, 0) = <<>>
         /\ \A k \in 1 .. n : Abs!Recorded(answers, k) = Abs!Recorded(answers, k - 1) \o answers[k].decs
         /\ \A k \in 0 .. n : Abs!Recorded(answers, k) \in Seq(Decisions)
<1> DEFINE D == Seq(Decisions)
           step(m) == [i \in 1 .. m |-> [q \in D |-> q \o answers[i].decs]]
           F(m) == Iterate(<<>>, m, step(m))
           Val(g, j) == IF j = 0 THEN <<>> ELSE g[j - 1] \o answers[j].decs
           decs(m) == CHOOSE g : g = [j \in 0 .. m |-> Val(g, j)]
<1>1. ASSUME NEW m \in 0 .. n
      PROVE  /\ Abs!Recorded(answers, m) = F(m)[m]
             /\ F(m) \in [0 .. m -> D] /\ Steps(F(m), <<>>, m, step(m))
  <2>1. m \in Nat /\ <<>> \in D /\ \A i \in 1 .. m : i \in 1 .. n
    OBVIOUS
  <2>2. PICK st : st = step(m)
    OBVIOUS
  <2>3. st \in [1 .. m -> [D -> D]]
    BY <2>1, <2>2
  <2>4. PICK f : f = Iterate(<<>>, m, st)
    OBVIOUS
  <2>5. f \in [0 .. m -> D] /\ Steps(f, <<>>, m, st)
    BY <2>1, <2>3, <2>4, Iteration
  <2>6. \A i \in 1 .. m : f[i] = f[i - 1] \o answers[i].decs
    <3> SUFFICES ASSUME NEW i \in 1 .. m PROVE f[i] = f[i - 1] \o answers[i].decs
      OBVIOUS
    <3>1. f[i] = st[i][f[i - 1]] /\ f[i - 1] \in D
      BY <2>1, <2>5 DEF Steps
    <3> QED
      BY <2>2, <3>1
  <2>7. f = [j \in 0 .. m |-> Val(f, j)]
    <3>1. f[0] = <<>> /\ \A j \in 0 .. m : j = 0 \/ j \in 1 .. m
      BY <2>1, <2>5 DEF Steps
    <3>2. \A j \in 0 .. m : f[j] = Val(f, j)
      BY <2>6, <3>1
    <3> HIDE DEF Val
    <3> QED
      BY <2>5, <3>2
  <2>8. decs(m) = [j \in 0 .. m |-> Val(decs(m), j)]
    BY <2>7
  <2>9. Abs!Recorded(answers, m) = decs(m)[m]
    BY DEF Abs!Recorded
  <2>10. PICK g : g = decs(m)
    OBVIOUS
  <2>11. g = [j \in 0 .. m |-> Val(g, j)]
    BY <2>8, <2>10
  <2> DEFINE T == {j \in Nat : j <= m => g[j] = f[j]}
  <2>12. 0 \in T
    BY <2>1, <2>5, <2>11 DEF Steps
  <2>13. ASSUME NEW j \in T, j \in Nat PROVE j + 1 \in T
    <3>1. CASE j + 1 <= m
      <4>0. j <= m /\ j + 1 \in 1 .. m /\ j + 1 \in 0 .. m /\ j + 1 # 0 /\ (j + 1) - 1 = j
        BY <2>1, <2>13, <3>1
      <4>1. j + 1 \in 1 .. m /\ j + 1 \in 0 .. m /\ j + 1 # 0 /\ (j + 1) - 1 = j /\ g[j] = f[j]
        BY <2>13, <4>0
      <4>2. g[j + 1] = Val(g, j + 1)
        BY <2>11, <4>1
      <4>3. g[j + 1] = g[j] \o answers[j + 1].decs
        BY <4>1, <4>2
      <4>4. f[j + 1] = f[j] \o answers[j + 1].decs
        BY <2>6, <4>1
      <4>5. g[j + 1] = f[j + 1] /\ j + 1 \in Nat
        BY <2>13, <4>1, <4>3, <4>4
      <4> QED
        BY <4>5
    <3> QED
      BY <2>13, <3>1
  <2> HIDE DEF T
  <2>14. m \in T
    BY <2>1, <2>12, <2>13, SetInduction
  <2>15. g[m] = f[m]
    BY <2>1, <2>14 DEF T
  <2> HIDE DEF decs, step
  <2> QED
    BY <2>2, <2>4, <2>5, <2>9, <2>10, <2>15
<1> HIDE DEF F
<1>2. Abs!Recorded(answers, 0) = <<>>
  <2>1. 0 \in 0 .. n
    OBVIOUS
  <2>2. Abs!Recorded(answers, 0) = F(0)[0] /\ F(0)[0] = <<>>
    BY <1>1, <2>1, Zenon DEF Steps
  <2> QED
    BY <2>2
<1>3. ASSUME NEW k \in 0 .. n PROVE Abs!Recorded(answers, k) \in Seq(Decisions)
  <2>1. Abs!Recorded(answers, k) = F(k)[k] /\ F(k) \in [0 .. k -> D]
    BY <1>1, Zenon
  <2> QED
    BY <2>1
<1>4. ASSUME NEW k \in 1 .. n
      PROVE  Abs!Recorded(answers, k) = Abs!Recorded(answers, k - 1) \o answers[k].decs
  <2>1. k \in 0 .. n /\ k - 1 \in 0 .. n /\ k - 1 \in Nat /\ k - 1 \in 0 .. k - 1
    OBVIOUS
  <2>2. PICK f, g : f = F(k - 1) /\ g = F(k)
    OBVIOUS
  <2>3. /\ Abs!Recorded(answers, k - 1) = f[k - 1] /\ Abs!Recorded(answers, k) = g[k]
        /\ g \in [0 .. k -> D]
        /\ Steps(f, <<>>, k - 1, step(k - 1)) /\ Steps(g, <<>>, k, step(k))
    BY <1>1, <2>1, <2>2
  <2>4. Steps(g, <<>>, k - 1, step(k - 1))
    <3> SUFFICES ASSUME NEW i \in 1 .. k - 1 PROVE g[i] = step(k - 1)[i][g[i - 1]]
      BY <2>3 DEF Steps
    <3>1. i \in 1 .. k
      OBVIOUS
    <3>2. g[i] = step(k)[i][g[i - 1]]
      BY <2>3, <3>1 DEF Steps
    <3> QED
      BY <3>1, <3>2
  <2>5. f[k - 1] = g[k - 1]
    <3>1. PICK st : st = step(k - 1)
      OBVIOUS
    <3>2. \A i \in 0 .. k - 1 : f[i] = g[i]
      BY <2>1, <2>3, <2>4, <3>1, SameIteration
    <3> QED
      BY <2>1, <3>2
  <2>6. g[k] = g[k - 1] \o answers[k].decs
    <3>1. k \in 1 .. k /\ k - 1 \in 0 .. k
      OBVIOUS
    <3>2. g[k] = step(k)[k][g[k - 1]] /\ g[k - 1] \in D
      BY <2>3, <3>1 DEF Steps
    <3> QED
      BY <3>1, <3>2
  <2> QED
    BY <2>3, <2>5, <2>6
<1> QED
  BY <1>2, <1>3, <1>4
-----------------------------------------------------------------------------
(* The loops *)

\* What the stage that runs next is and answers.
LEMMA NextStage ==
  ASSUME TypeOK, InLoop
  PROVE  /\ request \in Requests /\ request.kind \in Kinds
         /\ next \in 1 .. Len(request.chain) /\ next \in DOMAIN request.chain
         /\ Len(request.chain) \in Nat
         /\ cur \in Payloads(request.kind)
         /\ StageOf(request.kind, request.chain[next])
         /\ Shape(request.kind, request.chain[next])
         /\ Answered = Stage(request.chain[next], cur)
         /\ Answered.out \in Payloads(request.kind)
         /\ Answered.decs \in Seq(Decisions)
         /\ Answered.err \in BOOLEAN
         /\ request.kind = "policy" =>
              Answered.out = cur /\ (~Answered.err => Len(Answered.decs) = 1)
<1>1. /\ request \in Requests /\ next \in 1 .. Len(request.chain) + 1
      /\ cur \in Payloads(request.kind)
  BY Zenon DEF TypeOK
<1>2. /\ request.kind \in Kinds /\ Len(request.chain) \in Nat
      /\ DOMAIN request.chain = 1 .. Len(request.chain)
      /\ \A k \in 1 .. Len(request.chain) : StageOf(request.kind, request.chain[k])
  BY <1>1, RequestShape, Zenon
<1>3. next \in 1 .. Len(request.chain)
  BY <1>1, <1>2 DEF InLoop
<1>4. StageOf(request.kind, request.chain[next])
  BY <1>2, <1>3
<1>5. /\ Shape(request.kind, request.chain[next])
      /\ Answered = Stage(request.chain[next], cur)
  BY <1>4, FactoriesAnswer DEF Answered
<1>6. /\ Answered.out \in Payloads(request.kind)
      /\ Answered.decs \in Seq(Decisions)
      /\ Answered.err \in BOOLEAN
      /\ request.kind = "policy" =>
           Answered.out = cur /\ (~Answered.err => Len(Answered.decs) = 1)
  BY <1>1, <1>2, <1>4, StageTyped, Zenon DEF Answered
<1> QED
  BY <1>1, <1>2, <1>3, <1>4, <1>5, <1>6

\* The stage that ran comes behind the loop.
LEMMA BehindMore ==
  ASSUME TypeOK, InLoop, request' = request, next' = next + 1
  PROVE  \A op : Behind(op)' = Behind(op) \cup {k \in {next} : request.chain[k].op = op}
<1>1. next \in 1 .. Len(request.chain) /\ Len(request.chain) \in Nat /\ DOMAIN request.chain = 1 .. Len(request.chain)
  <2>1. request \in Requests
    BY DEF TypeOK
  <2> QED
    BY <2>1, NextStage, RequestShape
<1> SUFFICES ASSUME NEW op, NEW k
             PROVE  k \in Behind(op)' <=> k \in Behind(op) \cup {j \in {next} : request.chain[j].op = op}
  OBVIOUS
<1>2. CASE k \in DOMAIN request.chain
  <2>1. k < next + 1 <=> k < next \/ k = next
    BY <1>1, <1>2
  <2> QED
    BY <1>2, <2>1 DEF Behind, Positions
<1>3. CASE k \notin DOMAIN request.chain
  BY <1>1, <1>3 DEF Behind, Positions
<1> QED
  BY <1>2, <1>3

\* A suffix of a suffix is a suffix, and no longer.
LEMMA SuffixTransitive ==
  ASSUME NEW R, NEW s \in Seq(R), NEW t \in Seq(R), NEW u \in Seq(R),
         IsSuffix(s, t), IsSuffix(t, u)
  PROVE  IsSuffix(s, u) /\ Len(s) <= Len(t)
<1>1. /\ Len(s) \in Nat /\ Len(t) \in Nat /\ Len(u) \in Nat
  BY ElementOf
<1>2. Len(s) <= Len(t) /\ \A i \in 1 .. Len(s) : s[i] = t[Len(t) - Len(s) + i]
  BY SuffixByElement
<1>3. Len(t) <= Len(u) /\ \A i \in 1 .. Len(t) : t[i] = u[Len(u) - Len(t) + i]
  BY SuffixByElement
<1>4. ASSUME NEW i \in 1 .. Len(s) PROVE s[i] = u[Len(u) - Len(s) + i]
  <2>1. /\ Len(t) - Len(s) + i \in 1 .. Len(t)
        /\ Len(u) - Len(t) + (Len(t) - Len(s) + i) = Len(u) - Len(s) + i
    BY <1>1, <1>2
  <2> QED
    BY <1>2, <1>3, <2>1
<1>5. Len(s) <= Len(u)
  BY <1>1, <1>2, <1>3
<1> QED
  BY <1>2, <1>4, <1>5, SuffixByElement

\* At the start no stage is behind the loop.
LEMMA InitChainInv ==
  ASSUME Init
  PROVE  ChainInv
<1>1. /\ request \in Requests /\ next = 1 /\ cur = request.input /\ all = <<>>
      /\ outcome = Pending
  BY DEF Init
<1>2. /\ request.kind \in Kinds /\ request.input \in Payloads(request.kind)
      /\ Len(request.chain) \in Nat /\ DOMAIN request.chain = 1 .. Len(request.chain)
      /\ \A k \in 1 .. Len(request.chain) : StageOf(request.kind, request.chain[k])
  BY <1>1, RequestShape, Zenon
<1>3. TypeOK
  BY <1>1, <1>2 DEF TypeOK
<1>4. \A op : Behind(op) = {}
  BY <1>1, <1>2 DEF Behind, Positions
<1>5. /\ Abs!Reaching(request)[1] = request.input
      /\ \A k \in 1 .. Len(request.chain) + 1 : Abs!Reaching(request)[k] \in Payloads(request.kind)
  BY <1>1, ReachingStage, Zenon
<1>6. LoopInv
  <2> DEFINE ans == [k \in DOMAIN request.chain |-> AnswerAt(k)]
  <2>1. \A k \in 1 .. Len(request.chain) : ans[k].decs \in Seq(Decisions)
    <3> SUFFICES ASSUME NEW k \in 1 .. Len(request.chain) PROVE ans[k].decs \in Seq(Decisions)
      OBVIOUS
    <3>1. StageOf(request.kind, request.chain[k]) /\ k \in 1 .. Len(request.chain) + 1
      BY <1>2
    <3>2. Abs!Reaching(request)[k] \in Payloads(request.kind)
      BY <1>5, <3>1
    <3>3. AnswerAt(k).decs \in Seq(Decisions)
      BY <1>2, <3>1, <3>2, StageTyped, Zenon DEF AnswerAt
    <3> QED
      BY <1>2, <3>3
  <2> HIDE DEF ans
  <2>2. Abs!Recorded(ans, 0) = <<>>
    BY <1>2, <2>1, RecordedMore
  <2>3. next - 1 = 0 /\ 1 .. next - 1 = {}
    BY <1>1
  <2> QED
    BY <1>1, <1>5, <2>2, <2>3 DEF LoopInv, ans
<1>7. AnswerInv
  BY <1>1 DEF AnswerInv, Done
<1>8. SecretsSoFar
  BY <1>4 DEF SecretsSoFar
<1>9. NewestSoFar
  <2> SUFFICES ASSUME request.kind = "pre_llm" PROVE NewestSoFar
    BY DEF NewestSoFar
  <2>1. cur \in Seq(Messages)
    BY <1>1, <1>2 DEF Payloads
  <2>2. Turns(cur) \in Seq(Messages)
    BY <2>1, KeptBy DEF Turns
  <2>3. TurnIds(cur) \in Seq(Nat)
    BY <2>2, IdsOf DEF TurnIds
  <2>4. IsSuffix(TurnIds(cur), TurnIds(cur))
    <3>1. PICK u \in Seq(Nat) : u = TurnIds(cur)
      BY <2>3
    <3>2. Len(u) \in Nat
      BY ElementOf
    <3>3. \A i \in 1 .. Len(u) : Len(u) - Len(u) + i = i
      BY <3>2
    <3>4. IsSuffix(u, u)
      BY <3>2, <3>3, SuffixByElement
    <3> QED
      BY <3>1, <3>4
  <2> QED
    BY <1>1, <1>4, <2>4 DEF NewestSoFar
<1>10. LimitsSoFar
  BY <1>1, <1>4 DEF LimitsSoFar
<1> QED
  BY <1>3, <1>6, <1>7, <1>8, <1>9, <1>10 DEF ChainInv
\* Returning an answer keeps the invariant when the answer is one of a chain.
LEMMA ReturnKeeps ==
  ASSUME ChainInv, NEW payload, NEW decs, NEW err, Return(payload, decs, err),
         decs \in Seq(Decisions), err \in {"none", "stage", "blocked"},
         payload = <<>> <=> err # "none",
         err = "none" => /\ payload = <<cur>>
                         /\ \/ next = Len(request.chain) + 1
                            \/ request.kind = "policy" /\ Blocking("policy", decs)
  PROVE  ChainInv'
<1>1. /\ outcome' = [payload |-> payload, decs |-> decs, err |-> err]
      /\ request' = request /\ next' = next /\ cur' = cur /\ all' = all
  BY DEF Return
<1>2. outcome'.payload = payload /\ outcome'.decs = decs /\ outcome'.err = err
  BY <1>1
<1>3. TypeOK'
  <2>1. TypeOK
    BY Zenon DEF ChainInv
  <2> QED
    BY <1>1, <1>2, <2>1, Zenon DEF TypeOK
<1>4. LoopInv'
  <2>1. LoopInv
    BY Zenon DEF ChainInv
  <2> QED
    BY <1>1, <2>1 DEF LoopInv, AnswerAt
<1>5. AnswerInv'
  BY <1>1, <1>2 DEF AnswerInv, Done
<1>6. SecretsSoFar'
  BY <1>1, Zenon DEF ChainInv, SecretsSoFar, Behind, Positions
<1>7. NewestSoFar'
  BY <1>1, Zenon DEF ChainInv, NewestSoFar, Behind, Positions, Bundled
<1>8. LimitsSoFar'
  BY <1>1, Zenon DEF ChainInv, LimitsSoFar, Behind, Positions, Bundled
<1> QED
  BY <1>3, <1>4, <1>5, <1>6, <1>7, <1>8, Zenon DEF ChainInv

\* What the stages of a request answer to what reaches them.
LEMMA AnswersTyped ==
  ASSUME request \in Requests
  PROVE  /\ \A k \in 1 .. Len(request.chain) : AnswerAt(k).decs \in Seq(Decisions)
         /\ \A k \in 1 .. Len(request.chain) :
              Abs!Reaching(request)[k + 1] = AnswerAt(k).out
         /\ DOMAIN request.chain = 1 .. Len(request.chain)
<1>1. /\ request.kind \in Kinds /\ Len(request.chain) \in Nat
      /\ DOMAIN request.chain = 1 .. Len(request.chain)
      /\ \A k \in 1 .. Len(request.chain) : StageOf(request.kind, request.chain[k])
  BY RequestShape, Zenon
<1>2. /\ \A k \in 1 .. Len(request.chain) :
           Abs!Reaching(request)[k + 1] = Stage(request.chain[k], Abs!Reaching(request)[k]).out
      /\ \A k \in 1 .. Len(request.chain) + 1 : Abs!Reaching(request)[k] \in Payloads(request.kind)
  BY ReachingStage, Zenon
<1>3. ASSUME NEW k \in 1 .. Len(request.chain) PROVE AnswerAt(k).decs \in Seq(Decisions)
  <2>1. StageOf(request.kind, request.chain[k]) /\ k \in 1 .. Len(request.chain) + 1
    BY <1>1
  <2>2. Abs!Reaching(request)[k] \in Payloads(request.kind)
    BY <1>2, <2>1
  <2> QED
    BY <1>1, <2>1, <2>2, StageTyped, Zenon DEF AnswerAt
<1> QED
  BY <1>1, <1>2, <1>3, Zenon DEF AnswerAt

\* The loop goes on: what ChainSpec says of the next stage holds of the one
\* behind it.
LEMMA LoopGoesOn ==
  ASSUME TypeOK, LoopInv, InLoop, ~Answered.err, ~Blocking(request.kind, Answered.decs),
         request' = request, next' = next + 1, cur' = Answered.out,
         request.kind # "policy" => all' = all \o Answered.decs
  PROVE  LoopInv'
<1> DEFINE ans == [k \in DOMAIN request.chain |-> AnswerAt(k)]
<1>1. /\ request \in Requests /\ next \in 1 .. Len(request.chain)
      /\ Len(request.chain) \in Nat
      /\ Answered = Stage(request.chain[next], cur)
      /\ request.kind = "policy" => Answered.out = cur
  BY NextStage, Zenon
<1>2. /\ cur = Abs!Reaching(request)[next]
      /\ \A k \in 1 .. next - 1 : ~AnswerAt(k).err /\ ~Blocking(request.kind, AnswerAt(k).decs)
      /\ request.kind = "policy" => cur = request.input
      /\ request.kind # "policy" => all = Abs!Recorded(ans, next - 1)
  BY Zenon DEF LoopInv
<1>3. AnswerAt(next) = Answered
  BY <1>1, <1>2, Zenon DEF AnswerAt
<1>4. /\ \A k \in 1 .. Len(request.chain) : AnswerAt(k).decs \in Seq(Decisions)
      /\ Abs!Reaching(request)[next + 1] = AnswerAt(next).out
      /\ DOMAIN request.chain = 1 .. Len(request.chain)
  BY <1>1, AnswersTyped
<1>5. request.kind # "policy" => all' = Abs!Recorded(ans, next)
  <2>1. \A k \in 1 .. Len(request.chain) : ans[k].decs \in Seq(Decisions)
    BY <1>4
  <2>2. ans[next].decs = Answered.decs
    BY <1>1, <1>3, <1>4
  <2> HIDE DEF ans
  <2>3. Abs!Recorded(ans, next) = Abs!Recorded(ans, next - 1) \o ans[next].decs
    BY <1>1, <2>1, RecordedMore
  <2> QED
    BY <1>2, <2>2, <2>3, Zenon
<1>6. \A k \in 1 .. next : ~AnswerAt(k).err /\ ~Blocking(request.kind, AnswerAt(k).decs)
  <2> SUFFICES ASSUME NEW k \in 1 .. next
               PROVE  ~AnswerAt(k).err /\ ~Blocking(request.kind, AnswerAt(k).decs)
    OBVIOUS
  <2>1. k = next \/ k \in 1 .. next - 1
    BY <1>1
  <2> QED
    BY <1>2, <1>3, <2>1, Zenon
<1>7. (next + 1) - 1 = next
  BY <1>1
<1>8. (\A k : AnswerAt(k)' = AnswerAt(k)) /\ Abs!Reaching(request)' = Abs!Reaching(request)
  BY DEF AnswerAt
<1>9. ans' = ans
  BY <1>8
<1>10. cur' = Abs!Reaching(request)[next + 1]
  BY <1>3, <1>4
<1>11. request.kind = "policy" => cur' = request.input
  BY <1>1, <1>2
<1> HIDE DEF ans
<1>12. \A k \in 1 .. (next + 1) - 1 : ~AnswerAt(k).err /\ ~Blocking(request.kind, AnswerAt(k).decs)
  BY <1>6, <1>7
<1> QED
  BY <1>5, <1>7, <1>8, <1>9, <1>10, <1>11, <1>12 DEF LoopInv, ans
\* What the stage that ran did to the payload, by its operation.
LEMMA StageRan ==
  ASSUME TypeOK, InLoop, ~Answered.err
  PROVE  LET s == request.chain[next] IN
         \/ s.op \notin Ops \cup {"inject", "rewrite"} /\ Answered.out = cur
         \/ request.kind = "policy"
         \/ request.kind = "pre_tool"
         \/ request.kind = "pre_llm" /\ s.op = "scrub" /\ Answered = Scrub(cur)
         \/ request.kind = "pre_llm" /\ s.op = "window" /\ s.n \in Nat \ {0} /\ Answered = Window(cur, s.n)
         \/ /\ request.kind = "pre_llm" /\ s.op = "inject" /\ s.message \in Messages
            /\ Answered.out = Append(cur, s.message)
         \/ request.kind = "post_tool" /\ s.op = "truncate" /\ s.n \in Nat \ {0} /\ Answered = Truncate(cur, s.n)
         \/ request.kind = "post_tool" /\ s.op = "rewrite"
<1>1. PICK s : s = request.chain[next]
  OBVIOUS
<1>2. Shape(request.kind, s) /\ Answered = Stage(s, cur) /\ request.kind \in Kinds
  BY <1>1, NextStage, Zenon
<1>3. s.op # "fail"
  <2>1. s.op = "fail" => Stage(s, cur).err = TRUE
    BY DEF Stage
  <2> QED
    BY <1>2, <2>1
<1>4. s.op = "decide" => Stage(s, cur).out = cur /\ s.op \notin Ops \cup {"inject", "rewrite"}
  BY DEF Stage, Decide, Ops
<1>5. /\ s.op = "scrub" => Stage(s, cur) = Scrub(cur)
      /\ s.op = "window" => Stage(s, cur) = Window(cur, s.n)
      /\ s.op = "truncate" => Stage(s, cur) = Truncate(cur, s.n)
  BY DEF Stage
<1>6. s.op = "inject" => Stage(s, cur).out = Append(cur, s.message)
  BY DEF Stage, Decide
<1>7. request.kind \in {"pre_tool", "post_tool"} => request.kind = "pre_tool" \/ request.kind = "post_tool"
  OBVIOUS
<1> QED
  BY <1>1, <1>2, <1>3, <1>4, <1>5, <1>6, <1>7, Zenon DEF Shape

\* No stage lets a secret slip past the scrubbers behind it.
LEMMA SecretsGoOn ==
  ASSUME TypeOK, InLoop, ~Answered.err, SecretsSoFar,
         request' = request, next' = next + 1, cur' = Answered.out
  PROVE  SecretsSoFar'
<1> SUFFICES ASSUME request.kind = "pre_llm", Behind("scrub")' # {}
             PROVE  \A m \in Range(cur') : m.text = "secret" =>
                      \E k \in Behind("inject")' :
                        /\ request.chain[k].message = m
                        /\ \A j \in Behind("scrub")' : j < k
  BY DEF SecretsSoFar
<1>1. /\ next \in 1 .. Len(request.chain) /\ Len(request.chain) \in Nat /\ next \in DOMAIN request.chain
      /\ cur \in Payloads(request.kind) /\ request \in Requests
  BY NextStage, Zenon
<1>2. cur \in Seq(Messages)
  BY <1>1 DEF Payloads
<1>3. \A op : Behind(op)' = Behind(op) \cup {k \in {next} : request.chain[k].op = op}
  BY BehindMore
<1> DEFINE s == request.chain[next]
           Told(m) == \E k \in Behind("inject")' :
                        /\ request.chain[k].message = m
                        /\ \A j \in Behind("scrub")' : j < k
<1>4. ASSUME s.op # "scrub", NEW m \in Range(cur), m.text = "secret"
      PROVE  Told(m)
  <2>1. Behind("scrub")' = Behind("scrub")
    BY <1>3, <1>4
  <2>2. Behind("inject") \subseteq Behind("inject")'
    BY <1>3
  <2>3. PICK k \in Behind("inject") : request.chain[k].message = m /\ \A j \in Behind("scrub") : j < k
    BY <1>4, <2>1 DEF SecretsSoFar
  <2> QED
    BY <2>1, <2>2, <2>3
<1>5. CASE s.op = "scrub" /\ Answered = Scrub(cur)
  <2>1. \A i \in DOMAIN Answered.out : Answered.out[i].text # "secret"
    BY <1>2, <1>5, Scrubbed
  <2> QED
    BY <2>1 DEF Range
<1>6. CASE s.op = "window" /\ s.n \in Nat \ {0} /\ Answered = Window(cur, s.n)
  <2>1. PICK n \in Nat \ {0} : n = s.n
    BY <1>6
  <2>2. Range(Window(cur, n).out) \subseteq Range(cur)
    BY <1>2, Windowed
  <2>3. Range(cur') \subseteq Range(cur) /\ s.op # "scrub"
    BY <1>6, <2>1, <2>2
  <2> QED
    BY <1>4, <2>3
<1>7. CASE s.op = "inject" /\ s.message \in Messages /\ Answered.out = Append(cur, s.message)
  <2>1. PICK e \in Messages : e = s.message
    BY <1>7
  <2>2. /\ DOMAIN cur = 1 .. Len(cur) /\ DOMAIN Append(cur, e) = 1 .. Len(cur) + 1
        /\ \A i \in 1 .. Len(cur) : Append(cur, e)[i] = cur[i]
        /\ Append(cur, e)[Len(cur) + 1] = e
    BY <1>2, Appended
  <2>3. Len(cur) \in Nat
    BY <1>2
  <2>4. \A i \in 1 .. Len(cur) + 1 : i \in 1 .. Len(cur) \/ i = Len(cur) + 1
    BY <2>3
  <2>5. \A m \in Range(cur') : m \in Range(cur) \/ m = e
    BY <1>7, <2>1, <2>2, <2>4 DEF Range
  <2>6. Behind("scrub")' = Behind("scrub") /\ next \in Behind("inject")'
    BY <1>3, <1>7
  <2>7. \A j \in Behind("scrub") : j < next
    BY DEF Behind
  <2>8. Told(e)
    BY <2>1, <2>6, <2>7
  <2>9. s.op # "scrub"
    BY <1>7
  <2> HIDE DEF Told
  <2>10. \A m \in Range(cur') : m.text = "secret" => Told(m)
    BY <1>4, <2>5, <2>8, <2>9
  <2> QED
    BY <2>10 DEF Told
<1>8. CASE s.op \notin Ops \cup {"inject", "rewrite"} /\ Answered.out = cur
  <2>1. s.op # "scrub" /\ cur' = cur
    BY <1>8 DEF Ops
  <2> QED
    BY <1>4, <2>1
<1> HIDE DEF s
<1>9. request.kind # "policy" /\ request.kind # "pre_tool" /\ request.kind # "post_tool"
  OBVIOUS
<1> QED
  BY <1>5, <1>6, <1>7, <1>8, <1>9, StageRan, Zenon DEF s
\* Bundled filters keep the system messages and the newest turns.
LEMMA NewestGoOn ==
  ASSUME TypeOK, InLoop, ~Answered.err, NewestSoFar,
         request' = request, next' = next + 1, cur' = Answered.out
  PROVE  NewestSoFar'
<1> SUFFICES ASSUME request.kind = "pre_llm", Bundled
             PROVE  /\ SystemIds(cur') = SystemIds(request.input)
                    /\ IsSuffix(TurnIds(cur'), TurnIds(request.input))
                    /\ \A k \in Behind("window")' : Len(TurnIds(cur')) <= request.chain[k].n
                    /\ cur' # request.input => Behind("scrub")' # {} \/
                         \E k \in Behind("window")' : Len(TurnIds(cur')) = request.chain[k].n
  BY DEF NewestSoFar, Bundled
<1>1. /\ next \in 1 .. Len(request.chain) /\ Len(request.chain) \in Nat /\ next \in DOMAIN request.chain
      /\ cur \in Payloads(request.kind) /\ request \in Requests
      /\ Answered.out \in Payloads(request.kind)
  BY NextStage, Zenon
<1>2. cur \in Seq(Messages) /\ cur' \in Seq(Messages)
  BY <1>1 DEF Payloads
<1>3. \A op : Behind(op)' = Behind(op) \cup {k \in {next} : request.chain[k].op = op}
  BY BehindMore
<1>4. /\ SystemIds(cur) = SystemIds(request.input)
      /\ IsSuffix(TurnIds(cur), TurnIds(request.input))
      /\ \A k \in Behind("window") : Len(TurnIds(cur)) <= request.chain[k].n
      /\ cur # request.input => Behind("scrub") # {} \/
           \E k \in Behind("window") : Len(TurnIds(cur)) = request.chain[k].n
  BY DEF NewestSoFar
<1>5. \A u \in Seq(Messages) : TurnIds(u) \in Seq(Nat)
  <2> SUFFICES ASSUME NEW u \in Seq(Messages) PROVE TurnIds(u) \in Seq(Nat)
    OBVIOUS
  <2>1. Turns(u) \in Seq(Messages)
    BY KeptBy DEF Turns
  <2> QED
    BY <2>1, IdsOf DEF TurnIds
<1>6. request.input \in Seq(Messages)
  <2>1. request.input \in Payloads(request.kind)
    BY <1>1, RequestShape, Zenon
  <2> QED
    BY <2>1 DEF Payloads
<1> DEFINE s == request.chain[next]
<1>7. s.op \in Ops
  BY <1>1 DEF Bundled
<1>8. CASE s.op = "scrub" /\ Answered = Scrub(cur)
  <2>1. SystemIds(cur') = SystemIds(cur) /\ TurnIds(cur') = TurnIds(cur)
    BY <1>2, <1>8, Scrubbed
  <2>2. Behind("window")' = Behind("window") /\ next \in Behind("scrub")'
    BY <1>3, <1>8
  <2> QED
    BY <1>4, <2>1, <2>2
<1>9. CASE s.op = "window" /\ s.n \in Nat \ {0} /\ Answered = Window(cur, s.n)
  <2>1. PICK n \in Nat \ {0} : n = s.n
    BY <1>9
  <2>2. /\ SystemIds(Window(cur, n).out) = SystemIds(cur)
        /\ IsSuffix(TurnIds(Window(cur, n).out), TurnIds(cur))
        /\ Len(TurnIds(Window(cur, n).out)) <= n
        /\ Window(cur, n).out = cur \/ Len(TurnIds(Window(cur, n).out)) = n
    BY <1>2, Windowed
  <2>3. /\ SystemIds(cur') = SystemIds(cur)
        /\ IsSuffix(TurnIds(cur'), TurnIds(cur))
        /\ Len(TurnIds(cur')) <= n
        /\ cur' = cur \/ Len(TurnIds(cur')) = n
    BY <1>9, <2>1, <2>2, Zenon
  <2>4. PICK a \in Seq(Nat), b \in Seq(Nat), c \in Seq(Nat) :
          a = TurnIds(cur') /\ b = TurnIds(cur) /\ c = TurnIds(request.input)
    BY <1>2, <1>5, <1>6, Zenon
  <2>5. IsSuffix(a, b) /\ IsSuffix(b, c)
    BY <1>4, <2>3, <2>4, Zenon
  <2>6. IsSuffix(a, c) /\ Len(a) <= Len(b)
    BY <2>5, SuffixTransitive
  <2>7. Len(a) \in Nat /\ Len(b) \in Nat
    BY ElementOf
  <2>8. Behind("scrub")' = Behind("scrub") /\ Behind("window")' = Behind("window") \cup {next}
    BY <1>3, <1>9
  <2>9. ASSUME NEW k \in Behind("window")' PROVE Len(a) <= request.chain[k].n
    <3>1. CASE k = next
      BY <2>1, <2>3, <2>4, <3>1
    <3>2. CASE k \in Behind("window")
      <4>1. Len(b) <= request.chain[k].n
        BY <1>4, <2>4, <3>2, Zenon
      <4>2. request.chain[k].n \in Nat
        <5>1. k \in DOMAIN request.chain /\ request.chain[k].op = "window"
          BY <3>2 DEF Behind, Positions
        <5>2. StageOf(request.kind, request.chain[k])
          BY <1>1, <5>1, RequestShape
        <5>3. Shape(request.kind, request.chain[k])
          BY <5>2, FactoriesAnswer
        <5> QED
          BY <5>1, <5>3 DEF Shape
      <4> QED
        BY <2>6, <2>7, <4>1, <4>2
    <3> QED
      BY <2>8, <3>1, <3>2
  <2>10. ASSUME cur' # request.input
         PROVE  Behind("scrub")' # {} \/ \E k \in Behind("window")' : Len(a) = request.chain[k].n
    <3>1. CASE cur' = cur
      <4>1. a = b /\ cur # request.input
        BY <2>4, <2>10, <3>1, Zenon
      <4> QED
        BY <1>4, <2>4, <2>8, <4>1
    <3>2. CASE Len(TurnIds(cur')) = n
      BY <2>1, <2>4, <2>8, <3>2
    <3> QED
      BY <2>3, <3>1, <3>2
  <2> QED
    BY <1>4, <2>3, <2>4, <2>6, <2>9, <2>10, Zenon
<1> HIDE DEF s
<1>10. /\ request.kind # "policy" /\ request.kind # "pre_tool" /\ request.kind # "post_tool"
       /\ s.op # "inject"
  BY <1>7 DEF Ops
<1> QED
  BY <1>7, <1>8, <1>9, <1>10, StageRan, Zenon DEF s

\* A limit holds until a stage behind it lifts it.
LEMMA LimitsGoOn ==
  ASSUME TypeOK, InLoop, ~Answered.err, LimitsSoFar,
         request' = request, next' = next + 1, cur' = Answered.out
  PROVE  LimitsSoFar'
<1> SUFFICES ASSUME request.kind = "post_tool"
             PROVE  /\ \A k \in Behind("truncate")' :
                         (\A j \in Behind("rewrite")' : j < k) => cur' <= request.chain[k].n
                    /\ Bundled /\ request.input > 0 => cur' > 0
  BY DEF LimitsSoFar, Bundled
<1>1. /\ next \in 1 .. Len(request.chain) /\ Len(request.chain) \in Nat /\ next \in DOMAIN request.chain
      /\ cur \in Payloads(request.kind) /\ request \in Requests
      /\ Answered.out \in Payloads(request.kind)
  BY NextStage, Zenon
<1>2. cur \in Nat /\ cur' \in Nat
  BY <1>1 DEF Payloads
<1>3. \A op : Behind(op)' = Behind(op) \cup {k \in {next} : request.chain[k].op = op}
  BY BehindMore
<1>4. /\ \A k \in Behind("truncate") :
           (\A j \in Behind("rewrite") : j < k) => cur <= request.chain[k].n
      /\ Bundled /\ request.input > 0 => cur > 0
  BY DEF LimitsSoFar
<1>5. \A k \in Behind("truncate") : request.chain[k].n \in Nat /\ k \in Nat /\ k < next
  <2> SUFFICES ASSUME NEW k \in Behind("truncate") PROVE request.chain[k].n \in Nat /\ k \in Nat /\ k < next
    OBVIOUS
  <2>0. DOMAIN request.chain = 1 .. Len(request.chain)
    BY <1>1, RequestShape, Zenon
  <2>1. k \in DOMAIN request.chain /\ request.chain[k].op = "truncate" /\ k < next
    BY DEF Behind, Positions
  <2>2. StageOf(request.kind, request.chain[k])
    BY <1>1, <2>1, RequestShape
  <2>3. Shape(request.kind, request.chain[k])
    BY <2>2, FactoriesAnswer
  <2>4. request.chain[k].n \in Nat
    BY <2>1, <2>3 DEF Shape
  <2> QED
    BY <1>1, <2>0, <2>1, <2>4
<1> DEFINE s == request.chain[next]
<1>6. CASE s.op = "truncate" /\ s.n \in Nat \ {0} /\ Answered = Truncate(cur, s.n)
  <2>1. Behind("rewrite")' = Behind("rewrite") /\ Behind("truncate")' = Behind("truncate") \cup {next}
    BY <1>3, <1>6
  <2>2. PICK n \in Nat \ {0} : n = s.n
    BY <1>6
  <2>3. cur' = IF cur <= n THEN cur ELSE n
    BY <1>6, <2>2 DEF Truncate, Pass, Decide
  <2>4. cur' <= cur /\ cur' <= n /\ (cur > 0 => cur' > 0)
    BY <1>2, <2>3
  <2>5. ASSUME NEW k \in Behind("truncate")', \A j \in Behind("rewrite")' : j < k
        PROVE  cur' <= request.chain[k].n
    <3>1. CASE k = next
      BY <2>2, <2>4, <3>1
    <3>2. CASE k \in Behind("truncate")
      <4>1. cur <= request.chain[k].n /\ request.chain[k].n \in Nat
        BY <1>4, <1>5, <2>1, <2>5, <3>2
      <4> QED
        BY <1>2, <2>4, <4>1
    <3> QED
      BY <2>1, <3>1, <3>2
  <2> QED
    BY <1>4, <2>4, <2>5
<1>7. CASE s.op = "rewrite"
  <2>1. next \in Behind("rewrite")' /\ Behind("truncate")' = Behind("truncate")
    BY <1>3, <1>7
  <2>2. ~Bundled
    BY <1>1, <1>7 DEF Bundled, Ops
  <2>3. \A k \in Behind("truncate") : ~(next < k)
    BY <1>1, <1>5
  <2> QED
    BY <2>1, <2>2, <2>3
<1>8. CASE s.op \notin Ops \cup {"inject", "rewrite"} /\ Answered.out = cur
  <2>1. s.op # "truncate" /\ s.op # "rewrite" /\ cur' = cur
    BY <1>8 DEF Ops
  <2>2. Behind("rewrite")' = Behind("rewrite") /\ Behind("truncate")' = Behind("truncate")
    BY <1>3, <2>1
  <2> QED
    BY <1>4, <2>1, <2>2
<1> HIDE DEF s
<1>9. request.kind # "policy" /\ request.kind # "pre_tool" /\ request.kind # "pre_llm"
  OBVIOUS
<1> QED
  BY <1>6, <1>7, <1>8, <1>9, StageRan, Zenon DEF s
\* Every step keeps the invariant.
LEMMA StepChainInv ==
  ASSUME ChainInv, [Next]_vars
  PROVE  ChainInv'
<1>1. TypeOK /\ LoopInv /\ AnswerInv /\ SecretsSoFar /\ NewestSoFar /\ LimitsSoFar
  BY Zenon DEF ChainInv
<1>2. all \in Seq(Decisions) /\ next \in 1 .. Len(request.chain) + 1 /\ request \in Requests
  BY <1>1, Zenon DEF TypeOK
<1>3. <<>> \in Seq(Decisions) /\ <<cur>> # <<>>
  OBVIOUS
<1>4. CASE StageFails
  BY <1>3, <1>4, ReturnKeeps, Zenon DEF StageFails
<1>5. CASE HookObjects
  <2>1. Answered.decs \in Seq(Decisions)
    BY <1>1, <1>5, NextStage, Zenon DEF HookObjects
  <2>2. /\ request.kind = "policy" /\ Blocking("policy", Answered.decs)
        /\ Return(<<cur>>, Answered.decs, "none")
    BY <1>5, Zenon DEF HookObjects
  <2> QED
    BY <1>3, <2>1, <2>2, ReturnKeeps, Zenon
<1>6. CASE FilterBlocks
  <2>1. Answered.decs \in Seq(Decisions)
    BY <1>1, <1>6, NextStage, Zenon DEF FilterBlocks
  <2>2. all \o Answered.decs \in Seq(Decisions)
    BY <1>2, <2>1
  <2>3. Return(<<>>, all \o Answered.decs, "blocked") /\ "blocked" # "none"
    BY <1>6 DEF FilterBlocks
  <2>4. PICK d \in Seq(Decisions) : Return(<<>>, d, "blocked")
    BY <2>2, <2>3, Zenon
  <2>5. "blocked" \in {"none", "stage", "blocked"}
    OBVIOUS
  <2> QED
    BY <2>3, <2>4, <2>5, ReturnKeeps, Zenon
<1>7. CASE ChainEnds
  <2>1. <<"allow">> \in Seq(Decisions)
    BY DEF Decisions
  <2>2. PICK d \in Seq(Decisions) : d = IF request.kind = "policy" THEN <<"allow">> ELSE all
    BY <1>2, <2>1
  <2>3. Len(request.chain) \in Nat
    BY <1>2, RequestShape, Zenon
  <2>4. next > Len(request.chain)
    BY <1>7, Zenon DEF ChainEnds
  <2>5. next = Len(request.chain) + 1
    BY <1>2, <2>3, <2>4
  <2>6. Return(<<cur>>, d, "none")
    BY <1>7, <2>2, Zenon DEF ChainEnds
  <2> QED
    BY <1>3, <2>5, <2>6, ReturnKeeps, Zenon
<1>8. CASE HookContinues \/ FilterPasses
  <2>1. InLoop /\ ~Answered.err
    BY <1>8, Zenon DEF HookContinues, FilterPasses
  <2>2. /\ next \in 1 .. Len(request.chain) /\ Len(request.chain) \in Nat
        /\ Answered.out \in Payloads(request.kind)
        /\ Answered.decs \in Seq(Decisions)
        /\ request.kind = "policy" => Answered.out = cur
    BY <1>1, <2>1, NextStage, Zenon
  <2>3. ~Blocking(request.kind, Answered.decs)
    BY <1>8, Zenon DEF HookContinues, FilterPasses
  <2>4. request' = request /\ next' = next + 1 /\ outcome' = outcome /\ outcome = Pending
    BY <1>8, Zenon DEF HookContinues, FilterPasses, InLoop
  <2>5. cur' = Answered.out
    BY <1>8, <2>2, Zenon DEF HookContinues, FilterPasses
  <2>6. request.kind # "policy" => all' = all \o Answered.decs
    BY <1>8, Zenon DEF HookContinues, FilterPasses
  <2>7. all' \in Seq(Decisions)
    <3>1. all' = all \/ all' = all \o Answered.decs
      BY <1>8, Zenon DEF HookContinues, FilterPasses
    <3>2. all \o Answered.decs \in Seq(Decisions)
      BY <1>2, <2>2
    <3> QED
      BY <1>2, <3>1, <3>2, Zenon
  <2>8. next + 1 \in 1 .. Len(request.chain) + 1
    BY <2>2
  <2>9. TypeOK'
    BY <1>2, <2>2, <2>4, <2>5, <2>7, <2>8, Zenon DEF TypeOK
  <2>10. LoopInv'
    BY <1>1, <2>1, <2>3, <2>4, <2>5, <2>6, LoopGoesOn
  <2>11. AnswerInv'
    BY <2>4, Zenon DEF AnswerInv, Done
  <2>12. SecretsSoFar' /\ NewestSoFar' /\ LimitsSoFar'
    BY <1>1, <2>1, <2>4, <2>5, SecretsGoOn, NewestGoOn, LimitsGoOn
  <2> QED
    BY <2>9, <2>10, <2>11, <2>12, Zenon DEF ChainInv
<1>9. CASE UNCHANGED vars
  <2>1. request' = request /\ next' = next /\ cur' = cur /\ all' = all /\ outcome' = outcome
    BY <1>9 DEF vars
  <2>2. TypeOK'
    BY <1>1, <2>1, Zenon DEF TypeOK
  <2>3. LoopInv'
    BY <1>1, <2>1 DEF LoopInv, AnswerAt
  <2>4. AnswerInv'
    BY <1>1, <2>1, Zenon DEF AnswerInv, Done
  <2>5. SecretsSoFar' /\ NewestSoFar' /\ LimitsSoFar'
    BY <1>1, <2>1, Zenon DEF SecretsSoFar, NewestSoFar, LimitsSoFar, Behind, Positions, Bundled
  <2> QED
    BY <2>2, <2>3, <2>4, <2>5, Zenon DEF ChainInv
<1> QED
  BY <1>4, <1>5, <1>6, <1>7, <1>8, <1>9, Zenon DEF Next

\* The invariant holds in every state of every run.
THEOREM ChainInvariant == Spec => []ChainInv
BY InitChainInv, StepChainInv, PTL DEF Spec

\* The loops keep to their types.
THEOREM TypeCorrect == Spec => []TypeOK
<1>1. ChainInv => TypeOK
  BY Zenon DEF ChainInv
<1> QED
  BY <1>1, ChainInvariant, PTL

\* When the chain has ended every stage is behind the loop, and the output is
\* what the loop had.
LEMMA AtTheEnd ==
  ASSUME ChainInv, Done
  PROVE  /\ Output = cur
         /\ request.kind # "policy" => \A op : Behind(op) = Positions(op)
<1>1. TypeOK /\ AnswerInv
  BY Zenon DEF ChainInv
<1>2. request \in Requests
  BY <1>1, Zenon DEF TypeOK
<1>3. Len(request.chain) \in Nat /\ DOMAIN request.chain = 1 .. Len(request.chain)
  BY <1>2, RequestShape, Zenon
<1>4. outcome.payload = <<cur>>
  BY <1>1, Zenon DEF AnswerInv
<1>5. Output = cur
  BY <1>4 DEF Output
<1>6. ASSUME request.kind # "policy" PROVE \A op : Behind(op) = Positions(op)
  <2>1. next = Len(request.chain) + 1
    BY <1>1, <1>6, Zenon DEF AnswerInv
  <2>2. \A k \in DOMAIN request.chain : k < next
    BY <1>3, <2>1
  <2> QED
    BY <2>2 DEF Behind, Positions
<1> QED
  BY <1>5, <1>6

\* No order of filters lets a secret past the last scrubber.
THEOREM SecretsAreScrubbed == Spec => []SecretsScrubbed
<1>1. ASSUME ChainInv PROVE SecretsScrubbed
  <2> SUFFICES ASSUME Done, request.kind = "pre_llm", Positions("scrub") # {}
               PROVE  SecretsScrubbed
    BY Zenon DEF SecretsScrubbed
  <2>1. SecretsSoFar
    BY <1>1, Zenon DEF ChainInv
  <2>2. Output = cur /\ \A op : Behind(op) = Positions(op)
    BY <1>1, AtTheEnd
  <2> QED
    BY <2>1, <2>2, Zenon DEF SecretsSoFar, SecretsScrubbed
<1> QED
  BY <1>1, ChainInvariant, PTL

\* No order of scrubbers and windows loses a system message or a newer turn.
THEOREM NewestAreKept == Spec => []NewestKept
<1>1. ASSUME ChainInv PROVE NewestKept
  <2> SUFFICES ASSUME Done, request.kind = "pre_llm", Bundled
               PROVE  NewestKept
    BY Zenon DEF NewestKept
  <2>1. NewestSoFar
    BY <1>1, Zenon DEF ChainInv
  <2>2. Output = cur /\ \A op : Behind(op) = Positions(op)
    BY <1>1, AtTheEnd
  <2> QED
    BY <2>1, <2>2, Zenon DEF NewestSoFar, NewestKept
<1> QED
  BY <1>1, ChainInvariant, PTL

\* A tool output is within every limit no later stage lifts, for every config
\* the factories accept.
THEOREM OutputsWithinLimits == Spec => []OutputWithinLimits
<1>1. ASSUME ChainInv PROVE OutputWithinLimits
  <2> SUFFICES ASSUME Done, request.kind = "post_tool"
               PROVE  OutputWithinLimits
    BY Zenon DEF OutputWithinLimits
  <2>1. LimitsSoFar
    BY <1>1, Zenon DEF ChainInv
  <2>2. Output = cur /\ \A op : Behind(op) = Positions(op)
    BY <1>1, AtTheEnd
  <2> QED
    BY <2>1, <2>2, Zenon DEF LimitsSoFar, OutputWithinLimits
<1> QED
  BY <1>1, ChainInvariant, PTL
\* Every hook of a policy chain is asked about the input.
LEMMA HooksSeeTheInput ==
  ASSUME NEW r \in Requests, r.kind = "policy"
  PROVE  \A k \in 1 .. Len(r.chain) + 1 : Abs!Reaching(r)[k] = r.input
<1> DEFINE n == Len(r.chain)
           T == {k \in Nat : k <= n => Abs!Reaching(r)[k + 1] = r.input}
<1>1. /\ n \in Nat /\ r.input \in Payloads(r.kind) /\ r.kind \in Kinds
      /\ \A k \in 1 .. n : StageOf(r.kind, r.chain[k])
  BY RequestShape, Zenon
<1>2. /\ Abs!Reaching(r)[1] = r.input
      /\ \A k \in 1 .. n : Abs!Reaching(r)[k + 1] = Stage(r.chain[k], Abs!Reaching(r)[k]).out
  BY ReachingStage, Zenon
<1> HIDE DEF n
<1>3. 0 \in T
  BY <1>2
<1>4. ASSUME NEW k \in T, k \in Nat PROVE k + 1 \in T
  <2>1. CASE k + 1 <= n
    <3>1. Abs!Reaching(r)[k + 1] = r.input /\ k + 1 \in 1 .. n
      BY <1>1, <1>4, <2>1
    <3>2. Stage(r.chain[k + 1], r.input).out = r.input
      BY <1>1, <3>1, StageTyped
    <3>3. Abs!Reaching(r)[(k + 1) + 1] = r.input
      BY <1>2, <3>1, <3>2
    <3> QED
      BY <1>4, <3>3
  <2> QED
    BY <1>4, <2>1
<1> HIDE DEF T
<1>5. \A k \in Nat : k \in T
  BY <1>3, <1>4, SetInduction
<1>6. ASSUME NEW k \in 1 .. n + 1 PROVE Abs!Reaching(r)[k] = r.input
  <2>1. k - 1 \in Nat /\ (k - 1) + 1 = k /\ k - 1 <= n
    BY <1>1
  <2>2. k - 1 \in T
    BY <1>5, <2>1
  <2> QED
    BY <2>1, <2>2 DEF T
<1> QED
  BY <1>6 DEF n

\* No hook is overruled.
THEOREM ObjectionsAreKept == Spec => []ObjectionsStand
<1>1. ASSUME ChainInv PROVE ObjectionsStand
  <2> SUFFICES ASSUME Done, request.kind = "policy", outcome.decs = <<"allow">>,
                      NEW k \in DOMAIN request.chain
               PROVE  /\ ~Stage(request.chain[k], request.input).err
                      /\ Stage(request.chain[k], request.input).decs[1] \in {"allow", "continue", "log"}
                      /\ request.chain[k].op = "pii" /\ request.chain[k].mode = "high" =>
                           request.input \cap {"ssn", "credit_card"} = {}
    BY Zenon DEF ObjectionsStand
  <2>1. TypeOK /\ AnswerInv /\ LoopInv
    BY <1>1, Zenon DEF ChainInv
  <2>2. request \in Requests
    BY <2>1, Zenon DEF TypeOK
  <2>3. /\ request.kind \in Kinds /\ request.input \in Payloads(request.kind)
        /\ Len(request.chain) \in Nat /\ DOMAIN request.chain = 1 .. Len(request.chain)
        /\ StageOf(request.kind, request.chain[k])
    BY <2>2, RequestShape, Zenon
  <2>4. ~Blocking("policy", <<"allow">>)
    BY DEF Blocking, Last
  <2>5. next = Len(request.chain) + 1
    BY <2>1, <2>4, Zenon DEF AnswerInv
  <2>6. k \in 1 .. next - 1 /\ k \in 1 .. Len(request.chain) + 1
    BY <2>3, <2>5
  <2>7. ~AnswerAt(k).err /\ ~Blocking(request.kind, AnswerAt(k).decs)
    BY <2>1, <2>6, Zenon DEF LoopInv
  <2>8. Abs!Reaching(request)[k] = request.input
    BY <2>2, <2>6, HooksSeeTheInput
  <2>9. PICK a : a = Stage(request.chain[k], request.input)
    OBVIOUS
  <2>10. ~a.err /\ ~Blocking("policy", a.decs)
    BY <2>7, <2>8, <2>9, Zenon DEF AnswerAt
  <2>11. Len(a.decs) = 1
    BY <2>3, <2>9, <2>10, StageTyped, Zenon
  <2>12. a.decs[1] \in {"allow", "continue", "log"}
    BY <2>10, <2>11 DEF Blocking, Last
  <2>13. ASSUME request.chain[k].op = "pii", request.chain[k].mode = "high"
         PROVE  request.input \cap {"ssn", "credit_card"} = {}
    <3>1. a = PII(request.input, request.chain[k].mode)
      BY <2>9, <2>13 DEF Stage
    <3>2. ASSUME request.input \cap {"ssn", "credit_card"} # {} PROVE FALSE
      <4>1. request.input # {}
        BY <3>2
      <4>2. a.decs = <<"deny">>
        BY <2>13, <3>1, <3>2, <4>1 DEF PII, Decide
      <4> QED
        BY <2>12, <4>2
    <3> QED
      BY <3>2
  <2> QED
    BY <2>9, <2>10, <2>12, <2>13, Zenon
<1> QED
  BY <1>1, ChainInvariant, PTL

-----------------------------------------------------------------------------
(* The loops implement ChainSpec *)

\* What ChainSpec answers when no stage stops the chain, and when stage k is the
\* first that does.
LEMMA AbstractAnswer ==
  ASSUME NEW r \in Requests, NEW ans,
         ans = [k \in DOMAIN r.chain |-> Stage(r.chain[k], Abs!Reaching(r)[k])]
  PROVE  /\ (\A k \in DOMAIN r.chain : ~ans[k].err /\ ~Blocking(r.kind, ans[k].decs)) =>
              Abs!Answer(r) =
                [payload |-> <<Abs!Reaching(r)[Len(r.chain) + 1]>>, err |-> "none",
                 decs |-> IF r.kind = "policy" THEN <<"allow">>
                          ELSE Abs!Recorded(ans, Len(r.chain))]
         /\ \A k \in DOMAIN r.chain :
              /\ ans[k].err \/ Blocking(r.kind, ans[k].decs)
              /\ \A j \in 1 .. k - 1 : ~ans[j].err /\ ~Blocking(r.kind, ans[j].decs)
              => Abs!Answer(r) =
                   IF ans[k].err THEN [payload |-> <<>>, err |-> "stage", decs |-> <<>>]
                   ELSE IF r.kind = "policy"
                   THEN [payload |-> <<r.input>>, err |-> "none", decs |-> ans[k].decs]
                   ELSE [payload |-> <<>>, err |-> "blocked", decs |-> Abs!Recorded(ans, k)]
<1> DEFINE stops == {k \in DOMAIN r.chain : ans[k].err \/ Blocking(r.kind, ans[k].decs)}
           stop == CHOOSE k \in stops : \A j \in stops : k <= j
<1>1. Abs!Answer(r) =
        IF stops = {}
        THEN [payload |-> <<Abs!Reaching(r)[Len(r.chain) + 1]>>, err |-> "none",
              decs |-> IF r.kind = "policy" THEN <<"allow">> ELSE Abs!Recorded(ans, Len(r.chain))]
        ELSE IF ans[stop].err
        THEN [payload |-> <<>>, err |-> "stage", decs |-> <<>>]
        ELSE IF r.kind = "policy"
        THEN [payload |-> <<r.input>>, err |-> "none", decs |-> ans[stop].decs]
        ELSE [payload |-> <<>>, err |-> "blocked", decs |-> Abs!Recorded(ans, stop)]
  BY Zenon DEF Abs!Answer
<1>2. Len(r.chain) \in Nat /\ DOMAIN r.chain = 1 .. Len(r.chain)
  BY RequestShape, Zenon
<1>3. ASSUME NEW k \in DOMAIN r.chain, ans[k].err \/ Blocking(r.kind, ans[k].decs),
             \A j \in 1 .. k - 1 : ~ans[j].err /\ ~Blocking(r.kind, ans[j].decs)
      PROVE  k \in stops /\ stop = k
  <2>1. k \in stops
    BY <1>3
  <2>2. \A j \in stops : k <= j
    <3> SUFFICES ASSUME NEW j \in stops PROVE k <= j
      OBVIOUS
    <3>1. j \notin 1 .. k - 1
      BY <1>3
    <3> QED
      BY <1>2, <3>1
  <2>3. \A i \in stops : i \in Nat
    BY <1>2
  <2>4. \A i \in stops : (\A j \in stops : i <= j) => i = k
    <3> SUFFICES ASSUME NEW i \in stops, \A j \in stops : i <= j PROVE i = k
      OBVIOUS
    <3>1. i <= k /\ k <= i /\ i \in Nat /\ k \in Nat
      BY <2>1, <2>2, <2>3
    <3> QED
      BY <3>1
  <2> HIDE DEF stops
  <2> QED
    BY <2>1, <2>2, <2>4
<1>4. ASSUME \A k \in DOMAIN r.chain : ~ans[k].err /\ ~Blocking(r.kind, ans[k].decs)
      PROVE  stops = {}
  BY <1>4
<1> HIDE DEF stops, stop
<1>5. ASSUME NEW k \in stops PROVE stops # {}
  OBVIOUS
<1> QED
  BY <1>1, <1>3, <1>4, <1>5, Zenon
\* Every step of a loop is one of ChainSpec, or leaves the answer as it is.
LEMMA StepImplements ==
  ASSUME ChainInv, [Next]_vars
  PROVE  [Abs!AbsAnswer]_(Abs!absVars)
<1>1. TypeOK /\ LoopInv
  BY Zenon DEF ChainInv
<1>2. request \in Requests /\ next \in 1 .. Len(request.chain) + 1
  BY <1>1, Zenon DEF TypeOK
<1>3. Len(request.chain) \in Nat /\ DOMAIN request.chain = 1 .. Len(request.chain)
  BY <1>2, RequestShape, Zenon
<1>4. PICK ans : ans = [k \in DOMAIN request.chain |-> Stage(request.chain[k], Abs!Reaching(request)[k])]
  OBVIOUS
<1>5. \A k \in DOMAIN request.chain : ans[k] = AnswerAt(k)
  BY <1>4 DEF AnswerAt
<1>6. ans = [k \in DOMAIN request.chain |-> AnswerAt(k)]
  BY <1>4 DEF AnswerAt
<1>7. /\ cur = Abs!Reaching(request)[next]
      /\ \A k \in 1 .. next - 1 : ~AnswerAt(k).err /\ ~Blocking(request.kind, AnswerAt(k).decs)
      /\ request.kind = "policy" => cur = request.input
      /\ request.kind # "policy" => all = Abs!Recorded(ans, next - 1)
  BY <1>1, <1>6, Zenon DEF LoopInv
<1>8. \A k \in 1 .. next - 1 : ~ans[k].err /\ ~Blocking(request.kind, ans[k].decs)
  <2> SUFFICES ASSUME NEW k \in 1 .. next - 1
               PROVE  ~ans[k].err /\ ~Blocking(request.kind, ans[k].decs)
    OBVIOUS
  <2>1. k \in DOMAIN request.chain
    BY <1>2, <1>3
  <2> QED
    BY <1>5, <1>7, <2>1, Zenon
<1>9. ASSUME InLoop, Answered.err \/ Blocking(request.kind, Answered.decs)
      PROVE  /\ outcome = Pending /\ next \in DOMAIN request.chain
             /\ ans[next] = Answered
             /\ Abs!Answer(request) =
                  IF Answered.err THEN [payload |-> <<>>, err |-> "stage", decs |-> <<>>]
                  ELSE IF request.kind = "policy"
                  THEN [payload |-> <<request.input>>, err |-> "none", decs |-> Answered.decs]
                  ELSE [payload |-> <<>>, err |-> "blocked", decs |-> Abs!Recorded(ans, next)]
  <2>1. next \in DOMAIN request.chain
    BY <1>1, <1>9, NextStage, Zenon
  <2>2. ans[next] = Answered
    BY <1>5, <1>7, <2>1, Zenon DEF AnswerAt, Answered
  <2>3. outcome = Pending
    BY <1>9, Zenon DEF InLoop
  <2> QED
    BY <1>2, <1>4, <1>8, <1>9, <2>1, <2>2, <2>3, AbstractAnswer, Zenon
<1>10. CASE StageFails
  <2>1. /\ InLoop /\ Answered.err /\ request' = request
        /\ outcome' = [payload |-> <<>>, decs |-> <<>>, err |-> "stage"]
    BY <1>10 DEF StageFails, Return
  <2>2. Abs!Answer(request) = [payload |-> <<>>, err |-> "stage", decs |-> <<>>] /\ outcome = Pending
    BY <1>9, <2>1, Zenon
  <2>3. outcome' = Abs!Answer(request)
    BY <2>1, <2>2
  <2> QED
    BY <2>1, <2>2, <2>3, Zenon DEF Abs!AbsAnswer
<1>11. CASE HookObjects
  <2>1. /\ InLoop /\ request.kind = "policy" /\ request' = request
        /\ ~Answered.err /\ Blocking("policy", Answered.decs)
        /\ outcome' = [payload |-> <<cur>>, decs |-> Answered.decs, err |-> "none"]
    BY <1>11 DEF HookObjects, Return
  <2>2. /\ Abs!Answer(request) = [payload |-> <<request.input>>, err |-> "none", decs |-> Answered.decs]
        /\ outcome = Pending
    BY <1>9, <2>1, Zenon
  <2>3. outcome' = Abs!Answer(request)
    BY <1>7, <2>1, <2>2
  <2> QED
    BY <2>1, <2>2, <2>3, Zenon DEF Abs!AbsAnswer
<1>12. CASE FilterBlocks
  <2>1. /\ InLoop /\ request.kind # "policy" /\ request' = request
        /\ ~Answered.err /\ Blocking(request.kind, Answered.decs)
        /\ outcome' = [payload |-> <<>>, decs |-> all \o Answered.decs, err |-> "blocked"]
    BY <1>12 DEF FilterBlocks, Return
  <2>2. /\ Abs!Answer(request) = [payload |-> <<>>, err |-> "blocked", decs |-> Abs!Recorded(ans, next)]
        /\ outcome = Pending /\ next \in DOMAIN request.chain /\ ans[next] = Answered
    BY <1>9, <2>1, Zenon
  <2>3. \A k \in 1 .. Len(request.chain) : ans[k].decs \in Seq(Decisions)
    BY <1>2, <1>3, <1>5, AnswersTyped
  <2>4. Abs!Recorded(ans, next) = Abs!Recorded(ans, next - 1) \o ans[next].decs
    BY <1>3, <2>2, <2>3, RecordedMore
  <2>5. all \o Answered.decs = Abs!Recorded(ans, next)
    BY <1>7, <2>1, <2>2, <2>4, Zenon
  <2>6. outcome' = Abs!Answer(request)
    BY <2>1, <2>2, <2>5
  <2> QED
    BY <2>1, <2>2, <2>6, Zenon DEF Abs!AbsAnswer
<1>13. CASE ChainEnds
  <2>1. /\ outcome = Pending /\ next > Len(request.chain) /\ request' = request
        /\ outcome' = [payload |-> <<cur>>, err |-> "none",
                       decs |-> IF request.kind = "policy" THEN <<"allow">> ELSE all]
    BY <1>13 DEF ChainEnds, Return
  <2>2. next = Len(request.chain) + 1
    BY <1>2, <1>3, <2>1
  <2>3. next - 1 = Len(request.chain) /\ 1 .. next - 1 = DOMAIN request.chain
    BY <1>3, <2>2
  <2>4. Abs!Answer(request) =
          [payload |-> <<Abs!Reaching(request)[Len(request.chain) + 1]>>, err |-> "none",
           decs |-> IF request.kind = "policy" THEN <<"allow">>
                    ELSE Abs!Recorded(ans, Len(request.chain))]
    BY <1>2, <1>4, <1>8, <2>3, AbstractAnswer, Zenon
  <2>5. /\ Abs!Reaching(request)[Len(request.chain) + 1] = cur
        /\ request.kind # "policy" => all = Abs!Recorded(ans, Len(request.chain))
    BY <1>7, <2>2, <2>3, Zenon
  <2>6. outcome' = Abs!Answer(request)
    BY <2>1, <2>4, <2>5
  <2> QED
    BY <2>1, <2>6, Zenon DEF Abs!AbsAnswer
<1>14. CASE HookContinues \/ FilterPasses \/ UNCHANGED vars
  <2>1. request' = request /\ outcome' = outcome
    BY <1>14 DEF HookContinues, FilterPasses, vars
  <2> QED
    BY <2>1, Zenon DEF Abs!absVars
<1> QED
  BY <1>10, <1>11, <1>12, <1>13, <1>14, Zenon DEF Next

\* The loops of policyChain.Evaluate and of the three filter chains answer, once,
\* what ChainSpec says the first stage that fails or objects decides.
THEOREM AnswersImplement == Spec => Abs!AbsSafety
<1>1. Init => Abs!AbsInit
  BY DEF Init, Abs!AbsInit
<1>2. ChainInv /\ [Next]_vars => [Abs!AbsAnswer]_(Abs!absVars)
  BY StepImplements
<1> QED
  BY <1>1, <1>2, ChainInvariant, PTL DEF Spec, Abs!AbsSafety
=============================================================================
