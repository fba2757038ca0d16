--------------------------- MODULE SessionProofs ---------------------------
(* Proofs about Session.  However calls overlap on the shared objects, and   *)
(* whatever an append on a stale header overwrites, no message of one        *)
(* session gets into another, and none appears twice in a slice.  In a       *)
(* session whose calls do not overlap,                                       *)
(* whatever the other sessions do, the history is exactly what was told, a   *)
(* sensitive input is answered on approval only, and a pause is decided      *)
(* once.                                                                     *)
EXTENDS Session, DataLemmas, FiniteSetTheorems

\* A call that is made keeps its session.
LEMMA OwnedLater ==
  ASSUME NEW made, NEW later, DOMAIN made \subseteq DOMAIN later,
         \A d \in DOMAIN made : later[d].session = made[d].session
  PROVE  \A msgs, s : Owned(made, msgs, s) => Owned(later, msgs, s)
BY DEF Owned

\* An append that overwrites a slot writes into slices of its own session only:
\* a slice that shows the slot starts with the message the base starts with.
LEMMA OverwrittenOwned ==
  ASSUME NEW made, NEW base \in Seq(Messages), NEW cap \in Nat, base = <<>> => cap = 0,
         NEW m \in Messages, NEW t, Owned(made, base, t),
         m.of \in DOMAIN made, made[m.of].session = t
  PROVE  /\ Overwritten(Nil, base, cap, m) = Nil
         /\ Overwritten(<<>>, base, cap, m) = <<>>
         /\ \A msgs \in Seq(Messages) :
              /\ Overwritten(msgs, base, cap, m) \in Seq(Messages)
              /\ \A s : Owned(made, msgs, s) => Owned(made, Overwritten(msgs, base, cap, m), s)
<1>1. Len(base) \in Nat /\ (base # <<>> => Len(base) > 0)
  BY ElementOf
<1>2. Overwritten(Nil, base, cap, m) = Nil
  BY DEF Overwritten
<1>3. Overwritten(<<>>, base, cap, m) = <<>>
  <2>1. Len(<<>>) = 0
    OBVIOUS
  <2>2. Len(<<>>) \notin Len(base) + 1 .. cap
    BY <1>1, <2>1
  <2> QED
    BY <2>2 DEF Overwritten
<1>4. ASSUME NEW msgs \in Seq(Messages)
      PROVE  /\ Overwritten(msgs, base, cap, m) \in Seq(Messages)
             /\ \A s : Owned(made, msgs, s) => Owned(made, Overwritten(msgs, base, cap, m), s)
  <2>1. CASE msgs # Nil /\ Len(msgs) \in Len(base) + 1 .. cap /\ IsPrefix(base, msgs)
    <3>1. Overwritten(msgs, base, cap, m) = [msgs EXCEPT ![Len(base) + 1] = m]
      BY <2>1 DEF Overwritten
    <3>2. Len(msgs) \in Nat /\ msgs \in [1 .. Len(msgs) -> Messages]
      BY ElementOf
    <3>3. cap > 0 /\ Len(base) > 0 /\ Len(base) + 1 \in 1 .. Len(msgs)
      BY <1>1, <2>1, <3>2
    <3>4. PICK new : new = [msgs EXCEPT ![Len(base) + 1] = m]
      OBVIOUS
    <3>5. new \in [1 .. Len(msgs) -> Messages]
      BY <3>2, <3>4
    <3>6. new \in Seq(Messages)
      BY <3>2, <3>5, FunctionIsSequence
    <3>7. /\ DOMAIN new = DOMAIN msgs /\ new[Len(base) + 1] = m
          /\ \A i \in DOMAIN msgs : i # Len(base) + 1 => new[i] = msgs[i]
      BY <3>2, <3>3, <3>4
    <3>8. base[1] = msgs[1] /\ 1 \in DOMAIN base /\ 1 \in DOMAIN msgs
      <4>1. \A i \in 1 .. Len(base) : base[i] = msgs[i]
        BY <2>1, PrefixByElement
      <4>2. 1 \in 1 .. Len(base) /\ 1 \in 1 .. Len(msgs)
        BY <1>1, <3>2, <3>3
      <4> QED
        BY <3>2, <4>1, <4>2, ElementOf
    <3>9. ASSUME NEW s, Owned(made, msgs, s) PROVE Owned(made, new, s)
      <4>1. s = t
        BY <3>8, <3>9 DEF Owned
      <4> QED
        BY <3>7, <3>9, <4>1 DEF Owned
    <3> QED
      BY <3>1, <3>4, <3>6, <3>9
  <2>2. CASE ~(msgs # Nil /\ Len(msgs) \in Len(base) + 1 .. cap /\ IsPrefix(base, msgs))
    <3>1. Overwritten(msgs, base, cap, m) = msgs
      BY <2>2, Zenon DEF Overwritten
    <3> QED
      BY <3>1
  <2> QED
    BY <2>1, <2>2, Zenon
<1> QED
  BY <1>2, <1>3, <1>4

\* What the state is made of.
LEMMA Typed ==
  ASSUME TypeOK
  PROVE  /\ Len(calls) \in Nat /\ DOMAIN calls = 1 .. Len(calls) /\ Len(calls) <= MaxCalls
         /\ calls \in [1 .. Len(calls) -> Calls]
         /\ DOMAIN calls \subseteq Numbers
         /\ heap \in [Numbers -> Objects] /\ data \in [Sessions -> Numbers \cup {Nil}]
<1>1. calls \in Seq(Calls) /\ Len(calls) <= MaxCalls
  BY Zenon DEF TypeOK
<1>2. MaxCalls \in Nat
  BY SessionAssumption
<1>3. Len(calls) \in Nat /\ calls \in [1 .. Len(calls) -> Calls] /\ DOMAIN calls = 1 .. Len(calls)
  BY <1>1, ElementOf
<1>4. DOMAIN calls \subseteq Numbers
  BY <1>1, <1>2, <1>3 DEF Numbers
<1> QED
  BY <1>1, <1>3, <1>4, Zenon DEF TypeOK

\* At the start there is nothing to own.
LEMMA InitIsolationInv ==
  ASSUME Init
  PROVE  IsolationInv
<1>1. calls = <<>> /\ data = [s \in Sessions |-> Nil]
      /\ heap = [o \in Numbers |-> [id |-> Nil, messages |-> <<>>, pending |-> Nil]]
  BY DEF Init
<1>2. Len(calls) = 0 /\ DOMAIN calls = {} /\ calls \in Seq(Calls) /\ MaxCalls \in Nat
  BY <1>1, SessionAssumption
<1>3. heap \in [Numbers -> Objects] /\ data \in [Sessions -> Numbers \cup {Nil}]
  <2>1. <<>> \in Seq(Messages)
    OBVIOUS
  <2> QED
    BY <1>1, <2>1 DEF Objects
<1>4. TypeOK
  BY <1>2, <1>3 DEF TypeOK
<1>5. ObjectsOwned
  <2>1. DOMAIN <<>> = {}
    OBVIOUS
  <2> QED
    BY <1>1, <2>1 DEF ObjectsOwned, Owned
<1>6. CallsOwned /\ StoreOwned
  BY <1>1, <1>2 DEF CallsOwned, StoreOwned, Stored
<1> QED
  BY <1>4, <1>5, <1>6 DEF IsolationInv

\* A step of one call keeps the invariant when calls keep their session and
\* object, and every slice it writes belongs to the session it is written for.
LEMMA StepOwned ==
  ASSUME IsolationInv, TypeOK', Len(calls') = Len(calls),
         \A d \in DOMAIN calls :
           /\ calls'[d].session = calls[d].session /\ calls'[d].obj = calls[d].obj
           /\ Owned(calls, calls'[d].req, calls[d].session)
           /\ Owned(calls, calls'[d].base, calls[d].session),
         \A o \in Numbers :
           /\ heap'[o].id = heap[o].id
           /\ Owned(calls, heap'[o].messages, heap[o].id)
           /\ heap'[o].pending # Nil => Owned(calls, heap'[o].pending, heap[o].id)
           /\ o > Len(calls) => heap'[o].messages = <<>> /\ heap'[o].pending = Nil,
         \A s \in Sessions : data'[s] # Nil => data'[s] <= Len(calls) /\ heap[data'[s]].id = s
  PROVE  IsolationInv'
<1>1. TypeOK /\ ObjectsOwned /\ CallsOwned /\ StoreOwned
  BY Zenon DEF IsolationInv
<1>2. /\ Len(calls) \in Nat /\ DOMAIN calls = 1 .. Len(calls) /\ calls \in [1 .. Len(calls) -> Calls]
      /\ DOMAIN calls \subseteq Numbers
  BY <1>1, Typed
<1>3. DOMAIN calls' = DOMAIN calls /\ data' \in [Sessions -> Numbers \cup {Nil}]
  <2>1. calls' \in Seq(Calls)
    BY Zenon DEF TypeOK
  <2>2. DOMAIN calls' = 1 .. Len(calls')
    BY <2>1, ElementOf
  <2> QED
    BY <1>2, <2>2, Zenon DEF TypeOK
<1>4. PICK made, later : made = calls /\ later = calls'
  OBVIOUS
<1>5. \A msgs, s : Owned(made, msgs, s) => Owned(later, msgs, s)
  <2>1. DOMAIN made \subseteq DOMAIN later /\ \A d \in DOMAIN made : later[d].session = made[d].session
    BY <1>3, <1>4
  <2> QED
    BY <2>1, OwnedLater
<1>6. \A msgs, s : Owned(calls, msgs, s) => Owned(calls', msgs, s)
  BY <1>4, <1>5, Zenon
<1>7. ObjectsOwned'
  BY <1>6, Zenon DEF ObjectsOwned
<1>8. CallsOwned'
  <2> SUFFICES ASSUME NEW c \in DOMAIN calls
               PROVE  /\ calls'[c].obj <= c /\ heap'[calls'[c].obj].id = calls'[c].session
                      /\ Owned(calls', calls'[c].req, calls'[c].session)
                      /\ Owned(calls', calls'[c].base, calls'[c].session)
    BY <1>3, Zenon DEF CallsOwned
  <2>1. calls[c].obj \in Numbers
    BY <1>2 DEF Calls
  <2>2. calls[c].obj <= c /\ heap[calls[c].obj].id = calls[c].session
    BY <1>1, Zenon DEF CallsOwned
  <2> QED
    BY <1>6, <2>1, <2>2, Zenon
<1>9. StoreOwned'
  <2> SUFFICES ASSUME NEW s \in Sessions, data'[s] # Nil
               PROVE  data'[s] <= Len(calls') /\ heap'[data'[s]].id = s
    BY Zenon DEF StoreOwned, Stored
  <2>1. data'[s] \in Numbers
    BY <1>3
  <2> QED
    BY <2>1, Zenon
<1> QED
  BY <1>7, <1>8, <1>9, Zenon DEF IsolationInv
\* The same for a step that changes nothing of the other calls.
LEMMA CallStep ==
  ASSUME IsolationInv, NEW c \in DOMAIN calls, NEW r \in Calls,
         calls' = [calls EXCEPT ![c] = r],
         r.session = calls[c].session, r.obj = calls[c].obj,
         Owned(calls, r.req, calls[c].session), Owned(calls, r.base, calls[c].session),
         heap' \in [Numbers -> Objects], data' \in [Sessions -> Numbers \cup {Nil}],
         \A o \in Numbers :
           /\ heap'[o].id = heap[o].id
           /\ Owned(calls, heap'[o].messages, heap[o].id)
           /\ heap'[o].pending # Nil => Owned(calls, heap'[o].pending, heap[o].id)
           /\ o > Len(calls) => heap'[o].messages = <<>> /\ heap'[o].pending = Nil,
         \A s \in Sessions : data'[s] # Nil => data'[s] <= Len(calls) /\ heap[data'[s]].id = s
  PROVE  IsolationInv'
<1>1. TypeOK /\ ObjectsOwned /\ CallsOwned /\ StoreOwned
  BY Zenon DEF IsolationInv
<1>2. /\ Len(calls) \in Nat /\ DOMAIN calls = 1 .. Len(calls) /\ calls \in [1 .. Len(calls) -> Calls]
      /\ Len(calls) <= MaxCalls
  BY <1>1, Typed
<1>3. calls' \in [1 .. Len(calls) -> Calls]
  BY <1>2
<1>4. calls' \in Seq(Calls) /\ Len(calls') = Len(calls)
  BY <1>2, <1>3, FunctionIsSequence
<1>5. TypeOK'
  BY <1>2, <1>4 DEF TypeOK
<1>6. ASSUME NEW d \in DOMAIN calls
      PROVE  /\ calls'[d].session = calls[d].session /\ calls'[d].obj = calls[d].obj
             /\ Owned(calls, calls'[d].req, calls[d].session)
             /\ Owned(calls, calls'[d].base, calls[d].session)
  <2>1. CASE d = c
    BY <1>2, <2>1
  <2>2. CASE d # c
    <3>1. calls'[d] = calls[d]
      BY <1>2, <2>2
    <3> QED
      BY <1>1, <3>1, Zenon DEF CallsOwned
  <2> QED
    BY <2>1, <2>2
<1> QED
  BY <1>4, <1>5, <1>6, StepOwned

\* A step that changes neither objects nor the store.
LEMMA QuietStep ==
  ASSUME IsolationInv, NEW c \in DOMAIN calls, NEW r \in Calls,
         calls' = [calls EXCEPT ![c] = r],
         r.session = calls[c].session, r.obj = calls[c].obj,
         Owned(calls, r.req, calls[c].session), Owned(calls, r.base, calls[c].session),
         heap' = heap, data' = data
  PROVE  IsolationInv'
<1>1. TypeOK /\ ObjectsOwned /\ CallsOwned /\ StoreOwned
  BY Zenon DEF IsolationInv
<1>2. heap \in [Numbers -> Objects] /\ data \in [Sessions -> Numbers \cup {Nil}]
  BY <1>1, Typed
<1>3. \A o \in Numbers :
        /\ heap'[o].id = heap[o].id
        /\ Owned(calls, heap'[o].messages, heap[o].id)
        /\ heap'[o].pending # Nil => Owned(calls, heap'[o].pending, heap[o].id)
        /\ o > Len(calls) => heap'[o].messages = <<>> /\ heap'[o].pending = Nil
  BY <1>1, Zenon DEF ObjectsOwned
<1>4. \A s \in Sessions : data'[s] # Nil => data'[s] <= Len(calls) /\ heap[data'[s]].id = s
  BY <1>1, Zenon DEF StoreOwned, Stored
<1>5. heap' \in [Numbers -> Objects] /\ data' \in [Sessions -> Numbers \cup {Nil}]
  BY <1>2
<1> QED
  BY <1>3, <1>4, <1>5, CallStep

\* A call, the object it works on and what it has of it.
LEMMA CallOf ==
  ASSUME IsolationInv, NEW c \in DOMAIN calls
  PROVE  /\ calls[c] \in Calls /\ calls[c].obj \in Numbers /\ calls[c].obj <= c
         /\ c <= Len(calls) /\ c \in Nat /\ calls[c].obj <= Len(calls)
         /\ calls[c].session \in Sessions
         /\ Object(c) = heap[calls[c].obj] /\ Object(c) \in Objects
         /\ Object(c).id = calls[c].session
         /\ calls[c].req \in Seq(Messages) /\ Owned(calls, calls[c].req, calls[c].session)
         /\ calls[c].base \in Seq(Messages) /\ Owned(calls, calls[c].base, calls[c].session)
         /\ Object(c).messages \in Seq(Messages)
         /\ Owned(calls, Object(c).messages, calls[c].session)
         /\ Object(c).pending # Nil =>
              /\ Object(c).pending \in Seq(Messages)
              /\ Owned(calls, Object(c).pending, calls[c].session)
<1>1. TypeOK /\ ObjectsOwned /\ CallsOwned
  BY Zenon DEF IsolationInv
<1>2. /\ Len(calls) \in Nat /\ DOMAIN calls = 1 .. Len(calls) /\ calls \in [1 .. Len(calls) -> Calls]
      /\ heap \in [Numbers -> Objects]
  BY <1>1, Typed
<1>3. /\ calls[c].obj <= c /\ heap[calls[c].obj].id = calls[c].session
      /\ Owned(calls, calls[c].req, calls[c].session) /\ Owned(calls, calls[c].base, calls[c].session)
  BY <1>1, Zenon DEF CallsOwned
<1>4. calls[c] \in Calls /\ c \in Nat /\ c <= Len(calls)
  BY <1>2
<1>5. /\ calls[c].obj \in Numbers /\ calls[c].session \in Sessions
      /\ calls[c].req \in Seq(Messages) /\ calls[c].base \in Seq(Messages)
  BY <1>4 DEF Calls
<1>6. calls[c].obj <= Len(calls)
  <2>1. calls[c].obj \in Nat
    BY <1>5 DEF Numbers
  <2> QED
    BY <1>2, <1>3, <1>4, <2>1
<1>7. Object(c) = heap[calls[c].obj] /\ Object(c) \in Objects
  BY <1>2, <1>5 DEF Object
<1>8. Object(c).messages \in Seq(Messages) /\ (Object(c).pending # Nil => Object(c).pending \in Seq(Messages))
  BY <1>7 DEF Objects
<1>9. /\ Owned(calls, Object(c).messages, calls[c].session)
      /\ Object(c).pending # Nil => Owned(calls, Object(c).pending, calls[c].session)
  BY <1>1, <1>3, <1>5, <1>7, Zenon DEF ObjectsOwned
<1> QED
  BY <1>3, <1>4, <1>5, <1>6, <1>7, <1>8, <1>9, Zenon

\* The steps that change the call and nothing else.
LEMMA QuietSteps ==
  ASSUME IsolationInv, NEW c \in DOMAIN calls,
         CheckTurn(c) \/ CheckResume(c) \/ ReadHeader(c) \/ Request(c)
         \/ InvokeFails(c) \/ InvokePauses(c) \/ InvokeReplies(c)
  PROVE  IsolationInv'
<1> DEFINE k == calls[c]
<1>1. /\ k \in Calls /\ k.session \in Sessions
      /\ k.req \in Seq(Messages) /\ Owned(calls, k.req, k.session)
      /\ k.base \in Seq(Messages) /\ Owned(calls, k.base, k.session)
      /\ Object(c).messages \in Seq(Messages) /\ Owned(calls, Object(c).messages, k.session)
      /\ Object(c).pending # Nil => /\ Object(c).pending \in Seq(Messages)
                                    /\ Owned(calls, Object(c).pending, k.session)
  BY CallOf, Zenon
<1>2. \A pc \in Points : [k EXCEPT !.pc = pc] \in Calls
  BY <1>1 DEF Calls
<1>3. heap' = heap /\ data' = data
  BY DEF CheckTurn, CheckResume, ReadHeader, Request, InvokeFails, InvokePauses, InvokeReplies
<1>4. CASE CheckTurn(c)
  <2>1. PICK r \in {[k EXCEPT !.pc = "append"], [k EXCEPT !.pc = "done", !.outcome = "refused"]} :
          calls' = [calls EXCEPT ![c] = r]
    BY <1>4 DEF CheckTurn, Go, Refuse
  <2>2. /\ r \in Calls /\ r.session = k.session /\ r.obj = k.obj
        /\ r.req = k.req /\ r.base = k.base
    BY <1>1 DEF Calls, Points, Outcomes
  <2> QED
    BY <1>1, <1>3, <2>1, <2>2, QuietStep, Zenon
<1>5. CASE CheckResume(c)
  <2>1. PICK r : /\ calls' = [calls EXCEPT ![c] = r]
                 /\ \/ r = [k EXCEPT !.pc = "done", !.outcome = "refused"]
                    \/ /\ Object(c).pending # Nil
                       /\ r = [k EXCEPT !.pc = IF k.op = "deny" THEN "deny" ELSE "invoke",
                                        !.req = Object(c).pending,
                                        !.outcome = IF k.op = "deny" THEN "denied" ELSE @]
    BY <1>5 DEF CheckResume, Refuse
  <2>2. /\ r \in Calls /\ r.session = k.session /\ r.obj = k.obj
        /\ Owned(calls, r.req, k.session) /\ r.base = k.base
    <3>1. CASE r = [k EXCEPT !.pc = "done", !.outcome = "refused"]
      BY <1>1, <3>1 DEF Calls, Points, Outcomes
    <3>2. CASE /\ Object(c).pending # Nil
               /\ r = [k EXCEPT !.pc = IF k.op = "deny" THEN "deny" ELSE "invoke",
                                !.req = Object(c).pending,
                                !.outcome = IF k.op = "deny" THEN "denied" ELSE @]
      BY <1>1, <3>2 DEF Calls, Points, Outcomes
    <3> QED
      BY <2>1, <3>1, <3>2
  <2> QED
    BY <1>1, <1>3, <2>1, <2>2, QuietStep, Zenon
<1>6. CASE ReadHeader(c)
  <2>1. PICK pc \in Points :
          calls' = [calls EXCEPT ![c] = [k EXCEPT !.base = Object(c).messages, !.pc = pc]]
    BY <1>6 DEF ReadHeader, Points
  <2>2. PICK r : r = [k EXCEPT !.base = Object(c).messages, !.pc = pc]
    OBVIOUS
  <2>3. /\ r \in Calls /\ r.session = k.session /\ r.obj = k.obj
        /\ r.req = k.req /\ r.base = Object(c).messages
    BY <1>1, <2>2 DEF Calls
  <2> QED
    BY <1>1, <1>3, <2>1, <2>2, <2>3, QuietStep, Zenon
<1>7. CASE Request(c)
  <2>1. PICK r : /\ r = [k EXCEPT !.req = Object(c).messages, !.pc = "invoke"]
                 /\ calls' = [calls EXCEPT ![c] = r]
    BY <1>7 DEF Request
  <2>2. /\ r \in Calls /\ r.session = k.session /\ r.obj = k.obj
        /\ r.req = Object(c).messages /\ r.base = k.base
    BY <1>1, <2>1 DEF Calls, Points
  <2> QED
    BY <1>1, <1>3, <2>1, <2>2, QuietStep, Zenon
<1>8. CASE InvokeFails(c)
  <2>1. PICK ran \in BOOLEAN :
          calls' = [calls EXCEPT ![c] = [k EXCEPT !.pc = "done", !.outcome = "failed", !.evaluated = ran]]
    BY <1>8 DEF InvokeFails
  <2>2. PICK r : r = [k EXCEPT !.pc = "done", !.outcome = "failed", !.evaluated = ran]
    OBVIOUS
  <2>3. /\ r \in Calls /\ r.session = k.session /\ r.obj = k.obj
        /\ r.req = k.req /\ r.base = k.base
    BY <1>1, <2>2 DEF Calls, Points, Outcomes
  <2> QED
    BY <1>1, <1>3, <2>1, <2>2, <2>3, QuietStep, Zenon
<1>9. CASE InvokePauses(c)
  <2>1. PICK r : /\ r = [k EXCEPT !.pc = "pause", !.evaluated = TRUE, !.outcome = "paused"]
                 /\ calls' = [calls EXCEPT ![c] = r]
    BY <1>9 DEF InvokePauses
  <2>2. /\ r \in Calls /\ r.session = k.session /\ r.obj = k.obj
        /\ r.req = k.req /\ r.base = k.base
    BY <1>1, <2>1 DEF Calls, Points, Outcomes
  <2> QED
    BY <1>1, <1>3, <2>1, <2>2, QuietStep, Zenon
<1>10. CASE InvokeReplies(c)
  <2>1. PICK r : /\ r = [k EXCEPT !.evaluated = TRUE, !.outcome = "replied",
                                  !.pc = IF k.op = "turn" THEN "answer" ELSE "restore"]
                 /\ calls' = [calls EXCEPT ![c] = r]
    BY <1>10 DEF InvokeReplies
  <2>2. /\ r \in Calls /\ r.session = k.session /\ r.obj = k.obj
        /\ r.req = k.req /\ r.base = k.base
    BY <1>1, <2>1 DEF Calls, Points, Outcomes
  <2> QED
    BY <1>1, <1>3, <2>1, <2>2, QuietStep, Zenon
<1> QED
  BY <1>4, <1>5, <1>6, <1>7, <1>8, <1>9, <1>10, Zenon

\* A call whose statement counter moves on.
LEMMA Moved ==
  ASSUME IsolationInv, NEW c \in DOMAIN calls, NEW pc \in Points
  PROVE  LET r == [calls[c] EXCEPT !.pc = pc] IN
         /\ r \in Calls /\ r.session = calls[c].session /\ r.obj = calls[c].obj
         /\ Owned(calls, r.req, calls[c].session) /\ Owned(calls, r.base, calls[c].session)
<1>1. /\ calls[c] \in Calls
      /\ Owned(calls, calls[c].req, calls[c].session) /\ Owned(calls, calls[c].base, calls[c].session)
  BY CallOf, Zenon
<1>2. PICK r : r = [calls[c] EXCEPT !.pc = pc]
  OBVIOUS
<1>3. /\ r \in Calls /\ r.session = calls[c].session /\ r.obj = calls[c].obj
      /\ r.req = calls[c].req /\ r.base = calls[c].base
  BY <1>1, <1>2 DEF Calls
<1> QED
  BY <1>1, <1>2, <1>3, Zenon

\* The steps that write one field of the object of the call.
LEMMA ObjectSteps ==
  ASSUME IsolationInv, NEW c \in DOMAIN calls, SetPending(c) \/ Restore(c) \/ Clear(c)
  PROVE  IsolationInv'
<1> DEFINE o == calls[c].obj
<1>1. TypeOK /\ ObjectsOwned /\ CallsOwned /\ StoreOwned
  BY Zenon DEF IsolationInv
<1>2. /\ o \in Numbers /\ o <= Len(calls)
      /\ calls[c].req \in Seq(Messages) /\ Owned(calls, calls[c].req, calls[c].session)
      /\ heap[o].id = calls[c].session
  BY CallOf, Zenon
<1>3. /\ heap \in [Numbers -> Objects] /\ data \in [Sessions -> Numbers \cup {Nil}]
      /\ Len(calls) \in Nat
  BY <1>1, Typed
<1>4. PICK pc \in Points : calls' = [calls EXCEPT ![c] = [calls[c] EXCEPT !.pc = pc]]
  BY DEF SetPending, Restore, Clear, Go, Points
<1>5. data' = data
  BY DEF SetPending, Restore, Clear
<1>6. PICK new \in Objects :
        /\ heap' = [heap EXCEPT ![o] = new]
        /\ new.id = heap[o].id
        /\ new.messages = heap[o].messages \/ new.messages = calls[c].req
        /\ new.pending = heap[o].pending \/ new.pending = calls[c].req \/ new.pending = Nil
  <2>1. heap[o] \in Objects
    BY <1>2, <1>3
  <2>2. CASE SetPending(c)
    <3>1. PICK new : new = [heap[o] EXCEPT !.pending = calls[c].req] /\ heap' = [heap EXCEPT ![o] = new]
      BY <2>2 DEF SetPending
    <3>2. /\ new \in Objects /\ new.id = heap[o].id
          /\ new.messages = heap[o].messages /\ new.pending = calls[c].req
      BY <1>2, <2>1, <3>1 DEF Objects
    <3> QED
      BY <3>1, <3>2, Zenon
  <2>3. CASE Restore(c)
    <3>1. PICK new : new = [heap[o] EXCEPT !.messages = calls[c].req] /\ heap' = [heap EXCEPT ![o] = new]
      BY <2>3 DEF Restore
    <3>2. /\ new \in Objects /\ new.id = heap[o].id
          /\ new.messages = calls[c].req /\ new.pending = heap[o].pending
      BY <1>2, <2>1, <3>1 DEF Objects
    <3> QED
      BY <3>1, <3>2, Zenon
  <2>4. CASE Clear(c)
    <3>1. PICK new : new = [heap[o] EXCEPT !.pending = Nil] /\ heap' = [heap EXCEPT ![o] = new]
      BY <2>4 DEF Clear
    <3>2. /\ new \in Objects /\ new.id = heap[o].id
          /\ new.messages = heap[o].messages /\ new.pending = Nil
      BY <1>2, <2>1, <3>1 DEF Objects
    <3> QED
      BY <3>1, <3>2, Zenon
  <2> QED
    BY <2>2, <2>3, <2>4
<1>7. ASSUME NEW p \in Numbers
      PROVE  /\ heap'[p].id = heap[p].id
             /\ Owned(calls, heap'[p].messages, heap[p].id)
             /\ heap'[p].pending # Nil => Owned(calls, heap'[p].pending, heap[p].id)
             /\ p > Len(calls) => heap'[p].messages = <<>> /\ heap'[p].pending = Nil
  <2>1. /\ Owned(calls, heap[p].messages, heap[p].id)
        /\ heap[p].pending # Nil => Owned(calls, heap[p].pending, heap[p].id)
        /\ p > Len(calls) => heap[p].messages = <<>> /\ heap[p].pending = Nil
    BY <1>1, Zenon DEF ObjectsOwned
  <2>2. CASE p = o
    <3>1. heap'[p] = new
      BY <1>3, <1>6, <2>2
    <3>2. ~(p > Len(calls))
      BY <1>2, <1>3, <2>2 DEF Numbers
    <3> QED
      BY <1>2, <1>6, <2>1, <2>2, <3>1, <3>2, Zenon
  <2>3. CASE p # o
    <3>1. heap'[p] = heap[p]
      BY <1>3, <1>6, <2>3
    <3> QED
      BY <2>1, <3>1, Zenon
  <2> QED
    BY <2>2, <2>3
<1>8. heap' \in [Numbers -> Objects] /\ data' \in [Sessions -> Numbers \cup {Nil}]
  BY <1>3, <1>5, <1>6
<1>9. \A s \in Sessions : data'[s] # Nil => data'[s] <= Len(calls) /\ heap[data'[s]].id = s
  BY <1>1, <1>5, Zenon DEF StoreOwned, Stored
<1>10. PICK r : r = [calls[c] EXCEPT !.pc = pc]
  OBVIOUS
<1>11. /\ r \in Calls /\ r.session = calls[c].session /\ r.obj = calls[c].obj
       /\ Owned(calls, r.req, calls[c].session) /\ Owned(calls, r.base, calls[c].session)
  BY <1>10, Moved, Zenon
<1>12. calls' = [calls EXCEPT ![c] = r]
  BY <1>4, <1>10, Zenon
<1> QED
  BY <1>7, <1>8, <1>9, <1>11, <1>12, CallStep

\* Save stores the object under the session it was made for.
LEMMA SaveStep ==
  ASSUME IsolationInv, NEW c \in DOMAIN calls, Save(c)
  PROVE  IsolationInv'
<1>1. TypeOK /\ ObjectsOwned /\ CallsOwned /\ StoreOwned
  BY Zenon DEF IsolationInv
<1>2. /\ calls[c].obj \in Numbers /\ calls[c].obj <= Len(calls)
      /\ calls[c].session \in Sessions
      /\ Object(c).id = calls[c].session /\ heap[calls[c].obj].id = calls[c].session
  BY CallOf, Zenon
<1>3. heap \in [Numbers -> Objects] /\ data \in [Sessions -> Numbers \cup {Nil}]
  BY <1>1, Typed
<1>4. /\ heap' = heap /\ data' = [data EXCEPT ![calls[c].session] = calls[c].obj]
      /\ calls' = [calls EXCEPT ![c] = [calls[c] EXCEPT !.pc = "done"]]
  BY <1>2 DEF Save, Go
<1>5. PICK r : r = [calls[c] EXCEPT !.pc = "done"]
  OBVIOUS
<1>6. /\ r \in Calls /\ r.session = calls[c].session /\ r.obj = calls[c].obj
      /\ Owned(calls, r.req, calls[c].session) /\ Owned(calls, r.base, calls[c].session)
  <2>1. "done" \in Points
    BY DEF Points
  <2> QED
    BY <1>5, <2>1, Moved, Zenon
<1>7. \A o \in Numbers :
        /\ heap'[o].id = heap[o].id
        /\ Owned(calls, heap'[o].messages, heap[o].id)
        /\ heap'[o].pending # Nil => Owned(calls, heap'[o].pending, heap[o].id)
        /\ o > Len(calls) => heap'[o].messages = <<>> /\ heap'[o].pending = Nil
  BY <1>1, <1>4, Zenon DEF ObjectsOwned
<1>8. ASSUME NEW s \in Sessions, data'[s] # Nil
      PROVE  data'[s] <= Len(calls) /\ heap[data'[s]].id = s
  <2>1. CASE s = calls[c].session
    <3>1. data'[s] = calls[c].obj
      BY <1>2, <1>3, <1>4, <2>1
    <3> QED
      BY <1>2, <2>1, <3>1, Zenon
  <2>2. CASE s # calls[c].session
    <3>1. data'[s] = data[s]
      BY <1>3, <1>4, <2>2
    <3> QED
      BY <1>1, <1>8, <3>1, Zenon DEF StoreOwned, Stored
  <2> QED
    BY <2>1, <2>2
<1>9. heap' \in [Numbers -> Objects] /\ data' \in [Sessions -> Numbers \cup {Nil}]
  BY <1>2, <1>3, <1>4
<1>10. calls' = [calls EXCEPT ![c] = r]
  BY <1>4, <1>5, Zenon
<1> QED
  BY <1>6, <1>7, <1>8, <1>9, <1>10, CallStep
\* Appending a message of a session to messages of it.
LEMMA AppendedOwned ==
  ASSUME NEW made, NEW base \in Seq(Messages), NEW m \in Messages, NEW t, Owned(made, base, t),
         m.of \in DOMAIN made, made[m.of].session = t
  PROVE  Append(base, m) \in Seq(Messages) /\ Owned(made, Append(base, m), t)
<1>1. /\ Append(base, m) \in Seq(Messages) /\ Len(base) \in Nat
      /\ DOMAIN base = 1 .. Len(base) /\ DOMAIN Append(base, m) = 1 .. Len(base) + 1
      /\ \A i \in 1 .. Len(base) : Append(base, m)[i] = base[i]
      /\ Append(base, m)[Len(base) + 1] = m
  BY Appended, ElementOf
<1>2. \A i \in 1 .. Len(base) + 1 : i \in 1 .. Len(base) \/ i = Len(base) + 1
  BY <1>1
<1> QED
  BY <1>1, <1>2 DEF Owned

\* Writing back a longer slice, with all that it overwrites.
LEMMA WriteBackStep ==
  ASSUME IsolationInv, NEW c \in DOMAIN calls, NEW m \in Messages, m.of = c, NEW pc \in Points,
         WriteBack(c, m, pc), data' = data
  PROVE  IsolationInv'
<1>1. TypeOK /\ ObjectsOwned /\ CallsOwned /\ StoreOwned
  BY Zenon DEF IsolationInv
<1>2. /\ Len(calls) \in Nat /\ DOMAIN calls = 1 .. Len(calls) /\ calls \in [1 .. Len(calls) -> Calls]
      /\ Len(calls) <= MaxCalls
      /\ heap \in [Numbers -> Objects] /\ data \in [Sessions -> Numbers \cup {Nil}]
  BY <1>1, Typed
<1> DEFINE base == calls[c].base
<1>4. PICK t : t = calls[c].session
  OBVIOUS
<1>5. /\ base \in Seq(Messages) /\ Owned(calls, base, t)
      /\ calls[c].obj \in Numbers /\ calls[c].obj <= Len(calls) /\ heap[calls[c].obj].id = t
  BY <1>4, CallOf, Zenon
<1> DEFINE Shown(msgs, cap) == Overwritten(msgs, base, cap, m)
           Objs(cap) == [o \in Numbers |->
                           [heap[o] EXCEPT !.messages = Shown(@, cap), !.pending = Shown(@, cap)]]
           Others(cap) == [d \in DOMAIN calls |->
                             [calls[d] EXCEPT !.req = Shown(@, cap), !.base = Shown(@, cap)]]
<1>6. PICK cap \in Len(base) .. IF base = <<>> THEN 0 ELSE 2 * MaxCalls :
        /\ heap' = [Objs(cap) EXCEPT ![calls[c].obj].messages = Append(base, m)]
        /\ calls' = [Others(cap) EXCEPT ![c].pc = pc, ![c].base = <<>>]
  BY Zenon DEF WriteBack
<1> HIDE DEF base
<1>7. cap \in Nat /\ (base = <<>> => cap = 0)
  <2>1. MaxCalls \in Nat /\ Len(base) \in Nat /\ (base = <<>> => Len(base) = 0)
    BY <1>5, SessionAssumption, ElementOf
  <2>2. CASE base = <<>>
    <3>1. cap \in 0 .. 0
      BY <1>6, <2>1, <2>2
    <3> QED
      BY <3>1
  <2>3. CASE base # <<>>
    <3>1. cap \in Len(base) .. 2 * MaxCalls
      BY <1>6, <2>3, Zenon
    <3> QED
      BY <2>1, <2>3, <3>1
  <2> QED
    BY <2>2, <2>3
<1>8. PICK made : made = calls
  OBVIOUS
<1>9. m.of \in DOMAIN made /\ made[m.of].session = t /\ Owned(made, base, t)
  BY <1>4, <1>5, <1>8
<1>10. /\ Shown(Nil, cap) = Nil /\ Shown(<<>>, cap) = <<>>
       /\ \A msgs \in Seq(Messages) :
            /\ Shown(msgs, cap) \in Seq(Messages)
            /\ \A s : Owned(calls, msgs, s) => Owned(calls, Shown(msgs, cap), s)
  <2>1. /\ Overwritten(Nil, base, cap, m) = Nil /\ Overwritten(<<>>, base, cap, m) = <<>>
        /\ \A msgs \in Seq(Messages) :
             /\ Overwritten(msgs, base, cap, m) \in Seq(Messages)
             /\ \A s : Owned(made, msgs, s) => Owned(made, Overwritten(msgs, base, cap, m), s)
    BY <1>5, <1>7, <1>9, OverwrittenOwned
  <2> QED
    BY <1>8, <2>1, Zenon
<1>11. Append(base, m) \in Seq(Messages) /\ Owned(calls, Append(base, m), t)
  <2>1. Append(base, m) \in Seq(Messages) /\ Owned(made, Append(base, m), t)
    BY <1>5, <1>9, AppendedOwned
  <2> QED
    BY <1>8, <2>1, Zenon
<1> HIDE DEF Shown
<1>12. ASSUME NEW o \in Numbers
       PROVE  /\ Objs(cap)[o].id = heap[o].id
              /\ Objs(cap)[o].messages = Shown(heap[o].messages, cap)
              /\ Objs(cap)[o].pending = Shown(heap[o].pending, cap)
              /\ Objs(cap)[o] \in Objects
  <2>1. heap[o] \in Objects
    BY <1>2
  <2>2. heap[o].messages \in Seq(Messages) /\ heap[o].pending \in Seq(Messages) \cup {Nil}
    BY <2>1 DEF Objects
  <2>3. Shown(heap[o].messages, cap) \in Seq(Messages) /\ Shown(heap[o].pending, cap) \in Seq(Messages) \cup {Nil}
    BY <1>10, <2>2
  <2>4. Objs(cap)[o] = [heap[o] EXCEPT !.messages = Shown(heap[o].messages, cap), !.pending = Shown(heap[o].pending, cap)]
    OBVIOUS
  <2> HIDE DEF Objs
  <2> QED
    BY <2>1, <2>3, <2>4 DEF Objects
<1>13. ASSUME NEW d \in DOMAIN calls
       PROVE  /\ Others(cap)[d] \in Calls
              /\ Others(cap)[d].session = calls[d].session /\ Others(cap)[d].obj = calls[d].obj
              /\ Others(cap)[d].req = Shown(calls[d].req, cap)
              /\ Others(cap)[d].base = Shown(calls[d].base, cap)
  <2>1. calls[d] \in Calls
    BY <1>2
  <2>2. calls[d].req \in Seq(Messages) /\ calls[d].base \in Seq(Messages)
    BY <2>1 DEF Calls
  <2>3. Shown(calls[d].req, cap) \in Seq(Messages) /\ Shown(calls[d].base, cap) \in Seq(Messages)
    BY <1>10, <2>2
  <2>4. Others(cap)[d] = [calls[d] EXCEPT !.req = Shown(calls[d].req, cap), !.base = Shown(calls[d].base, cap)]
    OBVIOUS
  <2> HIDE DEF Others
  <2> QED
    BY <2>1, <2>3, <2>4 DEF Calls
<1>14. Objs(cap) \in [Numbers -> Objects] /\ Others(cap) \in [1 .. Len(calls) -> Calls]
  <2>1. DOMAIN Objs(cap) = Numbers /\ Objs(cap) = [o \in Numbers |-> Objs(cap)[o]]
    OBVIOUS
  <2>2. DOMAIN Others(cap) = DOMAIN calls /\ Others(cap) = [d \in DOMAIN calls |-> Others(cap)[d]]
    OBVIOUS
  <2> HIDE DEF Objs, Others
  <2> QED
    BY <1>2, <1>12, <1>13, <2>1, <2>2
<1> HIDE DEF Objs, Others
<1>15. ASSUME NEW o \in Numbers
       PROVE  /\ heap'[o] \in Objects /\ heap'[o].id = heap[o].id
              /\ Owned(calls, heap'[o].messages, heap[o].id)
              /\ heap'[o].pending # Nil => Owned(calls, heap'[o].pending, heap[o].id)
              /\ o > Len(calls) => heap'[o].messages = <<>> /\ heap'[o].pending = Nil
  <2>1. /\ Owned(calls, heap[o].messages, heap[o].id)
        /\ heap[o].pending # Nil => Owned(calls, heap[o].pending, heap[o].id)
        /\ o > Len(calls) => heap[o].messages = <<>> /\ heap[o].pending = Nil
    BY <1>1, Zenon DEF ObjectsOwned
  <2>2. heap[o].messages \in Seq(Messages) /\ heap[o].pending \in Seq(Messages) \cup {Nil}
    BY <1>2 DEF Objects
  <2>3. /\ Owned(calls, Shown(heap[o].messages, cap), heap[o].id)
        /\ Shown(heap[o].pending, cap) # Nil => Owned(calls, Shown(heap[o].pending, cap), heap[o].id)
        /\ o > Len(calls) => Shown(heap[o].messages, cap) = <<>> /\ Shown(heap[o].pending, cap) = Nil
    <3>1. CASE heap[o].pending = Nil
      BY <1>10, <2>1, <2>2, <3>1, Zenon
    <3>2. CASE heap[o].pending # Nil
      <4>1. heap[o].pending \in Seq(Messages)
        BY <2>2, <3>2
      <4> QED
        BY <1>10, <2>1, <2>2, <3>2, <4>1, Zenon
    <3> QED
      BY <3>1, <3>2
  <2>4. CASE o = calls[c].obj
    <3>1. heap'[o] = [Objs(cap)[o] EXCEPT !.messages = Append(base, m)]
      BY <1>6, <1>14, <2>4
    <3>2. /\ heap'[o] \in Objects /\ heap'[o].id = heap[o].id
          /\ heap'[o].messages = Append(base, m) /\ heap'[o].pending = Shown(heap[o].pending, cap)
      <4>1. /\ Objs(cap)[o] \in Objects /\ Objs(cap)[o].id = heap[o].id
            /\ Objs(cap)[o].pending = Shown(heap[o].pending, cap)
        BY <1>12, Zenon
      <4> QED
        BY <1>11, <3>1, <4>1 DEF Objects
    <3>3. ~(o > Len(calls)) /\ heap[o].id = t
      BY <1>2, <1>5, <2>4 DEF Numbers
    <3> QED
      BY <1>11, <2>3, <3>2, <3>3, Zenon
  <2>5. CASE o # calls[c].obj
    <3>1. heap'[o] = Objs(cap)[o]
      BY <1>6, <1>14, <2>5
    <3> QED
      BY <1>12, <2>3, <3>1, Zenon
  <2> QED
    BY <2>4, <2>5
<1>16. ASSUME NEW d \in DOMAIN calls
       PROVE  /\ calls'[d] \in Calls
              /\ calls'[d].session = calls[d].session /\ calls'[d].obj = calls[d].obj
              /\ Owned(calls, calls'[d].req, calls[d].session)
              /\ Owned(calls, calls'[d].base, calls[d].session)
  <2>1. /\ calls[d].req \in Seq(Messages) /\ calls[d].base \in Seq(Messages)
        /\ Owned(calls, calls[d].req, calls[d].session)
        /\ Owned(calls, calls[d].base, calls[d].session)
    BY CallOf, Zenon
  <2>2. /\ Owned(calls, Shown(calls[d].req, cap), calls[d].session)
        /\ Owned(calls, Shown(calls[d].base, cap), calls[d].session)
    BY <1>10, <2>1, Zenon
  <2>3. /\ Others(cap)[d] \in Calls
        /\ Others(cap)[d].session = calls[d].session /\ Others(cap)[d].obj = calls[d].obj
        /\ Others(cap)[d].req = Shown(calls[d].req, cap)
        /\ Others(cap)[d].base = Shown(calls[d].base, cap)
    BY <1>13, Zenon
  <2>4. CASE d = c
    <3>1. calls'[d] = [Others(cap)[d] EXCEPT !.pc = pc, !.base = <<>>]
      BY <1>2, <1>6, <1>14, <2>4
    <3>2. /\ calls'[d] \in Calls
          /\ calls'[d].session = calls[d].session /\ calls'[d].obj = calls[d].obj
          /\ calls'[d].req = Shown(calls[d].req, cap) /\ calls'[d].base = <<>>
      <4>1. <<>> \in Seq(Messages)
        OBVIOUS
      <4>2. PICK k \in Calls : k = Others(cap)[d]
        BY <2>3
      <4>3. /\ [k EXCEPT !.pc = pc, !.base = <<>>] \in Calls
            /\ [k EXCEPT !.pc = pc, !.base = <<>>].session = k.session
            /\ [k EXCEPT !.pc = pc, !.base = <<>>].obj = k.obj
            /\ [k EXCEPT !.pc = pc, !.base = <<>>].req = k.req
            /\ [k EXCEPT !.pc = pc, !.base = <<>>].base = <<>>
        BY <4>1 DEF Calls
      <4> QED
        BY <2>3, <3>1, <4>2, <4>3, Zenon
    <3>3. Owned(calls, <<>>, calls[d].session)
      <4>1. DOMAIN <<>> = {}
        OBVIOUS
      <4> QED
        BY <4>1 DEF Owned
    <3> QED
      BY <2>2, <3>2, <3>3, Zenon
  <2>5. CASE d # c
    <3>1. calls'[d] = Others(cap)[d]
      BY <1>2, <1>6, <1>14, <2>5
    <3> QED
      BY <2>2, <2>3, <3>1, Zenon
  <2> QED
    BY <2>4, <2>5
<1>17. /\ DOMAIN heap' = Numbers /\ heap' = [o \in Numbers |-> heap'[o]]
       /\ calls' = [d \in 1 .. Len(calls) |-> calls'[d]]
  BY <1>6, <1>14
<1>18. heap' \in [Numbers -> Objects] /\ calls' \in [1 .. Len(calls) -> Calls]
  BY <1>2, <1>15, <1>16, <1>17
<1>19. calls' \in Seq(Calls) /\ Len(calls') = Len(calls)
  BY <1>2, <1>18, FunctionIsSequence
<1>20. TypeOK'
  BY <1>2, <1>18, <1>19 DEF TypeOK
<1>21. \A s \in Sessions : data'[s] # Nil => data'[s] <= Len(calls) /\ heap[data'[s]].id = s
  BY <1>1, Zenon DEF StoreOwned, Stored
<1> QED
  BY <1>15, <1>16, <1>19, <1>20, <1>21, StepOwned
\* A new call loads the object of its session, or makes one that nobody has.
LEMMA StartStep ==
  ASSUME IsolationInv, NEW s \in Sessions, NEW op \in Ops, NEW sensitive \in BOOLEAN,
         Start(s, op, sensitive)
  PROVE  IsolationInv'
<1>1. TypeOK /\ ObjectsOwned /\ CallsOwned /\ StoreOwned
  BY Zenon DEF IsolationInv
<1>2. /\ Len(calls) \in Nat /\ DOMAIN calls = 1 .. Len(calls) /\ calls \in [1 .. Len(calls) -> Calls]
      /\ heap \in [Numbers -> Objects] /\ data \in [Sessions -> Numbers \cup {Nil}]
  BY <1>1, Typed
<1>3. calls \in Seq(Calls) /\ MaxCalls \in Nat
  BY <1>1, SessionAssumption, Zenon DEF TypeOK
<1>4. PICK c \in Nat : c = Len(calls) + 1
  BY <1>2
<1>5. PICK o : o = Load(s, c)
  OBVIOUS
<1>6. PICK k : k = [op |-> op, session |-> s, sensitive |-> sensitive, pc |-> "check",
                    obj |-> o, base |-> <<>>, req |-> <<>>, evaluated |-> FALSE,
                    outcome |-> "running"]
  OBVIOUS
<1>7. /\ c <= MaxCalls /\ calls' = Append(calls, k)
      /\ heap' = (IF o = c THEN [heap EXCEPT ![c].id = s] ELSE heap)
      /\ data' = data
  BY <1>4, <1>5, <1>6, Zenon DEF Start
<1>8. /\ c \in Numbers /\ o \in Numbers /\ o <= c
      /\ o # c => heap[o].id = s
  <2>1. c \in Numbers
    BY <1>2, <1>3, <1>4, <1>7 DEF Numbers
  <2>2. CASE data[s] = Nil
    BY <1>4, <1>5, <2>1, <2>2 DEF Load
  <2>3. CASE data[s] # Nil
    <3>1. o = data[s] /\ o \in Numbers
      BY <1>2, <1>5, <2>3 DEF Load
    <3>2. o <= Len(calls) /\ heap[o].id = s
      BY <1>1, <2>3, <3>1, Zenon DEF StoreOwned, Stored
    <3>3. o \in Nat
      BY <3>1 DEF Numbers
    <3> QED
      BY <1>2, <1>4, <2>1, <3>1, <3>2, <3>3
  <2> QED
    BY <2>2, <2>3
<1>9. k \in Calls /\ k.session = s /\ k.obj = o /\ k.req = <<>> /\ k.base = <<>>
  <2>1. <<>> \in Seq(Messages) /\ "check" \in Points /\ "running" \in Outcomes
    BY DEF Points, Outcomes
  <2> QED
    BY <1>6, <1>8, <2>1 DEF Calls
<1>10. /\ calls' \in Seq(Calls) /\ Len(calls') = c
       /\ DOMAIN calls' = 1 .. c
       /\ \A d \in DOMAIN calls : calls'[d] = calls[d]
       /\ calls'[c] = k
  BY <1>2, <1>3, <1>4, <1>7, <1>9, Appended
<1>11. /\ heap' \in [Numbers -> Objects] /\ heap'[o].id = s
       /\ \A p \in Numbers : p # c => heap'[p] = heap[p]
       /\ heap'[c].messages = heap[c].messages /\ heap'[c].pending = heap[c].pending
  <2>1. PICK new : new = [heap[c] EXCEPT !.id = s]
    OBVIOUS
  <2>2. new \in Objects /\ new.id = s /\ new.messages = heap[c].messages /\ new.pending = heap[c].pending
    BY <1>2, <1>8, <2>1 DEF Objects
  <2>3. CASE o = c
    <3>1. heap' = [heap EXCEPT ![c] = new]
      BY <1>7, <2>1, <2>3
    <3> QED
      BY <1>2, <1>8, <2>2, <2>3, <3>1
  <2>4. CASE o # c
    <3>1. heap' = heap
      BY <1>7, <2>4
    <3> QED
      BY <1>2, <1>8, <2>4, <3>1
  <2> QED
    BY <2>3, <2>4
<1>12. TypeOK'
  BY <1>2, <1>7, <1>10, <1>11 DEF TypeOK
<1>13. PICK made, later : made = calls /\ later = calls'
  OBVIOUS
<1>14. \A msgs, t : Owned(calls, msgs, t) => Owned(calls', msgs, t)
  <2>1. DOMAIN made \subseteq DOMAIN later /\ \A d \in DOMAIN made : later[d].session = made[d].session
    BY <1>2, <1>4, <1>10, <1>13
  <2>2. \A msgs, t : Owned(made, msgs, t) => Owned(later, msgs, t)
    BY <2>1, OwnedLater
  <2> QED
    BY <1>13, <2>2, Zenon
<1>15. \A t : Owned(calls', <<>>, t)
  <2>1. DOMAIN <<>> = {}
    OBVIOUS
  <2> QED
    BY <2>1 DEF Owned
<1>16. ObjectsOwned'
  <2> SUFFICES ASSUME NEW p \in Numbers
               PROVE  /\ Owned(calls', heap'[p].messages, heap'[p].id)
                      /\ heap'[p].pending # Nil => Owned(calls', heap'[p].pending, heap'[p].id)
                      /\ p > Len(calls') => heap'[p].messages = <<>> /\ heap'[p].pending = Nil
    BY Zenon DEF ObjectsOwned
  <2>1. /\ Owned(calls, heap[p].messages, heap[p].id)
        /\ heap[p].pending # Nil => Owned(calls, heap[p].pending, heap[p].id)
        /\ p > Len(calls) => heap[p].messages = <<>> /\ heap[p].pending = Nil
    BY <1>1, Zenon DEF ObjectsOwned
  <2>2. CASE p = c
    <3>1. heap'[p].messages = <<>> /\ heap'[p].pending = Nil
      <4>1. p > Len(calls)
        BY <1>2, <1>4, <2>2
      <4> QED
        BY <1>11, <2>1, <2>2, <4>1, Zenon
    <3> QED
      BY <1>15, <3>1, Zenon
  <2>3. CASE p # c
    <3>1. heap'[p] = heap[p]
      BY <1>11, <2>3
    <3>2. p > Len(calls') => p > Len(calls)
      BY <1>2, <1>4, <1>10 DEF Numbers
    <3> QED
      BY <1>14, <2>1, <3>1, <3>2, Zenon
  <2> QED
    BY <2>2, <2>3
<1>17. CallsOwned'
  <2> SUFFICES ASSUME NEW d \in DOMAIN calls'
               PROVE  /\ calls'[d].obj <= d /\ heap'[calls'[d].obj].id = calls'[d].session
                      /\ Owned(calls', calls'[d].req, calls'[d].session)
                      /\ Owned(calls', calls'[d].base, calls'[d].session)
    BY Zenon DEF CallsOwned
  <2>1. CASE d = c
    BY <1>8, <1>9, <1>10, <1>11, <1>15, <2>1, Zenon
  <2>2. CASE d # c
    <3>1. d \in DOMAIN calls /\ d < c
      BY <1>2, <1>4, <1>10, <2>2
    <3>2. /\ calls[d].obj \in Numbers /\ calls[d].obj <= d /\ heap[calls[d].obj].id = calls[d].session
          /\ Owned(calls, calls[d].req, calls[d].session) /\ Owned(calls, calls[d].base, calls[d].session)
      BY <3>1, CallOf, Zenon
    <3>3. calls[d].obj # c
      BY <1>2, <3>1, <3>2 DEF Numbers
    <3>4. heap'[calls[d].obj] = heap[calls[d].obj] /\ calls'[d] = calls[d]
      BY <1>10, <1>11, <3>1, <3>2, <3>3
    <3> QED
      BY <1>14, <3>2, <3>4, Zenon
  <2> QED
    BY <2>1, <2>2
<1>18. StoreOwned'
  <2> SUFFICES ASSUME NEW t \in Sessions, data'[t] # Nil
               PROVE  data'[t] <= Len(calls') /\ heap'[data'[t]].id = t
    BY Zenon DEF StoreOwned, Stored
  <2>1. data'[t] = data[t] /\ data[t] # Nil
    BY <1>7
  <2>2. data[t] <= Len(calls) /\ heap[data[t]].id = t
    BY <1>1, <2>1, Zenon DEF StoreOwned, Stored
  <2>3. data[t] \in Numbers /\ data[t] \in Nat
    BY <1>2, <2>1 DEF Numbers
  <2>4. data[t] # c /\ data[t] <= c
    BY <1>2, <1>4, <2>2, <2>3
  <2> QED
    BY <1>10, <1>11, <2>1, <2>2, <2>3, <2>4
<1> QED
  BY <1>12, <1>16, <1>17, <1>18, Zenon DEF IsolationInv

\* Every step keeps the invariant.
LEMMA NextIsolationInv ==
  ASSUME IsolationInv, [Next]_vars
  PROVE  IsolationInv'
<1>1. ASSUME NEW s \in Sessions, NEW sensitive \in BOOLEAN, Start(s, "turn", sensitive)
      PROVE  IsolationInv'
  <2>1. "turn" \in Ops
    BY DEF Ops
  <2> QED
    BY <1>1, <2>1, StartStep
<1>2. ASSUME NEW s \in Sessions, NEW op \in {"approve", "deny"}, Start(s, op, FALSE)
      PROVE  IsolationInv'
  <2>1. op \in Ops /\ FALSE \in BOOLEAN
    BY DEF Ops
  <2> QED
    BY <1>2, <2>1, StartStep
<1>3. ASSUME NEW c \in Active, Step(c)
      PROVE  IsolationInv'
  <2>1. c \in DOMAIN calls
    BY DEF Active
  <2>2. c \in Numbers
    <3>1. TypeOK
      BY Zenon DEF IsolationInv
    <3> QED
      BY <2>1, <3>1, Typed
  <2>3. CASE AppendUser(c)
    <3>1. User(c) \in Messages /\ User(c).of = c /\ "request" \in Points
      BY <2>2 DEF User, Messages, Points
    <3>2. WriteBack(c, User(c), "request") /\ data' = data
      BY <2>3, Zenon DEF AppendUser
    <3> QED
      BY <2>1, <3>1, <3>2, WriteBackStep, Zenon
  <2>4. CASE AppendReply(c)
    <3>1. PICK pc \in Points : WriteBack(c, Reply(c), pc)
      BY <2>4 DEF AppendReply, Points
    <3>2. Reply(c) \in Messages /\ Reply(c).of = c
      BY <2>2 DEF Reply, Messages
    <3>3. data' = data
      BY <2>4, Zenon DEF AppendReply
    <3> QED
      BY <2>1, <3>1, <3>2, <3>3, WriteBackStep, Zenon
  <2> QED
    BY <1>3, <2>1, <2>3, <2>4, QuietSteps, ObjectSteps, SaveStep, Zenon
       DEF Step, Turn, Resume, Shared
<1>4. ASSUME UNCHANGED vars
      PROVE  IsolationInv'
  <2>1. calls' = calls /\ heap' = heap /\ data' = data
    BY <1>4, Zenon DEF vars
  <2> QED
    BY <2>1, Zenon DEF IsolationInv, TypeOK, ObjectsOwned, CallsOwned, StoreOwned, Stored
<1> QED
  BY <1>1, <1>2, <1>3, <1>4, Zenon DEF Next

\* Every slice of every object, call and snapshot belongs to one session.
THEOREM IsolationInvariant == Spec => []IsolationInv
BY InitIsolationInv, NextIsolationInv, PTL DEF Spec

\* The App keeps to its types.
THEOREM TypeCorrect == Spec => []TypeOK
<1>1. IsolationInv => TypeOK
  BY Zenon DEF IsolationInv
<1> QED
  BY <1>1, IsolationInvariant, PTL

\* However calls overlap, nothing of one session gets into another.
THEOREM SessionsAreIsolated == Spec => []SessionsIsolated
<1>1. ASSUME IsolationInv PROVE SessionsIsolated
  <2>1. TypeOK /\ ObjectsOwned /\ CallsOwned /\ StoreOwned
    BY <1>1, Zenon DEF IsolationInv
  <2>2. data \in [Sessions -> Numbers \cup {Nil}]
    BY <2>1, Typed
  <2>3. \A msgs, s : Owned(calls, msgs, s) => \A m \in Range(msgs) : calls[m.of].session = s
    BY DEF Owned, Range
  <2>4. ASSUME NEW s \in Sessions, Stored(s)
        PROVE  /\ heap[data[s]].id = s
               /\ \A m \in Range(History(s)) : calls[m.of].session = s
               /\ Paused(s) => \A m \in Range(heap[data[s]].pending) : calls[m.of].session = s
    <3>1. data[s] \in Numbers
      BY <2>2, <2>4 DEF Stored
    <3>2. heap[data[s]].id = s
      BY <2>1, <2>4, Zenon DEF StoreOwned
    <3>3. /\ Owned(calls, heap[data[s]].messages, s)
          /\ heap[data[s]].pending # Nil => Owned(calls, heap[data[s]].pending, s)
      BY <2>1, <3>1, <3>2, Zenon DEF ObjectsOwned
    <3>4. History(s) = heap[data[s]].messages
      BY <2>4, Zenon DEF History
    <3> QED
      BY <2>3, <3>2, <3>3, <3>4, Zenon DEF Paused
  <2>5. ASSUME NEW c \in DOMAIN calls
        PROVE  \A m \in Range(calls[c].req) : calls[m.of].session = calls[c].session
    BY <2>1, <2>3, Zenon DEF CallsOwned
  <2> QED
    BY <2>4, <2>5, Zenon DEF SessionsIsolated
<1> QED
  BY <1>1, IsolationInvariant, PTL

-----------------------------------------------------------------------------
(* No message twice *)

\* A call whose input may be in a slice, and one whose reply may be.
PastInput(pc) == pc \notin {"check", "append", "write"}
PastReply(pc) == pc \in {"clear", "save", "done"}

\* No call goes back to where it has not written its messages yet.
Onward(from, to) ==
  (PastInput(from) => PastInput(to)) /\ (PastReply(from) => PastReply(to))

\* What is said stays said.
LEMMA SaidLater ==
  ASSUME NEW made, NEW later, DOMAIN made \subseteq DOMAIN later,
         \A d \in DOMAIN made : Onward(made[d].pc, later[d].pc)
  PROVE  /\ \A m : Said(made, m) => Said(later, m)
         /\ \A msgs : Single(made, msgs) => Single(later, msgs)
<1>1. ASSUME NEW m, Said(made, m) PROVE Said(later, m)
  <2>1. Onward(made[m.of].pc, later[m.of].pc) /\ m.of \in DOMAIN later
    BY <1>1, Zenon DEF Said
  <2> QED
    BY <1>1, <2>1 DEF Said, Onward, PastInput, PastReply
<1> QED
  BY <1>1, Zenon DEF Single

\* An append writes a message that is nowhere yet, so what it overwrites has no
\* message twice either.
LEMMA OverwrittenSingle ==
  ASSUME NEW made, NEW later, NEW base \in Seq(Messages), NEW cap, NEW m \in Messages,
         ~Said(made, m), Said(later, m), \A x : Said(made, x) => Said(later, x),
         NEW msgs \in Seq(Messages), Single(made, msgs)
  PROVE  Single(later, Overwritten(msgs, base, cap, m))
<1>1. CASE msgs # Nil /\ Len(msgs) \in Len(base) + 1 .. cap /\ IsPrefix(base, msgs)
  <2>1. Len(base) \in Nat /\ Len(msgs) \in Nat /\ msgs \in [1 .. Len(msgs) -> Messages]
    BY ElementOf
  <2>2. PICK j : j = Len(base) + 1
    OBVIOUS
  <2>3. PICK new : new = [msgs EXCEPT ![j] = m]
    OBVIOUS
  <2>4. /\ DOMAIN new = DOMAIN msgs
        /\ \A i \in DOMAIN msgs : new[i] = IF i = j THEN m ELSE msgs[i]
    BY <2>1, <2>3
  <2>5. \A i \in DOMAIN msgs : Said(made, msgs[i]) /\ msgs[i] # m
    BY Zenon DEF Single
  <2>6. \A i \in DOMAIN new : Said(later, new[i])
    BY <2>4, <2>5
  <2>7. IsInjective(new)
    BY <2>4, <2>5 DEF Single, IsInjective
  <2>8. Overwritten(msgs, base, cap, m) = new
    BY <1>1, <2>2, <2>3 DEF Overwritten
  <2> QED
    BY <2>6, <2>7, <2>8, Zenon DEF Single
<1>2. CASE ~(msgs # Nil /\ Len(msgs) \in Len(base) + 1 .. cap /\ IsPrefix(base, msgs))
  <2>1. Overwritten(msgs, base, cap, m) = msgs
    BY <1>2, Zenon DEF Overwritten
  <2> QED
    BY <2>1, Zenon DEF Single
<1> QED
  BY <1>1, <1>2, Zenon

\* The same for the longer slice.
LEMMA AppendedSingle ==
  ASSUME NEW made, NEW later, NEW base \in Seq(Messages), NEW m \in Messages,
         ~Said(made, m), Said(later, m), \A x : Said(made, x) => Said(later, x),
         Single(made, base)
  PROVE  Single(later, Append(base, m))
<1>1. /\ Len(base) \in Nat /\ DOMAIN base = 1 .. Len(base)
      /\ DOMAIN Append(base, m) = 1 .. Len(base) + 1
      /\ \A i \in 1 .. Len(base) : Append(base, m)[i] = base[i]
      /\ Append(base, m)[Len(base) + 1] = m
  BY Appended, ElementOf
<1>2. PICK new : new = Append(base, m)
  OBVIOUS
<1>3. /\ DOMAIN new = 1 .. Len(base) + 1
      /\ \A i \in DOMAIN new : \/ i \in DOMAIN base /\ new[i] = base[i]
                               \/ i = Len(base) + 1 /\ i \notin DOMAIN base /\ new[i] = m
  BY <1>1, <1>2
<1>4. \A i \in DOMAIN base : Said(made, base[i]) /\ base[i] # m
  BY Zenon DEF Single
<1>5. \A i \in DOMAIN new : Said(later, new[i])
  BY <1>3, <1>4
<1>6. IsInjective(new)
  BY <1>3, <1>4 DEF Single, IsInjective
<1> QED
  BY <1>2, <1>5, <1>6, Zenon DEF Single

\* Nothing is in an empty slice.
LEMMA EmptySingle == \A made : Single(made, <<>>)
<1>1. DOMAIN <<>> = {}
  OBVIOUS
<1> QED
  BY <1>1 DEF Single, IsInjective

\* A step that moves slices around and writes no message.
LEMMA PlainOnce ==
  ASSUME IsolationInv, OnceInv, NEW c \in DOMAIN calls, NEW r,
         calls' = [calls EXCEPT ![c] = r], Onward(calls[c].pc, r.pc),
         Single(calls, r.req), Single(calls, r.base),
         \A o \in Numbers : /\ Single(calls, heap'[o].messages)
                            /\ heap'[o].pending # Nil => Single(calls, heap'[o].pending)
  PROVE  OnceInv'
<1>1. TypeOK
  BY Zenon DEF IsolationInv
<1>2. calls \in [1 .. Len(calls) -> Calls] /\ DOMAIN calls = 1 .. Len(calls)
  BY <1>1, Typed
<1>3. /\ DOMAIN calls' = DOMAIN calls /\ calls'[c] = r
      /\ \A d \in DOMAIN calls : d # c => calls'[d] = calls[d]
  BY <1>2
<1>4. \A d \in DOMAIN calls : Onward(calls[d].pc, calls'[d].pc)
  <2>1. \A pc : Onward(pc, pc)
    BY DEF Onward
  <2> QED
    BY <1>3, <2>1, Zenon
<1>5. PICK made, later : made = calls /\ later = calls'
  OBVIOUS
<1>6. \A msgs : Single(made, msgs) => Single(later, msgs)
  <2>1. DOMAIN made \subseteq DOMAIN later /\ \A d \in DOMAIN made : Onward(made[d].pc, later[d].pc)
    BY <1>3, <1>4, <1>5
  <2> QED
    BY <2>1, SaidLater
<1>7. \A msgs : Single(calls, msgs) => Single(calls', msgs)
  BY <1>5, <1>6, Zenon
<1>8. ASSUME NEW d \in DOMAIN calls'
      PROVE  Single(calls', calls'[d].req) /\ Single(calls', calls'[d].base)
  <2>1. CASE d = c
    BY <1>3, <1>7, <2>1, Zenon
  <2>2. CASE d # c
    <3>1. Single(calls, calls[d].req) /\ Single(calls, calls[d].base)
      BY <1>3, Zenon DEF OnceInv
    <3> QED
      BY <1>3, <1>7, <2>2, <3>1, Zenon
  <2> QED
    BY <2>1, <2>2
<1> QED
  BY <1>7, <1>8, Zenon DEF OnceInv

\* What a call has to hand.
LEMMA SinglesOf ==
  ASSUME IsolationInv, OnceInv, NEW c \in DOMAIN calls
  PROVE  /\ Single(calls, calls[c].req) /\ Single(calls, calls[c].base)
         /\ Single(calls, Object(c).messages)
         /\ Object(c).pending # Nil => Single(calls, Object(c).pending)
<1>1. calls[c].obj \in Numbers /\ Object(c) = heap[calls[c].obj]
  BY CallOf, Zenon
<1> QED
  BY <1>1, Zenon DEF OnceInv

\* The steps that leave the objects alone.
LEMMA QuietOnce ==
  ASSUME IsolationInv, OnceInv, NEW c \in DOMAIN calls,
         CheckTurn(c) \/ CheckResume(c) \/ ReadHeader(c) \/ Request(c) \/ Save(c)
         \/ InvokeFails(c) \/ InvokePauses(c) \/ InvokeReplies(c)
  PROVE  OnceInv'
<1> DEFINE k == calls[c]
<1>1. k \in Calls
  BY CallOf, Zenon
<1>2. heap' = heap
  <2>1. CASE Save(c)
    BY <2>1 DEF Save
  <2>2. CASE ~Save(c)
    BY <2>2 DEF CheckTurn, CheckResume, ReadHeader, Request, InvokeFails, InvokePauses, InvokeReplies
  <2> QED
    BY <2>1, <2>2
<1>3. PICK r :
        /\ calls' = [calls EXCEPT ![c] = r] /\ Onward(k.pc, r.pc)
        /\ \/ r.req = k.req \/ r.req = Object(c).messages
           \/ Object(c).pending # Nil /\ r.req = Object(c).pending
        /\ r.base = k.base \/ r.base = Object(c).messages
  <2>1. CASE CheckTurn(c)
    <3>1. PICK r \in {[k EXCEPT !.pc = "append"], [k EXCEPT !.pc = "done", !.outcome = "refused"]} :
            calls' = [calls EXCEPT ![c] = r]
      BY <2>1 DEF CheckTurn, Go, Refuse
    <3>2. k.pc = "check"
      BY <2>1 DEF CheckTurn
    <3>3. r.req = k.req /\ r.base = k.base /\ Onward(k.pc, r.pc)
      BY <1>1, <3>1, <3>2 DEF Calls, Onward, PastInput, PastReply
    <3> QED
      BY <3>1, <3>3, Zenon
  <2>2. CASE CheckResume(c)
    <3>1. PICK r : /\ calls' = [calls EXCEPT ![c] = r]
                   /\ \/ r = [k EXCEPT !.pc = "done", !.outcome = "refused"]
                      \/ /\ Object(c).pending # Nil
                         /\ r = [k EXCEPT !.pc = IF k.op = "deny" THEN "deny" ELSE "invoke",
                                          !.req = Object(c).pending,
                                          !.outcome = IF k.op = "deny" THEN "denied" ELSE @]
      BY <2>2 DEF CheckResume, Refuse
    <3>2. k.pc = "check"
      BY <2>2 DEF CheckResume
    <3>3. /\ r.req = k.req \/ (Object(c).pending # Nil /\ r.req = Object(c).pending)
          /\ r.base = k.base /\ Onward(k.pc, r.pc)
      BY <1>1, <3>1, <3>2 DEF Calls, Onward, PastInput, PastReply
    <3> QED
      BY <3>1, <3>3, Zenon
  <2>3. CASE ReadHeader(c)
    <3>1. PICK r : /\ calls' = [calls EXCEPT ![c] = r]
                   /\ r = [k EXCEPT !.base = Object(c).messages,
                                    !.pc = IF k.pc = "append" THEN "write" ELSE "record"]
      BY <2>3 DEF ReadHeader
    <3>2. k.pc \in {"append", "answer"}
      BY <2>3 DEF ReadHeader
    <3>3. r.req = k.req /\ r.base = Object(c).messages /\ Onward(k.pc, r.pc)
      BY <1>1, <3>1, <3>2 DEF Calls, Onward, PastInput, PastReply
    <3> QED
      BY <3>1, <3>3, Zenon
  <2>4. CASE Request(c)
    <3>1. PICK r : /\ r = [k EXCEPT !.req = Object(c).messages, !.pc = "invoke"]
                   /\ calls' = [calls EXCEPT ![c] = r]
      BY <2>4 DEF Request
    <3>2. k.pc = "request"
      BY <2>4 DEF Request
    <3>3. r.req = Object(c).messages /\ r.base = k.base /\ Onward(k.pc, r.pc)
      BY <1>1, <3>1, <3>2 DEF Calls, Onward, PastInput, PastReply
    <3> QED
      BY <3>1, <3>3, Zenon
  <2>5. CASE Save(c)
    <3>1. PICK r : r = [k EXCEPT !.pc = "done"] /\ calls' = [calls EXCEPT ![c] = r]
      BY <2>5 DEF Save, Go
    <3>2. r.req = k.req /\ r.base = k.base /\ Onward(k.pc, r.pc)
      BY <1>1, <3>1 DEF Calls, Onward, PastInput, PastReply
    <3> QED
      BY <3>1, <3>2, Zenon
  <2>6. CASE InvokeFails(c)
    <3>1. PICK ran \in BOOLEAN :
            calls' = [calls EXCEPT ![c] = [k EXCEPT !.pc = "done", !.outcome = "failed", !.evaluated = ran]]
      BY <2>6 DEF InvokeFails
    <3>2. PICK r : r = [k EXCEPT !.pc = "done", !.outcome = "failed", !.evaluated = ran]
      OBVIOUS
    <3>3. r.req = k.req /\ r.base = k.base /\ Onward(k.pc, r.pc)
      BY <1>1, <3>2 DEF Calls, Onward, PastInput, PastReply
    <3> QED
      BY <3>1, <3>2, <3>3, Zenon
  <2>7. CASE InvokePauses(c)
    <3>1. PICK r : /\ r = [k EXCEPT !.pc = "pause", !.evaluated = TRUE, !.outcome = "paused"]
                   /\ calls' = [calls EXCEPT ![c] = r]
      BY <2>7 DEF InvokePauses
    <3>2. k.pc = "invoke"
      BY <2>7 DEF InvokePauses
    <3>3. r.req = k.req /\ r.base = k.base /\ Onward(k.pc, r.pc)
      BY <1>1, <3>1, <3>2 DEF Calls, Onward, PastInput, PastReply
    <3> QED
      BY <3>1, <3>3, Zenon
  <2>8. CASE InvokeReplies(c)
    <3>1. PICK r : /\ r = [k EXCEPT !.evaluated = TRUE, !.outcome = "replied",
                                    !.pc = IF k.op = "turn" THEN "answer" ELSE "restore"]
                   /\ calls' = [calls EXCEPT ![c] = r]
      BY <2>8 DEF InvokeReplies
    <3>2. k.pc = "invoke"
      BY <2>8 DEF InvokeReplies
    <3>3. r.req = k.req /\ r.base = k.base /\ Onward(k.pc, r.pc)
      BY <1>1, <3>1, <3>2 DEF Calls, Onward, PastInput, PastReply
    <3> QED
      BY <3>1, <3>3, Zenon
  <2> QED
    BY <2>1, <2>2, <2>3, <2>4, <2>5, <2>6, <2>7, <2>8
<1>4. Single(calls, r.req) /\ Single(calls, r.base)
  BY <1>3, SinglesOf, Zenon
<1>5. \A o \in Numbers : /\ Single(calls, heap'[o].messages)
                         /\ heap'[o].pending # Nil => Single(calls, heap'[o].pending)
  BY <1>2, Zenon DEF OnceInv
<1> QED
  BY <1>3, <1>4, <1>5, PlainOnce, Zenon

\* The steps that write one field of the object of the call.
LEMMA ObjectOnce ==
  ASSUME IsolationInv, OnceInv, NEW c \in DOMAIN calls, SetPending(c) \/ Restore(c) \/ Clear(c)
  PROVE  OnceInv'
<1> DEFINE o == calls[c].obj
           k == calls[c]
<1>1. TypeOK
  BY Zenon DEF IsolationInv
<1>2. o \in Numbers /\ k \in Calls
  BY CallOf, Zenon
<1>3. heap \in [Numbers -> Objects]
  BY <1>1, Typed
<1>4. PICK r : /\ calls' = [calls EXCEPT ![c] = r]
               /\ r.req = k.req /\ r.base = k.base /\ Onward(k.pc, r.pc)
  <2>1. PICK pc \in {"answer", "save"} :
          /\ calls' = [calls EXCEPT ![c] = [k EXCEPT !.pc = pc]]
          /\ k.pc \in {"clear"} => pc = "save"
          /\ k.pc \in {"pause", "restore", "clear", "deny"}
    BY DEF SetPending, Restore, Clear, Go
  <2>2. PICK r : r = [k EXCEPT !.pc = pc]
    OBVIOUS
  <2>3. r.req = k.req /\ r.base = k.base /\ Onward(k.pc, r.pc)
    BY <1>2, <2>1, <2>2 DEF Calls, Onward, PastInput, PastReply
  <2> QED
    BY <2>1, <2>2, <2>3, Zenon
<1>5. PICK new :
        /\ heap' = [heap EXCEPT ![o] = new]
        /\ new.messages = heap[o].messages \/ new.messages = k.req
        /\ new.pending = heap[o].pending \/ new.pending = k.req \/ new.pending = Nil
  <2>1. heap[o] \in Objects
    BY <1>2, <1>3
  <2>2. CASE SetPending(c)
    <3>1. PICK new : new = [heap[o] EXCEPT !.pending = k.req] /\ heap' = [heap EXCEPT ![o] = new]
      BY <2>2 DEF SetPending
    <3>2. new.messages = heap[o].messages /\ new.pending = k.req
      BY <2>1, <3>1 DEF Objects
    <3> QED
      BY <3>1, <3>2, Zenon
  <2>3. CASE Restore(c)
    <3>1. PICK new : new = [heap[o] EXCEPT !.messages = k.req] /\ heap' = [heap EXCEPT ![o] = new]
      BY <2>3 DEF Restore
    <3>2. new.messages = k.req /\ new.pending = heap[o].pending
      BY <2>1, <3>1 DEF Objects
    <3> QED
      BY <3>1, <3>2, Zenon
  <2>4. CASE Clear(c)
    <3>1. PICK new : new = [heap[o] EXCEPT !.pending = Nil] /\ heap' = [heap EXCEPT ![o] = new]
      BY <2>4 DEF Clear
    <3>2. new.messages = heap[o].messages /\ new.pending = Nil
      BY <2>1, <3>1 DEF Objects
    <3> QED
      BY <3>1, <3>2, Zenon
  <2> QED
    BY <2>2, <2>3, <2>4
<1>6. Single(calls, k.req) /\ Single(calls, k.base)
  BY SinglesOf, Zenon
<1>7. ASSUME NEW p \in Numbers
      PROVE  /\ Single(calls, heap'[p].messages)
             /\ heap'[p].pending # Nil => Single(calls, heap'[p].pending)
  <2>1. /\ Single(calls, heap[p].messages)
        /\ heap[p].pending # Nil => Single(calls, heap[p].pending)
    BY Zenon DEF OnceInv
  <2>2. CASE p = o
    <3>1. heap'[p] = new
      BY <1>3, <1>5, <2>2
    <3> QED
      BY <1>5, <1>6, <2>1, <2>2, <3>1, Zenon
  <2>3. CASE p # o
    <3>1. heap'[p] = heap[p]
      BY <1>3, <1>5, <2>3
    <3> QED
      BY <2>1, <3>1, Zenon
  <2> QED
    BY <2>2, <2>3
<1>8. Single(calls, r.req) /\ Single(calls, r.base)
  BY <1>4, <1>6, Zenon
<1> QED
  BY <1>4, <1>7, <1>8, PlainOnce, Zenon

\* Writing back a longer slice, with all that it overwrites.
LEMMA WriteBackOnce ==
  ASSUME IsolationInv, OnceInv, NEW c \in DOMAIN calls, NEW m \in Messages, m.of = c,
         NEW pc \in Points, WriteBack(c, m, pc), Onward(calls[c].pc, pc), ~Said(calls, m),
         IF m.role = "user" THEN PastInput(pc) ELSE PastReply(pc)
  PROVE  OnceInv'
<1>1. TypeOK
  BY Zenon DEF IsolationInv
<1>2. /\ DOMAIN calls = 1 .. Len(calls) /\ calls \in [1 .. Len(calls) -> Calls]
      /\ heap \in [Numbers -> Objects]
  BY <1>1, Typed
<1> DEFINE base == calls[c].base
<1>3. base \in Seq(Messages) /\ Single(calls, base) /\ calls[c].obj \in Numbers
  BY CallOf, SinglesOf, Zenon
<1> DEFINE Shown(msgs, cap) == Overwritten(msgs, base, cap, m)
           Objs(cap) == [o \in Numbers |->
                           [heap[o] EXCEPT !.messages = Shown(@, cap), !.pending = Shown(@, cap)]]
           Others(cap) == [d \in DOMAIN calls |->
                             [calls[d] EXCEPT !.req = Shown(@, cap), !.base = Shown(@, cap)]]
<1>4. PICK cap \in Len(base) .. IF base = <<>> THEN 0 ELSE 2 * MaxCalls :
        /\ heap' = [Objs(cap) EXCEPT ![calls[c].obj].messages = Append(base, m)]
        /\ calls' = [Others(cap) EXCEPT ![c].pc = pc, ![c].base = <<>>]
  BY Zenon DEF WriteBack
<1> HIDE DEF base, Shown
<1>5. ASSUME NEW o \in Numbers
      PROVE  /\ heap'[o].pending = Shown(heap[o].pending, cap)
             /\ \/ heap'[o].messages = Append(base, m)
                \/ heap'[o].messages = Shown(heap[o].messages, cap)
  <2>1. heap[o] \in Objects
    BY <1>2
  <2>2. PICK new : new = [heap[o] EXCEPT !.messages = Shown(heap[o].messages, cap),
                                         !.pending = Shown(heap[o].pending, cap)]
    OBVIOUS
  <2>3. /\ new.messages = Shown(heap[o].messages, cap) /\ new.pending = Shown(heap[o].pending, cap)
        /\ [new EXCEPT !.messages = Append(base, m)].messages = Append(base, m)
        /\ [new EXCEPT !.messages = Append(base, m)].pending = new.pending
    BY <2>1, <2>2 DEF Objects
  <2>4. Objs(cap)[o] = new /\ Objs(cap) = [p \in Numbers |-> Objs(cap)[p]]
    BY <2>2
  <2> HIDE DEF Objs
  <2>5. CASE o = calls[c].obj
    <3>1. heap'[o] = [new EXCEPT !.messages = Append(base, m)]
      BY <1>4, <2>4, <2>5
    <3> QED
      BY <2>3, <3>1, Zenon
  <2>6. CASE o # calls[c].obj
    <3>1. heap'[o] = new
      BY <1>4, <2>4, <2>6
    <3> QED
      BY <2>3, <3>1, Zenon
  <2> QED
    BY <2>5, <2>6
<1>6. DOMAIN calls' = DOMAIN calls
  <2>1. Others(cap) = [d \in DOMAIN calls |-> Others(cap)[d]]
    OBVIOUS
  <2> HIDE DEF Others
  <2> QED
    BY <1>4, <2>1
<1>7. ASSUME NEW d \in DOMAIN calls
      PROVE  /\ calls'[d].req = Shown(calls[d].req, cap)
             /\ calls'[d].base = <<>> \/ calls'[d].base = Shown(calls[d].base, cap)
             /\ calls'[d].pc = IF d = c THEN pc ELSE calls[d].pc
  <2>1. calls[d] \in Calls
    BY <1>2
  <2>2. PICK k : k = [calls[d] EXCEPT !.req = Shown(calls[d].req, cap),
                                      !.base = Shown(calls[d].base, cap)]
    OBVIOUS
  <2>3. /\ k.req = Shown(calls[d].req, cap) /\ k.base = Shown(calls[d].base, cap)
        /\ k.pc = calls[d].pc
        /\ [k EXCEPT !.pc = pc, !.base = <<>>].pc = pc
        /\ [k EXCEPT !.pc = pc, !.base = <<>>].base = <<>>
        /\ [k EXCEPT !.pc = pc, !.base = <<>>].req = k.req
    BY <2>1, <2>2 DEF Calls
  <2>4. Others(cap)[d] = k /\ Others(cap) = [e \in DOMAIN calls |-> Others(cap)[e]]
    BY <2>2
  <2> HIDE DEF Others
  <2>5. CASE d = c
    <3>1. calls'[d] = [k EXCEPT !.pc = pc, !.base = <<>>]
      BY <1>4, <2>4, <2>5
    <3> QED
      BY <2>3, <2>5, <3>1, Zenon
  <2>6. CASE d # c
    <3>1. calls'[d] = k
      BY <1>4, <2>4, <2>6
    <3> QED
      BY <2>3, <2>6, <3>1, Zenon
  <2> QED
    BY <2>5, <2>6
<1>8. PICK made, later : made = calls /\ later = calls'
  OBVIOUS
<1>9. (\A x : Said(made, x) => Said(later, x)) /\ (\A msgs : Single(made, msgs) => Single(later, msgs))
  <2>1. \A p : Onward(p, p)
    BY DEF Onward
  <2>2. \A d \in DOMAIN calls : Onward(calls[d].pc, calls'[d].pc)
    BY <1>7, <2>1, Zenon
  <2>3. DOMAIN made \subseteq DOMAIN later /\ \A d \in DOMAIN made : Onward(made[d].pc, later[d].pc)
    BY <1>6, <1>8, <2>2
  <2> QED
    BY <2>3, SaidLater
<1>10. ~Said(made, m) /\ Said(later, m) /\ Single(made, base)
  <2>1. c \in DOMAIN calls' /\ calls'[c].pc = pc
    BY <1>6, <1>7
  <2>2. Said(calls', m)
    BY <2>1 DEF Said, PastInput, PastReply
  <2> QED
    BY <1>3, <1>8, <2>2, Zenon
<1>11. /\ Single(calls', Append(base, m))
       /\ \A msgs \in Seq(Messages) : Single(calls, msgs) => Single(calls', Shown(msgs, cap))
       /\ Shown(Nil, cap) = Nil
  <2>1. Single(later, Append(base, m))
    BY <1>3, <1>9, <1>10, AppendedSingle
  <2>2. \A msgs \in Seq(Messages) : Single(made, msgs) => Single(later, Shown(msgs, cap))
    BY <1>3, <1>9, <1>10, OverwrittenSingle DEF Shown
  <2>3. Shown(Nil, cap) = Nil
    BY DEF Shown, Overwritten
  <2> QED
    BY <1>8, <2>1, <2>2, <2>3, Zenon
<1>12. ASSUME NEW o \in Numbers
       PROVE  /\ Single(calls', heap'[o].messages)
              /\ heap'[o].pending # Nil => Single(calls', heap'[o].pending)
  <2>1. /\ Single(calls, heap[o].messages)
        /\ heap[o].pending # Nil => Single(calls, heap[o].pending)
    BY Zenon DEF OnceInv
  <2>2. heap[o].messages \in Seq(Messages) /\ (heap[o].pending # Nil => heap[o].pending \in Seq(Messages))
    BY <1>2 DEF Objects
  <2> QED
    BY <1>5, <1>11, <2>1, <2>2, Zenon
<1>13. ASSUME NEW d \in DOMAIN calls'
       PROVE  Single(calls', calls'[d].req) /\ Single(calls', calls'[d].base)
  <2>1. d \in DOMAIN calls
    BY <1>6
  <2>2. /\ calls[d].req \in Seq(Messages) /\ calls[d].base \in Seq(Messages)
        /\ Single(calls, calls[d].req) /\ Single(calls, calls[d].base)
    BY <2>1, CallOf, SinglesOf, Zenon
  <2>3. Single(calls', <<>>)
    BY EmptySingle
  <2> QED
    BY <1>7, <1>11, <2>1, <2>2, <2>3, Zenon
<1> QED
  BY <1>12, <1>13, Zenon DEF OnceInv

\* A new call says nothing yet.
LEMMA StartOnce ==
  ASSUME IsolationInv, OnceInv, NEW s \in Sessions, NEW op, NEW sensitive, Start(s, op, sensitive)
  PROVE  OnceInv'
<1>1. TypeOK
  BY Zenon DEF IsolationInv
<1>2. /\ Len(calls) \in Nat /\ DOMAIN calls = 1 .. Len(calls) /\ heap \in [Numbers -> Objects]
  BY <1>1, Typed
<1>3. PICK c \in Nat : c = Len(calls) + 1
  BY <1>2
<1>4. PICK k : /\ calls' = Append(calls, k) /\ k.req = <<>> /\ k.base = <<>>
               /\ heap' = heap \/ heap' = [heap EXCEPT ![c].id = s]
  <2>1. PICK k : k = [op |-> op, session |-> s, sensitive |-> sensitive, pc |-> "check",
                      obj |-> Load(s, c), base |-> <<>>, req |-> <<>>, evaluated |-> FALSE,
                      outcome |-> "running"]
    OBVIOUS
  <2>2. calls' = Append(calls, k) /\ (heap' = heap \/ heap' = [heap EXCEPT ![c].id = s])
    BY <1>3, <2>1 DEF Start
  <2>3. k.req = <<>> /\ k.base = <<>>
    BY <2>1
  <2> QED
    BY <2>2, <2>3, Zenon
<1>5. /\ DOMAIN calls' = 1 .. c /\ calls'[c] = k
      /\ \A d \in DOMAIN calls : calls'[d] = calls[d]
  <2>1. calls \in Seq(Calls)
    BY <1>1, Zenon DEF TypeOK
  <2>2. calls \in Seq(Calls \cup {k}) /\ k \in Calls \cup {k}
    BY <2>1
  <2> QED
    BY <1>2, <1>3, <1>4, <2>2, Appended
<1>6. ASSUME NEW o \in Numbers
      PROVE  heap'[o].messages = heap[o].messages /\ heap'[o].pending = heap[o].pending
  <2>1. heap[o] \in Objects
    BY <1>2
  <2>2. CASE heap' = heap
    BY <2>2
  <2>3. CASE heap' = [heap EXCEPT ![c].id = s]
    <3>1. heap'[o] = heap[o] \/ heap'[o] = [heap[o] EXCEPT !.id = s]
      BY <1>2, <2>3
    <3> QED
      BY <2>1, <3>1 DEF Objects
  <2> QED
    BY <1>4, <2>2, <2>3, Zenon
<1>7. PICK made, later : made = calls /\ later = calls'
  OBVIOUS
<1>8. \A msgs : Single(made, msgs) => Single(later, msgs)
  <2>1. \A p : Onward(p, p)
    BY DEF Onward
  <2>2. DOMAIN made \subseteq DOMAIN later /\ \A d \in DOMAIN made : Onward(made[d].pc, later[d].pc)
    BY <1>2, <1>3, <1>5, <1>7, <2>1
  <2> QED
    BY <2>2, SaidLater
<1>9. \A msgs : Single(calls, msgs) => Single(calls', msgs)
  BY <1>7, <1>8, Zenon
<1>10. ASSUME NEW d \in DOMAIN calls'
       PROVE  Single(calls', calls'[d].req) /\ Single(calls', calls'[d].base)
  <2>1. CASE d = c
    <3>1. Single(calls', <<>>)
      BY EmptySingle
    <3> QED
      BY <1>4, <1>5, <2>1, <3>1, Zenon
  <2>2. CASE d # c
    <3>1. d \in DOMAIN calls
      BY <1>2, <1>3, <1>5, <2>2
    <3>2. Single(calls, calls[d].req) /\ Single(calls, calls[d].base)
      BY <3>1, Zenon DEF OnceInv
    <3> QED
      BY <1>5, <1>9, <3>1, <3>2, Zenon
  <2> QED
    BY <2>1, <2>2
<1>11. ASSUME NEW o \in Numbers
       PROVE  /\ Single(calls', heap'[o].messages)
              /\ heap'[o].pending # Nil => Single(calls', heap'[o].pending)
  <2>1. /\ Single(calls, heap[o].messages)
        /\ heap[o].pending # Nil => Single(calls, heap[o].pending)
    BY Zenon DEF OnceInv
  <2> QED
    BY <1>6, <1>9, <2>1, Zenon
<1> QED
  BY <1>10, <1>11, Zenon DEF OnceInv

\* Every step keeps the invariant.
LEMMA NextOnceInv ==
  ASSUME IsolationInv, OnceInv, [Next]_vars
  PROVE  OnceInv'
<1>1. ASSUME NEW s \in Sessions, NEW op, NEW sensitive, Start(s, op, sensitive)
      PROVE  OnceInv'
  BY <1>1, StartOnce
<1>2. ASSUME NEW c \in Active, Step(c)
      PROVE  OnceInv'
  <2>1. c \in DOMAIN calls
    BY DEF Active
  <2>2. c \in Numbers
    <3>1. TypeOK
      BY Zenon DEF IsolationInv
    <3> QED
      BY <2>1, <3>1, Typed
  <2>3. CASE AppendUser(c)
    <3>1. /\ User(c) \in Messages /\ User(c).of = c /\ User(c).role = "user"
          /\ "request" \in Points /\ PastInput("request")
      BY <2>2 DEF User, Messages, Points, PastInput
    <3>2. WriteBack(c, User(c), "request") /\ calls[c].pc = "write"
      BY <2>3, Zenon DEF AppendUser
    <3>3. ~Said(calls, User(c)) /\ Onward(calls[c].pc, "request")
      BY <3>1, <3>2 DEF Said, Onward, PastInput, PastReply
    <3> QED
      BY <2>1, <3>1, <3>2, <3>3, WriteBackOnce, Zenon
  <2>4. CASE AppendReply(c)
    <3>1. PICK pc \in {"save", "clear"} : WriteBack(c, Reply(c), pc)
      BY <2>4 DEF AppendReply
    <3>2. /\ Reply(c) \in Messages /\ Reply(c).of = c /\ Reply(c).role # "user"
          /\ pc \in Points /\ PastReply(pc)
      BY <2>2, <3>1 DEF Reply, Messages, Points, PastReply
    <3>3. calls[c].pc = "record"
      BY <2>4, Zenon DEF AppendReply
    <3>4. ~Said(calls, Reply(c)) /\ Onward(calls[c].pc, pc)
      BY <3>1, <3>2, <3>3 DEF Said, Onward, PastInput, PastReply
    <3> QED
      BY <2>1, <3>1, <3>2, <3>4, WriteBackOnce, Zenon
  <2> QED
    BY <1>2, <2>1, <2>3, <2>4, QuietOnce, ObjectOnce, Zenon
       DEF Step, Turn, Resume, Shared
<1>3. ASSUME UNCHANGED vars
      PROVE  OnceInv'
  <2>1. calls' = calls /\ heap' = heap
    BY <1>3, Zenon DEF vars
  <2> QED
    BY <2>1, Zenon DEF OnceInv
<1> QED
  BY <1>1, <1>2, <1>3, Zenon DEF Next

\* However calls overlap, a message is in no slice before its call has written
\* it, and in none twice.
THEOREM OnceInvariant == Spec => []OnceInv
<1>1. ASSUME Init PROVE OnceInv
  <2>1. /\ DOMAIN calls = {}
        /\ \A o \in Numbers : heap[o].messages = <<>> /\ heap[o].pending = Nil
    BY <1>1 DEF Init
  <2>2. Single(calls, <<>>)
    BY EmptySingle
  <2> QED
    BY <2>1, <2>2, Zenon DEF OnceInv
<1> QED
  BY <1>1, NextOnceInv, IsolationInvariant, PTL DEF Spec

\* However calls of one session overlap, no message is doubled: not in a history,
\* in a snapshot, or in a request.
THEOREM NothingIsDoubled == Spec => []NothingDoubled
<1>1. ASSUME TypeOK, OnceInv PROVE NothingDoubled
  <2>1. ASSUME NEW s \in Sessions, Stored(s)
        PROVE  IsInjective(History(s)) /\ (Paused(s) => IsInjective(heap[data[s]].pending))
    <3>1. data[s] \in Numbers
      <4>1. data \in [Sessions -> Numbers \cup {Nil}]
        BY <1>1, Typed
      <4> QED
        BY <2>1, <4>1 DEF Stored
    <3>2. /\ Single(calls, heap[data[s]].messages)
          /\ heap[data[s]].pending # Nil => Single(calls, heap[data[s]].pending)
      BY <1>1, <3>1, Zenon DEF OnceInv
    <3> QED
      BY <2>1, <3>2, Zenon DEF Single, History, Paused
  <2>2. \A c \in DOMAIN calls : IsInjective(calls[c].req)
    BY <1>1, Zenon DEF OnceInv, Single
  <2> QED
    BY <2>1, <2>2, Zenon DEF NothingDoubled
<1> QED
  BY <1>1, TypeCorrect, OnceInvariant, PTL

-----------------------------------------------------------------------------
(* The history of an exclusive session *)

\* An append never reaches a slice of another session.
LEMMA OverwrittenOther ==
  ASSUME NEW made, NEW base \in Seq(Messages), NEW cap \in Nat, base = <<>> => cap = 0,
         NEW m, NEW s, NEW t, s # t, Owned(made, base, t),
         NEW msgs \in Seq(Messages), Owned(made, msgs, s)
  PROVE  Overwritten(msgs, base, cap, m) = msgs
<1>1. CASE msgs # Nil /\ Len(msgs) \in Len(base) + 1 .. cap /\ IsPrefix(base, msgs)
  <2>2. Len(base) \in Nat /\ DOMAIN base = 1 .. Len(base) /\ (base # <<>> => Len(base) > 0)
        /\ Len(msgs) \in Nat /\ DOMAIN msgs = 1 .. Len(msgs)
    BY ElementOf
  <2>3. cap > 0 /\ Len(base) > 0 /\ Len(base) + 1 <= Len(msgs)
    BY <1>1, <2>2
  <2>4. \A i \in 1 .. Len(base) : base[i] = msgs[i]
    BY <1>1, PrefixByElement
  <2>5. 1 \in DOMAIN base /\ 1 \in DOMAIN msgs /\ base[1] = msgs[1]
    BY <2>2, <2>3, <2>4
  <2> QED
    BY <2>5 DEF Owned
<1>2. CASE ~(msgs # Nil /\ Len(msgs) \in Len(base) + 1 .. cap /\ IsPrefix(base, msgs))
  BY <1>2, Zenon DEF Overwritten
<1> QED
  BY <1>1, <1>2, Zenon

\* What calls contribute are messages.
LEMMA ContributionTyped ==
  ASSUME NEW c \in Numbers
  PROVE  Contribution(c) \in Seq(Messages)
<1>1. User(c) \in Messages /\ Reply(c) \in Messages
  BY DEF User, Reply, Messages
<1>2. <<User(c)>> \in Seq(Messages) /\ <<Reply(c)>> \in Seq(Messages) /\ <<>> \in Seq(Messages)
  BY <1>1
<1>3. PICK x \in Seq(Messages), y \in Seq(Messages) : Contribution(c) = x \o y
  BY <1>2 DEF Contribution
<1> QED
  BY <1>3

\* The pieces of a history.
Pieces(s, n) == [c \in 1 .. n |-> IF calls[c].session = s THEN Contribution(c) ELSE <<>>]

LEMMA PiecesTyped ==
  ASSUME NEW n \in Nat, n <= MaxCalls, NEW s
  PROVE  /\ Pieces(s, n) \in [1 .. n -> Seq(Messages)]
         /\ Told(s, n) = FlattenSeq(Pieces(s, n)) /\ Told(s, n) \in Seq(Messages)
<1>1. \A c \in 1 .. n : c \in Numbers
  BY SessionAssumption DEF Numbers
<1>2. \A c \in 1 .. n : (IF calls[c].session = s THEN Contribution(c) ELSE <<>>) \in Seq(Messages)
  <2>1. <<>> \in Seq(Messages)
    OBVIOUS
  <2> QED
    BY <1>1, <2>1, ContributionTyped
<1>3. Pieces(s, n) \in [1 .. n -> Seq(Messages)]
  BY <1>2 DEF Pieces
<1>4. Told(s, n) = FlattenSeq(Pieces(s, n))
  BY DEF Told, Pieces
<1>5. Pieces(s, n) \in Seq(Seq(Messages))
  BY <1>3, FunctionIsSequence
<1> QED
  BY <1>3, <1>4, <1>5, Flattened

\* A call contributes what it did as long as it and the calls of its session
\* before it keep their outcomes.
LEMMA SameContribution ==
  ASSUME NEW c \in Nat, NEW s, Len(calls) \in Nat, Len(calls') \in Nat,
         DOMAIN calls = 1 .. Len(calls), DOMAIN calls' = 1 .. Len(calls'),
         c <= Len(calls), c <= Len(calls'), calls[c].session = s,
         \A d \in 1 .. c :
           /\ calls'[d].session = calls[d].session
           /\ calls[d].session = s => calls'[d].op = calls[d].op /\ calls'[d].outcome = calls[d].outcome
  PROVE  c > 0 => Contribution(c)' = Contribution(c)
<1> SUFFICES ASSUME c > 0 PROVE Contribution(c)' = Contribution(c)
  OBVIOUS
<1>1. calls'[c].session = s /\ calls'[c].op = calls[c].op /\ calls'[c].outcome = calls[c].outcome
  <2>1. c \in 1 .. c
    OBVIOUS
  <2> QED
    BY <2>1
<1>2. StoredBefore(c)' <=> StoredBefore(c)
  <2>1. \A d : d \in DOMAIN calls /\ d < c <=> d \in DOMAIN calls' /\ d < c
    OBVIOUS
  <2>2. \A d \in DOMAIN calls : d < c => d \in 1 .. c
    OBVIOUS
  <2> QED
    BY <1>1, <2>1, <2>2 DEF CallsOn, StoredBefore
<1>3. (InputStays(c)' <=> InputStays(c)) /\ (AnswerStays(c)' <=> AnswerStays(c))
  BY <1>1, <1>2 DEF InputStays, AnswerStays
<1> QED
  BY <1>3 DEF Contribution

\* The same of a history.
LEMMA SameTold ==
  ASSUME NEW n \in Nat, NEW s, Len(calls) \in Nat, Len(calls') \in Nat,
         DOMAIN calls = 1 .. Len(calls), DOMAIN calls' = 1 .. Len(calls'),
         n <= Len(calls), n <= Len(calls'),
         \A d \in 1 .. n :
           /\ calls'[d].session = calls[d].session
           /\ calls[d].session = s => calls'[d].op = calls[d].op /\ calls'[d].outcome = calls[d].outcome
  PROVE  Pieces(s, n)' = Pieces(s, n) /\ Told(s, n)' = Told(s, n)
<1>1. ASSUME NEW c \in 1 .. n
      PROVE  (IF calls'[c].session = s THEN Contribution(c)' ELSE <<>>)
             = (IF calls[c].session = s THEN Contribution(c) ELSE <<>>)
  <2>1. CASE calls[c].session = s
    <3>1. c \in Nat /\ c > 0 /\ c <= Len(calls) /\ c <= Len(calls') /\ \A d \in 1 .. c : d \in 1 .. n
      OBVIOUS
    <3>2. Contribution(c)' = Contribution(c)
      BY <2>1, <3>1, SameContribution
    <3> QED
      BY <2>1, <3>2
  <2>2. CASE calls[c].session # s
    BY <2>2
  <2> QED
    BY <2>1, <2>2
<1>2. Pieces(s, n)' = Pieces(s, n)
  BY <1>1, Zenon DEF Pieces
<1> QED
  BY <1>2, Zenon DEF Told, Pieces

\* Later calls of other sessions add nothing to a history.
LEMMA ToldLater ==
  ASSUME TypeOK, NEW s, Len(calls') \in Nat, DOMAIN calls' = 1 .. Len(calls'),
         Len(calls) <= Len(calls'),
         \A d \in 1 .. Len(calls) :
           /\ calls'[d].session = calls[d].session
           /\ calls[d].session = s => calls'[d].op = calls[d].op /\ calls'[d].outcome = calls[d].outcome,
         \A d \in Len(calls) + 1 .. Len(calls') : calls'[d].session # s
  PROVE  Told(s, Len(calls))' = Told(s, Len(calls))
<1>1. Len(calls) \in Nat /\ DOMAIN calls = 1 .. Len(calls) /\ Len(calls) <= MaxCalls
  BY Typed
<1>2. PICK n \in Nat : n = Len(calls) /\ n <= MaxCalls
  BY <1>1
<1>3. PICK m \in Nat : m = Len(calls')
  OBVIOUS
<1>4. PICK g : g = Pieces(s, n)
  OBVIOUS
<1>5. g \in [1 .. n -> Seq(Messages)] /\ Told(s, n) = FlattenSeq(g)
  BY <1>2, <1>4, PiecesTyped
<1>6. PICK f : f = Pieces(s, m)'
  OBVIOUS
<1>7. Pieces(s, n)' = Pieces(s, n)
  BY <1>1, <1>2, <1>3, SameTold
<1>8. ASSUME NEW d \in 1 .. m
      PROVE  (d <= n => f[d] = g[d]) /\ (d > n => f[d] = <<>>) /\ f[d] \in Seq(Messages)
  <2>1. f[d] = (IF calls'[d].session = s THEN Contribution(d)' ELSE <<>>)
    BY <1>6 DEF Pieces
  <2>2. CASE d <= n
    <3>1. d \in 1 .. n
      BY <2>2
    <3>2. f[d] = Pieces(s, n)'[d]
      BY <2>1, <3>1 DEF Pieces
    <3> QED
      BY <1>4, <1>5, <1>7, <2>2, <3>1, <3>2
  <2>3. CASE d > n
    <3>1. d \in Len(calls) + 1 .. Len(calls')
      BY <1>2, <1>3, <2>3
    <3> QED
      BY <1>2, <2>1, <2>3, <3>1
  <2> QED
    BY <2>2, <2>3
<1>9. f = [d \in 1 .. m |-> f[d]] /\ f \in [1 .. m -> Seq(Messages)]
  <2>1. f = [d \in 1 .. m |-> f[d]]
    BY <1>6 DEF Pieces
  <2> QED
    BY <1>8, <2>1
<1>10. n \in 0 .. m /\ \A d \in n + 1 .. m : f[d] = <<>>
  <2>1. n <= m
    BY <1>2, <1>3
  <2>2. \A d \in n + 1 .. m : d \in 1 .. m /\ d > n
    OBVIOUS
  <2> QED
    BY <1>8, <2>1, <2>2
<1>11. FlattenSeq(f) = FlattenSeq(g)
  <2>1. \A d \in 1 .. n : f[d] = g[d]
    <3>1. \A d \in 1 .. n : d \in 1 .. m /\ d <= n
      BY <1>10
    <3> QED
      BY <1>8, <3>1
  <2>2. f \in Seq(Seq(Messages)) /\ g \in Seq(Seq(Messages)) /\ Len(f) = m /\ Len(g) = n
    BY <1>5, <1>9, FunctionIsSequence
  <2>3. Begins(f, g, Len(g))
    BY <1>8, <1>10, <2>1, <2>2 DEF Begins
  <2> QED
    BY <2>2, <2>3, FlattenedRest
<1>13. Told(s, Len(calls))' = FlattenSeq(f)
  <2>1. Told(s, m)' = FlattenSeq(Pieces(s, m)')
    BY Zenon DEF Told, Pieces
  <2> QED
    BY <1>3, <1>6, <2>1, Zenon DEF Told
<1> QED
  BY <1>2, <1>5, <1>11, <1>13, Zenon

\* The latest call of a session adds its own part to the history.
LEMMA ToldAtReturn ==
  ASSUME TypeOK, NEW s, NEW c \in DOMAIN calls, Len(calls') = Len(calls),
         DOMAIN calls' = 1 .. Len(calls'), calls[c].session = s, calls'[c].session = s,
         \A d \in 1 .. c - 1 :
           /\ calls'[d].session = calls[d].session
           /\ calls[d].session = s => calls'[d].op = calls[d].op /\ calls'[d].outcome = calls[d].outcome,
         \A d \in c + 1 .. Len(calls) : calls'[d].session # s,
         NEW x \in Seq(Messages), Contribution(c)' = x
  PROVE  Told(s, Len(calls))' = Told(s, c - 1) \o x
<1>1. Len(calls) \in Nat /\ DOMAIN calls = 1 .. Len(calls) /\ Len(calls) <= MaxCalls /\ MaxCalls \in Nat
  BY Typed, SessionAssumption
<1>2. PICK n \in Nat : n = Len(calls) /\ n <= MaxCalls
  BY <1>1
<1>3. PICK p \in Nat : p = c - 1 /\ p <= n /\ c \in 1 .. n /\ p <= MaxCalls /\ c = p + 1
  BY <1>1, <1>2
<1>4. PICK g : g = Pieces(s, p)
  OBVIOUS
<1>5. g \in [1 .. p -> Seq(Messages)] /\ Told(s, p) = FlattenSeq(g)
  BY <1>3, <1>4, PiecesTyped
<1>6. PICK f : f = Pieces(s, n)'
  OBVIOUS
<1>7. Pieces(s, p)' = Pieces(s, p)
  BY <1>1, <1>2, <1>3, SameTold
<1>8. ASSUME NEW d \in 1 .. n
      PROVE  /\ d <= p => f[d] = g[d]
             /\ d = c => f[d] = x
             /\ d > c => f[d] = <<>>
             /\ f[d] \in Seq(Messages)
  <2>1. f[d] = (IF calls'[d].session = s THEN Contribution(d)' ELSE <<>>)
    BY <1>6 DEF Pieces
  <2>2. CASE d <= p
    <3>1. d \in 1 .. p /\ d # c /\ ~(d > c)
      BY <1>3, <2>2
    <3>2. f[d] = Pieces(s, p)'[d]
      BY <2>1, <3>1 DEF Pieces
    <3> QED
      BY <1>4, <1>5, <1>7, <3>1, <3>2
  <2>3. CASE d = c
    <3>1. f[d] = x
      BY <2>1, <2>3, Zenon
    <3>2. ~(d <= p) /\ ~(d > c)
      BY <1>3, <2>3
    <3> QED
      BY <3>1, <3>2
  <2>4. CASE d > c
    <3>1. d \in c + 1 .. Len(calls) /\ d # c /\ ~(d <= p)
      BY <1>2, <1>3, <2>4
    <3> QED
      BY <2>1, <2>4, <3>1
  <2> QED
    BY <1>3, <2>2, <2>3, <2>4
<1>9. f = [d \in 1 .. n |-> f[d]] /\ f \in [1 .. n -> Seq(Messages)]
  <2>1. f = [d \in 1 .. n |-> f[d]]
    BY <1>6 DEF Pieces
  <2> QED
    BY <1>8, <2>1
<1>10. /\ f[c] = x /\ f \in [1 .. n -> Seq(Messages)]
       /\ \A d \in 1 .. n : d > c => f[d] = <<>>
  BY <1>3, <1>8, <1>9
<1>11. \A d \in 1 .. p : f[d] = g[d]
  <2>1. \A d \in 1 .. p : d \in 1 .. n /\ d <= p
    BY <1>3
  <2> QED
    BY <1>8, <2>1
<1>12. FlattenSeq(f) = FlattenSeq(g) \o f[c]
  <2>1. f \in Seq(Seq(Messages)) /\ g \in Seq(Seq(Messages)) /\ Len(f) = n /\ Len(g) = p
    BY <1>5, <1>10, FunctionIsSequence
  <2>2. Begins(f, g, Len(g) + 1) /\ Len(g) < Len(f) /\ Len(g) + 1 = c
    <3>1. Len(g) < Len(f) /\ Len(g) <= Len(f) /\ Len(g) + 1 = c
      <4>1. p < n /\ p <= n /\ p + 1 = c
        BY <1>3
      <4> QED
        BY <2>1, <4>1, Zenon
    <3>2. (\A d \in 1 .. Len(g) : f[d] = g[d]) /\ \A d \in 1 .. Len(f) : d > c => f[d] = <<>>
      BY <1>10, <1>11, <2>1
    <3> QED
      BY <3>1, <3>2 DEF Begins
  <2> QED
    BY <2>1, <2>2, FlattenedAt
<1>13. Told(s, Len(calls))' = FlattenSeq(f)
  <2>1. Told(s, n)' = FlattenSeq(Pieces(s, n)')
    BY Zenon DEF Told, Pieces
  <2> QED
    BY <1>2, <1>6, <2>1, Zenon DEF Told
<1> QED
  BY <1>3, <1>5, <1>10, <1>12, <1>13, Zenon

\* A step that leaves session s alone: its calls, its objects and its place in
\* the store.
Untouched(s) ==
  /\ data'[s] = data[s] /\ Len(calls) <= Len(calls')
  /\ \A d \in DOMAIN calls :
       /\ calls'[d].session = calls[d].session
       /\ calls[d].session = s => calls'[d] = calls[d]
  /\ \A d \in DOMAIN calls' : d > Len(calls) => calls'[d].session # s
  /\ \A o \in Numbers : o <= Len(calls) /\ heap[o].id = s => heap'[o] = heap[o]

LEMMA UntouchedFacts ==
  ASSUME IsolationInv, IsolationInv', NEW s \in Sessions, Untouched(s)
  PROVE  /\ CallsOn(s)' = CallsOn(s) /\ ActiveOn(s)' = ActiveOn(s) /\ ActiveOn(s) \subseteq CallsOn(s)
         /\ \A c \in CallsOn(s) :
              /\ c \in DOMAIN calls /\ calls'[c] = calls[c] /\ calls[c].session = s
              /\ Object(c)' = Object(c) /\ Told(s, c - 1)' = Told(s, c - 1)
         /\ data'[s] = data[s] /\ (Stored(s)' <=> Stored(s))
         /\ Stored(s) => heap'[data[s]] = heap[data[s]]
         /\ History(s)' = History(s) /\ (Paused(s)' <=> Paused(s))
         /\ Told(s, Len(calls))' = Told(s, Len(calls))
<1>1. TypeOK /\ StoreOwned
  BY Zenon DEF IsolationInv
<1>2. /\ Len(calls) \in Nat /\ DOMAIN calls = 1 .. Len(calls) /\ calls \in [1 .. Len(calls) -> Calls]
      /\ heap \in [Numbers -> Objects] /\ data \in [Sessions -> Numbers \cup {Nil}]
  BY <1>1, Typed
<1>3. Len(calls') \in Nat /\ DOMAIN calls' = 1 .. Len(calls') /\ Len(calls) <= Len(calls')
  <2>1. calls' \in Seq(Calls)
    BY Zenon DEF IsolationInv, TypeOK
  <2> QED
    BY <2>1, ElementOf DEF Untouched
<1>4. \A d \in DOMAIN calls : /\ calls'[d].session = calls[d].session
                              /\ calls[d].session = s => calls'[d] = calls[d]
  BY Zenon DEF Untouched
<1>5. \A d \in DOMAIN calls' : d > Len(calls) => calls'[d].session # s
  BY Zenon DEF Untouched
<1>6. CallsOn(s)' = CallsOn(s)
  <2>1. \A d \in DOMAIN calls : d \in DOMAIN calls'
    BY <1>2, <1>3
  <2>2. \A d \in DOMAIN calls' : d \in DOMAIN calls \/ d > Len(calls)
    BY <1>2, <1>3
  <2> QED
    BY <1>4, <1>5, <2>1, <2>2 DEF CallsOn
<1>7. ASSUME NEW c \in CallsOn(s)
      PROVE  /\ c \in DOMAIN calls /\ calls'[c] = calls[c] /\ calls[c].session = s
             /\ Object(c)' = Object(c)
  <2>1. c \in DOMAIN calls /\ calls[c].session = s
    BY DEF CallsOn
  <2>2. calls'[c] = calls[c]
    BY <1>4, <2>1
  <2>3. calls[c].obj \in Numbers /\ calls[c].obj <= Len(calls) /\ heap[calls[c].obj].id = s
    BY <2>1, CallOf, Zenon
  <2>4. heap'[calls[c].obj] = heap[calls[c].obj]
    BY <2>3, Zenon DEF Untouched
  <2> QED
    BY <2>1, <2>2, <2>4 DEF Object
<1>8. /\ ActiveOn(s) = {c \in CallsOn(s) : calls[c].pc # "done"}
      /\ ActiveOn(s)' = {c \in CallsOn(s)' : calls'[c].pc # "done"}
  BY DEF ActiveOn, Active, Running, CallsOn
<1>9. ActiveOn(s)' = ActiveOn(s) /\ ActiveOn(s) \subseteq CallsOn(s)
  BY <1>6, <1>7, <1>8
<1>10. data'[s] = data[s]
  BY Zenon DEF Untouched
<1>11. ASSUME Stored(s) PROVE heap'[data[s]] = heap[data[s]]
  <2>1. data[s] \in Numbers
    BY <1>2, <1>11 DEF Stored
  <2>2. data[s] <= Len(calls) /\ heap[data[s]].id = s
    BY <1>1, <1>11, Zenon DEF StoreOwned
  <2> QED
    BY <2>1, <2>2, Zenon DEF Untouched
<1>12. /\ Stored(s)' <=> Stored(s)
       /\ History(s)' = History(s) /\ (Paused(s)' <=> Paused(s))
  <2>1. Stored(s)' <=> Stored(s)
    BY <1>10 DEF Stored
  <2> QED
    BY <1>10, <1>11, <2>1 DEF History, Paused
<1>13. \A d \in DOMAIN calls : /\ calls'[d].session = calls[d].session
                               /\ calls[d].session = s => /\ calls'[d].op = calls[d].op
                                                          /\ calls'[d].outcome = calls[d].outcome
  BY <1>4
<1>14. Told(s, Len(calls))' = Told(s, Len(calls))
  <2>1. \A d \in Len(calls) + 1 .. Len(calls') : d \in DOMAIN calls' /\ d > Len(calls)
    BY <1>2, <1>3
  <2> QED
    BY <1>1, <1>2, <1>3, <1>5, <1>13, <2>1, ToldLater
<1>15. ASSUME NEW c \in CallsOn(s) PROVE Told(s, c - 1)' = Told(s, c - 1)
  <2>1. c \in 1 .. Len(calls)
    BY <1>2, <1>7
  <2>2. PICK n \in Nat : n = c - 1 /\ n <= Len(calls) /\ n <= Len(calls')
    BY <1>2, <1>3, <2>1
  <2>3. \A d \in 1 .. n : d \in DOMAIN calls
    BY <1>2, <2>2
  <2>4. Told(s, n)' = Told(s, n)
    BY <1>2, <1>3, <1>13, <2>2, <2>3, SameTold
  <2> QED
    BY <2>2, <2>4, Zenon
<1> QED
  BY <1>6, <1>7, <1>9, <1>10, <1>11, <1>12, <1>14, <1>15, Zenon

\* What other sessions do does not disturb the history of this one.
LEMMA UntouchedHistory ==
  ASSUME IsolationInv, IsolationInv', NEW s \in Sessions, Untouched(s), HistoryOf(s)
  PROVE  HistoryOf(s)'
<1>1. /\ CallsOn(s)' = CallsOn(s) /\ ActiveOn(s)' = ActiveOn(s) /\ ActiveOn(s) \subseteq CallsOn(s)
      /\ \A c \in CallsOn(s) :
           /\ c \in DOMAIN calls /\ calls'[c] = calls[c] /\ calls[c].session = s
           /\ Object(c)' = Object(c) /\ Told(s, c - 1)' = Told(s, c - 1)
      /\ data'[s] = data[s] /\ (Stored(s)' <=> Stored(s))
      /\ Stored(s) => heap'[data[s]] = heap[data[s]]
      /\ History(s)' = History(s) /\ (Paused(s)' <=> Paused(s))
      /\ Told(s, Len(calls))' = Told(s, Len(calls))
  BY UntouchedFacts
<1>2. OneAtATime(s)' /\ Kept(s)'
  <2>1. OneAtATime(s) /\ Kept(s)
    BY Zenon DEF HistoryOf
  <2> QED
    BY <1>1, <2>1 DEF OneAtATime, Kept, Running
<1>3. ASSUME NEW c \in ActiveOn(s) PROVE InProgress(s, c)'
  <2>1. InProgress(s, c) /\ c \in CallsOn(s)
    BY <1>1, Zenon DEF HistoryOf
  <2>2. /\ calls'[c] = calls[c] /\ calls[c].session = s /\ calls'[c].session = s
        /\ Object(c)' = Object(c) /\ Told(s, c - 1)' = Told(s, c - 1)
    BY <1>1, <2>1
  <2>3. Load(s, c)' = Load(s, c)
    BY <1>1 DEF Load
  <2>4. Expected(c)' = Expected(c)
    BY <2>2 DEF Expected, Asked, Answered
  <2>5. /\ Entering(c)' <=> Entering(c)
        /\ InTurn(c)' <=> InTurn(c)
        /\ InApproval(c)' <=> InApproval(c)
        /\ InDenial(c)' <=> InDenial(c)
    BY <1>1, <2>2 DEF Entering, InTurn, InApproval, InDenial, At
  <2> QED
    BY <1>1, <2>1, <2>2, <2>3, <2>4, <2>5 DEF InProgress
<1>4. ASSUME ActiveOn(s) = {} PROVE AtRest(s)'
  <2>1. AtRest(s)
    BY <1>4, Zenon DEF HistoryOf
  <2> QED
    BY <1>1, <2>1 DEF AtRest, Paused
<1> QED
  BY <1>1, <1>2, <1>3, <1>4, Zenon DEF HistoryOf

\* What any step of call c leaves alone, in its own session and in the others.
Own(c) ==
  /\ Len(calls') = Len(calls)
  /\ \A d \in DOMAIN calls :
       /\ calls'[d].session = calls[d].session /\ calls'[d].op = calls[d].op
       /\ calls'[d].sensitive = calls[d].sensitive /\ calls'[d].obj = calls[d].obj
       /\ d # c => /\ calls'[d].pc = calls[d].pc /\ calls'[d].outcome = calls[d].outcome
                   /\ calls'[d].req = <<>> <=> calls[d].req = <<>>
  /\ \A s \in Sessions : s # calls[c].session => Untouched(s)

\* What the step makes of the call, its object and the place of its session in
\* the store.
Does(c, pc, outcome, req, base, messages, pending, stored) ==
  /\ Own(c)
  /\ calls'[c].pc = pc /\ calls'[c].outcome = outcome
  /\ calls'[c].req = req /\ calls'[c].base = base
  /\ heap'[calls[c].obj].messages = messages /\ heap'[calls[c].obj].pending = pending
  /\ data'[calls[c].session] = stored

\* A step that changes one call, one object and one place in the store.
LEMMA PlainStep ==
  ASSUME IsolationInv, NEW c \in DOMAIN calls, NEW r, NEW new,
         calls' = [calls EXCEPT ![c] = r],
         r.session = calls[c].session, r.op = calls[c].op,
         r.sensitive = calls[c].sensitive, r.obj = calls[c].obj,
         heap' = [heap EXCEPT ![calls[c].obj] = new],
         \A s \in Sessions : s # calls[c].session => data'[s] = data[s]
  PROVE  Does(c, r.pc, r.outcome, r.req, r.base, new.messages, new.pending, data'[calls[c].session])
<1>1. TypeOK
  BY Zenon DEF IsolationInv
<1>2. /\ Len(calls) \in Nat /\ DOMAIN calls = 1 .. Len(calls) /\ calls \in [1 .. Len(calls) -> Calls]
      /\ heap \in [Numbers -> Objects]
  BY <1>1, Typed
<1>3. calls[c].obj \in Numbers /\ heap[calls[c].obj].id = calls[c].session
  BY CallOf, Zenon
<1>4. /\ DOMAIN calls' = DOMAIN calls /\ calls'[c] = r
      /\ \A d \in DOMAIN calls : d # c => calls'[d] = calls[d]
  BY <1>2
<1>5. Len(calls') = Len(calls)
  <2>1. DOMAIN calls' = 1 .. Len(calls)
    BY <1>2, <1>4
  <2> QED
    BY <1>2, <2>1
<1>6. /\ heap'[calls[c].obj] = new
      /\ \A o \in Numbers : o # calls[c].obj => heap'[o] = heap[o]
  BY <1>2, <1>3
<1>7. ASSUME NEW s \in Sessions, s # calls[c].session PROVE Untouched(s)
  <2>1. \A d \in DOMAIN calls :
          /\ calls'[d].session = calls[d].session
          /\ calls[d].session = s => calls'[d] = calls[d]
    BY <1>4, <1>7
  <2>2. \A d \in DOMAIN calls' : ~(d > Len(calls))
    BY <1>2, <1>4
  <2>3. \A o \in Numbers : o <= Len(calls) /\ heap[o].id = s => heap'[o] = heap[o]
    BY <1>3, <1>6, <1>7
  <2>4. data'[s] = data[s] /\ Len(calls) <= Len(calls')
    BY <1>2, <1>5, <1>7
  <2> QED
    BY <2>1, <2>2, <2>3, <2>4, Zenon DEF Untouched
<1>8. Own(c)
  <2>1. \A d \in DOMAIN calls :
          /\ calls'[d].session = calls[d].session /\ calls'[d].op = calls[d].op
          /\ calls'[d].sensitive = calls[d].sensitive /\ calls'[d].obj = calls[d].obj
          /\ d # c => /\ calls'[d].pc = calls[d].pc /\ calls'[d].outcome = calls[d].outcome
                      /\ calls'[d].req = <<>> <=> calls[d].req = <<>>
    BY <1>4
  <2> QED
    BY <1>5, <1>7, <2>1, Zenon DEF Own
<1> QED
  BY <1>4, <1>6, <1>8, Zenon DEF Does

\* A step that changes one call only.
LEMMA PlainCall ==
  ASSUME IsolationInv, NEW c \in DOMAIN calls, NEW r,
         calls' = [calls EXCEPT ![c] = r],
         r.session = calls[c].session, r.op = calls[c].op,
         r.sensitive = calls[c].sensitive, r.obj = calls[c].obj,
         heap' = heap, data' = data
  PROVE  Does(c, r.pc, r.outcome, r.req, r.base, Object(c).messages, Object(c).pending,
              data[calls[c].session])
<1>1. TypeOK
  BY Zenon DEF IsolationInv
<1>2. heap \in [Numbers -> Objects]
  BY <1>1, Typed
<1>3. calls[c].obj \in Numbers
  BY CallOf, Zenon
<1>4. PICK new : new = heap[calls[c].obj]
  OBVIOUS
<1>5. heap' = [heap EXCEPT ![calls[c].obj] = new]
  BY <1>2, <1>3, <1>4
<1>6. Does(c, r.pc, r.outcome, r.req, r.base, new.messages, new.pending, data'[calls[c].session])
  BY <1>5, PlainStep
<1> QED
  BY <1>4, <1>6, Zenon DEF Object

\* What the steps do that change their call and nothing else.
LEMMA QuietEffects ==
  ASSUME IsolationInv, NEW c \in DOMAIN calls
  PROVE  LET k == calls[c]
             then(pc, outcome, req, base) ==
               Does(c, pc, outcome, req, base, Object(c).messages, Object(c).pending, data[k.session])
         IN
         /\ CheckTurn(c) =>
              IF Object(c).pending # Nil THEN then("done", "refused", k.req, k.base)
                                         ELSE then("append", k.outcome, k.req, k.base)
         /\ CheckResume(c) =>
              IF Object(c).pending = Nil THEN then("done", "refused", k.req, k.base)
              ELSE IF k.op = "deny" THEN then("deny", "denied", Object(c).pending, k.base)
                                    ELSE then("invoke", k.outcome, Object(c).pending, k.base)
         /\ ReadHeader(c) =>
              then(IF k.pc = "append" THEN "write" ELSE "record", k.outcome, k.req, Object(c).messages)
         /\ Request(c) => then("invoke", k.outcome, Object(c).messages, k.base)
         /\ InvokeFails(c) => then("done", "failed", k.req, k.base)
         /\ InvokePauses(c) => then("pause", "paused", k.req, k.base)
         /\ InvokeReplies(c) =>
              then(IF k.op = "turn" THEN "answer" ELSE "restore", "replied", k.req, k.base)
<1> DEFINE k == calls[c]
           Then(pc, outcome, req, base) ==
             Does(c, pc, outcome, req, base, Object(c).messages, Object(c).pending, data[calls[c].session])
<1>1. k \in Calls
  BY CallOf, Zenon
<1>2. ASSUME NEW r, calls' = [calls EXCEPT ![c] = r], heap' = heap, data' = data,
             r.session = k.session, r.op = k.op, r.sensitive = k.sensitive, r.obj = k.obj
      PROVE  Then(r.pc, r.outcome, r.req, r.base)
  BY <1>2, PlainCall
<1> HIDE DEF Then
<1>3. ASSUME CheckTurn(c)
      PROVE  IF Object(c).pending # Nil THEN Then("done", "refused", k.req, k.base)
                                        ELSE Then("append", k.outcome, k.req, k.base)
  <2>0. heap' = heap /\ data' = data
    BY <1>3 DEF CheckTurn
  <2>1. CASE Object(c).pending # Nil
    <3>1. PICK r : r = [k EXCEPT !.pc = "done", !.outcome = "refused"] /\ calls' = [calls EXCEPT ![c] = r]
      BY <1>3, <2>1 DEF CheckTurn, Refuse
    <3>2. /\ r.session = k.session /\ r.op = k.op /\ r.sensitive = k.sensitive /\ r.obj = k.obj
          /\ r.pc = "done" /\ r.outcome = "refused" /\ r.req = k.req /\ r.base = k.base
      BY <1>1, <3>1 DEF Calls
    <3>3. Then(r.pc, r.outcome, r.req, r.base)
      BY <1>2, <2>0, <3>1, <3>2, Zenon
    <3> QED
      BY <2>1, <3>2, <3>3, Zenon
  <2>2. CASE ~(Object(c).pending # Nil)
    <3>1. PICK r : r = [k EXCEPT !.pc = "append"] /\ calls' = [calls EXCEPT ![c] = r]
      BY <1>3, <2>2 DEF CheckTurn, Go
    <3>2. /\ r.session = k.session /\ r.op = k.op /\ r.sensitive = k.sensitive /\ r.obj = k.obj
          /\ r.pc = "append" /\ r.outcome = k.outcome /\ r.req = k.req /\ r.base = k.base
      BY <1>1, <3>1 DEF Calls
    <3>3. Then(r.pc, r.outcome, r.req, r.base)
      BY <1>2, <2>0, <3>1, <3>2, Zenon
    <3> QED
      BY <2>2, <3>2, <3>3, Zenon
  <2> QED
    BY <2>1, <2>2, Zenon
<1>4. ASSUME CheckResume(c)
      PROVE  IF Object(c).pending = Nil THEN Then("done", "refused", k.req, k.base)
             ELSE IF k.op = "deny" THEN Then("deny", "denied", Object(c).pending, k.base)
                                   ELSE Then("invoke", k.outcome, Object(c).pending, k.base)
  <2>0. heap' = heap /\ data' = data
    BY <1>4 DEF CheckResume
  <2>1. CASE Object(c).pending = Nil
    <3>1. PICK r : r = [k EXCEPT !.pc = "done", !.outcome = "refused"] /\ calls' = [calls EXCEPT ![c] = r]
      BY <1>4, <2>1 DEF CheckResume, Refuse
    <3>2. /\ r.session = k.session /\ r.op = k.op /\ r.sensitive = k.sensitive /\ r.obj = k.obj
          /\ r.pc = "done" /\ r.outcome = "refused" /\ r.req = k.req /\ r.base = k.base
      BY <1>1, <3>1 DEF Calls
    <3>3. Then(r.pc, r.outcome, r.req, r.base)
      BY <1>2, <2>0, <3>1, <3>2, Zenon
    <3> QED
      BY <2>1, <3>2, <3>3, Zenon
  <2>2. CASE Object(c).pending # Nil
    <3>1. PICK r : /\ r = [k EXCEPT !.pc = IF k.op = "deny" THEN "deny" ELSE "invoke",
                                    !.req = Object(c).pending,
                                    !.outcome = IF k.op = "deny" THEN "denied" ELSE @]
                   /\ calls' = [calls EXCEPT ![c] = r]
      BY <1>4, <2>2 DEF CheckResume
    <3>2. /\ r.session = k.session /\ r.op = k.op /\ r.sensitive = k.sensitive /\ r.obj = k.obj
          /\ r.req = Object(c).pending /\ r.base = k.base
          /\ k.op = "deny" => r.pc = "deny" /\ r.outcome = "denied"
          /\ k.op # "deny" => r.pc = "invoke" /\ r.outcome = k.outcome
      BY <1>1, <3>1 DEF Calls
    <3>3. Then(r.pc, r.outcome, r.req, r.base)
      BY <1>2, <2>0, <3>1, <3>2, Zenon
    <3> QED
      BY <2>2, <3>2, <3>3, Zenon
  <2> QED
    BY <2>1, <2>2, Zenon
<1>5. ASSUME ReadHeader(c)
      PROVE  Then(IF k.pc = "append" THEN "write" ELSE "record", k.outcome, k.req, Object(c).messages)
  <2>1. PICK r : /\ r = [k EXCEPT !.base = Object(c).messages,
                                  !.pc = IF @ = "append" THEN "write" ELSE "record"]
                 /\ calls' = [calls EXCEPT ![c] = r] /\ heap' = heap /\ data' = data
    BY <1>5 DEF ReadHeader
  <2>2. /\ r.session = k.session /\ r.op = k.op /\ r.sensitive = k.sensitive /\ r.obj = k.obj
        /\ r.pc = (IF k.pc = "append" THEN "write" ELSE "record")
        /\ r.outcome = k.outcome /\ r.req = k.req /\ r.base = Object(c).messages
    BY <1>1, <2>1 DEF Calls
  <2>3. Then(r.pc, r.outcome, r.req, r.base)
    BY <1>2, <2>1, <2>2, Zenon
  <2> QED
    BY <2>2, <2>3, Zenon
<1>6. ASSUME Request(c) PROVE Then("invoke", k.outcome, Object(c).messages, k.base)
  <2>1. PICK r : /\ r = [k EXCEPT !.req = Object(c).messages, !.pc = "invoke"]
                 /\ calls' = [calls EXCEPT ![c] = r] /\ heap' = heap /\ data' = data
    BY <1>6 DEF Request
  <2>2. /\ r.session = k.session /\ r.op = k.op /\ r.sensitive = k.sensitive /\ r.obj = k.obj
        /\ r.pc = "invoke" /\ r.outcome = k.outcome /\ r.req = Object(c).messages /\ r.base = k.base
    BY <1>1, <2>1 DEF Calls
  <2>3. Then(r.pc, r.outcome, r.req, r.base)
    BY <1>2, <2>1, <2>2, Zenon
  <2> QED
    BY <2>2, <2>3, Zenon
<1>7. ASSUME InvokeFails(c) PROVE Then("done", "failed", k.req, k.base)
  <2>1. PICK ran \in BOOLEAN :
          /\ calls' = [calls EXCEPT ![c] = [k EXCEPT !.pc = "done", !.outcome = "failed", !.evaluated = ran]]
          /\ heap' = heap /\ data' = data
    BY <1>7 DEF InvokeFails
  <2>2. PICK r : r = [k EXCEPT !.pc = "done", !.outcome = "failed", !.evaluated = ran]
    OBVIOUS
  <2>3. /\ r.session = k.session /\ r.op = k.op /\ r.sensitive = k.sensitive /\ r.obj = k.obj
        /\ r.pc = "done" /\ r.outcome = "failed" /\ r.req = k.req /\ r.base = k.base
    BY <1>1, <2>2 DEF Calls
  <2>4. Then(r.pc, r.outcome, r.req, r.base)
    BY <1>2, <2>1, <2>2, <2>3, Zenon
  <2> QED
    BY <2>3, <2>4, Zenon
<1>8. ASSUME InvokePauses(c) PROVE Then("pause", "paused", k.req, k.base)
  <2>1. PICK r : /\ r = [k EXCEPT !.pc = "pause", !.evaluated = TRUE, !.outcome = "paused"]
                 /\ calls' = [calls EXCEPT ![c] = r] /\ heap' = heap /\ data' = data
    BY <1>8 DEF InvokePauses
  <2>2. /\ r.session = k.session /\ r.op = k.op /\ r.sensitive = k.sensitive /\ r.obj = k.obj
        /\ r.pc = "pause" /\ r.outcome = "paused" /\ r.req = k.req /\ r.base = k.base
    BY <1>1, <2>1 DEF Calls
  <2>3. Then(r.pc, r.outcome, r.req, r.base)
    BY <1>2, <2>1, <2>2, Zenon
  <2> QED
    BY <2>2, <2>3, Zenon
<1>9. ASSUME InvokeReplies(c)
      PROVE  Then(IF k.op = "turn" THEN "answer" ELSE "restore", "replied", k.req, k.base)
  <2>1. PICK r : /\ r = [k EXCEPT !.evaluated = TRUE, !.outcome = "replied",
                                  !.pc = IF k.op = "turn" THEN "answer" ELSE "restore"]
                 /\ calls' = [calls EXCEPT ![c] = r] /\ heap' = heap /\ data' = data
    BY <1>9 DEF InvokeReplies
  <2>2. /\ r.session = k.session /\ r.op = k.op /\ r.sensitive = k.sensitive /\ r.obj = k.obj
        /\ r.pc = (IF k.op = "turn" THEN "answer" ELSE "restore")
        /\ r.outcome = "replied" /\ r.req = k.req /\ r.base = k.base
    BY <1>1, <2>1 DEF Calls
  <2>3. Then(r.pc, r.outcome, r.req, r.base)
    BY <1>2, <2>1, <2>2, Zenon
  <2> QED
    BY <2>2, <2>3, Zenon
<1> QED
  BY <1>3, <1>4, <1>5, <1>6, <1>7, <1>8, <1>9, Zenon DEF Then

\* What the steps do that write a field of the object, and Save.
LEMMA ObjectEffects ==
  ASSUME IsolationInv, NEW c \in DOMAIN calls
  PROVE  LET k == calls[c]
             then(pc, messages, pending, stored) ==
               Does(c, pc, k.outcome, k.req, k.base, messages, pending, stored)
         IN
         /\ SetPending(c) => then("save", Object(c).messages, k.req, data[k.session])
         /\ Restore(c) => then("answer", k.req, Object(c).pending, data[k.session])
         /\ Clear(c) => then("save", Object(c).messages, Nil, data[k.session])
         /\ Save(c) => then("done", Object(c).messages, Object(c).pending, k.obj)
<1> DEFINE k == calls[c]
           o == heap[calls[c].obj]
           Then(pc, messages, pending, stored) ==
             Does(c, pc, calls[c].outcome, calls[c].req, calls[c].base, messages, pending, stored)
<1>0. TypeOK
  BY Zenon DEF IsolationInv
<1>1. /\ k \in Calls /\ k.obj \in Numbers /\ k.session \in Sessions
      /\ o \in Objects /\ o = Object(c) /\ Object(c).id = k.session
  BY CallOf, Zenon
<1>2. ASSUME NEW r, NEW new, calls' = [calls EXCEPT ![c] = r], heap' = [heap EXCEPT ![calls[c].obj] = new],
             \A s \in Sessions : s # calls[c].session => data'[s] = data[s], NEW pc, r = [k EXCEPT !.pc = pc]
      PROVE  Then(pc, new.messages, new.pending, data'[calls[c].session])
  <2>1. /\ r.session = k.session /\ r.op = k.op /\ r.sensitive = k.sensitive /\ r.obj = k.obj
        /\ r.pc = pc /\ r.outcome = k.outcome /\ r.req = k.req /\ r.base = k.base
    BY <1>1, <1>2 DEF Calls
  <2>2. Does(c, r.pc, r.outcome, r.req, r.base, new.messages, new.pending, data'[calls[c].session])
    BY <1>2, <2>1, PlainStep
  <2> QED
    BY <2>1, <2>2, Zenon
<1> HIDE DEF Then
<1>3. ASSUME SetPending(c) PROVE Then("save", Object(c).messages, k.req, data[k.session])
  <2>1. PICK r, new : /\ r = [k EXCEPT !.pc = "save"] /\ calls' = [calls EXCEPT ![c] = r]
                      /\ new = [o EXCEPT !.pending = k.req] /\ heap' = [heap EXCEPT ![k.obj] = new]
                      /\ data' = data
    BY <1>3 DEF SetPending, Go
  <2>2. new.messages = o.messages /\ new.pending = k.req
    BY <1>1, <2>1 DEF Objects
  <2>3. Then("save", new.messages, new.pending, data'[calls[c].session])
    BY <1>2, <2>1, Zenon
  <2> QED
    BY <1>1, <2>1, <2>2, <2>3, Zenon
<1>4. ASSUME Restore(c) PROVE Then("answer", k.req, Object(c).pending, data[k.session])
  <2>1. PICK r, new : /\ r = [k EXCEPT !.pc = "answer"] /\ calls' = [calls EXCEPT ![c] = r]
                      /\ new = [o EXCEPT !.messages = k.req] /\ heap' = [heap EXCEPT ![k.obj] = new]
                      /\ data' = data
    BY <1>4 DEF Restore, Go
  <2>2. new.messages = k.req /\ new.pending = o.pending
    BY <1>1, <2>1 DEF Objects
  <2>3. Then("answer", new.messages, new.pending, data'[calls[c].session])
    BY <1>2, <2>1, Zenon
  <2> QED
    BY <1>1, <2>1, <2>2, <2>3, Zenon
<1>5. ASSUME Clear(c) PROVE Then("save", Object(c).messages, Nil, data[k.session])
  <2>1. PICK r, new : /\ r = [k EXCEPT !.pc = "save"] /\ calls' = [calls EXCEPT ![c] = r]
                      /\ new = [o EXCEPT !.pending = Nil] /\ heap' = [heap EXCEPT ![k.obj] = new]
                      /\ data' = data
    BY <1>5 DEF Clear, Go
  <2>2. new.messages = o.messages /\ new.pending = Nil
    BY <1>1, <2>1 DEF Objects
  <2>3. Then("save", new.messages, new.pending, data'[calls[c].session])
    BY <1>2, <2>1, Zenon
  <2> QED
    BY <1>1, <2>1, <2>2, <2>3, Zenon
<1>6. ASSUME Save(c) PROVE Then("done", Object(c).messages, Object(c).pending, k.obj)
  <2>1. PICK r : r = [k EXCEPT !.pc = "done"] /\ calls' = [calls EXCEPT ![c] = r]
                 /\ data' = [data EXCEPT ![k.session] = k.obj] /\ heap' = heap
    BY <1>1, <1>6 DEF Save, Go
  <2>2. heap \in [Numbers -> Objects] /\ data \in [Sessions -> Numbers \cup {Nil}]
    BY <1>0, Typed
  <2>3. PICK new : new = o
    OBVIOUS
  <2>4. /\ heap' = [heap EXCEPT ![calls[c].obj] = new] /\ data'[k.session] = k.obj
        /\ \A s \in Sessions : s # calls[c].session => data'[s] = data[s]
    BY <1>1, <2>1, <2>2, <2>3
  <2>5. Then("done", new.messages, new.pending, data'[calls[c].session])
    BY <1>2, <2>1, <2>4, Zenon
  <2> QED
    BY <1>1, <2>3, <2>4, <2>5, Zenon
<1> QED
  BY <1>3, <1>4, <1>5, <1>6, Zenon DEF Then

\* An overwritten slice keeps its length.
LEMMA OverwrittenEmpty ==
  ASSUME NEW base \in Seq(Messages), NEW cap \in Nat, base = <<>> => cap = 0, NEW m \in Messages,
         NEW msgs \in Seq(Messages)
  PROVE  Overwritten(msgs, base, cap, m) = <<>> <=> msgs = <<>>
<1>1. Len(msgs) \in Nat /\ DOMAIN msgs = 1 .. Len(msgs) /\ msgs \in [1 .. Len(msgs) -> Messages]
      /\ Len(base) \in Nat /\ (base = <<>> => Len(base) = 0)
  BY ElementOf
<1>2. CASE msgs # Nil /\ Len(msgs) \in Len(base) + 1 .. cap /\ IsPrefix(base, msgs)
  <2>1. PICK new : new = [msgs EXCEPT ![Len(base) + 1] = m]
    OBVIOUS
  <2>2. new = [i \in DOMAIN msgs |-> new[i]]
    BY <1>1, <2>1
  <2>3. new = <<>> <=> msgs = <<>>
    BY <2>2, SameIndices
  <2> QED
    BY <1>2, <2>1, <2>3, Zenon DEF Overwritten
<1>3. CASE ~(msgs # Nil /\ Len(msgs) \in Len(base) + 1 .. cap /\ IsPrefix(base, msgs))
  BY <1>3, Zenon DEF Overwritten
<1> QED
  BY <1>2, <1>3, Zenon

\* What writing back a longer slice does.
LEMMA WriteBackEffect ==
  ASSUME IsolationInv, NEW c \in DOMAIN calls, NEW m \in Messages, m.of = c, NEW pc,
         WriteBack(c, m, pc), data' = data
  PROVE  /\ Does(c, pc, calls[c].outcome, calls'[c].req, <<>>, Append(calls[c].base, m),
                 heap'[calls[c].obj].pending, data[calls[c].session])
         /\ calls'[c].req = <<>> <=> calls[c].req = <<>>
         /\ Object(c).pending = Nil => heap'[calls[c].obj].pending = Nil
<1>1. TypeOK /\ ObjectsOwned
  BY Zenon DEF IsolationInv
<1>2. /\ Len(calls) \in Nat /\ DOMAIN calls = 1 .. Len(calls) /\ calls \in [1 .. Len(calls) -> Calls]
      /\ heap \in [Numbers -> Objects]
  BY <1>1, Typed
<1> DEFINE base == calls[c].base
<1>4. PICK t : t = calls[c].session
  OBVIOUS
<1>5. /\ base \in Seq(Messages) /\ Owned(calls, base, t)
      /\ calls[c].obj \in Numbers /\ heap[calls[c].obj].id = t /\ Object(c) = heap[calls[c].obj]
  BY <1>4, CallOf, Zenon
<1> DEFINE Shown(msgs, cap) == Overwritten(msgs, base, cap, m)
           Objs(cap) == [o \in Numbers |->
                           [heap[o] EXCEPT !.messages = Shown(@, cap), !.pending = Shown(@, cap)]]
           Others(cap) == [d \in DOMAIN calls |->
                             [calls[d] EXCEPT !.req = Shown(@, cap), !.base = Shown(@, cap)]]
<1>6. PICK cap \in Len(base) .. IF base = <<>> THEN 0 ELSE 2 * MaxCalls :
        /\ heap' = [Objs(cap) EXCEPT ![calls[c].obj].messages = Append(base, m)]
        /\ calls' = [Others(cap) EXCEPT ![c].pc = pc, ![c].base = <<>>]
  BY Zenon DEF WriteBack
<1> HIDE DEF base
<1>7. cap \in Nat /\ (base = <<>> => cap = 0)
  <2>1. MaxCalls \in Nat /\ Len(base) \in Nat /\ (base = <<>> => Len(base) = 0)
    BY <1>5, SessionAssumption, ElementOf
  <2>2. CASE base = <<>>
    <3>1. cap \in 0 .. 0
      BY <1>6, <2>1, <2>2
    <3> QED
      BY <3>1
  <2>3. CASE base # <<>>
    <3>1. cap \in Len(base) .. 2 * MaxCalls
      BY <1>6, <2>3, Zenon
    <3> QED
      BY <2>1, <2>3, <3>1
  <2> QED
    BY <2>2, <2>3
<1>8. \A msgs \in Seq(Messages) : Shown(msgs, cap) = <<>> <=> msgs = <<>>
  BY <1>5, <1>7, OverwrittenEmpty
<1>9. ASSUME NEW s, s # t, NEW msgs \in Seq(Messages), Owned(calls, msgs, s)
      PROVE  Shown(msgs, cap) = msgs
  <2>1. PICK made : made = calls
    OBVIOUS
  <2>2. Owned(made, base, t) /\ Owned(made, msgs, s)
    BY <1>5, <1>9, <2>1, Zenon
  <2> QED
    BY <1>5, <1>7, <1>9, <2>2, OverwrittenOther
<1>10. Shown(Nil, cap) = Nil
  BY DEF Overwritten
<1> HIDE DEF Shown
<1>11. ASSUME NEW o \in Numbers
       PROVE  /\ Objs(cap)[o] = [heap[o] EXCEPT !.messages = Shown(heap[o].messages, cap),
                                                !.pending = Shown(heap[o].pending, cap)]
              /\ Objs(cap)[o].pending = Shown(heap[o].pending, cap)
              /\ [Objs(cap)[o] EXCEPT !.messages = Append(base, m)].pending = Shown(heap[o].pending, cap)
              /\ [Objs(cap)[o] EXCEPT !.messages = Append(base, m)].messages = Append(base, m)
  <2>1. heap[o] \in Objects
    BY <1>2
  <2>2. Objs(cap)[o] = [heap[o] EXCEPT !.messages = Shown(heap[o].messages, cap),
                                       !.pending = Shown(heap[o].pending, cap)]
    OBVIOUS
  <2> HIDE DEF Objs
  <2> QED
    BY <2>1, <2>2 DEF Objects
<1>12. ASSUME NEW d \in DOMAIN calls
       PROVE  Others(cap)[d] = [calls[d] EXCEPT !.req = Shown(calls[d].req, cap),
                                                !.base = Shown(calls[d].base, cap)]
  OBVIOUS
<1>13. DOMAIN Objs(cap) = Numbers /\ DOMAIN Others(cap) = DOMAIN calls
  OBVIOUS
<1> HIDE DEF Objs, Others
<1>14. /\ DOMAIN calls' = DOMAIN calls
       /\ calls'[c] = [Others(cap)[c] EXCEPT !.pc = pc, !.base = <<>>]
       /\ \A d \in DOMAIN calls : d # c => calls'[d] = Others(cap)[d]
       /\ heap'[calls[c].obj] = [Objs(cap)[calls[c].obj] EXCEPT !.messages = Append(base, m)]
       /\ \A o \in Numbers : o # calls[c].obj => heap'[o] = Objs(cap)[o]
       /\ calls' = [d \in DOMAIN calls |-> calls'[d]]
  BY <1>5, <1>6, <1>13
<1>15. Len(calls') = Len(calls)
  <2>1. DOMAIN calls' = 1 .. Len(calls)
    BY <1>2, <1>14
  <2> QED
    BY <1>2, <1>14, <2>1
<1>16. ASSUME NEW d \in DOMAIN calls
       PROVE  /\ calls'[d].session = calls[d].session /\ calls'[d].op = calls[d].op
              /\ calls'[d].sensitive = calls[d].sensitive /\ calls'[d].obj = calls[d].obj
              /\ calls'[d].req = Shown(calls[d].req, cap) /\ calls'[d].outcome = calls[d].outcome
              /\ d # c => calls'[d].pc = calls[d].pc
              /\ calls'[d].req = <<>> <=> calls[d].req = <<>>
  <2>1. calls[d].req \in Seq(Messages)
    BY CallOf, Zenon
  <2>2. Shown(calls[d].req, cap) = <<>> <=> calls[d].req = <<>>
    BY <1>8, <2>1
  <2>3. calls[d] \in Calls
    BY <1>2
  <2>4. PICK r : r = [calls[d] EXCEPT !.req = Shown(calls[d].req, cap), !.base = Shown(calls[d].base, cap)]
    OBVIOUS
  <2>5. CASE d = c
    <3>1. calls'[d] = [r EXCEPT !.pc = pc, !.base = <<>>]
      BY <1>12, <1>14, <2>4, <2>5, Zenon
    <3> QED
      BY <2>2, <2>3, <2>4, <2>5, <3>1 DEF Calls
  <2>6. CASE d # c
    <3>1. calls'[d] = r
      BY <1>12, <1>14, <2>4, <2>6, Zenon
    <3> QED
      BY <2>2, <2>3, <2>4, <3>1 DEF Calls
  <2> QED
    BY <2>5, <2>6, Zenon
<1>17. ASSUME NEW s \in Sessions, s # t PROVE Untouched(s)
  <2>1. ASSUME NEW d \in DOMAIN calls, calls[d].session = s PROVE calls'[d] = calls[d]
    <3>1. /\ calls[d] \in Calls
          /\ calls[d].req \in Seq(Messages) /\ Owned(calls, calls[d].req, s)
          /\ calls[d].base \in Seq(Messages) /\ Owned(calls, calls[d].base, s)
      BY <2>1, CallOf, Zenon
    <3>2. Shown(calls[d].req, cap) = calls[d].req /\ Shown(calls[d].base, cap) = calls[d].base
      BY <1>9, <1>17, <3>1, Zenon
    <3>3. d # c
      BY <1>4, <1>17, <2>1
    <3>4. calls'[d] = [calls[d] EXCEPT !.req = Shown(calls[d].req, cap), !.base = Shown(calls[d].base, cap)]
      BY <1>12, <1>14, <3>3, Zenon
    <3> QED
      BY <3>1, <3>2, <3>4 DEF Calls
  <2>2. ASSUME NEW o \in Numbers, heap[o].id = s PROVE heap'[o] = heap[o]
    <3>1. /\ Owned(calls, heap[o].messages, s)
          /\ heap[o].pending # Nil => Owned(calls, heap[o].pending, s)
      BY <1>1, <2>2, Zenon DEF ObjectsOwned
    <3>2. /\ heap[o] \in Objects /\ heap[o].messages \in Seq(Messages)
          /\ heap[o].pending \in Seq(Messages) \/ heap[o].pending = Nil
      BY <1>2 DEF Objects
    <3>3. Shown(heap[o].messages, cap) = heap[o].messages /\ Shown(heap[o].pending, cap) = heap[o].pending
      <4>1. CASE heap[o].pending = Nil
        BY <1>9, <1>10, <1>17, <3>1, <3>2, <4>1, Zenon
      <4>2. CASE heap[o].pending # Nil
        <5>1. heap[o].pending \in Seq(Messages)
          BY <3>2, <4>2
        <5> QED
          BY <1>9, <1>17, <3>1, <3>2, <4>2, <5>1, Zenon
      <4> QED
        BY <4>1, <4>2
    <3>4. o # calls[c].obj
      BY <1>5, <1>17, <2>2
    <3>5. heap'[o] = [heap[o] EXCEPT !.messages = Shown(heap[o].messages, cap),
                                     !.pending = Shown(heap[o].pending, cap)]
      BY <1>11, <1>14, <3>4, Zenon
    <3> QED
      BY <3>2, <3>3, <3>5 DEF Objects
  <2>3. \A d \in DOMAIN calls' : ~(d > Len(calls))
    BY <1>2, <1>14
  <2>4. data'[s] = data[s] /\ Len(calls) <= Len(calls')
    BY <1>2, <1>15
  <2> QED
    BY <1>16, <2>1, <2>2, <2>3, <2>4, Zenon DEF Untouched
<1>18. Own(c)
  BY <1>4, <1>15, <1>16, <1>17, Zenon DEF Own
<1>19. /\ calls'[c].pc = pc /\ calls'[c].base = <<>>
       /\ heap'[calls[c].obj].messages = Append(base, m)
       /\ heap'[calls[c].obj].pending = Shown(heap[calls[c].obj].pending, cap)
  <2>1. calls[c] \in Calls
    BY <1>2
  <2>2. PICK r : r = [calls[c] EXCEPT !.req = Shown(calls[c].req, cap), !.base = Shown(calls[c].base, cap)]
    OBVIOUS
  <2>3. calls'[c] = [r EXCEPT !.pc = pc, !.base = <<>>]
    BY <1>12, <1>14, <2>2, Zenon
  <2>4. calls'[c].pc = pc /\ calls'[c].base = <<>>
    BY <2>1, <2>2, <2>3 DEF Calls
  <2>5. PICK o \in Numbers : o = calls[c].obj
    BY <1>5
  <2>6. /\ [Objs(cap)[o] EXCEPT !.messages = Append(base, m)].pending = Shown(heap[o].pending, cap)
        /\ [Objs(cap)[o] EXCEPT !.messages = Append(base, m)].messages = Append(base, m)
    BY <1>11, Zenon
  <2>7. heap'[o] = [Objs(cap)[o] EXCEPT !.messages = Append(base, m)]
    BY <1>14, <2>5, Zenon
  <2>8. heap'[o].messages = Append(base, m) /\ heap'[o].pending = Shown(heap[o].pending, cap)
    BY <2>6, <2>7, Zenon
  <2> QED
    BY <2>4, <2>5, <2>8, Zenon
<1>20. Does(c, pc, calls[c].outcome, calls'[c].req, <<>>, Append(calls[c].base, m),
            heap'[calls[c].obj].pending, data[calls[c].session])
  BY <1>16, <1>18, <1>19, Zenon DEF Does, base
<1> QED
  BY <1>5, <1>10, <1>16, <1>19, <1>20, Zenon

\* A step of the one call in progress on session s.
LEMMA OwnFacts ==
  ASSUME IsolationInv, IsolationInv', NEW s \in Sessions, HistoryOf(s), NEW c \in ActiveOn(s), Own(c)
  PROVE  /\ c \in DOMAIN calls /\ c \in CallsOn(s) /\ calls[c].session = s /\ calls[c].pc # "done"
         /\ calls'[c].session = s /\ calls'[c].op = calls[c].op
         /\ calls'[c].sensitive = calls[c].sensitive /\ calls'[c].obj = calls[c].obj
         /\ Object(c)' = heap'[calls[c].obj] /\ Object(c) = heap[calls[c].obj]
         /\ CallsOn(s)' = CallsOn(s) /\ CallsOn(s) \subseteq DOMAIN calls
         /\ \A d \in CallsOn(s) : d # c => d < c /\ calls[d].pc = "done" /\ calls'[d].pc = "done"
         /\ Told(s, c - 1)' = Told(s, c - 1) /\ Told(s, c - 1) \in Seq(Messages)
         /\ ActiveOn(s) = {c} /\ ActiveOn(s)' = (IF calls'[c].pc = "done" THEN {} ELSE {c})
         /\ OneAtATime(s)'
         /\ Stored(s) <=> \E d \in CallsOn(s) : d # c /\ calls[d].outcome \in {"paused", "replied"}
         /\ InProgress(s, c)
<1>1. TypeOK
  BY Zenon DEF IsolationInv
<1>2. /\ Len(calls) \in Nat /\ DOMAIN calls = 1 .. Len(calls) /\ Len(calls) <= MaxCalls
      /\ calls \in [1 .. Len(calls) -> Calls]
  BY <1>1, Typed
<1>3. c \in DOMAIN calls /\ c \in CallsOn(s) /\ calls[c].session = s /\ calls[c].pc # "done"
  BY DEF ActiveOn, Active, Running, CallsOn
<1>4. Len(calls') = Len(calls) /\ DOMAIN calls' = DOMAIN calls
  <2>1. calls' \in Seq(Calls)
    BY Zenon DEF IsolationInv, TypeOK
  <2>2. Len(calls') = Len(calls)
    BY Zenon DEF Own
  <2> QED
    BY <1>2, <2>1, <2>2, ElementOf
<1>5. \A d \in DOMAIN calls :
        /\ calls'[d].session = calls[d].session /\ calls'[d].op = calls[d].op
        /\ calls'[d].sensitive = calls[d].sensitive /\ calls'[d].obj = calls[d].obj
        /\ d # c => calls'[d].pc = calls[d].pc /\ calls'[d].outcome = calls[d].outcome
  BY Zenon DEF Own
<1>6. CallsOn(s)' = CallsOn(s) /\ CallsOn(s) \subseteq DOMAIN calls
  BY <1>4, <1>5 DEF CallsOn
<1>7. /\ OneAtATime(s) /\ Kept(s) /\ InProgress(s, c)
  BY Zenon DEF HistoryOf
<1>8. ASSUME NEW d \in CallsOn(s), d # c
      PROVE  d < c /\ calls[d].pc = "done" /\ calls'[d].pc = "done"
  <2>1. d \in DOMAIN calls /\ d \in Nat /\ c \in Nat
    BY <1>2, <1>3, <1>6
  <2>2. ~(c < d)
    BY <1>3, <1>7 DEF OneAtATime, Running
  <2>3. d < c
    BY <1>8, <2>1, <2>2
  <2>4. calls[d].pc = "done"
    BY <1>3, <1>7, <2>3 DEF OneAtATime, Running
  <2> QED
    BY <1>5, <1>8, <2>1, <2>3, <2>4
<1>9. /\ ActiveOn(s) = {d \in CallsOn(s) : calls[d].pc # "done"}
      /\ ActiveOn(s)' = {d \in CallsOn(s)' : calls'[d].pc # "done"}
  BY DEF ActiveOn, Active, Running, CallsOn
<1>10. ActiveOn(s) = {c} /\ ActiveOn(s)' = (IF calls'[c].pc = "done" THEN {} ELSE {c})
  BY <1>3, <1>6, <1>8, <1>9
<1>11. OneAtATime(s)'
  <2>1. ASSUME NEW a \in CallsOn(s), NEW b \in CallsOn(s), a < b PROVE calls'[a].pc = "done"
    <3>1. a \in Nat /\ b \in Nat /\ c \in Nat
      BY <1>2, <1>3, <1>6
    <3>2. a # c
      BY <1>8, <2>1, <3>1
    <3> QED
      BY <1>8, <3>2
  <2> QED
    BY <1>6, <2>1 DEF OneAtATime, Running
<1>12. Stored(s) <=> \E d \in CallsOn(s) : d # c /\ calls[d].outcome \in {"paused", "replied"}
  BY <1>3, <1>7, <1>8 DEF Kept, Running
<1>13. Told(s, c - 1)' = Told(s, c - 1) /\ Told(s, c - 1) \in Seq(Messages)
  <2>0. MaxCalls \in Nat
    BY SessionAssumption
  <2>1. PICK n \in Nat : n = c - 1 /\ n <= Len(calls) /\ n <= Len(calls') /\ n <= MaxCalls
    BY <1>2, <1>3, <1>4, <2>0
  <2>2. \A d \in 1 .. n : d \in DOMAIN calls /\ d # c
    BY <1>2, <1>3, <2>1
  <2>3. DOMAIN calls' = 1 .. Len(calls') /\ Len(calls') \in Nat
    BY <1>2, <1>4
  <2>4. \A d \in 1 .. n :
          /\ calls'[d].session = calls[d].session
          /\ calls[d].session = s => calls'[d].op = calls[d].op /\ calls'[d].outcome = calls[d].outcome
    BY <1>5, <2>2
  <2>5. Told(s, n)' = Told(s, n)
    BY <1>2, <2>1, <2>3, <2>4, SameTold
  <2>6. Told(s, n) \in Seq(Messages)
    BY <2>1, PiecesTyped
  <2> QED
    BY <2>1, <2>5, <2>6, Zenon
<1>14. Object(c)' = heap'[calls[c].obj] /\ Object(c) = heap[calls[c].obj]
  BY <1>3, <1>5, Zenon DEF Object
<1> QED
  BY <1>3, <1>5, <1>6, <1>7, <1>8, <1>10, <1>11, <1>12, <1>13, <1>14, Zenon

\* What the step of an active call does to it, field by field.
LEMMA DoesFacts ==
  ASSUME IsolationInv, IsolationInv', NEW s \in Sessions, HistoryOf(s), NEW c \in ActiveOn(s),
         NEW pc, NEW outcome, NEW req, NEW base, NEW messages, NEW pending, NEW stored,
         Does(c, pc, outcome, req, base, messages, pending, stored)
  PROVE  /\ Own(c) /\ calls'[c].pc = pc /\ calls'[c].outcome = outcome
         /\ calls'[c].req = req /\ calls'[c].base = base
         /\ calls[c].session = s /\ calls'[c].session = s
         /\ calls'[c].op = calls[c].op /\ calls'[c].sensitive = calls[c].sensitive
         /\ calls'[c].obj = calls[c].obj
         /\ Object(c)'.messages = messages /\ Object(c)'.pending = pending
         /\ data'[s] = stored /\ (data[s] = stored => (Stored(s)' <=> Stored(s)))
<1>1. Own(c)
  BY DEF Does
<1>2. /\ calls[c].session = s /\ calls'[c].session = s
      /\ calls'[c].op = calls[c].op /\ calls'[c].sensitive = calls[c].sensitive
      /\ calls'[c].obj = calls[c].obj /\ Object(c)' = heap'[calls[c].obj]
  BY <1>1, OwnFacts
<1>3. /\ calls'[c].pc = pc /\ calls'[c].outcome = outcome
      /\ calls'[c].req = req /\ calls'[c].base = base
      /\ heap'[calls[c].obj].messages = messages
      /\ heap'[calls[c].obj].pending = pending
      /\ data'[calls[c].session] = stored
  BY Zenon DEF Does
<1>4. data'[s] = stored
  BY <1>2, <1>3
<1> QED
  BY <1>1, <1>2, <1>3, <1>4, Zenon DEF Stored

\* The call goes on.
LEMMA Continues ==
  ASSUME IsolationInv, IsolationInv', NEW s \in Sessions, HistoryOf(s), NEW c \in ActiveOn(s), Own(c),
         calls'[c].pc # "done", data'[s] = data[s],
         Object(c)'.messages = Expected(c)',
         calls'[c].pc \in {"write", "record"} => calls'[c].base = Object(c)'.messages,
         (Entering(c) \/ InTurn(c) \/ InApproval(c) \/ InDenial(c))'
  PROVE  HistoryOf(s)'
<1>1. /\ c \in CallsOn(s) /\ calls'[c].session = s /\ calls'[c].obj = calls[c].obj /\ calls[c].pc # "done"
      /\ CallsOn(s)' = CallsOn(s)
      /\ \A d \in CallsOn(s) : d # c => d < c /\ calls[d].pc = "done" /\ calls'[d].pc = "done"
      /\ Told(s, c - 1)' = Told(s, c - 1)
      /\ ActiveOn(s)' = {c} /\ OneAtATime(s)' /\ InProgress(s, c)
      /\ CallsOn(s) \subseteq DOMAIN calls
  BY OwnFacts
<1>2. Stored(s)' <=> Stored(s)
  BY DEF Stored
<1>3. Kept(s)'
  <2>1. Kept(s)
    BY Zenon DEF HistoryOf
  <2>2. \A d \in DOMAIN calls : d # c => calls'[d].outcome = calls[d].outcome
    BY Zenon DEF Own
  <2> QED
    BY <1>1, <1>2, <2>1, <2>2 DEF Kept, Running
<1>4. InProgress(s, c)'
  <2>1. Load(s, c)' = Load(s, c)
    BY DEF Load
  <2> QED
    BY <1>1, <1>2, <2>1, Zenon DEF InProgress
<1> QED
  BY <1>1, <1>3, <1>4 DEF HistoryOf

\* What the call adds to the history it adds at the end.
LEMMA ExpectedStep ==
  ASSUME IsolationInv, IsolationInv', NEW s \in Sessions, HistoryOf(s), NEW c \in ActiveOn(s), Own(c),
         \/ /\ Object(c)'.messages = Object(c).messages
            /\ (Asked(c)' <=> Asked(c)) /\ (Answered(c)' <=> Answered(c))
         \/ /\ Object(c)'.messages = Append(Object(c).messages, User(c))
            /\ ~Asked(c) /\ Asked(c)' /\ ~Answered(c) /\ ~Answered(c)'
         \/ /\ Object(c)'.messages = Append(Object(c).messages, Reply(c))
            /\ (Asked(c)' <=> Asked(c)) /\ ~Answered(c) /\ Answered(c)'
  PROVE  Object(c)'.messages = Expected(c)'
<1>1. /\ calls[c].session = s /\ calls'[c].session = s
      /\ Told(s, c - 1)' = Told(s, c - 1) /\ InProgress(s, c)
  BY OwnFacts
<1>2. Object(c).messages = Expected(c)
  BY <1>1, Zenon DEF InProgress
<1> DEFINE T == Told(s, c - 1)
           E(asked, answered) ==
             IF answered THEN Append(IF asked THEN Append(T, User(c)) ELSE T, Reply(c))
                         ELSE IF asked THEN Append(T, User(c)) ELSE T
<1>3. Expected(c) = E(Asked(c), Answered(c)) /\ Expected(c)' = E(Asked(c)', Answered(c)')
  BY <1>1 DEF Expected
<1> QED
  BY <1>2, <1>3

\* A history that ends with a user message: the policy looks at that one.
LEMMA LastUserIsLast ==
  ASSUME NEW before \in Seq(Messages), NEW m \in Messages, m.role = "user"
  PROVE  Append(before, m)[LastUser(Append(before, m))] = m
<1>1. PICK msgs : msgs = Append(before, m)
  OBVIOUS
<1>2. PICK n \in Nat : /\ n = Len(before) + 1 /\ DOMAIN msgs = 1 .. n /\ msgs[n] = m
  BY <1>1, Appended, ElementOf
<1>3. PICK users : users = {i \in DOMAIN msgs : msgs[i].role = "user"}
  OBVIOUS
<1>4. n \in users /\ \A j \in users : j \in Nat /\ j <= n
  BY <1>2, <1>3
<1>5. PICK i : i = LastUser(msgs)
  OBVIOUS
<1>6. i = CHOOSE j \in users : \A l \in users : l <= j
  BY <1>3, <1>5, Zenon DEF LastUser
<1>7. i \in users /\ \A l \in users : l <= i
  BY <1>4, <1>6, Zenon
<1>8. i = n
  <2>1. i \in Nat /\ i <= n /\ n <= i
    BY <1>4, <1>7
  <2> QED
    BY <2>1
<1> QED
  BY <1>1, <1>2, <1>5, <1>8, Zenon

\* A turn that is answered at once asked for nothing sensitive.
LEMMA AnsweredPlain ==
  ASSUME IsolationInv, NEW s \in Sessions, NEW c \in ActiveOn(s), InProgress(s, c),
         InTurn(c), calls[c].pc = "invoke", ~Evaluate(calls[c].req, calls[c].op = "approve")
  PROVE  ~calls[c].sensitive
<1>1. c \in DOMAIN calls /\ calls[c].session = s
  BY DEF ActiveOn, Active
<1>2. calls[c].req = Object(c).messages /\ calls[c].op = "turn" /\ calls[c].outcome = "running"
  BY DEF InTurn, At
<1>3. Object(c).messages = Append(Told(s, c - 1), User(c))
  <2>1. Asked(c) /\ ~Answered(c)
    BY <1>2 DEF Asked, Answered
  <2>2. Object(c).messages = Expected(c)
    BY Zenon DEF InProgress
  <2> QED
    BY <1>1, <2>1, <2>2, Zenon DEF Expected
<1>4. c \in Numbers /\ c \in 1 .. Len(calls) /\ Len(calls) <= MaxCalls /\ MaxCalls \in Nat /\ Len(calls) \in Nat
  BY <1>1, Typed, SessionAssumption, Zenon DEF IsolationInv
<1>5. PICK n \in Nat : n = c - 1 /\ n <= MaxCalls
  BY <1>4
<1>6. PICK T \in Seq(Messages) : T = Told(s, c - 1)
  BY <1>5, PiecesTyped
<1>7. PICK m \in Messages : m = User(c) /\ m.role = "user" /\ m.of = c
  <2>1. User(c) \in Messages /\ User(c).role = "user" /\ User(c).of = c
    BY <1>4 DEF User, Messages
  <2> QED
    BY <2>1
<1>8. Append(T, m)[LastUser(Append(T, m))] = m
  BY <1>7, LastUserIsLast
<1>9. ~calls[Append(T, m)[LastUser(Append(T, m))].of].sensitive
  <2>1. calls[c].req = Append(T, m)
    BY <1>2, <1>3, <1>6, <1>7, Zenon
  <2>2. calls[c].op # "approve"
    BY <1>2
  <2> QED
    BY <2>1, <2>2, Zenon DEF Evaluate
<1> QED
  BY <1>7, <1>8, <1>9, Zenon

\* The steps of Turn and Resume that are not the last keep the history.
LEMMA HistoryQuiet ==
  ASSUME IsolationInv, IsolationInv', NEW s \in Sessions, HistoryOf(s), NEW c \in ActiveOn(s),
         \/ CheckTurn(c) /\ Object(c).pending = Nil
         \/ CheckResume(c) /\ Object(c).pending # Nil
         \/ ReadHeader(c) \/ Request(c) \/ InvokePauses(c) \/ InvokeReplies(c)
  PROVE  HistoryOf(s)'
<1> DEFINE k == calls[c]
           Then(pc, outcome, req, base) ==
             Does(c, pc, outcome, req, base, Object(c).messages, Object(c).pending, data[calls[c].session])
<1>1. c \in DOMAIN calls /\ InProgress(s, c) /\ calls[c].session = s
  BY Zenon DEF HistoryOf, ActiveOn, Active
<1>2. Entering(c) \/ InTurn(c) \/ InApproval(c) \/ InDenial(c)
  BY <1>1, Zenon DEF InProgress
<1>3. calls[c].op \in Ops
  <2>1. calls[c] \in Calls
    BY <1>1, CallOf, Zenon
  <2> QED
    BY <2>1 DEF Calls
<1>4. ASSUME NEW pc, NEW outcome, NEW req, NEW base, Then(pc, outcome, req, base)
      PROVE  /\ Own(c) /\ calls'[c].pc = pc /\ calls'[c].outcome = outcome
             /\ calls'[c].req = req /\ calls'[c].base = base
             /\ calls[c].session = s /\ calls'[c].session = s
             /\ calls'[c].op = calls[c].op /\ calls'[c].sensitive = calls[c].sensitive
             /\ Object(c)'.messages = Object(c).messages /\ Object(c)'.pending = Object(c).pending
             /\ data'[s] = data[s] /\ (Stored(s)' <=> Stored(s))
  <2>1. PICK messages, pending, stored :
          messages = Object(c).messages /\ pending = Object(c).pending /\ stored = data[calls[c].session]
    OBVIOUS
  <2>2. Does(c, pc, outcome, req, base, messages, pending, stored)
    BY <1>4, <2>1
  <2> QED
    BY <1>1, <2>1, <2>2, DoesFacts
<1> HIDE DEF Then
<1>5. ASSUME NEW pc, NEW outcome, NEW req, NEW base, Then(pc, outcome, req, base),
             pc # "done", pc \in {"write", "record"} => base = Object(c).messages,
             Asked(c)' <=> Asked(c), Answered(c)' <=> Answered(c),
             (Entering(c) \/ InTurn(c) \/ InApproval(c) \/ InDenial(c))'
      PROVE  HistoryOf(s)'
  <2>1. /\ Own(c) /\ calls'[c].pc = pc /\ calls'[c].base = base
        /\ Object(c)'.messages = Object(c).messages /\ data'[s] = data[s]
    BY <1>4, <1>5
  <2>2. Object(c)'.messages = Expected(c)'
    BY <1>5, <2>1, ExpectedStep
  <2> QED
    BY <1>5, <2>1, <2>2, Continues
<1>6. CASE CheckTurn(c) /\ Object(c).pending = Nil
  <2>1. Then("append", k.outcome, k.req, k.base)
    BY <1>1, <1>6, QuietEffects, Zenon DEF Then
  <2>2. k.pc = "check" /\ k.op = "turn" /\ Entering(c)
    BY <1>2, <1>6 DEF CheckTurn, InTurn, InApproval, InDenial, At
  <2>3. InTurn(c)' /\ (Asked(c)' <=> Asked(c)) /\ (Answered(c)' <=> Answered(c))
    BY <1>4, <1>6, <2>1, <2>2 DEF Entering, InTurn, At, Asked, Answered
  <2> QED
    BY <1>5, <2>1, <2>3
<1>7. CASE CheckResume(c) /\ Object(c).pending # Nil
  <2>1. k.pc = "check" /\ k.op # "turn" /\ Entering(c)
    BY <1>2, <1>7 DEF CheckResume, InTurn, InApproval, InDenial, At
  <2>2. CASE k.op = "deny"
    <3>1. Then("deny", "denied", Object(c).pending, k.base)
      BY <1>1, <1>7, <2>2, QuietEffects, Zenon DEF Then
    <3>2. InDenial(c)' /\ (Asked(c)' <=> Asked(c)) /\ (Answered(c)' <=> Answered(c))
      BY <1>4, <1>7, <2>1, <2>2, <3>1 DEF Entering, InDenial, At, Asked, Answered
    <3> QED
      BY <1>5, <3>1, <3>2
  <2>3. CASE k.op # "deny"
    <3>1. Then("invoke", k.outcome, Object(c).pending, k.base)
      BY <1>1, <1>7, <2>3, QuietEffects, Zenon DEF Then
    <3>2. InApproval(c)' /\ (Asked(c)' <=> Asked(c)) /\ (Answered(c)' <=> Answered(c))
      BY <1>3, <1>4, <1>7, <2>1, <2>3, <3>1 DEF Ops, Entering, InApproval, At, Asked, Answered
    <3> QED
      BY <1>5, <3>1, <3>2
  <2> QED
    BY <2>2, <2>3
<1>8. CASE ReadHeader(c)
  <2>1. Then(IF k.pc = "append" THEN "write" ELSE "record", k.outcome, k.req, Object(c).messages)
    BY <1>1, <1>8, QuietEffects, Zenon DEF Then
  <2>2. PICK pc : /\ pc = (IF k.pc = "append" THEN "write" ELSE "record")
                  /\ Then(pc, k.outcome, k.req, Object(c).messages)
    BY <2>1
  <2>3. k.pc \in {"append", "answer"} /\ (InTurn(c) \/ InApproval(c))
    BY <1>2, <1>8 DEF ReadHeader, Entering, InDenial, At
  <2>4. (InTurn(c) \/ InApproval(c))' /\ (Asked(c)' <=> Asked(c)) /\ (Answered(c)' <=> Answered(c))
    BY <1>4, <2>2, <2>3 DEF InTurn, InApproval, At, Asked, Answered
  <2> QED
    BY <1>5, <2>2, <2>4
<1>9. CASE Request(c)
  <2>1. Then("invoke", k.outcome, Object(c).messages, k.base)
    BY <1>1, <1>9, QuietEffects, Zenon DEF Then
  <2>2. k.pc = "request" /\ InTurn(c)
    BY <1>2, <1>9 DEF Request, Entering, InApproval, InDenial, At
  <2>3. InTurn(c)' /\ (Asked(c)' <=> Asked(c)) /\ (Answered(c)' <=> Answered(c))
    BY <1>4, <2>1, <2>2 DEF InTurn, At, Asked, Answered
  <2> QED
    BY <1>5, <2>1, <2>3
<1>10. CASE InvokePauses(c)
  <2>1. Then("pause", "paused", k.req, k.base)
    BY <1>1, <1>10, QuietEffects, Zenon DEF Then
  <2>2. k.pc = "invoke" /\ k.op # "approve"
    BY <1>10 DEF InvokePauses, Evaluate
  <2>3. InTurn(c)
    BY <1>2, <2>2 DEF Entering, InApproval, InDenial, At
  <2>4. InTurn(c)' /\ (Asked(c)' <=> Asked(c)) /\ (Answered(c)' <=> Answered(c))
    BY <1>4, <2>1, <2>2, <2>3 DEF InTurn, At, Asked, Answered
  <2> QED
    BY <1>5, <2>1, <2>4
<1>11. CASE InvokeReplies(c)
  <2>1. k.pc = "invoke" /\ (InTurn(c) \/ InApproval(c))
    BY <1>2, <1>11 DEF InvokeReplies, Entering, InDenial, At
  <2>2. CASE k.op = "turn"
    <3>1. Then("answer", "replied", k.req, k.base)
      BY <1>1, <1>11, <2>2, QuietEffects, Zenon DEF Then
    <3>2. ~k.sensitive
      <4>1. InTurn(c) /\ ~Evaluate(k.req, k.op = "approve")
        BY <1>11, <2>1, <2>2 DEF InvokeReplies, InApproval
      <4> QED
        BY <1>1, <2>1, <4>1, AnsweredPlain
    <3>3. InTurn(c)' /\ (Asked(c)' <=> Asked(c)) /\ (Answered(c)' <=> Answered(c))
      BY <1>4, <2>1, <2>2, <3>1, <3>2 DEF InTurn, InApproval, At, Asked, Answered
    <3> QED
      BY <1>5, <3>1, <3>3
  <2>3. CASE k.op # "turn"
    <3>1. Then("restore", "replied", k.req, k.base)
      BY <1>1, <1>11, <2>3, QuietEffects, Zenon DEF Then
    <3>2. InApproval(c)' /\ (Asked(c)' <=> Asked(c)) /\ (Answered(c)' <=> Answered(c))
      BY <1>4, <2>1, <2>3, <3>1 DEF InTurn, InApproval, At, Asked, Answered
    <3> QED
      BY <1>5, <3>1, <3>2
  <2> QED
    BY <2>2, <2>3
<1> QED
  BY <1>6, <1>7, <1>8, <1>9, <1>10, <1>11

\* So do the steps that write a field of the session object.
LEMMA HistoryWrites ==
  ASSUME IsolationInv, IsolationInv', NEW s \in Sessions, HistoryOf(s), NEW c \in ActiveOn(s),
         AppendUser(c) \/ SetPending(c) \/ Restore(c) \/ AppendReply(c) \/ Clear(c)
  PROVE  HistoryOf(s)'
<1> DEFINE k == calls[c]
           Then(pc, req, base, messages, pending) ==
             Does(c, pc, calls[c].outcome, req, base, messages, pending, data[calls[c].session])
<1>1. c \in DOMAIN calls /\ InProgress(s, c) /\ calls[c].session = s
  BY Zenon DEF HistoryOf, ActiveOn, Active
<1>2. Entering(c) \/ InTurn(c) \/ InApproval(c) \/ InDenial(c)
  BY <1>1, Zenon DEF InProgress
<1>3. k.pc \in {"write", "record"} => k.base = Object(c).messages
  BY <1>1, Zenon DEF InProgress
<1>4. ASSUME NEW pc, NEW req, NEW base, NEW messages, NEW pending, Then(pc, req, base, messages, pending)
      PROVE  /\ Own(c) /\ calls'[c].pc = pc /\ calls'[c].outcome = calls[c].outcome
             /\ calls'[c].req = req /\ calls'[c].base = base
             /\ calls[c].session = s /\ calls'[c].session = s
             /\ calls'[c].op = calls[c].op /\ calls'[c].sensitive = calls[c].sensitive
             /\ Object(c)'.messages = messages /\ Object(c)'.pending = pending
             /\ data'[s] = data[s] /\ (Stored(s)' <=> Stored(s))
  <2>1. PICK outcome, stored : outcome = calls[c].outcome /\ stored = data[calls[c].session]
    OBVIOUS
  <2>2. Does(c, pc, outcome, req, base, messages, pending, stored)
    BY <1>4, <2>1
  <2> QED
    BY <1>1, <2>1, <2>2, DoesFacts
<1> HIDE DEF Then
<1>5. ASSUME Own(c), calls'[c].pc \notin {"done", "write", "record"}, data'[s] = data[s],
             \/ /\ Object(c)'.messages = Object(c).messages
                /\ (Asked(c)' <=> Asked(c)) /\ (Answered(c)' <=> Answered(c))
             \/ /\ Object(c)'.messages = Append(Object(c).messages, User(c))
                /\ ~Asked(c) /\ Asked(c)' /\ ~Answered(c) /\ ~Answered(c)'
             \/ /\ Object(c)'.messages = Append(Object(c).messages, Reply(c))
                /\ (Asked(c)' <=> Asked(c)) /\ ~Answered(c) /\ Answered(c)',
             (InTurn(c) \/ InApproval(c) \/ InDenial(c))'
      PROVE  HistoryOf(s)'
  <2>1. Object(c)'.messages = Expected(c)'
    BY <1>5, ExpectedStep
  <2> QED
    BY <1>5, <2>1, Continues
<1>6. CASE AppendUser(c)
  <2>1. k.pc = "write" /\ InTurn(c) /\ k.base = Object(c).messages
    BY <1>2, <1>3, <1>6 DEF AppendUser, Entering, InApproval, InDenial, At
  <2>2. PICK m \in Messages : m = User(c) /\ m.of = c
    <3>1. c \in Numbers
      BY <1>1, Typed, Zenon DEF IsolationInv
    <3>2. User(c) \in Messages /\ User(c).of = c
      BY <3>1 DEF User, Messages
    <3> QED
      BY <3>2
  <2>3. PICK req, pending :
          /\ Then("request", req, <<>>, Append(Object(c).messages, User(c)), pending)
          /\ req = <<>> <=> k.req = <<>>
          /\ Object(c).pending = Nil => pending = Nil
    <3>1. WriteBack(c, m, "request") /\ data' = data
      BY <1>6, <2>2, Zenon DEF AppendUser
    <3>2. /\ Then("request", calls'[c].req, <<>>, Append(calls[c].base, m), heap'[calls[c].obj].pending)
          /\ calls'[c].req = <<>> <=> calls[c].req = <<>>
          /\ Object(c).pending = Nil => heap'[calls[c].obj].pending = Nil
      BY <1>1, <2>2, <3>1, WriteBackEffect DEF Then
    <3> QED
      BY <2>1, <2>2, <3>2, Zenon
  <2>4. /\ InTurn(c)' /\ ~Asked(c) /\ Asked(c)' /\ ~Answered(c) /\ ~Answered(c)'
    BY <1>4, <2>1, <2>3 DEF InTurn, At, Asked, Answered
  <2>5. /\ Own(c) /\ calls'[c].pc = "request" /\ data'[s] = data[s]
        /\ Object(c)'.messages = Append(Object(c).messages, User(c))
    BY <1>4, <2>3
  <2> QED
    BY <1>5, <2>4, <2>5
<1>7. CASE SetPending(c)
  <2>1. Then("save", k.req, k.base, Object(c).messages, k.req)
    BY <1>1, <1>7, ObjectEffects, Zenon DEF Then
  <2>2. k.pc = "pause" /\ InTurn(c)
    BY <1>2, <1>7 DEF SetPending, Entering, InApproval, InDenial, At
  <2>3. InTurn(c)' /\ (Asked(c)' <=> Asked(c)) /\ (Answered(c)' <=> Answered(c))
    BY <1>4, <2>1, <2>2 DEF InTurn, At, Asked, Answered
  <2>4. /\ Own(c) /\ calls'[c].pc = "save" /\ data'[s] = data[s]
        /\ Object(c)'.messages = Object(c).messages
    BY <1>4, <2>1
  <2> QED
    BY <1>5, <2>3, <2>4
<1>8. CASE Restore(c)
  <2>1. Then("answer", k.req, k.base, k.req, Object(c).pending)
    BY <1>1, <1>8, ObjectEffects, Zenon DEF Then
  <2>2. k.pc = "restore" /\ InApproval(c) /\ k.req = Object(c).messages
    BY <1>2, <1>8 DEF Restore, Entering, InTurn, InApproval, InDenial, At
  <2>3. InApproval(c)' /\ (Asked(c)' <=> Asked(c)) /\ (Answered(c)' <=> Answered(c))
    BY <1>4, <2>1, <2>2 DEF InApproval, At, Asked, Answered
  <2>4. /\ Own(c) /\ calls'[c].pc = "answer" /\ data'[s] = data[s]
        /\ Object(c)'.messages = Object(c).messages
    BY <1>4, <2>1, <2>2
  <2> QED
    BY <1>5, <2>3, <2>4
<1>9. CASE AppendReply(c)
  <2>1. k.pc = "record" /\ (InTurn(c) \/ InApproval(c)) /\ k.base = Object(c).messages
    BY <1>2, <1>3, <1>9 DEF AppendReply, Entering, InDenial, At
  <2>2. PICK m \in Messages : m = Reply(c) /\ m.of = c
    <3>1. c \in Numbers
      BY <1>1, Typed, Zenon DEF IsolationInv
    <3>2. Reply(c) \in Messages /\ Reply(c).of = c
      BY <3>1 DEF Reply, Messages
    <3> QED
      BY <3>2
  <2>3. PICK pc, req, pending :
          /\ Then(pc, req, <<>>, Append(Object(c).messages, Reply(c)), pending)
          /\ pc = (IF k.op = "turn" THEN "save" ELSE "clear")
          /\ Object(c).pending = Nil => pending = Nil
    <3>0. PICK pc : pc = (IF k.op = "turn" THEN "save" ELSE "clear")
      OBVIOUS
    <3>1. WriteBack(c, m, pc) /\ data' = data
      BY <1>9, <2>2, <3>0, Zenon DEF AppendReply
    <3>2. /\ Then(pc, calls'[c].req, <<>>, Append(calls[c].base, m), heap'[calls[c].obj].pending)
          /\ Object(c).pending = Nil => heap'[calls[c].obj].pending = Nil
      BY <1>1, <2>2, <3>1, WriteBackEffect DEF Then
    <3> QED
      BY <2>1, <2>2, <3>0, <3>2, Zenon
  <2>4. /\ (InTurn(c) \/ InApproval(c))'
        /\ (Asked(c)' <=> Asked(c)) /\ ~Answered(c) /\ Answered(c)'
    BY <1>4, <2>1, <2>3 DEF InTurn, InApproval, At, Asked, Answered
  <2>5. /\ Own(c) /\ calls'[c].pc \in {"save", "clear"} /\ data'[s] = data[s]
        /\ Object(c)'.messages = Append(Object(c).messages, Reply(c))
    BY <1>4, <2>3
  <2> QED
    BY <1>5, <2>4, <2>5
<1>10. CASE Clear(c)
  <2>1. Then("save", k.req, k.base, Object(c).messages, Nil)
    BY <1>1, <1>10, ObjectEffects, Zenon DEF Then
  <2>2. k.pc \in {"clear", "deny"} /\ (InApproval(c) \/ InDenial(c))
    BY <1>2, <1>10 DEF Clear, Entering, InTurn, At
  <2>3. (InApproval(c) \/ InDenial(c))' /\ (Asked(c)' <=> Asked(c)) /\ (Answered(c)' <=> Answered(c))
    BY <1>4, <2>1, <2>2 DEF InApproval, InDenial, At, Asked, Answered
  <2>4. /\ Own(c) /\ calls'[c].pc = "save" /\ data'[s] = data[s]
        /\ Object(c)'.messages = Object(c).messages
    BY <1>4, <2>1
  <2> QED
    BY <1>5, <2>3, <2>4
<1> QED
  BY <1>6, <1>7, <1>8, <1>9, <1>10

\* One message more, and two.
LEMMA JoinMessages ==
  ASSUME NEW T \in Seq(Messages), NEW u \in Messages, NEW r \in Messages
  PROVE  /\ T \o (<<>> \o <<>>) = T
         /\ T \o (<<u>> \o <<>>) = Append(T, u)
         /\ T \o (<<>> \o <<r>>) = Append(T, r)
         /\ T \o (<<u>> \o <<r>>) = Append(Append(T, u), r)
         /\ <<>> \o <<>> \in Seq(Messages) /\ <<u>> \o <<>> \in Seq(Messages)
         /\ <<>> \o <<r>> \in Seq(Messages) /\ <<u>> \o <<r>> \in Seq(Messages)
<1>1. <<u>> \in Seq(Messages) /\ <<r>> \in Seq(Messages) /\ <<>> \in Seq(Messages)
  OBVIOUS
<1>2. <<>> \o <<>> = <<>> /\ <<u>> \o <<>> = <<u>> /\ <<>> \o <<r>> = <<r>>
  OBVIOUS
<1>3. T \o <<>> = T /\ T \o <<u>> = Append(T, u) /\ T \o <<r>> = Append(T, r)
  OBVIOUS
<1>4. T \o (<<u>> \o <<r>>) = Append(Append(T, u), r) /\ <<u>> \o <<r>> \in Seq(Messages)
  OBVIOUS
<1> QED
  BY <1>1, <1>2, <1>3, <1>4

\* What the call in progress will have added to the history of its session.
LEMMA ToldAfter ==
  ASSUME IsolationInv, IsolationInv', NEW s \in Sessions, HistoryOf(s), NEW c \in ActiveOn(s), Own(c)
  PROVE  LET before == Told(s, c - 1)
             outcome == calls'[c].outcome
             asks == /\ calls[c].op = "turn"
                     /\ outcome \in {"paused", "replied"} \/ (outcome = "failed" /\ Stored(s))
             answers == calls[c].op # "deny" /\ outcome = "replied"
             asked == IF asks THEN Append(before, User(c)) ELSE before
         IN  Told(s, Len(calls))' = (IF answers THEN Append(asked, Reply(c)) ELSE asked)
<1>1. /\ c \in DOMAIN calls /\ calls[c].session = s /\ calls'[c].session = s
      /\ calls'[c].op = calls[c].op
      /\ CallsOn(s)' = CallsOn(s) /\ CallsOn(s) \subseteq DOMAIN calls /\ c \in CallsOn(s)
      /\ \A d \in CallsOn(s) : d # c => d < c
      /\ Told(s, c - 1) \in Seq(Messages)
      /\ Stored(s) <=> \E d \in CallsOn(s) : d # c /\ calls[d].outcome \in {"paused", "replied"}
  BY OwnFacts
<1>2. TypeOK /\ calls' \in Seq(Calls)
  BY Zenon DEF IsolationInv, TypeOK
<1>3. /\ Len(calls) \in Nat /\ DOMAIN calls = 1 .. Len(calls) /\ c \in Numbers
  BY <1>1, <1>2, Typed
<1>4. Len(calls') = Len(calls) /\ DOMAIN calls' = 1 .. Len(calls') /\ DOMAIN calls' = DOMAIN calls
  <2>1. Len(calls') = Len(calls)
    BY Zenon DEF Own
  <2> QED
    BY <1>2, <1>3, <2>1, ElementOf
<1>5. \A d \in DOMAIN calls :
        /\ calls'[d].session = calls[d].session /\ calls'[d].op = calls[d].op
        /\ d # c => calls'[d].outcome = calls[d].outcome
  BY Zenon DEF Own
<1>6. StoredBefore(c)' <=> Stored(s)
  <2>1. \A d \in CallsOn(s) : d < c <=> d # c
    BY <1>1, <1>3
  <2> QED
    BY <1>1, <1>5, <2>1 DEF StoredBefore
<1>7. PICK u \in Messages, r \in Messages : u = User(c) /\ r = Reply(c)
  <2>1. User(c) \in Messages /\ Reply(c) \in Messages
    BY <1>3 DEF User, Reply, Messages
  <2> QED
    BY <2>1
<1>8. PICK T \in Seq(Messages) : T = Told(s, c - 1)
  BY <1>1
<1> DEFINE Asks == /\ calls[c].op = "turn"
                   /\ calls'[c].outcome \in {"paused", "replied"} \/ (calls'[c].outcome = "failed" /\ Stored(s))
           Answers == calls[c].op # "deny" /\ calls'[c].outcome = "replied"
<1>9. PICK a \in BOOLEAN, b \in BOOLEAN : (a <=> Asks) /\ (b <=> Answers)
  OBVIOUS
<1>10. PICK x : x = (IF a THEN <<u>> ELSE <<>>) \o (IF b THEN <<r>> ELSE <<>>)
  OBVIOUS
<1>11. Contribution(c)' = x
  <2>1. (InputStays(c)' <=> a) /\ (AnswerStays(c)' <=> b)
    BY <1>1, <1>6, <1>9 DEF InputStays, AnswerStays
  <2>2. User(c)' = u /\ Reply(c)' = r
    BY <1>7 DEF User, Reply
  <2> QED
    BY <1>7, <1>10, <2>1, <2>2, Zenon DEF Contribution
<1>12. x \in Seq(Messages)
       /\ T \o x = (IF b THEN Append(IF a THEN Append(T, u) ELSE T, r) ELSE IF a THEN Append(T, u) ELSE T)
  <2>1. /\ T \o (<<>> \o <<>>) = T
        /\ T \o (<<u>> \o <<>>) = Append(T, u)
        /\ T \o (<<>> \o <<r>>) = Append(T, r)
        /\ T \o (<<u>> \o <<r>>) = Append(Append(T, u), r)
        /\ <<>> \o <<>> \in Seq(Messages) /\ <<u>> \o <<>> \in Seq(Messages)
        /\ <<>> \o <<r>> \in Seq(Messages) /\ <<u>> \o <<r>> \in Seq(Messages)
    BY JoinMessages
  <2>2. CASE a /\ b
    BY <1>10, <2>1, <2>2, Zenon
  <2>3. CASE a /\ ~b
    BY <1>10, <2>1, <2>3, Zenon
  <2>4. CASE ~a /\ b
    BY <1>10, <2>1, <2>4, Zenon
  <2>5. CASE ~a /\ ~b
    BY <1>10, <2>1, <2>5, Zenon
  <2> QED
    BY <2>2, <2>3, <2>4, <2>5
<1>13. Told(s, Len(calls))' = Told(s, c - 1) \o x
  <2>1. \A d \in 1 .. c - 1 : d \in DOMAIN calls /\ d # c
    BY <1>1, <1>3
  <2>2. \A d \in 1 .. c - 1 :
          /\ calls'[d].session = calls[d].session
          /\ calls[d].session = s => calls'[d].op = calls[d].op /\ calls'[d].outcome = calls[d].outcome
    BY <1>5, <2>1
  <2>3. ASSUME NEW d \in c + 1 .. Len(calls) PROVE calls'[d].session # s
    <3>1. d \in DOMAIN calls /\ ~(d < c) /\ d # c
      BY <1>1, <1>3
    <3>2. d \notin CallsOn(s)
      BY <1>1, <3>1
    <3> QED
      BY <1>5, <3>1, <3>2 DEF CallsOn
  <2> QED
    BY <1>1, <1>2, <1>4, <1>11, <1>12, <2>2, <2>3, ToldAtReturn
<1> HIDE DEF Asks, Answers
<1>14. Told(s, Len(calls))' = (IF Answers THEN Append(IF Asks THEN Append(Told(s, c - 1), User(c)) ELSE Told(s, c - 1), Reply(c))
                                ELSE IF Asks THEN Append(Told(s, c - 1), User(c)) ELSE Told(s, c - 1))
  BY <1>7, <1>8, <1>9, <1>12, <1>13, Zenon
<1> QED
  BY <1>14, Zenon DEF Asks, Answers

\* The return of a call: the session is at rest.
LEMMA Returns ==
  ASSUME IsolationInv, IsolationInv', NEW s \in Sessions, HistoryOf(s), NEW c \in ActiveOn(s), Own(c),
         calls'[c].pc = "done", Stored(s)' => data'[s] = calls[c].obj,
         Stored(s)' <=> Stored(s) \/ calls'[c].outcome \in {"paused", "replied"},
         Stored(s)' => Object(c)'.messages = Told(s, Len(calls))',
         ~Stored(s)' => Told(s, Len(calls))' = <<>>,
         Object(c)'.pending # Nil => Object(c)'.pending = Object(c)'.messages
  PROVE  HistoryOf(s)'
<1>1. /\ c \in CallsOn(s) /\ calls'[c].obj = calls[c].obj /\ CallsOn(s) \subseteq DOMAIN calls
      /\ CallsOn(s)' = CallsOn(s) /\ ActiveOn(s)' = {} /\ OneAtATime(s)'
      /\ Object(c)' = heap'[calls[c].obj]
      /\ \A d \in CallsOn(s) : d # c => d < c /\ calls[d].pc = "done" /\ calls'[d].pc = "done"
      /\ Stored(s) <=> \E d \in CallsOn(s) : d # c /\ calls[d].outcome \in {"paused", "replied"}
  BY OwnFacts
<1>2. \A d \in DOMAIN calls : d # c => calls'[d].outcome = calls[d].outcome
  BY Zenon DEF Own
<1>3. Kept(s)'
  BY <1>1, <1>2 DEF Kept, Running
<1>4. AtRest(s)'
  <2>1. CASE Stored(s)'
    <3>1. History(s)' = Object(c)'.messages /\ heap'[data'[s]] = Object(c)'
      BY <1>1, <2>1 DEF History
    <3>2. History(s)' = Told(s, Len(calls))'
      BY <2>1, <3>1
    <3>3. Paused(s)' => heap'[data'[s]].pending = History(s)'
      BY <3>1, Zenon DEF Paused
    <3> QED
      BY <3>2, <3>3, Zenon DEF AtRest
  <2>2. CASE ~Stored(s)'
    <3>1. History(s)' = <<>> /\ ~Paused(s)'
      BY <2>2 DEF History, Paused
    <3> QED
      BY <2>2, <3>1, Zenon DEF AtRest
  <2> QED
    BY <2>1, <2>2
<1> QED
  BY <1>1, <1>3, <1>4 DEF HistoryOf

\* So do the last steps of Turn and Resume.
LEMMA HistoryReturns ==
  ASSUME IsolationInv, IsolationInv', NEW s \in Sessions, HistoryOf(s), NEW c \in ActiveOn(s),
         \/ CheckTurn(c) /\ Object(c).pending # Nil
         \/ CheckResume(c) /\ Object(c).pending = Nil
         \/ InvokeFails(c) \/ Save(c)
  PROVE  HistoryOf(s)'
<1> DEFINE k == calls[c]
           T == Told(s, c - 1)
           Then(outcome, stored) ==
             Does(c, "done", outcome, calls[c].req, calls[c].base, Object(c).messages, Object(c).pending, stored)
<1>1. c \in DOMAIN calls /\ InProgress(s, c) /\ calls[c].session = s
  BY Zenon DEF HistoryOf, ActiveOn, Active
<1>2. Entering(c) \/ InTurn(c) \/ InApproval(c) \/ InDenial(c)
  BY <1>1, Zenon DEF InProgress
<1>3. k.obj = Load(s, c) /\ (Stored(s) \/ T = <<>>) /\ Object(c).messages = Expected(c)
  BY <1>1, Zenon DEF InProgress
<1>4. Stored(s) => data[s] = k.obj
  BY <1>3 DEF Load, Stored
<1>5. k.obj \in Numbers /\ k.op \in Ops
  <2>1. calls[c] \in Calls
    BY <1>1, CallOf, Zenon
  <2> QED
    BY <2>1 DEF Calls
<1>6. k.obj # Nil
  BY <1>5, NilAssumption
<1>7. ASSUME NEW outcome, NEW stored, Then(outcome, stored)
      PROVE  /\ Own(c) /\ calls'[c].pc = "done" /\ calls'[c].outcome = outcome
             /\ Object(c)'.messages = Object(c).messages /\ Object(c)'.pending = Object(c).pending
             /\ data'[s] = stored
  <2>1. PICK pc, req, base, messages, pending :
          /\ pc = "done" /\ req = calls[c].req /\ base = calls[c].base
          /\ messages = Object(c).messages /\ pending = Object(c).pending
    OBVIOUS
  <2>2. Does(c, pc, outcome, req, base, messages, pending, stored)
    BY <1>7, <2>1
  <2> QED
    BY <2>1, <2>2, DoesFacts
<1> HIDE DEF Then
<1>8. Expected(c) = (IF Answered(c) THEN Append(IF Asked(c) THEN Append(T, User(c)) ELSE T, Reply(c))
                     ELSE IF Asked(c) THEN Append(T, User(c)) ELSE T)
  BY <1>1, Zenon DEF Expected
<1>9. ASSUME Own(c), NEW a \in BOOLEAN, NEW b \in BOOLEAN,
             a <=> /\ k.op = "turn"
                   /\ calls'[c].outcome \in {"paused", "replied"} \/ (calls'[c].outcome = "failed" /\ Stored(s)),
             b <=> k.op # "deny" /\ calls'[c].outcome = "replied"
      PROVE  Told(s, Len(calls))' = (IF b THEN Append(IF a THEN Append(T, User(c)) ELSE T, Reply(c))
                                          ELSE IF a THEN Append(T, User(c)) ELSE T)
  BY <1>9, ToldAfter
<1> HIDE DEF T
<1>10. ASSUME NEW outcome, Then(outcome, data[s]), outcome \in {"refused", "failed"},
              Object(c).pending # Nil => Object(c).pending = Object(c).messages,
              ~Answered(c), Asked(c) <=> outcome = "failed" /\ k.op = "turn"
       PROVE  HistoryOf(s)'
  <2>1. /\ Own(c) /\ calls'[c].pc = "done" /\ calls'[c].outcome = outcome
        /\ Object(c)'.messages = Object(c).messages /\ Object(c)'.pending = Object(c).pending
        /\ data'[s] = data[s]
    BY <1>7, <1>10
  <2>2. Stored(s)' <=> Stored(s)
    BY <2>1 DEF Stored
  <2>3. PICK a \in BOOLEAN, b \in BOOLEAN : /\ b = FALSE
                                            /\ a <=> outcome = "failed" /\ k.op = "turn" /\ Stored(s)
    OBVIOUS
  <2>4. Told(s, Len(calls))' = (IF a THEN Append(T, User(c)) ELSE T)
    <3>1. /\ a <=> /\ k.op = "turn"
                   /\ calls'[c].outcome \in {"paused", "replied"} \/ (calls'[c].outcome = "failed" /\ Stored(s))
          /\ b <=> k.op # "deny" /\ calls'[c].outcome = "replied"
      BY <1>10, <2>1, <2>3
    <3>2. Told(s, Len(calls))' = (IF b THEN Append(IF a THEN Append(T, User(c)) ELSE T, Reply(c))
                                       ELSE IF a THEN Append(T, User(c)) ELSE T)
      BY <1>9, <2>1, <3>1
    <3> QED
      BY <2>3, <3>2, Zenon
  <2>5. Object(c).messages = (IF Asked(c) THEN Append(T, User(c)) ELSE T)
    BY <1>3, <1>8, <1>10, Zenon
  <2>6. (Stored(s) => Object(c).messages = Told(s, Len(calls))') /\ (~Stored(s) => Told(s, Len(calls))' = <<>>)
    BY <1>3, <1>10, <2>3, <2>4, <2>5
  <2>7. calls'[c].outcome \notin {"paused", "replied"} /\ (Stored(s)' => data'[s] = calls[c].obj)
    BY <1>4, <1>10, <2>1, <2>2
  <2>8. /\ Stored(s)' => Object(c)'.messages = Told(s, Len(calls))'
        /\ ~Stored(s)' => Told(s, Len(calls))' = <<>>
        /\ Object(c)'.pending # Nil => Object(c)'.pending = Object(c)'.messages
    BY <1>10, <2>1, <2>2, <2>6, Zenon
  <2> QED
    BY <2>1, <2>2, <2>7, <2>8, Returns
<1>11. CASE CheckTurn(c) /\ Object(c).pending # Nil
  <2>1. Then("refused", data[s])
    BY <1>1, <1>11, QuietEffects, Zenon DEF Then
  <2>2. k.pc = "check" /\ k.op = "turn" /\ Entering(c)
    BY <1>2, <1>11 DEF CheckTurn, InTurn, InApproval, InDenial, At
  <2>3. /\ Object(c).pending # Nil => Object(c).pending = Object(c).messages
        /\ ~Answered(c) /\ ~Asked(c)
    BY <2>2 DEF Entering, At, Asked, Answered
  <2> QED
    BY <1>10, <2>1, <2>3
<1>12. CASE CheckResume(c) /\ Object(c).pending = Nil
  <2>1. Then("refused", data[s])
    BY <1>1, <1>12, QuietEffects, Zenon DEF Then
  <2>2. k.pc = "check" /\ Entering(c)
    BY <1>2, <1>12 DEF CheckResume, InTurn, InApproval, InDenial, At
  <2>3. ~Answered(c) /\ ~Asked(c)
    BY <2>2 DEF Entering, At, Asked, Answered
  <2> QED
    BY <1>10, <1>12, <2>1, <2>3
<1>13. CASE InvokeFails(c)
  <2>1. Then("failed", data[s])
    BY <1>1, <1>13, QuietEffects, Zenon DEF Then
  <2>2. k.pc = "invoke" /\ (InTurn(c) \/ InApproval(c))
    BY <1>2, <1>13 DEF InvokeFails, Entering, InDenial, At
  <2>3. /\ Object(c).pending # Nil => Object(c).pending = Object(c).messages
        /\ ~Answered(c) /\ (Asked(c) <=> k.op = "turn")
    BY <2>2 DEF InTurn, InApproval, At, Asked, Answered
  <2> QED
    BY <1>10, <2>1, <2>3
<1>14. CASE Save(c)
  <2>1. Then(k.outcome, k.obj)
    BY <1>1, <1>14, ObjectEffects, Zenon DEF Then
  <2>2. k.pc = "save" /\ (InTurn(c) \/ InApproval(c) \/ InDenial(c))
    BY <1>2, <1>14 DEF Save, Entering, At
  <2>3. PICK a \in BOOLEAN, b \in BOOLEAN : (a <=> Asked(c)) /\ (b <=> Answered(c))
    OBVIOUS
  <2>4. /\ Object(c).pending # Nil => Object(c).pending = Object(c).messages
        /\ Stored(s) \/ k.outcome \in {"paused", "replied"}
        /\ a <=> k.op = "turn" /\ (k.outcome \in {"paused", "replied"} \/ (k.outcome = "failed" /\ Stored(s)))
        /\ b <=> k.op # "deny" /\ k.outcome = "replied"
    BY <1>1, <2>2, <2>3 DEF InTurn, InApproval, InDenial, At, Asked, Answered
  <2>5. /\ Own(c) /\ calls'[c].pc = "done" /\ calls'[c].outcome = k.outcome
        /\ Object(c)'.messages = Object(c).messages /\ Object(c)'.pending = Object(c).pending
        /\ data'[s] = k.obj
    BY <1>7, <2>1
  <2>6. Stored(s)'
    BY <1>6, <2>5 DEF Stored
  <2>7. Told(s, Len(calls))' = (IF b THEN Append(IF a THEN Append(T, User(c)) ELSE T, Reply(c))
                                     ELSE IF a THEN Append(T, User(c)) ELSE T)
    BY <1>9, <2>4, <2>5
  <2>8. Object(c)'.messages = Told(s, Len(calls))'
    BY <1>3, <1>8, <2>3, <2>5, <2>7, Zenon
  <2>9. Object(c)'.pending # Nil => Object(c)'.pending = Object(c)'.messages
    BY <2>4, <2>5, Zenon
  <2>10. Stored(s)' <=> Stored(s) \/ calls'[c].outcome \in {"paused", "replied"}
    BY <2>4, <2>5, <2>6, Zenon
  <2> QED
    BY <2>5, <2>6, <2>8, <2>9, <2>10, Returns
<1> QED
  BY <1>11, <1>12, <1>13, <1>14

\* Whatever the call in progress does.
LEMMA HistoryStep ==
  ASSUME IsolationInv, IsolationInv', NEW s \in Sessions, HistoryOf(s), NEW c \in ActiveOn(s), Step(c)
  PROVE  HistoryOf(s)'
<1>1. CASE CheckTurn(c)
  BY <1>1, HistoryQuiet, HistoryReturns
<1>2. CASE CheckResume(c)
  BY <1>2, HistoryQuiet, HistoryReturns
<1>3. CASE ReadHeader(c) \/ Request(c) \/ InvokePauses(c) \/ InvokeReplies(c)
  BY <1>3, HistoryQuiet
<1>4. CASE AppendUser(c) \/ SetPending(c) \/ Restore(c) \/ AppendReply(c) \/ Clear(c)
  BY <1>4, HistoryWrites
<1>5. CASE InvokeFails(c) \/ Save(c)
  BY <1>5, HistoryReturns
<1> QED
  BY <1>1, <1>2, <1>3, <1>4, <1>5, Zenon DEF Step, Turn, Resume, Shared

\* A step of any call is one that leaves the other sessions alone.
LEMMA StepOwn ==
  ASSUME IsolationInv, NEW c \in DOMAIN calls, Step(c)
  PROVE  Own(c)
<1> DEFINE D(pc, outcome, req, base, messages, pending, stored) ==
             Does(c, pc, outcome, req, base, messages, pending, stored)
<1>1. ASSUME NEW pc, NEW outcome, NEW req, NEW base, NEW messages, NEW pending, NEW stored,
             D(pc, outcome, req, base, messages, pending, stored)
      PROVE  Own(c)
  BY <1>1 DEF Does
<1>2. CASE CheckTurn(c) \/ CheckResume(c) \/ ReadHeader(c) \/ Request(c)
           \/ InvokeFails(c) \/ InvokePauses(c) \/ InvokeReplies(c)
  BY <1>1, <1>2, QuietEffects, Zenon
<1>3. CASE SetPending(c) \/ Restore(c) \/ Clear(c) \/ Save(c)
  BY <1>1, <1>3, ObjectEffects, Zenon
<1>4. CASE AppendUser(c) \/ AppendReply(c)
  <2>1. c \in Numbers
    BY Typed, Zenon DEF IsolationInv
  <2>2. PICK m \in Messages, pc \in {"request", "save", "clear"} : m.of = c /\ WriteBack(c, m, pc) /\ data' = data
    <3>1. User(c) \in Messages /\ User(c).of = c /\ Reply(c) \in Messages /\ Reply(c).of = c
      BY <2>1 DEF User, Reply, Messages
    <3> QED
      BY <1>4, <3>1, Zenon DEF AppendUser, AppendReply
  <2>3. Does(c, pc, calls[c].outcome, calls'[c].req, <<>>, Append(calls[c].base, m),
             heap'[calls[c].obj].pending, data[calls[c].session])
    BY <2>2, WriteBackEffect
  <2> QED
    BY <1>1, <2>3, Zenon
<1> QED
  BY <1>2, <1>3, <1>4, Zenon DEF Step, Turn, Resume, Shared

\* What the start of call n does.
Starts(n, s, op, sensitive) ==
  /\ n \in Nat /\ n > 0 /\ n \in Numbers /\ n \notin DOMAIN calls /\ n - 1 = Len(calls)
  /\ Len(calls') = n /\ DOMAIN calls' = DOMAIN calls \cup {n}
  /\ \A d \in DOMAIN calls : d < n /\ calls'[d] = calls[d]
  /\ calls'[n].session = s /\ calls'[n].op = op /\ calls'[n].sensitive = sensitive
  /\ calls'[n].pc = "check" /\ calls'[n].outcome = "running" /\ calls'[n].req = <<>>
  /\ calls'[n].obj = Load(s, n)
  /\ heap'[Load(s, n)].messages = heap[Load(s, n)].messages
  /\ heap'[Load(s, n)].pending = heap[Load(s, n)].pending
  /\ data' = data /\ (s \in Exclusive => ActiveOn(s) = {})
  /\ \A t \in Sessions : t # s => Untouched(t)
  /\ \A o \in Numbers : o <= Len(calls) => heap'[o] = heap[o]

LEMMA StartEffect ==
  ASSUME IsolationInv, NEW s \in Sessions, NEW op, NEW sensitive, Start(s, op, sensitive),
         NEW n, n = Len(calls) + 1
  PROVE  Starts(n, s, op, sensitive)
<1>1. TypeOK
  BY Zenon DEF IsolationInv
<1>2. /\ Len(calls) \in Nat /\ DOMAIN calls = 1 .. Len(calls) /\ calls \in [1 .. Len(calls) -> Calls]
      /\ heap \in [Numbers -> Objects] /\ data \in [Sessions -> Numbers \cup {Nil}] /\ MaxCalls \in Nat
  BY <1>1, Typed, SessionAssumption
<1>3. PICK new : new = [op |-> op, session |-> s, sensitive |-> sensitive, pc |-> "check",
                        obj |-> Load(s, n), base |-> <<>>, req |-> <<>>, evaluated |-> FALSE,
                        outcome |-> "running"]
  OBVIOUS
<1>4. PICK l : l = Load(s, n)
  OBVIOUS
<1>5. /\ n <= MaxCalls /\ (s \in Exclusive => ActiveOn(s) = {})
      /\ calls' = Append(calls, new) /\ data' = data
      /\ heap' = IF l = n THEN [heap EXCEPT ![n].id = s] ELSE heap
  BY <1>3, <1>4, Zenon DEF Start
<1>6. n \in Nat /\ n > 0 /\ n \in Numbers /\ n \notin DOMAIN calls
  BY <1>2, <1>5 DEF Numbers
<1>7. /\ Len(calls') = n /\ DOMAIN calls' = 1 .. n /\ calls'[n] = new
      /\ \A d \in 1 .. Len(calls) : calls'[d] = calls[d]
  <2>1. PICK R : calls \in Seq(R) /\ new \in R
    <3>1. calls \in Seq(Calls \cup {new})
      BY <1>2, FunctionIsSequence
    <3> QED
      BY <3>1
  <2> QED
    BY <1>5, <2>1, Appended
<1>8. DOMAIN calls' = DOMAIN calls \cup {n} /\ \A d \in DOMAIN calls : d < n
  BY <1>2, <1>7
<1>9. /\ calls'[n].session = s /\ calls'[n].op = op /\ calls'[n].sensitive = sensitive
      /\ calls'[n].pc = "check" /\ calls'[n].outcome = "running" /\ calls'[n].req = <<>>
      /\ calls'[n].obj = Load(s, n)
  BY <1>3, <1>7
<1>10. \A o \in Numbers : /\ heap'[o].messages = heap[o].messages /\ heap'[o].pending = heap[o].pending
                          /\ o <= Len(calls) => heap'[o] = heap[o]
  <2>1. heap[n] \in Objects
    BY <1>2, <1>6
  <2>2. \A o \in Numbers : o <= Len(calls) => o # n
    BY <1>2
  <2> QED
    BY <1>2, <1>5, <1>6, <2>1, <2>2 DEF Objects
<1>11. l \in Numbers
  BY <1>2, <1>4, <1>6 DEF Load
<1>12. ASSUME NEW t \in Sessions, t # s PROVE Untouched(t)
  <2>1. Len(calls) <= Len(calls') /\ data'[t] = data[t]
    BY <1>2, <1>5, <1>7
  <2>2. \A d \in DOMAIN calls : calls'[d] = calls[d]
    BY <1>2, <1>7
  <2>3. \A d \in DOMAIN calls' : d > Len(calls) => d = n
    BY <1>2, <1>7
  <2> QED
    BY <1>9, <1>10, <1>12, <2>1, <2>2, <2>3, Zenon DEF Untouched
<1> QED
  <2>1. n - 1 = Len(calls)
    BY <1>2
  <2>2. \A d \in DOMAIN calls : d < n /\ calls'[d] = calls[d]
    BY <1>2, <1>7, <1>8
  <2> QED
    BY <1>4, <1>5, <1>6, <1>7, <1>8, <1>9, <1>10, <1>11, <1>12, <2>1, <2>2, Zenon DEF Starts

\* The object a call starts with.
LEMMA StartObject ==
  ASSUME IsolationInv, NEW s \in Sessions, NEW op, NEW sensitive, Start(s, op, sensitive),
         HistoryOf(s), ActiveOn(s) = {}, NEW n, n = Len(calls) + 1
  PROVE  /\ Object(n)'.messages = History(s) /\ (Object(n)'.pending # Nil <=> Paused(s))
         /\ Paused(s) => Object(n)'.pending = History(s)
         /\ History(s) = Told(s, Len(calls)) /\ (~Stored(s) => History(s) = <<>>)
<1>1. /\ n \in Numbers /\ calls'[n].obj = Load(s, n) /\ n > Len(calls)
      /\ heap'[Load(s, n)].messages = heap[Load(s, n)].messages
      /\ heap'[Load(s, n)].pending = heap[Load(s, n)].pending
  <2>1. Len(calls) \in Nat
    BY Typed, Zenon DEF IsolationInv
  <2> QED
    <3>1. n > Len(calls)
      BY <2>1
    <3> QED
      <4>1. Starts(n, s, op, sensitive)
        BY StartEffect
      <4> QED
        BY <3>1, <4>1, Zenon DEF Starts
<1>2. /\ Object(n)'.messages = heap[Load(s, n)].messages /\ Object(n)'.pending = heap[Load(s, n)].pending
  BY <1>1 DEF Object
<1>3. AtRest(s)
  BY Zenon DEF HistoryOf
<1>4. CASE Stored(s)
  <2>1. Load(s, n) = data[s] /\ History(s) = heap[data[s]].messages /\ (Paused(s) <=> heap[data[s]].pending # Nil)
    BY <1>4 DEF Load, Stored, History, Paused
  <2> QED
    BY <1>2, <1>3, <1>4, <2>1 DEF AtRest
<1>5. CASE ~Stored(s)
  <2>1. Load(s, n) = n /\ History(s) = <<>> /\ ~Paused(s)
    BY <1>5 DEF Load, Stored, History, Paused
  <2>2. heap[n].messages = <<>> /\ heap[n].pending = Nil
    BY <1>1, Zenon DEF IsolationInv, ObjectsOwned
  <2> QED
    BY <1>2, <1>3, <1>5, <2>1, <2>2 DEF AtRest
<1> QED
  BY <1>4, <1>5

\* The start of a call keeps the history of its session.
LEMMA HistoryStart ==
  ASSUME IsolationInv, IsolationInv', NEW s \in Sessions, NEW op, NEW sensitive, Start(s, op, sensitive),
         HistoryOf(s), ActiveOn(s) = {}
  PROVE  HistoryOf(s)'
<1>1. PICK n : n = Len(calls) + 1
  OBVIOUS
<1>2. /\ n \in Nat /\ n > 0 /\ n \notin DOMAIN calls
      /\ Len(calls') = n /\ DOMAIN calls' = DOMAIN calls \cup {n}
      /\ \A d \in DOMAIN calls : d < n /\ calls'[d] = calls[d]
      /\ calls'[n].session = s /\ calls'[n].op = op
      /\ calls'[n].pc = "check" /\ calls'[n].outcome = "running" /\ calls'[n].req = <<>>
      /\ calls'[n].obj = Load(s, n) /\ data' = data
  <2>1. Starts(n, s, op, sensitive)
    BY <1>1, StartEffect
  <2> QED
    BY <2>1, Zenon DEF Starts
<1>3. /\ Object(n)'.messages = History(s) /\ (Object(n)'.pending # Nil <=> Paused(s))
      /\ Paused(s) => Object(n)'.pending = History(s)
      /\ History(s) = Told(s, Len(calls)) /\ (~Stored(s) => History(s) = <<>>)
  BY <1>1, StartObject
<1>4. /\ CallsOn(s)' = CallsOn(s) \cup {n} /\ CallsOn(s) \subseteq DOMAIN calls
      /\ \A d \in CallsOn(s) : d < n /\ calls'[d] = calls[d]
  BY <1>2 DEF CallsOn
<1>5. \A d \in CallsOn(s) : calls[d].pc = "done"
  BY DEF ActiveOn, Active, CallsOn, Running
<1>6. ActiveOn(s)' = {n}
  <2>1. ActiveOn(s)' = {d \in CallsOn(s)' : calls'[d].pc # "done"}
    BY DEF ActiveOn, Active, CallsOn, Running
  <2> QED
    BY <1>2, <1>4, <1>5, <2>1
<1>7. Len(calls) \in Nat /\ DOMAIN calls = 1 .. Len(calls)
  BY Typed, Zenon DEF IsolationInv
<1>8. OneAtATime(s)'
  <2>1. ASSUME NEW a \in CallsOn(s)', NEW b \in CallsOn(s)', a < b PROVE calls'[a].pc = "done"
    <3>1. a # n
      <4>1. b \in Nat /\ (b = n \/ b < n)
        BY <1>2, <1>4, <1>7
      <4> QED
        BY <1>2, <2>1, <4>1
    <3> QED
      BY <1>4, <1>5, <3>1
  <2> QED
    BY <2>1 DEF OneAtATime, Running
<1>9. Stored(s)' <=> Stored(s)
  BY <1>2 DEF Stored
<1>10. Kept(s)'
  <2>1. Kept(s)
    BY Zenon DEF HistoryOf
  <2> QED
    BY <1>2, <1>4, <1>9, <2>1 DEF Kept, Running
<1>11. InProgress(s, n)'
  <2>1. n - 1 = Len(calls)
    BY <1>1, <1>7
  <2>2. Told(s, n - 1)' = Told(s, Len(calls))
    <3>1. PICK m \in Nat : m = Len(calls)
      BY <1>7
    <3>2. DOMAIN calls' = 1 .. Len(calls') /\ Len(calls') \in Nat /\ m <= Len(calls')
      BY <1>1, <1>2, <1>7, <3>1
    <3>3. \A d \in 1 .. m :
            /\ calls'[d].session = calls[d].session
            /\ calls[d].session = s => calls'[d].op = calls[d].op /\ calls'[d].outcome = calls[d].outcome
      BY <1>2, <1>7, <3>1
    <3>4. Told(s, m)' = Told(s, m)
      BY <1>7, <3>1, <3>2, <3>3, SameTold
    <3> QED
      BY <2>1, <3>1, <3>4, Zenon
  <2>3. Expected(n)' = Told(s, n - 1)'
    <3>1. ~Asked(n)' /\ ~Answered(n)'
      BY <1>2 DEF Asked, Answered
    <3> QED
      BY <1>2, <3>1, Zenon DEF Expected
  <2>4. Load(s, n)' = Load(s, n)
    BY <1>2, Zenon DEF Load
  <2>5. Entering(n)'
    BY <1>2, <1>3, <1>9 DEF Entering, At, Paused
  <2>6. calls'[n].pc \notin {"write", "record"}
    BY <1>2
  <2>7. (Stored(s) \/ Told(s, n - 1) = <<>>)' /\ (Object(n).messages = Expected(n))'
    BY <1>3, <1>9, <2>2, <2>3, Zenon
  <2> QED
    BY <1>2, <2>4, <2>5, <2>6, <2>7, Zenon DEF InProgress
<1> QED
  BY <1>6, <1>8, <1>10, <1>11 DEF HistoryOf

\* Nothing that happens elsewhere is a step of session s.
LEMMA StutterUntouched ==
  ASSUME IsolationInv, UNCHANGED vars, NEW s \in Sessions
  PROVE  Untouched(s)
<1>1. Len(calls) \in Nat /\ DOMAIN calls = 1 .. Len(calls)
  BY Typed, Zenon DEF IsolationInv
<1>2. calls' = calls /\ heap' = heap /\ data' = data
  BY DEF vars
<1>3. Len(calls) <= Len(calls') /\ \A d \in DOMAIN calls' : ~(d > Len(calls))
  BY <1>1, <1>2
<1> QED
  BY <1>2, <1>3, Zenon DEF Untouched

\* A step, seen from an exclusive session: it starts a call when none is in
\* progress, goes on with the one that is, or takes place elsewhere.
LEMMA StepsOf ==
  ASSUME IsolationInv, [Next]_vars, NEW s \in Sessions, s \in Exclusive
  PROVE  \/ Untouched(s)
         \/ ActiveOn(s) = {} /\ \E op \in Ops, sensitive \in BOOLEAN : Start(s, op, sensitive)
         \/ \E c \in ActiveOn(s) : Step(c)
<1>1. CASE UNCHANGED vars
  BY <1>1, StutterUntouched
<1>2. ASSUME NEW t \in Sessions, NEW op \in Ops, NEW sensitive \in BOOLEAN, Start(t, op, sensitive)
      PROVE  \/ Untouched(s)
             \/ ActiveOn(s) = {} /\ \E p \in Ops, v \in BOOLEAN : Start(s, p, v)
  <2>1. CASE t = s
    <3>1. ActiveOn(s) = {}
      <4>1. PICK n : n = Len(calls) + 1
        OBVIOUS
      <4>2. Starts(n, s, op, sensitive)
        BY <1>2, <2>1, <4>1, StartEffect
      <4> QED
        BY <4>2, Zenon DEF Starts
    <3> QED
      BY <1>2, <2>1, <3>1, Zenon
  <2>2. CASE t # s
    <3>1. PICK n : n = Len(calls) + 1
      OBVIOUS
    <3>2. Starts(n, t, op, sensitive)
      BY <1>2, <3>1, StartEffect
    <3> QED
      BY <2>2, <3>2, Zenon DEF Starts
  <2> QED
    BY <2>1, <2>2
<1>3. ASSUME NEW c \in Active, Step(c) PROVE Untouched(s) \/ c \in ActiveOn(s)
  <2>1. c \in DOMAIN calls
    BY DEF Active
  <2>2. CASE calls[c].session = s
    BY <2>2 DEF ActiveOn
  <2>3. CASE calls[c].session # s
    BY <1>3, <2>1, <2>3, StepOwn DEF Own
  <2> QED
    BY <2>2, <2>3
<1>4. "turn" \in Ops /\ {"approve", "deny"} \subseteq Ops /\ FALSE \in BOOLEAN
  BY DEF Ops
<1> QED
  BY <1>1, <1>2, <1>3, <1>4, Zenon DEF Next

LEMMA NextHistoryInv ==
  ASSUME IsolationInv, IsolationInv', HistoryInv, [Next]_vars
  PROVE  HistoryInv'
<1>1. ASSUME NEW s \in Exclusive PROVE HistoryOf(s)'
  <2>1. s \in Sessions /\ HistoryOf(s)
    BY SessionAssumption DEF HistoryInv
  <2>2. CASE Untouched(s)
    BY <2>1, <2>2, UntouchedHistory
  <2>3. ASSUME ActiveOn(s) = {}, NEW op \in Ops, NEW sensitive \in BOOLEAN, Start(s, op, sensitive)
        PROVE  HistoryOf(s)'
    BY <2>1, <2>3, HistoryStart
  <2>4. ASSUME NEW c \in ActiveOn(s), Step(c) PROVE HistoryOf(s)'
    BY <2>1, <2>4, HistoryStep
  <2>5. \/ Untouched(s)
        \/ ActiveOn(s) = {} /\ \E op \in Ops, sensitive \in BOOLEAN : Start(s, op, sensitive)
        \/ \E c \in ActiveOn(s) : Step(c)
    BY <2>1, StepsOf
  <2> QED
    BY <2>2, <2>3, <2>4, <2>5, Zenon
<1> QED
  BY <1>1, Zenon DEF HistoryInv

LEMMA InitHistoryInv ==
  ASSUME Init
  PROVE  HistoryInv
<1>1. ASSUME NEW s \in Exclusive PROVE HistoryOf(s)
  <2>1. calls = <<>> /\ s \in Sessions /\ data = [t \in Sessions |-> Nil]
    BY SessionAssumption DEF Init
  <2>2. DOMAIN calls = {} /\ Len(calls) = 0 /\ ~Stored(s)
    BY <2>1 DEF Stored
  <2>3. CallsOn(s) = {} /\ ActiveOn(s) = {}
    BY <2>2 DEF CallsOn, ActiveOn, Active
  <2>4. Told(s, 0) = <<>>
    <3>1. Pieces(s, 0) = <<>>
      BY DEF Pieces
    <3>2. Told(s, 0) = FlattenSeq(Pieces(s, 0))
      BY Zenon DEF Told, Pieces
    <3> QED
      BY <3>1, <3>2, FlattenedNone
  <2>5. AtRest(s)
    BY <2>2, <2>4 DEF AtRest, History, Paused
  <2> QED
    BY <2>2, <2>3, <2>5 DEF HistoryOf, OneAtATime, Kept
<1> QED
  BY <1>1, Zenon DEF HistoryInv

\* In an exclusive session the object at hand always holds what was told so far.
THEOREM HistoryInvariant == Spec => []HistoryInv
BY IsolationInvariant, InitHistoryInv, NextHistoryInv, PTL DEF Spec

\* Between calls the history of an exclusive session is what was told.
THEOREM HistoryIsExact == Spec => []HistoryExact
<1>1. HistoryInv => HistoryExact
  BY DEF HistoryInv, HistoryOf, AtRest, HistoryExact
<1> QED
  BY <1>1, HistoryInvariant, PTL

-----------------------------------------------------------------------------
(* Approvals *)

\* One message more is fine when it does not answer a sensitive one, or may.
LEMMA ApprovedMore ==
  ASSUME NEW made, NEW msgs \in Seq(Messages), NEW m \in Messages, Approved(made, msgs),
         \/ m.role = "user" \/ made[m.of].op = "approve"
         \/ Len(msgs) > 0 /\ ~made[msgs[Len(msgs)].of].sensitive
  PROVE  Approved(made, Append(msgs, m))
<1>1. PICK n \in Nat, new \in Seq(Messages) :
        /\ n = Len(msgs) /\ new = Append(msgs, m)
        /\ Len(new) = n + 1 /\ new[n + 1] = m
        /\ \A i \in 1 .. n : new[i] = msgs[i]
  <2>1. /\ Append(msgs, m) \in Seq(Messages)
        /\ Len(msgs) \in Nat /\ Len(Append(msgs, m)) = Len(msgs) + 1 /\ Append(msgs, m)[Len(msgs) + 1] = m
        /\ \A i \in 1 .. Len(msgs) : Append(msgs, m)[i] = msgs[i]
    BY Appended, ElementOf
  <2> QED
    BY <2>1
<1>2. ASSUME NEW i \in 1 .. Len(new) - 1,
             new[i].role = "user", made[new[i].of].sensitive, new[i + 1].role = "assistant"
      PROVE  made[new[i + 1].of].op = "approve"
  <2>1. i \in 1 .. n /\ new[i] = msgs[i]
    BY <1>1
  <2>2. CASE i = n
    BY <1>1, <1>2, <2>1, <2>2
  <2>3. CASE i # n
    <3>1. i \in 1 .. n - 1 /\ i + 1 \in 1 .. n
      BY <2>1, <2>3
    <3>2. new[i + 1] = msgs[i + 1]
      BY <1>1, <3>1
    <3> QED
      BY <1>1, <1>2, <2>1, <3>1, <3>2 DEF Approved
  <2> QED
    BY <2>2, <2>3
<1>3. Approved(made, new)
  BY <1>2 DEF Approved
<1> QED
  BY <1>1, <1>3, Zenon

\* What was approved stays approved as long as the calls it tells of do not change.
LEMMA ApprovedLater ==
  ASSUME NEW made, NEW later, NEW s, NEW msgs \in Seq(Messages), Owned(made, msgs, s),
         \A d \in DOMAIN made :
           made[d].session = s => later[d].op = made[d].op /\ later[d].sensitive = made[d].sensitive
  PROVE  Approved(made, msgs) => Approved(later, msgs)
<1>1. \A i \in 1 .. Len(msgs) : /\ later[msgs[i].of].op = made[msgs[i].of].op
                                /\ later[msgs[i].of].sensitive = made[msgs[i].of].sensitive
  BY ElementOf DEF Owned
<1>2. Len(msgs) \in Nat
  BY ElementOf
<1>3. \A i \in 1 .. Len(msgs) - 1 : i \in 1 .. Len(msgs) /\ i + 1 \in 1 .. Len(msgs)
  BY <1>2
<1> QED
  BY <1>1, <1>3 DEF Approved

\* What a step of the call in progress says in the conversation.
LEMMA StepSays ==
  ASSUME IsolationInv, IsolationInv', NEW s \in Sessions, HistoryOf(s), NEW c \in ActiveOn(s), Step(c)
  PROVE  /\ Stored(s)' => data'[s] = calls[c].obj
         /\ \/ Object(c)'.messages = Object(c).messages
            \/ Object(c)'.messages = Append(Object(c).messages, User(c))
            \/ /\ Object(c)'.messages = Append(Object(c).messages, Reply(c))
               /\ \/ calls[c].op = "approve"
                  \/ ~calls[c].sensitive /\ Object(c).messages = Append(Told(s, c - 1), User(c))
<1> DEFINE k == calls[c]
           Then(messages, stored) ==
             \E pc, outcome, req, base, pending :
               Does(c, pc, outcome, req, base, messages, pending, stored)
<1>1. c \in DOMAIN calls /\ InProgress(s, c) /\ calls[c].session = s
  BY Zenon DEF HistoryOf, ActiveOn, Active
<1>2. Entering(c) \/ InTurn(c) \/ InApproval(c) \/ InDenial(c)
  BY <1>1, Zenon DEF InProgress
<1>3. k.pc \in {"write", "record"} => k.base = Object(c).messages
  BY <1>1, Zenon DEF InProgress
<1>4. Stored(s) => data[s] = k.obj
  BY <1>1 DEF InProgress, Load, Stored
<1>5. ASSUME NEW messages, NEW stored, Then(messages, stored), stored \in {data[s], k.obj}
      PROVE  Object(c)'.messages = messages /\ (Stored(s)' => data'[s] = k.obj)
  <2>1. PICK pc, outcome, req, base, pending :
          Does(c, pc, outcome, req, base, messages, pending, stored)
    BY <1>5
  <2>2. Object(c)'.messages = messages /\ data'[s] = stored
    BY <2>1, DoesFacts
  <2> QED
    BY <1>4, <1>5, <2>2 DEF Stored
<1>6. CASE CheckTurn(c) \/ CheckResume(c) \/ ReadHeader(c) \/ Request(c)
           \/ InvokeFails(c) \/ InvokePauses(c) \/ InvokeReplies(c)
  <2>1. Then(Object(c).messages, data[s])
    BY <1>1, <1>6, QuietEffects, Zenon
  <2> HIDE DEF Then
  <2> QED
    BY <1>5, <2>1
<1>7. CASE SetPending(c) \/ Clear(c)
  <2>1. Then(Object(c).messages, data[s])
    BY <1>1, <1>7, ObjectEffects, Zenon
  <2> HIDE DEF Then
  <2> QED
    BY <1>5, <2>1
<1>8. CASE Save(c)
  <2>1. Then(Object(c).messages, k.obj)
    BY <1>1, <1>8, ObjectEffects, Zenon
  <2> HIDE DEF Then
  <2> QED
    BY <1>5, <2>1
<1>9. CASE Restore(c)
  <2>1. Then(k.req, data[s])
    BY <1>1, <1>9, ObjectEffects, Zenon
  <2>2. k.req = Object(c).messages
    BY <1>2, <1>9 DEF Restore, Entering, InTurn, InApproval, InDenial, At
  <2> HIDE DEF Then
  <2> QED
    BY <1>5, <2>1, <2>2
<1>10. ASSUME NEW m \in Messages, m.of = c, NEW pc, WriteBack(c, m, pc), data' = data,
              k.pc \in {"write", "record"}
       PROVE  Then(Append(Object(c).messages, m), data[s])
  <2>1. Does(c, pc, calls[c].outcome, calls'[c].req, <<>>, Append(calls[c].base, m),
             heap'[calls[c].obj].pending, data[calls[c].session])
    BY <1>1, <1>10, WriteBackEffect
  <2> QED
    BY <1>1, <1>3, <1>10, <2>1, Zenon
<1>11. c \in Numbers
  BY <1>1, Typed, Zenon DEF IsolationInv
<1>12. CASE AppendUser(c)
  <2>1. User(c) \in Messages /\ User(c).of = c
    BY <1>11 DEF User, Messages
  <2>2. WriteBack(c, User(c), "request") /\ data' = data /\ k.pc \in {"write", "record"}
    BY <1>12 DEF AppendUser
  <2>3. Then(Append(Object(c).messages, User(c)), data[s])
    BY <1>10, <2>1, <2>2, Zenon
  <2> HIDE DEF Then
  <2> QED
    BY <1>5, <2>3
<1>13. CASE AppendReply(c)
  <2>1. Reply(c) \in Messages /\ Reply(c).of = c
    BY <1>11 DEF Reply, Messages
  <2>2. WriteBack(c, Reply(c), IF k.op = "turn" THEN "save" ELSE "clear") /\ data' = data
        /\ k.pc = "record"
    BY <1>13, Zenon DEF AppendReply
  <2>3. Then(Append(Object(c).messages, Reply(c)), data[s])
    BY <1>10, <2>1, <2>2, Zenon
  <2>4. k.op = "approve" \/ (k.op = "turn" /\ ~k.sensitive /\ Asked(c) /\ ~Answered(c))
    BY <1>2, <2>2 DEF Entering, InTurn, InApproval, InDenial, At, Asked, Answered
  <2>5. Asked(c) /\ ~Answered(c) => Object(c).messages = Append(Told(s, c - 1), User(c))
    BY <1>1, Zenon DEF InProgress, Expected
  <2> HIDE DEF Then
  <2> QED
    BY <1>5, <2>3, <2>4, <2>5
<1> QED
  BY <1>6, <1>7, <1>8, <1>9, <1>12, <1>13, Zenon DEF Step, Turn, Resume, Shared

\* The history of a session in the store.
LEMMA StoredOwned ==
  ASSUME IsolationInv, NEW s \in Sessions, Stored(s)
  PROVE  /\ data[s] \in Numbers /\ data[s] <= Len(calls)
         /\ History(s) \in Seq(Messages) /\ Owned(calls, History(s), s)
<1>1. data[s] \in Numbers
  BY Typed DEF IsolationInv, Stored
<1>2. data[s] <= Len(calls) /\ heap[data[s]].id = s
  BY Zenon DEF IsolationInv, StoreOwned
<1>3. heap[data[s]].messages \in Seq(Messages)
  BY <1>1, Typed DEF IsolationInv, Objects
<1>4. Owned(calls, heap[data[s]].messages, s)
  BY <1>1, <1>2, Zenon DEF IsolationInv, ObjectsOwned
<1> QED
  BY <1>1, <1>2, <1>3, <1>4 DEF History

\* Steps of other sessions change nothing about the approvals of this one.
LEMMA UntouchedApproval ==
  ASSUME IsolationInv, IsolationInv', NEW s \in Sessions, Untouched(s), ApprovalOf(s)
  PROVE  ApprovalOf(s)'
<1>1. /\ CallsOn(s)' = CallsOn(s) /\ ActiveOn(s)' = ActiveOn(s) /\ ActiveOn(s) \subseteq CallsOn(s)
      /\ \A c \in CallsOn(s) : c \in DOMAIN calls /\ calls[c].session = s /\ Object(c)' = Object(c)
      /\ (Stored(s)' <=> Stored(s)) /\ History(s)' = History(s)
  BY UntouchedFacts
<1>2. PICK later : later = calls'
  OBVIOUS
<1>3. \A d \in DOMAIN calls :
        calls[d].session = s => later[d].op = calls[d].op /\ later[d].sensitive = calls[d].sensitive
  BY <1>2 DEF Untouched
<1>4. ASSUME NEW msgs \in Seq(Messages), Owned(calls, msgs, s), Approved(calls, msgs)
      PROVE  Approved(calls', msgs)
  <2>1. PICK made : made = calls
    OBVIOUS
  <2>2. Owned(made, msgs, s) /\ Approved(made, msgs)
    BY <1>4, <2>1, Zenon
  <2>3. Approved(later, msgs)
    BY <1>3, <2>1, <2>2, ApprovedLater
  <2> QED
    BY <1>2, <2>3, Zenon
<1>5. ASSUME Stored(s) PROVE Approved(calls', History(s))
  <2>1. History(s) \in Seq(Messages) /\ Owned(calls, History(s), s)
    BY <1>5, StoredOwned
  <2> QED
    BY <1>4, <1>5, <2>1, Zenon DEF ApprovalOf
<1>6. ASSUME NEW c \in ActiveOn(s) PROVE Approved(calls', Object(c).messages)
  <2>1. Object(c).messages \in Seq(Messages) /\ Owned(calls, Object(c).messages, s)
    BY <1>1, CallOf
  <2> QED
    BY <1>4, <2>1, Zenon DEF ApprovalOf
<1> QED
  BY <1>1, <1>5, <1>6, Zenon DEF ApprovalOf

\* A call starts with the history there is.
LEMMA StartApproval ==
  ASSUME IsolationInv, IsolationInv', NEW s \in Sessions, NEW op, NEW sensitive, Start(s, op, sensitive),
         HistoryOf(s), HistoryOf(s)', ActiveOn(s) = {}, ApprovalOf(s)
  PROVE  ApprovalOf(s)'
<1>1. PICK n : n = Len(calls) + 1
  OBVIOUS
<1>2. Starts(n, s, op, sensitive)
  BY <1>1, StartEffect
<1>3. /\ DOMAIN calls' = DOMAIN calls \cup {n} /\ data' = data
      /\ \A d \in DOMAIN calls : calls'[d] = calls[d]
      /\ \A o \in Numbers : o <= Len(calls) => heap'[o] = heap[o]
  BY <1>2, Zenon DEF Starts
<1>4. /\ Object(n)'.messages = History(s) /\ (~Stored(s) => History(s) = <<>>)
  BY <1>1, StartObject
<1>5. Stored(s)' <=> Stored(s)
  BY <1>3 DEF Stored
<1>6. History(s)' = History(s)
  <2>1. Stored(s) => heap'[data[s]] = heap[data[s]]
    <3>1. Stored(s) => data[s] \in Numbers /\ data[s] <= Len(calls)
      BY StoredOwned
    <3> QED
      BY <1>3, <3>1
  <2> QED
    BY <1>3, <1>5, <2>1 DEF History
<1>7. Approved(calls', History(s))
  <2>1. CASE Stored(s)
    <3>1. History(s) \in Seq(Messages) /\ Owned(calls, History(s), s) /\ Approved(calls, History(s))
      BY <2>1, StoredOwned DEF ApprovalOf
    <3>0. PICK made, later : made = calls /\ later = calls'
      OBVIOUS
    <3>2. PICK msgs \in Seq(Messages) : made = calls /\ later = calls' /\ msgs = History(s)
      BY <3>0, <3>1, Zenon
    <3>3. Owned(made, msgs, s) /\ Approved(made, msgs)
      BY <3>1, <3>2, Zenon
    <3>4. \A d \in DOMAIN made :
            made[d].session = s => later[d].op = made[d].op /\ later[d].sensitive = made[d].sensitive
      BY <1>3, <3>2
    <3>5. Approved(later, msgs)
      BY <3>3, <3>4, ApprovedLater
    <3> QED
      BY <3>2, <3>5, Zenon
  <2>2. CASE ~Stored(s)
    BY <1>4, <2>2 DEF Approved
  <2> QED
    BY <2>1, <2>2
<1>8. ActiveOn(s)' \subseteq {n}
  <2>1. \A d \in DOMAIN calls : calls[d].session = s => calls[d].pc = "done"
    BY DEF ActiveOn, Active, Running
  <2> QED
    BY <1>3, <2>1 DEF ActiveOn, Active, Running
<1> QED
  BY <1>4, <1>5, <1>6, <1>7, <1>8 DEF ApprovalOf

\* A step of the call in progress answers nothing sensitive without approval.
LEMMA StepApproval ==
  ASSUME IsolationInv, IsolationInv', NEW s \in Sessions, HistoryOf(s), NEW c \in ActiveOn(s), Step(c),
         ApprovalOf(s)
  PROVE  ApprovalOf(s)'
<1>1. c \in DOMAIN calls /\ calls[c].session = s
  BY DEF ActiveOn, Active
<1>2. Own(c)
  BY <1>1, StepOwn
<1>3. /\ ActiveOn(s)' \subseteq {c} /\ Object(c)' = heap'[calls[c].obj]
      /\ Told(s, c - 1) \in Seq(Messages)
  BY <1>2, OwnFacts
<1>4. /\ Object(c).messages \in Seq(Messages) /\ Owned(calls, Object(c).messages, s)
      /\ Approved(calls, Object(c).messages)
  BY <1>1, CallOf DEF ApprovalOf
<1>0. PICK later : later = calls'
  OBVIOUS
<1>5. PICK msgs \in Seq(Messages) : later = calls' /\ msgs = Object(c).messages
  BY <1>0, <1>4, Zenon
<1>6. Approved(later, msgs)
  <2>1. PICK made : made = calls
    OBVIOUS
  <2>2. Owned(made, msgs, s) /\ Approved(made, msgs)
    BY <1>4, <1>5, <2>1, Zenon
  <2>3. \A d \in DOMAIN made :
          made[d].session = s => later[d].op = made[d].op /\ later[d].sensitive = made[d].sensitive
    BY <1>2, <1>5, <2>1 DEF Own
  <2> QED
    BY <2>2, <2>3, ApprovedLater
<1>7. later[c].op = calls[c].op /\ later[c].sensitive = calls[c].sensitive
  BY <1>1, <1>2, <1>5 DEF Own
<1>8. PICK u \in Messages, r \in Messages :
        u = User(c) /\ u.role = "user" /\ u.of = c /\ r = Reply(c) /\ r.of = c
  <2>1. c \in Numbers
    BY <1>1, Typed, Zenon DEF IsolationInv
  <2>2. /\ User(c) \in Messages /\ User(c).role = "user" /\ User(c).of = c
        /\ Reply(c) \in Messages /\ Reply(c).of = c
    BY <2>1 DEF User, Reply, Messages
  <2> QED
    BY <2>2
<1>9. /\ Stored(s)' => data'[s] = calls[c].obj
      /\ \/ Object(c)'.messages = msgs
         \/ Object(c)'.messages = Append(msgs, u)
         \/ /\ Object(c)'.messages = Append(msgs, r)
            /\ calls[c].op = "approve" \/ (~calls[c].sensitive /\ msgs = Append(Told(s, c - 1), u))
  BY <1>5, <1>8, StepSays, Zenon
<1>10. Approved(later, Object(c)'.messages)
  <2>1. CASE Object(c)'.messages = msgs
    BY <1>6, <2>1, Zenon
  <2>2. CASE Object(c)'.messages = Append(msgs, u)
    <3>1. Approved(later, Append(msgs, u))
      BY <1>6, <1>8, ApprovedMore
    <3> QED
      BY <2>2, <3>1, Zenon
  <2>3. CASE Object(c)'.messages = Append(msgs, r) /\ calls[c].op = "approve"
    <3>1. later[r.of].op = "approve"
      BY <1>7, <1>8, <2>3
    <3>2. Approved(later, Append(msgs, r))
      BY <1>6, <1>8, <3>1, ApprovedMore
    <3> QED
      BY <2>3, <3>2, Zenon
  <2>4. CASE /\ Object(c)'.messages = Append(msgs, r)
             /\ ~calls[c].sensitive /\ msgs = Append(Told(s, c - 1), u)
    <3>1. PICK T \in Seq(Messages) : T = Told(s, c - 1) /\ msgs = Append(T, u)
      BY <1>3, <2>4
    <3>2. Len(T) \in Nat /\ Len(msgs) = Len(T) + 1 /\ msgs[Len(T) + 1] = u
      BY <3>1, Appended, ElementOf
    <3>3. Len(msgs) > 0 /\ msgs[Len(msgs)] = u
      BY <3>2
    <3>4. ~later[msgs[Len(msgs)].of].sensitive
      BY <1>7, <1>8, <2>4, <3>3
    <3>5. Approved(later, Append(msgs, r))
      BY <1>6, <1>8, <3>3, <3>4, ApprovedMore
    <3> QED
      BY <2>4, <3>5, Zenon
  <2> QED
    BY <1>9, <2>1, <2>2, <2>3, <2>4, Zenon
<1>11. Stored(s)' => History(s)' = Object(c)'.messages
  BY <1>3, <1>9 DEF History
<1> QED
  BY <1>3, <1>5, <1>10, <1>11 DEF ApprovalOf

LEMMA NextApprovalInv ==
  ASSUME IsolationInv, IsolationInv', HistoryInv, HistoryInv', ApprovalInv, [Next]_vars
  PROVE  ApprovalInv'
<1>1. ASSUME NEW s \in Exclusive PROVE ApprovalOf(s)'
  <2>1. s \in Sessions /\ HistoryOf(s) /\ HistoryOf(s)' /\ ApprovalOf(s)
    BY SessionAssumption DEF HistoryInv, ApprovalInv
  <2>2. CASE Untouched(s)
    BY <2>1, <2>2, UntouchedApproval
  <2>3. ASSUME ActiveOn(s) = {}, NEW op \in Ops, NEW sensitive \in BOOLEAN, Start(s, op, sensitive)
        PROVE  ApprovalOf(s)'
    BY <2>1, <2>3, StartApproval
  <2>4. ASSUME NEW c \in ActiveOn(s), Step(c) PROVE ApprovalOf(s)'
    BY <2>1, <2>4, StepApproval
  <2>5. \/ Untouched(s)
        \/ ActiveOn(s) = {} /\ \E op \in Ops, sensitive \in BOOLEAN : Start(s, op, sensitive)
        \/ \E c \in ActiveOn(s) : Step(c)
    BY <2>1, StepsOf
  <2> QED
    BY <2>2, <2>3, <2>4, <2>5, Zenon
<1> QED
  BY <1>1, Zenon DEF ApprovalInv

\* What makes the next theorem inductive: it holds of an object before it is
\* stored.
THEOREM ApprovalInvariant == Spec => []ApprovalInv
<1>1. ASSUME Init PROVE ApprovalInv
  <2>1. calls = <<>> /\ data = [s \in Sessions |-> Nil] /\ Exclusive \subseteq Sessions
    BY <1>1, SessionAssumption DEF Init
  <2>2. DOMAIN calls = {} /\ \A s \in Exclusive : ~Stored(s)
    BY <2>1 DEF Stored
  <2> QED
    BY <2>2 DEF ApprovalInv, ApprovalOf, ActiveOn, Active
<1> QED
  BY <1>1, NextApprovalInv, IsolationInvariant, HistoryInvariant, PTL DEF Spec

\* In an exclusive session a sensitive input is answered on approval only.
THEOREM AnsweredOnApproval == Spec => []SensitiveAnsweredOnApproval
<1>1. ASSUME ApprovalInv PROVE SensitiveAnsweredOnApproval
  <2>1. ASSUME NEW s \in Exclusive PROVE Approved(calls, History(s))
    <3>1. CASE Stored(s)
      BY <1>1, <3>1 DEF ApprovalInv, ApprovalOf
    <3>2. CASE ~Stored(s)
      BY <3>2 DEF History, Approved
    <3> QED
      BY <3>1, <3>2
  <2> QED
    BY <2>1 DEF Approved, SensitiveAnsweredOnApproval
<1> QED
  BY <1>1, ApprovalInvariant, PTL

-----------------------------------------------------------------------------
(* Decisions *)

\* Whether the session of the call in progress waits, before and after a step.
LEMMA WaitingStep ==
  ASSUME IsolationInv, IsolationInv', NEW s \in Sessions, HistoryOf(s), NEW c \in ActiveOn(s), Step(c)
  PROVE  /\ Waiting(s) <=> \/ calls[c].outcome = "paused"
                           \/ calls[c].outcome = "running" /\ Object(c).pending # Nil
         /\ calls'[c].pc # "done" =>
              (Waiting(s)' <=> \/ calls'[c].outcome = "paused"
                               \/ calls'[c].outcome = "running" /\ Object(c)'.pending # Nil)
         /\ calls'[c].pc = "done" => (Waiting(s)' <=> Stored(s)' /\ Object(c)'.pending # Nil)
<1>1. c \in DOMAIN calls
  BY DEF ActiveOn, Active
<1>2. Own(c)
  BY <1>1, StepOwn
<1>3. /\ ActiveOn(s) = {c} /\ ActiveOn(s)' = (IF calls'[c].pc = "done" THEN {} ELSE {c})
      /\ Object(c)' = heap'[calls[c].obj]
  BY <1>2, OwnFacts
<1>4. Stored(s)' => data'[s] = calls[c].obj
  BY StepSays
<1>5. Paused(s)' <=> Stored(s)' /\ Object(c)'.pending # Nil
  BY <1>3, <1>4 DEF Paused
<1>6. Waiting(s) <=> \/ calls[c].outcome = "paused"
                     \/ calls[c].outcome = "running" /\ Object(c).pending # Nil
  BY <1>3, Zenon DEF Waiting
<1>7. ASSUME calls'[c].pc # "done"
      PROVE  Waiting(s)' <=> \/ calls'[c].outcome = "paused"
                             \/ calls'[c].outcome = "running" /\ Object(c)'.pending # Nil
  BY <1>3, <1>7, Zenon DEF Waiting
<1>8. ASSUME calls'[c].pc = "done"
      PROVE  Waiting(s)' <=> Stored(s)' /\ Object(c)'.pending # Nil
  BY <1>3, <1>5, <1>8, Zenon DEF Waiting
<1> QED
  BY <1>6, <1>7, <1>8

\* What a step means for the pause of its session: nothing, a turn that got past
\* it is sent, a turn pauses, or the pause is decided.
Unmoved(s, c) ==
  /\ Sent(c)' <=> Sent(c)
  /\ Decides(c)' <=> Decides(c)
  /\ Sent(c) => (calls'[c].outcome = "paused" <=> calls[c].outcome = "paused")
  /\ Waiting(s)' <=> Waiting(s)
Sends(s, c) ==
  ~Sent(c) /\ Sent(c)' /\ ~Decides(c) /\ ~Decides(c)' /\ ~Waiting(s) /\ calls'[c].outcome # "paused"
Pauses(s, c) ==
  /\ Sent(c) /\ Sent(c)' /\ ~Decides(c) /\ ~Decides(c)'
  /\ calls[c].outcome # "paused" /\ calls'[c].outcome = "paused" /\ Waiting(s)'
Resolves(s, c) ==
  ~Sent(c) /\ ~Sent(c)' /\ ~Decides(c) /\ Decides(c)' /\ Waiting(s) /\ ~Waiting(s)'

LEMMA StepDecides ==
  ASSUME IsolationInv, IsolationInv', NEW s \in Sessions, HistoryOf(s), NEW c \in ActiveOn(s), Step(c)
  PROVE  Unmoved(s, c) \/ Sends(s, c) \/ Pauses(s, c) \/ Resolves(s, c)
<1> DEFINE k == calls[c]
           Then(pc, outcome, req, pending, stored) ==
             \E base, messages : Does(c, pc, outcome, req, base, messages, pending, stored)
<1>1. c \in DOMAIN calls /\ InProgress(s, c) /\ calls[c].session = s
  BY Zenon DEF HistoryOf, ActiveOn, Active
<1>2. Entering(c) \/ InTurn(c) \/ InApproval(c) \/ InDenial(c)
  BY <1>1, Zenon DEF InProgress
<1>3. k.op \in Ops /\ Object(c).messages # Nil /\ k.obj # Nil
  <2>1. calls[c] \in Calls /\ calls[c].obj \in Numbers /\ Object(c).messages \in Seq(Messages)
    BY <1>1, CallOf, Zenon
  <2>2. calls[c].op \in Ops
    BY <2>1 DEF Calls
  <2> QED
    BY <2>1, <2>2, NilAssumption
<1>4. Asked(c) => Object(c).messages # <<>>
  <2>1. PICK T \in Seq(Messages) : T = Told(s, c - 1)
    <3>1. Own(c)
      BY <1>1, StepOwn
    <3> QED
      BY <3>1, OwnFacts
  <2>2. PICK u \in Messages, r \in Messages : u = User(c) /\ r = Reply(c)
    <3>1. c \in Numbers
      BY <1>1, Typed, Zenon DEF IsolationInv
    <3>2. User(c) \in Messages /\ Reply(c) \in Messages
      BY <3>1 DEF User, Reply, Messages
    <3> QED
      BY <3>2
  <2>3. Append(T, u) \in Seq(Messages) /\ Append(T, u) # <<>> /\ Append(Append(T, u), r) # <<>>
    OBVIOUS
  <2>4. Asked(c) => Object(c).messages \in {Append(T, u), Append(Append(T, u), r)}
    BY <1>1, <2>1, <2>2, Zenon DEF InProgress, Expected
  <2> QED
    BY <2>3, <2>4, Zenon
<1>5. /\ Waiting(s) <=> \/ calls[c].outcome = "paused"
                        \/ calls[c].outcome = "running" /\ Object(c).pending # Nil
      /\ calls'[c].pc # "done" =>
           (Waiting(s)' <=> \/ calls'[c].outcome = "paused"
                            \/ calls'[c].outcome = "running" /\ Object(c)'.pending # Nil)
      /\ calls'[c].pc = "done" => (Waiting(s)' <=> Stored(s)' /\ Object(c)'.pending # Nil)
  BY WaitingStep
<1>6. ASSUME NEW pc, NEW outcome, NEW req, NEW pending, NEW stored, Then(pc, outcome, req, pending, stored)
      PROVE  /\ calls'[c].pc = pc /\ calls'[c].outcome = outcome /\ calls'[c].req = req
             /\ calls'[c].op = calls[c].op /\ Object(c)'.pending = pending
             /\ Stored(s)' <=> stored # Nil
  <2>1. PICK base, messages : Does(c, pc, outcome, req, base, messages, pending, stored)
    BY <1>6
  <2>2. /\ calls'[c].pc = pc /\ calls'[c].outcome = outcome /\ calls'[c].req = req
        /\ calls'[c].op = calls[c].op /\ Object(c)'.pending = pending /\ data'[s] = stored
    BY <2>1, DoesFacts
  <2> QED
    BY <2>2 DEF Stored
<1>7. Stored(s) <=> data[s] # Nil
  BY DEF Stored
<1> DEFINE Q(pc, outcome, req) == Then(pc, outcome, req, Object(c).pending, data[s])
<1>8. CASE CheckTurn(c)
  <2>1. IF Object(c).pending # Nil THEN Q("done", "refused", k.req) ELSE Q("append", k.outcome, k.req)
    BY <1>1, <1>8, QuietEffects, Zenon
  <2>2. k.pc = "check" /\ Entering(c)
    BY <1>2, <1>8 DEF CheckTurn, InTurn, InApproval, InDenial, At
  <2> HIDE DEF Then
  <2>3. Unmoved(s, c)
    BY <1>1, <1>5, <1>6, <1>7, <2>1, <2>2 DEF Entering, At, Unmoved, Sent, Decides
  <2> QED
    BY <2>3
<1>9. CASE CheckResume(c)
  <2>1. IF Object(c).pending = Nil THEN Q("done", "refused", k.req)
        ELSE IF k.op = "deny" THEN Q("deny", "denied", Object(c).pending)
                              ELSE Q("invoke", k.outcome, Object(c).pending)
    BY <1>1, <1>9, QuietEffects, Zenon
  <2>2. k.pc = "check" /\ k.op # "turn" /\ Entering(c)
    BY <1>2, <1>9 DEF CheckResume, InTurn, InApproval, InDenial, At
  <2> HIDE DEF Then
  <2>3. CASE Object(c).pending = Nil
    BY <1>1, <1>5, <1>6, <1>7, <2>1, <2>2, <2>3 DEF Entering, At, Unmoved, Sent, Decides
  <2>4. CASE Object(c).pending # Nil /\ k.op = "deny"
    BY <1>1, <1>5, <1>6, <1>7, <2>1, <2>2, <2>4 DEF Entering, At, Resolves, Sent, Decides
  <2>5. CASE Object(c).pending # Nil /\ k.op # "deny"
    BY <1>1, <1>5, <1>6, <1>7, <2>1, <2>2, <2>5 DEF Entering, At, Unmoved, Sent, Decides
  <2> QED
    BY <2>3, <2>4, <2>5
<1>10. CASE ReadHeader(c)
  <2>1. Q(IF k.pc = "append" THEN "write" ELSE "record", k.outcome, k.req)
    BY <1>1, <1>10, QuietEffects, Zenon
  <2> HIDE DEF Then
  <2>2. Unmoved(s, c)
    BY <1>5, <1>6, <2>1 DEF Unmoved, Sent, Decides
  <2> QED
    BY <2>2
<1>11. CASE Request(c)
  <2>1. Q("invoke", k.outcome, Object(c).messages)
    BY <1>1, <1>11, QuietEffects, Zenon
  <2>2. k.pc = "request" /\ InTurn(c)
    BY <1>2, <1>11 DEF Request, Entering, InApproval, InDenial, At
  <2> HIDE DEF Then
  <2>3. Asked(c)
    BY <2>2 DEF InTurn, Asked
  <2>4. Sends(s, c)
    BY <1>4, <1>5, <1>6, <2>1, <2>2, <2>3 DEF InTurn, At, Sends, Sent, Decides
  <2> QED
    BY <2>4
<1>12. CASE InvokeFails(c)
  <2>1. Q("done", "failed", k.req)
    BY <1>1, <1>12, QuietEffects, Zenon
  <2>2. k.pc = "invoke" /\ (InTurn(c) \/ InApproval(c))
    BY <1>2, <1>12 DEF InvokeFails, Entering, InDenial, At
  <2> HIDE DEF Then
  <2>3. Unmoved(s, c)
    BY <1>1, <1>3, <1>5, <1>6, <1>7, <2>1, <2>2 DEF InTurn, InApproval, At, Unmoved, Sent, Decides
  <2> QED
    BY <2>3
<1>13. CASE InvokePauses(c)
  <2>1. Q("pause", "paused", k.req)
    BY <1>1, <1>13, QuietEffects, Zenon
  <2>2. k.pc = "invoke" /\ InTurn(c)
    BY <1>2, <1>13 DEF InvokePauses, Evaluate, Entering, InApproval, InDenial, At
  <2> HIDE DEF Then
  <2>3. Asked(c)
    BY <2>2 DEF InTurn, Asked
  <2>4. Pauses(s, c)
    BY <1>4, <1>5, <1>6, <2>1, <2>2, <2>3 DEF InTurn, At, Pauses, Sent, Decides
  <2> QED
    BY <2>4
<1>14. CASE InvokeReplies(c)
  <2>1. Q(IF k.op = "turn" THEN "answer" ELSE "restore", "replied", k.req)
    BY <1>1, <1>14, QuietEffects, Zenon
  <2>2. k.pc = "invoke" /\ (InTurn(c) \/ InApproval(c))
    BY <1>2, <1>14 DEF InvokeReplies, Entering, InDenial, At
  <2> HIDE DEF Then
  <2>3. CASE InTurn(c)
    BY <1>5, <1>6, <2>1, <2>2, <2>3 DEF InTurn, At, Unmoved, Sent, Decides
  <2>4. CASE InApproval(c)
    BY <1>3, <1>5, <1>6, <2>1, <2>2, <2>4 DEF InApproval, At, Resolves, Sent, Decides
  <2> QED
    BY <2>2, <2>3, <2>4
<1>15. CASE SetPending(c)
  <2>1. Then("save", k.outcome, k.req, k.req, data[s])
    BY <1>1, <1>15, ObjectEffects, Zenon
  <2>2. k.pc = "pause" /\ k.outcome = "paused"
    BY <1>2, <1>15 DEF SetPending, Entering, InTurn, InApproval, InDenial, At
  <2> HIDE DEF Then
  <2>3. Unmoved(s, c)
    BY <1>5, <1>6, <2>1, <2>2 DEF Unmoved, Sent, Decides
  <2> QED
    BY <2>3
<1>16. CASE Restore(c)
  <2>1. Then("answer", k.outcome, k.req, Object(c).pending, data[s])
    BY <1>1, <1>16, ObjectEffects, Zenon
  <2> HIDE DEF Then
  <2>2. Unmoved(s, c)
    BY <1>5, <1>6, <2>1 DEF Unmoved, Sent, Decides
  <2> QED
    BY <2>2
<1>17. CASE Clear(c)
  <2>1. Then("save", k.outcome, k.req, Nil, data[s])
    BY <1>1, <1>17, ObjectEffects, Zenon
  <2>2. k.outcome \in {"replied", "denied"}
    BY <1>2, <1>17 DEF Clear, Entering, InTurn, InApproval, InDenial, At
  <2> HIDE DEF Then
  <2>3. Unmoved(s, c)
    BY <1>5, <1>6, <2>1, <2>2 DEF Unmoved, Sent, Decides
  <2> QED
    BY <2>3
<1>18. CASE Save(c)
  <2>1. Then("done", k.outcome, k.req, Object(c).pending, k.obj)
    BY <1>1, <1>18, ObjectEffects, Zenon
  <2>2. k.pc = "save" /\ (InTurn(c) \/ InApproval(c) \/ InDenial(c))
    BY <1>2, <1>18 DEF Save, Entering, At
  <2> HIDE DEF Then
  <2>3. Unmoved(s, c)
    BY <1>3, <1>5, <1>6, <2>1, <2>2 DEF InTurn, InApproval, InDenial, At, Unmoved, Sent, Decides
  <2> QED
    BY <2>3
<1>19. CASE AppendUser(c) \/ AppendReply(c)
  <2>1. c \in Numbers
    BY <1>1, Typed, Zenon DEF IsolationInv
  <2>2. PICK m \in Messages, pc \in {"request", "save", "clear"} :
          m.of = c /\ WriteBack(c, m, pc) /\ data' = data
    <3>1. User(c) \in Messages /\ User(c).of = c /\ Reply(c) \in Messages /\ Reply(c).of = c
      BY <2>1 DEF User, Reply, Messages
    <3> QED
      BY <1>19, <3>1, Zenon DEF AppendUser, AppendReply
  <2>3. PICK req, pending : /\ Then(pc, k.outcome, req, pending, data[s])
                            /\ req = <<>> <=> k.req = <<>>
                            /\ Object(c).pending = Nil => pending = Nil
    BY <1>1, <2>2, WriteBackEffect, Zenon
  <2>4. (k.outcome = "running" /\ Object(c).pending = Nil) \/ k.outcome = "replied"
    BY <1>2, <1>19 DEF AppendUser, AppendReply, Entering, InTurn, InApproval, InDenial, At
  <2> HIDE DEF Then
  <2>5. Unmoved(s, c)
    BY <1>5, <1>6, <2>2, <2>3, <2>4 DEF Unmoved, Sent, Decides
  <2> QED
    BY <2>5
<1> QED
  BY <1>8, <1>9, <1>10, <1>11, <1>12, <1>13, <1>14, <1>15, <1>16, <1>17, <1>18, <1>19, Zenon
     DEF Step, Turn, Resume, Shared

\* The decisions between two calls.
Between(s, c, d) == {e \in CallsOn(s) : c < e /\ e < d /\ Decides(e)}

\* Two sent turns with no other between them, the first of which paused.
Follows(s, c, d) ==
  /\ c < d /\ Sent(c) /\ calls[c].outcome = "paused" /\ Sent(d)
  /\ \A e \in CallsOn(s) : c < e /\ e < d => ~Sent(e)

LEMMA DecidedOnceBy ==
  ASSUME NEW s
  PROVE  /\ DecidedOnceOn(s) <=> \A c, d \in CallsOn(s) : Follows(s, c, d) => Cardinality(Between(s, c, d)) = 1
         /\ DecidedOnceOn(s)' <=>
              \A c, d \in CallsOn(s)' : Follows(s, c, d)' => Cardinality(Between(s, c, d)') = 1
<1>1. ASSUME NEW c, NEW d
      PROVE  /\ {e \in {e \in CallsOn(s) : c < e /\ e < d} : Decides(e)} = Between(s, c, d)
             /\ {e \in {e \in CallsOn(s)' : c < e /\ e < d} : Decides(e)'} = Between(s, c, d)'
             /\ (\A e \in {e \in CallsOn(s) : c < e /\ e < d} : ~Sent(e))
                  <=> (\A e \in CallsOn(s) : c < e /\ e < d => ~Sent(e))
             /\ (\A e \in {e \in CallsOn(s)' : c < e /\ e < d} : ~Sent(e)')
                  <=> (\A e \in CallsOn(s)' : c < e /\ e < d => ~Sent(e)')
  BY DEF Between
<1> DEFINE Once(c, d) ==
             LET between == {e \in CallsOn(s) : c < e /\ e < d}
             IN  c < d /\ Sent(c) /\ calls[c].outcome = "paused" /\ Sent(d)
                   /\ (\A e \in between : ~Sent(e))
                 => Cardinality({e \in between : Decides(e)}) = 1
<1>2. ASSUME NEW c, NEW d
      PROVE  Once(c, d) <=> (Follows(s, c, d) => Cardinality(Between(s, c, d)) = 1)
  BY <1>1 DEF Follows
<1>3. ASSUME NEW c, NEW d
      PROVE  Once(c, d)' <=> (Follows(s, c, d)' => Cardinality(Between(s, c, d)') = 1)
  BY <1>1 DEF Follows
<1>4. /\ DecidedOnceOn(s) <=> \A c, d \in CallsOn(s) : Once(c, d)
      /\ DecidedOnceOn(s)' <=> \A c, d \in CallsOn(s)' : Once(c, d)'
  BY Zenon DEF DecidedOnceOn
<1> HIDE DEF Once
<1> QED
  BY <1>2, <1>3, <1>4, Zenon

\* A session on which nothing new is sent or decided keeps its decisions.
LEMMA SameDecisions ==
  ASSUME NEW s, CallsOn(s) \subseteq CallsOn(s)',
         \A e \in CallsOn(s) : /\ Sent(e)' <=> Sent(e)
                               /\ Decides(e)' <=> Decides(e)
                               /\ Sent(e) => (calls'[e].outcome = "paused" <=> calls[e].outcome = "paused"),
         \A e \in CallsOn(s)' : e \notin CallsOn(s) => ~Sent(e)' /\ ~Decides(e)',
         Waiting(s)' <=> Waiting(s), DecidedOnceOn(s), DecisionOf(s)
  PROVE  DecidedOnceOn(s)' /\ DecisionOf(s)'
<1>1. ASSUME NEW c \in CallsOn(s)', NEW d \in CallsOn(s)', Follows(s, c, d)'
      PROVE  Cardinality(Between(s, c, d)') = 1
  <2>1. c \in CallsOn(s) /\ d \in CallsOn(s)
    BY <1>1 DEF Follows
  <2>2. Follows(s, c, d)
    BY <1>1, <2>1 DEF Follows
  <2>3. Between(s, c, d)' = Between(s, c, d)
    BY DEF Between
  <2>4. Cardinality(Between(s, c, d)) = 1
    BY <2>1, <2>2, DecidedOnceBy
  <2> QED
    BY <2>3, <2>4, Zenon
<1>2. ASSUME NEW c \in CallsOn(s)', LastSent(s, c)', calls'[c].outcome = "paused"
      PROVE  IF Waiting(s)' THEN Decisions(s, c)' = {} ELSE \E e \in CallsOn(s)' : Decisions(s, c)' = {e}
  <2>1. c \in CallsOn(s)
    BY <1>2 DEF LastSent
  <2>2. LastSent(s, c) /\ calls[c].outcome = "paused"
    BY <1>2, <2>1 DEF LastSent
  <2>3. Decisions(s, c)' = Decisions(s, c)
    BY DEF Decisions
  <2> QED
    BY <2>1, <2>2, <2>3, Zenon DEF DecisionOf
<1>3. DecidedOnceOn(s)'
  BY <1>1, DecidedOnceBy
<1> QED
  BY <1>2, <1>3, Zenon DEF DecisionOf

LEMMA UntouchedDecision ==
  ASSUME IsolationInv, IsolationInv', NEW s \in Sessions, Untouched(s), DecidedOnceOn(s), DecisionOf(s)
  PROVE  DecidedOnceOn(s)' /\ DecisionOf(s)'
<1>1. /\ CallsOn(s)' = CallsOn(s) /\ ActiveOn(s)' = ActiveOn(s) /\ ActiveOn(s) \subseteq CallsOn(s)
      /\ \A c \in CallsOn(s) : calls'[c] = calls[c] /\ Object(c)' = Object(c)
      /\ (Paused(s)' <=> Paused(s))
  BY UntouchedFacts
<1>2. \A e \in CallsOn(s) : /\ Sent(e)' <=> Sent(e)
                            /\ Decides(e)' <=> Decides(e)
                            /\ Sent(e) => (calls'[e].outcome = "paused" <=> calls[e].outcome = "paused")
  BY <1>1 DEF Sent, Decides
<1>3. Waiting(s)' <=> Waiting(s)
  BY <1>1 DEF Waiting
<1> QED
  BY <1>1, <1>2, <1>3, SameDecisions

LEMMA StartDecision ==
  ASSUME IsolationInv, IsolationInv', NEW s \in Sessions, NEW op, NEW sensitive, Start(s, op, sensitive),
         HistoryOf(s), ActiveOn(s) = {}, DecidedOnceOn(s), DecisionOf(s)
  PROVE  DecidedOnceOn(s)' /\ DecisionOf(s)'
<1>1. PICK n : n = Len(calls) + 1
  OBVIOUS
<1>2. Starts(n, s, op, sensitive)
  BY <1>1, StartEffect
<1>3. /\ DOMAIN calls' = DOMAIN calls \cup {n}
      /\ \A d \in DOMAIN calls : calls'[d] = calls[d]
      /\ calls'[n].session = s /\ calls'[n].pc = "check" /\ calls'[n].outcome = "running"
      /\ calls'[n].req = <<>>
  BY <1>2, Zenon DEF Starts
<1>4. Object(n)'.pending # Nil <=> Paused(s)
  BY <1>1, StartObject
<1>5. /\ CallsOn(s)' = CallsOn(s) \cup {n} /\ CallsOn(s) \subseteq DOMAIN calls
  BY <1>3 DEF CallsOn
<1>6. ActiveOn(s)' = {n}
  <2>1. \A d \in CallsOn(s) : calls[d].pc = "done"
    BY DEF ActiveOn, Active, CallsOn, Running
  <2>2. ActiveOn(s)' = {d \in CallsOn(s)' : calls'[d].pc # "done"}
    BY DEF ActiveOn, Active, CallsOn, Running
  <2> QED
    BY <1>3, <1>5, <2>1, <2>2
<1>7. Waiting(s)' <=> Waiting(s)
  <2>1. Waiting(s) <=> Paused(s)
    BY Zenon DEF Waiting
  <2>2. Waiting(s)' <=> \/ calls'[n].outcome = "paused"
                        \/ calls'[n].outcome = "running" /\ Object(n)'.pending # Nil
    BY <1>6, Zenon DEF Waiting
  <2> QED
    BY <1>3, <1>4, <2>1, <2>2
<1>8. \A e \in CallsOn(s) : /\ Sent(e)' <=> Sent(e)
                            /\ Decides(e)' <=> Decides(e)
                            /\ Sent(e) => (calls'[e].outcome = "paused" <=> calls[e].outcome = "paused")
  BY <1>3, <1>5 DEF Sent, Decides
<1>9. \A e \in CallsOn(s)' : e \notin CallsOn(s) => ~Sent(e)' /\ ~Decides(e)'
  BY <1>3, <1>5 DEF Sent, Decides
<1>10. CallsOn(s) \subseteq CallsOn(s)'
  BY <1>5
<1> QED
  BY <1>7, <1>8, <1>9, <1>10, SameDecisions

LEMMA StepDecision ==
  ASSUME IsolationInv, IsolationInv', NEW s \in Sessions, HistoryOf(s), NEW c \in ActiveOn(s), Step(c),
         DecidedOnceOn(s), DecisionOf(s)
  PROVE  DecidedOnceOn(s)' /\ DecisionOf(s)'
<1>1. c \in DOMAIN calls
  BY DEF ActiveOn, Active
<1>2. Own(c)
  BY <1>1, StepOwn
<1>3. /\ CallsOn(s)' = CallsOn(s) /\ CallsOn(s) \subseteq DOMAIN calls /\ c \in CallsOn(s)
      /\ \A d \in CallsOn(s) : d # c => d < c
  BY <1>2, OwnFacts
<1>4. \A d \in CallsOn(s) : d \in Nat
  BY <1>3, CallOf
<1>5. ASSUME NEW e \in CallsOn(s), e # c
      PROVE  /\ Sent(e)' <=> Sent(e)
             /\ Decides(e)' <=> Decides(e)
             /\ calls'[e].outcome = calls[e].outcome
  <2>1. /\ calls'[e].op = calls[e].op /\ calls'[e].outcome = calls[e].outcome
        /\ calls'[e].req = <<>> <=> calls[e].req = <<>>
    BY <1>2, <1>3, <1>5, Zenon DEF Own
  <2> QED
    BY <2>1 DEF Sent, Decides
<1>6. CASE Unmoved(s, c)
  <2>1. \A e \in CallsOn(s) : /\ Sent(e)' <=> Sent(e)
                              /\ Decides(e)' <=> Decides(e)
                              /\ Sent(e) => (calls'[e].outcome = "paused" <=> calls[e].outcome = "paused")
    BY <1>5, <1>6 DEF Unmoved
  <2>2. Waiting(s)' <=> Waiting(s)
    BY <1>6 DEF Unmoved
  <2> QED
    BY <1>3, <2>1, <2>2, SameDecisions
<1>7. ASSUME NEW a \in CallsOn(s), NEW b \in CallsOn(s), Follows(s, a, b)', b # c \/ Sent(c)
      PROVE  Cardinality(Between(s, a, b)') = 1
  <2>1. a \in Nat /\ b \in Nat /\ c \in Nat /\ a < b /\ a # c /\ (b = c \/ b < c)
    <3>1. a \in Nat /\ b \in Nat /\ c \in Nat /\ a < b /\ (a = c \/ a < c) /\ (b = c \/ b < c)
      BY <1>3, <1>4, <1>7 DEF Follows
    <3> QED
      BY <3>1
  <2>2. \A e \in CallsOn(s) : e < b => e # c
    BY <1>4, <2>1
  <2>3. Sent(b) /\ Sent(a) /\ calls[a].outcome = "paused"
    BY <1>5, <1>7, <2>1 DEF Follows
  <2>4. \A e \in CallsOn(s) : a < e /\ e < b => ~Sent(e)
    <3>1. \A e \in CallsOn(s) : a < e /\ e < b => ~Sent(e)'
      BY <1>3, <1>7 DEF Follows
    <3> QED
      BY <1>5, <2>2, <3>1
  <2>5. Follows(s, a, b)
    BY <2>1, <2>3, <2>4 DEF Follows
  <2>6. Between(s, a, b)' = Between(s, a, b)
    BY <1>3, <1>5, <2>2 DEF Between
  <2>7. Cardinality(Between(s, a, b)) = 1
    BY <2>5, DecidedOnceBy
  <2> QED
    BY <2>6, <2>7, Zenon
<1>8. CASE Sends(s, c)
  <2>0. ~Sent(c) /\ Sent(c)' /\ ~Decides(c) /\ ~Decides(c)' /\ ~Waiting(s) /\ calls'[c].outcome # "paused"
    BY <1>8 DEF Sends
  <2>1. ASSUME NEW a \in CallsOn(s), Follows(s, a, c)'
        PROVE  Cardinality(Between(s, a, c)') = 1
    <3>1. a < c /\ a # c
      <4>1. a < c /\ a \in Nat /\ c \in Nat
        BY <1>3, <1>4, <2>1 DEF Follows
      <4> QED
        BY <4>1
    <3>2. Sent(a) /\ calls[a].outcome = "paused"
      BY <1>5, <2>1, <3>1 DEF Follows
    <3>3. \A e \in CallsOn(s) : a < e => ~Sent(e)
      <4>1. \A e \in CallsOn(s) : a < e /\ e < c => ~Sent(e)'
        BY <1>3, <2>1 DEF Follows
      <4> QED
        BY <1>3, <1>5, <2>0, <4>1
    <3>4. PICK e0 \in CallsOn(s) : Decisions(s, a) = {e0}
      BY <2>0, <3>2, <3>3, Zenon DEF DecisionOf, LastSent
    <3>5. Between(s, a, c)' = {e \in CallsOn(s) : a < e /\ e < c /\ Decides(e)'}
      BY <1>3 DEF Between
    <3>6. \A e \in CallsOn(s) : (a < e /\ e < c /\ Decides(e)') <=> (a < e /\ Decides(e))
      <4>1. \A e \in CallsOn(s) : e < c <=> e # c
        <5>1. ~(c < c)
          BY <1>3, <1>4
        <5> QED
          BY <1>3, <5>1
      <4> QED
        BY <1>5, <2>0, <4>1
    <3>7. Between(s, a, c)' = Decisions(s, a)
      BY <3>5, <3>6 DEF Decisions
    <3>8. Cardinality({e0}) = 1
      BY FS_Singleton
    <3> QED
      BY <3>4, <3>7, <3>8, Zenon
  <2>2. \A a, b \in CallsOn(s)' : Follows(s, a, b)' => Cardinality(Between(s, a, b)') = 1
    BY <1>3, <1>7, <2>1
  <2>3. DecidedOnceOn(s)'
    BY <2>2, DecidedOnceBy
  <2>4. ASSUME NEW a \in CallsOn(s)', LastSent(s, a)', calls'[a].outcome = "paused" PROVE FALSE
    <3>1. a # c
      BY <2>0, <2>4
    <3>2. a < c /\ c \in CallsOn(s)'
      BY <1>3, <3>1
    <3> QED
      BY <2>0, <2>4, <3>2 DEF LastSent
  <2> QED
    BY <2>3, <2>4, Zenon DEF DecisionOf
<1>9. CASE Pauses(s, c)
  <2>0. Sent(c) /\ Sent(c)' /\ Waiting(s)'
    BY <1>9 DEF Pauses
  <2>1. DecidedOnceOn(s)'
    BY <1>3, <1>7, <2>0, DecidedOnceBy
  <2>2. ASSUME NEW a \in CallsOn(s)', LastSent(s, a)' PROVE Decisions(s, a)' = {}
    <3>1. a = c
      BY <1>3, <2>0, <2>2 DEF LastSent
    <3>2. \A e \in CallsOn(s)' : ~(c < e)
      <4>1. \A e \in CallsOn(s) : e \in Nat /\ c \in Nat /\ (e = c \/ e < c)
        BY <1>3, <1>4
      <4> QED
        BY <1>3, <4>1
    <3> QED
      BY <3>1, <3>2 DEF Decisions
  <2> QED
    BY <2>0, <2>1, <2>2, Zenon DEF DecisionOf
<1>10. CASE Resolves(s, c)
  <2>0. ~Sent(c) /\ ~Sent(c)' /\ ~Decides(c) /\ Decides(c)' /\ Waiting(s) /\ ~Waiting(s)'
    BY <1>10 DEF Resolves
  <2>1. \A a, b \in CallsOn(s)' : Follows(s, a, b)' => b # c
    BY <2>0 DEF Follows
  <2>2. DecidedOnceOn(s)'
    BY <1>3, <1>7, <2>1, DecidedOnceBy
  <2>3. ASSUME NEW a \in CallsOn(s)', LastSent(s, a)', calls'[a].outcome = "paused"
        PROVE  Decisions(s, a)' = {c}
    <3>1. a # c /\ a < c
      BY <1>3, <2>0, <2>3 DEF LastSent
    <3>2. Sent(a) /\ calls[a].outcome = "paused"
      BY <1>3, <1>5, <2>3, <3>1 DEF LastSent
    <3>3. \A e \in CallsOn(s) : a < e => ~Sent(e)
      BY <1>3, <1>5, <2>0, <2>3 DEF LastSent
    <3>4. Decisions(s, a) = {}
      BY <1>3, <2>0, <3>2, <3>3, Zenon DEF DecisionOf, LastSent
    <3> QED
      BY <1>3, <1>5, <2>0, <3>1, <3>4 DEF Decisions
  <2> QED
    BY <1>3, <2>0, <2>2, <2>3, Zenon DEF DecisionOf
<1> QED
  BY <1>6, <1>8, <1>9, <1>10, StepDecides, Zenon

LEMMA NextDecisionInv ==
  ASSUME IsolationInv, IsolationInv', HistoryInv, DecisionInv, [Next]_vars
  PROVE  DecisionInv'
<1>1. ASSUME NEW s \in Exclusive PROVE DecidedOnceOn(s)' /\ DecisionOf(s)'
  <2>1. s \in Sessions /\ HistoryOf(s) /\ DecidedOnceOn(s) /\ DecisionOf(s)
    BY SessionAssumption DEF HistoryInv, DecisionInv
  <2>2. CASE Untouched(s)
    BY <2>1, <2>2, UntouchedDecision
  <2>3. ASSUME ActiveOn(s) = {}, NEW op \in Ops, NEW sensitive \in BOOLEAN, Start(s, op, sensitive)
        PROVE  DecidedOnceOn(s)' /\ DecisionOf(s)'
    BY <2>1, <2>3, StartDecision
  <2>4. ASSUME NEW c \in ActiveOn(s), Step(c) PROVE DecidedOnceOn(s)' /\ DecisionOf(s)'
    BY <2>1, <2>4, StepDecision
  <2>5. \/ Untouched(s)
        \/ ActiveOn(s) = {} /\ \E op \in Ops, sensitive \in BOOLEAN : Start(s, op, sensitive)
        \/ \E c \in ActiveOn(s) : Step(c)
    BY <2>1, StepsOf
  <2> QED
    BY <2>2, <2>3, <2>4, <2>5, Zenon
<1> QED
  BY <1>1, Zenon DEF DecisionInv

\* What makes the next theorem inductive: a pause without a turn after it has
\* one decision, or waits for it.
THEOREM DecisionInvariant == Spec => []DecisionInv
<1>1. ASSUME Init PROVE DecisionInv
  <2>1. calls = <<>>
    BY <1>1 DEF Init
  <2>2. \A s : CallsOn(s) = {}
    BY <2>1 DEF CallsOn
  <2> QED
    BY <2>2 DEF DecisionInv, DecidedOnceOn, DecisionOf
<1> QED
  BY <1>1, NextDecisionInv, IsolationInvariant, HistoryInvariant, PTL DEF Spec

\* Each pause of an exclusive session is decided once.
THEOREM PausesDecidedOnce == Spec => []DecidedOnce
<1>1. DecisionInv => DecidedOnce
  BY DEF DecisionInv, DecidedOnce
<1> QED
  BY <1>1, DecisionInvariant, PTL
=============================================================================
