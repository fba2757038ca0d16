------------------------------ MODULE Session ------------------------------
(* The session pattern of examples/session-pattern: an App that keeps the    *)
(* conversation of a stateless agent in a Store.  Load hands out the stored  *)
(* *Session, never a copy, so calls of one session that overlap share it;    *)
(* Turn and Resume are cut into steps wherever they touch it.                *)
(*                                                                           *)
(* Callers of an Exclusive session wait for one call before making the next, *)
(* as main does; calls of the others overlap.  An append reads the slice     *)
(* header and writes it back in two steps, and one on a stale header may     *)
(* overwrite a slot that another slice of the same array still shows.        *)
EXTENDS Naturals, Sequences, FiniteSets, SequencesExt

CONSTANTS
  Sessions,    \* session ids
  Exclusive,   \* the sessions whose calls never overlap
  MaxCalls,    \* bound on the calls of Turn and Resume
  MaxOverlap,  \* bound on the calls that may overlap: later ones run alone
  MaxActive,   \* bound on the calls in progress at a time
  Nil          \* the nil pointer

ASSUME SessionAssumption ==
  /\ Exclusive \subseteq Sessions /\ Nil \notin Sessions
  /\ MaxCalls \in Nat \ {0} /\ MaxOverlap \in Nat /\ MaxActive \in Nat \ {0}

VARIABLES
  calls,       \* the calls made, in order; a call's number names the session
               \* object that its Load allocates
  heap,        \* session objects
  data         \* the Store's map: the object of each session

vars == <<calls, heap, data>>

Numbers == 1..MaxCalls
Messages == [role : {"user", "assistant"}, of : Numbers]
ASSUME NilAssumption == Nil \notin Numbers /\ Nil \notin Seq(Messages)

User(c) == [role |-> "user", of |-> c]
Reply(c) == [role |-> "assistant", of |-> c]

Running(c) == calls[c].pc # "done"
Active == {c \in DOMAIN calls : Running(c)}
ActiveOn(s) == {c \in Active : calls[c].session = s}
Object(c) == heap[calls[c].obj]

Init ==
  /\ calls = <<>>
  /\ heap = [o \in Numbers |-> [id |-> Nil, messages |-> <<>>, pending |-> Nil]]
  /\ data = [s \in Sessions |-> Nil]

-----------------------------------------------------------------------------
(* The policy and the kernel *)

LastUser(msgs) ==
  LET users == {i \in DOMAIN msgs : msgs[i].role = "user"}
  IN  CHOOSE i \in users : \A j \in users : j <= i

\* Mutated form: the gate looks at the oldest user message.
EvaluateOldest(msgs, approved) ==
  ~approved /\ calls[msgs[1].of].sensitive

\* sensitivityPolicy: does the latest user message ask for an approval?
Evaluate(msgs, approved) ==
  ~approved /\ calls[msgs[LastUser(msgs)].of].sensitive

-----------------------------------------------------------------------------
(* Steps *)

Go(c, pc) == calls' = [calls EXCEPT ![c].pc = pc]
Refuse(c) == calls' = [calls EXCEPT ![c].pc = "done", ![c].outcome = "refused"]

\* Mutated form: the store keeps one record for everybody.
LoadShared(s, c) ==
  LET stored == {data[t] : t \in Sessions} \ {Nil}
  IN  IF stored = {} THEN c ELSE CHOOSE o \in stored : TRUE

Load(s, c) == IF data[s] # Nil THEN data[s] ELSE c

\* A caller enters Turn (op "turn") or Resume ("approve", "deny"): Load.
Start(s, op, sensitive) ==
  LET c == Len(calls) + 1
      o == Load(s, c)
  IN  /\ c <= MaxCalls /\ Cardinality(Active) < MaxActive
      /\ s \in Exclusive => ActiveOn(s) = {}
      /\ c > MaxOverlap => Active = {}
      /\ calls' = Append(calls,
           [op |-> op, session |-> s, sensitive |-> sensitive, pc |-> "check",
            obj |-> o, base |-> <<>>, req |-> <<>>, evaluated |-> FALSE,
            outcome |-> "running"])
      /\ heap' = IF o = c THEN [heap EXCEPT ![c].id = s] ELSE heap
      /\ UNCHANGED data

\* Turn: a paused session refuses the turn.
CheckTurn(c) ==
  /\ calls[c].pc = "check" /\ calls[c].op = "turn"
  /\ IF Object(c).pending # Nil THEN Refuse(c) ELSE Go(c, "append")
  /\ UNCHANGED <<heap, data>>

\* Resume: without a pause there is nothing to resume; snap is read with the
\* test, which compiles to one load.
CheckResume(c) ==
  /\ calls[c].pc = "check" /\ calls[c].op # "turn"
  /\ IF Object(c).pending = Nil
     THEN Refuse(c)
     ELSE calls' = [calls EXCEPT
                      ![c].pc = IF calls[c].op = "deny" THEN "deny" ELSE "invoke",
                      ![c].req = Object(c).pending,
                      ![c].outcome = IF calls[c].op = "deny" THEN "denied" ELSE @]
  /\ UNCHANGED <<heap, data>>

\* append(sess.Messages, m): the header is read ...
ReadHeader(c) ==
  /\ calls[c].pc \in {"append", "answer"}
  /\ calls' = [calls EXCEPT ![c].base = Object(c).messages,
                            ![c].pc = IF @ = "append" THEN "write" ELSE "record"]
  /\ UNCHANGED <<heap, data>>

Overwritten(msgs, base, cap, m) ==
  IF msgs # Nil /\ Len(msgs) \in Len(base) + 1 .. cap /\ IsPrefix(base, msgs)
  THEN [msgs EXCEPT ![Len(base) + 1] = m] ELSE msgs

\* ... and the longer one is written back.  Up to the capacity of the array the
\* slot behind the old length belongs to every slice cut from that array; a
\* full one, and a nil slice, is copied first.
WriteBack(c, m, pc) ==
  LET base == calls[c].base
  IN  \E cap \in Len(base) .. IF base = <<>> THEN 0 ELSE 2 * MaxCalls :
        LET shown(msgs) == Overwritten(msgs, base, cap, m)
            objects == [o \in Numbers |->
                          [heap[o] EXCEPT !.messages = shown(@), !.pending = shown(@)]]
            others == [d \in DOMAIN calls |->
                         [calls[d] EXCEPT !.req = shown(@), !.base = shown(@)]]
        IN  /\ heap' = [objects EXCEPT ![calls[c].obj].messages = Append(base, m)]
            /\ calls' = [others EXCEPT ![c].pc = pc, ![c].base = <<>>]

AppendUser(c) ==
  /\ calls[c].pc = "write"
  /\ WriteBack(c, User(c), "request")
  /\ UNCHANGED data

\* The request of Turn takes sess.Messages as it is now.
Request(c) ==
  /\ calls[c].pc = "request"
  /\ calls' = [calls EXCEPT ![c].req = Object(c).messages, ![c].pc = "invoke"]
  /\ UNCHANGED <<heap, data>>

\* Agent.Invoke: an error, before or after the policy chain ran ...
InvokeFails(c) ==
  /\ calls[c].pc = "invoke"
  /\ \E ran \in BOOLEAN :
       calls' = [calls EXCEPT ![c].pc = "done", ![c].outcome = "failed",
                              ![c].evaluated = ran]
  /\ UNCHANGED <<heap, data>>

\* ... an ApprovalRequiredError with a snapshot of the request ...
InvokePauses(c) ==
  /\ calls[c].pc = "invoke"
  /\ Evaluate(calls[c].req, calls[c].op = "approve")
  /\ calls' = [calls EXCEPT ![c].pc = "pause", ![c].evaluated = TRUE,
                            ![c].outcome = "paused"]
  /\ UNCHANGED <<heap, data>>

\* ... or a response.
InvokeReplies(c) ==
  /\ calls[c].pc = "invoke"
  /\ ~Evaluate(calls[c].req, calls[c].op = "approve")
  /\ calls' = [calls EXCEPT ![c].evaluated = TRUE, ![c].outcome = "replied",
                            ![c].pc = IF calls[c].op = "turn" THEN "answer" ELSE "restore"]
  /\ UNCHANGED <<heap, data>>

\* Mutated form: the pause is returned to the caller but not recorded.
SetPendingForgotten(c) ==
  /\ calls[c].pc = "pause"
  /\ Go(c, "save")
  /\ UNCHANGED <<heap, data>>

\* Turn: sess.PendingApproval = &snap.
SetPending(c) ==
  /\ calls[c].pc = "pause"
  /\ heap' = [heap EXCEPT ![calls[c].obj].pending = calls[c].req]
  /\ Go(c, "save")
  /\ UNCHANGED data

\* Mutated form: the snapshot is appended to the history it was taken from.
RestoreAppends(c) ==
  /\ calls[c].pc = "restore"
  /\ heap' = [heap EXCEPT ![calls[c].obj].messages = @ \o calls[c].req]
  /\ Go(c, "answer")
  /\ UNCHANGED data

\* Resume: sess.Messages = snap.Messages.
Restore(c) ==
  /\ calls[c].pc = "restore"
  /\ heap' = [heap EXCEPT ![calls[c].obj].messages = calls[c].req]
  /\ Go(c, "answer")
  /\ UNCHANGED data

AppendReply(c) ==
  /\ calls[c].pc = "record"
  /\ WriteBack(c, Reply(c), IF calls[c].op = "turn" THEN "save" ELSE "clear")
  /\ UNCHANGED data

\* Mutated form: an approved pause is never cleared.
ClearDenied(c) ==
  /\ calls[c].pc \in {"clear", "deny"}
  /\ heap' = IF calls[c].op = "deny" THEN [heap EXCEPT ![calls[c].obj].pending = Nil]
                                     ELSE heap
  /\ Go(c, "save")
  /\ UNCHANGED data

\* Resume: sess.PendingApproval = nil, after the reply or instead of it.
Clear(c) ==
  /\ calls[c].pc \in {"clear", "deny"}
  /\ heap' = [heap EXCEPT ![calls[c].obj].pending = Nil]
  /\ Go(c, "save")
  /\ UNCHANGED data

\* Store.Save, and the return of Turn or Resume.
Save(c) ==
  /\ calls[c].pc = "save"
  /\ data' = [data EXCEPT ![Object(c).id] = calls[c].obj]
  /\ Go(c, "done")
  /\ UNCHANGED heap

Turn(c) ==
  \/ CheckTurn(c) \/ AppendUser(c) \/ Request(c) \/ SetPending(c)

Resume(c) ==
  \/ CheckResume(c) \/ Restore(c) \/ Clear(c)

Shared(c) ==
  \/ ReadHeader(c) \/ AppendReply(c) \/ Save(c)
  \/ InvokeFails(c) \/ InvokePauses(c) \/ InvokeReplies(c)

Step(c) == Turn(c) \/ Resume(c) \/ Shared(c)

Next ==
  \/ \E s \in Sessions :
       \/ \E sensitive \in BOOLEAN : Start(s, "turn", sensitive)
       \/ \E op \in {"approve", "deny"} : Start(s, op, FALSE)
  \/ \E c \in Active : Step(c)

Spec == Init /\ [][Next]_vars

-----------------------------------------------------------------------------
(* Properties *)

Ops == {"turn", "approve", "deny"}
Points == {"check", "append", "write", "request", "invoke", "pause", "restore", "answer",
           "record", "clear", "deny", "save", "done"}
Outcomes == {"running", "refused", "denied", "failed", "paused", "replied"}
Calls == [op : Ops, session : Sessions, sensitive : BOOLEAN, pc : Points, obj : Numbers,
          base : Seq(Messages), req : Seq(Messages), evaluated : BOOLEAN, outcome : Outcomes]
Objects == [id : Sessions \cup {Nil}, messages : Seq(Messages), pending : Seq(Messages) \cup {Nil}]

\* Type invariant: calls, session objects and the Store's map.
TypeOK ==
  /\ calls \in Seq(Calls) /\ Len(calls) <= MaxCalls
  /\ heap \in [Numbers -> Objects]
  /\ data \in [Sessions -> Numbers \cup {Nil}]

Stored(s) == data[s] # Nil
History(s) == IF Stored(s) THEN heap[data[s]].messages ELSE <<>>
Paused(s) == Stored(s) /\ heap[data[s]].pending # Nil
CallsOn(s) == {c \in DOMAIN calls : calls[c].session = s}

\* However calls overlap, nothing of one session gets into another: not into
\* its history, its snapshot, or a request sent to the model (Load, Save).
SessionsIsolated ==
  /\ \A s \in Sessions : Stored(s) =>
       /\ heap[data[s]].id = s
       /\ \A m \in Range(History(s)) : calls[m.of].session = s
       /\ Paused(s) => \A m \in Range(heap[data[s]].pending) : calls[m.of].session = s
  /\ \A c \in DOMAIN calls :
       \A m \in Range(calls[c].req) : calls[m.of].session = calls[c].session

StoredBefore(c) ==
  \E d \in CallsOn(calls[c].session) : d < c /\ calls[d].outcome \in {"paused", "replied"}

\* Whether the input of call c stays in the history of its session, and whether
\* an answer does.  A failed turn leaves its input behind once the session is
\* in the store: Load gave it the stored object itself.
InputStays(c) ==
  /\ calls[c].op = "turn"
  /\ \/ calls[c].outcome \in {"paused", "replied"}
     \/ calls[c].outcome = "failed" /\ StoredBefore(c)
AnswerStays(c) == calls[c].op # "deny" /\ calls[c].outcome = "replied"

Contribution(c) ==
  (IF InputStays(c) THEN <<User(c)>> ELSE <<>>) \o (IF AnswerStays(c) THEN <<Reply(c)>> ELSE <<>>)

\* What the first n calls leave in the history of session s.
Told(s, n) ==
  FlattenSeq([c \in 1..n |-> IF calls[c].session = s THEN Contribution(c) ELSE <<>>])

\* When the calls of a session do not overlap, its history between calls is
\* exactly what the calls were told, in order: no exchange is lost or doubled
\* by a pause, a denial, a failed resume or a failed turn.
HistoryExact ==
  \A s \in Exclusive : ActiveOn(s) = {} => History(s) = Told(s, Len(calls))

\* In such a session a sensitive input is followed by a response only when the
\* response comes from an approved Resume (sensitivityPolicy through Turn, the
\* stored snapshot and Resume).
SensitiveAnsweredOnApproval ==
  \A s \in Exclusive : \A i \in 1..Len(History(s)) - 1 :
    LET input == History(s)[i]
        next == History(s)[i + 1]
    IN  input.role = "user" /\ calls[input.of].sensitive /\ next.role = "assistant"
          => calls[next.of].op = "approve"

\* A turn that got past the pause, and a resume that decides one.
Sent(c) == calls[c].op = "turn" /\ calls[c].req # <<>>
Decides(c) == calls[c].op # "turn" /\ calls[c].outcome \in {"denied", "replied"}

\* Between a turn that paused and the next that was sent, one decision.
DecidedOnceOn(s) ==
  \A c, d \in CallsOn(s) :
    LET between == {e \in CallsOn(s) : c < e /\ e < d}
    IN  c < d /\ Sent(c) /\ calls[c].outcome = "paused" /\ Sent(d)
          /\ (\A e \in between : ~Sent(e))
        => Cardinality({e \in between : Decides(e)}) = 1

\* Each pause of such a session is decided once: between a turn that paused and
\* the next turn that gets past the pause there is exactly one denial or one
\* answered approval (PendingApproval set, tested and cleared).
DecidedOnce == \A s \in Exclusive : DecidedOnceOn(s)

\* However calls of one session overlap, no message is doubled: not in a history,
\* in a snapshot, or in a request, although an append on a stale header may lose
\* messages or write over them, and Resume puts back a snapshot (append, Restore).
NothingDoubled ==
  /\ \A s \in Sessions : Stored(s) =>
       IsInjective(History(s)) /\ (Paused(s) => IsInjective(heap[data[s]].pending))
  /\ \A c \in DOMAIN calls : IsInjective(calls[c].req)

\* What the gate in sensitivityPolicy relies on (main.go, the comment on the
\* latest user message): by the time the policy looks at a turn, every earlier
\* sensitive input of the history was looked at in its own invocation.
EarlierSensitiveDecided ==
  \A c \in DOMAIN calls :
    calls[c].session \in Exclusive /\ calls[c].op = "turn" /\ calls[c].evaluated =>
      \A i \in 1..LastUser(calls[c].req) - 1 :
        LET m == calls[c].req[i]
        IN  m.role = "user" /\ calls[m.of].sensitive => calls[m.of].evaluated

-----------------------------------------------------------------------------
(* What makes isolation inductive: whose every slice is. *)

\* Messages of calls of session s only.
Owned(made, msgs, s) ==
  \A i \in DOMAIN msgs : msgs[i].of \in DOMAIN made /\ made[msgs[i].of].session = s

ObjectsOwned ==
  \A o \in Numbers :
    /\ Owned(calls, heap[o].messages, heap[o].id)
    /\ heap[o].pending # Nil => Owned(calls, heap[o].pending, heap[o].id)
    /\ o > Len(calls) => heap[o].messages = <<>> /\ heap[o].pending = Nil

\* A call works on an object of its session, never on one of a later call.
CallsOwned ==
  \A c \in DOMAIN calls :
    /\ calls[c].obj <= c /\ heap[calls[c].obj].id = calls[c].session
    /\ Owned(calls, calls[c].req, calls[c].session)
    /\ Owned(calls, calls[c].base, calls[c].session)

StoreOwned ==
  \A s \in Sessions : Stored(s) => data[s] <= Len(calls) /\ heap[data[s]].id = s

IsolationInv == TypeOK /\ ObjectsOwned /\ CallsOwned /\ StoreOwned

-----------------------------------------------------------------------------
(* What makes NothingDoubled inductive: a message is nowhere before its call *)
(* has written it.                                                           *)

Said(made, m) ==
  /\ m.of \in DOMAIN made
  /\ IF m.role = "user" THEN made[m.of].pc \notin {"check", "append", "write"}
                        ELSE made[m.of].pc \in {"clear", "save", "done"}

Single(made, msgs) == IsInjective(msgs) /\ \A i \in DOMAIN msgs : Said(made, msgs[i])

OnceInv ==
  /\ \A o \in Numbers :
       /\ Single(calls, heap[o].messages)
       /\ heap[o].pending # Nil => Single(calls, heap[o].pending)
  /\ \A c \in DOMAIN calls : Single(calls, calls[c].req) /\ Single(calls, calls[c].base)

-----------------------------------------------------------------------------
(* What makes the history of an Exclusive session inductive: where its one   *)
(* call in progress stands.                                                  *)

Asked(c) == calls[c].op = "turn" /\ calls[c].pc \notin {"check", "append", "write"}
Answered(c) == calls[c].outcome = "replied" /\ calls[c].pc \in {"clear", "save"}

\* The history with what call c has added to it so far.
Expected(c) ==
  LET before == Told(calls[c].session, c - 1)
      asked == IF Asked(c) THEN Append(before, User(c)) ELSE before
  IN  IF Answered(c) THEN Append(asked, Reply(c)) ELSE asked

At(c, pcs, outcome) == calls[c].pc \in pcs /\ calls[c].outcome = outcome

\* How far a call has come, and what it has to hand.
Entering(c) ==
  /\ At(c, {"check"}, "running") /\ calls[c].req = <<>>
  /\ \/ Object(c).pending = Nil
     \/ Object(c).pending = Object(c).messages /\ Stored(calls[c].session)

InTurn(c) ==
  /\ calls[c].op = "turn"
  /\ \/ /\ Object(c).pending = Nil
        /\ \/ At(c, {"append", "write", "request"}, "running") /\ calls[c].req = <<>>
           \/ At(c, {"invoke"}, "running") /\ calls[c].req = Object(c).messages
           \/ At(c, {"pause"}, "paused") /\ calls[c].req = Object(c).messages
           \/ At(c, {"answer", "record", "save"}, "replied") /\ ~calls[c].sensitive
     \/ At(c, {"save"}, "paused") /\ Object(c).pending = Object(c).messages

InApproval(c) ==
  /\ calls[c].op = "approve" /\ Stored(calls[c].session)
  /\ \/ /\ At(c, {"invoke"}, "running") /\ calls[c].req = Object(c).messages
        /\ Object(c).pending = Object(c).messages
     \/ At(c, {"restore"}, "replied") /\ calls[c].req = Object(c).messages
     \/ At(c, {"answer", "record", "clear"}, "replied")
     \/ At(c, {"save"}, "replied") /\ Object(c).pending = Nil

InDenial(c) ==
  /\ calls[c].op = "deny" /\ Stored(calls[c].session)
  /\ \/ At(c, {"deny"}, "denied")
     \/ At(c, {"save"}, "denied") /\ Object(c).pending = Nil

\* The call in progress on session s, the only one and the latest.
InProgress(s, c) ==
  /\ calls[c].obj = Load(s, c)
  /\ Stored(s) \/ Told(s, c - 1) = <<>>
  /\ Object(c).messages = Expected(c)
  /\ calls[c].pc \in {"write", "record"} => calls[c].base = Object(c).messages
  /\ Entering(c) \/ InTurn(c) \/ InApproval(c) \/ InDenial(c)

\* Session s between two calls.
AtRest(s) ==
  /\ History(s) = Told(s, Len(calls))
  /\ Paused(s) => heap[data[s]].pending = History(s)

\* A session is in the store from the first call that got as far as Save.
Kept(s) ==
  Stored(s) <=> \E c \in CallsOn(s) : ~Running(c) /\ calls[c].outcome \in {"paused", "replied"}

OneAtATime(s) == \A c, d \in CallsOn(s) : c < d => ~Running(c)

HistoryOf(s) ==
  /\ OneAtATime(s) /\ Kept(s)
  /\ \A c \in ActiveOn(s) : InProgress(s, c)
  /\ ActiveOn(s) = {} => AtRest(s)

HistoryInv == \A s \in Exclusive : HistoryOf(s)

\* What makes SensitiveAnsweredOnApproval inductive: it holds of an object
\* before it is stored.
Approved(made, msgs) ==
  \A i \in 1..Len(msgs) - 1 :
    msgs[i].role = "user" /\ made[msgs[i].of].sensitive /\ msgs[i + 1].role = "assistant"
      => made[msgs[i + 1].of].op = "approve"

ApprovalOf(s) ==
  /\ Stored(s) => Approved(calls, History(s))
  /\ \A c \in ActiveOn(s) : Approved(calls, Object(c).messages)

ApprovalInv == \A s \in Exclusive : ApprovalOf(s)

\* What makes DecidedOnce inductive: a pause that no turn followed has one
\* decision, or none as long as it waits for it.
Waiting(s) ==
  \/ ActiveOn(s) = {} /\ Paused(s)
  \/ \E c \in ActiveOn(s) :
       \/ calls[c].outcome = "paused"
       \/ calls[c].outcome = "running" /\ Object(c).pending # Nil

LastSent(s, c) == Sent(c) /\ \A e \in CallsOn(s) : c < e => ~Sent(e)
Decisions(s, c) == {e \in CallsOn(s) : c < e /\ Decides(e)}

DecisionOf(s) ==
  \A c \in CallsOn(s) :
    LastSent(s, c) /\ calls[c].outcome = "paused" =>
      IF Waiting(s) THEN Decisions(s, c) = {} ELSE \E e \in CallsOn(s) : Decisions(s, c) = {e}

DecisionInv == \A s \in Exclusive : DecidedOnceOn(s) /\ DecisionOf(s)
=============================================================================
