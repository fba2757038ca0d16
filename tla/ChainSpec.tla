----------------------------- MODULE ChainSpec -----------------------------
(* What a chain of policy hooks or filters promises: one answer, decided by  *)
(* the first stage that fails or objects to the payload that reaches it.     *)
EXTENDS Naturals, Sequences

CONSTANTS
  Stage(_, _),     \* what a stage answers to a payload: [out, decs, err]
  Objects(_, _),   \* does a kind of chain stop at these decisions?
  Pending          \* no answer yet

VARIABLES
  request,         \* [kind, chain, input]
  outcome          \* Pending, then the answer: [payload, decs, err]

absVars == <<request, outcome>>

\* The payload that reaches each stage, and at last the caller, when no stage
\* stops the chain.
Reaching(r) ==
  LET payload[k \in 1..Len(r.chain) + 1] ==
        IF k = 1 THEN r.input ELSE Stage(r.chain[k - 1], payload[k - 1]).out
  IN  payload

\* The decisions of the first k answers, in order.
Recorded(answers, k) ==
  LET decs[j \in 0..k] == IF j = 0 THEN <<>> ELSE decs[j - 1] \o answers[j].decs
  IN  decs[k]

\* A filter chain keeps every decision up to the stage that blocks, and none
\* when a stage fails; a policy chain answers with one decision.
Answer(r) ==
  LET reaching == Reaching(r)
      answers == [k \in DOMAIN r.chain |-> Stage(r.chain[k], reaching[k])]
      stops == {k \in DOMAIN r.chain : answers[k].err \/ Objects(r.kind, answers[k].decs)}
      stop == CHOOSE k \in stops : \A j \in stops : k <= j
  IN  IF stops = {}
      THEN [payload |-> <<reaching[Len(r.chain) + 1]>>, err |-> "none",
            decs |-> IF r.kind = "policy" THEN <<"allow">> ELSE Recorded(answers, Len(r.chain))]
      ELSE IF answers[stop].err
      THEN [payload |-> <<>>, err |-> "stage", decs |-> <<>>]
      ELSE IF r.kind = "policy"
      THEN [payload |-> <<r.input>>, err |-> "none", decs |-> answers[stop].decs]
      ELSE [payload |-> <<>>, err |-> "blocked", decs |-> Recorded(answers, stop)]

AbsInit == outcome = Pending

AbsAnswer ==
  /\ outcome = Pending
  /\ outcome' = Answer(request)
  /\ UNCHANGED request

AbsSafety == AbsInit /\ [][AbsAnswer]_absVars
AbsSpec == AbsSafety /\ WF_absVars(AbsAnswer)
=============================================================================
