------------------------------- MODULE Chains -------------------------------
(* The chains that Build composes out of policy packs and filters, run over  *)
(* the bundled ones (PII policy, secret scrubber, path escape, output        *)
(* truncation), the sliding window of the examples and stages of others.     *)
(*                                                                           *)
(* Payloads are abstracted to what the stages look at: a message is its role *)
(* and whether its text, or a part that is not text, holds a secret; a tool  *)
(* call is whether its arguments contain "../"; a tool result is the number  *)
(* of bytes of its content; a policy input is what the PII patterns match.   *)
EXTENDS Integers, Sequences, FiniteSets, SequencesExt

CONSTANTS
  ConfigNumbers,   \* the numbers in configs
  Requests,        \* chains with their inputs, [kind, chain, input]
  Pending          \* no answer yet

Kinds == {"policy", "pre_llm", "pre_tool", "post_tool"}
Decisions == {"allow", "continue", "log", "redact", "block", "deny", "require_approval", "custom"}
Roles == {"system", "user", "assistant", "tool"}
Messages == [role : Roles, text : {"clean", "secret", "redacted", "blob"}, id : Nat]

VARIABLES
  request,         \* the chain that was built and what it is called with
  next,            \* the loop: the stage that runs next,
  cur,             \*   the payload so far,
  all,             \*   the decisions so far
  outcome          \* what the chain returned

vars == <<request, next, cur, all, outcome>>

-----------------------------------------------------------------------------
(* Factories: a config value is Absent, not a number, or a number of a Go    *)
(* numeric type; floats are given in halves.                                 *)

IntConfigs == [type : {"int", "int64", "float64"}, value : ConfigNumbers]
Configs == IntConfigs \cup {[type |-> "absent", value |-> 0], [type |-> "string", value |-> 0]}

\* requireInt; a float is cut off toward zero.
RequireInt(cfg) ==
  CASE cfg.type \in {"int", "int64"} -> {cfg.value}
    [] cfg.type = "float64" -> {IF cfg.value >= 0 THEN cfg.value \div 2 ELSE -((-cfg.value) \div 2)}
    [] OTHER -> {}

\* Mutated form: the sign of the raw config value is tested.
BuildTruncateRaw(cfg) ==
  {[op |-> "truncate", n |-> n] : n \in {m \in RequireInt(cfg) : cfg.value > 0}}

\* The stages a factory's Build returns for a config: one, or none on error.
BuildTruncate(cfg) ==
  {[op |-> "truncate", n |-> n] : n \in {m \in RequireInt(cfg) : m > 0}}

DefaultTurns == 10

BuildWindow(cfg) ==
  {[op |-> "window",
    n |-> IF cfg.type = "int" /\ cfg.value > 0 THEN cfg.value ELSE DefaultTurns]}

BuildPII(strictness) ==
  IF strictness \in {"low", "medium", "high"}
  THEN {[op |-> "pii", mode |-> strictness]} ELSE {}

-----------------------------------------------------------------------------
(* Stages: [out, decs, err] for a payload. *)

Pass(x) == [out |-> x, decs |-> <<>>, err |-> FALSE]
Decide(x, decs) == [out |-> x, decs |-> decs, err |-> FALSE]

\* Secret scrubber: one decision per message with a hit, text parts only.
Scrub(msgs) ==
  Decide([i \in DOMAIN msgs |->
            IF msgs[i].text = "secret" THEN [msgs[i] EXCEPT !.text = "redacted"] ELSE msgs[i]],
         [n \in 1..Cardinality({i \in DOMAIN msgs : msgs[i].text = "secret"}) |-> "redact"])

\* The messages of some roles, in order.
WithRole(msgs, roles) ==
  LET kept[i \in 0..Len(msgs)] ==
        IF i = 0 THEN <<>>
        ELSE IF msgs[i].role \in roles THEN Append(kept[i - 1], msgs[i]) ELSE kept[i - 1]
  IN  kept[Len(msgs)]

System(msgs) == WithRole(msgs, {"system"})
Turns(msgs) == WithRole(msgs, Roles \ {"system"})

\* Mutated form: the oldest turns are kept.
WindowOldest(msgs, n) ==
  LET convo == Turns(msgs)
  IN  IF Len(convo) <= n THEN Pass(msgs)
      ELSE Decide(System(msgs) \o SubSeq(convo, 1, n), <<"redact">>)

\* Sliding window: the system messages, then the last n others.
Window(msgs, n) ==
  LET convo == Turns(msgs)
  IN  IF Len(convo) <= n THEN Pass(msgs)
      ELSE Decide(System(msgs) \o SubSeq(convo, Len(convo) - n + 1, Len(convo)),
                  <<"redact">>)

PathEscape(call) == IF call.dotdot THEN Decide(call, <<"block">>) ELSE Pass(call)

Truncate(bytes, n) == IF bytes <= n THEN Pass(bytes) ELSE Decide(n, <<"log">>)

\* PII policy: what the patterns match, and the verdict for a strictness.
PII(matches, mode) ==
  Decide(matches,
    <<IF matches = {} THEN "allow"
      ELSE IF mode = "high" /\ matches \cap {"ssn", "credit_card"} # {} THEN "deny"
      ELSE "log">>)

\* Stages of others: fail (whatever they also return), report, rewrite.
Stage(s, x) ==
  CASE s.op = "scrub" -> Scrub(x)
    [] s.op = "window" -> Window(x, s.n)
    [] s.op = "escape" -> PathEscape(x)
    [] s.op = "truncate" -> Truncate(x, s.n)
    [] s.op = "pii" -> PII(x, s.mode)
    [] s.op = "decide" -> Decide(x, s.decs)
    [] s.op = "rewrite" -> Decide(s.to, <<"log">>)
    [] s.op = "inject" -> Decide(Append(x, s.message), <<>>)
    [] s.op = "fail" -> [out |-> x, decs |-> <<"log">>, err |-> TRUE]

-----------------------------------------------------------------------------
(* The chains that are built *)

\* The payloads of each kind of chain, and the stages it is built of: bundled
\* ones, made by their factories from some config, and those of others.
Payloads(kind) ==
  CASE kind = "policy"    -> SUBSET {"email", "phone", "ssn", "credit_card"}
    [] kind = "pre_llm"   -> Seq(Messages)
    [] kind = "pre_tool"  -> [dotdot : BOOLEAN]
    [] kind = "post_tool" -> Nat

StageOf(kind, s) ==
  \/ s.op = "fail"
  \/ s.op = "decide" /\ s.decs \in Seq(Decisions) /\ (kind = "policy" => Len(s.decs) = 1)
  \/ kind = "policy" /\ s.op = "pii" /\ s \in BuildPII(s.mode)
  \/ kind = "pre_llm" /\ s.op = "scrub"
  \/ kind = "pre_llm" /\ \E cfg \in Configs : s \in BuildWindow(cfg)
  \/ kind = "pre_llm" /\ s.op = "inject" /\ s.message \in Messages
  \/ kind = "pre_tool" /\ s.op = "escape"
  \/ kind = "post_tool" /\ \E cfg \in Configs : s \in BuildTruncate(cfg)
  \/ kind \in {"pre_tool", "post_tool"} /\ s.op = "rewrite" /\ s.to \in Payloads(kind)

ASSUME RequestAssumption ==
  /\ ConfigNumbers \subseteq Int
  /\ \A r \in Requests :
       /\ r.kind \in Kinds /\ r.input \in Payloads(r.kind)
       /\ DOMAIN r.chain = 1..Len(r.chain) /\ Len(r.chain) \in Nat
       /\ \A k \in DOMAIN r.chain : StageOf(r.kind, r.chain[k])

-----------------------------------------------------------------------------
(* The loops *)

\* Mutated form: a denial is recorded and the loop goes on.
BlockingNoDeny(kind, decs) ==
  IF kind = "policy" THEN Last(decs) \notin {"log", "allow", "continue", "deny"}
                     ELSE "block" \in Range(decs)

\* blockingDec for filters; for policies every verdict that is not one of the
\* three that keep going.
Blocking(kind, decs) ==
  IF kind = "policy" THEN Last(decs) \notin {"log", "allow", "continue"}
                     ELSE "block" \in Range(decs)

Init ==
  /\ request \in Requests
  /\ next = 1 /\ cur = request.input /\ all = <<>>
  /\ outcome = Pending

InLoop == outcome = Pending /\ next <= Len(request.chain)
Answered == Stage(request.chain[next], cur)
Return(payload, decs, err) ==
  /\ outcome' = [payload |-> payload, decs |-> decs, err |-> err]
  /\ UNCHANGED <<request, next, cur, all>>

\* A stage returns an error: nothing but the error is returned.
StageFails ==
  /\ InLoop /\ Answered.err
  /\ Return(<<>>, <<>>, "stage")

\* policyChain.Evaluate: a verdict that ends the chain is returned as it is.
HookObjects ==
  /\ InLoop /\ request.kind = "policy"
  /\ ~Answered.err /\ Blocking("policy", Answered.decs)
  /\ Return(<<cur>>, Answered.decs, "none")

\* policyChain.Evaluate: go on; the decision is not kept.
HookContinues ==
  /\ InLoop /\ request.kind = "policy"
  /\ ~Answered.err /\ ~Blocking("policy", Answered.decs)
  /\ next' = next + 1
  /\ UNCHANGED <<request, cur, all, outcome>>

\* Mutated form: a blocked chain returns the payload it got so far.
FilterBlocksPartial ==
  /\ InLoop /\ request.kind # "policy"
  /\ ~Answered.err /\ Blocking(request.kind, Answered.decs)
  /\ Return(<<cur>>, all \o Answered.decs, "blocked")

\* The three filter chains: a stage blocks.
FilterBlocks ==
  /\ InLoop /\ request.kind # "policy"
  /\ ~Answered.err /\ Blocking(request.kind, Answered.decs)
  /\ Return(<<>>, all \o Answered.decs, "blocked")

\* Mutated form: every stage sees the chain's input.
FilterPassesInput ==
  /\ InLoop /\ request.kind # "policy"
  /\ ~Answered.err /\ ~Blocking(request.kind, Answered.decs)
  /\ all' = all \o Answered.decs
  /\ cur' = Stage(request.chain[next], request.input).out
  /\ next' = next + 1
  /\ UNCHANGED <<request, outcome>>

\* The three filter chains: the next stage gets what this one returned.
FilterPasses ==
  /\ InLoop /\ request.kind # "policy"
  /\ ~Answered.err /\ ~Blocking(request.kind, Answered.decs)
  /\ all' = all \o Answered.decs
  /\ cur' = Answered.out
  /\ next' = next + 1
  /\ UNCHANGED <<request, outcome>>

ChainEnds ==
  /\ outcome = Pending /\ next > Len(request.chain)
  /\ Return(<<cur>>, IF request.kind = "policy" THEN <<"allow">> ELSE all, "none")

Next ==
  \/ StageFails \/ HookObjects \/ HookContinues
  \/ FilterBlocks \/ FilterPasses \/ ChainEnds

Spec == Init /\ [][Next]_vars /\ WF_vars(Next)

-----------------------------------------------------------------------------
(* Properties *)

\* Type invariant: the loop's position, payload and decisions, and the answer.
TypeOK ==
  /\ request \in Requests
  /\ next \in 1..Len(request.chain) + 1
  /\ cur \in Payloads(request.kind)
  /\ all \in Seq(Decisions)
  /\ outcome # Pending =>
       /\ outcome.decs \in Seq(Decisions)
       /\ outcome.err \in {"none", "stage", "blocked"}
       /\ outcome.payload = <<>> <=> outcome.err # "none"

Done == outcome # Pending /\ outcome.err = "none"
Output == outcome.payload[1]
Ops == {"scrub", "window", "escape", "truncate", "pii"}
Bundled == \A k \in DOMAIN request.chain : request.chain[k].op \in Ops
Positions(op) == {k \in DOMAIN request.chain : request.chain[k].op = op}

\* The loops answer what ChainSpec promises, and always answer.
Abs == INSTANCE ChainSpec WITH Objects <- Blocking
Implements == Abs!AbsSpec

\* A secret in the text of a message that leaves the chain was brought in by a
\* stage behind the last scrubber: no stage order, window or earlier rewrite
\* lets one slip past it (filtersecretscrubber in preLLMFilterChain).
SecretsScrubbed ==
  Done /\ request.kind = "pre_llm" /\ Positions("scrub") # {} =>
    \A m \in Range(Output) : m.text = "secret" =>
      \E k \in Positions("inject") :
        /\ request.chain[k].message = m
        /\ \A j \in Positions("scrub") : j < k

Ids(msgs) == [i \in DOMAIN msgs |-> msgs[i].id]
SystemIds(msgs) == Ids(System(msgs))
TurnIds(msgs) == Ids(Turns(msgs))

\* Whatever the order of scrubbers and windows, all system messages survive in
\* order and the turns that survive are the newest, as many as the smallest
\* window lets through (slidingWindowFilter in a chain).
NewestKept ==
  Done /\ request.kind = "pre_llm" /\ Bundled =>
    /\ SystemIds(Output) = SystemIds(request.input)
    /\ IsSuffix(TurnIds(Output), TurnIds(request.input))
    /\ \A k \in Positions("window") : Len(TurnIds(Output)) <= request.chain[k].n
    /\ Output # request.input => Positions("scrub") # {} \/
         \E k \in Positions("window") : Len(TurnIds(Output)) = request.chain[k].n

\* A non-empty tool output stays non-empty and within every limit that no later
\* stage lifts (requireInt, the test for maxBytes > 0, Filter).
OutputWithinLimits ==
  Done /\ request.kind = "post_tool" =>
    /\ \A k \in Positions("truncate") :
         (\A j \in Positions("rewrite") : j < k) => Output <= request.chain[k].n
    /\ Bundled /\ request.input > 0 => Output > 0

\* No hook is overruled: when the chain allows, every hook of it was asked and
\* none failed or asked for anything stricter than a log entry, and a strict PII
\* pack never lets a card or social security number through (policyChain).
ObjectionsStand ==
  Done /\ request.kind = "policy" /\ outcome.decs = <<"allow">> =>
    \A k \in DOMAIN request.chain :
      /\ ~Stage(request.chain[k], request.input).err
      /\ Stage(request.chain[k], request.input).decs[1] \in {"allow", "continue", "log"}
      /\ request.chain[k].op = "pii" /\ request.chain[k].mode = "high" =>
           request.input \cap {"ssn", "credit_card"} = {}

-----------------------------------------------------------------------------
(* What makes the properties inductive: they hold behind every stage. *)

Behind(op) == {k \in Positions(op) : k < next}
AnswerAt(k) == Stage(request.chain[k], Abs!Reaching(request)[k])

\* The loop has what ChainSpec says reaches the next stage, and no stage so far
\* stopped it.
LoopInv ==
  /\ cur = Abs!Reaching(request)[next]
  /\ \A k \in 1..next - 1 : ~AnswerAt(k).err /\ ~Blocking(request.kind, AnswerAt(k).decs)
  /\ request.kind = "policy" => cur = request.input
  /\ request.kind # "policy" =>
       all = Abs!Recorded([k \in DOMAIN request.chain |-> AnswerAt(k)], next - 1)

\* An answer that is not an error has the payload, and comes from the end of the
\* chain or is a hook's objection.
AnswerInv ==
  Done => /\ outcome.payload = <<cur>>
          /\ \/ next = Len(request.chain) + 1
             \/ request.kind = "policy" /\ Blocking("policy", outcome.decs)

SecretsSoFar ==
  request.kind = "pre_llm" /\ Behind("scrub") # {} =>
    \A m \in Range(cur) : m.text = "secret" =>
      \E k \in Behind("inject") :
        /\ request.chain[k].message = m
        /\ \A j \in Behind("scrub") : j < k

NewestSoFar ==
  request.kind = "pre_llm" /\ Bundled =>
    /\ SystemIds(cur) = SystemIds(request.input)
    /\ IsSuffix(TurnIds(cur), TurnIds(request.input))
    /\ \A k \in Behind("window") : Len(TurnIds(cur)) <= request.chain[k].n
    /\ cur # request.input => Behind("scrub") # {} \/
         \E k \in Behind("window") : Len(TurnIds(cur)) = request.chain[k].n

LimitsSoFar ==
  request.kind = "post_tool" =>
    /\ \A k \in Behind("truncate") :
         (\A j \in Behind("rewrite") : j < k) => cur <= request.chain[k].n
    /\ Bundled /\ request.input > 0 => cur > 0

ChainInv ==
  TypeOK /\ LoopInv /\ AnswerInv /\ SecretsSoFar /\ NewestSoFar /\ LimitsSoFar
=============================================================================
