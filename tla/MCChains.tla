------------------------------ MODULE MCChains ------------------------------
(* Chains of up to three stages built from configs around the boundaries,    *)
(* over up to three messages, four bytes and four sets of PII matches.       *)
EXTENDS Chains

MCConfigNumbers == -2..4
Message(r, t, i) == [role |-> r, text |-> t, id |-> i]
\* A message of each kind the filters tell apart; "blob" has clean text
\* and a secret in a part that is not text.
MessageKinds ==
  {<<"system", "secret">>, <<"user", "secret">>, <<"user", "blob">>}
Histories ==
  UNION {{[i \in 1..n |-> Message(k[i][1], k[i][2], i)] : k \in [1..n -> MessageKinds]}
           : n \in 0..3}

Decide1(d) == [op |-> "decide", decs |-> d]
Fails == [op |-> "fail"]

PreLLM ==
  {[op |-> "scrub"], Fails, Decide1(<<"log", "block">>),
   [op |-> "inject", message |-> Message("user", "secret", 9)]}
  \cup UNION {BuildWindow([type |-> "int", value |-> n]) : n \in 0..2}
PreTool ==
  {[op |-> "escape"], Fails, Decide1(<<"block">>),
   [op |-> "rewrite", to |-> [dotdot |-> TRUE]], [op |-> "rewrite", to |-> [dotdot |-> FALSE]]}
PostTool ==
  UNION {BuildTruncate(cfg) : cfg \in Configs}
  \cup {Fails, Decide1(<<"block", "log">>), [op |-> "rewrite", to |-> 4]}
Policy ==
  UNION {BuildPII(s) : s \in {"low", "medium", "high", "strict"}}
  \cup {Decide1(<<d>>) : d \in {"allow", "continue", "log", "deny", "require_approval", "custom"}}
  \cup {Fails}

RequestsOf(kind, stages, inputs) ==
  [kind : {kind}, chain : UNION {[1..n -> stages] : n \in 0..3}, input : inputs]

MCRequests ==
  RequestsOf("pre_llm", PreLLM, Histories)
  \cup RequestsOf("pre_tool", PreTool, [dotdot : BOOLEAN])
  \cup RequestsOf("post_tool", PostTool, 0..4)
  \cup RequestsOf("policy", Policy, 
       {{}, {"email"}, {"phone", "ssn"}, {"email", "credit_card"}})
=============================================================================
