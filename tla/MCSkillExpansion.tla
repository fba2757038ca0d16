-------------------------- MODULE MCSkillExpansion --------------------------
(* One component name in two versions, configs two of which mean the same  *)
(* and one of which cannot be encoded, and up to three declared skills.    *)
EXTENDS SkillExpansion

CONSTANTS s, t, n, c1, c1b, c2, nan, nil

MCCanon == [c \in Configs |-> CASE c = c1b -> c1 [] c = nan -> Unencodable [] OTHER -> c]

Ref(name, ver, cfg) == [name |-> name, version |-> ver, config |-> cfg]
Skill(name)         == Ref(name, 1, c1)

Tool(cfg, ver)  == [fragment |-> None, tools |-> <<Ref(n, ver, cfg)>>,
                    policies |-> <<>>, contract |-> None]
Contract(cfg, ver) == [fragment |-> None, tools |-> <<>>, policies |-> <<>>,
                       contract |-> Ref(n, ver, cfg)]
Nothing == [fragment |-> None, tools |-> <<>>, policies |-> <<>>, contract |-> None]

MCContributions ==
    {Nothing, [Nothing EXCEPT !.fragment = "f"]}
    \cup {Tool(cfg, ver) : cfg \in Configs, ver \in Versions}
    \cup {Contract(cfg, 1) : cfg \in Configs} \cup {Contract(c1, 2)}
    \cup {[Tool(c1, 1) EXCEPT !.policies = <<Ref(t, 1, c2), Ref(n, 1, c2)>>],
          [Nothing EXCEPT !.policies = <<Ref(n, 1, c2), Ref(n, 1, c2)>>],
          [Tool(c1, 1) EXCEPT !.tools = <<Ref(NoName, 1, c1)>>],
          [Contract(c1, 1) EXCEPT !.contract = Ref(NoName, 1, c1)],
          [Tool(c1, 1) EXCEPT !.contract = Ref(n, 1, c1b)],
          StructuredOutput("json", <<n, 1>>, c2, <<n, 1>>)}

Bare(skills) == [tool_pack |-> <<>>, policy_pack |-> <<>>, skill |-> skills,
                 output_contract |-> None]

MCCompositions ==
    LET skills == {<<>>, <<Skill(s)>>, <<Skill(s), Skill(t)>>,
                   <<Skill(t), Skill(s), Skill(s)>>}
    IN  {[Bare(sk) EXCEPT !.tool_pack = tl, !.output_contract = oc] :
            sk \in skills,
            tl \in {<<>>, <<Ref(n, 1, c1b)>>, <<Ref(n, 2, c1), Ref(n, 1, c1)>>},
            oc \in {None, Ref(n, 1, c1), Ref(n, 1, NoConfig)}}
        \cup {[Bare(<<Skill(s), Skill(t)>>) EXCEPT
                 !.policy_pack = <<Ref(n, 1, c2), Ref(n, 1, c2)>>]}

MCRegistries ==
    LET all == {<<"skill", <<s, 1>>>>, <<"skill", <<t, 1>>>>,
                <<"output_contract", <<n, 1>>>>}
    IN  {all, all \ {<<"output_contract", <<n, 1>>>>}, all \ {<<"skill", <<t, 1>>>>}}
=============================================================================
