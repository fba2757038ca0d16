------------------------------ MODULE MCBuild -------------------------------
(* One component id per kind, two skills, tool packs that may collide, and *)
(* a registry to which a policy pack, a credential resolver, a tool pack   *)
(* and a contract may still be added while the build runs.                 *)
EXTENDS Build

CONSTANTS n, s, u, c, nan, x, y, mcpx

MCCanon == [cfg \in Configs |-> IF cfg = nan THEN Unencodable ELSE cfg]

Ref(name, cfg) == [name |-> name, version |-> 1, config |-> cfg]
Key(name)      == <<name, 1>>

Only(f) == [fragment |-> f, tools |-> <<>>, policies |-> <<>>, contract |-> None]
MCContributions ==
    {Only("f"),
     [Only("g") EXCEPT !.policies = <<Ref(n, c)>>],
     [Only(None) EXCEPT !.tools = <<Ref(n, c)>>, !.contract = Ref(n, c)]}

NoOverrides == [wall |-> None, tokens |-> 0]

Minimal ==
    [k \in AllKinds \cup {"overrides"} |->
        CASE k \in {"provider", "prompt_asset"} -> <<Ref(n, c)>>
          [] k = "output_contract" -> None
          [] k = "overrides" -> NoOverrides
          [] OTHER -> <<>>]

MCCompositions ==
    {Minimal,
     [Minimal EXCEPT !["skill"] = <<Ref(s, c), Ref(u, c)>>],
     [Minimal EXCEPT !["skill"] = <<Ref(u, c)>>, !["tool_pack"] = <<Ref(n, c), Ref(s, c)>>],
     [Minimal EXCEPT !["tool_pack"] = <<Ref(n, c), Ref(s, c)>>,
                     !["pre_tool_filter"] = <<Ref(n, c), Ref(n, nan)>>],
     [Minimal EXCEPT !["mcp_binding"] = <<Ref(n, c), Ref(n, c)>>,
                     !["credential_resolver"] = <<Ref(n, c)>>],
     [Minimal EXCEPT !["mcp_binding"] = <<Ref(n, c)>>, !["skill"] = <<Ref(s, c)>>,
                     !["output_contract"] = Ref(n, c)]}
    \cup {[Minimal EXCEPT !["budget_profile"] = <<Ref(n, c)>>,
                          !["overrides"] = [wall |-> wl, tokens |-> tk]] :
             wl \in {None, Malformed, 0, 1, 3}, tk \in {-1, 0, 1, 3}}

MCRegistrable ==
    {<<"policy_pack", Key(n)>>, <<"credential_resolver", Key(n)>>,
     <<"tool_pack", Key(s)>>, <<"tool_pack", Key(n)>>, <<"output_contract", Key(n)>>,
     <<"skill", Key(u)>>}

MCRegistries ==
    {({"provider", "prompt_asset", "pre_tool_filter", "budget_profile",
       "mcp_binding"} \X {Key(n)}) \cup {<<"skill", Key(s)>>}}

MCToolPacks      == {<<x>>, <<x, y>>, <<mcpx>>, <<y>>, <<>>}
MCBudgetDefaults == {[wall |-> 2, tokens |-> 2], [wall |-> 0, tokens |-> 0]}
MCBindings       == [policies : {<<>>, <<Key(n)>>}, credential : {None, Key(n)}]
=============================================================================
