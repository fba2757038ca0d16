---------------------------- MODULE MCNormalize -----------------------------
(* Complete specs and fragments that between them set, omit, clear or spoil *)
(* one field of every kind, and overlays, from files and built in Go, that  *)
(* do the same.                                                             *)
EXTENDS Overlay

CONSTANTS v, w, bad

Ident(i, ver, l) == [id |-> i, version |-> ver, labels |-> l]
Prompt(s, u)     == [system |-> s, user |-> u]

Fragment == [f \in {"apiVersion", "provider", "tools", "skills", "metadata",
                    "prompt", "filters"} |->
                CASE f = "metadata" -> Ident(None, None, None)
                  [] f = "prompt"   -> Prompt(None, None)
                  [] f = "filters"  -> [s \in Stages |-> None]
                  [] OTHER          -> None]

Complete == [Fragment EXCEPT !["apiVersion"] = v, !["provider"] = v,
                             !["metadata"] = Ident(v, v, None),
                             !["prompt"] = Prompt(v, None)]

MCSpecLayers ==
    { Complete,
      [Complete EXCEPT !["metadata"] = Ident(None, v, None)],
      [Complete EXCEPT !["metadata"] = Ident(w, v, None)],
      [Complete EXCEPT !["apiVersion"] = None],
      [Complete EXCEPT !["tools"] = Empty],
      [Complete EXCEPT !["tools"] = bad],
      [Fragment EXCEPT !["metadata"] = Ident(None, None, Empty)],
      [Fragment EXCEPT !["filters"]["preLLM"] = v,
                         !["filters"]["preTool"] = Empty],
      [Fragment EXCEPT !["tools"] = v, !["skills"] = v, !["prompt"] = Prompt(None, w)],
      [Fragment EXCEPT !["apiVersion"] = v, !["metadata"] = Ident(None, None, v)] }

Doc(a, k, b) == [apiVersion |-> a, kind |-> k, body |-> b]
Key(f, node) == [x \in {f} |-> node]
Documents ==
    {Doc(v, "AgentOverlay", b) : b \in
       { <<>>,
         [metadata |-> Ident(w, None, None)],
         [metadata |-> Ident(v, v, Empty), prompt |-> Prompt(w, None)],
         [metadata |-> Null, provider |-> Null, tools |-> Null],
         [tools |-> w, provider |-> w],
         [tools |-> Empty, filters |-> Null],
         [tools |-> Malformed], [provider |-> Malformed],
         [skills |-> v],
         [filters |-> <<>>],
         [filters |-> Key("preLLM", Null)],
         [filters |-> [preTool |-> w, preLLM |-> Empty]],
         [filters |-> Key("preTool", Malformed)],
         [filters |-> Key("onExit", v)] }}
    \cup {Doc(w, "AgentOverlay", <<>>), Doc(v, "AgentSpec", <<>>)}

\* Overlays built in Go: an apiVersion that LoadOverlay refuses.
Body == [f \in AllowedFields |-> Absent]
Over(a, b) == [apiVersion |-> a, body |-> b, doc |-> Nil]

MCOverlayLayers ==
    UNION {LoadOverlay(d) : d \in Documents}
    \cup {Nil, Over(w, Body), Over(None, [Body EXCEPT !["tools"] = v])}
=============================================================================
