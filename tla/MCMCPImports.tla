---------------------------- MODULE MCMCPImports ----------------------------
(* Imports that differ from a good one in up to two fields, next to others   *)
(* with the same or another id.                                              *)
EXTENDS MCPImports

Stdio == [transport |-> "stdio", command |-> <<"run">>, url |-> Absent, env |-> Absent, headers |-> Absent]
Http == [transport |-> "http", command |-> Absent, url |-> "u", env |-> Absent, headers |-> <<"h">>]
Good(id) ==
  [id |-> id, connection |-> Stdio, allow |-> <<"g">>, deny |-> Absent, policies |-> <<"p1">>,
   auth |-> [credentialRef |-> "c1", scheme |-> "bearer", headerName |-> Absent],
   trust |-> [tier |-> "t", owner |-> "o", tags |-> Absent], onNewTool |-> Absent, tags |-> Wrong]

Strings(s) == {Absent, Wrong, ""} \cup s
Lists(s) == {Absent, Wrong, <<>>, <<Wrong>>} \cup {<<x>> : x \in s} \cup {<<x, Wrong>> : x \in s}

Connections ==
  {Absent, Wrong} \cup
  [transport : Strings({"stdio", "http", "grpc"}), command : {Absent, Wrong, <<>>, <<Wrong>>, <<"run">>},
   url : Strings({"u"}), env : {Absent, Wrong, <<"e">>, <<Wrong>>}, headers : {Absent, <<"h">>, <<Wrong>>}]

Auths ==
  {Absent, Wrong} \cup
  [credentialRef : Strings({"c1", "c2", "noid"}), scheme : Strings({"bearer", "api-key"}),
   headerName : {Absent, "X"}]

Trusts ==
  {Absent, Wrong} \cup
  [tier : {Absent, "t"}, owner : {"", "o"}, tags : {Absent, Wrong, <<"x">>, <<Wrong>>}]

OnNewTools == Strings(OnNewToolPolicies \cup {"maybe"})

Variants(cfg) ==
  {[cfg EXCEPT !.connection = c] : c \in Connections}
  \cup {[cfg EXCEPT !.connection = c, !.auth = a] : c \in {Stdio, Http}, a \in Auths}
  \cup {[cfg EXCEPT !.allow = a, !.deny = d] : a, d \in Lists({"g", "bad"})}
  \cup {[cfg EXCEPT !.policies = p, !.onNewTool = o] : p \in Lists({"p1", "p2", "noid"}), o \in OnNewTools}
  \cup {[cfg EXCEPT !.trust = t, !.onNewTool = o] : t \in Trusts, o \in OnNewTools}

Import(c) == [ref |-> "generic", config |-> c]
Anonymous == {Import(Absent), Import([Good("a") EXCEPT !.id = Wrong]), Import([Good("a") EXCEPT !.id = ""])}
Others == {Import(Good("a")), Import(Good("b"))}

MCImportLists ==
  {<<Import(c)>> : c \in Variants(Good("a"))}
  \cup {<<Import(c), Import(Good("b"))>> : c \in Variants(Good("a"))}
  \cup {<<[ref |-> "unknown", config |-> Good("a")]>>, <<>>}
  \cup UNION {[1..n -> Others \cup Anonymous] : n \in 1..4}
=============================================================================
