----------------------------- MODULE MCPImports -----------------------------
(* The MCP imports of a spec: validateMCPImportsStructure over all of them,  *)
(* then resolveMCPBindings, which builds one binding after the other with    *)
(* the generic factory (factories/mcpbinding) and looks its references up.   *)
(*                                                                           *)
(* A config is a map[string]any: every field is Absent (or null), Wrong (a   *)
(* value of another type) or a value of its own type; list elements may be   *)
(* Wrong too.  A map of strings is given by its values.                      *)
EXTENDS Naturals, Sequences, FiniteSets, SequencesExt

CONSTANTS
  Absent, Wrong,
  ImportLists,       \* lists of imports, [ref, config]
  Factories,         \* registered MCP binding factories,
  PolicyPacks,       \*   policy packs
  Resolvers,         \*   and credential resolvers
  IDs,               \* strings that ParseID accepts
  Globs              \* strings that filepath.Match accepts

ASSUME MCPAssumption ==
  /\ Absent # Wrong
  /\ {Absent, Wrong} \cap {<<>>, "api-key"} = {}
  /\ PolicyPacks \cup Resolvers \subseteq IDs
  /\ \A l \in ImportLists : l \in Seq(Range(l))

VARIABLES
  imports,           \* the spec's list
  phase,             \* validating, building, then built, invalid or failed
  pos,               \* the import the loop is at
  seen,              \* validate: seenID, the position of each id
  errs,              \* validate: the aggregated errors, <<position, code>>
  bindings,          \* build: the bindings built so far
  err                \* build: the first error

vars == <<imports, phase, pos, seen, errs, bindings, err>>

-----------------------------------------------------------------------------
(* Typed reads of a map *)

Given(v) == v \notin {Absent, Wrong}
StringAt(v) == IF Given(v) THEN v ELSE ""
AnyListAt(v) == IF Given(v) THEN v ELSE <<>>

\* stringList and stringMap: nil is fine, a wrong type or element is not.
IsStringList(v) == v # Wrong /\ Wrong \notin Range(AnyListAt(v))
IsStringMap(v) == v # Wrong /\ Wrong \notin Range(AnyListAt(v))
StringList(v) == IF IsStringList(v) THEN AnyListAt(v) ELSE <<>>

When(condition, code) == IF condition THEN {code} ELSE {}

-----------------------------------------------------------------------------
(* spec.Validate *)

\* Mutated form: the fields of the other transport are not looked at.
ValidateConnectionLax(conn) ==
  IF ~Given(conn) THEN {"transport_invalid"}
  ELSE CASE StringAt(conn.transport) = "stdio" ->
              When(AnyListAt(conn.command) = <<>>, "transport_field")
         [] StringAt(conn.transport) = "http" ->
              When(StringAt(conn.url) = "", "transport_field")
         [] OTHER -> {"transport_invalid"}

ValidateConnection(conn) ==
  IF ~Given(conn) THEN {"transport_invalid"}
  ELSE CASE StringAt(conn.transport) = "stdio" ->
              When(AnyListAt(conn.command) = <<>> \/ StringAt(conn.url) # "", "transport_field")
         [] StringAt(conn.transport) = "http" ->
              When(StringAt(conn.url) = "" \/ AnyListAt(conn.command) # <<>>, "transport_field")
         [] OTHER -> {"transport_invalid"}

OnNewToolPolicies == {"block", "allow-if-match-allowlist", "require-reapproval"}
ValidateOnNewTool(v) == When(StringAt(v) \notin OnNewToolPolicies \cup {""}, "on_new_tool")

ValidateAuth(auth) ==
  IF ~Given(auth) THEN {}
  ELSE When(StringAt(auth.credentialRef) = "", "credential_ref")
       \cup When(StringAt(auth.scheme) = "", "auth_scheme")
       \cup When(StringAt(auth.scheme) = "api-key" /\ StringAt(auth.headerName) = "", "header_name")

\* Every element is a string and a pattern that filepath.Match accepts.
ValidateGlobList(v) == When(~(Range(AnyListAt(v)) \subseteq Globs), "glob")

\* The errors of one import, but for the test of its id against the others.
ValidateImport(cfg) ==
  IF cfg = Absent THEN {"missing_id"}
  ELSE When(StringAt(cfg.id) = "", "missing_id")
       \cup ValidateConnection(cfg.connection) \cup ValidateOnNewTool(cfg.onNewTool)
       \cup ValidateAuth(cfg.auth)
       \cup ValidateGlobList(cfg.allow) \cup ValidateGlobList(cfg.deny)

-----------------------------------------------------------------------------
(* factories/mcpbinding: the first check that fails is the error. *)

FirstError(checks) ==
  LET failed == {k \in DOMAIN checks : checks[k] # {}}
  IN  IF failed = {} THEN {} ELSE checks[CHOOSE k \in failed : \A j \in failed : k <= j]

ConnectionError(conn) ==
  IF ~Given(conn) THEN {"transport_invalid"}
  ELSE CASE StringAt(conn.transport) = "stdio" -> FirstError(
              <<When(~IsStringList(conn.command), "command_type"),
                When(StringList(conn.command) = <<>>, "transport_field"),
                When(StringAt(conn.url) # "", "transport_field"),
                When(~IsStringMap(conn.env), "env")>>)
         [] StringAt(conn.transport) = "http" -> FirstError(
              <<When(StringAt(conn.url) = "", "transport_field"),
                When(StringList(conn.command) # <<>>, "transport_field"),
                When(~IsStringMap(conn.headers), "headers")>>)
         [] OTHER -> {"transport_invalid"}

Connection(conn) ==
  IF conn.transport = "stdio"
  THEN [transport |-> "stdio", command |-> StringList(conn.command), url |-> "",
        env |-> AnyListAt(conn.env), headers |-> <<>>]
  ELSE [transport |-> "http", command |-> <<>>, url |-> conn.url,
        env |-> <<>>, headers |-> AnyListAt(conn.headers)]

AuthError(auth) ==
  CASE auth = Absent -> {}
    [] auth = Wrong -> {"auth_type"}
    [] OTHER -> FirstError(
         <<When(StringAt(auth.credentialRef) = "", "credential_ref"),
           When(StringAt(auth.scheme) = "", "auth_scheme"),
           When(auth.scheme = "api-key" /\ StringAt(auth.headerName) = "", "header_name"),
           When(auth.credentialRef \notin IDs, "credential_id")>>)

\* Mutated form: the header name of the api-key scheme is not copied.
AuthNoHeader(auth) ==
  IF ~Given(auth) THEN {}
  ELSE {[credentialRef |-> auth.credentialRef, scheme |-> auth.scheme, headerName |-> ""]}

\* Auth is nil (no value) or one value.
Auth(auth) ==
  IF ~Given(auth) THEN {}
  ELSE {[credentialRef |-> auth.credentialRef, scheme |-> auth.scheme,
         headerName |-> StringAt(auth.headerName)]}

\* Mutated form: a list that does not decode counts as no list.
GlobListErrorLenient(v) == When(IsStringList(v) /\ ~(Range(StringList(v)) \subseteq Globs), "glob")

GlobListError(v) ==
  When(~IsStringList(v), "list_type") \cup When(~(Range(StringList(v)) \subseteq Globs), "glob")

PolicyIDsError(v) ==
  When(~IsStringList(v), "list_type") \cup When(~(Range(StringList(v)) \subseteq IDs), "policy_id")

TrustError(trust) ==
  IF ~Given(trust) THEN {"trust"}
  ELSE When(StringAt(trust.tier) = "" \/ StringAt(trust.owner) = "" \/ ~IsStringList(trust.tags), "trust")

OnNewToolError(v) == When(StringAt(v) # "" /\ v \notin OnNewToolPolicies, "on_new_tool")
OnNewTool(v) == IF StringAt(v) = "" THEN "block" ELSE v

BuildError(cfg) ==
  IF cfg = Absent THEN {"missing_id"}
  ELSE FirstError(
    <<When(StringAt(cfg.id) = "", "missing_id"), ConnectionError(cfg.connection),
      AuthError(cfg.auth), GlobListError(cfg.allow), GlobListError(cfg.deny),
      PolicyIDsError(cfg.policies), TrustError(cfg.trust), OnNewToolError(cfg.onNewTool)>>)

Binding(cfg) ==
  [id |-> cfg.id, connection |-> Connection(cfg.connection), auth |-> Auth(cfg.auth),
   allow |-> StringList(cfg.allow), deny |-> StringList(cfg.deny),
   policies |-> StringList(cfg.policies),
   trust |-> [tier |-> cfg.trust.tier, owner |-> cfg.trust.owner, tags |-> StringList(cfg.trust.tags)],
   onNewTool |-> OnNewTool(cfg.onNewTool), tags |-> StringList(cfg.tags)]

-----------------------------------------------------------------------------
(* The two loops *)

Init ==
  /\ imports \in ImportLists
  /\ phase = "validating" /\ pos = 1
  /\ seen = <<>> /\ errs = {}
  /\ bindings = <<>> /\ err = {}

Config == imports[pos].config
IDOf(cfg) == IF cfg = Absent THEN "" ELSE StringAt(cfg.id)
ConfigID == IDOf(Config)

\* seenID: the ids in the order of the imports; an empty one is no entry, and
\* neither is one that is already there.
Record == seen' = Append(seen, IF ConfigID \in Range(seen) THEN "" ELSE ConfigID)

Validate ==
  /\ phase = "validating" /\ pos <= Len(imports)
  /\ errs' = errs
       \cup {<<pos, code, 0>> : code \in ValidateImport(Config)}
       \cup {<<pos, "duplicate_id", prev>> : prev \in
               {q \in DOMAIN seen : ConfigID # "" /\ seen[q] = ConfigID}}
  /\ Record
  /\ pos' = pos + 1
  /\ UNCHANGED <<imports, phase, bindings, err>>

\* Mutated form: only the errors of the first import count.
ValidatedFirstOnly ==
  /\ phase = "validating" /\ pos > Len(imports)
  /\ phase' = IF \E e \in errs : e[1] = 1 THEN "invalid" ELSE "building"
  /\ pos' = 1
  /\ UNCHANGED <<imports, seen, errs, bindings, err>>

\* Errors.OrNil: any error ends Normalize.
Validated ==
  /\ phase = "validating" /\ pos > Len(imports)
  /\ phase' = IF errs = {} THEN "building" ELSE "invalid"
  /\ pos' = 1
  /\ UNCHANGED <<imports, seen, errs, bindings, err>>

\* What is missing in the registry, in the order of the lookups.
Unresolved(b) ==
  IF ~(Range(b.policies) \subseteq PolicyPacks) THEN {"unresolved_policy"}
  ELSE When(~({a.credentialRef : a \in b.auth} \subseteq Resolvers), "unresolved_credential")

Fail(codes) ==
  /\ phase' = "failed" /\ err' = codes /\ bindings' = <<>>
  /\ UNCHANGED <<imports, pos, seen, errs>>

\* One import of resolveMCPBindings.
Resolve ==
  /\ phase = "building" /\ pos <= Len(imports)
  /\ IF imports[pos].ref \notin Factories THEN Fail({"unresolved_factory"})
     ELSE IF BuildError(Config) # {} THEN Fail(BuildError(Config))
     ELSE IF Unresolved(Binding(Config)) # {} THEN Fail(Unresolved(Binding(Config)))
     ELSE /\ bindings' = Append(bindings, Binding(Config))
          /\ pos' = pos + 1
          /\ UNCHANGED <<imports, phase, seen, errs, err>>

Resolved ==
  /\ phase = "building" /\ pos > Len(imports)
  /\ phase' = "built"
  /\ UNCHANGED <<imports, pos, seen, errs, bindings, err>>

Next == Validate \/ Validated \/ Resolve \/ Resolved

Spec == Init /\ [][Next]_vars

-----------------------------------------------------------------------------
(* Properties *)

\* The configs of the spec that the factory builds a binding from.
Accepted == {imports[q].config : q \in {q \in DOMAIN imports : BuildError(imports[q].config) = {}}}

\* Type invariant: phases, positions and the fields of a built binding.
TypeOK ==
  /\ imports \in ImportLists
  /\ phase \in {"validating", "building", "built", "invalid", "failed"}
  /\ pos \in 1..Len(imports) + 1
  /\ seen \in Seq({IDOf(imports[q].config) : q \in DOMAIN imports} \cup {""})
  /\ bindings \in Seq({Binding(c) : c \in Accepted})
  /\ Len(bindings) <= Len(imports)
  /\ phase = "failed" <=> err # {}
  /\ phase = "built" => errs = {} /\ Len(bindings) = Len(imports)
  /\ \A b \in Range(bindings) :
       b.onNewTool \in OnNewToolPolicies /\ Cardinality(b.auth) <= 1

\* The bindings of an agent have distinct, non-empty ids.  Only Validate compares
\* them; the factory sees one import at a time.
UniqueBindings ==
  phase = "built" =>
    /\ IsInjective([i \in DOMAIN bindings |-> bindings[i].id])
    /\ \A i \in DOMAIN bindings : bindings[i].id # ""

\* Decoding never loosens a binding: every restriction that a config states is in
\* the binding as stated, and a policy for new tools that is missing or mistyped
\* means block (decodeGlobList, decodePolicyIDs, decodeAuth, decodeOnNewTool).
RestrictionsKept ==
  \A i \in DOMAIN bindings :
    LET cfg == imports[i].config
        b == bindings[i]
    IN  /\ cfg.allow # Absent => b.allow = cfg.allow
        /\ cfg.deny # Absent => b.deny = cfg.deny
        /\ cfg.policies # Absent => b.policies = cfg.policies
        /\ cfg.auth # Absent => b.auth # {}
        /\ b.onNewTool # "block" => cfg.onNewTool = b.onNewTool

\* The factory's own checks find nothing that Validate was there to find: after it
\* passed, a build fails only on what Validate leaves to the factory, types of
\* fields, ids, trust and the registry.
ValidateCoversFactory ==
  phase = "failed" =>
    err \subseteq {"command_type", "env", "headers", "auth_type", "credential_id", "list_type",
                   "policy_id", "trust", "unresolved_factory", "unresolved_policy",
                   "unresolved_credential"}

\* A binding written back as a config.
Encode(b) ==
  [id |-> b.id, connection |-> b.connection,
   auth |-> IF b.auth = {} THEN Absent ELSE CHOOSE a \in b.auth : TRUE,
   allow |-> b.allow, deny |-> b.deny, policies |-> b.policies, trust |-> b.trust,
   onNewTool |-> b.onNewTool, tags |-> b.tags]

\* A built binding says all there is to say: written back as a config (the
\* manifest emits configs verbatim) it is valid and builds the same binding.
RoundTrip ==
  \A b \in Range(bindings) :
    ValidateImport(Encode(b)) = {} /\ BuildError(Encode(b)) = {} /\ Binding(Encode(b)) = b

-----------------------------------------------------------------------------
(* What makes the properties inductive *)

\* While Validate has found no error, what it has seen are distinct ids of valid
\* imports; the build starts when it has seen them all.
ValidatedSoFar ==
  /\ phase = "validating" => Len(seen) = pos - 1 /\ bindings = <<>>
  /\ phase \in {"building", "built", "failed"} => errs = {} /\ Len(seen) = Len(imports)
  /\ errs = {} => \A q \in DOMAIN seen :
       /\ seen[q] = IDOf(imports[q].config) /\ seen[q] # ""
       /\ ValidateImport(imports[q].config) = {}
       /\ \A p \in 1..q - 1 : seen[p] # seen[q]

\* The bindings are those of the first imports, in order.
BuiltSoFar ==
  /\ phase = "building" => Len(bindings) = pos - 1
  /\ \A i \in DOMAIN bindings :
       /\ BuildError(imports[i].config) = {}
       /\ bindings[i] = Binding(imports[i].config)

MCPInv == TypeOK /\ ValidatedSoFar /\ BuiltSoFar /\ ValidateCoversFactory

\* Neither marker is a value of its own: not what a binding is written back as.
ASSUME MarkerAssumption ==
  \A l \in ImportLists : \A i \in DOMAIN l :
    BuildError(l[i].config) = {} =>
      LET b == Binding(l[i].config)
      IN  {Absent, Wrong} \cap ({Encode(b), b.connection, b.trust} \cup b.auth) = {}
=============================================================================
