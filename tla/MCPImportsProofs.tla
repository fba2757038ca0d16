-------------------------- MODULE MCPImportsProofs --------------------------
(***************************************************************************)
(* Proofs about MCPImports, for any list of imports, any registry and any  *)
(* sets of ids and patterns that parse.                                    *)
(***************************************************************************)
EXTENDS MCPImports, DataLemmas, FiniteSetTheorems

-----------------------------------------------------------------------------
(* Decoding *)

\* A list of checks reports the first one that fails, and nothing when none does.
LEMMA FirstErrorIsFirst ==
  ASSUME NEW checks, NEW n \in Nat, DOMAIN checks = 1 .. n
  PROVE  /\ FirstError(checks) = {} => \A k \in 1 .. n : checks[k] = {}
         /\ (\A k \in 1 .. n : checks[k] = {}) => FirstError(checks) = {}
         /\ FirstError(checks) # {} =>
              \E k \in 1 .. n : /\ FirstError(checks) = checks[k]
                                /\ \A j \in 1 .. k - 1 : checks[j] = {}
<1> DEFINE failed == {k \in DOMAIN checks : checks[k] # {}}
           m == CHOOSE k \in failed : \A j \in failed : k <= j
<1>1. FirstError(checks) = IF failed = {} THEN {} ELSE checks[m]
  BY DEF FirstError
<1>2. ASSUME failed # {}
      PROVE  m \in failed /\ \A j \in failed : m <= j
  <2>1. failed \subseteq Nat
    OBVIOUS
  <2>2. \E k \in failed : \A j \in failed : k <= j
    BY <1>2, <2>1, LeastElement
  <2> QED
    BY <2>2
<1> HIDE DEF m
<1>3. CASE failed = {}
  BY <1>1, <1>3
<1>4. CASE failed # {}
  <2>1. m \in 1 .. n /\ checks[m] # {} /\ \A j \in failed : m <= j
    BY <1>2, <1>4
  <2>2. \A j \in 1 .. m - 1 : checks[j] = {}
    BY <2>1
  <2> QED
    BY <1>1, <1>4, <2>1, <2>2
<1> QED
  BY <1>3, <1>4

\* A string, once read, reads the same again; so does a list.
LEMMA ReadTwice ==
  ASSUME NEW v
  PROVE  /\ StringAt(StringAt(v)) = StringAt(v)
         /\ AnyListAt(AnyListAt(v)) = AnyListAt(v)
         /\ StringAt(v) # "" => Given(v) /\ StringAt(v) = v
         /\ AnyListAt(v) # <<>> => Given(v) /\ AnyListAt(v) = v
BY DEF StringAt, AnyListAt, Given

\* A list of strings reads the same a second time, and as a list of anything.
LEMMA ListReadTwice ==
  ASSUME NEW v
  PROVE  /\ StringList(StringList(v)) = StringList(v)
         /\ IsStringList(StringList(v))
         /\ IsStringList(v) /\ v # Absent => StringList(v) = v
         /\ IsStringList(v) => StringList(v) = AnyListAt(v)
         /\ Range(StringList(v)) \subseteq Range(AnyListAt(v))
         /\ IsStringMap(v) => IsStringMap(AnyListAt(v))
         /\ AnyListAt(v) = <<>> => StringList(v) = <<>>
         /\ AnyListAt(StringList(v)) = StringList(v)
<1>1. Range(<<>>) = {}
  BY DEF Range
<1>2. <<>> # Wrong /\ <<>> # Absent /\ Given(<<>>)
  BY MCPAssumption DEF Given
<1>3. IsStringList(<<>>) /\ AnyListAt(<<>>) = <<>>
  BY <1>1, <1>2 DEF IsStringList, AnyListAt
<1>4. AnyListAt(AnyListAt(v)) = AnyListAt(v)
  BY ReadTwice
<1>5. AnyListAt(v) # Wrong
  BY <1>2 DEF AnyListAt, Given
<1>6. CASE IsStringList(v)
  <2>1. StringList(v) = AnyListAt(v) /\ Wrong \notin Range(AnyListAt(v)) /\ v # Wrong
    BY <1>6 DEF StringList, IsStringList
  <2>2. IsStringList(AnyListAt(v))
    BY <1>4, <1>5, <2>1 DEF IsStringList
  <2>3. v # Absent => AnyListAt(v) = v
    BY <2>1 DEF AnyListAt, Given
  <2>4. StringList(AnyListAt(v)) = AnyListAt(v)
    BY <1>4, <2>2 DEF StringList
  <2> QED
    BY <1>4, <1>5, <2>1, <2>2, <2>3, <2>4 DEF IsStringMap
<1>7. CASE ~IsStringList(v)
  <2>1. StringList(v) = <<>>
    BY <1>7 DEF StringList
  <2>2. StringList(<<>>) = <<>>
    BY <1>3 DEF StringList
  <2>3. ~IsStringMap(v)
    BY <1>7 DEF IsStringMap, IsStringList
  <2> QED
    BY <1>1, <1>3, <1>7, <2>1, <2>2, <2>3
<1> QED
  BY <1>6, <1>7

\* What an accepted connection is.
LEMMA ConnectionAccepted ==
  ASSUME NEW conn, ConnectionError(conn) = {}
  PROVE  /\ Given(conn) /\ StringAt(conn.transport) = conn.transport
         /\ \/ /\ conn.transport = "stdio" /\ IsStringList(conn.command)
               /\ StringList(conn.command) # <<>> /\ StringAt(conn.url) = ""
               /\ IsStringMap(conn.env)
            \/ /\ conn.transport = "http" /\ StringAt(conn.url) # ""
               /\ StringList(conn.command) = <<>> /\ IsStringMap(conn.headers)
<1>1. Given(conn)
  BY DEF ConnectionError
<1>2. StringAt(conn.transport) \in {"stdio", "http"}
  BY <1>1 DEF ConnectionError
<1>3. StringAt(conn.transport) = conn.transport
  BY <1>2, ReadTwice
<1>4. CASE conn.transport = "stdio"
  <2> DEFINE checks == <<When(~IsStringList(conn.command), "command_type"),
                When(StringList(conn.command) = <<>>, "transport_field"),
                When(StringAt(conn.url) # "", "transport_field"),
                When(~IsStringMap(conn.env), "env")>>
  <2>1. FirstError(checks) = {}
    BY <1>1, <1>3, <1>4 DEF ConnectionError
  <2>2. DOMAIN checks = 1 .. 4
    OBVIOUS
  <2>3. \A k \in 1 .. 4 : checks[k] = {}
    BY <2>1, <2>2, FirstErrorIsFirst
  <2> HIDE DEF checks
  <2>4. checks[1] = {} /\ checks[2] = {} /\ checks[3] = {} /\ checks[4] = {}
    BY <2>3
  <2> QED
    BY <1>1, <1>3, <1>4, <2>4 DEF When, checks
<1>5. CASE conn.transport = "http"
  <2> DEFINE checks == <<When(StringAt(conn.url) = "", "transport_field"),
                When(StringList(conn.command) # <<>>, "transport_field"),
                When(~IsStringMap(conn.headers), "headers")>>
  <2>1. FirstError(checks) = {}
    BY <1>1, <1>3, <1>5 DEF ConnectionError
  <2>2. DOMAIN checks = 1 .. 3
    OBVIOUS
  <2>3. \A k \in 1 .. 3 : checks[k] = {}
    BY <2>1, <2>2, FirstErrorIsFirst
  <2> HIDE DEF checks
  <2>4. checks[1] = {} /\ checks[2] = {} /\ checks[3] = {}
    BY <2>3
  <2> QED
    BY <1>1, <1>3, <1>5, <2>4 DEF When, checks
<1> QED
  BY <1>2, <1>3, <1>4, <1>5

\* What accepted credentials are.
LEMMA AuthAccepted ==
  ASSUME NEW auth, AuthError(auth) = {}
  PROVE  \/ auth = Absent
         \/ /\ Given(auth) /\ StringAt(auth.credentialRef) # "" /\ StringAt(auth.scheme) # ""
            /\ auth.scheme = "api-key" => StringAt(auth.headerName) # ""
            /\ auth.credentialRef \in IDs
<1> DEFINE checks ==
         <<When(StringAt(auth.credentialRef) = "", "credential_ref"),
           When(StringAt(auth.scheme) = "", "auth_scheme"),
           When(auth.scheme = "api-key" /\ StringAt(auth.headerName) = "", "header_name"),
           When(auth.credentialRef \notin IDs, "credential_id")>>
<1>1. SUFFICES ASSUME auth # Absent PROVE
            /\ Given(auth) /\ StringAt(auth.credentialRef) # "" /\ StringAt(auth.scheme) # ""
            /\ auth.scheme = "api-key" => StringAt(auth.headerName) # ""
            /\ auth.credentialRef \in IDs
  OBVIOUS
<1>2. auth # Wrong
  BY <1>1 DEF AuthError
<1>3. FirstError(checks) = {}
  BY <1>1, <1>2 DEF AuthError
<1>4. DOMAIN checks = 1 .. 4
  OBVIOUS
<1>5. \A k \in 1 .. 4 : checks[k] = {}
  BY <1>3, <1>4, FirstErrorIsFirst
<1> HIDE DEF checks
<1>6. checks[1] = {} /\ checks[2] = {} /\ checks[3] = {} /\ checks[4] = {}
  BY <1>5
<1> QED
  BY <1>1, <1>2, <1>6 DEF When, Given, checks

\* Every check of the factory, for a config it accepts; and conversely.
LEMMA Checks ==
  ASSUME NEW cfg, cfg # Absent
  PROVE  BuildError(cfg) = {} <=>
           /\ StringAt(cfg.id) # "" /\ ConnectionError(cfg.connection) = {}
           /\ AuthError(cfg.auth) = {} /\ GlobListError(cfg.allow) = {}
           /\ GlobListError(cfg.deny) = {} /\ PolicyIDsError(cfg.policies) = {}
           /\ TrustError(cfg.trust) = {} /\ OnNewToolError(cfg.onNewTool) = {}
<1> DEFINE checks ==
    <<When(StringAt(cfg.id) = "", "missing_id"), ConnectionError(cfg.connection),
      AuthError(cfg.auth), GlobListError(cfg.allow), GlobListError(cfg.deny),
      PolicyIDsError(cfg.policies), TrustError(cfg.trust), OnNewToolError(cfg.onNewTool)>>
<1>1. BuildError(cfg) = FirstError(checks)
  BY DEF BuildError
<1>2. DOMAIN checks = 1 .. 8
  OBVIOUS
<1>3. BuildError(cfg) = {} <=> \A k \in 1 .. 8 : checks[k] = {}
  BY <1>1, <1>2, FirstErrorIsFirst
<1>4. (\A k \in 1 .. 8 : checks[k] = {}) <=>
        /\ checks[1] = {} /\ checks[2] = {} /\ checks[3] = {} /\ checks[4] = {}
        /\ checks[5] = {} /\ checks[6] = {} /\ checks[7] = {} /\ checks[8] = {}
  <2>1. 1 .. 8 = {1, 2, 3, 4, 5, 6, 7, 8}
    OBVIOUS
  <2> QED
    BY <2>1
<1>5. checks[1] = {} <=> StringAt(cfg.id) # ""
  BY DEF When
<1> QED
  BY <1>3, <1>4, <1>5

\* A valid connection is refused by the factory only for the type of a field.
LEMMA ConnectionCovered ==
  ASSUME NEW conn, ValidateConnection(conn) = {}
  PROVE  ConnectionError(conn) \subseteq {"command_type", "env", "headers"}
<1>1. Given(conn)
  BY DEF ValidateConnection
<1>2. StringAt(conn.transport) \in {"stdio", "http"}
  BY <1>1 DEF ValidateConnection
<1>3. CASE StringAt(conn.transport) = "stdio"
  <2> DEFINE checks == <<When(~IsStringList(conn.command), "command_type"),
                When(StringList(conn.command) = <<>>, "transport_field"),
                When(StringAt(conn.url) # "", "transport_field"),
                When(~IsStringMap(conn.env), "env")>>
  <2>1. ConnectionError(conn) = FirstError(checks)
    BY <1>1, <1>3 DEF ConnectionError
  <2>2. AnyListAt(conn.command) # <<>> /\ StringAt(conn.url) = ""
    BY <1>1, <1>3 DEF ValidateConnection, When
  <2>3. DOMAIN checks = 1 .. 4
    OBVIOUS
  <2>4. /\ checks[1] \subseteq {"command_type"}
        /\ checks[1] = {} => checks[2] = {}
        /\ checks[3] = {} /\ checks[4] \subseteq {"env"}
    BY <2>2, ListReadTwice DEF When
  <2> HIDE DEF checks
  <2>5. SUFFICES ASSUME FirstError(checks) # {} PROVE FirstError(checks) \subseteq {"command_type", "env"}
    BY <2>1
  <2>6. PICK k \in 1 .. 4 : FirstError(checks) = checks[k] /\ \A j \in 1 .. k - 1 : checks[j] = {}
    BY <2>3, <2>5, FirstErrorIsFirst
  <2>7. CASE k = 2
    <3>1. 1 \in 1 .. k - 1
      BY <2>7
    <3> QED
      BY <2>4, <2>5, <2>6, <2>7, <3>1
  <2>8. CASE k # 2
    <3>1. k \in {1, 3, 4}
      BY <2>8
    <3> QED
      BY <2>4, <2>6, <3>1
  <2> QED
    BY <2>7, <2>8
<1>4. CASE StringAt(conn.transport) = "http"
  <2> DEFINE checks == <<When(StringAt(conn.url) = "", "transport_field"),
                When(StringList(conn.command) # <<>>, "transport_field"),
                When(~IsStringMap(conn.headers), "headers")>>
  <2>1. ConnectionError(conn) = FirstError(checks)
    BY <1>1, <1>4 DEF ConnectionError
  <2>2. AnyListAt(conn.command) = <<>> /\ StringAt(conn.url) # ""
    BY <1>1, <1>4 DEF ValidateConnection, When
  <2>3. DOMAIN checks = 1 .. 3
    OBVIOUS
  <2>4. checks[1] = {} /\ checks[2] = {} /\ checks[3] \subseteq {"headers"}
    BY <2>2, ListReadTwice DEF When
  <2> HIDE DEF checks
  <2>5. SUFFICES ASSUME FirstError(checks) # {} PROVE FirstError(checks) \subseteq {"headers"}
    BY <2>1
  <2>6. PICK k \in 1 .. 3 : FirstError(checks) = checks[k]
    BY <2>3, <2>5, FirstErrorIsFirst
  <2>7. k \in {1, 2, 3}
    OBVIOUS
  <2> QED
    BY <2>4, <2>6, <2>7
<1> QED
  BY <1>2, <1>3, <1>4

\* Valid credentials are refused only for their type or an id that does not parse.
LEMMA AuthCovered ==
  ASSUME NEW auth, ValidateAuth(auth) = {}
  PROVE  AuthError(auth) \subseteq {"auth_type", "credential_id"}
<1>1. CASE ~Given(auth)
  BY <1>1, MCPAssumption DEF AuthError, Given
<1>2. CASE Given(auth)
  <2> DEFINE checks ==
         <<When(StringAt(auth.credentialRef) = "", "credential_ref"),
           When(StringAt(auth.scheme) = "", "auth_scheme"),
           When(auth.scheme = "api-key" /\ StringAt(auth.headerName) = "", "header_name"),
           When(auth.credentialRef \notin IDs, "credential_id")>>
  <2>1. AuthError(auth) = FirstError(checks)
    BY <1>2 DEF AuthError, Given
  <2>2. /\ StringAt(auth.credentialRef) # "" /\ StringAt(auth.scheme) # ""
        /\ StringAt(auth.scheme) = "api-key" => StringAt(auth.headerName) # ""
    BY <1>2 DEF ValidateAuth, When
  <2>3. StringAt(auth.scheme) = auth.scheme
    BY <2>2, ReadTwice
  <2>4. checks[1] = {} /\ checks[2] = {} /\ checks[3] = {} /\ checks[4] \subseteq {"credential_id"}
    BY <2>2, <2>3 DEF When
  <2>5. DOMAIN checks = 1 .. 4
    OBVIOUS
  <2> HIDE DEF checks
  <2>6. SUFFICES ASSUME FirstError(checks) # {} PROVE FirstError(checks) \subseteq {"credential_id"}
    BY <2>1
  <2>7. PICK k \in 1 .. 4 : FirstError(checks) = checks[k]
    BY <2>5, <2>6, FirstErrorIsFirst
  <2>8. k \in {1, 2, 3, 4}
    OBVIOUS
  <2> QED
    BY <2>4, <2>7, <2>8
<1> QED
  BY <1>1, <1>2

LeftToFactory ==
  {"command_type", "env", "headers", "auth_type", "credential_id", "list_type", "policy_id", "trust"}

\* What Validate lets pass, the factory refuses only for what is left to it.
LEMMA FactoryCovered ==
  ASSUME NEW cfg, ValidateImport(cfg) = {}
  PROVE  cfg # Absent /\ BuildError(cfg) \subseteq LeftToFactory
<1> DEFINE checks ==
    <<When(StringAt(cfg.id) = "", "missing_id"), ConnectionError(cfg.connection),
      AuthError(cfg.auth), GlobListError(cfg.allow), GlobListError(cfg.deny),
      PolicyIDsError(cfg.policies), TrustError(cfg.trust), OnNewToolError(cfg.onNewTool)>>
<1>0. cfg # Absent
  BY DEF ValidateImport
<1>1. /\ When(StringAt(cfg.id) = "", "missing_id") = {}
      /\ ValidateConnection(cfg.connection) = {} /\ ValidateOnNewTool(cfg.onNewTool) = {}
      /\ ValidateAuth(cfg.auth) = {} /\ ValidateGlobList(cfg.allow) = {}
      /\ ValidateGlobList(cfg.deny) = {}
  BY <1>0 DEF ValidateImport
<1>2. ASSUME NEW v, ValidateGlobList(v) = {} PROVE GlobListError(v) \subseteq {"list_type"}
  <2>1. Range(AnyListAt(v)) \subseteq Globs
    BY <1>2 DEF ValidateGlobList, When
  <2>2. Range(StringList(v)) \subseteq Globs
    BY <2>1, ListReadTwice
  <2> QED
    BY <2>2 DEF GlobListError, When
<1>3. OnNewToolError(cfg.onNewTool) = {}
  <2>1. StringAt(cfg.onNewTool) \in OnNewToolPolicies \cup {""}
    BY <1>1 DEF ValidateOnNewTool, When
  <2>2. StringAt(cfg.onNewTool) # "" => StringAt(cfg.onNewTool) = cfg.onNewTool
    BY ReadTwice
  <2> QED
    BY <2>1, <2>2 DEF OnNewToolError, When
<1>4. /\ PolicyIDsError(cfg.policies) \subseteq {"list_type", "policy_id"}
      /\ TrustError(cfg.trust) \subseteq {"trust"}
  BY DEF PolicyIDsError, TrustError, When
<1>5. /\ ConnectionError(cfg.connection) \subseteq {"command_type", "env", "headers"}
      /\ AuthError(cfg.auth) \subseteq {"auth_type", "credential_id"}
      /\ GlobListError(cfg.allow) \subseteq {"list_type"}
      /\ GlobListError(cfg.deny) \subseteq {"list_type"}
  BY <1>1, <1>2, ConnectionCovered, AuthCovered
<1>6. /\ checks[1] \subseteq LeftToFactory /\ checks[2] \subseteq LeftToFactory
      /\ checks[3] \subseteq LeftToFactory /\ checks[4] \subseteq LeftToFactory
      /\ checks[5] \subseteq LeftToFactory /\ checks[6] \subseteq LeftToFactory
      /\ checks[7] \subseteq LeftToFactory /\ checks[8] \subseteq LeftToFactory
  BY <1>1, <1>3, <1>4, <1>5 DEF LeftToFactory
<1>7. DOMAIN checks = 1 .. 8
  OBVIOUS
<1>8. BuildError(cfg) = FirstError(checks)
  BY <1>0 DEF BuildError
<1> HIDE DEF checks
<1>9. CASE FirstError(checks) = {}
  BY <1>0, <1>8, <1>9
<1>10. CASE FirstError(checks) # {}
  <2>1. PICK k \in 1 .. 8 : FirstError(checks) = checks[k]
    BY <1>7, <1>10, FirstErrorIsFirst
  <2>2. k \in {1, 2, 3, 4, 5, 6, 7, 8}
    OBVIOUS
  <2> QED
    BY <1>0, <1>6, <1>8, <2>1, <2>2
<1> QED
  BY <1>9, <1>10

\* Decoding never loosens: the restrictions of an accepted config.
LEMMA AcceptedKeepsRestrictions ==
  ASSUME NEW cfg, cfg # Absent, BuildError(cfg) = {}
  PROVE  LET b == Binding(cfg) IN
         /\ cfg.allow # Absent => b.allow = cfg.allow
         /\ cfg.deny # Absent => b.deny = cfg.deny
         /\ cfg.policies # Absent => b.policies = cfg.policies
         /\ cfg.auth # Absent => b.auth # {}
         /\ b.onNewTool # "block" => cfg.onNewTool = b.onNewTool
         /\ b.onNewTool \in OnNewToolPolicies
         /\ Cardinality(b.auth) <= 1
<1>1. /\ IsStringList(cfg.allow) /\ IsStringList(cfg.deny) /\ IsStringList(cfg.policies)
      /\ StringAt(cfg.onNewTool) = "" \/ cfg.onNewTool \in OnNewToolPolicies
  BY Checks DEF GlobListError, PolicyIDsError, OnNewToolError, When
<1>2. cfg.auth = Absent \/ Given(cfg.auth)
  BY Checks, AuthAccepted
<1>3. /\ cfg.allow # Absent => StringList(cfg.allow) = cfg.allow
      /\ cfg.deny # Absent => StringList(cfg.deny) = cfg.deny
      /\ cfg.policies # Absent => StringList(cfg.policies) = cfg.policies
  BY <1>1, ListReadTwice
<1>4. /\ OnNewTool(cfg.onNewTool) # "block" => OnNewTool(cfg.onNewTool) = cfg.onNewTool
      /\ OnNewTool(cfg.onNewTool) \in OnNewToolPolicies
  BY <1>1 DEF OnNewTool, OnNewToolPolicies
<1>5. /\ cfg.auth # Absent => Auth(cfg.auth) # {}
      /\ Auth(cfg.auth) = {} \/ \E a : Auth(cfg.auth) = {a}
  BY <1>2 DEF Auth
<1>6. Cardinality(Auth(cfg.auth)) <= 1
  BY <1>5, FS_EmptySet, FS_Singleton
<1> QED
  BY <1>3, <1>4, <1>5, <1>6 DEF Binding

\* A decoded connection is one that Validate and the factory accept, and it
\* decodes to itself.
LEMMA ConnectionRoundTrip ==
  ASSUME NEW conn, ConnectionError(conn) = {}, Given(Connection(conn))
  PROVE  /\ ValidateConnection(Connection(conn)) = {}
         /\ ConnectionError(Connection(conn)) = {}
         /\ Connection(Connection(conn)) = Connection(conn)
<1> DEFINE c == Connection(conn)
<1>1. Given(conn.transport) /\ StringAt(conn.transport) = conn.transport
  BY ConnectionAccepted, ReadTwice
<1>2. StringAt("") = "" /\ Given(<<>>) /\ AnyListAt(<<>>) = <<>>
  BY MCPAssumption DEF StringAt, AnyListAt, Given
<1>3. CASE /\ conn.transport = "stdio" /\ IsStringList(conn.command)
           /\ StringList(conn.command) # <<>> /\ StringAt(conn.url) = ""
           /\ IsStringMap(conn.env)
  <2>1. c = [transport |-> "stdio", command |-> StringList(conn.command), url |-> "",
             env |-> AnyListAt(conn.env), headers |-> <<>>]
    BY <1>3 DEF Connection
  <2> HIDE DEF c
  <2>2. /\ c.transport = "stdio" /\ c.command = StringList(conn.command) /\ c.url = ""
        /\ c.env = AnyListAt(conn.env) /\ c.headers = <<>>
    BY <2>1
  <2>3. /\ StringAt(c.transport) = "stdio" /\ StringAt(c.url) = ""
        /\ IsStringList(c.command) /\ StringList(c.command) = c.command
        /\ AnyListAt(c.command) = c.command /\ c.command # <<>>
        /\ IsStringMap(c.env) /\ AnyListAt(c.env) = c.env
    <3>1. StringAt(c.transport) = "stdio" /\ StringAt(c.url) = ""
      BY <1>1, <1>2, <1>3, <2>2
    <3>2. /\ IsStringList(c.command) /\ StringList(c.command) = c.command
          /\ AnyListAt(c.command) = c.command /\ c.command # <<>>
      BY <1>3, <2>2, ListReadTwice
    <3>3. IsStringMap(c.env) /\ AnyListAt(c.env) = c.env
      <4>1. IsStringMap(AnyListAt(conn.env))
        BY <1>3, ListReadTwice, Zenon
      <4>2. AnyListAt(AnyListAt(conn.env)) = AnyListAt(conn.env)
        BY ReadTwice
      <4> QED
        BY <2>2, <4>1, <4>2
    <3> QED
      BY <3>1, <3>2, <3>3
  <2>4. ValidateConnection(c) = {}
    BY <2>3 DEF ValidateConnection, When, c
  <2>5. Connection(c) = c
    <3>1. Connection(c) = [transport |-> "stdio", command |-> StringList(c.command), url |-> "",
                           env |-> AnyListAt(c.env), headers |-> <<>>]
      BY <2>2 DEF Connection
    <3> QED
      BY <2>1, <2>2, <2>3, <3>1
  <2>6. ConnectionError(c) = {}
    <3> DEFINE checks == <<When(~IsStringList(c.command), "command_type"),
                When(StringList(c.command) = <<>>, "transport_field"),
                When(StringAt(c.url) # "", "transport_field"),
                When(~IsStringMap(c.env), "env")>>
    <3>1. ConnectionError(c) = FirstError(checks)
      BY <2>3 DEF ConnectionError, c
    <3>2. checks[1] = {} /\ checks[2] = {} /\ checks[3] = {} /\ checks[4] = {}
      BY <2>3 DEF When
    <3>3. DOMAIN checks = 1 .. 4
      OBVIOUS
    <3> HIDE DEF checks
    <3>4. \A k \in 1 .. 4 : checks[k] = {}
      <4>1. \A k \in 1 .. 4 : k \in {1, 2, 3, 4}
        OBVIOUS
      <4> QED
        BY <3>2, <4>1
    <3> QED
      BY <3>1, <3>3, <3>4, FirstErrorIsFirst
  <2> QED
    BY <2>4, <2>5, <2>6 DEF c
<1>4. CASE /\ conn.transport = "http" /\ StringAt(conn.url) # ""
           /\ StringList(conn.command) = <<>> /\ IsStringMap(conn.headers)
  <2>1. c = [transport |-> "http", command |-> <<>>, url |-> conn.url,
             env |-> <<>>, headers |-> AnyListAt(conn.headers)]
    BY <1>4 DEF Connection
  <2> HIDE DEF c
  <2>2. /\ c.transport = "http" /\ c.command = <<>> /\ c.url = conn.url
        /\ c.env = <<>> /\ c.headers = AnyListAt(conn.headers)
    BY <2>1
  <2>3. /\ StringAt(c.transport) = "http" /\ StringAt(c.url) # ""
        /\ StringList(c.command) = <<>> /\ AnyListAt(c.command) = <<>>
        /\ IsStringMap(c.headers) /\ AnyListAt(c.headers) = c.headers
    <3>1. StringAt(c.transport) = "http" /\ StringAt(c.url) # ""
      BY <1>1, <1>4, <2>2
    <3>2. StringList(c.command) = <<>> /\ AnyListAt(c.command) = <<>>
      BY <1>2, <2>2, ListReadTwice
    <3>3. IsStringMap(c.headers) /\ AnyListAt(c.headers) = c.headers
      <4>1. IsStringMap(AnyListAt(conn.headers))
        BY <1>4, ListReadTwice, Zenon
      <4>2. AnyListAt(AnyListAt(conn.headers)) = AnyListAt(conn.headers)
        BY ReadTwice
      <4> QED
        BY <2>2, <4>1, <4>2
    <3> QED
      BY <3>1, <3>2, <3>3
  <2>4. ValidateConnection(c) = {}
    BY <2>3 DEF ValidateConnection, When, c
  <2>5. Connection(c) = c
    <3>1. Connection(c) = [transport |-> "http", command |-> <<>>, url |-> c.url,
                           env |-> <<>>, headers |-> AnyListAt(c.headers)]
      BY <2>2 DEF Connection
    <3> QED
      BY <2>1, <2>2, <2>3, <3>1
  <2>6. ConnectionError(c) = {}
    <3> DEFINE checks == <<When(StringAt(c.url) = "", "transport_field"),
                When(StringList(c.command) # <<>>, "transport_field"),
                When(~IsStringMap(c.headers), "headers")>>
    <3>1. ConnectionError(c) = FirstError(checks)
      BY <2>3 DEF ConnectionError, c
    <3>2. checks[1] = {} /\ checks[2] = {} /\ checks[3] = {}
      BY <2>3 DEF When
    <3>3. DOMAIN checks = 1 .. 3
      OBVIOUS
    <3> HIDE DEF checks
    <3>4. \A k \in 1 .. 3 : checks[k] = {}
      <4>1. \A k \in 1 .. 3 : k \in {1, 2, 3}
        OBVIOUS
      <4> QED
        BY <3>2, <4>1
    <3> QED
      BY <3>1, <3>3, <3>4, FirstErrorIsFirst
  <2> QED
    BY <2>4, <2>5, <2>6 DEF c
<1> QED
  BY <1>3, <1>4, ConnectionAccepted

\* So do decoded credentials.
LEMMA AuthRoundTrip ==
  ASSUME NEW auth, AuthError(auth) = {}, \A a \in Auth(auth) : Given(a),
         NEW again, Auth(auth) = {} => again = Absent, Auth(auth) # {} => again \in Auth(auth)
  PROVE  ValidateAuth(again) = {} /\ AuthError(again) = {} /\ Auth(again) = Auth(auth)
<1>1. CASE auth = Absent
  BY <1>1 DEF Auth, Given, ValidateAuth, AuthError
<1>2. CASE auth # Absent
  <2> DEFINE a == [credentialRef |-> auth.credentialRef, scheme |-> auth.scheme,
                   headerName |-> StringAt(auth.headerName)]
  <2>1. /\ Given(auth) /\ StringAt(auth.credentialRef) # "" /\ StringAt(auth.scheme) # ""
        /\ auth.scheme = "api-key" => StringAt(auth.headerName) # ""
        /\ auth.credentialRef \in IDs
    BY <1>2, AuthAccepted
  <2>2. Auth(auth) = {a}
    BY <2>1 DEF Auth
  <2> HIDE DEF a
  <2>3. Given(a) /\ again = a
    BY <2>2
  <2>4. /\ a.credentialRef = auth.credentialRef /\ a.scheme = auth.scheme
        /\ a.headerName = StringAt(auth.headerName)
    BY DEF a
  <2>5. /\ StringAt(a.headerName) = a.headerName
        /\ StringAt(a.scheme) = a.scheme
    BY <2>1, <2>4, ReadTwice
  <2>6. ValidateAuth(a) = {}
    BY <2>1, <2>3, <2>4, <2>5 DEF ValidateAuth, When
  <2>7. Auth(a) = {a}
    BY <2>3, <2>4, <2>5 DEF Auth, a
  <2>8. AuthError(a) = {}
    <3> DEFINE checks ==
         <<When(StringAt(a.credentialRef) = "", "credential_ref"),
           When(StringAt(a.scheme) = "", "auth_scheme"),
           When(a.scheme = "api-key" /\ StringAt(a.headerName) = "", "header_name"),
           When(a.credentialRef \notin IDs, "credential_id")>>
    <3>1. AuthError(a) = FirstError(checks)
      BY <2>3 DEF AuthError, Given
    <3>2. checks[1] = {} /\ checks[2] = {} /\ checks[3] = {} /\ checks[4] = {}
      BY <2>1, <2>4, <2>5 DEF When
    <3>3. DOMAIN checks = 1 .. 4
      OBVIOUS
    <3> HIDE DEF checks
    <3>4. \A k \in 1 .. 4 : checks[k] = {}
      <4>1. \A k \in 1 .. 4 : k \in {1, 2, 3, 4}
        OBVIOUS
      <4> QED
        BY <3>2, <4>1
    <3> QED
      BY <3>1, <3>3, <3>4, FirstErrorIsFirst
  <2> QED
    BY <2>2, <2>3, <2>6, <2>7, <2>8
<1> QED
  BY <1>1, <1>2

\* A binding, written back as a config, is valid and builds itself again.
LEMMA BindingRoundTrip ==
  ASSUME NEW cfg, cfg # Absent, BuildError(cfg) = {},
         LET b == Binding(cfg)
         IN  {Absent, Wrong} \cap ({Encode(b), b.connection, b.trust} \cup b.auth) = {}
  PROVE  LET b == Binding(cfg)
         IN  ValidateImport(Encode(b)) = {} /\ BuildError(Encode(b)) = {} /\ Binding(Encode(b)) = b
<1> DEFINE b == Binding(cfg)
           e == Encode(b)
<1>1. /\ b.id = cfg.id /\ b.connection = Connection(cfg.connection) /\ b.auth = Auth(cfg.auth)
      /\ b.allow = StringList(cfg.allow) /\ b.deny = StringList(cfg.deny)
      /\ b.policies = StringList(cfg.policies)
      /\ b.trust = [tier |-> cfg.trust.tier, owner |-> cfg.trust.owner,
                    tags |-> StringList(cfg.trust.tags)]
      /\ b.onNewTool = OnNewTool(cfg.onNewTool) /\ b.tags = StringList(cfg.tags)
      /\ b = [id |-> b.id, connection |-> b.connection, auth |-> b.auth,
              allow |-> b.allow, deny |-> b.deny, policies |-> b.policies, trust |-> b.trust,
              onNewTool |-> b.onNewTool, tags |-> b.tags]
  BY DEF Binding
<1>2. /\ Given(e) /\ Given(b.connection) /\ Given(b.trust) /\ \A a \in b.auth : Given(a)
  BY Zenon DEF Given
<1> HIDE DEF b
<1>3. /\ e.id = b.id /\ e.connection = b.connection
      /\ e.auth = IF b.auth = {} THEN Absent ELSE CHOOSE a \in b.auth : TRUE
      /\ e.allow = b.allow /\ e.deny = b.deny /\ e.policies = b.policies
      /\ e.trust = b.trust /\ e.onNewTool = b.onNewTool /\ e.tags = b.tags
  BY DEF Encode
<1> HIDE DEF e
<1>4. /\ StringAt(cfg.id) # "" /\ ConnectionError(cfg.connection) = {}
      /\ AuthError(cfg.auth) = {} /\ GlobListError(cfg.allow) = {}
      /\ GlobListError(cfg.deny) = {} /\ PolicyIDsError(cfg.policies) = {}
      /\ TrustError(cfg.trust) = {} /\ OnNewToolError(cfg.onNewTool) = {}
  BY Checks
<1>5. /\ ValidateConnection(e.connection) = {} /\ ConnectionError(e.connection) = {}
      /\ Connection(e.connection) = b.connection
  BY <1>1, <1>2, <1>3, <1>4, ConnectionRoundTrip
<1>6. ValidateAuth(e.auth) = {} /\ AuthError(e.auth) = {} /\ Auth(e.auth) = b.auth
  <2>1. (b.auth = {} => e.auth = Absent) /\ (b.auth # {} => e.auth \in b.auth)
    BY <1>3
  <2> QED
    BY <1>1, <1>2, <1>4, <2>1, AuthRoundTrip
<1>7. ASSUME NEW v, GlobListError(v) = {}
      PROVE  /\ GlobListError(StringList(v)) = {} /\ ValidateGlobList(StringList(v)) = {}
             /\ StringList(StringList(v)) = StringList(v)
  <2>1. Range(StringList(v)) \subseteq Globs
    BY <1>7 DEF GlobListError, When
  <2> QED
    BY <2>1, ListReadTwice DEF GlobListError, ValidateGlobList, When
<1>8. /\ ValidateGlobList(e.allow) = {} /\ GlobListError(e.allow) = {} /\ StringList(e.allow) = b.allow
      /\ ValidateGlobList(e.deny) = {} /\ GlobListError(e.deny) = {} /\ StringList(e.deny) = b.deny
  BY <1>1, <1>3, <1>4, <1>7
<1>9. PolicyIDsError(e.policies) = {} /\ StringList(e.policies) = b.policies
  <2>1. Range(StringList(cfg.policies)) \subseteq IDs
    BY <1>4 DEF PolicyIDsError, When
  <2> QED
    BY <1>1, <1>3, <2>1, ListReadTwice DEF PolicyIDsError, When
<1>10. StringList(e.tags) = b.tags
  BY <1>1, <1>3, ListReadTwice
<1>11. /\ TrustError(e.trust) = {}
       /\ [tier |-> e.trust.tier, owner |-> e.trust.owner, tags |-> StringList(e.trust.tags)] = b.trust
  <2>1. /\ StringAt(cfg.trust.tier) # "" /\ StringAt(cfg.trust.owner) # ""
        /\ IsStringList(cfg.trust.tags)
    BY <1>4 DEF TrustError, When
  <2>2. /\ e.trust.tier = cfg.trust.tier /\ e.trust.owner = cfg.trust.owner
        /\ e.trust.tags = StringList(cfg.trust.tags) /\ Given(e.trust)
    BY <1>1, <1>2, <1>3
  <2>3. StringList(e.trust.tags) = e.trust.tags /\ IsStringList(e.trust.tags)
    BY <2>2, ListReadTwice
  <2> QED
    BY <1>1, <1>3, <2>1, <2>2, <2>3 DEF TrustError, When
<1>12. /\ OnNewToolError(e.onNewTool) = {} /\ ValidateOnNewTool(e.onNewTool) = {}
       /\ OnNewTool(e.onNewTool) = b.onNewTool
  <2>1. StringAt(cfg.onNewTool) = "" \/ cfg.onNewTool \in OnNewToolPolicies
    BY <1>4 DEF OnNewToolError, When
  <2>2. b.onNewTool \in OnNewToolPolicies
    BY <1>1, <2>1 DEF OnNewTool, OnNewToolPolicies
  <2>3. StringAt(b.onNewTool) \in {"", b.onNewTool}
    BY DEF StringAt
  <2>4. b.onNewTool = "block" \/ StringAt(b.onNewTool) = b.onNewTool
    BY <1>1, <2>1, ReadTwice DEF OnNewTool
  <2>5. OnNewTool(b.onNewTool) = b.onNewTool
    BY <2>2, <2>3, <2>4 DEF OnNewTool, OnNewToolPolicies
  <2> QED
    BY <1>3, <2>2, <2>3, <2>5 DEF OnNewToolError, ValidateOnNewTool, When
<1>13. e # Absent /\ StringAt(e.id) # ""
  BY <1>1, <1>2, <1>3, <1>4 DEF Given
<1>14. BuildError(e) = {}
  BY <1>5, <1>6, <1>8, <1>9, <1>11, <1>12, <1>13, Checks
<1>15. ValidateImport(e) = {}
  BY <1>5, <1>6, <1>8, <1>12, <1>13 DEF ValidateImport, When
<1>16. Binding(e) = b
  BY <1>1, <1>3, <1>5, <1>6, <1>8, <1>9, <1>10, <1>11, <1>12 DEF Binding
<1> QED
  BY <1>14, <1>15, <1>16 DEF b, e

-----------------------------------------------------------------------------
(* The two loops *)

\* The list of imports is a sequence, and so are what the loops collect.
LEMMA CollectedInOrder ==
  ASSUME TypeOK
  PROVE  /\ Len(imports) \in Nat /\ DOMAIN imports = 1 .. Len(imports)
         /\ Len(seen) \in Nat /\ DOMAIN seen = 1 .. Len(seen)
         /\ Len(bindings) \in Nat /\ DOMAIN bindings = 1 .. Len(bindings)
<1>1. imports \in Seq(Range(imports))
  BY MCPAssumption DEF TypeOK
<1>2. seen \in Seq({IDOf(imports[q].config) : q \in DOMAIN imports} \cup {""})
  BY DEF TypeOK
<1>3. bindings \in Seq({Binding(c) : c \in Accepted})
  BY DEF TypeOK
<1> QED
  BY <1>1, <1>2, <1>3, ElementOf

\* Nothing is collected at first.
LEMMA InitMCPInv == Init => MCPInv
<1> SUFFICES ASSUME Init PROVE MCPInv
  OBVIOUS
<1> DEFINE S == {IDOf(imports[q].config) : q \in DOMAIN imports} \cup {""}
           B == {Binding(c) : c \in Accepted}
<1>1. imports \in Seq(Range(imports))
  BY MCPAssumption DEF Init
<1>2. Len(imports) \in Nat
  BY <1>1
<1>3. seen \in Seq(S) /\ bindings \in Seq(B) /\ Len(seen) = 0 /\ Len(bindings) = 0
      /\ DOMAIN seen = {} /\ DOMAIN bindings = {} /\ Range(bindings) = {}
  <2> HIDE DEF S, B
  <2> QED
    BY DEF Init, Range
<1>4. TypeOK
  BY <1>2, <1>3 DEF Init, TypeOK
<1>5. ValidatedSoFar
  BY <1>3 DEF Init, ValidatedSoFar
<1>6. BuiltSoFar
  BY <1>3 DEF Init, BuiltSoFar
<1> QED
  BY <1>4, <1>5, <1>6 DEF MCPInv, ValidateCoversFactory, Init

\* Validate: an import without an error, and with no other of its id before it, is
\* one more of those seen.
LEMMA ValidateKeeps == MCPInv /\ Validate => MCPInv'
<1> SUFFICES ASSUME MCPInv, Validate PROVE MCPInv'
  OBVIOUS
<1> USE DEF MCPInv
<1> DEFINE S == {IDOf(imports[q].config) : q \in DOMAIN imports} \cup {""}
           id == IF ConfigID \in Range(seen) THEN "" ELSE ConfigID
<1>1. /\ phase = "validating" /\ pos \in 1 .. Len(imports) /\ pos' = pos + 1
      /\ seen' = Append(seen, id)
      /\ imports' = imports /\ phase' = phase /\ bindings' = bindings /\ err' = err
  <2>1. pos <= Len(imports) /\ Len(imports) \in Nat /\ pos \in 1 .. Len(imports) + 1
    BY CollectedInOrder DEF Validate, TypeOK
  <2>2. pos \in 1 .. Len(imports)
    BY <2>1
  <2> QED
    BY <2>2 DEF Validate, Record
<1>2. /\ Len(imports) \in Nat /\ DOMAIN imports = 1 .. Len(imports)
      /\ Len(seen) = pos - 1 /\ DOMAIN seen = 1 .. pos - 1 /\ bindings = <<>>
  BY <1>1, CollectedInOrder DEF ValidatedSoFar
<1>3. id \in S /\ seen \in Seq(S)
  BY <1>1, <1>2 DEF ConfigID, Config, TypeOK
<1> HIDE DEF S
<1>4. /\ seen' \in Seq(S) /\ Len(seen') = pos /\ DOMAIN seen' = 1 .. pos
      /\ \A q \in 1 .. pos - 1 : seen'[q] = seen[q]
      /\ seen'[pos] = id
  <2> HIDE DEF id
  <2>1. /\ Append(seen, id) \in Seq(S) /\ Len(Append(seen, id)) = Len(seen) + 1
        /\ DOMAIN Append(seen, id) = 1 .. Len(seen) + 1
        /\ \A i \in 1 .. Len(seen) : Append(seen, id)[i] = seen[i]
        /\ Append(seen, id)[Len(seen) + 1] = id
    BY <1>3, Appended
  <2>2. Len(seen) + 1 = pos
    BY <1>1, <1>2
  <2> QED
    BY <1>1, <1>2, <2>1, <2>2
<1>5. TypeOK'
  <2>1. Accepted' = Accepted
    BY <1>1 DEF Accepted
  <2> QED
    <3>1. seen' \in Seq({IDOf(imports'[q].config) : q \in DOMAIN imports'} \cup {""})
      BY <1>1, <1>4 DEF S
    <3>2. pos' \in 1 .. Len(imports') + 1
      <4>1. pos \in 1 .. Len(imports) /\ Len(imports) \in Nat
        BY <1>1, <1>2
      <4>2. pos + 1 \in 1 .. Len(imports) + 1
        BY <4>1
      <4> QED
        BY <1>1, <4>2
    <3>3. bindings' \in Seq({Binding(c) : c \in Accepted'}) /\ Len(bindings') <= Len(imports')
      BY <1>1, <2>1 DEF TypeOK
    <3>4. /\ imports' \in ImportLists /\ phase' = "validating" /\ err' = {}
          /\ \A x \in Range(bindings') : x.onNewTool \in OnNewToolPolicies /\ Cardinality(x.auth) <= 1
      BY <1>1 DEF TypeOK
    <3> QED
      BY <3>1, <3>2, <3>3, <3>4 DEF TypeOK
<1>6. ASSUME errs' = {}
      PROVE  /\ errs = {} /\ id = IDOf(imports[pos].config) /\ id # ""
             /\ ValidateImport(imports[pos].config) = {}
             /\ \A p \in 1 .. pos - 1 : seen[p] # id
  <2>1. /\ errs = {} /\ ValidateImport(Config) = {}
        /\ \A q \in DOMAIN seen : ConfigID # "" => seen[q] # ConfigID
    BY <1>6 DEF Validate
  <2>2. Config # Absent /\ StringAt(Config.id) # ""
    BY <2>1 DEF ValidateImport, When
  <2>3. ConfigID # ""
    BY <2>2 DEF ConfigID, IDOf
  <2>4. ConfigID \notin Range(seen)
    BY <2>1, <2>3 DEF Range
  <2>5. id = ConfigID
    BY <2>4
  <2> HIDE DEF id
  <2> QED
    BY <1>2, <2>1, <2>3, <2>5 DEF ConfigID, Config
<1> HIDE DEF id
<1>7. ValidatedSoFar'
  <2>1. ASSUME errs' = {}, NEW q \in DOMAIN seen'
        PROVE  /\ seen'[q] = IDOf(imports[q].config) /\ seen'[q] # ""
               /\ ValidateImport(imports[q].config) = {}
               /\ \A p \in 1 .. q - 1 : seen'[p] # seen'[q]
    <3>1. CASE q = pos
      <4>1. \A p \in 1 .. q - 1 : seen'[p] = seen[p]
        BY <1>4, <3>1
      <4> QED
        BY <1>4, <1>6, <2>1, <3>1, <4>1
    <3>2. CASE q # pos
      <4>1. q \in 1 .. pos - 1 /\ q \in DOMAIN seen
        BY <1>1, <1>2, <1>4, <3>2
      <4>2. /\ seen[q] = IDOf(imports[q].config) /\ seen[q] # ""
            /\ ValidateImport(imports[q].config) = {}
            /\ \A p \in 1 .. q - 1 : seen[p] # seen[q]
        BY <1>6, <2>1, <4>1 DEF ValidatedSoFar
      <4>3. \A p \in 1 .. q - 1 : p \in 1 .. pos - 1
        BY <1>1, <4>1
      <4> QED
        BY <1>4, <4>1, <4>2, <4>3
    <3> QED
      BY <3>1, <3>2
  <2> QED
    <3>1. phase' = "validating" /\ Len(seen') = pos' - 1 /\ bindings' = <<>>
      BY <1>1, <1>2, <1>4
    <3> QED
      BY <1>1, <2>1, <3>1 DEF ValidatedSoFar
<1>8. BuiltSoFar' /\ ValidateCoversFactory'
  BY <1>1, <1>2 DEF BuiltSoFar, ValidateCoversFactory
<1> QED
  BY <1>5, <1>7, <1>8

\* The end of either loop.
LEMMA LoopEnds == MCPInv /\ (Validated \/ Resolved) => MCPInv'
<1> SUFFICES ASSUME MCPInv, Validated \/ Resolved PROVE MCPInv'
  OBVIOUS
<1> USE DEF MCPInv
<1>1. /\ imports' = imports /\ seen' = seen /\ errs' = errs /\ bindings' = bindings /\ err' = err
      /\ pos > Len(imports) /\ pos \in 1 .. Len(imports) + 1
      /\ Len(imports) \in Nat /\ pos = Len(imports) + 1
  <2>1. pos > Len(imports) /\ Len(imports) \in Nat /\ pos \in 1 .. Len(imports) + 1
    BY CollectedInOrder DEF Validated, Resolved, TypeOK
  <2>2. pos = Len(imports) + 1
    BY <2>1
  <2> QED
    BY <2>1, <2>2 DEF Validated, Resolved
<1>2. Accepted' = Accepted
  BY <1>1 DEF Accepted
<1>3. CASE Validated
  <2>1. /\ phase = "validating" /\ pos' = 1 /\ phase' \in {"building", "invalid"}
        /\ phase' = "building" => errs = {}
        /\ Len(seen) = Len(imports) /\ bindings = <<>>
    <3>1. /\ phase = "validating" /\ pos' = 1 /\ phase' \in {"building", "invalid"}
          /\ phase' = "building" => errs = {}
      BY <1>3 DEF Validated
    <3>2. Len(seen) = pos - 1 /\ bindings = <<>>
      BY <3>1 DEF ValidatedSoFar
    <3> QED
      BY <1>1, <3>1, <3>2
  <2>2. TypeOK'
    <3>1. pos' \in 1 .. Len(imports') + 1 /\ err = {}
      <4>1. 1 \in 1 .. Len(imports) + 1
        BY <1>1
      <4> QED
        BY <1>1, <2>1, <4>1 DEF TypeOK
    <3> QED
      BY <1>1, <1>2, <2>1, <3>1 DEF TypeOK
  <2>3. ValidatedSoFar'
    BY <1>1, <2>1 DEF ValidatedSoFar
  <2>4. Len(bindings') = pos' - 1
    BY <1>1, <2>1
  <2> QED
    BY <1>1, <2>1, <2>2, <2>3, <2>4 DEF BuiltSoFar, ValidateCoversFactory
<1>4. CASE Resolved
  <2>1. /\ phase = "building" /\ pos' = pos /\ phase' = "built" /\ errs = {}
        /\ Len(bindings) = Len(imports)
    <3>1. phase = "building" /\ pos' = pos /\ phase' = "built"
      BY <1>4 DEF Resolved
    <3>2. errs = {} /\ Len(bindings) = pos - 1
      BY <3>1 DEF ValidatedSoFar, BuiltSoFar
    <3> QED
      BY <1>1, <3>1, <3>2
  <2>2. TypeOK'
    BY <1>1, <1>2, <2>1 DEF TypeOK
  <2>3. ValidatedSoFar'
    BY <1>1, <2>1 DEF ValidatedSoFar
  <2> QED
    BY <1>1, <2>1, <2>2, <2>3 DEF BuiltSoFar, ValidateCoversFactory
<1> QED
  BY <1>3, <1>4

\* One import of the build: it fails with what Validate left to the factory, or
\* its binding is one more.
LEMMA ResolveKeeps == MCPInv /\ Resolve => MCPInv'
<1> SUFFICES ASSUME MCPInv, Resolve PROVE MCPInv'
  OBVIOUS
<1> USE DEF MCPInv
<1> DEFINE B == {Binding(c) : c \in Accepted}
<1>1. /\ phase = "building" /\ pos \in 1 .. Len(imports) /\ Len(imports) \in Nat
      /\ DOMAIN imports = 1 .. Len(imports) /\ pos \in DOMAIN imports
      /\ imports' = imports /\ seen' = seen /\ errs' = errs
      /\ errs = {} /\ Len(seen) = Len(imports) /\ DOMAIN seen = 1 .. Len(imports)
      /\ Len(bindings) = pos - 1 /\ DOMAIN bindings = 1 .. pos - 1
  <2>1. pos \in 1 .. Len(imports)
    <3>1. pos <= Len(imports) /\ Len(imports) \in Nat /\ pos \in 1 .. Len(imports) + 1
      BY CollectedInOrder DEF Resolve, TypeOK
    <3> QED
      BY <3>1
  <2> QED
    BY <2>1, CollectedInOrder DEF Resolve, Fail, ValidatedSoFar, BuiltSoFar
<1>2. Accepted' = Accepted
  BY <1>1 DEF Accepted
<1>3. Config # Absent /\ BuildError(Config) \subseteq LeftToFactory
  <2>1. ValidateImport(imports[pos].config) = {}
    BY <1>1 DEF ValidatedSoFar
  <2> QED
    BY <2>1, FactoryCovered DEF Config
<1>4. ASSUME NEW codes, Fail(codes), codes # {},
             codes \subseteq LeftToFactory \cup
               {"unresolved_factory", "unresolved_policy", "unresolved_credential"}
      PROVE  MCPInv'
  <2>1. /\ phase' = "failed" /\ err' = codes /\ bindings' = <<>> /\ pos' = pos
    BY <1>4 DEF Fail
  <2>2. /\ bindings' \in Seq(B) /\ Len(bindings') = 0 /\ DOMAIN bindings' = {}
        /\ Range(bindings') = {}
    <3> HIDE DEF B
    <3> QED
      BY <2>1 DEF Range
  <2>3. TypeOK'
    <3>1. /\ imports' \in ImportLists /\ pos' \in 1 .. Len(imports') + 1
          /\ seen' \in Seq({IDOf(imports'[q].config) : q \in DOMAIN imports'} \cup {""})
      BY <1>1, <2>1 DEF TypeOK
    <3>2. bindings' \in Seq({Binding(c) : c \in Accepted'}) /\ Len(bindings') <= Len(imports')
      BY <1>1, <1>2, <2>2
    <3> QED
      BY <1>4, <2>1, <2>2, <3>1, <3>2 DEF TypeOK
  <2>4. ValidatedSoFar'
    BY <1>1, <2>1 DEF ValidatedSoFar
  <2>5. ValidateCoversFactory'
    BY <1>4, <2>1 DEF ValidateCoversFactory, LeftToFactory
  <2> QED
    BY <2>1, <2>2, <2>3, <2>4, <2>5 DEF BuiltSoFar
<1>5. CASE Fail({"unresolved_factory"})
  BY <1>4, <1>5
<1>6. CASE BuildError(Config) # {} /\ Fail(BuildError(Config))
  BY <1>3, <1>4, <1>6
<1>7. CASE Unresolved(Binding(Config)) # {} /\ Fail(Unresolved(Binding(Config)))
  <2>1. Unresolved(Binding(Config)) \subseteq {"unresolved_policy", "unresolved_credential"}
    BY DEF Unresolved, When
  <2> QED
    BY <1>4, <1>7, <2>1
<1>8. CASE /\ BuildError(Config) = {} /\ bindings' = Append(bindings, Binding(Config))
           /\ pos' = pos + 1 /\ phase' = phase /\ err' = err
  <2> DEFINE b == Binding(Config)
  <2>1. b \in B /\ bindings \in Seq(B) /\ b = Binding(imports[pos].config)
        /\ BuildError(imports[pos].config) = {}
    BY <1>1, <1>8 DEF Accepted, Config, TypeOK
  <2>2. b.onNewTool \in OnNewToolPolicies /\ Cardinality(b.auth) <= 1
    BY <1>3, <1>8, AcceptedKeepsRestrictions
  <2> HIDE DEF B, b
  <2>3. bindings' = Append(bindings, b)
    BY <1>8 DEF b
  <2>4. /\ bindings' \in Seq(B) /\ Len(bindings') = pos /\ DOMAIN bindings' = 1 .. pos
        /\ \A i \in 1 .. pos - 1 : bindings'[i] = bindings[i]
        /\ bindings'[pos] = b
    <3>1. /\ Append(bindings, b) \in Seq(B) /\ Len(Append(bindings, b)) = Len(bindings) + 1
          /\ DOMAIN Append(bindings, b) = 1 .. Len(bindings) + 1
          /\ \A i \in 1 .. Len(bindings) : Append(bindings, b)[i] = bindings[i]
          /\ Append(bindings, b)[Len(bindings) + 1] = b
      BY <2>1, Appended
    <3>2. Len(bindings) + 1 = pos
      BY <1>1
    <3> QED
      BY <1>1, <2>3, <3>1, <3>2
  <2>5. \A i \in DOMAIN bindings' : i = pos \/ i \in 1 .. pos - 1
    BY <1>1, <2>4
  <2>6. TypeOK'
    <3>1. \A x \in Range(bindings') : x = b \/ x \in Range(bindings)
      BY <1>1, <2>4, <2>5 DEF Range
    <3>2. \A x \in Range(bindings') : x.onNewTool \in OnNewToolPolicies /\ Cardinality(x.auth) <= 1
      BY <2>2, <3>1 DEF TypeOK
    <3>3. pos' \in 1 .. Len(imports) + 1 /\ Len(bindings') <= Len(imports)
      BY <1>1, <1>8, <2>4
    <3> QED
      BY <1>1, <1>2, <1>8, <2>4, <3>2, <3>3 DEF TypeOK, B
  <2>7. ValidatedSoFar'
    BY <1>1, <1>8 DEF ValidatedSoFar
  <2>8. BuiltSoFar'
    <3>1. Len(bindings') = pos' - 1
      BY <1>1, <1>8, <2>4
    <3>2. \A i \in 1 .. pos - 1 : BuildError(imports[i].config) = {} /\ bindings[i] = Binding(imports[i].config)
      BY <1>1 DEF BuiltSoFar
    <3>3. \A i \in DOMAIN bindings' :
            BuildError(imports[i].config) = {} /\ bindings'[i] = Binding(imports[i].config)
      BY <2>1, <2>4, <2>5, <3>2
    <3> QED
      BY <1>1, <3>1, <3>3 DEF BuiltSoFar
  <2>9. ValidateCoversFactory'
    BY <1>1, <1>8 DEF ValidateCoversFactory
  <2> QED
    BY <2>6, <2>7, <2>8, <2>9
<1> QED
  BY <1>5, <1>6, <1>7, <1>8 DEF Resolve

\* The inductive invariant: what was validated and what was built so far.
THEOREM MCPInvariant == Spec => []MCPInv
<1>1. MCPInv /\ UNCHANGED vars => MCPInv'
  <2> SUFFICES ASSUME MCPInv, UNCHANGED vars PROVE MCPInv'
    OBVIOUS
  <2>1. Accepted' = Accepted
    BY DEF Accepted, vars
  <2> QED
    BY <2>1 DEF MCPInv, TypeOK, ValidatedSoFar, BuiltSoFar, ValidateCoversFactory, vars
<1>2. MCPInv /\ [Next]_vars => MCPInv'
  BY <1>1, ValidateKeeps, LoopEnds, ResolveKeeps DEF Next
<1> QED
  BY InitMCPInv, <1>2, PTL DEF Spec

\* The state of the two loops is well formed at every step.
THEOREM TypeCorrect == Spec => []TypeOK
<1>1. MCPInv => TypeOK
  BY DEF MCPInv
<1> QED
  BY <1>1, MCPInvariant, PTL

\* The bindings of a built agent have distinct, non-empty ids: the factory compares
\* nothing, but what Validate compared is what is built.
THEOREM BindingsUnique == Spec => []UniqueBindings
<1>1. MCPInv => UniqueBindings
  <2> SUFFICES ASSUME MCPInv, phase = "built"
               PROVE  /\ IsInjective([i \in DOMAIN bindings |-> bindings[i].id])
                      /\ \A i \in DOMAIN bindings : bindings[i].id # ""
    BY DEF UniqueBindings
  <2>1. /\ errs = {} /\ Len(seen) = Len(imports) /\ Len(bindings) = Len(imports)
        /\ Len(imports) \in Nat
        /\ DOMAIN seen = 1 .. Len(imports) /\ DOMAIN bindings = 1 .. Len(imports)
    BY CollectedInOrder DEF MCPInv, TypeOK, ValidatedSoFar
  <2>2. ASSUME NEW i \in DOMAIN bindings PROVE bindings[i].id = seen[i] /\ seen[i] # ""
    <3>1. /\ bindings[i] = Binding(imports[i].config)
          /\ seen[i] = IDOf(imports[i].config) /\ seen[i] # ""
      BY <2>1 DEF MCPInv, BuiltSoFar, ValidatedSoFar
    <3>2. imports[i].config # Absent /\ seen[i] = StringAt(imports[i].config.id)
      BY <3>1 DEF IDOf
    <3>3. seen[i] = imports[i].config.id
      BY <3>1, <3>2, ReadTwice
    <3> QED
      <4>1. Binding(imports[i].config).id = imports[i].config.id
        BY DEF Binding
      <4> QED
        BY <3>1, <3>3, <4>1
  <2>3. ASSUME NEW i \in DOMAIN bindings, NEW j \in DOMAIN bindings, i # j
        PROVE  bindings[i].id # bindings[j].id
    <3>1. i \in Nat /\ j \in Nat /\ (i < j \/ j < i) /\ i \in DOMAIN seen /\ j \in DOMAIN seen
      BY <2>1, <2>3
    <3>2. (i < j => i \in 1 .. j - 1) /\ (j < i => j \in 1 .. i - 1)
      BY <2>1
    <3>3. seen[i] # seen[j]
      BY <2>1, <3>1, <3>2 DEF MCPInv, ValidatedSoFar
    <3> QED
      BY <2>2, <3>3
  <2> QED
    BY <2>2, <2>3 DEF IsInjective
<1> QED
  BY <1>1, MCPInvariant, PTL

\* Every restriction an import states is in its binding as stated, at every step of
\* the build, whatever else the config holds.
THEOREM RestrictionsAreKept == Spec => []RestrictionsKept
<1>1. MCPInv => RestrictionsKept
  <2> SUFFICES ASSUME MCPInv, NEW i \in DOMAIN bindings
               PROVE  LET cfg == imports[i].config
                          b == bindings[i]
                      IN  /\ cfg.allow # Absent => b.allow = cfg.allow
                          /\ cfg.deny # Absent => b.deny = cfg.deny
                          /\ cfg.policies # Absent => b.policies = cfg.policies
                          /\ cfg.auth # Absent => b.auth # {}
                          /\ b.onNewTool # "block" => cfg.onNewTool = b.onNewTool
    BY DEF RestrictionsKept
  <2>1. BuildError(imports[i].config) = {} /\ bindings[i] = Binding(imports[i].config)
    BY DEF MCPInv, BuiltSoFar
  <2>2. imports[i].config # Absent
    BY <2>1 DEF BuildError
  <2> QED
    BY <2>1, <2>2, AcceptedKeepsRestrictions
<1> QED
  BY <1>1, MCPInvariant, PTL

\* After Validate, a build fails only on what Validate leaves to the factory and to
\* the registry.
THEOREM FactoryIsCovered == Spec => []ValidateCoversFactory
<1>1. MCPInv => ValidateCoversFactory
  BY DEF MCPInv
<1> QED
  BY <1>1, MCPInvariant, PTL

\* A built binding, written back as a config, validates and builds itself.
THEOREM BindingsRoundTrip == Spec => []RoundTrip
<1>1. MCPInv => RoundTrip
  <2> SUFFICES ASSUME MCPInv, NEW i \in DOMAIN bindings
               PROVE  LET b == bindings[i]
                      IN  /\ ValidateImport(Encode(b)) = {} /\ BuildError(Encode(b)) = {}
                          /\ Binding(Encode(b)) = b
    BY DEF RoundTrip, Range
  <2>1. BuildError(imports[i].config) = {} /\ bindings[i] = Binding(imports[i].config)
    BY DEF MCPInv, BuiltSoFar
  <2>2. imports[i].config # Absent
    BY <2>1 DEF BuildError
  <2>3. i \in DOMAIN imports /\ imports \in ImportLists
    <3>1. i \in 1 .. Len(bindings) /\ Len(bindings) \in Nat /\ Len(imports) \in Nat
          /\ DOMAIN imports = 1 .. Len(imports) /\ Len(bindings) <= Len(imports)
      BY CollectedInOrder DEF MCPInv, TypeOK
    <3> QED
      <4>1. i \in 1 .. Len(imports)
        BY <3>1
      <4> QED
        BY <3>1, <4>1 DEF MCPInv, TypeOK
  <2>4. LET b == Binding(imports[i].config)
        IN  {Absent, Wrong} \cap ({Encode(b), b.connection, b.trust} \cup b.auth) = {}
    BY <2>1, <2>3, MarkerAssumption, Zenon
  <2> QED
    BY <2>1, <2>2, <2>4, BindingRoundTrip
<1> QED
  BY <1>1, MCPInvariant, PTL
=============================================================================
