------------------------------ MODULE Authorization ------------------------------
(***************************************************************************)
(* Who a management caller is and what it may call: the scope and role     *)
(* tables, the policy built from the auth settings, the frozen capability  *)
(* catalogue with its REST routes, MCP tools and resources, and the        *)
(* authorization of a capability.  Nothing here has state.                 *)
(*                                                                         *)
(* A path is a sequence of segments [name, verb], "/v1" left out; "x:v" is *)
(* the segment with name "x" and verb "v".  In a route the name "*" is a   *)
(* wildcard.  A file of tokens is what ParseTokens makes of it.            *)
(***************************************************************************)
EXTENDS Integers, Sequences, FiniteSets

-----------------------------------------------------------------------------
(* Scopes and roles *)

AllScopes == {"dns.read", "dns.write", "dns.admin", "forwarders.read", "forwarders.write",
              "chaos.read", "chaos.write", "chaos.activate", "chaos.emergency", "audit.read"}

RoleTable ==
    [viewer    |-> {"dns.read", "forwarders.read", "chaos.read"},
     editor    |-> {"dns.read", "dns.write"},
     forwarder |-> {"dns.read", "forwarders.read", "forwarders.write"},
     designer  |-> {"dns.read", "chaos.read", "chaos.write"},
     operator  |-> {"dns.read", "chaos.read", "chaos.activate"},
     chaosadmin |-> {"dns.read", "chaos.read", "chaos.write", "chaos.activate", "chaos.emergency"},
     emergency |-> {"dns.read", "chaos.read", "chaos.emergency"},
     administrator |-> AllScopes]

KnownRole(r) == r \in DOMAIN RoleTable
RoleScopes(r) == IF KnownRole(r) THEN RoleTable[r] ELSE {}

Actor(id, class, role, scopes) == [id |-> id, class |-> class, role |-> role, scopes |-> scopes]
NoActor == Actor("", "", "", {})

\* Explicit scopes before the role, the role before the class.
EffectiveScopes(a) ==
    CASE a.scopes # {} -> IF a.role = "administrator" \/ "dns.admin" \in a.scopes THEN AllScopes ELSE a.scopes
      [] a.scopes = {} /\ a.role # "" -> RoleScopes(a.role)
      [] OTHER -> IF a.class \in {"loopback", "startup", "local-signal"} THEN AllScopes ELSE {}

HasScope(a, s) == EffectiveScopes(a) \cap {s, "dns.admin"} # {}

CanMutate(a) ==
    \E s \in {"dns.write", "forwarders.write", "chaos.write", "chaos.activate", "chaos.emergency", "dns.admin"} :
        HasScope(a, s)

CanEmergencyEnable(a) ==
    HasScope(a, "chaos.emergency") /\ (HasScope(a, "chaos.activate") \/ HasScope(a, "dns.admin"))

-----------------------------------------------------------------------------
(* The policy *)

Token(value, id, role, scopes) == [value |-> value, id |-> id, role |-> role, scopes |-> scopes]

\* LoadTokens and ParseTokens: a file is missing, empty, malformed, a single
\* line (an administrator) or a list of tokens.
LoadTokens(file) ==
    CASE file.kind = "missing" -> [err |-> "unauthenticated", tokens |-> <<>>]
      [] file.kind = "empty"   -> [err |-> "no-token", tokens |-> <<>>]
      [] file.kind = "broken"  -> [err |-> "invalid", tokens |-> <<>>]
      [] file.kind = "line"    -> [err |-> "", tokens |-> <<Token(file.value, "", "administrator", {})>>]
      [] file.kind = "list"    -> IF file.tokens = <<>> THEN [err |-> "invalid", tokens |-> <<>>]
                                  ELSE [err |-> "", tokens |-> file.tokens]

UsableToken(t) == t.value # "" /\ (t.role # "" /\ t.scopes = {} => KnownRole(t.role))

\* NewPolicy: an empty profile is bearer, and a bearer policy has a token.  Any
\* failure stops the process before it listens.
NewPolicy(spec) ==
    LET profile == IF spec.profile = "" THEN "bearer" ELSE spec.profile
        loaded  == IF spec.file.kind = "none" THEN [err |-> "", tokens |-> <<>>] ELSE LoadTokens(spec.file)
    IN  [ok |-> /\ profile \in {"dev-loopback-unauth", "bearer"}
                /\ loaded.err = ""
                /\ profile = "bearer" => loaded.tokens # <<>>
                /\ \A i \in DOMAIN loaded.tokens : UsableToken(loaded.tokens[i]),
         profile |-> profile, tokens |-> loaded.tokens]

\* Authenticate: the first token with this value; neither role nor scopes is
\* an administrator.
Authenticate(policy, value) ==
    LET hits == {i \in DOMAIN policy.tokens : policy.tokens[i].value = value}
        t    == policy.tokens[CHOOSE i \in hits : \A j \in hits : i <= j]
    IN  IF hits = {} THEN [ok |-> FALSE, actor |-> NoActor]
        ELSE [ok |-> TRUE,
              actor |-> Actor(IF t.id = "" THEN "bearer" ELSE t.id, "token",
                              IF t.scopes = {} /\ t.role = "" THEN "administrator" ELSE t.role, t.scopes)]

\* Identify: a bearer is always judged by its token; only the development
\* profile lets a loopback peer do without one.
Identify(policy, peer, bearer, probe) ==
    CASE probe -> [ok |-> TRUE, actor |-> Actor("probe", "startup", "administrator", {})]
      [] ~probe /\ bearer # "" -> Authenticate(policy, bearer)
      [] ~probe /\ bearer = "" /\ peer = "loopback" /\ policy.profile = "dev-loopback-unauth" ->
            [ok |-> TRUE, actor |-> Actor("loopback", "loopback", "administrator", {})]
      [] OTHER -> [ok |-> FALSE, actor |-> NoActor]

\* A tool called without Identify (stdio) is the local administrator.
LocalOrStdio(a) == IF a = NoActor THEN Actor("stdio", "loopback", "administrator", {}) ELSE a

\* CheckOrigin: no Origin, a loopback one, or a listed one.
CheckOrigin(origin, allowed) == origin \in {"", "loopback"} \cup allowed

-----------------------------------------------------------------------------
(* The capability catalogue *)

Seg(n) == [name |-> n, verb |-> ""]
SegV(n, v) == [name |-> n, verb |-> v]
Wild == Seg("*")
WildV(v) == SegV("*", v)

Get(path)  == [verb |-> "GET", path |-> path]
Post(path) == [verb |-> "POST", path |-> path]
Row(id, scopes, rest, tools, uris) ==
    [id |-> id, scopes |-> scopes, rest |-> rest, tools |-> tools, uris |-> uris]

\* Health, metadata and state.
CatalogState == <<
    Row("health.live", {}, <<Get(<<Seg("health"), Seg("live")>>)>>, <<>>, {}),
    Row("health.ready", {}, <<Get(<<Seg("health"), Seg("ready")>>)>>, <<>>, {}),
    Row("version", {"dns.read"}, <<Get(<<Seg("version")>>)>>, <<"version_get">>, {}),
    Row("capabilities", {"dns.read"}, <<Get(<<Seg("capabilities")>>)>>, <<"capabilities_get">>, {"capabilities"}),
    Row("status", {"dns.read"}, <<Get(<<Seg("status")>>)>>, <<"status_get">>, {"status"}),
    Row("schema", {"dns.read"}, <<Get(<<Seg("schema"), Seg("config")>>)>>, <<"schema_get">>, {"schema"}),
    Row("state.get", {"dns.read"}, <<Get(<<Seg("state")>>)>>, <<"state_get">>, {"state"}),
    Row("state.validate", {"dns.write"}, <<Post(<<SegV("state", "validate")>>)>>, <<"state_validate">>, {}),
    Row("change.plan", {"dns.write"}, <<Post(<<SegV("changes", "plan")>>)>>, <<"change_plan">>, {}),
    Row("change.apply", {"dns.write"}, <<Post(<<SegV("changes", "apply")>>)>>, <<"change_apply">>, {}),
    Row("state.export", {"dns.read"}, <<Get(<<SegV("state", "export")>>)>>, <<"state_export">>, {}),
    Row("state.reset", {"dns.admin"}, <<Post(<<SegV("state", "reset")>>)>>, <<"state_reset">>, {}) >>

\* Zones, resolution, forwarding and cache.
CatalogDNS == <<
    Row("zones", {"dns.read"}, <<Get(<<Seg("zones")>>), Get(<<Seg("zones"), Wild>>)>>,
        <<"zones_list", "zone_get">>, {"zones/"}),
    Row("records", {"dns.read"}, <<Get(<<Seg("zones"), Wild, Seg("records")>>),
                                   Get(<<Seg("zones"), Wild, Seg("records"), Wild>>)>>,
        <<"records_list", "record_get">>, {"records/"}),
    Row("resolve", {"dns.read"}, <<Post(<<Seg("resolve")>>)>>, <<"resolve">>, {}),
    Row("resolve.explain", {"dns.read"}, <<Post(<<SegV("resolve", "explain")>>)>>, <<"explain_resolution">>, {}),
    Row("forwarding", {"forwarders.read"}, <<Get(<<Seg("forwarding"), Seg("policies")>>)>>,
        <<"forwarding_policies_list">>, {}),
    Row("pools", {"forwarders.read"}, <<Get(<<Seg("upstream-pools")>>)>>, <<"upstream_pools_list">>, {}),
    Row("upstreams", {"forwarders.read"}, <<Get(<<Seg("upstreams"), Seg("status")>>)>>,
        <<"upstreams_status">>, {"upstreams"}),
    Row("cache.status", {"dns.read"}, <<Get(<<Seg("cache"), Seg("status")>>)>>, <<"cache_status">>, {}),
    Row("cache.flush", {"dns.admin"}, <<Post(<<SegV("cache", "flush")>>)>>, <<"cache_flush">>, {}) >>

\* Chaos, audit, documents and sessions.
CatalogChaos == <<
    Row("chaos.status", {"chaos.read"}, <<Get(<<Seg("chaos"), Seg("status")>>)>>, <<"chaos_status">>, {}),
    Row("chaos.policies", {"chaos.read"}, <<Get(<<Seg("chaos"), Seg("policies")>>),
                                            Get(<<Seg("chaos"), Seg("policies"), Wild>>)>>,
        <<"chaos_policies_list", "chaos_policy_get">>, {"chaos/policies/"}),
    Row("chaos.simulate", {"chaos.read"}, <<Post(<<SegV("chaos", "simulate")>>)>>, <<"chaos_simulate">>, {}),
    Row("chaos.activate", {"chaos.activate"},
        <<Post(<<Seg("chaos"), Seg("policies"), WildV("activate")>>),
          Post(<<Seg("chaos"), Seg("policies"), WildV("deactivate")>>)>>,
        <<"chaos_activate", "chaos_deactivate">>, {}),
    Row("chaos.expiry", {"chaos.activate"}, <<Post(<<Seg("chaos"), Seg("policies"), WildV("expire")>>)>>,
        <<"chaos_set_expiry">>, {}),
    Row("chaos.emergency", {"chaos.emergency"},
        <<Post(<<SegV("chaos", "emergency-disable")>>), Post(<<SegV("chaos", "emergency-enable")>>)>>,
        <<"chaos_emergency_disable", "chaos_emergency_enable">>, {}),
    Row("audit.list", {"audit.read"}, <<Get(<<Seg("audit")>>)>>, <<"audit_query">>, {"audit/recent"}),
    Row("audit.get", {"audit.read"}, <<Get(<<Seg("audit"), Wild>>)>>, <<"audit_get">>, {}),
    Row("docs.semantics", {"dns.read"}, <<Get(<<Seg("docs"), Seg("dns-semantics")>>)>>,
        <<"docs_get">>, {"docs/dns-semantics"}),
    Row("docs.safety", {"dns.read"}, <<Get(<<Seg("docs"), Seg("chaos-safety")>>)>>,
        <<"docs_get">>, {"docs/chaos-safety"}),
    Row("session", {}, <<Post(<<Seg("session")>>), Get(<<Seg("session")>>),
                         [verb |-> "DELETE", path |-> <<Seg("session")>>]>>, <<>>, {}),
    Row("ui", {}, <<Get(<<>>)>>, <<>>, {}) >>

Catalog == CatalogState \o CatalogDNS \o CatalogChaos
Rows == {Catalog[i] : i \in DOMAIN Catalog}

\* compileRoutes: every binding but the UI's, in catalogue order.  The n-th
\* binding of the i-th capability is the route <<i, n>>.
RouteIds ==
    UNION {{<<i, n>> : n \in DOMAIN Catalog[i].rest} : i \in {j \in DOMAIN Catalog : Catalog[j].id # "ui"}}
Routes == [k \in RouteIds |-> [row |-> Catalog[k[1]], bind |-> Catalog[k[1]].rest[k[2]]]]
Before(k, l) == k[1] < l[1] \/ (k[1] = l[1] /\ k[2] <= l[2])
NoRoute == <<0, 0>>

\* matchSegs: a wildcard takes a non-empty value and keeps its suffix.
MatchSegs(route, path) ==
    /\ Len(route) = Len(path)
    /\ \A i \in DOMAIN route :
        IF route[i].name # "*" THEN path[i] = route[i]
        ELSE IF route[i].verb = "" THEN path[i] # Seg("")
        ELSE path[i].verb = route[i].verb /\ path[i].name # ""

\* matchRoute: the first route with this path and method.
MatchRoute(verb, path) ==
    LET hits == {k \in RouteIds : MatchSegs(Routes[k].bind.path, path)}
        full == {k \in hits : Routes[k].bind.verb = verb}
    IN  CASE hits = {} -> [kind |-> "not-found", at |-> NoRoute]
          [] hits # {} /\ full = {} -> [kind |-> "method-not-allowed", at |-> NoRoute]
          [] OTHER -> [kind |-> "route", at |-> CHOOSE k \in full : \A l \in full : Before(k, l)]

\* LookupTool: the first capability with the tool; LookupResource and its
\* prefixes.  Unknown names have none.
ToolRows(tool) ==
    {i \in DOMAIN Catalog : \E n \in DOMAIN Catalog[i].tools : Catalog[i].tools[n] = tool}
ToolRow(tool) == Catalog[CHOOSE i \in ToolRows(tool) : \A j \in ToolRows(tool) : i <= j]
ResourceRows(uri) == {r \in Rows : uri \in r.uris}

-----------------------------------------------------------------------------
(* Authorization *)

\* AuthorizeCapability: plan, apply and validate are open to whoever may change
\* something; what exactly is decided with the change set.
AuthorizeCapability(a, row) ==
    IF row.id \in {"state.validate", "change.plan", "change.apply"} THEN CanMutate(a)
    ELSE \A s \in row.scopes : HasScope(a, s)

AuthorizeEmergency(a, enable) ==
    HasScope(a, "chaos.emergency") /\ (enable => CanEmergencyEnable(a))

\* serveHTTP's checks after authentication: the capability, then the direction
\* of an emergency call, read off the route.
AuthorizeRoute(a, route) ==
    /\ AuthorizeCapability(a, route.row)
    /\ route.row.id = "chaos.emergency" =>
        AuthorizeEmergency(a, route.bind.path[1].verb = "emergency-enable")

\* authorizeTool: the same, the direction read off the tool's name.
AuthorizeTool(a, tool) ==
    ToolRows(tool) # {} =>
        /\ AuthorizeCapability(a, ToolRow(tool))
        /\ ToolRow(tool).id = "chaos.emergency" => AuthorizeEmergency(a, tool = "chaos_emergency_enable")

\* authorizeResource: an unknown address is left to the lookup that follows.
AuthorizeResource(a, uri) == \A r \in ResourceRows(uri) : AuthorizeCapability(a, r)
=============================================================================
