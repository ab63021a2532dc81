------------------------------- MODULE MCLifecycle -------------------------------
(***************************************************************************)
(* One process with its management requests: profiles and token files, a   *)
(* caller of every kind, and the requests, sessions and rates they meet.   *)
(***************************************************************************)
EXTENDS Lifecycle

NoFile == [kind |-> "none"]
Tokens == [kind |-> "list", tokens |-> <<Token("tv", "v", "viewer", {}), Token("ts", "s", "", {"dns.write"}),
                                         Token("ta", "", "", {}), Token("te", "e", "emergency", {}),
                                         Token("td", "d", "viewer", {"dns.read"})>>]
MCSpecs == [dev     |-> [profile |-> "dev-loopback-unauth", file |-> Tokens],
            bearer  |-> [profile |-> "", file |-> Tokens],
            missing |-> [profile |-> "", file |-> [kind |-> "missing"]],
            nofile  |-> [profile |-> "", file |-> NoFile],
            line    |-> [profile |-> "", file |-> [kind |-> "line", value |-> "x"]]]

Base == [spec |-> "dev", clients |-> "", origins |-> {"console"}, ui |-> TRUE, legacy |-> FALSE,
         dnsOn |-> TRUE, mgmtOn |-> TRUE, pidOn |-> TRUE, stops |-> FALSE, whole |-> FALSE,
         limit |-> 1, width |-> 1, horizon |-> 0, rate |-> -1, burst |-> 0]

Rest0(verb, path) == [NoReq EXCEPT !.peer = "loopback", !.verb = verb, !.path = path, !.cookie = "none"]
Mcp(tool) == [NoReq EXCEPT !.via = "mcp", !.peer = "remote", !.verb = "POST", !.tool = tool, !.cookie = "none"]
Session(verb) == Rest0(verb, <<Seg("session")>>)
With(req, cookie) == [req EXCEPT !.cookie = cookie, !.csrf = TRUE]
As(req, bearer) == [req EXCEPT !.bearer = bearer]
Bearers == {"tv", "ts", "ta", "te", "td", "unknown"}

\* Browser sessions of a viewer and of the loopback administrator: creation,
\* rotation, use and logout against each other and against expiry.
Uses == {With(Session("POST"), "issued"), With(Session("DELETE"), "issued")}
Sessions == {[Base EXCEPT !.clients = "browsers", !.limit = 4, !.width = 2],
             [Base EXCEPT !.clients = "browser", !.limit = 3, !.width = 2, !.horizon = 2]}

\* Callers and calls: every credential, header and body, one at a time.
Cookieless ==
    {As(Rest0("POST", <<SegV("state", "reset")>>), b) : b \in Bearers \cup {""}}
    \cup {[Rest0("POST", <<SegV("changes", "apply")>>) EXCEPT !.body = b, !.bearer = "ts"] : b \in {"none", "good", "bad"}}
    \cup {As(Rest0("POST", <<SegV("chaos", d)>>), "te") : d \in {"emergency-enable", "emergency-disable"}}
    \cup {As(Mcp(d), "te") : d \in {"chaos_emergency_enable", "chaos_emergency_disable"}}
    \cup {As(Mcp("audit_query"), b) : b \in Bearers \cup {""}}
    \cup {[Mcp("") EXCEPT !.uri = u, !.bearer = "tv"] : u \in {"audit/recent", "zones/", "nowhere"}}
    \cup {[Mcp("state_reset") EXCEPT !.via = "stdio"], Mcp("nothing")}
    \cup {[Rest0(v, <<>>) EXCEPT !.origin = o] : v \in {"GET", "OPTIONS"}, o \in {"", "console", "other"}}
    \cup {[Mcp("status_get") EXCEPT !.verb = v, !.origin = o, !.version = x, !.bearer = "tv"] :
             v \in {"POST", "OPTIONS"}, o \in {"", "other"}, x \in BOOLEAN}
Cookied == {With(Session("POST"), "stray"), [With(Session("POST"), "issued") EXCEPT !.csrf = FALSE],
            As(Session("POST"), "td"), With(Session("GET"), "issued"),
            With(Rest0("POST", <<SegV("state", "reset")>>), "issued"), With(Rest0("GET", <<Seg("state")>>), "stray")}
Calls == {[Base EXCEPT !.clients = "mixed", !.spec = s, !.limit = 2, !.legacy = l, !.ui = l] :
            s \in {"dev", "bearer"}, l \in BOOLEAN}

\* Every route of the catalogue, with identifiers that look like verbs.
Paths == LET fill(seg, v) == IF seg.name = "*" THEN [seg EXCEPT !.name = "a", !.verb = IF @ = "" THEN v ELSE @] ELSE seg
         IN  {[j \in DOMAIN Routes[i].bind.path |-> fill(Routes[i].bind.path[j], v)] :
                 i \in RouteIds, v \in {"", "activate", "reset"}} \cup {<<Seg("nowhere")>>, <<Seg("zones"), Seg("")>>}
EveryRoute == {[Base EXCEPT !.clients = "explorer"]}

\* One source against the limiter, with readings that overtake each other, and
\* more requests than slots.
Status == As([Rest0("GET", <<Seg("status")>>) EXCEPT !.peer = "remote"], "tv")
Rates == {[Base EXCEPT !.clients = "poller", !.spec = "bearer", !.limit = 5, !.width = 2, !.horizon = 2,
                       !.rate = 1, !.burst = 2],
          [Base EXCEPT !.clients = "pollers", !.spec = "bearer", !.limit = 3, !.width = 3, !.rate = 1, !.burst = 2]}

\* The whole life of a process, with probes and calls, and starts that fail.
Lives == {[Base EXCEPT !.clients = "probes", !.limit = 2, !.width = 2, !.whole = TRUE, !.stops = TRUE,
                       !.spec = s, !.pidOn = f, !.mgmtOn = m, !.dnsOn = d] :
            s \in {"dev", "missing", "nofile", "line"}, f \in BOOLEAN, m \in BOOLEAN, d \in BOOLEAN}

MCTraffic ==
    [browser  |-> Uses \cup {As(Session("POST"), "td")},
     browsers |-> Uses \cup {Session("POST"), As(Session("POST"), "td"), With(Rest0("GET", <<Seg("state")>>), "issued")},
     mixed    |-> Cookieless \cup Cookied,
     explorer |-> {[Rest0(v, pth) EXCEPT !.body = "good", !.bearer = b] :
                      v \in {"GET", "POST", "DELETE"}, pth \in Paths, b \in Bearers},
     poller   |-> {Status},
     pollers  |-> {Status, As(Mcp("status_get"), "tv")},
     probes   |-> {Rest0("GET", <<Seg("health"), Seg("ready")>>), As(Mcp("status_get"), "tv")}]
MCScenarios == Sessions \cup Calls \cup EveryRoute \cup Rates \cup Lives
=============================================================================
