------------------------------- MODULE Management -------------------------------
(***************************************************************************)
(* Requests to the management listener, from the door of REST, MCP or the  *)
(* stdio adapter to the call of a capability, and the two tables they      *)
(* share: browser sessions and the per-source token buckets.  A request    *)
(* takes one step per critical section it enters; the clock moves between. *)
(*                                                                         *)
(* scn is the deployment, fixed from the start: the names of its policy    *)
(* spec and of what its clients send, the settings of the active snapshot  *)
(* and of the limiter, and the bounds of the model: how many requests are  *)
(* sent (limit), on how many processes (width), up to which time           *)
(* (horizon).  A request's cookie is the identifier of an issued session,  *)
(* 0 for none, or Stray for one never issued.  The CSRF secret is made     *)
(* with the identifier, so it is the identifier that matters.              *)
(***************************************************************************)
EXTENDS Authorization, Functions

CONSTANTS Procs,        \* requests in flight, numbered from 1
          Scenarios,    \* deployments to choose from
          Specs,        \* policy specs, by name
          Traffic,      \* what clients send, by name
          MaxSessions,  \* SessionTable.max
          TTL,          \* SessionTable.ttl
          Slots         \* MaxConcurrent of each adapter

VARIABLES scn, clock,
          sessions,     \* SessionTable.byID: identifier -> [actor, expires, line]
          issued,       \* identifiers handed out
          born,         \* who made the session of each identifier: [actor, line]; a
                        \* login keeps its number (line) through rotations
          buckets,      \* Limiter.buckets: [via, peer] -> [tokens, last]
          procs,        \* requests in flight
          sent,         \* requests so far
          accepting,    \* the listener serves
          mcpOpen       \* mcp.Server is not closed

tables == <<sessions, issued, born, buckets>>
mgmtVars == <<scn, clock, sessions, issued, born, buckets, procs, sent, accepting, mcpOpen>>

Stray == -1
Policies == [name \in DOMAIN Specs |-> NewPolicy(Specs[name])]
policy == Policies[scn.spec]

NoReq == [via |-> "rest", peer |-> "", origin |-> "", bearer |-> "", cookie |-> 0, csrf |-> FALSE,
          verb |-> "", path |-> <<>>, tool |-> "", uri |-> "", version |-> TRUE, body |-> "none",
          match |-> [kind |-> "", at |-> NoRoute]]
Idle == [pc |-> "idle", req |-> NoReq, at |-> 0, slot |-> FALSE, actor |-> NoActor, sid |-> 0, out |-> ""]

Route(req) == Routes[req.match.at]
Cap(req) == Route(req).row.id
IsHealthCap(id) == id \in {"health.live", "health.ready"}

\* Requests are records, and a file of tokens is a list of them.
ASSUME TrafficAssumption == \A s \in Scenarios : \A t \in Traffic[s.clients] : DOMAIN t = DOMAIN NoReq
ASSUME SpecsAssumption ==
    \A s \in Scenarios :
        /\ s.spec \in DOMAIN Specs
        /\ Specs[s.spec].file.kind \in {"none", "missing", "empty", "broken", "line", "list"}
        /\ Specs[s.spec].file.kind = "list" => DOMAIN Specs[s.spec].file.tokens \subseteq Nat

Answer(p, out) == procs' = [procs EXCEPT ![p] = [@ EXCEPT !.pc = "out", !.out = out]]
GoOn(p, pc) == procs' = [procs EXCEPT ![p] = [@ EXCEPT !.pc = pc]]
\* Who is identified, and by which live session (0: none).
Enter(p, a, sid) == procs' = [procs EXCEPT ![p] = [@ EXCEPT !.pc = "run", !.actor = a, !.sid = sid]]

-----------------------------------------------------------------------------
(* The session table *)

Live(id) == id \in DOMAIN sessions /\ sessions[id].expires > clock

\* Lookup: an expired row is dropped, a live one slides.
LookupSessions(id) ==
    IF Live(id) THEN [sessions EXCEPT ![id].expires = clock + TTL]
    ELSE Restrict(sessions, DOMAIN sessions \ {id})

SessionActor(a) == [a EXCEPT !.class = "ui-session"]

WithSession(table, actor, line) ==
    [id \in DOMAIN table \cup {issued + 1} |->
        IF id = issued + 1 THEN [actor |-> SessionActor(actor), expires |-> clock + TTL, line |-> line]
        ELSE table[id]]

\* Create: expired rows are swept first, and a full table refuses.
Create(p) ==
    LET kept == Restrict(sessions, {id \in DOMAIN sessions : sessions[id].expires > clock})
        full == Cardinality(DOMAIN kept) >= MaxSessions
    IN  /\ sessions' = IF full THEN kept ELSE WithSession(kept, procs[p].actor, Len(born) + 1)
        /\ issued' = IF full THEN issued ELSE issued + 1
        /\ born' = IF full THEN born ELSE Append(born, [actor |-> procs[p].actor, line |-> Len(born) + 1])
        /\ Answer(p, IF full THEN "rate-limited" ELSE "ok")

RotateKeepingOld(p) ==
    LET id == procs[p].req.cookie
    IN  /\ procs[p].pc = "rotate"
        /\ IF Live(id) THEN /\ sessions' = WithSession(sessions, sessions[id].actor, sessions[id].line)
                            /\ issued' = issued + 1 /\ born' = Append(born, born[id])
                            /\ Answer(p, "ok")
           ELSE Answer(p, "unauthenticated") /\ UNCHANGED <<sessions, issued, born>>
        /\ UNCHANGED <<scn, clock, buckets, sent, accepting, mcpOpen>>

\* Rotate: the old identifier goes either way; the table may have changed
\* since the handler looked the session up.
Rotate(p) ==
    LET id   == procs[p].req.cookie
        rest == Restrict(sessions, DOMAIN sessions \ {id})
    IN  /\ procs[p].pc = "rotate"
        /\ IF Live(id) THEN /\ sessions' = WithSession(rest, sessions[id].actor, sessions[id].line)
                            /\ issued' = issued + 1 /\ born' = Append(born, born[id])
                            /\ Answer(p, "ok")
           ELSE Answer(p, "unauthenticated") /\ sessions' = rest /\ UNCHANGED <<issued, born>>
        /\ UNCHANGED <<scn, clock, buckets, sent, accepting, mcpOpen>>

\* Delete, after the handler has found the session.
Delete(p) ==
    /\ procs[p].pc = "delete"
    /\ sessions' = Restrict(sessions, DOMAIN sessions \ {procs[p].req.cookie})
    /\ Answer(p, "gone")
    /\ UNCHANGED <<scn, clock, issued, born, buckets, sent, accepting, mcpOpen>>

-----------------------------------------------------------------------------
(* The door *)

SlotFree(via) == Cardinality({q \in Procs : procs[q].slot /\ procs[q].req.via = via}) < Slots

\* What serveHTTP answers before it takes a slot, "" when it goes on.
RestDoor(req) ==
    CASE ~CheckOrigin(req.origin, scn.origins) -> "forbidden"
      [] CheckOrigin(req.origin, scn.origins) /\ req.verb = "OPTIONS" -> "forbidden"
      [] CheckOrigin(req.origin, scn.origins) /\ req.verb \in {"GET", "HEAD"} /\ req.path = <<>> ->
            IF scn.ui THEN "page" ELSE "not-found"
      [] OTHER -> IF req.match.kind # "route" THEN req.match.kind
                  ELSE IF SlotFree("rest") THEN "" ELSE "rate-limited"

McpDoor(req) ==
    CASE ~mcpOpen -> "closed"
      [] mcpOpen /\ ~CheckOrigin(req.origin, scn.origins) -> "forbidden"
      [] mcpOpen /\ CheckOrigin(req.origin, scn.origins) /\ req.verb = "OPTIONS" -> "method-not-allowed"
      [] OTHER -> IF SlotFree("mcp") THEN "" ELSE "rate-limited"

Door(req) == CASE req.via = "rest" -> RestDoor(req) [] req.via = "mcp" -> McpDoor(req) [] OTHER -> ""

Cookies(t) == CASE t.cookie = "issued" -> 1 .. issued [] t.cookie = "stray" -> {Stray} [] OTHER -> {0}

\* A request reads the clock for the limiter, which probes skip and a negative
\* rate turns off; the stdio adapter has neither door nor limiter.
Received(t, c) ==
    [t EXCEPT !.cookie = c, !.match = IF t.via = "rest" THEN MatchRoute(t.verb, t.path) ELSE t.match]
Unlimited(req) == scn.rate < 0 \/ (req.via = "rest" /\ IsHealthCap(Cap(req)))
Admitted(req, door) ==
    [Idle EXCEPT !.req = req, !.at = clock, !.out = door, !.slot = (door = "" /\ req.via # "stdio"),
                 !.pc = IF door # "" THEN "out" ELSE IF req.via = "stdio" THEN "run"
                        ELSE IF Unlimited(req) THEN "authn" ELSE "rate"]

Arrive(p) ==
    /\ procs[p].pc = "idle" /\ p <= scn.width /\ sent < scn.limit
    /\ sent' = sent + 1
    /\ \E t \in Traffic[scn.clients] : \E c \in Cookies(t) :
        \E req \in {Received(t, c)} : \E door \in {Door(req)} :
            /\ t.via # "stdio" => accepting
            /\ procs' = [procs EXCEPT ![p] = Admitted(req, door)]
    /\ UNCHANGED <<scn, clock, tables, accepting, mcpOpen>>

\* Limiter.Allow's refill with a clock reading that may be older than the
\* bucket's last one, which then stays.
Refill(b, at) ==
    IF at > b.last THEN [tokens |-> IF b.tokens + (at - b.last) * scn.rate > scn.burst THEN scn.burst
                                    ELSE b.tokens + (at - b.last) * scn.rate,
                         last   |-> at]
    ELSE b

\* The bucket of the adapter and the peer, under the limiter's lock.
Allow(p) ==
    LET key == [via |-> procs[p].req.via, peer |-> procs[p].req.peer]
        old == IF key \in DOMAIN buckets THEN buckets[key] ELSE [tokens |-> scn.burst, last |-> procs[p].at]
        b   == Refill(old, procs[p].at)
        put(v) == [k \in DOMAIN buckets \cup {key} |-> IF k = key THEN v ELSE buckets[k]]
    IN  /\ procs[p].pc = "rate"
        /\ IF b.tokens < 1
           THEN buckets' = put(b) /\ Answer(p, "rate-limited")
           ELSE buckets' = put([b EXCEPT !.tokens = @ - 1]) /\ GoOn(p, "authn")
        /\ UNCHANGED <<scn, clock, sessions, issued, born, sent, accepting, mcpOpen>>

-----------------------------------------------------------------------------
(* Authentication *)

\* The cookie is ignored.
AuthenticateRestAnew(req) ==
    LET id == Identify(policy, req.peer, req.bearer, IsHealthCap(Cap(req)))
    IN  [ok |-> id.ok, why |-> IF id.ok THEN "" ELSE "unauthenticated", actor |-> id.actor]

\* authenticate: a bearer wins; a live cookie is the session's actor, with its
\* CSRF secret unless the request only reads; a dead one never identifies the
\* peer on the way to a new session.  The lookup slides the session.
AuthenticateRest(req) ==
    LET probe == IsHealthCap(Cap(req))
        named == [ok |-> TRUE, why |-> "", actor |-> NoActor]
        by(id) == [ok |-> id.ok, why |-> IF id.ok THEN "" ELSE "unauthenticated", actor |-> id.actor]
    IN  CASE probe \/ req.bearer # "" -> by(Identify(policy, req.peer, req.bearer, probe))
          [] ~probe /\ req.bearer = "" /\ req.cookie # 0 /\ Live(req.cookie) ->
                IF req.verb \in {"GET", "HEAD"} \/ req.csrf
                THEN [named EXCEPT !.actor = sessions[req.cookie].actor]
                ELSE [named EXCEPT !.ok = FALSE, !.why = "forbidden"]
          [] ~probe /\ req.bearer = "" /\ req.cookie # 0 /\ ~Live(req.cookie)
             /\ Cap(req) = "session" /\ req.verb = "POST" ->
                [named EXCEPT !.ok = FALSE, !.why = "unauthenticated"]
          [] OTHER -> by(Identify(policy, req.peer, "", FALSE))

LooksUp(req) == req.bearer = "" /\ req.cookie # 0 /\ ~IsHealthCap(Cap(req))

\* The identifier of the session that authenticate found.
FoundSession(req) == IF LooksUp(req) /\ Live(req.cookie) THEN req.cookie ELSE 0

AuthnRest(p) ==
    LET req == procs[p].req
        who == AuthenticateRest(req)
    IN  /\ procs[p].pc = "authn" /\ req.via = "rest"
        /\ sessions' = IF LooksUp(req) THEN LookupSessions(req.cookie) ELSE sessions
        /\ IF ~who.ok THEN Answer(p, who.why)
           ELSE IF ~AuthorizeRoute(who.actor, Route(req)) THEN Answer(p, "forbidden")
           ELSE Enter(p, who.actor, FoundSession(req))
        /\ UNCHANGED <<scn, clock, issued, born, buckets, sent, accepting, mcpOpen>>

\* The MCP adapter pins the protocol version and knows no cookies.
AuthnMcp(p) ==
    LET req == procs[p].req
        who == Identify(policy, req.peer, req.bearer, FALSE)
    IN  /\ procs[p].pc = "authn" /\ req.via = "mcp"
        /\ IF ~scn.legacy /\ ~req.version THEN Answer(p, "unsupported-version")
           ELSE IF ~who.ok THEN Answer(p, "unauthenticated")
           ELSE Enter(p, who.actor, 0)
        /\ UNCHANGED <<scn, clock, tables, sent, accepting, mcpOpen>>

-----------------------------------------------------------------------------
(* The handlers *)

\* decodeJSON and decodeJSONOptional: which handlers read a body, and which do
\* without one.
NeedsBody == {"resolve", "resolve.explain", "state.validate", "chaos.simulate", "change.plan", "change.apply"}
TakesBody == {"state.reset", "cache.flush", "chaos.expiry", "chaos.emergency", "chaos.activate"}
BodyDecodes(req) ==
    /\ Cap(req) \in NeedsBody => req.body = "good"
    /\ Cap(req) \in TakesBody => req.body \in {"none", "good"}

\* handleSessionCreate: a bearer or no cookie makes a session; a cookie is
\* looked up again and rotated in a second critical section.
HandleSessionCreate(p) ==
    LET req == procs[p].req
    IN  IF req.bearer # "" \/ req.cookie = 0 THEN Create(p)
        ELSE /\ sessions' = LookupSessions(req.cookie)
             /\ IF Live(req.cookie) THEN GoOn(p, "rotate") ELSE Answer(p, "unauthenticated")
             /\ UNCHANGED <<issued, born>>

\* handleSessionGet and handleSessionDelete through liveSession.
HandleSessionOther(p) ==
    LET req == procs[p].req
    IN  /\ sessions' = LookupSessions(req.cookie)
        /\ IF ~Live(req.cookie) THEN Answer(p, "unauthenticated")
           ELSE IF req.verb = "GET" THEN Answer(p, "ok")
           ELSE GoOn(p, "delete")
        /\ UNCHANGED <<issued, born>>

\* dispatch: the request's context may be done by now.
RunRest(p) ==
    LET req == procs[p].req
    IN  /\ procs[p].pc = "run" /\ req.via = "rest"
        /\ \/ Answer(p, "canceled") /\ UNCHANGED <<sessions, issued, born>>
           \/ /\ Cap(req) # "session"
              /\ Answer(p, IF BodyDecodes(req) THEN "ok" ELSE "invalid")
              /\ UNCHANGED <<sessions, issued, born>>
           \/ Cap(req) = "session" /\ req.verb = "POST" /\ HandleSessionCreate(p)
           \/ Cap(req) = "session" /\ req.verb # "POST" /\ HandleSessionOther(p)
        /\ UNCHANGED <<scn, clock, buckets, sent, accepting, mcpOpen>>

\* A tool call or a resource read, over HTTP or stdio.
RunMcp(p) ==
    LET req == procs[p].req
        a   == LocalOrStdio(procs[p].actor)
        ok  == IF req.uri = "" THEN AuthorizeTool(a, req.tool) ELSE AuthorizeResource(a, req.uri)
        known == IF req.uri = "" THEN ToolRows(req.tool) # {} ELSE ResourceRows(req.uri) # {}
    IN  /\ procs[p].pc = "run" /\ req.via # "rest"
        /\ \E out \in {"canceled", IF ~ok THEN "forbidden" ELSE IF known THEN "ok" ELSE "not-found"} :
            procs' = [procs EXCEPT ![p] = [@ EXCEPT !.pc = "out", !.out = out, !.actor = a]]
        /\ UNCHANGED <<scn, clock, tables, sent, accepting, mcpOpen>>

\* The answer is written and the slot released.
Finish(p) ==
    /\ procs[p].pc = "out"
    /\ procs' = [procs EXCEPT ![p] = Idle]
    /\ UNCHANGED <<scn, clock, tables, sent, accepting, mcpOpen>>

Tick ==
    /\ clock < scn.horizon
    /\ clock' = clock + 1
    /\ UNCHANGED <<scn, tables, procs, sent, accepting, mcpOpen>>

Work(p) == Allow(p) \/ AuthnRest(p) \/ AuthnMcp(p) \/ RunRest(p) \/ RunMcp(p) \/ Rotate(p) \/ Delete(p) \/ Finish(p)

MgmtInit ==
    /\ scn \in Scenarios
    /\ clock = 0 /\ sent = 0 /\ issued = 0
    /\ sessions = <<>> /\ born = <<>> /\ buckets = <<>>
    /\ procs = [p \in Procs |-> Idle]

-----------------------------------------------------------------------------
(* Properties *)

\* A login has one session at a time: two rotations of the same cookie, or a
\* rotation racing anything else, never leave two identifiers that both work
\* (SessionTable.Rotate, called after a separate Lookup).
LineageUnique ==
    \A a, b \in DOMAIN sessions : sessions[a].line = sessions[b].line => a = b

CalledRow(req) ==
    IF req.via = "rest" THEN Route(req).row
    ELSE IF req.uri = "" THEN ToolRow(req.tool)
    ELSE CHOOSE r \in Rows : req.uri \in r.uris

\* The call takes the emergency stop back.
Enabling(req) ==
    IF req.via = "rest" THEN req.path = <<SegV("chaos", "emergency-enable")>>
    ELSE req.tool = "chaos_emergency_enable"

\* The scopes the catalogue documents for a call.
ScopesAllow(req, a) ==
    LET row == CalledRow(req)
        have == EffectiveScopes(a)
    IN  /\ IF row.id \in {"state.validate", "change.plan", "change.apply"}
           THEN have \ {"dns.read", "forwarders.read", "chaos.read", "audit.read"} # {}
           ELSE row.scopes \subseteq have
        /\ row.id = "chaos.emergency" /\ Enabling(req) => {"chaos.emergency", "chaos.activate"} \subseteq have

\* What a token is worth at most.
TokenScopes(t) ==
    CASE t.role = "administrator" \/ "dns.admin" \in t.scopes \/ (t.role = "" /\ t.scopes = {}) -> AllScopes
      [] OTHER -> IF t.scopes # {} THEN t.scopes ELSE RoleScopes(t.role)

TokenID(t) == IF t.id = "" THEN "bearer" ELSE t.id

\* Who the caller may be, given what it presented: what its token says, the maker of the very
\* session whose cookie it sent and which was alive, or the loopback administrator, who neither
\* stands in for a live session nor turns a dead cookie into a new one.
CredentialAllows(pol, made, sid, req, a) ==
    \/ req.via = "stdio"
    \/ req.via = "rest" /\ IsHealthCap(Cap(req))
    \/ \E i \in DOMAIN pol.tokens :
        /\ pol.tokens[i].value = req.bearer /\ a.id = TokenID(pol.tokens[i])
        /\ EffectiveScopes(a) \subseteq TokenScopes(pol.tokens[i])
    \/ /\ req.via = "rest" /\ req.bearer = "" /\ sid = req.cookie /\ sid \in DOMAIN made
       /\ a.class = "ui-session" /\ a.id = made[sid].actor.id
       /\ EffectiveScopes(a) = EffectiveScopes(made[sid].actor)
    \/ /\ req.bearer = "" /\ req.peer = "loopback" /\ pol.profile = "dev-loopback-unauth" /\ a.id = "loopback"
       /\ sid = 0
       /\ ~(req.via = "rest" /\ req.cookie # 0 /\ Cap(req) = "session" /\ req.verb = "POST")

Passed(pol, made, r) == ScopesAllow(r.req, r.actor) /\ CredentialAllows(pol, made, r.sid, r.req, r.actor)

\* The call's handler runs or has run: over REST it is authorized on the way in.
Runs(r) ==
    \/ r.req.via = "rest" /\ r.pc \in {"run", "rotate", "delete"}
    \/ r.pc = "out" /\ r.out \in {"ok", "gone"}

\* Every capability call that runs was made by a caller whose credential
\* entitles it to that identity and whose scopes cover the call, over REST, MCP
\* and stdio alike (serveHTTP, addTool, readResource); through any rotations a
\* cookie stands for who logged in with it, never for the loopback peer.
CallsEarned == \A p \in Procs : Runs(procs[p]) => Passed(policy, born, procs[p])

-----------------------------------------------------------------------------
(* The invariant the proofs use *)

\* An actor with a role or scopes of its own: its class decides nothing, so a
\* session keeps what its maker could do.
Ranked(a) ==
    /\ a = Actor(a.id, a.class, a.role, a.scopes)
    /\ a.scopes # {} \/ a.role # ""

\* A session is the one its identifier was handed out for.
RowOK(id, row, made) ==
    /\ DOMAIN row = {"actor", "expires", "line"}
    /\ row.line = made[id].line
    /\ row.actor = SessionActor(made[id].actor)

Made(made) ==
    /\ Len(made) \in Nat /\ made = [n \in 1 .. Len(made) |-> made[n]]
    /\ \A n \in 1 .. Len(made) : Ranked(made[n].actor) /\ made[n].line \in 1 .. Len(made)

\* Identifiers are fresh.
TableOK(table, last, made) ==
    /\ last = Len(made) /\ DOMAIN table \subseteq 1 .. last
    /\ Made(made)
    /\ \A id \in DOMAIN table : RowOK(id, table[id], made)
    /\ \A a, b \in DOMAIN table : table[a].line = table[b].line => a = b

\* What is known of a request at each step of its way.
VettedAt(pol, made, r) ==
    /\ DOMAIN r = DOMAIN Idle
    /\ r.req.via = "rest" /\ r.pc \in {"rate", "authn"} =>
        r.req.match.at \in RouteIds /\ MatchSegs(Route(r.req).bind.path, r.req.path)
    /\ r.req.via = "mcp" /\ r.pc = "run" => Ranked(r.actor) /\ CredentialAllows(pol, made, r.sid, r.req, r.actor)
    /\ r.req.via = "rest" /\ r.pc \in {"run", "rotate", "delete"} => Ranked(r.actor) /\ Passed(pol, made, r)
    /\ r.pc = "run" => r.req.via \in {"rest", "mcp", "stdio"}
    /\ r.pc \in {"rotate", "delete"} => r.req.via = "rest"
    /\ r.pc = "out" /\ r.out \in {"ok", "gone"} => Passed(pol, made, r)

Vetted ==
    /\ scn \in Scenarios
    /\ TableOK(sessions, issued, born)
    /\ DOMAIN procs = Procs
    /\ \A p \in Procs : VettedAt(policy, born, procs[p])
=================================================================================
