--------------------------- MODULE MCChaosDecide ----------------------------
(* Scenarios for ChaosDecide: each one lets a few policies meet. *)
EXTENDS ChaosDecide

Act == [type |-> "", phase |-> "", dist |-> "", dur |-> 0, min |-> 0, max |-> 0, value |-> "",
        ede |-> 0, ttl |-> 0, values |-> <<>>, limit |-> 0, up |-> "", hold |-> 0]
A(t) == [Act EXCEPT !.type = t]
V(t, v) == [Act EXCEPT !.type = t, !.value = v]
Pre(a) == [a EXCEPT !.phase = "before-resolution"]

AnyQuery == [recs |-> {}, wilds |-> {}, owners |-> {}, zones |-> {}, fwds |-> {}, pools |-> {},
        groups |-> {}, qtypes |-> {}, transports |-> {}]
Out(id, acts) == [id |-> id, weight |-> 1, acts |-> acts]
Pol(id, acts) ==
    [id |-> id, enabled |-> TRUE, high |-> FALSE, starts |-> None, expires |-> None, scope |-> AnyQuery,
     mode |-> "deterministic", sampling |-> "", prob |-> 6, bucket |-> 0, nth |-> 0, period |-> 0, unhealthy |-> 0,
     offset |-> 0, comp |-> "compose", group |-> "", maxDelay |-> 0, outs |-> <<Out("o1", acts)>>]
Zone(p) == [p EXCEPT !.scope.zones = {"z"}]
Rec(p) == [p EXCEPT !.scope.recs = {"r1"}]

Www == <<"lab", "www">>
RR(d, t, r) == [data |-> d, type |-> t, ttl |-> 3, rec |-> r]
Base2 == [rcode |-> "NOERROR", answers |-> <<RR("a1", "A", "r1"), RR("a2", "A", "r1"), RR("a3", "A", "r1")>>,
          wild |-> "", ede |-> 0]
Base0 == [rcode |-> "NOERROR", answers |-> <<RR("a4", "A", ""), RR("a1", "A", "")>>, wild |-> "", ede |-> 0]
Plain ==
    [policies |-> <<>>, until |-> 0, refs |-> <<>>, dropCap |-> 0, maxHigh |-> 0, emergency |-> FALSE, enabled |-> TRUE,
     respect |-> TRUE, lifetime |-> 0, maxDelay |-> 0, exempt |-> {},
     protected |-> [names |-> {}, groups |-> {}],
     q |-> [name |-> Www, type |-> "A", transport |-> "udp"], client |-> "g", forwards |-> {"g"},
     ask |-> [group |-> "", addr |-> TRUE], fwd |-> "", pool |-> "", onward |-> "",
     zone |-> [id |-> "z", exact |-> "r1", wild |-> "", hasName |-> TRUE],
     local |-> [fall |-> FALSE, res |-> Base2], up |-> Base0, addresses |-> {"a1", "a2", "a3", "a4"}]
With(ps) == [Plain EXCEPT !.policies = ps]

Group(p) == [p EXCEPT !.comp = "exclusive-group", !.group = "g1"]
Rand(p) == [p EXCEPT !.mode = "random"]
Two(p, a, b) == [p EXCEPT !.outs = <<Out("o1", a), [Out("o2", b) EXCEPT !.weight = 2]>>]

\* Drop-capable policies over the cap: one phase each, both phases, one policy only.
Dropping == Pol("d1", <<A("drop")>>)
Capped ==
    {[With(<<Dropping, [Pol("d2", <<Pre(A("drop")), A("drop")>>) EXCEPT !.prob = 4],
             [Pol("d3", <<V("pressure", "drop")>>) EXCEPT !.prob = 6]>>) EXCEPT !.dropCap = c] : c \in {0, 3, 5, 12}}
    \cup {[With(<<Dropping, Pol("ttl", <<V("ttl", "zero")>>)>>) EXCEPT !.dropCap = 4]}

\* Transport actions of two phases and two scope classes, with and without a reference.
Hints ==
    {[With(<<[Pol("p1", <<Pre(A(s))>>) EXCEPT !.scope = sc1], [Pol("p2", <<A(t)>>) EXCEPT !.scope = sc2]>>)
        EXCEPT !.refs = rf, !.q.transport = tr] :
        s \in {"drop", "truncate"}, t \in {"tcp-close", "truncate"},
        sc1 \in {AnyQuery, [AnyQuery EXCEPT !.owners = {Www}]}, sc2 \in {AnyQuery, [AnyQuery EXCEPT !.zones = {"z"}]},
        rf \in {<<>>, [r \in {"r1"} |-> <<"p1">>]}, tr \in {"udp", "tcp"}}

\* Exclusive groups, terminal policies and conflicts within a phase.
Composed ==
    {With(<<Group(Pol("p1", <<Pre(A("delay")), A("rotate")>>)), Zone(Group(Pol("p2", <<V("rcode", "SERVFAIL")>>)))>>),
     With(<<Group(Pol("p1", <<Pre(A("delay")), A("rotate")>>)), Zone(Group(Pol("p2", <<V("rcode", "SERVFAIL")>>))),
            Rand(Pol("p3", <<V("cache", "bypass"), V("ttl", "zero")>>))>>),
     With(<<Zone(Two(Pol("p1", <<>>), <<A("truncate"), A("shuffle")>>, <<A("drop")>>)),
            Pol("p2", <<A("truncate")>>), Pol("p3", <<A("drop"), A("tcp-reset")>>)>>),
     With(<<Rec([Pol("p1", <<V("rcode", "NODATA")>>) EXCEPT !.comp = "terminal"]),
            Pol("p2", <<[A("tcp-close") EXCEPT !.hold = 2]>>)>>),
     With(<<Rand(Two(Pol("p1", <<>>), <<Pre(V("rcode", "REFUSED")), A("shuffle")>>, <<V("upstream", "timeout"), A("rotate")>>))>>)}

\* Windows, flaps, buckets, skipped queries, and activation in a simulation.
Timed ==
    {[With(<<[Pol("p1", <<A("rotate")>>) EXCEPT !.starts = 1, !.nth = 2],
             [Pol("p2", <<A("shuffle")>>) EXCEPT !.period = 3, !.unhealthy = 1, !.offset = 2, !.prob = 12],
             [Pol("p3", <<A("drop")>>) EXCEPT !.expires = 1, !.enabled = en]>>)
        EXCEPT !.lifetime = 1, !.respect = rs, !.until = 2] : en \in BOOLEAN, rs \in BOOLEAN}
    \cup {[With(<<[Pol("p1", <<Pre(A("delay")), A("truncate")>>) EXCEPT !.bucket = b, !.nth = n]>>) EXCEPT !.until = 2] :
          b \in {0, 1, 2}, n \in {0, 2}}

\* What the response phase does to answers, and delays against the caps.
Uni == [A("delay") EXCEPT !.dist = "uniform", !.min = 1, !.max = 7]
Jit == [V("ttl", "jitter") EXCEPT !.min = 9, !.max = 1]
Edited ==
    {[With(<<[Pol("p1", acts) EXCEPT !.prob = 12, !.maxDelay = d, !.mode = m]>>) EXCEPT !.maxDelay = 3] :
        acts \in {<<Uni, [A("alternate") EXCEPT !.values = <<"a4", "cn", "cn">>]>>,
                  <<Jit, [A("rotate") EXCEPT !.limit = -1]>>, <<A("shuffle"), [A("rotate") EXCEPT !.limit = 2], A("ttl")>>,
                  <<[A("omit") EXCEPT !.values = <<"a1">>], [A("limit") EXCEPT !.limit = 1],
                    [A("ttl") EXCEPT !.max = 2]>>,
                  <<[V("upstream", "delay") EXCEPT !.dist = "uniform", !.max = 6], [V("rcode", "SERVFAIL") EXCEPT !.ede = 1]>>},
        d \in {0, 5}, m \in {"deterministic", "random"}}

\* Protection, classification by the other scopes, and documents Compile refuses.
Loud == Pol("p1", <<V("rcode", "SERVFAIL"), A("drop")>>)
Guarded ==
    {[With(<<[Loud EXCEPT !.prob = 12]>>) EXCEPT !.protected.names = ns, !.protected.groups = gs, !.exempt = ex,
                                                 !.emergency = em, !.enabled = on] :
        ns \in {{}, {<<"lab">>}, {Www}, {<<"lab", "mail">>}}, gs \in {{}, {"g"}}, ex \in {{}, {"g"}},
        em \in BOOLEAN, on \in BOOLEAN}
    \cup {With(<<Dropping, Dropping>>), [With(<<Dropping>>) EXCEPT !.refs = [r \in {"r1"} |-> <<"px">>]],
          [With(<<[Dropping EXCEPT !.high = TRUE], [Pol("d2", <<>>) EXCEPT !.high = TRUE]>>) EXCEPT !.maxHigh = 1]}
    \cup {[With(<<[Pol("p1", <<Pre(A("delay")), A("rotate")>>) EXCEPT !.scope.wilds = {"w"}]>>) EXCEPT
             !.zone = [@ EXCEPT !.exact = "", !.wild = "w", !.hasName = FALSE], !.local.res.wild = "w"]}
    \cup {With(<<Pol("p1", <<[A("drop") EXCEPT !.phase = "transport"], A("rotate")>>)>>)}

\* Where an answer comes from and whom a request speaks of: no zone, an overlay that falls
\* through, with or without an alias, groups that may not forward, policies on each input.
Fall(answers) == [fall |-> TRUE, res |-> [Base2 EXCEPT !.answers = answers]]
Inputs ==
    {[With(<<[Pol("p1", <<Pre(A("delay")), A("rotate")>>) EXCEPT !.scope = s, !.sampling = sm],
             [Pol("p2", <<A("shuffle"), Pre(V("rcode", "SERVFAIL"))>>) EXCEPT !.prob = pr]>>) EXCEPT
        !.fwd = "f", !.pool = "up", !.onward = on, !.forwards = fs, !.ask = ask, !.local = src.local,
        !.zone = [id |-> src.zone, exact |-> "", wild |-> "", hasName |-> FALSE]] :
        s \in {[AnyQuery EXCEPT !.fwds = {"f"}], [AnyQuery EXCEPT !.pools = {"up"}], [AnyQuery EXCEPT !.groups = {"g"}],
               [AnyQuery EXCEPT !.recs = {"r1"}], [AnyQuery EXCEPT !.wilds = {"w"}], [AnyQuery EXCEPT !.transports = {"tcp"}]},
        sm \in {"", "client"}, pr \in {0, 6}, on \in {"", "f"}, fs \in {{}, {"g"}},
        ask \in {[group |-> "", addr |-> TRUE], [group |-> "g", addr |-> FALSE], [group |-> "h", addr |-> TRUE],
                 [group |-> "", addr |-> FALSE]},
        src \in {[zone |-> "", local |-> Fall(<<>>)], [zone |-> "z", local |-> Fall(<<>>)],
                 [zone |-> "z", local |-> Fall(<<RR("cn", "CNAME", "r1")>>)],
                 [zone |-> "z", local |-> [Fall(<<RR("cn", "CNAME", "")>>) EXCEPT !.res.wild = "w"]], [zone |-> "z", local |-> Plain.local]}}

MCScenarios == Capped \cup Hints \cup Composed \cup Timed \cup Edited \cup Guarded \cup Inputs
=============================================================================
