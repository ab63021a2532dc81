-------------------------- MODULE MCConfiguration --------------------------
(* Instances of Configuration: one scenario for each part of the document. *)
EXTENDS Configuration

A(id, owner, v) == [id |-> id, owner |-> owner, type |-> "A", ttl |-> 0, values |-> <<Abs(<<v>>)>>, refs |-> {}]
Zone(id, name, records) ==
    [id |-> id, name |-> name, mode |-> "authoritative", soa |-> "ok", ns |-> <<Rel(<<"ns">>)>>, records |-> records]

Empty ==
    [header |-> "ok",
     listen |-> [dns |-> [host |-> "", port |-> 0], protocols |-> <<>>, mgmt |-> "", rest |-> "/v1", mcp |-> "/mcp"],
     access |-> [unknown |-> "refuse-forward", groups |-> <<>>],
     defaults |-> [ttl |-> 0, neg |-> 0, depth |-> 0],
     zones |-> <<>>, policies |-> <<>>, pools |-> <<>>,
     cache |-> [on |-> FALSE, max |-> 0, min |-> 0, top |-> 0, neg |-> 0],
     safety |-> [names |-> {}, groups |-> {}, maxDelay |-> 0, maxDrop |-> 0, maxConc |-> 0, maxHigh |-> 0,
                 life |-> 0, cidrs |-> <<>>, expiry |-> {}],
     chaos |-> <<>>, mgmt |-> [profile |-> "", secret |-> "", origins |-> <<>>], obs |-> [qname |-> FALSE], ui |-> [enabled |-> "omitted"]]

Bare(op, kind, id, zone) == [op |-> op, kind |-> kind, id |-> id, zone |-> zone, has |-> "none", v |-> [id |-> 0]]

(* Operations that can interact share a set; sets of unrelated ones are scenarios of their  *)
(* own.                                                                                     *)

(* Zones and records: relative and absolute owners, an alias, a protected name, a zone that *)
(* moves, a zone made under the protected name.                                             *)
Lab == Abs(<<"lab">>)
Host == Rel(<<"a">>)
Names ==
    [Empty EXCEPT !.zones = <<Zone(1, Rel(<<"lab">>), <<A(1, Host, "x"), A(2, Rel(<<"p">>), "x"), A(5, Rel(<<"b">>), "x")>>)>>,
                  !.safety.names = {Rel(<<"lab", "p">>), Rel(<<"safe">>), Rel(<<"top", "s">>)}]
Alias(id, owner, target) == [A(id, owner, "x") EXCEPT !.type = "CNAME", !.values = <<target>>]
RecordOps ==
    {Bare("remove", "record", 1, 1), Op("add", "record", 1, 1, A(1, Host, "x")),
     Op("update", "record", 5, 1, [A(0, Abs(<<"lab", "c">>), "y") EXCEPT !.ttl = 5]),
     Op("add", "record", 3, 1, Alias(3, Rel(<<"w">>), Host)),
     Op("update", "record", 1, 1, Alias(1, Host, Rel(<<"w">>))),
     Op("update", "record", 2, 1, A(2, Rel(<<"p">>), "y")),
     Op("update", "defaults", 0, 0, [ttl |-> 7, neg |-> 0, depth |-> 2])}
NameOps ==
    {Bare("remove", "record", 1, 1),
     Op("add", "record", 4, 2, A(4, Rel(<<"s">>), "y")),
     Op("add", "zone", 2, 0, [Zone(2, Abs(<<"top">>), <<>>) EXCEPT !.mode = "overlay", !.soa = "none"]),
     Op("add", "zone", 2, 0, Zone(2, Abs(<<"safe">>), <<A(4, Rel(<<>>), "y")>>)),
     Op("update", "zone", 1, 0, Zone(1, Lab, <<A(1, Host, "x")>>)),
     Op("update", "zone", 2, 0, Zone(2, Abs(<<"safe">>), <<>>))}

(* Placement: what only the zone index refuses. *)
PlacementOps ==
    {Op("add", "record", 6, 1, A(6, Abs(<<"net", "x">>), "x")),
     Op("add", "record", 7, 1, [A(7, Rel(<<>>), "x") EXCEPT !.type = "NS", !.values = <<Rel(<<"ns">>)>>]),
     Op("add", "record", 8, 1, [A(8, Rel(<<>>), "x") EXCEPT !.type = "SOA"]),
     Op("add", "record", 9, 1, [A(9, Rel(<<"*">>), "x") EXCEPT !.type = "TYPE39"]),
     Op("add", "record", 6, 1, A(6, Rel(<<"*">>), "x")),
     [Bare("update", "record", 1, 1) EXCEPT !.has = "garbled"],
     Bare("remove", "zone", 1, 0)}

(* Forwarding: pools, policies and upstreams, the listener's own address, client groups. *)
Up(id, host) == [id |-> id, host |-> host, port |-> 53, transport |-> "udp"]
UpIn(id, host, pool) == Up(id, host) @@ [pool |-> pool]
Pool(id, ups) == [id |-> id, strategy |-> "ordered", ups |-> ups]
Policy(id, suffix, pool) == [id |-> id, suffix |-> suffix, pool |-> pool, timeout |-> 1]
Group(id, allow) == [id |-> id, cidrs |-> <<"c">>, allow |-> allow]
Forwarding ==
    [Empty EXCEPT !.listen.dns = [host |-> "0.0.0.0", port |-> 53],
                  !.pools = <<Pool(1, <<Up(1, "h1"), Up(2, "h2")>>)>>,
                  !.policies = <<Policy(1, Root, 1)>>,
                  !.access.groups = <<Group(1, "omitted")>>, !.safety.groups = {1}]
PoolOps ==
    {Op("add", "pool", 2, 0, Pool(2, <<Up(3, "h3")>>)), Bare("remove", "pool", 1, 0), Bare("remove", "pool", 2, 0),
     Op("update", "pool", 1, 0, Pool(1, <<Up(2, "h2"), Up(1, "h1")>>)),
     Op("update", "pool", 1, 0, Pool(1, <<Up(1, "h9")>>)),
     Op("update", "policy", 1, 0, Policy(1, Root, 2)), Op("add", "policy", 2, 0, Policy(0, Rel(<<"lab">>), 2))}
UpstreamOps ==
    {Op("add", "upstream", 4, 0, UpIn(4, "h4", 1)), Op("update", "upstream", 1, 0, UpIn(1, "localhost", 0)),
     Op("update", "upstream", 1, 0, UpIn(1, "none", 0)), Bare("remove", "upstream", 2, 0),
     Op("add", "upstream", 2, 0, UpIn(2, "h2", 1)),
     Op("update", "pool", 1, 0, Pool(1, <<Up(2, "h2"), Up(1, "h1")>>))}
GroupOps ==
    {Bare("remove", "group", 1, 0), Op("add", "group", 2, 0, Group(2, "omitted")),
     Op("update", "access", 0, 0, [unknown |-> "refuse-forward", groups |-> <<Group(1, "no")>>])}

(* Chaos: design, activation, classes, references from records, caps. *)
NoScope == [records |-> {}, wild |-> {}, zones |-> {}, fwd |-> {}, pools |-> {}, groups |-> {}, owners |-> {},
            transports |-> {}]
Act(type) == [type |-> type, phase |-> "", dur |-> 1, min |-> 0, max |-> 0, dist |-> "", value |-> "SERVFAIL",
              values |-> <<>>, limit |-> 0]
Chaos(id, class, enabled) ==
    [id |-> id, meta |-> "ok", class |-> class, enabled |-> enabled, expires |-> TRUE, mode |-> "", prob |-> 50,
     bucket |-> 0, nth |-> 0, comp |-> "", group |-> "", budget |-> [delay |-> 0, conc |-> 0, rate |-> 0, freq |-> 0],
     scope |-> NoScope, outcomes |-> <<[id |-> 1, weight |-> 1, actions |-> <<Act("delay"), Act("drop")>>]>>]
Disturbed ==
    [Empty EXCEPT !.zones = <<Zone(1, Lab, <<[A(1, Host, "x") EXCEPT !.refs = {1}]>>)>>,
                  !.chaos = <<Chaos(1, "low", FALSE), Chaos(2, "high", TRUE), Chaos(4, "unsafe-deferred", FALSE)>>,
                  !.safety.maxHigh = 2, !.safety.maxDelay = 5]
Switch(id, on) == Op("update", "activation", id, 0, [id |-> 0, enabled |-> on, expires |-> TRUE])
ActivationOps ==
    {Switch(1, TRUE), Switch(3, TRUE), Switch(4, TRUE), Op("update", "chaos", 4, 0, Chaos(4, "high", TRUE)),
     Op("add", "chaos", 3, 0, Chaos(3, "high", FALSE)),
     Op("update", "chaos", 1, 0, Chaos(1, "high", FALSE)), Op("update", "chaos", 3, 0, Chaos(3, "high", TRUE)),
     Op("update", "chaos", 2, 0, Chaos(2, "low", TRUE)),
     Op("update", "safety", 0, 0, [Empty.safety EXCEPT !.maxHigh = 1])}
DesignOps ==
    {Switch(1, FALSE), Switch(2, FALSE),
     Op("add", "chaos", 3, 0, [Chaos(3, "low", FALSE) EXCEPT !.scope.records = {1}]),
     Op("update", "chaos", 1, 0, [Chaos(1, "low", FALSE) EXCEPT !.outcomes[1].actions = <<Act("drop"), Act("delay")>>]),
     Bare("remove", "chaos", 1, 0), Bare("remove", "chaos", 2, 0), Op("add", "chaos", 2, 0, Chaos(2, "low", TRUE)),
     Bare("remove", "record", 1, 1),
     Op("update", "safety", 0, 0, [Empty.safety EXCEPT !.names = {Abs(<<"lab", "a">>)}])}

(* The remaining sections, and the changes each must refuse. *)
SectionOps ==
    {Op("update", "ui", 0, 0, [enabled |-> "omitted"]), Op("update", "ui", 0, 0, [enabled |-> "no"]), Op("update", "obs", 0, 0, [qname |-> TRUE]),
     Op("update", "mgmt", 0, 0, [profile |-> "", secret |-> "file", origins |-> <<"o">>]),
     Op("update", "mgmt", 0, 0, [profile |-> "", secret |-> "", origins |-> <<"bad">>]),
     Bare("remove", "ui", 0, 0), Bare("rename", "ui", 0, 0), Bare("update", "nothing", 0, 0)}
ServerOps ==
    {Op("update", "cache", 0, 0, [on |-> TRUE, max |-> 1, min |-> 5, top |-> 1, neg |-> 0]),
     Op("update", "cache", 0, 0, [on |-> TRUE, max |-> 1, min |-> 1, top |-> 5, neg |-> 0]),
     Op("update", "listen", 0, 0, [Empty.listen EXCEPT !.protocols = <<"tcp">>]),
     Op("update", "listen", 0, 0, [Empty.listen EXCEPT !.protocols = <<"tcp", "tcp">>])}

\* administrator, dns-editor who also forwards, chaos-designer, a designer who may activate,
\* chaos-admin
Admin == {"admin"}
Editor == {"write", "forward"}
Designer == {"chaos"}
Operator == {"chaos", "activate"}
ChaosAdmin == {"chaos", "activate", "emergency"}

Scene(file, mount, ops, actors) == [file |-> file, mount |-> mount, ops |-> ops, actors |-> actors]
MCScenarios ==
    {Scene(Names, [Names EXCEPT !.zones[1].records = <<>>], RecordOps, {Admin, Editor}),
     Scene(Names, [Names EXCEPT !.zones[1].records = <<>>], NameOps, {Admin, Editor}),
     Scene(Names, Forwarding, PlacementOps, {Admin, Editor}),
     Scene(Forwarding, [Forwarding EXCEPT !.listen.dns.host = "h1"], PoolOps, {Admin, Editor}),
     Scene(Forwarding, Forwarding, UpstreamOps, {Admin, Editor}),
     Scene(Forwarding, Forwarding, GroupOps, {Admin, Editor}),
     Scene(Disturbed, Empty, ActivationOps, {Designer, Operator, Admin}),
     Scene(Disturbed, Empty, DesignOps, {Designer, Operator, Admin}),
     Scene(Disturbed, Disturbed, {Switch(1, TRUE), Switch(2, FALSE)}, {ChaosAdmin, Editor}),
     Scene(Empty, Disturbed, SectionOps, {Admin}),
     Scene(Empty, Disturbed, ServerOps, {Admin}),
     Scene([Disturbed EXCEPT !.chaos = <<>>], Empty, {}, {Admin})}

=============================================================================
