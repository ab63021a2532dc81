---------------------------- MODULE MCForwarder -----------------------------
(* Scenarios of Forwarder for TLC.                                         *)
EXTENDS Forwarder, TLC

CONSTANTS r1, r2, r3

Up(id, ep) == [id |-> id, ep |-> ep, transport |-> IF id = "a" THEN "udp" ELSE "tcp"]
Pool(s, ups) == [strategy |-> s, ups |-> ups]
FoAll(b, retry) ==
    [timeout |-> b, transport |-> b, servfail |-> b, refused |-> b, retryTCP |-> retry]
Plan(runs, fo, o, replies, ends) ==
    [r \in Requests |-> [runs |-> r \in runs, fo |-> fo, opts |-> o, replies |-> replies,
                         ends |-> ends]]
Ends == {"cancelled", "expired"}

\* Three requests across an activation that keeps the pool round-robin.
Rotation ==
    [topo |-> <<Pool("roundrobin", <<Up("a", 1), Up("b", 1)>>),
                Pool("roundrobin", <<Up("a", 2), Up("b", 1)>>)>>,
     plan |-> Plan(Requests, FoAll(TRUE, TRUE), NoOpts, {"NOERROR"}, {})]
\* Two requests across activations that move upstream a, drop b and bring it back.
Retiring ==
    [topo |-> <<Pool("ordered", <<Up("a", 1), Up("b", 1)>>),
                Pool("healthaware", <<Up("a", 2), Up("c", 1)>>),
                Pool("healthaware", <<Up("b", 1)>>)>>,
     plan |-> Plan({r1, r2}, FoAll(TRUE, TRUE), NoOpts, {"NOERROR", "timeout"}, Ends)]
\* Three requests that find upstreams down.
Outage ==
    [topo |-> <<Pool("healthaware", <<Up("a", 1), Up("b", 1)>>)>>,
     plan |-> Plan(Requests, FoAll(FALSE, TRUE), NoOpts, {"NOERROR", "timeout"}, {})]
\* One request, every reply, failover policy and fault option.
Faults ==
    {NoOpts, [NoOpts EXCEPT !.force = "b"], [NoOpts EXCEPT !.unavailable = {"a"}],
     [NoOpts EXCEPT !.timeout = TRUE, !.transport = TRUE], [NoOpts EXCEPT !.failover = TRUE],
     [NoOpts EXCEPT !.synthetic = TRUE], [NoOpts EXCEPT !.unknown = TRUE]}
Failing ==
    {[topo |-> <<Pool("random", <<Up("a", 1), Up("b", 1), Up("c", 1)>>)>>,
      plan |-> Plan({r1}, fo, o, Replies, {"cancelled"})] :
        o \in Faults,
        fo \in [timeout : BOOLEAN, transport : BOOLEAN, servfail : BOOLEAN, refused : BOOLEAN,
                retryTCP : {TRUE}] \cup {FoAll(TRUE, FALSE)}}
MCScenarios == {Rotation, Retiring, Outage} \cup Failing
=============================================================================
