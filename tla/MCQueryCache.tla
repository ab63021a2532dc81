---------------------------- MODULE MCQueryCache ----------------------------
(* Revisions, policies and hooks for model checking QueryCache.            *)
EXTENDS QueryCache, TLC

Policy(on, max, minTTL, maxTTL, negTTL, stale) ==
    [on |-> on, max |-> max, minTTL |-> minTTL, maxTTL |-> maxTTL, negTTL |-> negTTL,
     stale |-> stale]
Content(pol, zone, ttl, fwd, target) ==
    [pol |-> pol, zone |-> zone, ttl |-> ttl, fwd |-> fwd, target |-> target]

Small == Policy(TRUE, 1, 0, 1, 1, FALSE)
Large == Policy(TRUE, 2, 0, 1, 1, FALSE)
Stale == Policy(TRUE, 2, 2, 0, 0, TRUE)
Off == Policy(FALSE, 0, 0, 0, 0, FALSE)

\* An overlay CNAME with a policy for both names, for the name only and for the
\* target only, and the same name served in full.
First == Content(Large, "cname", 2, TRUE, TRUE)
Revisions ==
    {First, Content(Small, "cname", 1, TRUE, FALSE),
     Content(Off, "cname", 1, FALSE, TRUE), Content(Large, "full", 2, TRUE, TRUE)}
\* One revision at a time, every kind of zone; none is one of Revisions.
Life ==
    {Content(Stale, "full", 1, FALSE, FALSE), Content(Large, "cname", 1, TRUE, TRUE),
     Content(Stale, "miss", 1, TRUE, TRUE), Content(Large, "negative", 2, FALSE, FALSE),
     Content(Small, "none", 1, TRUE, TRUE)}

Hook(bypass, miss, expire, stale, synth) ==
    [bypass |-> bypass, miss |-> miss, expire |-> expire, stale |-> stale, synth |-> synth]
CacheHooks ==
    {Hook(TRUE, FALSE, FALSE, FALSE, "SERVFAIL"), Hook(FALSE, TRUE, FALSE, FALSE, Nil),
     Hook(FALSE, FALSE, TRUE, TRUE, Nil)}
AllContents == Revisions \cup Life
NoData == {Hook(FALSE, FALSE, FALSE, FALSE, "NOERROR")}

\* Bound: a behaviour that starts in one of Life keeps it, with one query at a
\* time and chaos only on queries without CD.  One that starts in one of
\* Revisions has neither time nor chaos, CD only before First is replaced, and
\* from upstream data, denials and failures with the zone's lifetime.
OneLoad ==
    IF active.content \in Life
    THEN /\ active.gen = 0
         /\ \E q \in Queries : \A r \in Queries \ {q} : qs[r] = Idle
         /\ \A q \in Queries : qs[q].cd => qs[q].hook = NoHook
    ELSE /\ obs.content \in Revisions
         /\ now = 0
         /\ \A q \in Queries : qs[q].hook = NoHook
         /\ \A q \in Queries : qs[q].cd => active = [gen |-> 0, content |-> First]
         /\ \A q \in Queries : qs[q].res.from = "up" =>
               qs[q].res.ttl = qs[q].snap.content.ttl /\ (qs[q].res.rcode = "NOERROR" => qs[q].res.ans = "data")

Perms == Permutations(Queries)
=============================================================================
