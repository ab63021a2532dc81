----------------------------- MODULE QueryCache -----------------------------
(***************************************************************************)
(* internal/cache and the way dnsquery.Handler.answer and the management   *)
(* Resolve use it.  All queries ask one question, under two values of CD;  *)
(* a revision is the content of its snapshot: the cache policy, what the   *)
(* zones hold for the name and which names a forwarding policy matches.    *)
(* Cache operations are atomic (Cache.mu); between two of them other       *)
(* queries, swaps, stamps, flushes and the clock go on.                    *)
(***************************************************************************)
EXTENDS Integers, Sequences, FiniteSets, FiniteSetsExt

CONSTANTS
    Queries,        \* DNS queries and management resolves, each served once
    Contents,       \* the revisions: [pol, zone, ttl, fwd, target]
    CDs,            \* values of the CD bit that queries carry
    Hooks,          \* cache and upstream effects chaos may plan
    TTLs,           \* lifetimes of upstream records
    MaxGen,         \* bound on generations
    MaxTime,        \* bound on the clock
    Nil             \* no entry, no synthetic rcode

\* zone: "none" no zone, "full" a complete answer, "negative" NXDOMAIN with its
\* SOA, "cname" an overlay CNAME that leaves the zone, "miss" an overlay miss.
\* fwd and target: a forwarding policy matches the name, the CNAME's target.
Zones == {"none", "full", "negative", "cname", "miss"}
Policies == [on : BOOLEAN, max : Nat, minTTL : Nat, maxTTL : Nat, negTTL : Nat, stale : BOOLEAN]
Synthetic == {"SERVFAIL", "REFUSED", "NXDOMAIN", "NOERROR"}
NoHook == [bypass |-> FALSE, miss |-> FALSE, expire |-> FALSE, stale |-> FALSE, synth |-> Nil]

ASSUME ContentAssumption ==
    Contents \subseteq
        [pol : Policies, zone : Zones, ttl : Nat,
                 fwd : BOOLEAN, target : BOOLEAN]
ASSUME HookAssumption ==
    Hooks \subseteq [bypass : BOOLEAN, miss : BOOLEAN, expire : BOOLEAN, stale : BOOLEAN,
                     synth : Synthetic \cup {Nil}]
ASSUME BoundAssumption == CDs \subseteq BOOLEAN /\ TTLs \subseteq Nat /\ MaxGen \in Nat /\ MaxTime \in Nat

VARIABLES
    active,     \* the active snapshot: generation and content
    obs,        \* Cache.generation and the content whose policy it took
    observed,   \* Cache.observed
    lru,        \* entries, most recently used first
    now,        \* the clock
    qs,         \* qs[q]: a query's locals
    seen        \* the snapshot an Apply, a Reset or a CacheStatus is to observe

vars == <<active, obs, observed, lru, now, qs, seen>>

-----------------------------------------------------------------------------
(* Results: where they came from, the rcode, whether the answer section    *)
(* holds nothing, CNAMEs only or data, whether there is an SOA, the TTL.   *)

Result(from, rcode, ans, soa, ttl) ==
    [from |-> from, rcode |-> rcode, ans |-> ans, soa |-> soa, ttl |-> ttl]
NoResult == Result("none", "NOERROR", "none", FALSE, 0)

\* An overlay answer that leaves the zone is marked Fallthrough until the
\* forward is done or refused.
Cacheable(r, fallthrough) == r.rcode \in {"NOERROR", "NXDOMAIN"} /\ ~fallthrough

\* negativeResult: also a chain of CNAMEs that ends in an SOA.
negativeResult(r) ==
    r.rcode = "NXDOMAIN" \/ (r.rcode = "NOERROR" /\ r.ans # "data" /\ r.soa)

entryTTL(r, negative) ==
    IF negative /\ ~r.soa THEN 0
    ELSE IF r.ans # "none" \/ negative THEN r.ttl ELSE 0

\* Zero is no bound.
clampTTL(r, negative, p) ==
    LET t == entryTTL(r, negative)
        low == IF p.minTTL > 0 /\ t < p.minTTL THEN p.minTTL ELSE t
    IN  IF negative THEN IF p.negTTL > 0 THEN Min({t, p.negTTL}) ELSE t
        ELSE IF p.maxTTL > 0 THEN Min({low, p.maxTTL}) ELSE low

-----------------------------------------------------------------------------
(* The cache.                                                              *)

cpol == obs.content.pol
Usable(p) == p.on /\ p.max > 0

Has(key) == \E i \in 1..Len(lru) : lru[i].key = key
Place(key) == CHOOSE i \in 1..Len(lru) : lru[i].key = key
Lookup(key) == lru[Place(key)]
Removed(key) == SubSeq(lru, 1, Place(key) - 1) \o SubSeq(lru, Place(key) + 1, Len(lru))
Fronted(key) == <<Lookup(key)>> \o Removed(key)
Trimmed(s, max) == IF Len(s) > max THEN SubSeq(s, 1, max) ELSE s

Expired(e) == now >= e.expire

\* Get under the policy p of the query's snapshot and its hook h.
Reachable(key, p, h) == ~h.bypass /\ Usable(p) /\ Has(key)
MayServe(e, p, h) ==
    /\ ~h.miss
    /\ h.expire \/ Expired(e) => h.stale \/ p.stale

Hit(key, p, h) == Reachable(key, p, h) /\ MayServe(Lookup(key), p, h)

\* An expired entry that may not be served stale is removed; a hit becomes the
\* most recent, unless it is expired for this request only.
LruAfterGet(key, p, h) ==
    IF ~Reachable(key, p, h) \/ h.expire THEN lru
    ELSE IF Expired(Lookup(key)) /\ ~(h.stale \/ p.stale) THEN Removed(key)
    ELSE IF h.miss THEN lru
    ELSE Fronted(key)

Remaining(e) == IF e.expire > now THEN e.expire - now ELSE 0

\* decayTTLs by age alone: a clamped entry advertises its unclamped lifetime.
DecayedByAge(e) == IF e.res.ttl > now - e.stored THEN e.res.ttl - (now - e.stored) ELSE 0

\* decayTTLs: by the age of the entry, and never past its expiry.
Decayed(e) ==
    LET age == now - e.stored
    IN  Min({IF e.res.ttl > age THEN e.res.ttl - age ELSE 0, Remaining(e)})

\* The TTL that the copy given to a client carries, and what it is measured by.
Copy(e, stale) ==
    [expire |-> e.expire, until |-> e.stored + e.res.ttl, ttl |-> Decayed(e), at |-> now, stale |-> stale]

\* Put without its generation check.
OutdatedNever(s) == FALSE
Outdated(s) == observed /\ s.gen < obs.gen

\* Put of a result under the snapshot s.  Older generations store nothing.
LruAfterPut(key, r, negative, s, h) ==
    LET p == s.content.pol
        neg == negative \/ negativeResult(r)
        ttl == clampTTL(r, neg, p)
        e == [key |-> key, res |-> r, stored |-> now, expire |-> now + ttl]
    IN  IF \/ h.bypass
           \/ Outdated(s)
           \/ ~Usable(p) \/ ~Usable(cpol)
           \/ ttl = 0
        THEN lru
        ELSE IF Has(key) THEN <<e>> \o Removed(key)
        ELSE Trimmed(<<e>> \o lru, cpol.max)

\* ObservePolicy that leaves a smaller capacity to the next Put.
ObserveNoEvict(s) ==
    IF observed /\ s.gen <= obs.gen
      THEN UNCHANGED <<obs, observed, lru>>
      ELSE /\ obs' = s
           /\ observed' = TRUE
           /\ lru' = IF Usable(s.content.pol) THEN lru ELSE <<>>

\* ObservePolicy of the snapshot s.
Observe(s) ==
    IF observed /\ s.gen <= obs.gen
      THEN UNCHANGED <<obs, observed, lru>>
      ELSE /\ obs' = s
           /\ observed' = TRUE
           /\ lru' = IF Usable(s.content.pol) THEN Trimmed(lru, s.content.pol.max) ELSE <<>>

-----------------------------------------------------------------------------
(* Resolution.                                                             *)

Complete(c) == c.zone \in {"full", "negative"}

LocalResult(c) ==
    CASE c.zone = "full" -> Result("zone", "NOERROR", "data", FALSE, c.ttl)
      [] c.zone = "negative" -> Result("zone", "NXDOMAIN", "none", TRUE, c.ttl)
      [] c.zone = "cname" -> Result("zone", "NOERROR", "cname", FALSE, c.ttl)
      [] OTHER -> NoResult

\* The policy is selected again on the target of an overlay CNAME.
Forwards(c, allow) == allow /\ IF c.zone = "cname" THEN c.target ELSE c.fwd

\* What an upstream pool may answer, with the TTL t; it may leave out the SOA.
Empty == {"NOERROR", "NXDOMAIN"}
Reply(t) ==
    {Result("up", "NOERROR", "data", FALSE, t), Result("up", "SERVFAIL", "none", FALSE, 0)}
      \cup {Result("up", rc, "none", TRUE, t) : rc \in Empty}
      \cup {Result("up", rc, "none", FALSE, t) : rc \in Empty}
Replies == UNION {Reply(t) : t \in TTLs}

\* ExchangeOpts: a synthetic rcode asks nobody.
Exchange(h) ==
    IF h.synth # Nil THEN {Result("synth", h.synth, "none", FALSE, 0)} ELSE Replies

\* The overlay CNAME goes before the upstream's answers; ttl is the shortest.
Joined(c, r) ==
    IF c.zone # "cname" THEN r
    ELSE [r EXCEPT !.ans = IF @ = "none" THEN "cname" ELSE @,
                   !.ttl = IF r.ans = "none" /\ ~r.soa THEN c.ttl ELSE Min({@, c.ttl})]

Refused == Result("refused", "REFUSED", "none", FALSE, 0)

\* localOverlayOrRefused.
Unforwarded(c) == IF c.zone = "cname" THEN LocalResult(c) ELSE Refused

\* What the handler may compute for a client of the class allow.
Answers(c, allow, h) ==
    IF Complete(c) THEN {LocalResult(c)}
    ELSE IF Forwards(c, allow) THEN {Joined(c, r) : r \in Exchange(h)}
    ELSE {Unforwarded(c)}

\* A refused forward that stores the lone CNAME whoever asked.
SharesLocalAlways(c, allow) == Complete(c) \/ ~Forwards(c, allow)

\* Results that go under the key every client reads first.
SharesLocal(c, allow) == Complete(c) \/ (allow /\ ~Forwards(c, allow))

-----------------------------------------------------------------------------
(* Queries.                                                                *)

Idle == [pc |-> "idle", manage |-> FALSE, allow |-> FALSE, cd |-> FALSE,
         hook |-> NoHook, snap |-> Nil, res |-> NoResult, hit |-> Nil]

LocalKey(c) == [content |-> c, local |-> TRUE, cd |-> FALSE]
UpKey(c, cd) == [content |-> c, local |-> FALSE, cd |-> cd]

Init ==
    /\ \E c \in Contents : active = [gen |-> 0, content |-> c]
    /\ obs = active
    /\ observed = FALSE
    /\ lru = <<>>
    /\ now = 0
    /\ qs = [q \in Queries |-> Idle]
    /\ seen = Nil

\* The server loads the snapshot.  NoHook: no policy acts on the query, as on
\* every query of a protected name or client.
Arrive(q) ==
    /\ qs[q].pc \in {"idle", "done"}
    /\ \E allow \in BOOLEAN, cd \in CDs, h \in Hooks \cup {NoHook} :
          qs' = [qs EXCEPT ![q] = [Idle EXCEPT !.pc = "observe", !.allow = allow, !.cd = cd,
                                    !.hook = h, !.snap = active]]
    /\ UNCHANGED <<active, obs, observed, lru, now, seen>>

\* Resolve with useCache, from REST or MCP: local data only, no chaos.
Manage(q) ==
    /\ qs[q].pc \in {"idle", "done"}
    /\ qs' = [qs EXCEPT ![q] = [Idle EXCEPT !.pc = "observe", !.manage = TRUE, !.snap = active]]
    /\ UNCHANGED <<active, obs, observed, lru, now, seen>>

ObservePolicy(q) ==
    /\ qs[q].pc = "observe"
    /\ Observe(qs[q].snap)
    /\ qs' = [qs EXCEPT ![q] = [@ EXCEPT !.pc = "local"]]
    /\ UNCHANGED <<active, now, seen>>

\* Get under key; a hit ends the query, a miss goes on at next.
Get(q, key, next) ==
    LET p == qs[q].snap.content.pol
        h == qs[q].hook
        e == Lookup(key)
        stale == h.expire \/ Expired(e)
    IN  /\ lru' = LruAfterGet(key, p, h)
        /\ qs' = IF Hit(key, p, h)
                 THEN [qs EXCEPT ![q] = [@ EXCEPT !.pc = "done", !.res = e.res, !.hit = Copy(e, stale)]]
                 ELSE [qs EXCEPT ![q] = [@ EXCEPT !.pc = next]]
        /\ UNCHANGED <<active, obs, observed, now, seen>>

\* The upstream key is tried only by a client with a forwarding policy.
LookupLocal(q) ==
    LET s == qs[q] IN
    /\ s.pc = "local"
    /\ Get(q, LocalKey(s.snap.content),
           IF s.allow /\ s.snap.content.fwd THEN "up" ELSE "resolve")

LookupUp(q) ==
    /\ qs[q].pc = "up"
    /\ Get(q, UpKey(qs[q].snap.content, qs[q].cd), "resolve")

\* resolver.Resolve and ExchangeOpts.
Resolve(q) ==
    LET s == qs[q]
        c == s.snap.content
    IN  /\ s.pc = "resolve"
        /\ \E r \in IF s.manage THEN {LocalResult(c)} ELSE Answers(c, s.allow, s.hook) :
              qs' = [qs EXCEPT ![q] = [@ EXCEPT !.pc = "store", !.res = r]]
        /\ UNCHANGED <<active, obs, observed, lru, now, seen>>

\* storeCache, or the Put of resolveBaseAgainst: it stores no fallthrough.
Store(q) ==
    LET s == qs[q]
        c == s.snap.content
        key == IF s.manage \/ SharesLocal(c, s.allow) THEN LocalKey(c) ELSE UpKey(c, s.cd)
        empty == s.res.rcode = "NXDOMAIN" \/ s.res.ans = "none"
        keeps == IF s.manage THEN Complete(c)
                 ELSE key.local \/ (s.allow /\ c.fwd)
    IN  /\ s.pc = "store"
        /\ lru' = IF keeps /\ Cacheable(s.res, FALSE)
                  THEN LruAfterPut(key, s.res, ~s.manage /\ empty, s.snap, s.hook)
                  ELSE lru
        /\ qs' = [qs EXCEPT ![q] = Idle]
        /\ UNCHANGED <<active, obs, observed, now, seen>>

-----------------------------------------------------------------------------
(* The control plane, as far as the cache sees it, and the clock.          *)

\* Apply and Reset swap a revision in; an emergency stamp republishes it.
Publish ==
    /\ active.gen < MaxGen
    /\ \E c \in Contents : active' = [gen |-> active.gen + 1, content |-> c]
    /\ UNCHANGED <<obs, observed, lru, now, qs, seen>>

\* Apply, Reset and CacheStatus load the active snapshot, then observe it.
LoadActive ==
    /\ seen = Nil
    /\ seen' = active
    /\ UNCHANGED <<active, obs, observed, lru, now, qs>>

ObserveSeen ==
    /\ seen # Nil
    /\ Observe(seen)
    /\ seen' = Nil
    /\ UNCHANGED <<active, now, qs>>

CacheFlush ==
    /\ lru' = <<>>
    /\ UNCHANGED <<active, obs, observed, now, qs, seen>>

Tick ==
    /\ now < MaxTime
    /\ now' = now + 1
    /\ UNCHANGED <<active, obs, observed, lru, qs, seen>>

Serve(q) ==
    \/ Arrive(q) \/ Manage(q) \/ ObservePolicy(q) \/ LookupLocal(q) \/ LookupUp(q)
    \/ Resolve(q) \/ Store(q)

Next ==
    \/ \E q \in Queries : Serve(q)
    \/ Publish \/ LoadActive \/ ObserveSeen \/ CacheFlush \/ Tick

Spec == Init /\ [][Next]_vars

-----------------------------------------------------------------------------
(* Properties.                                                             *)

Served(q) == qs[q].pc = "done"

\* docs/04: "Disabling the cache clears its entries; reducing maxEntries evicts
\* excess entries immediately."  Whatever old queries, refreshes and moves to
\* the front are under way, the cache holds no more than the newest policy it
\* observed allows, and no key twice.
CapacityInForce ==
    /\ Len(lru) <= IF Usable(cpol) THEN cpol.max ELSE 0
    /\ \A i, j \in 1..Len(lru) : lru[i].key = lru[j].key => i = j

\* The cache is transparent: a hit is an answer that the query could have
\* computed itself, from its own snapshot and for its own class of client.  It
\* rests on the revision in the key, on the two keys and on what each path may
\* store under the shared local key (localOverlayOrRefused, resolveBaseAgainst).
HitIsOwnAnswer ==
    \A q \in Queries : Served(q) =>
        LET s == qs[q]
            c == s.snap.content
            own == IF s.manage THEN {LocalResult(c)} ELSE Answers(c, s.allow, NoHook)
        IN  s.res \in own

\* docs/04: "Results from older generations cannot repopulate or reactivate the
\* cache."  Whatever a step stores belongs to the revision whose policy is in force.
OldGenerationsStoreNothing ==
    [][\A i \in 1..Len(lru') :
         (\A j \in 1..Len(lru) : lru[j] # lru'[i]) => lru'[i].key.content = obs.content]_vars

\* A cached answer never promises more than its records did, nor more than the
\* clamped lifetime of its entry; a copy past its expiry promises nothing.
HitTTLBounded ==
    \A q \in Queries : Served(q) =>
        LET h == qs[q].hit
        IN  /\ h.ttl > 0 => h.at + h.ttl <= h.until /\ h.at + h.ttl <= h.expire
            /\ h.at >= h.expire => h.ttl = 0

\* docs/03, invariant 8: "Protected names, protected clients, and management
\* addresses cannot be affected."  A query no policy acts on is never served
\* the synthetic upstream answer that chaos planned for another.
ProtectedUnaffected ==
    \A q \in Queries : Served(q) /\ qs[q].hook = NoHook => qs[q].res.from # "synth"

-----------------------------------------------------------------------------
(* The inductive invariant behind these properties.                        *)

Snapshots == [gen : 0..MaxGen, content : Contents]
Results ==
    [from : {"none", "zone", "up", "synth", "refused"},
     rcode : {"NOERROR", "NXDOMAIN", "SERVFAIL", "REFUSED"},
     ans : {"none", "cname", "data"}, soa : BOOLEAN, ttl : Nat]
Entries ==
    [key : [content : Contents, local : BOOLEAN, cd : BOOLEAN], res : Results, stored : Nat, expire : Nat]

\* The snapshots somebody holds: the newest is active, and a generation is one
\* snapshot.
Held ==
    {active, obs} \cup (IF seen = Nil THEN {} ELSE {seen})
      \cup {qs[q].snap : q \in {q \in Queries : qs[q].pc # "idle"}}
Dated ==
    /\ \A s \in Held : s \in Snapshots /\ s.gen <= active.gen
    /\ \A s, t \in Held : s.gen = t.gen => s = t

\* What the query s found or computed, under the hook h.
OwnAnswers(s, h) ==
    IF s.manage THEN {LocalResult(s.snap.content)} ELSE Answers(s.snap.content, s.allow, h)

\* Every client that reads the key of e may be given its result.
Shareable(e) ==
    LET c == e.key.content
    IN  IF e.key.local THEN e.res = LocalResult(c) /\ \A allow \in BOOLEAN : Answers(c, allow, NoHook) = {e.res}
        ELSE c.fwd => e.res \in Answers(c, TRUE, NoHook)

\* The upstream key is read by clients that may forward; what is to be stored
\* is the query's own answer.
Under(s) ==
    /\ DOMAIN s = DOMAIN Idle /\ s.hook \in Hooks \cup {NoHook} /\ s.res \in Results
    /\ s.manage \in BOOLEAN /\ s.allow \in BOOLEAN /\ s.cd \in BOOLEAN
    /\ s.pc \in {"idle", "observe", "local", "up", "resolve", "store", "done"}
    /\ s.pc = "up" => ~s.manage /\ s.allow /\ s.snap.content.fwd
    /\ s.manage => ~s.allow /\ s.hook = NoHook
    /\ s.pc = "store" => s.res \in OwnAnswers(s, s.hook)

\* The cache has observed the snapshot of a query that reads it, or a newer one.
Abreast(s, o, b) == s.pc \in {"local", "up", "resolve", "store"} => o /\ s.snap.gen <= b.gen

Coherent ==
    /\ Dated /\ observed \in BOOLEAN /\ now \in Nat
    /\ DOMAIN qs = Queries /\ \A q \in Queries : Under(qs[q]) /\ Abreast(qs[q], observed, obs)
    /\ lru \in Seq(Entries) /\ \A i \in 1..Len(lru) : lru[i].stored <= now
    /\ CapacityInForce /\ HitTTLBounded

\* No hook plans an empty upstream answer, which would be stored behind an
\* overlay CNAME.
NoDataUnplanned == \A h \in Hooks : h.synth # "NOERROR"
Transparent == (\A i \in 1..Len(lru) : Shareable(lru[i])) /\ HitIsOwnAnswer
=============================================================================
