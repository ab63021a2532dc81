------------------------------ MODULE Document ------------------------------
(***************************************************************************)
(* The configuration document and the pure functions on it: normalization, *)
(* validation, the checks of compilation, one operation of a change set    *)
(* and its authorization, the diff and impact of a change, and the         *)
(* operations that lead from the bootstrap document to the running one.    *)
(*                                                                         *)
(* Identifiers are numbers (0 is the empty one), so that the code's sorted *)
(* order is theirs.  A name is its labels from the root and whether it was *)
(* written relative to an origin, and so is a record value of any type;    *)
(* what parsing alone decides about a string (an address, a prefix, an     *)
(* origin, a path) is the value "bad".                                     *)
(* An endpoint is a host and a port, the host "none" standing for the      *)
(* empty string.  Case folding, YAML and JSON are left out.                *)
(***************************************************************************)
EXTENDS Integers, FiniteSets, SequencesExt

Abs(l) == [rel |-> FALSE, labels |-> l]
Rel(l) == [rel |-> TRUE, labels |-> l]
Root == Abs(<<>>)

-----------------------------------------------------------------------------
(* config.Decode and config.Normalize *)

\* applyDecodeDefaults and materializeOpDefaults: what a document leaves out and a Go zero
\* value cannot say.
Allowing(gs) == [k \in DOMAIN gs |-> [gs[k] EXCEPT !.allow = IF @ = "omitted" THEN "yes" ELSE @]]
Shown(ui) == [ui EXCEPT !.enabled = IF @ = "omitted" THEN "yes" ELSE @]
Decode(d) == [d EXCEPT !.ui = Shown(@), !.access.groups = Allowing(@)]

\* checkDNSName
WellFormed(n) ==
    \A k \in DOMAIN n.labels : n.labels[k] \notin {"", "bad"} /\ (n.labels[k] = "*" => k = Len(n.labels))

\* "@" needs a zone to stand for.
Placed(n) == WellFormed(n) /\ ~(n.rel /\ n.labels = <<>>)

\* A relative name is completed by the origin; "@", the empty one, is the origin.
CanonicalName(n, origin) == IF n.rel THEN Abs(origin.labels \o n.labels) ELSE n

NameTypes == {"CNAME", "NS", "PTR", "MX", "SRV", "SVCB", "HTTPS"}

NormalRecord(r, origin, ttl) ==
    [r EXCEPT !.ttl = IF @ = 0 THEN ttl ELSE @,
              !.owner = CanonicalName(@, origin),
              !.values = IF r.type \in NameTypes THEN [k \in DOMAIN @ |-> CanonicalName(@[k], origin)] ELSE @]

NormalZone(z, ttl) ==
    LET o == CanonicalName(z.name, Root)
    IN  [z EXCEPT !.name = o,
                  !.ns = [k \in DOMAIN @ |-> CanonicalName(@[k], o)],
                  !.records = [k \in DOMAIN @ |-> NormalRecord(@[k], o, ttl)]]

OrElse(v, d) == IF v = 0 THEN d ELSE v
DefaultTTL == 30

\* materializeDefaults, then canonicalizeNames.
Normalize(d) ==
    LET defaults == [ttl |-> OrElse(d.defaults.ttl, DefaultTTL), neg |-> OrElse(d.defaults.neg, 10),
                     depth |-> OrElse(d.defaults.depth, 8)]
    IN  [d EXCEPT !.defaults = defaults,
                  !.listen.dns = IF @ = [host |-> "", port |-> 0] THEN [host |-> "", port |-> 5353] ELSE @,
                  !.listen.protocols = IF @ = <<>> THEN <<"udp", "tcp">> ELSE @,
                  !.mgmt.profile = IF @ = "" THEN "bearer" ELSE @,
                  !.zones = [k \in DOMAIN @ |-> NormalZone(@[k], defaults.ttl)],
                  !.policies = [k \in DOMAIN @ |-> [@[k] EXCEPT !.suffix = CanonicalName(@, Root)]],
                  !.safety.names = {CanonicalName(n, Root) : n \in @},
                  !.chaos = [k \in DOMAIN @ |->
                      [@[k] EXCEPT !.scope.owners = {CanonicalName(n, Root) : n \in @}]]]

\* A name that cannot be canonicalized ends the normalization.
NormalizeOK(d) ==
    /\ \A z \in Range(d.zones) :
          /\ Placed(z.name)
          /\ \A n \in Range(z.ns) : WellFormed(n)
          /\ \A r \in Range(z.records) :
                WellFormed(r.owner) /\ (r.type \in NameTypes => \A v \in Range(r.values) : WellFormed(v))
    /\ \A n \in {p.suffix : p \in Range(d.policies)} \cup d.safety.names
               \cup UNION {p.scope.owners : p \in Range(d.chaos)} : Placed(n)

-----------------------------------------------------------------------------
(* config.Validate *)

Ids(s) == {s[k].id : k \in DOMAIN s}

\* requireID over one list.
Keyed(s) == 0 \notin Ids(s) /\ Cardinality(Ids(s)) = Len(s)

AllRecords(d) == FlattenSeq([k \in DOMAIN d.zones |-> d.zones[k].records])
AllUpstreams(d) == FlattenSeq([k \in DOMAIN d.pools |-> d.pools[k].ups])
TransportNames == {"udp", "tcp"}

ValidDocument(d) == d.header = "ok"

ValidListeners(l) ==
    /\ l.dns.host # "bad" /\ l.mgmt # "bad" /\ l.rest = "/v1" /\ l.mcp # "bad"
    /\ Range(l.protocols) \subseteq TransportNames /\ Cardinality(Range(l.protocols)) = Len(l.protocols)

ValidAccess(a) ==
    /\ a.unknown = "refuse-forward" /\ Keyed(a.groups)
    /\ \A g \in Range(a.groups) : g.cidrs # <<>> /\ "bad" \notin Range(g.cidrs)

ValidDefaults(f) == f.ttl >= 0 /\ f.neg >= 0 /\ f.depth >= 1

KnownTypes == NameTypes \cup {"A", "AAAA", "TXT", "CAA", "SOA"}
GenericTypes == {"TYPE39", "TYPE99"}
IsWildcard(n) == n.labels # <<>> /\ Last(n.labels) = "*"

\* validateRecordValues
ValidValues(r) == r.values # <<>> /\ \A v \in Range(r.values) : WellFormed(v)

\* What a wildcard and an alias may be, checked by validation and again by compilation.
OwnerSuits(z, r) ==
    /\ IsWildcard(r.owner) => r.type \notin {"NS", "TYPE39"}
    /\ r.type = "CNAME" => Len(r.values) = 1 /\ ~(z.mode = "authoritative" /\ r.owner = z.name)

ValidRecord(z, r) ==
    r.ttl >= 0 /\ r.type \in KnownTypes \cup GenericTypes /\ ValidValues(r) /\ OwnerSuits(z, r) /\ 0 \notin r.refs

\* One RRset per owner and type in the whole document, and a CNAME alone.
OwnersExclusive(s) ==
    \A j, k \in DOMAIN s : j < k /\ s[j].owner = s[k].owner =>
        s[j].type # s[k].type /\ "CNAME" \notin {s[j].type, s[k].type}

ValidZones(d) ==
    /\ Keyed(d.zones) /\ Keyed(AllRecords(d)) /\ OwnersExclusive(AllRecords(d))
    /\ Cardinality({z.name : z \in Range(d.zones)}) = Len(d.zones)
    /\ \A z \in Range(d.zones) :
          /\ z.mode \in {"authoritative", "overlay"} /\ z.soa # "bad"
          /\ z.mode = "authoritative" => z.soa # "none"
          /\ \A r \in Range(z.records) : ValidRecord(z, r)

ValidForwarding(d) ==
    /\ Keyed(d.pools) /\ Keyed(AllUpstreams(d)) /\ Keyed(d.policies)
    /\ \A p \in Range(d.pools) : p.strategy # "bad" /\ p.ups # <<>>
    /\ \A u \in Range(AllUpstreams(d)) : u.host \notin {"bad", "none"} /\ u.transport \in TransportNames
    /\ Cardinality({p.suffix : p \in Range(d.policies)}) = Len(d.policies)
    /\ \A p \in Range(d.policies) : p.pool \in Ids(d.pools) /\ p.timeout >= 0

ValidCache(c) ==
    /\ c.on => c.max > 0
    /\ c.min >= 0 /\ c.top >= 0 /\ c.neg >= 0
    /\ c.min > 0 /\ c.top > 0 => c.min <= c.top

\* A safety class the code ranks, from the least impact to the most.
Classes == {"low", "medium", "high", "unsafe-deferred"}

\* What zoneTargetsProtected and the scope checks compare: the exact name, not what is below it.
OwnersOf(d, ids) == {r.owner : r \in {x \in Range(AllRecords(d)) : x.id \in ids}}
ZonesOf(d, ids) == {z \in Range(d.zones) : z.id \in ids}
NamesOf(z) == {z.name} \cup {r.owner : r \in Range(z.records)}

ValidScope(d, s) ==
    /\ s.records \cup s.wild \subseteq Ids(AllRecords(d)) /\ s.zones \subseteq Ids(d.zones)
    /\ s.fwd \subseteq Ids(d.policies) /\ s.pools \subseteq Ids(d.pools)
    /\ s.groups \subseteq Ids(d.access.groups) \ d.safety.groups
    /\ d.safety.names \cap (s.owners \cup OwnersOf(d, s.records \cup s.wild)
                            \cup UNION {NamesOf(z) : z \in ZonesOf(d, s.zones)}) = {}
    /\ s.transports \subseteq TransportNames

TransportActions == {"drop", "truncate", "tcp-close", "tcp-reset"}
RewriteActions == {"rcode", "ttl", "alternate", "omit", "limit", "shuffle", "rotate"}
ActionTypes == TransportActions \cup RewriteActions \cup {"delay", "cache", "upstream", "pressure"}

DefaultPhase(t) ==
    CASE t \in RewriteActions \cup {"delay"} -> "before-response"
      [] t \in {"cache", "pressure"}         -> "before-resolution"
      [] t = "upstream"                      -> "before-upstream"
      [] OTHER                               -> "transport"

PhaseOrder == <<"before-resolution", "before-upstream", "after-upstream", "before-response">>

\* phaseRank of the written phase, or of the default one; 0 is no rank.
Rank(a) ==
    LET ph == IF a.phase = "" THEN DefaultPhase(a.type) ELSE a.phase
    IN  IF ph = "transport" THEN IF a.type \in TransportActions THEN 5 ELSE 0
        ELSE SelectInSeq(PhaseOrder, LAMBDA p : p = ph)

\* validateDelay: a range unless it is written as one duration.
IsRange(a) == a.dist = "uniform" \/ (a.dist = "" /\ (a.min # 0 \/ a.max # 0))
LongestDelay(a) == IF IsRange(a) THEN a.max ELSE a.dur
ValidDelay(a, safety) ==
    /\ IF IsRange(a) THEN a.max >= a.min ELSE a.dur >= 0
    /\ safety.maxDelay > 0 => LongestDelay(a) <= safety.maxDelay

ValidRCode(a, class) ==
    \/ a.value \in {"SERVFAIL", "REFUSED", "NXDOMAIN", "NOERROR", "NODATA"}
    \/ a.value \in {"FORMERR", "NOTIMP"} /\ class \in {"medium", "high"}

\* validateAlternate: the value "outside" is an address no allowed prefix contains.
ValidAlternate(a, safety) == a.values # <<>> /\ (safety.cidrs # <<>> => "outside" \notin Range(a.values))

ValidAction(p, a, safety) ==
    /\ a.type \in ActionTypes /\ Rank(a) # 0 /\ a.dist \in {"", "fixed", "uniform"}
    /\ a.type = "truncate" => p.scope.transports # {"tcp"}
    /\ a.type \in {"tcp-close", "tcp-reset"} => p.scope.transports # {"udp"}
    /\ a.type = "delay" => ValidDelay(a, safety)
    /\ a.type = "rcode" => ValidRCode(a, p.class)
    /\ a.type = "alternate" => ValidAlternate(a, safety)
    /\ a.type = "limit" => a.limit >= 0

ValidActions(p, s, safety) ==
    /\ \A k \in DOMAIN s : ValidAction(p, s[k], safety)
    /\ \A j, k \in DOMAIN s : j < k =>
          /\ Rank(s[j]) <= Rank(s[k])
          /\ ~(s[j].type \in TransportActions /\ s[k].type \in TransportActions)

ValidPolicy(d, p) ==
    /\ p.meta = "ok" /\ p.class \in Classes
    /\ p.enabled => p.class # "unsafe-deferred" /\ (p.class \in {"high"} \cup d.safety.expiry => p.expires)
    /\ p.mode \in {"", "deterministic", "random"} /\ p.prob \in 0 .. 100 /\ p.nth >= 0
    /\ p.bucket = 0 \/ p.bucket >= 1000
    /\ p.comp \in {"", "compose", "terminal", "exclusive-group"} /\ (p.comp = "exclusive-group" => p.group # "")
    /\ p.budget.delay >= 0 /\ p.budget.conc >= 0 /\ p.budget.rate >= 0 /\ p.budget.freq = 0
    /\ ValidScope(d, p.scope)
    /\ p.outcomes # <<>>
    /\ \A o \in Range(p.outcomes) : o.id # 0 /\ o.weight >= 0 /\ ValidActions(p, o.actions, d.safety)

ActiveHigh(d) == {p \in Range(d.chaos) : p.enabled /\ p.class = "high"}
WithinHighCap(d) == d.safety.maxHigh > 0 => Cardinality(ActiveHigh(d)) <= d.safety.maxHigh

ValidChaos(d) ==
    /\ d.safety.maxDelay >= 0 /\ d.safety.maxDrop \in 0 .. 100 /\ d.safety.maxConc >= 0
    /\ d.safety.maxHigh >= 0 /\ d.safety.life >= 0 /\ "bad" \notin Range(d.safety.cidrs)
    /\ WithinHighCap(d) /\ d.safety.groups \subseteq Ids(d.access.groups) \cup {0}
    /\ Keyed(d.chaos) /\ \A p \in Range(d.chaos) : ValidPolicy(d, p)

\* validateRecordChaosRefs, of which compilation repeats the first half.
RefsResolve(d) == \A r \in Range(AllRecords(d)) : r.refs \subseteq Ids(d.chaos)
RefsSpareProtected(d) == \A r \in Range(AllRecords(d)) : r.refs # {} => r.owner \notin d.safety.names

ValidManagement(m) == m.profile \in {"dev-loopback-unauth", "bearer"} /\ "bad" \notin Range(m.origins)

\* validateCNAMELoops: from every alias, follow the aliases until one is met again.
NoCNAMELoops(d) ==
    LET alias == {r \in Range(AllRecords(d)) : r.type = "CNAME" /\ Len(r.values) = 1}
        step(n) == {r.values[1] : r \in {x \in alias : x.owner = n}}
        reach[k \in 0 .. Cardinality(alias), n \in {r.owner : r \in alias} \cup {r.values[1] : r \in alias}] ==
            IF k = 0 THEN step(n) ELSE UNION {step(m) : m \in reach[k - 1, n]} \cup reach[k - 1, n]
    IN  \A r \in alias : r.owner \notin reach[Cardinality(alias), r.owner]

\* validateForwardLoops: an upstream that is this process's own listener.
Wildcards == {"", "0.0.0.0", "::", "*"}
SelfForward(l, u) ==
    /\ u.host \notin {"bad", "none"} /\ l.host # "bad" /\ u.port = l.port
    /\ \/ u.host = l.host /\ l.host # ""
       \/ l.host \in Wildcards /\ u.host \in {"", "localhost", "127.0.0.1", "0.0.0.0", "::"}

Validate(d) ==
    /\ ValidDocument(d) /\ ValidListeners(d.listen) /\ ValidAccess(d.access) /\ ValidDefaults(d.defaults)
    /\ ValidZones(d) /\ ValidForwarding(d) /\ ValidCache(d.cache) /\ ValidChaos(d) /\ RefsResolve(d)
    /\ RefsSpareProtected(d) /\ ValidManagement(d.mgmt) /\ NoCNAMELoops(d)
    /\ \A u \in Range(AllUpstreams(d)) : ~SelfForward(d.listen.dns, u)

-----------------------------------------------------------------------------
(* compiler.Compile: the checks each index makes again. *)

InZone(n, z) == IsPrefix(z.labels, n.labels)

\* compileZone: the apex NS set is added before the records.
Apex(z) == IF z.ns = <<>> THEN <<>> ELSE <<[owner |-> z.name, type |-> "NS"]>>

ZoneCompiles(z) ==
    LET s == Apex(z) \o [k \in DOMAIN z.records |-> [owner |-> z.records[k].owner, type |-> z.records[k].type]]
    IN  /\ OwnersExclusive(s)
        /\ \A r \in Range(z.records) :
              /\ InZone(r.owner, z.name) /\ OwnerSuits(z, r)
              /\ r.type = "SOA" /\ r.owner = z.name => z.soa = "none"

ForwardingCompiles(d) ==
    /\ Keyed(d.pools) /\ Keyed(d.policies)
    /\ \A p \in Range(d.pools) :
          /\ p.strategy # "bad" /\ p.ups # <<>> /\ Keyed(p.ups)
          /\ \A u \in Range(p.ups) : u.host # "none" /\ u.transport \in TransportNames
    /\ Cardinality({p.suffix : p \in Range(d.policies)}) = Len(d.policies)
    /\ \A p \in Range(d.policies) : p.pool \in Ids(d.pools)

AccessCompiles(d) ==
    \A g \in Range(d.access.groups) : g.id # 0 /\ g.cidrs # <<>> /\ "bad" \notin Range(g.cidrs)

ChaosCompiles(d) == Keyed(d.chaos) /\ RefsResolve(d) /\ WithinHighCap(d)

Compile(d) ==
    /\ \A z \in Range(d.zones) : ZoneCompiles(z)
    /\ NoCNAMELoops(d) /\ ForwardingCompiles(d) /\ AccessCompiles(d) /\ ChaosCompiles(d)

-----------------------------------------------------------------------------
(* app.applyOne: an operation is [op, kind, id, zone, has, v]; v is looked at only when has is *)
(* "value", and has "garbled" stands for a value that does not decode.                         *)

Index(s, id) == SelectInSeq(s, LAMBDA e : e.id = id)
Find(s, id) == {e \in Range(s) : e.id = id}

Done(d) == [code |-> "ok", doc |-> d]
Refused(d, code) == [code |-> code, doc |-> d]

\* The six lists of identified objects are edited alike.
EditCode(s, o) ==
    CASE o.id = 0                                       -> "invalid"
      [] o.op = "add" /\ Index(s, o.id) # 0             -> "already_exists"
      [] o.op # "add" /\ Index(s, o.id) = 0             -> "not_found"
      [] o.op # "remove" /\ o.has # "value"             -> "invalid"
      [] o.op # "remove" /\ o.v.id \notin {0, o.id}     -> "invalid"
      [] OTHER                                          -> "ok"

Edit(s, o) ==
    LET v == [o.v EXCEPT !.id = o.id]
    IN  CASE o.op = "add"    -> Append(s, v)
          [] o.op = "update" -> ReplaceAt(s, Index(s, o.id), v)
          [] OTHER           -> RemoveAt(s, Index(s, o.id))

\* A list that is itself a field of the document.
EditField(d, f, o) ==
    IF EditCode(d[f], o) # "ok" THEN Refused(d, EditCode(d[f], o)) ELSE Done([d EXCEPT ![f] = Edit(@, o)])

ApplyClientGroup(d, o) ==
    LET c == EditCode(d.access.groups, o)
    IN  IF c # "ok" THEN Refused(d, c) ELSE Done([d EXCEPT !.access.groups = Allowing(Edit(@, o))])

ApplyRecord(d, o) ==
    LET k == Index(d.zones, o.zone)
        c == EditCode(d.zones[k].records, o)
    IN  CASE o.zone = 0 \/ o.id = 0 -> Refused(d, "invalid")
          [] k = 0                  -> Refused(d, "not_found")
          [] c # "ok"               -> Refused(d, c)
          [] OTHER                  -> Done([d EXCEPT !.zones[k].records = Edit(@, o)])

\* An upstream is found in whichever pool holds it; only an addition names the pool.
ApplyUpstream(d, o) ==
    LET holder == SelectInSeq(d.pools, LAMBDA p : Index(p.ups, o.id) # 0)
        c == EditCode(AllUpstreams(d), o)
        k == IF o.op = "add" THEN Index(d.pools, o.v.pool) ELSE holder
        up == [o EXCEPT !.v = IF o.op = "remove" THEN @ ELSE
                   [id |-> @.id, host |-> @.host, port |-> @.port, transport |-> @.transport]]
    IN  CASE c # "ok"                       -> Refused(d, c)
          [] o.op = "add" /\ o.v.pool = 0   -> Refused(d, "invalid")
          [] k = 0                          -> Refused(d, "not_found")
          [] OTHER                          -> Done([d EXCEPT !.pools[k].ups = Edit(@, up)])

ApplyActivation(d, o) ==
    LET k == Index(d.chaos, o.id)
    IN  CASE o.op # "update" \/ o.id = 0 -> Refused(d, "invalid")
          [] k = 0                       -> Refused(d, "not_found")
          [] o.has # "value"             -> Refused(d, "invalid")
          [] OTHER -> Done([d EXCEPT !.chaos[k].enabled = o.v.enabled, !.chaos[k].expires = o.v.expires])

\* applySingleton: the rest of the document is replaced a section at a time.
Singletons == {"safety", "cache", "defaults", "listen", "access", "obs", "mgmt", "ui"}
ApplySingleton(d, o) ==
    IF o.op # "update" \/ o.has # "value" THEN Refused(d, "invalid")
    ELSE Done([d EXCEPT ![o.kind] = CASE o.kind = "ui"     -> Shown(o.v)
                                      [] o.kind = "access" -> [o.v EXCEPT !.groups = Allowing(@)]
                                      [] OTHER             -> o.v])

ListOf == [zone |-> "zones", policy |-> "policies", pool |-> "pools", chaos |-> "chaos"]

ApplyOne(d, o) ==
    CASE o.op \notin {"add", "update", "remove"} -> Refused(d, "invalid")
      [] o.kind \in DOMAIN ListOf                -> EditField(d, ListOf[o.kind], o)
      [] o.kind = "record"                       -> ApplyRecord(d, o)
      [] o.kind = "upstream"                     -> ApplyUpstream(d, o)
      [] o.kind = "group"                        -> ApplyClientGroup(d, o)
      [] o.kind = "activation"                   -> ApplyActivation(d, o)
      [] o.kind \in Singletons                   -> ApplySingleton(d, o)
      [] OTHER                                   -> Refused(d, "invalid")

-----------------------------------------------------------------------------
(* auth.AuthorizeChange *)

\* ProtectFrom and nameProtected: a protected name covers everything under it; the root never does.
NameProtected(d, n) ==
    n.labels # <<>> /\ \E p \in d.safety.names : p.labels # <<>> /\ IsPrefix(p.labels, n.labels)

\* wildcardCoversProtected: a wildcard that would answer for a protected name below its parent.
CoversName(d, n) ==
    \/ NameProtected(d, n)
    \/ IsWildcard(n) /\ \E p \in d.safety.names \ {Root} : IsStrictPrefix(Front(n.labels), p.labels)

RecordProtected(d, id) ==
    \E z \in Range(d.zones) : \E r \in Find(z.records, id) :
        NameProtected(d, z.name) \/ NameProtected(d, CanonicalName(r.owner, z.name))

Origin(d, id) == IF Find(d.zones, id) = {} THEN Root ELSE (CHOOSE z \in Find(d.zones, id) : TRUE).name

ZoneTouchesProtected(d, o) ==
    \/ /\ o.op \in {"update", "remove"}
       /\ \E z \in Find(d.zones, o.id) :
             CoversName(d, z.name) \/ \E r \in Range(z.records) : RecordProtected(d, r.id)
    \/ o.op # "remove" /\ o.has = "garbled"
    \/ /\ o.op # "remove" /\ o.has = "value"
       /\ \/ CoversName(d, o.v.name)
          \/ \E r \in Range(o.v.records) :
                RecordProtected(d, r.id) \/ CoversName(d, CanonicalName(r.owner, o.v.name))

RecordTouchesProtected(d, o) ==
    \/ o.has = "garbled"
    \/ o.has = "value" /\ (RecordProtected(d, o.v.id) \/ CoversName(d, CanonicalName(o.v.owner, Origin(d, o.zone))))

Endpoint(u) == <<u.host, u.port>>

PoolEndpointChanges(d, o) ==
    \E p \in Find(d.pools, o.id) :
        \/ o.op = "remove" /\ p.ups # <<>>
        \/ o.op # "remove" /\ o.has = "garbled"
        \/ o.op # "remove" /\ o.has = "value" /\ \E u \in Range(p.ups) :
              ~\E n \in Range(o.v.ups) : n.id = u.id /\ Endpoint(n) = Endpoint(u)

UpstreamEndpointChanges(d, o) ==
    \E u \in Find(AllUpstreams(d), o.id) :
        \/ o.op = "remove" \/ o.has = "garbled"
        \/ o.has = "value" /\ o.v.host # "none" /\ Endpoint(o.v) # Endpoint(u)

ClassRank(c) == CASE c \in {"high", "unsafe-deferred"} -> 2 [] c = "medium" -> 1 [] OTHER -> 0
StricterClass(a, b) == IF ClassRank(b) > ClassRank(a) THEN b ELSE a

\* HasScope: dns.admin satisfies every scope.
HasScope(actor, s) == s \in actor \/ "admin" \in actor
CanActivateHigh(actor) == HasScope(actor, "activate") /\ HasScope(actor, "emergency")
Need(actor, s) == IF HasScope(actor, s) THEN "ok" ELSE "forbidden"

AuthorizeActivation(actor, class) ==
    IF HasScope(actor, "activate") /\ (class = "high" => CanActivateHigh(actor)) THEN "ok" ELSE "forbidden"

\* A live policy is changed or removed only by who may activate; a newly live one is judged by
\* the stricter of its old and its new class.
AuthorizeChaosPolicy(actor, d, o) ==
    LET prev == Find(d.chaos, o.id)
        live == \E p \in prev : p.enabled
        class == IF prev = {} THEN o.v.class ELSE StricterClass((CHOOSE p \in prev : TRUE).class, o.v.class)
    IN  CASE o.has = "garbled"                             -> "invalid"
          [] ~HasScope(actor, "chaos")                     -> "forbidden"
          [] live /\ ~HasScope(actor, "activate")          -> "forbidden"
          [] o.op # "remove" /\ o.has = "value" /\ o.v.enabled -> AuthorizeActivation(actor, class)
          [] OTHER                                         -> "ok"

AuthorizeChaosActivation(actor, d, o) ==
    LET prev == Find(d.chaos, o.id)
        class == IF prev = {} THEN "low" ELSE (CHOOSE p \in prev : TRUE).class
    IN  CASE o.has = "garbled"                  -> "invalid"
          [] o.has = "value" /\ o.v.enabled     -> AuthorizeActivation(actor, class)
          [] OTHER                              -> Need(actor, "activate")

AuthorizeOp(actor, d, o) ==
    LET admin == "admin" \in actor
    IN  CASE o.kind = "zone" /\ HasScope(actor, "write") ->
                IF ~admin /\ (NameProtected(d, Origin(d, o.id)) \/ ZoneTouchesProtected(d, o)) THEN "protected" ELSE "ok"
          [] o.kind = "record" /\ HasScope(actor, "write") ->
                IF ~admin /\ (RecordProtected(d, o.id) \/ RecordTouchesProtected(d, o)
                              \/ NameProtected(d, Origin(d, o.zone))) THEN "protected" ELSE "ok"
          [] o.kind = "policy" -> Need(actor, "forward")
          [] o.kind = "pool" /\ HasScope(actor, "forward") ->
                IF ~admin /\ PoolEndpointChanges(d, o) THEN "protected" ELSE "ok"
          [] o.kind = "upstream" /\ HasScope(actor, "forward") ->
                IF ~admin /\ UpstreamEndpointChanges(d, o) THEN "protected" ELSE "ok"
          [] o.kind = "group" -> IF admin THEN "ok" ELSE IF o.id \in d.safety.groups THEN "protected" ELSE "forbidden"
          [] o.kind = "chaos" -> AuthorizeChaosPolicy(actor, d, o)
          [] o.kind = "activation" -> AuthorizeChaosActivation(actor, d, o)
          [] o.kind \in Singletons -> IF admin THEN "ok" ELSE "forbidden"
          [] o.kind \in {"zone", "record", "pool", "upstream"} -> "forbidden"
          [] OTHER -> "invalid"

\* AuthorizeChange: the first operation refused decides; an empty change needs dns.write.
AuthorizeChange(actor, d, ops) ==
    LET bad == SelectInSeq(ops, LAMBDA o : AuthorizeOp(actor, d, o) # "ok")
    IN  CASE ops = <<>> -> Need(actor, "write")
          [] bad # 0    -> AuthorizeOp(actor, d, ops[bad])
          [] OTHER      -> "ok"

\* Judging a policy by the class it is given and not by the one it had.
ScopesForOpGiven(d, o) ==
    LET prev == Find(d.chaos, o.id)
        on == o.has = "value" /\ o.v.enabled
    IN  CASE o.kind \in {"zone", "record"} -> {"write"}
          [] o.kind = "policy" -> {"forward"}
          [] o.kind = "pool" -> {"forward"} \cup IF PoolEndpointChanges(d, o) THEN {"admin"} ELSE {}
          [] o.kind = "upstream" -> {"forward"} \cup IF UpstreamEndpointChanges(d, o) THEN {"admin"} ELSE {}
          [] o.kind = "chaos" ->
                {"chaos"} \cup (IF on \/ \E p \in prev : p.enabled THEN {"activate"} ELSE {})
                          \cup (IF on /\ o.v.class = "high" THEN {"emergency"} ELSE {})
          [] o.kind = "activation" -> {"activate"} \cup IF \E p \in prev : p.class = "high" THEN {"emergency"} ELSE {}
          [] o.kind \in Singletons \cup {"group"} -> {"admin"}
          [] OTHER -> {"write"}

\* scopesForOp: what a plan tells the caller the change needs.
ScopesForOp(d, o) ==
    LET prev == Find(d.chaos, o.id)
        on == o.has = "value" /\ o.v.enabled
        class == IF prev = {} THEN o.v.class ELSE StricterClass((CHOOSE p \in prev : TRUE).class, o.v.class)
    IN  CASE o.kind \in {"zone", "record"} -> {"write"}
          [] o.kind = "policy" -> {"forward"}
          [] o.kind = "pool" -> {"forward"} \cup IF PoolEndpointChanges(d, o) THEN {"admin"} ELSE {}
          [] o.kind = "upstream" -> {"forward"} \cup IF UpstreamEndpointChanges(d, o) THEN {"admin"} ELSE {}
          [] o.kind = "chaos" ->
                {"chaos"} \cup (IF on \/ \E p \in prev : p.enabled THEN {"activate"} ELSE {})
                          \cup (IF on /\ class = "high" THEN {"emergency"} ELSE {})
          [] o.kind = "activation" -> {"activate"} \cup IF \E p \in prev : p.class = "high" THEN {"emergency"} ELSE {}
          [] o.kind \in Singletons \cup {"group"} -> {"admin"}
          [] OTHER -> {"write"}

-----------------------------------------------------------------------------
(* app.buildCandidate *)

\* Authorizing every operation against the document the change set started from.
ApplyAuthorizedOnce(actor, d, ops) ==
    LET step(acc, o) ==
            IF acc.code # "ok" THEN acc
            ELSE IF AuthorizeOp(actor, d, o) # "ok" THEN [acc EXCEPT !.code = AuthorizeOp(actor, d, o)]
            ELSE ApplyOne(acc.doc, o) @@ [scopes |-> acc.scopes \cup ScopesForOp(d, o)]
    IN  FoldLeft(step, Done(d) @@ [scopes |-> IF ops = <<>> THEN {"write"} ELSE {}], ops)

\* applyAuthorized: each operation is authorized against the candidate the ones before it left.
ApplyAuthorized(actor, d, ops) ==
    LET step(acc, o) ==
            IF acc.code # "ok" THEN acc
            ELSE IF AuthorizeOp(actor, acc.doc, o) # "ok" THEN [acc EXCEPT !.code = AuthorizeOp(actor, acc.doc, o)]
            ELSE ApplyOne(acc.doc, o) @@ [scopes |-> acc.scopes \cup ScopesForOp(acc.doc, o)]
    IN  FoldLeft(step, Done(d) @@ [scopes |-> IF ops = <<>> THEN {"write"} ELSE {}], ops)

\* compileCandidate: nothing is swapped in unless every stage accepts it.  What an index
\* refuses after validation is an internal error.
CompileCandidate(c) ==
    LET n == Normalize(c.doc)
    IN  CASE c.code # "ok"                              -> c
          [] ~(NormalizeOK(c.doc) /\ Validate(n))       -> [c EXCEPT !.code = "invalid"]
          [] ~Compile(n)                                -> [c EXCEPT !.code = "internal", !.doc = n]
          [] OTHER                                      -> [c EXCEPT !.doc = n]

\* The whole change set is authorized against the live document first.
BuildCandidate(actor, d, ops) ==
    LET code == AuthorizeChange(actor, d, ops)
    IN  IF code # "ok" THEN Refused(d, code) @@ [scopes |-> {}]
        ELSE CompileCandidate(ApplyAuthorized(actor, d, ops))

\* Load of a document, and the compilation that follows it at start and at reset.
Load(d) == CompileCandidate(Done(Decode(d)) @@ [scopes |-> {}])

-----------------------------------------------------------------------------
(* app.diffStates: the document as a tree whose lists are compared place by place. *)

\* An entry is <<path, op, value after>>.
DiffFields(path, x, y) == {<<Append(path, f), "update", y[f]>> : f \in {g \in DOMAIN x : x[g] # y[g]}}

\* The places both lists have are compared, the others added or removed.
Common(x, y) == 1 .. Min({Len(x), Len(y)})
DiffLength(path, x, y) ==
    {<<Append(path, k), "add", y[k]>> : k \in Len(x) + 1 .. Len(y)}
    \cup {<<Append(path, k), "remove", "none">> : k \in Len(y) + 1 .. Len(x)}
DiffList(path, x, y) ==
    DiffLength(path, x, y) \cup UNION {DiffFields(Append(path, k), x[k], y[k]) : k \in Common(x, y)}

Lists == {"policies", "pools", "chaos"}
\* Stopping at the end of the shorter list of records.
DiffZoneShort(path, x, y) ==
    LET bare(z) == [id |-> z.id, name |-> z.name, mode |-> z.mode, soa |-> z.soa, ns |-> z.ns]
    IN  DiffFields(path, bare(x), bare(y))
        \cup UNION {DiffFields(path \o <<"records", k>>, x.records[k], y.records[k]) :
                      k \in Common(x.records, y.records)}

DiffZone(path, x, y) ==
    LET bare(z) == [id |-> z.id, name |-> z.name, mode |-> z.mode, soa |-> z.soa, ns |-> z.ns]
    IN  DiffFields(path, bare(x), bare(y)) \cup DiffList(Append(path, "records"), x.records, y.records)

Diff(x, y) ==
    DiffFields(<<>>, [f \in Singletons |-> x[f]], [f \in Singletons |-> y[f]])
    \cup UNION {DiffList(<<f>>, x[f], y[f]) : f \in Lists}
    \cup DiffLength(<<"zones">>, x.zones, y.zones)
    \cup UNION {DiffZone(<<"zones", k>>, x.zones[k], y.zones[k]) : k \in Common(x.zones, y.zones)}

(* app.impactOf *)

\* recordsByID and recordEqual: the records of z that x has not, or has otherwise.
Fresh(x, z) == {r \in Range(z.records) : r \notin Range(x.records)}
Gone(x, z) == {r \in Range(x.records) : r.id \notin Ids(z.records)}

ImpactNames(x, y) ==
    {r.owner : r \in
        UNION {Fresh(p, z) \cup Gone(p, z) : <<p, z>> \in {w \in Range(x.zones) \X Range(y.zones) : w[1].id = w[2].id}}
        \cup UNION {Range(z.records) : z \in {w \in Range(y.zones) : w.id \notin Ids(x.zones)}}
        \cup UNION {Range(z.records) : z \in {w \in Range(x.zones) : w.id \notin Ids(y.zones)}}}

ImpactZones(x, y) ==
    (Ids(x.zones) \ Ids(y.zones)) \cup (Ids(y.zones) \ Ids(x.zones))
    \cup {w[2].id : w \in {v \in Range(x.zones) \X Range(y.zones) :
              /\ v[1].id = v[2].id
              /\ v[1].mode # v[2].mode \/ v[1].name # v[2].name \/ Fresh(v[1], v[2]) \cup Gone(v[1], v[2]) # {}}}

\* chaosImpact: what is switched on or off, or given another expiry.
ImpactChaos(x, y) ==
    (Ids(x.chaos) \ Ids(y.chaos))
    \cup {p.id : p \in {q \in Range(y.chaos) :
              ~\E w \in Range(x.chaos) : w.id = q.id /\ w.enabled = q.enabled /\ w.expires = q.expires}}

ImpactOf(x, y) ==
    [names |-> ImpactNames(x, y), zones |-> ImpactZones(x, y), chaos |-> ImpactChaos(x, y),
     forwarding |-> <<x.policies, x.pools>> # <<y.policies, y.pools>>,
     groups |-> IF x.access.groups = y.access.groups THEN {} ELSE Ids(x.access.groups) \cup Ids(y.access.groups)]

-----------------------------------------------------------------------------
(* app.bootstrapToRuntime *)

SortedIds(s, t) == SetToSortSeq(Ids(s) \cup Ids(t), <)
Op(op, kind, id, zone, v) == [op |-> op, kind |-> kind, id |-> id, zone |-> zone, has |-> "value", v |-> v]

SingletonOps(x, y) ==
    LET order == <<"listen", "defaults", "cache", "obs", "mgmt", "ui", "safety", "access">>
        changed == SelectSeq(order, LAMBDA f : x[f] # y[f])
    IN  [k \in DOMAIN changed |-> Op("update", changed[k], 0, 0, y[changed[k]])]

\* Without the removals.
KeyedOpsGrowing(kind, zone, s, t) ==
    LET one(id) ==
            LET j == Index(s, id)
                k == Index(t, id)
            IN  CASE j = 0                       -> <<Op("add", kind, id, zone, t[k])>>
                  [] k # 0 /\ s[j] # t[k]        -> <<Op("update", kind, id, zone, t[k])>>
                  [] OTHER                       -> <<>>
        ids == SortedIds(s, t)
    IN  FlattenSeq([k \in DOMAIN ids |-> one(ids[k])])

\* keyedOps and recordOps: the difference of two lists by identifier.
KeyedOps(kind, zone, s, t) ==
    LET one(id) ==
            LET j == Index(s, id)
                k == Index(t, id)
            IN  CASE j = 0          -> <<Op("add", kind, id, zone, t[k])>>
                  [] k = 0          -> <<Op("remove", kind, id, zone, s[j])>>
                  [] s[j] # t[k]    -> <<Op("update", kind, id, zone, t[k])>>
                  [] OTHER          -> <<>>
        ids == SortedIds(s, t)
    IN  FlattenSeq([k \in DOMAIN ids |-> one(ids[k])])

\* A zone whose own fields are as they were is changed record by record.
ZoneOps(s, t) ==
    LET one(id) ==
            LET j == Index(s, id)
                k == Index(t, id)
            IN  IF j # 0 /\ k # 0 /\ s[j] = [t[k] EXCEPT !.records = s[j].records]
                THEN KeyedOps("record", id, s[j].records, t[k].records)
                ELSE KeyedOps("zone", 0, SelectSeq(s, LAMBDA z : z.id = id), SelectSeq(t, LAMBDA z : z.id = id))
        ids == SortedIds(s, t)
    IN  FlattenSeq([k \in DOMAIN ids |-> one(ids[k])])

BootstrapToRuntime(x, y) ==
    SingletonOps(x, y) \o ZoneOps(x.zones, y.zones) \o KeyedOps("policy", 0, x.policies, y.policies)
    \o KeyedOps("pool", 0, x.pools, y.pools) \o KeyedOps("chaos", 0, x.chaos, y.chaos)

\* auth.RedactOperations: the only secret of a document is the management section's reference
\* to one, "" when there is none.
RedactSecret(mgmt) == [mgmt EXCEPT !.secret = IF @ = "" THEN @ ELSE "[redacted]"]
RedactOperations(ops) ==
    [k \in DOMAIN ops |-> IF ops[k].kind = "mgmt" THEN [ops[k] EXCEPT !.v = RedactSecret(@)] ELSE ops[k]]

\* The operations Export lists.
ExportedOperations(x, y) == RedactOperations(BootstrapToRuntime(x, y))

=============================================================================
