--------------------------- MODULE Configuration ---------------------------
(***************************************************************************)
(* Change sets over the configuration document: the bootstrap file is      *)
(* loaded once, then actors submit change sets, each of which is           *)
(* authorized, applied to a private copy, normalized, validated, compiled  *)
(* and only then made live.  Everything a change set does happens under    *)
(* the application's mutex, so it is one action; what interleaves is the   *)
(* sequence of change sets.                                                *)
(***************************************************************************)
EXTENDS Document

CONSTANTS
    Scenarios,      \* [file: the bootstrap document, mount: the file at a later reset,
                    \*  ops: the operations in use, actors: who submits them, as sets of scopes]
    MaxOps,         \* operations in one change set
    MaxChanges      \* accepted change sets

VARIABLES
    sc,         \* the scenario, chosen once
    stage,      \* "start", "serving" or "stopped"
    boot,       \* canonical bootstrap document
    live,       \* canonical running document
    last,       \* the last change set: who, what, the verdict and the document it started from
    changes     \* number of change sets accepted

vars == <<sc, stage, boot, live, last, changes>>

NoDocument == [header |-> "none"]
NoImpact == [names |-> {}]
NoChange == [actor |-> {}, ops |-> <<>>, base |-> NoDocument, out |-> [code |-> "none"], impact |-> NoImpact]

Init ==
    /\ sc \in Scenarios
    /\ stage = "start" /\ boot = NoDocument /\ live = NoDocument /\ last = NoChange /\ changes = 0

\* app start: the process serves what Load accepts and stops otherwise.
Boot ==
    /\ stage = "start"
    /\ LET c == Load(sc.file)
       IN  IF c.code = "ok" THEN stage' = "serving" /\ boot' = c.doc /\ live' = c.doc
           ELSE stage' = "stopped" /\ UNCHANGED <<boot, live>>
    /\ UNCHANGED <<sc, last, changes>>

\* A refused change set leaves the document as it was, so a behaviour is not followed past it.
Open == stage = "serving" /\ changes < MaxChanges /\ last.out.code \in {"none", "ok"}

\* applyLocked, the expected revision being the live one.
Apply(actor, ops) ==
    /\ Open
    /\ LET c == BuildCandidate(actor, live, ops)
           ok == c.code = "ok"
       IN  /\ live' = IF ok THEN c.doc ELSE live
           /\ last' = [actor |-> actor, ops |-> ops, base |-> live, out |-> c,
                       impact |-> IF ok THEN ImpactOf(live, c.doc) ELSE NoImpact]
           /\ changes' = IF ok THEN changes + 1 ELSE changes
    /\ UNCHANGED <<sc, stage, boot>>

\* Reset: the mounted file is loaded again, and becomes the bootstrap document if it can be.
Reset(actor) ==
    /\ Open /\ "admin" \in actor
    /\ LET c == Load(sc.mount)
       IN  IF c.code = "ok" THEN boot' = c.doc /\ live' = c.doc /\ last' = NoChange
           ELSE last' = [NoChange EXCEPT !.out = [code |-> c.code, doc |-> c.doc]] /\ UNCHANGED <<boot, live>>
    /\ changes' = changes + 1
    /\ UNCHANGED <<sc, stage>>

Rest == stage # "start" /\ ~Open /\ UNCHANGED vars

Next ==
    \/ Boot \/ Rest
    \/ \E actor \in sc.actors : Reset(actor) \/ \E ops \in SeqOf(sc.ops, MaxOps) : Apply(actor, ops)

Spec == Init /\ [][Next]_vars

-----------------------------------------------------------------------------
(* Properties *)

Accepted == last.out.code = "ok"

\* A document without the order of its lists.
Contents(d) ==
    [f \in DOMAIN d |->
        CASE f = "zones" -> {[z EXCEPT !.records = Range(@)] : z \in Range(d.zones)}
          [] f \in Lists -> Range(d[f])
          [] OTHER       -> d[f]]

Replay == CompileCandidate(FoldLeft(LAMBDA acc, o : IF acc.code = "ok" THEN ApplyOne(acc.doc, o) ELSE acc,
                                    Done(boot), ExportedOperations(boot, live)))

\* The running document as an export may show it: once the management section has changed, the
\* secret reference in it is hidden.
Shareable == IF live.mgmt = boot.mgmt THEN live ELSE [live EXCEPT !.mgmt = RedactSecret(@)]

\* The elements t shares with s come first, in the order of s, and then the new ones by identifier.
InOrder(s, t) ==
    LET ids(q) == [k \in DOMAIN q |-> q[k].id]
    IN  ids(t) = SelectSeq(ids(s), LAMBDA i : i \in Ids(t)) \o SetToSortSeq(Ids(t) \ Ids(s), <)
OrderKept ==
    /\ InOrder(boot.zones, live.zones) /\ \A f \in Lists : InOrder(boot[f], live[f])
    /\ \A x \in Range(boot.zones) : \A y \in Find(live.zones, x.id) : InOrder(x.records, y.records)

\* The exported operations, applied to a fresh bootstrap, are all accepted and give the
\* running configuration but for a secret reference, whatever edits led to it. The revision is
\* a hash of the ordered document: replaying lands on the same one only as far as the running
\* lists keep the bootstrap's order, since a replay leaves what did not change in its place and
\* appends the rest by identifier.
ExportReplays ==
    stage = "serving" =>
        /\ Replay.code = "ok" /\ Contents(Replay.doc) = Contents(Shareable)
        /\ OrderKept => Replay.doc = Shareable

\* A document patched with the entries of a diff, place by place.
PatchFields(path, x, entries) ==
    [f \in DOMAIN x |-> LET e == {i \in entries : i[1] = Append(path, f)}
                        IN  IF e = {} THEN x[f] ELSE (CHOOSE i \in e : TRUE)[3]]
PatchList(path, x, entries, Below(_, _, _)) ==
    LET at(op) == {i \in entries : i[2] = op /\ Len(i[1]) = Len(path) + 1 /\ IsPrefix(path, i[1])}
        new(k) == {i \in at("add") : i[1] = Append(path, k)}
    IN  [k \in 1 .. Len(x) + Cardinality(at("add")) - Cardinality(at("remove")) |->
            IF k <= Len(x) THEN Below(Append(path, k), x[k], entries) ELSE (CHOOSE i \in new(k) : TRUE)[3]]
PatchZone(path, z, entries) ==
    [PatchFields(path, z, entries) EXCEPT
        !.records = PatchList(Append(path, "records"), z.records, entries, PatchFields)]
Patch(d, entries) ==
    [f \in DOMAIN d |-> CASE f = "zones"     -> PatchList(<<f>>, d[f], entries, PatchZone)
                          [] f \in Lists     -> PatchList(<<f>>, d[f], entries, PatchFields)
                          [] OTHER           -> PatchFields(<<>>, d, entries)[f]]

\* The data of a name in a zone of a document.
DataAt(d, zone, n) ==
    {[type |-> r.type, ttl |-> r.ttl, values |-> r.values] :
        r \in {x \in UNION {Range(z.records) : z \in Find(d.zones, zone)} : x.owner = n}}
Owners(d) == UNION {NamesOf(z) : z \in Range(d.zones)}
ChangedAt(zone) == {n \in Owners(last.base) \cup Owners(live) : DataAt(last.base, zone, n) # DataAt(live, zone, n)}

\* What a plan tells of an accepted change is what it did: patching the old document with the
\* diff gives the new one, and every name that gained other data than before appears in the
\* impact, as does its zone.
PlanIsExact ==
    Accepted =>
        /\ Patch(last.base, Diff(last.base, live)) = live
        /\ \A zone \in Ids(live.zones) : \A n \in ChangedAt(zone) :
              zone \in last.impact.zones /\ (DataAt(live, zone, n) # {} => n \in last.impact.names)

\* The records under a name the old document protects, and the policies that run.
UnderProtected(d) == {r \in Range(AllRecords(d)) : NameProtected(last.base, r.owner)}
Running(d) == {p \in Range(d.chaos) : p.enabled}

\* The document after the first k operations of the last change set.
After(k) == FoldLeft(LAMBDA d, o : ApplyOne(d, o).doc, last.base, SubSeq(last.ops, 1, k))
\* The policies that were classed unsafe-deferred, which no running policy may be, at some point
\* of the change set.
WereDeferred ==
    {p.id : p \in {q \in UNION {Range(After(k).chaos) : k \in 0 .. Len(last.ops)} : q.class = "unsafe-deferred"}}

\* What an accepted change altered its actor may alter, through every intermediate document of
\* the set. Without dns.admin no record under a protected name comes, goes or changes, even
\* through a zone created or renamed earlier in the set, and every upstream keeps its endpoint
\* and its pool. A policy starts to run only for who may activate, and a high-impact one only
\* for who may activate high impact, even if the set created it or changed its class. The one
\* exception is a policy that was unsafe-deferred before: stricterClass ranks that class with
\* high and keeps the old one, and authorizeActivation asks more only of the class high, so
\* an update that makes such a policy high and enables it passes without chaos.emergency.
ChangesAreEarned ==
    Accepted =>
        /\ "admin" \notin last.actor =>
              /\ UnderProtected(last.base) = UnderProtected(live)
              /\ \A p \in Range(last.base.pools) : \A u \in Range(p.ups) :
                    \E q \in Find(live.pools, p.id) : \E v \in Find(q.ups, u.id) : Endpoint(v) = Endpoint(u)
        /\ ~HasScope(last.actor, "activate") => Running(last.base) = Running(live)
        /\ \A p \in ActiveHigh(live) \ ActiveHigh(last.base) : CanActivateHigh(last.actor) \/ p.id \in WereDeferred

\* The scopes a plan lists are the ones its operations are asked for: a caller who passes holds
\* all of them, but for switching off a high-impact policy, where the plan lists more than is
\* asked; and to a caller with just these no operation is forbidden, each on the document the
\* ones before it left. (A protected name asks for dns.admin without the plan listing it, and
\* the check of the whole set against the live document may ask more of a policy the set
\* first lowers or removes.)
PlanScopesExact ==
    Accepted =>
        /\ (\A o \in Range(last.ops) : o.kind = "activation" => o.v.enabled) =>
              \A s \in last.out.scopes : HasScope(last.actor, s)
        /\ ApplyAuthorized(last.out.scopes, last.base, last.ops).code # "forbidden"

=============================================================================
