------------------------------ MODULE Resolver ------------------------------
(***************************************************************************)
(* The local data path: resolver.Compile builds the zone index, classify   *)
(* picks group, zone and forwarding policy, resolver.Resolve walks the     *)
(* zone one owner at a time and Handler.answer forwards what falls         *)
(* through.                                                                *)
(*                                                                         *)
(* A document is a scenario: zones, access entries, forwarding suffixes.   *)
(* An access entry is one CIDR of a client group, in the order in which    *)
(* CompileAccess lists them; an address and a CIDR are bits.  Record data  *)
(* are opaque values, or one name for a CNAME; an answer is the set of the *)
(* RRsets one owner gives.  Lifetimes, the order of RRsets (by type) and   *)
(* the SOA's text are left out.                                            *)
(***************************************************************************)
EXTENDS DomainNames

CONSTANTS
    Labels,
    Documents,
    Queries     \* [name, type, client]

NoName == <<"none">>

\* The members of a list.  Functions is left out to keep the proofs' context small.
Elements(s) == {s[k] : k \in DOMAIN s}
Distinct(s) == \A j, k \in DOMAIN s : s[j] = s[k] => j = k

\* The leftmost label is the only one that may be a wildcard.
CheckDNSName(n) == \A k \in DOMAIN n : n[k] = "*" => k = Len(n)

\* config.Validate parses names, aliases' targets and CIDRs; an owner may still be refused.
WellFormed ==
    /\ "none" \notin Labels
    /\ \A d \in Documents :
          /\ d.zones \in Seq(Elements(d.zones)) /\ d.access \in Seq(Elements(d.access))
          /\ d.forwarding \in Seq(Elements(d.forwarding))
          /\ \A i \in DOMAIN d.zones :
                /\ d.zones[i].name \in Seq(Labels) /\ CheckDNSName(d.zones[i].name)
                /\ d.zones[i].records \in Seq(Elements(d.zones[i].records))
                /\ \A r \in Elements(d.zones[i].records) :
                      r.owner \in Seq(Labels) \cup {NoName} /\ CheckDNSName(r.owner) /\ (r.type = "CNAME" => r.data[1] \in Seq(Labels))
          /\ \A i \in DOMAIN d.access : d.access[i].prefix \in Seq({0, 1})
          /\ \A i \in DOMAIN d.forwarding : d.forwarding[i].name \in Seq(Labels)
    /\ \A x \in Queries : x.name \in Seq(Labels) /\ x.client \in Seq({0, 1})

ASSUME DocumentAssumption == WellFormed

VARIABLES
    doc,        \* the document, fixed
    stage,      \* "compile", "rejected", "idle", "walk", "local", "upstream", "done"
    q, cl,      \* the query and its class
    current, seen, depth, answers, source, wild, encl,    \* the locals of resolveInZone
    out,        \* the local result
    asked,      \* what is sent upstream
    final       \* what answer returns

walk == <<current, seen, depth, answers, source, wild, encl>>
vars == <<doc, stage, q, cl, walk, out, asked, final>>

NoQ == [name |-> NoName, type |-> "", client |-> <<>>]
NoClass == [group |-> "", allow |-> FALSE, zone |-> 0, fwd |-> 0]
NoOut == [rcode |-> "", aa |-> FALSE, through |-> FALSE, negative |-> FALSE, answers |-> <<>>, why |-> ""]
NoAsk == [name |-> NoName, fwd |-> 0]

Z == doc.zones[cl.zone]
Apex(z) == z.name

Reset ==
    /\ current' = NoName /\ seen' = {} /\ depth' = 0 /\ answers' = <<>>
    /\ source' = "exact" /\ wild' = "" /\ encl' = NoName

Init ==
    /\ doc \in Documents
    /\ stage = "compile"
    /\ q = NoQ /\ cl = NoClass
    /\ current = NoName /\ seen = {} /\ depth = 0 /\ answers = <<>>
    /\ source = "exact" /\ wild = "" /\ encl = NoName
    /\ out = NoOut /\ asked = NoAsk /\ final = NoOut

-----------------------------------------------------------------------------
(* resolver.Compile, and what config.Validate requires of owners. *)

\* A zone's nameservers are an RRset of its apex.
RRsets(z) ==
    Elements(z.records) \cup
    (IF z.ns THEN {[id |-> "", owner |-> Apex(z), type |-> "NS", data |-> <<"ns">>]} ELSE {})

ValidRecord(z, r) ==
    /\ r.owner # NoName /\ InZone(r.owner, Apex(z))
    /\ IsWildcardOwner(r.owner) => r.type \notin {"NS", "DNAME"}
    /\ ~(r.type = "CNAME" /\ z.mode = "authoritative" /\ r.owner = Apex(z))
    /\ ~(r.type = "SOA" /\ r.owner = Apex(z) /\ z.soa)
    /\ r.type = "CNAME" => Len(r.data) = 1

\* addRRset: one RRset per owner and type, a CNAME alone at its owner.
Coexist(rrs) ==
    \A r, s \in rrs : r # s /\ r.owner = s.owner => r.type # s.type /\ "CNAME" \notin {r.type, s.type}

CNames(zs) == {r \in UNION {Elements(zs[i].records) : i \in DOMAIN zs} : r.type = "CNAME"}

\* Some walk along CNAMEs never ends: a set of them leads back into itself.
DetectCNAMELoops(cs) ==
    \E C \in SUBSET cs : C # {} /\ \A c \in C : \E e \in C : e.owner = c.data[1]

CompileOK(zs) ==
    /\ \A i, j \in DOMAIN zs : i # j => zs[i].id # zs[j].id /\ zs[i].name # zs[j].name
    /\ \A i \in DOMAIN zs : zs[i].id # "" /\ \A r \in Elements(zs[i].records) : ValidRecord(zs[i], r)
    /\ \A i \in DOMAIN zs : Distinct(zs[i].records) /\ Coexist(RRsets(zs[i]))
    /\ ~DetectCNAMELoops(CNames(zs))

\* config.validateRecord keeps owners unique across zones.
OwnersUnique(zs) ==
    \A i, j \in DOMAIN zs : i # j =>
        \A r \in Elements(zs[i].records), s \in Elements(zs[j].records) : r.owner = s.owner =>
            r.type # s.type /\ "CNAME" \notin {r.type, s.type}

Compile ==
    /\ stage = "compile"
    /\ stage' = IF OwnersUnique(doc.zones) /\ CompileOK(doc.zones) THEN "idle" ELSE "rejected"
    /\ UNCHANGED <<doc, q, cl, walk, out, asked, final>>

-----------------------------------------------------------------------------
(* classify *)

SelectZone(n) == SelectSuffix(n, doc.zones)
SelectForwarding(n) == SelectSuffix(n, doc.forwarding)

\* A CIDR holds an address that begins with its bits.
PrefixHolds(i, a) == doc.access[i].prefix \in Ancestors(a)
Bits(i) == Len(doc.access[i].prefix)
Beats(a, k, best) == PrefixHolds(k, a) /\ (best = 0 \/ Bits(k) > Bits(best))

\* AccessIndex.Classify: the longest prefix, the first configured among equals.
BestEntry(a) ==
    LET best[k \in 0..Len(doc.access)] ==
            IF k = 0 THEN 0 ELSE IF Beats(a, k, best[k - 1]) THEN k ELSE best[k - 1]
    IN  best[Len(doc.access)]

ClassifyClient(a) ==
    IF BestEntry(a) = 0 THEN [group |-> "", allow |-> FALSE]
    ELSE [group |-> doc.access[BestEntry(a)].group, allow |-> doc.access[BestEntry(a)].allow]

\* A query is classified; Resolve answers from the selected zone.
Arrive(qq) ==
    LET g == ClassifyClient(qq.client)
        zone == SelectZone(qq.name)
    IN  /\ stage = "idle"
        /\ q' = qq
        /\ cl' = [group |-> g.group, allow |-> g.allow, zone |-> zone,
                  fwd |-> IF g.allow THEN SelectForwarding(qq.name) ELSE 0]
        /\ IF zone = 0
           THEN stage' = "local" /\ out' = NoOut /\ UNCHANGED walk
           ELSE /\ stage' = "walk" /\ current' = qq.name
                /\ UNCHANGED <<seen, depth, answers, source, wild, encl, out>>
        /\ UNCHANGED <<doc, asked, final>>

-----------------------------------------------------------------------------
(* resolveInZone *)

\* Only owners of records exist.
ExistOwners == {Apex(Z)} \cup {r.owner : r \in RRsets(Z)}

Exist == {Apex(Z)} \cup UNION {{n \in Ancestors(r.owner) : InZone(n, Apex(Z))} : r \in RRsets(Z)}

HasName(n) == n \in Exist
RRset(n, t) == {r \in RRsets(Z) : r.owner = n /\ r.type = t}
ClosestEncloser(n) ==
    CHOOSE a \in Ancestors(n) \cap Exist : a # n /\ \A b \in Ancestors(n) \cap Exist : b # n => Len(b) <= Len(a)

\* An RRset answers under the name that was asked.
ToRRs(r, owner) == [owner |-> owner, type |-> r.type, data |-> r.data, rec |-> r.id, src |-> r.owner]
AllToRRs(S, owner) == {ToRRs(r, owner) : r \in S}
FirstID(S) == (CHOOSE r \in S : TRUE).id
SOASet(n) == IF Z.soa /\ n = Apex(Z) THEN {[id |-> "", owner |-> n, type |-> "SOA", data |-> <<"soa">>]} ELSE {}

\* What Resolve may return.
Positive(as) == [NoOut EXCEPT !.rcode = "NOERROR", !.aa = Z.mode = "authoritative", !.answers = as]
Fallthrough(as) == [NoOut EXCEPT !.rcode = "NOERROR", !.through = TRUE, !.answers = as]
Negative(rc, as) == [NoOut EXCEPT !.rcode = rc, !.aa = TRUE, !.negative = TRUE, !.answers = as]
ServFail(why) == [NoOut EXCEPT !.rcode = "SERVFAIL", !.why = why]

\* missExisting and missNonexistent: an overlay has no say in what it lacks.
Miss(rc, as) == IF Z.mode = "overlay" THEN Fallthrough(as) ELSE Negative(rc, as)

Finish(o) == stage' = "local" /\ out' = o
Walking == stage = "walk" /\ current \notin seen /\ InZone(current, Apex(Z))
Exact == Walking /\ HasName(current)
Synth == Walking /\ ~HasName(current)
Wc == WildcardOwner(ClosestEncloser(current))

\* The chain returned to a name.
Loop ==
    /\ stage = "walk" /\ current \in seen
    /\ Finish(ServFail("loop"))
    /\ UNCHANGED <<doc, q, cl, walk, asked, final>>

\* The chain left the zone.
Leave ==
    /\ stage = "walk" /\ current \notin seen /\ ~InZone(current, Apex(Z))
    /\ Finish(IF Z.mode = "overlay" THEN Fallthrough(answers) ELSE Positive(answers))
    /\ UNCHANGED <<doc, q, cl, walk, asked, final>>

\* The RRsets of the asked type at a name; ANY collects all of them, SOA comes from the zone.
Matching(n) ==
    IF q.type = "ANY"
    THEN SOASet(n) \cup {r \in RRsets(Z) : r.owner = n}
    ELSE IF q.type = "SOA" /\ SOASet(n) # {} THEN SOASet(n) ELSE RRset(n, q.type)

Chases == q.type \notin {"CNAME", "ANY"}

ExactAnswer ==
    /\ Exact /\ Matching(current) # {}
    /\ answers' = Append(answers, AllToRRs(Matching(current), current))
    /\ Finish(Positive(answers'))
    /\ UNCHANGED <<doc, q, cl, current, seen, depth, source, wild, encl, asked, final>>

\* followCNAME
Follow(r, as) ==
    /\ answers' = as
    /\ depth' = depth + 1
    /\ seen' = seen \cup {current}
    /\ IF depth + 1 > doc.maxDepth
       THEN Finish(ServFail("depth")) /\ UNCHANGED current
       ELSE current' = r.data[1] /\ UNCHANGED <<stage, out>>

ExactFollow ==
    /\ Exact /\ Matching(current) = {} /\ Chases
    /\ \E r \in RRset(current, "CNAME") : Follow(r, Append(answers, AllToRRs({r}, current)))
    /\ UNCHANGED <<doc, q, cl, source, wild, encl, asked, final>>

ExactMiss ==
    /\ Exact /\ Matching(current) = {} /\ (Chases => RRset(current, "CNAME") = {})
    /\ Finish(Miss("NOERROR", answers))
    /\ UNCHANGED <<doc, q, cl, walk, asked, final>>

\* The wildcard below the closest encloser, as the source of a synthesis.
Synthesize(id) ==
    source' = "wildcard" /\ wild' = id /\ encl' = ClosestEncloser(current)

WildMatching == IF q.type = "ANY" THEN {r \in RRsets(Z) : r.owner = Wc} ELSE RRset(Wc, q.type)

WildAnswer ==
    /\ Synth /\ WildMatching # {}
    /\ answers' = Append(answers, AllToRRs(WildMatching, current))
    /\ Synthesize(FirstID(WildMatching))
    /\ Finish(Positive(answers'))
    /\ UNCHANGED <<doc, q, cl, current, seen, depth, asked, final>>

WildFollow ==
    /\ Synth /\ WildMatching = {} /\ Chases
    /\ \E r \in RRset(Wc, "CNAME") : Follow(r, Append(answers, AllToRRs({r}, current))) /\ Synthesize(r.id)
    /\ UNCHANGED <<doc, q, cl, asked, final>>

\* What no wildcard answers does not exist.
WildMissNX ==
    /\ Synth /\ WildMatching = {} /\ (Chases => RRset(Wc, "CNAME") = {})
    /\ Finish(Miss("NXDOMAIN", answers))
    /\ encl' = IF answers = <<>> /\ q.type # "ANY" THEN ClosestEncloser(current) ELSE encl
    /\ wild' = IF answers = <<>> /\ q.type # "ANY" /\ {r \in RRsets(Z) : r.owner = Wc} # {}
               THEN FirstID({r \in RRsets(Z) : r.owner = Wc}) ELSE wild
    /\ UNCHANGED <<doc, q, cl, current, seen, depth, answers, source, asked, final>>

\* RFC 4592: a source of synthesis without the asked type is NODATA.
WildMiss ==
    /\ Synth /\ WildMatching = {} /\ (Chases => RRset(Wc, "CNAME") = {})
    /\ Finish(Miss(IF HasName(Wc) /\ q.type # "ANY" THEN "NOERROR" ELSE "NXDOMAIN", answers))
    /\ encl' = IF answers = <<>> /\ q.type # "ANY" THEN ClosestEncloser(current) ELSE encl
    /\ wild' = IF answers = <<>> /\ q.type # "ANY" /\ {r \in RRsets(Z) : r.owner = Wc} # {}
               THEN FirstID({r \in RRsets(Z) : r.owner = Wc}) ELSE wild
    /\ UNCHANGED <<doc, q, cl, current, seen, depth, answers, source, asked, final>>

-----------------------------------------------------------------------------
(* Handler.answer *)

Reply(r) == stage' = "done" /\ final' = r

\* lastCNAMETarget
Target(g) == (CHOOSE x \in g : x.type = "CNAME").data[1]
LastTarget(as) ==
    LET c == {k \in DOMAIN as : \E x \in as[k] : x.type = "CNAME"}
    IN  IF c = {} THEN NoName ELSE Target(as[CHOOSE k \in c : \A j \in c : j <= k])

\* localOverlayOrRefused
LocalOrRefused ==
    IF out.answers # <<>> THEN [out EXCEPT !.through = FALSE] ELSE [NoOut EXCEPT !.rcode = "REFUSED"]

\* The classified policy is kept for every name.
ExchangeIDKept == cl.fwd

\* The policy is the one of the name that is sent.
ExchangeID ==
    IF LastTarget(out.answers) = NoName THEN cl.fwd ELSE SelectForwarding(LastTarget(out.answers))

Unforwardable == ~cl.allow \/ ExchangeID = 0

\* A local result is complete, or nothing may be forwarded.
AnswerLocal ==
    /\ stage = "local"
    /\ \/ cl.zone # 0 /\ ~out.through /\ Reply(out)
       \/ (cl.zone = 0 \/ out.through) /\ Unforwardable /\ Reply(LocalOrRefused)
    /\ UNCHANGED <<doc, q, cl, walk, out, asked>>

Forward ==
    /\ stage = "local" /\ (cl.zone = 0 \/ out.through) /\ ~Unforwardable
    /\ stage' = "upstream"
    /\ asked' = [name |-> IF LastTarget(out.answers) = NoName THEN q.name ELSE LastTarget(out.answers),
                 fwd |-> ExchangeID]
    /\ UNCHANGED <<doc, q, cl, walk, out, final>>

\* The upstream's answer follows the local chain.
Upstream ==
    /\ stage = "upstream"
    /\ \E rc \in {"NOERROR", "NXDOMAIN", "SERVFAIL"} :
         Reply([NoOut EXCEPT !.rcode = rc,
                  !.answers = IF rc # "NOERROR" THEN out.answers
                              ELSE Append(out.answers, {[owner |-> asked.name, type |-> q.type, data |-> <<"up">>,
                                                         rec |-> "", src |-> asked.name]})])
    /\ UNCHANGED <<doc, q, cl, walk, out, asked>>

\* The next query finds the handler as the last one left it.
Again ==
    /\ stage = "done"
    /\ stage' = "idle" /\ q' = NoQ /\ cl' = NoClass /\ Reset
    /\ out' = NoOut /\ asked' = NoAsk /\ final' = NoOut
    /\ UNCHANGED doc

Rest == stage = "rejected" /\ UNCHANGED vars

Next ==
    \/ Compile \/ \E qq \in Queries : Arrive(qq)
    \/ Loop \/ Leave \/ ExactAnswer \/ ExactFollow \/ ExactMiss \/ WildAnswer \/ WildFollow \/ WildMiss
    \/ AnswerLocal \/ Forward \/ Upstream \/ Again \/ Rest

Spec == Init /\ [][Next]_vars

-----------------------------------------------------------------------------
(* Properties *)

Resolved == stage \in {"local", "upstream", "done"} /\ cl.zone # 0
Owned(n) == {r \in RRsets(Z) : n \in Ancestors(r.owner)}
LastName == IF LastTarget(out.answers) = NoName THEN q.name ELSE LastTarget(out.answers)

\* A zone denies a name only when it holds nothing at or below it and no wildcard directly
\* under the nearest ancestor that exists; a name above records is an empty non-terminal.  For
\* ANY the code looks at the wildcard's records only: CheckDNSName leaves nothing below one.
DeniedNamesAreAbsent ==
    Resolved /\ out.rcode = "NXDOMAIN" =>
        /\ Owned(LastName) = {}
        /\ \A a \in Ancestors(LastName) : InZone(a, Apex(Z)) /\ Owned(a) # {} =>
              \/ Owned(WildcardOwner(a)) = {}
              \/ \E b \in Ancestors(LastName) : Len(b) > Len(a) /\ Owned(b) # {}

\* A wildcard answers only for names nothing nearer covers.
WildcardsYield ==
    Resolved => \A k \in DOMAIN out.answers : \A x \in out.answers[k] :
        x.src # x.owner =>
            /\ IsWildcardOwner(x.src) /\ Owned(x.owner) = {}
            /\ \A a \in Ancestors(x.owner) : Owned(a) # {} => Len(a) < Len(x.src)

\* The client's most specific prefix, the first of equals, allows forwarding.
MayForward(a) ==
    \E i \in DOMAIN doc.access :
        /\ doc.access[i].allow /\ PrefixHolds(i, a)
        /\ \A j \in DOMAIN doc.access : PrefixHolds(j, a) => Bits(j) < Bits(i) \/ (Bits(j) = Bits(i) /\ i <= j)

\* The deepest zone that covers a name has no say in what it lacks.
Overlaid(n) ==
    \A i \in DOMAIN doc.zones :
        /\ InZone(n, doc.zones[i].name)
        /\ \A j \in DOMAIN doc.zones : InZone(n, doc.zones[j].name) => Len(doc.zones[j].name) <= Len(doc.zones[i].name)
        => doc.zones[i].mode = "overlay"

\* A name is sent upstream only when no authoritative zone covers the question, for a client
\* whose most specific prefix allows it, to the deepest suffix that covers the name sent.
ForwardsAsAllowed ==
    asked # NoAsk =>
        /\ Overlaid(q.name) /\ MayForward(q.client)
        /\ InZone(asked.name, doc.forwarding[asked.fwd].name)
        /\ \A i \in DOMAIN doc.forwarding : InZone(asked.name, doc.forwarding[i].name) =>
              Len(doc.forwarding[i].name) <= Len(doc.forwarding[asked.fwd].name)

=============================================================================
