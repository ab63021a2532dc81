------------------------------ MODULE LifecycleProofs ------------------------------
(***************************************************************************)
(* The proofs about Lifecycle and the management requests within it.       *)
(***************************************************************************)
EXTENDS Lifecycle, SequenceTheorems, WellFoundedInduction, TLAPS

-----------------------------------------------------------------------------
(* What a process leaves behind *)

\* Requests touch nothing that main or Serve decides.
LEMMA WorkApart ==
  ASSUME NEW p \in Procs, Work(p) \/ Tick \/ Arrive(p)
  PROVE  UNCHANGED <<scn, accepting>>
BY Zenon DEF Work, Tick, Arrive, Allow, AuthnRest, AuthnMcp, RunRest, RunMcp, Rotate, Delete, Finish

\* At the start nothing is bound.
LEMMA UnbindsInit == Init => Unbinds
<1> SUFFICES ASSUME Init PROVE Unbinds
  OBVIOUS
<1>1. CASE scn.whole
  BY <1>1 DEF Init, Unbinds, Early, Late
<1>2. CASE ~scn.whole
  <2>1. /\ main = "up" /\ sig = "armed" /\ ln = "open" /\ server = "serving"
        /\ pid = (IF scn.pidOn THEN "own" ELSE "none")
    BY Zenon, <1>2 DEF Init
  <2> QED BY <2>1 DEF Unbinds, Early, Late
<1> QED BY <1>1, <1>2

\* Every step of starting, serving and stopping keeps the books of what is bound.
LEMMA UnbindsStep == Unbinds /\ [Next]_vars => Unbinds'
<1> SUFFICES ASSUME Unbinds, [Next]_vars PROVE Unbinds'
  OBVIOUS
<1> USE DEF Unbinds, Early, Late, mgmtVars, mgmtRest
<1>1. CASE Load \/ Install \/ Abandoned \/ BindAuth
  BY <1>1 DEF Load, Install, Abandoned, BindAuth, Abandon
<1>2. CASE StartDNS \/ StartManagement \/ WritePID
  BY <1>2 DEF StartDNS, StartManagement, WritePID, Abandon, Unwind
<1>3. CASE StopSignals \/ StopMCP \/ CloseREST
  BY <1>3 DEF StopSignals, StopMCP, CloseREST
<1>4. CASE StopREST \/ Drain \/ CloseListener
  BY <1>4 DEF StopREST, Drain, CloseListener
<1>5. CASE StopDNS \/ RemovePID
  BY <1>5 DEF StopDNS, RemovePID
<1>6. CASE ServeStore
  BY <1>6 DEF ServeStore, Ended
<1>7. CASE ServeRun
  BY <1>7 DEF ServeRun, Ended
<1>8. CASE ServeSignals \/ Terminate
  BY <1>8 DEF ServeSignals, Terminate, Ended
<1>9. CASE SignalUSR1
  BY <1>9 DEF SignalUSR1, Ended
<1>10. CASE UNCHANGED <<scn, accepting, hostVars>>
  BY <1>10 DEF hostVars
<1>11. CASE Tick /\ UNCHANGED hostVars
  BY <1>11, <1>10 DEF Tick
<1>12. ASSUME NEW p \in Procs, Work(p) \/ Arrive(p), UNCHANGED hostVars PROVE Unbinds'
  BY <1>12, <1>10, WorkApart
<1> QED
  BY Zenon, <1>1, <1>2, <1>3, <1>4, <1>5, <1>6, <1>7, <1>8, <1>9, <1>10, <1>11, <1>12
  DEF Next, Main, Serving, Clients, Requests, Rest, vars

\* A process that ends by itself leaves no listener, no signal handler and no
\* PID file of its own (serveFromConfig's error paths, serveRuntime.Shutdown).
THEOREM NothingStaysBound == Spec => []NothingLeftBound
<1>1. Unbinds => NothingLeftBound
  BY DEF Unbinds, NothingLeftBound, Late
<1> QED BY <1>1, UnbindsInit, UnbindsStep, PTL DEF Spec

-----------------------------------------------------------------------------
(* The capability catalogue *)

\* What the proofs use of a row.
GoodRow(r) ==
    /\ r.scopes \subseteq AllScopes
    /\ DOMAIN r.rest \subseteq Nat
    /\ r.id = "chaos.emergency" =>
        /\ r.uris = {}
        /\ \A n \in DOMAIN r.rest : 1 \in DOMAIN r.rest[n].path /\ r.rest[n].path[1].name = "chaos"

AllGood(s) == s \in Seq({s[i] : i \in DOMAIN s}) /\ \A i \in DOMAIN s : GoodRow(s[i])

\* A set of naturals that is not empty has a least member.
LEMMA LeastNat ==
  ASSUME NEW S, S \subseteq Nat, S # {}
  PROVE  \E m \in S : \A n \in S : m <= n
<1> DEFINE R == OpToRel(<, Nat)
<1>1. IsWellFoundedOn(R, Nat)
  BY Zenon, NatLessThanWellFounded
<1>2. \A x, y \in Nat : y < x => <<y, x>> \in R
  BY DEF OpToRel
<1> HIDE DEF R
<1>3. \E x \in S : \A y \in S : ~(<<y, x>> \in R)
  BY Zenon, <1>1, WFMin
<1>4. PICK x \in S : \A y \in S : ~(<<y, x>> \in R)
  BY Zenon, <1>3
<1>5. \A y \in S : ~(y < x)
  BY Zenon, <1>2, <1>4
<1> QED BY <1>5

\* A sequence is one over its own elements.
LEMMA OwnSeq ==
  ASSUME NEW S, NEW q \in Seq(S)
  PROVE  q \in Seq({q[i] : i \in DOMAIN q})
<1> DEFINE T == {q[i] : i \in DOMAIN q}
<1>1. Len(q) \in Nat /\ DOMAIN q = 1 .. Len(q) /\ q \in [1 .. Len(q) -> S]
  BY Zenon, LenProperties
<1>2. \A i \in 1 .. Len(q) : q[i] \in T
  BY <1>1
<1> HIDE DEF T
<1>3. q \in [1 .. Len(q) -> T]
  BY Zenon, <1>1, <1>2
<1>4. q \in Seq(T)
  <2>1. \E n \in Nat : q \in [1 .. n -> T]
    BY Zenon, <1>1, <1>3
  <2> QED BY <2>1
<1> QED BY <1>4 DEF T

\* Good rows stay good when two parts of the catalogue are joined.
LEMMA ConcatGood ==
  ASSUME NEW s, NEW t, AllGood(s), AllGood(t)
  PROVE  AllGood(s \o t)
<1> DEFINE S == {s[i] : i \in DOMAIN s} \cup {t[i] : i \in DOMAIN t}
<1>1. s \in Seq(S) /\ t \in Seq(S)
  <2>1. ASSUME NEW A, NEW B, A \subseteq B, NEW q \in Seq(A) PROVE q \in Seq(B)
    BY <2>1
  <2>2. {s[i] : i \in DOMAIN s} \subseteq S /\ {t[i] : i \in DOMAIN t} \subseteq S
    OBVIOUS
  <2> QED BY Zenon, <2>1, <2>2 DEF AllGood
<1> HIDE DEF S
<1>2. /\ Len(s) \in Nat /\ DOMAIN s = 1 .. Len(s)
      /\ Len(t) \in Nat /\ DOMAIN t = 1 .. Len(t)
  BY Zenon, <1>1, LenProperties
<1>a. /\ Len(s \o t) = Len(s) + Len(t) /\ s \o t \in Seq(S)
      /\ \A i \in 1 .. Len(s) + Len(t) : (s \o t)[i] = IF i <= Len(s) THEN s[i] ELSE t[i - Len(s)]
  BY Zenon, <1>1, ConcatProperties
<1>3. DOMAIN (s \o t) = 1 .. Len(s) + Len(t)
  BY <1>2, <1>a
<1>4. s \o t \in Seq({(s \o t)[i] : i \in DOMAIN (s \o t)})
  BY Zenon, <1>a, OwnSeq
<1>5. ASSUME NEW i \in DOMAIN (s \o t) PROVE GoodRow((s \o t)[i])
  <2>1. CASE i <= Len(s)
    BY <1>2, <1>a, <1>3, <2>1 DEF AllGood
  <2>2. CASE ~(i <= Len(s))
    <3>1. i - Len(s) \in DOMAIN t
      BY <1>2, <1>a, <1>3, <2>2
    <3> QED BY <1>2, <1>a, <1>3, <2>2, <3>1 DEF AllGood
  <2> QED BY <2>1, <2>2
<1> QED BY <1>4, <1>5 DEF AllGood

\* A plain row: its scopes are known ones, and it is not the emergency stop.
LEMMA PlainRow ==
  ASSUME NEW id, NEW scopes, NEW rest, NEW tools, NEW uris,
         scopes \subseteq AllScopes, DOMAIN rest \subseteq Nat, id # "chaos.emergency"
  PROVE  GoodRow(Row(id, scopes, rest, tools, uris))
<1> DEFINE r == Row(id, scopes, rest, tools, uris)
<1>1. r.id = id /\ r.scopes = scopes /\ r.rest = rest
  BY Zenon DEF Row
<1> HIDE DEF r
<1>2. GoodRow(r)
  BY Zenon, <1>1 DEF GoodRow
<1> QED BY Zenon, <1>2 DEF r

\* Sequences of nine and of twelve rows written out.
LEMMA NineGood ==
  ASSUME NEW r1, NEW r2, NEW r3, NEW r4, NEW r5, NEW r6, NEW r7, NEW r8, NEW r9,
         GoodRow(r1), GoodRow(r2), GoodRow(r3), GoodRow(r4), GoodRow(r5), GoodRow(r6),
         GoodRow(r7), GoodRow(r8), GoodRow(r9)
  PROVE  AllGood(<<r1, r2, r3, r4, r5, r6, r7, r8, r9>>)
<1>1. DOMAIN <<r1, r2, r3, r4, r5, r6, r7, r8, r9>> = 1 .. 9
  OBVIOUS
<1>2. \A i \in 1 .. 9 : GoodRow(<<r1, r2, r3, r4, r5, r6, r7, r8, r9>>[i])
  OBVIOUS
<1>3. <<r1, r2, r3, r4, r5, r6, r7, r8, r9>> \in Seq({r1, r2, r3, r4, r5, r6, r7, r8, r9})
  OBVIOUS
<1> QED BY Zenon, <1>1, <1>2, <1>3, OwnSeq DEF AllGood

\* The same for a part of twelve rows.
LEMMA TwelveGood ==
  ASSUME NEW r1, NEW r2, NEW r3, NEW r4, NEW r5, NEW r6, NEW r7, NEW r8, NEW r9, NEW r10, NEW r11, NEW r12,
         GoodRow(r1), GoodRow(r2), GoodRow(r3), GoodRow(r4), GoodRow(r5), GoodRow(r6),
         GoodRow(r7), GoodRow(r8), GoodRow(r9), GoodRow(r10), GoodRow(r11), GoodRow(r12)
  PROVE  AllGood(<<r1, r2, r3, r4, r5, r6, r7, r8, r9, r10, r11, r12>>)
<1>1. DOMAIN <<r1, r2, r3, r4, r5, r6, r7, r8, r9, r10, r11, r12>> = 1 .. 12
  OBVIOUS
<1>2. \A i \in 1 .. 12 : GoodRow(<<r1, r2, r3, r4, r5, r6, r7, r8, r9, r10, r11, r12>>[i])
  OBVIOUS
<1>3. <<r1, r2, r3, r4, r5, r6, r7, r8, r9, r10, r11, r12>> \in Seq({r1, r2, r3, r4, r5, r6, r7, r8, r9, r10, r11, r12})
  OBVIOUS
<1> QED BY Zenon, <1>1, <1>2, <1>3, OwnSeq DEF AllGood

\* The whole catalogue is good.
LEMMA CatalogGood == AllGood(Catalog)
<1>1. /\ {} \subseteq AllScopes /\ {"dns.read"} \subseteq AllScopes /\ {"dns.write"} \subseteq AllScopes
      /\ {"dns.admin"} \subseteq AllScopes /\ {"forwarders.read"} \subseteq AllScopes
      /\ {"chaos.read"} \subseteq AllScopes /\ {"chaos.activate"} \subseteq AllScopes
      /\ {"chaos.emergency"} \subseteq AllScopes /\ {"audit.read"} \subseteq AllScopes
  BY DEF AllScopes
<1>2. /\ \A a : DOMAIN <<a>> \subseteq Nat
      /\ \A a, b : DOMAIN <<a, b>> \subseteq Nat
      /\ \A a, b, c : DOMAIN <<a, b, c>> \subseteq Nat
  OBVIOUS
<1>3. AllGood(CatalogState)
  BY Zenon, <1>1, <1>2, PlainRow, TwelveGood DEF CatalogState
<1>4. AllGood(CatalogDNS)
  BY Zenon, <1>1, <1>2, PlainRow, NineGood DEF CatalogDNS
<1>5. ASSUME NEW tools, NEW rest,
             rest = <<Post(<<SegV("chaos", "emergency-disable")>>), Post(<<SegV("chaos", "emergency-enable")>>)>>
      PROVE  GoodRow(Row("chaos.emergency", {"chaos.emergency"}, rest, tools, {}))
  <2>1. \A n \in DOMAIN rest : 1 \in DOMAIN rest[n].path /\ rest[n].path[1].name = "chaos"
    BY <1>5 DEF Post, SegV
  <2>2. DOMAIN rest \subseteq Nat
    BY <1>5
  <2> HIDE <1>5
  <2> QED BY <1>1, <2>1, <2>2 DEF GoodRow, Row
<1>6. AllGood(CatalogChaos)
  BY Zenon, <1>1, <1>2, <1>5, PlainRow, TwelveGood DEF CatalogChaos
<1> QED BY Zenon, <1>3, <1>4, <1>6, ConcatGood DEF Catalog

-----------------------------------------------------------------------------
(* Scopes *)

\* Whoever holds dns.admin holds every scope, so a check that lets dns.admin
\* stand for a scope lets nobody through without that scope.
LEMMA AdminHoldsAll ==
  ASSUME NEW a, "dns.admin" \in EffectiveScopes(a)
  PROVE  EffectiveScopes(a) = AllScopes
<1>1. CASE a.scopes # {}
  BY Zenon, <1>1 DEF EffectiveScopes
<1>2. CASE a.scopes = {} /\ a.role # ""
  <2>1. EffectiveScopes(a) = RoleScopes(a.role)
    BY Zenon, <1>2 DEF EffectiveScopes
  <2>2. a.role \in DOMAIN RoleTable /\ "dns.admin" \in RoleTable[a.role]
    BY Zenon, <2>1 DEF RoleScopes, KnownRole
  <2>3. a.role = "administrator"
    BY <2>2 DEF RoleTable
  <2> QED BY <2>1, <2>2, <2>3 DEF RoleScopes, RoleTable, KnownRole
<1>3. CASE a.scopes = {} /\ a.role = ""
  BY Zenon, <1>3 DEF EffectiveScopes
<1> QED BY Zenon, <1>1, <1>2, <1>3

\* HasScope looks into the effective scopes.
LEMMA ScopeHeld ==
  ASSUME NEW a, NEW s \in AllScopes, HasScope(a, s)
  PROVE  s \in EffectiveScopes(a)
BY AdminHoldsAll DEF HasScope

\* What AuthorizeCapability lets through, the documented scopes cover.
LEMMA CapabilityCovers ==
  ASSUME NEW a, NEW row, GoodRow(row), AuthorizeCapability(a, row)
  PROVE  IF row.id \in {"state.validate", "change.plan", "change.apply"}
         THEN EffectiveScopes(a) \ {"dns.read", "forwarders.read", "chaos.read", "audit.read"} # {}
         ELSE row.scopes \subseteq EffectiveScopes(a)
<1>1. CASE row.id \in {"state.validate", "change.plan", "change.apply"}
  BY <1>1 DEF AuthorizeCapability, CanMutate, HasScope
<1>2. CASE row.id \notin {"state.validate", "change.plan", "change.apply"}
  <2>1. \A s \in row.scopes : HasScope(a, s) /\ s \in AllScopes
    BY Zenon, <1>2 DEF AuthorizeCapability, GoodRow
  <2> QED BY Zenon, <1>2, <2>1, ScopeHeld
<1> QED BY <1>1, <1>2

\* Whoever may take the emergency stop back holds both scopes for it.
LEMMA EnablingCovers ==
  ASSUME NEW a, AuthorizeEmergency(a, TRUE)
  PROVE  {"chaos.emergency", "chaos.activate"} \subseteq EffectiveScopes(a)
<1>1. "chaos.emergency" \in AllScopes /\ "chaos.activate" \in AllScopes /\ "dns.admin" \in AllScopes
  BY DEF AllScopes
<1>2. HasScope(a, "chaos.emergency") /\ (HasScope(a, "chaos.activate") \/ HasScope(a, "dns.admin"))
  BY Zenon DEF AuthorizeEmergency, CanEmergencyEnable
<1>3. "chaos.emergency" \in EffectiveScopes(a)
  BY Zenon, <1>1, <1>2, ScopeHeld
<1>4. CASE HasScope(a, "chaos.activate")
  BY <1>1, <1>3, <1>4, ScopeHeld
<1>5. CASE HasScope(a, "dns.admin")
  BY <1>1, <1>3, <1>5, ScopeHeld, AdminHoldsAll
<1> QED BY <1>2, <1>4, <1>5

-----------------------------------------------------------------------------
(* Routes, tools and resources *)

\* The catalogue is a list.
LEMMA CatalogIndexed == DOMAIN Catalog \subseteq Nat
<1>1. \A n \in Nat : 1 .. n \subseteq Nat
  OBVIOUS
<1>2. Catalog \in Seq({Catalog[j] : j \in DOMAIN Catalog})
  BY Zenon, CatalogGood DEF AllGood
<1>3. DOMAIN Catalog = 1 .. Len(Catalog) /\ Len(Catalog) \in Nat
  BY Zenon, <1>2, LenProperties
<1> QED BY Zenon, <1>1, <1>3

\* A compiled route is one binding of one row of the catalogue.
LEMMA RouteIs ==
  ASSUME NEW k \in RouteIds
  PROVE  /\ k[1] \in Nat /\ k[2] \in Nat /\ k = <<k[1], k[2]>>
         /\ Routes[k].row = Catalog[k[1]] /\ Routes[k].bind = Catalog[k[1]].rest[k[2]]
         /\ GoodRow(Catalog[k[1]]) /\ k[2] \in DOMAIN Catalog[k[1]].rest
<1>1. PICK i \in DOMAIN Catalog : k \in {<<i, n>> : n \in DOMAIN Catalog[i].rest}
  BY Zenon DEF RouteIds
<1>2. PICK n \in DOMAIN Catalog[i].rest : k = <<i, n>>
  BY Zenon, <1>1
<1>3. k[1] = i /\ k[2] = n
  BY <1>2
<1>4. GoodRow(Catalog[i]) /\ DOMAIN Catalog \subseteq Nat
  BY Zenon, CatalogIndexed, CatalogGood DEF AllGood
<1>5. n \in Nat /\ i \in Nat
  BY <1>1, <1>2, <1>4 DEF GoodRow
<1> DEFINE row == Catalog[k[1]]
           bind == Catalog[k[1]].rest[k[2]]
<1>6. Routes[k] = [row |-> row, bind |-> bind]
  BY Zenon DEF Routes
<1> HIDE DEF row, bind
<1>7. Routes[k].row = row /\ Routes[k].bind = bind
  BY <1>6
<1> QED BY Zenon, <1>2, <1>3, <1>4, <1>5, <1>7 DEF row, bind

\* Of several routes one comes first.
LEMMA FirstRoute ==
  ASSUME NEW S, S \subseteq RouteIds, S # {}
  PROVE  \E k \in S : \A l \in S : Before(k, l)
<1> DEFINE I == {k[1] : k \in S}
<1>1. \A k \in S : k[1] \in Nat /\ k[2] \in Nat
  BY Zenon, RouteIs
<1>2. I \subseteq Nat /\ I # {}
  BY Zenon, <1>1
<1>3. PICK i \in I : \A j \in I : i <= j
  BY Zenon, <1>2, LeastNat
<1> DEFINE T == {k \in S : k[1] = i}
           N == {k[2] : k \in T}
<1>4. N \subseteq Nat /\ N # {}
  BY Zenon, <1>1
<1>5. PICK n \in N : \A m \in N : n <= m
  BY Zenon, <1>4, LeastNat
<1>6. PICK k \in S : k[1] = i /\ k[2] = n
  BY Zenon
<1>7. ASSUME NEW l \in S PROVE Before(k, l)
  <2>1. i <= l[1] /\ i \in Nat /\ l[1] \in Nat
    BY Zenon, <1>1, <1>2, <1>3
  <2>2. l[1] = i => n <= l[2]
    BY Zenon, <1>5
  <2> QED BY <1>6, <2>1, <2>2 DEF Before
<1> QED BY Zenon, <1>7

\* matchRoute answers with a route whose path is the request's.
LEMMA MatchIs ==
  ASSUME NEW verb, NEW path, MatchRoute(verb, path).kind = "route"
  PROVE  /\ MatchRoute(verb, path).at \in RouteIds
         /\ MatchSegs(Routes[MatchRoute(verb, path).at].bind.path, path)
<1> DEFINE hits == {k \in RouteIds : MatchSegs(Routes[k].bind.path, path)}
           full == {k \in hits : Routes[k].bind.verb = verb}
           first == CHOOSE k \in full : \A l \in full : Before(k, l)
<1>1. full \subseteq RouteIds /\ \A k \in full : MatchSegs(Routes[k].bind.path, path)
  BY Zenon
<1>2. MatchRoute(verb, path) =
        CASE hits = {} -> [kind |-> "not-found", at |-> NoRoute]
          [] hits # {} /\ full = {} -> [kind |-> "method-not-allowed", at |-> NoRoute]
          [] OTHER -> [kind |-> "route", at |-> first]
  BY Zenon DEF MatchRoute
<1>0. full \subseteq hits
  BY Zenon
<1> HIDE DEF full, hits
<1>3. full # {} => first \in full
  BY Zenon, <1>1, FirstRoute
<1> HIDE DEF first
<1>4. full # {} /\ MatchRoute(verb, path).at = first
  <2>1. CASE hits = {}
    BY <1>2, <2>1
  <2>2. CASE hits # {} /\ full = {}
    BY <1>2, <2>2
  <2>3. CASE hits # {} /\ full # {}
    BY <1>2, <2>3
  <2> QED BY Zenon, <2>1, <2>2, <2>3
<1> QED BY Zenon, <1>1, <1>3, <1>4

\* A route the caller is authorized for is one its scopes cover.
LEMMA RouteCovers ==
  ASSUME NEW a, NEW req, req.via = "rest", req.match.at \in RouteIds,
         MatchSegs(Route(req).bind.path, req.path), AuthorizeRoute(a, Route(req))
  PROVE  ScopesAllow(req, a)
<1> DEFINE k == req.match.at
           row == Catalog[k[1]]
<1>1. /\ Route(req) = Routes[k] /\ Routes[k].row = row /\ Routes[k].bind = row.rest[k[2]]
      /\ GoodRow(row) /\ k[2] \in DOMAIN row.rest
  BY Zenon, RouteIs DEF Route
<1>2. CalledRow(req) = row
  BY Zenon, <1>1 DEF CalledRow
<1>3. AuthorizeCapability(a, row)
  BY Zenon, <1>1 DEF AuthorizeRoute
<1>4. ASSUME row.id = "chaos.emergency", Enabling(req)
      PROVE  {"chaos.emergency", "chaos.activate"} \subseteq EffectiveScopes(a)
  <2> DEFINE path == Route(req).bind.path
  <2>1. 1 \in DOMAIN path /\ path[1].name = "chaos"
    BY Zenon, <1>1, <1>4 DEF GoodRow
  <2>2. req.path = <<SegV("chaos", "emergency-enable")>>
    BY Zenon, <1>4 DEF Enabling
  <2>3. req.path[1] = path[1]
    <3>1. path[1].name # "*"
      BY <2>1
    <3> QED BY Zenon, <2>1, <3>1 DEF MatchSegs
  <2>4. path[1].verb = "emergency-enable"
    BY <2>2, <2>3 DEF SegV
  <2>5. AuthorizeEmergency(a, path[1].verb = "emergency-enable")
    BY Zenon, <1>1, <1>4 DEF AuthorizeRoute
  <2>6. AuthorizeEmergency(a, TRUE)
    BY Zenon, <2>4, <2>5 DEF AuthorizeEmergency
  <2> QED BY Zenon, <2>6, EnablingCovers
<1> HIDE DEF row, k
<1> QED BY Zenon, <1>1, <1>2, <1>3, <1>4, CapabilityCovers DEF ScopesAllow

\* So is a tool that exists.
LEMMA ToolCovers ==
  ASSUME NEW a, NEW req, req.via # "rest", req.uri = "", ToolRows(req.tool) # {},
         AuthorizeTool(a, req.tool)
  PROVE  ScopesAllow(req, a)
<1> DEFINE T == ToolRows(req.tool)
           i == CHOOSE n \in T : \A m \in T : n <= m
           row == Catalog[i]
<1>1. T \subseteq DOMAIN Catalog /\ T # {}
  BY Zenon DEF ToolRows
<1>2. DOMAIN Catalog \subseteq Nat
  BY Zenon, CatalogIndexed
<1>3. ToolRow(req.tool) = row
  BY Zenon DEF ToolRow
<1> HIDE DEF T
<1>4. T \subseteq Nat
  BY Zenon, <1>1, <1>2
<1>5. i \in T
  BY Zenon, <1>1, <1>4, LeastNat
<1>6. GoodRow(row)
  BY Zenon, <1>1, <1>5, CatalogGood DEF AllGood
<1> HIDE DEF i
<1>7. CalledRow(req) = row
  BY Zenon, <1>3 DEF CalledRow
<1> HIDE DEF row
<1>8. AuthorizeCapability(a, row)
  BY Zenon, <1>3 DEF AuthorizeTool
<1>9. ASSUME row.id = "chaos.emergency", Enabling(req)
      PROVE  {"chaos.emergency", "chaos.activate"} \subseteq EffectiveScopes(a)
  <2>1. req.tool = "chaos_emergency_enable"
    BY Zenon, <1>9 DEF Enabling
  <2>2. AuthorizeEmergency(a, req.tool = "chaos_emergency_enable")
    BY Zenon, <1>3, <1>9 DEF AuthorizeTool
  <2>3. AuthorizeEmergency(a, TRUE)
    BY Zenon, <2>1, <2>2 DEF AuthorizeEmergency
  <2> QED BY Zenon, <2>3, EnablingCovers
<1> QED BY Zenon, <1>6, <1>7, <1>8, <1>9, CapabilityCovers DEF ScopesAllow

\* And a resource that exists.
LEMMA ResourceCovers ==
  ASSUME NEW a, NEW req, req.via # "rest", req.uri # "", ResourceRows(req.uri) # {},
         AuthorizeResource(a, req.uri)
  PROVE  ScopesAllow(req, a)
<1> DEFINE row == CHOOSE r \in Rows : req.uri \in r.uris
<1>1. CalledRow(req) = row
  BY Zenon DEF CalledRow
<1>2. row \in Rows /\ req.uri \in row.uris
  BY Zenon DEF ResourceRows
<1> HIDE DEF row
<1>3. GoodRow(row)
  BY Zenon, <1>2, CatalogGood DEF Rows, AllGood
<1>4. AuthorizeCapability(a, row)
  BY Zenon, <1>2 DEF AuthorizeResource, ResourceRows
<1>5. row.id # "chaos.emergency"
  BY Zenon, <1>2, <1>3 DEF GoodRow
<1> QED BY Zenon, <1>1, <1>3, <1>4, <1>5, CapabilityCovers DEF ScopesAllow

-----------------------------------------------------------------------------
(* Credentials *)

\* The fields of an actor.
HasFields(a, id, class, role, scopes) ==
    /\ a.id = id /\ a.class = class /\ a.role = role /\ a.scopes = scopes
    /\ a = Actor(a.id, a.class, a.role, a.scopes)

\* What an actor is made of.
LEMMA ActorIs ==
  ASSUME NEW id, NEW class, NEW role, NEW scopes
  PROVE  HasFields(Actor(id, class, role, scopes), id, class, role, scopes)
<1> DEFINE a == Actor(id, class, role, scopes)
<1>1. a.id = id /\ a.class = class /\ a.role = role /\ a.scopes = scopes
  BY Zenon DEF Actor
<1>2. a = Actor(id, class, role, scopes)
  OBVIOUS
<1> HIDE DEF a
<1>3. HasFields(a, id, class, role, scopes)
  BY Zenon, <1>1, <1>2 DEF HasFields
<1> QED BY Zenon, <1>3 DEF a

\* The tokens of a policy are numbered.
LEMMA TokensNumbered ==
  ASSUME scn \in Scenarios
  PROVE  DOMAIN policy.tokens \subseteq Nat
<1> DEFINE spec == Specs[scn.spec]
           loaded == IF spec.file.kind = "none" THEN [err |-> "", tokens |-> <<>>] ELSE LoadTokens(spec.file)
<1>1. policy = NewPolicy(spec)
  BY Zenon, SpecsAssumption DEF policy, Policies
<1>2. policy.tokens = loaded.tokens
  BY Zenon, <1>1 DEF NewPolicy
<1>3. DOMAIN loaded.tokens \subseteq Nat
  BY SpecsAssumption DEF LoadTokens, Token
<1> QED BY Zenon, <1>2, <1>3

\* A token is worth no more than its own role and scopes, and the actor it
\* makes has one of them.
LEMMA TokenWorth ==
  ASSUME NEW pol, NEW value, DOMAIN pol.tokens \subseteq Nat, Authenticate(pol, value).ok
  PROVE  /\ Ranked(Authenticate(pol, value).actor)
         /\ \E i \in DOMAIN pol.tokens :
                /\ pol.tokens[i].value = value /\ Authenticate(pol, value).actor.id = TokenID(pol.tokens[i])
                /\ EffectiveScopes(Authenticate(pol, value).actor) \subseteq TokenScopes(pol.tokens[i])
<1> DEFINE hits == {i \in DOMAIN pol.tokens : pol.tokens[i].value = value}
           h == CHOOSE i \in hits : \A j \in hits : i <= j
           t == pol.tokens[h]
           role == IF t.scopes = {} /\ t.role = "" THEN "administrator" ELSE t.role
           id == IF t.id = "" THEN "bearer" ELSE t.id
           a == Actor(id, "token", role, t.scopes)
<1>1. Authenticate(pol, value) = IF hits = {} THEN [ok |-> FALSE, actor |-> NoActor] ELSE [ok |-> TRUE, actor |-> a]
  BY Zenon DEF Authenticate
<1>2. hits \subseteq DOMAIN pol.tokens /\ \A i \in hits : pol.tokens[i].value = value
  BY Zenon
<1> HIDE DEF hits
<1>3. hits # {} => h \in hits
  BY Zenon, <1>2, LeastNat
<1> HIDE DEF h, t, role, id
<1>a. HasFields(a, id, "token", role, t.scopes)
  BY Zenon, ActorIs
<1> HIDE DEF a
<1>4. /\ a.id = id /\ a.class = "token" /\ a.role = role /\ a.scopes = t.scopes
      /\ a = Actor(a.id, a.class, a.role, a.scopes)
  BY Zenon, <1>a DEF HasFields
<1>5. hits # {} /\ Authenticate(pol, value).actor = a
  BY <1>1
<1>6. Ranked(a)
  BY Zenon, <1>4 DEF Ranked, role
<1>7. EffectiveScopes(a) \subseteq TokenScopes(t)
  <2> USE DEF role
  <2>1. CASE t.scopes # {}
    BY Zenon, <1>4, <2>1 DEF EffectiveScopes, TokenScopes
  <2>2. CASE t.scopes = {} /\ t.role = ""
    <3>1. EffectiveScopes(a) = RoleScopes("administrator")
      BY Zenon, <1>4, <2>2 DEF EffectiveScopes
    <3>2. RoleScopes("administrator") = AllScopes
      BY DEF RoleScopes, KnownRole, RoleTable
    <3> QED BY Zenon, <2>2, <3>1, <3>2 DEF TokenScopes
  <2>3. CASE t.scopes = {} /\ t.role # ""
    <3>1. EffectiveScopes(a) = RoleScopes(t.role)
      BY Zenon, <1>4, <2>3 DEF EffectiveScopes
    <3>2. RoleScopes("administrator") = AllScopes
      BY DEF RoleScopes, KnownRole, RoleTable
    <3>3. "dns.admin" \notin t.scopes
      BY Zenon, <2>3
    <3> QED BY Zenon, <2>3, <3>1, <3>2, <3>3 DEF TokenScopes
  <2> QED BY Zenon, <2>1, <2>2, <2>3
<1>8. a.id = TokenID(t)
  BY Zenon, <1>4 DEF TokenID, id
<1> QED BY Zenon, <1>2, <1>3, <1>5, <1>6, <1>7, <1>8 DEF t

\* Identify makes no one else than the credential says.
LEMMA IdentifyEarns ==
  ASSUME NEW pol, NEW made, NEW req, DOMAIN pol.tokens \subseteq Nat,
         Identify(pol, req.peer, req.bearer, FALSE).ok,
         ~(req.via = "rest" /\ req.bearer = "" /\ req.cookie # 0 /\ Cap(req) = "session" /\ req.verb = "POST")
  PROVE  LET a == Identify(pol, req.peer, req.bearer, FALSE).actor
         IN  Ranked(a) /\ CredentialAllows(pol, made, 0, req, a)
<1> DEFINE who == Identify(pol, req.peer, req.bearer, FALSE)
<1>1. CASE req.bearer # ""
  <2>1. who = Authenticate(pol, req.bearer)
    BY Zenon, <1>1 DEF Identify
  <2>2. Authenticate(pol, req.bearer).ok
    BY Zenon, <2>1
  <2> HIDE DEF who
  <2>3. Ranked(who.actor) /\ \E i \in DOMAIN pol.tokens :
            /\ pol.tokens[i].value = req.bearer /\ who.actor.id = TokenID(pol.tokens[i])
            /\ EffectiveScopes(who.actor) \subseteq TokenScopes(pol.tokens[i])
    BY Zenon, <2>1, <2>2, TokenWorth
  <2>4. CredentialAllows(pol, made, 0, req, who.actor)
    BY Zenon, <2>3 DEF CredentialAllows
  <2> QED BY Zenon, <2>3, <2>4 DEF who
<1>2. CASE req.bearer = "" /\ req.peer = "loopback" /\ pol.profile = "dev-loopback-unauth"
  <2> DEFINE a == Actor("loopback", "loopback", "administrator", {})
  <2>1. who = [ok |-> TRUE, actor |-> a]
    BY Zenon, <1>2 DEF Identify
  <2>2. HasFields(a, "loopback", "loopback", "administrator", {})
    BY Zenon, ActorIs
  <2> HIDE DEF a, who
  <2>3. who.actor = a
    BY <2>1
  <2>4. Ranked(a) /\ a.id = "loopback"
    BY Zenon, <2>2 DEF HasFields, Ranked
  <2>5. CredentialAllows(pol, made, 0, req, a)
    BY Zenon, <1>2, <2>4 DEF CredentialAllows
  <2> QED BY Zenon, <2>3, <2>4, <2>5 DEF who
<1>3. CASE req.bearer = "" /\ ~(req.peer = "loopback" /\ pol.profile = "dev-loopback-unauth")
  <2>1. who = [ok |-> FALSE, actor |-> NoActor]
    BY Zenon, <1>3 DEF Identify
  <2> HIDE DEF who
  <2>2. ~who.ok
    BY <2>1
  <2> QED BY Zenon, <2>2 DEF who
<1> QED BY Zenon, <1>1, <1>2, <1>3

\* A session's actor is its maker in all but the class.
LEMMA SessionKeeps ==
  ASSUME NEW a, Ranked(a)
  PROVE  LET b == SessionActor(a)
         IN  /\ b.id = a.id /\ b.class = "ui-session" /\ Ranked(b)
             /\ SessionActor(b) = b /\ EffectiveScopes(b) = EffectiveScopes(a)
<1> DEFINE c == Actor(a.id, "ui-session", a.role, a.scopes)
           b == SessionActor(a)
<1>1. a = Actor(a.id, a.class, a.role, a.scopes) /\ (a.scopes # {} \/ a.role # "")
  BY Zenon DEF Ranked
<1>2. ASSUME NEW id, NEW class, NEW role, NEW scopes
      PROVE  SessionActor(Actor(id, class, role, scopes)) = Actor(id, "ui-session", role, scopes)
  BY DEF SessionActor, Actor
<1>3. b = c /\ SessionActor(c) = c
  <2>1. SessionActor(Actor(a.id, a.class, a.role, a.scopes)) = c /\ SessionActor(c) = c
    BY Zenon, <1>2
  <2> HIDE DEF c
  <2> QED BY Zenon, <1>1, <2>1
<1>4. HasFields(c, a.id, "ui-session", a.role, a.scopes)
  BY Zenon, ActorIs
<1> HIDE DEF b, c
<1>5. Ranked(c) /\ c.id = a.id /\ c.class = "ui-session" /\ c.role = a.role /\ c.scopes = a.scopes
  BY Zenon, <1>1, <1>4 DEF Ranked, HasFields
<1>6. EffectiveScopes(c) = EffectiveScopes(a)
  <2>1. CASE a.scopes # {}
    BY Zenon, <1>5, <2>1 DEF EffectiveScopes
  <2>2. CASE a.scopes = {} /\ a.role # ""
    BY Zenon, <1>5, <2>2 DEF EffectiveScopes
  <2> QED BY Zenon, <1>1, <2>1, <2>2
<1>7. b.id = a.id /\ b.class = "ui-session" /\ Ranked(b) /\ SessionActor(b) = b /\ EffectiveScopes(b) = EffectiveScopes(a)
  BY Zenon, <1>3, <1>5, <1>6
<1> QED BY Zenon, <1>7 DEF b

\* The outcomes of authenticate.
ByIdentity(id) == [ok |-> id.ok, why |-> IF id.ok THEN "" ELSE "unauthenticated", actor |-> id.actor]
Named(a) == [[ok |-> TRUE, why |-> "", actor |-> NoActor] EXCEPT !.actor = a]
Refused(why) == [[ok |-> TRUE, why |-> "", actor |-> NoActor] EXCEPT !.ok = FALSE, !.why = why]

\* The three outcomes of authenticate, field by field.
LEMMA OutcomeIs ==
  /\ \A id : ByIdentity(id).ok = id.ok /\ ByIdentity(id).actor = id.actor
  /\ \A a : Named(a).actor = a
  /\ \A why : ~Refused(why).ok
<1>1. ASSUME NEW id PROVE ByIdentity(id).ok = id.ok /\ ByIdentity(id).actor = id.actor
  BY Zenon DEF ByIdentity
<1>2. ASSUME NEW a PROVE Named(a).actor = a
  BY DEF Named
<1>3. ASSUME NEW why PROVE ~Refused(why).ok
  BY DEF Refused
<1> QED BY Zenon, <1>1, <1>2, <1>3

\* A live cookie is the session's actor, and its maker stands behind it.
LEMMA CookieEarns ==
  ASSUME NEW pol, NEW table, NEW last, NEW made, TableOK(table, last, made), NEW req, req.via = "rest",
         req.bearer = "", req.cookie \in DOMAIN table
  PROVE  LET a == table[req.cookie].actor
         IN  Ranked(a) /\ CredentialAllows(pol, made, req.cookie, req, a)
<1> DEFINE row == table[req.cookie]
           a == row.actor
           maker == made[req.cookie].actor
<1>1. RowOK(req.cookie, row, made) /\ Made(made) /\ req.cookie \in 1 .. Len(made)
  BY Zenon DEF TableOK
<1> HIDE DEF row
<1>3. a = SessionActor(maker) /\ Ranked(maker) /\ req.cookie \in DOMAIN made
  <2>1. Len(made) \in Nat /\ made = [n \in 1 .. Len(made) |-> made[n]]
    BY Zenon, <1>1 DEF Made
  <2>2. DOMAIN made = 1 .. Len(made)
    BY Zenon, <2>1
  <2> QED BY Zenon, <1>1, <2>2 DEF RowOK, Made
<1> HIDE DEF a, maker
<1>4. a.id = maker.id /\ a.class = "ui-session" /\ Ranked(a) /\ EffectiveScopes(a) = EffectiveScopes(maker)
  BY Zenon, <1>3, SessionKeeps
<1>6. CredentialAllows(pol, made, req.cookie, req, a)
  BY Zenon, <1>3, <1>4 DEF CredentialAllows, maker
<1> QED BY Zenon, <1>4, <1>6 DEF a, row

\* So authenticate over REST makes no one else than the credential says.
LEMMA RestEarns ==
  ASSUME scn \in Scenarios, TableOK(sessions, issued, born), NEW STATE req, req.via = "rest",
         AuthenticateRest(req).ok
  PROVE  LET a == AuthenticateRest(req).actor
         IN  Ranked(a) /\ CredentialAllows(policy, born, FoundSession(req), req, a)
<1> DEFINE probe == IsHealthCap(Cap(req))
           who == AuthenticateRest(req)
<1>1. DOMAIN policy.tokens \subseteq Nat
  BY Zenon, TokensNumbered
<1>2. CASE probe
  <2> DEFINE a == Actor("probe", "startup", "administrator", {})
             id == Identify(policy, req.peer, req.bearer, probe)
  <2>1. id = [ok |-> TRUE, actor |-> a]
    BY Zenon, <1>2 DEF Identify
  <2>2. who = ByIdentity(id)
    BY Zenon, <1>2 DEF AuthenticateRest, ByIdentity
  <2>3. HasFields(a, "probe", "startup", "administrator", {})
    BY Zenon, ActorIs
  <2> HIDE DEF a, id, who
  <2>4. who.actor = a
    <3>1. [ok |-> TRUE, actor |-> a].actor = a
      BY Zenon
    <3> QED BY Zenon, <2>1, <2>2, <3>1, OutcomeIs
  <2>5. Ranked(a)
    BY Zenon, <2>3 DEF HasFields, Ranked
  <2>6. CredentialAllows(policy, born, FoundSession(req), req, a)
    BY Zenon, <1>2 DEF CredentialAllows
  <2> QED BY Zenon, <2>4, <2>5, <2>6 DEF who
<1>3. CASE ~probe /\ req.bearer = "" /\ req.cookie # 0 /\ Live(req.cookie)
  <2> DEFINE a == sessions[req.cookie].actor
  <2>1. who = IF req.verb \in {"GET", "HEAD"} \/ req.csrf THEN Named(a) ELSE Refused("forbidden")
    BY Zenon, <1>3 DEF AuthenticateRest, Named, Refused
  <2>2. req.cookie \in DOMAIN sessions
    BY Zenon, <1>3 DEF Live
  <2>3. Ranked(a) /\ CredentialAllows(policy, born, req.cookie, req, a)
    BY Zenon, <1>3, <2>2, CookieEarns
  <2>6. FoundSession(req) = req.cookie
    BY Zenon, <1>3 DEF FoundSession, LooksUp
  <2>4. who.ok
    BY Zenon
  <2> HIDE DEF a, who
  <2>5. who.actor = a
    BY Zenon, <2>1, <2>4, OutcomeIs
  <2> QED BY Zenon, <2>3, <2>5, <2>6 DEF who
<1>4. CASE ~probe /\ ~(req.bearer = "" /\ req.cookie # 0 /\ Live(req.cookie))
  <2> DEFINE id == Identify(policy, req.peer, req.bearer, FALSE)
  <2>1. who = ByIdentity(id) \/ who = Refused("unauthenticated")
    <3>1. CASE req.bearer # ""
      <4>1. who = ByIdentity(Identify(policy, req.peer, req.bearer, probe))
        BY Zenon, <3>1 DEF AuthenticateRest, ByIdentity
      <4>2. Identify(policy, req.peer, req.bearer, probe) = Authenticate(policy, req.bearer)
        BY Zenon, <1>4, <3>1 DEF Identify
      <4>3. id = Authenticate(policy, req.bearer)
        BY Zenon, <3>1 DEF Identify
      <4> QED BY Zenon, <4>1, <4>2, <4>3
    <3>2. CASE req.bearer = ""
      BY Zenon, <1>4, <3>2 DEF AuthenticateRest, ByIdentity, Refused
    <3> QED BY Zenon, <3>1, <3>2
  <2>2. who.ok
    BY Zenon
  <2>6. ~(req.via = "rest" /\ req.bearer = "" /\ req.cookie # 0 /\ Cap(req) = "session" /\ req.verb = "POST")
    <3> SUFFICES ASSUME req.bearer = "", req.cookie # 0, Cap(req) = "session", req.verb = "POST" PROVE FALSE
      BY Zenon
    <3>1. who = Refused("unauthenticated")
      BY Zenon, <1>4 DEF AuthenticateRest, Refused
    <3> QED BY Zenon, <2>2, <3>1, OutcomeIs
  <2> HIDE DEF id, who
  <2>3. id.ok /\ who.actor = id.actor
    BY Zenon, <2>1, <2>2, OutcomeIs
  <2>4. Ranked(id.actor) /\ CredentialAllows(policy, born, 0, req, id.actor)
    BY Zenon, <1>1, <2>3, <2>6, IdentifyEarns DEF id
  <2>5. FoundSession(req) = 0
    BY Zenon, <1>4 DEF FoundSession, LooksUp
  <2> QED BY Zenon, <2>3, <2>4, <2>5 DEF who
<1> QED BY Zenon, <1>2, <1>3, <1>4

-----------------------------------------------------------------------------
(* The session table *)

\* Dropping rows.
LEMMA RestrictKeeps ==
  ASSUME NEW table, NEW last, NEW made, TableOK(table, last, made), NEW S, S \subseteq DOMAIN table
  PROVE  TableOK(Restrict(table, S), last, made)
<1> DEFINE t == Restrict(table, S)
<1>1. DOMAIN t = S /\ \A id \in S : t[id] = table[id]
  BY Zenon DEF Restrict
<1> HIDE DEF t
<1>2. TableOK(t, last, made)
  BY Zenon, <1>1 DEF TableOK
<1> QED BY Zenon, <1>2 DEF t

\* Sliding a row.
LEMMA SlideKeeps ==
  ASSUME NEW table, NEW last, NEW made, TableOK(table, last, made), NEW x \in DOMAIN table, NEW at
  PROVE  TableOK([table EXCEPT ![x].expires = at], last, made)
<1> DEFINE t == [table EXCEPT ![x].expires = at]
           row == [table[x] EXCEPT !.expires = at]
<1>1. DOMAIN t = DOMAIN table /\ t[x] = row /\ \A id \in DOMAIN table : id # x => t[id] = table[id]
  BY Zenon
<1>2. RowOK(x, table[x], made)
  BY Zenon DEF TableOK
<1>3. DOMAIN row = DOMAIN table[x] /\ row.line = table[x].line /\ row.actor = table[x].actor
  <2>1. "line" \in DOMAIN table[x] /\ "actor" \in DOMAIN table[x]
    BY <1>2 DEF RowOK
  <2> QED BY Zenon, <2>1
<1> HIDE DEF t, row
<1>4. RowOK(x, row, made)
  BY Zenon, <1>2, <1>3 DEF RowOK
<1>5. \A id \in DOMAIN t : RowOK(id, t[id], made) /\ t[id].line = table[id].line
  BY Zenon, <1>1, <1>3, <1>4 DEF TableOK
<1>6. TableOK(t, last, made)
  BY Zenon, <1>1, <1>5 DEF TableOK
<1> QED BY Zenon, <1>6 DEF t

\* One more identifier handed out.
OneMore(made, m, e) ==
    /\ Made(m) /\ Len(m) = Len(made) + 1 /\ m[Len(m)] = e
    /\ Len(made) \in Nat /\ \A n \in 1 .. Len(made) : n \in 1 .. Len(m) /\ m[n] = made[n]

LEMMA MakeKeeps ==
  ASSUME NEW made, Made(made), NEW e, Ranked(e.actor), e.line \in 1 .. Len(made) \/ e.line = Len(made) + 1
  PROVE  OneMore(made, Append(made, e), e)
<1> DEFINE m == Append(made, e)
           S == {made[n] : n \in 1 .. Len(made)} \cup {e}
<1>1. Len(made) \in Nat /\ made = [n \in 1 .. Len(made) |-> made[n]]
  BY Zenon DEF Made
<1>2. made \in Seq(S) /\ e \in S
  <2>1. \A n \in 1 .. Len(made) : made[n] \in S
    BY Zenon
  <2> HIDE DEF S
  <2>2. made \in [1 .. Len(made) -> S]
    BY Zenon, <1>1, <2>1
  <2>3. \E n \in Nat : made \in [1 .. n -> S]
    BY Zenon, <1>1, <2>2
  <2>4. made \in Seq(S)
    BY <2>3
  <2> QED BY Zenon, <2>4 DEF S
<1> HIDE DEF S
<1>3. m \in Seq(S) /\ Len(m) = Len(made) + 1 /\ m[Len(made) + 1] = e /\ \A n \in 1 .. Len(made) : m[n] = made[n]
  BY <1>2, AppendProperties
<1>4. Len(m) \in Nat /\ DOMAIN m = 1 .. Len(m) /\ m \in [1 .. Len(m) -> S]
  BY Zenon, <1>3, LenProperties
<1> HIDE DEF m
<1>5. m = [n \in 1 .. Len(m) |-> m[n]]
  <2>1. ASSUME NEW A, NEW B, NEW f \in [A -> B] PROVE f = [x \in A |-> f[x]]
    BY Zenon, <2>1
  <2> QED BY Zenon, <1>4, <2>1
<1>6. Len(made) + 1 \in 1 .. Len(m) /\ \A n \in 1 .. Len(made) : n \in 1 .. Len(m)
  BY <1>1, <1>3
<1>7. \A n \in 1 .. Len(m) : n \in 1 .. Len(made) \/ n = Len(made) + 1
  BY <1>1, <1>3
<1>8. \A n \in 1 .. Len(m) : Ranked(m[n].actor) /\ m[n].line \in 1 .. Len(m)
  BY Zenon, <1>3, <1>6, <1>7 DEF Made
<1>9. Made(m)
  BY Zenon, <1>4, <1>5, <1>8 DEF Made
<1>10. m[Len(m)] = e
  BY Zenon, <1>3
<1>11. OneMore(made, m, e)
  BY Zenon, <1>1, <1>3, <1>6, <1>9, <1>10 DEF OneMore
<1> QED BY Zenon, <1>11 DEF m

\* A row under a fresh identifier, of a line no other row has.
Added(table, last, row) == [id \in DOMAIN table \cup {last + 1} |-> IF id = last + 1 THEN row ELSE table[id]]

LEMMA AddKeeps ==
  ASSUME NEW table, NEW last, NEW made, TableOK(table, last, made), NEW more, NEW e, OneMore(made, more, e),
         NEW row, RowOK(last + 1, row, more), \A id \in DOMAIN table : table[id].line # row.line
  PROVE  TableOK(Added(table, last, row), last + 1, more)
<1> DEFINE t == Added(table, last, row)
           n == last + 1
<1>1. last \in Nat /\ last = Len(made) /\ DOMAIN table \subseteq 1 .. last
  BY Zenon DEF TableOK, Made
<1>2. n \notin 1 .. last /\ n \in 1 .. n /\ 1 .. last \subseteq 1 .. n
  BY <1>1
<1>3. DOMAIN t = DOMAIN table \cup {n} /\ t[n] = row /\ \A id \in DOMAIN table : id # n => t[id] = table[id]
  BY Zenon DEF Added
<1>4. n = Len(more) /\ Made(more) /\ \A id \in 1 .. last : more[id] = made[id]
  BY Zenon, <1>1 DEF OneMore
<1>5. RowOK(n, row, more)
  BY Zenon
<1> HIDE DEF n, t
<1>6. \A id \in DOMAIN table : id # n /\ t[id] = table[id]
  BY Zenon, <1>1, <1>2, <1>3
<1>7. DOMAIN t \subseteq 1 .. n
  BY Zenon, <1>1, <1>2, <1>3
<1>8. \A id \in DOMAIN t : RowOK(id, t[id], more)
  <2>1. ASSUME NEW id \in DOMAIN table PROVE RowOK(id, t[id], more)
    <3>1. RowOK(id, table[id], made) /\ more[id] = made[id] /\ t[id] = table[id]
      BY Zenon, <1>1, <1>4, <1>6 DEF TableOK
    <3> QED BY Zenon, <3>1 DEF RowOK
  <2> QED BY Zenon, <1>3, <1>5, <2>1
<1>9. ASSUME NEW a \in DOMAIN t, NEW b \in DOMAIN t, t[a].line = t[b].line PROVE a = b
  <2>1. CASE a \in DOMAIN table /\ b \in DOMAIN table
    BY Zenon, <1>6, <1>9, <2>1 DEF TableOK
  <2>2. CASE a = n /\ b \in DOMAIN table
    BY Zenon, <1>3, <1>6, <1>9, <2>2
  <2>3. CASE b = n /\ a \in DOMAIN table
    BY Zenon, <1>3, <1>6, <1>9, <2>3
  <2> QED BY Zenon, <1>3, <2>1, <2>2, <2>3
<1>10. TableOK(t, n, more)
  BY Zenon, <1>4, <1>7, <1>8, <1>9 DEF TableOK
<1> QED BY Zenon, <1>10 DEF t, n

\* Sessions are only ever added to the history.
Grows(made, more) == \A n \in DOMAIN made : n \in DOMAIN more /\ more[n] = made[n]

\* What was handed out before stays.
LEMMA MoreGrows ==
  ASSUME NEW made, NEW more, NEW e, Made(made), OneMore(made, more, e)
  PROVE  Grows(made, more)
<1>1. DOMAIN made = 1 .. Len(made) /\ DOMAIN more = 1 .. Len(more)
  BY Zenon DEF Made, OneMore
<1> QED BY Zenon, <1>1 DEF Grows, OneMore

-----------------------------------------------------------------------------
(* A request on its way *)

\* A credential that entitled its caller does so whatever sessions are made later.
LEMMA CredentialStays ==
  ASSUME NEW pol, NEW made, NEW more, Grows(made, more), NEW sid, NEW req, NEW a,
         CredentialAllows(pol, made, sid, req, a)
  PROVE  CredentialAllows(pol, more, sid, req, a)
BY Zenon DEF CredentialAllows, Grows

\* So does what a request has passed.
LEMMA VettedStays ==
  ASSUME NEW pol, NEW made, NEW more, Grows(made, more), NEW r, VettedAt(pol, made, r)
  PROVE  VettedAt(pol, more, r)
<1>1. Passed(pol, made, r) => Passed(pol, more, r)
  BY Zenon, CredentialStays DEF Passed
<1>2. CredentialAllows(pol, made, r.sid, r.req, r.actor) => CredentialAllows(pol, more, r.sid, r.req, r.actor)
  BY Zenon, CredentialStays
<1> QED BY Zenon, <1>1, <1>2 DEF VettedAt

\* Only the process that moves has to be looked at.
Moves(p) == DOMAIN procs' = Procs /\ \A q \in Procs : q # p => procs'[q] = procs[q]

\* A step of one request keeps the invariant if it keeps the table and vets that request.
LEMMA OneMoves ==
  ASSUME Vetted, NEW p \in Procs, scn' = scn, Grows(born, born'), TableOK(sessions', issued', born'), Moves(p),
         VettedAt(policy, born', procs'[p])
  PROVE  Vetted'
<1>1. policy' = policy
  BY Zenon DEF policy
<1>2. ASSUME NEW q \in Procs PROVE VettedAt(policy, born', procs'[q])
  <2>1. CASE q = p
    BY Zenon, <2>1
  <2>2. CASE q # p
    <3>1. VettedAt(policy, born, procs[q])
      BY Zenon DEF Vetted
    <3>2. procs'[q] = procs[q]
      BY Zenon, <2>2 DEF Moves
    <3> QED BY Zenon, <3>1, <3>2, VettedStays
  <2> QED BY Zenon, <2>1, <2>2
<1>3. scn' \in Scenarios /\ DOMAIN procs' = Procs
  BY Zenon DEF Vetted, Moves
<1> QED BY Zenon, <1>1, <1>2, <1>3 DEF Vetted

\* What the steps make of a request.
Becomes(p, pc, out, actor, sid) ==
    /\ Moves(p)
    /\ DOMAIN procs'[p] = DOMAIN Idle
    /\ procs'[p].pc = pc /\ procs'[p].out = out /\ procs'[p].actor = actor /\ procs'[p].sid = sid
    /\ procs'[p].req = procs[p].req

\* The fields of a request's state.
LEMMA IdleFields == DOMAIN Idle = {"pc", "req", "at", "slot", "actor", "sid", "out"}
BY DEF Idle

\* Answering a request ends it and changes nothing else of it.
LEMMA AnswerIs ==
  ASSUME Vetted, NEW p \in Procs, NEW STATE out, Answer(p, out)
  PROVE  Becomes(p, "out", out, procs[p].actor, procs[p].sid)
<1> DEFINE r == procs[p]
           s == [r EXCEPT !.pc = "out", !.out = out]
<1>1. DOMAIN procs = Procs /\ DOMAIN r = {"pc", "req", "at", "slot", "actor", "sid", "out"}
  BY Zenon, IdleFields DEF Vetted, VettedAt
<1>2. "pc" \in DOMAIN r /\ "out" \in DOMAIN r /\ "actor" \in DOMAIN r /\ "sid" \in DOMAIN r /\ "req" \in DOMAIN r
  BY <1>1
<1>3. DOMAIN s = DOMAIN r /\ s.pc = "out" /\ s.out = out /\ s.actor = r.actor /\ s.sid = r.sid /\ s.req = r.req
  BY Zenon, <1>2
<1>4. Moves(p) /\ procs'[p] = s
  BY Zenon, <1>1 DEF Answer, Moves
<1> HIDE DEF r, s
<1>5. DOMAIN s = DOMAIN Idle
  BY Zenon, <1>1, <1>3, IdleFields
<1>6. Becomes(p, "out", out, r.actor, r.sid)
  BY Zenon, <1>3, <1>4, <1>5 DEF Becomes, r
<1> QED BY Zenon, <1>6 DEF r

\* Going on changes the label alone.
LEMMA GoOnIs ==
  ASSUME Vetted, NEW p \in Procs, NEW pc, GoOn(p, pc)
  PROVE  Becomes(p, pc, procs[p].out, procs[p].actor, procs[p].sid)
<1> DEFINE r == procs[p]
           s == [r EXCEPT !.pc = pc]
<1>1. DOMAIN procs = Procs /\ DOMAIN r = {"pc", "req", "at", "slot", "actor", "sid", "out"}
  BY Zenon, IdleFields DEF Vetted, VettedAt
<1>2. "pc" \in DOMAIN r /\ "out" \in DOMAIN r /\ "actor" \in DOMAIN r /\ "sid" \in DOMAIN r /\ "req" \in DOMAIN r
  BY <1>1
<1>3. DOMAIN s = DOMAIN r /\ s.pc = pc /\ s.out = r.out /\ s.actor = r.actor /\ s.sid = r.sid /\ s.req = r.req
  BY Zenon, <1>2
<1>4. Moves(p) /\ procs'[p] = s
  BY Zenon, <1>1 DEF GoOn, Moves
<1> HIDE DEF r, s
<1>5. DOMAIN s = DOMAIN Idle
  BY Zenon, <1>1, <1>3, IdleFields
<1>6. Becomes(p, pc, r.out, r.actor, r.sid)
  BY Zenon, <1>3, <1>4, <1>5 DEF Becomes, r
<1> QED BY Zenon, <1>6 DEF r

\* Entering the handler sets the actor.
LEMMA EnterIs ==
  ASSUME Vetted, NEW p \in Procs, NEW STATE a, NEW STATE sid, Enter(p, a, sid)
  PROVE  Becomes(p, "run", procs[p].out, a, sid)
<1> DEFINE r == procs[p]
           s == [r EXCEPT !.pc = "run", !.actor = a, !.sid = sid]
<1>1. DOMAIN procs = Procs /\ DOMAIN r = {"pc", "req", "at", "slot", "actor", "sid", "out"}
  BY Zenon, IdleFields DEF Vetted, VettedAt
<1>2. "pc" \in DOMAIN r /\ "out" \in DOMAIN r /\ "actor" \in DOMAIN r /\ "sid" \in DOMAIN r /\ "req" \in DOMAIN r
  BY <1>1
<1>3. DOMAIN s = DOMAIN r /\ s.pc = "run" /\ s.out = r.out /\ s.actor = a /\ s.sid = sid /\ s.req = r.req
  BY Zenon, <1>2
<1>4. Moves(p) /\ procs'[p] = s
  BY Zenon, <1>1 DEF Enter, Moves
<1> HIDE DEF r, s
<1>5. DOMAIN s = DOMAIN Idle
  BY Zenon, <1>1, <1>3, IdleFields
<1>6. Becomes(p, "run", r.out, a, sid)
  BY Zenon, <1>3, <1>4, <1>5 DEF Becomes, r
<1> QED BY Zenon, <1>6 DEF r

\* An answer other than success needs nothing; success needs what was passed.
LEMMA OutVetted ==
  ASSUME NEW pol, NEW made, NEW r, DOMAIN r = DOMAIN Idle, r.pc = "out",
         r.out \in {"ok", "gone"} => Passed(pol, made, r)
  PROVE  VettedAt(pol, made, r)
<1>1. /\ r.pc \notin {"rate", "authn"} /\ r.pc # "run" /\ r.pc \notin {"run", "rotate", "delete"}
      /\ r.pc \notin {"rotate", "delete"}
  BY Zenon
<1> QED BY Zenon, <1>1 DEF VettedAt

\* A step that leaves the session table alone keeps it.
LEMMA SameTable ==
  ASSUME Vetted, UNCHANGED <<sessions, issued, born>>
  PROVE  TableOK(sessions', issued', born') /\ Grows(born, born')
BY Zenon DEF Vetted, Grows

LEMMA RefusedKeeps ==
  ASSUME Vetted, NEW p \in Procs, scn' = scn, Grows(born, born'), TableOK(sessions', issued', born'),
         NEW STATE out, out \notin {"ok", "gone"}, Answer(p, out)
  PROVE  Vetted'
<1>1. Becomes(p, "out", out, procs[p].actor, procs[p].sid)
  BY Zenon, AnswerIs
<1>2. /\ Moves(p) /\ DOMAIN procs'[p] = DOMAIN Idle
      /\ procs'[p].pc = "out" /\ procs'[p].out = out
  BY Zenon, <1>1 DEF Becomes
<1>3. VettedAt(policy, born', procs'[p])
  BY Zenon, <1>2, OutVetted
<1> QED BY Zenon, <1>2, <1>3, OneMoves

\* A request that had passed is answered as it likes.
LEMMA PassedKeeps ==
  ASSUME Vetted, NEW p \in Procs, scn' = scn, Grows(born, born'), TableOK(sessions', issued', born'),
         procs[p].req.via = "rest", procs[p].pc \in {"run", "rotate", "delete"}, NEW STATE out, Answer(p, out)
  PROVE  Vetted'
<1>1. Becomes(p, "out", out, procs[p].actor, procs[p].sid)
  BY Zenon, AnswerIs
<1>2. /\ Moves(p) /\ DOMAIN procs'[p] = DOMAIN Idle
      /\ procs'[p].pc = "out" /\ procs'[p].req = procs[p].req
      /\ procs'[p].actor = procs[p].actor /\ procs'[p].sid = procs[p].sid
  BY Zenon, <1>1 DEF Becomes
<1>3. Passed(policy, born, procs[p])
  BY Zenon DEF Vetted, VettedAt
<1>4. Passed(policy, born', procs'[p])
  BY Zenon, <1>2, <1>3, CredentialStays DEF Passed
<1>5. VettedAt(policy, born', procs'[p])
  BY Zenon, <1>2, <1>4, OutVetted
<1> QED BY Zenon, <1>2, <1>5, OneMoves

LEMMA AllowKeeps ==
  ASSUME Vetted, NEW p \in Procs, Allow(p)
  PROVE  Vetted'
<1>1. /\ procs[p].pc = "rate" /\ UNCHANGED <<scn, sessions, issued, born>>
      /\ Answer(p, "rate-limited") \/ GoOn(p, "authn")
  BY Zenon DEF Allow
<1>2. TableOK(sessions', issued', born') /\ Grows(born, born')
  BY Zenon, <1>1, SameTable
<1>3. CASE Answer(p, "rate-limited")
  <2>1. "rate-limited" \notin {"ok", "gone"}
    BY Zenon
  <2> QED BY Zenon, <1>1, <1>2, <1>3, <2>1, RefusedKeeps
<1>4. CASE GoOn(p, "authn")
  <2>1. /\ Moves(p) /\ DOMAIN procs'[p] = DOMAIN Idle
        /\ procs'[p].pc = "authn" /\ procs'[p].req = procs[p].req
    BY Zenon, <1>4, GoOnIs DEF Becomes
  <2>2. procs[p].req.via = "rest" =>
          procs[p].req.match.at \in RouteIds /\ MatchSegs(Route(procs[p].req).bind.path, procs[p].req.path)
    BY Zenon, <1>1 DEF Vetted, VettedAt
  <2>3. VettedAt(policy, born', procs'[p])
    BY Zenon, <2>1, <2>2 DEF VettedAt
  <2> QED BY Zenon, <1>1, <1>2, <2>1, <2>3, OneMoves
<1> QED BY Zenon, <1>1, <1>3, <1>4

\* authenticate refuses with one of two words.
LEMMA WhyRefused ==
  ASSUME NEW STATE req, ~AuthenticateRest(req).ok
  PROVE  AuthenticateRest(req).why \in {"unauthenticated", "forbidden"}
<1> DEFINE who == AuthenticateRest(req)
           probe == IsHealthCap(Cap(req))
           verdicts == {ByIdentity(Identify(policy, req.peer, req.bearer, probe)),
                        ByIdentity(Identify(policy, req.peer, "", FALSE)),
                        Refused("forbidden"), Refused("unauthenticated"), Named(sessions[req.cookie].actor)}
<1>1. who \in verdicts
  BY Zenon DEF AuthenticateRest, ByIdentity, Refused, Named
<1>2. ASSUME NEW id, ~ByIdentity(id).ok PROVE ByIdentity(id).why = "unauthenticated"
  BY Zenon, <1>2 DEF ByIdentity
<1>3. ASSUME NEW why PROVE Refused(why).why = why
  BY DEF Refused
<1>4. ASSUME NEW a PROVE Named(a).ok
  BY DEF Named
<1> HIDE DEF who
<1>5. who.why \in {"unauthenticated", "forbidden"}
  BY Zenon, <1>1, <1>2, <1>3, <1>4 DEF who
<1> QED BY Zenon, <1>5 DEF who

LEMMA LookupKeeps ==
  ASSUME Vetted, NEW STATE id, sessions' = LookupSessions(id), UNCHANGED <<issued, born>>
  PROVE  TableOK(sessions', issued', born') /\ Grows(born, born')
<1>1. TableOK(sessions, issued, born)
  BY Zenon DEF Vetted
<1>2. Grows(born, born')
  BY Zenon DEF Grows
<1>3. CASE Live(id)
  <2>1. id \in DOMAIN sessions
    BY Zenon, <1>3 DEF Live
  <2>2. TableOK([sessions EXCEPT ![id].expires = clock + TTL], issued, born)
    BY Zenon, <1>1, <2>1, SlideKeeps
  <2> QED BY Zenon, <1>2, <1>3, <2>2 DEF LookupSessions
<1>4. CASE ~Live(id)
  <2>1. DOMAIN sessions \ {id} \subseteq DOMAIN sessions
    BY Zenon
  <2>2. TableOK(Restrict(sessions, DOMAIN sessions \ {id}), issued, born)
    BY Zenon, <1>1, <2>1, RestrictKeeps
  <2> QED BY Zenon, <1>2, <1>4, <2>2 DEF LookupSessions
<1> QED BY Zenon, <1>3, <1>4

LEMMA AuthnRestKeeps ==
  ASSUME Vetted, NEW p \in Procs, AuthnRest(p)
  PROVE  Vetted'
<1> DEFINE req == procs[p].req
           who == AuthenticateRest(req)
<1>1. /\ procs[p].pc = "authn" /\ req.via = "rest" /\ UNCHANGED <<scn, issued, born>>
      /\ sessions' = IF LooksUp(req) THEN LookupSessions(req.cookie) ELSE sessions
      /\ \/ ~who.ok /\ Answer(p, who.why)
         \/ Answer(p, "forbidden")
         \/ who.ok /\ AuthorizeRoute(who.actor, Route(req)) /\ Enter(p, who.actor, FoundSession(req))
  BY Zenon DEF AuthnRest
<1>2. TableOK(sessions', issued', born') /\ Grows(born, born')
  BY Zenon, <1>1, LookupKeeps, SameTable
<1>3. CASE ~who.ok /\ Answer(p, who.why)
  <2>1. who.why \in {"unauthenticated", "forbidden"}
    BY Zenon, <1>1, <1>3, WhyRefused
  <2>2. who.why \notin {"ok", "gone"}
    BY Zenon, <2>1
  <2> HIDE DEF who
  <2> QED BY Zenon, <1>1, <1>2, <1>3, <2>2, RefusedKeeps
<1>4. CASE Answer(p, "forbidden")
  <2>1. "forbidden" \notin {"ok", "gone"}
    BY Zenon
  <2> QED BY Zenon, <1>1, <1>2, <1>4, <2>1, RefusedKeeps
<1>5. CASE who.ok /\ AuthorizeRoute(who.actor, Route(req)) /\ Enter(p, who.actor, FoundSession(req))
  <2> DEFINE a == who.actor
             sid == FoundSession(req)
  <2>1. Ranked(a) /\ CredentialAllows(policy, born, sid, req, a)
    BY Zenon, <1>1, <1>5, RestEarns DEF Vetted
  <2>2. req.match.at \in RouteIds /\ MatchSegs(Route(req).bind.path, req.path)
    BY Zenon, <1>1 DEF Vetted, VettedAt
  <2>3. ScopesAllow(req, a)
    BY Zenon, <1>1, <1>5, <2>2, RouteCovers
  <2> HIDE DEF who
  <2>4. Becomes(p, "run", procs[p].out, a, sid)
    BY Zenon, <1>5, EnterIs
  <2> HIDE DEF a, sid
  <2>5. /\ Moves(p) /\ DOMAIN procs'[p] = DOMAIN Idle
        /\ procs'[p].pc = "run" /\ procs'[p].req = req /\ procs'[p].actor = a /\ procs'[p].sid = sid
    BY Zenon, <2>4 DEF Becomes
  <2>6. Passed(policy, born', procs'[p])
    BY Zenon, <1>2, <2>1, <2>3, <2>5, CredentialStays DEF Passed
  <2> HIDE DEF req
  <2>7. /\ procs'[p].pc \notin {"rate", "authn"} /\ procs'[p].pc \notin {"rotate", "delete"}
        /\ procs'[p].pc # "out" /\ procs'[p].req.via # "mcp" /\ procs'[p].req.via \in {"rest", "mcp", "stdio"}
    BY Zenon, <1>1, <2>5
  <2>8. VettedAt(policy, born', procs'[p])
    BY Zenon, <2>1, <2>5, <2>6, <2>7 DEF VettedAt
  <2> QED BY Zenon, <1>1, <1>2, <2>5, <2>8, OneMoves
<1> QED BY Zenon, <1>1, <1>3, <1>4, <1>5

LEMMA AuthnMcpKeeps ==
  ASSUME Vetted, NEW p \in Procs, AuthnMcp(p)
  PROVE  Vetted'
<1> DEFINE req == procs[p].req
           who == Identify(policy, req.peer, req.bearer, FALSE)
<1>1. /\ procs[p].pc = "authn" /\ req.via = "mcp" /\ UNCHANGED <<scn, sessions, issued, born>>
      /\ \/ Answer(p, "unsupported-version") \/ Answer(p, "unauthenticated")
         \/ who.ok /\ Enter(p, who.actor, 0)
  BY Zenon DEF AuthnMcp, tables
<1>2. TableOK(sessions', issued', born') /\ Grows(born, born')
  BY Zenon, <1>1, SameTable
<1>3. "unsupported-version" \notin {"ok", "gone"} /\ "unauthenticated" \notin {"ok", "gone"}
  BY Zenon
<1>4. CASE Answer(p, "unsupported-version")
  BY Zenon, <1>1, <1>2, <1>3, <1>4, RefusedKeeps
<1>5. CASE Answer(p, "unauthenticated")
  BY Zenon, <1>1, <1>2, <1>3, <1>5, RefusedKeeps
<1>6. CASE who.ok /\ Enter(p, who.actor, 0)
  <2> DEFINE a == who.actor
  <2>1. Ranked(a) /\ CredentialAllows(policy, born, 0, req, a)
    BY Zenon, <1>1, <1>6, IdentifyEarns, TokensNumbered DEF Vetted
  <2> HIDE DEF who
  <2>2. Becomes(p, "run", procs[p].out, a, 0)
    BY Zenon, <1>6, EnterIs
  <2> HIDE DEF a
  <2>3. /\ Moves(p) /\ DOMAIN procs'[p] = DOMAIN Idle
        /\ procs'[p].pc = "run" /\ procs'[p].req = req /\ procs'[p].actor = a /\ procs'[p].sid = 0
    BY Zenon, <2>2 DEF Becomes
  <2>4. CredentialAllows(policy, born', 0, req, a)
    BY Zenon, <1>2, <2>1, CredentialStays
  <2> HIDE DEF req
  <2>5. /\ procs'[p].pc \notin {"rate", "authn"} /\ procs'[p].pc \notin {"rotate", "delete"}
        /\ procs'[p].pc # "out" /\ procs'[p].req.via # "rest" /\ procs'[p].req.via \in {"rest", "mcp", "stdio"}
    BY Zenon, <1>1, <2>3
  <2>6. VettedAt(policy, born', procs'[p])
    BY Zenon, <2>1, <2>3, <2>4, <2>5 DEF VettedAt
  <2> QED BY Zenon, <1>1, <1>2, <2>3, <2>6, OneMoves
<1> QED BY Zenon, <1>1, <1>4, <1>5, <1>6

NewRow(actor, line) == [actor |-> SessionActor(actor), expires |-> clock + TTL, line |-> line]

\* A new session holds its caller's identity and its line.
LEMMA NewRowIs ==
  ASSUME NEW STATE actor, NEW STATE line
  PROVE  /\ DOMAIN NewRow(actor, line) = {"actor", "expires", "line"}
         /\ NewRow(actor, line).actor = SessionActor(actor) /\ NewRow(actor, line).line = line
<1>1. DOMAIN NewRow(actor, line) = {"actor", "expires", "line"}
  BY DEF NewRow
<1>2. NewRow(actor, line).actor = SessionActor(actor) /\ NewRow(actor, line).line = line
  BY Zenon DEF NewRow
<1> QED BY Zenon, <1>1, <1>2

\* A login: expired rows are swept, and the new one has a line of its own.
LEMMA CreateKeeps ==
  ASSUME Vetted, NEW p \in Procs, Ranked(procs[p].actor), Create(p)
  PROVE  TableOK(sessions', issued', born') /\ Grows(born, born')
<1> DEFINE kept == Restrict(sessions, {id \in DOMAIN sessions : sessions[id].expires > clock})
           full == Cardinality(DOMAIN kept) >= MaxSessions
           a == procs[p].actor
           e == [actor |-> a, line |-> Len(born) + 1]
           row == NewRow(a, Len(born) + 1)
<1>1. /\ sessions' = IF full THEN kept ELSE WithSession(kept, a, Len(born) + 1)
      /\ issued' = IF full THEN issued ELSE issued + 1
      /\ born' = IF full THEN born ELSE Append(born, e)
  BY Zenon DEF Create
<1>2. TableOK(kept, issued, born)
  <2>1. {id \in DOMAIN sessions : sessions[id].expires > clock} \subseteq DOMAIN sessions
    BY Zenon
  <2> QED BY Zenon, <2>1, RestrictKeeps DEF Vetted
<1>3. WithSession(kept, a, Len(born) + 1) = Added(kept, issued, row)
  BY Zenon DEF WithSession, Added, NewRow
<1>4. e.actor = a /\ e.line = Len(born) + 1
  BY Zenon
<1> HIDE DEF kept, full, e
<1>5. CASE full
  BY Zenon, <1>1, <1>2, <1>5 DEF Grows
<1>6. CASE ~full
  <2> DEFINE m == Append(born, e)
  <2>1. Made(born) /\ issued = Len(born) /\ Len(born) \in Nat
    BY Zenon, <1>2 DEF TableOK, Made
  <2>2. Ranked(e.actor)
    BY Zenon, <1>4
  <2>3. OneMore(born, m, e)
    BY Zenon, <1>4, <2>1, <2>2, MakeKeeps
  <2> HIDE DEF m
  <2>4. m[issued + 1] = e
    BY Zenon, <2>1, <2>3 DEF OneMore
  <2>5. row.line = Len(born) + 1 /\ row.actor = SessionActor(a) /\ DOMAIN row = {"actor", "expires", "line"}
    BY Zenon, NewRowIs
  <2> HIDE DEF row, a
  <2>6. RowOK(issued + 1, row, m)
    BY Zenon, <1>4, <2>4, <2>5 DEF RowOK
  <2>7. \A id \in DOMAIN kept : kept[id].line # row.line
    <3>1. \A id \in DOMAIN kept : kept[id].line \in 1 .. Len(born)
      BY Zenon, <1>2, <2>1 DEF TableOK, RowOK, Made
    <3>2. Len(born) + 1 \notin 1 .. Len(born)
      BY <2>1
    <3> QED BY Zenon, <2>5, <3>1, <3>2
  <2>8. TableOK(Added(kept, issued, row), issued + 1, m)
    BY Zenon, <1>2, <2>3, <2>6, <2>7, AddKeeps
  <2>9. Grows(born, m)
    BY Zenon, <2>1, <2>3, MoreGrows
  <2>10. sessions' = Added(kept, issued, row) /\ issued' = issued + 1 /\ born' = m
    BY Zenon, <1>1, <1>3, <1>6 DEF m
  <2> QED BY Zenon, <2>8, <2>9, <2>10
<1> QED BY Zenon, <1>5, <1>6

LEMMA RotateKeeps ==
  ASSUME Vetted, NEW p \in Procs, Rotate(p)
  PROVE  Vetted'
<1> DEFINE id == procs[p].req.cookie
           rest == Restrict(sessions, DOMAIN sessions \ {id})
           row == NewRow(sessions[id].actor, sessions[id].line)
           more == Append(born, born[id])
<1>1. /\ procs[p].pc = "rotate" /\ UNCHANGED scn
      /\ \/ /\ Live(id) /\ sessions' = WithSession(rest, sessions[id].actor, sessions[id].line)
            /\ issued' = issued + 1 /\ born' = more /\ Answer(p, "ok")
         \/ Answer(p, "unauthenticated") /\ sessions' = rest /\ UNCHANGED <<issued, born>>
  BY Zenon DEF Rotate
<1>2. procs[p].req.via = "rest"
  BY Zenon, <1>1 DEF Vetted, VettedAt
<1>3. TableOK(sessions, issued, born)
  BY Zenon DEF Vetted
<1>4. TableOK(rest, issued, born)
  <2>1. DOMAIN sessions \ {id} \subseteq DOMAIN sessions
    BY Zenon
  <2> QED BY Zenon, <1>3, <2>1, RestrictKeeps
<1>6. DOMAIN rest = DOMAIN sessions \ {id} /\ \A x \in DOMAIN rest : rest[x] = sessions[x]
  BY Zenon DEF Restrict
<1>7. WithSession(rest, sessions[id].actor, sessions[id].line) = Added(rest, issued, row)
  BY Zenon DEF WithSession, Added, NewRow
<1>8. procs[p].pc \in {"run", "rotate", "delete"}
  BY Zenon, <1>1
<1> HIDE DEF rest, id
<1>9. CASE /\ Live(id) /\ sessions' = WithSession(rest, sessions[id].actor, sessions[id].line)
           /\ issued' = issued + 1 /\ born' = more /\ Answer(p, "ok")
  <2> DEFINE maker == born[id].actor
  <2>1. id \in DOMAIN sessions
    BY Zenon, <1>9 DEF Live
  <2>2. /\ RowOK(id, sessions[id], born) /\ Made(born) /\ id \in 1 .. Len(born) /\ issued = Len(born)
        /\ Len(born) \in Nat
    BY Zenon, <1>3, <2>1 DEF TableOK, Made
  <2>3. /\ sessions[id].actor = SessionActor(maker) /\ sessions[id].line = born[id].line
        /\ Ranked(maker) /\ born[id].line \in 1 .. Len(born)
    BY Zenon, <2>2 DEF RowOK, Made
  <2>4. SessionActor(sessions[id].actor) = SessionActor(maker)
    BY Zenon, <2>3, SessionKeeps
  <2>5. row.line = sessions[id].line /\ row.actor = SessionActor(maker) /\ DOMAIN row = {"actor", "expires", "line"}
    BY Zenon, <2>4, NewRowIs
  <2>6. OneMore(born, more, born[id])
    BY Zenon, <2>2, <2>3, MakeKeeps
  <2> HIDE DEF row, more
  <2>7. more[issued + 1] = born[id]
    BY Zenon, <2>2, <2>6 DEF OneMore
  <2>8. RowOK(issued + 1, row, more)
    BY Zenon, <2>3, <2>5, <2>7 DEF RowOK
  <2>9. \A x \in DOMAIN rest : rest[x].line # row.line
    BY Zenon, <1>3, <1>6, <2>1, <2>5 DEF TableOK
  <2>10. TableOK(Added(rest, issued, row), issued + 1, more)
    BY Zenon, <1>4, <2>6, <2>8, <2>9, AddKeeps
  <2>11. TableOK(sessions', issued', born')
    BY Zenon, <1>7, <1>9, <2>10
  <2>12. Grows(born, born')
    BY Zenon, <1>9, <2>2, <2>6, MoreGrows
  <2> QED BY Zenon, <1>1, <1>2, <1>8, <1>9, <2>11, <2>12, PassedKeeps
<1>10. CASE Answer(p, "unauthenticated") /\ sessions' = rest /\ UNCHANGED <<issued, born>>
  <2>1. TableOK(sessions', issued', born')
    BY Zenon, <1>4, <1>10
  <2>2. Grows(born, born')
    BY Zenon, <1>10 DEF Grows
  <2> QED BY Zenon, <1>1, <1>2, <1>8, <1>10, <2>1, <2>2, PassedKeeps
<1> HIDE DEF more
<1> QED BY Zenon, <1>1, <1>9, <1>10

LEMMA DeleteKeeps ==
  ASSUME Vetted, NEW p \in Procs, Delete(p)
  PROVE  Vetted'
<1> DEFINE S == DOMAIN sessions \ {procs[p].req.cookie}
<1>1. /\ procs[p].pc = "delete" /\ UNCHANGED <<scn, issued, born>>
      /\ sessions' = Restrict(sessions, S) /\ Answer(p, "gone")
  BY Zenon DEF Delete
<1>2. procs[p].req.via = "rest" /\ procs[p].pc \in {"run", "rotate", "delete"}
  BY Zenon, <1>1 DEF Vetted, VettedAt
<1>3. S \subseteq DOMAIN sessions
  BY Zenon
<1> HIDE DEF S
<1>4. TableOK(Restrict(sessions, S), issued, born)
  BY Zenon, <1>3, RestrictKeeps DEF Vetted
<1>5. TableOK(sessions', issued', born') /\ Grows(born, born')
  BY Zenon, <1>1, <1>4 DEF Grows
<1> QED BY Zenon, <1>1, <1>2, <1>5, PassedKeeps

\* The handler goes on to rotate or to delete what it found.
LEMMA OnwardKeeps ==
  ASSUME Vetted, NEW p \in Procs, scn' = scn, Grows(born, born'), TableOK(sessions', issued', born'),
         procs[p].pc = "run", procs[p].req.via = "rest", NEW pc \in {"rotate", "delete"}, GoOn(p, pc)
  PROVE  Vetted'
<1>1. /\ Moves(p) /\ DOMAIN procs'[p] = DOMAIN Idle
      /\ procs'[p].pc = pc /\ procs'[p].req = procs[p].req
      /\ procs'[p].actor = procs[p].actor /\ procs'[p].sid = procs[p].sid
  BY Zenon, GoOnIs DEF Becomes
<1>2. procs[p].pc \in {"run", "rotate", "delete"}
  BY Zenon
<1>3. Ranked(procs[p].actor) /\ Passed(policy, born, procs[p])
  BY Zenon, <1>2 DEF Vetted, VettedAt
<1>4. Passed(policy, born', procs'[p]) /\ Ranked(procs'[p].actor)
  BY Zenon, <1>1, <1>3, CredentialStays DEF Passed
<1>5. /\ procs'[p].pc \notin {"rate", "authn"} /\ procs'[p].pc # "run" /\ procs'[p].pc # "out"
      /\ procs'[p].req.via = "rest"
  BY Zenon, <1>1
<1>6. VettedAt(policy, born', procs'[p])
  BY Zenon, <1>1, <1>4, <1>5 DEF VettedAt
<1> QED BY Zenon, <1>1, <1>6, OneMoves

LEMMA RunRestKeeps ==
  ASSUME Vetted, NEW p \in Procs, RunRest(p)
  PROVE  Vetted'
<1> DEFINE req == procs[p].req
<1>1. /\ procs[p].pc = "run" /\ req.via = "rest" /\ scn' = scn
      /\ \/ \E out : Answer(p, out) /\ UNCHANGED <<sessions, issued, born>>
         \/ Answer(p, IF BodyDecodes(req) THEN "ok" ELSE "invalid") /\ UNCHANGED <<sessions, issued, born>>
         \/ HandleSessionCreate(p)
         \/ HandleSessionOther(p)
  BY Zenon DEF RunRest
<1>2. procs[p].pc \in {"run", "rotate", "delete"}
  BY Zenon, <1>1
<1>3. Ranked(procs[p].actor)
  BY Zenon, <1>1, <1>2 DEF Vetted, VettedAt
<1>4. ASSUME NEW STATE out, Answer(p, out), TableOK(sessions', issued', born') /\ Grows(born, born')
      PROVE  Vetted'
  BY Zenon, <1>1, <1>2, <1>4, PassedKeeps
<1>5. ASSUME NEW out, Answer(p, out), UNCHANGED <<sessions, issued, born>> PROVE Vetted'
  BY Zenon, <1>4, <1>5, SameTable
<1>6. CASE Answer(p, IF BodyDecodes(req) THEN "ok" ELSE "invalid") /\ UNCHANGED <<sessions, issued, born>>
  BY Zenon, <1>4, <1>6, SameTable
<1>7. ASSUME NEW pc \in {"rotate", "delete"}, GoOn(p, pc), TableOK(sessions', issued', born') /\ Grows(born, born')
      PROVE  Vetted'
  BY Zenon, <1>1, <1>7, OnwardKeeps
<1>8. CASE HandleSessionCreate(p)
  <2>1. CASE Create(p)
    <3>1. TableOK(sessions', issued', born') /\ Grows(born, born')
      BY Zenon, <1>3, <2>1, CreateKeeps
    <3>2. \E out : Answer(p, out)
      BY Zenon, <2>1 DEF Create
    <3> QED BY Zenon, <1>4, <3>1, <3>2
  <2>2. CASE /\ sessions' = LookupSessions(req.cookie) /\ UNCHANGED <<issued, born>>
             /\ GoOn(p, "rotate") \/ Answer(p, "unauthenticated")
    <3>1. TableOK(sessions', issued', born') /\ Grows(born, born')
      BY Zenon, <2>2, LookupKeeps
    <3> QED BY Zenon, <1>4, <1>7, <2>2, <3>1
  <2> QED BY Zenon, <1>8, <2>1, <2>2 DEF HandleSessionCreate
<1>9. CASE HandleSessionOther(p)
  <2>1. /\ sessions' = LookupSessions(req.cookie) /\ UNCHANGED <<issued, born>>
        /\ GoOn(p, "delete") \/ Answer(p, "unauthenticated") \/ Answer(p, "ok")
    BY Zenon, <1>9 DEF HandleSessionOther
  <2>2. TableOK(sessions', issued', born') /\ Grows(born, born')
    BY Zenon, <2>1, LookupKeeps
  <2> QED BY Zenon, <1>4, <1>7, <2>1, <2>2
<1> QED BY Zenon, <1>1, <1>5, <1>6, <1>8, <1>9

\* A tool call or a resource read that succeeds was covered, and was made by
\* who was identified: only stdio comes without an actor.
LEMMA RunMcpKeeps ==
  ASSUME Vetted, NEW p \in Procs, RunMcp(p)
  PROVE  Vetted'
<1> DEFINE r == procs[p]
           req == r.req
           a == LocalOrStdio(r.actor)
           ok == IF req.uri = "" THEN AuthorizeTool(a, req.tool) ELSE AuthorizeResource(a, req.uri)
           known == IF req.uri = "" THEN ToolRows(req.tool) # {} ELSE ResourceRows(req.uri) # {}
           sent1(out) == [r EXCEPT !.pc = "out", !.out = out, !.actor = a]
<1>1. /\ r.pc = "run" /\ req.via # "rest" /\ UNCHANGED <<scn, sessions, issued, born>>
      /\ \E out \in {"canceled", IF ~ok THEN "forbidden" ELSE IF known THEN "ok" ELSE "not-found"} :
            procs' = [procs EXCEPT ![p] = sent1(out)]
  BY Zenon DEF RunMcp, tables
<1>2. PICK out \in {"canceled", IF ~ok THEN "forbidden" ELSE IF known THEN "ok" ELSE "not-found"} :
            procs' = [procs EXCEPT ![p] = sent1(out)]
  BY Zenon, <1>1
<1>3. TableOK(sessions', issued', born') /\ Grows(born, born')
  BY Zenon, <1>1, SameTable
<1> DEFINE s == sent1(out)
<1>4. DOMAIN procs = Procs /\ DOMAIN r = {"pc", "req", "at", "slot", "actor", "sid", "out"}
  BY Zenon, IdleFields DEF Vetted, VettedAt
<1>5. "pc" \in DOMAIN r /\ "out" \in DOMAIN r /\ "actor" \in DOMAIN r /\ "sid" \in DOMAIN r /\ "req" \in DOMAIN r
  BY Zenon, <1>4
<1>6. DOMAIN s = DOMAIN r /\ s.pc = "out" /\ s.out = out /\ s.actor = a /\ s.sid = r.sid /\ s.req = req
  <2> HIDE DEF a
  <2> QED BY Zenon, <1>5
<1>7. Moves(p) /\ procs'[p] = s
  <2> HIDE DEF a
  <2> QED BY Zenon, <1>2, <1>4 DEF Moves
<1>8. ASSUME out \in {"ok", "gone"} PROVE Passed(policy, born', s)
  <2>1. ok /\ known
    BY Zenon, <1>2, <1>8
  <2>2. ScopesAllow(req, a)
    <3> HIDE DEF a
    <3>1. CASE req.uri = ""
      BY Zenon, <1>1, <2>1, <3>1, ToolCovers
    <3>2. CASE req.uri # ""
      BY Zenon, <1>1, <2>1, <3>2, ResourceCovers
    <3> QED BY Zenon, <3>1, <3>2
  <2>3. CredentialAllows(policy, born, r.sid, req, a)
    <3>1. CASE req.via = "stdio"
      BY Zenon, <3>1 DEF CredentialAllows
    <3>2. CASE req.via = "mcp"
      <4>1. Ranked(r.actor) /\ CredentialAllows(policy, born, r.sid, req, r.actor)
        BY Zenon, <1>1, <3>2 DEF Vetted, VettedAt
      <4>2. r.actor # NoActor
        <5>1. HasFields(NoActor, "", "", "", {})
          BY Zenon, ActorIs DEF NoActor
        <5> QED BY Zenon, <4>1, <5>1 DEF HasFields, Ranked
      <4>3. a = r.actor
        BY Zenon, <4>2 DEF LocalOrStdio
      <4> QED BY Zenon, <4>1, <4>3
    <3>3. req.via \in {"rest", "mcp", "stdio"}
      BY Zenon, <1>1 DEF Vetted, VettedAt
    <3> QED BY Zenon, <1>1, <3>1, <3>2, <3>3
  <2> HIDE DEF s, a, req
  <2> QED BY Zenon, <1>3, <1>6, <2>2, <2>3, CredentialStays DEF Passed
<1> HIDE DEF s
<1>9. DOMAIN s = DOMAIN Idle
  BY Zenon, <1>4, <1>6, IdleFields
<1>10. VettedAt(policy, born', s)
  BY Zenon, <1>6, <1>8, <1>9, OutVetted
<1> QED BY Zenon, <1>1, <1>3, <1>7, <1>10, OneMoves

LEMMA FinishKeeps ==
  ASSUME Vetted, NEW p \in Procs, Finish(p)
  PROVE  Vetted'
<1>1. UNCHANGED <<scn, sessions, issued, born>> /\ procs' = [procs EXCEPT ![p] = Idle]
  BY Zenon DEF Finish, tables
<1>2. TableOK(sessions', issued', born') /\ Grows(born, born')
  BY Zenon, <1>1, SameTable
<1>3. Moves(p) /\ procs'[p] = Idle
  BY Zenon, <1>1 DEF Moves, Vetted
<1>4. VettedAt(policy, born', Idle)
  <2>1. Idle.pc = "idle"
    BY Zenon DEF Idle
  <2> QED BY Zenon, <2>1 DEF VettedAt
<1> QED BY Zenon, <1>1, <1>2, <1>3, <1>4, OneMoves

LEMMA TickKeeps == Vetted /\ UNCHANGED <<scn, sessions, issued, born, procs>> => Vetted'
BY Zenon DEF Vetted, policy

\* The door answers no request with success, and lets a REST request in only
\* with a route.
LEMMA MatchKinds ==
  ASSUME NEW verb, NEW path
  PROVE  MatchRoute(verb, path).kind \in {"not-found", "method-not-allowed", "route"}
<1> DEFINE hits == {k \in RouteIds : MatchSegs(Routes[k].bind.path, path)}
           full == {k \in hits : Routes[k].bind.verb = verb}
           first == CHOOSE k \in full : \A l \in full : Before(k, l)
           Is(kind, at) == [kind |-> kind, at |-> at]
<1>1. MatchRoute(verb, path) \in {Is("not-found", NoRoute), Is("method-not-allowed", NoRoute), Is("route", first)}
  BY Zenon DEF MatchRoute
<1> HIDE DEF first
<1>2. ASSUME NEW kind, NEW at PROVE Is(kind, at).kind = kind
  BY Zenon
<1> HIDE DEF Is
<1> QED BY Zenon, <1>1, <1>2

\* What the first checks let through over REST is a matched route.
LEMMA DoorIs ==
  ASSUME NEW STATE req, req.via = "rest" => req.match.kind \in {"not-found", "method-not-allowed", "route"}
  PROVE  /\ Door(req) \notin {"ok", "gone"}
         /\ req.via = "rest" /\ Door(req) = "" => req.match.kind = "route"
<1>1. CASE req.via = "rest"
  <2>1. Door(req) = RestDoor(req)
    BY Zenon, <1>1 DEF Door
  <2>2. \/ RestDoor(req) \in {"forbidden", "page", "not-found"}
        \/ req.match.kind # "route" /\ RestDoor(req) = req.match.kind
        \/ req.match.kind = "route" /\ RestDoor(req) \in {"", "rate-limited"}
    BY Zenon DEF RestDoor
  <2> QED BY Zenon, <1>1, <2>1, <2>2
<1>2. CASE req.via = "mcp"
  <2>1. Door(req) = McpDoor(req)
    BY Zenon, <1>2 DEF Door
  <2>2. McpDoor(req) \in {"closed", "forbidden", "method-not-allowed", "", "rate-limited"}
    BY Zenon DEF McpDoor
  <2> QED BY Zenon, <1>2, <2>1, <2>2
<1>3. CASE req.via # "rest" /\ req.via # "mcp"
  <2>1. Door(req) = ""
    BY Zenon, <1>3 DEF Door
  <2> QED BY Zenon, <1>3, <2>1
<1> QED BY Zenon, <1>1, <1>2, <1>3

LEMMA ArriveKeeps ==
  ASSUME Vetted, NEW p \in Procs, Arrive(p)
  PROVE  Vetted'
<1>1. /\ UNCHANGED <<scn, sessions, issued, born>>
      /\ \E t \in Traffic[scn.clients] : \E c \in Cookies(t) :
            procs' = [procs EXCEPT ![p] = Admitted(Received(t, c), Door(Received(t, c)))]
  BY Zenon DEF Arrive, tables
<1>2. PICK t \in Traffic[scn.clients] : \E c \in Cookies(t) :
            procs' = [procs EXCEPT ![p] = Admitted(Received(t, c), Door(Received(t, c)))]
  BY Zenon, <1>1
<1>3. PICK c \in Cookies(t) : procs' = [procs EXCEPT ![p] = Admitted(Received(t, c), Door(Received(t, c)))]
  BY Zenon, <1>2
<1> DEFINE match == IF t.via = "rest" THEN MatchRoute(t.verb, t.path) ELSE t.match
           req == Received(t, c)
           door == Door(req)
           slot == door = "" /\ req.via # "stdio"
           pc == IF door # "" THEN "out" ELSE IF req.via = "stdio" THEN "run"
                 ELSE IF Unlimited(req) THEN "authn" ELSE "rate"
           x == Admitted(req, door)
<1>4. req.via = t.via /\ req.verb = t.verb /\ req.path = t.path /\ req.match = match
  <2>1. DOMAIN t = DOMAIN NoReq
    BY Zenon, TrafficAssumption DEF Vetted
  <2>2. "via" \in DOMAIN t /\ "verb" \in DOMAIN t /\ "path" \in DOMAIN t /\ "match" \in DOMAIN t
    BY <2>1 DEF NoReq
  <2>3. req = [t EXCEPT !.cookie = c, !.match = match]
    BY Zenon DEF Received
  <2> HIDE DEF match
  <2> QED BY Zenon, <2>2, <2>3
<1>5. req.via = "rest" => req.match = MatchRoute(t.verb, t.path)
  BY Zenon, <1>4
<1> HIDE DEF req
<1>6. door \notin {"ok", "gone"} /\ (req.via = "rest" /\ door = "" => req.match.kind = "route")
  BY Zenon, <1>5, MatchKinds, DoorIs
<1>7. pc \in {"out", "run", "authn", "rate"} /\ (pc = "out" <=> door # "") /\ (pc = "run" => req.via = "stdio")
  BY Zenon
<1>8. DOMAIN x = DOMAIN Idle /\ x.req = req /\ x.out = door /\ x.pc = pc
  <2>1. /\ "req" \in DOMAIN Idle /\ "at" \in DOMAIN Idle /\ "out" \in DOMAIN Idle
        /\ "slot" \in DOMAIN Idle /\ "pc" \in DOMAIN Idle
    BY Zenon, IdleFields
  <2>2. x = [Idle EXCEPT !.req = req, !.at = clock, !.out = door, !.slot = slot, !.pc = pc]
    BY Zenon DEF Admitted
  <2> HIDE DEF door, slot, pc
  <2> QED BY Zenon, <2>1, <2>2
<1> HIDE DEF door, slot, pc
<1>9. Moves(p) /\ procs'[p] = x
  BY Zenon, <1>3 DEF Moves, Vetted, req, door
<1> HIDE DEF x
<1>10. x.req.via = "rest" /\ x.pc \in {"rate", "authn"} =>
         x.req.match.at \in RouteIds /\ MatchSegs(Route(x.req).bind.path, x.req.path)
  <2> SUFFICES ASSUME x.req.via = "rest", x.pc \in {"rate", "authn"}
               PROVE  req.match.at \in RouteIds /\ MatchSegs(Route(req).bind.path, req.path)
    BY Zenon, <1>8
  <2>1. door = "" /\ req.via = "rest"
    BY Zenon, <1>7, <1>8
  <2>2. req.match = MatchRoute(t.verb, t.path) /\ MatchRoute(t.verb, t.path).kind = "route"
    BY Zenon, <1>5, <1>6, <2>1
  <2> QED BY Zenon, <1>4, <2>2, MatchIs DEF Route
<1>11. VettedAt(policy, born', x)
  <2>1. /\ x.pc \notin {"rotate", "delete"} /\ (x.pc = "run" => x.req.via = "stdio")
        /\ (x.pc = "out" => x.out \notin {"ok", "gone"})
    BY Zenon, <1>6, <1>7, <1>8
  <2>2. ~(x.req.via = "mcp" /\ x.pc = "run") /\ ~(x.req.via = "rest" /\ x.pc \in {"run", "rotate", "delete"})
    BY Zenon, <2>1
  <2> QED BY Zenon, <1>8, <1>10, <2>1, <2>2 DEF VettedAt
<1>12. TableOK(sessions', issued', born') /\ Grows(born, born')
  BY Zenon, <1>1, SameTable
<1> QED BY Zenon, <1>1, <1>9, <1>11, <1>12, OneMoves

-----------------------------------------------------------------------------
(* What sessions and callers may count on *)

\* Before the first request there are no sessions and nobody to vet.
LEMMA VettedInit == Init => Vetted
<1> SUFFICES ASSUME Init PROVE Vetted
  OBVIOUS
<1>1. /\ scn \in Scenarios /\ issued = 0 /\ sessions = <<>> /\ born = <<>>
      /\ procs = [p \in Procs |-> Idle]
  BY Zenon DEF Init, MgmtInit
<1>2. DOMAIN sessions = {} /\ Len(born) = 0 /\ DOMAIN born = {} /\ 1 .. Len(born) = {}
  BY <1>1
<1>3. Made(born)
  <2>1. born = [n \in 1 .. Len(born) |-> born[n]]
    BY <1>1
  <2>2. Len(born) \in Nat
    BY <1>2
  <2> QED BY Zenon, <1>2, <2>1, <2>2 DEF Made
<1>4. TableOK(sessions, issued, born)
  <2>1. issued = Len(born)
    BY Zenon, <1>1, <1>2
  <2> QED BY Zenon, <1>2, <1>3, <2>1 DEF TableOK
<1>5. VettedAt(policy, born, Idle)
  <2>1. Idle.pc = "idle"
    BY Zenon DEF Idle
  <2> QED BY Zenon, <2>1 DEF VettedAt
<1> QED BY Zenon, <1>1, <1>4, <1>5 DEF Vetted

\* Every step of every request, of the clock and of the process keeps the invariant.
LEMMA VettedStep == Vetted /\ [Next]_vars => Vetted'
<1> SUFFICES ASSUME Vetted, [Next]_vars PROVE Vetted'
  OBVIOUS
<1>1. CASE UNCHANGED <<scn, sessions, issued, born, procs>>
  BY Zenon, <1>1, TickKeeps
<1>2. ASSUME NEW p \in Procs, Work(p) PROVE Vetted'
  BY Zenon, <1>2, AllowKeeps, AuthnRestKeeps, AuthnMcpKeeps, RunRestKeeps, RunMcpKeeps, RotateKeeps, DeleteKeeps,
     FinishKeeps DEF Work
<1>3. ASSUME NEW p \in Procs, Arrive(p) PROVE Vetted'
  BY Zenon, <1>3, ArriveKeeps
<1>4. CASE Main
  <2>1. UNCHANGED <<scn, sessions, issued, born, procs>>
    BY Zenon, <1>4 DEF Main, Load, Install, Abandoned, BindAuth, StartDNS, StartManagement, WritePID, StopSignals,
       StopMCP, CloseREST, StopREST, Drain, CloseListener, StopDNS, RemovePID, mgmtVars, mgmtRest, tables
  <2> QED BY Zenon, <1>1, <2>1
<1>5. CASE Serving \/ ServeSignals \/ Terminate \/ SignalUSR1 \/ Tick
  <2>1. UNCHANGED <<scn, sessions, issued, born, procs>>
    BY Zenon, <1>5 DEF Serving, ServeStore, ServeRun, ServeSignals, Terminate, SignalUSR1, Tick, mgmtVars, mgmtRest, tables
  <2> QED BY Zenon, <1>1, <2>1
<1>6. CASE UNCHANGED vars
  BY Zenon, <1>1, <1>6 DEF vars, mgmtVars
<1> QED BY Zenon, <1>2, <1>3, <1>4, <1>5, <1>6 DEF Next, Clients, Requests, Rest

\* Every request on its way has been identified by a credential and authorized
\* for what it calls, as far as it has come, and every session is one a login
\* made (serveHTTP, addTool, readResource, SessionTable).
THEOREM RequestsVetted == Spec => []Vetted
BY VettedInit, VettedStep, PTL DEF Spec

\* A login has one session at a time, whatever rotations race each other, a
\* logout or the expiry (SessionTable.Rotate, Create, Lookup, Delete).
THEOREM LineageHolds == Spec => []LineageUnique
<1>1. Vetted => LineageUnique
  BY Zenon DEF Vetted, TableOK, LineageUnique
<1> QED BY <1>1, RequestsVetted, PTL

\* Every capability call that runs was made by a caller whose credential
\* entitles it to that identity and whose scopes cover the call, over REST, MCP
\* and stdio alike (serveHTTP, addTool, readResource).
THEOREM CallsAreEarned == Spec => []CallsEarned
<1>1. Vetted => CallsEarned
  BY Zenon DEF Vetted, VettedAt, CallsEarned, Runs
<1> QED BY <1>1, RequestsVetted, PTL
=============================================================================
