---------------------------- MODULE ChaosDecide -----------------------------
(***************************************************************************)
(* chaos.Engine.Decide and package effects: which policies a query meets   *)
(* in its two phases, which outcome and actions each one selects, and what *)
(* they do to the response.  The snapshot's policies are compiled, a live  *)
(* query walks both phases, then app.resolveAgainst simulates the same     *)
(* query ("model") from inputs it finds by itself.                         *)
(*                                                                         *)
(* A scenario is one snapshot with one query and one management request    *)
(* for it; the clock may move between two phases, up to its last instant.  *)
(* Probabilities are in units of 1/Unit. A draw's 64-bit uniform is one of U values; hash-v1 is *)
(* an unknown function of the fields that change within a scenario:        *)
(* policy, purpose, time bucket and client. A name is its labels from the root.    *)
(***************************************************************************)
EXTENDS DropAllocation, DomainNames, FiniteSets, Functions

CONSTANTS
    Scenarios,
    U           \* values of a uniform, standing for 2^64

None == -1
MaxWireTTL == 9
Transport == {"drop", "truncate", "tcp-close", "tcp-reset"}

ASSUME UniformAssumption == U \in Nat \ {0}

\* config.Validate keeps probabilities between 0 and 1.
ASSUME ScenarioAssumption ==
    \A s \in Scenarios :
        /\ s.policies \in Seq(Range(s.policies)) /\ s.dropCap \in Int
        /\ \A i \in DOMAIN s.policies : s.policies[i].prob \in 0..Unit

VARIABLES
    sc,         \* the scenario, fixed
    index,      \* the compiled policies: precedence and probability by position
    now,
    stage,      \* "compile", "rejected", "begin", "walk", "resolve", "respond", "done"
    pass,       \* 1 live, 2 modelled
    phase,      \* "pre", "post"
    todo,       \* candidates not yet considered, as positions in sc.policies
    plan,       \* plan[pass][phase]
    winners,    \* ExclusiveSet: group -> policy
    sticky,     \* StickyRand: policy -> draw
    hash,       \* hash-v1 where it has been evaluated
    res         \* res[pass]: base, response and transport hint

vars == <<sc, index, now, stage, pass, phase, todo, plan, winners, sticky, hash, res>>

P(i) == sc.policies[i]
Ps == DOMAIN sc.policies
Live == pass = 1
Maximum(S) == CHOOSE m \in S : \A n \in S : n <= m
SumOver(f, S) == FoldFunctionOnSet(+, 0, f, S)

\* A loop over a list, from its first element.
Each(op(_, _), base, s) == MapThenFoldSet(LAMBDA x, acc : op(acc, x), base, LAMBDA i : s[i], Maximum, DOMAIN s)

\* Division and remainder as Go truncates them.
GoRem(a, b) == IF a >= 0 THEN a % b ELSE -((-a) % b)
FloorDiv(a, b) == a \div b

NoPlan == [disabled |-> FALSE, reason |-> "", at |-> None, decs |-> <<>>, acts |-> <<>>, delay |-> 0,
           early |-> "", skip |-> FALSE, hint |-> "", clamped |-> {}]
NoRes == [rcode |-> "", answers |-> <<>>, wild |-> "", ede |-> 0]
NoRun == [base |-> NoRes, out |-> NoRes, hint |-> ""]

Init ==
    /\ sc \in Scenarios
    /\ index = [prec |-> <<>>, prob |-> <<>>]
    /\ now = 0
    /\ stage = "compile"
    /\ pass = 1 /\ phase = "pre"
    /\ todo = <<>>
    /\ plan = [n \in 1..2 |-> [ph \in {"pre", "post"} |-> NoPlan]]
    /\ winners = <<>> /\ sticky = <<>> /\ hash = <<>>
    /\ res = [n \in 1..2 |-> NoRun]

-----------------------------------------------------------------------------
(* chaos.Compile *)

ActionPhaseOf(a) ==
    IF a.phase # "" THEN a.phase
    ELSE IF a.type \in {"cache", "upstream"} THEN "before-upstream"
    ELSE IF a.type = "pressure" THEN "before-resolution"
    ELSE "before-response"

\* A phase written as "transport" is neither.
InPhase(a, ph) ==
    ActionPhaseOf(a) \in IF ph = "pre" THEN {"before-resolution", "before-upstream"}
                         ELSE {"after-upstream", "before-response"}

ScopePrecedence(s) ==
    CASE s.recs # {} -> 1 [] s.wilds # {} -> 2 [] s.owners # {} -> 3 [] s.zones # {} -> 4
      [] s.fwds # {} -> 5 [] s.pools # {} -> 6 [] s.groups # {} -> 7 [] OTHER -> 8

Drops(a) == a.type = "drop" \/ (a.type = "pressure" /\ a.value = "drop")

DropPhaseCount(p) ==
    Cardinality({ph \in {"pre", "post"} :
        \E o \in Range(p.outs) : o.weight > 0 /\ \E a \in Range(o.acts) : Drops(a) /\ InPhase(a, ph)})

Shares(i) == DropPhaseCount(P(i))

\* Every policy asks for its own share; nothing is divided.
AllocatedEach ==
    [i \in Ps |-> IF Shares(i) # 0 /\ sc.dropCap \in 1..Unit - 1 THEN Least(P(i).prob, sc.dropCap)
                  ELSE P(i).prob]

Allocated == Allocate([i \in Ps |-> P(i).prob], [i \in Ps |-> Shares(i)], sc.dropCap)

Referenced(i) == \E r \in DOMAIN sc.refs : P(i).id \in Range(sc.refs[r])

Compile ==
    /\ stage = "compile"
    /\ LET ids == [i \in Ps |-> P(i).id]
           high == {i \in Ps : P(i).enabled /\ P(i).high}
           ok == /\ \A i, j \in Ps : ids[i] = ids[j] => i = j
                 /\ \A r \in DOMAIN sc.refs : Range(sc.refs[r]) \subseteq Range(ids)
                 /\ sc.maxHigh > 0 => Cardinality(high) <= sc.maxHigh
       IN  IF ok
           THEN /\ index' = [prec |-> [i \in Ps |-> IF Referenced(i) THEN 1 ELSE ScopePrecedence(P(i).scope)],
                             prob |-> Allocated]
                /\ stage' = "begin"
           ELSE stage' = "rejected" /\ UNCHANGED index
    /\ UNCHANGED <<sc, now, pass, phase, todo, plan, winners, sticky, hash, res>>

-----------------------------------------------------------------------------
(* The inputs of a decision: classify for the live query, resolveAgainst for the model. *)

\* The live query's group is that of the client's address; a request may name a group, or an
\* address to classify, or neither.
ClientGroupID == IF Live THEN sc.client
         ELSE IF sc.ask.group # "" THEN sc.ask.group ELSE IF sc.ask.addr THEN sc.client ELSE ""

\* The model selects a forwarder whatever the group may do.
ForwardingAny == IF Live /\ ClientGroupID \notin sc.forwards THEN "" ELSE sc.fwd

\* A forwarding policy is selected only for a group that may forward.
ForwardingID == IF ClientGroupID \in sc.forwards THEN sc.fwd ELSE ""
PoolOf == IF ForwardingID = "" THEN "" ELSE sc.pool

\* ClientGroupField: what hash-v1 sees of the client.
ClientGroupField(p) ==
    IF p.sampling = "client" THEN IF Live \/ sc.ask.addr THEN "address" ELSE "" ELSE ClientGroupID

-----------------------------------------------------------------------------
(* ChaosIndex *)

\* Scope indexes: positions in configuration order, references appended.
Under(field, v) == {i \in Ps : v \in P(i).scope[field]}
Indexed(prec, S) ==
    SelectSeq([i \in Ps |-> i], LAMBDA i : ScopePrecedence(P(i).scope) = prec /\ i \in S)

ByRecord(r) ==
    LET refs == IF r \in DOMAIN sc.refs THEN sc.refs[r] ELSE <<>>
    IN  Indexed(1, Under("recs", r)) \o [k \in DOMAIN refs |-> CHOOSE i \in Ps : P(i).id = refs[k]]

ByWildcardSource(w) ==
    SelectSeq([i \in Ps |-> i],
              LAMBDA i : ScopePrecedence(P(i).scope) \in {1, 2} /\ w \in P(i).scope.wilds)

\* ChaosIndex.Candidates: most specific class first, each policy once.
Candidates(recs, wild) ==
    LET If(v, s) == IF v = "" THEN <<>> ELSE s
        all == Each(LAMBDA acc, rec : acc \o ByRecord(rec), <<>>, recs)
               \o If(wild, ByWildcardSource(wild))
               \o Indexed(3, Under("owners", sc.q.name))
               \o If(sc.zone.id, Indexed(4, Under("zones", sc.zone.id)))
               \o If(ForwardingID, Indexed(5, Under("fwds", ForwardingID)))
               \o If(PoolOf, Indexed(6, Under("pools", PoolOf)))
               \o If(ClientGroupID, Indexed(7, Under("groups", ClientGroupID)))
               \o Indexed(8, Ps)
        Add(acc, i) == IF i \in Range(acc) THEN acc ELSE Append(acc, i)
    IN  Each(Add, <<>>, all)

-----------------------------------------------------------------------------
(* Engine.decide *)

\* protectedReason; names protect what is below them.
ProtectedReason ==
    CASE \E n \in sc.protected.names : InZone(sc.q.name, n) -> "protected_name"
      [] ClientGroupID # "" /\ ClientGroupID \in sc.protected.groups -> "protected_client_group"
      [] ClientGroupID # "" /\ ClientGroupID \in sc.exempt -> "chaos_exempt"
      [] OTHER -> ""

\* Why decide returns before looking at a policy.
Disabled ==
    CASE sc.emergency -> "emergency_disabled"
      [] ~sc.enabled -> "chaos_disabled"
      [] OTHER -> ProtectedReason

\* contributingRecords: the records, the wildcard source first, and that source.
Contributing ==
    LET z == sc.zone
        base == res[pass].base
        ans == SelectSeq([k \in DOMAIN base.answers |-> base.answers[k].rec], LAMBDA r : r # "")
        exact == IF z.exact = "" THEN <<>> ELSE <<z.exact>>
    IN  CASE z.id = "" -> <<IF phase = "post" /\ base.wild # "" THEN <<base.wild>> ELSE <<>>, base.wild>>
          [] z.id # "" /\ phase = "post" ->
                <<(IF base.wild # "" THEN <<base.wild>> ELSE <<>>) \o ans, base.wild>>
          [] OTHER -> IF z.hasName \/ z.wild = "" THEN <<exact, "">>
                      ELSE <<Append(exact, z.wild), z.wild>>

SetPlan(pl) == plan' = [plan EXCEPT ![pass][phase] = pl]
Plan == plan[pass][phase]

\* decide up to its loop.
Begin ==
    /\ stage = "begin"
    /\ IF Disabled # ""
       THEN SetPlan([NoPlan EXCEPT !.disabled = TRUE, !.reason = Disabled, !.at = now]) /\ todo' = <<>>
       ELSE /\ SetPlan([NoPlan EXCEPT !.at = now])
            /\ todo' = Candidates(Contributing[1], Contributing[2])
    /\ stage' = "walk"
    /\ UNCHANGED <<sc, index, now, pass, phase, winners, sticky, hash, res>>

ScopeMatches(s) ==
    LET q == sc.q
        Covers(S, v) == S = {} \/ v \in S
    IN  /\ Covers(s.qtypes, q.type) /\ Covers(s.transports, q.transport)
        /\ Covers(s.groups, ClientGroupID) /\ Covers(s.zones, sc.zone.id)
        /\ Covers(s.fwds, ForwardingID) /\ Covers(s.pools, PoolOf) /\ Covers(s.owners, q.name)
        /\ s.recs # {} => s.recs \cap Range(Contributing[1]) # {}
        /\ s.wilds # {} => Contributing[2] \in s.wilds \ {""}

PolicyHasPhase(p) ==
    \E o \in Range(p.outs) : o.acts = <<>> \/ \E a \in Range(o.acts) : InPhase(a, phase)

\* The residue of a negative elapsed time is brought back into the period.
FlapHealthy(p, t) ==
    LET e == t - p.offset
        r == IF e < 0 THEN GoRem(GoRem(e, p.period) + p.period, p.period) ELSE GoRem(e, p.period)
    IN  r >= p.unhealthy

GateSkip(p) ==
    CASE ~p.enabled -> "disabled"
      [] p.starts # None /\ now < p.starts -> "not_started"
      [] p.expires # None /\ now >= p.expires -> "expired"
      [] p.expires = None /\ p.starts # None /\ sc.lifetime > 0 /\ now >= p.starts + sc.lifetime -> "expired"
      [] p.period > 0 /\ p.unhealthy > 0 /\ FlapHealthy(p, now) -> "flap_healthy"
      [] OTHER -> ""

\* The group is looked up in the policy's own table, which is empty.
ClaimedNever(p) == FALSE /\ p.group = ""

InGroup(p) == p.comp = "exclusive-group" /\ p.group # ""
Claimed(p) == InGroup(p) /\ p.group \in DOMAIN winners

\* Why a candidate is passed over before anything is drawn; "phase" records no decision.
Blocked(p) ==
    CASE ~ScopeMatches(p.scope) -> "scope_mismatch"
      [] ~PolicyHasPhase(p) -> "phase"
      [] Claimed(p) -> "exclusive_group"
      [] GateSkip(p) # "" /\ (Live \/ sc.respect \/ GateSkip(p) # "disabled") -> GateSkip(p)
      [] OTHER -> ""

\* TimeBucketString and uniforms: the key of hash-v1 and what it may return.
Bucket(p) == IF p.bucket <= 0 THEN None ELSE FloorDiv(now, p.bucket) * p.bucket
Key(p, purpose) == <<p.id, purpose, Bucket(p), ClientGroupField(p)>>
Random(p) == p.mode = "random" /\ Live

\* StickyRand.Draw and HashV1: [p, w, u0, u1]; a random draw leaves u0 zero.
Uniforms(p) ==
    IF Random(p)
    THEN IF p.id \in DOMAIN sticky THEN {sticky[p.id]}
         ELSE [p : 0..U - 1, w : 0..U - 1, u0 : {0}, u1 : 0..U - 1]
    ELSE IF Key(p, "") \in DOMAIN hash THEN {hash[Key(p, "")]}
         ELSE {[p |-> a, w |-> b, u0 |-> a, u1 |-> b] : a \in 0..U - 1, b \in 0..U - 1}

EveryNthSkip(p, h) ==
    p.nth > 1 /\ (IF p.bucket > 0 THEN FloorDiv(now, p.bucket) ELSE h.u0) % p.nth # 0

\* PickOutcome: the first outcome whose cumulative positive weight exceeds w of the total.
PickOutcome(p, w) ==
    LET pos == SelectSeq([k \in DOMAIN p.outs |-> k], LAMBDA k : p.outs[k].weight > 0)
        Cum(n) == SumOver([k \in DOMAIN p.outs |-> p.outs[k].weight], {pos[j] : j \in 1..n})
        over == {n \in DOMAIN pos : Cum(n) * U > w * Cum(Len(pos))}
    IN  IF pos = <<>> THEN 0 ELSE pos[CHOOSE n \in over : \A m \in over : n <= m]

Uniform(a) == a.dist = "uniform" \/ (a.dist = "" /\ (a.min # 0 \/ a.max # 0))
UniformDelay(a, u) == IF a.max <= a.min THEN a.min ELSE a.min + (u * (a.max - a.min)) \div U

\* clampDelay
ClampDelay(d, p) ==
    LET own == IF p.maxDelay > 0 THEN Least(d, p.maxDelay) ELSE d
    IN  IF sc.maxDelay > 0 THEN Least(own, sc.maxDelay) ELSE own

Delays(a) == a.type = "delay" \/ (a.type = "upstream" /\ a.value = "delay")

\* The second draw of mapDelay: hash-v1 again, or a live draw's u1 unless it is zero.
DelayDraws(p, o, h) ==
    IF ~\E a \in Range(o.acts) : Delays(a) /\ Uniform(a) THEN {0}
    ELSE IF ~Random(p)
         THEN IF Key(p, "delay") \in DOMAIN hash THEN {hash[Key(p, "delay")].u1} ELSE 0..U - 1
    ELSE IF h.u1 # 0 THEN {h.u1} ELSE 0..U - 1

MapDelay(p, a, x) == IF Uniform(a) THEN UniformDelay(a, x) ELSE IF a.dur = 0 THEN a.ttl ELSE a.dur

\* planActions
PlanActions(p, o, h, x) ==
    LET mine == SelectSeq(o.acts, LAMBDA a : InPhase(a, phase))
        D(a) == IF Delays(a) THEN ClampDelay(MapDelay(p, a, x), p) ELSE 0
        rc == SelectSeq(mine, LAMBDA a : a.type = "rcode")
        hints == {a.type : a \in Range(mine)} \cap Transport
    IN  [acts |-> [k \in DOMAIN mine |->
                     [id |-> p.id, out |-> o.id, act |-> mine[k], delay |-> D(mine[k]),
                      seed |-> IF Delays(mine[k]) /\ Uniform(mine[k]) THEN x ELSE h.u1]],
         clamped |-> {mine[k] : k \in {j \in DOMAIN mine : Delays(mine[j]) /\ D(mine[j]) # MapDelay(p, mine[j], x)}},
         delay |-> Maximum({0} \cup {D(a) : a \in {b \in Range(mine) : b.type = "delay"}}),
         early |-> IF phase = "pre" /\ rc # <<>> THEN rc[Len(rc)].value ELSE "",
         hints |-> hints]

Decision(i, out, why, acts) ==
    [id |-> P(i).id, at |-> i, prec |-> index.prec[i], out |-> out, triggered |-> why = "", skip |-> why, acts |-> acts]

Record(i, out, why) == SetPlan([Plan EXCEPT !.decs = Append(@, Decision(i, out, why, <<>>))])

\* A candidate is passed over.
Skip ==
    /\ stage = "walk" /\ todo # <<>>
    /\ LET i == Head(todo) IN
       /\ Blocked(P(i)) # ""
       /\ IF Blocked(P(i)) = "phase" THEN UNCHANGED plan ELSE Record(i, "", Blocked(P(i)))
    /\ todo' = Tail(todo)
    /\ UNCHANGED <<sc, index, now, stage, pass, phase, winners, sticky, hash, res>>

Remember(p, h, x, drew) ==
    IF Random(p)
    THEN sticky' = [k \in DOMAIN sticky \cup {p.id} |-> IF k = p.id THEN h ELSE sticky[k]] /\ UNCHANGED hash
    ELSE LET more == {Key(p, "")} \cup (IF drew THEN {Key(p, "delay")} ELSE {})
         IN  /\ hash' = [k \in DOMAIN hash \cup more |->
                            IF k = Key(p, "") THEN h
                            ELSE IF k \in more THEN [p |-> 0, w |-> 0, u0 |-> 0, u1 |-> x] ELSE hash[k]]
             /\ UNCHANGED sticky

\* A candidate draws and is not selected.
Miss ==
    /\ stage = "walk" /\ todo # <<>>
    /\ LET i == Head(todo)
           p == P(i)
       IN  /\ Blocked(p) = ""
           /\ \E h \in Uniforms(p) :
                LET pr == index.prob[i]
                    why == CASE EveryNthSkip(p, h) -> "every_nth"
                             [] pr <= 0 \/ (pr < Unit /\ h.p * Unit >= pr * U) -> "probability"
                             [] PickOutcome(p, h.w) = 0 -> "no_outcome"
                             [] OTHER -> ""
                IN  /\ why # ""
                    /\ Record(i, "", why)
                    /\ Remember(p, h, 0, FALSE)
    /\ todo' = Tail(todo)
    /\ UNCHANGED <<sc, index, now, stage, pass, phase, winners, res>>

\* The actions of outcome o join the plan unless their transport conflicts with it.
Join(i, o, a) ==
    LET p == P(i)
        hint == IF a.hints = {} THEN "" ELSE CHOOSE t \in a.hints : TRUE
        conflict == \/ Cardinality(a.hints) > 1
                    \/ hint # "" /\ Plan.hint \notin {"", hint}
    IN  /\ IF conflict THEN Record(i, o.id, "transport_conflict")
           ELSE SetPlan([Plan EXCEPT
                  !.decs = Append(@, Decision(i, o.id, "", a.acts)),
                  !.acts = @ \o a.acts,
                  !.clamped = @ \cup a.clamped,
                  !.delay = Maximum({@, a.delay}),
                  !.early = IF @ = "" THEN a.early ELSE @,
                  !.skip = @ \/ a.early # "",
                  !.hint = IF hint = "" THEN @ ELSE hint])
        /\ winners' = IF InGroup(p) /\ ~conflict /\ p.group \notin DOMAIN winners
                      THEN [g \in DOMAIN winners \cup {p.group} |-> IF g = p.group THEN p.id ELSE winners[g]]
                      ELSE winners
        /\ todo' = IF p.comp = "terminal" /\ ~conflict THEN <<>> ELSE Tail(todo)

\* A candidate is selected.
Select ==
    /\ stage = "walk" /\ todo # <<>>
    /\ LET i == Head(todo)
           p == P(i)
           pr == index.prob[i]
       IN  /\ Blocked(p) = ""
           /\ \E h \in Uniforms(p) :
                /\ ~EveryNthSkip(p, h)
                /\ pr > 0 /\ (pr >= Unit \/ h.p * Unit < pr * U)
                /\ PickOutcome(p, h.w) # 0
                /\ LET o == p.outs[PickOutcome(p, h.w)] IN
                   \E x \in DelayDraws(p, o, h) :
                     /\ Join(i, o, PlanActions(p, o, h, x))
                     /\ Remember(p, h, x, \E b \in Range(o.acts) : Delays(b) /\ Uniform(b))
    /\ UNCHANGED <<sc, index, now, stage, pass, phase, res>>

\* The loop ends: the pre-resolution plan leads to a base result, the other to the response.
EndWalk ==
    /\ stage = "walk" /\ todo = <<>>
    /\ stage' = IF phase = "pre" THEN "resolve" ELSE "respond"
    /\ UNCHANGED <<sc, index, now, pass, phase, todo, plan, winners, sticky, hash, res>>

\* isRCodeValue and injectedRCode
RCodeValues == {"NODATA", "NOERROR", "SERVFAIL", "REFUSED", "NXDOMAIN", "FORMERR", "NOTIMP"}
InjectedRCode(v) == IF v = "NODATA" THEN "NOERROR" ELSE v

\* fillPlanSummary: the hooks of a finished plan.
Summary(pl) ==
    LET As == [k \in DOMAIN pl.acts |-> pl.acts[k].act]
        Of(t) == SelectSeq(As, LAMBDA a : a.type = t)
        ups == Range(Of("upstream"))
        press == Of("pressure")
        edes == SelectSeq(Of("rcode"), LAMBDA a : a.ede # 0)
        force == SelectSeq(Of("upstream"), LAMBDA a : a.value \in {"force", "select"} /\ a.up # "")
        synth == SelectSeq(Of("upstream"), LAMBDA a : a.value \in RCodeValues)
    IN  [cache |-> {IF a.value = "miss" THEN "force-miss" ELSE a.value : a \in Range(Of("cache"))}
                   \cap {"bypass", "force-miss", "expire", "stale"},
         unavailable |-> {a.up : a \in {b \in ups : b.value = "unavailable"}} \ {""},
         force |-> IF force = <<>> THEN "" ELSE force[Len(force)].up,
         fail |-> {a.value : a \in ups} \cap {"timeout", "transport-error", "failover"},
         synthetic |-> IF synth = <<>> THEN "" ELSE InjectedRCode(synth[Len(synth)].value),
         upDelay |-> Maximum({0} \cup {pl.acts[k].delay : k \in
                        {j \in DOMAIN pl.acts :
                            \/ As[j].type = "upstream" /\ As[j].value = "delay"
                            \/ As[j].type = "delay" /\ ActionPhaseOf(As[j]) = "before-upstream"}}),
         pressure |-> IF press = <<>> THEN "" ELSE (IF press[1].value = "" THEN "SERVFAIL" ELSE press[1].value),
         ede |-> IF edes = <<>> THEN 0 ELSE edes[1].ede,
         hold |-> Maximum({0} \cup {a.hold : a \in Range(As)})]

\* Handler.answer without the cache: the zone's answer, or what it leaves to an upstream. The
\* end of an alias chain is forwarded by the policy of its target.
HaveLocal == sc.zone.id # ""
AliasOut == HaveLocal /\ \E x \in Range(sc.local.res.answers) : x.type = "CNAME"
Exchanges ==
    /\ ~HaveLocal \/ sc.local.fall
    /\ sc.client \in sc.forwards /\ (IF AliasOut THEN sc.onward ELSE sc.fwd) # ""
AnsweredLocally == HaveLocal /\ ~Exchanges /\ (~sc.local.fall \/ sc.local.res.answers # <<>>)
Answer ==
    IF Exchanges THEN [sc.up EXCEPT !.answers = (IF AliasOut THEN sc.local.res.answers ELSE <<>>) \o @]
    ELSE IF AnsweredLocally THEN sc.local.res ELSE [NoRes EXCEPT !.rcode = "REFUSED"]

\* EarlyFailure, or the base answer: the handler's for the live query, the local one alone for
\* the model, which never forwards.
Resolve ==
    /\ stage = "resolve"
    /\ LET pre == plan[pass]["pre"] IN
       res' = [res EXCEPT ![pass].base =
                 IF pre.skip /\ pre.early # ""
                 THEN [NoRes EXCEPT !.rcode = InjectedRCode(pre.early), !.ede = Summary(pre).ede]
                 ELSE IF Live THEN Answer ELSE sc.local.res]
    /\ phase' = "post" /\ stage' = "begin"
    /\ UNCHANGED <<sc, index, now, pass, todo, plan, winners, sticky, hash>>

-----------------------------------------------------------------------------
(* Package effects: what the response phase does to an answer. *)

ApplyRCode(r, a) ==
    [r EXCEPT !.rcode = InjectedRCode(a.value),
              !.answers = IF a.value = "NOERROR" THEN @ ELSE <<>>,
              !.ede = IF a.ede # 0 THEN a.ede ELSE @]

\* Values that are names become CNAMEs; one that closes a loop is left out.
ApplyAlternate(r, a) ==
    LET ttl == IF r.answers # <<>> /\ r.answers[1].ttl > 0 THEN r.answers[1].ttl ELSE 1
        seen == {sc.q.name} \cup {x.data : x \in {y \in Range(r.answers) : y.type = "CNAME"}}
        Add(acc, v) ==
            IF v \in sc.addresses
            THEN [acc EXCEPT !.out = Append(@, [data |-> v, type |-> sc.q.type, ttl |-> ttl, rec |-> ""])]
            ELSE IF v \in acc.seen THEN acc
            ELSE [out |-> Append(acc.out, [data |-> v, type |-> "CNAME", ttl |-> ttl, rec |-> ""]),
                  seen |-> acc.seen \cup {v}]
        new == Each(Add, [out |-> <<>>, seen |-> seen], a.values).out
    IN  IF new = <<>> THEN r
        ELSE [r EXCEPT !.answers = new, !.rcode = IF @ = "" THEN "NOERROR" ELSE @]

ApplyOmit(r, a) == [r EXCEPT !.answers = SelectSeq(@, LAMBDA x : x.data \notin Range(a.values))]

ApplyLimit(r, a) ==
    IF a.limit < 0 \/ Len(r.answers) <= a.limit THEN r ELSE [r EXCEPT !.answers = SubSeq(@, 1, a.limit)]

\* splitmix64, with few values.
Mix(u) == (5 * u + 3) % 16

Swap(s, i, j) == [s EXCEPT ![i] = s[j], ![j] = s[i]]

\* Fisher-Yates over the mixed seed.
ApplyShuffle(r, seed) ==
    LET n == Len(r.answers)
        Step(acc, k) ==
            LET i == n + 1 - k
                u == Mix(acc.u)
            IN  [u |-> u, s |-> IF k = n THEN acc.s ELSE Swap(acc.s, i, (u % i) + 1)]
    IN  IF n < 2 THEN r
        ELSE [r EXCEPT !.answers = Each(Step, [u |-> IF seed = 0 THEN 1 ELSE seed, s |-> @], [k \in 1..n |-> k]).s]

ApplyRotate(r, a) ==
    LET n == Len(r.answers)
        k0 == GoRem(IF a.limit = 0 THEN 1 ELSE a.limit, n)
        k == IF k0 < 0 THEN k0 + n ELSE k0
    IN  IF n < 2 THEN r ELSE [r EXCEPT !.answers = SubSeq(@, k + 1, n) \o SubSeq(@, 1, k)]

TTLMode(a) ==
    CASE a.value # "" -> a.value
      [] a.value = "" /\ a.ttl = 0 /\ a.min = 0 /\ a.max = 0 -> "zero"
      [] a.value = "" /\ (a.min # 0 \/ a.max # 0) -> IF a.ttl # 0 THEN "jitter" ELSE "clamp"
      [] OTHER -> "set"

\* transformTTL
TransformTTL(cur, a, seed) ==
    LET low == IF a.min > 0 /\ cur < a.min THEN a.min ELSE cur
        next == CASE TTLMode(a) = "zero" -> 0
                  [] TTLMode(a) = "clamp" -> IF a.max > 0 /\ low > a.max THEN a.max ELSE low
                  [] TTLMode(a) = "jitter" ->
                        cur + UniformDelay([min |-> Least(a.min, a.max), max |-> Maximum({a.min, a.max})], seed)
                  [] OTHER -> a.ttl
    IN  Least(Maximum({next, 0}), MaxWireTTL)

ApplyTTL(r, a, seed) ==
    [r EXCEPT !.answers = [k \in DOMAIN @ |-> [@[k] EXCEPT !.ttl = TransformTTL(@, a, seed)]]]

\* ApplyResponse: the plan's actions in their order.
ApplyResponse(r, pl) ==
    LET Apply(acc, x) ==
            CASE x.act.type = "rcode" -> ApplyRCode(acc, x.act)
              [] x.act.type = "alternate" -> ApplyAlternate(acc, x.act)
              [] x.act.type = "omit" -> ApplyOmit(acc, x.act)
              [] x.act.type = "limit" -> ApplyLimit(acc, x.act)
              [] x.act.type = "shuffle" -> ApplyShuffle(acc, x.seed)
              [] x.act.type = "rotate" -> ApplyRotate(acc, x.act)
              [] x.act.type = "ttl" -> ApplyTTL(acc, x.act, x.seed)
              [] OTHER -> acc
        out == Each(Apply, r, pl.acts)
    IN  IF out.ede = 0 THEN [out EXCEPT !.ede = Summary(pl).ede] ELSE out

\* SelectTransportPlan: between two phases with a hint, the first policy by precedence and order.
SelectTransportPlan(pre, post) ==
    LET cand == {c \in {<<pre, d>> : d \in Range(pre.decs)} \cup {<<post, d>> : d \in Range(post.decs)} :
                    c[2].triggered /\ \E a \in Range(c[2].acts) : a.act.type \in Transport}
        best == CHOOSE c \in cand : \A e \in cand :
                    \/ c[2].prec < e[2].prec
                    \/ c[2].prec = e[2].prec /\ c[2].at <= e[2].at
    IN  IF pre.hint = "" THEN post ELSE IF post.hint = "" THEN pre ELSE best[1]

\* Hint; TCP has no silent drop.
Hint(pl) ==
    CASE pl.hint = "drop" -> IF sc.q.transport = "tcp" THEN "hold-then-close" ELSE "drop"
      [] pl.hint = "tcp-close" -> IF Summary(pl).hold > 0 THEN "hold-then-close" ELSE "tcp-close"
      [] pl.hint = "" -> "send"
      [] OTHER -> pl.hint

\* The response of a pass; the simulation starts with tables of its own.
Respond ==
    /\ stage = "respond"
    /\ res' = [res EXCEPT ![pass].out = ApplyResponse(res[pass].base, plan[pass]["post"]),
                          ![pass].hint = Hint(SelectTransportPlan(plan[pass]["pre"], plan[pass]["post"]))]
    /\ IF Live THEN pass' = 2 /\ phase' = "pre" /\ stage' = "begin"
       ELSE stage' = "done" /\ UNCHANGED <<pass, phase>>
    /\ winners' = <<>> /\ sticky' = <<>>
    /\ UNCHANGED <<sc, index, now, todo, plan, hash>>

\* Time passes between two calls of decide.
Tick ==
    /\ stage = "begin" /\ now < sc.until
    /\ now' = now + 1
    /\ UNCHANGED <<sc, index, stage, pass, phase, todo, plan, winners, sticky, hash, res>>

Rest ==
    /\ stage \in {"done", "rejected"}
    /\ UNCHANGED vars

Next ==
    \/ Compile \/ Begin \/ Skip \/ Miss \/ Select \/ EndWalk \/ Resolve \/ Respond \/ Tick \/ Rest

Spec == Init /\ [][Next]_vars

-----------------------------------------------------------------------------
(* Properties *)

Decs(n) == Range(plan[n]["pre"].decs) \cup Range(plan[n]["post"].decs)
Fired(n) == {d \in Decs(n) : d.triggered}

\* After allocateDropProbabilities the drop-capable policies, one share per phase in which
\* each may drop, stay within safety.maxDropProbability, and no policy got more than it asked.
DropsWithinCap ==
    stage \notin {"compile", "rejected"} =>
        /\ sc.dropCap \in 1..Unit - 1 =>
              SumTo([i \in Ps |-> index.prob[i] * Shares(i)], Len(sc.policies)) <= sc.dropCap
        /\ \A i \in Ps : index.prob[i] <= P(i).prob

\* At most one policy of an exclusive group acts on a query, both phases together.
OneRunsPerGroup ==
    \A n \in 1..2 : \A d, e \in Fired(n) :
        InGroup(P(d.at)) /\ InGroup(P(e.at)) /\ P(d.at).group = P(e.at).group => d.id = e.id

\* The request names the client's address, or else its group where no policy samples by address.
DescribesClient ==
    /\ sc.ask.group \in {"", sc.client}
    /\ sc.ask.addr \/ (sc.ask.group # "" /\ \A i \in Ps : P(i).sampling = "")

\* resolve with applyChaos models what the live query met, from inputs of its own: with
\* deterministic policies, for a request that describes the client as it is classified, and
\* both phases at the same instants, it decides the same before resolution wherever the answer
\* comes from. It also decides the same on the response, and gives the same one, when chaos fails
\* the query early or a zone answers it, the local part of an alias chain that may not be
\* forwarded included. Beyond that it differs by design: "Management resolve never forwards",
\* and a query that is refused live falls through to an empty answer in the model.
ModelPredictsLive ==
    /\ stage = "done"
    /\ \A i \in Ps : P(i).mode = "deterministic"
    /\ sc.respect \/ \A i \in Ps : P(i).enabled
    /\ DescribesClient
    /\ plan[1]["pre"].at = plan[2]["pre"].at
    => /\ plan[1]["pre"] = plan[2]["pre"]
       /\ plan[1]["post"].at = plan[2]["post"].at /\ (plan[1]["pre"].skip \/ AnsweredLocally)
          => plan[1] = plan[2] /\ res[1] = res[2]

-----------------------------------------------------------------------------
(* The invariant the proofs use *)

Phases == {"pre", "post"}

\* Plans under construction record their decisions in sequences.
PlanShape(pl) == "decs" \in DOMAIN pl /\ pl.decs \in Seq(Range(pl.decs))
Shaped(f) ==
    /\ DOMAIN f = 1..2 /\ \A n \in 1..2 : DOMAIN f[n] = Phases
    /\ \A n \in 1..2, ph \in Phases : PlanShape(f[n][ph])

\* Fired, of any plans f.
FiredIn(f, n) == {d \in Range(f[n]["pre"].decs) \cup Range(f[n]["post"].decs) : d.triggered}

\* The policies that took the decisions D hold their groups in w.
Hold(pols, D, w) ==
    \A d \in D : InGroup(pols[d.at]) => pols[d.at].group \in DOMAIN w /\ w[pols[d.at].group] = d.id

\* No two policies of one group took decisions of D.
Alone(pols, D) ==
    \A d, e \in D : InGroup(pols[d.at]) /\ InGroup(pols[e.at]) /\ pols[d.at].group = pols[e.at].group
                    => d.id = e.id

\* What fired in this pass holds its groups, as long as the pass lasts, and the simulation has
\* decided nothing before its turn.
Claims ==
    /\ pass \in 1..2 /\ phase \in Phases /\ Shaped(plan)
    /\ pass = 1 => FiredIn(plan, 2) = {}
    /\ stage # "done" => Hold(sc.policies, FiredIn(plan, pass), winners)
    /\ \A n \in 1..2 : Alone(sc.policies, FiredIn(plan, n))
=============================================================================
