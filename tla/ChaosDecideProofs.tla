------------------------- MODULE ChaosDecideProofs --------------------------
(***************************************************************************)
(* At most one policy of an exclusive group acts on a query, and what the  *)
(* policies may drop stays within the cap: for every snapshot, any number  *)
(* of policies and any number of draws.                                    *)
(***************************************************************************)
EXTENDS ChaosDecide, FiniteSetTheorems, WellFoundedInduction, TLAPS

\* The plans after SetPlan.
Put(f, n, ph, pl) == [f EXCEPT ![n][ph] = pl]

\* g is f with the plan pl for one phase of one pass; the other plans are those of f.
OnlyAt(g, f, n, ph, pl) ==
    /\ DOMAIN g = 1..2 /\ \A k \in 1..2 : DOMAIN g[k] = Phases
    /\ g[n][ph] = pl
    /\ \A k \in 1..2, q \in Phases : k # n \/ q # ph => g[k][q] = f[k][q]

\* SetPlan writes one plan and no other.
LEMMA PlanSet ==
    ASSUME NEW f, NEW n \in 1..2, NEW ph \in Phases, NEW pl, Shaped(f)
    PROVE  OnlyAt(Put(f, n, ph, pl), f, n, ph, pl)
<1> DEFINE row == [f[n] EXCEPT ![ph] = pl]
           g == Put(f, n, ph, pl)
<1>1. DOMAIN f = 1..2 /\ DOMAIN f[n] = Phases /\ \A k \in 1..2 : DOMAIN f[k] = Phases BY ZenonT(30) DEF Shaped
<1>2. DOMAIN row = Phases /\ row[ph] = pl /\ \A q \in Phases : q # ph => row[q] = f[n][q]
  BY <1>1, ZenonT(30)
<1>3. DOMAIN g = 1..2 /\ g[n] = row /\ \A k \in 1..2 : k # n => g[k] = f[k]
  BY <1>1, ZenonT(30) DEF Put
<1> HIDE DEF row, g
<1>4. OnlyAt(g, f, n, ph, pl) BY <1>1, <1>2, <1>3, ZenonT(30) DEF OnlyAt
<1> QED BY <1>4, ZenonT(30) DEF g

\* Appending a decision adds it to those recorded, and nothing else.
LEMMA Appended ==
    ASSUME NEW s, s \in Seq(Range(s)), NEW d
    PROVE  /\ Range(Append(s, d)) = Range(s) \cup {d}
           /\ Append(s, d) \in Seq(Range(Append(s, d)))
<1>1. /\ Append(s, d) \in Seq(Range(s) \cup {d}) /\ Len(Append(s, d)) = Len(s) + 1
      /\ Append(s, d)[Len(s) + 1] = d /\ \A k \in 1..Len(s) : Append(s, d)[k] = s[k]
  BY SMTT(30)
<1>2. Len(s) \in Nat /\ DOMAIN s = 1..Len(s) /\ DOMAIN Append(s, d) = 1..(Len(s) + 1)
  BY <1>1, SMTT(30)
<1>3. Range(Append(s, d)) = Range(s) \cup {d}
  <2>1. \A x \in Range(Append(s, d)) : x \in Range(s) \cup {d} BY <1>1, <1>2, SMTT(30) DEF Range
  <2>2. \A x \in Range(s) : x \in Range(Append(s, d))
    <3>1. SUFFICES ASSUME NEW k \in 1..Len(s) PROVE s[k] \in Range(Append(s, d))
      BY <1>2, ZenonT(30) DEF Range
    <3>2. k \in 1..(Len(s) + 1) BY <1>2, SMTT(30)
    <3> QED BY <3>2, <1>1, <1>2, ZenonT(30) DEF Range
  <2>3. d \in Range(Append(s, d))
    <3>1. Len(s) + 1 \in 1..(Len(s) + 1) BY <1>2, SMTT(30)
    <3> QED BY <3>1, <1>1, <1>2, ZenonT(30) DEF Range
  <2> QED BY <2>1, <2>2, <2>3, ZenonT(30)
<1> QED BY <1>1, <1>3, ZenonT(30)

\* Writing a plan leaves the fired decisions of the other pass alone.
LEMMA FiredElsewhere ==
    ASSUME NEW f, NEW g, NEW n, NEW ph, NEW pl, OnlyAt(g, f, n, ph, pl), NEW k \in 1..2, k # n
    PROVE  FiredIn(g, k) = FiredIn(f, k)
<1>1. "pre" \in Phases /\ "post" \in Phases BY ZenonT(30) DEF Phases
<1>2. g[k]["pre"] = f[k]["pre"] /\ g[k]["post"] = f[k]["post"] BY <1>1, ZenonT(30) DEF OnlyAt
<1> QED BY <1>2, ZenonT(30) DEF FiredIn

\* In its own pass what fires then fired before, or is a decision of the new plan.
LEMMA FiredStep ==
    ASSUME NEW f, NEW g, NEW n \in 1..2, NEW ph \in Phases, NEW pl, OnlyAt(g, f, n, ph, pl)
    PROVE  /\ \A d \in FiredIn(g, n) :
                d \in FiredIn(f, n) \/ (d \in Range(pl.decs) /\ d.triggered)
           /\ \A d \in Range(f[n][ph].decs) : d.triggered => d \in FiredIn(f, n)
<1>1. g[n][ph] = pl /\ \A q \in Phases : q # ph => g[n][q] = f[n][q]
  BY ZenonT(30) DEF OnlyAt
<1>2. "pre" \in Phases /\ "post" \in Phases /\ (ph = "pre" \/ ph = "post") BY ZenonT(30) DEF Phases
<1>4. ASSUME NEW d \in FiredIn(g, n) PROVE d \in FiredIn(f, n) \/ (d \in Range(pl.decs) /\ d.triggered)
  <2>1. d.triggered /\ \E q \in Phases : d \in Range(g[n][q].decs)
    BY <1>2, ZenonT(30) DEF FiredIn
  <2>2. PICK q \in Phases : d \in Range(g[n][q].decs) BY <2>1, ZenonT(30)
  <2>3. CASE q = ph BY <2>1, <2>2, <2>3, <1>1, ZenonT(30)
  <2>4. CASE q # ph
    <3>1. d \in Range(f[n][q].decs) BY <2>2, <2>4, <1>1, ZenonT(30)
    <3> QED BY <3>1, <2>1, <1>2, ZenonT(30) DEF FiredIn, Phases
  <2> QED BY <2>3, <2>4, ZenonT(30)
<1>5. \A d \in Range(f[n][ph].decs) : d.triggered => d \in FiredIn(f, n)
  BY <1>2, ZenonT(30) DEF FiredIn
<1> QED BY <1>4, <1>5, ZenonT(30)

\* What holds its groups is alone in them.
LEMMA Holders ==
    ASSUME NEW pols, NEW D, NEW w, Hold(pols, D, w)
    PROVE  Alone(pols, D)
BY ZenonT(30) DEF Hold, Alone

\* A part of what holds its groups holds them.
LEMMA Fewer ==
    ASSUME NEW pols, NEW D, NEW w, Hold(pols, D, w), NEW E, \A d \in E : d \in D
    PROVE  Hold(pols, E, w)
BY ZenonT(30) DEF Hold

\* Policy i finds its group free in w and holds it in v.
Takes(pols, i, w, v) ==
    /\ InGroup(pols[i]) => pols[i].group \notin DOMAIN w
    /\ InGroup(pols[i]) => v = [g \in DOMAIN w \cup {pols[i].group} |->
                                   IF g = pols[i].group THEN pols[i].id ELSE w[g]]
    /\ ~InGroup(pols[i]) => v = w

\* A policy that takes a free group holds it beside the others.
LEMMA OneMore ==
    ASSUME NEW pols, NEW D, NEW w, Hold(pols, D, w), NEW i, NEW n, n.at = i, n.id = pols[i].id,
           NEW v, Takes(pols, i, w, v),
           NEW E, \A d \in E : d \in D \/ d = n
    PROVE  Hold(pols, E, v)
<1> SUFFICES ASSUME NEW d \in E, InGroup(pols[d.at])
             PROVE  pols[d.at].group \in DOMAIN v /\ v[pols[d.at].group] = d.id
  BY ZenonT(30) DEF Hold
<1>1. CASE ~InGroup(pols[i]) BY <1>1, ZenonT(30) DEF Hold, Takes
<1>2. CASE InGroup(pols[i])
  <2>1. /\ DOMAIN v = DOMAIN w \cup {pols[i].group}
        /\ \A g \in DOMAIN v : v[g] = IF g = pols[i].group THEN pols[i].id ELSE w[g]
    BY <1>2, ZenonT(30) DEF Takes
  <2>2. CASE d = n BY <2>1, <2>2, ZenonT(30)
  <2>3. CASE d \in D
    <3>1. pols[d.at].group \in DOMAIN w /\ w[pols[d.at].group] = d.id BY <2>3, ZenonT(30) DEF Hold
    <3>2. pols[d.at].group # pols[i].group BY <3>1, <1>2, ZenonT(30) DEF Takes
    <3> QED BY <2>1, <3>1, <3>2, ZenonT(30)
  <2> QED BY <2>2, <2>3, ZenonT(30)
<1> QED BY <1>1, <1>2, ZenonT(30)

-----------------------------------------------------------------------------
(* The steps of Engine.decide *)

\* A step that writes the plan of the running phase keeps Claims when what then fired in this
\* pass holds its groups.
LEMMA Written ==
    ASSUME Claims, NEW STATE pl, SetPlan(pl), PlanShape(pl), UNCHANGED <<sc, pass, phase>>,
           Hold(sc.policies, FiredIn(plan', pass), winners')
    PROVE  Claims'
<1>1. pass \in 1..2 /\ phase \in Phases /\ Shaped(plan) /\ plan' = Put(plan, pass, phase, pl)
  BY ZenonT(30) DEF Claims, SetPlan, Put
<1>2. OnlyAt(plan', plan, pass, phase, pl) BY <1>1, PlanSet, ZenonT(30)
<1>3. \A k \in 1..2 : k # pass => FiredIn(plan', k) = FiredIn(plan, k)
  BY <1>2, FiredElsewhere, SMTT(30)
<1>4. Shaped(plan')
  <2>1. ASSUME NEW k \in 1..2, NEW q \in Phases PROVE PlanShape(plan'[k][q])
    <3>1. PlanShape(plan[k][q]) BY ZenonT(30) DEF Claims, Shaped
    <3> QED BY <3>1, <1>2, ZenonT(30) DEF OnlyAt
  <2> QED BY <1>2, <2>1, ZenonT(30) DEF Shaped, OnlyAt
<1>5. pass = 1 => FiredIn(plan', 2) = {}
  <2>1. 2 \in 1..2 /\ 2 # 1 BY SMTT(30)
  <2> QED BY <2>1, <1>3, ZenonT(30) DEF Claims
<1>6. ASSUME NEW k \in 1..2 PROVE Alone(sc.policies, FiredIn(plan', k))
  <2>1. CASE k = pass BY <2>1, Holders, ZenonT(30)
  <2>2. CASE k # pass BY <2>2, <1>3, ZenonT(30) DEF Claims
  <2> QED BY <2>1, <2>2, ZenonT(30)
<1> QED BY <1>1, <1>4, <1>5, <1>6, ZenonT(30) DEF Claims

\* Begin, and every candidate that is not selected: nothing more fires.
LEMMA Quiet ==
    ASSUME Claims, stage # "done", NEW STATE pl, SetPlan(pl), PlanShape(pl),
           UNCHANGED <<sc, pass, phase, winners>>,
           \A d \in Range(pl.decs) : d.triggered => d \in Range(plan[pass][phase].decs)
    PROVE  Claims'
<1>1. pass \in 1..2 /\ phase \in Phases /\ Shaped(plan) /\ plan' = Put(plan, pass, phase, pl)
  BY ZenonT(30) DEF Claims, SetPlan, Put
<1>2. \A d \in FiredIn(plan', pass) : d \in FiredIn(plan, pass)
  <2>1. OnlyAt(plan', plan, pass, phase, pl) BY <1>1, PlanSet, ZenonT(30)
  <2> QED BY <1>1, <2>1, FiredStep, ZenonT(30)
<1>3. Hold(sc.policies, FiredIn(plan', pass), winners) BY <1>2, Fewer, ZenonT(30) DEF Claims
<1> QED BY <1>3, Written, ZenonT(30)

\* A decision that did not fire is appended to the plan.
LEMMA Recorded ==
    ASSUME Claims, stage # "done", NEW STATE i, NEW STATE out, NEW STATE why, why # "",
           Record(i, out, why), UNCHANGED <<sc, pass, phase, winners>>
    PROVE  Claims'
<1> DEFINE s == plan[pass][phase].decs
           d == Decision(i, out, why, <<>>)
           pl == [Plan EXCEPT !.decs = Append(@, d)]
<1>1. PlanShape(plan[pass][phase]) BY ZenonT(30) DEF Claims, Shaped
<1>2. ~d.triggered BY ZenonT(30) DEF Decision
<1>3. SetPlan(pl) BY ZenonT(30) DEF Record
<1>4. "decs" \in DOMAIN pl /\ pl.decs = Append(s, d) BY <1>1, ZenonT(30) DEF PlanShape, Plan
<1> HIDE DEF d, s
<1>5. Range(Append(s, d)) = Range(s) \cup {d} /\ Append(s, d) \in Seq(Range(Append(s, d)))
  <2>1. s \in Seq(Range(s)) BY <1>1, ZenonT(30) DEF PlanShape, s
  <2> QED BY <2>1, Appended, ZenonT(30)
<1> HIDE DEF pl
<1>6. PlanShape(pl) BY <1>4, <1>5, ZenonT(30) DEF PlanShape
<1>7. \A x \in Range(pl.decs) : x.triggered => x \in Range(plan[pass][phase].decs)
  BY <1>2, <1>4, <1>5, ZenonT(30) DEF s
<1> QED BY <1>3, <1>6, <1>7, Quiet, ZenonT(30)

\* A candidate that is not blocked finds its group free.
LEMMA Free ==
    ASSUME NEW STATE p, Blocked(p) = ""
    PROVE  InGroup(p) => p.group \notin DOMAIN winners
<1>1. ~Claimed(p) BY ZenonT(30) DEF Blocked
<1> QED BY <1>1, ZenonT(30) DEF Claimed

\* The selected candidate: its decision fires, and it holds its group from then on.
LEMMA Chosen ==
    ASSUME Claims, stage # "done", NEW STATE i, NEW STATE out, NEW STATE acts, NEW STATE pl, SetPlan(pl),
           DOMAIN pl = DOMAIN Plan, pl.decs = Append(Plan.decs, Decision(i, out, "", acts)),
           UNCHANGED <<sc, pass, phase>>, InGroup(P(i)) => P(i).group \notin DOMAIN winners,
           winners' = IF InGroup(P(i)) THEN [g \in DOMAIN winners \cup {P(i).group} |->
                                                IF g = P(i).group THEN P(i).id ELSE winners[g]]
                      ELSE winners
    PROVE  Claims'
<1> DEFINE s == plan[pass][phase].decs
           d == Decision(i, out, "", acts)
<1>1. PlanShape(plan[pass][phase]) /\ Hold(sc.policies, FiredIn(plan, pass), winners)
  BY ZenonT(30) DEF Claims, Shaped
<1>2. d.at = i /\ d.id = sc.policies[i].id BY ZenonT(30) DEF Decision, P
<1> HIDE DEF d
<1>3. "decs" \in DOMAIN pl /\ pl.decs = Append(s, d) BY <1>1, ZenonT(30) DEF PlanShape, Plan, d
<1>4. s \in Seq(Range(s)) BY <1>1, ZenonT(30) DEF PlanShape
<1>5. pass \in 1..2 /\ phase \in Phases /\ Shaped(plan) /\ plan' = Put(plan, pass, phase, pl)
  BY ZenonT(30) DEF Claims, SetPlan, Put
<1> HIDE DEF s
<1>6. Range(Append(s, d)) = Range(s) \cup {d} /\ Append(s, d) \in Seq(Range(Append(s, d)))
  BY <1>4, Appended, ZenonT(30)
<1>7. PlanShape(pl) BY <1>3, <1>6, ZenonT(30) DEF PlanShape
<1>8. \A x \in FiredIn(plan', pass) : x \in FiredIn(plan, pass) \/ x = d
  <2>1. OnlyAt(plan', plan, pass, phase, pl) BY <1>5, PlanSet, ZenonT(30)
  <2>2. /\ \A x \in FiredIn(plan', pass) : x \in FiredIn(plan, pass) \/ (x \in Range(pl.decs) /\ x.triggered)
        /\ \A x \in Range(s) : x.triggered => x \in FiredIn(plan, pass)
    BY <1>5, <2>1, FiredStep, ZenonT(30) DEF s
  <2> QED BY <2>2, <1>3, <1>6, ZenonT(30)
<1>9. Hold(sc.policies, FiredIn(plan', pass), winners')
  <2>1. Takes(sc.policies, i, winners, winners') BY ZenonT(30) DEF P, Takes
  <2> QED BY <1>1, <1>2, <1>8, <2>1, OneMore, ZenonT(30)
<1> QED BY <1>7, <1>9, Written, ZenonT(30)

-----------------------------------------------------------------------------
(* The actions *)

\* The plans, the claims and the pass are left alone.
LEMMA Stays ==
    ASSUME Claims, UNCHANGED <<sc, pass, plan, winners>>, phase' \in Phases, stage # "done" \/ stage' = "done"
    PROVE  Claims'
BY ZenonT(30) DEF Claims

\* decide starts with an empty plan.
LEMMA BeginStep ==
    ASSUME Claims, Begin
    PROVE  Claims'
<1>1. stage = "begin" /\ stage # "done" /\ UNCHANGED <<sc, pass, phase, winners>> BY ZenonT(30) DEF Begin
<1> DEFINE off == [NoPlan EXCEPT !.disabled = TRUE, !.reason = Disabled, !.at = now]
           on == [NoPlan EXCEPT !.at = now]
<1>2. SetPlan(off) \/ SetPlan(on) BY ZenonT(30) DEF Begin
<1>3. off.decs = <<>> /\ on.decs = <<>> /\ "decs" \in DOMAIN off /\ "decs" \in DOMAIN on BY SMTT(30) DEF NoPlan
<1>4. Range(<<>>) = {} /\ <<>> \in Seq({}) BY SMTT(30) DEF Range
<1> HIDE DEF off, on
<1>5. ASSUME NEW STATE pl, SetPlan(pl), pl.decs = <<>>, "decs" \in DOMAIN pl PROVE Claims'
  <2>1. PlanShape(pl) BY <1>4, <1>5, ZenonT(30) DEF PlanShape
  <2>2. \A d \in Range(pl.decs) : d.triggered => d \in Range(plan[pass][phase].decs) BY <1>4, <1>5, ZenonT(30)
  <2> QED BY <1>1, <1>5, <2>1, <2>2, Quiet, ZenonT(30)
<1>6. CASE SetPlan(off) BY <1>3, <1>5, <1>6, ZenonT(30)
<1>7. CASE SetPlan(on) BY <1>3, <1>5, <1>7, ZenonT(30)
<1> QED BY <1>2, <1>6, <1>7, ZenonT(30)

\* A candidate that is passed over, or that draws and misses, does not fire.
LEMMA PassedOver ==
    ASSUME Claims, Skip \/ Miss
    PROVE  Claims'
<1>1. CASE Skip
  <2>1. stage # "done" /\ UNCHANGED <<sc, pass, phase, winners, stage>> BY <1>1, ZenonT(30) DEF Skip
  <2>2. PICK i : Blocked(P(i)) # "" /\ IF Blocked(P(i)) = "phase" THEN UNCHANGED plan ELSE Record(i, "", Blocked(P(i)))
    BY <1>1, ZenonT(30) DEF Skip
  <2>3. CASE UNCHANGED plan BY <2>1, <2>3, Stays, ZenonT(30) DEF Claims
  <2>4. CASE Record(i, "", Blocked(P(i))) BY <2>1, <2>2, <2>4, Recorded, ZenonT(30)
  <2> QED BY <2>2, <2>3, <2>4, ZenonT(30)
<1>2. CASE Miss
  <2>1. stage # "done" /\ UNCHANGED <<sc, pass, phase, winners>> BY <1>2, ZenonT(30) DEF Miss
  <2>2. PICK i, why : why # "" /\ Record(i, "", why) BY <1>2, ZenonT(30) DEF Miss
  <2> QED BY <2>1, <2>2, Recorded, ZenonT(30)
<1> QED BY <1>1, <1>2, ZenonT(30)

\* A selected candidate joins the plan with its group, or conflicts and joins neither.
LEMMA SelectStep ==
    ASSUME Claims, Select
    PROVE  Claims'
<1> DEFINE i == Head(todo)
           p == P(i)
<1>1. stage # "done" /\ UNCHANGED <<sc, pass, phase>> /\ Blocked(p) = "" BY ZenonT(30) DEF Select
<1>2. PICK o, a : Join(i, o, a) BY ZenonT(30) DEF Select
<1> DEFINE hint == IF a.hints = {} THEN "" ELSE CHOOSE t \in a.hints : TRUE
           conflict == Cardinality(a.hints) > 1 \/ (hint # "" /\ Plan.hint \notin {"", hint})
           pl == [Plan EXCEPT
                    !.decs = Append(@, Decision(i, o.id, "", a.acts)),
                    !.acts = @ \o a.acts,
                    !.clamped = @ \cup a.clamped,
                    !.delay = Maximum({@, a.delay}),
                    !.early = IF @ = "" THEN a.early ELSE @,
                    !.skip = @ \/ a.early # "",
                    !.hint = IF hint = "" THEN @ ELSE hint]
<1>3. InGroup(p) => p.group \notin DOMAIN winners BY <1>1, Free, ZenonT(30)
<1>4. CASE conflict
  <2>1. Record(i, o.id, "transport_conflict") /\ UNCHANGED winners BY <1>2, <1>4, ZenonT(30) DEF Join
  <2> QED BY <1>1, <2>1, Recorded, ZenonT(30)
<1>5. CASE ~conflict
  <2>1. "decs" \in DOMAIN Plan BY ZenonT(30) DEF Claims, Shaped, PlanShape, Plan
  <2>2. DOMAIN pl = DOMAIN Plan /\ pl.decs = Append(Plan.decs, Decision(i, o.id, "", a.acts))
    BY <2>1, ZenonT(30)
  <2>3. SetPlan(pl) BY <1>2, <1>5, ZenonT(30) DEF Join
  <2> HIDE DEF pl
  <2>4. winners' = IF InGroup(p) THEN [g \in DOMAIN winners \cup {p.group} |->
                               IF g = p.group THEN p.id ELSE winners[g]]
                      ELSE winners
    BY <1>2, <1>3, <1>5, ZenonT(30) DEF Join
  <2> QED BY <1>1, <1>3, <2>2, <2>3, <2>4, Chosen, ZenonT(30)
<1> QED BY <1>4, <1>5, ZenonT(30)

\* The simulation starts with no claims, having fired nothing.
LEMMA RespondStep ==
    ASSUME Claims, Respond
    PROVE  Claims'
<1>1. UNCHANGED <<sc, plan>> BY ZenonT(30) DEF Respond
<1>2. CASE Live
  <2>1. pass = 1 /\ pass' = 2 /\ phase' = "pre" BY <1>2, ZenonT(30) DEF Respond, Live
  <2>2. FiredIn(plan', pass') = {} BY <1>1, <2>1, ZenonT(30) DEF Claims
  <2>3. Hold(sc.policies, FiredIn(plan', pass'), winners') BY <2>2, ZenonT(30) DEF Hold
  <2>4. pass' \in 1..2 /\ pass' # 1 BY <2>1, SMTT(30)
  <2>5. phase' \in Phases BY <2>1, ZenonT(30) DEF Phases
  <2> QED BY <1>1, <2>3, <2>4, <2>5, ZenonT(30) DEF Claims
<1>3. CASE ~Live
  <2>1. stage' = "done" /\ UNCHANGED <<pass, phase>> BY <1>3, ZenonT(30) DEF Respond
  <2> QED BY <1>1, <2>1, ZenonT(30) DEF Claims
<1> QED BY <1>2, <1>3, ZenonT(30)

\* Every step keeps the invariant: a policy fires only where its group is free, and takes it.
LEMMA NextClaims ==
    ASSUME Claims, [Next]_vars
    PROVE  Claims'
<1>1. CASE Compile \/ EndWalk \/ Tick
  <2>1. UNCHANGED <<sc, pass, plan, winners>> /\ phase' = phase /\ stage # "done"
    BY <1>1, ZenonT(30) DEF Compile, EndWalk, Tick
  <2> QED BY <2>1, Stays, ZenonT(30) DEF Claims
<1>2. CASE Resolve
  <2>1. UNCHANGED <<sc, pass, plan, winners>> /\ phase' = "post" /\ stage # "done"
    BY <1>2, ZenonT(30) DEF Resolve
  <2> QED BY <2>1, Stays, ZenonT(30) DEF Phases
<1>3. CASE Rest \/ UNCHANGED vars BY <1>3, ZenonT(30) DEF Rest, vars, Claims
<1> QED BY <1>1, <1>2, <1>3, BeginStep, PassedOver, SelectStep, RespondStep, ZenonT(30) DEF Next

\* Before anything is compiled nothing has fired.
LEMMA InitClaims ==
    ASSUME Init
    PROVE  Claims
<1>1. NoPlan.decs = <<>> /\ "decs" \in DOMAIN NoPlan BY SMTT(30) DEF NoPlan
<1>2. Range(<<>>) = {} /\ <<>> \in Seq({}) BY SMTT(30) DEF Range
<1>3. PlanShape(NoPlan) BY <1>1, <1>2, ZenonT(30) DEF PlanShape
<1>4. /\ DOMAIN plan = 1..2 /\ \A n \in 1..2 : DOMAIN plan[n] = Phases
      /\ \A n \in 1..2, ph \in Phases : plan[n][ph] = NoPlan
  BY ZenonT(30) DEF Init, Phases
<1>5. Shaped(plan) BY <1>3, <1>4, ZenonT(30) DEF Shaped
<1>6. \A n \in 1..2 : FiredIn(plan, n) = {}
  <2>1. "pre" \in Phases /\ "post" \in Phases BY ZenonT(30) DEF Phases
  <2> QED BY <1>1, <1>2, <1>4, <2>1, ZenonT(30) DEF FiredIn
<1>7. pass \in 1..2 /\ 2 \in 1..2 /\ phase \in Phases BY SMTT(30) DEF Init, Phases
<1>8. Hold(sc.policies, {}, winners) /\ Alone(sc.policies, {}) BY ZenonT(30) DEF Hold, Alone
<1> QED BY <1>5, <1>6, <1>7, <1>8, ZenonT(30) DEF Claims

\* The inductive invariant of the walk: whatever the policies, the draws and the clock, what
\* fired for the query in this pass holds its groups in the ExclusiveSet.
THEOREM GroupsClaimed == Spec => []Claims
<1> QED BY InitClaims, NextClaims, PTL DEF Spec

\* At most one policy of an exclusive group acts on a query, in the two phases of a live query
\* together and in its simulation.
THEOREM OnePerGroup == Spec => []OneRunsPerGroup
<1>1. Claims => OneRunsPerGroup
  <2>1. \A n : Fired(n) = FiredIn(plan, n) BY ZenonT(30) DEF Fired, Decs, FiredIn
  <2> QED BY <2>1, ZenonT(30) DEF OneRunsPerGroup, Alone, P, Claims
<1> QED BY <1>1, GroupsClaimed, PTL

-----------------------------------------------------------------------------
(* Induction and recursion, from the least-number principle: the library's *)
(* theorems about them take operators as parameters.                       *)

\* A set of numbers that is not empty has a least one.
LEMMA Smallest ==
    ASSUME NEW T, T \subseteq Nat, T # {}
    PROVE  \E m \in T : \A n \in T : m <= n
<1> DEFINE R == OpToRel(<, Nat)
<1>1. IsWellFoundedOn(R, Nat) BY NatLessThanWellFounded, ZenonT(30)
<1>2. \A x, y \in Nat : x < y => <<x, y>> \in R BY ZenonT(30) DEF OpToRel
<1> HIDE DEF R
<1>3. PICK m \in T : \A n \in T : <<n, m>> \notin R BY <1>1, WFMin, ZenonT(30)
<1>4. \A n \in T : ~(n < m) BY <1>2, <1>3, ZenonT(30)
<1> QED BY <1>4, <1>3, SMTT(30)

\* Induction up to n, on a set.
LEMMA UpTo ==
    ASSUME NEW n \in Nat, NEW S, 0 \in S, \A k \in 1..n : k - 1 \in S => k \in S
    PROVE  \A k \in 0..n : k \in S
<1> DEFINE T == {k \in 0..n : k \notin S}
<1> SUFFICES ASSUME T # {} PROVE FALSE BY ZenonT(30)
<1>0. T \subseteq Nat BY SMTT(30)
<1>1. PICK m \in T : \A k \in T : m <= k BY <1>0, Smallest, ZenonT(30)
<1>2. m \in 0..n /\ m \notin S /\ m # 0 BY ZenonT(30)
<1>3. m \in 1..n /\ m - 1 \in 0..n /\ ~(m <= m - 1) BY <1>2, SMTT(30)
<1>4. m - 1 \in S BY <1>1, <1>3, ZenonT(30)
<1> QED BY <1>2, <1>3, <1>4, ZenonT(30)

\* s starts with v0 and goes on by the functions of h, up to m.
Follows(s, h, v0, m) == s[0] = v0 /\ \A k \in 1..m : s[k] = h[k][s[k - 1]]

\* A recursion over 0..n has a solution.
LEMMA Recursion ==
    ASSUME NEW n \in Nat, NEW V, NEW v0 \in V, NEW h \in [1..n -> [V -> V]]
    PROVE  \E s \in [0..n -> V] : Follows(s, h, v0, n)
<1> DEFINE S == {m \in 0..n : \E s \in [0..m -> V] : Follows(s, h, v0, m)}
<1>1. 0 \in S
  <2> DEFINE s == [k \in 0..0 |-> v0]
  <2>1. s \in [0..0 -> V] /\ s[0] = v0 BY SMTT(30)
  <2>2. Follows(s, h, v0, 0) BY <2>1, SMTT(30) DEF Follows
  <2> HIDE DEF s
  <2>3. 0 \in 0..n BY SMTT(30)
  <2> QED BY <2>1, <2>2, <2>3, ZenonT(30)
<1>2. ASSUME NEW m \in 1..n, m - 1 \in S PROVE m \in S
  <2>1. PICK s \in [0..(m - 1) -> V] : Follows(s, h, v0, m - 1) BY <1>2, ZenonT(30)
  <2> DEFINE t == [k \in 0..m |-> IF k = m THEN h[m][s[m - 1]] ELSE s[k]]
  <2>2. m \in Nat /\ m - 1 \in 0..(m - 1) /\ m \in 0..n /\ 0 \in 0..(m - 1) BY SMTT(30)
  <2>3. h[m][s[m - 1]] \in V BY <2>1, <2>2, ZenonT(30)
  <2>4. \A k \in 0..m : k # m => k \in 0..(m - 1) BY <2>2, SMTT(30)
  <2>5. t \in [0..m -> V] BY <2>1, <2>3, <2>4, ZenonT(30)
  <2>6. \A k \in 0..(m - 1) : k \in 0..m /\ k # m BY <2>2, SMTT(30)
  <2>7. m \in 0..m BY <2>2, SMTT(30)
  <2>8. t[m] = h[m][s[m - 1]] /\ \A k \in 0..(m - 1) : t[k] = s[k] BY <2>6, <2>7, ZenonT(30)
  <2> HIDE DEF t
  <2>9. Follows(t, h, v0, m)
    <3>1. \A k \in 1..m : k - 1 \in 0..(m - 1) /\ (k = m \/ k \in 1..(m - 1)) BY <2>2, SMTT(30)
    <3>2. \A k \in 1..(m - 1) : k \in 0..(m - 1) BY <2>2, SMTT(30)
    <3>3. t[0] = v0 BY <2>1, <2>2, <2>8, ZenonT(30) DEF Follows
    <3>4. ASSUME NEW k \in 1..m PROVE t[k] = h[k][t[k - 1]]
      <4>1. CASE k = m BY <4>1, <3>1, <2>8, ZenonT(30)
      <4>2. CASE k \in 1..(m - 1) BY <4>2, <3>1, <3>2, <2>1, <2>8, ZenonT(30) DEF Follows
      <4> QED BY <3>1, <4>1, <4>2, ZenonT(30)
    <3> QED BY <3>3, <3>4, ZenonT(30) DEF Follows
  <2> QED BY <2>2, <2>5, <2>9, ZenonT(30)
<1>3. n \in 0..n BY SMTT(30)
<1> HIDE DEF S
<1>4. n \in S BY <1>1, <1>2, <1>3, UpTo, ZenonT(30)
<1> QED BY <1>4, ZenonT(30) DEF S

\* The running totals of a sum.
Totals(s, f, n) == s[0] = 0 /\ \A k \in 1..n : s[k] = s[k - 1] + f[k]

\* A sum is the last of its running totals.
LEMMA Summed ==
    ASSUME NEW n \in Nat, NEW f, \A k \in 1..n : f[k] \in Int
    PROVE  \E s \in [0..n -> Int] : Totals(s, f, n) /\ SumTo(f, n) = s[n]
<1> DEFINE h == [k \in 1..n |-> [v \in Int |-> v + f[k]]]
           R(s) == s = [k \in 0..n |-> IF k = 0 THEN 0 ELSE s[k - 1] + f[k]]
<1>1. h \in [1..n -> [Int -> Int]]
  <2>1. \A k \in 1..n : [v \in Int |-> v + f[k]] \in [Int -> Int] BY SMTT(30)
  <2> QED BY <2>1, ZenonT(30)
<1>2. \A k \in 1..n, v \in Int : h[k][v] = v + f[k] BY ZenonT(30)
<1> HIDE DEF h
<1>3. PICK s \in [0..n -> Int] : Follows(s, h, 0, n) 
  <2>1. 0 \in Int BY SMTT(30)
  <2> QED BY <1>1, <2>1, Recursion, ZenonT(30)
<1>4. \A k \in 1..n : k - 1 \in 0..n /\ k # 0 /\ k \in 0..n BY SMTT(30)
<1>5. \A k \in 0..n : k # 0 => k \in 1..n BY SMTT(30)
<1>6. Totals(s, f, n) BY <1>2, <1>3, <1>4, ZenonT(30) DEF Follows, Totals
<1>7. R(s)
  <2>1. \A k \in 0..n : s[k] = IF k = 0 THEN 0 ELSE s[k - 1] + f[k] BY <1>5, <1>6, ZenonT(30) DEF Totals
  <2> QED BY <2>1, ZenonT(30)
<1> DEFINE c == CHOOSE x : R(x)
<1>8. R(c) BY <1>7, ZenonT(30)
<1>9. SumTo(f, n) = c[n] BY ZenonT(30) DEF SumTo
<1>10. DOMAIN c = 0..n /\ c[0] = 0 /\ \A k \in 1..n : c[k] = c[k - 1] + f[k]
  <2>0. 0 \in 0..n BY SMTT(30)
  <2> QED BY <1>8, <2>0, <1>4, ZenonT(30)
<1>11. c = [k \in 0..n |-> c[k]] BY <1>8, ZenonT(30)
<1> HIDE DEF c
<1>12. \A k \in 0..n : c[k] \in Int
  <2> DEFINE S == {k \in 0..n : c[k] \in Int}
  <2>1. 0 \in S BY <1>10, SMTT(30)
  <2>2. ASSUME NEW k \in 1..n, k - 1 \in S PROVE k \in S
    <3>1. c[k - 1] + f[k] \in Int BY <2>2, SMTT(30)
    <3> QED BY <3>1, <1>4, <1>10, ZenonT(30)
  <2> HIDE DEF S
  <2>3. \A k \in 0..n : k \in S BY <2>1, <2>2, UpTo, ZenonT(30)
  <2> QED BY <2>3, ZenonT(30) DEF S
<1>13. c \in [0..n -> Int] BY <1>11, <1>12, ZenonT(30)
<1> QED BY <1>9, <1>10, <1>13, ZenonT(30) DEF Totals

-----------------------------------------------------------------------------
(* Sums and the division of the cap *)

\* Sums of larger terms are larger.
LEMMA SumsCompare ==
    ASSUME NEW n \in Nat, NEW f, NEW g, NEW c \in Nat, \A k \in 1..n : f[k] \in Int /\ g[k] \in Int /\ f[k] <= c * g[k]
    PROVE  SumTo(f, n) <= c * SumTo(g, n) /\ SumTo(f, n) \in Int /\ SumTo(g, n) \in Int
<1>1. PICK s \in [0..n -> Int] : Totals(s, f, n) /\ SumTo(f, n) = s[n] BY Summed, ZenonT(30)
<1>2. PICK t \in [0..n -> Int] : Totals(t, g, n) /\ SumTo(g, n) = t[n] BY Summed, ZenonT(30)
<1> DEFINE S == {k \in 0..n : s[k] <= c * t[k]}
<1>3. 0 \in S
  <2>1. s[0] = 0 /\ t[0] = 0 BY <1>1, <1>2, ZenonT(30) DEF Totals
  <2> QED BY <2>1, SMTT(30)
<1>4. ASSUME NEW k \in 1..n, k - 1 \in S PROVE k \in S
  <2>1. s[k] = s[k - 1] + f[k] /\ t[k] = t[k - 1] + g[k] BY <1>1, <1>2, ZenonT(30) DEF Totals
  <2>2. k - 1 \in 0..n /\ k \in 0..n BY SMTT(30)
  <2>3. s[k - 1] \in Int /\ t[k - 1] \in Int /\ s[k - 1] <= c * t[k - 1] BY <1>4, <2>2, ZenonT(30)
  <2>4. \A a, b, x, y \in Int : a <= c * b /\ x <= c * y => a + x <= c * (b + y) BY SMTT(30)
  <2>5. s[k] <= c * t[k] BY <2>1, <2>3, <2>4, ZenonT(30)
  <2> QED BY <2>2, <2>5, ZenonT(30)
<1> HIDE DEF S
<1>5. n \in 0..n BY SMTT(30)
<1>6. n \in S BY <1>3, <1>4, <1>5, UpTo, ZenonT(30)
<1> QED BY <1>1, <1>2, <1>5, <1>6, ZenonT(30) DEF S

\* What allocateDropProbabilities is given: probabilities that are not negative, and phases.
Input(asked, shares) ==
    /\ Len(asked) \in Nat /\ DOMAIN asked = 1..Len(asked)
    /\ \A k \in 1..Len(asked) : asked[k] \in Nat /\ shares[k] \in Nat

\* A policy gets no more than it asked for, and what it gets, in all its phases, is left.
LEMMA GrantFits ==
    ASSUME NEW a \in Nat, NEW h \in Nat \ {0}, NEW cap \in Nat, NEW total \in Nat \ {0}, cap <= total, NEW left \in Nat,
           NEW g, g = Least((a * cap) \div total, left \div h)
    PROVE  g \in Nat /\ g <= a /\ g * h <= left
<1> DEFINE x == (a * cap) \div total
           y == left \div h
<1>1. a * cap \in Nat /\ a * cap <= a * total /\ a * total \in Nat
  BY SMTT(30)
<1>2. \A m \in Nat, d \in Nat \ {0} : m \div d \in Nat /\ (m \div d) * d <= m BY SMTT(30)
<1>3. x \in Nat /\ x * total <= a * cap BY <1>1, <1>2, ZenonT(30)
<1>4. y \in Nat /\ y * h <= left BY <1>2, ZenonT(30)
<1> HIDE DEF x, y
<1>5. x * total <= a * total BY <1>1, <1>3, SMTT(30)
<1>6. x <= a BY <1>3, <1>5, SMTT(30)
<1>7. Least(x, y) \in Nat /\ Least(x, y) <= x /\ Least(x, y) <= y BY <1>3, <1>4, SMTT(30) DEF Least
<1>8. \A m \in Nat : m <= y => m * h <= y * h BY <1>4, SMTT(30)
<1>9. Least(x, y) * h <= left /\ Least(x, y) <= a
  <2>1. Least(x, y) * h <= y * h BY <1>7, <1>8, ZenonT(30)
  <2> QED BY <2>1, <1>3, <1>4, <1>6, <1>7, SMTT(30)
<1> QED BY <1>7, <1>9, ZenonT(30) DEF x, y

\* One policy: what it gets and what then remains.
LEMMA GrantStep ==
    ASSUME NEW asked, NEW shares, Input(asked, shares), NEW cap \in Nat, NEW total \in Nat \ {0}, cap <= total,
           NEW k \in 1..Len(asked), NEW left \in Nat
    PROVE  LET g == Granted(asked, shares, cap, total, k, left)
           IN  g \in Nat /\ g <= asked[k] /\ left - g * shares[k] \in Nat
<1> DEFINE g == Granted(asked, shares, cap, total, k, left)
<1>1. asked[k] \in Nat /\ shares[k] \in Nat BY ZenonT(30) DEF Input
<1>2. CASE shares[k] = 0
  <2>1. g = asked[k] BY <1>2, ZenonT(30) DEF Granted
  <2> HIDE DEF g
  <2>2. asked[k] <= asked[k] /\ left - asked[k] * shares[k] \in Nat BY <1>1, <1>2, SMTT(30)
  <2>3. g \in Nat /\ g <= asked[k] /\ left - g * shares[k] \in Nat BY <1>1, <2>1, <2>2, ZenonT(30)
  <2> QED BY <2>3, ZenonT(30) DEF g
<1>3. CASE shares[k] # 0
  <2>1. g = Least((asked[k] * cap) \div total, left \div shares[k]) BY <1>3, ZenonT(30) DEF Granted
  <2>2. shares[k] \in Nat \ {0} BY <1>1, <1>3, ZenonT(30)
  <2> HIDE DEF g
  <2>3. g \in Nat /\ g <= asked[k] /\ g * shares[k] <= left BY <1>1, <2>1, <2>2, GrantFits, ZenonT(30)
  <2>4. left - g * shares[k] \in Nat BY <1>1, <2>3, SMTT(30)
  <2> QED BY <2>3, <2>4, ZenonT(30) DEF g
<1> QED BY <1>2, <1>3, ZenonT(30)

\* The remainders, policy by policy.
Remainders(r, asked, shares, cap, total) ==
    /\ r \in [0..Len(asked) -> Nat] /\ r[0] = cap
    /\ \A k \in 1..Len(asked) :
          r[k] = r[k - 1] - Granted(asked, shares, cap, total, k, r[k - 1]) * shares[k]

\* What remains follows its recursion, and never falls below zero.
LEMMA RemainsNatural ==
    ASSUME NEW asked, NEW shares, Input(asked, shares), NEW cap \in Nat, NEW total \in Nat \ {0}, cap <= total
    PROVE  Remainders(Remaining(asked, shares, cap, total), asked, shares, cap, total)
<1> DEFINE n == Len(asked)
           G(k, v) == Granted(asked, shares, cap, total, k, v)
           h == [k \in 1..n |-> [v \in Nat |-> v - G(k, v) * shares[k]]]
           R(s) == s = [k \in 0..n |-> IF k = 0 THEN cap ELSE s[k - 1] - G(k, s[k - 1]) * shares[k]]
           c == CHOOSE x : R(x)
<1>0. n \in Nat BY ZenonT(30) DEF Input
<1>1. \A k \in 1..n, v \in Nat : v - G(k, v) * shares[k] \in Nat BY GrantStep, ZenonT(30)
<1>2. Remaining(asked, shares, cap, total) = c BY ZenonT(30) DEF Remaining
<1> HIDE DEF G
<1>3. h \in [1..n -> [Nat -> Nat]]
  <2>1. \A k \in 1..n : [v \in Nat |-> v - G(k, v) * shares[k]] \in [Nat -> Nat] BY <1>1, ZenonT(30)
  <2> QED BY <2>1, ZenonT(30)
<1>4. \A k \in 1..n, v \in Nat : h[k][v] = v - G(k, v) * shares[k] BY ZenonT(30)
<1> HIDE DEF h, n
<1>5. PICK s \in [0..n -> Nat] : Follows(s, h, cap, n) BY <1>0, <1>3, Recursion, ZenonT(30)
<1>6. \A k \in 1..n : k - 1 \in 0..n /\ k # 0 /\ k \in 0..n BY <1>0, SMTT(30)
<1>7. 0 \in 0..n /\ \A k \in 0..n : k # 0 => k \in 1..n BY <1>0, SMTT(30)
<1>8. R(s)
  <2>1. \A k \in 0..n : s[k] = IF k = 0 THEN cap ELSE s[k - 1] - G(k, s[k - 1]) * shares[k]
    BY <1>4, <1>5, <1>6, <1>7, ZenonT(30) DEF Follows
  <2> QED BY <2>1, ZenonT(30)
<1>9. R(c) BY <1>8, ZenonT(30)
<1>10. c[0] = cap /\ \A k \in 1..n : c[k] = c[k - 1] - G(k, c[k - 1]) * shares[k] BY <1>9, <1>6, <1>7, ZenonT(30)
<1>11. c = [k \in 0..n |-> c[k]] BY <1>9, ZenonT(30)
<1> HIDE DEF c
<1>12. \A k \in 0..n : c[k] \in Nat
  <2> DEFINE S == {k \in 0..n : c[k] \in Nat}
  <2>1. 0 \in S BY <1>10, <1>7, ZenonT(30)
  <2>2. ASSUME NEW k \in 1..n, k - 1 \in S PROVE k \in S BY <2>2, <1>1, <1>6, <1>10, ZenonT(30)
  <2> HIDE DEF S
  <2>3. \A k \in 0..n : k \in S BY <1>0, <2>1, <2>2, UpTo, ZenonT(30)
  <2> QED BY <2>3, ZenonT(30) DEF S
<1>13. c \in [0..n -> Nat] BY <1>11, <1>12, ZenonT(30)
<1>14. Remainders(c, asked, shares, cap, total) BY <1>10, <1>13, ZenonT(30) DEF Remainders, n, G
<1> QED BY <1>2, <1>14, ZenonT(30)

\* What an allocation takes of the cap, policy by policy, one share per phase.
Taken(prob, shares) == [i \in DOMAIN prob |-> prob[i] * shares[i]]

\* Scaled down, the policies together take no more than the cap and none more than it asked.
LEMMA ScaledFits ==
    ASSUME NEW asked, NEW shares, Input(asked, shares), NEW cap \in Nat, NEW total \in Nat \ {0}, cap <= total,
           NEW prob, prob = Scaled(asked, shares, cap, total)
    PROVE  /\ DOMAIN prob = 1..Len(asked) /\ \A k \in 1..Len(asked) : prob[k] \in Nat /\ prob[k] <= asked[k]
           /\ SumTo(Taken(prob, shares), Len(asked)) <= cap
<1> DEFINE n == Len(asked)
           r == Remaining(asked, shares, cap, total)
           G(k, v) == Granted(asked, shares, cap, total, k, v)
           f == Taken(prob, shares)
<1>0. n \in Nat /\ DOMAIN asked = 1..n BY ZenonT(30) DEF Input
<1>1. \A k \in 1..n, v \in Nat : G(k, v) \in Nat /\ G(k, v) <= asked[k] BY GrantStep, ZenonT(30)
<1>b. Remainders(r, asked, shares, cap, total) BY RemainsNatural, ZenonT(30)
<1>3. prob = [k \in 1..n |-> G(k, r[k - 1])] BY <1>0, ZenonT(30) DEF Scaled
<1> HIDE DEF r
<1>2. /\ r \in [0..n -> Nat] /\ r[0] = cap
      /\ \A k \in 1..n : r[k] = r[k - 1] - G(k, r[k - 1]) * shares[k]
  BY <1>b, ZenonT(30) DEF Remainders
<1> HIDE DEF G, n
<1>4. \A k \in 1..n : k - 1 \in 0..n /\ k \in 0..n BY <1>0, SMTT(30)
<1>5. DOMAIN prob = 1..n /\ \A k \in 1..n : prob[k] = G(k, r[k - 1]) BY <1>3, ZenonT(30)
<1>6. \A k \in 1..n : prob[k] \in Nat /\ prob[k] <= asked[k] BY <1>1, <1>2, <1>4, <1>5, ZenonT(30)
<1>7. \A k \in 1..n : f[k] = prob[k] * shares[k] BY <1>5, ZenonT(30) DEF Taken
<1> HIDE DEF f
<1>8. \A k \in 1..n : shares[k] \in Nat BY ZenonT(30) DEF Input, n
<1>9. \A k \in 1..n : f[k] \in Int
  <2>1. \A a, b \in Nat : a * b \in Int BY SMTT(30)
  <2> QED BY <1>6, <1>7, <1>8, <2>1, ZenonT(30)
<1>10. PICK s \in [0..n -> Int] : Totals(s, f, n) /\ SumTo(f, n) = s[n] BY <1>0, <1>9, Summed, ZenonT(30)
<1> DEFINE S == {k \in 0..n : s[k] = cap - r[k]}
<1>11. 0 \in S
  <2>1. s[0] = 0 /\ r[0] = cap /\ 0 \in 0..n BY <1>0, <1>2, <1>10, SMTT(30) DEF Totals
  <2>2. 0 = cap - cap BY SMTT(30)
  <2> QED BY <2>1, <2>2, ZenonT(30)
<1>12. ASSUME NEW k \in 1..n, k - 1 \in S PROVE k \in S
  <2>1. s[k] = s[k - 1] + f[k] /\ r[k] = r[k - 1] - f[k] BY <1>2, <1>5, <1>7, <1>10, ZenonT(30) DEF Totals
  <2>2. s[k - 1] = cap - r[k - 1] /\ r[k - 1] \in Nat /\ r[k] \in Nat BY <1>2, <1>4, <1>12, ZenonT(30)
  <2>3. f[k] \in Int BY <1>9, ZenonT(30)
  <2> HIDE DEF f
  <2>4. s[k] = cap - r[k] BY <2>1, <2>2, <2>3, SMTT(30)
  <2> QED BY <1>4, <2>4, ZenonT(30)
<1>13. n \in 0..n BY <1>0, SMTT(30)
<1> HIDE DEF S
<1>14. n \in S BY <1>0, <1>11, <1>12, <1>13, UpTo, ZenonT(30)
<1>15. SumTo(f, n) = cap - r[n] /\ r[n] \in Nat BY <1>2, <1>10, <1>13, <1>14, ZenonT(30) DEF S
<1>16. SumTo(f, n) <= cap BY <1>15, SMTT(30)
<1> QED BY <1>5, <1>6, <1>16, ZenonT(30) DEF n, f

\* allocateDropProbabilities: no policy gets more than it asked, and together they stay within
\* the cap, whatever the number of policies, their probabilities and the rounding.
LEMMA AllocationFits ==
    ASSUME NEW asked, NEW shares, Input(asked, shares), DOMAIN shares = DOMAIN asked, NEW cap \in Int,
           NEW prob, prob = Allocate(asked, shares, cap)
    PROVE  /\ DOMAIN prob = DOMAIN asked /\ \A k \in DOMAIN asked : prob[k] <= asked[k]
           /\ cap \in 1..Unit - 1 => SumTo(Taken(prob, shares), Len(asked)) <= cap
<1>u. Unit \in Nat BY UnitAssumption, SMTT(30)
<1> DEFINE n == Len(asked)
           f == Taken(asked, shares)
           g == [i \in DOMAIN asked |-> IF asked[i] > 0 THEN shares[i] ELSE 0]
           one == [i \in DOMAIN asked |-> IF shares[i] # 0 THEN Least(asked[i], cap) ELSE asked[i]]
           total == SumTo(f, n)
<1>0. n \in Nat /\ DOMAIN asked = 1..n /\ \A k \in 1..n : asked[k] \in Nat /\ shares[k] \in Nat BY ZenonT(30) DEF Input
<1>a. f = [i \in DOMAIN asked |-> asked[i] * shares[i]] BY ZenonT(30) DEF Taken
<1>1. \/ (cap <= 0 \/ cap >= Unit \/ total <= cap) /\ prob = asked
      \/ ~(cap <= 0 \/ cap >= Unit \/ total <= cap) /\ SumTo(g, n) = 1 /\ prob = one
      \/ ~(cap <= 0 \/ cap >= Unit \/ total <= cap) /\ prob = Scaled(asked, shares, cap, total)
  BY <1>a, ZenonT(30) DEF Allocate
<1>2. \A k \in 1..n : f[k] = asked[k] * shares[k] /\ f[k] \in Nat
  <2>1. \A a, b \in Nat : a * b \in Nat BY SMTT(30)
  <2>2. \A k \in 1..n : f[k] = asked[k] * shares[k] BY <1>0, ZenonT(30) DEF Taken
  <2> QED BY <2>1, <2>2, <1>0, ZenonT(30)
<1>3. \A k \in 1..n : g[k] = IF asked[k] > 0 THEN shares[k] ELSE 0 BY <1>0, ZenonT(30)
<1>4. total \in Int
  <2> HIDE DEF f
  <2>1. \A k \in 1..n : f[k] \in Int BY <1>2, SMTT(30)
  <2>2. PICK s \in [0..n -> Int] : SumTo(f, n) = s[n] BY <1>0, <2>1, Summed, ZenonT(30)
  <2>3. n \in 0..n BY <1>0, SMTT(30)
  <2> QED BY <2>2, <2>3, ZenonT(30)
<1> HIDE DEF total, n
<1>5. CASE (cap <= 0 \/ cap >= Unit \/ total <= cap) /\ prob = asked
  <2>1. \A k \in DOMAIN asked : prob[k] <= asked[k] BY <1>0, <1>5, SMTT(30)
  <2>2. cap \in 1..Unit - 1 => total <= cap BY <1>5, <1>u, SMTT(30)
  <2> QED BY <1>5, <2>1, <2>2, ZenonT(30) DEF total, n
<1>6. CASE ~(cap <= 0 \/ cap >= Unit \/ total <= cap) /\ SumTo(g, n) = 1 /\ prob = one
  <2>1. \A k \in 1..n : prob[k] = IF shares[k] # 0 THEN Least(asked[k], cap) ELSE asked[k] BY <1>0, <1>6, ZenonT(30)
  <2>2. DOMAIN prob = DOMAIN asked BY <1>6, ZenonT(30)
  <2>3. cap \in Nat BY <1>6, <1>u, SMTT(30)
  <2> HIDE DEF one, g, f
  <2>4. ASSUME NEW k \in 1..n PROVE prob[k] \in Nat /\ prob[k] <= asked[k] BY <1>0, <2>1, <2>3, SMTT(30) DEF Least
  <2>5. ASSUME NEW k \in 1..n PROVE prob[k] * shares[k] \in Int /\ g[k] \in Int /\ prob[k] * shares[k] <= cap * g[k]
    <3>1. asked[k] \in Nat /\ shares[k] \in Nat /\ prob[k] \in Nat BY <1>0, <2>4, ZenonT(30)
    <3>2. CASE shares[k] = 0 
      <4>1. g[k] = 0 BY <1>3, <3>2, ZenonT(30)
      <4> QED BY <3>1, <3>2, <4>1, <2>3, SMTT(30)
    <3>3. CASE shares[k] # 0 /\ asked[k] > 0
      <4>1. g[k] = shares[k] /\ prob[k] <= cap BY <1>3, <2>1, <2>3, <3>1, <3>3, SMTT(30) DEF Least
      <4>2. \A a, b, c \in Nat : a <= b => a * c <= b * c /\ a * c \in Int BY SMTT(30)
      <4>3. g[k] \in Int BY <4>1, <3>1, SMTT(30)
      <4> QED BY <3>1, <4>1, <4>2, <4>3, <2>3, ZenonT(30)
    <3>4. CASE ~(asked[k] > 0)
      <4>1. g[k] = 0 /\ prob[k] = 0 BY <1>3, <2>1, <2>3, <3>1, <3>4, SMTT(30) DEF Least
      <4> QED BY <3>1, <4>1, <2>3, SMTT(30)
    <3> QED BY <3>2, <3>3, <3>4, ZenonT(30)
  <2> DEFINE p == Taken(prob, shares)
  <2>6. \A k \in 1..n : p[k] = prob[k] * shares[k] BY <1>0, <2>2, ZenonT(30) DEF Taken
  <2> HIDE DEF p
  <2>7. \A k \in 1..n : p[k] \in Int /\ g[k] \in Int /\ p[k] <= cap * g[k] BY <2>5, <2>6, ZenonT(30)
  <2>8. SumTo(p, n) <= cap * SumTo(g, n) BY <1>0, <2>3, <2>7, SumsCompare, ZenonT(30)
  <2>9. cap * 1 = cap BY <2>3, SMTT(30)
  <2>10. SumTo(p, n) <= cap BY <1>6, <2>8, <2>9, ZenonT(30)
  <2> QED BY <1>0, <2>2, <2>4, <2>10, ZenonT(30) DEF n, p
<1>7. CASE ~(cap <= 0 \/ cap >= Unit \/ total <= cap) /\ prob = Scaled(asked, shares, cap, total)
  <2>1. cap \in Nat /\ total \in Nat \ {0} /\ cap <= total BY <1>4, <1>7, SMTT(30)
  <2> QED BY <1>0, <1>7, <2>1, ScaledFits, ZenonT(30) DEF n
<1> QED BY <1>1, <1>5, <1>6, <1>7, ZenonT(30)

-----------------------------------------------------------------------------
(* The drop cap *)

\* The snapshot's index holds the division of its cap.
Divided ==
    /\ sc \in Scenarios
    /\ stage \notin {"compile", "rejected"} => index.prob = Allocated

\* Only chaos.Compile writes the index, and a rejected snapshot serves nothing.
LEMMA NextDivided ==
    ASSUME Divided, [Next]_vars
    PROVE  Divided'
<1>1. CASE Compile
  <2>a. sc' = sc /\ (stage' = "rejected" \/ \E x : index' = [prec |-> x, prob |-> Allocated])
    BY <1>1, ZenonT(30) DEF Compile
  <2>b. \A x, y : [prec |-> x, prob |-> y].prob = y BY ZenonT(30)
  <2>1. sc' = sc /\ (stage' = "rejected" \/ index'.prob = Allocated) BY <2>a, <2>b, ZenonT(30)
  <2>2. Allocated' = Allocated BY <2>1, ZenonT(30) DEF Allocated, Ps, P, Shares
  <2> QED BY <2>1, <2>2, ZenonT(30) DEF Divided
<1>2. CASE Next /\ ~Compile
  <2>1. /\ sc' = sc /\ index' = index
        /\ stage \notin {"compile", "rejected"} \/ stage' = stage
    BY <1>2, ZenonT(30) DEF Next, Begin, Skip, Miss, Select, EndWalk, Resolve, Respond, Tick, Rest, vars
  <2>2. Allocated' = Allocated BY <2>1, ZenonT(30) DEF Allocated, Ps, P, Shares
  <2> QED BY <2>1, <2>2, ZenonT(30) DEF Divided
<1>3. CASE UNCHANGED vars
  <2>1. sc' = sc /\ index' = index /\ stage' = stage BY <1>3, ZenonT(30) DEF vars
  <2>2. Allocated' = Allocated BY <2>1, ZenonT(30) DEF Allocated, Ps, P, Shares
  <2> QED BY <2>1, <2>2, ZenonT(30) DEF Divided
<1> QED BY <1>1, <1>2, <1>3, ZenonT(30)

\* A policy may drop in no more phases than there are.
LEMMA SharesCounted ==
    ASSUME NEW i
    PROVE  Shares(i) \in Nat
<1> DEFINE S == {ph \in {"pre", "post"} :
        \E o \in Range(P(i).outs) : o.weight > 0 /\ \E a \in Range(o.acts) : Drops(a) /\ InPhase(a, ph)}
<1>1. IsFiniteSet({"pre", "post"})
  <2>1. IsFiniteSet({"pre"}) BY FS_Singleton, ZenonT(30)
  <2>2. {"pre", "post"} = {"pre"} \cup {"post"} BY ZenonT(30)
  <2> QED BY <2>1, <2>2, FS_AddElement, ZenonT(30)
<1>2. IsFiniteSet(S) BY <1>1, FS_Subset, ZenonT(30)
<1>3. Shares(i) = Cardinality(S) BY ZenonT(30) DEF Shares, DropPhaseCount
<1> QED BY <1>2, <1>3, FS_CardinalityType, ZenonT(30)

\* In every compiled snapshot the policies together may drop no more than the cap allows, and
\* none drops more often than it asks.
LEMMA DividedFits == Divided => DropsWithinCap
<1> SUFFICES ASSUME Divided, stage \notin {"compile", "rejected"}
             PROVE  /\ sc.dropCap \in 1..Unit - 1 =>
                         SumTo([i \in Ps |-> index.prob[i] * Shares(i)], Len(sc.policies)) <= sc.dropCap
                    /\ \A i \in Ps : index.prob[i] <= P(i).prob
  BY ZenonT(30) DEF DropsWithinCap
<1> DEFINE asked == [i \in Ps |-> P(i).prob]
           shares == [i \in Ps |-> Shares(i)]
           prob == index.prob
           cap == sc.dropCap
<1>1. /\ sc.policies \in Seq(Range(sc.policies)) /\ cap \in Int
      /\ \A i \in Ps : P(i).prob \in 0..Unit
  BY ScenarioAssumption, ZenonT(30) DEF Divided, Ps, P
<1>2. Len(sc.policies) \in Nat /\ Ps = 1..Len(sc.policies) BY <1>1, SMTT(30) DEF Ps
<1>3. prob = Allocate(asked, shares, cap) BY ZenonT(30) DEF Divided, Allocated
<1>4. DOMAIN asked = Ps /\ DOMAIN shares = Ps BY ZenonT(30)
<1>5. \A i \in Ps : asked[i] = P(i).prob /\ shares[i] = Shares(i) BY ZenonT(30)
<1> HIDE DEF asked, shares, prob, cap
<1>6. Len(asked) = Len(sc.policies)
  <2>1. asked = [i \in 1..Len(sc.policies) |-> P(i).prob] BY <1>2, ZenonT(30) DEF asked
  <2> QED BY <1>2, <2>1, SMTT(30)
<1>7. \A i \in Ps : asked[i] \in Nat /\ shares[i] \in Nat
  <2>1. \A x \in 0..Unit : x \in Nat BY UnitAssumption, SMTT(30)
  <2> QED BY <1>1, <1>5, <2>1, SharesCounted, ZenonT(30)
<1>8. Input(asked, shares) BY <1>2, <1>4, <1>6, <1>7, ZenonT(30) DEF Input
<1>9. /\ DOMAIN prob = Ps /\ \A i \in Ps : prob[i] <= asked[i]
      /\ cap \in 1..Unit - 1 => SumTo(Taken(prob, shares), Len(asked)) <= cap
  <2>1. DOMAIN shares = DOMAIN asked /\ cap \in Int BY <1>1, <1>4, ZenonT(30)
  <2>2. /\ DOMAIN prob = DOMAIN asked /\ \A i \in DOMAIN asked : prob[i] <= asked[i]
        /\ cap \in 1..Unit - 1 => SumTo(Taken(prob, shares), Len(asked)) <= cap
    BY <1>3, <1>8, <2>1, AllocationFits, ZenonT(60)
  <2> QED BY <1>4, <2>2, ZenonT(30)
<1>10. Taken(prob, shares) = [i \in Ps |-> prob[i] * Shares(i)]
  BY <1>5, <1>9, ZenonT(30) DEF Taken
<1> QED BY <1>5, <1>6, <1>9, <1>10, ZenonT(30) DEF prob, cap

\* The policies of a snapshot, one share per phase in which each may drop, stay within
\* safety.maxDropProbability, for any number of policies and whatever is rounded away.
THEOREM DropsCapped == Spec => []DropsWithinCap
<1>1. Init => Divided BY ZenonT(30) DEF Init, Divided
<1> QED BY <1>1, NextDivided, DividedFits, PTL DEF Spec

=============================================================================
