-------------------------- MODULE QueryChaosProofs --------------------------
(***************************************************************************)
(* The proofs about QueryChaos.                                            *)
(***************************************************************************)
EXTENDS QueryChaos, FiniteSetTheorems, TLAPS

-----------------------------------------------------------------------------
(* One query: its locals k become v.                                       *)

\* A step of ServeDNS between registration and the deferred releases.
LEMMA Moved ==
  ASSUME NEW STATE k, NEW STATE v, NEW STATE t, NEW STATE s, NEW STATE w, NEW STATE m, NEW STATE b,
         Kept(k, t, s, w, m, b),
         DOMAIN v = Fields, v.snap = k.snap, v.held = k.held, v.phase \in Phases,
         v.pre \in PrePlans \cup {NoPre}, v.post \in PostPlans \cup {NoPost}, v.todo \in Seq(Actions),
         v.pc \notin {"load", "decide", "done", "free"}, v.pc = "watch" => k.pc = "decide",
         Unlimited(v) => Unlimited(k),
         m => Plain(v)
  PROVE  Kept(v, t, s, w, m, b)
BY Zenon DEF Kept

\* The context of a query ends.
LEMMA SameButContext ==
  ASSUME NEW STATE k, NEW STATE v, NEW STATE t, NEW STATE s, NEW STATE w, NEW STATE m, NEW STATE b,
         Kept(k, t, s, w, m, b), DOMAIN v = Fields, \A f \in Fields \ {"ctx"} : v[f] = k[f]
  PROVE  Kept(v, t, s, w, m, b)
<1>1. /\ v.pc = k.pc /\ v.snap = k.snap /\ v.pre = k.pre /\ v.post = k.post /\ v.phase = k.phase
      /\ v.todo = k.todo /\ v.held = k.held /\ v.res = k.res /\ v.base = k.base /\ v.sent = k.sent
  BY Zenon DEF Fields
<1>2. (Unlimited(v) <=> Unlimited(k)) /\ (Plain(v) <=> Plain(k))
  BY Zenon, <1>1 DEF Unlimited, Plain
<1> QED BY Zenon, <1>1, <1>2 DEF Kept

-----------------------------------------------------------------------------
(* All queries, where one of them steps.                                   *)

\* The step changes no query but q.
Alone(q) ==
    /\ DOMAIN st' = Queries /\ DOMAIN tok' = Queries /\ DOMAIN ses' = Queries /\ DOMAIN calm' = Queries
    /\ \A r \in Queries \ {q} :
          /\ st'[r] = st[r] /\ tok'[r] = tok[r] /\ ses'[r] = ses[r] /\ calm'[r] = calm[r]
          /\ r \in watches' <=> r \in watches

\* What holds of every query, one by one.
Queued ==
    /\ cur.caps \in Caps /\ watches \subseteq Queries
    /\ DOMAIN st = Queries /\ DOMAIN tok = Queries /\ DOMAIN ses = Queries /\ DOMAIN calm = Queries
    /\ DOMAIN firing = Admins /\ \A a \in Admins : firing[a] \subseteq Queries
    /\ \A q \in Queries : Kept(st[q], tok[q], ses[q], q \in watches, calm[q], off)

\* What the counters count.
Delaying == global = Cardinality({q \in Queries : tok[q] # {}})
PolicyDelaying ==
    /\ DOMAIN perPolicy = Policies
    /\ \A p \in Policies : perPolicy[p] = Cardinality({q \in Queries : p \in tok[q]})
Pressing ==
    /\ DOMAIN inflight = Policies
    /\ \A p \in Policies : inflight[p] = Cardinality({q \in Queries : st[q].held = p})

\* The invariant by its parts.
LEMMA Parts == Accounted => Queued /\ Delaying /\ PolicyDelaying /\ Pressing
BY Zenon DEF Accounted, Queued, Delaying, PolicyDelaying, Pressing, CountersExact

\* The parts make the invariant.
LEMMA Whole ==
  ASSUME Queued', Delaying', PolicyDelaying', Pressing'
  PROVE  Accounted'
<1>1. ASSUME NEW q \in Queries, At(q, "done")'
      PROVE  tok'[q] = {} /\ st'[q].held = Nil /\ q \notin watches'
  <2>1. Kept(st[q], tok[q], ses[q], q \in watches, calm[q], off)'
    BY Zenon DEF Queued
  <2>2. st'[q].pc = "done"
    BY Zenon, <1>1 DEF At
  <2> QED BY Zenon, <2>1, <2>2 DEF Kept, Unlimited
<1>2. CountersExact'
  BY Zenon, <1>1 DEF Delaying, PolicyDelaying, Pressing, CountersExact
<1> QED BY Zenon, <1>2 DEF Accounted, Queued, PolicyDelaying, Pressing

\* A step of one query leaves what is known of the others.
LEMMA OneQuery ==
  ASSUME Queued, NEW q \in Queries, Alone(q), off' = off, cur' = cur, firing' = firing,
         watches' \subseteq Queries,
         Kept(st[q], tok[q], ses[q], q \in watches, calm[q], off)'
  PROVE  Queued'
<1>1. ASSUME NEW r \in Queries PROVE Kept(st[r], tok[r], ses[r], r \in watches, calm[r], off)'
  <2>1. CASE r = q
    BY Zenon, <2>1
  <2>2. CASE r # q
    <3>1. Kept(st[r], tok[r], ses[r], r \in watches, calm[r], off)
      BY Zenon DEF Queued
    <3>2. /\ st'[r] = st[r] /\ tok'[r] = tok[r] /\ ses'[r] = ses[r] /\ calm'[r] = calm[r]
          /\ r \in watches' <=> r \in watches
      BY Zenon, <2>2 DEF Alone
    <3> QED BY Zenon, <3>1, <3>2 DEF Kept
  <2> QED BY Zenon, <2>1, <2>2
<1> QED BY Zenon, <1>1 DEF Queued, Alone

-----------------------------------------------------------------------------
(* The counters.                                                           *)

\* A set of queries as q joins or leaves it.
LEMMA Joins ==
  ASSUME NEW STATE S, NEW STATE q, S \subseteq Queries, q \in Queries, q \notin S
  PROVE  Cardinality(S \cup {q}) = Cardinality(S) + 1 /\ Cardinality(S) \in Nat
<1>1. IsFiniteSet(S)
  BY Zenon, FiniteAssumption, FS_Subset
<1> QED BY Zenon, <1>1, FS_AddElement, FS_CardinalityType

\* One query less.
LEMMA Leaves ==
  ASSUME NEW STATE S, NEW STATE q, S \subseteq Queries, q \in S
  PROVE  Cardinality(S \ {q}) = Cardinality(S) - 1 /\ Cardinality(S) \in Nat /\ Cardinality(S) > 0
<1>1. IsFiniteSet(S)
  BY Zenon, FiniteAssumption, FS_Subset
<1>2. Cardinality(S \ {q}) = Cardinality(S) - 1 /\ Cardinality(S) \in Nat
  BY Zenon, <1>1, FS_RemoveElement, FS_CardinalityType
<1>3. Cardinality(S) # 0
  BY Zenon, <1>1, FS_EmptySet
<1> QED BY <1>2, <1>3

\* A step that takes and gives back no pressure slot keeps their counts.
LEMMA SameSlots ==
  ASSUME Pressing, inflight' = inflight, \A r \in Queries : st'[r].held = st[r].held
  PROVE  Pressing'
<1>1. ASSUME NEW p PROVE {r \in Queries : st'[r].held = p} = {r \in Queries : st[r].held = p}
  BY Zenon
<1> QED BY Zenon, <1>1 DEF Pressing

\* CheckPressure admits q.
LEMMA TakesSlot ==
  ASSUME Pressing, NEW q \in Queries, NEW STATE p, p \in Policies,
         st[q].held = Nil, st'[q].held = p, \A r \in Queries \ {q} : st'[r].held = st[r].held,
         inflight' = [inflight EXCEPT ![p] = @ + 1]
  PROVE  Pressing'
<1>1. ASSUME NEW x \in Policies
      PROVE  inflight'[x] = Cardinality({r \in Queries : st'[r].held = x})
  <2> DEFINE S == {r \in Queries : st[r].held = x}
             T == {r \in Queries : st'[r].held = x}
  <2>1. inflight[x] = Cardinality(S)
    BY Zenon DEF Pressing
  <2>2. CASE x = p
    <3>1. T = S \cup {q} /\ q \notin S /\ S \subseteq Queries
      BY Zenon, NilAssumption, <2>2
    <3>2. inflight'[x] = inflight[x] + 1
      BY Zenon, <2>2 DEF Pressing
    <3> HIDE DEF S, T
    <3>3. Cardinality(T) = Cardinality(S) + 1
      BY Zenon, <3>1, Joins
    <3> QED BY Zenon, <2>1, <3>2, <3>3 DEF T
  <2>3. CASE x # p
    <3>1. T = S
      BY Zenon, NilAssumption, <2>3
    <3>2. inflight'[x] = inflight[x]
      BY Zenon, <2>3 DEF Pressing
    <3> QED BY Zenon, <2>1, <3>1, <3>2
  <2> QED BY Zenon, <2>2, <2>3
<1>2. DOMAIN inflight' = Policies
  BY Zenon DEF Pressing
<1> QED BY Zenon, <1>1, <1>2 DEF Pressing

\* The deferred release gives q's slot back.
LEMMA GivesSlot ==
  ASSUME Pressing, NEW q \in Queries, NEW STATE p, p \in Policies,
         st[q].held = p, st'[q].held = Nil, \A r \in Queries \ {q} : st'[r].held = st[r].held,
         inflight' = [inflight EXCEPT ![p] = @ - 1]
  PROVE  Pressing'
<1>1. ASSUME NEW x \in Policies
      PROVE  inflight'[x] = Cardinality({r \in Queries : st'[r].held = x})
  <2> DEFINE S == {r \in Queries : st[r].held = x}
             T == {r \in Queries : st'[r].held = x}
  <2>1. inflight[x] = Cardinality(S)
    BY Zenon DEF Pressing
  <2>2. CASE x = p
    <3>1. T = S \ {q} /\ q \in S /\ S \subseteq Queries
      BY Zenon, NilAssumption, <2>2
    <3>2. inflight'[x] = inflight[x] - 1
      BY Zenon, <2>2 DEF Pressing
    <3> HIDE DEF S, T
    <3>3. Cardinality(T) = Cardinality(S) - 1
      BY Zenon, <3>1, Leaves
    <3> QED BY Zenon, <2>1, <3>2, <3>3 DEF T
  <2>3. CASE x # p
    <3>1. T = S
      BY Zenon, NilAssumption, <2>3
    <3>2. inflight'[x] = inflight[x]
      BY Zenon, <2>3 DEF Pressing
    <3> QED BY Zenon, <2>1, <3>1, <3>2
  <2> QED BY Zenon, <2>2, <2>3
<1>2. DOMAIN inflight' = Policies
  BY Zenon DEF Pressing
<1> QED BY Zenon, <1>1, <1>2 DEF Pressing

\* A step that reserves and releases nothing keeps the delay counts.
LEMMA SameTokens ==
  ASSUME Delaying, PolicyDelaying, global' = global, perPolicy' = perPolicy, tok' = tok
  PROVE  Delaying' /\ PolicyDelaying'
BY Zenon DEF Delaying, PolicyDelaying

\* ReserveDelay and ReservePolicy count a query once for all policies together
\* and once for each of them.
LEMMA Reserves ==
  ASSUME Delaying, PolicyDelaying, NEW q \in Queries, NEW STATE p, p \in Policies,
         DOMAIN tok = Queries, Reserve(q, p)
  PROVE  Delaying' /\ PolicyDelaying'
<1>1. /\ tok'[q] = tok[q] \cup {p} /\ \A r \in Queries \ {q} : tok'[r] = tok[r]
      /\ global' = (IF tok[q] = {} THEN global + 1 ELSE global)
      /\ perPolicy' = (IF p \in tok[q] THEN perPolicy ELSE [perPolicy EXCEPT ![p] = @ + 1])
  BY Zenon DEF Reserve
<1>2. Delaying'
  <2> DEFINE S == {r \in Queries : tok[r] # {}}
             T == {r \in Queries : tok'[r] # {}}
  <2>1. global = Cardinality(S) /\ tok'[q] # {}
    BY Zenon, <1>1 DEF Delaying
  <2>2. CASE tok[q] = {}
    <3>1. T = S \cup {q} /\ q \notin S /\ S \subseteq Queries
      BY Zenon, <1>1, <2>1, <2>2
    <3> HIDE DEF S, T
    <3>2. Cardinality(T) = Cardinality(S) + 1
      BY Zenon, <3>1, Joins
    <3> QED BY Zenon, <1>1, <2>1, <2>2, <3>2 DEF T, Delaying
  <2>3. CASE tok[q] # {}
    <3>1. T = S
      BY Zenon, <1>1, <2>1, <2>3
    <3> QED BY Zenon, <1>1, <2>1, <2>3, <3>1 DEF Delaying
  <2> QED BY Zenon, <2>2, <2>3
<1>3. ASSUME NEW x \in Policies
      PROVE  perPolicy'[x] = Cardinality({r \in Queries : x \in tok'[r]})
  <2> DEFINE S == {r \in Queries : x \in tok[r]}
             T == {r \in Queries : x \in tok'[r]}
  <2>1. perPolicy[x] = Cardinality(S) /\ DOMAIN perPolicy = Policies
    BY Zenon DEF PolicyDelaying
  <2>2. CASE x = p /\ p \notin tok[q]
    <3>1. T = S \cup {q} /\ q \notin S /\ S \subseteq Queries
      BY Zenon, <1>1, <2>2
    <3>2. perPolicy'[x] = perPolicy[x] + 1
      BY Zenon, <1>1, <2>1, <2>2
    <3> HIDE DEF S, T
    <3>3. Cardinality(T) = Cardinality(S) + 1
      BY Zenon, <3>1, Joins
    <3> QED BY Zenon, <2>1, <3>2, <3>3 DEF T
  <2>3. CASE ~(x = p /\ p \notin tok[q])
    <3>1. T = S
      BY Zenon, <1>1, <2>3
    <3>2. perPolicy'[x] = perPolicy[x]
      BY Zenon, <1>1, <2>1, <2>3
    <3> QED BY Zenon, <2>1, <3>1, <3>2
  <2> QED BY Zenon, <2>2, <2>3
<1>4. DOMAIN perPolicy' = Policies
  BY Zenon, <1>1 DEF PolicyDelaying
<1> QED BY Zenon, <1>2, <1>3, <1>4 DEF PolicyDelaying

\* Token.Release takes back each count the session made, and none of another.
LEMMA Releases ==
  ASSUME Delaying, PolicyDelaying, NEW q \in Queries, DOMAIN tok = Queries, Release(q)
  PROVE  Delaying' /\ PolicyDelaying'
<1>1. /\ tok'[q] = {} /\ \A r \in Queries \ {q} : tok'[r] = tok[r]
      /\ global' = (IF tok[q] = {} THEN global ELSE Down(global))
      /\ perPolicy' = [p \in Policies |-> IF p \in tok[q] THEN Down(perPolicy[p]) ELSE perPolicy[p]]
  BY Zenon DEF Release
<1>2. Delaying'
  <2> DEFINE S == {r \in Queries : tok[r] # {}}
             T == {r \in Queries : tok'[r] # {}}
  <2>1. global = Cardinality(S)
    BY Zenon DEF Delaying
  <2>2. CASE tok[q] # {}
    <3>1. T = S \ {q} /\ q \in S /\ S \subseteq Queries
      BY Zenon, <1>1, <2>2
    <3> HIDE DEF S, T
    <3>2. Cardinality(T) = Cardinality(S) - 1 /\ Cardinality(S) > 0
      BY Zenon, <3>1, Leaves
    <3> QED BY Zenon, <1>1, <2>1, <2>2, <3>2 DEF T, Delaying, Down
  <2>3. CASE tok[q] = {}
    <3>1. T = S
      BY Zenon, <1>1, <2>3
    <3> QED BY Zenon, <1>1, <2>1, <2>3, <3>1 DEF Delaying
  <2> QED BY Zenon, <2>2, <2>3
<1>3. ASSUME NEW x \in Policies
      PROVE  perPolicy'[x] = Cardinality({r \in Queries : x \in tok'[r]})
  <2> DEFINE S == {r \in Queries : x \in tok[r]}
             T == {r \in Queries : x \in tok'[r]}
  <2>1. perPolicy[x] = Cardinality(S)
    BY Zenon DEF PolicyDelaying
  <2>2. CASE x \in tok[q]
    <3>1. T = S \ {q} /\ q \in S /\ S \subseteq Queries
      BY Zenon, <1>1, <2>2
    <3>2. perPolicy'[x] = Down(perPolicy[x])
      BY Zenon, <1>1, <2>2
    <3> HIDE DEF S, T
    <3>3. Cardinality(T) = Cardinality(S) - 1 /\ Cardinality(S) > 0
      BY Zenon, <3>1, Leaves
    <3> QED BY Zenon, <2>1, <3>2, <3>3 DEF T, Down
  <2>3. CASE x \notin tok[q]
    <3>1. T = S
      BY Zenon, <1>1, <2>3
    <3>2. perPolicy'[x] = perPolicy[x]
      BY Zenon, <1>1, <2>3
    <3> QED BY Zenon, <2>1, <3>1, <3>2
  <2> QED BY Zenon, <2>2, <2>3
<1>4. DOMAIN perPolicy' = Policies
  BY Zenon, <1>1
<1> QED BY Zenon, <1>2, <1>3, <1>4 DEF PolicyDelaying

-----------------------------------------------------------------------------
(* The actions of ServeDNS.                                                *)

\* Only the locals of q change, to v.
Becomes(q, v) == st' = [st EXCEPT ![q] = v]

Others == <<off, cur, budget, watches, inflight, tok, ses, firing, calm>>

\* A step that changes nothing but the state of one query keeps every count.
LEMMA Locally ==
  ASSUME Accounted, NEW q \in Queries, NEW STATE v, Becomes(q, v), UNCHANGED Others,
         v.held = st[q].held, Kept(v, tok[q], ses[q], q \in watches, calm[q], off)
  PROVE  Accounted'
<1>1. Queued /\ Delaying /\ PolicyDelaying /\ Pressing
  BY Zenon, Parts
<1>2. /\ off' = off /\ cur' = cur /\ global' = global /\ perPolicy' = perPolicy /\ watches' = watches
      /\ inflight' = inflight /\ tok' = tok /\ ses' = ses /\ firing' = firing /\ calm' = calm
  BY Zenon DEF Others, budget
<1>3. DOMAIN st' = Queries /\ st'[q] = v /\ \A r \in Queries \ {q} : st'[r] = st[r]
  BY Zenon, <1>1 DEF Becomes, Queued
<1>4. Alone(q)
  BY Zenon, <1>1, <1>2, <1>3 DEF Alone, Queued
<1>5. Kept(st[q], tok[q], ses[q], q \in watches, calm[q], off)'
  BY Zenon, <1>2, <1>3
<1>6. Queued'
  BY Zenon, <1>1, <1>2, <1>4, <1>5, OneQuery DEF Queued
<1>7. Delaying' /\ PolicyDelaying'
  BY Zenon, <1>1, <1>2, SameTokens
<1>8. \A r \in Queries : st'[r].held = st[r].held
  BY Zenon, <1>3
<1>9. Pressing'
  BY Zenon, <1>1, <1>2, <1>8, SameSlots
<1> QED BY Zenon, <1>6, <1>7, <1>9, Whole

\* What the invariant says of one query.
LEMMA Known ==
  ASSUME Accounted, NEW q \in Queries
  PROVE  Kept(st[q], tok[q], ses[q], q \in watches, calm[q], off) /\ DOMAIN st[q] = Fields
BY Zenon DEF Accounted, Kept

LEMMA SendKeeps ==
  ASSUME Accounted, NEW q \in Queries, NEW STATE what, Send(q, what), UNCHANGED Others,
         calm[q] => what \in {"none", "base", "drop", "servfail"}
  PROVE  Accounted'
<1> DEFINE k == st[q]
           v == [k EXCEPT !.pc = "unwatch", !.sent = what, !.pre = NoPre, !.post = NoPost,
                          !.phase = "before", !.todo = <<>>, !.res = "none", !.base = "none"]
<1>1. Becomes(q, v)
  BY Zenon DEF Becomes, Send, Accounted
<1>2. Kept(k, tok[q], ses[q], q \in watches, calm[q], off) /\ DOMAIN k = Fields
  BY Zenon, Known
<1>3. /\ DOMAIN v = Fields /\ v.snap = k.snap /\ v.held = k.held /\ v.pc = "unwatch" /\ v.sent = what
      /\ v.pre = NoPre /\ v.post = NoPost /\ v.phase = "before" /\ v.todo = <<>>
      /\ v.res = "none" /\ v.base = "none"
  BY Zenon, <1>2 DEF Fields
<1> HIDE DEF v
<1>4. v.todo \in Seq(Actions)
  BY <1>3
<1>5. ~Unlimited(v)
  BY Zenon, <1>3 DEF Unlimited
<1>6. calm[q] => Plain(v)
  BY Zenon, <1>2, <1>3 DEF Plain, Kept
<1>7. Kept(v, tok[q], ses[q], q \in watches, calm[q], off)
  BY Zenon, <1>2, <1>3, <1>4, <1>5, <1>6, Moved DEF Phases
<1> QED BY Zenon, <1>1, <1>3, <1>7, Locally

\* The query goes on to another label in the phase it is in.
LEMMA GotoKeeps ==
  ASSUME Accounted, NEW q \in Queries, NEW STATE l, Goto(q, l), UNCHANGED Others,
         l \notin {"load", "decide", "watch", "done", "free"}, st[q].pc # "load",
         \/ l \notin {"enter", "loop", "sleep", "wait", "check", "base", "limit"}
         \/ Unlimited(st[q])
         \/ l \in {"loop", "sleep", "wait"} /\ st[q].pc \in {"loop", "sleep", "wait"}
  PROVE  Accounted'
<1> DEFINE k == st[q]
           v == [k EXCEPT !.pc = l]
<1>1. Becomes(q, v)
  BY Zenon DEF Becomes, Goto, Accounted
<1>2. Kept(k, tok[q], ses[q], q \in watches, calm[q], off) /\ DOMAIN k = Fields
  BY Zenon, Known
<1>3. /\ DOMAIN v = Fields /\ v.pc = l /\ v.snap = k.snap /\ v.pre = k.pre /\ v.post = k.post
      /\ v.phase = k.phase /\ v.todo = k.todo /\ v.held = k.held
      /\ v.res = k.res /\ v.base = k.base /\ v.sent = k.sent
  BY Zenon, <1>2 DEF Fields
<1> HIDE DEF v
<1>4. Unlimited(v) => Unlimited(k)
  BY Zenon, <1>3 DEF Unlimited
<1>5. calm[q] => Plain(v)
  BY Zenon, <1>2, <1>3 DEF Plain, Kept
<1>6. Kept(v, tok[q], ses[q], q \in watches, calm[q], off)
  BY Zenon, <1>2, <1>3, <1>4, <1>5, Moved DEF Kept
<1> QED BY Zenon, <1>1, <1>3, <1>6, Locally

\* A decision, a result or a phase is noted.
LEMMA NoteKeeps ==
  ASSUME Accounted, NEW q \in Queries, NEW STATE v, Becomes(q, v), UNCHANGED Others,
         DOMAIN v = Fields, v.snap = st[q].snap, v.held = st[q].held, v.sent = st[q].sent,
         v.phase \in Phases, v.todo \in Seq(Actions),
         v.pre \in PrePlans \cup {NoPre}, v.post \in PostPlans \cup {NoPost},
         v.pc \notin {"load", "decide", "done", "free"}, v.pc = "watch" => st[q].pc = "decide",
         Unlimited(v) => Unlimited(st[q]),
         calm[q] => /\ v.pre = NoPre /\ v.post = NoPost /\ v.todo = <<>>
                    /\ v.res \in {"none", "base"} /\ v.base \in {"none", "base"}
  PROVE  Accounted'
<1>1. Kept(st[q], tok[q], ses[q], q \in watches, calm[q], off)
  BY Zenon, Known
<1>2. calm[q] => Plain(v)
  BY Zenon, <1>1 DEF Plain, Kept
<1>3. Kept(v, tok[q], ses[q], q \in watches, calm[q], off)
  BY Zenon, <1>1, <1>2, Moved
<1> QED BY Zenon, <1>3, Locally

\* What PlanAssumption says of a decision.
LEMMA PlanParts ==
  ASSUME NEW STATE pre, NEW STATE post, pre \in PrePlans \cup {NoPre}, post \in PostPlans \cup {NoPost}
  PROVE  /\ pre.before \in Seq(Actions) /\ pre.upstream \in Seq(Actions)
         /\ pre.limit \in Policies \cup {Nil}
         /\ post.after \in Seq(Actions) /\ post.response \in Seq(Actions)
<1>1. <<>> \in Seq(Actions)
  OBVIOUS
<1>2. CASE pre = NoPre
  <2>1. pre.before = <<>> /\ pre.upstream = <<>> /\ pre.limit = Nil
    BY Zenon, <1>2 DEF NoPre
  <2>2. CASE post = NoPost
    BY Zenon, <1>1, <2>1, <2>2 DEF NoPost
  <2>3. CASE post \in PostPlans
    BY Zenon, <1>1, <2>1, <2>3, PlanAssumption
  <2> QED BY Zenon, <2>2, <2>3
<1>3. CASE pre \in PrePlans
  <2>1. pre.before \in Seq(Actions) /\ pre.upstream \in Seq(Actions) /\ pre.limit \in Policies \cup {Nil}
    BY Zenon, <1>3, PlanAssumption
  <2>2. CASE post = NoPost
    BY Zenon, <1>1, <2>1, <2>2 DEF NoPost
  <2>3. CASE post \in PostPlans
    BY Zenon, <2>1, <2>3, PlanAssumption
  <2> QED BY Zenon, <2>2, <2>3
<1> QED BY Zenon, <1>2, <1>3

\* The delays still to be slept, of which a query under emergency disable has none.
LEMMA DelaysTyped ==
  ASSUME Accounted, NEW q \in Queries
  PROVE  Delays(q) \in Seq(Actions) /\ (calm[q] => Delays(q) = <<>>)
<1>1. /\ st[q].pre \in PrePlans \cup {NoPre} /\ st[q].post \in PostPlans \cup {NoPost}
      /\ st[q].phase \in Phases
      /\ calm[q] => st[q].pre = NoPre /\ st[q].post = NoPost
  BY Zenon, Known DEF Kept, Plain
<1>2. /\ st[q].pre.before \in Seq(Actions) /\ st[q].pre.upstream \in Seq(Actions)
      /\ st[q].post.after \in Seq(Actions) /\ st[q].post.response \in Seq(Actions)
  BY Zenon, <1>1, PlanParts
<1>3. /\ NoPre.before = <<>> /\ NoPre.upstream = <<>>
      /\ NoPost.after = <<>> /\ NoPost.response = <<>>
  BY Zenon DEF NoPre, NoPost
<1>4. CASE st[q].phase = "before"
  <2>1. Delays(q) = st[q].pre.before
    BY <1>4 DEF Delays
  <2> QED BY Zenon, <1>1, <1>2, <1>3, <2>1
<1>5. CASE st[q].phase = "upstream"
  <2>1. Delays(q) = st[q].pre.upstream
    BY <1>5 DEF Delays
  <2> QED BY Zenon, <1>1, <1>2, <1>3, <2>1
<1>6. CASE st[q].phase = "after"
  <2>1. Delays(q) = st[q].post.after
    BY <1>6 DEF Delays
  <2> QED BY Zenon, <1>1, <1>2, <1>3, <2>1
<1>7. CASE st[q].phase = "response"
  <2>1. Delays(q) = st[q].post.response
    BY <1>7 DEF Delays
  <2> QED BY Zenon, <1>1, <1>2, <1>3, <2>1
<1> QED BY Zenon, <1>1, <1>4, <1>5, <1>6, <1>7 DEF Phases

LEMMA LoadKeeps ==
  ASSUME Accounted, NEW q \in Queries, LoadSnapshot(q)
  PROVE  Accounted'
<1> DEFINE k == st[q]
<1>1. Queued /\ Delaying /\ PolicyDelaying /\ Pressing
  BY Zenon, Parts
<1>2. Kept(k, tok[q], ses[q], q \in watches, calm[q], off) /\ DOMAIN k = Fields /\ k.pc = "load"
  BY Zenon, Known DEF LoadSnapshot, At
<1>3. /\ off' = off /\ cur' = cur /\ global' = global /\ perPolicy' = perPolicy /\ watches' = watches
      /\ inflight' = inflight /\ tok' = tok /\ ses' = ses /\ firing' = firing
  BY Zenon DEF LoadSnapshot, budget, admin
<1>4. /\ Plain(k) /\ ses[q].delayed = 0 /\ ses[q].spent = [p \in Policies |-> 0]
      /\ tok[q] = {} /\ q \notin watches /\ cur.caps \in Caps
  BY Zenon, <1>1, <1>2 DEF Kept, Queued
<1>5. \A c \in Caps : Within(c, ses[q])
  <2> SUFFICES ASSUME NEW c \in Caps PROVE Within(c, ses[q])
    BY Zenon
  <2>1. c.delay \in Nat /\ c.policyDelay \in [Policies -> Nat]
    BY Zenon, CapsAssumption
  <2> QED BY <1>4, <2>1 DEF Within
<1>6. CASE k.ctx # "live"
  <2> DEFINE v == [k EXCEPT !.pc = "done", !.sent = "drop"]
  <2>1. Becomes(q, v) /\ calm' = calm
    BY Zenon, <1>6 DEF Becomes, LoadSnapshot, Accounted
  <2>2. /\ DOMAIN v = Fields /\ v.pc = "done" /\ v.sent = "drop" /\ v.snap = k.snap
        /\ v.pre = k.pre /\ v.post = k.post /\ v.phase = k.phase /\ v.todo = k.todo
        /\ v.held = k.held /\ v.res = k.res /\ v.base = k.base
    BY Zenon, <1>2 DEF Fields
  <2> HIDE DEF v
  <2>3. Plain(v)
    BY Zenon, <1>4, <2>2 DEF Plain
  <2>4. Kept(v, tok[q], ses[q], q \in watches, calm[q], off)
    BY Zenon, <1>2, <1>4, <2>2, <2>3 DEF Kept, Plain
  <2> QED BY Zenon, <1>3, <2>1, <2>2, <2>4, Locally DEF Others, budget
<1>7. CASE k.ctx = "live"
  <2> DEFINE v == [k EXCEPT !.pc = "decide", !.snap = cur]
  <2>1. Becomes(q, v) /\ calm' = [calm EXCEPT ![q] = off]
    BY Zenon, <1>7 DEF Becomes, LoadSnapshot, Accounted
  <2>2. /\ DOMAIN v = Fields /\ v.pc = "decide" /\ v.sent = k.sent /\ v.snap = cur
        /\ v.pre = k.pre /\ v.post = k.post /\ v.phase = k.phase /\ v.todo = k.todo
        /\ v.held = k.held /\ v.res = k.res /\ v.base = k.base
    BY Zenon, <1>2 DEF Fields
  <2> HIDE DEF v
  <2>3. DOMAIN st' = Queries /\ st'[q] = v /\ \A r \in Queries \ {q} : st'[r] = st[r]
    BY Zenon, <1>1, <2>1 DEF Becomes, Queued
  <2>4. DOMAIN calm' = Queries /\ calm'[q] = off /\ \A r \in Queries \ {q} : calm'[r] = calm[r]
    BY Zenon, <1>1, <2>1 DEF Queued
  <2>5. Plain(v)
    BY Zenon, <1>4, <2>2 DEF Plain
  <2>6. Within(v.snap.caps, ses[q])
    BY Zenon, <1>4, <1>5, <2>2
  <2>7. Kept(v, tok[q], ses[q], q \in watches, off, off)
    BY Zenon, <1>2, <1>4, <2>2, <2>5, <2>6 DEF Kept, Plain
  <2>8. Kept(st[q], tok[q], ses[q], q \in watches, calm[q], off)'
    BY Zenon, <1>3, <2>3, <2>4, <2>7
  <2>9. Alone(q)
    BY Zenon, <1>1, <1>3, <2>3, <2>4 DEF Alone, Queued
  <2>10. Queued'
    BY Zenon, <1>1, <1>3, <2>8, <2>9, OneQuery DEF Queued
  <2>11. Delaying' /\ PolicyDelaying'
    BY Zenon, <1>1, <1>3, SameTokens
  <2>12. \A r \in Queries : st'[r].held = st[r].held
    BY Zenon, <2>2, <2>3
  <2>13. Pressing'
    BY Zenon, <1>1, <1>3, <2>12, SameSlots
  <2> QED BY Zenon, <2>10, <2>11, <2>13, Whole
<1> QED BY Zenon, <1>6, <1>7

LEMMA DecidePreKeeps ==
  ASSUME Accounted, NEW q \in Queries, DecidePre(q)
  PROVE  Accounted'
<1> DEFINE k == st[q]
<1>1. Kept(k, tok[q], ses[q], q \in watches, calm[q], off) /\ DOMAIN k = Fields /\ k.pc = "decide"
  BY Zenon, Known DEF DecidePre, At
<1>2. UNCHANGED Others
  BY Zenon DEF DecidePre, Others, budget, admin
<1>3. PICK p \in Plans(q, PrePlans, NoPre) : st' = [st EXCEPT ![q].pc = "watch", ![q].pre = p]
  BY Zenon DEF DecidePre
<1>4. p \in PrePlans \cup {NoPre} /\ (off => p = NoPre)
  BY Zenon, <1>3 DEF Plans
<1> DEFINE v == [k EXCEPT !.pc = "watch", !.pre = p]
<1>5. Becomes(q, v)
  BY Zenon, <1>3 DEF Becomes, Accounted
<1>6. /\ DOMAIN v = Fields /\ v.pc = "watch" /\ v.snap = k.snap /\ v.pre = p /\ v.post = k.post
      /\ v.phase = k.phase /\ v.todo = k.todo /\ v.held = k.held
      /\ v.res = k.res /\ v.base = k.base /\ v.sent = k.sent
  BY Zenon, <1>1 DEF Fields
<1> HIDE DEF v
<1>7. Unlimited(v) => Unlimited(k)
  BY Zenon, <1>1 DEF Unlimited
<1>8. calm[q] => /\ v.pre = NoPre /\ v.post = NoPost /\ v.todo = <<>>
                 /\ v.res \in {"none", "base"} /\ v.base \in {"none", "base"}
  BY Zenon, <1>1, <1>4, <1>6 DEF Kept, Plain
<1> QED BY Zenon, <1>1, <1>2, <1>4, <1>5, <1>6, <1>7, <1>8, NoteKeeps DEF Kept

LEMMA DecidePostKeeps ==
  ASSUME Accounted, NEW q \in Queries, DecidePost(q)
  PROVE  Accounted'
<1> DEFINE k == st[q]
<1>1. Kept(k, tok[q], ses[q], q \in watches, calm[q], off) /\ DOMAIN k = Fields
  BY Zenon, Known
<1>2. UNCHANGED Others
  BY Zenon DEF DecidePost, Others, budget, admin
<1>3. PICK p \in Plans(q, PostPlans, NoPost) : st' = [st EXCEPT ![q].pc = "mutate", ![q].post = p]
  BY Zenon DEF DecidePost
<1>4. p \in PostPlans \cup {NoPost} /\ (off => p = NoPost)
  BY Zenon, <1>3 DEF Plans
<1> DEFINE v == [k EXCEPT !.pc = "mutate", !.post = p]
<1>5. Becomes(q, v)
  BY Zenon, <1>3 DEF Becomes, Accounted
<1>6. /\ DOMAIN v = Fields /\ v.pc = "mutate" /\ v.snap = k.snap /\ v.pre = k.pre /\ v.post = p
      /\ v.phase = k.phase /\ v.todo = k.todo /\ v.held = k.held
      /\ v.res = k.res /\ v.base = k.base /\ v.sent = k.sent
  BY Zenon, <1>1 DEF Fields
<1> HIDE DEF v
<1>7. ~Unlimited(v)
  BY Zenon, <1>6 DEF Unlimited
<1>8. calm[q] => /\ v.pre = NoPre /\ v.post = NoPost /\ v.todo = <<>>
                 /\ v.res \in {"none", "base"} /\ v.base \in {"none", "base"}
  BY Zenon, <1>1, <1>4, <1>6 DEF Kept, Plain
<1> QED BY Zenon, <1>1, <1>2, <1>4, <1>5, <1>6, <1>7, <1>8, NoteKeeps DEF Kept

LEMMA AbortKeeps ==
  ASSUME Accounted, NEW q \in Queries, Abort(q), UNCHANGED Others
  PROVE  Accounted'
<1> DEFINE what == IF st[q].phase = "upstream" /\ st[q].ctx # "cancelled" THEN "servfail" ELSE "drop"
<1>1. Send(q, what) /\ what \in {"none", "base", "drop", "servfail"}
  BY Zenon DEF Abort
<1> HIDE DEF what
<1> QED BY Zenon, <1>1, SendKeeps

LEMMA FailWorkKeeps ==
  ASSUME Accounted, NEW q \in Queries, FailWork(q), UNCHANGED Others
  PROVE  Accounted'
<1>1. CASE Send(q, "drop")
  BY Zenon, <1>1, SendKeeps
<1>2. CASE Send(q, "servfail")
  BY Zenon, <1>2, SendKeeps
<1> QED BY Zenon, <1>1, <1>2 DEF FailWork

LEMMA EnterKeeps ==
  ASSUME Accounted, NEW q \in Queries, Enter(q)
  PROVE  Accounted'
<1> DEFINE k == st[q]
<1>1. Kept(k, tok[q], ses[q], q \in watches, calm[q], off) /\ DOMAIN k = Fields /\ k.pc = "enter"
  BY Zenon, Known DEF Enter, At
<1>2. UNCHANGED Others
  BY Zenon DEF Enter, Others, budget, admin
<1>3. CASE k.ctx = "cancelled"
  <2>1. Abort(q)
    BY Zenon, <1>3 DEF Enter
  <2> QED BY Zenon, <1>2, <2>1, AbortKeeps
<1>4. CASE k.ctx # "cancelled"
  <2> DEFINE d == Delays(q)
             v == [k EXCEPT !.pc = "loop", !.todo = d]
  <2>1. d \in Seq(Actions) /\ (calm[q] => d = <<>>)
    BY Zenon, DelaysTyped
  <2>2. Becomes(q, v)
    BY Zenon, <1>4 DEF Becomes, Enter, Accounted
  <2> HIDE DEF d
  <2>3. /\ DOMAIN v = Fields /\ v.pc = "loop" /\ v.snap = k.snap /\ v.pre = k.pre /\ v.post = k.post
        /\ v.phase = k.phase /\ v.todo = d /\ v.held = k.held
        /\ v.res = k.res /\ v.base = k.base /\ v.sent = k.sent
    BY Zenon, <1>1 DEF Fields
  <2> HIDE DEF v
  <2>4. Unlimited(v) => Unlimited(k)
    BY Zenon, <1>1, <2>3 DEF Unlimited
  <2>5. calm[q] => /\ v.pre = NoPre /\ v.post = NoPost /\ v.todo = <<>>
                   /\ v.res \in {"none", "base"} /\ v.base \in {"none", "base"}
    BY Zenon, <1>1, <2>1, <2>3 DEF Kept, Plain
  <2> QED BY Zenon, <1>1, <1>2, <2>1, <2>2, <2>3, <2>4, <2>5, NoteKeeps DEF Kept
<1> QED BY Zenon, <1>3, <1>4

LEMMA TimerKeeps ==
  ASSUME Accounted, NEW q \in Queries, Timer(q)
  PROVE  Accounted'
<1>1. UNCHANGED Others
  BY Zenon DEF Timer, Others, budget, admin
<1>2. st[q].pc \in {"sleep", "wait"} /\ Goto(q, "loop")
  BY Zenon DEF Timer, At
<1> QED BY Zenon, <1>1, <1>2, GotoKeeps

LEMMA ContextDoneKeeps ==
  ASSUME Accounted, NEW q \in Queries, ContextDone(q)
  PROVE  Accounted'
<1>1. UNCHANGED Others
  BY Zenon DEF ContextDone, Others, budget, admin
<1>2. CASE Abort(q)
  BY Zenon, <1>1, <1>2, AbortKeeps
<1>3. CASE st[q].pc = "sleep" /\ Goto(q, "wait")
  BY Zenon, <1>1, <1>3, GotoKeeps
<1> QED BY Zenon, <1>2, <1>3 DEF ContextDone, At

LEMMA CheckInhibitedKeeps ==
  ASSUME Accounted, NEW q \in Queries, CheckInhibited(q)
  PROVE  Accounted'
<1>1. UNCHANGED Others
  BY Zenon DEF CheckInhibited, Others, budget, admin
<1>2. st[q].pc = "check" /\ (Goto(q, "base") \/ Goto(q, "limit"))
  BY Zenon DEF CheckInhibited, At
<1>3. Unlimited(st[q])
  BY Zenon, <1>2 DEF Unlimited
<1>4. CASE Goto(q, "base")
  BY Zenon, <1>1, <1>2, <1>3, <1>4, GotoKeeps
<1>5. CASE Goto(q, "limit")
  BY Zenon, <1>1, <1>2, <1>3, <1>5, GotoKeeps
<1> QED BY Zenon, <1>2, <1>4, <1>5

LEMMA SendBaseKeeps ==
  ASSUME Accounted, NEW q \in Queries, SendBase(q)
  PROVE  Accounted'
<1>1. UNCHANGED Others
  BY Zenon DEF SendBase, Others, budget, admin
<1>2. CASE Send(q, "base")
  BY Zenon, <1>1, <1>2, SendKeeps
<1>3. CASE FailWork(q)
  BY Zenon, <1>1, <1>3, FailWorkKeeps
<1> QED BY Zenon, <1>2, <1>3 DEF SendBase

\* An answer is there.
LEMMA ResultKeeps ==
  ASSUME Accounted, NEW q \in Queries, NEW STATE r, UNCHANGED Others,
         st' = [st EXCEPT ![q].pc = "answered", ![q].res = r], calm[q] => r = "base"
  PROVE  Accounted'
<1> DEFINE k == st[q]
           v == [k EXCEPT !.pc = "answered", !.res = r]
<1>1. Kept(k, tok[q], ses[q], q \in watches, calm[q], off) /\ DOMAIN k = Fields
  BY Zenon, Known
<1>2. Becomes(q, v)
  BY Zenon DEF Becomes, Accounted
<1>3. /\ DOMAIN v = Fields /\ v.pc = "answered" /\ v.snap = k.snap /\ v.pre = k.pre /\ v.post = k.post
      /\ v.phase = k.phase /\ v.todo = k.todo /\ v.held = k.held
      /\ v.res = r /\ v.base = k.base /\ v.sent = k.sent
  BY Zenon, <1>1 DEF Fields
<1> HIDE DEF v
<1>4. ~Unlimited(v)
  BY Zenon, <1>3 DEF Unlimited
<1>5. calm[q] => /\ v.pre = NoPre /\ v.post = NoPost /\ v.todo = <<>>
                 /\ v.res \in {"none", "base"} /\ v.base \in {"none", "base"}
  BY Zenon, <1>1, <1>3 DEF Kept, Plain
<1> QED BY Zenon, <1>1, <1>2, <1>3, <1>4, <1>5, NoteKeeps DEF Kept

\* The upstream phase begins, after CheckPressure.
LEMMA UpstreamKeeps ==
  ASSUME Accounted, NEW q \in Queries, UNCHANGED Others,
         st' = [st EXCEPT ![q].pc = "enter", ![q].phase = "upstream"]
  PROVE  Accounted'
<1> DEFINE k == st[q]
           v == [k EXCEPT !.pc = "enter", !.phase = "upstream"]
<1>1. Kept(k, tok[q], ses[q], q \in watches, calm[q], off) /\ DOMAIN k = Fields
  BY Zenon, Known
<1>2. Becomes(q, v)
  BY Zenon DEF Becomes, Accounted
<1>3. /\ DOMAIN v = Fields /\ v.pc = "enter" /\ v.snap = k.snap /\ v.pre = k.pre /\ v.post = k.post
      /\ v.phase = "upstream" /\ v.todo = k.todo /\ v.held = k.held
      /\ v.res = k.res /\ v.base = k.base /\ v.sent = k.sent
  BY Zenon, <1>1 DEF Fields
<1> HIDE DEF v
<1>4. ~Unlimited(v) /\ v.phase \in Phases
  BY Zenon, <1>3 DEF Unlimited, Phases
<1>5. calm[q] => /\ v.pre = NoPre /\ v.post = NoPost /\ v.todo = <<>>
                 /\ v.res \in {"none", "base"} /\ v.base \in {"none", "base"}
  BY Zenon, <1>1, <1>3 DEF Kept, Plain
<1> QED BY Zenon, <1>1, <1>2, <1>3, <1>4, <1>5, NoteKeeps DEF Kept

\* A query that began under emergency disable, which lasts, has no plan.
LEMMA CalmPlan ==
  ASSUME Accounted, NEW q \in Queries, calm[q]
  PROVE  /\ off /\ ~st[q].pre.early /\ st[q].pre.limit = Nil /\ Produced(q) = {"base"}
         /\ st[q].res \in {"none", "base"} /\ st[q].base \in {"none", "base"}
<1>1. /\ off /\ st[q].pre = NoPre
      /\ st[q].res \in {"none", "base"} /\ st[q].base \in {"none", "base"}
  BY Zenon, Known DEF Kept, Plain
<1>2. NoPre.early = FALSE /\ NoPre.inject = FALSE /\ NoPre.limit = Nil
  BY Zenon DEF NoPre
<1> QED BY Zenon, <1>1, <1>2 DEF Produced

LEMMA AnswerKeeps ==
  ASSUME Accounted, NEW q \in Queries, Answer(q)
  PROVE  Accounted'
<1>1. UNCHANGED Others
  BY Zenon DEF Answer, Others, budget, admin
<1>2. CASE st[q].pre.early /\ st' = [st EXCEPT ![q].pc = "answered", ![q].res = "injected"]
  <2>1. ~calm[q]
    BY Zenon, <1>2, CalmPlan
  <2> QED BY Zenon, <1>1, <1>2, <2>1, ResultKeeps
<1>3. CASE \E r \in Produced(q) : st' = [st EXCEPT ![q].pc = "answered", ![q].res = r]
  <2>1. PICK r \in Produced(q) : st' = [st EXCEPT ![q].pc = "answered", ![q].res = r]
    BY Zenon, <1>3
  <2>2. calm[q] => r = "base"
    BY Zenon, CalmPlan
  <2> QED BY Zenon, <1>1, <2>1, <2>2, ResultKeeps
<1>4. CASE FailWork(q)
  BY Zenon, <1>1, <1>4, FailWorkKeeps
<1>5. CASE st' = [st EXCEPT ![q].pc = "enter", ![q].phase = "upstream"]
  BY Zenon, <1>1, <1>5, UpstreamKeeps
<1> QED BY Zenon, <1>2, <1>3, <1>4, <1>5 DEF Answer

LEMMA ExchangeKeeps ==
  ASSUME Accounted, NEW q \in Queries, Exchange(q)
  PROVE  Accounted'
<1>1. UNCHANGED Others
  BY Zenon DEF Exchange, Others, budget, admin
<1>2. CASE \E r \in Produced(q) : st' = [st EXCEPT ![q].pc = "answered", ![q].res = r]
  <2>1. PICK r \in Produced(q) : st' = [st EXCEPT ![q].pc = "answered", ![q].res = r]
    BY Zenon, <1>2
  <2>2. calm[q] => r = "base"
    BY Zenon, CalmPlan
  <2> QED BY Zenon, <1>1, <2>1, <2>2, ResultKeeps
<1>3. CASE FailWork(q)
  BY Zenon, <1>1, <1>3, FailWorkKeeps
<1> QED BY Zenon, <1>2, <1>3 DEF Exchange

LEMMA AnsweredKeeps ==
  ASSUME Accounted, NEW q \in Queries, Answered(q)
  PROVE  Accounted'
<1>1. UNCHANGED Others
  BY Zenon DEF Answered, Others, budget, admin
<1>2. CASE Send(q, st[q].res)
  <2>1. calm[q] => st[q].res \in {"none", "base", "drop", "servfail"}
    BY Zenon, CalmPlan
  <2> QED BY Zenon, <1>1, <1>2, <2>1, SendKeeps
<1>3. CASE st[q].pc = "answered" /\ Goto(q, "decide2")
  BY Zenon, <1>1, <1>3, GotoKeeps
<1> QED BY Zenon, <1>2, <1>3 DEF Answered, At

LEMMA MutateKeeps ==
  ASSUME Accounted, NEW q \in Queries, Mutate(q)
  PROVE  Accounted'
<1> DEFINE k == st[q]
<1>1. UNCHANGED Others
  BY Zenon DEF Mutate, Others, budget, admin
<1>2. CASE off
  <2>1. Send(q, k.res)
    BY Zenon, <1>2 DEF Mutate
  <2>2. calm[q] => k.res \in {"none", "base", "drop", "servfail"}
    BY Zenon, CalmPlan
  <2> QED BY Zenon, <1>1, <2>1, <2>2, SendKeeps
<1>3. CASE ~off
  <2> DEFINE r == IF k.post.mutate THEN "mutated" ELSE k.res
             v == [k EXCEPT !.pc = "enter", !.phase = "after", !.base = k.res, !.res = r]
  <2>1. Kept(k, tok[q], ses[q], q \in watches, calm[q], off) /\ DOMAIN k = Fields /\ ~calm[q]
    BY Zenon, <1>3, Known, CalmPlan
  <2>2. Becomes(q, v)
    BY Zenon, <1>3 DEF Becomes, Mutate, Accounted
  <2>3. /\ DOMAIN v = Fields /\ v.pc = "enter" /\ v.snap = k.snap /\ v.pre = k.pre /\ v.post = k.post
        /\ v.phase = "after" /\ v.todo = k.todo /\ v.held = k.held /\ v.sent = k.sent
    BY Zenon, <2>1 DEF Fields
  <2> HIDE DEF v
  <2>4. ~Unlimited(v) /\ v.phase \in Phases
    BY Zenon, <2>3 DEF Unlimited, Phases
  <2> QED BY Zenon, <1>1, <2>1, <2>2, <2>3, <2>4, NoteKeeps DEF Kept
<1> QED BY Zenon, <1>2, <1>3

LEMMA FinalKeeps ==
  ASSUME Accounted, NEW q \in Queries, Final(q)
  PROVE  Accounted'
<1>1. UNCHANGED Others
  BY Zenon DEF Final, Others, budget, admin
<1> DEFINE what == IF off THEN st[q].base
                   ELSE IF st[q].pre.hint \/ st[q].post.hint THEN "hinted" ELSE st[q].res
<1>2. Send(q, what)
  BY Zenon DEF Final
<1>3. calm[q] => what \in {"none", "base", "drop", "servfail"}
  BY Zenon, CalmPlan
<1> HIDE DEF what
<1> QED BY Zenon, <1>1, <1>2, <1>3, SendKeeps

\* A step that may change the session, the reservation and the watch of q too.
LEMMA WithSession ==
  ASSUME Accounted, NEW q \in Queries, NEW STATE v, NEW STATE z, Becomes(q, v),
         DOMAIN ses' = Queries, ses'[q] = z, \A r \in Queries \ {q} : ses'[r] = ses[r],
         DOMAIN tok' = Queries, \A r \in Queries \ {q} : tok'[r] = tok[r],
         \A r \in Queries \ {q} : r \in watches' <=> r \in watches, watches' \subseteq Queries,
         UNCHANGED <<off, cur, firing, calm>>,
         Kept(v, tok'[q], z, q \in watches', calm[q], off),
         Delaying' /\ PolicyDelaying' /\ Pressing'
  PROVE  Accounted'
<1>1. Queued
  BY Zenon, Parts
<1>2. off' = off /\ cur' = cur /\ firing' = firing /\ calm' = calm
  BY Zenon
<1>3. DOMAIN st' = Queries /\ st'[q] = v /\ \A r \in Queries \ {q} : st'[r] = st[r]
  BY Zenon, <1>1 DEF Becomes, Queued
<1>4. Alone(q)
  BY Zenon, <1>1, <1>2, <1>3 DEF Alone, Queued
<1>5. Kept(st[q], tok[q], ses[q], q \in watches, calm[q], off)'
  BY Zenon, <1>2, <1>3
<1>6. Queued'
  BY Zenon, <1>1, <1>2, <1>4, <1>5, OneQuery
<1> QED BY Zenon, <1>6, Whole

\* The slots of pressure after a step that keeps q's.
LEMMA KeepsSlot ==
  ASSUME Accounted, NEW q \in Queries, NEW STATE v, Becomes(q, v), v.held = st[q].held,
         inflight' = inflight
  PROVE  Pressing'
<1>1. st'[q] = v /\ \A r \in Queries \ {q} : st'[r] = st[r]
  BY Zenon DEF Becomes, Accounted
<1>2. \A r \in Queries : st'[r].held = st[r].held
  BY Zenon, <1>1
<1> QED BY Zenon, <1>2, Parts, SameSlots

LEMMA NewSessionKeeps ==
  ASSUME Accounted, NEW q \in Queries, NewSession(q)
  PROVE  Accounted'
<1> DEFINE k == st[q]
           v == [k EXCEPT !.pc = "enter", !.phase = "before"]
<1>1. Kept(k, tok[q], ses[q], q \in watches, calm[q], off) /\ DOMAIN k = Fields /\ k.pc = "watch"
  BY Zenon, Known DEF NewSession, At
<1>2. /\ off' = off /\ cur' = cur /\ global' = global /\ perPolicy' = perPolicy
      /\ inflight' = inflight /\ tok' = tok /\ ses' = ses /\ firing' = firing /\ calm' = calm
      /\ watches' = watches \cup {q}
  BY Zenon DEF NewSession, budget, admin
<1>3. Becomes(q, v)
  BY Zenon DEF Becomes, NewSession, Accounted
<1>4. /\ DOMAIN v = Fields /\ v.pc = "enter" /\ v.snap = k.snap /\ v.pre = k.pre /\ v.post = k.post
      /\ v.phase = "before" /\ v.todo = k.todo /\ v.held = k.held
      /\ v.res = k.res /\ v.base = k.base /\ v.sent = k.sent
  BY Zenon, <1>1 DEF Fields
<1> HIDE DEF v
<1>5. Unlimited(v) /\ Unlimited(k) /\ (Plain(k) => Plain(v))
  BY Zenon, <1>1, <1>4 DEF Unlimited, Plain
<1>6. Kept(v, tok'[q], ses[q], q \in watches', calm[q], off)
  BY Zenon, <1>1, <1>2, <1>4, <1>5 DEF Kept, Phases
<1>7. DOMAIN tok' = Queries /\ DOMAIN ses' = Queries /\ watches' \subseteq Queries
  BY Zenon, <1>2 DEF Accounted
<1>8. Delaying' /\ PolicyDelaying'
  BY Zenon, <1>2, Parts, SameTokens
<1>9. Pressing'
  BY Zenon, <1>2, <1>3, <1>4, KeepsSlot
<1>10. /\ ses'[q] = ses[q] /\ \A r \in Queries \ {q} : ses'[r] = ses[r] /\ tok'[r] = tok[r]
       /\ \A r \in Queries \ {q} : r \in watches' <=> r \in watches
  BY Zenon, <1>2
<1> QED BY Zenon, <1>2, <1>3, <1>6, <1>7, <1>8, <1>9, <1>10, WithSession

LEMMA CancelledKeeps ==
  ASSUME Accounted, NEW q \in Queries, Cancelled(q)
  PROVE  Accounted'
<1> DEFINE k == st[q]
           s == ses[q]
           v == [k EXCEPT !.pc = "loop"]
           z == [s EXCEPT !.stopped = TRUE]
<1>1. Kept(k, tok[q], s, q \in watches, calm[q], off) /\ DOMAIN k = Fields /\ k.pc \in {"sleep", "wait"}
  BY Zenon, Known DEF Cancelled, At
<1>2. /\ off' = off /\ cur' = cur /\ global' = global /\ perPolicy' = perPolicy
      /\ inflight' = inflight /\ tok' = tok /\ firing' = firing /\ calm' = calm /\ watches' = watches
  BY Zenon DEF Cancelled, budget, admin
<1>3. /\ Becomes(q, v) /\ DOMAIN ses' = Queries /\ ses'[q] = z
      /\ \A r \in Queries \ {q} : ses'[r] = ses[r]
  BY Zenon DEF Becomes, Cancelled, Goto, Accounted
<1>4. /\ DOMAIN v = Fields /\ v.pc = "loop" /\ v.snap = k.snap /\ v.pre = k.pre /\ v.post = k.post
      /\ v.phase = k.phase /\ v.todo = k.todo /\ v.held = k.held
      /\ v.res = k.res /\ v.base = k.base /\ v.sent = k.sent
  BY Zenon, <1>1 DEF Fields
<1>5. DOMAIN s = {"skipped", "stopped", "cancelled", "delayed", "spent"}
  BY Zenon, <1>1 DEF Kept, Fresh
<1>6. DOMAIN z = DOMAIN s /\ z.delayed = s.delayed /\ z.spent = s.spent
  BY Zenon, <1>5
<1> HIDE DEF v, z
<1>7. (Unlimited(v) => Unlimited(k)) /\ (Plain(k) => Plain(v))
  BY Zenon, <1>1, <1>4 DEF Unlimited, Plain
<1>8. Kept(k, tok[q], z, q \in watches, calm[q], off)
  <2>1. Within(k.snap.caps, s)
    BY Zenon, <1>1 DEF Kept
  <2>2. Within(k.snap.caps, z)
    BY Zenon, <1>6, <2>1 DEF Within
  <2> QED BY Zenon, <1>1, <1>6, <2>2 DEF Kept
<1>9. Kept(v, tok[q], z, q \in watches, calm[q], off)
  BY Zenon, <1>1, <1>4, <1>7, <1>8, Moved DEF Kept
<1>10. DOMAIN tok' = Queries /\ watches' \subseteq Queries
  BY Zenon, <1>2 DEF Accounted
<1>11. Delaying' /\ PolicyDelaying'
  BY Zenon, <1>2, Parts, SameTokens
<1>12. Pressing'
  BY Zenon, <1>2, <1>3, <1>4, KeepsSlot
<1>13. /\ \A r \in Queries \ {q} : tok'[r] = tok[r]
       /\ \A r \in Queries \ {q} : r \in watches' <=> r \in watches
  BY Zenon, <1>2
<1>14. Kept(v, tok'[q], z, q \in watches', calm[q], off)
  BY Zenon, <1>2, <1>9
<1> QED BY Zenon, <1>2, <1>3, <1>10, <1>11, <1>12, <1>13, <1>14, WithSession

LEMMA LeaveLoopKeeps ==
  ASSUME Accounted, NEW q \in Queries, st[q].pc = "loop", LeaveLoop(q),
         UNCHANGED <<off, cur, watches, inflight, firing, calm>>
  PROVE  Accounted'
<1> DEFINE k == st[q]
           l == After(q)
           f == IF k.phase = "after" THEN "response" ELSE k.phase
           v == [k EXCEPT !.pc = l, !.todo = <<>>, !.phase = f]
<1>1. Kept(k, tok[q], ses[q], q \in watches, calm[q], off) /\ DOMAIN k = Fields /\ k.phase \in Phases
  BY Zenon, Known DEF Kept
<1>2. UNCHANGED Others
  BY Zenon DEF LeaveLoop, Others
<1>3. Becomes(q, v)
  BY Zenon DEF Becomes, LeaveLoop, Accounted
<1>4. /\ k.phase = "before" => l = "check"
      /\ k.phase = "upstream" => l = "exchange"
      /\ k.phase = "after" => l = "enter"
      /\ k.phase = "response" => l = "final"
  BY DEF After
<1>5. f \in Phases /\ (f = "before" => k.phase = "before")
  BY Zenon, <1>1 DEF Phases
<1> HIDE DEF l, f
<1>6. l \in {"check", "exchange", "enter", "final"} /\ (l = "check" => k.phase = "before")
  BY Zenon, <1>1, <1>4 DEF Phases
<1>7. /\ DOMAIN v = Fields /\ v.pc = l /\ v.snap = k.snap /\ v.pre = k.pre /\ v.post = k.post
      /\ v.phase = f /\ v.todo = <<>> /\ v.held = k.held
      /\ v.res = k.res /\ v.base = k.base /\ v.sent = k.sent
  BY Zenon, <1>1 DEF Fields
<1> HIDE DEF v
<1>8. Unlimited(v) => Unlimited(k)
  BY Zenon, <1>5, <1>6, <1>7 DEF Unlimited
<1>9. calm[q] => /\ v.pre = NoPre /\ v.post = NoPost /\ v.todo = <<>>
                 /\ v.res \in {"none", "base"} /\ v.base \in {"none", "base"}
  BY Zenon, <1>1, <1>7 DEF Kept, Plain
<1>10. v.todo \in Seq(Actions) /\ v.pc \notin {"load", "decide", "watch", "done", "free"}
  BY <1>6, <1>7
<1> QED BY Zenon, <1>1, <1>2, <1>3, <1>5, <1>7, <1>8, <1>9, <1>10, NoteKeeps DEF Kept

\* A delay d fits what u has left of the limit c.
Fits(d, c, u) == c > 0 => d + u <= c

\* What clampDelay leaves of a delay fits both limits.
LEMMA ClampedFits ==
  ASSUME NEW STATE d, NEW STATE d0, NEW STATE c1, NEW STATE c2, NEW STATE u1, NEW STATE u2,
         d0 \in Nat, c1 \in Nat, c2 \in Nat, u1 \in Nat, u2 \in Nat,
         d = Limited(Limited(d0, c1, u1), c2, u2), d > 0
  PROVE  d \in Nat /\ Fits(d, c1, u1) /\ Fits(d, c2, u2)
BY DEF Limited, Least, Fits

\* The delay ceilings of a snapshot.
LEMMA CapParts ==
  ASSUME NEW STATE c, c \in Caps
  PROVE  c.delay \in Nat /\ c.policyDelay \in [Policies -> Nat]
BY Zenon, CapsAssumption

\* Session z is s after it slept d, which fits the limits c, for policy p.
Spends(c, z, s, p, d) ==
    /\ c \in Caps /\ Within(c, s) /\ Fits(d, c.delay, s.delayed) /\ Fits(d, c.policyDelay[p], s.spent[p])
    /\ s.delayed \in Nat /\ s.spent \in [Policies -> Nat] /\ p \in Policies /\ d \in Nat
    /\ z.delayed = s.delayed + d /\ z.spent = [s.spent EXCEPT ![p] = s.spent[p] + d]

\* A delay cut to what is left fits the request's and the policy's ceiling.
LEMMA SpentFits ==
  ASSUME NEW STATE c, NEW STATE s, NEW STATE z, NEW STATE p, NEW STATE d,
         Spends(c, z, s, p, d)
  PROVE  z.delayed \in Nat /\ z.spent \in [Policies -> Nat] /\ Within(c, z)
<1> USE DEF Spends
<1>0. c.delay \in Nat /\ c.policyDelay \in [Policies -> Nat]
  BY Zenon, CapParts
<1>1. z.delayed \in Nat /\ (c.delay > 0 => z.delayed <= c.delay)
  BY <1>0 DEF Fits
<1>2. ASSUME NEW x \in Policies
      PROVE  z.spent[x] \in Nat /\ (c.policyDelay[x] > 0 => z.spent[x] <= c.policyDelay[x])
  <2>1. CASE x = p
    <3>1. z.spent[x] = s.spent[p] + d /\ s.spent[p] \in Nat
      BY Zenon, <2>1
    <3> QED BY <1>0, <2>1, <3>1 DEF Fits
  <2>2. CASE x # p
    <3>1. z.spent[x] = s.spent[x] /\ s.spent[x] \in Nat
      BY Zenon, <2>2
    <3> QED BY Zenon, <3>1 DEF Within
  <2> QED BY Zenon, <2>1, <2>2
<1>3. z.spent \in [Policies -> Nat]
  BY Zenon, <1>2
<1> QED BY Zenon, <1>1, <1>2, <1>3 DEF Within

\* The next delay is of a policy.
LEMMA HeadOfTodo ==
  ASSUME NEW STATE todo, todo \in Seq(Actions), todo # <<>>
  PROVE  /\ Tail(todo) \in Seq(Actions)
         /\ Head(todo).policy \in Policies /\ Head(todo).delay \in Nat
<1>1. Tail(todo) \in Seq(Actions) /\ Head(todo) \in Actions
  OBVIOUS
<1> QED BY Zenon, <1>1 DEF Actions

\* An action is passed over: nothing of its delay is left.
LEMMA PassKeeps ==
  ASSUME Accounted, NEW q \in Queries, st[q].pc = "loop", st[q].todo # <<>>,
         st' = [st EXCEPT ![q].todo = Tail(@)], UNCHANGED Others
  PROVE  Accounted'
<1> DEFINE k == st[q]
           n == Tail(k.todo)
           v == [k EXCEPT !.todo = n]
<1>1. /\ Kept(k, tok[q], ses[q], q \in watches, calm[q], off) /\ DOMAIN k = Fields /\ ~calm[q]
      /\ k.todo \in Seq(Actions)
  BY Zenon, Known DEF Kept, Plain
<1>2. Becomes(q, v)
  BY Zenon DEF Becomes, Accounted
<1>3. n \in Seq(Actions)
  BY Zenon, <1>1, HeadOfTodo
<1> HIDE DEF n
<1>4. /\ DOMAIN v = Fields /\ v.pc = "loop" /\ v.snap = k.snap /\ v.pre = k.pre /\ v.post = k.post
      /\ v.phase = k.phase /\ v.todo = n /\ v.held = k.held /\ v.sent = k.sent
  BY Zenon, <1>1 DEF Fields
<1> HIDE DEF v
<1>5. Unlimited(v) => Unlimited(k)
  BY Zenon, <1>4 DEF Unlimited
<1> QED BY Zenon, <1>1, <1>2, <1>3, <1>4, <1>5, NoteKeeps DEF Kept

\* No budget: the rest of the request's delays is skipped.
LEMMA SkipKeeps ==
  ASSUME Accounted, NEW q \in Queries, ses' = [ses EXCEPT ![q].skipped = TRUE],
         UNCHANGED <<off, cur, budget, watches, inflight, st, tok, firing, calm>>
  PROVE  Accounted'
<1> DEFINE s == ses[q]
           z == [s EXCEPT !.skipped = TRUE]
<1>1. Queued /\ Delaying /\ PolicyDelaying /\ Pressing
  BY Zenon, Parts
<1>2. Kept(st[q], tok[q], s, q \in watches, calm[q], off)
  BY Zenon, Known
<1>3. /\ off' = off /\ cur' = cur /\ global' = global /\ perPolicy' = perPolicy /\ st' = st
      /\ inflight' = inflight /\ tok' = tok /\ firing' = firing /\ calm' = calm /\ watches' = watches
  BY Zenon DEF budget
<1>4. DOMAIN ses' = Queries /\ ses'[q] = z /\ \A r \in Queries \ {q} : ses'[r] = ses[r]
  BY Zenon, <1>1 DEF Queued
<1>5. DOMAIN s = {"skipped", "stopped", "cancelled", "delayed", "spent"}
  BY Zenon, <1>2 DEF Kept, Fresh
<1>6. DOMAIN z = DOMAIN s /\ z.delayed = s.delayed /\ z.spent = s.spent
  BY Zenon, <1>5
<1> HIDE DEF z
<1>7. Within(st[q].snap.caps, s)
  BY Zenon, <1>2 DEF Kept
<1>8. Within(st[q].snap.caps, z)
  BY Zenon, <1>6, <1>7 DEF Within
<1>9. Kept(st[q], tok[q], z, q \in watches, calm[q], off)
  BY Zenon, <1>2, <1>6, <1>8 DEF Kept
<1>10. Kept(st[q], tok[q], ses[q], q \in watches, calm[q], off)'
  BY Zenon, <1>3, <1>4, <1>9
<1>11. Alone(q)
  BY Zenon, <1>1, <1>3, <1>4 DEF Alone, Queued
<1>12. Queued'
  BY Zenon, <1>1, <1>3, <1>10, <1>11, OneQuery DEF Queued
<1>13. Delaying' /\ PolicyDelaying' /\ Pressing'
  BY Zenon, <1>1, <1>3, SameTokens, SameSlots
<1> QED BY Zenon, <1>12, <1>13, Whole

\* The delay is reserved and begins.
LEMMA SleepKeeps ==
  ASSUME Accounted, NEW q \in Queries, st[q].pc = "loop", st[q].todo # <<>>,
         NEW STATE p, p = Head(st[q].todo).policy, NEW STATE d, d = Clamped(q, Head(st[q].todo)), d > 0,
         Reserve(q, p), ses' = [ses EXCEPT ![q].delayed = @ + d, ![q].spent[p] = @ + d],
         st' = [st EXCEPT ![q].pc = "sleep", ![q].todo = Tail(@)],
         UNCHANGED <<off, cur, watches, inflight, firing, calm>>
  PROVE  Accounted'
<1> DEFINE k == st[q]
           s == ses[q]
           c == k.snap.caps
           n == Tail(k.todo)
           v == [k EXCEPT !.pc = "sleep", !.todo = n]
           e == [s.spent EXCEPT ![p] = s.spent[p] + d]
           z == [s EXCEPT !.delayed = s.delayed + d, !.spent = e]
<1>1. /\ Kept(k, tok[q], s, q \in watches, calm[q], off) /\ DOMAIN k = Fields /\ ~calm[q]
      /\ k.todo \in Seq(Actions) /\ c \in Caps /\ Within(c, s)
      /\ s.delayed \in Nat /\ s.spent \in [Policies -> Nat]
  BY Zenon, Known DEF Kept, Plain
<1>2. DOMAIN s = {"skipped", "stopped", "cancelled", "delayed", "spent"}
  BY Zenon, <1>1 DEF Kept, Fresh
<1>3. n \in Seq(Actions) /\ p \in Policies /\ Head(k.todo).delay \in Nat
  BY Zenon, <1>1, HeadOfTodo
<1>4. c.delay \in Nat /\ c.policyDelay \in [Policies -> Nat]
  BY Zenon, <1>1, CapParts
<1>5. d \in Nat /\ Fits(d, c.delay, s.delayed) /\ Fits(d, c.policyDelay[p], s.spent[p])
  <2>1. c.policyDelay[p] \in Nat /\ s.spent[p] \in Nat
    BY Zenon, <1>1, <1>3, <1>4
  <2>2. d = Limited(Limited(Head(k.todo).delay, c.delay, s.delayed), c.policyDelay[p], s.spent[p])
    BY Zenon DEF Clamped
  <2> QED BY Zenon, <1>1, <1>3, <1>4, <2>1, <2>2, ClampedFits
<1>6. Becomes(q, v)
  BY Zenon DEF Becomes, Accounted
<1>7. DOMAIN ses' = Queries /\ ses'[q] = z /\ \A r \in Queries \ {q} : ses'[r] = ses[r]
  BY Zenon, <1>2 DEF Accounted
<1>8. DOMAIN z = DOMAIN Fresh /\ z.delayed = s.delayed + d /\ z.spent = e
  BY Zenon, <1>1, <1>2 DEF Kept
<1> HIDE DEF n, z
<1>9. /\ DOMAIN v = Fields /\ v.pc = "sleep" /\ v.snap = k.snap /\ v.pre = k.pre /\ v.post = k.post
      /\ v.phase = k.phase /\ v.todo = n /\ v.held = k.held
  BY Zenon, <1>1 DEF Fields
<1> HIDE DEF v
<1>10. z.delayed \in Nat /\ z.spent \in [Policies -> Nat] /\ Within(c, z)
  <2>1. Spends(c, z, s, p, d)
    BY Zenon, <1>1, <1>3, <1>5, <1>8 DEF Spends
  <2> QED BY Zenon, <2>1, SpentFits
<1>11. Unlimited(v) => Unlimited(k)
  BY Zenon, <1>9 DEF Unlimited
<1>12. /\ DOMAIN tok' = Queries /\ tok'[q] = tok[q] \cup {p}
       /\ \A r \in Queries \ {q} : tok'[r] = tok[r]
  BY Zenon DEF Reserve, Accounted
<1>13. tok'[q] \subseteq Policies
  BY Zenon, <1>1, <1>3, <1>12 DEF Kept
<1>14. Kept(v, tok'[q], z, q \in watches', calm[q], off)
  BY Zenon, <1>1, <1>3, <1>8, <1>9, <1>10, <1>11, <1>13 DEF Kept
<1>15. Delaying' /\ PolicyDelaying'
  <2>1. Delaying /\ PolicyDelaying /\ DOMAIN tok = Queries
    BY Zenon, Parts DEF Accounted
  <2> QED BY Zenon, <1>3, <2>1, Reserves
<1>16. Pressing'
  BY Zenon, <1>6, <1>9, KeepsSlot
<1>17. watches' \subseteq Queries /\ \A r \in Queries \ {q} : r \in watches' <=> r \in watches
  BY Zenon DEF Accounted
<1> QED BY Zenon, <1>6, <1>7, <1>12, <1>14, <1>15, <1>16, <1>17, WithSession

LEMMA SleepOneKeeps ==
  ASSUME Accounted, NEW q \in Queries, SleepOne(q)
  PROVE  Accounted'
<1> DEFINE a == Head(st[q].todo)
           d == Clamped(q, a)
<1>1. st[q].pc = "loop" /\ UNCHANGED <<off, cur, watches, inflight, firing, calm>>
  BY Zenon DEF SleepOne, At, admin
<1>2. CASE LeaveLoop(q)
  BY Zenon, <1>1, <1>2, LeaveLoopKeeps
<1>3. CASE st[q].todo # <<>> /\ st' = [st EXCEPT ![q].todo = Tail(@)] /\ UNCHANGED <<budget, tok, ses>>
  BY Zenon, <1>1, <1>3, PassKeeps DEF Others
<1>4. CASE ses' = [ses EXCEPT ![q].skipped = TRUE] /\ UNCHANGED <<budget, tok, st>>
  BY Zenon, <1>1, <1>4, SkipKeeps
<1>5. CASE /\ st[q].todo # <<>> /\ d > 0 /\ Reserve(q, a.policy)
           /\ ses' = [ses EXCEPT ![q].delayed = @ + d, ![q].spent[a.policy] = @ + d]
           /\ st' = [st EXCEPT ![q].pc = "sleep", ![q].todo = Tail(@)]
  BY Zenon, <1>1, <1>5, SleepKeeps
<1> QED BY Zenon, <1>2, <1>3, <1>4, <1>5 DEF SleepOne

\* CheckPressure takes a slot.
LEMMA AdmitKeeps ==
  ASSUME Accounted, NEW q \in Queries, NEW STATE p, p \in Policies, st[q].pc = "limit", ~calm[q],
         inflight' = [inflight EXCEPT ![p] = @ + 1],
         st' = [st EXCEPT ![q].pc = "answer", ![q].held = p],
         UNCHANGED <<off, cur, budget, watches, tok, ses, firing, calm>>
  PROVE  Accounted'
<1> DEFINE k == st[q]
           v == [k EXCEPT !.pc = "answer", !.held = p]
<1>1. Queued /\ Delaying /\ PolicyDelaying /\ Pressing
  BY Zenon, Parts
<1>2. Kept(k, tok[q], ses[q], q \in watches, calm[q], off) /\ DOMAIN k = Fields /\ k.held = Nil
  BY Zenon, Known DEF Kept, Unlimited
<1>3. Becomes(q, v)
  BY Zenon, <1>1 DEF Becomes, Queued
<1>4. /\ DOMAIN v = Fields /\ v.pc = "answer" /\ v.snap = k.snap /\ v.pre = k.pre /\ v.post = k.post
      /\ v.phase = k.phase /\ v.todo = k.todo /\ v.held = p
  BY Zenon, <1>2 DEF Fields
<1> HIDE DEF v
<1>5. ~Unlimited(v)
  BY Zenon, <1>4 DEF Unlimited
<1>6. Kept(v, tok[q], ses[q], q \in watches, calm[q], off)
  BY Zenon, <1>2, <1>4, <1>5 DEF Kept
<1>7. st'[q] = v /\ \A r \in Queries \ {q} : st'[r] = st[r]
  BY Zenon, <1>1, <1>3 DEF Becomes, Queued
<1>8. Pressing'
  <2>1. st'[q].held = p /\ \A r \in Queries \ {q} : st'[r].held = st[r].held
    BY Zenon, <1>4, <1>7
  <2> QED BY Zenon, <1>1, <1>2, <2>1, TakesSlot
<1>9. global' = global /\ perPolicy' = perPolicy /\ tok' = tok /\ ses' = ses /\ watches' = watches
  BY Zenon DEF budget
<1>10. Delaying' /\ PolicyDelaying'
  BY Zenon, <1>1, <1>9, SameTokens
<1>11. /\ DOMAIN tok' = Queries /\ DOMAIN ses' = Queries /\ watches' \subseteq Queries
       /\ ses'[q] = ses[q] /\ \A r \in Queries \ {q} : ses'[r] = ses[r] /\ tok'[r] = tok[r]
       /\ \A r \in Queries \ {q} : r \in watches' <=> r \in watches
  BY Zenon, <1>1, <1>9 DEF Queued
<1>12. Kept(v, tok'[q], ses[q], q \in watches', calm[q], off)
  BY Zenon, <1>6, <1>9
<1> QED BY Zenon, <1>3, <1>8, <1>10, <1>11, <1>12, WithSession

LEMMA LimitKeeps ==
  ASSUME Accounted, NEW q \in Queries, Limit(q)
  PROVE  Accounted'
<1> DEFINE p == st[q].pre.limit
<1>1. st[q].pc = "limit" /\ UNCHANGED <<off, cur, budget, watches, tok, ses, firing, calm>>
  BY Zenon DEF Limit, At, admin
<1>2. CASE Goto(q, "answer") /\ UNCHANGED inflight
  BY Zenon, <1>1, <1>2, GotoKeeps DEF Others
<1>3. Pressed(q) => ~calm[q]
  BY Zenon, CalmPlan DEF Pressed
<1>4. CASE Pressed(q) /\ Send(q, "limited") /\ UNCHANGED inflight
  BY Zenon, <1>1, <1>3, <1>4, SendKeeps DEF Others
<1>5. CASE /\ Pressed(q) /\ inflight' = [inflight EXCEPT ![p] = @ + 1]
           /\ st' = [st EXCEPT ![q].pc = "answer", ![q].held = p]
  <2>1. st[q].pre \in PrePlans \cup {NoPre} /\ st[q].post \in PostPlans \cup {NoPost}
    BY Zenon, Known DEF Kept
  <2>2. p \in Policies
    BY Zenon, <1>5, <2>1, PlanParts DEF Pressed
  <2> QED BY Zenon, <1>1, <1>3, <1>5, <2>2, AdmitKeeps
<1> QED BY Zenon, <1>2, <1>4, <1>5 DEF Limit

LEMMA UnwatchKeeps ==
  ASSUME Accounted, NEW q \in Queries, Unwatch(q)
  PROVE  Accounted'
<1> DEFINE k == st[q]
           p == k.held
           v == [k EXCEPT !.pc = "free", !.held = Nil]
<1>1. Queued /\ Delaying /\ PolicyDelaying /\ Pressing
  BY Zenon, Parts
<1>2. /\ Kept(k, tok[q], ses[q], q \in watches, calm[q], off) /\ DOMAIN k = Fields
      /\ p \in Policies \cup {Nil}
  BY Zenon, Known DEF Kept
<1>3. Becomes(q, v)
  BY Zenon, <1>1 DEF Becomes, Unwatch, Queued
<1>4. /\ global' = global /\ perPolicy' = perPolicy /\ tok' = tok /\ ses' = ses
      /\ watches' = watches \ {q} /\ UNCHANGED <<off, cur, firing, calm>>
      /\ inflight' = IF p = Nil THEN inflight ELSE [inflight EXCEPT ![p] = @ - 1]
  BY Zenon DEF Unwatch, budget, admin
<1>5. /\ DOMAIN v = Fields /\ v.pc = "free" /\ v.snap = k.snap /\ v.pre = k.pre /\ v.post = k.post
      /\ v.phase = k.phase /\ v.todo = k.todo /\ v.held = Nil
      /\ v.res = k.res /\ v.base = k.base /\ v.sent = k.sent
  BY Zenon, <1>2 DEF Fields
<1> HIDE DEF v
<1>6. Plain(k) => Plain(v)
  BY Zenon, <1>5 DEF Plain
<1>7. Kept(v, tok[q], ses[q], q \in watches', calm[q], off)
  BY Zenon, <1>2, <1>4, <1>5, <1>6 DEF Kept
<1>8. st'[q] = v /\ \A r \in Queries \ {q} : st'[r] = st[r]
  BY Zenon, <1>1, <1>3 DEF Becomes, Queued
<1>9. st'[q].held = Nil /\ \A r \in Queries \ {q} : st'[r].held = st[r].held
  BY Zenon, <1>5, <1>8
<1>10. Pressing'
  <2>1. CASE p = Nil
    <3>1. inflight' = inflight /\ \A r \in Queries : st'[r].held = st[r].held
      BY Zenon, <1>4, <1>9, <2>1
    <3> QED BY Zenon, <1>1, <3>1, SameSlots
  <2>2. CASE p # Nil
    <3>1. p \in Policies /\ inflight' = [inflight EXCEPT ![p] = @ - 1]
      BY Zenon, <1>2, <1>4, <2>2
    <3> QED BY Zenon, <1>1, <1>9, <3>1, GivesSlot
  <2> QED BY Zenon, <2>1, <2>2
<1>11. Delaying' /\ PolicyDelaying'
  BY Zenon, <1>1, <1>4, SameTokens
<1>12. /\ DOMAIN tok' = Queries /\ DOMAIN ses' = Queries /\ watches' \subseteq Queries
       /\ ses'[q] = ses[q] /\ \A r \in Queries \ {q} : ses'[r] = ses[r] /\ tok'[r] = tok[r]
       /\ \A r \in Queries \ {q} : r \in watches' <=> r \in watches
  BY Zenon, <1>1, <1>4 DEF Queued
<1>13. Kept(v, tok'[q], ses[q], q \in watches', calm[q], off)
  BY Zenon, <1>4, <1>7
<1> QED BY Zenon, <1>3, <1>4, <1>10, <1>11, <1>12, <1>13, WithSession

\* A new session has spent nothing.
LEMMA FreshFits ==
  /\ Fresh.delayed = 0 /\ Fresh.delayed \in Nat /\ Fresh.spent = [p \in Policies |-> 0]
  /\ Fresh.spent \in [Policies -> Nat] /\ \A c \in Caps : Within(c, Fresh)
<1>1. Fresh.delayed = 0 /\ Fresh.spent = [p \in Policies |-> 0]
  BY Zenon DEF Fresh
<1>2. ASSUME NEW c \in Caps PROVE Within(c, Fresh)
  <2>1. c.delay \in Nat /\ c.policyDelay \in [Policies -> Nat]
    BY Zenon, CapParts
  <2> QED BY <1>1, <2>1 DEF Within
<1>3. Fresh.delayed \in Nat /\ Fresh.spent \in [Policies -> Nat]
  BY <1>1
<1> QED BY Zenon, <1>1, <1>2, <1>3

LEMMA ReleaseKeeps ==
  ASSUME Accounted, NEW q \in Queries, Release(q)
  PROVE  Accounted'
<1> DEFINE k == st[q]
           v == [k EXCEPT !.pc = "done"]
<1>1. Queued /\ Delaying /\ PolicyDelaying /\ Pressing
  BY Zenon, Parts
<1>2. /\ Kept(k, tok[q], ses[q], q \in watches, calm[q], off) /\ DOMAIN k = Fields
      /\ k.pc = "free" /\ q \notin watches /\ k.held = Nil /\ k.snap.caps \in Caps
  BY Zenon, Known DEF Kept, Unlimited, Release, At
<1>3. Becomes(q, v)
  BY Zenon, <1>1 DEF Becomes, Release, Goto, Queued
<1>4. watches' = watches /\ inflight' = inflight /\ UNCHANGED <<off, cur, firing, calm>>
  BY Zenon DEF Release, admin
<1>5. /\ DOMAIN tok' = Queries /\ DOMAIN ses' = Queries /\ tok'[q] = {} /\ ses'[q] = Fresh
      /\ \A r \in Queries \ {q} : ses'[r] = ses[r] /\ tok'[r] = tok[r]
  BY Zenon, <1>1 DEF Release, Queued
<1>6. /\ DOMAIN v = Fields /\ v.pc = "done" /\ v.snap = k.snap /\ v.pre = k.pre /\ v.post = k.post
      /\ v.phase = k.phase /\ v.todo = k.todo /\ v.held = k.held
      /\ v.res = k.res /\ v.base = k.base /\ v.sent = k.sent
  BY Zenon, <1>2 DEF Fields
<1> HIDE DEF v
<1>7. Plain(k) => Plain(v)
  BY Zenon, <1>6 DEF Plain
<1>8. Fresh.delayed \in Nat /\ Fresh.spent \in [Policies -> Nat] /\ Within(k.snap.caps, Fresh)
  BY Zenon, <1>2, FreshFits
<1>9. Kept(v, tok'[q], Fresh, q \in watches', calm[q], off)
  BY Zenon, <1>2, <1>4, <1>5, <1>6, <1>7, <1>8 DEF Kept
<1>10. Pressing'
  BY Zenon, <1>3, <1>4, <1>6, KeepsSlot
<1>11. Delaying' /\ PolicyDelaying'
  BY Zenon, <1>1, Releases DEF Queued
<1>12. watches' \subseteq Queries /\ \A r \in Queries \ {q} : r \in watches' <=> r \in watches
  BY Zenon, <1>1, <1>4 DEF Queued
<1> QED BY Zenon, <1>3, <1>4, <1>5, <1>9, <1>10, <1>11, <1>12, WithSession

LEMMA EndContextKeeps ==
  ASSUME Accounted, NEW q \in Queries, NEW why, EndContext(q, why)
  PROVE  Accounted'
<1> DEFINE k == st[q]
           v == [k EXCEPT !.ctx = why]
<1>1. Kept(k, tok[q], ses[q], q \in watches, calm[q], off) /\ DOMAIN k = Fields
  BY Zenon, Known
<1>2. UNCHANGED Others
  BY Zenon DEF EndContext, Others, budget, admin
<1>3. Becomes(q, v)
  BY Zenon DEF Becomes, EndContext, Accounted
<1>4. DOMAIN v = Fields /\ v.held = k.held /\ \A f \in Fields \ {"ctx"} : v[f] = k[f]
  BY Zenon, <1>1 DEF Fields
<1> HIDE DEF v
<1>5. Kept(v, tok[q], ses[q], q \in watches, calm[q], off)
  BY Zenon, <1>1, <1>4, SameButContext
<1> QED BY Zenon, <1>2, <1>3, <1>4, <1>5, Locally

LEMMA ShutdownKeeps ==
  ASSUME Accounted, Shutdown
  PROVE  Accounted'
<1>1. Queued /\ Delaying /\ PolicyDelaying /\ Pressing
  BY Zenon, Parts
<1>2. /\ off' = off /\ cur' = cur /\ global' = global /\ perPolicy' = perPolicy /\ watches' = watches
      /\ inflight' = inflight /\ tok' = tok /\ ses' = ses /\ firing' = firing /\ calm' = calm
  BY Zenon DEF Shutdown, budget, admin
<1>3. ASSUME NEW q \in Queries
      PROVE  Kept(st[q], tok[q], ses[q], q \in watches, calm[q], off)' /\ st'[q].held = st[q].held
  <2> DEFINE k == st[q]
             v == IF k.ctx = "live" THEN [k EXCEPT !.ctx = "cancelled"] ELSE k
  <2>1. Kept(k, tok[q], ses[q], q \in watches, calm[q], off) /\ DOMAIN k = Fields
    BY Zenon, Known
  <2>2. st'[q] = v
    BY Zenon DEF Shutdown
  <2>3. DOMAIN v = Fields /\ v.held = k.held /\ \A f \in Fields \ {"ctx"} : v[f] = k[f]
    BY Zenon, <2>1 DEF Fields
  <2> HIDE DEF v
  <2>4. Kept(v, tok[q], ses[q], q \in watches, calm[q], off)
    BY Zenon, <2>1, <2>3, SameButContext
  <2> QED BY Zenon, <1>2, <2>2, <2>3, <2>4
<1>4. DOMAIN st' = Queries
  BY Zenon DEF Shutdown
<1>5. Queued'
  BY Zenon, <1>1, <1>2, <1>3, <1>4 DEF Queued
<1>6. Delaying' /\ PolicyDelaying' /\ Pressing'
  BY Zenon, <1>1, <1>2, <1>3, SameTokens, SameSlots
<1> QED BY Zenon, <1>5, <1>6, Whole

-----------------------------------------------------------------------------
(* The administration takes watches, cancels sessions, publishes limits    *)
(* and sets or clears the emergency bit.                                   *)

\* An administrative step changes the limits of later queries and the count of nobody.
LEMMA Governed ==
  ASSUME Accounted, UNCHANGED <<budget, inflight, st, tok>>,
         cur'.caps \in Caps, watches' \subseteq watches,
         DOMAIN ses' = Queries,
         \A q \in Queries : /\ DOMAIN ses'[q] = DOMAIN ses[q] /\ ses'[q].delayed = ses[q].delayed
                            /\ ses'[q].spent = ses[q].spent,
         DOMAIN calm' = Queries, \A q \in Queries : calm'[q] => calm[q] /\ off',
         DOMAIN firing' = Admins, \A a \in Admins : firing'[a] \subseteq Queries
  PROVE  Accounted'
<1>1. Queued /\ Delaying /\ PolicyDelaying /\ Pressing
  BY Zenon, Parts
<1>2. global' = global /\ perPolicy' = perPolicy /\ inflight' = inflight /\ st' = st /\ tok' = tok
  BY Zenon DEF budget
<1>3. ASSUME NEW q \in Queries
      PROVE  Kept(st[q], tok[q], ses[q], q \in watches, calm[q], off)'
  <2>1. Kept(st[q], tok[q], ses[q], q \in watches, calm[q], off)
    BY Zenon, Known
  <2>2. Within(st[q].snap.caps, ses[q])
    BY Zenon, <2>1 DEF Kept
  <2>3. Within(st[q].snap.caps, ses'[q])
    BY Zenon, <2>2 DEF Within
  <2>4. Kept(st[q], tok[q], ses'[q], q \in watches', calm'[q], off')
    BY Zenon, <2>1, <2>3 DEF Kept
  <2> QED BY Zenon, <1>2, <2>4
<1>4. Queued'
  BY Zenon, <1>1, <1>2, <1>3 DEF Queued
<1>5. Delaying' /\ PolicyDelaying' /\ Pressing'
  BY Zenon, <1>1, <1>2, SameTokens, SameSlots
<1> QED BY Zenon, <1>4, <1>5, Whole

\* While the disable lasts the bit is set.
LEMMA CalmMeansOff ==
  ASSUME Accounted, NEW q \in Queries, calm[q]
  PROVE  off
BY Zenon, Known DEF Kept

LEMMA StartOpKeeps ==
  ASSUME Accounted, NEW a \in Admins, NEW op, StartOp(a, op)
  PROVE  Accounted'
<1>1. UNCHANGED <<budget, inflight, st, tok>> /\ cur' = cur /\ watches' = watches /\ ses' = ses /\ firing' = firing
  BY Zenon DEF StartOp
<1>2. (UNCHANGED <<off, calm>>) \/ SetBit(TRUE) \/ SetBit(FALSE)
  BY Zenon DEF StartOp
<1>3. DOMAIN calm' = Queries /\ \A q \in Queries : calm'[q] => calm[q] /\ off'
  <2>1. DOMAIN calm = Queries
    BY Zenon DEF Accounted
  <2>2. CASE UNCHANGED <<off, calm>>
    BY Zenon, <2>1, <2>2, CalmMeansOff
  <2>3. CASE SetBit(TRUE)
    BY Zenon, <2>1, <2>3 DEF SetBit
  <2>4. CASE SetBit(FALSE)
    BY Zenon, <2>4 DEF SetBit
  <2> QED BY Zenon, <1>2, <2>2, <2>3, <2>4
<1>4. /\ cur'.caps \in Caps /\ watches' \subseteq watches /\ DOMAIN ses' = Queries
      /\ DOMAIN firing' = Admins /\ \A b \in Admins : firing'[b] \subseteq Queries
      /\ \A q \in Queries : /\ DOMAIN ses'[q] = DOMAIN ses[q] /\ ses'[q].delayed = ses[q].delayed
                            /\ ses'[q].spent = ses[q].spent
  BY Zenon, <1>1 DEF Accounted
<1> QED BY Zenon, <1>1, <1>3, <1>4, Governed

LEMMA PublishKeeps ==
  ASSUME Accounted, NEW a \in Admins, Publish(a)
  PROVE  Accounted'
<1>1. /\ UNCHANGED <<budget, inflight, st, tok>> /\ off' = off /\ calm' = calm
      /\ watches' = watches /\ ses' = ses /\ firing' = firing
  BY Zenon DEF Publish
<1>2. PICK c \in Caps : cur' = [flag |-> off, caps |-> c]
  BY Zenon DEF Publish
<1>3. cur'.caps = c
  BY Zenon, <1>2
<1>4. DOMAIN calm' = Queries /\ \A q \in Queries : calm'[q] => calm[q] /\ off'
  BY Zenon, <1>1, CalmMeansOff DEF Accounted
<1>5. /\ cur'.caps \in Caps /\ watches' \subseteq watches /\ DOMAIN ses' = Queries
      /\ DOMAIN firing' = Admins /\ \A b \in Admins : firing'[b] \subseteq Queries
      /\ \A q \in Queries : /\ DOMAIN ses'[q] = DOMAIN ses[q] /\ ses'[q].delayed = ses[q].delayed
                            /\ ses'[q].spent = ses[q].spent
  BY Zenon, <1>1, <1>3 DEF Accounted
<1> QED BY Zenon, <1>1, <1>4, <1>5, Governed

LEMMA TakeCancelsKeeps ==
  ASSUME Accounted, NEW a \in Admins, TakeCancels(a)
  PROVE  Accounted'
<1>1. /\ UNCHANGED <<budget, inflight, st, tok>> /\ off' = off /\ calm' = calm /\ cur' = cur
      /\ watches' = {} /\ ses' = ses /\ firing' = [firing EXCEPT ![a] = watches]
  BY Zenon DEF TakeCancels
<1>2. DOMAIN calm' = Queries /\ \A q \in Queries : calm'[q] => calm[q] /\ off'
  BY Zenon, <1>1, CalmMeansOff DEF Accounted
<1>3. /\ cur'.caps \in Caps /\ watches' \subseteq watches /\ DOMAIN ses' = Queries
      /\ DOMAIN firing' = Admins /\ \A b \in Admins : firing'[b] \subseteq Queries
      /\ \A q \in Queries : /\ DOMAIN ses'[q] = DOMAIN ses[q] /\ ses'[q].delayed = ses[q].delayed
                            /\ ses'[q].spent = ses[q].spent
  BY Zenon, <1>1 DEF Accounted
<1> QED BY Zenon, <1>1, <1>2, <1>3, Governed

LEMMA RunCancelKeeps ==
  ASSUME Accounted, NEW a \in Admins, RunCancel(a)
  PROVE  Accounted'
<1>1. /\ UNCHANGED <<budget, inflight, st, tok>> /\ off' = off /\ calm' = calm /\ cur' = cur
      /\ watches' = watches
  BY Zenon DEF RunCancel
<1>2. DOMAIN calm' = Queries /\ \A q \in Queries : calm'[q] => calm[q] /\ off'
  BY Zenon, <1>1, CalmMeansOff DEF Accounted
<1>3. cur'.caps \in Caps /\ watches' \subseteq watches
  BY Zenon, <1>1 DEF Accounted
<1>4. /\ DOMAIN ses' = Queries /\ DOMAIN firing' = Admins /\ \A b \in Admins : firing'[b] \subseteq Queries
      /\ \A q \in Queries : /\ DOMAIN ses'[q] = DOMAIN ses[q] /\ ses'[q].delayed = ses[q].delayed
                            /\ ses'[q].spent = ses[q].spent
  <2>1. CASE ses' = ses /\ firing' = firing
    BY Zenon, <2>1 DEF Accounted
  <2>2. CASE \E q \in firing[a] : /\ ses' = [ses EXCEPT ![q].cancelled = TRUE]
                                  /\ firing' = [firing EXCEPT ![a] = @ \ {q}]
    <3>1. PICK q \in firing[a] : /\ ses' = [ses EXCEPT ![q].cancelled = TRUE]
                                 /\ firing' = [firing EXCEPT ![a] = @ \ {q}]
      BY Zenon, <2>2
    <3>2. q \in Queries /\ DOMAIN firing' = Admins /\ \A b \in Admins : firing'[b] \subseteq Queries
      BY Zenon, <3>1 DEF Accounted
    <3> DEFINE z == [ses[q] EXCEPT !.cancelled = TRUE]
    <3>3. DOMAIN ses' = Queries /\ ses'[q] = z /\ \A r \in Queries \ {q} : ses'[r] = ses[r]
      BY Zenon, <3>1, <3>2 DEF Accounted
    <3>4. Kept(st[q], tok[q], ses[q], q \in watches, calm[q], off)
      BY Zenon, <3>2, Known
    <3>5. DOMAIN ses[q] = {"skipped", "stopped", "cancelled", "delayed", "spent"}
      BY Zenon, <3>4 DEF Kept, Fresh
    <3>6. DOMAIN z = DOMAIN ses[q] /\ z.delayed = ses[q].delayed /\ z.spent = ses[q].spent
      BY Zenon, <3>5
    <3> HIDE DEF z
    <3> QED BY Zenon, <3>2, <3>3, <3>6
  <2> QED BY Zenon, <2>1, <2>2 DEF RunCancel
<1> QED BY Zenon, <1>1, <1>2, <1>3, <1>4, Governed

-----------------------------------------------------------------------------
(* The invariant.                                                          *)

\* Before the first query there is nothing to account for.
LEMMA InitAccounted == Init => Accounted
<1> SUFFICES ASSUME Init PROVE Accounted
  OBVIOUS
<1>1. cur.caps \in Caps
  BY Zenon DEF Init
<1>2. <<>> \in Seq(Actions)
  OBVIOUS
<1>3. ASSUME NEW q \in Queries
      PROVE  Kept(st[q], tok[q], ses[q], q \in watches, calm[q], off)
  <2> DEFINE k == st[q]
  <2>1. k = [pc |-> "load", ctx |-> "live", snap |-> cur, pre |-> NoPre, post |-> NoPost,
             phase |-> "before", todo |-> <<>>, held |-> Nil,
             res |-> "none", base |-> "none", sent |-> "none"]
    BY Zenon DEF Init
  <2> HIDE DEF k
  <2>0. DOMAIN k = Fields
    BY <2>1 DEF Fields
  <2>2. /\ k.pc = "load" /\ k.snap = cur /\ k.pre = NoPre /\ k.post = NoPost
        /\ k.phase = "before" /\ k.todo = <<>> /\ k.held = Nil
        /\ k.res = "none" /\ k.base = "none" /\ k.sent = "none"
    BY Zenon, <2>1
  <2>3. tok[q] = {} /\ ses[q] = Fresh /\ q \notin watches /\ ~calm[q]
    BY Zenon DEF Init
  <2>4. Plain(k)
    BY Zenon, <2>2 DEF Plain
  <2>5. Kept(k, tok[q], ses[q], q \in watches, calm[q], off)
    BY Zenon, <1>1, <1>2, <2>0, <2>2, <2>3, <2>4, FreshFits DEF Kept, Phases
  <2> QED BY Zenon, <2>5 DEF k
<1>4. /\ watches \subseteq Queries /\ DOMAIN st = Queries /\ DOMAIN tok = Queries
      /\ DOMAIN ses = Queries /\ DOMAIN calm = Queries
      /\ DOMAIN perPolicy = Policies /\ DOMAIN inflight = Policies /\ DOMAIN firing = Admins
      /\ \A a \in Admins : firing[a] \subseteq Queries
  BY Zenon DEF Init
<1>5. CountersExact
  <2>1. \A q \in Queries : tok[q] = {} /\ st[q].held = Nil /\ st[q].pc = "load"
    BY Zenon DEF Init
  <2>2. /\ {q \in Queries : tok[q] # {}} = {}
        /\ \A p \in Policies : {q \in Queries : p \in tok[q]} = {} /\ {q \in Queries : st[q].held = p} = {}
    BY Zenon, <2>1, NilAssumption
  <2>3. Cardinality({}) = 0
    BY Zenon, FS_EmptySet
  <2>4. global = 0 /\ \A p \in Policies : perPolicy[p] = 0 /\ inflight[p] = 0
    BY Zenon DEF Init
  <2>5. \A q \in Queries : ~At(q, "done")
    BY Zenon, <2>1 DEF At
  <2> QED BY Zenon, <2>2, <2>3, <2>4, <2>5 DEF CountersExact
<1> QED BY Zenon, <1>1, <1>3, <1>4, <1>5 DEF Accounted

\* Every step of a query keeps the invariant.
LEMMA ServeAccounted ==
  ASSUME Accounted, NEW q \in Queries, Serve(q)
  PROVE  Accounted'
<1>1. CASE LoadSnapshot(q) \/ DecidePre(q) \/ NewSession(q)
  BY Zenon, <1>1, LoadKeeps, DecidePreKeeps, NewSessionKeeps
<1>2. CASE Enter(q) \/ SleepOne(q) \/ Cancelled(q) \/ ContextDone(q)
  BY Zenon, <1>2, EnterKeeps, SleepOneKeeps, CancelledKeeps, ContextDoneKeeps
<1>3. CASE CheckInhibited(q) \/ SendBase(q) \/ Limit(q) \/ Answer(q) \/ Exchange(q)
  BY Zenon, <1>3, CheckInhibitedKeeps, SendBaseKeeps, LimitKeeps, AnswerKeeps, ExchangeKeeps
<1>4. CASE Answered(q) \/ DecidePost(q) \/ Mutate(q) \/ Final(q)
  BY Zenon, <1>4, AnsweredKeeps, DecidePostKeeps, MutateKeeps, FinalKeeps
<1>5. CASE Unwatch(q) \/ Release(q)
  BY Zenon, <1>5, UnwatchKeeps, ReleaseKeeps
<1> QED BY Zenon, <1>1, <1>2, <1>3, <1>4, <1>5 DEF Serve

\* So does every step of the administrators, the contexts and the shutdown.
LEMMA NextAccounted == Accounted /\ [Next]_vars => Accounted'
<1> SUFFICES ASSUME Accounted, [Next]_vars PROVE Accounted'
  OBVIOUS
<1>1. ASSUME NEW q \in Queries, NEW why,
             Serve(q) \/ Timer(q) \/ EndContext(q, why)
      PROVE  Accounted'
  BY Zenon, <1>1, ServeAccounted, TimerKeeps, EndContextKeeps
<1>2. ASSUME NEW a \in Admins, NEW op, Administer(a) \/ StartOp(a, op)
      PROVE  Accounted'
  BY Zenon, <1>2, PublishKeeps, TakeCancelsKeeps, RunCancelKeeps, StartOpKeeps DEF Administer
<1>3. CASE Shutdown
  BY Zenon, <1>3, ShutdownKeeps
<1>4. CASE UNCHANGED vars
  BY Zenon, <1>4 DEF vars, budget, admin, Accounted, CountersExact, At
<1> QED BY Zenon, <1>1, <1>2, <1>3, <1>4 DEF Next, Rest

\* What the counters, the sessions and the queries have to do with each other,
\* at every label of ServeDNS and beside every call of an admin.
THEOREM QueriesAccounted == Spec => []Accounted
BY InitAccounted, NextAccounted, PTL DEF Spec

\* Every count that a query makes in Budgets and in Pressure is taken back once,
\* on every path out of ServeDNS.
THEOREM CountersHold == Spec => []CountersExact
<1>1. Accounted => CountersExact
  BY Zenon DEF Accounted
<1> QED BY <1>1, QueriesAccounted, PTL

\* clampDelay bounds the delays of a request over all its phases, whichever
\* snapshots are published meanwhile.
THEOREM DelaysBounded == Spec => []RequestDelayBounded
<1>1. Accounted => RequestDelayBounded
  <2>1. Accounted => \A q \in Queries : Within(st[q].snap.caps, ses[q])
    BY Zenon, Known DEF Kept
  <2> QED BY Zenon, <2>1 DEF Within, RequestDelayBounded
<1> QED BY <1>1, QueriesAccounted, PTL

\* No query that began under emergency disable is touched by chaos while it lasts.
THEOREM DisabledHolds == Spec => []DisabledMeansUntouched
<1>1. Accounted => DisabledMeansUntouched
  <2> SUFFICES ASSUME Accounted, NEW q \in Queries, calm[q]
               PROVE  /\ tok[q] = {} /\ st[q].held = Nil
                      /\ st[q].sent \notin {"injected", "mutated", "limited", "hinted"}
    BY Zenon DEF DisabledMeansUntouched
  <2>1. tok[q] = {} /\ Plain(st[q])
    BY Zenon, Known DEF Kept
  <2> QED BY Zenon, <2>1 DEF Plain
<1> QED BY <1>1, QueriesAccounted, PTL

\* Limits and counts are numbers.
LEMMA LimitTypes ==
  ASSUME Accounted, NEW q \in Queries
  PROVE  /\ st[q].snap.caps.conc \in Nat /\ st[q].snap.caps.policyConc \in [Policies -> Nat]
         /\ global \in Nat /\ \A p \in Policies : perPolicy[p] \in Nat
<1>1. st[q].snap.caps \in Caps
  BY Zenon, Known DEF Kept
<1>2. st[q].snap.caps.conc \in Nat /\ st[q].snap.caps.policyConc \in [Policies -> Nat]
  BY Zenon, <1>1, CapsAssumption
<1>3. \A S \in SUBSET Queries : Cardinality(S) \in Nat
  BY Zenon, FiniteAssumption, FS_Subset, FS_CardinalityType
<1>4. /\ global = Cardinality({r \in Queries : tok[r] # {}})
      /\ \A p \in Policies : perPolicy[p] = Cardinality({r \in Queries : p \in tok[r]})
  BY Zenon DEF Accounted, CountersExact
<1> QED BY Zenon, <1>2, <1>3, <1>4

\* One more than a count below the limit is within it.
LEMMA BelowFits ==
  ASSUME NEW STATE n, NEW STATE cap, n \in Nat, cap \in Nat, Below(n, cap)
  PROVE  cap > 0 => n + 1 <= cap
BY DEF Below

\* A reservation beside other sleepers keeps to the limits of the query's own
\* snapshot (Budgets.ReserveDelay, Token.ReservePolicy).
THEOREM LimitsHold == Spec => ReservesWithinLimits
<1> DEFINE Grants(q) ==
             tok'[q] # tok[q] /\ tok'[q] # {} =>
               /\ st[q].snap.caps.conc > 0 /\ tok[q] = {} => global' <= st[q].snap.caps.conc
               /\ \A p \in tok'[q] \ tok[q] :
                     st[q].snap.caps.policyConc[p] > 0 => perPolicy'[p] <= st[q].snap.caps.policyConc[p]
<1>1. ASSUME Accounted, NEW r \in Queries, NEW STATE p, p \in Policies, Reserve(r, p), NEW q \in Queries
      PROVE  Grants(q)
  <2>1. /\ tok'[r] = tok[r] \cup {p} /\ \A x \in Queries \ {r} : tok'[x] = tok[x]
        /\ global' = (IF tok[r] = {} THEN global + 1 ELSE global)
        /\ perPolicy' = (IF p \in tok[r] THEN perPolicy ELSE [perPolicy EXCEPT ![p] = @ + 1])
        /\ CanReserve(r, p) /\ DOMAIN perPolicy = Policies
    BY Zenon, <1>1 DEF Reserve, Accounted
  <2>2. CASE q # r \/ p \in tok[r]
    BY Zenon, <2>1, <2>2
  <2>3. CASE q = r /\ p \notin tok[r]
    <3> DEFINE c == st[r].snap.caps
    <3>1. /\ c.conc \in Nat /\ c.policyConc[p] \in Nat /\ global \in Nat /\ perPolicy[p] \in Nat
      BY Zenon, <1>1, LimitTypes
    <3>2. (tok[r] = {} => Below(global, c.conc)) /\ Below(perPolicy[p], c.policyConc[p])
      BY Zenon, <2>1, <2>3 DEF CanReserve
    <3>3. tok[r] = {} => (c.conc > 0 => global + 1 <= c.conc)
      BY Zenon, <3>1, <3>2, BelowFits
    <3>4. c.policyConc[p] > 0 => perPolicy[p] + 1 <= c.policyConc[p]
      BY Zenon, <3>1, <3>2, BelowFits
    <3>5. (tok[r] = {} => global' = global + 1) /\ perPolicy'[p] = perPolicy[p] + 1
      BY Zenon, <1>1, <2>1, <2>3
    <3>6. \A x \in tok'[q] \ tok[q] : x = p
      BY Zenon, <2>1, <2>3
    <3> QED BY Zenon, <2>3, <3>3, <3>4, <3>5, <3>6
  <2> QED BY Zenon, <2>2, <2>3
<1>2. ASSUME Accounted, NEW r \in Queries, Serve(r), NEW q \in Queries
      PROVE  Grants(q)
  <2>1. CASE tok' = tok
    BY Zenon, <2>1
  <2>2. CASE SleepOne(r)
    <3> DEFINE a == Head(st[r].todo)
    <3>1. tok' = tok \/ (st[r].todo # <<>> /\ Reserve(r, a.policy))
      BY Zenon, <2>2 DEF SleepOne, LeaveLoop
    <3>2. CASE st[r].todo # <<>> /\ Reserve(r, a.policy)
      <4>1. st[r].todo \in Seq(Actions)
        BY Zenon, <1>2, Known DEF Kept
      <4>2. a.policy \in Policies
        BY Zenon, <3>2, <4>1, HeadOfTodo
      <4> QED BY Zenon, <1>1, <1>2, <3>2, <4>2
    <3> QED BY Zenon, <2>1, <3>1, <3>2
  <2>3. CASE Release(r)
    <3>1. tok' = [tok EXCEPT ![r] = {}] /\ DOMAIN tok = Queries
      BY Zenon, <1>2, <2>3 DEF Release, Accounted
    <3> QED BY Zenon, <3>1
  <2>4. CASE LoadSnapshot(r) \/ DecidePre(r) \/ NewSession(r) \/ Enter(r) \/ Cancelled(r) \/ ContextDone(r)
    BY Zenon, <2>1, <2>4 DEF LoadSnapshot, DecidePre, NewSession, Enter, Cancelled, ContextDone
  <2>5. CASE CheckInhibited(r) \/ SendBase(r) \/ Limit(r) \/ Answer(r) \/ Exchange(r)
    BY Zenon, <2>1, <2>5 DEF CheckInhibited, SendBase, Limit, Answer, Exchange
  <2>6. CASE Answered(r) \/ DecidePost(r) \/ Mutate(r) \/ Final(r) \/ Unwatch(r)
    BY Zenon, <2>1, <2>6 DEF Answered, DecidePost, Mutate, Final, Unwatch
  <2> QED BY Zenon, <1>2, <2>2, <2>3, <2>4, <2>5, <2>6 DEF Serve
<1>3. Accounted /\ [Next]_vars => [\A q \in Queries : Grants(q)]_vars
  <2> SUFFICES ASSUME Accounted, Next, NEW q \in Queries PROVE Grants(q)
    BY Zenon
  <2>1. CASE tok' = tok
    BY Zenon, <2>1
  <2>2. ASSUME NEW r \in Queries, NEW why, Timer(r) \/ EndContext(r, why) PROVE Grants(q)
    BY Zenon, <2>1, <2>2 DEF Timer, EndContext
  <2>3. ASSUME NEW a \in Admins, NEW op, Administer(a) \/ StartOp(a, op) PROVE Grants(q)
    BY Zenon, <2>1, <2>3 DEF Administer, Publish, TakeCancels, RunCancel, StartOp
  <2>4. CASE Shutdown \/ Rest
    BY Zenon, <2>1, <2>4 DEF Shutdown, Rest, vars
  <2> HIDE DEF Grants
  <2> QED BY Zenon, <1>2, <2>2, <2>3, <2>4 DEF Next
<1> QED BY <1>3, QueriesAccounted, PTL DEF Spec, ReservesWithinLimits
=============================================================================
