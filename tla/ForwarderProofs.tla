--------------------------- MODULE ForwarderProofs --------------------------
(***************************************************************************)
(* The proofs about Forwarder.                                             *)
(***************************************************************************)
EXTENDS Forwarder, FiniteSetTheorems, TLAPS

\* What ScenarioAssumption says of the pool of a generation.
LEMMA Pools ==
  ASSUME sc \in Scenarios, NEW STATE g, g \in Gens
  PROVE  /\ g \in Nat /\ g > 0
         /\ Topo[g].ups \in Seq(Range(Topo[g].ups)) /\ Topo[g].ups # <<>>
         /\ \A i, j \in DOMAIN Topo[g].ups : Topo[g].ups[i].id = Topo[g].ups[j].id => i = j
<1>1. Topo \in Seq(Range(Topo))
  BY Zenon, ScenarioAssumption DEF Topo
<1>2. g \in 1..Len(Topo)
  BY <1>1 DEF Gens
<1>3. g \in Nat /\ g > 0
  BY <1>1, <1>2
<1> QED BY Zenon, <1>3, ScenarioAssumption DEF Topo, Gens

\* The members of a pool that carry the same id are one.
LEMMA OneMember ==
  ASSUME sc \in Scenarios, NEW STATE g, g \in Gens,
         NEW u \in Range(Topo[g].ups), NEW w \in Range(Topo[g].ups), u.id = w.id
  PROVE  u = w
BY Zenon, Pools DEF Range

\* A request takes or gives back its slot as it starts or stops being busy.
LEMMA SlotStep ==
  ASSUME Coherent, NEW r \in Requests, NEW STATE v, Upd(r, v), DOMAIN req = Requests,
         LET B == {"observe", "order", "next", "attempt", "judge", "finish"} IN
           \/ (req[r].pc \in B <=> v.pc \in B) /\ slots' = slots
           \/ req[r].pc \notin B /\ v.pc \in B /\ slots' = slots + 1 /\ slots < MaxSlots
           \/ req[r].pc \in B /\ v.pc \notin B /\ slots' = slots - 1
  PROVE  SlotsExact' /\ slots' <= MaxSlots'
<1> DEFINE B == {"observe", "order", "next", "attempt", "judge", "finish"}
           S == {s \in Requests : Busy(s)}
<1>1. IsFiniteSet(S) /\ slots = Cardinality(S) /\ slots \in Nat /\ slots <= MaxSlots /\ MaxSlots \in Nat
  BY Zenon, RequestsAssumption, FS_Subset, FS_CardinalityType DEF Coherent, SlotsExact
<1>2. req'[r] = v /\ \A s \in Requests \ {r} : req'[s] = req[s]
  BY Zenon DEF Upd
<1>3. CASE (req[r].pc \in B <=> v.pc \in B) /\ slots' = slots
  <2>1. S' = S
    BY Zenon, <1>2, <1>3 DEF Busy
  <2> QED BY Zenon, <1>1, <1>3, <2>1 DEF SlotsExact
<1>4. CASE req[r].pc \notin B /\ v.pc \in B /\ slots' = slots + 1 /\ slots < MaxSlots
  <2>1. S' = S \cup {r} /\ r \notin S
    BY Zenon, <1>2, <1>4 DEF Busy
  <2> HIDE DEF S
  <2>2. Cardinality(S \cup {r}) = IF r \in S THEN Cardinality(S) ELSE Cardinality(S) + 1
    BY Zenon, <1>1, FS_AddElement
  <2>3. Cardinality(S') = Cardinality(S) + 1
    BY Zenon, <2>1, <2>2
  <2> QED BY <1>1, <1>4, <2>3 DEF SlotsExact, S
<1>5. CASE req[r].pc \in B /\ v.pc \notin B /\ slots' = slots - 1
  <2>1. S' = S \ {r} /\ r \in S
    BY Zenon, <1>2, <1>5 DEF Busy
  <2> HIDE DEF S
  <2>2. Cardinality(S \ {r}) = IF r \in S THEN Cardinality(S) - 1 ELSE Cardinality(S)
    BY Zenon, <1>1, FS_RemoveElement
  <2>3. Cardinality(S') = Cardinality(S) - 1
    BY Zenon, <2>1, <2>2
  <2> QED BY <1>1, <1>5, <2>3 DEF SlotsExact, S
<1> QED BY Zenon, <1>3, <1>4, <1>5

\* Tail and Append by index.
Shifted(s, t) ==
    \A i \in DOMAIN t : i \in Nat /\ i + 1 # 1 /\ i + 1 \in DOMAIN s /\ t[i] = s[i + 1]
Extended(s, t, e) ==
    /\ Len(s) \in Nat /\ DOMAIN s = 1..Len(s)
    /\ Len(t) = Len(s) + 1 /\ DOMAIN t = 1..(Len(s) + 1)
    /\ t[Len(s) + 1] = e
    /\ \A i \in 1..Len(s) : t[i] = s[i]

\* The tail of a sequence is its elements, each one place earlier.
LEMMA TailAt ==
  ASSUME NEW STATE S, NEW STATE s, NEW STATE t, s \in Seq(S), s # <<>>, t = Tail(s)
  PROVE  t \in Seq(S) /\ 1 \in DOMAIN s /\ Head(s) = s[1] /\ Shifted(s, t)
<1>1. t \in Seq(S) /\ Len(s) \in Nat /\ Len(s) # 0 /\ DOMAIN s = 1..Len(s) /\ Head(s) = s[1]
  OBVIOUS
<1>2. DOMAIN t = 1..(Len(s) - 1)
  BY <1>1
<1> QED BY <1>1, <1>2 DEF Shifted

\* Appending leaves the elements where they are and puts one behind them.
LEMMA AppendAt ==
  ASSUME NEW STATE s, NEW STATE t, NEW STATE e, s \in Seq(Range(s)), t = Append(s, e)
  PROVE  t \in Seq(Range(t)) /\ t # <<>> /\ Extended(s, t, e)
<1>1. s \in Seq(Range(s) \cup {e}) /\ Len(s) \in Nat /\ DOMAIN s = 1..Len(s)
  OBVIOUS
<1>2. t \in Seq(Range(s) \cup {e}) /\ t # <<>> /\ Extended(s, t, e)
  BY <1>1 DEF Extended
<1>3. t \in Seq(Range(t))
  BY <1>2 DEF Extended, Range
<1> QED BY Zenon, <1>2, <1>3

\* The locals of a request that has not ordered its upstreams yet.
LEMMA Waiting ==
  ASSUME NEW STATE topo, NEW STATE fo, NEW STATE g, NEW STATE q, NEW STATE v,
         Locals(topo, fo, g, q), q.pc \in {"idle", "slot", "observe"},
         DOMAIN v = Fields, v.tried = q.tried, v.rcode = q.rcode,
         v.pc \in {"slot", "observe", "order"}, v.gen \in DOMAIN topo, v.pc = "order" => v.gen <= g
  PROVE  Locals(topo, fo, g, v)
<1>1. Asking(topo, v)
  BY Zenon DEF Asking
<1>2. v.tried = <<>> /\ Trail(fo, v)
  BY Zenon DEF Locals, Trail
<1> QED BY Zenon, <1>1, <1>2 DEF Locals, Labels

\* The context of a request ends, or its question is asked again over TCP.
LEMMA SamePlace ==
  ASSUME NEW STATE topo, NEW STATE fo, NEW STATE g, NEW STATE q, NEW STATE v,
         Locals(topo, fo, g, q), DOMAIN v = Fields, v.pc = q.pc, v.gen = q.gen,
         v.order = q.order, v.tried = q.tried, v.rcode = q.rcode
  PROVE  Locals(topo, fo, g, v)
<1>1. Asking(topo, v)
  BY DEF Locals, Asking
<1>2. Trail(fo, v)
  BY Zenon DEF Locals, Trail
<1> QED BY Zenon, <1>1, <1>2 DEF Locals

\* A request stops with a code of its own, or with the one it has.
LEMMA Stopping ==
  ASSUME NEW STATE topo, NEW STATE fo, NEW STATE g, NEW STATE q, NEW STATE v,
         Locals(topo, fo, g, q), DOMAIN v = Fields, v.pc \in {"finish", "done"},
         v.pc = "finish" => v.gen = q.gen /\ q.pc \in {"order", "next", "attempt", "judge", "finish"},
         v.tried = q.tried,
         \/ v.rcode \notin Rcodes \ {"SERVFAIL"}
         \/ v.rcode = q.rcode /\ q.pc \notin {"attempt", "judge"}
         \/ q.pc = "judge" /\ v.rcode = q.tried[Len(q.tried)].out
  PROVE  Locals(topo, fo, g, v)
<1>1. Asking(topo, v)
  BY Zenon DEF Asking
<1>2. q.pc = "judge" => q.tried # <<>>
  BY Zenon DEF Locals, Asking
<1>3. Trail(fo, v)
  BY Zenon, <1>2 DEF Locals, Trail
<1> QED BY Zenon, <1>1, <1>3 DEF Locals, Labels

\* The loop passes over the first upstream left without asking it.
LEMMA Passing ==
  ASSUME NEW STATE topo, NEW STATE fo, NEW STATE g, NEW STATE q, NEW STATE v,
         Locals(topo, fo, g, q), q.pc = "next", q.order # <<>>,
         DOMAIN v = Fields, v.pc = "next", v.gen = q.gen, v.order = Tail(q.order), v.tried = q.tried,
         v.rcode = "SERVFAIL"
  PROVE  Locals(topo, fo, g, v)
<1>1. q.order \in Seq(Range(topo[q.gen].ups))
  BY Zenon DEF Locals, Asking
<1>2. /\ v.order \in Seq(Range(topo[q.gen].ups))
      /\ Shifted(q.order, v.order)
  BY Zenon, <1>1, TailAt
<1>3. Asking(topo, v)
  <2>1. /\ \A i, j \in DOMAIN q.order : q.order[i].id = q.order[j].id => i = j
        /\ \A i \in DOMAIN q.order, j \in DOMAIN q.tried : i # 1 => q.order[i].id # q.tried[j].id
    BY Zenon DEF Locals, Asking
  <2>2. ASSUME NEW i \in DOMAIN v.order, NEW j \in DOMAIN v.order, v.order[i].id = v.order[j].id
        PROVE  i = j
    BY <1>2, <2>1, <2>2 DEF Shifted
  <2>3. ASSUME NEW i \in DOMAIN v.order, NEW j \in DOMAIN v.tried PROVE v.order[i].id # v.tried[j].id
    BY <1>2, <2>1 DEF Shifted
  <2> QED BY Zenon, <1>2, <2>2, <2>3 DEF Asking
<1>4. Trail(fo, v)
  BY Zenon DEF Locals, Trail
<1> QED BY Zenon, <1>3, <1>4 DEF Locals, Labels

\* The loop stops at the first upstream left.
LEMMA Stepping ==
  ASSUME NEW STATE topo, NEW STATE fo, NEW STATE g, NEW STATE q, NEW STATE v,
         Locals(topo, fo, g, q), q.pc = "next", q.order # <<>>,
         DOMAIN v = Fields, v.pc = "attempt", v.gen = q.gen, v.order = q.order, v.tried = q.tried
  PROVE  Locals(topo, fo, g, v)
<1>1. Asking(topo, v)
  BY DEF Locals, Asking
<1>2. Trail(fo, v)
  BY Zenon DEF Locals, Trail
<1> QED BY Zenon, <1>1, <1>2 DEF Locals, Labels

\* An attempt has an outcome.
LEMMA Attempting ==
  ASSUME NEW STATE topo, NEW STATE fo, NEW STATE g, NEW STATE q, NEW STATE v, NEW STATE out,
         Locals(topo, fo, g, q), q.pc = "attempt",
         DOMAIN v = Fields, v.pc = "judge", v.gen = q.gen, v.order = q.order,
         v.tried = Append(q.tried, [id |-> Head(q.order).id, out |-> out])
  PROVE  Locals(topo, fo, g, v)
<1> DEFINE t == q.tried
           e == [id |-> Head(q.order).id, out |-> out]
<1>1. /\ t \in Seq(Range(t)) /\ q.order \in Seq(Range(topo[q.gen].ups)) /\ q.order # <<>>
      /\ \A i, j \in DOMAIN q.order : q.order[i].id = q.order[j].id => i = j
      /\ \A i \in DOMAIN q.order, j \in DOMAIN t : q.order[i].id # t[j].id
  BY Zenon DEF Locals, Asking, Trail
<1>2. e.id = q.order[1].id
  BY <1>1
<1>3. /\ v.tried \in Seq(Range(v.tried)) /\ v.tried # <<>>
      /\ DOMAIN v.tried = 1..(Len(t) + 1) /\ Len(v.tried) = Len(t) + 1 /\ Len(t) \in Nat
      /\ DOMAIN t = 1..Len(t)
      /\ \A i \in 1..Len(t) : v.tried[i] = t[i]
      /\ v.tried[Len(t) + 1].id = q.order[1].id
  <2>1. v.tried \in Seq(Range(v.tried)) /\ v.tried # <<>> /\ Extended(t, v.tried, e)
    BY Zenon, <1>1, AppendAt
  <2> QED BY Zenon, <1>2, <2>1 DEF Extended
<1>4. Asking(topo, v)
  <2>1. ASSUME NEW i \in DOMAIN v.order, NEW j \in DOMAIN v.tried, i # 1 \/ j # Len(v.tried)
        PROVE  v.order[i].id # v.tried[j].id
    <3>1. CASE j \in DOMAIN t
      BY <1>1, <1>3, <3>1
    <3>2. CASE j = Len(t) + 1
      BY <1>1, <1>3, <2>1, <3>2
    <3> QED BY <1>3, <3>1, <3>2
  <2>2. v.tried[Len(v.tried)].id = v.order[1].id
    BY Zenon, <1>3
  <2> QED BY Zenon, <1>1, <1>3, <2>1, <2>2 DEF Asking
<1>5. Trail(fo, v)
  <2>1. ASSUME NEW i \in DOMAIN v.tried, i # Len(v.tried) PROVE i \in DOMAIN t /\ v.tried[i] = t[i]
    BY <1>3, <2>1
  <2>2. \A i \in DOMAIN t : v.tried[i] = t[i] /\ t[i].id # v.tried[Len(v.tried)].id
    <3>1. 1 \in DOMAIN q.order
      BY Zenon, <1>1, TailAt
    <3>2. \A i \in DOMAIN t : q.order[1].id # t[i].id
      BY Zenon, <1>1, <3>1
    <3>3. v.tried[Len(v.tried)].id = q.order[1].id
      BY Zenon, <1>3
    <3> QED BY Zenon, <1>3, <3>2, <3>3
  <2>3. ASSUME NEW i \in DOMAIN v.tried, NEW j \in DOMAIN v.tried, v.tried[i].id = v.tried[j].id
        PROVE  i = j
    <3>1. \A k, l \in DOMAIN t : t[k].id = t[l].id => k = l
      BY Zenon DEF Locals, Trail
    <3>2. CASE i # Len(v.tried) /\ j # Len(v.tried)
      BY Zenon, <2>1, <2>3, <3>1, <3>2
    <3>3. CASE i = Len(v.tried) \/ j = Len(v.tried)
      BY Zenon, <2>1, <2>2, <2>3, <3>3
    <3> QED BY Zenon, <3>2, <3>3
  <2>4. \A i \in DOMAIN v.tried : i # Len(v.tried) => Allows(fo, v.tried[i].out)
    BY Zenon, <2>1 DEF Locals, Trail
  <2> QED BY Zenon, <1>3, <2>3, <2>4 DEF Trail
<1> QED BY Zenon, <1>4, <1>5 DEF Locals, Labels

\* The loop goes on after an outcome for which the policy allows it.
LEMMA FailingOver ==
  ASSUME NEW STATE topo, NEW STATE fo, NEW STATE g, NEW STATE q, NEW STATE v,
         Locals(topo, fo, g, q), q.pc = "judge",
         Allows(fo, q.tried[Len(q.tried)].out),
         DOMAIN v = Fields, v.pc = "next", v.gen = q.gen, v.order = Tail(q.order), v.tried = q.tried,
         v.rcode \in {"SERVFAIL", q.tried[Len(q.tried)].out}
  PROVE  Locals(topo, fo, g, v)
<1>1. q.order \in Seq(Range(topo[q.gen].ups)) /\ q.order # <<>> /\ q.tried # <<>>
  BY Zenon DEF Locals, Asking
<1>2. /\ v.order \in Seq(Range(topo[q.gen].ups))
      /\ Shifted(q.order, v.order)
  BY Zenon, <1>1, TailAt
<1>3. Asking(topo, v)
  <2>1. /\ \A i, j \in DOMAIN q.order : q.order[i].id = q.order[j].id => i = j
        /\ \A i \in DOMAIN q.order, j \in DOMAIN q.tried : i # 1 => q.order[i].id # q.tried[j].id
    BY Zenon DEF Locals, Asking
  <2>2. ASSUME NEW i \in DOMAIN v.order, NEW j \in DOMAIN v.order, v.order[i].id = v.order[j].id
        PROVE  i = j
    BY <1>2, <2>1, <2>2 DEF Shifted
  <2>3. ASSUME NEW i \in DOMAIN v.order, NEW j \in DOMAIN v.tried PROVE v.order[i].id # v.tried[j].id
    BY <1>2, <2>1 DEF Shifted
  <2> QED BY Zenon, <1>2, <2>2, <2>3 DEF Asking
<1>4. Trail(fo, v)
  BY Zenon, <1>1 DEF Locals, Trail
<1> QED BY Zenon, <1>3, <1>4 DEF Locals, Labels

\* picker.order and the options give an order of the pool without repetition.
Distinct(s) == \A i, j \in DOMAIN s : s[i].id = s[j].id => i = j

\* Moving one upstream to the front repeats and loses none.
LEMMA FrontOrder ==
  ASSUME NEW STATE S, NEW STATE s, NEW STATE k, NEW STATE f,
         s \in Seq(S), k \in DOMAIN s, Distinct(s), f = ToFront(s, k)
  PROVE  f \in Seq(S) /\ f # <<>> /\ Distinct(f)
<1>1. /\ Len(s) \in Nat /\ DOMAIN s = 1..Len(s) /\ k \in 1..Len(s) /\ DOMAIN f = 1..Len(s)
      /\ \A i \in 1..Len(s) : s[i] \in S
  BY DEF ToFront
<1>2. \A i \in 1..Len(s) : f[i] = IF i = 1 THEN s[k] ELSE IF i <= k THEN s[i - 1] ELSE s[i]
  BY Zenon, <1>1 DEF ToFront
<1>3. f \in Seq(S) /\ f # <<>>
  BY <1>1, <1>2 DEF ToFront
<1>4. Distinct(f)
  <2> DEFINE h(i) == IF i = 1 THEN k ELSE IF i <= k THEN i - 1 ELSE i
  <2>1. \A i \in 1..Len(s) : h(i) \in 1..Len(s) /\ f[i] = s[h(i)]
    BY <1>1, <1>2
  <2>2. \A i, j \in 1..Len(s) : h(i) = h(j) => i = j
    BY <1>1
  <2> HIDE DEF h
  <2>3. SUFFICES ASSUME NEW i \in 1..Len(s), NEW j \in 1..Len(s), f[i].id = f[j].id PROVE i = j
    BY Zenon, <1>1 DEF Distinct
  <2>4. s[h(i)].id = s[h(j)].id /\ h(i) \in DOMAIN s /\ h(j) \in DOMAIN s
    BY Zenon, <1>1, <2>1, <2>3
  <2>5. h(i) = h(j)
    BY Zenon, <2>4 DEF Distinct
  <2> QED BY Zenon, <2>2, <2>5
<1> QED BY Zenon, <1>3, <1>4

\* Dropping the first upstream repeats none.
LEMMA TailOrder ==
  ASSUME NEW STATE S, NEW STATE s, NEW STATE f,
         s \in Seq(S), s # <<>>, Distinct(s), f = Tail(s)
  PROVE  f \in Seq(S) /\ Distinct(f)
<1>1. f \in Seq(S) /\ Shifted(s, f)
  BY Zenon, TailAt
<1>2. Distinct(f)
  BY <1>1 DEF Shifted, Distinct
<1> QED BY Zenon, <1>1, <1>2

\* A fault option that forces the first upstream, or skips it, repeats none.
LEMMA ForcedOrder ==
  ASSUME NEW STATE S, NEW STATE s, NEW STATE o, s \in Seq(S), s # <<>>, Distinct(s)
  PROVE  Forced(s, o) \in Seq(S) /\ Distinct(Forced(s, o))
<1> DEFINE at == {k \in DOMAIN s : o.force # "" /\ s[k].id = o.force}
           f == IF at = {} THEN s ELSE ToFront(s, CHOOSE k \in at : TRUE)
<1>1. f \in Seq(S) /\ f # <<>> /\ Distinct(f)
  <2>1. CASE at = {}
    BY Zenon, <2>1
  <2>2. CASE at # {}
    <3>1. (CHOOSE k \in at : TRUE) \in DOMAIN s
      BY Zenon, <2>2
    <3>2. f = ToFront(s, CHOOSE k \in at : TRUE)
      BY Zenon, <2>2
    <3> QED BY Zenon, <3>1, <3>2, FrontOrder
  <2> QED BY Zenon, <2>1, <2>2
<1>2. Forced(s, o) = IF o.failover /\ Len(f) > 1 THEN Tail(f) ELSE f
  BY Zenon DEF Forced
<1> HIDE DEF f
<1>3. CASE o.failover /\ Len(f) > 1
  BY Zenon, <1>1, <1>2, <1>3, TailOrder
<1>4. CASE ~(o.failover /\ Len(f) > 1)
  BY Zenon, <1>1, <1>2, <1>4
<1> QED BY Zenon, <1>3, <1>4

\* Neither way of ordering a pool puts two attempts at one place.
LEMMA NoPlaceTwice ==
  ASSUME NEW STATE ups, NEW STATE n, NEW STATE k, NEW STATE p, n \in Nat, Len(ups) = n,
         DOMAIN ups = 1..n, k \in 0..(n - 1), \A i \in 1..n : p[i] \in 1..n,
         PreferHealthy(ups, p) \/ Rotated(ups, k, p)
  PROVE  \A i, j \in 1..n : i < j => p[i] # p[j]
<1>1. CASE PreferHealthy(ups, p)
  <2>1. ASSUME NEW i \in 1..n, NEW j \in 1..n, i < j, p[i] = p[j] PROVE p[i] < p[j]
    BY Zenon, <1>1, <2>1 DEF PreferHealthy
  <2> QED BY <2>1
<1>2. CASE Rotated(ups, k, p)
  <2>1. SUFFICES ASSUME NEW i \in 1..n, NEW j \in 1..n, i < j PROVE p[i] # p[j]
    BY Zenon
  <2>2. /\ p[i] = IF i + k <= n THEN i + k ELSE i + k - n
        /\ p[j] = IF j + k <= n THEN j + k ELSE j + k - n
    BY Zenon, <1>2 DEF Rotated
  <2> HIDE DEF Rotated
  <2> QED BY <2>1, <2>2
<1> QED BY Zenon, <1>1, <1>2

\* An order of a pool has its members, each once.
LEMMA PoolOrder ==
  ASSUME NEW STATE pool, NEW STATE k, NEW STATE p, NEW STATE s,
         pool.ups \in Seq(Range(pool.ups)), pool.ups # <<>>, Distinct(pool.ups),
         k \in 0..(Len(pool.ups) - 1), p \in [1..Len(pool.ups) -> 1..Len(pool.ups)],
         Ordered(pool, k, p), s = [i \in 1..Len(pool.ups) |-> pool.ups[p[i]]]
  PROVE  s \in Seq(Range(pool.ups)) /\ s # <<>> /\ Distinct(s)
<1> DEFINE ups == pool.ups
           n == Len(ups)
<1>1. n \in Nat /\ n > 0 /\ DOMAIN ups = 1..n /\ \A i \in 1..n : ups[i] \in Range(ups)
  OBVIOUS
<1>2. \A i \in 1..n : p[i] \in 1..n
  BY Zenon
<1>3. PreferHealthy(ups, p) \/ Rotated(ups, k, p)
  BY Zenon DEF Ordered
<1>4. \A i, j \in 1..n : i < j => p[i] # p[j]
  BY Zenon, <1>1, <1>2, <1>3, NoPlaceTwice
<1>5. DOMAIN s = 1..n /\ \A i \in 1..n : s[i] = ups[p[i]]
  BY Zenon
<1>6. s \in [1..n -> Range(ups)]
  BY Zenon, <1>1, <1>2, <1>5
<1>7. s \in Seq(Range(ups)) /\ s # <<>>
  <2> HIDE DEF n
  <2> QED BY <1>1, <1>5, <1>6
<1>8. Distinct(s)
  <2>1. SUFFICES ASSUME NEW i \in 1..n, NEW j \in 1..n, s[i].id = s[j].id PROVE i = j
    BY Zenon, <1>5 DEF Distinct
  <2>2. p[i] = p[j]
    BY Zenon, <1>1, <1>2, <1>5, <2>1 DEF Distinct
  <2> HIDE DEF n
  <2> QED BY <1>1, <1>4, <2>2
<1> QED BY Zenon, <1>7, <1>8
\* A request has its order.
LEMMA Ordering ==
  ASSUME NEW STATE topo, NEW STATE fo, NEW STATE g, NEW STATE q, NEW STATE v,
         Locals(topo, fo, g, q), q.pc = "order",
         DOMAIN v = Fields, v.pc = "next", v.gen = q.gen, v.tried = q.tried, v.rcode \notin Rcodes,
         v.order \in Seq(Range(topo[q.gen].ups)), Distinct(v.order)
  PROVE  Locals(topo, fo, g, v)
<1>1. v.tried = <<>> /\ DOMAIN v.tried = {}
  BY DEF Locals, Trail
<1>2. Asking(topo, v)
  BY Zenon, <1>1 DEF Asking, Distinct
<1>3. Trail(fo, v)
  BY Zenon, <1>1 DEF Locals, Trail
<1> QED BY Zenon, <1>2, <1>3 DEF Locals, Labels

-----------------------------------------------------------------------------
\* observeTopology keeps the health of the members that are as they were.
LEMMA ObserveShared ==
  ASSUME Coherent, NEW r \in Requests, ObserveTopology(r)
  PROVE  Shared' /\ topology'.gen \in Nat /\ topology.gen \in Nat /\ topology.gen <= topology'.gen
                 /\ req[r].gen <= topology'.gen
<1>1. /\ sc' = sc /\ active' = active /\ sc \in Scenarios /\ Shared
      /\ req[r].gen \in Gens /\ topology.gen \in Gens \cup {0}
  BY Zenon DEF Coherent, Shared, Locals, ObserveTopology, At, Gens
<1>2. req[r].gen \in Nat /\ req[r].gen # 0 /\ topology.gen \in Nat
  BY <1>1, Pools
<1>3. CASE req[r].gen <= topology.gen
  <2>1. UNCHANGED shared
    BY Zenon, <1>3 DEF ObserveTopology
  <2> QED BY <1>1, <1>2, <1>3, <2>1 DEF Shared, shared, HealthIsCurrent, Topo, Gens
<1>4. CASE ~(req[r].gen <= topology.gen)
  <2> DEFINE ups == Range(Topo[req[r].gen].ups)
             same == {u.id : u \in {v \in ups : (\E w \in topology.ups : w.id = v.id) => v \in topology.ups}}
  <2>1. /\ topology' = [gen |-> req[r].gen, ups |-> ups]
        /\ health' = Keep(health, DOMAIN health \cap same)
    BY Zenon, <1>4 DEF ObserveTopology
  <2>2. topology'.gen = req[r].gen /\ topology'.ups = ups
    BY Zenon, <2>1
  <2>3. DOMAIN health' = DOMAIN health \cap same /\ \A id \in DOMAIN health' : health'[id] = health[id]
    BY Zenon, <2>1 DEF Keep
  <2>4. ASSUME NEW id \in DOMAIN health' PROVE \E u \in ups : u.id = id /\ u.ep = health'[id].ep
    <3>1. PICK u \in ups : u.id = id /\ ((\E w \in topology.ups : w.id = u.id) => u \in topology.ups)
      BY Zenon, <2>3
    <3>2. PICK w \in topology.ups : w.id = id /\ w.ep = health[id].ep
      BY Zenon, <1>1, <2>3 DEF Shared, HealthIsCurrent
    <3>3. topology.gen \in Gens /\ topology.ups = Range(Topo[topology.gen].ups)
      BY Zenon, <1>1, <3>2 DEF Shared
    <3>4. u \in Range(Topo[topology.gen].ups) /\ w \in Range(Topo[topology.gen].ups) /\ u.id = w.id
      BY Zenon, <3>1, <3>2, <3>3
    <3>5. u = w
      BY Zenon, <1>1, <3>3, <3>4, OneMember
    <3> QED BY Zenon, <2>3, <3>1, <3>2, <3>5
  <2>5. HealthIsCurrent'
    BY Zenon, <2>2, <2>4 DEF HealthIsCurrent
  <2>6. Shared'
    BY Zenon, <1>1, <1>2, <2>2, <2>3, <2>5 DEF Shared, Topo, Gens
  <2> QED BY <1>2, <1>4, <2>2, <2>6
<1> QED BY Zenon, <1>3, <1>4

\* recordHealth writes of a member of the newest topology, or nothing.
LEMMA RecordShared ==
  ASSUME Coherent, NEW r \in Requests, At(r, "judge"), NEW STATE ok, ok \in BOOLEAN,
         RecordHealth(r, Head(req[r].order), ok), UNCHANGED <<sc, active, topology>>
  PROVE  Shared'
<1> DEFINE q == req[r]
           u == Head(q.order)
           old == IF u.id \in DOMAIN health THEN health[u.id] ELSE Fresh
           f == IF ok THEN 0 ELSE old.fails + 1
           new == [fails |-> f, down |-> f >= Threshold, cooled |-> FALSE, ep |-> u.ep]
<1>1. Shared /\ sc \in Scenarios /\ Locals(Topo, Fo(r), topology.gen, q) /\ q.pc = "judge"
  BY Zenon DEF Coherent, Shared, At
<1>2. q.gen \in Gens /\ q.gen <= topology.gen /\ u \in Range(Topo[q.gen].ups)
  <2>1. q.gen \in Gens /\ q.gen <= topology.gen
    BY Zenon, <1>1 DEF Locals, Gens
  <2>2. q.order \in Seq(Range(Topo[q.gen].ups)) /\ q.order # <<>>
    BY Zenon, <1>1 DEF Locals, Asking
  <2> QED BY <2>1, <2>2
<1>3. CASE q.gen < topology.gen
  <2>1. health' = health
    BY Zenon, <1>3 DEF RecordHealth
  <2> QED BY Zenon, <1>1, <2>1 DEF Shared, HealthIsCurrent, Topo, Gens
<1>4. CASE ~(q.gen < topology.gen)
  <2>1. health' = [id \in DOMAIN health \cup {u.id} |-> IF id = u.id THEN new ELSE health[id]]
    BY Zenon, <1>4 DEF RecordHealth
  <2>2. q.gen = topology.gen /\ topology.gen # 0 /\ u \in topology.ups
    <3>1. q.gen \in Nat /\ q.gen > 0 /\ topology.gen \in Nat
      BY <1>1, <1>2, Pools DEF Shared
    <3>2. q.gen = topology.gen /\ topology.gen # 0
      BY <1>2, <1>4, <3>1
    <3> QED BY Zenon, <1>1, <1>2, <3>2 DEF Shared
  <2>3. DOMAIN new = {"fails", "down", "cooled", "ep"} /\ new.fails \in Nat /\ new.ep = u.ep
    BY <1>1 DEF Shared, Fresh
  <2> HIDE DEF new
  <2>4. /\ DOMAIN health' = DOMAIN health \cup {u.id} /\ health'[u.id] = new
        /\ \A id \in DOMAIN health' : id # u.id => id \in DOMAIN health /\ health'[id] = health[id]
    BY Zenon, <2>1
  <2>5. ASSUME NEW id \in DOMAIN health'
        PROVE  \E w \in topology.ups : w.id = id /\ w.ep = health'[id].ep
    <3>1. CASE id = u.id
      BY Zenon, <2>2, <2>3, <2>4, <3>1
    <3>2. CASE id # u.id
      BY Zenon, <1>1, <2>4, <3>2 DEF Shared, HealthIsCurrent
    <3> QED BY Zenon, <3>1, <3>2
  <2>6. HealthIsCurrent'
    BY Zenon, <2>5 DEF HealthIsCurrent
  <2> QED BY Zenon, <1>1, <2>3, <2>4, <2>6 DEF Shared, Topo, Gens
<1> QED BY Zenon, <1>3, <1>4
-----------------------------------------------------------------------------
\* The step of one request: the others stay as they are.
LEMMA OneMoves ==
  ASSUME Coherent, NEW r \in Requests, NEW STATE v, Upd(r, v), Shared', sc' = sc,
         topology.gen \in Nat, topology'.gen \in Nat, topology.gen <= topology'.gen,
         Locals(Topo, Fo(r), topology'.gen, v), SlotsExact', slots' <= MaxSlots
  PROVE  Coherent'
<1>1. DOMAIN req' = Requests /\ req'[r] = v /\ \A s \in Requests \ {r} : req'[s] = req[s]
  BY Zenon DEF Upd, Coherent
<1>2. Topo' = Topo /\ \A s \in Requests : Fo(s)' = Fo(s)
  BY Zenon DEF Topo, Fo
<1>3. Topo \in Seq(Range(Topo))
  BY Zenon, ScenarioAssumption DEF Coherent, Shared, Topo
<1>4. ASSUME NEW s \in Requests PROVE Locals(Topo, Fo(s), topology'.gen, req'[s])
  <2>1. CASE s = r
    BY Zenon, <1>1, <2>1
  <2>2. CASE s # r
    <3>1. Locals(Topo, Fo(s), topology.gen, req[s])
      BY Zenon DEF Coherent
    <3>2. Locals(Topo, Fo(s), topology'.gen, req[s])
      BY <1>3, <3>1 DEF Locals, Labels
    <3> QED BY Zenon, <1>1, <2>2, <3>2
  <2> QED BY Zenon, <2>1, <2>2
<1> QED BY Zenon, <1>1, <1>2, <1>4 DEF Coherent

\* Generations are numbers.
LEMMA GenIsNat ==
  ASSUME Coherent
  PROVE  topology.gen \in Nat /\ \A g \in Gens : g \in Nat
<1>1. Topo \in Seq(Range(Topo)) /\ topology.gen \in Gens \cup {0}
  BY Zenon, ScenarioAssumption DEF Coherent, Shared, Topo
<1> QED BY <1>1 DEF Gens

\* A step that leaves the topology and the health alone.
LEMMA OneMovesAlone ==
  ASSUME Coherent, NEW r \in Requests, NEW STATE v, Upd(r, v),
         UNCHANGED <<sc, active, topology, health>>,
         Locals(Topo, Fo(r), topology.gen, v), SlotsExact', slots' <= MaxSlots
  PROVE  Coherent'
<1>1. Shared'
  BY Zenon DEF Coherent, Shared, HealthIsCurrent, Topo, Gens
<1>2. topology.gen \in Nat /\ topology'.gen = topology.gen
  BY Zenon, GenIsNat
<1>3. topology.gen <= topology'.gen
  BY <1>2
<1> QED BY Zenon, <1>1, <1>2, <1>3, OneMoves

LEMMA LoadStep ==
  ASSUME Coherent, NEW r \in Requests, Load(r)
  PROVE  Coherent'
<1> DEFINE v == [req[r] EXCEPT !.pc = "slot", !.gen = active]
<1>1. /\ Locals(Topo, Fo(r), topology.gen, req[r]) /\ req[r].pc = "idle"
      /\ Upd(r, v) /\ UNCHANGED <<sc, active, topology, health, slots>> /\ active \in DOMAIN Topo
  BY Zenon DEF Coherent, Shared, Load, At, shared, Gens
<1>2. /\ DOMAIN v = Fields /\ v.pc = "slot" /\ v.gen = active /\ v.tried = req[r].tried
      /\ v.rcode = req[r].rcode
  BY Zenon, <1>1 DEF Locals, Fields
<1> HIDE DEF v
<1>3. Locals(Topo, Fo(r), topology.gen, v)
  BY Zenon, <1>1, <1>2, Waiting
<1>4. SlotsExact' /\ slots' <= MaxSlots
  BY Zenon, <1>1, <1>2, SlotStep DEF Coherent
<1> QED BY Zenon, <1>1, <1>3, <1>4, OneMovesAlone
LEMMA EndContextStep ==
  ASSUME Coherent, NEW r \in Requests, NEW how, EndContext(r, how)
  PROVE  Coherent'
<1> DEFINE v == [req[r] EXCEPT !.ctx = how]
<1>1. /\ Locals(Topo, Fo(r), topology.gen, req[r])
      /\ Upd(r, v) /\ UNCHANGED <<sc, active, topology, health, slots>>
  BY Zenon DEF Coherent, EndContext, shared
<1>2. /\ DOMAIN v = Fields /\ v.pc = req[r].pc /\ v.gen = req[r].gen /\ v.order = req[r].order
      /\ v.tried = req[r].tried /\ v.rcode = req[r].rcode
  BY Zenon, <1>1 DEF Locals, Fields
<1> HIDE DEF v
<1>3. Locals(Topo, Fo(r), topology.gen, v)
  BY Zenon, <1>1, <1>2, SamePlace
<1>4. SlotsExact' /\ slots' <= MaxSlots
  BY Zenon, <1>1, <1>2, SlotStep DEF Coherent
<1> QED BY Zenon, <1>1, <1>3, <1>4, OneMovesAlone

LEMMA AcquireStep ==
  ASSUME Coherent, NEW r \in Requests, Acquire(r)
  PROVE  Coherent'
<1>1. /\ Locals(Topo, Fo(r), topology.gen, req[r]) /\ req[r].pc = "slot"
      /\ UNCHANGED <<sc, active, topology, health>>
  BY Zenon DEF Coherent, Acquire, At, shared
<1>2. CASE slots < MaxSlots /\ slots' = slots + 1 /\ Upd(r, [req[r] EXCEPT !.pc = "observe"])
  <2> DEFINE v == [req[r] EXCEPT !.pc = "observe"]
  <2>1. /\ DOMAIN v = Fields /\ v.pc = "observe" /\ v.gen = req[r].gen /\ v.tried = req[r].tried
        /\ v.rcode = req[r].rcode
    BY Zenon, <1>1 DEF Locals, Fields
  <2>2. Upd(r, v)
    BY Zenon, <1>2
  <2> HIDE DEF v
  <2>3. req[r].gen \in DOMAIN Topo
    BY Zenon, <1>1 DEF Locals
  <2>4. Locals(Topo, Fo(r), topology.gen, v)
    BY Zenon, <1>1, <2>1, <2>3, Waiting
  <2>5. SlotsExact' /\ slots' <= MaxSlots
    BY Zenon, <1>1, <1>2, <2>1, <2>2, SlotStep DEF Coherent
  <2> QED BY Zenon, <1>1, <2>2, <2>4, <2>5, OneMovesAlone
<1>3. CASE Upd(r, [req[r] EXCEPT !.pc = "done", !.err = "context"]) /\ slots' = slots
  <2> DEFINE v == [req[r] EXCEPT !.pc = "done", !.err = "context"]
  <2>1. DOMAIN v = Fields /\ v.pc = "done" /\ v.tried = req[r].tried /\ v.rcode = req[r].rcode
    BY Zenon, <1>1 DEF Locals, Fields
  <2>2. Upd(r, v)
    BY Zenon, <1>3
  <2> HIDE DEF v
  <2>3. Locals(Topo, Fo(r), topology.gen, v)
    BY Zenon, <1>1, <2>1, Stopping
  <2>4. SlotsExact' /\ slots' <= MaxSlots
    BY Zenon, <1>1, <1>3, <2>1, <2>2, SlotStep DEF Coherent
  <2> QED BY Zenon, <1>1, <2>2, <2>3, <2>4, OneMovesAlone
<1> QED BY Zenon, <1>2, <1>3 DEF Acquire

LEMMA ObserveStep ==
  ASSUME Coherent, NEW r \in Requests, ObserveTopology(r)
  PROVE  Coherent'
<1> DEFINE v == [req[r] EXCEPT !.pc = "order"]
<1>1. /\ Locals(Topo, Fo(r), topology.gen, req[r]) /\ req[r].pc = "observe"
      /\ Upd(r, v) /\ UNCHANGED <<sc, slots>>
  BY Zenon DEF Coherent, ObserveTopology, At
<1>2. /\ DOMAIN v = Fields /\ v.pc = "order" /\ v.gen = req[r].gen /\ v.tried = req[r].tried
      /\ v.rcode = req[r].rcode
  BY Zenon, <1>1 DEF Locals, Fields
<1> HIDE DEF v
<1>3. /\ Shared' /\ topology.gen \in Nat /\ topology'.gen \in Nat /\ topology.gen <= topology'.gen
      /\ v.gen <= topology'.gen
  BY Zenon, <1>2, ObserveShared
<1>4. req[r].gen \in DOMAIN Topo /\ Asking(Topo, v) /\ Trail(Fo(r), v)
  <2>1. req[r].gen \in DOMAIN Topo /\ v.tried = <<>> /\ Trail(Fo(r), req[r])
    BY Zenon, <1>1, <1>2 DEF Locals, Trail
  <2> QED BY Zenon, <1>1, <1>2, <2>1 DEF Asking, Trail
<1>5. Locals(Topo, Fo(r), topology'.gen, v)
  BY Zenon, <1>2, <1>3, <1>4 DEF Locals, Labels
<1>6. SlotsExact' /\ slots' <= MaxSlots
  BY Zenon, <1>1, <1>2, SlotStep DEF Coherent
<1> QED BY Zenon, <1>1, <1>3, <1>5, <1>6, OneMoves

\* The deferred receive, for a request whose code was decided before.
LEMMA ReturnStep ==
  ASSUME Coherent, NEW r \in Requests, NEW STATE w, Return(r, w), DOMAIN w = Fields,
         w.tried = req[r].tried, req[r].pc \in {"order", "finish"},
         w.rcode \notin Rcodes \ {"SERVFAIL"} \/ w.rcode = req[r].rcode
  PROVE  Coherent'
<1> DEFINE v == [w EXCEPT !.pc = "done", !.order = <<>>]
<1>1. /\ Locals(Topo, Fo(r), topology.gen, req[r])
      /\ Upd(r, v) /\ slots' = slots - 1 /\ UNCHANGED <<sc, active, topology, health>>
  BY Zenon DEF Coherent, Return, shared
<1>2. DOMAIN v = Fields /\ v.pc = "done" /\ v.tried = req[r].tried /\ v.rcode = w.rcode
  BY Zenon DEF Fields
<1> HIDE DEF v
<1>3. Locals(Topo, Fo(r), topology.gen, v)
  BY Zenon, <1>1, <1>2, Stopping
<1>4. SlotsExact' /\ slots' <= MaxSlots
  BY Zenon, <1>1, <1>2, SlotStep DEF Coherent
<1> QED BY Zenon, <1>1, <1>3, <1>4, OneMovesAlone
LEMMA UnknownPolicyStep ==
  ASSUME Coherent, NEW r \in Requests, UnknownPolicy(r)
  PROVE  Coherent'
<1> DEFINE w == [req[r] EXCEPT !.rcode = "SERVFAIL", !.err = "policy"]
<1>1. Locals(Topo, Fo(r), topology.gen, req[r]) /\ req[r].pc = "order" /\ Return(r, w)
  BY Zenon DEF Coherent, UnknownPolicy, At
<1>2. DOMAIN w = Fields /\ w.tried = req[r].tried /\ w.rcode = "SERVFAIL"
  BY Zenon, <1>1 DEF Locals, Fields
<1> HIDE DEF w
<1> QED BY Zenon, <1>1, <1>2, ReturnStep

LEMMA FinishStep ==
  ASSUME Coherent, NEW r \in Requests, Finish(r)
  PROVE  Coherent'
<1>1. DOMAIN req[r] = Fields
  BY Zenon DEF Coherent, Locals
<1> QED BY Zenon, <1>1, ReturnStep DEF Finish, At

LEMMA OrderStep ==
  ASSUME Coherent, NEW r \in Requests, Order(r)
  PROVE  Coherent'
<1> DEFINE q == req[r]
           pool == Topo[q.gen]
           n == Len(pool.ups)
           o == q.opts
<1>1. /\ Locals(Topo, Fo(r), topology.gen, q) /\ q.pc = "order" /\ sc \in Scenarios
      /\ UNCHANGED <<sc, active, topology, health, slots>>
  BY Zenon DEF Coherent, Shared, Order, At
<1>2. PICK k \in 0..(n - 1), p \in [1..n -> 1..n] :
        /\ Ordered(pool, k, p)
        /\ Upd(r, [q EXCEPT !.order = Forced([i \in 1..n |-> pool.ups[p[i]]], o),
                     !.pc = IF o.synthetic THEN "finish" ELSE "next",
                     !.rcode = IF o.synthetic THEN "synthetic" ELSE ""])
  BY Zenon DEF Order
<1> DEFINE s == [i \in 1..n |-> pool.ups[p[i]]]
           v == [q EXCEPT !.order = Forced(s, o), !.pc = IF o.synthetic THEN "finish" ELSE "next",
                          !.rcode = IF o.synthetic THEN "synthetic" ELSE ""]
<1>3. q.gen \in Gens
  BY Zenon, <1>1 DEF Locals, Gens
<1>4. pool.ups \in Seq(Range(pool.ups)) /\ pool.ups # <<>> /\ Distinct(pool.ups)
  BY Zenon, <1>1, <1>3, Pools DEF Distinct
<1>5. s \in Seq(Range(pool.ups)) /\ s # <<>> /\ Distinct(s)
  BY Zenon, <1>2, <1>4, PoolOrder
<1> HIDE DEF s
<1>6. Forced(s, o) \in Seq(Range(pool.ups)) /\ Distinct(Forced(s, o))
  BY Zenon, <1>5, ForcedOrder
<1>7. /\ DOMAIN v = Fields /\ v.order = Forced(s, o) /\ v.gen = q.gen /\ v.tried = q.tried
      /\ v.pc = IF o.synthetic THEN "finish" ELSE "next"
      /\ v.rcode = IF o.synthetic THEN "synthetic" ELSE ""
  BY Zenon, <1>1 DEF Locals, Fields
<1>8. Upd(r, v)
  BY Zenon, <1>2 DEF s
<1> HIDE DEF v
<1>9. v.rcode \notin Rcodes
  BY Zenon, <1>7 DEF Rcodes
<1>10. Locals(Topo, Fo(r), topology.gen, v)
  <2>1. CASE o.synthetic
    BY Zenon, <1>1, <1>7, <1>9, <2>1, Stopping
  <2>2. CASE ~o.synthetic
    BY Zenon, <1>1, <1>6, <1>7, <1>9, <2>2, Ordering
  <2> QED BY Zenon, <2>1, <2>2
<1>11. v.pc \in {"finish", "next"}
  BY Zenon, <1>7
<1>12. SlotsExact' /\ slots' <= MaxSlots
  BY Zenon, <1>1, <1>8, <1>11, SlotStep DEF Coherent
<1> QED BY Zenon, <1>1, <1>8, <1>10, <1>12, OneMovesAlone

\* The loop without an attempt: no upstream left, the context over, a fault.
LEMMA SkipLocals ==
  ASSUME Coherent, NEW r \in Requests, req[r].pc = "next", req[r].order # <<>>,
         NEW STATE on, NEW STATE o
  PROVE  Locals(Topo, Fo(r), topology.gen, Skip(req[r], on, o))
         /\ Skip(req[r], on, o).pc \in {"next", "finish"}
<1> DEFINE q == req[r]
<1>1. Locals(Topo, Fo(r), topology.gen, q) /\ DOMAIN q = Fields
  BY Zenon DEF Coherent, Locals
<1>2. CASE on
  <2> DEFINE v == [q EXCEPT !.order = Tail(@), !.rcode = "SERVFAIL", !.opts = o]
  <2>1. /\ DOMAIN v = Fields /\ v.pc = "next" /\ v.gen = q.gen /\ v.order = Tail(q.order)
        /\ v.tried = q.tried /\ v.rcode = "SERVFAIL"
    BY Zenon, <1>1 DEF Fields
  <2>2. Skip(q, on, o) = v
    BY Zenon, <1>2 DEF Skip
  <2> HIDE DEF v
  <2>3. Locals(Topo, Fo(r), topology.gen, v)
    BY Zenon, <1>1, <2>1, Passing
  <2> QED BY Zenon, <2>1, <2>2, <2>3
<1>3. CASE ~on
  <2> DEFINE v == [q EXCEPT !.pc = "finish", !.rcode = "SERVFAIL"]
  <2>1. /\ DOMAIN v = Fields /\ v.pc = "finish" /\ v.gen = q.gen /\ v.tried = q.tried
        /\ v.rcode = "SERVFAIL"
    BY Zenon, <1>1 DEF Fields
  <2>2. Skip(q, on, o) = v
    BY Zenon, <1>3 DEF Skip
  <2> HIDE DEF v
  <2>3. Locals(Topo, Fo(r), topology.gen, v)
    BY Zenon, <1>1, <2>1, Stopping
  <2> QED BY Zenon, <2>1, <2>2, <2>3
<1> QED BY Zenon, <1>2, <1>3
LEMMA NextUpstreamStep ==
  ASSUME Coherent, NEW r \in Requests, NextUpstream(r)
  PROVE  Coherent'
<1> DEFINE q == req[r]
<1>1. /\ Locals(Topo, Fo(r), topology.gen, q) /\ DOMAIN q = Fields /\ q.pc = "next"
      /\ UNCHANGED <<sc, active, topology, health>>
  BY Zenon DEF Coherent, Locals, NextUpstream, At, shared
<1>2. ASSUME NEW STATE v, Upd(r, v), Locals(Topo, Fo(r), topology.gen, v),
             \/ v.pc \in {"next", "attempt", "finish"} /\ slots' = slots
             \/ v.pc = "done" /\ slots' = slots - 1
      PROVE  Coherent'
  <2>1. SlotsExact' /\ slots' <= MaxSlots
    BY Zenon, <1>1, <1>2, SlotStep DEF Coherent
  <2> QED BY Zenon, <1>1, <1>2, <2>1, OneMovesAlone
<1>3. CASE q.order = <<>>
  <2> DEFINE v == [q EXCEPT !.pc = "finish", !.rcode = IF @ = "" THEN "SERVFAIL" ELSE @]
  <2>1. /\ DOMAIN v = Fields /\ v.pc = "finish" /\ v.gen = q.gen /\ v.tried = q.tried
        /\ v.rcode = IF q.rcode = "" THEN "SERVFAIL" ELSE q.rcode
    BY Zenon, <1>1 DEF Fields
  <2>2. Upd(r, v) /\ slots' = slots
    BY Zenon, <1>3 DEF NextUpstream
  <2> HIDE DEF v
  <2>3. Locals(Topo, Fo(r), topology.gen, v)
    BY Zenon, <1>1, <2>1, Stopping
  <2> QED BY Zenon, <1>2, <2>1, <2>2, <2>3
<1>4. CASE q.order # <<>> /\ q.ctx # "live"
  <2> DEFINE v == [q EXCEPT !.pc = "done", !.order = <<>>, !.rcode = "", !.err = "context"]
  <2>1. DOMAIN v = Fields /\ v.pc = "done" /\ v.tried = q.tried /\ v.rcode \notin Rcodes
    BY Zenon, <1>1 DEF Fields, Rcodes
  <2>2. Upd(r, v) /\ slots' = slots - 1
    BY Zenon, <1>4 DEF NextUpstream
  <2> HIDE DEF v
  <2>3. Locals(Topo, Fo(r), topology.gen, v)
    BY Zenon, <1>1, <2>1, Stopping
  <2> QED BY Zenon, <1>2, <2>1, <2>2, <2>3
<1>5. CASE q.order # <<>> /\ q.ctx = "live"
  <2> DEFINE a == [q EXCEPT !.pc = "attempt"]
             v == Turn(q, Fo(r))
  <2>1. Upd(r, v) /\ slots' = slots
    BY Zenon, <1>5 DEF NextUpstream
  <2>2. \/ v = a \/ v = Skip(q, Fo(r).transport, q.opts)
        \/ v = Skip(q, Fo(r).timeout, [q.opts EXCEPT !.timeout = FALSE])
        \/ v = Skip(q, Fo(r).transport, [q.opts EXCEPT !.transport = FALSE])
    BY Zenon DEF Turn
  <2>3. DOMAIN a = Fields /\ a.pc = "attempt" /\ a.gen = q.gen /\ a.order = q.order /\ a.tried = q.tried
    BY Zenon, <1>1 DEF Fields
  <2> HIDE DEF a, v
  <2>4. Locals(Topo, Fo(r), topology.gen, a)
    BY Zenon, <1>1, <1>5, <2>3, Stepping
  <2>5. Locals(Topo, Fo(r), topology.gen, v) /\ v.pc \in {"next", "attempt", "finish"}
    <3>1. CASE v = a
      BY Zenon, <2>3, <2>4, <3>1
    <3>2. ASSUME v # a PROVE Locals(Topo, Fo(r), topology.gen, v) /\ v.pc \in {"next", "finish"}
      <4>1. ASSUME NEW STATE on, NEW STATE o, v = Skip(q, on, o)
            PROVE  Locals(Topo, Fo(r), topology.gen, v) /\ v.pc \in {"next", "finish"}
        BY Zenon, <1>1, <1>5, <4>1, SkipLocals
      <4> QED BY Zenon, <2>2, <3>2, <4>1
    <3> QED BY Zenon, <3>1, <3>2
  <2> QED BY Zenon, <1>2, <2>1, <2>5
<1> QED BY Zenon, <1>3, <1>4, <1>5

LEMMA AttemptStep ==
  ASSUME Coherent, NEW r \in Requests, NEW reply, Attempt(r, reply)
  PROVE  Coherent'
<1> DEFINE q == req[r]
           out == IF reply = "truncated" THEN "invalid" ELSE reply
           w == [q EXCEPT !.retry = TRUE]
           v == [q EXCEPT !.pc = "judge", !.retry = FALSE,
                          !.tried = Append(@, [id |-> Head(q.order).id, out |-> out])]
<1>1. /\ Locals(Topo, Fo(r), topology.gen, q) /\ DOMAIN q = Fields /\ q.pc = "attempt"
      /\ UNCHANGED <<sc, active, topology, health, slots>>
  BY Zenon DEF Coherent, Locals, Attempt, At, shared
<1>2. Upd(r, w) \/ Upd(r, v)
  BY Zenon DEF Attempt
<1>3. /\ DOMAIN w = Fields /\ w.pc = "attempt" /\ w.gen = q.gen /\ w.order = q.order
      /\ w.tried = q.tried /\ w.rcode = q.rcode
  BY Zenon, <1>1 DEF Fields
<1>4. /\ DOMAIN v = Fields /\ v.pc = "judge" /\ v.gen = q.gen /\ v.order = q.order
      /\ v.tried = Append(q.tried, [id |-> Head(q.order).id, out |-> out])
  BY Zenon, <1>1 DEF Fields
<1> HIDE DEF v, w, out
<1>5. Locals(Topo, Fo(r), topology.gen, w) /\ Locals(Topo, Fo(r), topology.gen, v)
  BY Zenon, <1>1, <1>3, <1>4, SamePlace, Attempting
<1>6. SlotsExact' /\ slots' <= MaxSlots
  BY Zenon, <1>1, <1>2, <1>3, <1>4, SlotStep DEF Coherent
<1> QED BY Zenon, <1>1, <1>2, <1>5, <1>6, OneMovesAlone

\* What the code fails over on is what the policy says.
LEMMA FailsOverAllows ==
  ASSUME NEW STATE fo, NEW STATE out
  PROVE  FailsOver(fo, out) = Allows(fo, out)
BY Zenon DEF FailsOver, Allows

LEMMA JudgeStep ==
  ASSUME Coherent, NEW r \in Requests, Judge(r)
  PROVE  Coherent'
<1> DEFINE q == req[r]
           out == q.tried[Len(q.tried)].out
           ok == out \in Rcodes
           on == FailsOver(Fo(r), out)
<1>1. /\ Locals(Topo, Fo(r), topology.gen, q) /\ DOMAIN q = Fields /\ q.pc = "judge" /\ At(r, "judge")
      /\ UNCHANGED <<sc, active, topology>> /\ topology.gen \in Nat
  BY Zenon, GenIsNat DEF Coherent, Locals, Judge, At
<1>2. Shared'
  <2>1. CASE RecordHealth(r, Head(q.order), ok)
    <3>1. ok \in BOOLEAN
      OBVIOUS
    <3> HIDE DEF ok
    <3> QED BY Zenon, <1>1, <2>1, <3>1, RecordShared
  <2>2. CASE RecordHealth(r, Head(q.order), FALSE)
    BY Zenon, <1>1, <2>2, RecordShared
  <2>3. CASE health' = health
    BY Zenon, <1>1, <2>3 DEF Coherent, Shared, HealthIsCurrent, Topo, Gens
  <2> QED BY Zenon, <2>1, <2>2, <2>3 DEF Judge
<1>3. ASSUME NEW STATE v, Upd(r, v), Locals(Topo, Fo(r), topology.gen, v),
             \/ v.pc \in {"next", "finish"} /\ slots' = slots
             \/ v.pc = "done" /\ slots' = slots - 1
      PROVE  Coherent'
  <2>1. SlotsExact' /\ slots' <= MaxSlots
    BY Zenon, <1>1, <1>3, SlotStep DEF Coherent
  <2>2. topology'.gen = topology.gen /\ topology.gen <= topology'.gen
    BY <1>1
  <2> QED BY Zenon, <1>1, <1>2, <1>3, <2>1, <2>2, OneMoves
<1>4. CASE ~ok /\ q.ctx # "live"
  <2> DEFINE v == [q EXCEPT !.pc = "done", !.order = <<>>, !.rcode = "", !.err = "context"]
  <2>1. DOMAIN v = Fields /\ v.pc = "done" /\ v.tried = q.tried /\ v.rcode \notin Rcodes
    BY Zenon, <1>1 DEF Fields, Rcodes
  <2>2. Upd(r, v) /\ slots' = slots - 1
    BY Zenon, <1>4 DEF Judge
  <2> HIDE DEF v
  <2>3. Locals(Topo, Fo(r), topology.gen, v)
    BY Zenon, <1>1, <2>1, Stopping
  <2> QED BY Zenon, <1>3, <2>1, <2>2, <2>3
<1>5. CASE ~(~ok /\ q.ctx # "live")
  <2> DEFINE v == [q EXCEPT !.rcode = IF ok THEN out ELSE "SERVFAIL",
                            !.order = IF on THEN Tail(@) ELSE @,
                            !.pc = IF on THEN "next" ELSE "finish"]
  <2>1. /\ DOMAIN v = Fields /\ v.gen = q.gen /\ v.tried = q.tried
        /\ v.rcode \in {"SERVFAIL", out} /\ (v.rcode = "SERVFAIL" \/ v.rcode = out)
        /\ on => v.pc = "next" /\ v.order = Tail(q.order)
        /\ ~on => v.pc = "finish"
    BY Zenon, <1>1 DEF Fields
  <2>2. Upd(r, v) /\ slots' = slots
    BY Zenon, <1>5 DEF Judge
  <2> HIDE DEF v
  <2>3. CASE on
    <3>1. Allows(Fo(r), out)
      BY Zenon, <2>3, FailsOverAllows
    <3>2. Locals(Topo, Fo(r), topology.gen, v)
      BY Zenon, <1>1, <2>1, <2>3, <3>1, FailingOver
    <3> QED BY Zenon, <1>3, <2>1, <2>2, <2>3, <3>2
  <2>4. CASE ~on
    <3>1. Locals(Topo, Fo(r), topology.gen, v)
      BY Zenon, <1>1, <2>1, <2>4, Stopping
    <3> QED BY Zenon, <1>3, <2>1, <2>2, <2>4, <3>1
  <2> QED BY Zenon, <2>3, <2>4
<1> QED BY Zenon, <1>4, <1>5

LEMMA CooldownStep ==
  ASSUME Coherent, NEW id, Cooldown(id)
  PROVE  Coherent'
<1>1. /\ id \in DOMAIN health /\ UNCHANGED <<sc, active, topology, slots, req>>
      /\ health' = [health EXCEPT ![id] = [health[id] EXCEPT !.cooled = TRUE]]
  BY Zenon DEF Cooldown
<1> DEFINE h == [health[id] EXCEPT !.cooled = TRUE]
<1>2. /\ DOMAIN h = {"fails", "down", "cooled", "ep"} /\ h.fails = health[id].fails
      /\ h.ep = health[id].ep /\ h.fails \in Nat
  BY Zenon, <1>1 DEF Coherent, Shared
<1> HIDE DEF h
<1>3. /\ DOMAIN health' = DOMAIN health /\ health'[id] = h
      /\ \A x \in DOMAIN health : x # id => health'[x] = health[x]
  BY Zenon, <1>1 DEF h
<1>4. \A x \in DOMAIN health' : health'[x].ep = health[x].ep /\ health'[x].fails \in Nat
         /\ DOMAIN health'[x] = {"fails", "down", "cooled", "ep"}
  BY Zenon, <1>2, <1>3 DEF Coherent, Shared
<1>5. HealthIsCurrent'
  <2>1. ASSUME NEW x \in DOMAIN health'
        PROVE  \E u \in topology.ups : u.id = x /\ u.ep = health'[x].ep
    <3>1. PICK u \in topology.ups : u.id = x /\ u.ep = health[x].ep
      BY Zenon, <1>3 DEF Coherent, Shared, HealthIsCurrent
    <3> QED BY Zenon, <1>4, <3>1
  <2> QED BY Zenon, <1>1, <2>1 DEF HealthIsCurrent
<1>6. Shared'
  BY Zenon, <1>1, <1>4, <1>5 DEF Coherent, Shared, Topo, Gens
<1> QED BY Zenon, <1>1, <1>6 DEF Coherent, SlotsExact, Busy, Topo, Fo

\* Before the first request there is nothing to be incoherent.
LEMMA InitCoherent == Init => Coherent
<1>1. SUFFICES ASSUME Init PROVE Coherent
  BY Zenon
<1>2. /\ sc \in Scenarios /\ Topo \in Seq(Range(Topo)) /\ Topo # <<>>
      /\ active = 1 /\ health = <<>> /\ slots = 0
  BY Zenon, <1>1, ScenarioAssumption DEF Init, Topo
<1>3. active \in Gens
  BY <1>2 DEF Gens
<1>4. DOMAIN health = {}
  BY <1>2
<1>5. Shared
  BY Zenon, <1>1, <1>2, <1>3, <1>4 DEF Init, Shared, HealthIsCurrent
<1>6. ASSUME NEW r \in Requests PROVE Locals(Topo, Fo(r), topology.gen, req[r])
  <2>1. /\ DOMAIN req[r] = Fields /\ req[r].pc = "idle" /\ req[r].tried = <<>>
        /\ req[r].rcode \notin Rcodes
    BY Zenon, <1>1 DEF Init, Fields, Rcodes
  <2>2. Trail(Fo(r), req[r])
    BY <2>1 DEF Trail
  <2>3. Asking(Topo, req[r])
    BY Zenon, <2>1 DEF Asking
  <2> QED BY Zenon, <2>1, <2>2, <2>3 DEF Locals, Labels
<1>7. {r \in Requests : Busy(r)} = {}
  BY Zenon, <1>1 DEF Init, Busy
<1>8. SlotsExact /\ slots <= MaxSlots
  <2>1. SlotsExact
    BY Zenon, <1>2, <1>7, FS_EmptySet DEF SlotsExact
  <2>2. slots <= MaxSlots
    BY <1>2, RequestsAssumption
  <2> QED BY Zenon, <2>1, <2>2
<1>9. DOMAIN req = Requests
  BY Zenon, <1>1 DEF Init
<1> QED BY Zenon, <1>5, <1>6, <1>8, <1>9 DEF Coherent

\* Every step of every request keeps the invariant.
LEMMA NextCoherent == Coherent /\ [Next]_vars => Coherent'
<1>1. SUFFICES ASSUME Coherent, [Next]_vars PROVE Coherent'
  BY Zenon
<1>2. ASSUME NEW r \in Requests, Exchange(r) PROVE Coherent'
  <2>1. CASE Acquire(r)
    BY Zenon, <1>1, <2>1, AcquireStep
  <2>2. CASE ObserveTopology(r)
    BY Zenon, <1>1, <2>2, ObserveStep
  <2>3. CASE UnknownPolicy(r)
    BY Zenon, <1>1, <2>3, UnknownPolicyStep
  <2>4. CASE Order(r)
    BY Zenon, <1>1, <2>4, OrderStep
  <2>5. CASE NextUpstream(r)
    BY Zenon, <1>1, <2>5, NextUpstreamStep
  <2>6. CASE Judge(r)
    BY Zenon, <1>1, <2>6, JudgeStep
  <2>7. CASE Finish(r)
    BY Zenon, <1>1, <2>7, FinishStep
  <2>8. CASE \E reply \in Replies : Attempt(r, reply)
    BY Zenon, <1>1, <2>8, AttemptStep
  <2> QED BY Zenon, <1>2, <2>1, <2>2, <2>3, <2>4, <2>5, <2>6, <2>7, <2>8 DEF Exchange
<1>3. ASSUME active' \in Gens, UNCHANGED <<sc, shared, slots, req>> PROVE Coherent'
  <2>1. Shared'
    BY Zenon, <1>1, <1>3 DEF Coherent, Shared, HealthIsCurrent, Topo, Gens, shared
  <2> QED BY Zenon, <1>1, <1>3, <2>1 DEF Coherent, SlotsExact, Busy, Topo, Fo, shared
<1>4. CASE Activate
  BY Zenon, <1>3, <1>4 DEF Activate
<1>5. CASE UNCHANGED vars
  <2>1. active' \in Gens
    BY Zenon, <1>1, <1>5 DEF vars, Coherent, Shared
  <2> QED BY Zenon, <1>3, <1>5, <2>1 DEF vars, shared
<1>6. ASSUME NEW r \in Requests, Load(r) \/ \E how \in {"cancelled", "expired"} : EndContext(r, how)
      PROVE  Coherent'
  BY Zenon, <1>1, <1>6, LoadStep, EndContextStep
<1> QED BY Zenon, <1>1, <1>2, <1>4, <1>5, <1>6, CooldownStep DEF Next, Rest

\* Requests ask as they may and what they share is that of the newest topology,
\* for any number of requests, snapshots and upstreams.
THEOREM ExchangesCoherent == Spec => []Coherent
BY InitCoherent, NextCoherent, PTL DEF Spec

\* recordHealth and observeTopology leave no entry of an upstream, or of an
\* endpoint, that the newest snapshot does not have.
THEOREM HealthStaysCurrent == Spec => []HealthIsCurrent
<1>1. Coherent => HealthIsCurrent
  BY Zenon DEF Coherent, Shared
<1> QED BY <1>1, ExchangesCoherent, PTL

\* Runtime.slots holds one token for each exchange under way.
THEOREM SlotsCounted == Spec => []SlotsExact
<1>1. Coherent => SlotsExact
  BY Zenon DEF Coherent
<1> QED BY <1>1, ExchangesCoherent, PTL

\* ExchangeOpts fails over only as the policy says, asks no upstream twice and
\* returns what the last one said.
THEOREM FailoverAllowed == Spec => []FailsOverAsAllowed
<1>1. ASSUME Coherent PROVE FailsOverAsAllowed
  <2>1. ASSUME NEW r \in Requests PROVE Trail(Fo(r), req[r])
    BY Zenon, <1>1 DEF Coherent, Locals
  <2>2. ASSUME NEW r \in Requests, NEW i \in 1..(Len(req[r].tried) - 1)
        PROVE  i \in DOMAIN req[r].tried /\ i # Len(req[r].tried)
    <3>1. req[r].tried \in Seq(Range(req[r].tried))
      BY Zenon, <2>1 DEF Trail
    <3> QED BY <3>1
  <2> QED BY Zenon, <2>1, <2>2 DEF Trail, FailsOverAsAllowed, At
<1> QED BY <1>1, ExchangesCoherent, PTL

-----------------------------------------------------------------------------
\* The failures of an upstream grow only when a request that was not cancelled
\* judges its attempt there (ExchangeOpts, RecordFailure).
LEMMA BlameStep ==
  ASSUME Coherent, Next, NEW id \in DOMAIN health',
         health'[id].fails > (IF id \in DOMAIN health THEN health[id].fails ELSE 0)
  PROVE  \E r \in Requests : /\ At(r, "judge") /\ ~(At(r, "judge"))'
                             /\ Head(req[r].order).id = id /\ req[r].ctx # "cancelled"
<1>1. ~(id \in DOMAIN health /\ health'[id].fails = health[id].fails)
  BY DEF Coherent, Shared
<1>2. health' # health
  BY Zenon, <1>1
<1>3. ASSUME NEW r \in Requests, ObserveTopology(r) PROVE FALSE
  <2>1. health' = health \/ \E S : health' = Keep(health, DOMAIN health \cap S)
    BY Zenon, <1>3 DEF ObserveTopology, shared
  <2> QED BY Zenon, <1>1, <1>2, <2>1 DEF Keep
<1>4. ASSUME NEW x, Cooldown(x) PROVE FALSE
  <2> DEFINE h == [health[x] EXCEPT !.cooled = TRUE]
  <2>1. x \in DOMAIN health /\ health' = [health EXCEPT ![x] = h]
    BY Zenon, <1>4 DEF Cooldown
  <2>2. h.fails = health[x].fails
    BY Zenon, <2>1 DEF Coherent, Shared
  <2> HIDE DEF h
  <2> QED BY Zenon, <1>1, <2>1, <2>2
<1>5. PICK r \in Requests : Judge(r)
  BY Zenon, <1>2, <1>3, <1>4 DEF Next, Rest, Exchange, Activate, Load, EndContext, Acquire,
     UnknownPolicy, Order, NextUpstream, Finish, Return, Attempt, shared, vars
<1> DEFINE q == req[r]
           u == Head(q.order)
           out == q.tried[Len(q.tried)].out
           ok == out \in Rcodes
<1>6. At(r, "judge") /\ DOMAIN q = Fields
  BY Zenon, <1>5 DEF Judge, Coherent, Locals
<1>7. ~(At(r, "judge"))'
  <2>1. req'[r].pc \in {"done", "next", "finish"}
    BY Zenon, <1>5, <1>6 DEF Judge, Upd, Coherent, Fields
  <2> QED BY Zenon, <2>1 DEF At
<1>8. \/ q.ctx = "expired" /\ RecordHealth(r, u, FALSE)
      \/ (ok \/ q.ctx = "live") /\ RecordHealth(r, u, ok)
  BY Zenon, <1>2, <1>5 DEF Judge, Blames
<1>9. ASSUME NEW STATE b, RecordHealth(r, u, b) PROVE id = u.id /\ ~b
  <2> DEFINE old == IF u.id \in DOMAIN health THEN health[u.id] ELSE Fresh
             f == IF b THEN 0 ELSE old.fails + 1
             new == [fails |-> f, down |-> f >= Threshold, cooled |-> FALSE, ep |-> u.ep]
  <2>1. health' = [x \in DOMAIN health \cup {u.id} |-> IF x = u.id THEN new ELSE health[x]]
    BY Zenon, <1>2, <1>9 DEF RecordHealth
  <2>2. new.fails = f
    BY Zenon
  <2> HIDE DEF new
  <2>3. id = u.id /\ health'[id].fails = f
    BY Zenon, <1>1, <2>1, <2>2
  <2>4. CASE b
    <3>1. health'[id].fails = 0
      BY Zenon, <2>3, <2>4
    <3> QED BY <3>1 DEF Coherent, Shared
  <2> QED BY Zenon, <2>3, <2>4
<1>10. u.id = id /\ q.ctx # "cancelled"
  BY Zenon, <1>8, <1>9
<1> QED BY Zenon, <1>6, <1>7, <1>10

\* A cancelled caller counts against no upstream (ExchangeOpts, recordHealth).
THEOREM CancelledBlamesNobody == Spec => CancelBlamesNobody
<1>1. Coherent /\ [Next]_vars =>
        [\A id \in DOMAIN health' :
           health'[id].fails > (IF id \in DOMAIN health THEN health[id].fails ELSE 0)
           => \E r \in Requests : /\ At(r, "judge") /\ ~(At(r, "judge"))'
                                  /\ Head(req[r].order).id = id /\ req[r].ctx # "cancelled"]_vars
  BY Zenon, BlameStep
<1> QED BY <1>1, ExchangesCoherent, PTL DEF Spec, CancelBlamesNobody

-----------------------------------------------------------------------------
\* preferHealthy leaves no member of the pool out, so a first member that is
\* down has only such members behind it.
Apart(n, p) ==
    n \in Nat /\ p \in [1..n -> 1..n] /\ \A i, j \in 1..n : i < j => p[i] # p[j]
Onto(n, p) == \A m \in 1..n : \E i \in 1..n : p[i] = m

\* An order without repetition reaches every member of the pool.
LEMMA EveryPlace ==
  ASSUME NEW STATE n, NEW STATE p, Apart(n, p)
  PROVE  Onto(n, p)
<1>1. \A i, j \in 1..n : p[i] = p[j] => i = j
  BY DEF Apart
<1>2. p \in Injection(1..n, 1..n)
  BY Zenon, <1>1 DEF Injection, IsInjective, Apart
<1>3. IsFiniteSet(1..n)
  BY FS_Interval DEF Apart
<1>4. p \in Surjection(1..n, 1..n)
  BY Zenon, <1>2, <1>3, FS_Injection
<1> QED BY Zenon, <1>4 DEF Surjection, Onto

\* A member that is down comes first only if all are.
LEMMA DownBehindDown ==
  ASSUME NEW STATE ups, NEW STATE n, NEW STATE p, n \in Nat, n > 0, Len(ups) = n,
         DOMAIN ups = 1..n, p \in [1..n -> 1..n], PreferHealthy(ups, p),
         ~Healthy(ups[p[1]].id), NEW u \in Range(ups)
  PROVE  ~Healthy(u.id)
<1>1. PICK m \in 1..n : u = ups[m]
  BY Zenon DEF Range
<1>2. \A i \in 1..n : p[i] \in 1..n
  BY Zenon
<1>3. ASSUME NEW i \in 1..n, NEW j \in 1..n, i < j, p[i] = p[j] PROVE p[i] < p[j]
  BY Zenon, <1>3 DEF PreferHealthy
<1>4. Apart(n, p)
  BY <1>2, <1>3 DEF Apart
<1>5. PICK i \in 1..n : p[i] = m
  <2>1. Onto(n, p)
    BY Zenon, <1>4, EveryPlace
  <2> QED BY Zenon, <2>1 DEF Onto
<1>6. i = 1 \/ (1 < i /\ 1 \in 1..n)
  OBVIOUS
<1>7. CASE i = 1
  BY Zenon, <1>1, <1>5, <1>7
<1>8. CASE 1 < i /\ 1 \in 1..n
  BY Zenon, <1>1, <1>5, <1>8 DEF PreferHealthy
<1> QED BY Zenon, <1>6, <1>7, <1>8

\* The order of a request is set by no step but its own.
LEMMA OnlyOrderOrders ==
  ASSUME Coherent, Next, NEW r \in Requests, At(r, "order"), req'[r].pc = "next"
  PROVE  Order(r)
<1> DEFINE q == req[r]
<1>1. DOMAIN q = Fields /\ q.pc = "order" /\ DOMAIN req = Requests /\ req'[r] # q
  BY Zenon DEF Coherent, Locals, At
<1>2. ASSUME NEW s, NEW v, Upd(s, v) PROVE s = r /\ req'[r] = v
  BY Zenon, <1>1, <1>2 DEF Upd
<1>3. ASSUME NEW how, EndContext(r, how) PROVE FALSE
  <2> DEFINE v == [q EXCEPT !.ctx = how]
  <2>1. v.pc = "order"
    BY Zenon, <1>1 DEF Fields
  <2>2. Upd(r, v)
    BY Zenon, <1>3 DEF EndContext
  <2> HIDE DEF v
  <2> QED BY Zenon, <1>2, <2>1, <2>2
<1>4. ASSUME UnknownPolicy(r) PROVE FALSE
  <2> DEFINE w == [q EXCEPT !.rcode = "SERVFAIL", !.err = "policy"]
             v == [w EXCEPT !.pc = "done", !.order = <<>>]
  <2>1. DOMAIN w = Fields
    BY Zenon, <1>1
  <2> HIDE DEF w
  <2>2. v.pc = "done"
    BY Zenon, <2>1 DEF Fields
  <2>3. Upd(r, v)
    BY Zenon, <1>4 DEF UnknownPolicy, Return, w
  <2> QED BY Zenon, <1>2, <2>2, <2>3
<1>5. ASSUME NEW s \in Requests, s # r,
             Load(s) \/ Exchange(s) \/ \E how \in {"cancelled", "expired"} : EndContext(s, how)
      PROVE  FALSE
  <2>1. \A v : ~Upd(s, v)
    BY Zenon, <1>2, <1>5
  <2>2. ~Load(s) /\ ~Acquire(s) /\ ~ObserveTopology(s) /\ ~UnknownPolicy(s) /\ ~Finish(s)
    BY Zenon, <2>1 DEF Load, Acquire, ObserveTopology, UnknownPolicy, Finish, Return
  <2>3. ~Order(s)
    BY Zenon, <2>1 DEF Order
  <2>4. ~NextUpstream(s)
    BY Zenon, <2>1 DEF NextUpstream
  <2>5. ~Judge(s)
    BY Zenon, <2>1 DEF Judge
  <2>6. \A reply : ~Attempt(s, reply)
    BY Zenon, <2>1 DEF Attempt
  <2>7. \A how : ~EndContext(s, how)
    BY Zenon, <2>1 DEF EndContext
  <2> QED BY Zenon, <1>5, <2>2, <2>3, <2>4, <2>5, <2>6, <2>7 DEF Exchange
<1>6. ~Load(r)
  BY Zenon, <1>1 DEF Load, At
<1>7. Exchange(r) => Order(r)
  BY Zenon, <1>1, <1>4 DEF Exchange, Acquire, ObserveTopology, NextUpstream, Judge, Finish, Attempt, At
<1>8. ~Activate /\ ~Rest /\ ~\E id \in Ids : Cooldown(id)
  BY Zenon, <1>1 DEF Activate, Rest, Cooldown, vars
<1> QED BY Zenon, <1>3, <1>5, <1>6, <1>7, <1>8 DEF Next

LEMMA ResortStep ==
  ASSUME Coherent, Next, NEW r \in Requests,
         At(r, "order"), req'[r].pc = "next", Topo[req[r].gen].strategy = "healthaware",
         req[r].opts = NoOpts, ~Healthy(Head(req'[r].order).id),
         NEW u \in Range(Topo[req[r].gen].ups)
  PROVE  ~Healthy(u.id)
<1> DEFINE q == req[r]
           pool == Topo[q.gen]
           n == Len(pool.ups)
           o == q.opts
<1>1. /\ Locals(Topo, Fo(r), topology.gen, q) /\ q.pc = "order" /\ sc \in Scenarios
      /\ DOMAIN req = Requests
  BY Zenon DEF Coherent, Shared, At
<1>2. PICK k \in 0..(n - 1), p \in [1..n -> 1..n] :
        /\ Ordered(pool, k, p)
        /\ Upd(r, [q EXCEPT !.order = Forced([i \in 1..n |-> pool.ups[p[i]]], o),
                     !.pc = IF o.synthetic THEN "finish" ELSE "next",
                     !.rcode = IF o.synthetic THEN "synthetic" ELSE ""])
  <2>1. Order(r)
    BY Zenon, OnlyOrderOrders
  <2> QED BY Zenon, <2>1 DEF Order
<1> DEFINE s == [i \in 1..n |-> pool.ups[p[i]]]
           v == [q EXCEPT !.order = Forced(s, o), !.pc = IF o.synthetic THEN "finish" ELSE "next",
                          !.rcode = IF o.synthetic THEN "synthetic" ELSE ""]
<1>3. q.gen \in Gens
  BY Zenon, <1>1 DEF Locals, Gens
<1>4. pool.ups \in Seq(Range(pool.ups)) /\ pool.ups # <<>>
  BY Zenon, <1>1, <1>3, Pools DEF Distinct
<1>5. n \in Nat /\ n > 0 /\ DOMAIN pool.ups = 1..n
  BY <1>4
<1>6. req'[r].order = Forced(s, o)
  <2>1. v.order = Forced(s, o)
    BY Zenon, <1>1 DEF Locals, Fields
  <2>2. Upd(r, v)
    BY Zenon, <1>2
  <2> HIDE DEF v
  <2> QED BY Zenon, <1>1, <2>1, <2>2 DEF Upd
<1>7. Forced(s, o) = s
  <2>0. NoOpts.force = "" /\ NoOpts.failover = FALSE
    BY Zenon DEF NoOpts
  <2>1. o.force = "" /\ ~o.failover
    BY Zenon, <2>0
  <2>2. {k2 \in DOMAIN s : o.force # "" /\ s[k2].id = o.force} = {}
    BY Zenon, <2>1
  <2> QED BY Zenon, <2>1, <2>2 DEF Forced
<1>8. Head(s) = pool.ups[p[1]]
  <2> HIDE DEF n
  <2>1. 1 \in 1..n
    BY <1>5
  <2>2. s[1] = pool.ups[p[1]]
    BY Zenon, <2>1
  <2> HIDE DEF s
  <2> QED BY <2>2
<1>9. ~Healthy(pool.ups[p[1]].id) /\ PreferHealthy(pool.ups, p)
  BY Zenon, <1>2, <1>6, <1>7, <1>8 DEF Ordered
<1> HIDE DEF n, pool
<1>10. u \in Range(pool.ups) /\ Len(pool.ups) = n
  BY Zenon DEF pool, n
<1> QED BY Zenon, <1>2, <1>5, <1>9, <1>10, DownBehindDown

\* A health-aware request asks a member that is down first only when all are
\* (picker.preferHealthy), in pools of any size.
THEOREM DownComesLast == Spec => DownIsLastResort
<1>1. Coherent /\ [Next]_vars =>
        [\A r \in Requests :
           /\ At(r, "order") /\ req'[r].pc = "next" /\ Topo[req[r].gen].strategy = "healthaware"
           /\ req[r].opts = NoOpts
           /\ ~Healthy(Head(req'[r].order).id)
           => \A u \in Range(Topo[req[r].gen].ups) : ~Healthy(u.id)]_vars
  BY Zenon, ResortStep
<1> QED BY <1>1, ExchangesCoherent, PTL DEF Spec, DownIsLastResort

-----------------------------------------------------------------------------
\* The rotation of a pool.  A counter and its remainder go round together.
LEMMA Remainder ==
  ASSUME NEW a \in Nat, NEW n \in Nat, n > 0
  PROVE  /\ a % n \in 0..(n - 1) /\ a \div n \in Nat
         /\ a = n * (a \div n) + (a % n)
OBVIOUS

\* One more multiple of n is n further on.
LEMMA NextMultiple ==
  ASSUME NEW n \in Nat, NEW x \in Nat, NEW y \in Nat, x < y
  PROVE  n * x + n <= n * y
<1>1. y >= x + 1
  OBVIOUS
<1>2. n * y >= n * (x + 1)
  BY <1>1
<1>3. n * (x + 1) = n * x + n
  OBVIOUS
<1>4. n * x \in Nat /\ n * y \in Nat
  OBVIOUS
<1> QED BY <1>2, <1>3, <1>4

\* A number has one remainder.
LEMMA OneRemainder ==
  ASSUME NEW n \in Nat, NEW x \in Nat, NEW y \in Nat, NEW r \in 0..(n - 1), NEW s \in 0..(n - 1),
         n * x + r = n * y + s
  PROVE  r = s
<1>1. n * x \in Nat /\ n * y \in Nat
  OBVIOUS
<1>2. CASE x < y
  BY <1>1, <1>2, NextMultiple
<1>3. CASE y < x
  BY <1>1, <1>3, NextMultiple
<1>4. CASE x = y
  BY <1>1, <1>4
<1> QED BY <1>2, <1>3, <1>4

\* The remainder of the next number is the next one, round the end.
LEMMA NextRemainder ==
  ASSUME NEW a \in Nat, NEW n \in Nat, n > 0
  PROVE  (a + 1) % n = IF a % n = n - 1 THEN 0 ELSE (a % n) + 1
<1> DEFINE x == a \div n
           r == a % n
           y == (a + 1) \div n
           s == (a + 1) % n
<1>1. a + 1 \in Nat
  OBVIOUS
<1>2. r \in 0..(n - 1) /\ x \in Nat /\ a = n * x + r
  BY Remainder
<1>3. s \in 0..(n - 1) /\ y \in Nat /\ a + 1 = n * y + s
  BY <1>1, Remainder
<1> HIDE DEF x, y, r, s
<1>4. n * x \in Nat /\ n * y \in Nat
  BY <1>2, <1>3
<1>5. CASE r = n - 1
  <2>1. n * (x + 1) = n * x + n
    BY <1>2
  <2>2. n * (x + 1) + 0 = n * y + s
    BY <1>2, <1>3, <1>4, <1>5, <2>1
  <2>3. x + 1 \in Nat /\ 0 \in 0..(n - 1)
    BY <1>2
  <2>4. s = 0
    BY <1>3, <2>2, <2>3, OneRemainder
  <2> QED BY <1>5, <2>4 DEF r, s
<1>6. CASE r # n - 1
  <2>1. n * x + (r + 1) = n * y + s /\ r + 1 \in 0..(n - 1)
    BY <1>2, <1>3, <1>4, <1>6
  <2>2. s = r + 1
    BY <1>2, <1>3, <2>1, OneRemainder
  <2> QED BY <1>6, <2>2 DEF r, s
<1> QED BY <1>5, <1>6

\* What picker.rr becomes, and the place it stands for.
Advanced(c) == IF c = -1 THEN 1 ELSE c + 1
Around(n, k) == IF k = n - 1 THEN 0 ELSE k + 1

\* picker.order advances the cursor of the rotation by one place.
LEMMA CursorStep ==
  ASSUME NEW STATE c, NEW STATE n, c \in Nat \cup {-1}, n \in Nat, n > 0
  PROVE  /\ Cursor(c, n) \in 0..(n - 1)
         /\ Cursor(Advanced(c), n) = Around(n, Cursor(c, n))
<1>1. CASE c = -1
  <2>1. 1 % n = IF n = 1 THEN 0 ELSE 1
    OBVIOUS
  <2> QED BY <1>1, <2>1 DEF Cursor, Advanced, Around
<1>2. CASE c \in Nat
  <2>1. c % n \in 0..(n - 1)
    BY Zenon, <1>2, Remainder
  <2>2. (c + 1) % n = IF c % n = n - 1 THEN 0 ELSE (c % n) + 1
    BY Zenon, <1>2, NextRemainder
  <2> QED BY <1>2, <2>1, <2>2 DEF Cursor, Advanced, Around
<1> QED BY <1>1, <1>2

\* The count of a place as the cursor k is picked: with m members ahead before
\* the pick there are m + 1 after it, or a round is complete.
Ahead(n, m) == IF m = n - 1 THEN 0 ELSE m + 1
Rounds(n, m, b) == IF m = n - 1 THEN b + 1 ELSE b
Due(n, k, m, b, i) == IF Behind(n, k, m, i) THEN b + 1 ELSE b
DueNext(n, k, m, b, i) ==
    Due(n, Around(n, k), Ahead(n, m), Rounds(n, m, b), i)
      = IF i = k THEN Due(n, k, m, b, i) + 1 ELSE Due(n, k, m, b, i)

\* After a pick at the cursor one place more is ahead, or all are level again.
LEMMA PlaceStep ==
  ASSUME NEW STATE n, NEW STATE k, NEW STATE m, NEW STATE b,
         n \in Nat, n > 0, k \in 0..(n - 1), m \in 0..(n - 1), b \in Nat
  PROVE  \A i \in 0..(n - 1) : DueNext(n, k, m, b, i)
<1>1. CASE m = n - 1
  BY <1>1 DEF DueNext, Due, Around, Ahead, Rounds, Behind
<1>2. CASE m # n - 1
  BY <1>2 DEF DueNext, Due, Around, Ahead, Rounds, Behind
<1> QED BY <1>1, <1>2

\* The picks g are f and one more of the member at place k.
Picked(ups, f, g, k) ==
    \A i \in 1..Len(ups) :
       g[ups[i].id] = IF ups[i].id = ups[k + 1].id THEN f[ups[i].id] + 1 ELSE f[ups[i].id]
OnePlace(ups) == \A i, j \in 1..Len(ups) : ups[i].id = ups[j].id => i = j

\* A pick at the cursor keeps the picks level.
LEMMA LevelStep ==
  ASSUME NEW STATE ups, NEW STATE n, NEW STATE f, NEW STATE g, NEW STATE k, NEW STATE m, NEW STATE b,
         n = Len(ups), n \in Nat, n > 0, k \in 0..(n - 1), m \in 0..(n - 1), b \in Nat,
         OnePlace(ups), Level(ups, f, k, m, b), Picked(ups, f, g, k)
  PROVE  /\ Level(ups, g, Around(n, k), Ahead(n, m), Rounds(n, m, b))
         /\ Ahead(n, m) \in 0..(n - 1) /\ Rounds(n, m, b) \in {b, b + 1}
<1>1. ASSUME NEW i \in 1..n
      PROVE  g[ups[i].id] = Due(n, Around(n, k), Ahead(n, m), Rounds(n, m, b), i - 1)
  <2>1. i - 1 \in 0..(n - 1) /\ k + 1 \in 1..n /\ (i = k + 1 <=> i - 1 = k)
    OBVIOUS
  <2>2. ups[i].id = ups[k + 1].id <=> i - 1 = k
    BY Zenon, <2>1 DEF OnePlace
  <2>3. f[ups[i].id] = Due(n, k, m, b, i - 1)
    BY Zenon DEF Level, Due
  <2>4. DueNext(n, k, m, b, i - 1)
    BY Zenon, <2>1, PlaceStep
  <2>5. CASE i - 1 = k
    BY Zenon, <2>2, <2>3, <2>4, <2>5 DEF DueNext, Picked
  <2>6. CASE i - 1 # k
    BY Zenon, <2>2, <2>3, <2>4, <2>6 DEF DueNext, Picked
  <2> QED BY Zenon, <2>5, <2>6
<1>2. Level(ups, g, Around(n, k), Ahead(n, m), Rounds(n, m, b))
  BY Zenon, <1>1 DEF Level, Due
<1>3. Ahead(n, m) \in 0..(n - 1) /\ Rounds(n, m, b) \in {b, b + 1}
  BY DEF Ahead, Rounds
<1> QED BY Zenon, <1>2, <1>3

\* Nothing was picked yet.
LEMMA LevelStart ==
  ASSUME NEW STATE ups, NEW STATE n, NEW STATE f, NEW STATE k, n = Len(ups), n \in Nat, k \in 0..(n - 1),
         \A i \in 1..n : f[ups[i].id] = 0
  PROVE  Level(ups, f, k, 0, 0)
<1>1. \A i \in 1..n : ~Behind(n, k, 0, i - 1)
  BY DEF Behind
<1> QED BY Zenon, <1>1 DEF Level

\* The cursor of a rotating pool and what is picked next.
Spread(ups, f, c) ==
    \E m \in 0..(Len(ups) - 1), b \in 0..(c + 1) : Level(ups, f, Cursor(c, Len(ups)), m, b)

\* A pick at the cursor keeps the members of the pool level.
LEMMA SpreadStep ==
  ASSUME NEW STATE ups, NEW STATE n, NEW STATE f, NEW STATE g, NEW STATE c,
         n = Len(ups), n \in Nat, n > 0, c \in Nat \cup {-1}, Spread(ups, f, c),
         OnePlace(ups), Picked(ups, f, g, Cursor(c, n))
  PROVE  Spread(ups, g, Advanced(c))
<1> DEFINE k == Cursor(c, n)
<1>1. k \in 0..(n - 1) /\ Cursor(Advanced(c), n) = Around(n, k)
  BY Zenon, CursorStep
<1>2. PICK m \in 0..(n - 1), b \in 0..(c + 1) : Level(ups, f, k, m, b)
  BY Zenon DEF Spread
<1>3. Picked(ups, f, g, k)
  OBVIOUS
<1> HIDE DEF k
<1>4. b \in Nat /\ b \in 0..(Advanced(c) + 1) /\ b + 1 \in 0..(Advanced(c) + 1)
  BY <1>2 DEF Advanced
<1>5. /\ Level(ups, g, Around(n, k), Ahead(n, m), Rounds(n, m, b))
      /\ Ahead(n, m) \in 0..(n - 1) /\ Rounds(n, m, b) \in {b, b + 1}
  BY Zenon, <1>1, <1>2, <1>3, <1>4, LevelStep
<1>6. Rounds(n, m, b) \in 0..(Advanced(c) + 1)
  BY Zenon, <1>4, <1>5
<1> QED BY Zenon, <1>1, <1>5, <1>6 DEF Spread

\* The places of a pool.
LEMMA PoolPlaces ==
  ASSUME sc \in Scenarios, NEW STATE g, g \in Gens
  PROVE  LET ups == Topo[g].ups
         IN  /\ Len(ups) \in Nat /\ Len(ups) > 0 /\ DOMAIN ups = 1..Len(ups)
             /\ OnePlace(ups)
             /\ \A i \in 1..Len(ups) : ups[i].id \in Ids
<1> DEFINE ups == Topo[g].ups
<1>1. ups \in Seq(Range(ups)) /\ ups # <<>> /\ \A i, j \in DOMAIN ups : ups[i].id = ups[j].id => i = j
  BY Zenon, Pools
<1>2. Len(ups) \in Nat /\ Len(ups) > 0 /\ DOMAIN ups = 1..Len(ups)
  BY <1>1
<1>3. ASSUME NEW i \in DOMAIN ups PROVE ups[i].id \in Ids
  <2>1. ups[i] \in Range(ups)
    BY Zenon DEF Range
  <2>2. ups[i] \in UNION {Range(Topo[x].ups) : x \in Gens}
    BY Zenon, <2>1
  <2> QED BY Zenon, <2>2 DEF Ids
<1> QED BY Zenon, <1>1, <1>2, <1>3 DEF OnePlace

\* Only observeTopology and picker.order touch the rotation.
LEMMA RotationKept ==
  ASSUME Rotating, UNCHANGED <<sc, topology, rr, firsts>>
  PROVE  Rotating'
BY Zenon DEF Rotating, Topo, Ids, Gens

\* A newer topology starts the count again, wherever the rotation stands.
LEMMA ObserveRotates ==
  ASSUME Coherent, Rotating, NEW r \in Requests, ObserveTopology(r)
  PROVE  Rotating'
<1> DEFINE g == req[r].gen
           ups == Topo[g].ups
           n == Len(ups)
<1>1. g \in Gens /\ sc \in Scenarios /\ sc' = sc
  BY Zenon DEF Coherent, Shared, Locals, ObserveTopology, At, Gens
<1>2. CASE UNCHANGED shared
  BY Zenon, <1>1, <1>2, RotationKept DEF shared
<1>3. CASE ~UNCHANGED shared
  <2>1. /\ topology' = [gen |-> g, ups |-> Range(ups)] /\ firsts' = [u \in Ids |-> 0]
        /\ rr' = IF Topo[g].strategy = "roundrobin" THEN rr ELSE -1
    BY Zenon, <1>3 DEF ObserveTopology
  <2>2. Ids' = Ids /\ Topo' = Topo /\ topology'.gen = g
    BY Zenon, <1>1, <2>1 DEF Ids, Gens, Topo
  <2>3. rr' \in Nat \cup {-1} /\ DOMAIN firsts' = Ids'
    BY Zenon, <2>1, <2>2 DEF Rotating
  <2>4. \E m \in 0..(n - 1), b \in 0..(rr' + 1) : Level(ups, firsts', Cursor(rr', n), m, b)
    <3>1. n \in Nat /\ n > 0 /\ \A i \in 1..n : ups[i].id \in Ids
      BY Zenon, <1>1, PoolPlaces
    <3>2. \A i \in 1..n : firsts'[ups[i].id] = 0
      BY Zenon, <2>1, <3>1
    <3> HIDE DEF ups
    <3>3. Cursor(rr', n) \in 0..(n - 1)
      BY Zenon, <2>3, <3>1, CursorStep
    <3>4. Level(ups, firsts', Cursor(rr', n), 0, 0)
      BY Zenon, <3>1, <3>2, <3>3, LevelStart
    <3> HIDE DEF n
    <3>5. 0 \in 0..(n - 1)
      BY <3>1
    <3>6. 0 \in 0..(rr' + 1)
      <4>1. \A c \in Nat \cup {-1} : 0 \in 0..(c + 1)
        OBVIOUS
      <4> QED BY Zenon, <2>3, <4>1
    <3> QED BY Zenon, <3>4, <3>5, <3>6
  <2> QED BY Zenon, <2>2, <2>3, <2>4 DEF Rotating
<1> QED BY Zenon, <1>2, <1>3

\* picker.order: a request of the newest topology picks at the cursor, one of
\* an older topology leaves cursor and counts alone.
LEMMA OrderRotates ==
  ASSUME Coherent, Rotating, NEW r \in Requests, Order(r)
  PROVE  Rotating'
<1> DEFINE q == req[r]
           pool == Topo[q.gen]
           ups == pool.ups
           n == Len(ups)
<1>1. /\ q.gen \in Gens /\ q.gen \in Nat /\ q.gen <= topology.gen /\ q.gen # 0
      /\ topology.gen \in Nat /\ UNCHANGED <<sc, topology>>
  <2>1. /\ q.gen \in Gens /\ q.gen <= topology.gen /\ sc \in Scenarios /\ UNCHANGED <<sc, topology>>
    BY Zenon DEF Coherent, Shared, Order, At, Locals, Gens
  <2>2. q.gen \in Nat /\ q.gen > 0
    BY Zenon, <2>1, Pools
  <2>3. topology.gen \in Nat
    BY Zenon, GenIsNat
  <2> QED BY <2>1, <2>2, <2>3
<1>2. PICK k \in 0..(n - 1), p \in [1..n -> 1..n] :
        /\ pool.strategy = "roundrobin" => k = (IF Stale(r) \/ rr = -1 THEN 0 ELSE rr % n)
        /\ Ordered(pool, k, p)
        /\ rr' = IF pool.strategy = "roundrobin" /\ ~Stale(r)
                   THEN (IF rr = -1 THEN 1 ELSE rr + 1) ELSE rr
        /\ firsts' = IF q.gen < topology.gen THEN firsts
                     ELSE [firsts EXCEPT ![ups[p[1]].id] = @ + 1]
  BY Zenon DEF Order
<1>3. CASE Stale(r)
  BY Zenon, <1>1, <1>2, <1>3, RotationKept DEF Stale
<1>4. CASE ~Stale(r)
  <2>1. topology.gen = q.gen /\ topology.gen # 0
    BY <1>1, <1>4 DEF Stale
  <2>2. /\ n \in Nat /\ n > 0 /\ DOMAIN ups = 1..n /\ OnePlace(ups)
        /\ \A i \in 1..n : ups[i].id \in Ids
    BY Zenon, <1>1, PoolPlaces DEF Coherent, Shared
  <2>3. firsts' = [firsts EXCEPT ![ups[p[1]].id] = @ + 1] /\ DOMAIN firsts' = DOMAIN firsts
    BY Zenon, <1>2, <1>4 DEF Stale
  <2>4. Ids' = Ids /\ Topo' = Topo
    BY Zenon, <1>1 DEF Ids, Gens, Topo
  <2>5. CASE pool.strategy # "roundrobin"
    BY Zenon, <1>1, <1>2, <2>1, <2>3, <2>4, <2>5 DEF Rotating
  <2>6. CASE pool.strategy = "roundrobin"
    <3>1. rr \in Nat \cup {-1} /\ DOMAIN firsts = Ids /\ Spread(ups, firsts, rr)
      BY Zenon, <2>1, <2>6 DEF Rotating, Spread
    <3>2. k = Cursor(rr, n) /\ rr' = Advanced(rr)
      BY Zenon, <1>2, <1>4, <2>6 DEF Cursor, Advanced
    <3>3. p[1] = k + 1
      <4>1. Rotated(ups, k, p)
        BY Zenon, <1>2, <2>6 DEF Ordered
      <4>2. k \in 0..(n - 1)
        OBVIOUS
      <4> HIDE DEF n
      <4>3. 1 \in 1..n
        BY <2>2
      <4>4. p[1] = IF 1 + k <= n THEN 1 + k ELSE 1 + k - n
        BY Zenon, <2>2, <4>1, <4>3 DEF Rotated, n
      <4> HIDE DEF ups, pool
      <4> QED BY <2>2, <4>2, <4>4
    <3>4. Picked(ups, firsts, firsts', k)
      BY Zenon, <2>2, <2>3, <3>1, <3>3 DEF Picked
    <3> HIDE DEF n, ups, pool
    <3>5. Spread(ups, firsts', rr')
      BY Zenon, <2>2, <3>1, <3>2, <3>4, SpreadStep DEF n
    <3>6. rr' \in Nat \cup {-1}
      BY <3>1, <3>2 DEF Advanced
    <3> QED BY Zenon, <1>1, <2>1, <2>3, <2>4, <3>1, <3>5, <3>6 DEF Rotating, Spread, ups, pool
  <2> QED BY Zenon, <2>5, <2>6
<1> QED BY Zenon, <1>3, <1>4

\* Every step keeps the rotation level; only Order picks, only a new topology starts over.
LEMMA NextRotates == Coherent /\ Rotating /\ [Next]_vars => Rotating'
<1>1. SUFFICES ASSUME Coherent, Rotating, [Next]_vars PROVE Rotating'
  BY Zenon
<1>2. CASE UNCHANGED <<sc, topology, rr, firsts>>
  BY Zenon, <1>1, <1>2, RotationKept
<1>3. ASSUME NEW r \in Requests, ObserveTopology(r) PROVE Rotating'
  BY Zenon, <1>1, <1>3, ObserveRotates
<1>4. ASSUME NEW r \in Requests, Order(r) PROVE Rotating'
  BY Zenon, <1>1, <1>4, OrderRotates
<1>5. CASE ~\E r \in Requests : ObserveTopology(r) \/ Order(r)
  <2>1. UNCHANGED <<sc, topology, rr, firsts>>
    BY Zenon, <1>1, <1>5 DEF Next, Rest, Exchange, Activate, Load, EndContext, Acquire,
       UnknownPolicy, NextUpstream, Judge, Finish, Return, Attempt, Cooldown, shared, vars
  <2> QED BY Zenon, <1>2, <2>1
<1> QED BY Zenon, <1>3, <1>4, <1>5

\* Nothing is picked before the first request.
LEMMA InitRotates == Init => Rotating
<1>1. SUFFICES ASSUME Init PROVE Rotating
  BY Zenon
<1>2. rr = -1 /\ DOMAIN firsts = Ids /\ topology.gen = 0
  BY Zenon, <1>1 DEF Init
<1> QED BY Zenon, <1>2 DEF Rotating

\* A round-robin pool of any size spreads the first choice evenly, however many
\* requests of this and of older snapshots are ordered (picker.order,
\* orderForSnapshot).
THEOREM RotationSpreads == Spec => []SpreadEvenly
<1>1. ASSUME Coherent, Rotating, topology.gen # 0, Topo[topology.gen].strategy = "roundrobin",
             NEW u \in topology.ups, NEW v \in topology.ups
      PROVE  firsts[u.id] - firsts[v.id] <= 1
  <2> DEFINE ups == Topo[topology.gen].ups
             n == Len(ups)
  <2>1. topology.ups = Range(ups) /\ DOMAIN ups = 1..n
    <3>1. topology.gen \in Gens /\ sc \in Scenarios /\ topology.ups = Range(ups)
      BY Zenon, <1>1 DEF Coherent, Shared
    <3> QED BY Zenon, <3>1, PoolPlaces
  <2>2. PICK i \in 1..n, j \in 1..n : u = ups[i] /\ v = ups[j]
    BY Zenon, <2>1 DEF Range
  <2>3. PICK m \in 0..(n - 1), b \in 0..(rr + 1) : Level(ups, firsts, Cursor(rr, n), m, b)
    BY Zenon, <1>1 DEF Rotating
  <2>4. firsts[u.id] \in {b, b + 1} /\ firsts[v.id] \in {b, b + 1}
    BY Zenon, <2>2, <2>3 DEF Level
  <2> QED BY <2>3, <2>4
<1>2. Coherent /\ Rotating => SpreadEvenly
  BY Zenon, <1>1 DEF SpreadEvenly
<1>3. Spec => []Rotating
  BY InitRotates, NextRotates, ExchangesCoherent, PTL DEF Spec
<1> QED BY <1>2, <1>3, ExchangesCoherent, PTL
=============================================================================
