------------------------------ MODULE Forwarder -----------------------------
(***************************************************************************)
(* forwarder.Runtime: exchanges that hold different snapshots share the    *)
(* upstreams' health, the rotation of a round-robin pool, the newest       *)
(* topology seen and the exchange slots.                                   *)
(*                                                                         *)
(* Topo[g] is the upstream pool the snapshot of generation g forwards to:  *)
(* its strategy and its upstreams in order, each an id with an endpoint.   *)
(* A scenario gives the pools and, per request, its failover policy, its   *)
(* options, the replies upstreams may give it and how its context may end. *)
(* A timer is not measured: a cooldown, a timeout and a deadline may end   *)
(* at any step.                                                            *)
(***************************************************************************)
EXTENDS Integers, FiniteSets, Sequences, Functions

CONSTANTS
    Requests,       \* exchanges, each run once
    Scenarios,      \* the settings considered, see above
    MaxSlots        \* Runtime.MaxInflight

Threshold == 2      \* DefaultFailThreshold
Rcodes == {"NOERROR", "NXDOMAIN", "SERVFAIL", "REFUSED"}
Replies == Rcodes \cup {"truncated", "timeout", "invalid"}
Strategies == {"ordered", "roundrobin", "random", "healthaware"}
NoOpts == [force |-> "", unavailable |-> {}, timeout |-> FALSE, transport |-> FALSE,
           failover |-> FALSE, synthetic |-> FALSE, unknown |-> FALSE]

ASSUME RequestsAssumption == IsFiniteSet(Requests) /\ MaxSlots \in Nat

\* The pools of a compiled snapshot are not empty and name no upstream twice.
ASSUME ScenarioAssumption ==
    \A s \in Scenarios :
        /\ s.topo # <<>> /\ s.topo \in Seq(Range(s.topo))
        /\ \A g \in DOMAIN s.topo : LET ups == s.topo[g].ups IN
             /\ s.topo[g].strategy \in Strategies
             /\ ups # <<>> /\ ups \in Seq(Range(ups))
             /\ \A i, j \in DOMAIN ups : ups[i].id = ups[j].id => i = j

VARIABLES
    sc,         \* the scenario, fixed
    active,     \* the generation the store holds
    topology,   \* the newest generation observed and its upstreams, 0 before the first
    health,     \* Health.byID: a function on the ids with an entry
    rr,         \* the counter of picker.rr, -1 when there is none
    slots,      \* tokens in Runtime.slots
    req,        \* req[r]: the locals of ExchangeOpts
    firsts      \* history: first picks per upstream since topology changed

vars == <<sc, active, topology, health, rr, slots, req, firsts>>
shared == <<topology, health, rr, firsts>>

Topo == sc.topo
Gens == DOMAIN Topo
Ids == {u.id : u \in UNION {Range(Topo[g].ups) : g \in Gens}}
Fresh == [fails |-> 0, down |-> FALSE, cooled |-> FALSE, ep |-> "none"]

Init ==
    /\ sc \in Scenarios
    /\ active = 1
    /\ topology = [gen |-> 0, ups |-> {}]
    /\ health = <<>>
    /\ rr = -1
    /\ slots = 0
    /\ firsts = [u \in Ids |-> 0]
    /\ req = [r \in Requests |->
                [pc |-> "idle", gen |-> 0, ctx |-> "live", opts |-> sc.plan[r].opts, order |-> <<>>,
                 tried |-> <<>>, rcode |-> "", err |-> "", retry |-> FALSE]]

Fo(r) == sc.plan[r].fo
Upd(r, v) == req' = [req EXCEPT ![r] = v]
At(r, l) == req[r].pc = l
Keep(f, S) == [x \in S |-> f[x]]

-----------------------------------------------------------------------------
\* A new snapshot is activated.
Activate ==
    /\ active + 1 \in Gens
    /\ active' = active + 1
    /\ UNCHANGED <<sc, shared, slots, req>>

\* A request pins the active snapshot.
Load(r) ==
    /\ At(r, "idle") /\ sc.plan[r].runs
    /\ Upd(r, [req[r] EXCEPT !.pc = "slot", !.gen = active])
    /\ UNCHANGED <<sc, active, shared, slots>>

\* The caller gives up, or the query's deadline passes.
EndContext(r, how) ==
    /\ how \in sc.plan[r].ends /\ req[r].ctx = "live"
    /\ req[r].pc \in {"slot", "observe", "order", "next", "attempt", "judge"}
    /\ Upd(r, [req[r] EXCEPT !.ctx = how])
    /\ UNCHANGED <<sc, active, shared, slots>>

\* The deferred receive gives the slot back with the result.
Return(r, v) ==
    /\ Upd(r, [v EXCEPT !.pc = "done", !.order = <<>>])
    /\ slots' = slots - 1
    /\ UNCHANGED <<sc, active, shared>>

\* The slot: taken when there is room, or the context ends first.
Acquire(r) ==
    /\ At(r, "slot")
    /\ \/ /\ req[r].ctx = "live" /\ slots < MaxSlots
          /\ slots' = slots + 1
          /\ Upd(r, [req[r] EXCEPT !.pc = "observe"])
       \/ /\ req[r].ctx # "live"
          /\ Upd(r, [req[r] EXCEPT !.pc = "done", !.err = "context"])
          /\ UNCHANGED slots
    /\ UNCHANGED <<sc, active, shared>>

\* Mutant: the entry of an upstream whose endpoint changed is kept.
ObserveTopologyKeeps(r) ==
    /\ At(r, "observe")
    /\ Upd(r, [req[r] EXCEPT !.pc = "order"])
    /\ IF req[r].gen <= topology.gen THEN UNCHANGED shared
       ELSE LET ups == Range(Topo[req[r].gen].ups)
            IN  /\ topology' = [gen |-> req[r].gen, ups |-> ups]
                /\ health' = Keep(health, DOMAIN health \cap {u.id : u \in ups})
                /\ rr' = IF Topo[req[r].gen].strategy = "roundrobin" THEN rr ELSE -1
                /\ firsts' = [u \in Ids |-> 0]
    /\ UNCHANGED <<sc, active, slots>>

\* observeTopology: a newer generation drops the health of the upstreams that
\* are gone or that changed, and the rotation of a pool that no longer rotates.
ObserveTopology(r) ==
    /\ At(r, "observe")
    /\ Upd(r, [req[r] EXCEPT !.pc = "order"])
    /\ IF req[r].gen <= topology.gen THEN UNCHANGED shared
       ELSE LET ups == Range(Topo[req[r].gen].ups)
                known(id) == \E w \in topology.ups : w.id = id
                same == {u.id : u \in {v \in ups : known(v.id) => v \in topology.ups}}
            IN  /\ topology' = [gen |-> req[r].gen, ups |-> ups]
                /\ health' = Keep(health, DOMAIN health \cap same)
                /\ rr' = IF Topo[req[r].gen].strategy = "roundrobin" THEN rr ELSE -1
                /\ firsts' = [u \in Ids |-> 0]
    /\ UNCHANGED <<sc, active, slots>>

Healthy(id) == id \in DOMAIN health => ~health[id].down \/ health[id].cooled

\* picker.order: p[i] is the place in the pool of the i-th to be asked.  The pool
\* is rotated to start at index k, or the members that may be used come first.
Rotated(ups, k, p) ==
    \A i \in DOMAIN ups : p[i] = IF i + k <= Len(ups) THEN i + k ELSE i + k - Len(ups)

PreferHealthy(ups, p) ==
    \A i, j \in DOMAIN ups : i < j =>
        IF Healthy(ups[p[i]].id) = Healthy(ups[p[j]].id) THEN p[i] < p[j] ELSE Healthy(ups[p[i]].id)
Ordered(pool, k, p) ==
    IF pool.strategy = "healthaware" THEN PreferHealthy(pool.ups, p) ELSE Rotated(pool.ups, k, p)

\* forceFirst, and ForceFailover skips the first of several.
ToFront(s, k) == [i \in DOMAIN s |-> IF i = 1 THEN s[k] ELSE IF i <= k THEN s[i - 1] ELSE s[i]]
Forced(s, o) ==
    LET at == {k \in DOMAIN s : o.force # "" /\ s[k].id = o.force}
        f == IF at = {} THEN s ELSE ToFront(s, CHOOSE k \in at : TRUE)
    IN  IF o.failover /\ Len(f) > 1 THEN Tail(f) ELSE f

\* Mutant: the shared picker serves every request.
StaleShares(r) == FALSE

\* orderForSnapshot: a request older than the topology uses a picker of its own.
Stale(r) == req[r].gen < topology.gen

\* A policy the snapshot does not have is an error with SERVFAIL.
UnknownPolicy(r) ==
    /\ At(r, "order") /\ req[r].opts.unknown
    /\ Return(r, [req[r] EXCEPT !.rcode = "SERVFAIL", !.err = "policy"])

\* orderForSnapshot and the options that change the order; a synthetic answer
\* is returned without asking anybody.
Order(r) ==
    /\ At(r, "order") /\ ~req[r].opts.unknown
    /\ LET pool == Topo[req[r].gen]
           n == Len(pool.ups)
           o == req[r].opts
       IN  \E k \in 0..(n - 1), p \in [1..n -> 1..n] :
             /\ pool.strategy = "roundrobin" => k = (IF Stale(r) \/ rr = -1 THEN 0 ELSE rr % n)
             /\ pool.strategy \in {"ordered", "healthaware"} => k = 0
             /\ Ordered(pool, k, p)
             /\ rr' = IF pool.strategy = "roundrobin" /\ ~Stale(r)
                        THEN (IF rr = -1 THEN 1 ELSE rr + 1) ELSE rr
             /\ firsts' = IF req[r].gen < topology.gen THEN firsts
                          ELSE [firsts EXCEPT ![pool.ups[p[1]].id] = @ + 1]
             /\ Upd(r, [req[r] EXCEPT !.order = Forced([i \in 1..n |-> pool.ups[p[i]]], o),
                          !.pc = IF o.synthetic THEN "finish" ELSE "next",
                          !.rcode = IF o.synthetic THEN "synthetic" ELSE ""])
    /\ UNCHANGED <<sc, active, topology, health, slots>>

-----------------------------------------------------------------------------

\* A fault in place of an attempt: go on with the options o, or return.
Skip(q, on, o) ==
    IF on THEN [q EXCEPT !.order = Tail(@), !.rcode = "SERVFAIL", !.opts = o]
    ELSE [q EXCEPT !.pc = "finish", !.rcode = "SERVFAIL"]

\* A fault option stands in for the attempt at the next upstream; ForceTimeout
\* and ForceTransportError are used up by one.
Turn(q, fo) ==
    IF Head(q.order).id \in q.opts.unavailable THEN Skip(q, fo.transport, q.opts)
    ELSE IF q.opts.timeout THEN Skip(q, fo.timeout, [q.opts EXCEPT !.timeout = FALSE])
    ELSE IF q.opts.transport THEN Skip(q, fo.transport, [q.opts EXCEPT !.transport = FALSE])
    ELSE [q EXCEPT !.pc = "attempt"]

\* One turn of the loop up to the attempt.
NextUpstream(r) ==
    /\ At(r, "next")
    /\ LET q == req[r] IN
         \/ /\ q.order = <<>>
            /\ Upd(r, [q EXCEPT !.pc = "finish", !.rcode = IF @ = "" THEN "SERVFAIL" ELSE @])
            /\ UNCHANGED slots
         \/ /\ q.order # <<>> /\ q.ctx # "live"
            /\ Upd(r, [q EXCEPT !.pc = "done", !.order = <<>>, !.rcode = "", !.err = "context"])
            /\ slots' = slots - 1
         \/ /\ q.order # <<>> /\ q.ctx = "live"
            /\ Upd(r, Turn(q, Fo(r)))
            /\ UNCHANGED slots
    /\ UNCHANGED <<sc, active, shared>>

\* attempt: a truncated UDP reply is asked again over TCP where the policy says
\* so, and is an error otherwise, as is a reply that does not match the query.
Attempt(r, reply) ==
    /\ At(r, "attempt") /\ reply \in sc.plan[r].replies
    /\ LET q == req[r]
           u == Head(q.order)
           out == IF reply = "truncated" THEN "invalid" ELSE reply
       IN  IF reply = "truncated" /\ Fo(r).retryTCP /\ u.transport = "udp" /\ ~q.retry
             THEN Upd(r, [q EXCEPT !.retry = TRUE])
             ELSE Upd(r, [q EXCEPT !.pc = "judge", !.retry = FALSE,
                                   !.tried = Append(@, [id |-> u.id, out |-> out])])
    /\ UNCHANGED <<sc, active, shared, slots>>

\* recordHealth: RecordSuccess, or RecordFailure, of a request that is not older
\* than the topology.
RecordHealth(r, u, ok) ==
    LET old == IF u.id \in DOMAIN health THEN health[u.id] ELSE Fresh
        f == IF ok THEN 0 ELSE old.fails + 1
        new == [fails |-> f, down |-> f >= Threshold, cooled |-> FALSE, ep |-> u.ep]
    IN  health' = IF req[r].gen < topology.gen THEN health
                  ELSE [id \in DOMAIN health \cup {u.id} |-> IF id = u.id THEN new ELSE health[id]]

\* Mutant: NXDOMAIN is treated like SERVFAIL.
FailsOverNX(fo, out) ==
    CASE out = "timeout" -> fo.timeout
      [] out = "invalid" -> fo.transport
      [] out \in {"SERVFAIL", "NXDOMAIN"} -> fo.servfail
      [] out = "REFUSED" -> fo.refused
      [] OTHER -> FALSE

\* Whether the loop goes on to the next upstream after an outcome.
FailsOver(fo, out) ==
    CASE out = "timeout" -> fo.timeout
      [] out = "invalid" -> fo.transport
      [] out = "SERVFAIL" -> fo.servfail
      [] out = "REFUSED" -> fo.refused
      [] OTHER -> FALSE

\* Mutant: every context that ends counts against the upstream.
BlamesAny(ctx) == TRUE

\* Caller cancellation says nothing about the upstream; running out of the
\* total budget while waiting on it does.
Blames(ctx) == ctx = "expired"

\* What the loop does with an attempt.  When the context is over the error is
\* the context's.
Judge(r) ==
    /\ At(r, "judge")
    /\ LET q == req[r]
           u == Head(q.order)
           out == q.tried[Len(q.tried)].out
           ok == out \in Rcodes
       IN  IF ~ok /\ q.ctx # "live"
             THEN /\ IF Blames(q.ctx) THEN RecordHealth(r, u, FALSE) ELSE UNCHANGED health
                  /\ Upd(r, [q EXCEPT !.pc = "done", !.order = <<>>, !.rcode = "", !.err = "context"])
                  /\ slots' = slots - 1
             ELSE /\ RecordHealth(r, u, ok)
                  /\ Upd(r, [q EXCEPT !.rcode = IF ok THEN out ELSE "SERVFAIL",
                                      !.order = IF FailsOver(Fo(r), out) THEN Tail(@) ELSE @,
                                      !.pc = IF FailsOver(Fo(r), out) THEN "next" ELSE "finish"])
                  /\ UNCHANGED slots
    /\ UNCHANGED <<sc, active, topology, rr, firsts>>

Finish(r) == At(r, "finish") /\ Return(r, req[r])

\* DefaultCooldown has passed since downAt.
Cooldown(id) ==
    /\ id \in DOMAIN health /\ health[id].down /\ ~health[id].cooled
    /\ health' = [health EXCEPT ![id].cooled = TRUE]
    /\ UNCHANGED <<sc, active, topology, rr, firsts, slots, req>>

Exchange(r) ==
    \/ Acquire(r) \/ ObserveTopology(r) \/ UnknownPolicy(r) \/ Order(r) \/ NextUpstream(r)
    \/ Judge(r) \/ Finish(r)
    \/ \E reply \in Replies : Attempt(r, reply)

Rest == (\A r \in Requests : sc.plan[r].runs => At(r, "done")) /\ UNCHANGED vars

Next ==
    \/ Activate \/ Rest
    \/ \E r \in Requests : Load(r) \/ Exchange(r) \/ \E how \in {"cancelled", "expired"} : EndContext(r, how)
    \/ \E id \in Ids : Cooldown(id)

Spec == Init /\ [][Next]_vars

-----------------------------------------------------------------------------
Busy(r) == req[r].pc \in {"observe", "order", "next", "attempt", "judge", "finish"}

\* Health only ever speaks of upstreams of the newest topology, and of the
\* endpoint they have there: an answer or a failure that a request of an older
\* snapshot got from a retired upstream, or from its old endpoint, leaves no
\* entry behind, whenever that request finishes.
HealthIsCurrent ==
    \A id \in DOMAIN health :
        \E u \in topology.ups : u.id = id /\ u.ep = health[id].ep

\* A round-robin pool spreads the first choice evenly over its upstreams: the
\* requests of the current snapshot that were ordered since it was first seen
\* differ by at most one between two upstreams, whatever requests of older
\* snapshots run beside them.
SpreadEvenly ==
    topology.gen # 0 /\ Topo[topology.gen].strategy = "roundrobin" =>
        \A u, v \in topology.ups : firsts[u.id] - firsts[v.id] <= 1

\* What the policy says of an outcome.
Allows(fo, out) ==
    CASE out = "timeout" -> fo.timeout
      [] out = "invalid" -> fo.transport
      [] out = "SERVFAIL" -> fo.servfail
      [] out = "REFUSED" -> fo.refused
      [] OTHER -> FALSE

\* The exchange asks another upstream only after an outcome for which the
\* policy allows failover, never asks one twice, and returns the answer of the
\* last it asked: NXDOMAIN is final.
FailsOverAsAllowed ==
    \A r \in Requests : LET t == req[r].tried IN
        /\ \A i \in 1..(Len(t) - 1) : Allows(Fo(r), t[i].out)
        /\ \A i, j \in DOMAIN t : t[i].id = t[j].id => i = j
        /\ At(r, "done") /\ req[r].err = "" /\ req[r].rcode \in Rcodes \ {"SERVFAIL"}
             => t # <<>> /\ t[Len(t)].out = req[r].rcode

\* Slots are counted exactly and never exceed MaxInflight.
SlotsExact == slots = Cardinality({r \in Requests : Busy(r)})

\* A member that may be used is asked before one that is down: a health-aware
\* request starts with a member that was down only when all of them were, or
\* when a fault option put that one first.
DownIsLastResort ==
    [][\A r \in Requests :
         /\ At(r, "order") /\ req'[r].pc = "next" /\ Topo[req[r].gen].strategy = "healthaware"
         /\ req[r].opts = NoOpts
         /\ ~Healthy(Head(req'[r].order).id)
         => \A u \in Range(Topo[req[r].gen].ups) : ~Healthy(u.id)]_vars

\* A cancelled caller says nothing about an upstream: a failure is counted only
\* by a request whose context is live or ran out of time.
CancelBlamesNobody ==
    [][\A id \in DOMAIN health' :
         health'[id].fails > (IF id \in DOMAIN health THEN health[id].fails ELSE 0)
         => \E r \in Requests : /\ At(r, "judge") /\ ~(At(r, "judge"))'
                                /\ Head(req[r].order).id = id /\ req[r].ctx # "cancelled"]_vars

-----------------------------------------------------------------------------
(* The inductive invariant behind the properties of the state.             *)
Fields == {"pc", "gen", "ctx", "opts", "order", "tried", "rcode", "err", "retry"}
Labels == {"idle", "slot", "observe", "order", "next", "attempt", "judge", "finish", "done"}

\* What a request may still ask are members of its own pool, none asked before.
Asking(topo, q) ==
    LET o == q.order
        t == q.tried
    IN  /\ q.pc \in {"next", "attempt", "judge"} =>
             /\ o \in Seq(Range(topo[q.gen].ups))
             /\ \A i, j \in DOMAIN o : o[i].id = o[j].id => i = j
             /\ \A i \in DOMAIN o, j \in DOMAIN t :
                  (q.pc = "judge" => i # 1 \/ j # Len(t)) => o[i].id # t[j].id
        /\ q.pc \in {"attempt", "judge"} => o # <<>>
        /\ q.pc = "judge" => t # <<>> /\ t[Len(t)].id = o[1].id

\* It went on only after an outcome that allows it, and answers with the last.
Trail(fo, q) ==
    LET t == q.tried
    IN  /\ t \in Seq(Range(t))
        /\ q.pc \in {"idle", "slot", "observe", "order"} => t = <<>>
        /\ \A i \in DOMAIN t : q.pc \in {"next", "attempt"} \/ i # Len(t) => Allows(fo, t[i].out)
        /\ \A i, j \in DOMAIN t : t[i].id = t[j].id => i = j
        /\ q.pc \notin {"attempt", "judge"} /\ q.rcode \in Rcodes \ {"SERVFAIL"} =>
             t # <<>> /\ t[Len(t)].out = q.rcode

\* The locals q of a request; g is the newest generation seen.
Locals(topo, fo, g, q) ==
    /\ DOMAIN q = Fields /\ q.pc \in Labels
    /\ q.pc \notin {"idle", "done"} => q.gen \in DOMAIN topo
    /\ q.pc \in {"order", "next", "attempt", "judge", "finish"} => q.gen <= g
    /\ Asking(topo, q) /\ Trail(fo, q)

\* What requests share is that of the newest topology: observeTopology has seen
\* a request's snapshot before the request picks an upstream.
Shared ==
    /\ sc \in Scenarios /\ active \in Gens
    /\ topology.gen \in Gens \cup {0}
    /\ topology.ups = IF topology.gen = 0 THEN {} ELSE Range(Topo[topology.gen].ups)
    /\ \A id \in DOMAIN health :
         DOMAIN health[id] = {"fails", "down", "cooled", "ep"} /\ health[id].fails \in Nat
    /\ HealthIsCurrent

Coherent ==
    /\ Shared
    /\ DOMAIN req = Requests
    /\ \A r \in Requests : Locals(Topo, Fo(r), topology.gen, req[r])
    /\ SlotsExact /\ slots <= MaxSlots

\* Where the rotation of a pool of n stands, by the counter c.
Cursor(c, n) == IF c = -1 THEN 0 ELSE c % n

\* Place i of n is one of the m places before place k, round the end.
Behind(n, k, m, i) == IF i < k THEN k - i <= m ELSE k + n - i <= m

\* The m members before the cursor were picked once more than the others.
Level(ups, f, k, m, b) ==
    \A i \in 1..Len(ups) : f[ups[i].id] = IF Behind(Len(ups), k, m, i - 1) THEN b + 1 ELSE b

\* The picks of a rotating pool, relative to Coherent.
Rotating ==
    /\ rr \in Nat \cup {-1} /\ DOMAIN firsts = Ids
    /\ topology.gen # 0 /\ Topo[topology.gen].strategy = "roundrobin" =>
         LET ups == Topo[topology.gen].ups
         IN  \E m \in 0..(Len(ups) - 1), b \in 0..(rr + 1) : Level(ups, firsts, Cursor(rr, Len(ups)), m, b)
=============================================================================
