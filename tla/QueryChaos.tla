----------------------------- MODULE QueryChaos -----------------------------
(***************************************************************************)
(* One DNS query through dnsquery.Handler.ServeDNS with chaos engaged: the *)
(* delay session of chaos/effects, the process-wide delay budgets, cancel  *)
(* watches and pressure table of chaos, and what runs beside it: emergency *)
(* disable and enable, apply, reset, query deadlines, peers that close and *)
(* shutdown.                                                               *)
(*                                                                         *)
(* A decision of the engine is a member of PrePlans or PostPlans.  A       *)
(* result is what produced it: "base" is the answer without chaos,         *)
(* "injected" one that pre-resolution chaos made (an early rcode, a        *)
(* synthetic upstream answer), "mutated" one that response chaos changed.  *)
(* What is sent may also be "hinted": dropped, truncated or closed on.     *)
(* A plan's delays are what the engine planned; timers are not measured, a *)
(* sleep ends when its timer fires, and it may fire at any time.           *)
(***************************************************************************)
EXTENDS Integers, Sequences, FiniteSets

CONSTANTS
    Queries,        \* DNS queries, each served once
    Policies,       \* chaos policy ids
    Admins,         \* callers of apply, reset, emergency disable and enable
    Ops,            \* the calls they make
    Caps,           \* the limits a snapshot can hold; 0 is unlimited
    PrePlans,       \* pre-resolution decisions
    PostPlans,      \* response decisions
    MaxOps,         \* bound on the number of calls of admins
    Nil             \* no policy

AllOps == {"apply", "reset", "disable", "enable"}
Idle == [op |-> "none", step |-> "idle"]
Actions == [policy : Policies, delay : Nat]
NoPre == [before |-> <<>>, upstream |-> <<>>, early |-> FALSE, inject |-> FALSE,
          limit |-> Nil, hint |-> FALSE]
NoPost == [after |-> <<>>, response |-> <<>>, mutate |-> FALSE, hint |-> FALSE]

ASSUME CapsAssumption ==
    Caps \subseteq [conc : Nat, policyConc : [Policies -> Nat], policyRate : [Policies -> BOOLEAN],
                    delay : Nat, policyDelay : [Policies -> Nat]]
ASSUME PlanAssumption ==
    /\ PrePlans \subseteq [before : Seq(Actions), upstream : Seq(Actions), early : BOOLEAN,
                           inject : BOOLEAN, limit : Policies \cup {Nil}, hint : BOOLEAN]
    /\ PostPlans \subseteq [after : Seq(Actions), response : Seq(Actions), mutate : BOOLEAN,
                            hint : BOOLEAN]
ASSUME OpAssumption == Ops \subseteq AllOps /\ MaxOps \in Nat
ASSUME NilAssumption == Nil \notin Policies
ASSUME FiniteAssumption == IsFiniteSet(Queries)

VARIABLES
    off,        \* Store.EmergencyChaosOff, the runtime bit
    cur,        \* the active snapshot: its inhibit flag and its caps
    global,     \* Budgets.global
    perPolicy,  \* Budgets.perPolicy
    watches,    \* Budgets.cancels: the sessions registered
    inflight,   \* Pressure: queries admitted per policy
    shutdown,   \* the listener's context is cancelled
    st,         \* st[q]: the locals of ServeDNS and its context
    tok,        \* tok[q]: the policies q's reservation counts, {} for none
    ses,        \* ses[q]: the rest of its Session
    apc,        \* apc[a]: the call admin a is in and its next step
    firing,     \* firing[a]: cancel functions a has taken and not yet run
    ops,        \* calls made so far
    calm        \* calm[q]: chaos is off since before q was loaded, for a property

budget == <<global, perPolicy>>
admin == <<apc, firing, ops>>
vars == <<off, cur, budget, watches, inflight, shutdown, st, tok, ses, admin, calm>>

Fresh == [skipped |-> FALSE, stopped |-> FALSE, cancelled |-> FALSE,
          delayed |-> 0, spent |-> [p \in Policies |-> 0]]

Init ==
    /\ off = FALSE
    /\ cur \in [flag : {FALSE}, caps : Caps]
    /\ global = 0
    /\ perPolicy = [p \in Policies |-> 0]
    /\ watches = {}
    /\ inflight = [p \in Policies |-> 0]
    /\ shutdown = FALSE
    /\ st = [q \in Queries |->
               [pc |-> "load", ctx |-> "live", snap |-> cur, pre |-> NoPre, post |-> NoPost,
                phase |-> "before", todo |-> <<>>, held |-> Nil,
                res |-> "none", base |-> "none", sent |-> "none"]]
    /\ tok = [q \in Queries |-> {}]
    /\ ses = [q \in Queries |-> Fresh]
    /\ apc = [a \in Admins |-> Idle]
    /\ firing = [a \in Admins |-> {}]
    /\ ops = 0
    /\ calm = [q \in Queries |-> FALSE]

At(q, l) == st[q].pc = l
Goto(q, l) == st' = [st EXCEPT ![q].pc = l]

\* ServeDNS returns; its locals are gone, the deferred releases still to run.
Send(q, what) ==
    st' = [st EXCEPT ![q].pc = "unwatch", ![q].sent = what, ![q].pre = NoPre, ![q].post = NoPost,
                     ![q].phase = "before", ![q].todo = <<>>, ![q].res = "none", ![q].base = "none"]

-----------------------------------------------------------------------------
(* ServeDNS up to the first delay.                                         *)

\* A context that is already done: nothing was acquired, the query is dropped.
LoadSnapshot(q) ==
    /\ At(q, "load")
    /\ IF st[q].ctx # "live"
         THEN /\ st' = [st EXCEPT ![q].pc = "done", ![q].sent = "drop"]
              /\ UNCHANGED calm
         ELSE /\ st' = [st EXCEPT ![q].pc = "decide", ![q].snap = cur]
              /\ calm' = [calm EXCEPT ![q] = off]
    /\ UNCHANGED <<off, cur, budget, watches, inflight, shutdown, tok, ses, admin>>

\* Mutant: only the flag of the snapshot is read.
PlansFlagOnly(q, plans, none) == IF st[q].snap.flag \/ st[q].ctx # "live" THEN {none} ELSE plans

\* inhibited() reads the bit; Decide gives up on a context that is done and
\* plans nothing from a snapshot that carries the flag.
Plans(q, plans, none) ==
    IF off \/ st[q].snap.flag \/ st[q].ctx # "live" THEN {none} ELSE plans

DecidePre(q) ==
    /\ At(q, "decide")
    /\ \E p \in Plans(q, PrePlans, NoPre) : st' = [st EXCEPT ![q].pc = "watch", ![q].pre = p]
    /\ UNCHANGED <<off, cur, budget, watches, inflight, shutdown, tok, ses, admin, calm>>

\* NewSession: WatchCancel registers the session.
NewSession(q) ==
    /\ At(q, "watch")
    /\ watches' = watches \cup {q}
    /\ st' = [st EXCEPT ![q].pc = "enter", ![q].phase = "before"]
    /\ UNCHANGED <<off, cur, budget, inflight, shutdown, tok, ses, admin, calm>>

-----------------------------------------------------------------------------
(* Session.Sleep: the delay actions of one phase.                          *)

Delays(q) ==
    CASE st[q].phase = "before"   -> st[q].pre.before
      [] st[q].phase = "upstream" -> st[q].pre.upstream
      [] st[q].phase = "after"    -> st[q].post.after
      [] st[q].phase = "response" -> st[q].post.response

\* Sleep returned an error.  ServeDNS drops the query; answer() passes it the
\* error, which it answers with SERVFAIL when only the deadline has passed.
Abort(q) ==
    Send(q, IF st[q].phase = "upstream" /\ st[q].ctx # "cancelled" THEN "servfail" ELSE "drop")

Enter(q) ==
    /\ At(q, "enter")
    /\ IF st[q].ctx = "cancelled"
         THEN Abort(q)
         ELSE st' = [st EXCEPT ![q].pc = "loop", ![q].todo = Delays(q)]
    /\ UNCHANGED <<off, cur, budget, watches, inflight, shutdown, tok, ses, admin, calm>>

Least(a, b) == IF a < b THEN a ELSE b
\* Mutant: what earlier delays used up is not subtracted.
LimitedEach(d, cap, used) == IF cap > 0 THEN Least(d, cap) ELSE d

Limited(d, cap, used) == IF cap > 0 THEN Least(d, cap - used) ELSE d

\* What is left of the action's delay under the request's own snapshot.
Clamped(q, a) ==
    LET c == st[q].snap.caps
    IN  Limited(Limited(a.delay, c.delay, ses[q].delayed),
                c.policyDelay[a.policy], ses[q].spent[a.policy])

\* Mutant: one more than the limit.
BelowOrAt(count, cap) == cap = 0 \/ count <= cap

Below(count, cap) == cap = 0 \/ count < cap

\* ReserveDelay, or ReservePolicy when the session has its token.
CanReserve(q, p) ==
    LET c == st[q].snap.caps
    IN  \/ p \in tok[q]
        \/ /\ tok[q] = {} => Below(global, c.conc)
           /\ Below(perPolicy[p], c.policyConc[p])

\* Mutant: ReservePolicy counts the policy and does not remember it.
ReserveForgets(q, p) ==
    /\ CanReserve(q, p)
    /\ global' = IF tok[q] = {} THEN global + 1 ELSE global
    /\ perPolicy' = [perPolicy EXCEPT ![p] = @ + 1]
    /\ tok' = [tok EXCEPT ![q] = IF @ = {} THEN {p} ELSE @]

Reserve(q, p) ==
    /\ CanReserve(q, p)
    /\ global' = IF tok[q] = {} THEN global + 1 ELSE global
    /\ perPolicy' = IF p \in tok[q] THEN perPolicy ELSE [perPolicy EXCEPT ![p] = @ + 1]
    /\ tok' = [tok EXCEPT ![q] = @ \cup {p}]

\* The label after a phase.
After(q) ==
    CASE st[q].phase = "before"   -> "check"
      [] st[q].phase = "upstream" -> "exchange"
      [] st[q].phase = "after"    -> "enter"
      [] st[q].phase = "response" -> "final"

LeaveLoop(q) ==
    /\ st' = [st EXCEPT ![q].pc = After(q), ![q].todo = <<>>,
                        ![q].phase = IF @ = "after" THEN "response" ELSE @]
    /\ UNCHANGED <<budget, tok, ses>>

\* sleepOne up to the select: the budgets are taken under their own lock.
SleepOne(q) ==
    /\ At(q, "loop")
    /\ \/ /\ st[q].todo = <<>> \/ ses[q].skipped \/ ses[q].stopped
          /\ LeaveLoop(q)
       \/ /\ st[q].todo # <<>> /\ ~ses[q].skipped /\ ~ses[q].stopped
          /\ LET a == Head(st[q].todo)
                 d == Clamped(q, a)
             IN  \/ /\ d <= 0
                    /\ st' = [st EXCEPT ![q].todo = Tail(@)]
                    /\ UNCHANGED <<budget, tok, ses>>
                 \/ /\ d > 0 /\ ~CanReserve(q, a.policy)
                    /\ ses' = [ses EXCEPT ![q].skipped = TRUE]
                    /\ UNCHANGED <<budget, tok, st>>
                 \/ /\ d > 0 /\ Reserve(q, a.policy)
                    /\ ses' = [ses EXCEPT ![q].delayed = @ + d, ![q].spent[a.policy] = @ + d]
                    /\ st' = [st EXCEPT ![q].pc = "sleep", ![q].todo = Tail(@)]
    /\ UNCHANGED <<off, cur, watches, inflight, shutdown, admin, calm>>

\* Mutants: waitDelayOrEmergency has no timer case, no shutdown case.
TimerBeforeDeadline(q) ==
    /\ At(q, "sleep") /\ Goto(q, "loop")
    /\ UNCHANGED <<off, cur, budget, watches, inflight, shutdown, tok, ses, admin, calm>>

ContextDoneOnce(q) ==
    /\ \/ At(q, "sleep") /\ st[q].ctx = "cancelled" /\ Abort(q)
       \/ At(q, "sleep") /\ st[q].ctx = "deadline" /\ Goto(q, "wait")
    /\ UNCHANGED <<off, cur, budget, watches, inflight, shutdown, tok, ses, admin, calm>>

\* The two selects: sleepOne's, and waitDelayOrEmergency's once the query
\* deadline has passed.  Any ready channel may be taken.
Timer(q) ==
    /\ At(q, "sleep") \/ At(q, "wait")
    /\ Goto(q, "loop")
    /\ UNCHANGED <<off, cur, budget, watches, inflight, shutdown, tok, ses, admin, calm>>

Cancelled(q) ==
    /\ At(q, "sleep") \/ At(q, "wait")
    /\ ses[q].cancelled
    /\ ses' = [ses EXCEPT ![q].stopped = TRUE]
    /\ Goto(q, "loop")
    /\ UNCHANGED <<off, cur, budget, watches, inflight, shutdown, tok, admin, calm>>

ContextDone(q) ==
    /\ \/ At(q, "sleep") /\ st[q].ctx = "cancelled" /\ Abort(q)
       \/ At(q, "sleep") /\ st[q].ctx = "deadline" /\ Goto(q, "wait")
       \/ At(q, "wait") /\ shutdown /\ Abort(q)
    /\ UNCHANGED <<off, cur, budget, watches, inflight, shutdown, tok, ses, admin, calm>>

-----------------------------------------------------------------------------
(* ServeDNS between the delays.                                            *)

CheckInhibited(q) ==
    /\ At(q, "check")
    /\ Goto(q, IF off THEN "base" ELSE "limit")
    /\ UNCHANGED <<off, cur, budget, watches, inflight, shutdown, tok, ses, admin, calm>>

\* answer() fails: its context, or the listener's once the deadline has
\* passed, is cancelled.
FailWork(q) ==
    \/ st[q].ctx = "cancelled" /\ Send(q, "drop")
    \/ st[q].ctx = "deadline" /\ shutdown /\ Send(q, "servfail")

\* sendBase: answer() with an empty plan.
SendBase(q) ==
    /\ At(q, "base")
    /\ Send(q, "base") \/ FailWork(q)
    /\ UNCHANGED <<off, cur, budget, watches, inflight, shutdown, tok, ses, admin, calm>>

\* The plan limits the query: its policy has a concurrency or a rate.
Pressed(q) ==
    /\ st[q].pre.limit # Nil
    /\ LET c == st[q].snap.caps
       IN  c.policyConc[st[q].pre.limit] > 0 \/ c.policyRate[st[q].pre.limit]

\* CheckPressure: Acquire, whose slot is held to the end of the query.  When a
\* rate is configured it may be used up at any time.
Limit(q) ==
    LET p == st[q].pre.limit
        c == st[q].snap.caps
    IN  /\ At(q, "limit")
        /\ \/ /\ ~Pressed(q)
              /\ Goto(q, "answer")
              /\ UNCHANGED inflight
           \/ /\ Pressed(q) /\ (~Below(inflight[p], c.policyConc[p]) \/ c.policyRate[p])
              /\ Send(q, "limited")
              /\ UNCHANGED inflight
           \/ /\ Pressed(q) /\ Below(inflight[p], c.policyConc[p])
              /\ inflight' = [inflight EXCEPT ![p] = @ + 1]
              /\ st' = [st EXCEPT ![q].pc = "answer", ![q].held = p]
        /\ UNCHANGED <<off, cur, budget, watches, shutdown, tok, ses, admin, calm>>

Produced(q) == IF st[q].pre.inject THEN {"base", "injected"} ELSE {"base"}

\* EarlyFailure; or answer(): from the cache or the zones, refused, failed on a
\* cancelled context, or on to the upstream delay.
Answer(q) ==
    /\ At(q, "answer")
    /\ \/ /\ st[q].pre.early
          /\ st' = [st EXCEPT ![q].pc = "answered", ![q].res = "injected"]
       \/ /\ ~st[q].pre.early
          /\ \/ \E r \in Produced(q) : st' = [st EXCEPT ![q].pc = "answered", ![q].res = r]
             \/ FailWork(q)
             \/ st' = [st EXCEPT ![q].pc = "enter", ![q].phase = "upstream"]
    /\ UNCHANGED <<off, cur, budget, watches, inflight, shutdown, tok, ses, admin, calm>>

\* ExchangeOpts, under a context of its own once the deadline has passed.
Exchange(q) ==
    /\ At(q, "exchange")
    /\ \/ \E r \in Produced(q) : st' = [st EXCEPT ![q].pc = "answered", ![q].res = r]
       \/ FailWork(q)
    /\ UNCHANGED <<off, cur, budget, watches, inflight, shutdown, tok, ses, admin, calm>>

Answered(q) ==
    /\ At(q, "answered")
    /\ IF off THEN Send(q, st[q].res) ELSE Goto(q, "decide2")
    /\ UNCHANGED <<off, cur, budget, watches, inflight, shutdown, tok, ses, admin, calm>>

DecidePost(q) ==
    /\ At(q, "decide2")
    /\ \E p \in Plans(q, PostPlans, NoPost) : st' = [st EXCEPT ![q].pc = "mutate", ![q].post = p]
    /\ UNCHANGED <<off, cur, budget, watches, inflight, shutdown, tok, ses, admin, calm>>

\* ApplyResponse, unless chaos was disabled since the decision.
Mutate(q) ==
    /\ At(q, "mutate")
    /\ IF off THEN Send(q, st[q].res)
       ELSE st' = [st EXCEPT ![q].pc = "enter", ![q].phase = "after", ![q].base = st[q].res,
                             ![q].res = IF st[q].post.mutate THEN "mutated" ELSE @]
    /\ UNCHANGED <<off, cur, budget, watches, inflight, shutdown, tok, ses, admin, calm>>

Final(q) ==
    /\ At(q, "final")
    /\ Send(q, IF off THEN st[q].base
               ELSE IF st[q].pre.hint \/ st[q].post.hint THEN "hinted" ELSE st[q].res)
    /\ UNCHANGED <<off, cur, budget, watches, inflight, shutdown, tok, ses, admin, calm>>

-----------------------------------------------------------------------------
(* The deferred releases: the pressure slot, the watch, the reservation.   *)

Unwatch(q) ==
    LET p == st[q].held
    IN  /\ At(q, "unwatch")
        /\ watches' = watches \ {q}
        /\ inflight' = IF p = Nil THEN inflight ELSE [inflight EXCEPT ![p] = @ - 1]
        /\ st' = [st EXCEPT ![q].pc = "free", ![q].held = Nil]
        /\ UNCHANGED <<off, cur, budget, shutdown, tok, ses, admin, calm>>

Down(n) == IF n > 0 THEN n - 1 ELSE n

Release(q) ==
    /\ At(q, "free")
    /\ global' = IF tok[q] = {} THEN global ELSE Down(global)
    /\ perPolicy' = [p \in Policies |-> IF p \in tok[q] THEN Down(perPolicy[p]) ELSE perPolicy[p]]
    /\ tok' = [tok EXCEPT ![q] = {}]
    /\ ses' = [ses EXCEPT ![q] = Fresh]
    /\ Goto(q, "done")
    /\ UNCHANGED <<off, cur, watches, inflight, shutdown, admin, calm>>

-----------------------------------------------------------------------------
(* The listener: the query deadline passes, a TCP peer closes, or Shutdown *)
(* cancels every context that is not done.                                 *)

EndContext(q, why) ==
    /\ st[q].ctx = "live" /\ st[q].pc # "done"
    /\ st' = [st EXCEPT ![q].ctx = why]
    /\ UNCHANGED <<off, cur, budget, watches, inflight, shutdown, tok, ses, admin, calm>>

Shutdown ==
    /\ ~shutdown
    /\ shutdown' = TRUE
    /\ st' = [q \in Queries |-> IF st[q].ctx = "live" THEN [st[q] EXCEPT !.ctx = "cancelled"]
                                ELSE st[q]]
    /\ UNCHANGED <<off, cur, budget, watches, inflight, tok, ses, admin, calm>>

-----------------------------------------------------------------------------
(* Administration.  Reset clears the bit, swaps and cancels the delays;    *)
(* emergency disable sets the bit, stamps the snapshot and cancels them;   *)
(* enable clears and stamps; apply only swaps.  Apply and reset hold       *)
(* App.mu to the end, the others take no lock.                             *)

Locking == {"apply", "reset"}

SetBit(b) ==
    /\ off' = b
    /\ calm' = IF b THEN calm ELSE [q \in Queries |-> FALSE]

StartOp(a, op) ==
    /\ apc[a] = Idle /\ ops < MaxOps /\ op \in Ops
    /\ op \in Locking => \A b \in Admins : apc[b].op \notin Locking
    /\ ops' = ops + 1
    /\ apc' = [apc EXCEPT ![a] = [op |-> op, step |-> "publish"]]
    /\ CASE op = "apply" -> UNCHANGED <<off, calm>>
         [] op = "disable" -> SetBit(TRUE)
         [] OTHER -> SetBit(FALSE)
    /\ UNCHANGED <<cur, budget, watches, inflight, shutdown, st, tok, ses, firing>>

\* Store.Swap of other limits, or StampEmergency.
Publish(a) ==
    /\ apc[a].step = "publish"
    /\ \E c \in Caps :
          /\ apc[a].op \notin Locking => c = cur.caps
          /\ cur' = [flag |-> off, caps |-> c]
    /\ apc' = [apc EXCEPT ![a] = IF @.op \in {"reset", "disable"} THEN [@ EXCEPT !.step = "cancel"]
                                 ELSE Idle]
    /\ UNCHANGED <<off, budget, watches, inflight, shutdown, st, tok, ses, firing, ops, calm>>

\* Budgets.CancelAll: the list is taken under the lock, the functions run later.
TakeCancels(a) ==
    /\ apc[a].step = "cancel"
    /\ firing' = [firing EXCEPT ![a] = watches]
    /\ watches' = {}
    /\ apc' = [apc EXCEPT ![a].step = "fire"]
    /\ UNCHANGED <<off, cur, budget, inflight, shutdown, st, tok, ses, ops, calm>>

RunCancel(a) ==
    /\ apc[a].step = "fire"
    /\ \/ \E q \in firing[a] :
             /\ ses' = [ses EXCEPT ![q].cancelled = TRUE]
             /\ firing' = [firing EXCEPT ![a] = @ \ {q}]
             /\ UNCHANGED apc
       \/ /\ firing[a] = {}
          /\ apc' = [apc EXCEPT ![a] = Idle]
          /\ UNCHANGED <<ses, firing>>
    /\ UNCHANGED <<off, cur, budget, watches, inflight, shutdown, st, tok, ops, calm>>

-----------------------------------------------------------------------------
\* What the query's goroutine does without waiting for a timer.
Serve(q) ==
    \/ LoadSnapshot(q) \/ DecidePre(q) \/ NewSession(q)
    \/ Enter(q) \/ SleepOne(q) \/ Cancelled(q) \/ ContextDone(q)
    \/ CheckInhibited(q) \/ SendBase(q) \/ Limit(q) \/ Answer(q) \/ Exchange(q)
    \/ Answered(q) \/ DecidePost(q) \/ Mutate(q) \/ Final(q)
    \/ Unwatch(q) \/ Release(q)

Administer(a) == Publish(a) \/ TakeCancels(a) \/ RunCancel(a)

\* Every query is served and no admin has to call.
Rest ==
    /\ \A q \in Queries : st[q].pc = "done"
    /\ \A a \in Admins : apc[a] = Idle
    /\ UNCHANGED vars

Next ==
    \/ \E q \in Queries : Serve(q) \/ Timer(q) \/ \E why \in {"deadline", "cancelled"} : EndContext(q, why)
    \/ \E a \in Admins : Administer(a) \/ \E op \in AllOps : StartOp(a, op)
    \/ Shutdown
    \/ Rest

Spec == Init /\ [][Next]_vars

\* A goroutine that can run does; a sleep need not end while nothing wakes it.
PromptSpec ==
    /\ Spec
    /\ \A q \in Queries : WF_vars(Serve(q))
    /\ \A a \in Admins : WF_vars(Administer(a))

TimersFire == \A q \in Queries : WF_vars(Timer(q))

-----------------------------------------------------------------------------
(* Properties.                                                             *)

\* The budget counters are the reservations that sessions hold, the pressure
\* counters the slots that queries hold, and a query that is done holds neither.
CountersExact ==
    /\ global = Cardinality({q \in Queries : tok[q] # {}})
    /\ \A p \in Policies :
          /\ perPolicy[p] = Cardinality({q \in Queries : p \in tok[q]})
          /\ inflight[p] = Cardinality({q \in Queries : st[q].held = p})
    /\ \A q \in Queries :
          At(q, "done") => tok[q] = {} /\ st[q].held = Nil /\ q \notin watches

\* A reservation keeps to the limits of the snapshot the query was given, also
\* when an apply lowered or raised them while other queries sleep.
ReservesWithinLimits ==
    [][\A q \in Queries : tok'[q] # tok[q] /\ tok'[q] # {} =>
          /\ st[q].snap.caps.conc > 0 /\ tok[q] = {} => global' <= st[q].snap.caps.conc
          /\ \A p \in tok'[q] \ tok[q] :
                st[q].snap.caps.policyConc[p] > 0 => perPolicy'[p] <= st[q].snap.caps.policyConc[p]]_vars

\* All the delays of one request together, over every phase and policy, stay
\* within the safety maximum and within each policy's own.
RequestDelayBounded ==
    \A q \in Queries :
       LET c == st[q].snap.caps
       IN  /\ c.delay > 0 => ses[q].delayed <= c.delay
           /\ \A p \in Policies : c.policyDelay[p] > 0 => ses[q].spent[p] <= c.policyDelay[p]

\* A query that began under emergency disable meets no chaos while it lasts: it
\* never sleeps, is not limited, and its answer is the base answer.
DisabledMeansUntouched ==
    \A q \in Queries : calm[q] =>
       /\ tok[q] = {} /\ st[q].held = Nil
       /\ st[q].sent \notin {"injected", "mutated", "limited", "hinted"}

\* After Shutdown every query ends without waiting for a timer, also one that
\* sleeps past its deadline.
ShutdownDrains == shutdown ~> \A q \in Queries : At(q, "done")

\* Where timers fire, every query is served and what it reserved is returned.
Served == TimersFire => \A q \in Queries : <>[](At(q, "done") /\ tok[q] = {})

-----------------------------------------------------------------------------
(* The inductive invariant behind the properties of the state.             *)

Fields == {"pc", "ctx", "snap", "pre", "post", "phase", "todo", "held", "res", "base", "sent"}
Phases == {"before", "upstream", "after", "response"}

\* A query that has not passed CheckPressure, or has given its slot back.
Unlimited(k) ==
    \/ k.pc \in {"load", "decide", "watch", "check", "base", "limit", "free", "done"}
    \/ k.pc \in {"enter", "loop", "sleep", "wait"} /\ k.phase = "before"

\* No chaos is planned for the query and none has touched its answer.
Plain(k) ==
    /\ k.pre = NoPre /\ k.post = NoPost /\ k.todo = <<>> /\ k.held = Nil
    /\ k.res \in {"none", "base"} /\ k.base \in {"none", "base"}
    /\ k.sent \in {"none", "base", "drop", "servfail"}

\* The delays spent are within the limits c of the snapshot.
Within(c, s) ==
    /\ c.delay > 0 => s.delayed <= c.delay
    /\ \A p \in Policies : c.policyDelay[p] > 0 => s.spent[p] <= c.policyDelay[p]

\* One query with locals k, reservation t and session s, which is watched if w
\* and has seen nothing but disabled chaos if m; b is the emergency bit.
Kept(k, t, s, w, m, b) ==
    /\ DOMAIN k = Fields /\ k.phase \in Phases
    /\ k.snap.caps \in Caps /\ k.pre \in PrePlans \cup {NoPre} /\ k.post \in PostPlans \cup {NoPost}
    /\ k.todo \in Seq(Actions) /\ k.held \in Policies \cup {Nil}
    /\ t \subseteq Policies
    /\ DOMAIN s = DOMAIN Fresh /\ s.delayed \in Nat /\ s.spent \in [Policies -> Nat]
    /\ k.pc \in {"load", "decide", "watch", "done"} => t = {} /\ ~w
    /\ k.pc = "free" => ~w
    /\ Unlimited(k) => k.held = Nil
    /\ k.pc = "load" => Plain(k) /\ s.delayed = 0 /\ s.spent = [p \in Policies |-> 0]
    /\ Within(k.snap.caps, s)
    /\ m => b /\ t = {} /\ Plain(k)

Accounted ==
    /\ cur.caps \in Caps /\ watches \subseteq Queries
    /\ DOMAIN st = Queries /\ DOMAIN tok = Queries /\ DOMAIN ses = Queries /\ DOMAIN calm = Queries
    /\ DOMAIN perPolicy = Policies /\ DOMAIN inflight = Policies /\ DOMAIN firing = Admins
    /\ \A a \in Admins : firing[a] \subseteq Queries
    /\ \A q \in Queries : Kept(st[q], tok[q], ses[q], q \in watches, calm[q], off)
    /\ CountersExact
=============================================================================
