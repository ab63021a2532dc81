---------------------------- MODULE ControlPlane ----------------------------
(***************************************************************************)
(* internal/app: the mutations of the control plane.  Plan, Apply and      *)
(* Reset run under App.mu; the chaos activation calls read the active      *)
(* snapshot before they enter Apply; emergency disable and enable never    *)
(* take the lock; every query observes the cache policy of the snapshot it *)
(* loaded.                                                                 *)
(*                                                                         *)
(* The canonical state is reduced to what one chaos policy's activation    *)
(* holds: whether it is enabled and when it expires.  A revision is the    *)
(* hash of the canonical state, so it is the state itself here: two equal  *)
(* states have one revision, however many generations lie between them.    *)
(* Swap and StampEmergency are single steps: SnapshotStore refines them.   *)
(* Between two steps of a call that holds App.mu only an emergency stamp   *)
(* can change the active snapshot, and it changes neither content nor      *)
(* revision; the reads of a Plan are therefore one step, and so is what a  *)
(* write does after it has loaded its own snapshot.  The delays Reset and  *)
(* emergency disable cancel are not part of this module's state.           *)
(***************************************************************************)
EXTENDS Integers, Sequences

CONSTANTS
    Clients,        \* callers of the application service
    Queries,        \* DNS queries in flight
    Keys,           \* idempotency keys
    Exps,           \* expiry instants
    Kinds,          \* the calls clients make
    Files,          \* what the bootstrap mount can hold
    Missing,        \* a mount that is absent or does not load and compile
    Unset,          \* no bootstrap path is configured
    Bad,            \* an operation that fails to apply or compile
    IdempMax,       \* capacity of the idempotency cache
    AuditMax,       \* capacity of the audit ring
    MaxGen,         \* bound: no call starts once this generation is active
    Nil             \* no key, no revision, no expiry, no lock holder

Contents == [on : BOOLEAN, exp : Exps \cup {Nil}]
AllKinds == {"plan", "apply", "activate", "deactivate", "expire", "reset",
             "disable", "enable"}
Statuses == {"ok", "denied", "invalid", "missing_revision", "revision_conflict",
             "idempotency_conflict"}
Activations == {"activate", "deactivate", "expire"}

ASSUME KindAssumption == Kinds \subseteq AllKinds
ASSUME FileAssumption == Files \subseteq Contents \cup {Missing, Unset} /\ Files # {}
ASSUME BoundAssumption == IdempMax \in Nat \ {0} /\ AuditMax \in Nat \ {0} /\ MaxGen \in Nat
ASSUME NilAssumption == Nil \notin Clients \cup Keys \cup Contents
ASSUME MarkAssumption == {Missing, Unset, Bad} \cap (Contents \cup {Nil}) = {}

VARIABLES
    active,     \* Store.active: generation, content, inhibit flag, BootstrapRevision
    emergency,  \* Store.emergency
    boot,       \* Store.bootstrap: its content
    mount,      \* the bootstrap file
    mu,         \* holder of App.mu
    idemp,      \* idempCache, most recently used first
    audit,      \* audit.Ring, oldest first
    policy,     \* Cache: the generation and content of the policy observed last
    cleared,    \* the generation of the last Reset, for the properties
    pc,         \* pc[c]: the next step of client c
    req,        \* req[c]: its request
    op,         \* op[c]: the activation the request's operation writes
    cand,       \* cand[c]: the compiled candidate
    was,        \* was[c]: the revision c's Swap displaced
    got,        \* got[c]: the snapshot c loaded after its Swap
    loaded      \* loaded[q]: the snapshot query q loaded, or Nil

storeVars == <<active, emergency, boot, mount>>
appVars == <<mu, idemp, audit, policy, cleared>>
locals == <<op, cand, was, got>>
vars == <<storeVars, appVars, pc, req, locals, loaded>>

-----------------------------------------------------------------------------
(* idempotency.go: an LRU keyed by the idempotency key, whose entries hold *)
(* the fingerprint of the operations and the plan or apply result.         *)

Hits(key) == {i \in 1..Len(idemp) : key # Nil /\ idemp[i].key = key}
Place(key) == CHOOSE i \in Hits(key) : TRUE
Entry(key) == idemp[Place(key)]

\* removeLocked: the entry of the key, if there is one, is unlinked.
Without(key) ==
    IF Hits(key) = {} THEN idemp
    ELSE SubSeq(idemp, 1, Place(key) - 1) \o SubSeq(idemp, Place(key) + 1, Len(idemp))

\* moveFrontLocked and insertFrontLocked: e replaces the entry of its key.
PutFront(e) ==
    LET s == <<e>> \o Without(e.key)
    IN  IF Len(s) > IdempMax THEN SubSeq(s, 1, IdempMax) ELSE s

\* lookup, when it is not a conflict, makes the entry the most recent.
Touched(key) == IF Hits(key) = {} THEN idemp ELSE PutFront(Entry(key))

Conflicts(r, o) == Hits(r.key) # {} /\ Entry(r.key).fp # o

OwnEntry(r, o) ==
    IF Hits(r.key) # {} /\ Entry(r.key).fp = o THEN Entry(r.key)
    ELSE [key |-> r.key, fp |-> o, plan |-> Nil, apply |-> Nil]

\* storePlan and storeApply.
StorePlan(r, o, rev) ==
    IF r.key = Nil THEN idemp ELSE PutFront([OwnEntry(r, o) EXCEPT !.plan = rev])
StoreApply(r, o, result) ==
    IF r.key = Nil THEN idemp ELSE PutFront([OwnEntry(r, o) EXCEPT !.apply = result])

-----------------------------------------------------------------------------
(* audit/ring.go: an event is appended, the oldest falls off.              *)

Append1(e) ==
    LET s == Append(audit, e)
    IN  IF Len(s) > AuditMax THEN Tail(s) ELSE s

\* Denials, emergency changes and cache flushes are events too; what they say
\* is not part of the history of the state.
Other == [write |-> FALSE, rev |-> Nil, prev |-> Nil]

\* Mutant: the generation of the observed snapshot is not compared.
ObservePolicyAlways(s) == policy' = [gen |-> s.gen, content |-> s.content]

\* cache.ObservePolicy(snapshot s): older generations change nothing.
ObservePolicy(s) ==
    policy' = IF s.gen <= policy.gen THEN policy ELSE [gen |-> s.gen, content |-> s.content]

-----------------------------------------------------------------------------
\* The call returns.  What it answers is named at each return: the response
\* repeats values the properties read from the state.
Return(c, status) ==
    /\ status \in Statuses
    /\ pc' = [pc EXCEPT ![c] = "idle"]
    /\ req' = [req EXCEPT ![c] = Nil]
    /\ op' = [op EXCEPT ![c] = Nil]
    /\ cand' = [cand EXCEPT ![c] = Nil]
    /\ was' = [was EXCEPT ![c] = Nil]
    /\ got' = [got EXCEPT ![c] = Nil]

Goto(c, l) == pc' = [pc EXCEPT ![c] = l]

\* serveFromConfig: the boot file compiled and installed as generation 0.
Init ==
    /\ \E b \in Contents :
          /\ active = [gen |-> 0, content |-> b, off |-> FALSE, boot |-> b]
          /\ boot = b
          /\ policy = [gen |-> -1, content |-> b]
          /\ mount \in Files
    /\ emergency = FALSE
    /\ mu = Nil
    /\ idemp = <<>>
    /\ audit = <<>>
    /\ cleared = 0
    /\ pc = [c \in Clients |-> "idle"]
    /\ req = [c \in Clients |-> Nil]
    /\ op = [c \in Clients |-> Nil]
    /\ cand = [c \in Clients |-> Nil]
    /\ was = [c \in Clients |-> Nil]
    /\ got = [c \in Clients |-> Nil]
    /\ loaded = [q \in Queries |-> Nil]

-----------------------------------------------------------------------------
(* Requests.  The activation calls name an expiry, or none; the others the *)
(* state their operation writes.                                           *)

Args(kind) ==
    CASE kind \in {"plan", "apply"} -> Contents \cup {Bad}
      [] kind \in Activations -> Exps \cup {Nil}
      [] OTHER -> {Nil}

Requests(kinds) ==
    UNION {[kind : {k}, key : Keys \cup {Nil}, rev : Contents \cup {Nil}, arg : Args(k)] :
             k \in Kinds \cap kinds}

Idle(c) == pc[c] = "idle" /\ active.gen < MaxGen

\* applyChaosActivation reads the active snapshot, outside App.mu, for the
\* operation it will apply: expire keeps Enabled and writes the expiry given;
\* activate and deactivate keep the expiry when none is given.
Activation(r, content) ==
    [on  |-> IF r.kind = "expire" THEN content.on ELSE r.kind = "activate",
     exp |-> IF r.kind # "expire" /\ r.arg = Nil THEN content.exp ELSE r.arg]

ReadActivation(c, r) ==
    /\ Idle(c)
    /\ req' = [req EXCEPT ![c] = r]
    /\ op' = [op EXCEPT ![c] = Activation(r, active.content)]
    /\ Goto(c, "call")
    /\ UNCHANGED <<storeVars, appVars, cand, was, got, loaded>>

\* Authorization fails before anything else is looked at, in Plan and Apply
\* under App.mu, and leaves an event as a cache flush does.  applyAuthorized
\* judges the later operations of a plan or an apply when its key was looked up.
Deny(c) ==
    /\ \/ (Idle(c) \/ (pc[c] = "call" /\ mu = Nil)) /\ UNCHANGED idemp
       \/ Idle(c) /\ mu = Nil /\ \E k \in Keys : idemp' = Touched(k)
    /\ audit' = Append1(Other)
    /\ Return(c, "denied")
    /\ UNCHANGED <<storeVars, mu, policy, cleared, loaded>>

-----------------------------------------------------------------------------
(* Plan and Apply of request r with operation o, up to the Swap.  The      *)
(* expected revision is checked before anything is built; a conflict       *)
(* forgets the key, any other failure leaves the cache.                    *)

RejectRevision(c, r) ==
    \/ /\ r.rev = Nil
       /\ idemp' = Touched(r.key)
       /\ Return(c, "missing_revision")
    \/ /\ r.rev \notin {Nil, active.content}
       /\ idemp' = Without(r.key)
       /\ Return(c, "revision_conflict")

\* A cached plan made against the active revision is the plan made anew.
Plan(c, r) ==
    /\ Idle(c) /\ mu = Nil
    /\ \/ /\ Conflicts(r, r.arg)
          /\ UNCHANGED idemp
          /\ Return(c, "idempotency_conflict")
       \/ ~Conflicts(r, r.arg) /\ RejectRevision(c, r)
       \/ /\ ~Conflicts(r, r.arg) /\ r.rev = active.content /\ r.arg = Bad
          /\ idemp' = Touched(r.key)
          /\ Return(c, "invalid")
       \/ /\ ~Conflicts(r, r.arg) /\ r.rev = active.content /\ r.arg # Bad
          /\ idemp' = StorePlan(r, r.arg, active.content)
          /\ Return(c, "ok")
    /\ UNCHANGED <<storeVars, mu, audit, policy, cleared, loaded>>

Replayable(r) == Hits(r.key) # {} /\ Entry(r.key).apply # Nil

ApplyLocked(c, r, o) ==
    /\ mu = Nil
    /\ \/ /\ Conflicts(r, o)
          /\ Return(c, "idempotency_conflict")
          /\ UNCHANGED <<mu, idemp>>
       \/ /\ ~Conflicts(r, o) /\ Replayable(r)
          /\ idemp' = Touched(r.key)
          /\ Return(c, IF r.rev = Nil THEN "missing_revision" ELSE "ok")
          /\ UNCHANGED mu
       \/ ~Conflicts(r, o) /\ ~Replayable(r) /\ RejectRevision(c, r) /\ UNCHANGED mu
       \/ /\ ~Conflicts(r, o) /\ ~Replayable(r) /\ r.rev = active.content
          /\ idemp' = Touched(r.key)
          /\ IF o = Bad
               THEN Return(c, "invalid") /\ UNCHANGED mu
               ELSE /\ mu' = c
                    /\ req' = [req EXCEPT ![c] = r]
                    /\ op' = [op EXCEPT ![c] = o]
                    /\ cand' = [cand EXCEPT ![c] = [gen |-> active.gen + 1, content |-> o,
                                                    boot |-> active.boot]]
                    /\ Goto(c, "swap")
                    /\ UNCHANGED <<was, got>>
    /\ UNCHANGED <<storeVars, audit, policy, cleared, loaded>>

Apply(c, r) == Idle(c) /\ ApplyLocked(c, r, r.arg)
ApplyActivation(c) == pc[c] = "call" /\ ApplyLocked(c, req[c], op[c])

-----------------------------------------------------------------------------
(* Reset: the mount, or the last bootstrap state when there is no path.    *)
\* Mutant: Reset does not take App.mu before it builds the candidate.
ResetUnlocked(c) ==
    /\ Idle(c) /\ "reset" \in Kinds /\ mount # Missing
    /\ mu' = c
    /\ req' = [req EXCEPT ![c] = [kind |-> "reset", key |-> Nil, rev |-> Nil, arg |-> Nil]]
    /\ cand' = [cand EXCEPT ![c] = [gen |-> active.gen + 1, content |-> boot, boot |-> boot]]
    /\ Goto(c, "clear")
    /\ UNCHANGED <<op, was, got, storeVars, idemp, audit, policy, cleared, loaded>>

Reset(c) ==
    LET file == IF mount = Unset THEN boot ELSE mount
    IN  /\ Idle(c) /\ "reset" \in Kinds /\ mu = Nil
        /\ IF file = Missing
             THEN Return(c, "invalid") /\ UNCHANGED mu
             ELSE /\ mu' = c
                  /\ req' = [req EXCEPT ![c] = [kind |-> "reset", key |-> Nil, rev |-> Nil,
                                                arg |-> Nil]]
                  /\ cand' = [cand EXCEPT ![c] = [gen |-> active.gen + 1, content |-> file,
                                                  boot |-> file]]
                  /\ Goto(c, "clear")
                  /\ UNCHANGED <<op, was, got>>
        /\ UNCHANGED <<storeVars, idemp, audit, policy, cleared, loaded>>

ClearEmergency(c) ==
    /\ pc[c] = "clear"
    /\ emergency' = FALSE
    /\ Goto(c, "swap")
    /\ UNCHANGED <<active, boot, mount, appVars, req, locals, loaded>>

\* Mutant: App.mu is released as soon as the Swap is done.
SwapUnlocks(c) ==
    /\ pc[c] = "swap"
    /\ active' = [gen |-> IF cand[c].gen <= active.gen THEN active.gen + 1 ELSE cand[c].gen,
                  content |-> cand[c].content, off |-> emergency, boot |-> cand[c].boot]
    /\ was' = [was EXCEPT ![c] = active.content]
    /\ mu' = Nil
    /\ Goto(c, "load")
    /\ UNCHANGED <<emergency, boot, mount, idemp, audit, policy, cleared, req, op, cand, got, loaded>>

\* Store.Swap of the candidate; it returns the displaced snapshot.
Swap(c) ==
    /\ pc[c] = "swap"
    /\ active' = [gen |-> IF cand[c].gen <= active.gen THEN active.gen + 1 ELSE cand[c].gen,
                  content |-> cand[c].content, off |-> emergency, boot |-> cand[c].boot]
    /\ was' = [was EXCEPT ![c] = active.content]
    /\ Goto(c, "load")
    /\ UNCHANGED <<emergency, boot, mount, appVars, req, op, cand, got, loaded>>

Load(c) ==
    /\ pc[c] = "load"
    /\ got' = [got EXCEPT ![c] = active]
    /\ Goto(c, "finish")
    /\ UNCHANGED <<storeVars, appVars, req, op, cand, was, loaded>>

Written(c) == [write |-> TRUE, rev |-> got[c].content, prev |-> was[c]]
Result(c) == [rev |-> got[c].content, gen |-> got[c].gen]

FinishApply(c) ==
    /\ pc[c] = "finish" /\ req[c].kind # "reset"
    /\ ObservePolicy(got[c])
    /\ audit' = Append1(Written(c))
    /\ idemp' = StoreApply(req[c], op[c], Result(c))
    /\ mu' = Nil
    /\ Return(c, "ok")
    /\ UNCHANGED <<storeVars, cleared, loaded>>

\* Mutants: Reset leaves no audit event; Reset keeps the idempotency cache.
FinishResetSilent(c) ==
    /\ pc[c] = "finish" /\ req[c].kind = "reset"
    /\ ObservePolicy(got[c])
    /\ boot' = got[c].content /\ idemp' = <<>> /\ cleared' = got[c].gen /\ mu' = Nil
    /\ Return(c, "ok")
    /\ UNCHANGED <<active, emergency, mount, audit, loaded>>

FinishResetKeepsKeys(c) ==
    /\ pc[c] = "finish" /\ req[c].kind = "reset"
    /\ ObservePolicy(got[c])
    /\ boot' = got[c].content /\ cleared' = got[c].gen /\ mu' = Nil /\ audit' = Append1(Written(c))
    /\ Return(c, "ok")
    /\ UNCHANGED <<active, emergency, mount, idemp, loaded>>

FinishReset(c) ==
    /\ pc[c] = "finish" /\ req[c].kind = "reset"
    /\ ObservePolicy(got[c])
    /\ boot' = got[c].content
    /\ idemp' = <<>>
    /\ cleared' = got[c].gen
    /\ audit' = Append1(Written(c))
    /\ mu' = Nil
    /\ Return(c, "ok")
    /\ UNCHANGED <<active, emergency, mount, loaded>>

-----------------------------------------------------------------------------
(* setEmergency: the bit, the stamp, the audit event; no lock.             *)
EmergencyEnter(c, kind) ==
    /\ Idle(c) /\ kind \in Kinds
    /\ req' = [req EXCEPT ![c] = [kind |-> kind, key |-> Nil, rev |-> Nil, arg |-> Nil]]
    /\ Goto(c, "bit")
    /\ UNCHANGED <<storeVars, appVars, op, cand, was, got, loaded>>

SetEmergency(c) ==
    /\ pc[c] = "bit"
    /\ emergency' = (req[c].kind = "disable")
    /\ Goto(c, "stamp")
    /\ UNCHANGED <<active, boot, mount, appVars, req, locals, loaded>>

StampEmergency(c) ==
    /\ pc[c] = "stamp"
    /\ active' = IF active.off = emergency THEN active
                 ELSE [active EXCEPT !.gen = @ + 1, !.off = emergency]
    /\ Goto(c, "stamped")
    /\ UNCHANGED <<emergency, boot, mount, appVars, req, locals, loaded>>

FinishEmergency(c) ==
    /\ pc[c] = "stamped"
    /\ audit' = Append1(Other)
    /\ Return(c, "ok")
    /\ UNCHANGED <<storeVars, mu, idemp, policy, cleared, loaded>>

-----------------------------------------------------------------------------
(* A query loads the snapshot once and observes its cache policy later.    *)
QueryLoad(q) ==
    /\ loaded[q] = Nil
    /\ loaded' = [loaded EXCEPT ![q] = active]
    /\ UNCHANGED <<storeVars, appVars, pc, req, locals>>

QueryObserve(q) ==
    /\ loaded[q] # Nil
    /\ ObservePolicy(loaded[q])
    /\ loaded' = [loaded EXCEPT ![q] = Nil]
    /\ UNCHANGED <<storeVars, mu, idemp, audit, cleared, pc, req, locals>>

\* The operator replaces the mounted file.
EditMount ==
    /\ mount # Unset
    /\ mount' \in Files \ {Unset}
    /\ UNCHANGED <<active, emergency, boot, appVars, pc, req, locals, loaded>>

-----------------------------------------------------------------------------
Start(c) ==
    \/ Deny(c)
    \/ \E r \in Requests({"plan"}) : Plan(c, r)
    \/ \E r \in Requests({"apply"}) : Apply(c, r)
    \/ \E r \in Requests(Activations) : ReadActivation(c, r)
    \/ Reset(c)
    \/ \E kind \in {"disable", "enable"} : EmergencyEnter(c, kind)

Proceed(c) ==
    \/ ApplyActivation(c)
    \/ ClearEmergency(c) \/ Swap(c) \/ Load(c) \/ FinishApply(c) \/ FinishReset(c)
    \/ SetEmergency(c) \/ StampEmergency(c) \/ FinishEmergency(c)

\* No caller is obliged to call again.
Rest == (\A c \in Clients : pc[c] = "idle") /\ UNCHANGED vars

Next ==
    \/ \E c \in Clients : Start(c) \/ Proceed(c)
    \/ \E q \in Queries : QueryLoad(q) \/ QueryObserve(q)
    \/ EditMount
    \/ Rest

Spec == Init /\ [][Next]_vars

-----------------------------------------------------------------------------
(* Properties.                                                             *)

Labels == {"idle", "call", "clear", "swap", "load", "finish", "bit", "stamp", "stamped"}
Snapshots == [gen : Nat, content : Contents, off : BOOLEAN, boot : Contents]

\* An Apply commits only over the revision its caller expected: between the
\* check of expectedRevision and the Swap no other call replaced the state.
NoLostUpdate ==
    [][\A c \in Clients : Swap(c) /\ req[c].kind # "reset" => active.content = req[c].rev]_vars

\* What a write reports and audits as its revision is what it compiled, though
\* it loads the active snapshot again after the Swap.
OwnRevisionReported ==
    \A c \in Clients : pc[c] = "finish" => got[c].content = cand[c].content

\* In the events s, each write starts from the revision the write before it made.
Linked(s) ==
    \A i, j \in 1..Len(s) :
        i < j /\ s[i].write /\ s[j].write /\ (\A k \in (i + 1)..(j - 1) : ~s[k].write)
            => s[j].prev = s[i].rev

\* In the events s, the last write made revision x.
EndsAt(s, x) ==
    \A i \in 1..Len(s) :
        s[i].write /\ (\A k \in (i + 1)..Len(s) : ~s[k].write) => s[i].rev = x

\* The write events of the audit ring form one history: each starts from the
\* revision the one before it made, and when no write is running the last one
\* made the active revision.
AuditTellsHistory == Linked(audit) /\ (mu = Nil => EndsAt(audit, active.content))

\* When no write is running the cache works under the policy of the active
\* state, however late a query observes the policy of an old snapshot.
PolicyInForce == mu = Nil => policy.content = active.content

\* When no write is running the drift every snapshot reports is measured
\* against the state Reset would restore without a mount.
DriftAgainstBootstrap == mu = Nil => active.boot = boot

\* No result of a call that committed before the last Reset can be replayed.
NoReplayAcrossReset ==
    \A i \in 1..Len(idemp) : idemp[i].apply # Nil => idemp[i].apply.gen > cleared

\* A change that can be replayed is not committed a second time, also when two
\* callers retry it at once.
NoDoubleApply == [][\A c \in Clients : Swap(c) => ~Replayable(req[c])]_vars

-----------------------------------------------------------------------------
(* The inductive invariant behind the properties of the state.             *)

Holding(c) == pc[c] \in {"clear", "swap", "load", "finish"}
Candidates == [gen : Nat, content : Contents, boot : Contents]

Typed ==
    /\ active \in Snapshots /\ emergency \in BOOLEAN /\ boot \in Contents /\ mount \in Files
    /\ mu \in Clients \cup {Nil}
    /\ policy \in [gen : Nat \cup {-1}, content : Contents]
    /\ pc \in [Clients -> Labels]
    /\ \A f \in {req, op, cand, was, got} : DOMAIN f = Clients
    /\ DOMAIN loaded = Queries
    /\ \A c \in Clients : pc[c] = "call" => op[c] \in Contents /\ req[c].kind # "reset"
    /\ \A q \in Queries : loaded[q] # Nil => loaded[q] \in Snapshots /\ loaded[q].gen <= active.gen
    /\ policy.gen <= active.gen

\* Every snapshot of generation g or later that is still in use has the active content.
Current(g) ==
    /\ policy.gen >= g => policy.content = active.content
    /\ \A q \in Queries : loaded[q] # Nil /\ loaded[q].gen >= g => loaded[q].content = active.content

\* Before its Swap a write builds on the active revision, and its caller named it.
Prepared(c) ==
    /\ cand[c] \in Candidates
    /\ IF req[c].kind = "reset" THEN cand[c].boot = cand[c].content
       ELSE req[c].rev = active.content /\ cand[c].boot = boot

\* After its Swap, at some generation g, the active content is its own.
Swapped(c, g) ==
    /\ cand[c] \in Candidates
    /\ active.content = cand[c].content /\ active.boot = cand[c].boot
    /\ IF req[c].kind = "reset" THEN cand[c].boot = cand[c].content ELSE cand[c].boot = boot
    /\ Current(g)
    /\ pc[c] = "finish" => /\ got[c] \in Snapshots /\ got[c].content = cand[c].content
                           /\ g <= got[c].gen /\ got[c].gen <= active.gen

\* App.mu serialises the writes: its holder alone is between the check of the
\* revision and the end of the call, what it prepared or published is intact,
\* and while nothing is published the cache and the drift agree with the state.
Serialised ==
    /\ Typed
    /\ \A c \in Clients : Holding(c) <=> mu = c
    /\ \A c \in Clients : pc[c] \in {"clear", "swap"} => Prepared(c)
    /\ \A c \in Clients : pc[c] \in {"load", "finish"} => \E g \in 0..active.gen : Swapped(c, g)
    /\ (\A c \in Clients : pc[c] \notin {"load", "finish"}) =>
          Current(policy.gen) /\ active.boot = boot

Entries == [key : Keys, fp : Contents \cup {Bad},
            plan : Contents \cup {Nil}, apply : [rev : Contents, gen : Nat] \cup {Nil}]
Events == [write : BOOLEAN, rev : Contents \cup {Nil}, prev : Contents \cup {Nil}]

\* One entry per key.
OnePerKey(s) == \A i, j \in 1..Len(s) : s[i].key = s[j].key => i = j

\* Every result in the entries s was made after generation g.
MadeAfter(s, g) == \A i \in 1..Len(s) : s[i].apply # Nil => s[i].apply.gen > g

\* The entries s hold a result under key k.
HasResult(s, k) == k # Nil /\ \E i \in 1..Len(s) : s[i].key = k /\ s[i].apply # Nil

\* What call c is about to record: before its Swap its key has no result, after
\* it the audit ring ends at the revision it displaced, and what it made is
\* younger than the last Reset.
Records(c) ==
    /\ pc[c] \in {"call", "clear", "swap", "load", "finish"} /\ req[c].kind # "reset" =>
          req[c].key \in Keys \cup {Nil}
    /\ Holding(c) /\ req[c].kind # "reset" => op[c] \in Contents
    /\ pc[c] \in {"clear", "swap"} => ~HasResult(idemp, req[c].key)
    /\ pc[c] \in {"load", "finish"} => was[c] \in Contents /\ EndsAt(audit, was[c])
    /\ pc[c] = "load" => active.gen > cleared
    /\ pc[c] = "finish" => got[c].gen > cleared

\* The idempotency cache and the audit ring, relative to Serialised.
Recorded ==
    /\ idemp \in Seq(Entries) /\ audit \in Seq(Events)
    /\ cleared \in Nat /\ cleared <= active.gen
    /\ OnePerKey(idemp) /\ MadeAfter(idemp, cleared) /\ Linked(audit)
    /\ \A c \in Clients : Records(c)
    /\ (\A c \in Clients : pc[c] \notin {"load", "finish"}) => EndsAt(audit, active.content)
=============================================================================
