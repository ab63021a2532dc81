# LabDNS in TLA+

TLA+ models of [LabDNS](../src/README.md), the TLC runs that check them on small
instances, and machine-checked proofs about them for every instance. Every
definition is translated from the Go source; `PROJECT.json` gives, for each one, the
lines it stands for.

## The system

LabDNS is one process: a DNS server for lab networks, a control plane (REST and
MCP) that edits its configuration, and a chaos engine that injects faults into
answers.

| part | state | operations | meets |
| --- | --- | --- | --- |
| snapshot store (`internal/snapshot/store.go`) | active, previous and bootstrap snapshots behind atomic pointers; emergency bit; startup lock | `Swap`, `SetEmergencyChaosOff`, `StampEmergency`, `publishPrevious` | everything reads the active snapshot |
| application service (`internal/app`) | `App.mu`, idempotency LRU, audit ring, drift | `Plan`, `Apply`, `Reset`, chaos activation, emergency disable and enable, reads, `CacheFlush` | store, cache, delay budgets |
| configuration (`internal/config`, `internal/app`) | the document | decode, normalize, validate, compile, operations of a change set, diff, export | application service |
| query handler (`internal/dnsquery`) | the locals of one `ServeDNS` | classify, decide, delay, answer, mutate, send | store, cache, chaos, forwarder |
| chaos (`internal/chaos`, `effects`) | delay budgets, cancel watches, pressure table | reserve, sleep, cancel, release; decisions | handler, emergency calls |
| cache (`internal/cache`) | LRU entries, the newest policy observed | `Get`, `Put`, `Flush`, `ObservePolicy` | handler, application service |
| listener (`internal/dnsserver`) | inflight slots, connections, wait group | accept, admit, serve, `Start`, `Shutdown` | handler |
| forwarder (`internal/forwarder`) | topology generation, health, rotation, slots | exchange with failover | handler |
| resolver and indexes (`internal/resolver`, `internal/snapshot`) | none (immutable) | compile, resolve, select zone and policy | handler, application service |
| management access (`internal/auth`, `internal/control`) | session table, token buckets | identify, authorize, create, rotate, look up, allow | application service |
| process (`cmd/labdns`) | listeners, signal handler, PID file | start, unwind, signals, shutdown | all of them |

What makes it hard: snapshots are published by callers that hold `App.mu` and by
emergency calls that do not; a query works on the snapshot it loaded while newer
ones appear; revisions name content and generations name publications, so the
same revision comes back under a new generation; delays are cancelled by calls
that race their registration; the cache and the upstreams' health outlive the
snapshots they were filled from; a connection's goroutine and its close watcher
read one socket; sessions rotate while other requests carry them; a start that
fails half way and a shutdown meet the same half-built process.

## Modules

- **AtomicStore** is the abstract store: one register with a content and a
  generation; a requested installation takes effect once, in one step.
- **SnapshotStore** is `store.go` at the grain of its atomic operations. A thread
  runs `apply`, `reset`, `disable` or `enable`; `pc[t]` is its next load, store or
  compare-and-swap. `App.mu` is not assumed. `Atomic` is the refinement:
  `AtomicStore` with content, generation and flag of `active`, and the candidates
  of threads that have not yet swapped as the pending requests.
- **ControlPlane** is `internal/app`. `Plan`, `Apply` and `Reset` run under `mu`;
  activation reads the active snapshot before it takes the lock, as the code does;
  emergency calls never take it; a query loads a snapshot and observes its cache
  policy later. Swap and stamp are single steps here, which SnapshotStore
  justifies. A configuration is the activation of one chaos policy: the smallest
  content with a field that a caller copies.
- **QueryChaos** is `ServeDNS` with its delay session, the budgets, the cancel
  watches and the pressure slots; beside it run administrators, deadlines, closing
  peers and shutdown. A decision of the engine is an input. Sleeps are not
  measured: a timer may fire at any time.
- **ChaosDecide** is that decision: policies are compiled, a live query walks the
  pre-resolution and the response phase with the clock moving between them, and
  `app.resolveAgainst` then simulates the query from what a management request
  says of it: a group, an address, both or neither, from which the simulation
  derives its own group and forwarding policy; it never forwards and has no cache,
  so it has its own base answer as well (`Resolve`). Probabilities are ratios; a
  draw is an unknown function of the hashed fields that change within a scenario.
  **DropAllocation** is `allocateDropProbabilities`, with probabilities in units of
  1/`Unit` where the code has floats that it rounds down.
- **QueryCache** is the cache with its two users, `Handler.answer` and the
  management `Resolve`. All queries ask one question under two values of CD; a
  revision is a cache policy, what the zones hold for the name and which names are
  forwarded. TTLs, the clock and the LRU order are concrete; of the records of an
  answer the one that expires first counts. A query that is dropped half way is a
  behaviour in which it takes no further step.
- **Listener** is `dnsserver`: both loops, a goroutine per datagram and per
  connection, the close watcher with the byte it may swallow, the caps, `Start` and
  `Shutdown`. A TCP message is two bytes, its length prefix and its body, so that a
  read can end between them. Both sockets are configured, `Shutdown` closes them and
  the connections it took in one step, and an error response can always be encoded.
- **Forwarder** is `forwarder.Runtime`: requests that hold different snapshots
  observe the topology, take a slot, order the pool, attempt, judge and fail over.
  A timer is not measured: a cooldown or a deadline may end at any step.
- **Resolver** compiles the zones of a document and resolves one question through
  them, an owner at a time, to an answer, a denial or a forwarding policy. What one
  owner contributes to an answer is a set of RRsets, their order by type left out. A
  loop of aliases is a set of them whose targets are all owners in the set, which is
  when the code's walk along aliases does not end. Names and owners are those
  `checkDNSName` accepts, so nothing lies below a wildcard; for ANY the code looks at
  the wildcard's own records only (`resolver/resolve.go:180`), which is why a denial
  holds for that type too. Addresses are sequences of bits of one family: a mapped
  IPv4 address is its IPv4 address, as `Classify` unmaps it. **DomainNames** holds what
  Resolver and ChaosDecide both ask of a name.
- **Document** holds the functions on the configuration document: normalization,
  every validation rule, the checks of compilation, each operation of a change set
  with its authorization, diff, impact and export, which hides a secret reference.
  A diff names the lists, elements and fields of the document at the depth the
  properties tell apart, where the code descends into every struct. **Configuration**
  runs change sets over it; a change set holds `App.mu` throughout and is one action.
- **Authorization** holds tokens, roles, scopes, the capability catalogue and its
  routes. **Management** takes a request of REST, MCP or stdio to its call, one step
  per critical section, over the session table and the token buckets. `born` keeps
  what the login of each issued identifier was entitled to, so that a cookie is held
  against the very session it names.
  **Lifecycle** composes those requests with the process: main from loading the
  configuration to the exit, the goroutine in `http.Server.Serve`, the one that
  waits for SIGUSR1. Stopping MCP and closing REST are two steps. An accept that fails
  for another reason than a closed listener is not modelled.
- **MC...** modules give the constants values; **...Proofs** modules hold the
  theorems.

Definitions described as a mutant, or as a variant of the one that follows, are
deliberate mistakes (`PROJECT.json`, "mutants"): put in place of the real
definition, each makes TLC report the property it is paired with.

Document and Configuration are folds over lists of records and are written for TLC;
the others are written to be proved about.

## Runs

| run | shows | bounds |
| --- | --- | --- |
| `store` | the snapshot displaced last is kept, locked content stays inhibited, a disable is not lost to a racing apply, the store refines AtomicStore | 3 threads, 2 contents, all four calls, no call starts past generation 1 |
| `control` | no lost update, no second application under a key, nothing is replayed across a Reset, the audit ring is one history, the active cache policy is in force | 2 callers, 1 query, 3 keys for 2 entries, an audit ring of 2, generations to 2 |
| `chaos_budget` | counters are exact; the global, per-policy and per-request limits hold | 2 queries, 2 policies, a tight and an unlimited snapshot, 1 apply |
| `chaos_calls` | a query that began under emergency disable is untouched; shutdown drains without any timer; where timers fire every query is served and returns its slots | 1 query, 1 policy, 2 administrators, 2 calls of reset, disable and enable |
| `cache` | hits are the query's own answers, the newest policy bounds the cache, old generations store nothing, a hit's TTL stays within its records and its entry | 2 queries, 9 revisions, 3 hooks, TTLs of 1 and 2, one publication, clock to 2 |
| `cache_protected` | violated: see Disagreements | 1 query, 1 hook |
| `listener` | the connection table and its counts are exact, the watcher loses no byte, `Shutdown` drains | 1 datagram, 2 connections, 1 slot, both caps, 1 caller |
| `forwarder` | health is that of the newest topology, rotation is even, failover is what the policy allows, a cancelled caller blames nobody | 3 requests, 2 slots; rotation, retiring, outage and failing pools; every failover policy and fault option |
| `decide` | drops stay under the cap, one policy of a group runs, the simulation predicts the live decisions, and the live answer where a zone or early chaos gives it | scenarios of up to a few policies; requests that describe the client fully, in part or wrongly; local, alias, forwarded and refused answers; probabilities in twelfths, 2 values of a draw |
| `resolver` | denied names do not exist, wildcards yield to existing names, what goes upstream is the policy's and the client's to ask | every zone of up to 3 records of a pool of 13, overlay or authoritative, with and without a child zone |
| `config` | the export replays to the running document, a plan's patch is exact, the scopes it lists are those its operations ask, authorization holds through intermediate documents | 7 small documents in 12 scenes, each with its operations and actors; change sets of up to 2 operations, 2 of them one after the other |
| `management` | a login has one session, every call is earned, nothing stays bound, the process stops | 3 requests in flight, 2 sessions, lifetime 2; scenarios for sessions, callers, every route, the limiter, failed starts, signals |

The bounds are the least at which the hazards appear: two publishers and a
bystander for the store; two writers and a late reader for the control plane; one
key more than the idempotency cache holds; one query more than the slots; a
revision that is replaced and comes back; a clock that passes every expiry; a peer
that begins a second query while the first is handled; an upstream that moves or
retires under a request that holds the old pool. Every mutant is found within them.
Bounds (`MaxGen`, `MaxOps`, `MaxTime`, `MaxChanges`, a scenario's `limit` and
`horizon`) stop new calls and never a call under way; a disjunct `Rest` stands for a
system with nothing left to do where a system can come to rest (the cache never
does), so deadlock is checked everywhere. Symmetry is used in safety runs only.

Two runs explore two kinds of load one after the other instead of their product,
each under a state constraint `OneLoad`. In `control`, as long as a key is in use,
there are only plans, applies and resets; everything else runs without keys. In
`cache`, a behaviour that starts in a revision of `Life` keeps it and has one query
at a time, with hooks, CD bits and the clock; one that starts in `Revisions` has a
publication and two queries, with CD bits before it, and without the rest. The
proofs below cover the product.

Fairness. `PromptSpec` (QueryChaos) gives weak fairness to the steps of each query
and administrator, since a runnable goroutine is scheduled; a sleep is not such a
step while nothing wakes it. `Served` takes weak fairness of each timer as its
hypothesis (`TimersFire`), since a started Go timer fires; `ShutdownDrains` does
without. `Drains` (Listener) assumes it of both loops, of each datagram and
connection, whose handler returns because its context has a deadline, of each watcher,
and of a `Shutdown` that was called. `Stops` (Lifecycle) assumes it of main, of
`Serve`, of the signal goroutine and of each request under way. Clients, peers, the
network, signals and the calls themselves get none.

### Disagreements

One run ends in the violation of something the documents say; the finding in
`PROJECT.json` quotes it. `cache_protected`: a synthetic NOERROR behind an overlay
CNAME is cached for everyone; it takes an upstream value that validation accepts and
the effects catalogue does not list. The passing cache run leaves that value out.

The models follow the code where its text says otherwise, and the properties are
stated so that they hold of it. No run is kept for:

- `StampEmergency`: an enable that overtakes a disable leaves the bit clear and the
  active snapshot inhibited (`store.go:110`; comment at 92: "matching the process
  bit"). `DisableReachesSnapshot` therefore ends at the first call that clears the
  bit, which the variable `cleared` records;
- setting an expiry commits an Enabled value that was read before the lock
  (`app/chaos.go:208`; `api/openapi/v1.json:1140`: "Extend or shorten a chaos policy
  expiry");
- the retry of an activation under its own key is an `idempotency_conflict` once the
  state has changed, since its body holds what was read (`app/chaos.go:211`; docs/13
  line 112: "Replays of the same idempotency key return the original result");
- a query between its decision and the registration of its session sleeps through
  an emergency disable (`dnsquery/handler.go:136`; docs/13 line 92: "In-flight
  sleeps return promptly");
- a query that finds chaos disabled after its response delay sends an answer that
  pre-resolution chaos injected (`dnsquery/handler.go:202`; the comment there: "send
  the pre-chaos answer");
- `Cache.Get` removes an expired entry also under force-miss (`cache.go:173`; docs/03
  line 274: "Force-miss and expire-this-request never `delete` the stored entry.");
- the stale hook serves an expired entry with stale serving off (`cache.go:171`;
  comment at `cache.go:73`: "return an expired copy when StaleServing is on");
- the exported operations may restore lists in another order, and so another
  revision, and carry a hidden secret reference instead of the real one
  (`app/export.go:139`, `auth/redact.go`; `export_test.go:84`: "Applying the exported
  ops to a fresh bootstrap must land on the same revision."). `ExportReplays` compares
  contents, the hidden secret aside, and asks for the same document where the order
  of the lists was kept;
- `stricterClass` ranks the safety class `unsafe-deferred` with `high` and keeps the
  old class of a tie, and `authorizeActivation` asks more only of `high`
  (`auth/change.go:129`, `:169`): an update that makes an unsafe-deferred policy high
  and enables it needs only the activate scope (docs/08 line 115: "Chaos admin:
  activate high-impact policies and emergency-enable."). `ChangesAreEarned` names
  that exception (`WereDeferred`);
- the scopes a plan lists are those of its operations one by one
  (`PlanScopesExact`, both ways); a caller that holds them may still be refused, for
  a protected name or by the check of the whole change set;
- the simulation gives an empty answer where the live query is refused or forwarded
  (`app/query.go:204`: "Management resolve never forwards"), keeps the source of a
  wildcard alias that a forwarded answer loses, samples by client only when it is
  given an address, and knows neither pressure nor cache. `ModelPredictsLive` says
  under which conditions it predicts what;
- a plan's impact leaves out changes of SOA and nameservers, and of a moved record
  lists the new owner only (docs/05 line 158: "Names and zones that may change.");
- validation accepts an action of phase `transport`, which neither phase runs
  (`InPhase`);
- a pre-resolution policy claims its exclusive group before a response policy of
  higher priority is looked at (docs/03 line 91: "only the highest-priority selected
  policy in the named group runs");
- a plan asks `chaos.emergency` also for switching a high-impact policy off;
- a record whose owner is outside its zone, and duplicate NS or SOA records at the
  apex, pass validation and fail compilation with `internal`;
- the sweep of the pressure window may see times out of order and then admits more
  than its rate (`chaos/pressure.go:28`);
- a DELETE of a session that races its rotation leaves the rotated one;
- SIGUSR1 that arrives after the handler is unregistered and before the PID file is
  removed ends the process (`serve.go:378`; docs/13 line 90 gives the PID file as the
  way to disable chaos), and a start that fails after the DNS listener is up removes
  the PID file also when another process wrote it.

## Proofs

The theorems hold for all sets of threads, callers, queries, connections, requests,
contents and policies and for all bounds, from the assumptions each module names:
kinds of calls and contents have the shape the code gives them, bounds are numbers,
`Nil` and the like are none of the values, an upstream pool is not empty and names
no upstream twice, a policy spec and its clients are described by records, a
document's names are sequences of labels and its CIDRs sequences of bits, probabilities
lie between 0 and 1. The
sets that are counted (the queries of QueryChaos, the packets and connections of
Listener, the requests of Forwarder) are finite. TLC evaluates every
assumption in the runs.

The properties of the runs are seldom inductive: they speak of shared state and say
nothing of the locals an actor is about to write. Each module therefore ends with an
invariant that adds what the locals satisfy at every program point. Every proof goes
action by action: what a step does to its own actor, what it leaves alone for the
others, and what follows for the shared state.

**SnapshotProofs** is about SnapshotStore and about Resolver, which reads what a
snapshot compiled. For the store `Inductive` says, per thread, that a candidate is a content
to install (`CandidateOK`), a loaded pointer is no newer than the active one, and
older once its thread has displaced it (`LiveOK`), and the snapshot to publish is one
generation on and properly flagged (`NextOK`). `LastDisplaced` says where the newest
displaced snapshot is while its publisher has not stored it, `DisableOnly` which
threads still owe the active snapshot a set bit. A compare-and-swap that succeeds
makes every other thread's loaded pointer old, and generations tell old pointers from
the active one. Theorems: `Refinement` (the store implements AtomicStore),
`LastDisplacedIsPrevious`, `DisableIsNotLost`, `LockHolds`, `PreviousNeverRegresses`,
`GenerationsAdvance`, `TypeCorrect`, and `Invariance` they follow from.

For the resolver `Walked` says: the zones have passed `CompileOK`, the query has the
class its name and client give (`Classed`), the answers of a walk are a chain of aliases
that leads to the current name, each given by its owner or by a wildcard nothing nearer
overrides (`Walk`), and a result that falls through is such a chain of an overlay
(`Local`). The lemmas below it are about names: ancestors form a chain, what exists is closed under ancestors within the zone,
the closest encloser is the longest existing ancestor, `SelectSuffix` gives the deepest
match, and the loop of `Classify` finds the first longest prefix, by induction on the
position. Theorems: `DenialsHold`, `WildcardsHold`, `ForwardsHold` (for documents of any
size, any labels and any query), and `WalkHolds`.

**ControlPlaneProofs.** `Serialised`: the holder of `App.mu` alone is between the
check of its revision and the end of its call; before its Swap it builds on the
active revision (`Prepared`), after it the active content is its own, whatever
emergency stamps have been published on top (`Swapped`); and while nothing is
published, every snapshot that is at least as new as the cache's policy has the
active content (`Current`). `Recorded`, relative to it: one entry per key, made since
the last Reset, no result under the key of a write that has not swapped, and an audit
chain that ends at what the write under way displaced. Theorems: `NoUpdateLost`,
`AppliedOnce` (action properties), `ResetForgets`, `AuditHolds`, `PolicyHolds`,
`ReportsOwnRevision`, `DriftHolds`, and the invariants `WritesSerialised`,
`WritesRecorded`.

**QueryChaosProofs.** `Accounted` keeps, per query (`Kept`): it holds a reservation
only between registration and release and a pressure slot only after the check, what
it has slept fits the limits of its own snapshot (`Within`), and as long as it has
seen nothing but disabled chaos, nothing is planned for it and its answer is plain.
The counters are cardinalities of what the queries hold. Theorems: `CountersHold`,
`DelaysBounded`, `DisabledHolds`, `LimitsHold` (an action property), and
`QueriesAccounted`.

**QueryCacheProofs.** `Coherent`: a generation is one snapshot whoever holds it
(`Dated`), the cache has observed the snapshot of every query that reads it
(`Abreast`), keys are unique, and entries fit the policy in force and were not stored
in the future. `Transparent` adds that what is stored may be given to every client
that reads its key (`Shareable`). The module opens with what unlinking, pushing
and evicting do to a list with one entry per key. Theorems: `CapacityHolds`,
`HitTTLHolds`, `OldStoresNothing` (an action property), `HitsAreOwn`, and
`CacheCoherent`. `HitsAreOwn` has a hypothesis, `NoDataUnplanned`: no hook plans an
empty upstream answer. Without it, `cache_protected` is the counterexample.

**ListenerProofs.** `Counted`: slots, table, counts by peer and wait group are
the cardinalities of the goroutines at the labels that hold them; a connection's
bytes read, swallowed by its watcher and still in the socket are the bytes sent
(`Kept`); a caller that waits has cancelled the server and closed its sockets
(`Stops`). Theorems: `ConnTableHolds`, `StreamHolds`, `SlotsHold`, `DrainHolds` (what
`Shutdown` has drained when it says so), and `ListenerCounted`.

**ForwarderProofs.** `Coherent`: what a request may still ask are members of its own
pool, none asked before (`Asking`); it went on only after an outcome that allows it
(`Trail`); health, topology and slots are those of the newest snapshot seen and of
the requests under way (`Shared`). `Rotating`, relative to it: the last m members
before the cursor of a rotating pool were picked first once more than the others, for
some m below the size of the pool; a pick moves the cursor one place, a snapshot that
changes the upstreams starts the count anew. Theorems: `RotationSpreads`
(`SpreadEvenly` for pools of any size), `HealthStaysCurrent`,
`FailoverAllowed`, `SlotsCounted`, `CancelledBlamesNobody` (an action property),
`DownComesLast` (an action property, over pools of any size), and
`ExchangesCoherent`.

**ChaosDecideProofs.** `Claims`: as long as a pass lasts, every decision that fired in
either of its phases and belongs to an exclusive group holds that group in the
ExclusiveSet, and the simulation, whose ExclusiveSet is its own, has decided nothing
before its turn. A candidate draws only where its group is free, and what it claims
outlives the phase. Theorems: `OnePerGroup` (`OneRunsPerGroup` for any policies, draws
and instants), and `GroupsClaimed`. `DropsCapped` (`DropsWithinCap` for any number of
policies, probabilities and caps) is about one function: the cap that remains never
becomes negative, and what is granted up to a position is the cap less what remains
there, by induction on the position.

**LifecycleProofs.** `Unbinds` says what is bound at each step of main; its core is
that once `Shutdown` has looked at the server, whatever `Serve` comes to next closes
the listener or finds it closed. `Vetted` says what a request has passed at each
label (`VettedAt`), and that every row of the session table is the session of one
login, under an identifier issued once, with no more than that login had
(`TableOK`). `CallsAreEarned` covers session calls as well as capability calls. Lemmas about the capability
catalogue relate every route, tool and resource to the scope it asks. Theorems:
`NothingStaysBound`, `LineageHolds`, `CallsAreEarned`, and `RequestsVetted`.

### Only model-checked

- Liveness (`Served`, `ShutdownDrains`, `Drains`, `Stops`): outside the prover's reach.
- `ModelPredictsLive` (ChaosDecide) compares two executions of the engine.
- `ExportReplays`, `PlanIsExact`, `ChangesAreEarned`, `PlanScopesExact`
  (Configuration): Document computes what they say with folds that take an operator,
  over lists of records and operations, and the prover cannot instantiate theorems
  about such folds.

Induction over numbers is carried out in first-order steps, by taking a smallest
counterexample (`Smallest` in SnapshotProofs and in ChaosDecideProofs, from the
well-foundedness of the natural numbers); the functions it is used for (`SumTo`,
`Remaining`, `BestEntry`) are recursive functions on an interval.

## Not modelled

`PROJECT.json` lists every component with its status.

- Wire format, YAML, durations, text formats: pure functions on bytes and text. What
  makes an upstream reply acceptable is in Forwarder.
- Deployment profiles, error and release tables, presentation, console, command line,
  tooling: static data, or translation field by field.
- Metrics, logs and delivery of audit events: nothing reads them back.
- The one-second window of the pressure table and the overflow limiter of the
  listener are nondeterministic choices; only the slots they guard are counted.
- The bodies of REST handlers and MCP tools decode, make one call of the application
  service and encode. Protocol sessions of MCP belong to its SDK.
- `serve` passes no health source to the management server, so readiness is that
  there is a snapshot.
