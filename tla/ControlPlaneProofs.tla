------------------------- MODULE ControlPlaneProofs -------------------------
(***************************************************************************)
(* Proofs about ControlPlane for any number of callers, queries, keys and  *)
(* generations: App.mu serialises the writes although emergency stamps and *)
(* the activations' first read run beside it.                              *)
(***************************************************************************)
EXTENDS ControlPlane, SequenceTheorems, TLAPS

\* What serveFromConfig installs satisfies the inductive invariant.
LEMMA InitSerialised == Init => Serialised
<1> SUFFICES ASSUME Init PROVE Serialised
  BY Zenon
<1>1. PICK b \in Contents :
         /\ active = [gen |-> 0, content |-> b, off |-> FALSE, boot |-> b]
         /\ boot = b
         /\ policy = [gen |-> -1, content |-> b]
         /\ mount \in Files
  BY Zenon DEF Init
<1>2. Typed
  <2>1. active \in Snapshots /\ policy \in [gen : Nat \cup {-1}, content : Contents]
    BY Zenon, <1>1 DEF Snapshots
  <2>2. policy.gen <= active.gen
    BY <1>1
  <2>3. emergency \in BOOLEAN /\ pc \in [Clients -> Labels]
    BY Zenon DEF Init, Labels
  <2> QED BY Zenon, <1>1, <2>1, <2>2, <2>3 DEF Init, Typed
<1>3. \A c \in Clients : pc[c] = "idle"
  BY Zenon DEF Init
<1>4. \A c \in Clients : Holding(c) <=> mu = c
  BY Zenon, <1>3, NilAssumption DEF Init, Holding
<1>5. Current(policy.gen) /\ active.boot = boot
  BY Zenon, <1>1 DEF Init, Current
<1> QED BY Zenon, <1>2, <1>3, <1>4, <1>5 DEF Serialised

\* A call that does not hold App.mu and returns, or moves on to a label that
\* needs no lock, leaves the writes of the others as they are.
LEMMA OutsideLock ==
  ASSUME Serialised, NEW c \in Clients, ~Holding(c),
         pc' = [pc EXCEPT ![c] = pc'[c]],
         pc'[c] \in {"idle", "call", "bit", "stamp", "stamped"},
         pc'[c] = "call" => op'[c] \in Contents /\ req'[c].kind # "reset",
         DOMAIN req' = Clients, DOMAIN op' = Clients, DOMAIN cand' = Clients,
         DOMAIN was' = Clients, DOMAIN got' = Clients,
         \A d \in Clients \ {c} : req'[d] = req[d] /\ op'[d] = op[d] /\ cand'[d] = cand[d]
                                  /\ got'[d] = got[d],
         emergency' \in BOOLEAN, UNCHANGED <<active, boot, mount, mu, policy, loaded>>
  PROVE  Serialised'
<1>1. \A d \in Clients \ {c} : pc'[d] = pc[d]
  BY Zenon DEF Serialised, Typed
<1>2. ~Holding(c)'
  BY Zenon DEF Holding
<1>3. Typed'
  <2>1. pc' \in [Clients -> Labels]
    BY Zenon DEF Serialised, Typed, Labels
  <2>2. \A d \in Clients : pc'[d] = "call" => op'[d] \in Contents /\ req'[d].kind # "reset"
    BY <1>1 DEF Serialised, Typed
  <2> QED BY Zenon, <2>1, <2>2 DEF Serialised, Typed
<1>4. \A d \in Clients : Holding(d)' <=> mu' = d
  BY Zenon, <1>1, <1>2 DEF Serialised, Holding
<1>5. ASSUME NEW d \in Clients, pc'[d] \in {"clear", "swap"} PROVE Prepared(d)'
  BY <1>1, <1>5 DEF Serialised, Prepared
<1>6. \A g : Current(g)' = Current(g)
  BY Zenon DEF Current
<1>7. ASSUME NEW d \in Clients, pc'[d] \in {"load", "finish"}
      PROVE  \E g \in 0..active'.gen : Swapped(d, g)'
  <2>1. d # c /\ pc'[d] = pc[d]
    BY Zenon, <1>1, <1>7
  <2>2. PICK g \in 0..active.gen : Swapped(d, g)
    BY Zenon, <1>7, <2>1 DEF Serialised
  <2>3. Swapped(d, g)'
    BY Zenon, <1>6, <2>1, <2>2 DEF Swapped
  <2> QED BY Zenon, <2>2, <2>3
<1>8. ASSUME \A d \in Clients : pc'[d] \notin {"load", "finish"}
      PROVE  Current(policy.gen)' /\ active'.boot = boot'
  <2>1. \A d \in Clients : pc[d] \notin {"load", "finish"}
    BY Zenon, <1>1, <1>8 DEF Holding
  <2> QED BY Zenon, <1>6, <2>1 DEF Serialised
<1> QED BY Zenon, <1>3, <1>4, <1>5, <1>7, <1>8 DEF Serialised

\* The calls that end without having taken App.mu.
LEMMA ReturnStep ==
  ASSUME Serialised, NEW c \in Clients, ~Holding(c), NEW s, Return(c, s),
         UNCHANGED <<storeVars, mu, policy, loaded>>
  PROVE  Serialised'
<1>1. pc'[c] = "idle" /\ pc' = [pc EXCEPT ![c] = pc'[c]]
  BY Zenon DEF Serialised, Typed, Return
<1>2. /\ DOMAIN req' = Clients /\ DOMAIN op' = Clients /\ DOMAIN cand' = Clients
      /\ DOMAIN was' = Clients /\ DOMAIN got' = Clients
  BY Zenon DEF Serialised, Typed, Return
<1>3. \A d \in Clients \ {c} : req'[d] = req[d] /\ op'[d] = op[d] /\ cand'[d] = cand[d]
                               /\ got'[d] = got[d]
  BY Zenon DEF Serialised, Typed, Return
<1>4. emergency' \in BOOLEAN
  BY Zenon DEF Serialised, Typed, storeVars
<1> QED BY Zenon, <1>1, <1>2, <1>3, <1>4, OutsideLock DEF storeVars

\* A call that takes App.mu with a candidate built from the active snapshot.
LEMMA AcquireStep ==
  ASSUME Serialised, NEW c \in Clients, mu = Nil, mu' = c,
         cand'[c] \in Candidates,
         IF req'[c].kind = "reset" THEN cand'[c].boot = cand'[c].content
         ELSE req'[c].rev = active.content /\ cand'[c].boot = active.boot,
         pc' = [pc EXCEPT ![c] = pc'[c]], pc'[c] \in {"clear", "swap"},
         DOMAIN req' = Clients, DOMAIN cand' = Clients, DOMAIN op' = Clients,
         \A d \in Clients \ {c} : op'[d] = op[d] /\ req'[d] = req[d],
         UNCHANGED <<storeVars, policy, was, got, loaded>>
  PROVE  Serialised'
<1>1. \A d \in Clients : ~Holding(d)
  BY Zenon, NilAssumption DEF Serialised
<1>2. \A d \in Clients \ {c} : pc'[d] = pc[d] /\ pc'[d] \notin {"clear", "swap", "load", "finish"}
  BY Zenon, <1>1 DEF Serialised, Typed, Holding
<1>3. active.boot = boot /\ Current(policy.gen)
  BY Zenon, <1>1 DEF Serialised, Holding
<1>4. Current(policy.gen)'
  BY Zenon, <1>3 DEF Current, storeVars
<1>5. Typed'
  <2>1. pc' \in [Clients -> Labels]
    BY Zenon DEF Serialised, Typed, Labels
  <2>2. ASSUME NEW d \in Clients, pc'[d] = "call"
        PROVE  op'[d] \in Contents /\ req'[d].kind # "reset"
    <3>1. d # c /\ pc[d] = "call"
      BY Zenon, <1>2, <2>2
    <3> QED BY Zenon, <3>1 DEF Serialised, Typed
  <2> QED BY Zenon, <2>1, <2>2 DEF Serialised, Typed, storeVars
<1>6. \A d \in Clients : Holding(d)' <=> mu' = d
  BY Zenon, <1>2 DEF Holding
<1>7. Prepared(c)'
  BY Zenon, <1>3 DEF Prepared, storeVars
<1> QED BY Zenon, <1>2, <1>3, <1>4, <1>5, <1>6, <1>7 DEF Serialised, storeVars

\* Plan and Apply up to the Swap, with an operation that is a content or Bad.
LEMMA ApplyStep ==
  ASSUME Serialised, NEW c \in Clients, ~Holding(c),
         NEW STATE r, NEW STATE o, r.kind # "reset", o \in Contents \cup {Bad}, ApplyLocked(c, r, o)
  PROVE  Serialised'
<1>1. UNCHANGED <<storeVars, policy, loaded>> /\ mu = Nil
  BY Zenon DEF ApplyLocked
<1>2. ASSUME NEW s, Return(c, s), UNCHANGED mu PROVE Serialised'
  BY Zenon, <1>1, <1>2, ReturnStep
<1>3. ASSUME r.rev = active.content, o # Bad, mu' = c,
             req' = [req EXCEPT ![c] = r], op' = [op EXCEPT ![c] = o],
             cand' = [cand EXCEPT ![c] = [gen |-> active.gen + 1, content |-> o,
                                          boot |-> active.boot]],
             Goto(c, "swap"), UNCHANGED <<was, got>>
      PROVE  Serialised'
  <2>1. req'[c] = r /\ cand'[c] = [gen |-> active.gen + 1, content |-> o, boot |-> active.boot]
    BY Zenon, <1>3 DEF Serialised, Typed
  <2>2. cand'[c] \in Candidates
    BY <1>3, <2>1 DEF Serialised, Typed, Snapshots, Candidates
  <2>3. pc'[c] = "swap" /\ pc' = [pc EXCEPT ![c] = pc'[c]]
    BY Zenon, <1>3 DEF Serialised, Typed, Goto
  <2>4. /\ DOMAIN req' = Clients /\ DOMAIN cand' = Clients /\ DOMAIN op' = Clients
        /\ \A d \in Clients \ {c} : op'[d] = op[d] /\ req'[d] = req[d]
    BY Zenon, <1>3 DEF Serialised, Typed
  <2> QED BY Zenon, <1>1, <1>3, <2>1, <2>2, <2>3, <2>4, AcquireStep
<1> QED BY Zenon, <1>2, <1>3 DEF ApplyLocked, RejectRevision

\* Reset up to the clearing of the emergency bit.
LEMMA ResetStep ==
  ASSUME Serialised, NEW c \in Clients, Reset(c)
  PROVE  Serialised'
<1> DEFINE file == IF mount = Unset THEN boot ELSE mount
<1>1. ~Holding(c) /\ mu = Nil /\ UNCHANGED <<storeVars, policy, loaded>>
  BY Zenon DEF Reset, Idle, Holding
<1>2. CASE file = Missing
  BY Zenon, <1>1, <1>2, ReturnStep DEF Reset
<1>3. CASE file # Missing
  <2>1. file \in Contents
    BY Zenon, <1>3, FileAssumption DEF Serialised, Typed
  <2>2. /\ mu' = c
        /\ req'[c] = [kind |-> "reset", key |-> Nil, rev |-> Nil, arg |-> Nil]
        /\ cand'[c] = [gen |-> active.gen + 1, content |-> file, boot |-> file]
        /\ DOMAIN req' = Clients /\ DOMAIN cand' = Clients
        /\ UNCHANGED <<op, was, got>>
    BY Zenon, <1>3 DEF Reset, Serialised, Typed
  <2>3. cand'[c] \in Candidates /\ cand'[c].boot = cand'[c].content
    BY <2>1, <2>2 DEF Serialised, Typed, Snapshots, Candidates
  <2>4. pc'[c] = "clear" /\ pc' = [pc EXCEPT ![c] = pc'[c]]
    BY Zenon, <1>3 DEF Reset, Serialised, Typed, Goto
  <2>5. DOMAIN op' = Clients /\ \A d \in Clients \ {c} : op'[d] = op[d] /\ req'[d] = req[d]
    BY Zenon, <1>3, <2>2 DEF Reset, Serialised, Typed
  <2> QED BY <1>1, <2>2, <2>3, <2>4, <2>5, AcquireStep
<1> QED BY Zenon, <1>2, <1>3

\* Between the lock and the Swap, Reset clears the emergency bit.
LEMMA ClearStep ==
  ASSUME Serialised, NEW c \in Clients, ClearEmergency(c)
  PROVE  Serialised'
<1>1. /\ pc[c] = "clear" /\ pc'[c] = "swap"
      /\ \A d \in Clients \ {c} : pc'[d] = pc[d]
      /\ pc' \in [Clients -> Labels]
      /\ emergency' \in BOOLEAN
      /\ UNCHANGED <<active, boot, mount, mu, policy, req, op, cand, was, got, loaded>>
  BY Zenon DEF ClearEmergency, Goto, Serialised, Typed, Labels, appVars, locals
<1>2. Typed'
  BY Zenon, <1>1 DEF Serialised, Typed
<1>3. \A d \in Clients : Holding(d)' <=> mu' = d
  BY Zenon, <1>1 DEF Serialised, Holding
<1>4. \A d \in Clients : pc'[d] \in {"clear", "swap"} => Prepared(d)'
  BY Zenon, <1>1 DEF Serialised, Prepared
<1>5. \A g : Current(g)' = Current(g)
  BY Zenon, <1>1 DEF Current
<1>6. \A d \in Clients : pc'[d] \notin {"load", "finish"}
  BY Zenon, <1>1 DEF Serialised, Holding
<1>7. Current(policy.gen)' /\ active'.boot = boot'
  BY Zenon, <1>1, <1>5, <1>6 DEF Serialised
<1> QED BY Zenon, <1>2, <1>3, <1>4, <1>6, <1>7 DEF Serialised

\* The Swap opens a new generation that no snapshot in use has reached.
LEMMA SwapStep ==
  ASSUME Serialised, NEW c \in Clients, Swap(c)
  PROVE  Serialised'
<1>1. /\ pc[c] = "swap" /\ pc'[c] = "load"
      /\ \A d \in Clients \ {c} : pc'[d] = pc[d]
      /\ pc' \in [Clients -> Labels] /\ DOMAIN was' = Clients
      /\ UNCHANGED <<emergency, boot, mount, mu, policy, req, op, cand, got, loaded>>
  BY Zenon DEF Swap, Goto, Serialised, Typed, Labels, appVars
<1>2. Prepared(c)
  BY Zenon, <1>1 DEF Serialised
<1>3. /\ active' \in Snapshots /\ active'.gen > active.gen
      /\ active'.content = cand[c].content /\ active'.boot = cand[c].boot
  <2>1. cand[c] \in Candidates /\ active \in Snapshots
    BY Zenon, <1>2 DEF Prepared, Serialised, Typed
  <2>2. emergency \in BOOLEAN
    BY Zenon DEF Serialised, Typed
  <2> QED BY <2>1, <2>2 DEF Swap, Candidates, Snapshots
<1>4. Typed'
  <2>1. policy'.gen <= active'.gen
    BY <1>1, <1>3 DEF Serialised, Typed, Snapshots
  <2>2. \A q \in Queries : loaded'[q] # Nil =>
           loaded'[q] \in Snapshots /\ loaded'[q].gen <= active'.gen
    BY <1>1, <1>3 DEF Serialised, Typed, Snapshots
  <2>3. \A d \in Clients : pc'[d] = "call" => op'[d] \in Contents /\ req'[d].kind # "reset"
    BY Zenon, <1>1 DEF Serialised, Typed
  <2> QED BY Zenon, <1>1, <1>3, <2>1, <2>2, <2>3 DEF Serialised, Typed
<1>5. \A d \in Clients : Holding(d)' <=> mu' = d
  BY Zenon, <1>1 DEF Serialised, Holding
<1>6. \A d \in Clients : pc'[d] \notin {"clear", "swap"}
  BY Zenon, <1>1 DEF Serialised, Holding
<1>7. Swapped(c, active.gen)'
  <2>1. policy.gen < active'.gen
    BY <1>3 DEF Serialised, Typed, Snapshots
  <2>2. \A q \in Queries : loaded[q] # Nil => loaded[q].gen < active'.gen
    BY <1>3 DEF Serialised, Typed, Snapshots
  <2>3. Current(active.gen)'
    BY <1>1, <1>3, <2>1, <2>2 DEF Current, Snapshots, Serialised, Typed
  <2> QED BY Zenon, <1>1, <1>2, <1>3, <2>3 DEF Swapped, Prepared
<1>8. \A d \in Clients : pc'[d] \in {"load", "finish"} => d = c
  BY Zenon, <1>1 DEF Serialised, Holding
<1>9. active'.gen \in 0..active'.gen
  BY <1>3 DEF Snapshots
<1> QED BY Zenon, <1>1, <1>4, <1>5, <1>6, <1>7, <1>8, <1>9 DEF Serialised

\* The load after the Swap sees the call's own content, at the Swap's generation or later.
LEMMA LoadStep ==
  ASSUME Serialised, NEW c \in Clients, Load(c)
  PROVE  Serialised'
<1>1. /\ pc[c] = "load" /\ pc'[c] = "finish"
      /\ \A d \in Clients \ {c} : pc'[d] = pc[d]
      /\ pc' \in [Clients -> Labels] /\ DOMAIN got' = Clients /\ got'[c] = active
      /\ UNCHANGED <<storeVars, mu, policy, req, op, cand, was, loaded>>
  BY Zenon DEF Load, Goto, Serialised, Typed, Labels, appVars
<1>2. Typed'
  BY Zenon, <1>1 DEF Serialised, Typed, storeVars
<1>3. \A d \in Clients : Holding(d)' <=> mu' = d
  BY Zenon, <1>1 DEF Serialised, Holding
<1>4. \A d \in Clients : pc'[d] \in {"clear", "swap", "load", "finish"} => d = c
  BY Zenon, <1>1 DEF Serialised, Holding
<1>5. PICK g \in 0..active.gen : Swapped(c, g)
  BY Zenon, <1>1 DEF Serialised
<1>6. Swapped(c, g)'
  <2>1. Current(g)'
    BY Zenon, <1>1, <1>5 DEF Swapped, Current, storeVars
  <2>2. active \in Snapshots /\ g <= active.gen /\ active.gen <= active.gen
    BY <1>5 DEF Serialised, Typed, Snapshots
  <2> QED BY Zenon, <1>1, <1>5, <2>1, <2>2 DEF Swapped, storeVars
<1>7. \E h \in 0..active'.gen : Swapped(c, h)'
  BY Zenon, <1>1, <1>5, <1>6 DEF storeVars
<1> QED BY Zenon, <1>1, <1>2, <1>3, <1>4, <1>7 DEF Serialised

\* The end of a write: the cache observes the snapshot that was loaded, and the
\* bootstrap is the active one's.
LEMMA FinishStep ==
  ASSUME Serialised, NEW c \in Clients, pc[c] = "finish",
         ObservePolicy(got[c]), mu' = Nil, NEW s, Return(c, s),
         boot' = IF req[c].kind = "reset" THEN got[c].content ELSE boot,
         UNCHANGED <<active, emergency, mount, loaded>>
  PROVE  Serialised'
<1>1. /\ pc'[c] = "idle" /\ \A d \in Clients \ {c} : pc'[d] = pc[d] /\ op'[d] = op[d] /\ req'[d] = req[d]
      /\ pc' \in [Clients -> Labels]
      /\ DOMAIN req' = Clients /\ DOMAIN op' = Clients /\ DOMAIN cand' = Clients
      /\ DOMAIN was' = Clients /\ DOMAIN got' = Clients
  BY Zenon DEF Return, Serialised, Typed, Labels
<1>2. \A d \in Clients : pc'[d] \notin {"clear", "swap", "load", "finish"}
  BY Zenon, <1>1 DEF Serialised, Holding
<1>3. PICK g \in 0..active.gen : Swapped(c, g)
  BY Zenon DEF Serialised
<1>4. /\ got[c] \in Snapshots /\ got[c].content = active.content
      /\ g <= got[c].gen /\ got[c].gen <= active.gen
  BY Zenon, <1>3 DEF Swapped
<1>5. /\ policy' \in [gen : Nat \cup {-1}, content : Contents]
      /\ policy'.gen <= active.gen /\ policy'.gen >= g /\ policy'.content = active.content
  <2>1. policy \in [gen : Nat \cup {-1}, content : Contents] /\ policy.gen <= active.gen
    BY Zenon DEF Serialised, Typed
  <2>2. CASE got[c].gen <= policy.gen
    BY <1>3, <1>4, <2>1, <2>2 DEF ObservePolicy, Swapped, Current, Snapshots
  <2>3. CASE ~(got[c].gen <= policy.gen)
    BY Zenon, <1>3, <1>4, <2>1, <2>3 DEF ObservePolicy, Snapshots
  <2> QED BY Zenon, <2>2, <2>3
<1>6. Current(policy.gen)'
  BY <1>3, <1>5 DEF Swapped, Current, Serialised, Typed, Snapshots
<1>7. active'.boot = boot' /\ boot' \in Contents
  BY Zenon, <1>3, <1>4 DEF Swapped, Serialised, Typed, Candidates, Snapshots
<1>8. Typed'
  BY Zenon, <1>1, <1>5, <1>7 DEF Serialised, Typed
<1>9. \A d \in Clients : Holding(d)' <=> mu' = d
  BY Zenon, <1>2, NilAssumption DEF Holding
<1> QED BY Zenon, <1>2, <1>6, <1>7, <1>8, <1>9 DEF Serialised

\* An emergency stamp moves the generation and keeps content and bootstrap.
LEMMA StampStep ==
  ASSUME Serialised, NEW c \in Clients, StampEmergency(c)
  PROVE  Serialised'
<1>1. /\ pc[c] = "stamp" /\ pc'[c] = "stamped"
      /\ \A d \in Clients \ {c} : pc'[d] = pc[d]
      /\ pc' \in [Clients -> Labels]
      /\ UNCHANGED <<emergency, boot, mount, mu, policy, req, op, cand, was, got, loaded>>
  BY Zenon DEF StampEmergency, Goto, Serialised, Typed, Labels, appVars, locals
<1>2. active' \in Snapshots /\ active'.gen >= active.gen /\ active'.content = active.content
      /\ active'.boot = active.boot
  <2>1. active \in Snapshots /\ emergency \in BOOLEAN
    BY Zenon DEF Serialised, Typed
  <2>2. CASE active' = active
    BY <2>1, <2>2 DEF Snapshots
  <2>3. CASE active' = [active EXCEPT !.gen = @ + 1, !.off = emergency]
    <3>1. active' = [gen |-> active.gen + 1, content |-> active.content, off |-> emergency,
                     boot |-> active.boot]
      BY Zenon, <2>1, <2>3 DEF Snapshots
    <3> QED BY <2>1, <3>1 DEF Snapshots
  <2> QED BY Zenon, <2>2, <2>3 DEF StampEmergency
<1>3. Typed'
  <2>1. policy'.gen <= active'.gen
    BY <1>1, <1>2 DEF Serialised, Typed, Snapshots
  <2>2. \A q \in Queries : loaded'[q] # Nil =>
           loaded'[q] \in Snapshots /\ loaded'[q].gen <= active'.gen
    BY <1>1, <1>2 DEF Serialised, Typed, Snapshots
  <2>3. \A d \in Clients : pc'[d] = "call" => op'[d] \in Contents /\ req'[d].kind # "reset"
    BY Zenon, <1>1 DEF Serialised, Typed
  <2> QED BY Zenon, <1>1, <1>2, <2>1, <2>2, <2>3 DEF Serialised, Typed
<1>4. \A d \in Clients : Holding(d)' <=> mu' = d
  BY Zenon, <1>1 DEF Serialised, Holding
<1>5. \A d \in Clients : pc'[d] \in {"clear", "swap"} => Prepared(d)'
  BY Zenon, <1>1, <1>2 DEF Serialised, Prepared
<1>6. \A g : Current(g)' = Current(g)
  BY Zenon, <1>1, <1>2 DEF Current
<1>7. ASSUME NEW d \in Clients, pc'[d] \in {"load", "finish"}
      PROVE  \E g \in 0..active'.gen : Swapped(d, g)'
  <2>1. d # c /\ pc'[d] = pc[d]
    BY Zenon, <1>1, <1>7
  <2>2. PICK g \in 0..active.gen : Swapped(d, g)
    BY Zenon, <1>7, <2>1 DEF Serialised
  <2>3. pc[d] = "finish" => got[d].gen <= active'.gen
    BY <1>2, <2>2 DEF Swapped, Snapshots, Serialised, Typed
  <2>4. Swapped(d, g)'
    BY Zenon, <1>1, <1>2, <1>6, <2>1, <2>2, <2>3 DEF Swapped
  <2>5. g \in 0..active'.gen
    BY <1>2, <2>2 DEF Snapshots, Serialised, Typed
  <2> QED BY Zenon, <2>4, <2>5
<1>8. ASSUME \A d \in Clients : pc'[d] \notin {"load", "finish"}
      PROVE  Current(policy.gen)' /\ active'.boot = boot'
  BY Zenon, <1>1, <1>2, <1>6, <1>8 DEF Serialised
<1> QED BY Zenon, <1>3, <1>4, <1>5, <1>7, <1>8 DEF Serialised

\* A query takes the active snapshot, or makes the cache observe the one it
\* took: an old generation is ignored, a current one has the active content.
LEMMA QueryStep ==
  ASSUME Serialised, NEW q \in Queries, QueryLoad(q) \/ QueryObserve(q)
  PROVE  Serialised'
<1>1. UNCHANGED <<storeVars, mu, pc, req, op, cand, was, got>> /\ DOMAIN loaded' = Queries
  BY Zenon DEF QueryLoad, QueryObserve, appVars, locals, Serialised, Typed
<1>2. \A x \in Queries : loaded'[x] # Nil => loaded'[x] = active \/ loaded'[x] = loaded[x]
  BY Zenon DEF QueryLoad, QueryObserve, Serialised, Typed
<1>3. policy' = policy \/ (loaded[q] # Nil /\ policy' = [gen |-> loaded[q].gen, content |-> loaded[q].content]
                           /\ ~(loaded[q].gen <= policy.gen))
  BY Zenon DEF QueryLoad, QueryObserve, ObservePolicy, appVars
<1>4. /\ policy' \in [gen : Nat \cup {-1}, content : Contents]
      /\ policy'.gen <= active.gen /\ policy'.gen >= policy.gen
  BY <1>3 DEF Serialised, Typed, Snapshots
<1>5. Typed'
  <2>1. \A x \in Queries : loaded'[x] # Nil =>
           loaded'[x] \in Snapshots /\ loaded'[x].gen <= active'.gen
    <3>1. active \in Snapshots /\ active.gen <= active.gen
      BY DEF Serialised, Typed, Snapshots
    <3>2. \A x \in Queries : loaded[x] # Nil => loaded[x] \in Snapshots /\ loaded[x].gen <= active.gen
      BY Zenon DEF Serialised, Typed
    <3>3. active' = active
      BY Zenon, <1>1 DEF storeVars
    <3> QED BY <1>2, <3>1, <3>2, <3>3, Zenon
  <2> QED BY <1>1, <1>4, <2>1, Zenon DEF Serialised, Typed, storeVars
<1>6. ASSUME NEW g, Current(g) PROVE Current(g)'
  BY <1>1, <1>2, <1>3, <1>6 DEF Current, storeVars
<1>7. ASSUME Current(policy.gen) PROVE Current(policy.gen)'
  <2>1. policy'.content = active.content
    BY <1>3, <1>7 DEF Current, Serialised, Typed, Snapshots
  <2>2. \A x \in Queries : loaded[x] # Nil /\ loaded[x].gen >= policy'.gen =>
           loaded[x].content = active.content
    BY <1>4, <1>7 DEF Current, Serialised, Typed, Snapshots
  <2> QED BY Zenon, <1>1, <1>2, <2>1, <2>2 DEF Current, storeVars
<1>8. ASSUME NEW d \in Clients, pc'[d] \in {"load", "finish"}
      PROVE  \E g \in 0..active'.gen : Swapped(d, g)'
  <2>1. PICK g \in 0..active.gen : Swapped(d, g)
    BY Zenon, <1>1, <1>8 DEF Serialised
  <2>2. Swapped(d, g)'
    BY Zenon, <1>1, <1>6, <2>1 DEF Swapped, storeVars
  <2> QED BY Zenon, <1>1, <2>1, <2>2 DEF storeVars
<1>9. \A d \in Clients : pc'[d] \in {"clear", "swap"} => Prepared(d)'
  BY Zenon, <1>1 DEF Serialised, Prepared, storeVars
<1>10. \A d \in Clients : Holding(d)' <=> mu' = d
  BY Zenon, <1>1 DEF Serialised, Holding
<1> QED BY Zenon, <1>1, <1>5, <1>7, <1>8, <1>9, <1>10 DEF Serialised, storeVars

\* Every step of the control plane keeps the writes serialised.
LEMMA NextSerialised == Serialised /\ [Next]_vars => Serialised'
<1> SUFFICES ASSUME Serialised, [Next]_vars PROVE Serialised'
  BY Zenon
<1>1. ASSUME NEW c \in Clients, Start(c) PROVE Serialised'
  <2>1. CASE Deny(c)
    <3>1. ~Holding(c)
      BY Zenon, <2>1 DEF Deny, Idle, Holding
    <3> QED BY Zenon, <2>1, <3>1, ReturnStep DEF Deny
  <2>2. ASSUME NEW r \in Requests({"plan"}), Plan(c, r) PROVE Serialised'
    <3>1. ~Holding(c) /\ \E s : Return(c, s)
      BY Zenon, <2>2 DEF Plan, Idle, Holding, RejectRevision
    <3> QED BY Zenon, <2>2, <3>1, ReturnStep DEF Plan
  <2>3. ASSUME NEW r \in Requests({"apply"}), Apply(c, r) PROVE Serialised'
    <3>1. ~Holding(c) /\ ApplyLocked(c, r, r.arg)
      BY Zenon, <2>3 DEF Apply, Idle, Holding
    <3>2. r.kind = "apply" /\ r.arg \in Contents \cup {Bad}
      <4>1. r \in [kind : {"apply"}, key : Keys \cup {Nil}, rev : Contents \cup {Nil},
                   arg : Args("apply")]
        BY Zenon DEF Requests
      <4> QED BY Zenon, <4>1 DEF Args, Activations
    <3> QED BY Zenon, <3>1, <3>2, ApplyStep
  <2>4. ASSUME NEW r \in Requests(Activations), ReadActivation(c, r) PROVE Serialised'
    <3>0. PICK k \in Activations : r \in [kind : {k}, key : Keys \cup {Nil},
                                         rev : Contents \cup {Nil}, arg : Args(k)]
      BY Zenon DEF Requests
    <3>1. r.arg \in Exps \cup {Nil} /\ r.kind # "reset"
      BY Zenon, <3>0 DEF Args, Activations
    <3>2. Activation(r, active.content) \in Contents
      BY Zenon, <3>1 DEF Activation, Contents, Serialised, Typed, Snapshots
    <3>3. /\ ~Holding(c) /\ pc'[c] = "call" /\ pc' = [pc EXCEPT ![c] = pc'[c]]
          /\ op'[c] \in Contents /\ req'[c] = r /\ DOMAIN req' = Clients /\ DOMAIN op' = Clients
          /\ \A d \in Clients \ {c} : req'[d] = req[d] /\ op'[d] = op[d]
          /\ UNCHANGED <<active, emergency, boot, mount, mu, policy, cand, was, got, loaded>>
      BY Zenon, <2>4, <3>2 DEF ReadActivation, Idle, Holding, Goto, storeVars, appVars, Serialised, Typed
    <3>4. emergency' \in BOOLEAN /\ DOMAIN cand' = Clients /\ DOMAIN was' = Clients
          /\ DOMAIN got' = Clients
      BY Zenon, <3>3 DEF Serialised, Typed
    <3> QED BY Zenon, <3>1, <3>3, <3>4, OutsideLock
  <2>5. CASE Reset(c)
    BY Zenon, <2>5, ResetStep
  <2>6. ASSUME NEW kind \in {"disable", "enable"}, EmergencyEnter(c, kind) PROVE Serialised'
    <3>1. /\ ~Holding(c) /\ pc'[c] = "bit" /\ pc' = [pc EXCEPT ![c] = pc'[c]]
          /\ DOMAIN req' = Clients /\ \A d \in Clients \ {c} : req'[d] = req[d]
          /\ UNCHANGED <<active, emergency, boot, mount, mu, policy, op, cand, was, got, loaded>>
      BY Zenon, <2>6 DEF EmergencyEnter, Idle, Holding, Goto, storeVars, appVars, Serialised, Typed
    <3>2. /\ emergency' \in BOOLEAN /\ DOMAIN op' = Clients /\ DOMAIN cand' = Clients
          /\ DOMAIN was' = Clients /\ DOMAIN got' = Clients
      BY Zenon, <3>1 DEF Serialised, Typed
    <3> QED BY Zenon, <3>1, <3>2, OutsideLock
  <2> QED BY Zenon, <1>1, <2>1, <2>2, <2>3, <2>4, <2>5, <2>6 DEF Start
<1>2. ASSUME NEW c \in Clients, Proceed(c) PROVE Serialised'
  <2>1. CASE ApplyActivation(c)
    <3>1. ~Holding(c) /\ op[c] \in Contents /\ req[c].kind # "reset" /\ ApplyLocked(c, req[c], op[c])
      BY Zenon, <2>1 DEF ApplyActivation, Holding, Serialised, Typed
    <3> QED BY Zenon, <3>1, ApplyStep
  <2>2. CASE ClearEmergency(c)
    BY Zenon, <2>2, ClearStep
  <2>3. CASE Swap(c)
    BY Zenon, <2>3, SwapStep
  <2>4. CASE Load(c)
    BY Zenon, <2>4, LoadStep
  <2>5. CASE FinishApply(c)
    BY Zenon, <2>5, FinishStep DEF FinishApply, storeVars
  <2>6. CASE FinishReset(c)
    BY Zenon, <2>6, FinishStep DEF FinishReset
  <2>7. CASE SetEmergency(c)
    <3>1. /\ ~Holding(c) /\ pc'[c] = "stamp" /\ pc' = [pc EXCEPT ![c] = pc'[c]]
          /\ emergency' \in BOOLEAN
          /\ UNCHANGED <<active, boot, mount, mu, policy, req, op, cand, was, got, loaded>>
      BY Zenon, <2>7 DEF SetEmergency, Holding, Goto, appVars, locals, Serialised, Typed
    <3>2. /\ DOMAIN req' = Clients /\ DOMAIN op' = Clients /\ DOMAIN cand' = Clients
          /\ DOMAIN was' = Clients /\ DOMAIN got' = Clients
      BY Zenon, <3>1 DEF Serialised, Typed
    <3> QED BY Zenon, <3>1, <3>2, OutsideLock
  <2>8. CASE StampEmergency(c)
    BY Zenon, <2>8, StampStep
  <2>9. CASE FinishEmergency(c)
    <3>1. ~Holding(c)
      BY Zenon, <2>9 DEF FinishEmergency, Holding
    <3> QED BY Zenon, <2>9, <3>1, ReturnStep DEF FinishEmergency
  <2> QED BY Zenon, <1>2, <2>1, <2>2, <2>3, <2>4, <2>5, <2>6, <2>7, <2>8, <2>9 DEF Proceed
<1>3. ASSUME NEW q \in Queries, QueryLoad(q) \/ QueryObserve(q) PROVE Serialised'
  BY Zenon, <1>3, QueryStep
<1>4. ASSUME mount' \in Files, UNCHANGED <<active, emergency, boot, appVars, pc, req, locals, loaded>>
      PROVE  Serialised'
  <2>1. Typed'
    BY Zenon, <1>4 DEF Serialised, Typed, appVars, locals
  <2>2. \A c \in Clients : Holding(c)' <=> Holding(c)
    BY Zenon, <1>4 DEF Holding
  <2>3. \A g : Current(g)' <=> Current(g)
    BY Zenon, <1>4 DEF Current, appVars
  <2>4. \A c \in Clients : Prepared(c)' <=> Prepared(c)
    BY Zenon, <1>4 DEF Prepared, locals
  <2>5. \A c \in Clients, g \in 0..active.gen : Swapped(c, g)' <=> Swapped(c, g)
    BY Zenon, <1>4, <2>3 DEF Swapped, locals
  <2> QED BY Zenon, <1>4, <2>1, <2>2, <2>3, <2>4, <2>5 DEF Serialised, appVars
<1>5. CASE EditMount
  BY Zenon, <1>4, <1>5 DEF EditMount
<1>6. CASE UNCHANGED vars
  <2>1. mount' \in Files
    BY Zenon, <1>6 DEF vars, storeVars, Serialised, Typed
  <2> QED BY Zenon, <1>4, <1>6, <2>1 DEF vars, storeVars
<1> QED BY Zenon, <1>1, <1>2, <1>3, <1>5, <1>6 DEF Next, Rest

\* App.mu serialises the writes, whatever runs beside them.
THEOREM WritesSerialised == Spec => []Serialised
BY InitSerialised, NextSerialised, PTL DEF Spec

\* A write reports and audits the revision it compiled (mutate.go, reset.go),
\* although it reads the active snapshot again after its Swap.
THEOREM ReportsOwnRevision == Spec => []OwnRevisionReported
<1>1. Serialised => OwnRevisionReported
  BY Zenon DEF Serialised, Swapped, OwnRevisionReported
<1> QED BY <1>1, WritesSerialised, PTL

\* The cache works under the policy of the active state whenever no write is
\* running, however late queries observe old snapshots (Cache.ObservePolicy).
THEOREM PolicyHolds == Spec => []PolicyInForce
<1>1. Serialised => PolicyInForce
  <2> SUFFICES ASSUME Serialised, mu = Nil PROVE policy.content = active.content
    BY Zenon DEF PolicyInForce
  <2>1. Current(policy.gen)
    BY Zenon, NilAssumption DEF Serialised, Holding
  <2>2. policy.gen >= policy.gen
    BY DEF Serialised, Typed
  <2> QED BY Zenon, <2>1, <2>2 DEF Current
<1> QED BY <1>1, WritesSerialised, PTL

\* Drift is measured against the state Reset restores (Store.bootstrap).
THEOREM DriftHolds == Spec => []DriftAgainstBootstrap
<1>1. Serialised => DriftAgainstBootstrap
  BY Zenon, NilAssumption DEF Serialised, Holding, DriftAgainstBootstrap
<1> QED BY <1>1, WritesSerialised, PTL

\* An Apply commits only over the revision its caller named (App.Apply,
\* checkExpectedRevision): no concurrent write is lost.
THEOREM NoUpdateLost == Spec => NoLostUpdate
<1>1. Serialised => \A c \in Clients :
         Swap(c) /\ req[c].kind # "reset" => active.content = req[c].rev
  BY Zenon DEF Serialised, Prepared, Swap
<1> QED BY <1>1, WritesSerialised, PTL DEF NoLostUpdate

-----------------------------------------------------------------------------
(* What the writes record: the idempotency cache and the audit ring.       *)

\* The entries t are some of s, one per key, none of them under key k.
Drawn(t, s, k) ==
    /\ t \in Seq(Entries) /\ OnePerKey(t)
    /\ \A i \in 1..Len(t) : t[i].key # k /\ \E j \in 1..Len(s) : t[i] = s[j]

\* The entries t are e and some of s, one per key.
Refreshed(t, s, e) ==
    /\ t \in Seq(Entries) /\ OnePerKey(t)
    /\ \A i \in 1..Len(t) : t[i] = e \/ (t[i].key # e.key /\ \E j \in 1..Len(s) : t[i] = s[j])

\* a, of length m, is s up to p; b, of length m, is s, of length n, after p;
\* t, of length m, is the two of them; t is s without p.
Front(a, m, s, p) == m = p - 1 /\ \A i \in 1..(p - 1) : a[i] = s[i]
Back(b, m, s, n, p) == m = n - p /\ \A i \in 1..(n - p) : b[i] = s[p + i]
Joined(t, m, a, la, b, lb) ==
    m = la + lb /\ \A i \in 1..(la + lb) : t[i] = IF i <= la THEN a[i] ELSE b[i - la]
Skips(t, m, s, n, p) ==
    m = n - 1 /\ \A i \in 1..m : t[i] = IF i < p THEN s[i] ELSE s[i + 1]

KeysApart(s, n) == \A i, j \in 1..n : s[i].key = s[j].key => i = j
ComesFrom(t, m, s, n, k) == \A i \in 1..m : t[i].key # k /\ \E j \in 1..n : t[i] = s[j]

\* The two parts of s around p, joined, skip p.
LEMMA JoinSkips ==
  ASSUME NEW n \in Nat, NEW p \in 1..n, NEW s, NEW a, NEW b, NEW t, NEW la, NEW lb, NEW m,
         Front(a, la, s, p), Back(b, lb, s, n, p), Joined(t, m, a, la, b, lb)
  PROVE  Skips(t, m, s, n, p)
<1>0. /\ la = p - 1 /\ \A i \in 1..(p - 1) : a[i] = s[i]
      /\ lb = n - p /\ \A i \in 1..(n - p) : b[i] = s[p + i]
      /\ m = la + lb /\ \A i \in 1..(la + lb) : t[i] = IF i <= la THEN a[i] ELSE b[i - la]
  BY Zenon DEF Front, Back, Joined
<1>1. m = n - 1
  BY <1>0
<1>2. ASSUME NEW i \in 1..(n - 1), i < p PROVE t[i] = s[i]
  <2>1. i \in 1..(p - 1) /\ i \in 1..(la + lb) /\ i <= la
    BY <1>0, <1>1, <1>2
  <2>2. t[i] = a[i]
    BY Zenon, <1>0, <2>1
  <2> QED BY Zenon, <1>0, <2>1, <2>2
<1>3. ASSUME NEW i \in 1..(n - 1), ~(i < p) PROVE t[i] = s[i + 1]
  <2>1. /\ i - la \in 1..(n - p) /\ p + (i - la) = i + 1
        /\ i \in 1..(la + lb) /\ ~(i <= la)
    BY <1>0, <1>1, <1>3
  <2>2. t[i] = b[i - la]
    BY Zenon, <1>0, <2>1
  <2>3. b[i - la] = s[p + (i - la)]
    BY Zenon, <1>0, <2>1
  <2> QED BY Zenon, <1>0, <2>1, <2>2, <2>3
<1> QED BY Zenon, <1>1, <1>2, <1>3 DEF Skips

\* Unlinking index p of entries s keeps one per key and drops the key at p.
LEMMA SkipDrops ==
  ASSUME NEW n \in Nat, NEW p \in 1..n, NEW s, NEW t, NEW m, Skips(t, m, s, n, p),
         KeysApart(s, n)
  PROVE  ComesFrom(t, m, s, n, s[p].key) /\ KeysApart(t, m)
<1> DEFINE to(i) == IF i < p THEN i ELSE i + 1
<1>1. \A i \in 1..m : to(i) \in 1..n /\ to(i) # p
  BY DEF Skips
<1>2. \A i \in 1..m : t[i] = s[to(i)]
  BY Zenon DEF Skips
<1>3. \A i, j \in 1..m : i # j => to(i) # to(j)
  BY DEF Skips
<1> HIDE DEF to
<1>4. ASSUME NEW i \in 1..m PROVE t[i].key # s[p].key /\ \E j \in 1..n : t[i] = s[j]
  <2>1. to(i) \in 1..n /\ to(i) # p /\ t[i] = s[to(i)]
    BY Zenon, <1>1, <1>2
  <2> QED BY Zenon, <2>1 DEF KeysApart
<1>5. ASSUME NEW i \in 1..m, NEW j \in 1..m, i # j PROVE t[i].key # t[j].key
  <2>1. /\ to(i) \in 1..n /\ t[i] = s[to(i)] /\ to(j) \in 1..n /\ t[j] = s[to(j)]
        /\ to(i) # to(j)
    BY Zenon, <1>1, <1>2, <1>3, <1>5
  <2> QED BY Zenon, <2>1 DEF KeysApart
<1> QED BY Zenon, <1>4, <1>5 DEF KeysApart, ComesFrom

\* Unlinking the one entry of a key leaves the others.
LEMMA UnlinkDraws ==
  ASSUME NEW s \in Seq(Entries), OnePerKey(s), NEW p \in 1..Len(s)
  PROVE  Drawn(SubSeq(s, 1, p - 1) \o SubSeq(s, p + 1, Len(s)), s, s[p].key)
<1> DEFINE a == SubSeq(s, 1, p - 1)
           b == SubSeq(s, p + 1, Len(s))
           t == a \o b
<1>1. Len(s) \in Nat
  BY LenProperties, Zenon
<1>2. a \in Seq(Entries) /\ Len(a) = p - 1 /\ \A i \in 1..(p - 1) : a[i] = s[i]
  <2>1. \A i \in 1..(p - 1) : i \in 1..Len(s)
    BY <1>1
  <2>2. \A i \in 1..(p - 1) : s[i] \in Entries
    BY Zenon, <2>1, ElementOfSeq
  <2> QED BY <1>1, <2>1, <2>2, SubSeqProperties
<1>3. b \in Seq(Entries) /\ Len(b) = Len(s) - p /\ \A i \in 1..(Len(s) - p) : b[i] = s[p + i]
  <2>1. \A i \in (p + 1)..Len(s) : i \in 1..Len(s)
    BY <1>1
  <2>2. \A i \in (p + 1)..Len(s) : s[i] \in Entries
    BY Zenon, <2>1, ElementOfSeq
  <2> QED BY <1>1, <2>1, <2>2, SubSeqProperties
<1> HIDE DEF a, b
<1>4. /\ t \in Seq(Entries) /\ Len(t) = Len(a) + Len(b)
      /\ \A i \in 1..(Len(a) + Len(b)) : t[i] = IF i <= Len(a) THEN a[i] ELSE b[i - Len(a)]
  BY Zenon, <1>2, <1>3, ConcatProperties
<1> HIDE DEF t
<1>5. Skips(t, Len(t), s, Len(s), p)
  <2>1. Front(a, Len(a), s, p) /\ Back(b, Len(b), s, Len(s), p)
    BY Zenon, <1>2, <1>3 DEF Front, Back
  <2>2. Joined(t, Len(t), a, Len(a), b, Len(b))
    BY Zenon, <1>4 DEF Joined
  <2> QED BY Zenon, <1>1, <2>1, <2>2, JoinSkips
<1>6. KeysApart(s, Len(s))
  BY Zenon DEF OnePerKey, KeysApart
<1>7. ComesFrom(t, Len(t), s, Len(s), s[p].key) /\ KeysApart(t, Len(t))
  BY Zenon, <1>1, <1>5, <1>6, SkipDrops
<1>8. Drawn(t, s, s[p].key)
  BY Zenon, <1>4, <1>7 DEF Drawn, OnePerKey, ComesFrom, KeysApart
<1> QED BY Zenon, <1>8 DEF t, a, b

\* removeLocked and evict: the cache without the entry of a key.
LEMMA WithoutDraws ==
  ASSUME idemp \in Seq(Entries), OnePerKey(idemp), NEW k
  PROVE  Drawn(Without(k), idemp, k)
<1>1. CASE Hits(k) = {}
  <2>1. \A i \in 1..Len(idemp) : idemp[i].key \in Keys
    <3>1. \A i \in 1..Len(idemp) : idemp[i] \in Entries
      BY Zenon, ElementOfSeq
    <3> QED BY Zenon, <3>1 DEF Entries
  <2>2. \A i \in 1..Len(idemp) : idemp[i].key # k
    BY Zenon, <1>1, <2>1, NilAssumption DEF Hits
  <2> QED BY Zenon, <1>1, <2>2 DEF Drawn, Without
<1>2. CASE Hits(k) # {}
  <2>1. Place(k) \in 1..Len(idemp) /\ idemp[Place(k)].key = k
    <3>1. Place(k) \in Hits(k)
      BY Zenon, <1>2 DEF Place
    <3> QED BY Zenon, <3>1 DEF Hits
  <2>2. Without(k) = SubSeq(idemp, 1, Place(k) - 1) \o SubSeq(idemp, Place(k) + 1, Len(idemp))
    BY Zenon, <1>2 DEF Without
  <2>3. Drawn(Without(k), idemp, idemp[Place(k)].key)
    BY Zenon, <2>1, <2>2, UnlinkDraws
  <2> QED BY Zenon, <2>1, <2>3
<1> QED BY Zenon, <1>1, <1>2

\* moveFrontLocked and insertFrontLocked, with the eviction at the capacity.
LEMMA PutFrontRefreshes ==
  ASSUME idemp \in Seq(Entries), OnePerKey(idemp), NEW e \in Entries
  PROVE  Refreshed(PutFront(e), idemp, e)
<1> DEFINE w == Without(e.key)
           s == <<e>> \o w
           t == IF Len(s) > IdempMax THEN SubSeq(s, 1, IdempMax) ELSE s
<1>1. PutFront(e) = t
  BY Zenon DEF PutFront
<1>2. Drawn(w, idemp, e.key)
  BY Zenon, WithoutDraws
<1> HIDE DEF w
<1>3. w \in Seq(Entries) /\ Len(w) \in Nat
  BY Zenon, <1>2, LenProperties DEF Drawn
<1>4. /\ s \in Seq(Entries) /\ Len(s) = Len(w) + 1 /\ s[1] = e
      /\ \A i \in 2..Len(s) : s[i] = w[i - 1]
  <2>1. <<e>> \in Seq(Entries) /\ Len(<<e>>) = 1 /\ <<e>>[1] = e
    OBVIOUS
  <2> DEFINE h == <<e>>
  <2>2. h \in Seq(Entries) /\ Len(h) = 1 /\ h[1] = e /\ s = h \o w
    BY Zenon, <2>1
  <2> HIDE DEF h
  <2>3. /\ h \o w \in Seq(Entries) /\ Len(h \o w) = Len(h) + Len(w)
        /\ \A i \in 1..(Len(h) + Len(w)) : (h \o w)[i] = IF i <= Len(h) THEN h[i] ELSE w[i - Len(h)]
    BY Zenon, <1>3, <2>2, ConcatProperties
  <2> QED BY <1>3, <2>2, <2>3
<1> HIDE DEF s
<1>5. /\ t \in Seq(Entries) /\ Len(t) <= Len(s) /\ Len(t) \in Nat
      /\ \A i \in 1..Len(t) : t[i] = s[i]
  <2>1. CASE Len(s) > IdempMax
    <3>1. \A i \in 1..IdempMax : i \in 1..Len(s)
      BY <1>3, <1>4, <2>1, BoundAssumption
    <3>2. \A i \in 1..IdempMax : s[i] \in Entries
      BY Zenon, <1>4, <3>1, ElementOfSeq
    <3> QED BY <1>3, <1>4, <2>1, <3>2, BoundAssumption, SubSeqProperties
  <2>2. CASE ~(Len(s) > IdempMax)
    BY <1>3, <1>4, <2>2
  <2> QED BY Zenon, <2>1, <2>2
<1> HIDE DEF t
<1>6. \A i \in 1..Len(t) : IF i = 1 THEN t[i] = e ELSE i - 1 \in 1..Len(w) /\ t[i] = w[i - 1]
  BY <1>3, <1>4, <1>5
<1>7. ASSUME NEW i \in 1..Len(t)
      PROVE  t[i] = e \/ (t[i].key # e.key /\ \E j \in 1..Len(idemp) : t[i] = idemp[j])
  <2>1. CASE i = 1
    BY Zenon, <1>6, <2>1
  <2>2. CASE i # 1
    <3>1. i - 1 \in 1..Len(w) /\ t[i] = w[i - 1]
      BY Zenon, <1>6, <2>2
    <3> QED BY Zenon, <1>2, <3>1 DEF Drawn
  <2> QED BY Zenon, <2>1, <2>2
<1>8. OnePerKey(t)
  <2>1. ASSUME NEW i \in 1..Len(t), NEW j \in 1..Len(t), i # j, i # 1, j # 1
        PROVE  t[i].key # t[j].key
    <3>1. i - 1 # j - 1
      BY <2>1
    <3>2. /\ i - 1 \in 1..Len(w) /\ t[i] = w[i - 1]
          /\ j - 1 \in 1..Len(w) /\ t[j] = w[j - 1]
      BY Zenon, <1>6, <2>1
    <3>3. OnePerKey(w)
      BY Zenon, <1>2 DEF Drawn
    <3>4. w[i - 1].key # w[j - 1].key
      BY Zenon, <3>1, <3>2, <3>3 DEF OnePerKey
    <3> QED BY Zenon, <3>2, <3>4
  <2>2. ASSUME NEW i \in 1..Len(t), i # 1 PROVE t[i].key # e.key
    <3>1. i - 1 \in 1..Len(w) /\ t[i] = w[i - 1]
      BY Zenon, <1>6, <2>2
    <3> QED BY Zenon, <1>2, <3>1 DEF Drawn
  <2>3. \A i \in 1..Len(t) : i = 1 => t[i] = e
    BY Zenon, <1>6
  <2> QED BY Zenon, <2>1, <2>2, <2>3 DEF OnePerKey
<1> QED BY Zenon, <1>1, <1>5, <1>7, <1>8 DEF Refreshed

\* t is s, of length n, followed by e; t is s without its first event.
Grown(t, m, s, n, e) == m = n + 1 /\ t[m] = e /\ \A i \in 1..n : t[i] = s[i]
Dropped(t, m, s, n) == m = n - 1 /\ \A i \in 1..m : t[i] = s[i + 1]

\* Linked and EndsAt for events s of length n.
LinkedUpTo(s, n) ==
    \A i, j \in 1..n :
        i < j /\ s[i].write /\ s[j].write /\ (\A k \in (i + 1)..(j - 1) : ~s[k].write)
            => s[j].prev = s[i].rev
EndsUpTo(s, n, x) ==
    \A i \in 1..n : s[i].write /\ (\A k \in (i + 1)..n : ~s[k].write) => s[i].rev = x

\* A write that starts where the history ends continues it.
LEMMA GrownLinked ==
  ASSUME NEW n \in Nat, NEW s, NEW t, NEW m, NEW e, Grown(t, m, s, n, e), LinkedUpTo(s, n),
         e.write => EndsUpTo(s, n, e.prev)
  PROVE  LinkedUpTo(t, m)
<1> SUFFICES ASSUME NEW i \in 1..m, NEW j \in 1..m, i < j, t[i].write, t[j].write,
                    \A k \in (i + 1)..(j - 1) : ~t[k].write
             PROVE  t[j].prev = t[i].rev
  BY Zenon DEF LinkedUpTo
<1>1. m = n + 1 /\ t[m] = e /\ i \in 1..n /\ t[i] = s[i]
  BY DEF Grown
<1>2. \A k \in (i + 1)..(j - 1) : ~s[k].write
  <2>1. \A k \in (i + 1)..(j - 1) : t[k] = s[k]
    BY <1>1 DEF Grown
  <2> QED BY Zenon, <2>1
<1>3. CASE j = m
  <2>1. \A k \in (i + 1)..n : ~s[k].write
    BY <1>1, <1>2, <1>3
  <2>2. t[j] = e
    BY Zenon, <1>1, <1>3
  <2>3. EndsUpTo(s, n, e.prev)
    BY Zenon, <2>2
  <2> QED BY Zenon, <1>1, <2>1, <2>2, <2>3 DEF EndsUpTo
<1>4. CASE j # m
  <2>1. j \in 1..n /\ t[j] = s[j]
    BY <1>1, <1>4 DEF Grown
  <2> QED BY Zenon, <1>1, <1>2, <2>1 DEF LinkedUpTo
<1> QED BY Zenon, <1>3, <1>4

\* Where the history ends once e is appended.
LEMMA GrownEnds ==
  ASSUME NEW n \in Nat, NEW s, NEW t, NEW m, NEW e, Grown(t, m, s, n, e), NEW x,
         IF e.write THEN x = e.rev ELSE EndsUpTo(s, n, x)
  PROVE  EndsUpTo(t, m, x)
<1> SUFFICES ASSUME NEW i \in 1..m, t[i].write, \A k \in (i + 1)..m : ~t[k].write
             PROVE  t[i].rev = x
  BY Zenon DEF EndsUpTo
<1>1. m = n + 1 /\ t[m] = e
  BY Zenon DEF Grown
<1>2. CASE i = m
  BY Zenon, <1>1, <1>2
<1>3. CASE i # m
  <2>1. i \in 1..n /\ m \in (i + 1)..m /\ t[i] = s[i]
    BY <1>1, <1>3 DEF Grown
  <2>2. ~e.write
    BY Zenon, <1>1, <2>1
  <2>3. \A k \in (i + 1)..n : k \in (i + 1)..m /\ t[k] = s[k]
    BY <1>1, <2>1 DEF Grown
  <2>4. \A k \in (i + 1)..n : ~s[k].write
    BY Zenon, <2>3
  <2> QED BY Zenon, <2>1, <2>2, <2>4 DEF EndsUpTo
<1> QED BY Zenon, <1>2, <1>3

\* A history without its first event is a history with the same end.
LEMMA DroppedTells ==
  ASSUME NEW n \in Nat, NEW s, NEW t, NEW m, Dropped(t, m, s, n)
  PROVE  /\ LinkedUpTo(s, n) => LinkedUpTo(t, m)
         /\ \A x : EndsUpTo(s, n, x) => EndsUpTo(t, m, x)
<1>1. m = n - 1 /\ \A i \in 1..m : t[i] = s[i + 1]
  BY Zenon DEF Dropped
<1>2. ASSUME LinkedUpTo(s, n), NEW i \in 1..m, NEW j \in 1..m, i < j, t[i].write, t[j].write,
             \A k \in (i + 1)..(j - 1) : ~t[k].write
      PROVE  t[j].prev = t[i].rev
  <2>1. /\ i + 1 \in 1..n /\ j + 1 \in 1..n /\ i + 1 < j + 1
        /\ t[i] = s[i + 1] /\ t[j] = s[j + 1]
    BY <1>1, <1>2
  <2>2. ASSUME NEW k \in ((i + 1) + 1)..((j + 1) - 1) PROVE ~s[k].write
    <3>1. k - 1 \in (i + 1)..(j - 1) /\ k - 1 \in 1..m /\ (k - 1) + 1 = k
      BY <1>1, <1>2, <2>2
    <3>2. t[k - 1] = s[(k - 1) + 1]
      BY Zenon, <1>1, <3>1
    <3>3. ~t[k - 1].write
      BY Zenon, <1>2, <3>1
    <3> QED BY Zenon, <3>1, <3>2, <3>3
  <2> QED BY Zenon, <1>2, <2>1, <2>2 DEF LinkedUpTo
<1>3. ASSUME NEW x, EndsUpTo(s, n, x), NEW i \in 1..m, t[i].write,
             \A k \in (i + 1)..m : ~t[k].write
      PROVE  t[i].rev = x
  <2>1. i + 1 \in 1..n /\ t[i] = s[i + 1]
    BY <1>1
  <2>2. ASSUME NEW k \in ((i + 1) + 1)..n PROVE ~s[k].write
    <3>1. k - 1 \in (i + 1)..m /\ k - 1 \in 1..m /\ (k - 1) + 1 = k
      BY <1>1, <2>2
    <3>2. t[k - 1] = s[(k - 1) + 1]
      BY Zenon, <1>1, <3>1
    <3>3. ~t[k - 1].write
      BY Zenon, <1>3, <3>1
    <3> QED BY Zenon, <3>1, <3>2, <3>3
  <2> QED BY Zenon, <1>3, <2>1, <2>2 DEF EndsUpTo
<1> QED BY Zenon, <1>2, <1>3 DEF LinkedUpTo, EndsUpTo

\* audit/ring.go: appending an event, with the oldest falling off at the capacity.
LEMMA AppendTells ==
  ASSUME audit \in Seq(Events), NEW STATE e, e \in Events, Linked(audit),
         e.write => EndsAt(audit, e.prev)
  PROVE  /\ Append1(e) \in Seq(Events) /\ Linked(Append1(e))
         /\ \A x : (IF e.write THEN x = e.rev ELSE EndsAt(audit, x)) => EndsAt(Append1(e), x)
<1> DEFINE s == Append(audit, e)
           t == Tail(s)
<1>1. Len(audit) \in Nat
  BY Zenon, LenProperties
<1>2. /\ s \in Seq(Events) /\ s # <<>> /\ Len(s) = Len(audit) + 1
      /\ s[Len(audit) + 1] = e /\ \A i \in 1..Len(audit) : s[i] = audit[i]
  BY AppendProperties, SMTT(30)
<1>3. Append1(e) = IF Len(s) > AuditMax THEN t ELSE s
  BY Zenon DEF Append1
<1> HIDE DEF s
<1>4. /\ t \in Seq(Events) /\ Len(t) = Len(s) - 1 /\ \A i \in 1..Len(t) : t[i] = s[i + 1]
  BY Zenon, <1>2, HeadTailProperties
<1> HIDE DEF t
<1>5. Grown(s, Len(s), audit, Len(audit), e)
  BY Zenon, <1>2 DEF Grown
<1>6. Len(s) \in Nat /\ Dropped(t, Len(t), s, Len(s))
  BY Zenon, <1>2, <1>4, LenProperties DEF Dropped
<1>7. LinkedUpTo(s, Len(s))
  <2>1. LinkedUpTo(audit, Len(audit))
    BY Zenon DEF Linked, LinkedUpTo
  <2>2. e.write => EndsUpTo(audit, Len(audit), e.prev)
    BY Zenon DEF EndsAt, EndsUpTo
  <2> QED BY Zenon, <1>1, <1>5, <2>1, <2>2, GrownLinked
<1>8. LinkedUpTo(t, Len(t))
  BY Zenon, <1>6, <1>7, DroppedTells
<1>9. ASSUME NEW x, IF e.write THEN x = e.rev ELSE EndsAt(audit, x)
      PROVE  EndsAt(s, x) /\ EndsAt(t, x)
  <2>1. IF e.write THEN x = e.rev ELSE EndsUpTo(audit, Len(audit), x)
    BY Zenon, <1>9 DEF EndsAt, EndsUpTo
  <2>2. EndsUpTo(s, Len(s), x)
    BY Zenon, <1>1, <1>5, <2>1, GrownEnds
  <2>3. EndsUpTo(t, Len(t), x)
    BY Zenon, <1>6, <2>2, DroppedTells
  <2> QED BY Zenon, <2>2, <2>3 DEF EndsAt, EndsUpTo
<1>10. Linked(s) /\ Linked(t)
  BY Zenon, <1>7, <1>8 DEF Linked, LinkedUpTo
<1> QED BY Zenon, <1>2, <1>3, <1>4, <1>9, <1>10

\* An event that is no write changes nothing in the history.
LEMMA OtherTells ==
  ASSUME audit \in Seq(Events), Linked(audit)
  PROVE  /\ Append1(Other) \in Seq(Events) /\ Linked(Append1(Other))
         /\ \A x : EndsAt(audit, x) => EndsAt(Append1(Other), x)
<1>1. Other \in Events /\ ~Other.write
  BY Zenon DEF Other, Events
<1> QED BY Zenon, <1>1, AppendTells

\* A cache whose results are younger than generation g.
Sound(s, g) == s \in Seq(Entries) /\ OnePerKey(s) /\ MadeAfter(s, g)

\* The entry under a key that is present.
LEMMA EntryFound ==
  ASSUME idemp \in Seq(Entries), NEW STATE k, Hits(k) # {}
  PROVE  /\ Place(k) \in 1..Len(idemp) /\ Entry(k) = idemp[Place(k)]
         /\ Entry(k) \in Entries /\ Entry(k).key = k /\ k # Nil
<1>1. Place(k) \in Hits(k)
  BY Zenon DEF Place
<1>2. Place(k) \in 1..Len(idemp) /\ Entry(k) = idemp[Place(k)] /\ Entry(k).key = k /\ k # Nil
  BY Zenon, <1>1 DEF Hits, Entry
<1> QED BY Zenon, <1>2, ElementOfSeq

\* An Apply can be replayed exactly when the entries hold a result under its key.
LEMMA ReplayableHasResult ==
  ASSUME idemp \in Seq(Entries), OnePerKey(idemp), NEW STATE r
  PROVE  Replayable(r) <=> HasResult(idemp, r.key)
<1>1. CASE Hits(r.key) = {}
  BY Zenon, <1>1 DEF Replayable, HasResult, Hits
<1>2. CASE Hits(r.key) # {}
  <2>1. /\ Place(r.key) \in 1..Len(idemp) /\ Entry(r.key) = idemp[Place(r.key)]
        /\ Entry(r.key).key = r.key /\ r.key # Nil
    BY Zenon, <1>2, EntryFound
  <2> QED BY Zenon, <1>2, <2>1 DEF Replayable, HasResult, OnePerKey
<1> QED BY Zenon, <1>1, <1>2

\* The cache operations keep the cache sound.
LEMMA PutFrontSound ==
  ASSUME NEW STATE g, Sound(idemp, g), NEW STATE e, e \in Entries, e.apply # Nil => e.apply.gen > g
  PROVE  Sound(PutFront(e), g)
<1>1. Refreshed(PutFront(e), idemp, e)
  BY Zenon, PutFrontRefreshes DEF Sound
<1> DEFINE t == PutFront(e)
<1> HIDE DEF t
<1>2. Refreshed(t, idemp, e)
  BY Zenon, <1>1 DEF t
<1>3. MadeAfter(t, g)
  BY Zenon, <1>2 DEF Sound, MadeAfter, Refreshed
<1>4. Sound(t, g)
  BY Zenon, <1>2, <1>3 DEF Sound, Refreshed
<1> QED BY Zenon, <1>4 DEF t

\* evict.
LEMMA WithoutSound ==
  ASSUME NEW STATE g, Sound(idemp, g), NEW STATE k
  PROVE  Sound(Without(k), g)
<1> DEFINE t == Without(k)
<1>1. Drawn(t, idemp, k)
  BY Zenon, WithoutDraws DEF Sound
<1> HIDE DEF t
<1>2. Sound(t, g)
  BY Zenon, <1>1 DEF Sound, MadeAfter, Drawn
<1> QED BY Zenon, <1>2 DEF t

\* lookup: nothing but the order changes.
LEMMA TouchedSound ==
  ASSUME NEW STATE g, Sound(idemp, g), NEW STATE k
  PROVE  Sound(Touched(k), g) /\ (~HasResult(idemp, k) => ~HasResult(Touched(k), k))
<1>1. CASE Hits(k) = {}
  BY Zenon, <1>1 DEF Touched
<1>2. CASE Hits(k) # {}
  <2>1. /\ Place(k) \in 1..Len(idemp) /\ Entry(k) = idemp[Place(k)] /\ Entry(k) \in Entries
        /\ Entry(k).key = k /\ k # Nil
    BY Zenon, <1>2, EntryFound DEF Sound
  <2>2. Entry(k).apply # Nil => Entry(k).apply.gen > g
    BY Zenon, <2>1 DEF Sound, MadeAfter
  <2>3. Sound(PutFront(Entry(k)), g) /\ Refreshed(PutFront(Entry(k)), idemp, Entry(k))
    BY Zenon, <2>1, <2>2, PutFrontSound, PutFrontRefreshes DEF Sound
  <2>4. Touched(k) = PutFront(Entry(k))
    BY Zenon, <1>2 DEF Touched
  <2>5. ASSUME ~HasResult(idemp, k) PROVE ~HasResult(Touched(k), k)
    <3> DEFINE t == Touched(k)
               e == Entry(k)
    <3>1. Refreshed(t, idemp, e) /\ e.key = k /\ \E j \in 1..Len(idemp) : e = idemp[j]
      BY Zenon, <2>1, <2>3, <2>4
    <3> HIDE DEF t, e
    <3>2. ~HasResult(t, k)
      BY Zenon, <2>5, <3>1 DEF Refreshed, HasResult
    <3> QED BY Zenon, <3>2 DEF t
  <2> QED BY Zenon, <2>3, <2>4, <2>5
<1> QED BY Zenon, <1>1, <1>2

\* The entry that storePlan and storeApply write to.
LEMMA OwnEntrySound ==
  ASSUME NEW STATE g, Sound(idemp, g), NEW STATE r, r.key \in Keys, NEW STATE o, o \in Contents \cup {Bad}
  PROVE  OwnEntry(r, o) \in Entries /\ (OwnEntry(r, o).apply # Nil => OwnEntry(r, o).apply.gen > g)
<1>1. CASE Hits(r.key) # {} /\ Entry(r.key).fp = o
  <2>1. /\ Place(r.key) \in 1..Len(idemp) /\ Entry(r.key) = idemp[Place(r.key)]
        /\ Entry(r.key) \in Entries
    BY Zenon, <1>1, EntryFound DEF Sound
  <2>2. OwnEntry(r, o) = Entry(r.key)
    BY Zenon, <1>1 DEF OwnEntry
  <2> QED BY Zenon, <2>1, <2>2 DEF Sound, MadeAfter
<1>2. CASE ~(Hits(r.key) # {} /\ Entry(r.key).fp = o)
  <2> DEFINE e == [key |-> r.key, fp |-> o, plan |-> Nil, apply |-> Nil]
  <2>1. OwnEntry(r, o) = e
    BY Zenon, <1>2 DEF OwnEntry
  <2>2. e \in Entries /\ e.apply = Nil
    BY Zenon DEF Entries
  <2> HIDE DEF e
  <2> QED BY Zenon, <2>1, <2>2
<1> QED BY Zenon, <1>1, <1>2

\* storePlan.
LEMMA StorePlanSound ==
  ASSUME NEW STATE g, Sound(idemp, g), NEW STATE r, r.key \in Keys \cup {Nil},
         NEW STATE o, o \in Contents \cup {Bad}, NEW STATE rev, rev \in Contents
  PROVE  Sound(StorePlan(r, o, rev), g)
<1>1. CASE r.key = Nil
  BY Zenon, <1>1 DEF StorePlan
<1>2. CASE r.key # Nil
  <2> DEFINE w == OwnEntry(r, o)
             e == [w EXCEPT !.plan = rev]
  <2>1. w \in Entries /\ (w.apply # Nil => w.apply.gen > g)
    BY Zenon, <1>2, OwnEntrySound
  <2>2. StorePlan(r, o, rev) = PutFront(e)
    BY Zenon, <1>2 DEF StorePlan
  <2> HIDE DEF w
  <2>3. e \in Entries /\ e.apply = w.apply
    BY Zenon, <2>1 DEF Entries
  <2> HIDE DEF e
  <2> QED BY Zenon, <2>1, <2>2, <2>3, PutFrontSound
<1> QED BY Zenon, <1>1, <1>2

\* storeApply, with a result that is young enough.
LEMMA StoreApplySound ==
  ASSUME NEW STATE g, Sound(idemp, g), NEW STATE r, r.key \in Keys \cup {Nil},
         NEW STATE o, o \in Contents \cup {Bad},
         NEW STATE result, result \in [rev : Contents, gen : Nat], result.gen > g
  PROVE  Sound(StoreApply(r, o, result), g)
<1>1. CASE r.key = Nil
  BY Zenon, <1>1 DEF StoreApply
<1>2. CASE r.key # Nil
  <2> DEFINE w == OwnEntry(r, o)
             e == [w EXCEPT !.apply = result]
  <2>1. w \in Entries
    BY Zenon, <1>2, OwnEntrySound
  <2>2. StoreApply(r, o, result) = PutFront(e)
    BY Zenon, <1>2 DEF StoreApply
  <2> HIDE DEF w
  <2>3. e \in Entries /\ e.apply = result
    BY Zenon, <2>1 DEF Entries
  <2> HIDE DEF e
  <2> QED BY Zenon, <2>2, <2>3, PutFrontSound
<1> QED BY Zenon, <1>1, <1>2

\* What serveFromConfig starts from: nothing is recorded.
LEMMA InitRecorded == Init => Recorded
<1> SUFFICES ASSUME Init PROVE Recorded
  BY Zenon
<1>0. PICK b \in Contents : active = [gen |-> 0, content |-> b, off |-> FALSE, boot |-> b]
  BY Zenon DEF Init
<1>1. active.gen = 0 /\ cleared = 0 /\ idemp = <<>> /\ audit = <<>>
  BY Zenon, <1>0 DEF Init
<1>2. \A c \in Clients : pc[c] = "idle"
  BY Zenon DEF Init
<1>3. \A c \in Clients : Records(c)
  BY Zenon, <1>2 DEF Records, Holding
<1>4. idemp \in Seq(Entries) /\ audit \in Seq(Events) /\ Len(idemp) = 0 /\ Len(audit) = 0
  BY Zenon, <1>1, EmptySeq
<1>5. cleared \in Nat /\ cleared <= active.gen
  BY <1>1
<1>6. \A i : i \notin 1..0
  OBVIOUS
<1>7. OnePerKey(idemp) /\ MadeAfter(idemp, cleared) /\ Linked(audit) /\ EndsAt(audit, active.content)
  BY Zenon, <1>4, <1>6 DEF OnePerKey, MadeAfter, Linked, EndsAt
<1> QED BY Zenon, <1>3, <1>4, <1>5, <1>7 DEF Recorded

\* The steps that are no part of a write: each call stays where it is or is
\* outside the lock; the cache changes only while nobody holds App.mu, and the
\* audit ring keeps its history.
LEMMA BesideWrites ==
  ASSUME Serialised, Recorded,
         \A d \in Clients :
            \/ /\ pc'[d] = pc[d] /\ req'[d] = req[d] /\ op'[d] = op[d] /\ was'[d] = was[d]
               /\ got'[d] = got[d]
            \/ /\ ~Holding(d) /\ pc'[d] \notin {"clear", "swap", "load", "finish"}
               /\ pc'[d] = "call" => req'[d].key \in Keys \cup {Nil},
         idemp' = idemp \/ (mu = Nil /\ Sound(idemp', cleared)),
         audit' \in Seq(Events), Linked(audit'), \A x : EndsAt(audit, x) => EndsAt(audit', x),
         cleared' = cleared, active'.gen \in Nat, active'.gen >= active.gen,
         active'.content = active.content
  PROVE  Recorded'
<1>1. ASSUME NEW d \in Clients PROVE Records(d)'
  <2>1. CASE pc'[d] \notin {"clear", "swap", "load", "finish"} /\ ~(pc'[d] = pc[d] /\ req'[d] = req[d])
    BY Zenon, <2>1 DEF Records, Holding
  <2>2. CASE pc'[d] = "call" /\ pc[d] = "call" /\ req'[d] = req[d]
    BY Zenon, <2>2 DEF Records, Recorded, Holding
  <2>3. CASE pc'[d] \notin {"call", "clear", "swap", "load", "finish"}
    BY Zenon, <2>3 DEF Records, Holding
  <2>4. CASE /\ pc'[d] \in {"clear", "swap", "load", "finish"} /\ pc'[d] = pc[d] /\ req'[d] = req[d]
             /\ op'[d] = op[d] /\ was'[d] = was[d] /\ got'[d] = got[d]
    <3>1. Holding(d) /\ mu = d /\ mu # Nil
      BY Zenon, <2>4, NilAssumption DEF Holding, Serialised
    <3>2. idemp' = idemp
      BY Zenon, <3>1
    <3>3. active.gen > cleared => active'.gen > cleared'
      BY DEF Recorded, Serialised, Typed, Snapshots
    <3>4. Records(d)
      BY Zenon DEF Recorded
    <3> QED BY Zenon, <2>4, <3>2, <3>3, <3>4 DEF Records, Holding
  <2> QED BY Zenon, <2>1, <2>2, <2>3, <2>4
<1>2. idemp' \in Seq(Entries) /\ OnePerKey(idemp') /\ MadeAfter(idemp', cleared')
  BY Zenon DEF Recorded, Sound
<1>3. cleared' \in Nat /\ cleared' <= active'.gen
  BY DEF Recorded, Serialised, Typed, Snapshots
<1>4. ASSUME \A d \in Clients : pc'[d] \notin {"load", "finish"} PROVE EndsAt(audit', active'.content)
  <2>1. \A d \in Clients : pc[d] \notin {"load", "finish"}
    BY Zenon, <1>4 DEF Holding
  <2> QED BY Zenon, <2>1 DEF Recorded
<1> QED BY Zenon, <1>1, <1>2, <1>3, <1>4 DEF Recorded

\* A call that returns without having held App.mu.
LEMMA ReturnRecorded ==
  ASSUME Serialised, Recorded, NEW c \in Clients, ~Holding(c), NEW s, Return(c, s),
         UNCHANGED <<storeVars, cleared>>,
         idemp' = idemp \/ (mu = Nil /\ Sound(idemp', cleared)),
         audit' = audit \/ audit' = Append1(Other)
  PROVE  Recorded'
<1>1. pc'[c] = "idle"
  BY Zenon DEF Return, Serialised, Typed
<1>2. \A d \in Clients \ {c} : /\ pc'[d] = pc[d] /\ req'[d] = req[d] /\ op'[d] = op[d]
                               /\ was'[d] = was[d] /\ got'[d] = got[d]
  BY Zenon DEF Return, Serialised, Typed
<1>3. audit' \in Seq(Events) /\ Linked(audit') /\ \A x : EndsAt(audit, x) => EndsAt(audit', x)
  <2>1. CASE audit' = audit
    BY Zenon, <2>1 DEF Recorded
  <2>2. CASE audit' = Append1(Other)
    BY Zenon, <2>2, OtherTells DEF Recorded
  <2> QED BY Zenon, <2>1, <2>2
<1>4. active' = active /\ active'.gen \in Nat /\ active'.gen >= active.gen
  BY DEF storeVars, Serialised, Typed, Snapshots
<1>5. \A d \in Clients :
         \/ /\ pc'[d] = pc[d] /\ req'[d] = req[d] /\ op'[d] = op[d] /\ was'[d] = was[d]
            /\ got'[d] = got[d]
         \/ /\ ~Holding(d) /\ pc'[d] \notin {"clear", "swap", "load", "finish"}
            /\ pc'[d] = "call" => req'[d].key \in Keys \cup {Nil}
  BY Zenon, <1>1, <1>2
<1> QED BY Zenon, <1>3, <1>4, <1>5, BesideWrites

\* Nobody else is inside a write.
LEMMA OthersOutside ==
  ASSUME Serialised, NEW c \in Clients, mu = Nil \/ Holding(c)
  PROVE  \A d \in Clients \ {c} : pc[d] \notin {"clear", "swap", "load", "finish"}
BY Zenon, NilAssumption DEF Serialised, Holding

\* A call takes App.mu, with a key that has no result.
LEMMA AcquireRecorded ==
  ASSUME Serialised, Recorded, NEW c \in Clients, mu = Nil,
         pc' = [pc EXCEPT ![c] = pc'[c]], pc'[c] \in {"clear", "swap"},
         req'[c].kind # "reset" => req'[c].key \in Keys \cup {Nil} /\ op'[c] \in Contents,
         \A d \in Clients \ {c} : req'[d] = req[d],
         Sound(idemp', cleared), ~HasResult(idemp', req'[c].key),
         UNCHANGED <<storeVars, audit, cleared>>
  PROVE  Recorded'
<1>1. \A d \in Clients \ {c} : pc'[d] = pc[d] /\ pc'[d] \notin {"clear", "swap", "load", "finish"}
  BY Zenon, OthersOutside DEF Serialised, Typed
<1>2. active' = active
  BY Zenon DEF storeVars
<1>3. Records(c)'
  BY Zenon DEF Records, Holding
<1>4. ASSUME NEW d \in Clients \ {c} PROVE Records(d)'
  <2>1. Records(d)
    BY Zenon DEF Recorded
  <2> QED BY Zenon, <1>1, <2>1 DEF Records, Holding
<1>5. \A d \in Clients : pc[d] \notin {"load", "finish"}
  BY Zenon, NilAssumption DEF Serialised, Holding
<1>6. EndsAt(audit', active'.content)
  BY Zenon, <1>2, <1>5 DEF Recorded
<1> QED BY Zenon, <1>2, <1>3, <1>4, <1>6 DEF Recorded, Sound

\* Plan: the cache is touched, evicted from or given a plan.
LEMMA PlanRecorded ==
  ASSUME Serialised, Recorded, NEW c \in Clients, NEW r \in Requests({"plan"}), Plan(c, r)
  PROVE  Recorded'
<1>1. r.key \in Keys \cup {Nil} /\ r.arg \in Contents \cup {Bad}
  <2>1. r \in [kind : {"plan"}, key : Keys \cup {Nil}, rev : Contents \cup {Nil}, arg : Args("plan")]
    BY Zenon DEF Requests
  <2> QED BY Zenon, <2>1 DEF Args, Activations
<1>2. Sound(idemp, cleared)
  BY Zenon DEF Recorded, Sound
<1>3. Sound(Touched(r.key), cleared) /\ Sound(Without(r.key), cleared)
  BY Zenon, <1>2, TouchedSound, WithoutSound
<1>4. Sound(StorePlan(r, r.arg, active.content), cleared)
  <2>1. active.content \in Contents
    BY Zenon DEF Serialised, Typed, Snapshots
  <2> QED BY Zenon, <1>1, <1>2, <2>1, StorePlanSound
<1>5. ~Holding(c) /\ mu = Nil /\ UNCHANGED <<storeVars, cleared>> /\ audit' = audit
  BY Zenon DEF Plan, Idle, Holding
<1>6. Sound(idemp', cleared) /\ \E s : Return(c, s)
  BY Zenon, <1>2, <1>3, <1>4 DEF Plan, RejectRevision
<1> QED BY Zenon, <1>5, <1>6, ReturnRecorded

\* Apply up to the Swap: it goes on only with a key that cannot be replayed.
LEMMA ApplyRecorded ==
  ASSUME Serialised, Recorded, NEW c \in Clients, ~Holding(c), NEW STATE r, NEW STATE o,
         r.key \in Keys \cup {Nil}, o \in Contents \cup {Bad}, ApplyLocked(c, r, o)
  PROVE  Recorded'
<1>1. Sound(idemp, cleared)
  BY Zenon DEF Recorded, Sound
<1>2. /\ Sound(Touched(r.key), cleared) /\ Sound(Without(r.key), cleared)
      /\ ~HasResult(idemp, r.key) => ~HasResult(Touched(r.key), r.key)
  BY Zenon, <1>1, TouchedSound, WithoutSound
<1>3. mu = Nil /\ UNCHANGED <<storeVars, cleared>> /\ audit' = audit
  BY Zenon DEF ApplyLocked
<1>4. ASSUME NEW s, Return(c, s), Sound(idemp', cleared) PROVE Recorded'
  BY Zenon, <1>3, <1>4, ReturnRecorded
<1>5. ASSUME ~Replayable(r), o # Bad, idemp' = Touched(r.key),
             req' = [req EXCEPT ![c] = r], op' = [op EXCEPT ![c] = o], Goto(c, "swap")
      PROVE  Recorded'
  <2>1. ~HasResult(idemp', r.key)
    <3>1. ~HasResult(idemp, r.key)
      BY Zenon, <1>5, ReplayableHasResult DEF Recorded
    <3> QED BY Zenon, <1>2, <1>5, <3>1
  <2>2. req'[c] = r /\ op'[c] = o /\ \A d \in Clients \ {c} : req'[d] = req[d]
    BY Zenon, <1>5 DEF Serialised, Typed
  <2>3. pc'[c] = "swap" /\ pc' = [pc EXCEPT ![c] = pc'[c]]
    BY Zenon, <1>5 DEF Serialised, Typed, Goto
  <2>4. Sound(idemp', cleared)
    BY Zenon, <1>2, <1>5
  <2>5. req'[c].kind # "reset" => req'[c].key \in Keys \cup {Nil} /\ op'[c] \in Contents
    BY Zenon, <1>5, <2>2
  <2>6. pc'[c] \in {"clear", "swap"} /\ ~HasResult(idemp', req'[c].key)
    BY Zenon, <2>1, <2>2, <2>3
  <2>7. UNCHANGED <<storeVars, audit, cleared>>
    BY Zenon, <1>3
  <2> QED BY Zenon, <1>3, <2>2, <2>3, <2>4, <2>5, <2>6, <2>7, AcquireRecorded
<1> QED BY Zenon, <1>1, <1>2, <1>4, <1>5 DEF ApplyLocked, RejectRevision

\* Reset up to the clearing of the emergency bit: it has no key.
LEMMA ResetRecorded ==
  ASSUME Serialised, Recorded, NEW c \in Clients, Reset(c)
  PROVE  Recorded'
<1> DEFINE file == IF mount = Unset THEN boot ELSE mount
<1>1. ~Holding(c) /\ mu = Nil /\ UNCHANGED <<storeVars, idemp, audit, cleared>>
  BY Zenon DEF Reset, Idle, Holding
<1>2. CASE file = Missing
  BY Zenon, <1>1, <1>2, ReturnRecorded DEF Reset
<1>3. CASE file # Missing
  <2>1. req'[c] = [kind |-> "reset", key |-> Nil, rev |-> Nil, arg |-> Nil]
        /\ \A d \in Clients \ {c} : req'[d] = req[d]
    BY Zenon, <1>3 DEF Reset, Serialised, Typed
  <2>2. pc'[c] = "clear" /\ pc' = [pc EXCEPT ![c] = pc'[c]]
    BY Zenon, <1>3 DEF Reset, Serialised, Typed, Goto
  <2>3. req'[c].kind = "reset" /\ req'[c].key = Nil
    BY <2>1
  <2>4. Sound(idemp', cleared) /\ ~HasResult(idemp', req'[c].key)
    BY Zenon, <1>1, <2>3 DEF Recorded, Sound, HasResult
  <2> QED BY Zenon, <1>1, <2>1, <2>2, <2>3, <2>4, AcquireRecorded
<1> QED BY Zenon, <1>2, <1>3

\* The steps of a write between taking App.mu and recording the result.
LEMMA WriteRecorded ==
  ASSUME Serialised, Recorded, NEW c \in Clients, ClearEmergency(c) \/ Swap(c) \/ Load(c)
  PROVE  Recorded'
<1>1. /\ Holding(c) /\ Records(c) /\ pc' = [pc EXCEPT ![c] = pc'[c]]
      /\ UNCHANGED <<idemp, audit, cleared, req, op>>
  BY Zenon DEF ClearEmergency, Swap, Load, Goto, Holding, appVars, locals, Recorded, Serialised, Typed
<1>2. \A d \in Clients \ {c} : pc'[d] = pc[d] /\ pc'[d] \notin {"clear", "swap", "load", "finish"}
  BY Zenon, <1>1, OthersOutside DEF Serialised, Typed
<1>3. ASSUME NEW d \in Clients \ {c} PROVE Records(d)'
  <2>1. Records(d)
    BY Zenon DEF Recorded
  <2> QED BY Zenon, <1>1, <1>2, <2>1 DEF Records, Holding
<1>4. ASSUME cleared' \in Nat, cleared' <= active'.gen, Records(c)',
             pc'[c] \notin {"load", "finish"} => EndsAt(audit', active'.content)
      PROVE  Recorded'
  BY Zenon, <1>1, <1>2, <1>3, <1>4 DEF Recorded
<1>5. CASE ClearEmergency(c)
  <2>1. pc[c] = "clear" /\ pc'[c] = "swap" /\ active' = active
    BY Zenon, <1>5 DEF ClearEmergency, Goto, Serialised, Typed
  <2>2. Records(c)'
    BY Zenon, <1>1, <2>1 DEF Records, Holding
  <2>3. \A d \in Clients : pc[d] \notin {"load", "finish"}
    BY Zenon, <1>2, <2>1 DEF Serialised, Typed
  <2>4. EndsAt(audit', active'.content)
    BY Zenon, <1>1, <2>1, <2>3 DEF Recorded
  <2> QED BY Zenon, <1>1, <1>4, <2>1, <2>2, <2>4 DEF Recorded
<1>6. CASE Swap(c)
  <2>1. pc[c] = "swap" /\ pc'[c] = "load" /\ was'[c] = active.content
    BY Zenon, <1>6 DEF Swap, Goto, Serialised, Typed
  <2>2. active.content \in Contents
    BY Zenon DEF Serialised, Typed, Snapshots
  <2>3. \A d \in Clients : pc[d] \notin {"load", "finish"}
    BY Zenon, <1>2, <2>1 DEF Serialised, Typed
  <2>4. EndsAt(audit, active.content)
    BY Zenon, <2>3 DEF Recorded
  <2>5. active'.gen > active.gen
    <3>1. cand[c] \in Candidates /\ active \in Snapshots
      BY Zenon, <2>1 DEF Prepared, Serialised, Typed
    <3>2. active'.gen = IF cand[c].gen <= active.gen THEN active.gen + 1 ELSE cand[c].gen
      BY Zenon, <1>6 DEF Swap
    <3> QED BY <3>1, <3>2 DEF Candidates, Snapshots
  <2>6. active'.gen > cleared /\ cleared <= active'.gen /\ cleared \in Nat
    <3>1. cleared \in Nat /\ cleared <= active.gen /\ active.gen \in Nat
      BY Zenon DEF Recorded, Serialised, Typed, Snapshots
    <3>2. active'.gen \in Nat
      <4>1. cand[c].gen \in Nat
        BY Zenon, <2>1 DEF Prepared, Serialised, Candidates
      <4>2. active'.gen = IF cand[c].gen <= active.gen THEN active.gen + 1 ELSE cand[c].gen
        BY Zenon, <1>6 DEF Swap
      <4> QED BY <3>1, <4>1, <4>2
    <3> QED BY <2>5, <3>1, <3>2
  <2>7. Records(c)'
    BY Zenon, <1>1, <2>1, <2>2, <2>4, <2>6 DEF Records, Holding
  <2> QED BY Zenon, <1>1, <1>4, <2>1, <2>6, <2>7
<1>7. CASE Load(c)
  <2>1. pc[c] = "load" /\ pc'[c] = "finish" /\ got'[c] = active /\ active' = active /\ was' = was
    BY Zenon, <1>7 DEF Load, Goto, Serialised, Typed, storeVars
  <2>2. Records(c)'
    BY Zenon, <1>1, <2>1 DEF Records, Holding
  <2> QED BY Zenon, <1>1, <1>4, <2>1, <2>2 DEF Recorded
<1> QED BY Zenon, <1>5, <1>6, <1>7

\* The end of a write: its event continues the history.
LEMMA FinishRecorded ==
  ASSUME Serialised, Recorded, NEW c \in Clients, pc[c] = "finish", NEW s, Return(c, s),
         audit' = Append1(Written(c)), Sound(idemp', cleared'),
         cleared' = cleared \/ cleared' = got[c].gen, active' = active
  PROVE  Recorded'
<1>1. Holding(c) /\ Records(c)
  BY Zenon DEF Holding, Recorded
<1>2. /\ pc'[c] = "idle"
      /\ \A d \in Clients \ {c} : pc'[d] = pc[d] /\ req'[d] = req[d]
                                  /\ pc'[d] \notin {"clear", "swap", "load", "finish"}
  BY Zenon, <1>1, OthersOutside DEF Return, Serialised, Typed
<1>3. \A d \in Clients : Records(d)'
  <2>1. ASSUME NEW d \in Clients \ {c} PROVE Records(d)'
    <3>1. Records(d)
      BY Zenon DEF Recorded
    <3> QED BY Zenon, <1>2, <3>1 DEF Records, Holding
  <2>2. Records(c)'
    BY Zenon, <1>2 DEF Records, Holding
  <2> QED BY Zenon, <2>1, <2>2
<1>4. PICK g \in 0..active.gen : Swapped(c, g)
  BY Zenon DEF Serialised
<1>5. /\ got[c] \in Snapshots /\ got[c].content = active.content
      /\ got[c].gen <= active.gen
  BY Zenon, <1>4 DEF Swapped
<1>6. cleared' \in Nat /\ cleared' <= active'.gen
  <2>1. got[c].gen \in Nat
    BY Zenon, <1>5 DEF Snapshots
  <2> QED BY Zenon, <1>5, <2>1 DEF Recorded
<1>7. audit' \in Seq(Events) /\ Linked(audit') /\ EndsAt(audit', active'.content)
  <2> DEFINE e == Written(c)
  <2>1. e = [write |-> TRUE, rev |-> got[c].content, prev |-> was[c]]
    BY Zenon DEF Written
  <2> HIDE DEF e
  <2>2. e.write /\ e.rev = active.content /\ e.prev = was[c]
    BY Zenon, <1>5, <2>1
  <2>3. got[c].content \in Contents /\ was[c] \in Contents /\ EndsAt(audit, was[c])
    BY Zenon, <1>1, <1>5 DEF Snapshots, Records, Holding
  <2>4. e \in Events
    BY Zenon, <2>1, <2>3 DEF Events
  <2>5. EndsAt(audit, e.prev)
    BY Zenon, <2>2, <2>3
  <2>6. Append1(e) \in Seq(Events) /\ Linked(Append1(e)) /\ EndsAt(Append1(e), active.content)
    BY Zenon, <2>2, <2>4, <2>5, AppendTells DEF Recorded
  <2> QED BY Zenon, <2>6 DEF e
<1> QED BY Zenon, <1>3, <1>6, <1>7 DEF Recorded, Sound

\* Apply stores its result, Reset empties the cache.
LEMMA FinishesRecorded ==
  ASSUME Serialised, Recorded, NEW c \in Clients, FinishApply(c) \/ FinishReset(c)
  PROVE  Recorded'
<1>1. pc[c] = "finish" /\ Records(c)
  BY Zenon DEF FinishApply, FinishReset, Recorded
<1>2. PICK g \in 0..active.gen : Swapped(c, g)
  BY Zenon, <1>1 DEF Serialised
<1>3. got[c] \in Snapshots
  BY Zenon, <1>1, <1>2 DEF Swapped
<1>4. CASE FinishApply(c)
  <2> DEFINE res == Result(c)
  <2>1. res \in [rev : Contents, gen : Nat] /\ res.gen = got[c].gen
    BY Zenon, <1>3 DEF Result, Snapshots
  <2>2. res.gen > cleared /\ op[c] \in Contents \cup {Bad} /\ req[c].key \in Keys \cup {Nil}
    BY Zenon, <1>1, <1>4, <2>1 DEF Records, Holding, FinishApply
  <2>3. Sound(idemp, cleared)
    BY Zenon DEF Recorded, Sound
  <2>4. idemp' = StoreApply(req[c], op[c], res) /\ cleared' = cleared /\ active' = active
        /\ audit' = Append1(Written(c)) /\ Return(c, "ok")
    BY Zenon, <1>4 DEF FinishApply, storeVars
  <2> HIDE DEF res
  <2>5. Sound(idemp', cleared')
    BY Zenon, <2>1, <2>2, <2>3, <2>4, StoreApplySound
  <2> QED BY Zenon, <1>1, <2>4, <2>5, FinishRecorded
<1>5. CASE FinishReset(c)
  <2>1. idemp' = <<>> /\ cleared' = got[c].gen /\ active' = active
        /\ audit' = Append1(Written(c)) /\ Return(c, "ok")
    BY Zenon, <1>5 DEF FinishReset
  <2>2. idemp' \in Seq(Entries) /\ Len(idemp') = 0
    BY Zenon, <2>1, EmptySeq
  <2>3. \A i : i \notin 1..0
    OBVIOUS
  <2>4. Sound(idemp', cleared')
    BY Zenon, <2>2, <2>3 DEF Sound, OnePerKey, MadeAfter
  <2> QED BY Zenon, <1>1, <2>1, <2>4, FinishRecorded
<1> QED BY Zenon, <1>4, <1>5

\* Every step keeps what the writes recorded.
LEMMA NextRecorded == Serialised /\ Recorded /\ [Next]_vars => Recorded'
<1> SUFFICES ASSUME Serialised, Recorded, [Next]_vars PROVE Recorded'
  BY Zenon
<1>0. /\ active.gen \in Nat /\ active.gen >= active.gen
      /\ audit \in Seq(Events) /\ Linked(audit) /\ \A x : EndsAt(audit, x) => EndsAt(audit, x)
  BY DEF Serialised, Typed, Snapshots, Recorded
<1>1. ASSUME UNCHANGED <<idemp, audit, cleared>>, NEW c \in Clients,
             ~Holding(c), pc'[c] \notin {"clear", "swap", "load", "finish"},
             pc'[c] = "call" => req'[c].key \in Keys \cup {Nil},
             \A d \in Clients \ {c} : /\ pc'[d] = pc[d] /\ req'[d] = req[d] /\ op'[d] = op[d]
                                      /\ was'[d] = was[d] /\ got'[d] = got[d],
             active'.gen \in Nat, active'.gen >= active.gen, active'.content = active.content
      PROVE  Recorded'
  <2>1. audit' \in Seq(Events) /\ Linked(audit') /\ \A x : EndsAt(audit, x) => EndsAt(audit', x)
    BY Zenon, <1>0, <1>1
  <2>2. \A d \in Clients :
         \/ /\ pc'[d] = pc[d] /\ req'[d] = req[d] /\ op'[d] = op[d] /\ was'[d] = was[d]
            /\ got'[d] = got[d]
         \/ /\ ~Holding(d) /\ pc'[d] \notin {"clear", "swap", "load", "finish"}
            /\ pc'[d] = "call" => req'[d].key \in Keys \cup {Nil}
    BY Zenon, <1>1
  <2> QED BY Zenon, <1>1, <2>1, <2>2, BesideWrites
<1>2. ASSUME NEW c \in Clients, Start(c) PROVE Recorded'
  <2>1. CASE Deny(c)
    <3>1. ~Holding(c)
      BY Zenon, <2>1 DEF Deny, Idle, Holding
    <3>2. idemp' = idemp \/ (mu = Nil /\ Sound(idemp', cleared))
      <4>1. ASSUME NEW k \in Keys, idemp' = Touched(k) PROVE Sound(idemp', cleared)
        <5>1. Sound(idemp, cleared) BY Zenon DEF Recorded, Sound
        <5>2. Sound(Touched(k), cleared) BY Zenon, <5>1, TouchedSound
        <5> QED BY Zenon, <4>1, <5>2
      <4> QED BY Zenon, <2>1, <4>1 DEF Deny
    <3> QED BY Zenon, <2>1, <3>1, <3>2, ReturnRecorded DEF Deny
  <2>2. ASSUME NEW r \in Requests({"plan"}), Plan(c, r) PROVE Recorded'
    BY Zenon, <2>2, PlanRecorded
  <2>3. ASSUME NEW r \in Requests({"apply"}), Apply(c, r) PROVE Recorded'
    <3>1. ~Holding(c) /\ ApplyLocked(c, r, r.arg)
      BY Zenon, <2>3 DEF Apply, Idle, Holding
    <3>2. r.key \in Keys \cup {Nil} /\ r.arg \in Contents \cup {Bad}
      <4>1. r \in [kind : {"apply"}, key : Keys \cup {Nil}, rev : Contents \cup {Nil},
                   arg : Args("apply")]
        BY Zenon DEF Requests
      <4> QED BY Zenon, <4>1 DEF Args, Activations
    <3> QED BY Zenon, <3>1, <3>2, ApplyRecorded
  <2>4. ASSUME NEW r \in Requests(Activations), ReadActivation(c, r) PROVE Recorded'
    <3>1. PICK k \in Activations : r \in [kind : {k}, key : Keys \cup {Nil},
                                          rev : Contents \cup {Nil}, arg : Args(k)]
      BY Zenon DEF Requests
    <3>2. r.key \in Keys \cup {Nil}
      BY Zenon, <3>1
    <3>3. /\ ~Holding(c) /\ pc'[c] = "call" /\ req'[c] = r /\ active' = active
          /\ UNCHANGED <<idemp, audit, cleared, was, got>>
          /\ \A d \in Clients \ {c} : pc'[d] = pc[d] /\ req'[d] = req[d] /\ op'[d] = op[d]
      BY Zenon, <2>4 DEF ReadActivation, Idle, Holding, Goto, storeVars, appVars, Serialised, Typed
    <3>4. active'.gen \in Nat /\ active'.gen >= active.gen /\ active'.content = active.content
      BY Zenon, <1>0, <3>3
    <3>5. pc'[c] = "call" => req'[c].key \in Keys \cup {Nil}
      BY Zenon, <3>2, <3>3
    <3> QED BY Zenon, <1>1, <3>3, <3>4, <3>5
  <2>5. CASE Reset(c)
    BY Zenon, <2>5, ResetRecorded
  <2>6. ASSUME NEW kind \in {"disable", "enable"}, EmergencyEnter(c, kind) PROVE Recorded'
    <3>1. /\ ~Holding(c) /\ pc'[c] = "bit" /\ active' = active
          /\ UNCHANGED <<idemp, audit, cleared, op, was, got>>
          /\ \A d \in Clients \ {c} : pc'[d] = pc[d] /\ req'[d] = req[d]
      BY Zenon, <2>6 DEF EmergencyEnter, Idle, Holding, Goto, storeVars, appVars, Serialised, Typed
    <3>2. active'.gen \in Nat /\ active'.gen >= active.gen /\ active'.content = active.content
      BY Zenon, <1>0, <3>1
    <3> QED BY Zenon, <1>1, <3>1, <3>2
  <2> QED BY Zenon, <1>2, <2>1, <2>2, <2>3, <2>4, <2>5, <2>6 DEF Start
<1>3. ASSUME NEW c \in Clients, Proceed(c) PROVE Recorded'
  <2>1. CASE ApplyActivation(c)
    <3>1. /\ ~Holding(c) /\ op[c] \in Contents \cup {Bad} /\ req[c].key \in Keys \cup {Nil}
          /\ ApplyLocked(c, req[c], op[c])
      BY Zenon, <2>1 DEF ApplyActivation, Holding, Serialised, Typed, Recorded, Records
    <3> QED BY Zenon, <3>1, ApplyRecorded
  <2>2. CASE ClearEmergency(c) \/ Swap(c) \/ Load(c)
    BY Zenon, <2>2, WriteRecorded
  <2>3. CASE FinishApply(c) \/ FinishReset(c)
    BY Zenon, <2>3, FinishesRecorded
  <2>4. CASE SetEmergency(c)
    <3>1. /\ ~Holding(c) /\ pc'[c] = "stamp" /\ active' = active
          /\ UNCHANGED <<idemp, audit, cleared, req, op, was, got>>
          /\ \A d \in Clients \ {c} : pc'[d] = pc[d]
      BY Zenon, <2>4 DEF SetEmergency, Holding, Goto, appVars, locals, Serialised, Typed
    <3>2. active'.gen \in Nat /\ active'.gen >= active.gen /\ active'.content = active.content
      BY Zenon, <1>0, <3>1
    <3> QED BY Zenon, <1>1, <3>1, <3>2
  <2>5. CASE StampEmergency(c)
    <3>1. /\ ~Holding(c) /\ pc'[c] = "stamped"
          /\ UNCHANGED <<idemp, audit, cleared, req, op, was, got>>
          /\ \A d \in Clients \ {c} : pc'[d] = pc[d]
      BY Zenon, <2>5 DEF StampEmergency, Holding, Goto, appVars, locals, Serialised, Typed
    <3>2. active'.gen \in Nat /\ active'.gen >= active.gen /\ active'.content = active.content
      <4>1. active \in Snapshots
        BY Zenon DEF Serialised, Typed
      <4>2. active' = active \/ (active'.gen = active.gen + 1 /\ active'.content = active.content)
        BY Zenon, <2>5, <4>1 DEF StampEmergency, Snapshots
      <4>3. active.gen \in Nat
        BY Zenon, <4>1 DEF Snapshots
      <4> QED BY <4>2, <4>3
    <3> QED BY Zenon, <1>1, <3>1, <3>2
  <2>6. CASE FinishEmergency(c)
    <3>1. ~Holding(c)
      BY Zenon, <2>6 DEF FinishEmergency, Holding
    <3> QED BY Zenon, <2>6, <3>1, ReturnRecorded DEF FinishEmergency
  <2> QED BY Zenon, <1>3, <2>1, <2>2, <2>3, <2>4, <2>5, <2>6 DEF Proceed
<1>4. ASSUME UNCHANGED <<active, idemp, audit, cleared, pc, req, op, was, got>> PROVE Recorded'
  <2>1. audit' \in Seq(Events) /\ Linked(audit') /\ \A x : EndsAt(audit, x) => EndsAt(audit', x)
    BY Zenon, <1>0, <1>4
  <2>2. active'.gen \in Nat /\ active'.gen >= active.gen /\ active'.content = active.content
    BY Zenon, <1>0, <1>4
  <2> QED BY Zenon, <1>4, <2>1, <2>2, BesideWrites
<1>5. ASSUME NEW q \in Queries, QueryLoad(q) \/ QueryObserve(q) PROVE Recorded'
  BY Zenon, <1>4, <1>5 DEF QueryLoad, QueryObserve, storeVars, appVars, locals
<1>6. CASE EditMount
  BY Zenon, <1>4, <1>6 DEF EditMount, appVars, locals
<1>7. CASE UNCHANGED vars
  BY Zenon, <1>4, <1>7 DEF vars, storeVars, appVars, locals
<1> QED BY Zenon, <1>2, <1>3, <1>5, <1>6, <1>7 DEF Next, Rest

\* What the writes leave in the idempotency cache and in the audit ring, whatever
\* runs beside them.
THEOREM WritesRecorded == Spec => []Recorded
BY InitRecorded, NextRecorded, WritesSerialised, PTL DEF Spec

\* The write events that the ring holds are one history, which ends at the
\* active revision when no write is running (audit/ring.go, mutate.go, reset.go).
THEOREM AuditHolds == Spec => []AuditTellsHistory
<1>1. Serialised /\ Recorded => AuditTellsHistory
  BY Zenon, NilAssumption DEF Serialised, Holding, Recorded, AuditTellsHistory
<1> QED BY <1>1, WritesSerialised, WritesRecorded, PTL

\* A Reset forgets every result that could be replayed, also that of a write
\* that was waiting for App.mu (idempCache.clear).
THEOREM ResetForgets == Spec => []NoReplayAcrossReset
<1>1. Recorded => NoReplayAcrossReset
  BY Zenon DEF Recorded, MadeAfter, NoReplayAcrossReset
<1> QED BY <1>1, WritesRecorded, PTL

\* Between the lookup of its key and its Swap no other call commits a change
\* under the same key (App.Apply).
THEOREM AppliedOnce == Spec => NoDoubleApply
<1>1. Serialised /\ Recorded => \A c \in Clients : Swap(c) => ~Replayable(req[c])
  BY Zenon, ReplayableHasResult DEF Recorded, Records, Swap
<1> QED BY <1>1, WritesSerialised, WritesRecorded, PTL DEF NoDoubleApply
=============================================================================
