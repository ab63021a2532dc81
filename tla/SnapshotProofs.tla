--------------------------- MODULE SnapshotProofs ---------------------------
(***************************************************************************)
(* Proofs about the published snapshot.  First SnapshotStore: how threads  *)
(* replace it, for any number of threads, contents and generations.  Then  *)
(* Resolver: what a query gets from it, for all documents and queries.     *)
(***************************************************************************)
EXTENDS SnapshotStore, Resolver, WellFoundedInduction, TLAPS

-----------------------------------------------------------------------------
(* The store *)

\* The fields of snapshots and candidates.
LEMMA Fields ==
  /\ \A x \in Snapshot : /\ x.gen \in Nat /\ x.gen + 1 \in Nat /\ x.gen < x.gen + 1 /\ x.gen <= x.gen + 1 /\ x.gen <= x.gen
                         /\ x.content \in Contents /\ x.off \in BOOLEAN
  /\ \A x \in Candidate : x.gen \in Nat /\ x.content \in Contents
  /\ \A g \in Nat, c \in Contents, b \in BOOLEAN : [gen |-> g, content |-> c, off |-> b] \in Snapshot
<1>1. \A x \in Nat : x + 1 \in Nat /\ x < x + 1 /\ x <= x + 1 /\ x <= x BY SMTT(30)
<1>2. \A x \in Snapshot : x.gen \in Nat /\ x.content \in Contents /\ x.off \in BOOLEAN BY ZenonT(30) DEF Snapshot
<1>3. \A x \in Candidate : x.gen \in Nat /\ x.content \in Contents BY ZenonT(30) DEF Candidate
<1>4. \A g \in Nat, c \in Contents, b \in BOOLEAN : [gen |-> g, content |-> c, off |-> b] \in Snapshot
  BY ZenonT(30) DEF Snapshot
<1> QED BY <1>1, <1>2, <1>3, <1>4, ZenonT(30)

\* Swap numbers a candidate that is at most one ahead one past what it displaces.
LEMMA Numbered ==
  ASSUME NEW x \in Candidate, NEW y \in Snapshot
  PROVE  SwapGeneration(x, y) \in Nat /\ (x.gen <= y.gen + 1 => SwapGeneration(x, y) = y.gen + 1)
<1>1. x.gen \in Nat /\ y.gen \in Nat BY Fields, ZenonT(30)
<1> QED BY <1>1, SMTT(30) DEF SwapGeneration

\* The store serveFromConfig hands over satisfies the inductive invariant.
LEMMA InitInductive == StoreInit => Inductive
<1> SUFFICES ASSUME StoreInit PROVE Inductive
  BY ZenonT(30)
<1>1. TypeOK
  <2>1. (startup \/ Boot \in YamlOff) \in BOOLEAN
    BY ZenonT(30)
  <2>2. active \in Snapshot
    BY <2>1, ContentAssumption, ZenonT(30) DEF StoreInit, Snapshot
  <2> QED BY <2>2, ZenonT(30) DEF StoreInit, TypeOK, Operations
<1>2. \A t \in Threads : CandidateOK(t) /\ LiveOK(t) /\ NextOK(t)
  BY ZenonT(30) DEF StoreInit, CandidateOK, LiveOK, NextOK, Publishing, Uncommitted
<1>3. FlagOK(active) /\ LastDisplaced
  <2>1. active.content = Boot /\ active.off = (startup \/ Boot \in YamlOff)
    BY ZenonT(30) DEF StoreInit
  <2>2. LastDisplaced
    BY SMTT(30) DEF StoreInit, LastDisplaced
  <2> QED BY <2>1, <2>2, ZenonT(30) DEF FlagOK
<1>4. DisableOnly
  BY ZenonT(30) DEF StoreInit, DisableOnly, Want
<1> QED BY <1>1, <1>2, <1>3, <1>4, ZenonT(30) DEF Inductive

\* The steps of a thread keep every variable in its type.
LEMMA TypeStep ==
  ASSUME Inductive, NEW t \in Threads, Start(t) \/ Step(t)
  PROVE  TypeOK'
<1>a. active.gen \in Nat
  BY ZenonT(30) DEF Inductive, TypeOK, Snapshot
<1>b. \A c \in Contents : [gen |-> active.gen + 1, content |-> c] \in Candidate
  BY <1>a, SMTT(30) DEF Candidate
<1> DEFINE Shared == active \in Snapshot /\ previous \in Snapshot \cup {Nil} /\ emergency \in BOOLEAN /\ startup \in BOOLEAN
           Locals == /\ pc \in [Threads -> Operations]
                     /\ call \in [Threads -> AllCalls \cup {Nil}]
                     /\ cand \in [Threads -> Candidate \cup {Nil}]
                     /\ live \in [Threads -> Snapshot \cup {Nil}]
                     /\ next \in [Threads -> Snapshot \cup {Nil}]
                     /\ loaded \in [Threads -> Snapshot \cup {Nil}]
<1>c. Shared /\ Locals
  BY ZenonT(30) DEF Inductive, TypeOK
<1>d. ASSUME Return(t) PROVE Locals'
  BY <1>c, <1>d, ZenonT(30) DEF Return, Goto, Operations
<1>e. ASSUME AfterPublish(t) PROVE Locals'
  <2>1. ASSUME ~Return(t) PROVE Locals'
    BY <1>c, <1>e, <2>1, ZenonT(30) DEF AfterPublish, Goto, Operations
  <2> QED BY <1>d, <2>1, ZenonT(30)
<1>f. ASSUME Shared', Locals', cleared' \in BOOLEAN PROVE TypeOK'
  BY <1>f, ZenonT(30) DEF TypeOK
<1> USE DEF Inductive, TypeOK, Operations, AllCalls
<1>0. cleared' \in BOOLEAN
  BY ZenonT(30) DEF Start, StartWrite, StartEmergency, Step
<1>1. ASSUME NEW c \in Contents, NEW op \in Writes, StartWrite(t, op, c) PROVE TypeOK'
  BY <1>0, <1>b, <1>1, ZenonT(30) DEF StartWrite, Goto, shared, Writes
<1>2. ASSUME NEW op \in {"disable", "enable"}, StartEmergency(t, op) PROVE TypeOK'
  BY <1>0, <1>2, ZenonT(30) DEF StartEmergency, Goto, shared
<1>3. CASE SetEmergencyChaosOff(t)
  BY <1>0, <1>3, ZenonT(30) DEF SetEmergencyChaosOff, Goto
<1>4. CASE SwapLoad(t)
  BY <1>0, <1>4, ZenonT(30) DEF SwapLoad, Goto, shared
<1>5. CASE SwapStamp(t)
  <2>1. cand[t] \in Candidate /\ live[t] \in Snapshot
    BY <1>5, ZenonT(30) DEF SwapStamp, CandidateOK, LiveOK, Uncommitted
  <2>2. Want(cand[t].content) \in BOOLEAN
    BY ZenonT(30) DEF Want
  <2>3. [gen |-> SwapGeneration(cand[t], live[t]), content |-> cand[t].content, off |-> Want(cand[t].content)] \in Snapshot
    BY <2>1, <2>2, Numbered, Fields, ZenonT(30)
  <2> QED BY <1>0, <1>5, <2>3, ZenonT(30) DEF SwapStamp, Goto, shared
<1>6. CASE SwapCAS(t)
  <2>1. next[t] \in Snapshot
    BY <1>6, ZenonT(30) DEF SwapCAS, NextOK
  <2> QED BY <1>0, <1>6, <2>1, ZenonT(30) DEF SwapCAS, Goto
<1>7. CASE StampLoad(t)
  BY <1>0, <1>7, ZenonT(30) DEF StampLoad, Goto, shared
<1>8. CASE StampRead(t)
  <2>1. live[t] \in Snapshot
    BY <1>8, ZenonT(30) DEF StampRead, LiveOK
  <2>2. [gen |-> live[t].gen + 1, content |-> live[t].content, off |-> ~live[t].off] \in Snapshot
    <3>1. live[t].gen + 1 \in Nat /\ live[t].content \in Contents /\ (~live[t].off) \in BOOLEAN BY <2>1, Fields, ZenonT(30)
    <3> QED BY <3>1, Fields, ZenonT(30)
  <2> HIDE DEF Inductive, TypeOK, AllCalls
  <2>3. Shared'
    BY <1>8, <1>c, ZenonT(30) DEF StampRead, shared
  <2>4. ASSUME ~Return(t) PROVE Locals'
    BY <1>8, <1>c, <2>2, <2>4, ZenonT(30) DEF StampRead, Goto
  <2> QED BY <1>0, <1>d, <1>f, <2>3, <2>4, ZenonT(30)
<1>9. CASE StampCAS(t)
  <2>1. next[t] \in Snapshot
    BY <1>9, ZenonT(30) DEF StampCAS, NextOK
  <2> QED BY <1>0, <1>9, <2>1, ZenonT(30) DEF StampCAS, Goto
<1>10. CASE PublishLoad(t)
  <2> HIDE DEF Inductive, TypeOK, AllCalls
  <2>1. Shared'
    BY <1>10, <1>c, ZenonT(30) DEF PublishLoad, shared
  <2>2. ASSUME ~AfterPublish(t) PROVE Locals'
    BY <1>10, <1>c, <2>2, ZenonT(30) DEF PublishLoad, Goto
  <2> QED BY <1>0, <1>e, <1>f, <2>1, <2>2, ZenonT(30)
<1>11. CASE PublishCAS(t)
  <2>1. live[t] \in Snapshot
    BY <1>11, ZenonT(30) DEF PublishCAS, LiveOK, Publishing
  <2> HIDE DEF Inductive, TypeOK, AllCalls
  <2>2. Shared'
    BY <1>11, <1>c, <2>1, ZenonT(30) DEF PublishCAS
  <2>3. ASSUME ~AfterPublish(t) PROVE Locals'
    BY <1>11, <1>c, <2>3, ZenonT(30) DEF PublishCAS, Goto
  <2> QED BY <1>0, <1>e, <1>f, <2>2, <2>3, ZenonT(30)
<1> QED
  BY <1>1, <1>2, <1>3, <1>4, <1>5, <1>6, <1>7, <1>8, <1>9, <1>10, <1>11, ZenonT(30)
     DEF Start, Step, Writes

\* A step of one thread leaves the locals of the others alone.
LEMMA Frame ==
  ASSUME TypeOK, NEW t \in Threads, Start(t) \/ Step(t), NEW u \in Threads \ {t}
  PROVE  /\ pc'[u] = pc[u] /\ call'[u] = call[u] /\ cand'[u] = cand[u]
         /\ live'[u] = live[u] /\ next'[u] = next[u] /\ loaded'[u] = loaded[u]
<1> USE DEF TypeOK, Goto, Return
<1>1. CASE Start(t)
  BY <1>1, ZenonT(30) DEF Start, StartWrite, StartEmergency
<1>2. CASE SetEmergencyChaosOff(t) \/ SwapLoad(t) \/ SwapStamp(t) \/ SwapCAS(t)
  BY <1>2, ZenonT(30) DEF SetEmergencyChaosOff, SwapLoad, SwapStamp, SwapCAS
<1>3. CASE StampLoad(t) \/ StampRead(t) \/ StampCAS(t)
  BY <1>3, ZenonT(30) DEF StampLoad, StampRead, StampCAS
<1>4. CASE PublishLoad(t) \/ PublishCAS(t)
  BY <1>4, ZenonT(30) DEF PublishLoad, PublishCAS, AfterPublish
<1> QED BY <1>1, <1>2, <1>3, <1>4, ZenonT(30) DEF Step

\* A thread changes active only at its compare-and-swap, to the next it built
\* from the snapshot it displaces, one generation on.
LEMMA ActiveStep ==
  ASSUME Inductive, NEW t \in Threads, Start(t) \/ Step(t)
  PROVE  /\ startup' = startup
         /\ \/ active' = active
            \/ /\ pc[t] \in {"swapCAS", "stampCAS"} /\ active = live[t]
               /\ active' = next[t] /\ active' \in Snapshot
               /\ active'.gen = active.gen + 1
<1>1. CASE Start(t)
  BY <1>1, ZenonT(30) DEF Start, StartWrite, StartEmergency, shared
<1>2. CASE SetEmergencyChaosOff(t) \/ SwapLoad(t) \/ SwapStamp(t)
  BY <1>2, ZenonT(30) DEF SetEmergencyChaosOff, SwapLoad, SwapStamp, shared
<1>3. CASE SwapCAS(t)
  BY <1>3, ZenonT(30) DEF SwapCAS, Inductive, NextOK
<1>4. CASE StampLoad(t) \/ StampRead(t)
  BY <1>4, ZenonT(30) DEF StampLoad, StampRead, shared
<1>5. CASE StampCAS(t)
  BY <1>5, ZenonT(30) DEF StampCAS, Inductive, NextOK
<1>6. CASE PublishLoad(t) \/ PublishCAS(t)
  BY <1>6, ZenonT(30) DEF PublishLoad, PublishCAS, shared
<1> QED BY <1>1, <1>2, <1>3, <1>4, <1>5, <1>6, ZenonT(30) DEF Step

\* A thread's knowledge survives the steps of the others: the active
\* generation only grows and the startup lock does not change.
LEMMA OthersStep ==
  ASSUME Inductive, NEW t \in Threads, Start(t) \/ Step(t), NEW u \in Threads \ {t}
  PROVE  CandidateOK(u)' /\ LiveOK(u)' /\ NextOK(u)'
<1>1. /\ pc'[u] = pc[u] /\ call'[u] = call[u] /\ cand'[u] = cand[u]
      /\ live'[u] = live[u] /\ next'[u] = next[u] /\ loaded'[u] = loaded[u]
  BY Frame, ZenonT(30) DEF Inductive
<1>2. startup' = startup
  BY ActiveStep, ZenonT(30)
<1>3. active \in Snapshot /\ (active' = active \/ active'.gen = active.gen + 1)
  BY ActiveStep, ZenonT(30) DEF Inductive, TypeOK
<1>a. \A x \in Nat : /\ x <= active.gen => x <= active'.gen
                     /\ x < active.gen => x < active'.gen
                     /\ x <= active.gen + 1 => x <= active'.gen + 1
  <2>1. active.gen \in Nat BY <1>3, Fields, ZenonT(30)
  <2> QED BY <1>3, <2>1, SMTT(30)
<1>4. CandidateOK(u) /\ LiveOK(u) /\ NextOK(u)
  BY ZenonT(30) DEF Inductive
<1>5. CandidateOK(u)'
  <2>1. Uncommitted(u) => cand[u] \in Candidate /\ cand[u].gen \in Nat /\ cand[u].gen <= active.gen + 1
    BY <1>4, Fields, ZenonT(30) DEF CandidateOK
  <2>2. Uncommitted(u) => cand[u].gen <= active'.gen + 1
    BY <1>a, <2>1, ZenonT(30)
  <2>3. Uncommitted(u)' <=> Uncommitted(u)
    BY <1>1, ZenonT(30) DEF Uncommitted
  <2> QED BY <1>1, <1>4, <2>1, <2>2, <2>3, ZenonT(30) DEF CandidateOK
<1>6. LiveOK(u)'
  <2> DEFINE Held == pc[u] \in {"swapStamp", "swapCAS", "stampRead", "stampCAS"} \/ Publishing(u)
  <2>1. Held => live[u] \in Snapshot /\ live[u].gen \in Nat /\ live[u].gen <= active.gen
    BY <1>4, Fields, ZenonT(30) DEF LiveOK
  <2>2. Held => live[u].gen <= active'.gen /\ (live[u].gen < active.gen => live[u].gen < active'.gen)
    BY <1>a, <2>1, ZenonT(30)
  <2>3. (Publishing(u)' <=> Publishing(u)) /\ (FlagOK(live[u])' <=> FlagOK(live[u]))
    BY <1>1, <1>2, ZenonT(30) DEF Publishing, FlagOK
  <2> QED BY <1>1, <1>4, <2>1, <2>2, <2>3, ZenonT(30) DEF LiveOK
<1>7. NextOK(u)'
  BY <1>1, <1>2, <1>4, ZenonT(30) DEF NextOK, FlagOK
<1> QED BY <1>5, <1>6, <1>7, ZenonT(30)

\* A thread's own step carries its knowledge to the next label.
LEMMA OwnStep ==
  ASSUME Inductive, NEW t \in Threads, Start(t) \/ Step(t)
  PROVE  CandidateOK(t)' /\ LiveOK(t)' /\ NextOK(t)'
<1> DEFINE OK == CandidateOK(t) /\ LiveOK(t) /\ NextOK(t)
<1> USE DEF TypeOK, Goto, CandidateOK, LiveOK, NextOK, Publishing, Uncommitted
<1>0. TypeOK /\ OK /\ FlagOK(active) /\ LastDisplaced
  BY ZenonT(30) DEF Inductive
<1>1. ASSUME NEW c \in Contents, NEW op \in Writes, StartWrite(t, op, c) PROVE OK'
  <2> HIDE DEF TypeOK, CandidateOK, LiveOK, NextOK
  <2>1. pc \in [Threads -> Operations] /\ call \in [Threads -> AllCalls \cup {Nil}]
    BY <1>0, ZenonT(30) DEF TypeOK
  <2>2. cand \in [Threads -> Candidate \cup {Nil}] /\ active.gen \in Nat
    BY <1>0, ZenonT(30) DEF TypeOK, Snapshot
  <2>3. pc'[t] \in {"setBit", "swapLoad"} /\ (pc'[t] = "setBit" => op # "apply")
    BY <1>1, <2>1, ZenonT(30) DEF StartWrite
  <2>4. call'[t] = op /\ op \in Calls /\ active' = active
    BY <1>1, <2>1, ZenonT(30) DEF StartWrite, shared
  <2>5. cand'[t] = [gen |-> active.gen + 1, content |-> c]
    BY <1>1, <2>2, ZenonT(30) DEF StartWrite
  <2>6. cand'[t] \in Candidate /\ cand'[t].gen <= active'.gen + 1
    BY <2>2, <2>4, <2>5, SMTT(30) DEF Candidate
  <2>7. CandidateOK(t)'
    BY <2>3, <2>4, <2>6, ZenonT(30) DEF CandidateOK
  <2>8. LiveOK(t)' /\ NextOK(t)'
    BY <2>3, ZenonT(30) DEF LiveOK, NextOK
  <2> QED BY <2>7, <2>8, ZenonT(30)
<1>2. ASSUME NEW op \in {"disable", "enable"}, StartEmergency(t, op) PROVE OK'
  BY <1>0, <1>2, ZenonT(30) DEF StartEmergency, shared
<1>3. CASE SetEmergencyChaosOff(t)
  BY <1>0, <1>3, ZenonT(30) DEF SetEmergencyChaosOff
<1>4. CASE SwapLoad(t)
  <2> HIDE DEF TypeOK, Goto, CandidateOK, LiveOK, NextOK, Publishing, Uncommitted
  <2>1. /\ pc[t] = "swapLoad" /\ pc'[t] = "swapStamp" /\ live'[t] = active /\ active' = active
        /\ cand' = cand /\ active \in Snapshot
    BY <1>0, <1>4, ZenonT(30) DEF SwapLoad, shared, TypeOK, Goto
  <2>2. cand[t] \in Candidate /\ cand[t].gen <= active.gen + 1 /\ active.gen <= active.gen
    BY <1>0, <2>1, Fields, ZenonT(30) DEF CandidateOK, Uncommitted
  <2>3. CandidateOK(t)'
    BY <2>1, <2>2, ZenonT(30) DEF CandidateOK
  <2>4. LiveOK(t)' /\ NextOK(t)'
    BY <2>1, <2>2, ZenonT(30) DEF LiveOK, NextOK, Publishing
  <2> QED BY <2>3, <2>4, ZenonT(30)
<1>5. CASE SwapStamp(t)
  <2>1. /\ cand[t] \in Candidate /\ live[t] \in Snapshot /\ cand[t].gen <= live[t].gen + 1
        /\ cand[t].gen <= active.gen + 1 /\ live[t].gen <= active.gen
    BY <1>0, <1>5, ZenonT(30) DEF SwapStamp
  <2>2. /\ pc'[t] = "swapCAS" /\ cand'[t] = cand[t] /\ live'[t] = live[t]
        /\ UNCHANGED <<active, startup>>
        /\ next'[t] = [gen |-> SwapGeneration(cand[t], live[t]), content |-> cand[t].content,
                       off |-> Want(cand[t].content)]
    BY <1>0, <1>5, ZenonT(30) DEF SwapStamp, shared
  <2>3. SwapGeneration(cand[t], live[t]) = live[t].gen + 1
    BY <2>1, Numbered, ZenonT(30)
  <2>4. next'[t] \in Snapshot
    <3>1. Want(cand[t].content) \in BOOLEAN
      BY ZenonT(30) DEF Want
    <3> QED BY <2>1, <2>2, <3>1, Numbered, Fields, ZenonT(30)
  <2>5. FlagOK(next[t])'
    <3>1. next'[t].content = cand[t].content /\ next'[t].off = Want(cand[t].content)
      BY <2>2, SMTT(30)
    <3>2. startup \/ cand[t].content \in YamlOff => Want(cand[t].content)
      BY ZenonT(30) DEF Want
    <3> QED BY <2>2, <3>1, <3>2, ZenonT(30) DEF FlagOK
  <2> HIDE DEF TypeOK, Goto, CandidateOK, LiveOK, NextOK, Publishing, Uncommitted
  <2>6. CandidateOK(t)'
    BY <2>1, <2>2, ZenonT(30) DEF CandidateOK
  <2>7. LiveOK(t)'
    BY <2>1, <2>2, ZenonT(30) DEF LiveOK, Publishing
  <2>8. NextOK(t)'
    <3>1. next'[t].gen = live[t].gen + 1 /\ next'[t].content = cand[t].content
      BY <2>2, <2>3, SMTT(30)
    <3> QED BY <2>2, <2>4, <2>5, <3>1, ZenonT(30) DEF NextOK
  <2> QED BY <2>6, <2>7, <2>8, ZenonT(30)
<1>6. CASE SwapCAS(t)
  <2> HIDE DEF TypeOK, Goto, CandidateOK, LiveOK, NextOK, Publishing, Uncommitted
  <2>0. pc[t] = "swapCAS" /\ startup' = startup
    BY <1>6, ZenonT(30) DEF SwapCAS
  <2>1. /\ live[t] \in Snapshot /\ next[t] \in Snapshot /\ next[t].gen = live[t].gen + 1
        /\ cand[t] \in Candidate /\ cand[t].gen <= active.gen + 1
    BY <1>0, <2>0, ZenonT(30) DEF LiveOK, NextOK, CandidateOK, Uncommitted
  <2>2. CASE active = live[t]
    <3>1. pc'[t] = "swapPubLoad" /\ live' = live /\ active' = next[t]
      BY <1>0, <1>6, <2>2, ZenonT(30) DEF SwapCAS, TypeOK, Goto
    <3>2. live'[t] \in Snapshot /\ live'[t].gen <= active'.gen /\ live'[t].gen < active'.gen
      BY <2>1, <3>1, Fields, ZenonT(30)
    <3>3. CandidateOK(t)' /\ NextOK(t)'
      BY <3>1, ZenonT(30) DEF CandidateOK, NextOK, Uncommitted
    <3>4. LiveOK(t)'
      BY <3>1, <3>2, ZenonT(30) DEF LiveOK
    <3> QED BY <3>3, <3>4, ZenonT(30)
  <2>3. CASE active # live[t]
    <3>1. pc'[t] = "swapLoad" /\ cand' = cand /\ active' = active
      BY <1>0, <1>6, <2>3, ZenonT(30) DEF SwapCAS, TypeOK, Goto
    <3>2. CandidateOK(t)'
      BY <2>1, <3>1, ZenonT(30) DEF CandidateOK
    <3>3. LiveOK(t)' /\ NextOK(t)'
      BY <3>1, ZenonT(30) DEF LiveOK, NextOK, Publishing
    <3> QED BY <3>2, <3>3, ZenonT(30)
  <2> QED BY <2>2, <2>3, ZenonT(30)
<1>7. CASE StampLoad(t)
  <2> HIDE DEF TypeOK, Goto, CandidateOK, LiveOK, NextOK, Publishing, Uncommitted
  <2>1. pc'[t] = "stampRead" /\ live'[t] = active /\ active' = active /\ startup' = startup /\ active \in Snapshot
    BY <1>0, <1>7, ZenonT(30) DEF StampLoad, shared, TypeOK, Goto
  <2>2. active.gen <= active.gen
    BY <2>1, Fields, ZenonT(30)
  <2>3. FlagOK(live[t])'
    BY <1>0, <2>1, ZenonT(30) DEF FlagOK
  <2>4. CandidateOK(t)' /\ NextOK(t)'
    BY <2>1, ZenonT(30) DEF CandidateOK, NextOK, Uncommitted
  <2>5. LiveOK(t)'
    BY <2>1, <2>2, <2>3, ZenonT(30) DEF LiveOK, Publishing
  <2> QED BY <2>4, <2>5, ZenonT(30)
<1>8. CASE StampRead(t)
  <2>1. CASE live[t].off = Want(live[t].content)
    <3>1. pc'[t] = "idle"
      BY <1>0, <1>8, <2>1, ZenonT(30) DEF StampRead, Return
    <3> QED BY <3>1, ZenonT(30)
  <2>2. CASE live[t].off # Want(live[t].content)
    <3>1. live[t] \in Snapshot /\ live[t].gen <= active.gen /\ FlagOK(live[t])
      BY <1>0, <1>8, ZenonT(30) DEF StampRead
    <3>2. /\ pc'[t] = "stampCAS" /\ live'[t] = live[t] /\ UNCHANGED <<active, startup>>
          /\ next'[t] = [gen |-> live[t].gen + 1, content |-> live[t].content,
                         off |-> ~live[t].off]
      BY <1>0, <1>8, <2>2, ZenonT(30) DEF StampRead, shared
    <3>3. next'[t] \in Snapshot
      <4>1. live[t].gen + 1 \in Nat /\ live[t].content \in Contents /\ (~live[t].off) \in BOOLEAN
        BY <3>1, Fields, ZenonT(30)
      <4>2. [gen |-> live[t].gen + 1, content |-> live[t].content, off |-> ~live[t].off] \in Snapshot
        BY <4>1, Fields, ZenonT(30)
      <4> QED BY <3>2, <4>2, ZenonT(30)
    <3>4. FlagOK(next[t])'
      <4>1. next'[t].content = live[t].content /\ next'[t].off = ~live[t].off
        BY <3>2, SMTT(30)
      <4>2. startup \/ live[t].content \in YamlOff => Want(live[t].content) /\ live[t].off
        BY <3>1, ZenonT(30) DEF Want, FlagOK
      <4>3. ~(startup \/ live[t].content \in YamlOff)
        <5>1. live[t].off \in BOOLEAN /\ Want(live[t].content) \in BOOLEAN
          BY <3>1, Fields, ZenonT(30) DEF Want
        <5> QED BY <2>2, <4>2, <5>1, ZenonT(30)
      <4> QED BY <3>2, <4>1, <4>3, ZenonT(30) DEF FlagOK
    <3>5. FlagOK(live[t])'
      BY <3>1, <3>2, ZenonT(30) DEF FlagOK
    <3>6. /\ next'[t].gen = live'[t].gen + 1 /\ next'[t].content = live'[t].content
          /\ next'[t].off = ~live'[t].off
      BY <3>2, SMTT(30)
    <3> QED BY <3>1, <3>2, <3>3, <3>4, <3>5, <3>6, ZenonT(30)
  <2> QED BY <2>1, <2>2, ZenonT(30)
<1>9. CASE StampCAS(t)
  <2> HIDE DEF TypeOK, Goto, CandidateOK, LiveOK, NextOK, Publishing, Uncommitted
  <2>0. pc[t] = "stampCAS" /\ startup' = startup
    BY <1>9, ZenonT(30) DEF StampCAS
  <2>1. live[t] \in Snapshot /\ next[t] \in Snapshot /\ next[t].gen = live[t].gen + 1
    BY <1>0, <2>0, ZenonT(30) DEF LiveOK, NextOK
  <2>2. CASE active = live[t]
    <3>1. pc'[t] = "stampPubLoad" /\ live' = live /\ active' = next[t]
      BY <1>0, <1>9, <2>2, ZenonT(30) DEF StampCAS, TypeOK, Goto
    <3>2. live'[t] \in Snapshot /\ live'[t].gen <= active'.gen /\ live'[t].gen < active'.gen
      BY <2>1, <3>1, Fields, ZenonT(30)
    <3>3. CandidateOK(t)' /\ NextOK(t)'
      BY <3>1, ZenonT(30) DEF CandidateOK, NextOK, Uncommitted
    <3>4. LiveOK(t)'
      BY <3>1, <3>2, ZenonT(30) DEF LiveOK
    <3> QED BY <3>3, <3>4, ZenonT(30)
  <2>3. CASE active # live[t]
    <3>1. pc'[t] = "stampLoad"
      BY <1>0, <1>9, <2>3, ZenonT(30) DEF StampCAS, TypeOK, Goto
    <3> QED BY <3>1, ZenonT(30) DEF LiveOK, NextOK, CandidateOK, Publishing, Uncommitted
  <2> QED BY <2>2, <2>3, ZenonT(30)
<1>10. CASE PublishLoad(t)
  <2> HIDE DEF TypeOK, Goto, CandidateOK, LiveOK, NextOK, Publishing, Uncommitted
  <2>0. Publishing(t) /\ live[t] \in Snapshot /\ live[t].gen <= active.gen /\ live[t].gen < active.gen /\ active' = active
    BY <1>0, <1>10, ZenonT(30) DEF PublishLoad, shared, LiveOK, Publishing
  <2>1. ASSUME AfterPublish(t) PROVE OK'
    <3>1. pc'[t] \in {"stampLoad", "idle"}
      BY <1>0, <2>1, ZenonT(30) DEF AfterPublish, Return, TypeOK, Goto
    <3> QED BY <3>1, ZenonT(30) DEF LiveOK, NextOK, CandidateOK, Publishing, Uncommitted
  <2>2. ASSUME ~(previous # Nil /\ previous.gen >= live[t].gen), ~AfterPublish(t) PROVE OK'
    <3>1. pc'[t] \in {"swapPubCAS", "stampPubCAS"} /\ live' = live /\ loaded'[t] = previous
      BY <1>0, <1>10, <2>2, ZenonT(30) DEF PublishLoad, TypeOK, Goto
    <3>2. previous # Nil => previous.gen < live[t].gen
      <4>1. live[t].gen \in Nat /\ (previous # Nil => previous.gen \in Nat)
        BY <1>0, <2>0, Fields, ZenonT(30) DEF TypeOK
      <4> QED BY <2>2, <4>1, SMTT(30)
    <3>3. CandidateOK(t)' /\ NextOK(t)'
      BY <3>1, ZenonT(30) DEF CandidateOK, NextOK, Uncommitted
    <3>4. LiveOK(t)'
      BY <2>0, <3>1, <3>2, ZenonT(30) DEF LiveOK
    <3> QED BY <3>3, <3>4, ZenonT(30)
  <2> QED BY <1>10, <2>1, <2>2, ZenonT(30) DEF PublishLoad
<1>11. CASE PublishCAS(t)
  <2> HIDE DEF TypeOK, Goto, CandidateOK, LiveOK, NextOK, Publishing, Uncommitted
  <2>0. Publishing(t) /\ live[t] \in Snapshot /\ live[t].gen <= active.gen /\ live[t].gen < active.gen /\ active' = active
    BY <1>0, <1>11, ZenonT(30) DEF PublishCAS, shared, LiveOK, Publishing
  <2>1. ASSUME AfterPublish(t) PROVE OK'
    <3>1. pc'[t] \in {"stampLoad", "idle"}
      BY <1>0, <2>1, ZenonT(30) DEF AfterPublish, Return, TypeOK, Goto
    <3> QED BY <3>1, ZenonT(30) DEF LiveOK, NextOK, CandidateOK, Publishing, Uncommitted
  <2>2. ASSUME previous # loaded[t] PROVE OK'
    <3>1. pc'[t] \in {"swapPubLoad", "stampPubLoad"} /\ live' = live
      BY <1>0, <1>11, <2>2, ZenonT(30) DEF PublishCAS, TypeOK, Goto
    <3>2. CandidateOK(t)' /\ NextOK(t)'
      BY <3>1, ZenonT(30) DEF CandidateOK, NextOK, Uncommitted
    <3>3. LiveOK(t)'
      BY <2>0, <3>1, ZenonT(30) DEF LiveOK
    <3> QED BY <3>2, <3>3, ZenonT(30)
  <2> QED BY <1>11, <2>1, <2>2, ZenonT(30) DEF PublishCAS
<1> QED
  BY <1>1, <1>2, <1>3, <1>4, <1>5, <1>6, <1>7, <1>8, <1>9, <1>10, <1>11, ZenonT(30)
     DEF Start, Step, Writes

\* What is published over an inhibited content is inhibited.
LEMMA FlagStep ==
  ASSUME Inductive, NEW t \in Threads, Start(t) \/ Step(t)
  PROVE  FlagOK(active)'
<1>1. startup' = startup /\ FlagOK(active)
  BY ActiveStep, ZenonT(30) DEF Inductive
<1>2. CASE active' = active
  BY <1>1, <1>2, ZenonT(30) DEF FlagOK
<1>3. CASE pc[t] \in {"swapCAS", "stampCAS"} /\ active' = next[t]
  <2>1. FlagOK(next[t])
    BY <1>3, ZenonT(30) DEF Inductive, NextOK
  <2> QED BY <1>1, <1>3, <2>1, ZenonT(30) DEF FlagOK
<1> QED BY ActiveStep, <1>2, <1>3, ZenonT(30)

\* The previous pointer only moves to a newer displaced snapshot, at the
\* compare-and-swap of publishPrevious.
LEMMA PreviousStep ==
  ASSUME Inductive, NEW t \in Threads, Start(t) \/ Step(t)
  PROVE  \/ previous' = previous
         \/ /\ pc[t] \in {"swapPubCAS", "stampPubCAS"}
            /\ previous' = live[t] /\ live[t] \in Snapshot /\ live[t].gen < active.gen
            /\ previous # Nil => previous.gen < live[t].gen
            /\ active' = active
<1>1. CASE Start(t)
  BY <1>1, ZenonT(30) DEF Start, StartWrite, StartEmergency, shared
<1>2. CASE SetEmergencyChaosOff(t) \/ SwapLoad(t) \/ SwapStamp(t) \/ SwapCAS(t)
  BY <1>2, ZenonT(30) DEF SetEmergencyChaosOff, SwapLoad, SwapStamp, SwapCAS, shared
<1>3. CASE StampLoad(t) \/ StampRead(t) \/ StampCAS(t)
  BY <1>3, ZenonT(30) DEF StampLoad, StampRead, StampCAS, shared
<1>4. CASE PublishLoad(t)
  BY <1>4, ZenonT(30) DEF PublishLoad, shared
<1>5. CASE PublishCAS(t)
  BY <1>5, ZenonT(30) DEF PublishCAS, Inductive, LiveOK, Publishing
<1> QED BY <1>1, <1>2, <1>3, <1>4, <1>5, ZenonT(30) DEF Step

\* The displacer of the last snapshot keeps it until previous holds it.
LEMMA LastDisplacedStep ==
  ASSUME Inductive, NEW t \in Threads, Start(t) \/ Step(t)
  PROVE  LastDisplaced'
<1>0. /\ TypeOK /\ TypeOK' /\ LastDisplaced
      /\ \A u \in Threads : LiveOK(u)
  BY TypeStep, ZenonT(30) DEF Inductive
<1>1. CASE active' # active
  <2>1. /\ pc[t] \in {"swapCAS", "stampCAS"} /\ active = live[t]
        /\ active'.gen = active.gen + 1
    BY <1>1, ActiveStep, ZenonT(30)
  <2>2. previous' = previous
    BY <2>1, PreviousStep, ZenonT(30)
  <2>3. Publishing(t)' /\ live'[t] = active
    <3>1. SwapCAS(t) \/ StampCAS(t)
      BY <2>1, ZenonT(30) DEF Start, StartWrite, StartEmergency, Step, SetEmergencyChaosOff, SwapLoad,
         SwapStamp, StampLoad, StampRead, PublishLoad, PublishCAS
    <3>2. Goto(t, "swapPubLoad") \/ Goto(t, "stampPubLoad")
      BY <2>1, <3>1, ZenonT(30) DEF SwapCAS, StampCAS
    <3>3. live' = live
      BY <2>1, <3>1, ZenonT(30) DEF SwapCAS, StampCAS
    <3>4. Publishing(t)'
      BY <1>0, <3>2, ZenonT(30) DEF TypeOK, Goto, Publishing
    <3> QED BY <2>1, <3>3, <3>4, ZenonT(30)
  <2>g. active.gen \in Nat /\ (previous # Nil => previous.gen \in Nat /\ previous.gen < active.gen)
    BY <1>0, Fields, ZenonT(30) DEF LastDisplaced, TypeOK
  <2>4. previous' # Nil => previous'.gen < active'.gen
    BY <2>1, <2>2, <2>g, SMTT(30)
  <2>5. live'[t].gen = active'.gen - 1
    <3>1. \A g \in Nat : g = (g + 1) - 1 BY SMTT(30)
    <3> QED BY <2>1, <2>3, <2>g, <3>1, ZenonT(30)
  <2> QED BY <2>3, <2>4, <2>5, ZenonT(30) DEF LastDisplaced
<1>2. CASE active' = active
  <2>1. previous' # Nil => previous'.gen < active'.gen
    BY <1>0, <1>2, PreviousStep, ZenonT(30) DEF LastDisplaced
  <2>2. ASSUME active.gen > 0, previous # Nil, previous.gen = active.gen - 1
        PROVE  previous' # Nil /\ previous'.gen = active.gen - 1
    <3>1. ASSUME previous' = live[t], live[t] \in Snapshot, live[t].gen < active.gen, previous.gen < live[t].gen PROVE FALSE
      <4>1. active.gen \in Nat /\ previous.gen \in Nat /\ live[t].gen \in Nat
        BY <1>0, <2>2, <3>1, Fields, ZenonT(30) DEF TypeOK
      <4> QED BY <2>2, <3>1, <4>1, SMTT(30)
    <3> QED BY <2>2, <3>1, PreviousStep, ZenonT(30)
  <2>3. ASSUME NEW u \in Threads, u # t, Publishing(u), live[u].gen = active.gen - 1
        PROVE  Publishing(u)' /\ live'[u].gen = active'.gen - 1
    BY <1>0, <1>2, <2>3, Frame, ZenonT(30) DEF Publishing
  <2>4. ASSUME Publishing(t), live[t].gen = active.gen - 1
        PROVE  \/ Publishing(t)' /\ live'[t].gen = active'.gen - 1
               \/ previous' # Nil /\ previous'.gen = active.gen - 1
    <3>1. PublishLoad(t) \/ PublishCAS(t)
      BY <2>4, ZenonT(30) DEF Publishing, Start, StartWrite, StartEmergency, Step, SetEmergencyChaosOff,
         SwapLoad, SwapStamp, SwapCAS, StampLoad, StampRead, StampCAS
    <3>2. live[t] \in Snapshot /\ (previous # Nil => previous.gen < active.gen)
      BY <1>0, <2>4, ZenonT(30) DEF LiveOK, LastDisplaced
    <3>3. CASE PublishLoad(t)
      <4>1. CASE previous # Nil /\ previous.gen >= live[t].gen
        <5>1. previous' = previous
          BY <3>3, ZenonT(30) DEF PublishLoad, shared
        <5>2. active.gen \in Nat /\ previous.gen \in Nat /\ live[t].gen \in Nat
          BY <1>0, <3>2, <4>1, Fields, ZenonT(30) DEF TypeOK
        <5>3. previous.gen = active.gen - 1
          BY <2>4, <3>2, <4>1, <5>2, SMTT(30)
        <5> QED BY <4>1, <5>1, <5>3, ZenonT(30)
      <4>2. CASE ~(previous # Nil /\ previous.gen >= live[t].gen)
        <5>1. pc'[t] \in {"swapPubCAS", "stampPubCAS"} /\ live' = live
          BY <1>0, <3>3, <4>2, ZenonT(30) DEF PublishLoad, Goto, TypeOK
        <5> QED BY <1>2, <2>4, <5>1, ZenonT(30) DEF Publishing
      <4> QED BY <4>1, <4>2, ZenonT(30)
    <3>4. CASE PublishCAS(t)
      <4>1. CASE previous = loaded[t]
        <5>1. previous' = live[t]
          BY <3>4, <4>1, ZenonT(30) DEF PublishCAS
        <5> QED BY <2>4, <3>2, <5>1, NilAssumption, ZenonT(30)
      <4>2. CASE previous # loaded[t]
        BY <1>0, <1>2, <2>4, <3>4, <4>2, ZenonT(30) DEF PublishCAS, Goto, Publishing, TypeOK
      <4> QED BY <4>1, <4>2, ZenonT(30)
    <3> QED BY <3>1, <3>3, <3>4, ZenonT(30)
  <2> QED BY <1>0, <1>2, <2>1, <2>2, <2>3, <2>4, ZenonT(30) DEF LastDisplaced
<1> QED BY <1>1, <1>2, ZenonT(30)

\* While no call clears the bit it only goes on, and whoever publishes a
\* snapshot without it looks again afterwards.
LEMMA DisableOnlyStep ==
  ASSUME Inductive, NEW t \in Threads, Start(t) \/ Step(t)
  PROVE  DisableOnly'
<1> SUFFICES ASSUME ~cleared' PROVE DisableOnly'
  BY ZenonT(30) DEF DisableOnly
<1>c. ~cleared
  BY ZenonT(30) DEF Start, StartWrite, StartEmergency, Step
<1>0. /\ TypeOK /\ TypeOK' /\ startup' = startup
      /\ \A u \in Threads : CandidateOK(u) /\ LiveOK(u) /\ NextOK(u)
  BY TypeStep, ActiveStep, ZenonT(30) DEF Inductive
<1>g. \A l : Goto(t, l) => pc'[t] = l
  BY <1>0, ZenonT(30) DEF Goto, TypeOK
<1>h. \A x : live' = [live EXCEPT ![t] = x] => live'[t] = x
  BY <1>0, ZenonT(30) DEF TypeOK
<1>i. /\ active.off => Want(active.content)
      /\ \A u \in Threads :
            /\ pc[u] = "setBit" => call[u] = "disable"
            /\ pc[u] \in {"stampRead", "stampCAS"} /\ live[u].off => Want(live[u].content)
            /\ pc[u] \in {"swapCAS", "stampCAS"} /\ next[u].off => Want(next[u].content)
            /\ pc[u] = "stampCAS" => next[u].off
      /\ emergency /\ ~active.off => \E u \in Threads : WillStamp(u)
  BY <1>c, ZenonT(30) DEF Inductive, DisableOnly
<1>1. \/ SetEmergencyChaosOff(t) /\ call[t] \notin {"reset", "apply"} /\ emergency' = TRUE
      \/ emergency' = emergency
  <2>1. CASE SetEmergencyChaosOff(t)
    <3>1. call[t] = "disable"
      BY <1>i, <2>1, ZenonT(30) DEF SetEmergencyChaosOff
    <3> QED BY <2>1, <3>1, ZenonT(30) DEF SetEmergencyChaosOff
  <2>2. CASE Start(t)
    BY <2>2, ZenonT(30) DEF Start, StartWrite, StartEmergency, shared
  <2>3. CASE SwapLoad(t) \/ SwapStamp(t) \/ SwapCAS(t)
    BY <2>3, ZenonT(30) DEF SwapLoad, SwapStamp, SwapCAS, shared
  <2>4. CASE StampLoad(t) \/ StampRead(t) \/ StampCAS(t)
    BY <2>4, ZenonT(30) DEF StampLoad, StampRead, StampCAS, shared
  <2>5. CASE PublishLoad(t) \/ PublishCAS(t)
    BY <2>5, ZenonT(30) DEF PublishLoad, PublishCAS, shared
  <2> QED BY <2>1, <2>2, <2>3, <2>4, <2>5, ZenonT(30) DEF Step
<1>2. ASSUME NEW c, Want(c) PROVE Want(c)'
  <2>1. emergency => emergency'
    BY <1>1, ZenonT(30)
  <2> QED BY <1>0, <1>2, <2>1, ZenonT(30) DEF Want
<1>3. (active.off => Want(active.content))'
  <2>1. CASE active' = active
    BY <1>i, <1>2, <2>1, ZenonT(30) DEF Want
  <2>2. CASE pc[t] \in {"swapCAS", "stampCAS"} /\ active' = next[t]
    <3>1. next[t].off => Want(next[t].content)
      BY <1>i, <2>2, ZenonT(30)
    <3> QED BY <1>2, <2>2, <3>1, ZenonT(30) DEF Want
  <2> QED BY ActiveStep, <2>1, <2>2, ZenonT(30)
<1>d. ASSUME NEW u \in Threads PROVE (pc[u] = "setBit" => call[u] = "disable")'
  <2>1. CASE u # t
    <3>1. pc'[u] = pc[u] /\ call'[u] = call[u]
      BY <1>0, <2>1, Frame, ZenonT(30)
    <3> QED BY <1>i, <3>1, ZenonT(30)
  <2>2. CASE u = t /\ Start(t)
    BY <1>0, <2>2, ZenonT(30) DEF Start, StartWrite, StartEmergency, Goto, TypeOK
  <2>3. CASE u = t /\ Step(t)
    <3>1. CASE SetEmergencyChaosOff(t) \/ SwapLoad(t) \/ SwapStamp(t) \/ SwapCAS(t)
      BY <1>g, <2>3, <3>1, ZenonT(30) DEF SetEmergencyChaosOff, SwapLoad, SwapStamp, SwapCAS
    <3>2. CASE StampLoad(t) \/ StampRead(t)
      BY <1>g, <2>3, <3>2, ZenonT(30) DEF StampLoad, StampRead, Return
    <3>3. CASE StampCAS(t)
      BY <1>g, <2>3, <3>3, ZenonT(30) DEF StampCAS
    <3>4. CASE PublishLoad(t) \/ PublishCAS(t)
      BY <1>g, <2>3, <3>4, ZenonT(30) DEF PublishLoad, PublishCAS, AfterPublish, Return
    <3> QED BY <2>3, <3>1, <3>2, <3>3, <3>4, ZenonT(30) DEF Step
  <2> QED BY <2>1, <2>2, <2>3, ZenonT(30)
<1>4. ASSUME NEW u \in Threads
      PROVE  (/\ pc[u] \in {"stampRead", "stampCAS"} /\ live[u].off => Want(live[u].content)
              /\ pc[u] \in {"swapCAS", "stampCAS"} /\ next[u].off => Want(next[u].content)
              /\ pc[u] = "stampCAS" => next[u].off)'
  <2>1. CASE u # t
    <3>1. pc'[u] = pc[u] /\ live'[u] = live[u] /\ next'[u] = next[u]
      BY <1>0, <2>1, Frame, ZenonT(30)
    <3> QED BY <1>i, <1>2, <3>1, ZenonT(30) DEF Want
  <2>2. CASE u = t
    <3>1. CASE StampLoad(t)
      <4>1. pc'[t] = "stampRead" /\ live'[t] = active /\ active' = active
        BY <1>0, <3>1, ZenonT(30) DEF StampLoad, Goto, TypeOK, shared
      <4> QED BY <1>3, <2>2, <4>1, ZenonT(30) DEF Want
    <3>2. CASE StampRead(t)
      <4>0. /\ pc[t] = "stampRead" /\ live[t] \in Snapshot
            /\ live[t].off => Want(live[t].content)
        BY <1>0, <1>i, <3>2, ZenonT(30) DEF StampRead, LiveOK
      <4>1. CASE live[t].off = Want(live[t].content)
        BY <1>g, <2>2, <3>2, <4>1, ZenonT(30) DEF StampRead, Return
      <4>2. CASE live[t].off # Want(live[t].content)
        <5>1. ~live[t].off /\ Want(live[t].content)
          BY <4>0, <4>2, ZenonT(30) DEF Snapshot, Want
        <5>2. /\ pc'[t] = "stampCAS" /\ live'[t] = live[t]
              /\ next'[t].content = live[t].content /\ next'[t].off = ~live[t].off
          <6>1. /\ pc'[t] = "stampCAS" /\ live' = live
                /\ next'[t] = [gen |-> live[t].gen + 1, content |-> live[t].content, off |-> ~live[t].off]
            BY <1>0, <3>2, <4>2, ZenonT(30) DEF StampRead, Goto, TypeOK
          <6> QED BY <6>1, SMTT(30)
        <5> QED BY <1>2, <2>2, <5>1, <5>2, ZenonT(30) DEF Want
      <4> QED BY <4>1, <4>2, ZenonT(30)
    <3>3. CASE SwapStamp(t)
      <4>1. /\ pc'[t] = "swapCAS" /\ next'[t].content = cand[t].content
            /\ next'[t].off = Want(cand[t].content)
        BY <1>0, <3>3, ZenonT(30) DEF SwapStamp, Goto, TypeOK
      <4> QED BY <1>2, <2>2, <4>1, ZenonT(60) DEF Want
    <3>4. CASE ~(StampLoad(t) \/ StampRead(t) \/ SwapStamp(t))
      <4>1. pc'[t] \notin {"stampRead", "stampCAS", "swapCAS"}
        <5>0. \/ Start(t) \/ SetEmergencyChaosOff(t) \/ SwapLoad(t) \/ SwapCAS(t)
              \/ StampCAS(t) \/ PublishLoad(t) \/ PublishCAS(t)
          BY <3>4, ZenonT(30) DEF Step
        <5>1. CASE Start(t)
          BY <1>0, <5>1, ZenonT(30) DEF Start, StartWrite, StartEmergency, Goto, TypeOK
        <5>2. CASE SetEmergencyChaosOff(t) \/ SwapLoad(t)
          BY <1>g, <5>2, ZenonT(30) DEF SetEmergencyChaosOff, SwapLoad
        <5>3. CASE SwapCAS(t)
          BY <1>g, <5>3, ZenonT(30) DEF SwapCAS
        <5>4. CASE StampCAS(t)
          BY <1>g, <5>4, ZenonT(30) DEF StampCAS
        <5>5. CASE PublishLoad(t) \/ PublishCAS(t)
          BY <1>g, <5>5, ZenonT(30) DEF PublishLoad, PublishCAS, AfterPublish, Return
        <5> QED BY <5>0, <5>1, <5>2, <5>3, <5>4, <5>5, ZenonT(30)
      <4> QED BY <2>2, <4>1, ZenonT(30)
    <3> QED BY <3>1, <3>2, <3>3, <3>4, ZenonT(30)
  <2> QED BY <2>1, <2>2, ZenonT(30)
<1>5. ASSUME emergency', ~active'.off PROVE \E u \in Threads : WillStamp(u)'
  <2> USE DEF WillStamp
  <2>1. CASE SetEmergencyChaosOff(t) /\ call[t] # "reset"
    BY <1>g, <2>1, ZenonT(30) DEF SetEmergencyChaosOff
  <2>2. CASE active' # active
    <3>1. SwapCAS(t) \/ StampCAS(t)
      BY <2>2, ActiveStep, ZenonT(30) DEF Start, StartWrite, StartEmergency, Step, SetEmergencyChaosOff,
         SwapLoad, SwapStamp, StampLoad, StampRead, PublishLoad, PublishCAS
    <3>2. ~StampCAS(t)
      BY <1>i, <1>5, <2>2, ZenonT(30) DEF StampCAS
    <3> QED BY <1>g, <2>2, <3>1, <3>2, ZenonT(30) DEF SwapCAS
  <2>3. CASE active' = active /\ emergency' = emergency
    <3>1. PICK u \in Threads : WillStamp(u)
      BY <1>i, <1>5, <2>3, ZenonT(30)
    <3>2. CASE u # t
      BY <1>0, <3>1, <3>2, Frame, ZenonT(30)
    <3>3. CASE u = t
      <4>1. CASE StampLoad(t)
        <5>1. pc'[t] = "stampRead" /\ live'[t] = active
          BY <1>g, <1>h, <4>1, ZenonT(30) DEF StampLoad
        <5> QED BY <1>5, <2>3, <5>1, ZenonT(30)
      <4>2. CASE StampRead(t)
        <5>1. live[t] \in Snapshot /\ ~live[t].off /\ Want(live[t].content)
          BY <1>0, <1>5, <2>3, <3>1, <3>3, <4>2, ZenonT(30) DEF StampRead, LiveOK, Want
        <5>2. live[t].off # Want(live[t].content)
          BY <5>1, ZenonT(30)
        <5>3. pc'[t] = "stampCAS"
          BY <1>g, <4>2, <5>2, ZenonT(30) DEF StampRead
        <5> QED BY <5>3, ZenonT(30)
      <4>3. CASE StampCAS(t)
        <5>1. pc[t] = "stampCAS" /\ next[t].off
          BY <1>i, <4>3, ZenonT(30) DEF StampCAS
        <5>2. active # live[t]
          BY <1>5, <4>3, <5>1, ZenonT(30) DEF StampCAS
        <5>3. pc'[t] = "stampLoad"
          BY <1>g, <4>3, <5>2, ZenonT(30) DEF StampCAS
        <5> QED BY <5>3, ZenonT(30)
      <4>4. CASE PublishLoad(t) \/ PublishCAS(t)
        <5>1. pc[t] \in {"swapPubLoad", "swapPubCAS"}
          BY <3>1, <3>3, <4>4, ZenonT(30) DEF PublishLoad, PublishCAS
        <5>2. pc'[t] \in {"stampLoad", "swapPubLoad", "swapPubCAS"}
          BY <1>g, <4>4, <5>1, ZenonT(30) DEF PublishLoad, PublishCAS, AfterPublish
        <5> QED BY <5>2, ZenonT(30)
      <4> QED
        BY <3>1, <3>3, <4>1, <4>2, <4>3, <4>4, ZenonT(30)
           DEF Start, StartWrite, StartEmergency, Step, SetEmergencyChaosOff, SwapLoad, SwapStamp,
               SwapCAS
    <3> QED BY <3>2, <3>3, ZenonT(30)
  <2> QED BY <1>1, <2>1, <2>2, <2>3, ZenonT(30)
<1> QED BY <1>d, <1>3, <1>4, <1>5, ZenonT(30) DEF DisableOnly

\* Every step of the store keeps the inductive invariant.
LEMMA NextInductive == Inductive /\ [StoreNext]_storeVars => Inductive'
<1> SUFFICES ASSUME Inductive, [StoreNext]_storeVars PROVE Inductive'
  BY ZenonT(30)
<1>1. ASSUME NEW t \in Threads, Start(t) \/ Step(t) PROVE Inductive'
  <2>1. TypeOK'
    BY <1>1, TypeStep, ZenonT(30)
  <2>2. ASSUME NEW u \in Threads PROVE CandidateOK(u)' /\ LiveOK(u)' /\ NextOK(u)'
    BY <1>1, OwnStep, OthersStep, ZenonT(30)
  <2>3. FlagOK(active)'
    BY <1>1, FlagStep, ZenonT(30)
  <2>4. LastDisplaced'
    BY <1>1, LastDisplacedStep, ZenonT(30)
  <2>5. DisableOnly'
    BY <1>1, DisableOnlyStep, ZenonT(30)
  <2> QED BY <2>1, <2>2, <2>3, <2>4, <2>5, ZenonT(30) DEF Inductive
<1>2. CASE UNCHANGED storeVars
  <2> USE <1>2 DEF storeVars
  <2>1. TypeOK' /\ FlagOK(active)'
    BY ZenonT(30) DEF Inductive, TypeOK, FlagOK
  <2>2. ASSUME NEW u \in Threads PROVE CandidateOK(u)' /\ LiveOK(u)' /\ NextOK(u)'
    BY ZenonT(30) DEF Inductive, CandidateOK, LiveOK, NextOK, FlagOK, Publishing, Uncommitted
  <2>3. LastDisplaced'
    BY ZenonT(30) DEF Inductive, LastDisplaced, Publishing
  <2>4. DisableOnly'
    BY ZenonT(30) DEF Inductive, DisableOnly, WillStamp, Want, Publishing
  <2> QED BY <2>1, <2>2, <2>3, <2>4, ZenonT(30) DEF Inductive
<1> QED BY <1>1, <1>2, ZenonT(30) DEF StoreNext, StoreRest

\* The store is consistent in the middle of any set of concurrent Swap,
\* StampEmergency and publishPrevious calls.
THEOREM Invariance == StoreSpec => []Inductive
BY InitInductive, NextInductive, PTL DEF StoreSpec

\* Every pointer and local of store.go holds a snapshot of the right shape at
\* every atomic operation.
THEOREM TypeCorrect == StoreSpec => []TypeOK
<1>1. Inductive => TypeOK
  BY ZenonT(30) DEF Inductive
<1> QED BY <1>1, Invariance, PTL

\* The snapshot that Swap or StampEmergency displaced last is Previous() as
\* soon as no call is running.
THEOREM LastDisplacedIsPrevious == StoreSpec => []PreviousIsLastDisplaced
<1>1. Inductive => PreviousIsLastDisplaced
  BY ZenonT(30) DEF Inductive, LastDisplaced, PreviousIsLastDisplaced, Quiescent, Publishing
<1> QED BY <1>1, Invariance, PTL

\* Under a startup lock, or with a content that says emergencyDisabled, no
\* published snapshot lets chaos run.
THEOREM LockHolds == StoreSpec => []LockedStaysOff
<1>1. Inductive => LockedStaysOff
  BY ZenonT(30) DEF Inductive, FlagOK, LockedStaysOff
<1> QED BY <1>1, Invariance, PTL

\* An emergency disable that races Swap calls is on the active snapshot once
\* they have all returned.
THEOREM DisableIsNotLost == StoreSpec => []DisableReachesSnapshot
<1>1. Inductive => DisableReachesSnapshot
  <2> SUFFICES ASSUME Inductive, Quiescent, ~cleared
               PROVE  active.off = Want(active.content)
    BY ZenonT(30) DEF DisableReachesSnapshot
  <2>1. active.off \in BOOLEAN /\ FlagOK(active)
    BY ZenonT(30) DEF Inductive, TypeOK, Snapshot
  <2>2. ~\E t \in Threads : WillStamp(t)
    BY ZenonT(30) DEF Quiescent, WillStamp
  <2>3. (active.off => Want(active.content)) /\ ~(emergency /\ ~active.off)
    BY <2>2, ZenonT(30) DEF Inductive, DisableOnly
  <2> QED BY <2>1, <2>3, ZenonT(30) DEF FlagOK, Want
<1> QED BY <1>1, Invariance, PTL

\* No Swap and no stamp publishes under a generation at or below the one it
\* displaces.
THEOREM GenerationsAdvance == StoreSpec => GenerationAdvances
<1>1. ASSUME Inductive, [StoreNext]_storeVars
      PROVE  [active' # active => active'.gen > active.gen]_storeVars
  <2>1. active.gen \in Nat
    BY <1>1, ZenonT(30) DEF Inductive, TypeOK, Snapshot
  <2>2. ASSUME NEW t \in Threads, Start(t) \/ Step(t)
        PROVE  active' # active => active'.gen > active.gen
    <3>1. active' = active \/ active'.gen = active.gen + 1
      BY <1>1, <2>2, ActiveStep, ZenonT(30)
    <3> QED BY <2>1, <3>1, SMTT(30)
  <2> QED BY <1>1, <2>2, ZenonT(30) DEF StoreNext, StoreRest, storeVars
<1> QED BY <1>1, Invariance, PTL DEF StoreSpec, GenerationAdvances

\* A delayed publishPrevious never overwrites a newer displaced snapshot.
THEOREM PreviousNeverRegresses == StoreSpec => PreviousAdvances
<1> DEFINE A == previous' # previous =>
                  previous' # Nil /\ (previous # Nil => previous'.gen > previous.gen)
<1>1. ASSUME Inductive, [StoreNext]_storeVars PROVE [A]_storeVars
  <2>1. ASSUME NEW t \in Threads, Start(t) \/ Step(t) PROVE A
    <3>1. \/ previous' = previous
          \/ previous' \in Snapshot /\ (previous # Nil => previous \in Snapshot /\ previous.gen < previous'.gen)
      BY <1>1, <2>1, PreviousStep, ZenonT(30) DEF Inductive, TypeOK
    <3>2. ASSUME previous' \in Snapshot, previous # Nil => previous \in Snapshot /\ previous.gen < previous'.gen
          PROVE  previous # Nil => previous'.gen > previous.gen
      <4>1. previous'.gen \in Nat /\ (previous # Nil => previous.gen \in Nat)
        BY <3>2, Fields, ZenonT(30)
      <4> QED BY <3>2, <4>1, SMTT(30)
    <3> QED BY <3>1, <3>2, NilAssumption, ZenonT(30)
  <2> QED BY <1>1, <2>1, ZenonT(30) DEF StoreNext, StoreRest, storeVars
<1> QED BY <1>1, Invariance, PTL DEF StoreSpec, PreviousAdvances

-----------------------------------------------------------------------------
(* The atomic register.  Pending is the request function of the mapping.   *)

Pending == [t \in Threads |-> IF Uncommitted(t) THEN cand[t].content ELSE Nil]

\* A thread that neither enters nor leaves an uncommitted Swap leaves every
\* pending request as it is.
LEMMA PendingUnchanged ==
  ASSUME TypeOK, NEW t \in Threads, Start(t) \/ Step(t),
         Uncommitted(t)' <=> Uncommitted(t),
         Uncommitted(t) => cand'[t] = cand[t]
  PROVE  Pending' = Pending
<1>1. ASSUME NEW u \in Threads \ {t}
      PROVE  (Uncommitted(u)' <=> Uncommitted(u)) /\ cand'[u] = cand[u]
  <2>1. pc'[u] = pc[u] /\ call'[u] = call[u] /\ cand'[u] = cand[u]
    BY Frame, ZenonT(30)
  <2> QED BY <2>1, ZenonT(30) DEF Uncommitted
<1>2. \A u \in Threads :
         (Uncommitted(u)' <=> Uncommitted(u)) /\ (Uncommitted(u) => cand'[u] = cand[u])
  BY <1>1, ZenonT(30)
<1> QED BY <1>2, ZenonT(30) DEF Pending

\* A step of t changes the pending request of t only.
LEMMA PendingExcept ==
  ASSUME TypeOK, NEW t \in Threads, Start(t) \/ Step(t), NEW x,
         x = IF Uncommitted(t)' THEN cand'[t].content ELSE Nil
  PROVE  Pending' = [Pending EXCEPT ![t] = x]
<1>1. ASSUME NEW u \in Threads \ {t}
      PROVE  (Uncommitted(u)' <=> Uncommitted(u)) /\ cand'[u] = cand[u]
  <2>1. pc'[u] = pc[u] /\ call'[u] = call[u] /\ cand'[u] = cand[u]
    BY Frame, ZenonT(30)
  <2> QED BY <2>1, ZenonT(30) DEF Uncommitted
<1> QED BY <1>1, ZenonT(30) DEF Pending

\* Every atomic operation of the store is a step of the register or leaves it
\* unchanged.
LEMMA StepSimulation ==
  ASSUME Inductive, NEW t \in Threads, Start(t) \/ Step(t)
  PROVE  [Abs!ANext]_(Abs!avars)
<1>0. TypeOK /\ CandidateOK(t) /\ NextOK(t) /\ startup' = startup
  BY ActiveStep, ZenonT(30) DEF Inductive
<1>s. ASSUME active' = active, Uncommitted(t)' <=> Uncommitted(t),
             Uncommitted(t) => cand'[t] = cand[t]
      PROVE  UNCHANGED Abs!avars
  BY <1>0, <1>s, PendingUnchanged, ZenonT(30) DEF Abs!avars, Pending
<1>1. ASSUME NEW c \in Contents, NEW op \in Writes, StartWrite(t, op, c)
      PROVE  Abs!Request(t, c)
  <2>1. ~Uncommitted(t) /\ Uncommitted(t)' /\ cand'[t].content = c
    BY <1>0, <1>1, ZenonT(30) DEF StartWrite, Uncommitted, TypeOK, Goto, Writes
  <2>2. Pending[t] = Nil /\ Pending' = [Pending EXCEPT ![t] = c]
    BY <1>0, <2>1, PendingExcept, ZenonT(30) DEF Pending
  <2> QED BY <1>0, <1>1, <2>2, ZenonT(30) DEF Abs!Request, Pending, StartWrite, shared
<1>2. ASSUME NEW op \in {"disable", "enable"}, StartEmergency(t, op)
      PROVE  UNCHANGED Abs!avars
  BY <1>0, <1>2, <1>s, ZenonT(30) DEF StartEmergency, Uncommitted, TypeOK, Goto, shared
<1>3. CASE SetEmergencyChaosOff(t)
  BY <1>0, <1>3, <1>s, ZenonT(30) DEF SetEmergencyChaosOff, Uncommitted, TypeOK, Goto
<1>4. CASE SwapLoad(t) \/ SwapStamp(t)
  BY <1>0, <1>4, <1>s, ZenonT(30) DEF SwapLoad, SwapStamp, Uncommitted, TypeOK, Goto, shared
<1>5. CASE SwapCAS(t)
  <2>1. CASE active # live[t]
    BY <1>0, <1>5, <2>1, <1>s, ZenonT(30) DEF SwapCAS, Uncommitted, TypeOK, Goto
  <2>2. CASE active = live[t]
    <3>1. /\ active' = next[t] /\ next[t] \in Snapshot /\ FlagOK(next[t])
          /\ next[t].gen = active.gen + 1 /\ next[t].content = cand[t].content
      BY <1>0, <1>5, <2>2, ZenonT(30) DEF SwapCAS, NextOK
    <3>2. Uncommitted(t) /\ ~Uncommitted(t)'
      BY <1>0, <1>5, <2>2, ZenonT(30) DEF SwapCAS, Uncommitted, TypeOK, Goto
    <3>3. Pending' = [Pending EXCEPT ![t] = Nil] /\ Pending[t] = cand[t].content
      BY <1>0, <3>2, PendingExcept, ZenonT(60) DEF Pending
    <3>4. cand[t].content # Nil
      BY <1>0, <3>2, NilAssumption, ZenonT(30) DEF CandidateOK, Candidate
    <3>5. Abs!MayPublish(active.content, active.off)'
      BY <1>0, <3>1, ZenonT(30) DEF Abs!MayPublish, FlagOK
    <3>6. active'.off \in BOOLEAN
      BY <3>1, ZenonT(30) DEF Snapshot
    <3>7. Abs!Install(t)
      BY <1>0, <3>1, <3>3, <3>4, <3>5, <3>6, ZenonT(30) DEF Abs!Install, Abs!MayPublish, Pending
    <3> QED BY <3>7, ZenonT(30) DEF Abs!ANext
  <2> QED BY <2>1, <2>2, ZenonT(30)
<1>6. CASE StampLoad(t) \/ StampRead(t)
  BY <1>0, <1>6, <1>s, ZenonT(30) DEF StampLoad, StampRead, Return, Uncommitted, TypeOK, Goto, shared
<1>7. CASE StampCAS(t)
  <2>1. CASE active # live[t]
    BY <1>0, <1>7, <2>1, <1>s, ZenonT(30) DEF StampCAS, Uncommitted, TypeOK, Goto
  <2>2. CASE active = live[t]
    <3>1. /\ active' = next[t] /\ next[t] \in Snapshot /\ FlagOK(next[t])
          /\ next[t].gen = active.gen + 1 /\ next[t].content = active.content
          /\ next[t].off = ~active.off
      BY <1>0, <1>7, <2>2, ZenonT(30) DEF StampCAS, NextOK
    <3>2. Pending' = Pending
      BY <1>0, <1>7, <2>2, PendingUnchanged, ZenonT(30) DEF StampCAS, Uncommitted, TypeOK, Goto
    <3>3. Abs!Flip
      BY <1>0, <3>1, <3>2, ZenonT(30) DEF Abs!Flip, Abs!MayPublish, FlagOK, Pending
    <3> QED BY <3>3, ZenonT(30) DEF Abs!ANext
  <2> QED BY <2>1, <2>2, ZenonT(30)
<1>8. CASE PublishLoad(t) \/ PublishCAS(t)
  BY <1>0, <1>8, <1>s, ZenonT(60)
     DEF PublishLoad, PublishCAS, AfterPublish, Return, Uncommitted, TypeOK, Goto, shared
<1> QED
  BY <1>1, <1>2, <1>3, <1>4, <1>5, <1>6, <1>7, <1>8, ZenonT(30) DEF Start, Step, Writes, Abs!ANext

\* Swap and StampEmergency, with their loads, retries and compare-and-swaps,
\* implement the atomic register: an installation takes effect exactly once and
\* a stamp never brings back a replaced content.
THEOREM Refinement == StoreSpec => Atomic
<1>1. StoreInit => Abs!AInit
  <2> SUFFICES ASSUME StoreInit PROVE Abs!AInit
    BY ZenonT(30)
  <2>1. Pending = [t \in Threads |-> Nil]
    BY ZenonT(30) DEF StoreInit, Pending, Uncommitted
  <2> QED BY <2>1, ZenonT(30) DEF StoreInit, Abs!AInit, Pending
<1>2. ASSUME Inductive, [StoreNext]_storeVars PROVE [Abs!ANext]_(Abs!avars)
  <2>1. ASSUME NEW t \in Threads, Start(t) \/ Step(t) PROVE [Abs!ANext]_(Abs!avars)
    BY <1>2, <2>1, StepSimulation
  <2>2. CASE UNCHANGED storeVars
    BY <2>2 DEF storeVars, Abs!avars, Uncommitted
  <2> QED BY <1>2, <2>1, <2>2 DEF StoreNext, StoreRest
<1> QED BY <1>1, <1>2, Invariance, PTL DEF StoreSpec, Atomic, Abs!ASpec

-----------------------------------------------------------------------------
(* Names *)

\* The ancestors of a name are the names it begins with.
LEMMA AncestorsBegin ==
    ASSUME NEW S, NEW n \in Seq(S), NEW a
    PROVE  a \in Ancestors(n) <=> a \in Seq(S) /\ Len(a) <= Len(n) /\ \A i \in 1..Len(a) : a[i] = n[i]
<1>1. \A k \in 0..Len(n) : /\ SubSeq(n, 1, k) \in Seq(S) /\ Len(SubSeq(n, 1, k)) = k
                           /\ \A i \in 1..k : SubSeq(n, 1, k)[i] = n[i]
  BY SMTT(30)
<1>2. ASSUME a \in Ancestors(n) PROVE a \in Seq(S) /\ Len(a) <= Len(n) /\ \A i \in 1..Len(a) : a[i] = n[i]
  <2>1. PICK k \in 0..Len(n) : a = SubSeq(n, 1, k) BY <1>2, ZenonT(30) DEF Ancestors
  <2>2. k <= Len(n) BY <2>1, SMTT(30)
  <2> QED BY <1>1, <2>1, <2>2, ZenonT(30)
<1>3. ASSUME a \in Seq(S), Len(a) <= Len(n), \A i \in 1..Len(a) : a[i] = n[i] PROVE a \in Ancestors(n)
  <2> DEFINE k == Len(a)
             b == SubSeq(n, 1, k)
  <2>1. k \in 0..Len(n) BY <1>3, SMTT(30)
  <2>2. b \in Seq(S) /\ Len(b) = Len(a) /\ \A i \in 1..Len(a) : b[i] = a[i] BY <1>1, <1>3, <2>1, ZenonT(30)
  <2> HIDE DEF b
  <2>3. a = b BY <1>3, <2>2, SMTT(30)
  <2> QED BY <2>1, <2>3, ZenonT(30) DEF Ancestors, b
<1> QED BY <1>2, <1>3, ZenonT(30)

\* An ancestor of an ancestor is one, the longer of two ancestors is below the other, and two
\* ancestors of one length are the same.
LEMMA AncestorsChain ==
    ASSUME NEW S, NEW n \in Seq(S)
    PROVE  /\ n \in Ancestors(n)
           /\ \A a \in Ancestors(n) : a \in Seq(S) /\ Len(a) \in Nat /\ Len(a) <= Len(n) /\ Ancestors(a) \subseteq Ancestors(n)
           /\ \A a, b \in Ancestors(n) : Len(a) <= Len(b) => a \in Ancestors(b)
           /\ \A a, b \in Ancestors(n) : Len(a) = Len(b) => a = b
<1>1. \A a : a \in Ancestors(n) <=> a \in Seq(S) /\ Len(a) <= Len(n) /\ \A i \in 1..Len(a) : a[i] = n[i]
  BY AncestorsBegin, ZenonT(30)
<1>2. Len(n) \in Nat /\ Len(n) <= Len(n) /\ \A a \in Seq(S) : Len(a) \in Nat BY SMTT(30)
<1>3. n \in Ancestors(n) BY <1>1, <1>2, ZenonT(30)
<1>4. ASSUME NEW a \in Ancestors(n) PROVE Ancestors(a) \subseteq Ancestors(n)
  <2>1. a \in Seq(S) /\ Len(a) <= Len(n) /\ \A i \in 1..Len(a) : a[i] = n[i] BY <1>1, <1>4, ZenonT(30)
  <2>a. a \in Seq(S) BY <2>1, ZenonT(30)
  <2>b. \A b : b \in Ancestors(a) <=> b \in Seq(S) /\ Len(b) <= Len(a) /\ \A i \in 1..Len(b) : b[i] = a[i]
    BY <2>a, AncestorsBegin, ZenonT(30)
  <2>2. ASSUME NEW b \in Ancestors(a) PROVE b \in Ancestors(n)
    <3>1. b \in Seq(S) /\ Len(b) <= Len(a) /\ \A i \in 1..Len(b) : b[i] = a[i]
      BY <2>2, <2>b, ZenonT(30)
    <3>2. Len(b) <= Len(n) /\ \A i \in 1..Len(b) : i \in 1..Len(a) BY <2>1, <3>1, <1>2, SMTT(30)
    <3> QED BY <1>1, <2>1, <3>1, <3>2, ZenonT(30)
  <2> QED BY <2>2, ZenonT(30)
<1>5. ASSUME NEW a \in Ancestors(n), NEW b \in Ancestors(n), Len(a) <= Len(b) PROVE a \in Ancestors(b)
  <2>1. a \in Seq(S) /\ \A i \in 1..Len(a) : a[i] = n[i] BY <1>1, <1>5, ZenonT(30)
  <2>2. b \in Seq(S) /\ \A i \in 1..Len(b) : b[i] = n[i] BY <1>1, <1>5, ZenonT(30)
  <2>3. \A i \in 1..Len(a) : i \in 1..Len(b) BY <2>1, <2>2, <1>5, SMTT(30)
  <2>4. \A i \in 1..Len(a) : a[i] = b[i] BY <2>1, <2>2, <2>3, ZenonT(30)
  <2> QED BY <1>5, <2>1, <2>2, <2>4, AncestorsBegin, ZenonT(30)
<1>6. ASSUME NEW a \in Ancestors(n), NEW b \in Ancestors(n), Len(a) = Len(b) PROVE a = b
  <2>1. a \in Seq(S) /\ b \in Seq(S) /\ \A i \in 1..Len(a) : a[i] = b[i] BY <1>1, <1>6, ZenonT(30)
  <2> QED BY <1>6, <2>1, SMTT(30)
<1> QED BY <1>1, <1>2, <1>3, <1>4, <1>5, <1>6, ZenonT(30)

-----------------------------------------------------------------------------
(* Induction and recursion, from the least-number principle: the library's *)
(* theorems about them take operators as parameters.                       *)

\* A set of numbers that is not empty has a least one.
LEMMA Smallest ==
    ASSUME NEW T, T \subseteq Nat, T # {}
    PROVE  \E m \in T : \A n \in T : m <= n
<1> DEFINE R == OpToRel(<, Nat)
<1>1. IsWellFoundedOn(R, Nat) BY NatLessThanWellFounded, ZenonT(30)
<1>2. \A x, y \in Nat : x < y => <<x, y>> \in R BY ZenonT(30) DEF OpToRel
<1> HIDE DEF R
<1>3. PICK m \in T : \A n \in T : <<n, m>> \notin R BY <1>1, WFMin, ZenonT(30)
<1>4. \A n \in T : ~(n < m) BY <1>2, <1>3, ZenonT(30)
<1> QED BY <1>4, <1>3, SMTT(30)

\* A set of numbers up to n that is not empty has a largest one.
LEMMA Largest ==
    ASSUME NEW n \in Nat, NEW T, T \subseteq 0..n, T # {}
    PROVE  \E m \in T : \A k \in T : k <= m
<1> DEFINE R == {n - k : k \in T}
<1>1. R \subseteq Nat BY SMTT(30)
<1>2. R # {} BY ZenonT(30)
<1>3. PICK d \in R : \A e \in R : d <= e BY <1>1, <1>2, Smallest, ZenonT(30)
<1>4. PICK m \in T : d = n - m BY <1>3, ZenonT(30)
<1>5. \A k \in T : n - m <= n - k BY <1>3, <1>4, ZenonT(30)
<1>6. \A k \in T : k <= m BY <1>4, <1>5, SMTT(30)
<1> QED BY <1>4, <1>6, ZenonT(30)

\* Induction up to n, on a set.
LEMMA UpTo ==
    ASSUME NEW n \in Nat, NEW S, 0 \in S, \A k \in 1..n : k - 1 \in S => k \in S
    PROVE  \A k \in 0..n : k \in S
<1> DEFINE T == {k \in 0..n : k \notin S}
<1> SUFFICES ASSUME T # {} PROVE FALSE BY ZenonT(30)
<1>0. T \subseteq Nat BY SMTT(30)
<1>1. PICK m \in T : \A k \in T : m <= k BY <1>0, Smallest, ZenonT(30)
<1>2. m \in 0..n /\ m \notin S /\ m # 0 BY ZenonT(30)
<1>3. m \in 1..n /\ m - 1 \in 0..n /\ ~(m <= m - 1) BY <1>2, SMTT(30)
<1>4. m - 1 \in S BY <1>1, <1>3, ZenonT(30)
<1> QED BY <1>2, <1>3, <1>4, ZenonT(30)

\* s starts with v0 and goes on by the functions of h, up to m.
Follows(s, h, v0, m) == s[0] = v0 /\ \A k \in 1..m : s[k] = h[k][s[k - 1]]

\* A recursion over 0..n has a solution.
LEMMA Recursion ==
    ASSUME NEW n \in Nat, NEW V, NEW v0 \in V, NEW h \in [1..n -> [V -> V]]
    PROVE  \E s \in [0..n -> V] : Follows(s, h, v0, n)
<1> DEFINE S == {m \in 0..n : \E s \in [0..m -> V] : Follows(s, h, v0, m)}
<1>1. 0 \in S
  <2> DEFINE s == [k \in 0..0 |-> v0]
  <2>1. s \in [0..0 -> V] /\ s[0] = v0 BY SMTT(30)
  <2>2. Follows(s, h, v0, 0) BY <2>1, SMTT(30) DEF Follows
  <2> HIDE DEF s
  <2>3. 0 \in 0..n BY SMTT(30)
  <2> QED BY <2>1, <2>2, <2>3, ZenonT(30)
<1>2. ASSUME NEW m \in 1..n, m - 1 \in S PROVE m \in S
  <2>1. PICK s \in [0..(m - 1) -> V] : Follows(s, h, v0, m - 1) BY <1>2, ZenonT(30)
  <2> DEFINE t == [k \in 0..m |-> IF k = m THEN h[m][s[m - 1]] ELSE s[k]]
  <2>2. m \in Nat /\ m - 1 \in 0..(m - 1) /\ m \in 0..n /\ 0 \in 0..(m - 1) BY SMTT(30)
  <2>3. h[m][s[m - 1]] \in V BY <2>1, <2>2, ZenonT(30)
  <2>4. \A k \in 0..m : k # m => k \in 0..(m - 1) BY <2>2, SMTT(30)
  <2>5. t \in [0..m -> V] BY <2>1, <2>3, <2>4, ZenonT(30)
  <2>6. \A k \in 0..(m - 1) : k \in 0..m /\ k # m BY <2>2, SMTT(30)
  <2>7. m \in 0..m BY <2>2, SMTT(30)
  <2>8. t[m] = h[m][s[m - 1]] /\ \A k \in 0..(m - 1) : t[k] = s[k] BY <2>6, <2>7, ZenonT(30)
  <2> HIDE DEF t
  <2>9. Follows(t, h, v0, m)
    <3>1. \A k \in 1..m : k - 1 \in 0..(m - 1) /\ (k = m \/ k \in 1..(m - 1)) BY <2>2, SMTT(30)
    <3>2. \A k \in 1..(m - 1) : k \in 0..(m - 1) BY <2>2, SMTT(30)
    <3>3. t[0] = v0 BY <2>1, <2>2, <2>8, ZenonT(30) DEF Follows
    <3>4. ASSUME NEW k \in 1..m PROVE t[k] = h[k][t[k - 1]]
      <4>1. CASE k = m BY <4>1, <3>1, <2>8, ZenonT(30)
      <4>2. CASE k \in 1..(m - 1) BY <4>2, <3>1, <3>2, <2>1, <2>8, ZenonT(30) DEF Follows
      <4> QED BY <3>1, <4>1, <4>2, ZenonT(30)
    <3> QED BY <3>3, <3>4, ZenonT(30) DEF Follows
  <2> QED BY <2>2, <2>5, <2>9, ZenonT(30)
<1>3. n \in 0..n BY SMTT(30)
<1> HIDE DEF S
<1>4. n \in S BY <1>1, <1>2, <1>3, UpTo, ZenonT(30)
<1> QED BY <1>4, ZenonT(30) DEF S

\* Among ancestors of a name there is a longest.
LEMMA LongestExists ==
    ASSUME NEW S, NEW n \in Seq(S), NEW A, A \subseteq Ancestors(n), A # {}
    PROVE  \E a \in A : \A b \in A : Len(b) <= Len(a)
<1> DEFINE T == {Len(a) : a \in A}
<1>1. Len(n) \in Nat BY SMTT(30)
<1>2. \A a \in A : Len(a) \in 0..Len(n)
  <2>1. \A a \in A : Len(a) \in Nat /\ Len(a) <= Len(n) BY AncestorsChain, ZenonT(30)
  <2> QED BY <1>1, <2>1, SMTT(30)
<1>3. T \subseteq 0..Len(n) /\ T # {} BY <1>2, ZenonT(30)
<1>4. PICK m \in T : \A k \in T : k <= m BY <1>1, <1>3, Largest, ZenonT(30)
<1> QED BY <1>4, ZenonT(30)

\* ZoneIndex.Select and ForwardingIndex.Select: the deepest suffix that covers the name, if any does.
LEMMA SuffixSelected ==
    ASSUME NEW S, NEW n \in Seq(S), NEW s, s \in Seq(Elements(s))
    PROVE  /\ SelectSuffix(n, s) # 0 =>
                /\ SelectSuffix(n, s) \in DOMAIN s /\ InZone(n, s[SelectSuffix(n, s)].name)
                /\ \A i \in DOMAIN s : InZone(n, s[i].name) => Len(s[i].name) <= Len(s[SelectSuffix(n, s)].name)
           /\ SelectSuffix(n, s) = 0 => \A i \in DOMAIN s : ~InZone(n, s[i].name)
<1> DEFINE m == {i \in DOMAIN s : InZone(n, s[i].name)}
           Best(i) == \A j \in m : Len(s[j].name) <= Len(s[i].name)
<1>0. 0 \notin DOMAIN s BY SMTT(30)
<1>1. SelectSuffix(n, s) = IF m = {} THEN 0 ELSE CHOOSE i \in m : Best(i) BY ZenonT(30) DEF SelectSuffix
<1>2. CASE m = {}
  BY <1>1, <1>2, ZenonT(30)
<1>3. CASE m # {}
  <2> DEFINE A == {s[i].name : i \in m}
  <2>1. A \subseteq Ancestors(n) /\ A # {} BY <1>3, ZenonT(30) DEF InZone
  <2>2. PICK a \in A : \A b \in A : Len(b) <= Len(a) BY <2>1, LongestExists, ZenonT(30)
  <2>3. \E i \in m : Best(i) BY <2>2, ZenonT(30)
  <2>4. SelectSuffix(n, s) \in m /\ Best(SelectSuffix(n, s)) BY <1>1, <1>3, <2>3, ZenonT(30)
  <2> QED BY <1>0, <2>4, ZenonT(30)
<1> QED BY <1>2, <1>3, ZenonT(30)

-----------------------------------------------------------------------------
(* AccessIndex.Classify *)

\* Entry b, if not 0, is the longest of the first k entries that hold address a, the first of its length.
BestOf(a, k, b) ==
    /\ b \in 0..k
    /\ b = 0 => \A j \in 1..k : ~PrefixHolds(j, a)
    /\ b # 0 => /\ PrefixHolds(b, a)
                /\ \A j \in 1..k : PrefixHolds(j, a) => Bits(j) < Bits(b) \/ (Bits(j) = Bits(b) /\ b <= j)

\* One turn of the loop keeps the best entry.
LEMMA BestKept ==
    ASSUME NEW n \in Nat, \A i \in 1..n : Bits(i) \in Nat, NEW a, NEW k \in 1..n, NEW b, BestOf(a, k - 1, b)
    PROVE  BestOf(a, k, IF Beats(a, k, b) THEN k ELSE b)
<1>0. k \in Nat /\ k # 0 /\ k \in 0..k /\ Bits(k) \in Nat /\ (\A j \in 1..k : j = k \/ j \in 1..(k - 1)) BY SMTT(30)
<1>1. CASE Beats(a, k, b)
  <2>1. PrefixHolds(k, a) /\ (b = 0 \/ Bits(k) > Bits(b)) BY <1>1, ZenonT(30) DEF Beats
  <2>2. ASSUME NEW j \in 1..k, PrefixHolds(j, a) PROVE Bits(j) < Bits(k) \/ (Bits(j) = Bits(k) /\ k <= j)
    <3>1. CASE j = k BY <1>0, <3>1, SMTT(30)
    <3>2. CASE j \in 1..(k - 1)
      <4>1. b # 0 /\ (Bits(j) < Bits(b) \/ Bits(j) = Bits(b)) BY <2>2, <3>2, ZenonT(30) DEF BestOf
      <4>2. b \in 1..n /\ j \in 1..n BY <3>2, <4>1, SMTT(30) DEF BestOf
      <4>3. Bits(b) \in Nat /\ Bits(j) \in Nat BY <4>2, ZenonT(30)
      <4> QED BY <1>0, <2>1, <4>1, <4>3, SMTT(30)
    <3> QED BY <1>0, <3>1, <3>2, ZenonT(30)
  <2>3. BestOf(a, k, k) BY <1>0, <2>1, <2>2, ZenonT(30) DEF BestOf
  <2> QED BY <1>1, <2>3, ZenonT(30)
<1>2. CASE ~Beats(a, k, b)
  <2>0. b \in 0..(k - 1) /\ b \in 0..k BY SMTT(30) DEF BestOf
  <2>1. ASSUME b = 0 PROVE BestOf(a, k, b)
    <3>1. ~PrefixHolds(k, a) BY <1>2, <2>1, ZenonT(30) DEF Beats
    <3> QED BY <1>0, <2>0, <2>1, <3>1, ZenonT(30) DEF BestOf
  <2>2. ASSUME b # 0 PROVE BestOf(a, k, b)
    <3>1. b \in 1..n /\ b <= k BY <2>0, <2>2, SMTT(30)
    <3>2. Bits(b) \in Nat BY <3>1, ZenonT(30)
    <3>3. ASSUME PrefixHolds(k, a) PROVE Bits(k) < Bits(b) \/ (Bits(k) = Bits(b) /\ b <= k)
      <4>1. ~(Bits(k) > Bits(b)) BY <1>2, <2>2, <3>3, ZenonT(30) DEF Beats
      <4> QED BY <1>0, <3>1, <3>2, <4>1, SMTT(30)
    <3> QED BY <1>0, <2>0, <2>2, <3>3, ZenonT(30) DEF BestOf
  <2>3. BestOf(a, k, b) BY <2>1, <2>2, ZenonT(30)
  <2> QED BY <1>2, <2>3, ZenonT(30)
<1> QED BY <1>1, <1>2, ZenonT(30)

\* The loop over the entries finds the longest prefix, the first configured among equals.
LEMMA EntryBest ==
    ASSUME NEW n \in Nat, n = Len(doc.access), \A i \in 1..n : Bits(i) \in Nat, NEW a
    PROVE  BestOf(a, n, BestEntry(a))
<1> DEFINE V == 0..n
           h == [k \in 1..n |-> [v \in V |-> IF Beats(a, k, v) THEN k ELSE v]]
           R(s) == s = [k \in 0..n |-> IF k = 0 THEN 0 ELSE IF Beats(a, k, s[k - 1]) THEN k ELSE s[k - 1]]
           c == CHOOSE x : R(x)
<1>1. BestEntry(a) = c[n] BY ZenonT(30) DEF BestEntry
<1>2. 0 \in V /\ n \in V /\ \A k \in 1..n : k \in V /\ k - 1 \in 0..n /\ k # 0 BY SMTT(30)
<1>3. h \in [1..n -> [V -> V]]
  <2>1. \A k \in 1..n : [v \in V |-> IF Beats(a, k, v) THEN k ELSE v] \in [V -> V] BY <1>2, ZenonT(30)
  <2> QED BY <2>1, ZenonT(30)
<1>4. \A k \in 1..n, v \in V : h[k][v] = IF Beats(a, k, v) THEN k ELSE v BY ZenonT(30)
<1> HIDE DEF h, V
<1>5. PICK s \in [0..n -> V] : Follows(s, h, 0, n) BY <1>2, <1>3, Recursion, ZenonT(30)
<1>6. \A k \in 0..n : k # 0 => k \in 1..n BY SMTT(30)
<1>7. R(s)
  <2>1. \A k \in 1..n : s[k] = IF Beats(a, k, s[k - 1]) THEN k ELSE s[k - 1]
    <3>1. \A k \in 1..n : s[k - 1] \in V /\ s[k] = h[k][s[k - 1]] BY <1>2, <1>5, ZenonT(30) DEF Follows
    <3> QED BY <1>4, <3>1, ZenonT(30)
  <2>2. s[0] = 0 BY <1>5, ZenonT(30) DEF Follows
  <2>3. \A k \in 0..n : s[k] = IF k = 0 THEN 0 ELSE IF Beats(a, k, s[k - 1]) THEN k ELSE s[k - 1]
    BY <1>6, <2>1, <2>2, ZenonT(30)
  <2> QED BY <2>3, ZenonT(30)
<1>8. R(c) BY <1>7, ZenonT(30)
<1>9. c[0] = 0 /\ \A k \in 1..n : c[k] = IF Beats(a, k, c[k - 1]) THEN k ELSE c[k - 1]
  BY <1>2, <1>8, ZenonT(30) DEF V
<1> HIDE DEF c
<1> DEFINE S == {k \in 0..n : BestOf(a, k, c[k])}
<1>10. 0 \in S
  <2>1. 0 \in 0..0 /\ 1..0 = {} /\ 0 \in 0..n BY SMTT(30)
  <2>2. BestOf(a, 0, 0) BY <2>1, ZenonT(30) DEF BestOf
  <2> QED BY <1>9, <2>1, <2>2, ZenonT(30)
<1>11. ASSUME NEW k \in 1..n, k - 1 \in S PROVE k \in S
  <2>1. BestOf(a, k - 1, c[k - 1]) BY <1>11, ZenonT(30)
  <2>2. BestOf(a, k, IF Beats(a, k, c[k - 1]) THEN k ELSE c[k - 1]) BY <2>1, BestKept, ZenonT(30)
  <2>3. k \in 0..n BY SMTT(30)
  <2> QED BY <1>9, <2>2, <2>3, ZenonT(30)
<1> HIDE DEF S
<1>12. n \in S
  <2>1. n \in 0..n BY SMTT(30)
  <2> QED BY <1>10, <1>11, <2>1, UpTo, ZenonT(30)
<1> QED BY <1>1, <1>12, ZenonT(30) DEF S

-----------------------------------------------------------------------------
(* Zones *)

AnyName == Seq(Labels \cup {"none", "*"})

\* A configured name is one.
LEMMA Configured == \A n \in Seq(Labels) : n \in AnyName
BY SMTT(30) DEF AnyName

\* The names of a zone's RRsets.
ZoneOK(z) ==
    /\ Apex(z) \in AnyName
    /\ \A r \in RRsets(z) :
          r.owner \in AnyName /\ CheckDNSName(r.owner) /\ (r.type = "CNAME" => r.data[1] \in Seq(Labels))

\* Every zone of a document is made of names.
LEMMA ZonesOK ==
    ASSUME NEW d \in Documents, NEW i \in DOMAIN d.zones
    PROVE  ZoneOK(d.zones[i])
<1> DEFINE z == d.zones[i]
           ns == [id |-> "", owner |-> Apex(z), type |-> "NS", data |-> <<"ns">>]
<1>1. /\ z.name \in Seq(Labels) /\ CheckDNSName(z.name) /\ z.records \in Seq(Elements(z.records))
      /\ \A r \in Elements(z.records) :
            r.owner \in Seq(Labels) \cup {NoName} /\ CheckDNSName(r.owner) /\ (r.type = "CNAME" => r.data[1] \in Seq(Labels))
  BY DocumentAssumption, ZenonT(30) DEF WellFormed
<1>2. \A n \in Seq(Labels) : n \in AnyName BY Configured, ZenonT(30)
<1>3. NoName \in AnyName BY SMTT(30) DEF AnyName, NoName
<1>4. RRsets(z) = Elements(z.records) \/ RRsets(z) = Elements(z.records) \cup {ns} BY ZenonT(30) DEF RRsets
<1>5. ns.owner = z.name /\ ns.type = "NS" BY ZenonT(30) DEF Apex
<1> HIDE DEF z, ns
<1>6. Apex(z) \in AnyName BY <1>1, <1>2, ZenonT(30) DEF Apex
<1>9. \A r \in Elements(z.records) : r.owner \in AnyName BY <1>1, <1>2, <1>3, ZenonT(30)
<1>10. \A r \in RRsets(z) :
         r.owner \in AnyName /\ CheckDNSName(r.owner) /\ (r.type = "CNAME" => r.data[1] \in Seq(Labels))
  <2>1. ns.owner \in AnyName /\ CheckDNSName(ns.owner) BY <1>1, <1>2, <1>5, ZenonT(30)
  <2>2. ns.type # "CNAME" BY <1>5, SMTT(30)
  <2> QED BY <1>1, <1>4, <1>9, <2>1, <2>2, ZenonT(30)
<1> QED BY <1>6, <1>10, ZenonT(30) DEF ZoneOK, z

\* Nothing is below a wildcard: what is owned there is its own.
LEMMA WildOwns ==
    ASSUME ZoneOK(Z), NEW a, a \in AnyName, \A r \in RRsets(Z) : r.owner # WildcardOwner(a)
    PROVE  Owned(WildcardOwner(a)) = {}
<1> DEFINE w == WildcardOwner(a)
<1>1. w \in AnyName /\ Len(w) \in Nat \ {0} /\ w[Len(w)] = "*" BY SMTT(30) DEF WildcardOwner, AnyName
<1> HIDE DEF w
<1>2. ASSUME NEW r \in RRsets(Z), w \in Ancestors(r.owner) PROVE FALSE
  <2> DEFINE o == r.owner
  <2>1. o \in AnyName /\ CheckDNSName(o) /\ o # w BY ZenonT(30) DEF ZoneOK, w
  <2>2. PICK k \in 0..Len(o) : w = SubSeq(o, 1, k) BY <1>2, ZenonT(30) DEF Ancestors
  <2> HIDE DEF o
  <2>3. Len(o) \in Nat /\ DOMAIN o = 1..Len(o) /\ Len(w) = k BY <2>1, <2>2, SMTT(30) DEF AnyName
  <2>4. k \in 1..Len(o) BY <1>1, <2>3, SMTT(30)
  <2>7. w[k] = o[k] BY <2>1, <2>2, <2>4, SMTT(30) DEF AnyName
  <2>5. k = Len(o) BY <1>1, <2>1, <2>3, <2>4, <2>7, ZenonT(30) DEF CheckDNSName
  <2>6. SubSeq(o, 1, Len(o)) = o BY <2>1, SMTT(30) DEF AnyName
  <2> QED BY <2>1, <2>2, <2>5, <2>6, ZenonT(30)
<1> QED BY <1>2, ZenonT(30) DEF Owned, w

\* What the closest encloser ce says of a name n that does not exist.
Encloses(ce, n) ==
    /\ Owned(n) = {}
    /\ \A a \in Ancestors(n) : Owned(a) # {} => Len(a) < Len(WildcardOwner(ce))
    /\ \A a \in Ancestors(n) : InZone(a, Apex(Z)) /\ Owned(a) # {} =>
          a = ce \/ (ce \in Ancestors(n) /\ Len(ce) > Len(a) /\ Owned(ce) # {})
    /\ IsWildcardOwner(WildcardOwner(ce))
    /\ ~HasName(WildcardOwner(ce)) => Owned(WildcardOwner(ce)) = {}

\* ClosestEncloser finds, from a name of the zone that does not exist, the deepest ancestor that
\* does; empty non-terminals count.
LEMMA Enclosed ==
    ASSUME ZoneOK(Z), NEW n \in AnyName, InZone(n, Apex(Z)), ~HasName(n)
    PROVE  Encloses(ClosestEncloser(n), n)
<1> DEFINE ap == Apex(Z)
           A == {a \in Ancestors(n) \cap Exist : a # n}
           ce == ClosestEncloser(n)
           w == WildcardOwner(ce)
           L == Labels \cup {"none", "*"}
<1>0. ap \in Seq(L) /\ n \in Seq(L) /\ ap \in Ancestors(n) BY ZenonT(30) DEF ZoneOK, AnyName, InZone
<1>1. ASSUME NEW m, InZone(m, ap), Owned(m) # {} PROVE m \in Exist
  <2>1. PICK r \in RRsets(Z) : m \in Ancestors(r.owner) BY <1>1, ZenonT(30) DEF Owned
  <2>2. m \in {x \in Ancestors(r.owner) : InZone(x, Apex(Z))} BY <1>1, <2>1, ZenonT(30)
  <2> QED BY <2>2, ZenonT(30) DEF Exist
<1>2. \A m \in Exist : InZone(m, ap) /\ (m = ap \/ Owned(m) # {})
  <2>1. InZone(ap, ap) BY <1>0, AncestorsChain, ZenonT(30) DEF InZone
  <2> QED BY <2>1, ZenonT(30) DEF Exist, Owned
<1>3. ap \in Exist /\ n \notin Exist BY ZenonT(30) DEF Exist, HasName
<1>4. ap \in A BY <1>0, <1>3, ZenonT(30)
<1>5. PICK a \in A : \A b \in A : Len(b) <= Len(a)
  <2>1. A \subseteq Ancestors(n) /\ A # {} BY <1>4, ZenonT(30)
  <2> HIDE DEF A
  <2> QED BY <1>0, <2>1, LongestExists, ZenonT(30)
<1>6. ce \in A /\ \A b \in A : Len(b) <= Len(ce) BY <1>5, ZenonT(30) DEF ClosestEncloser
<1> HIDE DEF ce, A, L
<1>7. ce \in Ancestors(n) /\ ce \in Exist /\ ce \in Seq(L) BY <1>0, <1>6, AncestorsChain, ZenonT(30) DEF A
<1>8. Owned(n) = {} BY <1>1, <1>3, ZenonT(30)
<1>9. \A x \in Ancestors(n) : Len(x) \in Nat BY <1>0, AncestorsChain, ZenonT(30)
<1>10. \A x \in Ancestors(n) : InZone(x, ap) /\ Owned(x) # {} => x \in A BY <1>1, <1>8, ZenonT(30) DEF A
<1>11. Len(ap) <= Len(ce) BY <1>4, <1>6, ZenonT(30)
<1>12. Len(w) = Len(ce) + 1 /\ w # <<>> /\ w[Len(w)] = "*" /\ w \in Seq(L) /\ \A i \in 1..Len(ce) : w[i] = ce[i]
  BY <1>7, SMTT(30) DEF WildcardOwner, L
<1> HIDE DEF w
<1>13. ASSUME NEW x \in Ancestors(n), Owned(x) # {} PROVE Len(x) < Len(w)
  <2>1. Len(x) <= Len(ce)
    <3>1. CASE InZone(x, ap) BY <1>6, <1>10, <1>13, <3>1, ZenonT(30)
    <3>2. CASE ~InZone(x, ap)
      <4>1. ~(Len(ap) <= Len(x)) BY <1>0, <3>2, AncestorsChain, ZenonT(30) DEF InZone
      <4> QED BY <1>0, <1>7, <1>9, <1>11, <4>1, SMTT(30)
    <3> QED BY <3>1, <3>2, ZenonT(30)
  <2> QED BY <1>7, <1>9, <1>12, <2>1, SMTT(30)
<1>14. ASSUME NEW x \in Ancestors(n), InZone(x, ap), Owned(x) # {}, x # ce
       PROVE  Len(ce) > Len(x) /\ Owned(ce) # {}
  <2>1. Len(x) <= Len(ce) BY <1>6, <1>10, <1>14, ZenonT(30)
  <2>2. Len(x) # Len(ce) BY <1>0, <1>7, <1>14, AncestorsChain, ZenonT(30)
  <2>3. Len(ce) > Len(x) BY <1>7, <1>9, <2>1, <2>2, SMTT(30)
  <2>4. x \in Seq(L) BY <1>0, AncestorsChain, ZenonT(30)
  <2>5. Len(ap) <= Len(x) BY <1>14, <2>4, AncestorsChain, ZenonT(30) DEF InZone
  <2>6. Len(ce) # Len(ap) BY <1>0, <1>7, <1>9, <2>3, <2>5, SMTT(30)
  <2> QED BY <1>2, <1>7, <2>3, <2>6, ZenonT(30)
<1>15. ~HasName(w) => Owned(w) = {}
  <2>1. ce \in Ancestors(w)
    <3>1. Len(ce) <= Len(w) BY <1>7, <1>9, <1>12, SMTT(30)
    <3> QED BY <1>7, <1>12, <3>1, AncestorsBegin, ZenonT(30)
  <2>2. ap \in Ancestors(w) BY <1>2, <1>7, <1>12, <2>1, AncestorsChain, ZenonT(30) DEF InZone
  <2> QED BY <1>1, <2>2, ZenonT(30) DEF HasName, InZone
<1>16. IsWildcardOwner(w) BY <1>12, ZenonT(30) DEF IsWildcardOwner
<1> QED BY <1>7, <1>8, <1>13, <1>14, <1>15, <1>16, ZenonT(30) DEF Encloses, ce, w
-----------------------------------------------------------------------------
(* The inductive invariant of the local data path *)

\* A synthesized answer comes from a wildcard that nothing nearer overrides.
Yields(x) ==
    x.src # x.owner =>
        /\ IsWildcardOwner(x.src) /\ Owned(x.owner) = {}
        /\ \A a \in Ancestors(x.owner) : Owned(a) # {} => Len(a) < Len(x.src)

AllYield(g) == \A x \in g : Yields(x)

\* Nothing is at or below n, nor a wildcard under the nearest ancestor that exists.
Denies(n) ==
    /\ Owned(n) = {}
    /\ \A a \in Ancestors(n) : InZone(a, Apex(Z)) /\ Owned(a) # {} =>
          \/ Owned(WildcardOwner(a)) = {}
          \/ \E b \in Ancestors(n) : Len(b) > Len(a) /\ Owned(b) # {}

\* i is the deepest suffix of s that covers n, 0 when there is none.
Deepest(i, n, s) ==
    \/ i = 0 /\ \A j \in DOMAIN s : ~InZone(n, s[j].name)
    \/ /\ i \in DOMAIN s /\ InZone(n, s[i].name)
       /\ \A j \in DOMAIN s : InZone(n, s[j].name) => Len(s[j].name) <= Len(s[i].name)

\* What classify makes of a query.
Classed ==
    /\ q \in Queries /\ Deepest(cl.zone, q.name, doc.zones)
    /\ cl.allow => Deepest(cl.fwd, q.name, doc.forwarding) /\ MayForward(q.client)

\* A chain of aliases, and the name it leads to.
Alias(g) == (\E x \in g : x.type = "CNAME") /\ \A x \in g : x.type = "CNAME" => x.data[1] \in Seq(Labels)
Aliases(ls) == ls \in Seq(Elements(ls)) /\ \A k \in DOMAIN ls : Alias(ls[k])
End(ls) == IF ls = <<>> THEN q.name ELSE Target(ls[Len(ls)])

Served == stage \in {"walk", "local", "upstream", "done"}

\* The walk so far.
Walk ==
    /\ cl.zone # 0 /\ Aliases(answers) /\ current = End(answers)
    /\ \A k \in DOMAIN answers : AllYield(answers[k])

\* The local result.
Local ==
    /\ cl.zone # 0 /\ out.through => Z.mode = "overlay"
    /\ cl.zone = 0 \/ out.through => Aliases(out.answers)
    /\ DeniedNamesAreAbsent /\ WildcardsYield

Walked ==
    /\ doc \in Documents
    /\ stage \notin {"compile", "rejected"} => CompileOK(doc.zones)
    /\ ~Served => answers = <<>>
    /\ Served => Classed
    /\ stage = "walk" => Walk
    /\ stage \in {"local", "upstream", "done"} => Local
    /\ stage \notin {"upstream", "done"} => asked = NoAsk
    /\ ForwardsAsAllowed

-----------------------------------------------------------------------------
(* Chains and RRsets *)

\* A list is empty when its length is zero.
LEMMA Lists ==
    ASSUME NEW S, NEW ls \in Seq(S)
    PROVE  /\ Len(ls) \in Nat /\ DOMAIN ls = 1..Len(ls) /\ ls \in [1..Len(ls) -> S]
           /\ ls = <<>> <=> Len(ls) = 0
<1>1. Len(ls) \in Nat /\ ls \in [1..Len(ls) -> S] BY SMTT(30)
<1>2. ls = <<>> <=> Len(ls) = 0 BY SMTT(30)
<1> QED BY <1>1, <1>2, ZenonT(30)

\* bs is the list ls and then x.
Grown(ls, x, bs) ==
    /\ bs \in Seq(Elements(bs)) /\ bs # <<>> /\ bs[Len(bs)] = x
    /\ \A k \in DOMAIN bs : bs[k] = x \/ \E j \in DOMAIN ls : bs[k] = ls[j]

\* A list grows at its end.
LEMMA Grows ==
    ASSUME NEW ls, ls \in Seq(Elements(ls)), NEW x
    PROVE  Grown(ls, x, Append(ls, x))
<1> DEFINE T == Elements(ls) \cup {x}
           bs == Append(ls, x)
           n == Len(ls)
<1>1. n \in Nat /\ DOMAIN ls = 1..n BY Lists, ZenonT(30)
<1>2. Elements(ls) \subseteq T /\ x \in T BY ZenonT(30)
<1> HIDE DEF T
<1>3. ls \in Seq(T) BY <1>2, SMTT(30)
<1>4. bs \in Seq(T) /\ Len(bs) = n + 1 BY <1>2, <1>3, SMTT(30)
<1>5. bs[n + 1] = x /\ \A i \in 1..n : bs[i] = ls[i] BY <1>2, <1>3, SMTT(30)
<1> HIDE DEF bs, n
<1>6. /\ Len(bs) \in Nat /\ DOMAIN bs = 1..Len(bs) /\ bs \in [1..Len(bs) -> T] /\ bs # <<>>
  <2>1. n + 1 # 0 BY <1>1, SMTT(30)
  <2> QED BY <1>4, <2>1, Lists, ZenonT(30)
<1>7. \A k \in 1..(n + 1) : k = n + 1 \/ k \in 1..n BY <1>1, SMTT(30)
<1>8. \A k \in DOMAIN bs : bs[k] = x \/ \E j \in DOMAIN ls : bs[k] = ls[j] BY <1>1, <1>4, <1>5, <1>6, <1>7, ZenonT(30)
<1>9. bs \in Seq(Elements(bs))
  <2> DEFINE m == Len(bs)
  <2>1. bs \in [1..m -> Elements(bs)] /\ m \in Nat BY <1>6, ZenonT(30) DEF Elements
  <2> HIDE DEF m
  <2> QED BY <2>1, SMTT(30)
<1>10. Grown(ls, x, bs) BY <1>4, <1>5, <1>6, <1>8, <1>9, ZenonT(30) DEF Grown
<1> QED BY <1>10, ZenonT(30) DEF bs

\* A chain of aliases leads to the target of its last one.
LEMMA ChainEnd ==
    ASSUME NEW ls, Aliases(ls)
    PROVE  /\ ls = <<>> => LastTarget(ls) = NoName
           /\ ls # <<>> => /\ LastTarget(ls) = Target(ls[Len(ls)])
                           /\ Target(ls[Len(ls)]) \in Seq(Labels) /\ Target(ls[Len(ls)]) # NoName
<1> DEFINE c == {k \in DOMAIN ls : \E x \in ls[k] : x.type = "CNAME"}
           m == Len(ls)
<1>1. ls \in Seq(Elements(ls)) /\ \A k \in DOMAIN ls : Alias(ls[k]) BY ZenonT(30) DEF Aliases
<1>2. c = DOMAIN ls BY <1>1, ZenonT(30) DEF Alias
<1>3. m \in Nat /\ DOMAIN ls = 1..m /\ (ls = <<>> <=> m = 0) BY <1>1, Lists, ZenonT(30)
<1>4. NoName \notin Seq(Labels) BY DocumentAssumption, SMTT(30) DEF WellFormed, NoName
<1>5. LastTarget(ls) = IF c = {} THEN NoName ELSE Target(ls[CHOOSE k \in c : \A j \in c : j <= k]) BY ZenonT(30) DEF LastTarget
<1> HIDE DEF c, m
<1>6. CASE ls = <<>>
  <2>1. DOMAIN ls = {} BY <1>3, <1>6, SMTT(30)
  <2> QED BY <1>2, <1>5, <1>6, <2>1, ZenonT(30)
<1>7. CASE ls # <<>>
  <2>a. m # 0 BY <1>3, <1>7, ZenonT(30)
  <2>b. m \in 1..m /\ \A j \in 1..m : j <= m BY <1>3, <2>a, SMTT(30)
  <2>1. m \in DOMAIN ls /\ \A j \in DOMAIN ls : j <= m BY <1>3, <2>b, ZenonT(30)
  <2> DEFINE l == CHOOSE k \in c : \A j \in c : j <= k
  <2>2. l \in c /\ \A j \in c : j <= l BY <1>2, <2>1, ZenonT(30)
  <2> HIDE DEF l
  <2>3. l = m
    <3>1. l \in 1..m /\ m <= l BY <1>2, <1>3, <2>1, <2>2, ZenonT(30)
    <3> QED BY <1>3, <3>1, SMTT(30)
  <2>4. LastTarget(ls) = Target(ls[m]) BY <1>5, <2>2, <2>3, ZenonT(30) DEF l
  <2>5. Target(ls[m]) \in Seq(Labels) BY <1>1, <2>1, ZenonT(30) DEF Alias, Target
  <2> QED BY <1>4, <1>7, <2>4, <2>5, ZenonT(30) DEF m
<1> QED BY <1>6, <1>7, ZenonT(30)

\* What toRRs keeps of an RRset.
LEMMA RRFields ==
    ASSUME NEW r, NEW o
    PROVE  /\ ToRRs(r, o).owner = o /\ ToRRs(r, o).type = r.type
           /\ ToRRs(r, o).data = r.data /\ ToRRs(r, o).src = r.owner
BY ZenonT(30) DEF ToRRs

-----------------------------------------------------------------------------
(* Steps of the walk *)

\* The name a list of answers leads to.
LastOf(ls) == IF LastTarget(ls) = NoName THEN q.name ELSE LastTarget(ls)

\* Who may forward and what is overlaid is about the document only.
LEMMA Fixed ==
    ASSUME doc' = doc
    PROVE  (\A a : MayForward(a)' <=> MayForward(a)) /\ (\A n : Overlaid(n)' <=> Overlaid(n))
<1>1. \A i, a : PrefixHolds(i, a)' <=> PrefixHolds(i, a) BY ZenonT(30) DEF PrefixHolds
<1>2. \A i : Bits(i)' = Bits(i) BY ZenonT(30) DEF Bits
<1>3. \A a : MayForward(a)' <=> MayForward(a) BY <1>1, <1>2, ZenonT(30) DEF MayForward
<1>4. \A n : Overlaid(n)' <=> Overlaid(n) BY ZenonT(30) DEF Overlaid
<1> QED BY <1>3, <1>4, ZenonT(30)

\* What the walk has found is about the document, the query and its class only.
LEMMA Same ==
    ASSUME doc' = doc, q' = q, cl' = cl
    PROVE  /\ Z' = Z /\ (\A n : Owned(n)' = Owned(n))
           /\ (\A x : AllYield(x)' <=> AllYield(x)) /\ (\A n : Denies(n)' <=> Denies(n)) /\ (Classed' <=> Classed)
<1>1. Z' = Z BY ZenonT(30) DEF Z
<1>2. \A n : Owned(n)' = Owned(n) BY <1>1, SMTT(30) DEF Owned
<1>3. \A x : AllYield(x)' <=> AllYield(x)
  <2>1. \A x : Yields(x)' <=> Yields(x) BY <1>2, SMTT(30) DEF Yields
  <2> QED BY <2>1, ZenonT(30) DEF AllYield
<1>4. \A n : Denies(n)' <=> Denies(n) BY <1>1, <1>2, SMTT(30) DEF Denies
<1>5. Classed' <=> Classed BY Fixed, ZenonT(30) DEF Classed
<1> QED BY <1>1, <1>2, <1>3, <1>4, <1>5, ZenonT(30)

\* During the walk the current name is the end of the chain.
LEMMA InWalk ==
    ASSUME Walked, stage = "walk"
    PROVE  /\ cl.zone # 0 /\ ZoneOK(Z) /\ Aliases(answers) /\ (\A k \in DOMAIN answers : AllYield(answers[k]))
           /\ current \in AnyName /\ LastOf(answers) = current /\ asked = NoAsk /\ CompileOK(doc.zones) /\ Classed
           /\ doc \in Documents /\ ForwardsAsAllowed
<1>1. /\ doc \in Documents /\ Classed /\ Walk /\ asked = NoAsk /\ CompileOK(doc.zones) /\ ForwardsAsAllowed
  BY SMTT(30) DEF Walked, Served
<1>2. /\ cl.zone # 0 /\ Aliases(answers) /\ current = End(answers) /\ \A k \in DOMAIN answers : AllYield(answers[k])
  BY <1>1, ZenonT(30) DEF Walk
<1>3. q \in Queries /\ cl.zone \in DOMAIN doc.zones BY <1>1, <1>2, ZenonT(30) DEF Classed, Deepest
<1>4. ZoneOK(Z) BY <1>1, <1>3, ZonesOK, ZenonT(30) DEF Z
<1>5. q.name \in Seq(Labels) BY <1>3, DocumentAssumption, ZenonT(30) DEF WellFormed
<1>6. LastOf(answers) = current /\ current \in Seq(Labels)
  <2>1. CASE answers = <<>>
    <3>1. LastTarget(answers) = NoName BY <1>2, <2>1, ChainEnd, ZenonT(30)
    <3> QED BY <1>2, <1>5, <2>1, <3>1, ZenonT(30) DEF LastOf, End
  <2>2. CASE answers # <<>>
    <3>1. /\ LastTarget(answers) = Target(answers[Len(answers)])
          /\ Target(answers[Len(answers)]) \in Seq(Labels) /\ Target(answers[Len(answers)]) # NoName
      BY <1>2, <2>2, ChainEnd, ZenonT(30)
    <3> QED BY <1>2, <2>2, <3>1, ZenonT(30) DEF LastOf, End
  <2> QED BY <2>1, <2>2, ZenonT(30)
<1>7. current \in AnyName BY <1>6, Configured, ZenonT(30)
<1> QED BY <1>1, <1>2, <1>4, <1>6, <1>7, ZenonT(30)

\* The fields of what Resolve may return.
LEMMA Outcomes ==
    /\ \A ls : Positive(ls).answers = ls /\ ~Positive(ls).through /\ Positive(ls).rcode = "NOERROR"
    /\ \A ls : Fallthrough(ls).answers = ls /\ Fallthrough(ls).rcode = "NOERROR"
    /\ \A rc, ls : Negative(rc, ls).answers = ls /\ ~Negative(rc, ls).through /\ Negative(rc, ls).rcode = rc
    /\ \A why : /\ ServFail(why).answers = <<>> /\ ~ServFail(why).through /\ ServFail(why).rcode = "SERVFAIL"
BY SMTT(30) DEF Positive, Fallthrough, Negative, ServFail, NoOut

\* The walk may end with answers that yield to what is nearer, and with a denial of what is absent.
LEMMA Finished ==
    ASSUME Walked, stage = "walk", doc' = doc, q' = q, cl' = cl, asked' = asked, stage' = "local",
           out'.through => Z.mode = "overlay" /\ Aliases(out'.answers),
           \A k \in DOMAIN out'.answers : AllYield(out'.answers[k]),
           out'.rcode = "NXDOMAIN" => Denies(LastOf(out'.answers))
    PROVE  Walked'
<1>1. /\ cl.zone # 0 /\ asked = NoAsk /\ CompileOK(doc.zones) /\ Classed /\ doc \in Documents
  BY InWalk, ZenonT(30)
<1>2. /\ Z' = Z /\ (\A x : AllYield(x)' <=> AllYield(x)) /\ (\A n : Denies(n)' <=> Denies(n)) /\ Classed'
  BY <1>1, Same, ZenonT(30)
<1>3. WildcardsYield'
  <2>1. (\A k \in DOMAIN out.answers : AllYield(out.answers[k]))' BY <1>2, ZenonT(30)
  <2> QED BY <2>1, ZenonT(30) DEF WildcardsYield, AllYield, Yields
<1>4. DeniedNamesAreAbsent'
  <2>1. LastName' = LastOf(out'.answers) BY ZenonT(30) DEF LastName, LastOf
  <2>2. out'.rcode = "NXDOMAIN" => Denies(LastName') BY <2>1, ZenonT(30)
  <2>3. out'.rcode = "NXDOMAIN" => Denies(LastName)' BY <1>2, <2>2, ZenonT(30)
  <2> QED BY <2>3, ZenonT(30) DEF DeniedNamesAreAbsent, Denies
<1>5. Local' BY <1>1, <1>2, <1>3, <1>4, ZenonT(30) DEF Local
<1>6. ForwardsAsAllowed' BY <1>1, ZenonT(30) DEF ForwardsAsAllowed
<1>7. CompileOK(doc.zones)' BY <1>1, ZenonT(30)
<1> QED BY <1>1, <1>2, <1>5, <1>6, <1>7, SMTT(30) DEF Walked, Served

\* The walk goes on along an alias.
LEMMA Continued ==
    ASSUME Walked, stage = "walk", doc' = doc, q' = q, cl' = cl, asked' = asked, stage' = stage,
           NEW x, answers' = Append(answers, x), current' = Target(x), Alias(x), AllYield(x)
    PROVE  Walked'
<1>1. /\ cl.zone # 0 /\ asked = NoAsk /\ CompileOK(doc.zones) /\ Classed /\ doc \in Documents
      /\ Aliases(answers) /\ \A k \in DOMAIN answers : AllYield(answers[k])
  BY InWalk, ZenonT(30)
<1>2. (\A y : AllYield(y)' <=> AllYield(y)) /\ Classed' BY <1>1, Same, ZenonT(30)
<1>3. /\ Aliases(answers') /\ answers' # <<>> /\ answers'[Len(answers')] = x
      /\ \A k \in DOMAIN answers' : answers'[k] = x \/ \E j \in DOMAIN answers : answers'[k] = answers[j]
  <2>1. Grown(answers, x, Append(answers, x)) BY <1>1, Grows, ZenonT(30) DEF Aliases
  <2> QED BY <1>1, <2>1, ZenonT(30) DEF Grown, Aliases
<1>4. current' = End(answers)' BY <1>3, ZenonT(30) DEF End
<1>5. \A k \in DOMAIN answers' : AllYield(answers'[k]) BY <1>1, <1>3, ZenonT(30)
<1>6. (\A k \in DOMAIN answers : AllYield(answers[k]))' BY <1>2, <1>5, ZenonT(30)
<1>7. Walk' BY <1>1, <1>3, <1>4, <1>6, ZenonT(30) DEF Walk
<1>8. ForwardsAsAllowed' BY <1>1, ZenonT(30) DEF ForwardsAsAllowed
<1>9. CompileOK(doc.zones)' BY <1>1, ZenonT(30)
<1> QED BY <1>1, <1>2, <1>7, <1>8, <1>9, SMTT(30) DEF Walked, Served

\* An RRset of the name itself, or of the wildcard under its closest encloser, is an answer that
\* yields.
LEMMA MayAnswer ==
    ASSUME NEW r, NEW n, r.owner = n \/ \E ce : Encloses(ce, n) /\ r.owner = WildcardOwner(ce)
    PROVE  Yields(ToRRs(r, n))
<1>1. ToRRs(r, n).owner = n /\ ToRRs(r, n).src = r.owner BY RRFields, ZenonT(30)
<1>2. CASE r.owner = n BY <1>1, <1>2, ZenonT(30) DEF Yields
<1>3. ASSUME NEW ce, Encloses(ce, n), r.owner = WildcardOwner(ce) PROVE Yields(ToRRs(r, n))
  <2>1. /\ Owned(n) = {} /\ IsWildcardOwner(WildcardOwner(ce))
        /\ \A a \in Ancestors(n) : Owned(a) # {} => Len(a) < Len(WildcardOwner(ce))
    BY <1>3, ZenonT(30) DEF Encloses
  <2> QED BY <1>1, <1>3, <2>1, ZenonT(30) DEF Yields
<1> QED BY <1>2, <1>3, ZenonT(30)

\* A walk that ends with RRsets that may answer.
LEMMA Answered ==
    ASSUME Walked, stage = "walk", doc' = doc, q' = q, cl' = cl, asked' = asked, stage' = "local",
           NEW S, \A r \in S : Yields(ToRRs(r, current)),
           answers' = Append(answers, AllToRRs(S, current)), out' = Positive(answers')
    PROVE  Walked'
<1> DEFINE g == AllToRRs(S, current)
<1>1. Aliases(answers) /\ \A k \in DOMAIN answers : AllYield(answers[k]) BY InWalk, ZenonT(30)
<1>2. ~out'.through /\ out'.answers = answers' /\ out'.rcode = "NOERROR" BY Outcomes, ZenonT(30)
<1>3. AllYield(g) BY ZenonT(30) DEF AllYield, AllToRRs
<1> HIDE DEF g
<1>4. Grown(answers, g, Append(answers, g)) BY <1>1, Grows, ZenonT(30) DEF Aliases
<1>5. answers' = Append(answers, g) BY ZenonT(30) DEF g
<1>6. \A k \in DOMAIN out'.answers : AllYield(out'.answers[k]) BY <1>1, <1>2, <1>3, <1>4, <1>5, ZenonT(30) DEF Grown
<1>7. out'.rcode # "NXDOMAIN" BY <1>2, SMTT(30)
<1> QED BY <1>2, <1>6, <1>7, Finished, ZenonT(30)

\* A walk that ends with a failure.
LEMMA Failed ==
    ASSUME Walked, stage = "walk", doc' = doc, q' = q, cl' = cl, asked' = asked, stage' = "local",
           NEW why, out' = ServFail(why)
    PROVE  Walked'
<1>1. ~out'.through /\ out'.answers = <<>> /\ out'.rcode = "SERVFAIL" BY Outcomes, ZenonT(30)
<1>2. out'.rcode # "NXDOMAIN" BY <1>1, SMTT(30)
<1>3. \A k \in DOMAIN out'.answers : AllYield(out'.answers[k]) BY <1>1, SMTT(30)
<1> QED BY <1>1, <1>2, <1>3, Finished, ZenonT(30)

\* A walk that ends at a name the zone does not answer.
LEMMA Missed ==
    ASSUME Walked, stage = "walk", doc' = doc, q' = q, cl' = cl, asked' = asked, stage' = "local",
           NEW rc, out' = Miss(rc, answers), rc = "NXDOMAIN" => Denies(current)
    PROVE  Walked'
<1>1. Aliases(answers) /\ LastOf(answers) = current /\ \A k \in DOMAIN answers : AllYield(answers[k]) BY InWalk, ZenonT(30)
<1>2. out'.answers = answers /\ (out'.through => Z.mode = "overlay") /\ (out'.rcode = rc \/ out'.rcode = "NOERROR")
  <2>1. CASE Z.mode = "overlay"
    <3>1. out' = Fallthrough(answers) BY <2>1, ZenonT(30) DEF Miss
    <3>2. Fallthrough(answers).answers = answers /\ Fallthrough(answers).rcode = "NOERROR" BY Outcomes, ZenonT(30)
    <3> QED BY <2>1, <3>1, <3>2, ZenonT(30)
  <2>2. CASE Z.mode # "overlay"
    <3>1. out' = Negative(rc, answers) BY <2>2, ZenonT(30) DEF Miss
    <3>2. Negative(rc, answers).answers = answers /\ ~Negative(rc, answers).through /\ Negative(rc, answers).rcode = rc
      BY Outcomes, ZenonT(30)
    <3> QED BY <3>1, <3>2, ZenonT(30)
  <2> QED BY <2>1, <2>2, ZenonT(30)
<1>3. out'.rcode = "NXDOMAIN" => Denies(LastOf(out'.answers))
  <2>1. "NOERROR" # "NXDOMAIN" BY SMTT(30)
  <2> QED BY <1>1, <1>2, <2>1, ZenonT(30)
<1> QED BY <1>1, <1>2, <1>3, Finished, ZenonT(30)

\* followCNAME
LEMMA Followed ==
    ASSUME Walked, stage = "walk", doc' = doc, q' = q, cl' = cl, asked' = asked,
           NEW r \in RRsets(Z), r.type = "CNAME", Yields(ToRRs(r, current)),
           Follow(r, Append(answers, AllToRRs({r}, current)))
    PROVE  Walked'
<1> DEFINE x == ToRRs(r, current)
           g == AllToRRs({r}, current)
<1>1. x.type = "CNAME" /\ x.data = r.data BY RRFields, ZenonT(30)
<1>2. x.data[1] \in Seq(Labels)
  <2>1. ZoneOK(Z) BY InWalk, ZenonT(30)
  <2> QED BY <1>1, <2>1, ZenonT(30) DEF ZoneOK
<1>3. answers' = Append(answers, g) /\ g = {x} BY ZenonT(30) DEF Follow, AllToRRs
<1>4. CASE depth + 1 > doc.maxDepth
  <2>1. stage' = "local" /\ out' = ServFail("depth") BY <1>4, ZenonT(30) DEF Follow, Finish
  <2> QED BY <2>1, Failed, ZenonT(30)
<1>5. CASE ~(depth + 1 > doc.maxDepth)
  <2>1. stage' = stage /\ current' = x.data[1] BY <1>1, <1>5, ZenonT(30) DEF Follow
  <2>2. Yields(x) OBVIOUS
  <2> HIDE DEF x, g
  <2>3. Alias(g) /\ AllYield(g) BY <1>1, <1>2, <1>3, <2>2, ZenonT(30) DEF Alias, AllYield
  <2>4. (CHOOSE y \in g : y.type = "CNAME") = x BY <1>1, <1>3, ZenonT(30)
  <2>5. current' = Target(g) BY <2>1, <2>4, ZenonT(30) DEF Target
  <2> QED BY <1>3, <2>1, <2>3, <2>5, Continued, ZenonT(30)
<1> QED BY <1>4, <1>5, ZenonT(30)

\* A name's RRsets are its own.
LEMMA Matches ==
    ASSUME NEW n
    PROVE  \A r \in Matching(n) : r.owner = n
<1> DEFINE soa == [id |-> "", owner |-> n, type |-> "SOA", data |-> <<"soa">>]
<1>0. soa.owner = n /\ SOASet(n) \subseteq {soa} BY ZenonT(30) DEF SOASet
<1> HIDE DEF soa
<1>1. \A r \in SOASet(n) : r.owner = n BY <1>0, ZenonT(30)
<1>2. Matching(n) \subseteq SOASet(n) \cup {r \in RRsets(Z) : r.owner = n} BY ZenonT(30) DEF Matching, RRset
<1> QED BY <1>1, <1>2, ZenonT(30)

\* Each step of the walk keeps the invariant.
LEMMA WalkStep ==
    ASSUME Walked, Loop \/ Leave \/ ExactAnswer \/ ExactFollow \/ ExactMiss
    PROVE  Walked'
<1>1. CASE Loop
  <2>1. /\ stage = "walk" /\ doc' = doc /\ q' = q /\ cl' = cl /\ asked' = asked
        /\ stage' = "local" /\ out' = ServFail("loop")
    BY <1>1, ZenonT(30) DEF Loop, Finish
  <2> QED BY <2>1, Failed, ZenonT(30)
<1>2. CASE Leave
  <2>1. /\ stage = "walk" /\ doc' = doc /\ q' = q /\ cl' = cl /\ asked' = asked /\ stage' = "local"
        /\ out' = IF Z.mode = "overlay" THEN Fallthrough(answers) ELSE Positive(answers)
    BY <1>2, ZenonT(30) DEF Leave, Finish
  <2>2. Aliases(answers) /\ \A k \in DOMAIN answers : AllYield(answers[k]) BY <2>1, InWalk, ZenonT(30)
  <2>3. Fallthrough(answers).answers = answers /\ Fallthrough(answers).rcode = "NOERROR" BY Outcomes, ZenonT(30)
  <2>4. Positive(answers).answers = answers /\ ~Positive(answers).through /\ Positive(answers).rcode = "NOERROR"
    BY Outcomes, ZenonT(30)
  <2>5. out'.answers = answers /\ out'.rcode = "NOERROR" /\ (out'.through => Z.mode = "overlay")
    <3>1. CASE Z.mode = "overlay" BY <2>1, <2>3, <3>1, ZenonT(30)
    <3>2. CASE Z.mode # "overlay" BY <2>1, <2>4, <3>2, ZenonT(30)
    <3> QED BY <3>1, <3>2, ZenonT(30)
  <2>6. out'.rcode # "NXDOMAIN" BY <2>5, SMTT(30)
  <2> QED BY <2>1, <2>2, <2>5, <2>6, Finished, ZenonT(30)
<1>3. CASE ExactAnswer
  <2>1. /\ stage = "walk" /\ doc' = doc /\ q' = q /\ cl' = cl /\ asked' = asked /\ stage' = "local"
        /\ answers' = Append(answers, AllToRRs(Matching(current), current)) /\ out' = Positive(answers')
    BY <1>3, ZenonT(30) DEF ExactAnswer, Finish, Exact, Walking
  <2>2. \A r \in Matching(current) : r.owner = current BY Matches, ZenonT(30)
  <2>3. \A r \in Matching(current) : Yields(ToRRs(r, current)) BY <2>2, MayAnswer, ZenonT(30)
  <2> QED BY <2>1, <2>2, <2>3, Answered, ZenonT(30)
<1>4. CASE ExactFollow
  <2>1. /\ stage = "walk" /\ doc' = doc /\ q' = q /\ cl' = cl /\ asked' = asked
    BY <1>4, ZenonT(30) DEF ExactFollow, Exact, Walking
  <2>2. PICK r \in RRset(current, "CNAME") : Follow(r, Append(answers, AllToRRs({r}, current)))
    BY <1>4, ZenonT(30) DEF ExactFollow
  <2>3. r \in RRsets(Z) /\ r.owner = current /\ r.type = "CNAME" BY ZenonT(30) DEF RRset
  <2>4. Yields(ToRRs(r, current)) BY <2>3, MayAnswer, ZenonT(30)
  <2> QED BY <2>1, <2>2, <2>3, <2>4, Followed, ZenonT(30)
<1>5. CASE ExactMiss
  <2>1. /\ stage = "walk" /\ doc' = doc /\ q' = q /\ cl' = cl /\ asked' = asked /\ stage' = "local"
        /\ out' = Miss("NOERROR", answers)
    BY <1>5, ZenonT(30) DEF ExactMiss, Finish, Exact, Walking
  <2>2. "NOERROR" # "NXDOMAIN" BY SMTT(30)
  <2> QED BY <2>1, <2>2, Missed, ZenonT(30)
<1> QED BY <1>1, <1>2, <1>3, <1>4, <1>5, ZenonT(30)

\* So does each step that synthesizes from a wildcard.
LEMMA WildStep ==
    ASSUME Walked, WildAnswer \/ WildFollow \/ WildMiss
    PROVE  Walked'
<1> DEFINE ce == ClosestEncloser(current)
<1>1. stage = "walk" /\ InZone(current, Apex(Z)) /\ ~HasName(current)
  BY ZenonT(30) DEF WildAnswer, WildFollow, WildMiss, Synth, Walking
<1>2. ZoneOK(Z) /\ current \in AnyName BY <1>1, InWalk, ZenonT(30)
<1>3. Encloses(ce, current) BY <1>1, <1>2, Enclosed, ZenonT(30)
<1>4. Wc = WildcardOwner(ce) BY ZenonT(30) DEF Wc
<1> HIDE DEF ce
<1>5. \A r : r.owner = Wc => Yields(ToRRs(r, current)) BY <1>3, <1>4, MayAnswer, ZenonT(30)
<1>6. CASE WildAnswer
  <2>1. /\ doc' = doc /\ q' = q /\ cl' = cl /\ asked' = asked /\ stage' = "local"
        /\ answers' = Append(answers, AllToRRs(WildMatching, current)) /\ out' = Positive(answers')
    BY <1>6, ZenonT(30) DEF WildAnswer, Finish
  <2>2. WildMatching \subseteq RRsets(Z) /\ \A r \in WildMatching : r.owner = Wc BY ZenonT(30) DEF WildMatching, RRset
  <2>4. \A r \in WildMatching : Yields(ToRRs(r, current)) BY <1>5, <2>2, ZenonT(30)
  <2> QED BY <1>1, <2>1, <2>4, Answered, ZenonT(30)
<1>7. CASE WildFollow
  <2>1. doc' = doc /\ q' = q /\ cl' = cl /\ asked' = asked BY <1>7, ZenonT(30) DEF WildFollow
  <2>2. PICK r \in RRset(Wc, "CNAME") : Follow(r, Append(answers, AllToRRs({r}, current)))
    BY <1>7, ZenonT(30) DEF WildFollow
  <2>3. r \in RRsets(Z) /\ r.owner = Wc /\ r.type = "CNAME" BY ZenonT(30) DEF RRset
  <2> QED BY <1>1, <1>5, <2>1, <2>2, <2>3, Followed, ZenonT(30)
<1>8. CASE WildMiss
  <2> DEFINE rc == IF HasName(Wc) /\ q.type # "ANY" THEN "NOERROR" ELSE "NXDOMAIN"
  <2>1. /\ doc' = doc /\ q' = q /\ cl' = cl /\ asked' = asked /\ stage' = "local" /\ out' = Miss(rc, answers)
    BY <1>8, ZenonT(30) DEF WildMiss, Finish
  <2>2. rc = "NXDOMAIN" => ~HasName(Wc) \/ q.type = "ANY" BY SMTT(30)
  <2> HIDE DEF rc
  <2>3. ASSUME rc = "NXDOMAIN" PROVE Denies(current)
    <3>1. /\ Owned(current) = {}
          /\ \A a \in Ancestors(current) : InZone(a, Apex(Z)) /\ Owned(a) # {} =>
                a = ce \/ (ce \in Ancestors(current) /\ Len(ce) > Len(a) /\ Owned(ce) # {})
          /\ ~HasName(Wc) => Owned(Wc) = {}
      BY <1>3, <1>4, ZenonT(30) DEF Encloses
    <3>2. ASSUME NEW a \in Ancestors(current), InZone(a, Apex(Z)), Owned(a) # {}
          PROVE  Owned(WildcardOwner(a)) = {} \/ \E b \in Ancestors(current) : Len(b) > Len(a) /\ Owned(b) # {}
      <4>1. Owned(WildcardOwner(ce)) = {}
        <5>1. CASE q.type = "ANY"
          <6>1. \A r \in RRsets(Z) : r.owner # Wc BY <1>8, <5>1, ZenonT(30) DEF WildMiss, WildMatching
          <6>2. ce \in AnyName
            <7>1. a = ce \/ ce \in Ancestors(current) BY <3>1, <3>2, ZenonT(30)
            <7>2. ce \in Ancestors(current) BY <3>2, <7>1, ZenonT(30)
            <7> DEFINE L == Labels \cup {"none", "*"}
            <7>3. current \in Seq(L) BY <1>2, ZenonT(30) DEF AnyName
            <7> HIDE DEF L
            <7>4. ce \in Seq(L) BY <7>2, <7>3, AncestorsChain, ZenonT(30)
            <7> QED BY <7>4, ZenonT(30) DEF AnyName, L
          <6> QED BY <1>2, <1>4, <6>1, <6>2, WildOwns, ZenonT(30)
        <5>2. CASE q.type # "ANY" BY <1>4, <2>2, <2>3, <3>1, <5>2, ZenonT(30)
        <5> QED BY <5>1, <5>2, ZenonT(30)
      <4> QED BY <3>1, <3>2, <4>1, ZenonT(30)
    <3> QED BY <3>1, <3>2, ZenonT(30) DEF Denies
  <2> QED BY <1>1, <2>1, <2>3, Missed, ZenonT(30)
<1> QED BY <1>6, <1>7, <1>8, ZenonT(30)

-----------------------------------------------------------------------------
(* Steps of the handler *)

\* Zones and forwarding suffixes are selected by the deepest suffix.
LEMMA Selected ==
    ASSUME doc \in Documents, NEW n \in Seq(Labels)
    PROVE  Deepest(SelectZone(n), n, doc.zones) /\ Deepest(SelectForwarding(n), n, doc.forwarding)
<1>1. doc.zones \in Seq(Elements(doc.zones)) /\ doc.forwarding \in Seq(Elements(doc.forwarding))
  BY DocumentAssumption, ZenonT(30) DEF WellFormed
<1>2. ASSUME NEW s, s \in Seq(Elements(s)) PROVE Deepest(SelectSuffix(n, s), n, s)
  BY <1>2, SuffixSelected, ZenonT(30) DEF Deepest
<1> QED BY <1>1, <1>2, ZenonT(30) DEF SelectZone, SelectForwarding

\* A client is allowed what its best entry allows.
LEMMA EntryAllows ==
    ASSUME NEW a, BestEntry(a) = 0 \/ ~doc.access[BestEntry(a)].allow
    PROVE  ~ClassifyClient(a).allow
<1>1. CASE BestEntry(a) = 0
  <2> DEFINE w == FALSE
  <2>1. ClassifyClient(a) = [group |-> "", allow |-> w] BY <1>1, ZenonT(30) DEF ClassifyClient
  <2>2. ~w OBVIOUS
  <2> HIDE DEF w
  <2>3. [group |-> "", allow |-> w].allow = w BY ZenonT(30)
  <2> QED BY <2>1, <2>2, <2>3, ZenonT(30)
<1>2. CASE BestEntry(a) # 0
  <2> DEFINE w == doc.access[BestEntry(a)].allow
             g == doc.access[BestEntry(a)].group
  <2>1. ClassifyClient(a) = [group |-> g, allow |-> w]
    BY <1>2, ZenonT(30) DEF ClassifyClient
  <2>2. ~w BY <1>2, ZenonT(30)
  <2> HIDE DEF w, g
  <2>3. [group |-> g, allow |-> w].allow = w BY ZenonT(30)
  <2> QED BY <2>1, <2>2, <2>3, ZenonT(30)
<1> QED BY <1>1, <1>2, ZenonT(30)

\* A client that is allowed to recurse has an entry that says so and that no longer prefix overrides.
LEMMA Allowed ==
    ASSUME doc \in Documents, NEW a, ClassifyClient(a).allow
    PROVE  MayForward(a)
<1> DEFINE n == Len(doc.access)
           b == BestEntry(a)
<1>1. doc.access \in Seq(Elements(doc.access)) BY DocumentAssumption, ZenonT(30) DEF WellFormed
<1>2. n \in Nat /\ DOMAIN doc.access = 1..n BY <1>1, Lists, ZenonT(30)
<1>3. \A i \in 1..n : Bits(i) \in Nat
  <2>1. \A i \in DOMAIN doc.access : doc.access[i].prefix \in Seq({0, 1}) BY DocumentAssumption, ZenonT(30) DEF WellFormed
  <2>2. \A p \in Seq({0, 1}) : Len(p) \in Nat BY Lists, ZenonT(30)
  <2> QED BY <1>2, <2>1, <2>2, ZenonT(30) DEF Bits
<1>4. BestOf(a, n, b) BY <1>2, <1>3, EntryBest, ZenonT(30)
<1>5. b # 0 /\ doc.access[b].allow BY EntryAllows, ZenonT(30)
<1> HIDE DEF b, n
<1>6. b \in 1..n BY <1>2, <1>4, <1>5, SMTT(30) DEF BestOf
<1> QED BY <1>2, <1>4, <1>5, <1>6, ZenonT(30) DEF BestOf, MayForward

\* A query arrives.
LEMMA ArriveStep ==
    ASSUME Walked, NEW qq \in Queries, Arrive(qq)
    PROVE  Walked'
<1> DEFINE g == ClassifyClient(qq.client)
           zone == SelectZone(qq.name)
<1>1. /\ stage = "idle" /\ q' = qq /\ doc' = doc /\ asked' = asked
      /\ cl' = [group |-> g.group, allow |-> g.allow, zone |-> zone,
                fwd |-> IF g.allow THEN SelectForwarding(qq.name) ELSE 0]
      /\ zone = 0 => stage' = "local" /\ out' = NoOut
      /\ zone # 0 => stage' = "walk" /\ current' = qq.name /\ answers' = answers
  BY ZenonT(30) DEF Arrive
<1>2. doc \in Documents /\ CompileOK(doc.zones) /\ answers = <<>> /\ asked = NoAsk BY <1>1, SMTT(30) DEF Walked, Served
<1>3. cl'.zone = zone /\ cl'.allow = g.allow /\ (g.allow => cl'.fwd = SelectForwarding(qq.name)) BY <1>1, ZenonT(30)
<1>4. qq.name \in Seq(Labels) BY DocumentAssumption, ZenonT(30) DEF WellFormed
<1>5. Deepest(zone, qq.name, doc.zones) /\ Deepest(SelectForwarding(qq.name), qq.name, doc.forwarding)
  BY <1>2, <1>4, Selected, ZenonT(30)
<1>6. g.allow => MayForward(qq.client)
  BY <1>2, Allowed, ZenonT(30)
<1> HIDE DEF g, zone
<1>7. Classed' BY <1>1, <1>3, <1>5, <1>6, Fixed, ZenonT(30) DEF Classed
<1>8. CompileOK(doc.zones)' /\ ForwardsAsAllowed' /\ asked' = NoAsk BY <1>1, <1>2, ZenonT(30) DEF ForwardsAsAllowed
<1>9. CASE zone = 0
  <2>1. stage' = "local" /\ out' = NoOut /\ cl'.zone = 0 BY <1>1, <1>3, <1>9, ZenonT(30)
  <2>2. Aliases(out'.answers)
    <3>1. out'.answers = <<>> BY <2>1, ZenonT(30) DEF NoOut
    <3>2. <<>> \in Seq(Elements(<<>>)) /\ DOMAIN <<>> = {} BY SMTT(30)
    <3> QED BY <3>1, <3>2, ZenonT(30) DEF Aliases
  <2>3. Local' BY <2>1, <2>2, ZenonT(30) DEF Local, DeniedNamesAreAbsent, WildcardsYield, Resolved
  <2> QED BY <1>1, <1>2, <1>7, <1>8, <2>1, <2>3, SMTT(30) DEF Walked, Served
<1>10. CASE zone # 0
  <2>1. stage' = "walk" /\ current' = qq.name /\ answers' = <<>> /\ cl'.zone # 0 BY <1>1, <1>2, <1>3, <1>10, ZenonT(30)
  <2>2. Walk'
    <3>1. <<>> \in Seq(Elements(<<>>)) /\ DOMAIN <<>> = {} BY SMTT(30)
    <3>2. Aliases(<<>>) BY <3>1, ZenonT(30) DEF Aliases
    <3> QED BY <1>1, <2>1, <3>1, <3>2, ZenonT(30) DEF Walk, End
  <2> QED BY <1>1, <1>2, <1>7, <1>8, <2>1, <2>2, SMTT(30) DEF Walked, Served
<1> QED BY <1>9, <1>10, ZenonT(30)

\* Nothing of the local result changes until the next query.
LEMMA Kept ==
    ASSUME Walked, stage \in {"local", "upstream", "done"}, stage' \in {"local", "upstream", "done"},
           doc' = doc, q' = q, cl' = cl, out' = out
    PROVE  doc' \in Documents /\ CompileOK(doc.zones)' /\ Classed' /\ Local' /\ Classed /\ Local
<1>1. doc \in Documents /\ CompileOK(doc.zones) /\ Classed /\ Local BY SMTT(30) DEF Walked, Served
<1>2. Z' = Z /\ (\A n : Owned(n)' = Owned(n)) /\ (\A x : AllYield(x)' <=> AllYield(x)) /\ Classed' BY <1>1, Same, ZenonT(30)
<1>3. LastName' = LastName BY ZenonT(30) DEF LastName
<1>4. Resolved' <=> Resolved BY ZenonT(30) DEF Resolved
<1>5. DeniedNamesAreAbsent' BY <1>1, <1>2, <1>3, <1>4, SMTT(30) DEF DeniedNamesAreAbsent, Local
<1>6. WildcardsYield'
  <2>1. Resolved => \A k \in DOMAIN out.answers : AllYield(out.answers[k])
    BY <1>1, ZenonT(30) DEF Local, WildcardsYield, AllYield, Yields
  <2>2. (Resolved => \A k \in DOMAIN out.answers : AllYield(out.answers[k]))' BY <1>2, <1>4, <2>1, ZenonT(30)
  <2> QED BY <2>2, ZenonT(30) DEF WildcardsYield, AllYield, Yields
<1>7. Local' BY <1>1, <1>2, <1>5, <1>6, ZenonT(30) DEF Local
<1> QED BY <1>1, <1>2, <1>7, ZenonT(30)

\* The deepest zones that cover a name are one.
LEMMA OneZone ==
    ASSUME doc \in Documents, CompileOK(doc.zones), NEW n \in Seq(Labels),
           NEW i \in DOMAIN doc.zones, NEW j \in DOMAIN doc.zones,
           InZone(n, doc.zones[i].name), InZone(n, doc.zones[j].name),
           Len(doc.zones[i].name) <= Len(doc.zones[j].name), Len(doc.zones[j].name) <= Len(doc.zones[i].name)
    PROVE  i = j
<1>1. doc.zones[i].name \in Ancestors(n) /\ doc.zones[j].name \in Ancestors(n) BY ZenonT(30) DEF InZone
<1>2. Len(doc.zones[i].name) \in Nat /\ Len(doc.zones[j].name) \in Nat
  <2>1. \A a \in Ancestors(n) : Len(a) \in Nat BY AncestorsChain, ZenonT(30)
  <2> QED BY <1>1, <2>1, ZenonT(30)
<1>3. \A k, l \in Nat : k <= l /\ l <= k => k = l BY SMTT(30)
<1>4. Len(doc.zones[i].name) = Len(doc.zones[j].name) BY <1>2, <1>3, ZenonT(30)
<1>5. doc.zones[i].name = doc.zones[j].name
  <2>1. \A a, b \in Ancestors(n) : Len(a) = Len(b) => a = b BY AncestorsChain, ZenonT(30)
  <2> QED BY <1>1, <1>4, <2>1, ZenonT(30)
<1> QED BY <1>5, ZenonT(30) DEF CompileOK

\* What falls through is forwarded as the access entries and the suffixes say.
LEMMA ForwardStep ==
    ASSUME Walked, Forward
    PROVE  Walked'
<1>1. /\ stage = "local" /\ (cl.zone = 0 \/ out.through) /\ ~Unforwardable /\ stage' = "upstream"
      /\ asked' = [name |-> LastName, fwd |-> ExchangeID]
      /\ doc' = doc /\ q' = q /\ cl' = cl /\ out' = out
  BY ZenonT(30) DEF Forward, LastName
<1>2. doc \in Documents /\ CompileOK(doc.zones) /\ Classed /\ Local BY <1>1, SMTT(30) DEF Walked, Served
<1>3. CompileOK(doc.zones)' /\ Classed' /\ Local'
  <2>1. stage \in {"local", "upstream", "done"} /\ stage' \in {"local", "upstream", "done"} BY <1>1, SMTT(30)
  <2> QED BY <1>1, <2>1, Kept, ZenonT(30)
<1>4. q.name \in Seq(Labels) BY <1>2, DocumentAssumption, ZenonT(30) DEF WellFormed, Classed
<1>5. Aliases(out.answers) BY <1>1, <1>2, ZenonT(30) DEF Local
<1>6. cl.allow /\ ExchangeID # 0 BY <1>1, ZenonT(30) DEF Unforwardable
<1>7. Deepest(ExchangeID, LastName, doc.forwarding)
  <2>1. CASE LastTarget(out.answers) = NoName
    <3>1. ExchangeID = cl.fwd /\ LastName = q.name BY <2>1, ZenonT(30) DEF ExchangeID, LastName
    <3> QED BY <1>2, <1>6, <3>1, ZenonT(30) DEF Classed
  <2>2. CASE LastTarget(out.answers) # NoName
    <3>1. ExchangeID = SelectForwarding(LastName) /\ LastName = LastTarget(out.answers)
      BY <2>2, ZenonT(30) DEF ExchangeID, LastName
    <3>2. LastName \in Seq(Labels) BY <1>5, <2>2, <3>1, ChainEnd, ZenonT(30)
    <3> QED BY <1>2, <3>1, <3>2, Selected, ZenonT(30)
  <2> QED BY <2>1, <2>2, ZenonT(30)
<1>8. asked'.name = LastName /\ asked'.fwd = ExchangeID BY <1>1, ZenonT(30)
<1>9. ASSUME NEW i \in DOMAIN doc.zones, InZone(q.name, doc.zones[i].name),
             \A j \in DOMAIN doc.zones : InZone(q.name, doc.zones[j].name) => Len(doc.zones[j].name) <= Len(doc.zones[i].name)
      PROVE  doc.zones[i].mode = "overlay"
  <2>1. Deepest(cl.zone, q.name, doc.zones) BY <1>2, ZenonT(30) DEF Classed
  <2>2. /\ cl.zone # 0 /\ cl.zone \in DOMAIN doc.zones /\ InZone(q.name, doc.zones[cl.zone].name)
        /\ Len(doc.zones[i].name) <= Len(doc.zones[cl.zone].name)
    <3>1. ~(cl.zone = 0 /\ \A j \in DOMAIN doc.zones : ~InZone(q.name, doc.zones[j].name)) BY <1>9, ZenonT(30)
    <3>2. 0 \notin DOMAIN doc.zones
      <4>1. doc.zones \in Seq(Elements(doc.zones)) BY <1>2, DocumentAssumption, ZenonT(30) DEF WellFormed
      <4>2. DOMAIN doc.zones = 1..Len(doc.zones) BY <4>1, Lists, ZenonT(30)
      <4>3. \A m : 0 \notin 1..m BY SMTT(30)
      <4> QED BY <4>2, <4>3, ZenonT(30)
    <3> QED BY <1>9, <2>1, <3>1, <3>2, ZenonT(30) DEF Deepest
  <2>3. Len(doc.zones[cl.zone].name) <= Len(doc.zones[i].name) BY <1>9, <2>2, ZenonT(30)
  <2>4. i = cl.zone BY <1>2, <1>4, <1>9, <2>2, <2>3, OneZone, ZenonT(30)
  <2>5. Z.mode = "overlay" BY <1>1, <1>2, <2>2, ZenonT(30) DEF Local
  <2> QED BY <2>4, <2>5, ZenonT(30) DEF Z
<1>10. Overlaid(q.name) /\ MayForward(q.client)
  BY <1>2, <1>6, <1>9, ZenonT(30) DEF Classed, Overlaid
<1>11. /\ InZone(LastName, doc.forwarding[ExchangeID].name)
       /\ \A i \in DOMAIN doc.forwarding : InZone(LastName, doc.forwarding[i].name) =>
             Len(doc.forwarding[i].name) <= Len(doc.forwarding[ExchangeID].name)
  BY <1>6, <1>7, ZenonT(30) DEF Deepest
<1>12. ForwardsAsAllowed' BY <1>1, <1>8, <1>10, <1>11, Fixed, ZenonT(30) DEF ForwardsAsAllowed
<1> QED BY <1>1, <1>2, <1>3, <1>12, SMTT(30) DEF Walked, Served

\* The other steps of the handler keep the invariant.
LEMMA OtherStep ==
    ASSUME Walked, Compile \/ AnswerLocal \/ Upstream \/ Again \/ UNCHANGED vars
    PROVE  Walked'
<1>1. CASE Compile
  <2>1. /\ stage = "compile" /\ doc' = doc /\ answers' = answers /\ asked' = asked
        /\ stage' = IF OwnersUnique(doc.zones) /\ CompileOK(doc.zones) THEN "idle" ELSE "rejected"
    BY <1>1, ZenonT(30) DEF Compile, walk
  <2>2. doc \in Documents /\ answers = <<>> /\ asked = NoAsk BY <2>1, SMTT(30) DEF Walked, Served
  <2>3. stage' = "rejected" \/ (stage' = "idle" /\ CompileOK(doc.zones)') BY <2>1, ZenonT(30)
  <2>4. ForwardsAsAllowed' BY <2>1, <2>2, ZenonT(30) DEF ForwardsAsAllowed
  <2> QED BY <2>1, <2>2, <2>3, <2>4, SMTT(30) DEF Walked, Served
<1>2. CASE AnswerLocal \/ Upstream
  <2>1. /\ stage \in {"local", "upstream"} /\ stage' = "done"
        /\ doc' = doc /\ q' = q /\ cl' = cl /\ out' = out /\ asked' = asked
    BY <1>2, ZenonT(30) DEF AnswerLocal, Upstream, Reply
  <2>2. stage \in {"local", "upstream", "done"} /\ stage' \in {"local", "upstream", "done"} BY <2>1, SMTT(30)
  <2>3. doc' \in Documents /\ CompileOK(doc.zones)' /\ Classed' /\ Local' BY <2>1, <2>2, Kept, ZenonT(30)
  <2>4. ForwardsAsAllowed BY ZenonT(30) DEF Walked
  <2>5. ForwardsAsAllowed' BY <2>1, <2>4, Fixed, ZenonT(30) DEF ForwardsAsAllowed
  <2> QED BY <2>1, <2>3, <2>5, SMTT(30) DEF Walked, Served
<1>3. CASE Again
  <2>1. stage = "done" /\ stage' = "idle" /\ doc' = doc /\ answers' = <<>> /\ asked' = NoAsk
    BY <1>3, ZenonT(30) DEF Again, Reset
  <2>2. doc \in Documents /\ CompileOK(doc.zones) BY <2>1, SMTT(30) DEF Walked
  <2>3. CompileOK(doc.zones)' /\ ForwardsAsAllowed' BY <2>1, <2>2, ZenonT(30) DEF ForwardsAsAllowed
  <2> QED BY <2>1, <2>2, <2>3, SMTT(30) DEF Walked, Served
<1>4. CASE UNCHANGED vars
  <2>1. /\ doc' = doc /\ stage' = stage /\ q' = q /\ cl' = cl /\ current' = current /\ answers' = answers
        /\ out' = out /\ asked' = asked
    BY <1>4, ZenonT(30) DEF vars, walk
  <2>2. (\A x : AllYield(x)' <=> AllYield(x)) /\ (Classed' <=> Classed) BY <2>1, Same, ZenonT(30)
  <2>3. ForwardsAsAllowed' BY <2>1, Fixed, ZenonT(30) DEF ForwardsAsAllowed, Walked
  <2>4. CompileOK(doc.zones)' <=> CompileOK(doc.zones) BY <2>1, ZenonT(30)
  <2>5. Walk => Walk'
    <3>1. Walk => (\A k \in DOMAIN answers : AllYield(answers[k]))' BY <2>1, <2>2, ZenonT(30) DEF Walk
    <3>2. End(answers)' = End(answers) BY <2>1, ZenonT(30) DEF End
    <3> QED BY <2>1, <3>1, <3>2, ZenonT(30) DEF Walk
  <2>6. stage \in {"local", "upstream", "done"} => Local' BY <2>1, Kept, ZenonT(30)
  <2> QED BY <2>1, <2>2, <2>3, <2>4, <2>5, <2>6, ZenonT(30) DEF Walked, Served
<1> QED BY <1>1, <1>2, <1>3, <1>4, ZenonT(30)

\* The local data path keeps its invariant: the walk of resolveInZone holds a chain of aliases that
\* leads to the current name, every answer so far yields to what is nearer in the zone, and what
\* classify chose is the deepest zone, suffix and prefix.
THEOREM WalkHolds == Spec => []Walked
<1>1. Init => Walked
  <2> SUFFICES ASSUME Init PROVE Walked OBVIOUS
  <2>1. doc \in Documents /\ stage = "compile" /\ answers = <<>> /\ asked = NoAsk BY ZenonT(30) DEF Init
  <2>2. ForwardsAsAllowed BY <2>1, ZenonT(30) DEF ForwardsAsAllowed
  <2> QED BY <2>1, <2>2, SMTT(30) DEF Walked, Served
<1>2. Walked /\ [Next]_vars => Walked'
  <2> SUFFICES ASSUME Walked, [Next]_vars PROVE Walked' OBVIOUS
  <2>1. \/ Loop \/ Leave \/ ExactAnswer \/ ExactFollow \/ ExactMiss
        \/ WildAnswer \/ WildFollow \/ WildMiss
        \/ \E qq \in Queries : Arrive(qq)
        \/ Forward
        \/ Compile \/ AnswerLocal \/ Upstream \/ Again \/ UNCHANGED vars
    BY ZenonT(30) DEF Next, Rest
  <2> QED BY <2>1, WalkStep, WildStep, ArriveStep, ForwardStep, OtherStep, ZenonT(30)
<1> QED BY <1>1, <1>2, PTL DEF Spec

\* For all documents and queries, resolveInZone answers NXDOMAIN only for a name at or below which
\* the zone holds nothing and that no wildcard of its closest encloser covers.
THEOREM DenialsHold == Spec => []DeniedNamesAreAbsent
<1>1. Walked => DeniedNamesAreAbsent
  <2>1. ASSUME Walked, Resolved PROVE DeniedNamesAreAbsent
    <3>1. Local BY <2>1, ZenonT(30) DEF Walked, Resolved
    <3> QED BY <3>1, ZenonT(30) DEF Local
  <2> QED BY <2>1, ZenonT(30) DEF DeniedNamesAreAbsent
<1> QED BY <1>1, WalkHolds, PTL

\* For all documents and queries, a synthesized answer comes from a wildcard that no existing name
\* on the way to the owner overrides, empty non-terminals included.
THEOREM WildcardsHold == Spec => []WildcardsYield
<1>1. Walked => WildcardsYield
  <2>1. ASSUME Walked, Resolved PROVE WildcardsYield
    <3>1. Local BY <2>1, ZenonT(30) DEF Walked, Resolved
    <3> QED BY <3>1, ZenonT(30) DEF Local
  <2> QED BY <2>1, ZenonT(30) DEF WildcardsYield
<1> QED BY <1>1, WalkHolds, PTL

\* For all documents and queries, Handler.answer sends a name upstream only from outside the
\* authoritative zones, for a client its longest prefix allows, to the deepest suffix of the name.
THEOREM ForwardsHold == Spec => []ForwardsAsAllowed
<1>1. Walked => ForwardsAsAllowed BY ZenonT(30) DEF Walked
<1> QED BY <1>1, WalkHolds, PTL

=============================================================================
