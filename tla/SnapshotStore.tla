--------------------------- MODULE SnapshotStore ---------------------------
(***************************************************************************)
(* internal/snapshot/store.go: the active and previous snapshots behind    *)
(* atomic pointers, the runtime emergency bit and the startup lock.        *)
(*                                                                         *)
(* Every atomic load, store and compare-and-swap of the code is one step   *)
(* of one thread, so any interleaving of concurrent Swap, StampEmergency   *)
(* and publishPrevious calls is a behaviour.  A thread runs one of the     *)
(* four calls the program makes on the store:                              *)
(*   apply    Swap(candidate)                          app/mutate.go       *)
(*   reset    SetEmergencyChaosOff(false); Swap(boot)  app/reset.go        *)
(*   disable  SetEmergencyChaosOff(true); StampEmergency()                 *)
(*   enable   SetEmergencyChaosOff(false); StampEmergency()                *)
(* App.mu, which serialises apply and reset, is not assumed here: the      *)
(* store alone is shown to be correct for any number of callers.           *)
(*                                                                         *)
(* A snapshot is its generation, its content (Canonical, Revision and the  *)
(* compiled indexes, which a stamp copies unchanged) and its               *)
(* EmergencyChaosOff flag.  Pointer equality is record equality: the       *)
(* generation of the active snapshot grows with every publication, so no   *)
(* record is published twice (GenerationAdvances).                         *)
(***************************************************************************)
EXTENDS Naturals

CONSTANTS
    Threads,        \* goroutines that call the store
    Contents,       \* canonical states
    YamlOff,        \* contents whose spec.chaos.emergencyDisabled is true
    Boot,           \* content of the bootstrap file
    Calls,          \* the calls the threads make
    MaxGen,         \* bound: no call starts once this generation is active
    Nil             \* the nil pointer

Writes == {"apply", "reset"}
AllCalls == {"apply", "reset", "disable", "enable"}

ASSUME ContentAssumption == YamlOff \subseteq Contents /\ Boot \in Contents
ASSUME CallAssumption == Calls \subseteq AllCalls
ASSUME MaxGenAssumption == MaxGen \in Nat

VARIABLES
    active,     \* Store.active
    previous,   \* Store.previous
    emergency,  \* Store.emergency
    startup,    \* Store.startup
    pc,         \* pc[t]: the next atomic operation of thread t
    call,       \* call[t]: the call t is running
    cand,       \* cand[t]: the compiled candidate passed to Swap
    live,       \* live[t]: the active pointer t loaded (previous in Swap)
    next,       \* next[t]: the snapshot t is about to publish
    loaded,     \* loaded[t]: the previous pointer t loaded in publishPrevious
    cleared     \* a call that clears the bit has started, for a property

shared == <<active, previous, emergency, startup>>
storeVars == <<active, previous, emergency, startup, pc, call, cand, live, next, loaded, cleared>>

Snapshot == [gen : Nat, content : Contents, off : BOOLEAN]
Candidate == [gen : Nat, content : Contents]

ASSUME NilAssumption == Nil \notin Contents /\ Nil \notin Snapshot

Operations == {"idle", "setBit", "swapLoad", "swapStamp", "swapCAS", "stampLoad",
           "stampRead", "stampCAS", "swapPubLoad", "swapPubCAS",
           "stampPubLoad", "stampPubCAS"}

-----------------------------------------------------------------------------
\* Mutant: the startup lock is forgotten.
WantBitOnly(c) == emergency \/ c \in YamlOff

\* The flag stampEmergency writes on a snapshot of content c.
Want(c) == emergency \/ startup \/ c \in YamlOff

\* The program as serveFromConfig leaves it before any goroutine starts: the
\* bootstrap snapshot compiled with generation 0, flagged when the startup
\* lock is armed or the file says so, and installed in an empty store.
StoreInit ==
    /\ startup \in BOOLEAN
    /\ emergency = FALSE
    /\ active = [gen |-> 0, content |-> Boot, off |-> (startup \/ Boot \in YamlOff)]
    /\ previous = Nil
    /\ pc = [t \in Threads |-> "idle"]
    /\ call = [t \in Threads |-> Nil]
    /\ cand = [t \in Threads |-> Nil]
    /\ live = [t \in Threads |-> Nil]
    /\ next = [t \in Threads |-> Nil]
    /\ loaded = [t \in Threads |-> Nil]
    /\ cleared = FALSE

Goto(t, l) == pc' = [pc EXCEPT ![t] = l]

\* A call returns.  Here and below a local that is dead is set to Nil.
Return(t) ==
    /\ Goto(t, "idle")
    /\ call' = [call EXCEPT ![t] = Nil]
    /\ cand' = [cand EXCEPT ![t] = Nil]
    /\ live' = [live EXCEPT ![t] = Nil]
    /\ next' = [next EXCEPT ![t] = Nil]
    /\ loaded' = [loaded EXCEPT ![t] = Nil]

\* buildCandidate and loadBootstrapCandidate number the compiled snapshot one
\* past the active snapshot they loaded.  The flag the compiler sets is not
\* kept: stampEmergency overwrites it before publication.
StartWrite(t, op, c) ==
    /\ pc[t] = "idle"
    /\ op \in Calls \cap Writes
    /\ active.gen < MaxGen
    /\ cand' = [cand EXCEPT ![t] = [gen |-> active.gen + 1, content |-> c]]
    /\ call' = [call EXCEPT ![t] = op]
    /\ Goto(t, IF op = "reset" THEN "setBit" ELSE "swapLoad")
    /\ cleared' = (cleared \/ op = "reset")
    /\ UNCHANGED <<shared, live, next, loaded>>

\* setEmergency and EmergencyDisable enter with the bit to write.
StartEmergency(t, op) ==
    /\ pc[t] = "idle"
    /\ op \in Calls \ Writes
    /\ active.gen < MaxGen
    /\ call' = [call EXCEPT ![t] = op]
    /\ Goto(t, "setBit")
    /\ cleared' = (cleared \/ op = "enable")
    /\ UNCHANGED <<shared, cand, live, next, loaded>>

\* emergency.Store(off): disable sets the bit, enable and reset clear it.
SetEmergencyChaosOff(t) ==
    /\ pc[t] = "setBit"
    /\ emergency' = (call[t] = "disable")
    /\ Goto(t, IF call[t] = "reset" THEN "swapLoad" ELSE "stampLoad")
    /\ UNCHANGED <<active, previous, startup, call, cand, live, next, loaded>>

-----------------------------------------------------------------------------
(* Swap: load active, stamp the candidate, advance its generation past the *)
(* loaded snapshot, compare-and-swap, else start over.                     *)
SwapLoad(t) ==
    /\ pc[t] = "swapLoad"
    /\ live' = [live EXCEPT ![t] = active]
    /\ Goto(t, "swapStamp")
    /\ UNCHANGED <<shared, call, cand, next, loaded>>

\* The generation under which Swap publishes candidate c over snapshot p.
SwapGeneration(c, p) == IF c.gen <= p.gen THEN p.gen + 1 ELSE c.gen

SwapStamp(t) ==
    /\ pc[t] = "swapStamp"
    /\ next' = [next EXCEPT ![t] = [gen |-> SwapGeneration(cand[t], live[t]),
                                    content |-> cand[t].content,
                                    off |-> Want(cand[t].content)]]
    /\ Goto(t, "swapCAS")
    /\ UNCHANGED <<shared, call, cand, live, loaded>>

SwapCAS(t) ==
    /\ pc[t] = "swapCAS"
    /\ next' = [next EXCEPT ![t] = Nil]
    /\ IF active = live[t]
         THEN /\ active' = next[t]
              /\ cand' = [cand EXCEPT ![t] = Nil]
              /\ Goto(t, "swapPubLoad")
              /\ UNCHANGED live
         ELSE /\ live' = [live EXCEPT ![t] = Nil]
              /\ Goto(t, "swapLoad")
              /\ UNCHANGED <<active, cand>>
    /\ UNCHANGED <<previous, emergency, startup, call, loaded>>

-----------------------------------------------------------------------------
(* StampEmergency: load active, compute the flag, leave a snapshot that    *)
(* already carries it, else publish a copy one generation on.              *)
StampLoad(t) ==
    /\ pc[t] = "stampLoad"
    /\ live' = [live EXCEPT ![t] = active]
    /\ Goto(t, "stampRead")
    /\ UNCHANGED <<shared, call, cand, next, loaded>>

StampRead(t) ==
    /\ pc[t] = "stampRead"
    /\ IF live[t].off = Want(live[t].content)
         THEN Return(t)
         ELSE /\ next' = [next EXCEPT ![t] = [gen |-> live[t].gen + 1,
                                              content |-> live[t].content,
                                              off |-> ~live[t].off]]
              /\ Goto(t, "stampCAS")
              /\ UNCHANGED <<call, cand, live, loaded>>
    /\ UNCHANGED shared

\* Mutant: a plain store in place of the compare-and-swap.
StampCASBlind(t) ==
    /\ pc[t] = "stampCAS"
    /\ active' = next[t]
    /\ next' = [next EXCEPT ![t] = Nil]
    /\ Goto(t, "stampPubLoad")
    /\ UNCHANGED <<previous, emergency, startup, call, cand, live, loaded>>

StampCAS(t) ==
    /\ pc[t] = "stampCAS"
    /\ next' = [next EXCEPT ![t] = Nil]
    /\ IF active = live[t]
         THEN /\ active' = next[t]
              /\ Goto(t, "stampPubLoad")
              /\ UNCHANGED live
         ELSE /\ live' = [live EXCEPT ![t] = Nil]
              /\ Goto(t, "stampLoad")
              /\ UNCHANGED active
    /\ UNCHANGED <<previous, emergency, startup, call, cand, loaded>>

-----------------------------------------------------------------------------
(* publishPrevious(live[t]): the displaced snapshot becomes previous       *)
(* unless a newer one already is.  Swap goes on to StampEmergency, which   *)
(* itself ends with the publication of what it displaced.                  *)
\* Mutant: Swap returns without the trailing StampEmergency.
AfterPublishNoStamp(t) == Return(t)

AfterPublish(t) ==
    IF pc[t] \in {"swapPubLoad", "swapPubCAS"}
      THEN /\ Goto(t, "stampLoad")
           /\ live' = [live EXCEPT ![t] = Nil]
           /\ loaded' = [loaded EXCEPT ![t] = Nil]
           /\ UNCHANGED <<call, cand, next>>
      ELSE Return(t)

PublishLoad(t) ==
    /\ pc[t] \in {"swapPubLoad", "stampPubLoad"}
    /\ IF previous # Nil /\ previous.gen >= live[t].gen
         THEN AfterPublish(t)
         ELSE /\ loaded' = [loaded EXCEPT ![t] = previous]
              /\ Goto(t, IF pc[t] = "swapPubLoad" THEN "swapPubCAS" ELSE "stampPubCAS")
              /\ UNCHANGED <<call, cand, live, next>>
    /\ UNCHANGED shared

\* Mutant: a publication that loses the race is given up.
PublishCASOnce(t) ==
    /\ pc[t] \in {"swapPubCAS", "stampPubCAS"}
    /\ previous' = IF previous = loaded[t] THEN live[t] ELSE previous
    /\ AfterPublish(t)
    /\ UNCHANGED <<active, emergency, startup>>

PublishCAS(t) ==
    /\ pc[t] \in {"swapPubCAS", "stampPubCAS"}
    /\ IF previous = loaded[t]
         THEN previous' = live[t] /\ AfterPublish(t)
         ELSE /\ Goto(t, IF pc[t] = "swapPubCAS" THEN "swapPubLoad" ELSE "stampPubLoad")
              /\ loaded' = [loaded EXCEPT ![t] = Nil]
              /\ UNCHANGED <<previous, call, cand, live, next>>
    /\ UNCHANGED <<active, emergency, startup>>

-----------------------------------------------------------------------------
Step(t) ==
    /\ \/ SetEmergencyChaosOff(t)
       \/ SwapLoad(t) \/ SwapStamp(t) \/ SwapCAS(t)
       \/ StampLoad(t) \/ StampRead(t) \/ StampCAS(t)
       \/ PublishLoad(t) \/ PublishCAS(t)
    /\ UNCHANGED cleared

Start(t) ==
    \/ \E c \in Contents : StartWrite(t, "apply", c) \/ StartWrite(t, "reset", c)
    \/ \E op \in {"disable", "enable"} : StartEmergency(t, op)

\* No caller is obliged to call again.
Quiescent == \A t \in Threads : pc[t] = "idle"
StoreRest == Quiescent /\ UNCHANGED storeVars

StoreNext == (\E t \in Threads : Start(t) \/ Step(t)) \/ StoreRest

StoreSpec == StoreInit /\ [][StoreNext]_storeVars

-----------------------------------------------------------------------------
(* Properties.                                                             *)

TypeOK ==
    /\ active \in Snapshot
    /\ previous \in Snapshot \cup {Nil}
    /\ emergency \in BOOLEAN
    /\ startup \in BOOLEAN
    /\ pc \in [Threads -> Operations]
    /\ call \in [Threads -> AllCalls \cup {Nil}]
    /\ cand \in [Threads -> Candidate \cup {Nil}]
    /\ live \in [Threads -> Snapshot \cup {Nil}]
    /\ next \in [Threads -> Snapshot \cup {Nil}]
    /\ loaded \in [Threads -> Snapshot \cup {Nil}]
    /\ cleared \in BOOLEAN

\* Every publication, by Swap or by a stamp, is under a larger generation than
\* the snapshot it displaces, also when emergency changes were published after
\* the candidate was compiled.
GenerationAdvances == [][active' # active => active'.gen > active.gen]_storeVars

\* Store.previous never goes back to an older displaced snapshot, however late
\* a publisher resumes.
PreviousAdvances ==
    [][previous' # previous => previous' # Nil /\ (previous # Nil => previous'.gen > previous.gen)]_storeVars

\* When no call is running, previous is the snapshot the active one displaced:
\* no publication out of order loses it.
PreviousIsLastDisplaced ==
    Quiescent /\ active.gen > 0 => previous # Nil /\ previous.gen = active.gen - 1

\* A startup lock and a content that says emergencyDisabled keep every
\* published snapshot inhibited, whatever emergency-enable and reset do.
LockedStaysOff == startup \/ active.content \in YamlOff => active.off

\* When no call is running and none has cleared the bit, the active snapshot
\* carries the emergency bit: a disable is not lost to a concurrent apply.
DisableReachesSnapshot ==
    Quiescent /\ ~cleared => active.off = Want(active.content)

\* A Swap not yet committed is a pending request of the abstract register.
Uncommitted(t) ==
    \/ pc[t] \in {"swapLoad", "swapStamp", "swapCAS"}
    \/ pc[t] = "setBit" /\ call[t] = "reset"

Abs == INSTANCE AtomicStore WITH
    content <- active.content, gen <- active.gen, off <- active.off, locked <- startup,
    request <- [t \in Threads |-> IF Uncommitted(t) THEN cand[t].content ELSE Nil]

\* Swap and StampEmergency implement the atomic register: each installation
\* takes effect exactly once, and a stamp never brings back a content another
\* Swap has replaced.
Atomic == Abs!ASpec

-----------------------------------------------------------------------------
(* The inductive invariant behind the properties: what each thread knows   *)
(* at each label, and who still owes the store a publication.              *)

Publishing(t) == pc[t] \in {"swapPubLoad", "swapPubCAS", "stampPubLoad", "stampPubCAS"}

\* The flag of a snapshot that must be inhibited.
FlagOK(s) == startup \/ s.content \in YamlOff => s.off

\* A candidate is numbered at most one past the snapshot it will displace.
CandidateOK(t) ==
    /\ pc[t] = "setBit" => call[t] \in Calls \ {"apply"}
    /\ Uncommitted(t) => cand[t] \in Candidate /\ cand[t].gen <= active.gen + 1
    /\ pc[t] \in {"swapStamp", "swapCAS"} => cand[t].gen <= live[t].gen + 1

\* A loaded pointer is no newer than active, and older once displaced.
LiveOK(t) ==
    /\ pc[t] \in {"swapStamp", "swapCAS", "stampRead", "stampCAS"} \/ Publishing(t) =>
          live[t] \in Snapshot /\ live[t].gen <= active.gen
    /\ pc[t] \in {"stampRead", "stampCAS"} => FlagOK(live[t])
    /\ Publishing(t) => live[t].gen < active.gen
    /\ pc[t] \in {"swapPubCAS", "stampPubCAS"} /\ loaded[t] # Nil => loaded[t].gen < live[t].gen

\* What is about to be published is one generation past what it displaces.
NextOK(t) ==
    /\ pc[t] \in {"swapCAS", "stampCAS"} =>
          next[t] \in Snapshot /\ next[t].gen = live[t].gen + 1 /\ FlagOK(next[t])
    /\ pc[t] = "swapCAS" => next[t].content = cand[t].content
    /\ pc[t] = "stampCAS" => next[t].content = live[t].content /\ next[t].off = ~live[t].off

\* The snapshot displaced last is previous, or its displacer still holds it.
LastDisplaced ==
    /\ previous # Nil => previous.gen < active.gen
    /\ active.gen > 0 =>
          \/ previous # Nil /\ previous.gen = active.gen - 1
          \/ \E t \in Threads : Publishing(t) /\ live[t].gen = active.gen - 1

\* While no call clears the bit: a set flag is due, and while the bit is not on
\* the active snapshot some thread is still going to read both.
WillStamp(t) ==
    \/ pc[t] \in {"stampLoad", "stampCAS", "swapPubLoad", "swapPubCAS"}
    \/ pc[t] = "stampRead" /\ ~live[t].off

DisableOnly ==
    ~cleared =>
      /\ active.off => Want(active.content)
      /\ \A t \in Threads :
            /\ pc[t] = "setBit" => call[t] = "disable"
            /\ pc[t] \in {"stampRead", "stampCAS"} /\ live[t].off => Want(live[t].content)
            /\ pc[t] \in {"swapCAS", "stampCAS"} /\ next[t].off => Want(next[t].content)
            /\ pc[t] = "stampCAS" => next[t].off
      /\ emergency /\ ~active.off => \E t \in Threads : WillStamp(t)

\* The state of the store is consistent in the middle of any set of calls.
Inductive ==
    /\ TypeOK
    /\ \A t \in Threads : CandidateOK(t) /\ LiveOK(t) /\ NextOK(t)
    /\ FlagOK(active)
    /\ LastDisplaced
    /\ DisableOnly
=============================================================================
