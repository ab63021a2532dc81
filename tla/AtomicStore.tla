---------------------------- MODULE AtomicStore ----------------------------
(***************************************************************************)
(* What snapshot.Store promises its callers: one register that holds the   *)
(* installed content and a generation.  A requested installation takes     *)
(* effect exactly once, in one step, between its call and its return; the  *)
(* only other change is the chaos flag flipping on the content that is     *)
(* installed.  Every change is one generation on.                          *)
(***************************************************************************)
EXTENDS Naturals

CONSTANTS Threads, Contents, Boot, YamlOff, Nil

VARIABLES
    content,    \* the installed content
    gen,        \* its generation
    off,        \* its EmergencyChaosOff flag
    locked,     \* the startup lock
    request     \* request[t]: content t asked to install and is not yet installed

avars == <<content, gen, off, locked, request>>

AInit ==
    /\ content = Boot
    /\ gen = 0
    /\ locked \in BOOLEAN
    /\ off = (locked \/ Boot \in YamlOff)
    /\ request = [t \in Threads |-> Nil]

\* The flag may be anything the emergency bit makes it, except clear on
\* content that must carry it.
MayPublish(c, f) == (locked \/ c \in YamlOff) => f

Request(t, c) ==
    /\ request[t] = Nil
    /\ request' = [request EXCEPT ![t] = c]
    /\ UNCHANGED <<content, gen, off, locked>>

Install(t) ==
    /\ request[t] # Nil
    /\ content' = request[t]
    /\ gen' = gen + 1
    /\ off' \in BOOLEAN
    /\ MayPublish(content', off')
    /\ request' = [request EXCEPT ![t] = Nil]
    /\ UNCHANGED locked

Flip ==
    /\ off' = ~off
    /\ MayPublish(content, off')
    /\ gen' = gen + 1
    /\ UNCHANGED <<content, locked, request>>

ANext ==
    \/ \E t \in Threads : Install(t) \/ \E c \in Contents : Request(t, c)
    \/ Flip

ASpec == AInit /\ [][ANext]_avars
=============================================================================
