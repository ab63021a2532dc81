--------------------------- MODULE MCControlPlane ---------------------------
(* ControlPlane for TLC.  Clients, queries and keys are interchangeable. *)
EXTENDS ControlPlane, TLC

\* A mount that holds an enabled policy, one that cannot be used, and none.
MCFiles == {[on |-> TRUE, exp |-> Nil], Missing, Unset}

\* Bound: while an idempotency key is in use there are only plans, applies and
\* resets, and no query.  Everything else is explored without keys.
Keyed == idemp # <<>> \/ \E c \in Clients : req[c] # Nil /\ req[c].key # Nil
OneLoad ==
    Keyed => /\ \A q \in Queries : loaded[q] = Nil
             /\ \A c \in Clients : req[c] = Nil \/ req[c].kind \in {"plan", "apply", "reset"}
             /\ ~active.off /\ ~emergency

Perms == Permutations(Clients) \cup Permutations(Queries) \cup Permutations(Keys)
=============================================================================
