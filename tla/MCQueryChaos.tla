---------------------------- MODULE MCQueryChaos ----------------------------
(* Instances of QueryChaos for TLC.                                        *)
EXTENDS QueryChaos, TLC

CONSTANTS p1, p2

D(p, d) == [policy |-> p, delay |-> d]
Cap(conc, pc, rate, d, pd) ==
    [conc |-> conc, policyConc |-> [p \in Policies |-> pc], policyRate |-> [p \in Policies |-> rate],
     delay |-> d, policyDelay |-> [p \in Policies |-> pd]]

\* A tight snapshot and an unlimited one.
MCCaps == {Cap(1, 1, FALSE, 3, 2), Cap(0, 0, TRUE, 0, 0)}

MCPrePlans ==
    {[NoPre EXCEPT !.before = <<D(p1, 2), D(p2, 2)>>, !.limit = p1],
     [NoPre EXCEPT !.upstream = <<D(p1, 1)>>]}
MCPostPlans == {[NoPost EXCEPT !.response = <<D(p1, 2)>>]}

OneCaps == {Cap(1, 1, FALSE, 2, 2)}

\* For the emergency: one delay before and after, and answers chaos makes.
OnePrePlans ==
    {[NoPre EXCEPT !.before = <<D(p1, 1)>>, !.inject = TRUE, !.limit = p1],
     [NoPre EXCEPT !.upstream = <<D(p1, 1)>>, !.hint = TRUE],
     [NoPre EXCEPT !.early = TRUE]}
OnePostPlans == {[NoPost EXCEPT !.after = <<D(p1, 1)>>, !.mutate = TRUE, !.hint = TRUE]}

Perms == Permutations(Queries)
=============================================================================
