SPECIFICATION Spec
CONSTANTS
    p1 = p1
    p2 = p2
    Queries = {q1, q2}
    Policies = {p1, p2}
    Admins = {a1}
    Ops = {"apply"}
    Caps <- MCCaps
    PrePlans <- MCPrePlans
    PostPlans <- MCPostPlans
    MaxOps = 1
    Nil = Nil
SYMMETRY Perms
INVARIANTS CountersExact RequestDelayBounded
PROPERTIES ReservesWithinLimits
