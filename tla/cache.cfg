SPECIFICATION Spec
CONSTANTS
    Queries = {q1, q2}
    Contents <- AllContents
    CDs = {FALSE, TRUE}
    Hooks <- CacheHooks
    TTLs = {1, 2}
    MaxGen = 1
    MaxTime = 2
    Nil = Nil
SYMMETRY Perms
CONSTRAINT OneLoad
INVARIANTS CapacityInForce HitIsOwnAnswer HitTTLBounded
PROPERTIES OldGenerationsStoreNothing
