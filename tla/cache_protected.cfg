SPECIFICATION Spec
CONSTANTS
    Queries = {q1}
    Contents <- Life
    CDs = {FALSE}
    Hooks <- NoData
    TTLs = {1}
    MaxGen = 0
    MaxTime = 0
    Nil = Nil
INVARIANTS ProtectedUnaffected
