SPECIFICATION PromptSpec
CONSTANTS
    p1 = p1
    p2 = p2
    Queries = {q1}
    Policies = {p1}
    Admins = {a1, a2}
    Ops = {"reset", "disable", "enable"}
    Caps <- OneCaps
    PrePlans <- OnePrePlans
    PostPlans <- OnePostPlans
    MaxOps = 2
    Nil = Nil
INVARIANTS DisabledMeansUntouched
PROPERTIES ShutdownDrains Served
