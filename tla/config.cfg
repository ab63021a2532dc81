SPECIFICATION Spec
CONSTANTS
    Scenarios <- MCScenarios
    MaxOps = 2
    MaxChanges = 2
INVARIANTS ExportReplays PlanIsExact ChangesAreEarned PlanScopesExact
