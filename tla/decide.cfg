SPECIFICATION Spec
CONSTANTS
    Scenarios <- MCScenarios
    Unit = 12
    U = 2
INVARIANTS DropsWithinCap OneRunsPerGroup ModelPredictsLive
