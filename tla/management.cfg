CONSTANTS
    Procs = {1, 2, 3}
    Scenarios <- MCScenarios
    Specs <- MCSpecs
    Traffic <- MCTraffic
    MaxSessions = 2
    TTL = 2
    Slots = 2
SPECIFICATION Spec
INVARIANTS LineageUnique CallsEarned NothingLeftBound
PROPERTIES Stops
