SPECIFICATION Spec
CONSTANTS
    Labels <- MCLabels
    Documents <- MCDocuments
    Queries <- MCQueries
INVARIANTS DeniedNamesAreAbsent WildcardsYield ForwardsAsAllowed
