SPECIFICATION MCSpec
CONSTANTS
    Providers = {p1, p2, p3, p4}
    Recipients = {1, 2}
    FailoverEnabled = TRUE
    MaxAttempts = 4
    MaxProviders = 3
    AttemptBound = 4
    Aging = {2}
    NoProvider = NoProvider
SYMMETRY MCSymmetry
INVARIANTS MovesOnlyWhenAllowed RouteGoesForward SelectionSuffices
CHECK_DEADLOCK FALSE
