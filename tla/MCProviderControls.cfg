SPECIFICATION MCSpec
CONSTANTS
    p1 = p1
    p2 = p2
    Providers = {p1, p2}
    Workers = {w1, w2}
    HealthEnabled = TRUE
    HealthChecked = {p1}
    Settings <- MCSettings
    GroupSettings <- MCGroupSettings
    Quantum = 2
    MinimumSamples = 1
    MaxRecipients = 2
    Outcomes = {"SUCCESS", "FAILURE", "IGNORED"}
    ReservationBound = 3
    ChangeBound = 1
    NoProvider = NoProvider
INVARIANTS ProbeIsAlone
PROPERTIES ReservationFits ProbeDecides HalfOpenEnds
CHECK_DEADLOCK FALSE
