CONSTANTS
    p1 = p1
    p2 = p2
    p3 = p3
    i1 = i1
    s1 = s1
    w1 = w1
    c1 = c1
    c2 = c2
    c3 = c3
    home = home
    away = away
    user = user
    Nothing = Nothing
    Callers = {p1, p2, p3, i1, s1, w1}
    Posts = {p1, p2, p3}
    Inspections = {i1}
    Sessions = {s1}
    Workers = {w1}
    Connections = {c1, c2, c3}
    Sources = {home, away}
    Accounts = {user}
    Addresses = {"own", "foreign"}
    From <- MCFrom
    Allows <- MCAllows
    Key <- MCKey
    Need <- MCNeed
    Limit <- MCLimit
    Slots = 2
    ReadSlots = 1
    PerKey = 2
    Pool = 3
    Total = 2
    PerSource = 1
    MaxSources = 1
    Tries = 2
    ObjectBound = 3
SPECIFICATION MCSpec
INVARIANTS WithinBudget SourceLimitsHold
PROPERTY EveryoneFinishes
CHECK_DEADLOCK FALSE
