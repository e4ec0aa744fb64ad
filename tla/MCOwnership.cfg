CONSTANTS
    Gateways = {g1}
    Offline = {m}
    Auxiliaries = {a1, a2}
    Migrators = {m}
    Old = {g1, a1}
    New = {m, a2}
    Slot <- MCSlot
    Binary <- MCBinary
    NoProcess = NoProcess
    Messages = {m1, m2}
    Providers = {p1, p2}
    KeyBound = 2
    LossBound = 2
SPECIFICATION MCSpec
INVARIANTS Exclusion AuxiliarySchemaFits BundleIsWhole BackupSurvives GateHolds CredentialsOpen
CHECK_DEADLOCK FALSE
