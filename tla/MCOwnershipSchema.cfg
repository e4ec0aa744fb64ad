CONSTANTS
    Gateways = {g}
    Offline = {m}
    Auxiliaries = {}
    Migrators = {m}
    Old = {g}
    New = {m}
    Slot <- MCSlot
    Binary <- MCBinary
    NoProcess = NoProcess
SPECIFICATION Spec
INVARIANT GatewaySchemaFits
CHECK_DEADLOCK FALSE
