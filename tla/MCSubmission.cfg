CONSTANTS
  r1 = r1
  r2 = r2
  m0 = m0
  k1 = k1
  k2 = k2
  Nobody = Nobody
  NoKey = NoKey
  Requests = {r1, r2}
  Existing = {m0}
  Keys = {k1, k2}
  Streams = {"normal", "otp"}
  Asks <- MCAsks
  Budget <- MCBudget
  StreamBudget <- MCStreamBudget
  ScheduleCap = 1
SPECIFICATION MCSpec
INVARIANTS MessageHasArchive LimitsHonoured ReplacementIsExclusive
PROPERTIES KeepsPromise RequestIsAnswered
CHECK_DEADLOCK FALSE
