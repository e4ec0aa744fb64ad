CONSTANTS
  d1 = d1
  d2 = d2
  r1 = r1
  r2 = r2
  s1 = s1
  s2 = s2
  Rows = {1, 2}
  MaxVersion = 2
  Dispatchers = {d1, d2}
  Hashes = {h1, h2}
  MaxAttempts = 2
  GenerationBound = 1
  SyncBound = 1
  NoRow = NoRow
  Clients = {s1, s2}
  Other = {s2}
  Readers = {r1, r2}
  Production = TRUE
  MaxFailures = 1
  Stored = Stored
SPECIFICATION MCSpec
INVARIANTS DeliveredIsKept RefreshCoversInbox
PROPERTIES OutcomesStay EventReachesSite
CHECK_DEADLOCK FALSE
