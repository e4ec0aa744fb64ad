\* Two overlapping reads of a message with three events.
CONSTANTS
  MaxVersion = 3
  Clients = {s1}
  Other = {}
  Readers = {r1, r2}
  Production = FALSE
  MaxFailures = 0
  Stored = Stored
SPECIFICATION SiteSpec
PROPERTY SnapshotsAdvance
CHECK_DEADLOCK FALSE
