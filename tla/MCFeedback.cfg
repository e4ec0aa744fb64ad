CONSTANTS
  c1 = c1
  c2 = c2
  a1 = a1
  a2 = a2
  Collectors = {c1, c2}
  NoCollector = NoCollector
  Batch = 1
  MaxRecords = 3
  MaxBytes = 2
  Kinds = {"normal", "empty", "oversize", "understated"}
  MaxEpoch = 2
  MaxUid = 2
  MaxChanges = 2
  MaxFaults = 1
  Reports <- MCReports
  ExternalId <- MCExternalId
  Content <- MCContent
  Transactions <- MCTransactions
  Nobody = Nobody
SPECIFICATION MCSpec
INVARIANTS NothingSkipped ChargesAgree
PROPERTIES MailIsCollected ChangesAreAnnounced DecisionsAreInformed
CHECK_DEADLOCK FALSE
