CONSTANTS
  Archives = {smtp, http}
  Api = {http}
  Cleaners = {c1}
  Reclaimers = {o1, o2}
  MaxFailures = 1
  MaxReports = 1
  Nobody = Nobody
SPECIFICATION ArchiveFairSpec
INVARIANTS AvailableHasFile GoneIsGone
PROPERTIES IntentRespectsHolds IntentIsCarriedOut
CHECK_DEADLOCK FALSE
