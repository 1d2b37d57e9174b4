\* One bus reset after the configuration.
SPECIFICATION Spec
CONSTANTS
  ReportSize = 2
  MaxReports = 1
  MaxResets = 1
  MaxConfigs = 1
  Reconfigures = FALSE
INVARIANTS NotifiesLiveEndpoint
CHECK_DEADLOCK FALSE
