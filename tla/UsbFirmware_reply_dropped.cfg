\* No reset: the second of two queued reports finds the reply busy.
SPECIFICATION Spec
CONSTANTS
  ReportSize = 2
  MaxReports = 2
  MaxResets = 0
  MaxConfigs = 1
  Reconfigures = FALSE
PROPERTIES RepliesAreQueued
CHECK_DEADLOCK FALSE
