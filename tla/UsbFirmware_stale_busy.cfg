\* A configuration is set while a reply waits for the host.
SPECIFICATION Spec
CONSTANTS
  ReportSize = 2
  MaxReports = 1
  MaxResets = 0
  MaxConfigs = 2
  Reconfigures = TRUE
PROPERTIES ConfigurationEnablesIn
CHECK_DEADLOCK FALSE
