\* Two timeouts or kills and one unplug, in any order.
SPECIFICATION LampSpec
CONSTANTS
  ReportSize = 2
  MaxReports = 4
  MaxResets = 1
  MaxConfigs = 2
  Reconfigures = FALSE
  Apps = {app}
  Tests = {test}
  None = None
  MaxFaults = 2
INVARIANTS LampTypeOK OwnedTransfers AnswerIsShown NoEchoAcrossReset NoStandstill NoEchoDropped LampInv
PROPERTIES AnswerLag ImplementsService CallReturns
\* Both processes may be done.
CHECK_DEADLOCK FALSE
