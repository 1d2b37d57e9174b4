\* Every bus reset is followed by at most one configuration; five reports of
\* three units against a queue of two.
SPECIFICATION FairSpec
CONSTANTS
  ReportSize = 3
  MaxReports = 5
  MaxResets = 2
  MaxConfigs = 3
  Reconfigures = FALSE
INVARIANTS TransmitIsTrue
PROPERTIES AcceptsAgain ReplyIsOffered AcceptedIsShown
\* The host may stop sending.
CHECK_DEADLOCK FALSE
