\* Bus resets and configurations in any order, also repeated and zero ones.
SPECIFICATION Spec
CONSTANTS
  ReportSize = 2
  MaxReports = 4
  MaxResets = 2
  MaxConfigs = 4
  Reconfigures = TRUE
INVARIANTS TypeOK RoomReserved WholeReports BusyIsTrue NeverDeaf RaceNeedsReset IInv OrderInv
PROPERTIES RepliesInOrder ImplementsDevice
\* The host may stop sending, and the use of a NULL endpoint ends the model.
CHECK_DEADLOCK FALSE
