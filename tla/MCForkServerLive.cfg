SPECIFICATION FairSpec
CONSTANTS
  Conns = {c1, c2}
  MaxRuns = 1
  MaxSignals = 1
  StraySigint = FALSE
  Hanging = {c1}
  NoConn = NoConn
INVARIANTS ReportIsCurrent
PROPERTIES ConnectionsEnd SignalsReported
CHECK_DEADLOCK FALSE
