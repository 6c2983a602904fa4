SPECIFICATION Spec
CONSTANTS
  Conns = {c1, c2}
  MaxRuns = 2
  MaxSignals = 0
  StraySigint = TRUE
  Hanging = {}
  NoConn = NoConn
SYMMETRY Symmetry
INVARIANTS SemaphoreExact CountExact NeverOvercounts StatisticsBounded AnsweredIsCounted
CHECK_DEADLOCK FALSE
