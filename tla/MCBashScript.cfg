SPECIFICATION FairSpec
CONSTANTS
  Nil = Nil
  Scripts = {s1, s2, s3}
  Loud = {s1}
  Quiet = {s3}
  Stubborn = {s3}
  MaxOpen = 5
INVARIANTS FirstStopIsDue TermNamesOwnGroup StopIsFinal ScriptsBounded
PROPERTIES WorkerReturns
CHECK_DEADLOCK FALSE
