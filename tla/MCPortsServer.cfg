SPECIFICATION FairSpec
CONSTANTS
  Nil = Nil
  Workers = {w1}
  Clients = {c1, c2, c3}
  Fails = {f1}
  NPorts = 2
  MaxFds = 3
INVARIANTS SelectsAllPorts BlocksOnlyAfterAbort
PROPERTIES EveryPortServed
CHECK_DEADLOCK FALSE
