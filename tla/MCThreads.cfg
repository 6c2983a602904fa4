SPECIFICATION FairServersSpec
CONSTANTS
  Nil = Nil
  Workers = {w1, w2}
  Conns = {c1, c2, c3}
  MaxFds = 3
INVARIANTS AnsweredOnce ThreadOpenIsInUse LifetimeBounded
PROPERTIES FirstIsCounted
CHECK_DEADLOCK FALSE
