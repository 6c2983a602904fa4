SPECIFICATION FairSpec
CONSTANTS
  Nil = Nil
  Workers = {w1, w2}
  Conns = {c1, c2, c3}
INVARIANTS CountedOnce NeverOvercounts
PROPERTIES TakenIfUnguarded
CHECK_DEADLOCK FALSE
