SPECIFICATION FairSpec
CONSTANTS
  Nil = Nil
  Workers = {w1, w2}
  Conns = {c1, c2, c3, c4}
PROPERTIES QueuedIsTaken
CHECK_DEADLOCK FALSE
