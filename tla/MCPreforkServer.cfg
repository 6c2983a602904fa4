SPECIFICATION PassFairSpec
CONSTANTS
  Nil = Nil
  Workers = {w1, w2}
  Conns = {c1, c2}
  Silent = {c1}
  Hanging = {c1}
  MaxSignals = 1
INVARIANTS SemaphoreExact CountExact
PROPERTIES ClientsServed
CHECK_DEADLOCK FALSE
