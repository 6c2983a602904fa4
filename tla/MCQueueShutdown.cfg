SPECIFICATION FairSpec
CONSTANTS
  Nil = Nil
  Acceptor = acceptor
  Workers = {w1, w2}
  Socks = {s1, s2}
  Modulus = 8
INVARIANTS QuietEndsCleanly FaultsExplained
PROPERTIES SigintEnds
CHECK_DEADLOCK FALSE
