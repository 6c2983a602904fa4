SPECIFICATION FairSpec
CONSTANTS
  Nil = Nil
  Putters = {p1, p2}
  Workers = {w1, w2}
  Msgs = {m1, m2, m3}
  Socks = {s1, s2, s3}
INVARIANTS TypeOK ListShape MessagesAccounted NoLostWakeup
PROPERTIES ImplementsFifo Delivered
