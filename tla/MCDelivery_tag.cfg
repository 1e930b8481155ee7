SPECIFICATION Spec
CONSTANTS
  Conns = {k1}
  Channels = {c1, c2}
  Tags = {g1, g2}
  Workers = {w1, w2}
  Msgs = {m1, m2}
  Backlogs <- Recovered
  NoTag = NoTag
  NoMsg = NoMsg
  NoChan = NoChan
  NoConn = NoConn
  Deletions = 1
SYMMETRY Symmetry
CHECK_DEADLOCK FALSE
INVARIANT
  SubscribedIsConsumer
