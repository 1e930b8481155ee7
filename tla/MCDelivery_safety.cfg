SPECIFICATION Spec
CONSTANTS
  Conns = {k1, k2}
  Channels = {c1, c2}
  Tags = {g1, g2}
  Workers = {w1, w2}
  Msgs = {m1, m2}
  Backlogs <- Either
  NoTag = NoTag
  NoMsg = NoMsg
  NoChan = NoChan
  NoConn = NoConn
  Deletions = 1
SYMMETRY Symmetry
CHECK_DEADLOCK FALSE
INVARIANTS
  TypeOK
  PublishedIsKept
  PushedAtMostOnce
  QueueHasItsTasks
  ConsumersAreOpen
  RoundRobinIsEven
