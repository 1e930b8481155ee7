SPECIFICATION FairSpec
CONSTANTS
  Conns = {k1}
  Channels = {c1}
  Tags = {g1}
  Workers = {w1, w2}
  Msgs = {m1, m2, m3}
  Backlogs <- FreshOrOne
  NoTag = NoTag
  NoMsg = NoMsg
  NoChan = NoChan
  NoConn = NoConn
  Deletions = 1
CHECK_DEADLOCK FALSE
PROPERTY
  QueuedIsTaken
  ImplementsDispatch
