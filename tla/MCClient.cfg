SPECIFICATION FairSpec
CONSTANTS
  Channels = {c1, c2}
  Subscribers = {c1}
  Workers = {w1, w2}
  Msgs = {m1, m2}
  Tags = {g1}
  None = None
CHECK_DEADLOCK FALSE
INVARIANTS
  TypeOK
  AnswerIsOnItsWay
  SubscriptionsAgree
PROPERTIES
  CallsReturn
  PushesAreDone
