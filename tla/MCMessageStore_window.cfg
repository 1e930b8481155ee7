SPECIFICATION Spec
CONSTANTS
  Msgs = {m1, m2, m3, t1}
  DurableMsgs = {m1, m2, m3}
  QueueDurable = TRUE
  Phantom = Phantom
  None = None
  GcMinTotal = 1
  OffsetLimit = 4
  MaxRecords = 4
  CrashPoints = {"idle", "payload", "copy", "rename", "cleared"}
INVARIANT
  OwedIsServed
