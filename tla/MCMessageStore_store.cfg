SPECIFICATION FairSpec
CONSTANTS
  Msgs = {m1, m2, m3, t1}
  DurableMsgs = {m1, m2, m3}
  QueueDurable = TRUE
  Phantom = Phantom
  None = None
  GcMinTotal = 1
  OffsetLimit = 5
  MaxRecords = 5
  CrashPoints = {"idle", "payload", "copy", "cleared"}
INVARIANTS
  TypeOK
  OffsetsNameOwnRecord
  OwedIsStored
  OwedIsServed
  SettledNeverReturns
  CountsMatchFile
  MsgsInOrder
  GarbageIsBounded
  EveryRecordIsManaged
PROPERTIES
  OverwritesOwnRecord
  ImplementsAtLeastOnce
  OperationEnds
