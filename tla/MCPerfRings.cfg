CONSTANTS
  Handles = {h1}
  NoHandle = NoHandle
  NrMmaps = 2
  Capacity = 2
  ReadEventsRate = 2
  Kinds = {"sample", "other", "bad", "notime"}
  MaxProduced = 3
SPECIFICATION Spec
INVARIANTS
  CallbackRecordIntact
  DeliveredExactlyOnce
  FlushComplete
  NoLostWakeup
PROPERTIES
  MergedByTime
  FlushSorted
