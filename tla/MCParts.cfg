CONSTANTS
  Workers = {w1, w2, w3}
  Reqs = {r1, r2, r3}
  Exit = Exit
  Recancel = FALSE
SPECIFICATION PartsSpec
INVARIANTS
  NoLostWakeup NotAllAsleep ExitDrains
  MemoryKept RefsExact
  CloseSafe HandlerInstalled
  WireInOrder NoStall CloseReports
  HeapSound
  RestCopied
  EachOnce OwnMaps
  NoDangling
PROPERTIES
  Implements
  ShutdownWaits
  WalkExact
  FinalizedOnce
