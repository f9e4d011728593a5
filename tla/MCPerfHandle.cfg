CONSTANTS
  Handles = {h1, h2}
  NoHandle = NoHandle
  NrMmaps = 1
  Capacity = 2
  ReadEventsRate = 2
  Kinds = {"sample"}
  MaxProduced = 2
SPECIFICATION Spec
INVARIANTS
  SampleHandleIsOwn
