CONSTANTS
  Handles = {h1, h2}
  NoHandle = NoHandle
  NrMmaps = 1
  Capacity = 2
  ReadEventsRate = 1
  Kinds = {"sample"}
  MaxProduced = 5
SPECIFICATION Spec
INVARIANT StatsAddUp
PROPERTIES
  ImplementsSched
SYMMETRY Symmetry
