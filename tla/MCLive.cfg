CONSTANTS
  Handles = {h1, h2}
  NoHandle = NoHandle
  NrMmaps = 1
  Capacity = 3
  ReadEventsRate = 2
SPECIFICATION LiveSpec
PROPERTIES
  SignalEnds WakeupAnswered
  AllReported JoinReturns
  CloseCompletes
  WritesReported
