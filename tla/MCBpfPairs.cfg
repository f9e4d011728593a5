CONSTANTS
  Workers = {w1}
  Reqs = {r1}
  Exit = Exit
  Recancel = FALSE
SPECIFICATION PartsSpec
INVARIANT PairsComplete
