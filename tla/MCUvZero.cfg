CONSTANTS
  UserTimers = {t1, t2}
  Evlists = {e1}
  Delays = {0, 1}
  MaxTime = 1
  MaxWord = 9
SPECIFICATION SafeSpec
PROPERTY ZeroFiresNextIteration
