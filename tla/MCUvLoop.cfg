CONSTANTS
  UserTimers = {t1}
  Evlists = {e1, e2}
  Delays = {0, 2, 7}
  MaxTime = 1
  MaxWord = 7
SPECIFICATION Spec
INVARIANTS EnabledAfterPolled ActiveCount NoCallbackAfterClose ClosedOnce
PROPERTIES NotEarly StartupCompletes TimeoutFires
