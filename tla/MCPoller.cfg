\* Two objects and two waiters, in both directions; objects come and go on two
\* tokens, so that tokens are skipped and reused.
CONSTANTS
  None = None
  Evented = {o1, o2}
  Monitors = {m1, m2}
  Timers = {}
  TokenSpace = 2
  Timeouts = {1}
  Durations = {0, 2}
  MaxTime = 0
  MioMayFail = FALSE
SPECIFICATION PollerSafetySpec
SYMMETRY Symmetry
VIEW View
INVARIANTS PollerTypeOK AssertionsHold WaitersCovered MioAgrees RegistrantsAreFreed
\* Nothing is left to do when every object, monitor and timer was used.
CHECK_DEADLOCK FALSE
