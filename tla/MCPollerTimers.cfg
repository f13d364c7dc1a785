\* Two timers.
CONSTANTS
  None = None
  Evented = {}
  Monitors = {}
  Timers = {x1, x2}
  TokenSpace = 1
  Timeouts = {2}
  Durations = {1, 2}
  MaxTime = 3
  MioMayFail = FALSE
SPECIFICATION PollerSpec
INVARIANTS NeverEarly LatenessIsBounded CancelledTimersAreFreed
PROPERTY TimersExpire
\* Nothing is left to do when every object, monitor and timer was used.
CHECK_DEADLOCK FALSE
