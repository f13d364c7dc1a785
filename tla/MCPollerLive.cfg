\* mio may report errors, after which the poller is dropped or polled again.
CONSTANTS
  None = None
  Evented = {o1}
  Monitors = {m1, m2}
  Timers = {}
  TokenSpace = 2
  Timeouts = {1}
  Durations = {0, 2}
  MaxTime = 0
  MioMayFail = TRUE
SPECIFICATION PollerSpec
INVARIANT AssertionsHold
PROPERTY MonitorsAreAnswered
\* Nothing is left to do when every object, monitor and timer was used.
CHECK_DEADLOCK FALSE
