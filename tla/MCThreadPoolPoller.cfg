\* Poller threads may end with an error.
CONSTANTS
  Size = 2
  Wrap = 3
  MaxSpawns = 1
SPECIFICATION PoolSpec
PROPERTY PollerAbortIsReported
CHECK_DEADLOCK FALSE
