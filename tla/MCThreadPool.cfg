\* More tasks than threads, and counters that wrap at a value that is no
\* multiple of their number.
CONSTANTS
  Size = 2
  Wrap = 3
  MaxSpawns = 4
SPECIFICATION PoolSpec
INVARIANTS PoolTypeOK TasksAreSpread
PROPERTIES AbortIsReported SpawnedIsStarted PollersStop
\* Everything ends when the executor is dropped.
CHECK_DEADLOCK FALSE
