\* Liveness and refinement: two fibers that compete for the thread, on two ids.
\* No symmetry, which TLC cannot combine with liveness.
CONSTANTS
  t1 = t1
  t2 = t2
  t3 = t3
  NoTask = NoTask
  Tasks = {t1, t2}
  IdSpace = 2
  MaxParks = 2
  MaxRequests = 1
SPECIFICATION Spec
PROPERTIES UnparkedIsPolled SpawnedIsPolled ImplementsLifecycle
CHECK_DEADLOCK FALSE
