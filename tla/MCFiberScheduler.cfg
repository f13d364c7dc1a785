\* Three fibers on two ids, so that an id is reused and skipped; the scheduler
\* may stop after a panic, hence no deadlock check.
CONSTANTS
  t1 = t1
  t2 = t2
  t3 = t3
  NoTask = NoTask
  Tasks = {t1, t2, t3}
  IdSpace = 2
  MaxParks = 2
  MaxRequests = 1
SPECIFICATION SafetySpec
SYMMETRY TaskSymmetry
INVARIANTS TypeOK ParkBalance FiberTableConsistent RunQueueConsistent NoLostWakeup NoFiberStranded
CHECK_DEADLOCK FALSE
