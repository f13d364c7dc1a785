\* The receiver moves between two fibers, which also wait for another object,
\* and a thread outside of fibers.
CONSTANTS
  t1 = t1
  t2 = t2
  s1 = s1
  NoTask = NoTask
  Rx = Rx
  Tasks = {t1, t2}
  Senders = {s1}
  IdSpace = 2
  MaxParks = 1
  MaxRequests = 0
  MaxMoves = 2
SPECIFICATION OneshotSafetySpec
SYMMETRY TaskSymmetry
INVARIANTS OneshotTypeOK BorrowIsExclusive SentWakesOwner
\* Everything ends when the channel and the fibers are gone.
CHECK_DEADLOCK FALSE
