\* A future that connects is moved to another fiber.
CONSTANTS
  t1 = t1
  t2 = t2
  s1 = s1
  s2 = s2
  stdin = stdin
  NoTask = NoTask
  NoFuture = NoFuture
  Tasks = {t1, t2}
  Sockets = {s1, s2}
  Input <- MCInput
  Futures <- MCFutures
  Programs <- MCMovingPrograms
  MaxInput = 1
  ConnectMoves = TRUE
SPECIFICATION AsyncSpec
INVARIANT SuspendedOnlyIfUnavailable
CHECK_DEADLOCK FALSE
