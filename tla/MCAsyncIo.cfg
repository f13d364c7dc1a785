\* All programs of MCAsyncIo, one per behaviour.
CONSTANTS
  t1 = t1
  t2 = t2
  s1 = s1
  s2 = s2
  stdin = stdin
  NoTask = NoTask
  NoFuture = NoFuture
  Tasks = {t1, t2}
  Sockets = {s1, s2}
  Input <- MCInput
  Futures <- MCFutures
  Programs <- MCPrograms
  MaxInput = 1
  ConnectMoves = FALSE
SPECIFICATION AsyncSpec
INVARIANTS
  AsyncTypeOK
  SuspendedOnlyIfUnavailable
  StdinInStep
  NotPolledInVain
PROPERTIES
  BlockedAreResumed
  BusyWaitEnds
  ExitEndsFiber
  FibersAreReported
\* Everything may have ended.
CHECK_DEADLOCK FALSE
