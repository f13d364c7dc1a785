\* The sender may be dropped unsent while one fiber waits for the receiver.
CONSTANTS
  t1 = t1
  t2 = t2
  s1 = s1
  NoTask = NoTask
  Rx = Rx
  Tasks = {t1}
  Senders = {s1}
  IdSpace = 2
  MaxParks = 0
  MaxRequests = 0
  MaxMoves = 1
SPECIFICATION OneshotSpec
PROPERTY DropIsDetected
CHECK_DEADLOCK FALSE
