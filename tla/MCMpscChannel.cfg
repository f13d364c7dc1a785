\* Two senders, one fiber and a thread outside of fibers, which wait for nothing
\* else, so that only this channel can wake the fiber.
CONSTANTS
  t1 = t1
  t2 = t2
  s1 = s1
  s2 = s2
  NoTask = NoTask
  Rx = Rx
  Tasks = {t1}
  Senders = {s1, s2}
  IdSpace = 2
  MaxParks = 0
  MaxRequests = 0
  MaxMoves = 1
  MaxSends = 1
  Capacity = 2
SPECIFICATION MpscSpec
INVARIANTS MpscTypeOK UnparksAccounted MessageWakesOwner
PROPERTY MessagesAreReceived
CHECK_DEADLOCK FALSE
