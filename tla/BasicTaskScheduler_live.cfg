SPECIFICATION FairSpec
CONSTANTS
  Tasks = {t1, t2}
  Sockets = {0, 2}
  Delays = {0, 1}
  MaxSleep = 3
  MaxTime = 1
  MaxJump = 0
  MaxChanges = 3
INVARIANTS SocketsWatched
PROPERTIES TasksRun SocketsServed
CHECK_DEADLOCK FALSE
