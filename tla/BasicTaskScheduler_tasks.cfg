SPECIFICATION Spec
CONSTANTS
  Tasks = {t1, t2, t3}
  Sockets = {}
  Delays = {0, 1, 2, 4}
  MaxSleep = 3
  MaxTime = 5
  MaxJump = 2
  MaxChanges = 0
SYMMETRY Symmetric
INVARIANTS TypeOK
PROPERTIES ImplementsAlarms SleepsToNextAlarm
CHECK_DEADLOCK FALSE
