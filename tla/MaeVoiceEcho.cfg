SPECIFICATION Spec
CONSTANTS
  Task = {t1, t2}
  NoTask = NoTask
  MaxTimers = 2
INVARIANTS NoEcho
CHECK_DEADLOCK FALSE
