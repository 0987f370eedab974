\* Both drivers, nobody sets a period.
SPECIFICATION Spec
CONSTANTS
  Callers = {c1}
  Periods = {}
  DefaultPeriod = 500
INVARIANT
  TimerRemoved
CHECK_DEADLOCK FALSE
