\* Both drivers; a caller of the LED driver sets two valid periods.
SPECIFICATION FairSpec
CONSTANTS
  Callers = {c1, c2}
  Periods = {99, 100, 200}
  DefaultPeriod = 500
INVARIANTS
  TypeOK
  LedTimerStopped
  LedOff
  TimerAlive
PROPERTY
  NewPeriodTakesEffect
\* An unloaded module stops.
CHECK_DEADLOCK FALSE
