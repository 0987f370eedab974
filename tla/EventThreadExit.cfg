\* One caller and one read before the module is removed.
SPECIFICATION FairSpec
CONSTANTS
  Callers = {c1}
  Thread = Thread
  Exit = Exit
  Signalled = {}
  MaxCalls = 1
PROPERTY
  ThreadEnds
CHECK_DEADLOCK FALSE
