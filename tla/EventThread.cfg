\* Two callers that issue up to two reads and two writes between them.
SPECIFICATION FairSpec
CONSTANTS
  Callers = {c1, c2}
  Thread = Thread
  Exit = Exit
  Signalled = {}
  MaxCalls = 2
INVARIANTS
  TypeOK
  NoLostWakeup
  NoPhantomEvent
PROPERTY
  EventConsumed
\* Once the module is unloaded the thread may sleep for ever.
CHECK_DEADLOCK FALSE
