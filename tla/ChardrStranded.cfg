\* One writer and one reader that sleeps first.
SPECIFICATION FairSpec
CONSTANTS
  Nul = Nul
  Writers = {w1}
  Readers = {r1}
  Signalled = {}
  Bytes = {a}
  BUFFER_SIZE = 1
PROPERTY
  ReaderWoken
\* Writer and reader both end up asleep.
CHECK_DEADLOCK FALSE
