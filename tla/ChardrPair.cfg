\* One writer, one reader, no signals.
SPECIFICATION FairSpec
CONSTANTS
  Nul = Nul
  Writers = {w1}
  Readers = {r1}
  Signalled = {}
  Bytes = {a, b}
  BUFFER_SIZE = 2
PROPERTIES
  ImplementsRendezvous
  WriterLeaves
\* A reader that sleeps first is never woken.
CHECK_DEADLOCK FALSE
