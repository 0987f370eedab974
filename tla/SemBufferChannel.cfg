\* Two writers, one reader, no signals.
SPECIFICATION FairSpec
CONSTANTS
  Nul = Nul
  Writers = {w1, w2}
  Readers = {r1}
  Signalled = {}
  Bytes = {a, b}
  BUFFER_SIZE = 2
PROPERTIES
  ImplementsChannel
  SleepingWriterWakes
  WriterAdmitted
