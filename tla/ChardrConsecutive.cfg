\* Two writers and a reader: a write over unread data.
SPECIFICATION Spec
CONSTANTS
  Nul = Nul
  Writers = {w1, w2}
  Readers = {r1}
  Signalled = {}
  Bytes = {a}
  BUFFER_SIZE = 1
INVARIANT
  NoConsecutiveWrites
CHECK_DEADLOCK FALSE
