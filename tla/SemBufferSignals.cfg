\* Two writers, one of which takes signals, and two readers.
SPECIFICATION Spec
CONSTANTS
  Nul = Nul
  Writers = {w1, w2}
  Readers = {r1, r2}
  Signalled = {w2}
  Bytes = {a}
  BUFFER_SIZE = 1
INVARIANTS
  TypeOK
  SemBalance
  NoLostWakeup
  CopyIntoEmpty
SYMMETRY Symmetry
