\* Two writers and two readers, all but the first writer taking signals.
SPECIFICATION Spec
CONSTANTS
  Nul = Nul
  Writers = {w1, w2}
  Readers = {r1, r2}
  Signalled = {w2, r1, r2}
  Bytes = {a}
  BUFFER_SIZE = 1
INVARIANTS
  TypeOK
  SemBalance
  NoLostWakeup
  SynchronousWrite
SYMMETRY Symmetry
