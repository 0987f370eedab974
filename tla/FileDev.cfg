\* Two processes that run any of the drivers' programs, one after another.
SPECIFICATION FairSpec
CONSTANTS
  a = a
  b = b
  Procs = {p1, p2}
  Bytes = {a, b}
  Nul = Nul
  Texts <- MCTexts
  Unknown = Unknown
  BUFF = 3
INVARIANTS
  TypeOK
  CopyInside
  Terminated
PROPERTIES
  ImplementsSafeFile
  PiecesEnd
