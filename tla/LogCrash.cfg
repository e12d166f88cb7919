CONSTANTS
  Proc = {p1, p2, p3}
  Block = {b1, b2, b3}
  Value = {0, 1}
  InitValue = 0
  NoProc = NoProc
  LOGSIZE = 4
  MAXOPBLOCKS = 2
  nlog = 4
SYMMETRY MCSymmetry
SPECIFICATION Spec
INVARIANTS TypeOK  SleeperWoken QuietIsDurable
PROPERTY Atomic
