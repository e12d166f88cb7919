CONSTANTS
  Proc = {p1, p2, p3}
  NoProc = NoProc
  NBUF = 2
  Block = {k1, k2, k3}
  NoBlock = NoBlock
  Value = {0, 1}
  InitValue = 0
  MaxErrors = 1
SYMMETRY MCSymmetry
SPECIFICATION Spec
INVARIANTS TypeOK OneBufferPerBlock QueueSound SleepersWaited
PROPERTY CacheIsStore
