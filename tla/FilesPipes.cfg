CONSTANTS
  Proc = {p1, p2}
  NFILE = 3
  NOFILE = 2
  Page = {k1}
  PIPESIZE = 2
  UintMod = 4
  Byte = {0, 1}
  Writes <- MCWrites
  ReadSizes = {2}
  INODE = INODE
  NONE = NONE
SYMMETRY MCSymmetry
SPECIFICATION Spec
INVARIANTS TypeOK RefsCounted PipeEnds 
PROPERTY PipesAreStreams
CHECK_DEADLOCK FALSE
