CONSTANTS
  NPROC = 4
  NCPU = 1
  BOOST = 1
  TickMod = 1
  Quantum <- MCQuantum
  Calls = {"fork", "exit", "wait", "kill", "fault"}
  KillPids = {1, 2, 3}
  TargetPids = {}
  Admins = {}
  Priorities = {}
  SleepTicks = {}
  MaxPid = 4
  MaxMoq = 0
SPECIFICATION Spec
INVARIANTS TypeOK NoLostChild ParentAlive 
CHECK_DEADLOCK FALSE
