CONSTANTS
  NPROC = 3
  NCPU = 1
  BOOST = 3
  TickMod = 3
  Quantum <- MCQuantum
  Calls = {"fork"}
  KillPids = {}
  TargetPids = {}
  Admins = {}
  Priorities = {}
  SleepTicks = {}
  MaxPid = 3
  MaxMoq = 0
SPECIFICATION Spec
INVARIANT NoNullDispatch
CHECK_DEADLOCK FALSE
