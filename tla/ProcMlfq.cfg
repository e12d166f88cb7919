CONSTANTS
  NPROC = 3
  NCPU = 1
  BOOST = 5
  TickMod = 5
  Quantum <- MCQuantum
  Calls = {"fork", "yield", "setpriority"}
  KillPids = {}
  TargetPids = {2}
  Admins = {}
  Priorities = {2, 11}
  SleepTicks = {}
  MaxPid = 3
  MaxMoq = 0
SPECIFICATION MlfqSpec
INVARIANTS QuantumLeft
PROPERTIES NoOvertaking 
CHECK_DEADLOCK FALSE
