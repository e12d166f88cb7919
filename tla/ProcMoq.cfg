CONSTANTS
  NPROC = 3
  NCPU = 1
  BOOST = 1
  TickMod = 1
  Quantum <- MCQuantum
  Calls = {"fork", "setpriority", "exit", "yield", "setmonopoly", "monopolize", "unmonopolize"}
  KillPids = {}
  TargetPids = {2, 3}
  Admins = {0}
  Priorities = {0}
  SleepTicks = {}
  MaxPid = 3
  MaxMoq = 2
SPECIFICATION Spec
 
PROPERTIES  MoqSticky MoqNotPreempted
CHECK_DEADLOCK FALSE
