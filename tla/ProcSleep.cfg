CONSTANTS
  NPROC = 3
  NCPU = 1
  BOOST = 3
  TickMod = 6
  Quantum <- MCQuantum
  Calls = {"fork", "sleep", "kill", "io"}
  KillPids = {2}
  TargetPids = {}
  Admins = {}
  Priorities = {}
  SleepTicks = {2}
  MaxPid = 2
  MaxMoq = 0
SPECIFICATION LiveSpec
INVARIANT SleeperNotOverdue
PROPERTY SleepReturns
