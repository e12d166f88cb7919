CONSTANTS
  NPROC = 3
  NCPU = 1
  BOOST = 4
  TickMod = 4
  Quantum <- MCQuantum
  Calls = {"fork", "exit", "wait", "kill"}
  KillPids = {2, 3}
  TargetPids = {}
  Admins = {}
  Priorities = {}
  SleepTicks = {}
  MaxPid = 3
  MaxMoq = 0
SPECIFICATION LiveSpec
PROPERTIES OrphanReaped KilledExits ReadyRuns
