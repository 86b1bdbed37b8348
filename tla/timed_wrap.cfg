SPECIFICATION TimedSpec
CONSTANTS
  N_PROCS = 4
  QUANTUM_DEFAULT = 2
  N_TIMES = 8
  N_PIDS = 16
  SpawnPrios = {0}
  SleepTimes = {1, 3}
  LastPid = 4
PROPERTIES
  NeverWokenEarly
