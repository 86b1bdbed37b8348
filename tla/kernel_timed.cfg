SPECIFICATION TimedSpec
CONSTANTS
  N_PROCS = 4
  QUANTUM_DEFAULT = 2
  N_TIMES = 6
  N_PIDS = 16
  SpawnPrios = {0}
  SleepTimes = {1, 2, 4}
  LastPid = 5
INVARIANTS
  WaitIsBounded
PROPERTIES
  SleepsAsAsked
  SystemProcessRuns
  SleeperWakes
