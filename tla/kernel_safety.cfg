SPECIFICATION MCSpec
CONSTANTS
  N_PROCS = 5
  QUANTUM_DEFAULT = 2
  N_TIMES = 16
  N_PIDS = 16
  SpawnPrios = {0, 7}
  SleepTimes = {1, 3}
  MaxPid = 6
  MaxTime = 4
INVARIANTS
  TypeOK
  Placement
  StackOwnership
  ActiveCount
  QnodesSuffice
  NoPanic
  NoOverdueSleeper
  SleepOrder
PROPERTIES
  ReadyFifo
  AwakenedFirst
  Lives
