SPECIFICATION Spec
VIEW QueueView
CONSTANTS
  N_QUEUES = 3
  N_QNODES = 4
  N_KEYS = 8
  Items = {11, 12}
  Keys = {0, 3, 6}
INVARIANTS
  NodesConserved
  HeadersAgree
PROPERTIES
  Refines
CHECK_DEADLOCK FALSE
