CONSTANTS
  Clients = {c1, c2}
  Getters = {c1}
  Listers = {c1}
  Putters = {c2}
  Workers = {w0, w1}
  FirstWorker = w0
  None = None
  Null = Null
  Cap = 2
SPECIFICATION Spec
INVARIANTS
  TypeOK
  OneWorkerPerClient
  PermitForEveryClient
  PoolInv
PROPERTY
  HandedOverIsKept
CHECK_DEADLOCK FALSE
