SPECIFICATION Spec
CONSTANTS
  None = None
  t1 = t1
  n1 = n1
  w1 = w1
  Tasks = {t1}
  Workers = {w1,w2}
  Handlers = {h1,h2}
  Namespaces = {n1}
  Serves <- EveryFunction
  NamespaceOf <- OneNamespace
  MaxParallelism <- LimitTwo
  Scopes <- AllTasks
  ProOnly = {}
  Pro = FALSE
  HeartbeatTimeout = 0
  MaxRequestAge = 0
  MaxRetries = 0
  Reported = {"finished"}
  Timely = FALSE
  Endpoints <- Unconditional
CHECK_DEADLOCK FALSE
SYMMETRY Symmetric
INVARIANTS
  TypeOK
PROPERTIES
  OnlyOwnerPersists
