SPECIFICATION Spec
CONSTANTS
  None = None
  t1 = t1
  n1 = n1
  w1 = w1
  Tasks = {t1,t2,t3}
  Workers = {w1,w2}
  Handlers = {h1,h2}
  Namespaces = {n1}
  Serves <- EveryFunction
  NamespaceOf <- OneNamespace
  MaxParallelism <- LimitOne
  Scopes <- AllTasks
  ProOnly = {}
  Pro = FALSE
  HeartbeatTimeout = 0
  MaxRequestAge = 0
  MaxRetries = 1
  Reported = {"error"}
  Timely = TRUE
  Endpoints <- NoClients
CHECK_DEADLOCK FALSE
SYMMETRY AllSymmetric
INVARIANTS
  OvershootBounded
  ExclusiveExecution
