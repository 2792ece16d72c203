SPECIFICATION Spec
CONSTANTS
  None = None
  t1 = t1
  n1 = n1
  w1 = w1
  Tasks = {t1,t2}
  Workers = {w1,w2}
  Handlers = {h1,h2}
  Namespaces = {n1}
  Serves <- EveryFunction
  NamespaceOf <- OneNamespace
  MaxParallelism <- LimitTwo
  Scopes <- AllTasks
  ProOnly = {t1}
  Pro = FALSE
  HeartbeatTimeout = 0
  MaxRequestAge = 1
  MaxRetries = 1
  Reported = {"finished", "error"}
  Timely = FALSE
  Endpoints <- Conditional
CHECK_DEADLOCK FALSE
SYMMETRY Symmetric
INVARIANTS
  RowsCoherent
  AppliedAtMostOnce
  NeverStranded
PROPERTIES
  NeverReopened
  ImplementsLifecycle
