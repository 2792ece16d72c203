SPECIFICATION FairSpec
CONSTANTS
  None = None
  t1 = t1
  n1 = n1
  w1 = w1
  Tasks = {t1,t2}
  Workers = {w1,w2}
  Handlers = {h1}
  Namespaces = {n1}
  Serves <- OwnFunction
  NamespaceOf <- OneNamespace
  MaxParallelism <- LimitOne
  Scopes <- AllTasks
  ProOnly = {}
  Pro = FALSE
  HeartbeatTimeout = 0
  MaxRequestAge = 1
  MaxRetries = 1
  Reported = {"finished"}
  Timely = FALSE
  Endpoints <- NoClients
CHECK_DEADLOCK FALSE
PROPERTIES
  EventuallySettled
