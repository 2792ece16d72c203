SPECIFICATION AccessSpec
CONSTANTS
  root = root
  a = a
  b = b
  c = c
  n1 = n1
  n2 = n2
  Resources = {root, a, b, c}
  Root = root
  Names = {n1, n2}
  Unnamed = n2
  Handlers = {h1, h2}
  MaxCommits = 3
  MaxServed = 2
  Watched = {c}
  Shared = {a, b}
  None = None
  InitialParent <- MCParent
  InitialName <- MCName
  InitialEntry <- MCEntry
  Changeable <- MCChangeable
CHECK_DEADLOCK FALSE
SYMMETRY Symmetric
INVARIANTS
  Acyclic
  NamesUnique
  ReadersServed
