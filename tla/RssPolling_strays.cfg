SPECIFICATION FeedSpec
CONSTANTS
  l1 = l1
  l2 = l2
  f1 = f1
  e1 = e1
  w1 = w1
  w2 = w2
  g1 = g1
  g2 = g2
  b1 = b1
  b2 = b2
  Unused = Unused
  Nothing = Nothing
  Links = {l1, l2}
  Folders = {f1}
  Editors = {e1}
  Workers = {w1, w2}
  Guids = {g1, g2}
  Bodies = {b1, b2}
  Entries = {1, 2}
  GuidOf <- MCGuidOf
  Bare = {g2}
  Window = 1
  Stale = 2
  MaxExponent = 1
  MaxFaults = 1
CHECK_DEADLOCK FALSE
SYMMETRY Symmetric
INVARIANT
  OneResult
