SPECIFICATION ChatSpec
CONSTANTS
  Servers = {v1, v2}
  Cancels = {c1}
  MaxSessions = 2
  MaxTogether = 2
  MaxMessages = 1
  MaxDeltas = 1
  Sayings = {a, b}
  Talkers = {v1, v2}
  MaxTalks = 4
  First = First
CHECK_DEADLOCK FALSE
SYMMETRY Symmetric
INVARIANTS
  MessagesSound
  CancelsTakeEffect
  Resumable
  ConversationKept
