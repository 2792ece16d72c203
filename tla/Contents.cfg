SPECIFICATION ContentSpec
CONSTANTS
  upload = upload
  item = item
  f1 = f1
  None = None
  Unknown = Unknown
  Resources = {upload, item}
  Owned = {upload, item}
  Exempt = {item}
  Legacy = {upload}
  Files = {f1}
  FileOf <- OneFile
  Declared <- DeclaredUnknown
  Stored <- StoredUnit
  MaxSize = 1
  Handlers = {h1, h2}
  Endpoints = {"write", "trash", "restore", "purge", "backfill", "form_upload"}
  ChargeCap = 2
  ra = ra
  rb = rb
  ua = ua
  oa = oa
  Pages = {ra, rb}
  Payers = {ua, ub}
  PageOf <- SamePayer
  Copies = {rb}
  Objects = {oa, ob}
  Bytes <- UnitBytes
  OldRows <- OneOldRow
  Hands = {h1, h2}
  MaxHands = 4
  NoPayer = NoPayer
  Unsized = Unsized
  Failures = {error}
  Retries = {h1, h2}
  MaxAttempts = 3
  MaxEdits = 1
  MaxRetries = 2
  s1 = s1
  s2 = s2
  Senders = {s1, s2}
  ChunksOf <- ChunkCounts
  MaxSends = 2
  Nobody = Nobody
  Documents = {d1}
  Versions <- TwoTexts
  MaxOrders = 3
  Absent = Absent
  team = team
  mine = mine
  Feeds = {q1, q2}
  Boxes = {b1}
  Spaces = {team, mine}
  PrivateRoot = mine
  FolderLimit <- OneEach
  Movers = {h1, h2}
  MaxMoves = 4
  Free = Free
  Smarts = {q1, q2}
  Viewers = {u1, u2}
  Team = team
  SmartLimit = 1
  Tickets = {h1, h2}
  MaxTickets = 4
  Open = Open
  Sheets = {q1, q2}
  Labels = {a, b}
  Taggers = {h1, h2}
  MaxTags = 3
  MaxChanges = 4
  Books = {1, 2, 3}
  Shelves = {team, mine, lost}
  Home = mine
  Lost = lost
  MaxSorts = 4
CHECK_DEADLOCK FALSE
SYMMETRY Interchangeable
INVARIANTS
  ContentExact
  UploadExact
  AttachmentsPaid
  RetriesSound
  ResultsWhole
  IndexAgrees
  QuotasRespected
  TagsKept
  OrderKept
