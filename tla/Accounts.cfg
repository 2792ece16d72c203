SPECIFICATION AccountSpec
CONSTANTS
  Users = {u1, u2, u3}
  Handlers = {h1, h2}
  MaxCommits = 3
  People = {p1, p2, p3}
  Emails = {e1}
  gmail = gmail
  apple = apple
  wechat = wechat
  weixin = weixin
  mobile = mobile
  Logins = {gmail, apple, wechat, weixin, mobile}
  Provider <- Providers
  Mailbox <- Mailboxes
  Visits = {h1, h2}
  MaxVisits = 3
  Unknown = Unknown
  Asks = {h1, h2}
  AttemptLimit = 2
  SendLimit = 2
  MaxCodes = 2
  MaxAsks = 5
  Subjects = {s1, s2}
  Clients = {c1}
  Calls = {h1, h2}
  MaxGrants = 2
  MaxCalls = 4
  Keys = {k1, k2, k3}
  Apps = {a1, a2}
  Jobs = {h1, h2}
  MaxJobs = 5
  NoKey = NoKey
  Hosts = {x1, x2}
  Updates = {h1, h2}
  MaxUpdates = 3
  Ownerless = Ownerless
  Clerks = {u1, u2, u3}
  PoolSize = 2
CHECK_DEADLOCK FALSE
SYMMETRY Interchangeable
INVARIANTS
  OneOwner
  MembershipsWhole
  LoginsSound
  CodesAreSpent
  SubjectsStable
  GrantsFollow
  
PROPERTIES
  OwnerKeepsAccess
  SameAccountAgain
