SPECIFICATION MCSpec
CONSTANTS
  Emails = {e1}
  p1 = p1
  p2 = p2
  w = w
  Passwords = {p1, p2, w}
  Strong = {p1, p2}
  Names = {n1}
  Requests = {r1, r2}
  TokenIds = {t1, t2, t3}
  NoUser = NoUser
  NoToken = NoToken
  Idle = Idle
  ResendInterval = 1
  ResetLife = 1
  VerifyLife = 1
  MaxTime = 2
  Owners = {p1, p2}
  Installations = {i1}
  States = {s1}
  NoRow = NoRow
  StateLife = 0
  TokenLife = 2
  Buffer = 1
  MaxGithubTime = 1
  Keys = {k1}
  Values = {v1, v2}
  Readers = {r1, r2}
  Writers = {w1}
  NoEntry = NoEntry
  TTL = 2
  MaxDelay = 1
  MaxCacheTime = 4
  Clients = {c1}
  NoBucket = NoBucket
  Burst = 2
  Refill = 1
  MaxClock = 2
  MaxResets = 2
  MaxAttempts = 2
INVARIANTS
  UsersTypeOK
  LinksAreSound
  OwnersAccount
  SettingsFresh
  MailsLimited
  RequestsAreHonest
PROPERTY InstallationSound
SYMMETRY Symmetry
CHECK_DEADLOCK FALSE
