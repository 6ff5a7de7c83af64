SPECIFICATION StoreSpec
CHECK_DEADLOCK FALSE
CONSTANTS
  c1 = c1
  c2 = c2
  c3 = c3
  Calls <- MCCalls
  Emails = {e1, e2}
  Founder = Founder
  None = None
  once = once
  twice = twice
  Tokens = {once, twice}
  r1 = r1
  r2 = r2
  r3 = r3
  Joins <- MCJoins
  NoToken = NoToken
  AskedUses <- MCAskedUses
  Keys = {k1, k2, k3}
  Providers = {p1, p2}
  EnvKey = EnvKey
  NoKey = NoKey
  Addresses = {ip1, ip2}
  Limit = 2
  Window = 1
  Lag = 1
  SweepAbove = 1
  MaxTime = 4
  Bytes = {x, y}
  RingLimit = 3
  MaxWritten = 6
SYMMETRY Symmetry
INVARIANTS
  SignupsKeptApart
  ResetEndsSessions
  RuntimesAccounted
  CredentialsStayReadable
  AtMostTwice
  TableBounded
  KeepsLatest
PROPERTIES
  MarkedLinksAreRefused
  ExhaustedTokensAreRefused
