SPECIFICATION DappsSpec
CONSTANTS
  MsgIds = {m1}
  Windows = {w1, w2}
  Networks = {n1, n2}
  NoNetwork = NoNetwork
  MaxClicks = 2
  MaxMoves = 2
  r1 = r1
  r2 = r2
  o1 = o1
  Reqs = {r1, r2}
  OriginOf <- CallOrigins
  Accts = {a1}
  Nobody = Nobody
  Locked = Locked
  NoReq = NoReq
  q1 = q1
  q2 = q2
  q3 = q3
  s1 = s1
  s2 = s2
  i1 = i1
  i2 = i2
  Asks = {q1, q2, q3}
  SiteOf <- AskSites
  IdOf <- AskIds
  NoAsk = NoAsk
  NoStore = NoStore
  Chains = {c1, c2}
  Addrs = {b1}
  CheckerChains = {c1}
  NoBalance = NoBalance
  Untracked = Untracked
  MaxClears = 1
  MaxInFlight = 2
  RatedTokens = {k1, k2}
  NoRate = NoRate
  Zero = Zero
  MaxAsking = 2
INVARIANTS
  DappsTypes
  ClearingIsExact
  OneWindow
  SitesWereApproved
PROPERTIES
  ImplementsAnswers
  WindowsImplementAnswers
  DecidedIsTold
  ClosedIsSettled
  TriggerEnds
  RemovedIsTold
  PolledCatchesUp
CHECK_DEADLOCK FALSE
