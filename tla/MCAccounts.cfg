SPECIFICATION AccountsSpec
CONSTANTS
  o1 = o1
  o2 = o2
  t1 = t1
  t2 = t2
  t3 = t3
  k1 = k1
  k2 = k2
  Accounts = {a1, a2}
  Origins = {o1, o2}
  Tabs = {t1, t2, t3}
  OriginOf <- PageOrigins
  Calls = {k1, k2}
  Interface = Interface
  None = None
  Seeds = {s1, s2}
  MaxHd = 2
  Imports = {i1, g1}
  Device = {g1}
  VaultWindows = {w1, w2}
  MaxVaults = 2
  MaxLocks = 1
  NoAccount = NoAccount
  Sites = {d1, d2, d3, d4}
  CacheMax = 2
  c1 = c1
  c2 = c2
  c3 = c3
  y1 = y1
  y2 = y2
  b1 = b1
  Chains = {c1, c2, c3}
  Addrs = {b1, b2}
  TokenIds = {y1, y2}
  Contracts <- TokenContracts
  NoList = NoList
  MaxLookups = 2
  Supported = {c1, c2}
  Nobody = Nobody
  NoChain = NoChain
  MaxHeight = 1
  MaxFetches = 2
  h1 = h1
  h2 = h2
  x0 = x0
  x1 = x1
  e0 = e0
  p0 = p0
  p1 = p1
  HomeChains = {h1, h2}
  HomeAddrs = {x0, x1, e0}
  Paths = {p0, p1}
  FirstPath = p0
  Derived <- HomeDerived
  Importable <- HomeImportable
  SavedLists <- HomeSaved
  Unset = Unset
  NoTag = NoTag
  Resting = Resting
  Inits = {1}
  MaxTokenRequests = 1
INVARIANTS
  AccountsTypes
  FlagMeansWaiting
  ToldIsCurrent
  IdentitiesFollowKeys
  TokensOnTheirChain
  ShownTokensAreOwn
  IncomingOnItsChain
  HomeShowsOneAccount
  AccountsKept
PROPERTIES
  ExposedExist
  AccountsNotLost
  ConnectedRemembered
CONSTRAINT Bounds
CHECK_DEADLOCK FALSE
SYMMETRY WindowSymmetry
