SPECIFICATION Spec
CONSTANTS
  NumTxs = 2
  MaxNonce = 2
  Chains <- TwoChains
  HistoryLimit = 40
  CustomNonces = {}
  SwapTxs = {}
  NonceTries = 1
  MaxClicks = 1
  DropBuffer = 0
  SlowTxs = {}
  LateTxs = {}
  OtherChains = {}
  MaxSwitches = 1
  MaxCrashes = 0
  None = None
  Other = Other
  c1 = c1
  c2 = c2
SYMMETRY Symmetry
INVARIANTS
  OneNoncePerTx
  StaysOnItsChain
CHECK_DEADLOCK FALSE
