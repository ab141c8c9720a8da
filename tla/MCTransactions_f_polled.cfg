SPECIFICATION Spec
CONSTANTS
  NumTxs = 2
  MaxNonce = 2
  Chains <- TwoChains
  HistoryLimit = 40
  CustomNonces = {}
  SwapTxs = {}
  NonceTries = 1
  MaxClicks = 1
  DropBuffer = 1
  SlowTxs = {}
  LateTxs = {1, 2}
  OtherChains = {}
  MaxSwitches = 2
  MaxCrashes = 0
  None = None
  Other = Other
  c1 = c1
  c2 = c2
INVARIANTS
  PolledWhilePending
CHECK_DEADLOCK FALSE
