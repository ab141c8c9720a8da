SPECIFICATION FairSpec
CONSTANTS
  NumTxs = 2
  MaxNonce = 2
  Chains <- OneChain
  HistoryLimit = 40
  CustomNonces = {}
  SwapTxs = {}
  NonceTries = 2
  MaxClicks = 1
  DropBuffer = 0
  SlowTxs = {}
  LateTxs = {1}
  OtherChains = {}
  MaxSwitches = 0
  MaxCrashes = 0
  None = None
  Other = Other
  c1 = c1
  c2 = c2
PROPERTIES
  ApprovalEnds
  DappAnswered
  SubmittedResolved
CHECK_DEADLOCK FALSE
