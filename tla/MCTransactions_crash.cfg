SPECIFICATION Spec
CONSTANTS
  NumTxs = 2
  MaxNonce = 2
  Chains <- OneChain
  HistoryLimit = 40
  CustomNonces = {}
  SwapTxs = {}
  NonceTries = 1
  MaxClicks = 1
  DropBuffer = 0
  SlowTxs = {}
  LateTxs = {1}
  OtherChains = {}
  MaxSwitches = 0
  MaxCrashes = 1
  None = None
  Other = Other
  c1 = c1
  c2 = c2
CONSTRAINTS InTurn Answered
VIEW ViewOfDisk
INVARIANTS
  PolledWhilePending
  NonceProtocol
PROPERTIES
  ImplementsLedger
CHECK_DEADLOCK FALSE
