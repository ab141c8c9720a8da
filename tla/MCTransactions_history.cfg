SPECIFICATION Spec
CONSTANTS
  NumTxs = 3
  MaxNonce = 2
  Chains <- OneChain
  HistoryLimit = 2
  CustomNonces = {}
  SwapTxs = {}
  NonceTries = 1
  MaxClicks = 1
  DropBuffer = 0
  SlowTxs = {}
  LateTxs = {}
  OtherChains = {}
  MaxSwitches = 0
  MaxCrashes = 0
  None = None
  Other = Other
  c1 = c1
  c2 = c2
CONSTRAINTS InTurn Answered
PROPERTIES
  PendingNotForgotten
CHECK_DEADLOCK FALSE
