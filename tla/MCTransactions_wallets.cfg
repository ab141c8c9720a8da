SPECIFICATION Spec
CONSTANTS
  NumTxs = 2
  MaxNonce = 3
  Chains <- OneChain
  HistoryLimit = 40
  CustomNonces = {}
  SwapTxs = {}
  NonceTries = 1
  MaxClicks = 1
  DropBuffer = 1
  SlowTxs = {}
  LateTxs = {1}
  OtherChains <- OneChain
  MaxSwitches = 0
  MaxCrashes = 0
  None = None
  Other = Other
  c1 = c1
  c2 = c2
INVARIANTS
  TypeOK
  NoSharedNonce
  ConfirmedNonceNotReused
PROPERTIES
  DroppedNonceIsUsed
CHECK_DEADLOCK FALSE
