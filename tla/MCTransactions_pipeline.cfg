SPECIFICATION Spec
CONSTANTS
  NumTxs = 2
  MaxNonce = 2
  Chains <- OneChain
  HistoryLimit = 40
  CustomNonces = {0}
  SwapTxs = {2}
  NonceTries = 2
  MaxClicks = 2
  DropBuffer = 0
  SlowTxs = {1}
  LateTxs = {1}
  OtherChains = {}
  MaxSwitches = 0
  MaxCrashes = 0
  None = None
  Other = Other
  c1 = c1
  c2 = c2
INVARIANTS
  LockDiscipline
  OneNoncePerTx
PROPERTIES
  DecidedBeforeRelease
  ConfirmedIsFinal
CHECK_DEADLOCK FALSE
