SPECIFICATION InSpec
CONSTANTS
  Chains = {c1, c2}
  Addrs = {b1}
  Supported = {c1, c2}
  Nobody = Nobody
  NoChain = NoChain
  MaxHeight = 1
  MaxFetches = 2
INVARIANT FirstTimeGetsAll
CHECK_DEADLOCK FALSE
