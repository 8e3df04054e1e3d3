SPECIFICATION Spec
CONSTANTS
  Emitters = {e1, e2}
  Runs = {r1, r2}
  Payloads = {p1}
  Unserialisable = {}
  GenesisHash = GenesisHash
  Entropy <- MCEntropy
  MaxClock = 1
  MaxCalls = 3
INVARIANTS
  ChainVerifies
CHECK_DEADLOCK FALSE
