SPECIFICATION FairSpec
CONSTANTS
  Emitters = {e1, e2}
  Runs = {r1}
  Payloads = {p1, p2, bad}
  Unserialisable = {bad}
  GenesisHash = GenesisHash
  Entropy <- MCEntropy
  MaxClock = 1
  MaxCalls = 3
INVARIANTS
  TypeOK
  ChainVerifies
  CorruptionIsLocated
  NilMeansDurable
PROPERTIES
  ImplementsAuditLog
  EmitReturns
CHECK_DEADLOCK FALSE
