SPECIFICATION ServeFairSpec
CONSTANTS
  Publishers = {p1, p2}
  Handlers = {h1, h2}
  Runs = {r1, r2}
  subBufferSize = 1
  MaxMessages = 2
INVARIANTS
  ListedWhileOpen
  OrderedPerPublisher
  NothingForgotten
  LossNeedsBacklog
PROPERTIES
  ShutdownEnds
  NobodyIsHeldUp
CHECK_DEADLOCK FALSE
