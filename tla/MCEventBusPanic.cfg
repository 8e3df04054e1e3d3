SPECIFICATION Spec
CONSTANTS
  Publishers = {p1}
  Handlers = {h1, h2}
  Runs = {r1}
  subBufferSize = 1
  MaxMessages = 1
INVARIANTS
  NeverPanics
CHECK_DEADLOCK FALSE
