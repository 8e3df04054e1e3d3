SPECIFICATION FairSpec
CONSTANTS
  Runs = {r1, r2}
  Files = {f1}
  timeout_s <- MCTimeouts
  MaxSignals = 1
  MaxCalls = 3
  MaxCommands = 1
  MaxFaults = 1
  MaxDeaths = 1
  None = None
  Empty = Empty
  Torn = Torn
INVARIANTS
  WholeVersions
  HistoryReplays
  ShellResultIsTrue
PROPERTIES
  CommandsReturn
CHECK_DEADLOCK FALSE
