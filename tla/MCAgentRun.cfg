SPECIFICATION FairSpec
CONSTANTS
  Specs <- MCSpecs
  MaxBlocks = 1
  MaxFaults = 1
INVARIANTS
  TypeOK
  CompletedMeansVerified
  HaltedMeansExhausted
  WithinBudget
  TerminalEventIsLast
  RecordsAgree
  FileHistoryIsFaithful
PROPERTIES
  ImplementsLifecycle
  Returns
CHECK_DEADLOCK FALSE
