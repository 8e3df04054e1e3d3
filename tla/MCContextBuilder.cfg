SPECIFICATION Spec
CONSTANTS
  limit = 6
  Lengths <- MCLengths
  MaxIterations = 2
  MaxResults = 2
INVARIANTS
  KeepsPinnedAndNewest
  EvictsExactly
  FeedbackSurvivesIfItFits
CHECK_DEADLOCK FALSE
