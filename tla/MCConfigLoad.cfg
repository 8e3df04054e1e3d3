SPECIFICATION Spec
CONSTANTS
  keys <- MCkeys
  Absent = Absent
  Ill = Ill
INVARIANTS
  
  WarnedOrUsed
  ServedIsValid
CHECK_DEADLOCK FALSE
