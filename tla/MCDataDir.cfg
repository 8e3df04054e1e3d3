SPECIFICATION Spec
CONSTANTS
  Processes = {p1, p2}
  Commands = {"run", "serve", "audit"}
  Migrations = 2
  MaxStarts = 3
  MaxFaults = 1
INVARIANTS
  TypeOK
  SecretsAgree
  MigratedOnce
  OpensAgain
CHECK_DEADLOCK FALSE
