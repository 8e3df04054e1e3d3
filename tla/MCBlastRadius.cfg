SPECIFICATION BlastSpec
CONSTANTS
  Workspaces <- MCWorkspaces
  Specs <- MCSpecs
  Modules <- MCModules
  skipDirs <- MCSkipDirs
  Sources <- MCSources
  Tests <- MCTests
  Stem <- MCStem
  EndsWith <- MCEndsWith
INVARIANTS
  ImportersAreFound
  NamedFilesAreCovered
CHECK_DEADLOCK FALSE
