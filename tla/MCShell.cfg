SPECIFICATION FairSpec
CONSTANTS
  MaxClicks = 2
  MaxRevision = 2
INVARIANTS
  StaysReachable
  ShellAgrees
PROPERTIES
  ExitIsExplicit
  QuitEnds
  PauseHappens
CHECK_DEADLOCK FALSE
