SPECIFICATION SnapshotSpec
CONSTANTS
  a = a
  c1 = c1
  c2 = c2
  i1 = i1
  i2 = i2
  i3 = i3
  NoSource = NoSource
  NoSnapshot = NoSnapshot
  Texts <- OneText
  Sources <- NoSources
  Identifiers <- ThreeIdentifiers
  CommandIds <- TwoCommands
  Policies <- TwoPolicies
  DefaultPolicy <- FirstPolicy
  MaxRevision = 3
  MaxProcessedCommands = 1
  MaxTime = 2
  Queries <- AnyText
  ClockMayStepBack = TRUE
  MaxSnapshotItems = 1
SYMMETRY Symmetry
INVARIANTS
  
  LineageInOrder
PROPERTIES
  LosesOnlyExpired
CHECK_DEADLOCK FALSE
