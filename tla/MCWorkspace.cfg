SPECIFICATION Spec
CONSTANTS
  a = a
  b = b
  s1 = s1
  c1 = c1
  c2 = c2
  c3 = c3
  i1 = i1
  i2 = i2
  NoSource = NoSource
  Texts <- TwoTexts
  Sources <- OneSource
  Identifiers <- TwoIdentifiers
  CommandIds <- ThreeCommands
  Policies <- ManyPolicies
  DefaultPolicy <- RoomyPolicy
  MaxRevision = 7
  MaxProcessedCommands = 2
  MaxTime = 2
  Queries <- AnyText
  ClockMayStepBack = TRUE
SYMMETRY Symmetry
INVARIANTS
  TypeOK
  AppliedOnceOnItsRevision
  RetentionHolds
PROPERTIES
  PinnedItemsStay
  CountTakesFromTheEnd
  DeduplicationAddsNoCopy
CHECK_DEADLOCK FALSE
