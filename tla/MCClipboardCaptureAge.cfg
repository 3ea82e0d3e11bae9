SPECIFICATION FairSpec
CONSTANTS
  a = a
  b = b
  c1 = c1
  c2 = c2
  NoSource = NoSource
  s = s
  NoText = NoText
  Texts <- OneText
  Sources <- OneSource
  Identifiers <- RevisionIds
  CommandIds <- TwoCommands
  Policies <- OnePolicy
  DefaultPolicy <- ShortPolicy
  MaxRevision = 3
  MaxProcessedCommands = 1
  MaxTime = 2
  Queries <- AnyQuery
  ClockMayStepBack = FALSE
PROPERTIES
  ExpiredItemsGoAway
