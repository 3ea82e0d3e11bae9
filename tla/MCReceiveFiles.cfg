SPECIFICATION FairSpec
CONSTANTS
  o1 = o1
  o2 = o2
  t1 = t1
  t2 = t2
  None = None
  Origins <- OneOrigin
  Tunnels <- OneTunnel
  Slots <- TwoSlots
  WorkerMayStop = FALSE
  StartFrom <- NarrowStartFrom
  RefreshFrom <- NarrowRefreshFrom
  MaxOperation = 3
PROPERTIES
  EffectsSettle
  FilesAppear
