SPECIFICATION Spec
CONSTANTS
  o1 = o1
  o2 = o2
  t1 = t1
  t2 = t2
  None = None
  Origins <- TwoOrigins
  Tunnels <- TwoTunnels
  Slots <- OneSlot
  WorkerMayStop = TRUE
  StartFrom <- WideStartFrom
  RefreshFrom <- WideRefreshFrom
  MaxOperation = 3
INVARIANTS
  TypeOK
  SessionAgreement
  OneAnswerUnderway
  CapabilityStaysHome
  ViewBelongsToSession
PROPERTIES
  SessionsEndForAReason
  NothingStartsWithoutWorker
  ImplementsEffectSlot
CHECK_DEADLOCK FALSE
