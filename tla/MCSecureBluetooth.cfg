SPECIFICATION Spec
CONSTANTS
  e1 = e1
  e2 = e2
  e3 = e3
  d1 = d1
  d2 = d2
  m1 = m1
  m2 = m2
  NoPeer = NoPeer
  Garbled = Garbled
  Mistyped = Mistyped
  Endpoints <- ThreeEndpoints
  Devices <- TwoDevices
  Messages <- TwoMessages
  MaxFrames = 2
  ConfirmationTimeout = 1
  SessionLifetime = 1
  MaxTime = 3
SYMMETRY Symmetry
INVARIANTS
  TypeOK
  SessionsAgree
  NonceUsedOnce
PROPERTIES
  KeysExpire
  ImplementsChannel
CHECK_DEADLOCK FALSE
