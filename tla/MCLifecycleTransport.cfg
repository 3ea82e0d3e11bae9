SPECIFICATION Spec
CONSTANTS
  StartFrom <- MCStartFrom
  RefreshFrom <- MCRefreshFrom
  MaxOperation = 3
INVARIANTS
  TypeOK
  InFlightAgrees
  OnlyTheRunningEffectIsAnswered
PROPERTIES
  EffectsSettleOnce
  ImplementsEffectSlot
CHECK_DEADLOCK FALSE
