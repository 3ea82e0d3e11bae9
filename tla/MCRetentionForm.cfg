SPECIFICATION Spec
CONSTANTS
  p1 = p1
  p2 = p2
  p3 = p3
  NoPolicy = NoPolicy
  Policies <- ThreePolicies
INVARIANTS
  AppliesWhatWasChosen
