--------------------------- MODULE MCSecureBluetooth ---------------------------
(* Three endpoints on two devices: a retry beside an older pairing, two      *)
(* initiators that cross, two answers to one hello.                          *)
EXTENDS SecureBluetooth, TLC

CONSTANTS e1, e2, e3, d1, d2, m1, m2

ThreeEndpoints == {e1, e2, e3}
TwoDevices == {d1, d2}
TwoMessages == {m1, m2}
Symmetry == Permutations(ThreeEndpoints) \cup Permutations(TwoDevices)
              \cup Permutations(TwoMessages)
=============================================================================
