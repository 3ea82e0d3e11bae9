--------------------------- MODULE MCRetentionForm ---------------------------
(* Three policies: one in force, one chosen, one chosen later.               *)
EXTENDS RetentionForm

CONSTANTS p1, p2, p3

ThreePolicies == {p1, p2, p3}
=============================================================================
