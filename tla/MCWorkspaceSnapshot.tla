------------------------- MODULE MCWorkspaceSnapshot -------------------------
(* Snapshots of at most one item of a workspace that may hold two, and a     *)
(* clock that goes both ways.                                                *)
EXTENDS WorkspaceSnapshot, TLC

CONSTANTS a, c1, c2, i1, i2, i3

Policy(items, age, dedup) ==
  [max_items |-> items, max_age |-> age, deduplicate |-> dedup]

OneText == {a}
NoSources == {}
ThreeIdentifiers == {i1, i2, i3}
TwoCommands == {c1, c2}
AnyText == {Texts}
Symmetry == Permutations(TwoCommands) \cup Permutations(ThreeIdentifiers)
TwoPolicies == {Policy(1, 1, TRUE), Policy(3, 1, FALSE)}
FirstPolicy == Policy(3, 1, FALSE)
=============================================================================
