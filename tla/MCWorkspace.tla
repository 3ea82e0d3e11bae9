----------------------------- MODULE MCWorkspace -----------------------------
(* Three command identifiers and a memory of two; policies that keep one or  *)
(* two items, for one or two units of time, with and without deduplication.  *)
EXTENDS WorkspaceCommands, TLC

CONSTANTS a, b, s1, c1, c2, c3, i1, i2

Policy(items, age, dedup) ==
  [max_items |-> items, max_age |-> age, deduplicate |-> dedup]

TwoTexts == {a, b}
OneSource == {s1}
TwoIdentifiers == {i1, i2}
ThreeCommands == {c1, c2, c3}
AnyText == {Texts}
Symmetry == Permutations(TwoTexts) \cup Permutations(ThreeCommands)
              \cup Permutations(TwoIdentifiers)
ManyPolicies == {Policy(1, 2, TRUE), Policy(2, 1, FALSE), Policy(2, 1, TRUE)}
RoomyPolicy == Policy(2, 1, TRUE)
=============================================================================
