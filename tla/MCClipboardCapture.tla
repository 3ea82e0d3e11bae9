------------------------- MODULE MCClipboardCapture -------------------------
(* Two texts, so that one can replace the other on the clipboard, and two    *)
(* policies, one with and one without deduplication.                         *)
EXTENDS ClipboardCapture

CONSTANTS a, b, c1, c2, s

Policy(items, age, dedup) ==
  [max_items |-> items, max_age |-> age, deduplicate |-> dedup]

OneText == {a}
TwoTexts == {a, b}
OneSource == {s}
TwoCommands == {c1, c2}
RevisionIds == 0..MaxRevision
AnyQuery == SUBSET Texts
RoomyPolicy == Policy(2, 2, TRUE)
ShortPolicy == Policy(2, 1, TRUE)
OnePolicy == {ShortPolicy}
TwoPolicies == {RoomyPolicy, Policy(2, 1, FALSE)}
=============================================================================
