---------------------------- MODULE RetentionForm ----------------------------
(***************************************************************************)
(* The retention form of the Privacy page (render_privacy() in             *)
(* src/desktop/app.rs), frame by frame: the page is drawn anew for every   *)
(* frame, with the gestures the user makes in it.                          *)
(***************************************************************************)
CONSTANTS
  Policies,    \* what sliders and checkbox can show
  NoPolicy     \* no gesture on them, or none so far

VARIABLES
  retention,   \* the policy in force
  chosen,      \* history: what the user set sliders and checkbox to last
  asked        \* history: what was chosen when the user last pressed the button

vars == <<retention, chosen, asked>>

Init == retention \in Policies /\ chosen = NoPolicy /\ asked = NoPolicy

\* The widgets start from the policy in force in every frame; a gesture on them
\* changes what they show for the rest of the frame.
Shown(gesture) == IF gesture = NoPolicy THEN retention ELSE gesture

\* One frame.  The button is enabled while the widgets show another policy than the
\* one in force.
Frame(gesture, pressed) ==
  /\ retention' = IF pressed /\ Shown(gesture) # retention THEN Shown(gesture) ELSE retention
  /\ chosen' = IF gesture = NoPolicy THEN chosen ELSE gesture
  /\ asked' = IF pressed THEN chosen' ELSE asked

Next == \E gesture \in Policies \cup {NoPolicy}, pressed \in BOOLEAN : Frame(gesture, pressed)

Spec == Init /\ [][Next]_vars

\* "Apply retention policy" (src/desktop/app.rs, the button) applies it: once pressed,
\* the policy in force is the one the user had chosen.
AppliesWhatWasChosen == asked # NoPolicy => retention = asked
=============================================================================
