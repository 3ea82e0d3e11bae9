----------------------------- MODULE EffectSlot -----------------------------
(***************************************************************************)
(* What the receive lifecycle promises to the rest of the program: one     *)
(* slot that runs at most one network effect at a time, and an authority   *)
(* (the session capability) that an effect needs, gains or gives up.       *)
(***************************************************************************)

VARIABLES
  effect,      \* the effect in the slot, "None" when it is free
  authority    \* whether the session capability is held

vars == <<effect, authority>>

Init == effect = "None" /\ authority = FALSE

\* A tunnel is created by a holder of no capability, or one who gives up a
\* finished session to start over.
BeginCreate ==
  /\ effect = "None" /\ ~authority
  /\ effect' = "Create" /\ UNCHANGED authority

\* Snapshots and downloads spend a capability that stays held.
BeginWithAuthority ==
  /\ effect = "None" /\ authority
  /\ effect' \in {"Refresh", "Download"}
  /\ UNCHANGED authority

\* Cancelling gives the capability up before the service has answered.
BeginCancel ==
  /\ effect = "None" /\ authority
  /\ effect' = "Cancel" /\ authority' = FALSE

\* Only a creation can bring a capability and only a snapshot (the last one of
\* a session) can take it away.
Settle ==
  /\ effect # "None"
  /\ effect' = "None"
  /\ effect = "Download" => authority' = TRUE
  /\ effect = "Cancel"   => authority' = FALSE
  /\ authority' \in BOOLEAN

\* A finished download is followed by a snapshot without freeing the slot.
Chain ==
  /\ effect = "Download" /\ effect' = "Refresh"
  /\ UNCHANGED authority

\* The capability is dropped while nothing runs.
Forget ==
  /\ effect = "None" /\ authority' = FALSE
  /\ UNCHANGED effect

Next == BeginCreate \/ BeginWithAuthority \/ BeginCancel \/ Settle \/ Chain \/ Forget

Spec == Init /\ [][Next]_vars
=============================================================================
