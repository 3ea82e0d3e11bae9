---------------------------- MODULE PickerMachine ----------------------------
(***************************************************************************)
(* The picker state machine of the UI component library                    *)
(* (ftnl_ui_components::picker_machine), which lies outside the            *)
(* repository: the table is read off the way src/lifecycle.rs, its tests,  *)
(* src/desktop/app.rs and formal/DesktopLifecycle.tla use it.  Two rows    *)
(* that these uses leave open are constants.                               *)
(***************************************************************************)

CONSTANTS
  StartFrom,    \* the states in which the command Start is legal
  RefreshFrom   \* the states in which the command Refresh is legal

\* Start is used from idle and complete; a failure without session may also
\* accept it beside Retry.
ASSUME StartFromAssumption ==
  /\ {"idle", "complete"} \subseteq StartFrom
  /\ StartFrom \subseteq {"idle", "complete", "failed_without_session"}

\* Refresh is used from pairing and transferring; a failure with session may
\* also accept it beside Retry.
ASSUME RefreshFromAssumption ==
  /\ {"pairing", "transferring"} \subseteq RefreshFrom
  /\ RefreshFrom \subseteq {"pairing", "transferring", "failed_with_session"}

InFlight == {"creating", "refreshing", "downloading", "cancelling"}

RequiresSession ==
  {"pairing", "refreshing", "transferring", "downloading", "failed_with_session"}

PickerStates ==
  InFlight \cup RequiresSession \cup {"idle", "complete", "failed_without_session"}

\* The transition table: for each event, the states it is legal in and where
\* each of them goes.
Transitions ==
  [ Start            |-> [s \in StartFrom |-> "creating"],
    Refresh          |-> [s \in RefreshFrom |-> "refreshing"],
    Download         |-> [s \in {"transferring"} |-> "downloading"],
    Cancel           |-> [s \in {"pairing", "transferring", "failed_with_session"} |->
                            "cancelling"],
    Retry            |-> [s \in {"failed_without_session", "failed_with_session"} |->
                            IF s \in RequiresSession THEN "refreshing" ELSE "creating"],
    Reset            |-> [s \in {"complete", "failed_without_session",
                                 "failed_with_session"} |-> "idle"],
    Created          |-> [s \in {"creating"} |-> "pairing"],
    SnapshotEmpty    |-> [s \in {"refreshing"} |-> "pairing"],
    SnapshotFiles    |-> [s \in {"refreshing"} |-> "transferring"],
    AllFilesReceived |-> [s \in {"refreshing"} |-> "complete"],
    Downloaded       |-> [s \in {"downloading"} |-> "transferring"],
    Cancelled        |-> [s \in {"cancelling"} |-> "idle"],
    Failed           |-> [s \in InFlight |->
                            IF s \in RequiresSession THEN "failed_with_session"
                                                     ELSE "failed_without_session"] ]

Legal(state, event) == state \in DOMAIN Transitions[event]

Target(state, event) == Transitions[event][state]
=============================================================================
