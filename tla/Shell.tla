-------------------------------- MODULE Shell --------------------------------
(***************************************************************************)
(* The window and the tray (src/desktop/shell.rs) with the part of the     *)
(* app's frame that drives them (process_shell() of src/desktop/app.rs).   *)
(* Tray clicks wait in two queues that belong to the tray library; a frame *)
(* drains the menu's queue, then the icon's, applies what it found in that *)
(* order, and then answers a close request.  Clicks arrive at any time,    *)
(* between the two drains too.                                             *)
(***************************************************************************)
EXTENDS Naturals, Sequences

CONSTANTS
  MaxClicks,     \* tray clicks that wait in one queue (a bound)
  MaxRevision    \* MAX_REVISION of the workspace

ASSUME ShellAssumption == MaxClicks \in Nat /\ MaxRevision \in Nat

MenuActions == {"OpenWindow", "HideWindow", "PauseCapture", "ResumeCapture", "Quit"}
CaptureStates == {"Active", "Paused"}

VARIABLES
  tray,             \* whether the tray could be set up
  shell,            \* ShellState
  capture_state,    \* the workspace's
  revision,         \* the workspace's
  \* the frame
  phase,            \* the part of the frame that comes next
  actions,          \* the tray actions still to be applied
  requested,        \* whether the frame's input has a close request
  \* the tray library and the window toolkit
  menu_clicks,
  icon_clicks,
  visible,          \* whether the window is shown
  close_event,      \* a close request for the next frame
  exited

queues   == <<menu_clicks, icon_clicks>>
workspace == <<capture_state, revision>>
vars     == <<tray, shell, workspace, phase, actions, requested, queues, visible,
              close_event, exited>>

TypeOK ==
  /\ tray \in BOOLEAN
  /\ shell \in [window_visible : BOOLEAN, capture_active : BOOLEAN,
                quit_requested : BOOLEAN]
  /\ capture_state \in CaptureStates /\ revision \in 0..MaxRevision
  /\ phase \in {"menu", "icon", "actions", "close", "render"}
  /\ actions \in Seq(MenuActions)
  /\ requested \in BOOLEAN
  /\ menu_clicks \in Seq(MenuActions) /\ icon_clicks \in Seq({"OpenWindow"})
  /\ visible \in BOOLEAN /\ close_event \in BOOLEAN /\ exited \in BOOLEAN

\* The tray is set up once; without it nobody clicks and nothing is drained.
Init ==
  /\ tray \in BOOLEAN
  /\ shell = [window_visible |-> TRUE, capture_active |-> FALSE,
              quit_requested |-> FALSE]
  /\ capture_state = "Paused" /\ revision = 0
  /\ phase = "menu" /\ actions = <<>> /\ requested = FALSE
  /\ menu_clicks = <<>> /\ icon_clicks = <<>>
  /\ visible = TRUE /\ close_event = FALSE /\ exited = FALSE

-----------------------------------------------------------------------------
(* One frame.                                                              *)

\* The frame begins: its input is fixed and poll_actions() drains the menu.
DrainMenu ==
  /\ ~exited /\ phase = "menu"
  /\ requested' = close_event /\ close_event' = FALSE
  /\ actions' = menu_clicks /\ menu_clicks' = <<>>
  /\ phase' = "icon"
  /\ UNCHANGED <<tray, shell, workspace, icon_clicks, visible, exited>>

\* Mutated form: the icon's actions replace the menu's.
DrainIconReplaces ==
  /\ ~exited /\ phase = "icon"
  /\ actions' = icon_clicks /\ icon_clicks' = <<>>
  /\ phase' = "actions"
  /\ UNCHANGED <<tray, shell, workspace, requested, menu_clicks, visible,
                 close_event, exited>>

\* poll_actions() drains the icon.
DrainIcon ==
  /\ ~exited /\ phase = "icon"
  /\ actions' = actions \o icon_clicks /\ icon_clicks' = <<>>
  /\ phase' = "actions"
  /\ UNCHANGED <<tray, shell, workspace, requested, menu_clicks, visible,
                 close_event, exited>>

\* Mutated form: the shell copies what was asked for, not what came of it.
SetCaptureActiveUnread(active) ==
  LET expected == IF active THEN "Active" ELSE "Paused" IN
    /\ IF capture_state # expected /\ revision < MaxRevision
       THEN capture_state' = expected /\ revision' = revision + 1
       ELSE UNCHANGED workspace
    /\ shell' = [shell EXCEPT !.capture_active = active]

\* set_capture_active(): a workspace command, refused when the revisions have
\* run out; the shell copies what came of it.
SetCaptureActive(active) ==
  LET expected == IF active THEN "Active" ELSE "Paused" IN
    /\ IF capture_state # expected /\ revision < MaxRevision
       THEN capture_state' = expected /\ revision' = revision + 1
       ELSE UNCHANGED workspace
    /\ shell' = [shell EXCEPT !.capture_active = (capture_state' = "Active")]

\* The oldest action is applied to the shell and sent to the toolkit.  Closing
\* takes effect as a close request of the next frame.
ApplyAction ==
  /\ ~exited /\ phase = "actions" /\ actions # <<>>
  /\ actions' = Tail(actions)
  /\ LET action == Head(actions) IN
       \/ /\ action \in {"OpenWindow", "HideWindow"}
          /\ visible' = (action = "OpenWindow")
          /\ shell' = [shell EXCEPT !.window_visible = (action = "OpenWindow")]
          /\ UNCHANGED <<workspace, close_event>>
       \/ /\ action \in {"PauseCapture", "ResumeCapture"}
          /\ SetCaptureActive(action = "ResumeCapture")
          /\ UNCHANGED <<visible, close_event>>
       \/ /\ action = "Quit"
          /\ shell' = [shell EXCEPT !.quit_requested = TRUE]
          /\ close_event' = TRUE
          /\ UNCHANGED <<workspace, visible>>
  /\ UNCHANGED <<tray, phase, requested, queues, exited>>

EndActions ==
  /\ ~exited /\ phase = "actions" /\ actions = <<>>
  /\ phase' = "close"
  /\ UNCHANGED <<tray, shell, workspace, actions, requested, queues, visible,
                 close_event, exited>>

\* Mutated form: the tray is not looked at.
HidesWithoutTray == ~shell.quit_requested

\* Mutated form: a quit is not looked at.
HidesOnQuit == tray

\* Mutated form: it hides only to go on capturing.
HidesToCapture == ~shell.quit_requested /\ tray /\ shell.capture_active

\* on_close_requested(): whether a close request becomes a hide.
Hides == ~shell.quit_requested /\ tray

\* A close request of this frame is cancelled and the window hidden, or it ends
\* the program when the frame ends.
AnswerClose ==
  /\ ~exited /\ phase = "close"
  /\ IF requested /\ Hides
     THEN /\ shell' = [shell EXCEPT !.window_visible = FALSE]
          /\ visible' = FALSE
          /\ UNCHANGED exited
     ELSE /\ exited' = requested
          /\ UNCHANGED <<shell, visible>>
  /\ phase' = "render" /\ requested' = FALSE
  /\ UNCHANGED <<tray, workspace, actions, queues, close_event>>

\* The rest of the frame: captures and other workspace commands use up revisions,
\* and the Pause or Resume button of the Clipboard page may have been clicked.
Render ==
  /\ ~exited /\ phase = "render"
  /\ \/ UNCHANGED <<shell, workspace>>
     \/ revision' \in (revision + 1)..MaxRevision /\ UNCHANGED <<shell, capture_state>>
     \/ visible /\ SetCaptureActive(capture_state = "Paused")
  /\ phase' = "menu"
  /\ UNCHANGED <<tray, actions, requested, queues, visible, close_event, exited>>

Frame ==
  DrainMenu \/ DrainIcon \/ ApplyAction \/ EndActions \/ AnswerClose \/ Render

-----------------------------------------------------------------------------
(* The user.                                                               *)

ClickMenu(action) ==
  /\ tray /\ ~exited /\ Len(menu_clicks) < MaxClicks
  /\ menu_clicks' = Append(menu_clicks, action)
  /\ UNCHANGED <<tray, shell, workspace, phase, actions, requested, icon_clicks,
                 visible, close_event, exited>>

ClickIcon ==
  /\ tray /\ ~exited /\ Len(icon_clicks) < MaxClicks
  /\ icon_clicks' = Append(icon_clicks, "OpenWindow")
  /\ UNCHANGED <<tray, shell, workspace, phase, actions, requested, menu_clicks,
                 visible, close_event, exited>>

\* The window manager asks the window to close.
CloseWindow ==
  /\ visible /\ ~exited /\ ~close_event
  /\ close_event' = TRUE
  /\ UNCHANGED <<tray, shell, workspace, phase, actions, requested, queues, visible,
                 exited>>

Next ==
  \/ Frame
  \/ \E action \in MenuActions : ClickMenu(action)
  \/ ClickIcon
  \/ CloseWindow

Spec == Init /\ [][Next]_vars

\* The event loop repaints every 250 ms, also while the window is hidden.
FairSpec == Spec /\ WF_vars(Frame)

-----------------------------------------------------------------------------
\* The program never becomes unreachable: a running program has a window on the
\* screen or a tray to bring it back.
StaysReachable == ~exited => visible \/ tray

\* What the shell believes of the window and of capture is so, in every part of
\* a frame, also when the workspace refuses a command.
ShellAgrees ==
  /\ shell.window_visible = visible
  /\ shell.capture_active = (capture_state = "Active")

\* Closing the window ends the program only when there is no tray to hide in;
\* otherwise it takes an explicit quit.
ExitIsExplicit ==
  [][ exited' /\ ~exited => ~tray \/ shell.quit_requested ]_vars

\* A quit is never turned into a hide, whatever else was clicked or closed in
\* the same frame: it ends the program.
QuitEnds == shell.quit_requested ~> exited

\* The last click on Pause or Resume in the menu, if any.
CaptureClicks == SelectSeq(menu_clicks, LAMBDA action :
                             action \in {"PauseCapture", "ResumeCapture"})

\* Once Pause is clicked, capture pauses, unless the workspace has run out of
\* revisions or the program ends first.
PauseHappens ==
  CaptureClicks # <<>> /\ CaptureClicks[Len(CaptureClicks)] = "PauseCapture"
    ~> capture_state = "Paused" \/ revision = MaxRevision \/ exited
=============================================================================
