----------------------------- MODULE ShellProofs -----------------------------
(***************************************************************************)
(* Proofs about the window and the tray, for queues of any length and any  *)
(* number of revisions.                                                    *)
(***************************************************************************)
EXTENDS Shell, TLAPS

\* Without a tray there is nothing to apply, so nothing hides the window.
NothingToApply == ~tray => actions = <<>> /\ menu_clicks = <<>> /\ icon_clicks = <<>>

Inv == TypeOK /\ NothingToApply /\ StaysReachable /\ ShellAgrees

\* A workspace command keeps the types and what the shell believes of capture,
\* whether the workspace accepts or refuses it.
LEMMA CaptureCommand ==
  ASSUME NEW active \in BOOLEAN, TypeOK, SetCaptureActive(active)
  PROVE  /\ capture_state' \in CaptureStates /\ revision' \in 0..MaxRevision
         /\ shell' = [shell EXCEPT !.capture_active = (capture_state' = "Active")]
  <1>1. shell' = [shell EXCEPT !.capture_active = (capture_state' = "Active")]
    BY Zenon DEF SetCaptureActive
  <1>2. \/ /\ capture_state' \in CaptureStates
           /\ revision < MaxRevision /\ revision' = revision + 1
        \/ capture_state' = capture_state /\ revision' = revision
    BY DEF SetCaptureActive, CaptureStates, workspace
  <1>3. revision \in 0..MaxRevision /\ capture_state \in CaptureStates
    BY DEF TypeOK
  <1> QED
    BY <1>1, <1>2, <1>3, ShellAssumption

LEMMA InitInv == Init => Inv
  <1> SUFFICES ASSUME Init PROVE Inv
    OBVIOUS
  <1>1. TypeOK
    <2>1. tray \in BOOLEAN
      BY Zenon DEF Init
    <2>2. revision \in 0..MaxRevision
      BY ShellAssumption DEF Init
    <2>3. capture_state \in CaptureStates
      BY DEF Init, CaptureStates
    <2>4. shell \in [window_visible : BOOLEAN, capture_active : BOOLEAN,
                     quit_requested : BOOLEAN]
      BY DEF Init
    <2>5. actions \in Seq(MenuActions) /\ menu_clicks \in Seq(MenuActions)
          /\ icon_clicks \in Seq({"OpenWindow"})
      BY DEF Init
    <2>6. requested \in BOOLEAN /\ visible \in BOOLEAN /\ close_event \in BOOLEAN
          /\ exited \in BOOLEAN
      BY Zenon DEF Init
    <2>7. phase \in {"menu", "icon", "actions", "close", "render"}
      BY DEF Init
    <2> QED
      BY <2>1, <2>2, <2>3, <2>4, <2>5, <2>6, <2>7, Zenon DEF TypeOK
  <1> QED
    BY <1>1 DEF Init, Inv, NothingToApply, StaysReachable, ShellAgrees

LEMMA NextInv == Inv /\ [Next]_vars => Inv'
  <1> SUFFICES ASSUME Inv, [Next]_vars PROVE Inv'
    OBVIOUS
  <1> USE DEF Inv
  <1>1. CASE DrainMenu
    <2>1. TypeOK'
      <3>1. requested' \in BOOLEAN /\ close_event' \in BOOLEAN
        BY <1>1, Zenon DEF DrainMenu, TypeOK
      <3>2. actions' \in Seq(MenuActions) /\ menu_clicks' \in Seq(MenuActions)
        BY <1>1 DEF DrainMenu, TypeOK
      <3>3. phase' \in {"menu", "icon", "actions", "close", "render"}
        BY <1>1 DEF DrainMenu
      <3>4. UNCHANGED <<tray, shell, capture_state, revision, icon_clicks, visible, exited>>
        BY <1>1 DEF DrainMenu, workspace
      <3> QED
        BY <3>1, <3>2, <3>3, <3>4, Zenon DEF TypeOK
    <2>2. NothingToApply' /\ StaysReachable' /\ ShellAgrees'
      BY <1>1 DEF DrainMenu, NothingToApply, StaysReachable, ShellAgrees, workspace
    <2> QED
      BY <2>1, <2>2
  <1>2. CASE DrainIcon
    <2>1. actions' \in Seq(MenuActions)
      BY <1>2 DEF DrainIcon, TypeOK, MenuActions
    <2>2. ~tray' => actions' = <<>>
      BY <1>2 DEF DrainIcon, NothingToApply
    <2> QED
      BY <1>2, <2>1, <2>2
      DEF DrainIcon, TypeOK, NothingToApply, StaysReachable, ShellAgrees, workspace
  <1>3. CASE ApplyAction
    <2>1. Head(actions) \in MenuActions /\ actions' \in Seq(MenuActions) /\ tray /\ tray'
      BY <1>3 DEF ApplyAction, TypeOK, NothingToApply
    <2>2. CASE Head(actions) \in {"OpenWindow", "HideWindow"}
      BY <1>3, <2>1, <2>2
      DEF ApplyAction, TypeOK, NothingToApply, StaysReachable, ShellAgrees, workspace, queues
    <2>3. CASE Head(actions) \in {"PauseCapture", "ResumeCapture"}
      <3>1. SetCaptureActive(Head(actions) = "ResumeCapture")
            /\ UNCHANGED <<visible, close_event>>
        BY <1>3, <2>3 DEF ApplyAction
      <3>2. /\ capture_state' \in CaptureStates /\ revision' \in 0..MaxRevision
            /\ shell' = [shell EXCEPT !.capture_active = (capture_state' = "Active")]
        BY <3>1, CaptureCommand
      <3> QED
        BY <1>3, <2>1, <3>1, <3>2
        DEF ApplyAction, TypeOK, NothingToApply, StaysReachable, ShellAgrees, queues
    <2>4. CASE Head(actions) = "Quit"
      BY <1>3, <2>1, <2>4
      DEF ApplyAction, TypeOK, NothingToApply, StaysReachable, ShellAgrees, workspace, queues
    <2> QED
      BY <2>1, <2>2, <2>3, <2>4 DEF MenuActions
  <1>4. CASE EndActions
    BY <1>4
    DEF EndActions, TypeOK, NothingToApply, StaysReachable, ShellAgrees, workspace, queues
  <1>5. CASE AnswerClose
    <2>1. CASE requested /\ Hides
      BY <1>5, <2>1 DEF AnswerClose, Hides, TypeOK, NothingToApply, StaysReachable,
                        ShellAgrees, workspace, queues
    <2>2. CASE ~(requested /\ Hides)
      BY <1>5, <2>2 DEF AnswerClose, TypeOK, NothingToApply, StaysReachable,
                        ShellAgrees, workspace, queues
    <2> QED
      BY <2>1, <2>2
  <1>6. CASE Render
    <2>1. CASE UNCHANGED <<shell, workspace>>
      BY <1>6, <2>1
      DEF Render, TypeOK, NothingToApply, StaysReachable, ShellAgrees, workspace, queues
    <2>2. CASE revision' \in (revision + 1)..MaxRevision /\ UNCHANGED <<shell, capture_state>>
      <3>1. revision' \in 0..MaxRevision
        BY <2>2, ShellAssumption DEF TypeOK
      <3> QED
        BY <1>6, <2>2, <3>1
        DEF Render, TypeOK, NothingToApply, StaysReachable, ShellAgrees, queues
    <2>3. CASE visible /\ SetCaptureActive(capture_state = "Paused")
      <3>1. /\ capture_state' \in CaptureStates /\ revision' \in 0..MaxRevision
            /\ shell' = [shell EXCEPT !.capture_active = (capture_state' = "Active")]
        BY <2>3, CaptureCommand
      <3> QED
        BY <1>6, <3>1
        DEF Render, TypeOK, NothingToApply, StaysReachable, ShellAgrees, queues
    <2> QED
      BY <1>6, <2>1, <2>2, <2>3 DEF Render
  <1>7. CASE \E action \in MenuActions : ClickMenu(action)
    BY <1>7
    DEF ClickMenu, TypeOK, NothingToApply, StaysReachable, ShellAgrees, workspace
  <1>8. CASE ClickIcon
    BY <1>8
    DEF ClickIcon, TypeOK, NothingToApply, StaysReachable, ShellAgrees, workspace
  <1>9. CASE CloseWindow
    BY <1>9
    DEF CloseWindow, TypeOK, NothingToApply, StaysReachable, ShellAgrees, workspace, queues
  <1>10. CASE UNCHANGED vars
    BY <1>10
    DEF vars, TypeOK, NothingToApply, StaysReachable, ShellAgrees, workspace, queues
  <1> QED
    BY <1>1, <1>2, <1>3, <1>4, <1>5, <1>6, <1>7, <1>8, <1>9, <1>10 DEF Next, Frame

LEMMA Invariance == Spec => []Inv
  BY InitInv, NextInv, PTL DEF Spec

\* Every variable keeps its type, in ShellState, the frame and the queues.
THEOREM TypeCorrect == Spec => []TypeOK
  <1>1. Inv => TypeOK
    BY DEF Inv
  <1> QED
    BY <1>1, Invariance, PTL

\* A running program can always be brought back to the screen: on_close_requested()
\* hides only with a tray, and without a tray nothing else hides.
THEOREM CanBeReached == Spec => []StaysReachable
  <1>1. Inv => StaysReachable
    BY DEF Inv
  <1> QED
    BY <1>1, Invariance, PTL

\* ShellState agrees with the window and with the workspace in every part of a
\* frame, whatever commands the workspace refuses.
THEOREM BeliefsHold == Spec => []ShellAgrees
  <1>1. Inv => ShellAgrees
    BY DEF Inv
  <1> QED
    BY <1>1, Invariance, PTL

\* Only AnswerClose ends the program, without a tray or after an explicit quit.
THEOREM ExitsAreExplicit == Spec => ExitIsExplicit
  <1>1. ASSUME Next, exited', ~exited PROVE ~tray \/ shell.quit_requested
    <2>1. CASE AnswerClose
      BY <1>1, <2>1 DEF AnswerClose, Hides
    <2>2. CASE ~AnswerClose
      <3>1. exited' = exited
        BY <1>1, <2>2 DEF Next, Frame, DrainMenu, DrainIcon, ApplyAction, EndActions,
                          Render, ClickMenu, ClickIcon, CloseWindow
      <3> QED
        BY <1>1, <3>1
    <2> QED
      BY <2>1, <2>2
  <1>2. [Next]_vars => [exited' /\ ~exited => ~tray \/ shell.quit_requested]_vars
    BY <1>1
  <1> QED
    BY <1>2, PTL DEF Spec, ExitIsExplicit
=============================================================================
