-------------------------- MODULE ClipboardCapture --------------------------
(***************************************************************************)
(* The clipboard half of the desktop app (src/desktop/app.rs) around the   *)
(* workspace reducer: the poll of the system clipboard, the buttons of the *)
(* Clipboard and Privacy pages, and the other programs that copy text.     *)
(* The app sends every command under a fresh identifier and the current    *)
(* revision, so the reducer refuses a command only for its content or when *)
(* the revisions have run out.                                             *)
(***************************************************************************)
EXTENDS WorkspaceCommands

CONSTANT NoText     \* no text that can be read on the clipboard, or none captured yet

\* There is a command identifier that is not remembered, and an item identifier for
\* every capture.
ASSUME CaptureAssumption ==
  /\ NoText \notin Texts
  /\ 0..MaxRevision \subseteq Identifiers
  /\ IsFiniteSet(CommandIds) => Cardinality(CommandIds) > MaxProcessedCommands

VARIABLES
  last_clipboard_hash,   \* the text last captured or copied from the history, or NoText
  clipboard,             \* the text on the system clipboard, or NoText, which is also an
                         \* unavailable clipboard and a failing get_text()
  copied,                \* whether another program has copied text that the app
                         \* has not yet dealt with
  source_exclusion_input \* the text box of the Privacy page: a fingerprint, or
                         \* NoSource for any other text

captureVars == <<last_clipboard_hash, clipboard, copied, source_exclusion_input>>

CaptureInit ==
  /\ Init
  /\ last_clipboard_hash = NoText
  /\ clipboard \in Texts \cup {NoText}
  /\ copied = (clipboard # NoText)
  /\ source_exclusion_input = NoSource

-----------------------------------------------------------------------------
\* Uuid::new_v4()
FreshCommand == CHOOSE c \in CommandIds : c \notin ToSet(workspace.processed_commands)

\* apply_workspace_action()
ApplyAction(changed) == Apply(FreshCommand, workspace.revision, changed)

\* A button whose action touches the workspace alone.
Click(changed) == ApplyAction(changed) /\ UNCHANGED captureVars

\* set_capture_active(), by the button or the tray.
SetCaptureActive(state) ==
  /\ workspace.capture_state # state
  /\ Click(WithCapture(workspace, state))

TypeSearch(query) == Click(WithSearch(workspace, query))

\* visible_items(): only items that the search matches have buttons.
VisibleItems == {item \in ToSet(workspace.items) : item.text \in workspace.search_query}

\* The Pin button turns into Unpin on a pinned item.
TogglePin(item) ==
  Click(IF item.is_pinned THEN Unpin(workspace, item.item_id, now)
                          ELSE Pin(workspace, item.item_id))

ClickDelete(item) == Click(Delete(workspace, item.item_id))

\* The button takes hidden items too.
ClickClearUnpinned ==
  /\ Unpinned(workspace.items) # {}
  /\ Click(ClearUnpinned(workspace))

\* Slider and button in one frame; RetentionForm has the form frame by frame.
ApplyRetention(policy) ==
  /\ policy # workspace.retention
  /\ Click(WithRetention(workspace, policy, now))

TypeExclusion(source) ==
  /\ source_exclusion_input' = source
  /\ UNCHANGED <<vars, last_clipboard_hash, clipboard, copied>>

\* A fingerprint is added and the text box cleared; other text stays there.
AddExclusion ==
  /\ source_exclusion_input \in Sources
  /\ ApplyAction(WithExclusions(workspace, workspace.excluded \cup {source_exclusion_input}))
  /\ source_exclusion_input' = NoSource
  /\ UNCHANGED <<last_clipboard_hash, clipboard, copied>>

RemoveExclusion(source) ==
  Click(WithExclusions(workspace, workspace.excluded \ {source}))

\* Mutated form: the copied text is not remembered.
CopyItemForgets(item) ==
  /\ clipboard' = item.text
  /\ copied' = FALSE
  /\ UNCHANGED <<vars, last_clipboard_hash, source_exclusion_input>>

\* copy_clipboard_item(): the app's own copy is not to be captured again.
CopyItem(item) ==
  /\ clipboard' = item.text
  /\ last_clipboard_hash' = item.text
  /\ copied' = FALSE
  /\ UNCHANGED <<vars, source_exclusion_input>>

\* Mutated form: a text that is in the history is not captured.
CaptureSkipsKnown ==
  /\ workspace.capture_state = "Active"
  /\ clipboard # NoText /\ last_clipboard_hash # clipboard
  /\ \A i \in DOMAIN workspace.items : workspace.items[i].text # clipboard
  /\ ApplyAction(Ingest(workspace, workspace.revision, clipboard, NoSource, now, now))
  /\ last_clipboard_hash' = clipboard
  /\ copied' = FALSE
  /\ UNCHANGED <<clipboard, source_exclusion_input>>

\* capture_clipboard_text(), by the button or by the poll of every 750 ms: text
\* other than the last one is ingested, and remembered once the reducer has
\* accepted it.  The item gets a fresh identifier (Uuid::new_v4()): the revision is
\* one that no item has.
CaptureClipboardText ==
  /\ workspace.capture_state = "Active"
  /\ clipboard # NoText /\ last_clipboard_hash # clipboard
  /\ ApplyAction(Ingest(workspace, workspace.revision, clipboard, NoSource, now, now))
  /\ last_clipboard_hash' = clipboard
  /\ copied' = FALSE
  /\ UNCHANGED <<clipboard, source_exclusion_input>>

\* Another program copies text, or leaves none that can be read.
CopiedElsewhere(text) ==
  /\ clipboard' = text
  /\ copied' = (text # NoText)
  /\ UNCHANGED <<vars, last_clipboard_hash, source_exclusion_input>>

CaptureNext ==
  \/ \E state \in CaptureStates : SetCaptureActive(state)
  \/ \E query \in Queries : TypeSearch(query)
  \/ \E item \in VisibleItems : TogglePin(item) \/ ClickDelete(item) \/ CopyItem(item)
  \/ ClickClearUnpinned
  \/ \E policy \in Policies : ApplyRetention(policy)
  \/ \E source \in Sources \cup {NoSource} : TypeExclusion(source)
  \/ AddExclusion
  \/ \E source \in workspace.excluded : RemoveExclusion(source)
  \/ CaptureClipboardText
  \/ \E text \in Texts \cup {NoText} : CopiedElsewhere(text)
  \/ Tick /\ UNCHANGED captureVars

CaptureSpec == CaptureInit /\ [][CaptureNext]_<<vars, captureVars>>

\* The event loop repaints every 250 ms and polls while capture is active.
FairSpec == CaptureSpec /\ WF_<<vars, captureVars>>(CaptureClipboardText)

-----------------------------------------------------------------------------
\* Only what another program has copied adds an item of a text: one that was
\* deleted, cleared or evicted does not come back from a clipboard nobody has
\* touched, not even in place of another, and copying from the history makes no
\* second item.
NothingComesBackByItself ==
  [][ \A text \in Texts :
        Cardinality(Copies(workspace', text)) > Cardinality(Copies(workspace, text))
          => copied /\ clipboard = text ]_<<vars, captureVars>>

CommandsLeft == workspace.revision < MaxRevision

\* While capture is active, text that is new on the clipboard is captured, unless
\* it is replaced or capture is paused before the poll.
NewTextIsCaptured ==
  \A text \in Texts :
    (/\ workspace.capture_state = "Active" /\ CommandsLeft
     /\ clipboard = text /\ last_clipboard_hash # text)
    ~> (\/ last_clipboard_hash = text \/ clipboard # text
        \/ workspace.capture_state = "Paused" \/ ~CommandsLeft)

IsExpired(id) ==
  \E i \in DOMAIN workspace.items :
    LET item == workspace.items[i] IN
      /\ item.item_id = id /\ ~item.is_pinned
      /\ now - item.captured_at > workspace.retention.max_age

\* What the Privacy page says of the maximum age, "automatic age and count
\* cleanup": an unpinned item past it goes away without the user's doing.
ExpiredItemsGoAway ==
  \A id \in 0..MaxRevision :
    IsExpired(id) /\ CommandsLeft ~> ~IsExpired(id) \/ ~CommandsLeft
=============================================================================
