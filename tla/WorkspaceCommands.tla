-------------------------- MODULE WorkspaceCommands --------------------------
(***************************************************************************)
(* The workspace reducer under commands that may be delivered late, out of *)
(* order, more than once, or again at a newer revision: the clients its    *)
(* command identifiers and expected revisions are for.                     *)
(***************************************************************************)
EXTENDS Workspace

CONSTANTS
  Queries,             \* the searches that are asked for
  MaxTime,             \* the last clock reading (a bound)
  ClockMayStepBack     \* whether SystemTime may be set back

ASSUME CommandsAssumption ==
  /\ Queries \subseteq SUBSET Texts
  /\ MaxTime \in Nat
  /\ ClockMayStepBack \in BOOLEAN

VARIABLES
  workspace,   \* the reducer's value
  now,         \* the system clock
  log          \* the commands applied so far, with the revision they expected

vars == <<workspace, now, log>>

TypeOK ==
  /\ IsWorkspace(workspace)
  /\ now \in 0..MaxTime
  /\ log \in Seq([command_id : CommandIds, expected : 0..MaxRevision])

Init ==
  /\ workspace = DefaultWorkspace
  /\ now = 0
  /\ log = <<>>

\* A delivery that passes the guard and whose action leaves "changed".
Apply(command_id, expected, changed) ==
  /\ Accepts(workspace, command_id, expected)
  /\ workspace' = Commit(changed, command_id)
  /\ log' = Append(log, [command_id |-> command_id, expected |-> expected])
  /\ UNCHANGED now

SetCapture(c, r) ==
  \E state \in CaptureStates : Apply(c, r, WithCapture(workspace, state))

SetSearch(c, r) ==
  \E query \in Queries : Apply(c, r, WithSearch(workspace, query))

ItemIds == {workspace.items[i].item_id : i \in DOMAIN workspace.items}

PinItem(c, r) == \E id \in ItemIds : Apply(c, r, Pin(workspace, id))

UnpinItem(c, r) == \E id \in ItemIds : Apply(c, r, Unpin(workspace, id, now))

DeleteItem(c, r) == \E id \in ItemIds : Apply(c, r, Delete(workspace, id))

ClearUnpinnedItems(c, r) == Apply(c, r, ClearUnpinned(workspace))

SetRetention(c, r) ==
  \E policy \in Policies : Apply(c, r, WithRetention(workspace, policy, now))

SetSourceExclusions(c, r) ==
  \E sources \in SUBSET Sources : Apply(c, r, WithExclusions(workspace, sources))

CaptureText(c, r, id, text, source, captured_at) ==
  /\ CanIngest(workspace, source)
  /\ Apply(c, r, Ingest(workspace, id, text, source, captured_at, now))

\* The identifier and the time of a capture are fields of the command: it may bring
\* an identifier of "ids" that an item already has, and a time long past or to come.
IngestText(c, r, ids) ==
  \E id \in ids, text \in Texts, source \in Sources \cup {NoSource},
     captured_at \in 0..MaxTime :
    CaptureText(c, r, id, text, source, captured_at)

Tick ==
  /\ \/ now' \in (now + 1)..MaxTime
     \/ ClockMayStepBack /\ now' \in 0..(now - 1)
  /\ UNCHANGED <<workspace, log>>

Command(c, r, ids) ==
  \/ SetCapture(c, r)
  \/ SetSearch(c, r)
  \/ PinItem(c, r)
  \/ UnpinItem(c, r)
  \/ DeleteItem(c, r)
  \/ ClearUnpinnedItems(c, r)
  \/ SetRetention(c, r)
  \/ SetSourceExclusions(c, r)
  \/ IngestText(c, r, ids)

Next ==
  \/ \E c \in CommandIds, r \in 0..MaxRevision : Command(c, r, Identifiers)
  \/ Tick

Spec == Init /\ [][Next]_vars

-----------------------------------------------------------------------------
\* A command takes effect only on the revision its sender saw, so no change is
\* overwritten unseen, and a command is not applied again while it is among the
\* last MaxProcessedCommands, even when its sender has caught up with the
\* revision.
AppliedOnceOnItsRevision ==
  /\ Len(log) = workspace.revision
  /\ \A k \in DOMAIN log : log[k].expected = k - 1
  /\ \A i, j \in DOMAIN log :
       i < j /\ j - i <= MaxProcessedCommands => log[i].command_id # log[j].command_id

\* However commands mix, there are never more unpinned items than the policy in
\* force allows.
RetentionHolds ==
  Cardinality(Unpinned(workspace.items)) <= workspace.retention.max_items

\* A pinned item leaves only by a command that names it: not by count, age, a
\* changed policy or clearing, nor by being captured again.
PinnedItemsStay ==
  [][ \A i \in DOMAIN workspace.items :
        LET item == workspace.items[i] IN
          item.is_pinned =>
            \/ \E j \in DOMAIN workspace'.items :
                 /\ workspace'.items[j].item_id = item.item_id
                 /\ workspace'.items[j].text = item.text
                 /\ workspace'.items[j].is_pinned
            \/ \E c \in CommandIds :
                 \/ Apply(c, workspace.revision, Delete(workspace, item.item_id))
                 \/ Apply(c, workspace.revision, Unpin(workspace, item.item_id, now))
    ]_vars

\* The times an item has on the way through a step: its own and those with which
\* its text is captured again.
TimesOf(item) ==
  {item.captured_at} \cup
  {time \in 0..MaxTime :
     \E c \in CommandIds, id \in Identifiers, source \in Sources \cup {NoSource} :
       CaptureText(c, workspace.revision, id, item.text, source, time)}

\* Count retention takes from the end of the history.  An unpinned item that no
\* command names and that is not past the maximum age leaves only when as many
\* unpinned items stay as the policy in force allows, and each of those stood in
\* front of it or is what was captured.  (The order is that in which captures were
\* applied; their times are not consulted.)
CountTakesFromTheEnd ==
  [][ \A i \in Unpinned(workspace.items) :
        LET item == workspace.items[i] IN
          \/ HasItem(workspace', item.item_id)
          \/ \E time \in TimesOf(item) : now - time > workspace'.retention.max_age
          \/ \E c \in CommandIds :
               \/ Apply(c, workspace.revision, Delete(workspace, item.item_id))
               \/ Apply(c, workspace.revision, ClearUnpinned(workspace))
          \/ /\ Cardinality(Unpinned(workspace'.items)) = workspace'.retention.max_items
             /\ \A j \in Unpinned(workspace'.items) :
                  \/ \E k \in 1..(i - 1) :
                       workspace.items[k].item_id = workspace'.items[j].item_id
                  \/ /\ j = 1
                     /\ \E c \in CommandIds :
                          IngestText(c, workspace.revision, Identifiers) ]_vars

Copies(ws, text) == {i \in DOMAIN ws.items : ws.items[i].text = text}

\* While the policy in force deduplicates, no command adds a second item of a
\* text, pinned or not.  (Copies made while it did not are left alone.)
DeduplicationAddsNoCopy ==
  [][ workspace.retention.deduplicate =>
        \A text \in Texts :
          Cardinality(Copies(workspace', text)) <=
            (IF Copies(workspace, text) = {} THEN 1
             ELSE Cardinality(Copies(workspace, text))) ]_vars
=============================================================================
