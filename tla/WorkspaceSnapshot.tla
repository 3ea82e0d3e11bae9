-------------------------- MODULE WorkspaceSnapshot --------------------------
(***************************************************************************)
(* Sealed snapshots of the clipboard workspace (src/workspace_snapshot.rs) *)
(* beside the commands that go on changing it: whoever keeps the envelope  *)
(* may open it at any time, in the same process or after a restart.  An    *)
(* envelope that was changed, or is opened with another key, does not      *)
(* authenticate and nothing happens; only unchanged ones are modelled.     *)
(***************************************************************************)
EXTENDS WorkspaceCommands

CONSTANTS
  MaxSnapshotItems,    \* MAX_SNAPSHOT_ITEMS
  NoSnapshot           \* before the first envelope

ASSUME SnapshotAssumption == MaxSnapshotItems \in Nat

VARIABLES
  envelope,            \* the snapshot in the envelope that was kept, or NoSnapshot
  sealed_log,          \* history: the commands that led to it
  reused,              \* history: whether a capture that led to the workspace came
                       \* under an identifier that an item had
  sealed_reused        \* the same of the envelope

envelopeVars == <<envelope, sealed_log, sealed_reused>>

snapshotVars == <<envelopeVars, reused>>

SnapshotInit ==
  /\ Init
  /\ envelope = NoSnapshot /\ sealed_log = <<>>
  /\ reused = FALSE /\ sealed_reused = FALSE

-----------------------------------------------------------------------------
\* Mutated form: the number of items is not looked at.
EncodesAnyNumber(ws) == TRUE

\* encode_snapshot()
Encodes(ws) == Len(ws.items) <= MaxSnapshotItems

\* What the envelope holds: all but the memory of processed commands.
Encoded(ws) == [ws EXCEPT !.processed_commands = <<>>]

\* The checks of from_snapshot_parts() that a snapshot could fail.
Decodes(snapshot) ==
  /\ Len(snapshot.items) <= MaxSnapshotItems
  /\ \A i, j \in DOMAIN snapshot.items :
       snapshot.items[i].item_id = snapshot.items[j].item_id => i = j

\* Mutated form: retention waits for the next command.
DecodedAsSealed(snapshot) == snapshot

\* Mutated form: the revision starts again.
DecodedAnew(snapshot) == EnforceRetention([snapshot EXCEPT !.revision = 0], now)

\* from_snapshot_parts(): retention is applied at load time.
Decoded(snapshot) == EnforceRetention(snapshot, now)

\* encrypt_snapshot().  A workspace of too many bytes, or with a time before 1970, is
\* refused as well, which is a Seal that does not happen: decrypt_snapshot() measures
\* by the same limits.
Seal ==
  /\ Encodes(workspace)
  /\ envelope' = Encoded(workspace)
  /\ sealed_log' = log /\ sealed_reused' = reused
  /\ UNCHANGED <<vars, reused>>

\* decrypt_snapshot()
Open ==
  /\ envelope # NoSnapshot /\ Decodes(envelope)
  /\ workspace' = Decoded(envelope)
  /\ log' = sealed_log /\ reused' = sealed_reused
  /\ UNCHANGED <<now, envelopeVars>>

\* Only the envelope outlives the process.
Restart ==
  /\ workspace' = DefaultWorkspace
  /\ log' = <<>> /\ reused' = FALSE
  /\ UNCHANGED <<now, envelopeVars>>

\* Next, with the captures under an identifier that an item has told apart.
SnapshotNext ==
  \/ /\ \E c \in CommandIds, r \in 0..MaxRevision : Command(c, r, Identifiers \ ItemIds)
     /\ UNCHANGED snapshotVars
  \/ /\ \E c \in CommandIds, r \in 0..MaxRevision : IngestText(c, r, ItemIds)
     /\ reused' = TRUE
     /\ UNCHANGED envelopeVars
  \/ Tick /\ UNCHANGED snapshotVars
  \/ Seal
  \/ Open
  \/ Restart

SnapshotSpec == SnapshotInit /\ [][SnapshotNext]_<<vars, snapshotVars>>

-----------------------------------------------------------------------------
\* What encrypt_snapshot() seals can be opened ("encrypted snapshot round trips",
\* src/workspace_snapshot.rs, tests) as long as no capture brought an identifier that
\* an item of the workspace had: the reducer takes such a capture, and a workspace
\* with two items of one identifier is sealed, but from_snapshot_parts() refuses it.
SealedOpens == envelope # NoSnapshot /\ ~sealed_reused => Decodes(envelope)

\* Opening loses exactly what age retention takes: the items of the snapshot that
\* are unpinned and past the maximum age now; never a pinned one, never one for
\* being one too many.
LosesOnlyExpired ==
  [][ Open =>
        workspace'.items =
          At(envelope.items, WithinAge(envelope.items, envelope.retention, now)) ]_<<vars, snapshotVars>>

\* The guard of commands survives sealing and opening: the commands that led to the
\* workspace, before the snapshot and since, were each applied at the revision they
\* expected, so one sent before the snapshot and delivered again as it was sent does
\* nothing, although the snapshot forgets it.
LineageInOrder ==
  /\ Len(log) = workspace.revision
  /\ \A k \in DOMAIN log : log[k].expected = k - 1
=============================================================================
