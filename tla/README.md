# A TLA+ verification of the File Tunnel desktop app

This directory holds the specifications, model-checking instances and proofs for
the desktop app of File Tunnel (`src/` beside this directory; paths below such as
`desktop/app.rs` are relative to `src/src/`). The app does two things for its
user. It *receives files*: it creates a tunnel at a service, shows the pairing
link, watches the files a sender uploads and saves them. And it keeps a
*clipboard history*: text with pins, search, retention and a pause button. Both
run in one event loop, with a worker thread for the network.

## 1. Inventory

### 1.1 The parts, their state and their operations

| part | source | state | operations |
|---|---|---|---|
| receive lifecycle reducer | `lifecycle.rs` | picker state, active operation, next operation identifier | `dispatch`, `complete`, `can`, `validate_*` |
| picker state machine | outside the repository (`ftnl_ui_components`) | none: a table | `transition`, `metadata` |
| receive half of the app | `desktop/app.rs` | lifecycle, service address, session (tunnel and capability), files, selected file | `create`, `refresh`, `retry`, `cancel`, `download`, `process_response`, the fields and buttons of the Receive page |
| network worker | `desktop/worker.rs` | two channels and the request in hand | `run`, `handle`; `spawn`, `send`, `try_recv` on the app's side |
| saving a download | `transfer.rs` | the file system | `save_download` |
| session and descriptor contracts | `transfer.rs` | the session's capability | `from_tunnel`, `validate_tunnel`, `validate_snapshot`, `validate_file_descriptor`, `safe_default_destination` |
| clipboard workspace reducer | `workspace.rs` | revision, capture state, policy, query, excluded sources, items, processed commands | `apply` with nine actions, `enforce_retention`, `visible_items`, `from_snapshot_parts` |
| clipboard half of the app | `desktop/app.rs` | workspace, last clipboard hash, text of the exclusion box | poll, capture, copy back, search, exclusions, retention, the buttons of the Clipboard and Privacy pages |
| workspace snapshot codec | `workspace_snapshot.rs` | none; its caller keeps the envelope | seal, open, encode, decode |
| tray shell | `desktop/shell.rs` | window visible, capture, quit | menu and icon events, close requests |
| secure Bluetooth substrate | `secure_bluetooth.rs` | keys, nonces, counters, deadlines | handshake, `confirm`, `encrypt`, `decrypt` |
| observability, parity contract, entry points | `observability.rs`, `parity_contract_v1.rs`, `main.rs`, `lib.rs` | none | constants, logging, start-up |

### 1.2 How they interact

* A button calls a handler of the app. The handler asks the reducer whether the
  command is legal (`Lifecycle::can`), dispatches it, and sends the effect the
  reducer returned to the worker as a `Request` with the operation's identifier.
* The worker thread takes one request at a time from a FIFO channel, calls the
  service, saves a download, and sends one `Response` back on another channel.
* The event loop (`update`, every 250 ms at the latest) drains the responses. A
  response changes the app only if the reducer accepts its completion. A finished
  download calls `refresh()` inside the handler. Every two seconds `update`
  refreshes by itself where that is legal.
* The service address is a text field read at every send; the session's
  capability is cloned into every request that needs it.
* The clipboard half shares the event loop but none of the state above. It sends
  the reducer commands with fresh identifiers and the current revision.
* The tray calls the app's pause and resume and hides, shows or ends the window.
* Nothing calls the snapshot codec or the Bluetooth substrate yet.

### 1.3 What is hard, and what makes each part correct

The full list, with the line each item bites at, is `hazards` in `PROJECT.json`.

* **Lifecycle reducer.** Identifiers wrap at 2^64; answers may come late or twice.
  Correct: in flight exactly when owned by one operation; no late or repeated
  answer is taken; every effect fits the authority of the state it starts from.
* **App and worker.** A dozen handlers change session and lifecycle, on success,
  failure and failed sends, while the worker, sender and service move on. Correct:
  a capability is held exactly when the state needs one; one answer per
  operation; a capability goes only to the service that issued it; files on
  screen belong to the session; a session ends only for a reason; every effect
  settles while the worker lives; uploaded files show up.
* **Saving.** Crashes and failing system calls between steps, other processes at
  the destination. Correct: the destination is whole or absent; success survives
  a crash; nothing is replaced unless asked.
* **Workspace reducer.** Repeated and stale commands, a bounded memory of
  commands, a policy that changes, pins. Correct: a command applies once and on
  the revision its sender saw; the limits hold; pinned items stay; what is one too
  many goes from the end; deduplication makes no copies.
* **Clipboard half.** A remembered hash against a clipboard others write; a form
  drawn anew in every frame. Correct: no text that was deleted comes back by
  itself; new text is captured; a policy that was chosen can be applied.
* **Snapshot codec.** A snapshot rewinds the revision and forgets the processed
  commands, and the limits of sealing and opening are checked in different places.
  Correct: what was sealed opens, unless a capture brought an identifier in use;
  opening loses only expired items; the revision goes on counting the commands that led to the workspace.
* **Tray shell.** Menu and icon events are drained from two queues. Correct: the
  window is never hidden without a tray, a quit is final, a close is no quit, and
  what the shell believes of window and capture is so.
* **Bluetooth.** An untrusted bearer that loses, repeats and reorders; attempts that
  cross; two clocks. Correct: the ends of a session derived with each other; no
  nonce is used twice; what one side delivers is a prefix of what the other sent,
  within the session's lifetime.

## 2. Modules

```
PickerMachine    the external transition table
  Lifecycle      the reducer, as operators on a record
    LifecycleTransport   the reducer behind an unreliable transport
    Receive              app + worker + service, with the same reducer
    LifecycleLemmas      facts about the reducer's operators
EffectSlot       abstract: one effect at a time and an authority
SaveDownload     the system calls of save_download
Workspace        the workspace reducer, as operators on a record
  WorkspaceCommands      the reducer under late and repeated commands
    WorkspaceSnapshot    commands beside sealing, opening and restarts
    ClipboardCapture     the app's clipboard half, one sender of commands
  WorkspaceLemmas        facts about the reducer's operators
RetentionForm    the retention form of the Privacy page, frame by frame
Shell            window and tray, with the frame that drains the tray
PrefixChannel    abstract: a prefix of what was sent
SecureBluetooth  pairing, confirmation and frames; implements PrefixChannel
*Proofs          LifecycleTransport, Receive, SaveDownload, Shell, SecureBluetooth,
                 and Workspace for everything that extends it
MC*              instances for TLC
```

The two reducers are written once, as operators on a record, because the code
writes them once: `Lifecycle` and `Workspace` are values that their owners
replace. The modules that have variables put such a value into a setting. Forms
marked *Mutated form* are deliberate errors. No specification uses them; each
shows that a property would notice such an error.

### 2.1 PickerMachine and Lifecycle

The table lives in a library outside the repository. It is read off its uses in
`lifecycle.rs`, the tests there, `desktop/app.rs` and `formal/DesktopLifecycle.tla`.
Two rows these leave open, where Start and Refresh are also legal after a
failure, are the constants `StartFrom` and `RefreshFrom`. Runs take both ends of
their range and the proofs take all of it. `Dispatched` and `Completed` are the
two reducer steps, `Accepts` the guards of `complete()`, `NextOperation` the
`checked_add(1).unwrap_or(1)` of the counter with `MaxOperation` for `u64::MAX`.
`DispatchRejected` and `validate_*` errors are steps that change nothing.

### 2.2 LifecycleTransport and EffectSlot

The code gives operations identifiers so that a late or repeated response cannot
settle a newer effect. The worker of this repository is better behaved than that
(a FIFO channel with one response per request), so this module gives the reducer the
transport its identifiers are for. Answers are a set; each may be taken any number
of times, or be lost, and each may come with any completion. The assumption
identifiers need is the guard `FreshIdentifier`: the transport keeps no answer for
a whole turn of the counter.

`EffectSlot` is what the rest of the program relies on: one slot, an authority
that only a creation can bring, that an effect needs, and that cancelling gives
up at once. `LifecycleTransport` implements it with the authority the picker
metadata claims, `Receive` with the capability really held.

### 2.3 Receive

One action per handler of the UI thread, with all it calls: `OnDownloaded`
contains the `refresh()` that follows it, and `Send` contains `fail_dispatch()`
for a worker that is gone. The worker takes a request, calls the service, and for
a download saves, in separate steps; between them the user, the sender and the
service act. `CallFails` covers every failure without effect (refused address,
network, service, contract); a call that has its effect and fails afterwards is a
second outcome of `CallCreate`, `CallDownload` and `CallCancel`. `WorkerStops` is
a panic of the thread. The service (`origin`, `open`, `remote`) and the sender
are external and allowed anything the calls of `worker.rs` can observe.

Abstractions: a capability is the tunnel it opens; statuses the app treats alike
are merged; messages and the destination field are left out; the two-second timer
may fire at any time. `process_responses` drains a channel that never holds more
than one response, so one action takes one response. A response is taken in one action with all
that follows from it.

### 2.4 SaveDownload

`save_download()` as its system calls: `NamedTempFile::new_in`, `write_all`,
`sync_all`, `persist` or `persist_noclobber`, and the flush of the parent
directory. Each may fail; the machine may crash between any two; another process
may write or remove the destination. `entry` is what programs see and `disk` what a
crash would leave. Contents that took the name without being flushed would become
`torn`. The directory is flushed in unix builds only (`#[cfg(unix)]`, the constant
`Unix`): in another build that step succeeds and flushes nothing, and
`SuccessIsDurable` is claimed for unix alone. The run takes a unix build, the proofs
either.

### 2.5 Workspace, WorkspaceCommands and ClipboardCapture

`Workspace` has one operator per action of `apply()`. Retention is applied inside
those that call `enforce_retention` (ingest, unpin, set retention) and nowhere
else. What the code drops with `retain()` and `remove()` is told by positions:
`WithinAge` and `WithinCount` say which positions of the list are kept, and `At`
is the list of the items at them, in their order. Inputs the reducer refuses for
their size or form are left out: they change nothing. The identifier and the time of a
capture are fields of the command (`item_id`, `captured_at`), which the reducer compares
with nothing; only retention reads the clock, as `now`. `WorkspaceCommands` adds
clients that send any command identifier with any expected revision, captures under
any item identifier, in use or not, with any time, past or to come, and a clock that
may step back; its `log`, of the commands applied, is history that no action
reads. `ClipboardCapture` adds the app's poll, its buttons and other programs that
copy; commands there have fresh identifiers and the current revision, as
`apply_workspace_action` sends them, so that the app is one of those clients (proved
as `AppIsAClient`). A capture there brings an identifier that no item has
(`Uuid::new_v4()`; the model takes the revision) and the clock reading at which it is
applied; that the code reads the clock twice, an instant apart (`desktop/app.rs:95`
and `:155`), is left out. `NoText` is a clipboard without text, one that is not available, and a
`get_text()` that fails; it may come and go at any time. Search decides which items have buttons (`VisibleItems`); clearing
takes the hidden ones too. The text of the exclusion box is a fingerprint or anything
else. `Queries` are the searches that are typed; each stands for the texts it matches.

`WorkspaceSnapshot` extends `WorkspaceCommands` and puts `Seal`, `Open` and
`Restart` between its steps. An envelope that was changed or is opened with
another key fails to authenticate and changes nothing, so only the envelope as
sealed is kept. `encode_snapshot` and `decode_snapshot` are left with what they
check and drop: the number of items, distinct identifiers, the processed commands,
and retention at load time. Sizes in bytes are checked on both sides by the same
limits; a snapshot over them is a `Seal` that does not happen. `reused` is history:
whether a capture that led to the workspace came under an identifier in use.

`RetentionForm` is `render_privacy()` as egui runs it: once per frame, with local
copies of the policy that the widgets edit. `ClipboardCapture!ApplyRetention` has
the gesture and the click in one frame, the one case in which the button works.

### 2.6 Shell

`process_shell()` as the parts of a frame: the menu's queue is drained, then the
icon's, then each action is applied, then a close request is answered; the rest of
the frame is `Render`. Clicks arrive between any two of these, since the queues
belong to the tray library and its threads. `Quit` sends the toolkit a close, which
is a close request of the next frame. A close request that is not cancelled ends
the program with its frame. Of the workspace only the capture state and the
revision remain: a pause or resume is refused when the revisions have run out, and
other commands use revisions up. `ClickMenu` stands for the menu's identifiers,
`ClickIcon` for the two clicks that `poll_actions()` turns into an open.

### 2.7 SecureBluetooth and PrefixChannel

An endpoint is one pairing object with what it is consumed into: pairing, pending
session, session, or `gone` once a `derive` or `confirm` has failed, which both
consume the object. Every endpoint draws fresh random values, so it stands for
its own public key. `derive` takes any hello the bearer can bring: of any endpoint,
old or new, or `Garbled`, which is every hello that nobody sent as it is. The
transcript of the two hellos is the key, the nonce prefix and the short string:
cryptography is ideal, and that two transcripts share a six-digit string, once in
10^6, is left out. `Confirm` compares strings as the users do: a user types what the
other device shows, or something else (`Mistyped`). `bearer` holds every
frame ever sent, so that `Decrypt` may take any of them at any time; a garbled
frame authenticates nowhere and is not modelled. One clock stands for
`Instant::now`, since every deadline is local to its object.

`PrefixChannel` promises for each direction that what is received is a prefix of
what was sent. It does not promise delivery: a lost frame ends its direction.

## 3. Model checking

| run | instance | what it shows |
|---|---|---|
| `lifecycle_transport` | 3 identifiers | types across wraparound, `InFlightAgrees`, `OnlyTheRunningEffectIsAnswered`, `EffectsSettleOnce`, refinement of `EffectSlot` |
| `receive_safety` | 2 services, 2 tunnels of one file, 3 identifiers, a worker that may die | `SessionAgreement` (the code's own debug assertion, in every state), `OneAnswerUnderway`, `CapabilityStaysHome`, `ViewBelongsToSession`, `SessionsEndForAReason`, `NothingStartsWithoutWorker`, refinement of `EffectSlot` |
| `receive_files` | 1 tunnel of 2 files, a living worker | liveness: `EffectsSettle`, `FilesAppear` |
| `receive_saved` | 1 tunnel of 1 file | **violation**: `AllReceivedMeansSaved` |
| `save_download` | 3 attempts, a unix build | `DestinationIsWhole`, `SuccessIsDurable`, `ReplacesOnlyWhenForced`, `ErrorLeavesOldOrNew` |
| `workspace` | 2 texts, 1 source, 2 item identifiers, 3 policies, 3 command identifiers, memory of 2, 7 revisions, a clock to 2 that may step back | `AppliedOnceOnItsRevision`, `RetentionHolds`, `PinnedItemsStay`, `CountTakesFromTheEnd`, `DeduplicationAddsNoCopy` |
| `clipboard_capture` | 2 texts, 2 policies, 1 source, 5 revisions | `NothingComesBackByItself`, `NewTextIsCaptured` |
| `shell` | 2 clicks in each queue, 2 revisions, with and without a tray | `StaysReachable`, `ShellAgrees`, `ExitIsExplicit`; liveness: `QuitEnds`, `PauseHappens` |
| `clipboard_age` | 1 text, age 1 | **violation**: `ExpiredItemsGoAway` |
| `retention_form` | 3 policies | **violation**: `AppliesWhatWasChosen` |
| `snapshot` | 1 text, 3 item identifiers, 2 policies, snapshots of at most 1 item, 3 revisions, a clock that may step back | `SealedOpens`, `LosesOnlyExpired`, `LineageInOrder` |
| `bluetooth` | 3 endpoints on 2 devices, 2 messages, 2 frames per direction | `SessionsAgree`, `NonceUsedOnce`, `KeysExpire`, refinement of `PrefixChannel` |

### 3.1 The bounds

* `MaxOperation = 3`: identifiers wrap after three effects, within one session.
  The proofs hold for every bound.
* Two services and two tunnels are the fewest with which a capability can reach
  the wrong service or a session can inherit files. Two files are the fewest that
  make a mixed snapshot. Created tunnels are never recycled, so `Tunnels` also
  bounds the number of sessions; after the last, a creation can only fail.
* `MaxAttempts = 3`: one attempt that fails after taking the name, one that meets
  what it left behind, one that replaces it.
* `MaxRevision` stands for `MAX_REVISION` and bounds every run of the workspace, down to
  three commands beside sealing, opening and restarts. Seven are enough to activate capture, ingest, change policy, ingest
  again, pin, unpin and evict. `MaxProcessedCommands` is 1 or 2 for 1024, so that
  commands are forgotten within the run.
* `MaxClicks = 2`: an action and its opposite meet in one frame, from one queue or
  both. Two revisions let capture start and stop, and the next command be refused.
* `MaxTime = 2` is one unit beyond the shortest age. With times of capture that are the
  command's, an item that is late, one that is early and one that is past the age occur.
* Item identifiers: two in `workspace` and three in `snapshot`, fewer than there are
  captures, so that a capture can come under one that an item has. Under the app there
  is one for every revision.
* Searches matter only where items have buttons: `clipboard_capture` and
  `clipboard_age` type every one, the others only that of everything.
* `MaxSnapshotItems = 1` for 500: the workspace can hold one item more than a
  snapshot may, and a policy of one takes effect. Snapshots of two items exceed what
  TLC can finish; that opening never takes an item for being one too many among
  others is shown by the proof of `LosesOnlyExpired` only, which covers any number.
* Three endpoints: a retry beside an older pairing, two initiators that cross, two
  answers to one hello. Two frames per direction make a second counter and the
  limit. With window and lifetime of 1 and clock to 3, a session expires before
  and after confirmation. The proofs hold for every bound.

Symmetry is used where no property or constant tells the values apart: texts, commands
and item identifiers in `workspace`; the last two in `snapshot`; endpoints, devices and messages
in `bluetooth`. All three check safety only.

`CHECK_DEADLOCK FALSE` appears where the system may stop. In `lifecycle_transport`
a lost answer leaves its effect in flight for ever, since the reducer has no
timeout. In `receive_safety` a worker that dies with a request leaves the app busy.
In the workspace and snapshot runs the revisions run out. In `shell` the program
exits. In `bluetooth` every session ends by its lifetime.

### 3.2 Fairness

`Receive!FairSpec` assumes that responses are processed (the event loop asks for a
repaint every 250 ms), that `Refresh` happens where it stays legal (every two
seconds, `desktop/app.rs:845`), and that the worker takes requests and ends its calls
and saves (its loop; the HTTP client's 30 s timeout). Nothing is assumed of the
user, the sender or the service: `CallFails` alone satisfies the fairness of calls.
`ClipboardCapture!FairSpec` assumes the 750 ms poll and `Shell!FairSpec` that frames
follow one another. All three assume that the toolkit keeps calling `update` while the
window is hidden, as the code does, which polls the tray nowhere else. All is weak fairness.
None is assumed of snapshots, which their caller takes when it likes, nor of the
Bluetooth bearer, which may lose everything: there is no liveness to claim there.

### 3.3 What the violations show

* **The app can say "All files were received." with a file never saved**
  (`desktop/app.rs:402`). The service marks a file downloaded when it hands out its
  bytes, before they are saved. If saving fails, the user's Retry takes a
  snapshot in which every file is downloaded; the app announces success and
  drops the session, which was the only way to fetch the file again.
* **The maximum age is not enforced by time** (`workspace.rs:419`). The Privacy page
  speaks of "automatic age and count cleanup", but retention runs only inside
  three commands: an idle or paused history keeps expired items.
* **"Apply retention policy" applies nothing that was chosen in an earlier frame**
  (`desktop/app.rs:757`). The widgets edit locals that are read from the policy in
  force in every frame, so the next frame shows the old policy and disables the button.

### 3.4 Behaviours no text contradicts

The models also show these, and nothing in the repository says otherwise: a
tunnel whose cancel fails, or whose creation answer is rejected, stays open at
the service until it expires; a worker that panics in a request leaves the app
busy until it is restarted; a sender who adds a file after "complete" is no longer
seen; text copied while capture is paused is captured when it resumes; a save whose last step
fails, the flush of the directory, reports an error after the file has taken its name
(`ErrorLeavesOldOrNew` allows just that); copies
made while deduplication was off stay when it is turned on; a click on the tray icon
followed by Hide in the menu, in one frame, opens the window again after hiding it,
because the menu is drained first; a command may apply
again once 1024 others have followed it; restoring a snapshot rewinds the revision, so
a sender that follows it may have a command applied again, and one sent for a later
revision may meet another state there; a restored workspace may be capturing; a
workspace of more than 500 items cannot be sealed; the reducer takes an
item under an identifier that another item has, and the workspace can then be
sealed but not opened (the app draws random identifiers: `AppKeepsItemsApart`); a
capture that is delivered late stands in front with its old time, so that the maximum
number can take an item of a later time from the end (the app stamps a text when it
is ingested: `AppOrdersByTime`); a text that was captured last, deleted, and
copied again elsewhere is not captured, because it is still the remembered one; one refused hello or one
mistyped string uses a pairing up; one side may confirm while the other runs
out of time, and then talks to nobody; one lost frame ends its direction.

## 4. Proofs

All theorems hold for every value of the constants that the named assumptions
allow: any identifier space, any number of services, tunnels and files, both ends
of the open rows of the picker table, a worker that may stop or not, any number
of attempts to save, any number of endpoints and frames, any texts, policies,
searches and memory of commands.
`LifecycleLemmas` holds what the proofs use of the lifecycle
reducer: where commands and completions lead, what `Dispatched` and `Completed`
preserve. `WorkspaceLemmas` does the same for the workspace reducer: that a set of
positions has an increasing enumeration, so that `At` returns those items, in order
and no others; what taking items away, moving one to the front or setting a pin
does to copies, identifiers, pins and the order of times; and what age and count
leave (`Retained`).

**`LifecycleTransportProofs`**: `TypeCorrect`, `OwnershipAgrees`,
`AnswersCorrelate`, `EffectsAreSettledOnce`, and `Refinement` of `EffectSlot`. The
inductive invariant is the conjunction of the three invariants. None is inductive
alone: agreement needs the types; the correlation of answers needs agreement,
because it is agreement that makes a command illegal while an effect runs, so
that an identifier is issued only when nothing is open. The one assumption
beside those on constants is `FreshIdentifier`, a guard of the specification.

**`ReceiveProofs`**: every safety property that `receive_safety` checks:
`TypeCorrect`, `SessionAgrees`, `AnswersCorrelate`, `CapabilitiesStayHome`,
`ViewsBelong`, `NothingStarts`, `SessionsEnd` and `Refinement`. The invariants are
not inductive as they stand: that a response is accepted depends on its kind
fitting the state, which depends on the request it answers. The inductive invariant
`Inv` adds `Whereabouts`: the effect in flight is nowhere (`Free`), in the
first channel (`Queued`), with the worker (`Working`), in the second channel
(`Waiting`), or `Lost` with a worker that stopped; and in each place what is there
was asked for by the app as it stands now (`Asked`, `Answered`: operation, kind,
address, tunnel, file). From it follows, too, that the stale branch of every
response handler is never taken with this worker. The proof is factored by what
handlers share: `Begins` for the commands and the refresh after a download,
`SettledInv` for the other responses, `RespondInv` for the worker's answers.
`SessionsEnd` speaks of every file of a tunnel, which needs one fact more,
`SnapshotsAreTrue`: a file that a snapshot under way calls downloaded still is so at the
service.

**`SaveDownloadProofs`**, for unix builds and others: `TypeCorrect`, `DestinationStaysWhole`, `SavedStaysSaved`,
`NothingIsReplacedUnasked` and `ErrorsLeaveOldOrNew`. The invariant adds that only
flushed contents get the name (`FlushedFirst`), that the download stays under its
name until somebody else touches it (`KeepsItsName`), and that before the rename
the destination is what was found there (`FoundUntilNamed`). `NothingIsReplacedUnasked`
needs the second for crashes: what a crash brings back is never the download in
place of another file. `ErrorsLeaveOldOrNew` needs the third.

**`ShellProofs`**: `TypeCorrect`, `CanBeReached`, `BeliefsHold` and
`ExitsAreExplicit`. The invariant adds `NothingToApply`: without a tray both queues
and the actions are empty. Without it a Hide left from nowhere could take the
window away.

**`WorkspaceProofs`**: every safety property of the runs `workspace`, `snapshot` and
`clipboard_capture`.

* *The reducer.* `TypeCorrect`, `RetentionIsKept`, `PinsHold`, `CopiesStayApart`,
  `AppliedOnce` and `EvictsFromTheEnd`. `RetentionHolds` is not inductive by
  itself: six of the nine actions enforce nothing and must leave the limit as they find
  it. The invariant `WellKept` adds the types, and nothing of identifiers or times,
  which are the commands' own. `Follows` collects what every action must do with a
  well-kept workspace: keep it so, leave the two fields the guard reads, make no
  copies, keep pins, take from the end (`TakesFromTheEnd`). `Loses` and `Gains` add what
  is particular to an action that takes items and to a capture. There is one lemma
  per action (`PinFollows`, `UnpinFollows`, `DeleteFollows`, `ClearFollows`,
  `RetentionFollows`, `IngestFollows`, and `SameItemsFollow` for the three that leave
  the items alone), and the theorems follow from `Follows` alone. `EvictsFromTheEnd`
  needs nothing of the clock or of times of capture: it is about positions.
  `AppliedOnce` speaks of all commands that
  were ever applied, the guard of the few it remembers: `LeadsTo` ties the log to
  the revision, and `Remembers` says that what is remembered is the log's end, all of
  it or the last `MaxProcessedCommands`.
* *Snapshots.* `LineageStaysInOrder`, `SealedIsOpened` and `OnlyExpiredAreLost`. The
  envelope, too, is well kept and led to by the commands sealed with it (`Sealed`).
  That it opens rests on identifiers kept apart, which holds as long as no capture brings
  one in use: the property has that as its premise (`sealed_reused`). That nothing falls to the limit
  of items, on `WellKept`: a snapshot holds no more than its policy allows, so that
  age is all that can take an item.
* *The app.* `AppIsAClient`: `CaptureSpec` implements `Spec` of `WorkspaceCommands`,
  whatever is clicked and copied. It needs a command identifier that is not
  remembered (`CaptureAssumption`; the code draws one of 2^122 and remembers 1024).
  `AppKeepsTheWorkspace` draws the consequence. Three theorems add what the reducer
  leaves to its clients and the app promises: `NothingComesBack`, whose invariant says
  that a text on the clipboard is the remembered one unless another program has copied
  since; `AppKeepsItemsApart`, that identifiers stay distinct through captures again,
  retention and deletion, given that each drawn one is new; and `AppOrdersByTime`,
  that only a clock set back can put the history out of the order of its times, so
  that until then the end that the maximum number takes from is the oldest.

**`SecureBluetoothProofs`**: `TypeCorrect`, `SessionsArePaired`, `NoncesAreUsedOnce`,
`KeysAreShortLived` and `Refinement` of `PrefixChannel`. The inductive invariant
adds: keys come from a published counterpart's hello or a garbled one
(`PairingOK`); counters count what was sent and received (`CountersOK`); every frame
on the bearer is the one its sender's counter says (`FramesOK`); what was received is,
place by place, what the peer sent (`PrefixOK`); and sessions were confirmed within
the window (`AgeOK`). The refinement rests on `TakesNext`: a frame that authenticates
with the next counter is the peer's next message.

Model-checked only: liveness (`EffectsSettle`, `FilesAppear`, `NewTextIsCaptured`,
`QuitEnds`, `PauseHappens`), which rests on fairness and `ENABLED`. The three violations
are counterexamples, for TLC to find.

## 5. What is not modelled

* The remaining checks of `transfer.rs` (`validate_tunnel`, and in
  `validate_file_descriptor` and `validate_snapshot` sizes, media type, times, status
  and identifiers): independent bounds on text and numbers, each with a unit test.
  `Receive` has them as calls that fail. `safe_default_destination` is a function of a
  name, used when the destination field is empty.
* The bounds on text, query and fingerprints in `workspace.rs`: refused inputs change
  nothing.
* Byte formats of snapshots, hellos and frames, and cryptography, which is ideal.
* Collisions of the short authentication string, and of random identifiers.
* Observability: writes constant records and keeps no state; no outcome depends on it.
* The parity contract (constants), entry points, HTTP and layout.

## 6. Plan

The plan is done: every part that keeps state is modelled, and what the provers can
reach of the safety properties is proved. What would be worth adding next:

1. The tray and the clipboard half in one module, should commands of the shell and
   of the pages ever depend on each other beyond capture and revision.
2. Snapshots and Bluetooth inside the app, once something calls them: who keeps
   the envelope and the key, when a snapshot is taken, who retries a pairing.
