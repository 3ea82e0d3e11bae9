------------------------------- MODULE Receive -------------------------------
(***************************************************************************)
(* The receive half of the desktop app (src/desktop/app.rs), its network   *)
(* worker (src/desktop/worker.rs) and the service they talk to.            *)
(*                                                                         *)
(* The UI thread runs one handler at a time; the worker thread takes one   *)
(* request at a time from a FIFO channel and answers on another.  Each UI  *)
(* handler is one action.  The worker takes a request, makes its call and, *)
(* for a download, saves the bytes in separate steps, between which the    *)
(* user, the sender and the service act.  The service and the sender are   *)
(* outside the repository and are modelled from the calls of worker.rs.    *)
(***************************************************************************)
EXTENDS Lifecycle, Sequences

CONSTANTS
  Origins,         \* service addresses the user may type
  Tunnels,         \* tunnels the services can ever create (a bound)
  Slots,           \* files per tunnel (MAX_FILES_PER_TUNNEL in the code)
  None,            \* no session, file, job or origin
  WorkerMayStop    \* whether the worker thread may panic

Files == Tunnels \X Slots

ASSUME ReceiveAssumption ==
  /\ None \notin Origins \cup Tunnels \cup Files
  /\ Origins # {}
  /\ WorkerMayStop \in BOOLEAN

Tunnel(file) == file[1]

\* Wire statuses that the app treats alike are merged: declared with uploading,
\* rejected with cancelled.
Statuses == {"absent", "declared", "available", "downloaded", "cancelled"}

\* What a snapshot with no file shows.
NoFiles == [f \in Files |-> "absent"]

VARIABLES
  \* the app, owned by the UI thread
  lifecycle,       \* the reducer's value
  base_url,        \* the service address in the text field
  session,         \* the tunnel whose capability is held, or None
  files,           \* the files of the last snapshot, by status
  selected_file,   \* the selected file, or None
  \* the channels and the worker thread
  requests,
  worker,          \* what the worker is doing
  job,             \* the request it is working on, or None
  responses,
  \* the disk
  saved,           \* the files whose bytes are at their destination
  \* the service and the sender
  origin,          \* the service that created each tunnel, None before that
  open,            \* the tunnels that still accept calls
  remote           \* the status of each file at the service

app     == <<lifecycle, base_url, session, files, selected_file>>
service == <<origin, open, remote>>
vars    == <<app, requests, worker, job, responses, saved, service>>

Requests == [operation : OperationIds, kind : EffectKinds, base_url : Origins,
             tunnel : Tunnels \cup {None}, file : Files \cup {None}]

ASSUME NoJobAssumption == None \notin Requests

ResponseKinds == {"Created", "Snapshot", "Downloaded", "Cancelled", "Failed"}

Responses == [operation : OperationIds, kind : ResponseKinds,
              tunnel : Tunnels \cup {None}, files : [Files -> Statuses]]

TypeOK ==
  /\ lifecycle \in Lifecycles
  /\ base_url \in Origins
  /\ session \in Tunnels \cup {None}
  /\ files \in [Files -> Statuses]
  /\ selected_file \in Files \cup {None}
  /\ requests \in Seq(Requests)
  /\ worker \in {"waiting", "calling", "saving", "stopped"}
  /\ job \in Requests \cup {None}
  /\ responses \in Seq(Responses)
  /\ saved \subseteq Files
  /\ origin \in [Tunnels -> Origins \cup {None}]
  /\ open \subseteq Tunnels
  /\ remote \in [Files -> Statuses]

Init ==
  /\ lifecycle = DefaultLifecycle
  /\ base_url \in Origins
  /\ session = None
  /\ files = NoFiles
  /\ selected_file = None
  /\ requests = <<>>
  /\ worker = "waiting"
  /\ job = None
  /\ responses = <<>>
  /\ saved = {}
  /\ origin = [t \in Tunnels |-> None]
  /\ open = {}
  /\ remote = NoFiles

-----------------------------------------------------------------------------
(* Sending a request.                                                      *)

\* The request an effect calls for, addressed to what is in the text field now.
Request(operation, kind, tunnel, file) ==
  [operation |-> operation, kind |-> kind, base_url |-> base_url,
   tunnel |-> tunnel, file |-> file]

\* Mutated form: a failed send is ignored.
SendForgetsFailure(begun, request, kept) ==
  /\ lifecycle' = begun
  /\ session' = kept
  /\ requests' = IF worker = "stopped" THEN requests ELSE Append(requests, request)

\* send(): the request joins the channel, unless the worker has dropped its end;
\* then fail_dispatch() completes the effect as failed at once.  "kept" is the
\* session as the handler left it.
Send(begun, request, kept) ==
  \/ /\ worker # "stopped"
     /\ requests' = Append(requests, request)
     /\ lifecycle' = begun
     /\ session' = kept
  \/ /\ worker = "stopped"
     /\ lifecycle' = Completed(begun, "Failed")
     /\ session' = IF lifecycle'.state \in RequiresSession THEN kept ELSE None
     /\ UNCHANGED requests

ClearFiles == files' = NoFiles /\ selected_file' = None

BackgroundUnchanged == UNCHANGED <<worker, job, saved, service>>

-----------------------------------------------------------------------------
(* The user's commands.                                                    *)

\* create()
Create ==
  /\ CanDispatch(lifecycle, "Start")
  /\ LET begun == Dispatched(lifecycle, "Start") IN
       Send(begun, Request(begun.active, "Create", None, None), None)
  /\ ClearFiles
  /\ UNCHANGED <<base_url, responses>> /\ BackgroundUnchanged

\* refresh(), by the button or every two seconds by update().
Refresh ==
  /\ session # None
  /\ CanDispatch(lifecycle, "Refresh")
  /\ LET begun == Dispatched(lifecycle, "Refresh") IN
       Send(begun, Request(begun.active, "Refresh", session, None), session)
  /\ UNCHANGED <<base_url, files, selected_file, responses>> /\ BackgroundUnchanged

\* retry() after a failure without session starts over.
RetryCreate ==
  /\ CanDispatch(lifecycle, "Retry")
  /\ LET begun == Dispatched(lifecycle, "Retry") IN
       /\ EffectKind(begun.state) = "Create"
       /\ Send(begun, Request(begun.active, "Create", None, None), None)
  /\ ClearFiles
  /\ UNCHANGED <<base_url, responses>> /\ BackgroundUnchanged

\* retry() after a failure with session takes a snapshot.  (Its third arm, a
\* refresh without authority, is SessionAgreement's to exclude.)
RetryRefresh ==
  /\ CanDispatch(lifecycle, "Retry")
  /\ LET begun == Dispatched(lifecycle, "Retry") IN
       /\ EffectKind(begun.state) = "Refresh" /\ session # None
       /\ Send(begun, Request(begun.active, "Refresh", session, None), session)
  /\ UNCHANGED <<base_url, files, selected_file, responses>> /\ BackgroundUnchanged

\* Mutated form: the files are not cleared.
CancelKeepsFiles ==
  /\ session # None
  /\ CanDispatch(lifecycle, "Cancel")
  /\ LET begun == Dispatched(lifecycle, "Cancel") IN
       Send(begun, Request(begun.active, "Cancel", session, None), None)
  /\ UNCHANGED <<base_url, files, selected_file, responses>> /\ BackgroundUnchanged

\* Mutated form: the session is kept until the answer.
CancelKeepsSession ==
  /\ session # None
  /\ CanDispatch(lifecycle, "Cancel")
  /\ LET begun == Dispatched(lifecycle, "Cancel") IN
       Send(begun, Request(begun.active, "Cancel", session, None), session)
  /\ ClearFiles
  /\ UNCHANGED <<base_url, responses>> /\ BackgroundUnchanged

\* cancel(): the session is dropped when the request is sent.
Cancel ==
  /\ session # None
  /\ CanDispatch(lifecycle, "Cancel")
  /\ LET begun == Dispatched(lifecycle, "Cancel") IN
       Send(begun, Request(begun.active, "Cancel", session, None), None)
  /\ ClearFiles
  /\ UNCHANGED <<base_url, responses>> /\ BackgroundUnchanged

IsAvailable(status) == status \in {"available", "downloaded"}

\* download() of the selected file, if the last snapshot has it available.
Download ==
  /\ session # None
  /\ selected_file # None /\ IsAvailable(files[selected_file])
  /\ CanDispatch(lifecycle, "Download")
  /\ LET begun == Dispatched(lifecycle, "Download") IN
       Send(begun, Request(begun.active, "Download", session, selected_file), session)
  /\ UNCHANGED <<base_url, files, selected_file, responses>> /\ BackgroundUnchanged

\* Mutated form: the field is not disabled while busy.
EditBaseUrlWhileBusy(url) ==
  /\ session = None
  /\ url # base_url /\ base_url' = url
  /\ UNCHANGED <<lifecycle, session, files, selected_file, requests, responses>>
  /\ BackgroundUnchanged

\* The service address is a text field, enabled between sessions only.
EditBaseUrl(url) ==
  /\ session = None /\ lifecycle.active = NoOperation
  /\ url # base_url /\ base_url' = url
  /\ UNCHANGED <<lifecycle, session, files, selected_file, requests, responses>>
  /\ BackgroundUnchanged

\* A radio button per available file of the last snapshot.
SelectFile(file) ==
  /\ IsAvailable(files[file])
  /\ file # selected_file /\ selected_file' = file
  /\ UNCHANGED <<lifecycle, base_url, session, files, requests, responses>>
  /\ BackgroundUnchanged

-----------------------------------------------------------------------------
(* process_response(): the oldest response leaves the channel and changes  *)
(* the app only if the lifecycle accepts the completion it stands for.     *)

Takes(kind) ==
  /\ responses # <<>> /\ Head(responses).kind = kind
  /\ responses' = Tail(responses)
  /\ UNCHANGED base_url /\ BackgroundUnchanged

OnCreated ==
  /\ Takes("Created")
  /\ LET response == Head(responses) IN
       IF Accepts(lifecycle, response.operation, "Created")
       THEN /\ lifecycle' = Completed(lifecycle, "Created")
            /\ session' = response.tunnel
       ELSE UNCHANGED <<lifecycle, session>>
  /\ UNCHANGED <<files, selected_file, requests>>

\* Mutated form: a file that is only declared is not waited for.
SnapshotCompletionDeclared(view) ==
  IF view = NoFiles THEN "SnapshotEmpty"
  ELSE IF \A f \in Files : view[f] # "available"
       THEN "AllFilesReceived" ELSE "SnapshotFiles"

\* snapshot_completion()
SnapshotCompletion(view) ==
  IF view = NoFiles THEN "SnapshotEmpty"
  ELSE IF \A f \in Files : view[f] \in {"absent", "downloaded"}
       THEN "AllFilesReceived" ELSE "SnapshotFiles"

\* Mutated form: the files of the first snapshot stay.
OnSnapshotKeepsFiles ==
  /\ Takes("Snapshot")
  /\ LET response   == Head(responses)
         completion == SnapshotCompletion(response.files)
     IN /\ lifecycle' = Completed(lifecycle, completion)
        /\ files' = IF files = NoFiles THEN response.files ELSE files
        /\ session' = IF completion = "AllFilesReceived" THEN None ELSE session
  /\ UNCHANGED <<selected_file, requests>>

\* A snapshot replaces the files and keeps the selection if it still exists;
\* when all files are downloaded it ends the session.
OnSnapshot ==
  /\ Takes("Snapshot")
  /\ LET response   == Head(responses)
         completion == SnapshotCompletion(response.files)
     IN IF Accepts(lifecycle, response.operation, completion)
        THEN /\ lifecycle' = Completed(lifecycle, completion)
             /\ files' = response.files
             /\ selected_file' = IF selected_file # None
                                    /\ files'[selected_file] # "absent"
                                 THEN selected_file ELSE None
             /\ session' = IF completion = "AllFilesReceived" THEN None ELSE session
        ELSE UNCHANGED <<lifecycle, session, files, selected_file>>
  /\ UNCHANGED requests

\* A finished download calls refresh() before the handler returns.
OnDownloaded ==
  /\ Takes("Downloaded")
  /\ LET done  == Completed(lifecycle, "Downloaded")
         begun == Dispatched(done, "Refresh")
     IN IF Accepts(lifecycle, Head(responses).operation, "Downloaded")
        THEN IF session # None /\ CanDispatch(done, "Refresh")
             THEN Send(begun, Request(begun.active, "Refresh", session, None), session)
             ELSE lifecycle' = done /\ UNCHANGED <<session, requests>>
        ELSE UNCHANGED <<lifecycle, session, requests>>
  /\ UNCHANGED <<files, selected_file>>

OnCancelled ==
  /\ Takes("Cancelled")
  /\ IF Accepts(lifecycle, Head(responses).operation, "Cancelled")
     THEN /\ lifecycle' = Completed(lifecycle, "Cancelled")
          /\ session' = None
          /\ ClearFiles
     ELSE UNCHANGED <<lifecycle, session, files, selected_file>>
  /\ UNCHANGED requests

\* Mutated form: every failure ends the session.
OnFailedDropsSession ==
  /\ Takes("Failed")
  /\ IF Accepts(lifecycle, Head(responses).operation, "Failed")
     THEN /\ lifecycle' = Completed(lifecycle, "Failed")
          /\ session' = None
     ELSE UNCHANGED <<lifecycle, session>>
  /\ UNCHANGED <<files, selected_file, requests>>

OnFailed ==
  /\ Takes("Failed")
  /\ IF Accepts(lifecycle, Head(responses).operation, "Failed")
     THEN /\ lifecycle' = Completed(lifecycle, "Failed")
          /\ session' = IF lifecycle'.state \in RequiresSession THEN session ELSE None
     ELSE UNCHANGED <<lifecycle, session>>
  /\ UNCHANGED <<files, selected_file, requests>>

UI ==
  \/ Create \/ Refresh \/ RetryCreate \/ RetryRefresh \/ Cancel \/ Download
  \/ \E url \in Origins : EditBaseUrl(url)
  \/ \E file \in Files : SelectFile(file)

ProcessResponse ==
  OnCreated \/ OnSnapshot \/ OnDownloaded \/ OnCancelled \/ OnFailed

-----------------------------------------------------------------------------
(* The worker thread.  Every request it takes gets one response, success   *)
(* or "Failed".                                                            *)

AppUnchanged == UNCHANGED app

\* The response to the current job goes to the UI and the worker is free.
Respond(kind, tunnel, view) ==
  /\ responses' = Append(responses, [operation |-> job.operation, kind |-> kind,
                                     tunnel |-> tunnel, files |-> view])
  /\ worker' = "waiting" /\ job' = None

RespondFailed == Respond("Failed", None, NoFiles)

\* Mutated form: the request stays in the channel.
WorkerTakePeeks ==
  /\ worker = "waiting" /\ requests # <<>>
  /\ job' = Head(requests) /\ worker' = "calling"
  /\ UNCHANGED <<requests, responses, saved, service>> /\ AppUnchanged

\* run(): the worker takes the oldest request.
WorkerTake ==
  /\ worker = "waiting" /\ requests # <<>>
  /\ job' = Head(requests) /\ requests' = Tail(requests)
  /\ worker' = "calling"
  /\ UNCHANGED <<responses, saved, service>> /\ AppUnchanged

\* The call fails without the service doing anything: the address is refused,
\* the network or the service fails, the tunnel is unknown there or gone, or
\* what comes back is outside the receive contract.
CallFails ==
  /\ worker = "calling"
  /\ RespondFailed
  /\ UNCHANGED <<requests, saved, service>> /\ AppUnchanged

\* A new tunnel.  Its answer may be lost or rejected by from_tunnel().
CallCreate(t) ==
  /\ worker = "calling" /\ job.kind = "Create"
  /\ origin[t] = None
  /\ origin' = [origin EXCEPT ![t] = job.base_url]
  /\ open' = open \cup {t}
  /\ Respond("Created", t, NoFiles) \/ RespondFailed
  /\ UNCHANGED <<requests, saved, remote>> /\ AppUnchanged

\* The service of the request knows the tunnel and it is still open.
Served == job.tunnel \in open /\ origin[job.tunnel] = job.base_url

CallSnapshot ==
  /\ worker = "calling" /\ job.kind = "Refresh" /\ Served
  /\ Respond("Snapshot", None,
       [f \in Files |-> IF Tunnel(f) = job.tunnel THEN remote[f] ELSE "absent"])
  /\ UNCHANGED <<requests, saved, service>> /\ AppUnchanged

\* The service hands out the bytes and, as this is the only call that names a
\* file, marks it downloaded.  The bytes may be lost on the way or fail the
\* size check of save_download().
CallDownload ==
  /\ worker = "calling" /\ job.kind = "Download" /\ Served
  /\ IsAvailable(remote[job.file])
  /\ remote' = [remote EXCEPT ![job.file] = "downloaded"]
  /\ \/ RespondFailed
     \/ worker' = "saving" /\ UNCHANGED <<job, responses>>
  /\ UNCHANGED <<requests, saved, origin, open>> /\ AppUnchanged

CallCancel ==
  /\ worker = "calling" /\ job.kind = "Cancel" /\ Served
  /\ open' = open \ {job.tunnel}
  /\ Respond("Cancelled", None, NoFiles) \/ RespondFailed
  /\ UNCHANGED <<requests, saved, origin, remote>> /\ AppUnchanged

\* save_download() wrote the file.
SaveSucceeds ==
  /\ worker = "saving"
  /\ saved' = saved \cup {job.file}
  /\ Respond("Downloaded", None, NoFiles)
  /\ UNCHANGED <<requests, service>> /\ AppUnchanged

\* Mutated form: the worker tries again by itself.
SaveFailsRetries ==
  /\ worker = "saving"
  /\ worker' = "calling"
  /\ UNCHANGED <<requests, job, responses, saved, service>> /\ AppUnchanged

\* save_download() returned an error: before the file took its name, or after,
\* when only the directory could not be flushed.
SaveFails ==
  /\ worker = "saving"
  /\ saved' \in {saved, saved \cup {job.file}}
  /\ RespondFailed
  /\ UNCHANGED <<requests, service>> /\ AppUnchanged

\* The worker thread panics: its channel ends are dropped, with the requests
\* still queued; the responses already sent can still be read.
WorkerStops ==
  /\ WorkerMayStop /\ worker # "stopped"
  /\ worker' = "stopped" /\ job' = None /\ requests' = <<>>
  /\ UNCHANGED <<responses, saved, service>> /\ AppUnchanged

WorkerCalls ==
  CallFails \/ (\E t \in Tunnels : CallCreate(t)) \/ CallSnapshot \/ CallDownload
    \/ CallCancel

WorkerSaves == SaveSucceeds \/ SaveFails

-----------------------------------------------------------------------------
(* The sender and the service on their own.                                *)

\* The sender declares a file, finishes its upload, or takes it back.
SenderActs(f) ==
  /\ Tunnel(f) \in open
  /\ \E next \in [absent     |-> {"declared"},
                  declared   |-> {"available", "cancelled"},
                  available  |-> {"cancelled"},
                  downloaded |-> {},
                  cancelled  |-> {}][remote[f]] :
       remote' = [remote EXCEPT ![f] = next]
  /\ UNCHANGED <<requests, worker, job, responses, saved, origin, open>>
  /\ AppUnchanged

\* A tunnel reaches its ten minutes.
Expire(t) ==
  /\ t \in open
  /\ open' = open \ {t}
  /\ UNCHANGED <<requests, worker, job, responses, saved, origin, remote>>
  /\ AppUnchanged

Next ==
  \/ UI
  \/ ProcessResponse
  \/ WorkerTake
  \/ WorkerCalls
  \/ WorkerSaves
  \/ WorkerStops
  \/ \E f \in Files : SenderActs(f)
  \/ \E t \in Tunnels : Expire(t)

Spec == Init /\ [][Next]_vars

\* The event loop repaints every 250 ms and drains the responses; refresh() runs
\* every two seconds where it is legal; the worker thread loops, its calls are
\* bounded by the client's 30 s timeout and saving by the file system.  Nothing
\* is assumed of the user, the sender or the service.
Fairness ==
  /\ WF_vars(ProcessResponse)
  /\ WF_vars(Refresh)
  /\ WF_vars(WorkerTake)
  /\ WF_vars(WorkerCalls)
  /\ WF_vars(WorkerSaves)

FairSpec == Spec /\ Fairness

-----------------------------------------------------------------------------
(* Properties.                                                             *)

\* The debug_assert at the end of process_response(), demanded of every state
\* and not only after a response: the app holds a capability exactly in the
\* states whose metadata requires one.
SessionAgreement == session # None <=> lifecycle.state \in RequiresSession

\* One request, one job or one response exists for the operation in flight, and
\* none otherwise: no request is duplicated, no response is stale, no answer to
\* an operation is missing while the worker lives.
OneAnswerUnderway ==
  LET underway == Len(requests) + (IF job = None THEN 0 ELSE 1) + Len(responses) IN
    /\ underway <= (IF lifecycle.state \in InFlight THEN 1 ELSE 0)
    /\ worker # "stopped" =>
         underway = (IF lifecycle.state \in InFlight THEN 1 ELSE 0)
    /\ requests # <<>>  => Head(requests).operation = lifecycle.active
    /\ job # None       => job.operation = lifecycle.active
    /\ responses # <<>> => Head(responses).operation = lifecycle.active

\* A request that carries a capability is addressed to the service that issued
\* it, although the address is read from an editable field for every request.
CapabilityStaysHome ==
  /\ session # None => origin[session] = base_url
  /\ \A r \in {requests[i] : i \in DOMAIN requests} \cup ({job} \ {None}) :
       r.kind # "Create" => r.tunnel # None /\ origin[r.tunnel] = r.base_url

\* The files on screen, and the file a download asks for, are of the tunnel
\* whose session is held, never left over from an earlier one; the stage the
\* user sees matches them.
ViewBelongsToSession ==
  /\ session # None => \A f \in Files : files[f] # "absent" => Tunnel(f) = session
  /\ selected_file # None => files[selected_file] # "absent"
  /\ \A r \in {requests[i] : i \in DOMAIN requests} \cup ({job} \ {None}) :
       r.kind = "Download" => r.file # None /\ Tunnel(r.file) = r.tunnel
  /\ lifecycle.state \in {"idle", "creating", "pairing", "cancelling"} => files = NoFiles
  /\ lifecycle.state \in {"transferring", "downloading"} => files # NoFiles
  /\ lifecycle.state = "complete" =>
       /\ files # NoFiles
       /\ \A f \in Files : files[f] \in {"absent", "downloaded"}

\* A session is given up only because the user cancelled it or because the
\* service, when it answered, had files in the tunnel and every one of them marked
\* downloaded, as it still has: neither a failure of a refresh or a download nor a
\* snapshot with a file still to come costs the user the tunnel.
SessionsEndForAReason ==
  [][ session # None /\ session' # session =>
        /\ session' = None
        /\ \/ Cancel
           \/ /\ lifecycle'.state = "complete"
              /\ files' # NoFiles
              /\ \A f \in Files :
                   \/ files'[f] = "absent"
                   \/ files'[f] = "downloaded" /\ remote[f] = "downloaded" ]_vars

\* No effect is left running for a worker that is already gone: the send fails
\* and the handler settles the effect itself, also when the effect follows a
\* finished download.
NothingStartsWithoutWorker ==
  [][ worker = "stopped" =>
        lifecycle'.active \in {lifecycle.active, NoOperation} ]_vars

\* The app and its worker implement the effect slot, with the authority being
\* the capability really held and not what the picker state says.
Slot == INSTANCE EffectSlot WITH
  effect    <- EffectKind(lifecycle.state),
  authority <- session # None

ImplementsEffectSlot == Slot!Spec

\* While the worker lives every effect is settled: the app never stays busy.
EffectsSettle == lifecycle.active # NoOperation ~> lifecycle.active = NoOperation

\* A file the sender made available shows up without the user doing anything,
\* unless the session ends or a call fails and waits for the user's retry.
FilesAppear ==
  \A f \in Files :
    session = Tunnel(f) /\ remote[f] = "available"
      ~> \/ files[f] # "absent"
         \/ session # Tunnel(f)
         \/ lifecycle.state = "failed_with_session"

\* What the app tells the user when the session completes, "All files were
\* received.": that the bytes of the files are at their destination.
AllReceivedMeansSaved ==
  lifecycle.state = "complete" =>
    \A f \in Files : files[f] # "absent" => f \in saved
=============================================================================
