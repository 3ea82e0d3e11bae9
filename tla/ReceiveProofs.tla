---------------------------- MODULE ReceiveProofs ----------------------------
(***************************************************************************)
(* Proofs about the receive half of the app with its worker and service,   *)
(* for any number of services, tunnels and files, any identifier space and *)
(* a worker that may stop.                                                 *)
(***************************************************************************)
EXTENDS Receive, LifecycleLemmas

\* The picker state in which an effect of each kind runs.
Running(kind) ==
  [Create   |-> "creating",    Refresh |-> "refreshing",
   Download |-> "downloading", Cancel  |-> "cancelling"][kind]

\* The request asks for the effect in flight, of the service in the text field,
\* about the session or the tunnel being cancelled.
Asked(r) ==
  /\ r \in Requests
  /\ r.operation = lifecycle.active
  /\ lifecycle.state = Running(r.kind)
  /\ r.base_url = base_url
  /\ r.kind # "Create" => r.tunnel \in Tunnels /\ origin[r.tunnel] = base_url
  /\ r.kind \in {"Refresh", "Download"} => r.tunnel = session
  /\ r.kind = "Download" => r.file \in Files /\ Tunnel(r.file) = r.tunnel

\* The response answers the effect in flight.
Answered(p) ==
  /\ p \in Responses
  /\ p.operation = lifecycle.active
  /\ lifecycle.state \in InFlight
  /\ p.kind = "Created" =>
       lifecycle.state = "creating" /\ p.tunnel \in Tunnels /\ origin[p.tunnel] = base_url
  /\ p.kind = "Snapshot" =>
       /\ lifecycle.state = "refreshing"
       /\ \A f \in Files : p.files[f] # "absent" => Tunnel(f) = session
  /\ p.kind = "Downloaded" => lifecycle.state = "downloading"
  /\ p.kind = "Cancelled" => lifecycle.state = "cancelling"

\* Where the effect in flight is: nowhere, in the first channel, with the
\* worker, in the second channel, or lost with a worker that stopped.
Free ==
  /\ lifecycle.state \notin InFlight
  /\ requests = <<>> /\ job = None /\ responses = <<>>
  /\ worker \in {"waiting", "stopped"}

Queued ==
  /\ requests # <<>> /\ requests = <<Head(requests)>> /\ Asked(Head(requests))
  /\ job = None /\ responses = <<>> /\ worker = "waiting"

Working ==
  /\ job # None /\ Asked(job)
  /\ worker \in {"calling", "saving"}
  /\ worker = "saving" => job.kind = "Download"
  /\ requests = <<>> /\ responses = <<>>

Waiting ==
  /\ responses # <<>> /\ responses = <<Head(responses)>> /\ Answered(Head(responses))
  /\ requests = <<>> /\ job = None
  /\ worker \in {"waiting", "stopped"}

Lost ==
  /\ lifecycle.state \in InFlight
  /\ requests = <<>> /\ job = None /\ responses = <<>>
  /\ worker = "stopped"

Whereabouts == Free \/ Queued \/ Working \/ Waiting \/ Lost

Owned == lifecycle.state \in InFlight <=> lifecycle.active # NoOperation

SessionAtHome == session # None => origin[session] = base_url

\* The part of ViewBelongsToSession that is about the screen.
ScreenAgrees ==
  /\ session # None => \A f \in Files : files[f] # "absent" => Tunnel(f) = session
  /\ selected_file # None => files[selected_file] # "absent"
  /\ lifecycle.state \in {"idle", "creating", "pairing", "cancelling"} => files = NoFiles
  /\ lifecycle.state \in {"transferring", "downloading"} => files # NoFiles
  /\ lifecycle.state = "complete" =>
       /\ files # NoFiles
       /\ \A f \in Files : files[f] \in {"absent", "downloaded"}

\* The inductive invariant.
Inv ==
  /\ TypeOK
  /\ Owned
  /\ Whereabouts
  /\ SessionAgreement
  /\ SessionAtHome
  /\ ScreenAgrees

-----------------------------------------------------------------------------
\* Channels of one message.
LEMMA Singleton ==
  ASSUME NEW S, NEW r \in S
  PROVE  /\ Append(<<>>, r) = <<r>>
         /\ <<r>> \in Seq(S) /\ <<r>> # <<>>
         /\ Head(<<r>>) = r /\ Tail(<<r>>) = <<>> /\ Len(<<r>>) = 1
         /\ {<<r>>[i] : i \in DOMAIN <<r>>} = {r}
  OBVIOUS

LEMMA EmptyChannel ==
  ASSUME NEW S
  PROVE  <<>> \in Seq(S) /\ Len(<<>>) = 0 /\ {<<>>[i] : i \in DOMAIN <<>>} = {}
  OBVIOUS

LEMMA NoFilesType == NoFiles \in [Files -> Statuses]
  BY DEF NoFiles, Statuses

LEMMA InitInv == Init => Inv
  <1> SUFFICES ASSUME Init PROVE Inv
    OBVIOUS
  <1>1. DefaultLifecycle \in Lifecycles
    BY MaxOperationAssumption
       DEF DefaultLifecycle, Lifecycles, PickerStates, OperationIds
  <1>2. TypeOK
    BY <1>1, NoFilesType, EmptyChannel DEF Init, TypeOK
  <1>3. Owned /\ Whereabouts /\ SessionAgreement
    BY DEF Init, DefaultLifecycle, Owned, NoOperation, InFlight, RequiresSession,
           Whereabouts, Free, SessionAgreement
  <1>4. SessionAtHome /\ ScreenAgrees
    BY DEF Init, DefaultLifecycle, SessionAtHome, ScreenAgrees
  <1> QED
    BY <1>2, <1>3, <1>4 DEF Inv

-----------------------------------------------------------------------------
(* What the handlers that start an effect have in common.                  *)

Spends(kind) == kind \in {"Refresh", "Download"}

\* The request was sent, or the effect was settled as failed at once.
Sent(r) ==
  /\ lifecycle' \in Lifecycles
  /\ session' = IF Spends(r.kind) THEN session ELSE None
  /\ \/ /\ worker # "stopped"
        /\ requests' = Append(requests, r)
        /\ lifecycle'.state = Running(r.kind)
        /\ lifecycle'.active = r.operation
     \/ /\ worker = "stopped"
        /\ UNCHANGED requests
        /\ lifecycle'.state = IF Spends(r.kind) THEN "failed_with_session"
                                               ELSE "failed_without_session"
        /\ lifecycle'.active = NoOperation

LEMMA SendOutcome ==
  ASSUME NEW before \in Lifecycles, NEW command \in Commands, NEW kind \in EffectKinds,
         NEW tunnel \in Tunnels \cup {None}, NEW file \in Files \cup {None},
         base_url \in Origins,
         CanDispatch(before, command),
         Target(before.state, command) = Running(kind),
         Send(Dispatched(before, command),
              Request(Dispatched(before, command).active, kind, tunnel, file),
              IF Spends(kind) THEN session ELSE None)
  PROVE  \E r \in Requests :
           /\ r.kind = kind /\ r.tunnel = tunnel /\ r.file = file
           /\ r.base_url = base_url
           /\ Sent(r)
  <1> DEFINE begun == Dispatched(before, command)
             r     == Request(begun.active, kind, tunnel, file)
  <1>1. Running(kind) \in InFlight /\ Running(kind) \in PickerStates
    BY DEF EffectKinds, Running, InFlight, PickerStates
  <1>2. /\ begun \in Lifecycles
        /\ begun.state = Running(kind)
        /\ begun.active \in OperationIds
    BY <1>1, DispatchedFacts DEF Lifecycles
  <1>3. r \in Requests
    BY <1>2 DEF Request, Requests
  <1>4. /\ Legal(begun.state, "Failed")
        /\ Target(begun.state, "Failed") = (IF Spends(kind) THEN "failed_with_session"
                                                          ELSE "failed_without_session")
    BY <1>1, <1>2, CompletionEffects
       DEF Running, EffectKinds, RequiresSession, Spends
  <1>5. /\ Completed(begun, "Failed") \in Lifecycles
        /\ Completed(begun, "Failed").state = (IF Spends(kind) THEN "failed_with_session"
                                                             ELSE "failed_without_session")
        /\ Completed(begun, "Failed").active = NoOperation
    BY <1>2, <1>4, CompletedFacts DEF Completions
  <1>6. Sent(r)
    <2>1. CASE worker # "stopped"
      BY <1>2, <2>1 DEF Send, Sent, Request
    <2>2. CASE worker = "stopped"
      BY <1>5, <2>2 DEF Send, Sent, Request, RequiresSession, Spends
    <2> QED
      BY <2>1, <2>2
  <1> QED
    BY <1>3, <1>6 DEF Request

\* An effect starts, by a handler or at the end of a finished download.
Begins(r) ==
  /\ r \in Requests /\ r.base_url = base_url
  /\ r.kind = "Create" => lifecycle.state \notin RequiresSession
  /\ r.kind = "Cancel" => Cancel
  /\ r.kind # "Create" => session # None /\ r.tunnel = session
  /\ r.kind = "Download" =>
       /\ selected_file # None /\ r.file = selected_file
       /\ lifecycle.state = "transferring"
  /\ Sent(r)
  /\ IF Spends(r.kind) THEN UNCHANGED <<files, selected_file>> ELSE ClearFiles
  /\ UNCHANGED base_url /\ BackgroundUnchanged

\* The user, or the timer, starts an effect only while none runs.
LEMMA HandlersBegin ==
  ASSUME TypeOK,
         Create \/ Refresh \/ RetryCreate \/ RetryRefresh \/ Cancel \/ Download
  PROVE  /\ lifecycle.state \notin InFlight
         /\ UNCHANGED responses
         /\ \E r \in Requests : Begins(r)
  <1>0. /\ lifecycle \in Lifecycles /\ lifecycle.state \in PickerStates
        /\ base_url \in Origins /\ session \in Tunnels \cup {None}
        /\ selected_file \in Files \cup {None}
    BY DEF TypeOK, Lifecycles
  <1>1. \A command \in Commands :
          CanDispatch(lifecycle, command) => lifecycle.state \notin InFlight
    BY <1>0, DispatchedFacts
  <1> USE DEF CanDispatch
  <1>2. CASE Create
    <2>1. \E r \in Requests : r.kind = "Create" /\ r.base_url = base_url /\ Sent(r)
      BY <1>0, <1>2, SendOutcome, CommandEffects
         DEF Create, Commands, EffectKinds, Running, Spends
    <2>2. lifecycle.state \notin RequiresSession
      BY <1>0, <1>2, CommandTargets, CommandEffects DEF Create, Commands
    <2> QED
      BY <1>1, <1>2, <2>1, <2>2 DEF Create, Commands, Begins, Spends
  <1>3. CASE Refresh
    <2>1. \E r \in Requests :
            r.kind = "Refresh" /\ r.tunnel = session /\ r.base_url = base_url /\ Sent(r)
      BY <1>0, <1>3, SendOutcome, CommandEffects
         DEF Refresh, Commands, EffectKinds, Running, Spends
    <2> QED
      BY <1>1, <1>3, <2>1 DEF Refresh, Commands, Begins, Spends
  <1>4. CASE RetryCreate
    <2>1. Target(lifecycle.state, "Retry") = "creating"
      BY <1>0, <1>4, CommandEffects, DispatchedFacts
         DEF RetryCreate, Commands, EffectKind, InFlight
    <2>2. \E r \in Requests : r.kind = "Create" /\ r.base_url = base_url /\ Sent(r)
      BY <1>0, <1>4, <2>1, SendOutcome
         DEF RetryCreate, Commands, EffectKinds, Running, Spends
    <2>3. lifecycle.state \notin RequiresSession
      BY <1>0, <1>4, <2>1, CommandTargets DEF RetryCreate, Commands
    <2> QED
      BY <1>1, <1>4, <2>2, <2>3 DEF RetryCreate, Commands, Begins, Spends
  <1>5. CASE RetryRefresh
    <2>1. Target(lifecycle.state, "Retry") = "refreshing"
      BY <1>0, <1>5, CommandEffects, DispatchedFacts
         DEF RetryRefresh, Commands, EffectKind, InFlight
    <2>2. \E r \in Requests :
            r.kind = "Refresh" /\ r.tunnel = session /\ r.base_url = base_url /\ Sent(r)
      BY <1>0, <1>5, <2>1, SendOutcome
         DEF RetryRefresh, Commands, EffectKinds, Running, Spends
    <2> QED
      BY <1>1, <1>5, <2>2 DEF RetryRefresh, Commands, Begins, Spends
  <1>6. CASE Cancel
    <2>1. \E r \in Requests :
            r.kind = "Cancel" /\ r.tunnel = session /\ r.base_url = base_url /\ Sent(r)
      BY <1>0, <1>6, SendOutcome, CommandEffects
         DEF Cancel, Commands, EffectKinds, Running, Spends
    <2> QED
      BY <1>1, <1>6, <2>1 DEF Cancel, Commands, Begins, Spends
  <1>7. CASE Download
    <2>1. \E r \in Requests :
            /\ r.kind = "Download" /\ r.tunnel = session /\ r.file = selected_file
            /\ r.base_url = base_url /\ Sent(r)
      BY <1>0, <1>7, SendOutcome, CommandEffects
         DEF Download, Commands, EffectKinds, Running, Spends
    <2>2. lifecycle.state = "transferring"
      BY <1>0, <1>7, CommandEffects DEF Download
    <2> QED
      BY <1>1, <1>7, <2>1, <2>2 DEF Download, Commands, Begins, Spends
  <1> QED
    BY <1>2, <1>3, <1>4, <1>5, <1>6, <1>7

\* Starting an effect preserves the invariant.
LEMMA BeginsInv ==
  ASSUME Inv, NEW r \in Requests, Begins(r),
         worker \in {"waiting", "stopped"},
         requests = <<>>, job = None, responses' = <<>>
  PROVE  Inv'
  <1> USE DEF Begins, BackgroundUnchanged, Spends
  <1>1. r.kind \in EffectKinds /\ r.operation \in OperationIds
    BY DEF Requests
  <1>2. TypeOK'
    <2>1. requests' \in Seq(Requests)
      <3>1. requests' = <<r>> \/ requests' = <<>>
        BY Singleton DEF Sent
      <3>2. <<r>> \in Seq(Requests) /\ <<>> \in Seq(Requests)
        BY Singleton, EmptyChannel
      <3> QED
        BY <3>1, <3>2
    <2>2. session' \in Tunnels \cup {None} /\ lifecycle' \in Lifecycles
      BY DEF Sent, Inv, TypeOK
    <2>3. files' \in [Files -> Statuses] /\ selected_file' \in Files \cup {None}
      BY NoFilesType DEF ClearFiles, Inv, TypeOK
    <2>4. responses' \in Seq(Responses)
      BY EmptyChannel
    <2> QED
      BY <2>1, <2>2, <2>3, <2>4 DEF Inv, TypeOK, service
  <1>3. Owned'
    BY <1>1 DEF Sent, Owned, EffectKinds, Running, InFlight, OperationIds, NoOperation
  <1>4. SessionAgreement'
    BY <1>1 DEF Sent, SessionAgreement, EffectKinds, Running, RequiresSession
  <1>5. SessionAtHome'
    BY DEF Sent, SessionAtHome, Inv, service
  <1>6. Whereabouts'
    <2>1. CASE worker = "stopped"
      BY <2>1 DEF Sent, Whereabouts, Free, InFlight
    <2>2. CASE worker = "waiting"
      <3>1. requests' = <<r>> /\ requests' # <<>> /\ Head(requests') = r
        BY <2>2, Singleton DEF Sent
      <3>2. r.kind # "Create" => r.tunnel \in Tunnels /\ origin[r.tunnel] = base_url
        BY DEF Inv, TypeOK, SessionAtHome
      <3>3. r.kind = "Download" => r.file \in Files /\ Tunnel(r.file) = r.tunnel
        BY DEF Inv, TypeOK, ScreenAgrees
      <3>4. Asked(r)'
        BY <2>2, <3>2, <3>3 DEF Sent, Asked, service
      <3> QED
        BY <2>2, <3>1, <3>4 DEF Whereabouts, Queued
    <2> QED
      BY <2>1, <2>2
  <1>7. ScreenAgrees'
    <2>1. CASE Spends(r.kind)
      BY <1>1, <2>1 DEF Sent, ScreenAgrees, Running, Inv
    <2>2. CASE ~Spends(r.kind)
      <3>1. lifecycle'.state \in {"creating", "cancelling", "failed_without_session"}
        BY <1>1, <2>2 DEF Sent, EffectKinds, Running
      <3> QED
        BY <2>2, <3>1 DEF Sent, ScreenAgrees, ClearFiles
    <2> QED
      BY <2>1, <2>2
  <1> QED
    BY <1>2, <1>3, <1>4, <1>5, <1>6, <1>7 DEF Inv

\* While no effect runs there is nothing in the channels.
LEMMA AtRest ==
  ASSUME Inv, lifecycle.state \notin InFlight
  PROVE  Free
  BY DEF Inv, Whereabouts, Queued, Working, Waiting, Lost, Asked, Answered,
         Running, Requests, EffectKinds, InFlight

\* The user's commands preserve the invariant.
LEMMA UIInv ==
  ASSUME Inv, UI
  PROVE  Inv'
  <1>1. CASE Create \/ Refresh \/ RetryCreate \/ RetryRefresh \/ Cancel \/ Download
    <2>1. /\ lifecycle.state \notin InFlight
          /\ UNCHANGED responses
      BY <1>1, HandlersBegin DEF Inv
    <2>2. PICK r \in Requests : Begins(r)
      BY <1>1, HandlersBegin DEF Inv
    <2> QED
      BY <2>1, <2>2, AtRest, BeginsInv DEF Free
  <1>2. ASSUME NEW url \in Origins, EditBaseUrl(url)
        PROVE  Inv'
    <2>1. lifecycle.state \notin InFlight
      BY <1>2 DEF EditBaseUrl, Inv, Owned
    <2>2. Free'
      BY <1>2, <2>1, AtRest DEF EditBaseUrl, Free, BackgroundUnchanged
    <2> QED
      BY <1>2, <2>2 DEF EditBaseUrl, BackgroundUnchanged, service, Inv, TypeOK, Owned,
                        Whereabouts, SessionAgreement, SessionAtHome, ScreenAgrees
  <1>3. ASSUME NEW file \in Files, SelectFile(file)
        PROVE  Inv'
    <2>1. TypeOK' /\ Owned' /\ SessionAgreement' /\ SessionAtHome'
      BY <1>3 DEF SelectFile, BackgroundUnchanged, service, Inv, TypeOK, Owned,
                  SessionAgreement, SessionAtHome
    <2>2. Whereabouts'
      BY <1>3 DEF SelectFile, BackgroundUnchanged, service, Inv, Whereabouts, Free,
                  Queued, Working, Waiting, Lost, Asked, Answered
    <2>3. ScreenAgrees'
      BY <1>3 DEF SelectFile, IsAvailable, Inv, ScreenAgrees
    <2> QED
      BY <2>1, <2>2, <2>3 DEF Inv
  <1> QED
    BY <1>1, <1>2, <1>3 DEF UI

-----------------------------------------------------------------------------
(* Responses.                                                              *)

\* A response in the channel is the only thing under way, and answers the effect
\* in flight.
LEMMA Arrived ==
  ASSUME Inv, responses # <<>>
  PROVE  /\ Head(responses) \in Responses /\ Answered(Head(responses))
         /\ Tail(responses) = <<>>
         /\ requests = <<>> /\ job = None /\ worker \in {"waiting", "stopped"}
  <1>1. Waiting
    BY DEF Inv, Whereabouts, Free, Queued, Working, Lost
  <1>2. Head(responses) \in Responses
    BY <1>1 DEF Waiting, Answered
  <1> QED
    BY <1>1, <1>2, Singleton DEF Waiting

\* The effect in flight ends: a download keeps the session, a cancellation does
\* not bring it back.
Settles ==
  /\ lifecycle.state \in InFlight
  /\ lifecycle'.state \notin InFlight
  /\ lifecycle'.active = NoOperation
  /\ lifecycle.state = "downloading" => session' # None
  /\ lifecycle.state = "cancelling" => session' = None

\* An effect that is settled preserves the invariant, if what it leaves on the
\* screen and of the session fits the state it leads to.
LEMMA SettledInv ==
  ASSUME Inv, NEW completion \in Completions, NEW operation,
         responses # <<>>,
         Accepts(lifecycle, operation, completion),
         lifecycle' = Completed(lifecycle, completion),
         responses' = Tail(responses),
         UNCHANGED <<requests, base_url>>, BackgroundUnchanged,
         session' \in Tunnels \cup {None},
         files' \in [Files -> Statuses], selected_file' \in Files \cup {None},
         SessionAgreement', SessionAtHome', ScreenAgrees'
  PROVE  Inv' /\ Settles
  <1>1. /\ lifecycle' \in Lifecycles
        /\ lifecycle'.state \notin InFlight
        /\ lifecycle'.active = NoOperation
    BY CompletedFacts DEF Accepts, Inv, TypeOK
  <1>2. responses' = <<>> /\ requests = <<>> /\ job = None
        /\ worker \in {"waiting", "stopped"}
    BY Arrived
  <1>3. TypeOK'
    BY <1>1, <1>2, EmptyChannel DEF Inv, TypeOK, BackgroundUnchanged, service
  <1>4. Owned' /\ Whereabouts'
    BY <1>1, <1>2 DEF Owned, Whereabouts, Free, BackgroundUnchanged
  <1>5. Settles
    <2>1. /\ lifecycle \in Lifecycles /\ lifecycle.state \in PickerStates
          /\ Legal(lifecycle.state, completion)
      BY DEF Accepts, Inv, TypeOK, Lifecycles
    <2>2. /\ lifecycle.state \in InFlight
          /\ lifecycle.state = "downloading" => lifecycle'.state \in RequiresSession
          /\ lifecycle.state = "cancelling" => lifecycle'.state \notin RequiresSession
      BY <2>1, CompletionTargets, CompletedFacts
    <2> QED
      BY <1>1, <2>2 DEF Settles, SessionAgreement
  <1> QED
    BY <1>3, <1>4, <1>5 DEF Inv

LEMMA OnCreatedInv ==
  ASSUME Inv, OnCreated
  PROVE  Inv' /\ Settles
  <1> DEFINE p == Head(responses)
  <1>1. /\ p \in Responses /\ Answered(p) /\ p.kind = "Created"
        /\ lifecycle \in Lifecycles /\ lifecycle.state \in PickerStates
    BY Arrived DEF OnCreated, Takes, Inv, TypeOK, Lifecycles
  <1>2. lifecycle.state = "creating" /\ Accepts(lifecycle, p.operation, "Created")
    BY <1>1, CompletionEffects DEF Answered, Accepts, InFlight
  <1>3. lifecycle' = Completed(lifecycle, "Created") /\ session' = p.tunnel
    BY <1>2 DEF OnCreated
  <1>4. lifecycle'.state = "pairing"
    BY <1>1, <1>2, <1>3, CompletionEffects, CompletedFacts DEF Accepts, Completions
  <1>5. session' \in Tunnels /\ session' # None /\ origin[session'] = base_url
    BY <1>1, <1>3, ReceiveAssumption DEF Answered
  <1>6. files = NoFiles /\ files' = NoFiles /\ selected_file' = selected_file
    BY <1>2 DEF Inv, ScreenAgrees, OnCreated
  <1>7. SessionAgreement' /\ SessionAtHome'
    BY <1>4, <1>5 DEF SessionAgreement, RequiresSession, SessionAtHome, OnCreated, Takes,
                      BackgroundUnchanged, service
  <1>8. ScreenAgrees'
    BY <1>4, <1>6 DEF Inv, ScreenAgrees, NoFiles
  <1> QED
    BY <1>2, <1>3, <1>5, <1>6, <1>7, <1>8, SettledInv, NoFilesType
       DEF OnCreated, Takes, Completions, Inv, TypeOK

LEMMA OnSnapshotInv ==
  ASSUME Inv, OnSnapshot
  PROVE  Inv' /\ Settles
  <1> DEFINE p == Head(responses)
             completion == SnapshotCompletion(p.files)
  <1>1. /\ p \in Responses /\ Answered(p) /\ p.kind = "Snapshot"
        /\ lifecycle \in Lifecycles /\ lifecycle.state \in PickerStates
    BY Arrived DEF OnSnapshot, Takes, Inv, TypeOK, Lifecycles
  <1>2. completion \in {"SnapshotEmpty", "SnapshotFiles", "AllFilesReceived"}
    BY DEF SnapshotCompletion
  <1>3. /\ lifecycle.state = "refreshing"
        /\ Target(lifecycle.state, completion) =
             (IF completion = "SnapshotEmpty" THEN "pairing"
              ELSE IF completion = "SnapshotFiles" THEN "transferring" ELSE "complete")
        /\ Legal(lifecycle.state, completion)
    BY <1>1, <1>2, CompletionEffects DEF Answered
  <1>4. Accepts(lifecycle, p.operation, completion)
    BY <1>1, <1>3 DEF Answered, Accepts, InFlight
  <1>5. /\ lifecycle' = Completed(lifecycle, completion)
        /\ files' = p.files
        /\ selected_file' = (IF selected_file # None /\ files'[selected_file] # "absent"
                             THEN selected_file ELSE None)
        /\ session' = IF completion = "AllFilesReceived" THEN None ELSE session
    BY <1>4 DEF OnSnapshot
  <1>6. /\ lifecycle'.state = Target(lifecycle.state, completion)
        /\ completion \in Completions
    BY <1>1, <1>2, <1>3, <1>5, CompletedFacts DEF Completions
  <1>7. session \in Tunnels /\ session # None
    BY <1>3 DEF Inv, TypeOK, SessionAgreement, RequiresSession
  <1>8. SessionAgreement' /\ SessionAtHome'
    BY <1>2, <1>3, <1>5, <1>6, <1>7
       DEF SessionAgreement, RequiresSession, SessionAtHome, OnSnapshot, Takes,
           BackgroundUnchanged, service, Inv
  <1>9. ScreenAgrees'
    <2>1. session' # None => \A f \in Files : files'[f] # "absent" => Tunnel(f) = session'
      BY <1>1, <1>5 DEF Answered
    <2>2. selected_file' # None => files'[selected_file'] # "absent"
      BY <1>5
    <2>3. /\ completion = "SnapshotEmpty" <=> files' = NoFiles
          /\ completion = "AllFilesReceived" =>
               \A f \in Files : files'[f] \in {"absent", "downloaded"}
      BY <1>5 DEF SnapshotCompletion
    <2>4. lifecycle'.state = (IF completion = "SnapshotEmpty" THEN "pairing"
              ELSE IF completion = "SnapshotFiles" THEN "transferring" ELSE "complete")
      BY <1>3, <1>6
    <2> QED
      BY <1>2, <2>1, <2>2, <2>3, <2>4 DEF ScreenAgrees
  <1>10. files' \in [Files -> Statuses] /\ selected_file' \in Files \cup {None}
         /\ session' \in Tunnels \cup {None}
    BY <1>1, <1>5 DEF Responses, Inv, TypeOK
  <1> QED
    BY <1>4, <1>5, <1>6, <1>8, <1>9, <1>10, SettledInv DEF OnSnapshot, Takes

\* A finished download is always followed by a snapshot.
LEMMA DownloadChains ==
  ASSUME Inv, OnDownloaded
  PROVE  /\ lifecycle.state = "downloading" /\ session # None
         /\ \E r \in Requests : Begins(r) /\ r.kind = "Refresh"
  <1> DEFINE p == Head(responses)
             done == Completed(lifecycle, "Downloaded")
             begun == Dispatched(done, "Refresh")
  <1>1. /\ p \in Responses /\ Answered(p) /\ p.kind = "Downloaded"
        /\ lifecycle \in Lifecycles /\ lifecycle.state \in PickerStates
        /\ responses' = <<>> /\ requests = <<>> /\ job = None
        /\ worker \in {"waiting", "stopped"}
    BY Arrived DEF OnDownloaded, Takes, Inv, TypeOK, Lifecycles
  <1>2. lifecycle.state = "downloading" /\ Accepts(lifecycle, p.operation, "Downloaded")
    BY <1>1, CompletionEffects DEF Answered, Accepts, InFlight
  <1>3. done \in Lifecycles /\ done.state = "transferring"
    BY <1>1, <1>2, CompletedFacts, CompletionEffects DEF Accepts, Completions
  <1>4. /\ CanDispatch(done, "Refresh")
        /\ Target(done.state, "Refresh") = "refreshing"
    BY <1>3, CommandEffects DEF CanDispatch, Lifecycles
  <1>5. session \in Tunnels /\ session # None
    BY <1>2 DEF Inv, TypeOK, SessionAgreement, RequiresSession
  <1>6. Send(begun, Request(begun.active, "Refresh", session, None), session)
    BY <1>2, <1>4, <1>5 DEF OnDownloaded
  <1>7. \E r \in Requests :
          r.kind = "Refresh" /\ r.tunnel = session /\ r.base_url = base_url /\ Sent(r)
    <2>1. /\ "Refresh" \in Commands /\ "Refresh" \in EffectKinds
          /\ Running("Refresh") = "refreshing" /\ base_url \in Origins
          /\ (IF Spends("Refresh") THEN session ELSE None) = session
      BY DEF Commands, EffectKinds, Running, Spends, Inv, TypeOK
    <2> HIDE DEF done
    <2> QED
      BY <1>3, <1>4, <1>5, <1>6, <2>1, SendOutcome
  <1> QED
    BY <1>2, <1>5, <1>7 DEF Begins, Spends, OnDownloaded, Takes

LEMMA OnDownloadedInv ==
  ASSUME Inv, OnDownloaded
  PROVE  Inv'
  <1>1. /\ responses' = <<>> /\ requests = <<>> /\ job = None
        /\ worker \in {"waiting", "stopped"}
    BY Arrived DEF OnDownloaded, Takes
  <1> QED
    BY <1>1, DownloadChains, BeginsInv

LEMMA OnCancelledInv ==
  ASSUME Inv, OnCancelled
  PROVE  Inv' /\ Settles
  <1> DEFINE p == Head(responses)
  <1>1. /\ p \in Responses /\ Answered(p) /\ p.kind = "Cancelled"
        /\ lifecycle \in Lifecycles /\ lifecycle.state \in PickerStates
    BY Arrived DEF OnCancelled, Takes, Inv, TypeOK, Lifecycles
  <1>2. lifecycle.state = "cancelling" /\ Accepts(lifecycle, p.operation, "Cancelled")
    BY <1>1, CompletionEffects DEF Answered, Accepts, InFlight
  <1>3. /\ lifecycle' = Completed(lifecycle, "Cancelled")
        /\ session' = None /\ files' = NoFiles /\ selected_file' = None
    BY <1>2 DEF OnCancelled, ClearFiles
  <1>4. lifecycle'.state = "idle"
    BY <1>1, <1>2, <1>3, CompletionEffects, CompletedFacts DEF Accepts, Completions
  <1>5. SessionAgreement' /\ SessionAtHome' /\ ScreenAgrees'
    BY <1>3, <1>4 DEF SessionAgreement, RequiresSession, SessionAtHome, ScreenAgrees
  <1> QED
    BY <1>2, <1>3, <1>5, SettledInv, NoFilesType DEF OnCancelled, Takes, Completions

LEMMA OnFailedInv ==
  ASSUME Inv, OnFailed
  PROVE  Inv' /\ Settles
  <1> DEFINE p == Head(responses)
  <1>1. /\ p \in Responses /\ Answered(p)
        /\ lifecycle \in Lifecycles /\ lifecycle.state \in PickerStates
    BY Arrived DEF OnFailed, Takes, Inv, TypeOK, Lifecycles
  <1>2. /\ Legal(lifecycle.state, "Failed")
        /\ Target(lifecycle.state, "Failed") = (IF lifecycle.state \in RequiresSession
                                                THEN "failed_with_session"
                                                ELSE "failed_without_session")
    BY <1>1, CompletionEffects DEF Answered
  <1>3. Accepts(lifecycle, p.operation, "Failed")
    BY <1>1, <1>2 DEF Answered, Accepts, InFlight
  <1>4. /\ lifecycle' = Completed(lifecycle, "Failed")
        /\ session' = IF lifecycle'.state \in RequiresSession THEN session ELSE None
        /\ UNCHANGED <<files, selected_file>>
    BY <1>3 DEF OnFailed
  <1>5. lifecycle'.state = (IF lifecycle.state \in RequiresSession
                            THEN "failed_with_session" ELSE "failed_without_session")
    BY <1>1, <1>2, <1>4, CompletedFacts DEF Completions
  <1>6. SessionAgreement' /\ SessionAtHome'
    BY <1>4, <1>5 DEF SessionAgreement, RequiresSession, SessionAtHome, OnFailed, Takes,
                      BackgroundUnchanged, service, Inv
  <1>7. ScreenAgrees'
    BY <1>4, <1>5 DEF ScreenAgrees, Inv
  <1> QED
    BY <1>3, <1>4, <1>6, <1>7, SettledInv
       DEF OnFailed, Takes, Completions, Inv, TypeOK

-----------------------------------------------------------------------------
(* The worker, the sender and the service.                                 *)

\* With a job the worker holds the only thing under way.
LEMMA AtWork ==
  ASSUME Inv, worker \in {"calling", "saving"}
  PROVE  Working /\ job \in Requests
  BY DEF Inv, Whereabouts, Free, Queued, Working, Waiting, Lost, Asked

\* A response that fits its request preserves the invariant.
LEMMA RespondInv ==
  ASSUME Inv, worker \in {"calling", "saving"},
         NEW kind \in ResponseKinds, NEW tunnel \in Tunnels \cup {None},
         NEW view \in [Files -> Statuses],
         Respond(kind, tunnel, view),
         UNCHANGED requests, AppUnchanged,
         saved' \subseteq Files, open' \subseteq Tunnels,
         remote' \in [Files -> Statuses],
         origin' \in [Tunnels -> Origins \cup {None}],
         \A t \in Tunnels : origin[t] # None => origin'[t] = origin[t],
         kind = "Created" =>
           job.kind = "Create" /\ tunnel \in Tunnels /\ origin'[tunnel] = job.base_url,
         kind = "Snapshot" =>
           /\ job.kind = "Refresh"
           /\ \A f \in Files : view[f] # "absent" => Tunnel(f) = job.tunnel,
         kind = "Downloaded" => job.kind = "Download",
         kind = "Cancelled" => job.kind = "Cancel"
  PROVE  Inv'
  <1>1. Working /\ Asked(job) /\ job \in Requests
    BY AtWork DEF Working
  <1>2. PICK p \in Responses : p = [operation |-> job.operation, kind |-> kind,
                                   tunnel |-> tunnel, files |-> view]
    BY <1>1 DEF Responses, Requests
  <1>3. /\ responses' = <<p>> /\ responses' # <<>> /\ Head(responses') = p
        /\ responses' \in Seq(Responses)
        /\ worker' = "waiting" /\ job' = None /\ requests' = <<>>
    BY <1>1, <1>2, Singleton DEF Respond, Working
  <1>4. TypeOK'
    BY <1>3, EmptyChannel DEF Inv, TypeOK, AppUnchanged, app
  <1>5. Owned' /\ SessionAgreement' /\ ScreenAgrees'
    BY DEF Inv, Owned, SessionAgreement, ScreenAgrees, AppUnchanged, app
  <1>6. SessionAtHome'
    BY ReceiveAssumption DEF Inv, TypeOK, SessionAtHome, AppUnchanged, app
  <1>7. Answered(p)'
    <2>1. lifecycle.state \in InFlight
      BY <1>1 DEF Asked, Requests, EffectKinds, Running, InFlight
    <2>2. /\ p.operation = lifecycle.active /\ p.kind = kind
          /\ p.tunnel = tunnel /\ p.files = view
      BY <1>1, <1>2 DEF Asked
    <2>3. kind = "Created" => lifecycle.state = "creating" /\ origin'[tunnel] = base_url
      BY <1>1 DEF Asked, Running
    <2>4. kind = "Snapshot" => lifecycle.state = "refreshing" /\ job.tunnel = session
      BY <1>1 DEF Asked, Running
    <2>5. /\ kind = "Downloaded" => lifecycle.state = "downloading"
          /\ kind = "Cancelled" => lifecycle.state = "cancelling"
      BY <1>1 DEF Asked, Running
    <2> QED
      BY <1>2, <2>1, <2>2, <2>3, <2>4, <2>5 DEF Answered, AppUnchanged, app
  <1>8. Whereabouts'
    BY <1>3, <1>7 DEF Whereabouts, Waiting
  <1> QED
    BY <1>4, <1>5, <1>6, <1>8 DEF Inv

LEMMA WorkerTakeInv ==
  ASSUME Inv, WorkerTake
  PROVE  Inv'
  <1> USE DEF WorkerTake, AppUnchanged, app, service
  <1>1. Queued
    BY DEF Inv, Whereabouts, Free, Working, Waiting, Lost
  <1>2. Head(requests) \in Requests /\ Asked(Head(requests))
    BY <1>1 DEF Queued, Asked
  <1>3. job' \in Requests /\ job' # None /\ Asked(job)' /\ requests' = <<>>
    BY <1>1, <1>2, Singleton, NoJobAssumption DEF Queued, Asked
  <1>4. TypeOK'
    BY <1>3, EmptyChannel DEF Inv, TypeOK
  <1>5. Whereabouts'
    BY <1>1, <1>3 DEF Whereabouts, Queued, Working
  <1> QED
    BY <1>4, <1>5 DEF Inv, Owned, SessionAgreement, SessionAtHome, ScreenAgrees

LEMMA WorkerCallsInv ==
  ASSUME Inv, WorkerCalls
  PROVE  Inv'
  <1>1. TypeOK /\ (worker = "calling" => Working /\ job \in Requests)
    BY AtWork DEF Inv
  <1>2. /\ "Failed" \in ResponseKinds /\ None \in Tunnels \cup {None}
        /\ NoFiles \in [Files -> Statuses]
    BY NoFilesType DEF ResponseKinds
  <1> USE DEF RespondFailed, service
  <1>3. CASE CallFails
    BY <1>1, <1>2, <1>3, RespondInv DEF CallFails, TypeOK
  <1>4. ASSUME NEW t \in Tunnels, CallCreate(t) PROVE Inv'
    <2>1. /\ origin' \in [Tunnels -> Origins \cup {None}]
          /\ origin'[t] = job.base_url
          /\ \A u \in Tunnels : origin[u] # None => origin'[u] = origin[u]
          /\ open' \subseteq Tunnels
      BY <1>1, <1>4 DEF CallCreate, TypeOK, Requests
    <2>2. CASE Respond("Created", t, NoFiles)
      BY <1>1, <1>2, <1>4, <2>1, <2>2, RespondInv DEF CallCreate, TypeOK, ResponseKinds
    <2>3. CASE RespondFailed
      BY <1>1, <1>2, <1>4, <2>1, <2>3, RespondInv DEF CallCreate, TypeOK
    <2> QED
      BY <1>4, <2>2, <2>3 DEF CallCreate
  <1>5. CASE CallSnapshot
    <2> DEFINE view == [f \in Files |-> IF Tunnel(f) = job.tunnel THEN remote[f]
                                                              ELSE "absent"]
    <2>1. /\ view \in [Files -> Statuses]
          /\ \A f \in Files : view[f] # "absent" => Tunnel(f) = job.tunnel
      BY <1>1 DEF TypeOK, Statuses
    <2>2. Respond("Snapshot", None, view)
      BY <1>5 DEF CallSnapshot
    <2> HIDE DEF view
    <2> QED
      BY <1>1, <1>2, <1>5, <2>1, <2>2, RespondInv DEF CallSnapshot, TypeOK, ResponseKinds
  <1>6. CASE CallDownload
    <2>1. remote' \in [Files -> Statuses]
      BY <1>6 DEF CallDownload, TypeOK, Statuses, Inv
    <2>2. CASE RespondFailed
      BY <1>1, <1>2, <1>6, <2>1, <2>2, RespondInv DEF CallDownload, TypeOK
    <2>3. CASE worker' = "saving" /\ UNCHANGED <<job, responses>>
      <3>1. TypeOK'
        BY <1>1, <1>6, <2>1, <2>3 DEF CallDownload, TypeOK, AppUnchanged, app
      <3>2. Working'
        BY <1>1, <1>6, <2>3 DEF CallDownload, Working, Asked, AppUnchanged, app
      <3> QED
        BY <1>6, <3>1, <3>2 DEF CallDownload, AppUnchanged, app, Inv, Whereabouts, Owned,
                                SessionAgreement, SessionAtHome, ScreenAgrees
    <2> QED
      BY <1>6, <2>2, <2>3 DEF CallDownload
  <1>7. CASE CallCancel
    <2>1. open' \subseteq Tunnels
      BY <1>1, <1>7 DEF CallCancel, TypeOK
    <2>2. CASE Respond("Cancelled", None, NoFiles)
      BY <1>1, <1>2, <1>7, <2>1, <2>2, RespondInv DEF CallCancel, TypeOK, ResponseKinds
    <2>3. CASE RespondFailed
      BY <1>1, <1>2, <1>7, <2>1, <2>3, RespondInv DEF CallCancel, TypeOK
    <2> QED
      BY <1>7, <2>2, <2>3 DEF CallCancel
  <1> QED
    BY <1>3, <1>4, <1>5, <1>6, <1>7 DEF WorkerCalls

LEMMA WorkerSavesInv ==
  ASSUME Inv, WorkerSaves
  PROVE  Inv'
  <1>1. /\ TypeOK /\ worker = "saving" /\ job \in Requests
        /\ job.kind = "Download" /\ job.file \in Files
    BY AtWork DEF Inv, WorkerSaves, SaveSucceeds, SaveFails, Working, Asked
  <1>2. /\ {"Failed", "Downloaded"} \subseteq ResponseKinds
        /\ None \in Tunnels \cup {None} /\ NoFiles \in [Files -> Statuses]
    BY NoFilesType DEF ResponseKinds
  <1> USE DEF RespondFailed, service
  <1>3. CASE SaveSucceeds
    <2>1. saved' \subseteq Files
      BY <1>1, <1>3 DEF SaveSucceeds, TypeOK
    <2> QED
      BY <1>1, <1>2, <1>3, <2>1, RespondInv DEF SaveSucceeds, TypeOK
  <1>4. CASE SaveFails
    <2>1. saved' \subseteq Files
      BY <1>1, <1>4 DEF SaveFails, TypeOK
    <2> QED
      BY <1>1, <1>2, <1>4, <2>1, RespondInv DEF SaveFails, TypeOK
  <1> QED
    BY <1>3, <1>4 DEF WorkerSaves

\* A worker that stops leaves the effect in flight without request or job.
LEMMA WorkerStopsInv ==
  ASSUME Inv, WorkerStops
  PROVE  Inv'
  <1> USE DEF WorkerStops, AppUnchanged, app, service
  <1>1. TypeOK'
    BY EmptyChannel DEF Inv, TypeOK
  <1>2. Whereabouts'
    <2>1. CASE lifecycle.state \notin InFlight
      BY <2>1, AtRest DEF Whereabouts, Free
    <2>2. CASE lifecycle.state \in InFlight /\ responses = <<>>
      BY <2>2 DEF Whereabouts, Lost
    <2>3. CASE responses # <<>>
      BY <2>3 DEF Inv, Whereabouts, Free, Queued, Working, Waiting, Lost, Answered
    <2> QED
      BY <2>1, <2>2, <2>3
  <1> QED
    BY <1>1, <1>2 DEF Inv, Owned, SessionAgreement, SessionAtHome, ScreenAgrees

\* The sender and the service change nothing that the invariant speaks of.
LEMMA OutsideInv ==
  ASSUME Inv, remote' \in [Files -> Statuses], open' \subseteq Tunnels,
         UNCHANGED <<requests, worker, job, responses, saved, origin>>, AppUnchanged
  PROVE  Inv'
  <1> USE DEF AppUnchanged, app
  <1>1. TypeOK'
    BY DEF Inv, TypeOK
  <1>2. Whereabouts'
    BY DEF Inv, Whereabouts, Free, Queued, Working, Waiting, Lost, Asked, Answered
  <1> QED
    BY <1>1, <1>2 DEF Inv, Owned, SessionAgreement, SessionAtHome, ScreenAgrees

LEMMA NextInv == Inv /\ [Next]_vars => Inv'
  <1> SUFFICES ASSUME Inv, [Next]_vars PROVE Inv'
    OBVIOUS
  <1>1. CASE UI
    BY <1>1, UIInv
  <1>2. CASE ProcessResponse
    BY <1>2, OnCreatedInv, OnSnapshotInv, OnDownloadedInv, OnCancelledInv, OnFailedInv
       DEF ProcessResponse
  <1>3. CASE WorkerTake \/ WorkerCalls \/ WorkerSaves \/ WorkerStops
    BY <1>3, WorkerTakeInv, WorkerCallsInv, WorkerSavesInv, WorkerStopsInv
  <1>4. ASSUME NEW f \in Files, SenderActs(f) PROVE Inv'
    <2>1. remote' \in [Files -> Statuses]
      BY <1>4 DEF SenderActs, Inv, TypeOK, Statuses
    <2> QED
      BY <1>4, <2>1, OutsideInv DEF SenderActs, Inv, TypeOK
  <1>5. ASSUME NEW t \in Tunnels, Expire(t) PROVE Inv'
    BY <1>5, OutsideInv DEF Expire, Inv, TypeOK
  <1>6. CASE UNCHANGED vars
    BY <1>6, OutsideInv DEF vars, service, AppUnchanged, Inv, TypeOK
  <1> QED
    BY <1>1, <1>2, <1>3, <1>4, <1>5, <1>6 DEF Next

-----------------------------------------------------------------------------
\* The invariant of the specification.
THEOREM Invariance == Spec => []Inv
  BY InitInv, NextInv, PTL DEF Spec

\* Every variable of app, worker and service keeps its type.
THEOREM TypeCorrect == Spec => []TypeOK
  <1>1. Inv => TypeOK
    BY DEF Inv
  <1> QED
    BY <1>1, Invariance, PTL

\* The debug assertion of process_response() holds in every state: a capability
\* is held exactly in the states that require one.
THEOREM SessionAgrees == Spec => []SessionAgreement
  <1>1. Inv => SessionAgreement
    BY DEF Inv
  <1> QED
    BY <1>1, Invariance, PTL

\* An effect in flight has one request, job or response, and no other effect has
\* any, unless it is lost with a worker that stopped.
THEOREM AnswersCorrelate == Spec => []OneAnswerUnderway
  <1>1. Inv => OneAnswerUnderway
    <2> SUFFICES ASSUME Inv PROVE OneAnswerUnderway
      OBVIOUS
    <2> USE EmptyChannel DEF OneAnswerUnderway
    <2>1. CASE Free
      BY <2>1 DEF Free
    <2>2. CASE Queued
      <3>1. /\ Len(requests) = 1 /\ Len(responses) = 0
            /\ lifecycle.state \in InFlight
        BY <2>2, Singleton
           DEF Queued, Asked, Requests, EffectKinds, Running, InFlight
      <3> QED
        BY <2>2, <3>1 DEF Queued, Asked
    <2>3. CASE Working
      <3>1. lifecycle.state \in InFlight /\ Len(requests) = 0 /\ Len(responses) = 0
        BY <2>3 DEF Working, Asked, Requests, EffectKinds, Running, InFlight
      <3> QED
        BY <2>3, <3>1 DEF Working, Asked
    <2>4. CASE Waiting
      <3>1. Len(responses) = 1 /\ Len(requests) = 0
        BY <2>4, Singleton DEF Waiting
      <3> QED
        BY <2>4, <3>1 DEF Waiting, Answered
    <2>5. CASE Lost
      BY <2>5 DEF Lost
    <2> QED
      BY <2>1, <2>2, <2>3, <2>4, <2>5 DEF Inv, Whereabouts
  <1> QED
    BY <1>1, Invariance, PTL

\* What is in the first channel or with the worker was asked for as the app
\* stands now.
LEMMA AllAsked ==
  ASSUME Inv, NEW r \in {requests[i] : i \in DOMAIN requests} \cup ({job} \ {None})
  PROVE  Asked(r)
  <1>1. CASE r = job /\ job # None
    BY <1>1 DEF Inv, Whereabouts, Free, Queued, Working, Waiting, Lost
  <1>2. CASE r \in {requests[i] : i \in DOMAIN requests}
    <2>1. requests # <<>>
      BY <1>2, EmptyChannel
    <2>2. Queued
      BY <2>1 DEF Inv, Whereabouts, Free, Working, Waiting, Lost
    <2>3. r = Head(requests)
      BY <1>2, <2>2, Singleton DEF Queued
    <2> QED
      BY <2>2, <2>3 DEF Queued
  <1> QED
    BY <1>1, <1>2

\* A capability is only ever sent to the service that issued it, although the
\* address comes from an editable field.
THEOREM CapabilitiesStayHome == Spec => []CapabilityStaysHome
  <1>1. Inv => CapabilityStaysHome
    <2> SUFFICES ASSUME Inv PROVE CapabilityStaysHome
      OBVIOUS
    <2>1. session # None => origin[session] = base_url
      BY DEF Inv, SessionAtHome
    <2>2. ASSUME NEW r \in {requests[i] : i \in DOMAIN requests} \cup ({job} \ {None}),
                 r.kind # "Create"
          PROVE  r.tunnel # None /\ origin[r.tunnel] = r.base_url
      BY <2>2, AllAsked, ReceiveAssumption DEF Asked
    <2> QED
      BY <2>1, <2>2 DEF CapabilityStaysHome
  <1> QED
    BY <1>1, Invariance, PTL

\* The files on screen and in requests are those of the session held.
THEOREM ViewsBelong == Spec => []ViewBelongsToSession
  <1>1. Inv => ViewBelongsToSession
    <2> SUFFICES ASSUME Inv PROVE ViewBelongsToSession
      OBVIOUS
    <2>1. ASSUME NEW r \in {requests[i] : i \in DOMAIN requests} \cup ({job} \ {None}),
                 r.kind = "Download"
          PROVE  r.file # None /\ Tunnel(r.file) = r.tunnel
      BY <2>1, AllAsked, ReceiveAssumption DEF Asked
    <2> QED
      BY <2>1 DEF ViewBelongsToSession, Inv, ScreenAgrees
  <1> QED
    BY <1>1, Invariance, PTL

\* The other steps leave lifecycle and session alone.
LEMMA QuietSteps ==
  (\/ \E url \in Origins : EditBaseUrl(url)
   \/ \E file \in Files : SelectFile(file)
   \/ WorkerTake \/ WorkerCalls \/ WorkerSaves \/ WorkerStops
   \/ \E f \in Files : SenderActs(f)
   \/ \E t \in Tunnels : Expire(t)
   \/ UNCHANGED vars)
  => UNCHANGED <<lifecycle, session>>
  BY DEF EditBaseUrl, SelectFile, WorkerTake, WorkerCalls, CallFails, CallCreate,
         CallSnapshot, CallDownload, CallCancel, WorkerSaves, SaveSucceeds, SaveFails,
         WorkerStops, SenderActs, Expire, AppUnchanged, app, vars

\* With the worker gone no handler leaves an effect running.
THEOREM NothingStarts == Spec => NothingStartsWithoutWorker
  <1> DEFINE NoneStarts ==
        worker = "stopped" => lifecycle'.active \in {lifecycle.active, NoOperation}
  <1>1. Inv /\ [Next]_vars => [NoneStarts]_vars
    <2> SUFFICES ASSUME Inv, Next, worker = "stopped"
                 PROVE  lifecycle'.active \in {lifecycle.active, NoOperation}
      OBVIOUS
    <2>1. CASE UI
      <3>1. CASE Create \/ Refresh \/ RetryCreate \/ RetryRefresh \/ Cancel \/ Download
        BY <3>1, HandlersBegin DEF Inv, Begins, Sent
      <3> QED
        BY <2>1, <3>1 DEF UI, EditBaseUrl, SelectFile
    <2>2. CASE OnDownloaded
      BY <2>2, DownloadChains DEF Inv, Begins, Sent
    <2>3. CASE OnCreated \/ OnSnapshot \/ OnCancelled \/ OnFailed
      BY <2>3, OnCreatedInv, OnSnapshotInv, OnCancelledInv, OnFailedInv DEF Settles
    <2>4. CASE UNCHANGED lifecycle
      BY <2>4
    <2> QED
      BY <2>1, <2>2, <2>3, <2>4, QuietSteps DEF Next, ProcessResponse
  <1> QED
    BY <1>1, Invariance, PTL DEF Spec, NothingStartsWithoutWorker

\* The app with its worker implements the effect slot, with the capability it
\* really holds as the authority.
THEOREM Refinement == Spec => ImplementsEffectSlot
  <1>1. Init => Slot!Init
    BY DEF Init, Slot!Init, DefaultLifecycle, EffectKind, InFlight
  <1>2. Inv /\ [Next]_vars => [Slot!Next]_(Slot!vars)
    <2> SUFFICES ASSUME Inv, [Next]_vars PROVE [Slot!Next]_(Slot!vars)
      OBVIOUS
    <2>1. CASE Create \/ Refresh \/ RetryCreate \/ RetryRefresh \/ Cancel \/ Download
      <3>1. PICK r \in Requests : Begins(r)
        BY <2>1, HandlersBegin DEF Inv
      <3>2. lifecycle.state \notin InFlight /\ EffectKind(lifecycle.state) = "None"
        BY <2>1, HandlersBegin DEF Inv, EffectKind
      <3>3. r.kind \in EffectKinds
        BY DEF Requests
      <3>4. CASE worker = "stopped"
        <4>1. EffectKind(lifecycle'.state) = "None"
          BY <3>1, <3>4 DEF Begins, Sent, EffectKind, InFlight
        <4>2. session' = session \/ session' = None
          BY <3>1 DEF Begins, Sent
        <4> QED
          BY <3>2, <4>1, <4>2 DEF Slot!Next, Slot!Forget, Slot!vars
      <3>5. CASE worker # "stopped"
        <4>1. EffectKind(lifecycle'.state) = r.kind
          BY <3>1, <3>3, <3>5
             DEF Begins, Sent, EffectKind, EffectKinds, Running, InFlight
        <4>2. /\ r.kind = "Create" => session = None /\ session' = None
              /\ r.kind # "Create" => session # None
              /\ session' = IF Spends(r.kind) THEN session ELSE None
          BY <3>1 DEF Begins, Sent, Spends, Inv, SessionAgreement
        <4> QED
          BY <3>2, <3>3, <4>1, <4>2
             DEF EffectKinds, Spends, Slot!Next, Slot!BeginCreate,
                 Slot!BeginWithAuthority, Slot!BeginCancel
      <3> QED
        BY <3>4, <3>5
    <2>2. CASE OnDownloaded
      <3>1. PICK r \in Requests : Begins(r) /\ r.kind = "Refresh"
        BY <2>2, DownloadChains
      <3>2. /\ EffectKind(lifecycle.state) = "Download"
            /\ session # None /\ session' = session
        BY <2>2, <3>1, DownloadChains
           DEF EffectKind, InFlight, Begins, Sent, Spends
      <3>3. EffectKind(lifecycle'.state) \in {"Refresh", "None"}
        BY <3>1 DEF Begins, Sent, Running, EffectKind, InFlight
      <3> QED
        BY <3>2, <3>3 DEF Slot!Next, Slot!Chain, Slot!Settle
    <2>3. CASE OnCreated \/ OnSnapshot \/ OnCancelled \/ OnFailed
      <3>1. Settles
        BY <2>3, OnCreatedInv, OnSnapshotInv, OnCancelledInv, OnFailedInv
      <3>2. /\ EffectKind(lifecycle'.state) = "None"
            /\ EffectKind(lifecycle.state) # "None"
            /\ EffectKind(lifecycle.state) = "Download" => session' # None
            /\ EffectKind(lifecycle.state) = "Cancel" => session' = None
        BY <3>1 DEF Settles, EffectKind, InFlight
      <3> QED
        BY <3>2 DEF Slot!Next, Slot!Settle
    <2>4. CASE UNCHANGED <<lifecycle, session>>
      BY <2>4 DEF Slot!vars
    <2> QED
      BY <2>1, <2>2, <2>3, <2>4, QuietSteps DEF Next, UI, ProcessResponse
  <1> QED
    BY <1>1, <1>2, Invariance, PTL DEF Spec, ImplementsEffectSlot, Slot!Spec

\* A file that a snapshot under way calls downloaded is so at the service.
SnapshotsAreTrue ==
  responses # <<>> /\ Head(responses).kind = "Snapshot" =>
    \A f \in Files : Head(responses).files[f] = "downloaded" => remote[f] = "downloaded"

LEMMA SnapshotsStep ==
  ASSUME Inv, SnapshotsAreTrue, [Next]_vars
  PROVE  SnapshotsAreTrue'
  <1>1. CASE UNCHANGED <<responses, remote>>
    BY <1>1 DEF SnapshotsAreTrue
  <1>2. CASE ProcessResponse
    <2>1. responses' = <<>>
      BY <1>2, Arrived
         DEF ProcessResponse, OnCreated, OnSnapshot, OnDownloaded, OnCancelled, OnFailed, Takes
    <2> QED
      BY <2>1 DEF SnapshotsAreTrue
  <1>3. ASSUME NEW f \in Files, SenderActs(f) PROVE SnapshotsAreTrue'
    <2>1. \A g \in Files : remote[g] = "downloaded" => remote'[g] = "downloaded"
      BY <1>3 DEF SenderActs, Inv, TypeOK
    <2> QED
      BY <1>3, <2>1 DEF SenderActs, SnapshotsAreTrue
  <1>4. ASSUME NEW kind \in ResponseKinds, NEW tunnel, NEW view,
               worker \in {"calling", "saving"}, Respond(kind, tunnel, view),
               kind = "Snapshot" =>
                 UNCHANGED remote
                 /\ \A f \in Files : view[f] = "downloaded" => remote[f] = "downloaded"
        PROVE  SnapshotsAreTrue'
    <2>1. PICK p : p = [operation |-> job.operation, kind |-> kind,
                        tunnel |-> tunnel, files |-> view]
      OBVIOUS
    <2>2. responses' = <<p>> /\ Head(responses') = p
      BY <1>4, <2>1, AtWork, Singleton DEF Respond, Working
    <2>3. p.kind = kind /\ p.files = view
      BY <2>1
    <2> QED
      BY <1>4, <2>2, <2>3 DEF SnapshotsAreTrue
  <1> USE DEF ResponseKinds, RespondFailed
  <1>5. CASE WorkerSaves
    BY <1>4, <1>5 DEF WorkerSaves, SaveSucceeds, SaveFails
  <1>6. CASE CallFails \/ CallCancel \/ \E t \in Tunnels : CallCreate(t)
    BY <1>4, <1>6 DEF CallFails, CallCancel, CallCreate
  <1>7. CASE CallSnapshot
    BY <1>4, <1>7 DEF CallSnapshot, service
  <1>8. CASE CallDownload
    <2>1. CASE RespondFailed
      BY <1>4, <1>8, <2>1 DEF CallDownload
    <2>2. CASE UNCHANGED responses
      BY <1>8, <2>2, AtWork DEF CallDownload, Working, SnapshotsAreTrue
    <2> QED
      BY <1>8, <2>1, <2>2 DEF CallDownload
  <1>9. CASE UI
    <2>1. UNCHANGED <<responses, remote>>
      BY <1>9, HandlersBegin
         DEF UI, Inv, Begins, EditBaseUrl, SelectFile, BackgroundUnchanged, service
    <2> QED
      BY <1>1, <2>1
  <1>10. CASE WorkerTake \/ WorkerStops \/ (\E t \in Tunnels : Expire(t)) \/ UNCHANGED vars
    BY <1>1, <1>10 DEF WorkerTake, WorkerStops, Expire, vars, service
  <1> QED
    BY <1>2, <1>3, <1>5, <1>6, <1>7, <1>8, <1>9, <1>10 DEF Next, WorkerCalls

\* Receive.SessionsEndForAReason, of the handlers of src/desktop/app.rs that drop the
\* session: one is given up only by cancelling, or on a snapshot that has files and every
\* one of them downloaded, as the service still has it; no failure and no unfinished file
\* costs the user the tunnel.
THEOREM SessionsEnd == Spec => SessionsEndForAReason
  <1> DEFINE Reason ==
        session # None /\ session' # session =>
          /\ session' = None
          /\ \/ Cancel
             \/ /\ lifecycle'.state = "complete"
                /\ files' # NoFiles
                /\ \A f \in Files :
                     \/ files'[f] = "absent"
                     \/ files'[f] = "downloaded" /\ remote[f] = "downloaded"
  <1>1. Init => SnapshotsAreTrue
    BY DEF Init, SnapshotsAreTrue
  <1>2. Inv /\ SnapshotsAreTrue /\ [Next]_vars => SnapshotsAreTrue'
    BY SnapshotsStep
  <1>3. Inv /\ SnapshotsAreTrue /\ [Next]_vars => [Reason]_vars
    <2> SUFFICES ASSUME Inv, SnapshotsAreTrue, Next,
                        session # None, session' # session
                 PROVE  /\ session' = None
                        /\ \/ Cancel
                           \/ /\ lifecycle'.state = "complete"
                              /\ files' # NoFiles
                              /\ \A f \in Files :
                                   \/ files'[f] = "absent"
                                   \/ files'[f] = "downloaded" /\ remote[f] = "downloaded"
      OBVIOUS
    <2>1. lifecycle.state \in RequiresSession
      BY DEF Inv, SessionAgreement
    <2>2. ASSUME NEW r \in Requests, Begins(r) PROVE session' = None /\ Cancel
      BY <2>1, <2>2 DEF Begins, Sent, Spends, Requests, EffectKinds
    <2>3. CASE Create \/ Refresh \/ RetryCreate \/ RetryRefresh \/ Cancel \/ Download
      BY <2>2, <2>3, HandlersBegin DEF Inv
    <2>4. CASE OnDownloaded
      BY <2>2, <2>4, DownloadChains
    <2>5. CASE OnSnapshot
      <3> DEFINE p == Head(responses)
                 completion == SnapshotCompletion(p.files)
      <3>1. /\ Accepts(lifecycle, p.operation, completion)
            /\ completion = "AllFilesReceived" /\ session' = None
            /\ lifecycle' = Completed(lifecycle, completion)
            /\ files' = p.files /\ responses # <<>> /\ p.kind = "Snapshot"
        BY <2>5 DEF OnSnapshot, Takes
      <3>2. lifecycle'.state = "complete"
        BY <3>1, CompletedFacts, CompletionEffects
           DEF Accepts, Completions, Inv, TypeOK, Lifecycles
      <3>3. files' # NoFiles /\ \A f \in Files : files'[f] \in {"absent", "downloaded"}
        BY <3>1 DEF SnapshotCompletion
      <3> QED
        BY <3>1, <3>2, <3>3 DEF SnapshotsAreTrue
    <2>6. CASE OnCreated
      BY <2>1, <2>6, Arrived DEF OnCreated, Takes, Answered, RequiresSession
    <2>7. CASE OnCancelled
      BY <2>1, <2>7, Arrived DEF OnCancelled, Takes, Answered, RequiresSession
    <2>8. CASE OnFailed
      <3>1. SessionAgreement' /\ lifecycle.state \in PickerStates
        BY <2>8, OnFailedInv DEF Inv, TypeOK, Lifecycles
      <3>2. Accepts(lifecycle, Head(responses).operation, "Failed")
            /\ lifecycle' = Completed(lifecycle, "Failed")
            /\ session' = IF lifecycle'.state \in RequiresSession THEN session ELSE None
        BY <2>8 DEF OnFailed
      <3>3. lifecycle'.state = "failed_with_session"
        BY <2>1, <3>1, <3>2, CompletedFacts, CompletionEffects
           DEF Accepts, Completions, Inv, TypeOK
      <3> QED
        BY <3>2, <3>3 DEF RequiresSession
    <2> QED
      BY <2>3, <2>4, <2>5, <2>6, <2>7, <2>8, QuietSteps DEF Next, UI, ProcessResponse
  <1> QED
    BY <1>1, <1>2, <1>3, Invariance, PTL DEF Spec, SessionsEndForAReason
=============================================================================
