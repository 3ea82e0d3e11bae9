--------------------------- MODULE LifecycleLemmas ---------------------------
(***************************************************************************)
(* Facts about the operators of the lifecycle reducer, cited by the proofs *)
(* of every module that uses it.                                           *)
(***************************************************************************)
EXTENDS Lifecycle, TLAPS

\* What a legal command does to the picker state: it leaves a state at rest for
\* idle or for the effect that fits the authority the state had.
LEMMA CommandTargets ==
  ASSUME NEW state \in PickerStates, NEW command \in Commands, Legal(state, command)
  PROVE  /\ Target(state, command) \in PickerStates
         /\ state \notin InFlight
         /\ \/ Target(state, command) = "idle"
            \/ Target(state, command) = "creating" /\ state \notin RequiresSession
            \/ /\ Target(state, command) \in {"refreshing", "downloading", "cancelling"}
               /\ state \in RequiresSession
  BY StartFromAssumption, RefreshFromAssumption
     DEF Commands, Legal, Target, Transitions, PickerStates, InFlight, RequiresSession

\* What a legal completion does: it leaves a state in flight for one at rest; a
\* download keeps the authority and a cancellation does not get it back.
LEMMA CompletionTargets ==
  ASSUME NEW state \in PickerStates, NEW completion \in Completions,
         Legal(state, completion)
  PROVE  /\ Target(state, completion) \in PickerStates \ InFlight
         /\ state \in InFlight
         /\ state = "downloading" => Target(state, completion) \in RequiresSession
         /\ state = "cancelling" => Target(state, completion) \notin RequiresSession
  BY DEF Completions, Legal, Target, Transitions, PickerStates, InFlight, RequiresSession

\* The states with an effect are those in flight.
LEMMA EffectsAreInFlight ==
  ASSUME NEW state \in PickerStates
  PROVE  /\ EffectKind(state) = "None" <=> state \notin InFlight
         /\ state \in InFlight => EffectKind(state) \in EffectKinds
  BY DEF EffectKind, EffectKinds, PickerStates, InFlight, RequiresSession

\* An identifier is followed by an identifier.
LEMMA NextOperationType ==
  ASSUME NEW operation \in OperationIds
  PROVE  NextOperation(operation) \in OperationIds
  BY MaxOperationAssumption DEF NextOperation, OperationIds

\* A dispatched lifecycle is well typed, and is in flight exactly when it is
\* owned, by the identifier that was next.
LEMMA DispatchedFacts ==
  ASSUME NEW lifecycle \in Lifecycles, NEW command \in Commands,
         CanDispatch(lifecycle, command)
  PROVE  LET after == Dispatched(lifecycle, command) IN
           /\ after \in Lifecycles
           /\ after.state = Target(lifecycle.state, command)
           /\ lifecycle.state \notin InFlight
           /\ after.state \in InFlight <=> after.active # NoOperation
           /\ after.state \in InFlight => after.active = lifecycle.next
  <1> DEFINE target == Target(lifecycle.state, command)
  <1>1. /\ target \in PickerStates
        /\ lifecycle.state \notin InFlight
    BY CommandTargets DEF Lifecycles, CanDispatch
  <1>2. EffectKind(target) = "None" <=> target \notin InFlight
    BY <1>1, EffectsAreInFlight
  <1>3. lifecycle.next \in OperationIds /\ lifecycle.next # NoOperation
    BY DEF Lifecycles, OperationIds, NoOperation
  <1>4. NextOperation(lifecycle.next) \in OperationIds
    BY <1>3, NextOperationType
  <1> QED
    BY <1>1, <1>2, <1>3, <1>4 DEF Dispatched, Lifecycles

\* A completed lifecycle is well typed, at rest and owned by no operation.
LEMMA CompletedFacts ==
  ASSUME NEW lifecycle \in Lifecycles, NEW completion \in Completions,
         Legal(lifecycle.state, completion)
  PROVE  LET after == Completed(lifecycle, completion) IN
           /\ after \in Lifecycles
           /\ after.state = Target(lifecycle.state, completion)
           /\ after.state \notin InFlight
           /\ after.active = NoOperation
           /\ after.next = lifecycle.next
           /\ lifecycle.state \in InFlight
  BY CompletionTargets DEF Completed, Lifecycles

\* Where each command of the app leads, and from where.
LEMMA CommandEffects ==
  ASSUME NEW state \in PickerStates
  PROVE  /\ Legal(state, "Start") => Target(state, "Start") = "creating"
         /\ Legal(state, "Refresh") => Target(state, "Refresh") = "refreshing"
         /\ Legal(state, "Download") =>
              Target(state, "Download") = "downloading" /\ state = "transferring"
         /\ Legal(state, "Cancel") => Target(state, "Cancel") = "cancelling"
         /\ Legal(state, "Retry") => Target(state, "Retry") \in {"creating", "refreshing"}
         /\ Legal("transferring", "Refresh")
  BY StartFromAssumption, RefreshFromAssumption
     DEF Legal, Target, Transitions, PickerStates, InFlight, RequiresSession

\* The one effect each completion settles, and where it leads.
LEMMA CompletionEffects ==
  ASSUME NEW state \in PickerStates
  PROVE  /\ Legal(state, "Created") <=> state = "creating"
         /\ Target("creating", "Created") = "pairing"
         /\ \A completion \in {"SnapshotEmpty", "SnapshotFiles", "AllFilesReceived"} :
              Legal(state, completion) <=> state = "refreshing"
         /\ Target("refreshing", "SnapshotEmpty") = "pairing"
         /\ Target("refreshing", "SnapshotFiles") = "transferring"
         /\ Target("refreshing", "AllFilesReceived") = "complete"
         /\ Legal(state, "Downloaded") <=> state = "downloading"
         /\ Target("downloading", "Downloaded") = "transferring"
         /\ Legal(state, "Cancelled") <=> state = "cancelling"
         /\ Target("cancelling", "Cancelled") = "idle"
         /\ Legal(state, "Failed") <=> state \in InFlight
         /\ state \in InFlight =>
              Target(state, "Failed") = (IF state \in RequiresSession
                                         THEN "failed_with_session"
                                         ELSE "failed_without_session")
  BY DEF Legal, Target, Transitions, PickerStates, InFlight, RequiresSession
=============================================================================
