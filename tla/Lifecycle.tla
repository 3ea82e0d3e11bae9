------------------------------ MODULE Lifecycle ------------------------------
(***************************************************************************)
(* The receive lifecycle of src/lifecycle.rs as a value: a record of the   *)
(* picker state, the operation that owns the running effect and the next   *)
(* operation identifier, and the two reducer steps, dispatch of a user     *)
(* command and completion by a worker response.                            *)
(***************************************************************************)
EXTENDS Naturals, PickerMachine

CONSTANT MaxOperation   \* the last operation identifier (u64::MAX in the code)

ASSUME MaxOperationAssumption == MaxOperation \in Nat \ {0}

NoOperation == 0
OperationIds == 1..MaxOperation

Commands == {"Start", "Refresh", "Download", "Cancel", "Retry", "Reset"}

Completions == {"Created", "SnapshotEmpty", "SnapshotFiles", "AllFilesReceived",
                "Downloaded", "Cancelled", "Failed"}

EffectKinds == {"Create", "Refresh", "Download", "Cancel"}

Lifecycles == [state  : PickerStates,
               active : OperationIds \cup {NoOperation},
               next   : OperationIds]

DefaultLifecycle == [state |-> "idle", active |-> NoOperation, next |-> 1]

\* Mutated form: two arms swapped.
EffectKindSwapped(state) ==
  IF state \in InFlight
  THEN [creating    |-> "Create",   refreshing |-> "Cancel",
        downloading |-> "Download", cancelling |-> "Refresh"][state]
  ELSE "None"

\* The effect a state runs; states that are not in flight run none.  (A fifth
\* state in flight would be the code's UncontrolledEffect error.)
EffectKind(state) ==
  IF state \in InFlight
  THEN [creating    |-> "Create",   refreshing |-> "Refresh",
        downloading |-> "Download", cancelling |-> "Cancel"][state]
  ELSE "None"

\* Mutated form: the counter is not wrapped.
NextOperationNoWrap(operation) == operation + 1

\* checked_add(1).unwrap_or(1): identifiers wrap and zero is never issued.
NextOperation(operation) == IF operation = MaxOperation THEN 1 ELSE operation + 1

CanDispatch(lifecycle, command) == Legal(lifecycle.state, command)

\* Mutated form: the effect is not recorded.
DispatchedForgetsOwner(lifecycle, command) ==
  [lifecycle EXCEPT !.state = Target(lifecycle.state, command),
                    !.next  = NextOperation(lifecycle.next)]

\* The lifecycle after a legal command: a state with an effect takes the next
\* identifier, any other state is owned by no operation.
Dispatched(lifecycle, command) ==
  LET target == Target(lifecycle.state, command) IN
    IF EffectKind(target) = "None"
    THEN [lifecycle EXCEPT !.state = target, !.active = NoOperation]
    ELSE [state  |-> target,
          active |-> lifecycle.next,
          next   |-> NextOperation(lifecycle.next)]

\* Mutated form: the operation is not compared.
AcceptsAnyOperation(lifecycle, operation, completion) ==
  Legal(lifecycle.state, completion)

\* A completion is taken only from the operation that owns the effect, and only
\* where the picker machine allows it.
Accepts(lifecycle, operation, completion) ==
  /\ lifecycle.active = operation
  /\ Legal(lifecycle.state, completion)
  /\ Target(lifecycle.state, completion) \notin InFlight

\* Mutated form: the operation is not cleared.
CompletedKeepsOwner(lifecycle, completion) ==
  [lifecycle EXCEPT !.state = Target(lifecycle.state, completion)]

\* The lifecycle after an accepted completion.
Completed(lifecycle, completion) ==
  [lifecycle EXCEPT !.state = Target(lifecycle.state, completion),
                    !.active = NoOperation]
=============================================================================
