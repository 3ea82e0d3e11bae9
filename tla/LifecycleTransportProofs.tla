---------------------- MODULE LifecycleTransportProofs ----------------------
(***************************************************************************)
(* Proofs about the lifecycle behind an unreliable transport, for every    *)
(* size of the identifier space and every table the constants allow.       *)
(***************************************************************************)
EXTENDS LifecycleTransport, LifecycleLemmas

\* The invariant: types, the agreement of state and owner, and the correlation
\* of answers.  The second is what makes a command illegal while an effect runs,
\* the third needs both.
Inv == TypeOK /\ InFlightAgrees /\ OnlyTheRunningEffectIsAnswered

LEMMA InitInv == Init => Inv
  <1> SUFFICES ASSUME Init PROVE Inv
    OBVIOUS
  <1>1. 1 \in OperationIds
    BY MaxOperationAssumption DEF OperationIds
  <1>2. DefaultLifecycle \in Lifecycles
    BY <1>1 DEF DefaultLifecycle, Lifecycles, PickerStates
  <1> QED
    BY <1>2 DEF Init, Inv, TypeOK, InFlightAgrees, OnlyTheRunningEffectIsAnswered,
                DefaultLifecycle, InFlight, NoOperation

\* A command preserves the invariant.
LEMMA DispatchInv ==
  ASSUME Inv, NEW command \in Commands, Dispatch(command)
  PROVE  Inv'
  <1>1. lifecycle \in Lifecycles /\ CanDispatch(lifecycle, command)
    BY DEF Inv, TypeOK, Dispatch
  <1>2. /\ lifecycle' \in Lifecycles
        /\ lifecycle'.state \in InFlight <=> lifecycle'.active # NoOperation
        /\ lifecycle'.state \in InFlight => lifecycle'.active = lifecycle.next
    BY <1>1, DispatchedFacts DEF Dispatch
  <1>3. lifecycle'.state \in PickerStates /\ lifecycle.next \in OperationIds
    BY <1>1, <1>2 DEF Lifecycles
  <1>4. CASE EffectKind(lifecycle'.state) = "None"
    <2>1. answers' = answers
      BY <1>4 DEF Dispatch
    <2>2. lifecycle'.active = NoOperation
      BY <1>2, <1>3, <1>4, EffectsAreInFlight
    <2>3. \A a \in answers : a.operation # NoOperation
      BY DEF Inv, TypeOK, Answers, OperationIds, NoOperation
    <2> QED
      BY <1>2, <2>1, <2>2, <2>3
         DEF Inv, TypeOK, InFlightAgrees, OnlyTheRunningEffectIsAnswered
  <1>5. CASE EffectKind(lifecycle'.state) # "None"
    <2> DEFINE answer == [operation |-> lifecycle'.active,
                          kind |-> EffectKind(lifecycle'.state), open |-> TRUE]
    <2>1. FreshIdentifier /\ answers' = answers \cup {answer}
      BY <1>5 DEF Dispatch
    <2>2. /\ lifecycle'.active = lifecycle.next
          /\ EffectKind(lifecycle'.state) \in EffectKinds
      BY <1>2, <1>3, <1>5, EffectsAreInFlight
    <2>3. answer \in Answers
      BY <1>3, <2>2 DEF Answers
    <2>4. OnlyTheRunningEffectIsAnswered'
      BY <2>1, <2>2 DEF OnlyTheRunningEffectIsAnswered, FreshIdentifier
    <2> QED
      BY <1>2, <2>1, <2>3, <2>4 DEF Inv, TypeOK, InFlightAgrees
  <1> QED
    BY <1>4, <1>5

\* An accepted answer preserves the invariant.
LEMMA CompleteInv ==
  ASSUME Inv, NEW a \in answers, NEW completion \in Completions,
         Complete(a, completion)
  PROVE  Inv'
  <1>1. /\ lifecycle' \in Lifecycles
        /\ lifecycle'.state \notin InFlight
        /\ lifecycle'.active = NoOperation
    BY CompletedFacts DEF Inv, TypeOK, Complete, Accepts
  <1>2. answers' \subseteq Answers
    BY DEF Inv, TypeOK, Complete, Answers
  <1>3. \A b \in answers' : b.operation # NoOperation
    BY <1>2 DEF Answers, OperationIds, NoOperation
  <1> QED
    BY <1>1, <1>2, <1>3 DEF Inv, TypeOK, InFlightAgrees, OnlyTheRunningEffectIsAnswered

\* The step of the invariant.
LEMMA NextInv == Inv /\ [Next]_vars => Inv'
  <1> SUFFICES ASSUME Inv, [Next]_vars PROVE Inv'
    OBVIOUS
  <1>1. ASSUME NEW command \in Commands, Dispatch(command) PROVE Inv'
    BY <1>1, DispatchInv
  <1>2. ASSUME NEW a \in answers, NEW completion \in Completions,
               Complete(a, completion)
        PROVE  Inv'
    BY <1>2, CompleteInv
  <1>3. ASSUME NEW a \in answers, Lose(a) PROVE Inv'
    BY <1>3 DEF Lose, Inv, TypeOK, InFlightAgrees, OnlyTheRunningEffectIsAnswered
  <1>4. CASE UNCHANGED vars
    BY <1>4 DEF vars, Inv, TypeOK, InFlightAgrees, OnlyTheRunningEffectIsAnswered
  <1> QED
    BY <1>1, <1>2, <1>3, <1>4 DEF Next

\* The invariant of the specification.
THEOREM Invariance == Spec => []Inv
  BY InitInv, NextInv, PTL DEF Spec

\* The reducer's values keep their types: identifiers stay in their range
\* across the wraparound and zero is never issued.
THEOREM TypeCorrect == Spec => []TypeOK
  <1>1. Inv => TypeOK
    BY DEF Inv
  <1> QED
    BY <1>1, Invariance, PTL

\* The lifecycle is in flight exactly when one operation owns it.
THEOREM OwnershipAgrees == Spec => []InFlightAgrees
  <1>1. Inv => InFlightAgrees
    BY DEF Inv
  <1> QED
    BY <1>1, Invariance, PTL

\* No late or repeated answer correlates with the active operation.
THEOREM AnswersCorrelate == Spec => []OnlyTheRunningEffectIsAnswered
  <1>1. Inv => OnlyTheRunningEffectIsAnswered
    BY DEF Inv
  <1> QED
    BY <1>1, Invariance, PTL

\* No effect is completed twice: while an effect runs no command is legal, and
\* the answer that settles it was open.
THEOREM EffectsAreSettledOnce == Spec => EffectsSettleOnce
  <1> DEFINE SettlesOpen ==
        lifecycle.active # NoOperation /\ lifecycle'.active # lifecycle.active =>
          \E a \in answers :
            /\ a.operation = lifecycle.active /\ a.open
            /\ [a EXCEPT !.open = FALSE] \in answers'
  <1>1. Inv /\ [Next]_vars => [SettlesOpen]_vars
    <2> SUFFICES ASSUME Inv, Next, lifecycle.active # NoOperation,
                        lifecycle'.active # lifecycle.active
                 PROVE  \E a \in answers :
                          /\ a.operation = lifecycle.active /\ a.open
                          /\ [a EXCEPT !.open = FALSE] \in answers'
      OBVIOUS
    <2>1. ASSUME NEW command \in Commands, Dispatch(command) PROVE FALSE
      BY <2>1, DispatchedFacts DEF Inv, TypeOK, InFlightAgrees, Dispatch
    <2>2. ASSUME NEW a \in answers, Lose(a) PROVE FALSE
      BY <2>2 DEF Lose
    <2>3. PICK a \in answers, completion \in Completions : Complete(a, completion)
      BY <2>1, <2>2 DEF Next
    <2>4. a.operation = lifecycle.active /\ a.open
      BY <2>3 DEF Complete, Accepts, Inv, OnlyTheRunningEffectIsAnswered
    <2>5. [a EXCEPT !.open = FALSE] \in answers'
      BY <2>3 DEF Complete
    <2> QED
      BY <2>4, <2>5
  <1> QED
    BY <1>1, Invariance, PTL DEF Spec, EffectsSettleOnce

\* The reducer implements the effect slot: every command fits the authority of
\* the state it starts from, and every completion settles the slot.
THEOREM Refinement == Spec => ImplementsEffectSlot
  <1>1. Init => Slot!Init
    BY DEF Init, Slot!Init, DefaultLifecycle, EffectKind, InFlight, RequiresSession
  <1>2. Inv /\ [Next]_vars => [Slot!Next]_(Slot!vars)
    <2> SUFFICES ASSUME Inv, [Next]_vars PROVE [Slot!Next]_(Slot!vars)
      OBVIOUS
    <2>1. lifecycle.state \in PickerStates
      BY DEF Inv, TypeOK, Lifecycles
    <2>2. ASSUME NEW command \in Commands, Dispatch(command) PROVE Slot!Next
      <3>1. /\ lifecycle.state \notin InFlight
            /\ lifecycle'.state = Target(lifecycle.state, command)
        BY <2>2, DispatchedFacts DEF Dispatch, Inv, TypeOK
      <3>2. \/ lifecycle'.state = "idle"
            \/ lifecycle'.state = "creating" /\ lifecycle.state \notin RequiresSession
            \/ /\ lifecycle'.state \in {"refreshing", "downloading", "cancelling"}
               /\ lifecycle.state \in RequiresSession
        BY <2>1, <2>2, <3>1, CommandTargets DEF Dispatch, CanDispatch
      <3>3. EffectKind(lifecycle.state) = "None"
        BY <2>1, <3>1, EffectsAreInFlight
      <3>4. CASE lifecycle'.state = "idle"
        BY <3>3, <3>4 DEF Slot!Next, Slot!Forget, EffectKind, InFlight, RequiresSession
      <3>5. CASE lifecycle'.state = "creating" /\ lifecycle.state \notin RequiresSession
        BY <3>3, <3>5
           DEF Slot!Next, Slot!BeginCreate, EffectKind, InFlight, RequiresSession
      <3>6. CASE /\ lifecycle'.state \in {"refreshing", "downloading", "cancelling"}
                 /\ lifecycle.state \in RequiresSession
        BY <3>3, <3>6 DEF Slot!Next, Slot!BeginWithAuthority, Slot!BeginCancel,
                          EffectKind, InFlight, RequiresSession
      <3> QED
        BY <3>2, <3>4, <3>5, <3>6
    <2>3. ASSUME NEW a \in answers, NEW completion \in Completions,
                 Complete(a, completion)
          PROVE  Slot!Next
      <3>1. /\ lifecycle.state \in InFlight
            /\ lifecycle'.state \in PickerStates \ InFlight
            /\ lifecycle.state = "downloading" => lifecycle'.state \in RequiresSession
            /\ lifecycle.state = "cancelling" => lifecycle'.state \notin RequiresSession
        BY <2>1, <2>3, CompletedFacts, CompletionTargets
           DEF Complete, Accepts, Inv, TypeOK
      <3>2. EffectKind(lifecycle'.state) = "None"
        BY <3>1, EffectsAreInFlight
      <3>3. /\ EffectKind(lifecycle.state) # "None"
            /\ EffectKind(lifecycle.state) = "Download" => lifecycle.state = "downloading"
            /\ EffectKind(lifecycle.state) = "Cancel" => lifecycle.state = "cancelling"
        BY <3>1 DEF EffectKind, InFlight
      <3> QED
        BY <3>1, <3>2, <3>3 DEF Slot!Next, Slot!Settle
    <2>4. ASSUME NEW a \in answers, Lose(a) PROVE UNCHANGED Slot!vars
      BY <2>4 DEF Lose, Slot!vars
    <2>5. CASE UNCHANGED vars
      BY <2>5 DEF vars, Slot!vars
    <2> QED
      BY <2>2, <2>3, <2>4, <2>5 DEF Next
  <1> QED
    BY <1>1, <1>2, Invariance, PTL DEF Spec, ImplementsEffectSlot, Slot!Spec
=============================================================================
