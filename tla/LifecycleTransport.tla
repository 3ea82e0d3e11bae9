------------------------- MODULE LifecycleTransport -------------------------
(***************************************************************************)
(* The lifecycle reducer behind a transport that may lose, delay, reorder  *)
(* and duplicate the answers to its effects: the setting the operation     *)
(* identifiers of src/lifecycle.rs are for.  Identifiers wrap, so an old   *)
(* answer could meet a new effect of the same identifier; the transport is *)
(* assumed to keep no answer for a whole turn of the counter (2^64         *)
(* operations in the code, MaxOperation here).                             *)
(***************************************************************************)
EXTENDS Lifecycle, FiniteSets

VARIABLES
  lifecycle,   \* the reducer's value
  answers      \* the answers that may still arrive, any number of times

vars == <<lifecycle, answers>>

\* An answer is open until a completion has been taken for its effect.
Answers == [operation : OperationIds, kind : EffectKinds, open : BOOLEAN]

TypeOK ==
  /\ lifecycle \in Lifecycles
  /\ answers \subseteq Answers

Init ==
  /\ lifecycle = DefaultLifecycle
  /\ answers = {}

\* The transport's assumption: nothing that may still arrive bears the
\* identifier about to be issued.
FreshIdentifier == \A a \in answers : a.operation # lifecycle.next

\* A user command.  The effect it starts will have an answer.
Dispatch(command) ==
  /\ CanDispatch(lifecycle, command)
  /\ lifecycle' = Dispatched(lifecycle, command)
  /\ LET kind == EffectKind(lifecycle'.state) IN
       IF kind = "None"
       THEN UNCHANGED answers
       ELSE /\ FreshIdentifier
            /\ answers' = answers \cup
                 {[operation |-> lifecycle'.active, kind |-> kind, open |-> TRUE]}

\* An answer arrives, and stays in the transport as a possible duplicate.  Its
\* sender knows the kind of effect but not the state of the lifecycle, so any
\* completion may come with it; one that is not accepted changes nothing.
Complete(a, completion) ==
  /\ a \in answers
  /\ Accepts(lifecycle, a.operation, completion)
  /\ lifecycle' = Completed(lifecycle, completion)
  /\ answers' = (answers \ {a}) \cup {[a EXCEPT !.open = FALSE]}

\* The transport loses or stops repeating an answer.
Lose(a) ==
  /\ a \in answers
  /\ answers' = answers \ {a}
  /\ UNCHANGED lifecycle

Next ==
  \/ \E command \in Commands : Dispatch(command)
  \/ \E a \in answers, completion \in Completions : Complete(a, completion)
  \/ \E a \in answers : Lose(a)

Spec == Init /\ [][Next]_vars

-----------------------------------------------------------------------------
\* The lifecycle is in flight exactly when one operation owns it, whatever
\* commands and answers came before (validate_in_flight is checked by the code
\* after the change, when it is too late to undo it).
InFlightAgrees ==
  lifecycle.state \in InFlight <=> lifecycle.active # NoOperation

\* An answer that could be accepted is the first for the effect that is
\* running: duplicates and late answers, also across the wraparound of the
\* identifiers, never correlate with the active operation.
OnlyTheRunningEffectIsAnswered ==
  \A a \in answers :
    a.operation = lifecycle.active =>
      a.open /\ a.kind = EffectKind(lifecycle.state)

\* A completion settles an effect that was open, and settles one effect only:
\* no effect is completed twice.
EffectsSettleOnce ==
  [][ lifecycle.active # NoOperation /\ lifecycle'.active # lifecycle.active =>
        \E a \in answers :
          /\ a.operation = lifecycle.active /\ a.open
          /\ [a EXCEPT !.open = FALSE] \in answers' ]_vars

\* The lifecycle implements the effect slot, with the session authority the
\* picker metadata says a state has.
Slot == INSTANCE EffectSlot WITH
  effect    <- EffectKind(lifecycle.state),
  authority <- lifecycle.state \in RequiresSession

ImplementsEffectSlot == Slot!Spec
=============================================================================
