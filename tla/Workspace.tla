------------------------------ MODULE Workspace ------------------------------
(***************************************************************************)
(* The clipboard workspace of src/workspace.rs as a value: the reducer's   *)
(* guard, the effect of each action on the value, and the step that every  *)
(* accepted command ends with.  A text stands for its content and for its  *)
(* digest; a search query is the set of texts it matches.  Data that fails *)
(* the bounds of an action (sizes, digests, fingerprints) is rejected      *)
(* before anything is assigned, and is left out.                           *)
(***************************************************************************)
EXTENDS Integers, SequencesExt

CONSTANTS
  Texts,                  \* clipboard contents
  Sources,                \* source fingerprints
  NoSource,               \* an item of unknown source
  CommandIds,             \* command identifiers (UUIDs in the code)
  Identifiers,            \* item identifiers (UUIDs in the code)
  Policies,               \* retention policies that pass validate()
  DefaultPolicy,
  MaxRevision,            \* MAX_REVISION
  MaxProcessedCommands    \* MAX_PROCESSED_COMMANDS

ASSUME WorkspaceAssumption ==
  /\ Policies \subseteq [max_items : Nat \ {0}, max_age : Nat \ {0},
                         deduplicate : BOOLEAN]
  /\ DefaultPolicy \in Policies
  /\ NoSource \notin Sources
  /\ MaxRevision \in Nat
  /\ MaxProcessedCommands \in Nat \ {0}

CaptureStates == {"Active", "Paused"}

Items == [item_id : Identifiers, text : Texts, captured_at : Nat, is_pinned : BOOLEAN,
          source : Sources \cup {NoSource}]

IsWorkspace(ws) ==
  /\ ws \in [revision : 0..MaxRevision, capture_state : CaptureStates,
             retention : Policies, search_query : SUBSET Texts,
             excluded : SUBSET Sources, items : Seq(Items),
             processed_commands : Seq(CommandIds)]
  /\ Len(ws.processed_commands) <= MaxProcessedCommands

DefaultWorkspace ==
  [revision |-> 0, capture_state |-> "Paused", retention |-> DefaultPolicy,
   search_query |-> Texts, excluded |-> {}, items |-> <<>>,
   processed_commands |-> <<>>]

\* The positions of the unpinned items.
Unpinned(items) == {i \in DOMAIN items : ~items[i].is_pinned}

HasItem(ws, id) == \E i \in DOMAIN ws.items : ws.items[i].item_id = id

-----------------------------------------------------------------------------
(* Retention.                                                              *)

\* The items at the positions I in their order: retain(), or remove() of the others.
At(items, I) ==
  LET order == CHOOSE f \in [1..Cardinality(I) -> I] :
                 \A k, l \in 1..Cardinality(I) : k < l => f[k] < f[l]
  IN [k \in 1..Cardinality(I) |-> items[order[k]]]

\* Unpinned items past the maximum age go first; an item captured in the future
\* of the clock is kept.
WithinAge(items, policy, now) ==
  {i \in DOMAIN items :
     items[i].is_pinned \/ now - items[i].captured_at <= policy.max_age}

\* Mutated form: items are dropped from the front.
WithinCountFromFront(items, I, policy) ==
  {i \in I : \/ items[i].is_pinned
             \/ Cardinality({j \in I \cap Unpinned(items) : j >= i}) <= policy.max_items}

\* Of the items left, unpinned ones go from the end until the maximum number is left.
WithinCount(items, I, policy) ==
  {i \in I : \/ items[i].is_pinned
             \/ Cardinality({j \in I \cap Unpinned(items) : j <= i}) <= policy.max_items}

\* enforce_retention()
EnforceRetention(ws, now) ==
  [ws EXCEPT !.items =
     At(@, WithinCount(@, WithinAge(@, ws.retention, now), ws.retention))]

-----------------------------------------------------------------------------
(* The actions of a command, on workspaces that accept it.                 *)

WithCapture(ws, state) == [ws EXCEPT !.capture_state = state]

WithSearch(ws, query) == [ws EXCEPT !.search_query = query]

\* item_mut() finds the first item of the identifier.
SetPin(ws, id, pin) ==
  [ws EXCEPT !.items[SelectInSeq(ws.items, LAMBDA item : item.item_id = id)].is_pinned
     = pin]

Pin(ws, id) == SetPin(ws, id, TRUE)

\* Mutated form: the limits are not enforced.
UnpinWithoutRetention(ws, id, now) == SetPin(ws, id, FALSE)

\* Taking a pin off may put the item, or another, over the limits.
Unpin(ws, id, now) == EnforceRetention(SetPin(ws, id, FALSE), now)

Delete(ws, id) ==
  [ws EXCEPT !.items = At(@, {i \in DOMAIN @ : @[i].item_id # id})]

ClearUnpinned(ws) == [ws EXCEPT !.items = At(@, DOMAIN @ \ Unpinned(@))]

WithRetention(ws, policy, now) ==
  EnforceRetention([ws EXCEPT !.retention = policy], now)

WithExclusions(ws, sources) == [ws EXCEPT !.excluded = sources]

\* ingest_text() is refused while capture is paused and from excluded sources.
CanIngest(ws, source) ==
  /\ ws.capture_state = "Active"
  /\ source \notin ws.excluded

\* Mutated form: the moved item is made anew.
IngestAnew(ws, id, text, source, captured_at, now) ==
  LET same == SelectInSeq(ws.items, LAMBDA item : item.text = text)
      item == [item_id |-> id, text |-> text, captured_at |-> captured_at,
               is_pinned |-> FALSE, source |-> source]
  IN EnforceRetention(
       [ws EXCEPT !.items =
          <<item>> \o (IF ws.retention.deduplicate /\ same # 0
                       THEN RemoveAt(@, same) ELSE @)], now)

\* Mutated form: only unpinned items are searched for the text.
IngestBesidePinned(ws, id, text, source, captured_at, now) ==
  LET same == SelectInSeq(ws.items, LAMBDA item : item.text = text /\ ~item.is_pinned)
      item == [item_id |-> id, text |-> text, captured_at |-> captured_at,
               is_pinned |-> FALSE, source |-> source]
  IN EnforceRetention(
       [ws EXCEPT !.items =
          <<item>> \o (IF ws.retention.deduplicate /\ same # 0
                       THEN RemoveAt(@, same) ELSE @)], now)

\* While deduplicating, a text that is already there moves its first item to
\* the front, which keeps its identity and its pin; any other text makes a new
\* unpinned item there.  The identifier and the time of the capture are the
\* sender's and compared with nothing.
Ingest(ws, id, text, source, captured_at, now) ==
  LET same == SelectInSeq(ws.items, LAMBDA item : item.text = text)
      item == [item_id |-> id, text |-> text, captured_at |-> captured_at,
               is_pinned |-> FALSE, source |-> source]
      moved == [ws.items[same] EXCEPT !.captured_at = captured_at, !.source = source]
  IN EnforceRetention(
       [ws EXCEPT !.items = IF ws.retention.deduplicate /\ same # 0
                            THEN <<moved>> \o RemoveAt(@, same)
                            ELSE <<item>> \o @], now)

-----------------------------------------------------------------------------
(* apply().                                                                *)

\* Mutated form: the expected revision is not compared.
AcceptsAnyRevision(ws, command_id, expected) ==
  /\ command_id \notin ToSet(ws.processed_commands)
  /\ ws.revision < MaxRevision

\* Mutated form: the command is not looked up.
AcceptsRepeats(ws, command_id, expected) ==
  /\ expected = ws.revision
  /\ ws.revision < MaxRevision

\* The guard every command passes before its action is looked at.
Accepts(ws, command_id, expected) ==
  /\ command_id \notin ToSet(ws.processed_commands)
  /\ expected = ws.revision
  /\ ws.revision < MaxRevision

\* Mutated form: commands are remembered for ever.
CommitNeverForgets(ws, command_id) ==
  [ws EXCEPT !.revision = @ + 1,
             !.processed_commands = Append(@, command_id)]

\* What follows the action: the revision advances and the command is remembered
\* among the most recent ones.
Commit(ws, command_id) ==
  [ws EXCEPT !.revision = @ + 1,
             !.processed_commands = IF Len(@) < MaxProcessedCommands
                                    THEN Append(@, command_id)
                                    ELSE Tail(Append(@, command_id))]
=============================================================================
