--------------------------- MODULE WorkspaceProofs ---------------------------
(***************************************************************************)
(* Proofs about the workspace under commands; under commands, sealed       *)
(* snapshots and restarts; and in the desktop app: for any texts,          *)
(* policies, commands, snapshots, clocks and limits.  What the operators   *)
(* do to the items is in WorkspaceLemmas.                                  *)
(***************************************************************************)
EXTENDS WorkspaceSnapshot, ClipboardCapture, WorkspaceLemmas

-----------------------------------------------------------------------------
(* What every action of a command leaves of the workspace.                 *)

WellKept(ws) ==
  /\ IsWorkspace(ws)
  /\ Cardinality(Unpinned(ws.items)) <= ws.retention.max_items

SameGuard(changed, ws) ==
  /\ changed.revision = ws.revision
  /\ changed.processed_commands = ws.processed_commands

AddsNoCopy(changed, ws) ==
  \A text :
    \/ Cardinality(CopiesAmong(changed.items, text)) <= Cardinality(CopiesAmong(ws.items, text))
    \/ CopiesAmong(ws.items, text) = {} /\ Cardinality(CopiesAmong(changed.items, text)) <= 1

KeepsPins(changed, ws, time) ==
  \A i \in 1..Len(ws.items) :
    LET item == ws.items[i] IN
      item.is_pinned =>
        \/ \E k \in 1..Len(changed.items) :
             /\ changed.items[k].item_id = item.item_id
             /\ changed.items[k].text = item.text
             /\ changed.items[k].is_pinned
        \/ changed = Delete(ws, item.item_id)
        \/ changed = Unpin(ws, item.item_id, time)

\* What is captured on the way is a set of at most one text with its time.
TakesFromTheEnd(changed, ws, time, captures) ==
  \A i \in 1..Len(ws.items) :
    LET item == ws.items[i] IN
      \/ item.is_pinned
      \/ HasItem(changed, item.item_id)
      \/ time - item.captured_at > changed.retention.max_age
      \/ \E capture \in captures : /\ capture.text = item.text
                                   /\ time - capture.time > changed.retention.max_age
      \/ changed = Delete(ws, item.item_id)
      \/ changed = ClearUnpinned(ws)
      \/ /\ Cardinality(Unpinned(changed.items)) = changed.retention.max_items
         /\ \A j \in Unpinned(changed.items) :
              \/ \E k \in 1..(i - 1) : ws.items[k].item_id = changed.items[j].item_id
              \/ j = 1 /\ captures # {}

Follows(changed, ws, time, captures) ==
  /\ IsWorkspace(changed) /\ SameGuard(changed, ws)
  /\ Cardinality(Unpinned(changed.items)) <= changed.retention.max_items
  /\ ws.retention.deduplicate => AddsNoCopy(changed, ws)
  /\ KeepsPins(changed, ws, time)
  /\ TakesFromTheEnd(changed, ws, time, captures)

\* Every action but a capture: items go, or their pins change.
Loses(changed, ws, time) ==
  /\ Follows(changed, ws, time, {})
  /\ ComesFrom(changed.items, ws.items)
  /\ NewestFirst(ws.items, time) => NewestFirst(changed.items, time)

\* The capture of a text at the time "at" under the identifier id.
Gains(changed, ws, id, text, at, time) ==
  /\ Follows(changed, ws, time, {[text |-> text, time |-> at]})
  /\ Distinct(ws.items) /\ (\A i \in 1..Len(ws.items) : ws.items[i].item_id # id)
       => Distinct(changed.items)
  /\ id \in Nat /\ IdsBelow(ws.items, id) => IdsBelow(changed.items, id + 1)
  /\ at = time /\ NewestFirst(ws.items, time) => NewestFirst(changed.items, time)
  /\ \A other : \/ other = text
                \/ Cardinality(CopiesAmong(changed.items, other))
                     <= Cardinality(CopiesAmong(ws.items, other))

LEMMA FieldsOfWorkspace ==
  ASSUME NEW ws, IsWorkspace(ws)
  PROVE  /\ ws.items \in Seq(Items) /\ Len(ws.items) \in Nat
         /\ DOMAIN ws.items = 1..Len(ws.items)
         /\ \A i \in 1..Len(ws.items) :
              /\ ws.items[i] \in Items
              /\ ws.items[i].captured_at \in Nat /\ ws.items[i].is_pinned \in BOOLEAN
         /\ ws.revision \in Nat
         /\ ws.retention \in Policies /\ ws.retention.max_items \in Nat
         /\ Cardinality(Unpinned(ws.items)) \in Nat
  <1>1. ws.items \in Seq(Items) /\ ws.revision \in 0..MaxRevision /\ ws.retention \in Policies
    BY DEF IsWorkspace
  <1>2. ws.retention \in [max_items : Nat \ {0}, max_age : Nat \ {0}, deduplicate : BOOLEAN]
    BY <1>1, WorkspaceAssumption
  <1>3. Len(ws.items) \in Nat /\ DOMAIN ws.items = 1..Len(ws.items)
    BY <1>1, LenProperties
  <1>4. \A i \in 1..Len(ws.items) : ws.items[i] \in Items
    BY <1>1, ElementOfSeq
  <1>5. Unpinned(ws.items) \in SUBSET DOMAIN ws.items
    BY DEF Unpinned
  <1>6. Cardinality(Unpinned(ws.items)) \in Nat
    BY <1>1, <1>5, Positions
  <1> QED
    BY <1>1, <1>2, <1>3, <1>4, <1>6, WorkspaceAssumption DEF Items

LEMMA ItemsReplaced ==
  ASSUME NEW ws, IsWorkspace(ws), NEW t \in Seq(Items)
  PROVE  LET changed == [ws EXCEPT !.items = t] IN
           /\ IsWorkspace(changed) /\ SameGuard(changed, ws)
           /\ changed.items = t /\ changed.retention = ws.retention
  BY DEF IsWorkspace, SameGuard

LEMMA IdsStayBelow ==
  ASSUME NEW ws, IsWorkspace(ws), IdsBelow(ws.items, ws.revision)
  PROVE  IdsBelow(ws.items, ws.revision + 1)
  <1>1. ws.revision \in Nat
    BY FieldsOfWorkspace
  <1>2. \A n \in Nat : \A x \in 0..(n - 1) : x \in 0..(n + 1 - 1)
    OBVIOUS
  <1> QED
    BY <1>1, <1>2 DEF IdsBelow

\* Retention, as Retained has it.
LEMMA Enforced ==
  ASSUME NEW ws, IsWorkspace(ws), NEW time \in Nat
  PROVE  LET r == EnforceRetention(ws, time) IN
           /\ IsWorkspace(r) /\ SameGuard(r, ws) /\ r.retention = ws.retention
           /\ r.items \in Seq(Items) /\ ComesFrom(r.items, ws.items)
           /\ Cardinality(Unpinned(r.items)) <= r.retention.max_items
           /\ \A i \in 1..Len(ws.items) :
                ws.items[i].is_pinned =>
                  \E k \in 1..Len(r.items) : r.items[k] = ws.items[i]
           /\ Cardinality(Unpinned(ws.items)) <= ws.retention.max_items
                => r.items = At(ws.items, WithinAge(ws.items, ws.retention, time))
           /\ NewestFirst(ws.items, time) => NewestFirst(r.items, time)
           /\ \A i \in 1..Len(ws.items) :
                \/ \E k \in 1..Len(r.items) : r.items[k] = ws.items[i]
                \/ time - ws.items[i].captured_at > ws.retention.max_age
                \/ IsFull(r.items, ws.items, i, ws.retention)
  <1> DEFINE t == At(ws.items, Kept(ws.items, ws.retention, time))
             r == EnforceRetention(ws, time)
  <1>1. ws.items \in Seq(Items) /\ ws.retention \in Policies /\ time \in Int
    BY FieldsOfWorkspace
  <1>2. EnforceRetention(ws, time) = [ws EXCEPT !.items = t]
    BY DEF EnforceRetention, Kept
  <1>3. /\ t \in Seq(Items) /\ ComesFrom(t, ws.items)
        /\ Cardinality(Unpinned(t)) <= ws.retention.max_items
        /\ \A i \in 1..Len(ws.items) :
             ws.items[i].is_pinned => \E k \in 1..Len(t) : t[k] = ws.items[i]
        /\ Cardinality(Unpinned(ws.items)) <= ws.retention.max_items
             => t = At(ws.items, WithinAge(ws.items, ws.retention, time))
        /\ NewestFirst(ws.items, time) => NewestFirst(t, time)
        /\ \A i \in 1..Len(ws.items) :
             \/ \E k \in 1..Len(t) : t[k] = ws.items[i]
             \/ time - ws.items[i].captured_at > ws.retention.max_age
             \/ IsFull(t, ws.items, i, ws.retention)
    BY <1>1, Retained
  <1> HIDE DEF t
  <1>4. /\ IsWorkspace(r) /\ SameGuard(r, ws) /\ r.items = t /\ r.retention = ws.retention
    BY <1>2, <1>3, ItemsReplaced
  <1> HIDE DEF r
  <1> QED
    BY <1>3, <1>4 DEF r

\* For the actions that leave the items and the policy alone.
LEMMA SameItemsFollow ==
  ASSUME NEW ws, WellKept(ws), NEW time,
         NEW changed, IsWorkspace(changed), SameGuard(changed, ws),
         changed.items = ws.items, changed.retention = ws.retention
  PROVE  Loses(changed, ws, time)
  <1>1. ws.items \in Seq(Items) /\ DOMAIN ws.items = 1..Len(ws.items)
    BY FieldsOfWorkspace DEF WellKept
  <1>2. AddsNoCopy(changed, ws)
    <2>1. \A text : Cardinality(CopiesAmong(ws.items, text)) \in Nat
      BY <1>1, ComesFromItself, ComesFromAddsNoCopy
    <2> QED
      BY <2>1 DEF AddsNoCopy
  <1>3. KeepsPins(changed, ws, time) /\ TakesFromTheEnd(changed, ws, time, {})
    BY <1>1 DEF KeepsPins, TakesFromTheEnd, HasItem
  <1>4. ComesFrom(changed.items, ws.items)
    BY ComesFromItself
  <1> QED
    BY <1>2, <1>3, <1>4 DEF Loses, Follows, WellKept

\* For those that only lose items, or change what is said of them beside identity and text.
LEMMA ComingFromFollows ==
  ASSUME NEW ws, WellKept(ws), NEW items \in Seq(Items), ComesFrom(items, ws.items)
  PROVE  \A changed : changed.items = items => AddsNoCopy(changed, ws)
  <1>1. ws.items \in Seq(Items)
    BY FieldsOfWorkspace DEF WellKept
  <1>2. \A text : Cardinality(CopiesAmong(items, text)) <= Cardinality(CopiesAmong(ws.items, text))
    BY <1>1, ComesFromAddsNoCopy
  <1> QED
    BY <1>2 DEF AddsNoCopy

\* For those that enforce retention on items at their places.
LEMMA TakenFromTheEnd ==
  ASSUME NEW ws, NEW p, IsWorkspace(p), NEW time \in Nat, Len(p.items) = Len(ws.items),
         \A i \in 1..Len(ws.items) :
           /\ p.items[i].item_id = ws.items[i].item_id
           /\ p.items[i].captured_at = ws.items[i].captured_at
  PROVE  TakesFromTheEnd(EnforceRetention(p, time), ws, time, {})
  <1> DEFINE r == EnforceRetention(p, time)
  <1>1. /\ IsWorkspace(r) /\ r.retention = p.retention
        /\ \A i \in 1..Len(p.items) :
             \/ \E k \in 1..Len(r.items) : r.items[k] = p.items[i]
             \/ time - p.items[i].captured_at > p.retention.max_age
             \/ IsFull(r.items, p.items, i, p.retention)
    BY Enforced
  <1> HIDE DEF r
  <1>2. DOMAIN r.items = 1..Len(r.items) /\ Len(ws.items) \in Nat
    BY <1>1, FieldsOfWorkspace
  <1>3. ASSUME NEW i \in 1..Len(ws.items), IsFull(r.items, p.items, i, p.retention),
               NEW j \in Unpinned(r.items)
        PROVE  \E k \in 1..(i - 1) : ws.items[k].item_id = r.items[j].item_id
    <2>1. PICK k \in 1..(i - 1) : r.items[j] = p.items[k]
      BY <1>3 DEF IsFull
    <2>2. k \in 1..Len(ws.items)
      BY <1>2
    <2> QED
      BY <2>1, <2>2
  <1>4. ASSUME NEW i \in 1..Len(ws.items), NEW k \in 1..Len(r.items), r.items[k] = p.items[i]
        PROVE  HasItem(r, ws.items[i].item_id)
    BY <1>2, <1>4 DEF HasItem
  <1>5. ASSUME NEW i \in 1..Len(ws.items)
        PROVE  \/ HasItem(r, ws.items[i].item_id)
               \/ time - ws.items[i].captured_at > r.retention.max_age
               \/ /\ Cardinality(Unpinned(r.items)) = r.retention.max_items
                  /\ \A j \in Unpinned(r.items) :
                       \E k \in 1..(i - 1) : ws.items[k].item_id = r.items[j].item_id
    <2>1. CASE IsFull(r.items, p.items, i, p.retention)
      BY <2>1, <1>1, <1>3 DEF IsFull
    <2>2. CASE ~IsFull(r.items, p.items, i, p.retention)
      BY <2>2, <1>1, <1>4
    <2> QED
      BY <2>1, <2>2
  <1>6. TakesFromTheEnd(r, ws, time, {})
    BY <1>5 DEF TakesFromTheEnd
  <1> QED
    BY <1>6 DEF r

-----------------------------------------------------------------------------
(* The actions that change the items.                                      *)

\* p is ws with the pin of the item id set.
PinIsSet(p, ws, id, pin) ==
  /\ IsWorkspace(p) /\ SameGuard(p, ws) /\ p.retention = ws.retention
  /\ p.items \in Seq(Items) /\ Len(p.items) = Len(ws.items)
  /\ ComesFrom(p.items, ws.items)
  /\ \A i \in 1..Len(ws.items) :
       /\ p.items[i].item_id = ws.items[i].item_id
       /\ p.items[i].text = ws.items[i].text
       /\ p.items[i].captured_at = ws.items[i].captured_at
       /\ \/ p.items[i].is_pinned = ws.items[i].is_pinned
          \/ p.items[i].is_pinned = pin /\ ws.items[i].item_id = id
  /\ \A time : NewestFirst(ws.items, time) => NewestFirst(p.items, time)

LEMMA PinSet ==
  ASSUME NEW ws, WellKept(ws), NEW id, HasItem(ws, id), NEW pin \in BOOLEAN
  PROVE  PinIsSet(SetPin(ws, id, pin), ws, id, pin)
  <1> DEFINE x == SelectInSeq(ws.items, LAMBDA item : item.item_id = id)
             t == [ws.items EXCEPT ![x].is_pinned = pin]
  <1>1. ws.items \in Seq(Items) /\ IsWorkspace(ws)
    BY FieldsOfWorkspace DEF WellKept
  <1>2. x \in 1..Len(ws.items) /\ ws.items[x].item_id = id
    BY <1>1, FindsId DEF HasItem
  <1>3. SetPin(ws, id, pin) = [ws EXCEPT !.items = t]
    BY DEF SetPin
  <1> HIDE DEF x
  <1>4. Repins(t, ws.items, x, pin)
    BY <1>1, <1>2, Repinned
  <1> HIDE DEF t
  <1>5. LET p == [ws EXCEPT !.items = t] IN
          IsWorkspace(p) /\ SameGuard(p, ws) /\ p.items = t /\ p.retention = ws.retention
    BY <1>1, <1>4, ItemsReplaced DEF Repins
  <1> QED
    BY <1>2, <1>3, <1>4, <1>5 DEF PinIsSet, Repins

LEMMA PinFollows ==
  ASSUME NEW ws, WellKept(ws), NEW id, HasItem(ws, id), NEW time
  PROVE  Loses(Pin(ws, id), ws, time)
  <1> DEFINE p == Pin(ws, id)
  <1>1. /\ IsWorkspace(p) /\ SameGuard(p, ws) /\ p.retention = ws.retention
        /\ p.items \in Seq(Items) /\ Len(p.items) = Len(ws.items)
        /\ ComesFrom(p.items, ws.items)
        /\ \A i \in 1..Len(ws.items) :
             /\ p.items[i].item_id = ws.items[i].item_id
             /\ p.items[i].text = ws.items[i].text
             /\ p.items[i].captured_at = ws.items[i].captured_at
             /\ p.items[i].is_pinned = ws.items[i].is_pinned \/ p.items[i].is_pinned = TRUE
        /\ NewestFirst(ws.items, time) => NewestFirst(p.items, time)
    <2>1. PinIsSet(p, ws, id, TRUE)
      BY PinSet DEF Pin
    <2> HIDE DEF p
    <2> QED
      BY <2>1 DEF PinIsSet
  <1> HIDE DEF p
  <1>2. Cardinality(Unpinned(p.items)) <= p.retention.max_items
    <2>1. /\ Cardinality(Unpinned(ws.items)) <= ws.retention.max_items
          /\ ws.items \in Seq(Items) /\ Unpinned(ws.items) \in SUBSET DOMAIN ws.items
          /\ DOMAIN p.items = 1..Len(ws.items) /\ DOMAIN ws.items = 1..Len(ws.items)
      BY <1>1, FieldsOfWorkspace, LenProperties DEF WellKept, Unpinned
    <2>2. Unpinned(p.items) \in SUBSET Unpinned(ws.items)
      BY <2>1, <1>1 DEF Unpinned
    <2>3. IsFiniteSet(Unpinned(ws.items))
      BY <2>1, Positions
    <2>4. /\ Cardinality(Unpinned(p.items)) <= Cardinality(Unpinned(ws.items))
          /\ Cardinality(Unpinned(p.items)) \in Nat
          /\ Cardinality(Unpinned(ws.items)) \in Nat /\ ws.retention.max_items \in Nat
      BY <2>2, <2>3, <1>1, FS_Subset, FS_CardinalityType, FieldsOfWorkspace DEF WellKept
    <2> QED
      BY <2>1, <2>4, <1>1
  <1>3. AddsNoCopy(p, ws)
    BY <1>1, ComingFromFollows
  <1>4. KeepsPins(p, ws, time)
    BY <1>1 DEF KeepsPins
  <1>5. TakesFromTheEnd(p, ws, time, {})
    <2>1. DOMAIN p.items = 1..Len(ws.items)
      BY <1>1, LenProperties
    <2> QED
      BY <2>1, <1>1 DEF TakesFromTheEnd, HasItem
  <1> QED
    BY <1>1, <1>2, <1>3, <1>4, <1>5 DEF Loses, Follows, p

LEMMA UnpinFollows ==
  ASSUME NEW ws, WellKept(ws), NEW id, HasItem(ws, id), NEW time \in Nat
  PROVE  Loses(Unpin(ws, id, time), ws, time)
  <1> DEFINE p == SetPin(ws, id, FALSE)
             r == EnforceRetention(p, time)
  <1>0. r = Unpin(ws, id, time)
    BY DEF Unpin
  <1>1. /\ IsWorkspace(p) /\ SameGuard(p, ws) /\ p.retention = ws.retention
        /\ p.items \in Seq(Items) /\ Len(p.items) = Len(ws.items)
        /\ ComesFrom(p.items, ws.items)
        /\ \A i \in 1..Len(ws.items) :
             /\ p.items[i].item_id = ws.items[i].item_id
             /\ p.items[i].text = ws.items[i].text
             /\ p.items[i].captured_at = ws.items[i].captured_at
             /\ \/ p.items[i].is_pinned = ws.items[i].is_pinned
                \/ p.items[i].is_pinned = FALSE /\ ws.items[i].item_id = id
        /\ NewestFirst(ws.items, time) => NewestFirst(p.items, time)
    <2>1. PinIsSet(p, ws, id, FALSE)
      BY PinSet
    <2> HIDE DEF p
    <2> QED
      BY <2>1 DEF PinIsSet
  <1> HIDE DEF p
  <1>2. /\ IsWorkspace(r) /\ SameGuard(r, p) /\ r.retention = p.retention
        /\ r.items \in Seq(Items) /\ ComesFrom(r.items, p.items)
        /\ Cardinality(Unpinned(r.items)) <= r.retention.max_items
        /\ \A i \in 1..Len(p.items) :
             p.items[i].is_pinned => \E k \in 1..Len(r.items) : r.items[k] = p.items[i]
        /\ NewestFirst(p.items, time) => NewestFirst(r.items, time)
    BY <1>1, Enforced
  <1>3. TakesFromTheEnd(r, ws, time, {})
    BY <1>1, TakenFromTheEnd
  <1> HIDE DEF r
  <1>4. SameGuard(r, ws)
    BY <1>1, <1>2 DEF SameGuard
  <1>5. ComesFrom(r.items, ws.items)
    BY <1>1, <1>2, ComesFromTransitive
  <1>6. AddsNoCopy(r, ws)
    BY <1>2, <1>5, ComingFromFollows
  <1>7. KeepsPins(r, ws, time)
    <2> SUFFICES ASSUME NEW i \in 1..Len(ws.items), ws.items[i].is_pinned,
                        r # Unpin(ws, ws.items[i].item_id, time)
                 PROVE  \E k \in 1..Len(r.items) :
                          /\ r.items[k].item_id = ws.items[i].item_id
                          /\ r.items[k].text = ws.items[i].text
                          /\ r.items[k].is_pinned
      BY DEF KeepsPins
    <2>1. p.items[i].is_pinned
      BY <1>0, <1>1
    <2>2. PICK k \in 1..Len(r.items) : r.items[k] = p.items[i]
      BY <2>1, <1>1, <1>2
    <2> QED
      BY <2>1, <2>2, <1>1
  <1>8. Loses(r, ws, time)
    BY <1>1, <1>2, <1>3, <1>4, <1>5, <1>6, <1>7 DEF Loses, Follows
  <1> QED
    BY <1>0, <1>8

\* t is what At leaves of items at the positions I.
IsLeft(t, items, I) ==
  /\ t \in Seq(Items) /\ ComesFrom(t, items)
  /\ Cardinality(Unpinned(t)) <= Cardinality(Unpinned(items))
  /\ \A i \in I : \E k \in 1..Len(t) : t[k] = items[i]
  /\ \A k \in 1..Len(t) : \E i \in I : t[k] = items[i]
  /\ \A time : NewestFirst(items, time) => NewestFirst(t, time)

\* What Delete and ClearUnpinned have in common.
LEMMA ItemsLeft ==
  ASSUME NEW ws, WellKept(ws), NEW I \in SUBSET DOMAIN ws.items,
         NEW changed, changed = [ws EXCEPT !.items = At(ws.items, I)]
  PROVE  /\ IsWorkspace(changed) /\ SameGuard(changed, ws)
         /\ Cardinality(Unpinned(changed.items)) <= changed.retention.max_items
         /\ AddsNoCopy(changed, ws)
         /\ IsLeft(changed.items, ws.items, I)
  <1> DEFINE t == At(ws.items, I)
  <1>1. IsWorkspace(ws) /\ ws.items \in Seq(Items)
    BY FieldsOfWorkspace DEF WellKept
  <1>2. IsLeft(t, ws.items, I)
    BY <1>1, AtKeeps DEF IsLeft
  <1> HIDE DEF t
  <1>3. /\ IsWorkspace(changed) /\ SameGuard(changed, ws)
        /\ changed.items = t /\ changed.retention = ws.retention
    BY <1>1, <1>2, ItemsReplaced DEF IsLeft, t
  <1>4. Cardinality(Unpinned(t)) <= ws.retention.max_items
    <2>1. Cardinality(Unpinned(t)) <= Cardinality(Unpinned(ws.items))
      BY <1>2 DEF IsLeft
    <2>2. Cardinality(Unpinned(ws.items)) <= ws.retention.max_items
      BY DEF WellKept
    <2>3. Cardinality(Unpinned(ws.items)) \in Nat /\ ws.retention.max_items \in Nat
      BY <1>1, FieldsOfWorkspace
    <2>4. Cardinality(Unpinned(t)) \in Nat
      BY <1>3, FieldsOfWorkspace
    <2> QED
      BY <2>1, <2>2, <2>3, <2>4
  <1>5. AddsNoCopy(changed, ws)
    BY <1>2, <1>3, ComingFromFollows DEF IsLeft
  <1> QED
    BY <1>2, <1>3, <1>4, <1>5

LEMMA DeleteFollows ==
  ASSUME NEW ws, WellKept(ws), NEW id, NEW time
  PROVE  Loses(Delete(ws, id), ws, time)
  <1> DEFINE changed == Delete(ws, id)
             I == {i \in DOMAIN ws.items : ws.items[i].item_id # id}
  <1>1. I \in SUBSET DOMAIN ws.items /\ DOMAIN ws.items = 1..Len(ws.items)
    BY FieldsOfWorkspace DEF WellKept
  <1>2. changed = [ws EXCEPT !.items = At(ws.items, I)]
    BY DEF Delete
  <1>3. \A i \in 1..Len(ws.items) :
          i \in I \/ changed = Delete(ws, ws.items[i].item_id)
    BY <1>1
  <1> HIDE DEF I, changed
  <1>4. /\ IsWorkspace(changed) /\ SameGuard(changed, ws)
        /\ Cardinality(Unpinned(changed.items)) <= changed.retention.max_items
        /\ AddsNoCopy(changed, ws)
        /\ IsLeft(changed.items, ws.items, I)
    BY <1>1, <1>2, ItemsLeft
  <1>5. \A i \in I : \E k \in 1..Len(changed.items) : changed.items[k] = ws.items[i]
    BY <1>4 DEF IsLeft
  <1>6. KeepsPins(changed, ws, time)
    BY <1>3, <1>5 DEF KeepsPins
  <1>7. TakesFromTheEnd(changed, ws, time, {})
    <2>1. DOMAIN changed.items = 1..Len(changed.items)
      BY <1>4, FieldsOfWorkspace
    <2> QED
      BY <2>1, <1>3, <1>5 DEF TakesFromTheEnd, HasItem
  <1> QED
    BY <1>4, <1>6, <1>7 DEF Loses, Follows, IsLeft, changed

LEMMA ClearFollows ==
  ASSUME NEW ws, WellKept(ws), NEW time
  PROVE  Loses(ClearUnpinned(ws), ws, time)
  <1> DEFINE changed == ClearUnpinned(ws)
             I == DOMAIN ws.items \ Unpinned(ws.items)
  <1>1. I \in SUBSET DOMAIN ws.items /\ DOMAIN ws.items = 1..Len(ws.items)
    BY FieldsOfWorkspace DEF WellKept
  <1>2. changed = [ws EXCEPT !.items = At(ws.items, I)]
    BY DEF ClearUnpinned
  <1>3. \A i \in 1..Len(ws.items) : i \in I <=> ws.items[i].is_pinned
    BY <1>1 DEF Unpinned
  <1> HIDE DEF I, changed
  <1>4. /\ IsWorkspace(changed) /\ SameGuard(changed, ws)
        /\ Cardinality(Unpinned(changed.items)) <= changed.retention.max_items
        /\ AddsNoCopy(changed, ws)
        /\ IsLeft(changed.items, ws.items, I)
    BY <1>1, <1>2, ItemsLeft
  <1>5. \A i \in I : \E k \in 1..Len(changed.items) : changed.items[k] = ws.items[i]
    BY <1>4 DEF IsLeft
  <1>6. KeepsPins(changed, ws, time)
    BY <1>3, <1>5 DEF KeepsPins
  <1>7. TakesFromTheEnd(changed, ws, time, {})
    BY DEF TakesFromTheEnd, changed
  <1> QED
    BY <1>4, <1>6, <1>7 DEF Loses, Follows, IsLeft, changed

LEMMA RetentionFollows ==
  ASSUME NEW ws, WellKept(ws), NEW policy \in Policies, NEW time \in Nat
  PROVE  Loses(WithRetention(ws, policy, time), ws, time)
  <1> DEFINE p == [ws EXCEPT !.retention = policy]
             r == EnforceRetention(p, time)
  <1>0. r = WithRetention(ws, policy, time)
    BY DEF WithRetention
  <1>1. IsWorkspace(p) /\ SameGuard(p, ws) /\ p.items = ws.items
    BY DEF WellKept, IsWorkspace, SameGuard
  <1> HIDE DEF p
  <1>2. /\ IsWorkspace(r) /\ SameGuard(r, p)
        /\ r.items \in Seq(Items) /\ ComesFrom(r.items, p.items)
        /\ Cardinality(Unpinned(r.items)) <= r.retention.max_items
        /\ \A i \in 1..Len(p.items) :
             p.items[i].is_pinned => \E k \in 1..Len(r.items) : r.items[k] = p.items[i]
        /\ NewestFirst(p.items, time) => NewestFirst(r.items, time)
    BY <1>1, Enforced
  <1>3. TakesFromTheEnd(r, ws, time, {})
    BY <1>1, TakenFromTheEnd
  <1> HIDE DEF r
  <1>4. SameGuard(r, ws)
    BY <1>1, <1>2 DEF SameGuard
  <1>5. AddsNoCopy(r, ws)
    BY <1>1, <1>2, ComingFromFollows
  <1>6. KeepsPins(r, ws, time)
    BY <1>1, <1>2 DEF KeepsPins
  <1>7. Loses(r, ws, time)
    BY <1>1, <1>2, <1>3, <1>4, <1>5, <1>6 DEF Loses, Follows
  <1> QED
    BY <1>0, <1>7

\* The items of ws with the captured text in front, before retention.
IsCaptured(t, ws, id, text, at) ==
  /\ t \in Seq(Items)
  /\ Holds(t, ws.items, text, at)
  /\ NewestFirst(ws.items, at) => NewestFirst(t, at)
  /\ Distinct(ws.items) /\ (\A i \in 1..Len(ws.items) : ws.items[i].item_id # id)
       => Distinct(t)
  /\ id \in Nat /\ IdsBelow(ws.items, id) => IdsBelow(t, id + 1)
  /\ \A other :
       \/ Cardinality(CopiesAmong(t, other)) <= Cardinality(CopiesAmong(ws.items, other))
       \/ other = text /\ ~ws.retention.deduplicate
       \/ /\ other = text /\ CopiesAmong(ws.items, other) = {}
          /\ Cardinality(CopiesAmong(t, other)) <= 1

LEMMA IngestCaptures ==
  ASSUME NEW ws, WellKept(ws), NEW id \in Identifiers, NEW text \in Texts,
         NEW source \in Sources \cup {NoSource}, NEW at \in Nat, NEW time \in Nat
  PROVE  \E t : /\ IsCaptured(t, ws, id, text, at)
                /\ Ingest(ws, id, text, source, at, time)
                     = EnforceRetention([ws EXCEPT !.items = t], time)
  <1> DEFINE same == SelectInSeq(ws.items, LAMBDA item : item.text = text)
             item == [item_id |-> id, text |-> text, captured_at |-> at,
                      is_pinned |-> FALSE, source |-> source]
             moved == [ws.items[same] EXCEPT !.captured_at = at, !.source = source]
             first == <<moved>> \o RemoveAt(ws.items, same)
             added == <<item>> \o ws.items
             dedup == ws.retention.deduplicate
             t == IF dedup /\ same # 0 THEN first ELSE added
  <1>1. Ingest(ws, id, text, source, at, time) = EnforceRetention([ws EXCEPT !.items = t], time)
    BY DEF Ingest
  <1>2. ws.items \in Seq(Items)
    BY FieldsOfWorkspace DEF WellKept
  <1>3. \/ same \in 1..Len(ws.items) /\ same # 0 /\ ws.items[same].text = text
        \/ same = 0 /\ CopiesAmong(ws.items, text) = {}
    BY <1>2, FindsText
  <1> HIDE DEF same
  <1>4. ASSUME dedup, same # 0 PROVE IsCaptured(first, ws, id, text, at)
    <2>1. same \in 1..Len(ws.items) /\ ws.items[same].text = text
      BY <1>3, <1>4
    <2>2. /\ first \in Seq(Items) /\ ComesFrom(first, ws.items)
          /\ Holds(first, ws.items, text, at)
          /\ NewestFirst(ws.items, at) => NewestFirst(first, at)
      BY <2>1, <1>2, Recaptured
    <2> HIDE DEF first
    <2>3. /\ Distinct(ws.items) => Distinct(first)
          /\ IdsBelow(ws.items, id) => IdsBelow(first, id)
      BY <2>2, ComesFromKeepsIds
    <2>4. \A other :
            Cardinality(CopiesAmong(first, other)) <= Cardinality(CopiesAmong(ws.items, other))
      BY <2>2, <1>2, ComesFromAddsNoCopy
    <2>5. \A n \in Nat : \A x \in 0..(n - 1) : x \in 0..(n + 1 - 1)
      OBVIOUS
    <2>6. id \in Nat /\ IdsBelow(first, id) => IdsBelow(first, id + 1)
      BY <2>5 DEF IdsBelow
    <2> QED
      BY <2>2, <2>3, <2>4, <2>6 DEF IsCaptured
  <1>5. ASSUME ~(dedup /\ same # 0) PROVE IsCaptured(added, ws, id, text, at)
    <2>1. /\ item \in Items /\ item.captured_at = at /\ item.item_id = id
          /\ item.text = text
      BY DEF Items
    <2> HIDE DEF item
    <2>2. /\ added \in Seq(Items)
          /\ Holds(added, ws.items, text, at)
          /\ NewestFirst(ws.items, at) => NewestFirst(added, at)
          /\ Distinct(ws.items) /\ (\A i \in 1..Len(ws.items) : ws.items[i].item_id # id)
               => Distinct(added)
          /\ id \in Nat /\ IdsBelow(ws.items, id) => IdsBelow(added, id + 1)
          /\ \A other :
               \/ Cardinality(CopiesAmong(added, other)) <= Cardinality(CopiesAmong(ws.items, other))
               \/ other = text /\ CopiesAmong(ws.items, other) # {}
               \/ other = text /\ Cardinality(CopiesAmong(added, other)) <= 1
      BY <2>1, <1>2, Added
    <2> HIDE DEF added
    <2>3. ASSUME NEW other
          PROVE  \/ Cardinality(CopiesAmong(added, other)) <= Cardinality(CopiesAmong(ws.items, other))
                 \/ other = text /\ ~dedup
                 \/ /\ other = text /\ CopiesAmong(ws.items, other) = {}
                    /\ Cardinality(CopiesAmong(added, other)) <= 1
      BY <2>2, <1>3, <1>5
    <2> QED
      BY <2>2, <2>3 DEF IsCaptured
  <1>6. IsCaptured(t, ws, id, text, at)
    BY <1>4, <1>5
  <1> QED
    BY <1>1, <1>6

LEMMA IngestFollows ==
  ASSUME NEW ws, WellKept(ws), NEW id \in Identifiers, NEW text \in Texts,
         NEW source \in Sources \cup {NoSource}, NEW at \in Nat, NEW time \in Nat
  PROVE  Gains(Ingest(ws, id, text, source, at, time), ws, id, text, at, time)
  <1>1. PICK t : /\ IsCaptured(t, ws, id, text, at)
                 /\ Ingest(ws, id, text, source, at, time)
                      = EnforceRetention([ws EXCEPT !.items = t], time)
    BY IngestCaptures
  <1> DEFINE p == [ws EXCEPT !.items = t]
             r == EnforceRetention(p, time)
  <1>2. IsWorkspace(p) /\ SameGuard(p, ws) /\ p.items = t /\ p.retention = ws.retention
    BY <1>1, ItemsReplaced DEF WellKept, IsCaptured
  <1> HIDE DEF p
  <1>3. /\ IsWorkspace(r) /\ SameGuard(r, p) /\ r.retention = ws.retention
        /\ r.items \in Seq(Items) /\ ComesFrom(r.items, t)
        /\ Cardinality(Unpinned(r.items)) <= r.retention.max_items
        /\ \A i \in 1..Len(t) :
             t[i].is_pinned => \E k \in 1..Len(r.items) : r.items[k] = t[i]
        /\ NewestFirst(t, time) => NewestFirst(r.items, time)
        /\ \A i \in 1..Len(t) :
             \/ \E k \in 1..Len(r.items) : r.items[k] = t[i]
             \/ time - t[i].captured_at > r.retention.max_age
             \/ IsFull(r.items, t, i, r.retention)
    BY <1>2, Enforced
  <1> HIDE DEF r
  <1>4. SameGuard(r, ws)
    BY <1>2, <1>3 DEF SameGuard
  <1>5. /\ Distinct(t) => Distinct(r.items)
        /\ IdsBelow(t, id + 1) => IdsBelow(r.items, id + 1)
    BY <1>3, ComesFromKeepsIds
  <1>6. ASSUME NEW other
        PROVE  \/ Cardinality(CopiesAmong(r.items, other))
                    <= Cardinality(CopiesAmong(ws.items, other))
               \/ other = text /\ ~ws.retention.deduplicate
               \/ /\ other = text /\ CopiesAmong(ws.items, other) = {}
                  /\ Cardinality(CopiesAmong(r.items, other)) <= 1
    <2>1. /\ Cardinality(CopiesAmong(r.items, other)) <= Cardinality(CopiesAmong(t, other))
          /\ Cardinality(CopiesAmong(r.items, other)) \in Nat
          /\ Cardinality(CopiesAmong(t, other)) \in Nat
      BY <1>1, <1>3, ComesFromAddsNoCopy DEF IsCaptured
    <2>2. Cardinality(CopiesAmong(ws.items, other)) \in Nat
      BY FieldsOfWorkspace, ComesFromItself, ComesFromAddsNoCopy DEF WellKept
    <2>3. \/ Cardinality(CopiesAmong(t, other)) <= Cardinality(CopiesAmong(ws.items, other))
          \/ other = text /\ ~ws.retention.deduplicate
          \/ /\ other = text /\ CopiesAmong(ws.items, other) = {}
             /\ Cardinality(CopiesAmong(t, other)) <= 1
      BY <1>1 DEF IsCaptured
    <2> QED
      BY <2>1, <2>2, <2>3
  <1>7. ws.retention.deduplicate => AddsNoCopy(r, ws)
    BY <1>6 DEF AddsNoCopy
  <1>8. KeepsPins(r, ws, time)
    <2> SUFFICES ASSUME NEW i \in 1..Len(ws.items), ws.items[i].is_pinned
                 PROVE  \E k \in 1..Len(r.items) :
                          /\ r.items[k].item_id = ws.items[i].item_id
                          /\ r.items[k].text = ws.items[i].text
                          /\ r.items[k].is_pinned
      BY DEF KeepsPins
    <2>1. PICK j \in 1..Len(t) :
            /\ t[j].item_id = ws.items[i].item_id /\ t[j].text = ws.items[i].text
            /\ t[j].is_pinned = ws.items[i].is_pinned
      BY <1>1 DEF IsCaptured, Holds, HoldsAt
    <2>2. PICK k \in 1..Len(r.items) : r.items[k] = t[j]
      BY <2>1, <1>3
    <2> QED
      BY <2>1, <2>2
  <1> DEFINE captures == {[text |-> text, time |-> at]}
  <1>9. TakesFromTheEnd(r, ws, time, captures)
    <2> SUFFICES ASSUME NEW i \in 1..Len(ws.items)
                 PROVE  \/ HasItem(r, ws.items[i].item_id)
                        \/ time - ws.items[i].captured_at > r.retention.max_age
                        \/ ws.items[i].text = text /\ time - at > r.retention.max_age
                        \/ /\ Cardinality(Unpinned(r.items)) = r.retention.max_items
                           /\ \A j \in Unpinned(r.items) :
                                \/ \E k \in 1..(i - 1) :
                                     ws.items[k].item_id = r.items[j].item_id
                                \/ j = 1
      BY DEF TakesFromTheEnd
    <2>1. PICK m \in 1..Len(t) : HoldsAt(t, ws.items, text, at, i, m)
      BY <1>1 DEF IsCaptured, Holds
    <2>2. CASE \E k \in 1..Len(r.items) : r.items[k] = t[m]
      <3>1. DOMAIN r.items = 1..Len(r.items)
        BY <1>3, FieldsOfWorkspace
      <3> QED
        BY <3>1, <2>1, <2>2 DEF HoldsAt, HasItem
    <2>3. CASE time - t[m].captured_at > r.retention.max_age
      BY <2>1, <2>3 DEF HoldsAt
    <2>4. CASE IsFull(r.items, t, m, r.retention)
      <3>1. ASSUME NEW j \in Unpinned(r.items), j # 1
            PROVE  \E k \in 1..(i - 1) : ws.items[k].item_id = r.items[j].item_id
        <4>1. PICK l \in 1..(m - 1) : r.items[j] = t[l] /\ l # 1
          BY <2>4, <3>1 DEF IsFull
        <4>2. l \in 2..(m - 1)
          BY <4>1
        <4> QED
          BY <4>1, <4>2, <2>1 DEF HoldsAt
      <3> QED
        BY <3>1, <2>4 DEF IsFull
    <2> QED
      BY <2>2, <2>3, <2>4, <1>3
  <1>10. at = time /\ NewestFirst(ws.items, time) => NewestFirst(r.items, time)
    BY <1>1, <1>3 DEF IsCaptured
  <1>11. Follows(r, ws, time, captures)
    BY <1>3, <1>4, <1>7, <1>8, <1>9 DEF Follows
  <1>12. Gains(r, ws, id, text, at, time)
    BY <1>1, <1>5, <1>6, <1>10, <1>11 DEF Gains, IsCaptured
  <1> QED
    BY <1>1, <1>12 DEF p, r

-----------------------------------------------------------------------------
(* Commands.                                                               *)

Entries == [command_id : CommandIds, expected : 0..MaxRevision]

\* The history is one command for each revision of the workspace, in their order.
LeadsTo(history, ws) ==
  /\ history \in Seq(Entries)
  /\ Len(history) = ws.revision
  /\ \A k \in 1..Len(history) : history[k].expected = k - 1

CommandInv ==
  /\ WellKept(workspace) /\ LeadsTo(log, workspace)
  /\ now \in 0..MaxTime

LEMMA DefaultIsWellKept ==
  /\ WellKept(DefaultWorkspace) /\ LeadsTo(<<>>, DefaultWorkspace)
  /\ \A time : NewestFirst(DefaultWorkspace.items, time)
  <1>1. IsWorkspace(DefaultWorkspace)
    <2>1. /\ 0 \in 0..MaxRevision /\ "Paused" \in CaptureStates /\ DefaultPolicy \in Policies
          /\ Texts \in SUBSET Texts /\ {} \in SUBSET Sources
          /\ <<>> \in Seq(Items) /\ <<>> \in Seq(CommandIds)
          /\ Len(<<>>) <= MaxProcessedCommands
      BY WorkspaceAssumption DEF CaptureStates
    <2> QED
      BY <2>1 DEF IsWorkspace, DefaultWorkspace
  <1>2. DefaultWorkspace.items = <<>> /\ DefaultWorkspace.revision = 0
    BY DEF DefaultWorkspace
  <1>3. Unpinned(<<>>) = {}
    BY DEF Unpinned
  <1>4. Cardinality(Unpinned(DefaultWorkspace.items)) <= DefaultWorkspace.retention.max_items
    <2>1. DefaultWorkspace.retention.max_items \in Nat
      BY <1>1, FieldsOfWorkspace
    <2>2. Cardinality(Unpinned(DefaultWorkspace.items)) = 0
      BY <1>2, <1>3, FS_EmptySet
    <2> QED
      BY <2>1, <2>2
  <1>5. Len(<<>>) = 0 /\ <<>> \in Seq(Entries) /\ 1..0 = {}
    OBVIOUS
  <1> QED
    BY <1>1, <1>2, <1>4, <1>5 DEF WellKept, LeadsTo, Distinct, IdsBelow, NewestFirst

\* The captures of a step are those of a command that brings one of the identifiers.
CapturedBy(c, r, ids, captures) ==
  \A capture \in captures :
    /\ capture.time \in 0..MaxTime
    /\ \E id \in ids, source \in Sources \cup {NoSource} :
         capture.text \in Texts /\ CaptureText(c, r, id, capture.text, source, capture.time)

\* Whatever a command does goes through Apply.
LEMMA CommandApplies ==
  ASSUME CommandInv, NEW c \in CommandIds, NEW r \in 0..MaxRevision,
         NEW ids \in SUBSET Identifiers, Command(c, r, ids)
  PROVE  \E changed, captures :
           /\ Apply(c, r, changed)
           /\ Follows(changed, workspace, now, captures)
           /\ CapturedBy(c, r, ids, captures)
           /\ \/ Loses(changed, workspace, now)
              \/ \E id \in ids, text \in Texts, at \in 0..MaxTime :
                   Gains(changed, workspace, id, text, at, now)
  <1>1. WellKept(workspace) /\ now \in Nat /\ IsWorkspace(workspace)
    BY CommandsAssumption DEF CommandInv, WellKept
  <1>2. \A id \in ItemIds : HasItem(workspace, id)
    BY DEF ItemIds, HasItem
  <1> DEFINE Applies(changed) == Apply(c, r, changed) /\ Loses(changed, workspace, now)
  <1>3. CASE SetCapture(c, r)
    <2>1. PICK state \in CaptureStates : Apply(c, r, WithCapture(workspace, state))
      BY <1>3 DEF SetCapture
    <2> DEFINE changed == WithCapture(workspace, state)
    <2>2. /\ IsWorkspace(changed) /\ SameGuard(changed, workspace)
          /\ changed.items = workspace.items /\ changed.retention = workspace.retention
      BY <1>1 DEF WithCapture, IsWorkspace, SameGuard
    <2>3. Applies(changed)
      BY <2>1, <2>2, <1>1, SameItemsFollow
    <2> QED
      BY <2>3 DEF Loses, CapturedBy
  <1>4. CASE SetSearch(c, r)
    <2>1. PICK query \in Queries : Apply(c, r, WithSearch(workspace, query))
      BY <1>4 DEF SetSearch
    <2> DEFINE changed == WithSearch(workspace, query)
    <2>2. query \in SUBSET Texts
      BY CommandsAssumption
    <2>3. /\ IsWorkspace(changed) /\ SameGuard(changed, workspace)
          /\ changed.items = workspace.items /\ changed.retention = workspace.retention
      BY <2>2, <1>1 DEF WithSearch, IsWorkspace, SameGuard
    <2>4. Applies(changed)
      BY <2>1, <2>3, <1>1, SameItemsFollow
    <2> QED
      BY <2>4 DEF Loses, CapturedBy
  <1>5. CASE PinItem(c, r)
    <2>1. PICK id \in ItemIds : Apply(c, r, Pin(workspace, id))
      BY <1>5 DEF PinItem
    <2>2. Applies(Pin(workspace, id))
      BY <1>1, <1>2, <2>1, PinFollows
    <2> QED
      BY <2>2 DEF Loses, CapturedBy
  <1>6. CASE UnpinItem(c, r)
    <2>1. PICK id \in ItemIds : Apply(c, r, Unpin(workspace, id, now))
      BY <1>6 DEF UnpinItem
    <2>2. Applies(Unpin(workspace, id, now))
      BY <1>1, <1>2, <2>1, UnpinFollows
    <2> QED
      BY <2>2 DEF Loses, CapturedBy
  <1>7. CASE DeleteItem(c, r)
    <2>1. PICK id \in ItemIds : Apply(c, r, Delete(workspace, id))
      BY <1>7 DEF DeleteItem
    <2>2. Applies(Delete(workspace, id))
      BY <1>1, <2>1, DeleteFollows
    <2> QED
      BY <2>2 DEF Loses, CapturedBy
  <1>8. CASE ClearUnpinnedItems(c, r)
    <2>1. Applies(ClearUnpinned(workspace))
      BY <1>1, <1>8, ClearFollows DEF ClearUnpinnedItems
    <2> QED
      BY <2>1 DEF Loses, CapturedBy
  <1>9. CASE SetRetention(c, r)
    <2>1. PICK policy \in Policies : Apply(c, r, WithRetention(workspace, policy, now))
      BY <1>9 DEF SetRetention
    <2>2. Applies(WithRetention(workspace, policy, now))
      BY <1>1, <2>1, RetentionFollows
    <2> QED
      BY <2>2 DEF Loses, CapturedBy
  <1>10. CASE SetSourceExclusions(c, r)
    <2>1. PICK sources \in SUBSET Sources : Apply(c, r, WithExclusions(workspace, sources))
      BY <1>10 DEF SetSourceExclusions
    <2> DEFINE changed == WithExclusions(workspace, sources)
    <2>2. /\ IsWorkspace(changed) /\ SameGuard(changed, workspace)
          /\ changed.items = workspace.items /\ changed.retention = workspace.retention
      BY <1>1 DEF WithExclusions, IsWorkspace, SameGuard
    <2>3. Applies(changed)
      BY <2>1, <2>2, <1>1, SameItemsFollow
    <2> QED
      BY <2>3 DEF Loses, CapturedBy
  <1>11. CASE IngestText(c, r, ids)
    <2>1. PICK id \in ids, text \in Texts, source \in Sources \cup {NoSource},
               at \in 0..MaxTime : CaptureText(c, r, id, text, source, at)
      BY <1>11 DEF IngestText
    <2> DEFINE changed == Ingest(workspace, id, text, source, at, now)
               captures == {[text |-> text, time |-> at]}
    <2>2. Apply(c, r, changed)
      BY <2>1 DEF CaptureText
    <2>3. Gains(changed, workspace, id, text, at, now)
      BY <1>1, CommandsAssumption, IngestFollows
    <2> HIDE DEF changed
    <2>4. CapturedBy(c, r, ids, captures)
      BY <2>1 DEF CapturedBy
    <2>5. Follows(changed, workspace, now, captures)
      BY <2>3 DEF Gains
    <2> QED
      BY <2>2, <2>3, <2>4, <2>5
  <1> QED
    BY <1>3, <1>4, <1>5, <1>6, <1>7, <1>8, <1>9, <1>10, <1>11 DEF Command

\* The list of remembered commands after one more: grown, or moved up by one.
Grown(q, p, c) ==
  /\ Len(p) < MaxProcessedCommands
  /\ Len(q) = Len(p) + 1
  /\ \A i \in 1..Len(p) : q[i] = p[i]
  /\ q[Len(p) + 1] = c

MovedUp(q, p, c) ==
  /\ Len(p) >= MaxProcessedCommands
  /\ Len(q) = Len(p)
  /\ \A i \in 1..Len(p) : i < Len(p) => q[i] = p[i + 1]
  /\ q[Len(p)] = c

LEMMA CommitRemembers ==
  ASSUME NEW ws, IsWorkspace(ws), NEW c \in CommandIds
  PROVE  LET p == ws.processed_commands
             q == Commit(ws, c).processed_commands
         IN /\ q \in Seq(CommandIds) /\ Len(q) <= MaxProcessedCommands
            /\ Grown(q, p, c) \/ MovedUp(q, p, c)
  <1> DEFINE p == ws.processed_commands
             a == Append(p, c)
  <1>0. MaxProcessedCommands \in Nat \ {0}
    BY WorkspaceAssumption
  <1>1. p \in Seq(CommandIds) /\ Len(p) \in Nat /\ Len(p) <= MaxProcessedCommands
    BY LenProperties DEF IsWorkspace
  <1>2. Commit(ws, c).processed_commands = IF Len(p) < MaxProcessedCommands THEN a ELSE Tail(a)
    BY DEF Commit, IsWorkspace
  <1> HIDE DEF p
  <1>3. /\ a \in Seq(CommandIds) /\ Len(a) = Len(p) + 1
        /\ \A i \in 1..Len(p) : a[i] = p[i]
        /\ a[Len(p) + 1] = c
    BY <1>1, AppendProperties
  <1>4. CASE Len(p) < MaxProcessedCommands
    <2>1. Grown(a, p, c) /\ Len(a) <= MaxProcessedCommands
      BY <1>0, <1>1, <1>3, <1>4 DEF Grown
    <2> QED
      BY <1>2, <1>3, <1>4, <2>1 DEF p
  <1>5. CASE ~(Len(p) < MaxProcessedCommands)
    <2>1. a # <<>>
      BY <1>1, <1>3, EmptySeq
    <2>2. /\ Tail(a) \in Seq(CommandIds) /\ Len(Tail(a)) = Len(p)
          /\ \A i \in 1..Len(p) : Tail(a)[i] = a[i + 1]
      BY <2>1, <1>1, <1>3, HeadTailProperties
    <2>3. Len(p) >= MaxProcessedCommands /\ Len(p) \in 1..Len(p)
      BY <1>0, <1>1, <1>5
    <2>4. \A i \in 1..Len(p) : i < Len(p) => Tail(a)[i] = p[i + 1]
      BY <2>2, <1>1, <1>3
    <2>5. MovedUp(Tail(a), p, c)
      BY <2>2, <2>3, <2>4, <1>3 DEF MovedUp
    <2> QED
      BY <1>1, <1>2, <1>5, <2>2, <2>5 DEF p
  <1> QED
    BY <1>4, <1>5

LEMMA CommitKeeps ==
  ASSUME NEW ws, WellKept(ws), NEW changed, NEW time, NEW captures,
         Follows(changed, ws, time, captures),
         ws.revision < MaxRevision, NEW c \in CommandIds
  PROVE  LET done == Commit(changed, c) IN
           /\ WellKept(done) /\ done.items = changed.items
           /\ done.retention = changed.retention /\ done.revision = ws.revision + 1
  <1> DEFINE done == Commit(changed, c)
             q == done.processed_commands
             n == ws.revision + 1
  <1>1. /\ IsWorkspace(changed) /\ changed.revision = ws.revision
        /\ ws.revision \in Nat /\ MaxRevision \in Nat
    BY FieldsOfWorkspace, WorkspaceAssumption DEF Follows, SameGuard, WellKept
  <1>2. q \in Seq(CommandIds) /\ Len(q) <= MaxProcessedCommands
    BY <1>1, CommitRemembers
  <1>3. n \in 0..MaxRevision
    BY <1>1
  <1>4. done = [changed EXCEPT !.revision = n, !.processed_commands = q]
    BY <1>1 DEF Commit, IsWorkspace
  <1> HIDE DEF done, q, n
  <1>5. IsWorkspace([changed EXCEPT !.revision = n, !.processed_commands = q])
    BY <1>1, <1>2, <1>3 DEF IsWorkspace
  <1>6. /\ done.items = changed.items /\ done.retention = changed.retention
        /\ done.revision = n
    BY <1>1, <1>4 DEF IsWorkspace
  <1>7. WellKept(done)
    BY <1>4, <1>5, <1>6 DEF WellKept, Follows, n
  <1> QED
    BY <1>6, <1>7 DEF done, n

LEMMA ApplyKeeps ==
  ASSUME CommandInv, NEW c \in CommandIds, NEW r \in 0..MaxRevision, NEW changed,
         NEW captures, Follows(changed, workspace, now, captures), Apply(c, r, changed)
  PROVE  /\ CommandInv' /\ workspace'.items = changed.items
         /\ workspace'.retention = changed.retention
         /\ workspace'.revision = workspace.revision + 1
  <1> DEFINE entry == [command_id |-> c, expected |-> r]
  <1>1. /\ r = workspace.revision /\ workspace.revision < MaxRevision
        /\ workspace' = Commit(changed, c)
        /\ log' = Append(log, entry) /\ now' = now
    BY DEF Apply, Accepts
  <1>2. WellKept(workspace) /\ workspace.revision \in Nat
    BY FieldsOfWorkspace DEF CommandInv, WellKept
  <1>4. /\ WellKept(workspace') /\ workspace'.items = changed.items
        /\ workspace'.retention = changed.retention
        /\ workspace'.revision = workspace.revision + 1
    BY <1>1, <1>2, CommitKeeps
  <1>6. /\ log \in Seq(Entries) /\ entry \in Entries /\ Len(log) = workspace.revision
        /\ \A k \in 1..Len(log) : log[k].expected = k - 1
    BY DEF CommandInv, LeadsTo, Entries
  <1>7. /\ log' \in Seq(Entries) /\ Len(log') = Len(log) + 1
        /\ \A k \in 1..Len(log) : log'[k] = log[k]
        /\ log'[Len(log) + 1] = entry
    BY <1>1, <1>6, AppendProperties
  <1>8. ASSUME NEW k \in 1..Len(log') PROVE log'[k].expected = k - 1
    <2>1. CASE k = Len(log) + 1
      BY <2>1, <1>1, <1>2, <1>6, <1>7
    <2>2. CASE k # Len(log) + 1
      <3>1. k \in 1..Len(log)
        BY <2>2, <1>2, <1>6, <1>7
      <3> QED
        BY <3>1, <1>6, <1>7
    <2> QED
      BY <2>1, <2>2
  <1>9. LeadsTo(log', workspace')
    BY <1>4, <1>6, <1>7, <1>8 DEF LeadsTo
  <1> QED
    BY <1>1, <1>4, <1>9 DEF CommandInv

LEMMA TickKeeps ==
  ASSUME CommandInv, Tick
  PROVE  CommandInv'
  <1>1. now' \in 0..MaxTime
    BY CommandsAssumption DEF Tick, CommandInv
  <1> QED
    BY <1>1 DEF Tick, CommandInv

LEMMA CommandStepKeeps ==
  ASSUME CommandInv, NEW ids \in SUBSET Identifiers,
         \E c \in CommandIds, r \in 0..MaxRevision : Command(c, r, ids)
  PROVE  CommandInv'
  <1>1. PICK c \in CommandIds, r \in 0..MaxRevision : Command(c, r, ids)
    OBVIOUS
  <1>2. PICK changed, captures :
          Apply(c, r, changed) /\ Follows(changed, workspace, now, captures)
    BY <1>1, CommandApplies
  <1> QED
    BY <1>2, ApplyKeeps

LEMMA NextStepKeeps == CommandInv /\ [Next]_vars => CommandInv'
  <1> SUFFICES ASSUME CommandInv, [Next]_vars PROVE CommandInv'
    OBVIOUS
  <1>1. CASE \E c \in CommandIds, r \in 0..MaxRevision : Command(c, r, Identifiers)
    <2>1. Identifiers \in SUBSET Identifiers
      OBVIOUS
    <2> QED
      BY <1>1, <2>1, CommandStepKeeps
  <1>2. CASE Tick
    BY <1>2, TickKeeps
  <1>3. CASE UNCHANGED vars
    BY <1>3 DEF vars, CommandInv
  <1> QED
    BY <1>1, <1>2, <1>3 DEF Next

\* What is remembered is the end of the log: all of it, or the last
\* MaxProcessedCommands entries.
Remembers ==
  LET p == workspace.processed_commands IN
    /\ Len(p) <= Len(log)
    /\ Len(p) = Len(log) \/ Len(p) = MaxProcessedCommands
    /\ \A i \in 1..Len(p) : p[i] = log[Len(log) - Len(p) + i].command_id

Apart ==
  \A i, j \in 1..Len(log) :
    i < j /\ j - i <= MaxProcessedCommands => log[i].command_id # log[j].command_id

Inv == CommandInv /\ Remembers /\ Apart

LEMMA InitInv == Init => Inv
  <1> SUFFICES ASSUME Init PROVE Inv
    OBVIOUS
  <1>1. workspace = DefaultWorkspace /\ log = <<>> /\ now = 0
    BY DEF Init
  <1>2. CommandInv
    BY <1>1, DefaultIsWellKept, CommandsAssumption DEF CommandInv
  <1>3. workspace.processed_commands = <<>>
    BY <1>1 DEF DefaultWorkspace
  <1>4. Remembers /\ Apart
    BY <1>1, <1>3, WorkspaceAssumption DEF Remembers, Apart
  <1> QED
    BY <1>2, <1>4 DEF Inv

LEMMA ApplyInv ==
  ASSUME Inv, NEW c \in CommandIds, NEW r \in 0..MaxRevision, NEW changed,
         NEW captures, Follows(changed, workspace, now, captures), Apply(c, r, changed)
  PROVE  Inv'
  <1> DEFINE p == workspace.processed_commands
             q == workspace'.processed_commands
             entry == [command_id |-> c, expected |-> r]
  <1>1. /\ log \in Seq(Entries) /\ Len(log) \in Nat
        /\ p \in Seq(CommandIds) /\ Len(p) \in Nat
        /\ Len(p) <= MaxProcessedCommands /\ Len(p) <= Len(log)
        /\ Len(p) = Len(log) \/ Len(p) = MaxProcessedCommands
        /\ \A i \in 1..Len(p) : p[i] = log[Len(log) - Len(p) + i].command_id
    BY LenProperties DEF Inv, CommandInv, WellKept, IsWorkspace, LeadsTo, Remembers
  <1>2. workspace' = Commit(changed, c) /\ log' = Append(log, entry)
    BY DEF Apply
  <1>3. \A i \in 1..Len(p) : p[i] # c
    BY <1>1, LenProperties DEF Apply, Accepts, ToSet
  <1>4. CommandInv' /\ workspace'.items = changed.items /\ now' = now
    BY ApplyKeeps DEF Inv, Apply
  <1>5. Len(q) <= MaxProcessedCommands /\ (Grown(q, p, c) \/ MovedUp(q, p, c))
    BY <1>2, CommitRemembers DEF Follows, SameGuard
  <1>6. entry \in Entries
    BY DEF Entries
  <1>7. /\ log' \in Seq(Entries) /\ Len(log') = Len(log) + 1
        /\ \A k \in 1..Len(log) : log'[k] = log[k]
        /\ log'[Len(log) + 1] = entry
    BY <1>1, <1>2, <1>6, AppendProperties
  <1> DEFINE P == Len(p)
             L == Len(log)
             M == MaxProcessedCommands
  <1>P. /\ P \in Nat /\ L \in Nat /\ M \in Nat /\ M >= 1
        /\ P <= M /\ P <= L /\ (P = L \/ P = M)
    BY <1>1, WorkspaceAssumption
  <1>L. Len(log') = L + 1
    BY <1>7
  <1>8. Remembers'
    <2>1. CASE Grown(q, p, c)
      <3>1. Len(p) = Len(log) /\ Len(q) = Len(log) + 1 /\ q[Len(log) + 1] = c
        BY <2>1, <1>1 DEF Grown
      <3>2. ASSUME NEW i \in 1..Len(log) PROVE q[i] = log'[i].command_id
        <4>1. i \in 1..Len(p) /\ q[i] = p[i] /\ log'[i] = log[i]
          BY <2>1, <3>1, <1>7 DEF Grown
        <4>2. Len(log) - Len(p) + i = i
          BY <3>1, <1>P
        <4> QED
          BY <4>1, <4>2, <1>1
      <3>3. ASSUME NEW i \in 1..Len(q)
            PROVE  q[i] = log'[Len(log') - Len(q) + i].command_id
        <4>1. Len(log') - Len(q) + i = i /\ (i \in 1..Len(log) \/ i = Len(log) + 1)
          BY <3>1, <1>1, <1>7
        <4> QED
          BY <4>1, <3>1, <3>2, <1>7
      <3>4. Len(q) <= MaxProcessedCommands /\ Len(q) = Len(log')
        BY <2>1, <3>1, <1>1, <1>7, WorkspaceAssumption DEF Grown
      <3> QED
        BY <3>3, <3>4, <1>5, <1>L, <1>P DEF Remembers
    <2>2. CASE MovedUp(q, p, c)
      <3>1. Len(p) = MaxProcessedCommands /\ Len(q) = Len(p) /\ q[Len(p)] = c
        BY <2>2, <1>1, WorkspaceAssumption DEF MovedUp
      <3>2. ASSUME NEW i \in 1..Len(p), i < Len(p)
            PROVE  q[i] = log'[Len(log') - Len(p) + i].command_id
        <4>0. i + 1 \in 1..P
          <5>1. i \in 1..P /\ i < P
            BY <3>2
          <5> HIDE DEF P
          <5> QED
            BY <5>1, <1>P
        <4>1. i + 1 \in 1..Len(p) /\ q[i] = p[i + 1]
          BY <2>2, <3>2, <4>0 DEF MovedUp
        <4>2. p[i + 1] = log[Len(log) - Len(p) + (i + 1)].command_id
          BY <4>1, <1>1
        <4>3. /\ Len(log) - Len(p) + (i + 1) = Len(log') - Len(p) + i
              /\ Len(log) - Len(p) + (i + 1) \in 1..Len(log)
          <5>1. L - P + (i + 1) = L + 1 - P + i /\ L - P + (i + 1) \in 1..L
            <6> HIDE DEF P, L
            <6> QED
              BY <4>0, <3>2, <1>P
          <5> QED
            BY <5>1, <1>L
        <4> QED
          BY <4>1, <4>2, <4>3, <1>7
      <3>3. ASSUME NEW i \in 1..Len(q)
            PROVE  q[i] = log'[Len(log') - Len(q) + i].command_id
        <4>1. CASE i = Len(p)
          <5>1. Len(log') - Len(q) + i = Len(log) + 1
            BY <4>1, <3>1, <1>1, <1>7
          <5> QED
            BY <5>1, <4>1, <3>1, <1>7
        <4>2. CASE i # Len(p)
          <5>1. i \in 1..Len(p) /\ i < Len(p)
            BY <4>2, <3>1, <1>1
          <5> QED
            BY <5>1, <3>1, <3>2
        <4> QED
          BY <4>1, <4>2
      <3> QED
        BY <3>1, <3>3, <1>1, <1>5, <1>7, WorkspaceAssumption DEF Remembers
    <2> QED
      BY <2>1, <2>2, <1>5
  <1>9. Apart'
    <2> SUFFICES ASSUME NEW i \in 1..Len(log'), NEW j \in 1..Len(log'),
                        i < j, j - i <= MaxProcessedCommands
                 PROVE  log'[i].command_id # log'[j].command_id
      BY DEF Apart
    <2>1. i \in 1..Len(log)
      BY <1>1, <1>7
    <2>2. CASE j = Len(log) + 1
      <3>1. /\ i - (Len(log) - Len(p)) \in 1..Len(p)
            /\ Len(log) - Len(p) + (i - (Len(log) - Len(p))) = i
        <4>1. i \in 1..L /\ L + 1 - i <= M
          BY <2>1, <2>2
        <4> HIDE DEF P, L, M
        <4>2. i - (L - P) \in 1..P /\ L - P + (i - (L - P)) = i
          BY <4>1, <1>P
        <4> QED
          BY <4>2 DEF P, L
      <3>2. p[i - (Len(log) - Len(p))] = log[i].command_id
        BY <3>1, <1>1
      <3> QED
        BY <3>1, <3>2, <2>1, <2>2, <1>3, <1>7
    <2>3. CASE j # Len(log) + 1
      <3>1. j \in 1..Len(log)
        BY <2>3, <1>1, <1>7
      <3> QED
        BY <3>1, <2>1, <1>7 DEF Inv, Apart
    <2> QED
      BY <2>2, <2>3
  <1> QED
    BY <1>4, <1>8, <1>9 DEF Inv

LEMMA NextInv == Inv /\ [Next]_vars => Inv'
  <1> SUFFICES ASSUME Inv, [Next]_vars PROVE Inv'
    OBVIOUS
  <1>1. CASE \E c \in CommandIds, r \in 0..MaxRevision : Command(c, r, Identifiers)
    <2>1. PICK c \in CommandIds, r \in 0..MaxRevision : Command(c, r, Identifiers)
      BY <1>1
    <2>2. PICK changed, captures :
            Apply(c, r, changed) /\ Follows(changed, workspace, now, captures)
      BY <2>1, CommandApplies DEF Inv
    <2> QED
      BY <2>1, <2>2, ApplyInv
  <1>2. CASE Tick
    <2>1. CommandInv'
      BY <1>2, TickKeeps DEF Inv
    <2> QED
      BY <2>1, <1>2 DEF Tick, Inv, Remembers, Apart
  <1>3. CASE UNCHANGED vars
    BY <1>3 DEF vars, Inv, CommandInv, Remembers, Apart
  <1> QED
    BY <1>1, <1>2, <1>3 DEF Next

LEMMA Invariance == Spec => []Inv
  BY InitInv, NextInv, PTL DEF Spec

\* WorkspaceCommands.TypeOK: whatever commands do, in particular the items that
\* apply() and enforce_retention() of src/workspace.rs leave are items, and the revision
\* and the memory of commands stay within their limits.
THEOREM TypeCorrect == Spec => []TypeOK
  <1>1. Inv => TypeOK
    BY DEF Inv, CommandInv, WellKept, LeadsTo, Entries, TypeOK
  <1> QED
    BY <1>1, Invariance, PTL

\* WorkspaceCommands.RetentionHolds for any policies, items and commands:
\* enforce_retention() of src/workspace.rs is called by every action that could leave
\* too many unpinned items, and takes all that are too many.
THEOREM RetentionIsKept == Spec => []RetentionHolds
  <1>1. Inv => RetentionHolds
    BY DEF Inv, CommandInv, WellKept, RetentionHolds
  <1> QED
    BY <1>1, Invariance, PTL

\* WorkspaceCommands.AppliedOnceOnItsRevision for any commands, revisions and number
\* of remembered commands: apply() in src/workspace.rs takes a command only on the
\* revision it expects, and not again while it is remembered.
THEOREM AppliedOnce == Spec => []AppliedOnceOnItsRevision
  <1>1. Inv => AppliedOnceOnItsRevision
    BY LenProperties DEF Inv, CommandInv, LeadsTo, Apart, AppliedOnceOnItsRevision
  <1> QED
    BY <1>1, Invariance, PTL

-----------------------------------------------------------------------------
(* What a step may not do to the items.                                    *)

\* A step of the specification is a command that passes the guard, or leaves the
\* workspace as it is.
LEMMA StepApplies ==
  ASSUME Inv, [Next]_vars
  PROVE  \/ workspace' = workspace
         \/ \E c \in CommandIds : \E changed, captures :
              /\ Apply(c, workspace.revision, changed)
              /\ Follows(changed, workspace, now, captures)
              /\ CapturedBy(c, workspace.revision, Identifiers, captures)
              /\ workspace'.items = changed.items
              /\ workspace'.retention = changed.retention
  <1>1. CASE \E c \in CommandIds, r \in 0..MaxRevision : Command(c, r, Identifiers)
    <2>1. PICK c \in CommandIds, r \in 0..MaxRevision : Command(c, r, Identifiers)
      BY <1>1
    <2>2. PICK changed, captures :
            /\ Apply(c, r, changed) /\ Follows(changed, workspace, now, captures)
            /\ CapturedBy(c, r, Identifiers, captures)
      BY <2>1, CommandApplies DEF Inv
    <2>3. /\ r = workspace.revision /\ workspace'.items = changed.items
          /\ workspace'.retention = changed.retention
      BY <2>1, <2>2, ApplyKeeps DEF Inv, Apply, Accepts
    <2> QED
      BY <2>2, <2>3
  <1>2. CASE Tick \/ UNCHANGED vars
    BY <1>2 DEF Tick, vars
  <1> QED
    BY <1>1, <1>2 DEF Next

LEMMA ItemPositions ==
  ASSUME Inv
  PROVE  /\ DOMAIN workspace.items = 1..Len(workspace.items)
         /\ \A text : Cardinality(Copies(workspace, text)) \in Nat
         /\ \A text : Copies(workspace, text) = CopiesAmong(workspace.items, text)
  <1>1. workspace.items \in Seq(Items) /\ DOMAIN workspace.items = 1..Len(workspace.items)
    BY FieldsOfWorkspace DEF Inv, CommandInv, WellKept
  <1>2. \A text : Copies(workspace, text) = CopiesAmong(workspace.items, text)
    BY DEF Copies, CopiesAmong
  <1> QED
    BY <1>1, <1>2, ComesFromItself, ComesFromAddsNoCopy

\* WorkspaceCommands.PinnedItemsStay for any items, policies and commands: no branch of
\* apply() in src/workspace.rs, and no pass of its enforce_retention(), takes a pinned
\* item, except the deletion and the unpinning that name it.
THEOREM PinsHold == Spec => PinnedItemsStay
  <1> DEFINE Stays(item) ==
               \/ \E j \in DOMAIN workspace'.items :
                    /\ workspace'.items[j].item_id = item.item_id
                    /\ workspace'.items[j].text = item.text
                    /\ workspace'.items[j].is_pinned
               \/ \E c \in CommandIds :
                    \/ Apply(c, workspace.revision, Delete(workspace, item.item_id))
                    \/ Apply(c, workspace.revision, Unpin(workspace, item.item_id, now))
             AllStay == \A i \in DOMAIN workspace.items :
                          workspace.items[i].is_pinned => Stays(workspace.items[i])
  <1>1. ASSUME Inv, [Next]_vars PROVE AllStay
    <2> SUFFICES ASSUME NEW i \in DOMAIN workspace.items, workspace.items[i].is_pinned
                 PROVE  Stays(workspace.items[i])
      OBVIOUS
    <2>1. Inv' /\ i \in 1..Len(workspace.items)
      BY <1>1, NextInv, ItemPositions
    <2>2. DOMAIN workspace'.items = 1..Len(workspace'.items)
      BY <2>1, ItemPositions
    <2>3. CASE workspace' = workspace
      BY <2>3
    <2>4. ASSUME NEW c \in CommandIds, NEW changed, NEW captures,
                 Follows(changed, workspace, now, captures),
                 Apply(c, workspace.revision, changed), workspace'.items = changed.items
          PROVE  Stays(workspace.items[i])
      <3>1. \/ \E k \in 1..Len(changed.items) :
                 /\ changed.items[k].item_id = workspace.items[i].item_id
                 /\ changed.items[k].text = workspace.items[i].text
                 /\ changed.items[k].is_pinned
            \/ changed = Delete(workspace, workspace.items[i].item_id)
            \/ changed = Unpin(workspace, workspace.items[i].item_id, now)
        BY <2>1, <2>4 DEF Follows, KeepsPins
      <3> QED
        BY <3>1, <2>2, <2>4
    <2> QED
      BY <1>1, <2>3, <2>4, StepApplies
  <1>2. Inv /\ [Next]_vars => [AllStay]_vars
    BY <1>1
  <1>3. Spec => [][AllStay]_vars
    BY <1>2, Invariance, PTL DEF Spec
  <1> QED
    BY <1>3 DEF PinnedItemsStay

\* WorkspaceCommands.DeduplicationAddsNoCopy for any texts and items: with deduplicate
\* set, ingest_text() of src/workspace.rs finds a copy that is there, pinned or not, and
\* makes an item only when there is none.
THEOREM CopiesStayApart == Spec => DeduplicationAddsNoCopy
  <1> DEFINE NoCopy == workspace.retention.deduplicate =>
               \A text \in Texts :
                 Cardinality(Copies(workspace', text)) <=
                   (IF Copies(workspace, text) = {} THEN 1
                    ELSE Cardinality(Copies(workspace, text)))
  <1>1. ASSUME Inv, [Next]_vars PROVE NoCopy
    <2> SUFFICES ASSUME workspace.retention.deduplicate, NEW text \in Texts
                 PROVE  Cardinality(Copies(workspace', text)) <=
                          (IF Copies(workspace, text) = {} THEN 1
                           ELSE Cardinality(Copies(workspace, text)))
      OBVIOUS
    <2>1. /\ Cardinality(Copies(workspace, text)) \in Nat
          /\ Copies(workspace, text) = CopiesAmong(workspace.items, text)
          /\ Copies(workspace', text) = CopiesAmong(workspace'.items, text)
      BY <1>1, ItemPositions DEF Copies, CopiesAmong
    <2>2. Copies(workspace, text) # {} => Cardinality(Copies(workspace, text)) >= 1
      <3>1. /\ workspace.items \in Seq(Items)
            /\ Copies(workspace, text) \in SUBSET DOMAIN workspace.items
        BY <1>1, FieldsOfWorkspace DEF Inv, CommandInv, WellKept, Copies
      <3>2. IsFiniteSet(Copies(workspace, text))
        BY <3>1, Positions
      <3>3. Copies(workspace, text) # {} => Cardinality(Copies(workspace, text)) # 0
        BY <3>2, FS_EmptySet
      <3> QED
        BY <3>3, <2>1
    <2>3. CASE workspace' = workspace
      <3>1. Copies(workspace', text) = Copies(workspace, text)
        BY <2>3
      <3>2. Copies(workspace, text) = {} => Cardinality(Copies(workspace, text)) = 0
        BY FS_EmptySet
      <3> QED
        BY <3>1, <3>2, <2>1
    <2>4. ASSUME NEW c \in CommandIds, NEW changed, NEW captures,
                 Follows(changed, workspace, now, captures),
                 Apply(c, workspace.revision, changed), workspace'.items = changed.items
          PROVE  Cardinality(Copies(workspace', text)) <=
                   (IF Copies(workspace, text) = {} THEN 1
                    ELSE Cardinality(Copies(workspace, text)))
      <3>1. \/ Cardinality(Copies(workspace', text)) <= Cardinality(Copies(workspace, text))
            \/ Copies(workspace, text) = {} /\ Cardinality(Copies(workspace', text)) <= 1
        BY <2>1, <2>4 DEF Follows, AddsNoCopy
      <3>2. Copies(workspace, text) = {} => Cardinality(Copies(workspace, text)) = 0
        BY FS_EmptySet
      <3>3. Cardinality(Copies(workspace', text)) \in Nat
        <4>1. /\ changed.items \in Seq(Items)
          BY <2>4, FieldsOfWorkspace DEF Follows
        <4> QED
          BY <4>1, <2>1, <2>4, ComesFromItself, ComesFromAddsNoCopy
      <3> QED
        BY <3>1, <3>2, <3>3, <2>1
    <2> QED
      BY <1>1, <2>3, <2>4, StepApplies
  <1>2. Inv /\ [Next]_vars => [NoCopy]_vars
    BY <1>1
  <1>3. Spec => [][NoCopy]_vars
    BY <1>2, Invariance, PTL DEF Spec
  <1> QED
    BY <1>3 DEF DeduplicationAddsNoCopy

\* WorkspaceCommands.CountTakesFromTheEnd for any items, policies, clocks, and times and
\* identifiers of captures: ingest_text() of src/workspace.rs puts what it captures in
\* front, and enforce_retention() goes from the end up, so that what stays stood in front
\* of what the maximum number took.
THEOREM EvictsFromTheEnd == Spec => CountTakesFromTheEnd
  <1> DEFINE Expires(item) ==
               \E time \in TimesOf(item) : now - time > workspace'.retention.max_age
             IsNamed(item) ==
               \E c \in CommandIds :
                 \/ Apply(c, workspace.revision, Delete(workspace, item.item_id))
                 \/ Apply(c, workspace.revision, ClearUnpinned(workspace))
             Captures ==
               \E c \in CommandIds : IngestText(c, workspace.revision, Identifiers)
             IsOverTheCount(i) ==
               /\ Cardinality(Unpinned(workspace'.items)) = workspace'.retention.max_items
               /\ \A j \in Unpinned(workspace'.items) :
                    \/ \E k \in 1..(i - 1) :
                         workspace.items[k].item_id = workspace'.items[j].item_id
                    \/ /\ j = 1
                       /\ Captures
             FromTheEnd ==
               \A i \in Unpinned(workspace.items) :
                 LET item == workspace.items[i] IN
                   \/ HasItem(workspace', item.item_id)
                   \/ Expires(item)
                   \/ IsNamed(item)
                   \/ IsOverTheCount(i)
  <1>1. ASSUME Inv, [Next]_vars PROVE FromTheEnd
    <2> SUFFICES ASSUME NEW i \in Unpinned(workspace.items)
                 PROVE  LET item == workspace.items[i] IN
                          \/ HasItem(workspace', item.item_id)
                          \/ Expires(item) \/ IsNamed(item) \/ IsOverTheCount(i)
      OBVIOUS
    <2> DEFINE item == workspace.items[i]
    <2>1. i \in 1..Len(workspace.items) /\ i \in DOMAIN workspace.items /\ ~item.is_pinned
      BY <1>1, ItemPositions DEF Unpinned
    <2>2. CASE workspace' = workspace
      BY <2>1, <2>2 DEF HasItem
    <2>3. ASSUME NEW c \in CommandIds, NEW changed, NEW captures,
                 Apply(c, workspace.revision, changed),
                 Follows(changed, workspace, now, captures),
                 CapturedBy(c, workspace.revision, Identifiers, captures),
                 workspace'.items = changed.items,
                 workspace'.retention = changed.retention
          PROVE  \/ HasItem(workspace', item.item_id)
                 \/ Expires(item) \/ IsNamed(item) \/ IsOverTheCount(i)
      <3>1. \/ HasItem(changed, item.item_id)
            \/ now - item.captured_at > changed.retention.max_age
            \/ \E capture \in captures : /\ capture.text = item.text
                                         /\ now - capture.time > changed.retention.max_age
            \/ changed = Delete(workspace, item.item_id)
            \/ changed = ClearUnpinned(workspace)
            \/ /\ Cardinality(Unpinned(changed.items)) = changed.retention.max_items
               /\ \A j \in Unpinned(changed.items) :
                    \/ \E k \in 1..(i - 1) :
                         workspace.items[k].item_id = changed.items[j].item_id
                    \/ j = 1 /\ captures # {}
        BY <2>1, <2>3 DEF Follows, TakesFromTheEnd
      <3>2. CASE HasItem(changed, item.item_id)
        BY <3>2, <2>3 DEF HasItem
      <3>3. CASE now - item.captured_at > changed.retention.max_age
        BY <3>3, <2>3 DEF TimesOf
      <3>4. ASSUME NEW capture \in captures, capture.text = item.text,
                   now - capture.time > changed.retention.max_age
            PROVE  Expires(item)
        <4>1. capture.time \in TimesOf(item)
          BY <3>4, <2>3 DEF CapturedBy, TimesOf
        <4> QED
          BY <4>1, <3>4, <2>3
      <3>5. CASE changed = Delete(workspace, item.item_id) \/ changed = ClearUnpinned(workspace)
        BY <3>5, <2>3
      <3>6. captures # {} => Captures
        BY <2>3 DEF CapturedBy, IngestText
      <3>7. CASE /\ Cardinality(Unpinned(changed.items)) = changed.retention.max_items
                 /\ \A j \in Unpinned(changed.items) :
                      \/ \E k \in 1..(i - 1) :
                           workspace.items[k].item_id = changed.items[j].item_id
                      \/ j = 1 /\ captures # {}
        BY <3>6, <3>7, <2>3
      <3> QED
        BY <3>1, <3>2, <3>3, <3>4, <3>5, <3>7
    <2> QED
      BY <1>1, <2>2, <2>3, StepApplies
  <1>2. Inv /\ [Next]_vars => [FromTheEnd]_vars
    BY <1>1
  <1>3. Spec => [][FromTheEnd]_vars
    BY <1>2, Invariance, PTL DEF Spec
  <1> QED
    BY <1>3 DEF CountTakesFromTheEnd

-----------------------------------------------------------------------------
(* Sealed snapshots.                                                       *)

\* What opening needs of the envelope, which the workspace may have left behind.
Sealed ==
  /\ WellKept(envelope) /\ LeadsTo(sealed_log, envelope)
  /\ Len(envelope.items) <= MaxSnapshotItems
  /\ ~sealed_reused => Distinct(envelope.items)

SnapshotInv ==
  /\ CommandInv
  /\ ~reused => Distinct(workspace.items)
  /\ envelope # NoSnapshot => Sealed

LEMMA SnapshotInitInv == SnapshotInit => SnapshotInv
  <1>1. DefaultWorkspace.items = <<>>
    BY DEF DefaultWorkspace
  <1>2. Distinct(DefaultWorkspace.items)
    BY <1>1 DEF Distinct
  <1> QED
    BY <1>2, DefaultIsWellKept, CommandsAssumption
    DEF SnapshotInit, Init, SnapshotInv, CommandInv

\* Retention at load time.
LEMMA DecodedIsWellKept ==
  ASSUME NEW snapshot, WellKept(snapshot), now \in Nat
  PROVE  /\ WellKept(Decoded(snapshot)) /\ Decoded(snapshot).revision = snapshot.revision
         /\ Distinct(snapshot.items) => Distinct(Decoded(snapshot).items)
         /\ Decoded(snapshot).items
              = At(snapshot.items, WithinAge(snapshot.items, snapshot.retention, now))
  <1> DEFINE r == EnforceRetention(snapshot, now)
  <1>1. /\ IsWorkspace(r) /\ SameGuard(r, snapshot)
        /\ ComesFrom(r.items, snapshot.items)
        /\ Cardinality(Unpinned(r.items)) <= r.retention.max_items
        /\ Cardinality(Unpinned(snapshot.items)) <= snapshot.retention.max_items
             => r.items = At(snapshot.items,
                             WithinAge(snapshot.items, snapshot.retention, now))
    BY Enforced DEF WellKept
  <1>2. r = Decoded(snapshot)
    BY DEF Decoded
  <1> HIDE DEF r
  <1>3. Distinct(snapshot.items) => Distinct(r.items)
    BY <1>1, ComesFromKeepsIds
  <1> QED
    BY <1>1, <1>2, <1>3 DEF WellKept, SameGuard

\* A command whose captures come under identifiers that no item has keeps the items apart.
LEMMA CommandKeepsApart ==
  ASSUME CommandInv, Distinct(workspace.items),
         NEW c \in CommandIds, NEW r \in 0..MaxRevision, Command(c, r, Identifiers \ ItemIds)
  PROVE  Distinct(workspace'.items)
  <1> DEFINE fresh == Identifiers \ ItemIds
  <1>1. PICK changed, captures :
          /\ Apply(c, r, changed) /\ Follows(changed, workspace, now, captures)
          /\ \/ Loses(changed, workspace, now)
             \/ \E id \in fresh, text \in Texts, at \in 0..MaxTime :
                  Gains(changed, workspace, id, text, at, now)
    <2>1. fresh \in SUBSET Identifiers
      OBVIOUS
    <2> QED
      BY <2>1, CommandApplies
  <1>2. workspace'.items = changed.items
    BY <1>1, ApplyKeeps
  <1>3. CASE Loses(changed, workspace, now)
    BY <1>2, <1>3, ComesFromKeepsIds DEF Loses
  <1>4. ASSUME NEW id \in fresh, NEW text, NEW at, Gains(changed, workspace, id, text, at, now)
        PROVE  Distinct(workspace'.items)
    <2>1. \A i \in 1..Len(workspace.items) : workspace.items[i].item_id # id
      BY FieldsOfWorkspace DEF CommandInv, WellKept, ItemIds
    <2> QED
      BY <1>2, <1>4, <2>1 DEF Gains
  <1> QED
    BY <1>1, <1>3, <1>4

LEMMA SnapshotNextInv == SnapshotInv /\ [SnapshotNext]_<<vars, snapshotVars>> => SnapshotInv'
  <1> SUFFICES ASSUME SnapshotInv, [SnapshotNext]_<<vars, snapshotVars>> PROVE SnapshotInv'
    OBVIOUS
  <1>0. ASSUME UNCHANGED envelopeVars
        PROVE  (envelope # NoSnapshot => Sealed)'
    BY <1>0 DEF envelopeVars, SnapshotInv, Sealed
  <1>1. CASE /\ \E c \in CommandIds, r \in 0..MaxRevision : Command(c, r, Identifiers \ ItemIds)
             /\ UNCHANGED snapshotVars
    <2>1. CommandInv'
      <3>1. Identifiers \ ItemIds \in SUBSET Identifiers
        OBVIOUS
      <3> QED
        BY <3>1, <1>1, CommandStepKeeps DEF SnapshotInv
    <2>2. reused' = reused /\ UNCHANGED envelopeVars
      BY <1>1 DEF snapshotVars
    <2>3. ~reused => Distinct(workspace'.items)
      BY <1>1, CommandKeepsApart DEF SnapshotInv
    <2> QED
      BY <2>1, <2>2, <2>3, <1>0 DEF SnapshotInv
  <1>2. CASE /\ \E c \in CommandIds, r \in 0..MaxRevision : IngestText(c, r, ItemIds)
             /\ reused' = TRUE
             /\ UNCHANGED envelopeVars
    <2>1. ItemIds \in SUBSET Identifiers
      BY FieldsOfWorkspace DEF SnapshotInv, CommandInv, WellKept, ItemIds, Items
    <2>2. \E c \in CommandIds, r \in 0..MaxRevision : Command(c, r, ItemIds)
      BY <1>2 DEF Command
    <2>3. CommandInv'
      BY <2>1, <2>2, CommandStepKeeps DEF SnapshotInv
    <2> QED
      BY <1>2, <2>3, <1>0 DEF SnapshotInv
  <1>3. CASE Tick /\ UNCHANGED snapshotVars
    <2>1. CommandInv' /\ workspace' = workspace
      BY <1>3, TickKeeps DEF SnapshotInv, Tick
    <2> QED
      BY <2>1, <1>3, <1>0 DEF SnapshotInv, snapshotVars
  <1>4. CASE Seal
    <2>1. WellKept(workspace) /\ LeadsTo(log, workspace)
      BY DEF SnapshotInv, CommandInv
    <2> DEFINE e == Encoded(workspace)
    <2>2. /\ IsWorkspace(e) /\ e.items = workspace.items
          /\ e.retention = workspace.retention /\ e.revision = workspace.revision
      <3> DEFINE none == <<>>
      <3>1. none \in Seq(CommandIds) /\ Len(none) <= MaxProcessedCommands
        BY WorkspaceAssumption
      <3>2. e = [workspace EXCEPT !.processed_commands = none]
        BY DEF Encoded
      <3> HIDE DEF none, e
      <3> QED
        BY <2>1, <3>1, <3>2 DEF WellKept, IsWorkspace
    <2> HIDE DEF e
    <2>3. WellKept(e) /\ LeadsTo(log, e)
      BY <2>1, <2>2 DEF WellKept, LeadsTo
    <2>4. /\ envelope' = e /\ sealed_log' = log /\ Len(e.items) <= MaxSnapshotItems
          /\ workspace' = workspace /\ now' = now /\ log' = log
          /\ reused' = reused /\ sealed_reused' = reused
      BY <1>4, <2>2 DEF Seal, Encodes, vars, e
    <2> QED
      BY <2>2, <2>3, <2>4 DEF SnapshotInv, CommandInv, Sealed
  <1>5. CASE Open
    <2>1. Sealed /\ now \in Nat
      BY <1>5, CommandsAssumption DEF Open, SnapshotInv, CommandInv
    <2>2. /\ WellKept(Decoded(envelope)) /\ Decoded(envelope).revision = envelope.revision
          /\ Distinct(envelope.items) => Distinct(Decoded(envelope).items)
      BY <2>1, DecodedIsWellKept DEF Sealed
    <2>3. /\ workspace' = Decoded(envelope) /\ log' = sealed_log /\ now' = now
          /\ reused' = sealed_reused /\ UNCHANGED envelopeVars
      BY <1>5 DEF Open
    <2>4. WellKept(workspace') /\ LeadsTo(log', workspace')
      BY <2>1, <2>2, <2>3 DEF Sealed, LeadsTo
    <2>5. ~sealed_reused => Distinct(workspace'.items)
      BY <2>1, <2>2, <2>3 DEF Sealed
    <2> QED
      BY <2>3, <2>4, <2>5, <1>0 DEF SnapshotInv, CommandInv
  <1>6. CASE Restart
    <2>1. /\ WellKept(workspace') /\ LeadsTo(log', workspace')
          /\ workspace'.items = <<>>
      BY <1>6, DefaultIsWellKept DEF Restart, DefaultWorkspace
    <2>2. Distinct(workspace'.items)
      BY <2>1 DEF Distinct
    <2> QED
      BY <2>1, <2>2, <1>6, <1>0 DEF Restart, SnapshotInv, CommandInv
  <1>7. CASE UNCHANGED <<vars, snapshotVars>>
    BY <1>7, <1>0 DEF vars, snapshotVars, SnapshotInv, CommandInv
  <1> QED
    BY <1>1, <1>2, <1>3, <1>4, <1>5, <1>6, <1>7 DEF SnapshotNext

LEMMA SnapshotInvariance == SnapshotSpec => []SnapshotInv
  BY SnapshotInitInv, SnapshotNextInv, PTL DEF SnapshotSpec

\* WorkspaceSnapshot.LineageInOrder for any commands and however often snapshots
\* are sealed and opened: decrypt_snapshot() of src/workspace_snapshot.rs brings the
\* revision back together with the history it counts.
THEOREM LineageStaysInOrder == SnapshotSpec => []LineageInOrder
  <1>1. SnapshotInv => LineageInOrder
    BY LenProperties DEF SnapshotInv, CommandInv, LeadsTo, LineageInOrder
  <1> QED
    BY <1>1, SnapshotInvariance, PTL

\* WorkspaceSnapshot.SealedOpens for any commands, snapshots and limits: as long as no
\* capture brings an identifier that an item has, which ingest_text() of src/workspace.rs
\* does not look at, what encode_snapshot() of src/workspace_snapshot.rs lets through is
\* not refused by from_snapshot_parts().
THEOREM SealedIsOpened == SnapshotSpec => []SealedOpens
  <1>1. ASSUME SnapshotInv PROVE SealedOpens
    <2> SUFFICES ASSUME envelope # NoSnapshot, ~sealed_reused PROVE Decodes(envelope)
      BY DEF SealedOpens
    <2>1. /\ Len(envelope.items) <= MaxSnapshotItems /\ Distinct(envelope.items)
          /\ DOMAIN envelope.items = 1..Len(envelope.items)
      BY <1>1, FieldsOfWorkspace DEF SnapshotInv, Sealed, WellKept
    <2> QED
      BY <2>1 DEF Decodes, Distinct
  <1> QED
    BY <1>1, SnapshotInvariance, PTL

\* WorkspaceSnapshot.LosesOnlyExpired for any snapshot and any clock at which it is
\* opened: the retention of from_snapshot_parts() in src/workspace.rs has
\* only the age left to enforce.
THEOREM OnlyExpiredAreLost == SnapshotSpec => LosesOnlyExpired
  <1> DEFINE Expires ==
               Open => workspace'.items =
                         At(envelope.items,
                            WithinAge(envelope.items, envelope.retention, now))
  <1>1. ASSUME SnapshotInv, Open
        PROVE  workspace'.items =
                 At(envelope.items, WithinAge(envelope.items, envelope.retention, now))
    <2>1. WellKept(envelope) /\ now \in Nat /\ workspace' = Decoded(envelope)
      BY <1>1, CommandsAssumption DEF Open, SnapshotInv, CommandInv, Sealed
    <2> QED
      BY <2>1, DecodedIsWellKept
  <1>2. SnapshotInv /\ [SnapshotNext]_<<vars, snapshotVars>> => [Expires]_<<vars, snapshotVars>>
    BY <1>1
  <1>3. SnapshotSpec => [][Expires]_<<vars, snapshotVars>>
    BY <1>2, SnapshotInvariance, PTL DEF SnapshotSpec
  <1> QED
    BY <1>3 DEF LosesOnlyExpired

-----------------------------------------------------------------------------
(* The clipboard half of the app.                                          *)

\* Identifiers are drawn from more than are remembered.
LEMMA FreshIsACommand ==
  ASSUME WellKept(workspace)
  PROVE  FreshCommand \in CommandIds
  <1> DEFINE p == workspace.processed_commands
             n == Len(p)
             seen == ToSet(p)
  <1>1. /\ p \in Seq(CommandIds) /\ n \in Nat /\ n <= MaxProcessedCommands
        /\ MaxProcessedCommands \in Nat
    BY LenProperties, WorkspaceAssumption DEF WellKept, IsWorkspace
  <1> HIDE DEF p
  <1>2. p \in Surjection(1..n, seen)
    <2>1. p \in [1..n -> CommandIds] /\ DOMAIN p = 1..n
      BY <1>1, LenProperties
    <2> QED
      BY <2>1 DEF Surjection, ToSet
  <1>3. IsFiniteSet(1..n) /\ Cardinality(1..n) = n
    BY <1>1, UptoIsFinite
  <1> HIDE DEF n, seen
  <1>4. IsFiniteSet(seen) /\ Cardinality(seen) <= n
    BY <1>2, <1>3, FS_Surjection
  <1>5. \E c \in CommandIds : c \notin seen
    <2> SUFFICES ASSUME CommandIds \in SUBSET seen PROVE FALSE
      OBVIOUS
    <2>1. IsFiniteSet(CommandIds) /\ Cardinality(CommandIds) <= Cardinality(seen)
      BY <1>4, FS_Subset
    <2>2. Cardinality(CommandIds) > MaxProcessedCommands
      BY <2>1, CaptureAssumption
    <2>3. Cardinality(CommandIds) \in Nat /\ Cardinality(seen) \in Nat
      BY <2>1, <1>4, FS_CardinalityType
    <2> QED
      BY <2>1, <2>2, <2>3, <1>1, <1>4
  <1> QED
    BY <1>5 DEF FreshCommand, seen, p

\* What the app has dealt with is what it remembers, and its items bear the numbers of
\* revisions gone by.
CaptureInv ==
  /\ CommandInv
  /\ Distinct(workspace.items) /\ IdsBelow(workspace.items, workspace.revision)
  /\ clipboard \in Texts \cup {NoText}
  /\ copied \/ clipboard = NoText \/ clipboard = last_clipboard_hash

\* A click that the reducer accepts is a command.
LEMMA ClickIsApplied ==
  ASSUME CommandInv, NEW changed, ApplyAction(changed)
  PROVE  /\ FreshCommand \in CommandIds /\ workspace.revision \in 0..MaxRevision
         /\ Apply(FreshCommand, workspace.revision, changed)
  BY FreshIsACommand DEF CommandInv, WellKept, IsWorkspace, ApplyAction

\* What a command of the app leaves of what it keeps of the items: they stay apart and, to
\* the clock, in order; a text gains a copy only when another program has copied it.
Keeps ==
  /\ Distinct(workspace'.items) /\ IdsBelow(workspace'.items, workspace'.revision)
  /\ NewestFirst(workspace.items, now) => NewestFirst(workspace'.items, now)
  /\ \A text : \/ Cardinality(CopiesAmong(workspace'.items, text))
                    <= Cardinality(CopiesAmong(workspace.items, text))
               \/ copied /\ clipboard = text

LEMMA LosingKeeps ==
  ASSUME CaptureInv, NEW changed, ApplyAction(changed), Loses(changed, workspace, now)
  PROVE  Keeps
  <1>1. /\ workspace'.items = changed.items
        /\ workspace'.revision = workspace.revision + 1
        /\ ComesFrom(changed.items, workspace.items) /\ IsWorkspace(changed)
        /\ NewestFirst(workspace.items, now) => NewestFirst(changed.items, now)
    BY ClickIsApplied, ApplyKeeps DEF CaptureInv, Loses, Follows
  <1>2. changed.items \in Seq(Items) /\ workspace.items \in Seq(Items)
    BY <1>1, FieldsOfWorkspace DEF CaptureInv, CommandInv, WellKept
  <1>3. IdsBelow(workspace.items, workspace.revision + 1)
    BY IdsStayBelow DEF CaptureInv, CommandInv, WellKept
  <1>4. Distinct(changed.items) /\ IdsBelow(changed.items, workspace.revision + 1)
    BY <1>1, <1>3, ComesFromKeepsIds DEF CaptureInv
  <1>5. \A text : Cardinality(CopiesAmong(changed.items, text))
                    <= Cardinality(CopiesAmong(workspace.items, text))
    BY <1>1, <1>2, ComesFromAddsNoCopy
  <1> QED
    BY <1>1, <1>4, <1>5 DEF Keeps

LEMMA SameItemsKeep ==
  ASSUME CaptureInv, NEW changed, IsWorkspace(changed), SameGuard(changed, workspace),
         changed.items = workspace.items, changed.retention = workspace.retention,
         ApplyAction(changed)
  PROVE  Keeps
  BY SameItemsFollow, LosingKeeps DEF CaptureInv, CommandInv

\* A capture under the revision, at the time it is applied.
LEMMA GainingKeeps ==
  ASSUME CaptureInv, NEW changed, ApplyAction(changed), NEW text,
         Gains(changed, workspace, workspace.revision, text, now, now),
         copied, clipboard = text
  PROVE  Keeps
  <1>1. /\ workspace'.items = changed.items
        /\ workspace'.revision = workspace.revision + 1
    BY ClickIsApplied, ApplyKeeps DEF CaptureInv, Gains
  <1>2. workspace.revision \in Nat
    BY FieldsOfWorkspace DEF CaptureInv, CommandInv, WellKept
  <1>3. \A i \in 1..Len(workspace.items) : workspace.items[i].item_id # workspace.revision
    <2>1. \A n \in Nat : n \notin 0..(n - 1)
      OBVIOUS
    <2> QED
      BY <1>2, <2>1 DEF CaptureInv, IdsBelow
  <1>4. /\ Distinct(changed.items) /\ IdsBelow(changed.items, workspace.revision + 1)
        /\ NewestFirst(workspace.items, now) => NewestFirst(changed.items, now)
        /\ \A other : \/ other = text
                      \/ Cardinality(CopiesAmong(changed.items, other))
                           <= Cardinality(CopiesAmong(workspace.items, other))
    BY <1>2, <1>3 DEF Gains, CaptureInv
  <1> QED
    BY <1>1, <1>4 DEF Keeps

\* What a step of the app is to the reducer: one of its commands, which keeps all this.
IsCommand ==
  /\ FreshCommand \in CommandIds /\ workspace.revision \in 0..MaxRevision
  /\ Command(FreshCommand, workspace.revision, Identifiers)
  /\ Keeps

LEMMA ClickIsACommand ==
  ASSUME CaptureInv, CaptureNext
  PROVE  IsCommand \/ Tick \/ UNCHANGED vars
  <1> DEFINE c == FreshCommand
             r == workspace.revision
  <1>1. /\ CommandInv /\ WellKept(workspace) /\ IsWorkspace(workspace)
        /\ now \in Nat /\ c \in CommandIds /\ r \in 0..MaxRevision
    BY CommandsAssumption, FreshIsACommand DEF CaptureInv, CommandInv, WellKept, IsWorkspace
  <1>2. \A item \in VisibleItems :
          item.item_id \in ItemIds /\ HasItem(workspace, item.item_id)
    BY DEF VisibleItems, ItemIds, HasItem, ToSet
  <1>3. ASSUME NEW state \in CaptureStates, SetCaptureActive(state) PROVE IsCommand
    <2> DEFINE changed == WithCapture(workspace, state)
    <2>1. ApplyAction(changed) /\ Apply(c, r, changed)
      BY <1>3 DEF SetCaptureActive, Click, ApplyAction
    <2>2. /\ IsWorkspace(changed) /\ SameGuard(changed, workspace)
          /\ changed.items = workspace.items /\ changed.retention = workspace.retention
      BY <1>1 DEF WithCapture, IsWorkspace, SameGuard
    <2>3. Command(c, r, Identifiers)
      BY <2>1 DEF Command, SetCapture
    <2>4. Keeps
      BY <2>1, <2>2, <1>1, SameItemsKeep
    <2> QED
      BY <1>1, <2>3, <2>4 DEF IsCommand
  <1>4. ASSUME NEW query \in Queries, TypeSearch(query) PROVE IsCommand
    <2> DEFINE changed == WithSearch(workspace, query)
    <2>1. ApplyAction(changed) /\ Apply(c, r, changed)
      BY <1>4 DEF TypeSearch, Click, ApplyAction
    <2>2. query \in SUBSET Texts
      BY CommandsAssumption
    <2>3. /\ IsWorkspace(changed) /\ SameGuard(changed, workspace)
          /\ changed.items = workspace.items /\ changed.retention = workspace.retention
      BY <1>1, <2>2 DEF WithSearch, IsWorkspace, SameGuard
    <2>4. Command(c, r, Identifiers)
      BY <2>1 DEF Command, SetSearch
    <2>5. Keeps
      BY <2>1, <2>3, <1>1, SameItemsKeep
    <2> QED
      BY <1>1, <2>4, <2>5 DEF IsCommand
  <1>5. ASSUME NEW item \in VisibleItems, TogglePin(item) PROVE IsCommand
    <2>1. CASE item.is_pinned
      <3> DEFINE changed == Unpin(workspace, item.item_id, now)
      <3>1. ApplyAction(changed) /\ Apply(c, r, changed)
        BY <1>5, <2>1 DEF TogglePin, Click, ApplyAction
      <3>2. Loses(changed, workspace, now)
        BY <1>1, <1>2, UnpinFollows
      <3>3. Command(c, r, Identifiers)
        BY <3>1, <1>2 DEF Command, UnpinItem
      <3> QED
        BY <1>1, <3>1, <3>2, <3>3, LosingKeeps DEF IsCommand
    <2>2. CASE ~item.is_pinned
      <3> DEFINE changed == Pin(workspace, item.item_id)
      <3>1. ApplyAction(changed) /\ Apply(c, r, changed)
        BY <1>5, <2>2 DEF TogglePin, Click, ApplyAction
      <3>2. Loses(changed, workspace, now)
        BY <1>1, <1>2, PinFollows
      <3>3. Command(c, r, Identifiers)
        BY <3>1, <1>2 DEF Command, PinItem
      <3> QED
        BY <1>1, <3>1, <3>2, <3>3, LosingKeeps DEF IsCommand
    <2> QED
      BY <2>1, <2>2
  <1>6. ASSUME NEW item \in VisibleItems, ClickDelete(item) PROVE IsCommand
    <2> DEFINE changed == Delete(workspace, item.item_id)
    <2>1. ApplyAction(changed) /\ Apply(c, r, changed)
      BY <1>6 DEF ClickDelete, Click, ApplyAction
    <2>2. Loses(changed, workspace, now)
      BY <1>1, DeleteFollows
    <2>3. Command(c, r, Identifiers)
      BY <2>1, <1>2 DEF Command, DeleteItem
    <2> QED
      BY <1>1, <2>1, <2>2, <2>3, LosingKeeps DEF IsCommand
  <1>7. ASSUME ClickClearUnpinned PROVE IsCommand
    <2> DEFINE changed == ClearUnpinned(workspace)
    <2>1. ApplyAction(changed) /\ Apply(c, r, changed)
      BY <1>7 DEF ClickClearUnpinned, Click, ApplyAction
    <2>2. Loses(changed, workspace, now)
      BY <1>1, ClearFollows
    <2>3. Command(c, r, Identifiers)
      BY <2>1 DEF Command, ClearUnpinnedItems
    <2> QED
      BY <1>1, <2>1, <2>2, <2>3, LosingKeeps DEF IsCommand
  <1>8. ASSUME NEW policy \in Policies, ApplyRetention(policy) PROVE IsCommand
    <2> DEFINE changed == WithRetention(workspace, policy, now)
    <2>1. ApplyAction(changed) /\ Apply(c, r, changed)
      BY <1>8 DEF ApplyRetention, Click, ApplyAction
    <2>2. Loses(changed, workspace, now)
      BY <1>1, RetentionFollows
    <2>3. Command(c, r, Identifiers)
      BY <2>1 DEF Command, SetRetention
    <2> QED
      BY <1>1, <2>1, <2>2, <2>3, LosingKeeps DEF IsCommand
  <1>9. ASSUME NEW sources \in SUBSET Sources,
               ApplyAction(WithExclusions(workspace, sources))
        PROVE  IsCommand
    <2> DEFINE changed == WithExclusions(workspace, sources)
    <2>1. ApplyAction(changed) /\ Apply(c, r, changed)
      BY <1>9 DEF ApplyAction
    <2>2. /\ IsWorkspace(changed) /\ SameGuard(changed, workspace)
          /\ changed.items = workspace.items /\ changed.retention = workspace.retention
      BY <1>1 DEF WithExclusions, IsWorkspace, SameGuard
    <2>3. Command(c, r, Identifiers)
      BY <2>1 DEF Command, SetSourceExclusions
    <2>4. Keeps
      BY <2>1, <2>2, <1>1, SameItemsKeep
    <2> QED
      BY <1>1, <2>3, <2>4 DEF IsCommand
  <1>10. workspace.excluded \in SUBSET Sources
    BY <1>1 DEF IsWorkspace
  <1>11. ASSUME AddExclusion PROVE IsCommand
    <2>1. workspace.excluded \cup {source_exclusion_input} \in SUBSET Sources
      BY <1>10, <1>11 DEF AddExclusion
    <2> QED
      BY <2>1, <1>9, <1>11 DEF AddExclusion
  <1>12. ASSUME NEW source \in workspace.excluded, RemoveExclusion(source) PROVE IsCommand
    <2>1. workspace.excluded \ {source} \in SUBSET Sources
      BY <1>10
    <2> QED
      BY <2>1, <1>9, <1>12 DEF RemoveExclusion, Click
  <1>13. ASSUME CaptureClipboardText PROVE IsCommand
    <2> DEFINE changed == Ingest(workspace, r, clipboard, NoSource, now, now)
    <2>1. clipboard \in Texts /\ copied
      BY <1>13 DEF CaptureClipboardText, CaptureInv
    <2>2. CanIngest(workspace, NoSource)
      BY <1>10, <1>13, WorkspaceAssumption DEF CaptureClipboardText, CanIngest
    <2>3. ApplyAction(changed) /\ Apply(c, r, changed)
      BY <1>13 DEF CaptureClipboardText, ApplyAction
    <2>4. r \in Identifiers /\ now \in 0..MaxTime
      BY <1>1, CaptureAssumption DEF CommandInv
    <2>5. Command(c, r, Identifiers)
      BY <2>1, <2>2, <2>3, <2>4 DEF Command, IngestText, CaptureText
    <2>6. Gains(changed, workspace, r, clipboard, now, now)
      BY <1>1, <2>1, <2>4, IngestFollows
    <2> HIDE DEF changed
    <2>7. Keeps
      BY <2>1, <2>3, <2>6, GainingKeeps
    <2> QED
      BY <1>1, <2>5, <2>7 DEF IsCommand
  <1>14. CASE \/ \E item \in VisibleItems : CopyItem(item)
              \/ \E source \in Sources \cup {NoSource} : TypeExclusion(source)
              \/ \E text \in Texts \cup {NoText} : CopiedElsewhere(text)
    BY <1>14 DEF CopyItem, TypeExclusion, CopiedElsewhere
  <1> QED
    BY <1>3, <1>4, <1>5, <1>6, <1>7, <1>8, <1>11, <1>12, <1>13, <1>14 DEF CaptureNext

\* A step of the app is a step the reducer is specified for.
LEMMA AppStep ==
  ASSUME CaptureInv, [CaptureNext]_<<vars, captureVars>>
  PROVE  /\ [Next]_vars /\ CommandInv'
         /\ \/ Keeps /\ now' = now
            \/ UNCHANGED workspace
  <1>1. CASE CaptureNext
    <2>1. CASE IsCommand
      <3>1. [Next]_vars
        BY <2>1 DEF IsCommand, Next
      <3>2. CommandInv'
        BY <3>1, NextStepKeeps DEF CaptureInv
      <3>3. now' = now
        BY <2>1 DEF IsCommand, Command, SetCapture, SetSearch, PinItem, UnpinItem,
             DeleteItem, ClearUnpinnedItems, SetRetention, SetSourceExclusions,
             IngestText, CaptureText, Apply
      <3> QED
        BY <2>1, <3>1, <3>2, <3>3 DEF IsCommand
    <2>2. CASE Tick \/ UNCHANGED vars
      <3>1. [Next]_vars /\ UNCHANGED workspace
        BY <2>2 DEF Tick, vars, Next
      <3> QED
        BY <3>1, NextStepKeeps DEF CaptureInv
    <2> QED
      BY <1>1, <2>1, <2>2, ClickIsACommand
  <1>2. CASE UNCHANGED <<vars, captureVars>>
    BY <1>2, NextStepKeeps DEF vars, CaptureInv
  <1> QED
    BY <1>1, <1>2

\* CaptureInv is inductive: the steps that touch what the app keeps of the clipboard, then
\* all the others.
LEMMA CaptureNextInv ==
  CaptureInv /\ [CaptureNext]_<<vars, captureVars>> => CaptureInv'
  <1> SUFFICES ASSUME CaptureInv, [CaptureNext]_<<vars, captureVars>> PROVE CaptureInv'
    OBVIOUS
  <1>1. /\ CommandInv'
        /\ Distinct(workspace'.items) /\ IdsBelow(workspace'.items, workspace'.revision)
    BY AppStep DEF Keeps, CaptureInv
  <1>2. CASE UNCHANGED captureVars
    BY <1>1, <1>2 DEF captureVars, CaptureInv
  <1>3. ASSUME NEW item \in VisibleItems, CopyItem(item) PROVE CaptureInv'
    <2>1. item.text \in Texts
      BY FieldsOfWorkspace DEF VisibleItems, ToSet, CaptureInv, CommandInv, WellKept, Items
    <2> QED
      BY <1>1, <1>3, <2>1 DEF CopyItem, CaptureInv
  <1>4. CASE \E source \in Sources \cup {NoSource} : TypeExclusion(source)
    BY <1>1, <1>4 DEF TypeExclusion, CaptureInv
  <1>5. CASE AddExclusion
    BY <1>1, <1>5 DEF AddExclusion, CaptureInv
  <1>6. CASE CaptureClipboardText
    BY <1>1, <1>6 DEF CaptureClipboardText, CaptureInv
  <1>7. CASE \E text \in Texts \cup {NoText} : CopiedElsewhere(text)
    BY <1>1, <1>7 DEF CopiedElsewhere, CaptureInv
  <1>8. CASE UNCHANGED <<vars, captureVars>>
    BY <1>2, <1>8
  <1>9. CASE \/ \E state \in CaptureStates : SetCaptureActive(state)
             \/ \E query \in Queries : TypeSearch(query)
             \/ \E item \in VisibleItems : TogglePin(item) \/ ClickDelete(item)
             \/ ClickClearUnpinned
             \/ \E policy \in Policies : ApplyRetention(policy)
             \/ \E source \in workspace.excluded : RemoveExclusion(source)
             \/ Tick /\ UNCHANGED captureVars
    BY <1>2, <1>9 DEF SetCaptureActive, TypeSearch, TogglePin, ClickDelete,
         ClickClearUnpinned, ApplyRetention, RemoveExclusion, Click
  <1> QED
    BY <1>2, <1>3, <1>4, <1>5, <1>6, <1>7, <1>8, <1>9 DEF CaptureNext

LEMMA CaptureInvariance == CaptureSpec => []CaptureInv
  <1>1. CaptureInit => CaptureInv
    <2> SUFFICES ASSUME CaptureInit PROVE CaptureInv
      OBVIOUS
    <2>1. CommandInv /\ workspace.items = <<>>
      BY InitInv DEF CaptureInit, Inv, Init, DefaultWorkspace
    <2>2. Distinct(workspace.items) /\ IdsBelow(workspace.items, workspace.revision)
      BY <2>1 DEF Distinct, IdsBelow
    <2> QED
      BY <2>1, <2>2 DEF CaptureInit, CaptureInv
  <1> QED
    BY <1>1, CaptureNextInv, PTL DEF CaptureSpec

\* The desktop app is one of the clients the reducer is specified for: whatever the user
\* clicks in src/desktop/app.rs and whatever other programs copy, each of its steps is a
\* command under an identifier not remembered and the current revision, a reading of the
\* clock, or no step of the reducer at all.
THEOREM AppIsAClient == CaptureSpec => Spec
  <1>1. CaptureInit => Init
    BY DEF CaptureInit
  <1>2. CaptureInv /\ [CaptureNext]_<<vars, captureVars>> => [Next]_vars
    BY AppStep
  <1> QED
    BY <1>1, <1>2, CaptureInvariance, PTL DEF CaptureSpec, Spec

\* What is proved of the reducer therefore holds in the app: types, the limit on unpinned
\* items, pins that no count, age or clearing takes, and eviction from the end.
COROLLARY AppKeepsTheWorkspace ==
  CaptureSpec => /\ []TypeOK /\ []RetentionHolds /\ []AppliedOnceOnItsRevision
                 /\ PinnedItemsStay /\ DeduplicationAddsNoCopy /\ CountTakesFromTheEnd
  BY AppIsAClient, TypeCorrect, RetentionIsKept, AppliedOnce, PinsHold, CopiesStayApart,
     EvictsFromTheEnd

\* The app gives no two items one identifier, which the reducer leaves to its clients:
\* capture_clipboard_text() of src/desktop/app.rs draws a new one for every capture, so
\* that what the app might seal could be opened.
THEOREM AppKeepsItemsApart == CaptureSpec => []Distinct(workspace.items)
  <1>1. CaptureInv => Distinct(workspace.items)
    BY DEF CaptureInv
  <1> QED
    BY <1>1, CaptureInvariance, PTL

\* The history of the app is in the order of the times of capture, newest first, unless
\* the clock is set back: capture_clipboard_text() of src/desktop/app.rs stamps a text
\* with the reading at which it is ingested, so that there, unlike with a command that
\* brings its own time, the end that the maximum number takes from is the oldest.
THEOREM AppOrdersByTime ==
  CaptureSpec =>
    [][ now <= now' /\ NewestFirst(workspace.items, now)
          => NewestFirst(workspace'.items, now') ]_<<vars, captureVars>>
  <1> DEFINE InOrder == now <= now' /\ NewestFirst(workspace.items, now)
                          => NewestFirst(workspace'.items, now')
  <1>1. ASSUME CaptureInv, [CaptureNext]_<<vars, captureVars>> PROVE InOrder
    <2>1. CASE Keeps /\ now' = now
      BY <2>1 DEF Keeps
    <2>2. CASE UNCHANGED workspace
      <3> SUFFICES ASSUME now <= now', NewestFirst(workspace.items, now)
                   PROVE  NewestFirst(workspace.items, now')
        BY <2>2
      <3>1. now \in Nat /\ now' \in Nat
        BY <1>1, AppStep, CommandsAssumption DEF CaptureInv, CommandInv
      <3>2. \A i \in 1..Len(workspace.items) : workspace.items[i].captured_at \in Nat
        BY <1>1, FieldsOfWorkspace DEF CaptureInv, CommandInv, WellKept
      <3> QED
        BY <3>1, <3>2 DEF NewestFirst
    <2> QED
      BY <1>1, <2>1, <2>2, AppStep
  <1>2. CaptureInv /\ [CaptureNext]_<<vars, captureVars>> => [InOrder]_<<vars, captureVars>>
    BY <1>1
  <1> QED
    BY <1>2, CaptureInvariance, PTL DEF CaptureSpec

\* ClipboardCapture.NothingComesBackByItself for any history, policy and order of clicks:
\* capture_clipboard_text() of src/desktop/app.rs ingests only a text that differs from
\* the one it remembers, and copy_clipboard_item() remembers the app's own copies, so a
\* text gains an item only when another program has copied it.
THEOREM NothingComesBack == CaptureSpec => NothingComesBackByItself
  <1> DEFINE Asked ==
               \A text \in Texts :
                 Cardinality(Copies(workspace', text)) > Cardinality(Copies(workspace, text))
                   => copied /\ clipboard = text
  <1>1. ASSUME CaptureInv, [CaptureNext]_<<vars, captureVars>> PROVE Asked
    <2> SUFFICES ASSUME NEW text \in Texts,
                        Cardinality(Copies(workspace', text))
                          > Cardinality(Copies(workspace, text))
                 PROVE  copied /\ clipboard = text
      OBVIOUS
    <2>1. workspace.items \in Seq(Items) /\ workspace'.items \in Seq(Items)
      <3>1. IsWorkspace(workspace) /\ IsWorkspace(workspace')
        BY <1>1, CaptureNextInv DEF CaptureInv, CommandInv, WellKept
      <3> QED
        BY <3>1, FieldsOfWorkspace
    <2>2. /\ Copies(workspace, text) = CopiesAmong(workspace.items, text)
          /\ Copies(workspace', text) = CopiesAmong(workspace'.items, text)
      BY DEF Copies, CopiesAmong
    <2>3. /\ Cardinality(Copies(workspace, text)) \in Nat
          /\ Cardinality(Copies(workspace', text)) \in Nat
      BY <2>1, <2>2, ComesFromItself, ComesFromAddsNoCopy
    <2>4. CASE Keeps
      BY <2>2, <2>3, <2>4 DEF Keeps
    <2>5. CASE UNCHANGED workspace
      BY <2>3, <2>5
    <2> QED
      BY <1>1, <2>4, <2>5, AppStep
  <1>2. CaptureInv /\ [CaptureNext]_<<vars, captureVars>> => [Asked]_<<vars, captureVars>>
    BY <1>1
  <1>3. CaptureSpec => [][Asked]_<<vars, captureVars>>
    BY <1>2, CaptureInvariance, PTL DEF CaptureSpec
  <1> QED
    BY <1>3 DEF NothingComesBackByItself
=============================================================================
