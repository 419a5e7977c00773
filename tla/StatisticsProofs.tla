-------------------------- MODULE StatisticsProofs ---------------------------
(***************************************************************************)
(* Proofs about Statistics for every number of handler threads, every set  *)
(* of users, all batches and all registrations, however they overlap.      *)
(***************************************************************************)
EXTENDS Statistics, SequenceTheorems, TLAPS

Resetting == {"clearing", "registering"}

\* What a handler has to do are users while it resets the table, items otherwise.
TodoOK ==
    /\ todo \in [Handlers -> Seq(Users) \cup Seq(Items)]
    /\ \A h \in Handlers :
          /\ at[h] \in Resetting => todo[h] \in Seq(Users)
          /\ at[h] \notin Resetting => todo[h] \in Seq(Items)
          /\ at[h] \in Updating => todo[h] # <<>>

Types == StatisticsTypeOK /\ TodoOK

\* The handlers that hold a row, and the rows of a user: that in the table, and those
\* that handlers hold on his behalf.
Holding(h) == at[h] \in Updating \ {"create"}
Owns(u, k) == \/ mapUserData[u] = k
              \/ \E h \in Handlers : Holding(h) /\ userEvent[h] = k /\ Item(h).id = u

EventsOf(u) == {i.event : i \in {j \in Items : j.id = u}}

\* A row has one owner and lists nobody else's events.
OwnerInv ==
    \A k \in 1 .. Len(userEvents) :
        /\ \A u, v \in Users : Owns(u, k) /\ Owns(v, k) => u = v
        /\ \A u \in Users : Owns(u, k) => userEvents[k].unAckEvents \subseteq EventsOf(u)

\* One request at a time touches a user, unless two have overlapped.
Sole ==
    \A u \in Users \ overlapped : \A g, h \in Handlers :
        u \in Touches(g) /\ u \in Touches(h) => g = h

BusyWith(h, u) == at[h] \in Updating /\ Item(h).id = u

\* What the table says about a user.
Says(u) == IF mapUserData[u] = 0 THEN NewUserEvent ELSE userEvents[mapUserData[u]]

\* How far a handler is with the user's row: the history is ahead of the row from the
\* moment that an acknowledged event was found until it is counted.
InStep(h, u) ==
    /\ at[h] = "create" => mapUserData[u] = 0 /\ ledger[u] = NewUserEvent
    /\ at[h] # "create" => userEvent[h] = mapUserData[u]
    /\ at[h] \in {"update", "updating"} => ledger[u] = Row(h)
    /\ at[h] = "updating" => ~torn[h]
    /\ at[h] \in {"counting", "storing"} =>
          ledger[u] = [Row(h) EXCEPT !.totalAckEvents = @ + 1]
    /\ at[h] = "storing" => count[h] = Row(h).totalAckEvents

AccurateFor(u) ==
    /\ ~Busy(u) => ledger[u] = Says(u)
    /\ \A h \in Handlers : BusyWith(h, u) => InStep(h, u)

AccurateInv == \A u \in Users \ overlapped : AccurateFor(u)

-----------------------------------------------------------------------------
(* Sequences, items and rows. *)

LEMMA ItemFacts ==
    ASSUME NEW i \in Items
    PROVE  /\ i.id \in Users /\ i.type \in {"new", "ack", "ListenerStatus"}
           /\ i.type # "ListenerStatus" => i.event \in Events
           /\ i.type = "ListenerStatus" => i.event \in {"true", "false"}
  <1>1. PICK b \in Batches : \E k \in DOMAIN b : i = b[k]
    BY DEF Items
  <1>2. PICK k \in DOMAIN b : i = b[k]
    BY <1>1
  <1>3. i.type # "ListenerStatus" => i.event \in Events
    BY <1>2 DEF Events
  <1> QED
    BY <1>2, <1>3, StatisticsAssumption DEF StatisticsAssumption

\* Taking the first element off a sequence.
LEMMA RestFacts ==
    ASSUME NEW S, NEW s \in Seq(S), s # <<>>
    PROVE  /\ Head(s) \in S /\ Head(s) = s[1] /\ 1 \in DOMAIN s
           /\ Tail(s) \in Seq(S)
           /\ \A k \in DOMAIN Tail(s) : k + 1 \in DOMAIN s /\ Tail(s)[k] = s[k + 1]
  <1>1. Len(s) \in Nat \ {0} /\ DOMAIN s = 1 .. Len(s)
    BY EmptySeq, LenProperties
  <1>2. Head(s) = s[1] /\ Head(s) \in S
    BY <1>1
  <1>3. /\ Tail(s) \in Seq(S) /\ Len(Tail(s)) = Len(s) - 1
        /\ \A k \in 1 .. Len(s) - 1 : Tail(s)[k] = s[k + 1]
    BY <1>1, HeadTailProperties
  <1>4. DOMAIN Tail(s) = 1 .. Len(s) - 1
    BY <1>3, LenProperties
  <1> QED
    BY <1>1, <1>2, <1>3, <1>4

\* Adding a row to the rows there are.
LEMMA NewRowFacts ==
    ASSUME userEvents \in Seq(UserEvent), userEvents' = Append(userEvents, NewUserEvent)
    PROVE  /\ userEvents' \in Seq(UserEvent)
           /\ Len(userEvents) \in Nat /\ Len(userEvents') = Len(userEvents) + 1
           /\ \A k \in 1 .. Len(userEvents) : userEvents'[k] = userEvents[k]
           /\ userEvents'[Len(userEvents) + 1] = NewUserEvent
  <1>1. NewUserEvent \in UserEvent
    BY DEF NewUserEvent, UserEvent
  <1> QED
    BY <1>1, AppendProperties, LenProperties

\* Changing one row.
RowBecomes(k, row) ==
    /\ Len(userEvents') = Len(userEvents) /\ userEvents' \in Seq(UserEvent)
    /\ userEvents'[k] = row
    /\ \A j \in 1 .. Len(userEvents) : j # k => userEvents'[j] = userEvents[j]

LEMMA RowFacts ==
    ASSUME userEvents \in Seq(UserEvent), NEW k \in 1 .. Len(userEvents),
           NEW row \in UserEvent, userEvents' = [userEvents EXCEPT ![k] = row]
    PROVE  RowBecomes(k, row)
  <1>1. Len(userEvents) \in Nat /\ userEvents \in [1 .. Len(userEvents) -> UserEvent]
    BY LenProperties
  <1>2. userEvents' \in [1 .. Len(userEvents) -> UserEvent]
    BY <1>1
  <1>3. userEvents' \in Seq(UserEvent) /\ Len(userEvents') = Len(userEvents)
    BY <1>1, <1>2, SeqDef, LenProperties
  <1> QED
    BY <1>1, <1>3 DEF RowBecomes

\* The fields of a row.
LEMMA FieldFacts ==
    ASSUME NEW row \in UserEvent
    PROVE  /\ row.unAckEvents \subseteq Events /\ row.totalAckEvents \in Nat
           /\ \A l \in SUBSET Events : [row EXCEPT !.unAckEvents = l] \in UserEvent
           /\ \A n \in Nat : [row EXCEPT !.totalAckEvents = n] \in UserEvent
           /\ \A s \in {"true", "false"} : [row EXCEPT !.isListening = s] \in UserEvent
           /\ \A e \in Events : Announce(row, e) \in UserEvent /\ Acknowledge(row, e) \in UserEvent
  <1>1. row.unAckEvents \subseteq Events /\ row.totalAckEvents \in Nat
    BY DEF UserEvent
  <1>2. \A l \in SUBSET Events : [row EXCEPT !.unAckEvents = l] \in UserEvent
    BY DEF UserEvent
  <1>3. \A n \in Nat : [row EXCEPT !.totalAckEvents = n] \in UserEvent
    BY DEF UserEvent
  <1>4. \A s \in {"true", "false"} : [row EXCEPT !.isListening = s] \in UserEvent
    BY DEF UserEvent
  <1>5. \A l \in SUBSET Events : \A n \in Nat :
           [row EXCEPT !.unAckEvents = l, !.totalAckEvents = n] \in UserEvent
    BY DEF UserEvent
  <1>6. \A e \in Events : Announce(row, e) \in UserEvent
    BY <1>1, <1>2 DEF Announce
  <1>7. ASSUME NEW e \in Events
        PROVE  Acknowledge(row, e) \in UserEvent
    <2>1. row.unAckEvents \ {e} \in SUBSET Events /\ row.totalAckEvents + 1 \in Nat
      BY <1>1
    <2>2. [row EXCEPT !.unAckEvents = @ \ {e}, !.totalAckEvents = @ + 1] \in UserEvent
      BY <2>1, <1>5
    <2> QED
      BY <2>2 DEF Acknowledge
  <1> QED
    BY <1>1, <1>2, <1>3, <1>4, <1>6, <1>7

\* A handler that has something to do, and the row that it holds.
LEMMA HandlerFacts ==
    ASSUME Types, NEW h \in Handlers
    PROVE  /\ at[h] \notin Resetting /\ todo[h] # <<>> => Item(h) \in Items
           /\ at[h] \in Updating => todo[h] # <<>> /\ Item(h) \in Items /\ Item(h).id \in Users
           /\ Holding(h) => userEvent[h] \in 1 .. Len(userEvents) /\ Row(h) \in UserEvent
  <1>1. at[h] \in Updating => at[h] \notin Resetting
    BY DEF Updating, Resetting
  <1>2. at[h] \notin Resetting /\ todo[h] # <<>> => Item(h) \in Items
    BY RestFacts DEF Types, TodoOK, Item
  <1>3. at[h] \in Updating => todo[h] # <<>>
    BY DEF Types, TodoOK
  <1>4. ASSUME Holding(h)
        PROVE  userEvent[h] \in 1 .. Len(userEvents) /\ Row(h) \in UserEvent
    <2>1. /\ userEvents \in Seq(UserEvent) /\ userEvent[h] \in 0 .. Len(userEvents)
          /\ userEvent[h] # 0
      BY <1>4 DEF Holding, Types, StatisticsTypeOK
    <2>2. Len(userEvents) \in Nat
      BY <2>1, LenProperties
    <2>3. userEvent[h] \in 1 .. Len(userEvents)
      BY <2>1, <2>2
    <2> QED
      BY <2>1, <2>3, ElementOfSeq DEF Row
  <1> QED
    BY <1>1, <1>2, <1>3, <1>4, ItemFacts

-----------------------------------------------------------------------------
(* Types. *)

LEMMA InitTypes == Init => Types
  <1> SUFFICES ASSUME Init PROVE Types
    OBVIOUS
  <1>1. userEvents \in Seq(UserEvent) /\ Len(userEvents) = 0
    BY EmptySeq DEF Init
  <1>2. NewUserEvent \in UserEvent
    BY DEF NewUserEvent, UserEvent
  <1>3. <<>> \in Seq(Users) /\ <<>> \in Seq(Items)
    BY EmptySeq
  <1>4. StatisticsTypeOK
    BY <1>1, <1>2, StatisticsAssumption
       DEF Init, StatisticsTypeOK, StatisticsAssumption, HandlerState, Updating
  <1>5. TodoOK
    BY <1>3 DEF Init, TodoOK, Resetting, Updating
  <1> QED
    BY <1>4, <1>5 DEF Types

\* The part of the type invariant that is about the table, and that about a handler.
TableTypes ==
    /\ userEvents \in Seq(UserEvent)
    /\ mapUserData \in [Users -> 0 .. Len(userEvents)]
    /\ userEvent \in [Handlers -> 0 .. Len(userEvents)]

PlaceTypes ==
    /\ at \in [Handlers -> HandlerState]
    /\ todo \in [Handlers -> Seq(Users) \cup Seq(Items)]
    /\ \A h \in Handlers :
          /\ at[h] \in Updating \ {"create"} => userEvent[h] # 0
          /\ at[h] \in Resetting => todo[h] \in Seq(Users)
          /\ at[h] \notin Resetting => todo[h] \in Seq(Items)
          /\ at[h] \in Updating => todo[h] # <<>>

OtherTypes ==
    /\ pending \subseteq Batches
    /\ resets \in 0 .. MaxResets
    /\ left \in [Handlers -> SUBSET Users]
    /\ torn \in [Handlers -> BOOLEAN]
    /\ count \in [Handlers -> Nat]
    /\ ledger \in [Users -> UserEvent]
    /\ overlapped \in SUBSET Users

LEMMA TypesSplit ==
    /\ Types <=> TableTypes /\ PlaceTypes /\ OtherTypes
    /\ Types' <=> TableTypes' /\ PlaceTypes' /\ OtherTypes'
  BY DEF Types, StatisticsTypeOK, TodoOK, TableTypes, PlaceTypes, OtherTypes

\* An update of one row leaves a table.
LEMMA UpdateTypes ==
    ASSUME TableTypes, NEW h \in Handlers, userEvent[h] \in 1 .. Len(userEvents),
           NEW row \in UserEvent, userEvents' = [userEvents EXCEPT ![userEvent[h]] = row],
           UNCHANGED <<mapUserData, userEvent>>
    PROVE  TableTypes'
  <1>1. Len(userEvents') = Len(userEvents) /\ userEvents' \in Seq(UserEvent)
    BY RowFacts DEF TableTypes, RowBecomes
  <1> QED
    BY <1>1 DEF TableTypes

LEMMA AddRowTypes ==
    ASSUME TableTypes, NEW h \in Handlers, NEW u \in Users, AddRow(h, u),
           \/ UNCHANGED userEvent
           \/ userEvent' = [userEvent EXCEPT ![h] = Len(userEvents) + 1]
    PROVE  TableTypes'
  <1>1. /\ userEvents' \in Seq(UserEvent)
        /\ Len(userEvents) \in Nat /\ Len(userEvents') = Len(userEvents) + 1
    BY NewRowFacts DEF TableTypes, AddRow
  <1>2. mapUserData' \in [Users -> 0 .. Len(userEvents')]
    BY <1>1 DEF TableTypes, AddRow
  <1>3. userEvent' \in [Handlers -> 0 .. Len(userEvents')]
    BY <1>1 DEF TableTypes
  <1> QED
    BY <1>1, <1>2, <1>3 DEF TableTypes

\* A handler moves to another place.
LEMMA MoveTypes ==
    ASSUME PlaceTypes, NEW h \in Handlers, NEW place \in HandlerState,
           at' = [at EXCEPT ![h] = place],
           NEW rest \in Seq(Users) \cup Seq(Items), todo' = [todo EXCEPT ![h] = rest],
           \A g \in Handlers : g # h => userEvent'[g] = userEvent[g],
           place \in Updating \ {"create"} => userEvent'[h] # 0,
           place \in Resetting => rest \in Seq(Users),
           place \notin Resetting => rest \in Seq(Items),
           place \in Updating => rest # <<>>
    PROVE  PlaceTypes'
  <1>1. at' \in [Handlers -> HandlerState] /\ todo' \in [Handlers -> Seq(Users) \cup Seq(Items)]
    BY DEF PlaceTypes
  <1>2. at'[h] = place /\ todo'[h] = rest
    BY DEF PlaceTypes
  <1>3. \A g \in Handlers : g # h => at'[g] = at[g] /\ todo'[g] = todo[g]
    BY DEF PlaceTypes
  <1> QED
    BY <1>1, <1>2, <1>3 DEF PlaceTypes

\* A handler goes on to the next item.
LEMMA NextItemTypes ==
    ASSUME PlaceTypes, NEW h \in Handlers, at[h] \in Updating, NextItem(h), UNCHANGED userEvent
    PROVE  PlaceTypes'
  <1>1. at[h] \notin Resetting /\ todo[h] \in Seq(Items) /\ todo[h] # <<>>
    BY DEF PlaceTypes, Updating, Resetting
  <1>2. Tail(todo[h]) \in Seq(Items)
    BY <1>1, RestFacts
  <1>3. todo' = [todo EXCEPT ![h] = Tail(todo[h])] /\ at' = [at EXCEPT ![h] = "lookup"]
    BY DEF NextItem
  <1>4. "lookup" \in HandlerState /\ "lookup" \notin Updating /\ "lookup" \notin Resetting
    BY DEF HandlerState, Updating, Resetting
  <1> QED
    BY <1>2, <1>3, <1>4, MoveTypes

\* A handler goes on with the item that it has.
LEMMA StayTypes ==
    ASSUME PlaceTypes, NEW h \in Handlers, at[h] \notin Resetting, NEW place \in HandlerState,
           at' = [at EXCEPT ![h] = place], UNCHANGED todo, place \notin Resetting,
           \A g \in Handlers : g # h => userEvent'[g] = userEvent[g],
           place \in Updating \ {"create"} => userEvent'[h] # 0,
           place \in Updating => todo[h] # <<>>
    PROVE  PlaceTypes'
  <1>1. todo[h] \in Seq(Items) /\ todo' = [todo EXCEPT ![h] = todo[h]]
    BY DEF PlaceTypes
  <1> QED
    BY <1>1, MoveTypes


\* Which places are which.
LEMMA PlaceFacts ==
    /\ {"create", "update", "updating", "counting", "storing"} \subseteq HandlerState
    /\ {"idle", "lookup", "clearing", "registering"} \subseteq HandlerState
    /\ Updating \cap Resetting = {}
    /\ "idle" \notin Updating \cup Resetting /\ "lookup" \notin Updating \cup Resetting
    /\ {"create", "update", "updating", "counting", "storing"} \subseteq Updating
    /\ {"clearing", "registering"} \subseteq Resetting
    /\ \A x \in Resetting : x \in {"clearing", "registering"}
  BY DEF HandlerState, Updating, Resetting

LEMMA LookupTypes == ASSUME Types, NEW h \in Handlers, Lookup(h) PROVE Types'
  <1>1. TableTypes /\ PlaceTypes /\ OtherTypes
    BY TypesSplit
  <1> DEFINE row == mapUserData[Item(h).id]
  <1>2. at[h] = "lookup" /\ at[h] \notin Resetting /\ todo[h] # <<>>
    BY DEF Lookup, Resetting
  <1>3. Item(h).id \in Users
    BY <1>2, HandlerFacts, ItemFacts
  <1>4. /\ row \in 0 .. Len(userEvents) /\ userEvent' = [userEvent EXCEPT ![h] = row]
        /\ at' = [at EXCEPT ![h] = IF row = 0 THEN "create" ELSE "update"]
        /\ UNCHANGED todo
    BY <1>1, <1>3 DEF Lookup, TableTypes
  <1> HIDE DEF row
  <1>5. TableTypes'
    BY <1>1, <1>4 DEF TableTypes, Lookup, table
  <1>6. userEvent'[h] = row /\ \A g \in Handlers : g # h => userEvent'[g] = userEvent[g]
    BY <1>1, <1>4 DEF TableTypes
  <1>7. PlaceTypes'
    <2>1. CASE row = 0
      <3>1. at' = [at EXCEPT ![h] = "create"]
        BY <1>4, <2>1
      <3> QED
        BY <1>1, <1>2, <1>4, <1>6, <3>1, PlaceFacts, StayTypes
    <2>2. CASE row # 0
      <3>1. at' = [at EXCEPT ![h] = "update"]
        BY <1>4, <2>2
      <3> QED
        BY <1>1, <1>2, <1>4, <1>6, <2>2, <3>1, PlaceFacts, StayTypes
    <2> QED
      BY <2>1, <2>2
  <1>8. OtherTypes'
    BY <1>1 DEF OtherTypes, Lookup
  <1> QED
    BY <1>5, <1>7, <1>8, TypesSplit

LEMMA CreateTypes == ASSUME Types, NEW h \in Handlers, Create(h) PROVE Types'
  <1>1. TableTypes /\ PlaceTypes /\ OtherTypes
    BY TypesSplit
  <1>2. at[h] = "create" /\ at[h] \notin Resetting /\ todo[h] # <<>> /\ Item(h).id \in Users
    BY HandlerFacts, PlaceFacts DEF Create
  <1>3. TableTypes'
    BY <1>1, <1>2, AddRowTypes DEF Create
  <1>4. /\ userEvent'[h] = Len(userEvents) + 1 /\ Len(userEvents) \in Nat
        /\ \A g \in Handlers : g # h => userEvent'[g] = userEvent[g]
    BY <1>1, LenProperties DEF TableTypes, Create
  <1>5. userEvent'[h] # 0
    BY <1>4
  <1>6. at' = [at EXCEPT ![h] = "update"] /\ UNCHANGED todo
    BY DEF Create
  <1>7. PlaceTypes'
    BY <1>1, <1>2, <1>4, <1>5, <1>6, PlaceFacts, StayTypes
  <1>8. OtherTypes'
    BY <1>1 DEF OtherTypes, Create
  <1> QED
    BY <1>3, <1>7, <1>8, TypesSplit

LEMMA SetListenerStatusTypes ==
    ASSUME Types, NEW h \in Handlers, SetListenerStatus(h) PROVE Types'
  <1>1. TableTypes /\ PlaceTypes /\ OtherTypes
    BY TypesSplit
  <1>2. /\ at[h] = "update" /\ at[h] \in Updating /\ Item(h) \in Items /\ Item(h).id \in Users
        /\ userEvent[h] \in 1 .. Len(userEvents) /\ Row(h) \in UserEvent
    BY HandlerFacts, PlaceFacts DEF SetListenerStatus, Holding
  <1>3. Item(h).event \in {"true", "false"}
    BY <1>2, ItemFacts DEF SetListenerStatus
  <1>4. /\ [Row(h) EXCEPT !.isListening = Item(h).event] \in UserEvent
        /\ [ledger[Item(h).id] EXCEPT !.isListening = Item(h).event] \in UserEvent
    BY <1>1, <1>2, <1>3, FieldFacts DEF OtherTypes
  <1>5. userEvents' = [userEvents EXCEPT ![userEvent[h]] = [Row(h) EXCEPT !.isListening = Item(h).event]]
    BY DEF SetListenerStatus, Row
  <1>6. TableTypes'
    BY <1>1, <1>2, <1>4, <1>5, UpdateTypes DEF SetListenerStatus
  <1>7. PlaceTypes'
    BY <1>1, <1>2, NextItemTypes DEF SetListenerStatus
  <1>8. OtherTypes'
    BY <1>1, <1>2, <1>4 DEF OtherTypes, SetListenerStatus
  <1> QED
    BY <1>6, <1>7, <1>8, TypesSplit

LEMMA BeginUpdateTypes == ASSUME Types, NEW h \in Handlers, BeginUpdate(h) PROVE Types'
  <1>1. TableTypes /\ PlaceTypes /\ OtherTypes
    BY TypesSplit
  <1>2. TableTypes'
    BY <1>1 DEF TableTypes, BeginUpdate, table
  <1>3. at[h] = "update" /\ at[h] \notin Resetting /\ todo[h] # <<>> /\ userEvent[h] # 0
    BY <1>1, PlaceFacts DEF PlaceTypes, BeginUpdate
  <1>4. at' = [at EXCEPT ![h] = "updating"] /\ UNCHANGED <<todo, userEvent>>
    BY DEF BeginUpdate
  <1>5. PlaceTypes'
    BY <1>1, <1>3, <1>4, PlaceFacts, StayTypes
  <1>6. torn' \in [Handlers -> BOOLEAN]
    BY <1>1 DEF OtherTypes, BeginUpdate
  <1>7. OtherTypes'
    BY <1>1, <1>6 DEF OtherTypes, BeginUpdate
  <1> QED
    BY <1>2, <1>5, <1>7, TypesSplit

\* The lists that an update may leave behind have events of the table only.
LEMMA OutcomeTypes ==
    ASSUME Types, NEW h \in Handlers, at[h] = "updating", Item(h).type # "ListenerStatus",
           NEW list \in SUBSET Events, NEW l \in Outcomes(h, list)
    PROVE  /\ Item(h).event \in Events /\ Row(h).unAckEvents \subseteq Events
           /\ l \in SUBSET Events /\ [Row(h) EXCEPT !.unAckEvents = l] \in UserEvent
  <1>1. at[h] \in Updating /\ Item(h) \in Items /\ Row(h) \in UserEvent
    BY HandlerFacts, PlaceFacts DEF Holding
  <1>2. Item(h).event \in Events /\ Row(h).unAckEvents \subseteq Events
    BY <1>1, ItemFacts, FieldFacts
  <1>3. l \in SUBSET Events
    BY <1>2 DEF Outcomes
  <1> QED
    BY <1>1, <1>2, <1>3, FieldFacts

LEMMA AddNewEventTypes == ASSUME Types, NEW h \in Handlers, AddNewEvent(h) PROVE Types'
  <1>1. TableTypes /\ PlaceTypes /\ OtherTypes
    BY TypesSplit
  <1>2. /\ at[h] = "updating" /\ at[h] \in Updating /\ Item(h) \in Items /\ Item(h).id \in Users
        /\ userEvent[h] \in 1 .. Len(userEvents) /\ Row(h) \in UserEvent
    BY HandlerFacts, PlaceFacts DEF AddNewEvent, Holding
  <1>3. Item(h).type # "ListenerStatus"
    BY DEF AddNewEvent
  <1>4. Item(h).event \in Events /\ Row(h).unAckEvents \cup {Item(h).event} \in SUBSET Events
    BY <1>2, <1>3, ItemFacts, FieldFacts
  <1>5. PICK l \in Outcomes(h, Row(h).unAckEvents \cup {Item(h).event}) :
          userEvents' = [userEvents EXCEPT ![userEvent[h]].unAckEvents = l]
    BY DEF AddNewEvent
  <1>6. [Row(h) EXCEPT !.unAckEvents = l] \in UserEvent
    BY <1>2, <1>3, <1>4, OutcomeTypes
  <1>7. userEvents' = [userEvents EXCEPT ![userEvent[h]] = [Row(h) EXCEPT !.unAckEvents = l]]
    BY <1>5 DEF Row
  <1>8. TableTypes'
    BY <1>1, <1>2, <1>6, <1>7, UpdateTypes DEF AddNewEvent
  <1>9. PlaceTypes'
    BY <1>1, <1>2, NextItemTypes DEF AddNewEvent
  <1>10. Announce(ledger[Item(h).id], Item(h).event) \in UserEvent
    BY <1>1, <1>2, <1>4, FieldFacts DEF OtherTypes
  <1>11. OtherTypes'
    BY <1>1, <1>2, <1>10 DEF OtherTypes, AddNewEvent
  <1> QED
    BY <1>8, <1>9, <1>11, TypesSplit

LEMMA AckEventTypes == ASSUME Types, NEW h \in Handlers, AckEvent(h) PROVE Types'
  <1>1. TableTypes /\ PlaceTypes /\ OtherTypes
    BY TypesSplit
  <1>2. /\ at[h] = "updating" /\ at[h] \in Updating /\ Item(h) \in Items /\ Item(h).id \in Users
        /\ userEvent[h] \in 1 .. Len(userEvents) /\ Row(h) \in UserEvent
        /\ at[h] \notin Resetting /\ todo[h] # <<>> /\ userEvent[h] # 0
    BY <1>1, HandlerFacts, PlaceFacts DEF AckEvent, Holding, PlaceTypes
  <1>3. Item(h).type # "ListenerStatus"
    BY DEF AckEvent
  <1>4. Item(h).event \in Events /\ Row(h).unAckEvents \ {Item(h).event} \in SUBSET Events
    BY <1>2, <1>3, ItemFacts, FieldFacts
  <1>5. PICK l \in Outcomes(h, Row(h).unAckEvents \ {Item(h).event}) :
          userEvents' = [userEvents EXCEPT ![userEvent[h]].unAckEvents = l]
    BY DEF AckEvent
  <1>6. [Row(h) EXCEPT !.unAckEvents = l] \in UserEvent
    BY <1>2, <1>3, <1>4, OutcomeTypes
  <1>7. userEvents' = [userEvents EXCEPT ![userEvent[h]] = [Row(h) EXCEPT !.unAckEvents = l]]
    BY <1>5 DEF Row
  <1>8. TableTypes'
    BY <1>1, <1>2, <1>6, <1>7, UpdateTypes DEF AckEvent
  <1>9. PlaceTypes'
    <2>1. \/ at' = [at EXCEPT ![h] = "counting"] /\ UNCHANGED todo
          \/ NextItem(h)
      BY DEF AckEvent
    <2>2. UNCHANGED userEvent
      BY DEF AckEvent
    <2>3. CASE at' = [at EXCEPT ![h] = "counting"] /\ UNCHANGED todo
      BY <1>1, <1>2, <2>2, <2>3, PlaceFacts, StayTypes
    <2>4. CASE NextItem(h)
      BY <1>1, <1>2, <2>2, <2>4, NextItemTypes
    <2> QED
      BY <2>1, <2>3, <2>4
  <1>10. Acknowledge(ledger[Item(h).id], Item(h).event) \in UserEvent
    BY <1>1, <1>2, <1>4, FieldFacts DEF OtherTypes
  <1>11. OtherTypes'
    BY <1>1, <1>2, <1>10 DEF OtherTypes, AckEvent
  <1> QED
    BY <1>8, <1>9, <1>11, TypesSplit

LEMMA CountTypes ==
    ASSUME Types, NEW h \in Handlers, ReadCount(h) \/ StoreCount(h) PROVE Types'
  <1>1. TableTypes /\ PlaceTypes /\ OtherTypes
    BY TypesSplit
  <1>2. /\ at[h] \in {"counting", "storing"} /\ at[h] \in Updating /\ todo[h] # <<>>
        /\ userEvent[h] \in 1 .. Len(userEvents) /\ Row(h) \in UserEvent
        /\ at[h] \notin Resetting /\ userEvent[h] # 0
    BY <1>1, HandlerFacts, PlaceFacts DEF ReadCount, StoreCount, Holding, PlaceTypes
  <1>3. CASE ReadCount(h)
    <2>1. TableTypes'
      BY <1>1, <1>3 DEF TableTypes, ReadCount, table
    <2>2. at' = [at EXCEPT ![h] = "storing"] /\ UNCHANGED <<todo, userEvent>>
      BY <1>3 DEF ReadCount
    <2>3. PlaceTypes'
      BY <1>1, <1>2, <2>2, PlaceFacts, StayTypes
    <2>4. Row(h).totalAckEvents \in Nat
      BY <1>2, FieldFacts
    <2>5. OtherTypes'
      BY <1>1, <1>3, <2>4 DEF OtherTypes, ReadCount
    <2> QED
      BY <2>1, <2>3, <2>5, TypesSplit
  <1>4. CASE StoreCount(h)
    <2>1. count[h] + 1 \in Nat
      BY <1>1 DEF OtherTypes
    <2>2. [Row(h) EXCEPT !.totalAckEvents = count[h] + 1] \in UserEvent
      BY <1>2, <2>1, FieldFacts
    <2>3. userEvents' = [userEvents EXCEPT ![userEvent[h]] =
                                  [Row(h) EXCEPT !.totalAckEvents = count[h] + 1]]
      BY <1>4 DEF StoreCount, Row
    <2>4. TableTypes'
      BY <1>1, <1>2, <1>4, <2>2, <2>3, UpdateTypes DEF StoreCount
    <2>5. PlaceTypes'
      BY <1>1, <1>2, <1>4, NextItemTypes DEF StoreCount
    <2>6. OtherTypes'
      BY <1>1, <1>4 DEF OtherTypes, StoreCount
    <2> QED
      BY <2>4, <2>5, <2>6, TypesSplit
  <1> QED
    BY <1>3, <1>4

LEMMA EndTypes ==
    ASSUME Types, NEW h \in Handlers, Throw(h) \/ Answer(h) PROVE Types'
  <1>1. TableTypes /\ PlaceTypes /\ OtherTypes
    BY TypesSplit
  <1>2. TableTypes'
    BY <1>1 DEF TableTypes, Throw, Answer, table
  <1>3. /\ at' = [at EXCEPT ![h] = "idle"] /\ UNCHANGED userEvent
        /\ todo' = [todo EXCEPT ![h] = <<>>]
    BY <1>1 DEF Throw, Answer, PlaceTypes
  <1>4. <<>> \in Seq(Items)
    BY EmptySeq
  <1>5. PlaceTypes'
    BY <1>1, <1>3, <1>4, PlaceFacts, MoveTypes
  <1>6. OtherTypes'
    BY <1>1 DEF OtherTypes, Throw, Answer
  <1> QED
    BY <1>2, <1>5, <1>6, TypesSplit

LEMMA ClearRowTypes ==
    ASSUME Types, NEW h \in Handlers, NEW u \in Users, ClearRow(h, u) PROVE Types'
  <1>1. TableTypes /\ PlaceTypes /\ OtherTypes
    BY TypesSplit
  <1>2. TableTypes'
    BY <1>1, LenProperties DEF TableTypes, ClearRow
  <1>3. /\ at[h] \in Resetting /\ todo[h] \in Seq(Users) /\ UNCHANGED <<todo, userEvent>>
        /\ todo' = [todo EXCEPT ![h] = todo[h]]
    BY <1>1, PlaceFacts DEF ClearRow, PlaceTypes
  <1>4. PICK place \in Resetting : at' = [at EXCEPT ![h] = place]
    BY PlaceFacts DEF ClearRow
  <1>5. place \in HandlerState /\ place \notin Updating
    BY PlaceFacts
  <1>6. PlaceTypes'
    BY <1>1, <1>3, <1>4, <1>5, MoveTypes
  <1>7. NewUserEvent \in UserEvent
    BY DEF NewUserEvent, UserEvent
  <1>8. OtherTypes'
    BY <1>1, <1>7 DEF OtherTypes, ClearRow
  <1> QED
    BY <1>2, <1>6, <1>8, TypesSplit

LEMMA RegisterUserTypes == ASSUME Types, NEW h \in Handlers, RegisterUser(h) PROVE Types'
  <1>1. TableTypes /\ PlaceTypes /\ OtherTypes
    BY TypesSplit
  <1>2. at[h] = "registering" /\ at[h] \in Resetting /\ todo[h] \in Seq(Users) /\ todo[h] # <<>>
    BY <1>1, PlaceFacts DEF RegisterUser, PlaceTypes
  <1>3. Head(todo[h]) \in Users /\ Tail(todo[h]) \in Seq(Users)
    BY <1>2, RestFacts
  <1>4. AddRow(h, Head(todo[h])) /\ UNCHANGED userEvent
    BY DEF RegisterUser
  <1>5. TableTypes'
    BY <1>1, <1>3, <1>4, AddRowTypes
  <1>6. /\ todo' = [todo EXCEPT ![h] = Tail(todo[h])]
        /\ at' = [at EXCEPT ![h] = "registering"]
    BY <1>1, <1>2 DEF RegisterUser, PlaceTypes
  <1>7. PlaceTypes'
    BY <1>1, <1>3, <1>4, <1>6, PlaceFacts, MoveTypes
  <1>8. NewUserEvent \in UserEvent
    BY DEF NewUserEvent, UserEvent
  <1>9. OtherTypes'
    BY <1>1, <1>3, <1>8 DEF OtherTypes, RegisterUser
  <1> QED
    BY <1>5, <1>7, <1>9, TypesSplit

LEMMA RequestTypes == ASSUME Types, NEW h \in Handlers, Request(h) PROVE Types'
  <1>1. TableTypes /\ PlaceTypes /\ OtherTypes
    BY TypesSplit
  <1>2. ASSUME NEW batch \in Batches, PutStatistics(h, batch)
        PROVE  Types'
    <2>1. TableTypes'
      BY <1>1, <1>2 DEF TableTypes, PutStatistics, table
    <2>2. batch \in Seq(Items)
      BY StatisticsAssumption DEF StatisticsAssumption
    <2>3. /\ todo' = [todo EXCEPT ![h] = batch] /\ UNCHANGED userEvent
          /\ at' = [at EXCEPT ![h] = "lookup"]
      BY <1>2 DEF PutStatistics
    <2>4. PlaceTypes'
      BY <1>1, <2>2, <2>3, PlaceFacts, MoveTypes
    <2>5. overlapped' \in SUBSET Users
      BY <1>1, <1>2, StatisticsAssumption
         DEF OtherTypes, PutStatistics, Arrives, StatisticsAssumption
    <2>6. OtherTypes'
      BY <1>1, <1>2, <2>5 DEF OtherTypes, PutStatistics
    <2> QED
      BY <2>1, <2>4, <2>6, TypesSplit
  <1>3. ASSUME NEW users \in {<<>>, Registered}, Reset(h, users)
        PROVE  Types'
    <2>1. TableTypes'
      BY <1>1, <1>3 DEF TableTypes, Reset, table
    <2>2. users \in Seq(Users)
      BY StatisticsAssumption, EmptySeq DEF StatisticsAssumption
    <2>3. /\ todo' = [todo EXCEPT ![h] = users] /\ UNCHANGED userEvent
          /\ at' = [at EXCEPT ![h] = "clearing"]
      BY <1>3 DEF Reset
    <2>4. PlaceTypes'
      BY <1>1, <2>2, <2>3, PlaceFacts, MoveTypes
    <2>5. overlapped' \in SUBSET Users
      BY <1>1, <1>3 DEF OtherTypes, Reset, Arrives
    <2>6. resets' \in 0 .. MaxResets
      BY <1>1, <1>3, StatisticsAssumption DEF OtherTypes, Reset, StatisticsAssumption
    <2>7. OtherTypes'
      BY <1>1, <1>3, <2>5, <2>6 DEF OtherTypes, Reset
    <2> QED
      BY <2>1, <2>4, <2>7, TypesSplit
  <1> QED
    BY <1>2, <1>3 DEF Request

LEMMA NextTypes == Types /\ [Next]_vars => Types'
  <1> SUFFICES ASSUME Types, [Next]_vars PROVE Types'
    OBVIOUS
  <1>1. ASSUME NEW h \in Handlers, Step(h)
        PROVE  Types'
    BY <1>1, LookupTypes, CreateTypes, SetListenerStatusTypes, BeginUpdateTypes,
       AddNewEventTypes, AckEventTypes, CountTypes, EndTypes, RegisterUserTypes,
       ClearRowTypes DEF Step
  <1>2. ASSUME NEW h \in Handlers, Request(h)
        PROVE  Types'
    BY <1>2, RequestTypes
  <1>3. CASE UNCHANGED vars
    BY <1>3 DEF vars, table, Types, StatisticsTypeOK, TodoOK
  <1> QED
    BY <1>1, <1>2, <1>3 DEF Next

LEMMA AlwaysTyped == Spec => []Types
  BY InitTypes, NextTypes, PTL DEF Spec

\* Every variable of the table and its handlers stays in its type, and whoever is about
\* to update a row holds one: updateData never works on null.
THEOREM StatisticsTypeCorrect == Spec => []StatisticsTypeOK
  <1>1. Types => StatisticsTypeOK
    BY DEF Types
  <1> QED
    BY <1>1, AlwaysTyped, PTL

-----------------------------------------------------------------------------
(* Whose rows are whose. *)

\* Nobody gets a row unless it is the user's in the table, and a row that changes has
\* new events of the user only for whom a handler holds it.
OwnersStay ==
    /\ Len(userEvents') = Len(userEvents)
    /\ \A u \in Users : mapUserData'[u] \in {mapUserData[u], 0}
    /\ \A g \in Handlers : Holding(g)' =>
          \/ Holding(g) /\ userEvent'[g] = userEvent[g] /\ todo'[g] = todo[g]
          \/ userEvent'[g] = mapUserData[Item(g).id] /\ todo'[g] = todo[g]
    /\ \A k \in 1 .. Len(userEvents) :
          \/ userEvents'[k].unAckEvents = userEvents[k].unAckEvents
          \/ \E g \in Handlers :
                /\ Holding(g) /\ userEvent[g] = k
                /\ userEvents'[k].unAckEvents \subseteq
                      userEvents[k].unAckEvents \cup EventsOf(Item(g).id)

LEMMA OwnersKept == Types /\ OwnerInv /\ OwnersStay => OwnerInv'
  <1> SUFFICES ASSUME Types, OwnerInv, OwnersStay PROVE OwnerInv'
    OBVIOUS
  <1>1. Len(userEvents) \in Nat /\ Len(userEvents') = Len(userEvents)
    BY LenProperties DEF Types, StatisticsTypeOK, OwnersStay
  <1>2. ASSUME NEW k \in 1 .. Len(userEvents), NEW u \in Users, Owns(u, k)'
        PROVE  Owns(u, k)
    <2>1. CASE mapUserData'[u] = k
      BY <1>1, <2>1 DEF OwnersStay, Owns
    <2>2. ASSUME NEW g \in Handlers, Holding(g)', userEvent'[g] = k, Item(g)'.id = u
          PROVE  Owns(u, k)
      <3>1. \/ Holding(g) /\ userEvent[g] = k /\ todo'[g] = todo[g]
            \/ k = mapUserData[Item(g).id] /\ todo'[g] = todo[g]
        BY <2>2 DEF OwnersStay
      <3>2. Item(g).id = u
        BY <2>2, <3>1 DEF Item
      <3> QED
        BY <3>1, <3>2 DEF Owns
    <2> QED
      BY <1>2, <2>1, <2>2 DEF Owns
  <1>3. ASSUME NEW k \in 1 .. Len(userEvents), NEW u \in Users, Owns(u, k)
        PROVE  userEvents'[k].unAckEvents \subseteq EventsOf(u)
    <2>1. userEvents[k].unAckEvents \subseteq EventsOf(u)
      BY <1>3 DEF OwnerInv
    <2>2. ASSUME NEW g \in Handlers, Holding(g), userEvent[g] = k
          PROVE  Item(g).id = u
      <3>1. Item(g).id \in Users
        BY <2>2, HandlerFacts DEF Holding
      <3>2. Owns(Item(g).id, k)
        BY <2>2 DEF Owns
      <3> QED
        BY <1>3, <3>1, <3>2 DEF OwnerInv
    <2> QED
      BY <2>1, <2>2 DEF OwnersStay
  <1> QED
    BY <1>1, <1>2, <1>3 DEF OwnerInv

LEMMA OwnersOfNewRow ==
    ASSUME Types, OwnerInv, NEW h \in Handlers, NEW u \in Users, AddRow(h, u),
           \A g \in Handlers : Holding(g)' =>
              \/ Holding(g) /\ userEvent'[g] = userEvent[g] /\ todo'[g] = todo[g]
              \/ userEvent'[g] = Len(userEvents) + 1 /\ Item(g)'.id = u
    PROVE  OwnerInv'
  <1>0. PICK n : n = Len(userEvents) + 1
    OBVIOUS
  <1>1. /\ Len(userEvents) \in Nat /\ Len(userEvents') = n
        /\ \A k \in 1 .. Len(userEvents) : userEvents'[k] = userEvents[k]
        /\ userEvents'[n] = NewUserEvent
    BY <1>0, NewRowFacts DEF Types, StatisticsTypeOK, AddRow
  <1>2. /\ mapUserData'[u] = n
        /\ \A v \in Users : mapUserData[v] \in 0 .. Len(userEvents)
        /\ \A v \in Users : v # u => mapUserData'[v] = mapUserData[v]
        /\ \A g \in Handlers : userEvent[g] \in 0 .. Len(userEvents)
    BY <1>0 DEF Types, StatisticsTypeOK, AddRow
  <1>3. /\ n \in Nat /\ n \notin 0 .. Len(userEvents)
        /\ 1 .. Len(userEvents') = 1 .. Len(userEvents) \cup {n}
    BY <1>0, <1>1
  <1>4. ASSUME NEW k \in 1 .. Len(userEvents), NEW v \in Users, Owns(v, k)'
        PROVE  Owns(v, k)
    <2>1. k # n
      BY <1>1, <1>3
    <2>2. CASE mapUserData'[v] = k
      BY <1>2, <2>1, <2>2 DEF Owns
    <2>3. ASSUME NEW g \in Handlers, Holding(g)', userEvent'[g] = k, Item(g)'.id = v
          PROVE  Owns(v, k)
      <3>1. Holding(g) /\ userEvent[g] = k /\ todo'[g] = todo[g]
        BY <1>0, <2>1, <2>3
      <3>2. Item(g).id = v
        BY <2>3, <3>1 DEF Item
      <3> QED
        BY <3>1, <3>2 DEF Owns
    <2> QED
      BY <1>4, <2>2, <2>3 DEF Owns
  <1>5. ASSUME NEW v \in Users, Owns(v, n)'
        PROVE  v = u
    <2>1. CASE mapUserData'[v] = n
      BY <1>2, <1>3, <2>1
    <2>2. ASSUME NEW g \in Handlers, Holding(g)', userEvent'[g] = n, Item(g)'.id = v
          PROVE  v = u
      BY <1>0, <1>2, <1>3, <2>2
    <2> QED
      BY <1>5, <2>1, <2>2 DEF Owns
  <1>6. userEvents'[n].unAckEvents = {}
    BY <1>1 DEF NewUserEvent
  <1>7. ASSUME NEW k \in 1 .. Len(userEvents)
        PROVE  /\ \A v, w \in Users : Owns(v, k)' /\ Owns(w, k)' => v = w
               /\ \A v \in Users : Owns(v, k)' => userEvents'[k].unAckEvents \subseteq EventsOf(v)
    BY <1>1, <1>4, <1>7 DEF OwnerInv
  <1>8. /\ \A v, w \in Users : Owns(v, n)' /\ Owns(w, n)' => v = w
        /\ \A v \in Users : Owns(v, n)' => userEvents'[n].unAckEvents \subseteq EventsOf(v)
    BY <1>5, <1>6
  <1> QED
    BY <1>3, <1>7, <1>8 DEF OwnerInv

\* A step of one handler leaves the others where they are.
OthersStay(h) ==
    \A g \in Handlers \ {h} :
        /\ at'[g] = at[g] /\ todo'[g] = todo[g] /\ userEvent'[g] = userEvent[g]
        /\ count'[g] = count[g]

LEMMA OneHandler ==
    ASSUME Types, NEW h \in Handlers, Step(h) \/ Request(h)
    PROVE  OthersStay(h)
  <1> USE DEF OthersStay, Types, StatisticsTypeOK, TodoOK
  <1>1. CASE Lookup(h)
    BY <1>1 DEF Lookup
  <1>2. CASE Create(h)
    BY <1>2 DEF Create
  <1>3. CASE SetListenerStatus(h)
    BY <1>3 DEF SetListenerStatus, NextItem
  <1>4. CASE BeginUpdate(h)
    BY <1>4 DEF BeginUpdate
  <1>5. CASE AddNewEvent(h)
    BY <1>5 DEF AddNewEvent, NextItem
  <1>6. CASE AckEvent(h)
    BY <1>6 DEF AckEvent, NextItem
  <1>7. CASE ReadCount(h)
    BY <1>7 DEF ReadCount
  <1>8. CASE StoreCount(h)
    BY <1>8 DEF StoreCount, NextItem
  <1>9. CASE Throw(h) \/ Answer(h)
    BY <1>9 DEF Throw, Answer
  <1>10. CASE RegisterUser(h)
    BY <1>10 DEF RegisterUser
  <1>11. ASSUME NEW u \in Users, ClearRow(h, u)
         PROVE  OthersStay(h)
    BY <1>11 DEF ClearRow
  <1>12. CASE Request(h)
    BY <1>12 DEF Request, PutStatistics, Reset
  <1> QED
    BY <1>1, <1>2, <1>3, <1>4, <1>5, <1>6, <1>7, <1>8, <1>9, <1>10, <1>11, <1>12 DEF Step

\* The row that h holds changes, by events of the user at most.
LEMMA OwnersOfUpdate ==
    ASSUME Types, OwnerInv, NEW h \in Handlers, Holding(h), OthersStay(h),
           NEW row \in UserEvent, userEvents' = [userEvents EXCEPT ![userEvent[h]] = row],
           row.unAckEvents \subseteq Row(h).unAckEvents \cup EventsOf(Item(h).id),
           UNCHANGED <<mapUserData, userEvent>>,
           UNCHANGED todo \/ NextItem(h)
    PROVE  OwnerInv'
  <1>1. userEvent[h] \in 1 .. Len(userEvents) /\ userEvents \in Seq(UserEvent)
    BY HandlerFacts DEF Types, StatisticsTypeOK
  <1>2. RowBecomes(userEvent[h], row)
    BY <1>1, RowFacts
  <1>3. NextItem(h) => ~Holding(h)'
    BY DEF NextItem, Types, StatisticsTypeOK, Holding, Updating
  <1>4. \A g \in Handlers : Holding(g)' =>
           Holding(g) /\ userEvent'[g] = userEvent[g] /\ todo'[g] = todo[g]
    BY <1>3 DEF OthersStay, Holding
  <1>5. \A k \in 1 .. Len(userEvents) :
          \/ userEvents'[k].unAckEvents = userEvents[k].unAckEvents
          \/ /\ userEvent[h] = k
             /\ userEvents'[k].unAckEvents \subseteq
                      userEvents[k].unAckEvents \cup EventsOf(Item(h).id)
    BY <1>2 DEF RowBecomes, Row
  <1>6. Len(userEvents') = Len(userEvents)
    BY <1>2 DEF RowBecomes
  <1>7. OwnersStay
    BY <1>4, <1>5, <1>6 DEF OwnersStay
  <1> QED
    BY <1>7, OwnersKept

\* No row changes, and a handler that holds a row held it, or has looked it up.
LEMMA OwnersOfMove ==
    ASSUME Types, OwnerInv, NEW h \in Handlers, OthersStay(h), UNCHANGED userEvents,
           \A u \in Users : mapUserData'[u] \in {mapUserData[u], 0},
           Holding(h)' =>
              \/ Holding(h) /\ userEvent'[h] = userEvent[h] /\ todo'[h] = todo[h]
              \/ userEvent'[h] = mapUserData[Item(h).id] /\ todo'[h] = todo[h]
    PROVE  OwnerInv'
  <1>1. \A g \in Handlers \ {h} : Holding(g)' =>
           Holding(g) /\ userEvent'[g] = userEvent[g] /\ todo'[g] = todo[g]
    BY DEF OthersStay, Holding
  <1>2. OwnersStay
    BY <1>1 DEF OwnersStay
  <1> QED
    BY <1>2, OwnersKept

LEMMA ItemEvent == ASSUME NEW i \in Items PROVE i.event \in EventsOf(i.id)
  BY DEF EventsOf

LEMMA OwnersOfStep ==
    ASSUME Types, OwnerInv, NEW h \in Handlers, Step(h)
    PROVE  OwnerInv'
  <1>0. OthersStay(h)
    BY OneHandler
  <1>1. at \in [Handlers -> HandlerState] /\ todo \in [Handlers -> Seq(Users) \cup Seq(Items)]
    BY DEF Types, StatisticsTypeOK, TodoOK
  <1>2. CASE Lookup(h)
    <2>1. userEvent'[h] = mapUserData[Item(h).id] /\ todo'[h] = todo[h]
      BY <1>2 DEF Lookup, Types, StatisticsTypeOK
    <2>2. UNCHANGED <<userEvents, mapUserData>>
      BY <1>2 DEF Lookup, table
    <2> QED
      BY <1>0, <2>1, <2>2, OwnersOfMove
  <1>3. CASE Create(h)
    <2>1. AddRow(h, Item(h).id) /\ at[h] = "create"
      BY <1>3 DEF Create
    <2>2. Item(h).id \in Users
      BY <2>1, HandlerFacts, PlaceFacts
    <2>3. userEvent'[h] = Len(userEvents) + 1 /\ todo' = todo
      BY <1>3 DEF Create, Types, StatisticsTypeOK
    <2>4. Item(h)'.id = Item(h).id
      BY <2>3 DEF Item
    <2>5. \A g \in Handlers : Holding(g)' =>
              \/ Holding(g) /\ userEvent'[g] = userEvent[g] /\ todo'[g] = todo[g]
              \/ userEvent'[g] = Len(userEvents) + 1 /\ Item(g)'.id = Item(h).id
      BY <1>0, <2>3, <2>4 DEF OthersStay, Holding
    <2>6. PICK u \in Users : u = Item(h).id
      BY <2>2
    <2> QED
      BY <2>1, <2>5, <2>6, OwnersOfNewRow
  <1>4. CASE SetListenerStatus(h)
    <2>1. Holding(h)
      BY <1>4 DEF SetListenerStatus, Holding, Updating
    <2>2. Row(h) \in UserEvent /\ Item(h) \in Items
      BY <2>1, HandlerFacts DEF Holding
    <2>3. Item(h).event \in {"true", "false"}
      BY <1>4, <2>2, ItemFacts DEF SetListenerStatus
    <2>4. PICK row : row = [Row(h) EXCEPT !.isListening = Item(h).event]
      OBVIOUS
    <2>5. row \in UserEvent /\ row.unAckEvents = Row(h).unAckEvents
      BY <2>2, <2>3, <2>4, FieldFacts DEF UserEvent
    <2>6. /\ userEvents' = [userEvents EXCEPT ![userEvent[h]] = row] /\ NextItem(h)
          /\ UNCHANGED <<mapUserData, userEvent>>
      BY <1>4, <2>4 DEF SetListenerStatus, Row
    <2> QED
      BY <1>0, <2>1, <2>5, <2>6, OwnersOfUpdate
  <1>5. CASE BeginUpdate(h)
    <2>1. /\ Holding(h) /\ userEvent'[h] = userEvent[h] /\ todo'[h] = todo[h]
          /\ UNCHANGED <<userEvents, mapUserData>>
      BY <1>5 DEF BeginUpdate, Holding, Updating, table
    <2> QED
      BY <1>0, <2>1, OwnersOfMove
  <1>6. CASE AddNewEvent(h)
    <2>1. Holding(h) /\ Item(h).type = "new"
      BY <1>6 DEF AddNewEvent, Holding, Updating
    <2>2. Row(h) \in UserEvent /\ Item(h) \in Items
      BY <2>1, HandlerFacts DEF Holding
    <2>3. Row(h).unAckEvents \cup {Item(h).event} \in SUBSET Events
      BY <2>1, <2>2, ItemFacts, FieldFacts
    <2>4. PICK l \in Outcomes(h, Row(h).unAckEvents \cup {Item(h).event}) :
            userEvents' = [userEvents EXCEPT ![userEvent[h]].unAckEvents = l]
      BY <1>6 DEF AddNewEvent
    <2>5. l \subseteq Row(h).unAckEvents \cup {Item(h).event}
      BY DEF Outcomes
    <2>6. l \subseteq Row(h).unAckEvents \cup EventsOf(Item(h).id)
      BY <2>2, <2>5, ItemEvent
    <2>7. PICK row : row = [Row(h) EXCEPT !.unAckEvents = l]
      OBVIOUS
    <2>8. row \in UserEvent /\ row.unAckEvents = l
      BY <2>2, <2>3, <2>5, <2>7, FieldFacts DEF UserEvent
    <2>9. /\ userEvents' = [userEvents EXCEPT ![userEvent[h]] = row] /\ NextItem(h)
          /\ UNCHANGED <<mapUserData, userEvent>>
      BY <1>6, <2>4, <2>7 DEF AddNewEvent, Row
    <2> QED
      BY <1>0, <2>1, <2>6, <2>8, <2>9, OwnersOfUpdate
  <1>7. CASE AckEvent(h)
    <2>1. Holding(h) /\ Item(h).type = "ack"
      BY <1>7 DEF AckEvent, Holding, Updating
    <2>2. Row(h) \in UserEvent /\ Item(h) \in Items
      BY <2>1, HandlerFacts DEF Holding
    <2>3. Row(h).unAckEvents \cup {Item(h).event} \in SUBSET Events
      BY <2>1, <2>2, ItemFacts, FieldFacts
    <2>4. PICK l \in Outcomes(h, Row(h).unAckEvents \ {Item(h).event}) :
            userEvents' = [userEvents EXCEPT ![userEvent[h]].unAckEvents = l]
      BY <1>7 DEF AckEvent
    <2>5. l \subseteq Row(h).unAckEvents \cup {Item(h).event}
      BY DEF Outcomes
    <2>6. l \subseteq Row(h).unAckEvents \cup EventsOf(Item(h).id)
      BY <2>2, <2>5, ItemEvent
    <2>7. PICK row : row = [Row(h) EXCEPT !.unAckEvents = l]
      OBVIOUS
    <2>8. row \in UserEvent /\ row.unAckEvents = l
      BY <2>2, <2>3, <2>5, <2>7, FieldFacts DEF UserEvent
    <2>9. /\ userEvents' = [userEvents EXCEPT ![userEvent[h]] = row]
          /\ UNCHANGED todo \/ NextItem(h)
          /\ UNCHANGED <<mapUserData, userEvent>>
      BY <1>7, <2>4, <2>7 DEF AckEvent, Row
    <2> QED
      BY <1>0, <2>1, <2>6, <2>8, <2>9, OwnersOfUpdate
  <1>8. CASE ReadCount(h)
    <2>1. /\ Holding(h) /\ userEvent'[h] = userEvent[h] /\ todo'[h] = todo[h]
          /\ UNCHANGED <<userEvents, mapUserData>>
      BY <1>8 DEF ReadCount, Holding, Updating, table
    <2> QED
      BY <1>0, <2>1, OwnersOfMove
  <1>9. CASE StoreCount(h)
    <2>1. Holding(h)
      BY <1>9 DEF StoreCount, Holding, Updating
    <2>2. Row(h) \in UserEvent /\ count[h] + 1 \in Nat
      BY <2>1, HandlerFacts DEF Holding, Types, StatisticsTypeOK
    <2>3. PICK row : row = [Row(h) EXCEPT !.totalAckEvents = count[h] + 1]
      OBVIOUS
    <2>4. row \in UserEvent /\ row.unAckEvents = Row(h).unAckEvents
      BY <2>2, <2>3, FieldFacts DEF UserEvent
    <2>5. /\ userEvents' = [userEvents EXCEPT ![userEvent[h]] = row] /\ NextItem(h)
          /\ UNCHANGED <<mapUserData, userEvent>>
      BY <1>9, <2>3 DEF StoreCount, Row
    <2> QED
      BY <1>0, <2>1, <2>4, <2>5, OwnersOfUpdate
  <1>10. CASE Throw(h) \/ Answer(h)
    <2>1. ~Holding(h)' /\ UNCHANGED <<userEvents, mapUserData>>
      BY <1>1, <1>10 DEF Throw, Answer, Holding, Updating, table
    <2> QED
      BY <1>0, <2>1, OwnersOfMove
  <1>11. CASE RegisterUser(h)
    <2>1. AddRow(h, Head(todo[h])) /\ Head(todo[h]) \in Users /\ ~Holding(h)'
      BY <1>11, RestFacts DEF RegisterUser, Types, TodoOK, Holding, Updating, Resetting
    <2>2. PICK u \in Users : u = Head(todo[h])
      BY <2>1
    <2>3. \A g \in Handlers : Holding(g)' =>
             Holding(g) /\ userEvent'[g] = userEvent[g] /\ todo'[g] = todo[g]
      BY <1>0, <2>1 DEF OthersStay, Holding
    <2> QED
      BY <2>1, <2>2, <2>3, OwnersOfNewRow
  <1>12. ASSUME NEW u \in Users, ClearRow(h, u)
         PROVE  OwnerInv'
    <2>1. /\ \A v \in Users : mapUserData'[v] \in {mapUserData[v], 0}
          /\ UNCHANGED userEvents
      BY <1>12 DEF ClearRow, Types, StatisticsTypeOK
    <2>2. ~Holding(h)'
      BY <1>1, <1>12 DEF ClearRow, Holding, Updating
    <2> QED
      BY <1>0, <2>1, <2>2, OwnersOfMove
  <1> QED
    BY <1>2, <1>3, <1>4, <1>5, <1>6, <1>7, <1>8, <1>9, <1>10, <1>11, <1>12 DEF Step

LEMMA InitOwners == Init => OwnerInv
  <1> SUFFICES ASSUME Init PROVE OwnerInv
    OBVIOUS
  <1>1. Len(userEvents) = 0
    BY EmptySeq DEF Init
  <1> QED
    BY <1>1 DEF OwnerInv

LEMMA NextOwners == Types /\ OwnerInv /\ [Next]_vars => OwnerInv'
  <1> SUFFICES ASSUME Types, OwnerInv, [Next]_vars PROVE OwnerInv'
    OBVIOUS
  <1>1. ASSUME NEW h \in Handlers, Request(h)
        PROVE  OwnerInv'
    <2>1. /\ OthersStay(h) /\ UNCHANGED <<userEvents, mapUserData>>
      BY <1>1, OneHandler DEF Request, PutStatistics, Reset, table
    <2>2. ~Holding(h)'
      BY <1>1 DEF Request, PutStatistics, Reset, Holding, Updating, Types, StatisticsTypeOK
    <2> QED
      BY <2>1, <2>2, OwnersOfMove
  <1>2. CASE UNCHANGED vars
    BY <1>2 DEF vars, table, OwnerInv, Owns, Holding, Item
  <1> QED
    BY <1>1, <1>2, OwnersOfStep DEF Next

LEMMA AlwaysOwned == Spec => [](Types /\ OwnerInv)
  BY InitTypes, InitOwners, NextTypes, NextOwners, PTL DEF Spec

\* Whatever overlaps, no row is shared by two users and none lists an event that no
\* request names for its user: a row that was replaced or cleared is written to in
\* vain.  A handler may hold a row that is no longer in the table, and the table may get
\* rows under a handler's feet: the invariant therefore speaks of every row ever made
\* and counts its holders as owners.
THEOREM NobodyElsesEvents == Spec => []NoCrossTalk
  <1>1. ASSUME Types, OwnerInv
        PROVE  NoCrossTalk
    <2>1. ASSUME NEW u \in Users, mapUserData[u] # 0
          PROVE  /\ \A v \in Users : mapUserData[v] = mapUserData[u] => v = u
                 /\ \A e \in userEvents[mapUserData[u]].unAckEvents :
                       \E b \in Batches : \E k \in DOMAIN b : b[k].id = u /\ b[k].event = e
      <3>1. Len(userEvents) \in Nat
        BY <1>1, LenProperties DEF Types, StatisticsTypeOK
      <3>2. PICK n \in 1 .. Len(userEvents) : n = mapUserData[u]
        BY <1>1, <2>1, <3>1 DEF Types, StatisticsTypeOK
      <3>3. Owns(u, n) /\ \A v \in Users : mapUserData[v] = n => Owns(v, n)
        BY <3>2 DEF Owns
      <3>4. \A v \in Users : mapUserData[v] = n => v = u
        BY <1>1, <3>3 DEF OwnerInv
      <3>5. userEvents[n].unAckEvents \subseteq EventsOf(u)
        BY <1>1, <3>3 DEF OwnerInv
      <3>6. \A e \in EventsOf(u) :
               \E b \in Batches : \E k \in DOMAIN b : b[k].id = u /\ b[k].event = e
        BY DEF EventsOf, Items
      <3> QED
        BY <3>2, <3>4, <3>5, <3>6
    <2> QED
      BY <2>1 DEF NoCrossTalk
  <1>2. Types /\ OwnerInv => NoCrossTalk
    BY <1>1
  <1> QED
    BY <1>2, AlwaysOwned, PTL

-----------------------------------------------------------------------------
(* Who works on a user. *)

\* A handler touches the user whom it works on.
LEMMA BusyTouches ==
    ASSUME Types, NEW g \in Handlers, at[g] \notin Resetting, todo[g] # <<>>
    PROVE  Item(g).id \in Touches(g)
  <1>1. todo[g] \in Seq(Items)
    BY DEF Types, TodoOK
  <1>2. 1 \in DOMAIN todo[g] /\ Item(g) = todo[g][1]
    BY <1>1, RestFacts DEF Item
  <1> QED
    BY <1>2 DEF Touches, Resetting

\* A step of a request under way touches nobody whom the request did not touch.
LEMMA TouchesLess ==
    ASSUME Types, NEW h \in Handlers, Step(h)
    PROVE  Touches(h)' \subseteq Touches(h) /\ UNCHANGED overlapped
  <1> USE DEF Resetting
  <1>1. at \in [Handlers -> HandlerState] /\ todo \in [Handlers -> Seq(Users) \cup Seq(Items)]
    BY DEF Types, StatisticsTypeOK, TodoOK
  <1>2. ASSUME at[h] \notin Resetting, at'[h] \notin Resetting, todo'[h] = todo[h]
        PROVE  Touches(h)' \subseteq Touches(h)
    BY <1>2 DEF Touches
  <1>3. ASSUME at'[h] \notin Resetting, todo'[h] = <<>>
        PROVE  Touches(h)' = {}
    BY <1>3, EmptySeq DEF Touches
  <1>4. ASSUME NextItem(h), at[h] \in Updating
        PROVE  Touches(h)' \subseteq Touches(h)
    <2>1. /\ at'[h] = "lookup" /\ todo'[h] = Tail(todo[h]) /\ at[h] \notin Resetting
          /\ todo[h] \in Seq(Items) /\ todo[h] # <<>>
      BY <1>1, <1>4 DEF NextItem, Types, TodoOK, Updating
    <2>2. \A k \in DOMAIN Tail(todo[h]) :
             k + 1 \in DOMAIN todo[h] /\ Tail(todo[h])[k] = todo[h][k + 1]
      BY <2>1, RestFacts
    <2>3. Touches(h) = {todo[h][k].id : k \in DOMAIN todo[h]}
      BY <2>1 DEF Touches
    <2>4. Touches(h)' = {Tail(todo[h])[k].id : k \in DOMAIN Tail(todo[h])}
      BY <2>1 DEF Touches
    <2> QED
      BY <2>2, <2>3, <2>4
  <1>5. CASE Lookup(h)
    BY <1>1, <1>2, <1>5 DEF Lookup
  <1>6. CASE Create(h) \/ BeginUpdate(h) \/ ReadCount(h)
    BY <1>1, <1>2, <1>6 DEF Create, BeginUpdate, ReadCount
  <1>7. CASE SetListenerStatus(h) \/ StoreCount(h)
    BY <1>4, <1>7 DEF SetListenerStatus, StoreCount, Updating
  <1>8. CASE AddNewEvent(h)
    BY <1>4, <1>8 DEF AddNewEvent, Updating
  <1>9. CASE AckEvent(h)
    <2>1. CASE NextItem(h)
      BY <1>4, <1>9, <2>1 DEF AckEvent, Updating
    <2>2. CASE at' = [at EXCEPT ![h] = "counting"] /\ UNCHANGED todo
      BY <1>1, <1>2, <1>9, <2>2 DEF AckEvent
    <2> QED
      BY <1>9, <2>1, <2>2 DEF AckEvent
  <1>10. CASE Throw(h)
    BY <1>1, <1>3, <1>10 DEF Throw
  <1>11. CASE Answer(h)
    BY <1>1, <1>3, <1>11 DEF Answer
  <1>12. ASSUME at[h] \in Resetting, at'[h] \in Resetting
         PROVE  Touches(h)' \subseteq Touches(h)
    BY <1>12 DEF Touches
  <1>13. CASE RegisterUser(h)
    BY <1>12, <1>13 DEF RegisterUser
  <1>14. ASSUME NEW u \in Users, ClearRow(h, u)
         PROVE  Touches(h)' \subseteq Touches(h) /\ UNCHANGED overlapped
    <2>1. at[h] \in Resetting /\ at'[h] \in Resetting
      BY <1>1, <1>14 DEF ClearRow
    <2> QED
      BY <1>12, <1>14, <2>1 DEF ClearRow
  <1> QED
    BY <1>5, <1>6, <1>7, <1>8, <1>9, <1>10, <1>11, <1>13, <1>14 DEF Step

\* A request that arrives touches whom it is about, and overlaps with whoever is at it.
LEMMA ArrivalTouches ==
    ASSUME Types, NEW h \in Handlers, Request(h)
    PROVE  /\ overlapped \subseteq overlapped'
           /\ \A u \in Touches(h)' \ overlapped' : \A g \in Handlers : u \notin Touches(g)
  <1>1. at \in [Handlers -> HandlerState] /\ todo \in [Handlers -> Seq(Users) \cup Seq(Items)]
    BY DEF Types, StatisticsTypeOK, TodoOK
  <1>2. ASSUME NEW batch \in Batches, PutStatistics(h, batch)
        PROVE  Touches(h)' = {batch[k].id : k \in DOMAIN batch}
    BY <1>1, <1>2 DEF PutStatistics, Touches
  <1>3. ASSUME NEW users \in {<<>>, Registered}, Reset(h, users)
        PROVE  Touches(h)' = Users
    BY <1>1, <1>3 DEF Reset, Touches
  <1>4. PICK N : Arrives(N) /\ Touches(h)' = N
    BY <1>2, <1>3 DEF Request, PutStatistics, Reset
  <1> QED
    BY <1>4 DEF Arrives

LEMMA OthersTouch ==
    ASSUME NEW h \in Handlers, OthersStay(h)
    PROVE  \A g \in Handlers \ {h} : Touches(g)' = Touches(g)
  BY DEF OthersStay, Touches

LEMMA NextSole == Types /\ Sole /\ [Next]_vars => Sole'
  <1> SUFFICES ASSUME Types, Sole, [Next]_vars PROVE Sole'
    OBVIOUS
  <1>1. ASSUME NEW h \in Handlers, Step(h)
        PROVE  Sole'
    <2>1. /\ Touches(h)' \subseteq Touches(h) /\ UNCHANGED overlapped
          /\ \A g \in Handlers \ {h} : Touches(g)' = Touches(g)
      BY <1>1, TouchesLess, OneHandler, OthersTouch
    <2> QED
      BY <2>1 DEF Sole
  <1>2. ASSUME NEW h \in Handlers, Request(h)
        PROVE  Sole'
    <2>1. /\ overlapped \subseteq overlapped'
          /\ \A u \in Touches(h)' \ overlapped' : \A g \in Handlers : u \notin Touches(g)
          /\ \A g \in Handlers \ {h} : Touches(g)' = Touches(g)
      BY <1>2, ArrivalTouches, OneHandler, OthersTouch
    <2> QED
      BY <2>1 DEF Sole
  <1>3. CASE UNCHANGED vars
    BY <1>3 DEF vars, Sole, Touches
  <1> QED
    BY <1>1, <1>2, <1>3 DEF Next

LEMMA InitSole == Init => Sole
  <1>1. Init => \A h \in Handlers : Touches(h) = {}
    BY EmptySeq DEF Init, Touches
  <1> QED
    BY <1>1 DEF Sole

-----------------------------------------------------------------------------
(* What the table says about a user whom no two requests touched at a time. *)

\* Nothing that concerns u changes, and h is not at u.
Unaffected(h, u) ==
    /\ ledger'[u] = ledger[u] /\ mapUserData'[u] = mapUserData[u]
    /\ \A k \in 1 .. Len(userEvents) : Owns(u, k) => userEvents'[k] = userEvents[k]
    /\ \A g \in Handlers \ {h} : BusyWith(g, u) /\ at[g] = "updating" => (torn'[g] => torn[g])
    /\ ~BusyWith(h, u) /\ ~BusyWith(h, u)'

LEMMA UnaffectedKept ==
    ASSUME Types, NEW h \in Handlers, NEW u \in Users,
           OthersStay(h), Unaffected(h, u), AccurateFor(u)
    PROVE  AccurateFor(u)'
  <1>1. \A g \in Handlers : BusyWith(g, u)' <=> BusyWith(g, u)
    BY DEF OthersStay, Unaffected, BusyWith, Item
  <1>2. Busy(u)' <=> Busy(u)
    BY <1>1 DEF Busy, BusyWith
  <1>3. Says(u)' = Says(u)
    <2>1. CASE mapUserData[u] = 0
      BY <2>1 DEF Unaffected, Says
    <2>2. CASE mapUserData[u] # 0
      <3>1. Len(userEvents) \in Nat
        BY LenProperties DEF Types, StatisticsTypeOK
      <3>2. mapUserData[u] \in 1 .. Len(userEvents)
        BY <2>2, <3>1 DEF Types, StatisticsTypeOK
      <3>3. Owns(u, mapUserData[u])
        BY DEF Owns
      <3>4. userEvents'[mapUserData[u]] = userEvents[mapUserData[u]]
        BY <3>2, <3>3 DEF Unaffected
      <3> QED
        BY <2>2, <3>4 DEF Unaffected, Says
    <2> QED
      BY <2>1, <2>2
  <1>4. ASSUME NEW g \in Handlers, BusyWith(g, u)
        PROVE  InStep(g, u)'
    <2>1. g # h /\ InStep(g, u)
      BY <1>4 DEF Unaffected, AccurateFor
    <2>2. /\ at'[g] = at[g] /\ userEvent'[g] = userEvent[g] /\ count'[g] = count[g]
          /\ at[g] = "updating" => (torn'[g] => torn[g])
          /\ ledger'[u] = ledger[u] /\ mapUserData'[u] = mapUserData[u]
      BY <1>4, <2>1 DEF OthersStay, Unaffected
    <2>3. ASSUME Holding(g)
          PROVE  Row(g)' = Row(g)
      <3>1. userEvent[g] \in 1 .. Len(userEvents)
        BY <2>3, HandlerFacts
      <3>2. Owns(u, userEvent[g])
        BY <1>4, <2>3 DEF Owns, BusyWith
      <3>3. userEvents'[userEvent[g]] = userEvents[userEvent[g]]
        BY <3>1, <3>2 DEF Unaffected
      <3> QED
        BY <2>2, <3>3 DEF Row
    <2>4. at[g] \in {"update", "updating", "counting", "storing"} => Row(g)' = Row(g)
      BY <2>3 DEF Holding, Updating
    <2> QED
      BY <2>1, <2>2, <2>4 DEF InStep
  <1> QED
    BY <1>1, <1>2, <1>3, <1>4 DEF AccurateFor, Unaffected

\* The row that a handler holds for another user is no row of this one.
LEMMA ForeignRow ==
    ASSUME Types, OwnerInv, NEW h \in Handlers, Holding(h), NEW u \in Users, Item(h).id # u
    PROVE  \A k \in 1 .. Len(userEvents) : Owns(u, k) => k # userEvent[h]
  <1>1. Owns(Item(h).id, userEvent[h]) /\ Item(h).id \in Users
    BY HandlerFacts DEF Owns, Holding
  <1> QED
    BY <1>1 DEF OwnerInv

\* Where a request stands that is at another user.
LEMMA StepElsewhere ==
    ASSUME Types, OwnerInv, NEW h \in Handlers, Step(h), NEW u \in Users,
           at[h] \notin Resetting, todo[h] # <<>> => Item(h).id # u
    PROVE  Unaffected(h, u)
  <1>1. /\ at \in [Handlers -> HandlerState] /\ todo \in [Handlers -> Seq(Users) \cup Seq(Items)]
        /\ userEvents \in Seq(UserEvent)
    BY DEF Types, StatisticsTypeOK, TodoOK
  <1>2. ~BusyWith(h, u)
    BY DEF BusyWith, Types, TodoOK
  <1>3. ASSUME todo'[h] = todo[h] \/ at'[h] \notin Updating, todo[h] # <<>> \/ at'[h] \notin Updating
        PROVE  ~BusyWith(h, u)'
    BY <1>3 DEF BusyWith, Item
  <1>4. NextItem(h) => at'[h] = "lookup" /\ at'[h] \notin Updating
    BY <1>1 DEF NextItem, Updating
  <1>5. ASSUME UNCHANGED <<ledger, userEvents, mapUserData, torn>>, ~BusyWith(h, u)'
        PROVE  Unaffected(h, u)
    BY <1>2, <1>5 DEF Unaffected
  <1>6. ASSUME Holding(h), NEW row, row \in UserEvent,
               userEvents' = [userEvents EXCEPT ![userEvent[h]] = row],
               ledger'[u] = ledger[u], UNCHANGED <<mapUserData, torn>>,
               UNCHANGED todo \/ NextItem(h)
        PROVE  Unaffected(h, u)
    <2>1. todo[h] # <<>> /\ Item(h).id # u
      BY <1>6, HandlerFacts DEF Holding
    <2>2. userEvent[h] \in 1 .. Len(userEvents)
      BY <1>6, HandlerFacts
    <2>3. RowBecomes(userEvent[h], row)
      BY <1>1, <1>6, <2>2, RowFacts
    <2>4. \A k \in 1 .. Len(userEvents) : Owns(u, k) => userEvents'[k] = userEvents[k]
      BY <1>6, <2>1, <2>3, ForeignRow DEF RowBecomes
    <2>5. ~BusyWith(h, u)'
      BY <1>3, <1>4, <1>6, <2>1
    <2> QED
      BY <1>2, <1>6, <2>4, <2>5 DEF Unaffected
  <1>7. CASE Lookup(h)
    BY <1>3, <1>5, <1>7 DEF Lookup, table
  <1>8. CASE Create(h)
    <2>1. AddRow(h, Item(h).id) /\ Item(h).id # u /\ todo[h] # <<>>
      BY <1>8, HandlerFacts, PlaceFacts DEF Create
    <2>2. /\ UNCHANGED <<ledger, torn, todo>>
          /\ mapUserData'[u] = mapUserData[u]
      BY <1>8, <2>1 DEF Create, AddRow, Types, StatisticsTypeOK
    <2>3. \A k \in 1 .. Len(userEvents) : userEvents'[k] = userEvents[k]
      BY <1>1, <2>1, NewRowFacts DEF AddRow
    <2> QED
      BY <1>2, <1>3, <2>1, <2>2, <2>3 DEF Unaffected
  <1>9. CASE SetListenerStatus(h)
    <2>1. Holding(h)
      BY <1>9 DEF SetListenerStatus, Holding, Updating
    <2>2. Row(h) \in UserEvent /\ Item(h) \in Items /\ Item(h).id # u
      BY <2>1, HandlerFacts DEF Holding
    <2>3. Item(h).event \in {"true", "false"}
      BY <1>9, <2>2, ItemFacts DEF SetListenerStatus
    <2>4. [Row(h) EXCEPT !.isListening = Item(h).event] \in UserEvent
      BY <2>2, <2>3, FieldFacts
    <2>5. /\ userEvents' = [userEvents EXCEPT ![userEvent[h]] =
                                [Row(h) EXCEPT !.isListening = Item(h).event]]
          /\ NextItem(h) /\ UNCHANGED <<mapUserData, torn>>
      BY <1>9 DEF SetListenerStatus, Row
    <2>6. ledger'[u] = ledger[u]
      BY <1>9, <2>2 DEF SetListenerStatus, Types, StatisticsTypeOK
    <2> QED
      BY <1>6, <2>1, <2>4, <2>5, <2>6
  <1>10. CASE BeginUpdate(h)
    <2>1. Holding(h)
      BY <1>10 DEF BeginUpdate, Holding, Updating
    <2>2. todo[h] # <<>> /\ Item(h).id # u
      BY <2>1, HandlerFacts DEF Holding
    <2>3. ASSUME NEW g \in Handlers \ {h}, BusyWith(g, u), at[g] = "updating"
          PROVE  userEvent[g] # userEvent[h]
      <3>1. Holding(g)
        BY <2>3 DEF Holding, Updating
      <3>2. Owns(u, userEvent[g]) /\ userEvent[g] \in 1 .. Len(userEvents)
        BY <2>3, <3>1, HandlerFacts DEF Owns, BusyWith
      <3> QED
        BY <2>1, <2>2, <3>2, ForeignRow
    <2>4. ASSUME NEW g \in Handlers \ {h}, BusyWith(g, u), at[g] = "updating", torn'[g]
          PROVE  torn[g]
      <3>1. torn'[g] <=> torn[g] \/ g \in {f \in Handlers : at[f] = "updating" /\ userEvent[f] = userEvent[h]}
        BY <1>10, Zenon DEF BeginUpdate
      <3> QED
        BY <2>3, <2>4, <3>1
    <2>5. UNCHANGED <<ledger, userEvents, mapUserData, todo>>
      BY <1>10 DEF BeginUpdate, table
    <2> QED
      BY <1>2, <1>3, <2>2, <2>4, <2>5 DEF Unaffected
  <1>11. CASE AddNewEvent(h) \/ AckEvent(h)
    <2>1. Holding(h) /\ Item(h).type # "ListenerStatus" /\ at[h] = "updating"
      BY <1>11 DEF AddNewEvent, AckEvent, Holding, Updating
    <2>2. Row(h) \in UserEvent /\ Item(h) \in Items /\ Item(h).id # u
      BY <2>1, HandlerFacts DEF Holding
    <2>3. /\ Row(h).unAckEvents \cup {Item(h).event} \in SUBSET Events
          /\ Row(h).unAckEvents \ {Item(h).event} \in SUBSET Events
      BY <2>1, <2>2, ItemFacts, FieldFacts
    <2>4. PICK list \in SUBSET Events : \E l \in Outcomes(h, list) :
            userEvents' = [userEvents EXCEPT ![userEvent[h]].unAckEvents = l]
      BY <1>11, <2>3 DEF AddNewEvent, AckEvent
    <2>5. PICK l \in SUBSET Events :
            userEvents' = [userEvents EXCEPT ![userEvent[h]].unAckEvents = l]
      BY <2>1, <2>4, OutcomeTypes
    <2>6. [Row(h) EXCEPT !.unAckEvents = l] \in UserEvent
      BY <2>2, FieldFacts
    <2>7. /\ userEvents' = [userEvents EXCEPT ![userEvent[h]] = [Row(h) EXCEPT !.unAckEvents = l]]
          /\ UNCHANGED todo \/ NextItem(h)
          /\ UNCHANGED <<mapUserData, torn>>
      BY <1>11, <2>5 DEF AddNewEvent, AckEvent, Row
    <2>8. ledger'[u] = ledger[u]
      BY <1>11, <2>2 DEF AddNewEvent, AckEvent, Types, StatisticsTypeOK
    <2> QED
      BY <1>6, <2>1, <2>6, <2>7, <2>8
  <1>12. CASE ReadCount(h)
    <2>1. todo[h] # <<>>
      BY <1>12, HandlerFacts, PlaceFacts DEF ReadCount
    <2> QED
      BY <1>3, <1>5, <1>12, <2>1 DEF ReadCount, table
  <1>13. CASE StoreCount(h)
    <2>1. Holding(h)
      BY <1>13 DEF StoreCount, Holding, Updating
    <2>2. Row(h) \in UserEvent /\ count[h] + 1 \in Nat
      BY <2>1, HandlerFacts DEF Holding, Types, StatisticsTypeOK
    <2>3. [Row(h) EXCEPT !.totalAckEvents = count[h] + 1] \in UserEvent
      BY <2>2, FieldFacts
    <2>4. /\ userEvents' = [userEvents EXCEPT ![userEvent[h]] =
                                [Row(h) EXCEPT !.totalAckEvents = count[h] + 1]]
          /\ NextItem(h) /\ UNCHANGED <<mapUserData, torn, ledger>>
      BY <1>13 DEF StoreCount, Row
    <2> QED
      BY <1>6, <2>1, <2>3, <2>4
  <1>14. CASE Throw(h) \/ Answer(h)
    <2>1. at'[h] \notin Updating /\ UNCHANGED <<ledger, userEvents, mapUserData, torn>>
      BY <1>1, <1>14 DEF Throw, Answer, Updating, table
    <2> QED
      BY <1>3, <1>5, <2>1
  <1>15. ~RegisterUser(h) /\ \A v \in Users : ~ClearRow(h, v)
    BY DEF RegisterUser, ClearRow, Resetting
  <1> QED
    BY <1>7, <1>8, <1>9, <1>10, <1>11, <1>12, <1>13, <1>14, <1>15 DEF Step

\* A handler at the user whom nobody else touches.
LEMMA Alone ==
    ASSUME NEW h \in Handlers, NEW u \in Users,
           \A g \in Handlers \ {h} : ~BusyWith(g, u)
    PROVE  AccurateFor(u) <=> IF BusyWith(h, u) THEN InStep(h, u) ELSE ledger[u] = Says(u)
  BY DEF AccurateFor, Busy, BusyWith

LEMMA AloneNext ==
    ASSUME NEW h \in Handlers, NEW u \in Users,
           \A g \in Handlers \ {h} : ~BusyWith(g, u)'
    PROVE  AccurateFor(u)' <=> IF BusyWith(h, u)' THEN InStep(h, u)' ELSE ledger'[u] = Says(u)'
  BY DEF AccurateFor, Busy, BusyWith

LEMMA OthersAway ==
    ASSUME Types, Sole, NEW h \in Handlers, NEW u \in Users \ overlapped, u \in Touches(h),
           OthersStay(h)
    PROVE  \A g \in Handlers \ {h} : ~BusyWith(g, u) /\ ~BusyWith(g, u)'
  <1>1. \A g \in Handlers \ {h} : ~BusyWith(g, u)
    BY BusyTouches, PlaceFacts DEF BusyWith, Sole, Types, TodoOK
  <1> QED
    BY <1>1 DEF OthersStay, BusyWith, Item

\* Clearing and registering, as far as a user is concerned whom nobody else touches.
LEMMA ResetAccurate ==
    ASSUME Types, Sole, NEW h \in Handlers, Step(h), at[h] \in Resetting,
           NEW u \in Users \ overlapped, AccurateFor(u)
    PROVE  AccurateFor(u)'
  <1>1. /\ at \in [Handlers -> HandlerState] /\ userEvents \in Seq(UserEvent)
        /\ mapUserData \in [Users -> 0 .. Len(userEvents)] /\ ledger \in [Users -> UserEvent]
        /\ Len(userEvents) \in Nat
    BY LenProperties DEF Types, StatisticsTypeOK
  <1>2. u \in Touches(h)
    BY DEF Touches, Resetting
  <1>3. \A g \in Handlers \ {h} : ~BusyWith(g, u) /\ ~BusyWith(g, u)'
    BY <1>2, OneHandler, OthersAway
  <1>4. ~BusyWith(h, u)
    BY PlaceFacts DEF BusyWith
  <1>5. ledger[u] = Says(u)
    BY <1>3, <1>4, Alone
  <1>6. SUFFICES ~BusyWith(h, u)' /\ ledger'[u] = Says(u)'
    BY <1>3, AloneNext
  <1>7. CASE Answer(h)
    <2>1. at'[h] \notin Updating
      BY <1>1, <1>7 DEF Answer, Updating
    <2> QED
      BY <1>5, <1>7, <2>1 DEF Answer, BusyWith, Says, table
  <1>8. CASE RegisterUser(h)
    <2>1. at'[h] \notin Updating
      BY <1>8 DEF RegisterUser, Updating
    <2>2. /\ Len(userEvents') = Len(userEvents) + 1
          /\ \A k \in 1 .. Len(userEvents) : userEvents'[k] = userEvents[k]
          /\ userEvents'[Len(userEvents) + 1] = NewUserEvent
      BY <1>1, <1>8, NewRowFacts DEF RegisterUser, AddRow
    <2>3. CASE Head(todo[h]) = u
      <3>1. mapUserData'[u] = Len(userEvents) + 1 /\ ledger'[u] = NewUserEvent
        BY <1>1, <1>8, <2>3 DEF RegisterUser, AddRow
      <3> QED
        BY <1>1, <2>1, <2>2, <3>1 DEF BusyWith, Says
    <2>4. CASE Head(todo[h]) # u
      <3>1. mapUserData'[u] = mapUserData[u] /\ ledger'[u] = ledger[u]
        BY <1>1, <1>8, <2>4 DEF RegisterUser, AddRow
      <3>2. mapUserData[u] # 0 => mapUserData[u] \in 1 .. Len(userEvents)
        BY <1>1
      <3> QED
        BY <1>5, <2>1, <2>2, <3>1, <3>2 DEF BusyWith, Says
    <2> QED
      BY <2>3, <2>4
  <1>9. ASSUME NEW v \in Users, ClearRow(h, v)
        PROVE  ~BusyWith(h, u)' /\ ledger'[u] = Says(u)'
    <2>1. at'[h] \notin Updating
      BY <1>1, <1>9 DEF ClearRow, Updating
    <2>2. CASE v = u
      BY <1>1, <1>9, <2>1, <2>2 DEF ClearRow, BusyWith, Says
    <2>3. CASE v # u
      BY <1>1, <1>5, <1>9, <2>1, <2>3 DEF ClearRow, BusyWith, Says
    <2> QED
      BY <2>2, <2>3
  <1>10. /\ ~Lookup(h) /\ ~Create(h) /\ ~SetListenerStatus(h) /\ ~BeginUpdate(h)
         /\ ~AddNewEvent(h) /\ ~AckEvent(h) /\ ~ReadCount(h) /\ ~StoreCount(h) /\ ~Throw(h)
    BY DEF Resetting, Lookup, Create, SetListenerStatus, BeginUpdate, AddNewEvent, AckEvent,
           ReadCount, StoreCount, Throw
  <1> QED
    BY <1>7, <1>8, <1>9, <1>10 DEF Step

\* The row of the user in the table changes, and so does the history.
LEMMA RowWritten ==
    ASSUME Types, NEW h \in Handlers, Holding(h), NEW u \in Users,
           userEvent[h] = mapUserData[u], UNCHANGED <<mapUserData, userEvent>>,
           NEW row \in UserEvent, userEvents' = [userEvents EXCEPT ![userEvent[h]] = row]
    PROVE  Says(u)' = row /\ Row(h)' = row
  <1>1. /\ userEvents \in Seq(UserEvent) /\ userEvent[h] \in 1 .. Len(userEvents)
        /\ userEvent[h] # 0
    BY HandlerFacts DEF Types, StatisticsTypeOK, Holding
  <1>2. userEvents'[userEvent[h]] = row
    BY <1>1, RowFacts DEF RowBecomes
  <1> QED
    BY <1>1, <1>2 DEF Says, Row

\* A handler at a user whom nobody else touches.
LEMMA StepAtUser ==
    ASSUME Types, OwnerInv, Sole, NEW h \in Handlers, Step(h), at[h] \notin Resetting,
           todo[h] # <<>>, NEW u \in Users \ overlapped, Item(h).id = u, AccurateFor(u)
    PROVE  AccurateFor(u)'
  <1>1. /\ at \in [Handlers -> HandlerState] /\ todo \in [Handlers -> Seq(Users) \cup Seq(Items)]
        /\ userEvents \in Seq(UserEvent) /\ userEvent \in [Handlers -> 0 .. Len(userEvents)]
        /\ mapUserData \in [Users -> 0 .. Len(userEvents)] /\ ledger \in [Users -> UserEvent]
        /\ Len(userEvents) \in Nat
    BY LenProperties DEF Types, StatisticsTypeOK, TodoOK
  <1>2. u \in Touches(h)
    BY BusyTouches
  <1>3. \A g \in Handlers \ {h} : ~BusyWith(g, u) /\ ~BusyWith(g, u)'
    BY <1>2, OneHandler, OthersAway
  <1>4. IF BusyWith(h, u) THEN InStep(h, u) ELSE ledger[u] = Says(u)
    BY <1>3, Alone
  <1>5. AccurateFor(u)' <=> IF BusyWith(h, u)' THEN InStep(h, u)' ELSE ledger'[u] = Says(u)'
    BY <1>3, AloneNext
  <1>6. at[h] \in Updating => BusyWith(h, u) /\ InStep(h, u)
    BY <1>4 DEF BusyWith
  <1>7. NextItem(h) => ~BusyWith(h, u)'
    BY <1>1 DEF NextItem, BusyWith, Updating
  <1>8. todo'[h] = todo[h] /\ at'[h] \in Updating => BusyWith(h, u)'
    BY DEF BusyWith, Item
  <1>9. CASE Lookup(h)
    <2>1. ~BusyWith(h, u)
      BY <1>9 DEF Lookup, BusyWith, Updating
    <2>2. ledger[u] = Says(u)
      BY <1>4, <2>1
    <2>3. /\ userEvent'[h] = mapUserData[u]
          /\ at'[h] = IF mapUserData[u] = 0 THEN "create" ELSE "update"
          /\ UNCHANGED <<mapUserData, userEvents, ledger, todo>>
      BY <1>1, <1>9 DEF Lookup, table
    <2>4. BusyWith(h, u)'
      BY <1>8, <2>3, PlaceFacts
    <2>5. CASE mapUserData[u] = 0
      BY <1>5, <2>2, <2>3, <2>4, <2>5 DEF InStep, Says
    <2>6. CASE mapUserData[u] # 0
      BY <1>5, <2>2, <2>3, <2>4, <2>6 DEF InStep, Says, Row
    <2> QED
      BY <2>5, <2>6
  <1>10. CASE Create(h)
    <2>1. at[h] = "create" /\ AddRow(h, u)
      BY <1>10 DEF Create
    <2>2. ledger[u] = NewUserEvent
      BY <1>6, <2>1, PlaceFacts DEF InStep
    <2>3. /\ userEvent'[h] = Len(userEvents) + 1 /\ mapUserData'[u] = Len(userEvents) + 1
          /\ at'[h] = "update" /\ UNCHANGED <<ledger, todo>>
      BY <1>1, <1>10 DEF Create, AddRow
    <2>4. userEvents'[Len(userEvents) + 1] = NewUserEvent
      BY <1>1, <2>1, NewRowFacts DEF AddRow
    <2>5. Row(h)' = NewUserEvent
      BY <2>3, <2>4 DEF Row
    <2>6. BusyWith(h, u)'
      BY <1>8, <2>3, PlaceFacts
    <2> QED
      BY <1>5, <2>2, <2>3, <2>5, <2>6 DEF InStep
  <1>11. CASE SetListenerStatus(h)
    <2>1. /\ Holding(h) /\ userEvent[h] = mapUserData[u] /\ ledger[u] = Row(h)
      BY <1>6, <1>11, PlaceFacts DEF SetListenerStatus, Holding, InStep
    <2>2. Row(h) \in UserEvent /\ Item(h) \in Items
      BY <2>1, HandlerFacts DEF Holding
    <2>3. Item(h).event \in {"true", "false"}
      BY <1>11, <2>2, ItemFacts DEF SetListenerStatus
    <2>4. [Row(h) EXCEPT !.isListening = Item(h).event] \in UserEvent
      BY <2>2, <2>3, FieldFacts
    <2>5. /\ userEvents' = [userEvents EXCEPT ![userEvent[h]] =
                                [Row(h) EXCEPT !.isListening = Item(h).event]]
          /\ ledger'[u] = [ledger[u] EXCEPT !.isListening = Item(h).event]
          /\ NextItem(h) /\ UNCHANGED <<mapUserData, userEvent>>
      BY <1>1, <1>11 DEF SetListenerStatus, Row
    <2>6. Says(u)' = [Row(h) EXCEPT !.isListening = Item(h).event]
      BY <2>1, <2>4, <2>5, RowWritten
    <2> QED
      BY <1>5, <1>7, <2>1, <2>5, <2>6
  <1>12. CASE BeginUpdate(h)
    <2>1. at[h] = "update" /\ Holding(h) /\ InStep(h, u)
      BY <1>6, <1>12, PlaceFacts DEF BeginUpdate, Holding
    <2>2. ASSUME NEW g \in Handlers, at[g] = "updating", userEvent[g] = userEvent[h]
          PROVE  FALSE
      <3>1. g # h /\ Holding(g)
        BY <2>1, <2>2 DEF Holding, Updating
      <3>2. Item(g).id # u
        BY <1>3, <2>2, <3>1 DEF BusyWith, Holding
      <3>3. Owns(u, userEvent[h]) /\ userEvent[h] \in 1 .. Len(userEvents)
        BY <2>1, HandlerFacts DEF Owns
      <3> QED
        BY <2>2, <3>1, <3>2, <3>3, ForeignRow
    <2>3. ~torn'[h]
      BY <1>12, <2>2 DEF BeginUpdate
    <2>4. at'[h] = "updating" /\ UNCHANGED <<mapUserData, userEvents, userEvent, ledger, todo>>
      BY <1>1, <1>12 DEF BeginUpdate, table
    <2>5. BusyWith(h, u)'
      BY <1>8, <2>4, PlaceFacts
    <2> QED
      BY <1>5, <2>1, <2>3, <2>4, <2>5 DEF InStep, Row
  <1>13. CASE AddNewEvent(h)
    <2>1. /\ Holding(h) /\ userEvent[h] = mapUserData[u] /\ ledger[u] = Row(h) /\ ~torn[h]
          /\ Item(h).type = "new"
      BY <1>6, <1>13, PlaceFacts DEF AddNewEvent, Holding, InStep
    <2>2. Row(h) \in UserEvent /\ Item(h) \in Items
      BY <2>1, HandlerFacts DEF Holding
    <2>3. Item(h).event \in Events
      BY <2>1, <2>2, ItemFacts
    <2>4. Announce(Row(h), Item(h).event) \in UserEvent
      BY <2>2, <2>3, FieldFacts
    <2>5. userEvents' = [userEvents EXCEPT ![userEvent[h]] = Announce(Row(h), Item(h).event)]
      BY <1>13, <2>1 DEF AddNewEvent, Outcomes, Row, Announce
    <2>6. /\ ledger'[u] = Announce(ledger[u], Item(h).event)
          /\ NextItem(h) /\ UNCHANGED <<mapUserData, userEvent>>
      BY <1>1, <1>13 DEF AddNewEvent
    <2>7. Says(u)' = Announce(Row(h), Item(h).event)
      BY <2>1, <2>4, <2>5, <2>6, RowWritten
    <2> QED
      BY <1>5, <1>7, <2>1, <2>6, <2>7
  <1>14. CASE AckEvent(h)
    <2>1. /\ Holding(h) /\ userEvent[h] = mapUserData[u] /\ ledger[u] = Row(h) /\ ~torn[h]
          /\ Item(h).type = "ack" /\ at[h] = "updating"
      BY <1>6, <1>14, PlaceFacts DEF AckEvent, Holding, InStep
    <2>2. Row(h) \in UserEvent /\ Item(h) \in Items
      BY <2>1, HandlerFacts DEF Holding
    <2>3. Row(h).unAckEvents \ {Item(h).event} \in SUBSET Events
      BY <2>2, FieldFacts
    <2>4. PICK row : row = [Row(h) EXCEPT !.unAckEvents = Row(h).unAckEvents \ {Item(h).event}]
      OBVIOUS
    <2>5. row \in UserEvent
      BY <2>2, <2>3, <2>4, FieldFacts
    <2>6. userEvents' = [userEvents EXCEPT ![userEvent[h]] = row]
      BY <1>14, <2>1, <2>4 DEF AckEvent, Outcomes, Row
    <2>7. /\ ledger'[u] = Acknowledge(ledger[u], Item(h).event)
          /\ UNCHANGED <<mapUserData, userEvent>>
      BY <1>1, <1>14 DEF AckEvent
    <2>8. Says(u)' = row /\ Row(h)' = row
      BY <2>1, <2>5, <2>6, <2>7, RowWritten
    <2>9. CASE Item(h).event \in Row(h).unAckEvents
      <3>1. at'[h] = "counting" /\ UNCHANGED todo
        BY <1>1, <1>14, <2>1, <2>9 DEF AckEvent
      <3>2. BusyWith(h, u)'
        BY <1>8, <3>1, PlaceFacts
      <3>3. ledger'[u] = [Row(h) EXCEPT !.unAckEvents = @ \ {Item(h).event}, !.totalAckEvents = @ + 1]
        BY <2>1, <2>7, <2>9 DEF Acknowledge
      <3>4. ledger'[u] = [row EXCEPT !.totalAckEvents = @ + 1]
        BY <2>2, <2>4, <3>3 DEF UserEvent
      <3>5. userEvent'[h] = mapUserData'[u]
        BY <2>1, <2>7
      <3> QED
        BY <1>5, <2>8, <3>1, <3>2, <3>4, <3>5 DEF InStep
    <2>10. CASE Item(h).event \notin Row(h).unAckEvents
      <3>1. NextItem(h)
        BY <1>14, <2>1, <2>10 DEF AckEvent
      <3>2. ledger'[u] = Row(h)
        BY <2>1, <2>7, <2>10 DEF Acknowledge
      <3>3. Row(h).unAckEvents \ {Item(h).event} = Row(h).unAckEvents
        BY <2>10
      <3>4. row = Row(h)
        BY <2>2, <2>4, <3>3 DEF UserEvent
      <3> QED
        BY <1>5, <1>7, <2>8, <3>1, <3>2, <3>4
    <2> QED
      BY <2>9, <2>10
  <1>15. CASE ReadCount(h)
    <2>1. /\ at[h] = "counting" /\ InStep(h, u) /\ at'[h] = "storing"
          /\ count'[h] = Row(h).totalAckEvents
          /\ UNCHANGED <<mapUserData, userEvents, userEvent, ledger, todo>>
      BY <1>1, <1>6, <1>15, PlaceFacts DEF ReadCount, table, Types, StatisticsTypeOK
    <2>2. BusyWith(h, u)'
      BY <1>8, <2>1, PlaceFacts
    <2> QED
      BY <1>5, <2>1, <2>2 DEF InStep, Row
  <1>16. CASE StoreCount(h)
    <2>1. /\ Holding(h) /\ userEvent[h] = mapUserData[u] /\ count[h] = Row(h).totalAckEvents
          /\ ledger[u] = [Row(h) EXCEPT !.totalAckEvents = @ + 1]
      BY <1>6, <1>16, PlaceFacts DEF StoreCount, Holding, InStep
    <2>2. Row(h) \in UserEvent /\ count[h] + 1 \in Nat
      BY <2>1, HandlerFacts DEF Holding, Types, StatisticsTypeOK
    <2>3. [Row(h) EXCEPT !.totalAckEvents = count[h] + 1] \in UserEvent
      BY <2>2, FieldFacts
    <2>4. /\ userEvents' = [userEvents EXCEPT ![userEvent[h]] =
                                [Row(h) EXCEPT !.totalAckEvents = count[h] + 1]]
          /\ NextItem(h) /\ UNCHANGED <<mapUserData, userEvent, ledger>>
      BY <1>16 DEF StoreCount, Row
    <2>5. Says(u)' = [Row(h) EXCEPT !.totalAckEvents = count[h] + 1]
      BY <2>1, <2>3, <2>4, RowWritten
    <2> QED
      BY <1>5, <1>7, <2>1, <2>4, <2>5
  <1>17. ~Throw(h)
    BY <1>6, PlaceFacts DEF Throw, InStep
  <1>18. ~Answer(h) /\ ~RegisterUser(h) /\ \A v \in Users : ~ClearRow(h, v)
    BY DEF Answer, RegisterUser, ClearRow, Resetting
  <1> QED
    BY <1>9, <1>10, <1>11, <1>12, <1>13, <1>14, <1>15, <1>16, <1>17, <1>18 DEF Step

LEMMA InitAccurate == Init => AccurateInv
  <1> SUFFICES ASSUME Init PROVE AccurateInv
    OBVIOUS
  <1>1. \A h \in Handlers : at[h] \notin Updating
    BY DEF Init, Updating
  <1>2. \A u \in Users : ledger[u] = Says(u)
    BY DEF Init, Says
  <1> QED
    BY <1>1, <1>2 DEF AccurateInv, AccurateFor, BusyWith

StatisticsInv == Types /\ OwnerInv /\ Sole /\ AccurateInv

LEMMA NextAccurate == StatisticsInv /\ [Next]_vars => AccurateInv'
  <1> SUFFICES ASSUME StatisticsInv, [Next]_vars PROVE AccurateInv'
    OBVIOUS
  <1> USE DEF StatisticsInv
  <1>1. ASSUME NEW h \in Handlers, Step(h)
        PROVE  AccurateInv'
    <2>1. UNCHANGED overlapped /\ OthersStay(h)
      BY <1>1, TouchesLess, OneHandler
    <2>2. ASSUME NEW u \in Users \ overlapped
          PROVE  AccurateFor(u)'
      <3>1. AccurateFor(u)
        BY <2>2 DEF AccurateInv
      <3>2. CASE at[h] \in Resetting
        BY <1>1, <3>1, <3>2, ResetAccurate
      <3>3. CASE at[h] \notin Resetting /\ todo[h] # <<>> /\ Item(h).id = u
        BY <1>1, <3>1, <3>3, StepAtUser
      <3>4. CASE at[h] \notin Resetting /\ (todo[h] # <<>> => Item(h).id # u)
        <4>1. Unaffected(h, u)
          BY <1>1, <3>4, StepElsewhere
        <4> QED
          BY <2>1, <3>1, <4>1, UnaffectedKept
      <3> QED
        BY <3>2, <3>3, <3>4
    <2> QED
      BY <2>1, <2>2 DEF AccurateInv
  <1>2. ASSUME NEW h \in Handlers, Request(h)
        PROVE  AccurateInv'
    <2>1. OthersStay(h) /\ overlapped \subseteq overlapped'
      BY <1>2, OneHandler, ArrivalTouches
    <2>2. at[h] \notin Updating /\ at'[h] \notin Updating
      BY <1>2 DEF Request, PutStatistics, Reset, Updating, Types, StatisticsTypeOK
    <2>3. UNCHANGED <<mapUserData, userEvents, ledger, torn>>
      BY <1>2 DEF Request, PutStatistics, Reset, table
    <2>4. \A u \in Users : Unaffected(h, u)
      BY <2>2, <2>3 DEF Unaffected, BusyWith
    <2>5. ASSUME NEW u \in Users \ overlapped'
          PROVE  AccurateFor(u)'
      BY <2>1, <2>4, <2>5, UnaffectedKept DEF AccurateInv
    <2> QED
      BY <2>5 DEF AccurateInv
  <1>3. CASE UNCHANGED vars
    BY <1>3 DEF vars, table, AccurateInv, AccurateFor, Busy, BusyWith, Says, InStep, Row, Item
  <1> QED
    BY <1>1, <1>2, <1>3 DEF Next

LEMMA AlwaysAccurate == Spec => []StatisticsInv
  <1>1. Init => StatisticsInv
    BY InitTypes, InitOwners, InitSole, InitAccurate DEF StatisticsInv
  <1>2. StatisticsInv /\ [Next]_vars => StatisticsInv'
    BY NextTypes, NextOwners, NextSole, NextAccurate DEF StatisticsInv
  <1> QED
    BY <1>1, <1>2, PTL DEF Spec

\* As long as no two requests about a user overlapped, the table says about him what was
\* announced and acknowledged, whatever the handlers of other users do.  The invariant
\* follows the one handler that may be at the user through the update, from the lookup
\* to the count it stores; that its update is not torn, and that nobody else writes the
\* row, follows from the ownership of rows.
THEOREM TableIsRight == Spec => []Accurate
  <1>1. StatisticsInv => Accurate
    BY DEF StatisticsInv, AccurateInv, AccurateFor, Accurate, Says
  <1> QED
    BY <1>1, AlwaysAccurate, PTL
=============================================================================
