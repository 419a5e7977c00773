----------------------------- MODULE Statistics -----------------------------
(***************************************************************************)
(* controller/api/Statistics.java and Users.java: the table of Mission     *)
(* Control, one row per user with the events that were announced and not   *)
(* acknowledged yet, the number of acknowledged ones and the state of the  *)
(* listener.                                                               *)
(*                                                                         *)
(* The threads of the HTTP server's work stealing pool run the handlers at *)
(* the same time.  The table is a ConcurrentHashMap, but looking a row up, *)
(* creating it and updating it are separate steps, and a row is an         *)
(* ArrayList and an Integer that nothing synchronizes.  The outcome of two *)
(* overlapping updates of one ArrayList is left open: any of its events    *)
(* may get lost, and the update may throw.                                 *)
(***************************************************************************)
EXTENDS Naturals, Sequences, FiniteSets

CONSTANTS Handlers,          \* the threads of the pool
          Users,             \* user ids
          Batches,           \* the bodies of the PUTs to /api/statistics
          Registered,        \* the body of the PUTs to /api/users
          MaxResets          \* bound on the clears and registrations

\* What the batches consist of.
Items == UNION {{b[k] : k \in DOMAIN b} : b \in Batches}

ASSUME StatisticsAssumption ==
    /\ MaxResets \in Nat
    /\ Registered \in Seq(Users)
    /\ Batches \subseteq Seq(Items)
    /\ \A b \in Batches : \A k \in DOMAIN b :
          /\ b[k].id \in Users
          /\ b[k].type \in {"new", "ack", "ListenerStatus"}
          /\ b[k].type = "ListenerStatus" => b[k].event \in {"true", "false"}

VARIABLES
    mapUserData,     \* for each user the row of the table, 0 if there is none
    userEvents,      \* every UserEvent object that was ever created
    pending,         \* the batches that are still to be PUT
    resets,          \* clears and registrations so far
    at,              \* where each handler thread is
    todo,            \* the items, or users, that it has still to work through
    left,            \* the users that its mapUserData.clear() has not reached
    userEvent,       \* its local variable userEvent
    torn,            \* whether its update of the ArrayList overlaps another
    count,           \* the value that its totalAckEvents++ has read
    ledger,          \* history: what the rows should say
    overlapped       \* history: the users whom two requests touched at a time

table == <<mapUserData, userEvents>>
vars == <<mapUserData, userEvents, pending, resets, at, todo, left, userEvent,
          torn, count, ledger, overlapped>>

HandlerState == {"idle", "lookup", "create", "update", "updating", "counting",
                 "storing", "clearing", "registering"}
Updating == {"create", "update", "updating", "counting", "storing"}

Events == UNION {{b[k].event : k \in {j \in DOMAIN b : b[j].type # "ListenerStatus"}} :
                    b \in Batches}

UserEvent == [unAckEvents : SUBSET Events, totalAckEvents : Nat,
              isListening : {"null", "true", "false"}]
NewUserEvent == [unAckEvents |-> {}, totalAckEvents |-> 0, isListening |-> "null"]

Item(h) == Head(todo[h])
Row(h)  == userEvents[userEvent[h]]

Init ==
    /\ mapUserData = [u \in Users |-> 0]
    /\ userEvents = <<>>
    /\ pending = Batches
    /\ resets = 0
    /\ at = [h \in Handlers |-> "idle"]
    /\ todo = [h \in Handlers |-> <<>>]
    /\ left = [h \in Handlers |-> {}]
    /\ userEvent = [h \in Handlers |-> 0]
    /\ torn = [h \in Handlers |-> FALSE]
    /\ count = [h \in Handlers |-> 0]
    /\ ledger = [u \in Users |-> NewUserEvent]
    /\ overlapped = {}

-----------------------------------------------------------------------------
(* Arrival of a request. *)

\* The users that the request which h works on still touches.
Touches(h) == IF at[h] \in {"clearing", "registering"} THEN Users
              ELSE {todo[h][k].id : k \in DOMAIN todo[h]}

\* A request about these users arrives while others are under way.
Arrives(users) ==
    overlapped' = overlapped \cup {u \in users : \E h \in Handlers : u \in Touches(h)}

PutStatistics(h, batch) ==
    /\ at[h] = "idle" /\ batch \in pending
    /\ Arrives({batch[k].id : k \in DOMAIN batch})
    /\ pending' = pending \ {batch}
    /\ at' = [at EXCEPT ![h] = "lookup"]
    /\ todo' = [todo EXCEPT ![h] = batch]
    /\ UNCHANGED <<table, resets, left, userEvent, torn, count, ledger>>

\* GET ?action=clear, or a PUT of users, which clears before it registers them.
Reset(h, users) ==
    /\ at[h] = "idle" /\ resets < MaxResets
    /\ Arrives(Users)
    /\ resets' = resets + 1
    /\ at' = [at EXCEPT ![h] = "clearing"]
    /\ left' = [left EXCEPT ![h] = Users]
    /\ todo' = [todo EXCEPT ![h] = users]
    /\ UNCHANGED <<table, pending, userEvent, torn, count, ledger>>

-----------------------------------------------------------------------------
(* updateData, item by item. *)

\* Faulty variant: the null check is missing.
LookupUnchecked(h) ==
    /\ at[h] = "lookup" /\ todo[h] # <<>>
    /\ userEvent' = [userEvent EXCEPT ![h] = mapUserData[Item(h).id]]
    /\ at' = [at EXCEPT ![h] = "update"]
    /\ UNCHANGED <<table, pending, resets, todo, left, torn, count, ledger, overlapped>>

\* Faulty variant: the row of the item before serves a user who has none.
LookupKeepsRow(h) ==
    /\ at[h] = "lookup" /\ todo[h] # <<>>
    /\ LET found == mapUserData[Item(h).id]
           row   == IF found = 0 THEN userEvent[h] ELSE found
       IN  /\ userEvent' = [userEvent EXCEPT ![h] = row]
           /\ at' = [at EXCEPT ![h] = IF row = 0 THEN "create" ELSE "update"]
    /\ UNCHANGED <<table, pending, resets, todo, left, torn, count, ledger, overlapped>>

\* userEvent is the user's row, or null if there is none.
Lookup(h) ==
    /\ at[h] = "lookup" /\ todo[h] # <<>>
    /\ LET row == mapUserData[Item(h).id]
       IN  /\ userEvent' = [userEvent EXCEPT ![h] = row]
           /\ at' = [at EXCEPT ![h] = IF row = 0 THEN "create" ELSE "update"]
    /\ UNCHANGED <<table, pending, resets, todo, left, torn, count, ledger, overlapped>>

\* The row is put even if another thread has put one since the lookup.
AddRow(h, u) ==
    /\ userEvents' = Append(userEvents, NewUserEvent)
    /\ mapUserData' = [mapUserData EXCEPT ![u] = Len(userEvents) + 1]

\* Faulty variant: the new row is not put into the table.
CreateDetached(h) ==
    /\ at[h] = "create"
    /\ userEvents' = Append(userEvents, NewUserEvent)
    /\ userEvent' = [userEvent EXCEPT ![h] = Len(userEvents) + 1]
    /\ at' = [at EXCEPT ![h] = "update"]
    /\ UNCHANGED <<mapUserData, pending, resets, todo, left, torn, count, ledger, overlapped>>

Create(h) ==
    /\ at[h] = "create"
    /\ AddRow(h, Item(h).id)
    /\ userEvent' = [userEvent EXCEPT ![h] = Len(userEvents) + 1]
    /\ at' = [at EXCEPT ![h] = "update"]
    /\ UNCHANGED <<pending, resets, todo, left, torn, count, ledger, overlapped>>

NextItem(h) ==
    /\ todo' = [todo EXCEPT ![h] = Tail(@)]
    /\ at' = [at EXCEPT ![h] = "lookup"]

SetListenerStatus(h) ==
    /\ at[h] = "update" /\ Item(h).type = "ListenerStatus"
    /\ userEvents' = [userEvents EXCEPT ![userEvent[h]].isListening = Item(h).event]
    /\ ledger' = [ledger EXCEPT ![Item(h).id].isListening = Item(h).event]
    /\ NextItem(h)
    /\ UNCHANGED <<mapUserData, pending, resets, left, userEvent, torn, count, overlapped>>

\* unAckEvents.add or .remove begins; whoever is inside the same list is torn too.
BeginUpdate(h) ==
    /\ at[h] = "update" /\ Item(h).type # "ListenerStatus"
    /\ LET inside == {g \in Handlers : at[g] = "updating" /\ userEvent[g] = userEvent[h]}
       IN  torn' = [g \in Handlers |-> IF g = h THEN inside # {}
                                       ELSE torn[g] \/ g \in inside]
    /\ at' = [at EXCEPT ![h] = "updating"]
    /\ UNCHANGED <<table, pending, resets, todo, left, userEvent, count, ledger, overlapped>>

\* What a row says after the item, as far as the event is concerned.
Announce(row, e)    == [row EXCEPT !.unAckEvents = @ \cup {e}]
Acknowledge(row, e) == IF e \in row.unAckEvents
                       THEN [row EXCEPT !.unAckEvents = @ \ {e}, !.totalAckEvents = @ + 1]
                       ELSE row

\* The lists that the update may leave behind where it should leave this one: a torn
\* update may lose events, but adds none that nobody announced.
Outcomes(h, list) == IF torn[h] THEN SUBSET (Row(h).unAckEvents \cup list) ELSE {list}

AddNewEvent(h) ==
    /\ at[h] = "updating" /\ Item(h).type = "new"
    /\ \E list \in Outcomes(h, Row(h).unAckEvents \cup {Item(h).event}) :
          userEvents' = [userEvents EXCEPT ![userEvent[h]].unAckEvents = list]
    /\ ledger' = [ledger EXCEPT ![Item(h).id] = Announce(@, Item(h).event)]
    /\ NextItem(h)
    /\ UNCHANGED <<mapUserData, pending, resets, left, userEvent, torn, count, overlapped>>

\* Only an event that was found in the list counts as acknowledged.
AckEvent(h) ==
    /\ at[h] = "updating" /\ Item(h).type = "ack"
    /\ \E list \in Outcomes(h, Row(h).unAckEvents \ {Item(h).event}) :
          userEvents' = [userEvents EXCEPT ![userEvent[h]].unAckEvents = list]
    /\ \E found \in IF torn[h] THEN BOOLEAN ELSE {Item(h).event \in Row(h).unAckEvents} :
          IF found THEN /\ at' = [at EXCEPT ![h] = "counting"]
                        /\ UNCHANGED todo
                   ELSE NextItem(h)
    /\ ledger' = [ledger EXCEPT ![Item(h).id] = Acknowledge(@, Item(h).event)]
    /\ UNCHANGED <<mapUserData, pending, resets, left, userEvent, torn, count, overlapped>>

\* totalAckEvents++ reads one Integer and stores another.
ReadCount(h) ==
    /\ at[h] = "counting"
    /\ count' = [count EXCEPT ![h] = Row(h).totalAckEvents]
    /\ at' = [at EXCEPT ![h] = "storing"]
    /\ UNCHANGED <<table, pending, resets, todo, left, userEvent, torn, ledger, overlapped>>

StoreCount(h) ==
    /\ at[h] = "storing"
    /\ userEvents' = [userEvents EXCEPT ![userEvent[h]].totalAckEvents = count[h] + 1]
    /\ NextItem(h)
    /\ UNCHANGED <<mapUserData, pending, resets, left, userEvent, torn, count, ledger, overlapped>>

\* An update that is torn throws: the rest of the batch is dropped and the
\* request is never answered.
Throw(h) ==
    /\ at[h] = "updating" /\ torn[h]
    /\ at' = [at EXCEPT ![h] = "idle"]
    /\ todo' = [todo EXCEPT ![h] = <<>>]
    /\ UNCHANGED <<table, pending, resets, left, userEvent, torn, count, ledger, overlapped>>

\* The loop is over; the request is answered.
Answer(h) ==
    /\ at[h] \in {"lookup", "registering"} /\ todo[h] = <<>>
    /\ at' = [at EXCEPT ![h] = "idle"]
    /\ UNCHANGED <<table, pending, resets, todo, left, userEvent, torn, count, ledger, overlapped>>

-----------------------------------------------------------------------------
(* mapUserData.clear() removes row by row, and setUsers puts row by row. *)

ClearRow(h, u) ==
    /\ at[h] = "clearing" /\ u \in left[h]
    /\ mapUserData' = [mapUserData EXCEPT ![u] = 0]
    /\ left' = [left EXCEPT ![h] = @ \ {u}]
    /\ at' = [at EXCEPT ![h] = IF left[h] = {u} THEN "registering" ELSE @]
    /\ ledger' = [ledger EXCEPT ![u] = NewUserEvent]
    /\ UNCHANGED <<userEvents, pending, resets, todo, userEvent, torn, count, overlapped>>

RegisterUser(h) ==
    /\ at[h] = "registering" /\ todo[h] # <<>>
    /\ AddRow(h, Head(todo[h]))
    /\ todo' = [todo EXCEPT ![h] = Tail(@)]
    /\ ledger' = [ledger EXCEPT ![Head(todo[h])] = NewUserEvent]
    /\ UNCHANGED <<pending, resets, at, left, userEvent, torn, count, overlapped>>

-----------------------------------------------------------------------------
Step(h) ==
    \/ Lookup(h) \/ Create(h) \/ SetListenerStatus(h) \/ BeginUpdate(h)
    \/ AddNewEvent(h) \/ AckEvent(h) \/ ReadCount(h) \/ StoreCount(h) \/ Throw(h)
    \/ Answer(h) \/ RegisterUser(h)
    \/ \E u \in Users : ClearRow(h, u)

Request(h) ==
    \/ \E batch \in Batches : PutStatistics(h, batch)
    \/ \E users \in {<<>>, Registered} : Reset(h, users)

Next == \E h \in Handlers : Step(h) \/ Request(h)

Spec == Init /\ [][Next]_vars

-----------------------------------------------------------------------------
StatisticsTypeOK ==
    /\ userEvents \in Seq(UserEvent)
    /\ mapUserData \in [Users -> 0 .. Len(userEvents)]
    /\ pending \subseteq Batches
    /\ resets \in 0 .. MaxResets
    /\ at \in [Handlers -> HandlerState]
    /\ left \in [Handlers -> SUBSET Users]
    /\ userEvent \in [Handlers -> 0 .. Len(userEvents)]
    /\ torn \in [Handlers -> BOOLEAN]
    /\ count \in [Handlers -> Nat]
    /\ ledger \in [Users -> UserEvent]
    /\ overlapped \in SUBSET Users
    /\ \A h \in Handlers : at[h] \in Updating \ {"create"} => userEvent[h] # 0

\* A handler is in the middle of updating the row of u.
Busy(u) == \E h \in Handlers : at[h] \in Updating /\ Item(h).id = u

\* As long as no two requests about a user overlapped, the table is right about
\* the user, except while the row is being updated, whatever happens to other
\* users at the same time: no row is lost or shared, no event is dropped and every
\* acknowledgement of a listed event is counted once.
Accurate ==
    \A u \in Users : u \in overlapped \/ Busy(u) \/
        ledger[u] = IF mapUserData[u] = 0 THEN NewUserEvent ELSE userEvents[mapUserData[u]]

\* Whatever overlaps, no row is shared by two users and none lists another user's
\* event: a stale or replaced row is written to in vain, never to somebody else's.
NoCrossTalk ==
    \A u \in Users : mapUserData[u] # 0 =>
        /\ \A v \in Users : mapUserData[v] = mapUserData[u] => v = u
        /\ \A e \in userEvents[mapUserData[u]].unAckEvents :
              \E b \in Batches : \E k \in DOMAIN b : b[k].id = u /\ b[k].event = e
=============================================================================
