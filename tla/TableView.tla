------------------------------ MODULE TableView ------------------------------
(***************************************************************************)
(* The table of the page (app.js) together with the table of Mission       *)
(* Control that it shows (Statistics): the reload button, the list of the  *)
(* events that were not received, the clear button, and the totals that    *)
(* are computed whenever the table is drawn.                               *)
(*                                                                         *)
(* A reader goes over the ConcurrentHashMap with an iterator that is one   *)
(* row ahead: it holds on to the entry that comes next, and sees a row     *)
(* that replaced the entry's row, but not that the entry was removed.  It  *)
(* reads the fields of a row, one after the other, while handlers change   *)
(* them.  Fields are read and written in the order of the program.         *)
(***************************************************************************)
EXTENDS Statistics, Functions

CONSTANTS Asks,              \* the requests of the page under way at a time
          MaxClicks          \* bound on the clicks

ASSUME TableViewAssumption == MaxClicks \in Nat

\* UserModel numbers the events of a user and puts the user's name into each: an event
\* is announced once, and acknowledged for the user for whom it was announced.
ASSUME EventsAssumption ==
    /\ \A b, c \in Batches : \A j \in DOMAIN b : \A k \in DOMAIN c :
          b[j].type = "new" /\ c[k].type = "new" /\ b[j].event = c[k].event => b = c /\ j = k
    /\ \A i, j \in Items : i.type = "new" /\ j.type = "ack" /\ i.event = j.event => i.id = j.id

VARIABLES
    ask,        \* what is known of each request of the page
    rows,       \* the rows that the page shows
    totals,     \* the totals above them
    list,       \* the events that the page lists as not received
    clicks,
    acked       \* history: the events whose acknowledgement was counted

pageVars == <<rows, totals, list, clicks>>
tableVars == <<vars, ask, pageVars, acked>>

\* The fields of a request: the rows and events read so far, what the iterator holds
\* and has left, and the user whose row is being read.  As history the number of
\* rows there were when the user clicked on Clear, whether no handler has been at
\* work since the request, and what was acknowledged at the click.
NoRow == [row |-> 0, isListening |-> "null", ack |-> 0, unack |-> 0]
NoRows == [u \in Users |-> NoRow]
NoAsk == [stage |-> "none", kind |-> "none", rows |-> NoRows, events |-> {}, held |-> <<>>,
          left |-> {}, reading |-> {}, handler |-> {}, since |-> 0, calm |-> FALSE, acked |-> {}]
UnderWay(q) == ask[q].stage # "none"
At(q, stage, kind) == ask[q].stage = stage /\ ask[q].kind = kind

\* What is shown above the table.
Total(isListening, ack, unack) ==
    [agents  |-> Cardinality(DOMAIN ack),
     success |-> Cardinality({u \in DOMAIN ack : isListening[u] = "true"}),
     failed  |-> Cardinality({u \in DOMAIN ack : isListening[u] = "false"}),
     ack     |-> FoldFunction(+, 0, ack),
     unack   |-> FoldFunction(+, 0, unack)]

\* Faulty variant: a row without a listener counts as failed.
DrawCallbackNull(data) ==
    LET agents == {u \in Users : data[u].row # 0}
    IN  Total([u \in agents |-> IF data[u].isListening = "null" THEN "false" ELSE data[u].isListening],
              [u \in agents |-> data[u].ack], [u \in agents |-> data[u].unack])

\* A row without a listener counts neither as listening nor as failed.
DrawCallback(data) ==
    LET agents == {u \in Users : data[u].row # 0}
    IN  Total([u \in agents |-> data[u].isListening], [u \in agents |-> data[u].ack],
              [u \in agents |-> data[u].unack])

\* The totals that the requests handled so far should give.
Expected ==
    LET agents == {u \in Users : mapUserData[u] # 0}
    IN  Total([u \in agents |-> ledger[u].isListening],
              [u \in agents |-> ledger[u].totalAckEvents],
              [u \in agents |-> Cardinality(ledger[u].unAckEvents)])

TableInit ==
    /\ Init
    /\ ask = [q \in Asks |-> NoAsk]
    /\ rows = NoRows
    /\ totals = [agents |-> 0, success |-> 0, failed |-> 0, ack |-> 0, unack |-> 0]
    /\ list = {}
    /\ clicks = 0
    /\ acked = {}

-----------------------------------------------------------------------------
(* The page asks. *)

AllIdle == \A h \in Handlers : at[h] = "idle"

Reload(since) == [NoAsk EXCEPT !.stage = "sent", !.kind = "reload", !.since = since, !.calm = AllIdle]
List          == [NoAsk EXCEPT !.stage = "sent", !.kind = "list", !.acked = acked]
Clear         == [NoAsk EXCEPT !.stage = "sent", !.kind = "clear", !.since = Len(userEvents)]

\* It does not matter which request is taken of those that are free.
Free == CHOOSE q \in Asks : ~UnderWay(q)

Click ==
    /\ clicks < MaxClicks /\ clicks' = clicks + 1
    /\ \E q \in Asks : ~UnderWay(q)
    /\ UNCHANGED <<vars, rows, totals, list, acked>>

\* The table is also loaded with the page itself.
ClickReload == Click /\ ask' = [ask EXCEPT ![Free] = Reload(0)]
ClickList   == Click /\ ask' = [ask EXCEPT ![Free] = List]
ClickClear  == Click /\ ask' = [ask EXCEPT ![Free] = Clear]

-----------------------------------------------------------------------------
(* Mission Control works on the table. *)

\* Requests that change the table disturb those of the page.
Disturbed(asks) == [q \in Asks |-> [asks[q] EXCEPT !.calm = FALSE]]

OthersRequest(h) ==
    /\ \/ \E batch \in Batches : PutStatistics(h, batch)
       \/ Reset(h, Registered)
    /\ ask' = Disturbed(ask)
    /\ UNCHANGED <<pageVars, acked>>

\* Faulty variant: the table is reloaded without waiting for the answer.
HandleClearReloading(q, h) ==
    /\ At(q, "sent", "clear")
    /\ Reset(h, <<>>)
    /\ ask' = Disturbed([ask EXCEPT ![q] = Reload(@.since)])
    /\ UNCHANGED <<pageVars, acked>>

HandleClear(q, h) ==
    /\ At(q, "sent", "clear")
    /\ Reset(h, <<>>)
    /\ ask' = Disturbed([ask EXCEPT ![q].stage = "clearing", ![q].handler = {h}])
    /\ UNCHANGED <<pageVars, acked>>

\* The handler that works on a clear answers it at its end.
HandlerStep(h) ==
    /\ Step(h)
    /\ ask' = [q \in Asks |-> IF h \in ask[q].handler /\ at'[h] = "idle"
                              THEN [ask[q] EXCEPT !.stage = "answered", !.handler = {}]
                              ELSE ask[q]]
    /\ acked' = IF at[h] = "updating" /\ at'[h] = "counting"
                THEN acked \cup {Item(h).event} ELSE acked
    /\ UNCHANGED pageVars

-----------------------------------------------------------------------------
(* getStatus, and executeAction("unackevents"). *)

ReadStep == UNCHANGED <<vars, pageVars, acked>>

\* The iterator moves on over the users that are left: past empty ones to the next
\* entry, which it holds, or to the end.
MoveOn(rest) ==
    LET empty == {u \in rest : mapUserData[u] = 0}
    IN  {[held |-> <<[user |-> u, row |-> mapUserData[u]]>>, left |-> rest \ (past \cup {u})] :
            u \in rest \ empty, past \in SUBSET empty}
        \cup (IF rest = empty THEN {[held |-> <<>>, left |-> {}]} ELSE {})

BeginReading(q) ==
    /\ At(q, "sent", "reload") \/ At(q, "sent", "list")
    /\ \E it \in MoveOn(Users) :
          ask' = [ask EXCEPT ![q].stage = "next", ![q].held = it.held, ![q].left = it.left]
    /\ ReadStep

\* Faulty variant: the iterator is one over the keys, and the row is looked up.
NextKey(q) ==
    /\ ask[q].stage = "next" /\ ask[q].held # <<>>
    /\ LET user == Head(ask[q].held).user
       IN  \E it \in MoveOn(ask[q].left) :
              ask' = [ask EXCEPT ![q].stage = "read", ![q].held = it.held, ![q].left = it.left,
                                 ![q].reading = {user}, ![q].rows[user].row = mapUserData[user]]
    /\ ReadStep

\* next(): the row is the one that the entry has, or had when it was removed.
NextEntry(q) ==
    /\ ask[q].stage = "next" /\ ask[q].held # <<>>
    /\ LET entry == Head(ask[q].held)
       IN  \E row \in {entry.row, mapUserData[entry.user]} \ {0}, it \in MoveOn(ask[q].left) :
              ask' = [ask EXCEPT ![q].stage = "read", ![q].held = it.held, ![q].left = it.left,
                                 ![q].reading = {entry.user}, ![q].rows[entry.user].row = row]
    /\ ReadStep

RowRead(q, u) == userEvents[ask[q].rows[u].row]

\* Faulty variant: the events that are not acknowledged are counted first.
ReadOrderSwapped == <<"unack", "ack">>

\* getAckEventsCount() is called before getUnAckEventCount().
ReadOrder == <<"ack", "unack">>

CountIn(row, column) == IF column = "ack" THEN row.totalAckEvents ELSE Cardinality(row.unAckEvents)

ReadFirst(q, u) ==
    /\ At(q, "read", "reload") /\ u \in ask[q].reading
    /\ ask' = [ask EXCEPT ![q].stage = "read2", ![q].rows[u].isListening = RowRead(q, u).isListening,
                          ![q].rows[u][ReadOrder[1]] = CountIn(RowRead(q, u), ReadOrder[1])]
    /\ ReadStep

ReadSecond(q, u) ==
    /\ At(q, "read2", "reload") /\ u \in ask[q].reading
    /\ ask' = [ask EXCEPT ![q].stage = "next", ![q].reading = {},
                          ![q].rows[u][ReadOrder[2]] = CountIn(RowRead(q, u), ReadOrder[2])]
    /\ ReadStep

\* toArray() of a list that is being changed may return any part of it.
BeingUpdated(q, u) == \E h \in Handlers : at[h] = "updating" /\ userEvent[h] = ask[q].rows[u].row
ReadEvents(q, u) ==
    /\ At(q, "read", "list") /\ u \in ask[q].reading
    /\ \E part \in IF BeingUpdated(q, u) THEN SUBSET RowRead(q, u).unAckEvents
                   ELSE {RowRead(q, u).unAckEvents} :
          ask' = [ask EXCEPT ![q].stage = "next", ![q].reading = {}, ![q].events = @ \cup part]
    /\ ReadStep

AnswerPage(q) ==
    /\ ask[q].stage = "next" /\ ask[q].held = <<>>
    /\ ask' = [ask EXCEPT ![q].stage = "answered"]
    /\ ReadStep

-----------------------------------------------------------------------------
(* The page gets the answers, in any order. *)

ShowTable(q) ==
    /\ At(q, "answered", "reload")
    /\ rows' = ask[q].rows
    /\ totals' = DrawCallback(ask[q].rows)
    /\ ask' = [ask EXCEPT ![q] = NoAsk]
    /\ UNCHANGED <<vars, list, clicks, acked>>

\* Faulty variant: the text is not emptied before the badges are added.
ShowListAppended(q) ==
    /\ At(q, "answered", "list")
    /\ list' = list \cup ask[q].events
    /\ ask' = [ask EXCEPT ![q] = NoAsk]
    /\ UNCHANGED <<vars, rows, totals, clicks, acked>>

ShowList(q) ==
    /\ At(q, "answered", "list")
    /\ list' = ask[q].events
    /\ ask' = [ask EXCEPT ![q] = NoAsk]
    /\ UNCHANGED <<vars, rows, totals, clicks, acked>>

ClearDone(q) ==
    /\ At(q, "answered", "clear")
    /\ ask' = [ask EXCEPT ![q] = Reload(@.since)]
    /\ UNCHANGED <<vars, pageVars, acked>>

-----------------------------------------------------------------------------
Read(q) ==
    \/ BeginReading(q) \/ NextEntry(q) \/ AnswerPage(q)
    \/ \E u \in Users : ReadFirst(q, u) \/ ReadSecond(q, u) \/ ReadEvents(q, u)

TableNext ==
    \/ ClickReload \/ ClickList \/ ClickClear
    \/ \E h \in Handlers : HandlerStep(h) \/ OthersRequest(h) \/ \E q \in Asks : HandleClear(q, h)
    \/ \E q \in Asks : Read(q) \/ ShowTable(q) \/ ShowList(q) \/ ClearDone(q)

TableSpec == TableInit /\ [][TableNext]_tableVars

-----------------------------------------------------------------------------
RowsShown == [row : 0 .. Len(userEvents), isListening : {"null", "true", "false"}, ack : Nat, unack : Nat]

TableTypeOK ==
    /\ StatisticsTypeOK
    /\ \A q \in Asks :
          /\ ask[q].stage \in {"none", "sent", "clearing", "next", "read", "read2", "answered"}
          /\ ask[q].kind \in {"none", "reload", "list", "clear"}
          /\ ask[q].rows \in [Users -> RowsShown]
          /\ ask[q].stage \in {"read", "read2"} <=> ask[q].reading # {}
          /\ ask[q].stage = "clearing" <=> ask[q].handler # {}
          /\ \A u \in ask[q].reading : ask[q].rows[u].row # 0
    /\ rows \in [Users -> RowsShown]
    /\ list \subseteq Events
    /\ clicks \in 0 .. MaxClicks
    /\ acked \subseteq Events

\* The events of a user that were announced in the batches PUT so far.
Announced(u) == UNION {{b[k].event : k \in {j \in DOMAIN b : b[j].id = u /\ b[j].type = "new"}} :
                          b \in Batches \ pending}

\* However reading overlaps with updates, the page never counts an event twice: the
\* acknowledged and the unacknowledged events of a user are together no more than
\* were announced.  An event leaves the list before it is counted, and the count is
\* read before the list.
NeverOvercounts ==
    \A u \in Users : u \in overlapped \/ rows[u].ack + rows[u].unack <= Cardinality(Announced(u))

Shows(q, kind) == At(q, "answered", kind) /\ ~UnderWay(q)'

\* If nothing changed the table between a click and the answer, the totals are those
\* of all that was reported before.
QuietTotals ==
    [][\A q \in Asks : Shows(q, "reload") /\ ask[q].calm /\ overlapped = {}
                         => totals' = Expected]_tableVars

\* After a click on Clear the page shows nothing of the rows that there were then.
ClearShows ==
    [][\A q \in Asks : Shows(q, "reload") =>
           \A u \in Users : rows[u]'.row = 0 \/ rows[u]'.row > ask[q].since]_tableVars

\* The list shows no event whose acknowledgement was counted before the click.
ListIsFresh ==
    [][\A q \in Asks : Shows(q, "list") => list' \cap ask[q].acked \subseteq
            UNION {Announced(u) : u \in overlapped}]_tableVars
=============================================================================
