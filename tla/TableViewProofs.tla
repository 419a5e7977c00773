--------------------------- MODULE TableViewProofs ----------------------------
(***************************************************************************)
(* Proofs about TableView for every number of handler threads, users,      *)
(* batches and requests of the page, however they overlap.                 *)
(***************************************************************************)
EXTENDS TableView, StatisticsProofs, FiniteSetTheorems

-----------------------------------------------------------------------------
(* The table behind the page is that of Statistics. *)

\* What the page does leaves the table alone, or is a request of it.
LEMMA PageSteps ==
    ASSUME TableNext
    PROVE  \/ \E h \in Handlers : Step(h) /\ HandlerStep(h)
           \/ \E h \in Handlers : Request(h) /\ (OthersRequest(h) \/ \E q \in Asks : HandleClear(q, h))
           \/ UNCHANGED vars
  <1>1. CASE ClickReload \/ ClickList \/ ClickClear
    BY <1>1 DEF ClickReload, ClickList, ClickClear, Click
  <1>2. ASSUME NEW h \in Handlers, HandlerStep(h)
        PROVE  Step(h)
    BY <1>2 DEF HandlerStep
  <1>3. ASSUME NEW h \in Handlers, OthersRequest(h)
        PROVE  Request(h)
    BY <1>3 DEF OthersRequest, Request
  <1>4. ASSUME NEW h \in Handlers, NEW q \in Asks, HandleClear(q, h)
        PROVE  Request(h)
    BY <1>4 DEF HandleClear, Request
  <1>5. ASSUME NEW q \in Asks, Read(q) \/ ShowTable(q) \/ ShowList(q) \/ ClearDone(q)
        PROVE  UNCHANGED vars
    BY <1>5 DEF Read, BeginReading, NextEntry, AnswerPage, ReadFirst, ReadSecond, ReadEvents,
                ReadStep, ShowTable, ShowList, ClearDone
  <1> QED
    BY <1>1, <1>2, <1>3, <1>4, <1>5 DEF TableNext

\* The table that the page shows is one that Statistics describes: what holds of that
\* table holds of this one.
THEOREM TableIsStatistics == TableSpec => Spec
  <1>1. TableInit => Init
    BY DEF TableInit
  <1>2. [TableNext]_tableVars => [Next]_vars
    BY PageSteps DEF Next, tableVars
  <1> QED
    BY <1>1, <1>2, PTL DEF TableSpec, Spec

-----------------------------------------------------------------------------
(* The requests of the page. *)

Stage == {"none", "sent", "clearing", "next", "read", "read2", "answered"}
Kind  == {"none", "reload", "list", "clear"}
Shown == [row : Nat, isListening : {"null", "true", "false"}, ack : Nat, unack : Nat]
Entry == [user : Users, row : Nat]
Ask   == [stage : Stage, kind : Kind, rows : [Users -> Shown], events : SUBSET Events,
          held : Seq(Entry), left : SUBSET Users, reading : SUBSET Users,
          handler : SUBSET Handlers, since : Nat, calm : BOOLEAN, acked : SUBSET Events]

PageTypes ==
    /\ ask \in [Asks -> Ask]
    /\ rows \in [Users -> Shown]
    /\ list \subseteq Events
    /\ clicks \in 0 .. MaxClicks
    /\ acked \subseteq Events

\* How far a request is, and what it refers to: rows that there are, and a handler
\* that is not done yet.
AskFits(q) ==
    /\ ask[q].stage \in {"read", "read2"} <=> ask[q].reading # {}
    /\ \A u, v \in ask[q].reading : u = v
    /\ \A u \in ask[q].reading : ask[q].rows[u].row # 0
    /\ \A u \in Users : ask[q].rows[u].row <= Len(userEvents)
    /\ \A k \in DOMAIN ask[q].held : ask[q].held[k].row \in 1 .. Len(userEvents)
    /\ ask[q].held = <<>> => ask[q].left = {}
    /\ ask[q].stage = "clearing" <=> ask[q].handler # {}
    /\ ask[q].stage = "clearing" => ask[q].kind = "clear"
    /\ \A h \in ask[q].handler : at[h] \in Resetting
    /\ ask[q].since <= Len(userEvents)

PageInv ==
    /\ PageTypes
    /\ \A q \in Asks : AskFits(q)
    /\ \A u \in Users : rows[u].row <= Len(userEvents)

\* A list of events is finite, however long.
FiniteRows == \A k \in 1 .. Len(userEvents) : IsFiniteSet(userEvents[k].unAckEvents)

LEMMA NewAsks ==
    /\ NoRows \in [Users -> Shown] /\ NoAsk \in Ask
    /\ \A u \in Users : NoRows[u] = NoRow
    /\ NoAsk.stage = "none" /\ NoAsk.kind = "none" /\ NoAsk.rows = NoRows /\ NoAsk.events = {}
    /\ NoAsk.held = <<>> /\ NoAsk.left = {} /\ NoAsk.reading = {} /\ NoAsk.handler = {}
    /\ NoAsk.since = 0 /\ NoAsk.calm = FALSE /\ NoAsk.acked = {}
  <1>1. NoRow \in Shown
    BY DEF NoRow, Shown
  <1>2. NoRows \in [Users -> Shown]
    BY <1>1 DEF NoRows
  <1>3. <<>> \in Seq(Entry)
    BY EmptySeq
  <1> QED
    BY <1>2, <1>3 DEF NoAsk, Ask, Stage, Kind, NoRows

\* Where an iterator is that holds the entry of u and skipped the users past.
Empty(rest) == {u \in rest : mapUserData[u] = 0}
AtEntry(rest, u, past) ==
    [held |-> <<[user |-> u, row |-> mapUserData[u]]>>, left |-> rest \ (past \cup {u})]
AtEntries(rest) == {AtEntry(rest, u, past) : u \in rest \ Empty(rest), past \in SUBSET Empty(rest)}

LEMMA MoveOnCases ==
    ASSUME NEW rest, NEW it \in MoveOn(rest)
    PROVE  \/ rest = Empty(rest) /\ it = [held |-> <<>>, left |-> {}]
           \/ \E u \in rest \ Empty(rest) : \E past \in SUBSET Empty(rest) : it = AtEntry(rest, u, past)
  <1>1. MoveOn(rest) = AtEntries(rest)
                       \cup (IF rest = Empty(rest) THEN {[held |-> <<>>, left |-> {}]} ELSE {})
    BY DEF MoveOn, AtEntries, AtEntry, Empty
  <1>2. it \in AtEntries(rest) \/ (rest = Empty(rest) /\ it \in {[held |-> <<>>, left |-> {}]})
    BY <1>1
  <1>3. it \in AtEntries(rest) =>
           \E u \in rest \ Empty(rest) : \E past \in SUBSET Empty(rest) : it = AtEntry(rest, u, past)
    BY DEF AtEntries
  <1> QED
    BY <1>2, <1>3

LEMMA OneEntry ==
    ASSUME NEW u \in Users, NEW k \in Nat
    PROVE  <<[user |-> u, row |-> k]>> \in Seq(Entry)
  <1>1. PICK e : e = [user |-> u, row |-> k]
    OBVIOUS
  <1>2. e \in Entry
    BY <1>1 DEF Entry
  <1>3. <<e>> \in Seq(Entry)
    BY <1>2
  <1> QED
    BY <1>1, <1>3

\* Where an iterator may be after it moved on over the users rest.
LEMMA MoveOnFacts ==
    ASSUME TableTypes, NEW rest \in SUBSET Users, NEW it \in MoveOn(rest)
    PROVE  /\ it.held \in Seq(Entry) /\ it.left \subseteq rest
           /\ \/ it.held = <<>> /\ it.left = {} /\ \A v \in rest : mapUserData[v] = 0
              \/ \E u \in rest :
                    /\ mapUserData[u] \in 1 .. Len(userEvents)
                    /\ it.held = <<[user |-> u, row |-> mapUserData[u]]>> /\ u \notin it.left
                    /\ \A v \in rest \ it.left : v = u \/ mapUserData[v] = 0
  <1>1. \A v : v \in Empty(rest) <=> v \in rest /\ mapUserData[v] = 0
    BY DEF Empty
  <1>2. \A v \in Users : mapUserData[v] \in Nat
    BY LenProperties DEF TableTypes
  <1>7. \A v \in Users : mapUserData[v] # 0 => mapUserData[v] \in 1 .. Len(userEvents)
    BY LenProperties DEF TableTypes
  <1>3. CASE rest = Empty(rest) /\ it = [held |-> <<>>, left |-> {}]
    <2>1. it.held = <<>> /\ it.left = {} /\ \A v \in rest : mapUserData[v] = 0
      BY <1>1, <1>3
    <2> QED
      BY <2>1, EmptySeq
  <1>4. ASSUME NEW u \in rest \ Empty(rest), NEW past \in SUBSET Empty(rest), it = AtEntry(rest, u, past)
        PROVE  /\ it.held \in Seq(Entry) /\ it.left \subseteq rest
               /\ mapUserData[u] \in 1 .. Len(userEvents)
               /\ it.held = <<[user |-> u, row |-> mapUserData[u]]>> /\ u \notin it.left
               /\ \A v \in rest \ it.left : v = u \/ mapUserData[v] = 0
    <2>1. it.held = <<[user |-> u, row |-> mapUserData[u]]>> /\ it.left = rest \ (past \cup {u})
      BY <1>4 DEF AtEntry
    <2>2. u \in Users /\ mapUserData[u] # 0
      BY <1>1
    <2>3. mapUserData[u] \in 1 .. Len(userEvents) /\ mapUserData[u] \in Nat
      BY <1>2, <1>7, <2>2
    <2>4. it.held \in Seq(Entry)
      <3>1. PICK k \in Nat : k = mapUserData[u]
        BY <2>3
      <3>2. <<[user |-> u, row |-> k]>> \in Seq(Entry)
        BY <2>2, OneEntry
      <3> QED
        BY <2>1, <3>1, <3>2
    <2>5. u \notin it.left /\ it.left \subseteq rest /\ \A v \in rest \ it.left : v = u \/ mapUserData[v] = 0
      BY <1>1, <2>1
    <2> QED
      BY <2>1, <2>3, <2>4, <2>5
  <1>5. (rest = Empty(rest) /\ it = [held |-> <<>>, left |-> {}])
        \/ \E u \in rest \ Empty(rest) : \E past \in SUBSET Empty(rest) : it = AtEntry(rest, u, past)
    BY MoveOnCases
  <1>6. CASE ~(rest = Empty(rest) /\ it = [held |-> <<>>, left |-> {}])
    <2>1. PICK u \in rest \ Empty(rest) : \E past \in SUBSET Empty(rest) : it = AtEntry(rest, u, past)
      BY <1>5, <1>6
    <2>2. PICK past \in SUBSET Empty(rest) : it = AtEntry(rest, u, past)
      BY <2>1
    <2> QED
      BY <1>4, <2>2
  <1> QED
    BY <1>3, <1>6

-----------------------------------------------------------------------------
(* What the page does to its requests. *)

\* What reading never changes of a request.
Kept(new, old) ==
    /\ new.kind = old.kind /\ new.handler = old.handler /\ new.since = old.since
    /\ new.calm = old.calm /\ new.acked = old.acked

\* Only request q changes.
Only(q) == ask' \in [Asks -> Ask] /\ \A p \in Asks \ {q} : ask'[p] = ask[p]

LEMMA OnlyOne ==
    ASSUME NEW q \in Asks, NEW b \in Ask, ask \in [Asks -> Ask],
           DOMAIN ask' = Asks, ask' = [p \in Asks |-> ask'[p]], ask'[q] = b,
           \A p \in Asks : p # q => ask'[p] = ask[p]
    PROVE  Only(q)
  BY DEF Only

LEMMA BeginReadingFacts ==
    ASSUME TableTypes, PageTypes, NEW q \in Asks, BeginReading(q)
    PROVE  /\ UNCHANGED <<vars, pageVars, acked>> /\ Only(q) /\ Kept(ask'[q], ask[q])
           /\ ask[q].stage = "sent" /\ ask[q].kind \in {"reload", "list"}
           /\ ask'[q].stage = "next" /\ ask'[q].rows = ask[q].rows
           /\ ask'[q].events = ask[q].events /\ ask'[q].reading = ask[q].reading
           /\ \E it \in MoveOn(Users) : ask'[q].held = it.held /\ ask'[q].left = it.left
  <1>0. ask \in [Asks -> Ask]
    BY DEF PageTypes
  <1>1. PICK it \in MoveOn(Users) :
           ask' = [ask EXCEPT ![q].stage = "next", ![q].held = it.held, ![q].left = it.left]
    BY DEF BeginReading
  <1>2. it.held \in Seq(Entry) /\ it.left \in SUBSET Users
    BY MoveOnFacts
  <1>3. PICK a \in Ask : a = ask[q]
    BY <1>0
  <1>4. PICK b : b = [a EXCEPT !.stage = "next", !.held = it.held, !.left = it.left]
    OBVIOUS
  <1>5. b \in Ask
    BY <1>2, <1>4 DEF Ask, Stage
  <1>6. ask'[q] = b
    BY <1>0, <1>1, <1>3, <1>4 DEF Ask
  <1>7. DOMAIN ask' = Asks /\ ask' = [p \in Asks |-> ask'[p]] /\ \A p \in Asks : p # q => ask'[p] = ask[p]
    BY <1>0, <1>1 DEF Ask
  <1>8. Only(q)
    BY <1>0, <1>5, <1>6, <1>7, OnlyOne
  <1>9. /\ Kept(b, a) /\ b.stage = "next" /\ b.rows = a.rows /\ b.events = a.events
        /\ b.reading = a.reading /\ b.held = it.held /\ b.left = it.left
    BY <1>4 DEF Ask, Kept
  <1>10. /\ UNCHANGED <<vars, pageVars, acked>> /\ ask[q].stage = "sent"
         /\ ask[q].kind \in {"reload", "list"}
    BY DEF BeginReading, At, ReadStep
  <1> QED
    BY <1>3, <1>6, <1>8, <1>9, <1>10

LEMMA NextEntryFacts ==
    ASSUME TableTypes, PageTypes, NEW q \in Asks, NextEntry(q)
    PROVE  /\ UNCHANGED <<vars, pageVars, acked>> /\ Only(q) /\ Kept(ask'[q], ask[q])
           /\ ask[q].stage = "next" /\ ask'[q].stage = "read" /\ ask'[q].events = ask[q].events
           /\ \E entry \in Entry : \E row \in Nat \ {0} :
                 /\ entry = ask[q].held[1] /\ 1 \in DOMAIN ask[q].held
                 /\ row = entry.row \/ row = mapUserData[entry.user]
                 /\ ask'[q].reading = {entry.user}
                 /\ ask'[q].rows[entry.user].row = row
                 /\ ask'[q].rows[entry.user].isListening = ask[q].rows[entry.user].isListening
                 /\ ask'[q].rows[entry.user].ack = ask[q].rows[entry.user].ack
                 /\ ask'[q].rows[entry.user].unack = ask[q].rows[entry.user].unack
                 /\ \A v \in Users \ {entry.user} : ask'[q].rows[v] = ask[q].rows[v]
           /\ \E it \in MoveOn(ask[q].left) : ask'[q].held = it.held /\ ask'[q].left = it.left
  <1>0. ask \in [Asks -> Ask]
    BY DEF PageTypes
  <1>1. PICK a \in Ask : a = ask[q]
    BY <1>0
  <1>2. a.stage = "next" /\ a.held # <<>> /\ a.held \in Seq(Entry) /\ a.left \in SUBSET Users
    BY <1>1 DEF NextEntry, Ask
  <1>3. PICK entry \in Entry : entry = Head(a.held) /\ entry = a.held[1] /\ 1 \in DOMAIN a.held
    BY <1>2, RestFacts
  <1>4. PICK row \in {entry.row, mapUserData[entry.user]} \ {0}, it \in MoveOn(a.left) :
           ask' = [ask EXCEPT ![q].stage = "read", ![q].held = it.held, ![q].left = it.left,
                              ![q].reading = {entry.user}, ![q].rows[entry.user].row = row]
    BY <1>1, <1>3 DEF NextEntry
  <1>5. PICK u \in Users : u = entry.user
    BY DEF Entry
  <1>6. row \in Nat \ {0} /\ (row = entry.row \/ row = mapUserData[entry.user])
    <2>1. entry.row \in Nat /\ mapUserData[entry.user] \in Nat
      BY <1>5, LenProperties DEF Entry, TableTypes
    <2> QED
      BY <2>1
  <1>7. it.held \in Seq(Entry) /\ it.left \in SUBSET Users
    BY <1>2, MoveOnFacts
  <1>8. PICK read \in [Users -> Shown] : read = a.rows
    BY DEF Ask
  <1>9. PICK new : new = [read EXCEPT ![u].row = row]
    OBVIOUS
  <1>10. new \in [Users -> Shown]
    BY <1>6, <1>9 DEF Shown
  <1>11. PICK b : b = [a EXCEPT !.stage = "read", !.held = it.held, !.left = it.left,
                               !.reading = {u}, !.rows = new]
    OBVIOUS
  <1>12. b \in Ask
    BY <1>7, <1>10, <1>11 DEF Ask, Stage
  <1>13. ask'[q] = b
    BY <1>0, <1>1, <1>4, <1>5, <1>8, <1>9, <1>11 DEF Ask
  <1>14. /\ DOMAIN ask' = Asks /\ ask' = [p \in Asks |-> ask'[p]]
         /\ \A p \in Asks : p # q => ask'[p] = ask[p]
    BY <1>0, <1>4 DEF Ask
  <1>15. Only(q)
    BY <1>0, <1>12, <1>13, <1>14, OnlyOne
  <1>16. /\ Kept(b, a) /\ b.stage = "read" /\ b.rows = new /\ b.events = a.events
         /\ b.reading = {u} /\ b.held = it.held /\ b.left = it.left
    BY <1>11 DEF Ask, Kept
  <1>17. /\ new[u].row = row /\ new[u].isListening = read[u].isListening
         /\ new[u].ack = read[u].ack /\ new[u].unack = read[u].unack
         /\ \A v \in Users \ {u} : new[v] = read[v]
    BY <1>9 DEF Shown
  <1>18. UNCHANGED <<vars, pageVars, acked>>
    BY DEF NextEntry, ReadStep
  <1>19. \E k \in Nat \ {0} :
           /\ k = entry.row \/ k = mapUserData[entry.user]
           /\ ask'[q].rows[u].row = k
           /\ ask'[q].rows[u].isListening = ask[q].rows[u].isListening
           /\ ask'[q].rows[u].ack = ask[q].rows[u].ack
           /\ ask'[q].rows[u].unack = ask[q].rows[u].unack
           /\ \A v \in Users \ {u} : ask'[q].rows[v] = ask[q].rows[v]
    BY <1>1, <1>6, <1>8, <1>13, <1>16, <1>17
  <1> QED
    BY <1>1, <1>2, <1>3, <1>5, <1>13, <1>15, <1>16, <1>18, <1>19

\* The row that is read is there, and what is read of it is what a page may show.
LEMMA RowReadFacts ==
    ASSUME TableTypes, PageInv, FiniteRows, NEW q \in Asks, NEW u \in ask[q].reading
    PROVE  /\ u \in Users /\ ask[q].rows[u].row \in 1 .. Len(userEvents)
           /\ RowRead(q, u) = userEvents[ask[q].rows[u].row] /\ RowRead(q, u) \in UserEvent
           /\ RowRead(q, u).isListening \in {"null", "true", "false"}
           /\ RowRead(q, u).unAckEvents \in SUBSET Events
           /\ RowRead(q, u).totalAckEvents \in Nat
           /\ Cardinality(RowRead(q, u).unAckEvents) \in Nat
  <1>1. ask[q] \in Ask
    BY DEF PageInv, PageTypes
  <1>2. u \in Users /\ ask[q].rows[u] \in Shown
    BY <1>1 DEF Ask
  <1>3. ask[q].rows[u].row \in Nat /\ ask[q].rows[u].row # 0 /\ ask[q].rows[u].row <= Len(userEvents)
    BY <1>2 DEF Shown, PageInv, AskFits
  <1>4. userEvents \in Seq(UserEvent) /\ Len(userEvents) \in Nat
    BY LenProperties DEF TableTypes
  <1>5. ask[q].rows[u].row \in 1 .. Len(userEvents)
    BY <1>3, <1>4
  <1>6. RowRead(q, u) = userEvents[ask[q].rows[u].row] /\ RowRead(q, u) \in UserEvent
    BY <1>4, <1>5, ElementOfSeq DEF RowRead
  <1>7. /\ RowRead(q, u).isListening \in {"null", "true", "false"}
        /\ RowRead(q, u).unAckEvents \in SUBSET Events
        /\ RowRead(q, u).totalAckEvents \in Nat
    BY <1>6 DEF UserEvent
  <1>8. IsFiniteSet(RowRead(q, u).unAckEvents)
    BY <1>5, <1>6 DEF FiniteRows
  <1> QED
    BY <1>2, <1>5, <1>6, <1>7, <1>8, FS_CardinalityType

LEMMA ReadFirstFacts ==
    ASSUME TableTypes, PageInv, FiniteRows, NEW q \in Asks, NEW u \in Users, ReadFirst(q, u)
    PROVE  /\ UNCHANGED <<vars, pageVars, acked>> /\ Only(q) /\ Kept(ask'[q], ask[q])
           /\ ask[q].stage = "read" /\ ask[q].kind = "reload" /\ u \in ask[q].reading
           /\ ask'[q].stage = "read2" /\ ask'[q].events = ask[q].events
           /\ ask'[q].reading = ask[q].reading /\ ask'[q].held = ask[q].held
           /\ ask'[q].left = ask[q].left
           /\ ask'[q].rows[u].row = ask[q].rows[u].row
           /\ ask'[q].rows[u].isListening = RowRead(q, u).isListening
           /\ ask'[q].rows[u].ack = RowRead(q, u).totalAckEvents
           /\ ask'[q].rows[u].unack = ask[q].rows[u].unack
           /\ \A v \in Users \ {u} : ask'[q].rows[v] = ask[q].rows[v]
  <1>0. ask \in [Asks -> Ask]
    BY DEF PageInv, PageTypes
  <1>1. PICK a \in Ask : a = ask[q]
    BY <1>0
  <1>2. ask[q].stage = "read" /\ ask[q].kind = "reload" /\ u \in ask[q].reading
    BY DEF ReadFirst, At
  <1>3. PICK status \in {"null", "true", "false"} : status = RowRead(q, u).isListening
    BY <1>2, RowReadFacts
  <1>4. PICK n \in Nat : n = RowRead(q, u).totalAckEvents
    BY <1>2, RowReadFacts
  <1>5. ReadOrder[1] = "ack" /\ CountIn(RowRead(q, u), ReadOrder[1]) = n
    BY <1>4 DEF ReadOrder, CountIn
  <1>6. ask' = [ask EXCEPT ![q].stage = "read2", ![q].rows[u].isListening = status, ![q].rows[u].ack = n]
    BY <1>3, <1>5 DEF ReadFirst
  <1>7. PICK read \in [Users -> Shown] : read = a.rows
    BY DEF Ask
  <1>8. PICK new : new = [read EXCEPT ![u].isListening = status, ![u].ack = n]
    OBVIOUS
  <1>9. new \in [Users -> Shown]
    BY <1>8 DEF Shown
  <1>10. PICK b : b = [a EXCEPT !.stage = "read2", !.rows = new]
    OBVIOUS
  <1>11. b \in Ask
    BY <1>9, <1>10 DEF Ask, Stage
  <1>12. ask'[q] = b
    BY <1>0, <1>1, <1>6, <1>7, <1>8, <1>10 DEF Ask
  <1>13. /\ DOMAIN ask' = Asks /\ ask' = [p \in Asks |-> ask'[p]]
         /\ \A p \in Asks : p # q => ask'[p] = ask[p]
    BY <1>0, <1>6 DEF Ask
  <1>14. Only(q)
    BY <1>0, <1>11, <1>12, <1>13, OnlyOne
  <1>15. /\ Kept(b, a) /\ b.stage = "read2" /\ b.rows = new /\ b.events = a.events
         /\ b.reading = a.reading /\ b.held = a.held /\ b.left = a.left
    BY <1>10 DEF Ask, Kept
  <1>16. /\ new[u].row = read[u].row /\ new[u].isListening = status
         /\ new[u].ack = n /\ new[u].unack = read[u].unack
         /\ \A v \in Users \ {u} : new[v] = read[v]
    BY <1>8 DEF Shown
  <1>17. UNCHANGED <<vars, pageVars, acked>>
    BY DEF ReadFirst, ReadStep
  <1> QED
    BY <1>1, <1>2, <1>3, <1>4, <1>7, <1>12, <1>14, <1>15, <1>16, <1>17

LEMMA ReadSecondFacts ==
    ASSUME TableTypes, PageInv, FiniteRows, NEW q \in Asks, NEW u \in Users, ReadSecond(q, u)
    PROVE  /\ UNCHANGED <<vars, pageVars, acked>> /\ Only(q) /\ Kept(ask'[q], ask[q])
           /\ ask[q].stage = "read2" /\ ask[q].kind = "reload" /\ u \in ask[q].reading
           /\ ask'[q].stage = "next" /\ ask'[q].events = ask[q].events
           /\ ask'[q].reading = {} /\ ask'[q].held = ask[q].held
           /\ ask'[q].left = ask[q].left
           /\ ask'[q].rows[u].row = ask[q].rows[u].row
           /\ ask'[q].rows[u].isListening = ask[q].rows[u].isListening
           /\ ask'[q].rows[u].ack = ask[q].rows[u].ack
           /\ ask'[q].rows[u].unack = Cardinality(RowRead(q, u).unAckEvents)
           /\ \A v \in Users \ {u} : ask'[q].rows[v] = ask[q].rows[v]
  <1>0. ask \in [Asks -> Ask]
    BY DEF PageInv, PageTypes
  <1>1. PICK a \in Ask : a = ask[q]
    BY <1>0
  <1>2. ask[q].stage = "read2" /\ ask[q].kind = "reload" /\ u \in ask[q].reading
    BY DEF ReadSecond, At
  <1>3. PICK n \in Nat : n = Cardinality(RowRead(q, u).unAckEvents)
    BY <1>2, RowReadFacts
  <1>4. ReadOrder[2] = "unack" /\ CountIn(RowRead(q, u), ReadOrder[2]) = n
    BY <1>3 DEF ReadOrder, CountIn
  <1>5. ask' = [ask EXCEPT ![q].stage = "next", ![q].reading = {}, ![q].rows[u].unack = n]
    BY <1>4 DEF ReadSecond
  <1>6. PICK read \in [Users -> Shown] : read = a.rows
    BY DEF Ask
  <1>7. PICK new : new = [read EXCEPT ![u].unack = n]
    OBVIOUS
  <1>8. new \in [Users -> Shown]
    BY <1>7 DEF Shown
  <1>9. PICK b : b = [a EXCEPT !.stage = "next", !.reading = {}, !.rows = new]
    OBVIOUS
  <1>10. b \in Ask
    BY <1>8, <1>9 DEF Ask, Stage
  <1>11. ask'[q] = b
    BY <1>0, <1>1, <1>5, <1>6, <1>7, <1>9 DEF Ask
  <1>12. /\ DOMAIN ask' = Asks /\ ask' = [p \in Asks |-> ask'[p]]
         /\ \A p \in Asks : p # q => ask'[p] = ask[p]
    BY <1>0, <1>5 DEF Ask
  <1>13. Only(q)
    BY <1>0, <1>10, <1>11, <1>12, OnlyOne
  <1>14. /\ Kept(b, a) /\ b.stage = "next" /\ b.rows = new /\ b.events = a.events
         /\ b.reading = {} /\ b.held = a.held /\ b.left = a.left
    BY <1>9 DEF Ask, Kept
  <1>15. /\ new[u].row = read[u].row /\ new[u].isListening = read[u].isListening
         /\ new[u].ack = read[u].ack /\ new[u].unack = n
         /\ \A v \in Users \ {u} : new[v] = read[v]
    BY <1>7 DEF Shown
  <1>16. UNCHANGED <<vars, pageVars, acked>>
    BY DEF ReadSecond, ReadStep
  <1> QED
    BY <1>1, <1>2, <1>3, <1>6, <1>11, <1>13, <1>14, <1>15, <1>16

LEMMA ReadEventsFacts ==
    ASSUME TableTypes, PageInv, FiniteRows, NEW q \in Asks, NEW u \in Users, ReadEvents(q, u)
    PROVE  /\ UNCHANGED <<vars, pageVars, acked>> /\ Only(q) /\ Kept(ask'[q], ask[q])
           /\ ask[q].stage = "read" /\ ask[q].kind = "list" /\ u \in ask[q].reading
           /\ ask'[q].stage = "next" /\ ask'[q].rows = ask[q].rows
           /\ ask'[q].reading = {} /\ ask'[q].held = ask[q].held
           /\ ask'[q].left = ask[q].left
           /\ ask'[q].events \subseteq ask[q].events \cup RowRead(q, u).unAckEvents
  <1>0. ask \in [Asks -> Ask]
    BY DEF PageInv, PageTypes
  <1>1. PICK a \in Ask : a = ask[q]
    BY <1>0
  <1>2. ask[q].stage = "read" /\ ask[q].kind = "list" /\ u \in ask[q].reading
    BY DEF ReadEvents, At
  <1>3. PICK part \in SUBSET RowRead(q, u).unAckEvents :
           ask' = [ask EXCEPT ![q].stage = "next", ![q].reading = {}, ![q].events = @ \cup part]
    BY DEF ReadEvents
  <1>4. part \subseteq Events
    BY <1>2, <1>3, RowReadFacts
  <1>5. PICK b : b = [a EXCEPT !.stage = "next", !.reading = {}, !.events = @ \cup part]
    OBVIOUS
  <1>6. b \in Ask
    BY <1>4, <1>5 DEF Ask, Stage
  <1>7. ask'[q] = b
    BY <1>0, <1>1, <1>3, <1>5 DEF Ask
  <1>8. /\ DOMAIN ask' = Asks /\ ask' = [p \in Asks |-> ask'[p]]
        /\ \A p \in Asks : p # q => ask'[p] = ask[p]
    BY <1>0, <1>3 DEF Ask
  <1>9. Only(q)
    BY <1>0, <1>6, <1>7, <1>8, OnlyOne
  <1>10. /\ Kept(b, a) /\ b.stage = "next" /\ b.rows = a.rows /\ b.events = a.events \cup part
         /\ b.reading = {} /\ b.held = a.held /\ b.left = a.left
    BY <1>5 DEF Ask, Kept
  <1>11. UNCHANGED <<vars, pageVars, acked>>
    BY DEF ReadEvents, ReadStep
  <1> QED
    BY <1>1, <1>2, <1>3, <1>7, <1>9, <1>10, <1>11

LEMMA AnswerPageFacts ==
    ASSUME PageTypes, NEW q \in Asks, AnswerPage(q)
    PROVE  /\ UNCHANGED <<vars, pageVars, acked>> /\ Only(q) /\ Kept(ask'[q], ask[q])
           /\ ask[q].stage = "next" /\ ask[q].held = <<>>
           /\ ask'[q].stage = "answered" /\ ask'[q].rows = ask[q].rows
           /\ ask'[q].events = ask[q].events /\ ask'[q].reading = ask[q].reading
           /\ ask'[q].held = ask[q].held /\ ask'[q].left = ask[q].left
  <1>0. ask \in [Asks -> Ask]
    BY DEF PageTypes
  <1>1. PICK a \in Ask : a = ask[q]
    BY <1>0
  <1>2. ask' = [ask EXCEPT ![q].stage = "answered"]
    BY DEF AnswerPage
  <1>3. PICK b : b = [a EXCEPT !.stage = "answered"]
    OBVIOUS
  <1>4. b \in Ask
    BY <1>3 DEF Ask, Stage
  <1>5. ask'[q] = b
    BY <1>0, <1>1, <1>2, <1>3 DEF Ask
  <1>6. /\ DOMAIN ask' = Asks /\ ask' = [p \in Asks |-> ask'[p]]
        /\ \A p \in Asks : p # q => ask'[p] = ask[p]
    BY <1>0, <1>2 DEF Ask
  <1>7. Only(q)
    BY <1>0, <1>4, <1>5, <1>6, OnlyOne
  <1>8. /\ Kept(b, a) /\ b.stage = "answered" /\ b.rows = a.rows /\ b.events = a.events
        /\ b.reading = a.reading /\ b.held = a.held /\ b.left = a.left
    BY <1>3 DEF Ask, Kept
  <1>9. UNCHANGED <<vars, pageVars, acked>> /\ ask[q].stage = "next" /\ ask[q].held = <<>>
    BY DEF AnswerPage, ReadStep
  <1> QED
    BY <1>1, <1>5, <1>7, <1>8, <1>9

\* The requests that the page starts with.
LEMMA Starts ==
    ASSUME PageTypes
    PROVE  /\ \A k \in Nat : /\ Reload(k) \in Ask /\ Reload(k).stage = "sent"
                             /\ Reload(k).kind = "reload" /\ Reload(k).since = k
                             /\ Reload(k).calm = AllIdle /\ Reload(k).rows = NoRows
                             /\ Reload(k).events = {} /\ Reload(k).held = <<>>
                             /\ Reload(k).left = {} /\ Reload(k).reading = {}
                             /\ Reload(k).handler = {}
           /\ List \in Ask /\ List.stage = "sent" /\ List.kind = "list" /\ List.since = 0
           /\ List.calm = FALSE /\ List.rows = NoRows /\ List.events = {} /\ List.held = <<>>
           /\ List.left = {} /\ List.reading = {} /\ List.handler = {} /\ List.acked = acked
           /\ Clear.stage = "sent" /\ Clear.kind = "clear" /\ Clear.since = Len(userEvents)
           /\ Clear.calm = FALSE /\ Clear.rows = NoRows /\ Clear.events = {} /\ Clear.held = <<>>
           /\ Clear.left = {} /\ Clear.reading = {} /\ Clear.handler = {}
           /\ Len(userEvents) \in Nat => Clear \in Ask
  <1>1. PICK none \in Ask : none = NoAsk
    BY NewAsks
  <1>2. /\ none.stage = "none" /\ none.kind = "none" /\ none.rows = NoRows /\ none.events = {}
        /\ none.held = <<>> /\ none.left = {} /\ none.reading = {} /\ none.handler = {}
        /\ none.since = 0 /\ none.calm = FALSE /\ none.acked = {}
    BY <1>1, NewAsks
  <1>3. PICK idle \in BOOLEAN : idle = AllIdle
    BY DEF AllIdle
  <1>4. ASSUME NEW k \in Nat
        PROVE  /\ Reload(k) \in Ask /\ Reload(k).stage = "sent"
               /\ Reload(k).kind = "reload" /\ Reload(k).since = k
               /\ Reload(k).calm = AllIdle /\ Reload(k).rows = NoRows
               /\ Reload(k).events = {} /\ Reload(k).held = <<>>
               /\ Reload(k).left = {} /\ Reload(k).reading = {}
               /\ Reload(k).handler = {}
    <2>1. PICK r : r = [none EXCEPT !.stage = "sent", !.kind = "reload", !.since = k, !.calm = idle]
      OBVIOUS
    <2>2. r = Reload(k)
      BY <1>1, <1>3, <2>1 DEF Reload
    <2>3. r \in Ask
      BY <2>1 DEF Ask, Stage, Kind
    <2>4. /\ r.stage = "sent" /\ r.kind = "reload" /\ r.since = k /\ r.calm = idle
          /\ r.rows = none.rows /\ r.events = none.events /\ r.held = none.held
          /\ r.left = none.left /\ r.reading = none.reading /\ r.handler = none.handler
      BY <2>1 DEF Ask
    <2> QED
      BY <1>2, <1>3, <2>2, <2>3, <2>4
  <1>5. /\ List \in Ask /\ List.stage = "sent" /\ List.kind = "list" /\ List.since = 0
        /\ List.calm = FALSE /\ List.rows = NoRows /\ List.events = {} /\ List.held = <<>>
        /\ List.left = {} /\ List.reading = {} /\ List.handler = {} /\ List.acked = acked
    <2>1. PICK r : r = [none EXCEPT !.stage = "sent", !.kind = "list", !.acked = acked]
      OBVIOUS
    <2>2. r = List
      BY <1>1, <2>1 DEF List
    <2>3. r \in Ask
      BY <2>1 DEF Ask, Stage, Kind, PageTypes
    <2>4. /\ r.stage = "sent" /\ r.kind = "list" /\ r.since = none.since /\ r.calm = none.calm
          /\ r.rows = none.rows /\ r.events = none.events /\ r.held = none.held
          /\ r.left = none.left /\ r.reading = none.reading /\ r.handler = none.handler
          /\ r.acked = acked
      BY <2>1 DEF Ask
    <2> QED
      BY <1>2, <2>2, <2>3, <2>4
  <1>6. /\ Clear.stage = "sent" /\ Clear.kind = "clear" /\ Clear.since = Len(userEvents)
        /\ Clear.calm = FALSE /\ Clear.rows = NoRows /\ Clear.events = {} /\ Clear.held = <<>>
        /\ Clear.left = {} /\ Clear.reading = {} /\ Clear.handler = {}
        /\ Len(userEvents) \in Nat => Clear \in Ask
    <2>1. PICK k : k = Len(userEvents)
      OBVIOUS
    <2>2. PICK r : r = [none EXCEPT !.stage = "sent", !.kind = "clear", !.since = k]
      OBVIOUS
    <2>3. r = Clear
      BY <1>1, <2>1, <2>2 DEF Clear
    <2>4. k \in Nat => r \in Ask
      BY <2>2 DEF Ask, Stage, Kind
    <2>5. /\ r.stage = "sent" /\ r.kind = "clear" /\ r.since = k /\ r.calm = none.calm
          /\ r.rows = none.rows /\ r.events = none.events /\ r.held = none.held
          /\ r.left = none.left /\ r.reading = none.reading /\ r.handler = none.handler
      BY <2>2 DEF Ask
    <2> QED
      BY <1>2, <2>1, <2>3, <2>4, <2>5
  <1> QED
    BY <1>4, <1>5, <1>6

\* A request of the page becomes another one.
LEMMA Replaced ==
    ASSUME PageTypes, NEW q \in Asks, NEW new \in Ask, ask' = [ask EXCEPT ![q] = new]
    PROVE  Only(q) /\ ask'[q] = new
  BY DEF PageTypes, Only

LEMMA ClickFacts ==
    ASSUME PageTypes, Len(userEvents) \in Nat, ClickReload \/ ClickList \/ ClickClear
    PROVE  /\ UNCHANGED <<vars, rows, totals, list, acked>> /\ clicks' \in 0 .. MaxClicks
           /\ \E q \in Asks :
                 /\ ~UnderWay(q) /\ Only(q)
                 /\ ask'[q] = Reload(0) \/ ask'[q] = List \/ ask'[q] = Clear
  <1>1. Click
    BY DEF ClickReload, ClickList, ClickClear
  <1>2. UNCHANGED <<vars, rows, totals, list, acked>>
    BY <1>1 DEF Click
  <1>3. clicks' \in 0 .. MaxClicks
    BY <1>1, TableViewAssumption DEF Click, PageTypes, TableViewAssumption
  <1>4. PICK q \in Asks : q = Free /\ ~UnderWay(q)
    BY <1>1 DEF Click, Free
  <1>5. \/ ask' = [ask EXCEPT ![q] = Reload(0)]
        \/ ask' = [ask EXCEPT ![q] = List]
        \/ ask' = [ask EXCEPT ![q] = Clear]
    BY <1>4 DEF ClickReload, ClickList, ClickClear
  <1>6. Reload(0) \in Ask /\ List \in Ask /\ Clear \in Ask
    BY Starts
  <1>7. Only(q) /\ (ask'[q] = Reload(0) \/ ask'[q] = List \/ ask'[q] = Clear)
    BY <1>5, <1>6, Replaced
  <1> QED
    BY <1>2, <1>3, <1>4, <1>7

LEMMA ShowFacts ==
    ASSUME PageTypes, NEW q \in Asks, ShowTable(q) \/ ShowList(q)
    PROVE  /\ UNCHANGED <<vars, clicks, acked>> /\ Only(q) /\ ask'[q] = NoAsk
           /\ ask[q].stage = "answered"
           /\ ShowTable(q) => /\ ask[q].kind = "reload" /\ rows' = ask[q].rows
                              /\ UNCHANGED list
           /\ ShowList(q) => /\ ask[q].kind = "list" /\ list' = ask[q].events
                             /\ UNCHANGED rows
  <1>1. ask' = [ask EXCEPT ![q] = NoAsk]
    BY DEF ShowTable, ShowList
  <1>2. Only(q) /\ ask'[q] = NoAsk
    BY <1>1, Replaced, NewAsks
  <1> QED
    BY <1>2 DEF ShowTable, ShowList, At

LEMMA ClearDoneFacts ==
    ASSUME PageTypes, NEW q \in Asks, ClearDone(q)
    PROVE  /\ UNCHANGED <<vars, pageVars, acked>> /\ Only(q) /\ ask'[q] = Reload(ask[q].since)
           /\ ask[q].stage = "answered" /\ ask[q].kind = "clear" /\ ask[q].since \in Nat
  <1>1. PICK k \in Nat : k = ask[q].since
    BY DEF PageTypes, Ask
  <1>2. ask' = [ask EXCEPT ![q] = Reload(k)]
    BY <1>1 DEF ClearDone
  <1>3. Only(q) /\ ask'[q] = Reload(k)
    BY <1>2, Replaced, Starts
  <1> QED
    BY <1>1, <1>3 DEF ClearDone, At

\* Everything but the calm, and where a request and its handler are.
Like(new, old) ==
    /\ new.kind = old.kind /\ new.rows = old.rows /\ new.events = old.events
    /\ new.held = old.held /\ new.left = old.left /\ new.reading = old.reading
    /\ new.since = old.since /\ new.acked = old.acked
Staying(new, old) == Like(new, old) /\ new.stage = old.stage /\ new.handler = old.handler

LEMMA OthersFacts ==
    ASSUME PageTypes, ask' = Disturbed(ask)
    PROVE  /\ ask' \in [Asks -> Ask]
           /\ \A q \in Asks : Staying(ask'[q], ask[q]) /\ ask'[q].calm = FALSE
  <1>1. ask' = [q \in Asks |-> [ask[q] EXCEPT !.calm = FALSE]]
    BY DEF Disturbed
  <1>2. ASSUME NEW q \in Asks
        PROVE  ask'[q] \in Ask /\ Staying(ask'[q], ask[q]) /\ ask'[q].calm = FALSE
    <2>1. PICK a \in Ask : a = ask[q]
      BY DEF PageTypes
    <2>2. PICK b : b = [a EXCEPT !.calm = FALSE]
      OBVIOUS
    <2>3. b \in Ask
      BY <2>2 DEF Ask
    <2>4. ask'[q] = b
      BY <1>1, <2>1, <2>2
    <2>5. Staying(b, a) /\ b.calm = FALSE
      BY <2>2 DEF Ask, Staying, Like
    <2> QED
      BY <2>1, <2>3, <2>4, <2>5
  <1>3. ask' = [q \in Asks |-> ask'[q]]
    BY <1>1
  <1>4. ask' \in [Asks -> Ask]
    BY <1>2, <1>3
  <1> QED
    BY <1>2, <1>4

LEMMA HandleClearFacts ==
    ASSUME PageTypes, NEW q \in Asks, NEW h \in Handlers, HandleClear(q, h)
    PROVE  /\ Reset(h, <<>>) /\ UNCHANGED <<pageVars, acked>> /\ ask' \in [Asks -> Ask]
           /\ ask[q].stage = "sent" /\ ask[q].kind = "clear"
           /\ Like(ask'[q], ask[q]) /\ ask'[q].stage = "clearing" /\ ask'[q].handler = {h}
           /\ \A p \in Asks \ {q} : Staying(ask'[p], ask[p])
           /\ \A p \in Asks : ask'[p].calm = FALSE
  <1>0. ask \in [Asks -> Ask]
    BY DEF PageTypes
  <1>1. PICK a \in Ask : a = ask[q]
    BY <1>0
  <1>2. PICK mid : mid = [ask EXCEPT ![q].stage = "clearing", ![q].handler = {h}]
    OBVIOUS
  <1>3. PICK b : b = [a EXCEPT !.stage = "clearing", !.handler = {h}]
    OBVIOUS
  <1>4. b \in Ask
    BY <1>3 DEF Ask, Stage
  <1>5. mid[q] = b
    BY <1>0, <1>1, <1>2, <1>3 DEF Ask
  <1>6. /\ DOMAIN mid = Asks /\ mid = [p \in Asks |-> mid[p]]
        /\ \A p \in Asks : p # q => mid[p] = ask[p]
    BY <1>0, <1>2 DEF Ask
  <1>7. mid \in [Asks -> Ask]
    BY <1>0, <1>4, <1>5, <1>6
  <1>8. Like(b, a) /\ b.stage = "clearing" /\ b.handler = {h}
    BY <1>3 DEF Ask, Like
  <1>9. ask' = [p \in Asks |-> [mid[p] EXCEPT !.calm = FALSE]]
    BY <1>2 DEF HandleClear, Disturbed
  <1>10. ASSUME NEW p \in Asks
         PROVE  ask'[p] \in Ask /\ Staying(ask'[p], mid[p]) /\ ask'[p].calm = FALSE
    <2>1. PICK c \in Ask : c = mid[p]
      BY <1>7
    <2>2. PICK d : d = [c EXCEPT !.calm = FALSE]
      OBVIOUS
    <2>3. d \in Ask
      BY <2>2 DEF Ask
    <2>4. ask'[p] = d
      BY <1>9, <2>1, <2>2
    <2>5. Staying(d, c) /\ d.calm = FALSE
      BY <2>2 DEF Ask, Staying, Like
    <2> QED
      BY <2>1, <2>3, <2>4, <2>5
  <1>11. ask' = [p \in Asks |-> ask'[p]]
    BY <1>9
  <1>12. ask' \in [Asks -> Ask]
    BY <1>10, <1>11
  <1>13. Like(ask'[q], ask[q]) /\ ask'[q].stage = "clearing" /\ ask'[q].handler = {h}
    BY <1>1, <1>5, <1>8, <1>10 DEF Staying, Like
  <1>14. \A p \in Asks \ {q} : Staying(ask'[p], ask[p])
    BY <1>6, <1>10
  <1> QED
    BY <1>10, <1>12, <1>13, <1>14 DEF HandleClear, At

LEMMA HandlerStepFacts ==
    ASSUME PageTypes, NEW h \in Handlers, HandlerStep(h)
    PROVE  /\ Step(h) /\ UNCHANGED pageVars /\ ask' \in [Asks -> Ask]
           /\ \A q \in Asks :
                 /\ Like(ask'[q], ask[q]) /\ ask'[q].calm = ask[q].calm
                 /\ h \in ask[q].handler /\ at'[h] = "idle"
                       => ask'[q].stage = "answered" /\ ask'[q].handler = {}
                 /\ ~(h \in ask[q].handler /\ at'[h] = "idle") => ask'[q] = ask[q]
           /\ acked' = IF at[h] = "updating" /\ at'[h] = "counting"
                       THEN acked \cup {Item(h).event} ELSE acked
  <1>1. ask' = [q \in Asks |-> IF h \in ask[q].handler /\ at'[h] = "idle"
                               THEN [ask[q] EXCEPT !.stage = "answered", !.handler = {}]
                               ELSE ask[q]]
    BY DEF HandlerStep
  <1>2. ASSUME NEW q \in Asks
        PROVE  /\ ask'[q] \in Ask
               /\ Like(ask'[q], ask[q]) /\ ask'[q].calm = ask[q].calm
               /\ h \in ask[q].handler /\ at'[h] = "idle"
                     => ask'[q].stage = "answered" /\ ask'[q].handler = {}
               /\ ~(h \in ask[q].handler /\ at'[h] = "idle") => ask'[q] = ask[q]
    <2>1. PICK a \in Ask : a = ask[q]
      BY DEF PageTypes
    <2>2. PICK b : b = [a EXCEPT !.stage = "answered", !.handler = {}]
      OBVIOUS
    <2>3. b \in Ask
      BY <2>2 DEF Ask, Stage
    <2>4. /\ Like(b, a) /\ b.calm = a.calm /\ b.stage = "answered" /\ b.handler = {}
          /\ Like(a, a)
      BY <2>2 DEF Ask, Like
    <2>5. CASE h \in ask[q].handler /\ at'[h] = "idle"
      <3>1. ask'[q] = b
        BY <1>1, <2>1, <2>2, <2>5
      <3> QED
        BY <2>1, <2>3, <2>4, <2>5, <3>1
    <2>6. CASE ~(h \in ask[q].handler /\ at'[h] = "idle")
      <3>1. ask'[q] = a
        BY <1>1, <2>1, <2>6
      <3> QED
        BY <2>1, <2>4, <2>6, <3>1
    <2> QED
      BY <2>5, <2>6
  <1>3. ask' = [q \in Asks |-> ask'[q]]
    BY <1>1
  <1>4. ask' \in [Asks -> Ask]
    BY <1>2, <1>3
  <1> QED
    BY <1>2, <1>4 DEF HandlerStep

-----------------------------------------------------------------------------
(* What handlers do to the table, as far as the page can tell. *)

\* Rows are added and replaced, never taken back; a list gets one event at most.
Grows(e) ==
    /\ Len(userEvents) \in Nat
    /\ \/ Len(userEvents') = Len(userEvents)
       \/ Len(userEvents') = Len(userEvents) + 1 /\ userEvents'[Len(userEvents) + 1] = NewUserEvent
    /\ \A u \in Users : \/ mapUserData'[u] \in {mapUserData[u], 0}
                        \/ /\ mapUserData'[u] = Len(userEvents) + 1
                           /\ Len(userEvents') = Len(userEvents) + 1
    /\ \A k \in 1 .. Len(userEvents) :
          userEvents'[k].unAckEvents \subseteq userEvents[k].unAckEvents \cup {e}

LEMMA GrowsByRow ==
    ASSUME Types, NEW h \in Handlers, NEW u \in Users, AddRow(h, u), NEW e
    PROVE  Grows(e)
  <1>1. /\ Len(userEvents) \in Nat /\ Len(userEvents') = Len(userEvents) + 1
        /\ \A k \in 1 .. Len(userEvents) : userEvents'[k] = userEvents[k]
        /\ userEvents'[Len(userEvents) + 1] = NewUserEvent
    BY NewRowFacts DEF AddRow, Types, StatisticsTypeOK
  <1>2. \A v \in Users : mapUserData'[v] = mapUserData[v] \/ mapUserData'[v] = Len(userEvents) + 1
    BY DEF AddRow, Types, StatisticsTypeOK
  <1> QED
    BY <1>1, <1>2 DEF Grows

LEMMA GrowsByUpdate ==
    ASSUME Types, NEW h \in Handlers, userEvent[h] \in 1 .. Len(userEvents),
           NEW row \in UserEvent, userEvents' = [userEvents EXCEPT ![userEvent[h]] = row],
           UNCHANGED mapUserData, NEW e,
           row.unAckEvents \subseteq Row(h).unAckEvents \cup {e}
    PROVE  Grows(e)
  <1>1. userEvents \in Seq(UserEvent) /\ Len(userEvents) \in Nat
    BY LenProperties DEF Types, StatisticsTypeOK
  <1>2. RowBecomes(userEvent[h], row)
    BY <1>1, RowFacts
  <1>3. \A k \in 1 .. Len(userEvents) :
           userEvents'[k].unAckEvents \subseteq userEvents[k].unAckEvents \cup {e}
    BY <1>2 DEF RowBecomes, Row
  <1> QED
    BY <1>1, <1>2, <1>3 DEF Grows, RowBecomes

LEMMA GrowsNot ==
    ASSUME Types, UNCHANGED userEvents, NEW e,
           \A u \in Users : mapUserData'[u] \in {mapUserData[u], 0}
    PROVE  Grows(e)
  BY LenProperties DEF Grows, Types, StatisticsTypeOK

LEMMA StepGrows ==
    ASSUME Types, NEW h \in Handlers, Step(h)
    PROVE  Grows(Item(h).event)
  <1>1. CASE Lookup(h) \/ BeginUpdate(h) \/ ReadCount(h) \/ Throw(h) \/ Answer(h)
    <2>1. UNCHANGED <<userEvents, mapUserData>>
      BY <1>1 DEF Lookup, BeginUpdate, ReadCount, Throw, Answer, table
    <2> QED
      BY <2>1, GrowsNot
  <1>2. CASE Create(h)
    <2>1. AddRow(h, Item(h).id) /\ at[h] = "create"
      BY <1>2 DEF Create
    <2>2. PICK u \in Users : u = Item(h).id
      BY <2>1, HandlerFacts, PlaceFacts
    <2> QED
      BY <2>1, <2>2, GrowsByRow
  <1>3. CASE RegisterUser(h)
    <2>1. AddRow(h, Head(todo[h])) /\ Head(todo[h]) \in Users
      BY <1>3, RestFacts DEF RegisterUser, Types, TodoOK, Resetting
    <2>2. PICK u \in Users : u = Head(todo[h])
      BY <2>1
    <2> QED
      BY <2>1, <2>2, GrowsByRow
  <1>4. CASE SetListenerStatus(h) \/ StoreCount(h)
    <2>1. Holding(h) /\ UNCHANGED mapUserData
      BY <1>4 DEF SetListenerStatus, StoreCount, Holding, Updating
    <2>2. /\ Row(h) \in UserEvent /\ Item(h) \in Items /\ userEvent[h] \in 1 .. Len(userEvents)
          /\ count[h] + 1 \in Nat
      BY <2>1, HandlerFacts DEF Holding, Types, StatisticsTypeOK
    <2>3. PICK row \in UserEvent : /\ row.unAckEvents = Row(h).unAckEvents
                                   /\ userEvents' = [userEvents EXCEPT ![userEvent[h]] = row]
      <3>1. CASE SetListenerStatus(h)
        <4>1. Item(h).event \in {"true", "false"}
          BY <2>2, <3>1, ItemFacts DEF SetListenerStatus
        <4>2. PICK row : row = [Row(h) EXCEPT !.isListening = Item(h).event]
          OBVIOUS
        <4>3. row \in UserEvent /\ row.unAckEvents = Row(h).unAckEvents
          BY <2>2, <4>1, <4>2, FieldFacts DEF UserEvent
        <4>4. userEvents' = [userEvents EXCEPT ![userEvent[h]] = row]
          BY <3>1, <4>2 DEF SetListenerStatus, Row
        <4> QED
          BY <4>3, <4>4
      <3>2. CASE StoreCount(h)
        <4>1. PICK row : row = [Row(h) EXCEPT !.totalAckEvents = count[h] + 1]
          OBVIOUS
        <4>2. row \in UserEvent /\ row.unAckEvents = Row(h).unAckEvents
          BY <2>2, <4>1, FieldFacts DEF UserEvent
        <4>3. userEvents' = [userEvents EXCEPT ![userEvent[h]] = row]
          BY <3>2, <4>1 DEF StoreCount, Row
        <4> QED
          BY <4>2, <4>3
      <3> QED
        BY <1>4, <3>1, <3>2
    <2> QED
      BY <2>1, <2>2, <2>3, GrowsByUpdate
  <1>5. CASE AddNewEvent(h) \/ AckEvent(h)
    <2>1. Holding(h) /\ UNCHANGED mapUserData /\ Item(h).type # "ListenerStatus"
      BY <1>5 DEF AddNewEvent, AckEvent, Holding, Updating
    <2>2. /\ Row(h) \in UserEvent /\ Item(h) \in Items /\ userEvent[h] \in 1 .. Len(userEvents)
      BY <2>1, HandlerFacts DEF Holding
    <2>3. PICK l : /\ l \subseteq Row(h).unAckEvents \cup {Item(h).event}
                   /\ userEvents' = [userEvents EXCEPT ![userEvent[h]].unAckEvents = l]
      BY <1>5 DEF AddNewEvent, AckEvent, Outcomes
    <2>4. l \in SUBSET Events
      BY <2>1, <2>2, <2>3, ItemFacts, FieldFacts
    <2>5. PICK row : row = [Row(h) EXCEPT !.unAckEvents = l]
      OBVIOUS
    <2>6. row \in UserEvent /\ row.unAckEvents = l
      BY <2>2, <2>4, <2>5, FieldFacts DEF UserEvent
    <2>7. userEvents' = [userEvents EXCEPT ![userEvent[h]] = row]
      BY <2>3, <2>5 DEF Row
    <2> QED
      BY <2>1, <2>2, <2>3, <2>6, <2>7, GrowsByUpdate
  <1>6. ASSUME NEW u \in Users, ClearRow(h, u)
        PROVE  Grows(Item(h).event)
    <2>1. /\ \A v \in Users : mapUserData'[v] \in {mapUserData[v], 0}
          /\ UNCHANGED userEvents
      BY <1>6 DEF ClearRow, Types, StatisticsTypeOK
    <2> QED
      BY <2>1, GrowsNot
  <1> QED
    BY <1>1, <1>2, <1>3, <1>4, <1>5, <1>6 DEF Step

\* Whatever a step of TableSpec is, the table grows; only updates write to lists.
LEMMA NextGrows ==
    ASSUME Types, TableNext
    PROVE  \E e : Grows(e)
  <1>1. ASSUME NEW h \in Handlers, Step(h)
        PROVE  \E e : Grows(e)
    BY <1>1, StepGrows
  <1>2. ASSUME NEW h \in Handlers, Request(h)
        PROVE  UNCHANGED table
    BY <1>2 DEF Request, PutStatistics, Reset
  <1>3. ASSUME UNCHANGED table
        PROVE  \E e : Grows(e)
    <2>1. UNCHANGED userEvents /\ \A u \in Users : mapUserData'[u] \in {mapUserData[u], 0}
      BY <1>3 DEF table
    <2>2. Grows(0)
      BY <2>1, GrowsNot
    <2> QED
      BY <2>2
  <1>4. UNCHANGED vars => UNCHANGED table
    BY DEF vars, table
  <1>5. \/ \E h \in Handlers : Step(h)
        \/ \E h \in Handlers : Request(h)
        \/ UNCHANGED vars
    BY PageSteps
  <1>6. (\E h \in Handlers : Request(h)) => UNCHANGED table
    BY <1>2
  <1> QED
    BY <1>1, <1>3, <1>4, <1>5, <1>6

LEMMA FiniteKept ==
    ASSUME Types, FiniteRows, NEW e, Grows(e)
    PROVE  FiniteRows'
  <1>1. Len(userEvents) \in Nat
    BY DEF Grows
  <1>2. ASSUME NEW k \in 1 .. Len(userEvents)
        PROVE  IsFiniteSet(userEvents'[k].unAckEvents)
    <2>1. IsFiniteSet(userEvents[k].unAckEvents)
      BY DEF FiniteRows
    <2>2. IsFiniteSet(userEvents[k].unAckEvents \cup {e})
      BY <2>1, FS_Singleton, FS_Union
    <2> QED
      BY <2>2, FS_Subset DEF Grows
  <1>3. ASSUME Len(userEvents') = Len(userEvents) + 1
        PROVE  IsFiniteSet(userEvents'[Len(userEvents) + 1].unAckEvents)
    <2>1. Len(userEvents') # Len(userEvents)
      BY <1>1, <1>3
    <2>2. userEvents'[Len(userEvents) + 1].unAckEvents = {}
      BY <2>1 DEF Grows, NewUserEvent
    <2> QED
      BY <2>2, FS_EmptySet
  <1>4. \A k \in 1 .. Len(userEvents') :
           k \in 1 .. Len(userEvents)
           \/ (k = Len(userEvents) + 1 /\ Len(userEvents') = Len(userEvents) + 1)
    BY <1>1 DEF Grows
  <1> QED
    BY <1>2, <1>3, <1>4 DEF FiniteRows

\* A handler that resets the table is busy with that until it answers, and a request of
\* the page and another handler's step leave it where it is.
LEMMA ResettingStays ==
    ASSUME Types, NEW h \in Handlers, Step(h) \/ Request(h), NEW g \in Handlers,
           at[g] \in Resetting
    PROVE  at'[g] \in Resetting \/ (g = h /\ Step(h) /\ at'[g] = "idle")
  <1>1. at \in [Handlers -> HandlerState]
    BY DEF Types, StatisticsTypeOK
  <1>2. CASE g # h
    BY <1>2, OneHandler DEF OthersStay
  <1>3. CASE g = h /\ Step(h)
    <2>1. at[h] \notin Updating /\ at[h] # "lookup" /\ at[h] # "idle"
      BY <1>3, PlaceFacts
    <2>2. Answer(h) \/ RegisterUser(h) \/ \E u \in Users : ClearRow(h, u)
      BY <1>3, <2>1, PlaceFacts
         DEF Step, Lookup, Create, SetListenerStatus, BeginUpdate, AddNewEvent, AckEvent,
             ReadCount, StoreCount, Throw
    <2>3. Answer(h) => at'[h] = "idle"
      BY <1>1 DEF Answer
    <2>4. RegisterUser(h) => at'[h] = at[h]
      BY DEF RegisterUser
    <2>5. ASSUME NEW u \in Users, ClearRow(h, u)
          PROVE  at'[h] \in Resetting
      BY <1>1, <2>5 DEF ClearRow, Resetting
    <2> QED
      BY <1>3, <2>2, <2>3, <2>4, <2>5
  <1>4. CASE g = h /\ Request(h)
    <2>1. at[h] = "idle"
      BY <1>4 DEF Request, PutStatistics, Reset
    <2> QED
      BY <1>4, <2>1, PlaceFacts
  <1> QED
    BY <1>2, <1>3, <1>4

\* What an iterator holds after it moved on is in the table.
LEMMA HeldFits ==
    ASSUME TableTypes, NEW rest \in SUBSET Users, NEW it \in MoveOn(rest)
    PROVE  /\ \A k \in DOMAIN it.held : it.held[k].row \in 1 .. Len(userEvents)
           /\ it.held = <<>> => it.left = {}
  <1>1. CASE it.held = <<>> /\ it.left = {}
    BY <1>1
  <1>2. ASSUME NEW u \in rest, mapUserData[u] \in 1 .. Len(userEvents),
               it.held = <<[user |-> u, row |-> mapUserData[u]]>>
        PROVE  /\ \A k \in DOMAIN it.held : it.held[k].row \in 1 .. Len(userEvents)
               /\ it.held # <<>>
    <2>1. PICK n \in 1 .. Len(userEvents) : n = mapUserData[u]
      BY <1>2
    <2>2. PICK e : e = [user |-> u, row |-> n]
      OBVIOUS
    <2>3. it.held = <<e>> /\ e.row = n
      BY <1>2, <2>1, <2>2
    <2> QED
      BY <2>1, <2>3
  <1> QED
    BY <1>1, <1>2, MoveOnFacts

\* A request that stays what it is fits a table that has grown.
LEMMA FitsKept ==
    ASSUME Types, PageInv, NEW q \in Asks, NEW e, Grows(e), Staying(ask'[q], ask[q]),
           \A h \in ask[q].handler : at'[h] \in Resetting
    PROVE  AskFits(q)'
  <1>1. PICK a \in Ask : a = ask[q]
    BY DEF PageInv, PageTypes
  <1>2. AskFits(q)
    BY DEF PageInv
  <1>3. Len(userEvents) \in Nat /\ Len(userEvents') \in {Len(userEvents), Len(userEvents) + 1}
    BY DEF Grows
  <1>4. a.since <= Len(userEvents')
    <2>1. a.since \in Nat /\ a.since <= Len(userEvents)
      BY <1>1, <1>2 DEF AskFits, Ask
    <2> QED
      BY <1>3, <2>1
  <1>5. \A u \in Users : a.rows[u].row <= Len(userEvents')
    <2>1. \A u \in Users : a.rows[u].row \in Nat /\ a.rows[u].row <= Len(userEvents)
      BY <1>1, <1>2 DEF AskFits, Ask, Shown
    <2> QED
      BY <1>3, <2>1
  <1>6. \A k \in DOMAIN a.held : a.held[k].row \in 1 .. Len(userEvents')
    <2>1. \A k \in DOMAIN a.held : a.held[k].row \in 1 .. Len(userEvents)
      BY <1>1, <1>2 DEF AskFits
    <2> QED
      BY <1>3, <2>1
  <1>7. /\ a.stage \in {"read", "read2"} <=> a.reading # {}
        /\ \A u, v \in a.reading : u = v
        /\ \A u \in a.reading : a.rows[u].row # 0
        /\ a.held = <<>> => a.left = {}
        /\ a.stage = "clearing" <=> a.handler # {}
        /\ a.stage = "clearing" => a.kind = "clear"
        /\ \A h \in a.handler : at'[h] \in Resetting
    BY <1>1, <1>2 DEF AskFits
  <1>8. PICK b : b = ask'[q]
    OBVIOUS
  <1>9. /\ b.stage = a.stage /\ b.handler = a.handler /\ b.kind = a.kind /\ b.rows = a.rows
        /\ b.held = a.held /\ b.left = a.left /\ b.reading = a.reading /\ b.since = a.since
    BY <1>1, <1>8 DEF Staying, Like
  <1> QED
    BY <1>4, <1>5, <1>6, <1>7, <1>8, <1>9 DEF AskFits

\* A request that is not like it was, with a table that is.
LEMMA FitsNew ==
    ASSUME NEW q \in Asks, NEW b \in Ask, ask'[q] = b, UNCHANGED vars,
           b.stage \in {"read", "read2"} <=> b.reading # {},
           \A u, v \in b.reading : u = v,
           \A u \in b.reading : b.rows[u].row # 0,
           \A u \in Users : b.rows[u].row <= Len(userEvents),
           \A k \in DOMAIN b.held : b.held[k].row \in 1 .. Len(userEvents),
           b.held = <<>> => b.left = {},
           b.stage # "clearing", b.handler = {}, b.since <= Len(userEvents)
    PROVE  AskFits(q)'
  BY DEF AskFits, vars

LEMMA PageKept ==
    ASSUME Types, PageInv, NEW q \in Asks, Only(q), AskFits(q)', UNCHANGED <<vars, acked>>,
           rows' = rows \/ rows' = ask[q].rows, list' = list \/ list' = ask[q].events,
           clicks' \in 0 .. MaxClicks
    PROVE  PageInv'
  <1>1. ask' \in [Asks -> Ask] /\ \A p \in Asks \ {q} : ask'[p] = ask[p]
    BY DEF Only
  <1>2. ask[q] \in Ask /\ rows \in [Users -> Shown] /\ list \subseteq Events /\ acked \subseteq Events
    BY DEF PageInv, PageTypes
  <1>3. ask[q].rows \in [Users -> Shown] /\ ask[q].events \subseteq Events
    BY <1>2 DEF Ask
  <1>4. PageTypes'
    BY <1>1, <1>2, <1>3 DEF PageTypes
  <1>5. ASSUME NEW p \in Asks
        PROVE  AskFits(p)'
    <2>1. CASE p = q
      BY <2>1
    <2>2. CASE p # q
      <3>1. ask'[p] = ask[p] /\ UNCHANGED <<userEvents, at>> /\ AskFits(p)
        BY <1>1, <2>2 DEF vars, PageInv
      <3> QED
        BY <3>1 DEF AskFits
    <2> QED
      BY <2>1, <2>2
  <1>6. \A u \in Users : rows'[u].row <= Len(userEvents')
    <2>1. UNCHANGED userEvents /\ AskFits(q) /\ \A u \in Users : rows[u].row <= Len(userEvents)
      BY DEF vars, PageInv
    <2> QED
      BY <2>1 DEF AskFits
  <1> QED
    BY <1>4, <1>5, <1>6 DEF PageInv

LEMMA EmptyFits ==
    ASSUME Types, NEW q \in Asks, NEW b \in Ask, ask'[q] = b, UNCHANGED vars,
           b.stage \in {"none", "sent"}, b.rows = NoRows, b.held = <<>>, b.left = {},
           b.reading = {}, b.handler = {}, b.since <= Len(userEvents)
    PROVE  AskFits(q)'
  <1>1. \A u \in Users : b.rows[u].row = 0
    BY NewAsks DEF NoRow
  <1>2. Len(userEvents) \in Nat
    BY LenProperties DEF Types, StatisticsTypeOK
  <1>3. \A u \in Users : b.rows[u].row <= Len(userEvents)
    BY <1>1, <1>2
  <1>4. b.stage \notin {"read", "read2"} /\ b.stage # "clearing"
    OBVIOUS
  <1> QED
    BY <1>3, <1>4, FitsNew

-----------------------------------------------------------------------------
(* The requests of the page stay well formed. *)

LEMMA ClickPage ==
    ASSUME Types, PageInv, ClickReload \/ ClickList \/ ClickClear
    PROVE  PageInv'
  <1>1. Len(userEvents) \in Nat
    BY LenProperties DEF Types, StatisticsTypeOK
  <1>2. PageTypes
    BY DEF PageInv
  <1>3. UNCHANGED <<vars, rows, list, acked>> /\ clicks' \in 0 .. MaxClicks
    BY <1>1, <1>2, ClickFacts
  <1>4. PICK q \in Asks : Only(q) /\ (ask'[q] = Reload(0) \/ ask'[q] = List \/ ask'[q] = Clear)
    BY <1>1, <1>2, ClickFacts
  <1>5. PICK b \in Ask : b = ask'[q]
    BY <1>4 DEF Only
  <1>6. /\ b.stage = "sent" /\ b.rows = NoRows /\ b.held = <<>> /\ b.left = {} /\ b.reading = {}
        /\ b.handler = {} /\ (b.since = 0 \/ b.since = Len(userEvents))
    BY <1>2, <1>4, <1>5, Starts
  <1>7. b.since <= Len(userEvents)
    BY <1>1, <1>6
  <1>8. UNCHANGED vars
    BY <1>3
  <1>9. AskFits(q)'
    BY <1>5, <1>6, <1>7, <1>8, EmptyFits
  <1> QED
    BY <1>3, <1>4, <1>9, PageKept

LEMMA ReadPage ==
    ASSUME Types, PageInv, FiniteRows, NEW q \in Asks, Read(q)
    PROVE  PageInv'
  <1>0. TableTypes /\ PageTypes /\ AskFits(q)
    BY TypesSplit DEF PageInv
  <1>1. PICK a \in Ask : a = ask[q]
    BY <1>0 DEF PageTypes
  <1>2. UNCHANGED <<vars, pageVars, acked>> /\ Only(q) /\ Kept(ask'[q], ask[q])
    BY <1>0, BeginReadingFacts, NextEntryFacts, AnswerPageFacts, ReadFirstFacts, ReadSecondFacts,
       ReadEventsFacts DEF Read
  <1>3. PICK b \in Ask : b = ask'[q]
    BY <1>2 DEF Only
  <1>4. /\ a.stage \in {"read", "read2"} <=> a.reading # {}
        /\ \A u, v \in a.reading : u = v
        /\ \A u \in a.reading : a.rows[u].row # 0
        /\ \A u \in Users : a.rows[u].row <= Len(userEvents)
        /\ \A k \in DOMAIN a.held : a.held[k].row \in 1 .. Len(userEvents)
        /\ a.held = <<>> => a.left = {}
        /\ a.stage = "clearing" <=> a.handler # {}
        /\ a.since <= Len(userEvents)
    BY <1>0, <1>1 DEF AskFits
  <1>5. b.handler = a.handler /\ b.since = a.since
    BY <1>1, <1>2, <1>3 DEF Kept
  <1>6. UNCHANGED vars
    BY <1>2
  <1>7. a.left \in SUBSET Users /\ a.rows \in [Users -> Shown]
    BY DEF Ask
  <1>8. ASSUME BeginReading(q)
       PROVE  AskFits(q)'
    <2>1. /\ a.stage = "sent" /\ b.stage = "next" /\ b.rows = a.rows /\ b.reading = a.reading
          /\ \E it \in MoveOn(Users) : b.held = it.held /\ b.left = it.left
      BY <1>0, <1>1, <1>3, <1>8, BeginReadingFacts
    <2>2. /\ \A k \in DOMAIN b.held : b.held[k].row \in 1 .. Len(userEvents)
          /\ b.held = <<>> => b.left = {}
      BY <1>0, <2>1, HeldFits
    <2>3. a.handler = {} /\ a.reading = {}
      BY <1>4, <2>1
    <2>4. b.stage \notin {"read", "read2"} /\ b.stage # "clearing"
      BY <2>1
    <2> QED
      BY <1>3, <1>4, <1>5, <1>6, <2>1, <2>2, <2>3, <2>4, FitsNew
  <1>9. ASSUME NextEntry(q)
       PROVE  AskFits(q)'
    <2>1. /\ a.stage = "next" /\ b.stage = "read"
          /\ \E it \in MoveOn(a.left) : b.held = it.held /\ b.left = it.left
      BY <1>0, <1>1, <1>3, <1>9, NextEntryFacts
    <2>2. PICK entry \in Entry, row \in Nat \ {0} :
             /\ entry = a.held[1] /\ 1 \in DOMAIN a.held
             /\ row = entry.row \/ row = mapUserData[entry.user]
             /\ b.reading = {entry.user}
             /\ b.rows[entry.user].row = row
             /\ \A v \in Users \ {entry.user} : b.rows[v] = a.rows[v]
      BY <1>0, <1>1, <1>3, <1>9, NextEntryFacts
    <2>3. /\ \A k \in DOMAIN b.held : b.held[k].row \in 1 .. Len(userEvents)
          /\ b.held = <<>> => b.left = {}
      BY <1>0, <1>7, <2>1, HeldFits
    <2>4. row <= Len(userEvents)
      <3>1. entry.user \in Users
        BY DEF Entry
      <3>2. mapUserData[entry.user] \in 0 .. Len(userEvents) /\ entry.row \in 1 .. Len(userEvents)
        BY <1>0, <1>4, <2>2, <3>1 DEF TableTypes
      <3>3. Len(userEvents) \in Nat
        BY <1>0, LenProperties DEF TableTypes
      <3> QED
        BY <2>2, <3>2, <3>3
    <2>5. \A u \in Users : b.rows[u].row <= Len(userEvents)
      BY <1>4, <2>2, <2>4
    <2>6. a.handler = {}
      BY <1>4, <2>1
    <2>7. /\ b.stage \in {"read", "read2"} /\ b.reading # {} /\ b.stage # "clearing"
          /\ \A u, v \in b.reading : u = v
          /\ \A u \in b.reading : b.rows[u].row # 0
      BY <2>1, <2>2
    <2> QED
      BY <1>3, <1>4, <1>5, <1>6, <2>3, <2>5, <2>6, <2>7, FitsNew
  <1>10. ASSUME AnswerPage(q)
        PROVE  AskFits(q)'
    <2>1. /\ a.stage = "next" /\ b.stage = "answered" /\ b.rows = a.rows /\ b.reading = a.reading
          /\ b.held = a.held /\ b.left = a.left
      BY <1>0, <1>1, <1>3, <1>10, AnswerPageFacts
    <2>2. a.handler = {} /\ a.reading = {}
      BY <1>4, <2>1
    <2>3. b.stage \notin {"read", "read2"} /\ b.stage # "clearing"
      BY <2>1
    <2> QED
      BY <1>3, <1>4, <1>5, <1>6, <2>1, <2>2, <2>3, FitsNew
  <1>11. ASSUME NEW u \in Users, ReadFirst(q, u)
         PROVE  AskFits(q)'
    <2>1. /\ a.stage = "read" /\ b.stage = "read2" /\ b.reading = a.reading
          /\ b.held = a.held /\ b.left = a.left /\ b.rows[u].row = a.rows[u].row
          /\ \A v \in Users \ {u} : b.rows[v] = a.rows[v]
      BY <1>0, <1>1, <1>3, <1>11, ReadFirstFacts
    <2>2. \A v \in Users : b.rows[v].row = a.rows[v].row
      BY <2>1
    <2>3. a.handler = {} /\ a.reading # {} /\ a.reading \subseteq Users
      BY <1>4, <2>1 DEF Ask
    <2>4. b.stage \in {"read", "read2"} /\ b.stage # "clearing"
      BY <2>1
    <2>5. /\ \A v \in b.reading : b.rows[v].row # 0
          /\ \A v \in Users : b.rows[v].row <= Len(userEvents)
          /\ \A v, w \in b.reading : v = w
          /\ b.stage \in {"read", "read2"} <=> b.reading # {}
      BY <1>4, <2>1, <2>2, <2>3, <2>4
    <2> QED
      BY <1>3, <1>4, <1>5, <1>6, <2>1, <2>3, <2>4, <2>5, FitsNew
  <1>12. ASSUME NEW u \in Users, ReadSecond(q, u)
         PROVE  AskFits(q)'
    <2>1. /\ a.stage = "read2" /\ b.stage = "next" /\ b.reading = {}
          /\ b.held = a.held /\ b.left = a.left /\ b.rows[u].row = a.rows[u].row
          /\ \A v \in Users \ {u} : b.rows[v] = a.rows[v]
      BY <1>0, <1>1, <1>3, <1>12, ReadSecondFacts
    <2>2. \A v \in Users : b.rows[v].row = a.rows[v].row
      BY <2>1
    <2>3. a.handler = {}
      BY <1>4, <2>1
    <2>4. b.stage \notin {"read", "read2"} /\ b.stage # "clearing"
      BY <2>1
    <2> QED
      BY <1>3, <1>4, <1>5, <1>6, <2>1, <2>2, <2>3, <2>4, FitsNew
  <1>13. ASSUME NEW u \in Users, ReadEvents(q, u)
         PROVE  AskFits(q)'
    <2>1. /\ a.stage = "read" /\ b.stage = "next" /\ b.reading = {} /\ b.rows = a.rows
          /\ b.held = a.held /\ b.left = a.left
      BY <1>0, <1>1, <1>3, <1>13, ReadEventsFacts
    <2>2. a.handler = {}
      BY <1>4, <2>1
    <2>3. b.stage \notin {"read", "read2"} /\ b.stage # "clearing"
      BY <2>1
    <2> QED
      BY <1>3, <1>4, <1>5, <1>6, <2>1, <2>2, <2>3, FitsNew
  <1>14. AskFits(q)'
    BY <1>8, <1>9, <1>10, <1>11, <1>12, <1>13 DEF Read
  <1>15. rows' = rows /\ list' = list /\ clicks' \in 0 .. MaxClicks
    BY <1>0, <1>2 DEF pageVars, PageTypes
  <1> QED
    BY <1>2, <1>14, <1>15, PageKept

LEMMA ShowPage ==
    ASSUME Types, PageInv, NEW q \in Asks, ShowTable(q) \/ ShowList(q) \/ ClearDone(q)
    PROVE  PageInv'
  <1>0. PageTypes /\ AskFits(q) /\ clicks \in 0 .. MaxClicks
    BY DEF PageInv, PageTypes
  <1>1. CASE ShowTable(q) \/ ShowList(q)
    <2>1. /\ UNCHANGED <<vars, clicks, acked>> /\ Only(q) /\ ask'[q] = NoAsk
          /\ rows' = rows \/ rows' = ask[q].rows
          /\ list' = list \/ list' = ask[q].events
      BY <1>0, <1>1, ShowFacts
    <2>2. PICK b \in Ask : b = NoAsk
      BY NewAsks
    <2>3. /\ b.stage = "none" /\ b.rows = NoRows /\ b.held = <<>> /\ b.left = {}
          /\ b.reading = {} /\ b.handler = {} /\ b.since = 0
      BY <2>2, NewAsks
    <2>4. b.since <= Len(userEvents)
      BY <2>3, LenProperties DEF Types, StatisticsTypeOK
    <2>5. UNCHANGED vars
      BY <2>1
    <2>6. AskFits(q)'
      BY <2>1, <2>2, <2>3, <2>4, <2>5, EmptyFits
    <2> QED
      BY <1>0, <2>1, <2>6, PageKept
  <1>2. CASE ClearDone(q)
    <2>1. /\ UNCHANGED <<vars, pageVars, acked>> /\ Only(q) /\ ask'[q] = Reload(ask[q].since)
          /\ ask[q].since \in Nat
      BY <1>0, <1>2, ClearDoneFacts
    <2>2. PICK b \in Ask : b = ask'[q]
      BY <2>1 DEF Only
    <2>3. /\ b.stage = "sent" /\ b.rows = NoRows /\ b.held = <<>> /\ b.left = {}
          /\ b.reading = {} /\ b.handler = {} /\ b.since = ask[q].since
      BY <1>0, <2>1, <2>2, Starts
    <2>4. b.since <= Len(userEvents)
      BY <1>0, <2>3 DEF AskFits
    <2>5. UNCHANGED vars /\ UNCHANGED <<rows, list, clicks>>
      BY <2>1 DEF pageVars
    <2>6. AskFits(q)'
      BY <2>2, <2>3, <2>4, <2>5, EmptyFits
    <2> QED
      BY <1>0, <2>1, <2>5, <2>6, PageKept
  <1> QED
    BY <1>1, <1>2

\* The page itself is not touched, and the rows it shows are still there.
LEMMA ShownKept ==
    ASSUME PageInv, NEW e, Grows(e), UNCHANGED pageVars,
           ask' \in [Asks -> Ask], acked' \subseteq Events, \A q \in Asks : AskFits(q)'
    PROVE  PageInv'
  <1>1. PageTypes'
    BY DEF PageInv, PageTypes, pageVars
  <1>2. rows' = rows /\ rows \in [Users -> Shown]
    BY DEF pageVars, PageInv, PageTypes
  <1>3. \A u \in Users : rows[u].row \in Nat /\ rows[u].row <= Len(userEvents)
    BY <1>2 DEF PageInv, Shown
  <1>4. Len(userEvents) \in Nat /\ Len(userEvents') \in {Len(userEvents), Len(userEvents) + 1}
    BY DEF Grows
  <1>5. \A u \in Users : rows[u].row <= Len(userEvents')
    BY <1>3, <1>4
  <1> QED
    BY <1>1, <1>2, <1>5 DEF PageInv

\* Only an acknowledgement moves a handler on to counting.
LEMMA CountsAck ==
    ASSUME Types, NEW h \in Handlers, Step(h), at[h] = "updating", at'[h] = "counting"
    PROVE  AckEvent(h) /\ Item(h) \in Items /\ Item(h).event \in Events
  <1>1. at \in [Handlers -> HandlerState]
    BY DEF Types, StatisticsTypeOK
  <1>2. AddNewEvent(h) \/ AckEvent(h) \/ Throw(h)
    BY DEF Step, Lookup, Create, SetListenerStatus, BeginUpdate, ReadCount, StoreCount, Answer,
           RegisterUser, ClearRow
  <1>3. AckEvent(h)
    BY <1>1, <1>2 DEF AddNewEvent, Throw, NextItem
  <1>4. Item(h) \in Items
    BY HandlerFacts, PlaceFacts
  <1>5. Item(h).type # "ListenerStatus"
    BY <1>3 DEF AckEvent
  <1> QED
    BY <1>3, <1>4, <1>5, ItemFacts

LEMMA HandlerPage ==
    ASSUME Types, PageInv, NEW h \in Handlers, HandlerStep(h)
    PROVE  PageInv'
  <1>0. PageTypes
    BY DEF PageInv
  <1>1. /\ Step(h) /\ UNCHANGED pageVars /\ ask' \in [Asks -> Ask]
        /\ acked' = IF at[h] = "updating" /\ at'[h] = "counting"
                    THEN acked \cup {Item(h).event} ELSE acked
    BY <1>0, HandlerStepFacts
  <1>2. PICK e : Grows(e)
    BY <1>1, StepGrows
  <1>3. acked' \subseteq Events
    BY <1>0, <1>1, CountsAck DEF PageTypes
  <1>4. ASSUME NEW q \in Asks
        PROVE  AskFits(q)'
    <2>0. AskFits(q)
      BY DEF PageInv
    <2>1. CASE h \in ask[q].handler /\ at'[h] = "idle"
      <3>1. PICK a \in Ask : a = ask[q]
        BY <1>0 DEF PageTypes
      <3>2. PICK b \in Ask : b = ask'[q]
        BY <1>1
      <3>3. Like(b, a) /\ b.stage = "answered" /\ b.handler = {}
        BY <1>0, <2>1, <3>1, <3>2, HandlerStepFacts
      <3>4. a.stage = "clearing" /\ a.reading = {}
        BY <2>0, <2>1, <3>1 DEF AskFits
      <3>5. b.reading = {} /\ b.rows = a.rows /\ b.held = a.held /\ b.left = a.left /\ b.since = a.since
        BY <3>3, <3>4 DEF Like
      <3>6. PICK n \in Nat : n = Len(userEvents)
        BY <1>2 DEF Grows
      <3>7. PICK m \in Nat : m = Len(userEvents') /\ n <= m
        BY <1>2, <3>6 DEF Grows
      <3>8. /\ \A u \in Users : a.rows[u].row \in Nat /\ a.rows[u].row <= n
            /\ \A k \in DOMAIN a.held : a.held[k].row \in 1 .. n
            /\ a.since \in Nat /\ a.since <= n
            /\ a.held = <<>> => a.left = {}
        BY <2>0, <3>1, <3>6 DEF AskFits, Ask, Shown
      <3>9. /\ \A u \in Users : b.rows[u].row <= m
            /\ \A k \in DOMAIN b.held : b.held[k].row \in 1 .. m
            /\ b.since <= m
        BY <3>5, <3>7, <3>8
      <3> QED
        BY <3>2, <3>3, <3>5, <3>7, <3>8, <3>9 DEF AskFits
    <2>2. CASE ~(h \in ask[q].handler /\ at'[h] = "idle")
      <3>1. ask'[q] = ask[q]
        BY <1>0, <2>2, HandlerStepFacts
      <3>2. Staying(ask'[q], ask[q])
        BY <3>1 DEF Staying, Like
      <3>3. \A g \in ask[q].handler : at'[g] \in Resetting
        <4>1. \A g \in ask[q].handler : g \in Handlers /\ at[g] \in Resetting
          BY <1>0, <2>0 DEF AskFits, PageTypes, Ask
        <4> QED
          BY <1>1, <2>2, <4>1, ResettingStays
      <3> QED
        BY <1>2, <3>2, <3>3, FitsKept
    <2> QED
      BY <2>1, <2>2
  <1> QED
    BY <1>1, <1>2, <1>3, <1>4, ShownKept

LEMMA RequestGrows ==
    ASSUME Types, NEW h \in Handlers, Request(h)
    PROVE  Grows(0) /\ UNCHANGED table
  <1>1. UNCHANGED table
    BY DEF Request, PutStatistics, Reset
  <1> QED
    BY <1>1, GrowsNot DEF table

LEMMA OthersPage ==
    ASSUME Types, PageInv, NEW h \in Handlers, OthersRequest(h)
    PROVE  PageInv'
  <1>0. PageTypes
    BY DEF PageInv
  <1>1. Request(h) /\ ask' = Disturbed(ask) /\ UNCHANGED <<pageVars, acked>>
    BY DEF OthersRequest, Request
  <1>2. Grows(0)
    BY <1>1, RequestGrows
  <1>3. ask' \in [Asks -> Ask] /\ \A q \in Asks : Staying(ask'[q], ask[q])
    BY <1>0, <1>1, OthersFacts
  <1>4. ASSUME NEW q \in Asks
        PROVE  AskFits(q)'
    <2>1. \A g \in ask[q].handler : g \in Handlers /\ at[g] \in Resetting
      BY <1>0 DEF PageInv, AskFits, PageTypes, Ask
    <2>2. \A g \in ask[q].handler : at'[g] \in Resetting
      BY <1>1, <2>1, OneHandler, PlaceFacts DEF OthersStay, Request, PutStatistics, Reset
    <2> QED
      BY <1>2, <1>3, <2>2, FitsKept
  <1> QED
    BY <1>0, <1>1, <1>2, <1>3, <1>4, ShownKept DEF PageTypes

LEMMA HandleClearPage ==
    ASSUME Types, PageInv, NEW q \in Asks, NEW h \in Handlers, HandleClear(q, h)
    PROVE  PageInv'
  <1>0. PageTypes /\ AskFits(q)
    BY DEF PageInv
  <1>1. /\ Reset(h, <<>>) /\ UNCHANGED <<pageVars, acked>> /\ ask' \in [Asks -> Ask]
        /\ ask[q].stage = "sent" /\ ask[q].kind = "clear"
        /\ Like(ask'[q], ask[q]) /\ ask'[q].stage = "clearing" /\ ask'[q].handler = {h}
        /\ \A p \in Asks \ {q} : Staying(ask'[p], ask[p])
    BY <1>0, HandleClearFacts
  <1>2. Request(h) /\ at[h] = "idle"
    BY <1>1 DEF Request, Reset
  <1>3. Grows(0) /\ UNCHANGED table
    BY <1>2, RequestGrows
  <1>4. at'[h] = "clearing"
    BY <1>1 DEF Reset, Types, StatisticsTypeOK
  <1>5. AskFits(q)'
    <2>1. PICK a \in Ask : a = ask[q]
      BY <1>0 DEF PageTypes
    <2>2. PICK b \in Ask : b = ask'[q]
      BY <1>1
    <2>3. /\ b.stage = "clearing" /\ b.handler = {h} /\ b.kind = "clear" /\ b.reading = a.reading
          /\ b.rows = a.rows /\ b.held = a.held /\ b.left = a.left /\ b.since = a.since
      BY <1>1, <2>1, <2>2 DEF Like
    <2>4. a.reading = {}
      BY <1>0, <1>1, <2>1 DEF AskFits
    <2>5. /\ b.stage \notin {"read", "read2"} /\ b.reading = {}
          /\ \A g \in b.handler : at'[g] \in Resetting
      BY <1>4, <2>3, <2>4, PlaceFacts
    <2>6. /\ \A u \in Users : a.rows[u].row <= Len(userEvents)
          /\ \A k \in DOMAIN a.held : a.held[k].row \in 1 .. Len(userEvents)
          /\ a.held = <<>> => a.left = {}
          /\ a.since <= Len(userEvents)
      BY <1>0, <2>1 DEF AskFits
    <2>7. UNCHANGED userEvents
      BY <1>3 DEF table
    <2> QED
      BY <2>2, <2>3, <2>5, <2>6, <2>7 DEF AskFits
  <1>6. ASSUME NEW p \in Asks, p # q
        PROVE  AskFits(p)'
    <2>1. \A g \in ask[p].handler : g \in Handlers /\ at[g] \in Resetting
      BY <1>0 DEF PageInv, AskFits, PageTypes, Ask
    <2>2. \A g \in ask[p].handler : at'[g] \in Resetting
      BY <1>2, <2>1, OneHandler, PlaceFacts DEF OthersStay
    <2>3. Staying(ask'[p], ask[p])
      BY <1>1, <1>6
    <2> QED
      BY <1>3, <2>2, <2>3, FitsKept
  <1> QED
    BY <1>0, <1>1, <1>3, <1>5, <1>6, ShownKept DEF PageTypes

LEMMA NextPage ==
    ASSUME Types, FiniteRows, PageInv, [TableNext]_tableVars
    PROVE  FiniteRows' /\ PageInv'
  <1>1. CASE TableNext
    <2>1. FiniteRows'
      BY <1>1, NextGrows, FiniteKept
    <2>2. PageInv'
      BY <1>1, ClickPage, HandlerPage, OthersPage, HandleClearPage, ReadPage, ShowPage DEF TableNext
    <2> QED
      BY <2>1, <2>2
  <1>2. CASE UNCHANGED tableVars
    BY <1>2 DEF tableVars, vars, pageVars, FiniteRows, PageInv, PageTypes, AskFits
  <1> QED
    BY <1>1, <1>2

LEMMA InitPage == TableInit => FiniteRows /\ PageInv
  <1> SUFFICES ASSUME TableInit PROVE FiniteRows /\ PageInv
    OBVIOUS
  <1>1. Len(userEvents) = 0
    BY EmptySeq DEF TableInit, Init
  <1>2. PICK b \in Ask : b = NoAsk
    BY NewAsks
  <1>3. ask \in [Asks -> Ask] /\ \A q \in Asks : ask[q] = b
    BY <1>2 DEF TableInit
  <1>4. /\ b.stage = "none" /\ b.kind = "none" /\ b.rows = NoRows /\ b.held = <<>>
        /\ b.left = {} /\ b.reading = {} /\ b.handler = {} /\ b.since = 0
        /\ \A u \in Users : b.rows[u].row = 0
    BY <1>2, NewAsks DEF NoRow
  <1>5. b.stage \notin {"read", "read2"} /\ b.stage # "clearing"
    BY <1>4
  <1>6. \A q \in Asks : AskFits(q)
    BY <1>1, <1>3, <1>4, <1>5 DEF AskFits
  <1>7. PageTypes
    BY <1>3, NewAsks, TableViewAssumption DEF PageTypes, TableInit, TableViewAssumption
  <1>8. \A u \in Users : rows[u].row <= Len(userEvents)
    BY <1>1, NewAsks DEF TableInit, NoRow
  <1>9. FiniteRows
    BY <1>1 DEF FiniteRows
  <1> QED
    BY <1>6, <1>7, <1>8, <1>9 DEF PageInv

\* The table behind the page and the requests of the page are what they should be.
TableInv == StatisticsInv /\ FiniteRows /\ PageInv

LEMMA InitTable == TableInit => TableInv
  BY InitTypes, InitOwners, InitSole, InitAccurate, InitPage DEF TableInit, TableInv, StatisticsInv

LEMMA NextTable == TableInv /\ [TableNext]_tableVars => TableInv'
  <1>1. [TableNext]_tableVars => [Next]_vars
    BY PageSteps DEF Next, tableVars
  <1>2. StatisticsInv /\ [Next]_vars => StatisticsInv'
    BY NextTypes, NextOwners, NextSole, NextAccurate DEF StatisticsInv
  <1>3. TableInv => Types
    BY DEF TableInv, StatisticsInv
  <1> QED
    BY <1>1, <1>2, <1>3, NextPage DEF TableInv

LEMMA AlwaysTable == TableSpec => []TableInv
  BY InitTable, NextTable, PTL DEF TableSpec

\* The table, the requests of the page and what the page shows stay what they should
\* be: a row that is shown or being read exists, and a count is a number.
THEOREM TableTypeCorrect == TableSpec => []TableTypeOK
  <1>1. ASSUME TableInv
        PROVE  TableTypeOK
    <2>1. StatisticsTypeOK /\ PageInv
      BY <1>1 DEF TableInv, StatisticsInv, Types
    <2>2. Len(userEvents) \in Nat
      BY <2>1, LenProperties DEF StatisticsTypeOK
    <2>3. ASSUME NEW shown \in [Users -> Shown], \A u \in Users : shown[u].row <= Len(userEvents)
          PROVE  shown \in [Users -> RowsShown]
      <3>1. ASSUME NEW u \in Users
            PROVE  shown[u] \in RowsShown
        <4>1. PICK r \in Shown : r = shown[u]
          OBVIOUS
        <4>2. r.row \in 0 .. Len(userEvents)
          BY <2>2, <2>3, <4>1 DEF Shown
        <4> QED
          BY <4>1, <4>2 DEF Shown, RowsShown
      <3> QED
        BY <3>1
    <2>4. ASSUME NEW q \in Asks
          PROVE  /\ ask[q].stage \in {"none", "sent", "clearing", "next", "read", "read2", "answered"}
                 /\ ask[q].kind \in {"none", "reload", "list", "clear"}
                 /\ ask[q].rows \in [Users -> RowsShown]
                 /\ ask[q].stage \in {"read", "read2"} <=> ask[q].reading # {}
                 /\ ask[q].stage = "clearing" <=> ask[q].handler # {}
                 /\ \A u \in ask[q].reading : ask[q].rows[u].row # 0
      <3>1. PICK a \in Ask : a = ask[q]
        BY <2>1 DEF PageInv, PageTypes
      <3>2. AskFits(q)
        BY <2>1 DEF PageInv
      <3>3. a.rows \in [Users -> Shown] /\ a.stage \in Stage /\ a.kind \in Kind
        BY DEF Ask
      <3>4. a.rows \in [Users -> RowsShown]
        BY <2>3, <3>1, <3>2, <3>3 DEF AskFits
      <3> QED
        BY <3>1, <3>2, <3>3, <3>4 DEF AskFits, Stage, Kind
    <2>5. rows \in [Users -> RowsShown] /\ list \subseteq Events /\ clicks \in 0 .. MaxClicks
          /\ acked \subseteq Events
      BY <2>1, <2>3 DEF PageInv, PageTypes
    <2> QED
      BY <2>1, <2>4, <2>5 DEF TableTypeOK
  <1> QED
    BY <1>1, AlwaysTable, PTL

-----------------------------------------------------------------------------
(* What a clear leaves behind, and what the page shows after it. *)

\* There is no row, or a later one.
Gone(row, since) == row = 0 \/ row > since

\* A request to clear reads no rows.  A handler that clears has removed the rows of all
\* users who are not left.
ClearFits(q) ==
    /\ ask[q].kind = "clear" => ask[q].stage \in {"sent", "clearing", "answered"}
    /\ At(q, "answered", "clear") \/ ask[q].kind = "reload" =>
          \A u \in Users : Gone(mapUserData[u], ask[q].since)
    /\ ask[q].kind = "reload" =>
          /\ \A u \in Users : Gone(ask[q].rows[u].row, ask[q].since)
          /\ \A k \in DOMAIN ask[q].held : Gone(ask[q].held[k].row, ask[q].since)
    /\ \A h \in ask[q].handler : \A u \in Users \ left[h] : Gone(mapUserData[u], ask[q].since)

LeftFits == \A h \in Handlers : at[h] = "registering" => left[h] = {}

ClearInv == LeftFits /\ \A q \in Asks : ClearFits(q)

LEMMA GoneStays ==
    ASSUME NEW e, Grows(e), NEW u \in Users, mapUserData[u] \in Nat, NEW since \in Nat,
           since <= Len(userEvents), Gone(mapUserData[u], since)
    PROVE  Gone(mapUserData'[u], since)
  <1>1. Len(userEvents) \in Nat
    BY DEF Grows
  <1>2. mapUserData'[u] \in {mapUserData[u], 0} \/ mapUserData'[u] = Len(userEvents) + 1
    BY DEF Grows
  <1> QED
    BY <1>1, <1>2 DEF Gone

\* A handler that works on a clear goes over the users who are left.
LEMMA LeftFacts ==
    ASSUME Types, NEW h \in Handlers, Step(h)
    PROVE  \A g \in Handlers : \/ left'[g] = left[g]
                               \/ /\ g = h /\ at[h] = "clearing"
                                  /\ \E u \in Users : /\ left'[h] = left[h] \ {u}
                                                      /\ mapUserData'[u] = 0
                                                      /\ at'[h] = "registering" => left'[h] = {}
  <1>1. left \in [Handlers -> SUBSET Users] /\ mapUserData \in [Users -> 0 .. Len(userEvents)]
        /\ at \in [Handlers -> HandlerState]
    BY DEF Types, StatisticsTypeOK
  <1>2. ASSUME NEW u \in Users, ClearRow(h, u)
        PROVE  /\ at[h] = "clearing" /\ mapUserData'[u] = 0 /\ left'[h] = left[h] \ {u}
               /\ at'[h] = "registering" => left'[h] = {}
               /\ \A g \in Handlers \ {h} : left'[g] = left[g]
    <2>1. at[h] = "clearing" /\ mapUserData'[u] = 0 /\ left'[h] = left[h] \ {u}
      BY <1>1, <1>2 DEF ClearRow
    <2>2. at'[h] = IF left[h] = {u} THEN "registering" ELSE at[h]
      BY <1>1, <1>2 DEF ClearRow
    <2>3. at'[h] = "registering" => left'[h] = {}
      BY <2>1, <2>2
    <2>4. \A g \in Handlers \ {h} : left'[g] = left[g]
      BY <1>1, <1>2 DEF ClearRow
    <2> QED
      BY <2>1, <2>3, <2>4
  <1>3. UNCHANGED left \/ \E u \in Users : ClearRow(h, u)
    BY DEF Step, Lookup, Create, SetListenerStatus, BeginUpdate, AddNewEvent, AckEvent,
           ReadCount, StoreCount, Throw, Answer, RegisterUser
  <1>4. CASE UNCHANGED left
    BY <1>4
  <1>5. ASSUME NEW u \in Users, ClearRow(h, u), NEW g \in Handlers
        PROVE  \/ left'[g] = left[g]
               \/ /\ g = h /\ at[h] = "clearing"
                  /\ \E v \in Users : /\ left'[h] = left[h] \ {v}
                                      /\ mapUserData'[v] = 0
                                      /\ at'[h] = "registering" => left'[h] = {}
    BY <1>2, <1>5
  <1> QED
    BY <1>3, <1>4, <1>5

LEMMA LeftStepFits ==
    ASSUME Types, LeftFits, NEW h \in Handlers, Step(h)
    PROVE  LeftFits'
  <1>0. at \in [Handlers -> HandlerState]
    BY DEF Types, StatisticsTypeOK
  <1>1. ASSUME NEW g \in Handlers, at'[g] = "registering"
        PROVE  left'[g] = {}
    <2>1. CASE g # h
      <3>1. at[g] = "registering" /\ left'[g] = left[g]
        BY <1>1, <2>1, OneHandler, LeftFacts DEF OthersStay
      <3> QED
        BY <3>1 DEF LeftFits
    <2>2. CASE g = h
      <3>1. at[h] = "registering" \/ \E u \in Users : ClearRow(h, u)
        BY <1>0, <1>1, <2>2
           DEF Step, Lookup, Create, SetListenerStatus, BeginUpdate, AddNewEvent, AckEvent,
               NextItem, ReadCount, StoreCount, Throw, Answer, RegisterUser
      <3>2. CASE at[h] = "registering"
        <4>1. left'[h] = left[h]
          BY <3>2, LeftFacts
        <4> QED
          BY <2>2, <3>2, <4>1 DEF LeftFits
      <3>3. ASSUME NEW u \in Users, ClearRow(h, u)
            PROVE  left'[h] = {}
        <4>1. /\ left'[h] = left[h] \ {u} /\ at[h] = "clearing"
              /\ at'[h] = IF left[h] = {u} THEN "registering" ELSE at[h]
          BY <1>0, <3>3 DEF ClearRow, Types, StatisticsTypeOK
        <4>2. at'[h] = "registering"
          BY <1>1, <2>2
        <4> QED
          BY <4>1, <4>2
      <3> QED
        BY <2>2, <3>1, <3>2, <3>3
    <2> QED
      BY <2>1, <2>2
  <1> QED
    BY <1>1 DEF LeftFits

LEMMA LeftRequestFits ==
    ASSUME Types, LeftFits, NEW h \in Handlers, Request(h)
    PROVE  LeftFits' /\ \A g \in Handlers \ {h} : left'[g] = left[g]
  <1>1. ASSUME NEW batch \in Batches, PutStatistics(h, batch)
        PROVE  UNCHANGED left /\ at'[h] = "lookup"
    BY <1>1 DEF PutStatistics, Types, StatisticsTypeOK
  <1>2. ASSUME NEW users, Reset(h, users)
        PROVE  at'[h] = "clearing" /\ \A g \in Handlers \ {h} : left'[g] = left[g]
    BY <1>2 DEF Reset, Types, StatisticsTypeOK
  <1>3. at'[h] # "registering" /\ \A g \in Handlers \ {h} : left'[g] = left[g]
    BY <1>1, <1>2 DEF Request
  <1>4. \A g \in Handlers \ {h} : at'[g] = at[g]
    BY OneHandler DEF OthersStay
  <1> QED
    BY <1>3, <1>4 DEF LeftFits

\* A request that stays what it is, while no row that was gone comes back.
LEMMA ClearKept ==
    ASSUME Types, PageInv, NEW q \in Asks, ClearFits(q), NEW e, Grows(e),
           Staying(ask'[q], ask[q]),
           \A h \in ask[q].handler : \A u \in Users \ left'[h] : u \in left[h] => mapUserData'[u] = 0
    PROVE  ClearFits(q)'
  <1>1. PICK a \in Ask : a = ask[q]
    BY DEF PageInv, PageTypes
  <1>2. PICK b : b = ask'[q]
    OBVIOUS
  <1>3. /\ b.stage = a.stage /\ b.handler = a.handler /\ b.kind = a.kind /\ b.rows = a.rows
        /\ b.held = a.held /\ b.since = a.since
    BY <1>1, <1>2 DEF Staying, Like
  <1>4. PICK n \in Nat : n = a.since
    BY DEF Ask
  <1>5. n <= Len(userEvents)
    BY <1>1, <1>4 DEF PageInv, AskFits
  <1>6. \A u \in Users : mapUserData[u] \in Nat
    BY LenProperties DEF Types, StatisticsTypeOK
  <1>7. \A u \in Users : Gone(mapUserData[u], n) => Gone(mapUserData'[u], n)
    BY <1>5, <1>6, GoneStays
  <1>8. ASSUME NEW h \in a.handler, NEW u \in Users \ left'[h]
        PROVE  Gone(mapUserData'[u], n)
    <2>1. CASE u \in left[h]
      BY <1>1, <1>8, <2>1 DEF Gone
    <2>2. CASE u \notin left[h]
      BY <1>1, <1>4, <1>7, <1>8, <2>2 DEF ClearFits
    <2> QED
      BY <2>1, <2>2
  <1>9. /\ a.kind = "clear" => a.stage \in {"sent", "clearing", "answered"}
        /\ (a.stage = "answered" /\ a.kind = "clear") \/ a.kind = "reload" =>
              \A u \in Users : Gone(mapUserData[u], n)
        /\ a.kind = "reload" => /\ \A u \in Users : Gone(a.rows[u].row, n)
                                /\ \A k \in DOMAIN a.held : Gone(a.held[k].row, n)
    BY <1>1, <1>4 DEF ClearFits, At
  <1>10. (a.stage = "answered" /\ a.kind = "clear") \/ a.kind = "reload" =>
              \A u \in Users : Gone(mapUserData'[u], n)
    BY <1>7, <1>9
  <1> QED
    BY <1>1, <1>2, <1>3, <1>4, <1>8, <1>9, <1>10 DEF ClearFits, At

\* Requests are not concerned that clear and load nothing.
LEMMA ClearIdle ==
    ASSUME NEW q \in Asks, NEW b \in Ask, ask'[q] = b, b.kind # "reload",
           b.kind = "clear" => b.stage = "sent", b.handler = {}
    PROVE  ClearFits(q)'
  BY DEF ClearFits, At

\* A request that loads the table begins with rows that are none.
LEMMA ClearStart ==
    ASSUME NEW q \in Asks, NEW k \in Nat, ask'[q] = Reload(k), PageTypes,
           \A u \in Users : Gone(mapUserData[u], k), UNCHANGED vars
    PROVE  ClearFits(q)'
  <1>1. PICK b \in Ask : b = ask'[q]
    BY Starts
  <1>2. b.kind = "reload" /\ b.since = k /\ b.rows = NoRows /\ b.held = <<>> /\ b.handler = {}
    BY <1>1, Starts
  <1>3. \A u \in Users : b.rows[u].row = 0
    BY <1>2, NewAsks DEF NoRow
  <1>4. \A u \in Users : Gone(b.rows[u].row, b.since)
    BY <1>3 DEF Gone
  <1>5. \A j \in DOMAIN b.held : Gone(b.held[j].row, b.since)
    BY <1>2
  <1>6. \A u \in Users : Gone(mapUserData'[u], b.since)
    BY <1>2 DEF vars
  <1> QED
    BY <1>1, <1>2, <1>4, <1>5, <1>6 DEF ClearFits

\* What the page does to one request leaves the others as they fit.
LEMMA ClearOthers ==
    ASSUME ClearInv, NEW q \in Asks, Only(q), UNCHANGED vars, ClearFits(q)'
    PROVE  ClearInv'
  <1>1. UNCHANGED <<mapUserData, left, at>>
    BY DEF vars
  <1>2. ASSUME NEW p \in Asks, p # q
        PROVE  ClearFits(p)'
    <2>1. ask'[p] = ask[p] /\ ClearFits(p)
      BY <1>2 DEF Only, ClearInv
    <2> QED
      BY <1>1, <2>1 DEF ClearFits, At
  <1> QED
    BY <1>1, <1>2 DEF ClearInv, LeftFits

LEMMA ClickClears ==
    ASSUME Types, PageInv, ClearInv, ClickReload \/ ClickList \/ ClickClear
    PROVE  ClearInv'
  <1>1. PageTypes /\ Len(userEvents) \in Nat /\ \A u \in Users : mapUserData[u] \in Nat
    BY LenProperties DEF PageInv, Types, StatisticsTypeOK
  <1>2. PICK q \in Asks : Only(q) /\ (ask'[q] = Reload(0) \/ ask'[q] = List \/ ask'[q] = Clear)
    BY <1>1, ClickFacts
  <1>3. UNCHANGED vars
    BY <1>1, ClickFacts
  <1>4. CASE ask'[q] = Reload(0)
    <2>1. \A u \in Users : Gone(mapUserData[u], 0)
      BY <1>1 DEF Gone
    <2>2. ClearFits(q)'
      BY <1>1, <1>3, <1>4, <2>1, ClearStart
    <2> QED
      BY <1>2, <1>3, <2>2, ClearOthers
  <1>5. CASE ask'[q] = List \/ ask'[q] = Clear
    <2>1. PICK b \in Ask : b = ask'[q]
      BY <1>2 DEF Only
    <2>2. b.kind \in {"list", "clear"} /\ b.stage = "sent" /\ b.handler = {}
      BY <1>1, <1>5, <2>1, Starts
    <2>3. b.kind # "reload"
      BY <2>2
    <2>4. ClearFits(q)'
      BY <2>1, <2>2, <2>3, ClearIdle
    <2> QED
      BY <1>2, <1>3, <2>4, ClearOthers
  <1> QED
    BY <1>2, <1>4, <1>5

LEMMA HandlerClears ==
    ASSUME Types, PageInv, ClearInv, NEW h \in Handlers, HandlerStep(h)
    PROVE  ClearInv'
  <1>0. PageTypes /\ LeftFits
    BY DEF PageInv, ClearInv
  <1>1. Step(h) /\ ask' \in [Asks -> Ask]
    BY <1>0, HandlerStepFacts
  <1>2. PICK e : Grows(e)
    BY <1>1, StepGrows
  <1>3. LeftFits'
    BY <1>0, <1>1, LeftStepFits
  <1>4. ASSUME NEW q \in Asks, h \in ask[q].handler, at'[h] = "idle"
        PROVE  ClearFits(q)'
    <2>0. AskFits(q) /\ ClearFits(q)
      BY DEF PageInv, ClearInv
    <2>1. PICK a \in Ask : a = ask[q]
      BY <1>0 DEF PageTypes
    <2>2. PICK b \in Ask : b = ask'[q]
      BY <1>1
    <2>3. /\ b.stage = "answered" /\ b.handler = {} /\ b.kind = a.kind /\ b.since = a.since
      BY <1>0, <1>4, <2>1, <2>2, HandlerStepFacts DEF Like
    <2>4. a.kind = "clear" /\ at[h] \in Resetting
      BY <1>4, <2>0, <2>1 DEF AskFits
    <2>5. at[h] = "registering"
      <3>1. at[h] # "clearing"
        BY <1>1, <1>4, <2>4, PlaceFacts
           DEF Step, Lookup, Create, SetListenerStatus, BeginUpdate, AddNewEvent, AckEvent,
               ReadCount, StoreCount, Throw, Answer, RegisterUser, ClearRow, Types, StatisticsTypeOK
      <3> QED
        BY <2>4, <3>1, PlaceFacts
    <2>6. left[h] = {}
      BY <1>0, <2>5 DEF LeftFits
    <2>7. PICK n \in Nat : n = a.since
      BY DEF Ask
    <2>8. \A u \in Users : Gone(mapUserData[u], n)
      BY <1>4, <2>0, <2>1, <2>6, <2>7 DEF ClearFits
    <2>9. n <= Len(userEvents) /\ \A u \in Users : mapUserData[u] \in Nat
      BY <2>0, <2>1, <2>7, LenProperties DEF AskFits, Types, StatisticsTypeOK
    <2>10. \A u \in Users : Gone(mapUserData'[u], n)
      BY <1>2, <2>8, <2>9, GoneStays
    <2>11. b.kind # "reload"
      BY <2>3, <2>4
    <2> QED
      BY <2>2, <2>3, <2>7, <2>10, <2>11 DEF ClearFits
  <1>5. ASSUME NEW q \in Asks, ~(h \in ask[q].handler /\ at'[h] = "idle")
        PROVE  ClearFits(q)'
    <2>1. ask'[q] = ask[q]
      BY <1>0, <1>5, HandlerStepFacts
    <2>2. Staying(ask'[q], ask[q]) /\ ClearFits(q)
      BY <2>1 DEF Staying, Like, ClearInv
    <2>3. \A g \in ask[q].handler : \A u \in Users \ left'[g] : u \in left[g] => mapUserData'[u] = 0
      <3>1. \A g \in ask[q].handler : g \in Handlers
        BY <1>0 DEF PageTypes, Ask
      <3>2. \A g \in Handlers : \/ left'[g] = left[g]
                                \/ \E u \in Users : left'[g] = left[g] \ {u} /\ mapUserData'[u] = 0
        BY <1>1, LeftFacts
      <3> QED
        BY <3>1, <3>2
    <2> QED
      BY <1>2, <2>2, <2>3, ClearKept
  <1> QED
    BY <1>3, <1>4, <1>5 DEF ClearInv

\* A request that begins concerns no handler that works on a clear.
LEMMA RequestClears ==
    ASSUME Types, PageInv, ClearInv, NEW h \in Handlers, Request(h), NEW q \in Asks,
           Staying(ask'[q], ask[q])
    PROVE  ClearFits(q)'
  <1>1. \A g \in ask[q].handler : g \in Handlers /\ at[g] \in Resetting
    BY DEF PageInv, AskFits, PageTypes, Ask
  <1>2. at[h] = "idle"
    BY DEF Request, PutStatistics, Reset
  <1>3. \A g \in ask[q].handler : g \in Handlers \ {h}
    BY <1>1, <1>2, PlaceFacts
  <1>4. \A g \in ask[q].handler : left'[g] = left[g]
    BY <1>3, LeftRequestFits DEF ClearInv
  <1>5. Grows(0) /\ ClearFits(q)
    BY RequestGrows DEF ClearInv
  <1> QED
    BY <1>4, <1>5, ClearKept

LEMMA OthersClears ==
    ASSUME Types, PageInv, ClearInv, NEW h \in Handlers, OthersRequest(h)
    PROVE  ClearInv'
  <1>1. Request(h) /\ ask' = Disturbed(ask)
    BY DEF OthersRequest, Request
  <1>2. \A q \in Asks : Staying(ask'[q], ask[q])
    BY <1>1, OthersFacts DEF PageInv
  <1>3. LeftFits'
    BY <1>1, LeftRequestFits DEF ClearInv
  <1> QED
    BY <1>1, <1>2, <1>3, RequestClears DEF ClearInv

LEMMA HandleClearClears ==
    ASSUME Types, PageInv, ClearInv, NEW q \in Asks, NEW h \in Handlers, HandleClear(q, h)
    PROVE  ClearInv'
  <1>0. PageTypes
    BY DEF PageInv
  <1>1. /\ Reset(h, <<>>) /\ ask[q].kind = "clear" /\ ask' \in [Asks -> Ask]
        /\ Like(ask'[q], ask[q]) /\ ask'[q].stage = "clearing" /\ ask'[q].handler = {h}
        /\ \A p \in Asks \ {q} : Staying(ask'[p], ask[p])
    BY <1>0, HandleClearFacts
  <1>2. Request(h)
    BY <1>1 DEF Request
  <1>3. left'[h] = Users
    BY <1>1 DEF Reset, Types, StatisticsTypeOK
  <1>4. ClearFits(q)'
    <2>1. PICK b \in Ask : b = ask'[q]
      BY <1>1
    <2>2. b.kind = "clear" /\ b.stage = "clearing" /\ b.handler = {h}
      BY <1>1, <2>1 DEF Like
    <2>3. b.kind # "reload" /\ b.stage # "answered"
      BY <2>2
    <2> QED
      BY <1>3, <2>1, <2>2, <2>3 DEF ClearFits, At
  <1>5. \A p \in Asks \ {q} : ClearFits(p)'
    BY <1>1, <1>2, RequestClears
  <1>6. LeftFits'
    BY <1>2, LeftRequestFits DEF ClearInv
  <1> QED
    BY <1>4, <1>5, <1>6 DEF ClearInv

LEMMA ReadClears ==
    ASSUME Types, FiniteRows, PageInv, ClearInv, NEW q \in Asks, Read(q)
    PROVE  ClearInv'
  <1>0. TableTypes /\ PageTypes /\ AskFits(q) /\ ClearFits(q)
    BY TypesSplit DEF PageInv, ClearInv
  <1>1. PICK a \in Ask : a = ask[q]
    BY <1>0 DEF PageTypes
  <1>2. UNCHANGED <<vars, pageVars, acked>> /\ Only(q) /\ Kept(ask'[q], ask[q])
    BY <1>0, BeginReadingFacts, NextEntryFacts, AnswerPageFacts, ReadFirstFacts, ReadSecondFacts,
       ReadEventsFacts DEF Read
  <1>3. PICK b \in Ask : b = ask'[q]
    BY <1>2 DEF Only
  <1>4. b.kind = a.kind /\ b.since = a.since /\ b.handler = a.handler
    BY <1>1, <1>2, <1>3 DEF Kept
  <1>5. a.stage \in {"sent", "next", "read", "read2"} /\ a.kind # "clear"
    <2>1. /\ AnswerPage(q) \/ NextEntry(q) => a.stage = "next"
          /\ \A u \in Users : ReadFirst(q, u) \/ ReadSecond(q, u) \/ ReadEvents(q, u)
                => a.stage \in {"read", "read2"}
          /\ BeginReading(q) => a.stage = "sent" /\ a.kind \in {"reload", "list"}
      BY <1>1 DEF AnswerPage, NextEntry, ReadFirst, ReadSecond, ReadEvents, BeginReading, At
    <2>2. a.kind = "clear" => a.stage \in {"sent", "clearing", "answered"}
      BY <1>0, <1>1 DEF ClearFits
    <2>3. a.stage \in {"sent", "next", "read", "read2"} /\ (a.stage = "sent" => a.kind # "clear")
      <3>1. "list" # "clear" /\ "reload" # "clear"
        OBVIOUS
      <3>2. BeginReading(q) \/ a.stage \in {"next", "read", "read2"}
        BY <2>1 DEF Read
      <3> QED
        BY <2>1, <3>1, <3>2
    <2> QED
      BY <2>2, <2>3
  <1>6. a.handler = {}
    BY <1>0, <1>1, <1>5 DEF AskFits
  <1>7. CASE a.kind # "reload"
    <2>1. ClearFits(q)'
      BY <1>3, <1>4, <1>5, <1>6, <1>7, ClearIdle
    <2> QED
      BY <1>2, <2>1, ClearOthers
  <1>8. CASE a.kind = "reload"
    <2>1. PICK n \in Nat : n = a.since
      BY DEF Ask
    <2>2. /\ \A u \in Users : Gone(mapUserData[u], n)
          /\ \A u \in Users : Gone(a.rows[u].row, n)
          /\ \A k \in DOMAIN a.held : Gone(a.held[k].row, n)
      BY <1>0, <1>1, <1>8, <2>1 DEF ClearFits
    <2>3. ASSUME NEW rest \in SUBSET Users, NEW it \in MoveOn(rest), b.held = it.held
          PROVE  \A k \in DOMAIN b.held : Gone(b.held[k].row, n)
      <3>1. CASE it.held = <<>>
        BY <2>3, <3>1
      <3>2. ASSUME NEW u \in rest, it.held = <<[user |-> u, row |-> mapUserData[u]]>>
            PROVE  \A k \in DOMAIN b.held : Gone(b.held[k].row, n)
        <4>1. PICK entry : entry = [user |-> u, row |-> mapUserData[u]]
          OBVIOUS
        <4>2. b.held = <<entry>> /\ entry.row = mapUserData[u]
          BY <2>3, <3>2, <4>1
        <4>3. Gone(entry.row, n)
          BY <2>2, <4>2
        <4> QED
          BY <4>2, <4>3
      <3>3. it.held = <<>> \/ \E u \in rest : it.held = <<[user |-> u, row |-> mapUserData[u]]>>
        BY <1>0, MoveOnFacts
      <3> QED
        BY <3>1, <3>2, <3>3
    <2>4. ASSUME NEW u \in Users, b.rows[u].row = a.rows[u].row,
                 \A v \in Users \ {u} : b.rows[v] = a.rows[v]
          PROVE  \A v \in Users : Gone(b.rows[v].row, n)
      BY <2>2, <2>4
    <2>5. ASSUME BeginReading(q)
          PROVE  /\ \A u \in Users : Gone(b.rows[u].row, n)
                 /\ \A k \in DOMAIN b.held : Gone(b.held[k].row, n)
      <3>1. b.rows = a.rows /\ \E it \in MoveOn(Users) : b.held = it.held
        BY <1>0, <1>1, <1>3, <2>5, BeginReadingFacts
      <3> QED
        BY <2>2, <2>3, <3>1
    <2>6. ASSUME NextEntry(q)
          PROVE  /\ \A u \in Users : Gone(b.rows[u].row, n)
                 /\ \A k \in DOMAIN b.held : Gone(b.held[k].row, n)
      <3>1. \E it \in MoveOn(a.left) : b.held = it.held
        BY <1>0, <1>1, <1>3, <2>6, NextEntryFacts
      <3>2. PICK entry \in Entry, row \in Nat \ {0} :
               /\ entry = a.held[1] /\ 1 \in DOMAIN a.held
               /\ row = entry.row \/ row = mapUserData[entry.user]
               /\ b.rows[entry.user].row = row
               /\ \A v \in Users \ {entry.user} : b.rows[v] = a.rows[v]
        BY <1>0, <1>1, <1>3, <2>6, NextEntryFacts
      <3>3. Gone(row, n)
        BY <2>2, <3>2 DEF Entry
      <3>4. \A u \in Users : Gone(b.rows[u].row, n)
        BY <2>2, <3>2, <3>3
      <3>5. a.left \in SUBSET Users
        BY DEF Ask
      <3> QED
        BY <2>3, <3>1, <3>4, <3>5
    <2>7. ASSUME AnswerPage(q) \/ \E u \in Users : ReadEvents(q, u)
          PROVE  b.rows = a.rows /\ b.held = a.held
      BY <1>0, <1>1, <1>3, <2>7, AnswerPageFacts, ReadEventsFacts
    <2>8. ASSUME NEW u \in Users, ReadFirst(q, u) \/ ReadSecond(q, u)
          PROVE  /\ \A v \in Users : Gone(b.rows[v].row, n)
                 /\ b.held = a.held
      <3>1. /\ b.rows[u].row = a.rows[u].row /\ b.held = a.held
            /\ \A v \in Users \ {u} : b.rows[v] = a.rows[v]
        BY <1>0, <1>1, <1>3, <2>8, ReadFirstFacts, ReadSecondFacts
      <3> QED
        BY <2>4, <3>1
    <2>9. /\ \A u \in Users : Gone(b.rows[u].row, n)
          /\ \A k \in DOMAIN b.held : Gone(b.held[k].row, n)
      BY <2>2, <2>5, <2>6, <2>7, <2>8 DEF Read
    <2>10. UNCHANGED <<mapUserData, left>>
      BY <1>2 DEF vars
    <2>11. b.kind # "clear" /\ b.handler = {} /\ b.since = n
      BY <1>4, <1>6, <1>8, <2>1
    <2>12. ClearFits(q)'
      BY <1>3, <2>2, <2>9, <2>10, <2>11 DEF ClearFits, At
    <2> QED
      BY <1>2, <2>12, ClearOthers
  <1> QED
    BY <1>7, <1>8

LEMMA ShowClears ==
    ASSUME Types, PageInv, ClearInv, NEW q \in Asks, ShowTable(q) \/ ShowList(q) \/ ClearDone(q)
    PROVE  ClearInv'
  <1>0. PageTypes /\ ClearFits(q)
    BY DEF PageInv, ClearInv
  <1>1. CASE ShowTable(q) \/ ShowList(q)
    <2>1. UNCHANGED vars /\ Only(q) /\ ask'[q] = NoAsk
      BY <1>0, <1>1, ShowFacts
    <2>2. PICK b \in Ask : b = NoAsk
      BY NewAsks
    <2>3. b.kind = "none" /\ b.handler = {}
      BY <2>2, NewAsks
    <2>4. b.kind # "reload" /\ b.kind # "clear"
      BY <2>3
    <2>5. ClearFits(q)'
      BY <2>1, <2>2, <2>3, <2>4, ClearIdle
    <2> QED
      BY <2>1, <2>5, ClearOthers
  <1>2. CASE ClearDone(q)
    <2>1. /\ UNCHANGED vars /\ Only(q) /\ ask'[q] = Reload(ask[q].since)
          /\ ask[q].stage = "answered" /\ ask[q].kind = "clear" /\ ask[q].since \in Nat
      BY <1>0, <1>2, ClearDoneFacts
    <2>2. PICK n \in Nat : n = ask[q].since
      BY <2>1
    <2>3. \A u \in Users : Gone(mapUserData[u], n)
      BY <1>0, <2>1, <2>2 DEF ClearFits, At
    <2>4. ClearFits(q)'
      BY <1>0, <2>1, <2>2, <2>3, ClearStart
    <2> QED
      BY <2>1, <2>4, ClearOthers
  <1> QED
    BY <1>1, <1>2

LEMMA NextClears == TableInv /\ ClearInv /\ [TableNext]_tableVars => ClearInv'
  <1> SUFFICES ASSUME TableInv, ClearInv, [TableNext]_tableVars PROVE ClearInv'
    OBVIOUS
  <1>1. Types /\ FiniteRows /\ PageInv
    BY DEF TableInv, StatisticsInv
  <1>2. CASE TableNext
    BY <1>1, <1>2, ClickClears, HandlerClears, OthersClears, HandleClearClears, ReadClears,
       ShowClears DEF TableNext
  <1>3. CASE UNCHANGED tableVars
    BY <1>3 DEF tableVars, vars, ClearInv, LeftFits, ClearFits, At
  <1> QED
    BY <1>2, <1>3

LEMMA InitClears == TableInit => ClearInv
  <1> SUFFICES ASSUME TableInit PROVE ClearInv
    OBVIOUS
  <1>1. PICK b \in Ask : b = NoAsk
    BY NewAsks
  <1>2. \A q \in Asks : ask[q] = b
    BY <1>1 DEF TableInit
  <1>3. b.kind = "none" /\ b.handler = {}
    BY <1>1, NewAsks
  <1>4. b.kind # "reload" /\ b.kind # "clear"
    BY <1>3
  <1>5. LeftFits
    BY DEF LeftFits, TableInit, Init
  <1> QED
    BY <1>2, <1>3, <1>4, <1>5 DEF ClearInv, ClearFits, At

\* Only what shows a request's answer ends it.
LEMMA ShowsFacts ==
    ASSUME TableInv, [TableNext]_tableVars, NEW q \in Asks, NEW kind, Shows(q, kind)
    PROVE  (ShowTable(q) /\ kind = "reload") \/ (ShowList(q) /\ kind = "list")
  <1>0. Types /\ FiniteRows /\ PageInv /\ PageTypes /\ TableTypes /\ Len(userEvents) \in Nat
    BY TypesSplit, LenProperties DEF TableInv, StatisticsInv, PageInv, TableTypes
  <1>1. ask[q].stage = "answered" /\ ask[q].kind = kind /\ ask'[q].stage = "none"
    BY DEF Shows, At, UnderWay
  <1>2. ask'[q] # ask[q] /\ ask'[q].stage # ask[q].stage
    BY <1>1
  <1>3. ~(ClickReload \/ ClickList \/ ClickClear)
    BY <1>0, <1>1, <1>2, ClickFacts DEF Only, UnderWay
  <1>4. ASSUME NEW h \in Handlers, HandlerStep(h)
        PROVE  FALSE
    BY <1>0, <1>1, <1>2, <1>4, HandlerStepFacts
  <1>5. ASSUME NEW h \in Handlers, OthersRequest(h)
        PROVE  FALSE
    BY <1>0, <1>2, <1>5, OthersFacts DEF OthersRequest, Staying
  <1>6. ASSUME NEW h \in Handlers, NEW p \in Asks, HandleClear(p, h)
        PROVE  FALSE
    BY <1>0, <1>1, <1>2, <1>6, HandleClearFacts DEF Staying
  <1>7. ASSUME NEW p \in Asks, Read(p)
        PROVE  FALSE
    <2>1. Only(p)
      BY <1>0, <1>7, BeginReadingFacts, NextEntryFacts, AnswerPageFacts, ReadFirstFacts,
         ReadSecondFacts, ReadEventsFacts DEF Read
    <2>2. p = q
      BY <1>2, <2>1 DEF Only
    <2>3. ask'[q].stage \in {"next", "read", "read2", "answered"}
      BY <1>0, <1>7, <2>2, BeginReadingFacts, NextEntryFacts, AnswerPageFacts, ReadFirstFacts,
         ReadSecondFacts, ReadEventsFacts DEF Read
    <2> QED
      BY <1>1, <2>3
  <1>8. ASSUME NEW p \in Asks, ShowTable(p) \/ ShowList(p) \/ ClearDone(p)
        PROVE  p = q /\ ~ClearDone(p)
    <2>1. Only(p)
      BY <1>0, <1>8, ShowFacts, ClearDoneFacts
    <2>2. p = q
      BY <1>2, <2>1 DEF Only
    <2>3. ClearDone(p) => ask'[q].stage = "sent"
      BY <1>0, <2>2, ClearDoneFacts, Starts
    <2> QED
      BY <1>1, <2>2, <2>3
  <1>9. ~(UNCHANGED tableVars)
    BY <1>2 DEF tableVars
  <1>10. ShowTable(q) \/ ShowList(q)
    BY <1>3, <1>4, <1>5, <1>6, <1>7, <1>8, <1>9 DEF TableNext
  <1> QED
    BY <1>1, <1>10 DEF ShowTable, ShowList, At

ShownIsLater ==
    \A q \in Asks : Shows(q, "reload") =>
        \A u \in Users : rows[u]'.row = 0 \/ rows[u]'.row > ask[q].since

\* After the answer to a click on Clear, whatever overlapped with it, the page shows no
\* row that was there at the click.  The clear goes over the table user by user while
\* others fill it, and the page reads the table row by row after that: the invariant
\* follows the rows from the one to the other.
THEOREM ClearedIsGone == TableSpec => ClearShows
  <1>1. TableInv /\ ClearInv /\ [TableNext]_tableVars => [ShownIsLater]_tableVars
    <2> SUFFICES ASSUME TableInv, ClearInv, [TableNext]_tableVars, NEW q \in Asks,
                        Shows(q, "reload"), NEW u \in Users
                 PROVE  rows[u]'.row = 0 \/ rows[u]'.row > ask[q].since
      BY DEF ShownIsLater
    <2>1. ShowTable(q)
      BY ShowsFacts
    <2>2. rows' = ask[q].rows /\ ask[q].kind = "reload"
      BY <2>1 DEF ShowTable, At
    <2>3. ClearFits(q)
      BY DEF ClearInv
    <2> QED
      BY <2>2, <2>3 DEF ClearFits, Gone
  <1>2. TableSpec => []ClearInv
    BY AlwaysTable, InitClears, NextClears, PTL DEF TableSpec
  <1>3. TableSpec => [][ShownIsLater]_tableVars
    BY <1>1, <1>2, AlwaysTable, PTL DEF TableSpec
  <1> QED
    BY <1>3 DEF ClearShows, ShownIsLater

-----------------------------------------------------------------------------
(* What a reader sees while nothing changes the table. *)

\* The row of u is shown as it is in the table.
Done(shown, u) ==
    /\ shown[u].row = mapUserData[u]
    /\ mapUserData[u] # 0 =>
          /\ shown[u].isListening = userEvents[mapUserData[u]].isListening
          /\ shown[u].ack = userEvents[mapUserData[u]].totalAckEvents
          /\ shown[u].unack = Cardinality(userEvents[mapUserData[u]].unAckEvents)

\* What the iterator holds of u is the row that is in the table.
Holds(held, u) == mapUserData[u] # 0 /\ held = <<[user |-> u, row |-> mapUserData[u]]>>

\* How far a reader is: users who are left have nothing shown yet, the row that is being
\* read is that in the table, and all rows before are shown as they are there.
ReadFits(a) ==
    /\ a.held = <<>> \/ \E u \in Users \ a.left : Holds(a.held, u)
    /\ \A u \in a.left : a.rows[u].row = 0
    /\ \A u \in a.reading :
          /\ a.rows[u].row = mapUserData[u]
          /\ a.stage = "read2" =>
                /\ a.rows[u].isListening = userEvents[mapUserData[u]].isListening
                /\ a.rows[u].ack = userEvents[mapUserData[u]].totalAckEvents
    /\ \A u \in Users \ (a.left \cup a.reading) : Holds(a.held, u) \/ Done(a.rows, u)

CalmFits(q) ==
    ask[q].calm =>
        /\ AllIdle /\ ask[q].kind = "reload"
        /\ ask[q].stage = "sent" => \A u \in Users : ask[q].rows[u].row = 0
        /\ ask[q].stage # "sent" => ReadFits(ask[q])
        /\ ask[q].stage = "answered" => ask[q].held = <<>>

CalmInv == \A q \in Asks : CalmFits(q)

LEMMA CalmNew ==
    ASSUME NEW q \in Asks, NEW b \in Ask, ask'[q] = b, UNCHANGED vars,
           b.calm => AllIdle /\ b.kind = "reload", b.stage # "sent", ReadFits(b),
           b.stage = "answered" => b.held = <<>>
    PROVE  CalmFits(q)'
  <1>1. UNCHANGED <<mapUserData, userEvents, at>>
    BY DEF vars
  <1>2. ReadFits(ask[q])'
    BY <1>1 DEF ReadFits, Holds, Done
  <1>3. AllIdle' <=> AllIdle
    BY <1>1 DEF AllIdle
  <1> QED
    BY <1>2, <1>3 DEF CalmFits

LEMMA CalmStart ==
    ASSUME NEW q \in Asks, NEW b \in Ask, ask'[q] = b, UNCHANGED vars, b.rows = NoRows,
           b.stage = "sent" \/ b.stage = "none",
           b.calm => AllIdle /\ b.kind = "reload" /\ b.stage = "sent"
    PROVE  CalmFits(q)'
  <1>1. AllIdle' <=> AllIdle
    BY DEF vars, AllIdle
  <1>2. \A u \in Users : b.rows[u].row = 0
    BY NewAsks DEF NoRow
  <1> QED
    BY <1>1, <1>2 DEF CalmFits

LEMMA CalmOthers ==
    ASSUME CalmInv, NEW q \in Asks, Only(q), UNCHANGED vars, CalmFits(q)'
    PROVE  CalmInv'
  <1>1. UNCHANGED <<mapUserData, userEvents, at>>
    BY DEF vars
  <1>2. ASSUME NEW p \in Asks, p # q
        PROVE  CalmFits(p)'
    <2>1. ask'[p] = ask[p] /\ CalmFits(p)
      BY <1>2 DEF Only, CalmInv
    <2> QED
      BY <1>1, <2>1 DEF CalmFits, AllIdle, ReadFits, Holds, Done
  <1> QED
    BY <1>2 DEF CalmInv

LEMMA ClickCalm ==
    ASSUME Types, PageInv, CalmInv, ClickReload \/ ClickList \/ ClickClear
    PROVE  CalmInv'
  <1>1. PageTypes /\ Len(userEvents) \in Nat
    BY LenProperties DEF PageInv, Types, StatisticsTypeOK
  <1>2. PICK q \in Asks : Only(q) /\ (ask'[q] = Reload(0) \/ ask'[q] = List \/ ask'[q] = Clear)
    BY <1>1, ClickFacts
  <1>3. UNCHANGED vars
    BY <1>1, ClickFacts
  <1>4. PICK b \in Ask : b = ask'[q]
    BY <1>2 DEF Only
  <1>5. b.rows = NoRows /\ b.stage = "sent" /\ (b.calm => AllIdle /\ b.kind = "reload")
    <2>1. CASE ask'[q] = Reload(0)
      <3>1. b.rows = NoRows /\ b.stage = "sent" /\ b.calm = AllIdle /\ b.kind = "reload"
        BY <1>1, <1>4, <2>1, Starts
      <3> QED
        BY <3>1
    <2>2. CASE ask'[q] = List \/ ask'[q] = Clear
      <3>1. b.rows = NoRows /\ b.stage = "sent" /\ b.calm = FALSE
        BY <1>1, <1>4, <2>2, Starts
      <3> QED
        BY <3>1
    <2> QED
      BY <1>2, <2>1, <2>2
  <1>6. CalmFits(q)'
    BY <1>3, <1>4, <1>5, CalmStart
  <1> QED
    BY <1>2, <1>3, <1>6, CalmOthers

\* No handler is at work while a request is calm, and none begins to.
LEMMA HandlerCalm ==
    ASSUME PageInv, CalmInv, NEW h \in Handlers,
           HandlerStep(h) \/ OthersRequest(h) \/ \E q \in Asks : HandleClear(q, h)
    PROVE  CalmInv'
  <1>0. PageTypes
    BY DEF PageInv
  <1>1. ASSUME HandlerStep(h), NEW q \in Asks
        PROVE  ~ask'[q].calm
    <2>1. Step(h) /\ ask'[q].calm = ask[q].calm
      BY <1>0, <1>1, HandlerStepFacts
    <2>2. at[h] # "idle"
      BY <2>1 DEF Step, Lookup, Create, SetListenerStatus, BeginUpdate, AddNewEvent, AckEvent,
                  ReadCount, StoreCount, Throw, Answer, RegisterUser, ClearRow
    <2> QED
      BY <2>1, <2>2 DEF CalmInv, CalmFits, AllIdle
  <1>2. ASSUME OthersRequest(h), NEW q \in Asks
        PROVE  ~ask'[q].calm
    BY <1>0, <1>2, OthersFacts DEF OthersRequest
  <1>3. ASSUME NEW p \in Asks, HandleClear(p, h), NEW q \in Asks
        PROVE  ~ask'[q].calm
    BY <1>0, <1>3, HandleClearFacts
  <1> QED
    BY <1>1, <1>2, <1>3 DEF CalmInv, CalmFits

\* The iterator has moved on over users of whom nothing is shown yet.
LEMMA MovesOn ==
    ASSUME TableTypes, NEW rest \in SUBSET Users, NEW it \in MoveOn(rest)
    PROVE  /\ it.left \subseteq rest
           /\ it.held = <<>> \/ \E u \in rest \ it.left : Holds(it.held, u)
           /\ \A v \in rest \ it.left : Holds(it.held, v) \/ mapUserData[v] = 0
  <1>1. it.left \subseteq rest
    BY MoveOnFacts
  <1>2. CASE it.held = <<>> /\ it.left = {} /\ \A v \in rest : mapUserData[v] = 0
    BY <1>1, <1>2
  <1>3. ASSUME NEW u \in rest, mapUserData[u] \in 1 .. Len(userEvents),
               it.held = <<[user |-> u, row |-> mapUserData[u]]>>, u \notin it.left,
               \A v \in rest \ it.left : v = u \/ mapUserData[v] = 0
        PROVE  /\ u \in rest \ it.left /\ Holds(it.held, u)
               /\ \A v \in rest \ it.left : Holds(it.held, v) \/ mapUserData[v] = 0
    <2>1. mapUserData[u] # 0
      BY <1>3
    <2>2. Holds(it.held, u)
      BY <1>3, <2>1 DEF Holds
    <2> QED
      BY <1>3, <2>2
  <1> QED
    BY <1>1, <1>2, <1>3, MoveOnFacts

LEMMA ReadCalm ==
    ASSUME Types, FiniteRows, PageInv, CalmInv, NEW q \in Asks, Read(q)
    PROVE  CalmInv'
  <1>0. TableTypes /\ PageTypes /\ AskFits(q) /\ CalmFits(q)
    BY TypesSplit DEF PageInv, CalmInv
  <1>1. PICK a \in Ask : a = ask[q]
    BY <1>0 DEF PageTypes
  <1>2. UNCHANGED <<vars, pageVars, acked>> /\ Only(q) /\ Kept(ask'[q], ask[q])
    BY <1>0, BeginReadingFacts, NextEntryFacts, AnswerPageFacts, ReadFirstFacts, ReadSecondFacts,
       ReadEventsFacts DEF Read
  <1>3. PICK b \in Ask : b = ask'[q]
    BY <1>2 DEF Only
  <1>4. b.kind = a.kind /\ b.calm = a.calm /\ UNCHANGED vars
    BY <1>1, <1>2, <1>3 DEF Kept
  <1>5. CASE ~a.calm
    <2>1. CalmFits(q)'
      BY <1>3, <1>4, <1>5 DEF CalmFits
    <2> QED
      BY <1>2, <2>1, CalmOthers
  <1>6. CASE a.calm
    <2>0. SUFFICES ASSUME TRUE PROVE CalmFits(q)'
      BY <1>2, CalmOthers
    <2>1. /\ AllIdle /\ a.kind = "reload"
          /\ a.stage = "sent" => \A u \in Users : a.rows[u].row = 0
          /\ a.stage # "sent" => ReadFits(a)
      BY <1>0, <1>1, <1>6 DEF CalmFits
    <2>2. /\ a.stage \in {"read", "read2"} <=> a.reading # {}
          /\ \A u, v \in a.reading : u = v
          /\ \A u \in a.reading : a.rows[u].row # 0
          /\ a.held = <<>> => a.left = {}
      BY <1>0, <1>1 DEF AskFits
    <2>3. b.calm => AllIdle /\ b.kind = "reload"
      BY <1>4, <2>1
    <2>4. a.left \in SUBSET Users
      BY DEF Ask
    <2>5. ASSUME BeginReading(q)
          PROVE  CalmFits(q)'
      <3>1. PICK it \in MoveOn(Users) : b.held = it.held /\ b.left = it.left
        BY <1>0, <1>1, <1>3, <2>5, BeginReadingFacts
      <3>2. a.stage = "sent" /\ b.stage = "next" /\ b.rows = a.rows /\ b.reading = a.reading
        BY <1>0, <1>1, <1>3, <2>5, BeginReadingFacts
      <3>3. a.reading = {} /\ \A u \in Users : a.rows[u].row = 0
        BY <2>1, <2>2, <3>2
      <3>4. \A u \in Users : mapUserData[u] = 0 => Done(b.rows, u)
        BY <3>2, <3>3 DEF Done
      <3>5. ReadFits(b)
        BY <1>0, <3>1, <3>2, <3>3, <3>4, MovesOn DEF ReadFits
      <3>6. b.stage # "sent" /\ b.stage # "answered"
        BY <3>2
      <3> QED
        BY <1>3, <1>4, <2>3, <3>5, <3>6, CalmNew
    <2>6. ASSUME NextEntry(q)
          PROVE  CalmFits(q)'
      <3>1. PICK it \in MoveOn(a.left) : b.held = it.held /\ b.left = it.left
        BY <1>0, <1>1, <1>3, <2>6, NextEntryFacts
      <3>2. a.stage = "next" /\ b.stage = "read"
        BY <1>0, <1>1, <1>3, <2>6, NextEntryFacts
      <3>3. PICK entry \in Entry, row \in Nat \ {0} :
               /\ entry = a.held[1] /\ 1 \in DOMAIN a.held
               /\ row = entry.row \/ row = mapUserData[entry.user]
               /\ b.reading = {entry.user}
               /\ b.rows[entry.user].row = row
               /\ \A v \in Users \ {entry.user} : b.rows[v] = a.rows[v]
        BY <1>0, <1>1, <1>3, <2>6, NextEntryFacts
      <3>4. a.reading = {} /\ ReadFits(a)
        BY <2>1, <2>2, <3>2
      <3>5. PICK u \in Users \ a.left : Holds(a.held, u)
        BY <3>3, <3>4 DEF ReadFits
      <3>6. entry.user = u /\ entry.row = mapUserData[u]
        BY <3>3, <3>5 DEF Holds
      <3>7. \A v \in Users : Holds(a.held, v) => v = u
        <4>1. ASSUME NEW v \in Users, Holds(a.held, v)
              PROVE  v = u
          <5>1. a.held[1] = [user |-> v, row |-> mapUserData[v]]
            BY <4>1 DEF Holds
          <5> QED
            BY <3>3, <3>6, <5>1
        <4> QED
          BY <4>1
      <3>8. b.rows[u].row = mapUserData[u] /\ b.reading = {u} /\ \A v \in Users \ {u} : b.rows[v] = a.rows[v]
        BY <3>3, <3>6
      <3>9. /\ b.left \subseteq a.left
            /\ b.held = <<>> \/ \E v \in a.left \ b.left : Holds(b.held, v)
            /\ \A v \in a.left \ b.left : Holds(b.held, v) \/ mapUserData[v] = 0
        BY <1>0, <2>4, <3>1, MovesOn
      <3>10. \A v \in b.left : b.rows[v].row = 0
        BY <2>4, <3>4, <3>5, <3>8, <3>9 DEF ReadFits
      <3>11. ASSUME NEW v \in Users \ (b.left \cup b.reading)
             PROVE  Holds(b.held, v) \/ Done(b.rows, v)
        <4>1. v # u /\ b.rows[v] = a.rows[v]
          BY <3>8
        <4>2. CASE v \in a.left
          <5>1. a.rows[v].row = 0
            BY <3>4, <4>2 DEF ReadFits
          <5> QED
            BY <3>9, <4>1, <4>2, <5>1 DEF Done
        <4>3. CASE v \notin a.left
          <5>1. Done(a.rows, v)
            BY <3>4, <3>7, <4>1, <4>3 DEF ReadFits
          <5> QED
            BY <4>1, <5>1 DEF Done
        <4> QED
          BY <4>2, <4>3
      <3>12. b.stage # "read2" /\ b.stage # "sent" /\ b.stage # "answered"
        BY <3>2
      <3>13. ReadFits(b)
        BY <2>4, <3>8, <3>9, <3>10, <3>11, <3>12 DEF ReadFits
      <3> QED
        BY <1>3, <1>4, <2>3, <3>12, <3>13, CalmNew
    <2>7. ASSUME AnswerPage(q)
          PROVE  CalmFits(q)'
      <3>1. /\ a.stage = "next" /\ a.held = <<>> /\ b.stage = "answered" /\ b.rows = a.rows
            /\ b.reading = a.reading /\ b.held = a.held /\ b.left = a.left
        BY <1>0, <1>1, <1>3, <2>7, AnswerPageFacts
      <3>2. a.reading = {} /\ ReadFits(a)
        BY <2>1, <2>2, <3>1
      <3>3. ReadFits(b)
        BY <3>1, <3>2 DEF ReadFits
      <3>4. b.stage # "sent" /\ b.held = <<>>
        BY <3>1
      <3> QED
        BY <1>3, <1>4, <2>3, <3>3, <3>4, CalmNew
    <2>8. ASSUME NEW u \in Users, ReadFirst(q, u)
          PROVE  CalmFits(q)'
      <3>1. /\ a.stage = "read" /\ u \in a.reading /\ b.stage = "read2" /\ b.reading = a.reading
            /\ b.held = a.held /\ b.left = a.left
            /\ b.rows[u].row = a.rows[u].row
            /\ b.rows[u].isListening = RowRead(q, u).isListening
            /\ b.rows[u].ack = RowRead(q, u).totalAckEvents
            /\ \A v \in Users \ {u} : b.rows[v] = a.rows[v]
        BY <1>0, <1>1, <1>3, <2>8, ReadFirstFacts
      <3>2. ReadFits(a) /\ a.reading = {u}
        BY <2>1, <2>2, <3>1
      <3>3. a.rows[u].row = mapUserData[u] /\ RowRead(q, u) = userEvents[mapUserData[u]]
        BY <1>1, <3>1, <3>2 DEF ReadFits, RowRead
      <3>4. u \notin a.left
        BY <2>2, <3>1, <3>2 DEF ReadFits
      <3>5. \A v \in Users \ {u} : Done(a.rows, v) => Done(b.rows, v)
        BY <3>1 DEF Done
      <3>6. ReadFits(b)
        BY <2>4, <3>1, <3>2, <3>3, <3>4, <3>5 DEF ReadFits
      <3>7. b.stage # "sent" /\ b.stage # "answered"
        BY <3>1
      <3> QED
        BY <1>3, <1>4, <2>3, <3>6, <3>7, CalmNew
    <2>9. ASSUME NEW u \in Users, ReadSecond(q, u)
          PROVE  CalmFits(q)'
      <3>1. /\ a.stage = "read2" /\ u \in a.reading /\ b.stage = "next" /\ b.reading = {}
            /\ b.held = a.held /\ b.left = a.left
            /\ b.rows[u].row = a.rows[u].row
            /\ b.rows[u].isListening = a.rows[u].isListening
            /\ b.rows[u].ack = a.rows[u].ack
            /\ b.rows[u].unack = Cardinality(RowRead(q, u).unAckEvents)
            /\ \A v \in Users \ {u} : b.rows[v] = a.rows[v]
        BY <1>0, <1>1, <1>3, <2>9, ReadSecondFacts
      <3>2. ReadFits(a) /\ a.reading = {u}
        BY <2>1, <2>2, <3>1
      <3>3. a.rows[u].row = mapUserData[u] /\ RowRead(q, u) = userEvents[mapUserData[u]]
        BY <1>1, <3>1, <3>2 DEF ReadFits, RowRead
      <3>4. /\ a.rows[u].isListening = userEvents[mapUserData[u]].isListening
            /\ a.rows[u].ack = userEvents[mapUserData[u]].totalAckEvents
        BY <3>1, <3>2 DEF ReadFits
      <3>5. Done(b.rows, u)
        BY <3>1, <3>3, <3>4 DEF Done
      <3>6. u \notin a.left
        BY <2>2, <3>1, <3>2 DEF ReadFits
      <3>7. \A v \in Users \ {u} : Done(a.rows, v) => Done(b.rows, v)
        BY <3>1 DEF Done
      <3>8. ReadFits(b)
        BY <2>4, <3>1, <3>2, <3>5, <3>6, <3>7 DEF ReadFits
      <3>9. b.stage # "sent" /\ b.stage # "answered"
        BY <3>1
      <3> QED
        BY <1>3, <1>4, <2>3, <3>8, <3>9, CalmNew
    <2>10. \A u \in Users : ~ReadEvents(q, u)
      <3>1. ASSUME NEW u \in Users, ReadEvents(q, u)
            PROVE  FALSE
        <4>1. a.kind = "list"
          BY <1>1, <3>1 DEF ReadEvents, At
        <4> QED
          BY <2>1, <4>1
      <3> QED
        BY <3>1
    <2> QED
      BY <2>5, <2>6, <2>7, <2>8, <2>9, <2>10 DEF Read
  <1> QED
    BY <1>5, <1>6

LEMMA ShowCalm ==
    ASSUME PageInv, CalmInv, NEW q \in Asks, ShowTable(q) \/ ShowList(q) \/ ClearDone(q)
    PROVE  CalmInv'
  <1>0. PageTypes
    BY DEF PageInv
  <1>1. CASE ShowTable(q) \/ ShowList(q)
    <2>1. UNCHANGED vars /\ Only(q) /\ ask'[q] = NoAsk
      BY <1>0, <1>1, ShowFacts
    <2>2. PICK b \in Ask : b = NoAsk
      BY NewAsks
    <2>3. b.stage = "none" /\ b.rows = NoRows /\ b.calm = FALSE
      BY <2>2, NewAsks
    <2>4. CalmFits(q)'
      BY <2>1, <2>2, <2>3, CalmStart
    <2> QED
      BY <2>1, <2>4, CalmOthers
  <1>2. CASE ClearDone(q)
    <2>1. /\ UNCHANGED vars /\ Only(q) /\ ask'[q] = Reload(ask[q].since) /\ ask[q].since \in Nat
      BY <1>0, <1>2, ClearDoneFacts
    <2>2. PICK b \in Ask : b = ask'[q]
      BY <2>1 DEF Only
    <2>3. b.stage = "sent" /\ b.kind = "reload" /\ b.rows = NoRows /\ b.calm = AllIdle
      BY <1>0, <2>1, <2>2, Starts
    <2>4. CalmFits(q)'
      BY <2>1, <2>2, <2>3, CalmStart
    <2> QED
      BY <2>1, <2>4, CalmOthers
  <1> QED
    BY <1>1, <1>2

LEMMA NextCalm == TableInv /\ CalmInv /\ [TableNext]_tableVars => CalmInv'
  <1> SUFFICES ASSUME TableInv, CalmInv, [TableNext]_tableVars PROVE CalmInv'
    OBVIOUS
  <1>1. Types /\ FiniteRows /\ PageInv
    BY DEF TableInv, StatisticsInv
  <1>2. CASE TableNext
    BY <1>1, <1>2, ClickCalm, HandlerCalm, ReadCalm, ShowCalm DEF TableNext
  <1>3. CASE UNCHANGED tableVars
    BY <1>3 DEF tableVars, vars, CalmInv, CalmFits, AllIdle, ReadFits, Holds, Done
  <1> QED
    BY <1>2, <1>3

LEMMA InitCalm == TableInit => CalmInv
  BY NewAsks DEF TableInit, CalmInv, CalmFits

\* A table that nobody changes is right about all users.
LEMMA CalmIsRight ==
    ASSUME TableInv, AllIdle, overlapped = {}, NEW u \in Users
    PROVE  ledger[u] = Says(u)
  <1>1. ~Busy(u)
    BY DEF AllIdle, Busy, Updating
  <1>2. AccurateFor(u)
    BY DEF TableInv, StatisticsInv, AccurateInv
  <1> QED
    BY <1>1, <1>2 DEF AccurateFor

LEMMA SameTotals ==
    ASSUME NEW shown, \A u \in Users : Done(shown, u) /\ ledger[u] = Says(u)
    PROVE  DrawCallback(shown) = Expected
  <1>1. PICK agents : agents = {u \in Users : mapUserData[u] # 0}
    OBVIOUS
  <1>2. {u \in Users : shown[u].row # 0} = agents
    BY <1>1 DEF Done
  <1>3. \A u \in agents : /\ shown[u].isListening = ledger[u].isListening
                          /\ shown[u].ack = ledger[u].totalAckEvents
                          /\ shown[u].unack = Cardinality(ledger[u].unAckEvents)
    BY <1>1 DEF Done, Says
  <1>4. /\ [u \in agents |-> shown[u].isListening] = [u \in agents |-> ledger[u].isListening]
        /\ [u \in agents |-> shown[u].ack] = [u \in agents |-> ledger[u].totalAckEvents]
        /\ [u \in agents |-> shown[u].unack] = [u \in agents |-> Cardinality(ledger[u].unAckEvents)]
    BY <1>3
  <1> QED
    BY <1>1, <1>2, <1>4 DEF DrawCallback, Expected

TotalsAreRight ==
    \A q \in Asks : Shows(q, "reload") /\ ask[q].calm /\ overlapped = {} => totals' = Expected

\* If nothing changed the table from the click to the answer, and no two requests about
\* a user ever overlapped, the totals on the page are those of everything that was
\* reported: the reader saw each row once, the row was right, and the sums are of all
\* rows.
THEOREM QuietTableIsRight == TableSpec => QuietTotals
  <1>1. TableInv /\ CalmInv /\ [TableNext]_tableVars => [TotalsAreRight]_tableVars
    <2> SUFFICES ASSUME TableInv, CalmInv, [TableNext]_tableVars, NEW q \in Asks,
                        Shows(q, "reload"), ask[q].calm, overlapped = {}
                 PROVE  totals' = Expected
      BY DEF TotalsAreRight
    <2>1. ShowTable(q)
      BY ShowsFacts
    <2>2. totals' = DrawCallback(ask[q].rows) /\ ask[q].stage = "answered"
      BY <2>1 DEF ShowTable, At
    <2>3. CalmFits(q) /\ AskFits(q)
      BY DEF CalmInv, TableInv, PageInv
    <2>4. AllIdle /\ ReadFits(ask[q]) /\ ask[q].held = <<>>
      BY <2>2, <2>3 DEF CalmFits
    <2>5. ask[q].left = {} /\ ask[q].reading = {}
      BY <2>2, <2>3, <2>4 DEF AskFits
    <2>6. \A u \in Users : ~Holds(ask[q].held, u)
      BY <2>4 DEF Holds
    <2>7. \A u \in Users : Done(ask[q].rows, u)
      BY <2>4, <2>5, <2>6 DEF ReadFits
    <2>8. \A u \in Users : ledger[u] = Says(u)
      BY <2>4, CalmIsRight
    <2>9. PICK shown : shown = ask[q].rows
      OBVIOUS
    <2> QED
      BY <2>2, <2>7, <2>8, <2>9, SameTotals
  <1>2. TableSpec => []CalmInv
    BY AlwaysTable, InitCalm, NextCalm, PTL DEF TableSpec
  <1>3. TableSpec => [][TotalsAreRight]_tableVars
    BY <1>1, <1>2, AlwaysTable, PTL DEF TableSpec
  <1> QED
    BY <1>3 DEF QuietTotals, TotalsAreRight

-----------------------------------------------------------------------------
(* What was announced, listed and counted. *)

\* A report that announces event e for user u.
Announces(i, u, e) == i.id = u /\ i.type = "new" /\ i.event = e

\* The announcements that a handler has yet to work through.
Coming(h, i, item) ==
    /\ at[h] \notin Resetting /\ i \in DOMAIN todo[h] /\ todo[h][i] = item
    /\ item.type = "new"

Listed(k)   == userEvents[k].unAckEvents
Counted(k)  == userEvents[k].totalAckEvents
Settled(u)  == acked \cap Announced(u)
Counting(h) == at[h] \in {"counting", "storing"}

\* An event that is still to be listed is listed nowhere, and comes once.
ComingInv ==
    \A h \in Handlers : \A i \in Nat \ {0} : \A item \in Items : Coming(h, i, item) =>
        /\ item.event \in Announced(item.id)
        /\ \A k \in 1 .. Len(userEvents) : item.event \notin Listed(k)
        /\ \A g \in Handlers : \A j \in Nat \ {0} : \A other \in Items :
              Coming(g, j, other) /\ other.event = item.event => g = h /\ j = i

\* An event of a user without overlapping requests that was counted was announced,
\* and is neither listed nor still to be listed.
AckedInv ==
    \A u \in Users \ overlapped : \A e \in acked :
        (\E i \in Items : Announces(i, u, e)) =>
            /\ e \in Announced(u)
            /\ \A k \in 1 .. Len(userEvents) : e \notin Listed(k)
            /\ \A h \in Handlers : \A i \in Nat \ {0} : \A item \in Items :
                  Coming(h, i, item) => item.event # e

\* Each row was made for a user, for whom alone it is written and read.
OwnInv(own) ==
    /\ \A u \in Users : mapUserData[u] # 0 => own[mapUserData[u]] = u
    /\ \A h \in Handlers : Holding(h) => own[userEvent[h]] = Item(h).id

ReadInv(own) ==
    \A q \in Asks :
        /\ \A u \in ask[q].reading : own[ask[q].rows[u].row] = u
        /\ \A k \in DOMAIN ask[q].held : own[ask[q].held[k].row] = ask[q].held[k].user

\* A row lists what was announced for its user, and no event is in two rows.
ListInv(own) ==
    /\ \A k \in 1 .. Len(userEvents) : Listed(k) \subseteq Announced(own[k])
    /\ \A j, k \in 1 .. Len(userEvents) : j # k => Listed(j) \cap Listed(k) = {}

\* No row counts more than was settled for its user, what is being counted included.
CountInv(own) ==
    \A k \in 1 .. Len(userEvents) : own[k] \notin overlapped =>
        /\ Counted(k) <= Cardinality(Settled(own[k]))
        /\ \A h \in Handlers : Counting(h) /\ userEvent[h] = k =>
              Counted(k) + 1 <= Cardinality(Settled(own[k]))

RowsInv == \E own \in [1 .. Len(userEvents) -> Users] :
              OwnInv(own) /\ ReadInv(own) /\ ListInv(own) /\ CountInv(own)

\* Only finitely many events have been announced.
AnnouncedInv == \A u \in Users : IsFiniteSet(Announced(u))

\* What the page shows, or is about to show, is no more than was announced.
Sum(u, row) == row.ack + row.unack <= Cardinality(Announced(u))
Between(q, u) == ask[q].stage = "read2" /\ u \in ask[q].reading
SumsInv ==
    \A u \in Users \ overlapped :
        /\ Sum(u, rows[u])
        /\ \A q \in Asks : /\ Between(q, u) => ask[q].rows[u].ack <= Cardinality(Settled(u))
                           /\ ~Between(q, u) => Sum(u, ask[q].rows[u])

\* A list that is read holds nothing that was counted before the click.
StaleInv ==
    \A q \in Asks :
        /\ ask[q].acked \subseteq acked
        /\ ask[q].events \cap ask[q].acked \subseteq UNION {Announced(u) : u \in overlapped}

LedgerInv == ComingInv /\ AckedInv /\ AnnouncedInv /\ RowsInv
CountsInv == LedgerInv /\ SumsInv /\ StaleInv

-----------------------------------------------------------------------------
(* Announcements. *)

News(b, u) == {b[k].event : k \in {j \in DOMAIN b : b[j].id = u /\ b[j].type = "new"}}
NewsOf(S, u) == UNION {News(b, u) : b \in S}

LEMMA AnnouncedIsNews ==
    /\ \A u : Announced(u) = NewsOf(Batches \ pending, u)
    /\ \A u : Announced(u)' = NewsOf(Batches \ pending', u)
  BY DEF Announced, NewsOf, News

LEMMA NewsFacts ==
    ASSUME NEW b \in Batches, NEW u
    PROVE  /\ b \in Seq(Items) /\ Len(b) \in Nat /\ DOMAIN b = 1 .. Len(b) /\ IsFiniteSet(News(b, u))
           /\ \A e : e \in News(b, u) <=> \E k \in DOMAIN b : Announces(b[k], u, e)
  <1>1. b \in Seq(Items)
    BY StatisticsAssumption DEF StatisticsAssumption
  <1>2. Len(b) \in Nat /\ DOMAIN b = 1 .. Len(b)
    BY <1>1, LenProperties
  <1>3. PICK K : K = {j \in DOMAIN b : b[j].id = u /\ b[j].type = "new"}
    OBVIOUS
  <1>4. IsFiniteSet(1 .. Len(b))
    BY <1>2, FS_Interval
  <1>5. K \in SUBSET (1 .. Len(b))
    BY <1>2, <1>3
  <1>6. IsFiniteSet(K)
    BY <1>4, <1>5, FS_Subset
  <1>7. PICK f : f = [k \in K |-> b[k].event]
    OBVIOUS
  <1>8. f \in Surjection(K, News(b, u))
    BY <1>3, <1>7 DEF News, Surjection
  <1>9. IsFiniteSet(News(b, u))
    BY <1>6, <1>8, FS_Surjection
  <1>10. \A e : e \in News(b, u) <=> \E k \in DOMAIN b : Announces(b[k], u, e)
    BY DEF News, Announces
  <1> QED
    BY <1>1, <1>2, <1>9, <1>10

\* An event is announced once, for one user.
LEMMA OneNews ==
    ASSUME NEW b \in Batches, NEW c \in Batches, NEW j \in DOMAIN b, NEW k \in DOMAIN c,
           b[j].type = "new", c[k].type = "new", b[j].event = c[k].event
    PROVE  b = c /\ j = k
  BY EventsAssumption DEF EventsAssumption

LEMMA NewsMember ==
    ASSUME NEW S \in SUBSET Batches, NEW u, NEW e
    PROVE  e \in NewsOf(S, u) <=> \E b \in S : \E k \in DOMAIN b : Announces(b[k], u, e)
  <1>1. e \in NewsOf(S, u) <=> \E b \in S : e \in News(b, u)
    BY DEF NewsOf
  <1> QED
    BY <1>1, NewsFacts

\* What is announced was announced by a report.
LEMMA NewsItem ==
    ASSUME NEW S \in SUBSET Batches, NEW u, NEW e \in NewsOf(S, u)
    PROVE  \E i \in Items : Announces(i, u, e)
  <1>1. PICK b \in S : \E k \in DOMAIN b : Announces(b[k], u, e)
    BY NewsMember
  <1>2. PICK k \in DOMAIN b : Announces(b[k], u, e)
    BY <1>1
  <1>3. b[k] \in Items
    BY DEF Items
  <1> QED
    BY <1>2, <1>3

-----------------------------------------------------------------------------
(* What a handler does to the rows. *)

\* The row that h holds becomes row; the others stay.
Writes(h, row) ==
    /\ Holding(h) /\ userEvent[h] \in 1 .. Len(userEvents)
    /\ RowBecomes(userEvent[h], row) /\ UNCHANGED <<mapUserData, userEvent, pending>>

LEMMA WriteFacts ==
    ASSUME Types, NEW h \in Handlers, Holding(h),
           NEW row \in UserEvent, userEvents' = [userEvents EXCEPT ![userEvent[h]] = row],
           UNCHANGED <<mapUserData, userEvent, pending>>
    PROVE  Writes(h, row)
  <1>1. userEvent[h] \in 1 .. Len(userEvents) /\ userEvents \in Seq(UserEvent)
    BY HandlerFacts DEF Types, StatisticsTypeOK
  <1>2. RowBecomes(userEvent[h], row)
    BY <1>1, RowFacts
  <1> QED
    BY <1>1, <1>2 DEF Writes

LEMMA AddNewEventFacts ==
    ASSUME Types, NEW h \in Handlers, AddNewEvent(h)
    PROVE  /\ Item(h) \in Items /\ Item(h).type = "new" /\ Coming(h, 1, Item(h))
           /\ at[h] = "updating" /\ at'[h] = "lookup" /\ todo'[h] = Tail(todo[h])
           /\ \E row \in UserEvent : /\ Writes(h, row)
                                     /\ row.unAckEvents \subseteq Row(h).unAckEvents \cup {Item(h).event}
                                     /\ row.totalAckEvents = Row(h).totalAckEvents
  <1>1. Holding(h) /\ Item(h).type = "new" /\ at[h] = "updating" /\ at[h] \notin Resetting
    BY DEF AddNewEvent, Holding, Updating, Resetting
  <1>2. Row(h) \in UserEvent /\ Item(h) \in Items
    BY <1>1, HandlerFacts DEF Holding
  <1>3. PICK l \in Outcomes(h, Row(h).unAckEvents \cup {Item(h).event}) :
          userEvents' = [userEvents EXCEPT ![userEvent[h]].unAckEvents = l]
    BY DEF AddNewEvent
  <1>4. l \subseteq Row(h).unAckEvents \cup {Item(h).event}
    BY DEF Outcomes
  <1>5. l \in SUBSET Events
    BY <1>1, <1>2, <1>4, ItemFacts, FieldFacts
  <1>6. PICK row : row = [Row(h) EXCEPT !.unAckEvents = l]
    OBVIOUS
  <1>7. row \in UserEvent /\ row.unAckEvents = l /\ row.totalAckEvents = Row(h).totalAckEvents
    BY <1>2, <1>5, <1>6, FieldFacts DEF UserEvent
  <1>8. /\ userEvents' = [userEvents EXCEPT ![userEvent[h]] = row]
        /\ UNCHANGED <<mapUserData, userEvent, pending>>
    BY <1>3, <1>6 DEF AddNewEvent, Row
  <1>9. Writes(h, row)
    BY <1>1, <1>7, <1>8, WriteFacts
  <1>10. at'[h] = "lookup" /\ todo'[h] = Tail(todo[h])
    BY DEF AddNewEvent, NextItem, Types, StatisticsTypeOK, TodoOK
  <1>11. todo[h] \in Seq(Items) /\ todo[h] # <<>>
    BY <1>1, PlaceFacts DEF Types, TodoOK
  <1>12. 1 \in DOMAIN todo[h] /\ Item(h) = todo[h][1]
    BY <1>11, RestFacts DEF Item
  <1>13. Coming(h, 1, Item(h))
    BY <1>1, <1>12 DEF Coming
  <1> QED
    BY <1>1, <1>2, <1>4, <1>7, <1>9, <1>10, <1>13

LEMMA AckEventFacts ==
    ASSUME Types, NEW h \in Handlers, AckEvent(h)
    PROVE  /\ Item(h) \in Items /\ Item(h).type = "ack" /\ at[h] = "updating"
           /\ \/ at'[h] = "counting" /\ todo'[h] = todo[h]
              \/ at'[h] = "lookup" /\ todo'[h] = Tail(todo[h])
           /\ ~torn[h] /\ at'[h] = "counting" => Item(h).event \in Row(h).unAckEvents
           /\ \E row \in UserEvent : /\ Writes(h, row)
                                     /\ row.unAckEvents \subseteq Row(h).unAckEvents
                                     /\ ~torn[h] => Item(h).event \notin row.unAckEvents
                                     /\ row.totalAckEvents = Row(h).totalAckEvents
  <1>1. Holding(h) /\ Item(h).type = "ack" /\ at[h] = "updating"
    BY DEF AckEvent, Holding, Updating
  <1>2. Row(h) \in UserEvent /\ Item(h) \in Items
    BY <1>1, HandlerFacts DEF Holding
  <1>3. PICK l \in Outcomes(h, Row(h).unAckEvents \ {Item(h).event}) :
          userEvents' = [userEvents EXCEPT ![userEvent[h]].unAckEvents = l]
    BY DEF AckEvent
  <1>4. l \subseteq Row(h).unAckEvents /\ (~torn[h] => Item(h).event \notin l)
    BY DEF Outcomes
  <1>5. l \in SUBSET Events
    BY <1>2, <1>4, FieldFacts
  <1>6. PICK row : row = [Row(h) EXCEPT !.unAckEvents = l]
    OBVIOUS
  <1>7. row \in UserEvent /\ row.unAckEvents = l /\ row.totalAckEvents = Row(h).totalAckEvents
    BY <1>2, <1>5, <1>6, FieldFacts DEF UserEvent
  <1>8. /\ userEvents' = [userEvents EXCEPT ![userEvent[h]] = row]
        /\ UNCHANGED <<mapUserData, userEvent, pending>>
    BY <1>3, <1>6 DEF AckEvent, Row
  <1>9. Writes(h, row)
    BY <1>1, <1>7, <1>8, WriteFacts
  <1>10. PICK found \in IF torn[h] THEN BOOLEAN ELSE {Item(h).event \in Row(h).unAckEvents} :
            IF found THEN /\ at' = [at EXCEPT ![h] = "counting"]
                          /\ UNCHANGED todo
                     ELSE NextItem(h)
    BY DEF AckEvent
  <1>11. at \in [Handlers -> HandlerState] /\ DOMAIN todo = Handlers
    BY DEF Types, StatisticsTypeOK, TodoOK
  <1>12. CASE found
    <2>1. at'[h] = "counting" /\ todo'[h] = todo[h]
      BY <1>10, <1>11, <1>12
    <2>2. ~torn[h] => Item(h).event \in Row(h).unAckEvents
      BY <1>10, <1>12
    <2> QED
      BY <1>1, <1>2, <1>4, <1>7, <1>9, <2>1, <2>2
  <1>13. CASE ~found
    <2>1. at'[h] = "lookup" /\ todo'[h] = Tail(todo[h])
      BY <1>10, <1>11, <1>13 DEF NextItem
    <2> QED
      BY <1>1, <1>2, <1>4, <1>7, <1>9, <2>1
  <1> QED
    BY <1>12, <1>13

LEMMA StoreCountFacts ==
    ASSUME Types, NEW h \in Handlers, StoreCount(h)
    PROVE  /\ Item(h) \in Items /\ at[h] = "storing" /\ at'[h] = "lookup" /\ todo'[h] = Tail(todo[h])
           /\ \E row \in UserEvent : /\ Writes(h, row) /\ row.unAckEvents = Row(h).unAckEvents
                                     /\ row.totalAckEvents = count[h] + 1
  <1>1. Holding(h) /\ at[h] = "storing"
    BY DEF StoreCount, Holding, Updating
  <1>2. Row(h) \in UserEvent /\ count[h] + 1 \in Nat /\ Item(h) \in Items
    BY <1>1, HandlerFacts DEF Holding, Types, StatisticsTypeOK
  <1>3. PICK row : row = [Row(h) EXCEPT !.totalAckEvents = count[h] + 1]
    OBVIOUS
  <1>4. /\ row \in UserEvent /\ row.unAckEvents = Row(h).unAckEvents
        /\ row.totalAckEvents = count[h] + 1
    BY <1>2, <1>3, FieldFacts DEF UserEvent
  <1>5. /\ userEvents' = [userEvents EXCEPT ![userEvent[h]] = row]
        /\ UNCHANGED <<mapUserData, userEvent, pending>>
    BY <1>3 DEF StoreCount, Row
  <1>6. Writes(h, row)
    BY <1>1, <1>4, <1>5, WriteFacts
  <1>7. at'[h] = "lookup" /\ todo'[h] = Tail(todo[h])
    BY DEF StoreCount, NextItem, Types, StatisticsTypeOK, TodoOK
  <1> QED
    BY <1>1, <1>2, <1>4, <1>6, <1>7

\* The steps that leave lists and counts alone.
Quiet(h) == Step(h) /\ ~AddNewEvent(h) /\ ~AckEvent(h) /\ ~StoreCount(h)

LEMMA SetListenerFacts ==
    ASSUME Types, NEW h \in Handlers, SetListenerStatus(h)
    PROVE  \E row \in UserEvent : /\ Writes(h, row) /\ row.unAckEvents = Row(h).unAckEvents
                                  /\ row.totalAckEvents = Row(h).totalAckEvents
  <1>1. Holding(h) /\ Item(h).type = "ListenerStatus"
    BY DEF SetListenerStatus, Holding, Updating
  <1>2. Row(h) \in UserEvent /\ Item(h) \in Items
    BY <1>1, HandlerFacts DEF Holding
  <1>3. Item(h).event \in {"true", "false"}
    BY <1>1, <1>2, ItemFacts
  <1>4. PICK row : row = [Row(h) EXCEPT !.isListening = Item(h).event]
    OBVIOUS
  <1>5. /\ row \in UserEvent /\ row.unAckEvents = Row(h).unAckEvents
        /\ row.totalAckEvents = Row(h).totalAckEvents
    BY <1>2, <1>3, <1>4, FieldFacts DEF UserEvent
  <1>6. /\ userEvents' = [userEvents EXCEPT ![userEvent[h]] = row]
        /\ UNCHANGED <<mapUserData, userEvent, pending>>
    BY <1>4 DEF SetListenerStatus, Row
  <1> QED
    BY <1>1, <1>5, <1>6, WriteFacts

SameRow(k) == Listed(k)' = Listed(k) /\ Counted(k)' = Counted(k)

\* A row is added, for u, whom the handler that may hold it is at.
NewRow(h, u) ==
    /\ Len(userEvents') = Len(userEvents) + 1 /\ userEvents'[Len(userEvents) + 1] = NewUserEvent
    /\ mapUserData'[u] = Len(userEvents) + 1
    /\ \A v \in Users : v # u => mapUserData'[v] = mapUserData[v]
    /\ Holding(h)' => userEvent'[h] = Len(userEvents) + 1 /\ Item(h)'.id = u

\* No row is added, and a handler holds the row that it held or has looked up.
NoNewRow(h) ==
    /\ Len(userEvents') = Len(userEvents)
    /\ \A u \in Users : mapUserData'[u] \in {mapUserData[u], 0}
    /\ Holding(h)' => /\ Item(h)' = Item(h)
                      /\ \/ Holding(h) /\ userEvent'[h] = userEvent[h]
                         \/ /\ Item(h).id \in Users /\ mapUserData[Item(h).id] # 0
                            /\ userEvent'[h] = mapUserData[Item(h).id]

LEMMA WritesNoNewRow ==
    ASSUME NEW h \in Handlers, NEW row, Writes(h, row), Holding(h)' => todo'[h] = todo[h]
    PROVE  NoNewRow(h)
  BY DEF Writes, RowBecomes, NoNewRow, Item

LEMMA StepRows ==
    ASSUME Types, NEW h \in Handlers, Step(h)
    PROVE  NoNewRow(h) \/ \E u \in Users : NewRow(h, u)
  <1>1. /\ at \in [Handlers -> HandlerState] /\ userEvent \in [Handlers -> 0 .. Len(userEvents)]
        /\ todo \in [Handlers -> Seq(Users) \cup Seq(Items)]
    BY DEF Types, StatisticsTypeOK, TodoOK
  <1>2. CASE Lookup(h)
    <2>1. /\ userEvent'[h] = mapUserData[Item(h).id] /\ todo'[h] = todo[h]
          /\ at'[h] = IF mapUserData[Item(h).id] = 0 THEN "create" ELSE "update"
          /\ at[h] = "lookup" /\ todo[h] # <<>>
      BY <1>1, <1>2 DEF Lookup
    <2>2. Item(h).id \in Users
      BY <2>1, HandlerFacts, ItemFacts, PlaceFacts
    <2>3. UNCHANGED <<userEvents, mapUserData>>
      BY <1>2 DEF Lookup, table
    <2> QED
      BY <2>1, <2>2, <2>3 DEF NoNewRow, Item, Holding
  <1>3. CASE Create(h)
    <2>1. AddRow(h, Item(h).id) /\ at[h] = "create"
      BY <1>3 DEF Create
    <2>2. PICK u \in Users : u = Item(h).id
      BY <2>1, HandlerFacts, PlaceFacts
    <2>3. userEvent'[h] = Len(userEvents) + 1 /\ todo'[h] = todo[h]
      BY <1>1, <1>3 DEF Create
    <2>4. Item(h)'.id = u
      BY <2>2, <2>3 DEF Item
    <2>5. /\ mapUserData'[u] = Len(userEvents) + 1
          /\ \A v \in Users : v # u => mapUserData'[v] = mapUserData[v]
      BY <2>1, <2>2 DEF AddRow, Types, StatisticsTypeOK
    <2>6. Len(userEvents') = Len(userEvents) + 1 /\ userEvents'[Len(userEvents) + 1] = NewUserEvent
      BY <2>1, NewRowFacts DEF AddRow, Types, StatisticsTypeOK
    <2> QED
      BY <2>3, <2>4, <2>5, <2>6 DEF NewRow
  <1>4. CASE RegisterUser(h)
    <2>1. AddRow(h, Head(todo[h])) /\ Head(todo[h]) \in Users /\ ~Holding(h)'
      BY <1>4, RestFacts DEF RegisterUser, Types, TodoOK, Holding, Updating, Resetting
    <2>2. PICK u \in Users : u = Head(todo[h])
      BY <2>1
    <2>3. /\ mapUserData'[u] = Len(userEvents) + 1
          /\ \A v \in Users : v # u => mapUserData'[v] = mapUserData[v]
      BY <2>1, <2>2 DEF AddRow, Types, StatisticsTypeOK
    <2>4. Len(userEvents') = Len(userEvents) + 1 /\ userEvents'[Len(userEvents) + 1] = NewUserEvent
      BY <2>1, NewRowFacts DEF AddRow, Types, StatisticsTypeOK
    <2> QED
      BY <2>1, <2>3, <2>4 DEF NewRow
  <1>5. CASE SetListenerStatus(h) \/ AddNewEvent(h) \/ AckEvent(h) \/ StoreCount(h)
    <2>1. PICK row : Writes(h, row)
      BY <1>5, SetListenerFacts, AddNewEventFacts, AckEventFacts, StoreCountFacts
    <2>2. at'[h] = "lookup" \/ todo'[h] = todo[h]
      BY <1>1, <1>5, AckEventFacts
         DEF SetListenerStatus, AddNewEvent, StoreCount, NextItem
    <2>3. Holding(h)' => todo'[h] = todo[h]
      BY <2>2 DEF Holding, Updating
    <2> QED
      BY <2>1, <2>3, WritesNoNewRow
  <1>6. CASE BeginUpdate(h) \/ ReadCount(h)
    <2>1. /\ UNCHANGED <<userEvents, mapUserData>> /\ todo'[h] = todo[h]
          /\ userEvent'[h] = userEvent[h] /\ Holding(h)
      BY <1>6 DEF BeginUpdate, ReadCount, table, Holding, Updating
    <2> QED
      BY <2>1 DEF NoNewRow, Item
  <1>7. CASE Throw(h) \/ Answer(h)
    <2>1. UNCHANGED <<userEvents, mapUserData>> /\ ~Holding(h)'
      BY <1>1, <1>7 DEF Throw, Answer, table, Holding, Updating
    <2> QED
      BY <2>1 DEF NoNewRow
  <1>8. ASSUME NEW u \in Users, ClearRow(h, u)
        PROVE  NoNewRow(h)
    <2>1. UNCHANGED userEvents /\ ~Holding(h)'
      BY <1>1, <1>8 DEF ClearRow, Holding, Updating
    <2>2. \A v \in Users : mapUserData'[v] \in {mapUserData[v], 0}
      BY <1>8 DEF ClearRow, Types, StatisticsTypeOK
    <2> QED
      BY <2>1, <2>2 DEF NoNewRow
  <1> QED
    BY <1>2, <1>3, <1>4, <1>5, <1>6, <1>7, <1>8 DEF Step

LEMMA QuietFacts ==
    ASSUME Types, NEW h \in Handlers, Quiet(h)
    PROVE  /\ \A k \in 1 .. Len(userEvents) : SameRow(k)
           /\ UNCHANGED pending
           /\ Counting(h)' => Counting(h) /\ userEvent'[h] = userEvent[h]
           /\ ~(at[h] = "updating" /\ at'[h] = "counting")
  <1>1. at \in [Handlers -> HandlerState] /\ userEvents \in Seq(UserEvent)
    BY DEF Types, StatisticsTypeOK
  <1>2. CASE Lookup(h) \/ BeginUpdate(h) \/ Throw(h) \/ Answer(h)
    <2>1. UNCHANGED <<userEvents, pending>> /\ ~Counting(h)' /\ at'[h] # "counting"
      BY <1>1, <1>2 DEF Lookup, BeginUpdate, Throw, Answer, table, Counting
    <2> QED
      BY <2>1 DEF SameRow, Listed, Counted
  <1>3. CASE ReadCount(h)
    <2>1. /\ UNCHANGED <<userEvents, pending, userEvent>> /\ at[h] = "counting"
      BY <1>1, <1>3 DEF ReadCount, table
    <2> QED
      BY <2>1 DEF SameRow, Listed, Counted, Counting
  <1>4. ASSUME NEW u \in Users, ClearRow(h, u)
        PROVE  /\ UNCHANGED <<userEvents, pending>> /\ ~Counting(h)' /\ at'[h] # "counting"
    BY <1>1, <1>4 DEF ClearRow, Counting
  <1>5. CASE \E u \in Users : ClearRow(h, u)
    <2>1. UNCHANGED <<userEvents, pending>> /\ ~Counting(h)' /\ at'[h] # "counting"
      BY <1>4, <1>5
    <2> QED
      BY <2>1 DEF SameRow, Listed, Counted
  <1>6. CASE Create(h) \/ RegisterUser(h)
    <2>1. /\ userEvents' = Append(userEvents, NewUserEvent) /\ UNCHANGED pending
          /\ ~Counting(h)' /\ at'[h] # "counting"
      BY <1>1, <1>6 DEF Create, RegisterUser, AddRow, Counting
    <2>2. \A k \in 1 .. Len(userEvents) : userEvents'[k] = userEvents[k]
      BY <1>1, <2>1, NewRowFacts
    <2> QED
      BY <2>1, <2>2 DEF SameRow, Listed, Counted
  <1>7. CASE SetListenerStatus(h)
    <2>1. PICK row \in UserEvent : /\ Writes(h, row) /\ row.unAckEvents = Row(h).unAckEvents
                                   /\ row.totalAckEvents = Row(h).totalAckEvents
      BY <1>7, SetListenerFacts
    <2>2. at'[h] = "lookup" /\ UNCHANGED pending
      BY <1>1, <1>7 DEF SetListenerStatus, NextItem
    <2> QED
      BY <2>1, <2>2 DEF SameRow, Listed, Counted, Counting, Writes, RowBecomes, Row
  <1> QED
    BY <1>2, <1>3, <1>5, <1>6, <1>7 DEF Quiet, Step

\* The reports that h has yet to work through become fewer, from the front.
Fewer(h, d) ==
    \A i \in Nat \ {0} : \A item \in Items :
        Coming(h, i, item)' => i + d \in Nat \ {0} /\ Coming(h, i + d, item)

LEMMA FewerFacts ==
    ASSUME Types, NEW h \in Handlers
    PROVE  /\ todo'[h] = todo[h] /\ (at'[h] \notin Resetting => at[h] \notin Resetting) => Fewer(h, 0)
           /\ todo'[h] = <<>> => Fewer(h, 1)
           /\ todo'[h] = Tail(todo[h]) /\ at[h] \in Updating => Fewer(h, 1)
  <1>1. todo'[h] = todo[h] /\ (at'[h] \notin Resetting => at[h] \notin Resetting) => Fewer(h, 0)
    BY DEF Fewer, Coming
  <1>2. todo'[h] = <<>> => Fewer(h, 1)
    BY EmptySeq DEF Fewer, Coming
  <1>3. ASSUME todo'[h] = Tail(todo[h]), at[h] \in Updating
        PROVE  Fewer(h, 1)
    <2>1. todo[h] \in Seq(Items) /\ todo[h] # <<>> /\ at[h] \notin Resetting
      BY <1>3 DEF Types, TodoOK, Updating, Resetting
    <2>2. \A k \in DOMAIN Tail(todo[h]) : k + 1 \in DOMAIN todo[h] /\ Tail(todo[h])[k] = todo[h][k + 1]
      BY <2>1, RestFacts
    <2> QED
      BY <1>3, <2>1, <2>2 DEF Fewer, Coming
  <1> QED
    BY <1>1, <1>2, <1>3

LEMMA StepFewer ==
    ASSUME Types, NEW h \in Handlers, Step(h)
    PROVE  /\ \E d \in Nat : Fewer(h, d)
           /\ AddNewEvent(h) => Fewer(h, 1)
  <1>1. at \in [Handlers -> HandlerState] /\ DOMAIN todo = Handlers
    BY DEF Types, StatisticsTypeOK, TodoOK
  <1>2. CASE Lookup(h) \/ Create(h) \/ BeginUpdate(h) \/ ReadCount(h)
    <2>1. todo'[h] = todo[h] /\ at[h] \notin Resetting /\ at[h] # "updating"
      BY <1>2 DEF Lookup, Create, BeginUpdate, ReadCount, Resetting
    <2> QED
      BY <2>1, FewerFacts DEF AddNewEvent
  <1>3. CASE SetListenerStatus(h) \/ AddNewEvent(h) \/ StoreCount(h)
    <2>1. todo'[h] = Tail(todo[h]) /\ at[h] \in Updating
      BY <1>1, <1>3 DEF SetListenerStatus, AddNewEvent, StoreCount, NextItem, Updating
    <2> QED
      BY <2>1, FewerFacts
  <1>4. CASE AckEvent(h)
    <2>1. /\ at[h] \in Updating /\ at[h] \notin Resetting /\ ~AddNewEvent(h)
          /\ todo'[h] = todo[h] \/ todo'[h] = Tail(todo[h])
      BY <1>4, AckEventFacts DEF Updating, Resetting, AckEvent, AddNewEvent
    <2> QED
      BY <2>1, FewerFacts
  <1>5. CASE Throw(h) \/ Answer(h)
    <2>1. todo'[h] = <<>>
      BY <1>1, <1>5 DEF Throw, Answer
    <2> QED
      BY <2>1, FewerFacts
  <1>6. ASSUME at[h] \in Resetting, at'[h] \in Resetting
        PROVE  Fewer(h, 0) /\ ~AddNewEvent(h)
    BY <1>6 DEF Fewer, Coming, Resetting, AddNewEvent
  <1>7. CASE RegisterUser(h)
    BY <1>6, <1>7 DEF RegisterUser, Resetting
  <1>8. ASSUME NEW u \in Users, ClearRow(h, u)
        PROVE  at[h] \in Resetting /\ at'[h] \in Resetting
    BY <1>1, <1>8 DEF ClearRow, Resetting
  <1> QED
    BY <1>2, <1>3, <1>4, <1>5, <1>6, <1>7, <1>8 DEF Step

-----------------------------------------------------------------------------
(* Counts, lists and rows when a handler takes a step. *)

LEMMA SettledGrows ==
    ASSUME NEW u, IsFiniteSet(Announced(u)'), acked \subseteq acked', Announced(u) \subseteq Announced(u)'
    PROVE  /\ Cardinality(Settled(u)) \in Nat /\ Cardinality(Settled(u)') \in Nat
           /\ Cardinality(Settled(u)) <= Cardinality(Settled(u)')
           /\ Cardinality(Announced(u)) \in Nat /\ Cardinality(Announced(u)') \in Nat
           /\ Cardinality(Announced(u)) <= Cardinality(Announced(u)')
  <1>1. PICK S : S = Settled(u)
    OBVIOUS
  <1>2. PICK T : T = Settled(u)'
    OBVIOUS
  <1>3. PICK A : A = Announced(u)
    OBVIOUS
  <1>4. PICK B : B = Announced(u)'
    OBVIOUS
  <1>5. S \in SUBSET T /\ T \in SUBSET B /\ A \in SUBSET B /\ IsFiniteSet(B)
    BY <1>1, <1>2, <1>3, <1>4 DEF Settled
  <1>6. IsFiniteSet(T) /\ IsFiniteSet(A) /\ Cardinality(A) <= Cardinality(B)
    BY <1>5, FS_Subset
  <1>7. IsFiniteSet(S) /\ Cardinality(S) <= Cardinality(T)
    BY <1>5, <1>6, FS_Subset
  <1>8. /\ Cardinality(S) \in Nat /\ Cardinality(T) \in Nat
        /\ Cardinality(A) \in Nat /\ Cardinality(B) \in Nat
    BY <1>5, <1>6, <1>7, FS_CardinalityType
  <1> QED
    BY <1>1, <1>2, <1>3, <1>4, <1>6, <1>7, <1>8

LEMMA ShiftFacts ==
    ASSUME NEW h \in Handlers, OthersStay(h), NEW n \in Nat, Fewer(h, n)
    PROVE  \E d \in [Handlers -> Nat] : d[h] = n /\ \A g \in Handlers : Fewer(g, d[g])
  <1>1. PICK d : d = [g \in Handlers |-> IF g = h THEN n ELSE 0]
    OBVIOUS
  <1>2. d \in [Handlers -> Nat] /\ d[h] = n /\ \A g \in Handlers : g # h => d[g] = 0
    BY <1>1
  <1>3. \A g \in Handlers : g # h => Fewer(g, 0)
    BY DEF OthersStay, Fewer, Coming
  <1> QED
    BY <1>2, <1>3

\* Where an event is listed that is listed after a step.
ListedBefore(e) == \E k \in 1 .. Len(userEvents) : e \in Listed(k)
ListedAfter(e)  == \E k \in 1 .. Len(userEvents') : e \in Listed(k)'

LEMMA ComingKept ==
    ASSUME ComingInv, NEW d \in [Handlers -> Nat], \A g \in Handlers : Fewer(g, d[g]),
           \A u : Announced(u) \subseteq Announced(u)',
           \A g \in Handlers : \A i \in Nat \ {0} : \A item \in Items :
              Coming(g, i, item)' /\ ListedAfter(item.event) => ListedBefore(item.event)
    PROVE  ComingInv'
  <1> SUFFICES ASSUME NEW h \in Handlers, NEW i \in Nat \ {0}, NEW item \in Items, Coming(h, i, item)'
               PROVE  /\ item.event \in Announced(item.id)'
                      /\ \A k \in 1 .. Len(userEvents') : item.event \notin Listed(k)'
                      /\ \A g \in Handlers : \A j \in Nat \ {0} : \A other \in Items :
                            Coming(g, j, other)' /\ other.event = item.event => g = h /\ j = i
    BY DEF ComingInv
  <1>1. i + d[h] \in Nat \ {0} /\ Coming(h, i + d[h], item)
    BY DEF Fewer
  <1>2. /\ item.event \in Announced(item.id) /\ ~ListedBefore(item.event)
        /\ \A g \in Handlers : \A j \in Nat \ {0} : \A other \in Items :
              Coming(g, j, other) /\ other.event = item.event => g = h /\ j = i + d[h]
    BY <1>1 DEF ComingInv, ListedBefore
  <1>3. \A k \in 1 .. Len(userEvents') : item.event \notin Listed(k)'
    BY <1>2 DEF ListedAfter
  <1>4. ASSUME NEW g \in Handlers, NEW j \in Nat \ {0}, NEW other \in Items,
               Coming(g, j, other)', other.event = item.event
        PROVE  g = h /\ j = i
    <2>1. j + d[g] \in Nat \ {0} /\ Coming(g, j + d[g], other)
      BY <1>4 DEF Fewer
    <2>2. g = h /\ j + d[g] = i + d[h]
      BY <1>2, <1>4, <2>1
    <2>3. d[h] \in Nat
      OBVIOUS
    <2> QED
      BY <2>2, <2>3
  <1> QED
    BY <1>2, <1>3, <1>4

LEMMA AckedKept ==
    ASSUME AckedInv, NEW d \in [Handlers -> Nat], \A g \in Handlers : Fewer(g, d[g]),
           \A u : Announced(u) \subseteq Announced(u)', UNCHANGED <<overlapped, acked>>,
           \A e \in acked : ListedAfter(e) => \/ ListedBefore(e)
                                              \/ \E h \in Handlers : \E i \in Nat \ {0} : \E item \in Items :
                                                    Coming(h, i, item) /\ item.event = e
    PROVE  AckedInv'
  <1> SUFFICES ASSUME NEW u \in Users \ overlapped, NEW e \in acked, \E i \in Items : Announces(i, u, e)
               PROVE  /\ e \in Announced(u)'
                      /\ \A k \in 1 .. Len(userEvents') : e \notin Listed(k)'
                      /\ \A h \in Handlers : \A i \in Nat \ {0} : \A item \in Items :
                            Coming(h, i, item)' => item.event # e
    BY DEF AckedInv, Announces
  <1>1. /\ e \in Announced(u) /\ ~ListedBefore(e)
        /\ \A h \in Handlers : \A i \in Nat \ {0} : \A item \in Items :
              Coming(h, i, item) => item.event # e
    BY DEF AckedInv, ListedBefore
  <1>2. \A k \in 1 .. Len(userEvents') : e \notin Listed(k)'
    BY <1>1 DEF ListedAfter
  <1>3. \A h \in Handlers : \A i \in Nat \ {0} : \A item \in Items :
           Coming(h, i, item)' => item.event # e
    BY <1>1 DEF Fewer
  <1> QED
    BY <1>1, <1>2, <1>3

\* The users of the rows stay, and a row that is added gets one.
LEMMA StepOwns ==
    ASSUME Types, NEW h \in Handlers, Step(h), NEW own \in [1 .. Len(userEvents) -> Users], OwnInv(own)
    PROVE  /\ Len(userEvents) \in Nat /\ Len(userEvents') \in Nat /\ Len(userEvents) <= Len(userEvents')
           /\ \A k \in 1 .. Len(userEvents') :
                 k \notin 1 .. Len(userEvents) => Listed(k)' = {} /\ Counted(k)' = 0
           /\ \E new \in [1 .. Len(userEvents') -> Users] :
                 OwnInv(new)' /\ \A k \in 1 .. Len(userEvents) : new[k] = own[k]
  <1>1. PICK n \in Nat : n = Len(userEvents)
    BY LenProperties DEF Types, StatisticsTypeOK
  <1>2. /\ \A u \in Users : mapUserData[u] \in 0 .. n
        /\ \A g \in Handlers : userEvent[g] \in 0 .. n /\ (Holding(g) => userEvent[g] \in 1 .. n)
    BY <1>1, HandlerFacts DEF Types, StatisticsTypeOK
  <1>3. OthersStay(h)
    BY OneHandler
  <1>4. \A g \in Handlers \ {h} : Holding(g)' =>
           Holding(g) /\ userEvent'[g] = userEvent[g] /\ Item(g)' = Item(g)
    BY <1>3 DEF OthersStay, Holding, Item
  <1>5. CASE NoNewRow(h)
    <2>1. \A u \in Users : mapUserData'[u] # 0 => own[mapUserData'[u]] = u
      BY <1>5 DEF NoNewRow, OwnInv
    <2>2. Holding(h)' => own[userEvent'[h]] = Item(h)'.id
      BY <1>5 DEF NoNewRow, OwnInv
    <2>3. OwnInv(own)'
      BY <1>4, <2>1, <2>2 DEF OwnInv
    <2>4. Len(userEvents') = n
      BY <1>1, <1>5 DEF NoNewRow
    <2> QED
      BY <1>1, <2>3, <2>4
  <1>6. ASSUME NEW u \in Users, NewRow(h, u)
        PROVE  /\ Len(userEvents') = n + 1 /\ Listed(n + 1)' = {} /\ Counted(n + 1)' = 0
               /\ \E new \in [1 .. n + 1 -> Users] :
                    OwnInv(new)' /\ \A k \in 1 .. n : new[k] = own[k]
    <2>1. PICK new : new = [k \in 1 .. n + 1 |-> IF k = n + 1 THEN u ELSE own[k]]
      OBVIOUS
    <2>2. new[n + 1] = u /\ \A k \in 1 .. n : new[k] = own[k]
      BY <2>1
    <2>3. new \in [1 .. n + 1 -> Users]
      BY <1>1, <2>1
    <2>4. /\ mapUserData'[u] = n + 1 /\ \A v \in Users : v # u => mapUserData'[v] = mapUserData[v]
          /\ Holding(h)' => userEvent'[h] = n + 1 /\ Item(h)'.id = u
      BY <1>1, <1>6 DEF NewRow
    <2>5. ASSUME NEW v \in Users, mapUserData'[v] # 0
          PROVE  new[mapUserData'[v]] = v
      <3>1. CASE v = u
        BY <2>2, <2>4, <3>1
      <3>2. CASE v # u
        <4>1. mapUserData'[v] = mapUserData[v] /\ mapUserData[v] \in 1 .. n
          BY <1>2, <2>4, <2>5, <3>2
        <4>2. own[mapUserData[v]] = v
          BY <2>5, <4>1 DEF OwnInv
        <4> QED
          BY <2>2, <4>1, <4>2
      <3> QED
        BY <3>1, <3>2
    <2>6. ASSUME NEW g \in Handlers, Holding(g)'
          PROVE  new[userEvent'[g]] = Item(g)'.id
      <3>1. CASE g = h
        BY <2>2, <2>4, <2>6, <3>1
      <3>2. CASE g # h
        <4>1. Holding(g) /\ userEvent'[g] = userEvent[g] /\ Item(g)' = Item(g) /\ userEvent[g] \in 1 .. n
          BY <1>2, <1>4, <2>6, <3>2
        <4>2. own[userEvent[g]] = Item(g).id
          BY <4>1 DEF OwnInv
        <4> QED
          BY <2>2, <4>1, <4>2
      <3> QED
        BY <3>1, <3>2
    <2>7. OwnInv(new)'
      BY <2>5, <2>6 DEF OwnInv
    <2>8. Len(userEvents') = n + 1 /\ Listed(n + 1)' = {} /\ Counted(n + 1)' = 0
      BY <1>1, <1>6 DEF NewRow, Listed, Counted, NewUserEvent
    <2> QED
      BY <2>2, <2>3, <2>7, <2>8
  <1>7. CASE ~NoNewRow(h)
    <2>1. PICK u \in Users : NewRow(h, u)
      BY <1>7, StepRows
    <2>2. /\ Len(userEvents') = n + 1 /\ Listed(n + 1)' = {} /\ Counted(n + 1)' = 0
          /\ \E new \in [1 .. n + 1 -> Users] :
                OwnInv(new)' /\ \A k \in 1 .. n : new[k] = own[k]
      BY <1>6, <2>1
    <2>3. \A k \in 1 .. n + 1 : k \notin 1 .. n => k = n + 1
      OBVIOUS
    <2> QED
      BY <1>1, <2>2, <2>3
  <1> QED
    BY <1>5, <1>7

LEMMA AnnouncedSame ==
    ASSUME UNCHANGED pending
    PROVE  \A u : Announced(u)' = Announced(u)
  BY DEF Announced

LEMMA ListShrinks ==
    ASSUME NEW own, ListInv(own), NEW new, \A u : Announced(u)' = Announced(u),
           \A k \in 1 .. Len(userEvents) : new[k] = own[k],
           \A k \in 1 .. Len(userEvents') : \A e \in Listed(k)' : k \in 1 .. Len(userEvents) /\ e \in Listed(k)
    PROVE  ListInv(new)'
  BY DEF ListInv

LEMMA ListGrows ==
    ASSUME NEW own, ListInv(own), NEW new, \A u : Announced(u)' = Announced(u),
           \A k \in 1 .. Len(userEvents) : new[k] = own[k],
           NEW r \in 1 .. Len(userEvents), NEW x \in Announced(own[r]), ~ListedBefore(x),
           \A k \in 1 .. Len(userEvents') : \A e \in Listed(k)' :
              (k \in 1 .. Len(userEvents) /\ e \in Listed(k)) \/ (k = r /\ e = x)
    PROVE  ListInv(new)'
  <1>1. \A k \in 1 .. Len(userEvents') : \A e \in Listed(k)' : e \in Announced(new[k])'
    BY DEF ListInv
  <1>2. \A j, k \in 1 .. Len(userEvents') : \A e : e \in Listed(j)' /\ e \in Listed(k)' => j = k
    BY DEF ListInv, ListedBefore
  <1> QED
    BY <1>1, <1>2 DEF ListInv

\* What is counted of a row stays within what is settled for its user.
LEMMA CountKept ==
    ASSUME NEW own \in [1 .. Len(userEvents) -> Users], CountInv(own), NEW new,
           \A k \in 1 .. Len(userEvents) : new[k] = own[k],
           \A u : Announced(u) \subseteq Announced(u)', \A u \in Users : IsFiniteSet(Announced(u)'),
           new \in [1 .. Len(userEvents') -> Users],
           acked \subseteq acked', overlapped \subseteq overlapped',
           \A k \in 1 .. Len(userEvents) : Counted(k) \in Nat /\ Counted(k)' \in Nat,
           \A k \in 1 .. Len(userEvents') : k \notin 1 .. Len(userEvents) => Counted(k)' = 0,
           \A g \in Handlers : Counting(g)' => userEvent'[g] \in 1 .. Len(userEvents),
           \A k \in 1 .. Len(userEvents) : own[k] \notin overlapped =>
              Counted(k)' <= Counted(k) \/ Counted(k)' <= Cardinality(Settled(own[k])),
           \A k \in 1 .. Len(userEvents) : \A g \in Handlers :
              own[k] \notin overlapped /\ Counting(g)' /\ userEvent'[g] = k =>
                 \/ Counting(g) /\ userEvent[g] = k /\ Counted(k)' = Counted(k)
                 \/ Counted(k)' + 1 <= Cardinality(Settled(own[k])')
    PROVE  CountInv(new)'
  <1> SUFFICES ASSUME NEW k \in 1 .. Len(userEvents'), new[k] \notin overlapped'
               PROVE  /\ Counted(k)' <= Cardinality(Settled(new[k])')
                      /\ \A h \in Handlers : Counting(h)' /\ userEvent'[h] = k =>
                            Counted(k)' + 1 <= Cardinality(Settled(new[k])')
    BY DEF CountInv
  <1>1. PICK u \in Users : u = new[k]
    OBVIOUS
  <1>2. /\ Cardinality(Settled(u)) \in Nat /\ Cardinality(Settled(u)') \in Nat
        /\ Cardinality(Settled(u)) <= Cardinality(Settled(u)')
    BY SettledGrows
  <1>3. CASE k \notin 1 .. Len(userEvents)
    BY <1>1, <1>2, <1>3
  <1>4. CASE k \in 1 .. Len(userEvents)
    <2>1. own[k] = u /\ u \notin overlapped
      BY <1>1, <1>4
    <2>2. Counted(k) <= Cardinality(Settled(u))
      BY <1>4, <2>1 DEF CountInv
    <2>3. Counted(k) \in Nat /\ Counted(k)' \in Nat
      BY <1>4
    <2>4. Counted(k)' <= Counted(k) \/ Counted(k)' <= Cardinality(Settled(u))
      BY <1>4, <2>1
    <2>5. Counted(k)' <= Cardinality(Settled(u)')
      BY <1>2, <2>2, <2>3, <2>4
    <2>6. ASSUME NEW h \in Handlers, Counting(h)', userEvent'[h] = k
          PROVE  Counted(k)' + 1 <= Cardinality(Settled(u)')
      <3>1. \/ Counting(h) /\ userEvent[h] = k /\ Counted(k)' = Counted(k)
            \/ Counted(k)' + 1 <= Cardinality(Settled(u)')
        BY <1>4, <2>1, <2>6
      <3>2. Counting(h) /\ userEvent[h] = k => Counted(k) + 1 <= Cardinality(Settled(u))
        BY <1>4, <2>1 DEF CountInv
      <3> QED
        BY <1>2, <2>3, <3>1, <3>2
    <2> QED
      BY <1>1, <2>5, <2>6
  <1> QED
    BY <1>3, <1>4

\* The requests of the page read what they read.
SameReads(p) ==
    /\ ask'[p].rows = ask[p].rows /\ ask'[p].held = ask[p].held /\ ask'[p].reading = ask[p].reading

LEMMA ReadKept ==
    ASSUME PageInv, NEW own, ReadInv(own), NEW new, \A k \in 1 .. Len(userEvents) : new[k] = own[k],
           Len(userEvents) \in Nat, \A p \in Asks : SameReads(p)
    PROVE  ReadInv(new)'
  <1> SUFFICES ASSUME NEW p \in Asks
               PROVE  /\ \A u \in ask[p].reading : new[ask[p].rows[u].row] = u
                      /\ \A k \in DOMAIN ask[p].held : new[ask[p].held[k].row] = ask[p].held[k].user
    BY DEF ReadInv, SameReads
  <1>1. PICK a \in Ask : a = ask[p]
    BY DEF PageInv, PageTypes
  <1>2. \A u \in a.reading : u \in Users /\ a.rows[u].row \in Nat
    BY DEF Ask, Shown
  <1>3. /\ \A u \in a.reading : a.rows[u].row # 0
        /\ \A u \in Users : a.rows[u].row <= Len(userEvents)
        /\ \A k \in DOMAIN a.held : a.held[k].row \in 1 .. Len(userEvents)
    BY <1>1 DEF PageInv, AskFits
  <1>4. \A u \in a.reading : a.rows[u].row \in 1 .. Len(userEvents)
    BY <1>2, <1>3
  <1>5. /\ \A u \in a.reading : own[a.rows[u].row] = u
        /\ \A k \in DOMAIN a.held : own[a.held[k].row] = a.held[k].user
    BY <1>1 DEF ReadInv
  <1> QED
    BY <1>1, <1>3, <1>4, <1>5

\* What the rows count is a number.
LEMMA CountedTypes ==
    ASSUME Types
    PROVE  \A k \in 1 .. Len(userEvents) : /\ Counted(k) \in Nat /\ userEvents[k] \in UserEvent
  <1>1. userEvents \in Seq(UserEvent)
    BY DEF Types, StatisticsTypeOK
  <1>2. ASSUME NEW k \in 1 .. Len(userEvents)
        PROVE  Counted(k) \in Nat /\ userEvents[k] \in UserEvent
    <2>1. userEvents[k] \in UserEvent
      BY <1>1, ElementOfSeq
    <2> QED
      BY <2>1 DEF Counted, UserEvent
  <1> QED
    BY <1>2

\* What the steps of a handler have in common.
LEMMA StepContext ==
    ASSUME Types, PageInv, NEW h \in Handlers, HandlerStep(h)
    PROVE  /\ Step(h) /\ OthersStay(h) /\ UNCHANGED <<pending, overlapped>>
           /\ \A u : Announced(u)' = Announced(u)
           /\ \A p \in Asks : SameReads(p)
           /\ acked' = IF at[h] = "updating" /\ at'[h] = "counting"
                       THEN acked \cup {Item(h).event} ELSE acked
           /\ \A k \in 1 .. Len(userEvents) : Counted(k) \in Nat /\ userEvents[k] \in UserEvent
           /\ \A g \in Handlers : userEvent[g] \in 0 .. Len(userEvents)
           /\ \A g \in Handlers : Counting(g) => userEvent[g] \in 1 .. Len(userEvents)
  <1>1. Step(h) /\ acked' = (IF at[h] = "updating" /\ at'[h] = "counting"
                             THEN acked \cup {Item(h).event} ELSE acked)
    BY DEF HandlerStep
  <1>2. \A p \in Asks : Like(ask'[p], ask[p])
    BY HandlerStepFacts DEF PageInv
  <1>3. UNCHANGED pending
    BY <1>1, QuietFacts, AddNewEventFacts, AckEventFacts, StoreCountFacts DEF Quiet, Writes
  <1>4. \A g \in Handlers : Counting(g) => userEvent[g] \in 1 .. Len(userEvents)
    BY HandlerFacts DEF Counting, Holding, Updating
  <1> QED
    BY <1>1, <1>2, <1>3, <1>4, OneHandler, TouchesLess, AnnouncedSame, CountedTypes
       DEF Like, SameReads, Types, StatisticsTypeOK

RowsFit(own) == OwnInv(own) /\ ReadInv(own) /\ ListInv(own) /\ CountInv(own)

\* Lists and counts stay.
LEMMA QuietLedger ==
    ASSUME Types, PageInv, LedgerInv, NEW h \in Handlers, HandlerStep(h), Quiet(h)
    PROVE  LedgerInv'
  <1>1. /\ Step(h) /\ OthersStay(h) /\ UNCHANGED <<pending, overlapped>>
        /\ \A u : Announced(u)' = Announced(u) /\ \A p \in Asks : SameReads(p)
        /\ \A k \in 1 .. Len(userEvents) : Counted(k) \in Nat
        /\ \A g \in Handlers : Counting(g) => userEvent[g] \in 1 .. Len(userEvents)
    BY StepContext
  <1>2. /\ \A k \in 1 .. Len(userEvents) : SameRow(k)
        /\ Counting(h)' => Counting(h) /\ userEvent'[h] = userEvent[h]
        /\ UNCHANGED acked
    BY QuietFacts, StepContext
  <1>3. PICK own \in [1 .. Len(userEvents) -> Users] : RowsFit(own)
    BY DEF LedgerInv, RowsInv, RowsFit
  <1>4. /\ Len(userEvents) \in Nat /\ Len(userEvents') \in Nat /\ Len(userEvents) <= Len(userEvents')
        /\ \A k \in 1 .. Len(userEvents') :
              k \notin 1 .. Len(userEvents) => Listed(k)' = {} /\ Counted(k)' = 0
    BY <1>1, <1>3, StepOwns DEF RowsFit
  <1>5. PICK new \in [1 .. Len(userEvents') -> Users] :
           OwnInv(new)' /\ \A k \in 1 .. Len(userEvents) : new[k] = own[k]
    BY <1>1, <1>3, StepOwns DEF RowsFit
  <1>6. \A k \in 1 .. Len(userEvents') : \A e \in Listed(k)' : k \in 1 .. Len(userEvents) /\ e \in Listed(k)
    BY <1>2, <1>4 DEF SameRow
  <1>7. \A e : ListedAfter(e) => ListedBefore(e)
    BY <1>6 DEF ListedAfter, ListedBefore
  <1>8. PICK d \in [Handlers -> Nat] : \A g \in Handlers : Fewer(g, d[g])
    BY <1>1, StepFewer, ShiftFacts
  <1>9. ComingInv'
    BY <1>1, <1>7, <1>8, ComingKept DEF LedgerInv
  <1>10. AckedInv'
    BY <1>1, <1>2, <1>7, <1>8, AckedKept DEF LedgerInv
  <1>11. AnnouncedInv'
    BY <1>1 DEF LedgerInv, AnnouncedInv
  <1>12. ListInv(new)'
    BY <1>1, <1>3, <1>5, <1>6, ListShrinks DEF RowsFit
  <1>13. ReadInv(new)'
    BY <1>1, <1>3, <1>4, <1>5, ReadKept DEF RowsFit
  <1>14. \A g \in Handlers : Counting(g)' => Counting(g) /\ userEvent'[g] = userEvent[g]
    BY <1>1, <1>2 DEF OthersStay, Counting
  <1>15. \A k \in 1 .. Len(userEvents) : Counted(k)' = Counted(k) /\ Counted(k) <= Counted(k)
    BY <1>1, <1>2 DEF SameRow
  <1>16. CountInv(new)'
    <2>1. \A u \in Users : IsFiniteSet(Announced(u)')
      BY <1>1 DEF LedgerInv, AnnouncedInv
    <2>2. CountInv(own)
      BY <1>3 DEF RowsFit
    <2>3. /\ acked \subseteq acked' /\ overlapped \subseteq overlapped'
          /\ \A u : Announced(u) \subseteq Announced(u)'
      BY <1>1, <1>2
    <2>4. \A g \in Handlers : Counting(g)' => userEvent'[g] \in 1 .. Len(userEvents)
      BY <1>1, <1>14
    <2>5. \A k \in 1 .. Len(userEvents) : \A g \in Handlers : Counting(g)' /\ userEvent'[g] = k =>
             Counting(g) /\ userEvent[g] = k /\ Counted(k)' = Counted(k)
      BY <1>14, <1>15
    <2>6. \A k \in 1 .. Len(userEvents) : /\ Counted(k) \in Nat /\ Counted(k)' \in Nat
                                          /\ Counted(k)' <= Counted(k)
      BY <1>1, <1>15
    <2> QED
      BY <1>4, <1>5, <2>1, <2>2, <2>3, <2>4, <2>5, <2>6, CountKept
  <1>17. RowsInv'
    BY <1>5, <1>12, <1>13, <1>16 DEF RowsInv
  <1> QED
    BY <1>9, <1>10, <1>11, <1>17 DEF LedgerInv

\* The row that a handler writes to, and whose it is.
LEMMA WrittenRow ==
    ASSUME Types, NEW h \in Handlers, NEW row, Writes(h, row), NEW own, OwnInv(own)
    PROVE  /\ Len(userEvents') = Len(userEvents) /\ userEvent[h] \in 1 .. Len(userEvents)
           /\ own[userEvent[h]] = Item(h).id /\ Item(h).id \in Users /\ Item(h) \in Items
           /\ Listed(userEvent[h]) = Row(h).unAckEvents /\ Counted(userEvent[h]) = Row(h).totalAckEvents
           /\ \E r \in 1 .. Len(userEvents) :
                 /\ r = userEvent[h] /\ Listed(r)' = row.unAckEvents /\ Counted(r)' = row.totalAckEvents
                 /\ \A k \in 1 .. Len(userEvents) : k # r => SameRow(k)
  <1>1. /\ Len(userEvents') = Len(userEvents) /\ userEvent[h] \in 1 .. Len(userEvents) /\ Holding(h)
        /\ RowBecomes(userEvent[h], row)
    BY DEF Writes, RowBecomes
  <1>2. Item(h).id \in Users /\ Item(h) \in Items
    BY <1>1, HandlerFacts DEF Holding
  <1>3. PICK r \in 1 .. Len(userEvents) : r = userEvent[h]
    BY <1>1
  <1>4. /\ Listed(r)' = row.unAckEvents /\ Counted(r)' = row.totalAckEvents
        /\ \A k \in 1 .. Len(userEvents) : k # r => SameRow(k)
    BY <1>1, <1>3 DEF RowBecomes, Listed, Counted, SameRow
  <1>5. own[userEvent[h]] = Item(h).id
    BY <1>1 DEF OwnInv
  <1> QED
    BY <1>1, <1>2, <1>3, <1>4, <1>5 DEF Listed, Counted, Row

LEMMA OwnersKeep ==
    ASSUME Types, PageInv, NEW h \in Handlers, HandlerStep(h),
           NEW own \in [1 .. Len(userEvents) -> Users], RowsFit(own)
    PROVE  \E new \in [1 .. Len(userEvents') -> Users] :
              /\ OwnInv(new)' /\ ReadInv(new)'
              /\ \A k \in 1 .. Len(userEvents) : new[k] = own[k]
  <1>1. Step(h) /\ \A p \in Asks : SameReads(p)
    BY StepContext
  <1>2. Len(userEvents) \in Nat
    BY <1>1, StepOwns DEF RowsFit
  <1>3. PICK new \in [1 .. Len(userEvents') -> Users] :
           OwnInv(new)' /\ \A k \in 1 .. Len(userEvents) : new[k] = own[k]
    BY <1>1, StepOwns DEF RowsFit
  <1>4. ReadInv(new)'
    BY <1>1, <1>2, <1>3, ReadKept DEF RowsFit
  <1> QED
    BY <1>3, <1>4

\* An announced event is listed.
LEMMA AddLedger ==
    ASSUME Types, PageInv, LedgerInv, NEW h \in Handlers, HandlerStep(h), AddNewEvent(h)
    PROVE  LedgerInv'
  <1>1. /\ Step(h) /\ OthersStay(h) /\ UNCHANGED <<pending, overlapped>>
        /\ \A u : Announced(u)' = Announced(u)
        /\ \A k \in 1 .. Len(userEvents) : Counted(k) \in Nat
        /\ \A g \in Handlers : Counting(g) => userEvent[g] \in 1 .. Len(userEvents)
    BY StepContext
  <1>2. PICK item \in Items : item = Item(h)
    BY AddNewEventFacts
  <1>3. Coming(h, 1, item) /\ at'[h] = "lookup" /\ item.type = "new"
    BY <1>2, AddNewEventFacts
  <1>4. PICK row \in UserEvent : /\ Writes(h, row)
                                 /\ row.unAckEvents \subseteq Row(h).unAckEvents \cup {item.event}
                                 /\ row.totalAckEvents = Row(h).totalAckEvents
    BY <1>2, AddNewEventFacts
  <1>5. UNCHANGED acked
    BY <1>3, StepContext
  <1>6. PICK own \in [1 .. Len(userEvents) -> Users] : RowsFit(own)
    BY DEF LedgerInv, RowsInv, RowsFit
  <1>7. PICK new \in [1 .. Len(userEvents') -> Users] :
              /\ OwnInv(new)' /\ ReadInv(new)'
              /\ \A k \in 1 .. Len(userEvents) : new[k] = own[k]
    BY <1>6, OwnersKeep
  <1>8. PICK r \in 1 .. Len(userEvents) :
           /\ r = userEvent[h] /\ Listed(r)' = row.unAckEvents /\ Counted(r)' = row.totalAckEvents
           /\ \A k \in 1 .. Len(userEvents) : k # r => SameRow(k)
    BY <1>4, <1>6, WrittenRow DEF RowsFit
  <1>9. /\ Len(userEvents') = Len(userEvents) /\ own[r] = item.id
        /\ Listed(r) = Row(h).unAckEvents /\ Counted(r) = Row(h).totalAckEvents
    BY <1>2, <1>4, <1>6, <1>8, WrittenRow DEF RowsFit
  <1>10. \A k \in 1 .. Len(userEvents') : \A e \in Listed(k)' :
            (k \in 1 .. Len(userEvents) /\ e \in Listed(k)) \/ (k = r /\ e = item.event)
    BY <1>4, <1>8, <1>9 DEF SameRow
  <1>11. item.event \in Announced(own[r]) /\ ~ListedBefore(item.event)
    BY <1>3, <1>9 DEF LedgerInv, ComingInv, ListedBefore
  <1>12. ListInv(new)'
    BY <1>1, <1>6, <1>7, <1>10, <1>11, ListGrows DEF RowsFit
  <1>13. Fewer(h, 1)
    BY <1>1, StepFewer
  <1>14. PICK d \in [Handlers -> Nat] : d[h] = 1 /\ \A g \in Handlers : Fewer(g, d[g])
    BY <1>1, <1>13, ShiftFacts
  <1>15. \A e : ListedAfter(e) => ListedBefore(e) \/ e = item.event
    BY <1>10 DEF ListedAfter, ListedBefore
  <1>16. ASSUME NEW g \in Handlers, NEW i \in Nat \ {0}, NEW other \in Items, Coming(g, i, other)'
         PROVE  other.event # item.event
    <2>1. i + d[g] \in Nat \ {0} /\ Coming(g, i + d[g], other)
      BY <1>14, <1>16 DEF Fewer
    <2>2. other.event = item.event => g = h /\ i + d[g] = 1
      BY <1>3, <2>1 DEF LedgerInv, ComingInv
    <2> QED
      BY <1>14, <2>2
  <1>17. ComingInv'
    BY <1>1, <1>14, <1>15, <1>16, ComingKept DEF LedgerInv
  <1>18. AckedInv'
    <2>1. \A e \in acked : ListedAfter(e) =>
             \/ ListedBefore(e)
             \/ \E g \in Handlers : \E i \in Nat \ {0} : \E other \in Items :
                   Coming(g, i, other) /\ other.event = e
      BY <1>3, <1>15
    <2> QED
      BY <1>1, <1>5, <1>14, <2>1, AckedKept DEF LedgerInv
  <1>19. AnnouncedInv'
    BY <1>1 DEF LedgerInv, AnnouncedInv
  <1>20. CountInv(new)'
    <2>1. \A u \in Users : IsFiniteSet(Announced(u)')
      BY <1>1 DEF LedgerInv, AnnouncedInv
    <2>2. CountInv(own)
      BY <1>6 DEF RowsFit
    <2>3. /\ acked \subseteq acked' /\ overlapped \subseteq overlapped'
          /\ \A u : Announced(u) \subseteq Announced(u)'
      BY <1>1, <1>5
    <2>4. \A g \in Handlers : Counting(g)' => Counting(g) /\ userEvent'[g] = userEvent[g]
      BY <1>1, <1>3 DEF OthersStay, Counting
    <2>5. \A g \in Handlers : Counting(g)' => userEvent'[g] \in 1 .. Len(userEvents)
      BY <1>1, <2>4
    <2>6. \A k \in 1 .. Len(userEvents) : /\ Counted(k) \in Nat /\ Counted(k)' \in Nat
                                          /\ Counted(k)' <= Counted(k) /\ Counted(k)' = Counted(k)
      BY <1>1, <1>4, <1>8, <1>9 DEF SameRow
    <2>7. \A k \in 1 .. Len(userEvents) : \A g \in Handlers : Counting(g)' /\ userEvent'[g] = k =>
             Counting(g) /\ userEvent[g] = k /\ Counted(k)' = Counted(k)
      BY <2>4, <2>6
    <2> QED
      BY <1>7, <1>9, <2>1, <2>2, <2>3, <2>5, <2>6, <2>7, CountKept
  <1>21. RowsInv'
    BY <1>7, <1>12, <1>20 DEF RowsInv
  <1> QED
    BY <1>17, <1>18, <1>19, <1>21 DEF LedgerInv

\* A user whose requests do not overlap has one handler, in step with the ledger.
LEMMA SoleHandler ==
    ASSUME Types, Sole, AccurateInv, NEW h \in Handlers, at[h] \in Updating, Item(h).id \notin overlapped
    PROVE  /\ Item(h).id \in Users /\ InStep(h, Item(h).id)
           /\ \A g \in Handlers : at[g] \in Updating /\ Item(g).id = Item(h).id => g = h
  <1>1. \A g \in Handlers : at[g] \in Updating => Item(g).id \in Users /\ Item(g).id \in Touches(g)
    BY HandlerFacts, BusyTouches DEF Updating, Resetting
  <1>2. PICK u \in Users \ overlapped : u = Item(h).id
    BY <1>1
  <1>3. InStep(h, u)
    BY <1>2 DEF AccurateInv, AccurateFor, BusyWith
  <1> QED
    BY <1>1, <1>2, <1>3 DEF Sole

\* A count is stored.
LEMMA StoreLedger ==
    ASSUME Types, Sole, AccurateInv, PageInv, LedgerInv, NEW h \in Handlers, HandlerStep(h), StoreCount(h)
    PROVE  LedgerInv'
  <1>1. /\ Step(h) /\ OthersStay(h) /\ UNCHANGED <<pending, overlapped>>
        /\ \A u : Announced(u)' = Announced(u)
        /\ \A k \in 1 .. Len(userEvents) : Counted(k) \in Nat
        /\ \A g \in Handlers : Counting(g) => userEvent[g] \in 1 .. Len(userEvents)
    BY StepContext
  <1>2. at[h] = "storing" /\ at'[h] = "lookup"
    BY StoreCountFacts
  <1>3. PICK row \in UserEvent : /\ Writes(h, row) /\ row.unAckEvents = Row(h).unAckEvents
                                 /\ row.totalAckEvents = count[h] + 1
    BY StoreCountFacts
  <1>4. UNCHANGED acked
    BY <1>2, StepContext
  <1>5. PICK own \in [1 .. Len(userEvents) -> Users] : RowsFit(own)
    BY DEF LedgerInv, RowsInv, RowsFit
  <1>6. PICK new \in [1 .. Len(userEvents') -> Users] :
              /\ OwnInv(new)' /\ ReadInv(new)'
              /\ \A k \in 1 .. Len(userEvents) : new[k] = own[k]
    BY <1>5, OwnersKeep
  <1>7. PICK r \in 1 .. Len(userEvents) :
           /\ r = userEvent[h] /\ Listed(r)' = row.unAckEvents /\ Counted(r)' = row.totalAckEvents
           /\ \A k \in 1 .. Len(userEvents) : k # r => SameRow(k)
    BY <1>3, <1>5, WrittenRow DEF RowsFit
  <1>8. /\ Len(userEvents') = Len(userEvents) /\ own[r] = Item(h).id
        /\ Listed(r) = Row(h).unAckEvents /\ Counted(r) = Row(h).totalAckEvents
    BY <1>3, <1>5, <1>7, WrittenRow DEF RowsFit
  <1>9. \A k \in 1 .. Len(userEvents') : \A e \in Listed(k)' : k \in 1 .. Len(userEvents) /\ e \in Listed(k)
    BY <1>3, <1>7, <1>8 DEF SameRow
  <1>10. ListInv(new)'
    BY <1>1, <1>5, <1>6, <1>9, ListShrinks DEF RowsFit
  <1>11. PICK d \in [Handlers -> Nat] : \A g \in Handlers : Fewer(g, d[g])
    BY <1>1, StepFewer, ShiftFacts
  <1>12. \A e : ListedAfter(e) => ListedBefore(e)
    BY <1>9 DEF ListedAfter, ListedBefore
  <1>13. ComingInv' /\ AckedInv'
    BY <1>1, <1>4, <1>11, <1>12, ComingKept, AckedKept DEF LedgerInv
  <1>14. AnnouncedInv'
    BY <1>1 DEF LedgerInv, AnnouncedInv
  <1>15. CountInv(new)'
    <2>1. \A u \in Users : IsFiniteSet(Announced(u)')
      BY <1>1 DEF LedgerInv, AnnouncedInv
    <2>2. CountInv(own)
      BY <1>5 DEF RowsFit
    <2>3. /\ acked \subseteq acked' /\ overlapped \subseteq overlapped'
          /\ \A u : Announced(u) \subseteq Announced(u)'
      BY <1>1, <1>4
    <2>4. \A g \in Handlers : Counting(g)' => Counting(g) /\ userEvent'[g] = userEvent[g] /\ g # h
      BY <1>1, <1>2 DEF OthersStay, Counting
    <2>5. \A g \in Handlers : Counting(g)' => userEvent'[g] \in 1 .. Len(userEvents)
      BY <1>1, <2>4
    <2>6. count[h] \in Nat /\ Counted(r) \in Nat /\ Counted(r)' = count[h] + 1
      BY <1>1, <1>3, <1>7 DEF Types, StatisticsTypeOK
    <2>7. \A k \in 1 .. Len(userEvents) : Counted(k) \in Nat /\ Counted(k)' \in Nat
      <3>1. \A k \in 1 .. Len(userEvents) : k # r => Counted(k)' = Counted(k)
        BY <1>7 DEF SameRow
      <3>2. Counted(r)' \in Nat
        BY <2>6
      <3> QED
        BY <1>1, <3>1, <3>2
    <2>8. ASSUME own[r] \notin overlapped
          PROVE  /\ Counted(r)' <= Cardinality(Settled(own[r]))
                 /\ \A g \in Handlers : ~(Counting(g)' /\ userEvent'[g] = r)
      <3>1. at[h] \in Updating /\ Item(h).id \notin overlapped
        BY <1>2, <1>8, <2>8 DEF Updating
      <3>2. count[h] = Row(h).totalAckEvents
        BY <1>2, <3>1, SoleHandler DEF InStep
      <3>3. Counted(r) + 1 <= Cardinality(Settled(own[r]))
        BY <1>2, <1>7, <2>2, <2>8 DEF CountInv, Counting
      <3>4. ASSUME NEW g \in Handlers, Counting(g)', userEvent'[g] = r
            PROVE  FALSE
        <4>1. Counting(g) /\ userEvent[g] = r /\ g # h
          BY <2>4, <3>4
        <4>2. at[g] \in Updating /\ Holding(g)
          BY <4>1 DEF Counting, Updating, Holding
        <4>3. own[r] = Item(g).id
          BY <1>5, <4>1, <4>2 DEF RowsFit, OwnInv
        <4> QED
          BY <1>8, <3>1, <4>1, <4>2, <4>3, SoleHandler
      <3> QED
        BY <1>8, <2>6, <3>2, <3>3, <3>4
    <2>9. ASSUME NEW k \in 1 .. Len(userEvents), own[k] \notin overlapped
          PROVE  /\ Counted(k)' <= Counted(k) \/ Counted(k)' <= Cardinality(Settled(own[k]))
                 /\ \A g \in Handlers : Counting(g)' /\ userEvent'[g] = k =>
                       Counting(g) /\ userEvent[g] = k /\ Counted(k)' = Counted(k)
      <3>1. CASE k = r
        BY <2>8, <2>9, <3>1
      <3>2. CASE k # r
        <4>1. Counted(k)' = Counted(k) /\ Counted(k)' <= Counted(k)
          BY <1>7, <2>7, <3>2 DEF SameRow
        <4> QED
          BY <2>4, <4>1
      <3> QED
        BY <3>1, <3>2
    <2>10. \A k \in 1 .. Len(userEvents) : own[k] \notin overlapped =>
              Counted(k)' <= Counted(k) \/ Counted(k)' <= Cardinality(Settled(own[k]))
      BY <2>9
    <2>11. \A k \in 1 .. Len(userEvents) : \A g \in Handlers :
              own[k] \notin overlapped /\ Counting(g)' /\ userEvent'[g] = k =>
                 Counting(g) /\ userEvent[g] = k /\ Counted(k)' = Counted(k)
      BY <2>9
    <2>12. \A k \in 1 .. Len(userEvents') : k \notin 1 .. Len(userEvents) => Counted(k)' = 0
      BY <1>8
    <2> QED
      BY <1>6, <2>1, <2>2, <2>3, <2>5, <2>7, <2>10, <2>11, <2>12, CountKept
  <1>16. RowsInv'
    BY <1>6, <1>10, <1>15 DEF RowsInv
  <1> QED
    BY <1>13, <1>14, <1>16 DEF LedgerInv

\* One more is settled for the user of an event that was listed.
LEMMA SettledOneMore ==
    ASSUME NEW u, NEW e \in Announced(u), e \notin acked, acked' = acked \cup {e},
           Announced(u)' = Announced(u), IsFiniteSet(Announced(u))
    PROVE  Cardinality(Settled(u)') = Cardinality(Settled(u)) + 1 /\ Cardinality(Settled(u)) \in Nat
  <1>1. PICK S : S = Settled(u)
    OBVIOUS
  <1>2. S \in SUBSET Announced(u) /\ e \notin S /\ Settled(u)' = S \cup {e}
    BY <1>1 DEF Settled
  <1>3. IsFiniteSet(S)
    BY <1>2, FS_Subset
  <1>4. Cardinality(S \cup {e}) = Cardinality(S) + 1 /\ Cardinality(S) \in Nat
    BY <1>2, <1>3, FS_AddElement, FS_CardinalityType
  <1> QED
    BY <1>1, <1>2, <1>4

\* An event that is acknowledged is counted if it was listed.
LEMMA AckLedger ==
    ASSUME Types, Sole, AccurateInv, PageInv, LedgerInv, NEW h \in Handlers, HandlerStep(h), AckEvent(h)
    PROVE  LedgerInv'
  <1>1. /\ Step(h) /\ OthersStay(h) /\ UNCHANGED <<pending, overlapped>>
        /\ \A u : Announced(u)' = Announced(u)
        /\ \A k \in 1 .. Len(userEvents) : Counted(k) \in Nat
        /\ \A g \in Handlers : Counting(g) => userEvent[g] \in 1 .. Len(userEvents)
    BY StepContext
  <1>2. PICK item \in Items : item = Item(h)
    BY AckEventFacts
  <1>3. /\ at[h] = "updating" /\ item.type = "ack" /\ at'[h] \in {"counting", "lookup"}
        /\ ~torn[h] /\ at'[h] = "counting" => item.event \in Row(h).unAckEvents
    BY <1>2, AckEventFacts
  <1>4. PICK row \in UserEvent : /\ Writes(h, row) /\ row.unAckEvents \subseteq Row(h).unAckEvents
                                 /\ ~torn[h] => item.event \notin row.unAckEvents
                                 /\ row.totalAckEvents = Row(h).totalAckEvents
    BY <1>2, AckEventFacts
  <1>5. acked' = IF at'[h] = "counting" THEN acked \cup {item.event} ELSE acked
    BY <1>2, <1>3, StepContext
  <1>6. PICK own \in [1 .. Len(userEvents) -> Users] : RowsFit(own)
    BY DEF LedgerInv, RowsInv, RowsFit
  <1>7. PICK new \in [1 .. Len(userEvents') -> Users] :
              /\ OwnInv(new)' /\ ReadInv(new)'
              /\ \A k \in 1 .. Len(userEvents) : new[k] = own[k]
    BY <1>6, OwnersKeep
  <1>8. PICK r \in 1 .. Len(userEvents) :
           /\ r = userEvent[h] /\ Listed(r)' = row.unAckEvents /\ Counted(r)' = row.totalAckEvents
           /\ \A k \in 1 .. Len(userEvents) : k # r => SameRow(k)
    BY <1>4, <1>6, WrittenRow DEF RowsFit
  <1>9. /\ Len(userEvents') = Len(userEvents) /\ own[r] = item.id
        /\ Listed(r) = Row(h).unAckEvents /\ Counted(r) = Row(h).totalAckEvents
    BY <1>2, <1>4, <1>6, <1>8, WrittenRow DEF RowsFit
  <1>10. \A k \in 1 .. Len(userEvents') : \A e \in Listed(k)' : k \in 1 .. Len(userEvents) /\ e \in Listed(k)
    BY <1>4, <1>8, <1>9 DEF SameRow
  <1>11. ListInv(new)'
    BY <1>1, <1>6, <1>7, <1>10, ListShrinks DEF RowsFit
  <1>12. PICK d \in [Handlers -> Nat] : \A g \in Handlers : Fewer(g, d[g])
    BY <1>1, StepFewer, ShiftFacts
  <1>13. \A e : ListedAfter(e) => ListedBefore(e)
    BY <1>10 DEF ListedAfter, ListedBefore
  <1>14. ComingInv'
    BY <1>1, <1>12, <1>13, ComingKept DEF LedgerInv
  <1>15. AnnouncedInv'
    BY <1>1 DEF LedgerInv, AnnouncedInv
  <1>16. \A k \in 1 .. Len(userEvents) : Counted(k)' = Counted(k) /\ Counted(k)' \in Nat
    BY <1>1, <1>4, <1>8, <1>9 DEF SameRow
  \* The event was listed, and not counted, if the user's requests do not overlap.
  <1>17. ASSUME item.id \notin overlapped, at'[h] = "counting"
         PROVE  /\ item.event \in Announced(item.id) /\ item.event \notin acked /\ ~ListedAfter(item.event)
                /\ \A g \in Handlers : \A i \in Nat \ {0} : \A other \in Items :
                      Coming(g, i, other) => other.event # item.event
    <2>1. item.id \in Users /\ ~torn[h]
      BY <1>2, <1>3, <1>17, SoleHandler DEF Updating, InStep
    <2>2. item.event \in Listed(r) /\ item.event \notin Listed(r)'
      BY <1>3, <1>4, <1>8, <1>9, <1>17, <2>1
    <2>3. item.event \in Announced(item.id)
      BY <1>6, <1>9, <2>2 DEF RowsFit, ListInv
    <2>4. \E i \in Items : Announces(i, item.id, item.event)
      BY <2>3, AnnouncedIsNews, NewsItem
    <2>5. item.event \notin acked
      BY <1>17, <2>1, <2>2, <2>4 DEF LedgerInv, AckedInv
    <2>6. \A k \in 1 .. Len(userEvents) : k # r => item.event \notin Listed(k)
      BY <1>6, <2>2 DEF RowsFit, ListInv
    <2>7. ~ListedAfter(item.event)
      BY <1>9, <1>10, <2>2, <2>6 DEF ListedAfter
    <2>8. \A g \in Handlers : \A i \in Nat \ {0} : \A other \in Items :
             Coming(g, i, other) => other.event # item.event
      BY <2>2 DEF LedgerInv, ComingInv
    <2> QED
      BY <2>3, <2>5, <2>7, <2>8
  <1>18. AckedInv'
    <2>1. CASE UNCHANGED acked
      BY <1>1, <1>12, <1>13, <2>1, AckedKept DEF LedgerInv
    <2>2. CASE at'[h] = "counting"
      <3> SUFFICES ASSUME NEW u \in Users \ overlapped, NEW e \in acked \cup {item.event},
                          \E i \in Items : Announces(i, u, e)
                   PROVE  /\ e \in Announced(u)' /\ ~ListedAfter(e)
                          /\ \A g \in Handlers : \A i \in Nat \ {0} : \A other \in Items :
                                Coming(g, i, other)' => other.event # e
        BY <1>1, <1>5, <2>2 DEF AckedInv, Announces, ListedAfter
      <3>1. CASE e \in acked
        <4>1. /\ e \in Announced(u) /\ ~ListedBefore(e)
              /\ \A g \in Handlers : \A i \in Nat \ {0} : \A other \in Items :
                    Coming(g, i, other) => other.event # e
          BY <3>1 DEF LedgerInv, AckedInv, ListedBefore
        <4> QED
          BY <1>1, <1>12, <1>13, <4>1 DEF Fewer
      <3>2. CASE e = item.event
        <4>1. item.id = u
          BY <1>3, <3>2, EventsAssumption DEF EventsAssumption, Announces
        <4>2. /\ item.event \in Announced(u) /\ ~ListedAfter(item.event)
              /\ \A g \in Handlers : \A i \in Nat \ {0} : \A other \in Items :
                    Coming(g, i, other) => other.event # item.event
          BY <1>17, <2>2, <4>1
        <4> QED
          BY <1>1, <1>12, <3>2, <4>2 DEF Fewer
      <3> QED
        BY <3>1, <3>2
    <2> QED
      BY <1>5, <2>1, <2>2
  <1>19. CountInv(new)'
    <2>1. \A u \in Users : IsFiniteSet(Announced(u)')
      BY <1>1 DEF LedgerInv, AnnouncedInv
    <2>2. CountInv(own)
      BY <1>6 DEF RowsFit
    <2>3. /\ acked \subseteq acked' /\ overlapped \subseteq overlapped'
          /\ \A u : Announced(u) \subseteq Announced(u)'
      BY <1>1, <1>5
    <2>4. \A g \in Handlers : Counting(g)' /\ g # h => Counting(g) /\ userEvent'[g] = userEvent[g]
      BY <1>1 DEF OthersStay, Counting
    <2>5. userEvent'[h] = r
      BY <1>4, <1>8 DEF Writes
    <2>6. \A g \in Handlers : Counting(g)' => userEvent'[g] \in 1 .. Len(userEvents)
      BY <1>1, <2>4, <2>5
    <2>7. ASSUME own[r] \notin overlapped, Counting(h)'
          PROVE  Counted(r)' + 1 <= Cardinality(Settled(own[r])')
      <3>1. at'[h] = "counting"
        BY <1>3, <2>7 DEF Counting
      <3>2. PICK u \in Users : u = own[r]
        OBVIOUS
      <3>3. item.event \in Announced(u) /\ item.event \notin acked
        BY <1>9, <1>17, <2>7, <3>1, <3>2
      <3>4. acked' = acked \cup {item.event} /\ Announced(u)' = Announced(u) /\ IsFiniteSet(Announced(u))
        BY <1>1, <1>5, <3>1 DEF LedgerInv, AnnouncedInv
      <3>5. Cardinality(Settled(u)') = Cardinality(Settled(u)) + 1 /\ Cardinality(Settled(u)) \in Nat
        BY <3>3, <3>4, SettledOneMore
      <3>6. Counted(r) <= Cardinality(Settled(u))
        BY <2>2, <2>7, <3>2 DEF CountInv
      <3>7. Counted(r) \in Nat /\ Counted(r)' = Counted(r)
        BY <1>1, <1>16
      <3> QED
        BY <3>2, <3>5, <3>6, <3>7
    <2>8. \A k \in 1 .. Len(userEvents) : own[k] \notin overlapped => Counted(k)' <= Counted(k)
      BY <1>16
    <2>9. \A k \in 1 .. Len(userEvents) : \A g \in Handlers :
             own[k] \notin overlapped /\ Counting(g)' /\ userEvent'[g] = k =>
                \/ Counting(g) /\ userEvent[g] = k /\ Counted(k)' = Counted(k)
                \/ Counted(k)' + 1 <= Cardinality(Settled(own[k])')
      <3> TAKE k \in 1 .. Len(userEvents)
      <3> TAKE g \in Handlers
      <3> HAVE own[k] \notin overlapped /\ Counting(g)' /\ userEvent'[g] = k
      <3>1. CASE g = h
        BY <2>5, <2>7, <3>1
      <3>2. CASE g # h
        BY <1>16, <2>4, <3>2
      <3> QED
        BY <3>1, <3>2
    <2>10. \A k \in 1 .. Len(userEvents') : k \notin 1 .. Len(userEvents) => Counted(k)' = 0
      BY <1>9
    <2>11. \A k \in 1 .. Len(userEvents) : Counted(k) \in Nat /\ Counted(k)' \in Nat
      BY <1>1, <1>16
    <2> QED
      BY <1>7, <2>1, <2>2, <2>3, <2>6, <2>8, <2>9, <2>10, <2>11, CountKept
  <1>20. RowsInv'
    BY <1>7, <1>11, <1>19 DEF RowsInv
  <1> QED
    BY <1>14, <1>15, <1>18, <1>20 DEF LedgerInv

-----------------------------------------------------------------------------
(* A request arrives. *)

\* The news of a batch that was not PUT yet were not announced.
LEMMA NotYet ==
    ASSUME pending \subseteq Batches, NEW b \in pending, NEW k \in DOMAIN b, b[k].type = "new", NEW u
    PROVE  b[k].event \notin Announced(u)
  <1> SUFFICES ASSUME b[k].event \in Announced(u) PROVE FALSE
    OBVIOUS
  <1>1. PICK e : e = b[k].event
    OBVIOUS
  <1>2. PICK S \in SUBSET Batches : S = Batches \ pending
    OBVIOUS
  <1>3. e \in NewsOf(S, u)
    BY <1>1, <1>2, AnnouncedIsNews
  <1>4. PICK c \in S : \E j \in DOMAIN c : Announces(c[j], u, e)
    BY <1>3, NewsMember
  <1>5. PICK j \in DOMAIN c : Announces(c[j], u, e)
    BY <1>4
  <1>6. b = c
    BY <1>1, <1>5, OneNews DEF Announces
  <1> QED
    BY <1>2, <1>6

LEMMA RequestNews ==
    ASSUME Types, AnnouncedInv, NEW h \in Handlers, Request(h)
    PROVE  /\ AnnouncedInv' /\ \A u : Announced(u) \subseteq Announced(u)'
           /\ \A b \in Batches : PutStatistics(h, b) => \A u : News(b, u) \subseteq Announced(u)'
  <1>1. pending \subseteq Batches
    BY DEF Types, StatisticsTypeOK
  <1>2. ASSUME NEW users, Reset(h, users)
        PROVE  UNCHANGED pending
    BY <1>2 DEF Reset
  <1>3. ASSUME UNCHANGED pending
        PROVE  /\ AnnouncedInv' /\ \A u : Announced(u) \subseteq Announced(u)'
    BY <1>3, AnnouncedSame DEF AnnouncedInv
  <1>4. ASSUME NEW b \in Batches, PutStatistics(h, b)
        PROVE  /\ AnnouncedInv' /\ \A u : Announced(u) \subseteq Announced(u)'
               /\ \A u : News(b, u) \subseteq Announced(u)'
    <2>1. Batches \ pending' = (Batches \ pending) \cup {b}
      BY <1>4 DEF PutStatistics
    <2>2. ASSUME NEW u
          PROVE  Announced(u)' = Announced(u) \cup News(b, u)
      <3>1. Announced(u) = NewsOf(Batches \ pending, u) /\ Announced(u)' = NewsOf(Batches \ pending', u)
        BY AnnouncedIsNews
      <3>2. NewsOf((Batches \ pending) \cup {b}, u) = NewsOf(Batches \ pending, u) \cup News(b, u)
        BY DEF NewsOf
      <3> QED
        BY <2>1, <3>1, <3>2
    <2>3. ASSUME NEW u \in Users
          PROVE  IsFiniteSet(Announced(u)')
      <3>1. IsFiniteSet(News(b, u)) /\ IsFiniteSet(Announced(u))
        BY NewsFacts DEF AnnouncedInv
      <3> QED
        BY <2>2, <3>1, FS_Union
    <2> QED
      BY <2>2, <2>3 DEF AnnouncedInv
  <1>5. ASSUME NEW b \in Batches, PutStatistics(h, b)
        PROVE  \A u : News(b, u) \subseteq Announced(u)'
    BY <1>4, <1>5
  <1>6. CASE \E b \in Batches : PutStatistics(h, b)
    BY <1>4, <1>6
  <1>7. CASE \E users \in {<<>>, Registered} : Reset(h, users)
    <2>1. UNCHANGED pending
      BY <1>2, <1>7
    <2> QED
      BY <1>3, <1>5, <2>1
  <1> QED
    BY <1>6, <1>7 DEF Request

\* What is to come after a request arrived came before, or is in the request.
LEMMA RequestComing ==
    ASSUME Types, NEW h \in Handlers, Request(h)
    PROVE  /\ \A g \in Handlers \ {h} : \A i : \A item : Coming(g, i, item)' => Coming(g, i, item)
           /\ \A i : \A item : Coming(h, i, item)' =>
                 \E b \in pending : /\ PutStatistics(h, b) /\ i \in DOMAIN b /\ b[i] = item
                                    /\ item.type = "new"
  <1>1. OthersStay(h)
    BY OneHandler
  <1>2. ASSUME NEW b \in Batches, PutStatistics(h, b)
        PROVE  b \in pending /\ todo'[h] = b
    BY <1>2 DEF PutStatistics, Types, TodoOK
  <1>3. ASSUME NEW users, Reset(h, users)
        PROVE  at'[h] \in Resetting
    BY <1>3 DEF Reset, Types, StatisticsTypeOK, Resetting
  <1>4. \A i : \A item : Coming(h, i, item)' =>
                 \E b \in pending : /\ PutStatistics(h, b) /\ i \in DOMAIN b /\ b[i] = item
                                    /\ item.type = "new"
    BY <1>2, <1>3 DEF Request, Coming
  <1> QED
    BY <1>1, <1>4 DEF OthersStay, Coming

LEMMA RequestLedger ==
    ASSUME Types, PageInv, LedgerInv, NEW h \in Handlers, Request(h), UNCHANGED acked,
           \A p \in Asks : SameReads(p)
    PROVE  LedgerInv' /\ overlapped \subseteq overlapped'
  <1>1. /\ UNCHANGED <<userEvents, mapUserData>> /\ OthersStay(h) /\ overlapped \subseteq overlapped'
        /\ pending \subseteq Batches /\ Len(userEvents) \in Nat
    BY RequestGrows, OneHandler, ArrivalTouches, LenProperties DEF table, Types, StatisticsTypeOK
  <1>2. at'[h] \in {"lookup", "clearing"} /\ UNCHANGED userEvent
    BY DEF Request, PutStatistics, Reset, Types, StatisticsTypeOK
  <1>3. /\ AnnouncedInv' /\ \A u : Announced(u) \subseteq Announced(u)'
        /\ \A b \in Batches : PutStatistics(h, b) => \A u : News(b, u) \subseteq Announced(u)'
    BY RequestNews DEF LedgerInv
  <1>4. \A k : Listed(k)' = Listed(k) /\ Counted(k)' = Counted(k)
    BY <1>1 DEF Listed, Counted
  <1>5. /\ \A g \in Handlers \ {h} : \A i : \A item : Coming(g, i, item)' => Coming(g, i, item)
        /\ \A i : \A item : Coming(h, i, item)' =>
                 \E b \in pending : /\ PutStatistics(h, b) /\ i \in DOMAIN b /\ b[i] = item
                                    /\ item.type = "new"
    BY RequestComing
  <1>6. PICK own \in [1 .. Len(userEvents) -> Users] : RowsFit(own)
    BY DEF LedgerInv, RowsInv, RowsFit
  \* What comes with the request was not announced before, and comes once.
  <1>7. ASSUME NEW i, NEW item, Coming(h, i, item)'
        PROVE  /\ \A u : item.event \notin Announced(u)
               /\ item.event \in Announced(item.id)'
               /\ \A j : \A other : Coming(h, j, other)' /\ other.event = item.event => j = i
    <2>1. PICK b \in pending : /\ PutStatistics(h, b) /\ i \in DOMAIN b /\ b[i] = item
                               /\ item.type = "new"
      BY <1>5, <1>7
    <2>2. \A u : item.event \notin Announced(u)
      BY <1>1, <2>1, NotYet
    <2>3. item.event \in News(b, item.id)
      BY <2>1 DEF News
    <2>4. item.event \in Announced(item.id)'
      BY <1>1, <1>3, <2>1, <2>3
    <2>5. todo'[h] = b
      BY <2>1 DEF PutStatistics, Types, TodoOK
    <2>6. ASSUME NEW j, NEW other, Coming(h, j, other)', other.event = item.event
          PROVE  j = i
      <3>1. j \in DOMAIN b /\ b[j] = other /\ other.type = "new"
        BY <2>5, <2>6 DEF Coming
      <3> QED
        BY <1>1, <2>1, <2>6, <3>1, OneNews
    <2> QED
      BY <2>2, <2>4, <2>6
  <1>8. ComingInv'
    <2> SUFFICES ASSUME NEW g \in Handlers, NEW i \in Nat \ {0}, NEW item \in Items, Coming(g, i, item)'
                 PROVE  /\ item.event \in Announced(item.id)'
                        /\ \A k \in 1 .. Len(userEvents) : item.event \notin Listed(k)
                        /\ \A f \in Handlers : \A j \in Nat \ {0} : \A other \in Items :
                              Coming(f, j, other)' /\ other.event = item.event => f = g /\ j = i
      BY <1>1, <1>4 DEF ComingInv
    <2>1. CASE g = h
      <3>1. /\ \A u : item.event \notin Announced(u) /\ item.event \in Announced(item.id)'
            /\ \A j : \A other : Coming(h, j, other)' /\ other.event = item.event => j = i
        BY <1>7, <2>1
      <3>2. \A k \in 1 .. Len(userEvents) : item.event \notin Listed(k)
        BY <1>6, <3>1 DEF RowsFit, ListInv
      <3>3. ASSUME NEW f \in Handlers, NEW j \in Nat \ {0}, NEW other \in Items,
                   Coming(f, j, other)', other.event = item.event
            PROVE  f = g /\ j = i
        <4>1. f # h => other.event \in Announced(other.id)
          BY <1>5, <3>3 DEF LedgerInv, ComingInv
        <4>2. f = h
          BY <3>1, <3>3, <4>1
        <4> QED
          BY <2>1, <3>1, <3>3, <4>2
      <3> QED
        BY <3>1, <3>2, <3>3
    <2>2. CASE g # h
      <3>1. Coming(g, i, item)
        BY <1>5, <2>2
      <3>2. /\ item.event \in Announced(item.id)
            /\ \A k \in 1 .. Len(userEvents) : item.event \notin Listed(k)
            /\ \A f \in Handlers : \A j \in Nat \ {0} : \A other \in Items :
                  Coming(f, j, other) /\ other.event = item.event => f = g /\ j = i
        BY <3>1 DEF LedgerInv, ComingInv
      <3>3. ASSUME NEW f \in Handlers, NEW j \in Nat \ {0}, NEW other \in Items,
                   Coming(f, j, other)', other.event = item.event
            PROVE  f = g /\ j = i
        <4>1. f = h => other.event \notin Announced(item.id)
          BY <1>7, <3>3
        <4>2. Coming(f, j, other)
          BY <1>5, <3>2, <3>3, <4>1
        <4> QED
          BY <3>2, <3>3, <4>2
      <3> QED
        BY <1>3, <3>2, <3>3
    <2> QED
      BY <2>1, <2>2
  <1>9. AckedInv'
    <2> SUFFICES ASSUME NEW u \in Users \ overlapped, NEW e \in acked, \E i \in Items : Announces(i, u, e)
                 PROVE  /\ e \in Announced(u)'
                        /\ \A k \in 1 .. Len(userEvents) : e \notin Listed(k)
                        /\ \A g \in Handlers : \A i \in Nat \ {0} : \A item \in Items :
                              Coming(g, i, item)' => item.event # e
      BY <1>1, <1>4 DEF AckedInv, Announces
    <2>1. /\ e \in Announced(u) /\ \A k \in 1 .. Len(userEvents) : e \notin Listed(k)
          /\ \A g \in Handlers : \A i \in Nat \ {0} : \A item \in Items :
                Coming(g, i, item) => item.event # e
      BY DEF LedgerInv, AckedInv
    <2>2. ASSUME NEW g \in Handlers, NEW i \in Nat \ {0}, NEW item \in Items, Coming(g, i, item)'
          PROVE  item.event # e
      <3>1. g = h => item.event \notin Announced(u)
        BY <1>7, <2>2
      <3>2. g # h => Coming(g, i, item)
        BY <1>5, <2>2
      <3> QED
        BY <2>1, <3>1, <3>2
    <2> QED
      BY <1>3, <2>1, <2>2
  <1>10. OwnInv(own)'
    <2>1. \A g \in Handlers : Holding(g)' => Holding(g) /\ userEvent'[g] = userEvent[g] /\ Item(g)' = Item(g)
      BY <1>1, <1>2 DEF OthersStay, Holding, Updating, Item
    <2> QED
      BY <1>1, <1>6, <2>1 DEF RowsFit, OwnInv
  <1>11. ListInv(own)'
    BY <1>1, <1>3, <1>4, <1>6 DEF RowsFit, ListInv
  <1>12. ReadInv(own)'
    BY <1>1, <1>6, ReadKept DEF RowsFit
  <1>13. CountInv(own)'
    <2>1. \A g \in Handlers : Counting(g)' => Counting(g) /\ userEvent'[g] = userEvent[g]
      BY <1>1, <1>2 DEF OthersStay, Counting
    <2>2. \A g \in Handlers : Counting(g) => userEvent[g] \in 1 .. Len(userEvents)
      BY HandlerFacts DEF Counting, Holding, Updating
    <2>3. \A g \in Handlers : Counting(g)' => userEvent'[g] \in 1 .. Len(userEvents)
      BY <2>1, <2>2
    <2>4. \A k \in 1 .. Len(userEvents) : /\ Counted(k) \in Nat /\ Counted(k)' \in Nat
                                          /\ Counted(k)' = Counted(k) /\ Counted(k)' <= Counted(k)
      BY <1>4, CountedTypes
    <2>5. \A k \in 1 .. Len(userEvents) : \A g \in Handlers : Counting(g)' /\ userEvent'[g] = k =>
             Counting(g) /\ userEvent[g] = k /\ Counted(k)' = Counted(k)
      BY <2>1, <2>4
    <2>6. \A u \in Users : IsFiniteSet(Announced(u)')
      BY <1>3 DEF AnnouncedInv
    <2>7. acked \subseteq acked' /\ own \in [1 .. Len(userEvents') -> Users] /\ CountInv(own)
      BY <1>1, <1>6 DEF RowsFit
    <2>8. \A k \in 1 .. Len(userEvents') : k \notin 1 .. Len(userEvents) => Counted(k)' = 0
      BY <1>1
    <2> QED
      BY <1>1, <1>3, <2>3, <2>4, <2>5, <2>6, <2>7, <2>8, CountKept
  <1>14. RowsInv'
    BY <1>1, <1>10, <1>11, <1>12, <1>13 DEF RowsInv
  <1> QED
    BY <1>1, <1>3, <1>8, <1>9, <1>14 DEF LedgerInv

LEMMA HandlerLedger ==
    ASSUME Types, Sole, AccurateInv, PageInv, LedgerInv, NEW h \in Handlers, HandlerStep(h)
    PROVE  LedgerInv'
  <1>1. Step(h)
    BY StepContext
  <1>2. CASE Quiet(h)
    BY <1>2, QuietLedger
  <1>3. CASE ~Quiet(h)
    BY <1>1, <1>3, AddLedger, AckLedger, StoreLedger DEF Quiet
  <1> QED
    BY <1>2, <1>3

-----------------------------------------------------------------------------
(* What the requests of the page read, sum up and list. *)

ReadFor(own, a) ==
    /\ \A u \in a.reading : own[a.rows[u].row] = u
    /\ \A k \in DOMAIN a.held : own[a.held[k].row] = a.held[k].user
Amid(a, u) == a.stage = "read2" /\ u \in a.reading
SumsFor(a) ==
    \A u \in Users \ overlapped : /\ Amid(a, u) => a.rows[u].ack <= Cardinality(Settled(u))
                                  /\ ~Amid(a, u) => Sum(u, a.rows[u])
StaleFor(a) ==
    a.acked \subseteq acked /\ a.events \cap a.acked \subseteq UNION {Announced(u) : u \in overlapped}
AskCounts(a) ==
    /\ \A own \in [1 .. Len(userEvents) -> Users] : RowsFit(own) => ReadFor(own, a)
    /\ SumsFor(a) /\ StaleFor(a)

LEMMA CountsForAll ==
    ASSUME CountsInv, NEW q \in Asks
    PROVE  /\ \A own : RowsFit(own) => ReadFor(own, ask[q])
           /\ SumsFor(ask[q]) /\ StaleFor(ask[q])
  <1>1. \A own : RowsFit(own) => ReadFor(own, ask[q])
    BY DEF RowsFit, ReadInv, ReadFor
  <1>2. SumsFor(ask[q])
    BY DEF CountsInv, SumsInv, SumsFor, Amid, Between
  <1>3. StaleFor(ask[q])
    BY DEF CountsInv, StaleInv, StaleFor
  <1> QED
    BY <1>1, <1>2, <1>3

\* The page goes on with one of its requests.
LEMMA PageCounts ==
    ASSUME CountsInv, NEW q \in Asks, Only(q), UNCHANGED <<vars, acked>>, AskCounts(ask'[q]),
           \A u \in Users \ overlapped : Sum(u, rows'[u])
    PROVE  CountsInv'
  <1>1. UNCHANGED <<mapUserData, userEvents, pending, at, todo, userEvent, overlapped, acked>>
    BY DEF vars
  <1>2. \A u : Announced(u)' = Announced(u)
    BY <1>1, AnnouncedSame
  <1>3. ComingInv'
    BY <1>1, <1>2 DEF CountsInv, LedgerInv, ComingInv, Coming, Listed
  <1>4. AckedInv'
    BY <1>1, <1>2 DEF CountsInv, LedgerInv, AckedInv, Coming, Listed
  <1>5. AnnouncedInv'
    BY <1>2 DEF CountsInv, LedgerInv, AnnouncedInv
  <1>6. PICK own \in [1 .. Len(userEvents) -> Users] : RowsFit(own)
    BY DEF CountsInv, LedgerInv, RowsInv, RowsFit
  <1>7. OwnInv(own)'
    BY <1>1, <1>6 DEF RowsFit, OwnInv, Holding, Item
  <1>8. ListInv(own)'
    BY <1>1, <1>2, <1>6 DEF RowsFit, ListInv, Listed
  <1>9. CountInv(own)'
    BY <1>1, <1>2, <1>6 DEF RowsFit, CountInv, Counted, Counting, Settled
  <1>10. ASSUME NEW p \in Asks
         PROVE  ReadFor(own, ask'[p]) /\ SumsFor(ask'[p]) /\ StaleFor(ask'[p])
    <2>1. CASE p = q
      BY <1>6, <2>1 DEF AskCounts
    <2>2. CASE p # q
      BY <1>6, <2>2, CountsForAll DEF Only
    <2> QED
      BY <2>1, <2>2
  <1>11. ReadInv(own)'
    BY <1>10 DEF ReadInv, ReadFor
  <1>12. RowsInv'
    BY <1>1, <1>6, <1>7, <1>8, <1>9, <1>11 DEF RowsInv
  <1>13. \A u : Cardinality(Settled(u))' = Cardinality(Settled(u))
    BY <1>1, <1>2 DEF Settled
  <1>14. SumsInv'
    BY <1>1, <1>2, <1>10, <1>13 DEF SumsInv, SumsFor, Amid, Between, Sum
  <1>15. StaleInv'
    BY <1>1, <1>2, <1>10 DEF StaleInv, StaleFor
  <1> QED
    BY <1>3, <1>4, <1>5, <1>12, <1>14, <1>15 DEF CountsInv, LedgerInv

\* A request that has not begun.
LEMMA NewCounts ==
    ASSUME LedgerInv, NEW a, a.reading = {}, a.held = <<>>, a.rows = NoRows, a.events = {},
           a.acked \subseteq acked
    PROVE  AskCounts(a)
  <1>1. \A own : ReadFor(own, a)
    BY DEF ReadFor
  <1>2. \A u \in Users : Cardinality(Announced(u)) \in Nat
    BY FS_CardinalityType DEF LedgerInv, AnnouncedInv
  <1>3. \A u \in Users : ~Amid(a, u) /\ a.rows[u].ack = 0 /\ a.rows[u].unack = 0
    BY NewAsks DEF Amid, NoRow
  <1>4. SumsFor(a)
    BY <1>2, <1>3 DEF SumsFor, Sum
  <1> QED
    BY <1>1, <1>4 DEF AskCounts, StaleFor

LEMMA ClickCounts ==
    ASSUME Types, PageInv, CountsInv, ClickReload \/ ClickList \/ ClickClear
    PROVE  CountsInv'
  <1>0. PageTypes /\ Len(userEvents) \in Nat /\ LedgerInv
    BY LenProperties DEF PageInv, Types, StatisticsTypeOK, CountsInv
  <1>1. UNCHANGED <<vars, rows, totals, list, acked>>
    BY <1>0, ClickFacts
  <1>2. PICK q \in Asks : Only(q) /\ (ask'[q] = Reload(0) \/ ask'[q] = List \/ ask'[q] = Clear)
    BY <1>0, ClickFacts
  <1>3. Reload(0).acked = {} /\ List.acked = acked /\ Clear.acked = {}
    BY <1>0, NewAsks, Starts DEF Reload, Clear, Ask
  <1>4. PICK b : b = ask'[q]
    OBVIOUS
  <1>5. /\ b.reading = {} /\ b.held = <<>> /\ b.rows = NoRows /\ b.events = {}
        /\ b.acked \subseteq acked
    BY <1>0, <1>2, <1>3, <1>4, Starts
  <1>6. AskCounts(b)
    BY <1>0, <1>5, NewCounts
  <1>7. \A u \in Users \ overlapped : Sum(u, rows'[u])
    BY <1>1 DEF CountsInv, SumsInv
  <1> QED
    BY <1>1, <1>2, <1>4, <1>6, <1>7, PageCounts

LEMMA ShowCounts ==
    ASSUME Types, PageInv, CountsInv, NEW q \in Asks, ShowTable(q) \/ ShowList(q) \/ ClearDone(q)
    PROVE  CountsInv'
  <1>0. PageTypes /\ LedgerInv
    BY DEF PageInv, CountsInv
  <1>1. UNCHANGED <<vars, acked>> /\ Only(q) /\ ask[q].stage = "answered"
    BY <1>0, ShowFacts, ClearDoneFacts
  <1>2. PICK b : b = ask'[q]
    OBVIOUS
  <1>3. /\ b.reading = {} /\ b.held = <<>> /\ b.rows = NoRows /\ b.events = {} /\ b.acked = {}
    <2>1. CASE ShowTable(q) \/ ShowList(q)
      BY <1>0, <1>2, <2>1, ShowFacts, NewAsks
    <2>2. CASE ClearDone(q)
      <3>1. PICK k \in Nat : b = Reload(k)
        BY <1>0, <1>2, <2>2, ClearDoneFacts
      <3>2. b.acked = {}
        BY <3>1, NewAsks DEF Reload, Ask
      <3> QED
        BY <1>0, <3>1, <3>2, Starts
    <2> QED
      BY <2>1, <2>2
  <1>4. AskCounts(b)
    BY <1>0, <1>3, NewCounts
  <1>5. \A u \in Users \ overlapped : Sum(u, rows'[u])
    <2>1. \A u \in Users \ overlapped : Sum(u, rows[u])
      BY DEF CountsInv, SumsInv
    <2>2. \A u \in Users \ overlapped : Sum(u, ask[q].rows[u])
      BY <1>1, CountsForAll DEF SumsFor, Amid
    <2>3. rows' = rows \/ rows' = ask[q].rows
      BY <1>0, ShowFacts, ClearDoneFacts DEF pageVars
    <2> QED
      BY <2>1, <2>2, <2>3
  <1> QED
    BY <1>1, <1>2, <1>4, <1>5, PageCounts

\* The iterator holds an entry of the table, with the row of its user.
LEMMA MoveOnReads ==
    ASSUME TableTypes, NEW rest \in SUBSET Users, NEW it \in MoveOn(rest), NEW own, OwnInv(own)
    PROVE  \A k \in DOMAIN it.held : own[it.held[k].row] = it.held[k].user
  <1>1. CASE it.held = <<>>
    BY <1>1
  <1>2. ASSUME NEW u \in rest, mapUserData[u] \in 1 .. Len(userEvents),
               it.held = <<[user |-> u, row |-> mapUserData[u]]>>
        PROVE  \A k \in DOMAIN it.held : own[it.held[k].row] = it.held[k].user
    <2>1. PICK entry : entry = [user |-> u, row |-> mapUserData[u]]
      OBVIOUS
    <2>2. it.held = <<entry>> /\ entry.row = mapUserData[u] /\ entry.user = u
      BY <1>2, <2>1
    <2>3. mapUserData[u] # 0
      BY <1>2
    <2>4. own[entry.row] = entry.user
      BY <2>2, <2>3 DEF OwnInv
    <2> QED
      BY <2>2, <2>4
  <1>3. \/ it.held = <<>>
        \/ \E u \in rest : /\ mapUserData[u] \in 1 .. Len(userEvents)
                           /\ it.held = <<[user |-> u, row |-> mapUserData[u]]>>
    BY MoveOnFacts
  <1> QED
    BY <1>1, <1>2, <1>3

\* Nothing that is read is summed up.
LEMMA SumsSame ==
    ASSUME NEW a, NEW b, SumsFor(a), a.stage # "read2", b.stage # "read2",
           \A u \in Users : b.rows[u].ack = a.rows[u].ack /\ b.rows[u].unack = a.rows[u].unack
    PROVE  SumsFor(b)
  BY DEF SumsFor, Amid, Sum

LEMMA BeginCounts ==
    ASSUME TableTypes, PageInv, CountsInv, NEW q \in Asks, BeginReading(q)
    PROVE  AskCounts(ask'[q])
  <1>0. PageTypes
    BY DEF PageInv
  <1>1. PICK a \in Ask : a = ask[q]
    BY <1>0 DEF PageTypes
  <1>2. PICK b : b = ask'[q]
    OBVIOUS
  <1>3. /\ a.stage = "sent" /\ b.stage = "next" /\ b.rows = a.rows /\ b.events = a.events
        /\ b.reading = a.reading /\ b.acked = a.acked
        /\ \E it \in MoveOn(Users) : b.held = it.held
    BY <1>0, <1>1, <1>2, BeginReadingFacts DEF Kept
  <1>4. SumsFor(a) /\ StaleFor(a) /\ \A own : RowsFit(own) => ReadFor(own, a)
    BY <1>1, CountsForAll
  <1>5. ASSUME NEW own, RowsFit(own)
        PROVE  ReadFor(own, b)
    <2>1. \A k \in DOMAIN b.held : own[b.held[k].row] = b.held[k].user
      BY <1>3, <1>5, MoveOnReads DEF RowsFit
    <2> QED
      BY <1>3, <1>4, <1>5, <2>1 DEF ReadFor
  <1>6. SumsFor(b)
    BY <1>3, <1>4, SumsSame
  <1>7. StaleFor(b)
    BY <1>3, <1>4 DEF StaleFor
  <1> QED
    BY <1>2, <1>5, <1>6, <1>7 DEF AskCounts

LEMMA EntryCounts ==
    ASSUME TableTypes, PageInv, CountsInv, NEW q \in Asks, NextEntry(q)
    PROVE  AskCounts(ask'[q])
  <1>0. PageTypes
    BY DEF PageInv
  <1>1. PICK a \in Ask : a = ask[q]
    BY <1>0 DEF PageTypes
  <1>2. PICK b : b = ask'[q]
    OBVIOUS
  <1>3. a.stage = "next" /\ b.stage = "read" /\ b.events = a.events /\ b.acked = a.acked
    BY <1>0, <1>1, <1>2, NextEntryFacts DEF Kept
  <1>4. PICK entry \in Entry, row \in Nat \ {0} :
           /\ entry = a.held[1] /\ 1 \in DOMAIN a.held
           /\ row = entry.row \/ row = mapUserData[entry.user]
           /\ b.reading = {entry.user} /\ b.rows[entry.user].row = row
           /\ b.rows[entry.user].ack = a.rows[entry.user].ack
           /\ b.rows[entry.user].unack = a.rows[entry.user].unack
           /\ \A v \in Users \ {entry.user} : b.rows[v] = a.rows[v]
    BY <1>0, <1>1, <1>2, NextEntryFacts
  <1>5. PICK it \in MoveOn(a.left) : b.held = it.held
    BY <1>0, <1>1, <1>2, NextEntryFacts
  <1>6. SumsFor(a) /\ StaleFor(a) /\ \A own : RowsFit(own) => ReadFor(own, a)
    BY <1>1, CountsForAll
  <1>7. ASSUME NEW own, RowsFit(own)
        PROVE  ReadFor(own, b)
    <2>1. a.left \in SUBSET Users /\ entry.user \in Users
      BY DEF Ask, Entry
    <2>2. OwnInv(own)
      BY <1>7 DEF RowsFit
    <2>3. \A k \in DOMAIN b.held : own[b.held[k].row] = b.held[k].user
      BY <1>5, <2>1, <2>2, MoveOnReads
    <2>4. own[entry.row] = entry.user
      BY <1>4, <1>6, <1>7 DEF ReadFor
    <2>5. row = mapUserData[entry.user] => own[row] = entry.user
      BY <2>1, <2>2 DEF OwnInv
    <2>6. own[row] = entry.user
      BY <1>4, <2>4, <2>5
    <2> QED
      BY <1>4, <2>3, <2>6 DEF ReadFor
  <1>8. SumsFor(b)
    <2>1. \A u \in Users : b.rows[u].ack = a.rows[u].ack /\ b.rows[u].unack = a.rows[u].unack
      BY <1>4
    <2> QED
      BY <1>3, <1>6, <2>1, SumsSame
  <1>9. StaleFor(b)
    BY <1>3, <1>6 DEF StaleFor
  <1> QED
    BY <1>2, <1>7, <1>8, <1>9 DEF AskCounts

LEMMA AnswerCounts ==
    ASSUME PageInv, CountsInv, NEW q \in Asks, AnswerPage(q)
    PROVE  AskCounts(ask'[q])
  <1>0. PageTypes
    BY DEF PageInv
  <1>1. PICK a : a = ask[q]
    OBVIOUS
  <1>2. PICK b : b = ask'[q]
    OBVIOUS
  <1>3. /\ a.stage = "next" /\ b.stage = "answered" /\ b.rows = a.rows /\ b.events = a.events
        /\ b.reading = a.reading /\ b.held = a.held /\ b.acked = a.acked
    BY <1>0, <1>1, <1>2, AnswerPageFacts DEF Kept
  <1>4. SumsFor(a) /\ StaleFor(a) /\ \A own : RowsFit(own) => ReadFor(own, a)
    BY <1>1, CountsForAll
  <1>5. \A own : RowsFit(own) => ReadFor(own, b)
    BY <1>3, <1>4 DEF ReadFor
  <1>6. SumsFor(b)
    BY <1>3, <1>4, SumsSame
  <1>7. StaleFor(b)
    BY <1>3, <1>4 DEF StaleFor
  <1> QED
    BY <1>2, <1>5, <1>6, <1>7 DEF AskCounts

\* The row that is read for a user lists and counts what was announced for the user.
LEMMA RowReadCounts ==
    ASSUME TableTypes, PageInv, FiniteRows, CountsInv, NEW q \in Asks, NEW u \in ask[q].reading
    PROVE  \E row \in UserEvent :
              /\ row = RowRead(q, u) /\ row.totalAckEvents \in Nat /\ IsFiniteSet(row.unAckEvents)
              /\ row.unAckEvents \subseteq Announced(u)
              /\ u \notin overlapped => /\ row.totalAckEvents <= Cardinality(Settled(u))
                                        /\ row.unAckEvents \cap acked = {}
  <1>1. PICK k \in 1 .. Len(userEvents) : k = ask[q].rows[u].row
    BY RowReadFacts
  <1>2. u \in Users /\ RowRead(q, u) = userEvents[k] /\ userEvents[k] \in UserEvent
    BY <1>1, RowReadFacts
  <1>3. PICK own \in [1 .. Len(userEvents) -> Users] : RowsFit(own)
    BY DEF CountsInv, LedgerInv, RowsInv, RowsFit
  <1>4. own[k] = u
    BY <1>1, <1>3, CountsForAll DEF ReadFor
  <1>5. userEvents[k].totalAckEvents \in Nat
    BY <1>2 DEF UserEvent
  <1>6. IsFiniteSet(userEvents[k].unAckEvents)
    BY DEF FiniteRows
  <1>7. Listed(k) \subseteq Announced(u)
    BY <1>3, <1>4 DEF RowsFit, ListInv
  <1>8. u \notin overlapped => Counted(k) <= Cardinality(Settled(u))
    BY <1>3, <1>4 DEF RowsFit, CountInv
  <1>9. ASSUME u \notin overlapped, NEW e \in Listed(k), e \in acked
        PROVE  FALSE
    <2>1. e \in NewsOf(Batches \ pending, u)
      BY <1>7, <1>9, AnnouncedIsNews
    <2>2. \E i \in Items : Announces(i, u, e)
      BY <2>1, NewsItem
    <2> QED
      BY <1>2, <1>9, <2>2 DEF CountsInv, LedgerInv, AckedInv
  <1> QED
    BY <1>2, <1>5, <1>6, <1>7, <1>8, <1>9 DEF Listed, Counted

LEMMA FirstCounts ==
    ASSUME TableTypes, PageInv, FiniteRows, CountsInv, NEW q \in Asks, NEW u \in Users, ReadFirst(q, u)
    PROVE  AskCounts(ask'[q])
  <1>0. PageTypes /\ AskFits(q)
    BY DEF PageInv
  <1>1. PICK a : a = ask[q]
    OBVIOUS
  <1>2. PICK b : b = ask'[q]
    OBVIOUS
  <1>3. /\ a.stage = "read" /\ b.stage = "read2" /\ u \in a.reading /\ b.reading = a.reading
        /\ b.events = a.events /\ b.acked = a.acked /\ b.held = a.held
        /\ b.rows[u].row = a.rows[u].row
        /\ b.rows[u].ack = RowRead(q, u).totalAckEvents
        /\ \A v \in Users \ {u} : b.rows[v] = a.rows[v]
    BY <1>1, <1>2, ReadFirstFacts DEF Kept
  <1>4. SumsFor(a) /\ StaleFor(a) /\ \A own : RowsFit(own) => ReadFor(own, a)
    BY <1>1, CountsForAll
  <1>5. \A v \in a.reading : v = u
    BY <1>0, <1>1, <1>3 DEF AskFits
  <1>6. \A own : RowsFit(own) => ReadFor(own, b)
    BY <1>3, <1>4, <1>5 DEF ReadFor
  <1>7. SumsFor(b)
    <2>1. u \notin overlapped => b.rows[u].ack <= Cardinality(Settled(u))
      BY <1>1, <1>3, RowReadCounts
    <2>2. \A v \in Users : v # u => ~Amid(b, v) /\ ~Amid(a, v) /\ b.rows[v] = a.rows[v]
      BY <1>3, <1>5 DEF Amid
    <2>3. Amid(b, u)
      BY <1>3 DEF Amid
    <2>4. \A v \in Users \ overlapped : v # u => Sum(v, b.rows[v])
      BY <1>4, <2>2 DEF SumsFor
    <2> QED
      BY <2>1, <2>2, <2>3, <2>4 DEF SumsFor
  <1>8. StaleFor(b)
    BY <1>3, <1>4 DEF StaleFor
  <1> QED
    BY <1>2, <1>6, <1>7, <1>8 DEF AskCounts

\* What was counted and what is listed after that are different events.
LEMMA CountAndList ==
    ASSUME NEW u, IsFiniteSet(Announced(u)), NEW listed, IsFiniteSet(listed),
           listed \subseteq Announced(u), listed \cap acked = {},
           NEW n \in Nat, n <= Cardinality(Settled(u))
    PROVE  n + Cardinality(listed) <= Cardinality(Announced(u))
  <1>1. PICK S : S = Settled(u)
    OBVIOUS
  <1>2. PICK A : A = Announced(u)
    OBVIOUS
  <1>3. S \in SUBSET A /\ listed \in SUBSET A /\ S \cap listed = {} /\ IsFiniteSet(A)
    BY <1>1, <1>2 DEF Settled
  <1>4. IsFiniteSet(S)
    BY <1>3, FS_Subset
  <1>5. /\ IsFiniteSet(S \cup listed)
        /\ Cardinality(S \cup listed) =
              Cardinality(S) + Cardinality(listed) - Cardinality(S \cap listed)
    BY <1>4, FS_Union
  <1>6. Cardinality(S \cap listed) = 0
    BY <1>3, FS_EmptySet
  <1>7. S \cup listed \in SUBSET A
    BY <1>3
  <1>8. Cardinality(S \cup listed) <= Cardinality(A)
    BY <1>3, <1>7, FS_Subset
  <1>9. Cardinality(S) \in Nat /\ Cardinality(listed) \in Nat /\ Cardinality(A) \in Nat
    BY <1>3, <1>4, FS_CardinalityType
  <1>10. n <= Cardinality(S)
    BY <1>1
  <1>11. Cardinality(S) + Cardinality(listed) <= Cardinality(A)
    BY <1>5, <1>6, <1>8, <1>9
  <1>12. n + Cardinality(listed) <= Cardinality(A)
    BY <1>9, <1>10, <1>11
  <1> QED
    BY <1>2, <1>12

LEMMA SecondCounts ==
    ASSUME TableTypes, PageInv, FiniteRows, CountsInv, NEW q \in Asks, NEW u \in Users, ReadSecond(q, u)
    PROVE  AskCounts(ask'[q])
  <1>0. PageTypes /\ AskFits(q)
    BY DEF PageInv
  <1>1. PICK a \in Ask : a = ask[q]
    BY <1>0 DEF PageTypes
  <1>2. PICK b : b = ask'[q]
    OBVIOUS
  <1>3. /\ a.stage = "read2" /\ b.stage = "next" /\ u \in a.reading /\ b.reading = {}
        /\ b.events = a.events /\ b.acked = a.acked /\ b.held = a.held
        /\ b.rows[u].ack = a.rows[u].ack
        /\ b.rows[u].unack = Cardinality(RowRead(q, u).unAckEvents)
        /\ \A v \in Users \ {u} : b.rows[v] = a.rows[v]
    BY <1>1, <1>2, ReadSecondFacts DEF Kept
  <1>4. SumsFor(a) /\ StaleFor(a) /\ \A own : RowsFit(own) => ReadFor(own, a)
    BY <1>1, CountsForAll
  <1>5. \A own : RowsFit(own) => ReadFor(own, b)
    BY <1>3, <1>4 DEF ReadFor
  <1>6. ASSUME u \notin overlapped
        PROVE  Sum(u, b.rows[u])
    <2>1. PICK n \in Nat : n = a.rows[u].ack
      BY DEF Ask, Shown
    <2>2. n <= Cardinality(Settled(u))
      BY <1>3, <1>4, <1>6, <2>1 DEF SumsFor, Amid
    <2>3. PICK listed : listed = RowRead(q, u).unAckEvents
      OBVIOUS
    <2>4. IsFiniteSet(listed) /\ listed \subseteq Announced(u) /\ listed \cap acked = {}
      BY <1>1, <1>3, <1>6, <2>3, RowReadCounts
    <2>5. IsFiniteSet(Announced(u))
      BY DEF CountsInv, LedgerInv, AnnouncedInv
    <2>6. n + Cardinality(listed) <= Cardinality(Announced(u))
      BY <2>2, <2>4, <2>5, CountAndList
    <2> QED
      BY <1>3, <2>1, <2>3, <2>6 DEF Sum
  <1>7. SumsFor(b)
    <2>1. \A v \in Users : ~Amid(b, v)
      BY <1>3 DEF Amid
    <2>2. \A v \in a.reading : v = u
      BY <1>0, <1>1, <1>3 DEF AskFits
    <2>3. \A v \in Users : v # u => ~Amid(a, v) /\ b.rows[v] = a.rows[v]
      BY <1>3, <2>2 DEF Amid
    <2>4. \A v \in Users \ overlapped : v # u => Sum(v, b.rows[v])
      BY <1>4, <2>3 DEF SumsFor
    <2> QED
      BY <1>6, <2>1, <2>4 DEF SumsFor
  <1>8. StaleFor(b)
    BY <1>3, <1>4 DEF StaleFor
  <1> QED
    BY <1>2, <1>5, <1>7, <1>8 DEF AskCounts

LEMMA EventsCounts ==
    ASSUME TableTypes, PageInv, FiniteRows, CountsInv, NEW q \in Asks, NEW u \in Users, ReadEvents(q, u)
    PROVE  AskCounts(ask'[q])
  <1>0. PageTypes
    BY DEF PageInv
  <1>1. PICK a : a = ask[q]
    OBVIOUS
  <1>2. PICK b : b = ask'[q]
    OBVIOUS
  <1>3. /\ a.stage = "read" /\ b.stage = "next" /\ u \in a.reading /\ b.reading = {}
        /\ b.rows = a.rows /\ b.acked = a.acked /\ b.held = a.held
        /\ b.events \subseteq a.events \cup RowRead(q, u).unAckEvents
    BY <1>1, <1>2, ReadEventsFacts DEF Kept
  <1>4. SumsFor(a) /\ StaleFor(a) /\ \A own : RowsFit(own) => ReadFor(own, a)
    BY <1>1, CountsForAll
  <1>5. \A own : RowsFit(own) => ReadFor(own, b)
    BY <1>3, <1>4 DEF ReadFor
  <1>6. SumsFor(b)
    BY <1>3, <1>4, SumsSame
  <1>7. PICK listed : /\ listed = RowRead(q, u).unAckEvents /\ listed \subseteq Announced(u)
                      /\ u \notin overlapped => listed \cap acked = {}
    BY <1>1, <1>3, RowReadCounts
  <1>8. ASSUME NEW e \in b.events \cap b.acked
        PROVE  \E v \in overlapped : e \in Announced(v)
    <2>1. e \in acked
      BY <1>3, <1>4 DEF StaleFor
    <2>2. CASE e \in a.events
      BY <1>3, <1>4, <2>2 DEF StaleFor
    <2>3. CASE e \in listed
      BY <1>7, <2>1, <2>3
    <2> QED
      BY <1>3, <1>7, <2>2, <2>3
  <1>9. StaleFor(b)
    BY <1>3, <1>4, <1>8 DEF StaleFor
  <1> QED
    BY <1>2, <1>5, <1>6, <1>9 DEF AskCounts

LEMMA ReadCounts ==
    ASSUME Types, PageInv, FiniteRows, CountsInv, NEW q \in Asks, Read(q)
    PROVE  CountsInv'
  <1>0. TableTypes /\ PageTypes
    BY TypesSplit DEF PageInv
  <1>1. UNCHANGED <<vars, pageVars, acked>> /\ Only(q)
    BY <1>0, BeginReadingFacts, NextEntryFacts, AnswerPageFacts, ReadFirstFacts, ReadSecondFacts,
       ReadEventsFacts DEF Read
  <1>2. AskCounts(ask'[q])
    BY <1>0, BeginCounts, EntryCounts, AnswerCounts, FirstCounts, SecondCounts, EventsCounts DEF Read
  <1>3. \A u \in Users \ overlapped : Sum(u, rows'[u])
    BY <1>1 DEF pageVars, CountsInv, SumsInv
  <1> QED
    BY <1>1, <1>2, <1>3, PageCounts

\* What is summed up and listed stays within what was announced.
LEMMA SumsKept ==
    ASSUME PageInv, CountsInv, LedgerInv', UNCHANGED rows, acked \subseteq acked', overlapped \subseteq overlapped',
           \A u : Announced(u) \subseteq Announced(u)',
           \A p \in Asks : Like(ask'[p], ask[p]) /\ (ask'[p].stage = "read2" <=> ask[p].stage = "read2")
    PROVE  SumsInv' /\ StaleInv'
  <1>1. ASSUME NEW u \in Users
        PROVE  /\ Cardinality(Settled(u)) \in Nat /\ Cardinality(Settled(u)') \in Nat
               /\ Cardinality(Settled(u)) <= Cardinality(Settled(u)')
               /\ Cardinality(Announced(u)) \in Nat /\ Cardinality(Announced(u)') \in Nat
               /\ Cardinality(Announced(u)) <= Cardinality(Announced(u)')
    <2>1. IsFiniteSet(Announced(u)')
      BY DEF LedgerInv, AnnouncedInv
    <2> QED
      BY <2>1, SettledGrows
  <1>2. ASSUME NEW u \in Users \ overlapped', NEW row \in Shown, Sum(u, row)
        PROVE  row.ack + row.unack <= Cardinality(Announced(u)')
    <2>1. PICK m \in Nat : m = row.ack
      BY DEF Shown
    <2>2. PICK n \in Nat : n = row.unack
      BY DEF Shown
    <2> QED
      BY <1>1, <1>2, <2>1, <2>2 DEF Sum
  <1>3. ASSUME NEW u \in Users \ overlapped'
        PROVE  rows[u].ack + rows[u].unack <= Cardinality(Announced(u)')
    BY <1>2, <1>3 DEF CountsInv, SumsInv, PageInv, PageTypes
  <1>4. ASSUME NEW u \in Users \ overlapped', NEW q \in Asks
        PROVE  /\ Between(q, u) => ask[q].rows[u].ack <= Cardinality(Settled(u)')
               /\ ~Between(q, u) => ask[q].rows[u].ack + ask[q].rows[u].unack <= Cardinality(Announced(u)')
    <2>1. PICK row \in Shown : row = ask[q].rows[u]
      BY DEF PageInv, PageTypes, Ask
    <2>2. PICK m \in Nat : m = row.ack
      BY DEF Shown
    <2>3. Between(q, u) => m <= Cardinality(Settled(u))
      BY <2>1, <2>2 DEF CountsInv, SumsInv
    <2>4. Between(q, u) => m <= Cardinality(Settled(u)')
      BY <1>1, <2>3
    <2>5. ~Between(q, u) => row.ack + row.unack <= Cardinality(Announced(u)')
      BY <1>2, <1>4, <2>1 DEF CountsInv, SumsInv
    <2> QED
      BY <2>1, <2>2, <2>4, <2>5
  <1>5. \A q \in Asks : \A u \in Users : /\ Between(q, u)' <=> Between(q, u)
                                         /\ ask'[q].rows[u] = ask[q].rows[u]
    BY DEF Between, Like
  <1>6. SumsInv'
    BY <1>3, <1>4, <1>5 DEF SumsInv, Sum
  <1>7. \A q \in Asks : ask'[q].acked = ask[q].acked /\ ask'[q].events = ask[q].events
    BY DEF Like
  <1>8. StaleInv'
    BY <1>7 DEF CountsInv, StaleInv
  <1> QED
    BY <1>6, <1>8

LEMMA HandlerCounts ==
    ASSUME Types, Sole, AccurateInv, PageInv, CountsInv, NEW h \in Handlers, HandlerStep(h)
    PROVE  CountsInv'
  <1>0. PageTypes /\ LedgerInv
    BY DEF PageInv, CountsInv
  <1>1. /\ UNCHANGED overlapped /\ acked \subseteq acked'
        /\ \A u : Announced(u)' = Announced(u)
    BY StepContext
  <1>2. UNCHANGED rows /\ \A p \in Asks : Like(ask'[p], ask[p])
    BY <1>0, HandlerStepFacts DEF pageVars
  <1>3. ASSUME NEW p \in Asks
        PROVE  ask'[p].stage = "read2" <=> ask[p].stage = "read2"
    <2>1. CASE h \in ask[p].handler /\ at'[h] = "idle"
      <3>1. ask[p].stage = "clearing"
        BY <2>1 DEF PageInv, AskFits
      <3>2. ask'[p].stage = "answered"
        BY <1>0, <2>1, HandlerStepFacts
      <3> QED
        BY <3>1, <3>2
    <2>2. CASE ~(h \in ask[p].handler /\ at'[h] = "idle")
      BY <1>0, <2>2, HandlerStepFacts
    <2> QED
      BY <2>1, <2>2
  <1>4. LedgerInv'
    BY <1>0, HandlerLedger
  <1>5. \A p \in Asks : Like(ask'[p], ask[p]) /\ (ask'[p].stage = "read2" <=> ask[p].stage = "read2")
    BY <1>2, <1>3
  <1> QED
    BY <1>1, <1>2, <1>4, <1>5, SumsKept DEF CountsInv

LEMMA RequestCounts ==
    ASSUME Types, PageInv, CountsInv, NEW h \in Handlers, Request(h), UNCHANGED <<rows, acked>>,
           \A p \in Asks : Like(ask'[p], ask[p]) /\ (ask'[p].stage = "read2" <=> ask[p].stage = "read2")
    PROVE  CountsInv'
  <1>1. \A p \in Asks : SameReads(p)
    BY DEF Like, SameReads
  <1>2. LedgerInv' /\ overlapped \subseteq overlapped'
    BY <1>1, RequestLedger DEF CountsInv
  <1>3. \A u : Announced(u) \subseteq Announced(u)'
    BY RequestNews DEF CountsInv, LedgerInv
  <1> QED
    BY <1>2, <1>3, SumsKept DEF CountsInv

LEMMA OthersCounts ==
    ASSUME Types, PageInv, CountsInv, NEW h \in Handlers, OthersRequest(h)
    PROVE  CountsInv'
  <1>1. Request(h) /\ UNCHANGED <<rows, acked>>
    BY DEF OthersRequest, Request, pageVars
  <1>2. \A p \in Asks : Staying(ask'[p], ask[p])
    BY OthersFacts DEF OthersRequest, PageInv
  <1>3. \A p \in Asks : Like(ask'[p], ask[p]) /\ (ask'[p].stage = "read2" <=> ask[p].stage = "read2")
    BY <1>2 DEF Staying
  <1> QED
    BY <1>1, <1>3, RequestCounts

LEMMA HandleClearCounts ==
    ASSUME Types, PageInv, CountsInv, NEW h \in Handlers, NEW q \in Asks, HandleClear(q, h)
    PROVE  CountsInv'
  <1>1. Request(h) /\ UNCHANGED <<rows, acked>>
    BY DEF HandleClear, Request, pageVars
  <1>2. /\ ask[q].stage = "sent" /\ ask'[q].stage = "clearing" /\ Like(ask'[q], ask[q])
        /\ \A p \in Asks \ {q} : Staying(ask'[p], ask[p])
    BY HandleClearFacts DEF PageInv
  <1>3. \A p \in Asks : Like(ask'[p], ask[p]) /\ (ask'[p].stage = "read2" <=> ask[p].stage = "read2")
    BY <1>2 DEF Staying
  <1> QED
    BY <1>1, <1>3, RequestCounts

LEMMA NextCounts == TableInv /\ CountsInv /\ [TableNext]_tableVars => CountsInv'
  <1> SUFFICES ASSUME TableInv, CountsInv, [TableNext]_tableVars PROVE CountsInv'
    OBVIOUS
  <1>1. Types /\ Sole /\ AccurateInv /\ FiniteRows /\ PageInv
    BY DEF TableInv, StatisticsInv
  <1>2. CASE TableNext
    BY <1>1, <1>2, ClickCounts, HandlerCounts, OthersCounts, HandleClearCounts, ReadCounts,
       ShowCounts DEF TableNext
  <1>3. CASE UNCHANGED tableVars
    <2>1. /\ UNCHANGED <<mapUserData, userEvents, pending, at, todo, userEvent, overlapped, acked>>
          /\ UNCHANGED <<ask, rows>>
      BY <1>3 DEF tableVars, vars, pageVars
    <2>2. \A u : Announced(u)' = Announced(u)
      BY <2>1, AnnouncedSame
    <2>3. ComingInv' /\ AckedInv' /\ AnnouncedInv'
      BY <2>1, <2>2 DEF CountsInv, LedgerInv, ComingInv, AckedInv, AnnouncedInv, Coming, Listed
    <2>4. RowsInv'
      <3>1. PICK own \in [1 .. Len(userEvents) -> Users] : RowsFit(own)
        BY DEF CountsInv, LedgerInv, RowsInv, RowsFit
      <3>2. OwnInv(own)' /\ ReadInv(own)'
        BY <2>1, <3>1 DEF RowsFit, OwnInv, ReadInv, Holding, Item
      <3>3. ListInv(own)'
        BY <2>1, <2>2, <3>1 DEF RowsFit, ListInv, Listed
      <3>4. CountInv(own)'
        BY <2>1, <2>2, <3>1 DEF RowsFit, CountInv, Counted, Counting, Settled
      <3> QED
        BY <2>1, <3>1, <3>2, <3>3, <3>4 DEF RowsInv
    <2>5. SumsInv' /\ StaleInv'
      BY <2>1, <2>2 DEF CountsInv, SumsInv, StaleInv, Sum, Between, Settled
    <2> QED
      BY <2>3, <2>4, <2>5 DEF CountsInv, LedgerInv
  <1> QED
    BY <1>2, <1>3

LEMMA InitCounts == TableInit => CountsInv
  <1> SUFFICES ASSUME TableInit PROVE CountsInv
    OBVIOUS
  <1>1. /\ Len(userEvents) = 0 /\ pending = Batches /\ acked = {} /\ rows = NoRows
        /\ ask = [q \in Asks |-> NoAsk] /\ \A u \in Users : mapUserData[u] = 0
        /\ \A h \in Handlers : at[h] = "idle" /\ todo[h] = <<>>
    BY EmptySeq DEF TableInit, Init
  <1>2. \A u : Announced(u) = {}
    BY <1>1 DEF Announced
  <1>3. \A h \in Handlers : ~Holding(h) /\ ~Counting(h)
    BY <1>1 DEF Holding, Counting, Updating
  <1>4. ComingInv
    BY <1>1, EmptySeq DEF ComingInv, Coming
  <1>5. AckedInv
    BY <1>1 DEF AckedInv
  <1>6. AnnouncedInv
    BY <1>2, FS_EmptySet DEF AnnouncedInv
  <1>7. PICK b : b = NoAsk
    OBVIOUS
  <1>8. /\ b.reading = {} /\ b.held = <<>> /\ b.rows = NoRows /\ b.events = {} /\ b.acked = {}
        /\ \A q \in Asks : ask[q] = b
    BY <1>1, <1>7, NewAsks
  <1>9. PICK own : own = [k \in 1 .. Len(userEvents) |-> CHOOSE u \in Users : TRUE]
    OBVIOUS
  <1>10. own \in [1 .. Len(userEvents) -> Users]
    BY <1>1, <1>9
  <1>11. OwnInv(own) /\ ReadInv(own)
    BY <1>1, <1>3, <1>8 DEF OwnInv, ReadInv
  <1>12. ListInv(own) /\ CountInv(own)
    BY <1>1 DEF ListInv, CountInv
  <1>13. LedgerInv
    BY <1>4, <1>5, <1>6, <1>10, <1>11, <1>12 DEF LedgerInv, RowsInv
  <1>14. \A u \in Users : Sum(u, NoRows[u])
    <2>1. \A u \in Users : NoRows[u].ack = 0 /\ NoRows[u].unack = 0
      BY NewAsks DEF NoRow
    <2>2. \A u : Cardinality(Announced(u)) = 0
      BY <1>2, FS_EmptySet
    <2> QED
      BY <2>1, <2>2 DEF Sum
  <1>15. SumsInv
    BY <1>1, <1>8, <1>14 DEF SumsInv, Between
  <1>16. StaleInv
    BY <1>8 DEF StaleInv
  <1> QED
    BY <1>13, <1>15, <1>16 DEF CountsInv

LEMMA AlwaysCounts == TableSpec => []CountsInv
  BY AlwaysTable, InitCounts, NextCounts, PTL DEF TableSpec

\* However the reading of the rows overlaps with their updates, the page never shows
\* more acknowledged and unacknowledged events of a user, together, than were announced
\* for the user.  The count is read first, and an event that is counted later was
\* listed before: the invariant bounds each count by the events that were settled until
\* then, which no row lists any more and no batch announces again.
THEOREM NothingOvercounted == TableSpec => []NeverOvercounts
  <1>1. CountsInv => NeverOvercounts
    BY DEF CountsInv, SumsInv, Sum, NeverOvercounts
  <1> QED
    BY <1>1, AlwaysCounts, PTL

ListedIsFresh ==
    \A q \in Asks : Shows(q, "list") => list' \cap ask[q].acked \subseteq
        UNION {Announced(u) : u \in overlapped}

\* The list of missing events that the page shows holds no event whose acknowledgement
\* had been counted when the user asked for it, unless requests about its user
\* overlapped: an event that has left a list never comes back to any row.
THEOREM ShownListIsFresh == TableSpec => ListIsFresh
  <1>1. TableInv /\ CountsInv /\ [TableNext]_tableVars => [ListedIsFresh]_tableVars
    <2> SUFFICES ASSUME TableInv, CountsInv, [TableNext]_tableVars, NEW q \in Asks, Shows(q, "list")
                 PROVE  list' \cap ask[q].acked \subseteq UNION {Announced(u) : u \in overlapped}
      BY DEF ListedIsFresh
    <2>1. ShowList(q)
      BY ShowsFacts
    <2>2. list' = ask[q].events
      BY <2>1 DEF ShowList
    <2> QED
      BY <2>2 DEF CountsInv, StaleInv
  <1>2. TableSpec => [][ListedIsFresh]_tableVars
    BY <1>1, AlwaysCounts, AlwaysTable, PTL DEF TableSpec
  <1> QED
    BY <1>2 DEF ListIsFresh, ListedIsFresh
=============================================================================
