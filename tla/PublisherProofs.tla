-------------------------- MODULE PublisherProofs ---------------------------
(***************************************************************************)
(* Proofs about Publisher for every set of users and workers, every number *)
(* of messages, failures and clicks.  What BulkDataProofs proves of the    *)
(* dispatcher holds in the publisher because every step of the publisher   *)
(* is one of the dispatcher or leaves it alone.                            *)
(***************************************************************************)
EXTENDS Publisher, TLAPS

Proved == INSTANCE BulkDataProofs WITH Items <- Events

-----------------------------------------------------------------------------
(* The players. *)

\* How many requests a player has made, by how far it is with its messages: the
\* number that generateRequestId returns next runs ahead of the loop counter from
\* the moment it is filled in until the turn ends.
Requested(u) == requestId[u] = message[u] + IF player[u] \in {"add", "added"} THEN 2 ELSE 1

\* What a player has handed in: all of its requests, the last one only once
\* addMessage was called.
HandedIn(u) ==
    \A n \in 1 .. MaxMessages :
        <<u, n>> \in added <=> n < requestId[u] - IF player[u] = "add" THEN 1 ELSE 0

\* A payload names the request made last, or none while it is being rewritten.
Current(u) ==
    /\ userModal[u].requestId \in {0, requestId[u] - 1}
    /\ player[u] \in {"user", "request"} => userModal[u].requestId = 0

\* A paused turn takes i back by one unless it is 0: the first turn of a player is
\* never a paused one.
PlayerInv ==
    \A u \in Users :
        /\ Requested(u) /\ HandedIn(u) /\ Current(u)
        /\ player[u] \in {"user", "request", "add", "added"} => message[u] < MaxMessages
        /\ player[u] = "complete" => message[u] = MaxMessages
        /\ pausedSeen[u] => message[u] > 0

\* The part of the type invariant that is about the players and the operator.
PlayerTypeOK ==
    /\ player \in [Users -> PlayerState]
    /\ message \in [Users -> 0 .. MaxMessages]
    /\ pausedSeen \in [Users -> BOOLEAN]
    /\ requestId \in [Users -> 1 .. MaxMessages + 1]
    /\ userModal \in [Users -> Payload]
    /\ missionPaused \in BOOLEAN
    /\ toggles \in 0 .. MaxToggles
    /\ added \in SUBSET Events

LEMMA InitPlayers == Init => PlayerTypeOK /\ PlayerInv
  <1> SUFFICES ASSUME Init
               PROVE  PlayerTypeOK /\ PlayerInv
    OBVIOUS
  <1> USE PublisherAssumption DEF PublisherAssumption, Init
  <1>1. PlayerTypeOK
    <2>1. pausedSeen \in [Users -> BOOLEAN] /\ missionPaused \in BOOLEAN
      OBVIOUS
    <2>2. userModal \in [Users -> Payload]
      BY DEF Payload, Template
    <2> QED
      BY <2>1, <2>2 DEF PlayerTypeOK, PlayerState, Bulk!Init
  <1>2. ASSUME NEW u \in Users
        PROVE  Requested(u) /\ HandedIn(u) /\ Current(u)
    BY DEF Requested, HandedIn, Current, Template, Bulk!Init
  <1> QED
    BY <1>1, <1>2 DEF PlayerInv

\* What belongs to one player stays as it is when another one takes a step.
LEMMA OthersStay ==
    ASSUME PlayerInv, NEW u \in Users,
           \A v \in Users \ {u} :
              /\ player'[v] = player[v] /\ message'[v] = message[v]
              /\ requestId'[v] = requestId[v] /\ userModal'[v] = userModal[v]
              /\ pausedSeen'[v] = pausedSeen[v]
              /\ \A n \in 1 .. MaxMessages : <<v, n>> \in added' <=> <<v, n>> \in added,
           Requested(u)', HandedIn(u)', Current(u)',
           player'[u] \in {"user", "request", "add", "added"} => message'[u] < MaxMessages,
           player'[u] = "complete" => message'[u] = MaxMessages,
           pausedSeen'[u] => message'[u] > 0
    PROVE  PlayerInv'
  <1>1. ASSUME NEW v \in Users \ {u}
        PROVE  Requested(v)' /\ HandedIn(v)' /\ Current(v)'
    BY <1>1 DEF PlayerInv, Requested, HandedIn, Current
  <1> QED
    BY <1>1 DEF PlayerInv

\* A turn of a player, however it is interrupted, keeps count of what it made and
\* handed in.
LEMMA PlayerKeeps ==
    ASSUME PlayerTypeOK, PlayerInv, isPaused \in BOOLEAN, NEW u \in Users, PlayerStep(u)
    PROVE  PlayerTypeOK' /\ PlayerInv'
  <1> USE PublisherAssumption DEF PublisherAssumption, PlayerTypeOK, PlayerState
  <1>0. /\ Requested(u) /\ HandedIn(u) /\ Current(u)
        /\ player[u] \in {"user", "request", "add", "added"} => message[u] < MaxMessages
        /\ requestId[u] \in 1 .. MaxMessages + 1 /\ message[u] \in 0 .. MaxMessages
        /\ pausedSeen[u] => message[u] > 0
    BY DEF PlayerInv
  <1>1. CASE BeginMessage(u)
    <2>1. PlayerTypeOK'
      BY <1>1 DEF BeginMessage, bulkVars, controlVars, Payload, Template
    <2>2. Requested(u)' /\ HandedIn(u)' /\ Current(u)'
      BY <1>0, <1>1 DEF BeginMessage, bulkVars, Requested, HandedIn, Current, Template
    <2> QED
      BY <1>0, <1>1, <2>1, <2>2, OthersStay DEF BeginMessage, bulkVars
  <1>2. CASE FillUserId(u)
    <2>1. PlayerTypeOK'
      BY <1>2 DEF FillUserId, bulkVars, controlVars, Payload
    <2>2. Requested(u)' /\ HandedIn(u)' /\ Current(u)'
      BY <1>0, <1>2 DEF FillUserId, bulkVars, Requested, HandedIn, Current, Payload
    <2> QED
      BY <1>0, <1>2, <2>1, <2>2, OthersStay DEF FillUserId, bulkVars
  <1>3. CASE FillRequestId(u)
    <2>1. requestId[u] \in 1 .. MaxMessages
      BY <1>0, <1>3 DEF FillRequestId, Requested
    <2>2. PlayerTypeOK'
      BY <1>3, <2>1 DEF FillRequestId, bulkVars, controlVars, Payload
    <2>3. Requested(u)' /\ HandedIn(u)' /\ Current(u)'
      BY <1>0, <1>3 DEF FillRequestId, bulkVars, Requested, HandedIn, Current, Payload
    <2> QED
      BY <1>0, <1>3, <2>2, <2>3, OthersStay DEF FillRequestId, bulkVars
  <1>4. CASE AddMessage(u)
    <2>1. requestId[u] - 1 \in 1 .. MaxMessages
      BY <1>0, <1>4 DEF AddMessage, Requested
    <2>2. /\ added' = added \cup {<<u, requestId[u] - 1>>}
          /\ player' = [player EXCEPT ![u] = "added"]
          /\ UNCHANGED <<message, pausedSeen, requestId, userModal, missionPaused, toggles>>
      BY <1>4 DEF AddMessage, Bulk!AddMessage, TrackMsg, controlVars
    <2>3. PlayerTypeOK'
      BY <2>1, <2>2 DEF Events
    <2>4. Requested(u)' /\ Current(u)'
      BY <1>0, <1>4, <2>2 DEF AddMessage, Requested, Current
    <2>5. HandedIn(u)'
      BY <1>0, <1>4, <2>1, <2>2 DEF AddMessage, HandedIn
    <2>6. \A v \in Users \ {u}, n \in 1 .. MaxMessages : <<v, n>> \in added' <=> <<v, n>> \in added
      BY <2>2
    <2> QED
      BY <1>0, <1>4, <2>2, <2>3, <2>4, <2>5, <2>6, OthersStay DEF AddMessage
  <1>5. CASE SeeFlag(u)
    <2>1. PlayerTypeOK'
      BY <1>0, <1>5 DEF SeeFlag, bulkVars, controlVars
    <2>2. Requested(u)' /\ HandedIn(u)' /\ Current(u)'
      BY <1>0, <1>5 DEF SeeFlag, bulkVars, Requested, HandedIn, Current
    <2> QED
      BY <1>0, <1>5, <2>1, <2>2, OthersStay DEF SeeFlag, bulkVars
  <1>6. CASE AwaitResume(u)
    <2>1. message' = message
      BY <1>0, <1>6 DEF AwaitResume
    <2>2. PlayerTypeOK'
      BY <1>0, <1>6, <2>1 DEF AwaitResume, bulkVars, controlVars
    <2>3. Requested(u)' /\ HandedIn(u)' /\ Current(u)'
      BY <1>0, <1>6, <2>1 DEF AwaitResume, bulkVars, Requested, HandedIn, Current
    <2> QED
      BY <1>0, <1>6, <2>1, <2>2, <2>3, OthersStay DEF AwaitResume, bulkVars
  <1>7. CASE Complete(u)
    <2>1. PlayerTypeOK'
      BY <1>7 DEF Complete, bulkVars, controlVars
    <2>2. Requested(u)' /\ HandedIn(u)' /\ Current(u)'
      BY <1>0, <1>7 DEF Complete, bulkVars, Requested, HandedIn, Current
    <2> QED
      BY <1>0, <1>7, <2>1, <2>2, OthersStay DEF Complete, bulkVars
  <1> QED
    BY <1>1, <1>2, <1>3, <1>4, <1>5, <1>6, <1>7 DEF PlayerStep

\* Workers, Mission Control and the operator touch nothing of the players.
LEMMA OthersKeepPlayers ==
    ASSUME PlayerTypeOK, PlayerInv,
           (\E w \in Workers : WorkerStep(w) \/ Handle(w) \/ Failure(w))
           \/ (\E paused \in BOOLEAN : SetPaused(paused)) \/ UNCHANGED vars
    PROVE  PlayerTypeOK' /\ PlayerInv'
  <1>1. UNCHANGED <<playerVars, added>>
    <2>1. ASSUME NEW w \in Workers, Dispatch(w)
          PROVE  UNCHANGED <<playerVars, added>>
      BY <2>1 DEF Dispatch, Bulk!Take, Bulk!Flush, Bulk!ReceiveReply, Bulk!FinishPublish,
                  Bulk!historyVars
    <2>2. ASSUME NEW w \in Workers, EventSent(w)
          PROVE  UNCHANGED <<playerVars, added>>
      BY <2>2 DEF EventSent, Bulk!NotifyItem, Bulk!historyVars
    <2>3. ASSUME NEW w \in Workers, Handle(w) \/ Failure(w)
          PROVE  UNCHANGED <<playerVars, added>>
      BY <2>3 DEF Handle, Bulk!Handle, Failure, Bulk!Failure, Bulk!PutFails, Bulk!HandlerFails,
                  Bulk!historyVars
    <2> QED
      BY <2>1, <2>2, <2>3 DEF WorkerStep, SetPaused, vars, bulkVars
  <1>2. missionPaused' \in BOOLEAN /\ toggles' \in 0 .. MaxToggles
    <2>1. CASE \E paused \in BOOLEAN : SetPaused(paused)
      BY <2>1, PublisherAssumption DEF PublisherAssumption, SetPaused, PlayerTypeOK
    <2>2. CASE UNCHANGED controlVars
      BY <2>2 DEF PlayerTypeOK, controlVars
    <2> QED
      BY <2>1, <2>2 DEF WorkerStep, EventSent, Dispatch, Handle, Failure, vars
  <1>3. PlayerTypeOK'
    BY <1>1, <1>2 DEF PlayerTypeOK, playerVars
  <1>4. PlayerInv'
    BY <1>1 DEF PlayerInv, playerVars, Requested, HandedIn, Current
  <1> QED
    BY <1>3, <1>4

-----------------------------------------------------------------------------
(* The dispatcher in the publisher. *)

\* The message that a player is about to hand in names one of its events.
LEMMA TrackMsgIsEvent ==
    ASSUME PlayerTypeOK, PlayerInv, NEW u \in Users, player[u] = "add"
    PROVE  TrackMsg(u) \in Events
  <1>1. requestId[u] = message[u] + 2 /\ message[u] \in 0 .. MaxMessages /\ message[u] < MaxMessages
    BY DEF PlayerTypeOK, PlayerInv, Requested
  <1> QED
    BY <1>1, PublisherAssumption DEF PublisherAssumption, TrackMsg, Events

\* A step of the publisher is a step of the dispatcher, or leaves it alone.
LEMMA StepDispatches ==
    PlayerTypeOK /\ PlayerInv /\ [Next]_vars => [Bulk!Next]_bulkVars
  <1> SUFFICES ASSUME PlayerTypeOK, PlayerInv, [Next]_vars
               PROVE  [Bulk!Next]_bulkVars
    OBVIOUS
  <1>1. ASSUME NEW u \in Users, PlayerStep(u)
        PROVE  [Bulk!Next]_bulkVars
    <2>1. CASE AddMessage(u)
      BY <2>1, TrackMsgIsEvent DEF AddMessage, Bulk!Next
    <2>2. CASE BeginMessage(u) \/ FillUserId(u) \/ FillRequestId(u) \/ SeeFlag(u)
               \/ AwaitResume(u) \/ Complete(u)
      BY <2>2 DEF BeginMessage, FillUserId, FillRequestId, SeeFlag, AwaitResume, Complete
    <2> QED
      BY <1>1, <2>1, <2>2 DEF PlayerStep
  <1>2. ASSUME NEW w \in Workers, WorkerStep(w) \/ Handle(w) \/ Failure(w)
        PROVE  [Bulk!Next]_bulkVars
    <2>1. Bulk!WorkerStep(w) \/ Bulk!ServerStep(w) \/ Bulk!Failure(w)
      BY <1>2 DEF PlayerTypeOK, WorkerStep, EventSent, Dispatch, Handle, Failure, Bulk!WorkerStep,
                  Bulk!ServerStep
    <2> QED
      BY <2>1 DEF Bulk!Next
  <1>3. CASE (\E paused \in BOOLEAN : SetPaused(paused)) \/ UNCHANGED vars
    BY <1>3 DEF SetPaused, vars
  <1> QED
    BY <1>1, <1>2, <1>3 DEF Next

\* The dispatcher as Publisher and as the proofs about it know it.
LEMMA SameDispatcher ==
    /\ Bulk!Init <=> Proved!Init
    /\ [Bulk!Next]_bulkVars <=> [Proved!Next]_(Proved!bulkVars)
    /\ Bulk!BulkTypeOK <=> Proved!BulkTypeOK
  <1>1. /\ \A i \in Events : Bulk!AddMessage(i) <=> Proved!AddMessage(i)
        /\ \A w \in Workers : Bulk!WorkerStep(w) <=> Proved!WorkerStep(w)
    BY DEF Bulk!AddMessage, Proved!AddMessage, Bulk!WorkerStep, Proved!WorkerStep,
           Bulk!Take, Proved!Take, Bulk!Flush, Proved!Flush, Bulk!ReceiveReply,
           Proved!ReceiveReply, Bulk!NotifyItem, Proved!NotifyItem, Bulk!FinishPublish,
           Proved!FinishPublish, Bulk!historyVars, Proved!historyVars, Bulk!Range, Proved!Range
  <1>2. \A w \in Workers : Bulk!ServerStep(w) <=> Proved!ServerStep(w)
    BY DEF Bulk!ServerStep, Proved!ServerStep, Bulk!Handle, Proved!Handle, Bulk!Range, Proved!Range
  <1>3. \A w \in Workers : Bulk!Failure(w) <=> Proved!Failure(w)
    BY DEF Bulk!Failure, Proved!Failure, Bulk!PutFails, Proved!PutFails, Bulk!HandlerFails,
           Proved!HandlerFails, Bulk!historyVars, Proved!historyVars
  <1>4. Bulk!Next <=> Proved!Next
    BY <1>1, <1>2, <1>3 DEF Bulk!Next, Proved!Next
  <1>5. bulkVars' = bulkVars <=> Proved!bulkVars' = Proved!bulkVars
    BY DEF bulkVars, Proved!bulkVars
  <1>6. Bulk!Init <=> Proved!Init
    BY DEF Bulk!Init, Proved!Init
  <1>7. Bulk!BulkTypeOK <=> Proved!BulkTypeOK
    BY DEF Bulk!BulkTypeOK, Proved!BulkTypeOK, Bulk!WorkerState, Proved!WorkerState
  <1> QED
    BY <1>4, <1>5, <1>6, <1>7


Inv0 == PlayerTypeOK /\ PlayerInv /\ Bulk!BulkTypeOK

LEMMA InitInv0 == Init => Inv0
  <1>1. Bulk!Init => Bulk!BulkTypeOK
    BY Proved!InitType, SameDispatcher, PublisherAssumption DEF PublisherAssumption
  <1> QED
    BY <1>1, InitPlayers DEF Init, Inv0

LEMMA NextInv0 == Inv0 /\ [Next]_vars => Inv0'
  <1> SUFFICES ASSUME Inv0, [Next]_vars
               PROVE  Inv0'
    OBVIOUS
  <1>1. PlayerTypeOK' /\ PlayerInv'
    <2>1. isPaused \in BOOLEAN
      BY DEF Inv0, Bulk!BulkTypeOK
    <2> QED
      BY <2>1, PlayerKeeps, OthersKeepPlayers DEF Inv0, Next
  <1>2. Bulk!BulkTypeOK'
    <2>1. Proved!BulkTypeOK /\ [Proved!Next]_(Proved!bulkVars)
      BY StepDispatches, SameDispatcher DEF Inv0
    <2>2. Proved!BulkTypeOK'
      BY <2>1, Proved!NextType, PublisherAssumption DEF PublisherAssumption
    <2>3. Bulk!BulkTypeOK' <=> Proved!BulkTypeOK'
      BY SameDispatcher, PTL
    <2> QED
      BY <2>2, <2>3
  <1> QED
    BY <1>1, <1>2 DEF Inv0

LEMMA Invariance0 == Spec => []Inv0
  BY InitInv0, NextInv0, PTL DEF Spec

\* The dispatcher of a publisher is a dispatcher: players, operator and callbacks do
\* nothing to it but what BulkData allows.
THEOREM IsDispatcher == Spec => Bulk!Spec
  <1>1. Init => Bulk!Init
    BY DEF Init
  <1>2. Inv0 /\ [Next]_vars => [Bulk!Next]_(Bulk!bulkVars)
    BY StepDispatches DEF Inv0, Bulk!bulkVars, bulkVars
  <1> QED
    BY <1>1, <1>2, Invariance0, PTL DEF Spec, Bulk!Spec

LEMMA DispatcherSpec == Spec => Proved!Spec
  <1>1. Init => Proved!Init
    BY SameDispatcher DEF Init
  <1>2. Inv0 /\ [Next]_vars => [Proved!Next]_(Proved!bulkVars)
    BY StepDispatches, SameDispatcher DEF Inv0
  <1> QED
    BY <1>1, <1>2, Invariance0, PTL DEF Spec, Proved!Spec

LEMMA DispatcherInvariance == Spec => []Proved!BulkInv
  <1>1. Proved!Spec => []Proved!BulkInv
    BY Proved!Invariance, PublisherAssumption DEF PublisherAssumption
  <1> QED
    BY <1>1, DispatcherSpec, PTL


\* Every item has one place, is delivered at most once and lost only with the batch of
\* a failed PUT, also in a publisher.
THEOREM DispatcherIsSafe ==
    Spec => [](Bulk!NothingLost /\ Bulk!NothingTwice /\ Bulk!DeliveredAtMostOnce /\ Bulk!LossBounded)
  <1>1. Proved!Spec => []Proved!DeliveredAtMostOnce
    BY Proved!AtMostOnce, PublisherAssumption DEF PublisherAssumption
  <1>2. Proved!Spec => []Proved!LossBounded
    BY Proved!LossIsBounded, PublisherAssumption DEF PublisherAssumption
  <1>3. Proved!BulkInv => Bulk!NothingLost /\ Bulk!NothingTwice
    BY DEF Proved!BulkInv, Proved!NothingLost, Bulk!NothingLost, Proved!NothingTwice,
           Bulk!NothingTwice, Proved!OnePlace, Bulk!OnePlace, Proved!Queued, Bulk!Queued,
           Proved!HeldBy, Bulk!HeldBy
  <1>4. Proved!DeliveredAtMostOnce => Bulk!DeliveredAtMostOnce
    BY DEF Proved!DeliveredAtMostOnce, Bulk!DeliveredAtMostOnce
  <1>5. Proved!LossBounded => Bulk!LossBounded
    <2>1. Proved!Lost = Bulk!Lost
      BY DEF Proved!Lost, Bulk!Lost, Proved!HeldBy, Bulk!HeldBy, Proved!Stopped, Bulk!Stopped
    <2>2. Proved!Cardinality(Bulk!Lost) = Bulk!Cardinality(Bulk!Lost)
      BY DEF Proved!Cardinality, Bulk!Cardinality
    <2> QED
      BY <2>1, <2>2 DEF Proved!LossBounded, Bulk!LossBounded
  <1> QED
    BY <1>1, <1>2, <1>3, <1>4, <1>5, DispatcherSpec, DispatcherInvariance, PTL

\* In the publisher, too, the life of a tracking message is the one that Delivery
\* promises.
THEOREM PublisherDelivers == Spec => Bulk!ImplementsDelivery
  <1>1. Proved!Spec => Proved!ImplementsDelivery
    BY Proved!Implementation, PublisherAssumption DEF PublisherAssumption
  <1>2. \A i \in Events : /\ Proved!ItemStatus(i) = Bulk!ItemStatus(i)
                          /\ Proved!ItemStatus(i)' = Bulk!ItemStatus(i)'
    BY DEF Proved!ItemStatus, Bulk!ItemStatus, Proved!Notified, Bulk!Notified, Proved!Walked,
           Bulk!Walked, Proved!Delivered, Bulk!Delivered, Proved!Lost, Bulk!Lost, Proved!HeldBy,
           Bulk!HeldBy, Proved!Stopped, Bulk!Stopped
  <1>3. Proved!statuses = [i \in Events |-> Bulk!ItemStatus(i)]
    BY <1>2 DEF Proved!statuses
  <1>4. Proved!D!Init => Bulk!D!Init
    BY <1>3 DEF Proved!D!Init, Bulk!D!Init, Proved!statuses
  <1>5. [Proved!D!Next]_(Proved!statuses) => [Bulk!D!Next]_([i \in Events |-> Bulk!ItemStatus(i)])
    <2> SUFFICES ASSUME [Proved!D!Next]_(Proved!statuses)
                 PROVE  [Bulk!D!Next]_([i \in Events |-> Bulk!ItemStatus(i)])
      OBVIOUS
    <2>1. \A S \in SUBSET Events : Proved!D!Cardinality(S) = Bulk!D!Cardinality(S)
      BY DEF Proved!D!Cardinality, Bulk!D!Cardinality
    <2>2. Proved!D!Batch = Bulk!D!Batch
      BY <2>1 DEF Proved!D!Batch, Bulk!D!Batch
    <2>3. ASSUME NEW S \in SUBSET Events, NEW from, NEW to, Proved!D!Move(S, from, to)
          PROVE  Bulk!D!Move(S, from, to)
      BY <1>2, <2>3 DEF Proved!D!Move, Bulk!D!Move
    <2>4. CASE Proved!D!Next
      <3>1. ASSUME NEW i \in Events, Proved!D!Submit(i) \/ Proved!D!Confirm(i)
            PROVE  Bulk!D!Next
        <4>1. Bulk!D!Submit(i) \/ Bulk!D!Confirm(i)
          BY <2>3, <3>1 DEF Proved!D!Submit, Bulk!D!Submit, Proved!D!Confirm, Bulk!D!Confirm
        <4> QED
          BY <4>1 DEF Bulk!D!Next
      <3>2. ASSUME NEW S \in Proved!D!Batch, Proved!D!Deliver(S) \/ Proved!D!Lose(S)
            PROVE  Bulk!D!Next
        <4>1. S \in SUBSET Events
          BY DEF Proved!D!Batch
        <4>2. Bulk!D!Deliver(S) \/ Bulk!D!Lose(S)
          BY <2>3, <3>2, <4>1 DEF Proved!D!Deliver, Bulk!D!Deliver, Proved!D!Lose, Bulk!D!Lose
        <4> QED
          BY <2>2, <4>2 DEF Bulk!D!Next
      <3> QED
        BY <2>4, <3>1, <3>2 DEF Proved!D!Next
    <2>5. CASE UNCHANGED Proved!statuses
      BY <1>2, <2>5 DEF Proved!statuses
    <2> QED
      BY <2>4, <2>5
  <1> QED
    BY <1>1, <1>4, <1>5, DispatcherSpec, PTL DEF Proved!ImplementsDelivery, Bulk!ImplementsDelivery,
       Proved!D!Spec, Bulk!D!Spec, Proved!statuses

-----------------------------------------------------------------------------
(* What is published. *)

PublishedTypeOK == published \in SUBSET [event : Events, payload : Payload]

PublishedInv == PublishedTypeOK /\ TrackedBeforePublished /\ NeverOlder

Inv == Inv0 /\ Proved!BulkInv

\* Mission Control forgets no delivery.
LEMMA DeliveriesGrow ==
    ASSUME Inv0, [Next]_vars
    PROVE  \A e \in Events : deliveries[e] > 0 => deliveries'[e] > 0
  <1>1. deliveries \in [Events -> Nat]
    BY DEF Inv0, Bulk!BulkTypeOK
  <1>2. [Bulk!Next]_bulkVars
    BY StepDispatches DEF Inv0
  <1>3. CASE UNCHANGED deliveries
    BY <1>3
  <1>4. ASSUME NEW w \in Workers, NEW paused \in BOOLEAN, Bulk!Handle(w, paused)
        PROVE  \A e \in Events : deliveries[e] > 0 => deliveries'[e] > 0
    BY <1>1, <1>4 DEF Bulk!Handle
  <1>5. ASSUME NEW w \in Workers, Bulk!HandlerFails(w)
        PROVE  \A e \in Events : deliveries[e] > 0 => deliveries'[e] > 0
    BY <1>1, <1>5 DEF Bulk!HandlerFails
  <1>6. ASSUME NEW w \in Workers, Bulk!WorkerStep(w) \/ Bulk!PutFails(w)
        PROVE  UNCHANGED deliveries
    BY <1>6 DEF Bulk!WorkerStep, Bulk!Take, Bulk!Flush, Bulk!ReceiveReply, Bulk!NotifyItem,
                Bulk!FinishPublish, Bulk!PutFails, Bulk!historyVars
  <1>7. ASSUME NEW i \in Events, Bulk!AddMessage(i)
        PROVE  UNCHANGED deliveries
    BY <1>7 DEF Bulk!AddMessage
  <1> QED
    BY <1>2, <1>3, <1>4, <1>5, <1>6, <1>7
       DEF Bulk!Next, Bulk!ServerStep, Bulk!Failure, bulkVars

\* The event that a callback is about was delivered and handed in before, and the
\* payload that the player has by now is not older.
LEMMA CallbackIsTimely ==
    ASSUME Inv, NEW w \in Workers, Bulk!NotifyItem(w), NEW e,
           e = retrievedItems[w][cursor[w] + 1]
    PROVE  /\ e \in Events /\ deliveries[e] > 0
           /\ userModal[e[1]] \in Payload
           /\ userModal[e[1]].requestId = 0 \/ userModal[e[1]].requestId >= e[2]
  <1>1. /\ retrievedItems[w] \in Seq(Events) /\ cursor[w] \in Nat /\ worker[w] = "notifying"
        /\ cursor[w] < Len(retrievedItems[w])
    BY DEF Inv, Inv0, Bulk!BulkTypeOK, Bulk!NotifyItem
  <1>2. cursor[w] + 1 \in 1 .. Len(retrievedItems[w])
    BY <1>1
  <1>3. e \in Events /\ Proved!HeldBy(w, e)
    BY <1>1, <1>2 DEF Proved!HeldBy
  <1>4. deliveries[e] = 1 /\ e \in added
    BY <1>1, <1>3 DEF Inv, Proved!BulkInv, Proved!DeliveryStage, Proved!NothingTwice, Proved!OnePlace
  <1>5. PICK u \in Users, n \in 1 .. MaxMessages : e = <<u, n>>
    BY <1>3 DEF Events
  <1>6. n < requestId[u] /\ requestId[u] \in Nat
    BY <1>4, <1>5, PublisherAssumption
       DEF PublisherAssumption, Inv, Inv0, PlayerInv, PlayerTypeOK, HandedIn
  <1>7. userModal[u].requestId \in {0, requestId[u] - 1}
    BY DEF Inv, Inv0, PlayerInv, Current
  <1>8. userModal[u] \in Payload
    BY DEF Inv, Inv0, PlayerTypeOK
  <1> QED
    BY <1>3, <1>4, <1>5, <1>6, <1>7, <1>8

LEMMA NextPublished == Inv /\ PublishedInv /\ [Next]_vars => PublishedInv'
  <1> SUFFICES ASSUME Inv, PublishedInv, [Next]_vars
               PROVE  PublishedInv'
    OBVIOUS
  <1>1. \A e \in Events : deliveries[e] > 0 => deliveries'[e] > 0
    BY DeliveriesGrow DEF Inv
  <1>2. CASE UNCHANGED published
    BY <1>1, <1>2 DEF PublishedInv, PublishedTypeOK, TrackedBeforePublished, NeverOlder
  <1>3. ASSUME NEW w \in Workers, EventSent(w)
        PROVE  PublishedInv'
    <2> DEFINE e == retrievedItems[w][cursor[w] + 1]
               p == [event |-> e, payload |-> userModal[e[1]]]
    <2>1. published' \in {published, published \cup {p}} /\ Bulk!NotifyItem(w)
      BY <1>3 DEF EventSent
    <2>2. /\ p \in [event : Events, payload : Payload]
          /\ deliveries[p.event] > 0
          /\ p.payload.requestId = 0 \/ p.payload.requestId >= p.event[2]
      BY <2>1, CallbackIsTimely
    <2> HIDE DEF p
    <2>3. CASE published' = published \cup {p}
      BY <1>1, <2>2, <2>3 DEF PublishedInv, PublishedTypeOK, TrackedBeforePublished, NeverOlder
    <2> QED
      BY <1>2, <2>1, <2>3
  <1>4. (\E w \in Workers : EventSent(w)) \/ UNCHANGED published
    BY DEF Next, PlayerStep, BeginMessage, FillUserId, FillRequestId, AddMessage, SeeFlag,
           AwaitResume, Complete, WorkerStep, Dispatch, Handle, Failure, SetPaused, vars
  <1> QED
    BY <1>2, <1>3, <1>4

LEMMA Invariance == Spec => [](Inv /\ PublishedInv)
  <1>1. Init => PublishedInv
    BY DEF Init, PublishedInv, PublishedTypeOK, TrackedBeforePublished, NeverOlder
  <1>2. Inv0 /\ Proved!BulkInv => Inv
    BY DEF Inv
  <1> QED
    BY <1>1, <1>2, Invariance0, DispatcherInvariance, NextPublished, PTL DEF Spec

LEMMA TypesTogether == Inv /\ PublishedInv => TypeOK
  BY DEF Inv, Inv0, PlayerTypeOK, PublishedInv, PublishedTypeOK, TypeOK

\* Every variable of players, dispatcher and operator keeps its type.
THEOREM PublisherTypeCorrect == Spec => []TypeOK
  BY TypesTogether, Invariance, PTL

\* Whatever overtakes what, eventSent() publishes only for an event that Mission
\* Control knows.
THEOREM OnlyTracked == Spec => []TrackedBeforePublished
  <1>1. PublishedInv => TrackedBeforePublished
    BY DEF PublishedInv
  <1> QED
    BY <1>1, Invariance, PTL

\* However late a callback comes, no payload older than its event is published.
THEOREM NothingOlder == Spec => []NeverOlder
  <1>1. PublishedInv => NeverOlder
    BY DEF PublishedInv
  <1> QED
    BY <1>1, Invariance, PTL

\* A player ends having handed in each of its messages, however often it paused.
THEOREM AllHandedIn == Spec => []CompleteMeansAll
  <1>1. Inv0 => CompleteMeansAll
    <2> SUFFICES ASSUME Inv0, NEW u \in Users, player[u] = "complete"
                 PROVE  {e \in added : e[1] = u} = {u} \X (1 .. MaxMessages)
      BY DEF CompleteMeansAll
    <2>1. requestId[u] = MaxMessages + 1
      BY DEF Inv0, PlayerInv, Requested
    <2>2. \A n \in 1 .. MaxMessages : <<u, n>> \in added
      BY <2>1, PublisherAssumption DEF PublisherAssumption, Inv0, PlayerInv, HandedIn
    <2>3. added \subseteq Users \X (1 .. MaxMessages)
      BY DEF Inv0, PlayerTypeOK, Events
    <2> QED
      BY <2>2, <2>3
  <1> QED
    BY <1>1, Invariance0, PTL

-----------------------------------------------------------------------------
(* Rest. *)

\* A publisher that has come to rest while paused stays at rest: nothing is left to
\* PUT, so nothing brings the players a new flag.
THEOREM RestRemains == Spec => RestIsForGood
  <1>1. ASSUME Inv0, AtRest, [Next]_vars
        PROVE  AtRest'
    <2>0. \A w \in Workers : worker[w] = "polling" \/ worker[w] \in Bulk!Stopped
      BY <1>1 DEF Inv0, Bulk!BulkTypeOK, AtRest
    <2>1. ASSUME NEW u \in Users, PlayerStep(u)
          PROVE  AtRest'
      <3>1. AwaitResume(u) \/ Complete(u)
        BY <1>1, <2>1 DEF AtRest, PlayerStep, BeginMessage, FillUserId, FillRequestId, AddMessage, SeeFlag
      <3> QED
        BY <1>1, <3>1 DEF AtRest, AwaitResume, Complete, bulkVars, Inv0, PlayerTypeOK
    <2>2. ASSUME NEW w \in Workers, WorkerStep(w) \/ Handle(w) \/ Failure(w)
          PROVE  FALSE
      <3>1. worker[w] = "polling" => queue = <<>> /\ retrievedItems[w] = <<>>
        BY <1>1 DEF AtRest, Bulk!Stopped
      <3> QED
        BY <2>0, <2>2, <3>1
           DEF WorkerStep, EventSent, Dispatch, Handle, Failure, Bulk!Take, Bulk!Flush,
               Bulk!ReceiveReply, Bulk!NotifyItem, Bulk!FinishPublish, Bulk!Handle,
               Bulk!Failure, Bulk!PutFails, Bulk!HandlerFails, Bulk!Stopped
    <2>3. CASE (\E paused \in BOOLEAN : SetPaused(paused)) \/ UNCHANGED vars
      BY <1>1, <2>3 DEF AtRest, SetPaused, vars, playerVars, bulkVars
    <2> QED
      BY <1>1, <2>1, <2>2, <2>3 DEF Next
  <1>2. Inv0 /\ [Next]_vars => [AtRest => AtRest']_vars
    BY <1>1
  <1> QED
    BY <1>2, Invariance0, PTL DEF Spec, RestIsForGood
=============================================================================
