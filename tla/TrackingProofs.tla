--------------------------- MODULE TrackingProofs ----------------------------
(***************************************************************************)
(* Proofs about Tracking for every set of users and workers, every number  *)
(* of messages and every number of failed PUTs and lost acknowledgements.  *)
(* Tracking adds the subscriber and the list of Mission Control to a       *)
(* publisher, so everything that PublisherProofs shows holds here as well. *)
(***************************************************************************)
EXTENDS Tracking, PublisherProofs, FiniteSetTheorems

\* The subscriber and Mission Control's list do nothing to the publisher.
LEMMA StepPublishes == [TrackingNext]_allVars => [Next]_vars
  <1> SUFFICES ASSUME [TrackingNext]_allVars
               PROVE  [Next]_vars
    OBVIOUS
  <1>1. CASE PublisherStep \/ \E w \in Workers : Publish(w) \/ Announce(w)
    BY <1>1 DEF PublisherStep, Publish, Announce, Next, WorkerStep
  <1>2. CASE Receive \/ AckStep \/ \E S \in AckBatch : LoseAcks(S)
    BY <1>2 DEF Receive, AckStep, Acknowledge, LoseAcks
  <1> QED
    BY <1>1, <1>2 DEF TrackingNext, allVars

\* The publisher of the whole system is a publisher: its theorems hold here, too.
THEOREM TrackingPublishes == TrackingSpec => Spec
  <1>1. TrackingInit => Init
    BY DEF TrackingInit
  <1> QED
    BY <1>1, StepPublishes, PTL DEF TrackingSpec, Spec

LEMMA PublisherInvariance == TrackingSpec => [](Inv /\ PublishedInv)
  BY TrackingPublishes, Invariance, PTL

-----------------------------------------------------------------------------
(* Counting.  The events that were announced are divided between those that  *)
(* are listed and those that are counted.                                    *)

LEMMA DisjointUnion ==
    ASSUME NEW S, NEW T, IsFiniteSet(S), IsFiniteSet(T), S \cap T = {}
    PROVE  /\ IsFiniteSet(S \cup T)
           /\ Cardinality(S) \in Nat /\ Cardinality(T) \in Nat
           /\ Cardinality(S \cup T) = Cardinality(S) + Cardinality(T)
  <1>1. Cardinality(S) \in Nat /\ Cardinality(T) \in Nat
    BY FS_CardinalityType
  <1>2. /\ IsFiniteSet(S \cup T)
        /\ Cardinality(S \cup T) = Cardinality(S) + Cardinality(T) - Cardinality(S \cap T)
    BY FS_Union
  <1>3. Cardinality(S \cap T) = 0
    BY FS_EmptySet
  <1> QED
    BY <1>1, <1>2, <1>3

Announced == {e \in Events : deliveries[e] > 0}

CountInv ==
    /\ IsFiniteSet(unAckEvents) /\ IsFiniteSet(acknowledged)
    /\ acknowledged \cap unAckEvents = {}
    /\ acknowledged \cup unAckEvents = Announced
    /\ totalAckEvents = Cardinality(acknowledged)

\* A batch announces finitely many events, none of which was announced before.
LEMMA NewlyAnnounced ==
    ASSUME Inv, NEW w \in Workers, Handle(w) \/ Failure(w),
           NEW new, new = {e \in Events : deliveries'[e] > deliveries[e]}
    PROVE  /\ IsFiniteSet(new)
           /\ new \cap Announced = {}
           /\ Announced' = Announced \cup new
  <1> DEFINE batch == retrievedItems[w]
             held  == Bulk!Range(batch)
  <1>1. deliveries \in [Events -> Nat]
    BY DEF Inv, Inv0, Bulk!BulkTypeOK
  <1>2. batch \in Seq(Events)
    BY DEF Inv, Inv0, Bulk!BulkTypeOK
  <1>3. /\ Proved!IsFiniteSet(held)
        /\ held = {batch[k] : k \in 1 .. Len(batch)}
    <2>1. /\ Proved!IsFiniteSet(Proved!Range(batch))
          /\ Proved!Range(batch) = {batch[k] : k \in 1 .. Len(batch)}
      BY <1>2, Proved!RangeFacts, PublisherAssumption DEF PublisherAssumption
    <2>2. Proved!Range(batch) = held
      BY DEF Proved!Range, Bulk!Range
    <2> QED
      BY <2>1, <2>2
  <1>4. IsFiniteSet(held)
    BY <1>3 DEF IsFiniteSet, Proved!IsFiniteSet
  <1>5. worker[w] = "putting" => \A e \in held \cap Events : deliveries[e] = 0
    BY <1>3 DEF Inv, Proved!BulkInv, Proved!DeliveryStage, Proved!HeldBy
  <1>6. CASE Handle(w)
    <2>1. \A e \in Events : deliveries'[e] = IF e \in held THEN deliveries[e] + 1 ELSE deliveries[e]
      BY <1>6 DEF Handle, Bulk!Handle
    <2>2. new \subseteq held
      BY <1>1, <2>1
    <2>3. IsFiniteSet(new)
      BY <1>4, <2>2, FS_Subset
    <2> QED
      BY <1>1, <1>5, <1>6, <2>1, <2>2, <2>3 DEF Handle, Bulk!Handle, Announced
  <1>7. CASE Bulk!HandlerFails(w)
    <2>1. PICK n \in 0 .. Len(batch) - 1 :
             \A e \in Events : deliveries'[e] =
                IF \E k \in 1 .. n : batch[k] = e THEN deliveries[e] + 1 ELSE deliveries[e]
      BY <1>7 DEF Bulk!HandlerFails
    <2>2. \A e : (\E k \in 1 .. n : batch[k] = e) => e \in held
      <3>1. Len(batch) \in Nat
        BY <1>2
      <3>2. \A k \in 1 .. n : k \in 1 .. Len(batch)
        BY <3>1
      <3> QED
        BY <1>3, <3>2
    <2>3. new \subseteq held
      BY <1>1, <2>1, <2>2
    <2>4. IsFiniteSet(new)
      BY <1>4, <2>3, FS_Subset
    <2> HIDE DEF held
    <2>5. \A e \in new : deliveries[e] = 0 /\ deliveries'[e] > 0
      BY <1>1, <1>5, <1>7, <2>1, <2>3 DEF Bulk!HandlerFails
    <2>6. \A e \in Events \ new : deliveries'[e] = deliveries[e]
      BY <1>1, <2>1
    <2> QED
      BY <1>1, <2>4, <2>5, <2>6 DEF Announced
  <1>8. CASE Bulk!PutFails(w)
    <2>1. deliveries' = deliveries
      BY <1>8 DEF Bulk!PutFails, Bulk!historyVars
    <2>2. new = {}
      BY <1>1, <2>1
    <2> QED
      BY <2>1, <2>2, FS_EmptySet DEF Announced
  <1> QED
    BY <1>6, <1>7, <1>8 DEF Failure, Bulk!Failure

LEMMA InitCount == TrackingInit => CountInv
  <1> SUFFICES ASSUME TrackingInit
               PROVE  CountInv
    OBVIOUS
  <1>1. Announced = {}
    BY DEF TrackingInit, Init, Bulk!Init, Announced
  <1> QED
    BY <1>1, FS_EmptySet DEF TrackingInit, CountInv

\* Of the subscriber's and the publisher's other steps none announces anything.
LEMMA NothingAnnounced ==
    ASSUME Inv, [TrackingNext]_allVars, ~ \E w \in Workers : Announce(w)
    PROVE  Announced' = Announced
  <1>1. ASSUME NEW w \in Workers, Dispatch(w) \/ EventSent(w)
        PROVE  UNCHANGED deliveries
    BY <1>1 DEF Dispatch, EventSent, Bulk!Take, Bulk!Flush, Bulk!ReceiveReply, Bulk!NotifyItem,
                Bulk!FinishPublish, Bulk!historyVars
  <1>2. ASSUME NEW u \in Users, PlayerStep(u)
        PROVE  UNCHANGED deliveries
    BY <1>2 DEF PlayerStep, BeginMessage, FillUserId, FillRequestId, AddMessage, Bulk!AddMessage,
                SeeFlag, AwaitResume, Complete, bulkVars
  <1>3. UNCHANGED deliveries
    BY <1>1, <1>2 DEF TrackingNext, PublisherStep, Publish, Receive, AckStep, Acknowledge,
                      LoseAcks, allVars, vars, bulkVars
  <1> QED
    BY <1>3 DEF Announced

LEMMA NextCount == Inv /\ CountInv /\ [TrackingNext]_allVars => CountInv'
  <1> SUFFICES ASSUME Inv, CountInv, [TrackingNext]_allVars
               PROVE  CountInv'
    OBVIOUS
  <1>1. ASSUME NEW w \in Workers, Announce(w)
        PROVE  CountInv'
    <2> DEFINE new == {e \in Events : deliveries'[e] > deliveries[e]}
    <2>1. /\ Handle(w) \/ Failure(w)
          /\ unAckEvents' = unAckEvents \cup new
          /\ UNCHANGED <<totalAckEvents, acknowledged>>
      BY <1>1 DEF Announce
    <2>2. IsFiniteSet(new) /\ new \cap Announced = {} /\ Announced' = Announced \cup new
      BY <2>1, NewlyAnnounced
    <2> HIDE DEF new
    <2>3. IsFiniteSet(unAckEvents \cup new)
      BY <2>2, FS_Union DEF CountInv
    <2> QED
      BY <2>1, <2>2, <2>3 DEF CountInv
  <1>2. ASSUME ~ \E w \in Workers : Announce(w), NEW S, Acknowledge(S)
        PROVE  CountInv'
    <2> DEFINE found == unAckEvents \cap UNION {Named(e) : e \in S}
    <2>1. /\ unAckEvents' = unAckEvents \ found
          /\ totalAckEvents' = totalAckEvents + Cardinality(found)
          /\ acknowledged' = acknowledged \cup found
          /\ found \subseteq unAckEvents
      BY <1>2 DEF Acknowledge
    <2>2. Announced' = Announced
      BY <1>2, NothingAnnounced
    <2> HIDE DEF found
    <2>3. IsFiniteSet(found) /\ IsFiniteSet(unAckEvents \ found)
      BY <2>1, FS_Subset DEF CountInv
    <2>4. acknowledged \cap found = {}
      BY <2>1 DEF CountInv
    <2>5. /\ IsFiniteSet(acknowledged \cup found)
          /\ Cardinality(acknowledged \cup found) = Cardinality(acknowledged) + Cardinality(found)
      BY <2>3, <2>4, DisjointUnion DEF CountInv
    <2> QED
      BY <2>1, <2>2, <2>3, <2>5 DEF CountInv
  <1>3. CASE /\ ~ \E w \in Workers : Announce(w)
             /\ UNCHANGED <<unAckEvents, totalAckEvents, acknowledged>>
    BY <1>3, NothingAnnounced DEF CountInv
  <1> QED
    BY <1>1, <1>2, <1>3 DEF TrackingNext, Publish, Receive, AckStep, LoseAcks, allVars, trackingVars

\* However often an event is published and acknowledged, and whatever gets lost on the
\* way: each announced event is either listed or counted, and counted once.
THEOREM CountedOnce == TrackingSpec => []EachCountedOnce
  <1>1. CountInv => EachCountedOnce
    <2> SUFFICES ASSUME CountInv
                 PROVE  EachCountedOnce
      OBVIOUS
    <2>1. Cardinality(acknowledged \cup unAckEvents) = totalAckEvents + Cardinality(unAckEvents)
      BY DisjointUnion DEF CountInv
    <2> QED
      BY <2>1 DEF CountInv, EachCountedOnce, Announced
  <1> QED
    BY <1>1, InitCount, NextCount, PublisherInvariance, PTL DEF TrackingSpec

-----------------------------------------------------------------------------
(* The way of an acknowledgement.  A callback runs once for each event, so   *)
(* an event has one payload under its name, and what is pending in the       *)
(* subscriber's dispatcher comes from a notification that could be read.     *)

Confirmed(e) == Proved!ItemStatus(e) = "confirmed"

PublishedOnce ==
    /\ \A p \in published : Confirmed(p.event)
    /\ \A p, q \in published : p.event = q.event => p = q

NotificationsOK == notifications \in Seq({p.event : p \in published})

AcksOK ==
    /\ acks \in [Events -> Acks!Status]
    /\ \A e \in Events : acks[e] # "new" =>
          \E p \in published : p.event = e /\ p.payload.loginId

WayInv == PublishedOnce /\ NotificationsOK /\ AcksOK /\ AckedWasReceived

LEMMA InitWay == TrackingInit => WayInv
  <1> SUFFICES ASSUME TrackingInit
               PROVE  WayInv
    OBVIOUS
  <1>1. published = {} /\ notifications = <<>> /\ acknowledged = {}
    BY DEF TrackingInit, Init
  <1>2. acks = [e \in Events |-> "new"]
    BY DEF TrackingInit, Acks!Init
  <1>3. NotificationsOK
    BY <1>1 DEF NotificationsOK
  <1>4. AcksOK
    BY <1>2 DEF AcksOK, Acks!Status
  <1> QED
    BY <1>1, <1>3, <1>4 DEF WayInv, PublishedOnce, AckedWasReceived

LEMMA Ruled == Proved!BulkInv => Proved!StatusRules
  BY Proved!Statuses, PublisherAssumption DEF PublisherAssumption

\* Two states of the dispatcher, as the proofs about its statuses need them.
LEMMA DispatcherStep ==
    ASSUME Inv, Inv', [Next]_vars
    PROVE  Proved!Step /\ [Proved!Next]_(Proved!bulkVars)
  <1>1. Proved!StatusRules
    BY Ruled DEF Inv
  <1>2. Proved!StatusRules'
    <2>1. Proved!BulkInv' => Proved!StatusRules'
      BY Ruled, PTL
    <2> QED
      BY <2>1 DEF Inv
  <1>3. [Proved!Next]_(Proved!bulkVars)
    BY StepDispatches, SameDispatcher DEF Inv, Inv0
  <1> QED
    BY <1>1, <1>2, <1>3 DEF Inv, Proved!BulkInv, Proved!Step

\* What was confirmed to its owner stays so.
LEMMA ConfirmedForGood ==
    ASSUME Inv, Inv', [Next]_vars, NEW e \in Events, Confirmed(e)
    PROVE  Confirmed(e)'
  <1>1. [Proved!D!Next]_(Proved!statuses)
    BY DispatcherStep, Proved!NextMaps, PublisherAssumption DEF PublisherAssumption
  <1>2. CASE UNCHANGED Proved!statuses
    BY <1>2 DEF Proved!statuses, Confirmed
  <1>3. ASSUME NEW S \in SUBSET Events, NEW from, NEW to, Proved!D!Move(S, from, to),
               "confirmed" \notin from
        PROVE  Confirmed(e)'
    BY <1>3 DEF Proved!D!Move, Confirmed
  <1>4. CASE Proved!D!Next
    <2>1. ASSUME NEW i \in Events, Proved!D!Submit(i) \/ Proved!D!Confirm(i)
          PROVE  Confirmed(e)'
      BY <1>3, <2>1 DEF Proved!D!Submit, Proved!D!Confirm
    <2>2. ASSUME NEW S \in Proved!D!Batch, Proved!D!Deliver(S) \/ Proved!D!Lose(S)
          PROVE  Confirmed(e)'
      BY <1>3, <2>2 DEF Proved!D!Deliver, Proved!D!Lose, Proved!D!Batch
    <2> QED
      BY <1>4, <2>1, <2>2 DEF Proved!D!Next
  <1> QED
    BY <1>1, <1>2, <1>4

\* A callback is for an event that was not confirmed before, and is by then.
LEMMA CallbackConfirms ==
    ASSUME Inv, Inv', [Next]_vars, NEW w \in Workers, Bulk!NotifyItem(w), NEW e,
           e = retrievedItems[w][cursor[w] + 1]
    PROVE  e \in Events /\ ~Confirmed(e) /\ Confirmed(e)'
  <1>1. Proved!NotifyItem(w)
    BY DEF Bulk!NotifyItem, Proved!NotifyItem, Bulk!historyVars, Proved!historyVars
  <1>2. e \in Events /\ Proved!Moves({e}, "delivered", "confirmed")
    BY <1>1, DispatcherStep, Proved!NotifyMoves, PublisherAssumption DEF PublisherAssumption
  <1> QED
    BY <1>2 DEF Proved!Moves, Confirmed

\* An event that was published has one payload, and PayloadOf is this one.
LEMMA OnePayload ==
    ASSUME PublishedOnce, NEW p \in published
    PROVE  PayloadOf(p.event) = p.payload
  BY DEF PublishedOnce, PayloadOf

\* One more publication under the name of an event that had none keeps what was said
\* of those before.
LEMMA MorePublished ==
    ASSUME Inv, Inv', PublishedInv, [Next]_vars, WayInv,
           NEW w \in Workers, Publish(w)
    PROVE  WayInv'
  <1>1. PICK e, p :
           /\ Bulk!NotifyItem(w) /\ e = retrievedItems[w][cursor[w] + 1]
           /\ p.event = e
           /\ published' \in {published, published \cup {p}}
           /\ notifications' = IF published' = published THEN notifications
                               ELSE Append(notifications, e)
           /\ UNCHANGED <<acks, acknowledged>>
    <2> DEFINE e == retrievedItems[w][cursor[w] + 1]
               p == [event |-> e, payload |-> userModal[e[1]]]
    <2>1. published' \in {published, published \cup {p}} /\ p.event = e
      BY DEF Publish, EventSent
    <2> HIDE DEF p
    <2> QED
      BY <2>1 DEF Publish, EventSent
  <1>2. e \in Events /\ ~Confirmed(e) /\ Confirmed(e)'
    BY <1>1, CallbackConfirms
  <1>3. \A d \in Events : Confirmed(d) => Confirmed(d)'
    BY ConfirmedForGood
  <1>5. \A q \in published : q.event \in Events /\ q.event # e
    BY <1>2 DEF WayInv, PublishedOnce, PublishedInv, PublishedTypeOK
  <1>6. PublishedOnce'
    BY <1>1, <1>2, <1>3, <1>5 DEF WayInv, PublishedOnce
  <1>7. NotificationsOK'
    <2>1. CASE published' = published
      BY <1>1, <2>1 DEF WayInv, NotificationsOK
    <2>2. CASE published' # published
      <3> DEFINE before == {q.event : q \in published}
                 after  == {q.event : q \in published'}
      <3>1. before \subseteq after /\ e \in after
        BY <1>1, <2>2
      <3>2. notifications \in Seq(before) /\ notifications' = Append(notifications, e)
        BY <1>1, <2>2 DEF WayInv, NotificationsOK
      <3> HIDE DEF before, after
      <3>3. notifications' \in Seq(after)
        BY <3>1, <3>2
      <3> QED
        BY <3>3 DEF NotificationsOK, after
    <2> QED
      BY <2>1, <2>2
  <1>8. AcksOK' /\ AckedWasReceived'
    BY <1>1 DEF WayInv, AcksOK, AckedWasReceived
  <1> QED
    BY <1>6, <1>7, <1>8 DEF WayInv

\* A notification that can be read becomes an acknowledgement, in the name of an event
\* with a payload that can be read.
LEMMA ReceiveKeepsWay ==
    ASSUME PublishedInv, WayInv, Receive
    PROVE  NotificationsOK' /\ AcksOK' /\ AckedWasReceived'
  <1>1. PICK e : e = Head(notifications)
    OBVIOUS
  <1>2. /\ IF PayloadOf(e).loginId THEN Acks!Submit(e) ELSE UNCHANGED acks
        /\ notifications # <<>> /\ notifications' = Tail(notifications)
        /\ UNCHANGED <<published, acknowledged>>
    BY <1>1 DEF Receive, vars
  <1>3. e \in {p.event : p \in published}
    BY <1>1, <1>2 DEF WayInv, NotificationsOK
  <1>4. PICK p \in published : p.event = e /\ PayloadOf(e) = p.payload
    BY <1>3, OnePayload DEF WayInv
  <1>5. NotificationsOK'
    <2>1. Tail(notifications) \in Seq({q.event : q \in published})
      BY <1>2 DEF WayInv, NotificationsOK
    <2> QED
      BY <1>2, <2>1 DEF NotificationsOK
  <1>6. CASE UNCHANGED acks
    BY <1>2, <1>5, <1>6 DEF WayInv, AcksOK, AckedWasReceived
  <1>7. CASE PayloadOf(e).loginId /\ Acks!Submit(e)
    <2>1. /\ acks[e] = "new"
          /\ acks' = [d \in Events |-> IF d = e THEN "pending" ELSE acks[d]]
      BY <1>7 DEF Acks!Submit, Acks!Move
    <2>2. AcksOK'
      BY <1>2, <1>4, <1>7, <2>1 DEF WayInv, AcksOK, Acks!Status
    <2>3. \A q \in published : q.event \in Events
      BY DEF PublishedInv, PublishedTypeOK
    <2>4. AckedWasReceived'
      BY <1>2, <2>1, <2>3 DEF WayInv, AckedWasReceived
    <2> QED
      BY <1>5, <2>2, <2>4
  <1> QED
    BY <1>2, <1>6, <1>7

\* What Mission Control counts for a batch was named by payloads of this batch.
LEMMA AcknowledgeKeepsWay ==
    ASSUME PublishedInv, WayInv, NEW S \in AckBatch, Acknowledge(S)
    PROVE  AcksOK' /\ AckedWasReceived'
  <1>1. /\ \A e \in S : e \in Events /\ acks[e] = "pending"
        /\ acks' = [e \in Events |-> IF e \in S THEN "delivered" ELSE acks[e]]
        /\ UNCHANGED published
    BY DEF Acknowledge, Acks!Deliver, Acks!Move, AckBatch, Pending, vars
  <1>2. AcksOK'
    BY <1>1 DEF WayInv, AcksOK, Acks!Status
  <1>3. ASSUME NEW d \in acknowledged'
        PROVE  \E p \in published : /\ p.event[1] = d[1] /\ p.event[2] =< d[2]
                                    /\ p.payload = [loginId |-> TRUE, requestId |-> d[2]]
                                    /\ acks'[p.event] = "delivered"
    <2>1. CASE d \in acknowledged
      <3>1. PICK p \in published : /\ p.event[1] = d[1] /\ p.event[2] =< d[2]
                                   /\ p.payload = [loginId |-> TRUE, requestId |-> d[2]]
                                   /\ acks[p.event] = "delivered"
        BY <2>1 DEF WayInv, AckedWasReceived
      <3>2. p.event \in Events
        BY DEF PublishedInv, PublishedTypeOK
      <3> QED
        BY <1>1, <3>1, <3>2
    <2>2. CASE d \notin acknowledged
      <3>1. PICK e \in S : d \in Named(e)
        BY <1>3, <2>2 DEF Acknowledge
      <3>2. PICK p \in published : p.event = e /\ p.payload.loginId
        BY <1>1 DEF WayInv, AcksOK
      <3>3. PayloadOf(e) = p.payload /\ p.payload \in Payload
        BY <3>2, OnePayload DEF WayInv, PublishedInv, PublishedTypeOK
      <3>4. d = <<e[1], p.payload.requestId>>
        BY <3>1, <3>3 DEF Named
      <3>5. p.payload = [loginId |-> TRUE, requestId |-> d[2]]
        BY <3>2, <3>3, <3>4 DEF Payload
      <3>6. p.event[1] = d[1]
        BY <3>2, <3>4
      <3>7. p.event[2] =< d[2]
        <4>1. PICK m \in 1 .. MaxMessages : m = p.event[2]
          BY <1>1, <3>2 DEF Events
        <4>2. PICK n \in 0 .. MaxMessages : n = p.payload.requestId
          BY <3>3 DEF Payload
        <4>3. n # 0 /\ d[2] = n
          BY <3>1, <3>3, <3>4, <4>2 DEF Named
        <4>4. n = 0 \/ n >= m
          BY <4>1, <4>2 DEF PublishedInv, NeverOlder
        <4>5. m =< n
          BY <4>3, <4>4, PublisherAssumption DEF PublisherAssumption
        <4> QED
          BY <4>1, <4>3, <4>5
      <3> QED
        BY <1>1, <3>2, <3>5, <3>6, <3>7
    <2> QED
      BY <2>1, <2>2
  <1> QED
    BY <1>1, <1>2, <1>3 DEF AckedWasReceived

\* Only what is pending can be lost.
LEMMA LossKeepsWay ==
    ASSUME PublishedInv, WayInv, NEW S \in AckBatch, LoseAcks(S)
    PROVE  AcksOK' /\ AckedWasReceived'
  <1>1. /\ \A e \in S : acks[e] = "pending"
        /\ acks' = [e \in Events |-> IF e \in S THEN "lost" ELSE acks[e]]
        /\ UNCHANGED <<published, acknowledged>>
    BY DEF LoseAcks, Acks!Lose, Acks!Move, AckBatch, Pending, vars
  <1>2. \A p \in published : p.event \in Events
    BY DEF PublishedInv, PublishedTypeOK
  <1>3. AcksOK'
    BY <1>1 DEF WayInv, AcksOK, Acks!Status
  <1>4. AckedWasReceived'
    BY <1>1, <1>2 DEF WayInv, AckedWasReceived
  <1> QED
    BY <1>3, <1>4

LEMMA NextWay ==
    Inv /\ Inv' /\ PublishedInv /\ WayInv /\ [TrackingNext]_allVars => WayInv'
  <1> SUFFICES ASSUME Inv, Inv', PublishedInv, WayInv, [TrackingNext]_allVars
               PROVE  WayInv'
    OBVIOUS
  <1>1. [Next]_vars
    BY StepPublishes
  <1>2. ASSUME UNCHANGED published
        PROVE  PublishedOnce'
    <2>1. \A p \in published : p.event \in Events
      BY DEF PublishedInv, PublishedTypeOK
    <2> QED
      BY <1>1, <1>2, <2>1, ConfirmedForGood DEF WayInv, PublishedOnce
  <1>3. ASSUME NEW w \in Workers, Publish(w)
        PROVE  WayInv'
    BY <1>1, <1>3, MorePublished
  <1>4. CASE Receive
    BY <1>2, <1>4, ReceiveKeepsWay DEF Receive, vars, WayInv
  <1>5. ASSUME NEW S \in AckBatch, Acknowledge(S) \/ LoseAcks(S)
        PROVE  WayInv'
    <2>1. UNCHANGED <<published, notifications>>
      BY <1>5 DEF Acknowledge, LoseAcks, vars
    <2>2. AcksOK' /\ AckedWasReceived'
      BY <1>5, AcknowledgeKeepsWay, LossKeepsWay
    <2> QED
      BY <1>2, <2>1, <2>2 DEF WayInv, NotificationsOK
  <1>6. CASE UNCHANGED <<published, notifications, acks, acknowledged>>
    BY <1>2, <1>6 DEF WayInv, NotificationsOK, AcksOK, AckedWasReceived
  <1>7. ASSUME NEW w \in Workers, Announce(w) \/ (Dispatch(w) /\ UNCHANGED trackingVars)
        PROVE  UNCHANGED <<published, notifications, acks, acknowledged>>
    BY <1>7 DEF Announce, Handle, Failure, Dispatch, trackingVars
  <1>8. ASSUME NEW u \in Users, PlayerStep(u), UNCHANGED trackingVars
        PROVE  UNCHANGED <<published, notifications, acks, acknowledged>>
    BY <1>8 DEF PlayerStep, BeginMessage, FillUserId, FillRequestId, AddMessage, SeeFlag,
                AwaitResume, Complete, trackingVars
  <1>9. CASE PublisherStep /\ UNCHANGED trackingVars
    BY <1>6, <1>7, <1>8, <1>9 DEF PublisherStep
  <1>10. CASE \E w \in Workers : Publish(w) \/ Announce(w)
    BY <1>3, <1>6, <1>7, <1>10
  <1>11. CASE AckStep \/ \E S \in AckBatch : LoseAcks(S)
    BY <1>5, <1>11 DEF AckStep
  <1>12. CASE UNCHANGED allVars
    BY <1>6, <1>12 DEF allVars, vars, trackingVars
  <1> QED
    BY <1>4, <1>9, <1>10, <1>11, <1>12 DEF TrackingNext

LEMMA TrackingInvariance == TrackingSpec => [](Inv /\ PublishedInv /\ CountInv /\ WayInv)
  BY PublisherInvariance, InitCount, NextCount, InitWay, NextWay, PTL DEF TrackingSpec

\* Nothing is counted as acknowledged that no listener read under the name of the
\* event, or of an earlier one of the same user.
THEOREM AckedReceived == TrackingSpec => []AckedWasReceived
  <1>1. WayInv => AckedWasReceived
    BY DEF WayInv
  <1> QED
    BY <1>1, TrackingInvariance, PTL

\* Every variable of the tracking keeps its type; a notification is always for
\* something that was published.
THEOREM TrackingTypeCorrect == TrackingSpec => []TrackingTypeOK
  <1> DEFINE LostOK == lost \in 0 .. MaxLost
  <1>1. TrackingInit => LostOK
    BY TrackingAssumption DEF TrackingAssumption, TrackingInit
  <1>2. LostOK /\ [TrackingNext]_allVars => LostOK'
    <2>1. ASSUME NEW S, LoseAcks(S)
          PROVE  LostOK => LostOK'
      BY <2>1, TrackingAssumption DEF TrackingAssumption, LoseAcks
    <2>2. CASE UNCHANGED trackingVars \/ \E w \in Workers : Publish(w) \/ Announce(w)
      BY <2>2 DEF Publish, Announce, trackingVars
    <2>3. CASE Receive \/ AckStep
      BY <2>3 DEF Receive, AckStep, Acknowledge
    <2> QED
      BY <2>1, <2>2, <2>3 DEF TrackingNext, allVars
  <1>3. Inv /\ PublishedInv /\ CountInv /\ WayInv /\ LostOK => TrackingTypeOK
    <2> SUFFICES ASSUME Inv, PublishedInv, CountInv, WayInv, LostOK
                 PROVE  TrackingTypeOK
      OBVIOUS
    <2>1. TypeOK
      BY TypesTogether
    <2>2. totalAckEvents \in Nat
      BY FS_CardinalityType DEF CountInv
    <2>3. unAckEvents \subseteq Events /\ acknowledged \subseteq Events
      BY DEF CountInv, Announced
    <2> QED
      BY <2>1, <2>2, <2>3 DEF WayInv, NotificationsOK, AcksOK, TrackingTypeOK
  <1> QED
    BY <1>1, <1>2, <1>3, TrackingInvariance, PTL DEF TrackingSpec

-----------------------------------------------------------------------------
(* Nothing is notified twice. *)

\* What OpenFire has still to send was published under names that differ, and none of
\* them has an acknowledgement already: the subscriber can take every notification, and
\* every item that it hands to its dispatcher is a new one, as Delivery asks for.
NotifiedOnce ==
    /\ \A i, j \in DOMAIN notifications : notifications[i] = notifications[j] => i = j
    /\ \A i \in DOMAIN notifications : acks[notifications[i]] = "new"

\* An event whose callback runs now was neither published nor notified before.
LEMMA PublishNotifiesOnce ==
    ASSUME Inv, Inv', PublishedInv, [Next]_vars, WayInv, NotifiedOnce,
           NEW w \in Workers, Publish(w)
    PROVE  NotifiedOnce'
  <1>1. PICK e : /\ Bulk!NotifyItem(w) /\ e = retrievedItems[w][cursor[w] + 1]
                 /\ \/ UNCHANGED notifications
                    \/ notifications' = Append(notifications, e)
                 /\ UNCHANGED acks
    BY DEF Publish, EventSent
  <1>2. e \in Events /\ ~Confirmed(e)
    BY <1>1, CallbackConfirms
  <1>3. \A p \in published : p.event # e
    BY <1>2 DEF WayInv, PublishedOnce
  <1>4. acks[e] = "new"
    BY <1>2, <1>3 DEF WayInv, AcksOK
  <1>5. CASE UNCHANGED notifications
    BY <1>1, <1>5 DEF NotifiedOnce
  <1>6. CASE notifications' = Append(notifications, e)
    <2>1. PICK S : S = {p.event : p \in published}
      OBVIOUS
    <2>2. notifications \in Seq(S) /\ e \notin S
      BY <1>3, <2>1 DEF WayInv, NotificationsOK
    <2>3. PICK n \in Nat : n = Len(notifications)
      BY <2>2
    <2>4. /\ DOMAIN notifications = 1 .. n /\ DOMAIN notifications' = 1 .. n + 1
          /\ \A i \in 1 .. n : notifications'[i] = notifications[i] /\ notifications[i] \in S
          /\ notifications'[n + 1] = e
      BY <1>6, <2>2, <2>3
    <2>5. \A i \in 1 .. n + 1 : i \in 1 .. n \/ i = n + 1
      OBVIOUS
    <2> QED
      BY <1>1, <1>4, <2>2, <2>4, <2>5 DEF NotifiedOnce
  <1> QED
    BY <1>1, <1>5, <1>6

\* The acknowledgement of the first notification is not that of a later one.
LEMMA ReceiveNotifiesOnce ==
    ASSUME PublishedInv, WayInv, NotifiedOnce, Receive
    PROVE  NotifiedOnce'
  <1>1. PICK S : S = {p.event : p \in published}
    OBVIOUS
  <1>2. notifications \in Seq(S) /\ notifications # <<>> /\ notifications' = Tail(notifications)
    BY <1>1 DEF Receive, WayInv, NotificationsOK
  <1>3. PICK n \in Nat : n = Len(notifications) /\ n > 0
    BY <1>2
  <1>4. /\ DOMAIN notifications = 1 .. n /\ DOMAIN notifications' = 1 .. n - 1
        /\ Head(notifications) = notifications[1]
        /\ \A i \in 1 .. n - 1 : notifications'[i] = notifications[i + 1]
    BY <1>2, <1>3
  <1>5. \A i, j \in 1 .. n - 1 : i + 1 = j + 1 => i = j
    OBVIOUS
  <1>6. 1 \in 1 .. n /\ \A i \in 1 .. n - 1 : i + 1 \in 1 .. n /\ i + 1 # 1
    BY <1>3
  <1>7. \A i \in 1 .. n - 1 : notifications'[i] # notifications[1]
    BY <1>4, <1>6 DEF NotifiedOnce
  <1>8. \A d \in Events : d # notifications[1] => acks'[d] = acks[d]
    BY <1>4 DEF Receive, Acks!Submit, Acks!Move
  <1>9. \A i \in 1 .. n : notifications[i] \in Events
    <2>1. \A p \in published : p.event \in Events
      BY DEF PublishedInv, PublishedTypeOK
    <2>2. \A i \in 1 .. n : notifications[i] \in S
      BY <1>2, <1>3
    <2> QED
      BY <1>1, <2>1, <2>2
  <1>10. ASSUME NEW i \in 1 .. n - 1
         PROVE  acks'[notifications'[i]] = "new"
    <2>1. i + 1 \in 1 .. n /\ notifications'[i] = notifications[i + 1]
      BY <1>4, <1>6
    <2>2. notifications'[i] \in Events /\ acks[notifications'[i]] = "new"
      BY <1>4, <1>9, <2>1 DEF NotifiedOnce
    <2> QED
      BY <1>7, <1>8, <2>2
  <1>11. ASSUME NEW i \in 1 .. n - 1, NEW j \in 1 .. n - 1, notifications'[i] = notifications'[j]
         PROVE  i = j
    <2>1. notifications[i + 1] = notifications[j + 1] /\ i + 1 \in 1 .. n /\ j + 1 \in 1 .. n
      BY <1>4, <1>6, <1>11
    <2>2. i + 1 = j + 1
      BY <1>4, <2>1 DEF NotifiedOnce
    <2> QED
      BY <1>5, <2>2
  <1> QED
    BY <1>4, <1>10, <1>11 DEF NotifiedOnce

\* What is still to be received is new, so no batch of acknowledgements has it.
LEMMA BatchNotifiesOnce ==
    ASSUME NotifiedOnce, PublishedInv, WayInv, NEW S \in AckBatch, Acknowledge(S) \/ LoseAcks(S)
    PROVE  NotifiedOnce'
  <1>1. UNCHANGED notifications
    BY DEF Acknowledge, LoseAcks
  <1>2. \A d \in Events : acks[d] = "new" => acks'[d] = "new"
    <2>1. \A d \in S : acks[d] = "pending"
      BY DEF AckBatch, Pending
    <2> QED
      BY <2>1 DEF Acknowledge, LoseAcks, Acks!Deliver, Acks!Lose, Acks!Move
  <1>3. \A i \in DOMAIN notifications : notifications[i] \in Events
    <2>1. \A p \in published : p.event \in Events
      BY DEF PublishedInv, PublishedTypeOK
    <2>2. notifications \in Seq({p.event : p \in published})
      BY DEF WayInv, NotificationsOK
    <2>3. \A i \in DOMAIN notifications : notifications[i] \in {p.event : p \in published}
      BY <2>2
    <2> QED
      BY <2>1, <2>3
  <1> QED
    BY <1>1, <1>2, <1>3 DEF NotifiedOnce

LEMMA NextNotifiesOnce ==
    Inv /\ Inv' /\ PublishedInv /\ WayInv /\ NotifiedOnce /\ [TrackingNext]_allVars => NotifiedOnce'
  <1> SUFFICES ASSUME Inv, Inv', PublishedInv, WayInv, NotifiedOnce, [TrackingNext]_allVars
               PROVE  NotifiedOnce'
    OBVIOUS
  <1>1. CASE \E w \in Workers : Publish(w)
    BY <1>1, StepPublishes, PublishNotifiesOnce
  <1>2. CASE Receive
    BY <1>2, ReceiveNotifiesOnce
  <1>3. CASE AckStep \/ \E S \in AckBatch : LoseAcks(S)
    BY <1>3, BatchNotifiesOnce DEF AckStep
  <1>4. CASE (\E w \in Workers : Announce(w)) \/ UNCHANGED trackingVars
    <2>1. UNCHANGED <<notifications, acks>>
      BY <1>4 DEF Announce, trackingVars
    <2> QED
      BY <2>1 DEF NotifiedOnce
  <1> QED
    BY <1>1, <1>2, <1>3, <1>4 DEF TrackingNext, allVars

\* However late and however often callbacks publish, the listener (handlePublishedItems)
\* is notified once in the name of an event, and what it hands to the dispatcher of the
\* subscriber is not there already: Submit of Delivery never holds Receive up.
THEOREM NoneNotifiedTwice == TrackingSpec => []NotifiedOnce
  <1>1. TrackingInit => NotifiedOnce
    BY DEF TrackingInit, NotifiedOnce
  <1> QED
    BY <1>1, TrackingInvariance, NextNotifiesOnce, PTL DEF TrackingSpec
=============================================================================
