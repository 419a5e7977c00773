------------------------------ MODULE Tracking -------------------------------
(***************************************************************************)
(* The way of an event through the whole system: a player announces it to  *)
(* Mission Control and publishes it (Publisher), OpenFire notifies the     *)
(* user's listener (EventingService.handlePublishedItems), the subscriber  *)
(* hands an acknowledgement to its own dispatcher (notifyMatch), and       *)
(* Mission Control takes the event from the list of those not received.    *)
(*                                                                         *)
(* The subscriber's dispatcher is taken at its word, Delivery, which       *)
(* BulkData implements; an item is named after the event whose callback    *)
(* published what it acknowledges.  Nobody pauses, and an update of the    *)
(* table is one step: what becomes of updates that overlap is the subject  *)
(* of Statistics.                                                          *)
(***************************************************************************)
EXTENDS Publisher, FiniteSets

CONSTANT MaxLost             \* bound on the batches of acknowledgements that are lost

ASSUME TrackingAssumption == MaxLost \in Nat

VARIABLES
    notifications,     \* what OpenFire has still to send to the listener
    acks,              \* the acknowledgements in the subscriber's dispatcher
    lost,              \* batches of them that were lost
    unAckEvents,       \* the events that Mission Control lists as not received
    totalAckEvents,    \* how many it counts as acknowledged
    acknowledged       \* history: which ones these are

trackingVars == <<notifications, acks, lost, unAckEvents, totalAckEvents, acknowledged>>
allVars == <<vars, trackingVars>>

Acks == INSTANCE Delivery WITH Items <- Events, status <- acks

TrackingInit ==
    /\ Init
    /\ notifications = <<>>
    /\ Acks!Init
    /\ lost = 0
    /\ unAckEvents = {}
    /\ totalAckEvents = 0
    /\ acknowledged = {}

-----------------------------------------------------------------------------
(* The publisher and Mission Control. *)

\* Faulty variant: OpenFire sends something though the publishing failed.
PublishUnsent(w) ==
    /\ EventSent(w)
    /\ notifications' = Append(notifications, retrievedItems[w][cursor[w] + 1])
    /\ UNCHANGED <<acks, lost, unAckEvents, totalAckEvents, acknowledged>>

\* OpenFire keeps the order in which a node's items were published.
Publish(w) ==
    /\ EventSent(w)
    /\ notifications' = IF published' = published THEN notifications
                        ELSE Append(notifications, retrievedItems[w][cursor[w] + 1])
    /\ UNCHANGED <<acks, lost, unAckEvents, totalAckEvents, acknowledged>>

\* A batch of announcements is handled, as a whole or up to where it throws.
Announce(w) ==
    /\ Handle(w) \/ Failure(w)
    /\ unAckEvents' = unAckEvents \cup {e \in Events : deliveries'[e] > deliveries[e]}
    /\ UNCHANGED <<notifications, acks, lost, totalAckEvents, acknowledged>>

PublisherStep == (\E u \in Users : PlayerStep(u)) \/ (\E w \in Workers : Dispatch(w))

-----------------------------------------------------------------------------
(* The subscriber. *)

PayloadOf(e) == (CHOOSE p \in published : p.event = e).payload

\* Faulty variant: a payload is taken for that of the event that it was published for.
NamedByItem(e) == IF PayloadOf(e).loginId THEN {e} ELSE {}

\* The event that a payload names, if it names one: a template does not.
Named(e) == LET n == PayloadOf(e).requestId IN IF n = 0 THEN {} ELSE {<<e[1], n>>}

\* handlePublishedItems: toRcvMsg throws without a login id, and the listener's
\* exception ends this notification only.
Receive ==
    /\ notifications # <<>>
    /\ LET e == Head(notifications)
       IN  IF PayloadOf(e).loginId THEN Acks!Submit(e) ELSE UNCHANGED acks
    /\ notifications' = Tail(notifications)
    /\ UNCHANGED <<vars, lost, unAckEvents, totalAckEvents, acknowledged>>

\* Faulty variant: an acknowledgement is counted without looking for its event.
AcknowledgeUnseen(S) ==
    LET named == UNION {Named(e) : e \in S}
    IN  /\ Acks!Deliver(S)
        /\ unAckEvents' = unAckEvents \ named
        /\ totalAckEvents' = totalAckEvents + Cardinality(named)
        /\ acknowledged' = acknowledged \cup named
        /\ UNCHANGED <<vars, notifications, lost>>

\* Only the events found in the list are counted, each of them once.
Acknowledge(S) ==
    LET found == unAckEvents \cap UNION {Named(e) : e \in S}
    IN  /\ Acks!Deliver(S)
        /\ unAckEvents' = unAckEvents \ found
        /\ totalAckEvents' = totalAckEvents + Cardinality(found)
        /\ acknowledged' = acknowledged \cup found
        /\ UNCHANGED <<vars, notifications, lost>>

\* A PUT of the subscriber fails before Mission Control handles it; that one fails
\* afterwards changes nothing here.
LoseAcks(S) ==
    /\ lost < MaxLost
    /\ Acks!Lose(S)
    /\ lost' = lost + 1
    /\ UNCHANGED <<vars, notifications, unAckEvents, totalAckEvents, acknowledged>>

-----------------------------------------------------------------------------
\* A worker of the subscriber's dispatcher PUTs some of what is pending.
Pending == {e \in Events : acks[e] = "pending"}

\* Faulty variant: the worker waits until a batch is full.
FullAckBatch == {S \in Acks!Batch : S \subseteq Pending /\ Cardinality(S) = MaxDispatchSize}

AckBatch == Acks!Batch \cap SUBSET Pending
AckStep == \E S \in AckBatch : Acknowledge(S)

TrackingNext ==
    \/ PublisherStep /\ UNCHANGED trackingVars
    \/ \E w \in Workers : Publish(w) \/ Announce(w)
    \/ Receive
    \/ AckStep
    \/ \E S \in AckBatch : LoseAcks(S)

TrackingSpec == TrackingInit /\ [][TrackingNext]_allVars

\* The threads of both programs run, requests are handled, and OpenFire sends what
\* was published to it.  There are only so many acknowledgements, so each of them is
\* handled or lost.
FairTrackingSpec ==
    /\ TrackingSpec
    /\ \A u \in Users : WF_allVars(PlayerStep(u) /\ UNCHANGED trackingVars)
    /\ \A w \in Workers :
          /\ WF_allVars((Dispatch(w) /\ UNCHANGED trackingVars) \/ Publish(w))
          /\ WF_allVars(Handle(w) /\ Announce(w))
    /\ WF_allVars(Receive)
    /\ WF_allVars(AckStep)

-----------------------------------------------------------------------------
TrackingTypeOK ==
    /\ TypeOK
    /\ notifications \in Seq({p.event : p \in published})
    /\ acks \in [Events -> Acks!Status]
    /\ lost \in 0 .. MaxLost
    /\ unAckEvents \subseteq Events
    /\ totalAckEvents \in Nat
    /\ acknowledged \subseteq Events

\* However often an event is published, by its own callback and by that of earlier
\* ones, and acknowledged: every event that was announced is at any time either
\* listed or counted, once.
EachCountedOnce ==
    /\ totalAckEvents + Cardinality(unAckEvents) = Cardinality({e \in Events : deliveries[e] > 0})
    /\ acknowledged \cap unAckEvents = {}

\* What is counted as acknowledged was published under its own name or that of an
\* earlier event of the same user, never of a later one, and a listener has read it.
AckedWasReceived ==
    \A e \in acknowledged : \E p \in published :
        /\ p.event[1] = e[1] /\ p.event[2] =< e[2]
        /\ p.payload = [loginId |-> TRUE, requestId |-> e[2]]
        /\ acks[p.event] = "delivered"

\* An event whose callback comes in time, before the player rewrites the payload, is
\* acknowledged in the end unless the acknowledgement is lost on its way: whatever
\* was acknowledged before, Mission Control knows the event by then.
PublishedInTime(e) ==
    [event |-> e, payload |-> [loginId |-> TRUE, requestId |-> e[2]]] \in published
InTimeIsAcknowledged ==
    \A e \in Events : PublishedInTime(e) ~> (e \in acknowledged \/ acks[e] = "lost")

\* Nothing is under way any more, and every callback has published something.
Quiet ==
    /\ \A e \in Events : \E p \in published : p.event = e
    /\ \A u \in Users : player[u] = "complete"
    /\ queue = <<>> /\ notifications = <<>>
    /\ \A w \in Workers : worker[w] = "polling" /\ retrievedItems[w] = <<>>
    /\ \A e \in Events : acks[e] # "pending"

\* The page calls the list "List Events Not Received": once nothing is under way it
\* should not list an event that a listener received and acknowledged.
ListedIsNotReceived ==
    Quiet => \A p \in published :
        p.payload.loginId /\ acks[p.event] = "delivered"
            => <<p.event[1], p.payload.requestId>> \notin unAckEvents
=============================================================================
