----------------------------- MODULE Publisher ------------------------------
(***************************************************************************)
(* PublisherMain and its ScenarioPlayer threads, together with the bulk    *)
(* dispatcher they share and the pause flag of Mission Control.            *)
(*                                                                         *)
(* One player per user repeatedly rewrites the user's XML payload, hands a *)
(* tracking message for it to the dispatcher and looks at the pause flag.  *)
(* The event itself is published much later, by the worker thread that     *)
(* sent the tracking message, through the callback eventSent(), which      *)
(* reads the payload that the player meanwhile keeps rewriting.            *)
(***************************************************************************)
EXTENDS Naturals, Sequences

CONSTANTS Users,             \* the user ids that Mission Control knows
          Workers, MaxDispatchSize, MaxFailures,    \* see BulkData
          MaxMessages,       \* messages per player: 100000 in ScenarioPlayer
          MaxToggles         \* bound on the operator's Pause and Resume clicks

ASSUME PublisherAssumption ==
    /\ MaxDispatchSize \in Nat \ {0}
    /\ MaxFailures \in Nat
    /\ MaxMessages \in Nat \ {0}
    /\ MaxToggles \in Nat

VARIABLES queue, isPaused, worker, retrievedItems, cursor, reply, failures,
          added, sent, deliveries      \* the dispatcher's, see BulkData
VARIABLES
    player,          \* where each ScenarioPlayer thread is in its loop
    message,         \* its loop counter i
    pausedSeen,      \* its local isPaused
    requestId,       \* UserModel.requestId, the number of the next request
    userModal,       \* UserModel.userModal, the payload being (re)written
    missionPaused,   \* Statistics.isPaused in Mission Control
    toggles,         \* clicks of the operator (bounded by MaxToggles)
    published        \* history: what eventSent() published, and for which event

Events == Users \X (1 .. MaxMessages)    \* "req-<user>-<number>"

Bulk == INSTANCE BulkData WITH Items <- Events

playerVars == <<player, message, pausedSeen, requestId, userModal>>
controlVars == <<missionPaused, toggles>>
bulkVars == <<queue, isPaused, worker, retrievedItems, cursor, reply, failures,
              added, sent, deliveries>>
vars == <<bulkVars, playerVars, controlVars, published>>

PlayerState == {"ready", "user", "request", "add", "added", "complete"}

\* A payload is the template with some placeholders filled in: loginId, without
\* which no subscriber can read it, and the number of the request (0: not yet).
Payload == [loginId : BOOLEAN, requestId : 0 .. MaxMessages]
Template == [loginId |-> FALSE, requestId |-> 0]

\* The message that toSentMsg() builds: it names the request made last.
TrackMsg(u) == <<u, requestId[u] - 1>>

\* The constructor of UserModel has already used up request number 0.
Init ==
    /\ Bulk!Init
    /\ player = [u \in Users |-> "ready"]
    /\ message = [u \in Users |-> 0]
    /\ pausedSeen = [u \in Users |-> FALSE]
    /\ requestId = [u \in Users |-> 1]
    /\ userModal = [u \in Users |-> Template]
    /\ missionPaused = FALSE
    /\ toggles = 0
    /\ published = {}

-----------------------------------------------------------------------------
(* Faulty variants of steps below, see BulkData. *)

\* The payload keeps the number of the request before.
FillRequestIdStale(u) ==
    /\ player[u] = "request"
    /\ player' = [player EXCEPT ![u] = "add"]
    /\ userModal' = [userModal EXCEPT ![u].requestId = requestId[u] - 1]
    /\ requestId' = [requestId EXCEPT ![u] = @ + 1]
    /\ UNCHANGED <<message, pausedSeen, published, bulkVars, controlVars>>

\* i-- also for a turn that handed in a message.
SeeFlagUncounted(u) ==
    /\ player[u] = "added"
    /\ player' = [player EXCEPT ![u] = "ready"]
    /\ pausedSeen' = [pausedSeen EXCEPT ![u] = isPaused]
    /\ UNCHANGED <<message, requestId, userModal, published, bulkVars, controlVars>>

\* The i-- is missing: a paused turn counts as a message.
AwaitResumeCounts(u) ==
    /\ player[u] = "ready" /\ message[u] < MaxMessages /\ pausedSeen[u]
    /\ pausedSeen' = [pausedSeen EXCEPT ![u] = isPaused]
    /\ message' = [message EXCEPT ![u] = @ + 1]
    /\ UNCHANGED <<player, requestId, userModal, published, bulkVars, controlVars>>

\* A paused turn does not look at the flag again.
AwaitResumeBlind(u) ==
    /\ player[u] = "ready" /\ message[u] < MaxMessages /\ pausedSeen[u]
    /\ message' = [message EXCEPT ![u] = (IF @ > 0 THEN @ - 1 ELSE @) + 1]
    /\ UNCHANGED <<player, pausedSeen, requestId, userModal, published, bulkVars,
                   controlVars>>

-----------------------------------------------------------------------------
(* The thread of one ScenarioPlayer. *)

\* user.setState begins: the payload is the bare template again.
BeginMessage(u) ==
    /\ player[u] = "ready" /\ message[u] < MaxMessages /\ ~pausedSeen[u]
    /\ player' = [player EXCEPT ![u] = "user"]
    /\ userModal' = [userModal EXCEPT ![u] = Template]
    /\ UNCHANGED <<message, pausedSeen, requestId, published>>
    /\ UNCHANGED <<bulkVars, controlVars>>

FillUserId(u) ==
    /\ player[u] = "user"
    /\ player' = [player EXCEPT ![u] = "request"]
    /\ userModal' = [userModal EXCEPT ![u].loginId = TRUE]
    /\ UNCHANGED <<message, pausedSeen, requestId, published>>
    /\ UNCHANGED <<bulkVars, controlVars>>

\* generateRequestId() counts before its result is filled in.
FillRequestId(u) ==
    /\ player[u] = "request"
    /\ player' = [player EXCEPT ![u] = "add"]
    /\ userModal' = [userModal EXCEPT ![u].requestId = requestId[u]]
    /\ requestId' = [requestId EXCEPT ![u] = @ + 1]
    /\ UNCHANGED <<message, pausedSeen, published>>
    /\ UNCHANGED <<bulkVars, controlVars>>

AddMessage(u) ==
    /\ player[u] = "add"
    /\ Bulk!AddMessage(TrackMsg(u))
    /\ player' = [player EXCEPT ![u] = "added"]
    /\ UNCHANGED <<message, pausedSeen, requestId, userModal, published>>
    /\ UNCHANGED controlVars

\* addMessage returns the flag that the workers share; the turn ends.
SeeFlag(u) ==
    /\ player[u] = "added"
    /\ player' = [player EXCEPT ![u] = "ready"]
    /\ pausedSeen' = [pausedSeen EXCEPT ![u] = isPaused]
    /\ message' = [message EXCEPT ![u] = @ + 1]
    /\ UNCHANGED <<requestId, userModal, published>>
    /\ UNCHANGED <<bulkVars, controlVars>>

\* A paused turn only looks at the flag; i-- undoes the i++ of the loop.
AwaitResume(u) ==
    /\ player[u] = "ready" /\ message[u] < MaxMessages /\ pausedSeen[u]
    /\ pausedSeen' = [pausedSeen EXCEPT ![u] = isPaused]
    /\ message' = [message EXCEPT ![u] = (IF @ > 0 THEN @ - 1 ELSE @) + 1]
    /\ UNCHANGED <<player, requestId, userModal, published>>
    /\ UNCHANGED <<bulkVars, controlVars>>

Complete(u) ==
    /\ player[u] = "ready" /\ message[u] >= MaxMessages
    /\ player' = [player EXCEPT ![u] = "complete"]
    /\ UNCHANGED <<message, pausedSeen, requestId, userModal, published>>
    /\ UNCHANGED <<bulkVars, controlVars>>

PlayerStep(u) == BeginMessage(u) \/ FillUserId(u) \/ FillRequestId(u)
                 \/ AddMessage(u) \/ SeeFlag(u) \/ AwaitResume(u) \/ Complete(u)

-----------------------------------------------------------------------------
(* The worker threads of the dispatcher, and Mission Control. *)

\* eventSent(): user.toString() is whatever the payload is now.  sendEvent
\* swallows the exceptions of a publish that fails.
EventSent(w) ==
    /\ Bulk!NotifyItem(w)
    /\ LET event == retrievedItems[w][cursor[w] + 1]
       IN  published' \in {published,
              published \cup {[event |-> event, payload |-> userModal[event[1]]]}}
    /\ UNCHANGED <<playerVars, controlVars>>

Dispatch(w) ==
    /\ Bulk!Take(w) \/ Bulk!Flush(w) \/ Bulk!ReceiveReply(w) \/ Bulk!FinishPublish(w)
    /\ UNCHANGED <<playerVars, controlVars, published>>

WorkerStep(w) == EventSent(w) \/ Dispatch(w)

\* The handler answers with the flag as it is once the batch is worked through.
Handle(w) ==
    /\ Bulk!Handle(w, missionPaused)
    /\ UNCHANGED <<playerVars, controlVars, published>>

Failure(w) ==
    /\ Bulk!Failure(w)
    /\ UNCHANGED <<playerVars, controlVars, published>>

\* The operator clicks Pause or Resume.
SetPaused(paused) ==
    /\ toggles < MaxToggles
    /\ missionPaused # paused
    /\ missionPaused' = paused
    /\ toggles' = toggles + 1
    /\ UNCHANGED <<playerVars, published, bulkVars>>

Next ==
    \/ \E u \in Users : PlayerStep(u)
    \/ \E w \in Workers : WorkerStep(w) \/ Handle(w) \/ Failure(w)
    \/ \E paused \in BOOLEAN : SetPaused(paused)

Spec == Init /\ [][Next]_vars

\* Player and worker threads are scheduled, and requests are answered.  The
\* operator need not click.
FairSpec ==
    /\ Spec
    /\ \A u \in Users : WF_vars(PlayerStep(u))
    /\ \A w \in Workers : WF_vars(WorkerStep(w)) /\ WF_vars(Handle(w))

-----------------------------------------------------------------------------
TypeOK ==
    /\ Bulk!BulkTypeOK
    /\ player \in [Users -> PlayerState]
    /\ message \in [Users -> 0 .. MaxMessages]
    /\ pausedSeen \in [Users -> BOOLEAN]
    /\ requestId \in [Users -> 1 .. MaxMessages + 1]
    /\ userModal \in [Users -> Payload]
    /\ missionPaused \in BOOLEAN
    /\ toggles \in 0 .. MaxToggles
    /\ published \in SUBSET [event : Events, payload : Payload]

\* A player that completes has handed in every one of its messages, however often
\* it was paused on the way: the i-- of the paused turns neither skips nor
\* repeats a message.
CompleteMeansAll ==
    \A u \in Users : player[u] = "complete" =>
        {e \in added : e[1] = u} = {u} \X (1 .. MaxMessages)

\* eventSent() runs only for an event whose tracking message Mission Control got.
TrackedBeforePublished == \A p \in published : deliveries[p.event] > 0

\* What is published in the name of an event is its own payload, the torn payload
\* of a later one or a later one; an older payload is never sent again.
NeverOlder ==
    \A p \in published :
        p.payload.requestId = 0 \/ p.payload.requestId >= p.event[2]

\* The publisher has come to rest while paused: every player waits for the flag
\* (or is complete) and no worker has anything left to send.
AtRest ==
    /\ isPaused
    /\ \A u \in Users : player[u] = "complete"
                        \/ (player[u] = "ready" /\ pausedSeen[u])
    /\ queue = <<>>
    /\ \A w \in Workers : worker[w] \in Bulk!Stopped \/ retrievedItems[w] = <<>>

\* Rest is for good, whatever the operator clicks: the flag is refreshed only by
\* the answer to a PUT, and there is nothing left to PUT.
RestIsForGood == [][AtRest => AtRest']_vars

\* A player is held up by nothing but the flag: all of them get through all of
\* their messages, whatever happens to the workers, or the flag ends up set for
\* good (by the answer to the last PUT that came through).
CompletesUnlessPaused ==
    <>[]isPaused \/ <>(\A u \in Users : player[u] = "complete")

\* Statistics answers the operator's Resume with "Resuming event publish": once
\* the operator has resumed for the last time, the players should go on.
ResumeResumes ==
    <>[](~missionPaused) => <>(\A u \in Users : player[u] = "complete")
=============================================================================
