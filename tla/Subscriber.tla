----------------------------- MODULE Subscriber -----------------------------
(***************************************************************************)
(* SubscriberMain with its MessagingAgent threads, EventingService.init    *)
(* and OpenfireClient.getXMPPConnection: every agent logs in to OpenFire,  *)
(* sets up a listener and reports to Mission Control whether it listens;   *)
(* the main thread waits on a latch for all of them and draws the balance. *)
(*                                                                         *)
(* A session is the connection of one agent.  Over BOSH it sends through   *)
(* a sender of its own, see BoshSender.  The XMPP and BOSH libraries and   *)
(* OpenFire are not part of the repository: connecting, logging in and     *)
(* finding a node may succeed or throw, and a session may end.             *)
(***************************************************************************)
EXTENDS Naturals, FiniteSets

CONSTANTS Agents,       \* one per user: a MessagingAgent and its thread
          Protocols,    \* the listenerType configured: "BOSH" or "XMPP"
          PoolSize,     \* threads of thpool, 2300 in the code
          MaxEnds       \* bound on the sessions that OpenFire ends

ASSUME SubscriberAssumption ==
    /\ IsFiniteSet(Agents)
    /\ Protocols \subseteq {"BOSH", "XMPP"}
    /\ PoolSize \in Nat \ {0}
    /\ MaxEnds \in Nat

VARIABLES cfg, httpClient, httpCM      \* the senders', see BoshSender
VARIABLES
    protocol,              \* of all agents
    agent,                 \* where each agent is in run()
    session,               \* its connection: "none", "open", "ended" or "cut"
    status,                \* what it reported: "none", "true" or "false"
    latch,                 \* the CountDownLatch
    failCount, failedSubscriptions, totalLoggedInUsers,
    verdict,               \* what the main thread logged
    ends                   \* sessions that OpenFire has ended

Sender == INSTANCE BoshSender WITH Senders <- Agents

senderVars == <<cfg, httpClient, httpCM>>
counters == <<failCount, failedSubscriptions, totalLoggedInUsers>>
vars == <<senderVars, protocol, agent, session, status, latch, counters, verdict, ends>>

AgentState == {"scheduled", "connecting", "login", "subscribing", "listening",
               "failing", "counting", "failed", "ready", "sleeping", "done"}
OffPool == {"scheduled", "done"}

Init ==
    /\ Sender!SenderInit
    /\ protocol \in Protocols
    /\ agent = [a \in Agents |-> "scheduled"]
    /\ session = [a \in Agents |-> "none"]
    /\ status = [a \in Agents |-> "none"]
    /\ latch = Cardinality(Agents)
    /\ failCount = 0
    /\ failedSubscriptions = 0
    /\ totalLoggedInUsers = 0
    /\ verdict = "none"
    /\ ends = 0

\* Whether the session of a can send and receive: over BOSH that takes the shared
\* connection manager.
Usable(a) == session[a] = "open" /\ (protocol = "XMPP" \/ httpCM = "open")

Goto(a, place) == agent' = [agent EXCEPT ![a] = place]

-----------------------------------------------------------------------------
(* MessagingAgent.run() *)

\* A thread of the pool takes the agent.
Start(a) ==
    /\ agent[a] = "scheduled"
    /\ Cardinality({b \in Agents : agent[b] \notin OffPool}) < PoolSize
    /\ Goto(a, "connecting")
    /\ UNCHANGED <<senderVars, protocol, session, status, latch, counters, verdict, ends>>

\* XMPPConnection.connect(): a new BOSH session initializes its sender.
Connect(a) ==
    /\ agent[a] = "connecting"
    /\ IF protocol = "BOSH" THEN Sender!init(a) ELSE UNCHANGED senderVars
    /\ \/ /\ protocol = "XMPP" \/ httpCM = "open"
          /\ session' = [session EXCEPT ![a] = "open"]
          /\ Goto(a, "login")
       \/ /\ UNCHANGED session
          /\ Goto(a, "failed")
    /\ UNCHANGED <<protocol, status, latch, counters, verdict, ends>>

\* A request of the session of a and its answer.
Exchange(a) ==
    /\ Usable(a)
    /\ IF protocol = "BOSH" THEN Sender!send(a) ELSE UNCHANGED senderVars

Login(a) ==
    /\ agent[a] = "login" /\ Exchange(a)
    /\ Goto(a, "subscribing")
    /\ UNCHANGED <<protocol, session, status, latch, counters, verdict, ends>>

\* Faulty variant: the failure is counted here and in init().
LoginThrowsCounting(a) ==
    /\ agent[a] = "login"
    /\ failCount' = failCount + 1
    /\ Goto(a, "failed")
    /\ UNCHANGED <<senderVars, protocol, session, status, latch, failedSubscriptions,
                   totalLoggedInUsers, verdict, ends>>

\* login() throws, and the connection is left as it is.
LoginThrows(a) ==
    /\ agent[a] = "login"
    /\ Goto(a, "failed")
    /\ UNCHANGED <<senderVars, protocol, session, status, latch, counters, verdict, ends>>

\* The end of a session destroys the BOSH sender.
Disconnect(a) ==
    /\ session' = [session EXCEPT ![a] = "ended"]
    /\ IF protocol = "BOSH" THEN Sender!destroy(a) ELSE UNCHANGED senderVars

\* login() returns, but isAuthenticated() is false: disconnected, and thrown.
NotAuthenticated(a) ==
    /\ agent[a] = "login" /\ Usable(a)
    /\ Disconnect(a)
    /\ Goto(a, "failed")
    /\ UNCHANGED <<protocol, status, latch, counters, verdict, ends>>

\* Faulty variant: the count is read and written in two calls, and one gets lost.
CountFailureLost(a) ==
    /\ agent[a] = "failed"
    /\ failCount' = IF \E b \in Agents \ {a} : agent[b] = "failed" THEN failCount ELSE failCount + 1
    /\ Goto(a, "counting")
    /\ UNCHANGED <<senderVars, protocol, session, status, latch, failedSubscriptions,
                   totalLoggedInUsers, verdict, ends>>

\* Faulty variant: the exception also ends run().
CountFailureEnds(a) ==
    /\ agent[a] = "failed"
    /\ failCount' = failCount + 1
    /\ Goto(a, "done")
    /\ UNCHANGED <<senderVars, protocol, session, status, latch, failedSubscriptions,
                   totalLoggedInUsers, verdict, ends>>

\* init() catches whatever the connection threw.
CountFailure(a) ==
    /\ agent[a] = "failed"
    /\ failCount' = failCount + 1
    /\ Goto(a, "counting")
    /\ UNCHANGED <<senderVars, protocol, session, status, latch, failedSubscriptions,
                   totalLoggedInUsers, verdict, ends>>

\* getNode and addItemEventListener.
AddListener(a) ==
    /\ agent[a] = "subscribing" /\ Exchange(a)
    /\ Goto(a, "listening")
    /\ UNCHANGED <<protocol, session, status, latch, counters, verdict, ends>>

SubscriptionFails(a) ==
    /\ agent[a] = "subscribing"
    /\ failedSubscriptions' = failedSubscriptions + 1
    /\ Goto(a, "failing")
    /\ UNCHANGED <<senderVars, protocol, session, status, latch, failCount,
                   totalLoggedInUsers, verdict, ends>>

\* notifyListenerStatus.
ReportStatus(a) ==
    /\ agent[a] \in {"listening", "failing"}
    /\ status' = [status EXCEPT ![a] = IF agent[a] = "listening" THEN "true" ELSE "false"]
    /\ Goto(a, "ready")
    /\ UNCHANGED <<senderVars, protocol, session, latch, counters, verdict, ends>>

CountLogin(a) ==
    /\ agent[a] = "ready"
    /\ totalLoggedInUsers' = totalLoggedInUsers + 1
    /\ Goto(a, "counting")
    /\ UNCHANGED <<senderVars, protocol, session, status, latch, failCount,
                   failedSubscriptions, verdict, ends>>

\* latch.countDown(), after init() has returned in one way or the other.
CountDown(a) ==
    /\ agent[a] = "counting"
    /\ latch' = latch - 1
    /\ Goto(a, "sleeping")
    /\ UNCHANGED <<senderVars, protocol, session, status, counters, verdict, ends>>

\* The agent keeps its thread of the pool for ten minutes.
EndOfSleep(a) ==
    /\ agent[a] = "sleeping"
    /\ Goto(a, "done")
    /\ UNCHANGED <<senderVars, protocol, session, status, latch, counters, verdict, ends>>

-----------------------------------------------------------------------------
(* messagingTests() *)

AwaitLatch ==
    /\ latch = 0 /\ verdict = "none"
    /\ verdict' = IF failCount = 0 THEN "all logged in" ELSE "some failed"
    /\ UNCHANGED <<senderVars, protocol, agent, session, status, latch, counters, ends>>

-----------------------------------------------------------------------------
(* OpenFire and the libraries. *)

\* OpenFire ends the session, or the network does.
SessionEnds(a) ==
    /\ session[a] = "open" /\ ends < MaxEnds
    /\ ends' = ends + 1
    /\ Disconnect(a)
    /\ UNCHANGED <<protocol, agent, status, latch, counters, verdict>>

\* The session sends its next request, and the connection manager is shut down.
SessionCut(a) ==
    /\ session[a] = "open" /\ ~Usable(a)
    /\ session' = [session EXCEPT ![a] = "cut"]
    /\ UNCHANGED <<senderVars, protocol, agent, status, latch, counters, verdict, ends>>

-----------------------------------------------------------------------------
AgentStep(a) ==
    \/ Start(a) \/ Connect(a) \/ Login(a) \/ LoginThrows(a) \/ NotAuthenticated(a)
    \/ CountFailure(a) \/ AddListener(a) \/ SubscriptionFails(a) \/ ReportStatus(a)
    \/ CountLogin(a) \/ CountDown(a) \/ EndOfSleep(a)

Next ==
    \/ \E a \in Agents : AgentStep(a) \/ SessionEnds(a) \/ SessionCut(a)
    \/ AwaitLatch

Spec == Init /\ [][Next]_vars

\* The threads of the pool and the main thread run on, and the libraries answer
\* or throw in the end.
FairSpec ==
    /\ Spec
    /\ \A a \in Agents : WF_vars(AgentStep(a))
    /\ WF_vars(AwaitLatch)

-----------------------------------------------------------------------------
SubscriberTypeOK ==
    /\ Sender!SenderTypeOK
    /\ protocol \in {"BOSH", "XMPP"}
    /\ agent \in [Agents -> AgentState]
    /\ session \in [Agents -> {"none", "open", "ended", "cut"}]
    /\ status \in [Agents -> {"none", "true", "false"}]
    /\ latch \in 0 .. Cardinality(Agents)
    /\ failCount \in 0 .. Cardinality(Agents)
    /\ failedSubscriptions \in 0 .. Cardinality(Agents)
    /\ totalLoggedInUsers \in 0 .. Cardinality(Agents)
    /\ verdict \in {"none", "all logged in", "some failed"}
    /\ ends \in 0 .. MaxEnds

\* "All users logged in": when the main thread draws the balance it is final, and
\* every agent is in it: either counted as failed, without a report to Mission
\* Control, or logged in and reported.
VerdictIsRight ==
    verdict # "none" =>
        /\ verdict = "all logged in" <=> \A a \in Agents : status[a] # "none"
        /\ failCount = Cardinality({a \in Agents : status[a] = "none"})
        /\ failCount + totalLoggedInUsers = Cardinality(Agents)
        /\ failedSubscriptions = Cardinality({a \in Agents : status[a] = "false"})

\* The main thread draws the balance, also if some agents fail and if there are
\* fewer threads than agents: none leaves without counting the latch down.
VerdictComes == <>(verdict # "none")

\* An agent that Mission Control shows as "Listening" is cut off by nothing but the
\* end of its own session.
ListeningIsConnected == \A a \in Agents : status[a] = "true" => session[a] # "cut"
=============================================================================
