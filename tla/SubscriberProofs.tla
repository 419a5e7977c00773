--------------------------- MODULE SubscriberProofs --------------------------
(***************************************************************************)
(* Proofs about Subscriber for every finite set of agents, every number of *)
(* threads of the pool and every number of sessions that OpenFire ends.    *)
(***************************************************************************)
EXTENDS Subscriber, FiniteSetTheorems, TLAPS

\* An agent is undecided until init() knows how it went, and counted afterwards.
Undecided == {"scheduled", "connecting", "login", "subscribing", "listening", "failing", "failed"}
Counted   == {"counting", "sleeping", "done"}

\* Whom the latch and the counters count.
Out          == {a \in Agents : agent[a] \notin {"sleeping", "done"}}
Failures     == {a \in Agents : agent[a] \in Counted /\ status[a] = "none"}
LoggedIn     == {a \in Agents : agent[a] \in Counted /\ status[a] # "none"}
NotListening == {a \in Agents : agent[a] = "failing" \/ status[a] = "false"}

Types ==
    /\ Sender!SenderTypeOK
    /\ protocol \in {"BOSH", "XMPP"}
    /\ agent \in [Agents -> AgentState]
    /\ session \in [Agents -> {"none", "open", "ended", "cut"}]
    /\ status \in [Agents -> {"none", "true", "false"}]
    /\ verdict \in {"none", "all logged in", "some failed"}
    /\ ends \in 0 .. MaxEnds

\* An agent has reported to Mission Control when and only when it is logged in.
PlacesInv ==
    \A a \in Agents :
        /\ agent[a] \in Undecided => status[a] = "none"
        /\ agent[a] = "ready" => status[a] # "none"

CountInv ==
    /\ latch = Cardinality(Out)
    /\ failCount = Cardinality(Failures)
    /\ totalLoggedInUsers = Cardinality(LoggedIn)
    /\ failedSubscriptions = Cardinality(NotListening)

\* The balance is drawn when nobody is out any more.
VerdictInv ==
    verdict # "none" => /\ Out = {}
                        /\ verdict = "all logged in" <=> failCount = 0

SubscriberInv == Types /\ PlacesInv /\ CountInv /\ VerdictInv

-----------------------------------------------------------------------------
(* Counting agents. *)

LEMMA CountFacts ==
    ASSUME NEW S \in SUBSET Agents
    PROVE  /\ IsFiniteSet(S) /\ Cardinality(S) \in 0 .. Cardinality(Agents)
           /\ Cardinality(S) = 0 <=> S = {}
           /\ \A a \in Agents \ S : Cardinality(S \cup {a}) = Cardinality(S) + 1
           /\ \A a \in S : Cardinality(S \ {a}) = Cardinality(S) - 1
  <1>1. IsFiniteSet(Agents)
    BY SubscriberAssumption DEF SubscriberAssumption
  <1>2. IsFiniteSet(S) /\ Cardinality(S) <= Cardinality(Agents)
    BY <1>1, FS_Subset
  <1>3. Cardinality(S) \in Nat /\ Cardinality(Agents) \in Nat
    BY <1>1, <1>2, FS_CardinalityType
  <1>4. Cardinality(S) = 0 <=> S = {}
    BY <1>2, FS_EmptySet
  <1>5. \A a \in Agents \ S : Cardinality(S \cup {a}) = Cardinality(S) + 1
    BY <1>2, FS_AddElement
  <1>6. \A a \in S : Cardinality(S \ {a}) = Cardinality(S) - 1
    BY <1>2, FS_RemoveElement
  <1> QED
    BY <1>2, <1>3, <1>4, <1>5, <1>6

\* Agents that failed and agents that logged in are different ones.
LEMMA Division ==
    ASSUME NEW S \in SUBSET Agents, NEW T \in SUBSET Agents, S \cap T = {}, S \cup T = Agents
    PROVE  Cardinality(S) + Cardinality(T) = Cardinality(Agents)
  <1>1. IsFiniteSet(S) /\ IsFiniteSet(T)
    BY CountFacts
  <1>2. Cardinality(S) \in Nat /\ Cardinality(T) \in Nat
    BY <1>1, FS_CardinalityType
  <1>3. Cardinality(S \cup T) = Cardinality(S) + Cardinality(T) - Cardinality(S \cap T)
    BY <1>1, FS_Union
  <1>4. Cardinality(S \cap T) = 0 /\ Cardinality(S \cup T) = Cardinality(Agents)
    BY FS_EmptySet, Zenon
  <1> QED
    BY <1>2, <1>3, <1>4

-----------------------------------------------------------------------------
(* Types and places. *)

LEMMA InitInv == Init => SubscriberInv
  <1> SUFFICES ASSUME Init PROVE SubscriberInv
    OBVIOUS
  <1>1. Types
    BY SubscriberAssumption
       DEF Init, Types, Sender!SenderInit, Sender!SenderTypeOK, AgentState, SubscriberAssumption
  <1>2. PlacesInv
    BY DEF Init, PlacesInv
  <1>3. Out = Agents /\ Failures = {} /\ LoggedIn = {} /\ NotListening = {}
    BY DEF Init, Out, Failures, LoggedIn, NotListening, Counted
  <1>4. CountInv
    BY <1>3, FS_EmptySet DEF Init, CountInv
  <1>5. VerdictInv
    BY DEF Init, VerdictInv
  <1> QED
    BY <1>1, <1>2, <1>4, <1>5 DEF SubscriberInv

LEMMA SenderTypes ==
    ASSUME Sender!SenderTypeOK, NEW a \in Agents,
           \/ Sender!init(a) \/ Sender!send(a) \/ Sender!destroy(a)
           \/ UNCHANGED senderVars
    PROVE  Sender!SenderTypeOK'
  BY DEF Sender!SenderTypeOK, Sender!init, Sender!send, Sender!destroy, senderVars

LEMMA AgentTypes ==
    ASSUME Types, NEW a \in Agents, AgentStep(a)
    PROVE  Types'
  <1>1. Sender!SenderTypeOK'
    <2>1. \/ Sender!init(a) \/ Sender!send(a) \/ Sender!destroy(a) \/ UNCHANGED senderVars
      BY DEF AgentStep, Start, Connect, Login, LoginThrows, NotAuthenticated, CountFailure,
             AddListener, SubscriptionFails, ReportStatus, CountLogin, CountDown, EndOfSleep,
             Exchange, Disconnect
    <2> QED
      BY <2>1, SenderTypes DEF Types
  <1>2. \E place \in AgentState : Goto(a, place)
    BY DEF AgentStep, Start, Connect, Login, LoginThrows, NotAuthenticated, CountFailure,
           AddListener, SubscriptionFails, ReportStatus, CountLogin, CountDown, EndOfSleep, AgentState
  <1>3. agent' \in [Agents -> AgentState]
    BY <1>2 DEF Goto, Types
  <1>4. session' \in [Agents -> {"none", "open", "ended", "cut"}]
    BY DEF AgentStep, Start, Connect, Login, LoginThrows, NotAuthenticated, CountFailure,
           AddListener, SubscriptionFails, ReportStatus, CountLogin, CountDown, EndOfSleep,
           Disconnect, Types
  <1>5. status' \in [Agents -> {"none", "true", "false"}]
    BY DEF AgentStep, Start, Connect, Login, LoginThrows, NotAuthenticated, CountFailure,
           AddListener, SubscriptionFails, ReportStatus, CountLogin, CountDown, EndOfSleep, Types
  <1>6. UNCHANGED <<protocol, verdict, ends>>
    BY DEF AgentStep, Start, Connect, Login, LoginThrows, NotAuthenticated, CountFailure,
           AddListener, SubscriptionFails, ReportStatus, CountLogin, CountDown, EndOfSleep
  <1> QED
    BY <1>1, <1>3, <1>4, <1>5, <1>6 DEF Types

LEMMA NextTypes == Types /\ [Next]_vars => Types'
  <1> SUFFICES ASSUME Types, [Next]_vars PROVE Types'
    OBVIOUS
  <1>1. ASSUME NEW a \in Agents, SessionEnds(a)
        PROVE  Types'
    <2>1. Sender!destroy(a) \/ UNCHANGED senderVars
      BY <1>1 DEF SessionEnds, Disconnect
    <2>2. Sender!SenderTypeOK'
      BY <2>1, SenderTypes DEF Types
    <2>3. MaxEnds \in Nat /\ ends \in 0 .. MaxEnds /\ ends < MaxEnds /\ ends' = ends + 1
      BY <1>1, SubscriberAssumption DEF SessionEnds, Types, SubscriberAssumption
    <2>4. ends' \in 0 .. MaxEnds
      BY <2>3
    <2> QED
      BY <1>1, <2>2, <2>4 DEF SessionEnds, Disconnect, Types
  <1>2. ASSUME NEW a \in Agents, SessionCut(a)
        PROVE  Types'
    <2>1. Sender!SenderTypeOK'
      BY <1>2, SenderTypes DEF SessionCut, Types
    <2> QED
      BY <1>2, <2>1 DEF SessionCut, Types
  <1>3. CASE AwaitLatch \/ UNCHANGED vars
    <2>1. Sender!SenderTypeOK'
      BY <1>3 DEF AwaitLatch, vars, senderVars, Types, Sender!SenderTypeOK
    <2> QED
      BY <1>3, <2>1 DEF AwaitLatch, vars, Types
  <1> QED
    BY <1>1, <1>2, <1>3, AgentTypes DEF Next

-----------------------------------------------------------------------------
(* Counts. *)

\* The sets that are counted, as a step leaves them.
SameSets == Out' = Out /\ Failures' = Failures /\ LoggedIn' = LoggedIn /\ NotListening' = NotListening

LEMMA SameSetsKeep ==
    ASSUME SubscriberInv, SameSets, UNCHANGED <<latch, counters>>,
           UNCHANGED verdict
    PROVE  CountInv' /\ VerdictInv'
  BY DEF SubscriberInv, CountInv, VerdictInv, SameSets, counters

LEMMA NextInv == SubscriberInv /\ [Next]_vars => SubscriberInv'
  <1> SUFFICES ASSUME SubscriberInv, [Next]_vars PROVE SubscriberInv'
    OBVIOUS
  <1>1. Types /\ Types' /\ PlacesInv /\ CountInv /\ VerdictInv
    BY NextTypes DEF SubscriberInv
  <1>2. agent \in [Agents -> AgentState] /\ status \in [Agents -> {"none", "true", "false"}]
    BY <1>1 DEF Types
  <1>3. /\ Out \in SUBSET Agents /\ Failures \in SUBSET Agents
        /\ LoggedIn \in SUBSET Agents /\ NotListening \in SUBSET Agents
    BY DEF Out, Failures, LoggedIn, NotListening
  <1> SUFFICES PlacesInv' /\ CountInv' /\ VerdictInv'
    BY <1>1 DEF SubscriberInv
  <1>4. ASSUME NEW a \in Agents, NEW place \in Undecided \ {"failing"}, Goto(a, place),
               agent[a] \in Undecided \ {"failing"}, UNCHANGED <<status, latch, counters, verdict>>
        PROVE  PlacesInv' /\ CountInv' /\ VerdictInv'
    <2>1. PlacesInv'
      BY <1>1, <1>2, <1>4 DEF PlacesInv, Goto, Undecided
    <2>2. SameSets
      BY <1>2, <1>4 DEF SameSets, Goto, Out, Failures, LoggedIn, NotListening, Counted, Undecided
    <2> QED
      BY <1>4, <2>1, <2>2, SameSetsKeep
  <1>5. ASSUME NEW a \in Agents, Start(a) \/ Connect(a) \/ Login(a) \/ LoginThrows(a)
                                    \/ NotAuthenticated(a) \/ AddListener(a)
        PROVE  PlacesInv' /\ CountInv' /\ VerdictInv'
    <2>1. /\ agent[a] \in Undecided \ {"failing"}
          /\ \E place \in Undecided \ {"failing"} : Goto(a, place)
          /\ UNCHANGED <<status, latch, counters, verdict>>
      BY <1>5 DEF Start, Connect, Login, LoginThrows, NotAuthenticated, AddListener, Undecided
    <2> QED
      BY <1>4, <2>1
  <1>6. ASSUME NEW a \in Agents, CountFailure(a)
        PROVE  PlacesInv' /\ CountInv' /\ VerdictInv'
    <2>1. /\ agent[a] = "failed" /\ agent' = [agent EXCEPT ![a] = "counting"] /\ status[a] = "none"
          /\ failCount' = failCount + 1
          /\ UNCHANGED <<status, latch, failedSubscriptions, totalLoggedInUsers, verdict>>
      BY <1>1, <1>6 DEF CountFailure, Goto, PlacesInv, Undecided
    <2>2. PlacesInv'
      BY <1>1, <1>2, <2>1 DEF PlacesInv, Undecided
    <2>3. /\ Out' = Out /\ LoggedIn' = LoggedIn /\ NotListening' = NotListening
          /\ Failures' = Failures \cup {a} /\ a \notin Failures /\ a \in Out
      BY <1>2, <2>1 DEF Out, Failures, LoggedIn, NotListening, Counted
    <2>4. Cardinality(Failures \cup {a}) = Cardinality(Failures) + 1
      BY <1>3, <2>3, CountFacts
    <2>5. CountInv'
      BY <1>1, <2>1, <2>3, <2>4 DEF CountInv
    <2>6. VerdictInv'
      BY <1>1, <2>1, <2>3 DEF VerdictInv
    <2> QED
      BY <2>2, <2>5, <2>6
  <1>7. ASSUME NEW a \in Agents, SubscriptionFails(a)
        PROVE  PlacesInv' /\ CountInv' /\ VerdictInv'
    <2>1. /\ agent[a] = "subscribing" /\ agent' = [agent EXCEPT ![a] = "failing"] /\ status[a] = "none"
          /\ failedSubscriptions' = failedSubscriptions + 1
          /\ UNCHANGED <<status, latch, failCount, totalLoggedInUsers, verdict>>
      BY <1>1, <1>7 DEF SubscriptionFails, Goto, PlacesInv, Undecided
    <2>2. PlacesInv'
      BY <1>1, <1>2, <2>1 DEF PlacesInv, Undecided
    <2>3. /\ Out' = Out /\ LoggedIn' = LoggedIn /\ Failures' = Failures
          /\ NotListening' = NotListening \cup {a} /\ a \notin NotListening
      BY <1>2, <2>1 DEF Out, Failures, LoggedIn, NotListening, Counted
    <2>4. Cardinality(NotListening \cup {a}) = Cardinality(NotListening) + 1
      BY <1>3, <2>3, CountFacts
    <2>5. CountInv'
      BY <1>1, <2>1, <2>3, <2>4 DEF CountInv
    <2>6. VerdictInv'
      BY <1>1, <2>1, <2>3 DEF VerdictInv
    <2> QED
      BY <2>2, <2>5, <2>6
  <1>8. ASSUME NEW a \in Agents, ReportStatus(a)
        PROVE  PlacesInv' /\ CountInv' /\ VerdictInv'
    <2>1. /\ agent[a] \in {"listening", "failing"} /\ agent' = [agent EXCEPT ![a] = "ready"]
          /\ status' = [status EXCEPT ![a] = IF agent[a] = "listening" THEN "true" ELSE "false"]
          /\ status[a] = "none"
          /\ UNCHANGED <<latch, counters, verdict>>
      BY <1>1, <1>8 DEF ReportStatus, Goto, PlacesInv, Undecided
    <2>2. PlacesInv'
      BY <1>1, <1>2, <2>1 DEF PlacesInv, Undecided
    <2>3. SameSets
      BY <1>2, <2>1 DEF SameSets, Out, Failures, LoggedIn, NotListening, Counted
    <2> QED
      BY <2>1, <2>2, <2>3, SameSetsKeep
  <1>9. ASSUME NEW a \in Agents, CountLogin(a)
        PROVE  PlacesInv' /\ CountInv' /\ VerdictInv'
    <2>1. /\ agent[a] = "ready" /\ agent' = [agent EXCEPT ![a] = "counting"] /\ status[a] # "none"
          /\ totalLoggedInUsers' = totalLoggedInUsers + 1
          /\ UNCHANGED <<status, latch, failCount, failedSubscriptions, verdict>>
      BY <1>1, <1>9 DEF CountLogin, Goto, PlacesInv
    <2>2. PlacesInv'
      BY <1>1, <1>2, <2>1 DEF PlacesInv, Undecided
    <2>3. /\ Out' = Out /\ Failures' = Failures /\ NotListening' = NotListening
          /\ LoggedIn' = LoggedIn \cup {a} /\ a \notin LoggedIn
      BY <1>2, <2>1 DEF Out, Failures, LoggedIn, NotListening, Counted
    <2>4. Cardinality(LoggedIn \cup {a}) = Cardinality(LoggedIn) + 1
      BY <1>3, <2>3, CountFacts
    <2>5. CountInv'
      BY <1>1, <2>1, <2>3, <2>4 DEF CountInv
    <2>6. VerdictInv'
      BY <1>1, <2>1, <2>3 DEF VerdictInv
    <2> QED
      BY <2>2, <2>5, <2>6
  <1>10. ASSUME NEW a \in Agents, CountDown(a)
         PROVE  PlacesInv' /\ CountInv' /\ VerdictInv'
    <2>1. /\ agent[a] = "counting" /\ agent' = [agent EXCEPT ![a] = "sleeping"]
          /\ latch' = latch - 1 /\ UNCHANGED <<status, counters, verdict>>
      BY <1>10 DEF CountDown, Goto
    <2>2. PlacesInv'
      BY <1>1, <1>2, <2>1 DEF PlacesInv, Undecided
    <2>3. /\ Out' = Out \ {a} /\ a \in Out
          /\ Failures' = Failures /\ LoggedIn' = LoggedIn /\ NotListening' = NotListening
      BY <1>2, <2>1 DEF Out, Failures, LoggedIn, NotListening, Counted
    <2>4. Cardinality(Out \ {a}) = Cardinality(Out) - 1
      BY <1>3, <2>3, CountFacts
    <2>5. CountInv'
      BY <1>1, <2>1, <2>3, <2>4 DEF CountInv, counters
    <2>6. VerdictInv'
      BY <1>1, <2>1, <2>3 DEF VerdictInv, counters
    <2> QED
      BY <2>2, <2>5, <2>6
  <1>11. ASSUME NEW a \in Agents, EndOfSleep(a)
         PROVE  PlacesInv' /\ CountInv' /\ VerdictInv'
    <2>1. /\ agent[a] = "sleeping" /\ agent' = [agent EXCEPT ![a] = "done"]
          /\ UNCHANGED <<status, latch, counters, verdict>>
      BY <1>11 DEF EndOfSleep, Goto
    <2>2. PlacesInv'
      BY <1>1, <1>2, <2>1 DEF PlacesInv, Undecided
    <2>3. SameSets
      BY <1>2, <2>1 DEF SameSets, Out, Failures, LoggedIn, NotListening, Counted
    <2> QED
      BY <2>1, <2>2, <2>3, SameSetsKeep
  <1>12. CASE AwaitLatch
    <2>1. /\ UNCHANGED <<agent, status, latch, counters>> /\ latch = 0
          /\ verdict' = IF failCount = 0 THEN "all logged in" ELSE "some failed"
      BY <1>12 DEF AwaitLatch
    <2>2. PlacesInv'
      BY <1>1, <2>1 DEF PlacesInv
    <2>3. SameSets
      BY <2>1 DEF SameSets, Out, Failures, LoggedIn, NotListening
    <2>4. Out = {}
      BY <1>1, <1>3, <2>1, CountFacts DEF CountInv
    <2>5. CountInv' /\ VerdictInv'
      BY <1>1, <2>1, <2>3, <2>4 DEF CountInv, VerdictInv, SameSets, counters
    <2> QED
      BY <2>2, <2>5
  <1>13. CASE UNCHANGED <<agent, status, latch, counters, verdict>>
    <2>1. PlacesInv' /\ SameSets
      BY <1>1, <1>13 DEF PlacesInv, SameSets, Out, Failures, LoggedIn, NotListening
    <2> QED
      BY <1>13, <2>1, SameSetsKeep
  <1>14. (UNCHANGED vars \/ \E a \in Agents : SessionEnds(a) \/ SessionCut(a))
             => UNCHANGED <<agent, status, latch, counters, verdict>>
    BY DEF vars, SessionEnds, SessionCut
  <1> QED
    BY <1>5, <1>6, <1>7, <1>8, <1>9, <1>10, <1>11, <1>12, <1>13, <1>14 DEF Next, AgentStep

LEMMA Invariance == Spec => []SubscriberInv
  BY InitInv, NextInv, PTL DEF Spec

\* The counters and the latch count agents, so none leaves its range: the latch never
\* passes zero, and nothing is counted twice.
THEOREM SubscriberTypeCorrect == Spec => []SubscriberTypeOK
  <1>1. SubscriberInv => SubscriberTypeOK
    <2> SUFFICES ASSUME SubscriberInv PROVE SubscriberTypeOK
      OBVIOUS
    <2>1. /\ Out \in SUBSET Agents /\ Failures \in SUBSET Agents
          /\ LoggedIn \in SUBSET Agents /\ NotListening \in SUBSET Agents
      BY DEF Out, Failures, LoggedIn, NotListening
    <2>2. /\ latch \in 0 .. Cardinality(Agents) /\ failCount \in 0 .. Cardinality(Agents)
          /\ totalLoggedInUsers \in 0 .. Cardinality(Agents)
          /\ failedSubscriptions \in 0 .. Cardinality(Agents)
      BY <2>1, CountFacts DEF SubscriberInv, CountInv
    <2> QED
      BY <2>2 DEF SubscriberInv, Types, SubscriberTypeOK
  <1> QED
    BY <1>1, Invariance, PTL

\* "All users logged in": the balance that the main thread draws is final and counts
\* every agent, as failed or as logged in, whatever the order in which they end.
THEOREM BalanceIsRight == Spec => []VerdictIsRight
  <1>1. SubscriberInv => VerdictIsRight
    <2> SUFFICES ASSUME SubscriberInv, verdict # "none" PROVE VerdictIsRight
      BY DEF VerdictIsRight
    <2> DEFINE silent   == {a \in Agents : status[a] = "none"}
               reported == {a \in Agents : status[a] # "none"}
    <2>1. Out = {}
      BY DEF SubscriberInv, VerdictInv
    <2>2. \A a \in Agents : agent[a] \in {"sleeping", "done"}
      BY <2>1 DEF Out
    <2>3. /\ Failures = silent /\ LoggedIn = reported
          /\ NotListening = {a \in Agents : status[a] = "false"}
      BY <2>2 DEF Failures, LoggedIn, NotListening, Counted
    <2>4. /\ failCount = Cardinality(silent) /\ totalLoggedInUsers = Cardinality(reported)
          /\ failedSubscriptions = Cardinality({a \in Agents : status[a] = "false"})
      BY <2>3 DEF SubscriberInv, CountInv
    <2>5. silent \in SUBSET Agents /\ reported \in SUBSET Agents
          /\ silent \cap reported = {} /\ silent \cup reported = Agents
      OBVIOUS
    <2>6. failCount + totalLoggedInUsers = Cardinality(Agents)
      BY <2>4, <2>5, Division
    <2>7. failCount = 0 <=> \A a \in Agents : status[a] # "none"
      BY <2>4, <2>5, CountFacts
    <2>8. verdict = "all logged in" <=> failCount = 0
      BY DEF SubscriberInv, VerdictInv
    <2> QED
      BY <2>4, <2>6, <2>7, <2>8 DEF VerdictIsRight
  <1> QED
    BY <1>1, Invariance, PTL

\* The latch opens when everybody has counted down, not before and not later.
LatchFits == latch = 0 <=> \A a \in Agents : agent[a] \in {"sleeping", "done"}

\* Nobody leaves run() without countDown() and nobody counts down twice, so the main
\* thread is not held up once all agents are through, nor let go while one is not.
THEOREM LatchIsRight == Spec => []LatchFits
  <1>1. SubscriberInv => LatchFits
    <2> SUFFICES ASSUME SubscriberInv PROVE LatchFits
      OBVIOUS
    <2>1. Out \in SUBSET Agents
      BY DEF Out
    <2>2. latch = 0 <=> Out = {}
      BY <2>1, CountFacts DEF SubscriberInv, CountInv
    <2> QED
      BY <2>2 DEF Out, LatchFits
  <1> QED
    BY <1>1, Invariance, PTL
=============================================================================
