------------------------------ MODULE Console -------------------------------
(***************************************************************************)
(* controller/resources/app.js and index.html, the page of Mission         *)
(* Control, with executeAction of Statistics.java and the recorder: the    *)
(* two buttons whose labels say what a click will ask for.                 *)
(*                                                                         *)
(* A page sends its requests without waiting for each other; they are      *)
(* handled in any order, each by a thread of the server's pool, and their  *)
(* answers arrive in any order.                                            *)
(***************************************************************************)
EXTENDS Naturals, Sequences, FiniteSets

CONSTANTS Pages,          \* the browser tabs that show the page
          Requests,       \* the requests that can be under way at a time
          MaxClicks       \* bound on the clicks

ASSUME ConsoleAssumption == MaxClicks \in Nat

VARIABLES isCollectingStats, singleThreadExecutor, fos, shut, tasks, files, at,
          requests, unanswered, openFailed      \* the recorder's, see Recorder
VARIABLES
    isPaused,        \* Statistics.isPaused
    pauseResume,     \* for each page the label of pauseResumeButton
    stats,           \* for each page the label of statsButton
    page,            \* for each page "closed", "loading" or "loaded"
    request,         \* what is known of each request
    clicks,          \* clicks so far
    hasty,           \* history: statsButton was clicked while another tab had a
                     \* request for it under way or the page was still loading
    restless,        \* history: the last click on pauseResumeButton came while its page
                     \* was loading or a click before it had no answer, in any tab
    lastShown        \* history: the tab that was last shown an answer to it

Recorder == INSTANCE Recorder WITH Handlers <- Requests, MaxRequests <- MaxClicks

recorderVars == <<isCollectingStats, singleThreadExecutor, fos, shut, tasks, files, at,
                  requests, unanswered, openFailed>>
pageVars == <<pauseResume, stats, page>>
historyVars == <<hasty, restless, lastShown>>
vars == <<recorderVars, isPaused, pageVars, request, clicks, historyVars>>

PauseLabel == {"Pause", "Resume"}
StatsLabel == {"Record Stats", "Stop Stats Recording", "Wait.."}
Action == {"actions"} \cup PauseLabel \cup (StatsLabel \ {"Wait.."})
Stage == {"none", "sent", "handling", "answered", "dropped"}

NoRequest == [stage |-> "none"]
UnderWay(r) == request[r].stage # "none"
UnderWayFor(p) == {r \in Requests : UnderWay(r) /\ request[r].page = p}

Init ==
    /\ Recorder!Init
    /\ isPaused = FALSE
    /\ pauseResume = [p \in Pages |-> "Pause"]
    /\ stats = [p \in Pages |-> "Record Stats"]
    /\ page = [p \in Pages |-> "closed"]
    /\ request = [r \in Requests |-> NoRequest]
    /\ clicks = 0
    /\ hasty = FALSE
    /\ restless = FALSE
    /\ lastShown = {}

-----------------------------------------------------------------------------
(* The page sends requests. *)

\* It does not matter which request is taken of those that are free.
Send(p, action) ==
    /\ \E r \in Requests : ~UnderWay(r)
    /\ LET free == CHOOSE r \in Requests : ~UnderWay(r)
       IN  request' = [request EXCEPT ![free] =
                          [stage |-> "sent", page |-> p, action |-> action]]

\* $(document).ready asks for the labels.
OpenPage(p) ==
    /\ page[p] = "closed"
    /\ page' = [page EXCEPT ![p] = "loading"]
    /\ Send(p, "actions")
    /\ UNCHANGED <<recorderVars, isPaused, pauseResume, stats, clicks, historyVars>>

Pausing == {r \in Requests : UnderWay(r) /\ request[r].action \in PauseLabel}

ClickPauseResume(p) ==
    /\ page[p] # "closed" /\ clicks < MaxClicks
    /\ clicks' = clicks + 1
    /\ Send(p, pauseResume[p])
    /\ restless' = (page[p] = "loading" \/ Pausing # {})
    /\ UNCHANGED <<recorderVars, isPaused, pageVars, hasty, lastShown>>

Hurries(p) ==
    hasty' = (hasty \/ page[p] = "loading"
                    \/ \E r \in Requests : /\ UnderWay(r) /\ request[r].page # p
                                            /\ request[r].action \in StatsLabel)

\* Faulty variant: the button stays as it is until the answer comes.
ClickStatsTwice(p) ==
    /\ page[p] # "closed" /\ clicks < MaxClicks
    /\ clicks' = clicks + 1
    /\ Send(p, stats[p])
    /\ Hurries(p)
    /\ UNCHANGED <<recorderVars, isPaused, pageVars, restless, lastShown>>

\* The button waits for the answer and ignores clicks until then.
ClickStats(p) ==
    /\ page[p] # "closed" /\ clicks < MaxClicks
    /\ stats[p] # "Wait.."
    /\ clicks' = clicks + 1
    /\ Send(p, stats[p])
    /\ stats' = [stats EXCEPT ![p] = "Wait.."]
    /\ Hurries(p)
    /\ UNCHANGED <<recorderVars, isPaused, pauseResume, page, restless, lastShown>>

-----------------------------------------------------------------------------
(* Mission Control handles them. *)

Arrived(r, action) == request[r].stage = "sent" /\ request[r].action = action

\* The labels for a page that is loaded.
HandleActions(r) ==
    /\ Arrived(r, "actions")
    /\ request' = [request EXCEPT ![r] =
          [stage |-> "answered", page |-> request[r].page, action |-> "actions",
           pauseResumeButtonText |-> IF isPaused THEN "Pause" ELSE "Resume",
           statsButtonText |-> IF isCollectingStats THEN "Stop Stats Recording"
                                                    ELSE "Record Stats"]]
    /\ UNCHANGED <<recorderVars, isPaused, pageVars, clicks, historyVars>>

HandlePauseResume(r) ==
    /\ \E action \in PauseLabel : Arrived(r, action)
    /\ isPaused' = (request[r].action = "Pause")
    /\ request' = [request EXCEPT ![r].stage = "answered"]
    /\ UNCHANGED <<recorderVars, pageVars, clicks, historyVars>>

HandleStats(r) ==
    /\ \/ Arrived(r, "Record Stats") /\ Recorder!RecordStats(r)
       \/ Arrived(r, "Stop Stats Recording") /\ Recorder!StopStatsRecording(r)
    /\ request' = [request EXCEPT ![r].stage = "handling"]
    /\ UNCHANGED <<isPaused, pageVars, clicks, historyVars>>

\* The recorder works on the request; if it throws, nobody ever answers.
HandleStatsStep(r) ==
    /\ request[r].stage = "handling"
    /\ Recorder!HandlerStep(r)
    /\ request' = [request EXCEPT ![r].stage =
          IF unanswered' # unanswered THEN "dropped"
          ELSE IF at'[r] = "idle" THEN "answered" ELSE @]
    /\ UNCHANGED <<isPaused, pageVars, clicks, historyVars>>

Tick(t) ==
    /\ Recorder!Tick(t)
    /\ UNCHANGED <<isPaused, pageVars, request, clicks, historyVars>>

-----------------------------------------------------------------------------
(* The page gets the answers. *)

Answered(r) == request[r].stage = "answered"

ShowActions(r) ==
    /\ Answered(r) /\ request[r].action = "actions"
    /\ LET p == request[r].page
       IN  /\ pauseResume' = [pauseResume EXCEPT ![p] = request[r].pauseResumeButtonText]
           /\ stats' = [stats EXCEPT ![p] = request[r].statsButtonText]
           /\ page' = [page EXCEPT ![p] = "loaded"]
    /\ request' = [request EXCEPT ![r] = NoRequest]
    /\ UNCHANGED <<recorderVars, isPaused, clicks, historyVars>>

\* Faulty variant: the label is the action that was asked for.
ShowPauseResumeSame(r) ==
    /\ Answered(r) /\ request[r].action \in PauseLabel
    /\ pauseResume' = [pauseResume EXCEPT ![request[r].page] = request[r].action]
    /\ request' = [request EXCEPT ![r] = NoRequest]
    /\ lastShown' = {request[r].page}
    /\ UNCHANGED <<recorderVars, isPaused, stats, page, clicks, hasty, restless>>

ShowPauseResume(r) ==
    /\ Answered(r) /\ request[r].action \in PauseLabel
    /\ pauseResume' = [pauseResume EXCEPT ![request[r].page] =
          IF request[r].action = "Pause" THEN "Resume" ELSE "Pause"]
    /\ request' = [request EXCEPT ![r] = NoRequest]
    /\ lastShown' = {request[r].page}
    /\ UNCHANGED <<recorderVars, isPaused, stats, page, clicks, hasty, restless>>

\* Faulty variant: the label is the action that was asked for.
ShowStatsSame(r) ==
    /\ Answered(r) /\ request[r].action \in StatsLabel
    /\ stats' = [stats EXCEPT ![request[r].page] = request[r].action]
    /\ request' = [request EXCEPT ![r] = NoRequest]
    /\ UNCHANGED <<recorderVars, isPaused, pauseResume, page, clicks, historyVars>>

\* Faulty variant: only the answer to a start brings the button back.
ShowStatsOnce(r) ==
    /\ Answered(r) /\ request[r].action \in StatsLabel
    /\ stats' = [stats EXCEPT ![request[r].page] =
          IF request[r].action = "Record Stats" THEN "Stop Stats Recording" ELSE @]
    /\ request' = [request EXCEPT ![r] = NoRequest]
    /\ UNCHANGED <<recorderVars, isPaused, pauseResume, page, clicks, historyVars>>

ShowStats(r) ==
    /\ Answered(r) /\ request[r].action \in StatsLabel
    /\ stats' = [stats EXCEPT ![request[r].page] =
          IF request[r].action = "Record Stats" THEN "Stop Stats Recording" ELSE "Record Stats"]
    /\ request' = [request EXCEPT ![r] = NoRequest]
    /\ UNCHANGED <<recorderVars, isPaused, pauseResume, page, clicks, historyVars>>

-----------------------------------------------------------------------------
HandleStep(r) == HandleActions(r) \/ HandlePauseResume(r) \/ HandleStats(r)
                 \/ HandleStatsStep(r)
ShowStep(r) == ShowActions(r) \/ ShowPauseResume(r) \/ ShowStats(r)

Next ==
    \/ \E r \in Requests : HandleStep(r) \/ ShowStep(r)
    \/ \E p \in Pages : OpenPage(p) \/ ClickPauseResume(p) \/ ClickStats(p)
    \/ \E t \in DOMAIN tasks : Tick(t)

Spec == Init /\ [][Next]_vars

\* Requests arrive and are handled, answers arrive, the recorder's task runs when
\* it is due.  Nobody need open a page or click.
FairSpec ==
    /\ Spec
    /\ \A r \in Requests : WF_vars(HandleStep(r)) /\ WF_vars(ShowStep(r))
    /\ \A t \in 1 .. MaxClicks : WF_vars(Tick(t))

-----------------------------------------------------------------------------
ConsoleTypeOK ==
    /\ Recorder!RecorderTypeOK
    /\ isPaused \in BOOLEAN
    /\ pauseResume \in [Pages -> PauseLabel]
    /\ stats \in [Pages -> StatsLabel]
    /\ page \in [Pages -> {"closed", "loading", "loaded"}]
    /\ \A r \in Requests : /\ request[r].stage \in Stage
                           /\ UnderWay(r) => /\ request[r].page \in Pages
                                             /\ request[r].action \in Action
    /\ clicks \in 0 .. MaxClicks
    /\ hasty \in BOOLEAN
    /\ restless \in BOOLEAN
    /\ lastShown \subseteq Pages

\* "Wont start since it is already running!": there is one recording at a time.
OneRecording == Recorder!OneRecording

\* The label Wait.. makes up for the missing lock of the recorder: as long as nobody
\* clicks statsButton while the page loads or another tab has a request under way,
\* there is one recording at a time, every request is answered (unless a file could
\* not be opened), and between requests executor and files agree.
WaitSerializes ==
    hasty \/ (OneRecording /\ Recorder!AllAnswered /\ Recorder!StoryFits)

\* Under the same condition the only page that is open offers to stop a recording
\* exactly when one is running, when it offers anything and is loaded.
StatsButtonFits ==
    \A p \in Pages :
        hasty \/ page[p] # "loaded" \/ stats[p] = "Wait.."
              \/ (\E q \in Pages \ {p} : page[q] # "closed")
              \/ (stats[p] = "Stop Stats Recording" <=> singleThreadExecutor # 0)

\* Wait.. ends, and the button can be used again.
WaitEnds ==
    \A p \in Pages : stats[p] = "Wait.." ~> (stats[p] # "Wait.." \/ hasty \/ openFailed)

\* Under the same condition a recording that started and is not stopped gets a line,
\* from the second recording on.
LaterRecordingsWrite ==
    \A f \in 2 .. MaxClicks :
        Recorder!Recording(f) ~> (Recorder!Written(f) \/ ~Recorder!Recording(f) \/ hasty)

\* A page that loads offers to pause what is paused, and answers that pass each other
\* leave labels that are wrong; but one click puts it right.  Whatever was clicked in a
\* hurry before and in however many tabs: once pauseResumeButton is clicked in a page
\* that is loaded while no other click has to be answered, and this one is answered
\* before the next, the page offers to resume exactly when events are paused.
PauseButtonRecovers ==
    \A p \in lastShown :
        restless \/ Pausing # {} \/ pauseResume[p] = (IF isPaused THEN "Resume" ELSE "Pause")
=============================================================================
