------------------------------ MODULE Recorder ------------------------------
(***************************************************************************)
(* StatisticsRecorder of controller/api/Statistics.java, with the two      *)
(* branches of executeAction that start and stop it: once a second a       *)
(* scheduled task appends a line about all users to a file.                *)
(*                                                                         *)
(* Handler threads start and stop the recorder through fields that nothing *)
(* protects and that every statement reads anew; the task reads the field  *)
(* fos when it writes.  Only the order of the steps counts: the second     *)
(* that stop() sleeps is a step between two others.                        *)
(***************************************************************************)
EXTENDS Naturals, Sequences, FiniteSets

CONSTANTS Handlers,       \* the threads of the HTTP server's pool
          MaxRequests     \* bound on the requests

VARIABLES
    isCollectingStats,     \* what the button of the page is labelled after
    singleThreadExecutor,  \* the field: an executor, 0 for null
    fos,                   \* the field: a file, 0 for null
    shut,                  \* for each executor created, whether it is shut down
    tasks,                 \* the tasks scheduled, their executor and state
    files,                 \* the files opened, and whose lines they have
    at,                    \* where each handler thread is
    requests,              \* requests so far
    unanswered,            \* requests that died of an exception
    openFailed             \* history: some file could not be opened

HandlerState == {"idle", "starting", "creating", "scheduling", "opening",
                 "stopping", "checking", "shutting", "slept", "interrupting", "clearing",
                 "closing"}

Init ==
    /\ isCollectingStats = FALSE
    /\ singleThreadExecutor = 0
    /\ fos = 0
    /\ shut = <<>>
    /\ tasks = <<>>
    /\ files = <<>>
    /\ at = [h \in Handlers |-> "idle"]
    /\ requests = 0
    /\ unanswered = 0
    /\ openFailed = FALSE

isNull == singleThreadExecutor = 0
Running(x) == \E t \in DOMAIN tasks : tasks[t].on = x /\ tasks[t].state = "running"
isTerminated(x) == shut[x] /\ ~Running(x)

Goto(h, place) == at' = [at EXCEPT ![h] = place]

\* A NullPointerException or RejectedExecutionException ends the request in
\* handle()'s catch, which answers nothing.
Throws(h) ==
    /\ Goto(h, "idle")
    /\ unanswered' = unanswered + 1

-----------------------------------------------------------------------------
(* executeAction and start(). *)

RecordStats(h) ==
    /\ at[h] = "idle" /\ requests < MaxRequests
    /\ requests' = requests + 1
    /\ isCollectingStats' = TRUE
    /\ Goto(h, "starting")
    /\ UNCHANGED <<singleThreadExecutor, fos, shut, tasks, files, unanswered, openFailed>>

\* "Wont start since it is already running!"
CheckNotRunning(h) ==
    /\ at[h] = "starting"
    /\ Goto(h, IF isNull THEN "creating" ELSE "idle")
    /\ UNCHANGED <<isCollectingStats, singleThreadExecutor, fos, shut, tasks, files,
                   requests, unanswered, openFailed>>

CreateExecutor(h) ==
    /\ at[h] = "creating"
    /\ shut' = Append(shut, FALSE)
    /\ singleThreadExecutor' = Len(shut) + 1
    /\ Goto(h, "scheduling")
    /\ UNCHANGED <<isCollectingStats, fos, tasks, files, requests, unanswered, openFailed>>

\* The field may have become null or another executor, even one that is shut down.
Schedule(h) ==
    /\ at[h] = "scheduling"
    /\ IF isNull \/ (~isNull /\ shut[singleThreadExecutor])
       THEN Throws(h) /\ UNCHANGED tasks
       ELSE /\ tasks' = Append(tasks, [on |-> singleThreadExecutor, state |-> "waiting"])
            /\ Goto(h, "opening")
            /\ UNCHANGED unanswered
    /\ UNCHANGED <<isCollectingStats, singleThreadExecutor, fos, shut, files, requests, openFailed>>

\* Faulty variant: fos is set although the file could not be opened.
OpenDangling(h) ==
    /\ at[h] = "opening"
    /\ \/ files' = Append(files, [open |-> TRUE, lines |-> {}]) /\ UNCHANGED openFailed
       \/ openFailed' = TRUE /\ UNCHANGED files
    /\ fos' = Len(files) + 1
    /\ Goto(h, "idle")
    /\ UNCHANGED <<isCollectingStats, singleThreadExecutor, shut, tasks, requests,
                   unanswered>>

\* An exception here is printed, and the request is answered all the same.
OpenFile(h) ==
    /\ at[h] = "opening"
    /\ \/ /\ files' = Append(files, [open |-> TRUE, lines |-> {}])
          /\ fos' = Len(files) + 1
          /\ UNCHANGED openFailed
       \/ /\ openFailed' = TRUE
          /\ UNCHANGED <<files, fos>>
    /\ Goto(h, "idle")
    /\ UNCHANGED <<isCollectingStats, singleThreadExecutor, shut, tasks, requests,
                   unanswered>>

-----------------------------------------------------------------------------
(* executeAction and stop(). *)

StopStatsRecording(h) ==
    /\ at[h] = "idle" /\ requests < MaxRequests
    /\ requests' = requests + 1
    /\ isCollectingStats' = FALSE
    /\ Goto(h, "stopping")
    /\ UNCHANGED <<singleThreadExecutor, fos, shut, tasks, files, unanswered, openFailed>>

\* "Already Stopped".  The field is read again for every call on the executor.
CheckRunning(h) ==
    /\ at[h] = "stopping"
    /\ Goto(h, IF isNull THEN "idle" ELSE "checking")
    /\ UNCHANGED <<isCollectingStats, singleThreadExecutor, fos, shut, tasks, files,
                   requests, unanswered, openFailed>>

\* "Already Stopped"
CheckTerminated(h) ==
    /\ at[h] = "checking"
    /\ IF isNull THEN Throws(h)
                 ELSE /\ Goto(h, IF isTerminated(singleThreadExecutor) THEN "idle" ELSE "shutting")
                      /\ UNCHANGED unanswered
    /\ UNCHANGED <<isCollectingStats, singleThreadExecutor, fos, shut, tasks, files,
                   requests, openFailed>>

\* The task is cancelled; a tick that is running goes on.
Shutdown(h) ==
    /\ at[h] = "shutting"
    /\ IF isNull THEN Throws(h) /\ UNCHANGED shut
                 ELSE /\ shut' = [shut EXCEPT ![singleThreadExecutor] = TRUE]
                      /\ Goto(h, "slept")
                      /\ UNCHANGED unanswered
    /\ UNCHANGED <<isCollectingStats, singleThreadExecutor, fos, tasks, files, requests,
                   openFailed>>

CheckEnded(h) ==
    /\ at[h] = "slept"
    /\ IF isNull THEN Throws(h)
                 ELSE /\ Goto(h, IF isTerminated(singleThreadExecutor) THEN "clearing"
                                                                      ELSE "interrupting")
                      /\ UNCHANGED unanswered
    /\ UNCHANGED <<isCollectingStats, singleThreadExecutor, fos, shut, tasks, files,
                   requests, openFailed>>

\* The tick is interrupted, which does not listen; but the executor may be another by
\* now, which is shut down in place of it.
ShutdownNow(h) ==
    /\ at[h] = "interrupting"
    /\ IF isNull THEN Throws(h) /\ UNCHANGED shut
                 ELSE /\ shut' = [shut EXCEPT ![singleThreadExecutor] = TRUE]
                      /\ Goto(h, "clearing")
                      /\ UNCHANGED unanswered
    /\ UNCHANGED <<isCollectingStats, singleThreadExecutor, fos, tasks, files, requests,
                   openFailed>>

ForgetExecutor(h) ==
    /\ at[h] = "clearing"
    /\ singleThreadExecutor' = 0
    /\ Goto(h, "closing")
    /\ UNCHANGED <<isCollectingStats, fos, shut, tasks, files, requests, unanswered, openFailed>>

CloseFile(h) ==
    /\ at[h] = "closing"
    /\ IF fos = 0 THEN Throws(h) /\ UNCHANGED files
                  ELSE /\ files' = [files EXCEPT ![fos].open = FALSE]
                       /\ Goto(h, "idle")
                       /\ UNCHANGED unanswered
    /\ UNCHANGED <<isCollectingStats, singleThreadExecutor, fos, shut, tasks, requests, openFailed>>

-----------------------------------------------------------------------------
(* The scheduled task. *)

BeginTick(t) ==
    /\ tasks[t].state = "waiting"
    /\ ~shut[tasks[t].on] /\ ~Running(tasks[t].on)
    /\ tasks' = [tasks EXCEPT ![t].state = "running"]
    /\ UNCHANGED <<isCollectingStats, singleThreadExecutor, fos, shut, files, at,
                   requests, unanswered, openFailed>>

\* Faulty variant: the write to a closed file is not caught either.
EndTickUncaught(t) ==
    /\ tasks[t].state = "running"
    /\ LET writes == fos # 0 /\ files[fos].open
       IN  /\ tasks' = [tasks EXCEPT ![t].state = IF writes THEN "waiting" ELSE "dead"]
           /\ files' = IF writes THEN [files EXCEPT ![fos].lines = @ \cup {t}] ELSE files
    /\ UNCHANGED <<isCollectingStats, singleThreadExecutor, fos, shut, at, requests,
                   unanswered, openFailed>>

\* fos.write: an IOException of a closed file is caught, but the
\* NullPointerException of a null fos is not, and a scheduled task that throws
\* is never run again.
EndTick(t) ==
    /\ tasks[t].state = "running"
    /\ tasks' = [tasks EXCEPT ![t].state = IF fos = 0 THEN "dead" ELSE "waiting"]
    /\ files' = IF fos # 0 /\ files[fos].open
                THEN [files EXCEPT ![fos].lines = @ \cup {t}] ELSE files
    /\ UNCHANGED <<isCollectingStats, singleThreadExecutor, fos, shut, at, requests,
                   unanswered, openFailed>>

-----------------------------------------------------------------------------
HandlerStep(h) ==
    \/ CheckNotRunning(h) \/ CreateExecutor(h) \/ Schedule(h) \/ OpenFile(h)
    \/ CheckRunning(h) \/ CheckTerminated(h) \/ Shutdown(h) \/ CheckEnded(h)
    \/ ShutdownNow(h) \/ ForgetExecutor(h) \/ CloseFile(h)

Tick(t) == t \in DOMAIN tasks /\ (BeginTick(t) \/ EndTick(t))

-----------------------------------------------------------------------------
RecorderTypeOK ==
    /\ isCollectingStats \in BOOLEAN
    /\ shut \in Seq(BOOLEAN)
    /\ singleThreadExecutor \in 0 .. Len(shut)
    /\ files \in Seq([open : BOOLEAN, lines : SUBSET DOMAIN tasks])
    /\ fos \in 0 .. Len(files)
    /\ tasks \in Seq([on : DOMAIN shut, state : {"waiting", "running", "dead"}])
    /\ at \in [Handlers -> HandlerState]
    /\ requests \in 0 .. MaxRequests
    /\ unanswered \in 0 .. requests
    /\ openFailed \in BOOLEAN

AtRest == \A h \in Handlers : at[h] = "idle"

Live(t) == tasks[t].state # "dead" /\ ~shut[tasks[t].on]

\* "Wont start since it is already running!": there is one recording at a time, so
\* no file is written to by the tasks of two.
OneRecording == \A s, t \in DOMAIN tasks : Live(s) /\ Live(t) => s = t

\* Between requests the label of the button, the executor and the open files tell
\* the same story: what the page offers to stop can be stopped, nothing else runs
\* on unseen, and no file stays open.
StoryFits ==
    AtRest => /\ isCollectingStats <=> ~isNull
              /\ \A x \in DOMAIN shut : ~shut[x] => x = singleThreadExecutor
              /\ \A f \in DOMAIN files : files[f].open => f = fos /\ ~isNull

\* No request dies of an exception, which the page would wait for for ever, unless
\* a file could not be opened.
AllAnswered == unanswered = 0 \/ openFailed

Recording(f) == f \in DOMAIN files /\ files[f].open
Written(f)   == f \in DOMAIN files /\ files[f].lines # {}
=============================================================================
