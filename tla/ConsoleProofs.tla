---------------------------- MODULE ConsoleProofs ----------------------------
(***************************************************************************)
(* Proofs about Console, the recorder included, for every number of tabs,  *)
(* of requests under way and of clicks.                                    *)
(***************************************************************************)
EXTENDS Console, SequenceTheorems, FiniteSetTheorems, TLAPS

-----------------------------------------------------------------------------
(* What is known of a request. *)

Recordings == {"Record Stats", "Stop Stats Recording"}

Plain    == [stage : Stage \ {"none"}, page : Pages, action : Action]
Labelled == [stage : {"answered"}, page : Pages, action : {"actions"},
             pauseResumeButtonText : PauseLabel, statsButtonText : Recordings]

RequestOK(r) ==
    /\ \/ request[r] = NoRequest
       \/ request[r] \in Plain /\ (request[r].stage = "answered" => request[r].action # "actions")
       \/ request[r] \in Labelled
    /\ request[r].stage = "handling" => request[r].action \in Recordings

PageTypes ==
    /\ isPaused \in BOOLEAN
    /\ pauseResume \in [Pages -> PauseLabel]
    /\ stats \in [Pages -> StatsLabel]
    /\ page \in [Pages -> {"closed", "loading", "loaded"}]
    /\ DOMAIN request = Requests
    /\ \A r \in Requests : RequestOK(r)
    /\ clicks \in 0 .. MaxClicks
    /\ hasty \in BOOLEAN
    /\ restless \in BOOLEAN
    /\ lastShown \subseteq Pages

-----------------------------------------------------------------------------
(* The recorder. *)

Starting == {"starting", "creating", "scheduling", "opening"}
Stopping == {"stopping", "checking", "shutting", "slept", "interrupting", "clearing", "closing"}

\* stop() has shut the executor down and not forgotten it yet.
ShuttingDown == {"slept", "interrupting", "clearing"}

\* A request that threw was one of those that came, and is not under way any more.
Active == {r \in Requests : at[r] # "idle"}

FileType == [open : BOOLEAN, lines : SUBSET DOMAIN tasks]
TaskType == [on : DOMAIN shut, state : {"waiting", "running", "dead"}]

RecorderTypes ==
    /\ isCollectingStats \in BOOLEAN
    /\ shut \in Seq(BOOLEAN)
    /\ singleThreadExecutor \in 0 .. Len(shut)
    /\ files \in Seq(FileType)
    /\ fos \in 0 .. Len(files)
    /\ tasks \in Seq(TaskType)
    /\ at \in [Requests -> Recorder!HandlerState]
    /\ openFailed \in BOOLEAN

CountInv ==
    /\ requests \in 0 .. MaxClicks
    /\ unanswered \in Nat
    /\ IsFiniteSet(Active)
    /\ unanswered + Cardinality(Active) <= requests

\* The thread of the pool that works for the recorder is that of a request for it.
PlaceInv ==
    \A r \in Requests :
        /\ at[r] # "idle" <=> request[r].stage = "handling"
        /\ at[r] \in Starting => request[r].action = "Record Stats"
        /\ at[r] \in Stopping => request[r].action = "Stop Stats Recording"

\* Where the recorder is, if one request at a time works on it.
Place == IF \A r \in Requests : at[r] = "idle" THEN "idle"
         ELSE at[CHOOSE r \in Requests : at[r] # "idle"]

NoFileOpen == \A f \in DOMAIN files : ~files[f].open
HasFile    == fos # 0 \/ openFailed

\* Executor and files at each place of the start and the stop of a recording.
RecorderAt(place) ==
    /\ \A x \in DOMAIN shut : ~shut[x] => x = singleThreadExecutor
    /\ \A f \in DOMAIN files : files[f].open => f = fos
    /\ \A s, t \in DOMAIN tasks : tasks[s].on = tasks[t].on => s = t
    /\ unanswered = 0 \/ openFailed
    /\ singleThreadExecutor # 0 /\ place \notin ShuttingDown => ~shut[singleThreadExecutor]
    /\ place \in ShuttingDown => shut[singleThreadExecutor]
    /\ singleThreadExecutor = 0 /\ place # "closing" => NoFileOpen
    /\ singleThreadExecutor # 0 /\ place \notin {"scheduling", "opening"} => HasFile
    /\ place \in {"creating", "closing"} => singleThreadExecutor = 0
    /\ place \in {"scheduling", "opening", "checking", "shutting"} \cup ShuttingDown =>
          singleThreadExecutor # 0
    /\ place \in {"creating", "scheduling", "opening"} => NoFileOpen
    /\ place = "scheduling" => \A t \in DOMAIN tasks : tasks[t].on # singleThreadExecutor
    /\ place = "closing" => HasFile
    /\ place \in Starting => isCollectingStats
    /\ place \in Stopping => ~isCollectingStats
    /\ place = "idle" => (isCollectingStats <=> singleThreadExecutor # 0)

RecorderInv == ~hasty => RecorderAt(Place)

-----------------------------------------------------------------------------
(* The buttons. *)

StatsRequests == {r \in Requests : UnderWay(r) /\ request[r].action \in Recordings}

\* A page loads once: the answer that replaces its labels comes while it is loading.
Loads(r) == UnderWay(r) /\ request[r].action = "actions"

LoadInv ==
    /\ \A r \in Requests : UnderWay(r) => page[request[r].page] # "closed"
    /\ \A r \in Requests : Loads(r) => page[request[r].page] = "loading"
    /\ \A r, s \in Requests : Loads(r) /\ Loads(s) /\ request[r].page = request[s].page => r = s

\* Wait.. lets one request for the recorder through at a time.
WaitInv ==
    ~hasty =>
        /\ \A r \in StatsRequests : page[request[r].page] = "loaded" /\ stats[request[r].page] = "Wait.."
        /\ \A r, s \in StatsRequests : r = s

OnlyOpen(p) == \A q \in Pages \ {p} : page[q] = "closed"

\* What statsButton offers, or will offer, is what can be done.
LabelInv ==
    ~hasty =>
        /\ \A r \in StatsRequests : request[r].stage \in {"handling", "answered"} =>
              (request[r].action = "Record Stats" <=> isCollectingStats)
        /\ \A p \in Pages : OnlyOpen(p) /\ page[p] = "loaded" /\ stats[p] # "Wait.." =>
              (stats[p] = "Stop Stats Recording" <=> isCollectingStats)
        /\ \A r \in Requests : Loads(r) /\ Answered(r) /\ OnlyOpen(request[r].page) =>
              (request[r].statsButtonText = "Stop Stats Recording" <=> isCollectingStats)

\* The same of pauseResumeButton, from the answer to a patient click on: nothing is said of
\* the labels while a click is under way.
PauseInv ==
    ~restless =>
        /\ \A r \in Pausing : page[request[r].page] = "loaded"
        /\ \A r, s \in Pausing : r = s
        /\ \A r \in Pausing : Answered(r) => (isPaused <=> request[r].action = "Pause")
        /\ Pausing = {} => \A p \in lastShown :
              /\ page[p] = "loaded"
              /\ pauseResume[p] = IF isPaused THEN "Resume" ELSE "Pause"

-----------------------------------------------------------------------------
(* Sequences that grow and change. *)

LEMMA Appended ==
    ASSUME NEW S, NEW s \in Seq(S), NEW v \in S, NEW t, t = Append(s, v)
    PROVE  /\ t \in Seq(S) /\ Len(s) \in Nat /\ Len(t) = Len(s) + 1
           /\ DOMAIN s = 1 .. Len(s) /\ DOMAIN t = DOMAIN s \cup {Len(s) + 1}
           /\ Len(s) + 1 \notin DOMAIN s /\ t[Len(s) + 1] = v
           /\ \A k \in DOMAIN s : t[k] = s[k]
  <1>1. /\ t \in Seq(S) /\ Len(t) = Len(s) + 1 /\ t[Len(s) + 1] = v
        /\ \A k \in 1 .. Len(s) : t[k] = s[k]
    BY AppendProperties
  <1>2. Len(s) \in Nat /\ DOMAIN s = 1 .. Len(s) /\ DOMAIN t = 1 .. Len(t)
    BY <1>1, LenProperties
  <1> QED
    BY <1>1, <1>2

LEMMA Changed ==
    ASSUME NEW S, NEW s \in Seq(S), NEW i \in DOMAIN s, NEW v \in S,
           NEW t, t = [s EXCEPT ![i] = v]
    PROVE  /\ t \in Seq(S) /\ Len(t) = Len(s) /\ DOMAIN t = DOMAIN s
           /\ t[i] = v /\ \A k \in DOMAIN s : k # i => t[k] = s[k]
  <1>1. DOMAIN s = 1 .. Len(s) /\ s \in [1 .. Len(s) -> S]
    BY LenProperties
  <1>2. t \in Seq(S) /\ Len(t) = Len(s)
    BY <1>1, ExceptSeq
  <1> QED
    BY <1>1, <1>2

LEMMA ElementFacts ==
    ASSUME NEW S, NEW s \in Seq(S)
    PROVE  /\ Len(s) \in Nat /\ DOMAIN s = 1 .. Len(s) /\ \A k \in DOMAIN s : s[k] \in S
           /\ \A n \in 0 .. Len(s) : n # 0 => n \in DOMAIN s
  BY LenProperties, ElementOfSeq

-----------------------------------------------------------------------------
(* The recorder's variables. *)

RecorderStep(r) == Recorder!RecordStats(r) \/ Recorder!StopStatsRecording(r) \/ Recorder!HandlerStep(r)

LEMMA RecorderElements ==
    ASSUME RecorderTypes
    PROVE  /\ Len(shut) \in Nat /\ DOMAIN shut = 1 .. Len(shut)
           /\ \A x \in DOMAIN shut : shut[x] \in BOOLEAN
           /\ Len(files) \in Nat /\ DOMAIN files = 1 .. Len(files)
           /\ \A f \in DOMAIN files : files[f] \in FileType
           /\ \A t \in DOMAIN tasks : tasks[t] \in TaskType
           /\ singleThreadExecutor # 0 => singleThreadExecutor \in DOMAIN shut
           /\ fos # 0 => fos \in DOMAIN files
  BY ElementFacts DEF RecorderTypes

\* A step of a handler moves the handler only.
LEMMA RecorderMoves ==
    ASSUME RecorderTypes, NEW r \in Requests, RecorderStep(r)
    PROVE  /\ \E place \in Recorder!HandlerState : at' = [at EXCEPT ![r] = place]
           /\ at' \in [Requests -> Recorder!HandlerState]
           /\ \A s \in Requests \ {r} : at'[s] = at[s]
  <1>1. \E place \in Recorder!HandlerState : at' = [at EXCEPT ![r] = place]
    BY DEF RecorderStep, Recorder!RecordStats, Recorder!StopStatsRecording, Recorder!HandlerStep,
           Recorder!CheckNotRunning, Recorder!CreateExecutor, Recorder!Schedule, Recorder!OpenFile,
           Recorder!CheckRunning, Recorder!CheckTerminated, Recorder!Shutdown,
           Recorder!CheckEnded, Recorder!ShutdownNow, Recorder!ForgetExecutor, Recorder!CloseFile, Recorder!Goto, Recorder!Throws,
           Recorder!HandlerState
  <1> QED
    BY <1>1 DEF RecorderTypes

\* What stays typed when only executors, tasks or files change.
LEMMA CreateTypes ==
    ASSUME RecorderTypes, shut' = Append(shut, FALSE), UNCHANGED tasks
    PROVE  shut' \in Seq(BOOLEAN) /\ tasks' \in Seq(TaskType)' /\ Len(shut') = Len(shut) + 1
  <1>1. /\ shut' \in Seq(BOOLEAN) /\ Len(shut') = Len(shut) + 1
        /\ DOMAIN shut' = DOMAIN shut \cup {Len(shut) + 1}
    BY Appended DEF RecorderTypes
  <1>2. TaskType \subseteq TaskType'
    BY <1>1 DEF TaskType
  <1>3. tasks \in Seq(TaskType')
    BY <1>2, SeqMonotonic DEF RecorderTypes
  <1> QED
    BY <1>1, <1>3

LEMMA ScheduleTypes ==
    ASSUME RecorderTypes, NEW x \in DOMAIN shut, UNCHANGED <<shut, files>>,
           tasks' = Append(tasks, [on |-> x, state |-> "waiting"])
    PROVE  tasks' \in Seq(TaskType') /\ files' \in Seq(FileType')
  <1>1. [on |-> x, state |-> "waiting"] \in TaskType /\ TaskType' = TaskType
    BY DEF TaskType
  <1>2. tasks' \in Seq(TaskType) /\ DOMAIN tasks \subseteq DOMAIN tasks'
    BY <1>1, Appended DEF RecorderTypes
  <1>3. FileType \subseteq FileType'
    BY <1>2 DEF FileType
  <1>4. files \in Seq(FileType')
    BY <1>3, SeqMonotonic DEF RecorderTypes
  <1> QED
    BY <1>1, <1>2, <1>4

LEMMA RecorderStepTypes ==
    ASSUME RecorderTypes, NEW r \in Requests, RecorderStep(r)
    PROVE  RecorderTypes'
  <1>0. at' \in [Requests -> Recorder!HandlerState]
    BY RecorderMoves
  <1>1. CASE UNCHANGED <<shut, tasks, files, fos, singleThreadExecutor, openFailed>> /\ isCollectingStats' \in BOOLEAN
    BY <1>0, <1>1 DEF RecorderTypes, FileType, TaskType
  <1>2. CASE Recorder!RecordStats(r) \/ Recorder!StopStatsRecording(r)
    BY <1>1, <1>2 DEF Recorder!RecordStats, Recorder!StopStatsRecording
  <1>3. CASE \/ Recorder!CheckNotRunning(r) \/ Recorder!CheckRunning(r)
             \/ Recorder!CheckTerminated(r) \/ Recorder!CheckEnded(r)
    BY <1>1, <1>3 DEF Recorder!CheckNotRunning, Recorder!CheckRunning,
                      Recorder!CheckTerminated, Recorder!CheckEnded, RecorderTypes
  <1>4. CASE Recorder!CreateExecutor(r)
    <2>1. shut' = Append(shut, FALSE) /\ UNCHANGED <<tasks, files, fos, openFailed, isCollectingStats>>
          /\ singleThreadExecutor' = Len(shut) + 1
      BY <1>4 DEF Recorder!CreateExecutor
    <2>2. shut' \in Seq(BOOLEAN) /\ tasks' \in Seq(TaskType)' /\ Len(shut') = Len(shut) + 1
      BY <2>1, CreateTypes
    <2>3. Len(shut) \in Nat
      BY RecorderElements
    <2>4. singleThreadExecutor' \in 0 .. Len(shut')
      BY <2>1, <2>2, <2>3
    <2> QED
      BY <1>0, <2>1, <2>2, <2>4 DEF RecorderTypes, FileType
  <1>5. CASE Recorder!Schedule(r)
    <2>1. CASE UNCHANGED tasks
      BY <1>1, <1>5, <2>1 DEF Recorder!Schedule, RecorderTypes
    <2>2. CASE ~UNCHANGED tasks
      <3>1. /\ tasks' = Append(tasks, [on |-> singleThreadExecutor, state |-> "waiting"])
            /\ singleThreadExecutor # 0
            /\ UNCHANGED <<shut, files, fos, singleThreadExecutor, openFailed, isCollectingStats>>
        BY <1>5, <2>2 DEF Recorder!Schedule, Recorder!isNull
      <3>2. PICK x \in DOMAIN shut : x = singleThreadExecutor
        BY <3>1, RecorderElements
      <3>3. tasks' \in Seq(TaskType') /\ files' \in Seq(FileType')
        BY <3>1, <3>2, ScheduleTypes
      <3> QED
        BY <1>0, <3>1, <3>3 DEF RecorderTypes
    <2> QED
      BY <2>1, <2>2
  <1>6. CASE Recorder!OpenFile(r)
    <2>1. CASE UNCHANGED <<files, fos>>
      BY <1>0, <1>6, <2>1 DEF Recorder!OpenFile, RecorderTypes, FileType, TaskType
    <2>2. CASE ~UNCHANGED <<files, fos>>
      <3>1. /\ files' = Append(files, [open |-> TRUE, lines |-> {}]) /\ fos' = Len(files) + 1
            /\ UNCHANGED <<shut, tasks, singleThreadExecutor, openFailed, isCollectingStats>>
        BY <1>6, <2>2 DEF Recorder!OpenFile
      <3>2. [open |-> TRUE, lines |-> {}] \in FileType
        BY DEF FileType
      <3>3. files' \in Seq(FileType) /\ Len(files') = Len(files) + 1 /\ Len(files) \in Nat
        BY <3>1, <3>2, Appended DEF RecorderTypes
      <3>4. fos' \in 0 .. Len(files')
        BY <3>1, <3>3
      <3> QED
        BY <1>0, <3>1, <3>3, <3>4 DEF RecorderTypes, FileType, TaskType
    <2> QED
      BY <2>1, <2>2
  <1>7. CASE Recorder!Shutdown(r) \/ Recorder!ShutdownNow(r)
    <2>1. CASE UNCHANGED shut
      BY <1>1, <1>7, <2>1 DEF Recorder!Shutdown, Recorder!ShutdownNow, RecorderTypes
    <2>2. CASE ~UNCHANGED shut
      <3>1. /\ shut' = [shut EXCEPT ![singleThreadExecutor] = TRUE] /\ singleThreadExecutor # 0
            /\ UNCHANGED <<files, fos, tasks, singleThreadExecutor, openFailed, isCollectingStats>>
        BY <1>7, <2>2 DEF Recorder!Shutdown, Recorder!ShutdownNow, Recorder!isNull
      <3>2. shut' \in Seq(BOOLEAN) /\ Len(shut') = Len(shut) /\ DOMAIN shut' = DOMAIN shut
        BY <3>1, RecorderElements, Changed DEF RecorderTypes
      <3> QED
        BY <1>0, <3>1, <3>2 DEF RecorderTypes, FileType, TaskType
    <2> QED
      BY <2>1, <2>2
  <1>8. CASE Recorder!ForgetExecutor(r)
    BY <1>0, <1>8, RecorderElements DEF Recorder!ForgetExecutor, RecorderTypes, FileType, TaskType
  <1>9. CASE Recorder!CloseFile(r)
    <2>1. CASE UNCHANGED files
      BY <1>1, <1>9, <2>1 DEF Recorder!CloseFile, RecorderTypes
    <2>2. CASE ~UNCHANGED files
      <3>1. /\ files' = [files EXCEPT ![fos].open = FALSE] /\ fos # 0
            /\ UNCHANGED <<shut, fos, tasks, singleThreadExecutor, openFailed, isCollectingStats>>
        BY <1>9, <2>2 DEF Recorder!CloseFile
      <3>2. fos \in DOMAIN files /\ files[fos] \in FileType
        BY <3>1, RecorderElements
      <3>3. [files[fos] EXCEPT !.open = FALSE] \in FileType
        BY <3>2 DEF FileType
      <3>4. files' = [files EXCEPT ![fos] = [files[fos] EXCEPT !.open = FALSE]]
        BY <3>1
      <3>5. files' \in Seq(FileType) /\ Len(files') = Len(files)
        BY <3>2, <3>3, <3>4, Changed DEF RecorderTypes
      <3> QED
        BY <1>0, <3>1, <3>5 DEF RecorderTypes, FileType, TaskType
    <2> QED
      BY <2>1, <2>2
  <1> QED
    BY <1>2, <1>3, <1>4, <1>5, <1>6, <1>7, <1>8, <1>9 DEF RecorderStep, Recorder!HandlerStep

\* The scheduled task changes its own state and the lines of files.
LEMMA TickFacts ==
    ASSUME RecorderTypes, NEW t \in DOMAIN tasks, Recorder!Tick(t)
    PROVE  /\ RecorderTypes'
           /\ DOMAIN tasks' = DOMAIN tasks /\ \A u \in DOMAIN tasks : tasks'[u].on = tasks[u].on
           /\ DOMAIN files' = DOMAIN files /\ \A f \in DOMAIN files : files'[f].open = files[f].open
           /\ UNCHANGED <<isCollectingStats, singleThreadExecutor, fos, shut, at, requests,
                          unanswered, openFailed>>
  <1>1. PICK state \in {"waiting", "running", "dead"} : tasks' = [tasks EXCEPT ![t].state = state]
    BY DEF Recorder!Tick, Recorder!BeginTick, Recorder!EndTick
  <1>2. tasks[t] \in TaskType
    BY RecorderElements
  <1>3. [tasks[t] EXCEPT !.state = state] \in TaskType /\ [tasks[t] EXCEPT !.state = state].on = tasks[t].on
    BY <1>2 DEF TaskType
  <1>4. tasks' = [tasks EXCEPT ![t] = [tasks[t] EXCEPT !.state = state]]
    BY <1>1
  <1>5. /\ tasks' \in Seq(TaskType) /\ DOMAIN tasks' = DOMAIN tasks
        /\ tasks'[t] = [tasks[t] EXCEPT !.state = state]
        /\ \A u \in DOMAIN tasks : u # t => tasks'[u] = tasks[u]
    BY <1>3, <1>4, Changed DEF RecorderTypes
  <1>6. /\ files' \in Seq(FileType) /\ Len(files') = Len(files)
        /\ DOMAIN files' = DOMAIN files /\ \A f \in DOMAIN files : files'[f].open = files[f].open
    <2>1. CASE UNCHANGED files
      BY <2>1 DEF RecorderTypes
    <2>2. CASE ~UNCHANGED files
      <3>1. files' = [files EXCEPT ![fos].lines = @ \cup {t}] /\ fos # 0
        BY <2>2 DEF Recorder!Tick, Recorder!BeginTick, Recorder!EndTick
      <3>2. fos \in DOMAIN files /\ files[fos] \in FileType
        BY <3>1, RecorderElements
      <3>3. PICK file : file = [files[fos] EXCEPT !.lines = @ \cup {t}]
        OBVIOUS
      <3>4. file \in FileType /\ file.open = files[fos].open
        BY <3>2, <3>3 DEF FileType
      <3>5. files' = [files EXCEPT ![fos] = file]
        BY <3>1, <3>3
      <3> QED
        BY <3>2, <3>4, <3>5, Changed DEF RecorderTypes
    <2> QED
      BY <2>1, <2>2
  <1>7. UNCHANGED <<isCollectingStats, singleThreadExecutor, fos, shut, at, requests,
                    unanswered, openFailed>>
    BY DEF Recorder!Tick, Recorder!BeginTick, Recorder!EndTick
  <1>8. RecorderTypes'
    BY <1>5, <1>6, <1>7 DEF RecorderTypes, FileType, TaskType
  <1>9. \A u \in DOMAIN tasks : tasks'[u].on = tasks[u].on
    BY <1>3, <1>5
  <1> QED
    BY <1>5, <1>6, <1>7, <1>8, <1>9

-----------------------------------------------------------------------------
(* One request at a time works on the recorder. *)

LEMMA PlaceOf ==
    ASSUME NEW r \in Requests
    PROVE  /\ (\A s \in Requests \ {r} : at[s] = "idle") => Place = at[r]
           /\ (\A s \in Requests \ {r} : at'[s] = "idle") => Place' = at'[r]
  <1>1. ASSUME \A s \in Requests \ {r} : at[s] = "idle"
        PROVE  Place = at[r]
    <2>1. CASE at[r] = "idle"
      BY <1>1, <2>1 DEF Place
    <2>2. CASE at[r] # "idle"
      <3>1. (CHOOSE s \in Requests : at[s] # "idle") = r
        BY <1>1, <2>2
      <3> QED
        BY <2>2, <3>1 DEF Place
    <2> QED
      BY <2>1, <2>2
  <1>2. ASSUME \A s \in Requests \ {r} : at'[s] = "idle"
        PROVE  Place' = at'[r]
    <2>1. CASE at'[r] = "idle"
      BY <1>2, <2>1 DEF Place
    <2>2. CASE at'[r] # "idle"
      <3>1. (CHOOSE s \in Requests : at'[s] # "idle") = r
        BY <1>2, <2>2
      <3> QED
        BY <2>2, <3>1 DEF Place
    <2> QED
      BY <2>1, <2>2
  <1> QED
    BY <1>1, <1>2

LEMMA AtFacts ==
    ASSUME RecorderTypes, NEW r \in Requests, NEW place, at' = [at EXCEPT ![r] = place]
    PROVE  at'[r] = place
  BY DEF RecorderTypes

\* Each step of a request that nobody disturbs leads from one place to the next.
LEMMA SerialStep ==
    ASSUME RecorderTypes, NEW r \in Requests, RecorderStep(r), RecorderAt(at[r])
    PROVE  RecorderAt(at[r])'
  <1> USE DEF Recorder!Goto, Recorder!Throws, Recorder!isNull, HasFile, NoFileOpen,
           Starting, Stopping, ShuttingDown
  <1>0. RecorderTypes'
    BY RecorderStepTypes
  <1>1. CASE Recorder!RecordStats(r)
    <2>1. at[r] = "idle" /\ at'[r] = "starting" /\ isCollectingStats'
      BY <1>1, AtFacts DEF Recorder!RecordStats
    <2>2. UNCHANGED <<singleThreadExecutor, fos, shut, tasks, files, unanswered, openFailed>>
      BY <1>1 DEF Recorder!RecordStats
    <2> QED
      BY <2>1, <2>2 DEF RecorderAt
  <1>2. CASE Recorder!StopStatsRecording(r)
    <2>1. at[r] = "idle" /\ at'[r] = "stopping" /\ ~isCollectingStats'
      BY <1>2, AtFacts DEF Recorder!StopStatsRecording
    <2>2. UNCHANGED <<singleThreadExecutor, fos, shut, tasks, files, unanswered, openFailed>>
      BY <1>2 DEF Recorder!StopStatsRecording
    <2> QED
      BY <2>1, <2>2 DEF RecorderAt
  <1>3. CASE Recorder!CheckNotRunning(r)
    <2>1. /\ at[r] = "starting"
          /\ at'[r] = IF singleThreadExecutor = 0 THEN "creating" ELSE "idle"
      BY <1>3, AtFacts DEF Recorder!CheckNotRunning
    <2>2. UNCHANGED <<isCollectingStats, singleThreadExecutor, fos, shut, tasks, files, unanswered, openFailed>>
      BY <1>3 DEF Recorder!CheckNotRunning
    <2> QED
      BY <2>1, <2>2 DEF RecorderAt
  <1>4. CASE Recorder!CreateExecutor(r)
    <2>1. at[r] = "creating" /\ at'[r] = "scheduling"
      BY <1>4, AtFacts DEF Recorder!CreateExecutor
    <2>2. /\ shut' = Append(shut, FALSE) /\ singleThreadExecutor' = Len(shut) + 1
          /\ UNCHANGED <<isCollectingStats, fos, tasks, files, unanswered, openFailed>>
      BY <1>4 DEF Recorder!CreateExecutor
    <2>3. PICK n : n = Len(shut) + 1
      OBVIOUS
    <2>4. /\ DOMAIN shut' = DOMAIN shut \cup {n} /\ n \notin DOMAIN shut /\ n # 0
          /\ shut'[n] = FALSE /\ \A x \in DOMAIN shut : shut'[x] = shut[x]
      <3>1. shut \in Seq(BOOLEAN) /\ FALSE \in BOOLEAN /\ Len(shut) \in Nat
        BY RecorderElements DEF RecorderTypes
      <3>2. /\ DOMAIN shut' = DOMAIN shut \cup {Len(shut) + 1} /\ Len(shut) + 1 \notin DOMAIN shut
            /\ shut'[Len(shut) + 1] = FALSE /\ \A x \in DOMAIN shut : shut'[x] = shut[x]
        <4>1. PICK new : new = Append(shut, FALSE)
          OBVIOUS
        <4>2. PICK fresh \in BOOLEAN : fresh = FALSE
          OBVIOUS
        <4>3. new = Append(shut, fresh)
          BY <4>1, <4>2, Zenon
        <4>4. /\ DOMAIN new = DOMAIN shut \cup {Len(shut) + 1} /\ Len(shut) + 1 \notin DOMAIN shut
              /\ new[Len(shut) + 1] = fresh /\ \A x \in DOMAIN shut : new[x] = shut[x]
          BY <3>1, <4>3, Appended
        <4> QED
          BY <2>2, <4>1, <4>2, <4>4, Zenon
      <3> QED
        BY <2>3, <3>1, <3>2
    <2>5. \A t \in DOMAIN tasks : tasks[t].on # n
      BY <2>4, RecorderElements DEF TaskType
    <2>6. \A x \in DOMAIN shut : x # 0
      BY RecorderElements
    <2>7. \A x \in DOMAIN shut : shut[x]
      BY <2>1, <2>6 DEF RecorderAt
    <2> QED
      BY <2>1, <2>2, <2>3, <2>4, <2>5, <2>7 DEF RecorderAt
  <1>5. CASE Recorder!Schedule(r)
    <2>1. at[r] = "scheduling" /\ singleThreadExecutor # 0 /\ ~shut[singleThreadExecutor]
      BY <1>5 DEF Recorder!Schedule, RecorderAt
    <2>2. /\ tasks' = Append(tasks, [on |-> singleThreadExecutor, state |-> "waiting"])
          /\ at'[r] = "opening"
          /\ UNCHANGED <<isCollectingStats, singleThreadExecutor, fos, shut, files, unanswered, openFailed>>
      BY <1>5, <2>1, AtFacts DEF Recorder!Schedule
    <2>3. PICK new : new = [on |-> singleThreadExecutor, state |-> "waiting"]
      OBVIOUS
    <2>4. new \in TaskType /\ new.on = singleThreadExecutor
      BY <2>1, <2>3, RecorderElements DEF TaskType
    <2>5. PICK n : n = Len(tasks) + 1
      OBVIOUS
    <2>6. /\ DOMAIN tasks' = DOMAIN tasks \cup {n} /\ tasks'[n] = new
          /\ \A t \in DOMAIN tasks : tasks'[t] = tasks[t]
      BY <2>2, <2>3, <2>4, <2>5, Appended DEF RecorderTypes
    <2>7. \A t \in DOMAIN tasks : tasks[t].on # singleThreadExecutor
      BY <2>1 DEF RecorderAt
    <2>8. \A s, t \in DOMAIN tasks' : tasks'[s].on = tasks'[t].on => s = t
      BY <2>4, <2>6, <2>7 DEF RecorderAt
    <2> QED
      BY <2>1, <2>2, <2>8 DEF RecorderAt
  <1>6. CASE Recorder!OpenFile(r)
    <2>1. at[r] = "opening" /\ at'[r] = "idle"
      BY <1>6, AtFacts DEF Recorder!OpenFile
    <2>2. UNCHANGED <<isCollectingStats, singleThreadExecutor, shut, tasks, unanswered>>
      BY <1>6 DEF Recorder!OpenFile
    <2>3. CASE openFailed' = TRUE /\ UNCHANGED <<files, fos>>
      BY <2>1, <2>2, <2>3 DEF RecorderAt
    <2>4. CASE /\ files' = Append(files, [open |-> TRUE, lines |-> {}])
               /\ fos' = Len(files) + 1 /\ UNCHANGED openFailed
      <3>1. [open |-> TRUE, lines |-> {}] \in FileType
        BY DEF FileType
      <3>2. /\ DOMAIN files' = DOMAIN files \cup {fos'} /\ fos' # 0
            /\ \A f \in DOMAIN files : files'[f] = files[f]
        BY <2>4, <3>1, Appended DEF RecorderTypes
      <3>3. \A f \in DOMAIN files' : files'[f].open => f = fos'
        BY <2>1, <3>2 DEF RecorderAt
      <3> QED
        BY <2>1, <2>2, <2>4, <3>2, <3>3 DEF RecorderAt
    <2> QED
      BY <1>6, <2>3, <2>4 DEF Recorder!OpenFile
  <1>7. CASE Recorder!CheckRunning(r)
    <2>1. at[r] = "stopping" /\ at'[r] = IF singleThreadExecutor = 0 THEN "idle" ELSE "checking"
      BY <1>7, AtFacts DEF Recorder!CheckRunning
    <2>2. UNCHANGED <<isCollectingStats, singleThreadExecutor, fos, shut, tasks, files, unanswered, openFailed>>
      BY <1>7 DEF Recorder!CheckRunning
    <2> QED
      BY <2>1, <2>2 DEF RecorderAt
  <1>12. CASE Recorder!CheckTerminated(r)
    <2>1. at[r] = "checking" /\ singleThreadExecutor # 0 /\ ~shut[singleThreadExecutor]
      BY <1>12 DEF Recorder!CheckTerminated, RecorderAt
    <2>2. /\ at'[r] = "shutting"
          /\ UNCHANGED <<isCollectingStats, singleThreadExecutor, fos, shut, tasks, files, unanswered, openFailed>>
      BY <1>12, <2>1, AtFacts DEF Recorder!CheckTerminated, Recorder!isTerminated
    <2> QED
      BY <2>1, <2>2 DEF RecorderAt
  <1>8. CASE Recorder!Shutdown(r)
    <2>1. at[r] = "shutting" /\ singleThreadExecutor # 0
      BY <1>8 DEF Recorder!Shutdown, RecorderAt
    <2>2. /\ shut' = [shut EXCEPT ![singleThreadExecutor] = TRUE] /\ at'[r] = "slept"
          /\ UNCHANGED <<isCollectingStats, singleThreadExecutor, fos, tasks, files, unanswered, openFailed>>
      BY <1>8, <2>1, AtFacts DEF Recorder!Shutdown
    <2>3. /\ DOMAIN shut' = DOMAIN shut /\ shut'[singleThreadExecutor] = TRUE
          /\ \A x \in DOMAIN shut : x # singleThreadExecutor => shut'[x] = shut[x]
      BY <2>1, <2>2, RecorderElements
    <2> QED
      BY <2>1, <2>2, <2>3 DEF RecorderAt
  <1>9. CASE Recorder!CheckEnded(r)
    <2>1. at[r] = "slept" /\ singleThreadExecutor # 0
      BY <1>9 DEF Recorder!CheckEnded, RecorderAt
    <2>2. /\ at'[r] \in {"clearing", "interrupting"}
          /\ UNCHANGED <<isCollectingStats, singleThreadExecutor, fos, shut, tasks, files, unanswered, openFailed>>
      BY <1>9, <2>1, AtFacts DEF Recorder!CheckEnded
    <2> QED
      BY <2>1, <2>2 DEF RecorderAt
  <1>13. CASE Recorder!ShutdownNow(r)
    <2>1. at[r] = "interrupting" /\ singleThreadExecutor # 0 /\ shut[singleThreadExecutor]
      BY <1>13 DEF Recorder!ShutdownNow, RecorderAt
    <2>2. /\ shut' = [shut EXCEPT ![singleThreadExecutor] = TRUE] /\ at'[r] = "clearing"
          /\ UNCHANGED <<isCollectingStats, singleThreadExecutor, fos, tasks, files, unanswered, openFailed>>
      BY <1>13, <2>1, AtFacts DEF Recorder!ShutdownNow
    <2>3. /\ DOMAIN shut' = DOMAIN shut /\ shut'[singleThreadExecutor] = TRUE
          /\ \A x \in DOMAIN shut : x # singleThreadExecutor => shut'[x] = shut[x]
      BY <2>1, <2>2, RecorderElements
    <2> QED
      BY <2>1, <2>2, <2>3 DEF RecorderAt
  <1>10. CASE Recorder!ForgetExecutor(r)
    <2>1. at[r] = "clearing" /\ at'[r] = "closing" /\ singleThreadExecutor # 0
      BY <1>10, AtFacts DEF Recorder!ForgetExecutor, RecorderAt
    <2>2. /\ singleThreadExecutor' = 0
          /\ UNCHANGED <<isCollectingStats, fos, shut, tasks, files, unanswered, openFailed>>
      BY <1>10 DEF Recorder!ForgetExecutor
    <2> QED
      BY <2>1, <2>2 DEF RecorderAt
  <1>11. CASE Recorder!CloseFile(r)
    <2>1. at[r] = "closing" /\ singleThreadExecutor = 0 /\ HasFile /\ ~isCollectingStats /\ at'[r] = "idle"
      BY <1>11, AtFacts DEF Recorder!CloseFile, RecorderAt
    <2>2. UNCHANGED <<isCollectingStats, singleThreadExecutor, fos, shut, tasks, openFailed>>
      BY <1>11 DEF Recorder!CloseFile
    <2>3. CASE fos = 0
      <3>1. UNCHANGED files
        BY <1>11, <2>3 DEF Recorder!CloseFile
      <3>2. \A f \in DOMAIN files : ~files[f].open
        BY <2>3, RecorderElements DEF RecorderAt
      <3> QED
        BY <2>1, <2>2, <2>3, <3>1, <3>2 DEF RecorderAt
    <2>4. CASE fos # 0
      <3>1. files' = [files EXCEPT ![fos].open = FALSE] /\ UNCHANGED unanswered
        BY <1>11, <2>4 DEF Recorder!CloseFile
      <3>2. fos \in DOMAIN files /\ files[fos] \in FileType
        BY <2>4, RecorderElements
      <3>3. /\ DOMAIN files' = DOMAIN files /\ ~files'[fos].open
            /\ \A f \in DOMAIN files : f # fos => files'[f] = files[f]
        BY <3>1, <3>2 DEF FileType
      <3>4. \A f \in DOMAIN files' : ~files'[f].open
        BY <3>3 DEF RecorderAt
      <3> QED
        BY <2>1, <2>2, <3>1, <3>4 DEF RecorderAt
    <2> QED
      BY <2>3, <2>4
  <1> QED
    BY <1>1, <1>2, <1>3, <1>4, <1>5, <1>6, <1>7, <1>8, <1>9, <1>10, <1>11, <1>12, <1>13
       DEF RecorderStep, Recorder!HandlerStep

\* The task disturbs nobody.
LEMMA TickAt ==
    ASSUME RecorderTypes, NEW t \in DOMAIN tasks, Recorder!Tick(t), NEW place, RecorderAt(place)
    PROVE  RecorderAt(place)'
  <1>1. /\ DOMAIN tasks' = DOMAIN tasks /\ \A u \in DOMAIN tasks : tasks'[u].on = tasks[u].on
        /\ DOMAIN files' = DOMAIN files /\ \A f \in DOMAIN files : files'[f].open = files[f].open
        /\ UNCHANGED <<isCollectingStats, singleThreadExecutor, fos, shut, unanswered, openFailed>>
    BY TickFacts
  <1>2. NoFileOpen' <=> NoFileOpen
    BY <1>1 DEF NoFileOpen
  <1>3. HasFile' <=> HasFile
    BY <1>1 DEF HasFile
  <1> QED
    BY <1>1, <1>2, <1>3 DEF RecorderAt

-----------------------------------------------------------------------------
(* What the requests and the page's answers become. *)

LEMMA RequestFacts ==
    ASSUME PageTypes, NEW r \in Requests
    PROVE  /\ request[r].stage \in Stage
           /\ UnderWay(r) => request[r].page \in Pages /\ request[r].action \in Action
           /\ Answered(r) /\ request[r].action = "actions" => request[r] \in Labelled
           /\ request[r].stage \in {"sent", "handling", "dropped"} => request[r] \in Plain
           /\ request[r].stage = "handling" => request[r].action \in Recordings
  <1>1. RequestOK(r)
    BY DEF PageTypes
  <1>2. CASE request[r] = NoRequest
    BY <1>1, <1>2 DEF NoRequest, Stage, UnderWay, Answered
  <1>3. CASE request[r] \in Plain /\ (request[r].stage = "answered" => request[r].action # "actions")
    BY <1>1, <1>3 DEF Plain, UnderWay, Answered, RequestOK
  <1>4. CASE request[r] \in Labelled
    BY <1>1, <1>4 DEF Labelled, Stage, Action, UnderWay, Answered
  <1> QED
    BY <1>1, <1>2, <1>3, <1>4 DEF RequestOK

OthersSame(r) == DOMAIN request' = Requests /\ \A q \in Requests \ {r} : request'[q] = request[q]

\* A request comes to another stage.
Becomes(r, stage) ==
    /\ OthersSame(r)
    /\ request'[r].stage = stage
    /\ request'[r].page = request[r].page /\ request'[r].action = request[r].action

\* A request is sent, or its answer has been shown.
Sends(r, p, action) ==
    /\ OthersSame(r)
    /\ ~UnderWay(r) /\ request'[r] = [stage |-> "sent", page |-> p, action |-> action]

Frees(r) == OthersSame(r) /\ request'[r] = NoRequest

LEMMA OthersOK ==
    ASSUME PageTypes, NEW r \in Requests, OthersSame(r), RequestOK(r)'
    PROVE  DOMAIN request' = Requests /\ \A q \in Requests : RequestOK(q)'
  <1>1. ASSUME NEW q \in Requests \ {r}
        PROVE  RequestOK(q)'
    BY <1>1 DEF PageTypes, OthersSame, RequestOK
  <1> QED
    BY <1>1 DEF OthersSame

LEMMA StageChanges ==
    ASSUME PageTypes, NEW r \in Requests, request[r].stage \in {"sent", "handling"},
           NEW stage \in Stage \ {"none"}, request' = [request EXCEPT ![r].stage = stage],
           stage = "answered" => request[r].action # "actions",
           stage = "handling" => request[r].action \in Recordings
    PROVE  Becomes(r, stage) /\ \A q \in Requests : RequestOK(q)'
  <1>1. request[r] \in Plain
    BY RequestFacts
  <1>2. PICK new : new = [request[r] EXCEPT !.stage = stage]
    OBVIOUS
  <1>3. /\ new \in Plain /\ new.stage = stage
        /\ new.page = request[r].page /\ new.action = request[r].action
    BY <1>1, <1>2 DEF Plain
  <1>4. OthersSame(r) /\ request'[r] = new
    BY <1>2 DEF OthersSame, PageTypes
  <1>5. RequestOK(r)'
    BY <1>3, <1>4 DEF RequestOK
  <1> QED
    BY <1>3, <1>4, <1>5, OthersOK DEF Becomes

LEMMA RequestFreed ==
    ASSUME PageTypes, NEW r \in Requests, request' = [request EXCEPT ![r] = NoRequest]
    PROVE  Frees(r) /\ \A q \in Requests : RequestOK(q)'
  <1>1. OthersSame(r) /\ request'[r] = NoRequest
    BY DEF OthersSame, PageTypes
  <1>2. RequestOK(r)'
    BY <1>1 DEF RequestOK, NoRequest
  <1> QED
    BY <1>1, <1>2, OthersOK DEF Frees

LEMMA RequestSent ==
    ASSUME PageTypes, NEW p \in Pages, NEW action \in Action, Send(p, action)
    PROVE  \E r \in Requests : Sends(r, p, action) /\ \A q \in Requests : RequestOK(q)'
  <1>1. PICK r \in Requests : r = CHOOSE q \in Requests : ~UnderWay(q)
    BY DEF Send
  <1>2. ~UnderWay(r)
    BY <1>1 DEF Send
  <1>3. request' = [request EXCEPT ![r] = [stage |-> "sent", page |-> p, action |-> action]]
    BY <1>1 DEF Send
  <1>4. OthersSame(r) /\ request'[r] = [stage |-> "sent", page |-> p, action |-> action]
    BY <1>3 DEF OthersSame, PageTypes
  <1>5. RequestOK(r)'
    BY <1>4 DEF RequestOK, Plain, Stage
  <1> QED
    BY <1>2, <1>4, <1>5, OthersOK DEF Sends

ConsoleInv == /\ PageTypes /\ RecorderTypes /\ CountInv /\ PlaceInv /\ RecorderInv
              /\ LoadInv /\ WaitInv /\ LabelInv /\ PauseInv

\* A request for the recorder that is being handled is one that Wait.. let through.
LEMMA OneAtWork ==
    ASSUME ConsoleInv, ~hasty, NEW r \in StatsRequests
    PROVE  /\ \A s \in Requests \ {r} : at[s] = "idle" /\ s \notin StatsRequests
           /\ Place = at[r] /\ RecorderAt(at[r])
  <1>1. \A s \in Requests \ {r} : s \notin StatsRequests
    BY DEF ConsoleInv, WaitInv
  <1>2. ASSUME NEW s \in Requests \ {r}, at[s] # "idle"
        PROVE  FALSE
    <2>1. request[s].stage = "handling"
      BY <1>2 DEF ConsoleInv, PlaceInv
    <2>2. s \in StatsRequests
      BY <2>1, RequestFacts DEF ConsoleInv, StatsRequests, UnderWay
    <2> QED
      BY <1>1, <2>2
  <1>3. Place = at[r]
    BY <1>2, PlaceOf DEF StatsRequests
  <1> QED
    BY <1>1, <1>2, <1>3 DEF ConsoleInv, RecorderInv

-----------------------------------------------------------------------------
(* The recorder at each step of the page and of Mission Control. *)

LEMMA HandlerPlaces ==
    ASSUME RecorderTypes, NEW r \in Requests, Recorder!HandlerStep(r)
    PROVE  /\ at[r] # "idle"
           /\ at'[r] \in Starting => at[r] \in Starting
           /\ at'[r] \in Stopping => at[r] \in Stopping
           /\ UNCHANGED <<isCollectingStats, requests>>
           /\ unanswered' = unanswered \/ (unanswered' = unanswered + 1 /\ at'[r] = "idle")
  <1> USE DEF Recorder!Goto, Recorder!Throws, Starting, Stopping
  <1>1. PICK place \in Recorder!HandlerState : at' = [at EXCEPT ![r] = place]
    BY RecorderMoves DEF RecorderStep
  <1>2. at'[r] = place
    BY <1>1, AtFacts
  <1>3. CASE Recorder!CheckNotRunning(r)
    BY <1>3, AtFacts DEF Recorder!CheckNotRunning
  <1>4. CASE Recorder!CreateExecutor(r)
    BY <1>4, AtFacts DEF Recorder!CreateExecutor
  <1>5. CASE Recorder!Schedule(r)
    BY <1>5, AtFacts DEF Recorder!Schedule
  <1>6. CASE Recorder!OpenFile(r)
    BY <1>6, AtFacts DEF Recorder!OpenFile
  <1>7. CASE Recorder!CheckRunning(r)
    BY <1>7, AtFacts DEF Recorder!CheckRunning
  <1>8. CASE Recorder!Shutdown(r) \/ Recorder!ShutdownNow(r)
    BY <1>8, AtFacts DEF Recorder!Shutdown, Recorder!ShutdownNow
  <1>9. CASE Recorder!CheckTerminated(r) \/ Recorder!CheckEnded(r)
    BY <1>9, AtFacts DEF Recorder!CheckTerminated, Recorder!CheckEnded
  <1>10. CASE Recorder!ForgetExecutor(r)
    BY <1>10, AtFacts DEF Recorder!ForgetExecutor
  <1>11. CASE Recorder!CloseFile(r)
    BY <1>11, AtFacts DEF Recorder!CloseFile
  <1> QED
    BY <1>3, <1>4, <1>5, <1>6, <1>7, <1>8, <1>9, <1>10, <1>11 DEF Recorder!HandlerStep

\* What the recorder has to do with is left alone.
LEMMA Undisturbed ==
    ASSUME ConsoleInv, UNCHANGED recorderVars, hasty => hasty', NEW r \in Requests, OthersSame(r),
           request[r].stage # "handling", request'[r].stage # "handling"
    PROVE  RecorderTypes' /\ CountInv' /\ PlaceInv' /\ RecorderInv'
  <1>1. UNCHANGED <<isCollectingStats, singleThreadExecutor, fos, shut, tasks, files, at,
                    requests, unanswered, openFailed>>
    BY DEF recorderVars
  <1>2. RecorderTypes'
    BY <1>1 DEF ConsoleInv, RecorderTypes, FileType, TaskType
  <1>3. CountInv'
    BY <1>1 DEF ConsoleInv, CountInv, Active
  <1>4. PlaceInv'
    <2>1. PlaceInv
      BY DEF ConsoleInv
    <2>2. at'[r] = at[r] /\ at[r] = "idle"
      BY <1>1, <2>1 DEF PlaceInv
    <2>3. "idle" \notin Starting /\ "idle" \notin Stopping
      BY DEF Starting, Stopping
    <2>4. \A q \in Requests \ {r} : at'[q] = at[q] /\ request'[q] = request[q]
      BY <1>1 DEF OthersSame
    <2> QED
      BY <2>1, <2>2, <2>3, <2>4 DEF PlaceInv
  <1>5. Place' = Place
    BY <1>1 DEF Place
  <1>6. RecorderAt(Place)' <=> RecorderAt(Place)
    BY <1>1, <1>5 DEF RecorderAt, HasFile, NoFileOpen
  <1>7. RecorderInv'
    BY <1>6 DEF ConsoleInv, RecorderInv
  <1> QED
    BY <1>2, <1>3, <1>4, <1>7

LEMMA ArrivalCounts ==
    ASSUME RecorderTypes, CountInv, NEW r \in Requests, at[r] = "idle", at'[r] # "idle",
           \A s \in Requests \ {r} : at'[s] = at[s],
           requests < MaxClicks, requests' = requests + 1, UNCHANGED unanswered
    PROVE  CountInv'
  <1>1. Active' = Active \cup {r} /\ r \notin Active
    BY DEF Active
  <1>2. IsFiniteSet(Active') /\ Cardinality(Active') = Cardinality(Active) + 1 /\ Cardinality(Active) \in Nat
    BY <1>1, FS_AddElement, FS_CardinalityType DEF CountInv
  <1>3. /\ requests' \in 0 .. MaxClicks /\ unanswered' \in Nat
        /\ unanswered' + Cardinality(Active') <= requests'
    BY <1>2, ConsoleAssumption DEF CountInv
  <1> QED
    BY <1>2, <1>3 DEF CountInv

LEMMA WorkCounts ==
    ASSUME RecorderTypes, CountInv, NEW r \in Requests, at[r] # "idle",
           \A s \in Requests \ {r} : at'[s] = at[s], UNCHANGED requests,
           unanswered' = unanswered \/ (unanswered' = unanswered + 1 /\ at'[r] = "idle")
    PROVE  CountInv'
  <1>1. CASE at'[r] # "idle"
    <2>1. Active' = Active
      BY <1>1 DEF Active
    <2>2. unanswered' = unanswered
      BY <1>1
    <2> QED
      BY <2>1, <2>2 DEF CountInv
  <1>2. CASE at'[r] = "idle"
    <2>1. Active' = Active \ {r} /\ r \in Active
      BY <1>2 DEF Active
    <2>2. IsFiniteSet(Active') /\ Cardinality(Active') = Cardinality(Active) - 1 /\ Cardinality(Active) \in Nat
      BY <2>1, FS_RemoveElement, FS_CardinalityType DEF CountInv
    <2>3. unanswered' = unanswered \/ unanswered' = unanswered + 1
      OBVIOUS
    <2>4. unanswered' \in Nat /\ unanswered' + Cardinality(Active') <= requests'
      BY <2>2, <2>3 DEF CountInv
    <2> QED
      BY <2>2, <2>4 DEF CountInv
  <1> QED
    BY <1>1, <1>2

LEMMA ArrivalRecorder ==
    ASSUME ConsoleInv, NEW r \in Requests, HandleStats(r)
    PROVE  RecorderTypes' /\ CountInv' /\ PlaceInv' /\ RecorderInv'
  <1>1. /\ RecorderStep(r) /\ request[r].stage = "sent" /\ request[r].action \in Recordings
        /\ request' = [request EXCEPT ![r].stage = "handling"] /\ UNCHANGED hasty
    BY DEF HandleStats, RecorderStep, Arrived, Recordings, historyVars
  <1>2. Becomes(r, "handling")
    BY <1>1, StageChanges DEF ConsoleInv, Stage
  <1>3. RecorderTypes'
    BY <1>1, RecorderStepTypes DEF ConsoleInv
  <1>4. \A s \in Requests \ {r} : at'[s] = at[s]
    BY <1>1, RecorderMoves DEF ConsoleInv
  <1>5. /\ at[r] = "idle" /\ at'[r] \in {"starting", "stopping"}
        /\ at'[r] = "starting" => request[r].action = "Record Stats"
        /\ at'[r] = "stopping" => request[r].action = "Stop Stats Recording"
        /\ requests < MaxClicks /\ requests' = requests + 1 /\ UNCHANGED unanswered
    BY AtFacts DEF HandleStats, Arrived, Recorder!RecordStats, Recorder!StopStatsRecording,
       Recorder!Goto, ConsoleInv
  <1>6. CountInv'
    <2>1. at'[r] # "idle"
      BY <1>5
    <2> QED
      BY <1>4, <1>5, <2>1, ArrivalCounts DEF ConsoleInv
  <1>7. PlaceInv'
    <2>1. ASSUME NEW q \in Requests
          PROVE  /\ at'[q] # "idle" <=> request'[q].stage = "handling"
                 /\ at'[q] \in Starting => request'[q].action = "Record Stats"
                 /\ at'[q] \in Stopping => request'[q].action = "Stop Stats Recording"
      <3>1. CASE q = r
        BY <1>2, <1>5, <3>1 DEF Becomes, Starting, Stopping
      <3>2. CASE q # r
        BY <1>2, <1>4, <3>2 DEF Becomes, OthersSame, ConsoleInv, PlaceInv
      <3> QED
        BY <3>1, <3>2
    <2> QED
      BY <2>1 DEF PlaceInv, Starting, Stopping
  <1>8. ASSUME ~hasty'
        PROVE  RecorderAt(Place)'
    <2>1. r \in StatsRequests /\ ~hasty
      BY <1>1, <1>8 DEF StatsRequests, UnderWay
    <2>2. RecorderAt(at[r]) /\ \A s \in Requests \ {r} : at[s] = "idle"
      BY <2>1, OneAtWork
    <2>3. RecorderAt(at[r])'
      BY <1>1, <2>2, SerialStep DEF ConsoleInv
    <2>4. Place' = at'[r]
      BY <1>4, <2>2, PlaceOf
    <2> QED
      BY <2>3, <2>4 DEF RecorderAt
  <1> QED
    BY <1>3, <1>6, <1>7, <1>8 DEF RecorderInv

LEMMA WorkEffect ==
    ASSUME ConsoleInv, NEW r \in Requests, HandleStatsStep(r)
    PROVE  /\ \E stage \in {"handling", "answered", "dropped"} :
                 Becomes(r, stage) /\ (stage = "handling" <=> at'[r] # "idle")
           /\ \A q \in Requests : RequestOK(q)'
           /\ request[r].stage = "handling" /\ request[r].action \in Recordings
  <1>1. PICK stage : stage = IF unanswered' # unanswered THEN "dropped"
                             ELSE IF at'[r] = "idle" THEN "answered" ELSE "handling"
    OBVIOUS
  <1>2. request[r].stage = "handling" /\ Recorder!HandlerStep(r)
    BY DEF HandleStatsStep
  <1>3. request[r].action \in Recordings /\ request[r] \in Plain
    BY <1>2, RequestFacts DEF ConsoleInv
  <1>4. stage \in {"handling", "answered", "dropped"}
    BY <1>1
  <1>5. request' = [request EXCEPT ![r].stage = stage]
    <2>1. request' = [request EXCEPT ![r].stage =
             IF unanswered' # unanswered THEN "dropped" ELSE IF at'[r] = "idle" THEN "answered" ELSE request[r].stage]
      BY DEF HandleStatsStep
    <2> QED
      BY <1>1, <1>2, <2>1
  <1>6. stage = "handling" <=> at'[r] # "idle"
    <2>1. unanswered' = unanswered \/ at'[r] = "idle"
      BY <1>2, HandlerPlaces DEF ConsoleInv
    <2> QED
      BY <1>1, <2>1
  <1>7. Becomes(r, stage) /\ \A q \in Requests : RequestOK(q)'
    <2>1. request[r].action # "actions" /\ stage \in Stage \ {"none"} /\ PageTypes
      BY <1>3, <1>4 DEF Recordings, Stage, ConsoleInv
    <2> QED
      BY <1>2, <1>3, <1>5, <2>1, StageChanges
  <1> QED
    BY <1>2, <1>3, <1>4, <1>6, <1>7

LEMMA WorkRecorder ==
    ASSUME ConsoleInv, NEW r \in Requests, HandleStatsStep(r)
    PROVE  RecorderTypes' /\ CountInv' /\ PlaceInv' /\ RecorderInv'
  <1>1. PICK stage \in {"handling", "answered", "dropped"} :
           Becomes(r, stage) /\ (stage = "handling" <=> at'[r] # "idle")
    BY WorkEffect
  <1>2. /\ Recorder!HandlerStep(r) /\ RecorderStep(r) /\ UNCHANGED hasty
        /\ request[r].stage = "handling" /\ request[r].action \in Recordings
    BY WorkEffect DEF HandleStatsStep, RecorderStep, historyVars
  <1>3. RecorderTypes'
    BY <1>2, RecorderStepTypes DEF ConsoleInv
  <1>4. \A s \in Requests \ {r} : at'[s] = at[s]
    BY <1>2, RecorderMoves DEF ConsoleInv
  <1>5. CountInv'
    BY <1>2, <1>4, HandlerPlaces, WorkCounts DEF ConsoleInv
  <1>6. PlaceInv'
    <2>1. ASSUME NEW q \in Requests
          PROVE  /\ at'[q] # "idle" <=> request'[q].stage = "handling"
                 /\ at'[q] \in Starting => request'[q].action = "Record Stats"
                 /\ at'[q] \in Stopping => request'[q].action = "Stop Stats Recording"
      <3>1. CASE q = r
        <4>1. at'[r] \in Starting => at[r] \in Starting
          BY <1>2, HandlerPlaces DEF ConsoleInv
        <4>2. at'[r] \in Stopping => at[r] \in Stopping
          BY <1>2, HandlerPlaces DEF ConsoleInv
        <4>3. /\ at[r] \in Starting => request[r].action = "Record Stats"
              /\ at[r] \in Stopping => request[r].action = "Stop Stats Recording"
          BY DEF ConsoleInv, PlaceInv
        <4> QED
          BY <1>1, <3>1, <4>1, <4>2, <4>3 DEF Becomes
      <3>2. CASE q # r
        BY <1>1, <1>4, <3>2 DEF Becomes, OthersSame, ConsoleInv, PlaceInv
      <3> QED
        BY <3>1, <3>2
    <2> QED
      BY <2>1 DEF PlaceInv, Starting, Stopping
  <1>7. ASSUME ~hasty'
        PROVE  RecorderAt(Place)'
    <2>1. r \in StatsRequests /\ ~hasty
      BY <1>2, <1>7 DEF StatsRequests, UnderWay
    <2>2. RecorderAt(at[r]) /\ \A s \in Requests \ {r} : at[s] = "idle"
      BY <2>1, OneAtWork
    <2>3. RecorderAt(at[r])'
      BY <1>2, <2>2, SerialStep DEF ConsoleInv
    <2>4. Place' = at'[r]
      BY <1>4, <2>2, PlaceOf
    <2> QED
      BY <2>3, <2>4 DEF RecorderAt
  <1> QED
    BY <1>3, <1>5, <1>6, <1>7 DEF RecorderInv

LEMMA TickRecorder ==
    ASSUME ConsoleInv, NEW t \in DOMAIN tasks, Tick(t)
    PROVE  RecorderTypes' /\ CountInv' /\ PlaceInv' /\ RecorderInv'
  <1>1. /\ RecorderTypes'
        /\ UNCHANGED <<isCollectingStats, singleThreadExecutor, fos, shut, at, requests,
                       unanswered, openFailed>>
    BY TickFacts DEF ConsoleInv, Tick
  <1>2. UNCHANGED <<request, hasty, requests>>
    BY <1>1 DEF Tick, historyVars
  <1>3. CountInv' /\ PlaceInv'
    BY <1>1, <1>2 DEF ConsoleInv, CountInv, Active, PlaceInv, Starting, Stopping
  <1>4. Place' = Place
    BY <1>1 DEF Place
  <1>5. ASSUME ~hasty'
        PROVE  RecorderAt(Place)'
    <2>1. PICK place : place = Place
      OBVIOUS
    <2>2. RecorderAt(place)
      BY <1>2, <1>5, <2>1 DEF ConsoleInv, RecorderInv
    <2>3. RecorderAt(place)'
      BY <2>2, TickAt DEF ConsoleInv, Tick
    <2> QED
      BY <1>4, <2>1, <2>3 DEF RecorderAt
  <1> QED
    BY <1>1, <1>3, <1>5 DEF RecorderInv

-----------------------------------------------------------------------------
(* Each step keeps the invariant. *)

LEMMA Kinds ==
    /\ "actions" \notin Recordings /\ "actions" \notin PauseLabel
    /\ \A action \in Recordings : action \notin PauseLabel
    /\ \A action \in StatsLabel : action # "Wait.." => action \in Recordings
    /\ Recordings \subseteq Action /\ PauseLabel \subseteq Action /\ "actions" \in Action
    /\ Recordings \subseteq StatsLabel
  BY DEF Recordings, PauseLabel, StatsLabel, Action

LEMMA SentFacts ==
    ASSUME NEW r \in Requests, NEW p, NEW action, Sends(r, p, action)
    PROVE  /\ \A q \in Requests \ {r} : request'[q] = request[q]
           /\ ~UnderWay(r) /\ request'[r].stage = "sent" /\ request'[r].page = p
           /\ request'[r].action = action
  BY DEF Sends, OthersSame

LEMMA OpenPageKeeps ==
    ASSUME ConsoleInv, NEW p \in Pages, OpenPage(p)
    PROVE  ConsoleInv'
  <1>1. /\ page[p] = "closed" /\ page' = [page EXCEPT ![p] = "loading"] /\ Send(p, "actions")
        /\ UNCHANGED recorderVars
        /\ UNCHANGED <<isPaused, pauseResume, stats, clicks, hasty, restless, lastShown>>
    BY DEF OpenPage, historyVars
  <1>2. PICK r \in Requests : Sends(r, p, "actions") /\ \A q \in Requests : RequestOK(q)'
    BY <1>1, RequestSent, Kinds DEF ConsoleInv
  <1>3. /\ \A q \in Requests \ {r} : request'[q] = request[q]
        /\ ~UnderWay(r) /\ request'[r].stage = "sent" /\ request'[r].page = p
        /\ request'[r].action = "actions"
    BY <1>2, SentFacts
  <1>4. page'[p] = "loading" /\ \A q \in Pages \ {p} : page'[q] = page[q]
    BY <1>1 DEF ConsoleInv, PageTypes
  <1>5. RecorderTypes' /\ CountInv' /\ PlaceInv' /\ RecorderInv'
    BY <1>1, <1>2, <1>3, Undisturbed DEF Sends, UnderWay
  <1>6. PageTypes'
    BY <1>1, <1>2 DEF ConsoleInv, PageTypes, Sends, OthersSame
  <1>7. \A q \in Requests \ {r} : UnderWay(q) => request[q].page \in Pages \ {p}
    BY <1>1, RequestFacts DEF ConsoleInv, LoadInv
  <1>8. LoadInv'
    <2>1. ASSUME NEW q \in Requests
          PROVE  /\ UnderWay(q)' => page'[request'[q].page] # "closed"
                 /\ Loads(q)' => page'[request'[q].page] = "loading"
      BY <1>3, <1>4, <1>7 DEF ConsoleInv, LoadInv, Loads, UnderWay
    <2>2. ASSUME NEW q \in Requests, NEW s \in Requests,
                 Loads(q)', Loads(s)', request'[q].page = request'[s].page
          PROVE  q = s
      BY <1>3, <1>7, <2>2 DEF ConsoleInv, LoadInv, Loads, UnderWay
    <2> QED
      BY <2>1, <2>2 DEF LoadInv
  <1>9. StatsRequests' = StatsRequests /\ Pausing' = Pausing /\ r \notin StatsRequests /\ r \notin Pausing
    BY <1>3, Kinds DEF StatsRequests, Pausing, UnderWay
  <1>10. WaitInv'
    BY <1>1, <1>3, <1>4, <1>7, <1>9 DEF ConsoleInv, WaitInv, StatsRequests
  <1>11. UNCHANGED isCollectingStats
    BY <1>1 DEF recorderVars
  <1>12. LabelInv'
    <2>1. ASSUME NEW q \in Pages, OnlyOpen(q)', page'[q] = "loaded"
          PROVE  FALSE
      BY <1>4, <2>1 DEF OnlyOpen
    <2>2. ASSUME NEW q \in Requests, Loads(q)', Answered(q)', OnlyOpen(request[q].page)'
          PROVE  FALSE
      BY <1>3, <1>4, <1>7, <2>2 DEF OnlyOpen, Loads, Answered, UnderWay
    <2>3. ASSUME NEW q \in Requests, Loads(q)', Answered(q)'
          PROVE  q \in Requests \ {r}
      BY <1>3, <2>3 DEF Answered
    <2> QED
      BY <1>1, <1>3, <1>9, <1>11, <2>1, <2>2, <2>3 DEF ConsoleInv, LabelInv, StatsRequests
  <1>13. PauseInv'
    BY <1>1, <1>3, <1>4, <1>7, <1>9 DEF ConsoleInv, PauseInv, Pausing, Answered, PageTypes
  <1> QED
    BY <1>5, <1>6, <1>8, <1>10, <1>12, <1>13 DEF ConsoleInv

\* A click sends a request of a page that is open.
LEMMA SentLoads ==
    ASSUME LoadInv, NEW p \in Pages, page[p] # "closed", NEW r \in Requests, NEW action,
           action # "actions", Sends(r, p, action), UNCHANGED page
    PROVE  LoadInv'
  <1>1. /\ \A q \in Requests \ {r} : request'[q] = request[q]
        /\ request'[r].page = p /\ request'[r].action = action
    BY SentFacts
  <1>2. ASSUME NEW q \in Requests, Loads(q)'
        PROVE  q # r /\ Loads(q) /\ request'[q] = request[q]
    BY <1>1, <1>2 DEF Loads, UnderWay
  <1>3. ASSUME NEW q \in Requests, UnderWay(q)'
        PROVE  page'[request'[q].page] # "closed"
    BY <1>1, <1>3 DEF LoadInv, UnderWay
  <1> QED
    BY <1>2, <1>3 DEF LoadInv

LEMMA ClickCounts ==
    ASSUME clicks \in 0 .. MaxClicks, clicks < MaxClicks, clicks' = clicks + 1
    PROVE  clicks' \in 0 .. MaxClicks
  BY ConsoleAssumption

LEMMA ClickPauseResumeKeeps ==
    ASSUME ConsoleInv, NEW p \in Pages, ClickPauseResume(p)
    PROVE  ConsoleInv'
  <1>1. /\ page[p] # "closed" /\ Send(p, pauseResume[p]) /\ clicks < MaxClicks /\ clicks' = clicks + 1
        /\ restless' = (page[p] = "loading" \/ Pausing # {})
        /\ UNCHANGED recorderVars /\ UNCHANGED <<isPaused, pauseResume, stats, page, hasty, lastShown>>
    BY DEF ClickPauseResume, pageVars
  <1>2. PICK action \in PauseLabel : action = pauseResume[p]
    BY DEF ConsoleInv, PageTypes
  <1>3. PICK r \in Requests : Sends(r, p, action) /\ \A q \in Requests : RequestOK(q)'
    BY <1>1, <1>2, RequestSent, Kinds DEF ConsoleInv
  <1>4. /\ \A q \in Requests \ {r} : request'[q] = request[q]
        /\ ~UnderWay(r) /\ request'[r].stage = "sent" /\ request'[r].page = p
        /\ request'[r].action = action
    BY <1>3, SentFacts
  <1>5. RecorderTypes' /\ CountInv' /\ PlaceInv' /\ RecorderInv'
    BY <1>1, <1>3, <1>4, Undisturbed DEF Sends, UnderWay
  <1>6. clicks' \in 0 .. MaxClicks
    BY ClickCounts DEF ConsoleInv, PageTypes, ClickPauseResume
  <1>7. PageTypes'
    BY <1>1, <1>3, <1>6 DEF ConsoleInv, PageTypes, Sends, OthersSame
  <1>8. LoadInv'
    BY <1>1, <1>4, <1>2, <1>3, Kinds, SentLoads DEF ConsoleInv
  <1>9. StatsRequests' = StatsRequests /\ r \notin StatsRequests /\ Pausing' = Pausing \cup {r}
    BY <1>4, Kinds DEF StatsRequests, Pausing, UnderWay
  <1>10. WaitInv'
    BY <1>1, <1>4, <1>9 DEF ConsoleInv, WaitInv, StatsRequests
  <1>11. UNCHANGED isCollectingStats
    BY <1>1 DEF recorderVars
  <1>12. LabelInv'
    <2>1. ASSUME NEW q \in Requests, Loads(q)', Answered(q)'
          PROVE  q \in Requests \ {r} /\ Loads(q) /\ Answered(q) /\ request'[q] = request[q]
      BY <1>4, <2>1 DEF Answered, Loads, UnderWay
    <2>2. \A q \in StatsRequests' : q \in StatsRequests /\ request'[q] = request[q]
      BY <1>4, <1>9 DEF StatsRequests
    <2>3. LabelInv
      BY DEF ConsoleInv
    <2> QED
      BY <1>1, <1>11, <2>1, <2>2, <2>3 DEF LabelInv, OnlyOpen
  <1>13. ASSUME ~restless'
         PROVE  Pausing = {} /\ page[p] = "loaded"
    BY <1>1, <1>13 DEF ConsoleInv, PageTypes
  <1>14. PauseInv'
    <2>1. ASSUME ~restless', NEW q \in Pausing'
          PROVE  /\ q = r /\ request'[q].stage = "sent"
                 /\ page'[request'[q].page] = "loaded"
      BY <1>1, <1>4, <1>9, <1>13, <2>1
    <2> QED
      BY <1>9, <2>1 DEF PauseInv, Answered
  <1> QED
    BY <1>5, <1>7, <1>8, <1>10, <1>12, <1>14 DEF ConsoleInv

LEMMA ClickStatsKeeps ==
    ASSUME ConsoleInv, NEW p \in Pages, ClickStats(p)
    PROVE  ConsoleInv'
  <1>1. /\ page[p] # "closed" /\ stats[p] # "Wait.." /\ Send(p, stats[p])
        /\ clicks < MaxClicks /\ clicks' = clicks + 1 /\ stats' = [stats EXCEPT ![p] = "Wait.."]
        /\ Hurries(p)
        /\ UNCHANGED recorderVars /\ UNCHANGED <<isPaused, pauseResume, page, restless, lastShown>>
    BY DEF ClickStats
  <1>2. PICK action \in Recordings : action = stats[p]
    BY <1>1, Kinds DEF ConsoleInv, PageTypes
  <1>3. PICK r \in Requests : Sends(r, p, action) /\ \A q \in Requests : RequestOK(q)'
    BY <1>1, <1>2, RequestSent, Kinds DEF ConsoleInv
  <1>4. /\ \A q \in Requests \ {r} : request'[q] = request[q]
        /\ ~UnderWay(r) /\ request'[r].stage = "sent" /\ request'[r].page = p
        /\ request'[r].action = action
    BY <1>3, SentFacts
  <1>5. hasty => hasty'
    BY <1>1 DEF Hurries
  <1>6. RecorderTypes' /\ CountInv' /\ PlaceInv' /\ RecorderInv'
    BY <1>1, <1>3, <1>4, <1>5, Undisturbed DEF Sends, UnderWay
  <1>7. clicks' \in 0 .. MaxClicks
    BY ClickCounts DEF ConsoleInv, PageTypes, ClickStats
  <1>8. PageTypes'
    <2>1. hasty' \in BOOLEAN
      BY <1>1 DEF Hurries
    <2>2. stats' \in [Pages -> StatsLabel]
      <3>1. stats \in [Pages -> StatsLabel] /\ "Wait.." \in StatsLabel
        BY DEF ConsoleInv, PageTypes, StatsLabel
      <3> QED
        BY <1>1, <3>1
    <2> QED
      BY <1>1, <1>3, <1>7, <2>1, <2>2 DEF ConsoleInv, PageTypes, Sends, OthersSame
  <1>9. LoadInv'
    BY <1>1, <1>4, <1>2, <1>3, Kinds, SentLoads DEF ConsoleInv
  <1>10. /\ stats'[p] = "Wait.." /\ StatsRequests' = StatsRequests \cup {r}
         /\ Pausing' = Pausing /\ r \notin Pausing
    BY <1>1, <1>4, Kinds DEF StatsRequests, Pausing, UnderWay, ConsoleInv, PageTypes
  <1>11. ASSUME ~hasty'
         PROVE  StatsRequests = {} /\ page[p] = "loaded"
    <2>1. /\ ~hasty /\ page[p] # "loading"
          /\ \A q \in Requests : UnderWay(q) /\ request[q].action \in StatsLabel => request[q].page = p
      BY <1>1, <1>11 DEF Hurries
    <2>2. \A q \in StatsRequests : stats[request[q].page] = "Wait.."
      BY <2>1 DEF ConsoleInv, WaitInv
    <2>3. \A q \in StatsRequests : request[q].page = p
      BY <2>1, Kinds DEF StatsRequests
    <2>4. page[p] = "loaded"
      BY <1>1, <2>1 DEF ConsoleInv, PageTypes
    <2> QED
      BY <1>1, <2>2, <2>3, <2>4
  <1>12. WaitInv'
    BY <1>1, <1>4, <1>10, <1>11 DEF WaitInv
  <1>13. LabelInv'
    <2>1. ASSUME NEW q \in Pages, OnlyOpen(q)', stats'[q] # "Wait.."
          PROVE  FALSE
      BY <1>1, <1>10, <2>1 DEF OnlyOpen
    <2>2. ASSUME ~hasty', NEW q \in Requests, Loads(q)', Answered(q)', OnlyOpen(request[q].page)'
          PROVE  FALSE
      <3>1. q # r /\ Loads(q) /\ request'[q] = request[q]
        BY <1>4, <2>2 DEF Answered, Loads, UnderWay
      <3>2. page[request[q].page] = "loading"
        BY <3>1 DEF ConsoleInv, LoadInv
      <3> QED
        BY <1>1, <1>11, <2>2, <3>1, <3>2 DEF OnlyOpen
    <2> QED
      BY <1>4, <1>10, <1>11, <2>1, <2>2 DEF LabelInv
  <1>14. PauseInv'
    BY <1>1, <1>4, <1>10 DEF ConsoleInv, PauseInv, Pausing, Answered
  <1> QED
    BY <1>6, <1>8, <1>9, <1>12, <1>13, <1>14 DEF ConsoleInv

LEMMA BecomesFacts ==
    ASSUME NEW r \in Requests, NEW stage, Becomes(r, stage), UnderWay(r), stage # "none"
    PROVE  /\ \A q \in Requests \ {r} : request'[q] = request[q]
           /\ request'[r].stage = stage
           /\ \A q \in Requests : request'[q].page = request[q].page /\ request'[q].action = request[q].action
           /\ \A q \in Requests : UnderWay(q)' <=> UnderWay(q)
           /\ \A q \in Requests : Loads(q)' <=> Loads(q)
           /\ StatsRequests' = StatsRequests /\ Pausing' = Pausing
  <1>1. /\ \A q \in Requests \ {r} : request'[q] = request[q]
        /\ request'[r].stage = stage
        /\ request'[r].page = request[r].page /\ request'[r].action = request[r].action
    BY DEF Becomes, OthersSame
  <1>2. \A q \in Requests : request'[q].page = request[q].page /\ request'[q].action = request[q].action
    BY <1>1
  <1>3. \A q \in Requests : UnderWay(q)' <=> UnderWay(q)
    BY <1>1 DEF UnderWay
  <1> QED
    BY <1>1, <1>2, <1>3 DEF Loads, StatsRequests, Pausing

\* A request that comes to another stage has no part in what Wait.. is about.
LEMMA BecomesKeeps ==
    ASSUME ConsoleInv, NEW r \in Requests, NEW stage, Becomes(r, stage), UnderWay(r),
           stage # "none", UNCHANGED <<page, stats, hasty>>
    PROVE  LoadInv' /\ WaitInv'
  <1>1. /\ \A q \in Requests : request'[q].page = request[q].page
        /\ \A q \in Requests : (UnderWay(q)' <=> UnderWay(q)) /\ (Loads(q)' <=> Loads(q))
        /\ StatsRequests' = StatsRequests
    BY BecomesFacts
  <1>2. \A q \in StatsRequests : q \in Requests
    BY DEF StatsRequests
  <1>3. LoadInv'
    BY <1>1 DEF ConsoleInv, LoadInv
  <1>4. WaitInv'
    BY <1>1, <1>2 DEF ConsoleInv, WaitInv
  <1> QED
    BY <1>3, <1>4

\* What the button says stays right when pages and recorder stay, and so do the
\* requests that are left.
LEMMA LabelStays ==
    ASSUME LabelInv, UNCHANGED <<isCollectingStats, stats, page, hasty>>,
           \A q \in StatsRequests' : q \in StatsRequests /\ request'[q] = request[q],
           \A q \in Requests : Loads(q)' => Loads(q) /\ request'[q] = request[q]
    PROVE  LabelInv'
  <1>1. SUFFICES ASSUME ~hasty
                 PROVE  LabelInv'
    BY DEF LabelInv
  <1>2. \A q \in StatsRequests' : request'[q].stage \in {"handling", "answered"} =>
           (request'[q].action = "Record Stats" <=> isCollectingStats')
    BY <1>1 DEF LabelInv
  <1>3. \A p \in Pages : OnlyOpen(p)' /\ page'[p] = "loaded" /\ stats'[p] # "Wait.." =>
           (stats'[p] = "Stop Stats Recording" <=> isCollectingStats')
    BY <1>1 DEF LabelInv, OnlyOpen
  <1>4. ASSUME NEW q \in Requests, Loads(q)', Answered(q)', OnlyOpen(request[q].page)'
        PROVE  request'[q].statsButtonText = "Stop Stats Recording" <=> isCollectingStats'
    <2>1. Loads(q) /\ request'[q] = request[q]
      BY <1>4
    <2>2. Answered(q) /\ OnlyOpen(request[q].page)
      BY <1>4, <2>1 DEF Answered, OnlyOpen
    <2> QED
      BY <1>1, <2>1, <2>2 DEF LabelInv
  <1> QED
    BY <1>2, <1>3, <1>4 DEF LabelInv

LEMMA HandleActionsKeeps ==
    ASSUME ConsoleInv, NEW r \in Requests, HandleActions(r)
    PROVE  ConsoleInv'
  <1>1. PICK pauseText \in PauseLabel : pauseText = IF isPaused THEN "Pause" ELSE "Resume"
    BY DEF PauseLabel
  <1>2. PICK statsText \in Recordings :
           statsText = IF isCollectingStats THEN "Stop Stats Recording" ELSE "Record Stats"
    BY DEF Recordings
  <1>3. PICK new : new = [stage |-> "answered", page |-> request[r].page, action |-> "actions",
                          pauseResumeButtonText |-> pauseText, statsButtonText |-> statsText]
    OBVIOUS
  <1>4. /\ request[r].stage = "sent" /\ request[r].action = "actions"
        /\ request' = [request EXCEPT ![r] = new]
        /\ UNCHANGED recorderVars
        /\ UNCHANGED <<isPaused, pauseResume, stats, page, clicks, hasty, restless, lastShown>>
    BY <1>1, <1>2, <1>3 DEF HandleActions, Arrived, pageVars, historyVars
  <1>5. UnderWay(r) /\ request[r].page \in Pages
    BY <1>4, RequestFacts DEF ConsoleInv, UnderWay
  <1>6. /\ new \in Labelled /\ new.stage = "answered" /\ new.page = request[r].page
        /\ new.action = "actions" /\ new.statsButtonText = statsText
    BY <1>3, <1>5 DEF Labelled
  <1>7. OthersSame(r) /\ request'[r] = new
    BY <1>4 DEF OthersSame, ConsoleInv, PageTypes
  <1>8. Becomes(r, "answered")
    BY <1>4, <1>6, <1>7 DEF Becomes
  <1>9. \A q \in Requests : RequestOK(q)'
    <2>1. RequestOK(r)'
      BY <1>6, <1>7 DEF RequestOK
    <2> QED
      BY <1>7, <2>1, OthersOK DEF ConsoleInv
  <1>10. PageTypes'
    BY <1>4, <1>7, <1>9 DEF ConsoleInv, PageTypes, OthersSame
  <1>11. RecorderTypes' /\ CountInv' /\ PlaceInv' /\ RecorderInv'
    BY <1>4, <1>6, <1>7, Undisturbed
  <1>12. LoadInv' /\ WaitInv'
    BY <1>4, <1>5, <1>8, BecomesKeeps
  <1>13. /\ \A q \in Requests \ {r} : request'[q] = request[q]
         /\ \A q \in Requests : request'[q].page = request[q].page /\ request'[q].action = request[q].action
         /\ \A q \in Requests : Loads(q)' <=> Loads(q)
         /\ StatsRequests' = StatsRequests /\ Pausing' = Pausing
         /\ r \notin StatsRequests /\ r \notin Pausing
    BY <1>4, <1>5, <1>8, BecomesFacts, Kinds DEF StatsRequests, Pausing
  <1>14. LabelInv'
    <2>1. UNCHANGED isCollectingStats
      BY <1>4 DEF recorderVars
    <2>2. statsText = "Stop Stats Recording" <=> isCollectingStats
      BY <1>2
    <2>3. ASSUME ~hasty', NEW q \in Requests, Loads(q)', Answered(q)', OnlyOpen(request[q].page)'
          PROVE  request'[q].statsButtonText = "Stop Stats Recording" <=> isCollectingStats'
      <3>1. CASE q = r
        BY <1>6, <1>7, <2>1, <2>2, <3>1
      <3>2. CASE q # r
        <4>1. Loads(q) /\ request'[q] = request[q] /\ UNCHANGED <<page, hasty>>
          BY <1>4, <1>13, <2>3, <3>2
        <4>2. Answered(q) /\ OnlyOpen(request[q].page) /\ ~hasty
          BY <2>3, <4>1 DEF Answered, OnlyOpen
        <4>3. LabelInv
          BY DEF ConsoleInv
        <4> QED
          BY <2>1, <4>1, <4>2, <4>3 DEF LabelInv
      <3> QED
        BY <3>1, <3>2
    <2>4. \A q \in StatsRequests' : q \in StatsRequests /\ request'[q] = request[q]
      BY <1>13 DEF StatsRequests
    <2>5. LabelInv
      BY DEF ConsoleInv
    <2> QED
      BY <1>4, <2>1, <2>3, <2>4, <2>5 DEF LabelInv, OnlyOpen
  <1>15. PauseInv'
    <2>1. \A q \in Pausing' : q \in Pausing /\ request'[q] = request[q]
      BY <1>13 DEF Pausing
    <2>2. PauseInv
      BY DEF ConsoleInv
    <2> QED
      BY <1>4, <1>13, <2>1, <2>2 DEF PauseInv, Answered
  <1> QED
    BY <1>10, <1>11, <1>12, <1>14, <1>15 DEF ConsoleInv

LEMMA HandlePauseResumeKeeps ==
    ASSUME ConsoleInv, NEW r \in Requests, HandlePauseResume(r)
    PROVE  ConsoleInv'
  <1>1. /\ request[r].stage = "sent" /\ request[r].action \in PauseLabel
        /\ isPaused' = (request[r].action = "Pause")
        /\ request' = [request EXCEPT ![r].stage = "answered"]
        /\ UNCHANGED recorderVars
        /\ UNCHANGED <<pauseResume, stats, page, clicks, hasty, restless, lastShown>>
    BY DEF HandlePauseResume, Arrived, pageVars, historyVars
  <1>2. UnderWay(r)
    BY <1>1 DEF UnderWay
  <1>3. Becomes(r, "answered") /\ \A q \in Requests : RequestOK(q)'
    <2>1. request[r].action # "actions" /\ "answered" \in Stage \ {"none"}
      BY <1>1, Kinds DEF Stage
    <2> QED
      BY <1>1, <2>1, StageChanges DEF ConsoleInv
  <1>4. isPaused' \in BOOLEAN
    BY <1>1
  <1>5. PageTypes'
    BY <1>1, <1>3, <1>4 DEF ConsoleInv, PageTypes, Becomes, OthersSame
  <1>6. RecorderTypes' /\ CountInv' /\ PlaceInv' /\ RecorderInv'
    BY <1>1, <1>3, Undisturbed DEF Becomes
  <1>7. LoadInv' /\ WaitInv'
    BY <1>1, <1>2, <1>3, BecomesKeeps
  <1>8. /\ \A q \in Requests \ {r} : request'[q] = request[q]
        /\ \A q \in Requests : request'[q].page = request[q].page /\ request'[q].action = request[q].action
        /\ \A q \in Requests : Loads(q)' <=> Loads(q)
        /\ StatsRequests' = StatsRequests /\ Pausing' = Pausing
        /\ r \notin StatsRequests /\ r \in Pausing /\ ~Loads(r)
    BY <1>1, <1>2, <1>3, BecomesFacts, Kinds DEF StatsRequests, Pausing, Loads
  <1>9. LabelInv'
    <2>1. UNCHANGED isCollectingStats
      BY <1>1 DEF recorderVars
    <2>2. \A q \in StatsRequests' : q \in StatsRequests /\ request'[q] = request[q]
      BY <1>8 DEF StatsRequests
    <2>3. \A q \in Requests : Loads(q)' => Loads(q) /\ request'[q] = request[q]
      BY <1>8
    <2>4. LabelInv
      BY DEF ConsoleInv
    <2> QED
      BY <1>1, <2>1, <2>2, <2>3, <2>4, LabelStays
  <1>10. PauseInv'
    <2>1. \A q \in Pausing : q \in Requests
      BY DEF Pausing
    <2>2. ASSUME ~restless
          PROVE  \A q \in Pausing : q = r
      BY <1>8, <2>2 DEF ConsoleInv, PauseInv
    <2>3. isPaused' <=> request'[r].action = "Pause"
      BY <1>1, <1>8
    <2>4. ASSUME ~restless'
          PROVE  /\ \A q \in Pausing' : page'[request'[q].page] = "loaded" /\ q = r
                 /\ Pausing' # {}
      <3>1. ~restless /\ PauseInv
        BY <1>1, <2>4 DEF ConsoleInv
      <3> QED
        BY <1>1, <1>8, <2>1, <2>2, <3>1 DEF PauseInv
    <2> QED
      BY <2>3, <2>4 DEF PauseInv
  <1> QED
    BY <1>5, <1>6, <1>7, <1>9, <1>10 DEF ConsoleInv

\* Nobody else's label is concerned by a request for the recorder.
LEMMA OthersWait ==
    ASSUME ConsoleInv, ~hasty, NEW r \in StatsRequests
    PROVE  /\ \A p \in Pages : OnlyOpen(p) => p = request[r].page
           /\ page[request[r].page] = "loaded" /\ stats[request[r].page] = "Wait.."
           /\ \A q \in Requests : Loads(q) => ~OnlyOpen(request[q].page)
  <1>1. /\ page[request[r].page] = "loaded" /\ stats[request[r].page] = "Wait.."
        /\ r \in Requests /\ UnderWay(r)
    BY DEF ConsoleInv, WaitInv, StatsRequests
  <1>2. request[r].page \in Pages
    BY <1>1, RequestFacts DEF ConsoleInv
  <1>3. \A p \in Pages : OnlyOpen(p) => p = request[r].page
    BY <1>1, <1>2 DEF OnlyOpen
  <1>4. ASSUME NEW q \in Requests, Loads(q), OnlyOpen(request[q].page)
        PROVE  FALSE
    <2>1. request[q].page \in Pages /\ page[request[q].page] = "loading"
      BY <1>4, RequestFacts DEF ConsoleInv, LoadInv, Loads
    <2> QED
      BY <1>1, <1>3, <1>4, <2>1
  <1> QED
    BY <1>1, <1>3, <1>4

\* The label of a request that is handled, and of one that is answered.
LEMMA StageLabels ==
    ASSUME ConsoleInv, NEW r \in StatsRequests, NEW stage, Becomes(r, stage), UnderWay(r), stage # "none",
           UNCHANGED <<page, stats, hasty>>,
           ~hasty => (request[r].action = "Record Stats" <=> isCollectingStats')
    PROVE  LabelInv'
  <1>1. SUFFICES ASSUME ~hasty'
                 PROVE  LabelInv'
    BY DEF LabelInv
  <1>2. r \in Requests
    BY DEF StatsRequests
  <1>3. /\ \A q \in Requests : request'[q].page = request[q].page /\ request'[q].action = request[q].action
        /\ \A q \in Requests : Loads(q)' <=> Loads(q)
        /\ StatsRequests' = StatsRequests
    BY <1>2, BecomesFacts
  <1>4. \A q \in StatsRequests : q = r
    BY <1>1 DEF ConsoleInv, WaitInv
  <1>5. /\ \A p \in Pages : OnlyOpen(p) => p = request[r].page
        /\ stats[request[r].page] = "Wait.."
        /\ \A q \in Requests : Loads(q) => ~OnlyOpen(request[q].page)
    BY <1>1, OthersWait
  <1>6. \A q \in StatsRequests' : request'[q].action = "Record Stats" <=> isCollectingStats'
    BY <1>1, <1>2, <1>3, <1>4
  <1>7. \A p \in Pages : OnlyOpen(p)' => stats'[p] = "Wait.."
    BY <1>5 DEF OnlyOpen
  <1>8. \A q \in Requests : Loads(q)' => ~OnlyOpen(request[q].page)'
    BY <1>3, <1>5 DEF OnlyOpen
  <1> QED
    BY <1>6, <1>7, <1>8 DEF LabelInv

LEMMA HandleStatsKeeps ==
    ASSUME ConsoleInv, NEW r \in Requests, HandleStats(r)
    PROVE  ConsoleInv'
  <1>1. /\ request[r].stage = "sent" /\ request[r].action \in Recordings
        /\ request' = [request EXCEPT ![r].stage = "handling"]
        /\ UNCHANGED <<isPaused, pauseResume, stats, page, clicks, hasty, restless, lastShown>>
    BY DEF HandleStats, Arrived, Recordings, pageVars, historyVars
  <1>2. request[r].action = "Record Stats" <=> isCollectingStats'
    BY DEF HandleStats, Arrived, Recorder!RecordStats, Recorder!StopStatsRecording
  <1>3. UnderWay(r) /\ r \in StatsRequests /\ r \notin Pausing
    BY <1>1, Kinds DEF UnderWay, StatsRequests, Pausing
  <1>4. Becomes(r, "handling") /\ \A q \in Requests : RequestOK(q)'
    BY <1>1, StageChanges DEF ConsoleInv, Stage
  <1>5. PageTypes'
    BY <1>1, <1>4 DEF ConsoleInv, PageTypes, Becomes, OthersSame
  <1>6. RecorderTypes' /\ CountInv' /\ PlaceInv' /\ RecorderInv'
    BY ArrivalRecorder
  <1>7. LoadInv' /\ WaitInv'
    BY <1>1, <1>3, <1>4, BecomesKeeps
  <1>8. LabelInv'
    BY <1>1, <1>2, <1>3, <1>4, StageLabels
  <1>9. PauseInv'
    <2>1. Pausing' = Pausing /\ \A q \in Pausing : request'[q] = request[q]
      BY <1>3, <1>4, BecomesFacts DEF Pausing
    <2>2. PauseInv
      BY DEF ConsoleInv
    <2> QED
      BY <1>1, <2>1, <2>2 DEF PauseInv, Answered
  <1> QED
    BY <1>5, <1>6, <1>7, <1>8, <1>9 DEF ConsoleInv

LEMMA HandleStatsStepKeeps ==
    ASSUME ConsoleInv, NEW r \in Requests, HandleStatsStep(r)
    PROVE  ConsoleInv'
  <1>1. PICK stage \in {"handling", "answered", "dropped"} : Becomes(r, stage)
    BY WorkEffect
  <1>2. /\ request[r].stage = "handling" /\ request[r].action \in Recordings
        /\ \A q \in Requests : RequestOK(q)'
    BY WorkEffect
  <1>3. UNCHANGED <<isPaused, pauseResume, stats, page, clicks, hasty, restless, lastShown>>
    BY DEF HandleStatsStep, pageVars, historyVars
  <1>4. UnderWay(r) /\ r \in StatsRequests /\ r \notin Pausing /\ stage # "none"
    BY <1>1, <1>2, Kinds DEF UnderWay, StatsRequests, Pausing
  <1>5. PageTypes'
    BY <1>1, <1>2, <1>3 DEF ConsoleInv, PageTypes, Becomes, OthersSame
  <1>6. RecorderTypes' /\ CountInv' /\ PlaceInv' /\ RecorderInv'
    BY WorkRecorder
  <1>7. LoadInv' /\ WaitInv'
    BY <1>1, <1>3, <1>4, BecomesKeeps
  <1>8. LabelInv'
    <2>1. UNCHANGED isCollectingStats
      BY HandlerPlaces DEF HandleStatsStep, ConsoleInv
    <2>2. ~hasty => (request[r].action = "Record Stats" <=> isCollectingStats')
      BY <1>2, <1>4, <2>1 DEF ConsoleInv, LabelInv
    <2> QED
      BY <1>1, <1>3, <1>4, <2>2, StageLabels
  <1>9. PauseInv'
    <2>1. Pausing' = Pausing /\ \A q \in Pausing : request'[q] = request[q]
      BY <1>1, <1>4, BecomesFacts DEF Pausing
    <2>2. PauseInv
      BY DEF ConsoleInv
    <2> QED
      BY <1>3, <2>1, <2>2 DEF PauseInv, Answered
  <1> QED
    BY <1>5, <1>6, <1>7, <1>8, <1>9 DEF ConsoleInv

LEMMA TickKeeps ==
    ASSUME ConsoleInv, NEW t \in DOMAIN tasks, Tick(t)
    PROVE  ConsoleInv'
  <1>1. RecorderTypes' /\ CountInv' /\ PlaceInv' /\ RecorderInv'
    BY TickRecorder
  <1>2. UNCHANGED isCollectingStats
    BY TickFacts DEF Tick, ConsoleInv
  <1>3. UNCHANGED <<isPaused, pauseResume, stats, page, request, clicks, hasty, restless, lastShown>>
    BY DEF Tick, pageVars, historyVars
  <1>4. PageTypes'
    BY <1>3 DEF ConsoleInv, PageTypes, RequestOK
  <1>5. LoadInv'
    BY <1>3 DEF ConsoleInv, LoadInv, Loads, UnderWay
  <1>6. StatsRequests' = StatsRequests /\ Pausing' = Pausing
    BY <1>3 DEF StatsRequests, Pausing, UnderWay
  <1>7. WaitInv' /\ PauseInv'
    BY <1>3, <1>6 DEF ConsoleInv, WaitInv, PauseInv, Answered
  <1>8. LabelInv'
    BY <1>2, <1>3, <1>6 DEF ConsoleInv, LabelInv, Loads, UnderWay, Answered, OnlyOpen
  <1> QED
    BY <1>1, <1>4, <1>5, <1>7, <1>8 DEF ConsoleInv

LEMMA FreesFacts ==
    ASSUME NEW r \in Requests, Frees(r)
    PROVE  /\ \A q \in Requests \ {r} : request'[q] = request[q]
           /\ request'[r].stage = "none" /\ ~UnderWay(r)' /\ ~Loads(r)' /\ ~Answered(r)'
           /\ \A q \in Requests : UnderWay(q)' => q # r /\ UnderWay(q)
           /\ \A q \in Requests : Loads(q)' => q # r /\ Loads(q)
           /\ StatsRequests' = StatsRequests \ {r} /\ Pausing' = Pausing \ {r}
  <1>1. /\ \A q \in Requests \ {r} : request'[q] = request[q]
        /\ request'[r].stage = "none"
    BY DEF Frees, OthersSame, NoRequest
  <1>2. ~UnderWay(r)' /\ ~Loads(r)' /\ ~Answered(r)'
    BY <1>1 DEF Loads, UnderWay, Answered
  <1>3. \A q \in Requests \ {r} : (UnderWay(q)' <=> UnderWay(q)) /\ (Loads(q)' <=> Loads(q))
    BY <1>1 DEF UnderWay, Loads
  <1> QED
    BY <1>1, <1>2, <1>3 DEF StatsRequests, Pausing

LEMMA ShowActionsKeeps ==
    ASSUME ConsoleInv, NEW r \in Requests, ShowActions(r)
    PROVE  ConsoleInv'
  <1>1. /\ Answered(r) /\ request[r].action = "actions" /\ request[r].stage = "answered"
        /\ request' = [request EXCEPT ![r] = NoRequest]
        /\ UNCHANGED recorderVars /\ UNCHANGED <<isPaused, clicks, hasty, restless, lastShown>>
    BY DEF ShowActions, Answered, historyVars
  <1>2. request[r] \in Labelled
    BY <1>1, RequestFacts DEF ConsoleInv
  <1>3. PICK p \in Pages : p = request[r].page
    BY <1>2 DEF Labelled
  <1>4. PICK statsText \in Recordings : statsText = request[r].statsButtonText
    BY <1>2 DEF Labelled
  <1>5. PICK pauseText \in PauseLabel : pauseText = request[r].pauseResumeButtonText
    BY <1>2 DEF Labelled
  <1>6. /\ pauseResume' = [pauseResume EXCEPT ![p] = pauseText]
        /\ stats' = [stats EXCEPT ![p] = statsText]
        /\ page' = [page EXCEPT ![p] = "loaded"]
    BY <1>3, <1>4, <1>5 DEF ShowActions
  <1>7. Frees(r) /\ \A q \in Requests : RequestOK(q)'
    BY <1>1, RequestFreed DEF ConsoleInv
  <1>8. /\ pauseResume' \in [Pages -> PauseLabel] /\ stats' \in [Pages -> StatsLabel]
        /\ page' \in [Pages -> {"closed", "loading", "loaded"}]
        /\ page'[p] = "loaded" /\ stats'[p] = statsText
        /\ \A q \in Pages \ {p} : /\ page'[q] = page[q] /\ stats'[q] = stats[q]
                                  /\ pauseResume'[q] = pauseResume[q]
    <2>1. /\ pauseResume \in [Pages -> PauseLabel] /\ stats \in [Pages -> StatsLabel]
          /\ page \in [Pages -> {"closed", "loading", "loaded"}] /\ statsText \in StatsLabel
      BY Kinds DEF ConsoleInv, PageTypes
    <2> QED
      BY <1>6, <2>1
  <1>9. PageTypes'
    BY <1>1, <1>7, <1>8 DEF ConsoleInv, PageTypes, Frees, OthersSame
  <1>10. RecorderTypes' /\ CountInv' /\ PlaceInv' /\ RecorderInv'
    BY <1>1, <1>7, FreesFacts, Undisturbed DEF Frees
  <1>11. Loads(r) /\ page[p] = "loading"
    BY <1>1, <1>3 DEF ConsoleInv, LoadInv, Loads, UnderWay
  <1>12. /\ \A q \in Requests \ {r} : request'[q] = request[q]
         /\ \A q \in Requests : UnderWay(q)' => q # r /\ UnderWay(q) /\ request[q].page \in Pages
         /\ \A q \in Requests : Loads(q)' => q # r /\ Loads(q) /\ request[q].page \in Pages \ {p}
         /\ StatsRequests' = StatsRequests /\ Pausing' = Pausing
         /\ r \notin StatsRequests /\ r \notin Pausing
    <2>1. r \notin StatsRequests /\ r \notin Pausing
      BY <1>1, Kinds DEF StatsRequests, Pausing
    <2>2. \A q \in Requests : UnderWay(q) => request[q].page \in Pages
      BY RequestFacts DEF ConsoleInv
    <2>3. \A q \in Requests : Loads(q) => UnderWay(q)
      BY DEF Loads
    <2>4. \A q \in Requests \ {r} : Loads(q) => request[q].page # p
      BY <1>3, <1>11 DEF ConsoleInv, LoadInv
    <2> QED
      BY <1>7, <2>1, <2>2, <2>3, <2>4, FreesFacts
  <1>13. LoadInv'
    <2>1. ASSUME NEW q \in Requests, UnderWay(q)'
          PROVE  page'[request'[q].page] # "closed"
      BY <1>8, <1>12, <2>1 DEF ConsoleInv, LoadInv
    <2>2. ASSUME NEW q \in Requests, Loads(q)'
          PROVE  page'[request'[q].page] = "loading"
      BY <1>8, <1>12, <2>2 DEF ConsoleInv, LoadInv
    <2>3. ASSUME NEW q \in Requests, NEW s \in Requests,
                 Loads(q)', Loads(s)', request'[q].page = request'[s].page
          PROVE  q = s
      BY <1>12, <2>3 DEF ConsoleInv, LoadInv
    <2> QED
      BY <2>1, <2>2, <2>3 DEF LoadInv
  <1>14. WaitInv'
    <2>1. ASSUME ~hasty, NEW q \in StatsRequests
          PROVE  /\ request'[q] = request[q] /\ request[q].page \in Pages \ {p}
                 /\ page[request[q].page] = "loaded" /\ stats[request[q].page] = "Wait.."
      <3>1. page[request[q].page] = "loaded" /\ stats[request[q].page] = "Wait.."
        BY <2>1 DEF ConsoleInv, WaitInv
      <3>2. q \in Requests /\ q # r /\ request[q].page \in Pages
        BY <1>12, RequestFacts DEF ConsoleInv, StatsRequests
      <3> QED
        BY <1>11, <1>12, <3>1, <3>2
    <2> QED
      BY <1>1, <1>8, <1>12, <2>1 DEF ConsoleInv, WaitInv
  <1>15. \A q \in Pages : OnlyOpen(q)' => OnlyOpen(q) /\ q = p
    BY <1>8, <1>11 DEF OnlyOpen
  <1>16. LabelInv'
    <2>1. UNCHANGED isCollectingStats
      BY <1>1 DEF recorderVars
    <2>2. SUFFICES ASSUME ~hasty
                   PROVE  LabelInv'
      BY <1>1 DEF LabelInv
    <2>3. \A q \in StatsRequests' : q \in StatsRequests /\ request'[q] = request[q]
      BY <1>12 DEF StatsRequests
    <2>4. ASSUME NEW q \in Pages, OnlyOpen(q)'
          PROVE  stats'[q] = "Stop Stats Recording" <=> isCollectingStats'
      <3>1. q = p /\ OnlyOpen(request[r].page)
        BY <1>3, <1>15, <2>4
      <3>2. request[r].statsButtonText = "Stop Stats Recording" <=> isCollectingStats
        BY <1>1, <1>11, <2>2, <3>1 DEF ConsoleInv, LabelInv
      <3> QED
        BY <1>4, <1>8, <2>1, <3>1, <3>2
    <2>5. ASSUME NEW q \in Requests, Loads(q)', OnlyOpen(request[q].page)'
          PROVE  FALSE
      BY <1>12, <1>15, <2>5
    <2>6. LabelInv
      BY DEF ConsoleInv
    <2>7. \A q \in StatsRequests' : request'[q].stage \in {"handling", "answered"} =>
              (request'[q].action = "Record Stats" <=> isCollectingStats')
      BY <2>1, <2>2, <2>3, <2>6 DEF LabelInv
    <2>8. \A q \in Requests : Loads(q)' => request'[q] = request[q]
      BY <1>12
    <2> QED
      BY <2>4, <2>5, <2>7, <2>8 DEF LabelInv
  <1>17. PauseInv'
    <2>1. SUFFICES ASSUME ~restless
                   PROVE  PauseInv'
      BY <1>1 DEF PauseInv
    <2>2. PauseInv
      BY DEF ConsoleInv
    <2>3. ASSUME NEW q \in Pausing
          PROVE  request'[q] = request[q] /\ page'[request[q].page] = "loaded"
      <3>1. q \in Requests \ {r} /\ page[request[q].page] = "loaded" /\ request[q].page \in Pages
        BY <1>12, <2>1, <2>2, RequestFacts DEF PauseInv, Pausing, ConsoleInv
      <3> QED
        BY <1>8, <1>11, <1>12, <3>1
    <2>4. Pausing = {} => \A q \in lastShown : q \in Pages \ {p} /\ page[q] = "loaded"
      <3>1. Pausing = {} => \A q \in lastShown : q \in Pages /\ page[q] = "loaded"
        BY <2>1, <2>2 DEF PauseInv, ConsoleInv, PageTypes
      <3> QED
        BY <1>11, <3>1
    <2> QED
      BY <1>1, <1>8, <1>12, <2>1, <2>2, <2>3, <2>4 DEF PauseInv, Answered
  <1> QED
    BY <1>9, <1>10, <1>13, <1>14, <1>16, <1>17 DEF ConsoleInv

\* The answer to a click frees its request and changes one label.
LEMMA ShownLoads ==
    ASSUME ConsoleInv, NEW r \in Requests, Frees(r), UNCHANGED page
    PROVE  LoadInv'
  <1>1. /\ \A q \in Requests \ {r} : request'[q] = request[q]
        /\ \A q \in Requests : UnderWay(q)' => q # r /\ UnderWay(q)
        /\ \A q \in Requests : Loads(q)' => q # r /\ Loads(q)
    BY FreesFacts
  <1>2. LoadInv
    BY DEF ConsoleInv
  <1> QED
    BY <1>1, <1>2 DEF LoadInv

LEMMA ShowPauseResumeKeeps ==
    ASSUME ConsoleInv, NEW r \in Requests, ShowPauseResume(r)
    PROVE  ConsoleInv'
  <1>1. /\ Answered(r) /\ request[r].action \in PauseLabel /\ request[r].stage = "answered"
        /\ request' = [request EXCEPT ![r] = NoRequest] /\ lastShown' = {request[r].page}
        /\ UNCHANGED recorderVars /\ UNCHANGED <<isPaused, stats, page, clicks, hasty, restless>>
    BY DEF ShowPauseResume, Answered
  <1>2. r \in Pausing /\ r \notin StatsRequests /\ UnderWay(r)
    BY <1>1, Kinds DEF Pausing, StatsRequests, UnderWay
  <1>3. PICK p \in Pages : p = request[r].page
    BY <1>2, RequestFacts DEF ConsoleInv
  <1>4. PICK label \in PauseLabel : label = IF request[r].action = "Pause" THEN "Resume" ELSE "Pause"
    BY DEF PauseLabel
  <1>5. pauseResume' = [pauseResume EXCEPT ![p] = label]
    BY <1>3, <1>4 DEF ShowPauseResume
  <1>6. pauseResume' \in [Pages -> PauseLabel] /\ pauseResume'[p] = label
    BY <1>5 DEF ConsoleInv, PageTypes
  <1>7. Frees(r) /\ \A q \in Requests : RequestOK(q)'
    BY <1>1, RequestFreed DEF ConsoleInv
  <1>8. PageTypes'
    BY <1>1, <1>3, <1>6, <1>7 DEF ConsoleInv, PageTypes, Frees, OthersSame
  <1>9. RecorderTypes' /\ CountInv' /\ PlaceInv' /\ RecorderInv'
    BY <1>1, <1>7, FreesFacts, Undisturbed DEF Frees
  <1>10. LoadInv'
    BY <1>1, <1>7, ShownLoads
  <1>11. /\ \A q \in Requests \ {r} : request'[q] = request[q]
         /\ \A q \in Requests : Loads(q)' => q # r /\ Loads(q)
         /\ StatsRequests' = StatsRequests /\ Pausing' = Pausing \ {r}
    BY <1>2, <1>7, FreesFacts
  <1>12. \A q \in StatsRequests' : q \in StatsRequests /\ request'[q] = request[q]
    BY <1>2, <1>11 DEF StatsRequests
  <1>13. WaitInv'
    BY <1>1, <1>11, <1>12 DEF ConsoleInv, WaitInv
  <1>14. LabelInv'
    <2>1. UNCHANGED isCollectingStats
      BY <1>1 DEF recorderVars
    <2>2. LabelInv
      BY DEF ConsoleInv
    <2> QED
      BY <1>1, <1>11, <1>12, <2>1, <2>2, LabelStays
  <1>15. PauseInv'
    <2>1. SUFFICES ASSUME ~restless
                   PROVE  PauseInv'
      BY <1>1 DEF PauseInv
    <2>2. /\ Pausing = {r} /\ page[p] = "loaded"
          /\ isPaused <=> request[r].action = "Pause"
      BY <1>1, <1>2, <1>3, <2>1 DEF ConsoleInv, PauseInv
    <2>3. Pausing' = {}
      BY <1>11, <2>2
    <2>4. pauseResume'[p] = IF isPaused' THEN "Resume" ELSE "Pause"
      BY <1>1, <1>4, <1>6, <2>2
    <2>5. lastShown' = {p} /\ page'[p] = "loaded"
      BY <1>1, <1>3, <2>2
    <2> QED
      BY <2>3, <2>4, <2>5 DEF PauseInv
  <1> QED
    BY <1>8, <1>9, <1>10, <1>13, <1>14, <1>15 DEF ConsoleInv

LEMMA ShowStatsKeeps ==
    ASSUME ConsoleInv, NEW r \in Requests, ShowStats(r)
    PROVE  ConsoleInv'
  <1>1. /\ Answered(r) /\ request[r].action \in StatsLabel /\ request[r].stage = "answered"
        /\ request' = [request EXCEPT ![r] = NoRequest]
        /\ UNCHANGED recorderVars
        /\ UNCHANGED <<isPaused, pauseResume, page, clicks, hasty, restless, lastShown>>
    BY DEF ShowStats, Answered, historyVars
  <1>2. UnderWay(r)
    BY <1>1 DEF UnderWay
  <1>3. request[r].action \in Recordings
    <2>1. request[r].action \in Action
      BY <1>2, RequestFacts DEF ConsoleInv
    <2>2. "Wait.." \notin Action
      BY DEF Action, PauseLabel, StatsLabel
    <2> QED
      BY <1>1, <2>1, <2>2, Kinds
  <1>4. r \in StatsRequests /\ r \notin Pausing
    BY <1>2, <1>3, Kinds DEF StatsRequests, Pausing
  <1>5. PICK p \in Pages : p = request[r].page
    BY <1>2, RequestFacts DEF ConsoleInv
  <1>6. PICK label \in Recordings :
           label = IF request[r].action = "Record Stats" THEN "Stop Stats Recording" ELSE "Record Stats"
    BY DEF Recordings
  <1>7. stats' = [stats EXCEPT ![p] = label]
    BY <1>5, <1>6 DEF ShowStats
  <1>8. stats' \in [Pages -> StatsLabel] /\ stats'[p] = label
    <2>1. stats \in [Pages -> StatsLabel] /\ label \in StatsLabel
      BY Kinds DEF ConsoleInv, PageTypes
    <2> QED
      BY <1>7, <2>1
  <1>9. Frees(r) /\ \A q \in Requests : RequestOK(q)'
    BY <1>1, RequestFreed DEF ConsoleInv
  <1>10. PageTypes'
    BY <1>1, <1>8, <1>9 DEF ConsoleInv, PageTypes, Frees, OthersSame
  <1>11. RecorderTypes' /\ CountInv' /\ PlaceInv' /\ RecorderInv'
    BY <1>1, <1>9, FreesFacts, Undisturbed DEF Frees
  <1>12. LoadInv'
    BY <1>1, <1>9, ShownLoads
  <1>13. /\ \A q \in Requests \ {r} : request'[q] = request[q]
         /\ \A q \in Requests : Loads(q)' => q # r /\ Loads(q)
         /\ StatsRequests' = StatsRequests \ {r} /\ Pausing' = Pausing
    BY <1>4, <1>9, FreesFacts
  <1>14. ASSUME ~hasty
         PROVE  StatsRequests' = {}
    BY <1>4, <1>13, <1>14 DEF ConsoleInv, WaitInv
  <1>15. WaitInv'
    BY <1>1, <1>14 DEF WaitInv
  <1>16. LabelInv'
    <2>1. SUFFICES ASSUME ~hasty
                   PROVE  LabelInv'
      BY <1>1 DEF LabelInv
    <2>2. UNCHANGED isCollectingStats
      BY <1>1 DEF recorderVars
    <2>3. request[r].action = "Record Stats" <=> isCollectingStats
      BY <1>1, <1>4, <2>1 DEF ConsoleInv, LabelInv
    <2>4. label = "Stop Stats Recording" <=> isCollectingStats
      BY <1>6, <2>3
    <2>5. /\ \A q \in Pages : OnlyOpen(q)' => q = p
          /\ \A q \in Requests : Loads(q) => ~OnlyOpen(request[q].page)
      BY <1>1, <1>4, <1>5, <2>1, OthersWait DEF OnlyOpen
    <2>6. \A q \in Requests : Loads(q)' => ~OnlyOpen(request[q].page)'
      BY <1>1, <1>13, <2>5 DEF OnlyOpen
    <2> QED
      BY <1>8, <1>14, <2>1, <2>2, <2>4, <2>5, <2>6 DEF LabelInv
  <1>17. PauseInv'
    <2>1. \A q \in Pausing : request'[q] = request[q]
      BY <1>4, <1>13 DEF Pausing
    <2>2. PauseInv
      BY DEF ConsoleInv
    <2> QED
      BY <1>1, <1>13, <2>1, <2>2 DEF PauseInv, Answered
  <1> QED
    BY <1>10, <1>11, <1>12, <1>15, <1>16, <1>17 DEF ConsoleInv

-----------------------------------------------------------------------------
(* The invariant, and what follows from it. *)

LEMMA InitInv == Init => ConsoleInv
  <1> SUFFICES ASSUME Init
               PROVE  ConsoleInv
    OBVIOUS
  <1>1. /\ isCollectingStats = FALSE /\ singleThreadExecutor = 0 /\ fos = 0 /\ shut = <<>>
        /\ tasks = <<>> /\ files = <<>> /\ at = [h \in Requests |-> "idle"]
        /\ requests = 0 /\ unanswered = 0 /\ openFailed = FALSE
    BY DEF Init, Recorder!Init
  <1>2. \A r \in Requests : request[r] = NoRequest /\ request[r].stage = "none" /\ ~UnderWay(r) /\ at[r] = "idle"
    BY <1>1 DEF Init, NoRequest, UnderWay
  <1>3. PageTypes
    <2>1. \A r \in Requests : RequestOK(r)
      BY <1>2 DEF RequestOK
    <2>2. clicks \in 0 .. MaxClicks
      <3>1. clicks = 0
        BY DEF Init
      <3> QED
        BY <3>1, ConsoleAssumption
    <2> QED
      BY <2>1, <2>2 DEF Init, PageTypes, PauseLabel, StatsLabel
  <1>4. shut \in Seq(BOOLEAN) /\ tasks \in Seq(TaskType) /\ files \in Seq(FileType) /\ Len(shut) = 0 /\ Len(files) = 0
    BY <1>1, EmptySeq
  <1>5. RecorderTypes
    <2>1. singleThreadExecutor \in 0 .. Len(shut) /\ fos \in 0 .. Len(files)
      BY <1>1, <1>4
    <2> QED
      BY <1>1, <1>4, <2>1 DEF RecorderTypes, Recorder!HandlerState
  <1>6. CountInv
    <2>1. Active = {}
      BY <1>2 DEF Active
    <2>2. IsFiniteSet(Active) /\ Cardinality(Active) = 0
      BY <2>1, FS_EmptySet
    <2> QED
      BY <1>1, <2>2, ConsoleAssumption DEF CountInv
  <1>7. PlaceInv
    BY <1>2 DEF PlaceInv, Starting, Stopping
  <1>8. RecorderInv
    <2>1. Place = "idle"
      BY <1>2 DEF Place
    <2>2. DOMAIN shut = {} /\ DOMAIN tasks = {} /\ DOMAIN files = {}
      BY <1>1
    <2> QED
      BY <1>1, <2>1, <2>2 DEF RecorderInv, RecorderAt, NoFileOpen, HasFile,
         Starting, Stopping, ShuttingDown
  <1>9. StatsRequests = {} /\ Pausing = {} /\ \A r \in Requests : ~Loads(r)
    BY <1>2 DEF StatsRequests, Pausing, Loads
  <1>10. LoadInv
    BY <1>2, <1>9 DEF LoadInv
  <1>11. WaitInv
    BY <1>9 DEF WaitInv
  <1>12. LabelInv
    <2>1. \A p \in Pages : page[p] # "loaded"
      BY DEF Init
    <2> QED
      BY <1>9, <2>1 DEF LabelInv
  <1>13. PauseInv
    BY <1>9 DEF PauseInv, Init
  <1> QED
    BY <1>3, <1>5, <1>6, <1>7, <1>8, <1>10, <1>11, <1>12, <1>13 DEF ConsoleInv

LEMMA NextInv == ConsoleInv /\ [Next]_vars => ConsoleInv'
  <1> SUFFICES ASSUME ConsoleInv, [Next]_vars
               PROVE  ConsoleInv'
    OBVIOUS
  <1>1. ASSUME NEW r \in Requests, HandleStep(r)
        PROVE  ConsoleInv'
    BY <1>1, HandleActionsKeeps, HandlePauseResumeKeeps, HandleStatsKeeps, HandleStatsStepKeeps
       DEF HandleStep
  <1>2. ASSUME NEW r \in Requests, ShowStep(r)
        PROVE  ConsoleInv'
    BY <1>2, ShowActionsKeeps, ShowPauseResumeKeeps, ShowStatsKeeps DEF ShowStep
  <1>3. ASSUME NEW p \in Pages, OpenPage(p) \/ ClickPauseResume(p) \/ ClickStats(p)
        PROVE  ConsoleInv'
    BY <1>3, OpenPageKeeps, ClickPauseResumeKeeps, ClickStatsKeeps
  <1>4. ASSUME NEW t \in DOMAIN tasks, Tick(t)
        PROVE  ConsoleInv'
    BY <1>4, TickKeeps
  <1>5. CASE UNCHANGED vars
    <2>1. /\ UNCHANGED <<isCollectingStats, singleThreadExecutor, fos, shut, tasks, files, at,
                         requests, unanswered, openFailed>>
          /\ UNCHANGED <<isPaused, pauseResume, stats, page, request, clicks, hasty, restless, lastShown>>
      BY <1>5 DEF vars, recorderVars, pageVars, historyVars
    <2>2. PageTypes'
      BY <2>1 DEF ConsoleInv, PageTypes, RequestOK
    <2>3. RecorderTypes' /\ CountInv' /\ PlaceInv'
      BY <2>1 DEF ConsoleInv, RecorderTypes, FileType, TaskType, CountInv, Active, PlaceInv, Starting, Stopping
    <2>4. Place' = Place
      BY <2>1 DEF Place
    <2>5. RecorderInv'
      BY <2>1, <2>4 DEF ConsoleInv, RecorderInv, RecorderAt, HasFile, NoFileOpen
    <2>6. StatsRequests' = StatsRequests /\ Pausing' = Pausing
      BY <2>1 DEF StatsRequests, Pausing, UnderWay
    <2>7. LoadInv' /\ WaitInv' /\ PauseInv'
      BY <2>1, <2>6 DEF ConsoleInv, LoadInv, Loads, UnderWay, WaitInv, PauseInv, Answered
    <2>8. LabelInv'
      BY <2>1, <2>6 DEF ConsoleInv, LabelInv, Loads, UnderWay, Answered, OnlyOpen
    <2> QED
      BY <2>2, <2>3, <2>5, <2>7, <2>8 DEF ConsoleInv
  <1> QED
    BY <1>1, <1>2, <1>3, <1>4, <1>5 DEF Next

LEMMA SpecInv == Spec => []ConsoleInv
  BY InitInv, NextInv, PTL DEF Spec

LEMMA InvTypes == ConsoleInv => ConsoleTypeOK
  <1> SUFFICES ASSUME ConsoleInv
               PROVE  ConsoleTypeOK
    OBVIOUS
  <1>1. unanswered \in 0 .. requests /\ requests \in 0 .. MaxClicks
    <2>1. Cardinality(Active) \in Nat
      BY FS_CardinalityType DEF ConsoleInv, CountInv
    <2> QED
      BY <2>1, ConsoleAssumption DEF ConsoleInv, CountInv
  <1>2. Recorder!RecorderTypeOK
    BY <1>1 DEF ConsoleInv, RecorderTypes, Recorder!RecorderTypeOK, FileType, TaskType
  <1>3. \A r \in Requests : /\ request[r].stage \in Stage
                            /\ UnderWay(r) => /\ request[r].page \in Pages
                                              /\ request[r].action \in Action
    BY RequestFacts DEF ConsoleInv
  <1> QED
    BY <1>2, <1>3 DEF ConsoleInv, PageTypes, ConsoleTypeOK

\* When nobody asks anything of the recorder, it is at rest.
LEMMA Unasked ==
    ASSUME ConsoleInv, StatsRequests = {}
    PROVE  Place = "idle"
  <1>1. ASSUME NEW r \in Requests, at[r] # "idle"
        PROVE  r \in StatsRequests
    <2>1. request[r].stage = "handling"
      BY <1>1 DEF ConsoleInv, PlaceInv
    <2> QED
      BY <2>1, RequestFacts DEF ConsoleInv, StatsRequests, UnderWay
  <1> QED
    BY <1>1 DEF Place

LEMMA InvSerializes == ConsoleInv => WaitSerializes
  <1> SUFFICES ASSUME ConsoleInv, ~hasty
               PROVE  OneRecording /\ Recorder!AllAnswered /\ Recorder!StoryFits
    BY DEF WaitSerializes
  <1>1. RecorderAt(Place)
    BY DEF ConsoleInv, RecorderInv
  <1>2. OneRecording
    <2>1. ASSUME NEW s \in DOMAIN tasks, NEW t \in DOMAIN tasks, Recorder!Live(s), Recorder!Live(t)
          PROVE  s = t
      <3>1. tasks[s].on \in DOMAIN shut /\ tasks[t].on \in DOMAIN shut
        BY RecorderElements DEF TaskType, ConsoleInv
      <3>2. ~shut[tasks[s].on] /\ ~shut[tasks[t].on]
        BY <2>1 DEF Recorder!Live
      <3>3. tasks[s].on = singleThreadExecutor /\ tasks[t].on = singleThreadExecutor
        BY <1>1, <3>1, <3>2 DEF RecorderAt
      <3> QED
        BY <1>1, <3>3 DEF RecorderAt
    <2> QED
      BY <2>1 DEF OneRecording, Recorder!OneRecording
  <1>3. Recorder!AllAnswered
    BY <1>1 DEF RecorderAt, Recorder!AllAnswered
  <1>4. Recorder!StoryFits
    <2>1. SUFFICES ASSUME Recorder!AtRest
                   PROVE  /\ isCollectingStats <=> ~Recorder!isNull
                          /\ \A x \in DOMAIN shut : ~shut[x] => x = singleThreadExecutor
                          /\ \A f \in DOMAIN files : files[f].open => f = fos /\ ~Recorder!isNull
      BY DEF Recorder!StoryFits
    <2>2. Place = "idle"
      BY <2>1 DEF Place, Recorder!AtRest
    <2> QED
      BY <1>1, <2>2 DEF RecorderAt, Recorder!isNull, NoFileOpen
  <1> QED
    BY <1>2, <1>3, <1>4

LEMMA InvButtonFits == ConsoleInv => StatsButtonFits
  <1> SUFFICES ASSUME ConsoleInv, NEW p \in Pages, ~hasty, page[p] = "loaded",
                      stats[p] # "Wait..", \A q \in Pages \ {p} : page[q] = "closed"
               PROVE  stats[p] = "Stop Stats Recording" <=> singleThreadExecutor # 0
    BY DEF StatsButtonFits
  <1>1. OnlyOpen(p)
    BY DEF OnlyOpen
  <1>2. stats[p] = "Stop Stats Recording" <=> isCollectingStats
    BY <1>1 DEF ConsoleInv, LabelInv
  <1>3. StatsRequests = {}
    BY <1>1, OthersWait
  <1>4. Place = "idle"
    BY <1>3, Unasked
  <1>5. isCollectingStats <=> singleThreadExecutor # 0
    BY <1>4 DEF ConsoleInv, RecorderInv, RecorderAt
  <1> QED
    BY <1>2, <1>5

LEMMA InvRecovers == ConsoleInv => PauseButtonRecovers
  BY DEF ConsoleInv, PauseInv, PauseButtonRecovers

-----------------------------------------------------------------------------
(* What a button that waits is waiting for. *)

\* The request that the label Wait.. stands for stays under way until its answer, or
\* one that came before it, gives the button another label.
Awaited ==
    \A p \in Pages : stats[p] = "Wait.." => \E r \in StatsRequests : request[r].page = p

\* A request for which no answer will come is among those that are counted.
DroppedInv == (\E r \in Requests : request[r].stage = "dropped") => unanswered > 0

LEMMA ClickIsAwaited ==
    ASSUME ConsoleInv, Awaited, NEW p \in Pages, ClickStats(p)
    PROVE  Awaited'
  <1>1. stats[p] # "Wait.." /\ Send(p, stats[p]) /\ stats' = [stats EXCEPT ![p] = "Wait.."]
    BY DEF ClickStats
  <1>2. PICK action \in Recordings : action = stats[p]
    BY <1>1, Kinds DEF ConsoleInv, PageTypes
  <1>3. PICK r \in Requests : Sends(r, p, action)
    BY <1>1, <1>2, RequestSent, Kinds DEF ConsoleInv
  <1>4. /\ \A q \in Requests \ {r} : request'[q] = request[q]
        /\ ~UnderWay(r) /\ request'[r].stage = "sent" /\ request'[r].page = p
        /\ request'[r].action = action
    BY <1>3, SentFacts
  <1>5. r \in StatsRequests' /\ \A q \in StatsRequests : q \in StatsRequests' /\ request'[q] = request[q]
    BY <1>4 DEF StatsRequests, UnderWay
  <1>6. \A q \in Pages \ {p} : stats'[q] = stats[q]
    BY <1>1 DEF ConsoleInv, PageTypes
  <1> QED
    BY <1>4, <1>5, <1>6 DEF Awaited

\* An answer that is shown takes the label away from the page that waited for it.
LEMMA ShownIsAwaited ==
    ASSUME ConsoleInv, Awaited, NEW r \in Requests, ShowStep(r)
    PROVE  Awaited'
  <1>1. Answered(r) /\ request' = [request EXCEPT ![r] = NoRequest]
    BY DEF ShowStep, ShowActions, ShowPauseResume, ShowStats
  <1>2. Frees(r)
    BY <1>1, RequestFreed DEF ConsoleInv
  <1>3. /\ \A q \in Requests \ {r} : request'[q] = request[q]
        /\ StatsRequests' = StatsRequests \ {r}
    BY <1>2, FreesFacts
  <1>4. UnderWay(r) /\ request[r].action \in Action
    BY <1>1, RequestFacts DEF Answered, UnderWay, ConsoleInv
  <1>5. PICK p \in Pages : p = request[r].page
    BY <1>4, RequestFacts DEF ConsoleInv
  <1>6. PICK new : /\ stats' = [stats EXCEPT ![p] = new]
                   /\ r \in StatsRequests => new # "Wait.."
                   /\ new = "Wait.." => stats[p] = "Wait.."
    <2>1. CASE ShowActions(r)
      <3>1. request[r] \in Labelled
        BY <2>1, RequestFacts DEF ConsoleInv, ShowActions
      <3>2. request[r].statsButtonText # "Wait.."
        BY <3>1 DEF Labelled, Recordings
      <3> QED
        BY <2>1, <3>2, <1>5 DEF ShowActions
    <2>2. CASE ShowPauseResume(r)
      <3>1. stats' = stats /\ r \notin StatsRequests
        BY <2>2, Kinds DEF ShowPauseResume, StatsRequests
      <3> QED
        BY <3>1 DEF ConsoleInv, PageTypes
    <2>3. CASE ShowStats(r)
      <3>1. PICK label \in Recordings : label = IF request[r].action = "Record Stats"
                                                THEN "Stop Stats Recording" ELSE "Record Stats"
        BY DEF Recordings
      <3>2. stats' = [stats EXCEPT ![p] = label]
        BY <2>3, <3>1, <1>5 DEF ShowStats
      <3> QED
        BY <3>2 DEF Recordings
    <2> QED
      BY <2>1, <2>2, <2>3 DEF ShowStep
  <1>7. stats'[p] = new /\ \A q \in Pages \ {p} : stats'[q] = stats[q]
    BY <1>6 DEF ConsoleInv, PageTypes
  <1>8. ASSUME NEW q \in Pages, stats'[q] = "Wait.."
        PROVE  \E s \in StatsRequests' : request'[s].page = q
    <2>1. stats[q] = "Wait.." /\ (q = p => r \notin StatsRequests)
      BY <1>6, <1>7, <1>8
    <2>2. PICK s \in StatsRequests : request[s].page = q
      BY <2>1 DEF Awaited
    <2>3. s # r /\ s \in Requests
      BY <1>5, <2>1, <2>2 DEF StatsRequests
    <2> QED
      BY <1>3, <2>2, <2>3
  <1> QED
    BY <1>8 DEF Awaited

\* The way of a request through Mission Control, from one stage to the next.
LEMMA HandledBecomes ==
    ASSUME ConsoleInv, NEW r \in Requests, HandleStep(r)
    PROVE  \E stage : Becomes(r, stage) /\ stage # "none" /\ (stage = "dropped" => HandleStatsStep(r))
  <1>1. CASE HandleActions(r)
    <2>1. /\ request[r].action = "actions"
          /\ request' = [request EXCEPT ![r] =
                [stage |-> "answered", page |-> request[r].page, action |-> "actions",
                 pauseResumeButtonText |-> IF isPaused THEN "Pause" ELSE "Resume",
                 statsButtonText |-> IF isCollectingStats THEN "Stop Stats Recording"
                                                          ELSE "Record Stats"]]
      BY <1>1 DEF HandleActions, Arrived
    <2>2. Becomes(r, "answered")
      BY <2>1 DEF Becomes, OthersSame, ConsoleInv, PageTypes
    <2> QED
      BY <2>2
  <1>2. CASE HandlePauseResume(r)
    <2>1. request' = [request EXCEPT ![r].stage = "answered"]
      BY <1>2 DEF HandlePauseResume
    <2>2. request[r].stage = "sent" /\ request[r].action # "actions"
      BY <1>2, Kinds DEF HandlePauseResume, Arrived
    <2>3. "answered" \in Stage \ {"none"}
      BY DEF Stage
    <2>4. Becomes(r, "answered")
      BY <2>1, <2>2, <2>3, StageChanges DEF ConsoleInv
    <2> QED
      BY <2>4
  <1>3. CASE HandleStats(r)
    <2>1. request' = [request EXCEPT ![r].stage = "handling"]
      BY <1>3 DEF HandleStats
    <2>2. request[r].stage = "sent" /\ request[r].action \in Recordings
      BY <1>3 DEF HandleStats, Arrived, Recordings
    <2>3. Becomes(r, "handling")
      BY <2>1, <2>2, StageChanges DEF ConsoleInv, Stage
    <2> QED
      BY <2>3
  <1>4. CASE HandleStatsStep(r)
    BY <1>4, WorkEffect
  <1> QED
    BY <1>1, <1>2, <1>3, <1>4 DEF HandleStep

\* What Mission Control does with it leaves the buttons alone.
LEMMA HandledIsAwaited ==
    ASSUME ConsoleInv, Awaited, NEW r \in Requests, HandleStep(r)
    PROVE  Awaited'
  <1>1. UNCHANGED stats
    BY DEF HandleStep, HandleActions, HandlePauseResume, HandleStats, HandleStatsStep, pageVars
  <1>2. UnderWay(r)
    BY DEF HandleStep, HandleActions, HandlePauseResume, HandleStats, HandleStatsStep, Arrived, UnderWay
  <1>3. PICK stage : Becomes(r, stage) /\ stage # "none"
    BY HandledBecomes
  <1>4. /\ StatsRequests' = StatsRequests
        /\ \A q \in Requests : request'[q].page = request[q].page
    BY <1>2, <1>3, BecomesFacts
  <1> QED
    BY <1>1, <1>4 DEF Awaited, StatsRequests

LEMMA NextAwaited == ConsoleInv /\ Awaited /\ [Next]_vars => Awaited'
  <1> SUFFICES ASSUME ConsoleInv, Awaited, [Next]_vars
               PROVE  Awaited'
    OBVIOUS
  <1>1. ASSUME NEW p \in Pages, OpenPage(p) \/ ClickPauseResume(p)
        PROVE  Awaited'
    <2>1. UNCHANGED stats
      BY <1>1 DEF OpenPage, ClickPauseResume, pageVars
    <2>2. PICK action \in Action : Send(p, action)
      <3>1. pauseResume[p] \in Action /\ "actions" \in Action
        BY Kinds DEF ConsoleInv, PageTypes
      <3> QED
        BY <1>1, <3>1 DEF OpenPage, ClickPauseResume
    <2>3. PICK r \in Requests : Sends(r, p, action)
      BY <2>2, RequestSent DEF ConsoleInv
    <2>4. \A q \in StatsRequests : q \in StatsRequests' /\ request'[q] = request[q]
      BY <2>3, SentFacts DEF StatsRequests, UnderWay
    <2> QED
      BY <2>1, <2>4 DEF Awaited
  <1>2. CASE (\E t \in DOMAIN tasks : Tick(t)) \/ UNCHANGED vars
    <2>1. UNCHANGED <<stats, request>>
      BY <1>2 DEF Tick, vars, pageVars
    <2> QED
      BY <2>1 DEF Awaited, StatsRequests, UnderWay
  <1> QED
    BY <1>1, <1>2, HandledIsAwaited, ShownIsAwaited, ClickIsAwaited DEF Next

LEMMA NextDropped == ConsoleInv /\ DroppedInv /\ [Next]_vars => DroppedInv'
  <1> SUFFICES ASSUME ConsoleInv, DroppedInv, [Next]_vars,
                      NEW q \in Requests, request'[q].stage = "dropped"
               PROVE  unanswered' > 0
    BY DEF DroppedInv
  <1>1. unanswered \in Nat
    BY DEF ConsoleInv, CountInv
  <1>2. CASE request[q].stage = "dropped"
    <2>1. unanswered > 0
      BY <1>2 DEF DroppedInv
    <2>2. ASSUME NEW r \in Requests, HandleStatsStep(r)
          PROVE  unanswered' = unanswered \/ unanswered' = unanswered + 1
      BY <2>2, HandlerPlaces DEF HandleStatsStep, ConsoleInv
    <2>3. ASSUME NEW t \in DOMAIN tasks, Tick(t)
          PROVE  unanswered' = unanswered
      BY <2>3, TickFacts DEF Tick, ConsoleInv
    <2>4. ASSUME \/ \E r \in Requests : HandleActions(r) \/ HandlePauseResume(r) \/ HandleStats(r) \/ ShowStep(r)
                 \/ \E p \in Pages : OpenPage(p) \/ ClickPauseResume(p) \/ ClickStats(p)
                 \/ UNCHANGED vars
          PROVE  unanswered' = unanswered
      BY <2>4 DEF HandleActions, HandlePauseResume, HandleStats, Recorder!RecordStats,
                  Recorder!StopStatsRecording, ShowStep, ShowActions, ShowPauseResume, ShowStats,
                  OpenPage, ClickPauseResume, ClickStats, vars, recorderVars
    <2>5. unanswered' = unanswered \/ unanswered' = unanswered + 1
      BY <2>2, <2>3, <2>4 DEF Next, HandleStep
    <2> QED
      BY <1>1, <2>1, <2>5
  <1>3. CASE request[q].stage # "dropped"
    <2>1. ASSUME NEW r \in Requests, HandleStatsStep(r)
          PROVE  unanswered' > 0
      <3>1. q = r
        BY <1>3, <2>1, WorkEffect, BecomesFacts DEF Becomes, OthersSame
      <3>2. unanswered' # unanswered
        BY <1>3, <2>1, <3>1 DEF HandleStatsStep, ConsoleInv, PageTypes
      <3>3. unanswered' = unanswered + 1
        BY <2>1, <3>2, HandlerPlaces DEF HandleStatsStep, ConsoleInv
      <3> QED
        BY <1>1, <3>3
    <2>2. ASSUME NEW r \in Requests, HandleStep(r) \/ ShowStep(r), ~HandleStatsStep(r)
          PROVE  FALSE
      <3>1. CASE HandleStep(r) /\ ~HandleStatsStep(r)
        BY <1>3, <3>1, HandledBecomes DEF Becomes, OthersSame
      <3>2. CASE ShowStep(r)
        <4>1. request' = [request EXCEPT ![r] = NoRequest]
          BY <3>2 DEF ShowStep, ShowActions, ShowPauseResume, ShowStats
        <4>2. Frees(r)
          BY <4>1, RequestFreed DEF ConsoleInv
        <4> QED
          BY <1>3, <4>2 DEF Frees, OthersSame, NoRequest
      <3> QED
        BY <2>2, <3>1, <3>2 DEF HandleStep
    <2>3. ASSUME NEW p \in Pages, OpenPage(p) \/ ClickPauseResume(p) \/ ClickStats(p)
          PROVE  FALSE
      <3>1. PICK action : Send(p, action)
        BY <2>3 DEF OpenPage, ClickPauseResume, ClickStats
      <3> QED
        BY <1>3, <3>1 DEF Send, ConsoleInv, PageTypes
    <2>4. ASSUME (\E t \in DOMAIN tasks : Tick(t)) \/ UNCHANGED vars
          PROVE  FALSE
      BY <1>3, <2>4 DEF Tick, vars
    <2> QED
      BY <2>1, <2>2, <2>3, <2>4 DEF Next, HandleStep
  <1> QED
    BY <1>2, <1>3

\* A button waits for something: unless some user was hasty, or a file could not be
\* opened, Mission Control has the request or its answer is on the way.
WaitIsForAnswer ==
    \A p \in Pages : stats[p] = "Wait.." =>
        \/ hasty \/ openFailed
        \/ \E r \in Requests : /\ request[r].stage \in {"sent", "handling", "answered"}
                               /\ request[r].page = p /\ request[r].action \in StatsLabel

-----------------------------------------------------------------------------
\* The variables of page, requests and recorder keep their types (app.js and
\* Statistics.java), whatever the number of tabs and of requests under way.
THEOREM ConsoleTypeCorrect == Spec => []ConsoleTypeOK
  BY SpecInv, InvTypes, PTL

\* The label Wait.. takes the place of a lock: while no user is hasty, requests
\* for the recorder come one at a time, so start() and stop() of StatisticsRecorder
\* leave one recording, no exception and the state that the next request needs.
THEOREM OneAtATime == Spec => []WaitSerializes
  BY SpecInv, InvSerializes, PTL

\* statsButton of the only page that is open offers what can be done.
THEOREM ButtonIsRight == Spec => []StatsButtonFits
  BY SpecInv, InvButtonFits, PTL

\* Whatever was clicked before, the answer to one patient click makes pauseResumeButton tell
\* the truth.
THEOREM PauseRecovers == Spec => []PauseButtonRecovers
  BY SpecInv, InvRecovers, PTL

\* No button waits for an answer that nobody owes it: that is what is left of Wait..
\* coming to an end if nothing is said of fairness.
THEOREM WaitingIsOwed == Spec => []WaitIsForAnswer
  <1>1. Init => Awaited /\ DroppedInv
    <2> SUFFICES ASSUME Init
                 PROVE  Awaited /\ DroppedInv
      OBVIOUS
    <2>1. \A p \in Pages : stats[p] # "Wait.."
      BY DEF Init
    <2>2. \A r \in Requests : request[r].stage = "none"
      BY DEF Init, NoRequest
    <2> QED
      BY <2>1, <2>2 DEF Awaited, DroppedInv
  <1>2. ConsoleInv /\ Awaited /\ DroppedInv => WaitIsForAnswer
    <2> SUFFICES ASSUME ConsoleInv, Awaited, DroppedInv, NEW p \in Pages, stats[p] = "Wait..",
                        ~hasty, ~openFailed
                 PROVE  \E r \in Requests : /\ request[r].stage \in {"sent", "handling", "answered"}
                                            /\ request[r].page = p /\ request[r].action \in StatsLabel
      BY DEF WaitIsForAnswer
    <2>1. PICK r \in Requests : UnderWay(r) /\ request[r].action \in Recordings /\ request[r].page = p
      BY DEF Awaited, StatsRequests
    <2>2. unanswered = 0
      BY InvSerializes DEF WaitSerializes, Recorder!AllAnswered
    <2>3. request[r].stage # "dropped"
      BY <2>2 DEF DroppedInv
    <2>4. request[r].stage \in Stage
      BY RequestFacts DEF ConsoleInv
    <2> QED
      BY <2>1, <2>3, <2>4, Kinds DEF UnderWay, Stage
  <1> QED
    BY <1>1, <1>2, SpecInv, NextAwaited, NextDropped, PTL DEF Spec
=============================================================================
