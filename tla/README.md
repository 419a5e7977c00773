# Verification of the OpenFire load tester

The program puts an OpenFire server under load. A **publisher** rewrites the XML
state of many users and publishes it as PubSub events; a **subscriber** logs in as
all of these users and acknowledges what it receives; **Mission Control**, a small
HTTP server with a page for the browser, keeps the score: which events were
announced by the publisher, which were acknowledged by the subscriber. This
directory holds TLA+ models of the parts of the program, the TLC configurations
that check them, and proofs, checked by TLAPS, of all safety properties that the runs check.

Paths below are relative to `src/src/org/pxbu/tools/oftest/`.

## 1. Inventory

| component | state it keeps | operations | talks to |
|---|---|---|---|
| Bulk dispatcher `util/httpclient/HttpBulkData` | queue, one batch per worker thread, `isPaused` | `addMessage`, `isPaused`, the workers' `run` and `publish` | PUTs to Mission Control, calls back the owner of each item |
| Publisher `PublisherMain`, `publisher/*` | per user: loop counter, request id, payload | `ScenarioPlayer.run`, `UserModel.setState`, `eventSent` | hands messages to the dispatcher, is called back on its threads, publishes to OpenFire |
| Statistics `controller/api/Statistics`, `Users` | a row per user, the pause flag, `isCollectingStats` | PUT of events, of users; GET `clear`, `Pause`, `Resume`, `actions`, `unackevents`, the table | called by dispatchers and browsers on the threads of the HTTP server |
| Recorder `Statistics.StatisticsRecorder` | executor, stream, file | `start`, `stop`, a task once a second | called by the handler threads, reads the rows |
| Browser console `controller/resources/app.js` | the labels of two buttons, the table with its totals, the list of events, the settings | load, refresh, clear, list, pause/resume, record/stop, change and save settings | requests to Mission Control |
| Subscriber `SubscriberMain`, `util/xmpp/EventingService` | per agent: session, listener; latch, three counters | `MessagingAgent.run`, `init`, `doSubscriptions`, `handlePublishedItems` | OpenFire, and Mission Control through a dispatcher |
| OpenFire connection `util/xmpp/OpenfireClient` | none | `getXMPPConnection`, `getUsersInSystem` | OpenFire |
| BOSH sender `org/igniterealtime/jbosh/ApacheHTTPSender` | configuration and client, a *static* connection manager | `init`, `destroy`, `send` | called by the BOSH library |
| Configuration `controller/api/OpenfireConfig` | one file | GET, PUT | the page; read by publisher and subscriber at their start |
| Web report `controller/report/WebReport` | a cache of files | GET | browser |
| HTTP server `MissionControl`, `util/httpservice/HttpServiceUtil`, `ParameterFilter` | none | dispatch of requests to a work stealing pool, parsing of queries | all of the above |
| HTTP clients `LoadHttpClient`, `HttpClient` | pools of connections | blocking GET, PUT, POST | Mission Control, OpenFire |
| `src/ref_src` | | earlier load generator, not built by `pom.xml` | |

### What is hard

* **Threads without locks.** Handlers of the HTTP server, worker threads, players
  and agents share plain fields and lists: the payload of a user (`UserModel`), the
  rows of the table (`UserEvent`), the fields of the recorder, the pause flag.
* **Late callbacks.** `eventSent` runs on a worker's thread after the PUT is
  answered, and reads the payload the player meanwhile keeps rewriting.
* **Failure.** A failed PUT ends a worker and takes a batch with it; a handler that
  throws answers nothing and no client has a timeout; a login may fail in several
  ways; a session may end at any time.
* **Order.** The pause flag comes back with the answer to a PUT, in whatever order
  answers come; the recorder's task is scheduled before its file is open; an
  acknowledgement may be handled before the announcement of its event.
* **Reading while others write.** The page reads a table row by row, and a file that is
  emptied before it is written.

The list of hazards with their lines is in `PROJECT.json`; each is tied to the
properties that would catch it, or says why there is none yet.

### What makes each part correct

* Dispatcher: every item handed in is delivered at most once, confirmed only after
  delivery, and lost only with the batch of a failed PUT; nothing waits for ever
  while a worker lives.
* Publisher: every player hands in all its messages however often it is paused; an
  event is published only after its tracking message was delivered; resuming
  resumes.
* Statistics: announced minus acknowledged is what the row says.
* Recorder: one recording at a time; it writes; button, executor and files agree.
* Subscriber: the balance that is logged is final and right, and it is always drawn.
* Console: what a button offers is what is the case, and a click is answered.
* Table: what the page shows is no older than the click, right if nothing changed meanwhile, and
  counts no event twice.
* Configuration: a reader gets what some writer wrote, and a setting that nobody touched keeps
  its value.
* End to end: an announced event is listed as not received or counted as acknowledged, once;
  a received event is acknowledged in the end.

## 2. Modules

| module | models |
|---|---|
| `Delivery` | the abstract specification of a dispatcher: the life of an item |
| `BulkData` | `HttpBulkData` with its workers, and Mission Control's side of a PUT |
| `Publisher` | players, payloads and operator, composed with `BulkData` (`INSTANCE`) |
| `Statistics` | the table, its handlers, `Users` |
| `Recorder` | `StatisticsRecorder` and its task |
| `Console` | the two buttons with a label and `executeAction`, composed with `Recorder` |
| `TableView` | the table of the page and the reads it makes, an extension of `Statistics` (`EXTENDS`) |
| `Configuration` | `OpenfireConfig`, the settings of the page, the programs that read them |
| `BoshSender` | `ApacheHTTPSender` with the shared connection manager |
| `Subscriber` | agents, latch and main thread, composed with one `BoshSender` per session |
| `Tracking` | an event's way through publisher, OpenFire, subscriber and table: an extension of `Publisher`, with `Delivery` for the subscriber's dispatcher |
| `BulkDataProofs`, `PublisherProofs`, `TrackingProofs`, `ConfigurationProofs`, `StatisticsProofs`, `SubscriberProofs`, `ConsoleProofs`, `TableViewProofs` | theorems about the module of that name |
| `MC...` | instances for TLC: model values and small sets |

Operators called "Faulty variant" are slips that the code does not make. They are
never part of a specification; each is used in place of the step it stands next
to, to see that the property named in `PROJECT.json` notices.

### Delivery, BulkData

An item is `new`, `pending`, `delivered`, then `confirmed`, or `lost` from either of
the two states in between. `BulkData` has one action for each point where another
thread can see or change something:

| action | code |
|---|---|
| `AddMessage` | `addMessage`: `queue.add` |
| `Take`, `Flush` | the poll that returns an item and the one that times out; each with the test of `maxDispatchSize` that follows |
| `Handle`, `HandlerFails` | the handler in Mission Control (`Statistics.java:255-296`): it works through the batch and answers with the flag, or throws half-way and never answers |
| `ReceiveReply`, `NotifyItem`, `FinishPublish` | `sendPut` returns; one turn of the loop over the callbacks; `clear()` and the assignment of `isPaused` |
| `PutFails` | `sendPut` throws, before or after the handler ran: the thread ends |

`added`, `sent` and `deliveries` are history variables. `isPaused` is not volatile; it
is modelled as if it were, since every access to it sits next to an operation on the
queue, which synchronizes.

### Publisher

One player per user, with an action for every assignment to the payload that
another thread may see half-way (`BeginMessage`, `FillUserId`, `FillRequestId`), the call
of `addMessage` in two steps (the queue, then the flag it returns), the paused
turn `AwaitResume` with its `i--`, and `EventSent`, which is `Bulk!NotifyItem` together with the
callback. `SetPaused` is a click of the operator. The interval between messages, a time, and
the latch that nobody counts down (`PublisherMain.java:87`) are left out.

### Statistics

`userEvents` is the heap of `UserEvent` objects and `mapUserData` the
`ConcurrentHashMap` that refers to them, so a row that was replaced or cleared lives
on in the local variable of a handler. Looking up, creating, updating, and the reading and
storing of `totalAckEvents` are steps of their own. Two updates inside one
`ArrayList` at a time are a data race: its list may come out as any part of what
was in it and the new event, and the update may throw. `ledger` is a history
variable: what the rows should say. Reads (`getStatus`, `unackevents`) are in `TableView`.

### TableView

The page's three requests (`Reload`, `List`, `Clear`) are handled while the handlers of `Statistics`
go through their steps. Both reads go over the `ConcurrentHashMap` with an iterator that holds
the entry that comes next (`held`): a row put in its place is seen, its removal is not. The
fields of a row are read one after the other (`ReadFirst`, `ReadSecond`), in the order of
`getStatus`; `toArray()` of a list that is just being changed may return any part of it. `DrawCallback` is the
computation of the totals, written as sums over the agents shown. Fields are
read and written in program order; what a Java memory model would allow beyond that is not modelled.
`acked` and the fields `since`, `calm` and `acked` of a request are history. The module states what the
reporting programs guarantee and the properties rest on (`EventsAssumption`): as `UserModel.java:45` numbers the
events of a user and puts the user's name into each, an event is announced once, and acknowledged for the user for
whom it was announced. That is so during one run of the publisher; a second run numbers its events from the
beginning, and what the page shows then of events of both runs is not covered.

### Recorder

The fields `singleThreadExecutor` and `fos` are read anew by every step, as in the
code, also where `stop` reads one several times in a statement (`isTerminated()` after the null check, `shutdownNow()`
after another `isTerminated()`), when it may be null, or an executor of another request, by then; executors, tasks and files are numbered in the order they are created. A
`NullPointerException` in a handler ends the request unanswered (`Throws`), one in
the task ends its repetition (`EndTick`). The second that `stop` sleeps is just a
step between two others.

### Console

Every open page (a browser tab) has the labels of its two buttons, and sends
requests without waiting for each other; `request` says what is under way. They are
handled, and their answers shown, in any order. A click reads the label at that
moment: what the page was built with, what the answer to `actions` says, or what
the last answer left. A request for the recorder goes through `Recorder`'s steps under the
request's name; if the handler throws, the request is `dropped` and no answer comes.
`hasty` is a history variable: `statsButton` was clicked while another tab had a
request for it under way, or before the page had its labels. `restless` says of the last click on the
pause button that it was in a page without labels or did not wait for the answer to another, in any tab; a
click that waits ends it, so that `PauseButtonRecovers` speaks of what comes after the wildest clicks too. `lastShown` is the
tab that got the last answer. The other buttons are in `TableView` and
`Configuration`.

### Configuration

The file is `missing`, `empty` between the opening of a save and its write, `whole`, or `mixed`
if two saves overlapped and the longer left a rest behind the shorter. Each
save is a `Truncate` and a `Write`, each load one step; `FileFails` is the answer 500.
The fields of the file are all treated alike except for one thing: an input is cleared
by a field that is not there, a button keeps its text. So there is one of each, `input` and
`listenerType`. `Wide` holds the inputs with a character of more than one byte: the length of the
answer counts characters (`OpenfireConfig.java:103`), and writing the answer throws. `saved`, `touched`,
`wanted`, `outdated` and `careless` are history: what users meant to set, and whether
they waited for answers and reloaded what another tab had overtaken.

### BoshSender, Subscriber

`BoshSender` has one step per method, as each method holds the lock.  `Subscriber` has an
action for each way an agent's login can go on or fail in `getXMPPConnection`, `init` and
`doSubscriptions`, the latch and the counters, and a bounded pool of threads. What Smack, jBOSH
and OpenFire do is not in the repository: it is modelled from its use and marked
external. When a session ends the BOSH library destroys its sender; a session whose
connection manager is shut down is `cut` at its next request.

### Tracking

`Publish` is `Publisher`'s `EventSent` together with OpenFire, which keeps the order of a node's
items; `Receive` is `handlePublishedItems`, which throws at a payload without login id;
`Acknowledge` is `updateData` for a batch of acknowledgements. The subscriber's dispatcher is
`Delivery` itself, which `BulkData` is proved to implement; its workers
PUT any batch up to the limit. An update of the table is one step, since `Statistics` checks what overlapping
updates do. Nobody pauses.

## 3. Runs

| run | instance | shows |
|---|---|---|
| `bulk` | 2 workers, 4 items, batches of 2, 2 failures | type correctness, `NothingLost`, `NothingTwice`, `DeliveredAtMostOnce`, `LossBounded`; `ImplementsDelivery`; `EventuallySettled` |
| `publisher` | 1 player with 3 messages, 2 workers, batches of 2, 1 failure, 2 clicks | `CompleteMeansAll`, `TrackedBeforePublished`, `NeverOlder`, `RestIsForGood`, `CompletesUnlessPaused` |
| `publisher_resume` | 1 player with 2 messages, batches of 1, no failure, 2 clicks, fair | **violated**: `ResumeResumes` |
| `statistics` | 2 handlers, 2 users, 3 events in 4 batches, 1 clear or registration | `Accurate`, `NoCrossTalk` |
| `console` | 2 tabs, 2 requests under way, 4 clicks, any file may fail to open, fair | `WaitSerializes`, `StatsButtonFits`, `PauseButtonRecovers`, `WaitEnds`, `LaterRecordingsWrite` |
| `console_overlap` | 1 tab, 3 requests under way, 3 clicks | **violated**: `OneRecording` |
| `subscriber` | 3 agents on 2 threads, both protocols, 1 session ended | `VerdictIsRight`, `VerdictComes` |
| `subscriber_listening` | 2 agents, 1 session ended | **violated**: `ListeningIsConnected` |
| `configuration` | 2 tabs, 2 requests under way, 2 inputs (1 wide), 1 program, 4 clicks, 1 failure, fair | `RunsWithOneConfig`, `NoChangeLost`, `FormFits`, `LoadingEnds` |
| `table` | 2 handlers, 2 users, 2 batches, 1 registration or clear by others, 1 request of the page at a time, 2 clicks | `NeverOvercounts`, `QuietTotals`, `ClearShows`, `ListIsFresh` |
| `tracking` | 1 player with 3 messages, 2 workers, batches of 2, 1 failure, 1 lost batch of acknowledgements, fair | `EachCountedOnce`, `AckedWasReceived`, `InTimeIsAcknowledged` |
| `tracking_listed` | 1 player with 3 messages, 1 worker, no failure | **violated**: `ListedIsNotReceived` |

**Why the bounds are enough.** Two workers, handlers or agents are the least that
interleave, and the properties are about pairs (two places of an item, two
handlers of a row, two executors). Batches of two are below, at and above their
limit; four items fill two batches. `MaxFailures` equal to the number of workers
lets the dispatcher die completely. Three messages let a callback fall two
requests behind. Players share nothing but the dispatcher and the flag, so `publisher` and `tracking` run one
(two players without clicks are 6 million states in `publisher`). That what is counted for a user was published for the
same one is shown by the theorem `AckedReceived`, for any number of them. Four clicks are two recordings, the
first of which is special, or two of the other button in between. The run `console`
does not go on after a hasty click (`Patient`): its properties claim nothing there, and
the two violated runs do go on.
Three agents on two threads make one wait for a thread.
In `configuration` four clicks open two tabs and save in both, or open, change and save in
one and reopen it; more than one program would only start at other times, as programs do not see each
other. In `table` the page asks for one thing at a time: two clicks make a clear after a list,
or a reload during an update; `TableView` itself allows more (two requests under way with two clicks
are beyond five minutes). Two rows are enough for the iterator to hold one that is
removed. In `tracking` three messages let a callback publish a later event that is still in a
batch, and a third that is still to be announced.

**Deadlock** is not checked: players complete, all items are sent, all workers may
die, and operators need not click, so all of these systems may rightly stop. That
they do not stop too early is what the liveness properties say.

**Fairness.** Weak fairness of each thread's own steps: the threads of the pools
are scheduled, a poll times out, and a request under way is answered unless an
explicit failure action strikes. No fairness is assumed of the operator, of
`AddMessage` (in `BulkData`), of failures or of OpenFire. In `Recorder` and `Console` a task
that is due runs, and in `Console` requests arrive and answers are shown, while nobody
need open a page or click. In `Configuration` requests are handled and answers shown, in `Tracking` the
players and workers run, OpenFire sends what was published, and pending acknowledgements are handled or
lost. In `Subscriber` a call of the library returns or throws in the end (Smack's
own timeouts). Runs of liveness properties use no symmetry.

**Findings.** The violated properties are what the program's own texts say:

1. "Resuming event publish" (`Statistics.java:233`): the players' flag is refreshed only
   by answers to PUTs (`HttpBulkData.java:82`), and a publisher that has drained its
   queue while paused makes none. `RestIsForGood` shows that this rest never ends.
2. "Wont start since it is already running!" (`Statistics.java:85`): two overlapping
   requests start two recordings, and one tab is enough to make them, as the answer to
   the page load replaces `Wait..` (`app.js:34`). `WaitSerializes` shows that the label is
   otherwise all that keeps recordings apart.
3. "Listening" (`index.html:24`): the end of one BOSH session cuts off all
   others, through the static connection manager (`ApacheHTTPSender.java:138`).
4. "List Events Not Received" (`index.html:35`): `ScenarioPlayer.java:49` publishes the payload as
   it is when the callback runs, which may be that of a later event. Its acknowledgement
   may come before its announcement, is ignored (`Statistics.java:163`), and the event stays on the list.
   `InTimeIsAcknowledged` shows that no event is left over whose own callback came in time.

Other weaknesses show as the conditions of properties that hold: `Accurate` is about users
whose requests did not overlap, since overlapping updates of a row lose events; `LaterRecordingsWrite` begins with
the second recording, as the first may die before its file is open; `PauseButtonRecovers`
begins with the first click, as the label after a page load is the wrong one (`Statistics.java:237`);
`NoChangeLost` and `FormFits` need users who wait for answers, as every save writes the whole form;
`LoadingEnds` excepts characters of more than one byte.

## 4. Proofs

Each theorem holds for every value of the constants that the assumption of its module admits:
any sets of workers, players, handlers, tabs, requests and users, any bounds. The
assumptions say that bounds are natural numbers, that a batch, a thread pool and a scenario are not empty,
that a batch of `Statistics` is a sequence of reports of known kinds about users (an unknown kind ends
the process), that an event is announced once and acknowledged for its user (`EventsAssumption`, see
`TableView`), and that the set of agents, which comes from a list, is finite.

| module | theorem | states |
|---|---|---|
| `BulkDataProofs` | `TypeCorrect`, `SingleCopy`, `Conservation`, `AtMostOnce`, `LossIsBounded` | `[]BulkTypeOK`, `[]NothingTwice`, `[]NothingLost`, `[]DeliveredAtMostOnce`, `[]LossBounded` |
| | `Implementation` | `Spec => ImplementsDelivery` |
| `PublisherProofs` | `IsDispatcher` | `Spec => Bulk!Spec` |
| | `DispatcherIsSafe`, `PublisherDelivers` | the theorems of `BulkDataProofs`, for the publisher |
| | `PublisherTypeCorrect`, `OnlyTracked`, `NothingOlder`, `AllHandedIn` | `[]TypeOK`, `[]TrackedBeforePublished`, `[]NeverOlder`, `[]CompleteMeansAll` |
| | `RestRemains` | `Spec => RestIsForGood` |
| `TrackingProofs` | `TrackingPublishes` | `TrackingSpec => Spec` |
| | `CountedOnce`, `AckedReceived`, `TrackingTypeCorrect` | `[]EachCountedOnce`, `[]AckedWasReceived`, `[]TrackingTypeOK` |
| | `NoneNotifiedTwice` | `[]NotifiedOnce` |
| `ConfigurationProofs` | `ConfigurationTypeCorrect`, `OneConfig`, `ChangesSurvive`, `FormsShowFile` | `[]ConfigurationTypeOK`, `[]RunsWithOneConfig`, `[]NoChangeLost`, `[]FormFits` |
| | `LoadingIsOwed` | `[]LoadingIsForAnswer` |
| `StatisticsProofs` | `StatisticsTypeCorrect`, `NobodyElsesEvents`, `TableIsRight` | `[]StatisticsTypeOK`, `[]NoCrossTalk`, `[]Accurate` |
| `SubscriberProofs` | `SubscriberTypeCorrect`, `BalanceIsRight` | `[]SubscriberTypeOK`, `[]VerdictIsRight` |
| | `LatchIsRight` | `[]LatchFits` |
| `TableViewProofs` | `TableIsStatistics` | `TableSpec => Spec` |
| | `TableTypeCorrect`, `NothingOvercounted` | `[]TableTypeOK`, `[]NeverOvercounts` |
| | `ClearedIsGone`, `ShownListIsFresh`, `QuietTableIsRight` | `TableSpec => ClearShows`, `TableSpec => ListIsFresh`, `TableSpec => QuietTotals` |
| `ConsoleProofs` | `ConsoleTypeCorrect`, `OneAtATime`, `ButtonIsRight`, `PauseRecovers` | `[]ConsoleTypeOK`, `[]WaitSerializes`, `[]StatsButtonFits`, `[]PauseButtonRecovers` |
| | `WaitingIsOwed` | `[]WaitIsForAnswer` |

`NotifiedOnce`, `LoadingIsForAnswer`, `LatchFits` and `WaitIsForAnswer` are stated in the proof modules and belong to
no run. The last three are what is left of `LoadingEnds`, `VerdictComes` and `WaitEnds` without fairness:
nobody waits for an answer, or a count, that nobody owes.

None of the properties but a few is inductive as it stands; the invariants that are, and why they are needed:

**BulkData.** `BulkTypeOK` carries the sizes of the batches and is inductive by itself. So are
`NothingTwice` and `NothingLost` together with it: `NothingTwice` includes `OnePlace`, without which
`Take` could move an item next to a copy of itself. `DeliveredAtMostOnce` is not
inductive: that `Handle` delivers an item for the first time follows only from
`DeliveryStage`, which relates `deliveries` to the place of an item and to how far its worker is (0 in the
queue and before the PUT is handled, 1 afterwards). `BulkInv` is the conjunction of
the four. `LossBounded` needs that every stopped worker cost one failure and that
a batch is never larger than its limit; the bound is a union of batches, one per
stopped worker. The refinement maps each item's status (`ItemStatus`) and shows for each
action which step of `Delivery`, or stutter, it is; `BulkInv` says that an item of a failed
batch was not confirmed.

**Publisher.** Its steps are steps of `BulkData` (`IsDispatcher`), so the dispatcher's theorems are cited
through `INSTANCE BulkDataProofs` instead of being proved again. `PlayerInv` relates a player's three counters: the number
`generateRequestId` returns next runs ahead of the loop's `i` by how far the turn is, and what was handed in are all numbers
below it. It needs that a player that saw the flag is past its first turn (`pausedSeen => message > 0`), as `i--` at 0
would repeat nothing. `NeverOlder` holds because a payload names the last request or none (`Current`), and
`TrackedBeforePublished` because of `DeliveryStage`: callbacks run after the answer.
`RestIsForGood` is an action property: at rest no worker has anything to PUT, and only the answer to a PUT assigns the flag.

**Tracking.** `CountInv` says that listed and acknowledged events divide the announced ones and that the counter is the number of
the latter; it needs from the dispatcher that no event is announced twice. `AckedWasReceived` follows an event from its one
callback over the notification to the acknowledgement (`WayInv`), which has the same user; that it is no later event follows from `NeverOlder`. `NotifiedOnce` says that the model does not hide a
conflict where `Receive` hands in an item, which `Delivery` allows once: what OpenFire has still to send is
not in the subscriber's dispatcher yet, because a callback runs once for an event.

**Configuration.** `RunsWithOneConfig` needs that a file that is not empty begins with a configuration that was saved
(`SavedInv`). For careful users the forms cannot be compared with the file, which is empty while it is written: `CalmInv` compares both with `wanted`, what the users
last asked for. There is at most one save, with what is wanted in it, and none while a page waits for an answer that it will
show and that is not outdated. `LoadingIsForAnswer` uses that of the ways out of `loadConfig` that are no answer
each has a failed access or, by `SavedInv`, a saved wide character behind it.

**Statistics.** A handler may hold a row that was replaced or cleared, so the invariant speaks of every row ever
made: it has one owner, the user of its entry in the table or the users its holders are at, and has only events that were announced for
that user (`OwnerInv`). `Accurate` follows the single handler at a user whose requests do not overlap from the
look-up to the count it stores (`InStep`): what the row says, what the handler read and has still to store, and
the ledger are in step after each assignment.

**TableView.** What the page does changes nothing of the table (`TableIsStatistics`), so `StatisticsInv` holds of the
rows; `PageInv` adds what the requests refer to: an iterator's entry and a row that is being read exist, though they may
have left the table, and a handler is at work on each clear that is not answered.
`ClearShows` needs to follow the rows there were at the click through three
stages (`ClearFits`): the handler clears user by user while others add rows, which are later ones; then neither the table nor an
iterator has an earlier row; then nor has the answer. `QuietTotals` follows a read during which nothing changed (`CalmFits`): what
is neither read nor left to read is the held entry, all the rest agrees with the table, and the table with the ledger by
`Accurate`; the sums are then equal as sums of equal functions, whatever a sum is.
`NeverOvercounts` and `ListIsFresh` relate what is announced, listed, counted and read, at different times (`CountsInv`).
An announcement that is still to come is of an event that no row lists and no other announcement is of (`ComingInv`). So a
counted event, which has left its list, is in no list again (`AckedInv`), not even in a row that was replaced: each row ever
made has one user (`OwnInv`), no two list the same event (`ListInv`), and a user without overlapping requests has one handler,
which takes each event from one row once. A row's count, with the one that is being added, is therefore at most
the number of events settled for its user (`CountInv`). Of a row that is half read the count is bounded by what was settled, which only grows; when
the list is read later, its events are none of these, and the sum stays within what is announced (`SumsInv`).
That is the order of the reads in `getStatus`: the other way round an event may be in both.

**Subscriber.** `SubscriberInv` says that latch, `failCount`, `totalLoggedInUsers` and the listeners' reports are
the cardinalities of sets of agents, given by the place where an agent's thread is; each step moves one agent
from one set to another.

**Console.** `RecorderAt(place)` says, for each of the twelve places a request for the recorder may be at, which executor
is live, which file is open, whether the label agrees: the proof outline of `start()` and `stop()`, valid while
one request at a time is at work. That only one is follows from `WaitInv`: each such request has a page whose label is `Wait..`.
The rest relates labels to the recorder (`LabelInv`), to the one load of each page
(`LoadInv`) and to the flag (`PauseInv`). `StatsButtonFits` needs the label that an answer which is still under way will set.
Each part is conditional on a history variable. `hasty` only ever becomes true. `restless` ends with a click that finds no other
under way, so `PauseInv` may not ask for anything that such a click does not itself bring about: while it is under
way nothing is said of the labels.
`WaitIsForAnswer` holds because the request of a click stays under way until its answer, or an earlier one, changes the label
(`Awaited`), and a request that is dropped is counted as unanswered (`DroppedInv`), which `WaitSerializes` excludes.

Only model-checked: the liveness properties (`EventuallySettled`, `CompletesUnlessPaused`, `WaitEnds`,
`LaterRecordingsWrite`, `VerdictComes`, `LoadingEnds`, `InTimeIsAcknowledged`), which the prover
has no rules of fairness for, and the properties that are violated. What the sums in `DrawCallback` come to is
left to TLC as well: they are folds, which would need induction over data; `QuietTotals` compares two such sums and needs none.

## 5. Plan

Done, in this order: `Delivery`, `BulkData`, `BulkDataProofs`, `Publisher`,
`Statistics`, `Recorder`, `BoshSender`, `Subscriber`, `Console`, `Configuration`, `TableView`,
`Tracking`; then the proofs of `Publisher`, `Tracking`, `Configuration`, `Statistics`, `Subscriber`, `Console` and `TableView`.
Every invariant and action property of a passing run is proved now, and of three liveness properties the safety half.
Next: the same for `EventuallySettled`, `CompletesUnlessPaused` and `InTimeIsAcknowledged`, whose events and players should
always be at a place where some step can be taken.

### Not modelled

* `WebReport`, `FileUtil`: a cache of files that do not change; overlapping requests load the same
  contents twice, and a path without a file ends the process, one step.
* `MissionControl`, `HttpServiceUtil`, `ParameterFilter`: the server has no state and appears as
  the set of handler threads; the page sends at most one parameter, so `parseQuery` has one case.
* `LoadHttpClient`, `HttpClient`: blocking requests through a library, which appear as a request and its
  answer.
* The list of users that publisher and subscriber fetch at their start (`getUsersInSystem`): one
  blocking request before anything else runs; the SSL set-up.
* The interval between messages, times and rates; the wording of answers and log lines;
  the contents of a recorded line.
* The latch that nobody counts down (`PublisherMain.java:87`): nothing comes after it.
* `ref_src`, which is not built, and the vendored browser libraries.
