------------------------------ MODULE BulkData ------------------------------
(***************************************************************************)
(* util/httpclient/HttpBulkData.java: an unbounded queue drained by a      *)
(* fixed pool of worker threads, each of which collects a batch and PUTs   *)
(* it to Mission Control.  The publisher runs one of these for the events  *)
(* it is about to publish and the subscriber one for its acknowledgements. *)
(*                                                                         *)
(* A worker thread's loop is cut where other threads can see or change     *)
(* something: at queue.poll, at the sending of the PUT, at its arrival in  *)
(* Mission Control, at the reply, at each callback and at the final        *)
(* assignment of the shared isPaused flag.                                 *)
(***************************************************************************)
EXTENDS Naturals, Sequences, FiniteSets, Functions

CONSTANTS Workers,           \* the numWorkers threads of the pool
          Items,             \* the messages that addMessage is called with
          MaxDispatchSize,   \* maxDispatchSize: a batch of this size is sent
          MaxFailures        \* bound on the number of PUTs that fail

ASSUME BulkDataAssumption ==
    /\ MaxDispatchSize \in Nat \ {0}
    /\ MaxFailures \in Nat

VARIABLES
    queue,            \* HttpBulkData.queue
    isPaused,         \* HttpBulkData.isPaused, shared and unsynchronized
    worker,           \* where each worker thread is in run() and publish()
    retrievedItems,   \* WorkerThread.retrievedItems
    cursor,           \* how many items the loop over the callbacks has walked
    reply,            \* the answer to the worker's PUT, as a Boolean
    failures,         \* PUTs that have failed (bounded by MaxFailures)
    added,            \* history: items that addMessage was called with
    sent,             \* history: items whose publish() ran to its end
    deliveries        \* history: how often Mission Control got each item

bulkVars == <<queue, isPaused, worker, retrievedItems, cursor, reply, failures,
              added, sent, deliveries>>
historyVars == <<added, sent, deliveries>>

WorkerState == {"polling", "putting", "answered", "notifying", "dead", "hung"}
Stopped == {"dead", "hung"}

Init ==
    /\ queue = <<>>
    /\ isPaused = FALSE
    /\ worker = [w \in Workers |-> "polling"]
    /\ retrievedItems = [w \in Workers |-> <<>>]
    /\ cursor = [w \in Workers |-> 0]
    /\ reply = [w \in Workers |-> FALSE]
    /\ failures = 0
    /\ added = {}
    /\ sent = {}
    /\ deliveries = [i \in Items |-> 0]

-----------------------------------------------------------------------------
(* Faulty variants of steps below.  Each is a slip the code could have made   *)
(* and does not; TLC must find a property violated when one takes the place   *)
(* of the step it is named after.                                             *)

\* The batch list is created anew for every item.
TakeOverwrites(w) ==
    /\ worker[w] = "polling" /\ queue # <<>>
    /\ queue' = Tail(queue)
    /\ retrievedItems' = [retrievedItems EXCEPT ![w] = <<Head(queue)>>]
    /\ UNCHANGED <<isPaused, worker, cursor, reply, failures, added, sent, deliveries>>

\* queue.peek instead of queue.poll.
TakePeeks(w) ==
    /\ worker[w] = "polling" /\ queue # <<>>
    /\ retrievedItems' = [retrievedItems EXCEPT ![w] = Append(@, Head(queue))]
    /\ worker' = [worker EXCEPT ![w] =
                    IF Len(retrievedItems[w]) + 1 >= MaxDispatchSize
                    THEN "putting" ELSE "polling"]
    /\ UNCHANGED <<queue, isPaused, cursor, reply, failures, added, sent, deliveries>>

\* A batch is full once it exceeds maxDispatchSize.
TakeBeyondLimit(w) ==
    /\ worker[w] = "polling" /\ queue # <<>>
    /\ queue' = Tail(queue)
    /\ retrievedItems' = [retrievedItems EXCEPT ![w] = Append(@, Head(queue))]
    /\ worker' = [worker EXCEPT ![w] =
                    IF Len(retrievedItems[w]) >= MaxDispatchSize
                    THEN "putting" ELSE "polling"]
    /\ UNCHANGED <<isPaused, cursor, reply, failures, added, sent, deliveries>>

\* A poll that times out publishes even when no batch was begun.
FlushEmpty(w) ==
    /\ worker[w] = "polling" /\ queue = <<>>
    /\ worker' = [worker EXCEPT ![w] = "putting"]
    /\ UNCHANGED <<queue, isPaused, retrievedItems, cursor, reply, failures,
                   added, sent, deliveries>>

\* Only a full batch is ever sent: queue.take() instead of a poll with timeout.
FlushFullOnly(w) ==
    /\ worker[w] = "polling" /\ queue = <<>>
    /\ Len(retrievedItems[w]) >= MaxDispatchSize
    /\ worker' = [worker EXCEPT ![w] = "putting"]
    /\ UNCHANGED <<queue, isPaused, retrievedItems, cursor, reply, failures,
                   added, sent, deliveries>>

\* The callbacks run without waiting for the PUT.
ReceiveReplyEarly(w) ==
    /\ worker[w] \in {"putting", "answered"}
    /\ worker' = [worker EXCEPT ![w] = "notifying"]
    /\ cursor' = [cursor EXCEPT ![w] = 0]
    /\ UNCHANGED <<queue, isPaused, retrievedItems, reply, failures,
                   added, sent, deliveries>>

\* The batch is not cleared after it was sent.
FinishKeepsBatch(w) ==
    /\ worker[w] = "notifying"
    /\ cursor[w] = Len(retrievedItems[w])
    /\ sent' = sent \cup Range(retrievedItems[w])
    /\ isPaused' = reply[w]
    /\ worker' = [worker EXCEPT ![w] = "polling"]
    /\ UNCHANGED <<queue, retrievedItems, cursor, reply, failures, added, deliveries>>

-----------------------------------------------------------------------------
\* addMessage: queue.put never blocks, the queue has no capacity.  The caller
\* then reads isPaused; that read is a step of the caller's.
AddMessage(i) ==
    /\ i \notin added
    /\ queue' = Append(queue, i)
    /\ added' = added \cup {i}
    /\ UNCHANGED <<isPaused, worker, retrievedItems, cursor, reply, failures,
                   sent, deliveries>>

\* poll returns an item: it joins the batch, and a full batch is sent.
Take(w) ==
    /\ worker[w] = "polling"
    /\ queue # <<>>
    /\ queue' = Tail(queue)
    /\ retrievedItems' = [retrievedItems EXCEPT ![w] = Append(@, Head(queue))]
    /\ worker' = [worker EXCEPT ![w] =
                    IF Len(retrievedItems[w]) + 1 >= MaxDispatchSize
                    THEN "putting" ELSE "polling"]
    /\ UNCHANGED <<isPaused, cursor, reply, failures>>
    /\ UNCHANGED historyVars

\* poll times out, which it does only on an empty queue: a batch that was
\* begun is sent as it is.  With no batch begun the loop just polls again.
Flush(w) ==
    /\ worker[w] = "polling"
    /\ queue = <<>>
    /\ retrievedItems[w] # <<>>
    /\ worker' = [worker EXCEPT ![w] = "putting"]
    /\ UNCHANGED <<queue, isPaused, retrievedItems, cursor, reply, failures>>
    /\ UNCHANGED historyVars

\* Mission Control handles the PUT of w and answers with its pause flag.
Handle(w, paused) ==
    /\ worker[w] = "putting"
    /\ worker' = [worker EXCEPT ![w] = "answered"]
    /\ reply' = [reply EXCEPT ![w] = paused]
    /\ deliveries' = [i \in Items |-> IF i \in Range(retrievedItems[w])
                                      THEN deliveries[i] + 1 ELSE deliveries[i]]
    /\ UNCHANGED <<queue, isPaused, retrievedItems, cursor, failures, added, sent>>

\* sendPut returns.
ReceiveReply(w) ==
    /\ worker[w] = "answered"
    /\ worker' = [worker EXCEPT ![w] = "notifying"]
    /\ cursor' = [cursor EXCEPT ![w] = 0]
    /\ UNCHANGED <<queue, isPaused, retrievedItems, reply, failures>>
    /\ UNCHANGED historyVars

\* One turn of the loop that tells the owners of the items that they were sent.
NotifyItem(w) ==
    /\ worker[w] = "notifying"
    /\ cursor[w] < Len(retrievedItems[w])
    /\ cursor' = [cursor EXCEPT ![w] = @ + 1]
    /\ UNCHANGED <<queue, isPaused, worker, retrievedItems, reply, failures>>
    /\ UNCHANGED historyVars

\* publish() ends: the batch is cleared and only now the flag is stored.
FinishPublish(w) ==
    /\ worker[w] = "notifying"
    /\ cursor[w] = Len(retrievedItems[w])
    /\ sent' = sent \cup Range(retrievedItems[w])
    /\ retrievedItems' = [retrievedItems EXCEPT ![w] = <<>>]
    /\ isPaused' = reply[w]
    /\ worker' = [worker EXCEPT ![w] = "polling"]
    /\ UNCHANGED <<queue, cursor, reply, failures, added, deliveries>>

\* sendPut throws, before or after Mission Control handled the batch.  run()
\* catches it and ends the thread: nobody sends the batch again.
PutFails(w) ==
    /\ failures < MaxFailures
    /\ worker[w] \in {"putting", "answered"}
    /\ worker' = [worker EXCEPT ![w] = "dead"]
    /\ failures' = failures + 1
    /\ UNCHANGED <<queue, isPaused, retrievedItems, cursor, reply>>
    /\ UNCHANGED historyVars

\* The handler in Mission Control throws while it works through the batch.  It
\* swallows the exception and never answers, and the client has no timeout.
HandlerFails(w) ==
    /\ failures < MaxFailures
    /\ worker[w] = "putting"
    /\ worker' = [worker EXCEPT ![w] = "hung"]
    /\ failures' = failures + 1
    /\ \E n \in 0 .. Len(retrievedItems[w]) - 1 :
          deliveries' = [i \in Items |->
                           IF \E k \in 1 .. n : retrievedItems[w][k] = i
                           THEN deliveries[i] + 1 ELSE deliveries[i]]
    /\ UNCHANGED <<queue, isPaused, retrievedItems, cursor, reply, added, sent>>

-----------------------------------------------------------------------------
\* The steps of one worker thread, and those of the network and the server.
WorkerStep(w) == Take(w) \/ Flush(w) \/ ReceiveReply(w) \/ NotifyItem(w)
                 \/ FinishPublish(w)
ServerStep(w) == \E paused \in BOOLEAN : Handle(w, paused)
Failure(w) == PutFails(w) \/ HandlerFails(w)

Next ==
    \/ \E i \in Items : AddMessage(i)
    \/ \E w \in Workers : WorkerStep(w) \/ ServerStep(w) \/ Failure(w)

Spec == Init /\ [][Next]_bulkVars

\* The threads of the pool keep running, and a request that is not failed by
\* the environment is answered.  Nothing makes anybody add another message.
FairSpec ==
    /\ Spec
    /\ \A w \in Workers : WF_bulkVars(WorkerStep(w)) /\ WF_bulkVars(ServerStep(w))

-----------------------------------------------------------------------------
Queued(i)  == \E k \in 1 .. Len(queue) : queue[k] = i
HeldBy(w, i) == \E k \in 1 .. Len(retrievedItems[w]) : retrievedItems[w][k] = i

\* Every variable has its type, and a batch is never larger than its limit: it
\* is below the limit while the worker polls and not empty once it is sent.
BulkTypeOK ==
    /\ queue \in Seq(Items)
    /\ isPaused \in BOOLEAN
    /\ worker \in [Workers -> WorkerState]
    /\ retrievedItems \in [Workers -> Seq(Items)]
    /\ cursor \in [Workers -> Nat]
    /\ reply \in [Workers -> BOOLEAN]
    /\ failures \in 0 .. MaxFailures
    /\ added \in SUBSET Items
    /\ sent \in SUBSET Items
    /\ deliveries \in [Items -> Nat]
    /\ \A w \in Workers :
          /\ Len(retrievedItems[w]) =< MaxDispatchSize
          /\ worker[w] = "polling" => Len(retrievedItems[w]) < MaxDispatchSize
          /\ worker[w] # "polling" => retrievedItems[w] # <<>>
          /\ worker[w] = "notifying" => cursor[w] =< Len(retrievedItems[w])

\* No item that addMessage took is ever dropped silently: it waits in the queue,
\* sits in the batch of one of the workers (perhaps of a stopped one), or its
\* publish() has run to the end.
NothingLost ==
    \A i \in added : Queued(i) \/ i \in sent \/ \E w \in Workers : HeldBy(w, i)

\* An item that waits in the queue or sits in a batch was handed in, is not sent
\* yet, and is not in the other of the two.
OnePlace ==
    /\ sent \subseteq added
    /\ \A i \in Items :
          /\ Queued(i) => i \in added \ sent /\ \A w \in Workers : ~HeldBy(w, i)
          /\ \A w \in Workers : HeldBy(w, i) => i \in added \ sent

\* No item is in two places: not twice in the queue, not in two batches or twice
\* in one, and neither queued nor in a batch any more once it was sent.  The
\* workers share the queue without a lock of their own.
NothingTwice ==
    /\ \A j, k \in 1 .. Len(queue) : queue[j] = queue[k] => j = k
    /\ \A v, w \in Workers :
          \A j \in 1 .. Len(retrievedItems[v]), k \in 1 .. Len(retrievedItems[w]) :
             retrievedItems[v][j] = retrievedItems[w][k] => v = w /\ j = k
    /\ OnePlace

\* Mission Control gets no item twice, whatever fails: a worker that fails takes
\* its batch out of circulation, and one that succeeds clears it.
DeliveredAtMostOnce == \A i \in Items : deliveries[i] =< 1

\* The items that a worker took down with it when its PUT failed.
Lost == {i \in Items : \E w \in Workers : worker[w] \in Stopped /\ HeldBy(w, i)}

\* A failed PUT costs the one batch that was in it and nothing else.
LossBounded == Cardinality(Lost) =< MaxDispatchSize * failures

\* Every item handed in is sent, also one whose batch never fills, or is lost with
\* the batch of a failed PUT; only when every worker has stopped may it wait in the
\* queue for ever.
EventuallySettled ==
    \A i \in Items :
        i \in added ~> (i \in sent \/ i \in Lost \/ \A w \in Workers : worker[w] \in Stopped)

-----------------------------------------------------------------------------
\* The dispatcher implements Delivery: an item is delivered when its batch was
\* handled and confirmed when the loop over the callbacks has walked it.
Walked(w, i) == \E k \in 1 .. cursor[w] : retrievedItems[w][k] = i
Notified(i) == \E w \in Workers : worker[w] = "notifying" /\ Walked(w, i)
Delivered(i) == deliveries[i] > 0

ItemStatus(i) == IF i \notin added THEN "new"
                 ELSE IF i \in sent \/ Notified(i) THEN "confirmed"
                 ELSE IF i \in Lost THEN "lost"
                 ELSE IF Delivered(i) THEN "delivered"
                 ELSE "pending"

D == INSTANCE Delivery WITH status <- [i \in Items |-> ItemStatus(i)]

\* Every step of the threads is a step of the promised life cycle of the items:
\* at most one delivery, confirmation only after delivery, loss only of a whole
\* unconfirmed batch.
ImplementsDelivery == D!Spec
=============================================================================
